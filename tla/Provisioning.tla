---------------------------- MODULE Provisioning ----------------------------
(***************************************************************************)
(* Customers, and the spaces provisioned for them: /customer/add,          *)
(* /provider/add, and the list of services of a space that /space/info,    *)
(* /access/delegate, /index/add and /blob/add ask for.                     *)
(*                                                                         *)
(* /provider/add writes a subscription and then a consumer, in two calls   *)
(* of two stores and without a transaction: requests for one space         *)
(* interleave, and one can stop between its writes and be sent again.      *)
(* The ID of a subscription is a digest of the space alone, so the space   *)
(* stands for it.  Bound: MaxFails.                                        *)
(***************************************************************************)
EXTENDS Naturals, Sequences, SequencesExt

CONSTANTS
    Accounts,       \* did:mailto and did:plc accounts
    Others,         \* DIDs of other methods
    Spaces,         \* the spaces of clients: DIDs of the method key
    Services,       \* the providers a space can be provisioned with
    Allowed,        \* the ones this service is configured to provision
    Requests,       \* requests to provision, each sent again until answered
    Backends,
    MaxFails,       \* bound: store calls that fail
    None

ASSUME ProvisioningAssumption ==
    /\ Allowed \subseteq Services
    /\ None \notin Accounts \cup Others
    /\ Backends \subseteq {"postgres", "memory"}
    /\ MaxFails \in Nat

VARIABLES
    backend,        \* "postgres" or "memory"
    planless,       \* the deployment provisions accounts without a plan
    customers,      \* customer store: the accounts with a payment plan
    subs,           \* subscription store: the customer of <<service, space>>
    consumers,      \* consumer store, in the order of insertion
    calls,          \* the requests: [pc, account, space, service, out]
    fails           \* store calls that failed

stores == <<customers, subs, consumers>>
provisioning == <<backend, planless, stores, calls, fails>>

Idle == [pc |-> "idle", account |-> None, space |-> None, service |-> None, out |-> "none"]

\* Empty stores, and a deployment of either kind.
ProvisioningInit ==
    /\ backend \in Backends /\ planless \in BOOLEAN
    /\ customers = {}
    /\ subs = [k \in Services \X Spaces |-> None]
    /\ consumers = <<>>
    /\ calls = [r \in Requests |-> Idle]
    /\ fails = 0

----------------------------------------------------------------------------
\* The stores

\* Mutant: the key has the customer in it.
PgConsumerExistsFor(a, s, p) ==
    \E i \in DOMAIN consumers : consumers[i] = [account |-> a, space |-> s, service |-> p]

\* The key of a consumer is its subscription, which is its space, and its
\* service; the memory store compares the customer too.
PgConsumerExists(a, s, p) ==
    \E i \in DOMAIN consumers : consumers[i].service = p /\ consumers[i].space = s

MemConsumerExists(a, s, p) ==
    \E i \in DOMAIN consumers : consumers[i] = [account |-> a, space |-> s, service |-> p]

ConsumerExists(a, s, p) ==
    IF backend = "postgres" THEN PgConsumerExists(a, s, p) ELSE MemConsumerExists(a, s, p)

AddConsumerRow(a, s, p) ==
    consumers' = Append(consumers, [account |-> a, space |-> s, service |-> p])

\* Get: the row of a service and a space; the memory store has the first.
GetConsumer(p, s) ==
    LET is == {j \in DOMAIN consumers : consumers[j].service = p /\ consumers[j].space = s}
    IN  IF is = {} THEN None ELSE consumers[CHOOSE i \in is : \A j \in is : i <= j].account

GetSubscription(p, s) == subs[<<p, s>>]

\* Each service once, however many of its consumers the space has.
ListServiceProviders(s) ==
    {consumers[i].service : i \in {j \in DOMAIN consumers : consumers[j].space = s}}

\* Mutant: the last customer's subscription stays.
AddSubscriptionRowLast(a, s, p) == subs' = [subs EXCEPT ![<<p, s>>] = a]

\* The first customer's subscription stays.
AddSubscriptionRow(a, s, p) ==
    subs' = IF subs[<<p, s>>] = None THEN [subs EXCEPT ![<<p, s>>] = a] ELSE subs

CustomerExists(a) == a \in customers

PaymentPlanMissing(a) == a \notin customers

----------------------------------------------------------------------------
\* The handlers

\* /customer/add: the service registers a customer; one that exists is refused.
CustomerAdd(a) ==
    /\ ~CustomerExists(a)
    /\ customers' = customers \cup {a}
    /\ UNCHANGED <<backend, planless, subs, consumers, calls, fails>>

Answer(r, out) == calls' = [calls EXCEPT ![r].pc = "answered", ![r].out = out]

\* Mutant: no subscription is written.
BeginProvisionAtConsumer(r, a, s, p) ==
    /\ calls[r].pc = "idle"
    /\ calls' = [calls EXCEPT ![r] = [pc |-> "consume", account |-> a, space |-> s,
                                       service |-> p, out |-> "none"]]
    /\ UNCHANGED <<backend, planless, stores, fails>>

BeginProvision(r, a, s, p) ==
    /\ calls[r].pc = "idle"
    /\ calls' = [calls EXCEPT ![r] = [pc |-> "subscribe", account |-> a, space |-> s,
                                       service |-> p, out |-> "none"]]
    /\ UNCHANGED <<backend, planless, stores, fails>>

\* Mutant: the payment plan is not asked for.
ProviderAddUnplanned(r, a, s, p) ==
    a \in Accounts /\ p \in Allowed /\ BeginProvision(r, a, s, p)

\* /provider/add up to its first write.  It is refused, and nothing changes,
\* for a DID that is no account (InvalidAccount), an account without a plan
\* (AccountPlanMissing) and a service that is not allowed (ProviderNotAllowed).
ProviderAdd(r, a, s, p) ==
    /\ a \in Accounts
    /\ planless \/ ~PaymentPlanMissing(a)
    /\ p \in Allowed
    /\ BeginProvision(r, a, s, p)

\* Mutant: a subscription that exists is an error.
AddSubscriptionStrict(r) ==
    LET c == calls[r] IN
    /\ c.pc = "subscribe"
    /\ AddSubscriptionRow(c.account, c.space, c.service)
    /\ calls' = [calls EXCEPT ![r].pc =
                   IF subs[<<c.service, c.space>>] = None THEN "consume" ELSE "failed"]
    /\ UNCHANGED <<backend, planless, customers, consumers, fails>>

\* Provision, first write: a subscription that exists is taken for granted.
AddSubscription(r) ==
    LET c == calls[r] IN
    /\ c.pc = "subscribe"
    /\ AddSubscriptionRow(c.account, c.space, c.service)
    /\ calls' = [calls EXCEPT ![r].pc = "consume"]
    /\ UNCHANGED <<backend, planless, customers, consumers, fails>>

\* Provision, second write: a consumer that exists is an error.
AddConsumer(r) ==
    LET c == calls[r] IN
    /\ c.pc = "consume"
    /\ IF ConsumerExists(c.account, c.space, c.service)
       THEN Answer(r, "ConsumerExists") /\ UNCHANGED consumers
       ELSE Answer(r, "ok") /\ AddConsumerRow(c.account, c.space, c.service)
    /\ UNCHANGED <<backend, planless, customers, subs, fails>>

\* A write fails, or the server stops before it.
ProvisionFails(r) ==
    /\ calls[r].pc \in {"subscribe", "consume"} /\ fails < MaxFails
    /\ calls' = [calls EXCEPT ![r].pc = "failed"]
    /\ fails' = fails + 1
    /\ UNCHANGED <<backend, planless, stores>>

\* The account sends a request that failed again.
ProvisionAgain(r) ==
    /\ calls[r].pc = "failed"
    /\ calls' = [calls EXCEPT ![r].pc = "subscribe"]
    /\ UNCHANGED <<backend, planless, stores, fails>>

ProvisioningNext ==
    \/ \E a \in Accounts : CustomerAdd(a)
    \/ \E r \in Requests :
          \/ \E a \in Accounts \cup Others, s \in Spaces, p \in Services : ProviderAdd(r, a, s, p)
          \/ AddSubscription(r) \/ AddConsumer(r) \/ ProvisionFails(r) \/ ProvisionAgain(r)

\* A handler that runs comes to its end, and a client sends what failed again.
ProvisioningFairness ==
    \A r \in Requests :
        WF_provisioning(AddSubscription(r) \/ AddConsumer(r) \/ ProvisionAgain(r))

----------------------------------------------------------------------------
\* Properties

\* /space/info, which refuses a DID of another method than key.
SpaceInfo(s) == ListServiceProviders(s)

\* Types of the provisioning state.
ProvisioningTypeOK ==
    /\ customers \subseteq Accounts
    /\ subs \in [Services \X Spaces -> Accounts \cup {None}]
    /\ consumers \in Seq([account : Accounts, space : Spaces, service : Services])
    /\ \A r \in Requests :
         /\ calls[r].pc \in {"idle", "subscribe", "consume", "failed", "answered"}
         /\ calls[r].pc \in {"subscribe", "consume", "failed"} => calls[r].account \in Accounts

Succeeded(r) == calls[r].pc = "answered" /\ calls[r].out = "ok"

SameTarget(q, r) == calls[q].space = calls[r].space /\ calls[q].service = calls[r].service

\* "ErrConsumerExists if the consumer is already provisioned for the provider"
\* (Provision), in Postgres, whichever way requests interleave and however
\* often they are sent again: of the requests that provision a space with a
\* service at most one succeeds.  The memory store provisions the space once
\* for every account that asks.
ProvisionedOnce ==
    \A q, r \in Requests :
        q # r /\ Succeeded(q) /\ Succeeded(r) /\ SameTarget(q, r) =>
            backend = "memory" /\ calls[q].account # calls[r].account

\* A consumer has a subscription.  The two name the same account, unless the
\* subscription's account asked for the same space and its request was
\* overtaken, or failed, between its two writes: one account alone cannot bring
\* them apart by failing and asking again.
SubscriptionAgrees ==
    \A p \in Services, s \in Spaces : GetConsumer(p, s) # None =>
        /\ GetSubscription(p, s) # None
        /\ GetSubscription(p, s) # GetConsumer(p, s) =>
             \E r \in Requests : /\ calls[r].account = GetSubscription(p, s)
                                 /\ calls[r].space = s /\ calls[r].service = p
                                 /\ backend = "postgres" => ~Succeeded(r)

Agree(p, s) == GetConsumer(p, s) # None /\ GetSubscription(p, s) = GetConsumer(p, s)

\* Once the subscription and the consumer of a space name the same account,
\* they do for ever: no later request, of whichever account, moves either.
AgreementLasts ==
    [][\A p \in Services, s \in Spaces :
          Agree(p, s) => Agree(p, s)' /\ GetConsumer(p, s)' = GetConsumer(p, s)]_provisioning

\* A request that got past its checks leaves the space provisioned, however
\* often it stops between its two writes: sent again, it is not refused for the
\* subscription it left behind.
ProvisionCompletes ==
    \A r \in Requests :
        (calls[r].pc = "subscribe") ~>
            (calls[r].pc = "answered" /\ calls[r].service \in SpaceInfo(calls[r].space))
=============================================================================
