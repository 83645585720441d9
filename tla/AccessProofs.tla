---------------------------- MODULE AccessProofs ----------------------------
(***************************************************************************)
(* Proofs about provisioning and access: the safety properties that the    *)
(* access run checks, for any accounts, spaces, services, requests, agents *)
(* and executions, and any number of failures.                             *)
(***************************************************************************)
EXTENDS Access, TLAPS, SequenceTheorems, WellFoundedInduction

Rows == [account : Accounts, space : Spaces, service : Services]

Calls == [pc : {"idle", "subscribe", "consume", "failed", "answered"},
          account : Accounts \cup {None}, space : Spaces \cup {None},
          service : Services \cup {None}, out : {"none", "ok", "ConsumerExists"}]

\* Types of the provisioning state.
StoresOK ==
    /\ backend \in {"postgres", "memory"}
    /\ customers \subseteq Accounts
    /\ subs \in [Services \X Spaces -> Accounts \cup {None}]
    /\ consumers \in Seq(Rows)
    /\ calls \in [Requests -> Calls]

\* The consumer a request asks for.
Target(r) == [account |-> calls[r].account, space |-> calls[r].space,
              service |-> calls[r].service]

MayPay(a) == planless \/ a \in customers

\* What a request that got past its checks carries.
CallOK(r) ==
    /\ calls[r].pc # "idle" =>
          /\ Target(r) \in Rows
          /\ calls[r].service \in Allowed
          /\ MayPay(calls[r].account)
    /\ calls[r].pc = "consume" => subs[<<calls[r].service, calls[r].space>>] # None
    /\ Succeeded(r) => \E i \in DOMAIN consumers : consumers[i] = Target(r)

\* What a consumer is backed by.
ConsumerOK(row) ==
    /\ row.service \in Allowed
    /\ MayPay(row.account)
    /\ subs[<<row.service, row.space>>] # None

UniqueConsumers ==
    backend = "postgres" =>
        \A i, k \in DOMAIN consumers :
            consumers[i].service = consumers[k].service /\ consumers[i].space = consumers[k].space
                => i = k

\* A subscription was asked for by its account.
SubscriptionAsked ==
    \A p \in Services, s \in Spaces : subs[<<p, s>>] # None =>
        \E r \in Requests : /\ calls[r].pc # "idle"
                            /\ Target(r) = [account |-> subs[<<p, s>>], space |-> s, service |-> p]

ProvisioningInv ==
    /\ StoresOK
    /\ \A r \in Requests : CallOK(r)
    /\ \A i \in DOMAIN consumers : ConsumerOK(consumers[i])
    /\ UniqueConsumers
    /\ SubscriptionAsked
    /\ ProvisionedOnce

----------------------------------------------------------------------------
Whats == {"account", "space"} \cup ToSet(Attenuations)

Tokens == [job : Jobs, from : Confirms \cup Spaces, agent : Agents, what : Whats]

JobStates == [pc : {"idle", "object", "row", "publish", "failed", "answered"},
              op : {"none", "confirm", "delegate", "index"},
              source : Confirms \cup Spaces \cup {None},
              todo : Seq(Tokens), put : SUBSET Tokens]

\* Types of the access state.
AccessOK ==
    /\ mail \in [Confirms -> [status : {"none", "sent", "expired"},
                              account : Accounts \cup {None}, agent : Agents \cup {None}]]
    /\ jobs \in [Jobs -> JobStates]
    /\ objects \subseteq Tokens /\ index \subseteq Tokens
    /\ published \subseteq Spaces

MailOK ==
    \A c \in Confirms : mail[c].status # "none" => mail[c].account \in Mailto /\ mail[c].agent \in Agents

Served(s) == \E i \in DOMAIN consumers : consumers[i].space = s

\* A delegation that execution j stores; a confirmation makes its own.
Own(j, t) ==
    /\ jobs[j].op \in {"confirm", "delegate"}
    /\ t.from = jobs[j].source
    /\ jobs[j].op = "confirm" => t.job = j /\ t.agent = mail[jobs[j].source].agent

\* Where an execution comes from.
SourceOK(j) ==
    /\ jobs[j].op = "confirm" => jobs[j].source \in Confirms /\ mail[jobs[j].source].status # "none"
    /\ jobs[j].op \in {"delegate", "index"} => jobs[j].source \in Spaces /\ Served(jobs[j].source)
    /\ jobs[j].pc = "publish" => jobs[j].op = "index"

\* What an execution has still to store.
TodoOK(j) ==
    /\ jobs[j].pc \in {"object", "row"} => jobs[j].todo # <<>>
    /\ jobs[j].pc = "row" => Head(jobs[j].todo) \in objects /\ backend = "postgres"
    /\ \A i \in DOMAIN jobs[j].todo : Own(j, jobs[j].todo[i])
    /\ jobs[j].op = "confirm" /\ jobs[j].pc \in {"object", "row"} /\ jobs[j].put = {} =>
          Head(jobs[j].todo).what = "account"

\* What an execution has stored.
PutOK(j) ==
    /\ jobs[j].pc = "idle" => jobs[j].put = {}
    /\ jobs[j].pc = "object" /\ backend = "memory" => jobs[j].put = {}
    /\ jobs[j].put \subseteq index
    /\ \A t \in jobs[j].put : Own(j, t)
    /\ jobs[j].op = "confirm" /\ jobs[j].put # {} => \E u \in jobs[j].put : u.what = "account"

\* A row was stored by some execution, and its object before it.
IndexOK ==
    \A t \in index : /\ \E j \in Jobs : t \in jobs[j].put
                     /\ backend = "postgres" => t \in objects

AccessInv ==
    /\ AccessOK
    /\ MailOK
    /\ \A j \in Jobs : SourceOK(j) /\ TodoOK(j) /\ PutOK(j)
    /\ IndexOK
    /\ \A s \in published : Served(s)

IInv == ProvisioningInv /\ AccessInv

----------------------------------------------------------------------------
\* Provisioning

\* What appending a consumer does to the rows.
LEMMA AppendFacts ==
    ASSUME NEW S, NEW q \in Seq(S), NEW e \in S
    PROVE  /\ Append(q, e) \in Seq(S)
           /\ DOMAIN Append(q, e) = DOMAIN q \cup {Len(q) + 1}
           /\ Len(q) + 1 \notin DOMAIN q
           /\ \A i \in DOMAIN q : Append(q, e)[i] = q[i]
           /\ Append(q, e)[Len(q) + 1] = e
    OBVIOUS

\* Nothing in the provisioning state changes but the count of failures.
LEMMA ProvisioningStutter ==
    ASSUME ProvisioningInv, UNCHANGED <<backend, planless, stores, calls>>
    PROVE  ProvisioningInv'
    <1> USE DEF stores
    <1>1. StoresOK'
        BY DEF ProvisioningInv, StoresOK
    <1>2. \A r \in Requests : CallOK(r)'
        BY DEF ProvisioningInv, CallOK, Target, Succeeded, MayPay
    <1>3. \A i \in DOMAIN consumers' : ConsumerOK(consumers[i])'
        BY DEF ProvisioningInv, ConsumerOK, MayPay
    <1>4. UniqueConsumers' /\ ProvisionedOnce'
        BY DEF ProvisioningInv, UniqueConsumers, ProvisionedOnce, SameTarget, Succeeded
    <1>5. SubscriptionAsked'
        BY DEF ProvisioningInv, SubscriptionAsked, Target
    <1> QED
        BY <1>1, <1>2, <1>3, <1>4, <1>5 DEF ProvisioningInv

\* A request that was made stays made, for the same consumer.
LEMMA AskedStays ==
    ASSUME SubscriptionAsked, UNCHANGED subs,
           \A q \in Requests : calls[q].pc # "idle" =>
               calls'[q].pc # "idle" /\ Target(q)' = Target(q)
    PROVE  SubscriptionAsked'
    <1> SUFFICES ASSUME NEW p \in Services, NEW s \in Spaces, subs[<<p, s>>] # None
                 PROVE  \E r \in Requests : /\ calls'[r].pc # "idle"
                                            /\ Target(r)' = [account |-> subs[<<p, s>>],
                                                             space |-> s, service |-> p]
        BY DEF SubscriptionAsked
    <1> PICK r \in Requests : /\ calls[r].pc # "idle"
                              /\ Target(r) = [account |-> subs[<<p, s>>], space |-> s, service |-> p]
        BY DEF SubscriptionAsked
    <1> QED
        OBVIOUS

\* An account that may pay still may: plans are never taken back.
LEMMA PlansStay ==
    ASSUME UNCHANGED planless, customers \subseteq customers'
    PROVE  \A a : MayPay(a) => MayPay(a)'
    BY DEF MayPay

\* /customer/add keeps the invariant.
LEMMA CustomerAddKeeps ==
    ASSUME ProvisioningInv, NEW a \in Accounts, CustomerAdd(a)
    PROVE  ProvisioningInv'
    <1> USE DEF CustomerAdd
    <1>1. StoresOK'
        BY DEF ProvisioningInv, StoresOK
    <1>2. \A b : MayPay(b) => MayPay(b)'
        BY PlansStay
    <1>3. \A r \in Requests : CallOK(r)'
        BY <1>2 DEF ProvisioningInv, CallOK, Target, Succeeded, MayPay
    <1>4. \A i \in DOMAIN consumers : ConsumerOK(consumers[i])'
        BY <1>2 DEF ProvisioningInv, ConsumerOK, MayPay
    <1>5. UniqueConsumers' /\ SubscriptionAsked' /\ ProvisionedOnce'
        BY DEF ProvisioningInv, UniqueConsumers, SubscriptionAsked, ProvisionedOnce, SameTarget,
               Succeeded, Target
    <1> QED
        BY <1>1, <1>3, <1>4, <1>5 DEF ProvisioningInv

\* /provider/add up to its first write keeps the invariant.
LEMMA ProviderAddKeeps ==
    ASSUME ProvisioningInv, NEW r \in Requests, NEW a \in Accounts \cup Others, NEW s \in Spaces,
           NEW p \in Services, ProviderAdd(r, a, s, p)
    PROVE  ProvisioningInv'
    <1> USE DEF ProviderAdd, BeginProvision, stores
    <1>1. /\ a \in Accounts /\ p \in Allowed /\ MayPay(a)
          /\ calls[r].pc = "idle"
          /\ UNCHANGED <<backend, planless, customers, subs, consumers>>
        BY DEF MayPay, PaymentPlanMissing
    <1>2. calls' = [calls EXCEPT ![r] = [pc |-> "subscribe", account |-> a, space |-> s,
                                         service |-> p, out |-> "none"]]
        BY DEF Idle
    <1>3. StoresOK'
        BY <1>1, <1>2 DEF ProvisioningInv, StoresOK, Calls
    <1>4. \A q \in Requests : q # r => calls'[q] = calls[q]
        BY <1>2 DEF ProvisioningInv, StoresOK
    <1>5. calls'[r] = [pc |-> "subscribe", account |-> a, space |-> s, service |-> p, out |-> "none"]
        BY <1>2 DEF ProvisioningInv, StoresOK
    <1>6. ASSUME NEW q \in Requests PROVE CallOK(q)'
        <2>1. CASE q = r
            BY <1>1, <1>5, <2>1 DEF CallOK, Target, Succeeded, Rows, MayPay
        <2>2. CASE q # r
            BY <1>1, <1>4, <2>2 DEF ProvisioningInv, CallOK, Target, Succeeded, MayPay
        <2> QED BY <2>1, <2>2
    <1>7. \A i \in DOMAIN consumers' : ConsumerOK(consumers[i])'
        BY <1>1 DEF ProvisioningInv, ConsumerOK, MayPay
    <1>8. UniqueConsumers'
        BY <1>1 DEF ProvisioningInv, UniqueConsumers
    <1>9. SubscriptionAsked'
        <2>1. \A q \in Requests : calls[q].pc # "idle" =>
                 calls'[q].pc # "idle" /\ Target(q)' = Target(q)
            BY <1>1, <1>4 DEF Target
        <2> QED BY <1>1, <2>1, AskedStays DEF ProvisioningInv
    <1>10. ProvisionedOnce'
        BY <1>1, <1>4, <1>5 DEF ProvisioningInv, ProvisionedOnce, SameTarget, Succeeded
    <1> QED
        BY <1>3, <1>6, <1>7, <1>8, <1>9, <1>10 DEF ProvisioningInv

\* The first write of Provision keeps the invariant.
LEMMA AddSubscriptionKeeps ==
    ASSUME ProvisioningInv, NEW r \in Requests, AddSubscription(r)
    PROVE  ProvisioningInv'
    <1> DEFINE a == calls[r].account
               s == calls[r].space
               p == calls[r].service
    <1> USE DEF AddSubscription, AddSubscriptionRow
    <1>1. /\ a \in Accounts /\ s \in Spaces /\ p \in Services
          /\ calls[r].pc = "subscribe"
          /\ calls' = [calls EXCEPT ![r].pc = "consume"]
          /\ UNCHANGED <<backend, planless, customers, consumers>>
        BY DEF ProvisioningInv, CallOK, Target, Rows
    <1>2. a # None
        BY <1>1, ProvisioningAssumption
    <1>3. StoresOK'
        BY <1>1 DEF ProvisioningInv, StoresOK, Calls
    <1>4. \A q \in Requests : Target(q)' = Target(q)
        BY <1>1 DEF ProvisioningInv, StoresOK, Calls, Target
    <1>5. \A q \in Requests : q # r => calls'[q] = calls[q]
        BY <1>1 DEF ProvisioningInv, StoresOK
    <1>6. calls'[r].pc = "consume"
        BY <1>1 DEF ProvisioningInv, StoresOK, Calls
    <1>7. /\ subs'[<<p, s>>] # None
          /\ subs[<<p, s>>] # None => subs'[<<p, s>>] = subs[<<p, s>>]
          /\ subs[<<p, s>>] = None => subs'[<<p, s>>] = a
        BY <1>1, <1>2 DEF ProvisioningInv, StoresOK
    <1>8. \A o \in Services, x \in Spaces : <<o, x>> # <<p, s>> => subs'[<<o, x>>] = subs[<<o, x>>]
        BY <1>1 DEF ProvisioningInv, StoresOK
    <1>9. \A o \in Services, x \in Spaces : subs[<<o, x>>] # None => subs'[<<o, x>>] # None
        BY <1>7, <1>8
    <1>10. ASSUME NEW q \in Requests PROVE CallOK(q)'
        <2>1. CASE q = r
            <3>1. Target(r)' \in Rows /\ p \in Allowed /\ MayPay(a)
                BY <1>1, <1>4 DEF ProvisioningInv, CallOK
            <3>2. calls'[r].account = a /\ calls'[r].space = s /\ calls'[r].service = p
                BY <1>1 DEF ProvisioningInv, StoresOK, Calls
            <3> QED BY <1>1, <1>6, <1>7, <2>1, <3>1, <3>2 DEF CallOK, Succeeded, MayPay
        <2>2. CASE q # r
            <3>1. calls[q].pc # "idle" => calls[q].service \in Services /\ calls[q].space \in Spaces
                BY DEF ProvisioningInv, CallOK, Target, Rows
            <3> QED BY <1>1, <1>5, <1>9, <2>2, <3>1 DEF ProvisioningInv, CallOK, Target, Succeeded, MayPay
        <2> QED BY <2>1, <2>2
    <1>11. \A i \in DOMAIN consumers' : ConsumerOK(consumers[i])'
        <2> SUFFICES ASSUME NEW i \in DOMAIN consumers PROVE ConsumerOK(consumers[i])'
            BY <1>1
        <2>0. consumers \in Seq(Rows)
            BY DEF ProvisioningInv, StoresOK
        <2>1. consumers[i] \in Rows
            BY <2>0
        <2>2. consumers[i].service \in Services /\ consumers[i].space \in Spaces
            BY <2>1 DEF Rows
        <2> QED BY <1>1, <1>9, <2>2 DEF ProvisioningInv, ConsumerOK, MayPay
    <1>12. UniqueConsumers'
        BY <1>1 DEF ProvisioningInv, UniqueConsumers
    <1>13. SubscriptionAsked'
        <2> SUFFICES ASSUME NEW o \in Services, NEW x \in Spaces, subs'[<<o, x>>] # None
                     PROVE  \E q \in Requests : /\ calls'[q].pc # "idle"
                                                /\ Target(q)' = [account |-> subs'[<<o, x>>],
                                                                 space |-> x, service |-> o]
            BY DEF SubscriptionAsked
        <2>1. CASE subs[<<o, x>>] # None
            <3>1. subs'[<<o, x>>] = subs[<<o, x>>]
                BY <1>7, <1>8, <2>1
            <3>2. PICK q \in Requests : /\ calls[q].pc # "idle"
                                        /\ Target(q) = [account |-> subs[<<o, x>>],
                                                        space |-> x, service |-> o]
                BY <2>1 DEF ProvisioningInv, SubscriptionAsked
            <3> QED BY <1>4, <1>5, <1>6, <3>1, <3>2
        <2>2. CASE subs[<<o, x>>] = None
            <3>1. <<o, x>> = <<p, s>>
                BY <1>8, <2>2
            <3>2. o = p /\ x = s /\ subs'[<<o, x>>] = a
                BY <1>7, <2>2, <3>1
            <3> QED BY <1>4, <1>6, <3>2 DEF Target
        <2> QED BY <2>1, <2>2
    <1>14. ProvisionedOnce'
        BY <1>1, <1>5, <1>6 DEF ProvisioningInv, ProvisionedOnce, SameTarget, Succeeded
    <1> QED
        BY <1>3, <1>10, <1>11, <1>12, <1>13, <1>14 DEF ProvisioningInv

\* A request that takes a step and writes to neither store keeps the invariant.
LEMMA StepOfRequestKeeps ==
    ASSUME ProvisioningInv, NEW r \in Requests, NEW pc, calls[r].pc # "idle",
           pc \in {"subscribe", "failed"},
           calls' = [calls EXCEPT ![r].pc = pc],
           UNCHANGED <<backend, planless, customers, subs, consumers>>
    PROVE  ProvisioningInv'
    <1>1. StoresOK'
        BY DEF ProvisioningInv, StoresOK, Calls
    <1>2. \A q \in Requests : Target(q)' = Target(q)
        BY DEF ProvisioningInv, StoresOK, Calls, Target
    <1>3. \A q \in Requests : q # r => calls'[q] = calls[q]
        BY DEF ProvisioningInv, StoresOK
    <1>4. calls'[r].pc = pc /\ calls'[r].account = calls[r].account /\ calls'[r].service = calls[r].service
        BY DEF ProvisioningInv, StoresOK, Calls
    <1>5. ASSUME NEW q \in Requests PROVE CallOK(q)'
        <2>1. CASE q = r
            BY <1>2, <1>4, <2>1 DEF ProvisioningInv, CallOK, Succeeded, MayPay
        <2>2. CASE q # r
            BY <1>3, <2>2 DEF ProvisioningInv, CallOK, Target, Succeeded, MayPay
        <2> QED BY <2>1, <2>2
    <1>6. \A i \in DOMAIN consumers' : ConsumerOK(consumers[i])'
        BY DEF ProvisioningInv, ConsumerOK, MayPay
    <1>7. UniqueConsumers'
        BY DEF ProvisioningInv, UniqueConsumers
    <1>8. SubscriptionAsked'
        <2>1. \A q \in Requests : calls[q].pc # "idle" =>
                 calls'[q].pc # "idle" /\ Target(q)' = Target(q)
            BY <1>2, <1>3, <1>4
        <2> QED BY <2>1, AskedStays DEF ProvisioningInv
    <1>9. ProvisionedOnce'
        BY <1>3, <1>4 DEF ProvisioningInv, ProvisionedOnce, SameTarget, Succeeded
    <1> QED
        BY <1>1, <1>5, <1>6, <1>7, <1>8, <1>9 DEF ProvisioningInv

\* A write that fails, and a request sent again, keep the invariant.
LEMMA RetriesKeep ==
    ASSUME ProvisioningInv, NEW r \in Requests, ProvisionFails(r) \/ ProvisionAgain(r)
    PROVE  ProvisioningInv'
    BY StepOfRequestKeeps DEF ProvisionFails, ProvisionAgain, stores

\* What the second write of Provision leaves of the consumer store: nothing new,
\* or one row more, the request's own, that the store did not have.
LEMMA AddConsumerEffect ==
    ASSUME ProvisioningInv, NEW r \in Requests, AddConsumer(r)
    PROVE  /\ Target(r) \in Rows
           /\ calls[r].pc = "consume"
           /\ calls'[r].pc = "answered"
           /\ \A q \in Requests : Target(q)' = Target(q)
           /\ \A q \in Requests : q # r => calls'[q] = calls[q]
           /\ calls' \in [Requests -> Calls]
           /\ UNCHANGED <<backend, planless, customers, subs>>
           /\ \/ UNCHANGED consumers /\ calls'[r].out # "ok"
              \/ /\ consumers' = Append(consumers, Target(r))
                 /\ backend = "postgres" => ~PgConsumerExists(calls[r].account, calls[r].space, calls[r].service)
                 /\ backend = "memory" => \A i \in DOMAIN consumers : consumers[i] # Target(r)
    <1> USE DEF AddConsumer, Answer
    <1>1. PICK out \in {"ok", "ConsumerExists"} :
              calls' = [calls EXCEPT ![r].pc = "answered", ![r].out = out]
        OBVIOUS
    <1>2. calls[r] \in Calls
        BY DEF ProvisioningInv, StoresOK
    <1>3. /\ calls'[r] = [calls[r] EXCEPT !.pc = "answered", !.out = out]
          /\ \A q \in Requests : q # r => calls'[q] = calls[q]
        BY <1>1 DEF ProvisioningInv, StoresOK
    <1>4. /\ calls'[r].pc = "answered" /\ calls'[r].out = out
          /\ calls'[r].account = calls[r].account /\ calls'[r].space = calls[r].space
          /\ calls'[r].service = calls[r].service
          /\ calls'[r] \in Calls
        BY <1>2, <1>3 DEF Calls
    <1>5. \A q \in Requests : Target(q)' = Target(q)
        BY <1>3, <1>4 DEF Target
    <1>6. calls' \in [Requests -> Calls]
        BY <1>1, <1>3, <1>4 DEF ProvisioningInv, StoresOK
    <1>7. calls[r].pc = "consume" /\ Target(r) \in Rows
        BY DEF ProvisioningInv, CallOK
    <1>8. CASE ConsumerExists(calls[r].account, calls[r].space, calls[r].service)
        <2>1. UNCHANGED consumers /\ calls' = [calls EXCEPT ![r].pc = "answered", ![r].out = "ConsumerExists"]
            BY <1>8
        <2>2. calls'[r].out = "ConsumerExists"
            BY <1>2, <2>1 DEF ProvisioningInv, StoresOK, Calls
        <2> QED BY <1>3, <1>4, <1>5, <1>6, <1>7, <2>1, <2>2
    <1>9. CASE ~ConsumerExists(calls[r].account, calls[r].space, calls[r].service)
        <2>1. consumers' = Append(consumers, Target(r))
            BY <1>9 DEF AddConsumerRow, Target
        <2>2. backend = "postgres" => ~PgConsumerExists(calls[r].account, calls[r].space, calls[r].service)
            BY <1>9 DEF ConsumerExists
        <2>3. backend = "memory" => \A i \in DOMAIN consumers : consumers[i] # Target(r)
            BY <1>9 DEF ConsumerExists, MemConsumerExists, Target
        <2> QED BY <1>3, <1>4, <1>5, <1>6, <1>7, <2>1, <2>2, <2>3
    <1> QED BY <1>8, <1>9

\* The second write of Provision keeps the invariant.
LEMMA AddConsumerKeeps ==
    ASSUME ProvisioningInv, NEW r \in Requests, AddConsumer(r)
    PROVE  ProvisioningInv'
    <1> DEFINE n == Len(consumers) + 1
    <1>1. /\ Target(r) \in Rows
          /\ calls[r].pc = "consume"
          /\ calls'[r].pc = "answered"
          /\ \A q \in Requests : Target(q)' = Target(q)
          /\ \A q \in Requests : q # r => calls'[q] = calls[q]
          /\ calls' \in [Requests -> Calls]
          /\ UNCHANGED <<backend, planless, customers, subs>>
        BY AddConsumerEffect
    <1>2. consumers \in Seq(Rows)
        BY DEF ProvisioningInv, StoresOK
    <1>3. /\ consumers' \in Seq(Rows)
          /\ DOMAIN consumers \subseteq DOMAIN consumers'
          /\ \A i \in DOMAIN consumers : consumers'[i] = consumers[i]
          /\ \A i \in DOMAIN consumers' : i \in DOMAIN consumers \/ consumers'[i] = Target(r)
        BY <1>1, <1>2, AddConsumerEffect, AppendFacts
    <1>4. StoresOK'
        BY <1>1, <1>3 DEF ProvisioningInv, StoresOK
    <1>5. \A q \in Requests : /\ calls'[q].account = calls[q].account
                              /\ calls'[q].space = calls[q].space
                              /\ calls'[q].service = calls[q].service
        BY <1>1 DEF Target
    <1>6. Succeeded(r)' => \E i \in DOMAIN consumers' : consumers'[i] = Target(r)
        BY <1>1, <1>2, AddConsumerEffect, AppendFacts DEF Succeeded
    <1>7. ASSUME NEW q \in Requests PROVE CallOK(q)'
        <2>1. Target(q)' = Target(q)
            BY <1>1
        <2>2. Succeeded(q)' => \E i \in DOMAIN consumers' : consumers'[i] = Target(q)
            BY <1>1, <1>3, <1>6 DEF ProvisioningInv, CallOK, Succeeded
        <2>3. CASE q = r
            BY <1>1, <1>5, <2>1, <2>2, <2>3 DEF ProvisioningInv, CallOK, MayPay
        <2>4. CASE q # r
            BY <1>1, <1>5, <2>1, <2>2, <2>4 DEF ProvisioningInv, CallOK, MayPay
        <2> QED BY <2>3, <2>4
    <1>8. \A i \in DOMAIN consumers' : ConsumerOK(consumers[i])'
        <2>1. ConsumerOK(Target(r))
            BY <1>1 DEF ProvisioningInv, CallOK, ConsumerOK, Target
        <2>2. ASSUME NEW row, ConsumerOK(row) PROVE row.service \in Allowed /\ MayPay(row.account)' /\ subs'[<<row.service, row.space>>] # None
            BY <1>1, <2>2 DEF ConsumerOK, MayPay
        <2>3. \A i \in DOMAIN consumers' : ConsumerOK(consumers'[i])
            BY <1>3, <2>1 DEF ProvisioningInv
        <2> QED BY <1>1, <2>2, <2>3 DEF ConsumerOK, MayPay
    <1>9. UniqueConsumers'
        <2> SUFFICES ASSUME backend = "postgres", NEW i \in DOMAIN consumers', NEW k \in DOMAIN consumers',
                            consumers'[i].service = consumers'[k].service,
                            consumers'[i].space = consumers'[k].space
                     PROVE  i = k
            BY <1>1 DEF UniqueConsumers
        <2>1. CASE UNCHANGED consumers
            BY <2>1 DEF ProvisioningInv, UniqueConsumers
        <2>2. CASE consumers' = Append(consumers, Target(r)) /\
                   ~PgConsumerExists(calls[r].account, calls[r].space, calls[r].service)
            <3>1. /\ DOMAIN consumers' = DOMAIN consumers \cup {n}
                  /\ consumers'[n] = Target(r)
                BY <1>1, <1>2, <2>2, AppendFacts
            <3>2. \A m \in DOMAIN consumers : consumers[m].service # Target(r).service
                                              \/ consumers[m].space # Target(r).space
                BY <2>2 DEF PgConsumerExists, Target
            <3>3. CASE i \in DOMAIN consumers /\ k \in DOMAIN consumers
                BY <1>3, <3>3 DEF ProvisioningInv, UniqueConsumers
            <3>4. CASE i = n \/ k = n
                BY <1>3, <3>1, <3>2, <3>4
            <3> QED BY <3>1, <3>3, <3>4
        <2> QED BY <2>1, <2>2, AddConsumerEffect
    <1>10. SubscriptionAsked'
        BY <1>1, AskedStays DEF ProvisioningInv
    <1>11. ASSUME NEW q \in Requests, q # r, Succeeded(q)', Succeeded(r)', SameTarget(q, r)'
           PROVE  backend = "memory" /\ calls[q].account # calls[r].account
        <2>1. PICK i \in DOMAIN consumers : consumers[i] = Target(q)
            BY <1>1, <1>11 DEF ProvisioningInv, CallOK, Succeeded
        <2>2. calls[q].space = calls[r].space /\ calls[q].service = calls[r].service
            BY <1>5, <1>11 DEF SameTarget
        <2>3. /\ backend = "postgres" => ~PgConsumerExists(calls[r].account, calls[r].space, calls[r].service)
              /\ backend = "memory" => \A m \in DOMAIN consumers : consumers[m] # Target(r)
            BY <1>11, AddConsumerEffect DEF Succeeded
        <2>4. backend # "postgres"
            BY <2>1, <2>2, <2>3 DEF PgConsumerExists, Target
        <2>5. backend = "memory"
            BY <2>4 DEF ProvisioningInv, StoresOK
        <2> QED BY <2>1, <2>2, <2>3, <2>5 DEF Target
    <1>12. ProvisionedOnce'
        <2> SUFFICES ASSUME NEW q \in Requests, NEW u \in Requests, q # u, Succeeded(q)', Succeeded(u)',
                            SameTarget(q, u)'
                     PROVE  backend = "memory" /\ calls[q].account # calls[u].account
            BY <1>1, <1>5 DEF ProvisionedOnce
        <2>1. CASE u = r
            BY <1>11, <2>1
        <2>2. CASE q = r
            BY <1>11, <2>2 DEF SameTarget
        <2>3. CASE q # r /\ u # r
            BY <1>1, <2>3 DEF ProvisioningInv, ProvisionedOnce, SameTarget, Succeeded
        <2> QED BY <2>1, <2>2, <2>3
    <1> QED
        BY <1>4, <1>7, <1>8, <1>9, <1>10, <1>12 DEF ProvisioningInv

\* Every step of provisioning keeps the invariant, and the services of a space.
LEMMA ProvisioningNextKeeps ==
    ASSUME ProvisioningInv, ProvisioningNext
    PROVE  /\ ProvisioningInv'
           /\ UNCHANGED <<backend, planless>>
           /\ \A s : Served(s) => Served(s)'
    <1>1. ASSUME NEW a \in Accounts, CustomerAdd(a)
          PROVE  ProvisioningInv' /\ UNCHANGED <<backend, planless, consumers>>
        BY <1>1, CustomerAddKeeps DEF CustomerAdd
    <1>2. ASSUME NEW r \in Requests, NEW a \in Accounts \cup Others, NEW s \in Spaces,
                 NEW p \in Services, ProviderAdd(r, a, s, p)
          PROVE  ProvisioningInv' /\ UNCHANGED <<backend, planless, consumers>>
        BY <1>2, ProviderAddKeeps DEF ProviderAdd, BeginProvision, stores
    <1>3. ASSUME NEW r \in Requests, AddSubscription(r)
          PROVE  ProvisioningInv' /\ UNCHANGED <<backend, planless, consumers>>
        BY <1>3, AddSubscriptionKeeps DEF AddSubscription
    <1>4. ASSUME NEW r \in Requests, ProvisionFails(r) \/ ProvisionAgain(r)
          PROVE  ProvisioningInv' /\ UNCHANGED <<backend, planless, consumers>>
        BY <1>4, RetriesKeep DEF ProvisionFails, ProvisionAgain, stores
    <1>5. ASSUME NEW r \in Requests, AddConsumer(r)
          PROVE  /\ ProvisioningInv' /\ UNCHANGED <<backend, planless>>
                 /\ \A i \in DOMAIN consumers : i \in DOMAIN consumers' /\ consumers'[i] = consumers[i]
        <2>1. ProvisioningInv'
            BY <1>5, AddConsumerKeeps
        <2>2. consumers \in Seq(Rows)
            BY DEF ProvisioningInv, StoresOK
        <2>3. UNCHANGED consumers \/ consumers' = Append(consumers, Target(r))
            BY <1>5, AddConsumerEffect
        <2>4. UNCHANGED <<backend, planless>> /\ Target(r) \in Rows
            BY <1>5, AddConsumerEffect
        <2> QED BY <2>1, <2>2, <2>3, <2>4, AppendFacts
    <1>6. /\ ProvisioningInv' /\ UNCHANGED <<backend, planless>>
          /\ \A i \in DOMAIN consumers : i \in DOMAIN consumers' /\ consumers'[i] = consumers[i]
        BY <1>1, <1>2, <1>3, <1>4, <1>5 DEF ProvisioningNext
    <1> QED
        BY <1>6 DEF Served

----------------------------------------------------------------------------
\* Access

\* What a step may do to the rest of the state without disturbing an execution
\* that it does not advance.
Grows ==
    /\ backend' = backend
    /\ \A c \in Confirms : mail[c].status # "none" =>
          mail'[c].status # "none" /\ mail'[c].agent = mail[c].agent
    /\ \A s : Served(s) => Served(s)'
    /\ objects \subseteq objects' /\ index \subseteq index'

\* An execution that does not advance keeps its part of the invariant.
LEMMA JobStays ==
    ASSUME AccessInv, Grows, NEW k \in Jobs, jobs'[k] = jobs[k]
    PROVE  SourceOK(k)' /\ TodoOK(k)' /\ PutOK(k)'
    <1>1. SourceOK(k)'
        BY DEF AccessInv, SourceOK, Grows
    <1>2. ASSUME NEW t, Own(k, t) PROVE Own(k, t)'
        BY <1>2 DEF AccessInv, SourceOK, Own, Grows
    <1>3. TodoOK(k)'
        BY <1>2 DEF AccessInv, TodoOK, Grows
    <1>4. PutOK(k)'
        BY <1>2 DEF AccessInv, PutOK, Grows
    <1> QED BY <1>1, <1>3, <1>4

\* A step that leaves the access state alone keeps its invariant.
LEMMA AccessStutter ==
    ASSUME AccessInv, UNCHANGED <<backend, access>>, \A s : Served(s) => Served(s)'
    PROVE  AccessInv'
    <1> USE DEF access, delegations
    <1>1. AccessOK' /\ MailOK' /\ IndexOK'
        BY DEF AccessInv, AccessOK, MailOK, IndexOK
    <1>2. Grows
        BY DEF Grows
    <1>3. \A k \in Jobs : SourceOK(k)' /\ TodoOK(k)' /\ PutOK(k)'
        BY <1>2, JobStays
    <1>4. \A s \in published' : Served(s)'
        BY DEF AccessInv
    <1> QED BY <1>1, <1>3, <1>4 DEF AccessInv

\* /access/request, and its expiry, keep the invariant.
LEMMA MailKeeps ==
    ASSUME AccessInv, UNCHANGED provisioning, NEW c \in Confirms,
           (\E a \in Accounts, g \in Agents : AccessRequest(c, a, g)) \/ ConfirmationExpires(c)
    PROVE  AccessInv'
    <1>1. UNCHANGED <<backend, consumers, jobs, objects, index, published>>
        BY DEF AccessRequest, ConfirmationExpires, provisioning, stores, delegations
    <1>2. /\ mail' \in [Confirms -> [status : {"none", "sent", "expired"},
                              account : Accounts \cup {None}, agent : Agents \cup {None}]]
          /\ \A d \in Confirms : mail[d].status # "none" =>
                mail'[d].status # "none" /\ mail'[d].agent = mail[d].agent
          /\ MailOK'
        <2>1. CASE ConfirmationExpires(c)
            BY <2>1 DEF ConfirmationExpires, AccessInv, AccessOK, MailOK
        <2>2. ASSUME NEW a \in Accounts, NEW g \in Agents, AccessRequest(c, a, g)
              PROVE  /\ mail[c].status = "none" /\ a \in Mailto
                     /\ mail' = [mail EXCEPT ![c] = [status |-> "sent", account |-> a, agent |-> g]]
            BY <2>2 DEF AccessRequest, NoMail
        <2>3. CASE \E a \in Accounts, g \in Agents : AccessRequest(c, a, g)
            BY <2>2, <2>3 DEF AccessInv, AccessOK, MailOK
        <2> QED BY <2>1, <2>3
    <1>3. AccessOK' /\ IndexOK'
        BY <1>1, <1>2 DEF AccessInv, AccessOK, IndexOK
    <1>4. \A s : Served(s) => Served(s)'
        BY <1>1 DEF Served
    <1>5. Grows
        BY <1>1, <1>2, <1>4 DEF Grows
    <1>6. \A k \in Jobs : SourceOK(k)' /\ TodoOK(k)' /\ PutOK(k)'
        BY <1>1, <1>5, JobStays
    <1>7. \A s \in published' : Served(s)'
        BY <1>1, <1>4 DEF AccessInv
    <1> QED BY <1>2, <1>3, <1>6, <1>7 DEF AccessInv

\* An execution that starts keeps the invariant, if it starts well.
LEMMA BeginKeeps ==
    ASSUME AccessInv, UNCHANGED <<provisioning, mail, delegations, published>>,
           NEW j \in Jobs, jobs[j].pc = "idle",
           NEW q \in JobStates, jobs' = [jobs EXCEPT ![j] = q],
           q.pc \in {"object", "publish"}, q.put = {}, q.pc = "object" => q.todo # <<>>,
           SourceOK(j)', \A i \in DOMAIN q.todo : Own(j, q.todo[i])',
           q.op = "confirm" => Head(q.todo).what = "account"
    PROVE  AccessInv'
    <1> USE DEF provisioning, stores, delegations
    <1>1. jobs'[j] = q /\ \A k \in Jobs : k # j => jobs'[k] = jobs[k]
        BY DEF AccessInv, AccessOK
    <1>2. AccessOK' /\ MailOK'
        BY DEF AccessInv, AccessOK, MailOK
    <1>3. \A s : Served(s) => Served(s)'
        BY DEF Served
    <1>4. Grows
        BY <1>3 DEF Grows
    <1>5. TodoOK(j)'
        BY <1>1 DEF TodoOK
    <1>6. PutOK(j)'
        BY <1>1 DEF PutOK
    <1>7. \A k \in Jobs : SourceOK(k)' /\ TodoOK(k)' /\ PutOK(k)'
        BY <1>1, <1>4, <1>5, <1>6, JobStays
    <1>8. IndexOK'
        <2>1. jobs[j].put = {}
            BY DEF AccessInv, PutOK
        <2>2. \A k \in Jobs : jobs[k].put \subseteq jobs'[k].put
            BY <1>1, <2>1
        <2> QED BY <2>2 DEF AccessInv, IndexOK
    <1>9. \A s \in published' : Served(s)'
        BY <1>3 DEF AccessInv
    <1> QED BY <1>2, <1>7, <1>8, <1>9 DEF AccessInv

\* The delegations of a session: the account's comes first, and all are the
\* execution's, for the agent that asked.
LEMMA SessionFacts ==
    ASSUME NEW j \in Jobs, NEW c \in Confirms, mail[c].agent \in Agents
    PROVE  /\ SessionProofs(j, c) \in Seq(Tokens)
           /\ SessionProofs(j, c) # <<>>
           /\ Head(SessionProofs(j, c)).what = "account"
           /\ \A i \in DOMAIN SessionProofs(j, c) :
                 /\ SessionProofs(j, c)[i].job = j /\ SessionProofs(j, c)[i].from = c
                 /\ SessionProofs(j, c)[i].agent = mail[c].agent
    <1> DEFINE Proof(what) == Token(j, c, mail[c].agent, what)
               first == <<Proof("account")>>
               rest == [i \in 1..Len(Attenuations) |-> Proof(Attenuations[i])]
               Mine == {t \in Tokens : t.job = j /\ t.from = c /\ t.agent = mail[c].agent}
    <1>1. SessionProofs(j, c) = first \o rest
        BY DEF SessionProofs
    <1>2. \A what \in Whats : Proof(what) \in Mine
        BY DEF Token, Tokens
    <1>3. \A i \in 1..Len(Attenuations) : Attenuations[i] \in Whats
        BY AccessAssumption DEF Whats, ToSet
    <1>4. Len(Attenuations) \in Nat /\ "account" \in Whats
        BY AccessAssumption DEF Whats
    <1> HIDE DEF Proof, Mine
    <1>5. rest \in Seq(Mine)
        BY <1>2, <1>3, <1>4
    <1>6. first \in Seq(Mine)
        BY <1>2, <1>4
    <1>7. first \o rest \in Seq(Mine)
        BY <1>5, <1>6
    <1>8. Len(first \o rest) >= 1 /\ (first \o rest)[1] = Proof("account")
        BY <1>5, <1>6
    <1>9. Head(first \o rest) = Proof("account") /\ first \o rest # <<>>
        BY <1>7, <1>8
    <1>10. Proof("account").what = "account"
        BY DEF Proof, Token
    <1> HIDE DEF first, rest
    <1>11. \A i \in DOMAIN (first \o rest) : (first \o rest)[i] \in Mine
        BY <1>7
    <1>12. Mine \subseteq Tokens
        BY DEF Mine
    <1>13. first \o rest \in Seq(Tokens)
        BY <1>7, <1>12
    <1> QED BY <1>1, <1>9, <1>10, <1>11, <1>13 DEF Mine

\* /access/confirm keeps the invariant.
LEMMA AccessConfirmKeeps ==
    ASSUME AccessInv, NEW j \in Jobs, NEW c \in Confirms, AccessConfirm(j, c)
    PROVE  AccessInv'
    <1>0. PICK q : q = Confirming(j, c)
        OBVIOUS
    <1>1. /\ jobs[j].pc = "idle" /\ mail[c].status = "sent"
          /\ jobs' = [jobs EXCEPT ![j] = q]
          /\ UNCHANGED <<provisioning, mail, delegations, published>>
        BY <1>0 DEF AccessConfirm, Confirmable
    <1>2. mail[c].agent \in Agents
        BY <1>1 DEF AccessInv, MailOK
    <1>3. /\ q.pc = "object" /\ q.op = "confirm" /\ q.source = c /\ q.put = {}
          /\ q.todo = SessionProofs(j, c)
          /\ q \in JobStates
        BY <1>0, <1>2, SessionFacts DEF Confirming, JobStates
    <1>4. jobs'[j] = q
        BY <1>1 DEF AccessInv, AccessOK
    <1>5. SourceOK(j)'
        BY <1>1, <1>3, <1>4 DEF SourceOK
    <1>6. \A i \in DOMAIN q.todo : Own(j, q.todo[i])'
        BY <1>1, <1>2, <1>3, <1>4, SessionFacts DEF Own
    <1>7. q.todo # <<>> /\ Head(q.todo).what = "account"
        BY <1>2, <1>3, SessionFacts
    <1> QED BY <1>1, <1>3, <1>5, <1>6, <1>7, BeginKeeps

\* A space that lists a service has a consumer.
LEMMA ListedIsServed ==
    ASSUME NEW s, ListServiceProviders(s) # {}
    PROVE  Served(s)
    BY DEF ListServiceProviders, Served

\* /access/delegate keeps the invariant.
LEMMA AccessDelegateKeeps ==
    ASSUME AccessInv, NEW j \in Jobs, NEW k \in Jobs, NEW s \in Spaces, NEW g \in Agents,
           AccessDelegate(j, k, s, g)
    PROVE  AccessInv'
    <1> DEFINE t == Token(k, s, g, "space")
               q == [pc |-> "object", op |-> "delegate", source |-> s, todo |-> <<t>>, put |-> {}]
    <1>1. /\ jobs[j].pc = "idle" /\ Served(s)
          /\ jobs' = [jobs EXCEPT ![j] = q]
          /\ UNCHANGED <<provisioning, mail, delegations, published>>
        BY ListedIsServed DEF AccessDelegate
    <1>2. t \in Tokens /\ t.from = s
        BY DEF Token, Tokens, Whats
    <1>3. q \in JobStates
        BY <1>2 DEF JobStates
    <1>4. jobs'[j] = q
        BY <1>1 DEF AccessInv, AccessOK
    <1>5. Served(s)'
        BY <1>1 DEF Served, provisioning, stores
    <1>6. SourceOK(j)'
        BY <1>4, <1>5 DEF SourceOK
    <1>7. \A i \in DOMAIN q.todo : Own(j, q.todo[i])'
        BY <1>2, <1>4 DEF Own
    <1>8. q.pc = "object" /\ q.put = {} /\ q.todo # <<>> /\ q.op # "confirm"
        OBVIOUS
    <1> HIDE DEF q
    <1> QED BY <1>1, <1>3, <1>6, <1>7, <1>8, BeginKeeps

\* /index/add keeps the invariant.
LEMMA IndexAddKeeps ==
    ASSUME AccessInv, NEW j \in Jobs, NEW s \in Spaces, IndexAdd(j, s)
    PROVE  AccessInv'
    <1> DEFINE q == [pc |-> "publish", op |-> "index", source |-> s, todo |-> <<>>, put |-> {}]
    <1>1. /\ jobs[j].pc = "idle" /\ Served(s)
          /\ jobs' = [jobs EXCEPT ![j] = q]
          /\ UNCHANGED <<provisioning, mail, delegations, published>>
        BY ListedIsServed DEF IndexAdd
    <1>2. q \in JobStates
        BY DEF JobStates
    <1>3. jobs'[j] = q
        BY <1>1 DEF AccessInv, AccessOK
    <1>4. Served(s)'
        BY <1>1 DEF Served, provisioning, stores
    <1>5. SourceOK(j)'
        BY <1>3, <1>4 DEF SourceOK
    <1>6. \A i \in DOMAIN q.todo : Own(j, q.todo[i])'
        OBVIOUS
    <1>7. q.pc = "publish" /\ q.put = {} /\ q.op # "confirm"
        OBVIOUS
    <1> HIDE DEF q
    <1> QED BY <1>1, <1>2, <1>5, <1>6, <1>7, BeginKeeps

\* An execution that only changes where it is, and no longer writes, keeps the
\* invariant; the index of its space may be published on the way.
LEMMA StopKeeps ==
    ASSUME AccessInv, NEW j \in Jobs, jobs[j].pc # "idle",
           NEW pc \in {"failed", "answered"}, jobs' = [jobs EXCEPT ![j].pc = pc],
           UNCHANGED <<backend, consumers, mail, objects, index>>,
           \/ UNCHANGED published
           \/ jobs[j].pc = "publish" /\ published' = published \cup {jobs[j].source}
    PROVE  AccessInv'
    <1>1. jobs[j] \in JobStates
        BY DEF AccessInv, AccessOK
    <1>2. jobs'[j] = [jobs[j] EXCEPT !.pc = pc] /\ \A k \in Jobs : k # j => jobs'[k] = jobs[k]
        BY DEF AccessInv, AccessOK
    <1>3. /\ jobs'[j].pc = pc /\ jobs'[j].op = jobs[j].op /\ jobs'[j].source = jobs[j].source
          /\ jobs'[j].todo = jobs[j].todo /\ jobs'[j].put = jobs[j].put
          /\ jobs'[j] \in JobStates
        BY <1>1, <1>2 DEF JobStates
    <1>4. \A s : Served(s) => Served(s)'
        BY DEF Served
    <1>5. jobs[j].pc = "publish" => jobs[j].source \in Spaces /\ Served(jobs[j].source)
        BY DEF AccessInv, SourceOK
    <1>6. jobs' \in [Jobs -> JobStates]
        BY <1>3 DEF AccessInv, AccessOK
    <1>7. AccessOK' /\ MailOK'
        BY <1>5, <1>6 DEF AccessInv, AccessOK, MailOK
    <1>8. Grows
        BY <1>4 DEF Grows
    <1>9. SourceOK(j)'
        BY <1>3, <1>4 DEF AccessInv, SourceOK
    <1>10. TodoOK(j)' /\ PutOK(j)'
        BY <1>3 DEF AccessInv, TodoOK, PutOK, Own
    <1>11. \A k \in Jobs : SourceOK(k)' /\ TodoOK(k)' /\ PutOK(k)'
        BY <1>2, <1>8, <1>9, <1>10, JobStays
    <1>12. IndexOK'
        <2>1. \A k \in Jobs : jobs'[k].put = jobs[k].put
            BY <1>2, <1>3
        <2> QED BY <2>1 DEF AccessInv, IndexOK
    <1>13. \A s \in published' : Served(s)'
        BY <1>4, <1>5 DEF AccessInv
    <1> QED BY <1>7, <1>11, <1>12, <1>13 DEF AccessInv

\* Failures, and the publication of an index, keep the invariant.
LEMMA StopsKeep ==
    ASSUME AccessInv, NEW j \in Jobs, PutFails(j) \/ PublishIndexClaim(j) \/ PublishFails(j)
    PROVE  AccessInv'
    <1> USE DEF provisioning, stores, delegations
    <1>1. CASE PutFails(j)
        BY <1>1, StopKeeps DEF PutFails
    <1>2. CASE PublishIndexClaim(j)
        BY <1>2, StopKeeps DEF PublishIndexClaim
    <1>3. CASE PublishFails(j)
        BY <1>3, StopKeeps DEF PublishFails
    <1> QED BY <1>1, <1>2, <1>3

\* The object of a delegation: the invariant is kept.
LEMMA PutObjectKeeps ==
    ASSUME AccessInv, NEW j \in Jobs, PutObject(j)
    PROVE  AccessInv'
    <1> DEFINE t == Head(jobs[j].todo)
    <1>1. /\ backend = "postgres" /\ jobs[j].pc = "object"
          /\ objects' = objects \cup {t}
          /\ jobs' = [jobs EXCEPT ![j].pc = "row"]
          /\ UNCHANGED <<backend, consumers, mail, index, published>>
        BY DEF PutObject, provisioning, stores
    <1>2. jobs[j] \in JobStates
        BY DEF AccessInv, AccessOK
    <1>3. jobs'[j] = [jobs[j] EXCEPT !.pc = "row"] /\ \A k \in Jobs : k # j => jobs'[k] = jobs[k]
        BY <1>1 DEF AccessInv, AccessOK
    <1>4. /\ jobs'[j].pc = "row" /\ jobs'[j].op = jobs[j].op /\ jobs'[j].source = jobs[j].source
          /\ jobs'[j].todo = jobs[j].todo /\ jobs'[j].put = jobs[j].put
          /\ jobs'[j] \in JobStates
        BY <1>2, <1>3 DEF JobStates
    <1>5. jobs[j].todo \in Seq(Tokens) /\ jobs[j].todo # <<>>
        BY <1>1, <1>2 DEF AccessInv, TodoOK, JobStates
    <1>6. t \in Tokens
        BY <1>5
    <1>7. jobs' \in [Jobs -> JobStates]
        BY <1>1, <1>4 DEF AccessInv, AccessOK
    <1> HIDE DEF t
    <1>8. AccessOK' /\ MailOK'
        BY <1>1, <1>6, <1>7 DEF AccessInv, AccessOK, MailOK
    <1>9. \A s : Served(s) => Served(s)'
        BY <1>1 DEF Served
    <1>10. Grows
        BY <1>1, <1>9 DEF Grows
    <1>11. SourceOK(j)'
        BY <1>1, <1>4, <1>9 DEF AccessInv, SourceOK
    <1>12. TodoOK(j)'
        BY <1>1, <1>4, <1>5 DEF AccessInv, TodoOK, Own, t
    <1>13. PutOK(j)'
        BY <1>1, <1>4 DEF AccessInv, PutOK, Own
    <1>14. \A k \in Jobs : SourceOK(k)' /\ TodoOK(k)' /\ PutOK(k)'
        BY <1>3, <1>10, <1>11, <1>12, <1>13, JobStays
    <1>15. IndexOK'
        <2>1. \A k \in Jobs : jobs'[k].put = jobs[k].put
            BY <1>3, <1>4
        <2> QED BY <1>1, <2>1 DEF AccessInv, IndexOK
    <1>16. \A s \in published' : Served(s)'
        BY <1>1, <1>9 DEF AccessInv
    <1> QED BY <1>8, <1>14, <1>15, <1>16 DEF AccessInv

\* The head and the tail of a sequence that is not empty.
LEMMA TailFacts ==
    ASSUME NEW S, NEW q \in Seq(S), q # <<>>
    PROVE  /\ Head(q) \in S /\ 1 \in DOMAIN q /\ Head(q) = q[1]
           /\ Tail(q) \in Seq(S)
           /\ Len(q) # 1 => Tail(q) # <<>>
           /\ \A i \in DOMAIN Tail(q) : i + 1 \in DOMAIN q /\ Tail(q)[i] = q[i + 1]
    <1>1. /\ Head(q) \in S /\ Tail(q) \in Seq(S) /\ Len(Tail(q)) = Len(q) - 1
          /\ \A i \in 1..Len(Tail(q)) : Tail(q)[i] = q[i + 1]
        BY HeadTailProperties
    <1>2. Len(q) \in Nat /\ Len(q) # 0 /\ DOMAIN q = 1..Len(q)
        OBVIOUS
    <1>3. DOMAIN Tail(q) = 1..Len(Tail(q))
        BY <1>1
    <1>4. Len(q) # 1 => Len(Tail(q)) # 0
        BY <1>1, <1>2
    <1>6. Len(q) # 1 => Tail(q) # <<>>
        BY <1>4
    <1>7. \A i \in DOMAIN Tail(q) : i + 1 \in DOMAIN q /\ Tail(q)[i] = q[i + 1]
        BY <1>1, <1>2, <1>3
    <1>5. Head(q) = q[1]
        OBVIOUS
    <1>8. 1 \in DOMAIN q
        BY <1>2
    <1> QED BY <1>1, <1>5, <1>6, <1>7, <1>8

\* The row of a delegation: the invariant is kept.
LEMMA PutRowKeeps ==
    ASSUME AccessInv, NEW j \in Jobs, PutRow(j)
    PROVE  AccessInv'
    <1>0. PICK t : t = Head(jobs[j].todo)
        OBVIOUS
    <1>1. /\ jobs[j].pc = "row"
          /\ index' = index \cup {t}
          /\ jobs' = [jobs EXCEPT ![j] = Advance(jobs[j], t)]
          /\ UNCHANGED <<backend, consumers, mail, objects, published>>
        BY <1>0 DEF PutRow, provisioning, stores
    <1>2. jobs[j] \in JobStates
        BY DEF AccessInv, AccessOK
    <1>3. jobs'[j] = Advance(jobs[j], t) /\ \A k \in Jobs : k # j => jobs'[k] = jobs[k]
        BY <1>1 DEF AccessInv, AccessOK
    <1>4. jobs[j].todo \in Seq(Tokens) /\ jobs[j].todo # <<>>
        BY <1>1, <1>2 DEF AccessInv, TodoOK, JobStates
    <1>5. /\ t \in Tokens /\ Tail(jobs[j].todo) \in Seq(Tokens)
          /\ 1 \in DOMAIN jobs[j].todo /\ t = jobs[j].todo[1]
          /\ Len(jobs[j].todo) # 1 => Tail(jobs[j].todo) # <<>>
        BY <1>0, <1>4, TailFacts
    <1>6. /\ jobs'[j].op = jobs[j].op /\ jobs'[j].source = jobs[j].source
          /\ jobs'[j].todo = Tail(jobs[j].todo) /\ jobs'[j].put = jobs[j].put \cup {t}
          /\ jobs'[j].pc = IF Len(jobs[j].todo) = 1 THEN "answered" ELSE "object"
          /\ jobs'[j] \in JobStates
        <2>1. PICK q, pc, todo, put :
                  /\ q = jobs[j]
                  /\ pc = (IF Len(jobs[j].todo) = 1 THEN "answered" ELSE "object")
                  /\ todo = Tail(jobs[j].todo) /\ put = jobs[j].put \cup {t}
            OBVIOUS
        <2>2. pc \in {"object", "answered"} /\ todo \in Seq(Tokens) /\ put \in SUBSET Tokens
            BY <1>2, <1>5, <2>1 DEF JobStates
        <2>3. jobs'[j] = [q EXCEPT !.todo = todo, !.put = put, !.pc = pc]
            BY <1>3, <2>1, Zenon DEF Advance
        <2>4. q \in JobStates
            BY <1>2, <2>1
        <2>5. PICK r : r = [q EXCEPT !.todo = todo, !.put = put, !.pc = pc]
            OBVIOUS
        <2>6. /\ r \in JobStates
              /\ r.pc = pc /\ r.op = q.op /\ r.source = q.source /\ r.todo = todo /\ r.put = put
            BY <2>2, <2>4, <2>5 DEF JobStates
        <2> QED BY <2>1, <2>3, <2>5, <2>6, Zenon
    <1>7. jobs' \in [Jobs -> JobStates]
        BY <1>1, <1>6 DEF AccessInv, AccessOK
    <1>8. AccessOK' /\ MailOK'
        BY <1>1, <1>5, <1>7 DEF AccessInv, AccessOK, MailOK
    <1>9. \A s : Served(s) => Served(s)'
        BY <1>1 DEF Served
    <1>10. Grows
        BY <1>1, <1>9 DEF Grows
    <1>11. SourceOK(j)'
        BY <1>1, <1>6, <1>9 DEF AccessInv, SourceOK
    <1>12. ASSUME NEW u, Own(j, u) PROVE Own(j, u)'
        BY <1>1, <1>6, <1>12 DEF Own
    <1>13. Own(j, t) /\ t \in objects /\ backend = "postgres"
        BY <1>0, <1>1, <1>5 DEF AccessInv, TodoOK
    <1>14. TodoOK(j)'
        <2>1. \A i \in DOMAIN jobs'[j].todo : Own(j, jobs'[j].todo[i])
            BY <1>4, <1>6, TailFacts DEF AccessInv, TodoOK
        <2>2. jobs'[j].put # {} /\ jobs'[j].pc \in {"answered", "object"}
            BY <1>6
        <2>3. jobs'[j].pc = "object" => jobs'[j].todo # <<>>
            BY <1>5, <1>6
        <2> QED BY <1>12, <2>1, <2>2, <2>3 DEF TodoOK
    <1>15. PutOK(j)'
        <2>1. /\ jobs'[j].pc # "idle" /\ backend' # "memory"
              /\ jobs'[j].put \subseteq index'
            BY <1>1, <1>6, <1>13 DEF AccessInv, PutOK
        <2>2. \A u \in jobs'[j].put : Own(j, u)
            BY <1>6, <1>13 DEF AccessInv, PutOK
        <2>3. jobs[j].op = "confirm" => \E u \in jobs'[j].put : u.what = "account"
            <3>1. CASE jobs[j].put = {}
                BY <1>0, <1>1, <1>6, <3>1 DEF AccessInv, TodoOK
            <3>2. CASE jobs[j].put # {}
                BY <1>6, <3>2 DEF AccessInv, PutOK
            <3> QED BY <3>1, <3>2
        <2> QED BY <1>6, <1>12, <2>1, <2>2, <2>3 DEF PutOK
    <1>16. \A k \in Jobs : SourceOK(k)' /\ TodoOK(k)' /\ PutOK(k)'
        BY <1>3, <1>10, <1>11, <1>14, <1>15, JobStays
    <1>17. IndexOK'
        <2>1. t \in jobs'[j].put /\ t \in objects
            BY <1>6, <1>13
        <2>2. \A k \in Jobs : jobs[k].put \subseteq jobs'[k].put
            BY <1>3, <1>6
        <2> QED BY <1>1, <2>1, <2>2 DEF AccessInv, IndexOK
    <1>18. \A s \in published' : Served(s)'
        BY <1>1, <1>9 DEF AccessInv
    <1> QED BY <1>8, <1>16, <1>17, <1>18 DEF AccessInv

\* The memory store, which keeps all the delegations at once, keeps the
\* invariant.
LEMMA MemoryPutManyKeeps ==
    ASSUME AccessInv, NEW j \in Jobs, MemoryPutMany(j)
    PROVE  AccessInv'
    <1>0. PICK new : new = ToSet(jobs[j].todo)
        OBVIOUS
    <1>1. /\ backend = "memory" /\ jobs[j].pc = "object"
          /\ index' = index \cup new
          /\ jobs' = [jobs EXCEPT ![j].todo = <<>>, ![j].put = new, ![j].pc = "answered"]
          /\ UNCHANGED <<backend, consumers, mail, objects, published>>
        BY <1>0 DEF MemoryPutMany, provisioning, stores
    <1>2. jobs[j] \in JobStates
        BY DEF AccessInv, AccessOK
    <1>3. /\ jobs'[j] = [jobs[j] EXCEPT !.todo = <<>>, !.put = new, !.pc = "answered"]
          /\ \A k \in Jobs : k # j => jobs'[k] = jobs[k]
        BY <1>1 DEF AccessInv, AccessOK
    <1>4. jobs[j].todo \in Seq(Tokens) /\ jobs[j].todo # <<>>
        BY <1>1, <1>2 DEF AccessInv, TodoOK, JobStates
    <1>5. /\ new = {jobs[j].todo[i] : i \in DOMAIN jobs[j].todo}
          /\ new \subseteq Tokens /\ Head(jobs[j].todo) \in new
        BY <1>0, <1>4, TailFacts DEF ToSet
    <1>6. /\ jobs'[j].op = jobs[j].op /\ jobs'[j].source = jobs[j].source
          /\ jobs'[j].todo = <<>> /\ jobs'[j].put = new /\ jobs'[j].pc = "answered"
          /\ jobs'[j] \in JobStates
        <2>1. <<>> \in Seq(Tokens) /\ new \in SUBSET Tokens
            BY <1>5
        <2>2. PICK q, r, todo, pc : /\ q = jobs[j] /\ todo = <<>> /\ pc = "answered"
                                    /\ r = [q EXCEPT !.todo = todo, !.put = new, !.pc = pc]
            OBVIOUS
        <2>4. q \in JobStates
            BY <1>2, <2>2
        <2>5. todo \in Seq(Tokens) /\ pc \in {"object", "answered"}
            BY <2>1, <2>2
        <2>3. /\ r \in JobStates
              /\ r.pc = pc /\ r.op = q.op /\ r.source = q.source /\ r.todo = todo /\ r.put = new
            BY <2>1, <2>2, <2>4, <2>5 DEF JobStates
        <2> QED BY <1>3, <2>2, <2>3, Zenon
    <1>7. jobs' \in [Jobs -> JobStates]
        BY <1>1, <1>6 DEF AccessInv, AccessOK
    <1>8. AccessOK' /\ MailOK'
        BY <1>1, <1>5, <1>7 DEF AccessInv, AccessOK, MailOK
    <1>9. \A s : Served(s) => Served(s)'
        BY <1>1 DEF Served
    <1>10. Grows
        BY <1>1, <1>9 DEF Grows
    <1>11. SourceOK(j)'
        BY <1>1, <1>6, <1>9 DEF AccessInv, SourceOK
    <1>12. ASSUME NEW u, Own(j, u) PROVE Own(j, u)'
        BY <1>1, <1>6, <1>12 DEF Own
    <1>13. \A u \in new : Own(j, u)
        BY <1>5 DEF AccessInv, TodoOK
    <1>14. TodoOK(j)'
        BY <1>6 DEF TodoOK
    <1>15. PutOK(j)'
        <2>1. jobs[j].op = "confirm" => \E u \in new : u.what = "account"
            BY <1>1, <1>5 DEF AccessInv, TodoOK, PutOK
        <2> QED BY <1>1, <1>6, <1>12, <1>13, <2>1 DEF PutOK
    <1>16. \A k \in Jobs : SourceOK(k)' /\ TodoOK(k)' /\ PutOK(k)'
        BY <1>3, <1>10, <1>11, <1>14, <1>15, JobStays
    <1>17. IndexOK'
        <2>1. jobs[j].put = {} /\ jobs'[j].put = new
            BY <1>1, <1>6 DEF AccessInv, PutOK
        <2>2. \A k \in Jobs : jobs[k].put \subseteq jobs'[k].put
            BY <1>3, <2>1
        <2> QED BY <1>1, <2>1, <2>2 DEF AccessInv, IndexOK
    <1>18. \A s \in published' : Served(s)'
        BY <1>1, <1>9 DEF AccessInv
    <1> QED BY <1>8, <1>16, <1>17, <1>18 DEF AccessInv

----------------------------------------------------------------------------
\* The invariant

\* Nothing is stored or asked for at first.
LEMMA InitInv ==
    ASSUME Init
    PROVE  IInv
    <1> USE DEF Init, ProvisioningInit
    <1>1. StoresOK
        <2>1. <<>> \in Seq(Rows)
            OBVIOUS
        <2>2. backend \in {"postgres", "memory"}
            BY ProvisioningAssumption
        <2>3. Idle \in Calls
            BY DEF Idle, Calls
        <2> QED BY <2>1, <2>2, <2>3 DEF StoresOK
    <1>2. \A r \in Requests : calls[r].pc = "idle"
        BY DEF Idle
    <1>3. DOMAIN consumers = {}
        OBVIOUS
    <1>4. SubscriptionAsked
        BY DEF SubscriptionAsked
    <1>5. ProvisioningInv
        BY <1>1, <1>2, <1>3, <1>4
           DEF ProvisioningInv, CallOK, UniqueConsumers, ProvisionedOnce, Succeeded
    <1>6. AccessOK
        <2>1. <<>> \in Seq(Tokens)
            OBVIOUS
        <2>2. NoJob \in JobStates
            BY <2>1 DEF NoJob, JobStates
        <2> QED BY <2>2 DEF AccessOK, NoMail
    <1>7. MailOK /\ IndexOK
        BY DEF MailOK, NoMail, IndexOK
    <1>8. ASSUME NEW j \in Jobs PROVE SourceOK(j) /\ TodoOK(j) /\ PutOK(j)
        <2>1. /\ jobs[j].pc = "idle" /\ jobs[j].op = "none"
              /\ jobs[j].todo = <<>> /\ jobs[j].put = {}
            BY DEF NoJob
        <2> QED BY <2>1 DEF SourceOK, TodoOK, PutOK
    <1>9. AccessInv
        BY <1>6, <1>7, <1>8 DEF AccessInv
    <1> QED BY <1>5, <1>9 DEF IInv

\* Every step of access keeps the invariant, and does not touch provisioning
\* but for the count of failures.
LEMMA AccessNextKeeps ==
    ASSUME IInv, AccessNext
    PROVE  IInv' /\ UNCHANGED <<backend, planless, stores, calls>>
    <1> USE DEF IInv
    <1>1. UNCHANGED <<backend, planless, stores, calls>>
        BY DEF AccessNext, AccessRequest, ConfirmationExpires, AccessConfirm, AccessDelegate,
               PutObject, PutRow, MemoryPutMany, PutFails, IndexAdd, PublishIndexClaim,
               PublishFails, provisioning
    <1>2. ProvisioningInv'
        BY <1>1, ProvisioningStutter
    <1>3. ASSUME NEW c \in Confirms,
                 (\E a \in Accounts, g \in Agents : AccessRequest(c, a, g)) \/ ConfirmationExpires(c)
          PROVE  AccessInv'
        <2>1. UNCHANGED provisioning
            BY <1>3 DEF AccessRequest, ConfirmationExpires
        <2> QED BY <1>3, <2>1, MailKeeps
    <1>4. ASSUME NEW j \in Jobs,
                 \/ \E c \in Confirms : AccessConfirm(j, c)
                 \/ \E k \in Jobs, s \in Spaces, g \in Agents : AccessDelegate(j, k, s, g)
                 \/ \E s \in Spaces : IndexAdd(j, s)
          PROVE  AccessInv'
        BY <1>4, AccessConfirmKeeps, AccessDelegateKeeps, IndexAddKeeps
    <1>5. ASSUME NEW j \in Jobs,
                 \/ PutObject(j) \/ PutRow(j) \/ MemoryPutMany(j) \/ PutFails(j)
                 \/ PublishIndexClaim(j) \/ PublishFails(j)
          PROVE  AccessInv'
        BY <1>5, PutObjectKeeps, PutRowKeeps, MemoryPutManyKeeps, StopsKeep
    <1>6. AccessInv'
        BY <1>3, <1>4, <1>5 DEF AccessNext
    <1> QED BY <1>1, <1>2, <1>6

\* Every step keeps the invariant.
LEMMA NextInv ==
    ASSUME IInv, [Next]_vars
    PROVE  IInv'
    <1>1. CASE ProvisioningNext /\ UNCHANGED access
        BY <1>1, ProvisioningNextKeeps, AccessStutter DEF IInv
    <1>2. CASE AccessNext
        BY <1>2, AccessNextKeeps
    <1>3. CASE UNCHANGED vars
        <2>1. UNCHANGED <<backend, planless, stores, calls>> /\ UNCHANGED <<backend, access>>
            BY <1>3 DEF vars, provisioning
        <2>2. \A s : Served(s) => Served(s)'
            BY <2>1 DEF Served, stores
        <2> QED BY <2>1, <2>2, ProvisioningStutter, AccessStutter DEF IInv
    <1> QED BY <1>1, <1>2, <1>3 DEF Next

\* The inductive invariant holds throughout: the requests, the two stores of
\* provisioning, the executions and the delegation store stay consistent.
THEOREM Invariance == Spec => []IInv
    <1>1. Init => IInv
        BY InitInv
    <1>2. IInv /\ [Next]_vars => IInv'
        BY NextInv
    <1> QED BY <1>1, <1>2, PTL DEF Spec

----------------------------------------------------------------------------
\* What the invariant says

\* The state of provisioning and access has its types: an execution that
\* writes always has a delegation left to write.
THEOREM TypeCorrect == Spec => []TypeOK
    <1>1. ASSUME IInv PROVE TypeOK
        <2> USE <1>1 DEF IInv
        <2>1. ProvisioningTypeOK
            BY DEF ProvisioningInv, StoresOK, ProvisioningTypeOK, CallOK, Target, Rows, Calls
        <2>2. \A j \in Jobs : jobs[j].pc \in {"idle", "object", "row", "publish", "failed", "answered"}
            BY DEF AccessInv, AccessOK, JobStates
        <2>3. \A j \in Jobs : jobs[j].pc \in {"object", "row"} => jobs[j].todo # <<>>
            BY DEF AccessInv, TodoOK
        <2>4. \A c \in Confirms : mail[c].status \in {"none", "sent", "expired"}
            BY DEF AccessInv, AccessOK
        <2>5. published \subseteq Spaces /\ \A t \in objects \cup index : t.job \in Jobs /\ t.agent \in Agents
            BY DEF AccessInv, AccessOK, Tokens
        <2> QED BY <2>1, <2>2, <2>3, <2>4, <2>5 DEF TypeOK
    <1> QED BY <1>1, Invariance, PTL

\* A space is provisioned with a service once, however requests interleave,
\* fail and are sent again (in memory: once for each account).
THEOREM Once == Spec => []ProvisionedOnce
    <1>1. IInv => ProvisionedOnce
        BY DEF IInv, ProvisioningInv
    <1> QED BY <1>1, Invariance, PTL

\* A claim never comes back empty for a delegation that was stored half: it is
\* every row of the agent.
LEMMA ClaimIsIndex ==
    ASSUME IInv
    PROVE  \A g : AccessClaim(g) = {t \in index : t.agent = g}
    <1>1. \A t \in index : Fetchable(t)
        BY DEF IInv, ProvisioningInv, StoresOK, AccessInv, IndexOK, Fetchable
    <1> QED BY <1>1 DEF AccessClaim

\* What an execution that was answered has stored is returned by every claim,
\* whatever other executions have stored half of.
THEOREM Claimable == Spec => []StoredIsClaimable
    <1>1. ASSUME IInv PROVE StoredIsClaimable
        <2> USE <1>1 DEF IInv
        <2>1. \A j \in Jobs : jobs[j].put \subseteq index
            BY DEF AccessInv, PutOK
        <2> QED BY <2>1, ClaimIsIndex DEF StoredIsClaimable
    <1> QED BY <1>1, Invariance, PTL

\* What a confirmation has stored of a session is never a command without the
\* account, wherever it stopped.
THEOREM AccountFirst == Spec => []CommandsComeWithAccount
    <1>1. ASSUME IInv, NEW g \in Agents, NEW t \in AccessClaim(g), t.from \in Confirms
          PROVE  \E u \in AccessClaim(g) : u.job = t.job /\ u.what = "account"
        <2> USE <1>1 DEF IInv
        <2>1. t \in index /\ t.agent = g
            BY ClaimIsIndex
        <2>2. PICK j \in Jobs : t \in jobs[j].put
            BY <2>1 DEF AccessInv, IndexOK
        <2>3. \A u \in jobs[j].put : u \in index /\ Own(j, u)
            BY <2>2 DEF AccessInv, PutOK
        <2>4. jobs[j].op = "confirm"
            <3>1. jobs[j].op \in {"confirm", "delegate"} /\ jobs[j].source \in Confirms
                BY <2>2, <2>3 DEF Own
            <3>2. jobs[j].op = "delegate" => jobs[j].source \in Spaces
                BY <2>2 DEF AccessInv, SourceOK
            <3> QED BY <3>1, <3>2, AccessAssumption
        <2>5. PICK u \in jobs[j].put : u.what = "account"
            BY <2>2, <2>4 DEF AccessInv, PutOK
        <2>6. u.agent = g /\ u.job = t.job
            BY <2>1, <2>2, <2>3, <2>4 DEF Own
        <2> QED BY <2>3, <2>5, <2>6, ClaimIsIndex
    <1>2. IInv => CommandsComeWithAccount
        BY <1>1 DEF CommandsComeWithAccount
    <1> QED BY <1>2, Invariance, PTL

\* What an agent claims was confirmed by the address that was asked, for that
\* agent, or was stored through /access/delegate on a space that an account pays
\* for; and the indexes that are published are those of such spaces.
THEOREM OnlyEntitled == Spec => []Entitled
    <1> DEFINE Paid(s) == \E i \in DOMAIN consumers :
                  /\ consumers[i].space = s /\ consumers[i].service \in Allowed
                  /\ planless \/ consumers[i].account \in customers
    <1>1. ASSUME IInv, NEW s, Served(s) PROVE Paid(s)
        <2>1. PICK i \in DOMAIN consumers : consumers[i].space = s
            BY <1>1 DEF Served
        <2>2. consumers[i].service \in Allowed /\ MayPay(consumers[i].account)
            BY <1>1 DEF IInv, ProvisioningInv, ConsumerOK
        <2> QED BY <2>1, <2>2 DEF MayPay
    <1>2. ASSUME IInv, NEW g \in Agents, NEW t \in AccessClaim(g)
          PROVE  \/ t.from \in Confirms /\ mail[t.from].agent = g /\ mail[t.from].account \in Mailto
                 \/ t.from \in Spaces /\ Served(t.from)
        <2> USE <1>2 DEF IInv
        <2>1. t \in index /\ t.agent = g
            BY ClaimIsIndex
        <2>2. PICK j \in Jobs : t \in jobs[j].put
            BY <2>1 DEF AccessInv, IndexOK
        <2>3. Own(j, t) /\ SourceOK(j)
            BY <2>2 DEF AccessInv, PutOK
        <2>4. CASE jobs[j].op = "confirm"
            BY <2>1, <2>3, <2>4 DEF Own, SourceOK, AccessInv, MailOK
        <2>5. CASE jobs[j].op = "delegate"
            BY <2>3, <2>5 DEF Own, SourceOK
        <2> QED BY <2>3, <2>4, <2>5 DEF Own
    <1>3. ASSUME IInv PROVE \A s \in published : Served(s)
        BY <1>3 DEF IInv, AccessInv
    <1> HIDE DEF Paid
    <1>4. ASSUME IInv
          PROVE  /\ \A g \in Agents : \A t \in AccessClaim(g) :
                      \/ t.from \in Confirms /\ mail[t.from].agent = g /\ mail[t.from].account \in Mailto
                      \/ t.from \in Spaces /\ Paid(t.from)
                 /\ \A s \in published : Paid(s)
        BY <1>1, <1>2, <1>3, <1>4
    <1>5. IInv => Entitled
        BY <1>4 DEF Entitled, Paid
    <1> QED BY <1>5, Invariance, PTL

----------------------------------------------------------------------------
\* Subscriptions and consumers

\* The indexes of the rows of a service and a space.
RowsOf(q, p, s) == {j \in DOMAIN q : q[j].service = p /\ q[j].space = s}

IsFirst(i, q, p, s) == i \in RowsOf(q, p, s) /\ \A k \in RowsOf(q, p, s) : i <= k

\* Rows that are there have a first.
LEMMA FirstRow ==
    ASSUME NEW q \in Seq(Rows), NEW p, NEW s, RowsOf(q, p, s) # {}
    PROVE  \E i \in RowsOf(q, p, s) : \A k \in RowsOf(q, p, s) : i <= k
    <1> DEFINE I == RowsOf(q, p, s)
    <1>1. I \subseteq Nat /\ I # {}
        BY DEF RowsOf
    <1> HIDE DEF I
    <1>2. PICK i \in I : \A k \in I : ~(<<k, i>> \in OpToRel(<, Nat))
        BY <1>1, WFMin, NatLessThanWellFounded
    <1>3. \A k \in I : ~(k < i)
        BY <1>1, <1>2 DEF OpToRel
    <1>4. \A k \in I : i <= k
        BY <1>1, <1>3
    <1> QED BY <1>4 DEF I

\* Get returns the account of the first row.
LEMMA GetIsFirst ==
    ASSUME NEW q \in Seq(Rows), NEW p, NEW s, NEW i \in RowsOf(q, p, s),
           \A k \in RowsOf(q, p, s) : i <= k
    PROVE  (CHOOSE m \in RowsOf(q, p, s) : \A k \in RowsOf(q, p, s) : m <= k) = i
    <1>1. RowsOf(q, p, s) \subseteq Nat
        BY DEF RowsOf
    <1> QED BY <1>1

\* A consumer that Get returns is the first row of its service and space.
LEMMA GetConsumerIsRow ==
    ASSUME ProvisioningInv, NEW p, NEW s, GetConsumer(p, s) # None
    PROVE  \E i \in RowsOf(consumers, p, s) :
              /\ \A k \in RowsOf(consumers, p, s) : i <= k
              /\ GetConsumer(p, s) = consumers[i].account
    <1>1. consumers \in Seq(Rows)
        BY DEF ProvisioningInv, StoresOK
    <1>2. RowsOf(consumers, p, s) # {}
        BY DEF GetConsumer, RowsOf
    <1>3. PICK i \in RowsOf(consumers, p, s) : \A k \in RowsOf(consumers, p, s) : i <= k
        BY <1>1, <1>2, FirstRow
    <1>4. (CHOOSE m \in RowsOf(consumers, p, s) : \A k \in RowsOf(consumers, p, s) : m <= k) = i
        BY <1>1, <1>3, GetIsFirst
    <1>5. GetConsumer(p, s) = consumers[i].account
        BY <1>2, <1>4 DEF GetConsumer, RowsOf
    <1> QED BY <1>3, <1>5

\* A consumer has a subscription, and where the two name different accounts the
\* subscription's account asked too and, in Postgres, did not succeed.
THEOREM Agreement == Spec => []SubscriptionAgrees
    <1>1. ASSUME IInv, NEW p \in Services, NEW s \in Spaces, GetConsumer(p, s) # None
          PROVE  /\ GetSubscription(p, s) # None
                 /\ GetSubscription(p, s) # GetConsumer(p, s) =>
                      \E r \in Requests : /\ calls[r].account = GetSubscription(p, s)
                                          /\ calls[r].space = s /\ calls[r].service = p
                                          /\ backend = "postgres" => ~Succeeded(r)
        <2> USE <1>1 DEF IInv
        <2>1. PICK i \in RowsOf(consumers, p, s) : GetConsumer(p, s) = consumers[i].account
            BY GetConsumerIsRow
        <2>2. i \in DOMAIN consumers /\ consumers[i].service = p /\ consumers[i].space = s
            BY DEF RowsOf
        <2>3. subs[<<p, s>>] # None
            BY <2>2 DEF ProvisioningInv, ConsumerOK
        <2>4. PICK r \in Requests : Target(r) = [account |-> subs[<<p, s>>], space |-> s, service |-> p]
            BY <2>3 DEF ProvisioningInv, SubscriptionAsked
        <2>5. calls[r].account = subs[<<p, s>>] /\ calls[r].space = s /\ calls[r].service = p
            BY <2>4 DEF Target
        <2>6. ASSUME backend = "postgres", Succeeded(r)
              PROVE  subs[<<p, s>>] = consumers[i].account
            <3>1. PICK k \in DOMAIN consumers : consumers[k] = Target(r)
                BY <2>6 DEF ProvisioningInv, CallOK
            <3>2. consumers[k].service = p /\ consumers[k].space = s /\ consumers[k].account = subs[<<p, s>>]
                BY <2>4, <3>1
            <3>3. k = i
                BY <2>2, <2>6, <3>2 DEF ProvisioningInv, UniqueConsumers
            <3> QED BY <3>2, <3>3
        <2> QED BY <2>1, <2>3, <2>5, <2>6 DEF GetSubscription
    <1>2. IInv => SubscriptionAgrees
        BY <1>1 DEF SubscriptionAgrees
    <1> QED BY <1>2, Invariance, PTL

\* What a step of provisioning does to the two stores.
LEMMA StoresStep ==
    ASSUME ProvisioningInv, ProvisioningNext
    PROVE  /\ \A p \in Services, s \in Spaces :
                 subs[<<p, s>>] # None => subs'[<<p, s>>] = subs[<<p, s>>]
           /\ UNCHANGED consumers \/ \E row \in Rows : consumers' = Append(consumers, row)
    <1>1. ASSUME NEW r \in Requests, AddSubscription(r)
          PROVE  UNCHANGED consumers /\ \A p \in Services, s \in Spaces :
                     subs[<<p, s>>] # None => subs'[<<p, s>>] = subs[<<p, s>>]
        BY <1>1 DEF AddSubscription, AddSubscriptionRow, ProvisioningInv, StoresOK
    <1>2. ASSUME NEW r \in Requests, AddConsumer(r)
          PROVE  UNCHANGED subs /\
                 (UNCHANGED consumers \/ \E row \in Rows : consumers' = Append(consumers, row))
        BY <1>2, AddConsumerEffect
    <1>3. ASSUME NEW r \in Requests, ProvisionFails(r) \/ ProvisionAgain(r)
          PROVE  UNCHANGED <<subs, consumers>>
        BY <1>3 DEF ProvisionFails, ProvisionAgain, stores
    <1>4. ASSUME NEW r \in Requests, NEW a \in Accounts \cup Others, NEW s \in Spaces,
                 NEW p \in Services, ProviderAdd(r, a, s, p)
          PROVE  UNCHANGED <<subs, consumers>>
        BY <1>4 DEF ProviderAdd, BeginProvision, stores
    <1>5. ASSUME NEW a \in Accounts, CustomerAdd(a)
          PROVE  UNCHANGED <<subs, consumers>>
        BY <1>5 DEF CustomerAdd
    <1> QED BY <1>1, <1>2, <1>3, <1>4, <1>5 DEF ProvisioningNext

\* The first row stays the first when another is appended.
LEMMA FirstStays ==
    ASSUME NEW q \in Seq(Rows), NEW row \in Rows, NEW p, NEW s, NEW i \in Nat,
           IsFirst(i, q, p, s)
    PROVE  IsFirst(i, Append(q, row), p, s) /\ Append(q, row)[i] = q[i]
    <1>1. /\ DOMAIN Append(q, row) = DOMAIN q \cup {Len(q) + 1}
          /\ \A k \in DOMAIN q : Append(q, row)[k] = q[k]
        BY AppendFacts
    <1>2. i \in DOMAIN q /\ i <= Len(q) + 1
        BY DEF IsFirst, RowsOf
    <1>3. \A k \in RowsOf(Append(q, row), p, s) : k \in RowsOf(q, p, s) \/ k = Len(q) + 1
        BY <1>1 DEF RowsOf
    <1>4. i \in RowsOf(Append(q, row), p, s) /\ Append(q, row)[i] = q[i]
        BY <1>1, <1>2 DEF IsFirst, RowsOf
    <1> QED BY <1>2, <1>3, <1>4 DEF IsFirst

\* Once the subscription and the consumer of a space agree, no step of any
\* request moves either.
THEOREM AgreementStays == Spec => AgreementLasts
    <1> DEFINE Lasts(p, s) == Agree(p, s) => Agree(p, s)' /\ GetConsumer(p, s)' = GetConsumer(p, s)
    <1>1. ASSUME UNCHANGED <<subs, consumers>>, NEW p \in Services, NEW s \in Spaces
          PROVE  Lasts(p, s)
        BY <1>1 DEF Agree, GetConsumer, GetSubscription
    <1>2. ASSUME IInv, IInv', ProvisioningNext, NEW p \in Services, NEW s \in Spaces
          PROVE  Lasts(p, s)
        <2> SUFFICES ASSUME Agree(p, s)
                     PROVE  Agree(p, s)' /\ GetConsumer(p, s)' = GetConsumer(p, s)
            OBVIOUS
        <2>1. subs[<<p, s>>] # None /\ subs[<<p, s>>] = GetConsumer(p, s) /\ GetConsumer(p, s) # None
            BY DEF Agree, GetSubscription
        <2>2. subs'[<<p, s>>] = subs[<<p, s>>]
            BY <1>2, <2>1, StoresStep DEF IInv
        <2>3. consumers \in Seq(Rows) /\ consumers' \in Seq(Rows)
            BY <1>2 DEF IInv, ProvisioningInv, StoresOK
        <2>4. PICK i \in RowsOf(consumers, p, s) :
                  /\ \A k \in RowsOf(consumers, p, s) : i <= k
                  /\ GetConsumer(p, s) = consumers[i].account
            BY <1>2, <2>1, GetConsumerIsRow DEF IInv
        <2>5. IsFirst(i, consumers', p, s) /\ consumers'[i] = consumers[i]
            <3>1. IsFirst(i, consumers, p, s)
                BY <2>4 DEF IsFirst
            <3>2. CASE UNCHANGED consumers
                BY <3>1, <3>2
            <3>3. ASSUME NEW row \in Rows, consumers' = Append(consumers, row)
                  PROVE  IsFirst(i, consumers', p, s) /\ consumers'[i] = consumers[i]
                <4>0. i \in Nat
                    BY <2>3 DEF RowsOf
                <4>1. \A q \in Seq(Rows) : IsFirst(i, q, p, s) =>
                         IsFirst(i, Append(q, row), p, s) /\ Append(q, row)[i] = q[i]
                    BY <4>0, FirstStays
                <4>2. /\ IsFirst(i, Append(consumers, row), p, s)
                      /\ Append(consumers, row)[i] = consumers[i]
                    BY <2>3, <3>1, <4>1, Zenon
                <4> QED BY <3>3, <4>2, Zenon
            <3>4. UNCHANGED consumers \/ \E row \in Rows : consumers' = Append(consumers, row)
                BY <1>2, StoresStep DEF IInv
            <3> QED BY <3>2, <3>3, <3>4
        <2>6. (CHOOSE m \in RowsOf(consumers', p, s) : \A k \in RowsOf(consumers', p, s) : m <= k) = i
            BY <2>3, <2>5, GetIsFirst DEF IsFirst
        <2>7. GetConsumer(p, s)' = consumers'[i].account
            BY <2>5, <2>6 DEF GetConsumer, RowsOf, IsFirst
        <2> QED BY <2>1, <2>2, <2>4, <2>5, <2>7 DEF Agree, GetSubscription
    <1>3. ASSUME IInv, IInv', [Next]_vars
          PROVE  [\A p \in Services, s \in Spaces : Lasts(p, s)]_provisioning
        <2>1. CASE ProvisioningNext
            BY <1>2, <1>3, <2>1
        <2>2. CASE AccessNext
            BY <1>1, <1>3, <2>2, AccessNextKeeps DEF stores
        <2>3. CASE UNCHANGED vars
            BY <2>3 DEF vars
        <2> QED BY <1>3, <2>1, <2>2, <2>3 DEF Next
    <1> QED BY <1>3, Invariance, PTL DEF AgreementLasts, Spec
=============================================================================
