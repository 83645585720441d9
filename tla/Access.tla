------------------------------- MODULE Access -------------------------------
(***************************************************************************)
(* Access: an agent asks for access to an account, the service mails the   *)
(* account a confirmation, a click on it creates and stores delegations    *)
(* from the account to the agent, and the agent claims what was stored     *)
(* for it; agents of a provisioned space store further delegations, and    *)
(* publish its indexes.                                                    *)
(*                                                                         *)
(* Delegations are stored one by one, each as an S3 object and then as a   *)
(* row of the index: a store can stop between any two writes, and a        *)
(* confirmation can be clicked more than once, at the same time too; each  *)
(* click makes delegations of its own (a delegation has a nonce).  The     *)
(* delegations of /access/delegate are the client's, and a request that is *)
(* sent again has the same ones.                                           *)
(* Bounds: Confirms, Jobs, MaxFails.                                       *)
(***************************************************************************)
EXTENDS Provisioning, FiniteSets

CONSTANTS
    Mailto,         \* the accounts that are e-mail addresses
    Agents,
    Attenuations,   \* the commands an access request asks for, in order
    Confirms,       \* access requests
    Jobs            \* executions that store delegations or publish an index

ASSUME AccessAssumption ==
    /\ Mailto \subseteq Accounts
    /\ Confirms \cap Spaces = {}
    /\ Attenuations \in Seq(STRING)

VARIABLES
    mail,           \* the confirmation of an access request
    jobs,           \* the executions: [pc, op, source, todo, put]
    objects,        \* the delegations' objects in S3
    index,          \* the rows of the delegation table
    published       \* the spaces whose index was published

delegations == <<objects, index>>
access == <<mail, jobs, delegations, published>>
vars == <<provisioning, access>>

NoMail == [status |-> "none", account |-> None, agent |-> None]
NoJob == [pc |-> "idle", op |-> "none", source |-> None, todo |-> <<>>, put |-> {}]

Init ==
    /\ ProvisioningInit
    /\ mail = [c \in Confirms |-> NoMail]
    /\ jobs = [j \in Jobs |-> NoJob]
    /\ objects = {} /\ index = {}
    /\ published = {}

----------------------------------------------------------------------------
\* /access/request, /validate-email and /access/confirm

\* Only an e-mail address can be asked, and the request has succeeded once the
\* mail is sent.
AccessRequest(c, a, g) ==
    /\ mail[c] = NoMail
    /\ a \in Mailto
    /\ mail' = [mail EXCEPT ![c] = [status |-> "sent", account |-> a, agent |-> g]]
    /\ UNCHANGED <<provisioning, jobs, delegations, published>>

\* Fifteen minutes later the confirmation is not valid any more.
ConfirmationExpires(c) ==
    /\ mail[c].status = "sent"
    /\ mail' = [mail EXCEPT ![c].status = "expired"]
    /\ UNCHANGED <<provisioning, jobs, delegations, published>>

\* A delegation: the execution it was made in or first sent with, what it was
\* stored through, its audience, and what it is over.
Token(j, from, g, what) == [job |-> j, from |-> from, agent |-> g, what |-> what]

\* Mutant: the account comes after the commands.
SessionProofsCommandsFirst(j, c) ==
    LET Proof(what) == Token(j, c, mail[c].agent, what)
    IN  [i \in 1..Len(Attenuations) |-> Proof(Attenuations[i])] \o <<Proof("account")>>

\* createSessionProofs: the account itself first, then each command asked for.
SessionProofs(j, c) ==
    LET Proof(what) == Token(j, c, mail[c].agent, what)
    IN  <<Proof("account")>> \o [i \in 1..Len(Attenuations) |-> Proof(Attenuations[i])]

\* The execution that a click starts, if it is accepted at all.
Confirming(j, c) ==
    [pc |-> "object", op |-> "confirm", source |-> c, todo |-> SessionProofs(j, c), put |-> {}]

\* A confirmation is executed until it expires, as often as it is sent back.
Confirmable(c) == mail[c].status = "sent"

\* A POST to /validate-email executes the confirmation (a GET only shows the
\* page).
AccessConfirm(j, c) ==
    /\ jobs[j].pc = "idle"
    /\ Confirmable(c)
    /\ jobs' = [jobs EXCEPT ![j] = Confirming(j, c)]
    /\ UNCHANGED <<provisioning, mail, delegations, published>>

----------------------------------------------------------------------------
\* /access/delegate

\* The space has a service, and every delegation named is attached: otherwise
\* nothing is stored.  The delegation is the client's: a new one, or the one
\* it sent with another request k.  It is stored as it is, for the audience g
\* it names; nothing compares it with the space.
AccessDelegate(j, k, s, g) ==
    /\ jobs[j].pc = "idle"
    /\ ListServiceProviders(s) # {}
    /\ jobs' = [jobs EXCEPT ![j] = [pc |-> "object", op |-> "delegate", source |-> s,
                                    todo |-> <<Token(k, s, g, "space")>>, put |-> {}]]
    /\ UNCHANGED <<provisioning, mail, delegations, published>>

----------------------------------------------------------------------------
\* The delegation store

\* Mutant: one delegation more is expected.
AdvanceLate(q, t) ==
    [q EXCEPT !.todo = Tail(@), !.put = @ \cup {t},
              !.pc = IF Len(q.todo) = 0 THEN "answered" ELSE "object"]

\* After the last delegation the execution is answered.
Advance(q, t) ==
    [q EXCEPT !.todo = Tail(@), !.put = @ \cup {t},
              !.pc = IF Len(q.todo) = 1 THEN "answered" ELSE "object"]

\* Mutant: the row is written before the object.
PutObjectLater(j) ==
    LET t == Head(jobs[j].todo) IN
    /\ backend = "postgres" /\ jobs[j].pc = "object"
    /\ index' = index \cup {t}
    /\ jobs' = [jobs EXCEPT ![j].pc = "row"]
    /\ UNCHANGED <<provisioning, mail, objects, published>>

\* PutMany, one object ...
PutObject(j) ==
    LET t == Head(jobs[j].todo) IN
    /\ backend = "postgres" /\ jobs[j].pc = "object"
    /\ objects' = objects \cup {t}
    /\ jobs' = [jobs EXCEPT ![j].pc = "row"]
    /\ UNCHANGED <<provisioning, mail, index, published>>

\* ... and its row, which replaces one of the same link.
PutRow(j) ==
    LET t == Head(jobs[j].todo) IN
    /\ jobs[j].pc = "row"
    /\ index' = index \cup {t}
    /\ jobs' = [jobs EXCEPT ![j] = Advance(jobs[j], t)]
    /\ UNCHANGED <<provisioning, mail, objects, published>>

\* The memory store keeps them all under one lock (a delegation that is sent
\* again it keeps twice, see Listing; a claim then names it twice).
MemoryPutMany(j) ==
    /\ backend = "memory" /\ jobs[j].pc = "object"
    /\ index' = index \cup ToSet(jobs[j].todo)
    /\ jobs' = [jobs EXCEPT ![j].todo = <<>>, ![j].put = ToSet(jobs[j].todo),
                            ![j].pc = "answered"]
    /\ UNCHANGED <<provisioning, mail, objects, published>>

\* A write fails, or the server stops before it: the rest is not stored.
PutFails(j) ==
    /\ backend = "postgres" /\ jobs[j].pc \in {"object", "row"} /\ fails < MaxFails
    /\ jobs' = [jobs EXCEPT ![j].pc = "failed"]
    /\ fails' = fails + 1
    /\ UNCHANGED <<backend, planless, stores, calls, mail, delegations, published>>

\* ListByAudience fetches the object of every row.
Fetchable(t) == backend = "memory" \/ t \in objects

----------------------------------------------------------------------------
\* /access/claim

\* What a claim of the agent returns: everything stored for it, or nothing
\* when the object of one of them is missing.  It is what is stored at one
\* instant; the handler asks for it page by page (Listing has the pages).
AccessClaim(g) ==
    LET rows == {t \in index : t.agent = g}
    IN  IF \A t \in rows : Fetchable(t) THEN rows ELSE {}

----------------------------------------------------------------------------
\* /index/add

\* The space has a service and the registry knows the index as one of its
\* blobs, which it may at any time (BlobLifecycle has the registry): otherwise
\* nothing is published.
IndexAdd(j, s) ==
    /\ jobs[j].pc = "idle"
    /\ ListServiceProviders(s) # {}
    /\ jobs' = [jobs EXCEPT ![j] = [pc |-> "publish", op |-> "index", source |-> s,
                                    todo |-> <<>>, put |-> {}]]
    /\ UNCHANGED <<provisioning, mail, delegations, published>>

\* PublishIndexClaim: the indexer takes the claim.
PublishIndexClaim(j) ==
    /\ jobs[j].pc = "publish"
    /\ published' = published \cup {jobs[j].source}
    /\ jobs' = [jobs EXCEPT ![j].pc = "answered"]
    /\ UNCHANGED <<provisioning, mail, delegations>>

\* The indexer is not configured or fails, or its answer is lost.
PublishFails(j) ==
    /\ jobs[j].pc = "publish"
    /\ published' \in {published, published \cup {jobs[j].source}}
    /\ jobs' = [jobs EXCEPT ![j].pc = "failed"]
    /\ UNCHANGED <<provisioning, mail, delegations>>

----------------------------------------------------------------------------
AccessNext ==
    \/ \E c \in Confirms :
          \/ \E a \in Accounts, g \in Agents : AccessRequest(c, a, g)
          \/ ConfirmationExpires(c)
    \/ \E j \in Jobs :
          \/ \E c \in Confirms : AccessConfirm(j, c)
          \/ \E k \in Jobs, s \in Spaces, g \in Agents : AccessDelegate(j, k, s, g)
          \/ PutObject(j) \/ PutRow(j) \/ MemoryPutMany(j) \/ PutFails(j)
          \/ \E s \in Spaces : IndexAdd(j, s)
          \/ PublishIndexClaim(j) \/ PublishFails(j)

Next == (ProvisioningNext /\ UNCHANGED access) \/ AccessNext

Spec == Init /\ [][Next]_vars /\ ProvisioningFairness

----------------------------------------------------------------------------
\* Properties

\* Types.
TypeOK ==
    /\ ProvisioningTypeOK
    /\ \A c \in Confirms : mail[c].status \in {"none", "sent", "expired"}
    /\ \A j \in Jobs :
         /\ jobs[j].pc \in {"idle", "object", "row", "publish", "failed", "answered"}
         /\ jobs[j].pc \in {"object", "row"} => jobs[j].todo # <<>>
    /\ \A t \in objects \cup index : t.job \in Jobs /\ t.agent \in Agents
    /\ published \subseteq Spaces

\* A claim never fails for a delegation that another execution has stored only
\* half of, and once a confirmation or a delegation has been answered a claim
\* returns all of it, whatever other executions failed at: the handlers of
\* /access/confirm and /access/delegate answer when PutMany has stored it all.
StoredIsClaimable ==
    \A j \in Jobs : jobs[j].pc = "answered" =>
        \A t \in jobs[j].put : t \in AccessClaim(t.agent)

\* What a confirmation stores before it fails is never a command without the
\* account it was asked of: the delegation of the account goes first.
CommandsComeWithAccount ==
    \A g \in Agents : \A t \in AccessClaim(g) :
        t.from \in Confirms /\ t.what # "account" =>
            \E u \in AccessClaim(g) : u.job = t.job /\ u.what = "account"

\* What an agent claims was confirmed for that agent by the address it had
\* asked, or was stored through /access/delegate on a space that some account
\* pays for; and only the indexes of such spaces are published.
Entitled ==
    LET Paid(s) == \E i \in DOMAIN consumers :
            /\ consumers[i].space = s /\ consumers[i].service \in Allowed
            /\ planless \/ consumers[i].account \in customers
    IN  /\ \A g \in Agents : \A t \in AccessClaim(g) :
             \/ t.from \in Confirms /\ mail[t.from].agent = g /\ mail[t.from].account \in Mailto
             \/ t.from \in Spaces /\ Paid(t.from)
        /\ \A s \in published : Paid(s)
=============================================================================
