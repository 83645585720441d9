--------------------------- MODULE BlobLifecycle ---------------------------
(***************************************************************************)
(* The life of a blob in the upload service: /blob/add, /ucan/conclude of  *)
(* an /http/put, /blob/remove and /blob/abort, run by concurrent requests  *)
(* over the agent store (Postgres index: last write wins), the blob        *)
(* registry and the storage nodes.                                         *)
(*                                                                         *)
(* An element of Adds is a /blob/add TASK: its space, its blob and its     *)
(* nonce, so running an element twice is a client retry of one task.  An   *)
(* element of Uploads is one successful /blob/allocate together with the   *)
(* /http/put and /blob/accept tasks that are derived from it (the allocate *)
(* and put invocations carry random nonces, and the accept task is a       *)
(* function of the put task and the provider).                             *)
(*                                                                         *)
(* A request advances by one storage or network call per step.  Whatever   *)
(* ends a request early without a further write (a crash, a cancelled      *)
(* context, a failed write of the outgoing message, a database error in a  *)
(* handler whose answer nobody reads back) is the one action Crash.        *)
(***************************************************************************)
EXTENDS Integers, FiniteSets

CONSTANTS
    Spaces, Digests, Nodes,
    Adds,        \* /blob/add tasks
    Uploads,     \* names for allocate/put/accept task triples, used once each
    Requests,    \* concurrently served requests
    AddSpace,    \* the space an add names
    AddDigest,   \* the digest an add names; None if only the hash function
    Calls,       \* the commands besides add and conclude that are issued
    MaxRuns,     \* bound: executions of one add task
    MaxFaults,   \* bound: faults in a behaviour
    None, Failed

ASSUME ConstantsAssumption ==
    /\ None \notin Spaces \cup Digests \cup Nodes \cup Adds \cup Uploads
    /\ Failed \notin Uploads \cup {None}
    /\ AddSpace \in [Adds -> Spaces]
    /\ AddDigest \in [Adds -> Digests \cup {None}]
    /\ MaxRuns \in Nat /\ MaxFaults \in Nat

VARIABLES
    registry,   \* blob_registry: the cause of the row of (space, digest)
    addRcpt,    \* the receipt stored for an add: its site's upload, or Failed
    allocMsg,   \* uploads whose allocate invocation and receipt are stored
    chainMsg,   \* uploads whose put and accept invocations are stored
    attested,   \* (upload, digest): a success accept receipt was stored, and
                \* the location commitment it names is for that digest
    upload,     \* the add an upload is for and the node it is on
    live,       \* (node) allocations that have not been rejected
    content,    \* (node) the digest of the bytes an allocation was given
    held,       \* (node) (node, digest): the node holds the bytes
    claims,     \* (node) (node, space, digest): accepted and not released
    listed,     \* registered storage providers
    weighted,   \* the ones among them whose weight is not zero
    req,        \* the control state of every request
    runs,       \* how often an add task has been executed
    faults      \* how many faults have happened

nodeVars  == <<live, content, held, claims>>
agentVars == <<addRcpt, allocMsg, chainMsg, attested>>
providers == <<listed, weighted>>
envVars   == <<providers, runs, faults>>
vars == <<registry, agentVars, upload, nodeVars, envVars, req>>

-----------------------------------------------------------------------------

Keys == Spaces \X Digests

PCs == {"idle",
        "replay", "allocate", "accept", "persist", "register", "respond",
        "conclude_accept", "conclude_persist", "conclude_register",
        "remove_locate", "remove_release", "remove_deregister",
        "abort_reject"}

\* add: the add being served; cause: the cause of a registration that was
\* read; upl, dig: the upload worked on and the digest it is concluded with;
\* space, node: what a remove works on; excl: nodes allocation gave up on;
\* out: the answer of an add, or Failed once a release could not be forwarded.
RequestStates ==
    [pc : PCs, add : Adds \cup {None}, cause : Adds \cup {None},
     upl : Uploads \cup {None}, dig : Digests \cup {None},
     space : Spaces \cup {None}, node : Nodes \cup {None},
     excl : SUBSET Nodes, out : Uploads \cup {None, Failed}]

Idle == [pc |-> "idle", add |-> None, cause |-> None, upl |-> None,
         dig |-> None, space |-> None, node |-> None, excl |-> {},
         out |-> None]

\* A request for the add a: with the cause c of a registration to replay, after
\* giving up on the nodes e, working on the upload u, or about to answer x.
AddReq(pc, a, c, e, u, x) ==
    [pc |-> pc, add |-> a, cause |-> c, upl |-> u, dig |-> None,
     space |-> None, node |-> None, excl |-> e, out |-> x]

\* A request that concludes the put of u, reported to have digest d.
ConcludeReq(pc, u, d) ==
    [pc |-> pc, add |-> None, cause |-> None, upl |-> u, dig |-> d,
     space |-> None, node |-> None, excl |-> {}, out |-> None]

\* A request that removes d from s, where it was registered with cause c and
\* its primary is n; x is Failed once the release could not be forwarded.
RemoveReq(pc, s, d, c, n, x) ==
    [pc |-> pc, add |-> None, cause |-> c, upl |-> None, dig |-> d,
     space |-> s, node |-> n, excl |-> {}, out |-> x]

\* A request that aborts the upload u.
AbortReq(u) ==
    [pc |-> "abort_reject", add |-> None, cause |-> None, upl |-> u,
     dig |-> None, space |-> None, node |-> None, excl |-> {}, out |-> None]

NoUpload == [add |-> None, node |-> None]

TypeOK ==
    /\ registry \in [Keys -> Adds \cup {None}]
    /\ addRcpt \in [Adds -> Uploads \cup {None, Failed}]
    /\ allocMsg \in SUBSET Uploads
    /\ chainMsg \in SUBSET Uploads
    /\ attested \in SUBSET (Uploads \X Digests)
    /\ upload \in [Uploads -> [add : Adds \cup {None}, node : Nodes \cup {None}]]
    /\ live \in SUBSET Uploads
    /\ content \in [Uploads -> Digests \cup {None}]
    /\ held \in SUBSET (Nodes \X Digests)
    /\ claims \in SUBSET (Nodes \X Spaces \X Digests)
    /\ listed \in SUBSET Nodes
    /\ weighted \in SUBSET listed
    /\ req \in [Requests -> RequestStates]
    /\ runs \in [Adds -> 0..MaxRuns]
    /\ faults \in 0..MaxFaults

Init ==
    /\ registry = [k \in Keys |-> None]
    /\ addRcpt = [a \in Adds |-> None]
    /\ allocMsg = {} /\ chainMsg = {} /\ attested = {}
    /\ upload = [u \in Uploads |-> NoUpload]
    /\ live = {} /\ content = [u \in Uploads |-> None]
    /\ held = {} /\ claims = {}
    /\ listed = Nodes /\ weighted = Nodes
    /\ req = [r \in Requests |-> Idle]
    /\ runs = [a \in Adds |-> 0]
    /\ faults = 0

-----------------------------------------------------------------------------
\* Helpers.

Hashed(a) == AddDigest[a] # None
KeyOfAdd(a) == <<AddSpace[a], AddDigest[a]>>

\* The digest the location commitment of an accepted upload names: the one the
\* allocation named, or the one the node computed over the bytes it was put.
Commitment(u) ==
    IF Hashed(upload[u].add) THEN AddDigest[upload[u].add] ELSE content[u]

SpaceOf(u) == AddSpace[upload[u].add]
NodeOf(u)  == upload[u].node
ClaimOf(u) == <<NodeOf(u), SpaceOf(u), Commitment(u)>>

\* An allocate invocation is new each time: no task it leads to exists yet.
Fresh(u) == upload[u] = NoUpload

\* A node executes /blob/accept successfully only for an allocation it knows
\* and bytes it holds.
CanAccept(u) ==
    /\ u \in live
    /\ Commitment(u) # None
    /\ <<NodeOf(u), Commitment(u)>> \in held

\* What replayAdd answers for the receipt x of an add: the same site if the
\* allocate, put and accept tasks behind it are stored, an error otherwise.
ReplayAdd(x) == IF x \in allocMsg \cap chainMsg THEN x ELSE Failed

\* A row is inserted, unless there is one (ErrEntryExists), or deleted.
Register(k, a) == registry[k] = None /\ registry' = [registry EXCEPT ![k] = a]
Deregister(k)  == registry' = [registry EXCEPT ![k] = None]

Fault == faults < MaxFaults /\ faults' = faults + 1

At(r, pc) == req[r].pc = pc
Become(r, q) == req' = [req EXCEPT ![r] = q]
Respond(r, a, x) == Become(r, AddReq("respond", a, None, {}, None, x))

-----------------------------------------------------------------------------
\* /blob/add

\* Mutant: a digest-less add does not look for the receipt of its first run.
AddBeginUnguarded(r, a) ==
    /\ At(r, "idle")
    /\ runs[a] < MaxRuns
    /\ runs' = [runs EXCEPT ![a] = @ + 1]
    /\ IF Hashed(a) /\ registry[KeyOfAdd(a)] # None
       THEN Become(r, AddReq("replay", a, registry[KeyOfAdd(a)], {}, None, None))
       ELSE Become(r, AddReq("allocate", a, None, {}, None, None))
    /\ UNCHANGED <<registry, agentVars, upload, nodeVars, providers, faults>>

\* Run the add task a up to the point where it allocates: a digest-less add
\* that has a stored receipt is answered with it, and a registered blob is
\* answered from the receipt chain of its registration.
AddBegin(r, a) ==
    /\ At(r, "idle")
    /\ runs[a] < MaxRuns
    /\ runs' = [runs EXCEPT ![a] = @ + 1]
    /\ \/ /\ ~Hashed(a) /\ addRcpt[a] # None
          /\ Respond(r, a, ReplayAdd(addRcpt[a]))
       \/ /\ Hashed(a) /\ registry[KeyOfAdd(a)] # None
          /\ Become(r, AddReq("replay", a, registry[KeyOfAdd(a)], {}, None, None))
       \/ /\ IF Hashed(a) THEN registry[KeyOfAdd(a)] = None ELSE addRcpt[a] = None
          /\ Become(r, AddReq("allocate", a, None, {}, None, None))
    /\ UNCHANGED <<registry, agentVars, upload, nodeVars, providers, faults>>

\* The space has no provider, or a store could not be read: a failure receipt.
AddRefused(r, a) ==
    /\ At(r, "idle")
    /\ runs[a] < MaxRuns
    /\ runs' = [runs EXCEPT ![a] = @ + 1]
    /\ Respond(r, a, Failed)
    /\ UNCHANGED <<registry, agentVars, upload, nodeVars, providers, faults>>

\* The blob is registered: answer from the receipt of the registration's cause.
AddReplay(r) ==
    /\ At(r, "replay")
    /\ Respond(r, req[r].add, ReplayAdd(addRcpt[req[r].cause]))
    /\ UNCHANGED <<registry, agentVars, upload, nodeVars, envVars>>

\* SelectStorageProvider: a registered provider with a weight, not excluded.
Candidates(r) == weighted \ req[r].excl

Exclude(r, n) ==
    Become(r, AddReq("allocate", req[r].add, None, req[r].excl \cup {n}, None, None))

\* Node n allocates and the allocation is stored.  A node that already holds
\* the bytes gives no address, and the blob is accepted at once; otherwise the
\* blob is parked and the client is told where to put it.
AddAllocate(r, n, u) ==
    LET a == req[r].add
        present == Hashed(a) /\ <<n, AddDigest[a]>> \in held
    IN  /\ At(r, "allocate")
        /\ n \in Candidates(r) /\ Fresh(u)
        /\ upload' = [upload EXCEPT ![u] = [add |-> a, node |-> n]]
        /\ live' = live \cup {u}
        /\ allocMsg' = allocMsg \cup {u}
        /\ content' = IF present THEN [content EXCEPT ![u] = AddDigest[a]] ELSE content
        /\ IF present THEN Become(r, AddReq("accept", a, None, {}, u, None))
                      ELSE Respond(r, a, u)
        /\ UNCHANGED <<registry, addRcpt, chainMsg, attested, held, claims, envVars>>

\* Mutant: the node that refused replaces the ones that refused before.
AddAllocateFailsLast(r, n) ==
    /\ At(r, "allocate")
    /\ n \in Candidates(r)
    /\ Become(r, AddReq("allocate", req[r].add, None, {n}, None, None))
    /\ UNCHANGED <<registry, agentVars, upload, nodeVars, envVars>>

\* Node n refuses or cannot be reached: it is excluded and the next is tried.
AddAllocateFails(r, n) ==
    /\ At(r, "allocate")
    /\ n \in Candidates(r)
    /\ Exclude(r, n)
    /\ UNCHANGED <<registry, agentVars, upload, nodeVars, envVars>>

\* Mutant: an allocation that could not be stored is answered all the same.
AddAllocateLostAnswered(r, n, u) ==
    /\ At(r, "allocate")
    /\ n \in Candidates(r) /\ Fresh(u)
    /\ Fault
    /\ upload' = [upload EXCEPT ![u] = [add |-> req[r].add, node |-> n]]
    /\ live' = live \cup {u}
    /\ Respond(r, req[r].add, u)
    /\ UNCHANGED <<registry, agentVars, content, held, claims, providers, runs>>

\* Node n allocates, but the answer is lost or cannot be stored: the node is
\* excluded and the allocation is forgotten.
AddAllocateLost(r, n, u) ==
    /\ At(r, "allocate")
    /\ n \in Candidates(r) /\ Fresh(u)
    /\ Fault
    /\ upload' = [upload EXCEPT ![u] = [add |-> req[r].add, node |-> n]]
    /\ live' = live \cup {u}
    /\ Exclude(r, n)
    /\ UNCHANGED <<registry, agentVars, content, held, claims, providers, runs>>

\* No candidate is left (CandidateUnavailable or UnsupportedDigestCode), or the
\* providers or the space's policy cannot be read: doAllocate gives up.
AddNoCandidate(r) ==
    /\ At(r, "allocate")
    /\ IF Candidates(r) = {} THEN UNCHANGED faults ELSE Fault
    /\ Respond(r, req[r].add, Failed)
    /\ UNCHANGED <<registry, agentVars, upload, nodeVars, providers, runs>>

AddAccept(r) ==
    /\ At(r, "accept")
    /\ CanAccept(req[r].upl)
    /\ claims' = claims \cup {ClaimOf(req[r].upl)}
    /\ Become(r, AddReq("persist", req[r].add, None, {}, req[r].upl, None))
    /\ UNCHANGED <<registry, agentVars, upload, live, content, held, envVars>>

AddAcceptFails(r) ==
    /\ At(r, "accept")
    /\ IF CanAccept(req[r].upl) THEN Fault ELSE UNCHANGED faults
    /\ Respond(r, req[r].add, Failed)
    /\ UNCHANGED <<registry, agentVars, upload, nodeVars, providers, runs>>

AddPersist(r) ==
    /\ At(r, "persist")
    /\ attested' = attested \cup {<<req[r].upl, Commitment(req[r].upl)>>}
    /\ Become(r, AddReq("register", req[r].add, None, {}, req[r].upl, None))
    /\ UNCHANGED <<registry, addRcpt, allocMsg, chainMsg, upload, nodeVars, envVars>>

AddPersistFails(r) ==
    /\ At(r, "persist")
    /\ Fault
    /\ Respond(r, req[r].add, Failed)
    /\ UNCHANGED <<registry, agentVars, upload, nodeVars, providers, runs>>

\* Register in the add handler: an existing row is an error like any other.
AddRegister(r) ==
    LET a == req[r].add IN
    /\ At(r, "register")
    /\ Register(KeyOfAdd(a), a)
    /\ Respond(r, a, req[r].upl)
    /\ UNCHANGED <<agentVars, upload, nodeVars, envVars>>

AddRegisterFails(r) ==
    /\ At(r, "register")
    /\ IF registry[KeyOfAdd(req[r].add)] = None THEN Fault ELSE UNCHANGED faults
    /\ Respond(r, req[r].add, Failed)
    /\ UNCHANGED <<registry, agentVars, upload, nodeVars, providers, runs>>

\* The agent store takes the answer x of the add a: a receipt, which overwrites
\* the row of the task, and the put and accept invocations of its metadata.
WriteAnswer(a, x) ==
    /\ addRcpt' = [addRcpt EXCEPT ![a] = x]
    /\ chainMsg' = IF x \in Uploads THEN chainMsg \cup {x} ELSE chainMsg

\* The response is encoded: it is stored before it leaves.
AddRespond(r) ==
    /\ At(r, "respond")
    /\ WriteAnswer(req[r].add, req[r].out)
    /\ Become(r, Idle)
    /\ UNCHANGED <<registry, allocMsg, attested, upload, nodeVars, envVars>>

-----------------------------------------------------------------------------
\* /ucan/conclude of an /http/put receipt.  A failed put, a digest-less put
\* that reports no usable digest and a provider that is no longer registered
\* end the request with no effect and are not steps of the model.

\* A client can deliver a receipt for a put it was given.  The put invocation
\* comes with the receipt or is looked up; a client has it from the answer of
\* the add, which is stored before it leaves, so that either way it is stored.
Delivered(u) == u \in chainMsg

\* The allocation behind the put is stored, and d is the digest it names or, if
\* it names none, any digest the receipt reports.
Resolved(u, d) ==
    /\ u \in allocMsg
    /\ Hashed(upload[u].add) => d = AddDigest[upload[u].add]

ConcludeBegin(r, u, d) ==
    /\ At(r, "idle")
    /\ Delivered(u)
    /\ Resolved(u, d)
    /\ NodeOf(u) \in listed
    /\ Become(r, ConcludeReq("conclude_accept", u, d))
    /\ UNCHANGED <<registry, agentVars, upload, nodeVars, envVars>>

ConcludeAccept(r) ==
    /\ At(r, "conclude_accept")
    /\ CanAccept(req[r].upl)
    /\ claims' = claims \cup {ClaimOf(req[r].upl)}
    /\ Become(r, ConcludeReq("conclude_persist", req[r].upl, req[r].dig))
    /\ UNCHANGED <<registry, agentVars, upload, live, content, held, envVars>>

\* Mutant: a failure receipt is taken for an acceptance.
ConcludeAcceptFailsIgnored(r) ==
    /\ At(r, "conclude_accept")
    /\ ~CanAccept(req[r].upl)
    /\ Become(r, ConcludeReq("conclude_persist", req[r].upl, req[r].dig))
    /\ UNCHANGED <<registry, agentVars, upload, nodeVars, envVars>>

\* The node answers with a failure receipt: stored, and nothing is registered.
ConcludeAcceptFails(r) ==
    /\ At(r, "conclude_accept")
    /\ ~CanAccept(req[r].upl)
    /\ Become(r, Idle)
    /\ UNCHANGED <<registry, agentVars, upload, nodeVars, envVars>>

\* Mutant: the acceptance is stored and the blob is never registered.
ConcludePersistOnly(r) ==
    /\ At(r, "conclude_persist")
    /\ attested' = attested \cup {<<req[r].upl, Commitment(req[r].upl)>>}
    /\ Become(r, Idle)
    /\ UNCHANGED <<registry, addRcpt, allocMsg, chainMsg, upload, nodeVars, envVars>>

ConcludePersist(r) ==
    /\ At(r, "conclude_persist")
    /\ attested' = attested \cup {<<req[r].upl, Commitment(req[r].upl)>>}
    /\ Become(r, ConcludeReq("conclude_register", req[r].upl, req[r].dig))
    /\ UNCHANGED <<registry, addRcpt, allocMsg, chainMsg, upload, nodeVars, envVars>>

\* Mutant: the commitment of a digest-less blob is not compared with the put.
ConcludeRegisterUnchecked(r) ==
    LET u == req[r].upl
        k == <<SpaceOf(u), req[r].dig>>
    IN  /\ At(r, "conclude_register")
        /\ registry' = [registry EXCEPT ![k] = IF @ = None THEN upload[u].add ELSE @]
        /\ Become(r, Idle)
        /\ UNCHANGED <<agentVars, upload, nodeVars, envVars>>

\* Mutant: the cause registered is the put task and not the add task.
ConcludeRegisterPut(r) ==
    /\ At(r, "conclude_register")
    /\ registry' = [registry EXCEPT ![<<SpaceOf(req[r].upl), req[r].dig>>] = req[r].upl]
    /\ Become(r, Idle)
    /\ UNCHANGED <<agentVars, upload, nodeVars, envVars>>

\* Register under the cause of the allocation, unless the commitment of a
\* digest-less blob names another digest.  An existing row is tolerated.
ConcludeRegister(r) ==
    LET u == req[r].upl
        k == <<SpaceOf(u), req[r].dig>>
        usable == Hashed(upload[u].add) \/ Commitment(u) = req[r].dig
    IN  /\ At(r, "conclude_register")
        /\ IF usable /\ registry[k] = None
           THEN Register(k, upload[u].add)
           ELSE UNCHANGED registry
        /\ Become(r, Idle)
        /\ UNCHANGED <<agentVars, upload, nodeVars, envVars>>

-----------------------------------------------------------------------------
\* /blob/remove.  An unregistered blob is success with no effect.

RemoveBegin(r, s, d) ==
    /\ "remove" \in Calls
    /\ At(r, "idle")
    /\ registry[<<s, d>>] # None
    /\ Become(r, RemoveReq("remove_locate", s, d, registry[<<s, d>>], None, None))
    /\ UNCHANGED <<registry, agentVars, upload, nodeVars, envVars>>

\* The provider an add receipt leads to, through its accept invocation.
PrimaryProviderForBlob(a) ==
    IF addRcpt[a] \in chainMsg THEN NodeOf(addRcpt[a]) ELSE None

\* Mutant: the blob is deregistered and no node is asked to release it.
RemoveLocateNobody(r) ==
    /\ At(r, "remove_locate")
    /\ Become(r, RemoveReq("remove_deregister", req[r].space, req[r].dig, None, None, None))
    /\ UNCHANGED <<registry, agentVars, upload, nodeVars, envVars>>

RemoveLocate(r) ==
    LET n == PrimaryProviderForBlob(req[r].cause) IN
    /\ At(r, "remove_locate")
    /\ IF n = None
       THEN Become(r, RemoveReq("remove_deregister", req[r].space, req[r].dig, None, None, None))
       ELSE Become(r, RemoveReq("remove_release", req[r].space, req[r].dig, None, n, None))
    /\ UNCHANGED <<registry, agentVars, upload, nodeVars, envVars>>

\* The node drops the space's claim; once nobody claims the bytes it may
\* delete them.
RemoveRelease(r) ==
    LET n == req[r].node
        d == req[r].dig
        rest == claims \ {<<n, req[r].space, d>>}
    IN  /\ At(r, "remove_release")
        /\ n \in listed
        /\ claims' = rest
        /\ \/ held' = held
           \/ held' = held \ {<<n, d>>} /\ \A s \in Spaces : <<n, s, d>> \notin rest
        /\ Become(r, RemoveReq("remove_deregister", req[r].space, d, None, None, None))
        /\ UNCHANGED <<registry, agentVars, upload, live, content, envVars>>

\* The release is not forwarded: the provider is not registered any more, or
\* cannot be reached.  This is logged and the removal goes on.
RemoveReleaseFails(r) ==
    /\ At(r, "remove_release")
    /\ IF req[r].node \in listed THEN Fault ELSE UNCHANGED faults
    /\ Become(r, RemoveReq("remove_deregister", req[r].space, req[r].dig, None,
                           None, Failed))
    /\ UNCHANGED <<registry, agentVars, upload, nodeVars, providers, runs>>

RemoveDeregister(r) ==
    /\ At(r, "remove_deregister")
    /\ Deregister(<<req[r].space, req[r].dig>>)
    /\ Become(r, Idle)
    /\ UNCHANGED <<agentVars, upload, nodeVars, envVars>>

-----------------------------------------------------------------------------
\* /blob/abort.  An add without a usable receipt chain, or of another space,
\* is a failure with no effect.

AbortBegin(r, s, a) ==
    LET u == addRcpt[a] IN
    /\ "abort" \in Calls
    /\ At(r, "idle")
    /\ u \in chainMsg
    /\ SpaceOf(u) = s
    /\ NodeOf(u) \in listed
    /\ Become(r, AbortReq(u))
    /\ UNCHANGED <<registry, agentVars, upload, nodeVars, envVars>>

\* The node refuses with BlobAccepted if the space has accepted the blob.
AbortReject(r) ==
    LET u == req[r].upl IN
    /\ At(r, "abort_reject")
    /\ live' = IF ClaimOf(u) \in claims THEN live ELSE live \ {u}
    /\ Become(r, Idle)
    /\ UNCHANGED <<registry, agentVars, upload, content, held, claims, envVars>>

-----------------------------------------------------------------------------
\* The environment.

\* A client that was given an upload and its address puts the bytes to the node; the node
\* checks them against the digest the allocation named, if it named one.
ClientPut(u, d) ==
    /\ u \in chainMsg \cap live
    /\ content[u] = None
    /\ Hashed(upload[u].add) => d = AddDigest[upload[u].add]
    /\ content' = [content EXCEPT ![u] = d]
    /\ held' = held \cup {<<NodeOf(u), d>>}
    /\ UNCHANGED <<registry, agentVars, upload, live, claims, envVars, req>>

\* A provider is registered with weight zero.
AdminProviderRegister(n) ==
    /\ "admin" \in Calls
    /\ n \notin listed
    /\ listed' = listed \cup {n}
    /\ UNCHANGED <<weighted, registry, agentVars, upload, nodeVars, runs, faults, req>>

AdminProviderDeregister(n) ==
    /\ "admin" \in Calls
    /\ n \in listed
    /\ listed' = listed \ {n}
    /\ weighted' = weighted \ {n}
    /\ UNCHANGED <<registry, agentVars, upload, nodeVars, runs, faults, req>>

AdminProviderWeightSet(n) ==
    /\ "admin" \in Calls
    /\ n \in listed
    /\ weighted' \in {weighted \cup {n}, weighted \ {n}}
    /\ UNCHANGED <<listed, registry, agentVars, upload, nodeVars, runs, faults, req>>

\* A request ends without taking its remaining steps.
Crash(r) ==
    /\ ~At(r, "idle")
    /\ Fault
    /\ Become(r, Idle)
    /\ UNCHANGED <<registry, agentVars, upload, nodeVars, providers, runs>>

-----------------------------------------------------------------------------

\* A request arrives.
Arrive(r) ==
    \/ \E a \in Adds : AddBegin(r, a) \/ AddRefused(r, a)
    \/ \E u \in Uploads, d \in Digests : ConcludeBegin(r, u, d)
    \/ \E s \in Spaces, d \in Digests : RemoveBegin(r, s, d)
    \/ \E s \in Spaces, a \in Adds : AbortBegin(r, s, a)

\* A request that was begun takes its next step.
Step(r) ==
    \/ AddReplay(r)
    \/ \E n \in Nodes, u \in Uploads : AddAllocate(r, n, u)
    \/ \E n \in Nodes : AddAllocateFails(r, n)
    \/ \E n \in Nodes, u \in Uploads : AddAllocateLost(r, n, u)
    \/ AddNoCandidate(r)
    \/ AddAccept(r) \/ AddAcceptFails(r)
    \/ AddPersist(r) \/ AddPersistFails(r)
    \/ AddRegister(r) \/ AddRegisterFails(r)
    \/ AddRespond(r)
    \/ ConcludeAccept(r) \/ ConcludeAcceptFails(r)
    \/ ConcludePersist(r) \/ ConcludeRegister(r)
    \/ RemoveLocate(r) \/ RemoveRelease(r) \/ RemoveReleaseFails(r)
    \/ RemoveDeregister(r)
    \/ AbortReject(r)

Environment ==
    \/ \E u \in Uploads, d \in Digests : ClientPut(u, d)
    \/ \E n \in Nodes : \/ AdminProviderRegister(n) \/ AdminProviderDeregister(n)
                     \/ AdminProviderWeightSet(n)
    \/ \E r \in Requests : Crash(r)

Next ==
    \/ \E r \in Requests : Arrive(r) \/ Step(r)
    \/ Environment

Spec == Init /\ [][Next]_vars

\* Every begun request keeps taking steps: requests run in goroutines of their
\* own, and every network call they make has a timeout.
FairSpec == Spec /\ \A r \in Requests : WF_vars(Step(r))

-----------------------------------------------------------------------------
\* Safety.

\* A blob is registered in a space only for an add of that space, under the
\* digest the add named or, for a digest-less add, under the digest a location
\* commitment names; and the success receipt of that upload's accept was stored
\* before (acceptOnProvider and maybeAccept persist, then Register).
RegisteredAttested ==
    \A s \in Spaces, d \in Digests :
        LET a == registry[<<s, d>>] IN
        a # None =>
            /\ AddSpace[a] = s
            /\ AddDigest[a] \in {d, None}
            /\ \E u \in Uploads : upload[u].add = a /\ <<u, d>> \in attested

\* The receipt chain that replayAdd, primaryProviderForBlob, rejectionFor and
\* resolveAllocations walk has no gap: an add whose stored receipt is a success
\* has its allocate, put and accept tasks stored, and a client never holds a
\* put whose allocation the agent store does not have.
ChainComplete ==
    /\ \A a \in Adds : addRcpt[a] \in Uploads => addRcpt[a] \in chainMsg
    /\ chainMsg \subseteq allocMsg

\* primaryProviderForBlob "recovers the storage provider that holds the primary
\* copy of a registered blob": the node it finds for a registration holds the
\* space's claim on the blob.
PrimaryHolds ==
    \A s \in Spaces, d \in Digests :
        LET a == registry[<<s, d>>] IN
        (a # None /\ PrimaryProviderForBlob(a) # None)
            => <<PrimaryProviderForBlob(a), s, d>> \in claims

Quiescent == \A r \in Requests : At(r, "idle")

\* No storage node is left "holding blobs sprue has no record of" (AcceptBatch)
\* by requests that ran to their end, as long as nothing failed and no task was
\* run twice, and clients reported the digests of what they had put (a client
\* that reports another for a put without one is accepted and not registered).
ClaimsRecorded ==
    (Quiescent /\ faults = 0 /\ \A a \in Adds : runs[a] <= 1)
        => \A c \in claims : registry[<<c[2], c[3]>>] # None

\* /blob/remove asks one node, the provider of the registration's cause, to
\* release the blob.  With requests that follow one another, nothing failing and
\* no task run twice, that leaves a claim behind only where the node was not
\* the only one: the space had the blob accepted on another node too, from two
\* adds that were parked before either was concluded.
ClaimsReleased ==
    (Quiescent /\ faults = 0 /\ \A a \in Adds : runs[a] <= 1)
        => \A c \in claims :
              \/ registry[<<c[2], c[3]>>] # None
              \/ \E u \in Uploads :
                    /\ <<u, c[3]>> \in attested
                    /\ SpaceOf(u) = c[2] /\ NodeOf(u) # c[1]

\* A digest-less add is given one upload, whatever is retried: a second one
\* would share the /http/put key of the first and orphan it.  (Two requests of
\* one task that overlap both find no receipt, and each allocates.)
DigestlessSingleUpload ==
    \A u, v \in chainMsg :
        upload[u].add = upload[v].add /\ ~Hashed(upload[u].add) => u = v

\* NewBlobAddHandler takes it that a blob "should not have been registered on
\* error": the receipt stored for the cause of a registration is no failure.
RegisteredNotFailed ==
    \A k \in Keys : registry[k] # None => addRcpt[registry[k]] # Failed

-----------------------------------------------------------------------------
\* Liveness.

\* Every request is answered: doAllocate excludes a node it gave up on, so its
\* loop ends whatever the nodes answer and however the provider list changes.
RequestsFinish ==
    \A r \in Requests : ~At(r, "idle") ~> At(r, "idle")
=============================================================================
