------------------------ MODULE BlobLifecycleProofs ------------------------
(***************************************************************************)
(* The safety of BlobLifecycle, for every set of spaces, blobs, nodes, add *)
(* tasks and requests and for every bound on retries and faults.           *)
(***************************************************************************)
EXTENDS BlobLifecycle, TLAPS

AddPCs == {"replay", "allocate", "accept", "persist", "register", "respond"}

\* What is true of a request in control state q.
RequestOK(q) ==
    /\ q.pc \in AddPCs => q.add \in Adds
    /\ q.pc = "replay" => q.cause \in Adds
    /\ q.pc \in {"accept", "persist", "register"} =>
          /\ q.upl \in allocMsg /\ upload[q.upl].add = q.add
          /\ Hashed(q.add)
    /\ q.pc = "register" => <<q.upl, AddDigest[q.add]>> \in attested
    /\ (q.pc = "respond" /\ q.out \in Uploads) => q.out \in allocMsg
    /\ q.pc \in {"conclude_accept", "conclude_persist", "conclude_register"} =>
          /\ q.upl \in allocMsg /\ q.dig \in Digests
          /\ Hashed(upload[q.upl].add) => q.dig = AddDigest[upload[q.upl].add]
    /\ q.pc \in {"conclude_persist", "conclude_register"} => Commitment(q.upl) \in Digests
    /\ q.pc = "conclude_register" => <<q.upl, Commitment(q.upl)>> \in attested
    /\ q.pc \in {"remove_locate", "remove_release", "remove_deregister"} =>
          q.space \in Spaces /\ q.dig \in Digests
    /\ q.pc = "remove_locate" => q.cause \in Adds

RequestsOK == \A r \in Requests : RequestOK(req[r])

\* Every upload the agent store knows was issued for an add, on a node.
UploadsIssued == \A u \in allocMsg : upload[u].add \in Adds /\ upload[u].node \in Nodes

IInv == TypeOK /\ UploadsIssued /\ ChainComplete /\ RequestsOK /\ RegisteredAttested

-----------------------------------------------------------------------------
\* What no step undoes: the agent store only learns of uploads and accepts,
\* an issued upload stays what it is, and bytes once put stay the same.
Grows ==
    /\ allocMsg \subseteq allocMsg'
    /\ attested \subseteq attested'
    /\ \A u \in allocMsg : upload'[u] = upload[u]
    /\ \A u \in allocMsg : content'[u] = content[u] \/ content[u] = None

\* A step that only makes the stores grow disturbs no request but its own.
LEMMA RequestStable ==
    ASSUME TypeOK, UploadsIssued, Grows,
           NEW q \in RequestStates, RequestOK(q)
    PROVE  RequestOK(q)'
<1>1. ASSUME q.upl \in allocMsg, Commitment(q.upl) \in Digests
      PROVE  Commitment(q.upl)' = Commitment(q.upl)
  BY <1>1, ConstantsAssumption DEF Grows, Commitment, Hashed, UploadsIssued, TypeOK
<1>2. q.upl \in allocMsg => q.upl \in allocMsg' /\ upload'[q.upl] = upload[q.upl]
  BY DEF Grows
<1>3. attested \subseteq attested' /\ allocMsg \subseteq allocMsg'
  BY DEF Grows
<1>4. QED
  BY <1>1, <1>2, <1>3 DEF RequestOK, Hashed

\* The step of one request keeps RequestsOK if the state it moves to is fine.
LEMMA RequestsStep ==
    ASSUME TypeOK, UploadsIssued, RequestsOK, Grows,
           NEW r \in Requests,
           \A r2 \in Requests \ {r} : req'[r2] = req[r2],
           RequestOK(req[r])'
    PROVE  RequestsOK'
<1>1. SUFFICES ASSUME NEW r2 \in Requests, r2 # r
               PROVE  RequestOK(req[r2])'
  BY DEF RequestsOK
<1>2. RequestOK(req[r2]) /\ req[r2] \in RequestStates /\ req'[r2] = req[r2]
  BY <1>1 DEF RequestsOK, TypeOK
<1>3. \A q \in RequestStates : RequestOK(q) => RequestOK(q)'
  BY RequestStable
<1>4. RequestOK(req[r2])'
  <2> DEFINE q == req[r2]
  <2>1. PICK c \in RequestStates : c = req[r2]
    BY <1>2
  <2>2. RequestOK(c)
    BY <1>2, <2>1
  <2>3. RequestOK(c)'
    BY <1>3, <2>2
  <2>4. c = req'[r2]
    BY <2>1, <1>2
  <2>5. QED
    BY <2>3, <2>4 DEF RequestOK
<1>5. QED
  BY <1>4

\* A step that changes none of the stores keeps what is said of them.
LEMMA StoresUnchanged ==
    ASSUME IInv, UNCHANGED <<registry, agentVars, upload>>
    PROVE  UploadsIssued' /\ ChainComplete' /\ RegisteredAttested'
BY DEF IInv, agentVars, UploadsIssued, ChainComplete, RegisteredAttested

\* A request that becomes a well-typed q leaves req well typed.
LEMMA BecomeType ==
    ASSUME TypeOK, NEW r \in Requests, NEW q \in RequestStates, Become(r, q)
    PROVE  /\ req' \in [Requests -> RequestStates]
           /\ \A r2 \in Requests \ {r} : req'[r2] = req[r2]
           /\ req'[r] = q
BY DEF TypeOK, Become

\* The control states the actions build are well typed.
LEMMA IdleType == Idle \in RequestStates
BY DEF Idle, RequestStates, PCs

\* A request of /blob/add.
LEMMA AddReqType ==
    ASSUME NEW pc \in AddPCs, NEW a \in Adds, NEW c \in Adds \cup {None},
           NEW e \in SUBSET Nodes, NEW u \in Uploads \cup {None},
           NEW x \in Uploads \cup {None, Failed}
    PROVE  AddReq(pc, a, c, e, u, x) \in RequestStates
BY DEF AddReq, RequestStates, PCs, AddPCs

\* A request of /ucan/conclude.
LEMMA ConcludeReqType ==
    ASSUME NEW pc \in {"conclude_accept", "conclude_persist", "conclude_register"},
           NEW u \in Uploads, NEW d \in Digests
    PROVE  ConcludeReq(pc, u, d) \in RequestStates
BY DEF ConcludeReq, RequestStates, PCs

\* A request of /blob/remove.
LEMMA RemoveReqType ==
    ASSUME NEW pc \in {"remove_locate", "remove_release", "remove_deregister"},
           NEW s \in Spaces, NEW d \in Digests, NEW c \in Adds \cup {None},
           NEW n \in Nodes \cup {None}, NEW x \in {None, Failed}
    PROVE  RemoveReq(pc, s, d, c, n, x) \in RequestStates
BY DEF RemoveReq, RequestStates, PCs

\* A request of /blob/abort.
LEMMA AbortReqType ==
    ASSUME NEW u \in Uploads
    PROVE  AbortReq(u) \in RequestStates
BY DEF AbortReq, RequestStates, PCs

\* The types of what belongs to the nodes and to the environment.
OutsideTypes ==
    /\ live \in SUBSET Uploads
    /\ held \in SUBSET (Nodes \X Digests)
    /\ claims \in SUBSET (Nodes \X Spaces \X Digests)
    /\ listed \in SUBSET Nodes
    /\ weighted \in SUBSET listed
    /\ runs \in [Adds -> 0..MaxRuns]
    /\ faults \in 0..MaxFaults

\* A step that takes one request to q and leaves the stores alone.
LEMMA QuietStep ==
    ASSUME IInv, NEW r \in Requests, NEW q \in RequestStates, Become(r, q),
           RequestOK(q), UNCHANGED <<registry, agentVars, upload, content>>,
           OutsideTypes'
    PROVE  IInv'
<1> USE DEF IInv
<1>1. req' \in [Requests -> RequestStates] /\ req'[r] = q
      /\ \A r2 \in Requests \ {r} : req'[r2] = req[r2]
  BY BecomeType
<1>2. TypeOK'
  BY <1>1 DEF TypeOK, OutsideTypes, agentVars
<1>3. Grows
  BY DEF Grows, agentVars
<1>4. RequestOK(q)'
  BY <1>3, RequestStable
<1>5. RequestOK(req[r])'
  BY <1>1, <1>4 DEF RequestOK
<1>6. RequestsOK'
  BY <1>1, <1>3, <1>5, RequestsStep
<1>7. QED
  BY <1>2, <1>6, StoresUnchanged

\* Nothing is asked of a request that is over.
LEMMA IdleOK == RequestOK(Idle)
BY DEF RequestOK, Idle, AddPCs

\* An add may answer with a failure, or with an upload whose allocation is stored.
LEMMA RespondOK ==
    ASSUME NEW a \in Adds, NEW x \in Uploads \cup {None, Failed},
           x \in Uploads => x \in allocMsg
    PROVE  /\ RequestOK(AddReq("respond", a, None, {}, None, x))
           /\ AddReq("respond", a, None, {}, None, x) \in RequestStates
BY AddReqType DEF RequestOK, AddReq, AddPCs

\* The count of faults stays within its bound.
LEMMA FaultType ==
    ASSUME TypeOK, Fault \/ UNCHANGED faults
    PROVE  faults' \in 0..MaxFaults
BY ConstantsAssumption DEF TypeOK, Fault

\* What the invariant says of one request.
LEMMA CurrentRequest ==
    ASSUME IInv, NEW r \in Requests
    PROVE  req[r] \in RequestStates /\ RequestOK(req[r])
BY DEF IInv, TypeOK, RequestsOK

-----------------------------------------------------------------------------
\* The steps of /blob/add.

\* The handler's first reads decide what the add does, and write nothing.
LEMMA AddBeginStep ==
    ASSUME IInv, NEW r \in Requests, NEW a \in Adds,
           AddBegin(r, a) \/ AddRefused(r, a)
    PROVE  IInv'
<1> USE ConstantsAssumption DEF IInv
<1>1. PICK pc \in {"replay", "allocate", "respond"}, c \in Adds \cup {None},
           x \in Uploads \cup {None, Failed} :
         /\ Become(r, AddReq(pc, a, c, {}, None, x))
         /\ pc = "replay" => c \in Adds
         /\ x \in Uploads => x \in allocMsg
  BY DEF AddBegin, AddRefused, Respond, ReplayAdd, TypeOK, Keys, KeyOfAdd, Hashed
<1> DEFINE q == AddReq(pc, a, c, {}, None, x)
<1>2. q \in RequestStates /\ RequestOK(q)
  BY <1>1, AddReqType DEF AddPCs, RequestOK, AddReq
<1>3. OutsideTypes'
  BY DEF AddBegin, AddRefused, TypeOK, OutsideTypes, nodeVars, providers
<1>4. QED
  BY <1>1, <1>2, <1>3, QuietStep DEF AddBegin, AddRefused, nodeVars

\* The answers that are given without touching a store.
LEMMA AddAnswerStep ==
    ASSUME IInv, NEW r \in Requests,
           \/ AddReplay(r) \/ AddNoCandidate(r) \/ AddAcceptFails(r)
           \/ AddPersistFails(r) \/ AddRegisterFails(r)
    PROVE  IInv'
<1> USE DEF IInv
<1>1. req[r].add \in Adds
  BY CurrentRequest DEF RequestOK, AddPCs, At, AddReplay, AddNoCandidate,
     AddAcceptFails, AddPersistFails, AddRegisterFails
<1>2. PICK x \in Uploads \cup {None, Failed} :
         /\ Respond(r, req[r].add, x)
         /\ x \in Uploads => x \in allocMsg
  <2>1. ReplayAdd(addRcpt[req[r].cause]) \in Uploads \cup {None, Failed}
        /\ (ReplayAdd(addRcpt[req[r].cause]) \in Uploads
              => ReplayAdd(addRcpt[req[r].cause]) \in allocMsg)
    BY ConstantsAssumption DEF ReplayAdd, TypeOK
  <2>2. QED
    BY <2>1, ConstantsAssumption DEF AddReplay, AddNoCandidate, AddAcceptFails,
       AddPersistFails, AddRegisterFails
<1>3. OutsideTypes'
  <2>1. faults' \in 0..MaxFaults
    BY FaultType DEF AddReplay, AddNoCandidate, AddAcceptFails, AddPersistFails,
       AddRegisterFails, envVars, providers
  <2>2. QED
    BY <2>1 DEF AddReplay, AddNoCandidate, AddAcceptFails, AddPersistFails,
       AddRegisterFails, envVars, providers, nodeVars, TypeOK, OutsideTypes
<1>4. UNCHANGED <<registry, agentVars, upload, content>>
  BY DEF AddReplay, AddNoCandidate, AddAcceptFails, AddPersistFails,
     AddRegisterFails, nodeVars
<1>5. QED
  BY <1>1, <1>2, <1>3, <1>4, RespondOK, QuietStep DEF Respond

\* doAllocate gives up on a node.
LEMMA AddExcludeStep ==
    ASSUME IInv, NEW r \in Requests, NEW n \in Nodes, AddAllocateFails(r, n)
    PROVE  IInv'
<1> USE DEF IInv
<1> DEFINE q == AddReq("allocate", req[r].add, None, req[r].excl \cup {n}, None, None)
<1>1. req[r].add \in Adds /\ req[r].excl \in SUBSET Nodes
  BY CurrentRequest DEF RequestOK, AddPCs, At, AddAllocateFails, RequestStates
<1>2. q \in RequestStates /\ RequestOK(q)
  BY <1>1, AddReqType, ConstantsAssumption DEF AddPCs, RequestOK, AddReq
<1>3. OutsideTypes' /\ UNCHANGED <<registry, agentVars, upload, content>>
  BY DEF AddAllocateFails, envVars, providers, nodeVars, TypeOK, OutsideTypes
<1>4. QED
  BY <1>2, <1>3, QuietStep DEF AddAllocateFails, Exclude

\* Issuing a fresh upload leaves every upload the agent store knows alone.
LEMMA IssueGrows ==
    ASSUME IInv, NEW u \in Uploads, Fresh(u), NEW w, upload' = [upload EXCEPT ![u] = w],
           allocMsg \subseteq allocMsg', UNCHANGED attested,
           \A v \in Uploads \ {u} : content'[v] = content[v]
    PROVE  Grows /\ u \notin allocMsg
<1>1. u \notin allocMsg
  BY ConstantsAssumption DEF IInv, UploadsIssued, Fresh, NoUpload
<1>2. QED
  BY <1>1 DEF Grows, IInv, TypeOK

\* Issuing a fresh upload takes no registration's backing away.
LEMMA IssueKeepsRegistered ==
    ASSUME IInv, NEW u \in Uploads, Fresh(u), NEW w, upload' = [upload EXCEPT ![u] = w],
           UNCHANGED <<attested, registry>>
    PROVE  RegisteredAttested'
<1>1. SUFFICES ASSUME NEW s \in Spaces, NEW d \in Digests, registry'[<<s, d>>] # None
               PROVE  /\ AddSpace[registry'[<<s, d>>]] = s
                      /\ AddDigest[registry'[<<s, d>>]] \in {d, None}
                      /\ \E v \in Uploads : upload'[v].add = registry'[<<s, d>>]
                                            /\ <<v, d>> \in attested'
  BY DEF RegisteredAttested
<1>2. /\ AddSpace[registry[<<s, d>>]] = s
      /\ AddDigest[registry[<<s, d>>]] \in {d, None}
      /\ \E v \in Uploads : upload[v].add = registry[<<s, d>>] /\ <<v, d>> \in attested
  BY <1>1 DEF IInv, RegisteredAttested
<1>3. PICK v \in Uploads : upload[v].add = registry[<<s, d>>] /\ <<v, d>> \in attested
  BY <1>2
<1>4. v # u
  BY <1>1, <1>3 DEF Fresh, NoUpload
<1>5. QED
  BY <1>2, <1>3, <1>4 DEF IInv, TypeOK

\* An allocation is stored before it is answered or accepted.
LEMMA AddAllocateStep ==
    ASSUME IInv, NEW r \in Requests, NEW n \in Nodes, NEW u \in Uploads,
           AddAllocate(r, n, u)
    PROVE  IInv'
<1> USE ConstantsAssumption DEF IInv
<1> DEFINE a == req[r].add
<1>1. a \in Adds
  BY CurrentRequest DEF RequestOK, AddPCs, At, AddAllocate
<1>2. /\ Fresh(u)
      /\ upload' = [upload EXCEPT ![u] = [add |-> a, node |-> n]]
      /\ live' = live \cup {u}
      /\ allocMsg' = allocMsg \cup {u}
      /\ content' = content \/ (Hashed(a) /\ content' = [content EXCEPT ![u] = AddDigest[a]])
      /\ UNCHANGED <<registry, addRcpt, chainMsg, attested, held, claims, envVars>>
  BY DEF AddAllocate
<1>3. PICK q \in RequestStates :
         /\ Become(r, q)
         /\ \/ q = AddReq("accept", a, None, {}, u, None) /\ Hashed(a)
            \/ q = AddReq("respond", a, None, {}, None, u)
  BY <1>1, AddReqType DEF AddAllocate, Respond, AddPCs
<1>4. req' \in [Requests -> RequestStates] /\ req'[r] = q
      /\ \A r2 \in Requests \ {r} : req'[r2] = req[r2]
  BY <1>3, BecomeType
<1>5. Grows
  <2>1. \A v \in Uploads \ {u} : content'[v] = content[v]
    BY <1>2 DEF TypeOK
  <2>2. QED
    BY <1>2, <2>1, IssueGrows
<1>6. TypeOK'
  <2>1. content' \in [Uploads -> Digests \cup {None}]
    BY <1>1, <1>2 DEF TypeOK, Hashed
  <2>2. QED
    BY <1>1, <1>2, <1>4, <2>1 DEF TypeOK, envVars, providers
<1>7. UploadsIssued'
  BY <1>1, <1>2, <1>5 DEF UploadsIssued, TypeOK, Grows
<1>8. ChainComplete'
  BY <1>2 DEF ChainComplete
<1>9. RegisteredAttested'
  BY <1>2, IssueKeepsRegistered
<1>10. RequestOK(req[r])'
  BY <1>1, <1>2, <1>3, <1>4 DEF RequestOK, AddReq, AddPCs, Hashed, TypeOK
<1>11. RequestsOK'
  BY <1>4, <1>5, <1>10, RequestsStep
<1>12. QED
  BY <1>6, <1>7, <1>8, <1>9, <1>11

\* An allocation that is not stored is not used.
LEMMA AddAllocateLostStep ==
    ASSUME IInv, NEW r \in Requests, NEW n \in Nodes, NEW u \in Uploads,
           AddAllocateLost(r, n, u)
    PROVE  IInv'
<1> USE ConstantsAssumption DEF IInv
<1> DEFINE q == AddReq("allocate", req[r].add, None, req[r].excl \cup {n}, None, None)
<1>1. req[r].add \in Adds /\ req[r].excl \in SUBSET Nodes
  BY CurrentRequest DEF RequestOK, AddPCs, At, AddAllocateLost, RequestStates
<1>2. /\ Fresh(u)
      /\ upload' = [upload EXCEPT ![u] = [add |-> req[r].add, node |-> n]]
      /\ live' = live \cup {u}
      /\ Become(r, q)
      /\ UNCHANGED <<registry, addRcpt, allocMsg, chainMsg, attested, content, held,
                     claims, providers, runs>>
  BY DEF AddAllocateLost, Exclude, agentVars
<1>3. q \in RequestStates
  BY <1>1, AddReqType DEF AddPCs
<1>4. req' \in [Requests -> RequestStates] /\ req'[r] = q
      /\ \A r2 \in Requests \ {r} : req'[r2] = req[r2]
  BY <1>2, <1>3, BecomeType
<1>5. Grows
  BY <1>2, IssueGrows
<1>6. TypeOK'
  <2>1. faults' \in 0..MaxFaults
    BY FaultType DEF AddAllocateLost
  <2>2. QED
    BY <1>1, <1>2, <1>4, <2>1 DEF TypeOK, providers
<1>7. UploadsIssued' /\ ChainComplete'
  BY <1>2, <1>5 DEF UploadsIssued, ChainComplete, Grows
<1>8. RegisteredAttested'
  BY <1>2, IssueKeepsRegistered
<1>9. RequestOK(req[r])'
  BY <1>1, <1>4 DEF RequestOK, AddReq, AddPCs
<1>10. RequestsOK'
  BY <1>4, <1>5, <1>9, RequestsStep
<1>11. QED
  BY <1>6, <1>7, <1>8, <1>10

\* maybeAccept: the node accepts the bytes it already holds.
LEMMA AddAcceptStep ==
    ASSUME IInv, NEW r \in Requests, AddAccept(r)
    PROVE  IInv'
<1> USE ConstantsAssumption DEF IInv
<1> DEFINE u == req[r].upl
           q == AddReq("persist", req[r].add, None, {}, u, None)
<1>1. req[r].add \in Adds /\ u \in allocMsg /\ upload[u].add = req[r].add
      /\ Hashed(req[r].add)
  BY CurrentRequest DEF RequestOK, AddPCs, At, AddAccept
<1>2. q \in RequestStates /\ RequestOK(q)
  BY <1>1, AddReqType DEF AddPCs, RequestOK, AddReq, TypeOK
<1>3. ClaimOf(u) \in Nodes \X Spaces \X Digests
  BY <1>1 DEF ClaimOf, NodeOf, SpaceOf, Commitment, Hashed, UploadsIssued
<1>4. OutsideTypes' /\ UNCHANGED <<registry, agentVars, upload, content>>
  BY <1>3 DEF AddAccept, envVars, providers, TypeOK, OutsideTypes
<1>5. QED
  BY <1>2, <1>4, QuietStep DEF AddAccept

\* maybeAccept: the accept receipt is stored before Register.
LEMMA AddPersistStep ==
    ASSUME IInv, NEW r \in Requests, AddPersist(r)
    PROVE  IInv'
<1> USE ConstantsAssumption DEF IInv
<1> DEFINE u == req[r].upl
           q == AddReq("register", req[r].add, None, {}, u, None)
<1>1. req[r].add \in Adds /\ u \in allocMsg /\ upload[u].add = req[r].add
      /\ Hashed(req[r].add)
  BY CurrentRequest DEF RequestOK, AddPCs, At, AddPersist
<1>2. Commitment(u) = AddDigest[req[r].add] /\ AddDigest[req[r].add] \in Digests
  BY <1>1 DEF Commitment, Hashed
<1>3. q \in RequestStates
  BY <1>1, AddReqType DEF AddPCs, TypeOK
<1>4. req' \in [Requests -> RequestStates] /\ req'[r] = q
      /\ \A r2 \in Requests \ {r} : req'[r2] = req[r2]
  BY <1>3, BecomeType DEF AddPersist
<1>5. /\ attested' = attested \cup {<<u, AddDigest[req[r].add]>>}
      /\ UNCHANGED <<registry, addRcpt, allocMsg, chainMsg, upload, nodeVars, envVars>>
  BY <1>2 DEF AddPersist
<1>6. TypeOK'
  BY <1>1, <1>2, <1>4, <1>5 DEF TypeOK, nodeVars, envVars, providers
<1>7. Grows
  BY <1>5 DEF Grows, nodeVars
<1>8. UploadsIssued' /\ ChainComplete' /\ RegisteredAttested'
  BY <1>5 DEF UploadsIssued, ChainComplete, RegisteredAttested
<1>9. RequestOK(req[r])'
  BY <1>1, <1>2, <1>4, <1>5 DEF RequestOK, AddReq, AddPCs, Hashed
<1>10. RequestsOK'
  BY <1>4, <1>7, <1>9, RequestsStep
<1>11. QED
  BY <1>6, <1>8, <1>10

\* A registration of add a under (s, d), backed by a stored acceptance.
LEMMA RegisterKeepsRegistered ==
    ASSUME IInv, NEW s \in Spaces, NEW d \in Digests, NEW a \in Adds,
           AddSpace[a] = s, AddDigest[a] \in {d, None},
           NEW u \in Uploads, upload[u].add = a, <<u, d>> \in attested,
           registry' = [registry EXCEPT ![<<s, d>>] = a],
           UNCHANGED <<attested, upload>>
    PROVE  RegisteredAttested' /\ registry' \in [Keys -> Adds \cup {None}]
<1>1. registry' \in [Keys -> Adds \cup {None}]
  BY DEF IInv, TypeOK
<1>2. SUFFICES ASSUME NEW s2 \in Spaces, NEW d2 \in Digests, registry'[<<s2, d2>>] # None
               PROVE  /\ AddSpace[registry'[<<s2, d2>>]] = s2
                      /\ AddDigest[registry'[<<s2, d2>>]] \in {d2, None}
                      /\ \E v \in Uploads : upload'[v].add = registry'[<<s2, d2>>]
                                            /\ <<v, d2>> \in attested'
  BY <1>1 DEF RegisteredAttested
<1>3. CASE s2 = s /\ d2 = d
  <2>1. registry'[<<s2, d2>>] = a
    BY <1>3 DEF IInv, TypeOK, Keys
  <2>2. QED
    BY <1>3, <2>1
<1>4. CASE s2 # s \/ d2 # d
  <2>1. registry'[<<s2, d2>>] = registry[<<s2, d2>>]
    BY <1>4 DEF IInv, TypeOK, Keys
  <2>2. QED
    BY <1>2, <2>1 DEF IInv, RegisteredAttested
<1>5. QED
  BY <1>3, <1>4

\* maybeAccept: the blob is registered under the add's own digest.
LEMMA AddRegisterStep ==
    ASSUME IInv, NEW r \in Requests, AddRegister(r)
    PROVE  IInv'
<1> USE ConstantsAssumption DEF IInv
<1> DEFINE u == req[r].upl
           a == req[r].add
           q == AddReq("respond", a, None, {}, None, u)
<1>1. a \in Adds /\ u \in allocMsg /\ upload[u].add = a /\ Hashed(a)
      /\ <<u, AddDigest[a]>> \in attested
  BY CurrentRequest DEF RequestOK, AddPCs, At, AddRegister
<1>2. /\ registry' = [registry EXCEPT ![<<AddSpace[a], AddDigest[a]>>] = a]
      /\ Become(r, q)
      /\ UNCHANGED <<agentVars, upload, nodeVars, envVars>>
  BY DEF AddRegister, Register, KeyOfAdd, Respond
<1>3. RegisteredAttested' /\ registry' \in [Keys -> Adds \cup {None}]
  <2>1. AddSpace[a] \in Spaces /\ AddDigest[a] \in Digests /\ u \in Uploads
    BY <1>1 DEF Hashed, TypeOK
  <2>2. UNCHANGED <<attested, upload>>
    BY <1>2 DEF agentVars
  <2>3. QED
    BY <1>1, <1>2, <2>1, <2>2, RegisterKeepsRegistered
<1>4. q \in RequestStates
  BY <1>1, AddReqType DEF AddPCs, TypeOK
<1>5. req' \in [Requests -> RequestStates] /\ req'[r] = q
      /\ \A r2 \in Requests \ {r} : req'[r2] = req[r2]
  BY <1>2, <1>4, BecomeType
<1>6. TypeOK'
  BY <1>2, <1>3, <1>5 DEF TypeOK, agentVars, nodeVars, envVars, providers
<1>7. Grows
  BY <1>2 DEF Grows, agentVars, nodeVars
<1>8. UploadsIssued' /\ ChainComplete'
  BY <1>2 DEF UploadsIssued, ChainComplete, agentVars
<1>9. RequestOK(req[r])'
  BY <1>1, <1>2, <1>5 DEF RequestOK, AddReq, AddPCs, agentVars
<1>10. RequestsOK'
  BY <1>5, <1>7, <1>9, RequestsStep
<1>11. QED
  BY <1>3, <1>6, <1>8, <1>10

\* The answer and the put and accept invocations are stored as one message.
LEMMA AddRespondStep ==
    ASSUME IInv, NEW r \in Requests, AddRespond(r)
    PROVE  IInv'
<1> USE ConstantsAssumption DEF IInv
<1> DEFINE a == req[r].add
           x == req[r].out
<1>1. a \in Adds /\ x \in Uploads \cup {None, Failed} /\ (x \in Uploads => x \in allocMsg)
  BY CurrentRequest DEF RequestOK, AddPCs, At, AddRespond, RequestStates
<1>2. /\ addRcpt' = [addRcpt EXCEPT ![a] = x]
      /\ chainMsg' = IF x \in Uploads THEN chainMsg \cup {x} ELSE chainMsg
      /\ UNCHANGED <<registry, allocMsg, attested, upload, nodeVars, envVars>>
      /\ Become(r, Idle)
  BY DEF AddRespond, WriteAnswer
<1>3. req' \in [Requests -> RequestStates] /\ req'[r] = Idle
      /\ \A r2 \in Requests \ {r} : req'[r2] = req[r2]
  BY <1>2, IdleType, BecomeType
<1>4. TypeOK'
  BY <1>1, <1>2, <1>3 DEF TypeOK, nodeVars, envVars, providers
<1>5. ChainComplete'
  BY <1>1, <1>2 DEF ChainComplete, TypeOK
<1>6. Grows /\ UploadsIssued' /\ RegisteredAttested'
  BY <1>2 DEF Grows, UploadsIssued, RegisteredAttested, nodeVars
<1>7. RequestOK(req[r])'
  BY <1>3 DEF RequestOK, Idle, AddPCs
<1>8. RequestsOK'
  BY <1>3, <1>6, <1>7, RequestsStep
<1>9. QED
  BY <1>4, <1>5, <1>6, <1>8

-----------------------------------------------------------------------------
\* The steps of /ucan/conclude.

\* A put that the agent store knows is concluded under the digest its add named.
LEMMA ConcludeBeginStep ==
    ASSUME IInv, NEW r \in Requests, NEW u \in Uploads, NEW d \in Digests,
           ConcludeBegin(r, u, d)
    PROVE  IInv'
<1> USE DEF IInv
<1> DEFINE q == ConcludeReq("conclude_accept", u, d)
<1>1. q \in RequestStates /\ RequestOK(q)
  BY ConcludeReqType DEF ConcludeBegin, Resolved, RequestOK, ConcludeReq, AddPCs
<1>2. OutsideTypes' /\ UNCHANGED <<registry, agentVars, upload, content>>
  BY DEF ConcludeBegin, envVars, providers, nodeVars, TypeOK, OutsideTypes
<1>3. QED
  BY <1>1, <1>2, QuietStep DEF ConcludeBegin

\* The node accepts: it has bytes, so its commitment names a digest.
LEMMA ConcludeAcceptStep ==
    ASSUME IInv, NEW r \in Requests, ConcludeAccept(r)
    PROVE  IInv'
<1> USE ConstantsAssumption DEF IInv
<1> DEFINE u == req[r].upl
           d == req[r].dig
           q == ConcludeReq("conclude_persist", u, d)
<1>1. u \in allocMsg /\ d \in Digests
      /\ (Hashed(upload[u].add) => d = AddDigest[upload[u].add])
  BY CurrentRequest DEF RequestOK, At, ConcludeAccept
<1>2. u \in Uploads /\ upload[u].add \in Adds /\ upload[u].node \in Nodes
  BY <1>1 DEF UploadsIssued, TypeOK
<1>3. Commitment(u) \in Digests
  BY <1>2 DEF ConcludeAccept, CanAccept, Commitment, Hashed, TypeOK
<1>4. q \in RequestStates /\ RequestOK(q)
  BY <1>1, <1>2, <1>3, ConcludeReqType DEF RequestOK, ConcludeReq, AddPCs
<1>5. ClaimOf(u) \in Nodes \X Spaces \X Digests
  BY <1>2, <1>3 DEF ClaimOf, NodeOf, SpaceOf
<1>6. OutsideTypes' /\ UNCHANGED <<registry, agentVars, upload, content>>
  BY <1>5 DEF ConcludeAccept, envVars, providers, TypeOK, OutsideTypes
<1>7. QED
  BY <1>4, <1>6, QuietStep DEF ConcludeAccept

\* The acceptance is stored before anything is registered.
LEMMA ConcludePersistStep ==
    ASSUME IInv, NEW r \in Requests, ConcludePersist(r)
    PROVE  IInv'
<1> USE ConstantsAssumption DEF IInv
<1> DEFINE u == req[r].upl
           d == req[r].dig
           q == ConcludeReq("conclude_register", u, d)
<1>1. u \in allocMsg /\ u \in Uploads /\ d \in Digests /\ Commitment(u) \in Digests
      /\ (Hashed(upload[u].add) => d = AddDigest[upload[u].add])
  BY CurrentRequest DEF RequestOK, At, ConcludePersist, TypeOK
<1>2. /\ attested' = attested \cup {<<u, Commitment(u)>>}
      /\ Become(r, q)
      /\ UNCHANGED <<registry, addRcpt, allocMsg, chainMsg, upload, nodeVars, envVars>>
  BY DEF ConcludePersist
<1>3. q \in RequestStates
  BY <1>1, ConcludeReqType
<1>4. req' \in [Requests -> RequestStates] /\ req'[r] = q
      /\ \A r2 \in Requests \ {r} : req'[r2] = req[r2]
  BY <1>2, <1>3, BecomeType
<1>5. TypeOK'
  BY <1>1, <1>2, <1>4 DEF TypeOK, nodeVars, envVars, providers
<1>6. Grows
  BY <1>2 DEF Grows, nodeVars
<1>7. UploadsIssued' /\ ChainComplete' /\ RegisteredAttested'
  BY <1>2 DEF UploadsIssued, ChainComplete, RegisteredAttested
<1>8. \A v : Commitment(v)' = Commitment(v)
  BY <1>2 DEF Commitment, Hashed, nodeVars
<1>9. RequestOK(req[r])'
  BY <1>1, <1>2, <1>4, <1>8 DEF RequestOK, ConcludeReq, AddPCs, Hashed
<1>10. RequestsOK'
  BY <1>4, <1>6, <1>9, RequestsStep
<1>11. QED
  BY <1>5, <1>7, <1>10

\* Registration is keyed by the reported digest only if it is the committed one.
LEMMA ConcludeRegisterStep ==
    ASSUME IInv, NEW r \in Requests, ConcludeRegister(r)
    PROVE  IInv'
<1> USE ConstantsAssumption DEF IInv
<1> DEFINE u == req[r].upl
           d == req[r].dig
           a == upload[u].add
           usable == Hashed(a) \/ Commitment(u) = d
<1>1. u \in allocMsg /\ u \in Uploads /\ d \in Digests
      /\ (Hashed(a) => d = AddDigest[a]) /\ <<u, Commitment(u)>> \in attested
  BY CurrentRequest DEF RequestOK, At, ConcludeRegister, TypeOK
<1>2. a \in Adds /\ AddSpace[a] \in Spaces
  BY <1>1 DEF UploadsIssued
<1>3. /\ registry' = IF usable /\ registry[<<AddSpace[a], d>>] = None
                     THEN [registry EXCEPT ![<<AddSpace[a], d>>] = a] ELSE registry
      /\ Become(r, Idle)
      /\ UNCHANGED <<agentVars, upload, nodeVars, envVars>>
  BY DEF ConcludeRegister, Register, SpaceOf
<1>4. RegisteredAttested' /\ registry' \in [Keys -> Adds \cup {None}]
  <2>1. UNCHANGED <<attested, upload>>
    BY <1>3 DEF agentVars
  <2>2. CASE registry' = registry
    BY <2>1, <2>2 DEF RegisteredAttested, TypeOK
  <2>3. CASE usable /\ registry' = [registry EXCEPT ![<<AddSpace[a], d>>] = a]
    <3>1. Commitment(u) = d /\ AddDigest[a] \in {d, None}
      BY <1>1, <2>3 DEF Commitment, Hashed
    <3>2. QED
      BY <1>1, <1>2, <2>1, <2>3, <3>1, RegisterKeepsRegistered
  <2>4. QED
    BY <1>3, <2>2, <2>3
<1>5. req' \in [Requests -> RequestStates] /\ req'[r] = Idle
      /\ \A r2 \in Requests \ {r} : req'[r2] = req[r2]
  BY <1>3, IdleType, BecomeType
<1>6. TypeOK'
  BY <1>3, <1>4, <1>5 DEF TypeOK, agentVars, nodeVars, envVars, providers
<1>7. Grows
  BY <1>3 DEF Grows, agentVars, nodeVars
<1>8. UploadsIssued' /\ ChainComplete'
  BY <1>3 DEF UploadsIssued, ChainComplete, agentVars
<1>9. RequestOK(req[r])'
  BY <1>5 DEF RequestOK, Idle, AddPCs
<1>10. RequestsOK'
  BY <1>5, <1>7, <1>9, RequestsStep
<1>11. QED
  BY <1>4, <1>6, <1>8, <1>10

-----------------------------------------------------------------------------
\* The steps of /blob/remove, /blob/abort and the environment.

\* A request that ends, or is cut off, and writes nothing of the service's.
LEMMA EndStep ==
    ASSUME IInv, NEW r \in Requests,
           ConcludeAcceptFails(r) \/ AbortReject(r) \/ Crash(r)
    PROVE  IInv'
<1> USE DEF IInv
<1>1. Become(r, Idle) /\ UNCHANGED <<registry, agentVars, upload, content>>
  BY DEF ConcludeAcceptFails, AbortReject, Crash, nodeVars
<1>2. faults' \in 0..MaxFaults
  BY FaultType DEF ConcludeAcceptFails, AbortReject, Crash, envVars, providers
<1>3. OutsideTypes'
  BY <1>2 DEF ConcludeAcceptFails, AbortReject, Crash, envVars, providers, nodeVars, TypeOK,
     OutsideTypes
<1>4. QED
  BY <1>1, <1>3, IdleType, IdleOK, QuietStep

\* A remove looks up the registration, then the primary, then releases it.
LEMMA RemoveStep ==
    ASSUME IInv, NEW r \in Requests,
           RemoveLocate(r) \/ RemoveRelease(r) \/ RemoveReleaseFails(r)
    PROVE  IInv'
<1> USE ConstantsAssumption DEF IInv
<1> DEFINE s == req[r].space
           d == req[r].dig
<1>1. s \in Spaces /\ d \in Digests
  BY CurrentRequest DEF RequestOK, At, RemoveLocate, RemoveRelease, RemoveReleaseFails
<1>2. \A a : addRcpt[a] \in chainMsg => NodeOf(addRcpt[a]) \in Nodes
  BY DEF ChainComplete, UploadsIssued, NodeOf
<1>3. PICK pc \in {"remove_release", "remove_deregister"}, n \in Nodes \cup {None},
           x \in {None, Failed} : Become(r, RemoveReq(pc, s, d, None, n, x))
  <2>1. CASE RemoveLocate(r)
    <3>1. PrimaryProviderForBlob(req[r].cause) \in Nodes \cup {None}
      BY <1>2 DEF PrimaryProviderForBlob
    <3>2. QED
      BY <2>1, <3>1 DEF RemoveLocate
  <2>2. CASE RemoveRelease(r)
    BY <2>2 DEF RemoveRelease
  <2>3. CASE RemoveReleaseFails(r)
    BY <2>3 DEF RemoveReleaseFails
  <2>4. QED
    BY <2>1, <2>2, <2>3
<1> DEFINE q == RemoveReq(pc, s, d, None, n, x)
<1>4. q \in RequestStates /\ RequestOK(q)
  BY <1>1, <1>3, RemoveReqType DEF RequestOK, RemoveReq, AddPCs
<1>5. UNCHANGED <<registry, agentVars, upload, content>>
  BY DEF RemoveLocate, RemoveRelease, RemoveReleaseFails, nodeVars
<1>6. faults' \in 0..MaxFaults
  BY FaultType DEF RemoveLocate, RemoveRelease, RemoveReleaseFails, envVars, providers
<1>7. OutsideTypes'
  BY <1>6 DEF RemoveLocate, RemoveRelease, RemoveReleaseFails, envVars, providers, nodeVars,
     TypeOK, OutsideTypes
<1>8. QED
  BY <1>3, <1>4, <1>5, <1>7, QuietStep

\* What a remove or an abort reads when it begins.
LEMMA BeginStep ==
    ASSUME IInv, NEW r \in Requests, NEW s \in Spaces,
           \/ \E d \in Digests : RemoveBegin(r, s, d)
           \/ \E a \in Adds : AbortBegin(r, s, a)
    PROVE  IInv'
<1> USE ConstantsAssumption DEF IInv
<1>1. CASE \E d \in Digests : RemoveBegin(r, s, d)
  <2>1. PICK d \in Digests : RemoveBegin(r, s, d)
    BY <1>1
  <2> DEFINE q == RemoveReq("remove_locate", s, d, registry[<<s, d>>], None, None)
  <2>2. registry[<<s, d>>] \in Adds
    BY <2>1 DEF RemoveBegin, TypeOK, Keys
  <2>3. q \in RequestStates /\ RequestOK(q)
    BY <2>2, RemoveReqType DEF RequestOK, RemoveReq, AddPCs
  <2>4. OutsideTypes' /\ UNCHANGED <<registry, agentVars, upload, content>>
    BY <2>1 DEF RemoveBegin, envVars, providers, nodeVars, TypeOK, OutsideTypes
  <2>5. QED
    BY <2>1, <2>3, <2>4, QuietStep DEF RemoveBegin
<1>2. CASE \E a \in Adds : AbortBegin(r, s, a)
  <2>1. PICK a \in Adds : AbortBegin(r, s, a)
    BY <1>2
  <2> DEFINE q == AbortReq(addRcpt[a])
  <2>2. addRcpt[a] \in Uploads
    BY <2>1 DEF AbortBegin, TypeOK
  <2>3. q \in RequestStates /\ RequestOK(q)
    BY <2>2, AbortReqType DEF RequestOK, AbortReq, AddPCs
  <2>4. OutsideTypes' /\ UNCHANGED <<registry, agentVars, upload, content>>
    BY <2>1 DEF AbortBegin, envVars, providers, nodeVars, TypeOK, OutsideTypes
  <2>5. QED
    BY <2>1, <2>3, <2>4, QuietStep DEF AbortBegin
<1>3. QED
  BY <1>1, <1>2

\* Deregistering leaves fewer registrations to account for.
LEMMA RemoveDeregisterStep ==
    ASSUME IInv, NEW r \in Requests, RemoveDeregister(r)
    PROVE  IInv'
<1> USE ConstantsAssumption DEF IInv
<1> DEFINE k == <<req[r].space, req[r].dig>>
<1>1. k \in Keys
  BY CurrentRequest DEF RequestOK, At, RemoveDeregister, Keys
<1>2. /\ registry' = [registry EXCEPT ![k] = None]
      /\ Become(r, Idle)
      /\ UNCHANGED <<agentVars, upload, nodeVars, envVars>>
  BY DEF RemoveDeregister, Deregister
<1>3. \A k2 \in Keys : registry'[k2] \in {registry[k2], None}
  BY <1>1, <1>2 DEF TypeOK
<1>4. RegisteredAttested'
  <2>1. UNCHANGED <<attested, upload>>
    BY <1>2 DEF agentVars
  <2>2. SUFFICES ASSUME NEW s2 \in Spaces, NEW d2 \in Digests,
                        registry'[<<s2, d2>>] # None
                 PROVE  /\ AddSpace[registry'[<<s2, d2>>]] = s2
                        /\ AddDigest[registry'[<<s2, d2>>]] \in {d2, None}
                        /\ \E v \in Uploads : upload'[v].add = registry'[<<s2, d2>>]
                                              /\ <<v, d2>> \in attested'
    BY DEF RegisteredAttested
  <2>3. registry'[<<s2, d2>>] = registry[<<s2, d2>>]
    BY <1>3, <2>2 DEF Keys
  <2>4. QED
    BY <2>1, <2>2, <2>3 DEF RegisteredAttested
<1>5. req' \in [Requests -> RequestStates] /\ req'[r] = Idle
      /\ \A r2 \in Requests \ {r} : req'[r2] = req[r2]
  BY <1>2, IdleType, BecomeType
<1>6. TypeOK'
  BY <1>1, <1>2, <1>5 DEF TypeOK, agentVars, nodeVars, envVars, providers
<1>7. Grows
  BY <1>2 DEF Grows, agentVars, nodeVars
<1>8. UploadsIssued' /\ ChainComplete'
  BY <1>2 DEF UploadsIssued, ChainComplete, agentVars
<1>9. RequestOK(req[r])'
  BY <1>5 DEF RequestOK, Idle, AddPCs
<1>10. RequestsOK'
  BY <1>5, <1>7, <1>9, RequestsStep
<1>11. QED
  BY <1>4, <1>6, <1>8, <1>10

\* A put or a change of the provider list moves no request.
LEMMA OutsideStep ==
    ASSUME IInv,
           \/ \E u \in Uploads, d \in Digests : ClientPut(u, d)
           \/ \E n \in Nodes : \/ AdminProviderRegister(n) \/ AdminProviderDeregister(n)
                            \/ AdminProviderWeightSet(n)
    PROVE  IInv'
<1> USE ConstantsAssumption DEF IInv
<1>1. UNCHANGED <<registry, agentVars, upload, req>>
  BY DEF ClientPut, AdminProviderRegister, AdminProviderDeregister,
     AdminProviderWeightSet
<1>2. OutsideTypes' /\ content' \in [Uploads -> Digests \cup {None}] /\ Grows
  <2>1. CASE \E u \in Uploads, d \in Digests : ClientPut(u, d)
    <3>1. PICK u \in Uploads, d \in Digests : ClientPut(u, d)
      BY <2>1
    <3>2. NodeOf(u) \in Nodes
      BY <3>1 DEF ClientPut, ChainComplete, UploadsIssued, NodeOf
    <3>3. OutsideTypes' /\ content' \in [Uploads -> Digests \cup {None}]
      BY <3>1, <3>2 DEF ClientPut, TypeOK, OutsideTypes, envVars, providers
    <3>4. Grows
      BY <3>1, <1>1 DEF ClientPut, TypeOK, Grows, agentVars
    <3>5. QED
      BY <3>3, <3>4
  <2>2. CASE \E n \in Nodes : \/ AdminProviderRegister(n) \/ AdminProviderDeregister(n)
                            \/ AdminProviderWeightSet(n)
    BY <2>2, <1>1 DEF AdminProviderRegister, AdminProviderDeregister,
     AdminProviderWeightSet, nodeVars,
       agentVars, TypeOK, OutsideTypes, Grows
  <2>3. QED
    BY <2>1, <2>2
<1>3. TypeOK'
  BY <1>1, <1>2 DEF TypeOK, OutsideTypes, agentVars
<1>4. RequestsOK'
  <2>1. \A q \in RequestStates : RequestOK(q) => RequestOK(q)'
    BY <1>2, RequestStable
  <2>2. SUFFICES ASSUME NEW r \in Requests
                 PROVE  RequestOK(req[r])'
    BY DEF RequestsOK
  <2>3. PICK c \in RequestStates : c = req[r] /\ RequestOK(c)
    BY CurrentRequest
  <2>4. RequestOK(c)' /\ c = req'[r]
    BY <1>1, <2>1, <2>3
  <2>5. QED
    BY <2>4 DEF RequestOK
<1>5. QED
  BY <1>1, <1>3, <1>4, StoresUnchanged

-----------------------------------------------------------------------------

\* The invariant holds initially: nothing is stored and nothing is running.
LEMMA InitInv == Init => IInv
<1> SUFFICES ASSUME Init PROVE IInv
  OBVIOUS
<1> USE ConstantsAssumption DEF Init
<1>1. TypeOK
  BY IdleType DEF TypeOK, NoUpload
<1>2. RequestsOK
  BY IdleOK DEF RequestsOK
<1>3. UploadsIssued /\ ChainComplete /\ RegisteredAttested
  BY DEF UploadsIssued, ChainComplete, RegisteredAttested, Keys
<1>4. QED
  BY <1>1, <1>2, <1>3 DEF IInv

\* The invariant is inductive: every step of every request, and of everything
\* around them, preserves it.
LEMMA NextInv == IInv /\ [Next]_vars => IInv'
<1> SUFFICES ASSUME IInv, [Next]_vars PROVE IInv'
  OBVIOUS
<1>1. CASE UNCHANGED vars
  <2>1. TypeOK' /\ Grows /\ UNCHANGED <<registry, agentVars, upload, req>>
    BY <1>1 DEF vars, IInv, TypeOK, agentVars, nodeVars, envVars, providers, Grows
  <2>2. RequestsOK'
    BY <1>1 DEF vars, IInv, RequestsOK, RequestOK, Hashed, Commitment, agentVars, nodeVars
  <2>3. QED
    BY <2>1, <2>2, StoresUnchanged DEF IInv
<1>2. CASE \E r \in Requests : Arrive(r)
  <2>1. PICK r \in Requests : Arrive(r)
    BY <1>2
  <2>2. QED
    BY <2>1, AddBeginStep, ConcludeBeginStep, BeginStep DEF Arrive
<1>3. CASE \E r \in Requests : Step(r)
  <2>1. PICK r \in Requests : Step(r)
    BY <1>3
  <2>2. QED
    BY <2>1, AddAnswerStep, AddExcludeStep, AddAllocateStep, AddAllocateLostStep,
       AddAcceptStep, AddPersistStep, AddRegisterStep, AddRespondStep,
       ConcludeAcceptStep, ConcludePersistStep, ConcludeRegisterStep, EndStep,
       RemoveStep, RemoveDeregisterStep DEF Step
<1>4. CASE Environment
  BY <1>4, OutsideStep, EndStep DEF Environment
<1>5. QED
  BY <1>1, <1>2, <1>3, <1>4 DEF Next

\* IInv holds throughout every behaviour.
THEOREM Invariance == Spec => []IInv
BY InitInv, NextInv, PTL DEF Spec

\* The stores, the nodes and the control state of every request of the blob
\* handlers keep their types, whatever is retried, lost or cut off.
THEOREM TypeCorrect == Spec => []TypeOK
<1>1. IInv => TypeOK
  BY DEF IInv
<1>2. QED
  BY <1>1, Invariance, PTL

\* A registration of acceptOnProvider or maybeAccept is always backed by an
\* allocation of an add of that space and by a stored accept receipt whose
\* commitment names the registered digest.
THEOREM RegistrationsAttested == Spec => []RegisteredAttested
<1>1. IInv => RegisteredAttested
  BY DEF IInv
<1>2. QED
  BY <1>1, Invariance, PTL

\* The chain of receipts that replayAdd, primaryProviderForBlob, rejectionFor
\* and resolveAllocations walk from an add never has a gap.
THEOREM ChainAlwaysComplete == Spec => []ChainComplete
<1>1. IInv => ChainComplete
  BY DEF IInv
<1>2. QED
  BY <1>1, Invariance, PTL

-----------------------------------------------------------------------------
\* What holds as long as clients, requests or operators keep to a rule.

\* Request r executes the add task a.
Serves(r, a) == req[r].pc \in AddPCs /\ req[r].add = a

\* The stored allocations of the add a.
UploadsOf(a) == {u \in allocMsg : upload[u].add = a}

\* What becomes of a request in a step that neither begins an add, nor stores
\* an allocation or an answer: it answers with an upload only if that was
\* registered just before, or is the answer that a replay found.
Continues(q, p) ==
    \/ p = q
    \/ p.pc \notin AddPCs
    \/ /\ q.pc \in AddPCs /\ p.add = q.add
       /\ p.pc \in {"replay", "allocate"} => p.pc = q.pc
       /\ p.pc = "respond" =>
             \/ p.out = Failed
             \/ q.pc = "replay" /\ p.out \in chainMsg
             \/ q.pc = "register" /\ p.out = q.upl

Quiet ==
    /\ UNCHANGED <<allocMsg, chainMsg, addRcpt, runs>>
    /\ \A u \in allocMsg : upload'[u] = upload[u]
    /\ \A r \in Requests : Continues(req[r], req'[r])

LEMMA QuietMove ==
    ASSUME IInv, NEW r \in Requests, NEW p, Become(r, p), Continues(req[r], p),
           UNCHANGED <<agentVars, runs>>, \A u \in allocMsg : upload'[u] = upload[u]
    PROVE  Quiet
<1>1. \A r2 \in Requests : req'[r2] = IF r2 = r THEN p ELSE req[r2]
  BY DEF IInv, TypeOK, Become
<1>2. \A r2 \in Requests : Continues(req[r2], req'[r2])
  <2>1. SUFFICES ASSUME NEW r2 \in Requests PROVE Continues(req[r2], req'[r2])
    OBVIOUS
  <2>2. CASE r2 = r
    BY <1>1, <2>2
  <2>3. CASE r2 # r
    BY <1>1, <2>3 DEF Continues
  <2>. QED BY <2>2, <2>3
<1>. QED BY <1>2 DEF Quiet, agentVars

\* An add that is in the middle of its work goes on quietly.
LEMMA AddGoesOn ==
    ASSUME IInv, NEW r \in Requests,
           \/ AddReplay(r) \/ AddNoCandidate(r)
           \/ \E n \in Nodes : AddAllocateFails(r, n)
           \/ \E n \in Nodes, u \in Uploads : AddAllocateLost(r, n, u)
           \/ AddAccept(r) \/ AddAcceptFails(r) \/ AddRegister(r) \/ AddRegisterFails(r)
           \/ AddPersistFails(r)
    PROVE  Quiet
<1>1. CASE AddReplay(r)
  <2>1. PICK x : x = ReplayAdd(addRcpt[req[r].cause])
    OBVIOUS
  <2>2. x = Failed \/ x \in chainMsg
    BY <2>1 DEF ReplayAdd
  <2>3. Continues(req[r], AddReq("respond", req[r].add, None, {}, None, x))
    BY <1>1, <2>2 DEF Continues, AddReplay, At, AddReq, AddPCs
  <2>4. Become(r, AddReq("respond", req[r].add, None, {}, None, x))
    BY <1>1, <2>1 DEF AddReplay, Respond
  <2>. QED BY <1>1, <2>3, <2>4, QuietMove DEF AddReplay, envVars
<1>2. CASE AddNoCandidate(r) \/ AddAcceptFails(r) \/ AddRegisterFails(r) \/ AddPersistFails(r)
  <2>1. Become(r, AddReq("respond", req[r].add, None, {}, None, Failed))
    BY <1>2 DEF AddNoCandidate, AddAcceptFails, AddRegisterFails, AddPersistFails, Respond
  <2>2. Continues(req[r], AddReq("respond", req[r].add, None, {}, None, Failed))
    BY <1>2 DEF Continues, AddNoCandidate, AddAcceptFails, AddRegisterFails, AddPersistFails,
       At, AddReq, AddPCs
  <2>3. UNCHANGED <<agentVars, runs, upload>>
    BY <1>2 DEF AddNoCandidate, AddAcceptFails, AddRegisterFails, AddPersistFails
  <2>. QED BY <2>1, <2>2, <2>3, QuietMove
<1>3. CASE \E n \in Nodes : AddAllocateFails(r, n)
  <2>1. PICK n \in Nodes : AddAllocateFails(r, n)
    BY <1>3
  <2> DEFINE p == AddReq("allocate", req[r].add, None, req[r].excl \cup {n}, None, None)
  <2>2. Continues(req[r], p)
    BY <2>1 DEF Continues, AddAllocateFails, At, AddReq, AddPCs
  <2>3. Become(r, p) /\ UNCHANGED <<agentVars, runs, upload>>
    BY <2>1 DEF AddAllocateFails, Exclude, envVars
  <2>. QED BY <2>2, <2>3, QuietMove
<1>4. CASE \E n \in Nodes, u \in Uploads : AddAllocateLost(r, n, u)
  <2>1. PICK n \in Nodes, u \in Uploads : AddAllocateLost(r, n, u)
    BY <1>4
  <2> DEFINE p == AddReq("allocate", req[r].add, None, req[r].excl \cup {n}, None, None)
  <2>2. Continues(req[r], p)
    BY <2>1 DEF Continues, AddAllocateLost, At, AddReq, AddPCs
  <2>3. Become(r, p) /\ UNCHANGED <<agentVars, runs, content>> /\ Fresh(u)
        /\ upload' = [upload EXCEPT ![u] = [add |-> req[r].add, node |-> n]]
    BY <2>1 DEF AddAllocateLost, Exclude
  <2>4. Grows
    BY <2>3, IssueGrows DEF agentVars
  <2>. QED BY <2>2, <2>3, <2>4, QuietMove DEF Grows
<1>5. CASE AddAccept(r)
  BY <1>5, QuietMove DEF AddAccept, Continues, At, AddReq, AddPCs, envVars
<1>6. CASE AddRegister(r)
  <2> DEFINE p == AddReq("respond", req[r].add, None, {}, None, req[r].upl)
  <2>1. Continues(req[r], p)
    BY <1>6 DEF Continues, AddRegister, At, AddReq, AddPCs
  <2>2. Become(r, p) /\ UNCHANGED <<agentVars, runs, upload>>
    BY <1>6 DEF AddRegister, Respond, envVars
  <2>. QED BY <2>1, <2>2, QuietMove
<1>. QED BY <1>1, <1>2, <1>3, <1>4, <1>5, <1>6

\* A step that moves r to a control state outside /blob/add is quiet.
LEMMA LeavesAdds ==
    ASSUME IInv, NEW r \in Requests, NEW p, Become(r, p), p.pc \notin AddPCs \/ Continues(req[r], p),
           UNCHANGED <<allocMsg, chainMsg, addRcpt, runs, upload>>
    PROVE  Quiet
<1>1. \A r2 \in Requests : req'[r2] = IF r2 = r THEN p ELSE req[r2]
  BY DEF IInv, TypeOK, Become
<1>2. \A r2 \in Requests : Continues(req[r2], req'[r2])
  BY <1>1 DEF Continues
<1>. QED BY <1>2 DEF Quiet

\* So are the steps of the other handlers, and a crash.
LEMMA OthersGoOn ==
    ASSUME IInv, NEW r \in Requests,
           \/ AddPersist(r)
           \/ \E u \in Uploads, d \in Digests : ConcludeBegin(r, u, d)
           \/ \E s \in Spaces, d \in Digests : RemoveBegin(r, s, d)
           \/ \E s \in Spaces, a \in Adds : AbortBegin(r, s, a)
           \/ ConcludeAccept(r) \/ ConcludeAcceptFails(r) \/ ConcludePersist(r) \/ ConcludeRegister(r)
           \/ RemoveLocate(r) \/ RemoveRelease(r) \/ RemoveReleaseFails(r) \/ RemoveDeregister(r)
           \/ AbortReject(r) \/ Crash(r)
    PROVE  Quiet
<1>1. CASE AddPersist(r)
  <2> DEFINE p == AddReq("register", req[r].add, None, {}, req[r].upl, None)
  <2>1. Continues(req[r], p)
    BY <1>1 DEF Continues, AddPersist, At, AddReq, AddPCs
  <2>. QED BY <1>1, <2>1, LeavesAdds DEF AddPersist, envVars
<1>2. CASE \E u \in Uploads, d \in Digests : ConcludeBegin(r, u, d)
  BY <1>2, LeavesAdds DEF ConcludeBegin, ConcludeReq, AddPCs, agentVars, envVars
<1>3. CASE \E s \in Spaces, d \in Digests : RemoveBegin(r, s, d)
  BY <1>3, LeavesAdds DEF RemoveBegin, RemoveReq, AddPCs, agentVars, envVars
<1>4. CASE \E s \in Spaces, a \in Adds : AbortBegin(r, s, a)
  BY <1>4, LeavesAdds DEF AbortBegin, AbortReq, AddPCs, agentVars, envVars
<1>5. CASE ConcludeAccept(r) \/ ConcludePersist(r)
  BY <1>5, LeavesAdds DEF ConcludeAccept, ConcludePersist, ConcludeReq, AddPCs, agentVars, envVars
<1>6. CASE ConcludeAcceptFails(r) \/ ConcludeRegister(r) \/ RemoveDeregister(r) \/ AbortReject(r) \/ Crash(r)
  <2>1. Become(r, Idle) /\ UNCHANGED <<allocMsg, chainMsg, addRcpt, runs, upload>>
    BY <1>6 DEF ConcludeAcceptFails, ConcludeRegister, RemoveDeregister, AbortReject, Crash, agentVars, envVars
  <2>. QED BY <2>1, LeavesAdds DEF Idle, AddPCs
<1>7. CASE RemoveLocate(r)
  BY <1>7, LeavesAdds DEF RemoveLocate, RemoveReq, AddPCs, agentVars, envVars
<1>8. CASE RemoveRelease(r) \/ RemoveReleaseFails(r)
  BY <1>8, LeavesAdds DEF RemoveRelease, RemoveReleaseFails, RemoveReq, AddPCs, agentVars, envVars
<1>. QED BY <1>1, <1>2, <1>3, <1>4, <1>5, <1>6, <1>7, <1>8

\* The steps that are not quiet.
LEMMA StepKinds ==
    ASSUME IInv, [Next]_vars
    PROVE  \/ Quiet
           \/ \E r \in Requests, a \in Adds : AddBegin(r, a) \/ AddRefused(r, a)
           \/ \E r \in Requests, n \in Nodes, u \in Uploads : AddAllocate(r, n, u)
           \/ \E r \in Requests : AddRespond(r)
<1>1. CASE UNCHANGED vars
  BY <1>1 DEF vars, Quiet, Continues, agentVars, envVars
<1>2. CASE \E r \in Requests : Arrive(r)
  BY <1>2, OthersGoOn DEF Arrive
<1>3. CASE \E r \in Requests : Step(r)
  BY <1>3, AddGoesOn, OthersGoOn DEF Step
<1>4. CASE Environment
  <2>1. CASE \E r \in Requests : Crash(r)
    BY <2>1, OthersGoOn
  <2>2. CASE \E u \in Uploads, d \in Digests : ClientPut(u, d)
    BY <2>2 DEF ClientPut, Quiet, Continues, agentVars, envVars
  <2>3. CASE \E n \in Nodes : \/ AdminProviderRegister(n) \/ AdminProviderDeregister(n)
                            \/ AdminProviderWeightSet(n)
    BY <2>3 DEF AdminProviderRegister, AdminProviderDeregister, AdminProviderWeightSet, Quiet,
       Continues, agentVars
  <2>. QED BY <1>4, <2>1, <2>2, <2>3 DEF Environment
<1>. QED BY <1>1, <1>2, <1>3, <1>4 DEF Next

-----------------------------------------------------------------------------
\* One upload for an add without a digest.

\* No two requests execute one digest-less add at the same time.
OneRunAtATime ==
    \A r, q \in Requests, a \in Adds : ~Hashed(a) /\ Serves(r, a) /\ Serves(q, a) => r = q

\* A digest-less add allocates, or answers with an upload the client does not
\* know yet, only while it has no receipt.
DigestlessOK(q) ==
    /\ q.pc = "replay" => Hashed(q.add)
    /\ q.pc = "allocate" /\ ~Hashed(q.add) => addRcpt[q.add] = None
    /\ q.pc = "respond" => q.out \in Uploads \cup {Failed}
    /\ q.pc = "respond" /\ q.out \in Uploads \ chainMsg =>
          /\ upload[q.out].add = q.add
          /\ ~Hashed(q.add) => addRcpt[q.add] = None

\* A digest-less add of which a client knows an upload has a receipt.
KnownHasReceipt == \A u \in chainMsg : ~Hashed(upload[u].add) => addRcpt[upload[u].add] # None

DigestlessInv ==
    /\ KnownHasReceipt
    /\ \A r \in Requests : DigestlessOK(req[r])
    /\ DigestlessSingleUpload

LEMMA DigestlessStarts == Init => DigestlessInv
BY DEF Init, DigestlessInv, KnownHasReceipt, DigestlessOK, DigestlessSingleUpload, Idle

\* A quiet step.
LEMMA DigestlessQuiet ==
    ASSUME IInv, DigestlessInv, Quiet
    PROVE  DigestlessInv'
<1>1. chainMsg' = chainMsg /\ addRcpt' = addRcpt /\ \A u \in chainMsg : upload'[u] = upload[u]
  BY DEF Quiet, IInv, ChainComplete
<1>2. KnownHasReceipt' /\ DigestlessSingleUpload'
  BY <1>1 DEF DigestlessInv, KnownHasReceipt, DigestlessSingleUpload, Hashed
<1>3. ASSUME NEW r \in Requests PROVE DigestlessOK(req[r])'
  <2>1. DigestlessOK(req[r]) /\ RequestOK(req[r]) /\ Continues(req[r], req'[r])
    BY DEF DigestlessInv, IInv, RequestsOK, Quiet
  <2>2. CASE req'[r] = req[r]
    <3>1. req[r].pc = "respond" /\ req[r].out \in Uploads => upload'[req[r].out] = upload[req[r].out]
      BY <2>1 DEF Quiet, RequestOK
    <3>. QED BY <1>1, <2>1, <2>2, <3>1 DEF DigestlessOK, Hashed
  <2>3. CASE req'[r].pc \notin AddPCs
    BY <2>3 DEF DigestlessOK, AddPCs
  <2>4. CASE /\ req[r].pc \in AddPCs /\ req'[r].add = req[r].add
             /\ req'[r].pc \in {"replay", "allocate"} => req'[r].pc = req[r].pc
             /\ req'[r].pc = "respond" =>
                   \/ req'[r].out = Failed
                   \/ req[r].pc = "replay" /\ req'[r].out \in chainMsg
                   \/ req[r].pc = "register" /\ req'[r].out = req[r].upl
    <3>1. chainMsg \subseteq Uploads /\ Failed \notin Uploads
      BY ConstantsAssumption DEF IInv, TypeOK
    <3>2. req[r].pc = "register" => /\ req[r].upl \in Uploads /\ Hashed(req[r].add)
                                    /\ upload'[req[r].upl].add = req[r].add
      BY <2>1 DEF RequestOK, Quiet, IInv, TypeOK
    <3>. QED BY <1>1, <2>1, <2>4, <3>1, <3>2 DEF DigestlessOK, Hashed
  <2>. QED BY <2>1, <2>2, <2>3, <2>4 DEF Continues
<1>. QED BY <1>2, <1>3 DEF DigestlessInv

\* The other requests are not touched by a step of r.
LEMMA DigestlessOthers ==
    ASSUME IInv, NEW r \in Requests, DigestlessInv, NEW p, Become(r, p),
           DigestlessOK(p)', UNCHANGED <<chainMsg, addRcpt>>,
           \A u \in allocMsg : upload'[u] = upload[u]
    PROVE  DigestlessInv'
<1>1. \A r2 \in Requests : req'[r2] = IF r2 = r THEN p ELSE req[r2]
  BY DEF IInv, TypeOK, Become
<1>2. ASSUME NEW r2 \in Requests PROVE DigestlessOK(req[r2])'
  <2>1. CASE r2 = r
    BY <1>1, <2>1 DEF DigestlessOK
  <2>2. CASE r2 # r
    <3>1. req'[r2] = req[r2] /\ DigestlessOK(req[r2]) /\ RequestOK(req[r2])
      BY <1>1, <2>2 DEF DigestlessInv, IInv, RequestsOK
    <3>. QED BY <3>1 DEF DigestlessOK, Hashed, RequestOK
  <2>. QED BY <2>1, <2>2
<1>3. \A u \in chainMsg : upload'[u] = upload[u]
  BY DEF IInv, ChainComplete
<1>4. KnownHasReceipt' /\ DigestlessSingleUpload'
  BY <1>3 DEF DigestlessInv, KnownHasReceipt, DigestlessSingleUpload, Hashed
<1>. QED BY <1>2, <1>4 DEF DigestlessInv

LEMMA DigestlessBegin ==
    ASSUME IInv, DigestlessInv, NEW r \in Requests, NEW a \in Adds, AddBegin(r, a) \/ AddRefused(r, a)
    PROVE  DigestlessInv'
<1>1. UNCHANGED <<chainMsg, addRcpt, upload>>
  BY DEF AddBegin, AddRefused, agentVars
<1>2. \A x : ReplayAdd(x) = Failed \/ ReplayAdd(x) \in chainMsg
  BY DEF ReplayAdd
<1>3. chainMsg \subseteq Uploads /\ Failed \notin Uploads
  BY ConstantsAssumption DEF IInv, TypeOK
<1>4. PICK p : Become(r, p) /\ DigestlessOK(p)'
  <2>1. CASE Become(r, AddReq("respond", a, None, {}, None, Failed))
    BY <1>3, <2>1 DEF DigestlessOK, AddReq
  <2>2. CASE Become(r, AddReq("respond", a, None, {}, None, ReplayAdd(addRcpt[a])))
    BY <1>1, <1>2, <1>3, <2>2 DEF DigestlessOK, AddReq
  <2>3. CASE Hashed(a) /\ \E c : Become(r, AddReq("replay", a, c, {}, None, None))
    BY <2>3 DEF DigestlessOK, AddReq, Hashed
  <2>4. CASE (~Hashed(a) => addRcpt[a] = None) /\ Become(r, AddReq("allocate", a, None, {}, None, None))
    BY <1>1, <2>4 DEF DigestlessOK, AddReq, Hashed
  <2>. QED BY <2>1, <2>2, <2>3, <2>4 DEF AddBegin, AddRefused, Respond
<1>. QED BY <1>1, <1>4, DigestlessOthers

LEMMA DigestlessAllocate ==
    ASSUME IInv, DigestlessInv, NEW r \in Requests, NEW n \in Nodes, NEW u \in Uploads, AddAllocate(r, n, u)
    PROVE  DigestlessInv'
<1>1. /\ UNCHANGED <<chainMsg, addRcpt>> /\ Fresh(u)
      /\ upload' = [upload EXCEPT ![u] = [add |-> req[r].add, node |-> n]]
  BY DEF AddAllocate
<1>2. \A v \in allocMsg : upload'[v] = upload[v]
  BY <1>1, ConstantsAssumption DEF IInv, TypeOK, UploadsIssued, Fresh, NoUpload
<1>3. upload'[u].add = req[r].add
  BY <1>1 DEF IInv, TypeOK
<1>4. DigestlessOK(req[r]) /\ req[r].pc = "allocate"
  BY DEF DigestlessInv, AddAllocate, At
<1>5. PICK p : Become(r, p) /\ DigestlessOK(p)'
  <2>1. CASE Become(r, AddReq("accept", req[r].add, None, {}, u, None))
    BY <2>1 DEF DigestlessOK, AddReq
  <2>2. CASE Become(r, AddReq("respond", req[r].add, None, {}, None, u))
    BY <1>1, <1>3, <1>4, <2>2 DEF DigestlessOK, AddReq, Hashed
  <2>. QED BY <2>1, <2>2 DEF AddAllocate, Respond
<1>. QED BY <1>1, <1>2, <1>5, DigestlessOthers

\* The answer is stored: if it brings an upload that is new to the client, the
\* add had no receipt, so the client knew no other.
LEMMA DigestlessRespond ==
    ASSUME IInv, DigestlessInv, OneRunAtATime, NEW r \in Requests, AddRespond(r)
    PROVE  DigestlessInv'
<1>1. PICK a \in Adds : a = req[r].add
  BY DEF AddRespond, At, IInv, RequestsOK, RequestOK, AddPCs
<1>2. PICK x \in Uploads \cup {Failed} : x = req[r].out
  BY DEF AddRespond, At, DigestlessInv, DigestlessOK
<1>3. /\ addRcpt' = [addRcpt EXCEPT ![a] = x] /\ upload' = upload
      /\ chainMsg' = IF x \in Uploads THEN chainMsg \cup {x} ELSE chainMsg
      /\ Become(r, Idle)
  BY <1>1, <1>2 DEF AddRespond, WriteAnswer
<1>4. \A b \in Adds : addRcpt'[b] = IF b = a THEN x ELSE addRcpt[b]
  BY <1>3 DEF IInv, TypeOK
<1>5. x # None
  BY <1>2, ConstantsAssumption
<1>6. x \in Uploads \ chainMsg => upload[x].add = a /\ (~Hashed(a) => addRcpt[a] = None)
  BY <1>1, <1>2 DEF AddRespond, At, DigestlessInv, DigestlessOK
<1>7. \A u \in chainMsg : upload[u].add \in Adds
  BY DEF IInv, ChainComplete, UploadsIssued
<1>8. KnownHasReceipt'
  <2>1. SUFFICES ASSUME NEW u \in chainMsg', ~Hashed(upload[u].add)
                 PROVE  addRcpt'[upload[u].add] # None
    BY <1>3 DEF KnownHasReceipt, Hashed
  <2>2. u \in chainMsg \/ (u = x /\ x \in Uploads \ chainMsg)
    BY <1>3
  <2>3. CASE u \in chainMsg
    <3>1. addRcpt[upload[u].add] # None
      BY <2>1, <2>3 DEF DigestlessInv, KnownHasReceipt
    <3>. QED BY <1>4, <1>5, <1>7, <2>3, <3>1
  <2>4. CASE u = x /\ x \in Uploads \ chainMsg
    BY <1>4, <1>5, <1>6, <2>4
  <2>. QED BY <2>2, <2>3, <2>4
<1>9. DigestlessSingleUpload'
  <2>1. SUFFICES ASSUME NEW u \in chainMsg', NEW v \in chainMsg',
                        upload[u].add = upload[v].add, ~Hashed(upload[u].add)
                 PROVE  u = v
    BY <1>3 DEF DigestlessSingleUpload, Hashed
  <2>2. ASSUME x \in Uploads \ chainMsg, ~Hashed(a), NEW w \in chainMsg PROVE upload[w].add # a
    BY <1>6, <2>2 DEF DigestlessInv, KnownHasReceipt
  <2>3. \A w \in chainMsg' : w \in chainMsg \/ (w = x /\ x \in Uploads \ chainMsg)
    BY <1>3
  <2>. QED BY <1>6, <2>1, <2>2, <2>3 DEF DigestlessInv, DigestlessSingleUpload
<1>10. ASSUME NEW r2 \in Requests PROVE DigestlessOK(req[r2])'
  <2>1. CASE r2 = r
    <3>1. req'[r2] = Idle
      BY <1>3, <2>1 DEF Become, IInv, TypeOK
    <3>. QED BY <3>1 DEF DigestlessOK, Idle
  <2>2. CASE r2 # r
    <3>1. req'[r2] = req[r2] /\ DigestlessOK(req[r2]) /\ RequestOK(req[r2])
      BY <1>3, <2>2 DEF Become, IInv, TypeOK, DigestlessInv, RequestsOK
    <3>2. req[r2].pc \in AddPCs => req[r2].add \in Adds
      BY <3>1 DEF RequestOK
    <3>3. req[r2].pc \in AddPCs /\ ~Hashed(req[r2].add) => req[r2].add # a
      <4>1. req[r].pc \in AddPCs
        BY DEF AddRespond, At, AddPCs
      <4>. QED BY <1>1, <2>2, <3>2, <4>1 DEF OneRunAtATime, Serves
    <3>4. req[r2].pc \in AddPCs /\ ~Hashed(req[r2].add) => addRcpt'[req[r2].add] = addRcpt[req[r2].add]
      BY <1>4, <3>2, <3>3
    <3>5. chainMsg \subseteq chainMsg'
      BY <1>3
    <3>. QED BY <1>3, <3>1, <3>4, <3>5 DEF DigestlessOK, AddPCs, Hashed
  <2>. QED BY <2>1, <2>2
<1>. QED BY <1>8, <1>9, <1>10 DEF DigestlessInv

LEMMA DigestlessNext == IInv /\ DigestlessInv /\ OneRunAtATime /\ [Next]_vars => DigestlessInv'
BY StepKinds, DigestlessQuiet, DigestlessBegin, DigestlessAllocate, DigestlessRespond

\* NewBlobAddHandler gives a digest-less add one upload, whatever is retried,
\* lost or cut off and whatever the other requests do, as long as the client
\* does not run the task twice at the same time.
THEOREM SingleUpload == Spec /\ []OneRunAtATime => []DigestlessSingleUpload
<1>1. DigestlessInv => DigestlessSingleUpload
  BY DEF DigestlessInv
<1>. QED BY <1>1, DigestlessStarts, DigestlessNext, Invariance, PTL DEF Spec

-----------------------------------------------------------------------------
\* The primary copy of a blob that was added once.

\* No add task has been executed twice.
RunOnce == \A a \in Adds : runs[a] <= 1

OneServer == \A r, q \in Requests, a \in Adds : Serves(r, a) /\ Serves(q, a) => r = q

\* An add that has not been executed has no trace.
Untouched(a) ==
    /\ UploadsOf(a) = {} /\ addRcpt[a] = None
    /\ \A r \in Requests : ~Serves(r, a)

\* An add allocates while it has no upload, and answers with the one it has.
OnceOK(q) ==
    /\ q.pc \in {"replay", "allocate"} => UploadsOf(q.add) = {}
    /\ q.pc = "respond" /\ q.out \in Uploads => UploadsOf(q.add) \subseteq {q.out}

\* An add is answered when it is over.
Unanswered == \A r \in Requests, a \in Adds : Serves(r, a) => addRcpt[a] = None

OneUploadEach == \A a \in Adds : \A u, v \in UploadsOf(a) : u = v

AnswerIsUpload == \A a \in Adds : addRcpt[a] \in Uploads => UploadsOf(a) \subseteq {addRcpt[a]}

OneRun ==
    /\ OneServer /\ Unanswered
    /\ \A a \in Adds : runs[a] = 0 => Untouched(a)
    /\ \A r \in Requests : OnceOK(req[r])
    /\ OneUploadEach
    /\ AnswerIsUpload

LEMMA OneRunStarts == Init => OneRun
BY ConstantsAssumption DEF Init, OneRun, OneServer, Unanswered, Untouched, OnceOK, OneUploadEach, AnswerIsUpload,
   UploadsOf, Serves, Idle, AddPCs

\* A step that stores no allocation leaves the uploads of every add alone.
LEMMA SameUploads ==
    ASSUME UNCHANGED allocMsg, \A u \in allocMsg : upload'[u] = upload[u]
    PROVE  \A a : UploadsOf(a)' = UploadsOf(a)
<1>1. ASSUME NEW a PROVE UploadsOf(a)' = UploadsOf(a)
  BY DEF UploadsOf
<1>. QED BY <1>1

LEMMA OneRunQuiet ==
    ASSUME IInv, OneRun, Quiet
    PROVE  OneRun'
<1>1. \A a : UploadsOf(a)' = UploadsOf(a)
  BY SameUploads DEF Quiet
<1>2. \A r \in Requests, a \in Adds : Serves(r, a)' => Serves(r, a)
  BY DEF Quiet, Continues, Serves
<1>3. addRcpt' = addRcpt /\ runs' = runs
  BY DEF Quiet
<1>4. OneServer' /\ Unanswered' /\ (\A a \in Adds : runs'[a] = 0 => Untouched(a)')
  BY <1>1, <1>2, <1>3 DEF OneRun, OneServer, Unanswered, Untouched
<1>5. OneUploadEach' /\ AnswerIsUpload'
  BY <1>1, <1>3 DEF OneRun, OneUploadEach, AnswerIsUpload
<1>6. ASSUME NEW r \in Requests PROVE OnceOK(req[r])'
  <2>1. OnceOK(req[r]) /\ RequestOK(req[r]) /\ Continues(req[r], req'[r])
    BY DEF OneRun, IInv, RequestsOK, Quiet
  <2>2. CASE req'[r] = req[r]
    BY <1>1, <2>1, <2>2 DEF OnceOK
  <2>3. CASE req'[r].pc \notin AddPCs
    BY <2>3 DEF OnceOK, AddPCs
  <2>4. CASE /\ req[r].pc \in AddPCs /\ req'[r].add = req[r].add
             /\ req'[r].pc \in {"replay", "allocate"} => req'[r].pc = req[r].pc
             /\ req'[r].pc = "respond" =>
                   \/ req'[r].out = Failed
                   \/ req[r].pc = "replay" /\ req'[r].out \in chainMsg
                   \/ req[r].pc = "register" /\ req'[r].out = req[r].upl
    <3>1. Failed \notin Uploads
      BY ConstantsAssumption
    <3>2. req[r].pc = "register" => UploadsOf(req[r].add) \subseteq {req[r].upl}
      <4>1. SUFFICES ASSUME req[r].pc = "register" PROVE UploadsOf(req[r].add) \subseteq {req[r].upl}
        OBVIOUS
      <4>2. req[r].add \in Adds /\ req[r].upl \in UploadsOf(req[r].add)
        BY <2>1, <4>1 DEF RequestOK, AddPCs, UploadsOf
      <4>. QED BY <4>2 DEF OneRun, OneUploadEach
    <3>. QED BY <1>1, <2>1, <2>4, <3>1, <3>2 DEF OnceOK
  <2>. QED BY <2>1, <2>2, <2>3, <2>4 DEF Continues
<1>. QED BY <1>4, <1>5, <1>6 DEF OneRun

\* A first execution begins: nothing of the add was there before.
LEMMA OneRunBegin ==
    ASSUME IInv, OneRun, RunOnce', NEW r \in Requests, NEW a \in Adds, AddBegin(r, a) \/ AddRefused(r, a)
    PROVE  OneRun'
<1>1. UNCHANGED <<allocMsg, addRcpt, upload>> /\ runs' = [runs EXCEPT ![a] = @ + 1]
  BY DEF AddBegin, AddRefused, agentVars
<1>2. \A b : UploadsOf(b)' = UploadsOf(b)
  BY <1>1, SameUploads
<1>3. \A b \in Adds : runs[b] \in Nat /\ runs'[b] = IF b = a THEN runs[a] + 1 ELSE runs[b]
  BY <1>1, ConstantsAssumption DEF IInv, TypeOK
<1>4. runs[a] = 0 /\ runs'[a] = 1
  BY <1>3 DEF RunOnce
<1>5. Untouched(a)
  BY <1>4 DEF OneRun
<1>6. PICK p : Become(r, p) /\ p.pc \in AddPCs /\ p.add = a
  BY DEF AddBegin, AddRefused, Respond, AddReq, AddPCs
<1>7. \A r2 \in Requests : req'[r2] = IF r2 = r THEN p ELSE req[r2]
  BY <1>6 DEF IInv, TypeOK, Become
<1>8. \A r2 \in Requests, b \in Adds : Serves(r2, b)' <=> IF r2 = r THEN b = a ELSE Serves(r2, b)
  BY <1>6, <1>7 DEF Serves
<1>9. OneServer' /\ Unanswered'
  BY <1>1, <1>5, <1>8 DEF OneRun, OneServer, Unanswered, Untouched
<1>10. \A b \in Adds : runs'[b] = 0 => Untouched(b)'
  <2>1. SUFFICES ASSUME NEW b \in Adds, runs'[b] = 0 PROVE Untouched(b)'
    OBVIOUS
  <2>2. b # a /\ Untouched(b)
    BY <1>3, <1>4, <2>1 DEF OneRun
  <2>3. \A r2 \in Requests : ~Serves(r2, b)'
    BY <1>8, <2>2 DEF Untouched
  <2>. QED BY <1>1, <1>2, <2>2, <2>3 DEF Untouched
<1>11. OneUploadEach' /\ AnswerIsUpload'
  BY <1>1, <1>2 DEF OneRun, OneUploadEach, AnswerIsUpload
<1>12. ASSUME NEW r2 \in Requests PROVE OnceOK(req[r2])'
  BY <1>2, <1>5, <1>6, <1>7 DEF OneRun, OnceOK, Untouched
<1>. QED BY <1>9, <1>10, <1>11, <1>12 DEF OneRun

\* An allocation is stored: the only one of its add, and only r serves that.
LEMMA OneRunAllocate ==
    ASSUME IInv, OneRun, NEW r \in Requests, NEW n \in Nodes, NEW u \in Uploads, AddAllocate(r, n, u)
    PROVE  OneRun'
<1>1. PICK a \in Adds : a = req[r].add /\ Serves(r, a) /\ UploadsOf(a) = {}
  BY DEF AddAllocate, At, IInv, RequestsOK, RequestOK, AddPCs, OneRun, OnceOK, Serves
<1>2. /\ UNCHANGED <<addRcpt, runs>> /\ Fresh(u) /\ allocMsg' = allocMsg \cup {u}
      /\ upload' = [upload EXCEPT ![u] = [add |-> a, node |-> n]]
  BY <1>1 DEF AddAllocate, envVars
<1>3. \A v \in allocMsg : upload'[v] = upload[v] /\ v # u
  BY <1>2, ConstantsAssumption DEF IInv, TypeOK, UploadsIssued, Fresh, NoUpload
<1>4. upload'[u].add = a
  BY <1>2 DEF IInv, TypeOK
<1>5. \A b \in Adds : UploadsOf(b)' = IF b = a THEN {u} ELSE UploadsOf(b)
  <2>1. ASSUME NEW b \in Adds PROVE UploadsOf(b)' = IF b = a THEN {u} ELSE UploadsOf(b)
    BY <1>1, <1>2, <1>3, <1>4 DEF UploadsOf
  <2>. QED BY <2>1
<1>6. PICK p : /\ Become(r, p) /\ p.pc \in {"accept", "respond"} /\ p.add = a
               /\ p.pc = "respond" => p.out = u
  BY <1>1 DEF AddAllocate, Respond, AddReq
<1>7. \A r2 \in Requests : req'[r2] = IF r2 = r THEN p ELSE req[r2]
  BY <1>6 DEF IInv, TypeOK, Become
<1>8. \A r2 \in Requests, b \in Adds : Serves(r2, b)' <=> Serves(r2, b)
  BY <1>1, <1>6, <1>7 DEF Serves, AddPCs
<1>9. OneServer' /\ Unanswered'
  BY <1>2, <1>8 DEF OneRun, OneServer, Unanswered
<1>10. \A b \in Adds : runs'[b] = 0 => b # a
  BY <1>1, <1>2 DEF OneRun, Untouched
<1>11. \A b \in Adds : runs'[b] = 0 => Untouched(b)'
  BY <1>2, <1>5, <1>8, <1>10 DEF OneRun, Untouched
<1>12. OneUploadEach'
  BY <1>5 DEF OneRun, OneUploadEach
<1>13. ASSUME NEW r2 \in Requests PROVE OnceOK(req[r2])'
  <2>1. CASE r2 = r
    BY <1>5, <1>6, <1>7, <2>1 DEF OnceOK
  <2>2. CASE r2 # r
    <3>1. req'[r2] = req[r2] /\ OnceOK(req[r2]) /\ (req[r2].pc \in AddPCs => req[r2].add \in Adds)
      BY <1>7, <2>2 DEF OneRun, IInv, RequestsOK, RequestOK
    <3>2. req[r2].pc \in AddPCs => req[r2].add # a
      BY <1>1, <2>2 DEF OneRun, OneServer, Serves
    <3>. QED BY <1>5, <3>1, <3>2 DEF OnceOK, AddPCs
  <2>. QED BY <2>1, <2>2
<1>14. AnswerIsUpload'
  <2>1. SUFFICES ASSUME NEW b \in Adds, addRcpt[b] \in Uploads PROVE UploadsOf(b)' \subseteq {addRcpt[b]}
    BY <1>2 DEF AnswerIsUpload
  <2>2. addRcpt[a] = None
    BY <1>1 DEF OneRun, Unanswered
  <2>3. b # a
    BY <2>1, <2>2, ConstantsAssumption
  <2>. QED BY <1>5, <2>1, <2>3 DEF OneRun, AnswerIsUpload
<1>. QED BY <1>9, <1>11, <1>12, <1>13, <1>14 DEF OneRun

\* The answer is stored, and its request is over.
LEMMA OneRunRespond ==
    ASSUME IInv, OneRun, NEW r \in Requests, AddRespond(r)
    PROVE  OneRun'
<1>1. PICK a \in Adds : a = req[r].add /\ Serves(r, a)
  BY DEF AddRespond, At, IInv, RequestsOK, RequestOK, AddPCs, Serves
<1>2. PICK x : x = req[r].out
  OBVIOUS
<1>3. UNCHANGED <<allocMsg, upload, runs>> /\ Become(r, Idle) /\ addRcpt' = [addRcpt EXCEPT ![a] = x]
  BY <1>1, <1>2 DEF AddRespond, WriteAnswer, envVars
<1>4. \A b \in Adds : addRcpt'[b] = IF b = a THEN x ELSE addRcpt[b]
  BY <1>3 DEF IInv, TypeOK
<1>5. \A b : UploadsOf(b)' = UploadsOf(b)
  BY <1>3, SameUploads
<1>6. \A r2 \in Requests : req'[r2] = IF r2 = r THEN Idle ELSE req[r2]
  BY <1>3 DEF IInv, TypeOK, Become
<1>7. \A r2 \in Requests, b \in Adds : Serves(r2, b)' <=> Serves(r2, b) /\ r2 # r
  BY <1>6 DEF Serves, Idle, AddPCs
<1>8. \A r2 \in Requests : Serves(r2, a) => r2 = r
  BY <1>1 DEF OneRun, OneServer
<1>9. OneServer' /\ Unanswered'
  BY <1>4, <1>7, <1>8 DEF OneRun, OneServer, Unanswered
<1>10. \A b \in Adds : runs'[b] = 0 => b # a
  BY <1>1, <1>3 DEF OneRun, Untouched
<1>11. \A b \in Adds : runs'[b] = 0 => Untouched(b)'
  BY <1>3, <1>4, <1>5, <1>7, <1>10 DEF OneRun, Untouched
<1>12. ASSUME NEW r2 \in Requests PROVE OnceOK(req[r2])'
  BY <1>5, <1>6 DEF OneRun, OnceOK, Idle
<1>13. x \in Uploads => UploadsOf(a) \subseteq {x}
  BY <1>1, <1>2 DEF AddRespond, At, OneRun, OnceOK
<1>14. OneUploadEach' /\ AnswerIsUpload'
  BY <1>4, <1>5, <1>13 DEF OneRun, OneUploadEach, AnswerIsUpload
<1>. QED BY <1>9, <1>11, <1>12, <1>14 DEF OneRun

\* Executions are only counted up.
LEMMA RunOnceBefore ==
    ASSUME IInv, [Next]_vars, RunOnce'
    PROVE  RunOnce
<1>1. CASE Quiet
  BY <1>1 DEF Quiet, RunOnce
<1>2. CASE \E r \in Requests, a \in Adds : AddBegin(r, a) \/ AddRefused(r, a)
  <2>1. PICK a \in Adds : runs' = [runs EXCEPT ![a] = @ + 1]
    BY <1>2 DEF AddBegin, AddRefused
  <2>2. \A b \in Adds : runs[b] \in Nat /\ runs'[b] = IF b = a THEN runs[a] + 1 ELSE runs[b]
    BY <2>1, ConstantsAssumption DEF IInv, TypeOK
  <2>. QED BY <2>2 DEF RunOnce
<1>3. CASE \E r \in Requests, n \in Nodes, u \in Uploads : AddAllocate(r, n, u)
  BY <1>3 DEF AddAllocate, envVars, RunOnce
<1>4. CASE \E r \in Requests : AddRespond(r)
  BY <1>4 DEF AddRespond, envVars, RunOnce
<1>. QED BY <1>1, <1>2, <1>3, <1>4, StepKinds

LEMMA OneRunNext == IInv /\ (RunOnce => OneRun) /\ [Next]_vars => (RunOnce => OneRun)'
<1> SUFFICES ASSUME IInv, RunOnce => OneRun, [Next]_vars, RunOnce' PROVE OneRun'
  OBVIOUS
<1>1. OneRun
  BY RunOnceBefore
<1>. QED BY <1>1, StepKinds, OneRunQuiet, OneRunBegin, OneRunAllocate, OneRunRespond

-----------------------------------------------------------------------------
\* Claims, as long as nothing is removed.

\* The control states of a request that has had an upload accepted and has not
\* registered it yet.
TakingPCs == {"persist", "register", "conclude_persist", "conclude_register"}

RemovalPCs == {"remove_locate", "remove_release", "remove_deregister"}

NoRemovals == \A r \in Requests : req[r].pc \notin RemovalPCs

\* A step apart from acceptance and registration: no claim, receipt or row
\* comes or goes, and a request that is taking an upload on stays with it or,
\* at the cost of a fault, ends.
Apart ==
    /\ UNCHANGED <<registry, attested, claims>>
    /\ \A r \in Requests : req'[r].pc \in TakingPCs \cup RemovalPCs => req'[r] = req[r]
    /\ faults' = 0 => \A r \in Requests : req[r].pc \in TakingPCs => req'[r] = req[r]

LEMMA ApartMove ==
    ASSUME IInv, NEW r \in Requests, NEW p, Become(r, p), UNCHANGED <<registry, attested, claims>>,
           p.pc \notin TakingPCs \cup RemovalPCs, req[r].pc \in TakingPCs => faults' # 0
    PROVE  Apart
<1>1. \A r2 \in Requests : req'[r2] = IF r2 = r THEN p ELSE req[r2]
  BY DEF IInv, TypeOK, Become
<1>. QED BY <1>1 DEF Apart

LEMMA FaultCounts ==
    ASSUME IInv, Fault
    PROVE  faults' # 0
BY ConstantsAssumption DEF IInv, TypeOK, Fault

\* The steps of a request that are apart.
LEMMA ApartSteps ==
    ASSUME IInv, NEW r \in Requests,
           \/ \E a \in Adds : AddBegin(r, a) \/ AddRefused(r, a)
           \/ \E u \in Uploads, d \in Digests : ConcludeBegin(r, u, d)
           \/ \E s \in Spaces, a \in Adds : AbortBegin(r, s, a)
           \/ AddReplay(r) \/ AddNoCandidate(r)
           \/ \E n \in Nodes, u \in Uploads : AddAllocate(r, n, u)
           \/ \E n \in Nodes : AddAllocateFails(r, n)
           \/ \E n \in Nodes, u \in Uploads : AddAllocateLost(r, n, u)
           \/ AddAcceptFails(r) \/ AddPersistFails(r) \/ AddRespond(r)
           \/ ConcludeAcceptFails(r) \/ AbortReject(r) \/ Crash(r)
    PROVE  Apart
<1> USE DEF TakingPCs, RemovalPCs, At, agentVars, nodeVars
<1>1. CASE \E a \in Adds : AddBegin(r, a) \/ AddRefused(r, a)
  BY <1>1, ApartMove DEF AddBegin, AddRefused, Respond, AddReq
<1>2. CASE \E u \in Uploads, d \in Digests : ConcludeBegin(r, u, d)
  BY <1>2, ApartMove DEF ConcludeBegin, ConcludeReq
<1>3. CASE \E s \in Spaces, a \in Adds : AbortBegin(r, s, a)
  BY <1>3, ApartMove DEF AbortBegin, AbortReq
<1>4. CASE AddReplay(r) \/ AddNoCandidate(r) \/ AddAcceptFails(r)
  BY <1>4, ApartMove DEF AddReplay, AddNoCandidate, AddAcceptFails, Respond, AddReq
<1>5. CASE \E n \in Nodes, u \in Uploads : AddAllocate(r, n, u)
  BY <1>5, ApartMove DEF AddAllocate, Respond, AddReq
<1>6. CASE \E n \in Nodes : AddAllocateFails(r, n)
  BY <1>6, ApartMove DEF AddAllocateFails, Exclude, AddReq
<1>7. CASE \E n \in Nodes, u \in Uploads : AddAllocateLost(r, n, u)
  BY <1>7, ApartMove DEF AddAllocateLost, Exclude, AddReq
<1>8. CASE AddPersistFails(r)
  BY <1>8, ApartMove, FaultCounts DEF AddPersistFails, Respond, AddReq
<1>9. CASE AddRespond(r) \/ ConcludeAcceptFails(r) \/ AbortReject(r)
  BY <1>9, ApartMove DEF AddRespond, ConcludeAcceptFails, AbortReject, Idle
<1>10. CASE Crash(r)
  BY <1>10, ApartMove, FaultCounts DEF Crash, Idle
<1>. QED BY <1>1, <1>2, <1>3, <1>4, <1>5, <1>6, <1>7, <1>8, <1>9, <1>10

\* The steps that are not.
LEMMA ClaimKinds ==
    ASSUME IInv, NoRemovals, "remove" \notin Calls, [Next]_vars
    PROVE  \/ Apart
           \/ \E r \in Requests : AddAccept(r) \/ ConcludeAccept(r)
           \/ \E r \in Requests : AddPersist(r) \/ ConcludePersist(r)
           \/ \E r \in Requests : AddRegister(r) \/ AddRegisterFails(r) \/ ConcludeRegister(r)
<1>1. CASE UNCHANGED vars
  BY <1>1 DEF vars, Apart, agentVars, nodeVars
<1>2. CASE \E r \in Requests : Arrive(r)
  BY <1>2, ApartSteps DEF Arrive, RemoveBegin
<1>3. CASE \E r \in Requests : Step(r)
  <2>1. PICK r \in Requests : Step(r)
    BY <1>3
  <2>2. ~(RemoveLocate(r) \/ RemoveRelease(r) \/ RemoveReleaseFails(r) \/ RemoveDeregister(r))
    BY DEF NoRemovals, RemovalPCs, RemoveLocate, RemoveRelease, RemoveReleaseFails, RemoveDeregister, At
  <2>. QED BY <2>1, <2>2, ApartSteps DEF Step
<1>4. CASE Environment
  <2>1. CASE \E r \in Requests : Crash(r)
    BY <2>1, ApartSteps
  <2>2. CASE \E u \in Uploads, d \in Digests : ClientPut(u, d)
    BY <2>2 DEF ClientPut, Apart, agentVars
  <2>3. CASE \E n \in Nodes : \/ AdminProviderRegister(n) \/ AdminProviderDeregister(n)
                            \/ AdminProviderWeightSet(n)
    BY <2>3 DEF AdminProviderRegister, AdminProviderDeregister, AdminProviderWeightSet, Apart,
       agentVars, nodeVars
  <2>. QED BY <1>4, <2>1, <2>2, <2>3 DEF Environment
<1>. QED BY <1>1, <1>2, <1>3, <1>4 DEF Next

\* What an accepted upload is, and whose claim it is, no step changes.
LEMMA StepGrows ==
    ASSUME IInv, [Next]_vars
    PROVE  Grows
<1>1. ASSUME NEW r \in Requests, NEW n \in Nodes, NEW u \in Uploads, AddAllocate(r, n, u) PROVE Grows
  <2>1. /\ upload' = [upload EXCEPT ![u] = [add |-> req[r].add, node |-> n]] /\ Fresh(u)
        /\ allocMsg \subseteq allocMsg' /\ UNCHANGED attested
        /\ \A v \in Uploads \ {u} : content'[v] = content[v]
    BY <1>1 DEF AddAllocate, IInv, TypeOK
  <2>. QED BY <2>1, IssueGrows
<1>2. ASSUME NEW r \in Requests, NEW n \in Nodes, NEW u \in Uploads, AddAllocateLost(r, n, u) PROVE Grows
  <2>1. /\ upload' = [upload EXCEPT ![u] = [add |-> req[r].add, node |-> n]] /\ Fresh(u)
        /\ UNCHANGED <<allocMsg, attested, content>>
    BY <1>2 DEF AddAllocateLost, agentVars
  <2>. QED BY <2>1, IssueGrows
<1>3. CASE \E u \in Uploads, d \in Digests : ClientPut(u, d)
  BY <1>3 DEF ClientPut, Grows, agentVars, IInv, TypeOK
<1>4. CASE \E n \in Nodes : \/ AdminProviderRegister(n) \/ AdminProviderDeregister(n)
                          \/ AdminProviderWeightSet(n)
  BY <1>4 DEF AdminProviderRegister, AdminProviderDeregister, AdminProviderWeightSet, Grows,
     agentVars, nodeVars
<1>5. CASE UNCHANGED vars
  BY <1>5 DEF vars, Grows, agentVars, nodeVars
<1>6. CASE \E r \in Requests : Arrive(r)
  BY <1>6 DEF Arrive, AddBegin, AddRefused, ConcludeBegin, RemoveBegin, AbortBegin, Grows, agentVars, nodeVars
<1>7. ASSUME NEW r \in Requests, AddPersist(r) \/ ConcludePersist(r) \/ AddRespond(r) PROVE Grows
  BY <1>7 DEF AddPersist, ConcludePersist, AddRespond, Grows, nodeVars
<1>8. ASSUME NEW r \in Requests,
             \/ AddReplay(r) \/ AddNoCandidate(r)
             \/ \E n \in Nodes : AddAllocateFails(r, n)
             \/ AddAccept(r) \/ AddAcceptFails(r) \/ AddPersistFails(r)
             \/ AddRegister(r) \/ AddRegisterFails(r)
      PROVE  Grows
  BY <1>8 DEF AddReplay, AddNoCandidate, AddAllocateFails, AddAccept, AddAcceptFails, AddPersistFails,
     AddRegister, AddRegisterFails, Grows, agentVars, nodeVars
<1>9. ASSUME NEW r \in Requests,
             \/ ConcludeAccept(r) \/ ConcludeAcceptFails(r) \/ ConcludeRegister(r)
             \/ RemoveLocate(r) \/ RemoveRelease(r) \/ RemoveReleaseFails(r)
             \/ RemoveDeregister(r) \/ AbortReject(r) \/ Crash(r)
      PROVE  Grows
  BY <1>9 DEF ConcludeAccept, ConcludeAcceptFails, ConcludeRegister, RemoveLocate, RemoveRelease,
     RemoveReleaseFails, RemoveDeregister, AbortReject, Crash, Grows, agentVars, nodeVars
<1>10. CASE \E r \in Requests : Step(r)
  <2>1. PICK r \in Requests : Step(r)
    BY <1>10
  <2>. QED BY <1>1, <1>2, <1>7, <1>8, <1>9, <2>1 DEF Step
<1>11. CASE Environment
  BY <1>3, <1>4, <1>9, <1>11 DEF Environment
<1>. QED BY <1>5, <1>6, <1>10, <1>11 DEF Next

LEMMA ClaimKept ==
    ASSUME IInv, Grows, NEW u \in allocMsg, Commitment(u) \in Digests
    PROVE  Commitment(u)' = Commitment(u) /\ ClaimOf(u)' = ClaimOf(u)
<1>1. upload'[u] = upload[u] /\ (content'[u] = content[u] \/ content[u] = None)
  BY DEF Grows
<1>2. Commitment(u)' = Commitment(u)
  BY <1>1, ConstantsAssumption DEF Commitment, Hashed
<1>. QED BY <1>1, <1>2 DEF ClaimOf, NodeOf, SpaceOf

LEMMA ClaimDigest ==
    ASSUME IInv, NEW u, ClaimOf(u) \in claims
    PROVE  Commitment(u) \in Digests
BY DEF IInv, TypeOK, ClaimOf

\* Every stored accept receipt, and every one about to be stored, stands for a
\* claim that its node holds.
ClaimedAs(u, d) == u \in allocMsg /\ Commitment(u) = d /\ ClaimOf(u) \in claims

AttestedClaimed ==
    /\ NoRemovals
    /\ \A u \in Uploads, d \in Digests : <<u, d>> \in attested => ClaimedAs(u, d)
    /\ \A r \in Requests : req[r].pc \in {"persist", "conclude_persist"} => ClaimOf(req[r].upl) \in claims

LEMMA AttestedClaimedStarts == Init => AttestedClaimed
BY DEF Init, AttestedClaimed, NoRemovals, RemovalPCs, Idle

\* Requests at these points work on a stored allocation.
LEMMA TakenStored ==
    ASSUME IInv, NEW r \in Requests, req[r].pc \in TakingPCs \cup {"accept", "conclude_accept"}
    PROVE  req[r].upl \in allocMsg
BY DEF IInv, RequestsOK, RequestOK, TakingPCs

LEMMA AttestedClaimedNext ==
    ASSUME IInv, AttestedClaimed, "remove" \notin Calls, [Next]_vars
    PROVE  AttestedClaimed'
<1>1. Grows
  BY StepGrows
<1>2. ASSUME claims \subseteq claims', NEW u \in allocMsg, ClaimOf(u) \in claims
      PROVE  ClaimOf(u)' \in claims' /\ Commitment(u)' = Commitment(u) /\ u \in allocMsg'
  BY <1>1, <1>2, ClaimKept, ClaimDigest DEF Grows
<1>3. ASSUME claims \subseteq claims', NEW u \in Uploads, NEW d \in Digests, <<u, d>> \in attested
      PROVE  ClaimedAs(u, d)'
  BY <1>2, <1>3 DEF AttestedClaimed, ClaimedAs
<1>4. CASE Apart
  <2>1. NoRemovals'
    BY <1>4 DEF Apart, AttestedClaimed, NoRemovals
  <2>2. ASSUME NEW r \in Requests, req'[r].pc \in {"persist", "conclude_persist"}
        PROVE  ClaimOf(req[r].upl)' \in claims'
    <3>1. req'[r] = req[r] /\ req[r].pc \in TakingPCs /\ claims' = claims
      BY <1>4, <2>2 DEF Apart, TakingPCs
    <3>2. PICK u \in allocMsg : u = req[r].upl /\ u = req'[r].upl
      BY <3>1, TakenStored
    <3>3. ClaimOf(u) \in claims
      BY <2>2, <3>1, <3>2 DEF AttestedClaimed
    <3>4. ClaimOf(u)' \in claims'
      BY <1>2, <3>1, <3>3
    <3>. QED BY <3>2, <3>4 DEF ClaimOf, NodeOf, SpaceOf, Commitment
  <2>. QED BY <1>3, <1>4, <2>1, <2>2 DEF Apart, AttestedClaimed
<1>5. ASSUME NEW r \in Requests, NEW p, Become(r, p), p.pc \notin RemovalPCs, claims \subseteq claims',
             p.pc \in {"persist", "conclude_persist"} => ClaimOf(p.upl)' \in claims',
             \A u \in Uploads, d \in Digests : <<u, d>> \in attested' \ attested => ClaimedAs(u, d)'
      PROVE  AttestedClaimed'
  <2>1. \A r2 \in Requests : req'[r2] = IF r2 = r THEN p ELSE req[r2]
    BY <1>5 DEF IInv, TypeOK, Become
  <2>2. NoRemovals'
    BY <1>5, <2>1 DEF AttestedClaimed, NoRemovals
  <2>3. ASSUME NEW r2 \in Requests, req'[r2].pc \in {"persist", "conclude_persist"}
        PROVE  ClaimOf(req[r2].upl)' \in claims'
    <3>1. CASE r2 = r
      BY <1>5, <2>1, <2>3, <3>1 DEF ClaimOf, NodeOf, SpaceOf, Commitment
    <3>2. CASE r2 # r
      <4>1. PICK u \in allocMsg : u = req[r2].upl /\ u = req'[r2].upl
        BY <2>1, <2>3, <3>2, TakenStored DEF TakingPCs
      <4>2. ClaimOf(u) \in claims
        BY <2>1, <2>3, <3>2, <4>1 DEF AttestedClaimed
      <4>3. ClaimOf(u)' \in claims'
        BY <1>2, <1>5, <4>2
      <4>. QED BY <4>1, <4>3 DEF ClaimOf, NodeOf, SpaceOf, Commitment
    <3>. QED BY <3>1, <3>2
  <2>. QED BY <1>3, <1>5, <2>2, <2>3 DEF AttestedClaimed
<1>6. CASE \E r \in Requests : AddAccept(r) \/ ConcludeAccept(r)
  <2>1. PICK r \in Requests : AddAccept(r) \/ ConcludeAccept(r)
    BY <1>6
  <2>2. PICK u : u = req[r].upl
    OBVIOUS
  <2>3. claims' = claims \cup {ClaimOf(u)} /\ UNCHANGED <<attested, upload, content>>
    BY <2>1, <2>2 DEF AddAccept, ConcludeAccept, agentVars
  <2>4. ClaimOf(u)' = ClaimOf(u)
    BY <2>3 DEF ClaimOf, NodeOf, SpaceOf, Commitment
  <2>5. PICK p : Become(r, p) /\ p.pc \in {"persist", "conclude_persist"} /\ p.upl = u
    BY <2>1, <2>2 DEF AddAccept, ConcludeAccept, AddReq, ConcludeReq
  <2>6. ClaimOf(p.upl)' \in claims'
    BY <2>3, <2>4, <2>5 DEF ClaimOf, NodeOf, SpaceOf, Commitment
  <2>. QED BY <1>5, <2>3, <2>5, <2>6 DEF RemovalPCs
<1>7. CASE \E r \in Requests : AddPersist(r) \/ ConcludePersist(r)
  <2>1. PICK r \in Requests : AddPersist(r) \/ ConcludePersist(r)
    BY <1>7
  <2>2. req[r].pc \in {"persist", "conclude_persist"}
    BY <2>1 DEF AddPersist, ConcludePersist, At
  <2>3. PICK u \in allocMsg : u = req[r].upl /\ ClaimOf(u) \in claims
    BY <2>2, TakenStored DEF AttestedClaimed, TakingPCs
  <2>4. attested' = attested \cup {<<u, Commitment(u)>>} /\ claims' = claims
    BY <2>1, <2>3 DEF AddPersist, ConcludePersist, nodeVars
  <2>5. ClaimOf(u)' \in claims' /\ Commitment(u)' = Commitment(u) /\ u \in allocMsg'
    BY <1>2, <2>3, <2>4
  <2>6. ASSUME NEW v \in Uploads, NEW d \in Digests, <<v, d>> \in attested' \ attested
        PROVE  ClaimedAs(v, d)'
    <3>1. v = u /\ d = Commitment(u)
      BY <2>4, <2>6
    <3>. QED BY <2>5, <3>1 DEF ClaimedAs
  <2>7. PICK p : Become(r, p) /\ p.pc \in {"register", "conclude_register"}
    BY <2>1 DEF AddPersist, ConcludePersist, AddReq, ConcludeReq
  <2>. QED BY <1>5, <2>4, <2>6, <2>7 DEF RemovalPCs
<1>8. CASE \E r \in Requests : AddRegister(r) \/ AddRegisterFails(r) \/ ConcludeRegister(r)
  <2>1. PICK r \in Requests : AddRegister(r) \/ AddRegisterFails(r) \/ ConcludeRegister(r)
    BY <1>8
  <2>2. UNCHANGED <<attested, claims>>
    BY <2>1 DEF AddRegister, AddRegisterFails, ConcludeRegister, agentVars, nodeVars
  <2>3. PICK p : Become(r, p) /\ p.pc \in {"respond", "idle"}
    BY <2>1 DEF AddRegister, AddRegisterFails, ConcludeRegister, Respond, AddReq, Idle
  <2>. QED BY <1>5, <2>2, <2>3 DEF RemovalPCs
<1>. QED BY <1>4, <1>6, <1>7, <1>8, ClaimKinds DEF AttestedClaimed

\* The node of the only upload of a registration's cause holds the claim.
LEMMA PrimaryFound ==
    ASSUME IInv, OneRun, AttestedClaimed
    PROVE  PrimaryHolds
<1>1. SUFFICES ASSUME NEW s \in Spaces, NEW d \in Digests, registry[<<s, d>>] # None,
                      PrimaryProviderForBlob(registry[<<s, d>>]) # None
               PROVE  <<PrimaryProviderForBlob(registry[<<s, d>>]), s, d>> \in claims
  BY DEF PrimaryHolds
<1>2. PICK a \in Adds : a = registry[<<s, d>>]
  BY <1>1 DEF IInv, TypeOK, Keys
<1>3. addRcpt[a] \in chainMsg /\ PrimaryProviderForBlob(a) = NodeOf(addRcpt[a])
  BY <1>1, <1>2 DEF PrimaryProviderForBlob
<1>4. AddSpace[a] = s /\ \E v \in Uploads : upload[v].add = a /\ <<v, d>> \in attested
  BY <1>1, <1>2 DEF IInv, RegisteredAttested
<1>5. PICK u \in Uploads : upload[u].add = a /\ <<u, d>> \in attested
  BY <1>4
<1>6. u \in allocMsg /\ Commitment(u) = d /\ ClaimOf(u) \in claims
  BY <1>5 DEF AttestedClaimed, ClaimedAs
<1>7. addRcpt[a] \in Uploads
  BY <1>3 DEF IInv, TypeOK
<1>8. addRcpt[a] = u
  BY <1>5, <1>6, <1>7 DEF OneRun, AnswerIsUpload, UploadsOf
<1>9. ClaimOf(u) = <<NodeOf(u), s, d>>
  BY <1>4, <1>5, <1>6 DEF ClaimOf, SpaceOf
<1>. QED BY <1>2, <1>3, <1>6, <1>8, <1>9

\* Where blobs are not removed, primaryProviderForBlob finds the storage node
\* that holds the space's claim on a registered blob as long as no add task has
\* been executed twice, however adds of the same blob race and whatever is lost
\* or cut off.
THEOREM PrimaryFoundOnce ==
    ASSUME "remove" \notin Calls
    PROVE  Spec => [](RunOnce => PrimaryHolds)
<1>1. IInv /\ (RunOnce => OneRun) /\ AttestedClaimed => (RunOnce => PrimaryHolds)
  BY PrimaryFound
<1>2. Init => (RunOnce => OneRun) /\ AttestedClaimed
  BY OneRunStarts, AttestedClaimedStarts
<1>3. IInv /\ AttestedClaimed /\ [Next]_vars => AttestedClaimed'
  BY AttestedClaimedNext
<1>. QED BY <1>1, <1>2, <1>3, OneRunNext, Invariance, PTL DEF Spec

-----------------------------------------------------------------------------
\* No claim without a row.

\* A client that concludes a put reports the digest of the bytes it has put.
\* (One that does not, for an upload whose digest was not named before, leaves
\* the node with a claim and no row: checkLocationContent fails after the accept.)
HonestReports ==
    \A r \in Requests : At(r, "conclude_register") => Commitment(req[r].upl) = req[r].dig

\* Some request is about to register what c claims.
Taking(c) == \E r \in Requests : req[r].pc \in TakingPCs /\ ClaimOf(req[r].upl) = c

RowFor(c) == registry[<<c[2], c[3]>>] # None

Recorded == faults = 0 => \A c \in claims : RowFor(c) \/ Taking(c)

LEMMA RecordedStarts == Init => Recorded
BY DEF Init, Recorded

\* A request that stays where it is still takes c on.
LEMMA TakingStays ==
    ASSUME IInv, Grows, NEW r \in Requests, req[r].pc \in TakingPCs, NEW c \in claims,
           c = ClaimOf(req[r].upl), req'[r].pc \in TakingPCs, req'[r].upl = req[r].upl
    PROVE  Taking(c)'
<1>1. PICK u \in allocMsg : u = req[r].upl /\ u = req'[r].upl
  BY TakenStored
<1>2. ClaimOf(u)' = c
  BY <1>1, ClaimKept, ClaimDigest
<1>3. ClaimOf(req[r].upl)' = c
  BY <1>1, <1>2 DEF ClaimOf, NodeOf, SpaceOf, Commitment
<1>. QED BY <1>3 DEF Taking

\* A claim that was recorded, or is being recorded by another request than r,
\* stays so when r moves.
LEMMA StillRecorded ==
    ASSUME IInv, Grows, NEW r \in Requests, NEW p, Become(r, p), NEW c \in claims,
           RowFor(c) \/ Taking(c), RowFor(c) => RowFor(c)',
           \/ req[r].pc \notin TakingPCs
           \/ p.pc \in TakingPCs /\ p.upl = req[r].upl
           \/ c = ClaimOf(req[r].upl) => RowFor(c)'
    PROVE  RowFor(c)' \/ Taking(c)'
<1>1. \A r2 \in Requests : req'[r2] = IF r2 = r THEN p ELSE req[r2]
  BY DEF IInv, TypeOK, Become
<1>2. CASE RowFor(c)
  BY <1>2
<1>3. CASE Taking(c)
  <2>1. PICK r2 \in Requests : req[r2].pc \in TakingPCs /\ ClaimOf(req[r2].upl) = c
    BY <1>3 DEF Taking
  <2>2. CASE r2 # r
    BY <1>1, <2>1, <2>2, TakingStays
  <2>3. CASE r2 = r /\ p.pc \in TakingPCs /\ p.upl = req[r].upl
    BY <1>1, <2>1, <2>3, TakingStays
  <2>4. CASE r2 = r /\ (c = ClaimOf(req[r].upl) => RowFor(c)')
    BY <2>1, <2>4
  <2>. QED BY <2>1, <2>2, <2>3, <2>4
<1>. QED BY <1>2, <1>3

\* The rows of the registry stay.
LEMMA RowStays ==
    ASSUME IInv, NEW c \in claims, RowFor(c),
           \/ UNCHANGED registry
           \/ \E k \in Keys, a \in Adds : registry' = [registry EXCEPT ![k] = a]
    PROVE  RowFor(c)'
<1>1. <<c[2], c[3]>> \in Keys
  BY DEF IInv, TypeOK, Keys
<1>2. registry \in [Keys -> Adds \cup {None}] /\ None \notin Adds
  BY ConstantsAssumption DEF IInv, TypeOK
<1>. QED BY <1>1, <1>2 DEF RowFor

LEMMA RecordedApart ==
    ASSUME IInv, Grows, Apart, faults' = 0 => faults = 0, Recorded
    PROVE  Recorded'
<1>1. SUFFICES ASSUME faults' = 0, NEW c \in claims' PROVE RowFor(c)' \/ Taking(c)'
  BY DEF Recorded
<1>2. c \in claims /\ (RowFor(c) \/ Taking(c))
  BY <1>1 DEF Recorded, Apart
<1>3. CASE RowFor(c)
  BY <1>3 DEF RowFor, Apart
<1>4. CASE Taking(c)
  <2>1. PICK r \in Requests : req[r].pc \in TakingPCs /\ ClaimOf(req[r].upl) = c
    BY <1>4 DEF Taking
  <2>2. req'[r] = req[r]
    BY <1>1, <2>1 DEF Apart
  <2>. QED BY <1>2, <2>1, <2>2, TakingStays
<1>. QED BY <1>2, <1>3, <1>4

LEMMA RecordedAccept ==
    ASSUME IInv, Grows, Recorded, NEW r \in Requests, AddAccept(r) \/ ConcludeAccept(r)
    PROVE  Recorded'
<1>1. PICK u : u = req[r].upl
  OBVIOUS
<1>2. claims' = claims \cup {ClaimOf(u)} /\ UNCHANGED <<registry, upload, content, faults>>
  BY <1>1 DEF AddAccept, ConcludeAccept, envVars
<1>3. PICK p : Become(r, p) /\ p.pc \in TakingPCs /\ p.upl = u
  BY <1>1 DEF AddAccept, ConcludeAccept, AddReq, ConcludeReq, TakingPCs
<1>4. req[r].pc \notin TakingPCs
  BY DEF AddAccept, ConcludeAccept, At, TakingPCs
<1>5. SUFFICES ASSUME faults' = 0, NEW c \in claims' PROVE RowFor(c)' \/ Taking(c)'
  BY DEF Recorded
<1>6. CASE c \in claims
  <2>1. RowFor(c) \/ Taking(c)
    BY <1>2, <1>5, <1>6 DEF Recorded
  <2>2. RowFor(c) => RowFor(c)'
    BY <1>2 DEF RowFor
  <2>. QED BY <1>3, <1>4, <1>6, <2>1, <2>2, StillRecorded
<1>7. CASE c = ClaimOf(u)
  <2>1. req'[r] = p
    BY <1>3 DEF IInv, TypeOK, Become
  <2>2. ClaimOf(u)' = c
    BY <1>2, <1>7 DEF ClaimOf, NodeOf, SpaceOf, Commitment
  <2>3. ClaimOf(req[r].upl)' = c
    BY <1>3, <2>1, <2>2 DEF ClaimOf, NodeOf, SpaceOf, Commitment
  <2>. QED BY <1>3, <2>1, <2>3 DEF Taking
<1>. QED BY <1>2, <1>6, <1>7

LEMMA RecordedPersist ==
    ASSUME IInv, Grows, Recorded, NEW r \in Requests, AddPersist(r) \/ ConcludePersist(r)
    PROVE  Recorded'
<1>1. UNCHANGED <<registry, claims, faults>>
  BY DEF AddPersist, ConcludePersist, envVars, nodeVars
<1>2. PICK p : Become(r, p) /\ p.pc \in TakingPCs /\ p.upl = req[r].upl
  BY DEF AddPersist, ConcludePersist, AddReq, ConcludeReq, TakingPCs
<1>3. SUFFICES ASSUME faults' = 0, NEW c \in claims' PROVE RowFor(c)' \/ Taking(c)'
  BY DEF Recorded
<1>4. c \in claims /\ (RowFor(c) \/ Taking(c)) /\ (RowFor(c) => RowFor(c)')
  BY <1>1, <1>3 DEF Recorded, RowFor
<1>. QED BY <1>2, <1>4, StillRecorded

\* The end of an acceptance: there is a row now, whoever wrote it.
LEMMA RecordedRegister ==
    ASSUME IInv, Grows, Recorded, HonestReports, NEW r \in Requests,
           AddRegister(r) \/ AddRegisterFails(r) \/ ConcludeRegister(r)
    PROVE  Recorded'
<1>1. PICK u \in allocMsg : u = req[r].upl /\ upload[u].add \in Adds
  BY TakenStored DEF AddRegister, AddRegisterFails, ConcludeRegister, At, TakingPCs, IInv, UploadsIssued
<1>2. PICK k : k = <<SpaceOf(u), Commitment(u)>>
  OBVIOUS
<1>3. SUFFICES ASSUME faults' = 0, NEW c \in claims' PROVE RowFor(c)' \/ Taking(c)'
  BY DEF Recorded
<1>4. /\ k \in Keys
      /\ \/ registry[k] # None /\ UNCHANGED registry
         \/ \E a \in Adds : registry' = [registry EXCEPT ![k] = a]
  <2>1. CASE AddRegister(r) \/ AddRegisterFails(r)
    <3>1. PICK a \in Adds : a = req[r].add /\ upload[u].add = a /\ Hashed(a)
      BY <1>1, <2>1 DEF AddRegister, AddRegisterFails, At, IInv, RequestsOK, RequestOK, AddPCs
    <3>2. k = KeyOfAdd(a) /\ k \in Keys
      BY <1>2, <3>1, ConstantsAssumption DEF KeyOfAdd, SpaceOf, Commitment, Hashed, Keys
    <3>3. CASE AddRegister(r)
      BY <3>1, <3>2, <3>3 DEF AddRegister, Register
    <3>4. CASE AddRegisterFails(r)
      <4>1. ~Fault
        BY <1>3, FaultCounts
      <4>. QED BY <3>1, <3>2, <3>4, <4>1 DEF AddRegisterFails
    <3>. QED BY <2>1, <3>2, <3>3, <3>4
  <2>2. CASE ConcludeRegister(r)
    <3>1. Commitment(u) = req[r].dig /\ req[r].dig \in Digests
      BY <1>1, <2>2 DEF HonestReports, ConcludeRegister, At, IInv, RequestsOK, RequestOK
    <3>2. k \in Keys
      BY <1>1, <1>2, <3>1, ConstantsAssumption DEF Keys, SpaceOf
    <3>. QED BY <1>1, <1>2, <2>2, <3>1, <3>2 DEF ConcludeRegister, Register
  <2>. QED BY <2>1, <2>2
<1>5. UNCHANGED claims /\ (faults' = 0 => faults = 0)
  BY FaultCounts DEF AddRegister, AddRegisterFails, ConcludeRegister, nodeVars, envVars
<1>6. c \in claims /\ (RowFor(c) \/ Taking(c)) /\ (RowFor(c) => RowFor(c)')
  BY <1>3, <1>4, <1>5, RowStays DEF Recorded
<1>7. c = ClaimOf(u) => RowFor(c)'
  <2>1. registry \in [Keys -> Adds \cup {None}] /\ None \notin Adds
    BY ConstantsAssumption DEF IInv, TypeOK
  <2>2. registry'[k] # None
    BY <1>4, <2>1
  <2>. QED BY <1>2, <2>2 DEF RowFor, ClaimOf
<1>8. PICK p : Become(r, p)
  BY DEF AddRegister, AddRegisterFails, ConcludeRegister, Respond
<1>. QED BY <1>1, <1>6, <1>7, <1>8, StillRecorded

LEMMA FaultsStay ==
    ASSUME IInv, [Next]_vars, faults' = 0
    PROVE  faults = 0
<1>1. UNCHANGED faults \/ Fault
  <2>1. CASE UNCHANGED vars
    BY <2>1 DEF vars, envVars
  <2>2. CASE \E r \in Requests : Arrive(r)
    BY <2>2 DEF Arrive, AddBegin, AddRefused, ConcludeBegin, RemoveBegin, AbortBegin, envVars
  <2>3. CASE Environment
    BY <2>3 DEF Environment, ClientPut, AdminProviderRegister, AdminProviderDeregister,
       AdminProviderWeightSet, Crash, envVars
  <2>4. CASE \E r \in Requests : Step(r)
    <3>1. PICK r \in Requests : Step(r)
      BY <2>4
    <3>2. CASE \/ AddReplay(r) \/ AddNoCandidate(r) \/ \E n \in Nodes : AddAllocateFails(r, n)
               \/ \E n \in Nodes, u \in Uploads : AddAllocate(r, n, u) \/ AddAllocateLost(r, n, u)
      BY <3>2 DEF AddReplay, AddAllocate, AddAllocateFails, AddAllocateLost, AddNoCandidate, envVars
    <3>3. CASE \/ AddAccept(r) \/ AddAcceptFails(r) \/ AddPersist(r) \/ AddPersistFails(r)
               \/ AddRegister(r) \/ AddRegisterFails(r) \/ AddRespond(r)
      BY <3>3 DEF AddAccept, AddAcceptFails, AddPersist, AddPersistFails, AddRegister, AddRegisterFails,
         AddRespond, envVars
    <3>4. CASE \/ ConcludeAccept(r) \/ ConcludeAcceptFails(r) \/ ConcludePersist(r) \/ ConcludeRegister(r)
      BY <3>4 DEF ConcludeAccept, ConcludeAcceptFails, ConcludePersist, ConcludeRegister, envVars
    <3>5. CASE \/ RemoveLocate(r) \/ RemoveRelease(r) \/ RemoveReleaseFails(r) \/ RemoveDeregister(r)
               \/ AbortReject(r)
      BY <3>5 DEF RemoveLocate, RemoveRelease, RemoveReleaseFails, RemoveDeregister, AbortReject, envVars
    <3>. QED BY <3>1, <3>2, <3>3, <3>4, <3>5 DEF Step
  <2>. QED BY <2>1, <2>2, <2>3, <2>4 DEF Next
<1>. QED BY <1>1, FaultCounts

LEMMA RecordedNext ==
    ASSUME IInv, NoRemovals, Recorded, HonestReports, "remove" \notin Calls, [Next]_vars
    PROVE  Recorded'
BY StepGrows, FaultsStay, ClaimKinds, RecordedApart, RecordedAccept, RecordedPersist, RecordedRegister

\* Where blobs are not removed and clients report the digests of what they put,
\* the requests of /blob/add and /ucan/conclude leave, once they are over and
\* if nothing has failed, no storage node with a claim that the registry has no
\* row for, however they interleave.
THEOREM EveryClaimRecorded ==
    ASSUME "remove" \notin Calls
    PROVE  Spec /\ []HonestReports => []ClaimsRecorded
<1>1. Recorded => ClaimsRecorded
  <2>1. ASSUME Quiescent, NEW c PROVE ~Taking(c)
    BY <2>1 DEF Quiescent, Taking, TakingPCs, At
  <2>. QED BY <2>1 DEF Recorded, ClaimsRecorded, RowFor
<1>2. IInv /\ AttestedClaimed /\ [Next]_vars => AttestedClaimed'
  BY AttestedClaimedNext
<1>3. IInv /\ AttestedClaimed /\ Recorded /\ HonestReports /\ [Next]_vars => Recorded'
  BY RecordedNext DEF AttestedClaimed
<1>. QED BY <1>1, <1>2, <1>3, RecordedStarts, AttestedClaimedStarts, Invariance, PTL DEF Spec
=============================================================================
