--------------------------- MODULE RoutingProofs ---------------------------
(***************************************************************************)
(* Module Routing, for any providers, policies, spaces, requests, page     *)
(* size and number of changes: an upload is routed within the policy of    *)
(* its space, and is refused only if no provider could have taken it all   *)
(* along.                                                                  *)
(*                                                                         *)
(* The inductive invariant says what a selection knows at each of its      *)
(* steps about the providers that stay: while it lists, such a provider is *)
(* past the cursor or has been listed with its weight; once it has read    *)
(* the candidates, they are among the candidates read.                     *)
(***************************************************************************)
EXTENDS Routing, DataLemmas

Selecting(q) == q.pc \in {"list", "reference", "candidates", "choose", "chosen", "unavailable"}

\* Provider p has been listed with a weight.
Listed(q, p) == \E i \in 1..Len(q.found) : q.found[i][1] = p /\ q.found[i][2] > 0

\* What holds of a selection q at every step: the policies its space has
\* referenced, ss, what they have allowed, al, and the providers that stay, st.
Ongoing(q, ss, al, st) ==
    /\ q.space \in Spaces /\ spacePolicy[q.space] \in ss
    /\ \A p \in ss : Candidates(p) \subseteq al /\ st \subseteq Candidates(p)
    /\ st \subseteq Weighted /\ st \cap q.excl = {}

\* What it knows at the step it has reached.
Progress(q, ss, al, st) ==
    /\ q.pc = "list" => \A p \in st : p > q.cursor \/ Listed(q, p)
    /\ q.pc \in {"reference", "candidates", "choose"} => \A p \in st : Listed(q, p)
    /\ q.pc = "candidates" => q.policy \in ss \ {None}
    /\ q.pc = "choose" => st \subseteq q.cands /\ q.cands \subseteq al
    /\ q.pc = "chosen" => q.pick \in al \ q.excl
    /\ q.pc = "unavailable" => st = {}

RequestInv(q, ss, al, st) ==
    /\ Selecting(q) => Ongoing(q, ss, al, st) /\ Progress(q, ss, al, st)
    /\ ~Selecting(q) => ss = {} /\ al = {} /\ st = {}
    /\ q.pc \in {"put_check", "put_store"} => q.policy \in Policies

RoutingInv ==
    /\ TypeOK
    /\ \A r \in Requests : RequestInv(req[r], seen[r], allowed[r], steady[r])

----------------------------------------------------------------------------
\* Facts about the helpers

LEMMA IdleType == Idle \in RequestStates /\ ~Selecting(Idle) /\ Idle.pc = "idle"
BY DEF Idle, RequestStates, Selecting

\* Every configuration the operators can have made satisfies the invariant.
LEMMA InitInv == Init => RoutingInv
<1> SUFFICES ASSUME Init PROVE RoutingInv
  OBVIOUS
<1>1. TypeOK
  BY IdleType, RoutingAssumption DEF Init, TypeOK
<1>2. \A r \in Requests : RequestInv(req[r], seen[r], allowed[r], steady[r])
  <2>1. SUFFICES ASSUME NEW r \in Requests PROVE RequestInv(Idle, {}, {}, {})
    BY DEF Init
  <2>. QED BY IdleType DEF RequestInv
<1>. QED BY <1>1, <1>2 DEF RoutingInv

\* A step of one request, which may start its history afresh, and leaves the
\* stores alone.
LEMMA OneRequest ==
    ASSUME RoutingInv, UNCHANGED <<stores, changes>>, NEW r \in Requests,
           NEW q \in RequestStates, NEW ss \in SUBSET (Policies \cup {None}),
           NEW al \in SUBSET Providers, NEW st \in SUBSET Providers,
           req' = [req EXCEPT ![r] = q], seen' = [seen EXCEPT ![r] = ss],
           allowed' = [allowed EXCEPT ![r] = al], steady' = [steady EXCEPT ![r] = st],
           RequestInv(q, ss, al, st)
    PROVE  RoutingInv'
<1>1. TypeOK
  BY DEF RoutingInv
<1>2. TypeOK'
  BY <1>1 DEF TypeOK, stores
<1>3. ASSUME NEW x, NEW a, NEW b, NEW c
      PROVE  RequestInv(x, a, b, c)' <=> RequestInv(x, a, b, c)
  BY DEF RequestInv, Ongoing, Progress, Candidates, Weighted, Registered, stores
<1>4. ASSUME NEW u \in Requests
      PROVE  RequestInv(req[u], seen[u], allowed[u], steady[u])'
  <2>1. CASE u = r
    <3>1. req'[u] = q /\ seen'[u] = ss /\ allowed'[u] = al /\ steady'[u] = st
      BY <1>1, <2>1 DEF TypeOK
    <3>. QED BY <3>1, <1>3
  <2>2. CASE u # r
    <3>1. req'[u] = req[u] /\ seen'[u] = seen[u] /\ allowed'[u] = allowed[u]
          /\ steady'[u] = steady[u]
      BY <1>1, <2>2 DEF TypeOK
    <3>2. RequestInv(req[u], seen[u], allowed[u], steady[u])
      BY DEF RoutingInv
    <3>. QED BY <3>1, <3>2, <1>3
  <2>. QED BY <2>1, <2>2
<1>. QED BY <1>2, <1>4 DEF RoutingInv

\* The same when the history stays as well.
LEMMA OneStep ==
    ASSUME RoutingInv, UNCHANGED <<stores, history, changes>>, NEW r \in Requests,
           NEW q \in RequestStates, Become(r, q),
           RequestInv(q, seen[r], allowed[r], steady[r])
    PROVE  RoutingInv'
<1>1. TypeOK
  BY DEF RoutingInv
<1>2. /\ seen[r] \in SUBSET (Policies \cup {None})
      /\ allowed[r] \in SUBSET Providers /\ steady[r] \in SUBSET Providers
  BY <1>1 DEF TypeOK
<1>3. /\ seen' = [seen EXCEPT ![r] = seen[r]] /\ allowed' = [allowed EXCEPT ![r] = allowed[r]]
      /\ steady' = [steady EXCEPT ![r] = steady[r]]
  BY <1>1 DEF TypeOK, history
<1>4. PICK ss \in SUBSET (Policies \cup {None}), al \in SUBSET Providers, st \in SUBSET Providers :
        ss = seen[r] /\ al = allowed[r] /\ st = steady[r]
  BY <1>2
<1>5. UNCHANGED <<stores, changes>> /\ req' = [req EXCEPT ![r] = q]
  BY DEF Become
<1>. QED BY <1>3, <1>4, <1>5, OneRequest

\* weightedRandomInt never runs off the end of the weights.
LEMMA DrawInRange ==
    ASSUME NEW ws \in Seq(Nat), ws # <<>>, NEW random \in Draws(ws)
    PROVE  WeightedRandomInt(ws, random) \in 1..Len(ws)
<1> DEFINE n == Len(ws)
           Stops(i) == /\ random - SumTo(ws, i) <= 0
                       /\ \A j \in 1..(i - 1) : random - SumTo(ws, j) > 0
           T == {i \in 1..n : random - SumTo(ws, i) <= 0}
<1>1. n \in Nat \ {0}
  BY EmptySeq
<1>2. \A i \in 1..n : SumTo(ws, i) \in Nat
  BY <1>1, Sums
<1>3. random \in Int /\ random < SumTo(ws, n)
  BY <1>1, <1>2 DEF Draws
<1>4. n \in T
  BY <1>1, <1>2, <1>3
<1>5. T \in SUBSET Nat
  OBVIOUS
<1>6. PICK i \in T : \A m \in T : i <= m
  <2>. HIDE DEF T
  <2>. QED BY <1>4, <1>5, LeastMember
<1>7. i \in 1..n /\ random - SumTo(ws, i) <= 0
  OBVIOUS
<1>8. ASSUME NEW j \in 1..(i - 1) PROVE random - SumTo(ws, j) > 0
  <2>1. j \in 1..n /\ ~(i <= j)
    BY <1>1, <1>7
  <2>2. j \notin T
    BY <1>6, <2>1
  <2>. QED BY <1>2, <1>3, <2>1, <2>2
<1>9. Stops(i)
  BY <1>7, <1>8
<1>. QED BY <1>7, <1>9 DEF WeightedRandomInt

\* What is left after the filters, and what a choice among it is.
LEMMA FilteredMembers ==
    ASSUME NEW q \in RequestStates
    PROVE  /\ Filtered(q) \in Seq(Providers \X (0..MaxWeight))
           /\ \A j \in 1..Len(Filtered(q)) : /\ Filtered(q)[j][1] \in q.cands \ q.excl
                                             /\ Filtered(q)[j][2] \in Nat \ {0}
           /\ Filtered(q) = <<>> => \A p \in q.cands \ q.excl : ~Listed(q, p)
<1> DEFINE I == {i \in 1..Len(q.found) : /\ q.found[i][1] \in q.cands
                                         /\ q.found[i][1] \notin q.excl
                                         /\ q.found[i][2] > 0}
           A == Providers \X (0..MaxWeight)
<1>1. q.found \in Seq(A)
  BY DEF RequestStates
<1>2. I \in SUBSET (1..Len(q.found))
  OBVIOUS
<1>3. Filtered(q) = Subsequence(q.found, I)
  BY DEF Filtered
<1>4. \A i \in I : q.found[i][1] \in q.cands \ q.excl /\ q.found[i][2] > 0 /\ q.found[i] \in A
  BY <1>1, LenProperties
<1>5. I = {} => \A p \in q.cands \ q.excl : ~Listed(q, p)
  BY DEF Listed
<1> HIDE DEF I
<1>6. /\ Subsequence(q.found, I) \in Seq(A)
      /\ Len(Subsequence(q.found, I)) = Cardinality(I)
      /\ Subsequence(q.found, I) = <<>> <=> I = {}
      /\ \A j \in 1 .. Cardinality(I) :
            InOrder(I)[j] \in I /\ Subsequence(q.found, I)[j] = q.found[InOrder(I)[j]]
  <2> HIDE DEF A
  <2>. QED BY <1>1, <1>2, SubsequenceMembers
<1>7. ASSUME NEW j \in 1..Len(Filtered(q))
      PROVE  /\ Filtered(q)[j][1] \in q.cands \ q.excl
             /\ Filtered(q)[j][2] \in Nat \ {0}
  <2>1. PICK i \in I : Filtered(q)[j] = q.found[i]
    BY <1>3, <1>6
  <2>. QED BY <1>4, <2>1, RoutingAssumption
<1>. QED BY <1>3, <1>5, <1>6, <1>7

----------------------------------------------------------------------------
\* The steps of a selection

LEMMA StartInv ==
    ASSUME RoutingInv, NEW r \in Requests, NEW s \in Spaces, NEW e \in SUBSET Providers,
           Start(r, s, e), UNCHANGED <<stores, changes>>
    PROVE  RoutingInv'
<1>1. TypeOK
  BY DEF RoutingInv
<1>2. PICK q : q = [Idle EXCEPT !.pc = "list", !.space = s, !.excl = e]
  OBVIOUS
<1>3. q = [pc |-> "list", space |-> s, excl |-> e, cursor |-> 0, found |-> <<>>,
           policy |-> None, cands |-> {}, todo |-> {}, pick |-> None]
  BY <1>2 DEF Idle
<1>4. q \in RequestStates
  BY <1>3, EmptySeq DEF RequestStates
<1>5. PICK ss, al, st : /\ ss = {spacePolicy[s]} /\ al = Candidates(spacePolicy[s])
                        /\ st = (Weighted \cap Candidates(spacePolicy[s])) \ e
  OBVIOUS
<1>6. spacePolicy[s] \in Policies \cup {None} /\ Candidates(spacePolicy[s]) \in SUBSET Providers
  BY <1>1 DEF TypeOK, Candidates
<1>7. ss \in SUBSET (Policies \cup {None}) /\ al \in SUBSET Providers /\ st \in SUBSET Providers
  BY <1>5, <1>6
<1>8. st \in SUBSET Nat /\ \A p \in st : p > 0
  BY <1>7, RoutingAssumption
<1>9. RequestInv(q, ss, al, st)
  <2>1. Ongoing(q, ss, al, st)
    BY <1>3, <1>5 DEF Ongoing
  <2>2. Progress(q, ss, al, st)
    BY <1>3, <1>8 DEF Progress
  <2>3. Selecting(q) /\ q.pc = "list"
    BY <1>3 DEF Selecting
  <2>. QED BY <2>1, <2>2, <2>3 DEF RequestInv
<1>10. /\ req' = [req EXCEPT ![r] = q] /\ seen' = [seen EXCEPT ![r] = ss]
       /\ allowed' = [allowed EXCEPT ![r] = al] /\ steady' = [steady EXCEPT ![r] = st]
  BY <1>2, <1>5 DEF Start, Become
<1>. QED BY <1>4, <1>7, <1>9, <1>10, OneRequest

LEMMA GetSpacePolicyInv ==
    ASSUME RoutingInv, NEW r \in Requests, GetSpacePolicy(r)
    PROVE  RoutingInv'
<1>1. TypeOK /\ RequestInv(req[r], seen[r], allowed[r], steady[r])
  BY DEF RoutingInv
<1>2. PICK q \in RequestStates : q = req[r]
  BY <1>1 DEF TypeOK
<1>3. PICK ss, al, st : /\ ss = seen[r] /\ al = allowed[r] /\ st = steady[r]
  OBVIOUS
<1>4. q.pc = "reference" /\ UNCHANGED <<stores, history, changes>>
  BY <1>2 DEF GetSpacePolicy, At
<1>5. Ongoing(q, ss, al, st) /\ \A p \in st : Listed(q, p)
  BY <1>1, <1>2, <1>3, <1>4 DEF RequestInv, Selecting, Progress
<1>6. PICK p \in Policies \cup {None} : p = spacePolicy[q.space]
  BY <1>1, <1>5 DEF Ongoing, TypeOK
<1>7. CASE p = None
  <2>1. PICK x : x = [q EXCEPT !.pc = "choose", !.cands = Providers]
    OBVIOUS
  <2>2. x \in RequestStates /\ x.pc = "choose" /\ x.cands = Providers /\ x.space = q.space
        /\ x.excl = q.excl /\ x.found = q.found
    BY <2>1 DEF RequestStates
  <2>3. Become(r, x)
    BY <1>2, <1>6, <1>7, <2>1 DEF GetSpacePolicy
  <2>4. Ongoing(x, ss, al, st)
    BY <1>5, <2>2 DEF Ongoing
  <2>5. Providers \subseteq al /\ st \subseteq Providers
    BY <1>5, <1>6, <1>7 DEF Ongoing, Candidates
  <2>6. Progress(x, ss, al, st)
    BY <1>5, <2>2, <2>5 DEF Progress, Listed
  <2>7. RequestInv(x, ss, al, st)
    BY <2>2, <2>4, <2>6 DEF RequestInv, Selecting
  <2>. QED BY <1>3, <1>4, <2>2, <2>3, <2>7, OneStep
<1>8. CASE p # None
  <2>1. PICK x : x = [q EXCEPT !.pc = "candidates", !.policy = p]
    OBVIOUS
  <2>2. x \in RequestStates /\ x.pc = "candidates" /\ x.policy = p /\ x.space = q.space
        /\ x.excl = q.excl /\ x.found = q.found
    BY <2>1 DEF RequestStates
  <2>3. Become(r, x)
    BY <1>2, <1>6, <1>8, <2>1 DEF GetSpacePolicy
  <2>4. Ongoing(x, ss, al, st)
    BY <1>5, <2>2 DEF Ongoing
  <2>5. p \in ss
    BY <1>5, <1>6 DEF Ongoing
  <2>6. Progress(x, ss, al, st)
    BY <1>5, <1>8, <2>2, <2>5 DEF Progress, Listed
  <2>7. RequestInv(x, ss, al, st)
    BY <2>2, <2>4, <2>6 DEF RequestInv, Selecting
  <2>. QED BY <1>3, <1>4, <2>2, <2>3, <2>7, OneStep
<1>. QED BY <1>7, <1>8

LEMMA GetPolicyInv ==
    ASSUME RoutingInv, NEW r \in Requests, GetPolicy(r)
    PROVE  RoutingInv'
<1>1. TypeOK /\ RequestInv(req[r], seen[r], allowed[r], steady[r])
  BY DEF RoutingInv
<1>2. PICK q \in RequestStates : q = req[r]
  BY <1>1 DEF TypeOK
<1>3. PICK ss, al, st : /\ ss = seen[r] /\ al = allowed[r] /\ st = steady[r]
  OBVIOUS
<1>4. q.pc = "candidates" /\ UNCHANGED <<stores, history, changes>>
  BY <1>2 DEF GetPolicy, At
<1>5. Ongoing(q, ss, al, st) /\ (\A p \in st : Listed(q, p)) /\ q.policy \in ss \ {None}
  BY <1>1, <1>2, <1>3, <1>4 DEF RequestInv, Selecting, Progress
<1>6. q.policy \in Policies
  BY <1>5 DEF RequestStates
<1>7. PICK c \in SUBSET Providers : c = policies[q.policy]
  BY <1>1, <1>6 DEF TypeOK
<1>8. c \subseteq al /\ st \subseteq c
  BY <1>5, <1>7 DEF Ongoing, Candidates
<1>9. PICK x : x = [q EXCEPT !.pc = IF c = {} THEN "unavailable" ELSE "choose", !.cands = c]
  OBVIOUS
<1>10. /\ x \in RequestStates /\ x.pc = (IF c = {} THEN "unavailable" ELSE "choose")
       /\ x.cands = c /\ x.space = q.space /\ x.excl = q.excl /\ x.found = q.found
  BY <1>9 DEF RequestStates
<1>11. Become(r, x)
  BY <1>2, <1>7, <1>9 DEF GetPolicy
<1>12. Ongoing(x, ss, al, st)
  BY <1>5, <1>10 DEF Ongoing
<1>13. Progress(x, ss, al, st)
  BY <1>5, <1>8, <1>10 DEF Progress, Listed
<1>14. RequestInv(x, ss, al, st)
  BY <1>10, <1>12, <1>13 DEF RequestInv, Selecting
<1>. QED BY <1>3, <1>4, <1>10, <1>11, <1>14, OneStep

\* What ListPage reads after a cursor.
IsPage(cursor, rest, page, rows) ==
    /\ rest = {p \in Registered : p > cursor}
    /\ page = Smallest(PageSize, rest)
    /\ rows = [i \in 1..Cardinality(page) |-> <<InOrder(page)[i], weight[InOrder(page)[i]]>>]

\* A page: its rows, and what follows the cursor it leaves.
LEMMA PageRows ==
    ASSUME TypeOK, NEW cursor \in Nat, NEW rest, NEW page, NEW rows,
           IsPage(cursor, rest, page, rows)
    PROVE  /\ rows \in Seq(Providers \X (0..MaxWeight))
           /\ \A p \in page : \E i \in 1..Len(rows) : rows[i] = <<p, weight[p]>>
           /\ Cardinality(rest) > PageSize =>
                 Largest(page) \in Nat /\ \A p \in rest \ page : p > Largest(page)
           /\ ~(Cardinality(rest) > PageSize) => page = rest
<1>1. /\ rest \in SUBSET Providers /\ rest \in SUBSET Int /\ IsFiniteSet(rest)
      /\ \A p \in rest : weight[p] \in 0..MaxWeight
  <2>1. rest \in SUBSET Providers /\ Providers \in SUBSET Int /\ IsFiniteSet(Providers)
    BY RoutingAssumption DEF Registered, IsPage
  <2>2. IsFiniteSet(rest)
    BY <2>1, FS_Subset
  <2>3. \A p \in rest : weight[p] \in 0..MaxWeight
    BY <2>1 DEF TypeOK, Registered, IsPage
  <2>. QED BY <2>1, <2>2, <2>3
<1>2. /\ page \in SUBSET rest /\ IsFiniteSet(page)
      /\ Cardinality(rest) <= PageSize => page = rest
      /\ rest # {} => page # {}
      /\ \A p \in page, q \in rest \ page : p < q
  <2>1. page = Smallest(PageSize, rest)
    BY DEF IsPage
  <2>. QED BY <1>1, <2>1, RoutingAssumption, SmallestMembers
<1>3. /\ Cardinality(page) \in Nat
      /\ InOrder(page) \in [1 .. Cardinality(page) -> page]
      /\ \A p \in page : \E i \in 1 .. Cardinality(page) : InOrder(page)[i] = p
  <2>1. page \in SUBSET Int
    BY <1>1, <1>2
  <2>. QED BY <1>2, <2>1, InOrderMembers
<1>4. rows \in [1..Cardinality(page) -> Providers \X (0..MaxWeight)]
  <2>1. \A i \in 1..Cardinality(page) : InOrder(page)[i] \in rest
    BY <1>2, <1>3
  <2>. QED BY <1>1, <2>1 DEF IsPage
<1>5. rows \in Seq(Providers \X (0..MaxWeight)) /\ Len(rows) = Cardinality(page)
  <2>1. PICK B : B = Providers \X (0..MaxWeight)
    OBVIOUS
  <2>2. rows \in [1..Cardinality(page) -> B]
    BY <1>4, <2>1
  <2>3. rows \in Seq(B) /\ Len(rows) = Cardinality(page)
    BY <1>3, <2>2, FunctionIsSeq
  <2>. QED BY <2>1, <2>3
<1>6. ASSUME NEW p \in page PROVE \E i \in 1..Len(rows) : rows[i] = <<p, weight[p]>>
  <2>1. PICK i \in 1..Cardinality(page) : InOrder(page)[i] = p
    BY <1>3
  <2>. QED BY <1>5, <2>1 DEF IsPage
<1>7. Cardinality(rest) \in Nat /\ PageSize \in Nat
  BY <1>1, RoutingAssumption, FS_CardinalityType
<1>8. ASSUME Cardinality(rest) > PageSize
      PROVE  Largest(page) \in Nat /\ \A p \in rest \ page : p > Largest(page)
  <2>1. rest # {}
    BY <1>1, <1>7, <1>8, FS_EmptySet
  <2>2. page \in SUBSET Int /\ page # {}
    BY <1>1, <1>2, <2>1
  <2>3. Largest(page) \in page
    BY <1>2, <2>2, LargestMember
  <2>. QED BY <1>1, <1>2, <2>3, RoutingAssumption
<1>9. ~(Cardinality(rest) > PageSize) => page = rest
  BY <1>2, <1>7
<1>. QED BY <1>5, <1>6, <1>8, <1>9

\* Paging loses no provider that stays.
LEMMA ListPageInv ==
    ASSUME RoutingInv, NEW r \in Requests, ListPage(r)
    PROVE  RoutingInv'
<1>1. TypeOK /\ RequestInv(req[r], seen[r], allowed[r], steady[r])
  BY DEF RoutingInv
<1>2. PICK q \in RequestStates : q = req[r]
  BY <1>1 DEF TypeOK
<1>3. PICK ss, al, st : /\ ss = seen[r] /\ al = allowed[r] /\ st = steady[r]
  OBVIOUS
<1>4. q.pc = "list" /\ UNCHANGED <<stores, history, changes>>
  BY <1>2 DEF ListPage, At
<1>5. Ongoing(q, ss, al, st) /\ \A p \in st : p > q.cursor \/ Listed(q, p)
  BY <1>1, <1>2, <1>3, <1>4 DEF RequestInv, Selecting, Progress
<1>6. PICK rest : rest = {p \in Registered : p > q.cursor}
  OBVIOUS
<1>7. PICK page : page = Smallest(PageSize, rest)
  OBVIOUS
<1>8. PICK rows : rows = [i \in 1..Cardinality(page) |->
                               <<InOrder(page)[i], weight[InOrder(page)[i]]>>]
  OBVIOUS
<1> DEFINE more == Cardinality(rest) > PageSize
<1>10. PICK x : x = [q EXCEPT !.found = q.found \o rows,
                              !.cursor = IF more THEN Largest(page) ELSE 0,
                              !.pc = IF more THEN "list" ELSE "reference"]
  OBVIOUS
<1>11. Become(r, x)
  BY <1>2, <1>6, <1>7, <1>8, <1>10 DEF ListPage
<1>12. q.cursor \in Nat /\ q.found \in Seq(Providers \X (0..MaxWeight))
  BY DEF RequestStates
<1>p. IsPage(q.cursor, rest, page, rows)
  BY <1>6, <1>7, <1>8 DEF IsPage
<1>13. /\ rows \in Seq(Providers \X (0..MaxWeight))
       /\ \A p \in page : \E i \in 1..Len(rows) : rows[i] = <<p, weight[p]>>
       /\ more => Largest(page) \in Nat /\ \A p \in rest \ page : p > Largest(page)
       /\ ~more => page = rest
  BY <1>1, <1>12, <1>p, PageRows
<1>14. /\ q.found \o rows \in Seq(Providers \X (0..MaxWeight))
       /\ Len(q.found) \in Nat /\ Len(rows) \in Nat
       /\ Len(q.found \o rows) = Len(q.found) + Len(rows)
       /\ \A i \in 1 .. Len(q.found) : (q.found \o rows)[i] = q.found[i]
       /\ \A i \in 1 .. Len(rows) : (q.found \o rows)[Len(q.found) + i] = rows[i]
  <2>2. PICK B : B = Providers \X (0..MaxWeight)
    OBVIOUS
  <2>3. q.found \in Seq(B) /\ rows \in Seq(B)
    BY <1>12, <1>13, <2>2
  <2>4. /\ q.found \o rows \in Seq(B)
        /\ Len(q.found) \in Nat /\ Len(rows) \in Nat
        /\ Len(q.found \o rows) = Len(q.found) + Len(rows)
        /\ \A i \in 1 .. Len(q.found) : (q.found \o rows)[i] = q.found[i]
        /\ \A i \in 1 .. Len(rows) : (q.found \o rows)[Len(q.found) + i] = rows[i]
    BY <2>3, Concatenation
  <2>. QED BY <2>2, <2>4
<1>15. /\ x \in RequestStates /\ x.found = q.found \o rows
       /\ x.cursor = (IF more THEN Largest(page) ELSE 0)
       /\ x.pc = (IF more THEN "list" ELSE "reference")
       /\ x.space = q.space /\ x.excl = q.excl
  BY <1>10, <1>13, <1>14 DEF RequestStates
<1>16. ASSUME NEW p \in st, Listed(q, p) PROVE Listed(x, p)
  <2>1. PICK i \in 1..Len(q.found) : q.found[i][1] = p /\ q.found[i][2] > 0
    BY <1>16 DEF Listed
  <2>2. i \in 1..Len(x.found) /\ x.found[i] = q.found[i]
    BY <1>14, <1>15, <2>1
  <2>. QED BY <2>1, <2>2 DEF Listed
<1>17. ASSUME NEW p \in st, p \in page PROVE Listed(x, p)
  <2>1. PICK i \in 1..Len(rows) : rows[i] = <<p, weight[p]>>
    BY <1>13, <1>17
  <2>2. Len(q.found) + i \in 1..Len(x.found) /\ x.found[Len(q.found) + i] = rows[i]
    <3>1. i \in Nat /\ Len(q.found) + i \in 1..(Len(q.found) + Len(rows))
      BY <1>14
    <3>. QED BY <1>14, <1>15, <3>1
  <2>3. weight[p] > 0
    BY <1>5 DEF Ongoing, Weighted
  <2>. QED BY <2>1, <2>2, <2>3 DEF Listed
<1>18. ASSUME NEW p \in st
       PROVE  Listed(x, p) \/ (more /\ p > x.cursor)
  <2>1. p \in Registered
    BY <1>5 DEF Ongoing, Weighted
  <2>2. CASE Listed(q, p)
    BY <1>16, <2>2
  <2>3. CASE ~Listed(q, p)
    <3>1. p \in rest
      BY <1>5, <1>6, <2>1, <2>3
    <3>2. CASE p \in page
      BY <1>17, <3>2
    <3>3. CASE p \notin page
      BY <1>13, <1>15, <3>1, <3>3
    <3>. QED BY <3>2, <3>3
  <2>. QED BY <2>2, <2>3
<1>19. Ongoing(x, ss, al, st)
  BY <1>5, <1>15 DEF Ongoing
<1>20. Progress(x, ss, al, st)
  BY <1>15, <1>18 DEF Progress
<1>21. RequestInv(x, ss, al, st)
  BY <1>15, <1>19, <1>20 DEF RequestInv, Selecting
<1>. QED BY <1>3, <1>4, <1>11, <1>15, <1>21, OneStep

\* A choice is made among the candidates; there is none only if nobody stayed.
LEMMA ChooseInv ==
    ASSUME RoutingInv, NEW r \in Requests, Choose(r)
    PROVE  RoutingInv'
<1>1. TypeOK /\ RequestInv(req[r], seen[r], allowed[r], steady[r])
  BY DEF RoutingInv
<1>2. PICK q \in RequestStates : q = req[r]
  BY <1>1 DEF TypeOK
<1>3. PICK ss, al, st : /\ ss = seen[r] /\ al = allowed[r] /\ st = steady[r]
  OBVIOUS
<1>4. q.pc = "choose" /\ UNCHANGED <<stores, history, changes>>
  BY <1>2 DEF Choose, At
<1>5. /\ Ongoing(q, ss, al, st) /\ \A p \in st : Listed(q, p)
      /\ st \subseteq q.cands /\ q.cands \subseteq al
  BY <1>1, <1>2, <1>3, <1>4 DEF RequestInv, Selecting, Progress
<1>6. PICK f : f = Filtered(q)
  OBVIOUS
<1>7. /\ f \in Seq(Providers \X (0..MaxWeight))
      /\ \A j \in 1..Len(f) : f[j][1] \in q.cands \ q.excl /\ f[j][2] \in Nat \ {0}
      /\ f = <<>> => \A p \in q.cands \ q.excl : ~Listed(q, p)
  BY <1>6, FilteredMembers
<1>8. CASE f = <<>>
  <2>1. PICK x : x = [q EXCEPT !.pc = "unavailable"]
    OBVIOUS
  <2>2. x \in RequestStates /\ x.pc = "unavailable" /\ x.space = q.space /\ x.excl = q.excl
    BY <2>1 DEF RequestStates
  <2>3. Become(r, x)
    BY <1>2, <1>6, <1>8, <2>1 DEF Choose
  <2>4. st = {}
    BY <1>5, <1>7, <1>8 DEF Ongoing
  <2>5. Ongoing(x, ss, al, st) /\ Progress(x, ss, al, st)
    BY <1>5, <2>2, <2>4 DEF Ongoing, Progress
  <2>6. RequestInv(x, ss, al, st)
    BY <2>2, <2>5 DEF RequestInv, Selecting
  <2>. QED BY <1>3, <1>4, <2>2, <2>3, <2>6, OneStep
<1>9. CASE f # <<>>
  <2>1. PICK random \in Draws(Weights(f)) :
          Become(r, [q EXCEPT !.pc = "chosen",
                       !.pick = f[WeightedRandomInt(Weights(f), random)][1]])
    BY <1>2, <1>6, <1>9 DEF Choose
  <2>2. Len(f) \in Nat \ {0}
    BY <1>7, <1>9, EmptySeq
  <2>3. Weights(f) \in [1..Len(f) -> Nat]
    BY <1>7 DEF Weights
  <2>4. Weights(f) \in Seq(Nat) /\ Len(Weights(f)) = Len(f)
    BY <2>2, <2>3
  <2>5. Weights(f) # <<>>
    BY <2>2, <2>4
  <2>6. PICK k : k = WeightedRandomInt(Weights(f), random)
    OBVIOUS
  <2>7. k \in 1..Len(f)
    BY <2>4, <2>5, <2>6, DrawInRange
  <2>8. PICK p : p = f[k][1]
    OBVIOUS
  <2>9. p \in Providers /\ p \in q.cands \ q.excl
    BY <1>7, <2>7, <2>8 DEF RequestStates
  <2>10. PICK x : x = [q EXCEPT !.pc = "chosen", !.pick = p]
    OBVIOUS
  <2>11. /\ x \in RequestStates /\ x.pc = "chosen" /\ x.pick = p
         /\ x.space = q.space /\ x.excl = q.excl
    BY <2>9, <2>10 DEF RequestStates
  <2>12. Become(r, x)
    BY <2>1, <2>6, <2>8, <2>10
  <2>13. Ongoing(x, ss, al, st) /\ Progress(x, ss, al, st)
    BY <1>5, <2>9, <2>11 DEF Ongoing, Progress
  <2>14. RequestInv(x, ss, al, st)
    BY <2>11, <2>13 DEF RequestInv, Selecting
  <2>. QED BY <1>3, <1>4, <2>11, <2>12, <2>14, OneStep
<1>. QED BY <1>8, <1>9

LEMMA AllocateFailsInv ==
    ASSUME RoutingInv, NEW r \in Requests, AllocateFails(r)
    PROVE  RoutingInv'
<1>1. TypeOK /\ RequestInv(req[r], seen[r], allowed[r], steady[r])
  BY DEF RoutingInv
<1>2. PICK q \in RequestStates : q = req[r]
  BY <1>1 DEF TypeOK
<1>3. q.pc = "chosen" /\ Start(r, q.space, q.excl \cup {q.pick}) /\ UNCHANGED <<stores, changes>>
  BY <1>2 DEF AllocateFails, At
<1>4. q.space \in Spaces /\ q.pick \in allowed[r]
  BY <1>1, <1>2, <1>3 DEF RequestInv, Selecting, Ongoing, Progress
<1>5. q.excl \cup {q.pick} \in SUBSET Providers
  BY <1>1, <1>4 DEF TypeOK, RequestStates
<1>. QED BY <1>3, <1>4, <1>5, StartInv

\* A request that becomes idle again.
LEMMA IdleInv == RequestInv(Idle, {}, {}, {})
BY IdleType DEF RequestInv

LEMMA AllocateEndsInv ==
    ASSUME RoutingInv, NEW r \in Requests, AllocateEnds(r)
    PROVE  RoutingInv'
<1>1. /\ req' = [req EXCEPT ![r] = Idle] /\ seen' = [seen EXCEPT ![r] = {}]
      /\ allowed' = [allowed EXCEPT ![r] = {}] /\ steady' = [steady EXCEPT ![r] = {}]
      /\ UNCHANGED <<stores, changes>>
  BY DEF AllocateEnds, Become
<1>2. /\ {} \in SUBSET (Policies \cup {None}) /\ {} \in SUBSET Providers
  OBVIOUS
<1>. QED BY <1>1, <1>2, IdleType, IdleInv, OneRequest

LEMMA PutBeginInv ==
    ASSUME RoutingInv, NEW r \in Requests, NEW p \in Policies, NEW c \in SUBSET Providers,
           PutBegin(r, p, c)
    PROVE  RoutingInv'
<1>1. TypeOK /\ RequestInv(req[r], seen[r], allowed[r], steady[r])
  BY DEF RoutingInv
<1>2. req[r].pc = "idle" /\ UNCHANGED <<stores, history, changes>>
  BY DEF PutBegin, At
<1>3. seen[r] = {} /\ allowed[r] = {} /\ steady[r] = {}
  BY <1>1, <1>2 DEF RequestInv, Selecting
<1>4. PICK x : x = [Idle EXCEPT !.pc = "put_check", !.policy = p, !.cands = c, !.todo = c]
  OBVIOUS
<1>5. x = [pc |-> "put_check", space |-> None, excl |-> {}, cursor |-> 0, found |-> <<>>,
           policy |-> p, cands |-> c, todo |-> c, pick |-> None]
  BY <1>4 DEF Idle
<1>6. x \in RequestStates
  BY <1>5, EmptySeq DEF RequestStates
<1>7. Become(r, x)
  BY <1>4 DEF PutBegin
<1>8. RequestInv(x, {}, {}, {})
  BY <1>5 DEF RequestInv, Selecting
<1>. QED BY <1>2, <1>3, <1>6, <1>7, <1>8, OneStep

LEMMA PutCheckInv ==
    ASSUME RoutingInv, NEW r \in Requests, NEW p \in Providers, PutCheck(r, p)
    PROVE  RoutingInv'
<1>1. TypeOK /\ RequestInv(req[r], seen[r], allowed[r], steady[r])
  BY DEF RoutingInv
<1>2. PICK q \in RequestStates : q = req[r]
  BY <1>1 DEF TypeOK
<1>3. q.pc = "put_check" /\ UNCHANGED <<stores, history, changes>>
  BY <1>2 DEF PutCheck, At
<1>4. seen[r] = {} /\ allowed[r] = {} /\ steady[r] = {} /\ q.policy \in Policies
  BY <1>1, <1>2, <1>3 DEF RequestInv, Selecting
<1>5. CASE p \in Registered
  <2>1. PICK x : x = [q EXCEPT !.todo = q.todo \ {p},
                               !.pc = IF q.todo = {p} THEN "put_store" ELSE "put_check"]
    OBVIOUS
  <2>2. /\ x \in RequestStates /\ x.policy = q.policy
        /\ x.pc = (IF q.todo = {p} THEN "put_store" ELSE "put_check")
    BY <2>1 DEF RequestStates
  <2>3. Become(r, x)
    BY <1>2, <1>5, <2>1 DEF PutCheck
  <2>4. RequestInv(x, {}, {}, {})
    BY <1>4, <2>2 DEF RequestInv, Selecting
  <2>. QED BY <1>3, <1>4, <2>2, <2>3, <2>4, OneStep
<1>6. CASE p \notin Registered
  <2>1. Become(r, Idle)
    BY <1>6 DEF PutCheck
  <2>. QED BY <1>3, <1>4, <2>1, IdleType, IdleInv, OneStep
<1>. QED BY <1>5, <1>6

----------------------------------------------------------------------------
\* Changes of providers and policies

\* Whatever changes, a request that goes on keeps what it knows about the
\* providers that still stay, and one that ends is idle.
LEMMA ChangeInv ==
    ASSUME RoutingInv, Change,
           weight' \in [Providers -> 0..MaxWeight \cup {None}],
           policies' \in [Policies -> SUBSET Providers],
           spacePolicy' \in [Spaces -> Policies \cup {None}],
           req' \in [Requests -> RequestStates],
           \A r \in Requests : req'[r] = req[r] \/ (~Selecting(req[r]) /\ req'[r] = Idle)
    PROVE  RoutingInv'
<1>1. TypeOK
  BY DEF RoutingInv
<1>2. changes' \in 0..MaxChanges
  BY <1>1, RoutingAssumption DEF Change, TypeOK
<1>3. ASSUME NEW p \in Policies \cup {None} PROVE Candidates(p)' \in SUBSET Providers
  BY DEF Candidates
<1>4. ASSUME NEW r \in Requests
      PROVE  /\ seen'[r] = (IF seen[r] = {} THEN {} ELSE seen[r] \cup {spacePolicy'[req[r].space]})
             /\ allowed'[r] = allowed[r] \cup UNION {Candidates(p)' : p \in seen'[r]}
             /\ steady'[r] = {p \in steady[r] :
                                 p \in Weighted' /\ \A q \in seen'[r] : p \in Candidates(q)'}
  BY DEF Change
<1>5. ASSUME NEW r \in Requests
      PROVE  /\ seen'[r] \in SUBSET (Policies \cup {None})
             /\ allowed'[r] \in SUBSET Providers /\ steady'[r] \in SUBSET Providers
             /\ RequestInv(req[r], seen[r], allowed[r], steady[r])'
  <2>1. PICK q \in RequestStates : q = req[r]
    BY <1>1 DEF TypeOK
  <2>2. RequestInv(q, seen[r], allowed[r], steady[r])
    BY <2>1 DEF RoutingInv
  <2>3. /\ seen[r] \in SUBSET (Policies \cup {None})
        /\ allowed[r] \in SUBSET Providers /\ steady[r] \in SUBSET Providers
    BY <1>1 DEF TypeOK
  <2>4. CASE Selecting(q)
    <3>1. Ongoing(q, seen[r], allowed[r], steady[r]) /\ Progress(q, seen[r], allowed[r], steady[r])
      BY <2>2, <2>4 DEF RequestInv
    <3>2. q.space \in Spaces /\ seen[r] # {}
      BY <3>1 DEF Ongoing
    <3>3. PICK ss : ss = seen'[r]
      OBVIOUS
    <3>4. ss = seen[r] \cup {spacePolicy'[q.space]}
      BY <1>4, <2>1, <3>2, <3>3
    <3>5. ss \in SUBSET (Policies \cup {None}) /\ spacePolicy'[q.space] \in ss
      BY <2>3, <3>2, <3>4
    <3>6. PICK al : al = allowed'[r]
      OBVIOUS
    <3>7. /\ al = allowed[r] \cup UNION {Candidates(p)' : p \in ss}
      BY <1>4, <3>3, <3>6
    <3>8. PICK st : st = steady'[r]
      OBVIOUS
    <3>9. /\ st \subseteq steady[r] /\ st \subseteq Weighted'
          /\ \A p \in ss : st \subseteq Candidates(p)'
      BY <1>4, <3>3, <3>8
    <3>10. al \in SUBSET Providers /\ allowed[r] \subseteq al /\ \A p \in ss : Candidates(p)' \subseteq al
      BY <1>3, <2>3, <3>5, <3>7
    <3>11. req'[r] = q
      BY <2>1, <2>4
    <3>12. Ongoing(q, ss, al, st)'
      BY <3>1, <3>2, <3>5, <3>9, <3>10 DEF Ongoing
    <3>13. Progress(q, ss, al, st)
      <4>1. st \subseteq steady[r] /\ allowed[r] \subseteq al /\ seen[r] \subseteq ss
        BY <3>4, <3>9, <3>10
      <4>. QED BY <3>1, <4>1 DEF Progress
    <3>14. Progress(q, ss, al, st)'
      BY <3>13 DEF Progress, Listed
    <3>15. RequestInv(q, ss, al, st)'
      BY <2>4, <3>12, <3>14 DEF RequestInv, Selecting
    <3>16. RequestInv(req[r], seen[r], allowed[r], steady[r])'
      BY <3>3, <3>6, <3>8, <3>11, <3>15
    <3>. QED BY <2>3, <3>3, <3>5, <3>6, <3>8, <3>9, <3>10, <3>16
  <2>5. CASE ~Selecting(q)
    <3>1. seen[r] = {} /\ allowed[r] = {} /\ steady[r] = {}
      BY <2>2, <2>5 DEF RequestInv
    <3>2. seen'[r] = {} /\ steady'[r] = {}
      BY <1>4, <3>1
    <3>3. allowed'[r] = {}
      <4>1. {Candidates(p)' : p \in seen'[r]} = {}
        BY <3>2
      <4>2. allowed'[r] = allowed[r] \cup UNION {Candidates(p)' : p \in seen'[r]}
        BY <1>4
      <4>. QED BY <3>1, <4>1, <4>2
    <3>4. PICK x : x = req'[r]
      OBVIOUS
    <3>5. x = q \/ x = Idle
      BY <2>1, <3>4
    <3>6. RequestInv(x, {}, {}, {})'
      <4>1. ~Selecting(x) /\ (x.pc \in {"put_check", "put_store"} => x.policy \in Policies)
        BY <2>2, <2>5, <3>5, IdleType DEF RequestInv
      <4>. QED BY <4>1 DEF RequestInv, Selecting
    <3>. QED BY <3>2, <3>3, <3>4, <3>6
  <2>. QED BY <2>4, <2>5
<1>6. /\ seen' \in [Requests -> SUBSET (Policies \cup {None})]
      /\ allowed' \in [Requests -> SUBSET Providers]
      /\ steady' \in [Requests -> SUBSET Providers]
  BY <1>5 DEF Change
<1>7. TypeOK'
  BY <1>2, <1>6 DEF TypeOK
<1>. QED BY <1>5, <1>7 DEF RoutingInv

LEMMA PutStoreInv ==
    ASSUME RoutingInv, NEW r \in Requests, PutStore(r)
    PROVE  RoutingInv'
<1>1. TypeOK /\ RequestInv(req[r], seen[r], allowed[r], steady[r])
  BY DEF RoutingInv
<1>2. PICK q \in RequestStates : q = req[r]
  BY <1>1 DEF TypeOK
<1>3. q.pc = "put_store" /\ req' = [req EXCEPT ![r] = Idle] /\ UNCHANGED <<weight, spacePolicy>>
      /\ Change /\ policies' = [policies EXCEPT ![q.policy] = q.cands]
  BY <1>2 DEF PutStore, At, Become
<1>4. ~Selecting(q) /\ q.cands \in SUBSET Providers
  BY <1>3 DEF Selecting, RequestStates
<1>5. policies' \in [Policies -> SUBSET Providers]
  BY <1>1, <1>3, <1>4 DEF TypeOK
<1>6. /\ req' \in [Requests -> RequestStates]
      /\ \A u \in Requests : req'[u] = req[u] \/ (~Selecting(req[u]) /\ req'[u] = Idle)
  BY <1>1, <1>2, <1>3, <1>4, IdleType DEF TypeOK
<1>7. /\ weight' \in [Providers -> 0..MaxWeight \cup {None}]
      /\ spacePolicy' \in [Spaces -> Policies \cup {None}]
  BY <1>1, <1>3 DEF TypeOK
<1>. QED BY <1>3, <1>5, <1>6, <1>7, ChangeInv

LEMMA SpaceChangeInv ==
    ASSUME RoutingInv, NEW s \in Spaces,
           ClearSpacePolicy(s) \/ \E p \in Policies : UseSpacePolicy(s, p)
    PROVE  RoutingInv'
<1>1. TypeOK
  BY DEF RoutingInv
<1>2. UNCHANGED <<weight, policies, req>> /\ Change
  BY DEF ClearSpacePolicy, UseSpacePolicy
<1>3. spacePolicy' \in [Spaces -> Policies \cup {None}]
  BY <1>1 DEF TypeOK, ClearSpacePolicy, UseSpacePolicy
<1>4. /\ weight' \in [Providers -> 0..MaxWeight \cup {None}]
      /\ policies' \in [Policies -> SUBSET Providers]
      /\ req' \in [Requests -> RequestStates]
  BY <1>1, <1>2 DEF TypeOK
<1>5. \A r \in Requests : req'[r] = req[r]
  BY <1>2
<1>. QED BY <1>2, <1>3, <1>4, <1>5, ChangeInv

LEMMA ProviderChangeInv ==
    ASSUME RoutingInv, NEW p \in Providers,
           \/ AdminProviderRegister(p) \/ AdminProviderDeregister(p)
           \/ \E w \in 0..MaxWeight : AdminProviderWeightSet(p, w)
    PROVE  RoutingInv'
<1>1. TypeOK
  BY DEF RoutingInv
<1>2. UNCHANGED <<policies, spacePolicy, req>> /\ Change
  BY DEF AdminProviderRegister, AdminProviderDeregister, AdminProviderWeightSet
<1>3. weight' \in [Providers -> 0..MaxWeight \cup {None}]
  <2>1. 0 \in 0..MaxWeight
    BY RoutingAssumption
  <2>2. PICK w \in 0..MaxWeight \cup {None} : weight' = [weight EXCEPT ![p] = w]
    BY <2>1 DEF AdminProviderRegister, AdminProviderDeregister, AdminProviderWeightSet
  <2>. QED BY <1>1, <2>2 DEF TypeOK
<1>4. /\ spacePolicy' \in [Spaces -> Policies \cup {None}]
      /\ policies' \in [Policies -> SUBSET Providers]
      /\ req' \in [Requests -> RequestStates]
  BY <1>1, <1>2 DEF TypeOK
<1>5. \A r \in Requests : req'[r] = req[r]
  BY <1>2
<1>. QED BY <1>2, <1>3, <1>4, <1>5, ChangeInv

----------------------------------------------------------------------------
\* Results

\* The invariant holds throughout, whatever the operators and the owners of
\* policies change while selections run.
THEOREM Invariance == Spec => []RoutingInv
<1>1. ASSUME RoutingInv, [Next]_vars PROVE RoutingInv'
  <2>1. CASE UNCHANGED vars
    <3>1. UNCHANGED <<weight, policies, spacePolicy, req, seen, allowed, steady, changes>>
      BY <2>1 DEF vars, stores, history
    <3>. QED BY <1>1, <3>1 DEF RoutingInv, TypeOK, RequestInv, Ongoing, Progress, Candidates,
                 Weighted, Registered
  <2>2. ASSUME NEW r \in Requests, NEW s \in Spaces, SelectBegin(r, s) PROVE RoutingInv'
    <3>1. Start(r, s, {}) /\ UNCHANGED <<stores, changes>> /\ {} \in SUBSET Providers
      BY <2>2 DEF SelectBegin
    <3>. QED BY <1>1, <3>1, StartInv
  <2>3. ASSUME NEW r \in Requests,
               \/ ListPage(r) \/ GetSpacePolicy(r) \/ GetPolicy(r) \/ Choose(r)
               \/ AllocateFails(r) \/ AllocateEnds(r) \/ PutStore(r)
        PROVE  RoutingInv'
    BY <1>1, <2>3, ListPageInv, GetSpacePolicyInv, GetPolicyInv, ChooseInv, AllocateFailsInv,
       AllocateEndsInv, PutStoreInv
  <2>4. ASSUME NEW r \in Requests, NEW p \in Policies, NEW c \in SUBSET Providers, PutBegin(r, p, c)
        PROVE  RoutingInv'
    BY <1>1, <2>4, PutBeginInv
  <2>5. ASSUME NEW r \in Requests, NEW p \in Providers, PutCheck(r, p)
        PROVE  RoutingInv'
    BY <1>1, <2>5, PutCheckInv
  <2>6. ASSUME NEW s \in Spaces, ClearSpacePolicy(s) \/ \E p \in Policies : UseSpacePolicy(s, p)
        PROVE  RoutingInv'
    BY <1>1, <2>6, SpaceChangeInv
  <2>7. ASSUME NEW p \in Providers,
               \/ AdminProviderRegister(p) \/ AdminProviderDeregister(p)
               \/ \E w \in 0..MaxWeight : AdminProviderWeightSet(p, w)
        PROVE  RoutingInv'
    BY <1>1, <2>7, ProviderChangeInv
  <2>. QED BY <1>1, <2>1, <2>2, <2>3, <2>4, <2>5, <2>6, <2>7 DEF Next
<1>. QED BY <1>1, InitInv, PTL DEF Spec

\* Every variable keeps its type.
THEOREM TypeCorrect == Spec => []TypeOK
<1>1. RoutingInv => TypeOK
  BY DEF RoutingInv
<1>. QED BY <1>1, Invariance, PTL

\* SelectStorageProvider considers only the candidates of the policy: a chosen
\* provider was a candidate during the selection, and was not given up on.
THEOREM WithinPolicy == Spec => []RoutedWithinPolicy
<1>1. RoutingInv => RoutedWithinPolicy
  BY DEF RoutingInv, RoutedWithinPolicy, RequestInv, Progress, Selecting, At
<1>. QED BY <1>1, Invariance, PTL

\* ErrCandidateUnavailable is answered only if no provider with a weight was a
\* candidate all the time: the pages of listProviders lose none that stays.
THEOREM RefusalJustified == Spec => []UnavailableJustified
<1>1. RoutingInv => UnavailableJustified
  BY DEF RoutingInv, UnavailableJustified, RequestInv, Progress, Selecting, At
<1>. QED BY <1>1, Invariance, PTL
=============================================================================
