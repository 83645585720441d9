-------------------------- MODULE AgentStoreProofs --------------------------
(***************************************************************************)
(* Proofs about the agent store: its types, that concurrent writes cannot  *)
(* wait for each other in a circle, and that the Postgres store implements *)
(* the atomic map TaskIndex, for any sets of tasks, messages, writers and  *)
(* readers.                                                                *)
(***************************************************************************)
EXTENDS AgentStore, TLAPS, FiniteSetTheorems, WellFoundedInduction

\* What a write in progress carries: a message, and the first of its rows.
\* From the moment it locks rows, its payload is stored.
WriterOK(w) ==
    /\ writer[w].pc = "idle" => writer[w].held = {}
    /\ writer[w].pc # "idle" =>
          /\ writer[w].msg \in Msgs
          /\ writer[w].held \subseteq KeysOf(writer[w].msg)
          /\ \A k \in writer[w].held : \A l \in KeysOf(writer[w].msg) \ writer[w].held :
                Before(k, l)
    /\ writer[w].pc = "put" => writer[w].held = {}
    /\ writer[w].pc = "lock" => writer[w].msg \in objects

WriterInv == \A w \in Writers : WriterOK(w)

\* What the index says: a row leads to a stored message that has the row's
\* entry, and none of the message's entries is without a row.
IndexInv ==
    \A k \in Keys : \A i \in DOMAIN index[k] :
        /\ index[k][i] \in objects
        /\ k \in KeysOf(index[k][i])
        /\ \A l \in KeysOf(index[k][i]) : index[l] # <<>>

\* A lookup that has its rows fetches payloads that are stored.
ReaderInv ==
    \A r \in Readers :
        /\ reader[r].need \subseteq objects
        /\ reader[r].status # "missing"

\* Postgres keeps one row for a key.
SingleRow == backend = "postgres" => \A k \in Keys : Len(index[k]) <= 1

IInv ==
    /\ TypeOK
    /\ WriterInv
    /\ IndexInv
    /\ ReaderInv
    /\ SingleRow

----------------------------------------------------------------------------

\* The entries of a message are keys.
LEMMA KeysOfType ==
    ASSUME NEW m \in Msgs
    PROVE  KeysOf(m) \subseteq Keys
BY StoreAssumption DEF KeysOf, Keys

\* A row is empty or leads to the first message of its list.
LEMMA RowType ==
    ASSUME TypeOK, NEW k \in Keys
    PROVE  /\ index[k] = <<>> => Row(k) = NoMsg
           /\ index[k] # <<>> => Row(k) = index[k][1] /\ 1 \in DOMAIN index[k] /\ Row(k) \in Msgs
           /\ Row(k) = NoMsg <=> index[k] = <<>>
<1>1. index[k] \in Seq(Msgs)
  BY DEF TypeOK
<1>2. index[k] # <<>> => index[k][1] \in Msgs /\ 1 \in DOMAIN index[k]
  BY <1>1
<1> QED BY <1>2, StoreAssumption DEF Row

\* An answer names keys that were asked for and messages that rows lead to.
LEMMA AnswerType ==
    ASSUME TypeOK, NEW ks \in SUBSET Keys, NEW a \in Answers(ks)
    PROVE  a \subseteq Keys \X Msgs
<1> DEFINE fetched == {Row(k) : k \in ks} \ {NoMsg}
           found == {k \in ks : \E m \in fetched : k \in KeysOf(m)}
<1>1. PICK f \in [found -> fetched] : a = {<<k, f[k]>> : k \in found}
  BY DEF Answers
<1>2. fetched \subseteq Msgs
  BY RowType
<1> QED BY <1>1, <1>2

\* The messages of one page are messages of rows of the task.
LEMMA ListedType ==
    ASSUME TypeOK, NEW t \in Tasks, NEW m \in Listed(t)
    PROVE  \E l \in {"in", "out"} : \E i \in DOMAIN index[<<t, l>>] : m = index[<<t, l>>][i]
<1>1. PICK e \in Entries(t) : m = MsgOf(t, e)
  BY DEF Listed
<1>2. PICK l \in {"in", "out"} : e \in {l} \X DOMAIN index[<<t, l>>]
  BY <1>1 DEF Entries
<1>3. e[1] = l /\ e[2] \in DOMAIN index[<<t, l>>]
  BY <1>2
<1> QED BY <1>1, <1>3 DEF MsgOf

\* Under the invariant every message of a page is stored.
LEMMA ListedStored ==
    ASSUME TypeOK, IndexInv, NEW t \in Tasks
    PROVE  Listed(t) \subseteq objects /\ Listed(t) \subseteq Msgs
<1> SUFFICES ASSUME NEW m \in Listed(t) PROVE m \in objects
  BY DEF TypeOK
<1>1. PICK l \in {"in", "out"} : \E i \in DOMAIN index[<<t, l>>] : m = index[<<t, l>>][i]
  BY ListedType
<1>2. <<t, l>> \in Keys
  BY DEF Keys
<1> QED BY <1>1, <1>2 DEF IndexInv

\* Under the invariant every message a row leads to is stored.
LEMMA RowStored ==
    ASSUME TypeOK, IndexInv, NEW k \in Keys, Row(k) # NoMsg
    PROVE  /\ Row(k) \in objects
           /\ k \in KeysOf(Row(k))
           /\ \A l \in KeysOf(Row(k)) : l \in Keys /\ Row(l) # NoMsg
<1>1. index[k] # <<>> /\ Row(k) = index[k][1] /\ 1 \in DOMAIN index[k] /\ Row(k) \in Msgs
  BY RowType
<1>2. Row(k) \in objects /\ k \in KeysOf(Row(k)) /\ \A l \in KeysOf(Row(k)) : index[l] # <<>>
  BY <1>1 DEF IndexInv
<1> QED BY <1>1, <1>2, KeysOfType, RowType

----------------------------------------------------------------------------
\* The invariant holds at first and every action keeps it.

LEMMA InitInv == Init => IInv
<1> SUFFICES ASSUME Init PROVE IInv
  OBVIOUS
<1>1. TypeOK
  BY StoreAssumption DEF Init, TypeOK, IdleWriter, IdleReader
<1>2. WriterInv
  BY DEF Init, WriterInv, WriterOK, IdleWriter
<1>3. IndexInv /\ SingleRow
  BY DEF Init, IndexInv, SingleRow
<1>4. ReaderInv
  BY DEF Init, ReaderInv, IdleReader
<1> QED BY <1>1, <1>2, <1>3, <1>4 DEF IInv

LEMMA WriteBeginInv ==
    ASSUME IInv, NEW w \in Writers, NEW m \in Msgs, WriteBegin(w, m)
    PROVE  IInv'
<1> USE DEF WriteBegin
<1>1. TypeOK'
  BY DEF IInv, TypeOK
<1>2. WriterInv'
  <2> SUFFICES ASSUME NEW v \in Writers PROVE WriterOK(v)'
    BY DEF WriterInv
  <2> QED BY DEF IInv, TypeOK, WriterInv, WriterOK, KeysOf
<1>3. IndexInv' /\ ReaderInv' /\ SingleRow'
  BY DEF IInv, IndexInv, ReaderInv, SingleRow, KeysOf
<1> QED BY <1>1, <1>2, <1>3 DEF IInv

LEMMA WritePutInv ==
    ASSUME IInv, NEW w \in Writers, WritePut(w)
    PROVE  IInv'
<1> USE DEF WritePut
<1>1. TypeOK'
  <2>1. writer[w].msg \in Msgs
    BY DEF IInv, WriterInv, WriterOK
  <2> QED BY <2>1 DEF IInv, TypeOK
<1>2. WriterInv'
  <2> SUFFICES ASSUME NEW v \in Writers PROVE WriterOK(v)'
    BY DEF WriterInv
  <2> QED BY DEF IInv, TypeOK, WriterInv, WriterOK, KeysOf
<1>3. IndexInv' /\ ReaderInv' /\ SingleRow'
  BY DEF IInv, IndexInv, ReaderInv, SingleRow, KeysOf
<1> QED BY <1>1, <1>2, <1>3 DEF IInv

LEMMA LockRowInv ==
    ASSUME IInv, NEW w \in Writers, NEW k \in Keys, LockRow(w, k)
    PROVE  IInv'
<1> USE DEF LockRow
<1>1. TypeOK'
  BY DEF IInv, TypeOK
<1>2. WriterInv'
  <2> SUFFICES ASSUME NEW v \in Writers PROVE WriterOK(v)'
    BY DEF WriterInv
  <2>1. CASE v = w
    <3>1. /\ writer'[w].pc = "lock" /\ writer'[w].msg = writer[w].msg
          /\ writer'[w].held = writer[w].held \cup {k}
      BY DEF IInv, TypeOK
    <3>2. /\ k \in KeysOf(writer[w].msg)
          /\ \A l \in KeysOf(writer[w].msg) \ (writer[w].held \cup {k}) : Before(k, l)
      BY DEF Wants
    <3> QED BY <2>1, <3>1, <3>2 DEF IInv, WriterInv, WriterOK, KeysOf
  <2>2. CASE v # w
    BY <2>2 DEF IInv, TypeOK, WriterInv, WriterOK, KeysOf
  <2> QED BY <2>1, <2>2
<1>3. IndexInv' /\ ReaderInv' /\ SingleRow'
  BY DEF IInv, IndexInv, ReaderInv, SingleRow, KeysOf
<1> QED BY <1>1, <1>2, <1>3 DEF IInv

LEMMA WriteFailInv ==
    ASSUME IInv, NEW w \in Writers, WriteFail(w)
    PROVE  IInv'
<1> USE DEF WriteFail
<1>1. objects \subseteq objects' /\ objects' \subseteq Msgs
  BY DEF IInv, TypeOK, WriterInv, WriterOK
<1>2. TypeOK'
  BY <1>1, StoreAssumption DEF IInv, TypeOK, IdleWriter
<1>3. WriterInv'
  <2> SUFFICES ASSUME NEW v \in Writers PROVE WriterOK(v)'
    BY DEF WriterInv
  <2> QED BY <1>1 DEF IInv, TypeOK, WriterInv, WriterOK, KeysOf, IdleWriter
<1>4. IndexInv' /\ ReaderInv' /\ SingleRow'
  BY <1>1 DEF IInv, IndexInv, ReaderInv, SingleRow, KeysOf
<1> QED BY <1>2, <1>3, <1>4 DEF IInv

LEMMA CommitInv ==
    ASSUME IInv, NEW w \in Writers, Commit(w)
    PROVE  IInv'
<1> USE DEF Commit
<1> DEFINE m == writer[w].msg
<1>1. m \in Msgs /\ m \in objects /\ KeysOf(m) \subseteq Keys
  BY KeysOfType DEF IInv, WriterInv, WriterOK
<1>2. \A k \in Keys : index'[k] = IF k \in KeysOf(m) THEN <<m>> ELSE index[k]
  OBVIOUS
<1>3. TypeOK'
  BY <1>1, <1>2, StoreAssumption DEF IInv, TypeOK, IdleWriter
<1>4. WriterInv'
  <2> SUFFICES ASSUME NEW v \in Writers PROVE WriterOK(v)'
    BY DEF WriterInv
  <2> QED BY DEF IInv, TypeOK, WriterInv, WriterOK, KeysOf, IdleWriter
<1>5. \A l \in Keys : index[l] # <<>> => index'[l] # <<>>
  BY <1>2
<1>6. IndexInv'
  <2> SUFFICES ASSUME NEW k \in Keys, NEW i \in DOMAIN index'[k]
               PROVE  /\ index'[k][i] \in objects'
                      /\ k \in KeysOf(index'[k][i])
                      /\ \A l \in KeysOf(index'[k][i]) : index'[l] # <<>>
    BY DEF IndexInv, KeysOf
  <2>1. CASE k \in KeysOf(m)
    <3>1. index'[k] = <<m>> /\ i = 1
      BY <2>1, <1>2
    <3>2. index'[k][i] = m
      BY <3>1
    <3> QED BY <2>1, <3>2, <1>1, <1>2
  <2>2. CASE k \notin KeysOf(m)
    <3>1. index'[k] = index[k]
      BY <2>2, <1>2
    <3>2. index[k][i] \in Msgs
      BY <3>1 DEF IInv, TypeOK
    <3> QED BY <3>1, <3>2, <1>5, KeysOfType DEF IInv, IndexInv
  <2> QED BY <2>1, <2>2
<1>7. ReaderInv'
  BY DEF IInv, ReaderInv
<1>8. SingleRow'
  BY <1>2 DEF IInv, SingleRow
<1> QED BY <1>3, <1>4, <1>6, <1>7, <1>8 DEF IInv

LEMMA MemoryWriteInv ==
    ASSUME IInv, NEW m \in Msgs, MemoryWrite(m)
    PROVE  IInv'
<1> USE DEF MemoryWrite
<1>1. KeysOf(m) \subseteq Keys
  BY KeysOfType
<1>2. \A k \in Keys : index[k] \in Seq(Msgs)
  BY DEF IInv, TypeOK
<1>3. \A k \in Keys : index'[k] = IF k \in KeysOf(m) THEN Append(index[k], m) ELSE index[k]
  OBVIOUS
<1>4. TypeOK'
  BY <1>1, <1>2, <1>3 DEF IInv, TypeOK
<1>5. WriterInv'
  <2> SUFFICES ASSUME NEW v \in Writers PROVE WriterOK(v)'
    BY DEF WriterInv
  <2> QED BY DEF IInv, TypeOK, WriterInv, WriterOK, KeysOf
<1>6. \A l \in Keys : (index[l] # <<>> \/ l \in KeysOf(m)) => index'[l] # <<>>
  BY <1>2, <1>3
<1>7. IndexInv'
  <2> SUFFICES ASSUME NEW k \in Keys, NEW i \in DOMAIN index'[k]
               PROVE  /\ index'[k][i] \in objects'
                      /\ k \in KeysOf(index'[k][i])
                      /\ \A l \in KeysOf(index'[k][i]) : index'[l] # <<>>
    BY DEF IndexInv, KeysOf
  <2>1. CASE i \in DOMAIN index[k]
    <3>1. index'[k][i] = index[k][i] /\ index[k][i] \in Msgs
      BY <2>1, <1>2, <1>3
    <3> QED BY <2>1, <3>1, <1>6, KeysOfType DEF IInv, IndexInv
  <2>2. CASE i \notin DOMAIN index[k]
    <3>1. k \in KeysOf(m) /\ index'[k][i] = m
      BY <2>2, <1>2, <1>3
    <3> QED BY <3>1, <1>1, <1>6
  <2> QED BY <2>1, <2>2
<1>8. ReaderInv'
  BY DEF IInv, ReaderInv
<1>9. SingleRow'
  BY DEF IInv, SingleRow
<1> QED BY <1>4, <1>5, <1>7, <1>8, <1>9 DEF IInv

\* A reader that learns rows of stored messages.
LEMMA AnsweredInv ==
    ASSUME IInv, NEW r \in Readers, NEW need \in SUBSET objects,
           NEW found \in SUBSET (Keys \X Msgs), Answered(r, need, found)
    PROVE  IInv'
<1> USE DEF Answered
<1>1. TypeOK'
  <2>1. need \subseteq Msgs
    BY DEF IInv, TypeOK
  <2> QED BY <2>1 DEF IInv, TypeOK
<1>2. WriterInv' /\ IndexInv' /\ SingleRow'
  BY DEF IInv, WriterInv, WriterOK, IndexInv, SingleRow, KeysOf, Before
<1>3. ReaderInv'
  BY DEF IInv, TypeOK, ReaderInv
<1> QED BY <1>1, <1>2, <1>3 DEF IInv

LEMMA GetByTaskInv ==
    ASSUME IInv, NEW r \in Readers, NEW k \in Keys, GetByTask(r, k)
    PROVE  IInv'
<1>1. PICK a \in Answers({k}) : Answered(r, {Row(k)} \ {NoMsg}, a)
  BY DEF GetByTask
<1>2. {Row(k)} \ {NoMsg} \subseteq objects
  BY RowStored DEF IInv
<1>3. a \subseteq Keys \X Msgs
  BY AnswerType DEF IInv
<1> QED BY <1>1, <1>2, <1>3, AnsweredInv

LEMMA GetInvocationsInv ==
    ASSUME IInv, NEW r \in Readers, NEW ts \in SUBSET Tasks, GetInvocations(r, ts)
    PROVE  IInv'
<1> DEFINE ks == {<<t, "in">> : t \in ts}
<1>1. PICK a \in Answers(ks) : Answered(r, {Row(k) : k \in ks} \ {NoMsg}, a)
  BY DEF GetInvocations
<1>2. ks \subseteq Keys
  BY DEF Keys
<1>3. {Row(k) : k \in ks} \ {NoMsg} \subseteq objects
  BY <1>2, RowStored DEF IInv
<1>4. a \subseteq Keys \X Msgs
  BY <1>2, AnswerType DEF IInv
<1> QED BY <1>1, <1>3, <1>4, AnsweredInv

LEMMA HandleReceiptRequestInv ==
    ASSUME IInv, NEW r \in Readers, NEW t \in Tasks, HandleReceiptRequest(r, t)
    PROVE  IInv'
<1>1. Answered(r, Listed(t), Serves(t, Listed(t)))
  BY DEF HandleReceiptRequest
<1>2. Listed(t) \subseteq objects /\ Listed(t) \subseteq Msgs
  BY ListedStored DEF IInv
<1>3. Serves(t, Listed(t)) \subseteq Keys \X Msgs
  BY <1>2 DEF Serves, Keys
<1> QED BY <1>1, <1>2, <1>3, AnsweredInv

LEMMA FetchInv ==
    ASSUME IInv, NEW r \in Readers, Fetch(r)
    PROVE  IInv'
<1>1. /\ reader' = [reader EXCEPT ![r] = [pc |-> "idle", need |-> {},
                                          status |-> reader[r].status,
                                          found |-> reader[r].found]]
      /\ UNCHANGED <<backend, objects, index, writer, writes>>
  <2>1. reader[r].need \subseteq objects
    BY DEF IInv, ReaderInv
  <2> QED BY <2>1 DEF Fetch
<1>2. TypeOK'
  BY <1>1 DEF IInv, TypeOK
<1>3. WriterInv' /\ IndexInv' /\ SingleRow'
  BY <1>1 DEF IInv, WriterInv, WriterOK, IndexInv, SingleRow, KeysOf, Before
<1>4. ReaderInv'
  BY <1>1 DEF IInv, TypeOK, ReaderInv
<1> QED BY <1>2, <1>3, <1>4 DEF IInv

LEMMA ReadFailInv ==
    ASSUME IInv, NEW r \in Readers, ReadFail(r)
    PROVE  IInv'
<1> USE DEF ReadFail
<1>1. TypeOK'
  BY DEF IInv, TypeOK, IdleReader
<1>2. WriterInv' /\ IndexInv' /\ SingleRow'
  BY DEF IInv, WriterInv, WriterOK, IndexInv, SingleRow, KeysOf, Before
<1>3. ReaderInv'
  BY DEF IInv, TypeOK, ReaderInv, IdleReader
<1> QED BY <1>1, <1>2, <1>3 DEF IInv

LEMMA NextInv == IInv /\ [Next]_vars => IInv'
<1> SUFFICES ASSUME IInv, [Next]_vars PROVE IInv'
  OBVIOUS
<1>1. ASSUME NEW w \in Writers, NEW m \in Msgs, WriteBegin(w, m) PROVE IInv'
  BY <1>1, WriteBeginInv
<1>2. ASSUME NEW w \in Writers, WriterStep(w) PROVE IInv'
  BY <1>2, WritePutInv, LockRowInv, CommitInv DEF WriterStep
<1>3. ASSUME NEW w \in Writers, WriteFail(w) PROVE IInv'
  BY <1>3, WriteFailInv
<1>4. ASSUME NEW m \in Msgs, MemoryWrite(m) PROVE IInv'
  BY <1>4, MemoryWriteInv
<1>5. ASSUME NEW r \in Readers, ReaderBegins(r) PROVE IInv'
  <2>1. \A t \in Tasks : <<t, "in">> \in Keys /\ <<t, "out">> \in Keys
    BY DEF Keys
  <2> QED BY <1>5, <2>1, GetByTaskInv, GetInvocationsInv, HandleReceiptRequestInv
          DEF ReaderBegins, GetInvocation, GetReceipt
<1>6. ASSUME NEW r \in Readers, Fetch(r) \/ ReadFail(r) PROVE IInv'
  BY <1>6, FetchInv, ReadFailInv
<1>7. CASE UNCHANGED vars
  BY <1>7 DEF vars, IInv, TypeOK, WriterInv, WriterOK, IndexInv, ReaderInv, SingleRow, KeysOf, Before
<1> QED BY <1>1, <1>2, <1>3, <1>4, <1>5, <1>6, <1>7 DEF Next

----------------------------------------------------------------------------

\* The inductive invariant is an invariant of the specification: whatever the
\* writers and readers of the store are doing, an index row leads to a stored
\* payload that has the row's entry, and a locking write has its first rows.
THEOREM Invariance == Spec => []IInv
BY InitInv, NextInv, PTL DEF Spec

\* The store's variables keep their types for every instance.
THEOREM TypeCorrect == Spec => []TypeOK
<1>1. IInv => TypeOK
  BY DEF IInv
<1> QED BY <1>1, Invariance, PTL

\* Of two waiting writes, the one that is waited for wants a later row.
LEMMA WaitsAscend ==
    ASSUME WriterInv, NEW v \in Writers, NEW w \in Writers, NEW k \in Keys, NEW l \in Keys,
           Wants(v, k), k \in writer[w].held, Wants(w, l), writer[w].pc = "lock"
    PROVE  Before(k, l)
BY DEF WriterInv, WriterOK, Wants

\* A set of rows with tasks up to b has a last one.
LEMMA LastRow ==
    ASSUME NEW b \in Nat, \A t \in Tasks : t <= b, NEW S \in SUBSET Keys, S # {}
    PROVE  \E k \in S : \A l \in S : ~ Before(k, l)
<1> DEFINE rank(k) == 2 * (b - k[1]) + (IF k[2] = "in" THEN 1 ELSE 0)
           R == OpToRel(<, Nat)
           T == {rank(k) : k \in S}
<1>0. \A k \in Keys : k[1] \in Nat /\ k[1] <= b /\ k[2] \in {"in", "out"}
  BY StoreAssumption DEF Keys
<1>1. \A k \in Keys : rank(k) \in Nat
  BY <1>0
<1>2. T \subseteq Nat /\ T # {}
  BY <1>1
<1>3. PICK x \in T : \A y \in T : <<y, x>> \notin R
  <2> HIDE DEF T, R
  <2> QED BY <1>2, NatLessThanWellFounded, WFMin DEF R
<1>4. \A y \in T : ~ (y < x)
  BY <1>2, <1>3 DEF OpToRel
<1>5. PICK k \in S : x = rank(k)
  OBVIOUS
<1>6. ASSUME NEW l \in S, Before(k, l) PROVE FALSE
  <2>1. rank(l) < rank(k)
    BY <1>0, <1>6 DEF Before
  <2> QED BY <2>1, <1>4, <1>5
<1> QED BY <1>6

\* Concurrent writes never wait for each other in a circle, for any number of
\* writers and any messages, as long as there is a last task.  The argument:
\* the row a waiting write wants is before the row wanted by the write it
\* waits for, so the write that wants the last of the wanted rows waits for
\* nobody who waits.
THEOREM WaitsAcyclic ==
    ASSUME NEW b \in Nat, \A t \in Tasks : t <= b
    PROVE  Spec => []NoWaitCycle
<1>1. IInv => NoWaitCycle
  <2> SUFFICES ASSUME IInv, NEW ws \in SUBSET Writers, ws # {},
                      \A v \in ws : \E w \in ws : WaitsFor(v, w)
               PROVE  FALSE
    BY DEF NoWaitCycle
  <2> DEFINE S == {k \in Keys : \E v \in ws : Wants(v, k)}
  <2>1. S # {}
    BY DEF WaitsFor
  <2>2. PICK k \in S : \A l \in S : ~ Before(k, l)
    <3> HIDE DEF S
    <3>1. S \subseteq Keys
      BY DEF S
    <3> QED BY <2>1, <3>1, LastRow
  <2>3. PICK v \in ws : Wants(v, k)
    OBVIOUS
  <2>4. PICK w \in ws : WaitsFor(v, w)
    OBVIOUS
  <2>5. PICK n \in Keys : Wants(v, n) /\ n \in writer[w].held
    BY <2>4 DEF WaitsFor
  <2>6. PICK u \in ws : WaitsFor(w, u)
    OBVIOUS
  <2>7. PICK l \in Keys : Wants(w, l) /\ writer[w].pc = "lock"
    BY <2>6 DEF WaitsFor
  <2>8. Before(n, l) /\ l \in S
    BY <2>5, <2>7, WaitsAscend DEF IInv
  <2>9. n = k
    <3>1. n = k \/ (Before(n, k) /\ Before(k, n))
      BY <2>3, <2>5 DEF Wants
    <3>2. n[1] \in Nat /\ k[1] \in Nat
      BY StoreAssumption DEF Keys
    <3> QED BY <3>1, <3>2 DEF Before
  <2> QED BY <2>2, <2>8, <2>9
<1> QED BY <1>1, Invariance, PTL

----------------------------------------------------------------------------
\* Refinement: the Postgres store is the atomic map.

\* What callers see of the store: the map and the answers.
KV == [k \in Keys |-> Row(k)]

Ans == [r \in Readers |-> [status |-> reader[r].status, found |-> reader[r].found]]

\* The Postgres store.
PgSpec == Init /\ backend = "postgres" /\ [][Next]_vars

PgInv == IInv /\ backend = "postgres"

LEMMA SeenStutters ==
    ASSUME backend = "postgres", UNCHANGED <<backend, KV, Ans>>
    PROVE  [Promise!Next]_<<IF backend = "memory" THEN "first" ELSE "last",
                            [k \in Keys |-> Row(k)],
                            [r \in Readers |-> [status |-> reader[r].status,
                                                found |-> reader[r].found]]>>
BY DEF KV, Ans

\* A step that leaves the index alone leaves the map alone.
LEMMA SameKV ==
    ASSUME UNCHANGED index
    PROVE  KV' = KV
BY DEF KV, Row

\* A step that leaves the readers alone leaves their answers alone.
LEMMA SameAns ==
    ASSUME UNCHANGED reader
    PROVE  Ans' = Ans
BY DEF Ans

\* A reader that learns its rows answers.
LEMMA AnsweredAns ==
    ASSUME TypeOK, NEW r \in Readers, NEW need, NEW found, Answered(r, need, found)
    PROVE  /\ Ans' = [Ans EXCEPT ![r] = [status |-> "ok", found |-> found]]
           /\ KV' = KV
           /\ backend' = backend
<1>1. \A q \in Readers : q # r => reader'[q] = reader[q]
  BY DEF TypeOK, Answered
<1>2. reader'[r].status = "ok" /\ reader'[r].found = found
  BY DEF TypeOK, Answered
<1>3. KV' = KV /\ backend' = backend
  BY SameKV DEF Answered
<1> QED BY <1>1, <1>2, <1>3 DEF Ans

LEMMA RefInit == Init /\ backend = "postgres" => Promise!Init
BY DEF Init, Promise!Init, Promise!Answer, Promise!Keys, Keys, Row, IdleReader

LEMMA RefCommit ==
    ASSUME PgInv, NEW w \in Writers, Commit(w)
    PROVE  Promise!Put(writer[w].msg)
<1> DEFINE m == writer[w].msg
<1>1. writer[w].held = KeysOf(m)
  BY DEF Commit
<1>2. ASSUME NEW k \in Keys
      PROVE  Row(k)' = IF k \in KeysOf(m) THEN m ELSE Row(k)
  <2>1. CASE k \in KeysOf(m)
    <3>1. index'[k] = <<m>>
      BY <1>1, <2>1 DEF Commit
    <3>2. index'[k] # <<>> /\ index'[k][1] = m
      BY <3>1
    <3> QED BY <2>1, <3>2 DEF Row
  <2>2. CASE k \notin KeysOf(m)
    BY <1>1, <2>2 DEF Commit, Row
  <2> QED BY <2>1, <2>2
<1>3. UNCHANGED <<backend, reader>>
  BY DEF Commit
<1> QED BY <1>2, <1>3, SameAns DEF PgInv, Promise!Put, Promise!KeysOf, Promise!Keys, KeysOf, Keys, Ans

\* The keys of an answer are the bound ones of those asked for.
LEMMA RefLookup ==
    ASSUME PgInv, NEW r \in Readers, NEW ks \in SUBSET Keys, NEW need,
           NEW a \in Answers(ks), Answered(r, need, a)
    PROVE  Promise!Lookup(r, ks)
<1> DEFINE fetched == {Row(k) : k \in ks} \ {NoMsg}
           found == {k \in ks : \E m \in fetched : k \in KeysOf(m)}
           bound == {k \in ks : KV[k] # NoMsg}
<1>1. PICK f \in [found -> fetched] : /\ \A k \in found : k \in KeysOf(f[k])
                                      /\ a = {<<k, f[k]>> : k \in found}
  BY DEF Answers
<1>2. \A k \in ks : KV[k] = Row(k)
  BY DEF KV
<1>3. found = bound
  BY <1>2, RowStored DEF PgInv, IInv
<1>4. fetched = {KV[k] : k \in bound}
  BY <1>2
<1>5. Ans' = [Ans EXCEPT ![r] = [status |-> "ok", found |-> a]] /\ KV' = KV /\ backend' = backend
  BY AnsweredAns DEF PgInv, IInv
<1>6. f \in [bound -> {KV[k] : k \in bound}]
  BY <1>3, <1>4
<1> HIDE DEF fetched, found, bound
<1>7. /\ \A k \in bound : k \in KeysOf(f[k])
      /\ Ans' = [Ans EXCEPT ![r] = [status |-> "ok", found |-> {<<k, f[k]>> : k \in bound}]]
  BY <1>1, <1>3, <1>5
<1> QED BY <1>5, <1>6, <1>7
        DEF PgInv, bound, KV, Ans, Promise!Lookup, Promise!Bound, Promise!Answer, Promise!KeysOf, KeysOf

\* Postgres lists at most two messages of a task, so none is cut off.
LEMMA FewEntries ==
    ASSUME PgInv, NEW t \in Tasks, NEW e
    PROVE  Cardinality(Ahead(t, e)) < ServeLimit
<1> DEFINE P == {<<"in", 1>>} \cup {<<"out", 1>>}
<1>1. Entries(t) \subseteq P
  <2> SUFFICES ASSUME NEW l \in {"in", "out"}, NEW i \in DOMAIN index[<<t, l>>]
               PROVE  i = 1
    BY DEF Entries
  <2>1. <<t, l>> \in Keys
    BY DEF Keys
  <2>2. index[<<t, l>>] \in Seq(Msgs) /\ Len(index[<<t, l>>]) <= 1
    BY <2>1 DEF PgInv, IInv, TypeOK, SingleRow
  <2> QED BY <2>2
<1>2. IsFiniteSet(P) /\ Cardinality(P) <= 2
  <2>1. IsFiniteSet({<<"in", 1>>}) /\ Cardinality({<<"in", 1>>}) = 1
    BY FS_Singleton
  <2> DEFINE A == {<<"in", 1>>}
             x == <<"out", 1>>
  <2> HIDE DEF A, x
  <2>2. /\ IsFiniteSet(A \cup {x})
        /\ Cardinality(A \cup {x}) = IF x \in A THEN Cardinality(A) ELSE Cardinality(A) + 1
    BY <2>1, FS_AddElement DEF A
  <2> QED BY <2>1, <2>2 DEF A, x
<1>3. Ahead(t, e) \in SUBSET P
  BY <1>1 DEF Ahead
<1>4. Cardinality(Ahead(t, e)) <= Cardinality(P) /\ IsFiniteSet(Ahead(t, e))
  <2> HIDE DEF P
  <2> QED BY <1>2, <1>3, FS_Subset
<1>5. Cardinality(P) \in Nat /\ Cardinality(Ahead(t, e)) \in Nat
  <2> HIDE DEF P
  <2> QED BY <1>2, <1>4, FS_CardinalityType
<1> QED BY <1>2, <1>4, <1>5, StoreAssumption

LEMMA RefServe ==
    ASSUME PgInv, NEW r \in Readers, NEW t \in Tasks, HandleReceiptRequest(r, t)
    PROVE  Promise!Serve(r, t)
<1> DEFINE ms == {n \in Listed(t) : t \in Rcpts[n]}
           key == <<t, "out">>
<1>0. key \in Keys
  BY DEF Keys
<1>1. ms \subseteq {m \in Msgs : t \in Rcpts[m]}
  BY ListedStored DEF PgInv, IInv
<1>2. ASSUME Row(key) # NoMsg PROVE ms # {}
  <2>1. /\ index[key] # <<>> /\ 1 \in DOMAIN index[key]
        /\ Row(key) = index[key][1] /\ Row(key) \in Msgs
    BY <1>0, <1>2, RowType DEF PgInv, IInv
  <2>2. t \in Rcpts[Row(key)]
    <3>1. key \in KeysOf(Row(key))
      BY <1>0, <1>2, RowStored DEF PgInv, IInv
    <3> QED BY <3>1 DEF KeysOf
  <2>3. <<"out", 1>> \in Entries(t)
    BY <2>1 DEF Entries
  <2>4. MsgOf(t, <<"out", 1>>) = Row(key)
    BY <2>1 DEF MsgOf
  <2>5. Row(key) \in Listed(t)
    BY <2>3, <2>4, FewEntries DEF Listed
  <2> QED BY <2>2, <2>5
<1>3. ASSUME NEW n \in ms PROVE Row(key) # NoMsg
  <2>1. PICK l \in {"in", "out"} : \E i \in DOMAIN index[<<t, l>>] : n = index[<<t, l>>][i]
    BY ListedType DEF PgInv, IInv
  <2>2. <<t, l>> \in Keys
    BY DEF Keys
  <2>3. \A k \in KeysOf(n) : index[k] # <<>>
    BY <2>1, <2>2 DEF PgInv, IInv, IndexInv
  <2>4. key \in KeysOf(n)
    BY DEF KeysOf
  <2> QED BY <1>0, <2>3, <2>4, RowType DEF PgInv, IInv
<1>4. (ms = {}) <=> (KV[key] = NoMsg)
  BY <1>0, <1>2, <1>3 DEF KV
<1>5. /\ Ans' = [Ans EXCEPT ![r] = [status |-> "ok", found |-> {<<key, m>> : m \in ms}]]
      /\ KV' = KV
      /\ backend' = backend
  BY AnsweredAns DEF PgInv, IInv, HandleReceiptRequest, Serves
<1> HIDE DEF ms
<1> QED BY <1>1, <1>4, <1>5 DEF KV, Ans, Promise!Serve, Promise!Answer

LEMMA RefUnavailable ==
    ASSUME PgInv, NEW r \in Readers, ReadFail(r)
    PROVE  Promise!Unavailable(r)
<1>1. KV' = KV /\ backend' = backend
  BY SameKV DEF ReadFail
<1>2. Ans' = [Ans EXCEPT ![r] = [status |-> "unavailable", found |-> {}]]
  BY DEF ReadFail, PgInv, IInv, TypeOK, Ans, IdleReader
<1> QED BY <1>1, <1>2 DEF KV, Ans, Promise!Unavailable, Promise!Answer

\* Fetching the payloads changes nothing of the answer.
LEMMA RefFetch ==
    ASSUME PgInv, NEW r \in Readers, Fetch(r)
    PROVE  UNCHANGED <<backend, KV, Ans>>
<1>1. reader[r].need \subseteq objects
  BY DEF PgInv, IInv, ReaderInv
<1>2. \A q \in Readers : reader'[q].status = reader[q].status /\ reader'[q].found = reader[q].found
  BY <1>1 DEF Fetch, PgInv, IInv, TypeOK
<1>3. UNCHANGED <<backend, KV>>
  BY SameKV DEF Fetch
<1> QED BY <1>2, <1>3 DEF Ans

\* Every step of the store is a step of the map or changes nothing of it.
LEMMA RefNext ==
    ASSUME PgInv, [Next]_vars
    PROVE  Promise!Next \/ UNCHANGED <<backend, KV, Ans>>
<1>1. ASSUME NEW w \in Writers, NEW m \in Msgs, WriteBegin(w, m)
      PROVE  UNCHANGED <<backend, KV, Ans>>
  BY <1>1, SameKV, SameAns DEF WriteBegin
<1>2. ASSUME NEW w \in Writers, WritePut(w) \/ WriteFail(w) \/ \E k \in Keys : LockRow(w, k)
      PROVE  UNCHANGED <<backend, KV, Ans>>
  BY <1>2, SameKV, SameAns DEF WritePut, WriteFail, LockRow
<1>3. ASSUME NEW w \in Writers, Commit(w)
      PROVE  Promise!Next
  <2>1. writer[w].msg \in Msgs
    BY <1>3 DEF Commit, PgInv, IInv, WriterInv, WriterOK
  <2> QED BY <1>3, <2>1, RefCommit DEF Promise!Next
<1>4. ASSUME NEW m \in Msgs, MemoryWrite(m)
      PROVE  FALSE
  BY <1>4 DEF MemoryWrite, PgInv
<1>5. ASSUME NEW r \in Readers, ReaderBegins(r)
      PROVE  Promise!Next
  <2>1. ASSUME NEW k \in Keys, GetByTask(r, k) PROVE Promise!Next
    <3>1. Promise!Lookup(r, {k})
      BY <2>1, RefLookup DEF GetByTask
    <3> QED BY <3>1 DEF Promise!Next, Promise!Keys, Keys
  <2>2. ASSUME NEW ts \in SUBSET Tasks, GetInvocations(r, ts) PROVE Promise!Next
    <3> DEFINE ks == {<<t, "in">> : t \in ts}
    <3>1. ks \in SUBSET Keys
      BY DEF Keys
    <3>2. Promise!Lookup(r, ks)
      BY <2>2, <3>1, RefLookup DEF GetInvocations
    <3> HIDE DEF ks
    <3> QED BY <3>1, <3>2 DEF Promise!Next, Promise!Keys, Keys
  <2>3. ASSUME NEW t \in Tasks, HandleReceiptRequest(r, t) PROVE Promise!Next
    BY <2>3, RefServe DEF Promise!Next
  <2>4. \A t \in Tasks : <<t, "in">> \in Keys /\ <<t, "out">> \in Keys
    BY DEF Keys
  <2> QED BY <1>5, <2>1, <2>2, <2>3, <2>4 DEF ReaderBegins, GetInvocation, GetReceipt
<1>6. ASSUME NEW r \in Readers, Fetch(r)
      PROVE  UNCHANGED <<backend, KV, Ans>>
  BY <1>6, RefFetch
<1>7. ASSUME NEW r \in Readers, ReadFail(r)
      PROVE  Promise!Next
  BY <1>7, RefUnavailable DEF Promise!Next
<1>8. CASE UNCHANGED vars
  BY <1>8, SameKV, SameAns DEF vars
<1> QED BY <1>1, <1>2, <1>3, <1>4, <1>5, <1>6, <1>7, <1>8 DEF Next, WriterStep

\* The Postgres store implements the atomic map, for any tasks, messages,
\* writers and readers and however writes fail: the write of the payload
\* before the index, the single statement for all rows of a message and the
\* one row for a key are what callers need to see lookups answered from one
\* instant, and never fail for want of a payload.
THEOREM PostgresIsTaskIndex == PgSpec => IsTaskIndex
<1>1. PgSpec => []PgInv
  <2>1. Init /\ backend = "postgres" => PgInv
    BY InitInv DEF PgInv
  <2>2. PgInv /\ [Next]_vars => PgInv'
    <3>1. PgInv /\ [Next]_vars => backend' = backend
      BY DEF PgInv, Next, vars, WriterStep, ReaderBegins, WriteBegin, WritePut, LockRow, Commit,
             GetInvocation, GetReceipt, WriteFail, MemoryWrite, GetByTask, GetInvocations, HandleReceiptRequest, Answered,
             Fetch, ReadFail
    <3> QED BY <3>1, NextInv DEF PgInv
  <2> QED BY <2>1, <2>2, PTL DEF PgSpec
<1>2. PgInv /\ [Next]_vars =>
        [Promise!Next]_<<IF backend = "memory" THEN "first" ELSE "last",
                         [k \in Keys |-> Row(k)],
                         [r \in Readers |-> [status |-> reader[r].status,
                                             found |-> reader[r].found]]>>
  BY RefNext, SeenStutters DEF PgInv
<1> QED BY <1>1, <1>2, RefInit, PTL DEF PgSpec, IsTaskIndex, Promise!Spec
=============================================================================
