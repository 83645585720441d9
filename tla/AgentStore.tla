----------------------------- MODULE AgentStore -----------------------------
(***************************************************************************)
(* The agent store (pkg/store/agent): agent messages and the index from    *)
(* (task, kind) to the message a task's invocation ("in") or receipt       *)
(* ("out") is found in.                                                    *)
(*                                                                         *)
(* The Postgres backend writes the payload to S3, then upserts every index *)
(* row in one statement, which locks the rows one by one in the order they *)
(* are listed and commits them together.  A lookup queries the rows and    *)
(* then fetches the payloads.  The memory backend does each operation      *)
(* under a mutex, in one step, and keeps every message of a key in order.  *)
(*                                                                         *)
(* Bound used for model checking only: MaxWrites.                          *)
(***************************************************************************)
EXTENDS Naturals, Sequences, FiniteSets

CONSTANTS
    Tasks,      \* tasks: naturals, ordered as their CIDs are
    Msgs,       \* messages: naturals, ordered as their CIDs are
    Invs,       \* Invs[m]: the tasks message m holds an invocation of
    Rcpts,      \* Rcpts[m]: the tasks message m holds a receipt for
    Writers,    \* concurrent calls to Write
    Readers,    \* concurrent lookups
    NoMsg,      \* no message
    ServeLimit, \* messages one receipt request looks through (25)
    MaxWrites   \* calls to Write

ASSUME StoreAssumption ==
    /\ Tasks \subseteq Nat
    /\ Msgs \subseteq Nat
    /\ NoMsg \notin Msgs
    /\ Invs \in [Msgs -> SUBSET Tasks]
    /\ Rcpts \in [Msgs -> SUBSET Tasks]
    /\ ServeLimit \in Nat /\ ServeLimit > 2
    /\ MaxWrites \in Nat

VARIABLES
    backend,    \* the configured store: "postgres" or "memory"
    objects,    \* the messages whose payload is in S3
    index,      \* the messages each key is bound to; at most one in Postgres
    writer,     \* the calls to Write
    reader,     \* the lookups
    writes      \* calls to Write made so far

vars == <<backend, objects, index, writer, reader, writes>>

Keys == Tasks \X {"in", "out"}

\* agent.Index: one entry for each invocation and receipt of the message.
KeysOf(m) == {<<t, "in">> : t \in Invs[m]} \cup {<<t, "out">> : t \in Rcpts[m]}

Row(k) == IF index[k] = <<>> THEN NoMsg ELSE index[k][1]

\* The order the rows of one statement are listed in: by task, then by kind.
Before(k, l) == k[1] < l[1] \/ (k[1] = l[1] /\ k[2] = "in" /\ l[2] = "out")

\* Mutant: the rows are locked in any order.
WantsUnsorted(w, k) == k \in KeysOf(writer[w].msg) \ writer[w].held

\* The row a write locks next: the first in order of those it still lacks.
Wants(w, k) ==
    /\ k \in KeysOf(writer[w].msg) \ writer[w].held
    /\ \A l \in KeysOf(writer[w].msg) \ writer[w].held : l = k \/ Before(k, l)

IdleWriter == [pc |-> "idle", msg |-> NoMsg, held |-> {}]

IdleReader(status) == [pc |-> "idle", need |-> {}, status |-> status, found |-> {}]

Init ==
    /\ backend \in {"postgres", "memory"}
    /\ objects = {}
    /\ index = [k \in Keys |-> <<>>]
    /\ writer = [w \in Writers |-> IdleWriter]
    /\ reader = [r \in Readers |-> IdleReader("ok")]
    /\ writes = 0

----------------------------------------------------------------------------
\* Write, Postgres

\* A message with nothing to index is not stored at all.
WriteBegin(w, m) ==
    /\ backend = "postgres"
    /\ writer[w].pc = "idle"
    /\ KeysOf(m) # {}
    /\ writes < MaxWrites
    /\ writes' = writes + 1
    /\ writer' = [writer EXCEPT ![w] = [pc |-> "put", msg |-> m, held |-> {}]]
    /\ UNCHANGED <<backend, objects, index, reader>>

\* Mutant: the payload is not stored before the index.
WritePutLater(w) ==
    /\ writer[w].pc = "put"
    /\ writer' = [writer EXCEPT ![w].pc = "lock"]
    /\ UNCHANGED <<backend, objects, index, reader, writes>>

\* The payload goes to S3 before the index mentions it.
WritePut(w) ==
    /\ writer[w].pc = "put"
    /\ objects' = objects \cup {writer[w].msg}
    /\ writer' = [writer EXCEPT ![w].pc = "lock"]
    /\ UNCHANGED <<backend, index, reader, writes>>

\* The statement takes its rows one after the other and waits for a row that
\* another statement has taken and not committed.
LockRow(w, k) ==
    /\ writer[w].pc = "lock"
    /\ Wants(w, k)
    /\ \A v \in Writers : k \notin writer[v].held
    /\ writer' = [writer EXCEPT ![w].held = @ \cup {k}]
    /\ UNCHANGED <<backend, objects, index, reader, writes>>

\* Mutant: the rows stay locked after the commit.
CommitHoldingLocks(w) ==
    /\ writer[w].pc = "lock"
    /\ writer[w].held = KeysOf(writer[w].msg)
    /\ index' = [k \in Keys |-> IF k \in writer[w].held THEN <<writer[w].msg>>
                                ELSE index[k]]
    /\ writer' = [writer EXCEPT ![w].pc = "idle"]
    /\ UNCHANGED <<backend, objects, reader, writes>>

\* All rows are locked: they are replaced and released together.
Commit(w) ==
    /\ writer[w].pc = "lock"
    /\ writer[w].held = KeysOf(writer[w].msg)
    /\ index' = [k \in Keys |-> IF k \in writer[w].held THEN <<writer[w].msg>>
                                ELSE index[k]]
    /\ writer' = [writer EXCEPT ![w] = IdleWriter]
    /\ UNCHANGED <<backend, objects, reader, writes>>

\* An error of S3 or of Postgres, a cancelled request or a crash, at any point
\* before the commit.  A failed upload may have stored the object.
WriteFail(w) ==
    /\ writer[w].pc # "idle"
    /\ objects' \in {objects, objects \cup {writer[w].msg}}
    /\ writer' = [writer EXCEPT ![w] = IdleWriter]
    /\ UNCHANGED <<backend, index, reader, writes>>

\* Write, memory: the payload and the end of the list of each of its keys.
MemoryWrite(m) ==
    /\ backend = "memory"
    /\ writes < MaxWrites
    /\ writes' = writes + 1
    /\ objects' = objects \cup {m}
    /\ index' = [k \in Keys |-> IF k \in KeysOf(m) THEN Append(index[k], m) ELSE index[k]]
    /\ UNCHANGED <<backend, writer, reader>>

----------------------------------------------------------------------------
\* Lookups

\* The tasks asked for that some fetched message holds, each answered by the
\* last of the fetched messages that holds it, in the order the query lists
\* them, which Postgres is free to choose.
Answers(ks) ==
    LET fetched == {Row(k) : k \in ks} \ {NoMsg}
        found == {k \in ks : \E m \in fetched : k \in KeysOf(m)}
    IN  {{<<k, f[k]>> : k \in found} :
            f \in {g \in [found -> fetched] : \A k \in found : k \in KeysOf(g[k])}}

\* A reader that has its rows: it still has to fetch the messages in need.
\* Memory reads both under its lock.
Answered(r, need, found) ==
    /\ reader' = [reader EXCEPT ![r] =
                    [pc |-> IF backend = "memory" \/ need = {} THEN "idle" ELSE "fetch",
                     need |-> IF backend = "memory" THEN {} ELSE need,
                     status |-> "ok", found |-> found]]
    /\ UNCHANGED <<backend, objects, index, writer, writes>>

\* Mutant: a key without a row is fetched all the same.
GetByTaskUnchecked(r, k) ==
    /\ reader[r].pc = "idle"
    /\ \E a \in Answers({k}) : Answered(r, {Row(k)}, a)

\* The row of one key.
GetByTask(r, k) ==
    /\ reader[r].pc = "idle"
    /\ \E a \in Answers({k}) : Answered(r, {Row(k)} \ {NoMsg}, a)

GetInvocation(r, t) == GetByTask(r, <<t, "in">>)

GetReceipt(r, t) == GetByTask(r, <<t, "out">>)

\* Memory looks each task up by itself.
EachByItself(a) == \A p \in a : p[2] = Row(p[1])

\* GetInvocations: the rows of a batch of tasks, in one query.
GetInvocations(r, ts) ==
    LET ks == {<<t, "in">> : t \in ts}
    IN  /\ reader[r].pc = "idle"
        /\ \E a \in Answers(ks) :
              /\ backend = "memory" => EachByItself(a)
              /\ Answered(r, {Row(k) : k \in ks} \ {NoMsg}, a)

\* A page of the messages of a task in the order of their CIDs.  Memory lists
\* a message once for its invocation and once for its receipt.
Entries(t) == UNION {{l} \X DOMAIN index[<<t, l>>] : l \in {"in", "out"}}

MsgOf(t, e) == index[<<t, e[1]>>][e[2]]

Ahead(t, e) == {d \in Entries(t) : MsgOf(t, d) < MsgOf(t, e)}

Listed(t) == {MsgOf(t, e) : e \in {d \in Entries(t) : Cardinality(Ahead(t, d)) < ServeLimit}}

\* HandleReceiptRequest: one page of messages, searched for a receipt.
Serves(t, ms) == {<<<<t, "out">>, m>> : m \in {n \in ms : t \in Rcpts[n]}}

HandleReceiptRequest(r, t) ==
    /\ reader[r].pc = "idle"
    /\ Answered(r, Listed(t), Serves(t, Listed(t)))

\* The payloads of the rows are fetched; one that is not there is an error.
Fetch(r) ==
    /\ reader[r].pc = "fetch"
    /\ reader' = [reader EXCEPT ![r] = IF reader[r].need \subseteq objects
                                       THEN [pc |-> "idle", need |-> {},
                                             status |-> reader[r].status,
                                             found |-> reader[r].found]
                                       ELSE IdleReader("missing")]
    /\ UNCHANGED <<backend, objects, index, writer, writes>>

\* The query or a fetch fails, or the request is cancelled.
ReadFail(r) ==
    /\ backend = "postgres"
    /\ reader' = [reader EXCEPT ![r] = IdleReader("unavailable")]
    /\ UNCHANGED <<backend, objects, index, writer, writes>>

----------------------------------------------------------------------------

WriterStep(w) ==
    \/ WritePut(w)
    \/ \E k \in Keys : LockRow(w, k)
    \/ Commit(w)

ReaderBegins(r) ==
    \/ \E t \in Tasks : GetInvocation(r, t) \/ GetReceipt(r, t)
    \/ \E ts \in SUBSET Tasks : GetInvocations(r, ts)
    \/ \E t \in Tasks : HandleReceiptRequest(r, t)

Next ==
    \/ \E w \in Writers :
          \/ \E m \in Msgs : WriteBegin(w, m)
          \/ WriterStep(w)
          \/ WriteFail(w)
    \/ \E m \in Msgs : MemoryWrite(m)
    \/ \E r \in Readers : ReaderBegins(r) \/ Fetch(r) \/ ReadFail(r)

\* A write that can go on goes on; nobody has to call.
Fairness == \A w \in Writers : WF_vars(WriterStep(w))

Spec == Init /\ [][Next]_vars

FairSpec == Spec /\ Fairness

----------------------------------------------------------------------------
\* Properties

\* Types: messages, keys and the state of every call.
TypeOK ==
    /\ backend \in {"postgres", "memory"}
    /\ objects \subseteq Msgs
    /\ index \in [Keys -> Seq(Msgs)]
    /\ writer \in [Writers -> [pc : {"idle", "put", "lock"}, msg : Msgs \cup {NoMsg},
                               held : SUBSET Keys]]
    /\ reader \in [Readers -> [pc : {"idle", "fetch"}, need : SUBSET Msgs,
                               status : {"ok", "missing", "unavailable"},
                               found : SUBSET (Keys \X Msgs)]]
    /\ writes \in Nat

\* A write waits for another one that holds the row it wants next.
WaitsFor(v, w) == writer[v].pc = "lock" /\ \E k \in Keys : Wants(v, k) /\ k \in writer[w].held

\* Concurrent writes of messages with entries in common never wait for each
\* other in a circle, which Postgres would break by failing one of them: the
\* sorted order of the statement's rows is what keeps them apart.
NoWaitCycle ==
    ~ \E ws \in (SUBSET Writers) \ {{}} : \A v \in ws : \E w \in ws : WaitsFor(v, w)

\* Every write that has begun comes to an end, however many others want its
\* rows, as long as the statements that can go on do.
WritesEnd == \A w \in Writers : (writer[w].pc # "idle") ~> (writer[w].pc = "idle")

\* Whatever is interleaved and wherever writes fail, callers see an atomic map
\* of entries to messages: a message's entries appear together, a lookup
\* answers from one instant, and an entry that is bound never leads to a
\* payload that cannot be read.  A lookup answers as of its query.
Promise == INSTANCE TaskIndex WITH
    policy <- IF backend = "memory" THEN "first" ELSE "last",
    kv <- [k \in Keys |-> Row(k)],
    answer <- [r \in Readers |-> [status |-> reader[r].status, found |-> reader[r].found]]

IsTaskIndex == Promise!Spec
=============================================================================
