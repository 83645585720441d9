----------------------------- MODULE TaskIndex -----------------------------
(***************************************************************************)
(* What the agent store promises its callers (pkg/store/agent/agent.go):   *)
(* a map from (task, kind) to the agent message the task's invocation or   *)
(* receipt is found in.  Storing a message binds all of its entries in one *)
(* step, and a lookup answers from the map as it was at one instant; a     *)
(* lookup may fail, but never because a bound message cannot be read.      *)
(* The policy tells whether a later message replaces an earlier one.       *)
(***************************************************************************)
CONSTANTS
    Tasks,      \* tasks, ordered as their CIDs are
    Msgs,       \* agent messages, named by the CID of their bytes
    Invs,       \* Invs[m]: the tasks message m holds an invocation of
    Rcpts,      \* Rcpts[m]: the tasks message m holds a receipt for
    Readers,    \* concurrent lookups
    NoMsg       \* no message

VARIABLES
    policy,     \* "last": a later message wins; "first": the earliest stays
    kv,         \* the message each entry is bound to, or NoMsg
    answer      \* what each reader was last answered

Keys == Tasks \X {"in", "out"}

KeysOf(m) == {<<t, "in">> : t \in Invs[m]} \cup {<<t, "out">> : t \in Rcpts[m]}

\* A lookup answers with the entries it found, or that it could not look.
Answer(status, found) == [status |-> status, found |-> found]

Bound(ks) == {k \in ks : kv[k] # NoMsg}

Init ==
    /\ policy \in {"first", "last"}
    /\ kv = [k \in Keys |-> NoMsg]
    /\ answer = [r \in Readers |-> Answer("ok", {})]

\* All the entries of one message at once.
Put(m) ==
    /\ kv' = [k \in Keys |-> IF k \in KeysOf(m) /\ (policy = "last" \/ kv[k] = NoMsg)
                             THEN m ELSE kv[k]]
    /\ UNCHANGED <<policy, answer>>

\* One answer for each bound entry asked for, out of a message that is bound
\* to one of them and holds the entry.
Lookup(r, ks) ==
    /\ \E f \in [Bound(ks) -> {kv[k] : k \in Bound(ks)}] :
          /\ \A k \in Bound(ks) : k \in KeysOf(f[k])
          /\ answer' = [answer EXCEPT ![r] = Answer("ok", {<<k, f[k]>> : k \in Bound(ks)})]
    /\ UNCHANGED <<policy, kv>>

\* The receipt of a task is served if and only if one is stored.
Serve(r, t) ==
    /\ \E ms \in SUBSET {m \in Msgs : t \in Rcpts[m]} :
          /\ (ms = {}) <=> (kv[<<t, "out">>] = NoMsg)
          /\ answer' = [answer EXCEPT ![r] = Answer("ok", {<<<<t, "out">>, m>> : m \in ms})]
    /\ UNCHANGED <<policy, kv>>

\* A lookup is cut short and answers nothing, but does not answer wrongly.
Unavailable(r) ==
    /\ answer' = [answer EXCEPT ![r] = Answer("unavailable", {})]
    /\ UNCHANGED <<policy, kv>>

Next ==
    \/ \E m \in Msgs : Put(m)
    \/ \E r \in Readers :
          \/ \E ks \in SUBSET Keys : Lookup(r, ks)
          \/ \E t \in Tasks : Serve(r, t)
          \/ Unavailable(r)

Spec == Init /\ [][Next]_<<policy, kv, answer>>
=============================================================================
