--------------------------- MODULE ConcludeBatch ---------------------------
(***************************************************************************)
(* A /ucan/conclude invocation that delivers many /http/put receipts       *)
(* (handlers/ucan_conclude.go, ucan_conclude_http_put.go): the puts are    *)
(* resolved to their allocations, grouped by provider, accepted on each    *)
(* provider in chunks (piriclient AcceptBatch), the answers are grouped    *)
(* with the artifacts the node attached, packed into agent messages under  *)
(* a token budget, written, and the accepted blobs registered.             *)
(*                                                                         *)
(* A put is named by its task; the accept task, its allocation and its     *)
(* artifacts are functions of it (the accept carries no nonce).  The node  *)
(* answers every accept it is sent as it likes, a repeated one too.  A     *)
(* token of a message is <<kind, put>>; the kind of an accept receipt is   *)
(* what the node answered.  Bound: MaxDeliveries.                          *)
(***************************************************************************)
EXTENDS Ordering, SequencesExt

CONSTANTS
    Puts,           \* put tasks
    Kind,           \* Kind[p]: what the delivered receipt of p is worth, see Skipped
    Provider,       \* Provider[p]: the node the allocation of p names
    Hashed,         \* the puts whose allocation names the blob's digest
    Concluded,      \* the puts whose PDP task the node has already concluded
    Replies,        \* Replies[p]: the answers the node may give to the accept of p
    Deliveries,     \* the sequences of puts a client may deliver
    MaxBatch,       \* accepts sent in one request
    Budget,         \* tokens one container holds
    MaxDeliveries   \* times the client delivers

\* What the node may answer: a usable acceptance with its artifacts, one whose
\* artifacts are not in the answer, one whose commitment is for other content
\* than the put reported, a success that names no commitment, a failure.
Outcomes == {"ok", "bare", "mismatch", "malformed", "failure"}

ASSUME BatchAssumption ==
    /\ \A p \in Puts : Kind[p] \in {"ok", "failed", "nodigest", "unknown", "lost", "absent"}
    /\ \A p \in Puts : Replies[p] \subseteq Outcomes
    /\ Deliveries \subseteq Seq(Puts)
    /\ MaxBatch \in Nat \ {0} /\ Budget \in Nat \ {0}

VARIABLES
    delivery,   \* what the client delivers, each time
    pc,         \* where the handler stands
    todo,       \* the providers still to process, each with its puts in order
    answers,    \* the node's answer to each put of the first of todo, "none" so far
    outbox,     \* the messages of this provider still to be written
    answered,   \* tokens gathered for the response
    response,   \* tokens returned, or {}
    received,   \* history: the puts whose acceptance was received in this delivery
    heard,      \* history: receipts and artifacts that came in any delivery
    faults,     \* faults met in this delivery
    written,    \* all messages written
    registered, \* the puts whose blob is registered
    deliveries  \* deliveries made

handler == <<pc, todo, answers, outbox, answered, response, received, faults>>
stores == <<written, registered>>
vars == <<delivery, handler, stores, heard, deliveries>>

----------------------------------------------------------------------------
\* Resolving the delivery

\* A failed put, one that reports no usable digest and one whose invocation
\* nobody knows are passed over.
Skipped(p) == Kind[p] \in {"failed", "nodigest", "unknown"}

\* A receipt that was not delivered, or an allocation that is not found, fails
\* the conclusion before anything is accepted.
Unresolved(d) == \E i \in DOMAIN d : Kind[d[i]] \in {"lost", "absent"}

Resolved(d) == Subsequence(d, {i \in DOMAIN d : ~Skipped(d[i])})

\* One group for each provider, in the order the providers first appear.
ByProvider(d) ==
    LET first == InOrder({i \in DOMAIN d : \A j \in 1 .. (i - 1) : Provider[d[j]] # Provider[d[i]]})
    IN  [n \in DOMAIN first |->
            Subsequence(d, {i \in DOMAIN d : Provider[d[i]] = Provider[d[first[n]]]})]

----------------------------------------------------------------------------
\* What comes back from a node

\* The results that acceptResult takes: they name a commitment and a PDP task.
Accepting == {"ok", "bare", "mismatch"}

\* The commitment for the content the put reported, or for other content.
Commitment(p, out) == <<IF out = "mismatch" THEN "other" ELSE "site", p>>

\* The commitment and the PDP promise, with its receipt when there is one.
Attachments(p, out) ==
    {Commitment(p, out), <<"pdp", p>>}
        \cup (IF p \in Concluded THEN {<<"pdpReceipt", p>>} ELSE {})

\* attachedLinks: only a usable result names its artifacts.
Names(p, out) == IF out \in Accepting THEN Attachments(p, out) ELSE {}

\* A node may attach them to a result that does not name them, or not at all.
Sent(p, out) == IF out \in {"ok", "mismatch", "malformed"} THEN Attachments(p, out) ELSE {}

\* All that came with the answers outs.
Attached(puts, outs) == UNION {Sent(puts[i], outs[i]) : i \in DOMAIN outs}

\* A receipt and what came with it.
Came(p, out) == {<<out, p>>} \cup Sent(p, out)

\* The tokens ts show that p was accepted, as far as the handler asks: a usable
\* receipt and, when the allocation did not name the digest, a commitment for
\* the content the put reported that the receipt may name.
Shows(ts, p) ==
    \E out \in Accepting :
        <<out, p>> \in ts /\ (p \in Hashed \/ (out # "mismatch" /\ <<"site", p>> \in ts))

\* The accept invocation and the receipt that answers it.
Answer(p, out) == {<<"inv", p>>, <<out, p>>}

\* Mutant: artifacts are packed apart from their receipt.
GroupsSplit(puts, outs) ==
    LET idx == InOrder({i \in DOMAIN puts : outs[i] # "none"})
    IN  [j \in DOMAIN idx |-> Answer(puts[idx[j]], outs[idx[j]])]
        \o SetToSeq({{t} : t \in Attached(puts, outs)})

\* groupAcceptances: every answered accept with what its receipt names, the
\* node sent and no earlier one has claimed, then each unclaimed artifact as a
\* group of its own.
Groups(puts, outs) ==
    LET idx == InOrder({i \in DOMAIN puts : outs[i] # "none"})
        named(I) == UNION {Names(puts[i], outs[i]) : i \in I}
        claims(i) == (Names(puts[i], outs[i]) \cap Attached(puts, outs)) \ named(1 .. (i - 1))
    IN  [j \in DOMAIN idx |-> Answer(puts[idx[j]], outs[idx[j]]) \cup claims(idx[j])]
        \o SetToSeq({{t} : t \in Attached(puts, outs) \ named(DOMAIN outs)})

\* writeAgentMessages: the groups in order, a new message whenever the next
\* group would not fit.  A message keeps its groups until it is encoded.
Tokens(groups) == SumTo([i \in DOMAIN groups |-> Cardinality(groups[i])], Len(groups))

\* Mutant: one message, whatever its size.
PackUnbounded(groups) == IF groups = <<>> THEN <<>> ELSE <<groups>>

AddGroup(acc, g) ==
    IF acc.cur # <<>> /\ Tokens(acc.cur) + Cardinality(g) > Budget
    THEN [full |-> Append(acc.full, acc.cur), cur |-> <<g>>]
    ELSE [full |-> acc.full, cur |-> Append(acc.cur, g)]

Pack(groups) ==
    LET packed[n \in 0 .. Len(groups)] ==
            IF n = 0 THEN [full |-> <<>>, cur |-> <<>>] ELSE AddGroup(packed[n - 1], groups[n])
        end == packed[Len(groups)]
    IN  end.full \o (IF end.cur = <<>> THEN <<>> ELSE <<end.cur>>)

\* Mutant: a response that is too large loses its artifacts.
ResponseTrimmed(ts) ==
    IF Cardinality(ts) > Budget THEN {t \in ts : t[1] \in Outcomes \cup {"inv"}} ELSE ts

\* concludeResponse: measured once duplicates are gone, all or nothing.
Response(ts) == IF Cardinality(ts) > Budget THEN {} ELSE ts

----------------------------------------------------------------------------
Init ==
    /\ delivery \in Deliveries
    /\ pc = "idle"
    /\ todo = <<>> /\ answers = <<>> /\ outbox = <<>>
    /\ answered = {} /\ response = {} /\ received = {} /\ faults = {}
    /\ written = {} /\ registered = {} /\ heard = {}
    /\ deliveries = 0

\* Mutant: the answers of the last provider are not reset.
NoAnswersKept(rest) == answers

\* The answers of the next provider, before its first chunk is sent.
NoAnswers(rest) == IF rest = <<>> THEN <<>> ELSE [i \in DOMAIN Head(rest) |-> "none"]

\* The client delivers, the first time or again.
Conclude ==
    /\ pc = "idle" /\ deliveries < MaxDeliveries
    /\ deliveries' = deliveries + 1
    /\ answered' = {} /\ response' = {} /\ received' = {} /\ faults' = {}
    /\ outbox' = <<>>
    /\ IF Unresolved(delivery)
       THEN pc' = "idle" /\ todo' = <<>> /\ answers' = <<>>
       ELSE LET groups == ByProvider(Resolved(delivery))
            IN  /\ pc' = IF groups = <<>> THEN "idle" ELSE "accept"
                /\ todo' = groups
                /\ answers' = NoAnswers(groups)
    /\ UNCHANGED <<delivery, stores, heard>>

\* The puts of the next chunk, by their place in the group.
Chunk == LET sent == Cardinality({i \in DOMAIN answers : answers[i] # "none"})
         IN  (sent + 1) .. (IF sent + MaxBatch < Len(answers) THEN sent + MaxBatch
                            ELSE Len(answers))

\* What is written for the answers so far.  A provider whose every accept went
\* unanswered has nothing to write.
StartWriting(outs) ==
    LET groups == Groups(Head(todo), outs)
    IN  /\ outbox' = Pack(groups)
        /\ answered' = answered \cup UNION ToSet(groups)
        /\ pc' = "write"

\* One request: every accept of the chunk is answered by its own receipt,
\* whatever was answered to it before.
AcceptChunk ==
    /\ pc = "accept"
    /\ \E out \in [{Head(todo)[i] : i \in Chunk} -> Outcomes] :
          /\ \A p \in DOMAIN out : out[p] \in Replies[p]
          /\ LET outs == [i \in DOMAIN answers |->
                            IF i \in Chunk THEN out[Head(todo)[i]] ELSE answers[i]]
             IN  /\ answers' = outs
                 /\ IF \E i \in DOMAIN outs : outs[i] = "none"
                    THEN UNCHANGED <<pc, outbox, answered>>
                    ELSE StartWriting(outs)
          /\ received' = received \cup {p \in DOMAIN out : Shows(Came(p, out[p]), p)}
          /\ heard' = heard \cup UNION {Came(p, out[p]) : p \in DOMAIN out}
    /\ UNCHANGED <<delivery, todo, response, faults, stores, deliveries>>

\* Mutant: a failed chunk drops what earlier ones answered.
ChunkFailsDropsAll ==
    /\ pc = "accept"
    /\ faults' = faults \cup {"node"}
    /\ pc' = "idle"
    /\ todo' = <<>> /\ answers' = <<>>
    /\ UNCHANGED <<delivery, outbox, answered, response, received, stores, heard, deliveries>>

\* The request fails, with or without the node having worked on it.  What the
\* earlier chunks answered is still written and registered.
ChunkFails ==
    /\ pc = "accept"
    /\ faults' = faults \cup {"node"}
    /\ StartWriting(answers)
    /\ UNCHANGED <<delivery, todo, answers, response, received, stores, heard, deliveries>>

\* The next message is stored.
WriteMessage ==
    /\ pc = "write" /\ outbox # <<>>
    /\ written' = written \cup {Head(outbox)}
    /\ outbox' = Tail(outbox)
    /\ UNCHANGED <<delivery, pc, todo, answers, answered, response, received, heard, faults,
                   registered, deliveries>>

\* Mutant: a message that is not stored is passed over.
WriteFailsIgnored ==
    /\ pc = "write" /\ outbox # <<>>
    /\ outbox' = Tail(outbox)
    /\ UNCHANGED <<delivery, pc, todo, answers, answered, response, received, heard, faults, stores,
                   deliveries>>

\* A message is not stored: nothing of this provider is registered.
WriteFails ==
    /\ pc = "write" /\ outbox # <<>>
    /\ pc' = "idle" /\ faults' = faults \cup {"store"}
    /\ todo' = <<>> /\ answers' = <<>> /\ outbox' = <<>>
    /\ UNCHANGED <<delivery, answered, response, received, stores, heard, deliveries>>

\* Mutant: the commitment is not compared with the put.
ToRegisterUnmatched == {i \in DOMAIN answers : answers[i] \in Accepting}

\* The answers that are registered: a usable result and, when the allocation
\* did not name the digest, a commitment that came with some answer of the
\* batch and is for the content the put reported.
ToRegister ==
    {i \in DOMAIN answers :
        /\ answers[i] \in Accepting
        /\ \/ Head(todo)[i] \in Hashed
           \/ /\ answers[i] # "mismatch"
              /\ Commitment(Head(todo)[i], answers[i]) \in Attached(Head(todo), answers)}

\* The loop over the results, all of it or up to a registration that fails.
Register ==
    /\ pc = "write" /\ outbox = <<>>
    /\ registered' = registered \cup {Head(todo)[i] : i \in ToRegister}
    /\ IF "node" \in faults \/ Len(todo) = 1
       THEN /\ pc' = "idle"
            /\ todo' = <<>> /\ answers' = <<>>
            /\ response' = IF "node" \in faults THEN {} ELSE Response(answered)
       ELSE /\ pc' = "accept"
            /\ todo' = Tail(todo)
            /\ answers' = NoAnswers(Tail(todo))
            /\ UNCHANGED response
    /\ UNCHANGED <<delivery, outbox, answered, received, heard, faults, written, deliveries>>

RegisterFails ==
    /\ pc = "write" /\ outbox = <<>>
    /\ \E n \in ToRegister :
          registered' = registered \cup {Head(todo)[i] : i \in {j \in ToRegister : j < n}}
    /\ pc' = "idle" /\ faults' = faults \cup {"store"}
    /\ todo' = <<>> /\ answers' = <<>>
    /\ UNCHANGED <<delivery, outbox, answered, response, received, heard, written, deliveries>>

\* The server stops; the node and the stores keep what they have.
Crash ==
    /\ pc # "idle"
    /\ pc' = "idle" /\ faults' = faults \cup {"crash"}
    /\ todo' = <<>> /\ answers' = <<>> /\ outbox' = <<>>
    /\ UNCHANGED <<delivery, answered, response, received, stores, heard, deliveries>>

Next ==
    \/ Conclude \/ AcceptChunk \/ ChunkFails
    \/ WriteMessage \/ WriteFails \/ Register \/ RegisterFails \/ Crash

Spec == Init /\ [][Next]_vars

----------------------------------------------------------------------------
\* Properties

\* Types: puts, tokens and outcomes.
TypeOK ==
    /\ pc \in {"idle", "accept", "write"}
    /\ faults \subseteq {"node", "store", "crash"}
    /\ registered \subseteq Puts /\ received \subseteq Puts
    /\ heard \subseteq (Outcomes \cup {"site", "other", "pdp", "pdpReceipt"}) \X Puts
    /\ todo \in Seq(Seq(Puts))
    /\ pc # "idle" => Len(answers) = Len(Head(todo))

\* A put that is listed twice in one conclusion is answered twice, and only the
\* first answer is grouped with its artifacts.
DeliveredOnce(p) == \A i, j \in DOMAIN delivery : delivery[i] = p /\ delivery[j] = p => i = j

\* Persisted before registered: for every blob that is registered, one stored
\* message holds the accept with a receipt and a commitment that warrant it,
\* whichever chunk, write or registration fails, wherever the server stops and
\* whatever a later delivery is answered.
RegisteredIsStored ==
    \A p \in registered : \E msg \in written :
        LET ts == UNION ToSet(msg) IN <<"inv", p>> \in ts /\ Shows(ts, p)

\* An acceptance is never split across messages: a stored message that holds a
\* usable accept receipt holds all the artifacts the receipt names of those the
\* node sent with it.
AcceptanceUnsplit ==
    \A msg \in written : \A p \in Puts, out \in Outcomes :
        LET ts == UNION ToSet(msg)
        IN  DeliveredOnce(p) /\ <<out, p>> \in ts => Names(p, out) \cap Sent(p, out) \subseteq ts

\* Every message fits in a container unless it is a single acceptance.
MessagesFit == \A msg \in written : Len(msg) = 1 \/ Tokens(msg) <= Budget

\* What a node answered is not lost because a later chunk of the same batch
\* failed: when the delivery ends and neither the stores nor the server failed,
\* every put whose acceptance was received is registered.
AnsweredIsRegistered ==
    pc = "idle" /\ faults \subseteq {"node"} =>
        received \subseteq registered

\* A put whose accept was never answered, or was answered without usable
\* evidence, or, when it was allocated without a digest, for other content than
\* the put reported, is never registered, whichever chunk fails, however often
\* the client delivers and however the answers differ.
RegisteredIsAttested ==
    \A p \in registered : Shows(heard, p) /\ ~Skipped(p)

\* The response holds every acceptance with the artifacts that came with it, or
\* nothing.
ResponseIsWhole ==
    \A p \in Puts, out \in Outcomes :
        <<out, p>> \in response => Names(p, out) \cap Sent(p, out) \subseteq response
=============================================================================
