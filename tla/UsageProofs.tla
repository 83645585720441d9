---------------------------- MODULE UsageProofs ----------------------------
(***************************************************************************)
(* Proofs about the accounts of a space and the usage series read from     *)
(* them, for any blobs, uploads, invocations, removers, queries and bounds *)
(* and both kinds of store.                                                *)
(*                                                                         *)
(* A lock holder of the memory stores leaves the accounts apart while it   *)
(* works.  The invariant names what each holder has still to do (a job)    *)
(* and says that the accounts agree once that is added to them.            *)
(***************************************************************************)
EXTENDS Usage, DataLemmas

----------------------------------------------------------------------------
\* Logs

Rows == [at : Int, cause : Int, delta : Int]

\* A log is a finite set of rows.
Logged(log) == IsFiniteSet(log) /\ log \in SUBSET Rows

LEMMA LogSum ==
    ASSUME NEW log, Logged(log)
    PROVE  /\ SumOf(log) \in Int
           /\ \A U \in SUBSET log :
                /\ Logged(U) /\ Logged(log \ U)
                /\ SumOf(U) \in Int /\ SumOf(log \ U) \in Int
                /\ SumOf(log) = SumOf(U) + SumOf(log \ U)
<1>1. PICK v : v = [e \in log |-> e.delta]
  OBVIOUS
<1>2. Weighs(v, log) /\ \A e \in log : v[e] = e.delta
  BY <1>1 DEF Weighs, Logged, Rows
<1>3. ASSUME NEW U \in SUBSET log PROVE Logged(U) /\ SumOf(U) = SumOver(v, U)
  <2>1. IsFiniteSet(U) /\ Weighs(v, U)
    BY <1>2, FS_Subset DEF Logged, Weighs
  <2>2. PICK w : w = [e \in U |-> e.delta]
    OBVIOUS
  <2>3. \A e \in U : w[e] = v[e]
    BY <1>2, <2>2
  <2>4. SumOver(w, U) = SumOver(v, U)
    BY <2>1, <2>3, SumSame
  <2>5. SumOf(U) = SumOver(w, U)
    BY <2>2 DEF SumOf
  <2>. QED BY <2>1, <2>4, <2>5 DEF Logged
<1>4. SumOf(log) = SumOver(v, log) /\ SumOver(v, log) \in Int
  BY <1>1, <1>2, SumRemove DEF SumOf, Logged
<1>5. ASSUME NEW U \in SUBSET log
      PROVE  /\ Logged(U) /\ Logged(log \ U)
             /\ SumOf(U) \in Int /\ SumOf(log \ U) \in Int
             /\ SumOf(log) = SumOf(U) + SumOf(log \ U)
  <2>1. SumOver(v, U) \in Int /\ SumOver(v, log \ U) \in Int
        /\ SumOver(v, log) = SumOver(v, U) + SumOver(v, log \ U)
    BY <1>2, SumSplit DEF Logged
  <2>2. Logged(U) /\ SumOf(U) = SumOver(v, U)
    BY <1>3
  <2>3. Logged(log \ U) /\ SumOf(log \ U) = SumOver(v, log \ U)
    BY <1>3
  <2>. QED BY <1>4, <2>1, <2>2, <2>3
<1>. QED BY <1>4, <1>5

LEMMA NoRows == Logged({}) /\ SumOf({}) = 0
<1>1. IsFiniteSet({}) /\ Weighs([e \in {} |-> e.delta], {})
  BY FS_EmptySet DEF Weighs
<1>2. SumOver([e \in {} |-> e.delta], {}) = 0
  BY <1>1, SumRemove
<1>. QED BY <1>1, <1>2 DEF SumOf, Logged

LEMMA OneRow ==
    ASSUME NEW e \in Rows
    PROVE  Logged({e}) /\ SumOf({e}) = e.delta
<1>1. PICK v : v = [x \in {e} |-> x.delta]
  OBVIOUS
<1>2. IsFiniteSet({}) /\ Weighs(v, {}) /\ v[e] = e.delta /\ v[e] \in Int
  BY <1>1, FS_EmptySet DEF Weighs, Rows
<1>3. SumOver(v, {} \cup {e}) = SumOver(v, {}) + v[e] /\ SumOver(v, {}) = 0
  BY <1>2, SumAdd, SumRemove
<1>4. {} \cup {e} = {e}
  OBVIOUS
<1>5. SumOver(v, {e}) = e.delta
  <2>1. SumOver(v, {e}) = 0 + v[e]
    BY ONLY <1>3, <1>4
  <2>. QED BY <1>2, <2>1
<1>6. IsFiniteSet({e})
  BY FS_Singleton
<1>. QED BY <1>1, <1>5, <1>6 DEF SumOf, Logged

LEMMA LogAdd ==
    ASSUME NEW log, Logged(log), NEW e \in Rows, e \notin log
    PROVE  /\ Logged(log \cup {e})
           /\ SumOf(log \cup {e}) = SumOf(log) + e.delta
<1>1. PICK all : all = log \cup {e}
  OBVIOUS
<1>2. Logged(all)
  BY <1>1, FS_AddElement DEF Logged
<1>3. log \in SUBSET all /\ all \ log = {e}
  BY <1>1
<1>4. SumOf(all) = SumOf(log) + SumOf(all \ log)
  BY <1>2, <1>3, LogSum
<1>5. SumOf(all) = SumOf(log) + SumOf({e})
  BY ONLY <1>3, <1>4
<1>6. SumOf({e}) = e.delta
  BY OneRow
<1>. QED BY ONLY <1>1, <1>2, <1>5, <1>6

----------------------------------------------------------------------------
\* Counters

Counters == [Metrics -> Int]

Bytes(c) == c["blobAddSize"] - c["blobRemoveSize"]
Blobs(c) == c["blobAdd"] - c["blobRemove"]
Counted(c) == c["uploadAdd"] - c["uploadRemove"]

LEMMA Incremented ==
    ASSUME NEW c \in Counters, NEW inc \in Counters
    PROVE  /\ Increment(c, inc) \in Counters
           /\ \A m \in Metrics : Increment(c, inc)[m] = c[m] + inc[m]
           /\ Bytes(Increment(c, inc)) = Bytes(c) + Bytes(inc)
           /\ Blobs(Increment(c, inc)) = Blobs(c) + Blobs(inc)
           /\ Counted(Increment(c, inc)) = Counted(c) + Counted(inc)
           /\ Bytes(c) \in Int /\ Blobs(c) \in Int /\ Counted(c) \in Int
<1>1. \A m \in Metrics : c[m] \in Int /\ inc[m] \in Int
  BY DEF Counters
<1>2. \A m \in Metrics : Increment(c, inc)[m] = c[m] + inc[m]
  BY DEF Increment
<1>3. Increment(c, inc) \in Counters
  BY <1>1 DEF Increment, Counters
<1>. HIDE DEF Increment
<1>. QED BY <1>1, <1>2, <1>3 DEF Bytes, Blobs, Counted, Metrics

LEMMA Increments ==
    /\ NoInc \in Counters /\ Bytes(NoInc) = 0 /\ Blobs(NoInc) = 0 /\ Counted(NoInc) = 0
    /\ \A d \in Digests :
         /\ AddInc(d) \in Counters
         /\ Bytes(AddInc(d)) = SizeOf[d] /\ Blobs(AddInc(d)) = 1 /\ Counted(AddInc(d)) = 0
    /\ \A size \in Int :
         /\ RemoveInc(size) \in Counters
         /\ Bytes(RemoveInc(size)) = -size /\ Blobs(RemoveInc(size)) = -1
         /\ Counted(RemoveInc(size)) = 0
    /\ \A delta \in {1, -1} :
         /\ UploadInc(delta) \in Counters
         /\ Bytes(UploadInc(delta)) = 0 /\ Blobs(UploadInc(delta)) = 0
         /\ Counted(UploadInc(delta)) = delta
<1>1. \A d \in Digests : SizeOf[d] \in Int
  BY AccountAssumption
<1>2. NoInc \in Counters /\ Bytes(NoInc) = 0 /\ Blobs(NoInc) = 0 /\ Counted(NoInc) = 0
  BY DEF NoInc, Counters, Bytes, Blobs, Counted, Metrics
<1>3. ASSUME NEW d \in Digests
      PROVE  /\ AddInc(d) \in Counters
             /\ Bytes(AddInc(d)) = SizeOf[d] /\ Blobs(AddInc(d)) = 1 /\ Counted(AddInc(d)) = 0
  BY <1>1 DEF AddInc, NoInc, Counters, Bytes, Blobs, Counted, Metrics
<1>4. ASSUME NEW size \in Int
      PROVE  /\ RemoveInc(size) \in Counters
             /\ Bytes(RemoveInc(size)) = -size /\ Blobs(RemoveInc(size)) = -1
             /\ Counted(RemoveInc(size)) = 0
  BY DEF RemoveInc, NoInc, Counters, Bytes, Blobs, Counted, Metrics
<1>5. /\ UploadInc(1) \in Counters
      /\ Bytes(UploadInc(1)) = 0 /\ Blobs(UploadInc(1)) = 0 /\ Counted(UploadInc(1)) = 1
  BY DEF UploadInc, NoInc, Counters, Bytes, Blobs, Counted, Metrics
<1>6. /\ UploadInc(-1) \in Counters
      /\ Bytes(UploadInc(-1)) = 0 /\ Blobs(UploadInc(-1)) = 0 /\ Counted(UploadInc(-1)) = -1
  BY DEF UploadInc, NoInc, Counters, Bytes, Blobs, Counted, Metrics
<1>. QED BY <1>2, <1>3, <1>4, <1>5, <1>6

----------------------------------------------------------------------------
\* Jobs: what the holder of a memory store's lock has still to do.

Phases == {"log", "space", "admin", "drop", "none"}

NoJob == [phase |-> "none", entry |-> Entry(0, 0, 0), inc |-> NoInc, subject |-> {}]

Job(phase, entry, inc, subject) ==
    [phase |-> phase, entry |-> entry, inc |-> inc, subject |-> subject]

\* The steps that are left, from the phase the job is in.
Rest(kind, j) ==
    LET log == Effect(kind, j.entry, j.inc, {})
        space == Effect("space", j.entry, j.inc, {})
        adm == Effect("admin", j.entry, j.inc, {})
        drop == Effect("drop", j.entry, NoInc, j.subject)
    IN  IF j.subject = {}
        THEN CASE j.phase = "log" -> <<log, space, adm>>
               [] j.phase = "space" -> <<space, adm>>
               [] j.phase = "admin" -> <<adm>>
               [] OTHER -> <<>>
        ELSE CASE j.phase = "log" -> <<log, space, adm, drop>>
               [] j.phase = "space" -> <<space, adm, drop>>
               [] j.phase = "admin" -> <<adm, drop>>
               [] j.phase = "drop" -> <<drop>>
               [] OTHER -> <<>>

\* The phase after this one.
After(j) ==
    CASE j.phase = "log" -> "space"
      [] j.phase = "space" -> "admin"
      [] j.phase = "admin" -> IF j.subject = {} THEN "none" ELSE "drop"
      [] OTHER -> "none"

\* The step that a job takes next.
NextEffect(kind, j) ==
    CASE j.phase = "log" -> Effect(kind, j.entry, j.inc, {})
      [] j.phase = "space" -> Effect("space", j.entry, j.inc, {})
      [] j.phase = "admin" -> Effect("admin", j.entry, j.inc, {})
      [] OTHER -> Effect("drop", j.entry, NoInc, j.subject)

\* What is due to the log, to the counters of the space and of the service, and
\* the rows that are to go.
LogDue(j) == IF j.phase = "log" THEN j.entry.delta ELSE 0
SpaceDue(j) == IF j.phase \in {"log", "space"} THEN j.inc ELSE NoInc
AdminDue(j) == IF j.phase \in {"log", "space", "admin"} THEN j.inc ELSE NoInc
DropDue(j) == IF j.phase = "none" THEN {} ELSE j.subject

\* j is a job: it drops something when it is said to.
IsJob(j) ==
    /\ j.phase \in Phases
    /\ j.entry \in Rows /\ j.inc \in Counters
    /\ j.phase = "drop" => j.subject # {}

LEMMA JobSteps ==
    ASSUME NEW kind, NEW j, IsJob(j)
    PROVE  /\ j.phase = "none" => Rest(kind, j) = <<>>
           /\ j.phase # "none" =>
                /\ Rest(kind, j) # <<>>
                /\ Head(Rest(kind, j)) = NextEffect(kind, j)
                /\ Tail(Rest(kind, j)) = Rest(kind, Job(After(j), j.entry, j.inc, j.subject))
                /\ IsJob(Job(After(j), j.entry, j.inc, j.subject))
<1>1. PICK k : k = Job(After(j), j.entry, j.inc, j.subject)
  OBVIOUS
<1>2. k.phase = After(j) /\ k.entry = j.entry /\ k.inc = j.inc /\ k.subject = j.subject
  BY <1>1 DEF Job
<1>3. j.phase \in Phases /\ (j.phase = "drop" => j.subject # {})
  BY DEF IsJob
<1>4. CASE j.phase = "none"
  BY <1>4 DEF Rest
<1>5. CASE j.phase = "log"
  <2>1. After(j) = "space"
    BY <1>5 DEF After
  <2>2. IsJob(k)
    BY <1>2, <2>1 DEF IsJob, Phases
  <2>3. CASE j.subject = {}
    BY <1>1, <1>2, <1>5, <2>1, <2>2, <2>3 DEF Rest, NextEffect
  <2>4. CASE j.subject # {}
    BY <1>1, <1>2, <1>5, <2>1, <2>2, <2>4 DEF Rest, NextEffect
  <2>. QED BY <2>3, <2>4
<1>6. CASE j.phase = "space"
  <2>1. After(j) = "admin"
    BY <1>6 DEF After
  <2>2. IsJob(k)
    BY <1>2, <2>1 DEF IsJob, Phases
  <2>3. CASE j.subject = {}
    BY <1>1, <1>2, <1>6, <2>1, <2>2, <2>3 DEF Rest, NextEffect
  <2>4. CASE j.subject # {}
    BY <1>1, <1>2, <1>6, <2>1, <2>2, <2>4 DEF Rest, NextEffect
  <2>. QED BY <2>3, <2>4
<1>7. CASE j.phase = "admin"
  <2>1. After(j) = IF j.subject = {} THEN "none" ELSE "drop"
    BY <1>7 DEF After
  <2>2. IsJob(k)
    BY <1>2, <2>1 DEF IsJob, Phases
  <2>3. CASE j.subject = {}
    BY <1>1, <1>2, <1>7, <2>1, <2>2, <2>3 DEF Rest, NextEffect
  <2>4. CASE j.subject # {}
    BY <1>1, <1>2, <1>7, <2>1, <2>2, <2>4 DEF Rest, NextEffect
  <2>. QED BY <2>3, <2>4
<1>8. CASE j.phase = "drop"
  <2>1. After(j) = "none"
    BY <1>8 DEF After
  <2>2. IsJob(k)
    BY <1>2, <2>1 DEF IsJob, Phases
  <2>. QED BY <1>1, <1>2, <1>3, <1>8, <2>1, <2>2 DEF Rest, NextEffect
<1>. QED BY <1>3, <1>4, <1>5, <1>6, <1>7, <1>8 DEF Phases

\* The steps of an operation that drops a row in the end.
EffectsAndDrop(kind, entry, inc, d) ==
    Effects(kind, entry, inc) \o <<Effect("drop", entry, NoInc, {d})>>

\* The jobs that the operations start with.
LEMMA JobStarts ==
    ASSUME NEW kind, NEW entry, NEW inc, NEW d
    PROVE  /\ Effects(kind, entry, inc) = Rest(kind, Job("log", entry, inc, {}))
           /\ EffectsAndDrop(kind, entry, inc, d) = Rest(kind, Job("log", entry, inc, {d}))
           /\ Rest(kind, NoJob) = <<>>
<1>1. ASSUME NEW a, NEW b, NEW c, NEW e PROVE <<a, b, c>> \o <<e>> = <<a, b, c, e>>
  <2>0. PICK A : a \in A /\ b \in A /\ c \in A /\ e \in A
    <3>1. a \in {a, b, c, e} /\ b \in {a, b, c, e} /\ c \in {a, b, c, e} /\ e \in {a, b, c, e}
      OBVIOUS
    <3>. QED BY <3>1
  <2>1. PICK s : s = <<a, b, c>>
    OBVIOUS
  <2>2. s \in Seq(A) /\ e \in A /\ Len(s) = 3 /\ s[1] = a /\ s[2] = b /\ s[3] = c
    BY <2>0, <2>1
  <2>3. Append(s, e) = <<a, b, c, e>>
    <3>1. PICK t : t = <<a, b, c, e>>
      OBVIOUS
    <3>2. t \in Seq(A) /\ Len(t) = 4 /\ t[1] = a /\ t[2] = b /\ t[3] = c /\ t[4] = e
      BY <2>0, <3>1
    <3>3. PICK r : r = Append(s, e)
      OBVIOUS
    <3>4. /\ r \in Seq(A) /\ Len(r) = 4
          /\ r[1] = s[1] /\ r[2] = s[2] /\ r[3] = s[3] /\ r[4] = e
      <4>1. /\ Append(s, e) \in Seq(A) /\ Len(Append(s, e)) = Len(s) + 1
            /\ \A i \in 1 .. Len(s) : Append(s, e)[i] = s[i]
            /\ Append(s, e)[Len(s) + 1] = e
        <5>1. s \in Seq(A) /\ e \in A
          BY <2>2
        <5>. QED BY ONLY <5>1
      <4>2. r \in Seq(A) /\ Len(r) = 3 + 1 /\ r[3 + 1] = e /\ \A i \in 1 .. 3 : r[i] = s[i]
        BY ONLY <2>2, <3>3, <4>1
      <4>. QED BY ONLY <4>2
    <3>5. \A i \in 1 .. 4 : r[i] = t[i]
      <4>1. \A i \in 1 .. 4 : i = 1 \/ i = 2 \/ i = 3 \/ i = 4
        OBVIOUS
      <4>. QED BY <2>2, <3>2, <3>4, <4>1
    <3>6. r = t
      BY <3>2, <3>4, <3>5, SeqEqual
    <3>. QED BY ONLY <3>1, <3>3, <3>6
  <2>4. s \o <<e>> = Append(s, e)
    BY <2>2, AppendIsConcat
  <2>. QED BY ONLY <2>1, <2>3, <2>4
<1>2. {d} # {}
  OBVIOUS
<1>. QED BY <1>1, <1>2 DEF Effects, EffectsAndDrop, Rest, Job, NoJob

----------------------------------------------------------------------------
\* The registry and what is owned: all that is registered but what is to go.

Sized(reg) ==
    /\ reg \in [Digests -> Int]
    /\ \A d \in Digests : reg[d] = 0 \/ reg[d] = SizeOf[d]
    /\ IsFiniteSet({d \in Digests : reg[d] # 0})

Owned(reg, drop) == {d \in Digests : reg[d] # 0} \ drop

LEMMA OwnedSums ==
    ASSUME NEW reg, Sized(reg), NEW drop
    PROVE  /\ IsFiniteSet(Owned(reg, drop)) /\ Weighs(reg, Owned(reg, drop))
           /\ SumOver(reg, Owned(reg, drop)) \in Int
           /\ Cardinality(Owned(reg, drop)) \in Nat
<1>1. IsFiniteSet(Owned(reg, drop))
  <2>1. Owned(reg, drop) \in SUBSET {d \in Digests : reg[d] # 0}
    BY DEF Owned
  <2>. QED BY <2>1, FS_Subset DEF Sized
<1>2. Weighs(reg, Owned(reg, drop))
  BY DEF Sized, Owned, Weighs
<1>. QED BY <1>1, <1>2, SumRemove, FS_CardinalityType

LEMMA OwnMore ==
    ASSUME NEW reg, Sized(reg), NEW d \in Digests, reg[d] = 0,
           NEW reg2, reg2 = [reg EXCEPT ![d] = SizeOf[d]]
    PROVE  /\ Sized(reg2)
           /\ Owned(reg2, {}) = Owned(reg, {}) \cup {d}
           /\ SumOver(reg2, Owned(reg2, {})) = SumOver(reg, Owned(reg, {})) + SizeOf[d]
           /\ Cardinality(Owned(reg2, {})) = Cardinality(Owned(reg, {})) + 1
<1>1. SizeOf[d] \in Nat \ {0}
  BY AccountAssumption
<1>2. reg2 \in [Digests -> Int] /\ reg2[d] = SizeOf[d] /\ \A x \in Digests \ {d} : reg2[x] = reg[x]
  BY <1>1 DEF Sized
<1>3. PICK S : S = Owned(reg, {})
  OBVIOUS
<1>4. d \notin S /\ \A x \in S : x \in Digests \ {d}
  BY <1>3 DEF Owned
<1>5. {x \in Digests : reg2[x] # 0} = S \cup {d}
  BY <1>1, <1>2, <1>3 DEF Owned
<1>6. Owned(reg2, {}) = S \cup {d}
  BY <1>5 DEF Owned
<1>7. IsFiniteSet(S) /\ Weighs(reg, S) /\ SumOver(reg, S) \in Int
  BY <1>3, OwnedSums
<1>8. IsFiniteSet(S \cup {d}) /\ Cardinality(S \cup {d}) = Cardinality(S) + 1
  BY <1>4, <1>7, FS_AddElement
<1>9. Sized(reg2)
  BY <1>2, <1>5, <1>8 DEF Sized
<1>10. SumOver(reg2, S) = SumOver(reg, S) /\ Weighs(reg2, S)
  <2>1. \A x \in S : reg2[x] = reg[x]
    BY <1>2, <1>4
  <2>2. Weighs(reg2, S)
    BY <1>7, <2>1 DEF Weighs
  <2>3. SumOver(reg2, S) = SumOver(reg, S)
    BY ONLY <1>7, <2>1, SumSame
  <2>. QED BY ONLY <2>2, <2>3
<1>11. SumOver(reg2, S \cup {d}) = SumOver(reg2, S) + reg2[d]
  BY <1>1, <1>2, <1>4, <1>7, <1>10, SumAdd
<1>12. SumOver(reg2, S \cup {d}) = SumOver(reg, S) + SizeOf[d]
  BY ONLY <1>2, <1>10, <1>11
<1>. QED BY ONLY <1>3, <1>6, <1>8, <1>9, <1>12

LEMMA OwnLess ==
    ASSUME NEW reg, Sized(reg), NEW d \in Digests, reg[d] # 0
    PROVE  /\ Owned(reg, {d}) = Owned(reg, {}) \ {d} /\ d \in Owned(reg, {})
           /\ SumOver(reg, Owned(reg, {d})) = SumOver(reg, Owned(reg, {})) - SizeOf[d]
           /\ Cardinality(Owned(reg, {d})) = Cardinality(Owned(reg, {})) - 1
<1>1. SizeOf[d] \in Int /\ reg[d] = SizeOf[d]
  BY AccountAssumption DEF Sized
<1>2. PICK S : S = Owned(reg, {})
  OBVIOUS
<1>3. Owned(reg, {d}) = S \ {d} /\ d \in S
  BY <1>2 DEF Owned
<1>4. IsFiniteSet(S) /\ Weighs(reg, S) /\ SumOver(reg, S) \in Int
  BY <1>2, OwnedSums
<1>5. SumOver(reg, S) = reg[d] + SumOver(reg, S \ {d})
  BY <1>3, <1>4, SumRemove
<1>6. SumOver(reg, S \ {d}) \in Int
  <2>1. SumOver(reg, Owned(reg, {d})) \in Int
    BY OwnedSums
  <2>. QED BY ONLY <1>3, <2>1
<1>7. Cardinality(S \ {d}) = Cardinality(S) - 1
  BY <1>3, <1>4, FS_RemoveElement
<1>8. SumOver(reg, S \ {d}) = SumOver(reg, S) - SizeOf[d]
  BY ONLY <1>1, <1>4, <1>5, <1>6
<1>. QED BY ONLY <1>2, <1>3, <1>7, <1>8

LEMMA OwnDropped ==
    ASSUME NEW reg, Sized(reg), NEW drop \in SUBSET Digests,
           NEW reg2, reg2 = [x \in Digests |-> IF x \in drop THEN 0 ELSE reg[x]]
    PROVE  /\ Sized(reg2)
           /\ Owned(reg2, {}) = Owned(reg, drop)
           /\ SumOver(reg2, Owned(reg2, {})) = SumOver(reg, Owned(reg, drop))
<1>1. /\ reg2 \in [Digests -> Int]
      /\ \A x \in Digests : reg2[x] = 0 \/ reg2[x] = reg[x]
      /\ \A x \in drop : reg2[x] = 0
      /\ \A x \in Digests \ drop : reg2[x] = reg[x]
  BY DEF Sized
<1>2. {x \in Digests : reg2[x] # 0} = Owned(reg, drop)
  BY <1>1 DEF Owned
<1>3. Owned(reg2, {}) = Owned(reg, drop)
  BY <1>2 DEF Owned
<1>4. IsFiniteSet(Owned(reg, drop)) /\ Weighs(reg, Owned(reg, drop))
  BY OwnedSums
<1>5. Sized(reg2)
  BY <1>1, <1>2, <1>4 DEF Sized
<1>6. \A x \in Owned(reg, drop) : reg2[x] = reg[x]
  BY <1>1 DEF Owned
<1>7. SumOver(reg2, Owned(reg, drop)) = SumOver(reg, Owned(reg, drop))
  BY <1>4, <1>6, SumSame
<1>. QED BY ONLY <1>3, <1>5, <1>7

----------------------------------------------------------------------------
\* The invariant of the accounts, with r and u the jobs of the two stores.

Readings == {Nothing} \cup {[digest |-> {d}, size |-> SizeOf[d]] : d \in Digests}

\* Types.  A remover that has read an entry knows the size of its blob, and no
\* row changed after the present.
Typed ==
    /\ backend \in {"postgres", "memory"}
    /\ now \in 1 .. MaxTime /\ changes \in Nat
    /\ Sized(registry)
    /\ uploads \in SUBSET Roots /\ IsFiniteSet(uploads)
    /\ total \in Counters /\ admin \in Counters
    /\ removing \in [Removers -> Readings]
    /\ DOMAIN held = {"registry", "upload"}
    /\ touched \in [Digests \cup Roots -> Int]
    /\ \A x \in Digests \cup Roots : touched[x] <= now

\* The logs hold no row twice: each byte change has a cause of its own, and an
\* upload change is recorded once for an instant and a cause.
LogsOK(bytesLog, upsLog, n) ==
    /\ Logged(bytesLog) /\ Logged(upsLog)
    /\ \A e \in bytesLog : e.cause <= n
    /\ \A e, f \in bytesLog : e.cause = f.cause => e = f
    /\ \A e, f \in upsLog : e.at = f.at /\ e.cause = f.cause => e = f

\* What a job does is in proportion: the counters move as the log does.
JobsOK(r, u) ==
    /\ IsJob(r) /\ IsJob(u)
    /\ Bytes(r.inc) = r.entry.delta /\ Counted(r.inc) = 0
    /\ r.subject \in SUBSET Digests
    /\ u.subject = {}
    /\ Bytes(u.inc) = 0 /\ Blobs(u.inc) = 0 /\ Counted(u.inc) = u.entry.delta

\* Only the memory stores have jobs, and only Postgres reads before it removes.
\* The row that is due to the byte log is later than all that are in it.
Locked(r, u) ==
    /\ held["registry"] = Rest("bytes", r) /\ held["upload"] = Rest("uploads", u)
    /\ backend = "postgres" => r = NoJob /\ u = NoJob
    /\ backend = "memory" => \A p \in Removers : removing[p] = Nothing
    /\ r.phase = "log" => /\ r.entry.cause <= changes
                          /\ \A e \in byteLog : e.cause < r.entry.cause

\* Counters, log and registry agree on the bytes and the blobs ...
Balanced(reg, log, tot, r) ==
    /\ Bytes(tot) + Bytes(SpaceDue(r)) = SumOf(log) + LogDue(r)
    /\ SumOf(log) + LogDue(r) = SumOver(reg, Owned(reg, DropDue(r)))
    /\ Blobs(tot) + Blobs(SpaceDue(r)) = Cardinality(Owned(reg, DropDue(r)))

\* ... counters and log agree on the uploads, and count them, unless an entry
\* was suppressed ...
Tallied(ups, log, tot, sup, u) ==
    /\ Counted(tot) + Counted(SpaceDue(u)) = SumOf(log) + LogDue(u)
    /\ ~sup => SumOf(log) + LogDue(u) = Cardinality(ups)

\* ... and the service counts what its spaces do.
Served(tot, adm, r, u) ==
    \A m \in Metrics : tot[m] + SpaceDue(r)[m] + SpaceDue(u)[m]
                         = adm[m] + AdminDue(r)[m] + AdminDue(u)[m]

AccountOK(r, u) ==
    /\ Typed
    /\ LogsOK(byteLog, uploadLog, changes)
    /\ JobsOK(r, u) /\ Locked(r, u)
    /\ Balanced(registry, byteLog, total, r)
    /\ Tallied(uploads, uploadLog, total, suppressed, u)
    /\ Served(total, admin, r, u)

AccountInv == \E r, u : AccountOK(r, u)

\* Where no job is under way nothing is due.
LEMMA NothingDue ==
    /\ LogDue(NoJob) = 0 /\ SpaceDue(NoJob) = NoInc /\ AdminDue(NoJob) = NoInc
    /\ DropDue(NoJob) = {} /\ NoJob.phase = "none" /\ NoJob.subject = {}
    /\ JobsOK(NoJob, NoJob)
<1>1. NoJob.phase = "none" /\ NoJob.subject = {} /\ NoJob.inc = NoInc
      /\ NoJob.entry = Entry(0, 0, 0)
  BY DEF NoJob
<1>2. Entry(0, 0, 0) \in Rows /\ Entry(0, 0, 0).delta = 0
  BY DEF Entry, Rows
<1>3. NoInc \in Counters /\ Bytes(NoInc) = 0 /\ Blobs(NoInc) = 0 /\ Counted(NoInc) = 0
  BY Increments
<1>4. JobsOK(NoJob, NoJob)
  BY <1>1, <1>2, <1>3 DEF JobsOK, IsJob, Phases
<1>. QED BY <1>1, <1>4 DEF LogDue, SpaceDue, AdminDue, DropDue

LEMMA PlainBalance ==
    ASSUME NEW reg, Sized(reg), NEW log, Logged(log), NEW tot \in Counters
    PROVE  Balanced(reg, log, tot, NoJob) <=>
             /\ Bytes(tot) = SumOf(log)
             /\ SumOf(log) = SumOver(reg, Owned(reg, {}))
             /\ Blobs(tot) = Cardinality(Owned(reg, {}))
<1>1. LogDue(NoJob) = 0 /\ SpaceDue(NoJob) = NoInc /\ DropDue(NoJob) = {}
  BY NothingDue
<1>2. Bytes(NoInc) = 0 /\ Blobs(NoInc) = 0 /\ NoInc \in Counters
  BY Increments
<1>3. Bytes(tot) \in Int /\ Blobs(tot) \in Int
  BY <1>2, Incremented
<1>4. SumOf(log) \in Int
  BY LogSum
<1>5. Balanced(reg, log, tot, NoJob) <=>
         /\ Bytes(tot) + 0 = SumOf(log) + 0
         /\ SumOf(log) + 0 = SumOver(reg, Owned(reg, {}))
         /\ Blobs(tot) + 0 = Cardinality(Owned(reg, {}))
  BY ONLY <1>1, <1>2 DEF Balanced
<1>. QED BY ONLY <1>3, <1>4, <1>5

LEMMA PlainTally ==
    ASSUME NEW ups, NEW log, Logged(log), NEW tot \in Counters, NEW sup
    PROVE  Tallied(ups, log, tot, sup, NoJob) <=>
             /\ Counted(tot) = SumOf(log)
             /\ ~sup => SumOf(log) = Cardinality(ups)
<1>1. LogDue(NoJob) = 0 /\ SpaceDue(NoJob) = NoInc
  BY NothingDue
<1>2. Counted(NoInc) = 0 /\ NoInc \in Counters
  BY Increments
<1>3. Counted(tot) \in Int
  BY <1>2, Incremented
<1>4. SumOf(log) \in Int
  BY LogSum
<1>5. Tallied(ups, log, tot, sup, NoJob) <=>
         /\ Counted(tot) + 0 = SumOf(log) + 0
         /\ ~sup => SumOf(log) + 0 = Cardinality(ups)
  BY ONLY <1>1, <1>2 DEF Tallied
<1>. QED BY ONLY <1>3, <1>4, <1>5

LEMMA PlainService ==
    ASSUME NEW tot \in Counters, NEW adm \in Counters
    PROVE  Served(tot, adm, NoJob, NoJob) <=> adm = tot
<1>1. SpaceDue(NoJob) = NoInc /\ AdminDue(NoJob) = NoInc
  BY NothingDue
<1>2. \A m \in Metrics : NoInc[m] = 0 /\ tot[m] \in Int /\ adm[m] \in Int
  BY DEF NoInc, Counters
<1>3. Served(tot, adm, NoJob, NoJob) <=>
        \A m \in Metrics : tot[m] + NoInc[m] + NoInc[m] = adm[m] + NoInc[m] + NoInc[m]
  BY ONLY <1>1 DEF Served
<1>4. Served(tot, adm, NoJob, NoJob) <=> \A m \in Metrics : tot[m] = adm[m]
  BY ONLY <1>2, <1>3
<1>5. (\A m \in Metrics : tot[m] = adm[m]) <=> adm = tot
  BY DEF Counters
<1>. QED BY ONLY <1>4, <1>5

----------------------------------------------------------------------------
\* Postgres: the accounts agree after every transaction.

Agreed ==
    /\ Bytes(total) = SumOf(byteLog)
    /\ SumOf(byteLog) = SumOver(registry, Owned(registry, {}))
    /\ Blobs(total) = Cardinality(Owned(registry, {}))
    /\ Counted(total) = SumOf(uploadLog)
    /\ ~suppressed => SumOf(uploadLog) = Cardinality(uploads)
    /\ admin = total

Committed ==
    /\ backend = "postgres"
    /\ Typed /\ LogsOK(byteLog, uploadLog, changes)
    /\ held["registry"] = <<>> /\ held["upload"] = <<>>
    /\ Agreed

LEMMA NoJobAgreed ==
    ASSUME Typed, LogsOK(byteLog, uploadLog, changes)
    PROVE  /\ Balanced(registry, byteLog, total, NoJob)
           /\ Tallied(uploads, uploadLog, total, suppressed, NoJob)
           /\ Served(total, admin, NoJob, NoJob)
           <=> Agreed
<1>1. Sized(registry) /\ total \in Counters /\ admin \in Counters
  BY DEF Typed
<1>2. Logged(byteLog) /\ Logged(uploadLog)
  BY DEF LogsOK
<1>3. Balanced(registry, byteLog, total, NoJob) <=>
             /\ Bytes(total) = SumOf(byteLog)
             /\ SumOf(byteLog) = SumOver(registry, Owned(registry, {}))
             /\ Blobs(total) = Cardinality(Owned(registry, {}))
  BY <1>1, <1>2, PlainBalance
<1>4. Tallied(uploads, uploadLog, total, suppressed, NoJob) <=>
             /\ Counted(total) = SumOf(uploadLog)
             /\ ~suppressed => SumOf(uploadLog) = Cardinality(uploads)
  BY <1>1, <1>2, PlainTally
<1>5. Served(total, admin, NoJob, NoJob) <=> admin = total
  BY <1>1, PlainService
<1>. QED BY ONLY <1>3, <1>4, <1>5 DEF Agreed

LEMMA PostgresAccounts == backend = "postgres" => (AccountInv <=> Committed)
<1> SUFFICES ASSUME backend = "postgres" PROVE AccountInv <=> Committed
  OBVIOUS
<1>1. ASSUME NEW r, NEW u, AccountOK(r, u) PROVE Committed
  <2>1. Typed /\ LogsOK(byteLog, uploadLog, changes)
    BY <1>1 DEF AccountOK
  <2>2. r = NoJob /\ u = NoJob
    BY <1>1 DEF AccountOK, Locked
  <2>3. /\ Balanced(registry, byteLog, total, NoJob)
        /\ Tallied(uploads, uploadLog, total, suppressed, NoJob)
        /\ Served(total, admin, NoJob, NoJob)
    BY <1>1, <2>2 DEF AccountOK
  <2>4. Agreed
    BY <2>1, <2>3, NoJobAgreed
  <2>5. held["registry"] = <<>> /\ held["upload"] = <<>>
    BY <1>1, <2>2, JobStarts DEF AccountOK, Locked
  <2>. QED BY <2>1, <2>4, <2>5 DEF Committed
<1>2. ASSUME Committed PROVE AccountOK(NoJob, NoJob)
  <2>1. Typed /\ LogsOK(byteLog, uploadLog, changes) /\ Agreed
    BY <1>2 DEF Committed
  <2>2. /\ Balanced(registry, byteLog, total, NoJob)
        /\ Tallied(uploads, uploadLog, total, suppressed, NoJob)
        /\ Served(total, admin, NoJob, NoJob)
    BY <2>1, NoJobAgreed
  <2>3. JobsOK(NoJob, NoJob) /\ NoJob.phase = "none"
    BY NothingDue
  <2>4. Locked(NoJob, NoJob)
    BY <1>2, <2>3, JobStarts DEF Committed, Locked
  <2>. QED BY <2>1, <2>2, <2>3, <2>4 DEF AccountOK
<1>. QED BY <1>1, <1>2 DEF AccountInv

\* What a change does to the types.
LEMMA ChangeTyped ==
    ASSUME Typed, NEW x \in Digests \cup Roots, Change(x),
           Sized(registry'), uploads' \in SUBSET Roots, IsFiniteSet(uploads'),
           total' \in Counters, admin' \in Counters,
           removing' \in [Removers -> Readings], DOMAIN held' = DOMAIN held
    PROVE  Typed'
<1>1. now' = now /\ changes' = changes + 1 /\ backend' = backend /\ touched' = [touched EXCEPT ![x] = now]
  BY DEF Change
<1>2. now \in Int /\ changes \in Nat
  BY DEF Typed
<1>3. touched' \in [Digests \cup Roots -> Int] /\ \A y \in Digests \cup Roots : touched'[y] <= now
  BY <1>1, <1>2 DEF Typed
<1>. QED BY <1>1, <1>2, <1>3 DEF Typed

LEMMA InstantTypes ==
    ASSUME Typed, NEW x \in Digests \cup Roots, NEW at \in Instants(x)
    PROVE  at \in Int /\ touched[x] \in Int /\ touched[x] <= at /\ at <= now
<1>1. now \in Int /\ Lag \in Int /\ touched[x] \in Int
  BY AccountAssumption DEF Typed
<1>. QED BY <1>1 DEF Instants

\* The log with one byte change more.
LEMMA ByteLogGrows ==
    ASSUME NEW log, NEW ups, NEW n \in Nat, LogsOK(log, ups, n), NEW at \in Int, NEW delta \in Int
    PROVE  /\ LogsOK(log \cup {Entry(at, n + 1, delta)}, ups, n + 1)
           /\ Entry(at, n + 1, delta) \notin log
           /\ SumOf(log \cup {Entry(at, n + 1, delta)}) = SumOf(log) + delta
<1>1. PICK e : e = Entry(at, n + 1, delta)
  OBVIOUS
<1>2. e \in Rows /\ e.at = at /\ e.cause = n + 1 /\ e.delta = delta
  BY <1>1 DEF Entry, Rows
<1>3. \A f \in log : f.cause \in Int /\ f.cause <= n
  BY DEF LogsOK, Logged, Rows
<1>4. e \notin log
  BY <1>2, <1>3
<1>5. Logged(log) /\ Logged(ups)
  BY DEF LogsOK
<1>6. Logged(log \cup {e}) /\ SumOf(log \cup {e}) = SumOf(log) + e.delta
  BY <1>2, <1>4, <1>5, LogAdd
<1>7. \A f \in log \cup {e} : f.cause <= n + 1
  BY <1>2, <1>3
<1>8. \A f, g \in log \cup {e} : f.cause = g.cause => f = g
  BY <1>2, <1>3 DEF LogsOK
<1>9. \A f, g \in ups : f.at = g.at /\ f.cause = g.cause => f = g
  BY DEF LogsOK
<1>10. LogsOK(log \cup {e}, ups, n + 1)
  BY ONLY <1>5, <1>6, <1>7, <1>8, <1>9 DEF LogsOK
<1>. QED BY ONLY <1>1, <1>2, <1>4, <1>6, <1>10

\* The log with one upload change more.
LEMMA UploadLogGrows ==
    ASSUME NEW log, NEW ups, NEW n \in Nat, LogsOK(log, ups, n),
           NEW at \in Int, NEW cause \in Int, NEW delta \in Int,
           ~\E e \in ups : e.at = at /\ e.cause = cause
    PROVE  /\ LogsOK(log, ups \cup {Entry(at, cause, delta)}, n)
           /\ Entry(at, cause, delta) \notin ups
           /\ SumOf(ups \cup {Entry(at, cause, delta)}) = SumOf(ups) + delta
<1>1. PICK e : e = Entry(at, cause, delta)
  OBVIOUS
<1>2. e \in Rows /\ e.at = at /\ e.cause = cause /\ e.delta = delta
  BY <1>1 DEF Entry, Rows
<1>4. e \notin ups
  BY <1>2
<1>5. Logged(log) /\ Logged(ups)
  BY DEF LogsOK
<1>6. Logged(ups \cup {e}) /\ SumOf(ups \cup {e}) = SumOf(ups) + e.delta
  BY <1>2, <1>4, <1>5, LogAdd
<1>8. \A f, g \in ups \cup {e} : f.at = g.at /\ f.cause = g.cause => f = g
  BY <1>2 DEF LogsOK
<1>10. LogsOK(log, ups \cup {e}, n)
  BY <1>5, <1>6, <1>8 DEF LogsOK
<1>. QED BY ONLY <1>1, <1>2, <1>4, <1>6, <1>10

LEMMA LogsLater ==
    ASSUME NEW log, NEW ups, NEW n \in Nat, LogsOK(log, ups, n)
    PROVE  LogsOK(log, ups, n + 1)
<1>1. \A e \in log : e.cause \in Int /\ e.cause <= n
  BY DEF LogsOK, Logged, Rows
<1>. QED BY <1>1 DEF LogsOK

\* One lemma for each transaction.
LEMMA RegisterCommits ==
    ASSUME Committed, NEW d \in Digests, Register(d)
    PROVE  Committed'
<1>1. Typed /\ LogsOK(byteLog, uploadLog, changes) /\ Agreed
  BY DEF Committed
<1>2. changes \in Nat /\ total \in Counters /\ Sized(registry)
  BY <1>1 DEF Typed
<1>3. /\ registry[d] = 0 /\ registry' = [registry EXCEPT ![d] = SizeOf[d]]
      /\ Change(d) /\ changes' = changes + 1 /\ backend' = backend
      /\ total' = Increment(total, AddInc(d)) /\ admin' = Increment(admin, AddInc(d))
      /\ UNCHANGED <<uploads, uploadLog, removing, held, suppressed>>
  BY DEF Register, Change, Move, IncrementSpace, IncrementAdmin
<1>4. PICK at \in Instants(d) : byteLog' = byteLog \cup {Entry(at, changes + 1, SizeOf[d])}
  BY <1>3 DEF Register, PutDiff
<1>5. at \in Int /\ SizeOf[d] \in Int
  BY <1>1, InstantTypes, AccountAssumption
<1>6. /\ LogsOK(byteLog', uploadLog', changes')
      /\ SumOf(byteLog') = SumOf(byteLog) + SizeOf[d]
  <2>1. /\ LogsOK(byteLog \cup {Entry(at, changes + 1, SizeOf[d])}, uploadLog, changes + 1)
        /\ SumOf(byteLog \cup {Entry(at, changes + 1, SizeOf[d])}) = SumOf(byteLog) + SizeOf[d]
    BY <1>1, <1>2, <1>5, ByteLogGrows
  <2>. QED BY ONLY <1>3, <1>4, <2>1
<1>7. /\ Sized(registry')
      /\ SumOver(registry', Owned(registry', {})) = SumOver(registry, Owned(registry, {})) + SizeOf[d]
      /\ Cardinality(Owned(registry', {})) = Cardinality(Owned(registry, {})) + 1
  BY <1>2, <1>3, OwnMore
<1>8. AddInc(d) \in Counters /\ Bytes(AddInc(d)) = SizeOf[d] /\ Blobs(AddInc(d)) = 1
      /\ Counted(AddInc(d)) = 0
  BY Increments
<1>9. /\ total' \in Counters
      /\ Bytes(total') = Bytes(total) + SizeOf[d]
      /\ Blobs(total') = Blobs(total) + 1
      /\ Counted(total') = Counted(total) + 0 /\ Counted(total) \in Int
  BY <1>2, <1>3, <1>8, Incremented
<1>10. admin' = total'
  BY <1>1, <1>3 DEF Agreed
<1>11. Agreed'
  <2>1. Bytes(total') = SumOf(byteLog')
    BY <1>1, <1>6, <1>9 DEF Agreed
  <2>2. SumOf(byteLog') = SumOver(registry', Owned(registry', {}))
    BY <1>1, <1>6, <1>7 DEF Agreed
  <2>3. Blobs(total') = Cardinality(Owned(registry', {}))
    BY <1>1, <1>7, <1>9 DEF Agreed
  <2>4. Counted(total') = SumOf(uploadLog')
    BY <1>1, <1>3, <1>9 DEF Agreed
  <2>5. ~suppressed' => SumOf(uploadLog') = Cardinality(uploads')
    BY <1>1, <1>3 DEF Agreed
  <2>. QED BY <1>10, <2>1, <2>2, <2>3, <2>4, <2>5 DEF Agreed
<1>12. Typed'
  BY <1>1, <1>3, <1>7, <1>9, <1>10, ChangeTyped DEF Typed
<1>. QED BY <1>3, <1>6, <1>11, <1>12 DEF Committed

LEMMA DeregisterCommits ==
    ASSUME Committed, NEW p \in Removers, DeregisterCommit(p)
    PROVE  Committed'
<1>1. Typed /\ LogsOK(byteLog, uploadLog, changes) /\ Agreed
  BY DEF Committed
<1>2. changes \in Nat /\ total \in Counters /\ Sized(registry) /\ removing \in [Removers -> Readings]
  BY <1>1 DEF Typed
<1>3. PICK d \in removing[p].digest :
            /\ registry[d] # 0 /\ Change(d)
            /\ registry' = [registry EXCEPT ![d] = 0]
            /\ \E at \in Instants(d) : PutDiff(at, changes', -removing[p].size)
            /\ Move(RemoveInc(removing[p].size))
            /\ removing' = [removing EXCEPT ![p] = Nothing]
            /\ UNCHANGED <<uploads, uploadLog, held, suppressed>>
  BY DEF DeregisterCommit
<1>4. d \in Digests /\ removing[p].size = SizeOf[d]
  BY <1>2, <1>3 DEF Readings, Nothing
<1>5. changes' = changes + 1 /\ backend' = backend
      /\ total' = Increment(total, RemoveInc(SizeOf[d])) /\ admin' = Increment(admin, RemoveInc(SizeOf[d]))
  BY <1>3, <1>4 DEF Change, Move, IncrementSpace, IncrementAdmin
<1>6. PICK at \in Instants(d) : byteLog' = byteLog \cup {Entry(at, changes + 1, -SizeOf[d])}
  BY <1>3, <1>4, <1>5 DEF PutDiff
<1>7. at \in Int /\ SizeOf[d] \in Int /\ -SizeOf[d] \in Int
  BY <1>1, <1>4, InstantTypes, AccountAssumption
<1>8. /\ LogsOK(byteLog', uploadLog', changes')
      /\ SumOf(byteLog') = SumOf(byteLog) + (-SizeOf[d])
  <2>1. PICK delta \in Int : delta = -SizeOf[d]
    BY <1>7
  <2>2. /\ LogsOK(byteLog \cup {Entry(at, changes + 1, delta)}, uploadLog, changes + 1)
        /\ SumOf(byteLog \cup {Entry(at, changes + 1, delta)}) = SumOf(byteLog) + delta
    <3>1. PICK log, ups, n : log = byteLog /\ ups = uploadLog /\ n = changes
      OBVIOUS
    <3>2. LogsOK(log, ups, n) /\ n \in Nat /\ at \in Int /\ delta \in Int
      BY <1>1, <1>2, <1>7, <3>1
    <3>3. /\ LogsOK(log \cup {Entry(at, n + 1, delta)}, ups, n + 1)
          /\ SumOf(log \cup {Entry(at, n + 1, delta)}) = SumOf(log) + delta
      BY ONLY <3>2, ByteLogGrows
    <3>. QED BY ONLY <3>1, <3>3
  <2>. QED BY ONLY <1>3, <1>5, <1>6, <2>1, <2>2
<1>9. registry' = [x \in Digests |-> IF x \in {d} THEN 0 ELSE registry[x]]
  BY <1>2, <1>3, <1>4 DEF Sized
<1>10. /\ Sized(registry') /\ Owned(registry', {}) = Owned(registry, {d})
       /\ SumOver(registry', Owned(registry', {})) = SumOver(registry, Owned(registry, {d}))
  BY <1>2, <1>4, <1>9, OwnDropped
<1>11. /\ SumOver(registry, Owned(registry, {d})) = SumOver(registry, Owned(registry, {})) - SizeOf[d]
       /\ Cardinality(Owned(registry, {d})) = Cardinality(Owned(registry, {})) - 1
  BY <1>2, <1>3, <1>4, OwnLess
<1>12. /\ RemoveInc(SizeOf[d]) \in Counters /\ Bytes(RemoveInc(SizeOf[d])) = -SizeOf[d]
       /\ Blobs(RemoveInc(SizeOf[d])) = -1 /\ Counted(RemoveInc(SizeOf[d])) = 0
  BY <1>7, Increments
<1>13. /\ total' \in Counters
       /\ Bytes(total') = Bytes(total) + (-SizeOf[d]) /\ Bytes(total) \in Int
       /\ Blobs(total') = Blobs(total) + (-1) /\ Blobs(total) \in Int
       /\ Counted(total') = Counted(total) + 0 /\ Counted(total) \in Int
  BY <1>2, <1>5, <1>12, Incremented
<1>14. admin' = total'
  BY <1>1, <1>5 DEF Agreed
<1>15. Agreed'
  <2>1. Bytes(total') = SumOf(byteLog')
    BY <1>1, <1>8, <1>13 DEF Agreed
  <2>2. SumOf(byteLog') = SumOver(registry', Owned(registry', {}))
    <3>1. SumOf(byteLog) = SumOver(registry, Owned(registry, {})) /\ SumOf(byteLog) \in Int
      BY <1>1, <1>13 DEF Agreed
    <3>. QED BY ONLY <1>7, <1>8, <1>10, <1>11, <3>1
  <2>3. Blobs(total') = Cardinality(Owned(registry', {}))
    <3>1. Blobs(total) = Cardinality(Owned(registry, {}))
      BY <1>1 DEF Agreed
    <3>. QED BY ONLY <1>10, <1>11, <1>13, <3>1
  <2>4. Counted(total') = SumOf(uploadLog')
    BY <1>1, <1>3, <1>13 DEF Agreed
  <2>5. ~suppressed' => SumOf(uploadLog') = Cardinality(uploads')
    BY <1>1, <1>3 DEF Agreed
  <2>. QED BY <1>14, <2>1, <2>2, <2>3, <2>4, <2>5 DEF Agreed
<1>16. removing' \in [Removers -> Readings]
  BY <1>2, <1>3 DEF Readings
<1>17. Typed'
  BY <1>1, <1>3, <1>4, <1>10, <1>13, <1>14, <1>16, ChangeTyped DEF Typed
<1>. QED BY <1>3, <1>5, <1>8, <1>15, <1>17 DEF Committed

\* recordDelta of a change of the uploads by delta: Upsert and Remove.
LEMMA RecordDeltaCommits ==
    ASSUME Committed, NEW root \in Roots, NEW cause \in AddCauses \cup RemoveCauses,
           NEW delta \in {1, -1}, Change(root), RecordDelta(root, cause, delta),
           uploads' \in SUBSET Roots, IsFiniteSet(uploads'),
           Cardinality(uploads') = Cardinality(uploads) + delta,
           UNCHANGED <<registry, byteLog, removing, held>>
    PROVE  Committed'
<1>1. Typed /\ LogsOK(byteLog, uploadLog, changes) /\ Agreed
  BY DEF Committed
<1>2. changes \in Nat /\ total \in Counters /\ Sized(registry)
  BY <1>1 DEF Typed
<1>3. changes' = changes + 1 /\ backend' = backend
  BY DEF Change
<1>4. PICK at \in Instants(root) :
        IF Recorded(at, cause)
        THEN suppressed' = TRUE /\ UNCHANGED <<uploadLog, total, admin>>
        ELSE /\ uploadLog' = uploadLog \cup {Entry(at, cause, delta)}
             /\ Move(UploadInc(delta))
             /\ UNCHANGED suppressed
  BY DEF RecordDelta
<1>5. at \in Int /\ cause \in Int /\ delta \in Int
  BY <1>1, InstantTypes, AccountAssumption
<1>6. LogsOK(byteLog, uploadLog, changes')
  BY <1>1, <1>2, <1>3, LogsLater
<1>7. CASE Recorded(at, cause)
  <2>1. suppressed' /\ UNCHANGED <<uploadLog, total, admin>>
    BY <1>4, <1>7
  <2>2. Agreed'
    BY <1>1, <2>1 DEF Agreed
  <2>3. Typed'
    BY <1>1, <2>1, ChangeTyped DEF Typed
  <2>. QED BY <1>3, <1>6, <2>1, <2>2, <2>3 DEF Committed
<1>8. CASE ~Recorded(at, cause)
  <2>1. /\ uploadLog' = uploadLog \cup {Entry(at, cause, delta)}
        /\ total' = Increment(total, UploadInc(delta)) /\ admin' = Increment(admin, UploadInc(delta))
        /\ UNCHANGED suppressed
    BY <1>4, <1>8 DEF Move, IncrementSpace, IncrementAdmin
  <2>2. /\ LogsOK(byteLog, uploadLog', changes')
        /\ SumOf(uploadLog') = SumOf(uploadLog) + delta
    <3>1. ~\E e \in uploadLog : e.at = at /\ e.cause = cause
      BY <1>8 DEF Recorded
    <3>2. changes' \in Nat
      BY <1>2, <1>3
    <3>. QED BY <1>5, <1>6, <2>1, <3>1, <3>2, UploadLogGrows
  <2>3. UploadInc(delta) \in Counters /\ Bytes(UploadInc(delta)) = 0 /\ Blobs(UploadInc(delta)) = 0
        /\ Counted(UploadInc(delta)) = delta
    BY Increments
  <2>4. /\ total' \in Counters
        /\ Bytes(total') = Bytes(total) + 0 /\ Bytes(total) \in Int
        /\ Blobs(total') = Blobs(total) + 0 /\ Blobs(total) \in Int
        /\ Counted(total') = Counted(total) + delta
    BY <1>2, <2>1, <2>3, Incremented
  <2>5. admin' = total'
    BY <1>1, <2>1 DEF Agreed
  <2>6. Agreed'
    <3>1. Bytes(total') = Bytes(total) /\ Blobs(total') = Blobs(total)
      BY <2>4
    <3>2. Counted(total') = SumOf(uploadLog')
      BY <1>1, <2>2, <2>4 DEF Agreed
    <3>3. ~suppressed' => SumOf(uploadLog') = Cardinality(uploads')
      BY <1>1, <2>1, <2>2 DEF Agreed
    <3>. QED BY <1>1, <2>5, <3>1, <3>2, <3>3 DEF Agreed
  <2>7. Typed'
    BY <1>1, <2>4, <2>5, ChangeTyped DEF Typed
  <2>. QED BY <1>3, <2>2, <2>6, <2>7 DEF Committed
<1>. QED BY <1>7, <1>8

LEMMA UpsertCommits ==
    ASSUME Committed, NEW root \in Roots, NEW cause \in AddCauses, Upsert(root, cause)
    PROVE  Committed'
<1>1. Typed /\ LogsOK(byteLog, uploadLog, changes) /\ Agreed
  BY DEF Committed
<1>2. changes \in Nat /\ IsFiniteSet(uploads) /\ uploads \in SUBSET Roots
  BY <1>1 DEF Typed
<1>3. /\ Change(root) /\ changes' = changes + 1 /\ backend' = backend
      /\ uploads' = uploads \cup {root}
      /\ UNCHANGED <<registry, byteLog, removing, held>>
  BY DEF Upsert, Change
<1>4. CASE root \in uploads
  <2>1. UNCHANGED <<uploads, uploadLog, total, admin, suppressed>>
    BY <1>3, <1>4 DEF Upsert
  <2>2. Agreed'
    BY <1>1, <1>3, <2>1 DEF Agreed
  <2>3. Typed'
    BY <1>1, <1>3, <2>1, ChangeTyped DEF Typed
  <2>4. LogsOK(byteLog, uploadLog, changes')
    BY <1>1, <1>2, <1>3, LogsLater
  <2>. QED BY <1>3, <2>1, <2>2, <2>3, <2>4 DEF Committed
<1>5. CASE root \notin uploads
  <2>1. RecordDelta(root, cause, 1)
    BY <1>5 DEF Upsert
  <2>2. IsFiniteSet(uploads') /\ Cardinality(uploads') = Cardinality(uploads) + 1
    BY <1>2, <1>3, <1>5, FS_AddElement
  <2>3. uploads' \in SUBSET Roots
    BY <1>2, <1>3
  <2>. QED BY <1>3, <2>1, <2>2, <2>3, RecordDeltaCommits
<1>. QED BY <1>4, <1>5

LEMMA RemoveCommits ==
    ASSUME Committed, NEW root \in Roots, NEW cause \in RemoveCauses, RemoveUpload(root, cause)
    PROVE  Committed'
<1>1. IsFiniteSet(uploads) /\ uploads \in SUBSET Roots
  BY DEF Committed, Typed
<1>2. /\ Change(root) /\ root \in uploads /\ uploads' = uploads \ {root}
      /\ RecordDelta(root, cause, -1)
      /\ UNCHANGED <<registry, byteLog, removing, held>>
  BY DEF RemoveUpload
<1>3. IsFiniteSet(uploads') /\ Cardinality(uploads') = Cardinality(uploads) - 1
      /\ Cardinality(uploads) \in Nat
  BY <1>1, <1>2, FS_RemoveElement, FS_CardinalityType
<1>4. Cardinality(uploads') = Cardinality(uploads) + (-1)
  BY <1>3
<1>5. uploads' \in SUBSET Roots
  BY <1>1, <1>2
<1>. QED BY <1>2, <1>3, <1>4, <1>5, RecordDeltaCommits

\* The steps that only read, give up or let time pass.
LEMMA ReadCommits ==
    ASSUME Committed,
           \/ \E p \in Removers : (\E d \in Digests : DeregisterRead(p, d)) \/ DeregisterEnd(p)
           \/ Tick
    PROVE  Committed'
<1>1. UNCHANGED <<backend, registry, uploads, byteLog, uploadLog, total, admin, held, touched,
                  changes, suppressed>>
  BY DEF DeregisterRead, DeregisterEnd, Tick
<1>2. now' \in 1 .. MaxTime /\ now <= now'
  BY AccountAssumption DEF Committed, Typed, DeregisterRead, DeregisterEnd, Tick
<1>3. removing' \in [Removers -> Readings]
  <2>1. removing \in [Removers -> Readings] /\ Nothing \in Readings
    BY DEF Committed, Typed, Readings
  <2>2. CASE Tick
    BY <2>1, <2>2 DEF Tick
  <2>3. ASSUME NEW p \in Removers, DeregisterEnd(p) PROVE removing' \in [Removers -> Readings]
    BY <2>1, <2>3 DEF DeregisterEnd
  <2>4. ASSUME NEW p \in Removers, NEW d \in Digests, DeregisterRead(p, d)
        PROVE  removing' \in [Removers -> Readings]
    <3>1. registry[d] = SizeOf[d]
      BY <2>4 DEF Committed, Typed, Sized, DeregisterRead
    <3>2. [digest |-> {d}, size |-> registry[d]] \in Readings
      BY <3>1 DEF Readings
    <3>. QED BY <2>1, <2>4, <3>2 DEF DeregisterRead
  <2>. QED BY <2>2, <2>3, <2>4
<1>4. Typed'
  <2>1. Typed
    BY DEF Committed
  <2>2. now \in Int /\ now' \in Int /\ \A x \in Digests \cup Roots : touched[x] \in Int /\ touched[x] <= now
    BY <1>2, <2>1 DEF Typed
  <2>3. \A x \in Digests \cup Roots : touched'[x] <= now'
    BY <1>1, <1>2, <2>2
  <2>. QED BY <1>1, <1>2, <1>3, <2>1, <2>3 DEF Typed
<1>. QED BY <1>1, <1>4 DEF Committed, Agreed

----------------------------------------------------------------------------
\* Memory: a job starts, takes its steps and ends.

LEMMA Dues ==
    ASSUME NEW j, IsJob(j)
    PROVE  /\ LogDue(j) \in Int /\ SpaceDue(j) \in Counters /\ AdminDue(j) \in Counters
           /\ j.phase = "none" => /\ LogDue(j) = 0 /\ SpaceDue(j) = NoInc
                                  /\ AdminDue(j) = NoInc /\ DropDue(j) = {}
           /\ j.phase = "log" => /\ LogDue(j) = j.entry.delta /\ SpaceDue(j) = j.inc
                                 /\ AdminDue(j) = j.inc /\ DropDue(j) = j.subject
           /\ j.phase = "space" => /\ LogDue(j) = 0 /\ SpaceDue(j) = j.inc
                                   /\ AdminDue(j) = j.inc /\ DropDue(j) = j.subject
           /\ j.phase = "admin" => /\ LogDue(j) = 0 /\ SpaceDue(j) = NoInc
                                   /\ AdminDue(j) = j.inc /\ DropDue(j) = j.subject
           /\ j.phase = "drop" => /\ LogDue(j) = 0 /\ SpaceDue(j) = NoInc
                                  /\ AdminDue(j) = NoInc /\ DropDue(j) = j.subject
<1>1. NoInc \in Counters
  BY Increments
<1>2. j.inc \in Counters /\ j.entry.delta \in Int
  BY DEF IsJob, Rows
<1>. QED BY <1>1, <1>2 DEF LogDue, SpaceDue, AdminDue, DropDue

\* What is balanced depends only on what is due.
LEMMA SameDues ==
    ASSUME NEW r, NEW r2, LogDue(r) = LogDue(r2), SpaceDue(r) = SpaceDue(r2),
           AdminDue(r) = AdminDue(r2), DropDue(r) = DropDue(r2),
           NEW a, NEW b, NEW c, NEW d
    PROVE  /\ Balanced(a, b, c, r) <=> Balanced(a, b, c, r2)
           /\ Tallied(a, b, c, d, r) <=> Tallied(a, b, c, d, r2)
           /\ Served(a, b, r, c) <=> Served(a, b, r2, c)
           /\ Served(a, b, c, r) <=> Served(a, b, c, r2)
<1>1. Balanced(a, b, c, r) <=> Balanced(a, b, c, r2)
  BY DEF Balanced
<1>2. Tallied(a, b, c, d, r) <=> Tallied(a, b, c, d, r2)
  BY DEF Tallied
<1>3. Served(a, b, r, c) <=> Served(a, b, r2, c)
  BY DEF Served
<1>4. Served(a, b, c, r) <=> Served(a, b, c, r2)
  BY DEF Served
<1>. QED BY <1>1, <1>2, <1>3, <1>4

\* What both jobs owe the service they still owe the space, or they have paid
\* it: a job that starts owes both the same.
LEMMA ServedStart ==
    ASSUME NEW tot \in Counters, NEW adm \in Counters, NEW r, NEW r2, NEW u,
           IsJob(r), IsJob(r2), IsJob(u), r.phase = "none", r2.phase = "log"
    PROVE  /\ Served(tot, adm, r, u) => Served(tot, adm, r2, u)
           /\ Served(tot, adm, u, r) => Served(tot, adm, u, r2)
           /\ Served(tot, adm, r2, u) => Served(tot, adm, r, u)
           /\ Served(tot, adm, u, r2) => Served(tot, adm, u, r)
<1>1. SpaceDue(r) = NoInc /\ AdminDue(r) = NoInc /\ SpaceDue(r2) = r2.inc /\ AdminDue(r2) = r2.inc
  BY Dues
<1>2. ASSUME NEW m \in Metrics
      PROVE  /\ tot[m] \in Int /\ adm[m] \in Int /\ r2.inc[m] \in Int /\ NoInc[m] = 0
             /\ SpaceDue(u)[m] \in Int /\ AdminDue(u)[m] \in Int
  <2>1. SpaceDue(u) \in Counters /\ AdminDue(u) \in Counters /\ r2.inc \in Counters
    BY Dues DEF IsJob
  <2>. QED BY <2>1 DEF Counters, NoInc
<1>3. Served(tot, adm, r, u) <=>
        \A m \in Metrics : tot[m] + NoInc[m] + SpaceDue(u)[m] = adm[m] + NoInc[m] + AdminDue(u)[m]
  BY ONLY <1>1 DEF Served
<1>4. Served(tot, adm, r2, u) <=>
        \A m \in Metrics : tot[m] + r2.inc[m] + SpaceDue(u)[m] = adm[m] + r2.inc[m] + AdminDue(u)[m]
  BY ONLY <1>1 DEF Served
<1>5. Served(tot, adm, u, r) <=>
        \A m \in Metrics : tot[m] + SpaceDue(u)[m] + NoInc[m] = adm[m] + AdminDue(u)[m] + NoInc[m]
  BY ONLY <1>1 DEF Served
<1>6. Served(tot, adm, u, r2) <=>
        \A m \in Metrics : tot[m] + SpaceDue(u)[m] + r2.inc[m] = adm[m] + AdminDue(u)[m] + r2.inc[m]
  BY ONLY <1>1 DEF Served
<1>7. Served(tot, adm, r, u) <=> Served(tot, adm, r2, u)
  BY ONLY <1>2, <1>3, <1>4
<1>8. Served(tot, adm, u, r) <=> Served(tot, adm, u, r2)
  BY ONLY <1>2, <1>5, <1>6
<1>. QED BY <1>7, <1>8

LEMMA ServedSpace ==
    ASSUME NEW tot \in Counters, NEW adm \in Counters, NEW r, NEW r2, NEW u,
           IsJob(r), IsJob(r2), IsJob(u), r.phase = "space", r2.phase = "admin", r2.inc = r.inc
    PROVE  /\ Served(tot, adm, r, u) => Served(Increment(tot, r.inc), adm, r2, u)
           /\ Served(tot, adm, u, r) => Served(Increment(tot, r.inc), adm, u, r2)
<1>1. SpaceDue(r) = r.inc /\ AdminDue(r) = r.inc /\ SpaceDue(r2) = NoInc /\ AdminDue(r2) = r.inc
  BY Dues
<1>2. ASSUME NEW m \in Metrics
      PROVE  /\ tot[m] \in Int /\ adm[m] \in Int /\ r.inc[m] \in Int /\ NoInc[m] = 0
             /\ SpaceDue(u)[m] \in Int /\ AdminDue(u)[m] \in Int
             /\ Increment(tot, r.inc)[m] = tot[m] + r.inc[m]
  <2>1. SpaceDue(u) \in Counters /\ AdminDue(u) \in Counters /\ r.inc \in Counters
    BY Dues DEF IsJob
  <2>2. Increment(tot, r.inc)[m] = tot[m] + r.inc[m]
    BY <2>1, Incremented
  <2>. QED BY <2>1, <2>2 DEF Counters, NoInc
<1>3. Served(tot, adm, r, u) <=>
        \A m \in Metrics : tot[m] + r.inc[m] + SpaceDue(u)[m] = adm[m] + r.inc[m] + AdminDue(u)[m]
  BY ONLY <1>1 DEF Served
<1>4. Served(Increment(tot, r.inc), adm, r2, u) <=>
        \A m \in Metrics : Increment(tot, r.inc)[m] + NoInc[m] + SpaceDue(u)[m]
                             = adm[m] + r.inc[m] + AdminDue(u)[m]
  BY ONLY <1>1 DEF Served
<1>5. Served(tot, adm, u, r) <=>
        \A m \in Metrics : tot[m] + SpaceDue(u)[m] + r.inc[m] = adm[m] + AdminDue(u)[m] + r.inc[m]
  BY ONLY <1>1 DEF Served
<1>6. Served(Increment(tot, r.inc), adm, u, r2) <=>
        \A m \in Metrics : Increment(tot, r.inc)[m] + SpaceDue(u)[m] + NoInc[m]
                             = adm[m] + AdminDue(u)[m] + r.inc[m]
  BY ONLY <1>1 DEF Served
<1>7. Served(tot, adm, r, u) => Served(Increment(tot, r.inc), adm, r2, u)
  BY ONLY <1>2, <1>3, <1>4
<1>8. Served(tot, adm, u, r) => Served(Increment(tot, r.inc), adm, u, r2)
  BY ONLY <1>2, <1>5, <1>6
<1>. QED BY <1>7, <1>8

LEMMA ServedAdmin ==
    ASSUME NEW tot \in Counters, NEW adm \in Counters, NEW r, NEW r2, NEW u,
           IsJob(r), IsJob(r2), IsJob(u), r.phase = "admin", r2.phase \in {"drop", "none"}
    PROVE  /\ Served(tot, adm, r, u) => Served(tot, Increment(adm, r.inc), r2, u)
           /\ Served(tot, adm, u, r) => Served(tot, Increment(adm, r.inc), u, r2)
<1>1. SpaceDue(r) = NoInc /\ AdminDue(r) = r.inc /\ SpaceDue(r2) = NoInc /\ AdminDue(r2) = NoInc
  BY Dues
<1>2. ASSUME NEW m \in Metrics
      PROVE  /\ tot[m] \in Int /\ adm[m] \in Int /\ r.inc[m] \in Int /\ NoInc[m] = 0
             /\ SpaceDue(u)[m] \in Int /\ AdminDue(u)[m] \in Int
             /\ Increment(adm, r.inc)[m] = adm[m] + r.inc[m]
  <2>1. SpaceDue(u) \in Counters /\ AdminDue(u) \in Counters /\ r.inc \in Counters
    BY Dues DEF IsJob
  <2>2. Increment(adm, r.inc)[m] = adm[m] + r.inc[m]
    BY <2>1, Incremented
  <2>. QED BY <2>1, <2>2 DEF Counters, NoInc
<1>3. Served(tot, adm, r, u) <=>
        \A m \in Metrics : tot[m] + NoInc[m] + SpaceDue(u)[m] = adm[m] + r.inc[m] + AdminDue(u)[m]
  BY ONLY <1>1 DEF Served
<1>4. Served(tot, Increment(adm, r.inc), r2, u) <=>
        \A m \in Metrics : tot[m] + NoInc[m] + SpaceDue(u)[m]
                             = Increment(adm, r.inc)[m] + NoInc[m] + AdminDue(u)[m]
  BY ONLY <1>1 DEF Served
<1>5. Served(tot, adm, u, r) <=>
        \A m \in Metrics : tot[m] + SpaceDue(u)[m] + NoInc[m] = adm[m] + AdminDue(u)[m] + r.inc[m]
  BY ONLY <1>1 DEF Served
<1>6. Served(tot, Increment(adm, r.inc), u, r2) <=>
        \A m \in Metrics : tot[m] + SpaceDue(u)[m] + NoInc[m]
                             = Increment(adm, r.inc)[m] + AdminDue(u)[m] + NoInc[m]
  BY ONLY <1>1 DEF Served
<1>7. Served(tot, adm, r, u) => Served(tot, Increment(adm, r.inc), r2, u)
  BY ONLY <1>2, <1>3, <1>4
<1>8. Served(tot, adm, u, r) => Served(tot, Increment(adm, r.inc), u, r2)
  BY ONLY <1>2, <1>5, <1>6
<1>. QED BY <1>7, <1>8

\* Nothing is held: the job is over.
LEMMA JobOver ==
    ASSUME NEW kind, NEW j, IsJob(j), Rest(kind, j) = <<>>
    PROVE  j.phase = "none"
BY JobSteps

\* A job starts at the registry: what it is due makes up for what is owned.
LEMMA RegistryJobStarts ==
    ASSUME NEW r, NEW u, AccountOK(r, u), NEW x \in Digests,
           NEW r2, JobsOK(r2, u), r2.phase = "log", r2.entry.cause = changes + 1,
           Hold("registry", x, Rest("bytes", r2)),
           UNCHANGED <<uploads, byteLog, uploadLog, total, admin, removing, suppressed>>,
           Sized(registry'),
           SumOver(registry', Owned(registry', r2.subject))
             = SumOver(registry, Owned(registry, {})) + r2.entry.delta,
           Cardinality(Owned(registry', r2.subject))
             = Cardinality(Owned(registry, {})) + Blobs(r2.inc)
    PROVE  AccountInv'
<1>1. Typed /\ LogsOK(byteLog, uploadLog, changes) /\ JobsOK(r, u) /\ Locked(r, u)
  BY DEF AccountOK
<1>2. /\ backend = "memory" /\ held["registry"] = <<>> /\ Change(x)
      /\ held' = [held EXCEPT !["registry"] = Rest("bytes", r2)]
      /\ changes' = changes + 1 /\ backend' = backend
  BY DEF Hold, Change
<1>3. IsJob(r) /\ IsJob(u) /\ IsJob(r2)
  BY <1>1 DEF JobsOK
<1>4. r.phase = "none"
  BY <1>1, <1>2, <1>3, JobOver DEF Locked
<1>5. changes \in Nat /\ total \in Counters /\ admin \in Counters /\ DOMAIN held = {"registry", "upload"}
  BY <1>1 DEF Typed
<1>6. Typed'
  <2>1. DOMAIN held' = DOMAIN held
    BY <1>2
  <2>. QED BY <1>1, <1>2, <2>1, ChangeTyped DEF Typed
<1>7. LogsOK(byteLog', uploadLog', changes')
  <2>1. LogsOK(byteLog, uploadLog, changes + 1)
    BY <1>1, <1>5, LogsLater
  <2>. QED BY <1>2, <2>1
<1>8. Locked(r2, u)'
  <2>1. held'["registry"] = Rest("bytes", r2) /\ held'["upload"] = held["upload"]
    BY <1>2, <1>5
  <2>2. \A e \in byteLog : e.cause \in Int /\ e.cause <= changes
    BY <1>1 DEF LogsOK, Logged, Rows
  <2>3. r2.entry.cause <= changes' /\ \A e \in byteLog : e.cause < r2.entry.cause
    BY <1>2, <1>5, <2>2
  <2>4. held["upload"] = Rest("uploads", u) /\ \A p \in Removers : removing[p] = Nothing
    BY <1>1, <1>2 DEF Locked
  <2>. QED BY <1>2, <2>1, <2>3, <2>4 DEF Locked
<1>9. Balanced(registry, byteLog, total, r)
  BY DEF AccountOK
<1>10. Balanced(registry', byteLog, total, r2)
  <2>1. LogDue(r) = 0 /\ SpaceDue(r) = NoInc /\ DropDue(r) = {}
    BY <1>3, <1>4, Dues
  <2>2. LogDue(r2) = r2.entry.delta /\ SpaceDue(r2) = r2.inc /\ DropDue(r2) = r2.subject
        /\ r2.entry.delta \in Int
    BY <1>3, Dues DEF IsJob, Rows
  <2>3. Bytes(NoInc) = 0 /\ Blobs(NoInc) = 0 /\ Bytes(r2.inc) = r2.entry.delta
    BY Increments DEF JobsOK
  <2>4. Bytes(total) \in Int /\ Blobs(total) \in Int /\ Blobs(r2.inc) \in Int
    <3>1. r2.inc \in Counters
      BY <1>3 DEF IsJob
    <3>. QED BY <1>5, <3>1, Incremented
  <2>5. SumOf(byteLog) \in Int
    BY <1>1, LogSum DEF LogsOK
  <2>6. /\ Bytes(total) + 0 = SumOf(byteLog) + 0
        /\ SumOf(byteLog) + 0 = SumOver(registry, Owned(registry, {}))
        /\ Blobs(total) + 0 = Cardinality(Owned(registry, {}))
    BY ONLY <1>9, <2>1, <2>3 DEF Balanced
  <2>7. /\ Bytes(total) + r2.entry.delta = SumOf(byteLog) + r2.entry.delta
        /\ SumOf(byteLog) + r2.entry.delta = SumOver(registry', Owned(registry', r2.subject))
        /\ Blobs(total) + Blobs(r2.inc) = Cardinality(Owned(registry', r2.subject))
    BY <2>2, <2>4, <2>5, <2>6
  <2>. QED BY ONLY <2>2, <2>3, <2>7 DEF Balanced
<1>11. Served(total, admin, r2, u)
  <2>1. Served(total, admin, r, u)
    BY DEF AccountOK
  <2>. QED BY <1>3, <1>4, <1>5, <2>1, ServedStart
<1>12. Tallied(uploads, uploadLog, total, suppressed, u)
  BY DEF AccountOK
<1>13. AccountOK(r2, u)'
  BY <1>6, <1>7, <1>8, <1>10, <1>11, <1>12 DEF AccountOK
<1>. QED BY <1>13 DEF AccountInv

\* A job of the uploads starts, with the change that it accounts for.
LEMMA UploadJobStarts ==
    ASSUME NEW r, NEW u, AccountOK(r, u), NEW x \in Roots,
           NEW u2, JobsOK(r, u2), u2.phase = "log",
           Hold("upload", x, Rest("uploads", u2)),
           UNCHANGED <<registry, byteLog, uploadLog, total, admin, removing, suppressed>>,
           uploads' \in SUBSET Roots, IsFiniteSet(uploads'),
           Cardinality(uploads') = Cardinality(uploads) + u2.entry.delta
    PROVE  AccountInv'
<1>1. Typed /\ LogsOK(byteLog, uploadLog, changes) /\ JobsOK(r, u) /\ Locked(r, u)
  BY DEF AccountOK
<1>2. /\ backend = "memory" /\ held["upload"] = <<>> /\ Change(x)
      /\ held' = [held EXCEPT !["upload"] = Rest("uploads", u2)]
      /\ changes' = changes + 1 /\ backend' = backend
  BY DEF Hold, Change
<1>3. IsJob(r) /\ IsJob(u) /\ IsJob(u2)
  BY <1>1 DEF JobsOK
<1>4. u.phase = "none"
  BY <1>1, <1>2, <1>3, JobOver DEF Locked
<1>5. changes \in Nat /\ total \in Counters /\ admin \in Counters /\ DOMAIN held = {"registry", "upload"}
  BY <1>1 DEF Typed
<1>6. Typed'
  <2>1. DOMAIN held' = DOMAIN held
    BY <1>2
  <2>. QED BY <1>1, <1>2, <2>1, ChangeTyped DEF Typed
<1>7. LogsOK(byteLog', uploadLog', changes')
  <2>1. LogsOK(byteLog, uploadLog, changes + 1)
    BY <1>1, <1>5, LogsLater
  <2>. QED BY <1>2, <2>1
<1>8. Locked(r, u2)'
  <2>1. held'["upload"] = Rest("uploads", u2) /\ held'["registry"] = held["registry"]
    BY <1>2, <1>5
  <2>2. held["registry"] = Rest("bytes", r) /\ \A p \in Removers : removing[p] = Nothing
    BY <1>1, <1>2 DEF Locked
  <2>3. r.phase = "log" => /\ r.entry.cause <= changes + 1
                           /\ \A e \in byteLog : e.cause < r.entry.cause
    <3>1. r.entry.cause \in Int
      BY <1>3 DEF IsJob, Rows
    <3>. QED BY <1>1, <1>5, <3>1 DEF Locked
  <2>. QED BY <1>2, <2>1, <2>2, <2>3 DEF Locked
<1>9. Tallied(uploads, uploadLog, total, suppressed, u)
  BY DEF AccountOK
<1>10. Tallied(uploads', uploadLog, total, suppressed, u2)
  <2>1. LogDue(u) = 0 /\ SpaceDue(u) = NoInc
    BY <1>3, <1>4, Dues
  <2>2. LogDue(u2) = u2.entry.delta /\ SpaceDue(u2) = u2.inc /\ u2.entry.delta \in Int
    BY <1>3, Dues DEF IsJob, Rows
  <2>3. Counted(NoInc) = 0 /\ Counted(u2.inc) = u2.entry.delta
    BY Increments DEF JobsOK
  <2>4. Counted(total) \in Int
    <3>1. u2.inc \in Counters
      BY <1>3 DEF IsJob
    <3>. QED BY <1>5, <3>1, Incremented
  <2>5. SumOf(uploadLog) \in Int
    BY <1>1, LogSum DEF LogsOK
  <2>6. /\ Counted(total) + 0 = SumOf(uploadLog) + 0
        /\ ~suppressed => SumOf(uploadLog) + 0 = Cardinality(uploads)
    BY ONLY <1>9, <2>1, <2>3 DEF Tallied
  <2>7. /\ Counted(total) + u2.entry.delta = SumOf(uploadLog) + u2.entry.delta
        /\ ~suppressed => SumOf(uploadLog) + u2.entry.delta = Cardinality(uploads')
    BY <2>2, <2>4, <2>5, <2>6
  <2>. QED BY ONLY <2>2, <2>3, <2>7 DEF Tallied
<1>11. Served(total, admin, r, u2)
  <2>1. Served(total, admin, r, u)
    BY DEF AccountOK
  <2>. QED BY <1>3, <1>4, <1>5, <2>1, ServedStart
<1>12. Balanced(registry, byteLog, total, r)
  BY DEF AccountOK
<1>13. AccountOK(r, u2)'
  BY <1>6, <1>7, <1>8, <1>10, <1>11, <1>12 DEF AccountOK
<1>. QED BY <1>13 DEF AccountInv

LEMMA JobTypes ==
    ASSUME NEW entry \in Rows, NEW inc \in Counters, NEW subject
    PROVE  /\ IsJob(Job("log", entry, inc, subject))
           /\ Job("log", entry, inc, subject).phase = "log"
           /\ Job("log", entry, inc, subject).entry = entry
           /\ Job("log", entry, inc, subject).inc = inc
           /\ Job("log", entry, inc, subject).subject = subject
BY DEF Job, IsJob, Phases

LEMMA MemoryRegisterKeeps ==
    ASSUME AccountInv, NEW d \in Digests, MemoryRegister(d)
    PROVE  AccountInv'
<1>1. PICK r, u : AccountOK(r, u)
  BY DEF AccountInv
<1>2. Typed /\ JobsOK(r, u) /\ Sized(registry) /\ changes \in Nat /\ now \in Int
  BY <1>1 DEF AccountOK, Typed
<1>3. registry[d] = 0 /\ registry' = [registry EXCEPT ![d] = SizeOf[d]]
      /\ UNCHANGED <<uploads, byteLog, uploadLog, total, admin, removing, suppressed>>
  BY DEF MemoryRegister
<1>4. PICK entry : entry = Entry(now, changes + 1, SizeOf[d])
  OBVIOUS
<1>5. entry \in Rows /\ entry.delta = SizeOf[d] /\ entry.cause = changes + 1
  BY <1>2, <1>4, AccountAssumption DEF Entry, Rows
<1>6. PICK inc \in Counters : /\ inc = AddInc(d) /\ Bytes(inc) = SizeOf[d] /\ Blobs(inc) = 1
                              /\ Counted(inc) = 0
  BY Increments
<1>7. PICK r2 : r2 = Job("log", entry, inc, {})
  OBVIOUS
<1>8. IsJob(r2) /\ r2.phase = "log" /\ r2.entry = entry /\ r2.inc = inc /\ r2.subject = {}
  BY <1>5, <1>6, <1>7, JobTypes
<1>9. Hold("registry", d, Rest("bytes", r2))
  <2>1. changes' = changes + 1
    BY DEF MemoryRegister, Hold, Change
  <2>2. Hold("registry", d, Effects("bytes", Entry(now, changes + 1, SizeOf[d]), AddInc(d)))
    BY <2>1 DEF MemoryRegister
  <2>3. Effects("bytes", entry, inc) = Rest("bytes", r2)
    BY <1>7, JobStarts
  <2>. QED BY <1>4, <1>6, <2>2, <2>3
<1>10. JobsOK(r2, u)
  BY <1>2, <1>5, <1>6, <1>8 DEF JobsOK
<1>11. /\ Sized(registry')
       /\ SumOver(registry', Owned(registry', {})) = SumOver(registry, Owned(registry, {})) + SizeOf[d]
       /\ Cardinality(Owned(registry', {})) = Cardinality(Owned(registry, {})) + 1
  BY <1>2, <1>3, OwnMore
<1>12. /\ SumOver(registry', Owned(registry', r2.subject))
            = SumOver(registry, Owned(registry, {})) + r2.entry.delta
       /\ Cardinality(Owned(registry', r2.subject)) = Cardinality(Owned(registry, {})) + Blobs(r2.inc)
       /\ r2.entry.cause = changes + 1
  BY ONLY <1>5, <1>6, <1>8, <1>11
<1>. QED BY <1>1, <1>3, <1>8, <1>9, <1>10, <1>11, <1>12, RegistryJobStarts

LEMMA MemoryDeregisterKeeps ==
    ASSUME AccountInv, NEW d \in Digests, MemoryDeregister(d)
    PROVE  AccountInv'
<1>1. PICK r, u : AccountOK(r, u)
  BY DEF AccountInv
<1>2. Typed /\ JobsOK(r, u) /\ Sized(registry) /\ changes \in Nat /\ now \in Int
  BY <1>1 DEF AccountOK, Typed
<1>3. registry[d] # 0
      /\ UNCHANGED <<registry, uploads, byteLog, uploadLog, total, admin, removing, suppressed>>
  BY DEF MemoryDeregister
<1>4. SizeOf[d] \in Int /\ registry[d] = SizeOf[d]
  BY <1>2, <1>3, AccountAssumption DEF Sized
<1>5. PICK entry : entry = Entry(now, changes + 1, -registry[d])
  OBVIOUS
<1>6. entry \in Rows /\ entry.delta = -SizeOf[d] /\ entry.cause = changes + 1
  BY <1>2, <1>4, <1>5 DEF Entry, Rows
<1>7. PICK inc \in Counters : /\ inc = RemoveInc(registry[d]) /\ Bytes(inc) = -SizeOf[d]
                              /\ Blobs(inc) = -1 /\ Counted(inc) = 0
  BY <1>4, Increments
<1>8. PICK r2 : r2 = Job("log", entry, inc, {d})
  OBVIOUS
<1>9. IsJob(r2) /\ r2.phase = "log" /\ r2.entry = entry /\ r2.inc = inc /\ r2.subject = {d}
  BY <1>6, <1>7, <1>8, JobTypes
<1>10. Hold("registry", d, Rest("bytes", r2))
  <2>1. changes' = changes + 1
    BY DEF MemoryDeregister, Hold, Change
  <2>2. Hold("registry", d, EffectsAndDrop("bytes", Entry(now, changes + 1, -registry[d]),
                                           RemoveInc(registry[d]), d))
    BY <2>1 DEF MemoryDeregister, EffectsAndDrop
  <2>3. EffectsAndDrop("bytes", entry, inc, d) = Rest("bytes", r2)
    BY <1>8, JobStarts
  <2>. QED BY <1>5, <1>7, <2>2, <2>3
<1>11. JobsOK(r2, u)
  BY <1>2, <1>6, <1>7, <1>9 DEF JobsOK
<1>12. /\ SumOver(registry, Owned(registry, {d})) = SumOver(registry, Owned(registry, {})) - SizeOf[d]
       /\ Cardinality(Owned(registry, {d})) = Cardinality(Owned(registry, {})) - 1
  BY <1>2, <1>3, OwnLess
<1>13. SumOver(registry, Owned(registry, {})) \in Int /\ Cardinality(Owned(registry, {})) \in Nat
  BY <1>2, OwnedSums
<1>14. /\ SumOver(registry, Owned(registry, {d})) = SumOver(registry, Owned(registry, {})) + (-SizeOf[d])
       /\ Cardinality(Owned(registry, {d})) = Cardinality(Owned(registry, {})) + (-1)
  BY ONLY <1>4, <1>12, <1>13
<1>15. /\ SumOver(registry', Owned(registry', r2.subject))
            = SumOver(registry, Owned(registry, {})) + r2.entry.delta
       /\ Cardinality(Owned(registry', r2.subject)) = Cardinality(Owned(registry, {})) + Blobs(r2.inc)
       /\ r2.entry.cause = changes + 1
       /\ registry' = registry
  BY ONLY <1>3, <1>6, <1>7, <1>9, <1>14
<1>16. Sized(registry')
  BY <1>2, <1>15
<1>. QED BY <1>1, <1>3, <1>9, <1>10, <1>11, <1>15, <1>16, RegistryJobStarts

\* A job that records a change of the uploads by delta.
LEMMA MemoryRecordDeltaKeeps ==
    ASSUME NEW r, NEW u, AccountOK(r, u), NEW root \in Roots,
           NEW cause \in AddCauses \cup RemoveCauses, NEW delta \in {1, -1},
           Hold("upload", root, MemoryRecordDelta(cause, delta)),
           UNCHANGED <<registry, byteLog, uploadLog, total, admin, removing, suppressed>>,
           uploads' \in SUBSET Roots, IsFiniteSet(uploads'),
           Cardinality(uploads') = Cardinality(uploads) + delta
    PROVE  AccountInv'
<1>1. Typed /\ JobsOK(r, u) /\ now \in Int
  BY DEF AccountOK, Typed
<1>2. PICK entry : entry = Entry(now, cause, delta)
  OBVIOUS
<1>3. cause \in Int /\ delta \in Int
  BY AccountAssumption
<1>4. entry \in Rows /\ entry.delta = delta
  BY <1>1, <1>2, <1>3 DEF Entry, Rows
<1>5. PICK inc \in Counters : /\ inc = UploadInc(delta) /\ Bytes(inc) = 0 /\ Blobs(inc) = 0
                              /\ Counted(inc) = delta
  BY Increments
<1>6. PICK u2 : u2 = Job("log", entry, inc, {})
  OBVIOUS
<1>7. IsJob(u2) /\ u2.phase = "log" /\ u2.entry = entry /\ u2.inc = inc /\ u2.subject = {}
  BY <1>4, <1>5, <1>6, JobTypes
<1>8. Hold("upload", root, Rest("uploads", u2))
  <2>1. Effects("uploads", entry, inc) = Rest("uploads", u2)
    BY <1>6, JobStarts
  <2>2. MemoryRecordDelta(cause, delta) = Effects("uploads", entry, inc)
    BY <1>2, <1>5 DEF MemoryRecordDelta
  <2>. QED BY <2>1, <2>2
<1>9. JobsOK(r, u2)
  BY <1>1, <1>4, <1>5, <1>7 DEF JobsOK
<1>10. Cardinality(uploads') = Cardinality(uploads) + u2.entry.delta
  BY ONLY <1>4, <1>7, Cardinality(uploads') = Cardinality(uploads) + delta
<1>. QED BY <1>7, <1>8, <1>9, <1>10, UploadJobStarts

LEMMA MemoryUpsertKeeps ==
    ASSUME AccountInv, NEW root \in Roots, NEW cause \in AddCauses, MemoryUpsert(root, cause)
    PROVE  AccountInv'
<1>1. PICK r, u : AccountOK(r, u)
  BY DEF AccountInv
<1>2. Typed /\ IsFiniteSet(uploads) /\ uploads \in SUBSET Roots
      /\ DOMAIN held = {"registry", "upload"} /\ changes \in Nat
  BY <1>1 DEF AccountOK, Typed
<1>3. /\ uploads' = uploads \cup {root}
      /\ Hold("upload", root, IF root \in uploads THEN <<>> ELSE MemoryRecordDelta(cause, 1))
      /\ UNCHANGED <<registry, byteLog, uploadLog, total, admin, removing, suppressed>>
  BY DEF MemoryUpsert
<1>4. CASE root \notin uploads
  <2>1. IsFiniteSet(uploads') /\ Cardinality(uploads') = Cardinality(uploads) + 1
    BY <1>2, <1>3, <1>4, FS_AddElement
  <2>2. uploads' \in SUBSET Roots /\ Hold("upload", root, MemoryRecordDelta(cause, 1))
    BY <1>2, <1>3, <1>4
  <2>. QED BY <1>1, <1>3, <2>1, <2>2, MemoryRecordDeltaKeeps
<1>5. CASE root \in uploads
  <2>1. /\ uploads' = uploads /\ held["upload"] = <<>> /\ Change(root)
        /\ held' = [held EXCEPT !["upload"] = <<>>]
        /\ changes' = changes + 1 /\ backend' = backend
    BY <1>3, <1>5 DEF Hold, Change
  <2>2. held'["registry"] = held["registry"] /\ held'["upload"] = held["upload"]
        /\ DOMAIN held' = DOMAIN held
    BY <1>2, <2>1
  <2>3. Typed'
    BY <1>2, <1>3, <2>1, <2>2, ChangeTyped DEF Typed
  <2>4. LogsOK(byteLog', uploadLog', changes')
    <3>1. LogsOK(byteLog, uploadLog, changes + 1)
      BY <1>1, <1>2, LogsLater DEF AccountOK
    <3>. QED BY <1>3, <2>1, <3>1
  <2>5. JobsOK(r, u) /\ Locked(r, u)
    BY <1>1 DEF AccountOK
  <2>6. r.entry.cause \in Int
    BY <2>5 DEF JobsOK, IsJob, Rows
  <2>7. Locked(r, u)'
    BY <1>2, <1>3, <2>1, <2>2, <2>5, <2>6 DEF Locked
  <2>8. AccountOK(r, u)'
    BY <1>1, <1>3, <2>1, <2>3, <2>4, <2>5, <2>7 DEF AccountOK
  <2>. QED BY <2>8 DEF AccountInv
<1>. QED BY <1>4, <1>5

LEMMA MemoryRemoveKeeps ==
    ASSUME AccountInv, NEW root \in Roots, NEW cause \in RemoveCauses, MemoryRemove(root, cause)
    PROVE  AccountInv'
<1>1. PICK r, u : AccountOK(r, u)
  BY DEF AccountInv
<1>2. Typed /\ IsFiniteSet(uploads) /\ uploads \in SUBSET Roots
  BY <1>1 DEF AccountOK, Typed
<1>3. /\ root \in uploads /\ uploads' = uploads \ {root}
      /\ Hold("upload", root, MemoryRecordDelta(cause, -1))
      /\ UNCHANGED <<registry, byteLog, uploadLog, total, admin, removing, suppressed>>
  BY DEF MemoryRemove
<1>4. IsFiniteSet(uploads') /\ Cardinality(uploads') = Cardinality(uploads) - 1
      /\ Cardinality(uploads) \in Nat
  BY <1>2, <1>3, FS_RemoveElement, FS_CardinalityType
<1>5. Cardinality(uploads') = Cardinality(uploads) + (-1) /\ uploads' \in SUBSET Roots
  BY <1>2, <1>3, <1>4
<1>. QED BY <1>1, <1>3, <1>4, <1>5, MemoryRecordDeltaKeeps

\* The step a lock holder takes, told from the phase of its job.
LEMMA StepOf ==
    ASSUME NEW kind \in {"bytes", "uploads"}, NEW j, IsJob(j), j.phase # "none",
           NEW e, e = NextEffect(kind, j)
    PROVE  /\ e.do = (CASE j.phase = "log" -> kind [] OTHER -> j.phase)
           /\ e.entry = j.entry
           /\ j.phase # "drop" => e.inc = j.inc /\ e.subject = {}
           /\ j.phase = "drop" => e.subject = j.subject
<1>1. j.phase \in {"log", "space", "admin", "drop"}
  BY DEF IsJob, Phases
<1>. QED BY <1>1 DEF NextEffect, Effect

LEMMA RegistryStepKeeps ==
    ASSUME AccountInv, MemoryStep("registry")
    PROVE  AccountInv'
<1>1. PICK r, u : AccountOK(r, u)
  BY DEF AccountInv
<1>2. Typed /\ LogsOK(byteLog, uploadLog, changes) /\ JobsOK(r, u) /\ Locked(r, u)
      /\ Balanced(registry, byteLog, total, r) /\ Tallied(uploads, uploadLog, total, suppressed, u)
      /\ Served(total, admin, r, u)
  BY <1>1 DEF AccountOK
<1>3. IsJob(r) /\ IsJob(u) /\ r.inc \in Counters /\ r.entry \in Rows /\ r.subject \in SUBSET Digests
      /\ Bytes(r.inc) = r.entry.delta /\ Counted(r.inc) = 0
  BY <1>2 DEF JobsOK, IsJob
<1>4. /\ Sized(registry) /\ total \in Counters /\ admin \in Counters /\ changes \in Nat
      /\ DOMAIN held = {"registry", "upload"}
  BY <1>2 DEF Typed
<1>5. held["registry"] = Rest("bytes", r) /\ held["registry"] # <<>> /\ r.phase # "none"
  BY <1>2, <1>3, JobSteps DEF Locked, MemoryStep
<1>6. PICK r2 : r2 = Job(After(r), r.entry, r.inc, r.subject)
  OBVIOUS
<1>7. /\ Head(held["registry"]) = NextEffect("bytes", r)
      /\ Tail(held["registry"]) = Rest("bytes", r2)
      /\ IsJob(r2)
  BY <1>3, <1>5, <1>6, JobSteps
<1>8. r2.phase = After(r) /\ r2.entry = r.entry /\ r2.inc = r.inc /\ r2.subject = r.subject
  BY <1>6 DEF Job
<1>9. PICK e : e = NextEffect("bytes", r)
  OBVIOUS
<1>10. /\ e.do = (CASE r.phase = "log" -> "bytes" [] OTHER -> r.phase)
       /\ e.entry = r.entry
       /\ r.phase # "drop" => e.inc = r.inc /\ e.subject = {}
       /\ r.phase = "drop" => e.subject = r.subject
  BY <1>3, <1>5, <1>9, StepOf
<1>11. e.do # "uploads"
  <2>1. r.phase \in Phases
    BY <1>3 DEF IsJob
  <2>. QED BY <1>10, <2>1 DEF Phases
<1>12. /\ held' = [held EXCEPT !["registry"] = Rest("bytes", r2)]
       /\ (~suppressed' => ~suppressed)
       /\ byteLog' = (IF e.do = "bytes" THEN byteLog \cup {e.entry} ELSE byteLog)
       /\ uploadLog' = uploadLog
       /\ total' = (IF e.do = "space" THEN Increment(total, e.inc) ELSE total)
       /\ admin' = (IF e.do = "admin" THEN Increment(admin, e.inc) ELSE admin)
       /\ registry' = [d \in Digests |-> IF d \in e.subject THEN 0 ELSE registry[d]]
       /\ UNCHANGED <<backend, now, uploads, removing, touched, changes>>
  BY <1>7, <1>9, <1>11 DEF MemoryStep, MemoryPutDiff, MemoryPutUploadDiff
<1>13. JobsOK(r2, u)
  BY <1>2, <1>7, <1>8 DEF JobsOK
<1>14. backend = "memory"
  <2>1. r # NoJob
    BY <1>5, NothingDue
  <2>. QED BY <1>2, <2>1 DEF Locked, Typed
<1>15. r2.phase # "log"
  <2>1. r.phase \in Phases
    BY <1>3 DEF IsJob
  <2>. QED BY <1>5, <1>8, <2>1 DEF After, Phases
<1>16. Locked(r2, u)'
  <2>1. held'["registry"] = Rest("bytes", r2) /\ held'["upload"] = held["upload"]
    BY <1>4, <1>12
  <2>2. held["upload"] = Rest("uploads", u) /\ \A p \in Removers : removing[p] = Nothing
    BY <1>2, <1>14 DEF Locked
  <2>. QED BY <1>12, <1>14, <1>15, <2>1, <2>2 DEF Locked
<1>17. Tallied(uploads, uploadLog, total, suppressed', u)
  BY <1>2, <1>12 DEF Tallied
<1>18. registry \in [Digests -> Int]
  BY <1>4 DEF Sized
<1>19. CASE r.phase = "log"
  <2>1. r2.phase = "space" /\ e.do = "bytes" /\ e.subject = {}
    BY <1>8, <1>10, <1>19 DEF After
  <2>2. byteLog' = byteLog \cup {r.entry} /\ total' = total /\ admin' = admin
    BY <1>10, <1>12, <2>1
  <2>3. registry' = registry
    BY <1>12, <1>18, <2>1
  <2>4. /\ Logged(byteLog) /\ r.entry.cause \in Int /\ r.entry.cause <= changes
        /\ \A f \in byteLog : f.cause < r.entry.cause /\ f.cause \in Int
    BY <1>2, <1>3, <1>19 DEF LogsOK, Logged, Rows, Locked
  <2>5. r.entry \notin byteLog
    BY <2>4
  <2>6. Logged(byteLog') /\ SumOf(byteLog') = SumOf(byteLog) + r.entry.delta
    BY <1>3, <2>2, <2>4, <2>5, LogAdd
  <2>7. LogsOK(byteLog', uploadLog', changes')
    <3>1. \A f \in byteLog' : f.cause <= changes
      BY <1>2, <2>2, <2>4 DEF LogsOK
    <3>2. \A f, g \in byteLog' : f.cause = g.cause => f = g
      BY <1>2, <2>2, <2>4 DEF LogsOK
    <3>. QED BY <1>2, <1>12, <2>6, <3>1, <3>2 DEF LogsOK
  <2>8. Typed'
    BY <1>2, <1>4, <1>12, <2>2, <2>3 DEF Typed
  <2>9. /\ LogDue(r) = r.entry.delta /\ LogDue(r2) = 0 /\ SpaceDue(r) = SpaceDue(r2)
        /\ DropDue(r) = DropDue(r2) /\ AdminDue(r) = AdminDue(r2)
    BY <1>3, <1>7, <1>8, <1>19, <2>1, Dues
  <2>10. Balanced(registry', byteLog', total', r2)
    <3>1. r.entry.delta \in Int /\ SumOf(byteLog) \in Int
      BY <1>3, <2>4, LogSum DEF Rows
    <3>2. SumOf(byteLog') + LogDue(r2) = SumOf(byteLog) + LogDue(r)
      BY ONLY <2>6, <2>9, <3>1
    <3>. QED BY ONLY <1>2, <2>2, <2>3, <2>9, <3>2 DEF Balanced
  <2>11. Served(total', admin', r2, u)
    BY <1>2, <2>2, <2>9 DEF Served
  <2>12. AccountOK(r2, u)'
    BY <1>12, <1>13, <1>16, <1>17, <2>2, <2>7, <2>8, <2>10, <2>11 DEF AccountOK
  <2>. QED BY <2>12 DEF AccountInv
<1>20. CASE r.phase = "space"
  <2>1. r2.phase = "admin" /\ e.do = "space" /\ e.subject = {} /\ e.inc = r.inc
    BY <1>8, <1>10, <1>20 DEF After
  <2>2. byteLog' = byteLog /\ total' = Increment(total, r.inc) /\ admin' = admin
    BY <1>10, <1>12, <2>1
  <2>3. registry' = registry
    BY <1>12, <1>18, <2>1
  <2>4. /\ total' \in Counters
        /\ Bytes(total') = Bytes(total) + Bytes(r.inc)
        /\ Blobs(total') = Blobs(total) + Blobs(r.inc)
        /\ Counted(total') = Counted(total) + Counted(r.inc)
        /\ Bytes(total) \in Int /\ Blobs(total) \in Int /\ Counted(total) \in Int
    BY <1>3, <1>4, <2>2, Incremented
  <2>5. Typed'
    BY <1>2, <1>4, <1>12, <2>2, <2>3, <2>4 DEF Typed
  <2>6. /\ LogDue(r) = LogDue(r2) /\ SpaceDue(r) = r.inc /\ SpaceDue(r2) = NoInc
        /\ DropDue(r) = DropDue(r2)
    BY <1>3, <1>7, <1>8, <1>20, <2>1, Dues
  <2>7. Bytes(NoInc) = 0 /\ Blobs(NoInc) = 0 /\ Bytes(r.inc) \in Int /\ Blobs(r.inc) \in Int
    BY <1>3, Increments, Incremented
  <2>8. Balanced(registry', byteLog', total', r2)
    <3>1. /\ Bytes(total') + Bytes(SpaceDue(r2)) = Bytes(total) + Bytes(SpaceDue(r))
          /\ Blobs(total') + Blobs(SpaceDue(r2)) = Blobs(total) + Blobs(SpaceDue(r))
      BY ONLY <2>4, <2>6, <2>7
    <3>. QED BY ONLY <1>2, <2>2, <2>3, <2>6, <3>1 DEF Balanced
  <2>9. Served(total', admin', r2, u)
    <3>1. Served(Increment(total, r.inc), admin, r2, u)
      BY <1>2, <1>3, <1>4, <1>7, <1>8, <1>20, <2>1, ServedSpace
    <3>. QED BY <2>2, <3>1
  <2>10. Tallied(uploads, uploadLog, total', suppressed', u)
    <3>1. Counted(total') = Counted(total)
      BY ONLY <1>3, <2>4
    <3>. QED BY ONLY <1>17, <3>1 DEF Tallied
  <2>11. AccountOK(r2, u)'
    BY <1>2, <1>12, <1>13, <1>16, <2>2, <2>5, <2>8, <2>9, <2>10 DEF AccountOK
  <2>. QED BY <2>11 DEF AccountInv
<1>21. CASE r.phase = "admin"
  <2>1. r2.phase \in {"drop", "none"} /\ e.do = "admin" /\ e.subject = {} /\ e.inc = r.inc
    BY <1>8, <1>10, <1>21 DEF After
  <2>2. byteLog' = byteLog /\ total' = total /\ admin' = Increment(admin, r.inc)
    BY <1>10, <1>12, <2>1
  <2>3. registry' = registry
    BY <1>12, <1>18, <2>1
  <2>4. admin' \in Counters
    BY <1>3, <1>4, <2>2, Incremented
  <2>5. Typed'
    BY <1>2, <1>4, <1>12, <2>2, <2>3, <2>4 DEF Typed
  <2>6. LogDue(r) = LogDue(r2) /\ SpaceDue(r) = SpaceDue(r2) /\ DropDue(r) = DropDue(r2)
    <3>1. r2.phase = "none" => r.subject = {}
      BY <1>8, <1>21 DEF After
    <3>. QED BY <1>3, <1>7, <1>8, <1>21, <2>1, <3>1, Dues
  <2>7. Balanced(registry', byteLog', total', r2)
    BY ONLY <1>2, <2>2, <2>3, <2>6 DEF Balanced
  <2>8. Served(total', admin', r2, u)
    <3>1. Served(total, Increment(admin, r.inc), r2, u)
      BY <1>2, <1>3, <1>4, <1>7, <1>8, <1>21, <2>1, ServedAdmin
    <3>. QED BY <2>2, <3>1
  <2>9. AccountOK(r2, u)'
    BY <1>2, <1>12, <1>13, <1>16, <1>17, <2>2, <2>5, <2>7, <2>8 DEF AccountOK
  <2>. QED BY <2>9 DEF AccountInv
<1>22. CASE r.phase = "drop"
  <2>1. r2.phase = "none" /\ e.do = "drop" /\ e.subject = r.subject
    BY <1>8, <1>10, <1>22 DEF After
  <2>2. byteLog' = byteLog /\ total' = total /\ admin' = admin
    BY <1>12, <2>1
  <2>3. registry' = [x \in Digests |-> IF x \in r.subject THEN 0 ELSE registry[x]]
    BY <1>12, <2>1
  <2>4. /\ Sized(registry')
        /\ Owned(registry', {}) = Owned(registry, r.subject)
        /\ SumOver(registry', Owned(registry', {})) = SumOver(registry, Owned(registry, r.subject))
    BY <1>3, <1>4, <2>3, OwnDropped
  <2>5. Typed'
    BY <1>2, <1>4, <1>12, <2>2, <2>4 DEF Typed
  <2>6. /\ LogDue(r) = LogDue(r2) /\ SpaceDue(r) = SpaceDue(r2) /\ AdminDue(r) = AdminDue(r2)
        /\ DropDue(r) = r.subject /\ DropDue(r2) = {}
    BY <1>3, <1>7, <1>22, <2>1, Dues
  <2>7. Balanced(registry', byteLog', total', r2)
    BY ONLY <1>2, <2>2, <2>4, <2>6 DEF Balanced
  <2>8. Served(total', admin', r2, u)
    BY <1>2, <2>2, <2>6 DEF Served
  <2>9. AccountOK(r2, u)'
    BY <1>2, <1>12, <1>13, <1>16, <1>17, <2>2, <2>5, <2>7, <2>8 DEF AccountOK
  <2>. QED BY <2>9 DEF AccountInv
<1>23. r.phase \in Phases
  BY <1>3 DEF IsJob
<1>. QED BY <1>5, <1>19, <1>20, <1>21, <1>22, <1>23 DEF Phases

LEMMA UploadStepKeeps ==
    ASSUME AccountInv, MemoryStep("upload")
    PROVE  AccountInv'
<1>1. PICK r, u : AccountOK(r, u)
  BY DEF AccountInv
<1>2. Typed /\ LogsOK(byteLog, uploadLog, changes) /\ JobsOK(r, u) /\ Locked(r, u)
      /\ Balanced(registry, byteLog, total, r) /\ Tallied(uploads, uploadLog, total, suppressed, u)
      /\ Served(total, admin, r, u)
  BY <1>1 DEF AccountOK
<1>3. IsJob(r) /\ IsJob(u) /\ u.inc \in Counters /\ u.entry \in Rows /\ u.subject = {}
      /\ Bytes(u.inc) = 0 /\ Blobs(u.inc) = 0 /\ Counted(u.inc) = u.entry.delta
  BY <1>2 DEF JobsOK, IsJob
<1>4. /\ registry \in [Digests -> Int] /\ total \in Counters /\ admin \in Counters /\ changes \in Nat
      /\ DOMAIN held = {"registry", "upload"}
  BY <1>2 DEF Typed, Sized
<1>5. held["upload"] = Rest("uploads", u) /\ held["upload"] # <<>> /\ u.phase # "none"
  BY <1>2, <1>3, JobSteps DEF Locked, MemoryStep
<1>6. PICK u2 : u2 = Job(After(u), u.entry, u.inc, u.subject)
  OBVIOUS
<1>7. /\ Head(held["upload"]) = NextEffect("uploads", u)
      /\ Tail(held["upload"]) = Rest("uploads", u2)
      /\ IsJob(u2)
  BY <1>3, <1>5, <1>6, JobSteps
<1>8. u2.phase = After(u) /\ u2.entry = u.entry /\ u2.inc = u.inc /\ u2.subject = {}
  BY <1>3, <1>6 DEF Job
<1>9. PICK e : e = NextEffect("uploads", u)
  OBVIOUS
<1>10. u.phase \in {"log", "space", "admin"}
  BY <1>3, <1>5 DEF IsJob, Phases
<1>11. /\ e.do = (CASE u.phase = "log" -> "uploads" [] OTHER -> u.phase)
       /\ e.entry = u.entry /\ e.inc = u.inc /\ e.subject = {}
  BY <1>3, <1>5, <1>9, <1>10, StepOf
<1>12. PICK stop \in BOOLEAN : stop = (e.do = "uploads" /\ Recorded(e.entry.at, e.entry.cause))
  OBVIOUS
<1>13. /\ held' = [held EXCEPT !["upload"] = IF stop THEN <<>> ELSE Rest("uploads", u2)]
       /\ (~suppressed' => ~suppressed /\ ~stop)
       /\ (e.do # "bytes" => byteLog' = byteLog)
       /\ uploadLog' = (IF e.do = "uploads" /\ ~stop THEN uploadLog \cup {e.entry} ELSE uploadLog)
       /\ total' = (IF e.do = "space" THEN Increment(total, e.inc) ELSE total)
       /\ admin' = (IF e.do = "admin" THEN Increment(admin, e.inc) ELSE admin)
       /\ registry' = [d \in Digests |-> IF d \in e.subject THEN 0 ELSE registry[d]]
       /\ UNCHANGED <<backend, now, uploads, removing, touched, changes>>
  BY <1>7, <1>9, <1>12 DEF MemoryStep, MemoryPutDiff, MemoryPutUploadDiff
<1>14. byteLog' = byteLog
  BY <1>10, <1>11, <1>13
<1>15. registry' = registry
  BY <1>4, <1>11, <1>13
<1>16. backend = "memory"
  <2>1. u # NoJob
    BY <1>5, NothingDue
  <2>. QED BY <1>2, <2>1 DEF Locked, Typed
<1>17. /\ held["registry"] = Rest("bytes", r) /\ \A p \in Removers : removing[p] = Nothing
       /\ r.phase = "log" => /\ r.entry.cause <= changes
                             /\ \A f \in byteLog : f.cause < r.entry.cause
  BY <1>2, <1>16 DEF Locked
<1>18. ASSUME NEW v, held' = [held EXCEPT !["upload"] = Rest("uploads", v)] PROVE Locked(r, v)'
  <2>1. held'["upload"] = Rest("uploads", v) /\ held'["registry"] = held["registry"]
    BY <1>4, <1>18
  <2>. QED BY <1>13, <1>14, <1>16, <1>17, <2>1 DEF Locked
<1>19. JobsOK(r, u2)
  BY <1>2, <1>3, <1>7, <1>8 DEF JobsOK
<1>20. CASE stop
  <2>1. u.phase = "log"
    BY <1>10, <1>11, <1>12, <1>20
  <2>2. uploadLog' = uploadLog /\ total' = total /\ admin' = admin /\ suppressed'
    BY <1>11, <1>12, <1>13, <1>20
  <2>3. held' = [held EXCEPT !["upload"] = Rest("uploads", NoJob)]
    <3>1. Rest("uploads", NoJob) = <<>>
      BY JobStarts
    <3>. QED BY <1>13, <1>20, <3>1
  <2>4. Typed'
    BY <1>2, <1>4, <1>13, <1>15, <2>2 DEF Typed
  <2>5. NoJob.phase = "none" /\ JobsOK(NoJob, NoJob)
    BY NothingDue
  <2>6. IsJob(NoJob) /\ JobsOK(r, NoJob)
    BY <1>2, <2>5 DEF JobsOK
  <2>7. Served(total, admin, r, NoJob)
    BY <1>2, <1>3, <1>4, <2>1, <2>5, <2>6, ServedStart
  <2>8. Tallied(uploads, uploadLog, total, suppressed', NoJob)
    <3>1. LogDue(u) = u.entry.delta /\ SpaceDue(u) = u.inc /\ LogDue(NoJob) = 0 /\ SpaceDue(NoJob) = NoInc
      BY <1>3, <2>1, Dues, NothingDue
    <3>2. Counted(NoInc) = 0 /\ u.entry.delta \in Int /\ Counted(total) \in Int
      BY <1>3, <1>4, Increments, Incremented DEF Rows
    <3>3. SumOf(uploadLog) \in Int
      BY <1>2, LogSum DEF LogsOK
    <3>4. Counted(total) + u.entry.delta = SumOf(uploadLog) + u.entry.delta
      BY ONLY <1>2, <1>3, <3>1 DEF Tallied
    <3>5. Counted(total) + 0 = SumOf(uploadLog) + 0
      BY ONLY <3>2, <3>3, <3>4
    <3>. QED BY ONLY <2>2, <3>1, <3>2, <3>5 DEF Tallied
  <2>9. Locked(r, NoJob)'
    BY <1>18, <2>3
  <2>10. AccountOK(r, NoJob)'
    BY <1>2, <1>13, <1>14, <1>15, <2>2, <2>4, <2>6, <2>7, <2>8, <2>9 DEF AccountOK
  <2>. QED BY <2>10 DEF AccountInv
<1>21. CASE ~stop /\ u.phase = "log"
  <2>1. u2.phase = "space" /\ e.do = "uploads" /\ ~Recorded(u.entry.at, u.entry.cause)
    BY <1>8, <1>11, <1>12, <1>21 DEF After
  <2>2. /\ uploadLog' = uploadLog \cup {u.entry} /\ total' = total /\ admin' = admin
        /\ (~suppressed' => ~suppressed)
        /\ held' = [held EXCEPT !["upload"] = Rest("uploads", u2)]
    BY <1>11, <1>13, <1>21, <2>1
  <2>3. ~\E f \in uploadLog : f.at = u.entry.at /\ f.cause = u.entry.cause
    BY <2>1 DEF Recorded
  <2>4. /\ u.entry = Entry(u.entry.at, u.entry.cause, u.entry.delta)
        /\ u.entry.at \in Int /\ u.entry.cause \in Int /\ u.entry.delta \in Int
    BY <1>3 DEF Entry, Rows
  <2>5. LogsOK(byteLog, uploadLog', changes) /\ SumOf(uploadLog') = SumOf(uploadLog) + u.entry.delta
    <3>1. /\ LogsOK(byteLog, uploadLog \cup {Entry(u.entry.at, u.entry.cause, u.entry.delta)}, changes)
          /\ SumOf(uploadLog \cup {Entry(u.entry.at, u.entry.cause, u.entry.delta)})
               = SumOf(uploadLog) + u.entry.delta
      BY <1>2, <1>4, <2>3, <2>4, UploadLogGrows
    <3>. QED BY ONLY <2>2, <2>4, <3>1
  <2>6. Typed'
    BY <1>2, <1>4, <1>13, <1>15, <2>2 DEF Typed
  <2>7. /\ LogDue(u) = u.entry.delta /\ LogDue(u2) = 0 /\ SpaceDue(u) = SpaceDue(u2)
        /\ AdminDue(u) = AdminDue(u2)
    BY <1>3, <1>7, <1>8, <1>21, <2>1, Dues
  <2>8. Tallied(uploads, uploadLog', total, suppressed', u2)
    <3>1. SumOf(uploadLog) \in Int
      BY <1>2, LogSum DEF LogsOK
    <3>2. SumOf(uploadLog') + LogDue(u2) = SumOf(uploadLog) + LogDue(u)
      BY ONLY <2>4, <2>5, <2>7, <3>1
    <3>. QED BY ONLY <1>2, <2>2, <2>7, <3>2 DEF Tallied
  <2>9. Served(total, admin, r, u2)
    BY <1>2, <2>7 DEF Served
  <2>10. Locked(r, u2)'
    BY <1>18, <2>2
  <2>11. AccountOK(r, u2)'
    BY <1>2, <1>13, <1>14, <1>15, <1>19, <2>2, <2>5, <2>6, <2>8, <2>9, <2>10 DEF AccountOK
  <2>. QED BY <2>11 DEF AccountInv
<1>22. CASE u.phase = "space"
  <2>1. u2.phase = "admin" /\ e.do = "space" /\ ~stop
    BY <1>8, <1>11, <1>12, <1>22 DEF After
  <2>2. /\ uploadLog' = uploadLog /\ total' = Increment(total, u.inc) /\ admin' = admin
        /\ (~suppressed' => ~suppressed)
        /\ held' = [held EXCEPT !["upload"] = Rest("uploads", u2)]
    BY <1>11, <1>13, <2>1
  <2>3. /\ total' \in Counters
        /\ Bytes(total') = Bytes(total) + Bytes(u.inc)
        /\ Blobs(total') = Blobs(total) + Blobs(u.inc)
        /\ Counted(total') = Counted(total) + Counted(u.inc)
        /\ Bytes(total) \in Int /\ Blobs(total) \in Int /\ Counted(total) \in Int
    BY <1>3, <1>4, <2>2, Incremented
  <2>4. Typed'
    BY <1>2, <1>4, <1>13, <1>15, <2>2, <2>3 DEF Typed
  <2>5. LogDue(u) = LogDue(u2) /\ SpaceDue(u) = u.inc /\ SpaceDue(u2) = NoInc
    BY <1>3, <1>7, <1>8, <1>22, <2>1, Dues
  <2>6. Counted(NoInc) = 0 /\ Counted(u.inc) \in Int
    BY <1>3, Increments, Incremented
  <2>7. Tallied(uploads, uploadLog, total', suppressed', u2)
    <3>1. Counted(total') + Counted(SpaceDue(u2)) = Counted(total) + Counted(SpaceDue(u))
      BY ONLY <2>3, <2>5, <2>6
    <3>. QED BY ONLY <1>2, <2>2, <2>5, <3>1 DEF Tallied
  <2>8. Balanced(registry, byteLog, total', r)
    <3>1. Bytes(total') = Bytes(total) /\ Blobs(total') = Blobs(total)
      BY ONLY <1>3, <2>3
    <3>. QED BY ONLY <1>2, <3>1 DEF Balanced
  <2>9. Served(total', admin, r, u2)
    <3>1. Served(Increment(total, u.inc), admin, r, u2)
      BY <1>2, <1>3, <1>4, <1>7, <1>8, <1>22, <2>1, ServedSpace
    <3>. QED BY <2>2, <3>1
  <2>10. Locked(r, u2)'
    BY <1>18, <2>2
  <2>11. AccountOK(r, u2)'
    BY <1>2, <1>13, <1>14, <1>15, <1>19, <2>2, <2>4, <2>7, <2>8, <2>9, <2>10 DEF AccountOK
  <2>. QED BY <2>11 DEF AccountInv
<1>23. CASE u.phase = "admin"
  <2>1. u2.phase = "none" /\ e.do = "admin" /\ ~stop
    BY <1>3, <1>8, <1>11, <1>12, <1>23 DEF After
  <2>2. /\ uploadLog' = uploadLog /\ total' = total /\ admin' = Increment(admin, u.inc)
        /\ (~suppressed' => ~suppressed)
        /\ held' = [held EXCEPT !["upload"] = Rest("uploads", u2)]
    BY <1>11, <1>13, <2>1
  <2>3. admin' \in Counters
    BY <1>3, <1>4, <2>2, Incremented
  <2>4. Typed'
    BY <1>2, <1>4, <1>13, <1>15, <2>2, <2>3 DEF Typed
  <2>5. LogDue(u) = LogDue(u2) /\ SpaceDue(u) = SpaceDue(u2)
    BY <1>3, <1>7, <1>23, <2>1, Dues
  <2>6. Tallied(uploads, uploadLog, total, suppressed', u2)
    BY ONLY <1>2, <2>2, <2>5 DEF Tallied
  <2>7. Served(total, admin', r, u2)
    <3>1. Served(total, Increment(admin, u.inc), r, u2)
      BY <1>2, <1>3, <1>4, <1>7, <1>8, <1>23, <2>1, ServedAdmin
    <3>. QED BY <2>2, <3>1
  <2>8. Locked(r, u2)'
    BY <1>18, <2>2
  <2>9. AccountOK(r, u2)'
    BY <1>2, <1>13, <1>14, <1>15, <1>19, <2>2, <2>4, <2>6, <2>7, <2>8 DEF AccountOK
  <2>. QED BY <2>9 DEF AccountInv
<1>. QED BY <1>10, <1>20, <1>21, <1>22, <1>23

----------------------------------------------------------------------------
\* The accounts keep their invariant.

LEMMA AccountStarts == AccountInit => AccountInv
<1> SUFFICES ASSUME AccountInit PROVE AccountOK(NoJob, NoJob)
  BY DEF AccountInv
<1> USE DEF AccountInit
<1>1. \A d \in Digests : registry[d] = 0
  OBVIOUS
<1>2. {d \in Digests : registry[d] # 0} = {} /\ Owned(registry, {}) = {}
  BY <1>1 DEF Owned
<1>3. Sized(registry)
  <2>1. registry \in [Digests -> Int]
    OBVIOUS
  <2>. QED BY <1>1, <1>2, <2>1, FS_EmptySet DEF Sized
<1>4. NoInc \in Counters /\ Bytes(NoInc) = 0 /\ Blobs(NoInc) = 0 /\ Counted(NoInc) = 0
  BY Increments
<1>5. total = NoInc /\ admin = NoInc
  BY DEF NoInc
<1>6. Typed
  <2>1. now \in 1 .. MaxTime
    BY AccountAssumption
  <2>2. removing \in [Removers -> Readings]
    BY DEF Readings
  <2>3. DOMAIN held = {"registry", "upload"}
    OBVIOUS
  <2>4. touched \in [Digests \cup Roots -> Int] /\ \A x \in Digests \cup Roots : touched[x] <= now
    OBVIOUS
  <2>5. IsFiniteSet(uploads) /\ uploads \in SUBSET Roots
    BY FS_EmptySet
  <2>. QED BY <1>3, <1>4, <1>5, <2>1, <2>2, <2>3, <2>4, <2>5 DEF Typed
<1>7. LogsOK(byteLog, uploadLog, changes)
  <2>1. Logged({})
    BY NoRows
  <2>. QED BY <2>1 DEF LogsOK
<1>8. Agreed
  <2>1. SumOf({}) = 0
    BY NoRows
  <2>2. SumOver(registry, {}) = 0
    <3>1. IsFiniteSet({}) /\ Weighs(registry, {})
      BY FS_EmptySet DEF Weighs
    <3>. QED BY <3>1, SumRemove
  <2>3. Cardinality({}) = 0
    BY FS_EmptySet
  <2>4. byteLog = {} /\ uploadLog = {} /\ uploads = {}
    OBVIOUS
  <2>. QED BY ONLY <1>2, <1>4, <1>5, <2>1, <2>2, <2>3, <2>4 DEF Agreed
<1>9. held["registry"] = <<>> /\ held["upload"] = <<>>
  OBVIOUS
<1>10. Locked(NoJob, NoJob)
  BY <1>9, NothingDue, JobStarts DEF Locked
<1>. QED BY <1>6, <1>7, <1>8, <1>10, NoJobAgreed, NothingDue DEF AccountOK

\* Time passes while jobs are under way.
LEMMA TickKeeps ==
    ASSUME AccountInv, Tick
    PROVE  AccountInv'
<1>1. PICK r, u : AccountOK(r, u)
  BY DEF AccountInv
<1>2. /\ now' = now + 1 /\ now < MaxTime
      /\ UNCHANGED <<backend, registry, uploads, byteLog, uploadLog, total, admin, removing, held,
                     touched, changes, suppressed>>
  BY DEF Tick
<1>3. Typed
  BY <1>1 DEF AccountOK
<1>4. now' \in 1 .. MaxTime /\ now \in Int
  BY <1>2, <1>3, AccountAssumption DEF Typed
<1>5. \A x \in Digests \cup Roots : touched[x] <= now'
  BY <1>2, <1>3, <1>4 DEF Typed
<1>6. Typed'
  BY <1>2, <1>3, <1>4, <1>5 DEF Typed
<1>7. AccountOK(r, u)'
  BY <1>1, <1>2, <1>6 DEF AccountOK, Locked
<1>. QED BY <1>7 DEF AccountInv

LEMMA AccountsStay ==
    ASSUME AccountInv, UNCHANGED accounts
    PROVE  AccountInv'
<1>1. PICK r, u : AccountOK(r, u)
  BY DEF AccountInv
<1>2. AccountOK(r, u)'
  BY <1>1 DEF accounts, AccountOK, Typed, Locked
<1>. QED BY <1>2 DEF AccountInv

\* A remover has read something only in Postgres.
LEMMA RemovesInPostgres ==
    ASSUME AccountInv, NEW p \in Removers, removing[p] # Nothing
    PROVE  backend = "postgres"
BY DEF AccountInv, AccountOK, Locked, Typed

\* A transaction keeps the accounts of Postgres.
LEMMA CommittedNext ==
    ASSUME Committed' PROVE AccountInv'
<1>1. (backend = "postgres" => (AccountInv <=> Committed))'
  BY PostgresAccounts, PTL
<1>2. backend' = "postgres"
  BY DEF Committed
<1>. QED BY <1>1, <1>2

LEMMA AccountSteps ==
    ASSUME AccountInv, AccountNext
    PROVE  AccountInv'
<1>1. backend = "postgres" => Committed
  BY PostgresAccounts
<1>2. ASSUME NEW d \in Digests, Register(d) PROVE AccountInv'
  <2>1. backend = "postgres"
    BY <1>2 DEF Register
  <2>. QED BY <1>1, <1>2, <2>1, RegisterCommits, CommittedNext
<1>3. ASSUME NEW d \in Digests, MemoryRegister(d) \/ MemoryDeregister(d) PROVE AccountInv'
  BY <1>3, MemoryRegisterKeeps, MemoryDeregisterKeeps
<1>4. ASSUME NEW p \in Removers, NEW d \in Digests, DeregisterRead(p, d) PROVE AccountInv'
  <2>1. backend = "postgres"
    BY <1>4 DEF DeregisterRead
  <2>. QED BY <1>1, <1>4, <2>1, ReadCommits, CommittedNext
<1>5. ASSUME NEW p \in Removers, DeregisterCommit(p) PROVE AccountInv'
  <2>1. removing[p] # Nothing
    BY <1>5 DEF DeregisterCommit, Nothing
  <2>2. backend = "postgres"
    BY <2>1, RemovesInPostgres
  <2>. QED BY <1>1, <1>5, <2>2, DeregisterCommits, CommittedNext
<1>6. ASSUME NEW p \in Removers, DeregisterEnd(p) PROVE AccountInv'
  <2>1. removing[p] # Nothing
    BY <1>6 DEF DeregisterEnd
  <2>2. backend = "postgres"
    BY <2>1, RemovesInPostgres
  <2>. QED BY <1>1, <1>6, <2>2, ReadCommits, CommittedNext
<1>7. ASSUME NEW root \in Roots, NEW cause \in AddCauses, UploadAdd(root, cause) PROVE AccountInv'
  <2>1. CASE Upsert(root, cause)
    <3>1. backend = "postgres"
      BY <2>1 DEF Upsert
    <3>. QED BY <1>1, <2>1, <3>1, UpsertCommits, CommittedNext
  <2>2. CASE MemoryUpsert(root, cause)
    BY <2>2, MemoryUpsertKeeps
  <2>. QED BY <1>7, <2>1, <2>2 DEF UploadAdd
<1>8. ASSUME NEW root \in Roots, NEW cause \in RemoveCauses, UploadRemove(root, cause) PROVE AccountInv'
  <2>1. CASE RemoveUpload(root, cause)
    <3>1. backend = "postgres"
      BY <2>1 DEF RemoveUpload
    <3>. QED BY <1>1, <2>1, <3>1, RemoveCommits, CommittedNext
  <2>2. CASE MemoryRemove(root, cause)
    BY <2>2, MemoryRemoveKeeps
  <2>. QED BY <1>8, <2>1, <2>2 DEF UploadRemove
<1>9. ASSUME NEW s \in {"registry", "upload"}, MemoryStep(s) PROVE AccountInv'
  BY <1>9, RegistryStepKeeps, UploadStepKeeps
<1>. QED BY <1>2, <1>3, <1>4, <1>5, <1>6, <1>7, <1>8, <1>9, TickKeeps DEF AccountNext

\* Once nobody holds a lock the accounts agree.
LEMMA QuietAgrees ==
    ASSUME AccountInv, Quiet
    PROVE  Agreed
<1>1. PICK r, u : AccountOK(r, u)
  BY DEF AccountInv
<1>2. IsJob(r) /\ IsJob(u) /\ Typed /\ LogsOK(byteLog, uploadLog, changes)
  BY <1>1 DEF AccountOK, JobsOK
<1>3. r.phase = "none" /\ u.phase = "none"
  <2>1. Rest("bytes", r) = <<>> /\ Rest("uploads", u) = <<>>
    BY <1>1 DEF Quiet, AccountOK, Locked
  <2>. QED BY <1>2, <2>1, JobOver
<1>4. /\ LogDue(r) = LogDue(NoJob) /\ SpaceDue(r) = SpaceDue(NoJob)
      /\ AdminDue(r) = AdminDue(NoJob) /\ DropDue(r) = DropDue(NoJob)
  BY <1>2, <1>3, Dues, NothingDue
<1>5. /\ LogDue(u) = LogDue(NoJob) /\ SpaceDue(u) = SpaceDue(NoJob)
      /\ AdminDue(u) = AdminDue(NoJob) /\ DropDue(u) = DropDue(NoJob)
  BY <1>2, <1>3, Dues, NothingDue
<1>6. Balanced(registry, byteLog, total, NoJob)
  BY <1>1, <1>4, SameDues DEF AccountOK
<1>7. Tallied(uploads, uploadLog, total, suppressed, NoJob)
  BY <1>1, <1>5, SameDues DEF AccountOK
<1>8. Served(total, admin, NoJob, NoJob)
  BY <1>1, <1>4, <1>5, SameDues DEF AccountOK
<1>. QED BY <1>2, <1>6, <1>7, <1>8, NoJobAgreed

LEMMA Balances ==
    ASSUME AccountInv
    PROVE  BytesBalance /\ UploadsBalance
<1>1. Quiet => Agreed
  BY QuietAgrees
<1>2. Owned(registry, {}) = Registered
  BY DEF Owned, Registered
<1>3. BytesBalance
  BY ONLY <1>1, <1>2 DEF BytesBalance, Agreed, Bytes, Blobs
<1>4. UploadsBalance
  BY ONLY <1>1 DEF UploadsBalance, Agreed, Counted
<1>. QED BY <1>3, <1>4

----------------------------------------------------------------------------
\* At every instant the log accounts for at least what is held since before it.
\* A row is dated no earlier than the last change of what it is about, and no
\* later than its own commit, so that what is removed was recorded before.

Before(log, t) == {e \in log : e.at < t}

Since(S, tch, t) == {x \in S : tch[x] < t}

Covers(log, w, S, tch) ==
    \A t \in Int : SumOf(Before(log, t)) >= SumOver(w, Since(S, tch, t))

\* Weights and instants for the members of S.
Dated(S, w, tch) == IsFiniteSet(S) /\ \A x \in S : w[x] \in Nat /\ tch[x] \in Int

LEMMA SinceSums ==
    ASSUME NEW S, NEW w, NEW tch, Dated(S, w, tch), NEW U \in SUBSET S
    PROVE  IsFiniteSet(U) /\ Weighs(w, U) /\ SumOver(w, U) \in Nat
<1>1. IsFiniteSet(U)
  BY FS_Subset DEF Dated
<1>2. \A x \in U : w[x] \in Nat
  BY DEF Dated
<1>. QED BY <1>1, <1>2, SumNonnegative DEF Weighs

LEMMA BeforeAdd ==
    ASSUME NEW log, Logged(log), NEW e \in Rows, e \notin log, NEW t \in Int
    PROVE  /\ SumOf(Before(log, t)) \in Int
           /\ e.at < t => SumOf(Before(log \cup {e}, t)) = SumOf(Before(log, t)) + e.delta
           /\ ~(e.at < t) => SumOf(Before(log \cup {e}, t)) = SumOf(Before(log, t))
<1>1. Before(log, t) \in SUBSET log /\ e \notin Before(log, t)
  BY DEF Before
<1>2. Logged(Before(log, t)) /\ SumOf(Before(log, t)) \in Int
  BY <1>1, LogSum
<1>3. ASSUME e.at < t PROVE SumOf(Before(log \cup {e}, t)) = SumOf(Before(log, t)) + e.delta
  <2>1. Before(log \cup {e}, t) = Before(log, t) \cup {e}
    BY <1>3 DEF Before
  <2>2. SumOf(Before(log, t) \cup {e}) = SumOf(Before(log, t)) + e.delta
    BY <1>1, <1>2, LogAdd
  <2>. QED BY ONLY <2>1, <2>2
<1>4. ASSUME ~(e.at < t) PROVE SumOf(Before(log \cup {e}, t)) = SumOf(Before(log, t))
  <2>1. Before(log \cup {e}, t) = Before(log, t)
    BY <1>4 DEF Before
  <2>. QED BY ONLY <2>1
<1>. QED BY <1>2, <1>3, <1>4

LEMMA CoverAdd ==
    ASSUME NEW log, Logged(log), NEW S, NEW w, NEW tch, Dated(S, w, tch), Covers(log, w, S, tch),
           NEW e \in Rows, e \notin log, NEW x, x \notin S,
           NEW w2, NEW tch2, \A y \in S : w2[y] = w[y] /\ tch2[y] = tch[y],
           w2[x] \in Nat, tch2[x] \in Int, e.delta = w2[x], e.at <= tch2[x]
    PROVE  Covers(log \cup {e}, w2, S \cup {x}, tch2)
<1> SUFFICES ASSUME NEW t \in Int
             PROVE  SumOf(Before(log \cup {e}, t)) >= SumOver(w2, Since(S \cup {x}, tch2, t))
  BY DEF Covers
<1>1. PICK H : H = Since(S, tch, t)
  OBVIOUS
<1>2. H \in SUBSET S /\ x \notin H
  BY <1>1 DEF Since
<1>3. IsFiniteSet(H) /\ Weighs(w, H) /\ SumOver(w, H) \in Nat
  BY <1>2, SinceSums
<1>4. SumOver(w2, H) = SumOver(w, H) /\ Weighs(w2, H)
  <2>1. \A y \in H : w2[y] = w[y]
    BY <1>2
  <2>. QED BY <1>3, <2>1, SumSame DEF Weighs
<1>5. PICK a : a = SumOf(Before(log, t))
  OBVIOUS
<1>6. a \in Int /\ a >= SumOver(w, H)
  BY <1>1, <1>5, BeforeAdd DEF Covers
<1>7. e.at \in Int /\ e.delta \in Nat
  BY DEF Rows
<1>8. CASE tch2[x] < t
  <2>1. Since(S \cup {x}, tch2, t) = H \cup {x}
    BY <1>1, <1>8 DEF Since
  <2>2. SumOver(w2, H \cup {x}) = SumOver(w2, H) + w2[x]
    BY <1>2, <1>3, <1>4, SumAdd
  <2>3. SumOver(w2, Since(S \cup {x}, tch2, t)) = SumOver(w, H) + e.delta
    BY ONLY <1>4, <2>1, <2>2, e.delta = w2[x]
  <2>4. e.at < t
    BY <1>7, <1>8
  <2>5. SumOf(Before(log \cup {e}, t)) = a + e.delta
    BY <1>5, <2>4, BeforeAdd
  <2>. QED BY ONLY <1>3, <1>6, <1>7, <2>3, <2>5
<1>9. CASE ~(tch2[x] < t)
  <2>1. Since(S \cup {x}, tch2, t) = H
    BY <1>1, <1>9 DEF Since
  <2>2. SumOver(w2, Since(S \cup {x}, tch2, t)) = SumOver(w, H)
    BY ONLY <1>4, <2>1
  <2>3. SumOf(Before(log \cup {e}, t)) = a + e.delta \/ SumOf(Before(log \cup {e}, t)) = a
    BY <1>5, BeforeAdd
  <2>. QED BY ONLY <1>3, <1>6, <1>7, <2>2, <2>3
<1>. QED BY <1>8, <1>9

LEMMA CoverRemove ==
    ASSUME NEW log, Logged(log), NEW S, NEW w, NEW tch, Dated(S, w, tch), Covers(log, w, S, tch),
           NEW e \in Rows, e \notin log, NEW x \in S,
           NEW w2, NEW tch2, \A y \in S \ {x} : w2[y] = w[y] /\ tch2[y] = tch[y],
           e.delta = -w[x], tch[x] <= e.at
    PROVE  Covers(log \cup {e}, w2, S \ {x}, tch2)
<1> SUFFICES ASSUME NEW t \in Int
             PROVE  SumOf(Before(log \cup {e}, t)) >= SumOver(w2, Since(S \ {x}, tch2, t))
  BY DEF Covers
<1>1. PICK H : H = Since(S, tch, t)
  OBVIOUS
<1>2. H \in SUBSET S /\ w[x] \in Nat /\ tch[x] \in Int
  BY <1>1 DEF Since, Dated
<1>3. IsFiniteSet(H) /\ Weighs(w, H) /\ SumOver(w, H) \in Nat
  BY <1>2, SinceSums
<1>4. Since(S \ {x}, tch2, t) = H \ {x}
  BY <1>1 DEF Since
<1>5. IsFiniteSet(H \ {x}) /\ Weighs(w, H \ {x}) /\ SumOver(w, H \ {x}) \in Nat
  BY <1>2, SinceSums
<1>6. SumOver(w2, H \ {x}) = SumOver(w, H \ {x})
  <2>1. \A y \in H \ {x} : w2[y] = w[y]
    BY <1>2
  <2>. QED BY <1>5, <2>1, SumSame
<1>7. PICK a : a = SumOf(Before(log, t))
  OBVIOUS
<1>8. a \in Int /\ a >= SumOver(w, H)
  BY <1>1, <1>7, BeforeAdd DEF Covers
<1>9. e.at \in Int
  BY DEF Rows
<1>10. PICK b : b = SumOver(w2, Since(S \ {x}, tch2, t))
  OBVIOUS
<1>11. b = SumOver(w, H \ {x})
  BY ONLY <1>4, <1>6, <1>10
<1>12. CASE x \in H
  <2>1. SumOver(w, H) = w[x] + SumOver(w, H \ {x})
    BY <1>3, <1>12, SumRemove
  <2>2. SumOf(Before(log \cup {e}, t)) = a + e.delta \/ SumOf(Before(log \cup {e}, t)) = a
    BY <1>7, BeforeAdd
  <2>3. SumOf(Before(log \cup {e}, t)) >= b
    BY ONLY <1>2, <1>5, <1>8, <1>11, <2>1, <2>2, e.delta = -w[x]
  <2>. QED BY ONLY <1>10, <2>3
<1>13. CASE x \notin H
  <2>1. ~(e.at < t)
    BY <1>1, <1>2, <1>9, <1>13 DEF Since
  <2>2. SumOf(Before(log \cup {e}, t)) = a
    BY <1>7, <2>1, BeforeAdd
  <2>3. H \ {x} = H
    BY <1>13
  <2>4. b = SumOver(w, H)
    BY ONLY <1>11, <2>3
  <2>. QED BY ONLY <1>8, <1>10, <2>2, <2>4
<1>. QED BY <1>12, <1>13

LEMMA CoverTouch ==
    ASSUME NEW log, Logged(log), NEW S, NEW w, NEW tch, Dated(S, w, tch), Covers(log, w, S, tch),
           NEW tch2, \A y \in S : tch2[y] \in Int /\ tch[y] <= tch2[y]
    PROVE  Covers(log, w, S, tch2)
<1> SUFFICES ASSUME NEW t \in Int
             PROVE  SumOf(Before(log, t)) >= SumOver(w, Since(S, tch2, t))
  BY DEF Covers
<1>1. PICK H : H = Since(S, tch, t)
  OBVIOUS
<1>2. PICK G : G = Since(S, tch2, t)
  OBVIOUS
<1>3. H \in SUBSET S /\ G \in SUBSET H
  BY <1>1, <1>2 DEF Since, Dated
<1>4. IsFiniteSet(H) /\ Weighs(w, H)
  BY <1>3, SinceSums
<1>5. SumOver(w, H) = SumOver(w, G) + SumOver(w, H \ G)
  BY <1>3, <1>4, SumSplit
<1>6. SumOver(w, G) \in Nat /\ SumOver(w, H \ G) \in Nat
  BY <1>3, SinceSums
<1>7. SumOf(Before(log, t)) >= SumOver(w, H)
  BY <1>1 DEF Covers
<1>8. SumOf(Before(log, t)) \in Int
  <2>1. Before(log, t) \in SUBSET log
    BY DEF Before
  <2>. QED BY <2>1, LogSum
<1>. QED BY ONLY <1>2, <1>5, <1>6, <1>7, <1>8

----------------------------------------------------------------------------
\* What a step of Postgres does to the counters, the logs and the rows.

Watched == {"blobAddSize", "blobRemoveSize", "uploadAdd", "uploadRemove"}

\* The counters only rise; a log moves together with a counter that the reader
\* watches, and a counter moves only with a change.
Moved ==
    /\ backend' = backend
    /\ \A m \in Metrics : total[m] <= total'[m]
    /\ \/ byteLog' = byteLog /\ uploadLog' = uploadLog
       \/ \E m \in Watched : total[m] < total'[m]
    /\ changes <= changes'
    /\ total' = total \/ changes' = changes + 1

Ones == [x \in Roots |-> 1]

\* Each log covers what is held at every instant; that of the uploads does so
\* as long as no entry was suppressed.
Covered ==
    backend = "postgres" =>
        /\ Covers(byteLog, registry, Registered, touched)
        /\ ~suppressed => Covers(uploadLog, Ones, uploads, touched)

LEMMA DatedBytes ==
    ASSUME Typed
    PROVE  Dated(Registered, registry, touched)
<1>1. IsFiniteSet(Registered)
  BY DEF Typed, Sized, Registered
<1>2. \A d \in Digests : SizeOf[d] \in Nat
  BY AccountAssumption
<1>3. \A d \in Registered : registry[d] \in Nat /\ touched[d] \in Int
  BY <1>2 DEF Typed, Sized, Registered
<1>. QED BY <1>1, <1>3 DEF Dated

LEMMA DatedUploads ==
    ASSUME Typed
    PROVE  Dated(uploads, Ones, touched)
BY DEF Typed, Dated, Ones

\* What a change does to the instants.
LEMMA ChangeTouches ==
    ASSUME Typed, NEW x \in Digests \cup Roots, Change(x)
    PROVE  /\ touched'[x] = now /\ now \in Int
           /\ \A y \in Digests \cup Roots : /\ y # x => touched'[y] = touched[y]
                                            /\ touched'[y] \in Int /\ touched[y] <= touched'[y]
           /\ backend' = backend /\ changes' = changes + 1 /\ changes <= changes'
<1>1. /\ touched \in [Digests \cup Roots -> Int] /\ now \in Int /\ changes \in Nat
      /\ \A y \in Digests \cup Roots : touched[y] <= now
  BY DEF Typed
<1>2. touched' = [touched EXCEPT ![x] = now] /\ backend' = backend /\ changes' = changes + 1
  BY DEF Change
<1>3. \A y \in Digests \cup Roots : touched'[y] = IF y = x THEN now ELSE touched[y]
  BY <1>1, <1>2
<1>. QED BY <1>1, <1>2, <1>3

\* The rows that the change is not about stay covered.
LEMMA OthersCovered ==
    ASSUME Typed, LogsOK(byteLog, uploadLog, changes), NEW x \in Digests \cup Roots, Change(x),
           backend = "postgres", Covered
    PROVE  /\ Covers(byteLog, registry, Registered, touched')
           /\ ~suppressed => Covers(uploadLog, Ones, uploads, touched')
<1>1. \A y \in Digests \cup Roots : touched'[y] \in Int /\ touched[y] <= touched'[y]
  BY ChangeTouches
<1>2. Registered \subseteq Digests /\ uploads \subseteq Roots
  BY DEF Registered, Typed
<1>3. Logged(byteLog) /\ Logged(uploadLog)
  BY DEF LogsOK
<1>4. /\ \A y \in Registered : touched'[y] \in Int /\ touched[y] <= touched'[y]
      /\ \A y \in uploads : touched'[y] \in Int /\ touched[y] <= touched'[y]
  BY <1>1, <1>2
<1>5. Covers(byteLog, registry, Registered, touched')
  <2>1. Covers(byteLog, registry, Registered, touched)
    BY DEF Covered
  <2>. QED BY <1>3, <1>4, <2>1, DatedBytes, CoverTouch
<1>6. ASSUME ~suppressed PROVE Covers(uploadLog, Ones, uploads, touched')
  <2>1. Covers(uploadLog, Ones, uploads, touched)
    BY <1>6 DEF Covered
  <2>. QED BY <1>3, <1>4, <2>1, DatedUploads, CoverTouch
<1>. QED BY <1>5, <1>6

\* A counter goes up by an increment.
LEMMA Rises ==
    ASSUME NEW tot \in Counters, NEW inc \in Counters, \A m \in Metrics : inc[m] >= 0
    PROVE  \A m \in Metrics : /\ tot[m] <= Increment(tot, inc)[m]
                              /\ inc[m] > 0 => tot[m] < Increment(tot, inc)[m]
<1>1. \A m \in Metrics : Increment(tot, inc)[m] = tot[m] + inc[m]
  BY Incremented
<1>2. \A m \in Metrics : tot[m] \in Int /\ inc[m] \in Int
  BY DEF Counters
<1>. QED BY <1>1, <1>2

LEMMA IncrementsRise ==
    /\ \A d \in Digests : /\ AddInc(d)["blobAddSize"] > 0 /\ AddInc(d) \in Counters
                          /\ \A m \in Metrics : AddInc(d)[m] >= 0
                          /\ RemoveInc(SizeOf[d])["blobRemoveSize"] > 0
                          /\ RemoveInc(SizeOf[d]) \in Counters
                          /\ \A m \in Metrics : RemoveInc(SizeOf[d])[m] >= 0
    /\ \A delta \in {1, -1} : /\ UploadInc(delta) \in Counters
                              /\ \A m \in Metrics : UploadInc(delta)[m] >= 0
                              /\ \E m \in Watched : UploadInc(delta)[m] > 0
<1>1. ASSUME NEW d \in Digests
      PROVE  /\ AddInc(d)["blobAddSize"] > 0 /\ AddInc(d) \in Counters
             /\ \A m \in Metrics : AddInc(d)[m] >= 0
             /\ RemoveInc(SizeOf[d])["blobRemoveSize"] > 0
             /\ RemoveInc(SizeOf[d]) \in Counters
             /\ \A m \in Metrics : RemoveInc(SizeOf[d])[m] >= 0
  <2>1. SizeOf[d] \in Int /\ SizeOf[d] > 0
    BY AccountAssumption
  <2>2. AddInc(d)["blobAddSize"] > 0 /\ \A m \in Metrics : AddInc(d)[m] >= 0
    BY <2>1 DEF AddInc, NoInc, Metrics
  <2>3. RemoveInc(SizeOf[d])["blobRemoveSize"] > 0 /\ \A m \in Metrics : RemoveInc(SizeOf[d])[m] >= 0
    BY <2>1 DEF RemoveInc, NoInc, Metrics
  <2>. QED BY <2>1, <2>2, <2>3, Increments
<1>2. /\ UploadInc(1)["uploadAdd"] > 0 /\ \A m \in Metrics : UploadInc(1)[m] >= 0
      /\ UploadInc(-1)["uploadRemove"] > 0 /\ \A m \in Metrics : UploadInc(-1)[m] >= 0
  BY DEF UploadInc, NoInc, Metrics
<1>3. UploadInc(1) \in Counters /\ UploadInc(-1) \in Counters
  BY Increments
<1>. QED BY <1>1, <1>2, <1>3 DEF Watched

LEMMA RegisterMoves ==
    ASSUME Committed, Covered, NEW d \in Digests, Register(d)
    PROVE  Moved /\ Covered'
<1>1. Typed /\ LogsOK(byteLog, uploadLog, changes) /\ backend = "postgres"
  BY DEF Committed
<1>2. changes \in Nat /\ total \in Counters /\ Sized(registry)
  BY <1>1 DEF Typed
<1>3. /\ registry[d] = 0 /\ registry' = [registry EXCEPT ![d] = SizeOf[d]] /\ Change(d)
      /\ total' = Increment(total, AddInc(d))
      /\ UNCHANGED <<uploads, uploadLog, suppressed>>
  BY DEF Register, Move, IncrementSpace
<1>4. /\ touched'[d] = now /\ now \in Int
      /\ \A y \in Digests \cup Roots : y # d => touched'[y] = touched[y]
      /\ backend' = backend /\ changes' = changes + 1 /\ changes <= changes'
  BY <1>1, <1>3, ChangeTouches
<1>5. PICK at \in Instants(d) : byteLog' = byteLog \cup {Entry(at, changes + 1, SizeOf[d])}
  BY <1>4 DEF Register, PutDiff
<1>6. at \in Int /\ at <= now
  BY <1>1, InstantTypes
<1>7. PICK e : e = Entry(at, changes + 1, SizeOf[d])
  OBVIOUS
<1>8. SizeOf[d] \in Nat \ {0}
  BY AccountAssumption
<1>9. e \in Rows /\ e.at = at /\ e.delta = SizeOf[d] /\ e \notin byteLog
  <2>1. e \in Rows /\ e.at = at /\ e.delta = SizeOf[d]
    BY <1>2, <1>6, <1>7, <1>8 DEF Entry, Rows
  <2>2. SizeOf[d] \in Int
    BY <1>8
  <2>3. e \notin byteLog
    BY <1>1, <1>2, <1>6, <1>7, <2>2, ByteLogGrows
  <2>. QED BY <2>1, <2>3
<1>10. Moved
  <2>1. \A m \in Metrics : total[m] <= total'[m]
    BY <1>2, <1>3, IncrementsRise, Rises
  <2>2. total["blobAddSize"] < total'["blobAddSize"]
    <3>1. "blobAddSize" \in Metrics
      BY DEF Metrics
    <3>. QED BY <1>2, <1>3, <3>1, IncrementsRise, Rises
  <2>. QED BY <1>4, <2>1, <2>2 DEF Moved, Watched
<1>11. registry'[d] = SizeOf[d] /\ \A y \in Digests \ {d} : registry'[y] = registry[y]
  BY <1>2, <1>3 DEF Sized
<1>12. Registered' = Registered \cup {d} /\ d \notin Registered /\ Registered \subseteq Digests \ {d}
  BY <1>3, <1>8, <1>11 DEF Registered
<1>13. Covers(byteLog', registry', Registered', touched')
  <2>1. \A y \in Registered : registry'[y] = registry[y] /\ touched'[y] = touched[y]
    BY <1>4, <1>11, <1>12
  <2>2. Logged(byteLog) /\ Covers(byteLog, registry, Registered, touched)
    BY <1>1 DEF LogsOK, Covered
  <2>3. Dated(Registered, registry, touched)
    BY <1>1, DatedBytes
  <2>4. registry'[d] \in Nat /\ touched'[d] \in Int /\ e.delta = registry'[d] /\ e.at <= touched'[d]
    BY <1>4, <1>6, <1>8, <1>9, <1>11
  <2>5. Covers(byteLog \cup {e}, registry', Registered \cup {d}, touched')
    <3>1. PICK log, w, w2, R, tch, tch2 :
            /\ log = byteLog /\ w = registry /\ w2 = registry' /\ R = Registered
            /\ tch = touched /\ tch2 = touched'
      OBVIOUS
    <3>2. /\ Logged(log) /\ Dated(R, w, tch) /\ Covers(log, w, R, tch)
          /\ e \in Rows /\ e \notin log /\ d \notin R
      BY ONLY <1>9, <1>12, <2>2, <2>3, <3>1
    <3>3. /\ \A y \in R : w2[y] = w[y] /\ tch2[y] = tch[y]
          /\ w2[d] \in Nat /\ tch2[d] \in Int /\ e.delta = w2[d] /\ e.at <= tch2[d]
      BY ONLY <2>1, <2>4, <3>1
    <3>4. Covers(log \cup {e}, w2, R \cup {d}, tch2)
      BY ONLY <3>2, <3>3, CoverAdd
    <3>. QED BY ONLY <3>1, <3>4
  <2>6. byteLog' = byteLog \cup {e} /\ Registered' = Registered \cup {d}
    BY <1>5, <1>7, <1>12
  <2>. QED BY ONLY <2>5, <2>6
<1>14. ~suppressed => Covers(uploadLog, Ones, uploads, touched')
  BY <1>1, <1>3, OthersCovered
<1>. QED BY <1>3, <1>10, <1>13, <1>14 DEF Covered

LEMMA DeregisterMoves ==
    ASSUME Committed, Covered, NEW p \in Removers, DeregisterCommit(p)
    PROVE  Moved /\ Covered'
<1>1. Typed /\ LogsOK(byteLog, uploadLog, changes) /\ backend = "postgres"
  BY DEF Committed
<1>2. changes \in Nat /\ total \in Counters /\ Sized(registry) /\ removing \in [Removers -> Readings]
  BY <1>1 DEF Typed
<1>3. PICK d \in removing[p].digest :
            /\ registry[d] # 0 /\ Change(d)
            /\ registry' = [registry EXCEPT ![d] = 0]
            /\ \E at \in Instants(d) : PutDiff(at, changes', -removing[p].size)
            /\ Move(RemoveInc(removing[p].size))
            /\ removing' = [removing EXCEPT ![p] = Nothing]
            /\ UNCHANGED <<uploads, uploadLog, held, suppressed>>
  BY DEF DeregisterCommit
<1>4. d \in Digests /\ removing[p].size = SizeOf[d]
  BY <1>2, <1>3 DEF Readings, Nothing
<1>5. total' = Increment(total, RemoveInc(SizeOf[d]))
  BY <1>3, <1>4 DEF Move, IncrementSpace
<1>6. /\ touched'[d] = now /\ now \in Int
      /\ \A y \in Digests \cup Roots : y # d => touched'[y] = touched[y]
      /\ backend' = backend /\ changes' = changes + 1 /\ changes <= changes'
  BY <1>1, <1>3, <1>4, ChangeTouches
<1>7. PICK at \in Instants(d) : byteLog' = byteLog \cup {Entry(at, changes + 1, -SizeOf[d])}
  BY <1>3, <1>4, <1>6 DEF PutDiff
<1>8. at \in Int /\ touched[d] <= at
  BY <1>1, <1>4, InstantTypes
<1>9. SizeOf[d] \in Nat \ {0} /\ registry[d] = SizeOf[d]
  BY <1>2, <1>3, <1>4, AccountAssumption DEF Sized
<1>10. PICK delta \in Int : delta = -SizeOf[d]
  BY <1>9
<1>11. PICK e : e = Entry(at, changes + 1, delta)
  OBVIOUS
<1>12. e \in Rows /\ e.at = at /\ e.delta = delta /\ e \notin byteLog
  <2>1. e \in Rows /\ e.at = at /\ e.delta = delta
    BY <1>2, <1>8, <1>11 DEF Entry, Rows
  <2>2. e \notin byteLog
    <3>1. LogsOK(byteLog, uploadLog, changes) /\ changes \in Nat /\ at \in Int
      BY <1>1, <1>2, <1>8
    <3>. QED BY ONLY <1>11, <3>1, ByteLogGrows
  <2>. QED BY <2>1, <2>2
<1>13. Moved
  <2>1. \A m \in Metrics : total[m] <= total'[m]
    BY <1>2, <1>4, <1>5, IncrementsRise, Rises
  <2>2. total["blobRemoveSize"] < total'["blobRemoveSize"]
    <3>1. "blobRemoveSize" \in Metrics
      BY DEF Metrics
    <3>. QED BY <1>2, <1>4, <1>5, <3>1, IncrementsRise, Rises
  <2>. QED BY <1>6, <2>1, <2>2 DEF Moved, Watched
<1>14. registry'[d] = 0 /\ \A y \in Digests \ {d} : registry'[y] = registry[y]
  BY <1>2, <1>3, <1>4 DEF Sized
<1>15. Registered' = Registered \ {d} /\ d \in Registered /\ Registered \subseteq Digests
  BY <1>3, <1>4, <1>14 DEF Registered
<1>16. Covers(byteLog', registry', Registered', touched')
  <2>1. \A y \in Registered \ {d} : registry'[y] = registry[y] /\ touched'[y] = touched[y]
    BY <1>6, <1>14, <1>15
  <2>2. Logged(byteLog) /\ Covers(byteLog, registry, Registered, touched)
    BY <1>1 DEF LogsOK, Covered
  <2>3. Dated(Registered, registry, touched)
    BY <1>1, DatedBytes
  <2>4. e.delta = -registry[d] /\ touched[d] <= e.at
    BY <1>8, <1>9, <1>10, <1>12
  <2>5. Covers(byteLog \cup {e}, registry', Registered \ {d}, touched')
    BY <1>12, <1>15, <2>1, <2>2, <2>3, <2>4, CoverRemove
  <2>6. byteLog' = byteLog \cup {e} /\ Registered' = Registered \ {d}
    BY <1>7, <1>10, <1>11, <1>15
  <2>. QED BY ONLY <2>5, <2>6
<1>17. ~suppressed => Covers(uploadLog, Ones, uploads, touched')
  BY <1>1, <1>3, <1>4, OthersCovered
<1>. QED BY <1>3, <1>13, <1>16, <1>17 DEF Covered

\* recordDelta of a root that comes or goes.
LEMMA RecordDeltaMoves ==
    ASSUME Committed, Covered, NEW root \in Roots, NEW cause \in AddCauses \cup RemoveCauses,
           NEW delta \in {1, -1}, Change(root), RecordDelta(root, cause, delta),
           \/ delta = 1 /\ root \notin uploads /\ uploads' = uploads \cup {root}
           \/ delta = -1 /\ root \in uploads /\ uploads' = uploads \ {root},
           UNCHANGED <<registry, byteLog>>
    PROVE  Moved /\ Covered'
<1>1. Typed /\ LogsOK(byteLog, uploadLog, changes) /\ backend = "postgres"
  BY DEF Committed
<1>2. changes \in Nat /\ total \in Counters /\ uploads \subseteq Roots
  BY <1>1 DEF Typed
<1>3. /\ touched'[root] = now /\ now \in Int
      /\ \A y \in Digests \cup Roots : y # root => touched'[y] = touched[y]
      /\ backend' = backend /\ changes' = changes + 1 /\ changes <= changes'
  BY <1>1, ChangeTouches
<1>4. PICK at \in Instants(root) :
        IF Recorded(at, cause)
        THEN suppressed' = TRUE /\ UNCHANGED <<uploadLog, total, admin>>
        ELSE /\ uploadLog' = uploadLog \cup {Entry(at, cause, delta)}
             /\ Move(UploadInc(delta))
             /\ UNCHANGED suppressed
  BY DEF RecordDelta
<1>5. at \in Int /\ cause \in Int /\ delta \in Int /\ touched[root] <= at /\ at <= now
  BY <1>1, InstantTypes, AccountAssumption
<1>6. Covers(byteLog, registry, Registered, touched') /\ Registered' = Registered
  BY <1>1, OthersCovered DEF Registered
<1>7. CASE Recorded(at, cause)
  <2>1. suppressed' /\ UNCHANGED <<uploadLog, total>>
    BY <1>4, <1>7
  <2>2. Moved
    <3>1. \A m \in Metrics : total[m] \in Int
      BY <1>2 DEF Counters
    <3>. QED BY <1>3, <2>1, <3>1 DEF Moved
  <2>. QED BY <1>6, <2>1, <2>2 DEF Covered
<1>8. CASE ~Recorded(at, cause)
  <2>1. PICK e : e = Entry(at, cause, delta)
    OBVIOUS
  <2>2. /\ uploadLog' = uploadLog \cup {e}
        /\ total' = Increment(total, UploadInc(delta)) /\ suppressed' = suppressed
    BY <1>4, <1>8, <2>1 DEF Move, IncrementSpace
  <2>3. e \in Rows /\ e.at = at /\ e.delta = delta /\ e \notin uploadLog
    BY <1>5, <1>8, <2>1 DEF Entry, Rows, Recorded
  <2>4. Moved
    <3>1. \A m \in Metrics : total[m] <= total'[m]
      BY <1>2, <2>2, IncrementsRise, Rises
    <3>2. PICK m \in Watched : UploadInc(delta)[m] > 0
      BY IncrementsRise
    <3>3. m \in Metrics
      BY DEF Watched, Metrics
    <3>4. total[m] < total'[m]
      BY <1>2, <2>2, <3>2, <3>3, IncrementsRise, Rises
    <3>. QED BY <1>3, <3>1, <3>4 DEF Moved
  <2>5. ASSUME ~suppressed PROVE Covers(uploadLog', Ones, uploads', touched')
    <3>1. Logged(uploadLog) /\ Covers(uploadLog, Ones, uploads, touched)
      BY <1>1, <2>5 DEF LogsOK, Covered
    <3>2. Dated(uploads, Ones, touched) /\ Ones[root] = 1
      BY <1>1, DatedUploads DEF Ones
    <3>3. CASE delta = 1 /\ root \notin uploads /\ uploads' = uploads \cup {root}
      <4>1. \A y \in uploads : touched'[y] = touched[y]
        BY <1>2, <1>3, <3>3
      <4>2. Ones[root] \in Nat /\ touched'[root] \in Int /\ e.delta = Ones[root] /\ e.at <= touched'[root]
        BY <1>3, <1>5, <2>3, <3>2, <3>3
      <4>3. Covers(uploadLog \cup {e}, Ones, uploads \cup {root}, touched')
        BY <2>3, <3>1, <3>2, <3>3, <4>1, <4>2, CoverAdd
      <4>. QED BY ONLY <2>2, <3>3, <4>3
    <3>4. CASE delta = -1 /\ root \in uploads /\ uploads' = uploads \ {root}
      <4>1. \A y \in uploads \ {root} : touched'[y] = touched[y]
        BY <1>2, <1>3, <3>4
      <4>2. e.delta = -Ones[root] /\ touched[root] <= e.at
        BY <1>5, <2>3, <3>2, <3>4
      <4>3. Covers(uploadLog \cup {e}, Ones, uploads \ {root}, touched')
        BY <2>3, <3>1, <3>2, <3>4, <4>1, <4>2, CoverRemove
      <4>. QED BY ONLY <2>2, <3>4, <4>3
    <3>. QED BY <3>3, <3>4
  <2>. QED BY <1>6, <2>2, <2>4, <2>5 DEF Covered
<1>. QED BY <1>7, <1>8

LEMMA PostgresMoves ==
    ASSUME Committed, Covered, AccountNext
    PROVE  Moved /\ Covered'
<1>1. Typed /\ LogsOK(byteLog, uploadLog, changes) /\ backend = "postgres"
      /\ held["registry"] = <<>> /\ held["upload"] = <<>>
  BY DEF Committed
<1>2. changes \in Nat /\ total \in Counters
  BY <1>1 DEF Typed
<1>3. \A m \in Metrics : total[m] \in Int
  BY <1>2 DEF Counters
<1>4. ASSUME UNCHANGED <<backend, registry, uploads, byteLog, uploadLog, total, touched, changes, suppressed>>
      PROVE  Moved /\ Covered'
  <2>1. Moved
    BY <1>2, <1>3, <1>4 DEF Moved
  <2>2. Covered'
    BY <1>4 DEF Covered, Registered
  <2>. QED BY <2>1, <2>2
<1>5. ASSUME NEW p \in Removers, NEW d \in Digests, DeregisterRead(p, d) PROVE Moved /\ Covered'
  BY <1>4, <1>5 DEF DeregisterRead
<1>6. ASSUME NEW p \in Removers, DeregisterEnd(p) PROVE Moved /\ Covered'
  BY <1>4, <1>6 DEF DeregisterEnd
<1>7. CASE Tick
  BY <1>4, <1>7 DEF Tick
<1>8. ASSUME NEW root \in Roots, NEW cause \in AddCauses, Upsert(root, cause) PROVE Moved /\ Covered'
  <2>1. Change(root) /\ uploads' = uploads \cup {root} /\ UNCHANGED <<registry, byteLog>>
    BY <1>8 DEF Upsert
  <2>2. CASE root \in uploads
    <3>1. uploads' = uploads /\ UNCHANGED <<uploadLog, total, suppressed>>
      BY <1>8, <2>1, <2>2 DEF Upsert
    <3>2. backend' = backend /\ changes' = changes + 1 /\ changes <= changes'
      BY <1>1, <2>1, ChangeTouches
    <3>3. Moved
      BY <1>3, <2>1, <3>1, <3>2 DEF Moved
    <3>4. /\ Covers(byteLog, registry, Registered, touched')
          /\ ~suppressed => Covers(uploadLog, Ones, uploads, touched')
      BY <1>1, <2>1, OthersCovered
    <3>5. Registered' = Registered
      BY <2>1 DEF Registered
    <3>6. Covered'
      BY <2>1, <3>1, <3>4, <3>5 DEF Covered
    <3>. QED BY <3>3, <3>6
  <2>3. CASE root \notin uploads
    <3>1. RecordDelta(root, cause, 1)
      BY <1>8, <2>3 DEF Upsert
    <3>. QED BY <2>1, <2>3, <3>1, RecordDeltaMoves
  <2>. QED BY <2>2, <2>3
<1>9. ASSUME NEW root \in Roots, NEW cause \in RemoveCauses, RemoveUpload(root, cause)
      PROVE  Moved /\ Covered'
  <2>1. /\ Change(root) /\ root \in uploads /\ uploads' = uploads \ {root}
        /\ RecordDelta(root, cause, -1) /\ UNCHANGED <<registry, byteLog>>
    BY <1>9 DEF RemoveUpload
  <2>. QED BY <2>1, RecordDeltaMoves
<1>10. /\ \A d \in Digests : ~MemoryRegister(d) /\ ~MemoryDeregister(d)
       /\ \A root, cause : ~MemoryUpsert(root, cause) /\ ~MemoryRemove(root, cause)
       /\ \A s \in {"registry", "upload"} : ~MemoryStep(s)
  BY <1>1 DEF MemoryRegister, MemoryDeregister, MemoryUpsert, MemoryRemove, Hold, MemoryStep
<1>. QED BY <1>5, <1>6, <1>7, <1>8, <1>9, <1>10, RegisterMoves, DeregisterMoves
     DEF AccountNext, UploadAdd, UploadRemove

----------------------------------------------------------------------------
\* Pages

\* No two rows of a log have the same place in its order.
Distinct(log) ==
    /\ log \in SUBSET Rows
    /\ \A e, f \in log : e.at = f.at /\ e.cause = f.cause => e = f

LEMMA RowOrder ==
    ASSUME NEW log, Distinct(log)
    PROVE  /\ \A e, f \in log : e = f \/ Earlier(e, f) \/ Earlier(f, e)
           /\ \A e, f \in log : Earlier(e, f) => e # f /\ ~Earlier(f, e)
           /\ \A e, f, g \in log : Earlier(e, f) /\ Earlier(f, g) => Earlier(e, g)
<1>1. \A e \in log : e.at \in Int /\ e.cause \in Int
  BY DEF Distinct, Rows
<1>2. \A e, f \in log : e = f \/ Earlier(e, f) \/ Earlier(f, e)
  BY <1>1 DEF Distinct, Earlier
<1>3. \A e, f \in log : Earlier(e, f) => e # f /\ ~Earlier(f, e)
  BY <1>1 DEF Earlier
<1>4. \A e, f, g \in log : Earlier(e, f) /\ Earlier(f, g) => Earlier(e, g)
  BY <1>1 DEF Earlier
<1>. QED BY <1>2, <1>3, <1>4

LEMMA LastRow ==
    ASSUME NEW S, IsFiniteSet(S), Distinct(S), S # {}
    PROVE  \E c \in S : \A f \in S : f = c \/ Earlier(f, c)
<1>1. \A e \in S : e.at \in Int /\ e.cause \in Int
  BY DEF Distinct, Rows
<1>2. PICK ats : ats = {e.at : e \in S}
  OBVIOUS
<1>3. ats \in SUBSET Int /\ ats # {} /\ IsFiniteSet(ats)
  <2>1. PICK g : g = [e \in S |-> e.at]
    OBVIOUS
  <2>2. g \in [S -> ats] /\ \A t \in ats : \E e \in S : g[e] = t
    BY <1>2, <2>1
  <2>3. IsFiniteSet(ats)
    BY <2>2, FiniteImage
  <2>. QED BY <1>1, <1>2, <2>3
<1>4. PICK a \in ats : \A q \in ats : q <= a
  BY <1>3, LargestMember
<1>5. PICK T : T = {e \in S : e.at = a}
  OBVIOUS
<1>6. T \in SUBSET S /\ T # {} /\ IsFiniteSet(T)
  BY <1>2, <1>4, <1>5, FS_Subset
<1>7. PICK causes : causes = {e.cause : e \in T}
  OBVIOUS
<1>8. causes \in SUBSET Int /\ causes # {} /\ IsFiniteSet(causes)
  <2>1. PICK g : g = [e \in T |-> e.cause]
    OBVIOUS
  <2>2. g \in [T -> causes] /\ \A t \in causes : \E e \in T : g[e] = t
    BY <1>7, <2>1
  <2>3. IsFiniteSet(causes)
    BY <1>6, <2>2, FiniteImage
  <2>. QED BY <1>1, <1>6, <1>7, <2>3
<1>9. PICK b \in causes : \A q \in causes : q <= b
  BY <1>8, LargestMember
<1>10. PICK c \in T : c.cause = b
  BY <1>7, <1>9
<1>11. c \in S /\ c.at = a
  BY <1>5, <1>6
<1>12. ASSUME NEW f \in S PROVE f = c \/ Earlier(f, c)
  <2>1. f.at \in Int /\ f.at <= a /\ a \in Int
    BY <1>1, <1>2, <1>3, <1>4
  <2>2. CASE f.at = a
    <3>1. f.cause \in Int /\ f.cause <= b /\ b \in Int
      BY <1>1, <1>5, <1>7, <1>8, <1>9, <2>2
    <3>2. f.cause = b \/ f.cause < b
      BY <3>1
    <3>. QED BY <1>10, <1>11, <2>2, <3>2 DEF Distinct, Earlier
  <2>3. CASE f.at # a
    <3>1. f.at < a
      BY <2>1, <2>3
    <3>. QED BY <1>11, <3>1 DEF Earlier
  <2>. QED BY <2>2, <2>3
<1>. QED BY <1>11, <1>12

LEMMA FirstRow ==
    ASSUME NEW S, IsFiniteSet(S), Distinct(S), S # {}
    PROVE  \E c \in S : \A f \in S : ~Earlier(f, c)
<1>1. \A e \in S : e.at \in Int /\ e.cause \in Int
  BY DEF Distinct, Rows
<1>2. PICK ats : ats = {-e.at : e \in S}
  OBVIOUS
<1>3. ats \in SUBSET Int /\ ats # {} /\ IsFiniteSet(ats)
  <2>1. PICK g : g = [e \in S |-> -e.at]
    OBVIOUS
  <2>2. g \in [S -> ats] /\ \A t \in ats : \E e \in S : g[e] = t
    BY <1>2, <2>1
  <2>3. IsFiniteSet(ats)
    BY <2>2, FiniteImage
  <2>. QED BY <1>1, <1>2, <2>3
<1>4. PICK a \in ats : \A q \in ats : q <= a
  BY <1>3, LargestMember
<1>5. PICK T : T = {e \in S : -e.at = a}
  OBVIOUS
<1>6. T \in SUBSET S /\ T # {} /\ IsFiniteSet(T)
  BY <1>2, <1>4, <1>5, FS_Subset
<1>7. PICK causes : causes = {-e.cause : e \in T}
  OBVIOUS
<1>8. causes \in SUBSET Int /\ causes # {} /\ IsFiniteSet(causes)
  <2>1. PICK g : g = [e \in T |-> -e.cause]
    OBVIOUS
  <2>2. g \in [T -> causes] /\ \A t \in causes : \E e \in T : g[e] = t
    BY <1>7, <2>1
  <2>3. IsFiniteSet(causes)
    BY <1>6, <2>2, FiniteImage
  <2>. QED BY <1>1, <1>6, <1>7, <2>3
<1>9. PICK b \in causes : \A q \in causes : q <= b
  BY <1>8, LargestMember
<1>10. PICK c \in T : -c.cause = b
  BY <1>7, <1>9
<1>11. c \in S /\ -c.at = a /\ c.at \in Int /\ c.cause \in Int
  BY <1>1, <1>5, <1>6
<1>12. ASSUME NEW f \in S PROVE ~Earlier(f, c)
  <2>1. f.at \in Int /\ f.cause \in Int /\ -f.at <= -c.at
    BY <1>1, <1>2, <1>4, <1>11
  <2>2. c.at <= f.at
    BY <1>11, <2>1
  <2>3. CASE f.at = c.at
    <3>1. f \in T
      BY <1>5, <1>11, <2>3
    <3>2. -f.cause <= -c.cause
      BY <1>7, <1>9, <1>10, <3>1
    <3>3. c.cause <= f.cause
      BY <1>11, <2>1, <3>2
    <3>. QED BY <1>11, <2>1, <2>3, <3>3 DEF Earlier
  <2>4. CASE f.at # c.at
    BY <1>11, <2>1, <2>2, <2>4 DEF Earlier
  <2>. QED BY <2>3, <2>4
<1>. QED BY <1>11, <1>12

\* A page is the beginning of what remains, and the cursor its last row when it
\* is not all.
LEMMA PageOf ==
    ASSUME NEW log, Logged(log), Distinct(log), NEW after, NEW cursor
    PROVE  /\ Page(log, after, cursor) \in SUBSET Remaining(log, after, cursor)
           /\ Remaining(log, after, cursor) \in SUBSET log
           /\ Page(log, after, cursor) = Remaining(log, after, cursor) =>
                NextCursor(log, after, cursor) = {}
           /\ Page(log, after, cursor) # Remaining(log, after, cursor) =>
                \E c \in Page(log, after, cursor) :
                   /\ NextCursor(log, after, cursor) = {c}
                   /\ \A e \in Remaining(log, after, cursor) \ Page(log, after, cursor) : Earlier(c, e)
<1>1. PICK rest : rest = Remaining(log, after, cursor)
  OBVIOUS
<1>2. PICK page : page = Page(log, after, cursor)
  OBVIOUS
<1>3. rest \in SUBSET log
  BY <1>1 DEF Remaining
<1>4. page = {e \in rest : Cardinality({f \in rest : Earlier(f, e)}) < PageSize}
  BY <1>1, <1>2 DEF Page
<1>5. page \in SUBSET rest
  BY <1>4
<1>6. IsFiniteSet(rest) /\ IsFiniteSet(page) /\ Distinct(rest) /\ Distinct(page)
  <2>1. IsFiniteSet(rest) /\ IsFiniteSet(page)
    BY <1>3, <1>5, FS_Subset DEF Logged
  <2>2. Distinct(rest) /\ Distinct(page)
    BY <1>3, <1>5 DEF Distinct
  <2>. QED BY <2>1, <2>2
<1>7. \A e \in rest : /\ IsFiniteSet({f \in rest : Earlier(f, e)})
                      /\ Cardinality({f \in rest : Earlier(f, e)}) \in Nat
  <2>1. \A e \in rest : IsFiniteSet({f \in rest : Earlier(f, e)})
    BY <1>6, FS_Subset
  <2>. QED BY <2>1, FS_CardinalityType
<1>8. NextCursor(log, after, cursor) =
        IF page = rest THEN {} ELSE {e \in page : \A f \in page : f = e \/ Earlier(f, e)}
  BY <1>1, <1>2 DEF NextCursor
<1>9. ASSUME page # rest
      PROVE  \E c \in page : /\ NextCursor(log, after, cursor) = {c}
                             /\ \A e \in rest \ page : Earlier(c, e)
  <2>1. PICK m \in rest : \A f \in rest : ~Earlier(f, m)
    <3>1. rest # {}
      BY <1>5, <1>9
    <3>. QED BY <1>6, <3>1, FirstRow
  <2>2. m \in page
    <3>1. {f \in rest : Earlier(f, m)} = {}
      BY <2>1
    <3>2. Cardinality({f \in rest : Earlier(f, m)}) = 0
      BY <3>1, FS_EmptySet
    <3>3. 0 < PageSize
      BY UsageAssumption
    <3>. QED BY ONLY <1>4, <3>2, <3>3
  <2>3. PICK c \in page : \A f \in page : f = c \/ Earlier(f, c)
    <3>1. page # {}
      BY <2>2
    <3>. QED BY <1>6, <3>1, LastRow
  <2>4. NextCursor(log, after, cursor) = {c}
    <3>1. \A e \in page : (\A f \in page : f = e \/ Earlier(f, e)) => e = c
      BY <1>6, <2>3, RowOrder
    <3>. QED BY <1>8, <1>9, <2>3, <3>1
  <2>5. ASSUME NEW e \in rest \ page PROVE Earlier(c, e)
    <3>1. SUFFICES ASSUME ~Earlier(c, e) PROVE FALSE
      OBVIOUS
    <3>2. c \in rest /\ c # e
      BY <1>5
    <3>3. Earlier(e, c)
      BY <1>6, <3>1, <3>2, RowOrder
    <3>4. {f \in rest : Earlier(f, e)} \subseteq {f \in rest : Earlier(f, c)}
      BY <1>6, <3>2, <3>3, RowOrder
    <3>5. Cardinality({f \in rest : Earlier(f, e)}) <= Cardinality({f \in rest : Earlier(f, c)})
      BY <1>7, <3>2, <3>4, FS_Subset
    <3>6. Cardinality({f \in rest : Earlier(f, c)}) < PageSize
      BY <1>4
    <3>7. ~(Cardinality({f \in rest : Earlier(f, e)}) < PageSize)
      BY <1>4
    <3>8. PageSize \in Int
      BY UsageAssumption
    <3>. QED BY <1>7, <3>2, <3>5, <3>6, <3>7, <3>8
  <2>. QED BY <2>4, <2>5
<1>. QED BY <1>1, <1>2, <1>3, <1>5, <1>8, <1>9

\* A scan has read what comes before its cursor and nothing else.
Scanned(log, after, cursor, rows) ==
    /\ rows \cup Remaining(log, after, cursor) = Remaining(log, after, {})
    /\ cursor # {} => \E c \in log : cursor = {c} /\ c.at > after

LEMMA ScanStarts ==
    ASSUME NEW log, NEW after
    PROVE  Scanned(log, after, {}, {})
BY DEF Scanned

LEMMA ScanStep ==
    ASSUME NEW log, Logged(log), Distinct(log), NEW after \in Int, NEW cursor, NEW rows,
           Scanned(log, after, cursor, rows)
    PROVE  /\ Scanned(log, after, NextCursor(log, after, cursor), rows \cup Page(log, after, cursor))
           /\ NextCursor(log, after, cursor) = {} =>
                rows \cup Page(log, after, cursor) = Remaining(log, after, {})
<1>1. PICK rest : rest = Remaining(log, after, cursor)
  OBVIOUS
<1>2. PICK page : page = Page(log, after, cursor)
  OBVIOUS
<1>3. PICK all : all = Remaining(log, after, {})
  OBVIOUS
<1>4. /\ page \in SUBSET rest /\ rest \in SUBSET log
      /\ page = rest => NextCursor(log, after, cursor) = {}
      /\ page # rest => \E c \in page : /\ NextCursor(log, after, cursor) = {c}
                                        /\ \A e \in rest \ page : Earlier(c, e)
  BY ONLY <1>1, <1>2, PageOf, Logged(log), Distinct(log)
<1>5. rows \cup rest = all
  BY <1>1, <1>3 DEF Scanned
<1>6. all = {e \in log : e.at > after}
  BY <1>3 DEF Remaining
<1>7. CASE page = rest
  <2>1. NextCursor(log, after, cursor) = {} /\ rows \cup page = all
    BY <1>4, <1>5, <1>7
  <2>2. Scanned(log, after, {}, all)
    BY <1>3 DEF Scanned
  <2>. QED BY ONLY <1>2, <1>3, <2>1, <2>2
<1>8. CASE page # rest
  <2>1. PICK c \in page : /\ NextCursor(log, after, cursor) = {c}
                          /\ \A e \in rest \ page : Earlier(c, e)
    BY <1>4, <1>8
  <2>2. c \in log /\ c.at > after
    BY <1>4, <1>5, <1>6
  <2>3. PICK next : next = Remaining(log, after, {c})
    OBVIOUS
  <2>4. next = {e \in log : Earlier(c, e)}
    BY <2>3 DEF Remaining
  <2>5. next \in SUBSET all
    <3>1. \A e \in log : e.at \in Int
      BY DEF Distinct, Rows
    <3>. QED BY <1>6, <2>2, <2>4, <3>1 DEF Earlier
  <2>6. (rows \cup page) \cup next = all
    <3>1. (rows \cup page) \cup next \subseteq all
      BY <1>4, <1>5, <2>5
    <3>2. \A e \in rest \ page : e \in next
      BY <1>4, <2>1, <2>4
    <3>3. all \subseteq (rows \cup page) \cup next
      BY <1>5, <3>2
    <3>. QED BY <3>1, <3>3
  <2>7. Scanned(log, after, {c}, rows \cup page)
    <3>1. (rows \cup page) \cup Remaining(log, after, {c}) = Remaining(log, after, {})
      BY ONLY <1>3, <2>3, <2>6
    <3>. QED BY <2>2, <3>1 DEF Scanned
  <2>. QED BY <1>2, <2>1, <2>7
<1>. QED BY <1>7, <1>8

----------------------------------------------------------------------------
\* The range of a query and its buckets

Ranges == [from : Int, to : Int, window : Int]

\* A query that is read covers something and has no more buckets than allowed.
QueryOK(q) ==
    /\ q \in Ranges
    /\ q.from < q.to /\ q.window > 0
    /\ Buckets(q) <= MaxSamples

LEMMA BucketsCover ==
    ASSUME NEW q \in Ranges, q.from < q.to, q.window > 0
    PROVE  Buckets(q) \in Nat /\ Buckets(q) * q.window >= q.to - q.from
<1>1. PICK n \in Nat, w \in Nat \ {0} : n = q.to - q.from /\ w = q.window
  <2>1. q.from \in Int /\ q.to \in Int /\ q.window \in Int
    BY DEF Ranges
  <2>2. q.to - q.from \in Nat /\ q.window \in Nat \ {0}
    BY <2>1
  <2>. QED BY <2>2
<1>2. n \div w \in Nat /\ n % w \in 0 .. (w - 1)
  OBVIOUS
<1>3. n = w * (n \div w) + (n % w)
  OBVIOUS
<1>4. PICK x \in Nat, r \in 0 .. (w - 1) : x = n \div w /\ r = n % w
  BY <1>2
<1>5. n = w * x + r
  BY <1>3, <1>4
<1>6. Buckets(q) = x + (IF r # 0 THEN 1 ELSE 0)
  BY <1>1, <1>4 DEF Buckets
<1>7. CASE r = 0
  <2>1. Buckets(q) = x
    BY <1>6, <1>7
  <2>2. x * w >= n
    BY <1>5, <1>7
  <2>. QED BY ONLY <1>1, <2>1, <2>2, x \in Nat
<1>8. CASE r # 0
  <2>1. Buckets(q) = x + 1
    BY <1>6, <1>8
  <2>2. (x + 1) * w >= n
    BY <1>5
  <2>. QED BY ONLY <1>1, <2>1, <2>2, x \in Nat, w \in Nat
<1>. QED BY <1>7, <1>8

LEMMA ReadVerdict ==
    ASSUME NEW q \in Queries, now \in Int, Verdict(q) = "read"
    PROVE  QueryOK(Clamped(q))
<1>1. q \in Ranges
  BY UsageAssumption DEF Ranges
<1>2. /\ ~(q.from <= 0 \/ q.to <= q.from)
      /\ ~(q.window <= 0 \/ q.window > MaxWindow)
      /\ ~(Clamped(q).to <= q.from)
      /\ ~(Buckets(Clamped(q)) > MaxSamples)
  BY DEF Verdict
<1>3. PICK c : c = Clamped(q)
  OBVIOUS
<1>4. c \in Ranges /\ c.from = q.from /\ c.window = q.window
  BY <1>1, <1>3 DEF Clamped, Greater, Ranges
<1>5. c.from \in Int /\ c.to \in Int /\ c.window \in Int /\ MaxSamples \in Int
  BY <1>4, UsageAssumption DEF Ranges
<1>6. c.from < c.to /\ c.window > 0
  BY <1>2, <1>3, <1>4, <1>5
<1>7. Buckets(c) \in Nat
  BY <1>4, <1>6, BucketsCover
<1>8. Buckets(c) <= MaxSamples
  BY <1>2, <1>3, <1>5, <1>7
<1>. QED BY <1>3, <1>4, <1>6, <1>8 DEF QueryOK

LEMMA BucketEnds ==
    ASSUME NEW q, QueryOK(q), NEW k \in Nat \ {0}
    PROVE  /\ BucketEnd(q, k) \in Int /\ q.from <= BucketEnd(q, k)
           /\ q.from + (k - 1) * q.window \in Int /\ q.from <= q.from + (k - 1) * q.window
<1>1. q.from \in Int /\ q.to \in Int /\ q.window \in Int /\ q.from < q.to /\ q.window > 0
  BY DEF QueryOK, Ranges
<1>2. PICK x \in Int : x = k * q.window
  BY <1>1
<1>3. x >= 0
  BY <1>1, <1>2
<1>4. PICK y \in Int : y = (k - 1) * q.window
  BY <1>1
<1>5. y >= 0
  BY <1>1, <1>4
<1>6. BucketEnd(q, k) = Lesser(q.from + x, q.to)
  BY <1>2 DEF BucketEnd
<1>7. BucketEnd(q, k) \in Int /\ q.from <= BucketEnd(q, k)
  BY <1>1, <1>3, <1>6 DEF Lesser
<1>. QED BY <1>1, <1>4, <1>5, <1>7

\* Walking back from all that is recorded leaves what was recorded before.
LEMMA WalksBack ==
    ASSUME NEW q, QueryOK(q), NEW k \in Nat \ {0}, NEW log, Logged(log),
           NEW rows, rows = Remaining(log, ScanAfter(q), {})
    PROVE  /\ HeldAt(log, BucketEnd(q, k)) \in Int
           /\ WalkBack(q, SumOf(log), rows, k) = Greater(0, HeldAt(log, BucketEnd(q, k)))
<1>1. PICK t \in Int : t = BucketEnd(q, k) /\ q.from <= t
  BY BucketEnds
<1>2. PICK old : old = {e \in log : e.at < t}
  OBVIOUS
<1>3. \A e \in log : e.at \in Int
  BY DEF Logged, Rows
<1>4. q.from \in Int
  BY DEF QueryOK, Ranges
<1>5. rows = {e \in log : e.at > q.from - 1}
  BY DEF Remaining, ScanAfter
<1>6. {e \in rows : e.at >= t} = log \ old
  BY <1>1, <1>2, <1>3, <1>4, <1>5
<1>7. SumOf(log) = SumOf(old) + SumOf(log \ old) /\ SumOf(old) \in Int /\ SumOf(log \ old) \in Int
  <2>1. old \in SUBSET log
    BY <1>2
  <2>. QED BY <2>1, LogSum
<1>8. SumOf(log) - SumOf({e \in rows : e.at >= t}) = SumOf(old)
  <2>1. SumOf(log) - SumOf(log \ old) = SumOf(old)
    BY ONLY <1>7
  <2>. QED BY ONLY <1>6, <2>1
<1>9. HeldAt(log, BucketEnd(q, k)) = SumOf(old)
  BY <1>1, <1>2 DEF HeldAt
<1>10. WalkBack(q, SumOf(log), rows, k) = Greater(0, SumOf(log) - SumOf({e \in rows : e.at >= t}))
  BY ONLY <1>1 DEF WalkBack
<1>. QED BY ONLY <1>7, <1>8, <1>9, <1>10

\* What came in during a bucket is all in the rows that were read.
LEMMA IngestedExact ==
    ASSUME NEW q, QueryOK(q), NEW k \in Nat \ {0}, NEW log, Logged(log),
           NEW rows, rows = Remaining(log, ScanAfter(q), {})
    PROVE  /\ Ingested(q, rows, k) \in Int
           /\ Ingested(q, rows, k) =
                SumOf({e \in log : /\ e.at \in (q.from + (k - 1) * q.window) .. (BucketEnd(q, k) - 1)
                                   /\ e.delta > 0})
<1>1. PICK t \in Int : t = BucketEnd(q, k)
  BY BucketEnds
<1>2. PICK b \in Int : b = q.from + (k - 1) * q.window /\ q.from <= b
  BY BucketEnds
<1>3. q.from \in Int /\ \A e \in log : e.at \in Int
  BY DEF QueryOK, Ranges, Logged, Rows
<1>4. rows = {e \in log : e.at > q.from - 1}
  BY DEF Remaining, ScanAfter
<1>5. PICK S : S = {e \in log : e.at \in b .. (t - 1) /\ e.delta > 0}
  OBVIOUS
<1>6. {e \in Within(rows, b, t) : e.delta > 0} = S
  BY <1>2, <1>3, <1>4, <1>5 DEF Within
<1>7. Ingested(q, rows, k) = SumOf({e \in Within(rows, b, t) : e.delta > 0})
  BY ONLY <1>1, <1>2 DEF Ingested
<1>8. Ingested(q, rows, k) = SumOf(S)
  BY ONLY <1>6, <1>7
<1>9. SumOf(S) \in Int
  <2>1. S \in SUBSET log
    BY <1>5
  <2>. QED BY <2>1, LogSum
<1>10. S = {e \in log : /\ e.at \in (q.from + (k - 1) * q.window) .. (BucketEnd(q, k) - 1)
                        /\ e.delta > 0}
  BY ONLY <1>1, <1>2, <1>5
<1>. QED BY ONLY <1>8, <1>9, <1>10

----------------------------------------------------------------------------
\* The reader

Fields ==
    {"pc", "status", "samples", "query", "totals", "attempt", "cursor", "byteRows", "uploadRows",
     "began"}

Statuses ==
    {"none", "ok", "invalidRange", "invalidWindow", "empty", "tooManySamples", "rangeTooBusy",
     "unstable", "inconsistent"}

\* Types.  A reading in progress has a query that was found fit to read.
ReaderTyped ==
    /\ DOMAIN reader = Fields
    /\ reader.pc \in {"idle", "bytes", "uploads", "check"}
    /\ reader.status \in Statuses
    /\ Len(reader.samples) <= MaxSamples
    /\ reader.pc # "idle" => /\ QueryOK(reader.query)
                             /\ reader.status = "none" /\ reader.samples = <<>>
                             /\ reader.totals \in Counters
                             /\ reader.attempt \in Nat /\ reader.began \in Int

\* The rows that a reading from the instant after has to read of a log.
Wanted(log, after) == Remaining(log, after, {})

\* What the reader has read of the logs as they are now.
ReadSoFar(r, after) ==
    /\ r.pc = "bytes" => Scanned(byteLog, after, r.cursor, r.byteRows) /\ r.uploadRows = {}
    /\ r.pc = "uploads" => /\ r.byteRows = Wanted(byteLog, after)
                           /\ Scanned(uploadLog, after, r.cursor, r.uploadRows)
    /\ r.pc = "check" => /\ r.byteRows = Wanted(byteLog, after)
                         /\ r.uploadRows = Wanted(uploadLog, after)

\* The counters have not gone back.  While they are those that the reading
\* began with, the logs are too, and what was read is part of them; once they
\* are not, each attempt so far has seen a change, this one included.
ReaderSound ==
    backend = "postgres" /\ reader.pc # "idle" =>
        /\ \A m \in Metrics : reader.totals[m] <= total[m]
        /\ changes - reader.began >= reader.attempt - 1
        /\ ~Settled(reader.totals, total) => changes - reader.began >= reader.attempt
        /\ Settled(reader.totals, total) => ReadSoFar(reader, ScanAfter(reader.query))

UsageInv == AccountInv /\ Covered /\ ReaderTyped /\ ReaderSound

LEMMA IdleFields ==
    /\ DOMAIN NoReader = Fields
    /\ NoReader.pc = "idle" /\ NoReader.status = "none" /\ NoReader.samples = <<>>
    /\ NoReader.cursor = {} /\ NoReader.byteRows = {} /\ NoReader.uploadRows = {}
BY DEF NoReader, Fields

LEMMA UsageStarts == Init => UsageInv
<1> SUFFICES ASSUME Init PROVE UsageInv
  OBVIOUS
<1>1. AccountInv
  BY AccountStarts DEF Init
<1>2. Covered
  <2>1. byteLog = {} /\ uploadLog = {} /\ uploads = {} /\ registry = [d \in Digests |-> 0]
    BY DEF Init, AccountInit
  <2>2. Registered = {}
    BY <2>1 DEF Registered
  <2>3. ASSUME NEW w, NEW tch PROVE Covers({}, w, {}, tch)
    <3>1. \A t : Before({}, t) = {} /\ Since({}, tch, t) = {}
      BY DEF Before, Since
    <3>2. SumOf({}) = 0
      BY NoRows
    <3>3. SumOver(w, {}) = 0
      BY SumRemove, FS_EmptySet DEF Weighs
    <3>. QED BY ONLY <3>1, <3>2, <3>3 DEF Covers
  <2>. QED BY <2>1, <2>2, <2>3 DEF Covered
<1>3. ReaderTyped
  <2>1. reader = NoReader
    BY DEF Init
  <2>2. Len(reader.samples) <= MaxSamples
    BY <2>1, IdleFields, UsageAssumption
  <2>. QED BY <2>1, <2>2, IdleFields DEF ReaderTyped, Statuses
<1>4. ReaderSound
  BY IdleFields DEF Init, ReaderSound
<1>. QED BY <1>1, <1>2, <1>3, <1>4 DEF UsageInv

\* No step changes the configured stores.
LEMMA BackendStays ==
    ASSUME AccountNext PROVE backend' = backend
<1>1. ASSUME NEW x, Change(x) PROVE backend' = backend
  BY <1>1 DEF Change
<1>2. ASSUME NEW d \in Digests, Register(d) \/ MemoryRegister(d) \/ MemoryDeregister(d)
      PROVE  backend' = backend
  <2>1. Change(d)
    BY <1>2 DEF Register, MemoryRegister, MemoryDeregister, Hold
  <2>. QED BY <1>1, <2>1
<1>3. ASSUME NEW p \in Removers,
             (\E d \in Digests : DeregisterRead(p, d)) \/ DeregisterCommit(p) \/ DeregisterEnd(p)
      PROVE  backend' = backend
  <2>1. CASE DeregisterCommit(p)
    <3>1. PICK d : Change(d)
      BY <2>1 DEF DeregisterCommit
    <3>. QED BY <1>1, <3>1
  <2>2. CASE (\E d \in Digests : DeregisterRead(p, d)) \/ DeregisterEnd(p)
    BY <2>2 DEF DeregisterRead, DeregisterEnd
  <2>. QED BY <1>3, <2>1, <2>2
<1>4. ASSUME NEW root, NEW cause, UploadAdd(root, cause) \/ UploadRemove(root, cause)
      PROVE  backend' = backend
  <2>1. Change(root)
    BY <1>4 DEF UploadAdd, UploadRemove, Upsert, RemoveUpload, MemoryUpsert, MemoryRemove, Hold
  <2>. QED BY <1>1, <2>1
<1>5. ASSUME NEW s, MemoryStep(s) PROVE backend' = backend
  BY <1>5 DEF MemoryStep
<1>6. CASE Tick
  BY <1>6 DEF Tick
<1>. QED BY <1>2, <1>3, <1>4, <1>5, <1>6 DEF AccountNext

LEMMA CoveredSteps ==
    ASSUME AccountInv, Covered, AccountNext
    PROVE  Covered'
<1>1. CASE backend = "postgres"
  BY <1>1, PostgresAccounts, PostgresMoves
<1>2. CASE backend # "postgres"
  BY <1>2, BackendStays DEF Covered
<1>. QED BY <1>1, <1>2

\* A change that the counters do not show has left the logs as they were.
LEMMA ReaderWaits ==
    ASSUME UsageInv, AccountNext, UNCHANGED reader
    PROVE  ReaderTyped' /\ ReaderSound'
<1>1. ReaderTyped'
  BY DEF UsageInv, ReaderTyped
<1>2. ASSUME backend' = "postgres", reader'.pc # "idle"
      PROVE  /\ \A m \in Metrics : reader.totals[m] <= total'[m]
             /\ changes' - reader.began >= reader.attempt - 1
             /\ ~Settled(reader.totals, total') => changes' - reader.began >= reader.attempt
             /\ Settled(reader.totals, total') => ReadSoFar(reader, ScanAfter(reader.query))'
  <2>1. backend = "postgres" /\ reader.pc # "idle"
    BY <1>2, BackendStays
  <2>2. Committed /\ Moved
    BY <2>1, PostgresAccounts, PostgresMoves DEF UsageInv
  <2>3. /\ total \in Counters /\ changes \in Int
        /\ reader.totals \in Counters /\ reader.attempt \in Int /\ reader.began \in Int
    BY <2>1, <2>2 DEF Committed, Typed, UsageInv, ReaderTyped
  <2>4. PICK t, old : t = total /\ old = reader.totals
    OBVIOUS
  <2>5. \A m \in Metrics : t[m] \in Int /\ old[m] \in Int
    BY <2>3, <2>4 DEF Counters
  <2>6. /\ \A m \in Metrics : old[m] <= t[m]
        /\ changes - reader.began >= reader.attempt - 1
        /\ ~Settled(old, t) => changes - reader.began >= reader.attempt
        /\ Settled(old, t) => ReadSoFar(reader, ScanAfter(reader.query))
    BY <2>1, <2>4 DEF UsageInv, ReaderSound
  <2>7. PICK u : u = total'
    OBVIOUS
  <2>8. Typed'
    BY AccountSteps DEF UsageInv, AccountInv, AccountOK
  <2>9. \A m \in Metrics : t[m] <= u[m] /\ u[m] \in Int
    <3>1. \A m \in Metrics : t[m] <= u[m]
      BY <2>2, <2>4, <2>7 DEF Moved
    <3>2. total' \in Counters
      BY <2>8 DEF Typed
    <3>. QED BY <2>7, <3>1, <3>2 DEF Counters
  <2>10. \A m \in Metrics : old[m] <= u[m]
    BY <2>5, <2>6, <2>9
  <2>11. Watched \in SUBSET Metrics
    BY DEF Watched, Metrics
  <2>12. changes' \in Int /\ changes <= changes' /\ (u = t \/ changes' = changes + 1)
    BY <2>2, <2>4, <2>7, <2>8 DEF Moved, Typed
  <2>13. ~Settled(old, u) => changes' - reader.began >= reader.attempt
    BY <2>3, <2>6, <2>12
  <2>14. Settled(old, u) => byteLog' = byteLog /\ uploadLog' = uploadLog /\ Settled(old, t)
    <3> SUFFICES ASSUME Settled(old, u) PROVE byteLog' = byteLog /\ uploadLog' = uploadLog /\ Settled(old, t)
      OBVIOUS
    <3>1. \A m \in Watched : old[m] = u[m]
      BY DEF Settled, Watched
    <3>2. \A m \in Watched : old[m] = t[m] /\ t[m] = u[m]
      BY <2>5, <2>6, <2>9, <2>11, <3>1
    <3>3. Settled(old, t)
      BY <3>2 DEF Settled, Watched
    <3>4. ~\E m \in Watched : t[m] < u[m]
      BY <2>5, <2>11, <3>2
    <3>. QED BY <2>2, <2>4, <2>7, <3>3, <3>4 DEF Moved
  <2>15. Settled(old, u) => ReadSoFar(reader, ScanAfter(reader.query))'
    BY <2>6, <2>14 DEF ReadSoFar, ScanAfter
  <2>. QED BY <2>3, <2>4, <2>6, <2>7, <2>10, <2>12, <2>13, <2>15
<1>3. ReaderSound'
  BY <1>2 DEF ReaderSound, Settled
<1>. QED BY <1>1, <1>3

LEMMA Answered ==
    ASSUME NEW status \in Statuses, NEW samples, Len(samples) <= MaxSamples, Answer(status, samples)
    PROVE  /\ ReaderTyped' /\ ReaderSound'
           /\ reader'.pc = "idle" /\ reader'.status = status /\ reader'.samples = samples
<1>1. /\ DOMAIN reader' = Fields /\ reader'.pc = "idle"
      /\ reader'.status = status /\ reader'.samples = samples
  BY IdleFields DEF Answer, Fields
<1>2. ReaderTyped'
  BY <1>1 DEF ReaderTyped
<1>3. ReaderSound'
  BY <1>1 DEF ReaderSound
<1>. QED BY <1>1, <1>2, <1>3

LEMMA NoSamples == Len(<<>>) <= MaxSamples
BY UsageAssumption

LEMMA SeriesLength ==
    ASSUME NEW q, QueryOK(q), NEW bytes, NEW count, NEW byteRows, NEW uploadRows
    PROVE  /\ DOMAIN Series(q, bytes, count, byteRows, uploadRows) = 1 .. Buckets(q)
           /\ Len(Series(q, bytes, count, byteRows, uploadRows)) = Buckets(q)
           /\ Buckets(q) \in Nat
<1>1. Buckets(q) \in Nat
  BY BucketsCover DEF QueryOK
<1>2. PICK s : s = Series(q, bytes, count, byteRows, uploadRows)
  OBVIOUS
<1>3. DOMAIN s = 1 .. Buckets(q) /\ s = [k \in 1 .. Buckets(q) |-> s[k]]
  BY <1>2 DEF Series
<1>4. s \in Seq({s[k] : k \in 1 .. Buckets(q)})
  BY <1>1, <1>3
<1>5. Len(s) = Buckets(q)
  BY <1>1, <1>3, <1>4
<1>. QED BY <1>1, <1>2, <1>3, <1>5

\* A query begins with the counters of the moment and nothing read.
LEMMA BeginKeeps ==
    ASSUME UsageInv, NEW q \in Queries, Begin(q)
    PROVE  ReaderTyped' /\ ReaderSound'
<1>1. AccountInv /\ Typed
  BY DEF UsageInv, AccountInv, AccountOK
<1>2. now \in Int /\ changes \in Int /\ total \in Counters
  BY <1>1 DEF Typed
<1>3. CASE Verdict(q) # "read"
  <2>1. Verdict(q) \in Statuses
    BY <1>3 DEF Verdict, Statuses
  <2>2. Answer(Verdict(q), <<>>)
    BY <1>3 DEF Begin
  <2>. QED BY <2>1, <2>2, NoSamples, Answered
<1>4. CASE Verdict(q) = "read"
  <2>1. PICK c : c = Clamped(q) /\ QueryOK(c)
    BY <1>2, <1>4, ReadVerdict
  <2>2. reader' = [NoReader EXCEPT !.pc = "bytes", !.query = c, !.totals = total,
                                   !.attempt = 1, !.began = changes]
    BY <1>4, <2>1 DEF Begin
  <2>3. /\ DOMAIN reader' = Fields /\ reader'.pc = "bytes" /\ reader'.query = c
        /\ reader'.totals = total /\ reader'.attempt = 1 /\ reader'.began = changes
        /\ reader'.status = "none" /\ reader'.samples = <<>>
        /\ reader'.cursor = {} /\ reader'.byteRows = {} /\ reader'.uploadRows = {}
    BY <2>2, IdleFields DEF Fields
  <2>4. ReaderTyped'
    BY <1>2, <2>1, <2>3, NoSamples DEF ReaderTyped, Statuses
  <2>5. total' = total /\ changes' = changes /\ byteLog' = byteLog
    BY DEF Begin, accounts
  <2>6. ReadSoFar(reader, ScanAfter(reader.query))'
    BY <2>3, ScanStarts DEF ReadSoFar
  <2>7. Settled(reader.totals, total)'
    BY <2>3, <2>5 DEF Settled
  <2>8. \A m \in Metrics : total[m] <= total[m]
    BY <1>2 DEF Counters
  <2>9. ReaderSound'
    BY <1>2, <2>3, <2>5, <2>6, <2>7, <2>8 DEF ReaderSound
  <2>. QED BY <2>4, <2>9
<1>. QED BY <1>3, <1>4

\* What a page leaves as it was.
LEMMA ScanKeeps ==
    ASSUME UsageInv, UNCHANGED accounts, reader.pc # "idle",
           DOMAIN reader' = Fields, reader'.pc \in {"bytes", "uploads", "check"},
           \A f \in {"status", "samples", "query", "totals", "attempt", "began"} :
              reader'[f] = reader[f],
           backend = "postgres" /\ ReadSoFar(reader, ScanAfter(reader.query))
             => ReadSoFar(reader, ScanAfter(reader.query))'
    PROVE  ReaderTyped' /\ ReaderSound'
<1>1. /\ reader'.status = reader.status /\ reader'.samples = reader.samples
      /\ reader'.query = reader.query /\ reader'.totals = reader.totals
      /\ reader'.attempt = reader.attempt /\ reader'.began = reader.began
  OBVIOUS
<1>2. ReaderTyped'
  BY <1>1 DEF UsageInv, ReaderTyped
<1>3. backend' = backend /\ total' = total /\ changes' = changes
  BY DEF accounts
<1>4. ReaderSound'
  BY <1>1, <1>3 DEF UsageInv, ReaderSound, Settled
<1>. QED BY <1>2, <1>4

\* In Postgres the logs are what ScanStep is about.
LEMMA LogsScannable ==
    ASSUME AccountInv
    PROVE  /\ Logged(byteLog) /\ Distinct(byteLog)
           /\ Logged(uploadLog) /\ Distinct(uploadLog)
<1>1. LogsOK(byteLog, uploadLog, changes)
  BY DEF AccountInv, AccountOK
<1>. QED BY <1>1 DEF LogsOK, Logged, Distinct

LEMMA ScanBytesKeeps ==
    ASSUME UsageInv, ScanBytes
    PROVE  ReaderTyped' /\ ReaderSound'
<1>1. PICK after : after = ScanAfter(reader.query)
  OBVIOUS
<1>2. PICK rows : rows = reader.byteRows \cup Page(byteLog, after, reader.cursor)
  OBVIOUS
<1>3. PICK next : next = NextCursor(byteLog, after, reader.cursor)
  OBVIOUS
<1>4. /\ reader.pc = "bytes" /\ UNCHANGED accounts
      /\ IF Cardinality(rows) > MaxScanRows THEN Answer("rangeTooBusy", <<>>)
         ELSE reader' = [reader EXCEPT !.byteRows = rows, !.cursor = next,
                                       !.pc = IF next = {} THEN "uploads" ELSE "bytes"]
  BY ONLY <1>1, <1>2, <1>3, ScanBytes DEF ScanBytes
<1>5. CASE Cardinality(rows) > MaxScanRows
  BY <1>4, <1>5, NoSamples, Answered DEF Statuses
<1>6. CASE ~(Cardinality(rows) > MaxScanRows)
  <2>1. DOMAIN reader = Fields
    BY DEF UsageInv, ReaderTyped
  <2>2. /\ DOMAIN reader' = Fields
        /\ reader'.pc = IF next = {} THEN "uploads" ELSE "bytes"
        /\ reader'.byteRows = rows /\ reader'.cursor = next
        /\ reader'.uploadRows = reader.uploadRows /\ reader'.query = reader.query
        /\ \A f \in {"status", "samples", "query", "totals", "attempt", "began"} :
              reader'[f] = reader[f]
    BY <1>4, <1>6, <2>1 DEF Fields
  <2>3. ASSUME ReadSoFar(reader, ScanAfter(reader.query))
        PROVE  ReadSoFar(reader, ScanAfter(reader.query))'
    <3>1. Scanned(byteLog, after, reader.cursor, reader.byteRows) /\ reader.uploadRows = {}
      BY <1>1, <1>4, <2>3 DEF ReadSoFar
    <3>2. after \in Int
      BY <1>1, <1>4 DEF UsageInv, ReaderTyped, QueryOK, Ranges, ScanAfter
    <3>3. Logged(byteLog) /\ Distinct(byteLog)
      BY LogsScannable DEF UsageInv
    <3>4. /\ Scanned(byteLog, after, next, rows)
          /\ next = {} => rows = Wanted(byteLog, after)
      BY <1>2, <1>3, <3>1, <3>2, <3>3, ScanStep DEF Wanted
    <3>5. byteLog' = byteLog /\ ScanAfter(reader'.query) = after
      BY <1>1, <1>4, <2>2 DEF accounts
    <3>6. CASE next = {}
      <4>1. Scanned(uploadLog', after, {}, {})
        BY ScanStarts
      <4>2. reader'.pc = "uploads" /\ reader'.cursor = {} /\ reader'.uploadRows = {}
        BY <2>2, <3>1, <3>6
      <4>. QED BY <2>2, <3>4, <3>5, <3>6, <4>1, <4>2 DEF ReadSoFar
    <3>7. CASE next # {}
      <4>1. reader'.pc = "bytes" /\ reader'.uploadRows = {}
        BY <2>2, <3>1, <3>7
      <4>. QED BY <2>2, <3>4, <3>5, <4>1 DEF ReadSoFar
    <3>. QED BY <3>6, <3>7
  <2>4. reader'.pc \in {"bytes", "uploads", "check"} /\ reader.pc # "idle"
    BY <1>4, <2>2
  <2>. QED BY <1>4, <2>2, <2>3, <2>4, ScanKeeps
<1>. QED BY <1>5, <1>6

LEMMA ScanUploadsKeeps ==
    ASSUME UsageInv, ScanUploads
    PROVE  ReaderTyped' /\ ReaderSound'
<1>1. PICK after : after = ScanAfter(reader.query)
  OBVIOUS
<1>2. PICK rows : rows = reader.uploadRows \cup Page(uploadLog, after, reader.cursor)
  OBVIOUS
<1>3. PICK next : next = NextCursor(uploadLog, after, reader.cursor)
  OBVIOUS
<1>4. /\ reader.pc = "uploads" /\ UNCHANGED accounts
      /\ IF Cardinality(rows) > MaxScanRows THEN Answer("rangeTooBusy", <<>>)
         ELSE reader' = [reader EXCEPT !.uploadRows = rows, !.cursor = next,
                                       !.pc = IF next = {} THEN "check" ELSE "uploads"]
  BY ONLY <1>1, <1>2, <1>3, ScanUploads DEF ScanUploads
<1>5. CASE Cardinality(rows) > MaxScanRows
  BY <1>4, <1>5, NoSamples, Answered DEF Statuses
<1>6. CASE ~(Cardinality(rows) > MaxScanRows)
  <2>1. DOMAIN reader = Fields
    BY DEF UsageInv, ReaderTyped
  <2>2. /\ DOMAIN reader' = Fields
        /\ reader'.pc = IF next = {} THEN "check" ELSE "uploads"
        /\ reader'.uploadRows = rows /\ reader'.cursor = next
        /\ reader'.byteRows = reader.byteRows /\ reader'.query = reader.query
        /\ \A f \in {"status", "samples", "query", "totals", "attempt", "began"} :
              reader'[f] = reader[f]
    BY <1>4, <1>6, <2>1 DEF Fields
  <2>3. ASSUME ReadSoFar(reader, ScanAfter(reader.query))
        PROVE  ReadSoFar(reader, ScanAfter(reader.query))'
    <3>1. /\ Scanned(uploadLog, after, reader.cursor, reader.uploadRows)
          /\ reader.byteRows = Wanted(byteLog, after)
      BY <1>1, <1>4, <2>3 DEF ReadSoFar
    <3>2. after \in Int
      BY <1>1, <1>4 DEF UsageInv, ReaderTyped, QueryOK, Ranges, ScanAfter
    <3>3. Logged(uploadLog) /\ Distinct(uploadLog)
      BY LogsScannable DEF UsageInv
    <3>4. /\ Scanned(uploadLog, after, next, rows)
          /\ next = {} => rows = Wanted(uploadLog, after)
      BY <1>2, <1>3, <3>1, <3>2, <3>3, ScanStep DEF Wanted
    <3>5. byteLog' = byteLog /\ uploadLog' = uploadLog /\ ScanAfter(reader'.query) = after
      BY <1>1, <1>4, <2>2 DEF accounts
    <3>6. CASE next = {}
      <4>1. reader'.pc = "check"
        BY <2>2, <3>6
      <4>. QED BY <2>2, <3>1, <3>4, <3>5, <3>6, <4>1 DEF ReadSoFar
    <3>7. CASE next # {}
      <4>1. reader'.pc = "uploads"
        BY <2>2, <3>7
      <4>. QED BY <2>2, <3>1, <3>4, <3>5, <4>1 DEF ReadSoFar
    <3>. QED BY <3>6, <3>7
  <2>4. reader'.pc \in {"bytes", "uploads", "check"} /\ reader.pc # "idle"
    BY <1>4, <2>2
  <2>. QED BY <1>4, <2>2, <2>3, <2>4, ScanKeeps
<1>. QED BY <1>5, <1>6

\* The counters again: a new attempt counts the change that it starts from.
LEMMA CheckKeeps ==
    ASSUME UsageInv, Check
    PROVE  ReaderTyped' /\ ReaderSound'
<1>1. reader.pc = "check" /\ UNCHANGED accounts
  BY DEF Check
<1>2. /\ DOMAIN reader = Fields /\ QueryOK(reader.query) /\ reader.totals \in Counters
      /\ reader.attempt \in Nat /\ reader.began \in Int
      /\ reader.status = "none" /\ reader.samples = <<>>
  BY <1>1 DEF UsageInv, ReaderTyped
<1>3. total \in Counters /\ changes \in Int
  BY DEF UsageInv, AccountInv, AccountOK, Typed
<1>4. PICK bytes, count : bytes = StoredBytes(reader.totals) /\ count = StoredUploads(reader.totals)
  OBVIOUS
<1>5. CASE ~Settled(reader.totals, total) /\ reader.attempt >= Attempts
  <2>1. Answer("unstable", <<>>)
    BY <1>5 DEF Check
  <2>. QED BY <2>1, NoSamples, Answered DEF Statuses
<1>6. CASE ~Settled(reader.totals, total) /\ ~(reader.attempt >= Attempts)
  <2>1. Retry
    BY <1>6 DEF Check
  <2>2. /\ DOMAIN reader' = Fields /\ reader'.pc = "bytes" /\ reader'.totals = total
        /\ reader'.attempt = reader.attempt + 1 /\ reader'.began = reader.began
        /\ reader'.cursor = {} /\ reader'.byteRows = {} /\ reader'.uploadRows = {}
        /\ reader'.query = reader.query /\ reader'.status = "none" /\ reader'.samples = <<>>
    BY <1>2, <2>1 DEF Retry, Fields
  <2>3. ReaderTyped'
    BY <1>2, <1>3, <2>2, NoSamples DEF ReaderTyped, Statuses
  <2>4. total' = total /\ changes' = changes /\ backend' = backend
    BY <1>1 DEF accounts
  <2>5. backend = "postgres" => changes - reader.began >= reader.attempt
    BY <1>1, <1>6 DEF UsageInv, ReaderSound
  <2>6. \A m \in Metrics : total[m] <= total[m]
    BY <1>3 DEF Counters
  <2>7. Settled(reader.totals, total)'
    BY <2>2, <2>4 DEF Settled
  <2>8. ReadSoFar(reader, ScanAfter(reader.query))'
    BY <2>2, ScanStarts DEF ReadSoFar
  <2>9. changes' - reader'.began >= reader'.attempt - 1 \/ backend' # "postgres"
    BY <1>2, <1>3, <2>2, <2>4, <2>5
  <2>10. ReaderSound'
    BY <2>2, <2>4, <2>6, <2>7, <2>8, <2>9 DEF ReaderSound
  <2>. QED BY <2>3, <2>10
<1>7. CASE Settled(reader.totals, total) /\ (bytes < 0 \/ count < 0)
  <2>1. Answer("inconsistent", <<>>)
    BY <1>4, <1>7 DEF Check
  <2>. QED BY <2>1, NoSamples, Answered DEF Statuses
<1>8. CASE Settled(reader.totals, total) /\ ~(bytes < 0 \/ count < 0)
  <2>1. PICK s : s = Series(reader.query, bytes, count, reader.byteRows, reader.uploadRows)
    OBVIOUS
  <2>2. Answer("ok", s)
    BY <1>4, <1>8, <2>1 DEF Check
  <2>3. Len(s) <= MaxSamples
    <3>1. Len(s) = Buckets(reader.query)
      BY <1>2, <2>1, SeriesLength
    <3>. QED BY <1>2, <3>1 DEF QueryOK
  <2>. QED BY <2>2, <2>3, Answered DEF Statuses
<1>. QED BY <1>5, <1>6, <1>7, <1>8

LEMMA UsageSteps == UsageInv /\ [Next]_vars => UsageInv'
<1> SUFFICES ASSUME UsageInv, [Next]_vars PROVE UsageInv'
  OBVIOUS
<1>1. ASSUME UNCHANGED accounts PROVE AccountInv' /\ Covered'
  <2>1. AccountInv'
    BY <1>1, AccountsStay DEF UsageInv
  <2>2. Covered'
    BY <1>1 DEF UsageInv, Covered, Registered, accounts
  <2>. QED BY <2>1, <2>2
<1>2. CASE AccountNext /\ UNCHANGED <<reader, queries>>
  <2>1. AccountInv' /\ Covered'
    BY <1>2, AccountSteps, CoveredSteps DEF UsageInv
  <2>. QED BY <1>2, <2>1, ReaderWaits DEF UsageInv
<1>3. ASSUME NEW q \in Queries, Begin(q) PROVE UsageInv'
  <2>1. UNCHANGED accounts
    BY <1>3 DEF Begin
  <2>. QED BY <1>1, <1>3, <2>1, BeginKeeps DEF UsageInv
<1>4. CASE ReaderStep
  <2>1. UNCHANGED accounts
    BY <1>4 DEF ReaderStep, ScanBytes, ScanUploads, Check
  <2>. QED BY <1>1, <1>4, <2>1, ScanBytesKeeps, ScanUploadsKeeps, CheckKeeps DEF UsageInv, ReaderStep
<1>5. CASE UNCHANGED vars
  <2>1. UNCHANGED <<accounts, reader>>
    BY <1>5 DEF vars
  <2>2. ReaderTyped'
    BY <2>1 DEF UsageInv, ReaderTyped
  <2>3. ReaderSound'
    BY <2>1 DEF UsageInv, ReaderSound, ReadSoFar, Wanted, accounts
  <2>. QED BY <1>1, <2>1, <2>2, <2>3 DEF UsageInv
<1>. QED BY <1>2, <1>3, <1>4, <1>5 DEF Next

\* Only the check of the counters ends a reading that has come to it.
LEMMA CheckAnswers ==
    ASSUME UsageInv, [Next]_vars, reader.pc = "check", reader'.status # "none"
    PROVE  Check
<1>1. reader.status = "none"
  BY DEF UsageInv, ReaderTyped
<1>2. reader' # reader
  BY <1>1
<1>3. ~UNCHANGED vars /\ ~(AccountNext /\ UNCHANGED <<reader, queries>>)
  BY <1>2 DEF vars
<1>4. (\A q \in Queries : ~Begin(q)) /\ ~ScanBytes /\ ~ScanUploads
  BY DEF Begin, ScanBytes, ScanUploads
<1>. QED BY ONLY [Next]_vars, <1>3, <1>4 DEF Next, ReaderStep

LEMMA CausedSteps == UsageInv /\ [Next]_vars => GivesUpWithCause
<1> SUFFICES ASSUME UsageInv, [Next]_vars, backend = "postgres", reader.pc = "check",
                    reader'.status = "unstable"
             PROVE  changes - reader.began >= Attempts
  BY DEF GivesUpWithCause
<1>1. Check
  BY CheckAnswers
<1>2. /\ reader.status = "none" /\ reader.attempt \in Nat /\ reader.began \in Int
      /\ DOMAIN reader = Fields
  BY DEF UsageInv, ReaderTyped
<1>3. changes \in Int
  BY DEF UsageInv, AccountInv, AccountOK, Typed
<1>4. \A s, t : Answer(s, t) => reader'.status = s
  BY IdleFields DEF Answer, Fields
<1>5. ~Settled(reader.totals, total) /\ reader.attempt >= Attempts
  <2>1. Retry => reader'.status = "none"
    BY <1>2 DEF Retry, Fields
  <2>2. CASE Settled(reader.totals, total)
    <3>1. \/ Answer("inconsistent", <<>>)
          \/ \E s : Answer("ok", s)
      BY <1>1, <2>2 DEF Check
    <3>. QED BY <1>4, <3>1
  <2>3. CASE ~Settled(reader.totals, total) /\ ~(reader.attempt >= Attempts)
    BY <1>1, <2>1, <2>3 DEF Check
  <2>. QED BY <2>2, <2>3
<1>6. changes - reader.began >= reader.attempt
  BY <1>5 DEF UsageInv, ReaderSound
<1>. QED BY <1>2, <1>3, <1>5, <1>6, UsageAssumption

\* The rows before an instant never sum to less than nothing.
LEMMA NeverNegative ==
    ASSUME NEW log, Logged(log), NEW S, NEW w, NEW tch, Dated(S, w, tch), Covers(log, w, S, tch),
           NEW t \in Int
    PROVE  HeldAt(log, t) \in Nat
<1>1. PICK old : old = Before(log, t)
  OBVIOUS
<1>2. SumOf(old) \in Int
  <2>1. old \in SUBSET log
    BY <1>1 DEF Before
  <2>2. Logged(old)
    BY <2>1, LogSum
  <2>. QED BY <2>2, LogSum
<1>3. SumOver(w, Since(S, tch, t)) \in Nat
  <2>1. Since(S, tch, t) \in SUBSET S
    BY DEF Since
  <2>. QED BY <2>1, SinceSums
<1>4. SumOf(old) >= SumOver(w, Since(S, tch, t))
  BY <1>1 DEF Covers
<1>5. SumOf(old) \in Nat
  BY ONLY <1>2, <1>3, <1>4
<1>6. HeldAt(log, t) = SumOf(old)
  BY <1>1 DEF HeldAt, Before
<1>. QED BY <1>5, <1>6

\* One sample of a series that is built from all that the logs hold.
LEMMA SampleExact ==
    ASSUME UsageInv, backend = "postgres", NEW q, QueryOK(q),
           NEW byteRows, byteRows = Wanted(byteLog, ScanAfter(q)),
           NEW uploadRows, uploadRows = Wanted(uploadLog, ScanAfter(q)),
           NEW samples, samples = Series(q, SumOf(byteLog), SumOf(uploadLog), byteRows, uploadRows),
           NEW k \in DOMAIN samples
    PROVE  /\ samples[k].bytesStored = HeldAt(byteLog, samples[k].end)
           /\ samples[k].uploadCount = Greater(0, HeldAt(uploadLog, samples[k].end))
           /\ ~suppressed => samples[k].uploadCount = HeldAt(uploadLog, samples[k].end)
           /\ samples[k].bytesIngested =
                SumOf({e \in byteLog :
                          /\ e.at \in (q.from + (k - 1) * q.window) .. (samples[k].end - 1)
                          /\ e.delta > 0})
<1>1. DOMAIN samples = 1 .. Buckets(q) /\ Buckets(q) \in Nat
  BY SeriesLength
<1>2. k \in 1 .. Buckets(q) /\ k \in Nat \ {0}
  BY <1>1
<1>3. samples[k] = [end |-> BucketEnd(q, k),
                    bytesStored |-> WalkBack(q, SumOf(byteLog), byteRows, k),
                    bytesIngested |-> Ingested(q, byteRows, k),
                    uploadCount |-> WalkBack(q, SumOf(uploadLog), uploadRows, k)]
  BY <1>2 DEF Series
<1>4. PICK s : s = samples[k]
  OBVIOUS
<1>5. /\ s.end = BucketEnd(q, k)
      /\ s.bytesStored = WalkBack(q, SumOf(byteLog), byteRows, k)
      /\ s.bytesIngested = Ingested(q, byteRows, k)
      /\ s.uploadCount = WalkBack(q, SumOf(uploadLog), uploadRows, k)
  BY ONLY <1>3, <1>4
<1>6. PICK t \in Int : t = BucketEnd(q, k)
  BY <1>2, BucketEnds
<1>7. Logged(byteLog) /\ Logged(uploadLog)
  BY LogsScannable DEF UsageInv
<1>8. /\ byteRows = Remaining(byteLog, ScanAfter(q), {})
      /\ uploadRows = Remaining(uploadLog, ScanAfter(q), {})
  BY DEF Wanted
<1>9. /\ s.bytesStored = Greater(0, HeldAt(byteLog, t))
      /\ s.uploadCount = Greater(0, HeldAt(uploadLog, t))
  <2>1. WalkBack(q, SumOf(byteLog), byteRows, k) = Greater(0, HeldAt(byteLog, BucketEnd(q, k)))
    BY <1>2, <1>7, <1>8, WalksBack
  <2>2. WalkBack(q, SumOf(uploadLog), uploadRows, k) = Greater(0, HeldAt(uploadLog, BucketEnd(q, k)))
    BY <1>2, <1>7, <1>8, WalksBack
  <2>. QED BY ONLY <1>5, <1>6, <2>1, <2>2
<1>10. Typed /\ Covered
  BY DEF UsageInv, AccountInv, AccountOK
<1>11. HeldAt(byteLog, t) \in Nat
  <2>1. Covers(byteLog, registry, Registered, touched)
    BY <1>10 DEF Covered
  <2>. QED BY <1>7, <1>10, <2>1, DatedBytes, NeverNegative
<1>12. ~suppressed => HeldAt(uploadLog, t) \in Nat
  <2> SUFFICES ASSUME ~suppressed PROVE HeldAt(uploadLog, t) \in Nat
    OBVIOUS
  <2>1. Covers(uploadLog, Ones, uploads, touched)
    BY <1>10 DEF Covered
  <2>. QED BY <1>7, <1>10, <2>1, DatedUploads, NeverNegative
<1>13. \A n \in Nat : Greater(0, n) = n
  BY DEF Greater
<1>14. s.bytesStored = HeldAt(byteLog, t)
  BY ONLY <1>9, <1>11, <1>13
<1>15. ~suppressed => s.uploadCount = HeldAt(uploadLog, t)
  BY ONLY <1>9, <1>12, <1>13
<1>16. Ingested(q, byteRows, k) =
         SumOf({e \in byteLog : /\ e.at \in (q.from + (k - 1) * q.window) .. (BucketEnd(q, k) - 1)
                                /\ e.delta > 0})
  BY <1>2, <1>7, <1>8, IngestedExact
<1>17. s.bytesIngested =
         SumOf({e \in byteLog : /\ e.at \in (q.from + (k - 1) * q.window) .. (s.end - 1)
                                /\ e.delta > 0})
  BY ONLY <1>5, <1>16
<1>18. s.end = t
  BY ONLY <1>5, <1>6
<1>. QED BY ONLY <1>4, <1>9, <1>14, <1>15, <1>17, <1>18

LEMMA ExactSteps == UsageInv /\ [Next]_vars => AnswersExactly
<1> SUFFICES ASSUME UsageInv, [Next]_vars, backend = "postgres", reader.pc = "check",
                    reader'.status = "ok"
             PROVE  AnswersExactly
  BY DEF AnswersExactly
<1>1. Check
  BY CheckAnswers
<1>2. /\ DOMAIN reader = Fields /\ QueryOK(reader.query) /\ reader.totals \in Counters
      /\ reader.status = "none"
  BY DEF UsageInv, ReaderTyped
<1>3. \A s, x : Answer(s, x) => reader'.status = s /\ reader'.samples = x
  BY IdleFields DEF Answer, Fields
<1>4. Retry => reader'.status = "none"
  BY <1>2 DEF Retry, Fields
<1>5. Settled(reader.totals, total)
  BY <1>1, <1>3, <1>4 DEF Check
<1>6. PICK bytes, count : bytes = StoredBytes(reader.totals) /\ count = StoredUploads(reader.totals)
  OBVIOUS
<1>7. PICK samples : samples = Series(reader.query, bytes, count, reader.byteRows, reader.uploadRows)
  OBVIOUS
<1>8. reader'.samples = samples
  <2>1. Answer("inconsistent", <<>>) \/ Answer("ok", samples)
    BY <1>1, <1>5, <1>6, <1>7 DEF Check
  <2>. QED BY <1>3, <2>1
<1>9. bytes = SumOf(byteLog) /\ count = SumOf(uploadLog)
  <2>1. Agreed
    BY PostgresAccounts DEF UsageInv, Committed
  <2>2. Bytes(total) = bytes /\ Counted(total) = count
    BY <1>5, <1>6 DEF Settled, StoredBytes, StoredUploads, Bytes, Counted
  <2>. QED BY <2>1, <2>2 DEF Agreed
<1>10. PICK q : q = reader.query /\ QueryOK(q)
  BY <1>2
<1>11. /\ reader.byteRows = Wanted(byteLog, ScanAfter(q))
       /\ reader.uploadRows = Wanted(uploadLog, ScanAfter(q))
  BY <1>5, <1>10 DEF UsageInv, ReaderSound, ReadSoFar
<1>12. samples = Series(q, SumOf(byteLog), SumOf(uploadLog), reader.byteRows, reader.uploadRows)
  BY ONLY <1>7, <1>9, <1>10
<1>13. ASSUME NEW k \in DOMAIN samples
       PROVE  /\ samples[k].bytesStored = HeldAt(byteLog, samples[k].end)
              /\ samples[k].uploadCount = Greater(0, HeldAt(uploadLog, samples[k].end))
              /\ ~suppressed => samples[k].uploadCount = HeldAt(uploadLog, samples[k].end)
              /\ samples[k].bytesIngested =
                   SumOf({e \in byteLog :
                             /\ e.at \in (q.from + (k - 1) * q.window) .. (samples[k].end - 1)
                             /\ e.delta > 0})
  BY <1>10, <1>11, <1>12, SampleExact
<1>14. Len(samples) * q.window >= q.to - q.from
  <2>1. Len(samples) = Buckets(q)
    BY <1>10, <1>12, SeriesLength
  <2>2. Buckets(q) * q.window >= q.to - q.from
    BY <1>10, BucketsCover DEF QueryOK
  <2>. QED BY ONLY <2>1, <2>2
<1>. QED BY ONLY <1>8, <1>10, <1>13, <1>14 DEF AnswersExactly

----------------------------------------------------------------------------
\* Theorems

\* The accounts of a space, the jobs of the memory stores that are under way
\* included, and the reader's knowledge of them are in order in every state,
\* for every set of blobs, uploads, causes, callers and queries and every bound.
THEOREM Invariance == Spec => []UsageInv
BY UsageStarts, UsageSteps, PTL DEF Spec

\* The clock, the uploads and the reader keep their types; a series is never
\* longer than the limit (Service.Sample), and the range in progress has
\* something in it.
THEOREM TypeCorrect == Spec => []TypeOK
<1>1. UsageInv => TypeOK
  <2> SUFFICES ASSUME UsageInv PROVE TypeOK
    OBVIOUS
  <2>1. Typed
    BY DEF UsageInv, AccountInv, AccountOK
  <2>2. backend \in {"postgres", "memory"} /\ now \in 1 .. MaxTime /\ uploads \subseteq Roots
    BY <2>1 DEF Typed
  <2>3. /\ reader.status \in Statuses /\ Len(reader.samples) <= MaxSamples
        /\ reader.pc # "idle" => reader.query.from < reader.query.to
    BY DEF UsageInv, ReaderTyped, QueryOK
  <2>. QED BY <2>2, <2>3 DEF TypeOK, Statuses
<1>. QED BY <1>1, Invariance, PTL

\* Register and Deregister, whatever calls of them meet: when nobody holds a
\* lock the byte counters, the log of bytes, the registered sizes and the
\* counters of the service agree.
THEOREM BytesAgree == Spec => []BytesBalance
<1>1. UsageInv => BytesBalance
  BY Balances DEF UsageInv
<1>. QED BY <1>1, Invariance, PTL

\* Upsert and Remove of uploads, retries included: when nobody holds a lock the
\* upload counters agree with the log, and with the uploads there are unless an
\* entry of the log was suppressed.
THEOREM UploadsAgree == Spec => []UploadsBalance
<1>1. UsageInv => UploadsBalance
  BY Balances DEF UsageInv
<1>. QED BY <1>1, Invariance, PTL

\* A series that Sample answers is what the logs hold at that moment, although
\* it was put together from pages that were read one after another while the
\* space changed: equal counters before and after prove that it did not.
THEOREM SeriesTrue == Spec => SeriesExact
<1>1. UsageInv /\ [Next]_vars => [AnswersExactly]_vars
  BY ExactSteps
<1>. QED BY <1>1, Invariance, PTL DEF Spec, SeriesExact

\* Sample reports an unstable space only after as many changes as it made
\* attempts.
THEOREM UnstableCaused == Spec => UnstableJustified
<1>1. UsageInv /\ [Next]_vars => [GivesUpWithCause]_vars
  BY CausedSteps
<1>. QED BY <1>1, Invariance, PTL DEF Spec, UnstableJustified
=============================================================================
