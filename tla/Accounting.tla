----------------------------- MODULE Accounting -----------------------------
(***************************************************************************)
(* What one space stores and how it is accounted for: the blob registry    *)
(* (pkg/store/blob_registry), the uploads (pkg/store/upload), the logs of  *)
(* changes (space_diff for bytes, upload_diff for uploads) and the running *)
(* counters (pkg/store/metrics) at the scope of the space and of the       *)
(* service.                                                                *)
(*                                                                         *)
(* In Postgres a change commits its row, its log entry and its counters in *)
(* one transaction; Deregister reads the size before it.  The memory       *)
(* stores hold their own lock and make the four changes one after another. *)
(*                                                                         *)
(* Shards and indexes of uploads carry no account and are left out.  A     *)
(* digest determines the size of its content.  Bounds: MaxTime,            *)
(* MaxChanges.                                                             *)
(***************************************************************************)
EXTENDS Ordering

CONSTANTS
    Digests,        \* blobs
    SizeOf,         \* SizeOf[d]: the size of blob d, positive
    Roots,          \* uploads, by root
    AddCauses,      \* /upload/add invocations; a retry repeats its cause
    RemoveCauses,   \* /upload/remove invocations
    Removers,       \* concurrent calls to Deregister
    Lag,            \* ticks between reading the clock and committing
    MaxTime,        \* last tick of the clock
    MaxChanges      \* changes made

ASSUME AccountAssumption ==
    /\ \A d \in Digests : SizeOf[d] \in Nat \ {0}
    /\ AddCauses \cup RemoveCauses \subseteq Int
    /\ Lag \in Nat /\ MaxTime \in Nat \ {0} /\ MaxChanges \in Nat

VARIABLES
    backend,    \* the configured stores: "postgres" or "memory"
    now,        \* the clock
    registry,   \* the size each digest is registered with, 0 when it is not
    uploads,    \* the roots that are uploaded
    byteLog,    \* space_diff: [at, cause, delta]
    uploadLog,  \* upload_diff: [at, cause, delta]
    total,      \* the counters of the space
    admin,      \* the counters of the service
    removing,   \* what each Deregister has read, or Nothing
    held,       \* memory: what each store's lock holder has still to do
    touched,    \* when the row of each digest and root last changed
    changes,    \* changes begun; the byte changes take their cause from it
    suppressed  \* history: an upload change whose log entry was already there

accounts == <<backend, now, registry, uploads, byteLog, uploadLog, total, admin, removing, held,
              touched, changes, suppressed>>

Metrics == {"blobAdd", "blobAddSize", "blobRemove", "blobRemoveSize", "uploadAdd", "uploadRemove"}

Nothing == [digest |-> {}, size |-> 0]

AccountInit ==
    /\ backend \in {"postgres", "memory"}
    /\ now = 1
    /\ registry = [d \in Digests |-> 0]
    /\ uploads = {}
    /\ byteLog = {} /\ uploadLog = {}
    /\ total = [m \in Metrics |-> 0] /\ admin = [m \in Metrics |-> 0]
    /\ removing = [p \in Removers |-> Nothing]
    /\ held = [s \in {"registry", "upload"} |-> <<>>]
    /\ touched = [x \in Digests \cup Roots |-> 1]
    /\ changes = 0 /\ suppressed = FALSE

----------------------------------------------------------------------------
\* Log entries and counters

Entry(at, cause, delta) == [at |-> at, cause |-> cause, delta |-> delta]

\* The clock is read inside the transaction, once it holds the row, and at most
\* Lag before it commits: not before the last change of that row committed.
Instants(x) == {t \in (now - Lag) .. now : t >= touched[x]}

\* IncrementTotals, IncrementSpaceWith, IncrementAdminWith.
Increment(counters, inc) == [m \in Metrics |-> counters[m] + inc[m]]

NoInc == [m \in Metrics |-> 0]
AddInc(d) == [NoInc EXCEPT !["blobAdd"] = 1, !["blobAddSize"] = SizeOf[d]]
RemoveInc(size) == [NoInc EXCEPT !["blobRemove"] = 1, !["blobRemoveSize"] = size]
UploadInc(delta) == [NoInc EXCEPT ![IF delta > 0 THEN "uploadAdd" ELSE "uploadRemove"] = 1]

IncrementSpace(inc) == total' = Increment(total, inc)

IncrementAdmin(inc) == admin' = Increment(admin, inc)

Move(inc) == IncrementSpace(inc) /\ IncrementAdmin(inc)

\* space_diff Put.
PutDiff(at, cause, delta) == byteLog' = byteLog \cup {Entry(at, cause, delta)}

\* upload_diff Put: an entry with the same instant and cause is already there.
Recorded(at, cause) == \E e \in uploadLog : e.at = at /\ e.cause = cause

----------------------------------------------------------------------------
\* Postgres

Change(x) ==
    /\ changes < MaxChanges
    /\ changes' = changes + 1
    /\ touched' = [touched EXCEPT ![x] = now]
    /\ UNCHANGED <<backend, now>>

\* Register: a digest that is registered already changes nothing.
Register(d) ==
    /\ backend = "postgres" /\ Change(d)
    /\ registry[d] = 0
    /\ registry' = [registry EXCEPT ![d] = SizeOf[d]]
    /\ \E at \in Instants(d) : PutDiff(at, changes', SizeOf[d])
    /\ Move(AddInc(d))
    /\ UNCHANGED <<uploads, uploadLog, removing, held, suppressed>>

\* Deregister reads the entry by itself ...
DeregisterRead(p, d) ==
    /\ backend = "postgres"
    /\ removing[p] = Nothing /\ registry[d] # 0
    /\ removing' = [removing EXCEPT ![p] = [digest |-> {d}, size |-> registry[d]]]
    /\ UNCHANGED <<backend, now, registry, uploads, byteLog, uploadLog, total, admin, held,
                   touched, changes, suppressed>>

\* Mutant: the rows that were deleted are not counted.
DeregisterUncounted(p) ==
    LET size == removing[p].size
    IN  \E d \in removing[p].digest :
            /\ Change(d)
            /\ registry' = [registry EXCEPT ![d] = 0]
            /\ \E at \in Instants(d) : PutDiff(at, changes', -size)
            /\ Move(RemoveInc(size))
            /\ removing' = [removing EXCEPT ![p] = Nothing]
            /\ UNCHANGED <<uploads, uploadLog, held, suppressed>>

\* ... and accounts for the size it read, if the row it deletes is still there.
DeregisterCommit(p) ==
    LET size == removing[p].size
    IN  \E d \in removing[p].digest :
            /\ registry[d] # 0 /\ Change(d)
            /\ registry' = [registry EXCEPT ![d] = 0]
            /\ \E at \in Instants(d) : PutDiff(at, changes', -size)
            /\ Move(RemoveInc(size))
            /\ removing' = [removing EXCEPT ![p] = Nothing]
            /\ UNCHANGED <<uploads, uploadLog, held, suppressed>>

\* The transaction deletes nothing, or it fails: nothing is accounted for.
DeregisterEnd(p) ==
    /\ removing[p] # Nothing
    /\ removing' = [removing EXCEPT ![p] = Nothing]
    /\ UNCHANGED <<backend, now, registry, uploads, byteLog, uploadLog, total, admin, held,
                   touched, changes, suppressed>>

\* recordDelta: one entry and one counter, or neither.
RecordDelta(root, cause, delta) ==
    \E at \in Instants(root) :
        IF Recorded(at, cause)
        THEN suppressed' = TRUE /\ UNCHANGED <<uploadLog, total, admin>>
        ELSE /\ uploadLog' = uploadLog \cup {Entry(at, cause, delta)}
             /\ Move(UploadInc(delta))
             /\ UNCHANGED suppressed

\* Mutant: a root that is there already is counted again.
UpsertCounted(root, cause) ==
    /\ backend = "postgres" /\ Change(root)
    /\ uploads' = uploads \cup {root}
    /\ RecordDelta(root, cause, 1)
    /\ UNCHANGED <<registry, byteLog, removing, held>>

\* Upsert: only a root that was not there is counted.
Upsert(root, cause) ==
    /\ backend = "postgres" /\ Change(root)
    /\ uploads' = uploads \cup {root}
    /\ IF root \in uploads THEN UNCHANGED <<uploadLog, total, admin, suppressed>>
       ELSE RecordDelta(root, cause, 1)
    /\ UNCHANGED <<registry, byteLog, removing, held>>

\* Remove: a root that is not there is reported, and removed with success.
RemoveUpload(root, cause) ==
    /\ backend = "postgres" /\ Change(root)
    /\ root \in uploads
    /\ uploads' = uploads \ {root}
    /\ RecordDelta(root, cause, -1)
    /\ UNCHANGED <<registry, byteLog, removing, held>>

----------------------------------------------------------------------------
\* Memory: the holder of a store's lock and the changes it has still to make,
\* in their order.

Effect(do, entry, inc, subject) == [do |-> do, entry |-> entry, inc |-> inc, subject |-> subject]

Effects(kind, entry, inc) ==
    <<Effect(kind, entry, inc, {}), Effect("space", entry, inc, {}), Effect("admin", entry, inc, {})>>

Hold(store, x, effects) ==
    /\ backend = "memory" /\ held[store] = <<>> /\ Change(x)
    /\ held' = [held EXCEPT ![store] = effects]

\* Register adds the row first.
MemoryRegister(d) ==
    /\ registry[d] = 0
    /\ registry' = [registry EXCEPT ![d] = SizeOf[d]]
    /\ Hold("registry", d, Effects("bytes", Entry(now, changes', SizeOf[d]), AddInc(d)))
    /\ UNCHANGED <<uploads, byteLog, uploadLog, total, admin, removing, suppressed>>

\* Deregister drops the row last, once all is accounted for.
MemoryDeregister(d) ==
    /\ registry[d] # 0
    /\ LET entry == Entry(now, changes', -registry[d])
       IN  Hold("registry", d, Effects("bytes", entry, RemoveInc(registry[d]))
                               \o <<Effect("drop", entry, NoInc, {d})>>)
    /\ UNCHANGED <<registry, uploads, byteLog, uploadLog, total, admin, removing, suppressed>>

\* recordDelta: nothing, or an entry and then its counters.
MemoryRecordDelta(cause, delta) == Effects("uploads", Entry(now, cause, delta), UploadInc(delta))

MemoryUpsert(root, cause) ==
    /\ uploads' = uploads \cup {root}
    /\ Hold("upload", root, IF root \in uploads THEN <<>> ELSE MemoryRecordDelta(cause, 1))
    /\ UNCHANGED <<registry, byteLog, uploadLog, total, admin, removing, suppressed>>

MemoryRemove(root, cause) ==
    /\ root \in uploads
    /\ uploads' = uploads \ {root}
    /\ Hold("upload", root, MemoryRecordDelta(cause, -1))
    /\ UNCHANGED <<registry, byteLog, uploadLog, total, admin, removing, suppressed>>

MemoryPutDiff(e) == byteLog' = IF e.do = "bytes" THEN byteLog \cup {e.entry} ELSE byteLog

MemoryPutUploadDiff(e) ==
    uploadLog' = IF e.do = "uploads" /\ ~Recorded(e.entry.at, e.entry.cause)
                 THEN uploadLog \cup {e.entry} ELSE uploadLog

\* The next change of the lock holder.  An upload entry that is already there
\* ends the operation; every other step goes on to the next.
MemoryStep(store) ==
    /\ held[store] # <<>>
    /\ LET e == Head(held[store])
           stop == e.do = "uploads" /\ Recorded(e.entry.at, e.entry.cause)
       IN  /\ held' = [held EXCEPT ![store] = IF stop THEN <<>> ELSE Tail(@)]
           /\ suppressed' = (suppressed \/ stop)
           /\ MemoryPutDiff(e)
           /\ MemoryPutUploadDiff(e)
           /\ total' = IF e.do = "space" THEN Increment(total, e.inc) ELSE total
           /\ admin' = IF e.do = "admin" THEN Increment(admin, e.inc) ELSE admin
           /\ registry' = [d \in Digests |-> IF d \in e.subject THEN 0 ELSE registry[d]]
    /\ UNCHANGED <<backend, now, uploads, removing, touched, changes>>

Tick ==
    /\ now < MaxTime
    /\ now' = now + 1
    /\ UNCHANGED <<backend, registry, uploads, byteLog, uploadLog, total, admin, removing, held,
                   touched, changes, suppressed>>

\* /upload/add of a space that has a service, and /upload/remove.
UploadAdd(root, cause) == Upsert(root, cause) \/ MemoryUpsert(root, cause)

UploadRemove(root, cause) == RemoveUpload(root, cause) \/ MemoryRemove(root, cause)

AccountNext ==
    \/ \E d \in Digests : Register(d) \/ MemoryRegister(d) \/ MemoryDeregister(d)
    \/ \E p \in Removers :
          \/ \E d \in Digests : DeregisterRead(p, d)
          \/ DeregisterCommit(p) \/ DeregisterEnd(p)
    \/ \E root \in Roots :
          \/ \E cause \in AddCauses : UploadAdd(root, cause)
          \/ \E cause \in RemoveCauses : UploadRemove(root, cause)
    \/ \E s \in {"registry", "upload"} : MemoryStep(s)
    \/ Tick

----------------------------------------------------------------------------
\* Properties

SumOf(log) == SumOver([e \in log |-> e.delta], log)

Registered == {d \in Digests : registry[d] # 0}

\* Nobody holds a lock: always so in Postgres.
Quiet == \A s \in {"registry", "upload"} : held[s] = <<>>

\* The three accounts of the bytes of a space agree whatever removals, second
\* removals and new registrations are interleaved: the counters, the log and
\* the registered sizes; so do the number of registrations and the copy of the
\* counters the service keeps.
BytesBalance ==
    Quiet =>
        /\ total["blobAddSize"] - total["blobRemoveSize"] = SumOf(byteLog)
        /\ SumOf(byteLog) = SumOver(registry, Registered)
        /\ total["blobAdd"] - total["blobRemove"] = Cardinality(Registered)
        /\ admin = total

\* The upload counters follow the upload log in every case, and both count the
\* uploads there are unless two changes had one cause and one instant: a retry
\* of /upload/add must leave the count where it was.
UploadsBalance ==
    Quiet =>
        /\ total["uploadAdd"] - total["uploadRemove"] = SumOf(uploadLog)
        /\ ~suppressed => SumOf(uploadLog) = Cardinality(uploads)
=============================================================================
