------------------------------ MODULE Listing ------------------------------
(***************************************************************************)
(* Paged listings: every List of the stores in both backends, and the      *)
(* callers that walk through the pages while rows come and go: the client  *)
(* of /blob/list, /upload/list and /upload/shard/list, which chooses the   *)
(* page size, and the service's own store.Collect, which does not.         *)
(*                                                                         *)
(* A row is a number, in the order of its key.  The keys of some tables    *)
(* are pairs: Major(i) is the first half, shared by neighbours, and i      *)
(* stands for the second.  A cursor is the row it names, or a position in  *)
(* the stores that count; 0 is no cursor.  Default limits are scaled down. *)
(* Bound: MaxChanges.                                                      *)
(***************************************************************************)
EXTENDS Ordering, SequencesExt

CONSTANTS
    Ids,            \* rows, naturals from 1
    Sizes,          \* page sizes a client asks for; int() of a huge one is negative
    Default,        \* the page size of a store that is asked for none
    MaxShards,      \* the largest page of shards
    MaxSlice,       \* the most rows that room can be made for at once
    Since,          \* the instant a listing of a diff log starts after
    MaxRows,        \* rows of the table when the listing begins
    MaxChanges      \* rows added and removed while listing

ASSUME ListingAssumption ==
    /\ Ids \subseteq Nat \ {0} /\ Sizes \subseteq Int
    /\ MaxSlice \in Nat /\ Default \in 1 .. MaxSlice /\ MaxShards \in 1 .. MaxSlice
    /\ Since \in Int /\ MaxRows \in Nat /\ MaxChanges \in Nat

VARIABLES
    kind,       \* the listing: <<backend, table>>
    rows,       \* the table: in the order of insertion, or sorted where copies are kept
    lister,     \* the caller: [pc, size, cursor, got, twice]
    steady,     \* history: the rows that were there all along
    changes     \* history: the rows of each change since the listing began

vars == <<kind, rows, lister, steady, changes>>

\* The listings of the two backends.
Kinds ==
    ({"postgres"} \X {"upload", "shard", "blob", "delegation", "customer", "subscription",
                      "provider", "consumer", "spaceDiff", "uploadDiff"})
    \cup ({"memory"} \X {"blob", "upload", "shard", "spaceDiff", "uploadDiff", "consumer",
                         "subscription", "customer", "delegation", "provider"})

\* Slices that may hold a row more than once: a token that is stored again, and
\* a shard that the first upload of a space names twice.
Repeating == {"memory"} \X {"shard", "delegation"}

Major(i) == i \div 2

Unset == [set |-> FALSE, n |-> 0]

----------------------------------------------------------------------------
\* Pages.  A page has rows, a cursor if there is more, or fails.

PageOf(items, cursor) == [out |-> "page", items |-> items, cursor |-> cursor]
Fails(how) == [out |-> how, items |-> <<>>, cursor |-> 0]

Ascending == InOrder(ToSet(rows))

First(s, n) == SubSeq(s, 1, IF n < Len(s) THEN n ELSE Len(s))

From(s, i) == SubSeq(s, i, Len(s))

\* The limit as given, whatever it is.
GivenOr(size, default) == IF size.set THEN size.n ELSE default

\* A limit that is not positive counts as none.
LimitOr(size, default) == IF size.set /\ size.n > 0 THEN size.n ELSE default

\* The first n of s; a limit of nothing indexes the row before the first, and
\* no slice has a negative bound.
Cut(s, n) ==
    IF Len(s) <= n THEN PageOf(s, 0)
    ELSE IF n <= 0 THEN Fails("panic")
    ELSE PageOf(First(s, n), s[n])

\* Room is made for the whole page, and one row more than the page is read to
\* know whether there is a next one.
QueryPage(matching, n) == IF n > MaxSlice THEN Fails("panic") ELSE Cut(matching, n)

\* The first position of c in s, 0 when it is not there.
Position(s, c) == IF c \in ToSet(s) THEN Min({i \in DOMAIN s : s[i] = c}) ELSE 0

----------------------------------------------------------------------------
\* Postgres: the rows whose key is past the cursor, in the order of the key.

Past(c) == InOrder({i \in ToSet(rows) : i > c})

PgUploadList(c, size) == QueryPage(Past(c), LimitOr(size, Default))

PgShardList(c, size) ==
    LET n == LimitOr(size, Default)
    IN  QueryPage(Past(c), IF n > MaxShards THEN MaxShards ELSE n)

PgBlobList(c, size) == QueryPage(Past(c), LimitOr(size, Default))

PgDelegationList(c, size) == QueryPage(Past(c), LimitOr(size, Default))

PgCustomerList(c, size) == QueryPage(Past(c), LimitOr(size, Default))

PgSubscriptionList(c, size) == QueryPage(Past(c), LimitOr(size, Default))

PgProviderList(c, size) == QueryPage(Past(c), LimitOr(size, Default))

\* Mutant: the cursor carries half of the key.
PastPairMajorOnly(i, c) == Major(i) > Major(c)

\* Mutant: the cursor's row is listed again.
PastPairInclusive(i, c) == Major(i) > Major(c) \/ (Major(i) = Major(c) /\ i >= c)

\* Both halves of the key: (provider, subscription) or (receipt_at, cause).
\* The cursor carries both, so that a page may end inside a group.
PastPair(i, c) == Major(i) > Major(c) \/ (Major(i) = Major(c) /\ i > c)

PgConsumerList(c, size) ==
    QueryPage(InOrder({i \in ToSet(rows) : c = 0 \/ PastPair(i, c)}), LimitOr(size, Default))

\* A log is listed from its cursor or, without one, from an instant.
PastDiff(c) ==
    InOrder({i \in ToSet(rows) : IF c = 0 THEN Major(i) > Since ELSE PastPair(i, c)})

PgSpaceDiffList(c, size) == QueryPage(PastDiff(c), LimitOr(size, Default))

PgUploadDiffList(c, size) == QueryPage(PastDiff(c), LimitOr(size, Default))

----------------------------------------------------------------------------
\* Memory: the stores keep slices and look the cursor up in them.

\* In the order of insertion; a cursor that is gone is an error.
MemBlobList(c, size) ==
    IF c # 0 /\ Position(rows, c) = 0 THEN Fails("error")
    ELSE LET rest == From(rows, Position(rows, c) + 1)
         IN  IF size.set THEN Cut(rest, size.n) ELSE PageOf(rest, 0)

\* The last row of a page is its cursor, on the last page too, and a cursor
\* that is gone starts again from the beginning.
LastOf(s) == PageOf(s, IF s = <<>> THEN 0 ELSE Last(s))

Sliced(s, n) == IF n < 0 THEN Fails("panic") ELSE LastOf(First(s, n))

\* A cursor that is the last row, or is gone, does not move the start.
Resume(s, c) == IF Position(s, c) < Len(s) THEN From(s, Position(s, c) + 1) ELSE s

\* Mutant: the cursor of the last page does not end the listing.
MemUploadListResumed(c, size) == Sliced(Resume(rows, c), GivenOr(size, Default))

MemUploadList(c, size) ==
    Sliced(From(rows, Position(rows, c) + 1), GivenOr(size, Default))

MemShardList(c, size) ==
    LET rest == From(rows, Position(rows, c) + 1)
    IN  Sliced(rest, GivenOr(size, Len(rest)))

MemSpaceDiffList(c, size) == Cut(PastDiff(c), GivenOr(size, Default))

MemUploadDiffList(c, size) == Cut(PastDiff(c), LimitOr(size, Default))

\* The cursor is the number of rows already returned.
Counted(s, c, n) ==
    IF c > Len(s) THEN Fails("error")
    ELSE LET page == Cut(From(s, c + 1), n)
         IN  IF page.cursor = 0 THEN page ELSE [page EXCEPT !.cursor = Position(s, page.cursor)]

MemConsumerList(c, size) == Counted(rows, c, GivenOr(size, Default))

MemSubscriptionList(c, size) == Counted(Ascending, c, GivenOr(size, Default))

MemCustomerList(c, size) == Cut(Resume(Ascending, c), GivenOr(size, Default))

MemDelegationList(c, size) == Cut(Resume(rows, c), GivenOr(size, Default))

MemProviderList(c, size) ==
    Cut(From(Ascending, Position(Ascending, c) + 1), GivenOr(size, Default))

----------------------------------------------------------------------------
List(c, size) ==
    CASE kind = <<"postgres", "upload">> -> PgUploadList(c, size)
      [] kind = <<"postgres", "shard">> -> PgShardList(c, size)
      [] kind = <<"postgres", "blob">> -> PgBlobList(c, size)
      [] kind = <<"postgres", "delegation">> -> PgDelegationList(c, size)
      [] kind = <<"postgres", "customer">> -> PgCustomerList(c, size)
      [] kind = <<"postgres", "subscription">> -> PgSubscriptionList(c, size)
      [] kind = <<"postgres", "provider">> -> PgProviderList(c, size)
      [] kind = <<"postgres", "consumer">> -> PgConsumerList(c, size)
      [] kind = <<"postgres", "spaceDiff">> -> PgSpaceDiffList(c, size)
      [] kind = <<"postgres", "uploadDiff">> -> PgUploadDiffList(c, size)
      [] kind = <<"memory", "blob">> -> MemBlobList(c, size)
      [] kind = <<"memory", "upload">> -> MemUploadList(c, size)
      [] kind = <<"memory", "shard">> -> MemShardList(c, size)
      [] kind = <<"memory", "spaceDiff">> -> MemSpaceDiffList(c, size)
      [] kind = <<"memory", "uploadDiff">> -> MemUploadDiffList(c, size)
      [] kind = <<"memory", "consumer">> -> MemConsumerList(c, size)
      [] kind = <<"memory", "subscription">> -> MemSubscriptionList(c, size)
      [] kind = <<"memory", "customer">> -> MemCustomerList(c, size)
      [] kind = <<"memory", "delegation">> -> MemDelegationList(c, size)
      [] kind = <<"memory", "provider">> -> MemProviderList(c, size)

\* The rows a complete listing has to return.
Wanted(i) == kind[2] \in {"spaceDiff", "uploadDiff"} => Major(i) > Since

Sorted(s) == \A j, k \in DOMAIN s : j < k => s[j] <= s[k]

StoredTwice(i) == \E j, k \in DOMAIN rows : j # k /\ rows[j] = i /\ rows[k] = i

Init ==
    /\ kind \in Kinds
    /\ rows \in BoundedSeq(Ids, MaxRows)
    /\ kind \in {"memory"} \X {"blob", "upload", "consumer"} \/ Sorted(rows)
    /\ kind \in Repeating \/ \A i \in ToSet(rows) : ~StoredTwice(i)
    /\ lister = [pc |-> "idle", size |-> Unset, cursor |-> 0, got |-> {}, twice |-> {}]
    /\ steady = {} /\ changes = <<>>

Begin(size) ==
    /\ lister.pc = "idle"
    /\ lister' = [lister EXCEPT !.pc = "paging", !.size = size]
    /\ steady' = {i \in ToSet(rows) : Wanted(i)}
    /\ UNCHANGED <<kind, rows, changes>>

\* The handlers pass the client's page size and cursor on as they are.
BlobList(n) == kind[2] = "blob" /\ Begin([set |-> TRUE, n |-> n])
UploadList(n) == kind[2] = "upload" /\ Begin([set |-> TRUE, n |-> n])
UploadShardList(n) == kind[2] = "shard" /\ Begin([set |-> TRUE, n |-> n])

\* store.Collect and the loops like it name no page size, and a client need
\* not; the administrator's list of providers is collected whole.
BeginCollect == kind[2] # "provider" /\ Begin(Unset)
AdminProviderList == kind[2] = "provider" /\ Begin(Unset)

\* One page: the listing ends with the cursor, or with a page without rows.
Collect ==
    LET page == List(lister.cursor, lister.size)
    IN  lister' = [lister EXCEPT !.got = @ \cup ToSet(page.items), !.cursor = page.cursor,
                                 !.twice = @ \cup (lister.got \cap ToSet(page.items)),
                                 !.pc = CASE page.out # "page" -> page.out
                                          [] page.out = "page" ->
                                               IF page.cursor = 0 \/ page.items = <<>>
                                               THEN "done" ELSE "paging"]

NextPage ==
    /\ lister.pc = "paging"
    /\ Collect
    /\ UNCHANGED <<kind, rows, steady, changes>>

\* The place of i in a sorted sequence: before the first row that is larger.
Place(s, i) == Min({k \in 1 .. Len(s) + 1 : k <= Len(s) => s[k] > i})

Added(i) ==
    /\ lister.pc = "paging" /\ Len(changes) < MaxChanges
    /\ rows' = IF kind \in Repeating THEN InsertAt(rows, Place(rows, i), i) ELSE Append(rows, i)
    /\ changes' = Append(changes, {i})
    /\ UNCHANGED <<kind, lister, steady>>

\* Mutant: a row that exists is added again.
InsertUnchecked(i) == Added(i)

\* A row that exists is not added again: the keys of Postgres and the checks of
\* the memory stores see to it.
Insert(i) == kind # <<"memory", "delegation">> /\ i \notin ToSet(rows) /\ Added(i)

\* The memory delegations have no such check: a token that is sent again is
\* stored again.
PutMany(i) == kind = <<"memory", "delegation">> /\ Added(i)

\* Uploads, blobs and providers are removed one by one, shards with their
\* upload; the other tables only grow.
Removed(is) ==
    /\ lister.pc = "paging" /\ Len(changes) < MaxChanges
    /\ is # {} /\ is \subseteq ToSet(rows)
    /\ rows' = Subsequence(rows, {k \in DOMAIN rows : rows[k] \notin is})
    /\ steady' = steady \ is
    /\ changes' = Append(changes, is)
    /\ UNCHANGED <<kind, lister>>

RemoveRow(i) == kind[2] \in {"upload", "blob", "provider"} /\ Removed({i})

RemoveShards == kind[2] = "shard" /\ Removed(ToSet(rows))

Next ==
    \/ BeginCollect \/ AdminProviderList
    \/ \E n \in Sizes : BlobList(n) \/ UploadList(n) \/ UploadShardList(n)
    \/ NextPage
    \/ \E i \in Ids : Insert(i) \/ PutMany(i) \/ RemoveRow(i)
    \/ RemoveShards

\* A caller that has begun asks for its next page.
Spec == Init /\ [][Next]_vars /\ WF_vars(NextPage)

----------------------------------------------------------------------------
\* Properties

\* Types: a listing returns rows of the table, and no table holds a row twice,
\* except the memory delegations, and the memory shards when an upload came with
\* a shard twice; these two are sorted.
TypeOK ==
    /\ kind \in Kinds
    /\ ToSet(rows) \subseteq Ids
    /\ IF kind \in Repeating THEN Sorted(rows) ELSE \A i \in ToSet(rows) : ~StoredTwice(i)
    /\ lister.pc \in {"idle", "paging", "done", "error", "panic"}
    /\ lister.size \in [set : BOOLEAN, n : Int] /\ lister.cursor \in Nat
    /\ lister.twice \subseteq lister.got /\ lister.got \subseteq Ids
    /\ steady \subseteq ToSet(rows)
    /\ \A n \in DOMAIN changes : changes[n] \subseteq Ids

CameBack == \E m, n \in DOMAIN changes : m # n /\ changes[m] \cap changes[n] # {}

\* A listing that ends well has returned every row that was in the table from
\* its beginning to its end, in both backends, whatever rows were added and
\* removed between its pages, also when a page ended inside a group of rows
\* that share the first half of their key.  A row that is removed and comes
\* back is last in the memory blobs and uploads: if it was the cursor, the
\* listing goes on from there.
NothingMissed ==
    /\ lister.pc = "done"
    /\ lister.size.set => lister.size.n > 0
    /\ CameBack => kind \notin {"memory"} \X {"blob", "upload"}
    => steady \subseteq lister.got

\* The listings that go by key, and those of slices that only grow at their
\* end, return no row twice, not even one that was removed and came back; the
\* memory delegations, only a token that is stored twice.  The others start
\* again when their cursor is gone, or shift when a row is added before it.
NoneTwice ==
    \/ kind[1] = "postgres"
    \/ kind[2] \in {"spaceDiff", "uploadDiff", "consumer", "customer", "delegation"}
    => \A i \in lister.twice : StoredTwice(i)

\* The Postgres listings and the memory upload log take a page size of zero, or
\* one so large that it turns negative, for none, and a cursor whose row is gone
\* is no error.  The shards of an upload can be listed with any size; blobs and
\* uploads with any that a slice has room for.  Customers and delegations are
\* listed without a size.
NeverFails ==
    \/ kind[1] = "postgres" /\ (kind[2] = "shard" \/ lister.size.n <= MaxSlice)
    \/ kind[2] \in {"uploadDiff", "customer", "delegation"}
    => lister.pc \notin {"error", "panic"}

\* A cursor is looked up where its row first is, so that a page which ends with
\* a copy of the row it began after comes again; so does the last page of the
\* memory shards, which has a cursor too, if it ends with a copy.
Endless ==
    \E k, m \in DOMAIN rows :
        /\ k < m /\ rows[k] = rows[m]
        /\ \/ kind = <<"memory", "delegation">> /\ m - k = Default /\ m < Len(rows)
           \/ kind = <<"memory", "shard">> /\ (lister.size.n = m - k \/ m = Len(rows))

\* Every listing comes to an end once the table stops changing: the memory
\* uploads and shards, which give a cursor with their last page too, end with
\* a page without rows.  Only copies keep a listing from its end: more of one
\* token or shard than a page has room for, or a second one of the last shard.
ListEnds == (lister.pc = "paging") ~> (lister.pc # "paging" \/ Endless)
=============================================================================
