--------------------------- MODULE ListingProofs ---------------------------
(***************************************************************************)
(* The safety of Listing, for every set of rows, every page size and every *)
(* number of changes: each of the twenty listings walks along one sequence *)
(* of rows, and its cursor says how far it has come.                       *)
(***************************************************************************)
EXTENDS Listing, DataLemmas

----------------------------------------------------------------------------
\* Sequences of rows

Distinct(s) == \A j, k \in 1 .. Len(s) : s[j] = s[k] => j = k

Rising(s) == \A j, k \in 1 .. Len(s) : j < k => s[j] < s[k]

\* rest is what is left of s after its first k rows.
Rest(rest, s, k) ==
    /\ k \in 0 .. Len(s) /\ rest \in Seq(Ids) /\ Len(rest) = Len(s) - k
    /\ \A j \in 1 .. Len(rest) : rest[j] = s[k + j]

\* The page holds the rows of s from the one after the k-th to the m-th, and its
\* cursor, if it has one, is the last of them.
Run(page, s, k, m) ==
    /\ m \in k .. Len(s)
    /\ ToSet(page.items) = {s[j] : j \in (k + 1) .. m}
    /\ page.items = <<>> <=> m = k
    /\ page.cursor = 0 \/ (m > k /\ page.cursor = s[m])

LEMMA RowIds == Ids \subseteq Nat \ {0} /\ Ids \in SUBSET Int
BY ListingAssumption

LEMMA RowIntegers ==
    ASSUME NEW s \in Seq(Ids)
    PROVE  \A j \in 1 .. Len(s) : s[j] \in Int
<1>1. \A j \in 1 .. Len(s) : s[j] \in Ids
  OBVIOUS
<1>2. \A i \in Ids : i \in Int
  BY RowIds
<1>. QED BY <1>1, <1>2

LEMMA MembersOf ==
    ASSUME NEW s \in Seq(Ids)
    PROVE  /\ Len(s) \in Nat /\ DOMAIN s = 1 .. Len(s)
           /\ ToSet(s) \subseteq Ids /\ IsFiniteSet(ToSet(s))
           /\ \A i \in ToSet(s) : \E j \in 1 .. Len(s) : s[j] = i
           /\ \A j \in 1 .. Len(s) : s[j] \in ToSet(s)
<1>1. Len(s) \in Nat /\ DOMAIN s = 1 .. Len(s) /\ \A j \in 1 .. Len(s) : s[j] \in Ids
  OBVIOUS
<1>2. IsFiniteSet(1 .. Len(s))
  BY <1>1, FS_Interval
<1>3. PICK T : T = ToSet(s)
  OBVIOUS
<1>4. s \in [1 .. Len(s) -> T] /\ \A t \in T : \E j \in 1 .. Len(s) : s[j] = t
  BY <1>1, <1>3 DEF ToSet
<1>5. IsFiniteSet(T)
  BY <1>2, <1>4, FiniteImage
<1>. QED BY <1>1, <1>3, <1>4, <1>5 DEF ToSet

LEMMA RisingSorted ==
    ASSUME NEW s \in Seq(Ids), Rising(s)
    PROVE  Sorted(s)
<1>1. \A j \in DOMAIN s : s[j] \in Ids
  OBVIOUS
<1>2. \A j \in DOMAIN s : s[j] \in Int
  BY <1>1, RowIds
<1>. QED BY <1>2 DEF Rising, Sorted

LEMMA RisingDistinct ==
    ASSUME NEW s \in Seq(Ids), Rising(s)
    PROVE  Distinct(s)
<1>1. SUFFICES ASSUME NEW j \in 1 .. Len(s), NEW k \in 1 .. Len(s), s[j] = s[k] PROVE j = k
  BY DEF Distinct
<1>2. s[j] \in Ids /\ s[k] \in Ids /\ j \in Int /\ k \in Int
  OBVIOUS
<1>3. s[j] \in Int /\ s[k] \in Int
  BY <1>2, RowIds
<1>. QED BY <1>1, <1>2, <1>3 DEF Rising

LEMMA InOrderSorted ==
    ASSUME NEW S \in SUBSET Ids, IsFiniteSet(S)
    PROVE  InOrder(S) \in Seq(Ids) /\ Rising(InOrder(S)) /\ ToSet(InOrder(S)) = S
<1>1. S \in SUBSET Int
  BY RowIds
<1>2. /\ Cardinality(S) \in Nat /\ InOrder(S) \in [1 .. Cardinality(S) -> S]
      /\ InOrder(S) \in Seq(S) /\ Len(InOrder(S)) = Cardinality(S)
      /\ \A p \in S : \E i \in 1 .. Cardinality(S) : InOrder(S)[i] = p
  BY <1>1, InOrderMembers
<1>3. Rising(InOrder(S))
  BY <1>1, <1>2, InOrderRises DEF Rising
<1>4. InOrder(S) \in Seq(Ids)
  BY <1>2
<1>. QED BY <1>2, <1>3, <1>4 DEF ToSet

LEMMA FromRest ==
    ASSUME NEW s \in Seq(Ids), NEW k \in 0 .. Len(s)
    PROVE  Rest(From(s, k + 1), s, k)
<1>1. Len(s) \in Nat /\ k \in Nat /\ k <= Len(s)
  OBVIOUS
<1>2. /\ From(s, k + 1) \in Seq(Ids) /\ Len(From(s, k + 1)) = Len(s) - k
      /\ \A j \in 1 .. Len(s) - k : From(s, k + 1)[j] = s[k + j]
  BY <1>1 DEF From
<1>. QED BY <1>1, <1>2 DEF Rest

LEMMA WholeRest ==
    ASSUME NEW s \in Seq(Ids)
    PROVE  Rest(s, s, 0)
BY DEF Rest

LEMMA FirstRows ==
    ASSUME NEW s \in Seq(Ids), NEW n \in Nat
    PROVE  LET m == IF n < Len(s) THEN n ELSE Len(s)
           IN  /\ First(s, n) \in Seq(Ids) /\ Len(First(s, n)) = m
               /\ \A j \in 1 .. m : First(s, n)[j] = s[j]
BY DEF First

LEMMA PositionOf ==
    ASSUME NEW s \in Seq(Ids), NEW c
    PROVE  IF c \in ToSet(s) THEN /\ Position(s, c) \in 1 .. Len(s) /\ s[Position(s, c)] = c
                                  /\ \A j \in 1 .. Len(s) : s[j] = c => Position(s, c) <= j
                             ELSE Position(s, c) = 0
<1>1. CASE c \in ToSet(s)
  <2>1. PICK T : T = {j \in DOMAIN s : s[j] = c}
    OBVIOUS
  <2>2. T \in SUBSET Nat /\ T # {}
    BY <1>1, <2>1 DEF ToSet
  <2>3. \E n \in T : \A m \in T : n <= m
    BY <2>2, LeastMember
  <2>4. Min(T) \in T /\ \A m \in T : Min(T) <= m
    BY <2>3 DEF Min
  <2>5. Position(s, c) = Min(T)
    BY <1>1, <2>1 DEF Position
  <2>. QED BY <1>1, <2>1, <2>4, <2>5
<1>2. CASE c \notin ToSet(s)
  BY <1>2 DEF Position
<1>. QED BY <1>1, <1>2

----------------------------------------------------------------------------
\* Pages

\* The page is the first m rows of what is left.
FirstOf(page, rest, m) ==
    /\ m \in 0 .. Len(rest)
    /\ page.items \in Seq(Ids) /\ Len(page.items) = m
    /\ \A j \in 1 .. m : page.items[j] = rest[j]
    /\ page.cursor = 0 \/ (m > 0 /\ page.cursor = rest[m])

LEMMA RunOfFirst ==
    ASSUME NEW s \in Seq(Ids), NEW k, NEW rest, Rest(rest, s, k), NEW page, NEW m, FirstOf(page, rest, m)
    PROVE  Run(page, s, k, k + m)
<1>1. /\ k \in Nat /\ k <= Len(s) /\ Len(s) \in Nat /\ Len(rest) = Len(s) - k
      /\ \A j \in 1 .. Len(rest) : rest[j] = s[k + j]
  BY DEF Rest
<1>2. m \in Nat /\ m <= Len(rest)
  BY <1>1 DEF FirstOf
<1>3. k + m \in k .. Len(s)
  BY <1>1, <1>2
<1>4. \A j \in 1 .. m : page.items[j] = s[k + j]
  BY <1>1, <1>2 DEF FirstOf
<1>5. ToSet(page.items) = {page.items[j] : j \in 1 .. m}
  BY DEF ToSet, FirstOf
<1>6. {page.items[j] : j \in 1 .. m} = {s[j] : j \in (k + 1) .. (k + m)}
  <2>1. ASSUME NEW j \in 1 .. m PROVE page.items[j] \in {s[i] : i \in (k + 1) .. (k + m)}
    <3>1. k + j \in (k + 1) .. (k + m)
      BY <1>1, <1>2
    <3>2. page.items[j] = s[k + j]
      BY <1>4
    <3>. QED BY <3>1, <3>2
  <2>2. ASSUME NEW j \in (k + 1) .. (k + m) PROVE s[j] \in {page.items[i] : i \in 1 .. m}
    <3>1. j - k \in 1 .. m /\ k + (j - k) = j
      BY <1>1, <1>2
    <3>2. page.items[j - k] = s[j]
      BY <1>4, <3>1
    <3>. QED BY <3>1, <3>2
  <2>. QED BY <2>1, <2>2
<1>7. page.items = <<>> <=> k + m = k
  BY <1>1, <1>2 DEF FirstOf
<1>8. page.cursor = 0 \/ (k + m > k /\ page.cursor = s[k + m])
  BY <1>1, <1>2 DEF FirstOf
<1>. QED BY <1>3, <1>5, <1>6, <1>7, <1>8 DEF Run

\* Cut ends with the sequence, and does not fail for a positive limit.
LEMMA CutRuns ==
    ASSUME NEW s \in Seq(Ids), NEW k, NEW rest, Rest(rest, s, k), NEW n \in Int
    PROVE  LET page == Cut(rest, n)
           IN  /\ page.out \in {"page", "panic"} /\ (n > 0 => page.out = "page")
               /\ page.out = "panic" => page = Fails("panic")
               /\ page.out = "page" =>
                     \E m \in Nat : Run(page, s, k, m) /\ (IF page.cursor = 0 THEN m = Len(s) ELSE m < Len(s))
<1>1. /\ k \in Nat /\ k <= Len(s) /\ Len(s) \in Nat /\ Len(rest) = Len(s) - k
      /\ rest \in Seq(Ids) /\ Len(rest) \in Nat
  BY DEF Rest
<1>2. PICK page : page = Cut(rest, n)
  OBVIOUS
<1>3. CASE Len(rest) <= n
  <2>1. page = [out |-> "page", items |-> rest, cursor |-> 0]
    BY <1>2, <1>3 DEF Cut, PageOf
  <2>2. Run(page, s, k, k + Len(rest))
    <3>1. page.items = rest /\ page.cursor = 0 /\ Len(rest) \in 0 .. Len(rest)
      BY <1>1, <2>1
    <3>2. FirstOf(page, rest, Len(rest))
      BY <1>1, <3>1 DEF FirstOf
    <3>. QED BY <3>2, RunOfFirst
  <2>3. k + Len(rest) = Len(s)
    BY <1>1
  <2>. QED BY <1>1, <1>2, <2>1, <2>2, <2>3
<1>4. CASE ~(Len(rest) <= n) /\ n <= 0
  <2>1. page = Fails("panic") /\ page.out = "panic"
    BY <1>2, <1>4 DEF Cut, Fails
  <2>. QED BY <1>2, <1>4, <2>1
<1>5. CASE ~(Len(rest) <= n) /\ ~(n <= 0)
  <2>1. n \in Nat /\ n > 0 /\ n < Len(rest)
    BY <1>1, <1>5
  <2>2. page = [out |-> "page", items |-> First(rest, n), cursor |-> rest[n]]
    BY <1>2, <1>5 DEF Cut, PageOf
  <2>3. First(rest, n) \in Seq(Ids) /\ Len(First(rest, n)) = n /\ \A j \in 1 .. n : First(rest, n)[j] = rest[j]
    BY <1>1, <2>1, FirstRows
  <2>4. Run(page, s, k, k + n)
    <3>1. page.items = First(rest, n) /\ page.cursor = rest[n] /\ n \in 0 .. Len(rest)
      BY <1>1, <2>1, <2>2
    <3>2. FirstOf(page, rest, n)
      BY <2>1, <2>3, <3>1 DEF FirstOf
    <3>. QED BY <3>2, RunOfFirst
  <2>5. k + n < Len(s) /\ k + n \in Nat
    BY <1>1, <2>1
  <2>6. rest[n] # 0
    BY <1>1, <2>1, RowIds
  <2>. QED BY <1>2, <2>2, <2>4, <2>5, <2>6
<1>. QED BY <1>3, <1>4, <1>5

LEMMA CutPage ==
    ASSUME NEW s \in Seq(Ids), NEW k, NEW rest, Rest(rest, s, k), NEW n \in Int,
           NEW page, page = Cut(rest, n)
    PROVE  /\ page.out \in {"page", "panic"} /\ (page.out = "panic" => page = Fails("panic"))
           /\ page.out = "page" =>
                 \E m \in Nat : Run(page, s, k, m) /\ (IF page.cursor = 0 THEN m = Len(s) ELSE m < Len(s))
BY CutRuns

\* Sliced has a cursor as long as it has rows.
LEMMA SlicedRuns ==
    ASSUME NEW s \in Seq(Ids), NEW k, NEW rest, Rest(rest, s, k), NEW n \in Int
    PROVE  LET page == Sliced(rest, n)
           IN  /\ page.out \in {"page", "panic"}
               /\ page.out = "panic" => page = Fails("panic")
               /\ page.out = "page" =>
                     \E m \in Nat : /\ Run(page, s, k, m)
                                    /\ (n > 0 \/ n >= Len(rest)) /\ page.cursor = 0 => m = Len(s)
<1>1. /\ k \in Nat /\ k <= Len(s) /\ Len(s) \in Nat /\ Len(rest) = Len(s) - k
      /\ rest \in Seq(Ids) /\ Len(rest) \in Nat
  BY DEF Rest
<1>2. PICK page : page = Sliced(rest, n)
  OBVIOUS
<1>3. CASE n < 0
  BY <1>2, <1>3 DEF Sliced, Fails
<1>4. CASE ~(n < 0)
  <2>1. PICK m \in 0 .. Len(rest) : m = IF n < Len(rest) THEN n ELSE Len(rest)
    <3>1. (IF n < Len(rest) THEN n ELSE Len(rest)) \in 0 .. Len(rest)
      BY <1>1, <1>4
    <3>. QED BY <3>1
  <2>2. PICK f : f = First(rest, n)
    OBVIOUS
  <2>3. f \in Seq(Ids) /\ Len(f) = m /\ \A j \in 1 .. m : f[j] = rest[j]
    BY <1>1, <1>4, <2>1, <2>2, FirstRows
  <2>4. page = [out |-> "page", items |-> f, cursor |-> IF f = <<>> THEN 0 ELSE f[Len(f)]]
    BY <1>2, <1>4, <2>2 DEF Sliced, LastOf, PageOf, Last
  <2>5. f = <<>> <=> m = 0
    BY <2>1, <2>3
  <2>6. page.items = f /\ page.cursor = IF m = 0 THEN 0 ELSE rest[m]
    BY <1>1, <2>1, <2>3, <2>4, <2>5
  <2>7. Run(page, s, k, k + m)
    <3>1. FirstOf(page, rest, m)
      BY <1>1, <2>1, <2>3, <2>6 DEF FirstOf
    <3>. QED BY <3>1, RunOfFirst
  <2>8. (n > 0 \/ n >= Len(rest)) /\ page.cursor = 0 => k + m = Len(s)
    <3>1. m # 0 => rest[m] # 0
      BY <1>1, <2>1, RowIds
    <3>. QED BY <1>1, <2>1, <2>6, <3>1
  <2>. QED BY <1>1, <1>2, <2>1, <2>4, <2>7, <2>8
<1>. QED BY <1>3, <1>4

----------------------------------------------------------------------------
\* Types

PageSizes == [set : BOOLEAN, n : Int]

Lister == [pc : {"idle", "paging", "done", "error", "panic"}, size : PageSizes, cursor : Nat,
           got : SUBSET Ids, twice : SUBSET Ids]

ListTypes ==
    /\ kind \in Kinds
    /\ rows \in Seq(Ids) /\ IF kind \in Repeating THEN Sorted(rows) ELSE Distinct(rows)
    /\ lister \in Lister /\ lister.twice \subseteq lister.got
    /\ steady \subseteq ToSet(rows)
    /\ changes \in Seq(SUBSET Ids)

\* Only blobs, uploads and shards are listed with a page size.
SizesKnown(size) == IF size.set THEN kind[2] \in {"blob", "upload", "shard"} ELSE size.n = 0

\* The size that a caller asks for is one that a page can have.
Positive(size) == size.set => size.n > 0

LEMMA RowsSorted ==
    ASSUME ListTypes, NEW S \in SUBSET ToSet(rows)
    PROVE  InOrder(S) \in Seq(Ids) /\ Rising(InOrder(S)) /\ ToSet(InOrder(S)) = S
<1>1. S \in SUBSET Ids /\ IsFiniteSet(S)
  BY MembersOf, FS_Subset DEF ListTypes
<1>. QED BY <1>1, InOrderSorted

LEMMA RowNumbers ==
    ASSUME ListTypes
    PROVE  \A i \in ToSet(rows) : i \in Ids /\ i \in Nat /\ i > 0
<1>1. rows \in Seq(Ids)
  BY DEF ListTypes
<1>2. ToSet(rows) \subseteq Ids
  BY <1>1, MembersOf
<1>3. \A i \in Ids : i \in Nat /\ i > 0
  BY ListingAssumption
<1>. QED BY <1>2, <1>3

LEMMA AscendingRows ==
    ASSUME ListTypes
    PROVE  Ascending \in Seq(Ids) /\ Rising(Ascending) /\ ToSet(Ascending) = ToSet(rows)
BY RowsSorted DEF Ascending

----------------------------------------------------------------------------
\* The listings that go by key

\* The rows past the cursor c; without a cursor, those that are wanted.
Beyond(c) == {i \in ToSet(rows) : i > c /\ (c = 0 => Wanted(i))}

ByKey == kind[1] = "postgres" \/ kind[2] \in {"spaceDiff", "uploadDiff"}

\* A pair of halves is past another when the key is.
LEMMA PairOrder ==
    ASSUME NEW i \in Nat, NEW c \in Nat
    PROVE  PastPair(i, c) <=> i > c
<1>1. PICK p \in Nat, q \in Nat : p = i \div 2 /\ q = c \div 2
  OBVIOUS
<1>2. 2 * p <= i /\ i < 2 * p + 2 /\ 2 * q <= c /\ c < 2 * q + 2
  BY <1>1
<1>. QED BY <1>1, <1>2 DEF PastPair, Major

LEMMA BeyondRows ==
    ASSUME ListTypes, NEW c \in Nat
    PROVE  /\ kind[2] \notin {"spaceDiff", "uploadDiff"} => {i \in ToSet(rows) : i > c} = Beyond(c)
           /\ kind[2] = "consumer" => {i \in ToSet(rows) : c = 0 \/ PastPair(i, c)} = Beyond(c)
           /\ kind[2] \in {"spaceDiff", "uploadDiff"} =>
                 {i \in ToSet(rows) : IF c = 0 THEN Major(i) > Since ELSE PastPair(i, c)} = Beyond(c)
<1>1. \A i \in ToSet(rows) : i \in Nat /\ i > 0 /\ (PastPair(i, c) <=> i > c)
  BY RowNumbers, PairOrder
<1>2. kind[2] \notin {"spaceDiff", "uploadDiff"} => {i \in ToSet(rows) : i > c} = Beyond(c)
  BY DEF Beyond, Wanted
<1>3. kind[2] = "consumer" => {i \in ToSet(rows) : c = 0 \/ PastPair(i, c)} = Beyond(c)
  BY <1>1 DEF Beyond, Wanted
<1>4. kind[2] \in {"spaceDiff", "uploadDiff"} =>
         {i \in ToSet(rows) : IF c = 0 THEN Major(i) > Since ELSE PastPair(i, c)} = Beyond(c)
  BY <1>1 DEF Beyond, Wanted
<1>. QED BY <1>2, <1>3, <1>4

\* The limits that the stores work with.
LEMMA Limits ==
    ASSUME NEW size \in PageSizes
    PROVE  /\ LimitOr(size, Default) \in Nat \ {0}
           /\ size.n <= MaxSlice => LimitOr(size, Default) <= MaxSlice
           /\ GivenOr(size, Default) \in Int
           /\ Positive(size) => GivenOr(size, Default) > 0
           /\ \A n \in Nat : GivenOr(size, n) \in Int
BY ListingAssumption DEF PageSizes, LimitOr, GivenOr, Positive

LEMMA ByKeyPages ==
    ASSUME ListTypes, ByKey, NEW c \in Nat, NEW size \in PageSizes
    PROVE  \E n \in Int :
              /\ Positive(size) \/ kind # <<"memory", "spaceDiff">> => n > 0
              /\ kind = <<"postgres", "shard">> \/ size.n <= MaxSlice => n <= MaxSlice \/ kind[1] = "memory"
              /\ \/ List(c, size) = Cut(InOrder(Beyond(c)), n)
                 \/ kind[1] = "postgres" /\ n > MaxSlice /\ List(c, size) = Fails("panic")
<1>1. CASE kind \in {"postgres"} \X {"upload", "blob", "delegation", "customer", "subscription", "provider"}
  <2>1. List(c, size) = QueryPage(Past(c), LimitOr(size, Default))
    BY <1>1 DEF List, PgUploadList, PgBlobList, PgDelegationList, PgCustomerList, PgSubscriptionList,
       PgProviderList
  <2>2. Past(c) = InOrder(Beyond(c))
    BY <1>1, BeyondRows DEF Past
  <2>. QED BY <1>1, <2>1, <2>2, Limits, ListingAssumption DEF QueryPage
<1>2. CASE kind = <<"postgres", "shard">>
  <2>1. PICK n \in Nat \ {0} : n = LimitOr(size, Default)
    BY Limits
  <2>2. List(c, size) = QueryPage(Past(c), IF n > MaxShards THEN MaxShards ELSE n)
    BY <1>2, <2>1 DEF List, PgShardList
  <2>3. Past(c) = InOrder(Beyond(c))
    BY <1>2, BeyondRows DEF Past
  <2>4. PICK m \in Nat \ {0} : m <= MaxSlice /\ m = IF n > MaxShards THEN MaxShards ELSE n
    <3>1. MaxShards \in Nat \ {0} /\ MaxShards <= MaxSlice /\ MaxSlice \in Nat
      BY ListingAssumption
    <3>. QED BY <3>1
  <2>5. List(c, size) = Cut(InOrder(Beyond(c)), m)
    BY <2>2, <2>3, <2>4, ListingAssumption DEF QueryPage
  <2>. QED BY <2>4, <2>5
<1>3. CASE kind = <<"postgres", "consumer">>
  <2>1. List(c, size) = QueryPage(InOrder(Beyond(c)), LimitOr(size, Default))
    BY <1>3, BeyondRows DEF List, PgConsumerList
  <2>. QED BY <1>3, <2>1, Limits, ListingAssumption DEF QueryPage
<1>4. CASE kind \in {"postgres"} \X {"spaceDiff", "uploadDiff"}
  <2>1. PastDiff(c) = InOrder(Beyond(c))
    BY <1>4, BeyondRows DEF PastDiff
  <2>2. List(c, size) = QueryPage(PastDiff(c), LimitOr(size, Default))
    BY <1>4 DEF List, PgSpaceDiffList, PgUploadDiffList
  <2>. QED BY <1>4, <2>1, <2>2, Limits, ListingAssumption DEF QueryPage
<1>5. CASE kind = <<"memory", "spaceDiff">>
  <2>1. List(c, size) = Cut(PastDiff(c), GivenOr(size, Default)) /\ PastDiff(c) = InOrder(Beyond(c))
    BY <1>5, BeyondRows DEF List, MemSpaceDiffList, PastDiff
  <2>. QED BY <1>5, <2>1, Limits
<1>6. CASE kind = <<"memory", "uploadDiff">>
  <2>1. List(c, size) = Cut(PastDiff(c), LimitOr(size, Default)) /\ PastDiff(c) = InOrder(Beyond(c))
    BY <1>6, BeyondRows DEF List, MemUploadDiffList, PastDiff
  <2>. QED BY <1>6, <2>1, Limits
<1>. QED BY <1>1, <1>2, <1>3, <1>4, <1>5, <1>6 DEF ListTypes, Kinds, ByKey

\* What a page of rows in the order of their key is, for a listing at cursor c:
\* its cursor is its last row, and nothing between the two is left out (if the
\* size asked for is one that a page can have).
KeyedPage(page, c, ok) ==
    /\ ToSet(page.items) \subseteq ToSet(rows)
    /\ page.items = <<>> => page.cursor = 0
    /\ page.cursor # 0 => /\ page.cursor \in ToSet(page.items)
                          /\ \A i \in ToSet(page.items) : i <= page.cursor
    /\ ok => \A i \in ToSet(rows) : Wanted(i) /\ i > c =>
                i \in ToSet(page.items) \/ (page.cursor # 0 /\ i > page.cursor)

LEMMA SortedRun ==
    ASSUME ListTypes, NEW s \in Seq(Ids), Sorted(s), ToSet(s) \subseteq ToSet(rows), NEW k \in Nat,
           NEW c, NEW ok \in BOOLEAN, NEW page, NEW m \in Nat, Run(page, s, k, m),
           ok /\ page.cursor = 0 => m = Len(s),
           \A i \in ToSet(rows) : Wanted(i) /\ i > c => \E j \in 1 .. Len(s) : j > k /\ s[j] = i
    PROVE  KeyedPage(page, c, ok)
<1>1. Len(s) \in Nat /\ (\A j \in 1 .. Len(s) : s[j] \in ToSet(s)) /\ \A j \in 1 .. Len(s) : s[j] \in Int
  BY MembersOf, RowIds
<1>2. k <= m /\ m <= Len(s)
  BY <1>1 DEF Run
<1>3. \A j \in (k + 1) .. m : j \in 1 .. Len(s)
  BY <1>1, <1>2
<1>4. ToSet(page.items) = {s[j] : j \in (k + 1) .. m}
  BY DEF Run
<1>5. ToSet(page.items) \subseteq ToSet(rows)
  BY <1>1, <1>3, <1>4
<1>6. page.items = <<>> => page.cursor = 0
  BY <1>2 DEF Run
<1>7. ASSUME page.cursor # 0
      PROVE  page.cursor \in ToSet(page.items) /\ \A i \in ToSet(page.items) : i <= page.cursor
  <2>1. m \in (k + 1) .. m /\ page.cursor = s[m]
    BY <1>2, <1>7 DEF Run
  <2>2. ASSUME NEW j \in (k + 1) .. m PROVE s[j] <= s[m]
    BY <1>1, <1>3, <2>1 DEF Sorted
  <2>. QED BY <1>4, <2>1, <2>2
<1>8. ASSUME ok, NEW i \in ToSet(rows), Wanted(i), i > c, i \notin ToSet(page.items)
      PROVE  page.cursor # 0 /\ i > page.cursor
  <2>1. PICK j \in 1 .. Len(s) : j > k /\ s[j] = i
    BY <1>8
  <2>2. j > m
    BY <1>2, <1>4, <1>8, <2>1
  <2>3. page.cursor # 0
    BY <1>1, <1>8, <2>1, <2>2
  <2>4. m > k /\ page.cursor = s[m] /\ m \in 1 .. Len(s)
    BY <1>2, <2>3 DEF Run
  <2>5. s[m] <= s[j]
    BY <2>1, <2>2, <2>4 DEF Sorted
  <2>6. s[m] \in ToSet(page.items)
    <3>1. m \in (k + 1) .. m
      BY <1>2, <2>4
    <3>. QED BY <1>4, <3>1
  <2>. QED BY <1>1, <1>8, <2>1, <2>3, <2>4, <2>5, <2>6
<1>. QED BY <1>5, <1>6, <1>7, <1>8 DEF KeyedPage

LEMMA ByKeyPage ==
    ASSUME ListTypes, ByKey, NEW c \in Nat, NEW size \in PageSizes,
           NEW page, page = List(c, size)
    PROVE  /\ page.out \in {"page", "panic"} /\ (page.out = "panic" => page = Fails("panic"))
           /\ page.out = "page" => /\ KeyedPage(page, c, Positive(size))
                                   /\ \A i \in ToSet(page.items) : i > c
<1>1. PICK n \in Int : \/ page = Cut(InOrder(Beyond(c)), n)
                       \/ page = Fails("panic")
  BY ByKeyPages
<1>2. CASE page = Fails("panic")
  BY <1>2 DEF Fails
<1>3. CASE page = Cut(InOrder(Beyond(c)), n)
  <2>1. PICK s : s = InOrder(Beyond(c))
    OBVIOUS
  <2>2. Beyond(c) \in SUBSET ToSet(rows)
    BY DEF Beyond
  <2>3. s \in Seq(Ids) /\ Rising(s) /\ ToSet(s) = Beyond(c)
    BY <2>1, <2>2, RowsSorted
  <2>4. Rest(s, s, 0)
    BY <2>3, WholeRest
  <2>5. /\ page.out \in {"page", "panic"} /\ (page.out = "panic" => page = Fails("panic"))
        /\ page.out = "page" =>
              \E m \in Nat : Run(page, s, 0, m) /\ (IF page.cursor = 0 THEN m = Len(s) ELSE m < Len(s))
    BY <1>3, <2>1, <2>3, <2>4, CutRuns
  <2>6. ASSUME page.out = "page" PROVE KeyedPage(page, c, Positive(size)) /\ \A i \in ToSet(page.items) : i > c
    <3>1. PICK m \in Nat : Run(page, s, 0, m) /\ (page.cursor = 0 => m = Len(s))
      BY <2>5, <2>6
    <3>2. \A i \in ToSet(rows) : Wanted(i) /\ i > c => i \in ToSet(s)
      BY <2>3 DEF Beyond
    <3>3. \A i \in ToSet(s) : \E j \in 1 .. Len(s) : j > 0 /\ s[j] = i
      BY <2>3, MembersOf
    <3>4. KeyedPage(page, c, Positive(size))
      <4>1. PICK ok \in BOOLEAN : ok = Positive(size)
        BY DEF Positive
      <4>2. ToSet(s) \subseteq ToSet(rows)
        BY <2>2, <2>3
      <4>3. KeyedPage(page, c, ok)
        BY <2>3, <3>1, <3>2, <3>3, <4>2, RisingSorted, SortedRun
      <4>. QED BY <4>1, <4>3
    <3>5. \A i \in ToSet(page.items) : i \in ToSet(s)
      BY <2>3, <3>1, MembersOf DEF Run
    <3>. QED BY <2>3, <3>4, <3>5 DEF Beyond
  <2>. QED BY <2>5, <2>6
<1>. QED BY <1>1, <1>2, <1>3

----------------------------------------------------------------------------
\* The memory listings that look the cursor up in sorted rows

PlacedKinds == {"memory"} \X {"shard", "provider", "customer", "delegation"}

\* The rows in their order; where copies are kept, they are kept in it.
Slice == IF kind \in Repeating THEN rows ELSE Ascending

LEMMA SliceRows ==
    ASSUME ListTypes
    PROVE  /\ Slice \in Seq(Ids) /\ Sorted(Slice) /\ ToSet(Slice) = ToSet(rows)
           /\ kind \notin Repeating => Rising(Slice)
<1>1. Ascending \in Seq(Ids) /\ Rising(Ascending) /\ ToSet(Ascending) = ToSet(rows)
  BY AscendingRows
<1>2. Sorted(Ascending)
  BY <1>1, RisingSorted
<1>. QED BY <1>1, <1>2 DEF Slice, ListTypes

\* Every page is one, or says how the call failed.
Answer(page) ==
    /\ page.out \in {"page", "panic", "error"}
    /\ page.out # "page" => page = Fails(page.out)

LEMMA AfterPosition ==
    ASSUME NEW s \in Seq(Ids), NEW c
    PROVE  /\ Position(s, c) \in 0 .. Len(s)
           /\ Rest(From(s, Position(s, c) + 1), s, Position(s, c))
           /\ Rest(Resume(s, c), s, IF Position(s, c) < Len(s) THEN Position(s, c) ELSE 0)
<1>1. Len(s) \in Nat /\ Position(s, c) \in 0 .. Len(s)
  BY PositionOf
<1>2. Rest(From(s, Position(s, c) + 1), s, Position(s, c))
  BY <1>1, FromRest
<1>3. Rest(s, s, 0)
  BY WholeRest
<1>. QED BY <1>1, <1>2, <1>3 DEF Resume

\* A listing goes on after the row of its cursor, or from the start.
PlacedRun(page, c, size, k, m) ==
    /\ k = 0 \/ (c \in ToSet(rows) /\ k = Position(Slice, c))
    /\ Run(page, Slice, k, m)
    /\ Positive(size) /\ page.cursor = 0 => m = Len(Slice)
    /\ kind[2] \in {"customer", "delegation"} =>
          /\ page.cursor # 0 => m < Len(Slice)
          /\ Position(Slice, c) < Len(Slice) => k = Position(Slice, c)

LEMMA PlacedPages ==
    ASSUME ListTypes, kind \in PlacedKinds, NEW c \in Nat, NEW size \in PageSizes,
           NEW page, page = List(c, size)
    PROVE  /\ Answer(page)
           /\ page.out = "page" => \E k \in Nat, m \in Nat : PlacedRun(page, c, size, k, m)
<1>1. Slice \in Seq(Ids) /\ ToSet(Slice) = ToSet(rows)
  BY SliceRows
<1>2. PICK s \in Seq(Ids) : s = Slice
  BY <1>1
<1>3. PICK p \in Nat : p = Position(s, c)
  BY AfterPosition
<1>4. /\ p \in 0 .. Len(s) /\ Rest(From(s, p + 1), s, p)
      /\ Rest(Resume(s, c), s, IF p < Len(s) THEN p ELSE 0)
  BY <1>3, AfterPosition
<1>5. p = 0 \/ c \in ToSet(rows)
  BY <1>1, <1>2, <1>3, PositionOf
<1>6. GivenOr(size, Default) \in Int /\ (Positive(size) => GivenOr(size, Default) > 0)
  BY Limits
<1>7. CASE kind = <<"memory", "shard">>
  <2>1. PICK rest : rest = From(s, p + 1)
    OBVIOUS
  <2>2. Len(rest) \in Nat
    BY <1>4, <2>1 DEF Rest
  <2>3. PICK n \in Int : n = GivenOr(size, Len(rest))
    BY <2>2, Limits
  <2>4. Positive(size) => n > 0 \/ n >= Len(rest)
    BY <2>2, <2>3 DEF GivenOr, Positive, PageSizes
  <2>5. page = Sliced(rest, n)
    BY <1>2, <1>3, <1>7, <2>1, <2>3 DEF List, MemShardList, Slice, Repeating
  <2>6. /\ page.out \in {"page", "panic"} /\ (page.out = "panic" => page = Fails("panic"))
        /\ page.out = "page" => \E m \in Nat : /\ Run(page, s, p, m)
                                               /\ (n > 0 \/ n >= Len(rest)) /\ page.cursor = 0 => m = Len(s)
    BY <1>4, <2>1, <2>5, SlicedRuns
  <2>7. ASSUME NEW m \in Nat, Run(page, s, p, m), (n > 0 \/ n >= Len(rest)) /\ page.cursor = 0 => m = Len(s)
        PROVE  PlacedRun(page, c, size, p, m)
    BY <1>2, <1>3, <1>5, <1>7, <2>4, <2>7 DEF PlacedRun
  <2>. QED BY <2>6, <2>7 DEF Answer
<1>8. CASE kind = <<"memory", "provider">>
  <2>1. page = Cut(From(s, p + 1), GivenOr(size, Default))
    BY <1>2, <1>3, <1>8 DEF List, MemProviderList, Slice, Repeating
  <2>2. /\ page.out \in {"page", "panic"} /\ (page.out = "panic" => page = Fails("panic"))
        /\ page.out = "page" =>
              \E m \in Nat : Run(page, s, p, m) /\ (IF page.cursor = 0 THEN m = Len(s) ELSE m < Len(s))
    <3>1. PICK rest : rest = From(s, p + 1) /\ Rest(rest, s, p)
      BY <1>4
    <3>2. PICK n \in Int : n = GivenOr(size, Default)
      BY <1>6
    <3>3. page = Cut(rest, n)
      BY <2>1, <3>1, <3>2
    <3>. QED BY <3>1, <3>3, CutPage
  <2>3. ASSUME NEW m \in Nat, Run(page, s, p, m), page.cursor = 0 => m = Len(s)
        PROVE  PlacedRun(page, c, size, p, m)
    BY <1>2, <1>3, <1>5, <1>8, <2>3 DEF PlacedRun
  <2>. QED BY <2>2, <2>3 DEF Answer
<1>9. CASE kind \in {"memory"} \X {"customer", "delegation"}
  <2>1. PICK k \in Nat : k = IF p < Len(s) THEN p ELSE 0
    OBVIOUS
  <2>2. page = Cut(Resume(s, c), GivenOr(size, Default))
    BY <1>2, <1>9 DEF List, MemCustomerList, MemDelegationList, Slice, Repeating
  <2>3. /\ page.out \in {"page", "panic"} /\ (page.out = "panic" => page = Fails("panic"))
        /\ page.out = "page" =>
              \E m \in Nat : Run(page, s, k, m) /\ (IF page.cursor = 0 THEN m = Len(s) ELSE m < Len(s))
    <3>1. PICK rest : rest = Resume(s, c) /\ Rest(rest, s, k)
      BY <1>4, <2>1
    <3>2. PICK n \in Int : n = GivenOr(size, Default)
      BY <1>6
    <3>3. page = Cut(rest, n)
      BY <2>2, <3>1, <3>2
    <3>. QED BY <3>1, <3>3, CutPage
  <2>4. ASSUME NEW m \in Nat, Run(page, s, k, m), IF page.cursor = 0 THEN m = Len(s) ELSE m < Len(s)
        PROVE  PlacedRun(page, c, size, k, m)
    BY <1>2, <1>3, <1>5, <2>1, <2>4 DEF PlacedRun
  <2>. QED BY <2>3, <2>4 DEF Answer
<1>. QED BY <1>7, <1>8, <1>9 DEF PlacedKinds

\* The cursor stands before some row, or before a copy of its own.
MoreAfter(c) == c \in ToSet(rows) /\ (StoredTwice(c) \/ \E i \in ToSet(rows) : i > c)

LEMMA CopiesKept ==
    ASSUME ListTypes, NEW i, StoredTwice(i)
    PROVE  kind \in Repeating
BY DEF ListTypes, Distinct, StoredTwice

LEMMA PlacedPage ==
    ASSUME ListTypes, kind \in PlacedKinds, NEW c \in Nat, NEW size \in PageSizes,
           NEW page, page = List(c, size), page.out = "page"
    PROVE  /\ KeyedPage(page, c, Positive(size))
           /\ kind[2] \in {"customer", "delegation"} =>
                 /\ c = 0 \/ MoreAfter(c) =>
                       \A i \in ToSet(page.items) : i > c \/ (i = c /\ StoredTwice(c))
                 /\ page.cursor # 0 => MoreAfter(page.cursor)
<1>1. PICK s \in Seq(Ids) : s = Slice /\ Sorted(s) /\ ToSet(s) = ToSet(rows)
  BY SliceRows
<1>2. PICK k \in Nat, m \in Nat : PlacedRun(page, c, size, k, m)
  BY PlacedPages
<1>3. /\ k = 0 \/ (c \in ToSet(s) /\ k = Position(s, c))
      /\ Run(page, s, k, m)
      /\ Positive(size) /\ page.cursor = 0 => m = Len(s)
  BY <1>1, <1>2 DEF PlacedRun
<1>4. kind[2] \in {"customer", "delegation"} =>
          /\ page.cursor # 0 => m < Len(s)
          /\ Position(s, c) < Len(s) => k = Position(s, c)
  BY <1>1, <1>2 DEF PlacedRun
<1>5. k = 0 \/ (k \in 1 .. Len(s) /\ s[k] = c)
  BY <1>3, PositionOf
<1>6. Len(s) \in Nat /\ \A j \in 1 .. Len(s) : s[j] \in ToSet(s) /\ s[j] \in Nat /\ s[j] > 0
  BY <1>1, MembersOf, RowNumbers
<1>7. \A i \in ToSet(s) : \E j \in 1 .. Len(s) : s[j] = i
  BY MembersOf
<1>8. KeyedPage(page, c, Positive(size))
  <2>1. ASSUME NEW i \in ToSet(rows), i > c PROVE \E j \in 1 .. Len(s) : j > k /\ s[j] = i
    <3>1. PICK j \in 1 .. Len(s) : s[j] = i
      BY <1>1, <1>7
    <3>2. j > k
      BY <1>1, <1>5, <1>6, <2>1, <3>1 DEF Sorted
    <3>. QED BY <3>1, <3>2
  <2>2. PICK ok \in BOOLEAN : ok = Positive(size)
    BY DEF Positive
  <2>3. KeyedPage(page, c, ok)
    BY <1>1, <1>3, <2>1, <2>2, SortedRun
  <2>. QED BY <2>2, <2>3
<1>9. ASSUME NEW g \in 1 .. Len(s), NEW h \in 1 .. Len(s), g < h
      PROVE  s[g] < s[h] \/ (s[g] = s[h] /\ StoredTwice(s[g]))
  <2>1. s[g] \in Nat /\ s[h] \in Nat /\ s[g] <= s[h] /\ g # h
    BY <1>1, <1>6, <1>9 DEF Sorted
  <2>2. CASE kind \in Repeating
    BY <1>1, <2>1, <2>2 DEF Slice, StoredTwice
  <2>3. CASE kind \notin Repeating
    <3>1. Rising(s)
      BY <1>1, <2>3, SliceRows
    <3>. QED BY <1>9, <3>1 DEF Rising
  <2>. QED BY <2>2, <2>3
<1>10. ASSUME kind[2] \in {"customer", "delegation"}, c = 0 \/ MoreAfter(c), NEW i \in ToSet(page.items)
       PROVE  i > c \/ (i = c /\ StoredTwice(c))
  <2>1. PICK j \in (k + 1) .. m : s[j] = i
    BY <1>3 DEF Run
  <2>2. j \in 1 .. Len(s) /\ j > k
    BY <1>3, <1>6, <2>1 DEF Run
  <2>3. CASE c = 0
    BY <1>6, <2>1, <2>2, <2>3
  <2>4. CASE c # 0
    <3>1. c \in ToSet(s) /\ (StoredTwice(c) \/ \E h \in ToSet(s) : h > c)
      BY <1>1, <1>10, <2>4 DEF MoreAfter
    <3>2. PICK p \in 1 .. Len(s) : p = Position(s, c) /\ s[p] = c /\ \A h \in 1 .. Len(s) : s[h] = c => p <= h
      BY <3>1, PositionOf
    <3>3. p < Len(s)
      <4>1. CASE StoredTwice(c)
        <5>1. s = rows
          BY <1>1, <4>1, CopiesKept DEF Slice
        <5>2. PICK g \in 1 .. Len(s), h \in 1 .. Len(s) : g # h /\ s[g] = c /\ s[h] = c
          BY <4>1, <5>1 DEF StoredTwice
        <5>. QED BY <1>6, <3>2, <5>2
      <4>2. CASE \E h \in ToSet(s) : h > c
        <5>1. PICK h \in 1 .. Len(s) : s[h] > c
          BY <1>7, <4>2
        <5>. QED BY <1>1, <1>6, <3>2, <5>1 DEF Sorted
      <4>. QED BY <3>1, <4>1, <4>2
    <3>4. k = p
      BY <1>4, <1>10, <3>2, <3>3
    <3>. QED BY <1>6, <1>9, <2>1, <2>2, <3>2, <3>4
  <2>. QED BY <2>3, <2>4
<1>11. ASSUME kind[2] \in {"customer", "delegation"}, page.cursor # 0
       PROVE  MoreAfter(page.cursor)
  <2>1. m < Len(s) /\ page.cursor = s[m] /\ m > k
    BY <1>3, <1>4, <1>11 DEF Run
  <2>2. m \in 1 .. Len(s) /\ m + 1 \in 1 .. Len(s) /\ m < m + 1
    BY <1>6, <2>1
  <2>3. s[m + 1] > s[m] \/ StoredTwice(s[m])
    BY <1>6, <1>9, <2>2
  <2>. QED BY <1>1, <1>6, <2>1, <2>2, <2>3 DEF MoreAfter
<1>. QED BY <1>8, <1>10, <1>11

----------------------------------------------------------------------------
\* The memory listings in the order of insertion

InsertionKinds == {"memory"} \X {"blob", "upload"}

\* A listing goes on after the row of its cursor; from the start if it has none
\* or its row is gone.
LEMMA InsertionPages ==
    ASSUME ListTypes, kind \in InsertionKinds, NEW c \in Nat, NEW size \in PageSizes,
           NEW page, page = List(c, size)
    PROVE  /\ Answer(page)
           /\ page.out = "page" => \E m \in Nat : /\ Run(page, rows, Position(rows, c), m)
                                                  /\ Positive(size) /\ page.cursor = 0 => m = Len(rows)
<1>1. PICK s \in Seq(Ids) : s = rows
  BY DEF ListTypes
<1>2. PICK k \in Nat : k = Position(s, c) /\ k \in 0 .. Len(s) /\ Rest(From(s, k + 1), s, k)
  BY AfterPosition
<1>3. PICK rest : rest = From(s, k + 1)
  OBVIOUS
<1>4. Len(rest) \in Nat
  BY <1>2, <1>3 DEF Rest
<1>5. GivenOr(size, Default) \in Int /\ (Positive(size) => GivenOr(size, Default) > 0)
  BY Limits
<1>6. CASE kind = <<"memory", "upload">>
  <2>1. page = Sliced(rest, GivenOr(size, Default))
    BY <1>1, <1>2, <1>3, <1>6 DEF List, MemUploadList
  <2>2. /\ page.out \in {"page", "panic"} /\ (page.out = "panic" => page = Fails("panic"))
        /\ page.out = "page" => \E m \in Nat : /\ Run(page, s, k, m)
                                               /\ Positive(size) /\ page.cursor = 0 => m = Len(s)
    BY <1>2, <1>3, <1>5, <2>1, SlicedRuns
  <2>. QED BY <1>1, <1>2, <2>2 DEF Answer
<1>7. CASE kind = <<"memory", "blob">>
  <2>1. CASE page = Fails("error")
    BY <2>1 DEF Fails, Answer
  <2>2. CASE \E n \in Int : page = Cut(rest, n)
    <3>1. /\ page.out \in {"page", "panic"} /\ (page.out = "panic" => page = Fails("panic"))
          /\ page.out = "page" => \E m \in Nat : Run(page, s, k, m) /\ (page.cursor = 0 => m = Len(s))
      BY <1>2, <1>3, <2>2, CutRuns
    <3>. QED BY <1>1, <1>2, <3>1 DEF Answer
  <2>3. PageOf(rest, 0) = Cut(rest, Len(rest))
    BY <1>4 DEF Cut
  <2>4. size.n \in Int
    BY DEF PageSizes
  <2>5. page = MemBlobList(c, size)
    BY <1>7 DEF List
  <2>6. page \in {Fails("error"), Cut(rest, size.n), PageOf(rest, 0)}
    BY <1>1, <1>2, <1>3, <2>5 DEF MemBlobList
  <2>. QED BY <1>4, <2>1, <2>2, <2>3, <2>4, <2>6
<1>. QED BY <1>6, <1>7 DEF InsertionKinds

----------------------------------------------------------------------------
\* The memory listings that count

CountedKinds == {"memory"} \X {"consumer", "subscription"}

\* The rows in the order in which they are counted.
CountedRows == IF kind[2] = "consumer" THEN rows ELSE Ascending

LEMMA CountedRowsOK ==
    ASSUME ListTypes
    PROVE  /\ CountedRows \in Seq(Ids) /\ ToSet(CountedRows) = ToSet(rows)
           /\ kind \in CountedKinds => Distinct(CountedRows)
BY AscendingRows, RisingDistinct DEF CountedRows, CountedKinds, Repeating, ListTypes

\* The page holds the rows from the one after the k-th to the m-th of s, and its
\* cursor is m, or 0 when there are no more.
CountedRun(page, s, k, m) ==
    /\ m \in k .. Len(s)
    /\ ToSet(page.items) = {s[j] : j \in (k + 1) .. m}
    /\ page.items = <<>> <=> m = k
    /\ (page.cursor = 0 /\ m = Len(s)) \/ (m > k /\ page.cursor = m)

LEMMA CountedPages ==
    ASSUME ListTypes, kind \in CountedKinds, NEW c \in Nat, NEW size \in PageSizes,
           NEW page, page = List(c, size)
    PROVE  /\ Answer(page)
           /\ page.out = "page" => c <= Len(CountedRows) /\ \E m \in Nat : CountedRun(page, CountedRows, c, m)
<1>1. PICK s \in Seq(Ids) : s = CountedRows /\ Distinct(s)
  BY CountedRowsOK
<1>2. PICK n \in Int : n = GivenOr(size, Default)
  BY Limits
<1>3. page = Counted(s, c, n)
  BY <1>1, <1>2 DEF List, CountedKinds, CountedRows, MemConsumerList, MemSubscriptionList
<1>4. Len(s) \in Nat
  OBVIOUS
<1>5. CASE c > Len(s)
  BY <1>3, <1>5 DEF Counted, Fails, Answer
<1>6. CASE ~(c > Len(s))
  <2>1. c \in 0 .. Len(s)
    BY <1>4, <1>6
  <2>2. PICK rest : rest = From(s, c + 1) /\ Rest(rest, s, c)
    BY <2>1, FromRest
  <2>3. PICK p : p = Cut(rest, n)
    OBVIOUS
  <2>4. page = IF p.cursor = 0 THEN p ELSE [p EXCEPT !.cursor = Position(s, p.cursor)]
    BY <1>3, <1>6, <2>2, <2>3 DEF Counted
  <2>5. /\ p.out \in {"page", "panic"} /\ (p.out = "panic" => p = Fails("panic"))
        /\ p.out = "page" =>
              \E m \in Nat : Run(p, s, c, m) /\ (IF p.cursor = 0 THEN m = Len(s) ELSE m < Len(s))
    BY <2>2, <2>3, CutRuns
  <2>6. CASE p.out = "panic"
    BY <2>4, <2>5, <2>6 DEF Fails, Answer
  <2>7. CASE p.out = "page"
    <3>1. PICK m \in Nat : Run(p, s, c, m) /\ (IF p.cursor = 0 THEN m = Len(s) ELSE m < Len(s))
      BY <2>5, <2>7
    <3>2. CASE p.cursor = 0
      <4>1. page = p
        BY <2>4, <3>2
      <4>2. CountedRun(page, s, c, m)
        BY <3>1, <3>2, <4>1 DEF Run, CountedRun
      <4>. QED BY <1>1, <2>1, <2>7, <4>1, <4>2 DEF Answer
    <3>3. CASE p.cursor # 0
      <4>1. m > c /\ p.cursor = s[m] /\ m \in 1 .. Len(s)
        BY <2>1, <3>1, <3>3 DEF Run
      <4>2. Position(s, p.cursor) = m
        <5>1. s[m] \in ToSet(s)
          BY <4>1, MembersOf
        <5>2. Position(s, s[m]) \in 1 .. Len(s) /\ s[Position(s, s[m])] = s[m]
          BY <5>1, PositionOf
        <5>. QED BY <1>1, <4>1, <5>2 DEF Distinct
      <4>3. \E f, g : p = [out |-> "page", items |-> f, cursor |-> g]
        BY <2>3, <2>7 DEF Cut, PageOf, Fails
      <4>4. page.out = "page" /\ page.items = p.items /\ page.cursor = m
        BY <2>4, <3>3, <4>2, <4>3
      <4>5. CountedRun(page, s, c, m)
        BY <3>1, <4>1, <4>4 DEF Run, CountedRun
      <4>. QED BY <1>1, <2>1, <4>4, <4>5 DEF Answer
    <3>. QED BY <3>2, <3>3
  <2>. QED BY <2>5, <2>6, <2>7
<1>. QED BY <1>5, <1>6

----------------------------------------------------------------------------
\* The invariant

\* How far a listing with cursor c has come: it has passed the row i.
PassedAt(i, c) ==
    IF kind \in InsertionKinds
    THEN \E j, k \in 1 .. Len(rows) : j <= k /\ rows[j] = i /\ rows[k] = c
    ELSE IF kind \in CountedKinds
    THEN \E j \in 1 .. Len(CountedRows) : j <= c /\ CountedRows[j] = i
    ELSE i <= c

\* The listings that NothingMissed speaks of.
Fair == Positive(lister.size) /\ (CameBack => kind \notin InsertionKinds)

\* A row that stays, and that the listing has passed, was returned.
Covered ==
    lister.pc = "paging" /\ Fair => \A i \in steady : PassedAt(i, lister.cursor) => i \in lister.got

\* A cursor whose row is gone was removed while listing.
CursorKnown ==
    kind \in InsertionKinds /\ lister.cursor # 0 /\ lister.cursor \notin ToSet(rows)
        => \E m \in DOMAIN changes : lister.cursor \in changes[m]

NotBegun == lister.pc = "idle" => /\ lister.cursor = 0 /\ lister.got = {} /\ lister.twice = {}
                                  /\ lister.size = Unset

\* The listings that NoneTwice speaks of, and what they have returned: nothing
\* that they have not passed.
NoRepeats == ByKey \/ kind[2] \in {"consumer", "customer", "delegation"}

ReturnedPassed ==
    IF kind[1] = "memory" /\ kind[2] = "consumer"
    THEN /\ lister.cursor <= Len(rows)
         /\ \A i \in lister.got : \E j \in 1 .. Len(rows) : j <= lister.cursor /\ rows[j] = i
    ELSE \A i \in lister.got : i <= lister.cursor

Once ==
    NoRepeats =>
        /\ \A i \in lister.twice : StoredTwice(i)
        /\ lister.pc = "paging" => ReturnedPassed
        /\ lister.pc = "paging" /\ kind \in {"memory"} \X {"customer", "delegation"} =>
              lister.cursor = 0 \/ MoreAfter(lister.cursor)

ListInv ==
    /\ ListTypes /\ SizesKnown(lister.size) /\ NotBegun
    /\ \A i \in steady : Wanted(i)
    /\ Covered /\ CursorKnown /\ NothingMissed
    /\ Once /\ NeverFails

LEMMA ListInit == Init => ListInv
<1>. SUFFICES ASSUME Init PROVE ListInv
  OBVIOUS
<1>1. PICK n \in 0 .. MaxRows : rows \in [1 .. n -> Ids]
  BY DEF Init, BoundedSeq, SeqOf
<1>2. n \in Nat
  BY ListingAssumption
<1>3. rows \in Seq(Ids) /\ Len(rows) = n
  BY <1>1, <1>2
<1>4. kind \in Repeating => Sorted(rows)
  BY DEF Init, Repeating
<1>5. kind \notin Repeating => Distinct(rows)
  <2>1. SUFFICES ASSUME kind \notin Repeating, NEW j \in 1 .. Len(rows), NEW k \in 1 .. Len(rows),
                        rows[j] = rows[k]
                 PROVE  j = k
    BY DEF Distinct
  <2>2. rows[j] \in ToSet(rows) /\ j \in DOMAIN rows /\ k \in DOMAIN rows
    BY <1>3, MembersOf
  <2>3. ~StoredTwice(rows[j])
    BY <2>1, <2>2 DEF Init
  <2>. QED BY <2>1, <2>2, <2>3 DEF StoredTwice
<1>6. /\ lister.pc = "idle" /\ lister.size = Unset /\ lister.cursor = 0
      /\ lister.got = {} /\ lister.twice = {} /\ lister \in Lister
  BY DEF Init, Unset, Lister, PageSizes
<1>7. ListTypes
  BY <1>3, <1>4, <1>5, <1>6 DEF Init, ListTypes
<1>8. SizesKnown(lister.size) /\ NotBegun
  BY <1>6 DEF SizesKnown, NotBegun, Unset
<1>9. Covered /\ CursorKnown /\ NothingMissed /\ Once /\ NeverFails
  BY <1>6 DEF Covered, CursorKnown, NothingMissed, Once, NeverFails
<1>. QED BY <1>7, <1>8, <1>9 DEF ListInv, Init

\* A row is added, and is new where no copies are kept.
Grows(i) == Added(i) /\ (kind \notin Repeating => i \notin ToSet(rows))

\* The rows of these tables can be removed.
Shrinking == kind[2] \in {"upload", "blob", "provider", "shard"}

LEMMA ListSteps ==
    ASSUME ListInv, Next
    PROVE  \/ \E size \in PageSizes : SizesKnown(size) /\ Begin(size)
           \/ NextPage
           \/ \E i \in Ids : Grows(i)
           \/ \E is \in SUBSET Ids : Shrinking /\ Removed(is)
<1>1. Unset \in PageSizes /\ SizesKnown(Unset)
  BY DEF Unset, PageSizes, SizesKnown
<1>2. CASE BeginCollect \/ AdminProviderList
  BY <1>1, <1>2 DEF BeginCollect, AdminProviderList
<1>3. ASSUME NEW n \in Sizes, BlobList(n) \/ UploadList(n) \/ UploadShardList(n)
      PROVE  \E size \in PageSizes : SizesKnown(size) /\ Begin(size)
  <2>1. [set |-> TRUE, n |-> n] \in PageSizes
    BY ListingAssumption DEF PageSizes
  <2>2. SizesKnown([set |-> TRUE, n |-> n]) /\ Begin([set |-> TRUE, n |-> n])
    BY <1>3 DEF BlobList, UploadList, UploadShardList, SizesKnown
  <2>. QED BY <2>1, <2>2
<1>4. ASSUME NEW i \in Ids, RemoveRow(i) PROVE \E is \in SUBSET Ids : Shrinking /\ Removed(is)
  <2>1. {i} \in SUBSET Ids /\ Shrinking /\ Removed({i})
    BY <1>4 DEF RemoveRow, Shrinking
  <2>. QED BY <2>1
<1>5. ASSUME RemoveShards PROVE \E is \in SUBSET Ids : Shrinking /\ Removed(is)
  <2>1. ToSet(rows) \in SUBSET Ids
    BY MembersOf DEF ListInv, ListTypes
  <2>. QED BY <1>5, <2>1 DEF RemoveShards, Shrinking
<1>6. ASSUME NEW i \in Ids, Insert(i) \/ PutMany(i) PROVE Grows(i)
  BY <1>6 DEF Insert, PutMany, Grows, Repeating
<1>. QED BY <1>2, <1>3, <1>4, <1>5, <1>6 DEF Next

LEMMA BeginStep ==
    ASSUME ListInv, NEW size \in PageSizes, SizesKnown(size), Begin(size)
    PROVE  ListInv'
<1>1. /\ lister.pc = "idle" /\ lister.cursor = 0 /\ lister.got = {} /\ lister.twice = {}
      /\ lister \in Lister /\ ListTypes
  BY DEF ListInv, Begin, NotBegun, ListTypes
<1>2. kind' = kind /\ rows' = rows /\ changes' = changes /\ steady' = {i \in ToSet(rows) : Wanted(i)}
  BY DEF Begin
<1>3. /\ lister'.pc = "paging" /\ lister'.size = size /\ lister'.cursor = 0
      /\ lister'.got = {} /\ lister'.twice = {} /\ lister' \in Lister
  BY <1>1 DEF Begin, Lister
<1>4. ListTypes'
  BY <1>1, <1>2, <1>3 DEF ListTypes, Distinct, Sorted
<1>5. SizesKnown(lister.size)' /\ NotBegun'
  BY <1>2, <1>3 DEF SizesKnown, NotBegun
<1>6. \A i \in steady' : Wanted(i)'
  BY <1>2 DEF Wanted
<1>7. \A i \in steady' : ~ PassedAt(i, 0)'
  <2>1. \A i \in ToSet(rows) : i \in Nat /\ i > 0
    BY <1>1, RowNumbers
  <2>2. Len(rows) \in Nat /\ \A k \in 1 .. Len(rows) : rows[k] # 0
    BY <1>1, <2>1, MembersOf DEF ListTypes
  <2>3. CountedRows \in Seq(Ids) /\ Len(CountedRows) \in Nat /\ CountedRows' = CountedRows
    BY <1>1, <1>2, CountedRowsOK DEF CountedRows, Ascending
  <2>. QED BY <1>2, <2>1, <2>2, <2>3 DEF PassedAt
<1>8. Covered'
  BY <1>3, <1>7 DEF Covered
<1>9. Once'
  <2>1. Len(rows') \in Nat
    BY <1>4 DEF ListTypes
  <2>. QED BY <1>3, <2>1 DEF Once, ReturnedPassed
<1>10. CursorKnown' /\ NothingMissed' /\ NeverFails'
  BY <1>3 DEF CursorKnown, NothingMissed, NeverFails
<1>. QED BY <1>4, <1>5, <1>6, <1>8, <1>9, <1>10 DEF ListInv

----------------------------------------------------------------------------
\* A page

Ends(page) == page.cursor = 0 \/ page.items = <<>>

\* The page takes a listing at cursor c on to its own cursor, or to the end,
\* and holds what is between them.
Advances(page, c, ok) ==
    /\ ToSet(page.items) \subseteq ToSet(rows) /\ page.cursor \in Nat
    /\ kind \in InsertionKinds /\ page.cursor # 0 => page.cursor \in ToSet(rows)
    /\ ok => \A i \in ToSet(rows) :
                Wanted(i) /\ (Ends(page) \/ PassedAt(i, page.cursor)) =>
                    i \in ToSet(page.items) \/ PassedAt(i, c)

LEMMA FamiliesApart ==
    ASSUME ListTypes
    PROVE  /\ kind \in InsertionKinds \/ kind \in CountedKinds \/ kind \in PlacedKinds \/ ByKey
           /\ kind \in PlacedKinds \/ ByKey => kind \notin InsertionKinds /\ kind \notin CountedKinds
           /\ kind \in CountedKinds => kind \notin InsertionKinds
BY DEF ListTypes, Kinds, InsertionKinds, CountedKinds, PlacedKinds, ByKey

LEMMA KeyedAdvances ==
    ASSUME ListTypes, kind \notin InsertionKinds, kind \notin CountedKinds,
           NEW c \in Nat, NEW page, NEW ok \in BOOLEAN, KeyedPage(page, c, ok)
    PROVE  Advances(page, c, ok)
<1>1. \A i \in ToSet(rows) : i \in Nat
  BY RowNumbers
<1>2. page.cursor \in Nat
  BY <1>1 DEF KeyedPage
<1>3. ASSUME ok, NEW i \in ToSet(rows), Wanted(i), Ends(page) \/ PassedAt(i, page.cursor)
      PROVE  i \in ToSet(page.items) \/ PassedAt(i, c)
  <2>1. page.cursor = 0 \/ i <= page.cursor
    BY <1>3 DEF Ends, KeyedPage, PassedAt
  <2>2. i > c => i \in ToSet(page.items) \/ (page.cursor # 0 /\ i > page.cursor)
    BY <1>3 DEF KeyedPage
  <2>. QED BY <1>1, <1>2, <2>1, <2>2 DEF PassedAt
<1>4. ToSet(page.items) \subseteq ToSet(rows)
  BY DEF KeyedPage
<1>. QED BY <1>2, <1>3, <1>4 DEF Advances

LEMMA InsertionAdvances ==
    ASSUME ListTypes, kind \in InsertionKinds,
           NEW c \in Nat, NEW page, NEW ok \in BOOLEAN, NEW m \in Nat,
           Run(page, rows, Position(rows, c), m), ok /\ page.cursor = 0 => m = Len(rows)
    PROVE  Advances(page, c, ok)
<1>1. rows \in Seq(Ids) /\ Distinct(rows) /\ Len(rows) \in Nat
  BY DEF ListTypes, InsertionKinds, Repeating
<1>2. PICK k \in Nat : k = Position(rows, c) /\ k \in 0 .. Len(rows) /\ (k # 0 => rows[k] = c)
  BY <1>1, PositionOf
<1>3. /\ k <= m /\ m <= Len(rows) /\ ToSet(page.items) = {rows[j] : j \in (k + 1) .. m}
      /\ page.items = <<>> <=> m = k
      /\ page.cursor = 0 \/ (m > k /\ page.cursor = rows[m])
  BY <1>2 DEF Run
<1>4. \A j \in 1 .. Len(rows) : rows[j] \in ToSet(rows) /\ rows[j] \in Nat
  BY <1>1, MembersOf, RowNumbers
<1>5. ToSet(page.items) \subseteq ToSet(rows)
  BY <1>1, <1>3, <1>4
<1>6. page.cursor \in Nat /\ (page.cursor # 0 => page.cursor \in ToSet(rows) /\ m \in 1 .. Len(rows))
  BY <1>1, <1>3, <1>4
<1>7. ASSUME ok, NEW i \in ToSet(rows), Ends(page) \/ PassedAt(i, page.cursor)
      PROVE  i \in ToSet(page.items) \/ PassedAt(i, c)
  <2>1. PICK j \in 1 .. Len(rows) : rows[j] = i
    BY <1>1, MembersOf
  <2>2. j <= m
    <3>1. CASE page.cursor = 0
      BY <1>7, <3>1
    <3>2. CASE page.cursor # 0
      <4>1. page.items # <<>>
        BY <1>2, <1>3, <3>2
      <4>2. PICK g \in 1 .. Len(rows), h \in 1 .. Len(rows) : g <= h /\ rows[g] = i /\ rows[h] = page.cursor
        BY <1>7, <3>2, <4>1 DEF Ends, PassedAt
      <4>3. g = j
        BY <1>1, <2>1, <4>2 DEF Distinct
      <4>4. h = m
        BY <1>1, <1>3, <1>6, <3>2, <4>2 DEF Distinct
      <4>. QED BY <4>2, <4>3, <4>4
    <3>. QED BY <3>1, <3>2
  <2>3. CASE j <= k
    <3>1. k \in 1 .. Len(rows) /\ rows[k] = c
      BY <1>2, <2>1, <2>3
    <3>. QED BY <2>1, <2>3, <3>1 DEF PassedAt
  <2>4. CASE ~(j <= k)
    <3>1. j \in (k + 1) .. m
      BY <1>2, <2>2, <2>4
    <3>. QED BY <1>3, <2>1, <3>1
  <2>. QED BY <2>3, <2>4
<1>. QED BY <1>5, <1>6, <1>7 DEF Advances

LEMMA CountedAdvances ==
    ASSUME ListTypes, kind \in CountedKinds,
           NEW c \in Nat, NEW page, NEW ok \in BOOLEAN, NEW m \in Nat,
           CountedRun(page, CountedRows, c, m)
    PROVE  Advances(page, c, ok)
<1>1. PICK s \in Seq(Ids) : s = CountedRows /\ Distinct(s) /\ ToSet(s) = ToSet(rows)
  BY CountedRowsOK
<1>2. Len(s) \in Nat /\ (\A i \in ToSet(s) : \E j \in 1 .. Len(s) : s[j] = i)
      /\ \A j \in 1 .. Len(s) : s[j] \in ToSet(s)
  BY MembersOf
<1>3. /\ c <= m /\ m <= Len(s) /\ ToSet(page.items) = {s[j] : j \in (c + 1) .. m}
      /\ page.items = <<>> <=> m = c
      /\ (page.cursor = 0 /\ m = Len(s)) \/ (m > c /\ page.cursor = m)
  BY <1>1 DEF CountedRun
<1>4. kind \notin InsertionKinds /\ page.cursor \in Nat
  BY <1>3 DEF CountedKinds, InsertionKinds
<1>5. ToSet(page.items) \subseteq ToSet(rows)
  BY <1>1, <1>2, <1>3
<1>6. ASSUME NEW i \in ToSet(rows), Ends(page) \/ PassedAt(i, page.cursor)
      PROVE  i \in ToSet(page.items) \/ PassedAt(i, c)
  <2>1. PICK j \in 1 .. Len(s) : s[j] = i /\ j <= m
    <3>1. CASE page.cursor = 0
      BY <1>1, <1>2, <1>3, <3>1
    <3>2. CASE page.cursor # 0
      <4>1. page.items # <<>> /\ page.cursor = m
        BY <1>2, <1>3, <3>2
      <4>. QED BY <1>1, <1>4, <1>6, <3>2, <4>1 DEF Ends, PassedAt
    <3>. QED BY <3>1, <3>2
  <2>2. CASE j <= c
    BY <1>1, <1>4, <2>1, <2>2 DEF PassedAt
  <2>3. CASE ~(j <= c)
    <3>1. j \in (c + 1) .. m
      BY <1>2, <2>1, <2>3
    <3>. QED BY <1>3, <2>1, <3>1
  <2>. QED BY <2>2, <2>3
<1>. QED BY <1>4, <1>5, <1>6 DEF Advances

\* Every listing goes on from its cursor and leaves nothing out.
LEMMA PagesAdvance ==
    ASSUME ListTypes, NEW c \in Nat, NEW size \in PageSizes, NEW page, page = List(c, size)
    PROVE  Answer(page) /\ (page.out = "page" => Advances(page, c, Positive(size)))
<1>1. PICK ok \in BOOLEAN : ok = Positive(size)
  BY DEF Positive
<1>2. CASE kind \in InsertionKinds
  <2>1. Answer(page)
    BY <1>2, InsertionPages
  <2>2. ASSUME page.out = "page" PROVE Advances(page, c, ok)
    <3>1. PICK m \in Nat : Run(page, rows, Position(rows, c), m) /\ (ok /\ page.cursor = 0 => m = Len(rows))
      BY <1>1, <1>2, <2>2, InsertionPages
    <3>. QED BY <1>2, <3>1, InsertionAdvances
  <2>. QED BY <1>1, <2>1, <2>2
<1>3. CASE kind \in CountedKinds
  BY <1>1, <1>3, CountedPages, CountedAdvances
<1>4. CASE kind \in PlacedKinds
  <2>1. Answer(page)
    BY <1>4, PlacedPages
  <2>2. ASSUME page.out = "page" PROVE Advances(page, c, ok)
    <3>1. KeyedPage(page, c, ok)
      BY <1>1, <1>4, <2>2, PlacedPage
    <3>. QED BY <1>4, <3>1, FamiliesApart, KeyedAdvances
  <2>. QED BY <1>1, <2>1, <2>2
<1>5. CASE ByKey
  <2>1. Answer(page)
    BY <1>5, ByKeyPage DEF Answer
  <2>2. ASSUME page.out = "page" PROVE Advances(page, c, ok)
    <3>1. KeyedPage(page, c, ok)
      BY <1>1, <1>5, <2>2, ByKeyPage
    <3>. QED BY <1>5, <3>1, FamiliesApart, KeyedAdvances
  <2>. QED BY <1>1, <2>1, <2>2
<1>. QED BY <1>2, <1>3, <1>4, <1>5, FamiliesApart

\* The listings that NeverFails speaks of get a page.
LEMMA PageGiven ==
    ASSUME ListTypes, SizesKnown(lister.size), NEW page, page = List(lister.cursor, lister.size),
           \/ kind[1] = "postgres" /\ (kind[2] = "shard" \/ lister.size.n <= MaxSlice)
           \/ kind[2] \in {"uploadDiff", "customer", "delegation"}
    PROVE  page.out = "page"
<1>1. PICK c \in Nat, size \in PageSizes : c = lister.cursor /\ size = lister.size
  BY DEF ListTypes, Lister
<1>2. page = List(c, size)
  BY <1>1
<1>3. CASE ByKey
  <2>1. MaxSlice \in Nat
    BY ListingAssumption
  <2>2. kind # <<"memory", "spaceDiff">>
    OBVIOUS
  <2>3. PICK n \in Int : /\ n > 0
                         /\ kind = <<"postgres", "shard">> \/ size.n <= MaxSlice => n <= MaxSlice \/ kind[1] = "memory"
                         /\ \/ page = Cut(InOrder(Beyond(c)), n)
                            \/ kind[1] = "postgres" /\ n > MaxSlice /\ page = Fails("panic")
    BY <1>2, <1>3, <2>2, ByKeyPages
  <2>4. page = Cut(InOrder(Beyond(c)), n)
    <3>1. kind[2] \in {"uploadDiff", "customer", "delegation"} => size.n <= MaxSlice
      BY <1>1, ListingAssumption DEF SizesKnown
    <3>2. kind[1] = "postgres" => kind = <<"postgres", "shard">> \/ size.n <= MaxSlice
      BY <1>1, <3>1 DEF ListTypes, Kinds
    <3>3. kind[1] = "postgres" => kind[1] # "memory"
      OBVIOUS
    <3>. QED BY <2>1, <2>3, <3>2, <3>3
  <2>5. InOrder(Beyond(c)) \in Seq(Ids)
    BY RowsSorted DEF Beyond
  <2>6. Rest(InOrder(Beyond(c)), InOrder(Beyond(c)), 0)
    BY <2>5, WholeRest
  <2>. QED BY <2>3, <2>4, <2>5, <2>6, CutRuns
<1>4. CASE ~ByKey
  <2>1. kind \in {"memory"} \X {"customer", "delegation"} /\ ~size.set
    BY <1>1, <1>4 DEF ByKey, ListTypes, Kinds, SizesKnown
  <2>2. page = Cut(Resume(Slice, c), Default)
    BY <1>2, <2>1 DEF List, MemCustomerList, MemDelegationList, GivenOr, Slice, Repeating
  <2>3. Default \in Int /\ Default > 0
    BY ListingAssumption
  <2>4. Slice \in Seq(Ids)
    BY SliceRows
  <2>. QED BY <2>2, <2>3, <2>4, AfterPosition, CutRuns
<1>. QED BY <1>3, <1>4

\* What the listings that NoneTwice speaks of have returned, after this page.
Fresh(page) ==
    /\ \A i \in ToSet(page.items) \cap lister.got : StoredTwice(i)
    /\ ~Ends(page) /\ kind[1] = "memory" /\ kind[2] = "consumer" =>
          /\ page.cursor <= Len(rows)
          /\ \A i \in lister.got \cup ToSet(page.items) :
                \E j \in 1 .. Len(rows) : j <= page.cursor /\ rows[j] = i
    /\ ~Ends(page) /\ ~(kind[1] = "memory" /\ kind[2] = "consumer") =>
          \A i \in lister.got \cup ToSet(page.items) : i <= page.cursor
    /\ ~Ends(page) /\ kind \in {"memory"} \X {"customer", "delegation"} => MoreAfter(page.cursor)

LEMMA KeyedFresh ==
    ASSUME ListTypes, NEW c \in Nat, NEW page, NEW ok, KeyedPage(page, c, ok),
           \A i \in ToSet(page.items) : i > c \/ (i = c /\ StoredTwice(c)),
           \A i \in lister.got : i <= c
    PROVE  /\ \A i \in ToSet(page.items) \cap lister.got : StoredTwice(i)
           /\ ~Ends(page) => \A i \in lister.got \cup ToSet(page.items) : i <= page.cursor
<1>1. /\ \A i \in lister.got : i \in Nat
      /\ \A i \in ToSet(page.items) : i \in Nat
  BY RowIds, RowNumbers DEF ListTypes, Lister, KeyedPage
<1>2. \A i \in ToSet(page.items) \cap lister.got : StoredTwice(i)
  BY <1>1
<1>3. ASSUME ~Ends(page), NEW i \in lister.got \cup ToSet(page.items) PROVE i <= page.cursor
  <2>1. page.cursor \in ToSet(page.items) /\ \A j \in ToSet(page.items) : j <= page.cursor
    BY <1>3 DEF Ends, KeyedPage
  <2>. QED BY <1>1, <2>1
<1>. QED BY <1>2, <1>3

LEMMA PageFresh ==
    ASSUME ListInv, lister.pc = "paging", NoRepeats, NEW page,
           page = List(lister.cursor, lister.size), page.out = "page"
    PROVE  Fresh(page)
<1>1. ListTypes /\ Once
  BY DEF ListInv
<1>2. PICK c \in Nat, size \in PageSizes : c = lister.cursor /\ size = lister.size
  BY <1>1 DEF ListTypes, Lister
<1>3. page = List(c, size)
  BY <1>2
<1>4. CASE kind[1] = "memory" /\ kind[2] = "consumer"
  <2>1. kind \in CountedKinds /\ CountedRows = rows
    BY <1>1, <1>4 DEF ListTypes, Kinds, CountedKinds, CountedRows
  <2>2. PICK m \in Nat : c <= Len(rows) /\ CountedRun(page, rows, c, m)
    BY <1>1, <1>3, <2>1, CountedPages
  <2>3. rows \in Seq(Ids) /\ Distinct(rows) /\ Len(rows) \in Nat
    BY <1>1, <1>4 DEF ListTypes, Repeating
  <2>4. \A i \in lister.got : \E j \in 1 .. Len(rows) : j <= c /\ rows[j] = i
    BY <1>1, <1>2, <1>4 DEF Once, ReturnedPassed
  <2>5. /\ c <= m /\ m <= Len(rows) /\ ToSet(page.items) = {rows[j] : j \in (c + 1) .. m}
        /\ (page.cursor = 0 /\ m = Len(rows)) \/ (m > c /\ page.cursor = m)
    BY <2>2, <2>3 DEF CountedRun
  <2>6. \A i \in ToSet(page.items) : \E j \in 1 .. Len(rows) : j > c /\ j <= m /\ rows[j] = i
    BY <2>3, <2>5
  <2>7. ToSet(page.items) \cap lister.got = {}
    <3>1. SUFFICES ASSUME NEW i \in ToSet(page.items), i \in lister.got PROVE FALSE
      OBVIOUS
    <3>2. PICK j \in 1 .. Len(rows) : j > c /\ rows[j] = i
      BY <2>6
    <3>3. PICK k \in 1 .. Len(rows) : k <= c /\ rows[k] = i
      BY <2>4, <3>1
    <3>. QED BY <2>3, <3>2, <3>3 DEF Distinct
  <2>8. ASSUME ~Ends(page)
        PROVE  /\ page.cursor <= Len(rows)
               /\ \A i \in lister.got \cup ToSet(page.items) :
                     \E j \in 1 .. Len(rows) : j <= page.cursor /\ rows[j] = i
    <3>1. page.cursor = m
      BY <2>5, <2>8 DEF Ends
    <3>2. \A i \in lister.got : \E j \in 1 .. Len(rows) : j <= m /\ rows[j] = i
      BY <2>3, <2>4, <2>5
    <3>. QED BY <2>3, <2>5, <2>6, <3>1, <3>2
  <2>. QED BY <1>4, <2>7, <2>8 DEF Fresh
<1>5. CASE ~(kind[1] = "memory" /\ kind[2] = "consumer")
  <2>1. \A i \in lister.got : i <= c
    BY <1>1, <1>2, <1>5 DEF Once, ReturnedPassed
  <2>2. CASE ByKey
    <3>1. KeyedPage(page, c, Positive(size)) /\ \A i \in ToSet(page.items) : i > c
      BY <1>1, <1>3, <2>2, ByKeyPage
    <3>2. kind \notin {"memory"} \X {"customer", "delegation"}
      BY <2>2 DEF ByKey
    <3>3. PICK ok : ok = Positive(size)
      OBVIOUS
    <3>4. KeyedPage(page, c, ok)
      BY <3>1, <3>3
    <3>5. /\ \A i \in ToSet(page.items) \cap lister.got : StoredTwice(i)
          /\ ~Ends(page) => \A i \in lister.got \cup ToSet(page.items) : i <= page.cursor
      BY <1>1, <2>1, <3>1, <3>4, KeyedFresh
    <3>. QED BY <1>5, <3>2, <3>5 DEF Fresh
  <2>3. CASE ~ByKey
    <3>1. kind \in {"memory"} \X {"customer", "delegation"} /\ kind \in PlacedKinds
      BY <1>1, <1>5, <2>3 DEF ByKey, NoRepeats, ListTypes, Kinds, PlacedKinds
    <3>2. c = 0 \/ MoreAfter(c)
      BY <1>1, <1>2, <3>1 DEF Once
    <3>3. PICK ok : ok = Positive(size)
      OBVIOUS
    <3>4. /\ KeyedPage(page, c, ok)
          /\ \A i \in ToSet(page.items) : i > c \/ (i = c /\ StoredTwice(c))
          /\ page.cursor # 0 => MoreAfter(page.cursor)
      BY <1>1, <1>3, <3>1, <3>2, <3>3, PlacedPage
    <3>5. /\ \A i \in ToSet(page.items) \cap lister.got : StoredTwice(i)
          /\ ~Ends(page) => \A i \in lister.got \cup ToSet(page.items) : i <= page.cursor
      BY <1>1, <2>1, <3>4, KeyedFresh
    <3>. QED BY <1>5, <3>4, <3>5 DEF Fresh, Ends
  <2>. QED BY <2>2, <2>3
<1>. QED BY <1>4, <1>5

\* What a page makes of its caller.
LEMMA Collected ==
    ASSUME ListTypes, NextPage, NEW page, page = List(lister.cursor, lister.size), Answer(page),
           ToSet(page.items) \subseteq Ids, page.cursor \in Nat
    PROVE  /\ kind' = kind /\ rows' = rows /\ steady' = steady /\ changes' = changes
           /\ lister'.size = lister.size /\ lister'.cursor = page.cursor
           /\ lister'.got = lister.got \cup ToSet(page.items)
           /\ lister'.twice = lister.twice \cup (lister.got \cap ToSet(page.items))
           /\ page.out # "page" => lister'.pc = page.out
           /\ page.out = "page" => lister'.pc = IF Ends(page) THEN "done" ELSE "paging"
           /\ lister' \in Lister
<1>1. kind' = kind /\ rows' = rows /\ steady' = steady /\ changes' = changes
  BY DEF NextPage
<1>2. lister \in Lister
  BY DEF ListTypes
<1>3. PICK pc : pc = CASE page.out # "page" -> page.out
                       [] page.out = "page" ->
                            IF page.cursor = 0 \/ page.items = <<>> THEN "done" ELSE "paging"
  OBVIOUS
<1>4. /\ page.out # "page" => pc = page.out
      /\ page.out = "page" => pc = IF Ends(page) THEN "done" ELSE "paging"
  BY <1>3 DEF Ends
<1>5. pc \in {"idle", "paging", "done", "error", "panic"}
  BY <1>4 DEF Answer
<1>6. lister' = [lister EXCEPT !.got = lister.got \cup ToSet(page.items), !.cursor = page.cursor,
                               !.twice = lister.twice \cup (lister.got \cap ToSet(page.items)),
                               !.pc = pc]
  BY <1>2, <1>3 DEF NextPage, Collect, Lister
<1>7. /\ lister'.size = lister.size /\ lister'.cursor = page.cursor /\ lister'.pc = pc
      /\ lister'.got = lister.got \cup ToSet(page.items)
      /\ lister'.twice = lister.twice \cup (lister.got \cap ToSet(page.items))
  BY <1>2, <1>6 DEF Lister
<1>8. lister' \in Lister
  BY <1>2, <1>5, <1>6 DEF Lister
<1>. QED BY <1>1, <1>4, <1>7, <1>8

LEMMA PageStep ==
    ASSUME ListInv, NextPage
    PROVE  ListInv'
<1>1. ListTypes /\ lister.pc = "paging" /\ lister.cursor \in Nat /\ lister.size \in PageSizes
  BY DEF ListInv, ListTypes, Lister, NextPage
<1>2. PICK page : page = List(lister.cursor, lister.size)
  OBVIOUS
<1>3. PICK ok \in BOOLEAN : ok = Positive(lister.size)
  BY DEF Positive
<1>4. Answer(page) /\ (page.out = "page" => Advances(page, lister.cursor, ok))
  BY <1>1, <1>2, <1>3, PagesAdvance
<1>5. page.out # "page" => ToSet(page.items) = {} /\ page.cursor = 0
  BY <1>4 DEF Answer, Fails, ToSet
<1>6. ToSet(page.items) \subseteq ToSet(rows) /\ page.cursor \in Nat
  BY <1>4, <1>5 DEF Advances
<1>7. ToSet(rows) \subseteq Ids
  BY <1>1, MembersOf DEF ListTypes
<1>8. /\ kind' = kind /\ rows' = rows /\ steady' = steady /\ changes' = changes
      /\ lister'.size = lister.size /\ lister'.cursor = page.cursor
      /\ lister'.got = lister.got \cup ToSet(page.items)
      /\ lister'.twice = lister.twice \cup (lister.got \cap ToSet(page.items))
      /\ page.out # "page" => lister'.pc = page.out
      /\ page.out = "page" => lister'.pc = IF Ends(page) THEN "done" ELSE "paging"
      /\ lister' \in Lister
  <2>1. ToSet(page.items) \subseteq Ids
    BY <1>6, <1>7
  <2>. QED BY <1>1, <1>2, <1>4, <1>6, <2>1, Collected
<1>9. ListTypes'
  BY <1>1, <1>8 DEF ListTypes, Distinct, Sorted
<1>10. lister'.pc \in {"done", "paging", "panic", "error"}
  BY <1>4, <1>8 DEF Answer
<1>11. SizesKnown(lister.size)' /\ NotBegun' /\ \A i \in steady' : Wanted(i)'
  BY <1>8, <1>10 DEF ListInv, SizesKnown, NotBegun, Wanted
<1>12. ok = Positive(lister.size)' /\ CameBack' = CameBack
  BY <1>3, <1>8 DEF Positive, CameBack
<1>13. ASSUME page.out = "page", ok, Fair, NEW i \in steady, Ends(page) \/ PassedAt(i, page.cursor)
       PROVE  i \in lister'.got
  <2>1. i \in ToSet(rows) /\ Wanted(i)
    BY <1>1 DEF ListInv, ListTypes
  <2>2. i \in ToSet(page.items) \/ PassedAt(i, lister.cursor)
    BY <1>4, <1>13, <2>1 DEF Advances
  <2>3. PassedAt(i, lister.cursor) => i \in lister.got
    BY <1>1, <1>13 DEF ListInv, Covered
  <2>. QED BY <1>8, <2>2, <2>3
<1>14. Covered'
  <2>1. SUFFICES ASSUME lister'.pc = "paging", Fair', NEW i \in steady', PassedAt(i, lister.cursor)'
                 PROVE  i \in lister'.got
    BY DEF Covered
  <2>2. page.out = "page"
    BY <1>4, <1>8, <2>1 DEF Answer
  <2>3. ok /\ Fair
    BY <1>3, <1>8, <1>12, <2>1 DEF Fair
  <2>4. PassedAt(i, page.cursor)
    BY <1>8, <2>1 DEF PassedAt, CountedRows, Ascending
  <2>. QED BY <1>8, <1>13, <2>1, <2>2, <2>3, <2>4
<1>15. NothingMissed'
  <2>1. SUFFICES ASSUME lister'.pc = "done", Positive(lister.size)', CameBack => kind \notin InsertionKinds
                 PROVE  steady' \subseteq lister'.got
    BY <1>8, <1>12 DEF NothingMissed, Positive, InsertionKinds
  <2>2. page.out = "page" /\ Ends(page)
    BY <1>4, <1>8, <2>1 DEF Answer
  <2>3. ok /\ Fair
    BY <1>3, <1>12, <2>1 DEF Fair
  <2>. QED BY <1>8, <1>13, <2>2, <2>3
<1>16. CursorKnown'
  BY <1>4, <1>5, <1>8 DEF CursorKnown, Advances
<1>17. Once'
  <2>1. SUFFICES ASSUME NoRepeats
                 PROVE  /\ \A i \in lister'.twice : StoredTwice(i)
                        /\ lister'.pc = "paging" => ReturnedPassed'
                        /\ lister'.pc = "paging" /\ kind \in {"memory"} \X {"customer", "delegation"} =>
                              MoreAfter(page.cursor)
    <3>1. NoRepeats' = NoRepeats
      BY <1>8 DEF NoRepeats, ByKey
    <3>2. MoreAfter(lister.cursor)' = MoreAfter(page.cursor)
      BY <1>8 DEF MoreAfter, StoredTwice
    <3>3. \A i : StoredTwice(i)' = StoredTwice(i)
      BY <1>8 DEF StoredTwice
    <3>. QED BY <1>8, <3>1, <3>2, <3>3 DEF Once
  <2>2. \A i \in lister.twice : StoredTwice(i)
    BY <2>1 DEF ListInv, Once
  <2>3. CASE page.out # "page"
    BY <1>4, <1>5, <1>8, <2>2, <2>3 DEF Answer
  <2>4. CASE page.out = "page"
    <3>1. Fresh(page)
      BY <1>1, <1>2, <2>1, <2>4, PageFresh
    <3>2. \A i \in lister'.twice : StoredTwice(i)
      BY <1>8, <2>2, <3>1 DEF Fresh
    <3>3. lister'.pc = "paging" => ~Ends(page)
      BY <1>8, <2>4
    <3>4. lister'.pc = "paging" => ReturnedPassed'
      BY <1>8, <3>1, <3>3 DEF Fresh, ReturnedPassed
    <3>. QED BY <3>1, <3>2, <3>3, <3>4 DEF Fresh
  <2>. QED BY <2>3, <2>4
<1>18. NeverFails'
  <2>1. SUFFICES ASSUME \/ kind[1] = "postgres" /\ (kind[2] = "shard" \/ lister.size.n <= MaxSlice)
                        \/ kind[2] \in {"uploadDiff", "customer", "delegation"}
                 PROVE  lister'.pc \notin {"error", "panic"}
    BY <1>8 DEF NeverFails
  <2>2. page.out = "page"
    BY <1>1, <1>2, <2>1, PageGiven DEF ListInv
  <2>. QED BY <1>8, <2>2
<1>. QED BY <1>9, <1>11, <1>14, <1>15, <1>16, <1>17, <1>18 DEF ListInv

----------------------------------------------------------------------------
\* Rows that come and go

LEMMA Appended ==
    ASSUME NEW A, NEW s \in Seq(A), NEW a \in A
    PROVE  /\ Append(s, a) \in Seq(A) /\ Len(s) \in Nat /\ Len(Append(s, a)) = Len(s) + 1
           /\ \A j \in 1 .. Len(s) : Append(s, a)[j] = s[j]
           /\ Append(s, a)[Len(s) + 1] = a
OBVIOUS

\* The place of a row in the order of keys does not fall when rows are added.
LEMMA PlaceGrows ==
    ASSUME NEW S \in SUBSET Ids, NEW T \in SUBSET Ids, IsFiniteSet(T), S \subseteq T, NEW p \in S,
           NEW j \in 1 .. Len(InOrder(T)), InOrder(T)[j] = p
    PROVE  \E k \in 1 .. Len(InOrder(S)) : k <= j /\ InOrder(S)[k] = p
<1>1. S \in SUBSET Int /\ T \in SUBSET Int /\ IsFiniteSet(S)
  BY RowIds, FS_Subset
<1>2. Len(InOrder(T)) = Cardinality(T) /\ Rank(p, T) = j - 1
  BY <1>1, InOrderMembers
<1>3. PICK k \in 1 .. Cardinality(S) : InOrder(S)[k] = p
  BY <1>1, InOrderMembers
<1>4. Len(InOrder(S)) = Cardinality(S) /\ Rank(p, S) = k - 1
  BY <1>1, <1>3, InOrderMembers
<1>5. PICK X, Y : X = {q \in S : q < p} /\ Y = {q \in T : q < p}
  OBVIOUS
<1>6. IsFiniteSet(Y) /\ X \in SUBSET Y
  BY <1>5, FS_Subset
<1>7. Cardinality(X) <= Cardinality(Y)
  BY <1>6, FS_Subset
<1>8. Rank(p, S) <= Rank(p, T)
  BY <1>5, <1>7 DEF Rank
<1>9. k <= j
  BY <1>2, <1>3, <1>4, <1>8
<1>. QED BY <1>3, <1>4, <1>9

\* A row that came back stays one that did.
LEMMA ChangesGrow ==
    ASSUME changes \in Seq(SUBSET Ids), NEW is \in SUBSET Ids, changes' = Append(changes, is)
    PROVE  /\ changes' \in Seq(SUBSET Ids)
           /\ CameBack => CameBack'
           /\ \A x : (\E m \in DOMAIN changes : x \in changes[m]) => \E m \in DOMAIN changes' : x \in changes'[m]
           /\ \A x \in is : \E m \in DOMAIN changes' : x \in changes'[m]
           /\ \A x \in is : (\E m \in DOMAIN changes : x \in changes[m]) => CameBack'
<1>1. /\ changes' \in Seq(SUBSET Ids) /\ Len(changes) \in Nat
      /\ DOMAIN changes = 1 .. Len(changes) /\ DOMAIN changes' = 1 .. Len(changes) + 1
      /\ \A j \in 1 .. Len(changes) : changes'[j] = changes[j]
      /\ changes'[Len(changes) + 1] = is
  <2>1. /\ Append(changes, is) \in Seq(SUBSET Ids) /\ Len(changes) \in Nat
        /\ Len(Append(changes, is)) = Len(changes) + 1
        /\ \A j \in 1 .. Len(changes) : Append(changes, is)[j] = changes[j]
        /\ Append(changes, is)[Len(changes) + 1] = is
    BY Appended
  <2>. QED BY <2>1
<1>2. DOMAIN changes \subseteq DOMAIN changes' /\ Len(changes) + 1 \in DOMAIN changes'
  BY <1>1
<1>3. \A j \in DOMAIN changes : changes'[j] = changes[j] /\ j # Len(changes) + 1
  BY <1>1
<1>4. CameBack => CameBack'
  <2>1. ASSUME NEW m \in DOMAIN changes, NEW n \in DOMAIN changes, m # n, changes[m] \cap changes[n] # {}
        PROVE  CameBack'
    <3>1. m \in DOMAIN changes' /\ n \in DOMAIN changes' /\ changes'[m] \cap changes'[n] # {}
      BY <1>2, <1>3, <2>1
    <3>. QED BY <2>1, <3>1 DEF CameBack
  <2>. QED BY <2>1 DEF CameBack
<1>5. ASSUME NEW x \in is, NEW m \in DOMAIN changes, x \in changes[m] PROVE CameBack'
  <2>1. PICK n : n = Len(changes) + 1
    OBVIOUS
  <2>2. n \in DOMAIN changes' /\ changes'[n] = is /\ m \in DOMAIN changes' /\ changes'[m] = changes[m] /\ m # n
    BY <1>1, <1>2, <1>3, <2>1
  <2>3. changes'[m] \cap changes'[n] # {}
    BY <1>5, <2>2
  <2>. QED BY <2>2, <2>3 DEF CameBack
<1>6. \A x : (\E m \in DOMAIN changes : x \in changes[m]) => \E m \in DOMAIN changes' : x \in changes'[m]
  BY <1>2, <1>3
<1>7. \A x \in is : \E m \in DOMAIN changes' : x \in changes'[m]
  BY <1>1, <1>2
<1>. QED BY <1>1, <1>4, <1>5, <1>6, <1>7

\* t is s with i put in at p.
PutIn(t, s, p, i) ==
    /\ p \in 1 .. Len(s) + 1 /\ t \in Seq(Ids) /\ Len(t) = Len(s) + 1 /\ t[p] = i
    /\ \A j \in 1 .. Len(s) : IF j < p THEN t[j] = s[j] ELSE t[j + 1] = s[j]

LEMMA AppendPutsIn ==
    ASSUME NEW s \in Seq(Ids), NEW i \in Ids
    PROVE  PutIn(Append(s, i), s, Len(s) + 1, i)
<1>1. /\ Append(s, i) \in Seq(Ids) /\ Len(s) \in Nat /\ Len(Append(s, i)) = Len(s) + 1
      /\ \A j \in 1 .. Len(s) : Append(s, i)[j] = s[j]
      /\ Append(s, i)[Len(s) + 1] = i
  BY Appended
<1>. QED BY <1>1 DEF PutIn

LEMMA InsertAtPutsIn ==
    ASSUME NEW s \in Seq(Ids), NEW p \in 1 .. Len(s) + 1, NEW i \in Ids
    PROVE  PutIn(InsertAt(s, p, i), s, p, i)
<1>1. PICK n \in Nat : n = Len(s) /\ p \in 1 .. n + 1
  OBVIOUS
<1>2. PICK a \in Seq(Ids), b \in Seq(Ids), c \in Seq(Ids) :
         a = SubSeq(s, 1, p - 1) /\ b = <<i>> /\ c = SubSeq(s, p, n)
  <2>1. SubSeq(s, 1, p - 1) \in Seq(Ids) /\ SubSeq(s, p, n) \in Seq(Ids) /\ <<i>> \in Seq(Ids)
    BY <1>1
  <2>. QED BY <2>1
<1>3. Len(a) = p - 1 /\ \A j \in 1 .. p - 1 : a[j] = s[j]
  BY <1>1, <1>2
<1>4. Len(c) = n - p + 1 /\ \A j \in 1 .. n - p + 1 : c[j] = s[p + j - 1]
  BY <1>1, <1>2
<1>5. Len(b) = 1 /\ b[1] = i
  BY <1>2
<1>6. PICK d \in Seq(Ids) : d = a \o b
  BY Concatenation
<1>7. Len(d) = p /\ (\A j \in 1 .. p - 1 : d[j] = s[j]) /\ d[p] = i
  <2>1. /\ Len(d) = Len(a) + Len(b) /\ (\A j \in 1 .. Len(a) : d[j] = a[j])
        /\ \A j \in 1 .. Len(b) : d[Len(a) + j] = b[j]
    BY <1>6, Concatenation
  <2>2. 1 \in 1 .. Len(b) /\ Len(a) + 1 = p /\ Len(a) + Len(b) = p
    BY <1>1, <1>3, <1>5
  <2>. QED BY <1>3, <1>5, <2>1, <2>2
<1>8. PICK t \in Seq(Ids) : t = d \o c
  BY Concatenation
<1>9. /\ Len(t) = Len(d) + Len(c) /\ (\A j \in 1 .. Len(d) : t[j] = d[j])
      /\ \A j \in 1 .. Len(c) : t[Len(d) + j] = c[j]
  BY <1>8, Concatenation
<1>10. Len(t) = n + 1 /\ t[p] = i
  <2>1. p \in 1 .. Len(d)
    BY <1>1, <1>7
  <2>2. t[p] = d[p]
    BY <1>9, <2>1
  <2>3. Len(t) = p + (n - p + 1)
    BY <1>4, <1>7, <1>9
  <2>4. p + (n - p + 1) = n + 1
    BY <1>1
  <2>. QED BY <1>7, <2>2, <2>3, <2>4
<1>11. ASSUME NEW j \in 1 .. n PROVE IF j < p THEN t[j] = s[j] ELSE t[j + 1] = s[j]
  <2>1. CASE j < p
    <3>1. j \in 1 .. p - 1 /\ j \in 1 .. Len(d)
      BY <1>1, <1>7, <2>1
    <3>. QED BY <1>7, <1>9, <2>1, <3>1
  <2>2. CASE ~(j < p)
    <3>1. PICK g \in 1 .. n - p + 1 : g = j - p + 1
      BY <1>1, <2>2
    <3>2. g \in 1 .. Len(c) /\ Len(d) + g = j + 1 /\ p + g - 1 = j
      BY <1>1, <1>4, <1>7, <3>1
    <3>3. t[j + 1] = c[g] /\ c[g] = s[j]
      BY <1>4, <1>9, <3>1, <3>2
    <3>. QED BY <2>2, <3>3
  <2>. QED BY <2>1, <2>2
<1>12. InsertAt(s, p, i) = t
  BY <1>1, <1>2, <1>6, <1>8 DEF InsertAt
<1>. QED BY <1>1, <1>10, <1>11, <1>12 DEF PutIn

\* What is in a sorted sequence up to the place of i is not past i, and the rest is.
LEMMA PlaceOf ==
    ASSUME NEW s \in Seq(Ids), Sorted(s), NEW i \in Ids
    PROVE  /\ Place(s, i) \in 1 .. Len(s) + 1
           /\ \A j \in 1 .. Len(s) : IF j < Place(s, i) THEN s[j] <= i ELSE i < s[j]
<1>1. PICK n \in Nat : n = Len(s)
  OBVIOUS
<1>2. PICK T : T = {k \in 1 .. n + 1 : k <= n => s[k] > i}
  OBVIOUS
<1>3. T \in SUBSET Nat /\ T # {}
  <2>1. n + 1 \in T
    BY <1>1, <1>2
  <2>2. 1 .. n + 1 \in SUBSET Nat
    OBVIOUS
  <2>3. T \in SUBSET (1 .. n + 1)
    BY <1>2
  <2>. QED BY <2>1, <2>2, <2>3
<1>4. \E k \in T : \A m \in T : k <= m
  BY <1>3, LeastMember
<1>5. PICK p \in T : p = Min(T) /\ \A m \in T : p <= m
  BY <1>4 DEF Min
<1>6. Place(s, i) = p
  BY <1>1, <1>2, <1>5 DEF Place
<1>7. i \in Int /\ \A j \in 1 .. n : s[j] \in Int
  BY <1>1, RowIds, RowIntegers
<1>8. ASSUME NEW j \in 1 .. n PROVE IF j < p THEN s[j] <= i ELSE i < s[j]
  <2>1. CASE j < p
    <3>1. j \notin T
      BY <1>2, <1>5, <2>1
    <3>. QED BY <1>2, <1>7, <2>1, <3>1
  <2>2. CASE ~(j < p)
    <3>1. p \in 1 .. n /\ s[p] > i
      BY <1>1, <1>2, <2>2
    <3>2. s[p] <= s[j]
      BY <1>1, <1>7, <2>2, <3>1 DEF Sorted
    <3>. QED BY <1>7, <2>2, <3>1, <3>2
  <2>. QED BY <2>1, <2>2
<1>. QED BY <1>1, <1>2, <1>6, <1>8

LEMMA PutInSorted ==
    ASSUME NEW s \in Seq(Ids), NEW t, NEW p, NEW i \in Ids, PutIn(t, s, p, i), Sorted(s),
           \A j \in 1 .. Len(s) : IF j < p THEN s[j] <= i ELSE i < s[j]
    PROVE  Sorted(t)
<1>1. PICK n \in Nat : n = Len(s) /\ p \in 1 .. n + 1 /\ Len(t) = n + 1 /\ t \in Seq(Ids)
  BY DEF PutIn
<1>2. i \in Int /\ \A j \in 1 .. n : s[j] \in Int
  BY <1>1, RowIds, RowIntegers
<1>3. SUFFICES ASSUME NEW j \in 1 .. n + 1, NEW k \in 1 .. n + 1, j < k PROVE t[j] <= t[k]
  BY <1>1 DEF Sorted
<1>4. \A g \in 1 .. p - 1 : g \in 1 .. n /\ t[g] = s[g] /\ s[g] <= i
  BY <1>1 DEF PutIn
<1>5. ASSUME NEW g \in p + 1 .. n + 1 PROVE g - 1 \in 1 .. n /\ t[g] = s[g - 1] /\ i < s[g - 1]
  <2>1. g - 1 \in 1 .. n /\ ~(g - 1 < p) /\ (g - 1) + 1 = g
    BY <1>1
  <2>2. t[(g - 1) + 1] = s[g - 1]
    BY <1>1, <2>1 DEF PutIn
  <2>. QED BY <1>1, <2>1, <2>2
<1>6. t[p] = i
  BY DEF PutIn
<1>7. CASE k < p
  <2>1. j \in 1 .. p - 1 /\ k \in 1 .. p - 1
    BY <1>1, <1>3, <1>7
  <2>. QED BY <1>1, <1>3, <1>4, <2>1 DEF Sorted
<1>8. CASE k = p
  <2>1. j \in 1 .. p - 1
    BY <1>1, <1>3, <1>8
  <2>. QED BY <1>4, <1>6, <1>8, <2>1
<1>9. CASE k > p
  <2>1. k \in p + 1 .. n + 1
    BY <1>1, <1>9
  <2>2. k - 1 \in 1 .. n /\ t[k] = s[k - 1] /\ i < s[k - 1]
    BY <1>5, <2>1
  <2>3. CASE j < p
    <3>1. j \in 1 .. p - 1 /\ j < k - 1
      BY <1>1, <1>9, <2>3
    <3>. QED BY <1>1, <1>4, <2>2, <3>1 DEF Sorted
  <2>4. CASE j = p
    BY <1>2, <1>6, <2>2, <2>4
  <2>5. CASE j > p
    <3>1. j \in p + 1 .. n + 1 /\ j - 1 < k - 1
      BY <1>1, <1>3, <2>5
    <3>2. j - 1 \in 1 .. n /\ t[j] = s[j - 1]
      BY <1>5, <3>1
    <3>. QED BY <1>1, <2>2, <3>1, <3>2 DEF Sorted
  <2>. QED BY <1>1, <2>3, <2>4, <2>5
<1>. QED BY <1>1, <1>7, <1>8, <1>9

\* What an added row leaves as it was.
LEMMA Grown ==
    ASSUME ListTypes, NEW i \in Ids, Grows(i)
    PROVE  /\ rows' \in Seq(Ids) /\ Len(rows') = Len(rows) + 1
           /\ ToSet(rows') = ToSet(rows) \cup {i}
           /\ \A h : StoredTwice(h) => StoredTwice(h)'
           /\ IF kind \in Repeating THEN Sorted(rows') ELSE Distinct(rows')
<1>1. PICK s \in Seq(Ids), n \in Nat : s = rows /\ n = Len(s) /\ DOMAIN s = 1 .. n
  BY DEF ListTypes
<1>2. PICK p : PutIn(rows', s, p, i) /\ (kind \in Repeating => Sorted(rows'))
  <2>1. CASE kind \in Repeating
    <3>1. Sorted(s) /\ rows' = InsertAt(s, Place(s, i), i)
      BY <1>1, <2>1 DEF ListTypes, Grows, Added
    <3>2. PICK p \in 1 .. Len(s) + 1 : /\ p = Place(s, i)
                                       /\ \A j \in 1 .. Len(s) : IF j < p THEN s[j] <= i ELSE i < s[j]
      BY <3>1, PlaceOf
    <3>3. PutIn(rows', s, p, i)
      BY <3>1, <3>2, InsertAtPutsIn
    <3>4. PICK t : t = rows'
      OBVIOUS
    <3>5. Sorted(t)
      BY <3>1, <3>2, <3>3, <3>4, PutInSorted
    <3>. QED BY <3>3, <3>4, <3>5
  <2>2. CASE kind \notin Repeating
    BY <1>1, <2>2, AppendPutsIn DEF Grows, Added
  <2>. QED BY <2>1, <2>2
<1>3. PICK t \in Seq(Ids) : t = rows' /\ Len(t) = n + 1 /\ DOMAIN t = 1 .. n + 1
  BY <1>1, <1>2 DEF PutIn
<1>4. PICK f \in [1 .. n -> 1 .. n + 1] : /\ \A j \in 1 .. n : f[j] = IF j < p THEN j ELSE j + 1
                                          /\ \A j \in 1 .. n : t[f[j]] = s[j] /\ f[j] # p
  <2>1. p \in 1 .. n + 1
    BY <1>1, <1>2 DEF PutIn
  <2>2. PICK f : f = [j \in 1 .. n |-> IF j < p THEN j ELSE j + 1]
    OBVIOUS
  <2>3. f \in [1 .. n -> 1 .. n + 1]
    BY <2>1, <2>2
  <2>4. ASSUME NEW j \in 1 .. n PROVE t[f[j]] = s[j] /\ f[j] # p
    BY <1>1, <1>2, <1>3, <2>1, <2>2 DEF PutIn
  <2>. QED BY <2>2, <2>3, <2>4
<1>5. \A k \in 1 .. n + 1 : k = p \/ \E j \in 1 .. n : f[j] = k
  <2>1. SUFFICES ASSUME NEW k \in 1 .. n + 1, k # p PROVE \E j \in 1 .. n : f[j] = k
    OBVIOUS
  <2>2. p \in 1 .. n + 1
    BY <1>1, <1>2 DEF PutIn
  <2>3. CASE k < p
    <3>1. k \in 1 .. n /\ f[k] = k
      BY <1>4, <2>2, <2>3
    <3>. QED BY <3>1
  <2>4. CASE ~(k < p)
    <3>1. k - 1 \in 1 .. n /\ f[k - 1] = k
      BY <1>4, <2>1, <2>2, <2>4
    <3>. QED BY <3>1
  <2>. QED BY <2>3, <2>4
<1>6. \A j, k \in 1 .. n : j # k => f[j] # f[k]
  BY <1>1, <1>2, <1>4 DEF PutIn
<1>7. p \in 1 .. n + 1 /\ t[p] = i
  BY <1>1, <1>2, <1>3 DEF PutIn
<1>8. ToSet(t) = ToSet(s) \cup {i}
  <2>1. ASSUME NEW k \in 1 .. n + 1 PROVE t[k] \in ToSet(s) \cup {i}
    <3>1. ASSUME NEW j \in 1 .. n, f[j] = k PROVE t[k] \in ToSet(s)
      BY <1>1, <1>4, <3>1 DEF ToSet
    <3>. QED BY <1>5, <1>7, <3>1
  <2>2. ASSUME NEW j \in 1 .. n PROVE s[j] \in ToSet(t)
    BY <1>3, <1>4 DEF ToSet
  <2>3. \A x \in ToSet(t) : x \in ToSet(s) \cup {i}
    BY <1>3, <2>1 DEF ToSet
  <2>4. \A x \in ToSet(s) : x \in ToSet(t)
    <3>1. \A x \in ToSet(s) : \E j \in 1 .. n : s[j] = x
      BY <1>1, MembersOf
    <3>. QED BY <2>2, <3>1
  <2>5. i \in ToSet(t)
    BY <1>3, <1>7 DEF ToSet
  <2>. QED BY <2>3, <2>4, <2>5
<1>9. ASSUME NEW h, StoredTwice(h) PROVE StoredTwice(h)'
  <2>1. PICK j \in 1 .. n, k \in 1 .. n : j # k /\ s[j] = h /\ s[k] = h
    BY <1>1, <1>9 DEF StoredTwice
  <2>2. f[j] \in DOMAIN t /\ f[k] \in DOMAIN t /\ f[j] # f[k] /\ t[f[j]] = h /\ t[f[k]] = h
    BY <1>3, <1>4, <1>6, <2>1
  <2>. QED BY <1>3, <2>2 DEF StoredTwice
<1>10. ASSUME kind \notin Repeating PROVE Distinct(t)
  <2>1. Distinct(s) /\ i \notin ToSet(s)
    BY <1>1, <1>10 DEF ListTypes, Grows
  <2>2. \A j \in 1 .. n : s[j] # i
    BY <1>1, <2>1 DEF ToSet
  <2>3. SUFFICES ASSUME NEW g \in 1 .. n + 1, NEW h \in 1 .. n + 1, t[g] = t[h] PROVE g = h
    BY <1>3 DEF Distinct
  <2>4. ASSUME NEW k \in 1 .. n + 1, t[k] = i PROVE k = p
    <3>1. \A j \in 1 .. n : f[j] = k => s[j] = i
      BY <1>4, <2>4
    <3>. QED BY <1>5, <2>2, <3>1
  <2>5. CASE g = p \/ h = p
    BY <1>7, <2>3, <2>4, <2>5
  <2>6. CASE g # p /\ h # p
    <3>1. PICK j \in 1 .. n, k \in 1 .. n : f[j] = g /\ f[k] = h
      BY <1>5, <2>6
    <3>2. s[j] = s[k]
      BY <1>4, <2>3, <3>1
    <3>. QED BY <1>1, <2>1, <3>1, <3>2 DEF Distinct
  <2>. QED BY <2>5, <2>6
<1>. QED BY <1>1, <1>2, <1>3, <1>8, <1>9, <1>10

LEMMA InsertStep ==
    ASSUME ListInv, NEW i \in Ids, Grows(i)
    PROVE  ListInv'
<1>1. /\ ListTypes /\ rows \in Seq(Ids) /\ lister \in Lister /\ steady \subseteq ToSet(rows)
      /\ kind \in Kinds
  BY DEF ListInv, ListTypes
<1>2. /\ changes' = Append(changes, {i})
      /\ kind' = kind /\ lister' = lister /\ steady' = steady /\ lister.pc = "paging"
  BY DEF Grows, Added
<1>3. PICK n \in Nat : n = Len(rows)
  BY <1>1
<1>4. kind \notin Repeating =>
         /\ i \notin ToSet(rows) /\ rows' \in Seq(Ids) /\ Len(rows') = n + 1
         /\ \A j \in 1 .. n : rows'[j] = rows[j]
         /\ rows'[n + 1] = i
  BY <1>1, <1>3, Appended DEF Grows, Added
<1>5. /\ \A j \in 1 .. n : rows[j] \in ToSet(rows)
      /\ IsFiniteSet(ToSet(rows)) /\ ToSet(rows) \subseteq Ids
  BY <1>1, <1>3, MembersOf
<1>6. kind \in InsertionKinds \/ kind \in CountedKinds => kind \notin Repeating
  BY DEF InsertionKinds, CountedKinds, Repeating
<1>7. /\ rows' \in Seq(Ids) /\ ToSet(rows') = ToSet(rows) \cup {i}
      /\ \A h : StoredTwice(h) => StoredTwice(h)'
      /\ IF kind \in Repeating THEN Sorted(rows') ELSE Distinct(rows')
  BY <1>1, Grown
<1>8. /\ changes' \in Seq(SUBSET Ids) /\ (CameBack => CameBack')
      /\ \A x : (\E m \in DOMAIN changes : x \in changes[m]) => \E m \in DOMAIN changes' : x \in changes'[m]
      /\ (\E m \in DOMAIN changes : i \in changes[m]) => CameBack'
  <2>1. {i} \in SUBSET Ids /\ i \in {i} /\ changes \in Seq(SUBSET Ids)
    BY <1>1 DEF ListTypes
  <2>2. PICK is \in SUBSET Ids : is = {i}
    BY <2>1
  <2>. QED BY <1>2, <2>1, <2>2, ChangesGrow
<1>9. ListTypes'
  BY <1>1, <1>2, <1>7, <1>8 DEF ListTypes
<1>10. SizesKnown(lister.size)' /\ NotBegun' /\ \A h \in steady' : Wanted(h)'
  BY <1>2 DEF ListInv, SizesKnown, NotBegun, Wanted
<1>11. Fair' => Fair
  BY <1>2, <1>8 DEF Fair, Positive
<1>12. ASSUME Fair', NEW h \in ToSet(rows), PassedAt(h, lister.cursor)' PROVE PassedAt(h, lister.cursor)
  <2>1. PICK c \in Nat : c = lister.cursor
    BY <1>1 DEF Lister
  <2>2. CASE kind \in InsertionKinds
    <3>1. PICK j \in 1 .. n + 1, k \in 1 .. n + 1 : j <= k /\ rows'[j] = h /\ rows'[k] = c
      BY <1>2, <1>4, <1>6, <1>12, <2>1, <2>2 DEF PassedAt
    <3>2. j # n + 1
      BY <1>4, <1>6, <1>12, <2>2, <3>1
    <3>3. k # n + 1
      <4>1. SUFFICES ASSUME k = n + 1 PROVE FALSE
        OBVIOUS
      <4>2. c = i /\ c # 0
        BY <1>4, <1>6, <2>2, <3>1, <4>1, RowIds
      <4>3. \E m \in DOMAIN changes : i \in changes[m]
        BY <1>4, <1>6, <2>1, <2>2, <4>2 DEF ListInv, CursorKnown
      <4>. QED BY <1>2, <1>8, <1>12, <2>2, <4>3 DEF Fair
    <3>4. j \in 1 .. n /\ k \in 1 .. n
      BY <3>2, <3>3
    <3>5. rows[j] = h /\ rows[k] = c
      BY <1>4, <1>6, <2>2, <3>1, <3>4
    <3>. QED BY <1>3, <2>1, <2>2, <3>1, <3>4, <3>5 DEF PassedAt
  <2>3. CASE kind \in CountedKinds
    <3>1. kind \notin InsertionKinds
      BY <1>1, <2>3, FamiliesApart
    <3>2. PICK j \in 1 .. Len(CountedRows') : j <= c /\ CountedRows'[j] = h
      BY <1>2, <1>12, <2>1, <2>3, <3>1 DEF PassedAt
    <3>3. CASE kind[2] = "consumer"
      <4>1. CountedRows = rows /\ CountedRows' = rows'
        BY <1>2, <3>3 DEF CountedRows
      <4>2. j \in 1 .. n + 1 /\ rows'[j] = h /\ j # n + 1
        BY <1>4, <1>6, <1>12, <2>3, <3>2, <4>1
      <4>3. j \in 1 .. n /\ rows[j] = h
        BY <1>4, <1>6, <2>3, <4>2
      <4>. QED BY <1>3, <2>1, <2>3, <3>1, <3>2, <4>1, <4>3 DEF PassedAt
    <3>4. CASE kind[2] # "consumer"
      <4>1. CountedRows = InOrder(ToSet(rows)) /\ CountedRows' = InOrder(ToSet(rows'))
        BY <1>2, <3>4 DEF CountedRows, Ascending
      <4>2. PICK S \in SUBSET Ids, T \in SUBSET Ids : S = ToSet(rows) /\ T = ToSet(rows')
        BY <1>5, <1>7
      <4>3. IsFiniteSet(T) /\ S \subseteq T /\ h \in S
        BY <1>5, <1>7, <4>2, FS_AddElement
      <4>4. j \in 1 .. Len(InOrder(T)) /\ InOrder(T)[j] = h
        BY <3>2, <4>1, <4>2
      <4>5. PICK k \in 1 .. Len(InOrder(S)) : k <= j /\ InOrder(S)[k] = h
        BY <4>3, <4>4, PlaceGrows
      <4>6. k <= c
        BY <3>2, <4>5
      <4>. QED BY <2>1, <2>3, <3>1, <4>1, <4>2, <4>5, <4>6 DEF PassedAt
    <3>. QED BY <3>3, <3>4
  <2>4. CASE kind \notin InsertionKinds /\ kind \notin CountedKinds
    BY <1>2, <1>12, <2>4 DEF PassedAt
  <2>. QED BY <2>2, <2>3, <2>4
<1>13. Covered'
  <2>1. SUFFICES ASSUME Fair', NEW h \in steady', PassedAt(h, lister.cursor)' PROVE h \in lister'.got
    BY DEF Covered
  <2>2. PassedAt(h, lister.cursor)
    BY <1>1, <1>2, <1>12, <2>1
  <2>. QED BY <1>2, <1>11, <2>1, <2>2 DEF ListInv, Covered
<1>14. CursorKnown'
  BY <1>2, <1>7, <1>8 DEF ListInv, CursorKnown
<1>15. NothingMissed' /\ NeverFails'
  BY <1>2 DEF NothingMissed, NeverFails
<1>16. Once'
  <2>1. SUFFICES ASSUME NoRepeats
                 PROVE  /\ \A h \in lister.twice : StoredTwice(h)
                        /\ ReturnedPassed'
                        /\ kind \in {"memory"} \X {"customer", "delegation"} =>
                              lister.cursor = 0 \/ MoreAfter(lister.cursor)'
    BY <1>2, <1>7 DEF Once, NoRepeats, ByKey
  <2>2. /\ \A h \in lister.twice : StoredTwice(h)
        /\ ReturnedPassed
        /\ kind \in {"memory"} \X {"customer", "delegation"} => lister.cursor = 0 \/ MoreAfter(lister.cursor)
    BY <1>2, <2>1 DEF ListInv, Once
  <2>3. MoreAfter(lister.cursor) => MoreAfter(lister.cursor)'
    BY <1>2, <1>7 DEF MoreAfter
  <2>4. ReturnedPassed'
    <3>1. CASE kind[1] = "memory" /\ kind[2] = "consumer"
      <4>1. /\ lister.cursor <= n
            /\ \A h \in lister.got : \E j \in 1 .. n : j <= lister.cursor /\ rows[j] = h
        BY <1>3, <2>2, <3>1 DEF ReturnedPassed
      <4>2. lister.cursor \in Nat
        BY <1>1 DEF Lister
      <4>3. kind \notin Repeating
        BY <3>1 DEF Repeating
      <4>4. lister.cursor <= Len(rows')
        BY <1>3, <1>4, <4>1, <4>2, <4>3
      <4>5. ASSUME NEW h \in lister.got PROVE \E j \in 1 .. Len(rows') : j <= lister.cursor /\ rows'[j] = h
        <5>1. PICK j \in 1 .. n : j <= lister.cursor /\ rows[j] = h
          BY <4>1
        <5>2. j \in 1 .. Len(rows') /\ rows'[j] = h
          BY <1>4, <4>3, <5>1
        <5>. QED BY <5>1, <5>2
      <4>. QED BY <1>2, <3>1, <4>4, <4>5 DEF ReturnedPassed
    <3>2. CASE ~(kind[1] = "memory" /\ kind[2] = "consumer")
      BY <1>2, <2>2, <3>2 DEF ReturnedPassed
    <3>. QED BY <3>1, <3>2
  <2>. QED BY <2>2, <2>3, <2>4
<1>. QED BY <1>9, <1>10, <1>13, <1>14, <1>15, <1>16 DEF ListInv

LEMMA RemoveStep ==
    ASSUME ListInv, NEW is \in SUBSET Ids, Shrinking, Removed(is)
    PROVE  ListInv'
<1>1. /\ ListTypes /\ rows \in Seq(Ids) /\ lister \in Lister /\ steady \subseteq ToSet(rows)
      /\ kind \in Kinds
  BY DEF ListInv, ListTypes
<1>2. PICK I : I = {k \in DOMAIN rows : rows[k] \notin is}
  OBVIOUS
<1>3. /\ rows' = Subsequence(rows, I) /\ changes' = Append(changes, is) /\ steady' = steady \ is
      /\ kind' = kind /\ lister' = lister /\ lister.pc = "paging"
  BY <1>2 DEF Removed
<1>4. Len(rows) \in Nat /\ DOMAIN rows = 1 .. Len(rows) /\ \A j \in 1 .. Len(rows) : rows[j] \in ToSet(rows)
  BY <1>1, MembersOf
<1>5. I \in SUBSET (1 .. Len(rows)) /\ I \in SUBSET Int
  BY <1>2, <1>4
<1>6. PICK n \in Nat : n = Cardinality(I)
  BY <1>1, <1>5, SubsequenceMembers, FS_CardinalityType
<1>7. PICK p : p = InOrder(I)
  OBVIOUS
<1>8. /\ IsFiniteSet(I) /\ rows' \in Seq(Ids) /\ Len(rows') = n
      /\ \A j \in 1 .. n : p[j] \in I /\ rows'[j] = rows[p[j]]
      /\ \A x \in I : \E j \in 1 .. n : p[j] = x /\ rows'[j] = rows[x]
  <2>1. PICK s \in Seq(Ids) : s = rows /\ I \in SUBSET (1 .. Len(s)) /\ rows' = Subsequence(s, I)
    BY <1>1, <1>3, <1>5
  <2>2. /\ IsFiniteSet(I) /\ rows' \in Seq(Ids) /\ Len(rows') = Cardinality(I)
        /\ \A j \in 1 .. Cardinality(I) : InOrder(I)[j] \in I /\ rows'[j] = s[InOrder(I)[j]]
        /\ \A x \in I : \E j \in 1 .. Cardinality(I) : InOrder(I)[j] = x /\ rows'[j] = s[x]
    BY <2>1, SubsequenceMembers
  <2>. QED BY <1>6, <1>7, <2>1, <2>2
<1>9. \A j, k \in 1 .. n : j < k => p[j] < p[k]
  BY <1>5, <1>6, <1>7, <1>8, InOrderRises
<1>10. ASSUME kind \notin Repeating PROVE Distinct(rows')
  <2>1. SUFFICES ASSUME NEW j \in 1 .. n, NEW k \in 1 .. n, rows'[j] = rows'[k] PROVE j = k
    BY <1>8 DEF Distinct
  <2>2. p[j] = p[k]
    <3>1. p[j] \in I /\ p[k] \in I /\ rows[p[j]] = rows[p[k]]
      BY <1>8, <2>1
    <3>2. \A x, y \in I : rows[x] = rows[y] => x = y
      BY <1>1, <1>5, <1>10 DEF ListTypes, Distinct
    <3>. QED BY <3>1, <3>2
  <2>3. p[j] \in Int /\ p[k] \in Int
    BY <1>5, <1>8
  <2>. QED BY <1>9, <2>2, <2>3
<1>11. ASSUME kind \in Repeating PROVE Sorted(rows')
  <2>1. SUFFICES ASSUME NEW j \in 1 .. n, NEW k \in 1 .. n, j < k PROVE rows'[j] <= rows'[k]
    BY <1>8 DEF Sorted
  <2>2. p[j] \in DOMAIN rows /\ p[k] \in DOMAIN rows /\ p[j] < p[k]
    BY <1>4, <1>5, <1>8, <1>9, <2>1
  <2>3. rows[p[j]] <= rows[p[k]]
    BY <1>1, <1>11, <2>2 DEF ListTypes, Sorted
  <2>. QED BY <1>8, <2>3
<1>12. ToSet(rows') = ToSet(rows) \ is
  <2>1. ASSUME NEW j \in 1 .. n PROVE rows'[j] \in ToSet(rows) \ is
    BY <1>2, <1>4, <1>5, <1>8
  <2>2. ASSUME NEW x \in ToSet(rows) \ is PROVE \E j \in 1 .. n : rows'[j] = x
    <3>1. PICK k \in DOMAIN rows : rows[k] = x
      BY DEF ToSet
    <3>2. k \in I
      BY <1>2, <3>1
    <3>. QED BY <1>8, <3>1, <3>2
  <2>3. DOMAIN rows' = 1 .. n
    BY <1>8
  <2>. QED BY <2>1, <2>2, <2>3 DEF ToSet
<1>13. /\ changes' \in Seq(SUBSET Ids) /\ (CameBack => CameBack')
       /\ \A x : (\E m \in DOMAIN changes : x \in changes[m]) => \E m \in DOMAIN changes' : x \in changes'[m]
       /\ \A x \in is : \E m \in DOMAIN changes' : x \in changes'[m]
  BY <1>1, <1>3, ChangesGrow DEF ListTypes
<1>14. ListTypes'
  BY <1>1, <1>3, <1>8, <1>10, <1>11, <1>13, <1>12 DEF ListTypes
<1>15. SizesKnown(lister.size)' /\ NotBegun' /\ \A h \in steady' : Wanted(h)'
  BY <1>3 DEF ListInv, SizesKnown, NotBegun, Wanted
<1>16. Fair' => Fair
  BY <1>3, <1>13 DEF Fair, Positive
<1>17. kind \notin CountedKinds
  BY DEF Shrinking, CountedKinds
<1>18. ASSUME NEW h \in steady', PassedAt(h, lister.cursor)' PROVE PassedAt(h, lister.cursor)
  <2>1. CASE kind \in InsertionKinds
    <3>1. PICK j \in 1 .. n, k \in 1 .. n : j <= k /\ rows'[j] = h /\ rows'[k] = lister.cursor
      BY <1>3, <1>8, <1>18, <2>1 DEF PassedAt
    <3>2. p[j] \in 1 .. Len(rows) /\ p[k] \in 1 .. Len(rows) /\ rows[p[j]] = h /\ rows[p[k]] = lister.cursor
      BY <1>5, <1>8, <3>1
    <3>3. p[j] <= p[k]
      BY <1>9, <3>1, <3>2
    <3>. QED BY <2>1, <3>2, <3>3 DEF PassedAt
  <2>2. CASE kind \notin InsertionKinds
    BY <1>3, <1>17, <1>18, <2>2 DEF PassedAt
  <2>. QED BY <2>1, <2>2
<1>19. Covered'
  <2>1. SUFFICES ASSUME Fair', NEW h \in steady', PassedAt(h, lister.cursor)' PROVE h \in lister'.got
    BY DEF Covered
  <2>2. PassedAt(h, lister.cursor) /\ h \in steady
    BY <1>3, <1>18, <2>1
  <2>. QED BY <1>3, <1>16, <2>1, <2>2 DEF ListInv, Covered
<1>20. CursorKnown'
  <2>1. SUFFICES ASSUME kind \in InsertionKinds, lister.cursor # 0, lister.cursor \notin ToSet(rows')
                 PROVE  \E m \in DOMAIN changes' : lister.cursor \in changes'[m]
    BY <1>3 DEF CursorKnown
  <2>2. CASE lister.cursor \in ToSet(rows)
    BY <1>13, <1>12, <2>1, <2>2
  <2>3. CASE lister.cursor \notin ToSet(rows)
    BY <1>13, <2>1, <2>3 DEF ListInv, CursorKnown
  <2>. QED BY <2>2, <2>3
<1>21. NothingMissed' /\ NeverFails'
  BY <1>3 DEF NothingMissed, NeverFails
<1>22. Once'
  <2>1. kind[2] \notin {"consumer", "customer", "delegation"}
    BY DEF Shrinking
  <2>2. SUFFICES ASSUME NoRepeats PROVE lister.twice = {} /\ \A h \in lister.got : h <= lister.cursor
    BY <1>3, <2>1 DEF Once, NoRepeats, ByKey, ReturnedPassed
  <2>3. kind \notin Repeating
    BY <2>1, <2>2 DEF NoRepeats, ByKey, Repeating
  <2>4. \A h \in lister.twice : StoredTwice(h)
    BY <2>2 DEF ListInv, Once
  <2>5. lister.twice = {}
    BY <1>1, <2>3, <2>4, CopiesKept
  <2>. QED BY <1>3, <2>1, <2>2, <2>5 DEF ListInv, Once, ReturnedPassed
<1>. QED BY <1>14, <1>15, <1>19, <1>20, <1>21, <1>22 DEF ListInv

----------------------------------------------------------------------------
\* The theorems

LEMMA ListStutters ==
    ASSUME ListInv, UNCHANGED vars
    PROVE  ListInv'
<1>. USE DEF vars
<1>1. ListTypes' /\ SizesKnown(lister.size)' /\ NotBegun' /\ \A i \in steady' : Wanted(i)'
  BY DEF ListInv, ListTypes, Distinct, Sorted, SizesKnown, NotBegun, Wanted
<1>2. Fair' = Fair
  BY DEF Fair, CameBack, Positive
<1>3. \A i : PassedAt(i, lister.cursor)' = PassedAt(i, lister.cursor)
  BY DEF PassedAt, CountedRows, Ascending
<1>4. Covered'
  BY <1>2, <1>3 DEF ListInv, Covered
<1>5. CursorKnown' /\ NeverFails' /\ NothingMissed'
  BY DEF ListInv, CursorKnown, NeverFails, NothingMissed, CameBack
<1>6. Once'
  BY DEF ListInv, Once, NoRepeats, ByKey, ReturnedPassed, MoreAfter, StoredTwice
<1>. QED BY <1>1, <1>4, <1>5, <1>6 DEF ListInv

LEMMA ListStep ==
    ASSUME ListInv, [Next]_vars
    PROVE  ListInv'
BY ListSteps, BeginStep, PageStep, InsertStep, RemoveStep, ListStutters

\* While any of the stores' List methods is paged through, a row that stays and
\* that the cursor has passed was returned, and where cursors are compared with
\* keys nothing was returned that the cursor has not passed.
THEOREM ListInvariance == Spec => []ListInv
<1>1. Init => ListInv
  BY ListInit
<1>2. ListInv /\ [Next]_vars => ListInv'
  BY ListStep
<1>. QED BY <1>1, <1>2, PTL DEF Spec

\* A List method of any store returns rows of its table only, whatever the page
\* size and however far the table has moved on.  The keys of Postgres and the
\* existence check before an insertion into a memory store keep a row from being
\* in a table twice, except in the two slices that keep copies; PutMany's sort
\* keeps the copies of a token side by side.
THEOREM ListTypeCorrect == Spec => []TypeOK
<1>1. ListInv => TypeOK
  <2>1. SUFFICES ASSUME ListInv PROVE TypeOK
    OBVIOUS
  <2>2. ListTypes
    BY <2>1 DEF ListInv
  <2>3. rows \in Seq(Ids) /\ changes \in Seq(SUBSET Ids)
    BY <2>2 DEF ListTypes
  <2>4. ToSet(rows) \subseteq Ids
    BY <2>3, MembersOf
  <2>5. IF kind \in Repeating THEN Sorted(rows) ELSE \A i \in ToSet(rows) : ~StoredTwice(i)
    BY <2>2, CopiesKept DEF ListTypes
  <2>6. \A n \in DOMAIN changes : changes[n] \subseteq Ids
    BY <2>3
  <2>. QED BY <2>2, <2>4, <2>5, <2>6 DEF TypeOK, ListTypes, Lister, PageSizes
<1>. QED BY <1>1, ListInvariance, PTL

\* A listing that ends has returned every row that was in its table all along:
\* the keyset cursors of Postgres, of which some carry two columns, and the
\* positions and counts of the memory stores lose none to rows that are added
\* and removed between two pages.
THEOREM NothingIsMissed == Spec => []NothingMissed
<1>1. ListInv => NothingMissed
  BY DEF ListInv
<1>. QED BY <1>1, ListInvariance, PTL

\* The listings whose cursor is compared with the key, and those of slices that
\* only grow at their end, return no row on two pages; /access/claim from the
\* memory delegations returns only those tokens on two pages that PutMany has
\* stored twice.
THEOREM NothingIsReturnedTwice == Spec => []NoneTwice
<1>1. ListInv => NoneTwice
  BY DEF ListInv, Once, NoRepeats, ByKey, NoneTwice
<1>. QED BY <1>1, ListInvariance, PTL

\* No page size and no cursor make a Postgres listing within the room of a
\* slice, a listing of shards, of the upload log, of customers or of delegations
\* fail or panic.
THEOREM ListingNeverFails == Spec => []NeverFails
<1>1. ListInv => NeverFails
  BY DEF ListInv
<1>. QED BY <1>1, ListInvariance, PTL
=============================================================================
