------------------------ MODULE ConcludeBatchProofs ------------------------
(***************************************************************************)
(* Module ConcludeBatch, for any puts, deliveries, providers, chunk size   *)
(* and token budget: what a node answered is stored in messages that keep  *)
(* an acceptance together, before its blob is registered.                  *)
(***************************************************************************)
EXTENDS ConcludeBatch, DataLemmas

Artifacts == {"site", "other", "pdp", "pdpReceipt"}
Token == (Outcomes \cup {"inv"} \cup Artifacts) \X Puts
Group == {g \in SUBSET Token : IsFiniteSet(g)}
Message == Seq(Group)

\* The tokens of a message.
Held(msg) == UNION ToSet(msg)

----------------------------------------------------------------------------
\* Packing

\* A message has a number of tokens, and one more group adds its own.
LEMMA TokensAppend ==
    ASSUME NEW m \in Message, NEW g \in Group
    PROVE  /\ Tokens(m) \in Nat /\ Cardinality(g) \in Nat
           /\ Tokens(Append(m, g)) = Tokens(m) + Cardinality(g)
<1> DEFINE Sizes(s) == [i \in DOMAIN s |-> Cardinality(s[i])]
<1>0. m \in Seq(Group) /\ Append(m, g) \in Seq(Group)
  BY DEF Message
<1>1. ASSUME NEW s \in Seq(Group) PROVE Sizes(s) \in Seq(Nat) /\ Len(Sizes(s)) = Len(s)
  <2>1. \A x \in Group : Cardinality(x) \in Nat
    BY FS_CardinalityType DEF Group
  <2>2. \A i \in 1 .. Len(s) : s[i] \in Group
    OBVIOUS
  <2>3. Sizes(s) \in [1 .. Len(s) -> Nat] /\ Len(s) \in Nat
    BY <2>1, <2>2
  <2>. HIDE DEF Sizes
  <2>. QED BY <2>3, FunctionIsSeq
<1>2. PICK n \in Nat : n = Len(m)
  BY <1>0
<1>3. Len(Append(m, g)) = n + 1 /\ n + 1 \in Nat /\ (n + 1) - 1 = n
  BY <1>0, <1>2
<1>4. PICK ws \in Seq(Nat), vs \in Seq(Nat) : ws = Sizes(m) /\ vs = Sizes(Append(m, g))
  BY <1>0, <1>1
<1>5. Len(ws) = n /\ Len(vs) = n + 1
  BY <1>0, <1>1, <1>2, <1>3, <1>4
<1>6. \A i \in 1 .. n : ws[i] = vs[i]
  BY <1>0, <1>2, <1>3, <1>4
<1>7. vs[n + 1] = Cardinality(g)
  BY <1>0, <1>2, <1>3, <1>4
<1>8. SumTo(ws, n) = SumTo(vs, n)
  BY <1>5, <1>6, SumsAgree
<1>9. SumTo(vs, n + 1) = SumTo(vs, n) + vs[n + 1] /\ SumTo(ws, n) \in Nat
  <2>1. n + 1 \in 1 .. Len(vs) /\ n \in 0 .. Len(ws)
    BY <1>5
  <2>2. SumTo(vs, n + 1) = SumTo(vs, (n + 1) - 1) + vs[n + 1]
    BY <2>1, Sums
  <2>3. SumTo(ws, n) \in Nat
    BY <2>1, Sums
  <2>. QED BY <1>3, <2>2, <2>3
<1>10. Tokens(m) = SumTo(ws, n) /\ Tokens(Append(m, g)) = SumTo(vs, n + 1)
  BY <1>2, <1>3, <1>4 DEF Tokens
<1>11. Cardinality(g) \in Nat
  BY FS_CardinalityType DEF Group
<1>. QED BY <1>7, <1>8, <1>9, <1>10, <1>11

\* What a message may be: a single group, or within the budget.
Fits(m) == Len(m) = 1 \/ Tokens(m) <= Budget

\* The state of the packing loop after the first n of the groups gs: messages
\* that fit, made of those groups, and every one of them in some message.
PackedUpto(acc, n, gs) ==
    /\ acc \in [full : Seq(Message), cur : Message]
    /\ \A k \in 1 .. Len(acc.full) : Fits(acc.full[k])
    /\ acc.cur = <<>> \/ Fits(acc.cur)
    /\ \A k \in 1 .. Len(acc.full) : \A i \in 1 .. Len(acc.full[k]) :
          \E j \in 1 .. n : acc.full[k][i] = gs[j]
    /\ \A i \in 1 .. Len(acc.cur) : \E j \in 1 .. n : acc.cur[i] = gs[j]
    /\ \A j \in 1 .. n :
          \/ \E i \in 1 .. Len(acc.cur) : acc.cur[i] = gs[j]
          \/ \E k \in 1 .. Len(acc.full) : \E i \in 1 .. Len(acc.full[k]) : acc.full[k][i] = gs[j]

LEMMA AddGroupType ==
    ASSUME NEW acc \in [full : Seq(Message), cur : Message], NEW g \in Group
    PROVE  AddGroup(acc, g) \in [full : Seq(Message), cur : Message]
<1>1. Append(acc.full, acc.cur) \in Seq(Message)
  OBVIOUS
<1>2. <<g>> \in Message /\ Append(acc.cur, g) \in Message
  BY DEF Message
<1>. QED BY <1>1, <1>2 DEF AddGroup

LEMMA AddGroupPacks ==
    ASSUME NEW gs \in Seq(Group), NEW n \in Nat, n + 1 <= Len(gs),
           NEW acc, PackedUpto(acc, n, gs)
    PROVE  PackedUpto(AddGroup(acc, gs[n + 1]), n + 1, gs)
<1>1. acc \in [full : Seq(Message), cur : Message]
  BY DEF PackedUpto
<1>2. PICK g \in Group : g = gs[n + 1]
  OBVIOUS
<1>3. PICK F \in Seq(Message), c \in Message : F = acc.full /\ c = acc.cur
  BY <1>1
<1>4. c \in Seq(Group) /\ Len(F) \in Nat /\ Len(c) \in Nat
  BY DEF Message
<1>5. /\ \A k \in 1 .. Len(F) : Fits(F[k])
      /\ c = <<>> \/ Fits(c)
      /\ \A k \in 1 .. Len(F) : \A i \in 1 .. Len(F[k]) : \E j \in 1 .. n : F[k][i] = gs[j]
      /\ \A i \in 1 .. Len(c) : \E j \in 1 .. n : c[i] = gs[j]
      /\ \A j \in 1 .. n :
            \/ \E i \in 1 .. Len(c) : c[i] = gs[j]
            \/ \E k \in 1 .. Len(F) : \E i \in 1 .. Len(F[k]) : F[k][i] = gs[j]
  BY <1>3 DEF PackedUpto
<1>6. n + 1 \in 1 .. (n + 1) /\ \A j \in 1 .. n : j \in 1 .. (n + 1)
  OBVIOUS
<1>7. \A j \in 1 .. (n + 1) : j = n + 1 \/ j \in 1 .. n
  OBVIOUS
<1>8. AddGroup(acc, g) \in [full : Seq(Message), cur : Message]
  BY <1>1, AddGroupType
<1>9. CASE c # <<>> /\ Tokens(c) + Cardinality(g) > Budget
  <2>1. PICK b : b = AddGroup(acc, g)
    OBVIOUS
  <2>2. b.full = Append(F, c) /\ b.cur = <<g>>
    BY <1>3, <1>9, <2>1 DEF AddGroup
  <2>3. /\ Len(b.full) = Len(F) + 1 /\ b.full[Len(F) + 1] = c
        /\ \A k \in 1 .. Len(F) : b.full[k] = F[k]
    BY <2>2
  <2>4. Len(b.cur) = 1 /\ b.cur[1] = g
    BY <2>2
  <2>5. \A k \in 1 .. Len(b.full) : k = Len(F) + 1 \/ k \in 1 .. Len(F)
    BY <1>4, <2>3
  <2>6. Len(F) + 1 \in 1 .. Len(b.full) /\ \A k \in 1 .. Len(F) : k \in 1 .. Len(b.full)
    BY <1>4, <2>3
  <2>7. \A k \in 1 .. Len(b.full) : Fits(b.full[k])
    <3>1. Fits(c)
      BY <1>5, <1>9
    <3>. QED BY <1>5, <2>3, <2>5, <3>1
  <2>8. Fits(b.cur)
    BY <2>4 DEF Fits
  <2>9. \A k \in 1 .. Len(b.full) : \A i \in 1 .. Len(b.full[k]) :
          \E j \in 1 .. (n + 1) : b.full[k][i] = gs[j]
    <3>1. SUFFICES ASSUME NEW k \in 1 .. Len(b.full), NEW i \in 1 .. Len(b.full[k])
                   PROVE  \E j \in 1 .. (n + 1) : b.full[k][i] = gs[j]
      OBVIOUS
    <3>2. \E j \in 1 .. n : b.full[k][i] = gs[j]
      <4>1. CASE k = Len(F) + 1
        BY <1>5, <2>3, <4>1
      <4>2. CASE k \in 1 .. Len(F)
        <5>1. b.full[k] = F[k]
          BY <2>3, <4>2
        <5>2. i \in 1 .. Len(F[k])
          BY <5>1
        <5>3. \E j \in 1 .. n : F[k][i] = gs[j]
          BY <1>5, <4>2, <5>2
        <5>. QED BY <5>1, <5>3
      <4>. QED BY <2>5, <4>1, <4>2
    <3>. QED BY <3>2, <1>6
  <2>10. \A i \in 1 .. Len(b.cur) : \E j \in 1 .. (n + 1) : b.cur[i] = gs[j]
    BY <1>2, <1>6, <2>4
  <2>11. ASSUME NEW j \in 1 .. (n + 1)
         PROVE  \/ \E i \in 1 .. Len(b.cur) : b.cur[i] = gs[j]
                \/ \E k \in 1 .. Len(b.full) : \E i \in 1 .. Len(b.full[k]) : b.full[k][i] = gs[j]
    <3>1. CASE j = n + 1
      BY <1>2, <2>4, <3>1
    <3>2. CASE j \in 1 .. n
      <4>1. CASE \E i \in 1 .. Len(c) : c[i] = gs[j]
        BY <4>1, <2>3, <2>6
      <4>2. CASE \E k \in 1 .. Len(F) : \E i \in 1 .. Len(F[k]) : F[k][i] = gs[j]
        BY <4>2, <2>3, <2>6
      <4>. QED BY <1>5, <3>2, <4>1, <4>2
    <3>. QED BY <1>7, <3>1, <3>2
  <2>. QED BY <1>2, <1>8, <2>1, <2>7, <2>8, <2>9, <2>10, <2>11 DEF PackedUpto
<1>10. CASE ~(c # <<>> /\ Tokens(c) + Cardinality(g) > Budget)
  <2>1. PICK b : b = AddGroup(acc, g)
    OBVIOUS
  <2>2. b.full = F /\ b.cur = Append(c, g)
    BY <1>3, <1>10, <2>1 DEF AddGroup
  <2>3. /\ Len(b.cur) = Len(c) + 1 /\ b.cur[Len(c) + 1] = g
        /\ \A k \in 1 .. Len(c) : b.cur[k] = c[k]
    BY <1>4, <2>2
  <2>4. \A k \in 1 .. Len(b.cur) : k = Len(c) + 1 \/ k \in 1 .. Len(c)
    BY <1>4, <2>3
  <2>5. Len(c) + 1 \in 1 .. Len(b.cur) /\ \A k \in 1 .. Len(c) : k \in 1 .. Len(b.cur)
    BY <1>4, <2>3
  <2>6. Fits(b.cur)
    <3>1. CASE c = <<>>
      BY <2>3, <3>1 DEF Fits
    <3>2. CASE Tokens(c) + Cardinality(g) <= Budget
      <4>1. Tokens(b.cur) = Tokens(c) + Cardinality(g)
        BY <2>2, TokensAppend
      <4>. QED BY <3>2, <4>1 DEF Fits
    <3>3. Tokens(c) + Cardinality(g) \in Int /\ Budget \in Int
      BY TokensAppend, BatchAssumption
    <3>. QED BY <1>10, <3>1, <3>2, <3>3
  <2>7. \A i \in 1 .. Len(b.cur) : \E j \in 1 .. (n + 1) : b.cur[i] = gs[j]
    <3>1. SUFFICES ASSUME NEW i \in 1 .. Len(b.cur) PROVE \E j \in 1 .. (n + 1) : b.cur[i] = gs[j]
      OBVIOUS
    <3>2. CASE i = Len(c) + 1
      BY <1>2, <1>6, <2>3, <3>2
    <3>3. CASE i \in 1 .. Len(c)
      BY <1>5, <1>6, <2>3, <3>3
    <3>. QED BY <2>4, <3>2, <3>3
  <2>8. \A k \in 1 .. Len(b.full) : \A i \in 1 .. Len(b.full[k]) :
          \E j \in 1 .. (n + 1) : b.full[k][i] = gs[j]
    <3>1. ASSUME NEW k \in 1 .. Len(F), NEW i \in 1 .. Len(F[k])
          PROVE  \E j \in 1 .. (n + 1) : F[k][i] = gs[j]
      <4>1. PICK j \in 1 .. n : F[k][i] = gs[j]
        BY <1>5
      <4>. QED BY <1>6, <4>1
    <3>. QED BY ONLY <2>2, <3>1
  <2>9. ASSUME NEW j \in 1 .. (n + 1)
        PROVE  \/ \E i \in 1 .. Len(b.cur) : b.cur[i] = gs[j]
               \/ \E k \in 1 .. Len(b.full) : \E i \in 1 .. Len(b.full[k]) : b.full[k][i] = gs[j]
    <3>1. CASE j = n + 1
      BY <1>2, <2>3, <2>5, <3>1
    <3>2. CASE j \in 1 .. n
      <4>1. CASE \E i \in 1 .. Len(c) : c[i] = gs[j]
        BY <4>1, <2>3, <2>5
      <4>2. CASE \E k \in 1 .. Len(F) : \E i \in 1 .. Len(F[k]) : F[k][i] = gs[j]
        BY <4>2, <2>2
      <4>. QED BY <1>5, <3>2, <4>1, <4>2
    <3>. QED BY <1>7, <3>1, <3>2
  <2>10. \A k \in 1 .. Len(b.full) : Fits(b.full[k])
    BY <1>5, <2>2
  <2>. QED BY <1>2, <1>8, <2>1, <2>6, <2>7, <2>8, <2>9, <2>10 DEF PackedUpto
<1>. QED BY <1>9, <1>10

\* Pack leaves no group out, makes no message of anything else, and makes only
\* messages that fit.
LEMMA Packing ==
    ASSUME NEW gs \in Seq(Group)
    PROVE  /\ Pack(gs) \in Seq(Message)
           /\ \A k \in 1 .. Len(Pack(gs)) : Fits(Pack(gs)[k])
           /\ \A k \in 1 .. Len(Pack(gs)) : \A i \in 1 .. Len(Pack(gs)[k]) :
                 \E j \in 1 .. Len(gs) : Pack(gs)[k][i] = gs[j]
           /\ \A j \in 1 .. Len(gs) :
                 \E k \in 1 .. Len(Pack(gs)) : \E i \in 1 .. Len(Pack(gs)[k]) : Pack(gs)[k][i] = gs[j]
<1> DEFINE Acc == [full : Seq(Message), cur : Message]
           Empty == [full |-> <<>>, cur |-> <<>>]
           Packs(F) == F = [n \in 0 .. Len(gs) |-> IF n = 0 THEN Empty ELSE AddGroup(F[n - 1], gs[n])]
           P == CHOOSE F : Packs(F)
<1>0. PICK n \in Nat : n = Len(gs)
  OBVIOUS
<1>1. \A i \in 1 .. n : gs[i] \in Group
  BY <1>0
<1>2. PICK g : g = [x \in (1 .. n) \X Acc |-> AddGroup(x[2], gs[x[1]])]
  OBVIOUS
<1>3. g \in [(1 .. n) \X Acc -> Acc]
  <2>1. ASSUME NEW x \in (1 .. n) \X Acc PROVE AddGroup(x[2], gs[x[1]]) \in Acc
    <3>1. PICK a \in Acc, i \in 1 .. n : x = <<i, a>>
      OBVIOUS
    <3>2. gs[i] \in Group
      BY <1>1
    <3>3. AddGroup(a, gs[i]) \in Acc
      BY <3>2, AddGroupType
    <3>. QED BY <3>1, <3>3
  <2>. HIDE DEF Acc
  <2>. QED BY <1>2, <2>1
<1>4. Empty \in Acc /\ PackedUpto(Empty, 0, gs)
  <2>1. <<>> \in Message /\ <<>> \in Seq(Message) /\ Len(<<>>) = 0
    BY DEF Message
  <2>. QED BY <2>1 DEF PackedUpto
<1>5. PICK F \in [0 .. n -> Acc] : Iterates(F, n, Empty, g)
  <2>. HIDE DEF Acc, Empty
  <2>. QED BY <1>3, <1>4, Recursion
<1>6. \A i \in 1 .. n : F[i] = AddGroup(F[i - 1], gs[i])
  <2>1. SUFFICES ASSUME NEW i \in 1 .. n PROVE F[i] = AddGroup(F[i - 1], gs[i])
    OBVIOUS
  <2>2. i - 1 \in 0 .. n
    OBVIOUS
  <2>. HIDE DEF Acc
  <2>3. F[i - 1] \in Acc
    BY <2>2
  <2>4. <<i, F[i - 1]>> \in (1 .. n) \X Acc
    BY <2>3
  <2>5. F[i] = g[<<i, F[i - 1]>>]
    BY <1>5 DEF Iterates
  <2>. QED BY <1>2, <2>4, <2>5
<1>7. Packs(F)
  <2>1. \A j \in 0 .. n : j # 0 => j \in 1 .. n
    OBVIOUS
  <2>2. F[0] = Empty
    BY <1>5 DEF Iterates
  <2>. HIDE DEF Acc, Empty
  <2>. QED BY <1>0, <1>6, <2>1, <2>2
<1>8. Packs(P)
  <2>. HIDE DEF Packs
  <2>. QED BY <1>7
<1>9. P[0] = Empty /\ \A i \in 1 .. n : P[i] = AddGroup(P[i - 1], gs[i])
  <2>. HIDE DEF P, Empty
  <2>1. \A i \in 1 .. n : i \in 0 .. n /\ i # 0
    OBVIOUS
  <2>. QED BY <1>0, <1>8, <2>1
<1> HIDE DEF P, Empty, Packs, Acc
<1>10. PackedUpto(P[n], n, gs)
  <2> DEFINE T == {i \in 0 .. n : PackedUpto(P[i], i, gs)}
  <2>1. 0 \in T
    BY <1>4, <1>9
  <2>2. ASSUME NEW i \in T, i < n PROVE i + 1 \in T
    <3>1. i \in Nat /\ i + 1 \in 1 .. n /\ i + 1 \in 0 .. n /\ (i + 1) - 1 = i /\ i + 1 <= Len(gs)
      BY <1>0, <2>2
    <3>2. P[i + 1] = AddGroup(P[i], gs[i + 1])
      BY <1>9, <3>1
    <3>3. PackedUpto(P[i], i, gs)
      OBVIOUS
    <3>4. PICK a : a = P[i]
      OBVIOUS
    <3>5. PackedUpto(AddGroup(a, gs[i + 1]), i + 1, gs)
      BY <3>1, <3>3, <3>4, AddGroupPacks
    <3>. QED BY <3>1, <3>2, <3>4, <3>5
  <2>3. T \in SUBSET Nat
    OBVIOUS
  <2>. HIDE DEF T
  <2>4. \A i \in 0 .. n : i \in T
    BY <2>1, <2>2, <2>3, Induction
  <2>5. n \in T
    BY <2>4
  <2>. QED BY <2>5 DEF T
<1>11. PICK a : a = P[n]
  OBVIOUS
<1>12. Pack(gs) = a.full \o (IF a.cur = <<>> THEN <<>> ELSE <<a.cur>>)
  BY <1>0, <1>11 DEF Pack, P, Packs, Empty
<1>13. PICK f \in Seq(Message), c \in Message : f = a.full /\ c = a.cur
  BY <1>10, <1>11 DEF PackedUpto
<1>14. /\ \A k \in 1 .. Len(f) : Fits(f[k])
       /\ c = <<>> \/ Fits(c)
       /\ \A k \in 1 .. Len(f) : \A i \in 1 .. Len(f[k]) : \E j \in 1 .. n : f[k][i] = gs[j]
       /\ \A i \in 1 .. Len(c) : \E j \in 1 .. n : c[i] = gs[j]
       /\ \A j \in 1 .. n :
             \/ \E i \in 1 .. Len(c) : c[i] = gs[j]
             \/ \E k \in 1 .. Len(f) : \E i \in 1 .. Len(f[k]) : f[k][i] = gs[j]
  BY <1>10, <1>11, <1>13 DEF PackedUpto
<1>15. CASE c = <<>>
  <2>1. Pack(gs) = f
    BY <1>12, <1>13, <1>15
  <2>2. \A i : i \notin 1 .. Len(c)
    BY <1>15
  <2>3. \A k \in 1 .. Len(f) : \A i \in 1 .. Len(f[k]) : \E j \in 1 .. Len(gs) : f[k][i] = gs[j]
    BY <1>0, <1>14
  <2>4. \A j \in 1 .. Len(gs) : \E k \in 1 .. Len(f) : \E i \in 1 .. Len(f[k]) : f[k][i] = gs[j]
    BY <1>0, <1>14, <2>2
  <2>5. f \in Seq(Message) /\ \A k \in 1 .. Len(f) : Fits(f[k])
    BY <1>14
  <2>. QED BY ONLY <2>1, <2>3, <2>4, <2>5
<1>16. CASE c # <<>>
  <2>1. PICK m : m = Pack(gs)
    OBVIOUS
  <2>2. m = f \o <<c>>
    BY <1>12, <1>13, <1>16, <2>1
  <2>3. /\ m \in Seq(Message) /\ Len(m) = Len(f) + 1 /\ m[Len(f) + 1] = c /\ Len(f) \in Nat
        /\ \A k \in 1 .. Len(f) : m[k] = f[k]
    BY <2>2
  <2>4. \A k \in 1 .. Len(m) : k = Len(f) + 1 \/ k \in 1 .. Len(f)
    BY <2>3
  <2>5. Len(f) + 1 \in 1 .. Len(m) /\ \A k \in 1 .. Len(f) : k \in 1 .. Len(m)
    BY <2>3
  <2>6. ASSUME NEW k \in 1 .. Len(m)
        PROVE  Fits(m[k]) /\ \A i \in 1 .. Len(m[k]) : \E j \in 1 .. n : m[k][i] = gs[j]
    <3>1. CASE k = Len(f) + 1
      BY <1>14, <1>16, <2>3, <3>1
    <3>2. CASE k \in 1 .. Len(f)
      <4>1. m[k] = f[k]
        BY <2>3, <3>2
      <4>. QED BY <1>14, <3>2, <4>1
    <3>. QED BY <2>4, <3>1, <3>2
  <2>7. ASSUME NEW j \in 1 .. n
        PROVE  \E k \in 1 .. Len(m) : \E i \in 1 .. Len(m[k]) : m[k][i] = gs[j]
    <3>1. CASE \E i \in 1 .. Len(c) : c[i] = gs[j]
      BY <2>3, <2>5, <3>1
    <3>2. CASE \E k \in 1 .. Len(f) : \E i \in 1 .. Len(f[k]) : f[k][i] = gs[j]
      BY <2>3, <2>5, <3>2
    <3>. QED BY <1>14, <3>1, <3>2
  <2>8. \A k \in 1 .. Len(m) : \A i \in 1 .. Len(m[k]) : \E j \in 1 .. Len(gs) : m[k][i] = gs[j]
    BY <1>0, <2>6
  <2>9. \A j \in 1 .. Len(gs) : \E k \in 1 .. Len(m) : \E i \in 1 .. Len(m[k]) : m[k][i] = gs[j]
    BY <1>0, <2>7
  <2>10. m \in Seq(Message) /\ \A k \in 1 .. Len(m) : Fits(m[k])
    BY <2>3, <2>6
  <2>. QED BY ONLY <2>1, <2>8, <2>9, <2>10
<1>. QED BY <1>15, <1>16

----------------------------------------------------------------------------
\* Grouping

Answered(outs) == {i \in DOMAIN outs : outs[i] # "none"}

\* What the receipt at place i names, the node sent and no earlier one claimed.
Claims(puts, outs, i) ==
    (Names(puts[i], outs[i]) \cap Attached(puts, outs))
        \ UNION {Names(puts[j], outs[j]) : j \in 1 .. (i - 1)}

\* The group of the answer at place i.
AnswerGroup(puts, outs, i) == Answer(puts[i], outs[i]) \cup Claims(puts, outs, i)

\* The puts and the outcomes of one provider.
Results(puts, outs) ==
    /\ puts \in Seq(Puts) /\ outs \in Seq(Outcomes \cup {"none"})
    /\ Len(outs) = Len(puts)

LEMMA AttachmentTokens ==
    ASSUME NEW p \in Puts, NEW out
    PROVE  /\ Names(p, out) \in Group /\ Names(p, out) \subseteq Artifacts \X {p}
           /\ Sent(p, out) \in Group /\ Sent(p, out) \subseteq Artifacts \X {p}
           /\ out \in Outcomes => Answer(p, out) \in Group
<1>1. \A x, y, z : IsFiniteSet({}) /\ IsFiniteSet({x}) /\ IsFiniteSet({x, y})
                   /\ IsFiniteSet({x, y} \cup {z}) /\ {x, y} \cup {} = {x, y}
  <2>1. SUFFICES ASSUME NEW x, NEW y, NEW z
                 PROVE  IsFiniteSet({x}) /\ IsFiniteSet({x, y}) /\ IsFiniteSet({x, y} \cup {z})
    BY FS_EmptySet
  <2>2. IsFiniteSet({x})
    BY FS_Singleton
  <2>3. IsFiniteSet({x} \cup {y}) /\ {x, y} = {x} \cup {y}
    BY <2>2, FS_AddElement
  <2>4. IsFiniteSet({x, y})
    BY <2>3
  <2>5. IsFiniteSet({x, y} \cup {z})
    BY <2>4, FS_AddElement
  <2>. QED BY <2>2, <2>4, <2>5
<1>2. PICK c : c = Commitment(p, out)
  OBVIOUS
<1>3. c \in Artifacts \X {p}
  BY <1>2 DEF Commitment, Artifacts
<1>4. IsFiniteSet(Attachments(p, out))
  <2>1. CASE p \in Concluded
    BY <1>1, <1>2, <2>1 DEF Attachments
  <2>2. CASE p \notin Concluded
    <3>1. Attachments(p, out) = {c, <<"pdp", p>>}
      BY <1>2, <2>2 DEF Attachments
    <3>2. IsFiniteSet({c, <<"pdp", p>>})
      BY <1>1
    <3>. QED BY <3>1, <3>2
  <2>. QED BY <2>1, <2>2
<1>5. Attachments(p, out) \subseteq Artifacts \X {p}
  <2>1. {<<"pdp", p>>, <<"pdpReceipt", p>>} \subseteq Artifacts \X {p}
    BY DEF Artifacts
  <2>. QED BY <1>2, <1>3, <2>1 DEF Attachments
<1>6. Attachments(p, out) \in Group
  <2>1. Artifacts \X {p} \subseteq Token
    BY DEF Token
  <2>. QED BY <1>4, <1>5, <2>1 DEF Group
<1>7. {} \in Group
  BY <1>1 DEF Group
<1>8. ASSUME out \in Outcomes PROVE Answer(p, out) \in Group
  <2>1. IsFiniteSet(Answer(p, out))
    BY <1>1 DEF Answer
  <2>2. <<"inv", p>> \in Token /\ <<out, p>> \in Token
    BY <1>8 DEF Token
  <2>. QED BY <2>1, <2>2 DEF Answer, Group
<1>. QED BY <1>5, <1>6, <1>7, <1>8 DEF Names, Sent

\* groupAcceptances makes the group of every answer, and otherwise single
\* artifacts that no receipt names.
LEMMA Grouping ==
    ASSUME NEW puts, NEW outs, Results(puts, outs)
    PROVE  /\ Groups(puts, outs) \in Seq(Group)
           /\ \A i \in Answered(outs) : \E k \in 1 .. Len(Groups(puts, outs)) :
                 Groups(puts, outs)[k] = AnswerGroup(puts, outs, i)
           /\ \A k \in 1 .. Len(Groups(puts, outs)) :
                 \/ \E i \in Answered(outs) : Groups(puts, outs)[k] = AnswerGroup(puts, outs, i)
                 \/ \E t \in Artifacts \X Puts : Groups(puts, outs)[k] = {t}
<1> DEFINE A == Answered(outs)
           idx == InOrder(A)
           N == Len(puts)
           sent == Attached(puts, outs)
           claimed == UNION {Names(puts[i], outs[i]) : i \in DOMAIN outs}
           Rest == {{t} : t \in sent \ claimed}
           first == [j \in DOMAIN idx |-> AnswerGroup(puts, outs, idx[j])]
<1>1. puts \in Seq(Puts) /\ outs \in Seq(Outcomes \cup {"none"}) /\ Len(outs) = N /\ N \in Nat
  BY DEF Results
<1>2. A \in SUBSET (1 .. N) /\ IsFiniteSet(A)
  <2>1. A \in SUBSET (1 .. N)
    BY <1>1 DEF Answered
  <2>2. IsFiniteSet(1 .. N)
    BY <1>1, FS_Interval
  <2>. QED BY <2>1, <2>2, FS_Subset
<1>3. \A i \in A : puts[i] \in Puts
  BY <1>1, <1>2
<1>4. /\ Cardinality(A) \in Nat /\ idx \in [1 .. Cardinality(A) -> A]
      /\ \A i \in A : \E j \in 1 .. Cardinality(A) : idx[j] = i
  <2>1. A \in SUBSET Int
    BY <1>2
  <2>. HIDE DEF A
  <2>. QED BY <1>2, <2>1, InOrderMembers
<1>5. DOMAIN idx = 1 .. Cardinality(A)
  <2>. HIDE DEF idx, A
  <2>. QED BY <1>4
<1>6. ASSUME NEW i \in A PROVE AnswerGroup(puts, outs, i) \in Group
  <2>1. puts[i] \in Puts
    BY <1>3
  <2>0. outs[i] \in Outcomes
    BY <1>1 DEF Answered
  <2>2. Answer(puts[i], outs[i]) \in Group /\ Names(puts[i], outs[i]) \in Group
    BY <2>0, <2>1, AttachmentTokens
  <2>3. IsFiniteSet(Claims(puts, outs, i)) /\ Claims(puts, outs, i) \subseteq Token
    <3>1. Claims(puts, outs, i) \in SUBSET Names(puts[i], outs[i])
      BY DEF Claims
    <3>2. IsFiniteSet(Names(puts[i], outs[i])) /\ Names(puts[i], outs[i]) \subseteq Token
      BY <2>2 DEF Group
    <3>. QED BY <3>1, <3>2, FS_Subset
  <2>4. IsFiniteSet(Answer(puts[i], outs[i])) /\ Answer(puts[i], outs[i]) \subseteq Token
    BY <2>2 DEF Group
  <2>5. IsFiniteSet(AnswerGroup(puts, outs, i))
    BY <2>3, <2>4, FS_Union DEF AnswerGroup
  <2>. QED BY <2>3, <2>4, <2>5 DEF AnswerGroup, Group
<1>7. first \in Seq(Group) /\ Len(first) = Cardinality(A)
  <2>. HIDE DEF idx, A
  <2>1. first \in [1 .. Cardinality(A) -> Group]
    BY <1>4, <1>5, <1>6
  <2>. HIDE DEF first
  <2>. QED BY <1>4, <2>1, FunctionIsSeq
<1>8. IsFiniteSet(sent)
  <2> DEFINE U == {Sent(puts[i], outs[i]) : i \in 1 .. N}
  <2>1. PICK f : f = [i \in 1 .. N |-> Sent(puts[i], outs[i])]
    OBVIOUS
  <2>2. f \in [1 .. N -> U] /\ \A u \in U : \E i \in 1 .. N : f[i] = u
    BY <2>1
  <2>3. \A u \in U : IsFiniteSet(u)
    <3>1. \A i \in 1 .. N : puts[i] \in Puts
      BY <1>1
    <3>. QED BY <3>1, AttachmentTokens DEF Group
  <2>4. sent = UNION U
    BY <1>1 DEF Attached
  <2>5. IsFiniteSet(1 .. N)
    BY <1>1, FS_Interval
  <2>. HIDE DEF U, sent, N
  <2>6. IsFiniteSet(U)
    BY <2>2, <2>5, FiniteImage
  <2>7. IsFiniteSet(UNION U)
    BY <2>3, <2>6, FS_UNION
  <2>. QED BY <2>4, <2>7
<1>9. IsFiniteSet(Rest)
  <2>1. PICK f : f = [t \in sent \ claimed |-> {t}]
    OBVIOUS
  <2>2. f \in [sent \ claimed -> Rest] /\ \A u \in Rest : \E t \in sent \ claimed : f[t] = u
    <3>1. PICK X : X = sent \ claimed
      OBVIOUS
    <3>2. f = [t \in X |-> {t}] /\ Rest = {{t} : t \in X}
      BY <2>1, <3>1
    <3>. HIDE DEF Rest, sent, claimed
    <3>3. f \in [X -> Rest] /\ \A u \in Rest : \E t \in X : f[t] = u
      BY ONLY <3>2
    <3>. QED BY ONLY <3>1, <3>3
  <2>. HIDE DEF Rest, sent, claimed
  <2>3. IsFiniteSet(sent \ claimed)
    BY <1>8, FS_Subset
  <2>. QED BY <2>2, <2>3, FiniteImage
<1>10. \A u \in Rest : \E t \in Artifacts \X Puts : u = {t}
  <2>1. SUFFICES ASSUME NEW t \in sent \ claimed PROVE t \in Artifacts \X Puts
    OBVIOUS
  <2>2. PICK i \in DOMAIN outs : t \in Sent(puts[i], outs[i])
    BY DEF Attached
  <2>3. puts[i] \in Puts
    BY <1>1
  <2>4. t \in Artifacts \X {puts[i]}
    BY <2>2, <2>3, AttachmentTokens
  <2>. QED BY <2>3, <2>4
<1>11. Rest \in SUBSET Group
  <2>. HIDE DEF Rest
  <2>1. ASSUME NEW u \in Rest PROVE u \in Group
    <3>1. PICK t \in Artifacts \X Puts : u = {t}
      BY <1>10
    <3>2. t \in Token
      BY DEF Token
    <3>3. {t} \in Group
      BY ONLY <3>2, FS_Singleton DEF Group
    <3>. QED BY ONLY <3>1, <3>3
  <2>. QED BY ONLY <2>1
<1>12. /\ SetToSeq(Rest) \in Seq(Rest)
       /\ \A k \in 1 .. Len(SetToSeq(Rest)) : SetToSeq(Rest)[k] \in Rest
  <2>. HIDE DEF Rest
  <2>1. SetToSeq(Rest) \in Seq(Rest)
    BY <1>9, SetToSeqMembers
  <2>. QED BY <2>1
<1>13. SetToSeq(Rest) \in Seq(Group)
  <2>. HIDE DEF Rest
  <2>. QED BY <1>11, <1>12
<1>14. Groups(puts, outs) = first \o SetToSeq(Rest)
  <2>1. {i \in DOMAIN puts : outs[i] # "none"} = A
    BY <1>1 DEF Answered
  <2>. QED BY <2>1 DEF Groups, AnswerGroup, Claims
<1>15. PICK a \in Seq(Group), b \in Seq(Group) : a = first /\ b = SetToSeq(Rest)
  BY <1>7, <1>13
<1>16. /\ a \o b \in Seq(Group) /\ Len(a) \in Nat /\ Len(b) \in Nat
       /\ Len(a \o b) = Len(a) + Len(b)
       /\ \A i \in 1 .. Len(a) : (a \o b)[i] = a[i]
       /\ \A i \in 1 .. Len(b) : (a \o b)[Len(a) + i] = b[i]
  BY Concatenation
<1>17. PICK gs : gs = a \o b
  OBVIOUS
<1>18. Len(a) = Cardinality(A) /\ \A j \in 1 .. Cardinality(A) : a[j] = AnswerGroup(puts, outs, idx[j])
  BY <1>5, <1>7, <1>15
<1>19. \A k \in 1 .. Len(b) : b[k] \in Rest
  BY <1>12, <1>15
<1> HIDE DEF A, idx, first, Rest
<1>20. ASSUME NEW i \in A PROVE \E k \in 1 .. Len(gs) : gs[k] = AnswerGroup(puts, outs, i)
  <2>1. PICK j \in 1 .. Cardinality(A) : idx[j] = i
    BY <1>4
  <2>2. j \in 1 .. Len(gs) /\ gs[j] = a[j]
    BY <1>16, <1>17, <1>18
  <2>. QED BY <1>18, <2>1, <2>2
<1>21. ASSUME NEW k \in 1 .. Len(gs)
       PROVE  \/ \E i \in A : gs[k] = AnswerGroup(puts, outs, i)
              \/ \E t \in Artifacts \X Puts : gs[k] = {t}
  <2>1. CASE k \in 1 .. Len(a)
    <3>1. gs[k] = AnswerGroup(puts, outs, idx[k]) /\ idx[k] \in A
      BY <1>4, <1>16, <1>17, <1>18, <2>1
    <3>. QED BY <3>1
  <2>2. CASE k \notin 1 .. Len(a)
    <3>1. k - Len(a) \in 1 .. Len(b) /\ k = Len(a) + (k - Len(a))
      BY <1>16, <1>17, <2>2
    <3>2. gs[k] = b[k - Len(a)]
      BY <1>16, <1>17, <3>1
    <3>3. gs[k] \in Rest
      BY <1>19, <3>1, <3>2
    <3>. QED BY <1>10, <3>3
  <2>. QED BY <2>1, <2>2
<1>22. Groups(puts, outs) = gs /\ gs \in Seq(Group)
  BY <1>14, <1>15, <1>16, <1>17
<1>. QED BY <1>20, <1>21, <1>22 DEF A

\* Every put of O is in the sequence at most once.
Singly(s, O) == \A i, j \in DOMAIN s : s[i] = s[j] /\ s[i] \in O => i = j

\* An accept receipt is found in the group of its answer only.
AnswersApart(gs, puts, outs) ==
    \A k \in 1 .. Len(gs) : \A p \in Puts, out \in Outcomes :
        <<out, p>> \in gs[k] =>
            \E i \in Answered(outs) : /\ puts[i] = p /\ outs[i] = out
                                       /\ gs[k] = AnswerGroup(puts, outs, i)

LEMMA AnswerOnly ==
    ASSUME NEW puts, NEW outs, Results(puts, outs)
    PROVE  AnswersApart(Groups(puts, outs), puts, outs)
<1> SUFFICES ASSUME NEW p \in Puts, NEW out \in Outcomes, NEW k \in 1 .. Len(Groups(puts, outs)),
                    <<out, p>> \in Groups(puts, outs)[k]
             PROVE  \E i \in Answered(outs) :
                       /\ puts[i] = p /\ outs[i] = out
                       /\ Groups(puts, outs)[k] = AnswerGroup(puts, outs, i)
  BY DEF AnswersApart
<1>1. PICK g : g = Groups(puts, outs)[k]
  OBVIOUS
<1>2. \/ \E i \in Answered(outs) : g = AnswerGroup(puts, outs, i)
      \/ \E t \in Artifacts \X Puts : g = {t}
  <2>1. \A n \in 1 .. Len(Groups(puts, outs)) :
          \/ \E i \in Answered(outs) : Groups(puts, outs)[n] = AnswerGroup(puts, outs, i)
          \/ \E t \in Artifacts \X Puts : Groups(puts, outs)[n] = {t}
    BY Grouping
  <2>. QED BY <1>1, <2>1
<1>3. out \notin Artifacts /\ out # "inv"
  BY DEF Outcomes, Artifacts
<1>4. CASE \E i \in Answered(outs) : g = AnswerGroup(puts, outs, i)
  <2>1. PICK i \in Answered(outs) : g = AnswerGroup(puts, outs, i)
    BY <1>4
  <2>2. PICK q \in Puts : q = puts[i]
    BY DEF Results, Answered
  <2>3. Claims(puts, outs, i) \subseteq Artifacts \X {q}
    <3>1. Names(q, outs[i]) \subseteq Artifacts \X {q}
      BY AttachmentTokens
    <3>. QED BY <2>2, <3>1 DEF Claims
  <2>4. <<out, p>> \in Answer(q, outs[i]) \cup Claims(puts, outs, i)
    BY <1>1, <2>1, <2>2 DEF AnswerGroup
  <2>5. <<out, p>> \notin Artifacts \X {q}
    BY <1>3
  <2>6. <<out, p>> \in {<<"inv", q>>, <<outs[i], q>>}
    BY <2>3, <2>4, <2>5 DEF Answer
  <2>7. p = q /\ out = outs[i]
    BY <1>3, <2>6
  <2>. QED BY <1>1, <2>1, <2>2, <2>7
<1>5. CASE \E t \in Artifacts \X Puts : g = {t}
  BY <1>1, <1>3, <1>5
<1>. QED BY <1>2, <1>4, <1>5

\* What came with an answer is among all that came.
LEMMA SentAttached ==
    ASSUME NEW puts, NEW outs, NEW i \in Answered(outs)
    PROVE  Sent(puts[i], outs[i]) \subseteq Attached(puts, outs)
BY DEF Attached, Answered

\* Of a put that is there once, the group of its answer has all that its
\* receipt names and came with it: no other put names any of it.
LEMMA ClaimsAll ==
    ASSUME NEW puts, NEW outs, Results(puts, outs), NEW O, Singly(puts, O),
           NEW i \in Answered(outs), puts[i] \in O
    PROVE  Names(puts[i], outs[i]) \cap Sent(puts[i], outs[i]) \subseteq Claims(puts, outs, i)
<1>1. i \in 1 .. Len(puts) /\ Len(puts) \in Nat /\ DOMAIN puts = 1 .. Len(puts)
      /\ \A j \in 1 .. Len(puts) : puts[j] \in Puts
  BY DEF Results, Answered
<1>2. ASSUME NEW j \in 1 .. (i - 1), NEW t \in Names(puts[i], outs[i])
      PROVE  t \notin Names(puts[j], outs[j])
  <2>1. j \in 1 .. Len(puts) /\ j # i
    BY <1>1
  <2>2. puts[j] # puts[i]
    BY <1>1, <2>1 DEF Singly
  <2>3. PICK p \in Puts, q \in Puts : p = puts[i] /\ q = puts[j]
    BY <1>1, <2>1
  <2>4. /\ Names(p, outs[i]) \subseteq Artifacts \X {p}
        /\ Names(q, outs[j]) \subseteq Artifacts \X {q}
    BY AttachmentTokens
  <2>5. t \in Artifacts \X {p}
    BY <2>3, <2>4
  <2>6. t \notin Artifacts \X {q}
    BY <2>2, <2>3, <2>5
  <2>. QED BY <2>3, <2>4, <2>6
<1>3. Sent(puts[i], outs[i]) \subseteq Attached(puts, outs)
  BY SentAttached
<1>. QED BY <1>2, <1>3 DEF Claims

\* An artifact that came and that a receipt names is in the group of the first
\* answer that names it.
LEMMA FirstClaims ==
    ASSUME NEW puts, NEW outs, Results(puts, outs), NEW t \in Attached(puts, outs),
           NEW i \in Answered(outs), t \in Names(puts[i], outs[i])
    PROVE  \E j \in Answered(outs) :
              t \in Names(puts[j], outs[j]) /\ t \in Claims(puts, outs, j)
<1>1. Len(outs) \in Nat /\ Len(outs) = Len(puts) /\ DOMAIN outs = 1 .. Len(outs)
  BY DEF Results
<1> DEFINE T == {j \in 1 .. Len(outs) : t \in Names(puts[j], outs[j])}
<1>2. i \in T
  BY <1>1 DEF Answered
<1>3. T \in SUBSET Nat
  OBVIOUS
<1>4. PICK j \in T : \A m \in T : j <= m
  <2>. HIDE DEF T
  <2>. QED BY <1>2, <1>3, LeastMember
<1>5. j \in 1 .. Len(outs) /\ t \in Names(puts[j], outs[j])
  OBVIOUS
<1>6. j \in Answered(outs)
  <2>1. outs[j] \in Accepting
    BY <1>5 DEF Names
  <2>. QED BY <1>1, <1>5, <2>1 DEF Answered, Accepting
<1>7. ASSUME NEW m \in 1 .. (j - 1) PROVE t \notin Names(puts[m], outs[m])
  <2>1. m \in 1 .. Len(outs) /\ ~(j <= m)
    BY <1>1, <1>5
  <2>. QED BY <1>4, <2>1
<1>8. t \in Claims(puts, outs, j)
  BY <1>5, <1>7 DEF Claims
<1>. QED BY <1>5, <1>6, <1>8

\* Whatever the receipts name and came is in some group, however often a put is
\* listed.
LEMMA GroupsWhole ==
    ASSUME NEW puts, NEW outs, Results(puts, outs), NEW p \in Puts, NEW out \in Outcomes,
           <<out, p>> \in Held(Groups(puts, outs))
    PROVE  Names(p, out) \cap Sent(p, out) \subseteq Held(Groups(puts, outs))
<1>1. PICK gs : gs = Groups(puts, outs)
  OBVIOUS
<1>2. gs \in Seq(Group) /\ DOMAIN gs = 1 .. Len(gs)
  BY <1>1, Grouping
<1>3. \A t : t \in Held(gs) <=> \E k \in 1 .. Len(gs) : t \in gs[k]
  BY <1>2 DEF Held, ToSet
<1>4. PICK k \in 1 .. Len(gs) : <<out, p>> \in gs[k]
  BY <1>1, <1>3
<1>5. PICK i \in Answered(outs) : puts[i] = p /\ outs[i] = out
  <2>1. AnswersApart(gs, puts, outs)
    BY <1>1, AnswerOnly
  <2>. QED BY <1>4, <2>1 DEF AnswersApart
<1>6. ASSUME NEW t, t \in Names(p, out), t \in Sent(p, out) PROVE t \in Held(gs)
  <2>1. t \in Attached(puts, outs)
    BY <1>5, <1>6, SentAttached
  <2>2. PICK j \in Answered(outs) : t \in Claims(puts, outs, j)
    BY <1>5, <1>6, <2>1, FirstClaims
  <2>3. t \in AnswerGroup(puts, outs, j)
    BY <2>2 DEF AnswerGroup
  <2>4. PICK n \in 1 .. Len(gs) : gs[n] = AnswerGroup(puts, outs, j)
    <3>1. \E n \in 1 .. Len(Groups(puts, outs)) : Groups(puts, outs)[n] = AnswerGroup(puts, outs, j)
      BY Grouping
    <3>. QED BY <1>1, <3>1
  <2>. QED BY <1>3, <2>3, <2>4
<1>. QED BY <1>1, <1>6

\* The answers that are registered, as ToRegister has them.
Registrable(puts, outs) ==
    {i \in DOMAIN outs :
        /\ outs[i] \in Accepting
        /\ \/ puts[i] \in Hashed
           \/ /\ outs[i] # "mismatch"
              /\ Commitment(puts[i], outs[i]) \in Attached(puts, outs)}

\* The tokens ts hold the accept of p with what shows that p was accepted.
Warrants(ts, p) == <<"inv", p>> \in ts /\ Shows(ts, p)

\* An answer that is registered has a group that warrants it.
LEMMA GroupWarrants ==
    ASSUME NEW puts, NEW outs, Results(puts, outs), NEW i \in Registrable(puts, outs)
    PROVE  \E j \in Answered(outs) : Warrants(AnswerGroup(puts, outs, j), puts[i])
<1>1. i \in DOMAIN outs /\ outs[i] \in Accepting
  BY DEF Registrable
<1>2. i \in Answered(outs)
  BY <1>1 DEF Answered, Accepting
<1>3. PICK p \in Puts : p = puts[i]
  BY <1>1 DEF Results
<1>4. \A j : {<<"inv", puts[j]>>, <<outs[j], puts[j]>>} \subseteq AnswerGroup(puts, outs, j)
  BY DEF AnswerGroup, Answer
<1>5. CASE p \in Hashed
  <2>1. Warrants(AnswerGroup(puts, outs, i), p)
    BY <1>1, <1>3, <1>4, <1>5 DEF Warrants, Shows
  <2>. QED BY <1>2, <1>3, <2>1
<1>6. CASE p \notin Hashed
  <2>1. outs[i] # "mismatch" /\ Commitment(p, outs[i]) \in Attached(puts, outs)
    BY <1>3, <1>6 DEF Registrable
  <2>2. PICK t : t = <<"site", p>>
    OBVIOUS
  <2>3. t \in Attached(puts, outs) /\ t \in Names(puts[i], outs[i])
    BY <1>1, <1>3, <2>1, <2>2 DEF Commitment, Names, Attachments
  <2>4. PICK j \in Answered(outs) : t \in Names(puts[j], outs[j]) /\ t \in Claims(puts, outs, j)
    BY <1>2, <2>3, FirstClaims
  <2>5. PICK q \in Puts : q = puts[j]
    BY DEF Results, Answered
  <2>6. q = p
    <3>1. t \in Artifacts \X {q}
      BY <2>4, <2>5, AttachmentTokens
    <3>. QED BY <2>2, <3>1
  <2>7. outs[j] \in Accepting
    BY <2>4 DEF Names
  <2>8. outs[j] # "mismatch"
    <3>1. SUFFICES ASSUME outs[j] = "mismatch" PROVE FALSE
      OBVIOUS
    <3>2. t \in Attachments(q, "mismatch")
      BY <2>4, <2>5, <2>7, <3>1 DEF Names
    <3>3. <<"site", p>> # <<"other", q>> /\ <<"site", p>> # <<"pdp", q>> /\ <<"site", p>> # <<"pdpReceipt", q>>
      OBVIOUS
    <3>. QED BY <2>2, <3>2, <3>3 DEF Attachments, Commitment
  <2>9. t \in AnswerGroup(puts, outs, j)
    BY <2>4 DEF AnswerGroup
  <2>10. <<"inv", p>> \in AnswerGroup(puts, outs, j) /\ <<outs[j], p>> \in AnswerGroup(puts, outs, j)
    BY <1>4, <2>5, <2>6
  <2>11. Warrants(AnswerGroup(puts, outs, j), p)
    BY <2>2, <2>7, <2>8, <2>9, <2>10 DEF Warrants, Shows
  <2>. QED BY <1>3, <2>11
<1>. QED BY <1>5, <1>6

\* Of the puts of O, the tokens ts hold an acceptance whole or not at all.
Whole(ts, O) ==
    \A p \in O, out \in Outcomes :
        <<out, p>> \in ts => Names(p, out) \cap Sent(p, out) \subseteq ts

\* What is written for the answers of a provider.
LEMMA Messages ==
    ASSUME NEW puts, NEW outs, Results(puts, outs), NEW O \in SUBSET Puts, Singly(puts, O),
           NEW ms, ms = Pack(Groups(puts, outs))
    PROVE  /\ ms \in Seq(Message)
           /\ \A k \in 1 .. Len(ms) : Fits(ms[k]) /\ Whole(Held(ms[k]), O)
           /\ \A i \in Registrable(puts, outs) : \E k \in 1 .. Len(ms) : Warrants(Held(ms[k]), puts[i])
<1>1. PICK gs : gs = Groups(puts, outs)
  OBVIOUS
<1>2. gs \in Seq(Group)
  BY <1>1, Grouping
<1>3. /\ ms \in Seq(Message)
      /\ \A k \in 1 .. Len(ms) : Fits(ms[k])
      /\ \A k \in 1 .. Len(ms) : \A i \in 1 .. Len(ms[k]) : \E j \in 1 .. Len(gs) : ms[k][i] = gs[j]
      /\ \A j \in 1 .. Len(gs) : \E k \in 1 .. Len(ms) : \E i \in 1 .. Len(ms[k]) : ms[k][i] = gs[j]
  <2>1. ms = Pack(gs)
    BY <1>1
  <2>2. /\ Pack(gs) \in Seq(Message)
        /\ \A k \in 1 .. Len(Pack(gs)) : Fits(Pack(gs)[k])
        /\ \A k \in 1 .. Len(Pack(gs)) : \A i \in 1 .. Len(Pack(gs)[k]) :
              \E j \in 1 .. Len(gs) : Pack(gs)[k][i] = gs[j]
        /\ \A j \in 1 .. Len(gs) :
              \E k \in 1 .. Len(Pack(gs)) : \E i \in 1 .. Len(Pack(gs)[k]) : Pack(gs)[k][i] = gs[j]
    BY <1>2, Packing
  <2>3. PICK pk : pk = Pack(gs)
    OBVIOUS
  <2>4. /\ pk \in Seq(Message)
        /\ \A k \in 1 .. Len(pk) : Fits(pk[k])
    BY ONLY <2>2, <2>3
  <2>5. \A k \in 1 .. Len(pk) : \A i \in 1 .. Len(pk[k]) : \E j \in 1 .. Len(gs) : pk[k][i] = gs[j]
    BY ONLY <2>2, <2>3
  <2>6. \A j \in 1 .. Len(gs) : \E k \in 1 .. Len(pk) : \E i \in 1 .. Len(pk[k]) : pk[k][i] = gs[j]
    BY ONLY <2>2, <2>3
  <2>7. ms = pk
    BY ONLY <2>1, <2>3
  <2>. QED BY ONLY <2>4, <2>5, <2>6, <2>7, ZenonT(40)
<1>4. ASSUME NEW k \in 1 .. Len(ms), NEW t
      PROVE  t \in Held(ms[k]) <=> \E i \in 1 .. Len(ms[k]) : t \in ms[k][i]
  <2>1. ms[k] \in Seq(Group)
    BY <1>3 DEF Message
  <2>2. DOMAIN ms[k] = 1 .. Len(ms[k])
    BY <2>1
  <2>. QED BY <2>2 DEF Held, ToSet
<1>5. ASSUME NEW k \in 1 .. Len(ms), NEW t, t \in Held(ms[k])
      PROVE  \E j \in 1 .. Len(gs) : t \in gs[j] /\ gs[j] \subseteq Held(ms[k])
  <2>1. PICK i \in 1 .. Len(ms[k]) : t \in ms[k][i]
    BY <1>4, <1>5
  <2>2. PICK j \in 1 .. Len(gs) : ms[k][i] = gs[j]
    BY <1>3
  <2>3. gs[j] \subseteq Held(ms[k])
    BY <1>4, <2>2
  <2>. QED BY <2>1, <2>2, <2>3
<1>6. AnswersApart(gs, puts, outs)
  BY <1>1, AnswerOnly
<1>7. \A i \in Answered(outs) : puts[i] \in O =>
        Names(puts[i], outs[i]) \cap Sent(puts[i], outs[i]) \subseteq Claims(puts, outs, i)
  BY ClaimsAll
<1>8. ASSUME NEW k \in 1 .. Len(ms) PROVE Whole(Held(ms[k]), O)
  <2>1. SUFFICES ASSUME NEW p \in O, NEW out \in Outcomes, <<out, p>> \in Held(ms[k])
                 PROVE  Names(p, out) \cap Sent(p, out) \subseteq Held(ms[k])
    BY DEF Whole
  <2>2. PICK j \in 1 .. Len(gs) : <<out, p>> \in gs[j] /\ gs[j] \subseteq Held(ms[k])
    BY <1>5, <2>1
  <2>3. p \in Puts
    OBVIOUS
  <2>4. PICK i \in Answered(outs) : /\ puts[i] = p /\ outs[i] = out
                                    /\ gs[j] = AnswerGroup(puts, outs, i)
    BY <1>6, <2>2, <2>3 DEF AnswersApart
  <2>5. Names(p, out) \cap Sent(p, out) \subseteq Claims(puts, outs, i)
    BY <1>7, <2>4
  <2>. QED BY <2>2, <2>4, <2>5 DEF AnswerGroup
<1>9. ASSUME NEW i \in Registrable(puts, outs)
      PROVE  \E k \in 1 .. Len(ms) : Warrants(Held(ms[k]), puts[i])
  <2>1. PICK j \in Answered(outs) : Warrants(AnswerGroup(puts, outs, j), puts[i])
    BY GroupWarrants
  <2>2. PICK n \in 1 .. Len(gs) : gs[n] = AnswerGroup(puts, outs, j)
    <3>1. \E n \in 1 .. Len(Groups(puts, outs)) : Groups(puts, outs)[n] = AnswerGroup(puts, outs, j)
      BY Grouping
    <3>. QED BY <1>1, <3>1
  <2>3. PICK k \in 1 .. Len(ms) : \E m \in 1 .. Len(ms[k]) : ms[k][m] = gs[n]
    BY <1>3
  <2>4. PICK g, ts : g = gs[n] /\ ts = Held(ms[k])
    OBVIOUS
  <2>5. g \subseteq ts
    BY <1>4, <2>3, <2>4
  <2>6. Warrants(g, puts[i])
    BY <2>1, <2>2, <2>4
  <2>7. Warrants(ts, puts[i])
    BY <2>5, <2>6 DEF Warrants, Shows
  <2>. QED BY <2>4, <2>7
<1>. QED BY <1>3, <1>8, <1>9

----------------------------------------------------------------------------
\* Resolving the delivery

LEMMA SubsequenceSingly ==
    ASSUME NEW A, NEW s \in Seq(A), NEW I \in SUBSET (1 .. Len(s)), NEW O, Singly(s, O)
    PROVE  Singly(Subsequence(s, I), O)
<1>1. /\ IsFiniteSet(I) /\ Subsequence(s, I) \in Seq(A)
      /\ Len(Subsequence(s, I)) = Cardinality(I)
      /\ \A j \in 1 .. Cardinality(I) :
            InOrder(I)[j] \in I /\ Subsequence(s, I)[j] = s[InOrder(I)[j]]
  BY SubsequenceMembers
<1>2. I \in SUBSET Int /\ Len(s) \in Nat /\ DOMAIN s = 1 .. Len(s)
  OBVIOUS
<1>3. DOMAIN Subsequence(s, I) = 1 .. Cardinality(I) /\ Cardinality(I) \in Nat
  BY <1>1
<1>4. SUFFICES ASSUME NEW i \in 1 .. Cardinality(I), NEW j \in 1 .. Cardinality(I),
                      s[InOrder(I)[i]] = s[InOrder(I)[j]], s[InOrder(I)[i]] \in O
               PROVE  i = j
  BY <1>1, <1>3 DEF Singly
<1>5. InOrder(I)[i] = InOrder(I)[j]
  BY <1>1, <1>2, <1>4 DEF Singly
<1>6. InOrder(I)[i] \in Int
  BY <1>1, <1>2
<1>7. i < j => InOrder(I)[i] < InOrder(I)[j]
  BY <1>1, <1>2, InOrderRises
<1>8. j < i => InOrder(I)[j] < InOrder(I)[i]
  BY <1>1, <1>2, InOrderRises
<1>9. i \in Int /\ j \in Int
  BY <1>3
<1>. QED BY <1>5, <1>6, <1>7, <1>8, <1>9

----------------------------------------------------------------------------
\* The inductive invariant

Live == {p \in Puts : ~Skipped(p)}
Once == {p \in Puts : DeliveredOnce(p)}

\* The answers come in order, chunk by chunk.
Prefix(outs) == \E n \in 0 .. Len(outs) : \A i \in 1 .. Len(outs) : outs[i] # "none" <=> i <= n

\* While the handler works on the puts h: the answers so far are among what was
\* heard, and no acceptance that came has been lost.
Working(h, outs, hd, rec, reg) ==
    /\ Results(h, outs)
    /\ Prefix(outs)
    /\ \A i \in Answered(outs) : Came(h[i], outs[i]) \subseteq hd
    /\ rec \subseteq reg \cup {h[i] : i \in Registrable(h, outs)}

\* While it writes: what is still to be written is well packed, and a put that
\* will be registered has what warrants it in a message, stored or among those.
Writing(h, outs, box, wr, O) ==
    /\ box \in Seq(Message)
    /\ \A k \in 1 .. Len(box) : Fits(box[k]) /\ Whole(Held(box[k]), O)
    /\ \A i \in Registrable(h, outs) :
          \/ \E m \in wr : Warrants(Held(m), h[i])
          \/ \E k \in 1 .. Len(box) : Warrants(Held(box[k]), h[i])

\* What the stores hold.
Stored(reg, hd, wr, O) ==
    /\ \A p \in reg : p \in Live /\ Shows(hd, p) /\ \E m \in wr : Warrants(Held(m), p)
    /\ \A m \in wr : Fits(m) /\ Whole(Held(m), O)

\* The providers still to process.
Pending(td, O) ==
    /\ td \in Seq(Seq(Live))
    /\ \A k \in 1 .. Len(td) : Singly(td[k], O)

\* What can be heard from a node.
Hearable == (Outcomes \cup Artifacts) \X Puts

BatchInv ==
    /\ delivery \in Deliveries
    /\ pc \in {"idle", "accept", "write"}
    /\ faults \subseteq {"node", "store", "crash"}
    /\ heard \subseteq Hearable /\ received \subseteq Puts
    /\ Pending(todo, Once)
    /\ pc # "idle" => todo # <<>> /\ Working(Head(todo), answers, heard, received, registered)
    /\ pc = "write" => Writing(Head(todo), answers, outbox, written, Once)
    /\ pc = "idle" /\ faults \subseteq {"node"} => received \subseteq registered
    /\ Stored(registered, heard, written, Once)
    /\ Whole(answered, Puts) /\ Whole(response, Puts)

\* The puts that are not passed over, by provider.
LEMMA Dispatch ==
    ASSUME NEW d \in Seq(Puts), NEW O, Singly(d, O)
    PROVE  Pending(ByProvider(Resolved(d)), O)
<1> DEFINE I == {i \in DOMAIN d : ~Skipped(d[i])}
<1>1. I \in SUBSET (1 .. Len(d))
  OBVIOUS
<1>2. PICK r : r = Subsequence(d, I)
  OBVIOUS
<1>3. /\ IsFiniteSet(I) /\ r \in Seq(Puts) /\ Len(r) = Cardinality(I)
      /\ \A j \in 1 .. Cardinality(I) : InOrder(I)[j] \in I /\ r[j] = d[InOrder(I)[j]]
  <2>. HIDE DEF I
  <2>. QED BY <1>1, <1>2, SubsequenceMembers
<1>4. r \in Seq(Live)
  <2>1. \A i \in I : d[i] \in Live
    BY <1>1 DEF Live
  <2>2. \A j \in 1 .. Len(r) : r[j] \in Live
    BY <1>3, <2>1
  <2>. QED BY <1>3, <2>2
<1>5. Singly(r, O)
  <2>. HIDE DEF I
  <2>. QED BY <1>1, <1>2, SubsequenceSingly
<1>6. Resolved(d) = r
  BY <1>2 DEF Resolved
<1> DEFINE F == {i \in DOMAIN r : \A j \in 1 .. (i - 1) : Provider[r[j]] # Provider[r[i]]}
           G(n) == {i \in DOMAIN r : Provider[r[i]] = Provider[r[InOrder(F)[n]]]}
           td == [n \in DOMAIN InOrder(F) |-> Subsequence(r, G(n))]
<1>7. ByProvider(r) = td
  BY DEF ByProvider
<1>8. Cardinality(F) \in Nat /\ DOMAIN InOrder(F) = 1 .. Cardinality(F)
  <2>1. F \in SUBSET (1 .. Len(r)) /\ Len(r) \in Nat
    BY <1>4
  <2>2. F \in SUBSET Int
    BY <2>1
  <2>3. IsFiniteSet(1 .. Len(r))
    BY <2>1, FS_Interval
  <2>. HIDE DEF F
  <2>4. IsFiniteSet(F)
    BY <2>1, <2>3, FS_Subset
  <2>5. Cardinality(F) \in Nat /\ InOrder(F) \in [1 .. Cardinality(F) -> F]
    BY <2>2, <2>4, InOrderMembers
  <2>. QED BY <2>5
<1>9. ASSUME NEW n \in 1 .. Cardinality(F)
      PROVE  Subsequence(r, G(n)) \in Seq(Live) /\ Singly(Subsequence(r, G(n)), O)
  <2>1. G(n) \in SUBSET (1 .. Len(r))
    BY <1>4
  <2>. HIDE DEF G
  <2>. QED BY <1>4, <1>5, <2>1, SubsequenceMembers, SubsequenceSingly
<1>10. td \in [1 .. Cardinality(F) -> Seq(Live)] /\ \A n \in 1 .. Cardinality(F) : Singly(td[n], O)
  <2>. HIDE DEF F, G
  <2>. QED BY <1>8, <1>9
<1>11. td \in Seq(Seq(Live)) /\ Len(td) = Cardinality(F)
  <2>. HIDE DEF td, F
  <2>. QED BY <1>8, <1>10, FunctionIsSeq
<1>12. \A n \in 1 .. Len(td) : Singly(td[n], O)
  <2>. HIDE DEF td, F
  <2>. QED BY <1>10, <1>11
<1>. QED BY <1>6, <1>7, <1>11, <1>12 DEF Pending

\* The work on a provider starts with no answers.
LEMMA FreshStart ==
    ASSUME NEW td, NEW O, Pending(td, O), td # <<>>, NEW hd, NEW reg, NEW rec \in SUBSET reg
    PROVE  Working(Head(td), NoAnswers(td), hd, rec, reg)
<1>1. PICK h \in Seq(Live) : h = Head(td)
  BY DEF Pending
<1>2. PICK n \in Nat : n = Len(h) /\ DOMAIN h = 1 .. n
  OBVIOUS
<1>3. PICK o : o = NoAnswers(td)
  OBVIOUS
<1>4. o = [i \in 1 .. n |-> "none"]
  BY <1>1, <1>2, <1>3 DEF NoAnswers
<1>5. o \in [1 .. n -> Outcomes \cup {"none"}]
  BY <1>4
<1>6. o \in Seq(Outcomes \cup {"none"}) /\ Len(o) = n
  BY <1>5, FunctionIsSeq
<1>7. h \in Seq(Puts)
  BY DEF Live
<1>8. Results(h, o)
  BY <1>2, <1>6, <1>7 DEF Results
<1>9. Answered(o) = {}
  BY <1>4 DEF Answered
<1>10. Prefix(o)
  <2>1. 0 \in 0 .. Len(o) /\ \A i \in 1 .. Len(o) : o[i] = "none" /\ ~(i <= 0)
    BY <1>4, <1>6
  <2>. QED BY <2>1 DEF Prefix
<1>. QED BY <1>1, <1>3, <1>8, <1>9, <1>10 DEF Working

LEMMA InitInv == Init => BatchInv
<1> SUFFICES ASSUME Init PROVE BatchInv
  OBVIOUS
<1>1. Pending(<<>>, Once)
  BY DEF Pending
<1>2. Whole({}, Puts)
  BY DEF Whole
<1>3. Stored({}, heard, {}, Once)
  BY DEF Stored
<1>. QED BY <1>1, <1>2, <1>3 DEF Init, BatchInv

\* The puts listed once do not change: the client delivers the same again.
LEMMA SameOnce == ASSUME UNCHANGED delivery PROVE Once' = Once
BY DEF Once, DeliveredOnce

LEMMA ConcludeInv == ASSUME BatchInv, Conclude PROVE BatchInv'
<1>1. PICK O : O = Once
  OBVIOUS
<1>2. Once' = O
  BY <1>1, SameOnce DEF Conclude
<1>3. delivery \in Seq(Puts) /\ Singly(delivery, O)
  BY <1>1, BatchAssumption DEF BatchInv, Singly, Once, DeliveredOnce
<1>4. PICK td : td = ByProvider(Resolved(delivery))
  OBVIOUS
<1>5. Pending(td, O)
  BY <1>3, <1>4, Dispatch
<1>6. Pending(<<>>, O)
  BY DEF Pending
<1>7. Whole({}, Puts)
  BY DEF Whole
<1>8. Stored(registered, heard, written, O)
  BY <1>1 DEF BatchInv
<1>9. td # <<>> => Working(Head(td), NoAnswers(td), heard, {}, registered)
  <2>1. {} \in SUBSET registered
    OBVIOUS
  <2>. QED BY <1>5, <2>1, FreshStart
<1>10. /\ delivery' \in Deliveries /\ faults' = {} /\ received' = {}
       /\ heard' \subseteq Hearable
       /\ Whole(answered', Puts) /\ Whole(response', Puts)
       /\ Stored(registered', heard', written', O)
  BY <1>7, <1>8 DEF BatchInv, Conclude, stores
<1>11. CASE Unresolved(delivery)
  <2>1. pc' = "idle" /\ todo' = <<>>
    BY <1>11 DEF Conclude
  <2>. QED BY <1>2, <1>6, <1>10, <2>1 DEF BatchInv
<1>12. CASE ~Unresolved(delivery)
  <2>1. /\ pc' = IF td = <<>> THEN "idle" ELSE "accept"
        /\ todo' = td /\ answers' = NoAnswers(td)
        /\ heard' = heard /\ registered' = registered
    BY <1>4, <1>12 DEF Conclude, stores
  <2>2. pc' # "idle" => Working(Head(todo'), answers', heard', received', registered')
    BY <1>9, <1>10, <2>1
  <2>3. pc' # "idle" => todo' # <<>>
    BY <2>1
  <2>4. pc' \in {"idle", "accept", "write"} /\ pc' # "write"
    BY <2>1
  <2>. QED BY <1>2, <1>5, <1>10, <2>1, <2>2, <2>3, <2>4 DEF BatchInv
<1>. QED BY <1>11, <1>12

----------------------------------------------------------------------------
\* One request to the node

\* C is places right after the answered ones.
IsChunk(C, o) ==
    \E n \in 0 .. Len(o) : \E m \in n .. Len(o) :
        /\ C = (n + 1) .. m
        /\ \A i \in 1 .. Len(o) : o[i] # "none" <=> i <= n

LEMMA ChunkPlaces ==
    ASSUME answers \in Seq(Outcomes \cup {"none"}), Prefix(answers)
    PROVE  IsChunk(Chunk, answers)
<1>1. Len(answers) \in Nat /\ DOMAIN answers = 1 .. Len(answers)
  OBVIOUS
<1>2. PICK n \in 0 .. Len(answers) : \A i \in 1 .. Len(answers) : answers[i] # "none" <=> i <= n
  BY DEF Prefix
<1>3. n \in Nat
  BY <1>1
<1>4. {i \in DOMAIN answers : answers[i] # "none"} = 1 .. n
  BY <1>1, <1>2
<1>5. Cardinality(1 .. n) = n
  BY <1>3, FS_Interval
<1>6. PICK m : m = IF n + MaxBatch < Len(answers) THEN n + MaxBatch ELSE Len(answers)
  OBVIOUS
<1>7. m \in n .. Len(answers)
  <2>1. MaxBatch \in Nat
    BY BatchAssumption
  <2>2. PICK L \in Nat : L = Len(answers)
    BY <1>1
  <2>3. n <= L /\ m = IF n + MaxBatch < L THEN n + MaxBatch ELSE L
    BY <1>6, <2>2
  <2>4. m \in n .. L
    BY <1>3, <2>1, <2>3
  <2>. QED BY <2>2, <2>4
<1>8. Chunk = (n + 1) .. m
  BY <1>4, <1>5, <1>6 DEF Chunk
<1>. QED BY <1>2, <1>7, <1>8 DEF IsChunk

\* The node answers out to the chunk C, which makes the answers o to outs, what
\* was heard, hd, to hd2 and the acceptances received, rec, to rec2.
ChunkStep(h, C, out, o, outs, hd, hd2, rec, rec2) ==
    /\ out \in [{h[i] : i \in C} -> Outcomes]
    /\ outs = [i \in DOMAIN o |-> IF i \in C THEN out[h[i]] ELSE o[i]]
    /\ hd2 = hd \cup UNION {Came(p, out[p]) : p \in DOMAIN out}
    /\ rec2 = rec \cup {p \in DOMAIN out : Shows(Came(p, out[p]), p)}

\* An answer that came with what shows the acceptance is registered.
LEMMA ShownIsRegistrable ==
    ASSUME NEW h, NEW outs, Results(h, outs), NEW i \in Answered(outs),
           Shows(Came(h[i], outs[i]), h[i])
    PROVE  i \in Registrable(h, outs)
<1>1. PICK p \in Puts, out \in Outcomes : p = h[i] /\ out = outs[i]
  BY DEF Results, Answered
<1>2. PICK acc \in Accepting :
        <<acc, p>> \in Came(p, out) /\ (p \in Hashed \/ (acc # "mismatch" /\ <<"site", p>> \in Came(p, out)))
  BY <1>1 DEF Shows
<1>3. Sent(p, out) \subseteq Artifacts \X {p}
  BY AttachmentTokens
<1>4. acc = out
  <2>1. acc \notin Artifacts
    BY DEF Accepting, Artifacts
  <2>2. <<acc, p>> \notin Artifacts \X {p}
    BY <2>1
  <2>. QED BY <1>2, <1>3, <2>2 DEF Came
<1>5. CASE p \in Hashed
  BY <1>1, <1>2, <1>4, <1>5 DEF Registrable, Answered
<1>6. CASE p \notin Hashed
  <2>1. out # "mismatch" /\ <<"site", p>> \in Came(p, out)
    BY <1>2, <1>4, <1>6
  <2>2. <<"site", p>> # <<out, p>>
    BY DEF Outcomes
  <2>3. <<"site", p>> \in Attached(h, outs)
    BY <1>1, <2>1, <2>2, SentAttached DEF Came
  <2>4. Commitment(p, out) = <<"site", p>>
    BY <2>1 DEF Commitment
  <2>. QED BY <1>1, <1>2, <1>4, <2>1, <2>3, <2>4 DEF Registrable, Answered
<1>. QED BY <1>5, <1>6

LEMMA ChunkAnswered ==
    ASSUME NEW h, NEW o, NEW hd \in SUBSET Hearable, NEW rec \in SUBSET Puts, NEW reg,
           Working(h, o, hd, rec, reg), NEW C, IsChunk(C, o),
           NEW out, NEW outs, NEW hd2, NEW rec2, ChunkStep(h, C, out, o, outs, hd, hd2, rec, rec2)
    PROVE  /\ hd2 \in SUBSET Hearable /\ hd \subseteq hd2 /\ rec2 \in SUBSET Puts
           /\ Working(h, outs, hd2, rec2, reg)
<1>n. PICK n \in 0 .. Len(o) : \E m \in n .. Len(o) :
        /\ C = (n + 1) .. m
        /\ \A i \in 1 .. Len(o) : o[i] # "none" <=> i <= n
  BY DEF IsChunk
<1>m. PICK m \in n .. Len(o) :
        /\ C = (n + 1) .. m
        /\ \A i \in 1 .. Len(o) : o[i] # "none" <=> i <= n
  BY <1>n
<1>s. /\ out \in [{h[i] : i \in C} -> Outcomes]
      /\ outs = [i \in DOMAIN o |-> IF i \in C THEN out[h[i]] ELSE o[i]]
      /\ hd2 = hd \cup UNION {Came(p, out[p]) : p \in DOMAIN out}
      /\ rec2 = rec \cup {p \in DOMAIN out : Shows(Came(p, out[p]), p)}
  BY DEF ChunkStep
<1>1. /\ h \in Seq(Puts) /\ o \in Seq(Outcomes \cup {"none"}) /\ Len(o) = Len(h)
      /\ \A i \in Answered(o) : Came(h[i], o[i]) \subseteq hd
      /\ rec \subseteq reg \cup {h[i] : i \in Registrable(h, o)}
  BY DEF Working, Results
<1>2. PICK L \in Nat : L = Len(o) /\ DOMAIN o = 1 .. L /\ DOMAIN h = 1 .. L
  BY <1>1
<1>3. \A i \in 1 .. L : h[i] \in Puts /\ o[i] \in Outcomes \cup {"none"}
  BY <1>1, <1>2
<1>4. n \in Nat /\ m \in Nat /\ n <= m /\ m <= L
  BY <1>2
<1>5. C \subseteq 1 .. L /\ \A i \in C : o[i] = "none" /\ h[i] \in DOMAIN out
  <2>1. \A i \in C : i \in 1 .. L /\ ~(i <= n)
    BY <1>4, <1>m
  <2>2. \A i \in C : o[i] = "none"
    BY <1>2, <1>m, <2>1
  <2>. QED BY <1>s, <2>1, <2>2
<1>6. \A p \in DOMAIN out : out[p] \in Outcomes
  BY <1>s
<1>7. \A i \in 1 .. L : outs[i] = IF i \in C THEN out[h[i]] ELSE o[i]
  BY <1>2, <1>s
<1>8. outs \in Seq(Outcomes \cup {"none"}) /\ Len(outs) = L /\ DOMAIN outs = 1 .. L
  <2>1. \A i \in 1 .. L : outs[i] \in Outcomes \cup {"none"}
    BY <1>3, <1>5, <1>6, <1>7
  <2>2. outs \in [1 .. L -> Outcomes \cup {"none"}]
    BY <1>2, <1>s, <2>1
  <2>. QED BY <2>2, FunctionIsSeq
<1>9. Results(h, outs)
  BY <1>1, <1>2, <1>8 DEF Results
<1>10. Prefix(outs)
  <2>1. ASSUME NEW i \in 1 .. L PROVE outs[i] # "none" <=> i <= m
    <3>1. CASE i \in C
      <4>1. outs[i] \in Outcomes /\ i <= m
        BY <1>m, <1>4, <1>5, <1>6, <1>7, <3>1
      <4>. QED BY <4>1 DEF Outcomes
    <3>2. CASE i \notin C
      <4>1. outs[i] = o[i]
        BY <1>7, <3>2
      <4>2. i <= m <=> i <= n
        BY <1>m, <1>4, <3>2
      <4>. QED BY <1>2, <1>m, <4>1, <4>2
    <3>. QED BY <3>1, <3>2
  <2>2. m \in 0 .. Len(outs)
    BY <1>4, <1>8
  <2>. QED BY <1>8, <2>1, <2>2 DEF Prefix
<1>11. DOMAIN out \in SUBSET Puts
  BY <1>3, <1>5, <1>s
<1>12. hd2 \in SUBSET Hearable /\ hd \subseteq hd2 /\ rec2 \in SUBSET Puts
  <2>1. ASSUME NEW p \in DOMAIN out PROVE Came(p, out[p]) \subseteq Hearable
    <3>1. p \in Puts /\ out[p] \in Outcomes
      BY <1>6, <1>11
    <3>2. Sent(p, out[p]) \subseteq Artifacts \X {p}
      BY <3>1, AttachmentTokens
    <3>3. Artifacts \X {p} \subseteq Hearable /\ <<out[p], p>> \in Hearable
      BY <3>1 DEF Hearable
    <3>. QED BY <3>2, <3>3 DEF Came
  <2>. QED BY <1>11, <1>s, <2>1
<1>13. \A i \in DOMAIN o : o[i] # "none" => outs[i] = o[i]
  BY <1>2, <1>5, <1>7
<1>14. ASSUME NEW i \in Answered(outs) PROVE Came(h[i], outs[i]) \subseteq hd2
  <2>1. i \in 1 .. L /\ outs[i] # "none"
    BY <1>8 DEF Answered
  <2>2. CASE i \in C
    <3>1. outs[i] = out[h[i]] /\ h[i] \in DOMAIN out
      BY <1>5, <1>7, <2>1, <2>2
    <3>. QED BY <1>s, <3>1
  <2>3. CASE i \notin C
    <3>1. outs[i] = o[i] /\ i \in Answered(o)
      BY <1>2, <1>7, <2>1, <2>3 DEF Answered
    <3>. QED BY <1>1, <1>12, <3>1
  <2>. QED BY <2>2, <2>3
<1>15. Registrable(h, o) \subseteq Registrable(h, outs)
  <2>1. SUFFICES ASSUME NEW i \in Registrable(h, o) PROVE i \in Registrable(h, outs)
    OBVIOUS
  <2>2. i \in DOMAIN o /\ o[i] \in Accepting
    BY DEF Registrable
  <2>3. o[i] # "none"
    BY <2>2 DEF Accepting
  <2>4. outs[i] = o[i] /\ i \in DOMAIN outs
    BY <1>2, <1>8, <1>13, <2>2, <2>3
  <2>5. Attached(h, o) \subseteq Attached(h, outs)
    <3>1. SUFFICES ASSUME NEW j \in DOMAIN o PROVE Sent(h[j], o[j]) \subseteq Attached(h, outs)
      BY DEF Attached
    <3>2. CASE o[j] = "none"
      BY <3>2 DEF Sent
    <3>3. CASE o[j] # "none"
      <4>1. outs[j] = o[j] /\ j \in DOMAIN outs
        BY <1>2, <1>8, <1>13, <3>3
      <4>. QED BY <4>1 DEF Attached
    <3>. QED BY <3>2, <3>3
  <2>. QED BY <2>2, <2>4, <2>5 DEF Registrable
<1>16. ASSUME NEW p \in rec2 PROVE p \in reg \cup {h[i] : i \in Registrable(h, outs)}
  <2>1. CASE p \in rec
    <3>1. p \in reg \/ \E i \in Registrable(h, o) : p = h[i]
      BY <1>1, <2>1
    <3>. QED BY <1>15, <3>1
  <2>2. CASE p \in DOMAIN out /\ Shows(Came(p, out[p]), p)
    <3>1. PICK i \in C : p = h[i]
      BY <1>s, <2>2
    <3>2. i \in DOMAIN outs /\ outs[i] = out[p] /\ outs[i] \in Outcomes
      BY <1>5, <1>6, <1>7, <1>8, <2>2, <3>1
    <3>3. i \in Answered(outs)
      BY <3>2 DEF Answered, Outcomes
    <3>4. i \in Registrable(h, outs)
      BY <1>9, <2>2, <3>1, <3>2, <3>3, ShownIsRegistrable
    <3>. QED BY <3>1, <3>4
  <2>. QED BY <1>s, <2>1, <2>2
<1>. QED BY <1>9, <1>10, <1>12, <1>14, <1>16 DEF Working

\* What is written when the answers are in, or when a chunk has failed.
LEMMA WritingStarts ==
    ASSUME NEW h, NEW outs, Results(h, outs), NEW O \in SUBSET Puts, Singly(h, O),
           NEW wr, NEW a, Whole(a, Puts)
    PROVE  /\ Writing(h, outs, Pack(Groups(h, outs)), wr, O)
           /\ Whole(a \cup UNION ToSet(Groups(h, outs)), Puts)
<1>1. PICK ms : ms = Pack(Groups(h, outs))
  OBVIOUS
<1>2. /\ ms \in Seq(Message)
      /\ \A k \in 1 .. Len(ms) : Fits(ms[k]) /\ Whole(Held(ms[k]), O)
      /\ \A i \in Registrable(h, outs) : \E k \in 1 .. Len(ms) : Warrants(Held(ms[k]), h[i])
  BY <1>1, Messages
<1>3. Writing(h, outs, ms, wr, O)
  BY <1>2 DEF Writing
<1>4. \A p \in Puts, out \in Outcomes : <<out, p>> \in Held(Groups(h, outs)) =>
        Names(p, out) \cap Sent(p, out) \subseteq Held(Groups(h, outs))
  BY GroupsWhole
<1>5. Whole(a \cup Held(Groups(h, outs)), Puts)
  BY <1>4 DEF Whole
<1>. QED BY <1>1, <1>3, <1>5 DEF Held

\* More is heard: what showed an acceptance still does.
LEMMA HeardMore ==
    ASSUME NEW reg, NEW hd, NEW hd2, hd \subseteq hd2, NEW wr, NEW O, Stored(reg, hd, wr, O)
    PROVE  Stored(reg, hd2, wr, O)
<1>1. \A p \in reg : Shows(hd, p) => Shows(hd2, p)
  BY DEF Shows
<1>. QED BY <1>1 DEF Stored

LEMMA AcceptChunkInv == ASSUME BatchInv, AcceptChunk PROVE BatchInv'
<1>1. PICK O : O = Once
  OBVIOUS
<1>2. Once' = O /\ O \in SUBSET Puts
  BY <1>1, SameOnce DEF AcceptChunk, Once
<1>3. /\ pc = "accept" /\ todo # <<>> /\ Pending(todo, O)
      /\ Working(Head(todo), answers, heard, received, registered)
      /\ heard \subseteq Hearable /\ received \subseteq Puts /\ Stored(registered, heard, written, O)
      /\ Whole(answered, Puts) /\ Whole(response, Puts)
  BY <1>1 DEF BatchInv, AcceptChunk
<1>4. PICK h : h = Head(todo)
  OBVIOUS
<1>5. Singly(h, O) /\ h \in Seq(Live)
  BY <1>3, <1>4 DEF Pending
<1>6. Results(h, answers) /\ answers \in Seq(Outcomes \cup {"none"}) /\ Prefix(answers)
  BY <1>3, <1>4 DEF Working, Results
<1>7. IsChunk(Chunk, answers)
  BY <1>6, ChunkPlaces
<1>8. PICK out \in [{Head(todo)[i] : i \in Chunk} -> Outcomes] :
        /\ \A p \in DOMAIN out : out[p] \in Replies[p]
        /\ LET outs == [i \in DOMAIN answers |->
                          IF i \in Chunk THEN out[Head(todo)[i]] ELSE answers[i]]
           IN  /\ answers' = outs
               /\ IF \E i \in DOMAIN outs : outs[i] = "none"
                  THEN UNCHANGED <<pc, outbox, answered>>
                  ELSE StartWriting(outs)
        /\ received' = received \cup {p \in DOMAIN out : Shows(Came(p, out[p]), p)}
        /\ heard' = heard \cup UNION {Came(p, out[p]) : p \in DOMAIN out}
  BY DEF AcceptChunk
<1>9. /\ UNCHANGED <<delivery, todo, response, faults, written, registered>>
  BY DEF AcceptChunk, stores
<1>10. PICK o, outs, hd, hd2, rec, rec2, reg, C :
         /\ o = answers /\ outs = answers' /\ hd = heard /\ hd2 = heard'
         /\ rec = received /\ rec2 = received' /\ reg = registered /\ C = Chunk
  OBVIOUS
<1>11. /\ hd2 \in SUBSET Hearable /\ hd \subseteq hd2 /\ rec2 \in SUBSET Puts
       /\ Working(h, outs, hd2, rec2, reg)
  <2>1. /\ hd \in SUBSET Hearable /\ rec \in SUBSET Puts
        /\ Working(h, o, hd, rec, reg) /\ IsChunk(C, o)
    BY <1>3, <1>4, <1>7, <1>10
  <2>2. ChunkStep(h, C, out, o, outs, hd, hd2, rec, rec2)
    <3>1. out \in [{h[i] : i \in C} -> Outcomes]
      BY <1>4, <1>8, <1>10
    <3>2. outs = [i \in DOMAIN o |-> IF i \in C THEN out[h[i]] ELSE o[i]]
      BY <1>4, <1>8, <1>10
    <3>3. hd2 = hd \cup UNION {Came(p, out[p]) : p \in DOMAIN out}
      BY <1>8, <1>10
    <3>4. rec2 = rec \cup {p \in DOMAIN out : Shows(Came(p, out[p]), p)}
      BY <1>8, <1>10
    <3>. QED BY <3>1, <3>2, <3>3, <3>4 DEF ChunkStep
  <2>. QED BY <2>1, <2>2, ChunkAnswered
<1>12. Stored(registered', heard', written', O)
  <2>1. PICK wr : wr = written
    OBVIOUS
  <2>2. Stored(reg, hd, wr, O)
    BY <1>3, <1>10, <2>1
  <2>3. Stored(reg, hd2, wr, O)
    BY <1>11, <2>2, HeardMore
  <2>. QED BY <1>9, <1>10, <2>1, <2>3
<1>13. /\ delivery' \in Deliveries /\ faults' \subseteq {"node", "store", "crash"}
       /\ heard' \subseteq Hearable /\ received' \subseteq Puts /\ Pending(todo', O) /\ todo' # <<>>
       /\ Working(Head(todo'), answers', heard', received', registered')
       /\ Whole(response', Puts)
  BY <1>3, <1>4, <1>9, <1>10, <1>11 DEF BatchInv
<1>14. CASE UNCHANGED <<pc, outbox, answered>>
  <2>1. pc' = "accept" /\ Whole(answered', Puts)
    BY <1>3, <1>14
  <2>. QED BY <1>2, <1>12, <1>13, <2>1 DEF BatchInv
<1>15. CASE StartWriting(outs)
  <2>1. /\ pc' = "write" /\ outbox' = Pack(Groups(h, outs))
        /\ answered' = answered \cup UNION ToSet(Groups(h, outs))
    BY <1>4, <1>15 DEF StartWriting
  <2>2. Results(h, outs)
    BY <1>11 DEF Working
  <2>3. PICK a, wr : a = answered /\ wr = written
    OBVIOUS
  <2>4. /\ Writing(h, outs, Pack(Groups(h, outs)), wr, O)
        /\ Whole(a \cup UNION ToSet(Groups(h, outs)), Puts)
    BY <1>2, <1>3, <1>5, <2>2, <2>3, WritingStarts
  <2>5. /\ Writing(Head(todo'), answers', outbox', written', O)
        /\ Whole(answered', Puts)
    BY <1>4, <1>9, <1>10, <2>1, <2>3, <2>4
  <2>. QED BY <1>2, <1>12, <1>13, <2>1, <2>5 DEF BatchInv
<1>. QED BY <1>8, <1>10, <1>14, <1>15

LEMMA ChunkFailsInv == ASSUME BatchInv, ChunkFails PROVE BatchInv'
<1>1. PICK O : O = Once
  OBVIOUS
<1>2. Once' = O /\ O \in SUBSET Puts
  BY <1>1, SameOnce DEF ChunkFails, Once
<1>3. /\ todo # <<>> /\ Pending(todo, O)
      /\ Working(Head(todo), answers, heard, received, registered)
      /\ Stored(registered, heard, written, O)
      /\ Whole(answered, Puts) /\ Whole(response, Puts)
  BY <1>1 DEF BatchInv, ChunkFails
<1>4. PICK h, o, a, wr : h = Head(todo) /\ o = answers /\ a = answered /\ wr = written
  OBVIOUS
<1>5. Singly(h, O) /\ Results(h, o)
  BY <1>3, <1>4 DEF Pending, Working
<1>6. /\ UNCHANGED <<delivery, todo, answers, response, received, written, registered, heard>>
      /\ faults' = faults \cup {"node"} /\ StartWriting(answers)
  BY DEF ChunkFails, stores
<1>7. /\ pc' = "write" /\ outbox' = Pack(Groups(h, o))
      /\ answered' = a \cup UNION ToSet(Groups(h, o))
  BY <1>4, <1>6 DEF StartWriting
<1>8. /\ Writing(h, o, Pack(Groups(h, o)), wr, O)
      /\ Whole(a \cup UNION ToSet(Groups(h, o)), Puts)
  <2>1. Whole(a, Puts)
    BY <1>3, <1>4
  <2>. QED BY <1>2, <1>5, <2>1, WritingStarts
<1>9. /\ Writing(Head(todo'), answers', outbox', written', O)
      /\ Whole(answered', Puts)
  BY <1>4, <1>6, <1>7, <1>8
<1>10. /\ delivery' \in Deliveries /\ faults' \subseteq {"node", "store", "crash"}
       /\ heard' \subseteq Hearable /\ received' \subseteq Puts /\ Pending(todo', O) /\ todo' # <<>>
       /\ Working(Head(todo'), answers', heard', received', registered')
       /\ Stored(registered', heard', written', O) /\ Whole(response', Puts)
  BY <1>3, <1>6 DEF BatchInv
<1>. QED BY <1>2, <1>7, <1>9, <1>10 DEF BatchInv

----------------------------------------------------------------------------
\* The stores

\* Writing the first message: what warrants a registration is stored or still
\* to be written.
LEMMA MessageWritten ==
    ASSUME NEW h, NEW o, NEW hd, NEW reg, NEW O, NEW box, NEW wr, NEW wr2,
           Writing(h, o, box, wr, O), Stored(reg, hd, wr, O), box # <<>>, wr2 = wr \cup {Head(box)}
    PROVE  Writing(h, o, Tail(box), wr2, O) /\ Stored(reg, hd, wr2, O)
<1>1. /\ box \in Seq(Message)
      /\ \A k \in 1 .. Len(box) : Fits(box[k]) /\ Whole(Held(box[k]), O)
      /\ \A i \in Registrable(h, o) :
            \/ \E m \in wr : Warrants(Held(m), h[i])
            \/ \E k \in 1 .. Len(box) : Warrants(Held(box[k]), h[i])
  BY DEF Writing
<1>2. PICK t \in Seq(Message), L \in Nat :
        t = Tail(box) /\ L = Len(t) /\ Len(box) = L + 1 /\ Head(box) = box[1]
        /\ \A k \in 1 .. L : t[k] = box[k + 1]
  <2>1. Tail(box) \in Seq(Message) /\ Head(box) = box[1]
    BY <1>1
  <2>2. Len(Tail(box)) \in Nat /\ Len(box) = Len(Tail(box)) + 1
    BY <1>1
  <2>3. \A k \in 1 .. Len(Tail(box)) : Tail(box)[k] = box[k + 1]
    BY <1>1
  <2>. QED BY <2>1, <2>2, <2>3
<1>3. 1 \in 1 .. Len(box) /\ \A k \in 1 .. L : k + 1 \in 1 .. Len(box)
  BY <1>2
<1>4. Fits(Head(box)) /\ Whole(Held(Head(box)), O)
  BY <1>1, <1>2, <1>3
<1>5. \A k \in 1 .. Len(t) : Fits(t[k]) /\ Whole(Held(t[k]), O)
  BY <1>1, <1>2, <1>3
<1>6. ASSUME NEW i \in Registrable(h, o)
      PROVE  \/ \E m \in wr2 : Warrants(Held(m), h[i])
             \/ \E k \in 1 .. Len(t) : Warrants(Held(t[k]), h[i])
  <2>1. CASE \E m \in wr : Warrants(Held(m), h[i])
    BY <2>1
  <2>2. ASSUME NEW k \in 1 .. Len(box), Warrants(Held(box[k]), h[i])
        PROVE  \/ \E m \in wr2 : Warrants(Held(m), h[i])
               \/ \E n \in 1 .. Len(t) : Warrants(Held(t[n]), h[i])
    <3>1. CASE k = 1
      <4>1. Head(box) \in wr2 /\ Warrants(Held(Head(box)), h[i])
        BY <1>2, <2>2, <3>1
      <4>. QED BY <4>1
    <3>2. CASE k # 1
      <4>1. k - 1 \in 1 .. L /\ (k - 1) + 1 = k
        BY <1>2, <3>2
      <4>2. t[k - 1] = box[k]
        BY <1>2, <4>1
      <4>. QED BY <1>2, <2>2, <4>1, <4>2
    <3>. QED BY <3>1, <3>2
  <2>. QED BY <1>1, <2>1, <2>2
<1>7. Writing(h, o, t, wr2, O)
  BY <1>5, <1>6 DEF Writing
<1>8. Stored(reg, hd, wr2, O)
  <2>1. \A m \in wr2 : Fits(m) /\ Whole(Held(m), O)
    BY <1>4 DEF Stored
  <2>2. \A p \in reg : p \in Live /\ Shows(hd, p) /\ \E m \in wr : Warrants(Held(m), p)
    BY DEF Stored
  <2>. QED BY <2>1, <2>2 DEF Stored
<1>. QED BY <1>2, <1>7, <1>8

LEMMA WriteMessageInv == ASSUME BatchInv, WriteMessage PROVE BatchInv'
<1>1. PICK O : O = Once
  OBVIOUS
<1>2. Once' = O
  BY <1>1, SameOnce DEF WriteMessage
<1>3. /\ pc = "write" /\ todo # <<>> /\ Pending(todo, O) /\ outbox # <<>>
      /\ Working(Head(todo), answers, heard, received, registered)
      /\ Writing(Head(todo), answers, outbox, written, O)
      /\ Stored(registered, heard, written, O)
  BY <1>1 DEF BatchInv, WriteMessage
<1>4. PICK h, o, hd, reg, box, wr, wr2 :
        /\ h = Head(todo) /\ o = answers /\ hd = heard /\ reg = registered
        /\ box = outbox /\ wr = written /\ wr2 = written'
  OBVIOUS
<1>5. wr2 = wr \cup {Head(box)} /\ outbox' = Tail(box)
  BY <1>4 DEF WriteMessage
<1>6. UNCHANGED <<delivery, pc, todo, answers, answered, response, received, heard, faults, registered>>
  BY DEF WriteMessage
<1>7. Writing(h, o, Tail(box), wr2, O) /\ Stored(reg, hd, wr2, O)
  <2>1. Writing(h, o, box, wr, O) /\ Stored(reg, hd, wr, O) /\ box # <<>>
    BY <1>3, <1>4
  <2>. QED BY <1>5, <2>1, MessageWritten
<1>8. /\ Writing(Head(todo'), answers', outbox', written', O)
      /\ Stored(registered', heard', written', O)
  BY <1>4, <1>5, <1>6, <1>7
<1>9. /\ Working(Head(todo'), answers', heard', received', registered')
      /\ Pending(todo', O) /\ todo' # <<>>
  BY <1>3, <1>6
<1>10. /\ delivery' \in Deliveries /\ faults' \subseteq {"node", "store", "crash"}
       /\ heard' \subseteq Hearable /\ received' \subseteq Puts /\ pc' = "write"
       /\ Whole(answered', Puts) /\ Whole(response', Puts)
  BY <1>3, <1>6 DEF BatchInv
<1>. QED BY <1>2, <1>8, <1>9, <1>10 DEF BatchInv

\* Once everything is written, the puts that were answered may be registered.
LEMMA Registers ==
    ASSUME NEW h \in Seq(Live), NEW o, NEW hd, NEW rec, NEW reg, NEW O, NEW wr,
           Working(h, o, hd, rec, reg), Writing(h, o, <<>>, wr, O), Stored(reg, hd, wr, O),
           NEW I \in SUBSET Registrable(h, o)
    PROVE  Stored(reg \cup {h[i] : i \in I}, hd, wr, O)
<1>1. Attached(h, o) \subseteq hd
  <2>1. SUFFICES ASSUME NEW j \in DOMAIN o PROVE Sent(h[j], o[j]) \subseteq hd
    BY DEF Attached
  <2>2. CASE o[j] = "none"
    BY <2>2 DEF Sent
  <2>3. CASE o[j] # "none"
    <3>1. j \in Answered(o)
      BY <2>3 DEF Answered
    <3>2. Came(h[j], o[j]) \subseteq hd
      BY <3>1 DEF Working
    <3>. QED BY <3>2 DEF Came
  <2>. QED BY <2>2, <2>3
<1>2. ASSUME NEW i \in I
      PROVE  h[i] \in Live /\ Shows(hd, h[i]) /\ \E m \in wr : Warrants(Held(m), h[i])
  <2>1. i \in Registrable(h, o) /\ i \in DOMAIN o /\ o[i] \in Accepting
    BY DEF Registrable
  <2>2. h[i] \in Live
    BY <2>1 DEF Working, Results
  <2>3. \A k : k \notin 1 .. Len(<<>>)
    OBVIOUS
  <2>4. \E m \in wr : Warrants(Held(m), h[i])
    BY <2>1, <2>3 DEF Writing
  <2>5. PICK p, out : p = h[i] /\ out = o[i]
    OBVIOUS
  <2>6. <<out, p>> \in hd
    <3>1. i \in Answered(o)
      BY <2>1 DEF Answered, Accepting
    <3>2. Came(h[i], o[i]) \subseteq hd
      BY <3>1 DEF Working
    <3>. QED BY <2>5, <3>2 DEF Came
  <2>7. p \in Hashed \/ (out # "mismatch" /\ Commitment(p, out) \in hd)
    BY <1>1, <2>1, <2>5 DEF Registrable
  <2>8. out # "mismatch" => Commitment(p, out) = <<"site", p>>
    BY DEF Commitment
  <2>9. Shows(hd, p)
    BY <2>1, <2>5, <2>6, <2>7, <2>8 DEF Shows
  <2>. QED BY <2>2, <2>4, <2>5, <2>9
<1>. QED BY <1>2 DEF Stored

LEMMA RegisterInv == ASSUME BatchInv, Register PROVE BatchInv'
<1>1. PICK O : O = Once
  OBVIOUS
<1>2. Once' = O
  BY <1>1, SameOnce DEF Register
<1>3. /\ pc = "write" /\ todo # <<>> /\ Pending(todo, O) /\ outbox = <<>>
      /\ Working(Head(todo), answers, heard, received, registered)
      /\ Writing(Head(todo), answers, outbox, written, O)
      /\ Stored(registered, heard, written, O)
  BY <1>1 DEF BatchInv, Register
<1>4. PICK h, o, hd, rec, reg, wr, I :
        /\ h = Head(todo) /\ o = answers /\ hd = heard /\ rec = received /\ reg = registered
        /\ wr = written /\ I = ToRegister
  OBVIOUS
<1>5. h \in Seq(Live) /\ I = Registrable(h, o)
  BY <1>3, <1>4 DEF Pending, ToRegister, Registrable
<1>6. Stored(reg \cup {h[i] : i \in I}, hd, wr, O)
  <2>1. Working(h, o, hd, rec, reg) /\ Writing(h, o, <<>>, wr, O) /\ Stored(reg, hd, wr, O)
    BY <1>3, <1>4
  <2>2. I \in SUBSET Registrable(h, o)
    BY <1>5
  <2>. QED BY <1>5, <2>1, <2>2, Registers
<1>7. registered' = reg \cup {h[i] : i \in I}
  BY <1>4 DEF Register
<1>8. rec \subseteq registered'
  BY <1>3, <1>4, <1>5, <1>7 DEF Working
<1>9. UNCHANGED <<delivery, outbox, answered, received, heard, faults, written>>
  BY DEF Register
<1>10. /\ Stored(registered', heard', written', O)
       /\ delivery' \in Deliveries /\ faults' \subseteq {"node", "store", "crash"}
       /\ heard' \subseteq Hearable /\ received' \subseteq Puts
       /\ Whole(answered', Puts) /\ received' \subseteq registered'
  BY <1>4, <1>6, <1>7, <1>8, <1>9 DEF BatchInv
<1>11. CASE "node" \in faults \/ Len(todo) = 1
  <2>1. /\ pc' = "idle" /\ todo' = <<>>
        /\ response' = IF "node" \in faults THEN {} ELSE Response(answered)
    BY <1>11 DEF Register
  <2>2. Whole({}, Puts) /\ Whole(answered, Puts)
    BY DEF Whole, BatchInv
  <2>3. Whole(response', Puts)
    BY <2>1, <2>2 DEF Response
  <2>4. Pending(<<>>, O)
    BY DEF Pending
  <2>. QED BY <1>2, <1>10, <2>1, <2>3, <2>4 DEF BatchInv
<1>12. CASE ~("node" \in faults \/ Len(todo) = 1)
  <2>1. PICK td : td = Tail(todo)
    OBVIOUS
  <2>2. /\ pc' = "accept" /\ todo' = td /\ answers' = NoAnswers(td) /\ response' = response
    BY <1>12, <2>1 DEF Register
  <2>3. todo \in Seq(Seq(Live)) /\ \A k \in 1 .. Len(todo) : Singly(todo[k], O)
    BY <1>3 DEF Pending
  <2>4. td \in Seq(Seq(Live)) /\ Len(td) = Len(todo) - 1 /\ td # <<>>
        /\ \A k \in 1 .. Len(td) : td[k] = todo[k + 1] /\ k + 1 \in 1 .. Len(todo)
    <3>1. Len(todo) \in Nat /\ Len(todo) # 0 /\ Len(todo) # 1
      BY <1>3, <1>12, <2>3
    <3>2. td \in Seq(Seq(Live)) /\ Len(td) = Len(todo) - 1
      BY <1>3, <2>1, <2>3
    <3>3. \A k \in 1 .. Len(td) : td[k] = todo[k + 1]
      BY <1>3, <2>1, <2>3
    <3>4. \A k \in 1 .. Len(td) : k + 1 \in 1 .. Len(todo)
      BY <3>1, <3>2
    <3>5. Len(td) # 0
      BY <3>1, <3>2
    <3>. QED BY <3>2, <3>3, <3>4, <3>5
  <2>5. Pending(td, O)
    BY <2>3, <2>4 DEF Pending
  <2>6. PICK reg2, hd2, rec2 : reg2 = registered' /\ hd2 = heard' /\ rec2 = received'
    OBVIOUS
  <2>7. Working(Head(td), NoAnswers(td), hd2, rec2, reg2)
    <3>1. rec2 \in SUBSET reg2
      BY <1>10, <2>6
    <3>. QED BY <2>4, <2>5, <3>1, FreshStart
  <2>8. Working(Head(todo'), answers', heard', received', registered')
    BY <2>2, <2>6, <2>7
  <2>9. Whole(response', Puts)
    BY <2>2 DEF BatchInv
  <2>. QED BY <1>2, <1>10, <2>2, <2>4, <2>5, <2>8, <2>9 DEF BatchInv
<1>. QED BY <1>11, <1>12

LEMMA RegisterFailsInv == ASSUME BatchInv, RegisterFails PROVE BatchInv'
<1>1. PICK O : O = Once
  OBVIOUS
<1>2. Once' = O
  BY <1>1, SameOnce DEF RegisterFails
<1>3. /\ pc = "write" /\ todo # <<>> /\ Pending(todo, O) /\ outbox = <<>>
      /\ Working(Head(todo), answers, heard, received, registered)
      /\ Writing(Head(todo), answers, outbox, written, O)
      /\ Stored(registered, heard, written, O)
  BY <1>1 DEF BatchInv, RegisterFails
<1>4. PICK n \in ToRegister :
        registered' = registered \cup {Head(todo)[i] : i \in {j \in ToRegister : j < n}}
  BY DEF RegisterFails
<1>5. PICK h, o, hd, rec, reg, wr, I :
        /\ h = Head(todo) /\ o = answers /\ hd = heard /\ rec = received /\ reg = registered
        /\ wr = written /\ I = {j \in ToRegister : j < n}
  OBVIOUS
<1>6. h \in Seq(Live) /\ I \in SUBSET Registrable(h, o)
  BY <1>3, <1>5 DEF Pending, ToRegister, Registrable
<1>7. Stored(reg \cup {h[i] : i \in I}, hd, wr, O)
  <2>1. Working(h, o, hd, rec, reg) /\ Writing(h, o, <<>>, wr, O) /\ Stored(reg, hd, wr, O)
    BY <1>3, <1>5
  <2>. QED BY <1>6, <2>1, Registers
<1>8. registered' = reg \cup {h[i] : i \in I}
  BY <1>4, <1>5
<1>9. /\ UNCHANGED <<delivery, outbox, answered, response, received, heard, written>>
      /\ pc' = "idle" /\ faults' = faults \cup {"store"} /\ todo' = <<>>
  BY DEF RegisterFails
<1>10. Pending(<<>>, O)
  BY DEF Pending
<1>11. Stored(registered', heard', written', O)
  BY <1>5, <1>7, <1>8, <1>9
<1>. QED BY <1>2, <1>9, <1>10, <1>11 DEF BatchInv

\* The handler gives up; the stores keep what they have.
LEMMA StopInv == ASSUME BatchInv, WriteFails \/ Crash PROVE BatchInv'
<1>1. PICK O : O = Once
  OBVIOUS
<1>2. Once' = O
  BY <1>1, SameOnce DEF WriteFails, Crash
<1>3. /\ UNCHANGED <<delivery, answered, response, received, heard, written, registered>>
      /\ pc' = "idle" /\ todo' = <<>>
      /\ faults' = faults \cup {"store"} \/ faults' = faults \cup {"crash"}
  BY DEF WriteFails, Crash, stores
<1>4. Pending(<<>>, O)
  BY DEF Pending
<1>5. Stored(registered', heard', written', O)
  BY <1>1, <1>3 DEF BatchInv
<1>6. ~(faults' \subseteq {"node"}) /\ faults' \subseteq {"node", "store", "crash"}
  <2>1. faults \subseteq {"node", "store", "crash"}
    BY DEF BatchInv
  <2>2. "store" \in faults' \/ "crash" \in faults'
    BY <1>3
  <2>. QED BY <1>3, <2>1, <2>2
<1>. QED BY <1>2, <1>3, <1>4, <1>5, <1>6 DEF BatchInv

LEMMA StutterInv == ASSUME BatchInv, UNCHANGED vars PROVE BatchInv'
<1>1. UNCHANGED delivery
  BY DEF vars
<1>2. Once' = Once
  BY <1>1, SameOnce
<1>. QED BY <1>2 DEF BatchInv, vars, handler, stores

----------------------------------------------------------------------------
\* The theorems

\* The invariant holds at every step of every delivery.
THEOREM Invariance == Spec => []BatchInv
<1>1. Init => BatchInv
  BY InitInv
<1>2. ASSUME BatchInv, [Next]_vars PROVE BatchInv'
  <2>1. CASE Conclude
    BY <1>2, <2>1, ConcludeInv
  <2>2. CASE AcceptChunk
    BY <1>2, <2>2, AcceptChunkInv
  <2>3. CASE ChunkFails
    BY <1>2, <2>3, ChunkFailsInv
  <2>4. CASE WriteMessage
    BY <1>2, <2>4, WriteMessageInv
  <2>5. CASE WriteFails \/ Crash
    BY <1>2, <2>5, StopInv
  <2>6. CASE Register
    BY <1>2, <2>6, RegisterInv
  <2>7. CASE RegisterFails
    BY <1>2, <2>7, RegisterFailsInv
  <2>8. CASE UNCHANGED vars
    BY <1>2, <2>8, StutterInv
  <2>. QED BY <1>2, <2>1, <2>2, <2>3, <2>4, <2>5, <2>6, <2>7, <2>8 DEF Next
<1>. QED BY <1>1, <1>2, PTL DEF Spec

\* The handler, the node and the stores keep to their types: in particular a
\* provider's answers are as many as its puts.
THEOREM TypeCorrect == Spec => []TypeOK
<1>1. ASSUME BatchInv PROVE TypeOK
  <2>1. registered \subseteq Puts
    BY <1>1 DEF BatchInv, Stored, Live
  <2>2. todo \in Seq(Seq(Puts))
    <3>1. todo \in Seq(Seq(Live)) /\ Live \subseteq Puts
      BY <1>1 DEF BatchInv, Pending, Live
    <3>2. \A x \in Seq(Live) : x \in Seq(Puts)
      BY <3>1
    <3>. QED BY <3>1, <3>2
  <2>3. pc # "idle" => Len(answers) = Len(Head(todo))
    BY <1>1 DEF BatchInv, Working, Results
  <2>. QED BY <1>1, <2>1, <2>2, <2>3 DEF BatchInv, TypeOK, Hearable, Artifacts
<1>. QED BY <1>1, Invariance, PTL

\* groupAcceptances and the order of acceptOnProvider: whatever is registered
\* has, in one stored message, the accept with a receipt and a commitment that
\* warrant it, whichever chunk, write or registration fails, however often the
\* client delivers or lists a put and whatever the nodes answer.
THEOREM StoredFirst == Spec => []RegisteredIsStored
<1>1. ASSUME BatchInv PROVE RegisteredIsStored
  <2>1. \A p \in registered : \E m \in written : Warrants(Held(m), p)
    BY <1>1 DEF BatchInv, Stored
  <2>. QED BY <2>1 DEF RegisteredIsStored, Warrants, Held
<1>. QED BY <1>1, Invariance, PTL

\* groupAcceptances and writeAgentMessages: no stored message splits the
\* acceptance of a put that the client lists once.
THEOREM Unsplit == Spec => []AcceptanceUnsplit
<1>1. ASSUME BatchInv PROVE AcceptanceUnsplit
  <2>1. \A m \in written : Whole(Held(m), Once)
    BY <1>1 DEF BatchInv, Stored
  <2>. QED BY <2>1 DEF AcceptanceUnsplit, Whole, Held, Once
<1>. QED BY <1>1, Invariance, PTL

\* writeAgentMessages: every message fits in a container, or is one acceptance.
THEOREM Fitting == Spec => []MessagesFit
<1>1. BatchInv => MessagesFit
  BY DEF BatchInv, Stored, MessagesFit, Fits
<1>. QED BY <1>1, Invariance, PTL

\* acceptOnProvider: the acceptances of the chunks that were answered are
\* registered although a later chunk failed.
THEOREM NothingAnsweredLost == Spec => []AnsweredIsRegistered
<1>1. BatchInv => AnsweredIsRegistered
  BY DEF BatchInv, AnsweredIsRegistered
<1>. QED BY <1>1, Invariance, PTL

\* acceptOnProvider: only what a node accepted, and without a digest in the
\* allocation only with a commitment for the content the put reported, is ever
\* registered.
THEOREM Attested == Spec => []RegisteredIsAttested
<1>1. BatchInv => RegisteredIsAttested
  BY DEF BatchInv, Stored, Live, RegisteredIsAttested
<1>. QED BY <1>1, Invariance, PTL

\* concludeResponse: the response never has an accept receipt without the
\* artifacts that it names and that came with it, however often a put is listed.
THEOREM WholeResponse == Spec => []ResponseIsWhole
<1>1. BatchInv => ResponseIsWhole
  BY DEF BatchInv, Whole, ResponseIsWhole
<1>. QED BY <1>1, Invariance, PTL
=============================================================================
