------------------------------ MODULE Ordering ------------------------------
(***************************************************************************)
(* Numbers in their order: what ORDER BY, LIMIT, a filter loop and a loop  *)
(* that adds up make of a finite set of numbers and of a sequence.         *)
(***************************************************************************)
EXTENDS Integers, Sequences, FiniteSets, FiniteSetsExt

\* How many members of S come before p.
Rank(p, S) == Cardinality({q \in S : q < p})

\* The first n members.
Smallest(n, S) == {p \in S : Rank(p, S) < n}

\* All of them, from the first to the last.
InOrder(S) == [i \in 1 .. Cardinality(S) |-> CHOOSE p \in S : Rank(p, S) = i - 1]

Largest(S) == CHOOSE p \in S : \A q \in S : q <= p

\* What is left of a sequence when only the positions in I are kept.
Subsequence(s, I) == [j \in 1 .. Cardinality(I) |-> s[InOrder(I)[j]]]

\* The sum of the first i members of a sequence.
SumTo(ws, i) ==
    LET sum[j \in 0..Len(ws)] == IF j = 0 THEN 0 ELSE sum[j - 1] + ws[j]
    IN  sum[i]

\* The sum of what v assigns to the members of a finite set.
SumOver(v, S) == MapThenSumSet(LAMBDA x : v[x], S)
=============================================================================
