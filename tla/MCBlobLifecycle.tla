-------------------------- MODULE MCBlobLifecycle --------------------------
(***************************************************************************)
(* Small instances of BlobLifecycle for TLC.                               *)
(***************************************************************************)
EXTENDS BlobLifecycle, TLC

CONSTANTS a1, a2, a3, s1, s2, d1, d2

\* Two adds of one blob in one space.
SameKeySpace  == (a1 :> s1) @@ (a2 :> s1)
SameKeyDigest == (a1 :> d1) @@ (a2 :> d1)

\* An add that names its digest and one that does not, in one space.
MixedDigest == (a1 :> d1) @@ (a2 :> None)

\* A single add, which names its digest.
OneSpace      == a1 :> s1
OneDigest     == a1 :> d1

\* Adds of one blob: two in one space, one of which names no digest, and one
\* in another space.
TwoSpaces       == (a1 :> s1) @@ (a2 :> s1) @@ (a3 :> s2)
TwoSpacesDigest == (a1 :> d1) @@ (a2 :> None) @@ (a3 :> d1)

Symmetry == Permutations(Requests) \cup Permutations(Nodes) \cup Permutations(Uploads)
=============================================================================
