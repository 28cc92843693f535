-------------------------- MODULE MCResourceLocks --------------------------
(***************************************************************************)
(* Instances of ResourceLocks for TLC.                                     *)
(***************************************************************************)
EXTENDS ResourceLocks, TLC

CONSTANTS c1, c2, c3, A, B, t1, t2, t3

\* Two calls of one runtime compete with a call of another.
DuplicateCaller == c1 :> A @@ c2 :> A @@ c3 :> B

TokenSymmetry == Permutations(Tokens)
=============================================================================
