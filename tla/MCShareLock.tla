----------------------------- MODULE MCShareLock -----------------------------
(* Instances of ShareLock for TLC. *)
EXTENDS ShareLockRefinement

CONSTANTS a, z

(* Contents that fill no block, part of one, and one and a half. *)
LongContents == {<<>>, <<a>>, <<z, a, z>>}

UserSymmetry == Permutations(Users)
=============================================================================
