--------------------------- MODULE MCRegistration ---------------------------
(* Instances of Registration for TLC. *)
EXTENDS Registration, TLC

RegSymmetry == Permutations(Clients) \cup Permutations(Users)
=============================================================================
