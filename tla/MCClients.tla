------------------------------ MODULE MCClients ------------------------------
(* Instances of ConcurrentClients for TLC. *)
EXTENDS ConcurrentClients

CONSTANTS a, z, s1, s2, alice, bob, carol

ShortContents == {<<a>>}
LongContents  == {<<>>, <<a>>, <<z, a, z>>}
OneBlock      == <<z>>
TwoBlocks     == <<z, a, z>>

Pair == <<alice, bob>>
Trio == <<alice, bob, carol>>

(* The owner's session and the sharee's, or two of the owner's. *)
ShareeLogin == {s1 :> alice @@ s2 :> bob}
EitherLogin == [Sessions -> {alice, bob}] \ {[s \in Sessions |-> bob]}

SessionSymmetry == Permutations(Sessions)

AllMethods == {"StoreFile", "LoadFile", "AppendToFile", "CreateInvitation",
               "AcceptInvitation", "RevokeAccess"}
=============================================================================
