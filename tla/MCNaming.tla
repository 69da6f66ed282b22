------------------------------ MODULE MCNaming ------------------------------
(* Instances of Naming for TLC.  The text "userStruct" is cut to <<z>>;    *)
(* the user a and the user ab have files whose UUIDs coincide with each    *)
(* other's files and accounts.                                             *)
EXTENDS Naming

CONSTANTS a, b, z

Ending == <<z>>

PrefixUsers == {<<a>>, <<a, b>>, <<b>>}
ClashFiles  == {<<b>>, <<b, b>>, <<z>>, <<b, z>>}
=============================================================================
