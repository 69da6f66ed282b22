------------------------------ MODULE MCKVServer ------------------------------
(* An instance of KVServer for TLC. *)
EXTENDS KVServerRefinement

AllFunctions == {"datastoreGet", "datastoreSet", "datastoreDelete", "keystoreGet", "keystoreSet"}
AllFaults    == {"loss", "death", "crash", "refusal"}
=============================================================================
