--------------------------- MODULE MCSerialClients ---------------------------
(* Instances of SerialClients for TLC. *)
EXTENDS SerialClients, MCClients
=============================================================================
