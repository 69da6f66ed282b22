---------------------------- MODULE MCCommandLine ----------------------------
(* Instances of CommandLine for TLC. *)
EXTENDS CommandLine, TLC

CONSTANTS t1, t2

NameDefault == "default"
NameSet     == {"default", "dev"}

(* One terminal: the whole command line. *)
AllCommands ==
    HostCommands
    \cup [op : {"init", "login"}, user : Users, password : Passwords, env : Names]
    \cup [op : {"--help", "version", "help", "unknown", "logout", "read"}, env : Names]
    \cup [op : {"store", "list"}, env : Names]

(* Several terminals: one configured host. *)
SessionCommands ==
    {[op |-> "add", name |-> Default, entry |-> e] : e \in Serving}
    \cup [op : {"init", "login", "inituser", "getuser"}, user : Users, password : Passwords, env : {Default}]
    \cup [op : {"logout", "store", "storefile"}, env : {Default}]

LegacyCommands ==
    [op : {"add"}, name : {Default}, entry : Serving]
    \cup [op : {"inituser"}, user : Users, password : Passwords, env : {Default}]
    \cup [op : {"storefile"}, env : {Default}]

HostSteps == [p \in Terminals |-> HostCommands]

(* Everything at one terminal, sessions at the other. *)
Mixed  == t1 :> AllCommands @@ t2 :> SessionCommands
Legacy == [p \in Terminals |-> LegacyCommands]

PasswordSymmetry == Permutations(Passwords)
=============================================================================
