----------------------------- MODULE HostTable -----------------------------
(***************************************************************************)
(* What `sharelock host` promises: a table of named servers that add, rm   *)
(* and use change one whole command at a time.                             *)
(***************************************************************************)
EXTENDS Functions

CONSTANTS Names, Default, Entries

VARIABLE table     \* names that are listed -> their servers

Put(t, n, e)  == [x \in DOMAIN t \cup {n} |-> IF x = n THEN e ELSE t[x]]
Drop(t, n)    == Restrict(t, DOMAIN t \ {n})

Add(n, e) == table' = Put(table, n, e)
Rm(n)     == table' = Drop(table, n)

(* "Set a host as default": the default server is the one with the name.   *)
(* The server may keep its own name as well or lose it.                    *)
Use(n) ==
    LET t == Put(table, Default, table[n])
    IN  /\ n \in DOMAIN table
        /\ table' \in IF n = Default THEN {t} ELSE {t, Drop(t, n)}

(* One command line, as a whole. *)
Do(c) == \/ c.op = "add" /\ Add(c.name, c.entry)
         \/ c.op = "rm"  /\ Rm(c.name)
         \/ c.op = "use" /\ Use(c.name)

TableInit == table = [n \in {} |-> n]
TableNext == \E c \in [op : {"add"}, name : Names, entry : Entries]
                      \cup [op : {"rm", "use"}, name : Names] : Do(c)
TableSpec == TableInit /\ [][TableNext]_table
=============================================================================
