------------------------------- MODULE KVStore -------------------------------
(***************************************************************************)
(* What the callers of internal/userlib may rely on: one key-value table   *)
(* on which every Get, Set and Delete takes effect at one moment between   *)
(* its call and its return.  A call may fail (the library panics when the  *)
(* connection is lost); its effect then happens at most once, possibly     *)
(* after the failure, possibly never.  A call the store refuses has no     *)
(* effect; only a call that reports refusals says so, the others answer    *)
(* anything.                                                               *)
(***************************************************************************)
CONSTANTS
    Callers,    \* goroutines and processes that call the library
    Keys, Values,
    Calls,      \* one identifier for each call ever made
    None,       \* no value, no caller
    Anything    \* what a refused call that does not report it may answer

VARIABLES
    table,      \* [Keys -> Values \cup {None}]
    phase,      \* how far each call is
    request,    \* what it asks for
    caller,     \* who made it
    answer      \* what it returns

absVars == <<table, phase, request, caller, answer>>

(* A call that reports refusals can only be a Set. *)
Requests == [op : {"get", "delete"}, key : Keys, val : {None}, reports : {FALSE}]
                \cup [op : {"set"}, key : Keys, val : Values, reports : BOOLEAN]

Phases == {"unused", "asked", "done", "returned", "abandoned", "over"}

(* The table after a request, and the answer to it. *)
Effect(r) == IF r.op = "get" THEN table ELSE [table EXCEPT ![r.key] = r.val]
Answer(r) == IF r.op = "get" THEN table[r.key] ELSE "ok"

AbsInit ==
    /\ table = [k \in Keys |-> None]
    /\ phase = [c \in Calls |-> "unused"]
    /\ request = [c \in Calls |-> None]
    /\ caller = [c \in Calls |-> None]
    /\ answer = [c \in Calls |-> None]

(* A caller makes one call at a time. *)
Idle(p) == \A c \in Calls : caller[c] = p => phase[c] \notin {"asked", "done"}

Ask(c, p, r) ==
    /\ phase[c] = "unused"
    /\ Idle(p)
    /\ \/ phase' = [phase EXCEPT ![c] = "asked"]
       \/ phase' = [phase EXCEPT ![c] = "over"]    \* fails at once
    /\ request' = [request EXCEPT ![c] = r]
    /\ caller' = [caller EXCEPT ![c] = p]
    /\ UNCHANGED <<table, answer>>

Settle(c, ans) ==
    /\ phase[c] \in {"asked", "abandoned"}
    /\ phase' = [phase EXCEPT ![c] = IF @ = "asked" THEN "done" ELSE "over"]
    /\ answer' = [answer EXCEPT ![c] = ans]
    /\ UNCHANGED <<request, caller>>

Perform(c) == Settle(c, Answer(request[c])) /\ table' = Effect(request[c])
Refuse(c)  == /\ \E ans \in Anything \cup {"refused"} :
                     Settle(c, ans) /\ (ans = "refused" <=> request[c].reports)
              /\ UNCHANGED table

Return(c) ==
    /\ phase[c] = "done"
    /\ phase' = [phase EXCEPT ![c] = "returned"]
    /\ UNCHANGED <<table, request, caller, answer>>

Fail(c) ==
    /\ phase[c] \in {"asked", "done"}
    /\ phase' = [phase EXCEPT ![c] = IF @ = "asked" THEN "abandoned" ELSE "over"]
    /\ UNCHANGED <<table, request, caller, answer>>

AbsNext ==
    \E c \in Calls :
        \/ \E p \in Callers, r \in Requests : Ask(c, p, r)
        \/ Perform(c) \/ Refuse(c) \/ Return(c) \/ Fail(c)

AbsSpec == AbsInit /\ [][AbsNext]_absVars
=============================================================================
