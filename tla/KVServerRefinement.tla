-------------------------- MODULE KVServerRefinement --------------------------
(* The library and the server together implement KVStore: a call takes     *)
(* effect when the handler's badger transaction commits.                   *)
EXTENDS KVServer

absPhase(c) ==
    CASE client[c] = "unused"                    -> "unused"
      [] client[c] = "returned"                  -> "returned"
      [] Calling(c) /\ reply[c] = None           -> "asked"
      [] Calling(c) /\ reply[c] # None           -> "done"
      [] client[c] = "failed" /\ reply[c] = None -> IF handler[c] = "none" THEN "over"
                                                                           ELSE "abandoned"
      [] OTHER                                   -> "over"

absRequest(r) == IF r = None THEN None
                             ELSE [op |-> opOf(r.fn), key |-> r.key, val |-> r.val,
                                   reports |-> r.fn = "keystoreSet"]

absAnswer(c) == IF reply[c] = None THEN None
                ELSE IF client[c] = "returned" THEN result[c]
                ELSE Result(req[c].fn, reply[c])

Abs == INSTANCE KVStore WITH
           Calls   <- Conns,
           table   <- store,
           phase   <- [c \in Conns |-> absPhase(c)],
           request <- [c \in Conns |-> absRequest(req[c])],
           caller  <- by,
           Anything <- {ErrorText, ZeroKey, "ok"},
           answer  <- [c \in Conns |-> absAnswer(c)]

(* Every library call behaves as one atomic access to a single table: its  *)
(* effect falls between dial and return, concurrent calls and connections  *)
(* that outlive their callers included; a call that panics is applied at   *)
(* most once, and one whose transaction fails not at all, which            *)
(* keystoreSet reports (datastoreGet and its siblings, Handle, handleConn).*)
ImplementsKVStore == Abs!AbsSpec

(* The handler acts on whole requests only: a caller that dies between the *)
(* head and the value of a Set leaves the store as it was (handleSet reads *)
(* the value before it opens the transaction).                             *)
WholeRequests == \A c \in Conns : reply[c] # None => sent[c] = Pieces(req[c])

(* A call ends: it returns or panics, whatever breaks in between.          *)
CallsEnd == \A c \in Conns : Calling(c) ~> client[c] \in Ended

(* No goroutine of handleConn outlives its caller for ever.                *)
HandlersEnd == \A c \in Conns : client[c] \in Ended ~> handler[c] \in {"none", "closed"}

(* The type invariant. *)
ConTypeOK ==
    /\ store \in [Keys -> Values \cup {None}]
    /\ up \in BOOLEAN
    /\ client \in [Conns -> {"unused", "writing", "reading"} \cup Ended]
    /\ by \in [Conns -> Callers \cup {None}]
    /\ req \in [Conns -> Requests \cup {None}]
    /\ sent \in [Conns -> 0..2]
    /\ handler \in [Conns -> {"none", "backlog", "op", "value", "store", "answered", "closed"}]
    /\ reply \in [Conns -> Replies \cup {None}]
    /\ result \in [Conns -> Values \cup {None, ErrorText, ZeroKey, "ok", "refused"}]
    /\ broken \subseteq Conns
    /\ faults \in Nat
=============================================================================
