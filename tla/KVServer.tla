------------------------------ MODULE KVServer ------------------------------
(***************************************************************************)
(* The remote datastore: the client half of internal/userlib (one new      *)
(* connection per call, no timeout, no retry) and the server of            *)
(* internal/server (an accept loop, one goroutine per connection, one      *)
(* badger store).  A connection carries one request.                       *)
(*                                                                         *)
(* writeOp sends the request in pieces and ignores write errors; for the   *)
(* server two pieces matter, the head (op and key) and the value of a Set. *)
(* The network may reset a connection, either process may die at any time, *)
(* and the server may be restarted over the same data directory.           *)
(***************************************************************************)
EXTENDS Naturals, FiniteSets

CONSTANTS
    Callers,      \* goroutines and processes that call the library
    Keys, Values,
    Conns,        \* the connections ever dialled, one per call
    Functions,    \* the library functions that are called
    None,         \* no value, no caller, no reply
    ErrorText,    \* the message of an error reply
    ZeroKey,      \* PublicKeyType{}
    Faults,       \* the kinds of fault that happen
    MaxFaults     \* how many of them

ASSUME FunctionsAssumption ==
    Functions \subseteq {"datastoreGet", "datastoreSet", "datastoreDelete",
                         "keystoreGet", "keystoreSet"}
ASSUME SpecialsAssumption ==
    /\ None \notin Values \cup Callers /\ ErrorText \notin Values
    /\ ZeroKey \notin Values /\ None # ErrorText /\ None # ZeroKey
    /\ "refused" \notin {ErrorText, ZeroKey}
ASSUME FaultsAssumption ==
    /\ Faults \subseteq {"loss", "death", "crash", "refusal"}
    /\ MaxFaults \in Nat

VARIABLES
    store,     \* the badger store: it outlives the server process
    up,        \* the server process runs
    client,    \* where the library call on a connection is
    by, req,   \* who made the call, and the call
    sent,      \* how many pieces of the request reach the server
    handler,   \* where the goroutine that serves the connection is
    reply,     \* what the handler wrote back
    result,    \* what the call returned
    broken,    \* connections that were reset
    faults     \* how many faults have happened

conVars == <<store, up, client, by, req, sent, handler, reply, result, broken, faults>>

-----------------------------------------------------------------------------
(* The five functions and the operation each puts on the wire. *)
opOf(fn) == CASE fn \in {"datastoreGet", "keystoreGet"} -> "get"
              [] fn \in {"datastoreSet", "keystoreSet"} -> "set"
              [] fn = "datastoreDelete"                 -> "delete"

Requests == [fn : {"datastoreGet", "keystoreGet", "datastoreDelete"} \cap Functions,
             key : Keys, val : {None}]
                \cup [fn : {"datastoreSet", "keystoreSet"} \cap Functions,
                      key : Keys, val : Values]

(* A Set is two pieces, its value with the length before it being one.     *)
Pieces(r) == IF opOf(r.fn) = "set" THEN 2 ELSE 1

(* The replies of writeStatus, writeValue and writeError. *)
Replies == [status : {"OK", "NotFound", "Error"},
            val : Values \cup {None, ErrorText}, lost : BOOLEAN]

ASSUME RepliesAssumption == None \notin Requests \cup Replies

(* Written to a connection that was reset, a reply gets nowhere.           *)
writeStatus(c, status) == [status |-> status, val |-> None, lost |-> c \in broken]
writeValue(c, val)     == [status |-> "OK", val |-> val, lost |-> c \in broken]
writeError(c)          == [status |-> "Error", val |-> ErrorText, lost |-> c \in broken]

(* readValue knows OK and NotFound only: any other status is taken for OK  *)
(* and the text that follows it for the value.                             *)
readValue(r) == IF r.status = "NotFound" THEN None ELSE r.val

(* json.Unmarshal with its error dropped: a text that is no public key     *)
(* leaves the zero key.                                                    *)
Unmarshal(val) == IF val = ErrorText THEN ZeroKey ELSE val

(* Slip: keystoreSet drops the status the way datastoreSet does. *)
ResultUnchecked(fn, r) ==
    CASE fn = "datastoreGet" -> readValue(r)
      [] fn = "keystoreGet"  -> Unmarshal(readValue(r))
      [] OTHER               -> "ok"

(* What a call returns, given the reply. datastoreSet and datastoreDelete  *)
(* drop the status; keystoreSet turns any status but OK into an error.     *)
Result(fn, r) ==
    CASE fn = "datastoreGet" -> readValue(r)
      [] fn = "keystoreGet"  -> Unmarshal(readValue(r))
      [] fn = "keystoreSet"  -> IF r.status = "OK" THEN "ok" ELSE "refused"
      [] OTHER               -> "ok"

-----------------------------------------------------------------------------
(* The library *)

Ended == {"returned", "failed"}
Calling(c) == client[c] \notin Ended \cup {"unused"}

Fault(kind) ==
    /\ kind \in Faults
    /\ faults < MaxFaults
    /\ faults' = faults + 1

(* dial: the kernel completes the connection before the server accepts it. *)
(* With the server down the call fails: a panic, or keystoreSet's error.   *)
Dial(p, c, r) ==
    /\ client[c] = "unused"
    /\ \A d \in Conns : by[d] = p => ~Calling(d)
    /\ by' = [by EXCEPT ![c] = p]
    /\ req' = [req EXCEPT ![c] = r]
    /\ client' = [client EXCEPT ![c] = IF up THEN "writing" ELSE "failed"]
    /\ handler' = [handler EXCEPT ![c] = IF up THEN "backlog" ELSE @]
    /\ UNCHANGED <<store, up, sent, reply, result, broken, faults>>

(* writeOp: the next piece.  On a connection that was reset every write    *)
(* fails, unnoticed.                                                       *)
WriteOp(c) ==
    /\ client[c] = "writing"
    /\ \/ /\ c \notin broken
          /\ sent' = [sent EXCEPT ![c] = @ + 1]
          /\ client' = [client EXCEPT ![c] = IF sent[c] + 1 = Pieces(req[c]) THEN "reading"
                                                                             ELSE @]
       \/ /\ c \in broken
          /\ client' = [client EXCEPT ![c] = "reading"]
          /\ UNCHANGED sent
    /\ UNCHANGED <<store, up, by, req, handler, reply, result, broken, faults>>

(* readStatus and readValue succeed; the deferred Close follows. *)
ReadReply(c) ==
    /\ client[c] = "reading"
    /\ reply[c] # None /\ ~reply[c].lost
    /\ client' = [client EXCEPT ![c] = "returned"]
    /\ result' = [result EXCEPT ![c] = Result(req[c].fn, reply[c])]
    /\ UNCHANGED <<store, up, by, req, sent, handler, reply, broken, faults>>

(* readStatus panics: the connection was reset, or the server closed it.   *)
ReadPanics(c) ==
    /\ client[c] = "reading"
    /\ \/ c \in broken
       \/ handler[c] = "closed" /\ reply[c] = None
    /\ client' = [client EXCEPT ![c] = "failed"]
    /\ UNCHANGED <<store, up, by, req, sent, handler, reply, result, broken, faults>>

-----------------------------------------------------------------------------
(* The server *)

(* Server.Run: go srv.handleConn(conn). *)
Accept(c) ==
    /\ up
    /\ handler[c] = "backlog"
    /\ handler' = [handler EXCEPT ![c] = "op"]
    /\ UNCHANGED <<store, up, client, by, req, sent, reply, result, broken, faults>>

(* Slip: the value is taken as read when only its key has arrived. *)
ReadOpNotValue(c) ==
    /\ \/ handler[c] = "op" /\ sent[c] >= 1
       \/ handler[c] = "value" /\ sent[c] = 2
    /\ handler' = [handler EXCEPT ![c] = "store"]
    /\ UNCHANGED <<store, up, client, by, req, sent, reply, result, broken, faults>>

(* Handle and handleSet: io.ReadFull of the head, and of the value of a    *)
(* Set.  Bytes in flight on a connection that is reset may be lost.        *)
ReadOp(c) ==
    /\ \/ /\ handler[c] = "op" /\ sent[c] >= 1
          /\ handler' = [handler EXCEPT ![c] = IF opOf(req[c].fn) = "set" THEN "value"
                                                                         ELSE "store"]
       \/ /\ handler[c] = "value" /\ sent[c] = 2
          /\ handler' = [handler EXCEPT ![c] = "store"]
    /\ UNCHANGED <<store, up, client, by, req, sent, reply, result, broken, faults>>

(* handleGet, handleSet, handleDelete: one badger transaction, then the    *)
(* reply.                                                                  *)
HandleGet(c) ==
    /\ handler[c] = "store" /\ opOf(req[c].fn) = "get"
    /\ reply' = [reply EXCEPT ![c] = IF store[req[c].key] = None
                                     THEN writeStatus(c, "NotFound")
                                     ELSE writeValue(c, store[req[c].key])]
    /\ handler' = [handler EXCEPT ![c] = "answered"]
    /\ UNCHANGED <<store, up, client, by, req, sent, result, broken, faults>>

(* Slip: the transaction is applied but no status is written. *)
HandleDeleteSilent(c) ==
    /\ handler[c] = "store" /\ opOf(req[c].fn) = "delete"
    /\ store' = [store EXCEPT ![req[c].key] = None]
    /\ handler' = [handler EXCEPT ![c] = "answered"]
    /\ UNCHANGED <<up, client, by, req, sent, reply, result, broken, faults>>

HandleDelete(c) ==
    /\ handler[c] = "store" /\ opOf(req[c].fn) = "delete"
    /\ store' = [store EXCEPT ![req[c].key] = None]
    /\ reply' = [reply EXCEPT ![c] = writeStatus(c, "OK")]
    /\ handler' = [handler EXCEPT ![c] = "answered"]
    /\ UNCHANGED <<up, client, by, req, sent, result, broken, faults>>

HandleSet(c) ==
    /\ handler[c] = "store" /\ opOf(req[c].fn) = "set"
    /\ store' = [store EXCEPT ![req[c].key] = req[c].val]
    /\ reply' = [reply EXCEPT ![c] = writeStatus(c, "OK")]
    /\ handler' = [handler EXCEPT ![c] = "answered"]
    /\ UNCHANGED <<up, client, by, req, sent, result, broken, faults>>

(* The transaction returns an error (a full disk, an oversized value).     *)
HandleFails(c) ==
    /\ handler[c] = "store"
    /\ Fault("refusal")
    /\ reply' = [reply EXCEPT ![c] = writeError(c)]
    /\ handler' = [handler EXCEPT ![c] = "answered"]
    /\ UNCHANGED <<store, up, client, by, req, sent, result, broken>>

(* Slip: handleConn only ends when the connection was reset. *)
HandleConnOnReset(c) ==
    /\ handler[c] \in {"op", "value", "answered"}
    /\ c \in broken
    /\ handler' = [handler EXCEPT ![c] = "closed"]
    /\ UNCHANGED <<store, up, client, by, req, sent, reply, result, broken, faults>>

(* handleConn: Handle returns an error, the loop ends, the connection is   *)
(* closed.  Its read fails when the connection was reset or the client     *)
(* closed it and sent no more; its write may fail on either.               *)
HandleConnEnds(c) ==
    /\ \/ c \in broken /\ handler[c] \in {"op", "value", "answered"}
       \/ client[c] \in Ended /\ \/ handler[c] = "op" /\ sent[c] = 0
                                 \/ handler[c] = "value" /\ sent[c] = 1
                                 \/ handler[c] = "answered"
    /\ handler' = [handler EXCEPT ![c] = "closed"]
    /\ UNCHANGED <<store, up, client, by, req, sent, reply, result, broken, faults>>

-----------------------------------------------------------------------------
(* Faults *)

Lose(c) ==
    /\ c \notin broken
    /\ Calling(c)
    /\ Fault("loss")
    /\ broken' = broken \cup {c}
    /\ UNCHANGED <<store, up, client, by, req, sent, handler, reply, result>>

(* The calling process dies; the kernel closes its connection. *)
ClientDies(c) ==
    /\ Calling(c)
    /\ Fault("death")
    /\ client' = [client EXCEPT ![c] = "failed"]
    /\ UNCHANGED <<store, up, by, req, sent, handler, reply, result, broken>>

(* The server process dies: every goroutine ends and every connection is   *)
(* reset.  A transaction is in the store or it is not.                     *)
ServerCrash ==
    /\ up
    /\ Fault("crash")
    /\ up' = FALSE
    /\ handler' = [c \in Conns |-> IF handler[c] = "none" THEN "none" ELSE "closed"]
    /\ broken' = broken \cup {c \in Conns : Calling(c)}
    /\ UNCHANGED <<store, client, by, req, sent, reply, result>>

ServerStart ==
    /\ ~up
    /\ up' = TRUE
    /\ UNCHANGED <<store, client, by, req, sent, handler, reply, result, broken, faults>>

-----------------------------------------------------------------------------
ConInit ==
    /\ store = [k \in Keys |-> None]
    /\ up = TRUE
    /\ client = [c \in Conns |-> "unused"]
    /\ by = [c \in Conns |-> None]
    /\ req = [c \in Conns |-> None]
    /\ sent = [c \in Conns |-> 0]
    /\ handler = [c \in Conns |-> "none"]
    /\ reply = [c \in Conns |-> None]
    /\ result = [c \in Conns |-> None]
    /\ broken = {}
    /\ faults = 0

Library(c) == WriteOp(c) \/ ReadReply(c) \/ ReadPanics(c)
Serve(c)   == Accept(c) \/ ReadOp(c) \/ HandleGet(c) \/ HandleSet(c) \/ HandleDelete(c)
                        \/ HandleFails(c) \/ HandleConnEnds(c)

ConNext ==
    \/ \E c \in Conns : \/ \E p \in Callers, r \in Requests : Dial(p, c, r)
                        \/ Library(c) \/ Serve(c) \/ Lose(c) \/ ClientDies(c)
    \/ ServerCrash
    \/ ServerStart

ConSpec == ConInit /\ [][ConNext]_conVars

(* Running threads make progress: the Go scheduler runs every goroutine    *)
(* that can run, and a read on a dead connection ends (TCP keep-alive is   *)
(* on by default in Go).  Nothing obliges a caller to call, a connection   *)
(* to break, or an operator to restart the server.                         *)
Progress == \A c \in Conns : WF_conVars(Library(c)) /\ WF_conVars(Serve(c))

FairConSpec == ConSpec /\ Progress
=============================================================================
