--------------------------- MODULE KVServerProofs ---------------------------
(* KVServer for any number of calls, keys and faults. *)
EXTENDS KVServerRefinement, TLAPS

(* How far the library and the handler of one connection are from each     *)
(* other: before the dial there is nothing, the handler has read no more   *)
(* than was sent, and a reply is written once, to a whole request.         *)
NotYet(c) ==
    client[c] = "unused" =>
        /\ by[c] = None /\ req[c] = None /\ sent[c] = 0
        /\ handler[c] = "none" /\ reply[c] = None

Asked(c) ==
    client[c] # "unused" =>
        /\ by[c] \in Callers /\ req[c] \in Requests
        /\ sent[c] <= Pieces(req[c])
        /\ client[c] = "writing" => sent[c] < Pieces(req[c])

NeverServed(c) ==
    handler[c] = "none" => client[c] \in {"unused", "failed"} /\ sent[c] = 0 /\ reply[c] = None

Served(c) ==
    /\ handler[c] \in {"backlog", "op", "value", "store"} => reply[c] = None
    /\ handler[c] = "value" => opOf(req[c].fn) = "set"
    /\ handler[c] = "store" => sent[c] = Pieces(req[c])

Answered(c) ==
    /\ reply[c] # None => sent[c] = Pieces(req[c])
    /\ client[c] = "returned" => reply[c] # None /\ result[c] = Result(req[c].fn, reply[c])

CallInv(c) == NotYet(c) /\ Asked(c) /\ NeverServed(c) /\ Served(c) /\ Answered(c)

ConInv == ConTypeOK /\ \A c \in Conns : CallInv(c)

-----------------------------------------------------------------------------
(* Requests *)

LEMMA RequestFacts ==
    ASSUME NEW r \in Requests
    PROVE  /\ r.fn \in {"datastoreGet", "datastoreSet", "datastoreDelete",
                        "keystoreGet", "keystoreSet"}
           /\ r.key \in Keys /\ r.val \in Values \cup {None}
           /\ opOf(r.fn) \in {"get", "set", "delete"}
           /\ Pieces(r) \in 1..2
           /\ Pieces(r) = 2 <=> opOf(r.fn) = "set"
           /\ opOf(r.fn) = "set" => r.val \in Values
           /\ opOf(r.fn) # "set" => r.val = None
           /\ r # None
BY RepliesAssumption DEF Requests, opOf, Pieces

LEMMA AbsRequestFacts ==
    ASSUME NEW r \in Requests
    PROVE  /\ absRequest(r) = [op |-> opOf(r.fn), key |-> r.key, val |-> r.val,
                               reports |-> r.fn = "keystoreSet"]
           /\ absRequest(r) \in Abs!Requests
BY RequestFacts DEF absRequest, Abs!Requests, Requests, opOf

-----------------------------------------------------------------------------
(* What a step of one connection leaves to the others. *)
Same(d) ==
    /\ client'[d] = client[d] /\ by'[d] = by[d] /\ req'[d] = req[d] /\ sent'[d] = sent[d]
    /\ handler'[d] = handler[d] /\ reply'[d] = reply[d] /\ result'[d] = result[d]

LEMMA SameInv ==
    ASSUME NEW d \in Conns, CallInv(d), Same(d)
    PROVE  CallInv(d)'
<1> USE DEF Same
<1>1. NotYet(d)' /\ NeverServed(d)'
  BY DEF CallInv, NotYet, NeverServed
<1>2. Asked(d)'
  BY DEF CallInv, Asked
<1>3. Served(d)'
  BY DEF CallInv, Served
<1>4. Answered(d)'
  BY DEF CallInv, Answered
<1> QED
  BY <1>1, <1>2, <1>3, <1>4 DEF CallInv

LEMMA LocalStep ==
    ASSUME ConInv, ConTypeOK', NEW c \in Conns, \A d \in Conns \ {c} : Same(d), CallInv(c)'
    PROVE  ConInv'
BY SameInv DEF ConInv

(* Where the call stands, as KVStore sees it. *)
LEMMA SameAbs ==
    ASSUME NEW d \in Conns, Calling(d)' = Calling(d),
           client'[d] = client[d] \/ Calling(d),
           handler'[d] = handler[d] \/ (handler[d] # "none" /\ handler'[d] # "none"),
           req'[d] = req[d], reply'[d] = reply[d], result'[d] = result[d]
    PROVE  /\ absPhase(d)' = absPhase(d)
           /\ absAnswer(d)' = absAnswer(d)
           /\ absRequest(req[d])' = absRequest(req[d])
<1>1. absPhase(d)' = absPhase(d)
  BY DEF absPhase, Calling, Ended
<1>2. absAnswer(d)' = absAnswer(d)
  BY DEF absAnswer, Calling, Ended
<1> QED
  BY <1>1, <1>2 DEF absRequest

Stutters(d) ==
    /\ absPhase(d)' = absPhase(d)
    /\ absAnswer(d)' = absAnswer(d)
    /\ absRequest(req[d])' = absRequest(req[d])

LEMMA AbsStutter ==
    ASSUME store' = store, by' = by, \A d \in Conns : Stutters(d)
    PROVE  UNCHANGED Abs!absVars
BY DEF Abs!absVars, Stutters

LEMMA SameStutters ==
    ASSUME NEW d \in Conns, Same(d)
    PROVE  Stutters(d)
<1>1. Calling(d)' = Calling(d)
  BY DEF Same, Calling
<1> QED
  BY <1>1, SameAbs DEF Same, Stutters

-----------------------------------------------------------------------------
(* The library *)

LEMMA DialInv ==
    ASSUME ConInv, NEW c \in Conns, NEW p \in Callers, NEW r \in Requests, Dial(p, c, r)
    PROVE  ConInv'
<1>1. ConTypeOK'
  BY DEF ConInv, ConTypeOK, Dial, Ended
<1>2. \A d \in Conns \ {c} : Same(d)
  BY DEF ConInv, ConTypeOK, Dial, Same
<1>3. /\ client'[c] = (IF up THEN "writing" ELSE "failed") /\ by'[c] = p /\ req'[c] = r
      /\ handler'[c] = (IF up THEN "backlog" ELSE "none")
      /\ sent'[c] = 0 /\ reply'[c] = None
  BY DEF ConInv, ConTypeOK, CallInv, NotYet, Dial
<1>4. CallInv(c)'
  <2>1. NotYet(c)' /\ NeverServed(c)' /\ Served(c)' /\ Answered(c)'
    BY <1>3 DEF NotYet, NeverServed, Served, Answered
  <2>2. Asked(c)'
    BY <1>3, RequestFacts DEF Asked
  <2> QED
    BY <2>1, <2>2 DEF CallInv
<1> QED
  BY <1>1, <1>2, <1>4, LocalStep

LEMMA WriteOpInv ==
    ASSUME ConInv, NEW c \in Conns, WriteOp(c)
    PROVE  ConInv'
<1>0. /\ req[c] \in Requests /\ sent[c] \in 0..2 /\ sent[c] < Pieces(req[c])
      /\ Pieces(req[c]) \in 1..2
  BY RequestFacts DEF ConInv, ConTypeOK, CallInv, Asked, WriteOp
<1>1. ConTypeOK'
  BY <1>0 DEF ConInv, ConTypeOK, WriteOp
<1>2. \A d \in Conns \ {c} : Same(d)
  BY DEF ConInv, ConTypeOK, WriteOp, Same
<1>3. /\ client[c] = "writing" /\ by'[c] = by[c] /\ req'[c] = req[c] /\ handler'[c] = handler[c]
      /\ reply'[c] = reply[c]
      /\ \/ sent'[c] = sent[c] /\ client'[c] = "reading"
         \/ sent'[c] = sent[c] + 1 /\ client'[c] = IF sent[c] + 1 = Pieces(req[c])
                                                   THEN "reading" ELSE "writing"
  BY DEF ConInv, ConTypeOK, WriteOp
<1>4. handler[c] # "none" /\ reply[c] = None /\ handler[c] # "store"
  BY <1>0, <1>3 DEF ConInv, CallInv, NeverServed, Served, Answered
<1>5. CallInv(c)'
  <2>1. NotYet(c)' /\ NeverServed(c)' /\ Answered(c)'
    BY <1>3, <1>4 DEF NotYet, NeverServed, Answered
  <2>2. Served(c)'
    BY <1>3, <1>4 DEF ConInv, CallInv, Served
  <2>3. Asked(c)'
    BY <1>0, <1>3 DEF ConInv, CallInv, Asked
  <2> QED
    BY <2>1, <2>2, <2>3 DEF CallInv
<1> QED
  BY <1>1, <1>2, <1>5, LocalStep

LEMMA ResultType ==
    ASSUME NEW r \in Replies, NEW fn
    PROVE  Result(fn, r) \in Values \cup {None, ErrorText, ZeroKey, "ok", "refused"}
BY DEF Result, Replies, readValue, Unmarshal

LEMMA ReadReplyInv ==
    ASSUME ConInv, NEW c \in Conns, ReadReply(c)
    PROVE  ConInv'
<1>0. reply[c] \in Replies
  BY DEF ConInv, ConTypeOK, ReadReply
<1>1. ConTypeOK'
  BY <1>0, ResultType DEF ConInv, ConTypeOK, ReadReply, Ended
<1>2. \A d \in Conns \ {c} : Same(d)
  BY DEF ConInv, ConTypeOK, ReadReply, Same
<1>3. /\ client[c] = "reading" /\ client'[c] = "returned" /\ by'[c] = by[c] /\ req'[c] = req[c]
      /\ handler'[c] = handler[c] /\ sent'[c] = sent[c] /\ reply'[c] = reply[c]
      /\ reply[c] # None /\ result'[c] = Result(req[c].fn, reply[c])
  BY DEF ConInv, ConTypeOK, ReadReply
<1>4. CallInv(c)'
  <2>1. NotYet(c)' /\ NeverServed(c)'
    BY <1>3 DEF ConInv, CallInv, NotYet, NeverServed
  <2>2. Served(c)'
    BY <1>3 DEF ConInv, CallInv, Served
  <2>3. Asked(c)'
    BY <1>3 DEF ConInv, CallInv, Asked
  <2>4. Answered(c)'
    BY <1>3 DEF ConInv, CallInv, Answered
  <2> QED
    BY <2>1, <2>2, <2>3, <2>4 DEF CallInv
<1> QED
  BY <1>1, <1>2, <1>4, LocalStep

(* The call fails, by a panic or with its process. *)
LEMMA FailInv ==
    ASSUME ConInv, NEW c \in Conns, Calling(c), client' = [client EXCEPT ![c] = "failed"],
           faults' \in Nat,
           UNCHANGED <<store, up, by, req, sent, handler, reply, result, broken>>
    PROVE  ConInv'
<1>1. ConTypeOK'
  BY DEF ConInv, ConTypeOK, Ended
<1>2. \A d \in Conns \ {c} : Same(d)
  BY DEF ConInv, ConTypeOK, Same
<1>3. client[c] \in {"writing", "reading"} /\ client'[c] = "failed"
  BY DEF ConInv, ConTypeOK, Calling, Ended
<1>4. CallInv(c)'
  <2>1. NotYet(c)' /\ NeverServed(c)'
    BY <1>3 DEF ConInv, CallInv, NotYet, NeverServed
  <2>2. Served(c)'
    BY <1>3 DEF ConInv, CallInv, Served
  <2>3. Asked(c)'
    BY <1>3 DEF ConInv, CallInv, Asked
  <2>4. Answered(c)'
    BY <1>3 DEF ConInv, CallInv, Answered
  <2> QED
    BY <2>1, <2>2, <2>3, <2>4 DEF CallInv
<1> QED
  BY <1>1, <1>2, <1>4, LocalStep

-----------------------------------------------------------------------------
(* The server *)

(* The handler has read on, or ended. *)
LEMMA HandlerInv ==
    ASSUME ConInv, NEW c \in Conns, NEW at \in {"op", "value", "store", "closed"},
           handler[c] # "none", handler' = [handler EXCEPT ![c] = at],
           at # "closed" => reply[c] = None,
           at = "value" => opOf(req[c].fn) = "set",
           at = "store" => sent[c] = Pieces(req[c]),
           UNCHANGED <<store, up, client, by, req, sent, reply, result, broken, faults>>
    PROVE  ConInv'
<1>1. ConTypeOK'
  BY DEF ConInv, ConTypeOK
<1>2. \A d \in Conns \ {c} : Same(d)
  BY DEF ConInv, ConTypeOK, Same
<1>3. handler'[c] = at
  BY DEF ConInv, ConTypeOK
<1>4. CallInv(c)'
  <2>1. NotYet(c)' /\ NeverServed(c)'
    BY <1>3 DEF ConInv, CallInv, NotYet, NeverServed
  <2>2. Served(c)'
    BY <1>3 DEF Served
  <2>3. Asked(c)'
    BY DEF ConInv, CallInv, Asked
  <2>4. Answered(c)'
    BY DEF ConInv, CallInv, Answered
  <2> QED
    BY <2>1, <2>2, <2>3, <2>4 DEF CallInv
<1> QED
  BY <1>1, <1>2, <1>4, LocalStep

LEMMA AcceptInv ==
    ASSUME ConInv, NEW c \in Conns, Accept(c)
    PROVE  ConInv'
<1>1. handler[c] # "none" /\ reply[c] = None
  BY DEF Accept, ConInv, CallInv, Served
<1> QED
  BY <1>1, HandlerInv DEF Accept

LEMMA ServedRequest ==
    ASSUME ConInv, NEW c \in Conns, handler[c] # "none"
    PROVE  req[c] \in Requests /\ sent[c] \in 0..2 /\ sent[c] <= Pieces(req[c])
BY DEF ConInv, ConTypeOK, CallInv, NotYet, Asked

LEMMA ReadOpInv ==
    ASSUME ConInv, NEW c \in Conns, ReadOp(c)
    PROVE  ConInv'
<1>1. /\ handler[c] \in {"op", "value"} /\ handler[c] # "none" /\ reply[c] = None
      /\ handler[c] = "value" => opOf(req[c].fn) = "set"
  BY DEF ReadOp, ConInv, CallInv, Served
<1>2. /\ req[c] \in Requests /\ sent[c] \in 0..2 /\ sent[c] <= Pieces(req[c])
      /\ Pieces(req[c]) \in 1..2 /\ (Pieces(req[c]) = 2 <=> opOf(req[c].fn) = "set")
  BY <1>1, ServedRequest, RequestFacts
<1>3. CASE sent[c] >= 1 /\ opOf(req[c].fn) = "set"
           /\ handler' = [handler EXCEPT ![c] = "value"]
  BY <1>1, <1>3, HandlerInv DEF ReadOp
<1>4. CASE sent[c] >= 1 /\ opOf(req[c].fn) # "set"
           /\ handler' = [handler EXCEPT ![c] = "store"]
  <2>1. sent[c] = Pieces(req[c])
    BY <1>2, <1>4
  <2> QED
    BY <1>1, <1>4, <2>1, HandlerInv DEF ReadOp
<1>5. CASE handler[c] = "value" /\ sent[c] = 2 /\ handler' = [handler EXCEPT ![c] = "store"]
  <2>1. sent[c] = Pieces(req[c])
    BY <1>1, <1>2, <1>5
  <2> QED
    BY <1>1, <1>5, <2>1, HandlerInv DEF ReadOp
<1> QED
  BY <1>3, <1>4, <1>5 DEF ReadOp

LEMMA HandleConnEndsInv ==
    ASSUME ConInv, NEW c \in Conns, HandleConnEnds(c)
    PROVE  ConInv'
<1>1. handler[c] # "none"
  BY DEF HandleConnEnds
<1> QED
  BY <1>1, HandlerInv DEF HandleConnEnds

(* The handler answers. *)
LEMMA AnswerInv ==
    ASSUME ConInv, NEW c \in Conns, NEW r \in Replies, handler[c] = "store",
           reply' = [reply EXCEPT ![c] = r], handler' = [handler EXCEPT ![c] = "answered"],
           store' \in [Keys -> Values \cup {None}], faults' \in Nat,
           UNCHANGED <<up, client, by, req, sent, result, broken>>
    PROVE  ConInv'
<1>1. ConTypeOK'
  BY DEF ConInv, ConTypeOK
<1>2. \A d \in Conns \ {c} : Same(d)
  BY DEF ConInv, ConTypeOK, Same
<1>3. handler'[c] = "answered" /\ reply'[c] = r /\ r # None
  BY RepliesAssumption DEF ConInv, ConTypeOK
<1>4. client[c] # "returned" /\ client[c] # "unused" /\ sent[c] = Pieces(req[c])
  BY DEF ConInv, CallInv, Served, Answered, NotYet
<1>5. CallInv(c)'
  <2>1. NotYet(c)' /\ NeverServed(c)' /\ Served(c)'
    BY <1>3, <1>4 DEF NotYet, NeverServed, Served
  <2>2. Asked(c)'
    BY DEF ConInv, CallInv, Asked
  <2>3. Answered(c)'
    BY <1>3, <1>4 DEF Answered
  <2> QED
    BY <2>1, <2>2, <2>3 DEF CallInv
<1> QED
  BY <1>1, <1>2, <1>5, LocalStep

LEMMA HandleGetInv ==
    ASSUME ConInv, NEW c \in Conns, HandleGet(c)
    PROVE  ConInv'
<1> DEFINE r == IF store[req[c].key] = None THEN writeStatus(c, "NotFound")
                                            ELSE writeValue(c, store[req[c].key])
<1>1. req[c].key \in Keys
  BY ServedRequest, RequestFacts DEF HandleGet
<1>2. r \in Replies
  BY <1>1 DEF Replies, writeStatus, writeValue, ConInv, ConTypeOK
<1>3. /\ handler[c] = "store" /\ reply' = [reply EXCEPT ![c] = r]
      /\ handler' = [handler EXCEPT ![c] = "answered"]
      /\ store' \in [Keys -> Values \cup {None}] /\ faults' \in Nat
      /\ UNCHANGED <<up, client, by, req, sent, result, broken>>
  BY DEF HandleGet, ConInv, ConTypeOK
<1> QED
  BY <1>2, <1>3, AnswerInv

(* A transaction of handleSet or handleDelete. *)
LEMMA WriteInv ==
    ASSUME ConInv, NEW c \in Conns, HandleSet(c) \/ HandleDelete(c)
    PROVE  ConInv'
<1>1. req[c] \in Requests /\ req[c].key \in Keys /\ req[c].val \in Values \cup {None}
  BY ServedRequest, RequestFacts DEF HandleSet, HandleDelete
<1>2. writeStatus(c, "OK") \in Replies
  BY DEF Replies, writeStatus
<1>3. store' \in [Keys -> Values \cup {None}]
  BY <1>1 DEF HandleSet, HandleDelete, ConInv, ConTypeOK
<1>4. faults' \in Nat
  BY DEF HandleSet, HandleDelete, ConInv, ConTypeOK
<1> QED
  BY <1>2, <1>3, <1>4, AnswerInv DEF HandleSet, HandleDelete

LEMMA FaultNat ==
    ASSUME ConInv, NEW kind, Fault(kind)
    PROVE  faults' \in Nat
BY DEF ConInv, ConTypeOK, Fault

LEMMA HandleFailsInv ==
    ASSUME ConInv, NEW c \in Conns, HandleFails(c)
    PROVE  ConInv'
<1>1. writeError(c) \in Replies
  BY DEF Replies, writeError
<1>2. store' \in [Keys -> Values \cup {None}]
  BY DEF HandleFails, ConInv, ConTypeOK
<1>3. faults' \in Nat
  BY FaultNat DEF HandleFails
<1> QED
  BY <1>1, <1>2, <1>3, AnswerInv DEF HandleFails

-----------------------------------------------------------------------------
(* Faults *)

LEMMA LoseInv ==
    ASSUME ConInv, NEW c \in Conns, Lose(c)
    PROVE  ConInv'
<1>1. faults' \in Nat
  BY FaultNat DEF Lose
<1>2. ConTypeOK'
  BY <1>1 DEF Lose, ConInv, ConTypeOK
<1>3. \A d \in Conns : Same(d)
  BY DEF Lose, Same
<1> QED
  BY <1>2, <1>3, SameInv DEF ConInv

LEMMA ServerStartInv ==
    ASSUME ConInv, ServerStart
    PROVE  ConInv'
<1>1. ConTypeOK'
  BY DEF ServerStart, ConInv, ConTypeOK
<1>2. \A d \in Conns : Same(d)
  BY DEF ServerStart, Same
<1> QED
  BY <1>1, <1>2, SameInv DEF ConInv

LEMMA ServerCrashInv ==
    ASSUME ConInv, ServerCrash
    PROVE  ConInv'
<1>1. faults' \in Nat
  BY FaultNat DEF ServerCrash
<1>2. ConTypeOK'
  BY <1>1 DEF ServerCrash, ConInv, ConTypeOK
<1>3. ASSUME NEW c \in Conns PROVE CallInv(c)'
  <2>1. /\ handler'[c] = (IF handler[c] = "none" THEN "none" ELSE "closed")
        /\ UNCHANGED <<client, by, req, sent, reply, result>>
    BY DEF ServerCrash
  <2>2. NotYet(c)' /\ NeverServed(c)' /\ Served(c)'
    BY <2>1 DEF ConInv, CallInv, NotYet, NeverServed, Served
  <2>3. Asked(c)'
    BY <2>1 DEF ConInv, CallInv, Asked
  <2>4. Answered(c)'
    BY <2>1 DEF ConInv, CallInv, Answered
  <2> QED
    BY <2>2, <2>3, <2>4 DEF CallInv
<1> QED
  BY <1>2, <1>3 DEF ConInv

-----------------------------------------------------------------------------
LEMMA ConInitInv == ConInit => ConInv
<1> SUFFICES ASSUME ConInit PROVE ConInv
  OBVIOUS
<1>1. ConTypeOK
  BY DEF ConInit, ConTypeOK
<1>2. ASSUME NEW c \in Conns PROVE CallInv(c)
  BY DEF ConInit, CallInv, NotYet, Asked, NeverServed, Served, Answered
<1> QED
  BY <1>1, <1>2 DEF ConInv

LEMMA ConNextInv ==
    ASSUME ConInv, [ConNext]_conVars
    PROVE  ConInv'
<1>1. CASE UNCHANGED conVars
  <2>1. ConTypeOK'
    BY <1>1 DEF ConInv, ConTypeOK, conVars
  <2>2. \A c \in Conns : Same(c)
    BY <1>1 DEF Same, conVars
  <2> QED
    BY <2>1, <2>2, SameInv DEF ConInv
<1>2. ASSUME NEW c \in Conns, \E p \in Callers, r \in Requests : Dial(p, c, r)
      PROVE  ConInv'
  BY <1>2, DialInv
<1>3. ASSUME NEW c \in Conns, Library(c)
      PROVE  ConInv'
  <2>1. CASE ReadPanics(c)
    <3>1. Calling(c) /\ faults' \in Nat
      BY <2>1 DEF ReadPanics, Calling, Ended, ConInv, ConTypeOK
    <3> QED
      BY <2>1, <3>1, FailInv DEF ReadPanics
  <2> QED
    BY <1>3, <2>1, WriteOpInv, ReadReplyInv DEF Library
<1>4. ASSUME NEW c \in Conns, Serve(c)
      PROVE  ConInv'
  BY <1>4, AcceptInv, ReadOpInv, HandleGetInv, WriteInv, HandleFailsInv, HandleConnEndsInv
     DEF Serve
<1>5. ASSUME NEW c \in Conns, ClientDies(c)
      PROVE  ConInv'
  <2>1. faults' \in Nat
    BY <1>5, FaultNat DEF ClientDies
  <2> QED
    BY <1>5, <2>1, FailInv DEF ClientDies
<1> QED
  BY <1>1, <1>2, <1>3, <1>4, <1>5, LoseInv, ServerCrashInv, ServerStartInv DEF ConNext

(* For any number of callers, calls, keys, values and faults: the library  *)
(* and the handler of a connection agree on how far the request has got.   *)
THEOREM ConInductive == ConSpec => []ConInv
BY ConInitInv, ConNextInv, PTL DEF ConSpec

(* The library's calls, the handlers and the connections keep their types,  *)
(* whatever is lost and whoever dies.                                      *)
THEOREM ConTypeCorrect == ConSpec => []ConTypeOK
<1>1. ConInv => ConTypeOK
  BY DEF ConInv
<1> QED
  BY <1>1, ConInductive, PTL

(* handleSet and its siblings act on whole requests only, whoever dies     *)
(* between the head and the value of a Set.                                *)
THEOREM OnlyWholeRequests == ConSpec => []WholeRequests
<1>1. ConInv => WholeRequests
  BY DEF ConInv, CallInv, Answered, WholeRequests
<1> QED
  BY <1>1, ConInductive, PTL

-----------------------------------------------------------------------------
(* The steps as KVStore's. *)

LEMMA PhaseFacts ==
    ASSUME ConInv, NEW c \in Conns
    PROVE  /\ client[c] = "unused" => absPhase(c) = "unused" /\ absAnswer(c) = None
           /\ Calling(c) => absPhase(c) = IF reply[c] = None THEN "asked" ELSE "done"
           /\ client[c] = "returned" => absPhase(c) = "returned"
           /\ client[c] = "failed" =>
                  absPhase(c) = IF reply[c] = None /\ handler[c] # "none" THEN "abandoned"
                                                                         ELSE "over"
<1>1. reply[c] = None => absAnswer(c) = None
  BY DEF absAnswer
<1>2. client[c] = "unused" => reply[c] = None
  BY DEF ConInv, CallInv, NotYet
<1> QED
  BY <1>1, <1>2 DEF absPhase, Calling, Ended

LEMMA PhaseFactsNext ==
    ASSUME ConInv', NEW c \in Conns
    PROVE  /\ Calling(c)' => absPhase(c)' = IF reply'[c] = None THEN "asked" ELSE "done"
           /\ client'[c] = "returned" => absPhase(c)' = "returned"
           /\ client'[c] = "failed" =>
                  absPhase(c)' = IF reply'[c] = None /\ handler'[c] # "none" THEN "abandoned"
                                                                            ELSE "over"
BY DEF absPhase, Calling, Ended

LEMMA DialAbs ==
    ASSUME ConInv, ConInv', NEW c \in Conns, NEW p \in Callers, NEW r \in Requests,
           Dial(p, c, r)
    PROVE  Abs!Ask(c, p, absRequest(r))
<1>1. \A d \in Conns \ {c} : Stutters(d)
  <2>1. \A d \in Conns \ {c} : Same(d)
    BY DEF ConInv, ConTypeOK, Dial, Same
  <2> QED
    BY <2>1, SameStutters
<1>2. absPhase(c) = "unused"
  BY PhaseFacts DEF Dial
<1>3. absPhase(c)' \in {"asked", "over"}
  <2>1. /\ client'[c] = (IF up THEN "writing" ELSE "failed") /\ reply'[c] = None
        /\ handler'[c] = (IF up THEN "backlog" ELSE "none")
    BY DEF Dial, ConInv, ConTypeOK, CallInv, NotYet
  <2>2. client'[c] = "writing" => Calling(c)'
    BY DEF Calling, Ended
  <2> QED
    BY <2>1, <2>2, PhaseFactsNext
<1>4. absAnswer(c) = None /\ absAnswer(c)' = None
  <2>1. reply[c] = None /\ reply'[c] = None
    BY DEF Dial, ConInv, CallInv, NotYet
  <2> QED
    BY <2>1 DEF absAnswer
<1>5. ASSUME NEW d \in Conns, by[d] = p
      PROVE  absPhase(d) \notin {"asked", "done"}
  <2>1. ~Calling(d)
    BY <1>5 DEF Dial
  <2> QED
    BY <2>1 DEF absPhase, Calling
<1>6. /\ by' = [by EXCEPT ![c] = p] /\ req' = [req EXCEPT ![c] = r] /\ store' = store
      /\ req'[c] = r
  BY DEF Dial, ConInv, ConTypeOK
<1>7. absRequest(req[c])' = absRequest(r)
  BY <1>6 DEF absRequest
<1> QED
  BY <1>1, <1>2, <1>3, <1>4, <1>5, <1>6, <1>7 DEF Abs!Ask, Abs!Idle, Stutters

(* A step of the library or the handler that KVStore does not see. *)
LEMMA QuietAbs ==
    ASSUME ConInv, NEW c \in Conns, \A d \in Conns \ {c} : Same(d),
           client'[c] = client[c] \/ (Calling(c) /\ Calling(c)'),
           handler'[c] = handler[c] \/ (handler[c] # "none" /\ handler'[c] # "none"),
           UNCHANGED <<store, by, req, reply, result>>
    PROVE  UNCHANGED Abs!absVars
<1>1. \A d \in Conns \ {c} : Stutters(d)
  BY SameStutters
<1>2. Calling(c)' = Calling(c)
  BY DEF Calling
<1>3. Stutters(c)
  BY <1>2, SameAbs DEF Stutters
<1> QED
  BY <1>1, <1>3, AbsStutter

(* The call ends: its answer stays what the reply says. *)
LEMMA ReturnAbs ==
    ASSUME ConInv, ConInv', NEW c \in Conns, ReadReply(c)
    PROVE  Abs!Return(c)
<1>1. \A d \in Conns \ {c} : Stutters(d)
  <2>1. \A d \in Conns \ {c} : Same(d)
    BY DEF ConInv, ConTypeOK, ReadReply, Same
  <2> QED
    BY <2>1, SameStutters
<1>2. /\ client[c] = "reading" /\ client'[c] = "returned" /\ reply[c] # None /\ reply' = reply
      /\ result'[c] = Result(req[c].fn, reply[c]) /\ UNCHANGED <<store, by, req>>
  BY DEF ReadReply, ConInv, ConTypeOK
<1>3. absPhase(c) = "done" /\ absPhase(c)' = "returned"
  BY <1>2, PhaseFacts, PhaseFactsNext DEF Calling, Ended
<1>4. absAnswer(c)' = absAnswer(c)
  BY <1>2 DEF absAnswer
<1> QED
  BY <1>1, <1>2, <1>3, <1>4 DEF Abs!Return, Stutters

LEMMA FailAbs ==
    ASSUME ConInv, ConInv', NEW c \in Conns, Calling(c),
           client' = [client EXCEPT ![c] = "failed"],
           UNCHANGED <<store, by, req, sent, handler, reply, result>>
    PROVE  Abs!Fail(c)
<1>1. \A d \in Conns \ {c} : Stutters(d)
  <2>1. \A d \in Conns \ {c} : Same(d)
    BY DEF ConInv, ConTypeOK, Same
  <2> QED
    BY <2>1, SameStutters
<1>2. client[c] \in {"writing", "reading"} /\ client'[c] = "failed"
  BY DEF ConInv, ConTypeOK, Calling, Ended
<1>3. handler[c] # "none"
  BY <1>2 DEF ConInv, CallInv, NeverServed
<1>4. /\ absPhase(c) = (IF reply[c] = None THEN "asked" ELSE "done")
      /\ absPhase(c)' = (IF reply[c] = None THEN "abandoned" ELSE "over")
  BY <1>2, <1>3, PhaseFacts, PhaseFactsNext
<1>5. absAnswer(c)' = absAnswer(c)
  BY <1>2 DEF absAnswer
<1> QED
  BY <1>1, <1>4, <1>5 DEF Abs!Fail, Stutters

(* The handler's transaction is the moment the call takes effect. *)
LEMMA SettleAbs ==
    ASSUME ConInv, ConInv', NEW c \in Conns, NEW r \in Replies, handler[c] = "store",
           reply' = [reply EXCEPT ![c] = r], handler' = [handler EXCEPT ![c] = "answered"],
           UNCHANGED <<client, by, req, sent, result>>
    PROVE  Abs!Settle(c, Result(req[c].fn, r))
<1>1. \A d \in Conns \ {c} : Stutters(d)
  <2>1. \A d \in Conns \ {c} : Same(d)
    BY DEF ConInv, ConTypeOK, Same
  <2> QED
    BY <2>1, SameStutters
<1>2. handler'[c] = "answered" /\ reply'[c] = r /\ r # None /\ reply[c] = None
  BY RepliesAssumption DEF ConInv, ConTypeOK, CallInv, Served
<1>3. client[c] \in {"writing", "reading", "failed"}
  BY <1>2 DEF ConInv, ConTypeOK, CallInv, NotYet, Answered, Ended
<1>4. absAnswer(c)' = Result(req[c].fn, r)
  BY <1>2, <1>3 DEF absAnswer
<1>5. CASE Calling(c)
  <2>1. absPhase(c) = "asked" /\ absPhase(c)' = "done"
    BY <1>2, <1>5, PhaseFacts, PhaseFactsNext DEF Calling
  <2> QED
    BY <1>1, <1>4, <2>1 DEF Abs!Settle, Stutters
<1>6. CASE client[c] = "failed"
  <2>1. absPhase(c) = "abandoned" /\ absPhase(c)' = "over"
    BY <1>2, <1>6, PhaseFacts, PhaseFactsNext
  <2> QED
    BY <1>1, <1>4, <2>1 DEF Abs!Settle, Stutters
<1> QED
  BY <1>3, <1>5, <1>6 DEF Calling, Ended

LEMMA HandleGetAbs ==
    ASSUME ConInv, ConInv', NEW c \in Conns, HandleGet(c)
    PROVE  Abs!Perform(c)
<1> DEFINE k == req[c].key
           r == IF store[k] = None THEN writeStatus(c, "NotFound") ELSE writeValue(c, store[k])
<1>1. /\ req[c] \in Requests /\ k \in Keys
      /\ req[c].fn \in {"datastoreGet", "keystoreGet"}
  BY ServedRequest, RequestFacts DEF HandleGet, opOf
<1>2. store[k] \in Values \cup {None}
  BY <1>1 DEF ConInv, ConTypeOK
<1>3. r \in Replies
  BY <1>2 DEF Replies, writeStatus, writeValue
<1>4. Result(req[c].fn, r) = store[k]
  BY <1>1, <1>2, SpecialsAssumption
     DEF Result, readValue, Unmarshal, writeStatus, writeValue
<1>5. /\ handler[c] = "store" /\ reply' = [reply EXCEPT ![c] = r]
      /\ handler' = [handler EXCEPT ![c] = "answered"]
      /\ UNCHANGED <<client, by, req, sent, result>> /\ store' = store
  BY DEF HandleGet
<1> HIDE DEF r
<1>6. Abs!Settle(c, store[k])
  BY <1>3, <1>4, <1>5, SettleAbs
<1>7. absRequest(req[c]).op = "get" /\ absRequest(req[c]).key = k
  BY <1>1, AbsRequestFacts DEF HandleGet
<1> QED
  BY <1>5, <1>6, <1>7 DEF Abs!Perform, Abs!Answer, Abs!Effect

LEMMA WriteAbs ==
    ASSUME ConInv, ConInv', NEW c \in Conns, HandleSet(c) \/ HandleDelete(c)
    PROVE  Abs!Perform(c)
<1> DEFINE k == req[c].key
           r == writeStatus(c, "OK")
<1>1. /\ req[c] \in Requests /\ k \in Keys
      /\ req[c].fn \in {"datastoreSet", "keystoreSet", "datastoreDelete"}
      /\ opOf(req[c].fn) \in {"set", "delete"}
  BY ServedRequest, RequestFacts DEF HandleSet, HandleDelete, opOf
<1>2. opOf(req[c].fn) = "delete" => req[c].val = None
  BY <1>1, RequestFacts
<1>3. r \in Replies
  BY DEF Replies, writeStatus
<1>4. Result(req[c].fn, r) = "ok"
  BY <1>1 DEF Result, writeStatus
<1>5. /\ handler[c] = "store" /\ reply' = [reply EXCEPT ![c] = r]
      /\ handler' = [handler EXCEPT ![c] = "answered"]
      /\ UNCHANGED <<client, by, req, sent, result>>
  BY DEF HandleSet, HandleDelete
<1>6. store' = [store EXCEPT ![k] = req[c].val]
  BY <1>2 DEF HandleSet, HandleDelete
<1> HIDE DEF r
<1>7. Abs!Settle(c, "ok")
  BY <1>3, <1>4, <1>5, SettleAbs
<1>8. /\ absRequest(req[c]).op \in {"set", "delete"} /\ absRequest(req[c]).key = k
      /\ absRequest(req[c]).val = req[c].val
  BY <1>1, AbsRequestFacts
<1> QED
  BY <1>6, <1>7, <1>8 DEF Abs!Perform, Abs!Answer, Abs!Effect

LEMMA HandleFailsAbs ==
    ASSUME ConInv, ConInv', NEW c \in Conns, HandleFails(c)
    PROVE  Abs!Refuse(c)
<1> DEFINE r   == writeError(c)
           ans == Result(req[c].fn, r)
<1>1. /\ req[c] \in Requests
      /\ req[c].fn \in {"datastoreGet", "datastoreSet", "datastoreDelete",
                        "keystoreGet", "keystoreSet"}
  BY ServedRequest, RequestFacts DEF HandleFails
<1>2. r \in Replies
  BY DEF Replies, writeError
<1>3. /\ ans \in {ErrorText, ZeroKey, "ok", "refused"}
      /\ ans = "refused" <=> req[c].fn = "keystoreSet"
  BY <1>1, SpecialsAssumption DEF Result, readValue, Unmarshal, writeError
<1>4. /\ handler[c] = "store" /\ reply' = [reply EXCEPT ![c] = r]
      /\ handler' = [handler EXCEPT ![c] = "answered"]
      /\ UNCHANGED <<client, by, req, sent, result>> /\ store' = store
  BY DEF HandleFails
<1> HIDE DEF r
<1>5. Abs!Settle(c, ans)
  BY <1>2, <1>4, SettleAbs
<1>6. absRequest(req[c]).reports <=> req[c].fn = "keystoreSet"
  <2>1. absRequest(req[c]) = [op |-> opOf(req[c].fn), key |-> req[c].key, val |-> req[c].val,
                              reports |-> req[c].fn = "keystoreSet"]
    BY <1>1, AbsRequestFacts
  <2>2. absRequest(req[c]).reports = (req[c].fn = "keystoreSet")
    BY <2>1, SMT
  <2> QED
    BY <2>2
<1> HIDE DEF ans
<1> QED
  BY <1>3, <1>4, <1>5, <1>6 DEF Abs!Refuse

-----------------------------------------------------------------------------
LEMMA AbsNextStep ==
    ASSUME ConInv, ConInv', [ConNext]_conVars
    PROVE  [Abs!AbsNext]_(Abs!absVars)
<1>1. CASE UNCHANGED conVars
  <2>1. \A c \in Conns : Same(c)
    BY <1>1 DEF Same, conVars
  <2> QED
    BY <1>1, <2>1, SameStutters, AbsStutter DEF conVars
<1>2. ASSUME NEW c \in Conns, NEW p \in Callers, NEW r \in Requests, Dial(p, c, r)
      PROVE  Abs!AbsNext
  BY <1>2, DialAbs, AbsRequestFacts DEF Abs!AbsNext
<1>3. ASSUME NEW c \in Conns, Library(c)
      PROVE  [Abs!AbsNext]_(Abs!absVars)
  <2>1. CASE WriteOp(c)
    <3>1. \A d \in Conns \ {c} : Same(d)
      BY <2>1 DEF ConInv, ConTypeOK, WriteOp, Same
    <3>2. Calling(c) /\ Calling(c)'
      BY <2>1 DEF ConInv, ConTypeOK, WriteOp, Calling, Ended
    <3> QED
      BY <2>1, <3>1, <3>2, QuietAbs DEF WriteOp
  <2>2. CASE ReadReply(c)
    BY <2>2, ReturnAbs DEF Abs!AbsNext
  <2>3. CASE ReadPanics(c)
    <3>1. Calling(c)
      BY <2>3 DEF ReadPanics, Calling, Ended
    <3>2. Abs!Fail(c)
      BY <2>3, <3>1, FailAbs DEF ReadPanics
    <3> QED
      BY <3>2 DEF Abs!AbsNext
  <2> QED
    BY <1>3, <2>1, <2>2, <2>3 DEF Library
<1>4. ASSUME NEW c \in Conns, Serve(c)
      PROVE  [Abs!AbsNext]_(Abs!absVars)
  <2>1. CASE Accept(c) \/ ReadOp(c) \/ HandleConnEnds(c)
    <3>1. \A d \in Conns \ {c} : Same(d)
      BY <2>1 DEF ConInv, ConTypeOK, Accept, ReadOp, HandleConnEnds, Same
    <3>2. handler[c] # "none" /\ handler'[c] # "none"
      BY <2>1 DEF ConInv, ConTypeOK, Accept, ReadOp, HandleConnEnds
    <3>3. client' = client /\ UNCHANGED <<store, by, req, reply, result>>
      BY <2>1 DEF Accept, ReadOp, HandleConnEnds
    <3> QED
      BY <3>1, <3>2, <3>3, QuietAbs
  <2>2. CASE HandleGet(c)
    BY <2>2, HandleGetAbs DEF Abs!AbsNext
  <2>3. CASE HandleSet(c) \/ HandleDelete(c)
    BY <2>3, WriteAbs DEF Abs!AbsNext
  <2>4. CASE HandleFails(c)
    BY <2>4, HandleFailsAbs DEF Abs!AbsNext
  <2> QED
    BY <1>4, <2>1, <2>2, <2>3, <2>4 DEF Serve
<1>5. ASSUME NEW c \in Conns, Lose(c)
      PROVE  UNCHANGED Abs!absVars
  <2>1. \A d \in Conns : Same(d)
    BY <1>5 DEF Lose, Same
  <2> QED
    BY <1>5, <2>1, SameStutters, AbsStutter DEF Lose
<1>6. ASSUME NEW c \in Conns, ClientDies(c)
      PROVE  Abs!AbsNext
  <2>1. Abs!Fail(c)
    BY <1>6, FailAbs DEF ClientDies
  <2> QED
    BY <2>1 DEF Abs!AbsNext
<1>7. CASE ServerStart
  <2>1. \A d \in Conns : Same(d)
    BY <1>7 DEF ServerStart, Same
  <2> QED
    BY <1>7, <2>1, SameStutters, AbsStutter DEF ServerStart
<1>8. CASE ServerCrash
  <2>1. ASSUME NEW d \in Conns PROVE Stutters(d)
    <3>1. /\ handler'[d] = (IF handler[d] = "none" THEN "none" ELSE "closed")
          /\ UNCHANGED <<client, by, req, sent, reply, result>>
      BY <1>8 DEF ServerCrash
    <3>2. Calling(d)' = Calling(d)
      BY <3>1 DEF Calling
    <3> QED
      BY <3>1, <3>2, SameAbs DEF Stutters
  <2> QED
    BY <1>8, <2>1, AbsStutter DEF ServerCrash
<1> QED
  BY <1>1, <1>2, <1>3, <1>4, <1>5, <1>6, <1>7, <1>8 DEF ConNext

(* Every library call is one atomic access to a single table, whatever     *)
(* connections are lost and processes die, for any number of calls.        *)
THEOREM ServerImplementsKVStore == ConSpec => ImplementsKVStore
<1>1. ConInit => Abs!AbsInit
  <2> SUFFICES ASSUME ConInit PROVE Abs!AbsInit
    OBVIOUS
  <2>1. ASSUME NEW c \in Conns
        PROVE  absPhase(c) = "unused" /\ absRequest(req[c]) = None /\ absAnswer(c) = None
    <3>1. client[c] = "unused" /\ req[c] = None /\ reply[c] = None
      BY DEF ConInit
    <3>2. absPhase(c) = "unused"
      BY <3>1 DEF absPhase, Calling
    <3> QED
      BY <3>1, <3>2 DEF absRequest, absAnswer
  <2> QED
    BY <2>1 DEF ConInit, Abs!AbsInit
<1> QED
  BY <1>1, AbsNextStep, ConInductive, PTL DEF ConSpec, ImplementsKVStore, Abs!AbsSpec
=============================================================================
