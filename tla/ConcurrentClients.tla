-------------------------- MODULE ConcurrentClients --------------------------
(***************************************************************************)
(* FileService and InvitationService as they run against a shared          *)
(* datastore: a call is a sequence of storage calls, and between any two   *)
(* of them other sessions' storage calls may happen.  As KVStore says, a   *)
(* storage call takes effect at once or not at all: the server may refuse  *)
(* a Set, which the client does not notice, and a client may die, also     *)
(* while its Set is on the way, which the server then applies much later.  *)
(* ShareLock describes the same methods executed one at a time; this       *)
(* module takes its records and helpers from there.                        *)
(*                                                                         *)
(* A call in progress keeps what it has read (acc, node, file), what it    *)
(* has drawn (key, box) and todo, the storage.Set calls it makes next: a   *)
(* write whose content is settled is queued there, in the code's order.    *)
(*                                                                         *)
(* The runs begin after a short serial history: the users of Circle have   *)
(* registered, the first has stored a file and shared it with the next     *)
(* ones, they have accepted, and the sessions have logged in.              *)
(***************************************************************************)
EXTENDS ShareLock

CONSTANTS
    Ops,          \* the methods that are called
    Circle,       \* the registered users in a sequence, the owner first
    Shared,       \* how many of them have the file, the owner included
    Logins,       \* who the sessions may belong to: functions from Sessions to users
    FileName, FirstContent, Password,   \* of the set-up
    MaxEvents,    \* how many calls are begun and faults happen
    MaxFaults     \* how many clients die and Sets are refused

ASSUME CircleAssumption ==
    /\ Circle \in Seq(Users) /\ Len(Circle) > 0 /\ IsInjective(Circle)
    /\ Shared \in 1..Len(Circle)
    /\ Logins \subseteq [Sessions -> Range(Circle)]
    /\ Ops \subseteq {"LoadFile", "StoreFile", "AppendToFile", "CreateInvitation",
                      "AcceptInvitation", "RevokeAccess"}
    /\ FileName \in Filenames /\ FirstContent \in Seq(Bytes) /\ Password \in Passwords
    /\ MaxEvents \in Nat /\ MaxFaults \in Nat

VARIABLES
    call,      \* the method each session is executing, or Absent
    outcome,   \* how its last call ended: "ok", or the step that failed
    calls, faults,   \* how many were begun, how many happened
    due,       \* the bytes that finished calls have put into each inode
    revoked,   \* <<user, inode>> of the finished revocations not yet undone
    begun,     \* <<user, method>> of the calls that were begun
    mixed,     \* the pairs of methods that were in progress at the same time
    died,      \* the methods in which a client died
    refused,   \* the methods of which a Set was refused
    client     \* "alive"; "late", dead with a Set on the way; or "dead", the Set applied

history == <<begun, mixed, died>>

progress == <<call, outcome, calls, due, revoked, history>>

datastore == <<accounts, access, mailbox, inode, block, invitation>>

clients == <<client, refused, faults>>

allVars == <<vars, progress, clients>>

-----------------------------------------------------------------------------
(* Storage calls *)

Set(kind, id, record) == [kind |-> kind, id |-> id, record |-> record]

(* The block loops of StoreFile and AppendToFile: NewBlocks, in order. *)
BlockWrites(chunks, fileKey, id) ==
    [n \in 1..Len(chunks) |->
        Set("block", id + n - 1, encryptAndMAC(chunks[n], getFileKeys(fileKey)))]

(* storage.Set: one record is replaced. *)
Write(w) ==
    /\ mailbox' = IF w.kind = "mailbox" THEN Put(mailbox, w.id, w.record) ELSE mailbox
    /\ inode' = IF w.kind = "inode" THEN Put(inode, w.id, w.record) ELSE inode
    /\ block' = IF w.kind = "block" THEN Put(block, w.id, w.record) ELSE block
    /\ invitation' = IF w.kind = "invitation" THEN Put(invitation, w.id, w.record)
                                              ELSE invitation
    /\ access' = IF w.kind = "access" THEN [access EXCEPT ![w.id] = w.record] ELSE access
    /\ accounts' = IF w.kind = "account" THEN [accounts EXCEPT ![w.id] = w.record]
                                         ELSE accounts

(* Slip: the new name is not put into Files before the struct is saved.    *)
SetUserWithoutFile(me, f) ==
    Set("account", me.name, encryptAndMAC(me, getUserKeys(me.master)))

(* saveUser: the session's own copy of the user struct, with f in it.      *)
SetUser(me, f) ==
    LET new == [me EXCEPT !.files = @ \cup {f}]
    IN  Set("account", me.name, encryptAndMAC(new, getUserKeys(me.master)))

SetMailbox(p, node) ==
    Set("mailbox", p.uuid, encryptAndMAC(node, getMailKeys(p.key)))

SetAccess(me, f, acc) ==
    Set("access", Slot(me, f), encryptAndMAC(acc, getPersonalKey(me.master, f)))

SetInode(node, file) ==
    Set("inode", node.inode, encryptAndMAC(file, getFileKeys(node.fileKey)))

-----------------------------------------------------------------------------
(* Beginning and ending a call *)

Writes ==
    [kind : {"account"}, id : Users, record : Sealed({"user"} \X MasterKeys, User)]
        \cup [kind : {"access"}, id : Slots,
              record : Sealed({"personal"} \X MasterKeys \X Filenames, Access)]
        \cup [kind : {"mailbox"}, id : Nat, record : Sealed({"mailbox"} \X Nat, MailboxNode)]
        \cup [kind : {"inode"}, id : Nat, record : Sealed({"file"} \X Nat, Inode)]
        \cup [kind : {"block"}, id : Nat, record : Sealed({"file"} \X Nat, Seq(Bytes))]
        \cup [kind : {"invitation"}, id : Nat, record : Invitation]

Methods == {"StoreFile", "LoadFile", "AppendToFile", "CreateInvitation",
            "AcceptInvitation", "RevokeAccess"}

Args == Contents \cup Users \cup (Users \X Nat) \cup {Absent}

(* The calls in progress; Absent is none of them. *)
Calls == [op : Methods, f : Filenames, arg : Args,
          at : {"access", "mailbox", "inode", "block", "reseal", "child", "recipient",
                "invitation", "sender", "return"},
          acc : Access \cup {Absent}, node : MailboxNode \cup {Absent},
          file : Inode \cup {Absent}, key : Nat, box : Pointer \cup {Absent},
          inv : Invitation \cup {Absent}, left : Seq(Nat), kids : SUBSET Users,
          got : Seq(Bytes), saw : Seq(Bytes), todo : Seq(Writes)]

ASSUME NoCallAssumption == Absent \notin Calls

NewCall(op, f, arg) ==
    [op |-> op, f |-> f, arg |-> arg, at |-> "access",
     acc |-> Absent, node |-> Absent, file |-> Absent, key |-> 0, box |-> Absent,
     inv |-> Absent, left |-> <<>>, kids |-> {}, got |-> <<>>, saw |-> <<>>,
     todo |-> <<>>]

Continue(s, c) ==
    /\ call' = [call EXCEPT ![s] = c]
    /\ UNCHANGED <<outcome, calls, due, revoked, history>>

(* The call returns an error; what it has stored by then stays stored.     *)
Fails(s) ==
    /\ call' = [call EXCEPT ![s] = Absent]
    /\ outcome' = [outcome EXCEPT ![s] = call[s].at]
    /\ UNCHANGED <<calls, due, revoked, history>>

(* The call returns nil. *)
Returns(s) ==
    LET c == call[s]
    IN  /\ call' = [call EXCEPT ![s] = Absent]
        /\ outcome' = [outcome EXCEPT ![s] = "ok"]
        /\ due' = CASE c.op = "StoreFile" -> Put(due, c.node.inode, Len(c.arg))
                    [] c.op = "AppendToFile" ->
                           [due EXCEPT ![c.node.inode] = @ + Len(c.arg)]
                    [] OTHER -> due
        /\ revoked' = CASE c.op = "RevokeAccess" -> revoked \cup {<<c.arg, c.node.inode>>}
                        [] c.op = "CreateInvitation" -> revoked \ {<<c.arg, c.node.inode>>}
                        [] OTHER -> revoked
        /\ UNCHANGED <<calls, history>>

(* The session is inside op, its next step is at, and nothing is queued.   *)
At(s, at) == /\ call[s] # Absent
             /\ call[s].at = at
             /\ call[s].todo = <<>>

Begin(s, c) ==
    /\ sessions[s] # Absent
    /\ call[s] = Absent
    /\ c.op \in Ops
    /\ calls + faults < MaxEvents
    /\ calls' = calls + 1
    /\ call' = [call EXCEPT ![s] = c]
    /\ begun' = begun \cup {<<sessions[s].name, c.op>>}
    /\ mixed' = mixed \cup {{c.op, call[t].op} : t \in {x \in Sessions : call[x] # Absent}}
    /\ UNCHANGED <<datastore, keystore, sessions, outcome, due, revoked, died>>

(* LoadFile, AppendToFile, CreateInvitation and RevokeAccess begin with    *)
(* the caller's access record.                                             *)
BeginOnFile(s, op, f, arg) ==
    /\ Begin(s, NewCall(op, f, arg))
    /\ UNCHANGED fresh

BeginAcceptInvitation(s, sender, ptr, f) ==
    /\ Begin(s, [NewCall("AcceptInvitation", f, <<sender, ptr>>) EXCEPT !.at = "invitation"])
    /\ UNCHANGED fresh

(* The order in which StoreFile writes. *)
StoreFileWrites(me, f, content, node, box, first) ==
    <<SetMailbox(box, node), SetAccess(me, f, [box |-> box, children |-> NoChildren])>>
        \o BlockWrites(ByteToBlock(content), node.fileKey, first)
        \o <<SetInode(node, [size |-> Len(content),
                             blocks |-> BlockUUIDs(ByteToBlock(content), first)]),
             SetUser(me, f)>>

(* StoreFile reads nothing: all its writes are settled when it begins.     *)
BeginStoreFile(s, f, content) ==
    LET node == [fileKey |-> fresh, inode |-> fresh + 1]
        box  == [uuid |-> fresh + 2, key |-> fresh + 3]
    IN  /\ sessions[s] # Absent
        /\ Begin(s, [NewCall("StoreFile", f, content) EXCEPT
                        !.at = "return", !.node = node,
                        !.todo = StoreFileWrites(sessions[s], f, content, node, box,
                                                 fresh + 4)])
        /\ fresh' = fresh + 4 + Len(ByteToBlock(content))

-----------------------------------------------------------------------------
(* The steps of a call.  Each reads or writes the datastore once; what     *)
(* follows the read up to the next storage call belongs to the same step.  *)

Reads(s) == UNCHANGED <<datastore, keystore, sessions>>

GetAccess(s) ==
    LET me == sessions[s]
        c  == call[s]
    IN  /\ At(s, "access")
        /\ \/ /\ OpensAccess(me, c.f)
              /\ Continue(s, [c EXCEPT !.acc = AccessOf(me, c.f), !.at = "mailbox"])
           \/ /\ ~OpensAccess(me, c.f)
              /\ Fails(s)
        /\ Reads(s)
        /\ UNCHANGED fresh

(* CreateInvitation goes on to store the recipient's mailbox, a copy of    *)
(* its own; the other methods go on to the inode.                          *)
GetMailbox(s) ==
    LET c    == call[s]
        node == mailbox[c.acc.box.uuid].plain
        box  == [uuid |-> fresh, key |-> fresh + 1]
    IN  /\ At(s, "mailbox")
        /\ IF ~OpensMailbox(c.acc.box) THEN Fails(s) /\ UNCHANGED fresh
           ELSE \/ /\ c.op # "CreateInvitation"
                   /\ Continue(s, [c EXCEPT !.node = node, !.at = "inode"])
                   /\ UNCHANGED fresh
                \/ /\ c.op = "CreateInvitation"
                   /\ Continue(s, [c EXCEPT !.node = node, !.box = box, !.at = "recipient",
                                            !.todo = <<SetMailbox(box, node)>>])
                   /\ fresh' = fresh + 2
        /\ Reads(s)

(* Slip: the inode is written before the blocks it names. *)
AppendWritesInodeFirst(c, file) ==
    <<SetInode(c.node, Appended(file, c.arg, fresh))>>
        \o BlockWrites(ByteToBlock(c.arg), c.node.fileKey, fresh)

(* Slip: the inode is made anew, for the new content only. *)
AppendWritesNewInode(c, file) ==
    BlockWrites(ByteToBlock(c.arg), c.node.fileKey, fresh)
        \o <<SetInode(c.node, Appended([size |-> 0, blocks |-> <<>>], c.arg, fresh))>>

(* The order in which AppendToFile writes. *)
AppendWrites(c, file) ==
    BlockWrites(ByteToBlock(c.arg), c.node.fileKey, fresh)
        \o <<SetInode(c.node, Appended(file, c.arg, fresh))>>

GetInode(s) ==
    LET c    == call[s]
        file == inode[c.node.inode].plain
    IN  /\ At(s, "inode")
        /\ \/ /\ OpensInode(c.node)
              /\ c.op = "LoadFile"
              /\ Continue(s, [c EXCEPT !.at = "block", !.file = file, !.left = file.blocks,
                                       !.saw = IF Range(file.blocks) \subseteq DOMAIN block
                                               THEN FileBytes(c.node.inode) ELSE <<>>])
              /\ UNCHANGED fresh
           \/ /\ OpensInode(c.node)
              /\ c.op = "AppendToFile"
              /\ Continue(s, [c EXCEPT !.at = "return", !.todo = AppendWrites(c, file)])
              /\ fresh' = fresh + Len(ByteToBlock(c.arg))
           \/ /\ OpensInode(c.node)
              /\ c.op = "RevokeAccess"
              /\ Continue(s, [c EXCEPT !.at = "reseal", !.file = file, !.left = file.blocks,
                                       !.key = fresh,
                                       !.box = [uuid |-> fresh + 2, key |-> fresh + 1]])
              /\ fresh' = fresh + 3
           \/ /\ ~OpensInode(c.node)
              /\ Fails(s)
              /\ UNCHANGED fresh
        /\ Reads(s)

OpensBlock(b, node) == b \in DOMAIN block /\ decrypts(block[b], getFileKeys(node.fileKey))

(* Slip: LoadFile skips the blocks it cannot find or open. *)
GetBlockOrSkip(s) ==
    LET c == call[s]
        b == Head(c.left)
    IN  /\ At(s, "block")
        /\ \/ /\ c.left # <<>>
              /\ Continue(s, [c EXCEPT !.left = Tail(@),
                                       !.got = @ \o (IF OpensBlock(b, c.node)
                                                     THEN block[b].plain ELSE <<>>)])
           \/ c.left = <<>> /\ Returns(s)
        /\ Reads(s)
        /\ UNCHANGED fresh

(* LoadFile's block loop. *)
GetBlock(s) ==
    LET c == call[s]
        b == Head(c.left)
    IN  /\ At(s, "block")
        /\ \/ /\ c.left # <<>>
              /\ OpensBlock(b, c.node)
              /\ Continue(s, [c EXCEPT !.left = Tail(@), !.got = @ \o block[b].plain])
           \/ c.left # <<>> /\ ~OpensBlock(b, c.node) /\ Fails(s)
           \/ c.left = <<>> /\ Returns(s)
        /\ Reads(s)
        /\ UNCHANGED fresh

(* Slip: the caller's new mailbox keeps the former file key. *)
RevokeWritesOldKey(c) ==
    <<SetInode([c.node EXCEPT !.fileKey = c.key], c.file), SetMailbox(c.box, c.node)>>

(* RevokeAccess: the inode under the new key, and the caller's new mailbox.*)
RevokeWrites(c) ==
    LET node == [c.node EXCEPT !.fileKey = c.key]
    IN  <<SetInode(node, c.file), SetMailbox(c.box, node)>>

(* RevokeAccess' block loop, and the inode and new mailbox after it.       *)
Reseal(s) ==
    LET c == call[s]
        b == Head(c.left)
    IN  /\ At(s, "reseal")
        /\ \/ /\ c.left # <<>>
              /\ OpensBlock(b, c.node)
              /\ Continue(s, [c EXCEPT !.left = Tail(@),
                     !.todo = <<Set("block", b,
                                    encryptAndMAC(block[b].plain, getFileKeys(c.key)))>>])
           \/ c.left # <<>> /\ ~OpensBlock(b, c.node) /\ Fails(s)
           \/ /\ c.left = <<>>
              /\ Continue(s, [c EXCEPT !.at = "child",
                     !.kids = {u \in Users \ {c.arg} : c.acc.children[u] # Absent},
                     !.todo = RevokeWrites(c)])
        /\ Reads(s)
        /\ UNCHANGED fresh

(* RevokeAccess' loop over the remaining children, in any order; a mailbox *)
(* that cannot be found or opened is skipped.                              *)
GetChild(s) ==
    LET c == call[s]
        p(u) == c.acc.children[u]
    IN  /\ At(s, "child")
        /\ \/ \E u \in c.kids :
                 Continue(s, [c EXCEPT !.kids = @ \ {u},
                     !.todo = IF OpensMailbox(p(u))
                              THEN <<SetMailbox(p(u), [mailbox[p(u).uuid].plain
                                                          EXCEPT !.fileKey = c.key])>>
                              ELSE <<>>])
           \/ /\ c.kids = {}
              /\ Continue(s, [c EXCEPT !.at = "return",
                     !.todo = <<SetAccess(sessions[s], c.f, WithoutChild(c.acc, c.arg, c.box)),
                                SetUser(sessions[s], c.f)>>])
        /\ Reads(s)
        /\ UNCHANGED fresh

(* Slip: the recipient is not entered into Children. *)
InviteWritesNoChild(me, c) ==
    <<Set("invitation", fresh, [enc |-> keystore[c.arg].enc, sig |-> me.ds, box |-> c.box])>>

(* The invitation, and the access record with the recipient in Children.   *)
InviteWrites(me, c) ==
    <<Set("invitation", fresh, [enc |-> keystore[c.arg].enc, sig |-> me.ds, box |-> c.box]),
      SetAccess(me, c.f, WithChild(c.acc, c.arg, c.box))>>

(* CreateInvitation: the recipient's mailbox is stored, its key is looked  *)
(* up next.                                                                *)
GetRecipientKey(s) ==
    LET me == sessions[s]
        c  == call[s]
    IN  /\ At(s, "recipient")
        /\ \/ /\ keystore[c.arg] # Absent
              /\ Continue(s, [c EXCEPT !.at = "return", !.todo = InviteWrites(me, c)])
              /\ fresh' = fresh + 1
           \/ keystore[c.arg] = Absent /\ Fails(s) /\ UNCHANGED fresh
        /\ Reads(s)

GetInvitation(s) ==
    LET c   == call[s]
        ptr == c.arg[2]
    IN  /\ At(s, "invitation")
        /\ \/ /\ ptr \in DOMAIN invitation
              /\ Continue(s, [c EXCEPT !.inv = invitation[ptr], !.at = "sender"])
           \/ ptr \notin DOMAIN invitation /\ Fails(s)
        /\ Reads(s)
        /\ UNCHANGED fresh

(* AcceptInvitation: the sender's key, the signature, the decryption.      *)
GetSenderKey(s) ==
    LET me  == sessions[s]
        c   == call[s]
        key == keystore[c.arg[1]]
        good == key # Absent /\ c.inv.sig = key.sig /\ c.inv.enc = me.pke
    IN  /\ At(s, "sender")
        /\ \/ /\ good
              /\ Continue(s, [c EXCEPT !.at = "return",
                     !.todo = <<SetAccess(me, c.f, [box |-> c.inv.box,
                                                    children |-> NoChildren]),
                                SetUser(me, c.f)>>])
           \/ ~good /\ Fails(s)
        /\ Reads(s)
        /\ UNCHANGED fresh

(* After a storage.Set, whose status nobody looks at; the last one ends    *)
(* the call.  saveUser has changed the session's struct in any case.       *)
SetDone(s) ==
    LET c == call[s]
        w == Head(c.todo)
    IN  /\ sessions' = IF w.kind = "account" THEN [sessions EXCEPT ![s] = w.record.plain]
                                             ELSE sessions
        /\ \/ Len(c.todo) = 1 /\ c.at = "return" /\ Returns(s)
           \/ /\ Len(c.todo) > 1 \/ c.at # "return"
              /\ Continue(s, [c EXCEPT !.todo = Tail(@)])
        /\ UNCHANGED <<keystore, fresh>>

(* The next queued storage.Set. *)
SetNext(s) ==
    /\ call[s] # Absent
    /\ call[s].todo # <<>>
    /\ Write(Head(call[s].todo))
    /\ SetDone(s)

(* The call ends with its client; the user logs in again later.            *)
Lost(s) ==
    /\ call[s] # Absent
    /\ call' = [call EXCEPT ![s] = Absent]
    /\ outcome' = [outcome EXCEPT ![s] = "died"]
    /\ sessions' = [sessions EXCEPT ![s] = Absent]
    /\ died' = died \cup {call[s].op}
    /\ UNCHANGED <<datastore, keystore, fresh, calls, due, revoked, begun, mixed>>

(* The last Set of its call was applied after the client died.             *)
Leaves(s) ==
    /\ call[s] = Absent
    /\ sessions' = [sessions EXCEPT ![s] = Absent]
    /\ UNCHANGED <<datastore, keystore, fresh, progress>>

-----------------------------------------------------------------------------
(* Faults *)

Fault(s) ==
    /\ client[s] = "alive"
    /\ faults < MaxFaults
    /\ calls + faults < MaxEvents
    /\ faults' = faults + 1

(* The server answers the Set with an error: datastoreSet drops it.        *)
RefusedSet(s) ==
    /\ Fault(s)
    /\ call[s] # Absent
    /\ call[s].todo # <<>>
    /\ SetDone(s)
    /\ refused' = refused \cup {call[s].op}
    /\ UNCHANGED <<datastore, client>>

(* The client dies between two storage calls or inside one that does not   *)
(* reach the server.                                                       *)
Crash(s) ==
    /\ Fault(s)
    /\ Lost(s)
    /\ UNCHANGED <<client, refused>>

(* The client dies inside a Set that has reached the server: readStatus    *)
(* panics, or the process is killed.  The call counts as in progress until *)
(* the server has applied the Set.                                         *)
CrashInSet(s) ==
    /\ Fault(s)
    /\ call[s] # Absent
    /\ call[s].todo # <<>>
    /\ client' = [client EXCEPT ![s] = "late"]
    /\ UNCHANGED <<vars, progress, refused>>

LateSet(s) ==
    /\ client[s] = "late"
    /\ SetNext(s)
    /\ client' = [client EXCEPT ![s] = "dead"]
    /\ UNCHANGED <<refused, faults>>

(* Nothing of the dead client is left; the session is free for another.    *)
Gone(s) ==
    /\ client[s] = "dead"
    /\ Lost(s) \/ Leaves(s)
    /\ client' = [client EXCEPT ![s] = "alive"]
    /\ UNCHANGED <<refused, faults>>

Login(s) ==
    /\ sessions[s] = Absent
    /\ \E who \in Logins : GetUser(s, who[s], Password)
    /\ UNCHANGED progress

-----------------------------------------------------------------------------
(* The state after the serial set-up, in ShareLock's numbering. *)

Position(u) == CHOOSE n \in DOMAIN Circle : Circle[n] = u

FirstNumber == 2 * Len(Circle) + 1
FirstNode   == [fileKey |-> FirstNumber, inode |-> FirstNumber + 1]
FirstBlock  == FirstNumber + 4
FirstInvite == FirstBlock + Len(ByteToBlock(FirstContent))

(* The mailbox of the n-th user, and the invitation that handed it over.   *)
BoxOf(n) == IF n = 1 THEN [uuid |-> FirstNumber + 2, key |-> FirstNumber + 3]
                     ELSE [uuid |-> FirstInvite + 3 * (n - 2), key |-> FirstInvite + 3 * (n - 2) + 1]
InviteOf(n) == FirstInvite + 3 * (n - 2) + 2

HasFile(u) == u \in Range(Circle) /\ Position(u) <= Shared

UserOf(u) == [name |-> u, pke |-> 2 * Position(u) - 1, ds |-> 2 * Position(u),
              master |-> <<u, Password>>, files |-> IF HasFile(u) THEN {FileName} ELSE {}]

AccessAtFirst(u) ==
    [box |-> BoxOf(Position(u)),
     children |-> [v \in Users |-> IF u = Circle[1] /\ v # u /\ HasFile(v)
                                   THEN BoxOf(Position(v)) ELSE Absent]]

SetUp ==
    LET chunks == ByteToBlock(FirstContent)
    IN  /\ accounts = [u \in Users |->
               IF u \in Range(Circle)
               THEN encryptAndMAC(UserOf(u), getUserKeys(<<u, Password>>)) ELSE Absent]
        /\ keystore = [u \in Users |->
               IF u \in Range(Circle)
               THEN [enc |-> 2 * Position(u) - 1, sig |-> 2 * Position(u)] ELSE Absent]
        /\ access = [x \in Slots |->
               IF x[2] = FileName /\ HasFile(x[1])
               THEN encryptAndMAC(AccessAtFirst(x[1]),
                                  getPersonalKey(<<x[1], Password>>, FileName))
               ELSE Absent]
        /\ mailbox = [m \in {BoxOf(n).uuid : n \in 1..Shared} |->
               encryptAndMAC(FirstNode,
                   getMailKeys((CHOOSE p \in {BoxOf(n) : n \in 1..Shared} : p.uuid = m).key))]
        /\ inode = [i \in {FirstNode.inode} |->
               encryptAndMAC([size |-> Len(FirstContent),
                              blocks |-> BlockUUIDs(chunks, FirstBlock)],
                             getFileKeys(FirstNode.fileKey))]
        /\ block = NewBlocks(chunks, FirstNode.fileKey, FirstBlock)
        /\ invitation = [i \in {InviteOf(n) : n \in 2..Shared} |->
               LET n == CHOOSE k \in 2..Shared : InviteOf(k) = i
               IN  [enc |-> 2 * n - 1, sig |-> 2, box |-> BoxOf(n)]]
        /\ \E who \in Logins : sessions = [s \in Sessions |-> UserOf(who[s])]
        /\ fresh = FirstInvite + 3 * (Shared - 1)

ClientsInit ==
    /\ SetUp
    /\ call = [s \in Sessions |-> Absent]
    /\ outcome = [s \in Sessions |-> "ok"]
    /\ calls = 0
    /\ faults = 0
    /\ due = [i \in {FirstNode.inode} |-> Len(FirstContent)]
    /\ revoked = {}
    /\ begun = {} /\ mixed = {} /\ died = {} /\ refused = {}
    /\ client = [s \in Sessions |-> "alive"]

BeginCall(s) ==
    \E f \in Filenames :
        \/ BeginOnFile(s, "LoadFile", f, Absent)
        \/ \E content \in Contents : \/ BeginStoreFile(s, f, content)
                                     \/ BeginOnFile(s, "AppendToFile", f, content)
        \/ \E u \in Users, op \in {"CreateInvitation", "RevokeAccess"} :
               BeginOnFile(s, op, f, u)
        \/ \E u \in Users, ptr \in DOMAIN invitation \cup {0} :   \* 0 names nothing
               BeginAcceptInvitation(s, u, ptr, f)

Step(s) ==
    \/ GetAccess(s) \/ GetMailbox(s) \/ GetInode(s) \/ GetBlock(s)
    \/ Reseal(s) \/ GetChild(s)
    \/ GetRecipientKey(s) \/ GetInvitation(s) \/ GetSenderKey(s)
    \/ SetNext(s)

ClientsNext ==
    \E s \in Sessions :
        \/ /\ client[s] = "alive"
           /\ BeginCall(s) \/ Step(s) \/ Login(s)
           /\ UNCHANGED clients
        \/ RefusedSet(s)
        \/ Crash(s) \/ CrashInSet(s) \/ LateSet(s) \/ Gone(s)

ClientsSpec == ClientsInit /\ [][ClientsNext]_allVars

-----------------------------------------------------------------------------
(* Properties of concurrent executions *)

Quiet == \A s \in Sessions : call[s] = Absent

(* u reaches the whole of a file under f. *)
CanRead(u, f) ==
    LET acc == access[<<u, f>>].plain
    IN  /\ access[<<u, f>>] # Absent
        /\ OpensMailbox(acc.box)
        /\ OpensInode(mailbox[acc.box.uuid].plain)
        /\ OpensBlocks(mailbox[acc.box.uuid].plain)

Owner == Circle[1]

(* Some method of the first set overlapped one of the second.              *)
Overlapped(ops1, ops2) == \E m \in ops1, n \in ops2 : {m, n} \in mixed

Called(op) == \E u \in Users : <<u, op>> \in begun

OnlyOwnerRevokes == \A u \in Users : <<u, "RevokeAccess">> \in begun => u = Owner

(* As long as nobody revokes, no StoreFile was overlapped or cut short and *)
(* no Set was refused, none of the errors that LoadFile words "(data may   *)
(* be corrupted)", nor a decryption error, is returned to a user who has   *)
(* the file: a reader and an appender never see an append, an invitation   *)
(* or an acceptance half done, even one whose client died.                 *)
NeverCorrupted ==
    /\ ~Called("RevokeAccess")
    /\ "StoreFile" \notin died /\ ~Overlapped({"StoreFile"}, Ops)
    /\ refused = {}
    => \A s \in Sessions : outcome[s] \notin {"mailbox", "inode", "block"}

(* What LoadFile returns is what the file held when its inode was read,    *)
(* whatever happened to the file while the blocks were fetched, and        *)
(* whichever Sets were refused: it returns that or an error.               *)
LoadsAreSnapshots ==
    \A s \in Sessions :
        At(s, "block") /\ call[s].left = <<>> => call[s].got = call[s].saw

(* "AppendToFile appends content to an existing file": a file holds at     *)
(* least the bytes that the finished StoreFile and AppendToFile calls put  *)
(* into it, unless an append overlapped an append or a revocation, which   *)
(* write back the inode they have read (the Set of a client that died may  *)
(* be on its way for long, and overlaps whatever is called meanwhile), or  *)
(* a Set was refused.                                                      *)
AppendsKept ==
    /\ ~Overlapped({"AppendToFile"}, {"AppendToFile", "RevokeAccess"})
    /\ refused = {}
    => \A i \in DOMAIN due : inode[i].plain.size >= due[i]

(* Everyone with an access record reaches a whole file when no call is in  *)
(* progress, unless somebody revoked, or died inside StoreFile, which      *)
(* writes the access record before the file it leads to, or a Set was      *)
(* refused.                                                                *)
SlotsReadable ==
    Quiet /\ ~Called("RevokeAccess") /\ "StoreFile" \notin died /\ refused = {}
        => \A u \in Users, f \in Filenames : access[<<u, f>>] # Absent => CanRead(u, f)

(* "verifies owner can still read after revocation": when no call is in    *)
(* progress, and no Set of a dead client on its way, the owner of the      *)
(* shared file reads it, if only the owner has revoked and has accepted    *)
(* nothing in its place, no revocation overlapped a call that writes back  *)
(* what the revocation replaces (dead clients' Sets included), nobody died *)
(* inside RevokeAccess or StoreFile and no Set was refused.                *)
OwnerReads ==
    /\ Quiet
    /\ OnlyOwnerRevokes
    /\ <<Owner, "AcceptInvitation">> \notin begun
    /\ ~Overlapped({"RevokeAccess"}, {"RevokeAccess", "AppendToFile", "CreateInvitation"})
    /\ died \cap {"RevokeAccess", "StoreFile"} = {}
    /\ refused = {}
    => CanRead(Owner, FileName)

(* "Dynamic re-keying isolates revoked users": once RevokeAccess has       *)
(* returned to the owner, the revoked user does not read the file any      *)
(* more, unless invited again: only the owner has revoked, and the owner   *)
(* holds each file under one name, no revocation overlapped a call that    *)
(* writes back what the revocation replaces (an append whose client died   *)
(* before the revocation and whose inode arrives after it overlaps it), no *)
(* CreateInvitation was cut short (the invitation is stored before         *)
(* Children is), and no Set was refused.                                   *)
RevokedStayOut ==
    /\ Quiet
    /\ OnlyOwnerRevokes
    /\ <<Owner, "AcceptInvitation">> \notin begun
    /\ ~Overlapped({"RevokeAccess"}, {"RevokeAccess", "AppendToFile", "CreateInvitation"})
    /\ "CreateInvitation" \notin died
    /\ refused = {}
    =>  \A u \in Users \ {Owner}, f \in Filenames :
            /\ access[<<u, f>>] # Absent
            /\ OpensMailbox(access[<<u, f>>].plain.box)
            /\ <<u, mailbox[access[<<u, f>>].plain.box.uuid].plain.inode>> \in revoked
            => ~CanRead(u, f)

(* "maintains a sharing tree (Children map) of all direct sharees": when   *)
(* no call is in progress, whoever was invited to the shared file by its   *)
(* owner is among the owner's Children, as long as the owner has neither   *)
(* revoked nor replaced the file, two invitations have not overlapped,     *)
(* none was cut short and no Set was refused.                              *)
SharingTreeComplete ==
    /\ Quiet
    /\ begun \cap {<<Owner, op>> : op \in {"RevokeAccess", "StoreFile", "AcceptInvitation"}} = {}
    /\ ~Overlapped({"CreateInvitation"}, {"CreateInvitation"})
    /\ "CreateInvitation" \notin died
    /\ refused = {}
    => \A p \in DOMAIN invitation, u \in Range(Circle) :
           /\ invitation[p].sig = keystore[Owner].sig
           /\ invitation[p].enc = keystore[u].enc
           => access[<<Owner, FileName>>].plain.children[u] # Absent
=============================================================================
