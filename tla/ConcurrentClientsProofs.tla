------------------------ MODULE ConcurrentClientsProofs ------------------------
(***************************************************************************)
(* What the methods of ConcurrentClients keep true of the datastore while  *)
(* they interleave in any way and clients die, for any number of users,    *)
(* sessions and calls: loads see one version, appends are kept, nobody     *)
(* meets damage, and the owner's Children are complete.                    *)
(***************************************************************************)
EXTENDS ConcurrentClients, ShareLockProofs

(* Which method is where, with which argument, and what it has by then.    *)
OpFits(c) ==
    /\ c.op \in Ops
    /\ c.op \in {"StoreFile", "AppendToFile"} => c.arg \in Contents
    /\ c.op \in {"CreateInvitation", "RevokeAccess"} => c.arg \in Users
    /\ c.op = "AcceptInvitation" => c.arg \in Users \X Nat
    /\ c.at \in {"access", "mailbox"} => c.op \notin {"StoreFile", "AcceptInvitation"}
    /\ c.at = "inode" => c.op \in {"LoadFile", "AppendToFile", "RevokeAccess"}
    /\ c.at = "block" => c.op = "LoadFile"
    /\ c.at \in {"reseal", "child"} => c.op = "RevokeAccess"
    /\ c.at = "recipient" => c.op = "CreateInvitation"
    /\ c.at \in {"invitation", "sender"} => c.op = "AcceptInvitation"
    /\ c.at = "return" => c.op # "LoadFile"

Has(c) ==
    /\ c.at \in {"mailbox", "inode", "reseal", "child", "recipient"} => c.acc \in Access
    /\ c.at \in {"inode", "block", "reseal", "child", "recipient"} => c.node \in MailboxNode
    /\ c.at = "return" /\ c.op # "AcceptInvitation" => c.node \in MailboxNode
    /\ c.at = "reseal" => c.file \in Inode
    /\ c.at \in {"reseal", "child", "recipient"} => c.box \in Pointer
    /\ c.at = "child" => \A u \in c.kids : c.acc.children[u] # Absent
    /\ c.at = "sender" => c.inv \in Invitation
    /\ c.at \in {"access", "mailbox", "inode", "block", "invitation", "sender"}
           => c.todo = <<>>
    /\ c.at \in {"access", "mailbox", "inode"} => c.got = <<>>

InCall(s) == call[s] # Absent

CallsFit ==
    /\ call \in [Sessions -> Calls \cup {Absent}]
    /\ \A s \in Sessions : InCall(s) =>
           OpFits(call[s]) /\ Has(call[s]) /\ sessions[s] # Absent

CTypeOK == TypeOK /\ CallsFit

-----------------------------------------------------------------------------
(* What is queued, by all sessions together. *)
Queued == UNION {Range(call[s].todo) : s \in {x \in Sessions : InCall(x)}}

(* A block that is stored or queued has one content for good: only a       *)
(* re-encryption writes it again.                                          *)
BlocksSettled ==
    /\ \A b \in DOMAIN block : b < fresh
    /\ \A w \in Queued : w.kind = "block" =>
           w.id < fresh /\ (w.id \in DOMAIN block => block[w.id].plain = w.record.plain)
    /\ \A w, v \in Queued : w.kind = "block" /\ v.kind = "block" /\ w.id = v.id =>
           w.record.plain = v.record.plain

(* The ids are all stored in blocks. *)
Exist(ids, blocks) == \A n \in DOMAIN ids : ids[n] \in DOMAIN blocks

(* The n-th of the queued writes finds block b stored. *)
StoredBy(c, n, b, blocks) ==
    \/ b \in DOMAIN blocks
    \/ \E m \in 1..(n - 1) : c.todo[m].kind = "block" /\ c.todo[m].id = b

(* An inode is stored after the blocks it names. *)
TodoBacked(c, blocks) ==
    \A n \in DOMAIN c.todo : c.todo[n].kind = "inode" =>
        \A k \in DOMAIN c.todo[n].record.plain.blocks :
            StoredBy(c, n, c.todo[n].record.plain.blocks[k], blocks)

CallBacked(c, blocks) ==
    /\ c.at = "reseal" => Exist(c.file.blocks, blocks)
    /\ c.at = "block" => Exist(c.left, blocks)
    /\ TodoBacked(c, blocks)

InodesBacked == \A i \in DOMAIN inode : Exist(inode[i].plain.blocks, block)

(* LoadFile has the first part of the file, and the rest is still there.   *)
Loading(c, blocks) ==
    c.at = "block" => c.saw = c.got \o FlattenSeq(ReadsOf(c.left, blocks))

BInv ==
    /\ BlocksSettled /\ InodesBacked
    /\ \A s \in Sessions : InCall(s) => CallBacked(call[s], block) /\ Loading(call[s], block)

-----------------------------------------------------------------------------
(* Types *)

Fits(c) == c \in Calls /\ OpFits(c) /\ Has(c)

LEMMA CallFits ==
    ASSUME CallsFit, NEW s \in Sessions, InCall(s)
    PROVE  Fits(call[s]) /\ sessions[s] # Absent
BY DEF CallsFit, Fits, InCall

LEMMA Moved ==
    ASSUME CallsFit, NEW s \in Sessions, NEW c, call' = [call EXCEPT ![s] = c],
           c = Absent \/ (Fits(c) /\ sessions'[s] # Absent),
           \A t \in Sessions : t # s => sessions'[t] = sessions[t]
    PROVE  CallsFit'
<1>1. call' \in [Sessions -> Calls \cup {Absent}]
  BY DEF CallsFit, Fits
<1>2. ASSUME NEW t \in Sessions, InCall(t)'
      PROVE  OpFits(call'[t]) /\ Has(call'[t]) /\ sessions'[t] # Absent
  <2>1. CASE t = s
    BY <1>2, <2>1 DEF InCall, CallsFit, Fits
  <2>2. CASE t # s
    BY <1>2, <2>2 DEF InCall, CallsFit
  <2> QED
    BY <2>1, <2>2
<1>3. \A t \in Sessions : InCall(t)' => OpFits(call[t])' /\ Has(call[t])' /\ (sessions[t] # Absent)'
  BY <1>2 DEF OpFits, Has
<1> QED
  BY <1>1, <1>3 DEF CallsFit

LEMMA WriteType ==
    ASSUME TypeOK, NEW w \in Writes, Write(w), UNCHANGED <<keystore, fresh>>,
           sessions' \in [Sessions -> User \cup {Absent}]
    PROVE  TypeOK'
<1>1. CASE w.kind = "mailbox"
  <2>1. w.id \in Nat /\ w.record \in MailboxRecords
    BY <1>1 DEF Writes,
       AccountRecords, AccessRecords, MailboxRecords, InodeRecords, BlockRecords
  <2>2. /\ mailbox' = Put(mailbox, w.id, w.record)
        /\ UNCHANGED <<inode, block, invitation, access, accounts>>
    BY <1>1 DEF Write
  <2> QED
    BY <2>1, <2>2, PutStore DEF TypeOK, MailboxRecords
<1>2. CASE w.kind = "inode"
  <2>1. w.id \in Nat /\ w.record \in InodeRecords
    BY <1>2 DEF Writes,
       AccountRecords, AccessRecords, MailboxRecords, InodeRecords, BlockRecords
  <2>2. /\ inode' = Put(inode, w.id, w.record)
        /\ UNCHANGED <<mailbox, block, invitation, access, accounts>>
    BY <1>2 DEF Write
  <2> QED
    BY <2>1, <2>2, PutStore DEF TypeOK, InodeRecords
<1>3. CASE w.kind = "block"
  <2>1. w.id \in Nat /\ w.record \in BlockRecords
    BY <1>3 DEF Writes,
       AccountRecords, AccessRecords, MailboxRecords, InodeRecords, BlockRecords
  <2>2. /\ block' = Put(block, w.id, w.record)
        /\ UNCHANGED <<mailbox, inode, invitation, access, accounts>>
    BY <1>3 DEF Write
  <2> QED
    BY <2>1, <2>2, PutStore DEF TypeOK, BlockRecords
<1>4. CASE w.kind = "invitation"
  <2>1. w.id \in Nat /\ w.record \in Invitation
    BY <1>4 DEF Writes,
       AccountRecords, AccessRecords, MailboxRecords, InodeRecords, BlockRecords
  <2>2. /\ invitation' = Put(invitation, w.id, w.record)
        /\ UNCHANGED <<mailbox, inode, block, access, accounts>>
    BY <1>4 DEF Write
  <2> QED
    BY <2>1, <2>2, PutStore DEF TypeOK
<1>5. CASE w.kind = "access"
  <2>1. w.id \in Slots /\ w.record \in AccessRecords
    BY <1>5 DEF Writes,
       AccountRecords, AccessRecords, MailboxRecords, InodeRecords, BlockRecords
  <2>2. /\ access' = [access EXCEPT ![w.id] = w.record]
        /\ UNCHANGED <<mailbox, inode, block, invitation, accounts>>
    BY <1>5 DEF Write
  <2> QED
    BY <2>1, <2>2 DEF TypeOK, AccessRecords
<1>6. CASE w.kind = "account"
  <2>1. w.id \in Users /\ w.record \in AccountRecords
    BY <1>6 DEF Writes,
       AccountRecords, AccessRecords, MailboxRecords, InodeRecords, BlockRecords
  <2>2. /\ accounts' = [accounts EXCEPT ![w.id] = w.record]
        /\ UNCHANGED <<mailbox, inode, block, invitation, access>>
    BY <1>6 DEF Write
  <2> QED
    BY <2>1, <2>2 DEF TypeOK, AccountRecords
<1>7. w.kind \in {"mailbox", "inode", "block", "invitation", "access", "account"}
  BY DEF Writes,
     AccountRecords, AccessRecords, MailboxRecords, InodeRecords, BlockRecords
<1> QED
  BY <1>1, <1>2, <1>3, <1>4, <1>5, <1>6, <1>7

(* The writes that the methods queue. *)
LEMMA SetUserType ==
    ASSUME NEW me \in User, NEW f \in Filenames
    PROVE  SetUser(me, f) \in Writes
<1> DEFINE new == [me EXCEPT !.files = @ \cup {f}]
<1>1. new \in User /\ me.name \in Users /\ me.master \in MasterKeys
  BY DEF User
<1> HIDE DEF new
<1>2. encryptAndMAC(new, getUserKeys(me.master)) \in AccountRecords
  BY <1>1 DEF encryptAndMAC, getUserKeys, AccountRecords, Sealed
<1>3. SetUser(me, f) = [kind |-> "account", id |-> me.name,
                        record |-> encryptAndMAC(new, getUserKeys(me.master))]
  BY DEF SetUser, Set, new
<1> QED
  BY <1>1, <1>2, <1>3 DEF Writes,
     AccountRecords, AccessRecords, MailboxRecords, InodeRecords, BlockRecords

LEMMA SetMailboxType ==
    ASSUME NEW p \in Pointer, NEW node \in MailboxNode
    PROVE  /\ SetMailbox(p, node) \in Writes
           /\ SetMailbox(p, node) = [kind |-> "mailbox", id |-> p.uuid,
                                     record |-> [key |-> <<"mailbox", p.key>>, plain |-> node]]
<1>1. [key |-> <<"mailbox", p.key>>, plain |-> node] \in MailboxRecords
  BY DEF Pointer, MailboxRecords, Sealed
<1> QED
  BY <1>1 DEF SetMailbox, Set, encryptAndMAC, getMailKeys, Pointer, Writes,
     AccountRecords, AccessRecords, MailboxRecords, InodeRecords, BlockRecords

LEMMA SetAccessType ==
    ASSUME NEW me \in User, NEW f \in Filenames, NEW acc \in Access
    PROVE  /\ SetAccess(me, f, acc) \in Writes
           /\ SetAccess(me, f, acc) =
                  [kind |-> "access", id |-> <<me.name, f>>,
                   record |-> [key |-> <<"personal", me.master, f>>, plain |-> acc]]
<1>1. <<me.name, f>> \in Slots /\ me.master \in MasterKeys
  BY DEF User, Slots
<1>2. [key |-> <<"personal", me.master, f>>, plain |-> acc] \in AccessRecords
  BY <1>1 DEF AccessRecords, Sealed
<1> QED
  BY <1>1, <1>2 DEF SetAccess, Set, Slot, encryptAndMAC, getPersonalKey, Writes,
     AccountRecords, AccessRecords, MailboxRecords, InodeRecords, BlockRecords

LEMMA SetInodeType ==
    ASSUME NEW node \in MailboxNode, NEW file \in Inode
    PROVE  /\ SetInode(node, file) \in Writes
           /\ SetInode(node, file) = [kind |-> "inode", id |-> node.inode,
                                      record |-> [key |-> <<"file", node.fileKey>>, plain |-> file]]
<1>1. [key |-> <<"file", node.fileKey>>, plain |-> file] \in InodeRecords
  BY DEF MailboxNode, InodeRecords, Sealed
<1> QED
  BY <1>1 DEF SetInode, Set, encryptAndMAC, getFileKeys, MailboxNode, Writes,
     AccountRecords, AccessRecords, MailboxRecords, InodeRecords, BlockRecords

LEMMA BlockWritesType ==
    ASSUME NEW c \in Seq(Bytes), NEW key \in Nat, NEW id \in Nat
    PROVE  LET chunks == ByteToBlock(c)
               ws     == BlockWrites(chunks, key, id)
           IN  /\ ws \in Seq(Writes) /\ Len(ws) = Len(chunks) /\ Len(chunks) \in Nat
               /\ \A n \in 1..Len(chunks) :
                      ws[n] = [kind |-> "block", id |-> id + n - 1,
                               record |-> [key |-> <<"file", key>>, plain |-> chunks[n]]]
<1> DEFINE chunks == ByteToBlock(c)
           ws     == BlockWrites(chunks, key, id)
<1>1. chunks \in Seq(Seq(Bytes)) /\ Len(chunks) \in Nat
  BY Chunks
<1> HIDE DEF chunks
<1>2. ws = [n \in 1..Len(chunks) |->
               [kind |-> "block", id |-> id + n - 1,
                record |-> [key |-> <<"file", key>>, plain |-> chunks[n]]]]
  BY DEF BlockWrites, Set, encryptAndMAC, getFileKeys
<1>3. ASSUME NEW n \in 1..Len(chunks)
      PROVE  [kind |-> "block", id |-> id + n - 1,
              record |-> [key |-> <<"file", key>>, plain |-> chunks[n]]] \in Writes
  <2>1. chunks[n] \in Seq(Bytes) /\ id + n - 1 \in Nat
    BY <1>1, <1>3
  <2>2. [key |-> <<"file", key>>, plain |-> chunks[n]] \in BlockRecords
    BY <2>1 DEF BlockRecords, Sealed
  <2> QED
    BY <2>1, <2>2 DEF Writes,
       AccountRecords, AccessRecords, MailboxRecords, InodeRecords, BlockRecords
<1> HIDE DEF ws
<1>4. ws \in [1..Len(chunks) -> Writes]
  BY <1>2, <1>3
<1>5. ws \in Seq(Writes) /\ Len(ws) = Len(chunks)
  BY <1>1, <1>4, FunctionIsSeq
<1>6. \A n \in 1..Len(chunks) :
          ws[n] = [kind |-> "block", id |-> id + n - 1,
                   record |-> [key |-> <<"file", key>>, plain |-> chunks[n]]]
  BY <1>2
<1> QED
  BY <1>1, <1>5, <1>6 DEF ws, chunks
-----------------------------------------------------------------------------
(* The datastore stays, and session s goes on with c or is done (Absent).  *)
Goes(s, c) ==
    /\ UNCHANGED <<datastore, keystore>>
    /\ call' = [call EXCEPT ![s] = c]
    /\ fresh' \in Nat /\ fresh <= fresh'
    /\ \/ Fits(c) /\ sessions' = sessions
       \/ c = Absent /\ \A t \in Sessions : t # s => sessions'[t] = sessions[t]
    /\ sessions' \in [Sessions -> User \cup {Absent}]

(* It goes on with c. *)
GoesOn(s, c) == Goes(s, c) /\ Fits(c)

LEMMA GoesType ==
    ASSUME CTypeOK, NEW s \in Sessions, NEW c, Goes(s, c), InCall(s) \/ sessions[s] # Absent
    PROVE  CTypeOK'
<1>1. TypeOK'
  BY DEF CTypeOK, TypeOK, Goes, datastore
<1>2. sessions[s] # Absent
  BY DEF CTypeOK, CallsFit
<1>3. CallsFit'
  BY <1>2, Moved DEF CTypeOK, Goes
<1> QED
  BY <1>1, <1>3 DEF CTypeOK

LEMMA CallType ==
    ASSUME CTypeOK, NEW s \in Sessions, InCall(s)
    PROVE  /\ Fits(call[s])
           /\ sessions[s] \in User
           /\ fresh \in Nat
           /\ sessions \in [Sessions -> User \cup {Absent}]
BY CallFits DEF CTypeOK, TypeOK

LEMMA FailsGoes ==
    ASSUME CTypeOK, NEW s \in Sessions, Fails(s), UNCHANGED <<datastore, keystore, sessions, fresh>>
    PROVE  Goes(s, Absent)
BY DEF CTypeOK, TypeOK, Fails, Goes

LEMMA GetAccessGoes ==
    ASSUME CTypeOK, NEW s \in Sessions, GetAccess(s)
    PROVE  \/ Goes(s, Absent)
           \/ LET c == [call[s] EXCEPT !.acc = AccessOf(sessions[s], call[s].f), !.at = "mailbox"]
              IN  OpensAccess(sessions[s], call[s].f) /\ GoesOn(s, c)
<1>1. InCall(s) /\ call[s].at = "access" /\ call[s].todo = <<>>
  BY DEF GetAccess, At, InCall
<1>2. /\ Fits(call[s]) /\ sessions[s] \in User /\ fresh \in Nat
      /\ sessions \in [Sessions -> User \cup {Absent}]
  BY <1>1, CallType
<1>3. UNCHANGED <<datastore, keystore, sessions, fresh>>
  BY DEF GetAccess, Reads
<1>4. CASE ~OpensAccess(sessions[s], call[s].f)
  BY <1>3, <1>4, FailsGoes DEF GetAccess
<1>5. CASE OpensAccess(sessions[s], call[s].f)
  <2> DEFINE c == [call[s] EXCEPT !.acc = AccessOf(sessions[s], call[s].f), !.at = "mailbox"]
  <2>1. AccessOf(sessions[s], call[s].f) \in Access
    BY <1>2, <1>5, ReadTypes DEF CTypeOK, Fits, Calls
  <2>2. call' = [call EXCEPT ![s] = c]
    BY <1>5 DEF GetAccess, Continue
  <2>3. Fits(c)
    <3>1. c \in Calls
      BY <1>2, <2>1 DEF Fits, Calls
    <3>2. /\ c.at = "mailbox" /\ c.acc \in Access
          /\ c.op = call[s].op /\ c.arg = call[s].arg /\ c.todo = call[s].todo /\ c.got = call[s].got
      BY <1>2, <2>1 DEF Fits, Calls
    <3> HIDE DEF c
    <3> QED
      BY <1>1, <1>2, <3>1, <3>2 DEF Fits, OpFits, Has
  <2> QED
    BY <1>2, <1>3, <1>5, <2>2, <2>3 DEF Goes, GoesOn
<1> QED
  BY <1>4, <1>5

LEMMA GetMailboxGoes ==
    ASSUME CTypeOK, NEW s \in Sessions, GetMailbox(s)
    PROVE  LET c    == call[s]
               node == mailbox[c.acc.box.uuid].plain
               box  == [uuid |-> fresh, key |-> fresh + 1]
           IN  \/ ~OpensMailbox(c.acc.box) /\ Goes(s, Absent)
               \/ /\ OpensMailbox(c.acc.box) /\ c.op # "CreateInvitation" /\ fresh' = fresh
                  /\ GoesOn(s, [c EXCEPT !.node = node, !.at = "inode"])
               \/ /\ OpensMailbox(c.acc.box) /\ c.op = "CreateInvitation" /\ fresh' = fresh + 2
                  /\ GoesOn(s, [c EXCEPT !.node = node, !.box = box, !.at = "recipient",
                                       !.todo = <<SetMailbox(box, node)>>])
<1>1. InCall(s) /\ call[s].at = "mailbox" /\ call[s].todo = <<>>
  BY DEF GetMailbox, At, InCall
<1>2. /\ Fits(call[s]) /\ sessions[s] \in User /\ fresh \in Nat
      /\ sessions \in [Sessions -> User \cup {Absent}]
  BY <1>1, CallType
<1>3. UNCHANGED <<datastore, keystore, sessions>>
  BY DEF GetMailbox, Reads
<1> DEFINE c    == call[s]
           node == mailbox[c.acc.box.uuid].plain
           box  == [uuid |-> fresh, key |-> fresh + 1]
<1>4. CASE ~OpensMailbox(c.acc.box)
  BY <1>3, <1>4, FailsGoes DEF GetMailbox
<1>5. CASE OpensMailbox(c.acc.box)
  <2>1. node \in MailboxNode
    BY <1>5, ReadTypes DEF CTypeOK
  <2>2. CASE c.op # "CreateInvitation"
    <3> DEFINE d == [c EXCEPT !.node = node, !.at = "inode"]
    <3>1. call' = [call EXCEPT ![s] = d] /\ fresh' = fresh
      BY <1>5, <2>2 DEF GetMailbox, Continue
    <3> HIDE DEF node
    <3>2. Fits(d)
      <4>1. d \in Calls
        BY <1>2, <2>1 DEF Fits, Calls
      <4>2. /\ d.at = "inode" /\ d.node = node /\ c.op \in Methods
            /\ d.op = c.op /\ d.arg = c.arg /\ d.acc = c.acc /\ d.todo = c.todo /\ d.got = c.got
        BY <1>2 DEF Fits, Calls
      <4> HIDE DEF d
      <4> QED
        BY <1>1, <1>2, <2>1, <2>2, <4>1, <4>2 DEF Fits, OpFits, Has, Methods
    <3>3. GoesOn(s, d)
      BY <1>2, <1>3, <3>1, <3>2 DEF Goes, GoesOn
    <3> QED
      BY <1>5, <2>2, <3>1, <3>3 DEF node
  <2>3. CASE c.op = "CreateInvitation"
    <3> DEFINE w == SetMailbox(box, node)
               d == [c EXCEPT !.node = node, !.box = box, !.at = "recipient", !.todo = <<w>>]
    <3>1. call' = [call EXCEPT ![s] = d] /\ fresh' = fresh + 2
      BY <1>5, <2>3 DEF GetMailbox, Continue
    <3>2. box \in Pointer
      BY <1>2 DEF Pointer
    <3>3. w \in Writes
      BY <2>1, <3>2, SetMailboxType
    <3> HIDE DEF node, box, w
    <3>4. <<w>> \in Seq(Writes)
      BY <3>3
    <3>5. Fits(d)
      BY <1>1, <1>2, <2>1, <2>3, <3>2, <3>4 DEF Fits, Calls, OpFits, Has
    <3>6. GoesOn(s, d)
      BY <1>2, <1>3, <3>1, <3>5 DEF Goes, GoesOn
    <3> QED
      BY <1>5, <2>3, <3>1, <3>6 DEF node, box, w
  <2> QED
    BY <2>2, <2>3
<1> QED
  BY <1>4, <1>5
LEMMA ReadsBytes ==
    ASSUME TypeOK, NEW ids \in Seq(Nat), Exist(ids, block)
    PROVE  ReadsOf(ids, block) \in Seq(Seq(Bytes)) /\ Len(ReadsOf(ids, block)) = Len(ids)
<1>1. Len(ids) \in Nat /\ DOMAIN ids = 1..Len(ids)
  OBVIOUS
<1>2. \A b \in DOMAIN block : block[b].plain \in Seq(Bytes)
  BY DEF TypeOK, IsStore, Sealed
<1>3. ReadsOf(ids, block) \in [1..Len(ids) -> Seq(Bytes)]
  BY <1>1, <1>2 DEF ReadsOf, Exist
<1> QED
  BY <1>1, <1>3, FunctionIsSeq, Zenon

LEMMA FileBytesReads ==
    ASSUME NEW i
    PROVE  FileBytes(i) = FlattenSeq(ReadsOf(inode[i].plain.blocks, block))
BY DEF FileBytes, ReadsOf

LEMMA GetInodeGoes ==
    ASSUME CTypeOK, NEW s \in Sessions, GetInode(s)
    PROVE  LET c    == call[s]
               file == inode[c.node.inode].plain
           IN  \/ ~OpensInode(c.node) /\ Goes(s, Absent)
               \/ /\ OpensInode(c.node) /\ c.op = "LoadFile" /\ fresh' = fresh
                  /\ GoesOn(s, [c EXCEPT !.at = "block", !.file = file, !.left = file.blocks,
                                       !.saw = IF Range(file.blocks) \subseteq DOMAIN block
                                               THEN FileBytes(c.node.inode) ELSE <<>>])
               \/ /\ OpensInode(c.node) /\ c.op = "AppendToFile"
                  /\ fresh' = fresh + Len(ByteToBlock(c.arg))
                  /\ GoesOn(s, [c EXCEPT !.at = "return", !.todo = AppendWrites(c, file)])
               \/ /\ OpensInode(c.node) /\ c.op = "RevokeAccess" /\ fresh' = fresh + 3
                  /\ GoesOn(s, [c EXCEPT !.at = "reseal", !.file = file, !.left = file.blocks,
                                       !.key = fresh,
                                       !.box = [uuid |-> fresh + 2, key |-> fresh + 1]])
<1>1. InCall(s) /\ call[s].at = "inode" /\ call[s].todo = <<>>
  BY DEF GetInode, At, InCall
<1>2. /\ Fits(call[s]) /\ sessions[s] \in User /\ fresh \in Nat
      /\ sessions \in [Sessions -> User \cup {Absent}]
  BY <1>1, CallType
<1>3. UNCHANGED <<datastore, keystore, sessions>>
  BY DEF GetInode, Reads
<1> DEFINE c    == call[s]
           file == inode[c.node.inode].plain
<1>4. CASE ~OpensInode(c.node)
  BY <1>3, <1>4, FailsGoes DEF GetInode
<1>5. CASE OpensInode(c.node)
  <2>1. file \in Inode /\ file.blocks \in Seq(Nat)
    BY <1>5, ReadTypes DEF CTypeOK, Inode
  <2>2. c.node \in MailboxNode /\ c.acc \in Access /\ c \in Calls
    BY <1>1, <1>2 DEF Fits, Has
  <2>3. CASE c.op = "LoadFile"
    <3> DEFINE saw == IF Range(file.blocks) \subseteq DOMAIN block
                      THEN FileBytes(c.node.inode) ELSE <<>>
               d   == [c EXCEPT !.at = "block", !.file = file, !.left = file.blocks,
                                !.saw = saw]
    <3>1. call' = [call EXCEPT ![s] = d] /\ fresh' = fresh
      BY <1>5, <2>3 DEF GetInode, Continue
    <3>2. saw \in Seq(Bytes)
      <4>1. CASE Range(file.blocks) \subseteq DOMAIN block
        <5>1. Exist(file.blocks, block)
          BY <4>1 DEF Range, Exist
        <5>2. ReadsOf(file.blocks, block) \in Seq(Seq(Bytes))
          BY <2>1, <5>1, ReadsBytes DEF CTypeOK
        <5>3. FileBytes(c.node.inode) = FlattenSeq(ReadsOf(file.blocks, block))
          BY FileBytesReads
        <5> QED
          BY <4>1, <5>2, <5>3, FlattenType
      <4>2. CASE ~(Range(file.blocks) \subseteq DOMAIN block)
        BY <4>2
      <4> QED
        BY <4>1, <4>2
    <3> HIDE DEF file, saw
    <3>3. d \in Calls
      BY <2>1, <2>2, <3>2 DEF Calls
    <3>4. /\ d.at = "block" /\ d.node = c.node
          /\ d.op = c.op /\ d.arg = c.arg /\ d.todo = c.todo
      BY <2>2 DEF Calls
    <3>5. Fits(d)
      <4> HIDE DEF d
      <4> QED
        BY <1>1, <1>2, <2>2, <2>3, <3>3, <3>4 DEF Fits, OpFits, Has
    <3>6. GoesOn(s, d)
      <4> HIDE DEF d
      <4> QED
        BY <1>2, <1>3, <3>1, <3>5 DEF Goes, GoesOn
    <3> QED
      BY <1>5, <2>3, <3>1, <3>6 DEF file, saw
  <2>4. CASE c.op = "AppendToFile"
    <3> DEFINE ws == AppendWrites(c, file)
               d  == [c EXCEPT !.at = "return", !.todo = ws]
    <3>1. call' = [call EXCEPT ![s] = d] /\ fresh' = fresh + Len(ByteToBlock(c.arg))
      BY <1>5, <2>4 DEF GetInode, Continue
    <3>2. c.arg \in Contents /\ c.arg \in Seq(Bytes)
      BY <1>2, <2>4, ContentsAssumption DEF Fits, OpFits
    <3>3. /\ BlockWrites(ByteToBlock(c.arg), c.node.fileKey, fresh) \in Seq(Writes)
          /\ Len(ByteToBlock(c.arg)) \in Nat
      BY <1>2, <2>2, <3>2, BlockWritesType DEF MailboxNode
    <3>4. <<SetInode(c.node, Appended(file, c.arg, fresh))>> \in Seq(Writes)
      <4>1. Appended(file, c.arg, fresh) \in Inode
        BY <1>2, <2>1, <3>2, AppendedType
      <4>2. SetInode(c.node, Appended(file, c.arg, fresh)) \in Writes
        BY <2>2, <4>1, SetInodeType
      <4> QED
        BY <4>2
    <3>5. ws \in Seq(Writes)
      BY <3>3, <3>4, ConcatProperties DEF AppendWrites
    <3> HIDE DEF file, ws
    <3>6. d \in Calls
      BY <2>2, <3>5 DEF Calls
    <3>7. d.at = "return" /\ d.node = c.node /\ d.op = c.op /\ d.arg = c.arg
      BY <2>2 DEF Calls
    <3>8. Fits(d)
      <4> HIDE DEF d
      <4> QED
        BY <1>1, <1>2, <2>2, <2>4, <3>6, <3>7 DEF Fits, OpFits, Has
    <3>9. GoesOn(s, d)
      <4> HIDE DEF d
      <4> QED
        BY <1>2, <1>3, <3>1, <3>3, <3>8 DEF Goes, GoesOn
    <3> QED
      BY <1>5, <2>4, <3>1, <3>9 DEF file, ws
  <2>5. CASE c.op = "RevokeAccess"
    <3> DEFINE box == [uuid |-> fresh + 2, key |-> fresh + 1]
               d   == [c EXCEPT !.at = "reseal", !.file = file, !.left = file.blocks,
                                !.key = fresh, !.box = box]
    <3>1. call' = [call EXCEPT ![s] = d] /\ fresh' = fresh + 3
      BY <1>5, <2>5 DEF GetInode, Continue
    <3>2. box \in Pointer
      BY <1>2 DEF Pointer
    <3> HIDE DEF file, box
    <3>3. d \in Calls
      BY <1>2, <2>1, <2>2, <3>2 DEF Calls
    <3>4. /\ d.at = "reseal" /\ d.node = c.node /\ d.acc = c.acc /\ d.file = file /\ d.box = box
          /\ d.op = c.op /\ d.arg = c.arg
      BY <2>2 DEF Calls
    <3>5. Fits(d)
      <4> HIDE DEF d
      <4> QED
        BY <1>1, <1>2, <2>1, <2>2, <2>5, <3>2, <3>3, <3>4 DEF Fits, OpFits, Has
    <3>6. GoesOn(s, d)
      <4> HIDE DEF d
      <4> QED
        BY <1>2, <1>3, <3>1, <3>5 DEF Goes, GoesOn
    <3> QED
      BY <1>5, <2>5, <3>1, <3>6 DEF file, box
  <2> QED
    BY <1>1, <1>2, <2>3, <2>4, <2>5 DEF Fits, OpFits
<1> QED
  BY <1>4, <1>5
LEMMA GetBlockGoes ==
    ASSUME CTypeOK, NEW s \in Sessions, GetBlock(s)
    PROVE  LET c == call[s]
               b == Head(c.left)
           IN  \/ Goes(s, Absent)
               \/ /\ c.left # <<>> /\ OpensBlock(b, c.node)
                  /\ GoesOn(s, [c EXCEPT !.left = Tail(@), !.got = @ \o block[b].plain])
<1>1. InCall(s) /\ call[s].at = "block" /\ call[s].todo = <<>>
  BY DEF GetBlock, At, InCall
<1>2. /\ Fits(call[s]) /\ sessions[s] \in User /\ fresh \in Nat
      /\ sessions \in [Sessions -> User \cup {Absent}]
  BY <1>1, CallType
<1>3. UNCHANGED <<datastore, keystore, sessions, fresh>>
  BY DEF GetBlock, Reads
<1> DEFINE c == call[s]
           b == Head(c.left)
           d == [c EXCEPT !.left = Tail(@), !.got = @ \o block[b].plain]
<1>4. CASE Fails(s) \/ Returns(s)
  BY <1>2, <1>3, <1>4 DEF Fails, Returns, Goes
<1>5. CASE c.left # <<>> /\ OpensBlock(b, c.node) /\ Continue(s, d)
  <2>1. c \in Calls /\ c.left \in Seq(Nat) /\ c.got \in Seq(Bytes)
    BY <1>2 DEF Fits, Calls
  <2>2. Tail(c.left) \in Seq(Nat)
    BY <1>5, <2>1
  <2>3. block[b].plain \in Seq(Bytes)
    BY <1>5 DEF OpensBlock, CTypeOK, TypeOK, IsStore, Sealed
  <2>4. c.got \o block[b].plain \in Seq(Bytes)
    BY <2>1, <2>3, ConcatProperties
  <2>5. d \in Calls
    BY <2>1, <2>2, <2>4 DEF Calls
  <2>6. /\ d.at = c.at /\ d.op = c.op /\ d.arg = c.arg /\ d.node = c.node /\ d.todo = c.todo
    BY <2>1 DEF Calls
  <2>7. Fits(d)
    <3> HIDE DEF d
    <3> QED
      BY <1>1, <1>2, <2>5, <2>6 DEF Fits, OpFits, Has
  <2>8. GoesOn(s, d)
    <3> HIDE DEF d
    <3> QED
      BY <1>2, <1>3, <1>5, <2>7 DEF Goes, GoesOn, Continue
  <2> QED
    BY <1>5, <2>8
<1> QED
  BY <1>4, <1>5 DEF GetBlock

LEMMA ResealGoes ==
    ASSUME CTypeOK, NEW s \in Sessions, Reseal(s)
    PROVE  LET c == call[s]
               b == Head(c.left)
           IN  \/ c.left # <<>> /\ ~OpensBlock(b, c.node) /\ Goes(s, Absent)
               \/ /\ c.left # <<>> /\ OpensBlock(b, c.node)
                  /\ GoesOn(s, [c EXCEPT !.left = Tail(@),
                        !.todo = <<Set("block", b,
                                       encryptAndMAC(block[b].plain, getFileKeys(c.key)))>>])
               \/ /\ c.left = <<>>
                  /\ GoesOn(s, [c EXCEPT !.at = "child",
                        !.kids = {u \in Users \ {c.arg} : c.acc.children[u] # Absent},
                        !.todo = RevokeWrites(c)])
<1>1. InCall(s) /\ call[s].at = "reseal" /\ call[s].todo = <<>>
  BY DEF Reseal, At, InCall
<1>2. /\ Fits(call[s]) /\ sessions[s] \in User /\ fresh \in Nat
      /\ sessions \in [Sessions -> User \cup {Absent}]
  BY <1>1, CallType
<1>3. UNCHANGED <<datastore, keystore, sessions, fresh>>
  BY DEF Reseal, Reads
<1> DEFINE c == call[s]
           b == Head(c.left)
           w == Set("block", b, encryptAndMAC(block[b].plain, getFileKeys(c.key)))
           d == [c EXCEPT !.left = Tail(@), !.todo = <<w>>]
           ks == {u \in Users \ {c.arg} : c.acc.children[u] # Absent}
           e == [c EXCEPT !.at = "child", !.kids = ks, !.todo = RevokeWrites(c)]
<1>4. CASE c.left # <<>> /\ ~OpensBlock(b, c.node) /\ Fails(s)
  BY <1>2, <1>3, <1>4 DEF Fails, Goes
<1>5. /\ c \in Calls /\ c.left \in Seq(Nat) /\ c.node \in MailboxNode /\ c.acc \in Access
      /\ c.box \in Pointer /\ c.file \in Inode /\ c.key \in Nat
  BY <1>1, <1>2 DEF Fits, Calls, Has
<1>6. CASE c.left # <<>> /\ OpensBlock(b, c.node) /\ Continue(s, d)
  <2>1. b \in Nat /\ Tail(c.left) \in Seq(Nat)
    BY <1>5, <1>6
  <2>2. block[b].plain \in Seq(Bytes)
    BY <1>6 DEF OpensBlock, CTypeOK, TypeOK, IsStore, Sealed
  <2>3. encryptAndMAC(block[b].plain, getFileKeys(c.key)) \in BlockRecords
    BY <1>5, <2>2 DEF encryptAndMAC, getFileKeys, BlockRecords, Sealed
  <2>4. w \in Writes
    BY <2>1, <2>3 DEF Set, Writes,
       AccountRecords, AccessRecords, MailboxRecords, InodeRecords, BlockRecords
  <2> HIDE DEF w
  <2>5. <<w>> \in Seq(Writes)
    BY <2>4
  <2>6. d \in Calls
    BY <1>5, <2>1, <2>5 DEF Calls
  <2>7. /\ d.at = c.at /\ d.op = c.op /\ d.arg = c.arg /\ d.node = c.node /\ d.acc = c.acc
        /\ d.file = c.file /\ d.box = c.box
    BY <1>5 DEF Calls
  <2>8. Fits(d)
    <3> HIDE DEF d
    <3> QED
      BY <1>1, <1>2, <2>6, <2>7 DEF Fits, OpFits, Has
  <2>9. GoesOn(s, d)
    <3> HIDE DEF d
    <3> QED
      BY <1>2, <1>3, <1>6, <2>8 DEF Goes, GoesOn, Continue
  <2> QED
    BY <1>6, <2>9 DEF w
<1>7. CASE c.left = <<>> /\ Continue(s, e)
  <2>1. RevokeWrites(c) \in Seq(Writes)
    <3> DEFINE node == [c.node EXCEPT !.fileKey = c.key]
    <3>1. node \in MailboxNode
      BY <1>5 DEF MailboxNode
    <3> HIDE DEF node
    <3>2. SetInode(node, c.file) \in Writes /\ SetMailbox(c.box, node) \in Writes
      BY <1>5, <3>1, SetInodeType, SetMailboxType
    <3>3. RevokeWrites(c) = <<SetInode(node, c.file), SetMailbox(c.box, node)>>
      BY DEF RevokeWrites, node
    <3> QED
      BY <3>2, <3>3
  <2>2. ks \in SUBSET Users
    OBVIOUS
  <2> HIDE DEF ks
  <2>3. e \in Calls
    BY <1>5, <2>1, <2>2 DEF Calls
  <2>4. /\ e.at = "child" /\ e.op = c.op /\ e.arg = c.arg /\ e.node = c.node /\ e.acc = c.acc
        /\ e.box = c.box /\ e.kids = ks
    BY <1>5 DEF Calls
  <2>5. Fits(e)
    <3>1. \A u \in ks : c.acc.children[u] # Absent
      BY DEF ks
    <3> HIDE DEF e
    <3> QED
      BY <1>1, <1>2, <1>5, <2>3, <2>4, <3>1 DEF Fits, OpFits, Has
  <2>6. GoesOn(s, e)
    <3> HIDE DEF e
    <3> QED
      BY <1>2, <1>3, <1>7, <2>5 DEF Goes, GoesOn, Continue
  <2> QED
    BY <1>7, <2>6 DEF ks
<1> QED
  BY <1>4, <1>6, <1>7 DEF Reseal

LEMMA GetInvitationGoes ==
    ASSUME CTypeOK, NEW s \in Sessions, GetInvitation(s)
    PROVE  LET c == call[s]
           IN  \/ Goes(s, Absent)
               \/ /\ c.arg[2] \in DOMAIN invitation
                  /\ GoesOn(s, [c EXCEPT !.inv = invitation[c.arg[2]], !.at = "sender"])
<1>1. InCall(s) /\ call[s].at = "invitation" /\ call[s].todo = <<>>
  BY DEF GetInvitation, At, InCall
<1>2. /\ Fits(call[s]) /\ sessions[s] \in User /\ fresh \in Nat
      /\ sessions \in [Sessions -> User \cup {Absent}]
  BY <1>1, CallType
<1>3. UNCHANGED <<datastore, keystore, sessions, fresh>>
  BY DEF GetInvitation, Reads
<1> DEFINE c == call[s]
           d == [c EXCEPT !.inv = invitation[c.arg[2]], !.at = "sender"]
<1>4. CASE Fails(s)
  BY <1>2, <1>3, <1>4 DEF Fails, Goes
<1>5. CASE c.arg[2] \in DOMAIN invitation /\ Continue(s, d)
  <2>1. invitation[c.arg[2]] \in Invitation /\ c \in Calls
    BY <1>2, <1>5 DEF CTypeOK, TypeOK, IsStore, Fits
  <2>2. d \in Calls
    BY <2>1 DEF Calls
  <2>3. /\ d.at = "sender" /\ d.op = c.op /\ d.arg = c.arg /\ d.todo = c.todo
        /\ d.inv = invitation[c.arg[2]]
    BY <2>1 DEF Calls
  <2>4. Fits(d)
    <3> HIDE DEF d
    <3> QED
      BY <1>1, <1>2, <2>1, <2>2, <2>3 DEF Fits, OpFits, Has
  <2>5. GoesOn(s, d)
    <3> HIDE DEF d
    <3> QED
      BY <1>2, <1>3, <1>5, <2>4 DEF Goes, GoesOn, Continue
  <2> QED
    BY <1>5, <2>5
<1> QED
  BY <1>4, <1>5 DEF GetInvitation
LEMMA WithChildType ==
    ASSUME NEW acc \in Access, NEW r \in Users, NEW box \in Pointer
    PROVE  /\ WithChild(acc, r, box) \in Access
           /\ WithChild(acc, r, box).box = acc.box
           /\ \A u \in Users : WithChild(acc, r, box).children[u]
                                   = IF u = r THEN box ELSE acc.children[u]
<1>1. WithChild(acc, r, box) = [box |-> acc.box, children |-> [acc.children EXCEPT ![r] = box]]
  BY DEF WithChild, Access
<1>2. acc.box \in Pointer /\ acc.children \in [Users -> Pointer \cup {Absent}]
  BY DEF Access, Children
<1> QED
  BY <1>1, <1>2 DEF Access, Children

LEMMA WithoutChildType ==
    ASSUME NEW acc \in Access, NEW r \in Users, NEW box \in Pointer
    PROVE  /\ WithoutChild(acc, r, box) \in Access
           /\ WithoutChild(acc, r, box).box = box
           /\ \A u \in Users : WithoutChild(acc, r, box).children[u]
                                   = IF u = r THEN Absent ELSE acc.children[u]
<1>1. acc.children \in [Users -> Pointer \cup {Absent}]
  BY DEF Access, Children
<1> QED
  BY <1>1 DEF WithoutChild, Access, Children

LEMMA NoChildrenType ==
    ASSUME NEW p \in Pointer
    PROVE  [box |-> p, children |-> NoChildren] \in Access
BY DEF NoChildren, Access, Children

(* The mailbox RevokeAccess gives the new key to, if it opens. *)
KidTodo(c, u) ==
    IF OpensMailbox(c.acc.children[u])
    THEN <<SetMailbox(c.acc.children[u],
                      [mailbox[c.acc.children[u].uuid].plain EXCEPT !.fileKey = c.key])>>
    ELSE <<>>

LastTodo(s, c) == <<SetAccess(sessions[s], c.f, WithoutChild(c.acc, c.arg, c.box)),
                    SetUser(sessions[s], c.f)>>

LEMMA GetChildGoes ==
    ASSUME CTypeOK, NEW s \in Sessions, GetChild(s)
    PROVE  LET c == call[s]
           IN  \/ \E u \in c.kids : GoesOn(s, [c EXCEPT !.kids = @ \ {u}, !.todo = KidTodo(c, u)])
               \/ GoesOn(s, [c EXCEPT !.at = "return", !.todo = LastTodo(s, c)])
<1>1. InCall(s) /\ call[s].at = "child" /\ call[s].todo = <<>>
  BY Zenon DEF GetChild, At, InCall
<1>2. /\ Fits(call[s]) /\ sessions[s] \in User /\ fresh \in Nat
      /\ sessions \in [Sessions -> User \cup {Absent}]
  BY <1>1, CallType
<1>3. UNCHANGED <<datastore, keystore, sessions, fresh>>
  BY Zenon DEF GetChild, Reads
<1> DEFINE c == call[s]
<1>4. /\ c \in Calls /\ c.kids \in SUBSET Users /\ c.node \in MailboxNode /\ c.acc \in Access
      /\ c.box \in Pointer /\ c.key \in Nat /\ c.arg \in Users /\ c.f \in Filenames
      /\ \A u \in c.kids : c.acc.children[u] # Absent
  BY <1>1, <1>2 DEF Fits, Calls, Has, OpFits
<1>5. ASSUME NEW u \in c.kids, Continue(s, [c EXCEPT !.kids = @ \ {u}, !.todo = KidTodo(c, u)])
      PROVE  GoesOn(s, [c EXCEPT !.kids = @ \ {u}, !.todo = KidTodo(c, u)])
  <2> DEFINE d == [c EXCEPT !.kids = @ \ {u}, !.todo = KidTodo(c, u)]
             p == c.acc.children[u]
  <2>1. p \in Pointer
    BY <1>4, <1>5 DEF Access, Children
  <2>2. KidTodo(c, u) \in Seq(Writes)
    <3>1. CASE OpensMailbox(p)
      <4> DEFINE old == mailbox[p.uuid].plain
                 node == [old EXCEPT !.fileKey = c.key]
      <4>1. old \in MailboxNode
        BY <3>1, ReadTypes DEF CTypeOK
      <4> HIDE DEF old
      <4>2. node \in MailboxNode
        BY <1>4, <4>1 DEF MailboxNode
      <4>3. KidTodo(c, u) = <<SetMailbox(p, node)>>
        BY <3>1, Zenon DEF KidTodo, old
      <4> HIDE DEF node, p
      <4>4. SetMailbox(p, node) \in Writes
        BY <2>1, <4>2, SetMailboxType
      <4> QED
        BY <4>3, <4>4
    <3>2. CASE ~OpensMailbox(p)
      BY <3>2 DEF KidTodo
    <3> QED
      BY <3>1, <3>2
  <2>3. d \in Calls
    BY <1>4, <2>2 DEF Calls
  <2>4. /\ d.at = c.at /\ d.op = c.op /\ d.arg = c.arg /\ d.node = c.node /\ d.acc = c.acc
        /\ d.box = c.box /\ d.kids = c.kids \ {u}
    BY <1>4 DEF Calls
  <2>5. Fits(d)
    <3> HIDE DEF d
    <3> QED
      BY <1>1, <1>2, <1>4, <2>3, <2>4 DEF Fits, OpFits, Has
  <2> QED
    <3> HIDE DEF d
    <3>1. call' = [call EXCEPT ![s] = d]
      BY <1>5 DEF Continue, d
    <3>2. GoesOn(s, d)
      BY <1>2, <1>3, <2>5, <3>1 DEF Goes, GoesOn
    <3> QED
      BY <3>2 DEF d
<1>6. ASSUME Continue(s, [c EXCEPT !.at = "return", !.todo = LastTodo(s, c)])
      PROVE  GoesOn(s, [c EXCEPT !.at = "return", !.todo = LastTodo(s, c)])
  <2> DEFINE d == [c EXCEPT !.at = "return", !.todo = LastTodo(s, c)]
  <2>1. LastTodo(s, c) \in Seq(Writes)
    <3>1. WithoutChild(c.acc, c.arg, c.box) \in Access
      BY <1>4, WithoutChildType
    <3>2. /\ SetAccess(sessions[s], c.f, WithoutChild(c.acc, c.arg, c.box)) \in Writes
          /\ SetUser(sessions[s], c.f) \in Writes
      BY <1>2, <1>4, <3>1, SetAccessType, SetUserType
    <3> QED
      BY <3>2 DEF LastTodo
  <2>2. d \in Calls
    BY <1>4, <2>1 DEF Calls
  <2>3. d.at = "return" /\ d.op = c.op /\ d.arg = c.arg /\ d.node = c.node
    BY <1>4 DEF Calls
  <2>4. Fits(d)
    <3> HIDE DEF d
    <3> QED
      BY <1>1, <1>2, <1>4, <2>2, <2>3 DEF Fits, OpFits, Has
  <2> QED
    <3> HIDE DEF d
    <3>1. call' = [call EXCEPT ![s] = d]
      BY <1>6 DEF Continue, d
    <3>2. GoesOn(s, d)
      BY <1>2, <1>3, <2>4, <3>1 DEF Goes, GoesOn
    <3> QED
      BY <3>2 DEF d
<1>7. \/ \E u \in c.kids : Continue(s, [c EXCEPT !.kids = @ \ {u}, !.todo = KidTodo(c, u)])
      \/ Continue(s, [c EXCEPT !.at = "return", !.todo = LastTodo(s, c)])
  BY Zenon DEF GetChild, KidTodo, LastTodo
<1> QED
  BY <1>5, <1>6, <1>7, Zenon

LEMMA GetRecipientKeyGoes ==
    ASSUME CTypeOK, NEW s \in Sessions, GetRecipientKey(s)
    PROVE  LET c == call[s]
           IN  \/ keystore[c.arg] = Absent /\ Goes(s, Absent)
               \/ /\ keystore[c.arg] # Absent /\ fresh' = fresh + 1
                  /\ GoesOn(s, [c EXCEPT !.at = "return", !.todo = InviteWrites(sessions[s], c)])
<1>1. InCall(s) /\ call[s].at = "recipient" /\ call[s].todo = <<>>
  BY DEF GetRecipientKey, At, InCall
<1>2. /\ Fits(call[s]) /\ sessions[s] \in User /\ fresh \in Nat
      /\ sessions \in [Sessions -> User \cup {Absent}]
  BY <1>1, CallType
<1>3. UNCHANGED <<datastore, keystore, sessions>>
  BY DEF GetRecipientKey, Reads
<1> DEFINE c == call[s]
           me == sessions[s]
           d == [c EXCEPT !.at = "return", !.todo = InviteWrites(me, c)]
<1>4. CASE keystore[c.arg] = Absent /\ Fails(s) /\ UNCHANGED fresh
  BY <1>2, <1>3, <1>4 DEF Fails, Goes
<1>5. CASE keystore[c.arg] # Absent /\ Continue(s, d) /\ fresh' = fresh + 1
  <2>1. /\ c \in Calls /\ c.arg \in Users /\ c.acc \in Access /\ c.box \in Pointer
        /\ c.f \in Filenames /\ c.node \in MailboxNode
    BY <1>1, <1>2 DEF Fits, Calls, Has, OpFits
  <2>2. InviteWrites(me, c) \in Seq(Writes)
    <3> DEFINE inv == [enc |-> keystore[c.arg].enc, sig |-> me.ds, box |-> c.box]
    <3>1. keystore[c.arg].enc \in Nat /\ me.ds \in Nat
      BY <1>2, <1>5, <2>1 DEF CTypeOK, TypeOK, PublicKeys, User
    <3>2. inv \in Invitation
      BY <2>1, <3>1 DEF Invitation
    <3>3. Set("invitation", fresh, inv) \in Writes
      <4> HIDE DEF inv
      <4> QED
        BY <1>2, <3>2 DEF Set, Writes,
           AccountRecords, AccessRecords, MailboxRecords, InodeRecords, BlockRecords
    <3>4. SetAccess(me, c.f, WithChild(c.acc, c.arg, c.box)) \in Writes
      BY <1>2, <2>1, WithChildType, SetAccessType
    <3>5. InviteWrites(me, c) = <<Set("invitation", fresh, inv),
                                  SetAccess(me, c.f, WithChild(c.acc, c.arg, c.box))>>
      BY DEF InviteWrites
    <3> HIDE DEF inv
    <3> QED
      BY <3>3, <3>4, <3>5
  <2>3. d \in Calls
    BY <2>1, <2>2 DEF Calls
  <2>4. d.at = "return" /\ d.op = c.op /\ d.arg = c.arg /\ d.node = c.node
    BY <2>1 DEF Calls
  <2>5. Fits(d)
    <3> HIDE DEF d
    <3> QED
      BY <1>1, <1>2, <2>1, <2>3, <2>4 DEF Fits, OpFits, Has
  <2>6. GoesOn(s, d)
    <3> HIDE DEF d
    <3> QED
      BY <1>2, <1>3, <1>5, <2>5 DEF Goes, GoesOn, Continue
  <2> QED
    BY <1>5, <2>6
<1> QED
  BY <1>4, <1>5 DEF GetRecipientKey

LEMMA GetSenderKeyGoes ==
    ASSUME CTypeOK, NEW s \in Sessions, GetSenderKey(s)
    PROVE  LET c == call[s]
           IN  \/ Goes(s, Absent)
               \/ /\ c.inv.enc = sessions[s].pke
                  /\ GoesOn(s, [c EXCEPT !.at = "return",
                         !.todo = <<SetAccess(sessions[s], c.f, [box |-> c.inv.box,
                                                                 children |-> NoChildren]),
                                    SetUser(sessions[s], c.f)>>])
<1>1. InCall(s) /\ call[s].at = "sender" /\ call[s].todo = <<>>
  BY DEF GetSenderKey, At, InCall
<1>2. /\ Fits(call[s]) /\ sessions[s] \in User /\ fresh \in Nat
      /\ sessions \in [Sessions -> User \cup {Absent}]
  BY <1>1, CallType
<1>3. UNCHANGED <<datastore, keystore, sessions, fresh>>
  BY DEF GetSenderKey, Reads
<1> DEFINE c == call[s]
           acc == [box |-> c.inv.box, children |-> NoChildren]
           ws == <<SetAccess(sessions[s], c.f, acc), SetUser(sessions[s], c.f)>>
           d == [c EXCEPT !.at = "return", !.todo = ws]
<1>4. CASE Fails(s)
  BY <1>2, <1>3, <1>4 DEF Fails, Goes
<1>5. CASE c.inv.enc = sessions[s].pke /\ Continue(s, d)
  <2>1. /\ c \in Calls /\ c.inv \in Invitation /\ c.f \in Filenames
    BY <1>1, <1>2 DEF Fits, Calls, Has
  <2>2. acc \in Access
    BY <2>1, NoChildrenType DEF Invitation
  <2> HIDE DEF acc
  <2>3. SetAccess(sessions[s], c.f, acc) \in Writes /\ SetUser(sessions[s], c.f) \in Writes
    BY <1>2, <2>1, <2>2, SetAccessType, SetUserType
  <2>4. ws \in Seq(Writes)
    BY <2>3
  <2> HIDE DEF ws
  <2>5. d \in Calls
    BY <2>1, <2>4 DEF Calls
  <2>6. d.at = "return" /\ d.op = c.op /\ d.arg = c.arg
    BY <2>1 DEF Calls
  <2>7. Fits(d)
    <3> HIDE DEF d
    <3> QED
      BY <1>1, <1>2, <2>5, <2>6 DEF Fits, OpFits, Has
  <2>8. GoesOn(s, d)
    <3> HIDE DEF d
    <3> QED
      BY <1>2, <1>3, <1>5, <2>7 DEF Goes, GoesOn, Continue
  <2> QED
    BY <1>5, <2>8 DEF ws, acc
<1> QED
  BY <1>4, <1>5 DEF GetSenderKey
LEMMA BeginOnFileGoes ==
    ASSUME CTypeOK, NEW s \in Sessions, NEW f \in Filenames, NEW op, NEW arg,
           \/ op = "LoadFile" /\ arg = Absent
           \/ op = "AppendToFile" /\ arg \in Contents
           \/ op \in {"CreateInvitation", "RevokeAccess"} /\ arg \in Users,
           BeginOnFile(s, op, f, arg)
    PROVE  Goes(s, NewCall(op, f, arg)) /\ sessions[s] # Absent
<1> DEFINE d == NewCall(op, f, arg)
<1>1. /\ d.op = op /\ d.f = f /\ d.arg = arg /\ d.at = "access" /\ d.todo = <<>> /\ d.got = <<>>
  BY DEF NewCall
<1>2. op \in Methods /\ arg \in Args
  BY DEF Methods, Args
<1>3. d \in Calls
  BY <1>2 DEF NewCall, Calls
<1>4. d.op \in Ops /\ call' = [call EXCEPT ![s] = d] /\ sessions[s] # Absent
  BY DEF BeginOnFile, Begin
<1>5. UNCHANGED <<datastore, keystore, sessions, fresh>>
  BY DEF BeginOnFile, Begin
<1> HIDE DEF d
<1>6. OpFits(d) /\ Has(d)
  BY <1>1, <1>4 DEF OpFits, Has
<1>7. Goes(s, d)
  BY <1>3, <1>4, <1>5, <1>6 DEF Goes, Fits, CTypeOK, TypeOK
<1> QED
  BY <1>4, <1>7 DEF d

LEMMA BeginAcceptGoes ==
    ASSUME CTypeOK, NEW s \in Sessions, NEW f \in Filenames, NEW u \in Users, NEW ptr \in Nat,
           BeginAcceptInvitation(s, u, ptr, f)
    PROVE  /\ Goes(s, [NewCall("AcceptInvitation", f, <<u, ptr>>) EXCEPT !.at = "invitation"])
           /\ sessions[s] # Absent
<1> DEFINE d == [NewCall("AcceptInvitation", f, <<u, ptr>>) EXCEPT !.at = "invitation"]
<1>1. /\ d.op = "AcceptInvitation" /\ d.f = f /\ d.arg = <<u, ptr>> /\ d.at = "invitation"
      /\ d.todo = <<>> /\ d.got = <<>>
  BY DEF NewCall
<1>2. <<u, ptr>> \in Args
  BY DEF Args
<1>3. d \in Calls
  <2> DEFINE pair == <<u, ptr>>
  <2>1. pair \in Args /\ "AcceptInvitation" \in Methods
    BY <1>2 DEF Methods
  <2> HIDE DEF pair
  <2>2. NewCall("AcceptInvitation", f, pair) \in Calls
    BY <2>1 DEF NewCall, Calls
  <2>3. [NewCall("AcceptInvitation", f, pair) EXCEPT !.at = "invitation"] \in Calls
    BY <2>2 DEF Calls
  <2> QED
    BY <2>3 DEF pair
<1>4. d.op \in Ops /\ call' = [call EXCEPT ![s] = d] /\ sessions[s] # Absent
  BY DEF BeginAcceptInvitation, Begin
<1>5. UNCHANGED <<datastore, keystore, sessions, fresh>>
  BY DEF BeginAcceptInvitation, Begin
<1> HIDE DEF d
<1>6. OpFits(d) /\ Has(d)
  BY <1>1, <1>4 DEF OpFits, Has
<1>7. Goes(s, d)
  BY <1>3, <1>4, <1>5, <1>6 DEF Goes, Fits, CTypeOK, TypeOK
<1> QED
  BY <1>4, <1>7 DEF d

StoredNode == [fileKey |-> fresh, inode |-> fresh + 1]
StoredBox  == [uuid |-> fresh + 2, key |-> fresh + 3]
StoreCall(s, f, content) ==
    [NewCall("StoreFile", f, content) EXCEPT
        !.at = "return", !.node = StoredNode,
        !.todo = StoreFileWrites(sessions[s], f, content, StoredNode, StoredBox, fresh + 4)]

LEMMA StoreFileWritesAre ==
    ASSUME NEW me \in User, NEW f \in Filenames, NEW content \in Contents,
           NEW node \in MailboxNode, NEW box \in Pointer, NEW first \in Nat
    PROVE  LET ws  == StoreFileWrites(me, f, content, node, box, first)
               bs  == BlockWrites(ByteToBlock(content), node.fileKey, first)
               n   == Len(ByteToBlock(content))
               acc == [box |-> box, children |-> NoChildren]
               file == [size |-> Len(content), blocks |-> BlockUUIDs(ByteToBlock(content), first)]
           IN  /\ n \in Nat /\ acc \in Access /\ file \in Inode
               /\ ws \in Seq(Writes) /\ Len(ws) = n + 4
               /\ ws[1] = SetMailbox(box, node) /\ ws[2] = SetAccess(me, f, acc)
               /\ \A k \in 1..n : ws[k + 2] = bs[k]
               /\ ws[n + 3] = SetInode(node, file) /\ ws[n + 4] = SetUser(me, f)
<1> DEFINE bs  == BlockWrites(ByteToBlock(content), node.fileKey, first)
           n   == Len(ByteToBlock(content))
           acc == [box |-> box, children |-> NoChildren]
           file == [size |-> Len(content), blocks |-> BlockUUIDs(ByteToBlock(content), first)]
           w1  == SetMailbox(box, node)
           w2  == SetAccess(me, f, acc)
           w3  == SetInode(node, file)
           w4  == SetUser(me, f)
<1>1. content \in Seq(Bytes) /\ node.fileKey \in Nat
  BY ContentsAssumption DEF MailboxNode
<1>2. bs \in Seq(Writes) /\ Len(bs) = n /\ n \in Nat
  BY <1>1, BlockWritesType
<1>3. acc \in Access
  BY NoChildrenType
<1>4. file \in Inode
  BY <1>1, NewBlocksType, LenProperties DEF Inode
<1>5. StoreFileWrites(me, f, content, node, box, first) = (<<w1, w2>> \o bs) \o <<w3, w4>>
  BY DEF StoreFileWrites
<1> HIDE DEF acc, file
<1>6. w1 \in Writes /\ w2 \in Writes /\ w3 \in Writes /\ w4 \in Writes
  BY <1>3, <1>4, SetMailboxType, SetAccessType, SetInodeType, SetUserType
<1> HIDE DEF bs, n, w1, w2, w3, w4
<1>7. /\ <<w1, w2>> \in Seq(Writes) /\ Len(<<w1, w2>>) = 2
      /\ <<w3, w4>> \in Seq(Writes) /\ Len(<<w3, w4>>) = 2
  BY <1>6
<1> DEFINE p == <<w1, w2>> \o bs
<1>8. /\ p \in Seq(Writes) /\ Len(p) = n + 2 /\ p[1] = w1 /\ p[2] = w2
      /\ \A k \in 1..n : p[k + 2] = bs[k]
  BY <1>2, <1>7, ConcatProperties
<1> HIDE DEF p
<1> DEFINE ws == p \o <<w3, w4>>
<1>9. /\ ws \in Seq(Writes) /\ Len(ws) = n + 4
      /\ \A k \in 1..(n + 2) : ws[k] = p[k]
      /\ ws[n + 3] = w3 /\ ws[n + 4] = w4
  BY <1>2, <1>7, <1>8, ConcatProperties
<1> HIDE DEF ws
<1>10. ws[1] = w1 /\ ws[2] = w2 /\ \A k \in 1..n : ws[k + 2] = bs[k]
  <2>1. 1 \in 1..(n + 2) /\ 2 \in 1..(n + 2) /\ \A k \in 1..n : k + 2 \in 1..(n + 2)
    BY <1>2
  <2> QED
    BY <2>1, <1>8, <1>9
<1>11. ws = StoreFileWrites(me, f, content, node, box, first)
  BY <1>5 DEF ws, p
<1> QED
  BY <1>2, <1>3, <1>4, <1>9, <1>10, <1>11 DEF bs, n, acc, file, w1, w2, w3, w4

LEMMA BeginStoreGoes ==
    ASSUME CTypeOK, NEW s \in Sessions, NEW f \in Filenames, NEW content \in Contents,
           BeginStoreFile(s, f, content)
    PROVE  /\ Goes(s, StoreCall(s, f, content)) /\ sessions[s] # Absent
           /\ fresh' = fresh + 4 + Len(ByteToBlock(content))
<1> DEFINE ws == StoreFileWrites(sessions[s], f, content, StoredNode, StoredBox, fresh + 4)
           d  == [NewCall("StoreFile", f, content) EXCEPT !.at = "return", !.node = StoredNode,
                                                          !.todo = ws]
<1>1. sessions[s] # Absent /\ sessions[s] \in User /\ fresh \in Nat
  BY DEF BeginStoreFile, CTypeOK, TypeOK
<1>2. StoredNode \in MailboxNode /\ StoredBox \in Pointer /\ fresh + 4 \in Nat
  BY <1>1 DEF StoredNode, StoredBox, MailboxNode, Pointer
<1>3. ws \in Seq(Writes) /\ Len(ByteToBlock(content)) \in Nat
  BY <1>1, <1>2, StoreFileWritesAre
<1>4. /\ d.op \in Ops /\ call' = [call EXCEPT ![s] = d]
      /\ fresh' = fresh + 4 + Len(ByteToBlock(content))
      /\ UNCHANGED <<datastore, keystore, sessions>>
  BY DEF BeginStoreFile, Begin, StoredNode, StoredBox
<1> HIDE DEF ws
<1>5. d \in Calls
  <2>1. content \in Args /\ "StoreFile" \in Methods
    BY DEF Args, Methods
  <2>2. NewCall("StoreFile", f, content) \in Calls
    BY <2>1 DEF NewCall, Calls
  <2> QED
    BY <1>2, <1>3, <2>2 DEF Calls
<1>6. d.op = "StoreFile" /\ d.arg = content /\ d.at = "return" /\ d.node = StoredNode
  BY DEF NewCall
<1>7. d = StoreCall(s, f, content)
  BY DEF StoreCall, ws
<1> HIDE DEF d
<1>8. OpFits(d) /\ Has(d)
  BY <1>2, <1>4, <1>6 DEF OpFits, Has
<1>9. Goes(s, d)
  BY <1>1, <1>3, <1>4, <1>5, <1>8 DEF Goes, Fits, CTypeOK, TypeOK
<1> QED
  BY <1>1, <1>4, <1>7, <1>9

LEMMA LostGoes ==
    ASSUME CTypeOK, NEW s \in Sessions, Lost(s)
    PROVE  Goes(s, Absent) /\ InCall(s)
BY DEF CTypeOK, TypeOK, Lost, Goes, InCall

LEMMA QueueType ==
    ASSUME CTypeOK, NEW s \in Sessions, InCall(s), call[s].todo # <<>>
    PROVE  LET c == call[s]
               w == Head(c.todo)
               d == [c EXCEPT !.todo = Tail(@)]
           IN  /\ c.todo \in Seq(Writes) /\ w \in Writes /\ w = c.todo[1] /\ Fits(d)
               /\ sessions[s] \in User /\ sessions \in [Sessions -> User \cup {Absent}]
<1> DEFINE c == call[s]
           w == Head(c.todo)
           d == [c EXCEPT !.todo = Tail(@)]
<1>1. /\ Fits(c) /\ sessions[s] \in User
      /\ sessions \in [Sessions -> User \cup {Absent}]
  BY CallType
<1>2. c \in Calls /\ c.todo \in Seq(Writes)
  BY <1>1 DEF Fits, Calls
<1>3. w \in Writes /\ w = c.todo[1] /\ Tail(c.todo) \in Seq(Writes)
  BY <1>2
<1>4. d \in Calls
  BY <1>2, <1>3 DEF Calls
<1>5. /\ d.op = c.op /\ d.at = c.at /\ d.arg = c.arg /\ d.acc = c.acc /\ d.node = c.node
      /\ d.file = c.file /\ d.box = c.box /\ d.inv = c.inv /\ d.got = c.got /\ d.kids = c.kids
      /\ d.todo = Tail(c.todo)
  BY <1>2 DEF Calls
<1>6. Fits(d)
  <2> HIDE DEF d
  <2>1. OpFits(d)
    BY <1>1, <1>5 DEF Fits, OpFits
  <2>2. Has(d)
    BY <1>1, <1>5 DEF Fits, Has
  <2> QED
    BY <1>4, <2>1, <2>2 DEF Fits
<1> HIDE DEF d
<1> QED
  BY <1>1, <1>2, <1>3, <1>6 DEF d

LEMMA DoneSessions ==
    ASSUME CTypeOK, NEW s \in Sessions, InCall(s), call[s].todo # <<>>, SetDone(s)
    PROVE  /\ \A t \in Sessions : t # s => sessions'[t] = sessions[t]
           /\ sessions'[s] \in User /\ sessions' \in [Sessions -> User \cup {Absent}]
<1> DEFINE w == Head(call[s].todo)
<1>1. w \in Writes /\ sessions[s] \in User /\ sessions \in [Sessions -> User \cup {Absent}]
  BY QueueType
<1>2. CASE w.kind = "account"
  <2>1. w.record.plain \in User
    BY <1>1, <1>2 DEF Writes, AccountRecords, Sealed,
       AccessRecords, MailboxRecords, InodeRecords, BlockRecords
  <2>2. sessions' = [sessions EXCEPT ![s] = w.record.plain]
    BY <1>2 DEF SetDone
  <2> QED
    BY <1>1, <2>1, <2>2
<1>3. CASE w.kind # "account"
  BY <1>1, <1>3 DEF SetDone
<1> QED
  BY <1>2, <1>3

(* The next queued write is made. *)
LEMMA SetNextGoes ==
    ASSUME CTypeOK, NEW s \in Sessions, SetNext(s)
    PROVE  LET c == call[s]
               w == Head(c.todo)
               d == [c EXCEPT !.todo = Tail(@)]
           IN  /\ InCall(s) /\ c.todo # <<>> /\ c.todo \in Seq(Writes) /\ w \in Writes
               /\ w = c.todo[1] /\ Write(w)
               /\ \/ Len(c.todo) = 1 /\ c.at = "return" /\ call' = [call EXCEPT ![s] = Absent]
                  \/ call' = [call EXCEPT ![s] = d] /\ Fits(d)
               /\ \A t \in Sessions : t # s => sessions'[t] = sessions[t]
               /\ sessions'[s] \in User
               /\ UNCHANGED <<keystore, fresh>>
               /\ CTypeOK'
<1> DEFINE c == call[s]
           w == Head(c.todo)
           d == [c EXCEPT !.todo = Tail(@)]
<1>1. /\ InCall(s) /\ c.todo # <<>> /\ Write(w) /\ SetDone(s)
      /\ UNCHANGED <<keystore, fresh>>
  BY DEF SetNext, SetDone, InCall
<1>2. c.todo \in Seq(Writes) /\ w \in Writes /\ w = c.todo[1] /\ Fits(d)
  BY <1>1, QueueType
<1>3. /\ \A t \in Sessions : t # s => sessions'[t] = sessions[t]
      /\ sessions'[s] \in User /\ sessions' \in [Sessions -> User \cup {Absent}]
  BY <1>1, DoneSessions
<1>4. TypeOK'
  BY <1>1, <1>2, <1>3, WriteType DEF CTypeOK
<1>5. \/ Len(c.todo) = 1 /\ c.at = "return" /\ call' = [call EXCEPT ![s] = Absent]
      \/ call' = [call EXCEPT ![s] = d] /\ Fits(d)
  BY <1>1, <1>2 DEF SetDone, Returns, Continue
<1> HIDE DEF d
<1>6. sessions'[s] # Absent
  BY <1>3, AbsentAssumption
<1>7. CallsFit'
  <2>1. CASE call' = [call EXCEPT ![s] = Absent]
    BY <1>3, <1>6, <2>1, Moved DEF CTypeOK
  <2>2. CASE call' = [call EXCEPT ![s] = d]
    BY <1>2, <1>3, <1>6, <2>2, Moved DEF CTypeOK
  <2> QED
    BY <1>5, <2>1, <2>2
<1>8. CTypeOK'
  BY <1>4, <1>7 DEF CTypeOK
<1> QED
  BY <1>1, <1>2, <1>3, <1>5, <1>8 DEF d

(* A session begins or ends outside of a call. *)
Comes(s) == Login(s) \/ Leaves(s)

LEMMA ComesType ==
    ASSUME CTypeOK, NEW s \in Sessions, Comes(s)
    PROVE  /\ CTypeOK' /\ UNCHANGED <<datastore, keystore, fresh, progress>>
           /\ ~InCall(s)
           /\ \A t \in Sessions : t # s => sessions'[t] = sessions[t]
<1>1. UNCHANGED <<datastore, keystore, fresh, progress>>
  BY DEF Comes, Login, Leaves, GetUser, datastore
<1>2. TypeOK' /\ \A t \in Sessions : t # s => sessions'[t] = sessions[t]
  <2>1. CASE Login(s)
    <3>1. PICK who \in Logins : GetUser(s, who[s], Password)
      BY <2>1 DEF Login
    <3>2. who[s] \in Users /\ Password \in Passwords
      BY CircleAssumption DEF Range
    <3>3. TypeOK'
      BY <3>1, <3>2, GetUserType DEF CTypeOK
    <3> QED
      BY <3>1, <3>3 DEF GetUser, CTypeOK, TypeOK
  <2>2. CASE Leaves(s)
    BY <1>1, <2>2 DEF Leaves, CTypeOK, TypeOK, datastore
  <2> QED
    BY <2>1, <2>2 DEF Comes
<1>3. ~InCall(s)
  BY DEF Comes, Login, Leaves, CTypeOK, CallsFit, InCall
<1>4. CallsFit'
  BY <1>1, <1>2, <1>3 DEF CTypeOK, CallsFit, InCall, progress, OpFits, Has
<1> QED
  BY <1>1, <1>2, <1>3, <1>4 DEF CTypeOK
-----------------------------------------------------------------------------
(* Blocks *)

LEMMA QueuedGoes ==
    ASSUME CallsFit, NEW s \in Sessions, NEW c, call' = [call EXCEPT ![s] = c]
    PROVE  \A w \in Queued' : \/ w \in Queued
                              \/ c # Absent /\ \E n \in DOMAIN c.todo : w = c.todo[n]
<1> SUFFICES ASSUME NEW w \in Queued'
             PROVE  w \in Queued \/ (c # Absent /\ \E n \in DOMAIN c.todo : w = c.todo[n])
  OBVIOUS
<1>1. PICK t \in Sessions : call'[t] # Absent /\ \E n \in DOMAIN call'[t].todo : w = call'[t].todo[n]
  BY DEF Queued, InCall, Range
<1>2. CASE t = s
  BY <1>1, <1>2 DEF CallsFit
<1>3. CASE t # s
  <2>1. call'[t] = call[t]
    BY <1>3 DEF CallsFit
  <2> QED
    BY <1>1, <2>1 DEF Queued, InCall, Range
<1> QED
  BY <1>2, <1>3

LEMMA InQueue ==
    ASSUME NEW s \in Sessions, InCall(s), NEW n \in DOMAIN call[s].todo
    PROVE  call[s].todo[n] \in Queued
BY DEF Queued, Range

LEMMA QueuedWrites ==
    ASSUME CallsFit, NEW w \in Queued
    PROVE  w \in Writes
<1>1. PICK s \in Sessions : InCall(s) /\ \E n \in DOMAIN call[s].todo : w = call[s].todo[n]
  BY DEF Queued, Range
<1>2. call[s].todo \in Seq(Writes)
  BY <1>1, CallFits DEF Fits, Calls
<1> QED
  BY <1>1, <1>2

(* What a method may queue: blocks of its own, and blocks that are stored  *)
(* with the content they have.                                             *)
NewWritesSettled(c) ==
    /\ \A n \in DOMAIN c.todo : c.todo[n].kind = "block" =>
           /\ c.todo[n].id < fresh'
           /\ IF c.todo[n].id \in DOMAIN block
              THEN c.todo[n].record.plain = block[c.todo[n].id].plain
              ELSE c.todo[n].id >= fresh
    /\ \A n, m \in DOMAIN c.todo :
           c.todo[n].kind = "block" /\ c.todo[m].kind = "block" /\ c.todo[n].id = c.todo[m].id
               => c.todo[n].record.plain = c.todo[m].record.plain

LEMMA BlocksGo ==
    ASSUME CTypeOK, BInv, NEW s \in Sessions, NEW c, Goes(s, c),
           c # Absent => CallBacked(c, block) /\ Loading(c, block) /\ NewWritesSettled(c)
    PROVE  BInv'
<1>0. /\ call' = [call EXCEPT ![s] = c] /\ block' = block /\ inode' = inode
      /\ fresh \in Nat /\ fresh' \in Nat /\ fresh <= fresh'
  BY DEF Goes, datastore, CTypeOK, TypeOK
<1>1. DOMAIN block \subseteq Nat
  BY DEF CTypeOK, TypeOK, IsStore
<1>2. \A w \in Queued' : \/ w \in Queued
                         \/ c # Absent /\ \E n \in DOMAIN c.todo : w = c.todo[n]
  BY <1>0, QueuedGoes DEF CTypeOK
<1>3. \A w \in Queued : w.kind = "block" => w.id \in Nat
  BY QueuedWrites DEF CTypeOK, Writes,
     AccountRecords, AccessRecords, MailboxRecords, InodeRecords, BlockRecords
<1>4. c # Absent => \A n \in DOMAIN c.todo : c.todo[n].kind = "block" => c.todo[n].id \in Nat
  <2>1. c # Absent => c.todo \in Seq(Writes)
    BY DEF Goes, Fits, Calls
  <2> QED
    BY <2>1 DEF Writes,
       AccountRecords, AccessRecords, MailboxRecords, InodeRecords, BlockRecords
<1>5. BlocksSettled'
  <2>1. \A b \in DOMAIN block' : b < fresh'
    BY <1>0, <1>1 DEF BInv, BlocksSettled
  <2>2. ASSUME NEW w \in Queued', w.kind = "block"
        PROVE  w.id < fresh' /\ (w.id \in DOMAIN block' => block'[w.id].plain = w.record.plain)
    <3>1. CASE w \in Queued
      BY <1>0, <1>3, <2>2, <3>1 DEF BInv, BlocksSettled
    <3>2. CASE c # Absent /\ \E n \in DOMAIN c.todo : w = c.todo[n]
      BY <1>0, <2>2, <3>2 DEF NewWritesSettled
    <3> QED
      BY <1>2, <3>1, <3>2
  <2>3. ASSUME NEW w \in Queued', NEW v \in Queued', w.kind = "block", v.kind = "block",
               w.id = v.id, w \in Queued, c # Absent, NEW n \in DOMAIN c.todo, v = c.todo[n]
        PROVE  w.record.plain = v.record.plain
    <3>1. w.id \in Nat /\ w.id < fresh
      BY <1>3, <2>3 DEF BInv, BlocksSettled
    <3>2. v.id \in DOMAIN block /\ v.record.plain = block[v.id].plain
      BY <1>0, <2>3, <3>1 DEF NewWritesSettled
    <3>3. block[w.id].plain = w.record.plain
      BY <2>3, <3>2 DEF BInv, BlocksSettled
    <3> QED
      BY <2>3, <3>2, <3>3
  <2>4. ASSUME NEW w \in Queued', NEW v \in Queued', w.kind = "block", v.kind = "block",
               w.id = v.id
        PROVE  w.record.plain = v.record.plain
    <3>1. CASE w \in Queued /\ v \in Queued
      BY <2>4, <3>1 DEF BInv, BlocksSettled
    <3>2. CASE c # Absent /\ (\E n \in DOMAIN c.todo : w = c.todo[n])
                          /\ (\E n \in DOMAIN c.todo : v = c.todo[n])
      BY <2>4, <3>2 DEF NewWritesSettled
    <3> QED
      BY <1>2, <2>3, <2>4, <3>1, <3>2
  <2> QED
    BY <2>1, <2>2, <2>4 DEF BlocksSettled
<1>6. InodesBacked'
  BY <1>0 DEF BInv, InodesBacked, Exist
<1>7. ASSUME NEW t \in Sessions, InCall(t)'
      PROVE  CallBacked(call'[t], block') /\ Loading(call'[t], block')
  <2>1. CASE t = s
    <3>1. call'[t] = c /\ c # Absent
      BY <1>0, <1>7, <2>1 DEF InCall, CTypeOK, CallsFit
    <3> QED
      BY <1>0, <3>1
  <2>2. CASE t # s
    <3>1. call'[t] = call[t] /\ InCall(t)
      BY <1>0, <1>7, <2>2 DEF InCall, CTypeOK, CallsFit
    <3> QED
      BY <1>0, <3>1 DEF BInv
  <2> QED
    BY <2>1, <2>2
<1> QED
  BY <1>5, <1>6, <1>7 DEF BInv

(* A step that queues neither a block nor an inode. *)
LEMMA PlainGo ==
    ASSUME CTypeOK, BInv, NEW s \in Sessions, NEW c, Goes(s, c),
           c # Absent => /\ c.at \notin {"block", "reseal"}
                         /\ \A n \in DOMAIN c.todo : c.todo[n].kind \notin {"block", "inode"}
    PROVE  BInv'
<1>1. c # Absent => CallBacked(c, block) /\ Loading(c, block) /\ NewWritesSettled(c)
  BY Zenon DEF CallBacked, TodoBacked, Loading, NewWritesSettled
<1> QED
  BY <1>1, BlocksGo

LEMMA SetKinds ==
    /\ \A p, node : SetMailbox(p, node).kind = "mailbox"
    /\ \A me, f, acc : SetAccess(me, f, acc).kind = "access"
    /\ \A me, f : SetUser(me, f).kind = "account"
    /\ \A id, r : Set("invitation", id, r).kind = "invitation"
BY DEF SetMailbox, SetAccess, SetUser, Set

(* The method goes on, and what it queues is neither a block nor an inode. *)
Plain(c, op) ==
    c # Absent =>
        /\ c.op = op /\ op # "StoreFile"
        /\ c.at \notin {"block", "reseal"}
        /\ c.at = "return" => op # "AppendToFile"
        /\ \A n \in DOMAIN c.todo : c.todo[n].kind \notin {"block", "inode"}

LEMMA PlainReads ==
    ASSUME CTypeOK, NEW s \in Sessions,
           \/ GetAccess(s) \/ GetMailbox(s) \/ GetInvitation(s) \/ GetChild(s)
           \/ GetRecipientKey(s) \/ GetSenderKey(s)
    PROVE  \E c : Goes(s, c) /\ Plain(c, call[s].op)
<1> DEFINE c == call[s]
<1>0. InCall(s) /\ c.todo = <<>>
  BY Zenon DEF GetAccess, GetMailbox, GetInvitation, GetChild, GetRecipientKey, GetSenderKey,
         At, InCall
<1>1. c \in Calls /\ Fits(c)
  BY <1>0, CallType DEF Fits
<1>2. Plain(Absent, c.op)
  BY DEF Plain
<1>3. CASE GetAccess(s)
  <2> DEFINE d == [c EXCEPT !.acc = AccessOf(sessions[s], c.f), !.at = "mailbox"]
  <2>1. d.at = "mailbox" /\ d.todo = <<>> /\ d.op = c.op
    BY <1>0, <1>1 DEF Calls
  <2>2. Goes(s, Absent) \/ Goes(s, d)
    BY <1>3, GetAccessGoes, Zenon DEF GoesOn
  <2>3. c.op # "StoreFile"
    BY <1>1, <1>3 DEF GetAccess, At, Fits, OpFits
  <2> HIDE DEF d
  <2>4. Plain(d, c.op)
    BY <2>1, <2>3 DEF Plain
  <2> QED
    BY <1>2, <2>2, <2>4
<1>4. CASE GetMailbox(s)
  <2> DEFINE node == mailbox[c.acc.box.uuid].plain
             box  == [uuid |-> fresh, key |-> fresh + 1]
             w    == SetMailbox(box, node)
             d    == [c EXCEPT !.node = node, !.at = "inode"]
             e    == [c EXCEPT !.node = node, !.box = box, !.at = "recipient", !.todo = <<w>>]
  <2>1. Goes(s, Absent) \/ Goes(s, d) \/ Goes(s, e)
    BY <1>4, GetMailboxGoes, Zenon DEF GoesOn
  <2>2. w.kind = "mailbox"
    BY SetKinds
  <2> HIDE DEF node, box, w
  <2>3. /\ d.at = "inode" /\ d.todo = <<>> /\ d.op = c.op
        /\ e.at = "recipient" /\ e.todo = <<w>> /\ e.op = c.op
    BY <1>0, <1>1 DEF Calls
  <2>4. c.op # "StoreFile"
    BY <1>1, <1>4 DEF GetMailbox, At, Fits, OpFits
  <2> HIDE DEF d, e
  <2>5. \A n \in DOMAIN e.todo : e.todo[n] = w
    BY <2>3
  <2>6. Plain(d, c.op) /\ Plain(e, c.op)
    BY <2>2, <2>3, <2>4, <2>5 DEF Plain
  <2> QED
    BY <1>2, <2>1, <2>6
<1>5. CASE GetInvitation(s)
  <2> DEFINE d == [c EXCEPT !.inv = invitation[c.arg[2]], !.at = "sender"]
  <2>1. d.at = "sender" /\ d.todo = <<>> /\ d.op = c.op
    BY <1>0, <1>1 DEF Calls
  <2>2. Goes(s, Absent) \/ Goes(s, d)
    BY <1>5, GetInvitationGoes, Zenon DEF GoesOn
  <2>3. c.op = "AcceptInvitation"
    BY <1>1, <1>5 DEF GetInvitation, At, Fits, OpFits
  <2> HIDE DEF d
  <2>4. Plain(d, c.op)
    BY <2>1, <2>3 DEF Plain
  <2> QED
    BY <1>2, <2>2, <2>4
<1>6. CASE GetChild(s)
  <2>0. c.at = "child" /\ c.op = "RevokeAccess"
    BY <1>1, <1>6, Zenon DEF GetChild, At, Fits, OpFits
  <2>1. ASSUME NEW u \in c.kids, Goes(s, [c EXCEPT !.kids = @ \ {u}, !.todo = KidTodo(c, u)])
        PROVE  \E e : Goes(s, e) /\ Plain(e, c.op)
    <3> DEFINE d == [c EXCEPT !.kids = @ \ {u}, !.todo = KidTodo(c, u)]
    <3>2. d.at = "child" /\ d.todo = KidTodo(c, u) /\ d.op = c.op
      BY <1>1, <2>0 DEF Calls
    <3>3. \A n \in DOMAIN KidTodo(c, u) : KidTodo(c, u)[n].kind = "mailbox"
      <4> DEFINE p == c.acc.children[u]
                 w == SetMailbox(p, [mailbox[p.uuid].plain EXCEPT !.fileKey = c.key])
      <4>1. w.kind = "mailbox" /\ (KidTodo(c, u) = <<w>> \/ KidTodo(c, u) = <<>>)
        BY SetKinds, Zenon DEF KidTodo
      <4> HIDE DEF w
      <4> QED
        BY <4>1
    <3> HIDE DEF d
    <3>4. Goes(s, d)
      BY <2>1 DEF d
    <3>5. Plain(d, c.op)
      BY <2>0, <3>2, <3>3 DEF Plain
    <3> QED
      BY <3>4, <3>5
  <2>2. ASSUME Goes(s, [c EXCEPT !.at = "return", !.todo = LastTodo(s, c)])
        PROVE  \E e : Goes(s, e) /\ Plain(e, c.op)
    <3> DEFINE d == [c EXCEPT !.at = "return", !.todo = LastTodo(s, c)]
    <3>1. d.at = "return" /\ d.todo = LastTodo(s, c) /\ d.op = c.op
      BY <1>1 DEF Calls
    <3>2. \A n \in DOMAIN LastTodo(s, c) : LastTodo(s, c)[n].kind \in {"access", "account"}
      <4> DEFINE w1 == SetAccess(sessions[s], c.f, WithoutChild(c.acc, c.arg, c.box))
                 w2 == SetUser(sessions[s], c.f)
      <4>1. w1.kind = "access" /\ w2.kind = "account" /\ LastTodo(s, c) = <<w1, w2>>
        BY SetKinds DEF LastTodo
      <4> HIDE DEF w1, w2
      <4> QED
        BY <4>1
    <3> HIDE DEF d
    <3>3. Goes(s, d)
      BY <2>2 DEF d
    <3>4. Plain(d, c.op)
      BY <2>0, <3>1, <3>2 DEF Plain
    <3> QED
      BY <3>3, <3>4
  <2> QED
    BY <1>6, <2>1, <2>2, GetChildGoes, Zenon DEF GoesOn
<1>7. CASE GetRecipientKey(s)
  <2> DEFINE ws == InviteWrites(sessions[s], c)
             d  == [c EXCEPT !.at = "return", !.todo = ws]
  <2>1. Goes(s, Absent) \/ Goes(s, d)
    BY <1>7, GetRecipientKeyGoes, Zenon DEF GoesOn
  <2>2. \A n \in DOMAIN ws : ws[n].kind \in {"invitation", "access"}
    BY SetKinds DEF InviteWrites
  <2> HIDE DEF ws
  <2>3. d.at = "return" /\ d.todo = ws /\ d.op = c.op
    BY <1>1 DEF Calls
  <2>4. c.op = "CreateInvitation"
    BY <1>1, <1>7 DEF GetRecipientKey, At, Fits, OpFits
  <2> HIDE DEF d
  <2>5. Plain(d, c.op)
    BY <2>2, <2>3, <2>4 DEF Plain
  <2> QED
    BY <1>2, <2>1, <2>5
<1>8. CASE GetSenderKey(s)
  <2> DEFINE acc == [box |-> c.inv.box, children |-> NoChildren]
             ws == <<SetAccess(sessions[s], c.f, acc), SetUser(sessions[s], c.f)>>
             d  == [c EXCEPT !.at = "return", !.todo = ws]
  <2>1. Goes(s, Absent) \/ Goes(s, d)
    BY <1>8, GetSenderKeyGoes, Zenon DEF GoesOn
  <2>2. \A n \in DOMAIN ws : ws[n].kind \in {"account", "access"}
    BY SetKinds
  <2> HIDE DEF ws
  <2>3. d.at = "return" /\ d.todo = ws /\ d.op = c.op
    BY <1>1 DEF Calls
  <2>4. c.op = "AcceptInvitation"
    BY <1>1, <1>8 DEF GetSenderKey, At, Fits, OpFits
  <2> HIDE DEF d
  <2>5. Plain(d, c.op)
    BY <2>2, <2>3, <2>4 DEF Plain
  <2> QED
    BY <1>2, <2>1, <2>5
<1> QED
  BY <1>3, <1>4, <1>5, <1>6, <1>7, <1>8

(* The blocks of a StoreFile or AppendToFile have UUIDs of their own.      *)
LEMMA NewRange ==
    ASSUME CTypeOK, BInv, fresh' \in Nat, NEW c, c.todo \in Seq(Writes),
           NEW off \in Nat, NEW n \in Nat, NEW first \in Nat,
           fresh <= first, first + n <= fresh',
           \A k \in DOMAIN c.todo : c.todo[k].kind = "block" =>
               k - off \in 1..n /\ c.todo[k].id = first + (k - off) - 1
    PROVE  NewWritesSettled(c)
<1>0. fresh \in Nat /\ DOMAIN c.todo \subseteq Nat
  BY DEF CTypeOK, TypeOK
<1>1. ASSUME NEW k \in DOMAIN c.todo, c.todo[k].kind = "block"
      PROVE  c.todo[k].id < fresh' /\ c.todo[k].id >= fresh /\ c.todo[k].id \notin DOMAIN block
  <2>1. k \in Nat /\ k - off \in 1..n /\ c.todo[k].id = first + (k - off) - 1
    BY <1>0, <1>1
  <2>2. c.todo[k].id < fresh' /\ c.todo[k].id >= fresh /\ ~(c.todo[k].id < fresh)
    BY <1>0, <2>1
  <2> QED
    BY <2>2 DEF BInv, BlocksSettled
<1>2. ASSUME NEW k \in DOMAIN c.todo, NEW m \in DOMAIN c.todo,
             c.todo[k].kind = "block", c.todo[m].kind = "block", c.todo[k].id = c.todo[m].id
      PROVE  k = m
  <2>1. c.todo[k].id = first + (k - off) - 1 /\ c.todo[m].id = first + (m - off) - 1
    BY <1>2
  <2>2. k \in Nat /\ m \in Nat
    BY <1>0
  <2>3. first + (k - off) - 1 = first + (m - off) - 1
    BY <1>2, <2>1, Zenon
  <2> QED
    BY <2>2, <2>3
<1> QED
  BY <1>1, <1>2 DEF NewWritesSettled

LEMMA AppendWritesAre ==
    ASSUME CTypeOK, NEW c, c.arg \in Contents, c.node \in MailboxNode, NEW file \in Inode
    PROVE  LET ws == AppendWrites(c, file)
               n  == Len(ByteToBlock(c.arg))
               new == Appended(file, c.arg, fresh)
           IN  /\ n \in Nat /\ new \in Inode
               /\ ws \in Seq(Writes) /\ Len(ws) = n + 1
               /\ \A k \in 1..n : /\ ws[k].kind = "block" /\ ws[k].id = fresh + k - 1
                                  /\ ws[k].record.key = getFileKeys(c.node.fileKey)
               /\ ws[n + 1] = [kind |-> "inode", id |-> c.node.inode,
                               record |-> [key |-> <<"file", c.node.fileKey>>, plain |-> new]]
<1> DEFINE bs  == BlockWrites(ByteToBlock(c.arg), c.node.fileKey, fresh)
           n   == Len(ByteToBlock(c.arg))
           new == Appended(file, c.arg, fresh)
           w   == SetInode(c.node, new)
<1>1. c.arg \in Seq(Bytes) /\ c.node.fileKey \in Nat /\ fresh \in Nat
  BY ContentsAssumption DEF MailboxNode, CTypeOK, TypeOK
<1>2. /\ bs \in Seq(Writes) /\ Len(bs) = n /\ n \in Nat
      /\ \A k \in 1..n : bs[k] = [kind |-> "block", id |-> fresh + k - 1,
                                  record |-> [key |-> <<"file", c.node.fileKey>>,
                                              plain |-> ByteToBlock(c.arg)[k]]]
  BY <1>1, BlockWritesType
<1> HIDE DEF bs, n
<1>3. \A k \in 1..n : /\ bs[k].kind = "block" /\ bs[k].id = fresh + k - 1
                       /\ bs[k].record.key = getFileKeys(c.node.fileKey)
  <2>1. ASSUME NEW k \in 1..n
        PROVE  /\ bs[k].kind = "block" /\ bs[k].id = fresh + k - 1
               /\ bs[k].record.key = getFileKeys(c.node.fileKey)
    <3> DEFINE r == [key |-> <<"file", c.node.fileKey>>, plain |-> ByteToBlock(c.arg)[k]]
    <3>1. bs[k] = [kind |-> "block", id |-> fresh + k - 1, record |-> r]
      BY <1>2
    <3>2. r.key = getFileKeys(c.node.fileKey)
      BY DEF getFileKeys
    <3> HIDE DEF r
    <3> QED
      BY <3>1, <3>2
  <2> QED
    BY <2>1
<1>4. new \in Inode
  BY <1>1, AppendedType
<1>5. AppendWrites(c, file) = bs \o <<w>>
  BY DEF AppendWrites, bs
<1> HIDE DEF new
<1>6. w \in Writes /\ w = [kind |-> "inode", id |-> c.node.inode,
                           record |-> [key |-> <<"file", c.node.fileKey>>, plain |-> new]]
  BY <1>4, SetInodeType
<1> HIDE DEF w
<1>7. /\ bs \o <<w>> \in Seq(Writes) /\ Len(bs \o <<w>>) = n + 1
      /\ \A k \in 1..n : (bs \o <<w>>)[k] = bs[k]
      /\ (bs \o <<w>>)[n + 1] = w
  <2>1. <<w>> \in Seq(Writes) /\ Len(<<w>>) = 1 /\ <<w>>[1] = w
    BY <1>6
  <2> QED
    BY <1>2, <2>1, ConcatProperties
<1> QED
  BY <1>2, <1>3, <1>4, <1>5, <1>6, <1>7 DEF n, new

LEMMA AppendedBlocks ==
    ASSUME NEW file \in Inode, NEW c \in Contents, NEW id \in Nat
    PROVE  LET bs == Appended(file, c, id).blocks
               n  == Len(file.blocks)
           IN  /\ n \in Nat /\ DOMAIN bs = 1..(n + Len(ByteToBlock(c)))
               /\ \A k \in DOMAIN bs : \/ k \in DOMAIN file.blocks /\ bs[k] = file.blocks[k]
                                       \/ /\ k - n \in 1..Len(ByteToBlock(c))
                                          /\ bs[k] = id + (k - n) - 1
<1> DEFINE new == BlockUUIDs(ByteToBlock(c), id)
           old == file.blocks
           m   == Len(ByteToBlock(c))
<1>1. /\ m \in Nat /\ new \in Seq(Nat) /\ Len(new) = m
      /\ \A k \in 1..m : new[k] = id + k - 1
  BY NewBlocksType, NewBlocksFacts
<1>2. old \in Seq(Nat) /\ Len(old) \in Nat
  BY DEF Inode
<1>3. Appended(file, c, id).blocks = old \o new
  BY DEF Appended
<1> HIDE DEF new, old, m
<1>4. /\ old \o new \in Seq(Nat) /\ Len(old \o new) = Len(old) + m
      /\ \A k \in 1..(Len(old) + m) :
             (old \o new)[k] = IF k <= Len(old) THEN old[k] ELSE new[k - Len(old)]
  BY <1>1, <1>2, ConcatProperties
<1>5. DOMAIN (old \o new) = 1..(Len(old) + m)
  BY <1>4
<1>6. ASSUME NEW k \in 1..(Len(old) + m)
      PROVE  \/ k \in DOMAIN old /\ (old \o new)[k] = old[k]
             \/ k - Len(old) \in 1..m /\ (old \o new)[k] = id + (k - Len(old)) - 1
  BY <1>1, <1>2, <1>4
<1> QED
  BY <1>2, <1>3, <1>5, <1>6 DEF old, m

LEMMA GetInodeBlocks ==
    ASSUME CTypeOK, BInv, NEW s \in Sessions, GetInode(s)
    PROVE  BInv'
<1> DEFINE c    == call[s]
           file == inode[c.node.inode].plain
<1>1. InCall(s) /\ c.at = "inode" /\ c.todo = <<>>
  BY DEF GetInode, At, InCall
<1>2. Fits(c) /\ c \in Calls /\ fresh \in Nat /\ c.node \in MailboxNode /\ c.got = <<>>
  BY <1>1, CallType DEF Fits, Has
<1>3. Goes(s, Absent) => BInv'
  BY PlainGo
<1>4. OpensInode(c.node) => file \in Inode /\ file.blocks \in Seq(Nat) /\ Exist(file.blocks, block)
  BY ReadTypes DEF CTypeOK, Inode, OpensInode, BInv, InodesBacked
<1>5. CASE OpensInode(c.node) /\ c.op = "LoadFile"
  <2> DEFINE saw == IF Range(file.blocks) \subseteq DOMAIN block
                    THEN FileBytes(c.node.inode) ELSE <<>>
             d   == [c EXCEPT !.at = "block", !.file = file, !.left = file.blocks, !.saw = saw]
  <2>1. Goes(s, d)
    BY <1>5, GetInodeGoes, Zenon DEF GoesOn
  <2>2. saw = <<>> \o FlattenSeq(ReadsOf(file.blocks, block))
    <3>1. Range(file.blocks) \subseteq DOMAIN block
      BY <1>4, <1>5 DEF Range, Exist
    <3>2. FlattenSeq(ReadsOf(file.blocks, block)) \in Seq(Bytes)
      BY <1>4, <1>5, ReadsBytes, FlattenType DEF CTypeOK
    <3> QED
      BY <3>1, <3>2, FileBytesReads, ConcatEmptySeq
  <2> HIDE DEF saw, file
  <2>3. /\ d.at = "block" /\ d.left = file.blocks /\ d.saw = saw /\ d.got = <<>>
        /\ d.todo = <<>>
    BY <1>1, <1>2 DEF Calls
  <2> HIDE DEF d
  <2>4. d # Absent => CallBacked(d, block) /\ Loading(d, block) /\ NewWritesSettled(d)
    BY <1>4, <1>5, <2>2, <2>3 DEF CallBacked, TodoBacked, Loading, NewWritesSettled
  <2> QED
    BY <2>1, <2>4, BlocksGo
<1>6. CASE OpensInode(c.node) /\ c.op = "AppendToFile"
  <2> DEFINE ws == AppendWrites(c, file)
             n  == Len(ByteToBlock(c.arg))
             new == Appended(file, c.arg, fresh)
             d  == [c EXCEPT !.at = "return", !.todo = ws]
  <2>0. fresh' = fresh + n /\ Goes(s, d)
    BY <1>6, GetInodeGoes, Zenon DEF GoesOn
  <2>1. c.arg \in Contents
    BY <1>2, <1>6 DEF Fits, OpFits
  <2>2. /\ n \in Nat /\ new \in Inode
        /\ ws \in Seq(Writes) /\ Len(ws) = n + 1
        /\ \A k \in 1..n : ws[k].kind = "block" /\ ws[k].id = fresh + k - 1
        /\ ws[n + 1].kind = "inode" /\ ws[n + 1].record.plain = new
    <3> DEFINE r == [key |-> <<"file", c.node.fileKey>>, plain |-> new]
    <3>1. /\ n \in Nat /\ new \in Inode
          /\ ws \in Seq(Writes) /\ Len(ws) = n + 1
          /\ \A k \in 1..n : ws[k].kind = "block" /\ ws[k].id = fresh + k - 1
          /\ ws[n + 1] = [kind |-> "inode", id |-> c.node.inode, record |-> r]
      BY <1>2, <1>4, <1>6, <2>1, AppendWritesAre, Zenon
    <3>2. r.plain = new
      OBVIOUS
    <3> HIDE DEF r, ws, n, new
    <3>3. ws[n + 1].kind = "inode" /\ ws[n + 1].record = r
      BY <3>1
    <3> QED
      BY <3>1, <3>2, <3>3
  <2>3. \A k \in DOMAIN new.blocks : \/ new.blocks[k] \in DOMAIN block
                                     \/ \E j \in 1..n : new.blocks[k] = fresh + j - 1
    <3>1. ASSUME NEW k \in DOMAIN new.blocks
          PROVE  \/ new.blocks[k] \in DOMAIN block
                 \/ \E j \in 1..n : new.blocks[k] = fresh + j - 1
      <4>1. \/ k \in DOMAIN file.blocks /\ new.blocks[k] = file.blocks[k]
            \/ /\ k - Len(file.blocks) \in 1..n
               /\ new.blocks[k] = fresh + (k - Len(file.blocks)) - 1
        BY <1>2, <1>4, <1>6, <2>1, <3>1, AppendedBlocks
      <4> HIDE DEF file, new, n
      <4> QED
        BY <1>4, <1>6, <4>1 DEF Exist
    <3> QED
      BY <3>1
  <2> HIDE DEF ws, n, new, file
  <2>4. d.at = "return" /\ d.todo = ws
    BY <1>2 DEF Calls
  <2> HIDE DEF d
  <2>5. \A k \in DOMAIN d.todo : \/ k \in 1..n /\ d.todo[k].kind = "block" /\ d.todo[k].id = fresh + k - 1
                                 \/ k = n + 1 /\ d.todo[k].kind = "inode" /\ d.todo[k].record.plain = new
    BY <2>2, <2>4
  <2>6. NewWritesSettled(d)
    <3>1. \A k \in DOMAIN d.todo : d.todo[k].kind = "block" =>
               k - 0 \in 1..n /\ d.todo[k].id = fresh + (k - 0) - 1
      BY <2>2, <2>5
    <3>2. fresh' \in Nat /\ fresh <= fresh /\ fresh + n <= fresh' /\ 0 \in Nat
          /\ d.todo \in Seq(Writes)
      BY <1>2, <2>0, <2>2, <2>4
    <3> QED
      BY <1>2, <2>2, <3>1, <3>2, NewRange
  <2>7. TodoBacked(d, block)
    <3> SUFFICES ASSUME NEW k \in DOMAIN d.todo, d.todo[k].kind = "inode",
                        NEW j \in DOMAIN d.todo[k].record.plain.blocks
                 PROVE  StoredBy(d, k, d.todo[k].record.plain.blocks[j], block)
      BY DEF TodoBacked
    <3>1. k = n + 1 /\ d.todo[k].record.plain = new
      BY <2>5
    <3>2. CASE new.blocks[j] \in DOMAIN block
      BY <3>1, <3>2 DEF StoredBy
    <3>3. CASE \E m \in 1..n : new.blocks[j] = fresh + m - 1
      <4>1. PICK m \in 1..n : new.blocks[j] = fresh + m - 1
        BY <3>3
      <4>2. m \in 1..(k - 1) /\ d.todo[m].kind = "block" /\ d.todo[m].id = new.blocks[j]
        BY <2>2, <2>4, <3>1, <4>1
      <4> QED
        BY <3>1, <4>2 DEF StoredBy
    <3> QED
      BY <2>3, <3>1, <3>2, <3>3
  <2>8. d # Absent => CallBacked(d, block) /\ Loading(d, block) /\ NewWritesSettled(d)
    BY <2>4, <2>6, <2>7 DEF CallBacked, Loading
  <2> QED
    BY <2>0, <2>8, BlocksGo
<1>7. CASE OpensInode(c.node) /\ c.op = "RevokeAccess"
  <2> DEFINE box == [uuid |-> fresh + 2, key |-> fresh + 1]
             d   == [c EXCEPT !.at = "reseal", !.file = file, !.left = file.blocks,
                              !.key = fresh, !.box = box]
  <2>1. Goes(s, d)
    BY <1>7, GetInodeGoes, Zenon DEF GoesOn
  <2> HIDE DEF file, box
  <2>2. d.at = "reseal" /\ d.file = file /\ d.todo = <<>>
    BY <1>1, <1>2 DEF Calls
  <2> HIDE DEF d
  <2>3. d # Absent => CallBacked(d, block) /\ Loading(d, block) /\ NewWritesSettled(d)
    BY <1>4, <1>7, <2>2 DEF CallBacked, TodoBacked, Loading, NewWritesSettled
  <2> QED
    BY <2>1, <2>3, BlocksGo
<1> QED
  BY <1>3, <1>5, <1>6, <1>7, GetInodeGoes, Zenon DEF GoesOn

LEMMA ReadsHead ==
    ASSUME TypeOK, NEW ids \in Seq(Nat), ids # <<>>, Exist(ids, block)
    PROVE  /\ Head(ids) \in DOMAIN block /\ Exist(Tail(ids), block)
           /\ FlattenSeq(ReadsOf(ids, block))
                  = block[Head(ids)].plain \o FlattenSeq(ReadsOf(Tail(ids), block))
           /\ block[Head(ids)].plain \in Seq(Bytes)
           /\ FlattenSeq(ReadsOf(Tail(ids), block)) \in Seq(Bytes)
<1> DEFINE b == Head(ids)
           r == Tail(ids)
           x == block[b].plain
<1>1. b = ids[1] /\ b \in Nat /\ r \in Seq(Nat) /\ ids = <<b>> \o r /\ 1 \in DOMAIN ids
      /\ \A n \in DOMAIN r : n + 1 \in DOMAIN ids /\ r[n] = ids[n + 1]
  OBVIOUS
<1>2. b \in DOMAIN block /\ Exist(r, block)
  BY <1>1 DEF Exist
<1>3. x \in Seq(Bytes)
  BY <1>2 DEF TypeOK, IsStore, Sealed
<1> HIDE DEF b, r
<1>4. <<b>> \in Seq(Nat) /\ ReadsOf(<<b>>, block) = <<x>>
  BY <1>1 DEF ReadsOf
<1> HIDE DEF x
<1>5. ReadsOf(ids, block) = <<x>> \o ReadsOf(r, block)
  <2> DEFINE one == <<b>>
  <2>1. one \in Seq(Nat) /\ r \in Seq(Nat) /\ ids = one \o r
    BY <1>1, <1>4, Zenon
  <2> HIDE DEF one
  <2>2. ReadsOf(one \o r, block) = ReadsOf(one, block) \o ReadsOf(r, block)
    BY <2>1, ReadsConcat
  <2>3. ReadsOf(one, block) = <<x>>
    BY <1>4 DEF one
  <2> QED
    BY <2>1, <2>2, <2>3
<1>6. ReadsOf(r, block) \in Seq(Seq(Bytes)) /\ <<x>> \in Seq(Seq(Bytes))
  BY <1>1, <1>2, <1>3, ReadsBytes
<1>7. FlattenSeq(<<x>>) = x
  <2>1. <<>> \in Seq(Seq(Bytes)) /\ Append(<<>>, x) = <<x>>
    OBVIOUS
  <2>2. FlattenSeq(Append(<<>>, x)) = FlattenSeq(<<>>) \o x
    BY <1>3, <2>1, FlattenAppend
  <2>3. <<>> \o x = x
    BY <1>3, ConcatEmptySeq
  <2> QED
    BY <2>1, <2>2, <2>3, FlattenEmpty
<1>8. FlattenSeq(<<x>> \o ReadsOf(r, block)) = FlattenSeq(<<x>>) \o FlattenSeq(ReadsOf(r, block))
  BY <1>6, FlattenConcat
<1>9. FlattenSeq(ReadsOf(r, block)) \in Seq(Bytes)
  BY <1>6, FlattenType
<1> QED
  BY <1>2, <1>3, <1>5, <1>7, <1>8, <1>9 DEF b, r, x

LEMMA GetBlockBlocks ==
    ASSUME CTypeOK, BInv, NEW s \in Sessions, GetBlock(s)
    PROVE  BInv'
<1> DEFINE c == call[s]
           b == Head(c.left)
           x == block[b].plain
           d == [c EXCEPT !.left = Tail(@), !.got = @ \o x]
<1>1. InCall(s) /\ c.at = "block" /\ c.todo = <<>>
  BY DEF GetBlock, At, InCall
<1>2. c \in Calls /\ c.left \in Seq(Nat) /\ c.got \in Seq(Bytes)
  BY <1>1, CallType DEF Fits, Calls
<1>3. Exist(c.left, block) /\ c.saw = c.got \o FlattenSeq(ReadsOf(c.left, block))
  BY <1>1 DEF BInv, CallBacked, Loading
<1>4. Goes(s, Absent) => BInv'
  BY PlainGo
<1>5. CASE c.left # <<>> /\ Goes(s, d)
  <2> DEFINE rest == FlattenSeq(ReadsOf(Tail(c.left), block))
  <2>1. /\ Exist(Tail(c.left), block)
        /\ FlattenSeq(ReadsOf(c.left, block)) = x \o rest
        /\ x \in Seq(Bytes) /\ rest \in Seq(Bytes)
    BY <1>2, <1>3, <1>5, ReadsHead DEF CTypeOK
  <2> HIDE DEF rest, x
  <2>2. c.saw = (c.got \o x) \o rest
    <3>1. (c.got \o x) \o rest = c.got \o (x \o rest)
      <4> DEFINE got == c.got
      <4>1. got \in Seq(Bytes) /\ x \in Seq(Bytes) /\ rest \in Seq(Bytes)
        BY <1>2, <2>1
      <4> HIDE DEF got
      <4>2. (got \o x) \o rest = got \o (x \o rest)
        BY <4>1, ConcatAssociative
      <4> QED
        BY <4>2 DEF got
    <3> QED
      BY <1>3, <2>1, <3>1, Zenon
  <2>3. /\ d.at = "block" /\ d.left = Tail(c.left) /\ d.got = c.got \o x /\ d.saw = c.saw
        /\ d.todo = <<>>
    BY <1>1, <1>2 DEF Calls
  <2>4. Goes(s, d)
    BY <1>5
  <2> HIDE DEF d
  <2>5. d # Absent => CallBacked(d, block) /\ Loading(d, block) /\ NewWritesSettled(d)
    BY <2>1, <2>2, <2>3 DEF CallBacked, TodoBacked, Loading, NewWritesSettled, rest
  <2> QED
    BY <2>4, <2>5, BlocksGo
<1> QED
  BY <1>4, <1>5, GetBlockGoes, Zenon DEF GoesOn

LEMMA ResealBlocks ==
    ASSUME CTypeOK, BInv, NEW s \in Sessions, Reseal(s)
    PROVE  BInv'
<1> DEFINE c == call[s]
           b == Head(c.left)
           r == encryptAndMAC(block[b].plain, getFileKeys(c.key))
           w == Set("block", b, r)
           d == [c EXCEPT !.left = Tail(@), !.todo = <<w>>]
           ks == {u \in Users \ {c.arg} : c.acc.children[u] # Absent}
           e == [c EXCEPT !.at = "child", !.kids = ks, !.todo = RevokeWrites(c)]
<1>1. InCall(s) /\ c.at = "reseal" /\ c.todo = <<>>
  BY DEF Reseal, At, InCall
<1>2. Fits(c)
  BY <1>1, CallType
<1>3. /\ c \in Calls /\ c.file \in Inode /\ c.node \in MailboxNode /\ c.box \in Pointer
      /\ c.key \in Nat
  BY <1>1, <1>2 DEF Fits, Has, Calls
<1>4. Exist(c.file.blocks, block)
  BY <1>1 DEF BInv, CallBacked
<1>5. Goes(s, Absent) => BInv'
  BY PlainGo
<1>6. CASE OpensBlock(b, c.node) /\ Goes(s, d)
  <2>1. w.kind = "block" /\ w.id = b /\ w.record = r /\ r.plain = block[b].plain
    BY DEF Set, encryptAndMAC
  <2>2. b \in DOMAIN block /\ b < fresh /\ b \in Nat
    BY <1>6 DEF OpensBlock, BInv, BlocksSettled, CTypeOK, TypeOK, IsStore
  <2>3. b < fresh'
    BY <1>6, <2>2 DEF Goes, CTypeOK, TypeOK
  <2>4. Goes(s, d)
    BY <1>6
  <2> HIDE DEF w, r, b
  <2>5. d.at = "reseal" /\ d.file = c.file /\ d.todo = <<w>>
    BY <1>1, <1>3 DEF Calls
  <2> HIDE DEF d
  <2>6. \A n \in DOMAIN d.todo : d.todo[n] = w
    BY <2>5
  <2>7. NewWritesSettled(d)
    BY <2>1, <2>2, <2>3, <2>6 DEF NewWritesSettled
  <2>8. CallBacked(d, block) /\ Loading(d, block)
    BY <1>4, <2>1, <2>5, <2>6 DEF CallBacked, TodoBacked, Loading
  <2> QED
    BY <2>4, <2>7, <2>8, BlocksGo
<1>7. CASE Goes(s, e)
  <2> DEFINE node == [c.node EXCEPT !.fileKey = c.key]
             w1 == SetInode(node, c.file)
             w2 == SetMailbox(c.box, node)
  <2>1. node \in MailboxNode
    BY <1>3 DEF MailboxNode
  <2>2. RevokeWrites(c) = <<w1, w2>>
    BY DEF RevokeWrites
  <2> HIDE DEF node
  <2>3. w1.kind = "inode" /\ w1.record.plain = c.file /\ w2.kind = "mailbox"
    BY <1>3, <2>1, SetInodeType, SetKinds
  <2>4. Goes(s, e)
    BY <1>7
  <2> HIDE DEF w1, w2, ks
  <2>5. e.at = "child" /\ e.todo = <<w1, w2>>
    BY <1>3, <2>2 DEF Calls
  <2> HIDE DEF e
  <2>6. \A n \in DOMAIN e.todo : e.todo[n] = w1 \/ e.todo[n] = w2
    BY <2>5
  <2>7. NewWritesSettled(e) /\ Loading(e, block)
    BY <2>3, <2>5, <2>6 DEF NewWritesSettled, Loading
  <2>8. CallBacked(e, block)
    BY <1>4, <2>3, <2>5, <2>6 DEF CallBacked, TodoBacked, StoredBy, Exist
  <2> QED
    BY <2>4, <2>7, <2>8, BlocksGo
<1> QED
  BY <1>5, <1>6, <1>7, ResealGoes, Zenon DEF GoesOn

LEMMA BeginStoreBlocks ==
    ASSUME CTypeOK, BInv, NEW s \in Sessions, NEW f \in Filenames, NEW content \in Contents,
           BeginStoreFile(s, f, content)
    PROVE  BInv'
<1> DEFINE me == sessions[s]
           n  == Len(ByteToBlock(content))
           ws == StoreFileWrites(me, f, content, StoredNode, StoredBox, fresh + 4)
           bs == BlockWrites(ByteToBlock(content), StoredNode.fileKey, fresh + 4)
           ids == BlockUUIDs(ByteToBlock(content), fresh + 4)
           file == [size |-> Len(content), blocks |-> ids]
           acc == [box |-> StoredBox, children |-> NoChildren]
           d  == StoreCall(s, f, content)
<1>1. Goes(s, d) /\ me # Absent /\ fresh' = fresh + 4 + n
  BY BeginStoreGoes
<1>2. me \in User /\ fresh \in Nat /\ fresh + 4 \in Nat /\ content \in Seq(Bytes)
  BY <1>1, ContentsAssumption DEF CTypeOK, TypeOK
<1>3. StoredNode \in MailboxNode /\ StoredBox \in Pointer /\ StoredNode.fileKey \in Nat
  BY <1>2 DEF StoredNode, StoredBox, MailboxNode, Pointer
<1>4. /\ n \in Nat /\ acc \in Access /\ file \in Inode
      /\ ws \in Seq(Writes) /\ Len(ws) = n + 4
      /\ ws[1] = SetMailbox(StoredBox, StoredNode) /\ ws[2] = SetAccess(me, f, acc)
      /\ \A k \in 1..n : ws[k + 2] = bs[k]
      /\ ws[n + 3] = SetInode(StoredNode, file) /\ ws[n + 4] = SetUser(me, f)
  BY <1>2, <1>3, StoreFileWritesAre
<1>5. DOMAIN ids = 1..n /\ \A k \in 1..n : ids[k] = (fresh + 4) + k - 1
  BY <1>2, <1>3, NewBlocksFacts
<1>6. \A k \in 1..n : bs[k].kind = "block" /\ bs[k].id = (fresh + 4) + k - 1
  <2>1. ASSUME NEW k \in 1..n
        PROVE  bs[k].kind = "block" /\ bs[k].id = (fresh + 4) + k - 1
    <3> DEFINE r == [key |-> <<"file", StoredNode.fileKey>>, plain |-> ByteToBlock(content)[k]]
    <3>1. bs[k] = [kind |-> "block", id |-> (fresh + 4) + k - 1, record |-> r]
      BY <1>2, <1>3, BlockWritesType
    <3> HIDE DEF r, bs
    <3> QED
      BY <3>1
  <2> QED
    BY <2>1
<1>7. file.blocks = ids
  OBVIOUS
<1> HIDE DEF file, acc, ids, bs, n
<1>8. /\ ws[1].kind = "mailbox" /\ ws[2].kind = "access" /\ ws[n + 4].kind = "account"
      /\ ws[n + 3].kind = "inode" /\ ws[n + 3].record.plain = file
  BY <1>3, <1>4, SetKinds, SetInodeType
<1>9. d.at = "return" /\ d.todo = ws
  BY DEF StoreCall, NewCall
<1> HIDE DEF ws, d
<1>10. \A k \in DOMAIN d.todo :
           \/ k = 1 /\ d.todo[k].kind = "mailbox"
           \/ k = 2 /\ d.todo[k].kind = "access"
           \/ /\ k - 2 \in 1..n /\ d.todo[k].kind = "block"
              /\ d.todo[k].id = (fresh + 4) + (k - 2) - 1
           \/ k = n + 3 /\ d.todo[k].kind = "inode" /\ d.todo[k].record.plain = file
           \/ k = n + 4 /\ d.todo[k].kind = "account"
  <2> SUFFICES ASSUME NEW k \in DOMAIN d.todo
               PROVE  \/ k = 1 /\ d.todo[k].kind = "mailbox"
                      \/ k = 2 /\ d.todo[k].kind = "access"
                      \/ /\ k - 2 \in 1..n /\ d.todo[k].kind = "block"
                         /\ d.todo[k].id = (fresh + 4) + (k - 2) - 1
                      \/ k = n + 3 /\ d.todo[k].kind = "inode" /\ d.todo[k].record.plain = file
                      \/ k = n + 4 /\ d.todo[k].kind = "account"
    OBVIOUS
  <2>1. k \in 1..(n + 4)
    BY <1>4, <1>9
  <2>2. CASE k - 2 \in 1..n
    <3>1. ws[(k - 2) + 2] = bs[k - 2] /\ (k - 2) + 2 = k
      BY <1>4, <2>1, <2>2
    <3>2. bs[k - 2].kind = "block" /\ bs[k - 2].id = (fresh + 4) + (k - 2) - 1
      BY <1>6, <2>2
    <3> QED
      BY <1>9, <2>2, <3>1, <3>2
  <2>3. CASE k \in {1, 2, n + 3, n + 4}
    BY <1>8, <1>9, <2>3
  <2> QED
    BY <1>4, <2>1, <2>2, <2>3
<1>11. NewWritesSettled(d)
  <2>1. \A k \in DOMAIN d.todo : d.todo[k].kind = "block" =>
             k - 2 \in 1..n /\ d.todo[k].id = (fresh + 4) + (k - 2) - 1
    BY <1>10
  <2>2. /\ fresh' \in Nat /\ fresh <= fresh + 4 /\ (fresh + 4) + n <= fresh' /\ 2 \in Nat
        /\ d.todo \in Seq(Writes)
    BY <1>1, <1>2, <1>4, <1>9
  <2> QED
    BY <1>2, <1>4, <2>1, <2>2, NewRange
<1>12. TodoBacked(d, block)
  <2> SUFFICES ASSUME NEW k \in DOMAIN d.todo, d.todo[k].kind = "inode",
                      NEW j \in DOMAIN d.todo[k].record.plain.blocks
               PROVE  StoredBy(d, k, d.todo[k].record.plain.blocks[j], block)
    BY DEF TodoBacked
  <2>1. k = n + 3 /\ d.todo[k].record.plain = file
    BY <1>10
  <2>2. j \in 1..n /\ d.todo[k].record.plain.blocks[j] = (fresh + 4) + j - 1
    BY <1>5, <1>7, <2>1
  <2>3. j + 2 \in 1..(k - 1) /\ j + 2 \in DOMAIN d.todo
    BY <1>4, <1>9, <2>1, <2>2
  <2>4. d.todo[j + 2].kind = "block" /\ d.todo[j + 2].id = (fresh + 4) + j - 1
    <3>1. ws[j + 2] = bs[j]
      BY <1>4, <2>2
    <3> QED
      BY <1>6, <1>9, <2>2, <3>1
  <2> QED
    BY <2>2, <2>3, <2>4 DEF StoredBy
<1>13. d # Absent => CallBacked(d, block) /\ Loading(d, block) /\ NewWritesSettled(d)
  BY <1>9, <1>11, <1>12 DEF CallBacked, Loading
<1> QED
  BY <1>1, <1>13, BlocksGo

LEMMA BeginBlocks ==
    ASSUME CTypeOK, BInv, NEW s \in Sessions, BeginCall(s)
    PROVE  BInv'
<1>1. PICK f \in Filenames :
        \/ BeginOnFile(s, "LoadFile", f, Absent)
        \/ \E content \in Contents : \/ BeginStoreFile(s, f, content)
                                     \/ BeginOnFile(s, "AppendToFile", f, content)
        \/ \E u \in Users, op \in {"CreateInvitation", "RevokeAccess"} :
               BeginOnFile(s, op, f, u)
        \/ \E u \in Users, ptr \in DOMAIN invitation \cup {0} :
               BeginAcceptInvitation(s, u, ptr, f)
  BY DEF BeginCall
<1>2. ASSUME NEW op, NEW arg, BeginOnFile(s, op, f, arg),
             \/ op = "LoadFile" /\ arg = Absent
             \/ op = "AppendToFile" /\ arg \in Contents
             \/ op \in {"CreateInvitation", "RevokeAccess"} /\ arg \in Users
      PROVE  BInv'
  <2>1. Goes(s, NewCall(op, f, arg))
    BY <1>2, BeginOnFileGoes
  <2>2. NewCall(op, f, arg).at = "access" /\ NewCall(op, f, arg).todo = <<>>
    BY DEF NewCall
  <2> QED
    BY <2>1, <2>2, PlainGo
<1>3. ASSUME NEW u \in Users, NEW ptr \in DOMAIN invitation \cup {0},
             BeginAcceptInvitation(s, u, ptr, f)
      PROVE  BInv'
  <2> DEFINE d == [NewCall("AcceptInvitation", f, <<u, ptr>>) EXCEPT !.at = "invitation"]
  <2>1. ptr \in Nat
    BY DEF CTypeOK, TypeOK, IsStore
  <2>2. Goes(s, d)
    BY <1>3, <2>1, BeginAcceptGoes
  <2>3. d.at = "invitation" /\ d.todo = <<>>
    BY DEF NewCall
  <2> HIDE DEF d
  <2> QED
    BY <2>2, <2>3, PlainGo
<1> QED
  BY <1>1, <1>2, <1>3, BeginStoreBlocks

(* Blocks are added, and the ones there are keep their content. *)
Keeps(old, new) ==
    DOMAIN old \subseteq DOMAIN new /\ \A b \in DOMAIN old : new[b].plain = old[b].plain

LEMMA BackedKept ==
    ASSUME NEW c, NEW old, NEW new, CallBacked(c, old), Loading(c, old), Keeps(old, new)
    PROVE  CallBacked(c, new) /\ Loading(c, new)
<1>1. CallBacked(c, new)
  BY DEF CallBacked, TodoBacked, StoredBy, Exist, Keeps
<1>2. c.at = "block" => ReadsOf(c.left, new) = ReadsOf(c.left, old)
  BY DEF CallBacked, Exist, Keeps, ReadsOf
<1> QED
  BY <1>1, <1>2 DEF Loading

LEMMA SetNextBlocks ==
    ASSUME CTypeOK, BInv, NEW s \in Sessions, SetNext(s)
    PROVE  BInv'
<1> DEFINE c == call[s]
           w == Head(c.todo)
           d == [c EXCEPT !.todo = Tail(@)]
<1>1. /\ InCall(s) /\ c.todo # <<>> /\ c.todo \in Seq(Writes) /\ w \in Writes
      /\ w = c.todo[1] /\ Write(w) /\ fresh' = fresh
      /\ \/ call' = [call EXCEPT ![s] = Absent]
         \/ call' = [call EXCEPT ![s] = d] /\ Fits(d)
  BY SetNextGoes
<1>2. c \in Calls /\ call \in [Sessions -> Calls \cup {Absent}]
  BY <1>1, CallType DEF Fits, CTypeOK, CallsFit
<1>3. d.at = c.at /\ d.file = c.file /\ d.left = c.left /\ d.got = c.got /\ d.saw = c.saw
      /\ d.todo = Tail(c.todo)
  BY <1>2 DEF Calls
<1>4. 1 \in DOMAIN c.todo /\ w \in Queued
  <2>1. 1 \in DOMAIN c.todo
    BY <1>1
  <2> QED
    BY <1>1, <2>1, InQueue
<1>5. \A n \in DOMAIN Tail(c.todo) : n + 1 \in DOMAIN c.todo /\ Tail(c.todo)[n] = c.todo[n + 1]
      /\ n \in Nat \ {0}
  BY <1>1
<1> HIDE DEF d, w
<1>6. Queued' \subseteq Queued
  <2> SUFFICES ASSUME NEW v \in Queued' PROVE v \in Queued
    OBVIOUS
  <2>1. CASE call' = [call EXCEPT ![s] = Absent]
    BY <2>1, QueuedGoes DEF CTypeOK
  <2>2. CASE call' = [call EXCEPT ![s] = d]
    <3>1. v \in Queued \/ \E n \in DOMAIN d.todo : v = d.todo[n]
      BY <2>2, QueuedGoes DEF CTypeOK
    <3>2. ASSUME NEW n \in DOMAIN d.todo, v = d.todo[n] PROVE v \in Queued
      <4>1. n + 1 \in DOMAIN c.todo /\ v = c.todo[n + 1]
        BY <1>3, <1>5, <3>2
      <4> QED
        BY <1>1, <4>1, InQueue
    <3> QED
      BY <3>1, <3>2
  <2> QED
    BY <1>1, <2>1, <2>2
<1>7. /\ Keeps(block, block') /\ (w.kind = "block" => w.id \in DOMAIN block')
      /\ BlocksSettled'
  <2>0. \A x, v \in Queued' : x.kind = "block" /\ v.kind = "block" /\ x.id = v.id =>
            x.record.plain = v.record.plain
    BY <1>6 DEF BInv, BlocksSettled
  <2>1. CASE w.kind = "block"
    <3>1. block' = Put(block, w.id, w.record)
      BY <1>1, <2>1 DEF Write
    <3>2. /\ DOMAIN block' = DOMAIN block \cup {w.id} /\ block'[w.id] = w.record
          /\ \A x \in DOMAIN block : x # w.id => block'[x] = block[x]
      <4> DEFINE new == Put(block, w.id, w.record)
      <4>1. /\ DOMAIN new = DOMAIN block \cup {w.id} /\ new[w.id] = w.record
            /\ \A x \in DOMAIN block : x # w.id => new[x] = block[x]
        BY DEF Put, PutAll
      <4> QED
        BY <3>1, <4>1, Zenon
    <3>3. Keeps(block, block')
      BY <1>4, <2>1, <3>2 DEF Keeps, BInv, BlocksSettled
    <3>4. \A b \in DOMAIN block' : b < fresh'
      BY <1>1, <1>4, <2>1, <3>2 DEF BInv, BlocksSettled
    <3>5. ASSUME NEW v \in Queued', v.kind = "block"
          PROVE  v.id < fresh' /\ (v.id \in DOMAIN block' => block'[v.id].plain = v.record.plain)
      <4>1. v \in Queued
        BY <1>6, <3>5
      <4>2. v.id < fresh'
        BY <1>1, <3>5, <4>1 DEF BInv, BlocksSettled
      <4>3. CASE v.id = w.id
        BY <1>4, <2>1, <3>2, <3>5, <4>1, <4>2, <4>3 DEF BInv, BlocksSettled
      <4>4. CASE v.id # w.id
        BY <3>2, <3>5, <4>1, <4>2, <4>4 DEF BInv, BlocksSettled
      <4> QED
        BY <4>3, <4>4
    <3> QED
      BY <2>0, <3>2, <3>3, <3>4, <3>5 DEF BlocksSettled
  <2>2. CASE w.kind # "block"
    <3>1. block' = block
      BY <1>1, <2>2 DEF Write
    <3> QED
      BY <1>1, <1>6, <2>0, <2>2, <3>1 DEF BInv, BlocksSettled, Keeps
  <2> QED
    BY <2>1, <2>2
<1>8. CallBacked(c, block) /\ Loading(c, block)
  BY <1>1 DEF BInv
<1>9. InodesBacked'
  <2>1. CASE w.kind = "inode"
    <3>1. inode' = Put(inode, w.id, w.record) /\ block' = block
      BY <1>1, <2>1 DEF Write
    <3>2. /\ DOMAIN inode' = DOMAIN inode \cup {w.id} /\ inode'[w.id] = w.record
          /\ \A x \in DOMAIN inode : x # w.id => inode'[x] = inode[x]
      <4> DEFINE new == Put(inode, w.id, w.record)
      <4>1. /\ DOMAIN new = DOMAIN inode \cup {w.id} /\ new[w.id] = w.record
            /\ \A x \in DOMAIN inode : x # w.id => new[x] = inode[x]
        BY DEF Put, PutAll
      <4> QED
        BY <3>1, <4>1, Zenon
    <3>3. Exist(w.record.plain.blocks, block)
      <4>1. \A k \in DOMAIN w.record.plain.blocks : StoredBy(c, 1, w.record.plain.blocks[k], block)
        BY <1>1, <1>4, <1>8, <2>1 DEF CallBacked, TodoBacked
      <4>2. 1..(1 - 1) = {}
        OBVIOUS
      <4> QED
        BY <4>1, <4>2 DEF StoredBy, Exist
    <3> QED
      BY <3>1, <3>2, <3>3 DEF BInv, InodesBacked
  <2>2. CASE w.kind # "inode"
    <3>1. inode' = inode
      BY <1>1, <2>2 DEF Write
    <3> QED
      BY <1>7, <3>1 DEF BInv, InodesBacked, Exist, Keeps
  <2> QED
    BY <2>1, <2>2
<1>10. CallBacked(d, block') /\ Loading(d, block')
  <2>1. CallBacked(c, block') /\ Loading(c, block')
    BY <1>7, <1>8, BackedKept
  <2>2. TodoBacked(d, block')
    <3> SUFFICES ASSUME NEW n \in DOMAIN d.todo, d.todo[n].kind = "inode",
                        NEW k \in DOMAIN d.todo[n].record.plain.blocks
                 PROVE  StoredBy(d, n, d.todo[n].record.plain.blocks[k], block')
      BY DEF TodoBacked
    <3> DEFINE b == d.todo[n].record.plain.blocks[k]
    <3>1. n \in Nat \ {0} /\ n + 1 \in DOMAIN c.todo /\ d.todo[n] = c.todo[n + 1]
      BY <1>3, <1>5
    <3>2. StoredBy(c, n + 1, b, block')
      BY <2>1, <3>1 DEF CallBacked, TodoBacked
    <3> HIDE DEF b
    <3>3. ASSUME NEW m \in 1..n, c.todo[m].kind = "block", c.todo[m].id = b, m # 1
          PROVE  \E j \in 1..(n - 1) : d.todo[j].kind = "block" /\ d.todo[j].id = b
      <4>1. m - 1 \in 1..(n - 1) /\ m - 1 \in DOMAIN d.todo
        <5>1. DOMAIN d.todo = 1..(Len(c.todo) - 1) /\ Len(c.todo) \in Nat
          BY <1>1, <1>3
        <5>2. n \in 1..(Len(c.todo) - 1)
          BY <5>1
        <5> QED
          BY <3>3, <5>1, <5>2
      <4>2. d.todo[m - 1] = c.todo[(m - 1) + 1] /\ (m - 1) + 1 = m
        BY <1>3, <1>5, <4>1
      <4> QED
        BY <3>3, <4>1, <4>2
    <3>4. ASSUME c.todo[1].kind = "block", c.todo[1].id = b PROVE b \in DOMAIN block'
      BY <1>1, <1>7, <3>4
    <3>5. b \in DOMAIN block' \/ \E m \in 1..n : c.todo[m].kind = "block" /\ c.todo[m].id = b
      <4>1. (n + 1) - 1 = n
        BY <3>1
      <4> QED
        BY <3>2, <4>1 DEF StoredBy
    <3>6. StoredBy(d, n, b, block')
      BY <3>3, <3>4, <3>5 DEF StoredBy
    <3> QED
      BY <3>6 DEF b
  <2> QED
    BY <1>3, <2>1, <2>2 DEF CallBacked, Loading
<1>11. ASSUME NEW t \in Sessions, InCall(t)'
       PROVE  CallBacked(call'[t], block') /\ Loading(call'[t], block')
  <2>1. CASE t = s
    BY <1>1, <1>2, <1>10, <1>11, <2>1 DEF InCall
  <2>2. CASE t # s
    <3>1. call'[t] = call[t] /\ InCall(t)
      BY <1>1, <1>2, <1>11, <2>2 DEF InCall
    <3>2. CallBacked(call[t], block) /\ Loading(call[t], block)
      BY <3>1 DEF BInv
    <3> QED
      BY <1>7, <3>1, <3>2, BackedKept
  <2> QED
    BY <2>1, <2>2
<1> QED
  BY <1>7, <1>9, <1>11 DEF BInv

(* The set-up of the runs is well typed: its numbers are numbers, and the  *)
(* records it stores have the fields of their kind.                        *)
LEMMA SetUpNumbers ==
    /\ FirstNumber \in Nat /\ FirstBlock \in Nat /\ FirstInvite \in Nat
    /\ Len(ByteToBlock(FirstContent)) \in Nat
    /\ FirstBlock = FirstNumber + 4
    /\ FirstInvite = FirstBlock + Len(ByteToBlock(FirstContent))
    /\ FirstNode \in MailboxNode /\ FirstNode.inode = FirstNumber + 1
    /\ FirstNode.fileKey = FirstNumber
    /\ \A n \in Nat \ {0} : BoxOf(n) \in Pointer
    /\ \A n \in Nat \ {0, 1} : InviteOf(n) \in Nat
<1>1. Len(Circle) \in Nat /\ Len(ByteToBlock(FirstContent)) \in Nat
  BY CircleAssumption, Chunks
<1>2. FirstNumber \in Nat
  BY <1>1 DEF FirstNumber
<1>3. FirstBlock \in Nat /\ FirstBlock = FirstNumber + 4
  BY <1>2 DEF FirstBlock
<1>4. FirstInvite \in Nat /\ FirstInvite = FirstBlock + Len(ByteToBlock(FirstContent))
  BY <1>1, <1>3 DEF FirstInvite
<1>5. /\ FirstNode \in MailboxNode /\ FirstNode.inode = FirstNumber + 1
      /\ FirstNode.fileKey = FirstNumber
  BY <1>2 DEF FirstNode, MailboxNode
<1>6. ASSUME NEW n \in Nat \ {0} PROVE BoxOf(n) \in Pointer
  BY <1>2, <1>4, <1>6 DEF BoxOf, Pointer
<1>7. ASSUME NEW n \in Nat \ {0, 1} PROVE InviteOf(n) \in Nat
  BY <1>4, <1>7 DEF InviteOf
<1> QED
  BY <1>1, <1>2, <1>3, <1>4, <1>5, <1>6, <1>7

LEMMA PositionType ==
    ASSUME NEW u \in Range(Circle)
    PROVE  Position(u) \in Nat \ {0} /\ Position(u) \in DOMAIN Circle
           /\ Circle[Position(u)] = u /\ u \in Users
<1>1. \E n \in DOMAIN Circle : Circle[n] = u
  BY DEF Range
<1>2. Position(u) \in DOMAIN Circle /\ Circle[Position(u)] = u
  BY <1>1 DEF Position
<1>3. Circle \in Seq(Users)
  BY CircleAssumption
<1> QED
  BY <1>2, <1>3

LEMMA SetUpType ==
    ASSUME SetUp
    PROVE  TypeOK
<1> DEFINE chunks == ByteToBlock(FirstContent)
<1>0. /\ FirstContent \in Seq(Bytes) /\ Password \in Passwords /\ FileName \in Filenames
      /\ Shared \in Nat \ {0} /\ Circle \in Seq(Users)
  BY CircleAssumption
<1>1. ASSUME NEW u \in Range(Circle)
      PROVE  UserOf(u) \in User /\ <<u, Password>> \in MasterKeys
  <2>1. Position(u) \in Nat \ {0} /\ u \in Users
    BY <1>1, PositionType
  <2>2. 2 * Position(u) - 1 \in Nat /\ 2 * Position(u) \in Nat
    BY <2>1
  <2>3. <<u, Password>> \in MasterKeys
    BY <1>0, <2>1 DEF MasterKeys
  <2>4. (IF HasFile(u) THEN {FileName} ELSE {}) \in SUBSET Filenames
    BY <1>0
  <2> QED
    BY <2>1, <2>2, <2>3, <2>4 DEF UserOf, User
<1>2. accounts \in [Users -> Sealed({"user"} \X MasterKeys, User) \cup {Absent}]
  <2>1. ASSUME NEW u \in Range(Circle)
        PROVE  encryptAndMAC(UserOf(u), getUserKeys(<<u, Password>>)) \in AccountRecords
    <3> DEFINE m == <<u, Password>>
    <3>1. m \in MasterKeys /\ UserOf(u) \in User
      BY <1>1, <2>1
    <3> HIDE DEF m
    <3>2. encryptAndMAC(UserOf(u), getUserKeys(m)) \in AccountRecords
      BY <3>1 DEF encryptAndMAC, getUserKeys, AccountRecords, Sealed
    <3> QED
      BY <3>2 DEF m
  <2>2. accounts = [u \in Users |-> IF u \in Range(Circle)
                                    THEN encryptAndMAC(UserOf(u), getUserKeys(<<u, Password>>))
                                    ELSE Absent]
    BY DEF SetUp
  <2> QED
    BY <2>1, <2>2, Zenon DEF AccountRecords
<1>3. keystore \in [Users -> PublicKeys \cup {Absent}]
  <2>1. ASSUME NEW u \in Range(Circle)
        PROVE  [enc |-> 2 * Position(u) - 1, sig |-> 2 * Position(u)] \in PublicKeys
    BY <2>1, PositionType DEF PublicKeys
  <2>2. keystore = [u \in Users |-> IF u \in Range(Circle)
                        THEN [enc |-> 2 * Position(u) - 1, sig |-> 2 * Position(u)] ELSE Absent]
    BY DEF SetUp
  <2> QED
    BY <2>1, <2>2, Zenon
<1>4. access \in [Slots -> Sealed({"personal"} \X MasterKeys \X Filenames, Access)
                                \cup {Absent}]
  <2>1. ASSUME NEW u, HasFile(u) PROVE AccessAtFirst(u) \in Access
    <3>1. u \in Range(Circle) /\ BoxOf(Position(u)) \in Pointer
      BY <2>1, PositionType, SetUpNumbers DEF HasFile
    <3>2. \A v \in Users : HasFile(v) => BoxOf(Position(v)) \in Pointer
      BY PositionType, SetUpNumbers DEF HasFile
    <3> DEFINE kids == [v \in Users |-> IF u = Circle[1] /\ v # u /\ HasFile(v)
                                        THEN BoxOf(Position(v)) ELSE Absent]
    <3>3. kids \in Children
      BY <3>2 DEF Children
    <3>4. AccessAtFirst(u) = [box |-> BoxOf(Position(u)), children |-> kids]
      BY DEF AccessAtFirst
    <3> HIDE DEF kids
    <3> QED
      BY <3>1, <3>3, <3>4 DEF Access
  <2>2. ASSUME NEW u, HasFile(u)
        PROVE  encryptAndMAC(AccessAtFirst(u), getPersonalKey(<<u, Password>>, FileName))
                   \in AccessRecords
    <3> DEFINE m == <<u, Password>>
    <3>1. m \in MasterKeys /\ AccessAtFirst(u) \in Access
      BY <1>1, <2>1, <2>2 DEF HasFile
    <3> HIDE DEF m
    <3>2. encryptAndMAC(AccessAtFirst(u), getPersonalKey(m, FileName)) \in AccessRecords
      BY <1>0, <3>1 DEF encryptAndMAC, getPersonalKey, AccessRecords, Sealed
    <3> QED
      BY <3>2 DEF m
  <2>3. access = [x \in Slots |->
               IF x[2] = FileName /\ HasFile(x[1])
               THEN encryptAndMAC(AccessAtFirst(x[1]),
                                  getPersonalKey(<<x[1], Password>>, FileName))
               ELSE Absent]
    BY DEF SetUp
  <2> QED
    BY <2>2, <2>3, Zenon DEF AccessRecords
<1>5. IsStore(mailbox, MailboxRecords)
  <2> DEFINE boxes == {BoxOf(n) : n \in 1..Shared}
             ids   == {BoxOf(n).uuid : n \in 1..Shared}
             box(m) == CHOOSE p \in boxes : p.uuid = m
  <2>1. \A p \in boxes : p \in Pointer
    BY <1>0, SetUpNumbers
  <2>2. ASSUME NEW m \in ids PROVE m \in Nat /\ box(m) \in Pointer
    <3>1. \E p \in boxes : p.uuid = m
      BY <2>2
    <3>2. box(m) \in boxes /\ box(m).uuid = m
      BY <3>1
    <3> QED
      BY <2>1, <3>2 DEF Pointer
  <2>3. mailbox = [m \in ids |-> encryptAndMAC(FirstNode, getMailKeys(box(m).key))]
    BY DEF SetUp
  <2> HIDE DEF ids, boxes
  <2>4. ASSUME NEW m \in ids
        PROVE  encryptAndMAC(FirstNode, getMailKeys(box(m).key)) \in MailboxRecords
    <3> DEFINE k == box(m).key
    <3>1. k \in Nat
      BY <2>2, <2>4 DEF Pointer
    <3> HIDE DEF k
    <3>2. encryptAndMAC(FirstNode, getMailKeys(k)) \in MailboxRecords
      BY <3>1, SetUpNumbers DEF encryptAndMAC, getMailKeys, MailboxRecords, Sealed
    <3> QED
      BY <3>2 DEF k
  <2> HIDE DEF box
  <2>5. DOMAIN mailbox = ids /\ \A m \in ids : mailbox[m] \in MailboxRecords
    BY <2>3, <2>4
  <2> QED
    BY <2>2, <2>5 DEF IsStore
<1>6. BlockUUIDs(chunks, FirstBlock) \in Seq(Nat) /\ IsStore(block, BlockRecords)
  <2>1. block = NewBlocks(chunks, FirstNode.fileKey, FirstBlock)
    BY DEF SetUp
  <2>2. FirstNode.fileKey \in Nat
    BY SetUpNumbers DEF MailboxNode
  <2> QED
    BY <1>0, <2>1, <2>2, NewBlocksOf, SetUpNumbers
<1>7. IsStore(inode, InodeRecords)
  <2> DEFINE file == [size |-> Len(FirstContent), blocks |-> BlockUUIDs(chunks, FirstBlock)]
  <2>1. inode = [i \in {FirstNode.inode} |-> encryptAndMAC(file, getFileKeys(FirstNode.fileKey))]
    BY DEF SetUp
  <2>2. file \in Inode /\ FirstNode.inode \in Nat /\ FirstNode.fileKey \in Nat
    BY <1>0, <1>6, SetUpNumbers, LenProperties DEF Inode, MailboxNode
  <2> HIDE DEF file
  <2>3. encryptAndMAC(file, getFileKeys(FirstNode.fileKey)) \in InodeRecords
    BY <2>2 DEF encryptAndMAC, getFileKeys, InodeRecords, Sealed
  <2> QED
    BY <2>1, <2>2, <2>3 DEF IsStore
<1>8. IsStore(invitation, Invitation)
  <2> DEFINE ids == {InviteOf(n) : n \in 2..Shared}
             nth(i) == CHOOSE k \in 2..Shared : InviteOf(k) = i
  <2>1. ASSUME NEW i \in ids PROVE i \in Nat /\ nth(i) \in 2..Shared
    <3>1. \E k \in 2..Shared : InviteOf(k) = i
      BY <2>1
    <3>2. nth(i) \in 2..Shared /\ InviteOf(nth(i)) = i
      BY <3>1
    <3> HIDE DEF nth
    <3>3. nth(i) \in Nat \ {0, 1}
      BY <1>0, <3>2
    <3> QED
      BY <3>2, <3>3, SetUpNumbers
  <2>2. invitation = [i \in ids |-> [enc |-> 2 * nth(i) - 1, sig |-> 2, box |-> BoxOf(nth(i))]]
    BY DEF SetUp
  <2> HIDE DEF ids, nth
  <2>3. ASSUME NEW i \in ids
        PROVE  [enc |-> 2 * nth(i) - 1, sig |-> 2, box |-> BoxOf(nth(i))] \in Invitation
    <3>1. nth(i) \in Nat \ {0} /\ 2 * nth(i) - 1 \in Nat
      BY <1>0, <2>1, <2>3
    <3> QED
      BY <3>1, SetUpNumbers DEF Invitation
  <2> QED
    BY <2>1, <2>2, <2>3 DEF IsStore
<1>9. sessions \in [Sessions -> User \cup {Absent}]
  <2>1. PICK who \in Logins : sessions = [s \in Sessions |-> UserOf(who[s])]
    BY DEF SetUp
  <2>2. \A s \in Sessions : who[s] \in Range(Circle)
    BY CircleAssumption
  <2> QED
    BY <1>1, <2>1, <2>2
<1>10. fresh \in Nat
  BY <1>0, SetUpNumbers DEF SetUp
<1> QED
  BY <1>2, <1>3, <1>4, <1>5, <1>6, <1>7, <1>8, <1>9, <1>10
     DEF TypeOK, MailboxRecords, BlockRecords, InodeRecords

LEMMA ClientsStart ==
    ASSUME ClientsInit
    PROVE  CTypeOK /\ BInv
<1> DEFINE chunks == ByteToBlock(FirstContent)
           ids    == BlockUUIDs(chunks, FirstBlock)
<1>1. TypeOK
  BY SetUpType DEF ClientsInit
<1>2. \A s \in Sessions : ~InCall(s)
  BY DEF ClientsInit, InCall
<1>3. CTypeOK
  BY <1>1, <1>2 DEF CTypeOK, CallsFit, ClientsInit
<1>4. Queued = {}
  BY <1>2 DEF Queued
<1>5. /\ block = NewBlocks(chunks, FirstNode.fileKey, FirstBlock)
      /\ fresh = FirstInvite + 3 * (Shared - 1)
  BY DEF ClientsInit, SetUp
<1>6. DOMAIN block = FirstBlock..(FirstInvite - 1)
  BY <1>5, SetUpNumbers DEF NewBlocks
<1>7. \A b \in DOMAIN block : b < fresh
  BY <1>5, <1>6, SetUpNumbers, CircleAssumption
<1>8. InodesBacked
  <2> DEFINE file == [size |-> Len(FirstContent), blocks |-> ids]
  <2>1. inode = [i \in {FirstNode.inode} |-> encryptAndMAC(file, getFileKeys(FirstNode.fileKey))]
    BY DEF ClientsInit, SetUp
  <2>2. file.blocks = ids
    OBVIOUS
  <2> HIDE DEF file
  <2>3. \A i \in DOMAIN inode : inode[i].plain = file
    BY <2>1 DEF encryptAndMAC
  <2>4. DOMAIN ids = 1..Len(chunks) /\ \A k \in 1..Len(chunks) : ids[k] = FirstBlock + k - 1
    BY DEF BlockUUIDs
  <2> HIDE DEF ids, chunks
  <2>5. \A k \in DOMAIN ids : ids[k] \in DOMAIN block
    BY <1>6, <2>4, SetUpNumbers DEF chunks
  <2> QED
    BY <2>2, <2>3, <2>5 DEF InodesBacked, Exist
<1> QED
  BY <1>2, <1>3, <1>4, <1>7, <1>8 DEF BInv, BlocksSettled

-----------------------------------------------------------------------------
(* The steps together. *)

LEMMA ClientsTypeStep ==
    ASSUME CTypeOK, NEW s \in Sessions, BeginCall(s) \/ Step(s) \/ Lost(s) \/ Comes(s)
    PROVE  CTypeOK'
<1>1. CASE BeginCall(s)
  <2>1. PICK f \in Filenames :
          \/ BeginOnFile(s, "LoadFile", f, Absent)
          \/ \E content \in Contents : \/ BeginStoreFile(s, f, content)
                                       \/ BeginOnFile(s, "AppendToFile", f, content)
          \/ \E u \in Users, op \in {"CreateInvitation", "RevokeAccess"} :
                 BeginOnFile(s, op, f, u)
          \/ \E u \in Users, ptr \in DOMAIN invitation \cup {0} :
                 BeginAcceptInvitation(s, u, ptr, f)
    BY <1>1 DEF BeginCall
  <2>2. DOMAIN invitation \cup {0} \subseteq Nat
    BY DEF CTypeOK, TypeOK, IsStore
  <2>3. \E c : Goes(s, c) /\ sessions[s] # Absent
    BY <2>1, <2>2, BeginOnFileGoes, BeginStoreGoes, BeginAcceptGoes, Zenon
  <2> QED
    BY <2>3, GoesType
<1>2. ASSUME \/ GetAccess(s) \/ GetMailbox(s) \/ GetInode(s) \/ GetBlock(s)
             \/ Reseal(s) \/ GetChild(s)
             \/ GetRecipientKey(s) \/ GetInvitation(s) \/ GetSenderKey(s)
      PROVE  CTypeOK'
  <2>1. InCall(s)
    BY <1>2, Zenon DEF InCall, At, GetAccess, GetMailbox, GetInode, GetBlock, Reseal, GetChild,
                GetRecipientKey, GetInvitation, GetSenderKey
  <2>2. \E c : Goes(s, c)
    <3>1. CASE GetAccess(s) \/ GetMailbox(s) \/ GetInode(s)
      BY <3>1, GetAccessGoes, GetMailboxGoes, GetInodeGoes, Zenon DEF GoesOn
    <3>2. CASE GetBlock(s) \/ Reseal(s) \/ GetChild(s)
      BY <3>2, GetBlockGoes, ResealGoes, GetChildGoes, Zenon DEF GoesOn
    <3>3. CASE GetRecipientKey(s) \/ GetInvitation(s) \/ GetSenderKey(s)
      BY <3>3, GetRecipientKeyGoes, GetInvitationGoes, GetSenderKeyGoes, Zenon DEF GoesOn
    <3> QED
      BY <1>2, <3>1, <3>2, <3>3
  <2> QED
    BY <2>1, <2>2, GoesType
<1>3. CASE SetNext(s)
  BY <1>3, SetNextGoes
<1>4. CASE Lost(s)
  BY <1>4, LostGoes, GoesType
<1>5. CASE Comes(s)
  BY <1>5, ComesType
<1> QED
  BY <1>1, <1>2, <1>3, <1>4, <1>5 DEF Step

LEMMA PlainReadsBlocks ==
    ASSUME CTypeOK, BInv, NEW s \in Sessions,
           \/ GetAccess(s) \/ GetMailbox(s) \/ GetInvitation(s) \/ GetChild(s)
           \/ GetRecipientKey(s) \/ GetSenderKey(s)
    PROVE  BInv'
<1>1. PICK c : Goes(s, c) /\ Plain(c, call[s].op)
  BY PlainReads
<1> QED
  BY <1>1, PlainGo DEF Plain

LEMMA BlocksStep ==
    ASSUME CTypeOK, BInv, NEW s \in Sessions, BeginCall(s) \/ Step(s) \/ Lost(s) \/ Comes(s)
    PROVE  BInv'
<1>1. CASE Lost(s)
  BY <1>1, LostGoes, PlainGo
<1>2. CASE Comes(s)
  <2>1. UNCHANGED <<inode, block, fresh, call>>
    BY <1>2, ComesType DEF datastore, progress
  <2> QED
    BY <2>1 DEF BInv, BlocksSettled, Queued, InCall, InodesBacked
<1> QED
  BY <1>1, <1>2, BeginBlocks, PlainReadsBlocks, GetInodeBlocks, GetBlockBlocks, ResealBlocks,
     SetNextBlocks DEF Step

LEMMA TypeStutter ==
    ASSUME CTypeOK, UNCHANGED <<vars, progress>>
    PROVE  CTypeOK'
<1>1. UNCHANGED <<accounts, keystore, access, mailbox, inode, block, invitation, sessions,
                  fresh, call>>
  BY DEF vars, progress
<1>2. TypeOK'
  BY <1>1 DEF CTypeOK, TypeOK
<1>3. CallsFit'
  BY <1>1 DEF CTypeOK, CallsFit, InCall, OpFits, Has
<1> QED
  BY <1>2, <1>3 DEF CTypeOK

LEMMA ClientsStutter ==
    ASSUME BInv, UNCHANGED <<vars, progress>>
    PROVE  BInv'
<1>1. UNCHANGED <<inode, block, fresh, call>>
  BY DEF vars, progress
<1> QED
  BY <1>1 DEF BInv, BlocksSettled, Queued, InCall, InodesBacked

LEMMA RefusedType ==
    ASSUME CTypeOK, NEW s \in Sessions, RefusedSet(s)
    PROVE  CTypeOK'
<1> DEFINE c == call[s]
           w == Head(c.todo)
           d == [c EXCEPT !.todo = Tail(@)]
<1>1. InCall(s) /\ c.todo # <<>> /\ SetDone(s) /\ UNCHANGED <<datastore, keystore, fresh>>
  BY DEF RefusedSet, InCall, SetDone
<1>2. w \in Writes /\ Fits(d) /\ sessions \in [Sessions -> User \cup {Absent}]
  BY <1>1, QueueType
<1>3. /\ \A t \in Sessions : t # s => sessions'[t] = sessions[t]
      /\ sessions'[s] \in User /\ sessions' \in [Sessions -> User \cup {Absent}]
  BY <1>1, DoneSessions
<1>4. TypeOK'
  BY <1>1, <1>3 DEF CTypeOK, TypeOK, datastore
<1>5. call' = [call EXCEPT ![s] = Absent] \/ call' = [call EXCEPT ![s] = d]
  BY <1>1 DEF SetDone, Returns, Continue
<1> HIDE DEF d
<1>6. sessions'[s] # Absent
  BY <1>3, AbsentAssumption
<1>7. CallsFit'
  BY <1>2, <1>3, <1>5, <1>6, Moved DEF CTypeOK
<1> QED
  BY <1>4, <1>7 DEF CTypeOK

(* Every Set that was answered has been applied. *)
Heeded == refused = {}

(* A step is one of a session, a refused Set, or changes nothing but who   *)
(* is alive.                                                               *)
LEMMA NextIs ==
    ASSUME [ClientsNext]_allVars
    PROVE  /\ \/ \E s \in Sessions : BeginCall(s) \/ Step(s) \/ Lost(s) \/ Comes(s)
              \/ \E s \in Sessions : RefusedSet(s)
              \/ UNCHANGED <<vars, progress>>
           /\ Heeded' => /\ Heeded
                         /\ \/ \E s \in Sessions : BeginCall(s) \/ Step(s) \/ Lost(s) \/ Comes(s)
                            \/ UNCHANGED <<vars, progress>>
<1>1. CASE UNCHANGED allVars
  BY <1>1 DEF allVars, clients, Heeded
<1>2. CASE ClientsNext
  <2>1. PICK s \in Sessions :
          \/ /\ client[s] = "alive"
             /\ BeginCall(s) \/ Step(s) \/ Login(s)
             /\ UNCHANGED clients
          \/ RefusedSet(s)
          \/ Crash(s) \/ CrashInSet(s) \/ LateSet(s) \/ Gone(s)
    BY <1>2, Zenon DEF ClientsNext
  <2>2. CASE (BeginCall(s) \/ Step(s) \/ Login(s)) /\ UNCHANGED clients
    BY <2>2 DEF Comes, clients, Heeded
  <2>3. CASE RefusedSet(s)
    BY <2>3 DEF RefusedSet, Heeded
  <2>4. CASE Crash(s)
    BY <2>4 DEF Crash, Heeded
  <2>5. CASE CrashInSet(s)
    BY <2>5 DEF CrashInSet, Heeded
  <2>6. CASE LateSet(s)
    BY <2>6 DEF LateSet, Step, Heeded
  <2>7. CASE Gone(s)
    BY <2>7 DEF Gone, Comes, Heeded
  <2> QED
    BY <2>1, <2>2, <2>3, <2>4, <2>5, <2>6, <2>7
<1> QED
  BY <1>1, <1>2

(* What all steps of all clients preserve: calls and records are well      *)
(* typed and, unless a Set was refused, a block number has one content for *)
(* good, and an inode is stored after the blocks that it names, although   *)
(* clients die and their Sets arrive later.                                *)
THEOREM ClientsInductive == ClientsSpec => [](CTypeOK /\ (Heeded => BInv))
<1>1. ClientsInit => CTypeOK /\ BInv
  BY ClientsStart
<1>2. CTypeOK /\ (Heeded => BInv) /\ [ClientsNext]_allVars => (CTypeOK /\ (Heeded => BInv))'
  <2> SUFFICES ASSUME CTypeOK, Heeded => BInv, [ClientsNext]_allVars
               PROVE  CTypeOK' /\ (Heeded' => BInv')
    OBVIOUS
  <2>1. CTypeOK'
    BY NextIs, ClientsTypeStep, TypeStutter, RefusedType
  <2>2. Heeded' => BInv'
    BY NextIs, BlocksStep, ClientsStutter
  <2> QED
    BY <2>1, <2>2
<1> QED
  BY <1>1, <1>2, PTL DEF ClientsSpec

LEMMA LoadedAll ==
    ASSUME CTypeOK, BInv, NEW s \in Sessions, At(s, "block"), call[s].left = <<>>
    PROVE  call[s].got = call[s].saw
<1> DEFINE got == call[s].got
           rest == FlattenSeq(ReadsOf(call[s].left, block))
<1>1. InCall(s) /\ call[s].at = "block"
  BY DEF At, InCall
<1>2. got \in Seq(Bytes)
  BY <1>1, CallType DEF Fits, Calls
<1>3. call[s].saw = got \o rest
  BY <1>1 DEF BInv, Loading
<1>4. ReadsOf(<<>>, block) = <<>>
  BY DEF ReadsOf
<1>5. rest = <<>>
  BY <1>4, FlattenEmpty
<1> HIDE DEF rest
<1>6. got \o <<>> = got
  BY <1>2, ConcatEmptySeq
<1> QED
  BY <1>3, <1>5, <1>6

(* LoadsAreSnapshots for any number of users, sessions, files and calls,   *)
(* unless the server refused a Set: LoadFile (service.go) returns what the *)
(* file held when its inode was read, whatever appends, revocations,       *)
(* deaths and late Sets happened while it fetched the blocks, because a    *)
(* block once named by an inode is stored and never gets another content.  *)
THEOREM LoadsSeeOneVersion == ClientsSpec => [](Heeded => LoadsAreSnapshots)
<1>1. CTypeOK /\ BInv => LoadsAreSnapshots
  BY LoadedAll DEF LoadsAreSnapshots
<1> QED
  BY <1>1, ClientsInductive, PTL

-----------------------------------------------------------------------------
(* Sizes.  AppendsKept is not inductive: an inode in flight must cover    *)
(* what is due as well, and nobody else may be about to write it back.     *)

(* Methods in progress at the same time are recorded as overlapping.       *)
Overlaps ==
    \A s, t \in Sessions : s # t /\ InCall(s) /\ InCall(t) =>
        {call[s].op, call[t].op} \in mixed

NoLostUpdate == ~Overlapped({"AppendToFile"}, {"AppendToFile", "RevokeAccess"})

(* Which inode a method writes and when, nodes being the inodes there are: *)
(* StoreFile a new one before its last write, AppendToFile with its last   *)
(* write, RevokeAccess the one it has read; the others none.               *)
StoresInode(c, nodes) ==
    /\ c.op = "StoreFile" =>
           /\ c.todo # <<>>
           /\ \A n \in DOMAIN c.todo : c.todo[n].kind = "inode" =>
                  /\ c.todo[n].id = c.node.inode
                  /\ c.todo[n].record.plain.size = Len(c.arg)
                  /\ n # Len(c.todo)
                  /\ \A m \in DOMAIN c.todo : c.todo[m].kind = "inode" => m = n
           /\ c.node.inode \in DOMAIN nodes <=> \A n \in DOMAIN c.todo : c.todo[n].kind # "inode"
    /\ c.op = "AppendToFile" /\ c.at = "return" =>
           /\ c.todo # <<>> /\ c.node.inode \in DOMAIN nodes
           /\ \A n \in DOMAIN c.todo : c.todo[n].kind = "inode" <=> n = Len(c.todo)
           /\ c.todo[Len(c.todo)].id = c.node.inode
    /\ c.op = "RevokeAccess" =>
           /\ c.at = "reseal" => c.node.inode \in DOMAIN nodes
           /\ \A n \in DOMAIN c.todo : c.todo[n].kind = "inode" =>
                  c.todo[n].id = c.node.inode /\ c.node.inode \in DOMAIN nodes
    /\ c.op \notin {"StoreFile", "RevokeAccess"} /\ ~(c.op = "AppendToFile" /\ c.at = "return")
           => \A n \in DOMAIN c.todo : c.todo[n].kind # "inode"

OwnInodes ==
    /\ \A i \in DOMAIN inode : i < fresh
    /\ DOMAIN due \subseteq DOMAIN inode
    /\ \A s \in Sessions : InCall(s) =>
           /\ StoresInode(call[s], inode)
           /\ call[s].op = "StoreFile" =>
                  call[s].node.inode < fresh /\ call[s].node.inode \notin DOMAIN due
    /\ \A s, t \in Sessions :
           s # t /\ InCall(s) /\ InCall(t) /\ call[s].op = "StoreFile" /\ call[t].op = "StoreFile"
               => call[s].node.inode # call[t].node.inode

(* size covers the bytes that finished calls have put into inode i, and    *)
(* those of the StoreFile that is making it.                               *)
Meets(i, size, dues, cs) ==
    /\ i \in DOMAIN dues => dues[i] <= size
    /\ \A s \in Sessions :
           cs[s] # Absent /\ cs[s].op = "StoreFile" /\ cs[s].node.inode = i
               => Len(cs[s].arg) <= size

(* So do the inodes that a method has read and will write back.            *)
CallMeets(c, dues, cs) ==
    /\ c.op = "AppendToFile" /\ c.at = "return" =>
           Meets(c.node.inode, c.todo[Len(c.todo)].record.plain.size - Len(c.arg), dues, cs)
    /\ c.op = "RevokeAccess" =>
           /\ c.at = "reseal" => Meets(c.node.inode, c.file.size, dues, cs)
           /\ \A n \in DOMAIN c.todo : c.todo[n].kind = "inode" =>
                  Meets(c.node.inode, c.todo[n].record.plain.size, dues, cs)

SizesMeet ==
    /\ \A i \in DOMAIN inode : Meets(i, inode[i].plain.size, due, call)
    /\ \A s \in Sessions : InCall(s) => CallMeets(call[s], due, call)

DueOK == \A i \in DOMAIN due : due[i] \in Nat

AInv == Overlaps /\ OwnInodes /\ DueOK /\ (NoLostUpdate => SizesMeet)

LEMMA MeetsLess ==
    ASSUME NEW i, NEW size, NEW dues, NEW s \in Sessions, NEW c, NEW cs,
           cs \in [Sessions -> Calls \cup {Absent}],
           Meets(i, size, dues, cs),
           c # Absent /\ c.op = "StoreFile" /\ c.node.inode = i =>
               /\ cs[s] # Absent /\ cs[s].op = "StoreFile"
               /\ c.node = cs[s].node /\ c.arg = cs[s].arg
    PROVE  Meets(i, size, dues, [cs EXCEPT ![s] = c])
<1> DEFINE new == [cs EXCEPT ![s] = c]
<1>1. ASSUME NEW t \in Sessions, new[t] # Absent, new[t].op = "StoreFile", new[t].node.inode = i
      PROVE  Len(new[t].arg) <= size
  <2>1. CASE t = s
    BY <1>1, <2>1 DEF Meets
  <2>2. CASE t # s
    BY <1>1, <2>2 DEF Meets
  <2> QED
    BY <2>1, <2>2
<1> HIDE DEF new
<1> QED
  BY <1>1 DEF Meets, new

(* A method that has no inode to write. *)
LEMMA EasyCall ==
    ASSUME NEW c, NEW nodes, NEW dues, NEW cs, c.op # "StoreFile", c.at # "reseal",
           c.at = "return" => c.op # "AppendToFile",
           \A n \in DOMAIN c.todo : c.todo[n].kind # "inode"
    PROVE  StoresInode(c, nodes) /\ CallMeets(c, dues, cs)
BY DEF StoresInode, CallMeets

LEMMA StoreNode ==
    ASSUME CTypeOK, NEW s \in Sessions, InCall(s), call[s].op = "StoreFile"
    PROVE  /\ call[s].at = "return" /\ call[s].node \in MailboxNode /\ call[s].node.inode \in Nat
           /\ call[s].arg \in Seq(Bytes) /\ Len(call[s].arg) \in Nat
<1>1. Fits(call[s]) /\ call[s] \in Calls
  BY CallType DEF Fits
<1>2. call[s].at = "return"
  BY <1>1 DEF Fits, OpFits, Calls
<1>3. call[s].node \in MailboxNode /\ call[s].arg \in Contents
  BY <1>1, <1>2 DEF Fits, Has, OpFits
<1> QED
  BY <1>2, <1>3, ContentsAssumption, LenProperties DEF MailboxNode

(* A session's step that writes nothing. *)
LEMMA SizesGo ==
    ASSUME CTypeOK, AInv, NEW s \in Sessions, NEW c, Goes(s, c), due' = due,
           mixed \subseteq mixed',
           c # Absent =>
               /\ c.op # "StoreFile" /\ StoresInode(c, inode)
               /\ \A t \in Sessions : t # s /\ InCall(t) => {c.op, call[t].op} \in mixed'
               /\ NoLostUpdate => CallMeets(c, due, call)
    PROVE  AInv'
<1>0. /\ call' = [call EXCEPT ![s] = c] /\ inode' = inode
      /\ fresh \in Nat /\ fresh' \in Nat /\ fresh <= fresh'
      /\ call \in [Sessions -> Calls \cup {Absent}]
  BY DEF Goes, datastore, CTypeOK, TypeOK, CallsFit
<1>1. DOMAIN inode \subseteq Nat
  BY DEF CTypeOK, TypeOK, IsStore
<1>2. ASSUME NEW t \in Sessions, InCall(t)', t # s PROVE call'[t] = call[t] /\ InCall(t)
  BY <1>0, <1>2 DEF InCall
<1>3. ASSUME InCall(s)' PROVE call'[s] = c /\ c # Absent
  BY <1>0, <1>3 DEF InCall
<1>4. Overlaps'
  <2> SUFFICES ASSUME NEW x \in Sessions, NEW t \in Sessions, x # t, InCall(x)', InCall(t)'
               PROVE  {call'[x].op, call'[t].op} \in mixed'
    BY DEF Overlaps
  <2>1. CASE x # s /\ t # s
    BY <1>2, <2>1 DEF AInv, Overlaps
  <2>2. CASE x = s
    BY <1>2, <1>3, <2>2
  <2>3. CASE t = s
    <3>1. {call'[t].op, call'[x].op} \in mixed'
      BY <1>2, <1>3, <2>3
    <3>2. {call'[t].op, call'[x].op} = {call'[x].op, call'[t].op}
      OBVIOUS
    <3> QED
      BY <3>1, <3>2
  <2> QED
    BY <2>1, <2>2, <2>3
<1>5. OwnInodes'
  <2>1. \A i \in DOMAIN inode' : i < fresh'
    BY <1>0, <1>1 DEF AInv, OwnInodes
  <2>2. DOMAIN due' \subseteq DOMAIN inode'
    BY <1>0 DEF AInv, OwnInodes
  <2>3. ASSUME NEW t \in Sessions, InCall(t)'
        PROVE  /\ StoresInode(call'[t], inode')
               /\ call'[t].op = "StoreFile" =>
                      call'[t].node.inode < fresh' /\ call'[t].node.inode \notin DOMAIN due'
    <3>1. CASE t = s
      BY <1>0, <1>3, <2>3, <3>1
    <3>2. CASE t # s
      <4>1. call'[t] = call[t] /\ InCall(t)
        BY <1>2, <2>3, <3>2
      <4>2. StoresInode(call[t], inode)
        BY <4>1 DEF AInv, OwnInodes
      <4>3. ASSUME call[t].op = "StoreFile"
            PROVE  call[t].node.inode < fresh' /\ call[t].node.inode \notin DOMAIN due'
        <5>1. call[t].node.inode < fresh /\ call[t].node.inode \notin DOMAIN due
          BY <4>1, <4>3 DEF AInv, OwnInodes
        <5>2. call[t].node.inode \in Nat
          BY <4>1, <4>3, StoreNode
        <5> QED
          BY <1>0, <5>1, <5>2
      <4> QED
        BY <1>0, <4>1, <4>2, <4>3
    <3> QED
      BY <3>1, <3>2
  <2>4. ASSUME NEW x \in Sessions, NEW t \in Sessions, x # t, InCall(x)', InCall(t)',
               call'[x].op = "StoreFile", call'[t].op = "StoreFile"
        PROVE  call'[x].node.inode # call'[t].node.inode
    <3>1. x # s /\ t # s
      BY <1>3, <2>4
    <3> QED
      BY <1>2, <2>4, <3>1 DEF AInv, OwnInodes
  <2> QED
    BY <2>1, <2>2, <2>3, <2>4 DEF OwnInodes
<1>6. ASSUME NoLostUpdate' PROVE SizesMeet'
  <2>1. NoLostUpdate
    BY <1>6 DEF NoLostUpdate, Overlapped
  <2>2. SizesMeet
    BY <2>1 DEF AInv
  <2>3. ASSUME NEW i, NEW size, Meets(i, size, due, call) PROVE Meets(i, size, due', call')
    BY <1>0, <2>3, MeetsLess
  <2>4. \A i \in DOMAIN inode' : Meets(i, inode'[i].plain.size, due', call')
    BY <1>0, <2>2, <2>3 DEF SizesMeet
  <2>5. ASSUME NEW d, CallMeets(d, due, call) PROVE CallMeets(d, due', call')
    BY <2>3, <2>5 DEF CallMeets
  <2>6. ASSUME NEW t \in Sessions, InCall(t)' PROVE CallMeets(call'[t], due', call')
    <3>1. CASE t = s
      BY <1>3, <2>1, <2>5, <2>6, <3>1
    <3>2. CASE t # s
      BY <1>2, <2>2, <2>5, <2>6, <3>2 DEF SizesMeet
    <3> QED
      BY <3>1, <3>2
  <2> QED
    BY <2>4, <2>6 DEF SizesMeet
<1>7. DueOK'
  BY DEF AInv, DueOK
<1> QED
  BY <1>4, <1>5, <1>6, <1>7 DEF AInv

(* A step that reads changes none of the records kept about calls.         *)
LEMMA ReadsHistory ==
    ASSUME CTypeOK, NEW s \in Sessions,
           \/ GetAccess(s) \/ GetMailbox(s) \/ GetInode(s) \/ GetBlock(s)
           \/ Reseal(s) \/ GetChild(s)
           \/ GetRecipientKey(s) \/ GetInvitation(s) \/ GetSenderKey(s)
    PROVE  due' = due /\ mixed' = mixed /\ begun' = begun /\ died' = died
<1>1. ASSUME NEW c, Continue(s, c) PROVE due' = due /\ mixed' = mixed /\ begun' = begun /\ died' = died
  BY <1>1 DEF Continue, history
<1>2. ASSUME Fails(s) PROVE due' = due /\ mixed' = mixed /\ begun' = begun /\ died' = died
  BY <1>2 DEF Fails, history
<1>3. ASSUME GetBlock(s), Returns(s)
      PROVE  due' = due /\ mixed' = mixed /\ begun' = begun /\ died' = died
  <2>1. InCall(s) /\ call[s].at = "block"
    BY <1>3 DEF GetBlock, At, InCall
  <2>2. call[s].op = "LoadFile"
    BY <2>1, CallType DEF Fits, OpFits
  <2> QED
    BY <1>3, <2>2 DEF Returns, history
<1> QED
  BY <1>1, <1>2, <1>3, Zenon DEF GetAccess, GetMailbox, GetInode, GetBlock, Reseal, GetChild,
     GetRecipientKey, GetInvitation, GetSenderKey

LEMMA PlainReadsSizes ==
    ASSUME CTypeOK, AInv, NEW s \in Sessions,
           \/ GetAccess(s) \/ GetMailbox(s) \/ GetInvitation(s) \/ GetChild(s)
           \/ GetRecipientKey(s) \/ GetSenderKey(s)
    PROVE  AInv'
<1>1. PICK c : Goes(s, c) /\ Plain(c, call[s].op)
  BY PlainReads
<1>2. InCall(s)
  BY Zenon DEF InCall, At, GetAccess, GetMailbox, GetChild, GetRecipientKey, GetInvitation, GetSenderKey
<1>3. due' = due /\ mixed' = mixed
  BY ReadsHistory
<1>4. c # Absent => c.op # "StoreFile" /\ StoresInode(c, inode) /\ CallMeets(c, due, call)
  BY <1>1, EasyCall DEF Plain
<1>5. c # Absent => \A t \in Sessions : t # s /\ InCall(t) => {c.op, call[t].op} \in mixed'
  BY <1>1, <1>2, <1>3 DEF Plain, AInv, Overlaps
<1> QED
  BY <1>1, <1>3, <1>4, <1>5, SizesGo

LEMMA GetBlockSizes ==
    ASSUME CTypeOK, AInv, NEW s \in Sessions, GetBlock(s)
    PROVE  AInv'
<1> DEFINE c == call[s]
           x == block[Head(c.left)].plain
           d == [c EXCEPT !.left = Tail(@), !.got = @ \o x]
<1>1. InCall(s) /\ c.at = "block" /\ c.todo = <<>>
  BY DEF GetBlock, At, InCall
<1>2. c \in Calls /\ c.op = "LoadFile"
  BY <1>1, CallType DEF Fits, OpFits
<1>3. d.at = "block" /\ d.op = "LoadFile" /\ d.todo = <<>>
  BY <1>1, <1>2 DEF Calls
<1>4. due' = due /\ mixed' = mixed
  BY ReadsHistory
<1>5. Goes(s, Absent) \/ Goes(s, d)
  BY GetBlockGoes, Zenon DEF GoesOn
<1> HIDE DEF d
<1>6. StoresInode(d, inode) /\ CallMeets(d, due, call)
  BY <1>3, EasyCall
<1>7. \A t \in Sessions : t # s /\ InCall(t) => {d.op, call[t].op} \in mixed'
  BY <1>1, <1>2, <1>3, <1>4 DEF AInv, Overlaps
<1>8. Goes(s, Absent) => AInv'
  BY <1>4, SizesGo
<1> QED
  BY <1>3, <1>4, <1>5, <1>6, <1>7, <1>8, SizesGo

LEMMA GetInodeSizes ==
    ASSUME CTypeOK, AInv, NEW s \in Sessions, GetInode(s)
    PROVE  AInv'
<1> DEFINE c    == call[s]
           file == inode[c.node.inode].plain
<1>1. InCall(s) /\ c.at = "inode" /\ c.todo = <<>>
  BY DEF GetInode, At, InCall
<1>2. Fits(c) /\ c \in Calls /\ fresh \in Nat /\ c.node \in MailboxNode
  BY <1>1, CallType DEF Fits, Has
<1>3. due' = due /\ mixed' = mixed
  BY ReadsHistory
<1>4. Goes(s, Absent) => AInv'
  BY <1>3, SizesGo
<1>5. OpensInode(c.node) => file \in Inode /\ file.size \in Nat /\ c.node.inode \in DOMAIN inode
  BY ReadTypes DEF CTypeOK, Inode, OpensInode
<1>6. \A t \in Sessions : t # s /\ InCall(t) => {c.op, call[t].op} \in mixed'
  BY <1>1, <1>3 DEF AInv, Overlaps
<1>7. OpensInode(c.node) /\ NoLostUpdate => Meets(c.node.inode, file.size, due, call)
  BY <1>5 DEF AInv, SizesMeet
<1>8. CASE OpensInode(c.node) /\ c.op = "LoadFile"
  <2> DEFINE saw == IF Range(file.blocks) \subseteq DOMAIN block
                    THEN FileBytes(c.node.inode) ELSE <<>>
             d   == [c EXCEPT !.at = "block", !.file = file, !.left = file.blocks, !.saw = saw]
  <2>1. Goes(s, d)
    BY <1>8, GetInodeGoes, Zenon DEF GoesOn
  <2> HIDE DEF saw, file
  <2>2. d.at = "block" /\ d.op = c.op /\ d.todo = <<>>
    BY <1>1, <1>2 DEF Calls
  <2> HIDE DEF d
  <2>3. StoresInode(d, inode) /\ CallMeets(d, due, call)
    <3>1. d.op # "StoreFile" /\ d.at # "reseal" /\ d.at # "return"
      BY <1>8, <2>2
    <3>2. \A n \in DOMAIN d.todo : d.todo[n].kind # "inode"
      BY <2>2
    <3> QED
      BY <3>1, <3>2, EasyCall
  <2> QED
    BY <1>3, <1>6, <1>8, <2>1, <2>2, <2>3, SizesGo, Zenon
<1>9. CASE OpensInode(c.node) /\ c.op = "AppendToFile"
  <2> DEFINE ws == AppendWrites(c, file)
             n  == Len(ByteToBlock(c.arg))
             new == Appended(file, c.arg, fresh)
             d  == [c EXCEPT !.at = "return", !.todo = ws]
  <2>0. Goes(s, d)
    BY <1>9, GetInodeGoes, Zenon DEF GoesOn
  <2>1. c.arg \in Contents /\ Len(c.arg) \in Nat
    BY <1>2, <1>9, ContentsAssumption, LenProperties DEF Fits, OpFits
  <2>2. /\ n \in Nat /\ ws \in Seq(Writes) /\ Len(ws) = n + 1
        /\ \A k \in 1..n : ws[k].kind = "block"
        /\ ws[n + 1].kind = "inode" /\ ws[n + 1].id = c.node.inode
        /\ ws[n + 1].record.plain = new
    <3> DEFINE r == [key |-> <<"file", c.node.fileKey>>, plain |-> new]
    <3>1. /\ n \in Nat /\ ws \in Seq(Writes) /\ Len(ws) = n + 1
          /\ \A k \in 1..n : ws[k].kind = "block"
          /\ ws[n + 1] = [kind |-> "inode", id |-> c.node.inode, record |-> r]
      BY <1>2, <1>5, <1>9, <2>1, AppendWritesAre
    <3>2. r.plain = new
      OBVIOUS
    <3> HIDE DEF r, ws, n, new
    <3>3. ws[n + 1].kind = "inode" /\ ws[n + 1].id = c.node.inode /\ ws[n + 1].record = r
      BY <3>1
    <3> QED
      BY <3>1, <3>2, <3>3
  <2>3. new.size - Len(c.arg) = file.size
    BY <1>5, <1>9, <2>1 DEF Appended
  <2> HIDE DEF ws, n, new, file
  <2>4. d.at = "return" /\ d.todo = ws /\ d.op = c.op /\ d.node = c.node /\ d.arg = c.arg
    BY <1>2 DEF Calls
  <2> HIDE DEF d
  <2>5. Len(d.todo) = n + 1 /\ d.todo # <<>>
    BY <2>2, <2>4
  <2>6. \A k \in DOMAIN d.todo : d.todo[k].kind = "inode" <=> k = Len(d.todo)
    BY <2>2, <2>4, <2>5
  <2>7. StoresInode(d, inode)
    BY <1>5, <1>9, <2>2, <2>4, <2>5, <2>6 DEF StoresInode
  <2>8. NoLostUpdate => CallMeets(d, due, call)
    BY <1>7, <1>9, <2>2, <2>3, <2>4, <2>5 DEF CallMeets
  <2> QED
    BY <1>3, <1>6, <1>9, <2>0, <2>4, <2>7, <2>8, SizesGo, Zenon
<1>10. CASE OpensInode(c.node) /\ c.op = "RevokeAccess"
  <2> DEFINE box == [uuid |-> fresh + 2, key |-> fresh + 1]
             d   == [c EXCEPT !.at = "reseal", !.file = file, !.left = file.blocks,
                              !.key = fresh, !.box = box]
  <2>1. Goes(s, d)
    BY <1>10, GetInodeGoes, Zenon DEF GoesOn
  <2> HIDE DEF file, box
  <2>2. d.at = "reseal" /\ d.file = file /\ d.todo = <<>> /\ d.op = c.op /\ d.node = c.node
    BY <1>1, <1>2 DEF Calls
  <2> HIDE DEF d
  <2>3. StoresInode(d, inode)
    BY <1>5, <1>10, <2>2 DEF StoresInode
  <2>4. NoLostUpdate => CallMeets(d, due, call)
    BY <1>7, <1>10, <2>2 DEF CallMeets
  <2> QED
    BY <1>3, <1>6, <1>10, <2>1, <2>2, <2>3, <2>4, SizesGo, Zenon
<1> QED
  BY <1>4, <1>8, <1>9, <1>10, GetInodeGoes, Zenon DEF GoesOn

LEMMA ResealSizes ==
    ASSUME CTypeOK, AInv, NEW s \in Sessions, Reseal(s)
    PROVE  AInv'
<1> DEFINE c == call[s]
           b == Head(c.left)
           w == Set("block", b, encryptAndMAC(block[b].plain, getFileKeys(c.key)))
           d == [c EXCEPT !.left = Tail(@), !.todo = <<w>>]
           ks == {u \in Users \ {c.arg} : c.acc.children[u] # Absent}
           node == [c.node EXCEPT !.fileKey = c.key]
           w1 == SetInode(node, c.file)
           w2 == SetMailbox(c.box, node)
           e == [c EXCEPT !.at = "child", !.kids = ks, !.todo = <<w1, w2>>]
<1>1. InCall(s) /\ c.at = "reseal" /\ c.todo = <<>>
  BY DEF Reseal, At, InCall
<1>2. Fits(c) /\ c \in Calls /\ c.op = "RevokeAccess" /\ c.node \in MailboxNode
      /\ c.file \in Inode /\ c.box \in Pointer /\ c.key \in Nat
  BY <1>1, CallType DEF Fits, Has, OpFits, Calls
<1>3. due' = due /\ mixed' = mixed
  BY ReadsHistory
<1>4. Goes(s, Absent) => AInv'
  BY <1>3, SizesGo
<1>5. \A t \in Sessions : t # s /\ InCall(t) => {c.op, call[t].op} \in mixed'
  BY <1>1, <1>3 DEF AInv, Overlaps
<1>6. c.node.inode \in DOMAIN inode
  BY <1>1, <1>2 DEF AInv, OwnInodes, StoresInode
<1>7. NoLostUpdate => Meets(c.node.inode, c.file.size, due, call)
  BY <1>1, <1>2 DEF AInv, SizesMeet, CallMeets
<1>8. Goes(s, Absent) \/ Goes(s, d) \/ Goes(s, e)
  BY ResealGoes, Zenon DEF RevokeWrites, GoesOn
<1>9. CASE Goes(s, d)
  <2>1. w.kind = "block"
    BY DEF Set
  <2>2. Goes(s, d)
    BY <1>9
  <2> HIDE DEF w
  <2>3. d.at = "reseal" /\ d.file = c.file /\ d.todo = <<w>> /\ d.op = c.op /\ d.node = c.node
    BY <1>1, <1>2 DEF Calls
  <2> HIDE DEF d
  <2>4. \A n \in DOMAIN d.todo : d.todo[n] = w
    BY <2>3
  <2>5. StoresInode(d, inode)
    BY <1>2, <1>6, <2>1, <2>3, <2>4 DEF StoresInode
  <2>6. NoLostUpdate => CallMeets(d, due, call)
    BY <1>2, <1>7, <2>1, <2>3, <2>4 DEF CallMeets
  <2> QED
    BY <1>2, <1>3, <1>5, <2>2, <2>3, <2>5, <2>6, SizesGo
<1>10. CASE Goes(s, e)
  <2>1. node \in MailboxNode /\ node.inode = c.node.inode
    BY <1>2 DEF MailboxNode
  <2>2. Goes(s, e)
    BY <1>10
  <2> HIDE DEF node
  <2>3. /\ w1.kind = "inode" /\ w1.record.plain = c.file /\ w1.id = c.node.inode
        /\ w2.kind = "mailbox"
    BY <1>2, <2>1, SetInodeType, SetKinds
  <2> HIDE DEF w1, w2, ks
  <2>4. e.at = "child" /\ e.todo = <<w1, w2>> /\ e.op = c.op /\ e.node = c.node
    BY <1>2 DEF Calls
  <2> HIDE DEF e
  <2>5. \A n \in DOMAIN e.todo : e.todo[n] = w1 \/ e.todo[n] = w2
    BY <2>4
  <2>6. StoresInode(e, inode)
    BY <1>2, <1>6, <2>3, <2>4, <2>5 DEF StoresInode
  <2>7. NoLostUpdate => CallMeets(e, due, call)
    BY <1>2, <1>7, <2>3, <2>4, <2>5 DEF CallMeets
  <2> QED
    BY <1>2, <1>3, <1>5, <2>2, <2>4, <2>6, <2>7, SizesGo
<1> QED
  BY <1>4, <1>8, <1>9, <1>10

LEMMA BeginMixes ==
    ASSUME CTypeOK, NEW s \in Sessions, NEW c, Begin(s, c)
    PROVE  /\ due' = due /\ died' = died /\ mixed \subseteq mixed'
           /\ begun' = begun \cup {<<sessions[s].name, c.op>>}
           /\ \A t \in Sessions : InCall(t) => {c.op, call[t].op} \in mixed'
           /\ ~InCall(s)
BY DEF Begin, InCall

LEMMA BeginPlainSizes ==
    ASSUME CTypeOK, AInv, NEW s \in Sessions, NEW c, Begin(s, c), Goes(s, c),
           c.op # "StoreFile", c.at \notin {"reseal", "return"}, c.todo = <<>>
    PROVE  AInv'
<1>1. \A n \in DOMAIN c.todo : c.todo[n].kind # "inode"
  OBVIOUS
<1>2. StoresInode(c, inode) /\ CallMeets(c, due, call)
  BY <1>1, EasyCall
<1> QED
  BY <1>2, BeginMixes, SizesGo

LEMMA BeginStoreSizes ==
    ASSUME CTypeOK, AInv, NEW s \in Sessions, NEW f \in Filenames, NEW content \in Contents,
           BeginStoreFile(s, f, content)
    PROVE  AInv'
<1> DEFINE me == sessions[s]
           n  == Len(ByteToBlock(content))
           ws == StoreFileWrites(me, f, content, StoredNode, StoredBox, fresh + 4)
           bs == BlockWrites(ByteToBlock(content), StoredNode.fileKey, fresh + 4)
           file == [size |-> Len(content), blocks |-> BlockUUIDs(ByteToBlock(content), fresh + 4)]
           acc == [box |-> StoredBox, children |-> NoChildren]
           d  == StoreCall(s, f, content)
<1>1. Goes(s, d) /\ me # Absent /\ fresh' = fresh + 4 + n
  BY BeginStoreGoes
<1>2. me \in User /\ fresh \in Nat /\ fresh + 4 \in Nat /\ content \in Seq(Bytes)
  BY <1>1, ContentsAssumption DEF CTypeOK, TypeOK
<1>3. StoredNode \in MailboxNode /\ StoredBox \in Pointer /\ StoredNode.fileKey \in Nat
      /\ StoredNode.inode = fresh + 1
  BY <1>2 DEF StoredNode, StoredBox, MailboxNode, Pointer
<1>4. /\ n \in Nat /\ acc \in Access /\ file \in Inode
      /\ ws \in Seq(Writes) /\ Len(ws) = n + 4
      /\ ws[1] = SetMailbox(StoredBox, StoredNode) /\ ws[2] = SetAccess(me, f, acc)
      /\ \A k \in 1..n : ws[k + 2] = bs[k]
      /\ ws[n + 3] = SetInode(StoredNode, file) /\ ws[n + 4] = SetUser(me, f)
  BY <1>2, <1>3, StoreFileWritesAre
<1>5. \A k \in 1..n : bs[k].kind = "block"
  <2>1. ASSUME NEW k \in 1..n PROVE bs[k].kind = "block"
    <3> DEFINE r == [key |-> <<"file", StoredNode.fileKey>>, plain |-> ByteToBlock(content)[k]]
    <3>1. bs[k] = [kind |-> "block", id |-> (fresh + 4) + k - 1, record |-> r]
      BY <1>2, <1>3, BlockWritesType
    <3> HIDE DEF r, bs
    <3> QED
      BY <3>1
  <2> QED
    BY <2>1
<1>6. file.size = Len(content)
  OBVIOUS
<1> HIDE DEF file, acc, bs, n
<1>7. /\ ws[1].kind = "mailbox" /\ ws[2].kind = "access" /\ ws[n + 4].kind = "account"
      /\ ws[n + 3].kind = "inode" /\ ws[n + 3].record.plain = file /\ ws[n + 3].id = fresh + 1
  BY <1>3, <1>4, SetKinds, SetInodeType
<1>8. /\ d.at = "return" /\ d.todo = ws /\ d.op = "StoreFile" /\ d.node = StoredNode
      /\ d.arg = content
  BY DEF StoreCall, NewCall
<1>9. Begin(s, d)
  BY DEF BeginStoreFile, StoreCall, StoredNode, StoredBox
<1> HIDE DEF ws, d
<1>10. \A k \in DOMAIN d.todo : d.todo[k].kind = "inode" => k = n + 3
  <2> SUFFICES ASSUME NEW k \in DOMAIN d.todo, k # n + 3 PROVE d.todo[k].kind # "inode"
    OBVIOUS
  <2>1. k \in 1..(n + 4)
    BY <1>4, <1>8
  <2>2. CASE k - 2 \in 1..n
    <3>1. ws[(k - 2) + 2] = bs[k - 2] /\ (k - 2) + 2 = k
      BY <1>4, <2>1, <2>2
    <3> QED
      BY <1>5, <1>8, <2>2, <3>1
  <2>3. CASE k \in {1, 2, n + 4}
    BY <1>7, <1>8, <2>3
  <2> QED
    BY <1>4, <2>1, <2>2, <2>3
<1>11. /\ call' = [call EXCEPT ![s] = d] /\ inode' = inode /\ fresh' \in Nat /\ fresh + 1 < fresh'
       /\ call \in [Sessions -> Calls \cup {Absent}]
  BY <1>1, <1>2, <1>4 DEF Goes, datastore, CTypeOK, CallsFit
<1>12. fresh + 1 \notin DOMAIN inode /\ DOMAIN inode \subseteq Nat /\ fresh + 1 \notin DOMAIN due
  BY <1>2 DEF AInv, OwnInodes, CTypeOK, TypeOK, IsStore
<1>13. StoresInode(d, inode)
  <2>1. d.todo # <<>> /\ n + 3 \in DOMAIN d.todo /\ Len(d.todo) = n + 4 /\ n + 3 # n + 4
    BY <1>4, <1>8
  <2>2. d.node.inode \notin DOMAIN inode /\ d.todo[n + 3].kind = "inode"
    BY <1>3, <1>7, <1>8, <1>12
  <2>3. \A k \in DOMAIN d.todo : d.todo[k].kind = "inode" =>
            /\ d.todo[k].id = d.node.inode /\ d.todo[k].record.plain.size = Len(d.arg)
            /\ k # Len(d.todo)
            /\ \A m \in DOMAIN d.todo : d.todo[m].kind = "inode" => m = k
    BY <1>3, <1>6, <1>7, <1>8, <1>10, <2>1
  <2> QED
    BY <1>8, <2>1, <2>2, <2>3 DEF StoresInode
<1>14. /\ due' = due /\ mixed \subseteq mixed' /\ ~InCall(s)
       /\ \A t \in Sessions : InCall(t) => {d.op, call[t].op} \in mixed'
  BY <1>9, BeginMixes
<1>15. ASSUME NEW t \in Sessions, t # s PROVE call'[t] = call[t] /\ (InCall(t)' <=> InCall(t))
  BY <1>11, <1>15 DEF InCall
<1>16. call'[s] = d
  BY <1>11
<1>17. Overlaps'
  <2> SUFFICES ASSUME NEW x \in Sessions, NEW t \in Sessions, x # t, InCall(x)', InCall(t)'
               PROVE  {call'[x].op, call'[t].op} \in mixed'
    BY DEF Overlaps
  <2>1. CASE x # s /\ t # s
    BY <1>14, <1>15, <2>1 DEF AInv, Overlaps
  <2>2. CASE x = s
    BY <1>14, <1>15, <1>16, <2>2
  <2>3. CASE t = s
    <3>1. {call'[t].op, call'[x].op} \in mixed'
      BY <1>14, <1>15, <1>16, <2>3
    <3>2. {call'[t].op, call'[x].op} = {call'[x].op, call'[t].op}
      OBVIOUS
    <3> QED
      BY <3>1, <3>2
  <2> QED
    BY <2>1, <2>2, <2>3
<1>18. ASSUME NEW t \in Sessions, InCall(t), call[t].op = "StoreFile"
       PROVE  /\ call[t].node.inode < fresh' /\ call[t].node.inode # fresh + 1
              /\ call[t].node.inode \notin DOMAIN due'
  <2>1. call[t].node.inode < fresh /\ call[t].node.inode \notin DOMAIN due
    BY <1>18 DEF AInv, OwnInodes
  <2>2. call[t].node.inode \in Nat
    BY <1>18, StoreNode
  <2> QED
    BY <1>2, <1>11, <1>14, <2>1, <2>2
<1>19. OwnInodes'
  <2>1. \A i \in DOMAIN inode' : i < fresh'
    BY <1>2, <1>11, <1>12 DEF AInv, OwnInodes
  <2>2. DOMAIN due' \subseteq DOMAIN inode'
    BY <1>11, <1>14 DEF AInv, OwnInodes
  <2>3. ASSUME NEW t \in Sessions, InCall(t)'
        PROVE  /\ StoresInode(call'[t], inode')
               /\ call'[t].op = "StoreFile" =>
                      call'[t].node.inode < fresh' /\ call'[t].node.inode \notin DOMAIN due'
    <3>1. CASE t = s
      BY <1>3, <1>8, <1>11, <1>12, <1>13, <1>14, <1>16, <3>1
    <3>2. CASE t # s
      BY <1>11, <1>15, <1>18, <2>3, <3>2 DEF AInv, OwnInodes
    <3> QED
      BY <3>1, <3>2
  <2>4. ASSUME NEW x \in Sessions, NEW t \in Sessions, x # t, InCall(x)', InCall(t)',
               call'[x].op = "StoreFile", call'[t].op = "StoreFile"
        PROVE  call'[x].node.inode # call'[t].node.inode
    <3>1. CASE x # s /\ t # s
      BY <1>15, <2>4, <3>1 DEF AInv, OwnInodes
    <3>2. CASE x = s
      BY <1>3, <1>8, <1>15, <1>16, <1>18, <2>4, <3>2
    <3>3. CASE t = s
      BY <1>3, <1>8, <1>15, <1>16, <1>18, <2>4, <3>3
    <3> QED
      BY <3>1, <3>2, <3>3
  <2> QED
    BY <2>1, <2>2, <2>3, <2>4 DEF OwnInodes
<1>20. ASSUME NoLostUpdate' PROVE SizesMeet'
  <2>1. SizesMeet
    BY <1>14, <1>20 DEF AInv, NoLostUpdate, Overlapped
  <2>2. ASSUME NEW i, NEW size, Meets(i, size, due, call), i # fresh + 1
        PROVE  Meets(i, size, due', call')
    <3>1. d.node.inode # i
      BY <1>3, <1>8, <2>2
    <3> QED
      BY <1>11, <1>14, <2>2, <3>1, MeetsLess
  <2>3. \A i \in DOMAIN inode' : Meets(i, inode'[i].plain.size, due', call')
    BY <1>11, <1>12, <2>1, <2>2 DEF SizesMeet
  <2>4. ASSUME NEW t \in Sessions, t # s, InCall(t) PROVE CallMeets(call[t], due', call')
    <3>1. CallMeets(call[t], due, call) /\ StoresInode(call[t], inode)
      BY <2>1, <2>4 DEF SizesMeet, AInv, OwnInodes
    <3>2. call[t].node.inode \in DOMAIN inode => call[t].node.inode # fresh + 1
      BY <1>12
    <3> QED
      BY <2>2, <3>1, <3>2 DEF CallMeets, StoresInode
  <2>5. CallMeets(d, due', call')
    BY <1>8 DEF CallMeets
  <2>6. \A t \in Sessions : InCall(t)' => CallMeets(call'[t], due', call')
    BY <1>15, <1>16, <2>4, <2>5
  <2> QED
    BY <2>3, <2>6 DEF SizesMeet
<1>21. DueOK'
  BY <1>14 DEF AInv, DueOK
<1> QED
  BY <1>17, <1>19, <1>20, <1>21 DEF AInv

LEMMA BeginSizes ==
    ASSUME CTypeOK, AInv, NEW s \in Sessions, BeginCall(s)
    PROVE  AInv'
<1>1. PICK f \in Filenames :
        \/ BeginOnFile(s, "LoadFile", f, Absent)
        \/ \E content \in Contents : \/ BeginStoreFile(s, f, content)
                                     \/ BeginOnFile(s, "AppendToFile", f, content)
        \/ \E u \in Users, op \in {"CreateInvitation", "RevokeAccess"} :
               BeginOnFile(s, op, f, u)
        \/ \E u \in Users, ptr \in DOMAIN invitation \cup {0} :
               BeginAcceptInvitation(s, u, ptr, f)
  BY DEF BeginCall
<1>2. ASSUME NEW op, NEW arg, BeginOnFile(s, op, f, arg),
             \/ op = "LoadFile" /\ arg = Absent
             \/ op = "AppendToFile" /\ arg \in Contents
             \/ op \in {"CreateInvitation", "RevokeAccess"} /\ arg \in Users
      PROVE  AInv'
  <2> DEFINE d == NewCall(op, f, arg)
  <2>1. Goes(s, d) /\ Begin(s, d)
    BY <1>2, BeginOnFileGoes DEF BeginOnFile
  <2>2. d.at = "access" /\ d.todo = <<>> /\ d.op = op /\ op # "StoreFile"
    BY <1>2 DEF NewCall
  <2> HIDE DEF d
  <2> QED
    BY <2>1, <2>2, BeginPlainSizes
<1>3. ASSUME NEW u \in Users, NEW ptr \in DOMAIN invitation \cup {0},
             BeginAcceptInvitation(s, u, ptr, f)
      PROVE  AInv'
  <2> DEFINE d == [NewCall("AcceptInvitation", f, <<u, ptr>>) EXCEPT !.at = "invitation"]
  <2>1. ptr \in Nat
    BY DEF CTypeOK, TypeOK, IsStore
  <2>2. Goes(s, d) /\ Begin(s, d)
    BY <1>3, <2>1, BeginAcceptGoes DEF BeginAcceptInvitation
  <2>3. d.at = "invitation" /\ d.todo = <<>> /\ d.op = "AcceptInvitation"
    BY DEF NewCall
  <2> HIDE DEF d
  <2> QED
    BY <2>2, <2>3, BeginPlainSizes
<1> QED
  BY <1>1, <1>2, <1>3, BeginStoreSizes

-----------------------------------------------------------------------------
(* The queued writes *)

(* What is due once c has returned. *)
DueAfter(c, dues) ==
    CASE c.op = "StoreFile" -> Put(dues, c.node.inode, Len(c.arg))
      [] c.op = "AppendToFile" -> [dues EXCEPT ![c.node.inode] = @ + Len(c.arg)]
      [] OTHER -> dues

(* d is c after its first write. *)
Wrote(c, d) ==
    /\ d.op = c.op /\ d.at = c.at /\ d.node = c.node /\ d.arg = c.arg /\ d.file = c.file
    /\ d.todo = Tail(c.todo) /\ c.todo # <<>>

LEMMA SetNextIs ==
    ASSUME CTypeOK, NEW s \in Sessions, SetNext(s)
    PROVE  LET c == call[s]
               d == [c EXCEPT !.todo = Tail(@)]
           IN  /\ InCall(s) /\ Fits(c) /\ Wrote(c, d)
               /\ c.todo \in Seq(Writes) /\ c.todo[1] \in Writes /\ Write(c.todo[1])
               /\ fresh' = fresh /\ mixed' = mixed /\ begun' = begun /\ died' = died
               /\ \/ /\ call' = [call EXCEPT ![s] = Absent] /\ due' = DueAfter(c, due)
                     /\ Len(c.todo) = 1 /\ c.at = "return"
                  \/ /\ call' = [call EXCEPT ![s] = d] /\ due' = due
                     /\ Len(c.todo) > 1 \/ c.at # "return"
<1> DEFINE c == call[s]
           w == Head(c.todo)
           d == [c EXCEPT !.todo = Tail(@)]
<1>1. /\ InCall(s) /\ c.todo # <<>> /\ c.todo \in Seq(Writes) /\ c.todo[1] \in Writes
      /\ Write(c.todo[1]) /\ fresh' = fresh
  BY SetNextGoes
<1>2. Fits(c)
  BY <1>1, CallType
<1>3. Wrote(c, d)
  BY <1>1, <1>2 DEF Wrote, Fits, Calls
<1>4. \/ Len(c.todo) = 1 /\ c.at = "return" /\ Returns(s)
      \/ (Len(c.todo) > 1 \/ c.at # "return") /\ Continue(s, d)
  BY DEF SetNext, SetDone
<1> HIDE DEF d
<1>5. ASSUME Returns(s)
      PROVE  /\ call' = [call EXCEPT ![s] = Absent] /\ due' = DueAfter(c, due)
             /\ mixed' = mixed /\ begun' = begun /\ died' = died
  BY <1>5, Zenon DEF Returns, DueAfter, history
<1>6. ASSUME Continue(s, d)
      PROVE  /\ call' = [call EXCEPT ![s] = d] /\ due' = due
             /\ mixed' = mixed /\ begun' = begun /\ died' = died
  BY <1>6 DEF Continue, history
<1>7. \/ /\ call' = [call EXCEPT ![s] = Absent] /\ due' = DueAfter(c, due)
         /\ Len(c.todo) = 1 /\ c.at = "return"
      \/ /\ call' = [call EXCEPT ![s] = d] /\ due' = due
         /\ Len(c.todo) > 1 \/ c.at # "return"
  BY <1>4, <1>5, <1>6
<1>8. mixed' = mixed /\ begun' = begun /\ died' = died
  BY <1>4, <1>5, <1>6
<1> QED
  BY <1>1, <1>2, <1>3, <1>7, <1>8 DEF d

(* The queue of d is that of c without the first write. *)
LEMMA QueueMoves ==
    ASSUME NEW c, NEW d, Wrote(c, d), c.todo \in Seq(Writes)
    PROVE  /\ Len(c.todo) \in Nat \ {0} /\ DOMAIN c.todo = 1..Len(c.todo)
           /\ Len(d.todo) = Len(c.todo) - 1 /\ DOMAIN d.todo = 1..Len(d.todo)
           /\ \A n \in DOMAIN d.todo : n + 1 \in DOMAIN c.todo /\ d.todo[n] = c.todo[n + 1]
           /\ \A n \in DOMAIN c.todo : n # 1 => n - 1 \in DOMAIN d.todo /\ d.todo[n - 1] = c.todo[n]
<1> DEFINE q == c.todo
           r == d.todo
<1>1. q \in Seq(Writes) /\ q # <<>> /\ r = Tail(q)
  BY DEF Wrote
<1> HIDE DEF q, r
<1>2. /\ Len(q) \in Nat \ {0} /\ DOMAIN q = 1..Len(q)
      /\ Len(r) = Len(q) - 1 /\ DOMAIN r = 1..Len(r)
      /\ \A n \in DOMAIN r : n + 1 \in DOMAIN q /\ r[n] = q[n + 1]
  BY <1>1
<1>3. ASSUME NEW n \in DOMAIN q, n # 1 PROVE n - 1 \in DOMAIN r /\ r[n - 1] = q[n]
  <2>1. n - 1 \in DOMAIN r /\ (n - 1) + 1 = n
    BY <1>2, <1>3
  <2> QED
    BY <1>2, <2>1
<1> QED
  BY <1>2, <1>3 DEF q, r

(* A method whose inode is not the one that comes into being. *)
LEMMA StoresKept ==
    ASSUME NEW c, NEW old, NEW new, StoresInode(c, old), DOMAIN old \subseteq DOMAIN new,
           c.op = "StoreFile" /\ c.node.inode \in DOMAIN new => c.node.inode \in DOMAIN old
    PROVE  StoresInode(c, new)
BY DEF StoresInode

(* Which inode the first write is of. *)
LEMMA FirstInode ==
    ASSUME NEW c, NEW nodes, StoresInode(c, nodes), 1 \in DOMAIN c.todo,
           c.todo[1].kind = "inode"
    PROVE  /\ c.op \in {"StoreFile", "AppendToFile", "RevokeAccess"}
           /\ c.todo[1].id = c.node.inode
           /\ IF c.op = "StoreFile" THEN c.node.inode \notin DOMAIN nodes
                                    ELSE c.node.inode \in DOMAIN nodes
           /\ c.op = "StoreFile" => /\ c.todo[1].record.plain.size = Len(c.arg)
                                    /\ Len(c.todo) # 1
           /\ c.op = "AppendToFile" => c.at = "return" /\ 1 = Len(c.todo)
BY DEF StoresInode

LEMMA StoresNext ==
    ASSUME NEW c, NEW d, Wrote(c, d), c.todo \in Seq(Writes), NEW nodes, NEW new,
           StoresInode(c, nodes), DOMAIN nodes \subseteq DOMAIN new,
           c.todo[1].kind = "inode" => c.todo[1].id \in DOMAIN new,
           c.todo[1].kind # "inode" => DOMAIN new = DOMAIN nodes,
           c.op \in {"StoreFile", "AppendToFile"} => Len(c.todo) > 1 \/ c.at # "return",
           c.op = "StoreFile" => c.at = "return"
    PROVE  StoresInode(d, new)
<1>1. /\ Len(c.todo) \in Nat \ {0} /\ DOMAIN c.todo = 1..Len(c.todo)
      /\ Len(d.todo) = Len(c.todo) - 1 /\ DOMAIN d.todo = 1..Len(d.todo)
      /\ \A n \in DOMAIN d.todo : n + 1 \in DOMAIN c.todo /\ d.todo[n] = c.todo[n + 1]
      /\ \A n \in DOMAIN c.todo : n # 1 => n - 1 \in DOMAIN d.todo /\ d.todo[n - 1] = c.todo[n]
  BY QueueMoves
<1>2. d.op = c.op /\ d.at = c.at /\ d.node = c.node /\ d.arg = c.arg
  BY DEF Wrote
<1>3. \A n \in DOMAIN d.todo : n \in Nat \ {0}
  BY <1>1
<1>4. CASE c.op = "StoreFile"
  <2>1. d.todo # <<>> /\ 1 \in DOMAIN c.todo
    BY <1>1, <1>4
  <2>2. ASSUME NEW n \in DOMAIN d.todo, d.todo[n].kind = "inode"
        PROVE  /\ d.todo[n].id = d.node.inode
               /\ d.todo[n].record.plain.size = Len(d.arg)
               /\ n # Len(d.todo)
               /\ \A m \in DOMAIN d.todo : d.todo[m].kind = "inode" => m = n
    <3>1. /\ n + 1 \in DOMAIN c.todo /\ c.todo[n + 1].kind = "inode"
          /\ d.todo[n] = c.todo[n + 1]
      BY <1>1, <2>2
    <3>2. n + 1 # Len(c.todo)
      BY <1>4, <3>1 DEF StoresInode
    <3>3. ASSUME NEW m \in DOMAIN d.todo, d.todo[m].kind = "inode" PROVE m = n
      <4>1. m + 1 \in DOMAIN c.todo /\ c.todo[m + 1].kind = "inode"
        BY <1>1, <3>3
      <4>2. m + 1 = n + 1
        BY <1>4, <3>1, <4>1 DEF StoresInode
      <4> QED
        BY <1>3, <4>2
    <3> QED
      BY <1>1, <1>2, <1>3, <1>4, <3>1, <3>2, <3>3 DEF StoresInode
  <2>3. d.node.inode \in DOMAIN new <=> \A n \in DOMAIN d.todo : d.todo[n].kind # "inode"
    <3>1. CASE c.todo[1].kind = "inode"
      <4>1. d.node.inode \in DOMAIN new
        BY <1>2, <1>4, <2>1, <3>1, FirstInode
      <4>2. ASSUME NEW n \in DOMAIN d.todo, d.todo[n].kind = "inode" PROVE FALSE
        <5>1. n + 1 \in DOMAIN c.todo /\ c.todo[n + 1].kind = "inode" /\ n + 1 # 1
          BY <1>1, <1>3, <4>2
        <5> QED
          BY <1>4, <2>1, <3>1, <5>1 DEF StoresInode
      <4> QED
        BY <4>1, <4>2
    <3>2. CASE c.todo[1].kind # "inode"
      <4>1. d.node.inode \in DOMAIN new <=> \A n \in DOMAIN c.todo : c.todo[n].kind # "inode"
        BY <1>2, <1>4, <3>2 DEF StoresInode
      <4>2. (\A n \in DOMAIN c.todo : c.todo[n].kind # "inode")
                <=> \A n \in DOMAIN d.todo : d.todo[n].kind # "inode"
        BY <1>1, <3>2, Zenon
      <4> QED
        BY <4>1, <4>2
    <3> QED
      BY <3>1, <3>2
  <2> QED
    BY <1>2, <1>4, <2>1, <2>2, <2>3 DEF StoresInode
<1>5. CASE c.op = "AppendToFile" /\ c.at = "return"
  <2>1. Len(d.todo) \in Nat \ {0} /\ Len(d.todo) \in DOMAIN d.todo /\ Len(d.todo) + 1 = Len(c.todo)
    BY <1>1, <1>5
  <2>2. \A n \in DOMAIN d.todo : d.todo[n].kind = "inode" <=> n + 1 = Len(c.todo)
    BY <1>1, <1>5 DEF StoresInode
  <2>3. \A n \in DOMAIN d.todo : d.todo[n].kind = "inode" <=> n = Len(d.todo)
    BY <1>3, <2>1, <2>2
  <2>4. d.todo[Len(d.todo)] = c.todo[Len(c.todo)]
    BY <1>1, <2>1
  <2>5. d.todo # <<>>
    BY <2>1
  <2> QED
    BY <1>2, <1>5, <2>3, <2>4, <2>5 DEF StoresInode
<1>6. CASE c.op # "StoreFile" /\ ~(c.op = "AppendToFile" /\ c.at = "return")
  BY <1>1, <1>2, <1>6, Zenon DEF StoresInode
<1> QED
  BY <1>4, <1>5, <1>6

LEMMA CallMeetsNext ==
    ASSUME NEW c, NEW d, Wrote(c, d), c.todo \in Seq(Writes), NEW dues, NEW cs,
           CallMeets(c, dues, cs),
           c.op = "AppendToFile" => Len(c.todo) > 1 \/ c.at # "return"
    PROVE  CallMeets(d, dues, cs)
<1>1. /\ Len(c.todo) \in Nat \ {0} /\ DOMAIN c.todo = 1..Len(c.todo)
      /\ Len(d.todo) = Len(c.todo) - 1 /\ DOMAIN d.todo = 1..Len(d.todo)
      /\ \A n \in DOMAIN d.todo : n + 1 \in DOMAIN c.todo /\ d.todo[n] = c.todo[n + 1]
  BY QueueMoves
<1>2. d.op = c.op /\ d.at = c.at /\ d.node = c.node /\ d.arg = c.arg /\ d.file = c.file
  BY DEF Wrote
<1>3. ASSUME c.op = "AppendToFile", c.at = "return"
      PROVE  d.todo[Len(d.todo)] = c.todo[Len(c.todo)]
  <2>1. Len(d.todo) \in DOMAIN d.todo /\ Len(d.todo) + 1 = Len(c.todo)
    BY <1>1, <1>3
  <2> QED
    BY <1>1, <2>1
<1> QED
  BY <1>1, <1>2, <1>3 DEF CallMeets

(* What the last write of c changes of the bytes that are due. *)
DueMoves(c, dues, new) ==
    /\ \A i \in DOMAIN new : new[i] \in Nat
    /\ c.op = "StoreFile" => /\ DOMAIN new = DOMAIN dues \cup {c.node.inode}
                             /\ new[c.node.inode] = Len(c.arg)
    /\ c.op # "StoreFile" => DOMAIN new = DOMAIN dues
    /\ c.op = "AppendToFile" /\ c.node.inode \in DOMAIN dues =>
           new[c.node.inode] = dues[c.node.inode] + Len(c.arg)
    /\ \A i \in DOMAIN dues : i # c.node.inode => new[i] = dues[i]
    /\ c.op \notin {"StoreFile", "AppendToFile"} => new = dues

LEMMA DueAfterMoves ==
    ASSUME NEW c, NEW dues, \A i \in DOMAIN dues : dues[i] \in Nat,
           c.op \in {"StoreFile", "AppendToFile"} => Len(c.arg) \in Nat
    PROVE  DueMoves(c, dues, DueAfter(c, dues))
<1> DEFINE new == DueAfter(c, dues)
<1> HIDE DEF new
<1>1. CASE c.op = "StoreFile"
  <2>1. new = Put(dues, c.node.inode, Len(c.arg))
    BY <1>1 DEF DueAfter, new
  <2>2. /\ DOMAIN new = DOMAIN dues \cup {c.node.inode} /\ new[c.node.inode] = Len(c.arg)
        /\ \A i \in DOMAIN dues : i # c.node.inode => new[i] = dues[i]
    <3> DEFINE n == Put(dues, c.node.inode, Len(c.arg))
    <3>1. /\ DOMAIN n = DOMAIN dues \cup {c.node.inode} /\ n[c.node.inode] = Len(c.arg)
          /\ \A i \in DOMAIN dues : i # c.node.inode => n[i] = dues[i]
      BY DEF Put, PutAll
    <3> QED
      BY <2>1, <3>1, Zenon
  <2> QED
    BY <1>1, <2>2 DEF DueMoves, new
<1>2. CASE c.op = "AppendToFile"
  <2>1. new = [dues EXCEPT ![c.node.inode] = @ + Len(c.arg)]
    BY <1>2 DEF DueAfter, new
  <2>2. /\ DOMAIN new = DOMAIN dues
        /\ c.node.inode \in DOMAIN dues =>
               new[c.node.inode] = dues[c.node.inode] + Len(c.arg)
        /\ \A i \in DOMAIN dues : i # c.node.inode => new[i] = dues[i]
    BY <2>1
  <2>3. \A i \in DOMAIN new : new[i] \in Nat
    <3> SUFFICES ASSUME NEW i \in DOMAIN new PROVE new[i] \in Nat
      OBVIOUS
    <3>1. CASE i = c.node.inode
      BY <1>2, <2>2, <3>1
    <3> QED
      BY <2>2, <3>1
  <2> QED
    BY <1>2, <2>2, <2>3 DEF DueMoves, new
<1>3. CASE c.op \notin {"StoreFile", "AppendToFile"}
  <2>1. new = dues
    BY <1>3 DEF DueAfter, new
  <2> QED
    BY <1>3, <2>1 DEF DueMoves, new
<1> QED
  BY <1>1, <1>2, <1>3 DEF new

(* The next write: which inodes there are, and who still makes one. *)
LEMMA SetNextOwn ==
    ASSUME CTypeOK, AInv, NEW s \in Sessions, SetNext(s)
    PROVE  Overlaps' /\ OwnInodes' /\ DueOK'
<1> DEFINE c == call[s]
           d == [c EXCEPT !.todo = Tail(@)]
           w == c.todo[1]
           i0 == c.node.inode
<1>1. /\ InCall(s) /\ Fits(c) /\ Wrote(c, d)
      /\ c.todo \in Seq(Writes) /\ w \in Writes /\ Write(w)
      /\ fresh' = fresh /\ mixed' = mixed
      /\ \/ /\ call' = [call EXCEPT ![s] = Absent] /\ due' = DueAfter(c, due)
            /\ Len(c.todo) = 1 /\ c.at = "return"
         \/ /\ call' = [call EXCEPT ![s] = d] /\ due' = due
            /\ Len(c.todo) > 1 \/ c.at # "return"
  BY SetNextIs
<1>2. d.op = c.op /\ d.node = c.node /\ d.arg = c.arg
  BY <1>1 DEF Wrote
<1> HIDE DEF d
<1>3. call \in [Sessions -> Calls \cup {Absent}] /\ fresh \in Nat
  BY DEF CTypeOK, CallsFit, TypeOK
<1>4. ASSUME NEW t \in Sessions, t # s PROVE call'[t] = call[t] /\ (InCall(t)' <=> InCall(t))
  BY <1>1, <1>3, <1>4 DEF InCall
<1>5. ASSUME InCall(s)'
      PROVE  call'[s] = d /\ due' = due /\ (Len(c.todo) > 1 \/ c.at # "return")
  BY <1>1, <1>3, <1>5 DEF InCall
<1>6. StoresInode(c, inode) /\ 1 \in DOMAIN c.todo
  <2>1. 1 \in DOMAIN c.todo
    BY <1>1 DEF Wrote
  <2> QED
    BY <1>1, <2>1 DEF AInv, OwnInodes
<1>7. c.op = "StoreFile" =>
          c.at = "return" /\ i0 < fresh /\ i0 \notin DOMAIN due /\ Len(c.arg) \in Nat
  BY <1>1, StoreNode DEF AInv, OwnInodes
<1>8. c.op = "AppendToFile" => Len(c.arg) \in Nat
  <2>1. c.op = "AppendToFile" => c.arg \in Contents
    BY <1>1 DEF Fits, OpFits
  <2> QED
    BY <2>1, ContentsAssumption, LenProperties
<1>9. /\ w.kind = "inode" => DOMAIN inode' = DOMAIN inode \cup {i0}
      /\ w.kind # "inode" => DOMAIN inode' = DOMAIN inode
  <2>1. CASE w.kind = "inode"
    <3>1. w.id = i0
      BY <1>6, <2>1, FirstInode
    <3>2. inode' = Put(inode, w.id, w.record)
      BY <1>1, <2>1 DEF Write
    <3>3. DOMAIN inode' = DOMAIN inode \cup {w.id}
      <4> DEFINE n == Put(inode, w.id, w.record)
      <4>1. DOMAIN n = DOMAIN inode \cup {w.id}
        BY DEF Put, PutAll
      <4> QED
        BY <3>2, <4>1, Zenon
    <3> QED
      BY <2>1, <3>1, <3>3
  <2>2. CASE w.kind # "inode"
    BY <1>1, <2>2 DEF Write
  <2> QED
    BY <2>1, <2>2
<1>10. w.kind = "inode" => w.id = i0 /\ (i0 \in DOMAIN inode \/ c.op = "StoreFile")
  BY <1>6, FirstInode
<1>11. /\ \A i \in DOMAIN due' : due'[i] \in Nat
       /\ DOMAIN due \subseteq DOMAIN due'
       /\ \A i \in DOMAIN due' : i \in DOMAIN due \/ (i = i0 /\ c.op = "StoreFile" /\ Len(c.todo) = 1)
  <2>1. CASE due' = due
    BY <2>1 DEF AInv, DueOK
  <2>2. CASE Len(c.todo) = 1 /\ due' = DueAfter(c, due)
    <3>1. \A i \in DOMAIN due : due[i] \in Nat
      BY DEF AInv, DueOK
    <3>2. DueMoves(c, due, due')
      BY <1>7, <1>8, <2>2, <3>1, DueAfterMoves
    <3> QED
      BY <2>2, <3>2 DEF DueMoves
  <2> QED
    BY <1>1, <2>1, <2>2
<1>12. Overlaps'
  <2> SUFFICES ASSUME NEW x \in Sessions, NEW t \in Sessions, x # t, InCall(x)', InCall(t)'
               PROVE  {call'[x].op, call'[t].op} \in mixed'
    BY DEF Overlaps
  <2>1. \A y \in Sessions : InCall(y)' => InCall(y) /\ call'[y].op = call[y].op
    BY <1>1, <1>2, <1>4, <1>5
  <2> QED
    BY <1>1, <2>1 DEF AInv, Overlaps
<1>13. OwnInodes'
  <2>1. \A i \in DOMAIN inode' : i < fresh'
    BY <1>1, <1>7, <1>9, <1>10 DEF AInv, OwnInodes
  <2>2. DOMAIN due' \subseteq DOMAIN inode'
    <3>1. ASSUME c.op = "StoreFile", Len(c.todo) = 1 PROVE i0 \in DOMAIN inode
      <4>1. \A n \in DOMAIN c.todo : n = Len(c.todo)
        BY <1>1, <3>1
      <4> QED
        BY <1>6, <3>1, <4>1 DEF StoresInode
    <3> QED
      BY <1>9, <1>11, <3>1 DEF AInv, OwnInodes
  <2>3. ASSUME NEW t \in Sessions, t # s, InCall(t), call[t].op = "StoreFile"
        PROVE  /\ call[t].node.inode < fresh' /\ call[t].node.inode \notin DOMAIN due'
               /\ call[t].node.inode \in DOMAIN inode' => call[t].node.inode \in DOMAIN inode
    <3>1. call[t].node.inode < fresh /\ call[t].node.inode \notin DOMAIN due
      BY <2>3 DEF AInv, OwnInodes
    <3>2. c.op = "StoreFile" => call[t].node.inode # i0
      BY <1>1, <2>3 DEF AInv, OwnInodes
    <3> QED
      BY <1>1, <1>9, <1>10, <1>11, <3>1, <3>2
  <2>4. DOMAIN inode \subseteq DOMAIN inode'
    BY <1>9
  <2>5. ASSUME NEW t \in Sessions, InCall(t)'
        PROVE  /\ StoresInode(call'[t], inode')
               /\ call'[t].op = "StoreFile" =>
                      call'[t].node.inode < fresh' /\ call'[t].node.inode \notin DOMAIN due'
    <3>1. CASE t = s
      <4>1. call'[s] = d /\ due' = due /\ (Len(c.todo) > 1 \/ c.at # "return")
        BY <1>5, <2>5, <3>1
      <4>2. StoresInode(d, inode')
        BY <1>1, <1>6, <1>7, <1>9, <1>10, <2>4, <4>1, StoresNext
      <4> QED
        BY <1>1, <1>2, <1>7, <3>1, <4>1, <4>2
    <3>2. CASE t # s
      <4>1. call'[t] = call[t] /\ InCall(t)
        BY <1>4, <2>5, <3>2
      <4>2. StoresInode(call[t], inode)
        BY <4>1 DEF AInv, OwnInodes
      <4>3. StoresInode(call[t], inode')
        BY <2>3, <2>4, <3>2, <4>1, <4>2, StoresKept
      <4> QED
        BY <2>3, <3>2, <4>1, <4>3
    <3> QED
      BY <3>1, <3>2
  <2>6. ASSUME NEW x \in Sessions, NEW t \in Sessions, x # t, InCall(x)', InCall(t)',
               call'[x].op = "StoreFile", call'[t].op = "StoreFile"
        PROVE  call'[x].node.inode # call'[t].node.inode
    <3>1. \A y \in Sessions : InCall(y)' =>
              InCall(y) /\ call'[y].op = call[y].op /\ call'[y].node = call[y].node
      BY <1>1, <1>2, <1>4, <1>5
    <3> QED
      BY <2>6, <3>1 DEF AInv, OwnInodes
  <2> QED
    BY <2>1, <2>2, <2>5, <2>6 DEF OwnInodes
<1> QED
  BY <1>11, <1>12, <1>13 DEF DueOK

(* The next write: an inode is written back no shorter than it must be. *)
LEMMA SetNextMeets ==
    ASSUME CTypeOK, AInv, NEW s \in Sessions, SetNext(s), NoLostUpdate
    PROVE  SizesMeet'
<1> DEFINE c == call[s]
           d == [c EXCEPT !.todo = Tail(@)]
           w == c.todo[1]
           i0 == c.node.inode
<1>1. /\ InCall(s) /\ Fits(c) /\ Wrote(c, d)
      /\ c.todo \in Seq(Writes) /\ w \in Writes /\ Write(w)
      /\ \/ /\ call' = [call EXCEPT ![s] = Absent] /\ due' = DueAfter(c, due)
            /\ Len(c.todo) = 1 /\ c.at = "return"
         \/ /\ call' = [call EXCEPT ![s] = d] /\ due' = due
            /\ Len(c.todo) > 1 \/ c.at # "return"
  BY SetNextIs
<1>2. d.op = c.op /\ d.node = c.node /\ d.arg = c.arg
  BY <1>1 DEF Wrote
<1> HIDE DEF d
<1>3. call \in [Sessions -> Calls \cup {Absent}] /\ SizesMeet
  BY DEF CTypeOK, CallsFit, AInv
<1>4. ASSUME NEW t \in Sessions, t # s PROVE call'[t] = call[t] /\ (InCall(t)' <=> InCall(t))
  BY <1>1, <1>3, <1>4 DEF InCall
<1>5. ASSUME InCall(s)'
      PROVE  call'[s] = d /\ due' = due /\ (Len(c.todo) > 1 \/ c.at # "return")
  BY <1>1, <1>3, <1>5 DEF InCall
<1>6. StoresInode(c, inode) /\ CallMeets(c, due, call) /\ 1 \in DOMAIN c.todo
  <2>1. 1 \in DOMAIN c.todo
    BY <1>1 DEF Wrote
  <2> QED
    BY <1>1, <1>3, <2>1 DEF AInv, OwnInodes, SizesMeet
<1>7. c.op = "StoreFile" => i0 \notin DOMAIN due /\ Len(c.arg) \in Nat
  BY <1>1, StoreNode DEF AInv, OwnInodes
<1>8. c.op = "AppendToFile" => Len(c.arg) \in Nat
  <2>1. c.op = "AppendToFile" => c.arg \in Contents
    BY <1>1 DEF Fits, OpFits
  <2> QED
    BY <2>1, ContentsAssumption, LenProperties
<1>9. \A i \in DOMAIN due : due[i] \in Nat
  BY DEF AInv, DueOK
<1>10. ASSUME NEW t \in Sessions, t # s, InCall(t), c.op = "AppendToFile"
       PROVE  call[t].op \notin {"AppendToFile", "RevokeAccess"}
  <2>1. {c.op, call[t].op} \in mixed
    BY <1>1, <1>10 DEF AInv, Overlaps
  <2> QED
    BY <1>10, <2>1 DEF NoLostUpdate, Overlapped
\* s leaves the StoreFile calls in progress, if anything.
<1>11. ASSUME NEW i, NEW size, Meets(i, size, due, call)
       PROVE  Meets(i, size, due, call')
  <2>1. CASE call' = [call EXCEPT ![s] = Absent]
    BY <1>3, <1>11, <2>1, MeetsLess
  <2>2. CASE call' = [call EXCEPT ![s] = d]
    BY <1>1, <1>2, <1>3, <1>11, <2>2, MeetsLess DEF InCall
  <2> QED
    BY <1>1, <2>1, <2>2
<1>12. ASSUME NEW i, NEW size, Meets(i, size, due, call), c.op = "AppendToFile" => i # i0
       PROVE  Meets(i, size, due', call')
  <2>1. Meets(i, size, due, call')
    BY <1>11, <1>12
  <2>2. CASE due' = due
    BY <2>1, <2>2
  <2>3. CASE due' = DueAfter(c, due)
    <3>1. DueMoves(c, due, due')
      BY <1>7, <1>8, <1>9, <2>3, DueAfterMoves
    <3>2. c.op = "StoreFile" /\ i = i0 => Len(c.arg) <= size
      BY <1>1, <1>12 DEF Meets, InCall
    <3>3. ASSUME i \in DOMAIN due' PROVE due'[i] <= size
      <4>1. CASE i = i0 /\ c.op = "StoreFile"
        BY <3>1, <3>2, <4>1 DEF DueMoves
      <4>2. CASE i # i0
        BY <2>1, <3>1, <3>3, <4>2 DEF DueMoves, Meets
      <4>3. CASE i = i0 /\ c.op # "StoreFile"
        BY <1>12, <2>1, <3>1, <3>3, <4>3 DEF DueMoves, Meets
      <4> QED
        BY <4>1, <4>2, <4>3
    <3> QED
      BY <2>1, <3>3 DEF Meets
  <2> QED
    BY <1>1, <2>2, <2>3
<1>13. ASSUME NEW e, CallMeets(e, due, call), c.op # "AppendToFile" PROVE CallMeets(e, due', call')
  BY <1>12, <1>13 DEF CallMeets
<1>14. ASSUME NEW t \in Sessions, InCall(t)' PROVE CallMeets(call'[t], due', call')
  <2>1. CASE t # s
    <3>1. call'[t] = call[t] /\ InCall(t)
      BY <1>4, <1>14, <2>1
    <3>2. CASE c.op = "AppendToFile"
      <4>1. call[t].op \notin {"AppendToFile", "RevokeAccess"}
        BY <1>10, <2>1, <3>1, <3>2
      <4> QED
        BY <3>1, <4>1 DEF CallMeets
    <3>3. CASE c.op # "AppendToFile"
      BY <1>3, <1>13, <3>1, <3>3 DEF SizesMeet
    <3> QED
      BY <3>2, <3>3
  <2>2. CASE t = s
    <3>1. call'[s] = d /\ due' = due /\ (Len(c.todo) > 1 \/ c.at # "return")
      BY <1>5, <1>14, <2>2
    <3>2. CallMeets(d, due, call)
      BY <1>1, <1>6, <3>1, CallMeetsNext
    <3> QED
      BY <1>11, <2>2, <3>1, <3>2 DEF CallMeets
  <2> QED
    BY <2>1, <2>2
<1>15. IF Len(c.todo) = 1 /\ c.at = "return" THEN due' = DueAfter(c, due) ELSE due' = due
  <2>1. Len(c.todo) > 1 => Len(c.todo) # 1
    <3>1. Len(c.todo) \in Nat
      BY <1>1, QueueMoves
    <3>2. \A n \in Nat : n > 1 => n # 1
      OBVIOUS
    <3> QED
      BY <3>1, <3>2, Zenon
  <2> QED
    BY <1>1, <2>1, Zenon
<1>16. \A i \in DOMAIN inode' : Meets(i, inode'[i].plain.size, due', call')
  <2>1. CASE w.kind # "inode"
    <3>1. inode' = inode
      BY <1>1, <2>1 DEF Write
    <3>2. c.op = "AppendToFile" => c.at # "return" \/ Len(c.todo) # 1
      BY <1>6, <2>1 DEF StoresInode
    <3>3. c.op = "AppendToFile" => due' = due
      BY <1>15, <3>2, Zenon
    <3>4. ASSUME NEW i \in DOMAIN inode PROVE Meets(i, inode[i].plain.size, due', call')
      <4>1. Meets(i, inode[i].plain.size, due, call)
        BY <1>3 DEF SizesMeet
      <4>2. CASE c.op = "AppendToFile"
        BY <1>11, <3>3, <4>1, <4>2
      <4>3. CASE c.op # "AppendToFile"
        BY <1>12, <4>1, <4>3
      <4> QED
        BY <4>2, <4>3
    <3> QED
      BY <3>1, <3>4
  <2>2. CASE w.kind = "inode"
    <3> DEFINE size == w.record.plain.size
    <3>1. /\ c.op \in {"StoreFile", "AppendToFile", "RevokeAccess"} /\ w.id = i0
          /\ c.op = "StoreFile" => size = Len(c.arg) /\ Len(c.todo) # 1
          /\ c.op = "AppendToFile" => c.at = "return" /\ 1 = Len(c.todo)
      BY <1>6, <2>2, FirstInode
    <3>2. /\ DOMAIN inode' = DOMAIN inode \cup {i0} /\ inode'[i0] = w.record
          /\ \A x \in DOMAIN inode : x # i0 => inode'[x] = inode[x]
      <4> DEFINE n == Put(inode, w.id, w.record)
      <4>1. /\ DOMAIN n = DOMAIN inode \cup {w.id} /\ n[w.id] = w.record
            /\ \A x \in DOMAIN inode : x # w.id => n[x] = inode[x]
        BY DEF Put, PutAll
      <4>2. inode' = Put(inode, w.id, w.record)
        BY <1>1, <2>2 DEF Write
      <4> QED
        BY <3>1, <4>1, <4>2, Zenon
    <3>3. size \in Nat
      BY <1>1, <2>2 DEF Writes, InodeRecords, Sealed, Inode,
         AccountRecords, AccessRecords, MailboxRecords, BlockRecords
    <3>4. Meets(i0, size, due', call')
      <4>1. CASE c.op = "StoreFile"
        <5>1. due' = due
          BY <1>1, <3>1, <4>1
        <5>2. ASSUME NEW x \in Sessions, call'[x] # Absent, call'[x].op = "StoreFile",
                     call'[x].node.inode = i0
              PROVE  Len(call'[x].arg) <= size
          <6>1. InCall(x)'
            BY <5>2 DEF InCall
          <6>2. x = s
            BY <1>1, <1>4, <4>1, <5>2, <6>1 DEF AInv, OwnInodes
          <6>3. call'[x] = d
            BY <1>5, <6>1, <6>2
          <6> QED
            BY <1>2, <1>7, <3>1, <4>1, <6>3
        <5> QED
          BY <1>7, <4>1, <5>1, <5>2 DEF Meets
      <4>2. CASE c.op = "AppendToFile"
        <5>1. Meets(i0, size - Len(c.arg), due, call')
          BY <1>6, <1>11, <3>1, <4>2 DEF CallMeets
        <5>2. Len(c.arg) \in Nat
          BY <1>8, <4>2
        <5>3. DueMoves(c, due, due')
          <6>1. due' = DueAfter(c, due)
            BY <1>15, <3>1, <4>2, Zenon
          <6> QED
            BY <1>7, <1>8, <1>9, <6>1, DueAfterMoves
        <5>4. i0 \in DOMAIN due' => due'[i0] <= size
          <6>1. i0 \in DOMAIN due' => due'[i0] = due[i0] + Len(c.arg) /\ i0 \in DOMAIN due
            BY <4>2, <5>3 DEF DueMoves
          <6>2. i0 \in DOMAIN due => due[i0] <= size - Len(c.arg)
            BY <5>1 DEF Meets
          <6> QED
            BY <1>9, <3>3, <5>2, <6>1, <6>2
        <5>5. ASSUME NEW x \in Sessions, call'[x] # Absent, call'[x].op = "StoreFile",
                     call'[x].node.inode = i0
              PROVE  Len(call'[x].arg) <= size
          <6>1. Len(call'[x].arg) <= size - Len(c.arg)
            BY <5>1, <5>5 DEF Meets
          <6>2. InCall(x)' /\ CTypeOK'
            BY <5>5, SetNextGoes DEF InCall
          <6>3. Len(call'[x].arg) \in Nat
            <7>1. x # s
              BY <1>2, <1>5, <4>2, <5>5, <6>2
            <7>2. call'[x] = call[x] /\ InCall(x)
              BY <1>4, <6>2, <7>1
            <7> QED
              BY <5>5, <7>2, StoreNode
          <6> QED
            BY <3>3, <5>2, <6>1, <6>3
        <5> QED
          BY <5>4, <5>5 DEF Meets
      <4>3. CASE c.op = "RevokeAccess"
        <5>1. Meets(i0, size, due, call)
          BY <1>6, <2>2, <4>3 DEF CallMeets
        <5> QED
          BY <1>12, <4>3, <5>1
      <4> QED
        BY <3>1, <4>1, <4>2, <4>3
    <3>5. ASSUME NEW i \in DOMAIN inode, i # i0 PROVE Meets(i, inode[i].plain.size, due', call')
      BY <1>3, <1>12, <3>5 DEF SizesMeet
    <3> HIDE DEF i0
    <3> QED
      BY <3>2, <3>4, <3>5
  <2> QED
    BY <2>1, <2>2
<1> QED
  BY <1>14, <1>16 DEF SizesMeet

LEMMA SetNextSizes ==
    ASSUME CTypeOK, AInv, NEW s \in Sessions, SetNext(s)
    PROVE  AInv'
<1>1. mixed' = mixed
  BY SetNextIs
<1>2. NoLostUpdate' => NoLostUpdate
  BY <1>1 DEF NoLostUpdate, Overlapped
<1>3. NoLostUpdate' => SizesMeet'
  BY <1>2, SetNextMeets DEF AInv
<1> QED
  BY <1>3, SetNextOwn DEF AInv

LEMMA SizesStep ==
    ASSUME CTypeOK, AInv, NEW s \in Sessions, BeginCall(s) \/ Step(s) \/ Lost(s) \/ Comes(s)
    PROVE  AInv'
<1>1. CASE Lost(s)
  <2>1. due' = due /\ mixed' = mixed
    BY <1>1 DEF Lost
  <2> QED
    BY <1>1, <2>1, LostGoes, SizesGo
<1>2. CASE Comes(s)
  <2>1. UNCHANGED <<inode, fresh, call, due, mixed>>
    BY <1>2, ComesType DEF datastore, progress, history
  <2> QED
    BY <2>1 DEF AInv, Overlaps, OwnInodes, InCall, DueOK, NoLostUpdate, Overlapped, SizesMeet
<1> QED
  BY <1>1, <1>2, BeginSizes, PlainReadsSizes, GetInodeSizes, GetBlockSizes, ResealSizes,
     SetNextSizes DEF Step

LEMMA SizesStart ==
    ASSUME ClientsInit
    PROVE  AInv
<1> DEFINE i0   == FirstNode.inode
           file == [size |-> Len(FirstContent), blocks |-> BlockUUIDs(ByteToBlock(FirstContent),
                                                                      FirstBlock)]
<1>1. \A s \in Sessions : ~InCall(s) /\ call[s] = Absent
  BY DEF ClientsInit, InCall
<1>2. /\ inode = [i \in {i0} |-> encryptAndMAC(file, getFileKeys(FirstNode.fileKey))]
      /\ due = [i \in {i0} |-> Len(FirstContent)]
      /\ fresh = FirstInvite + 3 * (Shared - 1)
  BY DEF ClientsInit, SetUp
<1>3. file.size = Len(FirstContent) /\ Len(FirstContent) \in Nat
  BY CircleAssumption, LenProperties
<1>4. i0 < fresh
  BY <1>2, SetUpNumbers, CircleAssumption DEF FirstNode, FirstInvite, FirstBlock
<1> HIDE DEF file, i0
<1>5. /\ DOMAIN inode = {i0} /\ DOMAIN due = {i0} /\ due[i0] = Len(FirstContent)
      /\ inode[i0].plain = file
  BY <1>2 DEF encryptAndMAC
<1>6. SizesMeet
  BY <1>1, <1>3, <1>5 DEF SizesMeet, Meets
<1> QED
  BY <1>1, <1>3, <1>4, <1>5, <1>6 DEF AInv, Overlaps, OwnInodes, DueOK

LEMMA SizesStutter ==
    ASSUME AInv, UNCHANGED <<vars, progress>>
    PROVE  AInv'
<1>1. UNCHANGED <<inode, fresh, call, due, mixed>>
  BY DEF vars, progress, history
<1> QED
  BY <1>1 DEF AInv, Overlaps, OwnInodes, InCall, DueOK, NoLostUpdate, Overlapped, SizesMeet

(* AppendsKept for any number of users, sessions, files and calls: unless  *)
(* an AppendToFile overlapped another one or a RevokeAccess, the last Set  *)
(* of a dead client being part of its call, or a Set was refused, no inode *)
(* (service.go) ever loses bytes that a call which returned has stored.    *)
THEOREM AppendsAreKept == ClientsSpec => []AppendsKept
<1>1. ClientsInit => AInv
  BY SizesStart
<1>2. CTypeOK /\ (Heeded => AInv) /\ [ClientsNext]_allVars => (Heeded => AInv)'
  <2> SUFFICES ASSUME CTypeOK, Heeded => AInv, [ClientsNext]_allVars, Heeded'
               PROVE  AInv'
    OBVIOUS
  <2> QED
    BY NextIs, SizesStep, SizesStutter
<1>3. CTypeOK /\ (Heeded => AInv) => AppendsKept
  <2> SUFFICES ASSUME CTypeOK, AInv, NoLostUpdate, NEW i \in DOMAIN due
               PROVE  inode[i].plain.size >= due[i]
    BY DEF AppendsKept, NoLostUpdate, Heeded
  <2>1. i \in DOMAIN inode /\ due[i] \in Nat
    BY DEF AInv, OwnInodes, DueOK
  <2>2. due[i] <= inode[i].plain.size
    BY <2>1 DEF AInv, SizesMeet, Meets
  <2>3. inode[i].plain.size \in Nat
    BY <2>1 DEF CTypeOK, TypeOK, IsStore, Sealed, Inode
  <2> QED
    BY <2>1, <2>2, <2>3
<1> QED
  BY <1>1, <1>2, <1>3, ClientsInductive, PTL DEF ClientsSpec

-----------------------------------------------------------------------------
(* Keys and pointers, while nobody revokes.  A file has the key it was     *)
(* stored under in all its mailboxes, its inode and its blocks; a pointer  *)
(* leads to a mailbox that is stored before the pointer is; and a mailbox  *)
(* leads to an inode that is stored or that a StoreFile in progress makes. *)

Calm == ~Called("RevokeAccess")

(* The numbers that StoreFile and CreateInvitation draw together. *)
NodeFits(node) == node.inode = node.fileKey + 1

Leads(p, boxes) == p.key = p.uuid + 1 /\ p.uuid \in DOMAIN boxes

MailFits(id, record) == record.key = getMailKeys(id + 1) /\ NodeFits(record.plain)

(* The blocks with these ids are sealed under the file key. *)
KeyedAs(ids, fileKey, blocks) ==
    \A k \in DOMAIN ids : ids[k] \in DOMAIN blocks => blocks[ids[k]].key = getFileKeys(fileKey)

(* The n-th of the queued writes finds the mailbox stored. *)
LeadsBy(c, n, p, boxes) ==
    /\ p.key = p.uuid + 1
    /\ \/ p.uuid \in DOMAIN boxes
       \/ \E m \in 1..(n - 1) : c.todo[m].kind = "mailbox" /\ c.todo[m].id = p.uuid

WriteKeyed(c, n, blocks, boxes) ==
    LET w == c.todo[n]
    IN  /\ w.kind \in {"block", "inode"} => w.record.key = getFileKeys(c.node.fileKey)
        /\ w.kind = "inode" => /\ NodeFits(c.node)
                               /\ KeyedAs(w.record.plain.blocks, c.node.fileKey, blocks)
        /\ w.kind = "mailbox" => MailFits(w.id, w.record)
        /\ w.kind = "access" => LeadsBy(c, n, w.record.plain.box, boxes)
        /\ w.kind = "invitation" => LeadsBy(c, n, w.record.box, boxes)

CallKeyed(c, blocks, boxes) ==
    /\ c.at \in {"inode", "block"} => NodeFits(c.node)
    /\ c.at \in {"mailbox", "recipient"} => Leads(c.acc.box, boxes)
    /\ c.at = "sender" => Leads(c.inv.box, boxes)
    /\ c.at = "recipient" => LeadsBy(c, Len(c.todo) + 1, c.box, boxes)
    /\ c.at = "block" => KeyedAs(c.left, c.node.fileKey, blocks)
    /\ \A n \in DOMAIN c.todo : WriteKeyed(c, n, blocks, boxes)

StoresKeyed ==
    /\ \A i \in DOMAIN inode : inode[i].key = getFileKeys(i - 1)
                               /\ KeyedAs(inode[i].plain.blocks, i - 1, block)
    /\ \A m \in DOMAIN mailbox : MailFits(m, mailbox[m])
    /\ \A x \in Slots : access[x] # Absent => Leads(access[x].plain.box, mailbox)
    /\ \A p \in DOMAIN invitation : Leads(invitation[p].box, mailbox)

(* A block number has one key for good. *)
QueueKeyed ==
    /\ \A w \in Queued : w.kind = "block" /\ w.id \in DOMAIN block =>
           block[w.id].key = w.record.key
    /\ \A w, v \in Queued : w.kind = "block" /\ v.kind = "block" /\ w.id = v.id =>
           w.record.key = v.record.key

AllKeyed == /\ StoresKeyed /\ QueueKeyed
            /\ \A s \in Sessions : InCall(s) => CallKeyed(call[s], block, mailbox)

(* Inode i is among nodes, or a StoreFile among the calls cs makes it. *)
There(i, nodes, cs) ==
    \/ i \in DOMAIN nodes
    \/ \E t \in Sessions : cs[t] # Absent /\ cs[t].op = "StoreFile" /\ cs[t].node.inode = i

CallThere(c, nodes, cs) ==
    /\ c.at = "inode" => There(c.node.inode, nodes, cs)
    /\ \A n \in DOMAIN c.todo : c.todo[n].kind = "mailbox" =>
           There(c.todo[n].record.plain.inode, nodes, cs)

AllThere ==
    /\ \A m \in DOMAIN mailbox : There(mailbox[m].plain.inode, inode, call)
    /\ \A s \in Sessions : InCall(s) => CallThere(call[s], inode, call)

CalledIn(op, past) == \E u \in Users : <<u, op>> \in past

CallsBegun == \A s \in Sessions : InCall(s) => CalledIn(call[s].op, begun)

(* Nobody revoked, and no StoreFile was overlapped or cut short. *)
Harmless == Calm /\ "StoreFile" \notin died /\ ~Overlapped({"StoreFile"}, Ops)

Corrupted == {"mailbox", "inode", "block"}

(* Every session has an outcome, and it is no sign of a damaged file. *)
OutcomesOK == /\ outcome = [s \in Sessions |-> outcome[s]]
              /\ Harmless => \A s \in Sessions : outcome[s] \notin Corrupted

KInv ==
    /\ CallsBegun
    /\ Calm => AllKeyed
    /\ Calm /\ "StoreFile" \notin died => AllThere
    /\ OutcomesOK

(* What a method may queue: blocks of its own. *)
NewBlocksOnly(c) ==
    \A n \in DOMAIN c.todo : c.todo[n].kind = "block" =>
        c.todo[n].id >= fresh /\ c.todo[n].id \notin DOMAIN block

LEMMA ThereStays ==
    ASSUME NEW i, NEW nodes, NEW cs, NEW s \in Sessions, NEW c,
           cs \in [Sessions -> Calls \cup {Absent}],
           There(i, nodes, cs), cs[s] # Absent => cs[s].op # "StoreFile"
    PROVE  There(i, nodes, [cs EXCEPT ![s] = c])
<1> DEFINE new == [cs EXCEPT ![s] = c]
<1>1. CASE i \in DOMAIN nodes
  BY <1>1 DEF There
<1>2. ASSUME NEW t \in Sessions, cs[t] # Absent, cs[t].op = "StoreFile", cs[t].node.inode = i
      PROVE  There(i, nodes, new)
  <2>1. new[t] = cs[t]
    BY <1>2
  <2> HIDE DEF new
  <2> QED
    BY <1>2, <2>1 DEF There
<1> HIDE DEF new
<1>3. There(i, nodes, new)
  BY <1>1, <1>2 DEF There
<1> QED
  BY <1>3 DEF new

(* The history only grows. *)
Remembers == begun \subseteq begun' /\ mixed \subseteq mixed' /\ died \subseteq died'

LEMMA StaysCalm ==
    ASSUME Remembers
    PROVE  /\ Calm' => Calm
           /\ "StoreFile" \notin died' => "StoreFile" \notin died
           /\ Overlapped({"StoreFile"}, Ops) => Overlapped({"StoreFile"}, Ops)'
BY DEF Remembers, Calm, Called, Overlapped

LEMMA KeyedGo ==
    ASSUME CTypeOK, BInv, KInv, NEW s \in Sessions, NEW c, Goes(s, c), Remembers, Calm',
           c # Absent => CallKeyed(c, block, mailbox) /\ NewBlocksOnly(c)
    PROVE  AllKeyed'
<1>0. /\ call' = [call EXCEPT ![s] = c] /\ block' = block /\ inode' = inode
      /\ mailbox' = mailbox /\ access' = access /\ invitation' = invitation /\ fresh \in Nat
      /\ call \in [Sessions -> Calls \cup {Absent}]
  BY DEF Goes, datastore, CTypeOK, TypeOK, CallsFit
<1>1. AllKeyed
  BY StaysCalm DEF KInv
<1>2. \A w \in Queued' : \/ w \in Queued
                         \/ c # Absent /\ \E n \in DOMAIN c.todo : w = c.todo[n]
  BY <1>0, QueuedGoes DEF CTypeOK
<1>3. \A w \in Queued : w.kind = "block" => w.id \in Nat /\ w.id < fresh
  BY QueuedWrites DEF CTypeOK, Writes, BInv, BlocksSettled
<1>4. ASSUME c # Absent, NEW n \in DOMAIN c.todo, c.todo[n].kind = "block"
      PROVE  /\ c.todo[n].id >= fresh /\ c.todo[n].id \notin DOMAIN block
             /\ c.todo[n].record.key = getFileKeys(c.node.fileKey)
  BY <1>4 DEF CallKeyed, WriteKeyed, NewBlocksOnly
<1>5. QueueKeyed'
  <2>1. ASSUME NEW w \in Queued', w.kind = "block", w.id \in DOMAIN block'
        PROVE  block'[w.id].key = w.record.key
    <3>1. w \in Queued
      BY <1>0, <1>2, <1>4, <2>1
    <3> QED
      BY <1>0, <1>1, <2>1, <3>1 DEF AllKeyed, QueueKeyed
  <2>2. ASSUME NEW w \in Queued', NEW v \in Queued', w.kind = "block", v.kind = "block",
               w.id = v.id
        PROVE  w.record.key = v.record.key
    <3>1. CASE w \in Queued /\ v \in Queued
      BY <1>1, <2>2, <3>1 DEF AllKeyed, QueueKeyed
    <3>2. CASE c # Absent /\ (\E n \in DOMAIN c.todo : w = c.todo[n])
                          /\ (\E n \in DOMAIN c.todo : v = c.todo[n])
      BY <1>4, <2>2, <3>2
    <3>3. ASSUME NEW x \in Queued, x.kind = "block", c # Absent, NEW n \in DOMAIN c.todo,
                 c.todo[n].kind = "block"
          PROVE  x.id # c.todo[n].id
      BY <1>0, <1>3, <1>4, <3>3
    <3> QED
      BY <1>2, <2>2, <3>1, <3>2, <3>3
  <2> QED
    BY <2>1, <2>2 DEF QueueKeyed
<1>6. StoresKeyed'
  BY <1>0, <1>1 DEF AllKeyed, StoresKeyed
<1>7. ASSUME NEW t \in Sessions, InCall(t)' PROVE CallKeyed(call'[t], block', mailbox')
  <2>1. CASE t = s
    BY <1>0, <1>7, <2>1 DEF InCall
  <2>2. CASE t # s
    BY <1>0, <1>1, <1>7, <2>2 DEF InCall, AllKeyed
  <2> QED
    BY <2>1, <2>2
<1> QED
  BY <1>5, <1>6, <1>7 DEF AllKeyed

LEMMA ThereGo ==
    ASSUME CTypeOK, KInv, NEW s \in Sessions, NEW c, Goes(s, c), Remembers, Calm',
           "StoreFile" \notin died',
           InCall(s) => call[s].op # "StoreFile",
           c # Absent => CallThere(c, inode, call')
    PROVE  AllThere'
<1>0. /\ call' = [call EXCEPT ![s] = c] /\ inode' = inode /\ mailbox' = mailbox
      /\ call \in [Sessions -> Calls \cup {Absent}]
  BY DEF Goes, datastore, CTypeOK, TypeOK, CallsFit
<1>1. AllThere
  BY StaysCalm DEF KInv
<1>2. ASSUME NEW i, There(i, inode, call) PROVE There(i, inode, call')
  BY <1>0, <1>2, ThereStays DEF InCall
<1>3. ASSUME NEW t \in Sessions, InCall(t)' PROVE CallThere(call'[t], inode', call')
  <2>1. CASE t = s
    BY <1>0, <1>3, <2>1 DEF InCall
  <2>2. CASE t # s
    <3>1. call'[t] = call[t] /\ InCall(t)
      BY <1>0, <1>3, <2>2 DEF InCall
    <3> QED
      BY <1>0, <1>1, <1>2, <3>1 DEF AllThere, CallThere
  <2> QED
    BY <2>1, <2>2
<1>4. \A m \in DOMAIN mailbox' : There(mailbox'[m].plain.inode, inode', call')
  BY <1>0, <1>1, <1>2 DEF AllThere
<1> QED
  BY <1>3, <1>4 DEF AllThere

(* A session's step that writes nothing. *)
LEMMA KeysGo ==
    ASSUME CTypeOK, BInv, KInv, NEW s \in Sessions, NEW c, Goes(s, c), Remembers,
           c # Absent => /\ CalledIn(c.op, begun')
                         /\ Calm' => CallKeyed(c, block, mailbox) /\ NewBlocksOnly(c)
                         /\ Calm' /\ "StoreFile" \notin died' => CallThere(c, inode, call'),
           InCall(s) /\ call[s].op = "StoreFile" => "StoreFile" \in died',
           OutcomesOK'
    PROVE  KInv'
<1>1. CallsBegun'
  <2> SUFFICES ASSUME NEW t \in Sessions, InCall(t)' PROVE CalledIn(call'[t].op, begun')
    BY DEF CallsBegun
  <2>0. call' = [call EXCEPT ![s] = c] /\ call \in [Sessions -> Calls \cup {Absent}]
    BY DEF Goes, CTypeOK, CallsFit
  <2>1. CASE t = s
    BY <2>0, <2>1 DEF InCall
  <2>2. CASE t # s
    <3>1. call'[t] = call[t] /\ InCall(t)
      BY <2>0, <2>2 DEF InCall
    <3>2. CalledIn(call[t].op, begun)
      BY <3>1 DEF KInv, CallsBegun
    <3> QED
      BY <3>1, <3>2 DEF CalledIn, Remembers
  <2> QED
    BY <2>1, <2>2
<1>2. Calm' => AllKeyed'
  BY KeyedGo
<1>3. Calm' /\ "StoreFile" \notin died' => AllThere'
  BY ThereGo
<1> QED
  BY <1>1, <1>2, <1>3 DEF KInv

LEMMA OutcomeStays ==
    ASSUME KInv, Remembers, outcome' = outcome
    PROVE  OutcomesOK'
BY StaysCalm DEF KInv, OutcomesOK, Harmless

LEMMA OutcomeSet ==
    ASSUME KInv, Remembers, NEW s \in Sessions, NEW x, outcome' = [outcome EXCEPT ![s] = x],
           Harmless' => x \notin Corrupted
    PROVE  OutcomesOK'
<1> DEFINE new == outcome'
<1>1. outcome = [t \in Sessions |-> outcome[t]]
  BY DEF KInv, OutcomesOK
<1>2. /\ new = [t \in Sessions |-> new[t]] /\ new[s] = x
      /\ \A t \in Sessions : t # s => new[t] = outcome[t]
  BY <1>1
<1>3. Harmless' => \A t \in Sessions : outcome[t] \notin Corrupted
  BY StaysCalm DEF Harmless, KInv, OutcomesOK
<1>4. Harmless' => \A t \in Sessions : new[t] \notin Corrupted
  BY <1>2, <1>3
<1> QED
  BY <1>2, <1>4 DEF OutcomesOK

(* A method reads and goes on, or is done. *)
LEMMA ReadKeys ==
    ASSUME CTypeOK, BInv, KInv, NEW s \in Sessions, InCall(s), NEW c, Goes(s, c),
           begun' = begun, mixed' = mixed, died' = died, call[s].op # "StoreFile", OutcomesOK',
           c # Absent => /\ c.op = call[s].op
                         /\ Calm => CallKeyed(c, block, mailbox) /\ NewBlocksOnly(c)
                         /\ Calm /\ "StoreFile" \notin died => CallThere(c, inode, call)
    PROVE  KInv'
<1>1. Remembers
  BY DEF Remembers
<1>2. call' = [call EXCEPT ![s] = c] /\ call \in [Sessions -> Calls \cup {Absent}]
  BY DEF Goes, CTypeOK, CallsFit
<1>3. ASSUME NEW i, There(i, inode, call) PROVE There(i, inode, call')
  BY <1>2, <1>3, ThereStays
<1>4. CallThere(c, inode, call) => CallThere(c, inode, call')
  BY <1>3 DEF CallThere
<1>5. c # Absent => CalledIn(c.op, begun')
  BY DEF KInv, CallsBegun
<1>6. Calm' => Calm
  BY <1>1, StaysCalm
<1> QED
  BY <1>1, <1>4, <1>5, <1>6, KeysGo

LEMMA ReadOps ==
    ASSUME CTypeOK, NEW s \in Sessions, InCall(s), call[s].at # "return"
    PROVE  /\ call[s].op # "StoreFile" /\ call[s] \in Calls /\ fresh \in Nat
           /\ sessions[s] \in User /\ Fits(call[s]) /\ call[s].f \in Filenames
<1>1. Fits(call[s]) /\ sessions[s] \in User /\ fresh \in Nat
  BY CallType
<1>2. call[s] \in Calls /\ OpFits(call[s])
  BY <1>1 DEF Fits
<1> QED
  BY <1>1, <1>2 DEF OpFits, Calls

LEMMA GetAccessKeys ==
    ASSUME CTypeOK, BInv, KInv, NEW s \in Sessions, GetAccess(s)
    PROVE  KInv'
<1> DEFINE c == call[s]
           acc == AccessOf(sessions[s], c.f)
           d == [c EXCEPT !.acc = acc, !.at = "mailbox"]
<1>1. InCall(s) /\ c.at = "access" /\ c.todo = <<>>
  BY DEF GetAccess, At, InCall
<1>2. c.op # "StoreFile" /\ c \in Calls /\ sessions[s] \in User /\ c.f \in Filenames
  BY <1>1, ReadOps
<1>3. due' = due /\ mixed' = mixed /\ begun' = begun /\ died' = died
  BY ReadsHistory
<1>4. OutcomesOK'
  <2>1. Remembers
    BY <1>3 DEF Remembers
  <2>2. outcome' = outcome \/ outcome' = [outcome EXCEPT ![s] = "access"]
    BY <1>1 DEF GetAccess, Continue, Fails
  <2> QED
    BY <2>1, <2>2, OutcomeStays, OutcomeSet DEF Corrupted
<1>5. Goes(s, Absent) \/ (OpensAccess(sessions[s], c.f) /\ Goes(s, d))
  BY GetAccessGoes, Zenon DEF GoesOn
<1>6. CASE Goes(s, Absent)
  BY <1>1, <1>2, <1>3, <1>4, <1>6, ReadKeys
<1>7. CASE OpensAccess(sessions[s], c.f) /\ Goes(s, d)
  <2>1. Calm => Leads(acc.box, mailbox)
    <3>1. Slot(sessions[s], c.f) \in Slots
      BY <1>2 DEF Slot, Slots, User
    <3> QED
      BY <1>7, <3>1 DEF OpensAccess, AccessOf, KInv, AllKeyed, StoresKeyed
  <2> HIDE DEF acc
  <2>2. d.at = "mailbox" /\ d.acc = acc /\ d.todo = <<>> /\ d.op = c.op
    BY <1>1, <1>2 DEF Calls
  <2> HIDE DEF d
  <2>3. Calm => CallKeyed(d, block, mailbox) /\ NewBlocksOnly(d)
    BY <2>1, <2>2 DEF CallKeyed, NewBlocksOnly
  <2>4. CallThere(d, inode, call)
    BY <2>2 DEF CallThere
  <2> QED
    BY <1>1, <1>2, <1>3, <1>4, <1>7, <2>2, <2>3, <2>4, ReadKeys
<1> QED
  BY <1>5, <1>6, <1>7

LEMMA GetInvitationKeys ==
    ASSUME CTypeOK, BInv, KInv, NEW s \in Sessions, GetInvitation(s)
    PROVE  KInv'
<1> DEFINE c == call[s]
           inv == invitation[c.arg[2]]
           d == [c EXCEPT !.inv = inv, !.at = "sender"]
<1>1. InCall(s) /\ c.at = "invitation" /\ c.todo = <<>>
  BY DEF GetInvitation, At, InCall
<1>2. c.op # "StoreFile" /\ c \in Calls
  BY <1>1, ReadOps
<1>3. due' = due /\ mixed' = mixed /\ begun' = begun /\ died' = died
  BY ReadsHistory
<1>4. OutcomesOK'
  <2>1. Remembers
    BY <1>3 DEF Remembers
  <2>2. outcome' = outcome \/ outcome' = [outcome EXCEPT ![s] = "invitation"]
    BY <1>1 DEF GetInvitation, Continue, Fails
  <2> QED
    BY <2>1, <2>2, OutcomeStays, OutcomeSet DEF Corrupted
<1>5. Goes(s, Absent) \/ (c.arg[2] \in DOMAIN invitation /\ Goes(s, d))
  BY GetInvitationGoes, Zenon DEF GoesOn
<1>6. CASE Goes(s, Absent)
  BY <1>1, <1>2, <1>3, <1>4, <1>6, ReadKeys
<1>7. CASE c.arg[2] \in DOMAIN invitation /\ Goes(s, d)
  <2>1. Calm => Leads(inv.box, mailbox)
    BY <1>7 DEF KInv, AllKeyed, StoresKeyed
  <2> HIDE DEF inv
  <2>2. d.at = "sender" /\ d.inv = inv /\ d.todo = <<>> /\ d.op = c.op
    BY <1>1, <1>2 DEF Calls
  <2> HIDE DEF d
  <2>3. Calm => CallKeyed(d, block, mailbox) /\ NewBlocksOnly(d)
    BY <2>1, <2>2 DEF CallKeyed, NewBlocksOnly
  <2>4. CallThere(d, inode, call)
    BY <2>2 DEF CallThere
  <2> QED
    BY <1>1, <1>2, <1>3, <1>4, <1>7, <2>2, <2>3, <2>4, ReadKeys
<1> QED
  BY <1>5, <1>6, <1>7

LEMMA GetMailboxKeys ==
    ASSUME CTypeOK, BInv, KInv, NEW s \in Sessions, GetMailbox(s)
    PROVE  KInv'
<1> DEFINE c == call[s]
           node == mailbox[c.acc.box.uuid].plain
           box  == [uuid |-> fresh, key |-> fresh + 1]
<1>1. InCall(s) /\ c.at = "mailbox" /\ c.todo = <<>>
  BY DEF GetMailbox, At, InCall
<1>2. c.op # "StoreFile" /\ c \in Calls /\ fresh \in Nat
  BY <1>1, ReadOps
<1>3. due' = due /\ mixed' = mixed /\ begun' = begun /\ died' = died
  BY ReadsHistory
<1>4. Calm => Leads(c.acc.box, mailbox) /\ OpensMailbox(c.acc.box) /\ NodeFits(node)
  <2> SUFFICES ASSUME Calm
               PROVE  Leads(c.acc.box, mailbox) /\ OpensMailbox(c.acc.box) /\ NodeFits(node)
    OBVIOUS
  <2>1. Leads(c.acc.box, mailbox)
    BY <1>1 DEF KInv, AllKeyed, CallKeyed
  <2>2. MailFits(c.acc.box.uuid, mailbox[c.acc.box.uuid])
    BY <2>1 DEF KInv, AllKeyed, StoresKeyed, Leads
  <2> QED
    BY <2>1, <2>2 DEF Leads, MailFits, OpensMailbox, decrypts
<1>5. Calm /\ "StoreFile" \notin died => There(node.inode, inode, call)
  BY <1>4 DEF KInv, AllThere, Leads
<1>6. OutcomesOK'
  <2>1. Remembers
    BY <1>3 DEF Remembers
  <2>2. \/ outcome' = outcome
        \/ ~OpensMailbox(c.acc.box) /\ outcome' = [outcome EXCEPT ![s] = "mailbox"]
    BY <1>1 DEF GetMailbox, Continue, Fails
  <2>3. Harmless' => Calm
    BY <2>1, StaysCalm DEF Harmless
  <2> QED
    BY <1>4, <2>1, <2>2, <2>3, OutcomeStays, OutcomeSet
<1>7. CASE Goes(s, Absent)
  BY <1>1, <1>2, <1>3, <1>6, <1>7, ReadKeys
<1>8. CASE OpensMailbox(c.acc.box) /\ Goes(s, [c EXCEPT !.node = node, !.at = "inode"])
  <2> DEFINE d == [c EXCEPT !.node = node, !.at = "inode"]
  <2> HIDE DEF node
  <2>1. d.at = "inode" /\ d.node = node /\ d.todo = <<>> /\ d.op = c.op
    BY <1>1, <1>2 DEF Calls
  <2>2. Goes(s, d)
    BY <1>8
  <2> HIDE DEF d
  <2>3. Calm => CallKeyed(d, block, mailbox) /\ NewBlocksOnly(d)
    BY <1>4, <2>1 DEF CallKeyed, NewBlocksOnly
  <2>4. Calm /\ "StoreFile" \notin died => CallThere(d, inode, call)
    BY <1>5, <2>1 DEF CallThere
  <2> QED
    BY <1>1, <1>2, <1>3, <1>6, <2>1, <2>2, <2>3, <2>4, ReadKeys
<1>9. CASE OpensMailbox(c.acc.box) /\ Goes(s, [c EXCEPT !.node = node, !.box = box,
                                       !.at = "recipient", !.todo = <<SetMailbox(box, node)>>])
  <2> DEFINE w == SetMailbox(box, node)
             d == [c EXCEPT !.node = node, !.box = box, !.at = "recipient", !.todo = <<w>>]
  <2>1. Goes(s, d)
    BY <1>9
  <2>2. node \in MailboxNode /\ box \in Pointer /\ box.uuid = fresh /\ box.key = fresh + 1
    BY <1>2, <1>9, ReadTypes DEF CTypeOK, Pointer
  <2> HIDE DEF node, box
  <2>3. /\ w.kind = "mailbox" /\ w.id = box.uuid /\ w.record.plain = node
        /\ w.record.key = getMailKeys(box.key)
    BY DEF SetMailbox, Set, encryptAndMAC
  <2> HIDE DEF w
  <2>4. d.at = "recipient" /\ d.box = box /\ d.acc = c.acc /\ d.todo = <<w>> /\ d.op = c.op
    BY <1>1, <1>2 DEF Calls
  <2> HIDE DEF d
  <2>5. /\ DOMAIN d.todo = {1} /\ d.todo[1] = w /\ Len(d.todo) = 1
        /\ 1 \in 1..((Len(d.todo) + 1) - 1)
    BY <2>4
  <2>6. Calm => WriteKeyed(d, 1, block, mailbox)
    BY <1>4, <2>2, <2>3, <2>5 DEF WriteKeyed, MailFits
  <2>7. LeadsBy(d, Len(d.todo) + 1, d.box, mailbox)
    BY <2>2, <2>3, <2>4, <2>5 DEF LeadsBy
  <2>8. Calm => CallKeyed(d, block, mailbox) /\ NewBlocksOnly(d)
    BY <1>4, <2>3, <2>4, <2>5, <2>6, <2>7 DEF CallKeyed, NewBlocksOnly
  <2>9. Calm /\ "StoreFile" \notin died => CallThere(d, inode, call)
    BY <1>5, <2>3, <2>4, <2>5 DEF CallThere
  <2> QED
    BY <1>1, <1>2, <1>3, <1>6, <2>1, <2>4, <2>8, <2>9, ReadKeys
<1> QED
  BY <1>7, <1>8, <1>9, GetMailboxGoes, Zenon DEF GoesOn

(* RevokeAccess is not one of the methods of a calm history. *)
LEMMA RevokeKeys ==
    ASSUME CTypeOK, BInv, KInv, NEW s \in Sessions, InCall(s), call[s].op = "RevokeAccess",
           NEW c, Goes(s, c), c # Absent => c.op = "RevokeAccess",
           begun' = begun, mixed' = mixed, died' = died,
           NEW x, outcome' = outcome \/ outcome' = [outcome EXCEPT ![s] = x]
    PROVE  KInv'
<1>1. Remembers
  BY DEF Remembers
<1>2. ~Calm
  BY DEF KInv, CallsBegun, CalledIn, Calm, Called
<1>3. ~Harmless'
  BY <1>1, <1>2, StaysCalm DEF Harmless
<1>4. OutcomesOK'
  BY <1>1, <1>3, OutcomeStays, OutcomeSet
<1> QED
  BY <1>2, <1>4, ReadKeys

LEMMA ResealKeys ==
    ASSUME CTypeOK, BInv, KInv, NEW s \in Sessions, Reseal(s) \/ GetChild(s)
    PROVE  KInv'
<1> DEFINE c == call[s]
<1>1. InCall(s) /\ c.at \in {"reseal", "child"}
  BY Zenon DEF Reseal, GetChild, At, InCall
<1>2. c.op = "RevokeAccess" /\ c \in Calls
  BY <1>1, CallType DEF Fits, OpFits
<1>3. due' = due /\ mixed' = mixed /\ begun' = begun /\ died' = died
  BY ReadsHistory
<1>4. outcome' = outcome \/ outcome' = [outcome EXCEPT ![s] = c.at]
  BY Zenon DEF Reseal, GetChild, Continue, Fails
<1>5. \E d : Goes(s, d) /\ (d # Absent => d.op = "RevokeAccess")
  <2>1. CASE GetChild(s)
    BY <1>2, <2>1, PlainReads DEF Plain
  <2>2. CASE Reseal(s)
    <3> DEFINE b == Head(c.left)
               ks == {u \in Users \ {c.arg} : c.acc.children[u] # Absent}
               ws == RevokeWrites(c)
               bs == <<Set("block", b, encryptAndMAC(block[b].plain, getFileKeys(c.key)))>>
               d1 == [c EXCEPT !.left = Tail(@), !.todo = bs]
               d2 == [c EXCEPT !.at = "child", !.kids = ks, !.todo = ws]
    <3>1. Goes(s, Absent) \/ Goes(s, d1) \/ Goes(s, d2)
      BY <2>2, ResealGoes, Zenon DEF GoesOn
    <3> HIDE DEF b, ks, ws, bs
    <3>2. d1.op = "RevokeAccess" /\ d2.op = "RevokeAccess"
      BY <1>2 DEF Calls
    <3> HIDE DEF d1, d2
    <3> QED
      BY <3>1, <3>2
  <2> QED
    BY <2>1, <2>2
<1> QED
  BY <1>1, <1>2, <1>3, <1>4, <1>5, RevokeKeys

LEMMA GetBlockKeys ==
    ASSUME CTypeOK, BInv, KInv, NEW s \in Sessions, GetBlock(s)
    PROVE  KInv'
<1> DEFINE c == call[s]
           b == Head(c.left)
           x == block[b].plain
           d == [c EXCEPT !.left = Tail(@), !.got = @ \o x]
<1>1. InCall(s) /\ c.at = "block" /\ c.todo = <<>>
  BY DEF GetBlock, At, InCall
<1>2. c.op # "StoreFile" /\ c \in Calls /\ c.left \in Seq(Nat)
  BY <1>1, ReadOps DEF Calls
<1>3. due' = due /\ mixed' = mixed /\ begun' = begun /\ died' = died
  BY ReadsHistory
<1>4. Exist(c.left, block)
  BY <1>1 DEF BInv, CallBacked
<1>5. Calm => KeyedAs(c.left, c.node.fileKey, block) /\ NodeFits(c.node)
  BY <1>1 DEF KInv, AllKeyed, CallKeyed
<1>6. Calm /\ c.left # <<>> => OpensBlock(b, c.node)
  <2>1. c.left # <<>> => 1 \in DOMAIN c.left /\ b = c.left[1]
    BY <1>2
  <2> QED
    BY <1>4, <1>5, <2>1 DEF Exist, KeyedAs, OpensBlock, decrypts
<1>7. OutcomesOK'
  <2>1. Remembers
    BY <1>3 DEF Remembers
  <2>2. \/ outcome' = outcome \/ outcome' = [outcome EXCEPT ![s] = "ok"]
        \/ /\ c.left # <<>> /\ ~OpensBlock(b, c.node)
           /\ outcome' = [outcome EXCEPT ![s] = "block"]
    BY <1>1 DEF GetBlock, Continue, Fails, Returns
  <2>3. Harmless' => Calm
    BY <2>1, StaysCalm DEF Harmless
  <2>4. "ok" \notin Corrupted
    BY DEF Corrupted
  <2> QED
    BY <1>6, <2>1, <2>2, <2>3, <2>4, OutcomeStays, OutcomeSet
<1>8. CASE Goes(s, Absent)
  BY <1>1, <1>2, <1>3, <1>7, <1>8, ReadKeys
<1>9. CASE c.left # <<>> /\ Goes(s, d)
  <2> HIDE DEF x, b
  <2>1. d.at = "block" /\ d.node = c.node /\ d.left = Tail(c.left) /\ d.todo = <<>> /\ d.op = c.op
    BY <1>1, <1>2 DEF Calls
  <2> HIDE DEF d
  <2>2. \A n \in DOMAIN Tail(c.left) : n + 1 \in DOMAIN c.left /\ Tail(c.left)[n] = c.left[n + 1]
    BY <1>2, <1>9
  <2>3. Calm => KeyedAs(Tail(c.left), c.node.fileKey, block)
    BY <1>5, <2>2 DEF KeyedAs
  <2>4. Calm => CallKeyed(d, block, mailbox) /\ NewBlocksOnly(d)
    BY <1>5, <2>1, <2>3 DEF CallKeyed, NewBlocksOnly
  <2>5. CallThere(d, inode, call)
    BY <2>1 DEF CallThere
  <2> QED
    BY <1>1, <1>2, <1>3, <1>7, <1>9, <2>1, <2>4, <2>5, ReadKeys
<1> QED
  BY <1>8, <1>9, GetBlockGoes, Zenon DEF GoesOn

LEMMA GetSenderKeyKeys ==
    ASSUME CTypeOK, BInv, KInv, NEW s \in Sessions, GetSenderKey(s)
    PROVE  KInv'
<1> DEFINE c == call[s]
           acc == [box |-> c.inv.box, children |-> NoChildren]
           w1 == SetAccess(sessions[s], c.f, acc)
           w2 == SetUser(sessions[s], c.f)
           d == [c EXCEPT !.at = "return", !.todo = <<w1, w2>>]
<1>1. InCall(s) /\ c.at = "sender" /\ c.todo = <<>>
  BY DEF GetSenderKey, At, InCall
<1>2. c.op # "StoreFile" /\ c \in Calls
  BY <1>1, ReadOps
<1>3. due' = due /\ mixed' = mixed /\ begun' = begun /\ died' = died
  BY ReadsHistory
<1>4. OutcomesOK'
  <2>1. Remembers
    BY <1>3 DEF Remembers
  <2>2. outcome' = outcome \/ outcome' = [outcome EXCEPT ![s] = "sender"]
    BY <1>1 DEF GetSenderKey, Continue, Fails
  <2> QED
    BY <2>1, <2>2, OutcomeStays, OutcomeSet DEF Corrupted
<1>5. Goes(s, Absent) \/ Goes(s, d)
  BY GetSenderKeyGoes, Zenon DEF GoesOn
<1>6. CASE Goes(s, Absent)
  BY <1>1, <1>2, <1>3, <1>4, <1>6, ReadKeys
<1>7. CASE Goes(s, d)
  <2>1. Calm => Leads(c.inv.box, mailbox)
    BY <1>1 DEF KInv, AllKeyed, CallKeyed
  <2>2. w1.kind = "access" /\ w2.kind = "account" /\ w1.record.plain = acc
    BY DEF SetAccess, SetUser, Set, encryptAndMAC
  <2>3. acc.box = c.inv.box
    OBVIOUS
  <2> HIDE DEF acc, w1, w2
  <2>4. d.at = "return" /\ d.todo = <<w1, w2>> /\ d.op = c.op
    BY <1>1, <1>2 DEF Calls
  <2> HIDE DEF d
  <2>5. DOMAIN d.todo = {1, 2} /\ d.todo[1] = w1 /\ d.todo[2] = w2
    BY <2>4
  <2>6. Calm => WriteKeyed(d, 1, block, mailbox) /\ WriteKeyed(d, 2, block, mailbox)
    BY <2>1, <2>2, <2>3, <2>5 DEF WriteKeyed, LeadsBy, Leads
  <2>7. Calm => CallKeyed(d, block, mailbox) /\ NewBlocksOnly(d)
    BY <2>2, <2>4, <2>5, <2>6 DEF CallKeyed, NewBlocksOnly
  <2>8. CallThere(d, inode, call)
    BY <2>2, <2>4, <2>5 DEF CallThere
  <2> QED
    BY <1>1, <1>2, <1>3, <1>4, <1>7, <2>4, <2>7, <2>8, ReadKeys
<1> QED
  BY <1>5, <1>6, <1>7

LEMMA GetRecipientKeyKeys ==
    ASSUME CTypeOK, BInv, KInv, NEW s \in Sessions, GetRecipientKey(s)
    PROVE  KInv'
<1> DEFINE c == call[s]
           acc == WithChild(c.acc, c.arg, c.box)
           inv == [enc |-> keystore[c.arg].enc, sig |-> sessions[s].ds, box |-> c.box]
           w1 == Set("invitation", fresh, inv)
           w2 == SetAccess(sessions[s], c.f, acc)
           d == [c EXCEPT !.at = "return", !.todo = <<w1, w2>>]
<1>1. InCall(s) /\ c.at = "recipient" /\ c.todo = <<>>
  BY DEF GetRecipientKey, At, InCall
<1>2. c.op # "StoreFile" /\ c \in Calls /\ Fits(c)
  BY <1>1, ReadOps
<1>3. due' = due /\ mixed' = mixed /\ begun' = begun /\ died' = died
  BY ReadsHistory
<1>4. OutcomesOK'
  <2>1. Remembers
    BY <1>3 DEF Remembers
  <2>2. outcome' = outcome \/ outcome' = [outcome EXCEPT ![s] = "recipient"]
    BY <1>1 DEF GetRecipientKey, Continue, Fails
  <2> QED
    BY <2>1, <2>2, OutcomeStays, OutcomeSet DEF Corrupted
<1>5. Goes(s, Absent) \/ Goes(s, d)
  BY GetRecipientKeyGoes, Zenon DEF InviteWrites, GoesOn
<1>6. CASE Goes(s, Absent)
  BY <1>1, <1>2, <1>3, <1>4, <1>6, ReadKeys
<1>7. CASE Goes(s, d)
  <2>1. Calm => Leads(c.acc.box, mailbox) /\ LeadsBy(c, Len(c.todo) + 1, c.box, mailbox)
    BY <1>1 DEF KInv, AllKeyed, CallKeyed
  <2>2. Calm => Leads(c.box, mailbox)
    <3>1. 1..((Len(c.todo) + 1) - 1) = {}
      BY <1>1
    <3> QED
      BY <2>1, <3>1 DEF LeadsBy, Leads
  <2>3. acc.box = c.acc.box
    <3>1. c.acc \in Access
      BY <1>1, <1>2 DEF Fits, Has
    <3> QED
      BY <3>1 DEF WithChild, Access
  <2>4. inv.box = c.box
    OBVIOUS
  <2> HIDE DEF acc, inv
  <2>5. /\ w1.kind = "invitation" /\ w2.kind = "access" /\ w2.record.plain = acc
        /\ w1.record = inv
    BY DEF SetAccess, Set, encryptAndMAC
  <2> HIDE DEF w1, w2
  <2>6. d.at = "return" /\ d.todo = <<w1, w2>> /\ d.op = c.op
    BY <1>1, <1>2 DEF Calls
  <2> HIDE DEF d
  <2>7. DOMAIN d.todo = {1, 2} /\ d.todo[1] = w1 /\ d.todo[2] = w2
    BY <2>6
  <2>8. Calm => WriteKeyed(d, 1, block, mailbox) /\ WriteKeyed(d, 2, block, mailbox)
    BY <2>1, <2>2, <2>3, <2>4, <2>5, <2>7 DEF WriteKeyed, LeadsBy, Leads
  <2>9. Calm => CallKeyed(d, block, mailbox) /\ NewBlocksOnly(d)
    BY <2>5, <2>6, <2>7, <2>8 DEF CallKeyed, NewBlocksOnly
  <2>10. CallThere(d, inode, call)
    BY <2>5, <2>6, <2>7 DEF CallThere
  <2> QED
    BY <1>1, <1>2, <1>3, <1>4, <1>7, <2>6, <2>9, <2>10, ReadKeys
<1> QED
  BY <1>5, <1>6, <1>7

LEMMA GetInodeKeys ==
    ASSUME CTypeOK, BInv, AInv, KInv, NEW s \in Sessions, GetInode(s)
    PROVE  KInv'
<1> DEFINE c    == call[s]
           i    == c.node.inode
           key  == c.node.fileKey
           file == inode[i].plain
<1>1. InCall(s) /\ c.at = "inode" /\ c.todo = <<>>
  BY DEF GetInode, At, InCall
<1>2. /\ c.op # "StoreFile" /\ c \in Calls /\ fresh \in Nat /\ c.node \in MailboxNode
      /\ c.op \in Ops /\ (c.op = "AppendToFile" => c.arg \in Contents)
      /\ key \in Nat /\ i \in Nat
  BY <1>1, ReadOps DEF Fits, Has, OpFits, MailboxNode
<1>3. due' = due /\ mixed' = mixed /\ begun' = begun /\ died' = died
  BY ReadsHistory
<1>4. Calm => i = key + 1 /\ i - 1 = key /\ NodeFits(c.node)
  <2>1. Calm => NodeFits(c.node)
    BY <1>1 DEF KInv, AllKeyed, CallKeyed
  <2> QED
    BY <1>2, <2>1 DEF NodeFits
<1>5. Calm /\ i \in DOMAIN inode => OpensInode(c.node) /\ KeyedAs(file.blocks, key, block)
  BY <1>4 DEF KInv, AllKeyed, StoresKeyed, OpensInode, decrypts
<1>6. OpensInode(c.node) => /\ i \in DOMAIN inode /\ file \in Inode
                            /\ file.blocks \in Seq(Nat) /\ Exist(file.blocks, block)
  BY ReadTypes DEF CTypeOK, Inode, OpensInode, BInv, InodesBacked
<1>7. Harmless => i \in DOMAIN inode
  <2> SUFFICES ASSUME Harmless, i \notin DOMAIN inode PROVE FALSE
    OBVIOUS
  <2>1. There(i, inode, call)
    BY <1>1 DEF Harmless, KInv, AllThere, CallThere
  <2>2. PICK t \in Sessions : call[t] # Absent /\ call[t].op = "StoreFile"
    BY <2>1 DEF There
  <2>3. {call[t].op, c.op} \in mixed
    BY <1>1, <1>2, <2>2 DEF AInv, Overlaps, InCall
  <2> QED
    BY <1>2, <2>2, <2>3 DEF Harmless, Overlapped
<1>8. Remembers
  BY <1>3 DEF Remembers
<1>9. outcome' = outcome \/ (~OpensInode(c.node) /\ outcome' = [outcome EXCEPT ![s] = "inode"])
  BY <1>1 DEF GetInode, Continue, Fails
<1>10. OutcomesOK'
  <2>1. Harmless' => Harmless
    BY <1>8, StaysCalm DEF Harmless
  <2>2. Harmless => OpensInode(c.node)
    BY <1>5, <1>7 DEF Harmless
  <2> QED
    BY <1>8, <1>9, <2>1, <2>2, OutcomeStays, OutcomeSet
<1>11. Goes(s, Absent) => KInv'
  BY <1>1, <1>2, <1>3, <1>10, ReadKeys
<1>12. CASE OpensInode(c.node) /\ c.op = "LoadFile"
  <2> DEFINE saw == IF Range(file.blocks) \subseteq DOMAIN block
                    THEN FileBytes(c.node.inode) ELSE <<>>
             d   == [c EXCEPT !.at = "block", !.file = file, !.left = file.blocks, !.saw = saw]
  <2>1. Goes(s, d)
    BY <1>12, GetInodeGoes, Zenon DEF GoesOn
  <2> HIDE DEF saw, file
  <2>2. d.at = "block" /\ d.left = file.blocks /\ d.node = c.node /\ d.op = c.op /\ d.todo = <<>>
    BY <1>1, <1>2 DEF Calls
  <2> HIDE DEF d
  <2>3. Calm => CallKeyed(d, block, mailbox) /\ NewBlocksOnly(d)
    BY <1>4, <1>5, <1>6, <1>12, <2>2 DEF CallKeyed, NewBlocksOnly
  <2>4. CallThere(d, inode, call)
    BY <2>2 DEF CallThere
  <2> QED
    BY <1>1, <1>2, <1>3, <1>10, <2>1, <2>2, <2>3, <2>4, ReadKeys
<1>13. CASE OpensInode(c.node) /\ c.op = "AppendToFile"
  <2> DEFINE ws == AppendWrites(c, file)
             n  == Len(ByteToBlock(c.arg))
             new == Appended(file, c.arg, fresh)
             d  == [c EXCEPT !.at = "return", !.todo = ws]
  <2>1. Goes(s, d)
    BY <1>13, GetInodeGoes, Zenon DEF GoesOn
  <2>2. /\ n \in Nat /\ ws \in Seq(Writes) /\ Len(ws) = n + 1
        /\ \A k \in 1..n : /\ ws[k].kind = "block" /\ ws[k].id = fresh + k - 1
                           /\ ws[k].record.key = getFileKeys(key)
        /\ ws[n + 1].kind = "inode" /\ ws[n + 1].record.key = getFileKeys(key)
        /\ ws[n + 1].record.plain = new
    <3> DEFINE r == [key |-> <<"file", key>>, plain |-> new]
    <3>1. /\ n \in Nat /\ new \in Inode
          /\ ws \in Seq(Writes) /\ Len(ws) = n + 1
          /\ \A k \in 1..n : /\ ws[k].kind = "block" /\ ws[k].id = fresh + k - 1
                             /\ ws[k].record.key = getFileKeys(key)
          /\ ws[n + 1] = [kind |-> "inode", id |-> i, record |-> r]
      BY <1>2, <1>6, <1>13, AppendWritesAre
    <3>2. r.plain = new /\ r.key = getFileKeys(key)
      BY DEF getFileKeys
    <3> HIDE DEF r, ws, n, new
    <3>3. ws[n + 1].kind = "inode" /\ ws[n + 1].record = r
      BY <3>1
    <3> QED
      BY <3>1, <3>2, <3>3
  <2>3. Calm => KeyedAs(new.blocks, key, block)
    <3> SUFFICES ASSUME Calm, NEW k \in DOMAIN new.blocks, new.blocks[k] \in DOMAIN block
                 PROVE  block[new.blocks[k]].key = getFileKeys(key)
      BY Zenon DEF KeyedAs
    <3>1. \/ k \in DOMAIN file.blocks /\ new.blocks[k] = file.blocks[k]
          \/ /\ k - Len(file.blocks) \in 1..n
             /\ new.blocks[k] = fresh + (k - Len(file.blocks)) - 1
      BY <1>2, <1>6, <1>13, AppendedBlocks
    <3>2. new.blocks[k] < fresh
      BY DEF BInv, BlocksSettled
    <3> HIDE DEF new, file, n
    <3>3. KeyedAs(file.blocks, key, block)
      BY <1>5, <1>6, <1>13
    <3>4. k \in DOMAIN file.blocks /\ new.blocks[k] = file.blocks[k]
      BY <1>2, <3>1, <3>2
    <3> QED
      BY <3>3, <3>4 DEF KeyedAs
  <2> HIDE DEF ws, n, new, file
  <2>4. d.at = "return" /\ d.todo = ws /\ d.node = c.node /\ d.op = c.op
    BY <1>2 DEF Calls
  <2> HIDE DEF d
  <2>5. \A k \in DOMAIN d.todo :
            \/ /\ k \in 1..n /\ d.todo[k].kind = "block" /\ d.todo[k].id = fresh + k - 1
               /\ d.todo[k].record.key = getFileKeys(key)
            \/ /\ k = n + 1 /\ d.todo[k].kind = "inode" /\ d.todo[k].record.plain = new
               /\ d.todo[k].record.key = getFileKeys(key)
    BY <2>2, <2>4
  <2>6. Calm => \A k \in DOMAIN d.todo : WriteKeyed(d, k, block, mailbox)
    BY <1>4, <2>3, <2>4, <2>5 DEF WriteKeyed
  <2>7. NewBlocksOnly(d)
    <3> SUFFICES ASSUME NEW k \in DOMAIN d.todo, d.todo[k].kind = "block"
                 PROVE  d.todo[k].id >= fresh /\ d.todo[k].id \notin DOMAIN block
      BY DEF NewBlocksOnly
    <3>1. d.todo[k].id >= fresh /\ d.todo[k].id \in Nat
      BY <1>2, <2>2, <2>5
    <3> QED
      BY <1>2, <3>1 DEF BInv, BlocksSettled
  <2>8. Calm => CallKeyed(d, block, mailbox) /\ NewBlocksOnly(d)
    BY <2>4, <2>6, <2>7 DEF CallKeyed
  <2>9. CallThere(d, inode, call)
    BY <2>4, <2>5 DEF CallThere
  <2> QED
    BY <1>1, <1>2, <1>3, <1>10, <2>1, <2>4, <2>8, <2>9, ReadKeys
<1>14. CASE OpensInode(c.node) /\ c.op = "RevokeAccess"
  <2> DEFINE box == [uuid |-> fresh + 2, key |-> fresh + 1]
             d   == [c EXCEPT !.at = "reseal", !.file = file, !.left = file.blocks,
                              !.key = fresh, !.box = box]
  <2>1. Goes(s, d)
    BY <1>14, GetInodeGoes, Zenon DEF GoesOn
  <2> HIDE DEF file, box
  <2>2. d.op = "RevokeAccess"
    BY <1>2, <1>14 DEF Calls
  <2> HIDE DEF d
  <2> QED
    BY <1>1, <1>3, <1>9, <1>14, <2>1, <2>2, RevokeKeys
<1> QED
  BY <1>11, <1>12, <1>13, <1>14, GetInodeGoes, Zenon DEF GoesOn

LEMMA BeginRemembers ==
    ASSUME CTypeOK, NEW s \in Sessions, NEW c, Begin(s, c)
    PROVE  Remembers /\ ~InCall(s) /\ CalledIn(c.op, begun') /\ outcome' = outcome
<1>1. sessions[s].name \in Users
  BY DEF Begin, CTypeOK, TypeOK, User
<1>2. /\ died' = died /\ mixed \subseteq mixed' /\ ~InCall(s)
      /\ begun' = begun \cup {<<sessions[s].name, c.op>>}
  BY BeginMixes
<1>3. outcome' = outcome
  BY DEF Begin
<1> QED
  BY <1>1, <1>2, <1>3 DEF Remembers, CalledIn

LEMMA BeginPlainKeys ==
    ASSUME CTypeOK, BInv, KInv, NEW s \in Sessions, NEW c, Begin(s, c), Goes(s, c),
           c.at \in {"access", "invitation"}, c.todo = <<>>
    PROVE  KInv'
<1>1. Remembers /\ ~InCall(s) /\ CalledIn(c.op, begun') /\ outcome' = outcome
  BY BeginRemembers
<1>2. CallKeyed(c, block, mailbox) /\ NewBlocksOnly(c)
  BY DEF CallKeyed, NewBlocksOnly
<1>3. CallThere(c, inode, call')
  BY DEF CallThere
<1>4. OutcomesOK'
  BY <1>1, OutcomeStays
<1> QED
  BY <1>1, <1>2, <1>3, <1>4, KeysGo

LEMMA BeginStoreKeys ==
    ASSUME CTypeOK, BInv, KInv, NEW s \in Sessions, NEW f \in Filenames, NEW content \in Contents,
           BeginStoreFile(s, f, content)
    PROVE  KInv'
<1> DEFINE me == sessions[s]
           n  == Len(ByteToBlock(content))
           ws == StoreFileWrites(me, f, content, StoredNode, StoredBox, fresh + 4)
           bs == BlockWrites(ByteToBlock(content), StoredNode.fileKey, fresh + 4)
           ids == BlockUUIDs(ByteToBlock(content), fresh + 4)
           file == [size |-> Len(content), blocks |-> ids]
           acc == [box |-> StoredBox, children |-> NoChildren]
           d  == StoreCall(s, f, content)
<1>1. Goes(s, d) /\ me # Absent
  BY BeginStoreGoes
<1>2. me \in User /\ fresh \in Nat /\ fresh + 4 \in Nat /\ content \in Seq(Bytes)
  BY <1>1, ContentsAssumption DEF CTypeOK, TypeOK
<1>3. StoredNode \in MailboxNode /\ StoredBox \in Pointer /\ StoredNode.fileKey \in Nat
  BY <1>2 DEF StoredNode, StoredBox, MailboxNode, Pointer
<1>3a. NodeFits(StoredNode) /\ StoredBox.key = StoredBox.uuid + 1
  BY <1>2 DEF StoredNode, StoredBox, NodeFits
<1>4. /\ n \in Nat /\ acc \in Access /\ file \in Inode
      /\ ws \in Seq(Writes) /\ Len(ws) = n + 4
      /\ ws[1] = SetMailbox(StoredBox, StoredNode) /\ ws[2] = SetAccess(me, f, acc)
      /\ \A k \in 1..n : ws[k + 2] = bs[k]
      /\ ws[n + 3] = SetInode(StoredNode, file) /\ ws[n + 4] = SetUser(me, f)
  BY <1>2, <1>3, StoreFileWritesAre
<1>5. DOMAIN ids = 1..n /\ \A k \in 1..n : ids[k] = (fresh + 4) + k - 1
  BY <1>2, <1>3, NewBlocksFacts
<1>6. \A k \in 1..n : /\ bs[k].kind = "block" /\ bs[k].id = (fresh + 4) + k - 1
                      /\ bs[k].record.key = getFileKeys(StoredNode.fileKey)
  <2>1. ASSUME NEW k \in 1..n
        PROVE  /\ bs[k].kind = "block" /\ bs[k].id = (fresh + 4) + k - 1
               /\ bs[k].record.key = getFileKeys(StoredNode.fileKey)
    <3> DEFINE r == [key |-> <<"file", StoredNode.fileKey>>, plain |-> ByteToBlock(content)[k]]
    <3>1. bs[k] = [kind |-> "block", id |-> (fresh + 4) + k - 1, record |-> r]
      BY <1>2, <1>3, BlockWritesType
    <3>2. r.key = getFileKeys(StoredNode.fileKey)
      BY DEF getFileKeys
    <3> HIDE DEF r, bs
    <3>3. bs[k].record = r
      BY <3>1
    <3> QED
      BY <3>1, <3>2, <3>3
  <2> QED
    BY <2>1
<1>7. file.blocks = ids /\ acc.box = StoredBox
  OBVIOUS
<1> HIDE DEF file, acc, ids, bs, n
<1>8. /\ ws[1].kind = "mailbox" /\ ws[1].id = StoredBox.uuid
      /\ ws[1].record.plain = StoredNode /\ ws[1].record.key = getMailKeys(StoredBox.key)
  BY <1>4 DEF SetMailbox, Set, encryptAndMAC
<1>9. ws[2].kind = "access" /\ ws[2].record.plain = acc /\ ws[n + 4].kind = "account"
  BY <1>4 DEF SetAccess, SetUser, Set, encryptAndMAC
<1>10. /\ ws[n + 3].kind = "inode" /\ ws[n + 3].record.plain = file
       /\ ws[n + 3].record.key = getFileKeys(StoredNode.fileKey)
  BY <1>4 DEF SetInode, Set, encryptAndMAC
<1>11. d.at = "return" /\ d.todo = ws /\ d.node = StoredNode /\ d.op = "StoreFile"
  BY DEF StoreCall, NewCall
<1>12. Begin(s, d)
  BY DEF BeginStoreFile, StoreCall, StoredNode, StoredBox
<1> HIDE DEF ws, d, me
<1>13. Remembers /\ ~InCall(s) /\ CalledIn(d.op, begun') /\ outcome' = outcome
  BY <1>12, BeginRemembers
<1>14. ASSUME NEW k \in DOMAIN d.todo
       PROVE  \/ k = 1 /\ d.todo[k] = ws[1]
              \/ k = 2 /\ d.todo[k] = ws[2]
              \/ k - 2 \in 1..n /\ d.todo[k] = bs[k - 2]
              \/ k = n + 3 /\ d.todo[k] = ws[n + 3]
              \/ k = n + 4 /\ d.todo[k] = ws[n + 4]
  <2>1. k \in 1..(n + 4)
    BY <1>4, <1>11
  <2>2. CASE k - 2 \in 1..n
    <3>1. ws[(k - 2) + 2] = bs[k - 2] /\ (k - 2) + 2 = k
      BY <1>4, <2>1, <2>2
    <3> QED
      BY <1>11, <2>2, <3>1
  <2>3. CASE k \in {1, 2, n + 3, n + 4}
    BY <1>11, <2>3
  <2> QED
    BY <1>4, <2>1, <2>2, <2>3
<1>15. KeyedAs(ids, StoredNode.fileKey, block)
  <2>1. \A k \in DOMAIN ids : ids[k] \notin DOMAIN block
    BY <1>2, <1>4, <1>5 DEF BInv, BlocksSettled
  <2> QED
    BY <2>1 DEF KeyedAs
<1>16. LeadsBy(d, 2, StoredBox, mailbox)
  <2>1. 1 \in 1..(2 - 1)
    OBVIOUS
  <2> QED
    BY <1>8, <1>11, <1>3a, <2>1 DEF LeadsBy
<1>17. ASSUME NEW k \in DOMAIN d.todo PROVE WriteKeyed(d, k, block, mailbox)
  <2>1. CASE k = 1 /\ d.todo[k] = ws[1]
    BY <1>8, <1>3a, <2>1 DEF WriteKeyed, MailFits
  <2>2. CASE k = 2 /\ d.todo[k] = ws[2]
    BY <1>7, <1>9, <1>16, <2>2 DEF WriteKeyed
  <2>3. CASE k - 2 \in 1..n /\ d.todo[k] = bs[k - 2]
    BY <1>6, <1>11, <2>3 DEF WriteKeyed
  <2>4. CASE k = n + 3 /\ d.todo[k] = ws[n + 3]
    BY <1>7, <1>10, <1>11, <1>15, <1>3a, <2>4 DEF WriteKeyed
  <2>5. CASE k = n + 4 /\ d.todo[k] = ws[n + 4]
    BY <1>9, <2>5 DEF WriteKeyed
  <2> QED
    BY <1>14, <2>1, <2>2, <2>3, <2>4, <2>5
<1>18. NewBlocksOnly(d)
  <2> SUFFICES ASSUME NEW k \in DOMAIN d.todo, d.todo[k].kind = "block"
               PROVE  d.todo[k].id >= fresh /\ d.todo[k].id \notin DOMAIN block
    BY DEF NewBlocksOnly
  <2>1. k - 2 \in 1..n /\ d.todo[k] = bs[k - 2]
    BY <1>8, <1>9, <1>10, <1>14
  <2>2. d.todo[k].id = (fresh + 4) + (k - 2) - 1
    BY <1>6, <2>1
  <2>3. d.todo[k].id >= fresh /\ d.todo[k].id \in Nat
    BY <1>2, <1>4, <2>1, <2>2
  <2> QED
    BY <1>2, <2>3 DEF BInv, BlocksSettled
<1>19. CallKeyed(d, block, mailbox)
  BY <1>11, <1>17 DEF CallKeyed
<1>20. d # Absent => CallThere(d, inode, call')
  <2> SUFFICES ASSUME d # Absent, NEW k \in DOMAIN d.todo, d.todo[k].kind = "mailbox"
               PROVE  There(d.todo[k].record.plain.inode, inode, call')
    BY <1>11 DEF CallThere
  <2>1. d.todo[k] = ws[1]
    BY <1>6, <1>9, <1>10, <1>14
  <2>2. call'[s] = d
    BY <1>1 DEF Goes, CTypeOK, CallsFit
  <2> QED
    BY <1>8, <1>11, <2>1, <2>2 DEF There
<1>21. OutcomesOK'
  BY <1>13, OutcomeStays
<1> QED
  BY <1>1, <1>13, <1>18, <1>19, <1>20, <1>21, KeysGo

LEMMA BeginKeys ==
    ASSUME CTypeOK, BInv, KInv, NEW s \in Sessions, BeginCall(s)
    PROVE  KInv'
<1>1. PICK f \in Filenames :
        \/ BeginOnFile(s, "LoadFile", f, Absent)
        \/ \E content \in Contents : \/ BeginStoreFile(s, f, content)
                                     \/ BeginOnFile(s, "AppendToFile", f, content)
        \/ \E u \in Users, op \in {"CreateInvitation", "RevokeAccess"} :
               BeginOnFile(s, op, f, u)
        \/ \E u \in Users, ptr \in DOMAIN invitation \cup {0} :
               BeginAcceptInvitation(s, u, ptr, f)
  BY DEF BeginCall
<1>2. ASSUME NEW op, NEW arg, BeginOnFile(s, op, f, arg),
             \/ op = "LoadFile" /\ arg = Absent
             \/ op = "AppendToFile" /\ arg \in Contents
             \/ op \in {"CreateInvitation", "RevokeAccess"} /\ arg \in Users
      PROVE  KInv'
  <2> DEFINE d == NewCall(op, f, arg)
  <2>1. Goes(s, d) /\ Begin(s, d)
    BY <1>2, BeginOnFileGoes DEF BeginOnFile
  <2>2. d.at = "access" /\ d.todo = <<>>
    BY DEF NewCall
  <2> HIDE DEF d
  <2> QED
    BY <2>1, <2>2, BeginPlainKeys
<1>3. ASSUME NEW u \in Users, NEW ptr \in DOMAIN invitation \cup {0},
             BeginAcceptInvitation(s, u, ptr, f)
      PROVE  KInv'
  <2> DEFINE d == [NewCall("AcceptInvitation", f, <<u, ptr>>) EXCEPT !.at = "invitation"]
  <2>1. ptr \in Nat
    BY DEF CTypeOK, TypeOK, IsStore
  <2>2. Goes(s, d) /\ Begin(s, d)
    BY <1>3, <2>1, BeginAcceptGoes DEF BeginAcceptInvitation
  <2>3. d.at = "invitation" /\ d.todo = <<>>
    BY DEF NewCall
  <2> HIDE DEF d
  <2> QED
    BY <2>2, <2>3, BeginPlainKeys
<1> QED
  BY <1>1, <1>2, <1>3, BeginStoreKeys

-----------------------------------------------------------------------------
(* A write *)

(* new is old, with record under id as well when hit. *)
Added(old, new, hit, id, record) ==
    /\ DOMAIN old \subseteq DOMAIN new
    /\ hit => id \in DOMAIN new
    /\ \A x \in DOMAIN new : \/ x \in DOMAIN old /\ new[x] = old[x]
                             \/ hit /\ x = id /\ new[x] = record

LEMMA WriteAdds ==
    ASSUME CTypeOK, NEW w, Write(w)
    PROVE  /\ Added(block, block', w.kind = "block", w.id, w.record)
           /\ Added(inode, inode', w.kind = "inode", w.id, w.record)
           /\ Added(mailbox, mailbox', w.kind = "mailbox", w.id, w.record)
           /\ Added(invitation, invitation', w.kind = "invitation", w.id, w.record)
           /\ w.kind # "block" => block' = block
           /\ \A x \in Slots : access'[x] = access[x] \/ (w.kind = "access" /\ access'[x] = w.record)
<1>1. ASSUME NEW old, NEW new, NEW hit \in BOOLEAN,
             new = IF hit THEN Put(old, w.id, w.record) ELSE old
      PROVE  Added(old, new, hit, w.id, w.record)
  <2> DEFINE put == Put(old, w.id, w.record)
  <2>1. /\ DOMAIN put = DOMAIN old \cup {w.id} /\ put[w.id] = w.record
        /\ \A x \in DOMAIN old : x # w.id => put[x] = old[x]
    BY DEF Put, PutAll
  <2>2. (hit => new = put) /\ (~hit => new = old)
    BY <1>1
  <2> HIDE DEF put
  <2> QED
    BY <2>1, <2>2, Zenon DEF Added
<1>2. Added(block, block', w.kind = "block", w.id, w.record)
  BY <1>1 DEF Write
<1>3. Added(inode, inode', w.kind = "inode", w.id, w.record)
  BY <1>1 DEF Write
<1>4. Added(mailbox, mailbox', w.kind = "mailbox", w.id, w.record)
  BY <1>1 DEF Write
<1>5. Added(invitation, invitation', w.kind = "invitation", w.id, w.record)
  BY <1>1 DEF Write
<1>6. \A x \in Slots : access'[x] = access[x] \/ (w.kind = "access" /\ access'[x] = w.record)
  BY DEF Write, CTypeOK, TypeOK
<1>7. w.kind # "block" => block' = block
  BY DEF Write
<1> QED
  BY <1>2, <1>3, <1>4, <1>5, <1>6, <1>7

(* d is c after its first write, in the parts that CallKeyed looks at. *)
WroteAll(c, d) ==
    /\ Wrote(c, d)
    /\ d.acc = c.acc /\ d.inv = c.inv /\ d.box = c.box /\ d.left = c.left

LEMMA LeadsByNext ==
    ASSUME NEW c, NEW d, Wrote(c, d), c.todo \in Seq(Writes), NEW boxes, NEW p,
           c.todo[1].kind = "mailbox" => c.todo[1].id \in DOMAIN boxes,
           NEW n \in 1..(Len(d.todo) + 1), LeadsBy(c, n + 1, p, boxes)
    PROVE  LeadsBy(d, n, p, boxes)
<1>1. /\ Len(c.todo) \in Nat \ {0} /\ DOMAIN c.todo = 1..Len(c.todo)
      /\ Len(d.todo) = Len(c.todo) - 1 /\ DOMAIN d.todo = 1..Len(d.todo)
      /\ \A m \in DOMAIN c.todo : m # 1 => m - 1 \in DOMAIN d.todo /\ d.todo[m - 1] = c.todo[m]
  BY QueueMoves
<1>2. (n + 1) - 1 = n /\ n \in Nat \ {0} /\ n <= Len(c.todo)
  BY <1>1
<1>3. \/ p.uuid \in DOMAIN boxes
      \/ \E m \in 1..n : c.todo[m].kind = "mailbox" /\ c.todo[m].id = p.uuid
  BY <1>2 DEF LeadsBy
<1>4. ASSUME NEW m \in 1..n, m # 1, c.todo[m].kind = "mailbox", c.todo[m].id = p.uuid
      PROVE  \E j \in 1..(n - 1) : d.todo[j].kind = "mailbox" /\ d.todo[j].id = p.uuid
  <2>1. m \in DOMAIN c.todo /\ m - 1 \in 1..(n - 1)
    BY <1>1, <1>2, <1>4
  <2>2. d.todo[m - 1] = c.todo[m]
    BY <1>1, <1>4, <2>1
  <2> QED
    BY <1>4, <2>1, <2>2
<1> QED
  BY <1>3, <1>4 DEF LeadsBy

LEMMA CallKeyedNext ==
    ASSUME NEW c, NEW d, WroteAll(c, d), c.todo \in Seq(Writes), NEW blocks, NEW boxes,
           c.todo[1].kind = "mailbox" => c.todo[1].id \in DOMAIN boxes,
           CallKeyed(c, blocks, boxes)
    PROVE  CallKeyed(d, blocks, boxes)
<1>1. /\ Len(c.todo) \in Nat \ {0} /\ Len(d.todo) = Len(c.todo) - 1
      /\ DOMAIN d.todo = 1..Len(d.todo)
      /\ \A n \in DOMAIN d.todo : n + 1 \in DOMAIN c.todo /\ d.todo[n] = c.todo[n + 1]
  BY QueueMoves DEF WroteAll
<1>2. /\ d.at = c.at /\ d.node = c.node /\ d.acc = c.acc /\ d.inv = c.inv /\ d.box = c.box
      /\ d.left = c.left /\ Wrote(c, d)
  BY DEF WroteAll, Wrote
<1>3. ASSUME NEW n \in DOMAIN d.todo PROVE WriteKeyed(d, n, blocks, boxes)
  <2>1. WriteKeyed(c, n + 1, blocks, boxes) /\ d.todo[n] = c.todo[n + 1]
    BY <1>1 DEF CallKeyed
  <2>2. n \in 1..(Len(d.todo) + 1)
    BY <1>1
  <2>3. \A p : LeadsBy(c, n + 1, p, boxes) => LeadsBy(d, n, p, boxes)
    BY <1>2, <2>2, LeadsByNext
  <2> QED
    BY <1>2, <2>1, <2>3 DEF WriteKeyed
<1>4. c.at = "recipient" => LeadsBy(d, Len(d.todo) + 1, c.box, boxes)
  <2>1. Len(d.todo) + 1 \in 1..(Len(d.todo) + 1) /\ (Len(d.todo) + 1) + 1 = Len(c.todo) + 1
    BY <1>1
  <2>2. c.at = "recipient" => LeadsBy(c, (Len(d.todo) + 1) + 1, c.box, boxes)
    BY <2>1 DEF CallKeyed
  <2> QED
    BY <1>2, <2>1, <2>2, LeadsByNext
<1> QED
  BY <1>2, <1>3, <1>4 DEF CallKeyed

LEMMA SetNextCall ==
    ASSUME CTypeOK, NEW s \in Sessions, SetNext(s)
    PROVE  LET c == call[s]
               d == [c EXCEPT !.todo = Tail(@)]
           IN  /\ InCall(s) /\ WroteAll(c, d) /\ Fits(c) /\ Fits(d) /\ d # Absent
               /\ c.todo \in Seq(Writes) /\ 1 \in DOMAIN c.todo
               /\ c.todo[1] \in Queued /\ Queued' \subseteq Queued
               /\ Write(c.todo[1])
               /\ mixed' = mixed /\ begun' = begun /\ died' = died
               /\ \/ /\ call' = [call EXCEPT ![s] = Absent]
                     /\ Len(c.todo) = 1 /\ c.at = "return"
                  \/ call' = [call EXCEPT ![s] = d]
<1> DEFINE c == call[s]
           d == [c EXCEPT !.todo = Tail(@)]
<1>1. /\ InCall(s) /\ Fits(c) /\ Wrote(c, d) /\ c.todo \in Seq(Writes) /\ Write(c.todo[1])
      /\ mixed' = mixed /\ begun' = begun /\ died' = died
      /\ \/ /\ call' = [call EXCEPT ![s] = Absent]
            /\ Len(c.todo) = 1 /\ c.at = "return"
         \/ call' = [call EXCEPT ![s] = d]
  BY SetNextIs
<1>2. c \in Calls /\ call \in [Sessions -> Calls \cup {Absent}]
  BY <1>1 DEF Fits, CTypeOK, CallsFit
<1>3. d.acc = c.acc /\ d.inv = c.inv /\ d.box = c.box /\ d.left = c.left
  BY <1>2 DEF Calls
<1>4. 1 \in DOMAIN c.todo /\ Tail(c.todo) \in Seq(Writes)
  BY <1>1 DEF Wrote
<1>5. d \in Calls
  BY <1>2, <1>4 DEF Calls
<1>6. /\ d.op = c.op /\ d.f = c.f /\ d.arg = c.arg /\ d.at = c.at /\ d.acc = c.acc /\ d.node = c.node
      /\ d.file = c.file /\ d.box = c.box /\ d.kids = c.kids /\ d.inv = c.inv /\ d.got = c.got
      /\ d.todo = Tail(c.todo)
  BY <1>2 DEF Calls
<1> HIDE DEF d
<1>7. Fits(d)
  <2>1. OpFits(d)
    BY <1>1, <1>6 DEF Fits, OpFits
  <2>2. c.todo # <<>>
    BY <1>1 DEF Wrote
  <2>3. Has(d)
    BY <1>1, <1>6, <2>2 DEF Fits, Has
  <2> QED
    BY <1>5, <2>1, <2>3 DEF Fits
<1>8. c.todo[1] \in Queued
  BY <1>1, <1>4, InQueue
<1>9. \A n \in DOMAIN d.todo : n + 1 \in DOMAIN c.todo /\ d.todo[n] = c.todo[n + 1]
  BY <1>1, QueueMoves
<1>10. Queued' \subseteq Queued
  <2> SUFFICES ASSUME NEW v \in Queued' PROVE v \in Queued
    OBVIOUS
  <2>1. CASE call' = [call EXCEPT ![s] = Absent]
    BY <2>1, QueuedGoes DEF CTypeOK
  <2>2. CASE call' = [call EXCEPT ![s] = d]
    <3>1. v \in Queued \/ \E n \in DOMAIN d.todo : v = d.todo[n]
      BY <2>2, QueuedGoes DEF CTypeOK
    <3>2. ASSUME NEW n \in DOMAIN d.todo, v = d.todo[n] PROVE v \in Queued
      BY <1>1, <1>9, <3>2, InQueue
    <3> QED
      BY <3>1, <3>2
  <2> QED
    BY <1>1, <2>1, <2>2
<1>11. WroteAll(c, d)
  BY <1>1, <1>3 DEF WroteAll, d
<1>12. d # Absent
  BY <1>5, NoCallAssumption
<1> QED
  BY <1>1, <1>4, <1>7, <1>8, <1>10, <1>11, <1>12 DEF d

(* A call that is not the writer's keeps its keys. *)
LEMMA OthersKeyed ==
    ASSUME CTypeOK, BInv, NEW w \in Queued, AllKeyed,
           Added(block, block', w.kind = "block", w.id, w.record),
           DOMAIN mailbox \subseteq DOMAIN mailbox',
           NEW t \in Sessions, InCall(t)
    PROVE  CallKeyed(call[t], block', mailbox')
<1> DEFINE c == call[t]
<1>1. CallKeyed(c, block, mailbox) /\ CallBacked(c, block)
  BY DEF AllKeyed, BInv
<1>2. c.todo \in Seq(Writes)
  BY CallFits DEF CTypeOK, Fits, Calls
<1>3. \A n \in DOMAIN c.todo : c.todo[n] \in Queued
  BY <1>2, InQueue
<1>4. \A b \in DOMAIN block : b \in DOMAIN block' /\ block'[b].key = block[b].key
  BY DEF Added, AllKeyed, QueueKeyed
<1>5. \A b \in DOMAIN block' : b \notin DOMAIN block =>
          w.kind = "block" /\ b = w.id /\ block'[b].key = w.record.key
  BY DEF Added
<1>6. \A n, p : LeadsBy(c, n, p, mailbox) => LeadsBy(c, n, p, mailbox')
  BY DEF LeadsBy
<1>7. c.at = "block" => KeyedAs(c.left, c.node.fileKey, block')
  BY <1>1, <1>4 DEF CallBacked, CallKeyed, Exist, KeyedAs
<1>8. ASSUME NEW n \in DOMAIN c.todo, c.todo[n].kind = "inode"
      PROVE  KeyedAs(c.todo[n].record.plain.blocks, c.node.fileKey, block')
  <2> DEFINE ids == c.todo[n].record.plain.blocks
  <2>1. KeyedAs(ids, c.node.fileKey, block)
    BY <1>1, <1>8 DEF CallKeyed, WriteKeyed
  <2>2. \A k \in DOMAIN ids : StoredBy(c, n, ids[k], block)
    BY <1>1, <1>8 DEF CallBacked, TodoBacked
  <2> HIDE DEF ids
  <2>3. ASSUME NEW k \in DOMAIN ids, ids[k] \in DOMAIN block'
        PROVE  block'[ids[k]].key = getFileKeys(c.node.fileKey)
    <3>1. CASE ids[k] \in DOMAIN block
      BY <1>4, <2>1, <3>1 DEF KeyedAs
    <3>2. CASE ids[k] \notin DOMAIN block
      <4>1. w.kind = "block" /\ ids[k] = w.id /\ block'[ids[k]].key = w.record.key
        BY <1>5, <2>3, <3>2
      <4>2. PICK m \in 1..(n - 1) : c.todo[m].kind = "block" /\ c.todo[m].id = ids[k]
        BY <2>2, <2>3, <3>2 DEF StoredBy
      <4>3. m \in DOMAIN c.todo
        BY <1>2
      <4>4. c.todo[m].record.key = getFileKeys(c.node.fileKey)
        BY <1>1, <4>2, <4>3 DEF CallKeyed, WriteKeyed
      <4>5. c.todo[m].record.key = w.record.key
        BY <1>3, <4>1, <4>2, <4>3 DEF AllKeyed, QueueKeyed
      <4> QED
        BY <4>1, <4>4, <4>5
    <3> QED
      BY <3>1, <3>2
  <2> QED
    BY <2>3 DEF KeyedAs, ids
<1>9. ASSUME NEW n \in DOMAIN c.todo PROVE WriteKeyed(c, n, block', mailbox')
  <2>1. WriteKeyed(c, n, block, mailbox)
    BY <1>1 DEF CallKeyed
  <2> QED
    BY <1>6, <1>8, <2>1 DEF WriteKeyed
<1>10. \A p : Leads(p, mailbox) => Leads(p, mailbox')
  BY DEF Leads
<1> HIDE DEF c
<1>11. CallKeyed(c, block', mailbox')
  BY <1>1, <1>6, <1>7, <1>9, <1>10 DEF CallKeyed
<1> QED
  BY <1>11 DEF c

LEMMA SetNextStores ==
    ASSUME CTypeOK, BInv, AInv, KInv, Calm, NEW s \in Sessions, SetNext(s)
    PROVE  StoresKeyed' /\ QueueKeyed'
<1> DEFINE c == call[s]
           w == c.todo[1]
<1>1. /\ InCall(s) /\ Fits(c) /\ c.todo \in Seq(Writes) /\ 1 \in DOMAIN c.todo
      /\ w \in Queued /\ Queued' \subseteq Queued /\ Write(w)
  BY SetNextCall
<1>2. AllKeyed /\ WriteKeyed(c, 1, block, mailbox)
  <2>1. AllKeyed
    BY DEF KInv
  <2>2. CallKeyed(c, block, mailbox)
    BY <1>1, <2>1 DEF AllKeyed
  <2> QED
    BY <1>1, <2>1, <2>2 DEF CallKeyed
<1>3. /\ Added(block, block', w.kind = "block", w.id, w.record)
      /\ Added(inode, inode', w.kind = "inode", w.id, w.record)
      /\ Added(mailbox, mailbox', w.kind = "mailbox", w.id, w.record)
      /\ Added(invitation, invitation', w.kind = "invitation", w.id, w.record)
      /\ w.kind # "block" => block' = block
      /\ \A x \in Slots : access'[x] = access[x] \/ (w.kind = "access" /\ access'[x] = w.record)
  BY <1>1, WriteAdds
<1>4. w.kind = "inode" => /\ w.id = c.node.inode /\ c.node \in MailboxNode
                          /\ w.id - 1 = c.node.fileKey
  <2> SUFFICES ASSUME w.kind = "inode"
               PROVE  w.id = c.node.inode /\ c.node \in MailboxNode /\ w.id - 1 = c.node.fileKey
    OBVIOUS
  <2>1. StoresInode(c, inode)
    BY <1>1 DEF AInv, OwnInodes
  <2>2. /\ c.op \in {"StoreFile", "AppendToFile", "RevokeAccess"} /\ w.id = c.node.inode
        /\ c.op = "AppendToFile" => c.at = "return"
    BY <1>1, <2>1, FirstInode
  <2>3. c.op # "RevokeAccess"
    BY <1>1 DEF KInv, CallsBegun, CalledIn, Calm, Called
  <2>4. c.node \in MailboxNode
    <3>1. CASE c.op = "StoreFile"
      BY <1>1, <3>1, StoreNode
    <3>2. CASE c.op = "AppendToFile"
      BY <1>1, <2>2, <3>2 DEF Fits, Has
    <3> QED
      BY <2>2, <2>3, <3>1, <3>2
  <2>5. NodeFits(c.node)
    BY <1>2 DEF WriteKeyed
  <2> QED
    BY <2>2, <2>4, <2>5 DEF NodeFits, MailboxNode
<1> HIDE DEF w
<1>5. w.kind \in {"block", "inode"} => w.record.key = getFileKeys(c.node.fileKey)
  BY <1>2 DEF WriteKeyed, w
<1>6. w.kind = "inode" => KeyedAs(w.record.plain.blocks, c.node.fileKey, block)
  BY <1>2 DEF WriteKeyed, w
<1>7. w.kind = "mailbox" => MailFits(w.id, w.record)
  BY <1>2 DEF WriteKeyed, w
<1>8. /\ w.kind = "access" => Leads(w.record.plain.box, mailbox')
      /\ w.kind = "invitation" => Leads(w.record.box, mailbox')
  <2>1. 1..(1 - 1) = {}
    OBVIOUS
  <2>2. \A p : LeadsBy(c, 1, p, mailbox) => Leads(p, mailbox')
    BY <1>3, <2>1 DEF LeadsBy, Leads, Added
  <2> QED
    BY <1>2, <2>2 DEF WriteKeyed, w
<1>9. \A b \in DOMAIN block : b \in DOMAIN block' /\ block'[b].key = block[b].key
  BY <1>1, <1>2, <1>3 DEF Added, AllKeyed, QueueKeyed
<1>10. ASSUME NEW i \in DOMAIN inode'
       PROVE  inode'[i].key = getFileKeys(i - 1) /\ KeyedAs(inode'[i].plain.blocks, i - 1, block')
  <2>1. CASE i \in DOMAIN inode /\ inode'[i] = inode[i]
    <3>1. inode[i].key = getFileKeys(i - 1) /\ KeyedAs(inode[i].plain.blocks, i - 1, block)
      BY <1>2, <2>1 DEF AllKeyed, StoresKeyed
    <3>2. Exist(inode[i].plain.blocks, block)
      BY <2>1 DEF BInv, InodesBacked
    <3> QED
      BY <1>9, <2>1, <3>1, <3>2 DEF Exist, KeyedAs
  <2>2. CASE w.kind = "inode" /\ i = w.id /\ inode'[i] = w.record
    <3>1. block' = block
      BY <1>3, <2>2
    <3> QED
      BY <1>4, <1>5, <1>6, <2>2, <3>1
  <2> QED
    BY <1>3, <2>1, <2>2 DEF Added
<1>11. \A m \in DOMAIN mailbox' : MailFits(m, mailbox'[m])
  BY <1>2, <1>3, <1>7 DEF Added, AllKeyed, StoresKeyed
<1>12. \A p : Leads(p, mailbox) => Leads(p, mailbox')
  BY <1>3 DEF Leads, Added
<1>13. \A x \in Slots : access'[x] # Absent => Leads(access'[x].plain.box, mailbox')
  BY <1>2, <1>3, <1>8, <1>12 DEF AllKeyed, StoresKeyed
<1>14. \A p \in DOMAIN invitation' : Leads(invitation'[p].box, mailbox')
  BY <1>2, <1>3, <1>8, <1>12 DEF Added, AllKeyed, StoresKeyed
<1>15. ASSUME NEW v \in Queued', v.kind = "block", v.id \in DOMAIN block'
       PROVE  block'[v.id].key = v.record.key
  <2>1. v \in Queued
    BY <1>1, <1>15
  <2>2. CASE v.id \in DOMAIN block
    BY <1>2, <1>9, <1>15, <2>1, <2>2 DEF AllKeyed, QueueKeyed
  <2>3. CASE w.kind = "block" /\ v.id = w.id /\ block'[v.id] = w.record
    BY <1>1, <1>2, <1>15, <2>1, <2>3 DEF AllKeyed, QueueKeyed
  <2> QED
    BY <1>3, <1>15, <2>2, <2>3 DEF Added
<1>16. \A x, v \in Queued' : x.kind = "block" /\ v.kind = "block" /\ x.id = v.id =>
           x.record.key = v.record.key
  BY <1>1, <1>2 DEF AllKeyed, QueueKeyed
<1> QED
  BY <1>10, <1>11, <1>13, <1>14, <1>15, <1>16 DEF StoresKeyed, QueueKeyed

LEMMA SetNextThere ==
    ASSUME CTypeOK, AInv, AllThere, NEW s \in Sessions, SetNext(s)
    PROVE  AllThere'
<1> DEFINE c == call[s]
           w == c.todo[1]
           d == [c EXCEPT !.todo = Tail(@)]
<1>1. /\ InCall(s) /\ WroteAll(c, d) /\ Fits(c) /\ d # Absent /\ c.todo \in Seq(Writes)
      /\ 1 \in DOMAIN c.todo /\ Write(w)
      /\ \/ /\ call' = [call EXCEPT ![s] = Absent]
            /\ Len(c.todo) = 1 /\ c.at = "return"
         \/ call' = [call EXCEPT ![s] = d]
  BY SetNextCall
<1>2. call \in [Sessions -> Calls \cup {Absent}]
  BY DEF CTypeOK, CallsFit
<1>3. /\ Added(inode, inode', w.kind = "inode", w.id, w.record)
      /\ Added(mailbox, mailbox', w.kind = "mailbox", w.id, w.record)
  BY <1>1, WriteAdds
<1> HIDE DEF w, d
<1>4. d.op = c.op /\ d.node = c.node /\ d.at = c.at
  BY <1>1 DEF WroteAll, Wrote
<1>5. \A n \in DOMAIN d.todo : n + 1 \in DOMAIN c.todo /\ d.todo[n] = c.todo[n + 1]
  BY <1>1, QueueMoves DEF WroteAll
<1>6. ASSUME NEW i, There(i, inode, call) PROVE There(i, inode', call')
  <2>1. CASE i \in DOMAIN inode
    BY <1>3, <2>1 DEF Added, There
  <2>2. ASSUME NEW t \in Sessions, call[t] # Absent, call[t].op = "StoreFile", call[t].node.inode = i
        PROVE  There(i, inode', call')
    <3>1. CASE t # s
      <4>1. call'[t] = call[t]
        BY <1>1, <1>2, <3>1
      <4> QED
        BY <2>2, <4>1 DEF There
    <3>2. CASE t = s /\ call' = [call EXCEPT ![s] = d]
      <4>1. call'[s] = d
        BY <1>2, <3>2
      <4> QED
        BY <1>1, <1>4, <2>2, <3>2, <4>1 DEF There
    <3>3. CASE t = s /\ Len(c.todo) = 1
      <4>1. StoresInode(c, inode)
        BY <1>1 DEF AInv, OwnInodes
      <4>2. DOMAIN c.todo = {1}
        BY <1>1, <3>3
      <4>3. \A n \in DOMAIN c.todo : c.todo[n].kind # "inode"
        BY <2>2, <3>3, <4>1, <4>2 DEF StoresInode
      <4>4. i \in DOMAIN inode
        BY <2>2, <3>3, <4>1, <4>3 DEF StoresInode
      <4> QED
        BY <2>1, <4>4
    <3> QED
      BY <1>1, <3>1, <3>2, <3>3
  <2> QED
    BY <1>6, <2>1, <2>2 DEF There
<1>7. ASSUME NEW t \in Sessions, InCall(t) PROVE CallThere(call[t], inode', call')
  BY <1>6, <1>7 DEF AllThere, CallThere
<1>8. CallThere(d, inode', call')
  <2>1. CallThere(c, inode', call')
    BY <1>1, <1>7
  <2> QED
    BY <1>4, <1>5, <2>1 DEF CallThere
<1>9. ASSUME NEW m \in DOMAIN mailbox' PROVE There(mailbox'[m].plain.inode, inode', call')
  <2>1. CASE m \in DOMAIN mailbox /\ mailbox'[m] = mailbox[m]
    BY <1>6, <2>1 DEF AllThere
  <2>2. CASE w.kind = "mailbox" /\ mailbox'[m] = w.record
    <3>1. CallThere(c, inode', call')
      BY <1>1, <1>7
    <3> QED
      BY <1>1, <2>2, <3>1 DEF CallThere, w
  <2> QED
    BY <1>3, <2>1, <2>2 DEF Added
<1>10. ASSUME NEW t \in Sessions, InCall(t)' PROVE CallThere(call'[t], inode', call')
  <2>1. CASE t = s
    BY <1>1, <1>2, <1>8, <1>10, <2>1 DEF InCall
  <2>2. CASE t # s
    <3>1. call'[t] = call[t] /\ InCall(t)
      BY <1>1, <1>2, <1>10, <2>2 DEF InCall
    <3> QED
      BY <1>7, <3>1
  <2> QED
    BY <2>1, <2>2
<1> QED
  BY <1>9, <1>10 DEF AllThere

LEMMA SetNextKeys ==
    ASSUME CTypeOK, BInv, AInv, KInv, NEW s \in Sessions, SetNext(s)
    PROVE  KInv'
<1> DEFINE c == call[s]
           w == c.todo[1]
           d == [c EXCEPT !.todo = Tail(@)]
<1>1. /\ InCall(s) /\ WroteAll(c, d) /\ Fits(c) /\ d # Absent /\ c.todo \in Seq(Writes)
      /\ 1 \in DOMAIN c.todo /\ Write(w) /\ w \in Queued
      /\ mixed' = mixed /\ begun' = begun /\ died' = died
      /\ call' = [call EXCEPT ![s] = Absent] \/ call' = [call EXCEPT ![s] = d]
  BY SetNextCall
<1>2. call \in [Sessions -> Calls \cup {Absent}]
  BY DEF CTypeOK, CallsFit
<1>3. /\ Added(block, block', w.kind = "block", w.id, w.record)
      /\ Added(mailbox, mailbox', w.kind = "mailbox", w.id, w.record)
  BY <1>1, WriteAdds
<1>4. outcome' = outcome \/ outcome' = [outcome EXCEPT ![s] = "ok"]
  BY DEF SetNext, SetDone, Continue, Returns
<1> HIDE DEF d
<1>5. d.op = c.op
  BY <1>1 DEF WroteAll, Wrote
<1>6. Remembers
  BY <1>1 DEF Remembers
<1>7. OutcomesOK'
  BY <1>4, <1>6, OutcomeStays, OutcomeSet DEF Corrupted
<1>8. ASSUME NEW t \in Sessions, InCall(t)'
      PROVE  InCall(t) /\ (call'[t] = call[t] \/ (t = s /\ call'[t] = d))
  BY <1>1, <1>2, <1>8 DEF InCall
<1>9. CallsBegun'
  <2>1. ASSUME NEW t \in Sessions, InCall(t)' PROVE CalledIn(call'[t].op, begun')
    <3>1. CalledIn(call[t].op, begun)
      BY <1>8, <2>1 DEF KInv, CallsBegun
    <3> QED
      BY <1>1, <1>5, <1>8, <2>1, <3>1
  <2> QED
    BY <2>1 DEF CallsBegun
<1>10. Calm' => AllKeyed'
  <2> SUFFICES ASSUME Calm' PROVE AllKeyed'
    OBVIOUS
  <2>1. Calm /\ AllKeyed
    BY <1>6, StaysCalm DEF KInv
  <2>2. StoresKeyed' /\ QueueKeyed'
    BY <2>1, SetNextStores
  <2>3. ASSUME NEW t \in Sessions, InCall(t) PROVE CallKeyed(call[t], block', mailbox')
    BY <1>1, <1>3, <2>1, <2>3, OthersKeyed DEF Added
  <2>4. CallKeyed(d, block', mailbox')
    <3>1. CallKeyed(c, block', mailbox')
      BY <1>1, <2>3
    <3>2. w.kind = "mailbox" => w.id \in DOMAIN mailbox'
      BY <1>3 DEF Added
    <3> QED
      BY <1>1, <3>1, <3>2, CallKeyedNext
  <2>5. ASSUME NEW t \in Sessions, InCall(t)' PROVE CallKeyed(call'[t], block', mailbox')
    BY <1>8, <2>3, <2>4, <2>5
  <2> QED
    BY <2>2, <2>5 DEF AllKeyed
<1>11. Calm' /\ "StoreFile" \notin died' => AllThere'
  <2> SUFFICES ASSUME Calm', "StoreFile" \notin died' PROVE AllThere'
    OBVIOUS
  <2>1. AllThere
    BY <1>6, StaysCalm DEF KInv
  <2> QED
    BY <2>1, SetNextThere
<1> QED
  BY <1>7, <1>9, <1>10, <1>11 DEF KInv

-----------------------------------------------------------------------------
(* The steps together, the set-up, and what follows. *)

LEMMA KeysUnchanged ==
    ASSUME KInv, UNCHANGED <<datastore, call, outcome, history>>
    PROVE  KInv'
<1>1. UNCHANGED <<block, inode, mailbox, access, invitation, call, outcome, begun, mixed, died>>
  BY DEF datastore, history
<1>2. CallsBegun' <=> CallsBegun
  BY <1>1 DEF CallsBegun, InCall
<1>3. Calm' <=> Calm
  BY <1>1 DEF Calm, Called
<1>4. AllKeyed' <=> AllKeyed
  BY <1>1 DEF AllKeyed, StoresKeyed, QueueKeyed, Queued, InCall
<1>5. AllThere' <=> AllThere
  BY <1>1 DEF AllThere, InCall
<1>6. OutcomesOK' <=> OutcomesOK
  BY <1>1 DEF OutcomesOK, Harmless, Calm, Called, Overlapped
<1> QED
  BY <1>1, <1>2, <1>3, <1>4, <1>5, <1>6 DEF KInv

LEMMA KeysStep ==
    ASSUME CTypeOK, BInv, AInv, KInv, NEW s \in Sessions,
           BeginCall(s) \/ Step(s) \/ Lost(s) \/ Comes(s)
    PROVE  KInv'
<1>1. CASE Lost(s)
  <2>1. /\ begun' = begun /\ mixed' = mixed /\ died' = died \cup {call[s].op}
        /\ outcome' = [outcome EXCEPT ![s] = "died"]
    BY <1>1 DEF Lost
  <2>2. Remembers
    BY <2>1 DEF Remembers
  <2>3. OutcomesOK'
    BY <2>1, <2>2, OutcomeSet DEF Corrupted
  <2>4. Goes(s, Absent)
    BY <1>1, LostGoes
  <2> QED
    BY <2>1, <2>2, <2>3, <2>4, KeysGo
<1>2. CASE Comes(s)
  BY <1>2, ComesType, KeysUnchanged DEF progress
<1>3. CASE Step(s)
  BY <1>3, GetAccessKeys, GetMailboxKeys, GetInodeKeys, GetBlockKeys, ResealKeys,
     GetRecipientKeyKeys, GetInvitationKeys, GetSenderKeyKeys, SetNextKeys DEF Step
<1> QED
  BY <1>1, <1>2, <1>3, BeginKeys

LEMMA KeysStart ==
    ASSUME ClientsInit
    PROVE  KInv
<1> DEFINE chunks == ByteToBlock(FirstContent)
           ids    == BlockUUIDs(chunks, FirstBlock)
           file   == [size |-> Len(FirstContent), blocks |-> ids]
           boxes  == {BoxOf(n) : n \in 1..Shared}
<1>1. /\ \A s \in Sessions : ~InCall(s)
      /\ outcome = [s \in Sessions |-> "ok"]
      /\ SetUp
  BY DEF ClientsInit, InCall
<1>2. Queued = {}
  BY <1>1 DEF Queued
<1>3. OutcomesOK
  BY <1>1 DEF OutcomesOK, Corrupted
<1>4. Shared \in Nat \ {0} /\ FirstNumber \in Nat /\ FirstInvite \in Nat
  BY CircleAssumption, SetUpNumbers
<1>5. \A p \in boxes : p.key = p.uuid + 1
  BY <1>4 DEF BoxOf
<1>6. NodeFits(FirstNode) /\ FirstNode.inode - 1 = FirstNode.fileKey
  BY <1>4, SetUpNumbers DEF NodeFits
<1>7. DOMAIN mailbox = {p.uuid : p \in boxes}
      /\ \A m \in DOMAIN mailbox : MailFits(m, mailbox[m]) /\ mailbox[m].plain = FirstNode
  <2> DEFINE box(m) == CHOOSE p \in boxes : p.uuid = m
             mids   == {BoxOf(n).uuid : n \in 1..Shared}
  <2>1. mailbox = [m \in mids |-> encryptAndMAC(FirstNode, getMailKeys(box(m).key))]
    BY <1>1 DEF SetUp
  <2>2. mids = {p.uuid : p \in boxes}
    OBVIOUS
  <2>3. ASSUME NEW m \in mids PROVE box(m).key = m + 1
    <3>1. \E p \in boxes : p.uuid = m
      BY <2>3
    <3>2. box(m) \in boxes /\ box(m).uuid = m
      BY <3>1
    <3> QED
      BY <1>5, <3>2
  <2> HIDE DEF box, mids, boxes
  <2>4. \A m \in mids : mailbox[m].key = getMailKeys(box(m).key) /\ mailbox[m].plain = FirstNode
    BY <2>1 DEF encryptAndMAC
  <2>5. DOMAIN mailbox = mids
    BY <2>1
  <2>6. \A m \in mids : MailFits(m, mailbox[m])
    BY <1>6, <2>3, <2>4 DEF MailFits
  <2> QED
    BY <2>2, <2>4, <2>5, <2>6
<1>8. \A p \in boxes : Leads(p, mailbox)
  BY <1>5, <1>7 DEF Leads
<1>9. \A n \in 1..Shared : Leads(BoxOf(n), mailbox)
  BY <1>8
<1> HIDE DEF boxes
<1>10. ASSUME NEW x \in Slots, access[x] # Absent PROVE Leads(access[x].plain.box, mailbox)
  <2> DEFINE acc == AccessAtFirst(x[1])
             key == getPersonalKey(<<x[1], Password>>, FileName)
  <2>1. access[x] = IF x[2] = FileName /\ HasFile(x[1]) THEN encryptAndMAC(acc, key) ELSE Absent
    BY <1>1 DEF SetUp
  <2>2. HasFile(x[1]) /\ access[x] = encryptAndMAC(acc, key)
    BY <1>10, <2>1
  <2>3. Position(x[1]) \in 1..Shared
    BY <1>4, <2>2, PositionType DEF HasFile
  <2>4. acc.box = BoxOf(Position(x[1]))
    BY DEF AccessAtFirst
  <2> HIDE DEF acc, key
  <2>5. access[x].plain = acc
    BY <2>2 DEF encryptAndMAC
  <2> QED
    BY <1>9, <2>3, <2>4, <2>5
<1>11. \A p \in DOMAIN invitation : Leads(invitation[p].box, mailbox)
  <2> DEFINE nums == {InviteOf(n) : n \in 2..Shared}
             nth(i) == CHOOSE k \in 2..Shared : InviteOf(k) = i
  <2>1. invitation = [i \in nums |-> [enc |-> 2 * nth(i) - 1, sig |-> 2, box |-> BoxOf(nth(i))]]
    BY <1>1 DEF SetUp
  <2>2. ASSUME NEW i \in nums PROVE nth(i) \in 1..Shared
    <3>1. \E k \in 2..Shared : InviteOf(k) = i
      BY <2>2
    <3>2. nth(i) \in 2..Shared
      BY <3>1
    <3> HIDE DEF nth
    <3> QED
      BY <1>4, <3>2
  <2> HIDE DEF nums, nth
  <2>3. DOMAIN invitation = nums /\ \A i \in nums : invitation[i].box = BoxOf(nth(i))
    BY <2>1
  <2> QED
    BY <1>9, <2>2, <2>3
<1>12. /\ DOMAIN inode = {FirstNode.inode}
       /\ inode[FirstNode.inode].key = getFileKeys(FirstNode.fileKey)
       /\ inode[FirstNode.inode].plain.blocks = ids
  <2>1. inode = [i \in {FirstNode.inode} |-> encryptAndMAC(file, getFileKeys(FirstNode.fileKey))]
    BY <1>1 DEF SetUp
  <2>2. file.blocks = ids
    OBVIOUS
  <2> HIDE DEF file
  <2> QED
    BY <2>1, <2>2 DEF encryptAndMAC
<1>13. \A b \in DOMAIN block : block[b].key = getFileKeys(FirstNode.fileKey)
  <2>1. block = NewBlocks(chunks, FirstNode.fileKey, FirstBlock)
    BY <1>1 DEF SetUp
  <2> QED
    BY <2>1 DEF NewBlocks, encryptAndMAC
<1> HIDE DEF ids
<1>14. \A i \in DOMAIN inode : /\ inode[i].key = getFileKeys(i - 1)
                               /\ KeyedAs(inode[i].plain.blocks, i - 1, block)
  BY <1>6, <1>12, <1>13 DEF KeyedAs
<1>15. AllKeyed
  BY <1>1, <1>2, <1>7, <1>10, <1>11, <1>14 DEF AllKeyed, StoresKeyed, QueueKeyed
<1>16. AllThere
  BY <1>1, <1>7, <1>12 DEF AllThere, There
<1> QED
  BY <1>1, <1>3, <1>15, <1>16 DEF KInv, CallsBegun

(* What all steps preserve besides: keys and pointers fit together as long *)
(* as nobody has called RevokeAccess, and every mailbox leads to an inode  *)
(* that is stored, or being made by StoreFile, as long as nobody died in   *)
(* StoreFile and no Set was refused.                                       *)
THEOREM KeysInductive == ClientsSpec => [](CTypeOK /\ (Heeded => BInv /\ AInv /\ KInv))
<1> DEFINE Rest == BInv /\ AInv /\ KInv
           Inv  == CTypeOK /\ (Heeded => Rest)
<1>1. ClientsInit => Inv
  BY ClientsStart, SizesStart, KeysStart
<1>2. Inv /\ [ClientsNext]_allVars => Inv'
  <2> SUFFICES ASSUME Inv, [ClientsNext]_allVars PROVE Inv'
    OBVIOUS
  <2>1. CTypeOK'
    BY NextIs, ClientsTypeStep, TypeStutter, RefusedType
  <2>2. ASSUME Heeded' PROVE Rest'
    <3>1. Rest
      BY <2>2, NextIs
    <3>2. CASE UNCHANGED <<vars, progress>>
      <4>1. UNCHANGED <<datastore, call, outcome, history>>
        BY <3>2 DEF vars, progress, datastore
      <4> QED
        BY <3>1, <3>2, <4>1, ClientsStutter, SizesStutter, KeysUnchanged
    <3>3. ASSUME NEW s \in Sessions, BeginCall(s) \/ Step(s) \/ Lost(s) \/ Comes(s)
          PROVE  Rest'
      BY <3>1, <3>3, BlocksStep, SizesStep, KeysStep
    <3> QED
      BY <2>2, <3>2, <3>3, NextIs
  <2> QED
    BY <2>1, <2>2
<1> QED
  BY <1>1, <1>2, PTL DEF ClientsSpec

(* NeverCorrupted for any number of users, sessions, files and calls: as   *)
(* long as nobody revokes, no StoreFile is overlapped or cut short and no  *)
(* Set is refused, the services never word "data may be corrupted" to a    *)
(* user with the file, however LoadFile, AppendToFile, CreateInvitation    *)
(* and AcceptInvitation (service.go) interleave, wherever their clients die *)
(* and however late their last Sets arrive.                                *)
THEOREM NobodyMeetsDamage == ClientsSpec => []NeverCorrupted
<1>1. (Heeded => KInv) => NeverCorrupted
  BY DEF KInv, OutcomesOK, NeverCorrupted, Heeded, Harmless, Calm, Corrupted
<1> QED
  BY <1>1, KeysInductive, PTL

(* SlotsReadable for any number of users, sessions, files and calls: when  *)
(* no call is in progress, an access record leads through its mailbox and  *)
(* its inode to blocks that all open, unless somebody has revoked or died  *)
(* inside StoreFile (service.go) or a Set was refused.                     *)
THEOREM EverySlotReads == ClientsSpec => []SlotsReadable
<1>1. CTypeOK /\ (Heeded => BInv /\ AInv /\ KInv) => SlotsReadable
  <2> SUFFICES ASSUME CTypeOK, BInv, AInv, KInv, Quiet, Calm, "StoreFile" \notin died,
                      NEW u \in Users, NEW f \in Filenames, access[<<u, f>>] # Absent
               PROVE  CanRead(u, f)
    BY DEF SlotsReadable, Calm, Heeded
  <2> DEFINE x == <<u, f>>
             p == access[x].plain.box
             node == mailbox[p.uuid].plain
             i == node.inode
  <2>1. AllKeyed /\ AllThere
    BY DEF KInv
  <2>2. x \in Slots
    BY DEF Slots
  <2>3. Leads(p, mailbox)
    BY <2>1, <2>2 DEF AllKeyed, StoresKeyed
  <2>4. MailFits(p.uuid, mailbox[p.uuid])
    BY <2>1, <2>3 DEF Leads, AllKeyed, StoresKeyed
  <2>5. OpensMailbox(p)
    BY <2>3, <2>4 DEF Leads, MailFits, OpensMailbox, decrypts
  <2>6. node \in MailboxNode
    BY <2>5, ReadTypes DEF CTypeOK
  <2>7. i \in DOMAIN inode
    BY <2>1, <2>3 DEF AllThere, There, Leads, Quiet
  <2>8. NodeFits(node)
    BY <2>4 DEF MailFits
  <2> HIDE DEF p, node
  <2>9. i - 1 = node.fileKey
    BY <2>6, <2>8 DEF NodeFits, MailboxNode
  <2>10. /\ inode[i].key = getFileKeys(i - 1) /\ KeyedAs(inode[i].plain.blocks, i - 1, block)
         /\ Exist(inode[i].plain.blocks, block)
    BY <2>1, <2>7 DEF AllKeyed, StoresKeyed, BInv, InodesBacked
  <2>11. OpensInode(node)
    BY <2>7, <2>9, <2>10 DEF OpensInode, decrypts
  <2>12. OpensBlocks(node)
    BY <2>9, <2>10 DEF OpensBlocks, KeyedAs, Exist, Range, decrypts
  <2> QED
    BY <2>5, <2>11, <2>12 DEF CanRead, p, node
<1> QED
  BY <1>1, KeysInductive, PTL

-----------------------------------------------------------------------------
(* Whose call it is. *)
Who(s) == sessions[s].name

-----------------------------------------------------------------------------
(* Identities, and what the calls queue. *)

(* The public keys, as SetUp numbers them: nothing changes them. *)
Public == [u \in Users |-> IF u \in Range(Circle)
                           THEN [enc |-> 2 * Position(u) - 1, sig |-> 2 * Position(u)]
                           ELSE Absent]

(* A user struct holds the private halves of its owner's public keys. *)
Genuine(me) ==
    /\ me.name \in Range(Circle)
    /\ me.pke = Public[me.name].enc
    /\ me.ds = Public[me.name].sig

(* A write that user u's call c has queued. *)
WriteMine(u, c, w) ==
    /\ w.kind = "account" =>
           w.id = u /\ w.record.plain.name = u /\ Genuine(w.record.plain)
    /\ w.kind = "access" =>
           /\ w.id = <<u, c.f>> /\ c.at = "return"
           /\ c.op \in {"StoreFile", "CreateInvitation", "AcceptInvitation", "RevokeAccess"}
           /\ c.op = "CreateInvitation" => w.record.plain = WithChild(c.acc, c.arg, c.box)
           /\ c.op = "RevokeAccess" => w.record.plain = WithoutChild(c.acc, c.arg, c.box)
           /\ c.op \in {"StoreFile", "AcceptInvitation"} => w.record.plain.children = NoChildren
    /\ w.kind = "invitation" =>
           /\ c.op = "CreateInvitation" /\ c.at = "return" /\ c.arg \in Range(Circle)
           /\ w.record.enc = Public[c.arg].enc /\ w.record.sig = Public[u].sig
           /\ w.record.box = c.box
    /\ w.kind = "mailbox" =>
           /\ c.op \in {"StoreFile", "CreateInvitation", "RevokeAccess"}
           /\ c.op = "StoreFile" => w.record.plain = c.node
           /\ c.op = "CreateInvitation" =>
                  c.at = "recipient" /\ w.id = c.box.uuid /\ w.record.plain = c.node
           /\ c.op = "RevokeAccess" =>
                  /\ c.at = "child" /\ w.record.plain.fileKey = c.key
                  /\ \/ w.id = c.box.uuid
                     \/ \E v \in Users \ {c.arg} : /\ c.acc.children[v] # Absent
                                                   /\ w.id = c.acc.children[v].uuid
    /\ w.kind = "inode" =>
           /\ c.op \in {"StoreFile", "AppendToFile", "RevokeAccess"} /\ w.id = c.node.inode
           /\ c.op = "RevokeAccess" => /\ c.at = "child" /\ w.record.plain = c.file
                                       /\ w.record.key = getFileKeys(c.key)
           /\ c.op # "RevokeAccess" => /\ c.at = "return"
                                       /\ w.record.key = getFileKeys(c.node.fileKey)
    /\ w.kind = "block" =>
           /\ c.op \in {"StoreFile", "AppendToFile", "RevokeAccess"}
           /\ c.op = "RevokeAccess" => c.at = "reseal" /\ w.record.key = getFileKeys(c.key)
           /\ c.op # "RevokeAccess" => /\ c.at = "return"
                                       /\ w.record.key = getFileKeys(c.node.fileKey)

(* The order of the writes: CreateInvitation's access record is its last   *)
(* one, StoreFile's inode the last but one.                                *)
InOrder(c) ==
    /\ c.op = "CreateInvitation" /\ c.at = "return" =>
           \A n \in DOMAIN c.todo : c.todo[n].kind = IF n = Len(c.todo) THEN "access"
                                                                       ELSE "invitation"
    /\ c.op = "StoreFile" =>
           /\ c.node.inode = c.node.fileKey + 1
           /\ \A n \in DOMAIN c.todo : /\ c.todo[n].kind = "inode" <=> n = Len(c.todo) - 1
                                       /\ c.todo[n].kind = "account" <=> n = Len(c.todo)

(* The call still has a use for the access record it has read. *)
Holds(c) ==
    \/ c.at \in {"mailbox", "inode", "reseal", "child", "recipient"}
    \/ c.at = "return" /\ c.op \in {"CreateInvitation", "RevokeAccess"}

Knows(c) == Holds(c) /\ c.at # "mailbox"

(* CreateInvitation and RevokeAccess once they have drawn what they need.  *)
Invites(c) == c.op = "CreateInvitation" /\ c.at \in {"recipient", "return"}
Rekeys(c)  == c.op = "RevokeAccess" /\ c.at \in {"reseal", "child", "return"}

CallMine(u, c) ==
    /\ InOrder(c)
    /\ Holds(c) => c.acc \in Access
    /\ Knows(c) => c.node \in MailboxNode
    /\ Invites(c) \/ Rekeys(c) => c.box \in Pointer
    /\ Rekeys(c) => c.file \in Inode
    /\ c.at = "child" => c.arg \notin c.kids
    /\ \A n \in DOMAIN c.todo : WriteMine(u, c, c.todo[n])

MInv ==
    /\ keystore = Public
    /\ \A u \in Users : accounts[u] # Absent =>
           accounts[u].plain.name = u /\ Genuine(accounts[u].plain)
    /\ \A x \in Slots : access[x] # Absent => x[1] \in Range(Circle)
    /\ \A s \in Sessions : sessions[s] # Absent => Genuine(sessions[s])
    /\ \A s \in Sessions : InCall(s) =>
           CallMine(Who(s), call[s]) /\ <<Who(s), call[s].op>> \in begun

-----------------------------------------------------------------------------
(* The owner's Children. *)

(* The owner does nothing but invite to the file, one at a time.           *)
Tended ==
    /\ begun \cap {<<Owner, op>> : op \in {"RevokeAccess", "StoreFile", "AcceptInvitation"}} = {}
    /\ ~Overlapped({"CreateInvitation"}, {"CreateInvitation"})
    /\ "CreateInvitation" \notin died

OwnerSlot == <<Owner, FileName>>

(* Session s is about to enter u into the owner's Children. *)
Entering(s, u) == /\ InCall(s) /\ Who(s) = Owner
                  /\ call[s].op = "CreateInvitation" /\ call[s].at = "return"
                  /\ call[s].arg = u

TInv ==
    /\ access[OwnerSlot] # Absent
    /\ \A f \in Filenames : f # FileName => access[<<Owner, f>>] = Absent
    /\ \A s \in Sessions :
           InCall(s) /\ Who(s) = Owner /\ call[s].op = "CreateInvitation" /\ Holds(call[s]) =>
               call[s].f = FileName /\ call[s].acc = access[OwnerSlot].plain
    /\ \A p \in DOMAIN invitation, u \in Range(Circle) :
           invitation[p].sig = Public[Owner].sig /\ invitation[p].enc = Public[u].enc =>
               \/ access[OwnerSlot].plain.children[u] # Absent
               \/ \E s \in Sessions : Entering(s, u)

-----------------------------------------------------------------------------
(* What the steps do to a call, c before and d after. *)

ToMailbox(me, c, d) ==
    /\ c.at = "access" /\ OpensAccess(me, c.f)
    /\ d.at = "mailbox" /\ d.acc = AccessOf(me, c.f) /\ d.todo = <<>>
    /\ fresh' = fresh

ToInode(c, d) ==
    /\ c.at = "mailbox" /\ c.op # "CreateInvitation" /\ OpensMailbox(c.acc.box)
    /\ d.at = "inode" /\ d.acc = c.acc /\ d.node = mailbox[c.acc.box.uuid].plain
    /\ d.todo = <<>> /\ fresh' = fresh

ToRecipient(c, d) ==
    /\ c.at = "mailbox" /\ c.op = "CreateInvitation" /\ OpensMailbox(c.acc.box)
    /\ d.at = "recipient" /\ d.acc = c.acc /\ d.node = mailbox[c.acc.box.uuid].plain
    /\ d.box = [uuid |-> fresh, key |-> fresh + 1]
    /\ d.todo = <<SetMailbox(d.box, d.node)>> /\ fresh' = fresh + 2

(* LoadFile reads its blocks. *)
ToBlock(c, d) ==
    /\ c.op = "LoadFile" /\ c.at \in {"inode", "block"}
    /\ d.at = "block" /\ d.todo = <<>> /\ fresh' = fresh

ToAppend(c, d) ==
    /\ c.at = "inode" /\ c.op = "AppendToFile" /\ OpensInode(c.node)
    /\ d.at = "return" /\ d.node = c.node
    /\ d.todo = AppendWrites(c, inode[c.node.inode].plain)
    /\ fresh' = fresh + Len(ByteToBlock(c.arg))

ToReseal(c, d) ==
    /\ c.at = "inode" /\ c.op = "RevokeAccess" /\ OpensInode(c.node)
    /\ d.at = "reseal" /\ d.acc = c.acc /\ d.node = c.node
    /\ d.file = inode[c.node.inode].plain /\ d.left = d.file.blocks
    /\ d.key = fresh /\ d.box = [uuid |-> fresh + 2, key |-> fresh + 1]
    /\ d.todo = <<>> /\ fresh' = fresh + 3

(* RevokeAccess goes on with what it has read and drawn. *)
SameRevocation(c, d) ==
    /\ c.op = "RevokeAccess" /\ fresh' = fresh
    /\ d.acc = c.acc /\ d.node = c.node /\ d.file = c.file /\ d.key = c.key /\ d.box = c.box

Resealed(c, d) ==
    /\ SameRevocation(c, d) /\ c.at = "reseal" /\ d.at = "reseal"
    /\ c.left # <<>> /\ OpensBlock(Head(c.left), c.node) /\ d.left = Tail(c.left)
    /\ d.todo = <<Set("block", Head(c.left),
                      encryptAndMAC(block[Head(c.left)].plain, getFileKeys(c.key)))>>

ToChild(c, d) ==
    /\ SameRevocation(c, d) /\ c.at = "reseal" /\ d.at = "child" /\ c.left = <<>>
    /\ d.kids = {u \in Users \ {c.arg} : c.acc.children[u] # Absent}
    /\ d.todo = RevokeWrites(c)

NextChild(c, d) ==
    /\ SameRevocation(c, d) /\ c.at = "child" /\ d.at = "child"
    /\ \E u \in c.kids : d.kids = c.kids \ {u} /\ d.todo = KidTodo(c, u)

ToRevoked(me, c, d) ==
    /\ SameRevocation(c, d) /\ c.at = "child" /\ d.at = "return"
    /\ d.todo = <<SetAccess(me, c.f, WithoutChild(c.acc, c.arg, c.box)), SetUser(me, c.f)>>

ToInvite(me, c, d) ==
    /\ c.at = "recipient" /\ keystore[c.arg] # Absent
    /\ d.at = "return" /\ d.acc = c.acc /\ d.node = c.node /\ d.box = c.box
    /\ d.todo = InviteWrites(me, c) /\ fresh' = fresh + 1

ToSender(c, d) ==
    /\ c.at = "invitation" /\ c.arg[2] \in DOMAIN invitation
    /\ d.at = "sender" /\ d.inv = invitation[c.arg[2]] /\ d.todo = <<>> /\ fresh' = fresh

ToAccept(me, c, d) ==
    /\ c.at = "sender" /\ c.inv.enc = me.pke
    /\ d.at = "return"
    /\ d.todo = <<SetAccess(me, c.f, [box |-> c.inv.box, children |-> NoChildren]),
                  SetUser(me, c.f)>>
    /\ fresh' = fresh

MovesTo(me, c, d) ==
    \/ ToMailbox(me, c, d) \/ ToInode(c, d) \/ ToRecipient(c, d) \/ ToBlock(c, d)
    \/ ToAppend(c, d) \/ ToReseal(c, d) \/ Resealed(c, d) \/ ToChild(c, d) \/ NextChild(c, d)
    \/ ToRevoked(me, c, d) \/ ToInvite(me, c, d) \/ ToSender(c, d) \/ ToAccept(me, c, d)

(* Why a call ends that has read. *)
GivesUp(c) ==
    /\ c.at \notin {"child", "return"}
    /\ c.at = "recipient" => keystore[c.arg] = Absent
    /\ c.at = "reseal" => c.left # <<>> /\ ~OpensBlock(Head(c.left), c.node)

Reading(s) ==
    \/ GetAccess(s) \/ GetMailbox(s) \/ GetInode(s) \/ GetBlock(s) \/ Reseal(s) \/ GetChild(s)
    \/ GetRecipientKey(s) \/ GetInvitation(s) \/ GetSenderKey(s)

SameCall(c, d) == d.op = c.op /\ d.f = c.f /\ d.arg = c.arg

Ends(s) == Goes(s, Absent) /\ GivesUp(call[s])

Moves(s) ==
    \/ Ends(s)
    \/ \E d \in Calls : /\ Goes(s, d) /\ Fits(d) /\ SameCall(call[s], d)
                        /\ MovesTo(sessions[s], call[s], d)

LEMMA ReadingStays ==
    ASSUME CTypeOK, NEW s \in Sessions, Reading(s)
    PROVE  /\ InCall(s) /\ call[s].todo = <<>> /\ call[s].at # "return"
           /\ UNCHANGED <<datastore, keystore, sessions, revoked, begun, mixed, died>>
<1>1. InCall(s) /\ call[s].todo = <<>> /\ call[s].at # "return"
  BY Zenon DEF Reading, At, InCall, GetAccess, GetMailbox, GetInode, GetBlock, Reseal, GetChild,
     GetRecipientKey, GetInvitation, GetSenderKey
<1>2. UNCHANGED <<datastore, keystore, sessions>>
  BY Zenon DEF Reading, Reads, GetAccess, GetMailbox, GetInode, GetBlock, Reseal, GetChild,
     GetRecipientKey, GetInvitation, GetSenderKey
<1>3. begun' = begun /\ mixed' = mixed /\ died' = died
  BY ReadsHistory DEF Reading
<1>4. revoked' = revoked
  <2>1. ASSUME NEW c, Continue(s, c) PROVE revoked' = revoked
    BY <2>1 DEF Continue
  <2>2. ASSUME Fails(s) PROVE revoked' = revoked
    BY <2>2 DEF Fails
  <2>3. ASSUME GetBlock(s), Returns(s) PROVE revoked' = revoked
    <3>1. call[s].op = "LoadFile"
      BY <1>1, <2>3, CallType DEF Fits, OpFits, GetBlock, At
    <3> QED
      BY <2>3, <3>1 DEF Returns
  <2> QED
    BY <2>1, <2>2, <2>3, Zenon DEF Reading, GetAccess, GetMailbox, GetInode, GetBlock, Reseal,
       GetChild, GetRecipientKey, GetInvitation, GetSenderKey
<1> QED
  BY <1>1, <1>2, <1>3, <1>4

LEMMA GetAccessMoves ==
    ASSUME CTypeOK, NEW s \in Sessions, GetAccess(s)
    PROVE  Moves(s)
<1> DEFINE c == call[s]
           d == [c EXCEPT !.acc = AccessOf(sessions[s], c.f), !.at = "mailbox"]
<1>1. InCall(s) /\ c.todo = <<>> /\ c.at = "access" /\ fresh' = fresh
  BY DEF GetAccess, At, InCall
<1>2. c \in Calls
  BY <1>1, CallType DEF Fits
<1>3. Goes(s, Absent) \/ (OpensAccess(sessions[s], c.f) /\ GoesOn(s, d))
  BY GetAccessGoes, Zenon
<1>4. SameCall(c, d) /\ d.at = "mailbox" /\ d.todo = c.todo /\ d.acc = AccessOf(sessions[s], c.f)
  BY <1>2 DEF Calls, SameCall
<1> HIDE DEF d
<1>5. CASE Goes(s, Absent)
  BY <1>1, <1>5 DEF Moves, Ends, GivesUp
<1>6. CASE OpensAccess(sessions[s], c.f) /\ GoesOn(s, d)
  <2>1. ToMailbox(sessions[s], c, d)
    BY <1>1, <1>4, <1>6 DEF ToMailbox
  <2> QED
    BY <1>4, <1>6, <2>1 DEF Moves, MovesTo, GoesOn, Fits
<1> QED
  BY <1>3, <1>5, <1>6

LEMMA GetMailboxMoves ==
    ASSUME CTypeOK, NEW s \in Sessions, GetMailbox(s)
    PROVE  Moves(s)
<1> DEFINE c == call[s]
           node == mailbox[c.acc.box.uuid].plain
           box  == [uuid |-> fresh, key |-> fresh + 1]
           d == [c EXCEPT !.node = node, !.at = "inode"]
           e == [c EXCEPT !.node = node, !.box = box, !.at = "recipient",
                          !.todo = <<SetMailbox(box, node)>>]
<1>1. InCall(s) /\ c.todo = <<>> /\ c.at = "mailbox"
  BY DEF GetMailbox, At, InCall
<1>2. c \in Calls
  BY <1>1, CallType DEF Fits
<1>3. \/ Goes(s, Absent)
      \/ OpensMailbox(c.acc.box) /\ c.op # "CreateInvitation" /\ fresh' = fresh /\ GoesOn(s, d)
      \/ OpensMailbox(c.acc.box) /\ c.op = "CreateInvitation" /\ fresh' = fresh + 2 /\ GoesOn(s, e)
  BY GetMailboxGoes, Zenon
<1>4. SameCall(c, d) /\ d.at = "inode" /\ d.todo = c.todo /\ d.acc = c.acc /\ d.node = node
  BY <1>2 DEF Calls, SameCall
<1>5. /\ SameCall(c, e) /\ e.at = "recipient" /\ e.todo = <<SetMailbox(box, node)>>
      /\ e.acc = c.acc /\ e.node = node /\ e.box = box
  BY <1>2 DEF Calls, SameCall
<1> HIDE DEF d, e
<1>6. CASE Goes(s, Absent)
  BY <1>1, <1>6 DEF Moves, Ends, GivesUp
<1>7. CASE OpensMailbox(c.acc.box) /\ c.op # "CreateInvitation" /\ fresh' = fresh /\ GoesOn(s, d)
  <2>1. ToInode(c, d)
    BY <1>1, <1>4, <1>7 DEF ToInode
  <2> QED
    BY <1>4, <1>7, <2>1 DEF Moves, MovesTo, GoesOn, Fits
<1>8. CASE OpensMailbox(c.acc.box) /\ c.op = "CreateInvitation" /\ fresh' = fresh + 2 /\ GoesOn(s, e)
  <2>1. ToRecipient(c, e)
    BY <1>1, <1>5, <1>8 DEF ToRecipient
  <2> QED
    BY <1>5, <1>8, <2>1 DEF Moves, MovesTo, GoesOn, Fits
<1> QED
  BY <1>3, <1>6, <1>7, <1>8

LEMMA GetInodeMoves ==
    ASSUME CTypeOK, NEW s \in Sessions, GetInode(s)
    PROVE  Moves(s)
<1> DEFINE c == call[s]
           file == inode[c.node.inode].plain
           box == [uuid |-> fresh + 2, key |-> fresh + 1]
           b == [c EXCEPT !.at = "block", !.file = file, !.left = file.blocks,
                          !.saw = IF Range(file.blocks) \subseteq DOMAIN block
                                  THEN FileBytes(c.node.inode) ELSE <<>>]
           d == [c EXCEPT !.at = "return", !.todo = AppendWrites(c, file)]
           e == [c EXCEPT !.at = "reseal", !.file = file, !.left = file.blocks,
                          !.key = fresh, !.box = box]
<1>1. InCall(s) /\ c.todo = <<>> /\ c.at = "inode"
  BY DEF GetInode, At, InCall
<1>2. c \in Calls
  BY <1>1, CallType DEF Fits
<1>3. \/ Goes(s, Absent)
      \/ c.op = "LoadFile" /\ fresh' = fresh /\ GoesOn(s, b)
      \/ /\ OpensInode(c.node) /\ c.op = "AppendToFile" /\ GoesOn(s, d)
         /\ fresh' = fresh + Len(ByteToBlock(c.arg))
      \/ OpensInode(c.node) /\ c.op = "RevokeAccess" /\ fresh' = fresh + 3 /\ GoesOn(s, e)
  BY GetInodeGoes, Zenon
<1>4. SameCall(c, b) /\ b.at = "block" /\ b.todo = c.todo
  BY <1>2 DEF Calls, SameCall
<1>5. SameCall(c, d) /\ d.at = "return" /\ d.node = c.node /\ d.todo = AppendWrites(c, file)
  BY <1>2 DEF Calls, SameCall
<1>6. /\ SameCall(c, e) /\ e.at = "reseal" /\ e.acc = c.acc /\ e.node = c.node /\ e.file = file
      /\ e.left = file.blocks /\ e.key = fresh /\ e.box = box /\ e.todo = c.todo
  BY <1>2 DEF Calls, SameCall
<1> HIDE DEF b, d, e
<1>7. CASE Goes(s, Absent)
  BY <1>1, <1>7 DEF Moves, Ends, GivesUp
<1>8. CASE c.op = "LoadFile" /\ fresh' = fresh /\ GoesOn(s, b)
  <2>1. ToBlock(c, b)
    BY <1>1, <1>4, <1>8 DEF ToBlock
  <2> QED
    BY <1>4, <1>8, <2>1 DEF Moves, MovesTo, GoesOn, Fits
<1>9. CASE /\ OpensInode(c.node) /\ c.op = "AppendToFile" /\ GoesOn(s, d)
           /\ fresh' = fresh + Len(ByteToBlock(c.arg))
  <2>1. ToAppend(c, d)
    BY <1>1, <1>5, <1>9 DEF ToAppend
  <2> QED
    BY <1>5, <1>9, <2>1 DEF Moves, MovesTo, GoesOn, Fits
<1>10. CASE OpensInode(c.node) /\ c.op = "RevokeAccess" /\ fresh' = fresh + 3 /\ GoesOn(s, e)
  <2>1. ToReseal(c, e)
    BY <1>1, <1>6, <1>10 DEF ToReseal
  <2> QED
    BY <1>6, <1>10, <2>1 DEF Moves, MovesTo, GoesOn, Fits
<1> QED
  BY <1>3, <1>7, <1>8, <1>9, <1>10

LEMMA GetBlockMoves ==
    ASSUME CTypeOK, NEW s \in Sessions, GetBlock(s)
    PROVE  Moves(s)
<1> DEFINE c == call[s]
           b == Head(c.left)
           d == [c EXCEPT !.left = Tail(@), !.got = @ \o block[b].plain]
<1>1. InCall(s) /\ c.todo = <<>> /\ c.at = "block" /\ fresh' = fresh
  BY DEF GetBlock, At, InCall
<1>2. c \in Calls /\ c.op = "LoadFile"
  BY <1>1, CallType DEF Fits, OpFits
<1>3. Goes(s, Absent) \/ GoesOn(s, d)
  BY GetBlockGoes, Zenon
<1>4. SameCall(c, d) /\ d.at = c.at /\ d.todo = c.todo
  BY <1>2 DEF Calls, SameCall
<1> HIDE DEF d
<1>5. CASE Goes(s, Absent)
  BY <1>1, <1>5 DEF Moves, Ends, GivesUp
<1>6. CASE GoesOn(s, d)
  <2>1. ToBlock(c, d)
    BY <1>1, <1>2, <1>4 DEF ToBlock
  <2> QED
    BY <1>4, <1>6, <2>1 DEF Moves, MovesTo, GoesOn, Fits
<1> QED
  BY <1>3, <1>5, <1>6

LEMMA ResealMoves ==
    ASSUME CTypeOK, NEW s \in Sessions, Reseal(s)
    PROVE  Moves(s)
<1> DEFINE c == call[s]
           b == Head(c.left)
           w == Set("block", b, encryptAndMAC(block[b].plain, getFileKeys(c.key)))
           ks == {u \in Users \ {c.arg} : c.acc.children[u] # Absent}
           d == [c EXCEPT !.left = Tail(@), !.todo = <<w>>]
           e == [c EXCEPT !.at = "child", !.kids = ks, !.todo = RevokeWrites(c)]
<1>1. InCall(s) /\ c.todo = <<>> /\ c.at = "reseal" /\ fresh' = fresh
  BY DEF Reseal, At, InCall
<1>2. c \in Calls /\ c.op = "RevokeAccess"
  BY <1>1, CallType DEF Fits, OpFits
<1>3. \/ c.left # <<>> /\ ~OpensBlock(b, c.node) /\ Goes(s, Absent)
      \/ c.left # <<>> /\ OpensBlock(b, c.node) /\ GoesOn(s, d)
      \/ c.left = <<>> /\ GoesOn(s, e)
  BY ResealGoes, Zenon
<1>4. /\ SameCall(c, d) /\ d.at = c.at /\ d.acc = c.acc /\ d.node = c.node /\ d.file = c.file
      /\ d.key = c.key /\ d.box = c.box /\ d.left = Tail(c.left) /\ d.todo = <<w>>
  BY <1>2 DEF Calls, SameCall
<1>5. /\ SameCall(c, e) /\ e.at = "child" /\ e.acc = c.acc /\ e.node = c.node /\ e.file = c.file
      /\ e.key = c.key /\ e.box = c.box /\ e.kids = ks /\ e.todo = RevokeWrites(c)
  BY <1>2 DEF Calls, SameCall
<1> HIDE DEF d, e
<1>6. CASE c.left # <<>> /\ ~OpensBlock(b, c.node) /\ Goes(s, Absent)
  BY <1>1, <1>6 DEF Moves, Ends, GivesUp
<1>7. CASE c.left # <<>> /\ OpensBlock(b, c.node) /\ GoesOn(s, d)
  <2>1. Resealed(c, d)
    BY <1>1, <1>2, <1>4, <1>7 DEF Resealed, SameRevocation
  <2> QED
    BY <1>4, <1>7, <2>1 DEF Moves, MovesTo, GoesOn, Fits
<1>8. CASE c.left = <<>> /\ GoesOn(s, e)
  <2>1. ToChild(c, e)
    BY <1>1, <1>2, <1>5, <1>8 DEF ToChild, SameRevocation
  <2> QED
    BY <1>5, <1>8, <2>1 DEF Moves, MovesTo, GoesOn, Fits
<1> QED
  BY <1>3, <1>6, <1>7, <1>8

LEMMA GetChildMoves ==
    ASSUME CTypeOK, NEW s \in Sessions, GetChild(s)
    PROVE  Moves(s)
<1> DEFINE c == call[s]
           d(u) == [c EXCEPT !.kids = @ \ {u}, !.todo = KidTodo(c, u)]
           e == [c EXCEPT !.at = "return", !.todo = LastTodo(s, c)]
<1>1. InCall(s) /\ c.todo = <<>> /\ c.at = "child" /\ fresh' = fresh
  BY Zenon DEF GetChild, At, InCall
<1>2. c \in Calls /\ c.op = "RevokeAccess"
  BY <1>1, CallType DEF Fits, OpFits
<1>3. (\E u \in c.kids : GoesOn(s, d(u))) \/ GoesOn(s, e)
  BY GetChildGoes, Zenon
<1>4. ASSUME NEW u
      PROVE  /\ SameCall(c, d(u)) /\ d(u).at = c.at /\ d(u).acc = c.acc /\ d(u).node = c.node
             /\ d(u).file = c.file /\ d(u).key = c.key /\ d(u).box = c.box
             /\ d(u).kids = c.kids \ {u} /\ d(u).todo = KidTodo(c, u)
  BY <1>2 DEF Calls, SameCall
<1>5. /\ SameCall(c, e) /\ e.at = "return" /\ e.acc = c.acc /\ e.node = c.node /\ e.file = c.file
      /\ e.key = c.key /\ e.box = c.box /\ e.todo = LastTodo(s, c)
  BY <1>2 DEF Calls, SameCall
<1> HIDE DEF d, e
<1>6. ASSUME NEW u \in c.kids, GoesOn(s, d(u)) PROVE Moves(s)
  <2>1. NextChild(c, d(u))
    BY <1>1, <1>2, <1>4, <1>6 DEF NextChild, SameRevocation
  <2> QED
    BY <1>4, <1>6, <2>1 DEF Moves, MovesTo, GoesOn, Fits
<1>7. CASE GoesOn(s, e)
  <2>1. ToRevoked(sessions[s], c, e)
    BY <1>1, <1>2, <1>5 DEF ToRevoked, SameRevocation, LastTodo
  <2> QED
    BY <1>5, <1>7, <2>1 DEF Moves, MovesTo, GoesOn, Fits
<1> QED
  BY <1>3, <1>6, <1>7

LEMMA GetRecipientKeyMoves ==
    ASSUME CTypeOK, NEW s \in Sessions, GetRecipientKey(s)
    PROVE  Moves(s)
<1> DEFINE c == call[s]
           d == [c EXCEPT !.at = "return", !.todo = InviteWrites(sessions[s], c)]
<1>1. InCall(s) /\ c.todo = <<>> /\ c.at = "recipient"
  BY DEF GetRecipientKey, At, InCall
<1>2. c \in Calls
  BY <1>1, CallType DEF Fits
<1>3. \/ keystore[c.arg] = Absent /\ Goes(s, Absent)
      \/ keystore[c.arg] # Absent /\ fresh' = fresh + 1 /\ GoesOn(s, d)
  BY GetRecipientKeyGoes, Zenon
<1>4. /\ SameCall(c, d) /\ d.at = "return" /\ d.todo = InviteWrites(sessions[s], c)
      /\ d.acc = c.acc /\ d.node = c.node /\ d.box = c.box
  BY <1>2 DEF Calls, SameCall
<1> HIDE DEF d
<1>5. CASE keystore[c.arg] = Absent /\ Goes(s, Absent)
  BY <1>1, <1>5 DEF Moves, Ends, GivesUp
<1>6. CASE keystore[c.arg] # Absent /\ fresh' = fresh + 1 /\ GoesOn(s, d)
  <2>1. ToInvite(sessions[s], c, d)
    BY <1>1, <1>4, <1>6 DEF ToInvite
  <2> QED
    BY <1>4, <1>6, <2>1 DEF Moves, MovesTo, GoesOn, Fits
<1> QED
  BY <1>3, <1>5, <1>6

LEMMA GetInvitationMoves ==
    ASSUME CTypeOK, NEW s \in Sessions, GetInvitation(s)
    PROVE  Moves(s)
<1> DEFINE c == call[s]
           d == [c EXCEPT !.inv = invitation[c.arg[2]], !.at = "sender"]
<1>1. InCall(s) /\ c.todo = <<>> /\ c.at = "invitation" /\ fresh' = fresh
  BY DEF GetInvitation, At, InCall
<1>2. c \in Calls
  BY <1>1, CallType DEF Fits
<1>3. Goes(s, Absent) \/ (c.arg[2] \in DOMAIN invitation /\ GoesOn(s, d))
  BY GetInvitationGoes, Zenon
<1>4. SameCall(c, d) /\ d.at = "sender" /\ d.inv = invitation[c.arg[2]] /\ d.todo = c.todo
  BY <1>2 DEF Calls, SameCall
<1> HIDE DEF d
<1>5. CASE Goes(s, Absent)
  BY <1>1, <1>5 DEF Moves, Ends, GivesUp
<1>6. CASE c.arg[2] \in DOMAIN invitation /\ GoesOn(s, d)
  <2>1. ToSender(c, d)
    BY <1>1, <1>4, <1>6 DEF ToSender
  <2> QED
    BY <1>4, <1>6, <2>1 DEF Moves, MovesTo, GoesOn, Fits
<1> QED
  BY <1>3, <1>5, <1>6

LEMMA GetSenderKeyMoves ==
    ASSUME CTypeOK, NEW s \in Sessions, GetSenderKey(s)
    PROVE  Moves(s)
<1> DEFINE c == call[s]
           acc == [box |-> c.inv.box, children |-> NoChildren]
           ws == <<SetAccess(sessions[s], c.f, acc), SetUser(sessions[s], c.f)>>
           d == [c EXCEPT !.at = "return", !.todo = ws]
<1>1. InCall(s) /\ c.todo = <<>> /\ c.at = "sender" /\ fresh' = fresh
  BY DEF GetSenderKey, At, InCall
<1>2. c \in Calls
  BY <1>1, CallType DEF Fits
<1>3. Goes(s, Absent) \/ (c.inv.enc = sessions[s].pke /\ GoesOn(s, d))
  BY GetSenderKeyGoes, Zenon
<1>4. SameCall(c, d) /\ d.at = "return" /\ d.todo = ws
  BY <1>2 DEF Calls, SameCall
<1> HIDE DEF d
<1>5. CASE Goes(s, Absent)
  BY <1>1, <1>5 DEF Moves, Ends, GivesUp
<1>6. CASE c.inv.enc = sessions[s].pke /\ GoesOn(s, d)
  <2>1. ToAccept(sessions[s], c, d)
    BY <1>1, <1>4, <1>6 DEF ToAccept
  <2> QED
    BY <1>4, <1>6, <2>1 DEF Moves, MovesTo, GoesOn, Fits
<1> QED
  BY <1>3, <1>5, <1>6

(* A step that reads. *)
LEMMA ReadingMoves ==
    ASSUME CTypeOK, NEW s \in Sessions, Reading(s)
    PROVE  Moves(s)
BY GetAccessMoves, GetMailboxMoves, GetInodeMoves, GetBlockMoves, ResealMoves, GetChildMoves,
   GetRecipientKeyMoves, GetInvitationMoves, GetSenderKeyMoves DEF Reading

-----------------------------------------------------------------------------
(* A call that begins *)

Begins(s, d) ==
    /\ d \in Calls /\ Fits(d) /\ Goes(s, d) /\ ~InCall(s) /\ sessions[s] \in User
    /\ UNCHANGED <<sessions, revoked, died>>
    /\ begun' = begun \cup {<<Who(s), d.op>>} /\ mixed \subseteq mixed'
    /\ \A t \in Sessions : InCall(t) => {d.op, call[t].op} \in mixed'

(* It will read first; or it is StoreFile, which has queued all it does. *)
BeginsReading(s, d) ==
    /\ d.at \in {"access", "invitation"} /\ d.op # "StoreFile" /\ d.todo = <<>>
    /\ fresh' = fresh

BeginsStoring(s, d) ==
    LET n == Len(ByteToBlock(d.arg))
    IN  /\ d.op = "StoreFile" /\ d.at = "return" /\ d.arg \in Contents /\ d.f \in Filenames
        /\ d.node = StoredNode /\ fresh' = fresh + 4 + n
        /\ d.todo = StoreFileWrites(sessions[s], d.f, d.arg, StoredNode, StoredBox, fresh + 4)

LEMMA NewCallType ==
    ASSUME NEW op \in Methods, NEW f \in Filenames, NEW arg \in Args
    PROVE  /\ NewCall(op, f, arg) \in Calls
           /\ NewCall(op, f, arg).op = op /\ NewCall(op, f, arg).f = f
           /\ NewCall(op, f, arg).arg = arg /\ NewCall(op, f, arg).at = "access"
           /\ NewCall(op, f, arg).todo = <<>>
BY DEF NewCall, Calls

LEMMA CallsBegin ==
    ASSUME CTypeOK, NEW s \in Sessions, BeginCall(s)
    PROVE  \E d : Begins(s, d) /\ (BeginsReading(s, d) \/ BeginsStoring(s, d))
<1>1. PICK f \in Filenames :
        \/ BeginOnFile(s, "LoadFile", f, Absent)
        \/ \E content \in Contents : \/ BeginStoreFile(s, f, content)
                                     \/ BeginOnFile(s, "AppendToFile", f, content)
        \/ \E u \in Users, op \in {"CreateInvitation", "RevokeAccess"} :
               BeginOnFile(s, op, f, u)
        \/ \E u \in Users, ptr \in DOMAIN invitation \cup {0} :
               BeginAcceptInvitation(s, u, ptr, f)
  BY DEF BeginCall
<1>2. sessions \in [Sessions -> User \cup {Absent}]
  BY DEF CTypeOK, TypeOK
<1>3. ASSUME NEW d, d \in Calls, Goes(s, d), Begin(s, d)
      PROVE  Begins(s, d)
  <2>1. /\ died' = died /\ mixed \subseteq mixed' /\ ~InCall(s)
        /\ begun' = begun \cup {<<sessions[s].name, d.op>>}
        /\ \A t \in Sessions : InCall(t) => {d.op, call[t].op} \in mixed'
    BY <1>3, BeginMixes
  <2>2. sessions' = sessions /\ revoked' = revoked /\ sessions[s] \in User
    BY <1>2, <1>3 DEF Begin
  <2>3. Fits(d)
    BY <1>3, NoCallAssumption DEF Goes
  <2> QED
    BY <1>3, <2>1, <2>2, <2>3 DEF Begins, Who
<1>4. ASSUME NEW op, NEW arg, BeginOnFile(s, op, f, arg),
             \/ op = "LoadFile" /\ arg = Absent
             \/ op = "AppendToFile" /\ arg \in Contents
             \/ op \in {"CreateInvitation", "RevokeAccess"} /\ arg \in Users
      PROVE  \E d : Begins(s, d) /\ BeginsReading(s, d)
  <2> DEFINE d == NewCall(op, f, arg)
  <2>1. Goes(s, d) /\ Begin(s, d) /\ fresh' = fresh
    BY <1>4, BeginOnFileGoes DEF BeginOnFile
  <2>2. op \in Methods /\ op # "StoreFile" /\ arg \in Args
    BY <1>4 DEF Methods, Args
  <2>3. d \in Calls /\ d.op = op /\ d.at = "access" /\ d.todo = <<>>
    BY <2>2, NewCallType
  <2> HIDE DEF d
  <2>4. Begins(s, d) /\ BeginsReading(s, d)
    BY <1>3, <2>1, <2>2, <2>3 DEF BeginsReading
  <2> QED
    BY <2>4
<1>5. ASSUME NEW u \in Users, NEW ptr \in DOMAIN invitation \cup {0},
             BeginAcceptInvitation(s, u, ptr, f)
      PROVE  \E d : Begins(s, d) /\ BeginsReading(s, d)
  <2> DEFINE c == NewCall("AcceptInvitation", f, <<u, ptr>>)
             d == [c EXCEPT !.at = "invitation"]
  <2>0. ptr \in Nat
    BY DEF CTypeOK, TypeOK, IsStore
  <2>1. Goes(s, d) /\ Begin(s, d) /\ fresh' = fresh
    BY <1>5, <2>0, BeginAcceptGoes DEF BeginAcceptInvitation
  <2>2. "AcceptInvitation" \in Methods /\ <<u, ptr>> \in Args
    BY <2>0 DEF Methods, Args
  <2>3. c \in Calls /\ c.op = "AcceptInvitation" /\ c.todo = <<>>
    BY <2>2, NewCallType
  <2> HIDE DEF c
  <2>4. d \in Calls /\ d.op = c.op /\ d.at = "invitation" /\ d.todo = c.todo
    BY <2>3 DEF Calls
  <2> HIDE DEF d
  <2>5. Begins(s, d) /\ BeginsReading(s, d)
    BY <1>3, <2>1, <2>3, <2>4 DEF BeginsReading
  <2> QED
    BY <2>5
<1>6. ASSUME NEW content \in Contents, BeginStoreFile(s, f, content)
      PROVE  \E d : Begins(s, d) /\ BeginsStoring(s, d)
  <2> DEFINE ws == StoreFileWrites(sessions[s], f, content, StoredNode, StoredBox, fresh + 4)
             c  == NewCall("StoreFile", f, content)
             d  == [c EXCEPT !.at = "return", !.node = StoredNode, !.todo = ws]
  <2>1. /\ Goes(s, d) /\ sessions[s] # Absent /\ fresh \in Nat
        /\ fresh' = fresh + 4 + Len(ByteToBlock(content))
    BY <1>6, BeginStoreGoes DEF StoreCall, CTypeOK, TypeOK
  <2>2. Begin(s, d)
    BY <1>6 DEF BeginStoreFile, StoredNode, StoredBox
  <2>3. StoredNode \in MailboxNode /\ StoredBox \in Pointer /\ fresh + 4 \in Nat
    BY <2>1 DEF StoredNode, StoredBox, MailboxNode, Pointer
  <2>4. ws \in Seq(Writes)
    BY <1>2, <2>1, <2>3, StoreFileWritesAre
  <2>5. "StoreFile" \in Methods /\ content \in Args
    BY DEF Methods, Args
  <2>6. c \in Calls /\ c.op = "StoreFile" /\ c.f = f /\ c.arg = content
    BY <2>5, NewCallType
  <2> HIDE DEF c, ws
  <2>7. /\ d \in Calls /\ d.op = "StoreFile" /\ d.f = f /\ d.arg = content /\ d.at = "return"
        /\ d.node = StoredNode /\ d.todo = ws
    BY <2>3, <2>4, <2>6 DEF Calls
  <2> HIDE DEF d
  <2>8. Begins(s, d)
    BY <1>3, <2>1, <2>2, <2>7
  <2>9. BeginsStoring(s, d)
    BY <2>1, <2>7 DEF BeginsStoring, ws
  <2> QED
    BY <2>8, <2>9
<1> QED
  BY <1>1, <1>4, <1>5, <1>6

-----------------------------------------------------------------------------
(* The next write of a call *)

(* d is c without its first write w. *)
WroteFirst(c, d, w) ==
    /\ c \in Calls /\ d \in Calls /\ Fits(c) /\ Fits(d) /\ WroteAll(c, d) /\ SameCall(c, d)
    /\ d.key = c.key /\ d.kids = c.kids
    /\ c.todo \in Seq(Writes) /\ 1 \in DOMAIN c.todo /\ w = c.todo[1] /\ w \in Writes

RevokedAfter(c) ==
    CASE c.op = "RevokeAccess" -> revoked \cup {<<c.arg, c.node.inode>>}
      [] c.op = "CreateInvitation" -> revoked \ {<<c.arg, c.node.inode>>}
      [] OTHER -> revoked

WritesNext(s, c, d, w) ==
    /\ InCall(s) /\ c = call[s] /\ WroteFirst(c, d, w) /\ Write(w) /\ w \in Queued
    /\ Queued' \subseteq Queued
    /\ UNCHANGED <<keystore, fresh, begun, mixed, died>>
    /\ \A t \in Sessions : t # s => sessions'[t] = sessions[t]
    /\ sessions'[s] = IF w.kind = "account" THEN w.record.plain ELSE sessions[s]
    /\ \/ /\ call' = [call EXCEPT ![s] = Absent] /\ revoked' = RevokedAfter(c)
          /\ Len(c.todo) = 1 /\ c.at = "return"
       \/ /\ call' = [call EXCEPT ![s] = d] /\ revoked' = revoked
          /\ Len(c.todo) > 1 \/ c.at # "return"

LEMMA SetNextWrites ==
    ASSUME CTypeOK, NEW s \in Sessions, SetNext(s)
    PROVE  \E c, d, w : WritesNext(s, c, d, w)
<1> DEFINE c == call[s]
           d == [c EXCEPT !.todo = Tail(@)]
           w == c.todo[1]
<1>1. /\ InCall(s) /\ WroteAll(c, d) /\ Fits(c) /\ Fits(d)
      /\ c.todo \in Seq(Writes) /\ 1 \in DOMAIN c.todo
      /\ w \in Queued /\ Queued' \subseteq Queued /\ Write(w)
      /\ mixed' = mixed /\ begun' = begun /\ died' = died
  BY SetNextCall
<1>2. c \in Calls /\ d \in Calls
  BY <1>1 DEF Fits
<1>3. SameCall(c, d) /\ d.key = c.key /\ d.kids = c.kids
  BY <1>2 DEF Calls, SameCall
<1>4. /\ w = Head(c.todo) /\ w \in Writes
      /\ \A t \in Sessions : t # s => sessions'[t] = sessions[t]
  BY SetNextGoes
<1>5. /\ UNCHANGED <<keystore, fresh>>
      /\ sessions' = IF w.kind = "account" THEN [sessions EXCEPT ![s] = w.record.plain]
                                           ELSE sessions
      /\ \/ Len(c.todo) = 1 /\ c.at = "return" /\ Returns(s)
         \/ (Len(c.todo) > 1 \/ c.at # "return") /\ Continue(s, d)
  BY <1>4 DEF SetNext, SetDone
<1> HIDE DEF d
<1>6. sessions'[s] = IF w.kind = "account" THEN w.record.plain ELSE sessions[s]
  BY <1>5 DEF CTypeOK, TypeOK
<1>7. WroteFirst(c, d, w)
  BY <1>1, <1>2, <1>3, <1>4 DEF WroteFirst
<1>8. Returns(s) => call' = [call EXCEPT ![s] = Absent] /\ revoked' = RevokedAfter(c)
  BY Zenon DEF Returns, RevokedAfter
<1>9. Continue(s, d) => call' = [call EXCEPT ![s] = d] /\ revoked' = revoked
  BY DEF Continue
<1>10. \/ /\ call' = [call EXCEPT ![s] = Absent] /\ revoked' = RevokedAfter(c)
          /\ Len(c.todo) = 1 /\ c.at = "return"
       \/ /\ call' = [call EXCEPT ![s] = d] /\ revoked' = revoked
          /\ Len(c.todo) > 1 \/ c.at # "return"
  BY <1>5, <1>8, <1>9
<1>11. WritesNext(s, c, d, w)
  BY <1>1, <1>4, <1>5, <1>6, <1>7, <1>10 DEF WritesNext
<1> QED
  BY <1>11

-----------------------------------------------------------------------------
-----------------------------------------------------------------------------
(* Identities *)

LEMMA OneWrite ==
    ASSUME NEW q, NEW a, q = <<a>>
    PROVE  Len(q) = 1 /\ DOMAIN q = {1} /\ q[1] = a
OBVIOUS

LEMMA TwoWrites ==
    ASSUME NEW q, NEW a, NEW b, q = <<a, b>>
    PROVE  Len(q) = 2 /\ DOMAIN q = {1, 2} /\ q[1] = a /\ q[2] = b
OBVIOUS

LEMMA PublicApart ==
    /\ \A u \in Users : Public[u] # Absent <=> u \in Range(Circle)
    /\ \A u, v \in Range(Circle) :
           Public[u].enc = Public[v].enc \/ Public[u].sig = Public[v].sig => u = v
<1>1. ASSUME NEW u \in Range(Circle)
      PROVE  /\ Public[u].enc = 2 * Position(u) - 1 /\ Public[u].sig = 2 * Position(u)
             /\ Public[u] \in PublicKeys
             /\ Position(u) \in Nat /\ Circle[Position(u)] = u /\ u \in Users
  <2> DEFINE n == Position(u)
  <2>1. n \in Nat \ {0} /\ Circle[n] = u /\ u \in Users
    BY PositionType
  <2>2. Public[u] = [enc |-> 2 * n - 1, sig |-> 2 * n]
    BY <2>1 DEF Public
  <2> HIDE DEF n
  <2>3. 2 * n - 1 \in Nat /\ 2 * n \in Nat
    BY <2>1
  <2> QED
    BY <2>1, <2>2, <2>3 DEF n, PublicKeys
<1>2. ASSUME NEW u \in Range(Circle) PROVE Public[u] # Absent
  BY <1>1, AbsentAssumption
<1>3. ASSUME NEW u \in Users, u \notin Range(Circle) PROVE Public[u] = Absent
  BY <1>3 DEF Public
<1>4. ASSUME NEW u \in Range(Circle), NEW v \in Range(Circle),
             Public[u].enc = Public[v].enc \/ Public[u].sig = Public[v].sig
      PROVE  u = v
  <2> DEFINE n == Position(u)
             m == Position(v)
  <2>1. n \in Nat /\ m \in Nat /\ (2 * n - 1 = 2 * m - 1 \/ 2 * n = 2 * m)
    BY <1>1, <1>4
  <2>2. Circle[n] = u /\ Circle[m] = v
    BY <1>1
  <2> HIDE DEF n, m
  <2>3. n = m
    BY <2>1
  <2> QED
    BY <2>2, <2>3
<1> QED
  BY <1>2, <1>3, <1>4

LEMMA SetUserMine ==
    ASSUME NEW me \in User, NEW f \in Filenames, Genuine(me)
    PROVE  /\ SetUser(me, f).kind = "account"
           /\ \A c : WriteMine(me.name, c, SetUser(me, f))
<1> DEFINE new == [me EXCEPT !.files = @ \cup {f}]
           w == SetUser(me, f)
<1>1. new.name = me.name /\ new.pke = me.pke /\ new.ds = me.ds
  BY DEF User
<1> HIDE DEF new
<1>2. w = [kind |-> "account", id |-> me.name,
           record |-> encryptAndMAC(new, getUserKeys(me.master))]
  BY DEF SetUser, Set, new
<1>3. w.kind = "account" /\ w.id = me.name /\ w.record.plain = new
  BY <1>2 DEF encryptAndMAC
<1>4. Genuine(new)
  BY <1>1 DEF Genuine
<1> HIDE DEF w
<1>5. \A c : WriteMine(me.name, c, w)
  BY <1>1, <1>3, <1>4 DEF WriteMine
<1> QED
  BY <1>3, <1>5 DEF w

(* Nothing is queued and the call reads on. *)
LEMMA MinePlain ==
    ASSUME NEW u, NEW d, Fits(d), d.todo = <<>>, d.at \notin {"return", "child"}
    PROVE  CallMine(u, d)
<1>1. d.op # "StoreFile"
  BY DEF Fits, OpFits, Calls
<1>2. DOMAIN d.todo = {}
  OBVIOUS
<1>3. InOrder(d)
  BY <1>1 DEF InOrder
<1>4. Holds(d) => d.acc \in Access
  BY DEF Holds, Fits, Has
<1>5. Knows(d) => d.node \in MailboxNode
  BY DEF Knows, Holds, Fits, Has
<1>6. Invites(d) \/ Rekeys(d) => d.box \in Pointer
  BY DEF Invites, Rekeys, Fits, Has
<1>7. Rekeys(d) => d.file \in Inode
  BY DEF Rekeys, Fits, Has
<1> QED
  BY <1>2, <1>3, <1>4, <1>5, <1>6, <1>7 DEF CallMine

LEMMA MineMoves ==
    ASSUME CTypeOK, NEW s \in Sessions, InCall(s), Genuine(sessions[s]), keystore = Public,
           CallMine(Who(s), call[s]), NEW d \in Calls, Fits(d), SameCall(call[s], d),
           MovesTo(sessions[s], call[s], d)
    PROVE  CallMine(Who(s), d)
<1> DEFINE c == call[s]
           me == sessions[s]
           u == me.name
<1>1. /\ Fits(c) /\ c \in Calls /\ me \in User /\ fresh \in Nat /\ c.f \in Filenames
      /\ u \in Users
  BY CallType DEF Fits, Calls, User
<1>2. d.op = c.op /\ d.f = c.f /\ d.arg = c.arg
  BY DEF SameCall
<1>3. CallMine(u, c) /\ Genuine(me)
  BY DEF Who
<1> HIDE DEF c, me
<1>4. CASE \/ ToMailbox(me, c, d) \/ ToInode(c, d) \/ ToBlock(c, d) \/ ToReseal(c, d)
           \/ ToSender(c, d)
  <2>1. d.todo = <<>> /\ d.at \notin {"return", "child"}
    BY <1>4 DEF ToMailbox, ToInode, ToBlock, ToReseal, ToSender
  <2> QED
    BY <2>1, MinePlain DEF Who, me
<1>5. CASE ToRecipient(c, d)
  <2> DEFINE w == SetMailbox(d.box, d.node)
  <2>1. /\ d.at = "recipient" /\ d.todo = <<w>> /\ d.op = "CreateInvitation"
    BY <1>2, <1>5 DEF ToRecipient
  <2>2. d.box \in Pointer /\ d.node \in MailboxNode /\ d.acc \in Access
    BY <2>1 DEF Fits, Has
  <2>3. w.kind = "mailbox" /\ w.id = d.box.uuid /\ w.record.plain = d.node
    BY <2>2, SetMailboxType
  <2> HIDE DEF w
  <2>4. WriteMine(u, d, w)
    BY <2>1, <2>3 DEF WriteMine
  <2>5. DOMAIN d.todo = {1} /\ d.todo[1] = w
    BY <2>1, OneWrite
  <2> QED
    BY <2>1, <2>2, <2>4, <2>5 DEF CallMine, InOrder, Rekeys, Who, me
<1>6. CASE ToAppend(c, d)
  <2> DEFINE file == inode[c.node.inode].plain
             ws == AppendWrites(c, file)
             n == Len(ByteToBlock(c.arg))
  <2>1. /\ d.at = "return" /\ d.op = "AppendToFile" /\ d.node = c.node /\ d.todo = ws
        /\ c.at = "inode" /\ c.op = "AppendToFile" /\ OpensInode(c.node)
    BY <1>2, <1>6 DEF ToAppend
  <2>2. c.arg \in Contents /\ c.node \in MailboxNode
    BY <1>1, <2>1 DEF Fits, OpFits, Has
  <2>3. file \in Inode
    BY <2>1, <2>2, ReadTypes DEF CTypeOK
  <2> HIDE DEF file
  <2>4. /\ n \in Nat /\ ws \in Seq(Writes) /\ Len(ws) = n + 1
        /\ \A k \in 1..n : /\ ws[k].kind = "block"
                           /\ ws[k].record.key = getFileKeys(c.node.fileKey)
        /\ ws[n + 1] = [kind |-> "inode", id |-> c.node.inode,
                        record |-> [key |-> <<"file", c.node.fileKey>>,
                                    plain |-> Appended(file, c.arg, fresh)]]
    BY <2>2, <2>3, AppendWritesAre
  <2>5. /\ ws[n + 1].kind = "inode" /\ ws[n + 1].id = c.node.inode
        /\ ws[n + 1].record.key = getFileKeys(c.node.fileKey)
    BY <2>4 DEF getFileKeys
  <2> HIDE DEF ws, n
  <2>6. DOMAIN ws = 1..(n + 1)
    BY <2>4
  <2>7. ASSUME NEW k \in DOMAIN ws PROVE WriteMine(u, d, ws[k])
    <3>1. k \in 1..n \/ k = n + 1
      BY <2>4, <2>6
    <3>2. CASE k \in 1..n
      BY <2>1, <2>4, <3>2 DEF WriteMine
    <3>3. CASE k = n + 1
      BY <2>1, <2>5, <3>3 DEF WriteMine
    <3> QED
      BY <3>1, <3>2, <3>3
  <2> QED
    BY <2>1, <2>2, <2>7 DEF CallMine, InOrder, Holds, Knows, Invites, Rekeys, Who, me
<1>7. ASSUME SameRevocation(c, d), c.at \in {"reseal", "child"},
             d.at \in {"reseal", "child", "return"}
      PROVE  /\ d.op = "RevokeAccess" /\ c.acc \in Access /\ c.node \in MailboxNode
             /\ c.box \in Pointer /\ c.file \in Inode /\ c.key \in Nat
             /\ (\A n \in DOMAIN d.todo : WriteMine(u, d, d.todo[n]))
                    /\ (d.at = "child" => d.arg \notin d.kids) => CallMine(Who(s), d)
  <2>1. /\ c.op = "RevokeAccess" /\ d.acc = c.acc /\ d.node = c.node /\ d.file = c.file
        /\ d.key = c.key /\ d.box = c.box
    BY <1>7 DEF SameRevocation
  <2>2. c.acc \in Access /\ c.node \in MailboxNode /\ c.box \in Pointer /\ c.key \in Nat
    BY <1>1, <1>7 DEF Fits, Has, Calls
  <2>3. c.file \in Inode
    BY <1>3, <1>7, <2>1 DEF CallMine, Rekeys
  <2>4. InOrder(d)
    BY <1>2, <2>1 DEF InOrder
  <2> QED
    BY <1>2, <2>1, <2>2, <2>3, <2>4 DEF CallMine, Who, me
<1>8. CASE Resealed(c, d)
  <2> DEFINE b == Head(c.left)
             w == Set("block", b, encryptAndMAC(block[b].plain, getFileKeys(c.key)))
  <2>1. SameRevocation(c, d) /\ c.at = "reseal" /\ d.at = "reseal" /\ d.todo = <<w>>
    BY <1>8 DEF Resealed
  <2>2. w.kind = "block" /\ w.record.key = getFileKeys(c.key)
    BY DEF Set, encryptAndMAC
  <2> HIDE DEF w
  <2>3. DOMAIN d.todo = {1} /\ d.todo[1] = w
    BY <2>1, OneWrite
  <2>4. d.op = "RevokeAccess" /\ d.key = c.key
    BY <1>7, <2>1 DEF SameRevocation
  <2>5. WriteMine(u, d, w)
    BY <2>1, <2>2, <2>4 DEF WriteMine
  <2> QED
    BY <1>7, <2>1, <2>3, <2>5
<1>9. CASE ToChild(c, d)
  <2> DEFINE node == [c.node EXCEPT !.fileKey = c.key]
             v == SetInode(node, c.file)
             w == SetMailbox(c.box, node)
  <2>1. SameRevocation(c, d) /\ c.at = "reseal" /\ d.at = "child" /\ d.todo = <<v, w>>
    BY <1>9 DEF ToChild, RevokeWrites
  <2>2. /\ d.op = "RevokeAccess" /\ c.node \in MailboxNode /\ c.box \in Pointer
        /\ c.file \in Inode /\ c.key \in Nat
        /\ d.node = c.node /\ d.file = c.file /\ d.key = c.key /\ d.box = c.box
    BY <1>7, <2>1 DEF SameRevocation
  <2>3. node \in MailboxNode /\ node.inode = c.node.inode /\ node.fileKey = c.key
    BY <2>2 DEF MailboxNode
  <2> HIDE DEF node
  <2>4. /\ v.kind = "inode" /\ v.id = c.node.inode /\ v.record.plain = c.file
        /\ v.record.key = getFileKeys(c.key)
    BY <2>2, <2>3, SetInodeType DEF getFileKeys
  <2>5. w.kind = "mailbox" /\ w.id = c.box.uuid /\ w.record.plain = node
    BY <2>2, <2>3, SetMailboxType
  <2> HIDE DEF v, w
  <2>6. WriteMine(u, d, v)
    BY <2>1, <2>2, <2>4 DEF WriteMine
  <2>7. WriteMine(u, d, w)
    BY <2>1, <2>2, <2>3, <2>5 DEF WriteMine
  <2>8. DOMAIN d.todo = {1, 2} /\ d.todo[1] = v /\ d.todo[2] = w
    BY <2>1, TwoWrites
  <2>9. d.arg \notin d.kids
    BY <1>2, <1>9 DEF ToChild
  <2> QED
    BY <1>7, <2>1, <2>6, <2>7, <2>8, <2>9
<1>10. CASE NextChild(c, d)
  <2>1. SameRevocation(c, d) /\ c.at = "child" /\ d.at = "child"
    BY <1>10 DEF NextChild
  <2>2. PICK v \in c.kids : d.todo = KidTodo(c, v)
    BY <1>10 DEF NextChild
  <2>3. /\ d.op = "RevokeAccess" /\ c.acc \in Access /\ c.key \in Nat
        /\ d.acc = c.acc /\ d.key = c.key /\ d.box = c.box
    BY <1>7, <2>1 DEF SameRevocation
  <2>4. c.acc.children[v] # Absent /\ v \in Users /\ v # c.arg
    BY <1>1, <1>3, <2>1 DEF Fits, Has, Calls, CallMine
  <2>5. d.arg \notin d.kids
    BY <1>2, <1>3, <1>10, <2>1 DEF NextChild, CallMine
  <2>6. ASSUME NEW n \in DOMAIN d.todo PROVE WriteMine(u, d, d.todo[n])
    <3> DEFINE p == c.acc.children[v]
               old == mailbox[p.uuid].plain
               node == [old EXCEPT !.fileKey = c.key]
               w == SetMailbox(p, node)
    <3>1. OpensMailbox(p) /\ d.todo = <<w>>
      BY <2>2, <2>6 DEF KidTodo
    <3>2. old \in MailboxNode
      BY <3>1, ReadTypes DEF CTypeOK
    <3>3. p \in Pointer
      BY <2>3, <2>4 DEF Access, Children
    <3> HIDE DEF old, p
    <3>4. node \in MailboxNode /\ node.fileKey = c.key
      BY <2>3, <3>2 DEF MailboxNode
    <3> HIDE DEF node
    <3>5. w.kind = "mailbox" /\ w.id = p.uuid /\ w.record.plain = node
      BY <3>3, <3>4, SetMailboxType
    <3> HIDE DEF w
    <3>6. d.todo[n] = w
      BY <2>6, <3>1, OneWrite
    <3>7. /\ d.acc.children[v] # Absent /\ w.id = d.acc.children[v].uuid
          /\ v \in Users \ {d.arg}
      BY <1>2, <2>3, <2>4, <3>5 DEF p
    <3> QED
      BY <2>1, <2>3, <3>4, <3>5, <3>6, <3>7 DEF WriteMine
  <2> QED
    BY <1>7, <2>1, <2>5, <2>6
<1>11. CASE ToRevoked(me, c, d)
  <2> DEFINE acc == WithoutChild(c.acc, c.arg, c.box)
             v == SetAccess(me, c.f, acc)
             w == SetUser(me, c.f)
  <2>1. SameRevocation(c, d) /\ c.at = "child" /\ d.at = "return" /\ d.todo = <<v, w>>
    BY <1>11 DEF ToRevoked
  <2>2. /\ d.op = "RevokeAccess" /\ c.acc \in Access /\ c.box \in Pointer
        /\ d.acc = c.acc /\ d.box = c.box
    BY <1>7, <2>1 DEF SameRevocation
  <2>3. c.arg \in Users
    BY <1>1, <1>2, <2>2 DEF Fits, OpFits
  <2>4. acc \in Access
    BY <2>2, <2>3, WithoutChildType
  <2> HIDE DEF acc
  <2>5. v.kind = "access" /\ v.id = <<u, c.f>> /\ v.record.plain = acc
    BY <1>1, <2>4, SetAccessType
  <2>6. WriteMine(u, d, w)
    BY <1>1, <1>3, SetUserMine
  <2> HIDE DEF v, w
  <2>7. acc = WithoutChild(d.acc, d.arg, d.box)
    BY <1>2, <2>2 DEF acc
  <2>8. WriteMine(u, d, v)
    BY <1>2, <2>1, <2>2, <2>5, <2>7 DEF WriteMine
  <2>9. DOMAIN d.todo = {1, 2} /\ d.todo[1] = v /\ d.todo[2] = w
    BY <2>1, TwoWrites
  <2> QED
    BY <1>7, <2>1, <2>6, <2>8, <2>9
<1>12. CASE ToInvite(me, c, d)
  <2> DEFINE i == [enc |-> keystore[c.arg].enc, sig |-> me.ds, box |-> c.box]
             acc == WithChild(c.acc, c.arg, c.box)
             v == Set("invitation", fresh, i)
             w == SetAccess(me, c.f, acc)
  <2>1. /\ c.at = "recipient" /\ keystore[c.arg] # Absent /\ d.at = "return"
        /\ d.acc = c.acc /\ d.node = c.node /\ d.box = c.box /\ d.todo = <<v, w>>
    BY <1>12 DEF ToInvite, InviteWrites
  <2>2. /\ c.op = "CreateInvitation" /\ c.arg \in Users /\ c.acc \in Access
        /\ c.box \in Pointer /\ c.node \in MailboxNode
    BY <1>1, <2>1 DEF Fits, OpFits, Has
  <2>3. c.arg \in Range(Circle)
    BY <2>1, <2>2, PublicApart
  <2>4. acc \in Access
    BY <2>2, WithChildType
  <2> HIDE DEF acc
  <2>5. w.kind = "access" /\ w.id = <<u, c.f>> /\ w.record.plain = acc
    BY <1>1, <2>4, SetAccessType
  <2>6. /\ v.kind = "invitation" /\ v.record.enc = Public[c.arg].enc /\ v.record.sig = me.ds
        /\ v.record.box = c.box
    BY DEF Set
  <2> HIDE DEF v, w, i
  <2>7. acc = WithChild(d.acc, d.arg, d.box)
    BY <1>2, <2>1 DEF acc
  <2>8. WriteMine(u, d, w)
    BY <1>2, <2>1, <2>2, <2>5, <2>7 DEF WriteMine
  <2>9. WriteMine(u, d, v)
    BY <1>2, <1>3, <2>1, <2>2, <2>3, <2>6 DEF WriteMine, Genuine
  <2>10. DOMAIN d.todo = {1, 2} /\ d.todo[1] = v /\ d.todo[2] = w /\ Len(d.todo) = 2
    BY <2>1, TwoWrites
  <2>11. InOrder(d)
    BY <1>2, <2>2, <2>5, <2>6, <2>10 DEF InOrder
  <2> QED
    BY <1>2, <2>1, <2>2, <2>8, <2>9, <2>10, <2>11 DEF CallMine, Rekeys, Who, me
<1>13. CASE ToAccept(me, c, d)
  <2> DEFINE acc == [box |-> c.inv.box, children |-> NoChildren]
             v == SetAccess(me, c.f, acc)
             w == SetUser(me, c.f)
  <2>1. c.at = "sender" /\ d.at = "return" /\ d.todo = <<v, w>>
    BY <1>13 DEF ToAccept
  <2>2. c.inv \in Invitation /\ c.op = "AcceptInvitation"
    BY <1>1, <2>1 DEF Fits, OpFits, Has
  <2>3. acc \in Access /\ acc.children = NoChildren
    BY <2>2, NoChildrenType DEF Invitation
  <2> HIDE DEF acc
  <2>4. v.kind = "access" /\ v.id = <<u, c.f>> /\ v.record.plain = acc
    BY <1>1, <2>3, SetAccessType
  <2>5. WriteMine(u, d, w)
    BY <1>1, <1>3, SetUserMine
  <2> HIDE DEF v, w
  <2>6. WriteMine(u, d, v)
    BY <1>2, <2>1, <2>2, <2>3, <2>4 DEF WriteMine
  <2>7. DOMAIN d.todo = {1, 2} /\ d.todo[1] = v /\ d.todo[2] = w
    BY <2>1, TwoWrites
  <2> QED
    BY <1>2, <2>1, <2>2, <2>5, <2>6, <2>7
       DEF CallMine, InOrder, Holds, Knows, Invites, Rekeys, Who, me
<1> QED
  BY <1>4, <1>5, <1>6, <1>8, <1>9, <1>10, <1>11, <1>12, <1>13 DEF MovesTo, c, me

LEMMA MineBegins ==
    ASSUME CTypeOK, NEW s \in Sessions, NEW d, Begins(s, d), Genuine(sessions[s]),
           BeginsReading(s, d) \/ BeginsStoring(s, d)
    PROVE  CallMine(Who(s), d)
<1> DEFINE me == sessions[s]
           u == me.name
<1>1. d \in Calls /\ Fits(d) /\ me \in User
  BY DEF Begins
<1>2. CASE BeginsReading(s, d)
  BY <1>1, <1>2, MinePlain DEF BeginsReading, Who
<1>3. CASE BeginsStoring(s, d)
  <2> DEFINE ws == d.todo
             n == Len(ByteToBlock(d.arg))
             bs == BlockWrites(ByteToBlock(d.arg), fresh, fresh + 4)
             acc == [box |-> StoredBox, children |-> NoChildren]
             file == [size |-> Len(d.arg), blocks |-> BlockUUIDs(ByteToBlock(d.arg), fresh + 4)]
  <2>1. /\ d.op = "StoreFile" /\ d.at = "return" /\ d.arg \in Contents /\ d.f \in Filenames
        /\ d.node = StoredNode
        /\ ws = StoreFileWrites(me, d.f, d.arg, StoredNode, StoredBox, fresh + 4)
    BY <1>3 DEF BeginsStoring
  <2>2. fresh \in Nat
    BY DEF CTypeOK, TypeOK
  <2>3. /\ StoredNode \in MailboxNode /\ StoredBox \in Pointer /\ fresh + 4 \in Nat
        /\ StoredNode.fileKey = fresh /\ StoredNode.inode = fresh + 1
    BY <2>2 DEF StoredNode, StoredBox, MailboxNode, Pointer
  <2>4. /\ n \in Nat /\ acc \in Access /\ file \in Inode
        /\ ws \in Seq(Writes) /\ Len(ws) = n + 4
        /\ ws[1] = SetMailbox(StoredBox, StoredNode) /\ ws[2] = SetAccess(me, d.f, acc)
        /\ \A k \in 1..n : ws[k + 2] = bs[k]
        /\ ws[n + 3] = SetInode(StoredNode, file) /\ ws[n + 4] = SetUser(me, d.f)
    BY <1>1, <2>1, <2>3, StoreFileWritesAre
  <2>5. \A k \in 1..n : bs[k].kind = "block" /\ bs[k].record.key = getFileKeys(fresh)
    <3>1. d.arg \in Seq(Bytes)
      BY <2>1, ContentsAssumption
    <3>2. \A k \in 1..n : bs[k] = [kind |-> "block", id |-> fresh + 4 + k - 1,
                                   record |-> [key |-> <<"file", fresh>>,
                                               plain |-> ByteToBlock(d.arg)[k]]]
      BY <2>2, <2>3, <3>1, BlockWritesType
    <3>3. ASSUME NEW k \in 1..n
          PROVE  bs[k].kind = "block" /\ bs[k].record.key = getFileKeys(fresh)
      <4> DEFINE r == [key |-> <<"file", fresh>>, plain |-> ByteToBlock(d.arg)[k]]
      <4>1. bs[k] = [kind |-> "block", id |-> fresh + 4 + k - 1, record |-> r]
        BY <3>2
      <4>2. r.key = getFileKeys(fresh)
        BY DEF getFileKeys
      <4> HIDE DEF r, bs
      <4> QED
        BY <4>1, <4>2
    <3> QED
      BY <3>3
  <2>6. acc.children = NoChildren
    OBVIOUS
  <2> HIDE DEF acc, file, bs, n
  <2>7. ws[1].kind = "mailbox" /\ ws[1].record.plain = d.node
    BY <2>1, <2>3, <2>4, SetMailboxType
  <2>8. ws[2].kind = "access" /\ ws[2].id = <<u, d.f>> /\ ws[2].record.plain = acc
    BY <1>1, <2>1, <2>4, SetAccessType
  <2>9. /\ ws[n + 3].kind = "inode" /\ ws[n + 3].id = d.node.inode
        /\ ws[n + 3].record.key = getFileKeys(d.node.fileKey)
    BY <2>1, <2>3, <2>4, SetInodeType DEF getFileKeys
  <2>10. ws[n + 4].kind = "account" /\ WriteMine(u, d, ws[n + 4])
    BY <1>1, <2>1, <2>4, SetUserMine
  <2>11. \A k \in DOMAIN ws : k = 1 \/ k = 2 \/ k - 2 \in 1..n \/ k = n + 3 \/ k = n + 4
    BY <2>4
  <2>12. ASSUME NEW k \in DOMAIN ws, k - 2 \in 1..n
         PROVE  ws[k].kind = "block" /\ ws[k].record.key = getFileKeys(d.node.fileKey)
    <3>1. (k - 2) + 2 = k
      BY <2>4
    <3> QED
      BY <2>1, <2>3, <2>4, <2>5, <2>12, <3>1
  <2>13. ASSUME NEW k \in DOMAIN ws PROVE WriteMine(u, d, ws[k])
    <3>1. CASE k = 1
      BY <2>1, <2>7, <3>1 DEF WriteMine
    <3>2. CASE k = 2
      BY <2>1, <2>6, <2>8, <3>2 DEF WriteMine
    <3>3. CASE k - 2 \in 1..n
      BY <2>1, <2>12, <3>3 DEF WriteMine
    <3>4. CASE k = n + 3
      BY <2>1, <2>9, <3>4 DEF WriteMine
    <3>5. CASE k = n + 4
      BY <2>10, <3>5
    <3> QED
      BY <2>11, <3>1, <3>2, <3>3, <3>4, <3>5
  <2>14. ASSUME NEW k \in DOMAIN ws
         PROVE  /\ ws[k].kind = "inode" <=> k = Len(ws) - 1
                /\ ws[k].kind = "account" <=> k = Len(ws)
    <3>1. k = 1 \/ k = 2 \/ k - 2 \in 1..n => k # n + 3 /\ k # n + 4
      BY <2>4
    <3>2. Len(ws) = n + 4 /\ Len(ws) - 1 = n + 3 /\ n + 3 # n + 4
      BY <2>4
    <3>3. ws[k].kind = "inode" <=> k = n + 3
      BY <2>7, <2>8, <2>9, <2>10, <2>11, <2>12, <3>1, <3>2
    <3>4. ws[k].kind = "account" <=> k = n + 4
      BY <2>7, <2>8, <2>9, <2>10, <2>11, <2>12, <3>1, <3>2
    <3> QED
      BY <3>2, <3>3, <3>4
  <2> HIDE DEF ws
  <2>15. InOrder(d)
    BY <2>1, <2>3, <2>14 DEF InOrder, ws
  <2> QED
    BY <2>1, <2>13, <2>15 DEF CallMine, Holds, Knows, Invites, Rekeys, Who, ws
<1> QED
  BY <1>2, <1>3

LEMMA MineNext ==
    ASSUME NEW u, NEW c, NEW d, NEW w, WroteFirst(c, d, w), CallMine(u, c)
    PROVE  CallMine(u, d)
<1>1. /\ d.op = c.op /\ d.f = c.f /\ d.arg = c.arg /\ d.at = c.at /\ d.acc = c.acc
      /\ d.node = c.node /\ d.file = c.file /\ d.key = c.key /\ d.box = c.box /\ d.kids = c.kids
  BY DEF WroteFirst, WroteAll, Wrote, SameCall
<1>2. /\ Len(c.todo) \in Nat \ {0} /\ DOMAIN c.todo = 1..Len(c.todo)
      /\ Len(d.todo) = Len(c.todo) - 1 /\ DOMAIN d.todo = 1..Len(d.todo)
      /\ \A n \in DOMAIN d.todo : n + 1 \in DOMAIN c.todo /\ d.todo[n] = c.todo[n + 1]
  BY QueueMoves DEF WroteFirst, WroteAll
<1>3. ASSUME NEW n \in DOMAIN d.todo PROVE WriteMine(u, d, d.todo[n])
  <2>1. WriteMine(u, c, d.todo[n])
    BY <1>2 DEF CallMine
  <2> HIDE DEF CallMine
  <2> QED
    BY <1>1, <2>1 DEF WriteMine
<1>4. InOrder(d)
  <2>1. \A n \in DOMAIN d.todo : /\ n + 1 = Len(c.todo) <=> n = Len(d.todo)
                                 /\ n + 1 = Len(c.todo) - 1 <=> n = Len(d.todo) - 1
    BY <1>2
  <2>2. InOrder(c)
    BY DEF CallMine
  <2>3. ASSUME d.op = "CreateInvitation", d.at = "return", NEW n \in DOMAIN d.todo
        PROVE  d.todo[n].kind = IF n = Len(d.todo) THEN "access" ELSE "invitation"
    <3>1. /\ n + 1 \in DOMAIN c.todo
          /\ d.todo[n].kind = IF n + 1 = Len(c.todo) THEN "access" ELSE "invitation"
      BY <1>1, <1>2, <2>2, <2>3 DEF InOrder
    <3> QED
      BY <2>1, <3>1
  <2>4. ASSUME d.op = "StoreFile", NEW n \in DOMAIN d.todo
        PROVE  /\ d.todo[n].kind = "inode" <=> n = Len(d.todo) - 1
               /\ d.todo[n].kind = "account" <=> n = Len(d.todo)
    <3>1. /\ d.todo[n].kind = "inode" <=> n + 1 = Len(c.todo) - 1
          /\ d.todo[n].kind = "account" <=> n + 1 = Len(c.todo)
      BY <1>1, <1>2, <2>2, <2>4 DEF InOrder
    <3> QED
      BY <2>1, <3>1
  <2> QED
    BY <1>1, <2>2, <2>3, <2>4 DEF InOrder
<1> QED
  BY <1>1, <1>3, <1>4 DEF CallMine, Holds, Knows, Invites, Rekeys

(* The sessions' calls after a step of session s. *)
MineAfter(s) ==
    /\ begun \subseteq begun'
    /\ \A t \in Sessions : t # s => sessions'[t] = sessions[t] /\ call'[t] = call[t]
    /\ sessions'[s] # Absent => Genuine(sessions'[s])
    /\ call'[s] # Absent => /\ CallMine(sessions'[s].name, call'[s])
                            /\ <<sessions'[s].name, call'[s].op>> \in begun'

LEMMA MineKept ==
    ASSUME CTypeOK, MInv, NEW s \in Sessions, MineAfter(s), keystore' = keystore,
           \A u \in Users : \/ accounts'[u] = accounts[u]
                            \/ /\ accounts'[u].plain.name = u
                               /\ Genuine(accounts'[u].plain),
           \A x \in Slots : access'[x] = access[x] \/ x[1] \in Range(Circle)
    PROVE  MInv'
<1>1. ASSUME NEW t \in Sessions
      PROVE  /\ sessions'[t] # Absent => Genuine(sessions'[t])
             /\ call'[t] # Absent => /\ CallMine(sessions'[t].name, call'[t])
                                     /\ <<sessions'[t].name, call'[t].op>> \in begun'
  <2>1. CASE t = s
    BY <2>1 DEF MineAfter
  <2>2. CASE t # s
    BY <2>2 DEF MineAfter, MInv, Who, InCall
  <2> QED
    BY <2>1, <2>2
<1>2. \A t \in Sessions : InCall(t)' =>
          (CallMine(Who(t), call[t]) /\ <<Who(t), call[t].op>> \in begun)'
  BY <1>1 DEF InCall, Who
<1>3. \A u \in Users : accounts'[u] # Absent =>
          accounts'[u].plain.name = u /\ Genuine(accounts'[u].plain)
  BY DEF MInv
<1>4. \A x \in Slots : access'[x] # Absent => x[1] \in Range(Circle)
  BY DEF MInv
<1>5. keystore' = Public
  BY DEF MInv
<1> QED
  BY <1>1, <1>2, <1>3, <1>4, <1>5 DEF MInv

LEMMA MineStep ==
    ASSUME CTypeOK, MInv, NEW s \in Sessions, BeginCall(s) \/ Step(s) \/ Lost(s) \/ Comes(s)
    PROVE  MInv'
<1>0. /\ sessions \in [Sessions -> User \cup {Absent}] /\ keystore = Public
      /\ call \in [Sessions -> Calls \cup {Absent}]
  BY DEF CTypeOK, TypeOK, CallsFit, MInv
<1>1. CASE BeginCall(s)
  <2>1. PICK d : Begins(s, d) /\ (BeginsReading(s, d) \/ BeginsStoring(s, d))
    BY <1>1, CallsBegin
  <2>2. /\ Goes(s, d) /\ sessions' = sessions /\ begun' = begun \cup {<<Who(s), d.op>>}
        /\ sessions[s] # Absent
    BY <2>1, AbsentAssumption DEF Begins
  <2>3. Genuine(sessions[s])
    BY <2>2 DEF MInv
  <2>4. CallMine(Who(s), d)
    BY <2>1, <2>3, MineBegins
  <2>5. MineAfter(s)
    BY <1>0, <2>2, <2>3, <2>4 DEF MineAfter, Goes, Who
  <2>6. accounts' = accounts /\ access' = access /\ keystore' = keystore
    BY <2>2 DEF Goes, datastore
  <2> QED
    BY <2>5, <2>6, MineKept
<1>2. CASE Reading(s)
  <2>1. /\ InCall(s) /\ UNCHANGED <<datastore, keystore, sessions, begun>>
    BY <1>2, ReadingStays
  <2>2. Genuine(sessions[s]) /\ CallMine(Who(s), call[s]) /\ <<Who(s), call[s].op>> \in begun
    BY <2>1, CallType, AbsentAssumption DEF MInv
  <2>3. MineAfter(s)
    <3>1. CASE Ends(s)
      BY <1>0, <2>1, <2>2, <3>1 DEF MineAfter, Ends, Goes
    <3>2. ASSUME NEW d \in Calls, Goes(s, d), Fits(d), SameCall(call[s], d),
                 MovesTo(sessions[s], call[s], d)
          PROVE  MineAfter(s)
      <4>1. CallMine(Who(s), d) /\ d.op = call[s].op
        BY <1>0, <2>1, <2>2, <3>2, MineMoves DEF SameCall
      <4> QED
        BY <1>0, <2>1, <2>2, <3>2, <4>1 DEF MineAfter, Goes, Who
    <3> QED
      BY <1>2, <3>1, <3>2, ReadingMoves DEF Moves
  <2>4. accounts' = accounts /\ access' = access /\ keystore' = keystore
    BY <2>1 DEF datastore
  <2> QED
    BY <2>3, <2>4, MineKept
<1>3. CASE SetNext(s)
  <2>1. PICK c, d, w : WritesNext(s, c, d, w)
    BY <1>3, SetNextWrites
  <2>2. /\ InCall(s) /\ c = call[s] /\ WroteFirst(c, d, w) /\ Write(w)
        /\ keystore' = keystore /\ begun' = begun
        /\ \A t \in Sessions : t # s => sessions'[t] = sessions[t]
        /\ sessions'[s] = IF w.kind = "account" THEN w.record.plain ELSE sessions[s]
        /\ call' = [call EXCEPT ![s] = Absent] \/ call' = [call EXCEPT ![s] = d]
    BY <2>1 DEF WritesNext
  <2>3. Genuine(sessions[s]) /\ CallMine(Who(s), call[s]) /\ <<Who(s), call[s].op>> \in begun
    BY <2>2, CallType, AbsentAssumption DEF MInv
  <2>4. WriteMine(Who(s), c, w) /\ CallMine(Who(s), d) /\ d.op = c.op
    <3>1. WriteMine(Who(s), c, w) /\ d.op = c.op
      BY <2>2, <2>3 DEF WroteFirst, CallMine, SameCall
    <3> QED
      BY <2>2, <2>3, <3>1, MineNext
  <2>5. Genuine(sessions'[s]) /\ sessions'[s].name = Who(s)
    BY <2>2, <2>3, <2>4 DEF WriteMine, Who
  <2>6. MineAfter(s)
    BY <1>0, <2>2, <2>3, <2>4, <2>5 DEF MineAfter
  <2>7. ASSUME NEW u \in Users
        PROVE  \/ accounts'[u] = accounts[u]
               \/ accounts'[u].plain.name = u /\ Genuine(accounts'[u].plain)
    BY <2>2, <2>4 DEF Write, WriteMine, CTypeOK, TypeOK
  <2>8. ASSUME NEW x \in Slots PROVE access'[x] = access[x] \/ x[1] \in Range(Circle)
    <3>1. w.kind = "access" => w.id = <<Who(s), c.f>> /\ Who(s) \in Range(Circle)
      BY <2>3, <2>4 DEF WriteMine, Genuine, Who
    <3>2. w.kind # "access" \/ x # w.id => access'[x] = access[x]
      BY <2>2 DEF Write, CTypeOK, TypeOK
    <3> QED
      BY <3>1, <3>2
  <2> QED
    BY <2>2, <2>6, <2>7, <2>8, MineKept
<1>4. CASE Lost(s)
  <2>1. /\ Goes(s, Absent) /\ begun' = begun /\ sessions' = [sessions EXCEPT ![s] = Absent]
    BY <1>4, LostGoes DEF Lost
  <2>2. MineAfter(s)
    BY <1>0, <2>1 DEF MineAfter, Goes
  <2>3. accounts' = accounts /\ access' = access /\ keystore' = keystore
    BY <2>1 DEF Goes, datastore
  <2> QED
    BY <2>2, <2>3, MineKept
<1>5. CASE Comes(s)
  <2>1. /\ UNCHANGED <<datastore, keystore, progress>> /\ ~InCall(s)
        /\ \A t \in Sessions : t # s => sessions'[t] = sessions[t]
    BY <1>5, ComesType
  <2>2. call' = call /\ begun' = begun /\ accounts' = accounts /\ access' = access
    BY <2>1 DEF progress, history, datastore
  <2>3. call[s] = Absent
    BY <2>1 DEF CTypeOK, CallsFit, InCall
  <2>4. ASSUME Login(s) PROVE Genuine(sessions'[s])
    <3>1. PICK who \in Logins : GetUser(s, who[s], Password)
      BY <2>4 DEF Login
    <3>2. who[s] \in Users
      BY CircleAssumption DEF Range
    <3> QED
      BY <1>0, <3>1, <3>2 DEF GetUser, MInv
  <2>5. sessions'[s] # Absent => Genuine(sessions'[s])
    BY <1>0, <1>5, <2>4 DEF Comes, Leaves
  <2>6. MineAfter(s)
    BY <2>1, <2>2, <2>3, <2>5 DEF MineAfter
  <2> QED
    BY <2>1, <2>2, <2>6, MineKept
<1> QED
  BY <1>1, <1>2, <1>3, <1>4, <1>5 DEF Step, Reading

LEMMA MineStart ==
    ASSUME ClientsInit
    PROVE  MInv
<1>1. keystore = Public /\ \A s \in Sessions : ~InCall(s)
  BY DEF ClientsInit, SetUp, Public, InCall
<1>2. ASSUME NEW u \in Range(Circle)
      PROVE  UserOf(u).name = u /\ Genuine(UserOf(u)) /\ u \in Users
  <2> DEFINE n == Position(u)
  <2>1. u \in Users
    BY PositionType
  <2>2. /\ UserOf(u).name = u /\ UserOf(u).pke = 2 * n - 1 /\ UserOf(u).ds = 2 * n
    BY DEF UserOf
  <2>3. Public[u].enc = 2 * n - 1 /\ Public[u].sig = 2 * n
    BY <2>1 DEF Public
  <2> HIDE DEF n
  <2> QED
    BY <2>1, <2>2, <2>3 DEF Genuine
<1>3. ASSUME NEW u \in Users, accounts[u] # Absent
      PROVE  accounts[u].plain.name = u /\ Genuine(accounts[u].plain)
  <2>1. /\ u \in Range(Circle)
        /\ accounts[u] = encryptAndMAC(UserOf(u), getUserKeys(<<u, Password>>))
    BY <1>3 DEF ClientsInit, SetUp
  <2>2. accounts[u].plain = UserOf(u)
    BY <2>1 DEF encryptAndMAC
  <2> QED
    BY <1>2, <2>1, <2>2
<1>4. \A x \in Slots : access[x] # Absent => x[1] \in Range(Circle)
  BY DEF ClientsInit, SetUp, HasFile
<1>5. \A s \in Sessions : Genuine(sessions[s])
  <2>1. PICK who \in Logins : sessions = [s \in Sessions |-> UserOf(who[s])]
    BY DEF ClientsInit, SetUp
  <2>2. \A s \in Sessions : who[s] \in Range(Circle)
    BY CircleAssumption
  <2> QED
    BY <1>2, <2>1, <2>2
<1> QED
  BY <1>1, <1>3, <1>4, <1>5 DEF MInv
-----------------------------------------------------------------------------
(* The owner's Children are complete *)

LEMMA OwnerIs ==
    /\ Owner \in Range(Circle) /\ Owner \in Users /\ Position(Owner) = 1 /\ HasFile(Owner)
    /\ FileName \in Filenames /\ OwnerSlot \in Slots
    /\ \A u \in Users : u = Owner <=> HasFile(u) /\ Position(u) = 1
<1>1. /\ Circle \in Seq(Users) /\ Len(Circle) > 0 /\ IsInjective(Circle) /\ Shared \in 1..Len(Circle)
      /\ FileName \in Filenames
  BY CircleAssumption
<1>2. 1 \in DOMAIN Circle /\ Owner = Circle[1] /\ Owner \in Users
  BY <1>1 DEF Owner
<1>3. Owner \in Range(Circle)
  BY <1>2 DEF Range
<1>4. Position(Owner) \in DOMAIN Circle /\ Circle[Position(Owner)] = Owner
  BY <1>3, PositionType
<1>5. Position(Owner) = 1
  BY <1>1, <1>2, <1>4 DEF IsInjective
<1>6. HasFile(Owner)
  BY <1>1, <1>3, <1>5 DEF HasFile
<1>7. \A u \in Users : HasFile(u) /\ Position(u) = 1 => u = Owner
  BY <1>2, PositionType DEF HasFile
<1> QED
  BY <1>1, <1>2, <1>3, <1>5, <1>6, <1>7 DEF OwnerSlot, Slots

(* The access records of the set-up. *)
LEMMA FirstAccess ==
    ASSUME SetUp
    PROVE  /\ \A u : HasFile(u) =>
                  /\ <<u, FileName>> \in Slots /\ AccessAtFirst(u) \in Access
                  /\ access[<<u, FileName>>] # Absent
                  /\ access[<<u, FileName>>].plain = AccessAtFirst(u)
           /\ \A x \in Slots : access[x] # Absent =>
                  /\ x[2] = FileName /\ HasFile(x[1]) /\ x = <<x[1], FileName>>
                  /\ access[x].plain = AccessAtFirst(x[1])
<1>1. Password \in Passwords /\ FileName \in Filenames /\ Shared \in Nat
  BY CircleAssumption
<1>2. access = [x \in Slots |->
               IF x[2] = FileName /\ HasFile(x[1])
               THEN encryptAndMAC(AccessAtFirst(x[1]),
                                  getPersonalKey(<<x[1], Password>>, FileName))
               ELSE Absent]
  BY DEF SetUp
<1>3. ASSUME NEW u, HasFile(u)
      PROVE  /\ <<u, FileName>> \in Slots /\ AccessAtFirst(u) \in Access
             /\ access[<<u, FileName>>] # Absent
             /\ access[<<u, FileName>>].plain = AccessAtFirst(u)
  <2> DEFINE x == <<u, FileName>>
             m == <<u, Password>>
             r == encryptAndMAC(AccessAtFirst(u), getPersonalKey(m, FileName))
  <2>1. u \in Users /\ BoxOf(Position(u)) \in Pointer
    BY <1>3, PositionType, SetUpNumbers DEF HasFile
  <2>2. \A v \in Users : HasFile(v) => BoxOf(Position(v)) \in Pointer
    BY PositionType, SetUpNumbers DEF HasFile
  <2>3. AccessAtFirst(u) \in Access
    <3> DEFINE kids == [v \in Users |-> IF u = Circle[1] /\ v # u /\ HasFile(v)
                                        THEN BoxOf(Position(v)) ELSE Absent]
    <3>1. kids \in Children
      BY <2>2 DEF Children
    <3>2. AccessAtFirst(u) = [box |-> BoxOf(Position(u)), children |-> kids]
      BY DEF AccessAtFirst
    <3> HIDE DEF kids
    <3> QED
      BY <2>1, <3>1, <3>2 DEF Access
  <2>4. m \in MasterKeys /\ x \in Slots /\ x[1] = u /\ x[2] = FileName
    BY <1>1, <2>1 DEF MasterKeys, Slots
  <2>5. access[x] = r
    BY <1>2, <1>3, <2>4
  <2> HIDE DEF m
  <2>6. r \in Sealed({"personal"} \X MasterKeys \X Filenames, Access) /\ r.plain = AccessAtFirst(u)
    BY <1>1, <2>3, <2>4 DEF encryptAndMAC, getPersonalKey, Sealed
  <2> HIDE DEF r
  <2>7. r # Absent
    BY <2>6, AbsentAssumption DEF Sealed
  <2> QED
    BY <2>3, <2>4, <2>5, <2>6, <2>7
<1>4. ASSUME NEW x \in Slots, access[x] # Absent
      PROVE  x[2] = FileName /\ HasFile(x[1]) /\ x = <<x[1], FileName>>
  BY <1>2, <1>4 DEF Slots
<1> QED
  BY <1>3, <1>4

LEMMA ChildrenStart ==
    ASSUME ClientsInit
    PROVE  TInv
<1>0. SetUp /\ \A s \in Sessions : ~InCall(s)
  BY DEF ClientsInit, InCall
<1>1. access[OwnerSlot] # Absent /\ access[OwnerSlot].plain = AccessAtFirst(Owner)
  BY <1>0, FirstAccess, OwnerIs DEF OwnerSlot
<1>2. ASSUME NEW f \in Filenames, f # FileName PROVE access[<<Owner, f>>] = Absent
  <2>1. <<Owner, f>> \in Slots /\ <<Owner, f>>[2] = f
    BY OwnerIs DEF Slots
  <2> QED
    BY <1>0, <1>2, <2>1, FirstAccess
<1>3. ASSUME NEW p \in DOMAIN invitation, NEW u \in Range(Circle),
             invitation[p].enc = Public[u].enc
      PROVE  access[OwnerSlot].plain.children[u] # Absent
  <2> DEFINE n == CHOOSE k \in 2..Shared : InviteOf(k) = p
             m == Position(u)
  <2>1. /\ \E k \in 2..Shared : InviteOf(k) = p
        /\ invitation[p] = [enc |-> 2 * n - 1, sig |-> 2, box |-> BoxOf(n)]
    BY <1>0, <1>3 DEF SetUp
  <2>2. n \in 2..Shared /\ invitation[p].enc = 2 * n - 1
    BY <2>1
  <2>3. m \in Nat /\ u \in Users /\ Circle[m] = u /\ Shared \in Nat
    BY PositionType, CircleAssumption
  <2>4. Public[u].enc = 2 * m - 1
    BY <2>3 DEF Public
  <2> HIDE DEF m, n
  <2>5. m = n /\ m # 1 /\ m <= Shared /\ m \in Nat \ {0}
    <3>1. 2 * n - 1 = 2 * m - 1
      BY <1>3, <2>2, <2>4
    <3>2. n \in Nat /\ n >= 2 /\ n <= Shared
      BY <2>2, <2>3
    <3> QED
      BY <2>3, <3>1, <3>2
  <2>6. HasFile(u) /\ u # Owner
    BY <2>5, OwnerIs DEF HasFile, m
  <2>7. AccessAtFirst(Owner).children[u] = BoxOf(m)
    BY <2>3, <2>6, OwnerIs DEF AccessAtFirst, m, Owner
  <2>8. BoxOf(m) # Absent
    BY <2>5, SetUpNumbers, AbsentAssumption
  <2> QED
    BY <1>1, <2>7, <2>8
<1> QED
  BY <1>0, <1>1, <1>2, <1>3 DEF TInv

LEMMA StaysTended ==
    ASSUME Remembers
    PROVE  Tended' => Tended
BY DEF Remembers, Tended, Overlapped

(* What TInv says of a call, the owner's record being acc. *)
Copies(u, c, acc) ==
    u = Owner /\ c.op = "CreateInvitation" /\ Holds(c) => c.f = FileName /\ c.acc = acc

(* A step that writes nothing. *)
LEMMA ChildrenGo ==
    ASSUME CTypeOK, TInv, NEW s \in Sessions, NEW d, Goes(s, d),
           InCall(s) => call[s].op # "CreateInvitation" \/ call[s].at # "return",
           d # Absent => Copies(sessions[s].name, d, access[OwnerSlot].plain)
    PROVE  TInv'
<1>0. /\ call \in [Sessions -> Calls \cup {Absent}] /\ call' = [call EXCEPT ![s] = d]
      /\ access' = access /\ invitation' = invitation
      /\ \A t \in Sessions : t # s => sessions'[t] = sessions[t]
      /\ d # Absent => sessions' = sessions
  BY DEF CTypeOK, CallsFit, Goes, datastore
<1>1. ASSUME NEW t \in Sessions, call'[t] # Absent
      PROVE  Copies(sessions'[t].name, call'[t], access[OwnerSlot].plain)
  <2>1. CASE t = s
    BY <1>0, <1>1, <2>1
  <2>2. CASE t # s
    BY <1>0, <1>1, <2>2 DEF TInv, Copies, Who, InCall
  <2> QED
    BY <2>1, <2>2
<1>2. ASSUME NEW t \in Sessions, NEW u, Entering(t, u) PROVE Entering(t, u)'
  <2>1. t # s
    BY <1>2 DEF Entering
  <2> QED
    BY <1>0, <1>2, <2>1 DEF Entering, InCall, Who
<1>3. \A t \in Sessions : 
          InCall(t)' /\ Who(t)' = Owner /\ call'[t].op = "CreateInvitation" /\ Holds(call'[t]) =>
              call'[t].f = FileName /\ call'[t].acc = access'[OwnerSlot].plain
  BY <1>0, <1>1 DEF InCall, Who, Copies
<1> QED
  BY <1>0, <1>2, <1>3 DEF TInv

LEMMA ChildrenNext ==
    ASSUME CTypeOK, AInv, MInv, TInv, Tended, NEW s \in Sessions, NEW c, NEW d, NEW w,
           WritesNext(s, c, d, w)
    PROVE  TInv'
<1>0. /\ call \in [Sessions -> Calls \cup {Absent}]
      /\ access \in [Slots -> Sealed({"personal"} \X MasterKeys \X Filenames, Access)
                                \cup {Absent}]
  BY DEF CTypeOK, CallsFit, TypeOK
<1>1. /\ InCall(s) /\ c = call[s] /\ WroteFirst(c, d, w) /\ Write(w) /\ w \in Writes
      /\ \A t \in Sessions : t # s => sessions'[t] = sessions[t] /\ call'[t] = call[t]
      /\ sessions'[s] = IF w.kind = "account" THEN w.record.plain ELSE sessions[s]
      /\ \/ call'[s] = Absent /\ Len(c.todo) = 1 /\ c.at = "return"
         \/ call'[s] = d /\ (Len(c.todo) > 1 \/ c.at # "return")
  BY <1>0 DEF WritesNext, WroteFirst
<1>2. /\ CallMine(Who(s), c) /\ WriteMine(Who(s), c, w) /\ <<Who(s), c.op>> \in begun
      /\ sessions[s] # Absent /\ Genuine(sessions[s]) /\ c \in Calls
  BY <1>1, CallType, AbsentAssumption DEF MInv, CallMine, WroteFirst
<1>3. sessions'[s].name = Who(s)
  BY <1>1, <1>2 DEF WriteMine, Who
<1>4. /\ d.op = c.op /\ d.f = c.f /\ d.arg = c.arg /\ d.at = c.at /\ d.acc = c.acc
      /\ d.node = c.node /\ d.box = c.box /\ d \in Calls /\ d # Absent
      /\ 1 \in DOMAIN c.todo /\ w = c.todo[1] /\ Len(c.todo) \in Nat
  BY <1>1, NoCallAssumption, QueueMoves DEF WroteFirst, WroteAll, Wrote, SameCall
<1>5. /\ Added(invitation, invitation', w.kind = "invitation", w.id, w.record)
      /\ \A x \in Slots : access'[x] = access[x] \/ (w.kind = "access" /\ x = w.id
                                                       /\ access'[x] = w.record)
  <2>1. \A x \in Slots : x # w.id \/ w.kind # "access" => access'[x] = access[x]
    BY <1>0, <1>1 DEF Write
  <2>2. w.kind = "access" => w.id \in Slots /\ access'[w.id] = w.record
    BY <1>0, <1>1 DEF Write, Writes
  <2> QED
    BY <1>1, <2>1, <2>2, WriteAdds
<1>6. /\ Owner \in Range(Circle) /\ Owner \in Users /\ OwnerSlot \in Slots
      /\ \A f \in Filenames : <<Owner, f>> \in Slots
  BY OwnerIs DEF Slots
<1>7. \A t \in Sessions : InCall(t) => Copies(Who(t), call[t], access[OwnerSlot].plain)
  BY DEF TInv, Copies
<1>8. ASSUME NEW t \in Sessions, t # s, InCall(t), c.op = "CreateInvitation"
      PROVE  call[t].op # "CreateInvitation"
  <2>1. {c.op, call[t].op} \in mixed
    BY <1>1, <1>8 DEF AInv, Overlaps
  <2> QED
    BY <1>8, <2>1 DEF Tended, Overlapped
<1>9. ASSUME c.op = "CreateInvitation", c.at = "return"
      PROVE  /\ w.kind = "access" \/ w.kind = "invitation"
             /\ w.kind = "access" <=> call'[s] = Absent
             /\ w.kind = "invitation" <=> call'[s] = d
  <2>1. w.kind = IF 1 = Len(c.todo) THEN "access" ELSE "invitation"
    BY <1>2, <1>4, <1>9 DEF CallMine, InOrder
  <2>2. CASE 1 = Len(c.todo)
    <3> DEFINE n == Len(c.todo)
    <3>0. n = 1
      BY <2>2
    <3> HIDE DEF n
    <3>1. ~(n > 1)
      BY <3>0
    <3>2. call'[s] = Absent /\ call'[s] # d
      BY <1>1, <1>4, <1>9, <3>1 DEF n
    <3> QED
      BY <2>1, <2>2, <3>2
  <2>3. CASE 1 # Len(c.todo)
    BY <1>1, <1>4, <2>1, <2>3
  <2> QED
    BY <2>2, <2>3
<1>10. CASE w.kind = "access" /\ Who(s) = Owner
  <2> DEFINE old == access[OwnerSlot].plain
             new == access'[OwnerSlot].plain
  <2>1. c.op = "CreateInvitation" /\ c.at = "return" /\ w.id = <<Owner, c.f>>
        /\ w.record.plain = WithChild(c.acc, c.arg, c.box)
    BY <1>2, <1>10 DEF WriteMine, Tended
  <2>2. c.f = FileName /\ c.acc = old /\ c.acc \in Access /\ c.box \in Pointer /\ c.arg \in Users
    BY <1>1, <1>2, <1>7, <1>10, <2>1, CallType
       DEF Copies, Holds, CallMine, Invites, Fits, OpFits
  <2>3. w.id = OwnerSlot
    BY <2>1, <2>2 DEF OwnerSlot
  <2>4. access'[OwnerSlot] = w.record
    BY <1>0, <1>1, <1>6, <1>10, <2>3 DEF Write
  <2>5. access'[OwnerSlot] # Absent
    BY <1>1, <1>10, <2>4, AbsentAssumption DEF Writes, Sealed
  <2>6. \A u \in Users : new.children[u] = IF u = c.arg THEN c.box ELSE old.children[u]
    <3>1. new = WithChild(old, c.arg, c.box)
      BY <2>1, <2>2, <2>4
    <3> QED
      BY <2>2, <3>1, WithChildType
  <2>7. c.box # Absent
    BY <2>2, AbsentAssumption
  <2>8. ASSUME NEW f \in Filenames, f # FileName PROVE access'[<<Owner, f>>] = Absent
    <3>1. <<Owner, f>> # w.id
      BY <2>3, <2>8 DEF OwnerSlot
    <3> QED
      BY <1>5, <1>6, <2>8, <3>1 DEF TInv
  <2>9. ASSUME NEW t \in Sessions, InCall(t)' PROVE call'[t].op # "CreateInvitation"
    BY <1>1, <1>8, <1>9, <1>10, <2>1, <2>9 DEF InCall
  <2>10. invitation' = invitation
    BY <1>1, <1>10 DEF Write
  <2>11. ASSUME NEW t \in Sessions, NEW u, Entering(t, u) PROVE u = c.arg
    BY <1>1, <1>8, <2>1, <2>11 DEF Entering
  <2>12. ASSUME NEW p \in DOMAIN invitation', NEW u \in Range(Circle),
                invitation'[p].sig = Public[Owner].sig, invitation'[p].enc = Public[u].enc
         PROVE  new.children[u] # Absent
    <3>1. u \in Users
      BY PositionType
    <3>2. old.children[u] # Absent \/ u = c.arg
      BY <2>10, <2>11, <2>12 DEF TInv
    <3> QED
      BY <2>6, <2>7, <3>1, <3>2
  <2> HIDE DEF old, new
  <2>13. TInv'
    BY <2>5, <2>8, <2>9, <2>12 DEF TInv, new
  <2> QED
    BY <2>13
<1>11. CASE ~(w.kind = "access" /\ Who(s) = Owner)
  <2>1. ASSUME NEW f \in Filenames PROVE access'[<<Owner, f>>] = access[<<Owner, f>>]
    <3>1. w.kind = "access" => w.id = <<Who(s), c.f>>
      BY <1>2 DEF WriteMine
    <3>2. w.kind = "access" => <<Owner, f>> # w.id
      BY <1>11, <3>1
    <3> QED
      BY <1>5, <1>6, <3>2
  <2>2. access'[OwnerSlot] = access[OwnerSlot]
    BY <2>1, OwnerIs DEF OwnerSlot
  <2>3. ASSUME NEW t \in Sessions, call'[t] # Absent
        PROVE  Copies(sessions'[t].name, call'[t], access[OwnerSlot].plain)
    <3>1. CASE t = s
      <4>1. Copies(Who(s), c, access[OwnerSlot].plain) /\ call'[s] = d
        BY <1>1, <1>7, <2>3, <3>1
      <4> QED
        BY <1>3, <1>4, <3>1, <4>1 DEF Copies, Holds
    <3>2. CASE t # s
      BY <1>1, <1>7, <2>3, <3>2 DEF InCall, Who
    <3> QED
      BY <3>1, <3>2
  <2>4. ASSUME NEW t \in Sessions, NEW u, Entering(t, u) PROVE Entering(t, u)'
    <3>1. CASE t = s
      <4>1. c.op = "CreateInvitation" /\ c.at = "return" /\ Who(s) = Owner /\ c.arg = u
        BY <1>1, <2>4, <3>1 DEF Entering
      <4>2. call'[s] = d
        BY <1>9, <1>11, <4>1
      <4> QED
        BY <1>3, <1>4, <3>1, <4>1, <4>2 DEF Entering, InCall, Who
    <3>2. CASE t # s
      BY <1>1, <2>4, <3>2 DEF Entering, InCall, Who
    <3> QED
      BY <3>1, <3>2
  <2>5. ASSUME NEW p \in DOMAIN invitation', NEW u \in Range(Circle),
               invitation'[p].sig = Public[Owner].sig, invitation'[p].enc = Public[u].enc
        PROVE  \/ access[OwnerSlot].plain.children[u] # Absent
               \/ \E t \in Sessions : Entering(t, u)'
    <3>1. CASE p \in DOMAIN invitation /\ invitation'[p] = invitation[p]
      BY <2>4, <2>5, <3>1 DEF TInv
    <3>2. CASE w.kind = "invitation" /\ invitation'[p] = w.record
      <4>1. /\ c.op = "CreateInvitation" /\ c.at = "return" /\ c.arg \in Range(Circle)
            /\ w.record.enc = Public[c.arg].enc /\ w.record.sig = Public[Who(s)].sig
        BY <1>2, <3>2 DEF WriteMine
      <4>2. Who(s) = Owner /\ u = c.arg
        BY <1>2, <1>6, <2>5, <3>2, <4>1, PublicApart DEF Genuine, Who
      <4>3. call'[s] = d
        BY <1>9, <3>2, <4>1
      <4>4. Entering(s, u)'
        BY <1>3, <1>4, <4>1, <4>2, <4>3 DEF Entering, InCall, Who
      <4> QED
        BY <4>4
    <3> QED
      BY <1>5, <2>5, <3>1, <3>2 DEF Added
  <2>6. \A t \in Sessions : 
          InCall(t)' /\ Who(t)' = Owner /\ call'[t].op = "CreateInvitation" /\ Holds(call'[t]) =>
              call'[t].f = FileName /\ call'[t].acc = access'[OwnerSlot].plain
    BY <2>2, <2>3 DEF InCall, Who, Copies
  <2> QED
    BY <2>1, <2>2, <2>5, <2>6 DEF TInv
<1> QED
  BY <1>10, <1>11

LEMMA StepRemembers ==
    ASSUME CTypeOK, NEW s \in Sessions, BeginCall(s) \/ Step(s) \/ Lost(s) \/ Comes(s)
    PROVE  Remembers
<1>1. CASE BeginCall(s)
  <2>1. PICK d : Begins(s, d)
    BY <1>1, CallsBegin
  <2> QED
    BY <2>1 DEF Begins, Remembers
<1>2. CASE Reading(s)
  BY <1>2, ReadingStays DEF Remembers
<1>3. CASE SetNext(s)
  <2>1. PICK c, d, w : WritesNext(s, c, d, w)
    BY <1>3, SetNextWrites
  <2> QED
    BY <2>1 DEF WritesNext, Remembers
<1>4. CASE Lost(s)
  BY <1>4 DEF Lost, Remembers
<1>5. CASE Comes(s)
  BY <1>5, ComesType DEF progress, history, Remembers
<1> QED
  BY <1>1, <1>2, <1>3, <1>4, <1>5 DEF Step, Reading

LEMMA ChildrenStep ==
    ASSUME CTypeOK, AInv, MInv, TInv, Tended', NEW s \in Sessions,
           BeginCall(s) \/ Step(s) \/ Lost(s) \/ Comes(s)
    PROVE  TInv'
<1>0. Tended
  BY StepRemembers, StaysTended
<1>1. CASE BeginCall(s)
  <2>1. PICK d : Begins(s, d) /\ (BeginsReading(s, d) \/ BeginsStoring(s, d))
    BY <1>1, CallsBegin
  <2>2. Goes(s, d) /\ ~InCall(s)
    BY <2>1 DEF Begins
  <2>3. ~(d.op = "CreateInvitation" /\ Holds(d))
    BY <2>1 DEF BeginsReading, BeginsStoring, Holds
  <2> QED
    BY <2>2, <2>3, ChildrenGo DEF Copies
<1>2. CASE Reading(s)
  <2> DEFINE c == call[s]
  <2>1. InCall(s) /\ c.at # "return" /\ c.todo = <<>>
    BY <1>2, ReadingStays
  <2>2. Copies(Who(s), c, access[OwnerSlot].plain) /\ c \in Calls /\ Fits(c)
    BY <2>1, CallType DEF TInv, Copies, Fits
  <2>3. CASE Ends(s)
    BY <2>1, <2>3, ChildrenGo DEF Ends
  <2>4. ASSUME NEW d \in Calls, Goes(s, d), Fits(d), SameCall(c, d), MovesTo(sessions[s], c, d)
        PROVE  TInv'
    <3>1. Copies(Who(s), d, access[OwnerSlot].plain)
      <4> SUFFICES ASSUME Who(s) = Owner, d.op = "CreateInvitation", Holds(d)
                   PROVE  d.f = FileName /\ d.acc = access[OwnerSlot].plain
        BY DEF Copies
      <4>0. c.op = "CreateInvitation" /\ d.f = c.f
        BY <2>4 DEF SameCall
      <4>1. CASE ToMailbox(sessions[s], c, d)
        <5>1. access[<<Owner, c.f>>] # Absent /\ d.acc = access[<<Owner, c.f>>].plain
          BY <4>1 DEF ToMailbox, OpensAccess, AccessOf, Slot, Who
        <5>2. c.f = FileName
          BY <2>2, <5>1 DEF TInv, Calls
        <5> QED
          BY <4>0, <5>1, <5>2 DEF OwnerSlot
      <4>2. CASE ToRecipient(c, d) \/ ToInvite(sessions[s], c, d)
        <5>1. Holds(c) /\ d.acc = c.acc
          BY <4>2 DEF ToRecipient, ToInvite, Holds
        <5> QED
          BY <2>2, <4>0, <5>1 DEF Copies
      <4>3. ToMailbox(sessions[s], c, d) \/ ToRecipient(c, d) \/ ToInvite(sessions[s], c, d)
        BY <2>2, <2>4, <4>0 DEF MovesTo, ToInode, ToBlock, ToAppend, ToReseal, Resealed, ToChild,
           NextChild, ToRevoked, SameRevocation, ToSender, ToAccept, Fits, OpFits
      <4> QED
        BY <4>1, <4>2, <4>3
    <3> QED
      BY <2>1, <2>4, <3>1, ChildrenGo DEF Who
  <2> QED
    BY <1>2, <2>3, <2>4, ReadingMoves DEF Moves
<1>3. CASE SetNext(s)
  BY <1>0, <1>3, SetNextWrites, ChildrenNext
<1>4. CASE Lost(s)
  <2>1. Goes(s, Absent) /\ call[s].op # "CreateInvitation"
    BY <1>4, LostGoes DEF Lost, Tended
  <2> QED
    BY <2>1, ChildrenGo
<1>5. CASE Comes(s)
  <2>1. /\ UNCHANGED <<datastore, keystore, progress>> /\ ~InCall(s)
        /\ \A t \in Sessions : t # s => sessions'[t] = sessions[t]
    BY <1>5, ComesType
  <2>2. call' = call /\ invitation' = invitation /\ access' = access
    BY <2>1 DEF progress, datastore
  <2>3. ~InCall(s)
    BY <2>1 DEF CTypeOK, CallsFit
  <2>4. \A t \in Sessions : InCall(t) => Who(t)' = Who(t)
    BY <2>1, <2>3 DEF Who
  <2>5. \A t \in Sessions, u \in Users : Entering(t, u) => Entering(t, u)'
    BY <2>2, <2>4 DEF Entering, InCall
  <2>6. \A u \in Range(Circle) : u \in Users
    BY PositionType
  <2>7. \A t \in Sessions : InCall(t)' => InCall(t) /\ call'[t] = call[t] /\ Who(t)' = Who(t)
    BY <2>2, <2>4 DEF InCall
  <2> QED
    BY <2>2, <2>5, <2>6, <2>7 DEF TInv
<1> QED
  BY <1>1, <1>2, <1>3, <1>4, <1>5 DEF Step, Reading


LEMMA IdentityStutter ==
    ASSUME CTypeOK, MInv, Tended => TInv, UNCHANGED <<vars, progress>>
    PROVE  MInv' /\ (Tended => TInv)'
<1>1. UNCHANGED <<accounts, keystore, access, invitation, sessions, call, begun, mixed, died>>
  BY DEF vars, progress, history
<1>2. MInv'
  BY <1>1 DEF MInv, InCall, Who
<1>3. (Tended => TInv)'
  BY <1>1 DEF Tended, Overlapped, TInv, InCall, Who, Entering
<1> QED
  BY <1>2, <1>3

(* What all steps of the calls in service.go preserve: a user struct holds *)
(* the private halves of its own user's public keys, each queued write is  *)
(* one that the user's method makes, in the order of the code, and, while  *)
(* the owner does nothing but invite, one at a time, whoever an invitation *)
(* of the owner is for is in the owner's Children or about to be entered,  *)
(* unless a Set was refused.                                               *)
THEOREM IdentitiesInductive == ClientsSpec => [](Heeded => MInv /\ (Tended => TInv))
<1> DEFINE Old == CTypeOK /\ (Heeded => BInv /\ AInv /\ KInv)
           Inv == MInv /\ (Tended => TInv)
<1>1. ClientsInit => Inv
  BY MineStart, ChildrenStart
<1>2. Old /\ (Heeded => Inv) /\ [ClientsNext]_allVars => (Heeded => Inv)'
  <2> SUFFICES ASSUME Old, Heeded => Inv, [ClientsNext]_allVars, Heeded' PROVE Inv'
    OBVIOUS
  <2>1. CTypeOK /\ AInv /\ Inv
    BY NextIs
  <2>2. CASE UNCHANGED <<vars, progress>>
    BY <2>1, <2>2, IdentityStutter
  <2>3. ASSUME NEW s \in Sessions, BeginCall(s) \/ Step(s) \/ Lost(s) \/ Comes(s)
        PROVE  Inv'
    <3>1. Tended' => Tended
      BY <2>1, <2>3, StepRemembers, StaysTended
    <3>2. MInv'
      BY <2>1, <2>3, MineStep
    <3>3. Tended' => TInv'
      BY <2>1, <2>3, <3>1, ChildrenStep
    <3> QED
      BY <3>2, <3>3
  <2> QED
    BY <2>2, <2>3, NextIs
<1> QED
  BY <1>1, <1>2, KeysInductive, PTL DEF ClientsSpec

(* SharingTreeComplete for any number of users, sessions, files and calls: *)
(* when no call is in progress, whoever the owner has invited with         *)
(* CreateInvitation (service.go) is in the owner's Children, as long as    *)
(* invitations neither overlapped nor were cut short, the owner did not    *)
(* write the access record in any other way and no Set was refused.        *)
THEOREM ChildrenComplete == ClientsSpec => []SharingTreeComplete
<1>1. (Heeded => MInv /\ (Tended => TInv)) => SharingTreeComplete
  <2> SUFFICES ASSUME MInv, TInv, Quiet, NEW p \in DOMAIN invitation, NEW u \in Range(Circle),
                      invitation[p].sig = keystore[Owner].sig,
                      invitation[p].enc = keystore[u].enc
               PROVE  access[<<Owner, FileName>>].plain.children[u] # Absent
    BY DEF SharingTreeComplete, Tended, Heeded
  <2>1. keystore = Public
    BY DEF MInv
  <2>2. \A s \in Sessions : ~Entering(s, u)
    BY DEF Quiet, Entering, InCall
  <2> QED
    BY <2>1, <2>2 DEF TInv, OwnerSlot
<1> QED
  BY <1>1, IdentitiesInductive, PTL
=============================================================================
