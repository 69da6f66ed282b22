--------------------------- MODULE RevocationProofs ---------------------------
(***************************************************************************)
(* What revocation guarantees, for any number of users, files, sessions,   *)
(* invitations and revocations: as long as the owner can open a file, no   *)
(* mailbox the owner cut off opens it, and every sharee recorded in the    *)
(* owner's access record can.                                              *)
(***************************************************************************)
EXTENDS Revocation, ShareLockProofs

(* The history variables restrict no step of ShareLock. *)
LEMMA StepOfShareLock ==
    ASSUME [HNext]_allVars
    PROVE  [Next]_vars
<1>1. ASSUME UNCHANGED allVars PROVE UNCHANGED vars
  BY <1>1 DEF allVars, vars
<1>2. ASSUME HNext PROVE Next
  <2>1. PICK s \in Sessions :
            \/ Others(s)
            \/ \E f \in Filenames, c \in Contents : Stored(s, f, c)
            \/ \E f \in Filenames, r \in Users :
                   Invited(s, f, r) \/ RevokedByOwner(s, f, r) \/ RevokedBySharee(s, f, r)
    BY <1>2 DEF HNext
  <2>2. CASE Others(s)
    BY <2>2 DEF Others, Next
  <2>3. CASE \E f \in Filenames, c \in Contents : Stored(s, f, c)
    BY <2>3 DEF Stored, Next
  <2>4. CASE \E f \in Filenames, r \in Users :
                 Invited(s, f, r) \/ RevokedByOwner(s, f, r) \/ RevokedBySharee(s, f, r)
    BY <2>4 DEF Invited, RevokedByOwner, RevokedBySharee, Next
  <2> QED
    BY <2>1, <2>2, <2>3, <2>4
<1> QED
  BY <1>1, <1>2

(* So every behaviour with history satisfies ShareLock's invariant.        *)
LEMMA HistoryIsAuxiliary == HSpec => []IInv
<1>1. HInit => Init
  BY DEF HInit
<1>2. [HNext]_allVars => [Next]_vars
  BY StepOfShareLock
<1>3. HSpec => Spec
  BY <1>1, <1>2, PTL DEF HSpec, Spec
<1> QED
  BY <1>3, Inductive, PTL

-----------------------------------------------------------------------------
(* The inductive invariant. *)

(* The history variables talk about the records that exist, and an owner's *)
(* mailbox belongs to the file, was handed on by nobody and is never cut.  *)
HistoryOK ==
    /\ DOMAIN line = DOMAIN mailbox
    /\ DOMAIN root = DOMAIN inode
    /\ cut \subseteq DOMAIN mailbox
    /\ \A i \in DOMAIN root :
           /\ root[i] \in DOMAIN mailbox
           /\ mailbox[root[i]].plain.inode = i
           /\ root[i] \notin cut
           /\ \E u \in Users : line[root[i]] = <<u>>

IsRootSlot(x) ==
    /\ access[x] # Absent
    /\ root[mailbox[access[x].plain.box.uuid].plain.inode] = access[x].plain.box.uuid

(* The children of the owner's access record came straight from the owner  *)
(* to the user they are recorded under, and none of them is cut.           *)
RootChildren ==
    \A x \in Slots : IsRootSlot(x) =>
        \A c \in Users : access[x].plain.children[c] # Absent =>
            /\ access[x].plain.children[c].uuid \notin cut
            /\ Range(Tail(line[access[x].plain.children[c].uuid])) = {c}

HInv == HistoryOK /\ RootPrivate /\ RootChildren /\ CutStaysCut /\ RecordedShareesRead

(* A mailbox made by an owner for user c came through c only.              *)
LEMMA RangeOfLine ==
    ASSUME NEW u, NEW c
    PROVE  Range(Tail(Append(<<u>>, c))) = {c}
<1>1. Append(<<u>>, c) = <<u, c>>
  <2>1. <<u>> \in Seq({u, c}) /\ <<u, c>> \in Seq({u, c}) /\ Len(<<u>>) = 1
    OBVIOUS
  <2>2. /\ Append(<<u>>, c) \in Seq({u, c})
        /\ Len(Append(<<u>>, c)) = 2
        /\ Append(<<u>>, c)[1] = u /\ Append(<<u>>, c)[2] = c
    BY <2>1, AppendProperties
  <2> DEFINE a == Append(<<u>>, c)
             t == <<u, c>>
  <2>3. Len(t) = 2 /\ t[1] = u /\ t[2] = c
    OBVIOUS
  <2> HIDE DEF a, t
  <2>4. a \in Seq({u, c}) /\ t \in Seq({u, c}) /\ Len(a) = Len(t)
        /\ \A i \in 1..Len(a) : a[i] = t[i]
    BY <2>1, <2>2, <2>3 DEF a, t
  <2>5. a = t
    BY <2>4, SeqEqual
  <2> QED
    BY <2>5 DEF a, t
<1>2. Tail(<<u, c>>) = <<c>>
  OBVIOUS
<1>3. Range(<<c>>) = {c}
  BY DEF Range
<1> QED
  BY <1>1, <1>2, <1>3

(* Different file keys give different payload keys.                        *)
LEMMA FileKeysDiffer ==
    ASSUME NEW j, NEW k, getFileKeys(j) = getFileKeys(k)
    PROVE  j = k
  BY DEF getFileKeys

(* Live, now and after a step, in terms of LiveIn.                         *)
LEMMA LiveDef ==
    ASSUME NEW m
    PROVE  /\ Live(m) <=> LiveIn(mailbox, inode, m)
           /\ Live(m)' <=> LiveIn(mailbox', inode', m)
  BY DEF Live, LiveIn, OpensInode, decrypts

(* What IInv says of one access record. *)
LEMMA SlotFacts ==
    ASSUME IInv, NEW x \in Slots, access[x] # Absent
    PROVE  LET acc == access[x].plain
           IN  /\ acc \in Access
               /\ acc.box.uuid \in DOMAIN mailbox
               /\ mailbox[acc.box.uuid].plain.inode \in DOMAIN inode
               /\ \A c \in Users : acc.children[c] # Absent =>
                      /\ acc.children[c].uuid \in DOMAIN mailbox
                      /\ OpensMailbox(acc.children[c])
                      /\ mailbox[acc.children[c].uuid].plain.inode
                             = mailbox[acc.box.uuid].plain.inode
<1>1. access[x].plain \in Access
  BY DEF IInv, TypeOK, Sealed
<1>2. PICK u \in Users, f \in Filenames : x = <<u, f>>
  BY DEF Slots
<1> QED
  BY <1>1, <1>2 DEF IInv, LinksOpen, SlotsOpen, MailboxesLead, OpensMailbox

-----------------------------------------------------------------------------
(* One lemma per kind of step. *)

(* Steps that leave mailboxes, invitations, the keys of inodes and the     *)
(* history alone, and change access records at most to ones with no child. *)
LEMMA QuietStep ==
    ASSUME IInv, HInv,
           UNCHANGED <<mailbox, invitation, line, root, cut>>,
           DOMAIN inode' = DOMAIN inode,
           \A i \in DOMAIN inode : inode'[i].key = inode[i].key,
           \A x \in Slots : \/ access'[x] = access[x]
                            \/ \A c \in Users : access'[x].plain.children[c] = Absent
    PROVE  HInv'
<1>1. \A m : LiveIn(mailbox', inode', m) <=> LiveIn(mailbox, inode, m)
  BY DEF LiveIn
<1>2. HistoryOK'
  BY DEF HInv, HistoryOK
<1>3. RootPrivate'
  BY DEF HInv, RootPrivate
<1>4. RootChildren'
  <2> SUFFICES ASSUME NEW x \in Slots, IsRootSlot(x)', NEW c \in Users,
                      access'[x].plain.children[c] # Absent
               PROVE  /\ access'[x].plain.children[c].uuid \notin cut
                      /\ Range(Tail(line[access'[x].plain.children[c].uuid])) = {c}
    BY DEF RootChildren
  <2>1. access'[x] = access[x]
    OBVIOUS
  <2>2. IsRootSlot(x)
    BY <2>1 DEF IsRootSlot
  <2> QED
    BY <2>1, <2>2 DEF HInv, RootChildren
<1>5. CutStaysCut'
  BY <1>1, LiveDef DEF HInv, CutStaysCut
<1>6. RecordedShareesRead'
  BY <1>1, LiveDef DEF HInv, RecordedShareesRead
<1> QED
  BY <1>2, <1>3, <1>4, <1>5, <1>6 DEF HInv

(* InitUser, GetUser, AppendToFile and AcceptInvitation keep HInv.         *)
LEMMA OthersStep ==
    ASSUME IInv, HInv, NEW s \in Sessions, Others(s)
    PROVE  HInv'
<1>1. UNCHANGED <<line, root, cut>>
  BY DEF Others, hvars
<1>2. CASE \E u \in Users, p \in Passwords : InitUser(s, u, p) \/ GetUser(s, u, p)
  BY <1>1, <1>2, QuietStep DEF InitUser, GetUser
<1>3. CASE \E f \in Filenames, c \in Contents : AppendToFile(s, f, c)
  <2>1. PICK f \in Filenames, c \in Contents : AppendToFile(s, f, c)
    BY <1>3
  <2> DEFINE node == MailboxOf(sessions[s], f)
             rec  == encryptAndMAC(Appended(InodeOf(sessions[s], f), c, fresh),
                                   getFileKeys(node.fileKey))
  <2>2. /\ node.inode \in DOMAIN inode
        /\ inode[node.inode].key = getFileKeys(node.fileKey)
        /\ inode' = Put(inode, node.inode, rec)
        /\ UNCHANGED <<access, mailbox, invitation>>
    BY <2>1 DEF AppendToFile, OpensFile, OpensInode, decrypts
  <2>3. rec.key = getFileKeys(node.fileKey)
    BY DEF encryptAndMAC
  <2> HIDE DEF node, rec
  <2>4. /\ DOMAIN inode' = DOMAIN inode
        /\ \A i \in DOMAIN inode : inode'[i].key = inode[i].key
    BY <2>2, <2>3 DEF Put, PutAll
  <2> QED
    BY <1>1, <2>2, <2>4, QuietStep
<1>4. CASE \E f \in Filenames, u \in Users, p \in DOMAIN invitation :
               AcceptInvitation(s, u, p, f)
  <2>1. PICK f \in Filenames, u \in Users, p \in DOMAIN invitation :
            AcceptInvitation(s, u, p, f)
    BY <1>4
  <2> DEFINE rec == encryptAndMAC([box |-> invitation[p].box, children |-> NoChildren],
                                  getPersonalKey(sessions[s].master, f))
  <2>2. /\ access' = [access EXCEPT ![Slot(sessions[s], f)] = rec]
        /\ UNCHANGED <<mailbox, inode, invitation>>
    BY <2>1 DEF AcceptInvitation
  <2>3. \A c \in Users : rec.plain.children[c] = Absent
    BY DEF encryptAndMAC, NoChildren
  <2> HIDE DEF rec
  <2>4. \A x \in Slots : access'[x] = access[x] \/ access'[x] = rec
    BY <2>2 DEF IInv, TypeOK
  <2> QED
    BY <1>1, <2>2, <2>3, <2>4, QuietStep
<1> QED
  BY <1>2, <1>3, <1>4 DEF Others

(* StoreFile keeps HInv: its mailbox and its inode are new.                *)
LEMMA StoredStep ==
    ASSUME IInv, HInv, NEW s \in Sessions, NEW f \in Filenames, NEW c \in Contents,
           Stored(s, f, c)
    PROVE  HInv'
<1> DEFINE me  == sessions[s]
           n0  == fresh + 1
           box == [uuid |-> fresh + 2, key |-> fresh + 3]
           m0  == fresh + 2
           mrec == encryptAndMAC([fileKey |-> fresh, inode |-> n0], getMailKeys(box.key))
           arec == encryptAndMAC([box |-> box, children |-> NoChildren],
                                 getPersonalKey(me.master, f))
<1>1. /\ me \in User /\ StoreFile(s, f, c) /\ Slot(me, f) \in Slots
  BY ReadTypes DEF IInv, Stored, StoreFile
<1>2. /\ mailbox' = Put(mailbox, m0, mrec)
      /\ access' = [access EXCEPT ![Slot(me, f)] = arec]
      /\ \E r : inode' = Put(inode, n0, r)
      /\ invitation' = invitation
  BY <1>1 DEF StoreFile
<1>3. /\ fresh \in Nat
      /\ \A m \in DOMAIN mailbox : m \in Nat /\ m < fresh
      /\ \A i \in DOMAIN inode : i \in Nat /\ i < fresh
  BY DEF IInv, TypeOK, IsStore, FreshUnused
<1>4. /\ mrec.plain.inode = n0
      /\ arec.plain.box.uuid = m0
      /\ \A d \in Users : arec.plain.children[d] = Absent
  BY DEF encryptAndMAC, NoChildren
<1> HIDE DEF mrec, arec
<1>5. /\ DOMAIN mailbox' = DOMAIN mailbox \cup {m0} /\ m0 \notin DOMAIN mailbox
      /\ mailbox'[m0].plain.inode = n0
      /\ \A m \in DOMAIN mailbox : mailbox'[m] = mailbox[m]
      /\ DOMAIN inode' = DOMAIN inode \cup {n0} /\ n0 \notin DOMAIN inode
      /\ \A i \in DOMAIN inode : inode'[i] = inode[i]
  BY <1>2, <1>3, <1>4 DEF Put, PutAll
<1>6. /\ access'[Slot(me, f)] = arec
      /\ \A x \in Slots : x # Slot(me, f) => access'[x] = access[x]
  BY <1>1, <1>2 DEF IInv, TypeOK
<1>7. /\ line' = Put(line, m0, <<me.name>>)
      /\ root' = Put(root, n0, m0)
      /\ cut' = cut
  BY <1>4, <1>5, <1>6 DEF Stored
<1> HIDE DEF me, m0, n0
<1>8. /\ DOMAIN line = DOMAIN mailbox /\ DOMAIN root = DOMAIN inode
      /\ cut \subseteq DOMAIN mailbox
      /\ \A i \in DOMAIN inode : root[i] \in DOMAIN mailbox
                                 /\ mailbox[root[i]].plain.inode = i
  BY DEF HInv, HistoryOK
<1>9. /\ DOMAIN line' = DOMAIN line \cup {m0} /\ line'[m0] = <<me.name>>
      /\ \A m \in DOMAIN line : line'[m] = line[m]
      /\ DOMAIN root' = DOMAIN root \cup {n0} /\ root'[n0] = m0
      /\ \A i \in DOMAIN root : root'[i] = root[i]
  BY <1>5, <1>7, <1>8 DEF Put, PutAll
<1>10. \A m \in DOMAIN mailbox :
           /\ mailbox[m].plain.inode \in DOMAIN inode
           /\ LiveIn(mailbox', inode', m) <=> LiveIn(mailbox, inode, m)
  BY <1>5 DEF LiveIn, IInv, LinksOpen, MailboxesLead
<1>11. HistoryOK'
  BY <1>1, <1>5, <1>7, <1>8, <1>9 DEF HInv, HistoryOK, User
<1>12. RootPrivate'
  <2>1. \A p \in DOMAIN invitation : invitation[p].box.uuid \in DOMAIN mailbox
    BY DEF IInv, LinksOpen, InvitationsOpen, OpensMailbox
  <2>2. \A x \in Slots : access[x] # Absent =>
            \A d \in Users : access[x].plain.children[d] # Absent =>
                access[x].plain.children[d].uuid \in DOMAIN mailbox
    BY SlotFacts
  <2> QED
    BY <1>2, <1>4, <1>5, <1>6, <1>8, <1>9, <2>1, <2>2 DEF HInv, RootPrivate
<1>13. ASSUME NEW x \in Slots, NEW d \in Users, IsRootSlot(x)',
              access'[x].plain.children[d] # Absent
       PROVE  /\ access'[x] = access[x] /\ IsRootSlot(x)
              /\ access[x].plain.box.uuid \in DOMAIN mailbox
              /\ access[x].plain.children[d].uuid \in DOMAIN mailbox
  <2>1. x # Slot(me, f) /\ access'[x] = access[x] /\ access[x] # Absent
    BY <1>4, <1>6, <1>13 DEF IsRootSlot
  <2>2. /\ access[x].plain.box.uuid \in DOMAIN mailbox
        /\ mailbox[access[x].plain.box.uuid].plain.inode \in DOMAIN inode
        /\ access[x].plain.children[d].uuid \in DOMAIN mailbox
    BY <1>13, <2>1, SlotFacts
  <2> QED
    BY <1>5, <1>8, <1>9, <1>13, <2>1, <2>2 DEF IsRootSlot
<1>14. RootChildren'
  <2>1. SUFFICES ASSUME NEW x \in Slots, IsRootSlot(x)', NEW d \in Users,
                        access'[x].plain.children[d] # Absent
                 PROVE  /\ access'[x].plain.children[d].uuid \notin cut'
                        /\ Range(Tail(line'[access'[x].plain.children[d].uuid])) = {d}
    BY DEF RootChildren
  <2>2. /\ access'[x] = access[x] /\ IsRootSlot(x)
        /\ access[x].plain.children[d].uuid \in DOMAIN mailbox
    BY <2>1, <1>13
  <2>3. /\ access[x].plain.children[d].uuid \notin cut
        /\ Range(Tail(line[access[x].plain.children[d].uuid])) = {d}
    BY <2>1, <2>2 DEF HInv, RootChildren
  <2>4. line'[access[x].plain.children[d].uuid] = line[access[x].plain.children[d].uuid]
    BY <1>8, <1>9, <2>2
  <2> QED
    BY <1>7, <2>2, <2>3, <2>4
<1>15. CutStaysCut'
  <2>1. SUFFICES ASSUME NEW i \in DOMAIN inode', LiveIn(mailbox', inode', root'[i]),
                        NEW m \in cut, mailbox'[m].plain.inode = i
                 PROVE  ~LiveIn(mailbox', inode', m)
    BY <1>7, LiveDef DEF CutStaysCut
  <2>2. m \in DOMAIN mailbox /\ i \in DOMAIN inode /\ mailbox[m].plain.inode = i
    BY <1>5, <1>8, <1>10, <2>1
  <2> QED
    BY <1>8, <1>9, <1>10, <2>1, <2>2, LiveDef DEF HInv, CutStaysCut
<1>16. RecordedShareesRead'
  <2>1. SUFFICES ASSUME NEW x \in Slots, IsRootSlot(x)',
                        LiveIn(mailbox', inode', access'[x].plain.box.uuid),
                        NEW d \in Users, access'[x].plain.children[d] # Absent
                 PROVE  LiveIn(mailbox', inode', access'[x].plain.children[d].uuid)
    BY LiveDef DEF RecordedShareesRead, IsRootSlot
  <2>2. /\ access'[x] = access[x] /\ IsRootSlot(x)
        /\ access[x].plain.box.uuid \in DOMAIN mailbox
        /\ access[x].plain.children[d].uuid \in DOMAIN mailbox
    BY <2>1, <1>13
  <2> QED
    BY <1>10, <2>1, <2>2, LiveDef DEF HInv, RecordedShareesRead, IsRootSlot
<1> QED
  BY <1>11, <1>12, <1>14, <1>15, <1>16 DEF HInv

(* What the two outcomes of CreateInvitation do to the access records.     *)
LEMMA InviteChildren ==
    ASSUME IInv, NEW s \in Sessions, NEW f \in Filenames, NEW r \in Users,
           CreateInvitation(s, f, r) \/ CreateInvitationFails(s, f, r),
           NEW y, y = Slot(sessions[s], f)
    PROVE  /\ y \in Slots /\ access[y] # Absent
           /\ access[y].plain.box.uuid = OwnBox(s, f)
           /\ MailboxOf(sessions[s], f) = mailbox[OwnBox(s, f)].plain
           /\ inode' = inode
           /\ \A p \in DOMAIN invitation' :
                  \/ p \in DOMAIN invitation /\ invitation'[p] = invitation[p]
                  \/ invitation'[p].box.uuid = fresh
           /\ \A x \in Slots : access'[x] # Absent =>
                  /\ access[x] # Absent
                  /\ access'[x].plain.box = access[x].plain.box
                  /\ \A d \in Users :
                         \/ access'[x].plain.children[d] = access[x].plain.children[d]
                         \/ x = y /\ d = r /\ access'[x].plain.children[d].uuid = fresh
<1>1. /\ sessions[s] \in User /\ y \in Slots /\ access[y] # Absent
      /\ access[y].plain = AccessOf(sessions[s], f)
      /\ AccessOf(sessions[s], f) \in Access
  BY ReadTypes DEF IInv, CreateInvitation, CreateInvitationFails, CanInvite, OpensAccess,
                   AccessOf
<1>2. /\ access[y].plain.box.uuid = OwnBox(s, f)
      /\ MailboxOf(sessions[s], f) = mailbox[OwnBox(s, f)].plain
      /\ inode' = inode
  BY <1>1 DEF OwnBox, MailboxOf, CreateInvitation, CreateInvitationFails
<1>3. CASE CreateInvitation(s, f, r)
  <2> DEFINE box == [uuid |-> fresh, key |-> fresh + 1]
             acc == WithChild(AccessOf(sessions[s], f), r, box)
             rec == encryptAndMAC(acc, getPersonalKey(sessions[s].master, f))
             inv == [enc |-> keystore[r].enc, sig |-> sessions[s].ds, box |-> box]
  <2>1. /\ access' = [access EXCEPT ![y] = rec]
        /\ invitation' = Put(invitation, fresh + 2, inv)
    BY <1>3 DEF CreateInvitation
  <2>2. /\ rec.plain.box = access[y].plain.box
        /\ \A d \in Users : \/ rec.plain.children[d] = access[y].plain.children[d]
                            \/ d = r /\ rec.plain.children[d].uuid = fresh
    BY <1>1 DEF encryptAndMAC, WithChild, Access, Children
  <2>3. inv.box.uuid = fresh
    OBVIOUS
  <2> HIDE DEF rec, inv
  <2>4. \A x \in Slots : access'[x] = IF x = y THEN rec ELSE access[x]
    BY <2>1 DEF IInv, TypeOK
  <2>5. \A p \in DOMAIN invitation' :
            \/ p \in DOMAIN invitation /\ invitation'[p] = invitation[p]
            \/ invitation'[p].box.uuid = fresh
    BY <2>1, <2>3 DEF Put, PutAll
  <2> QED
    BY <1>1, <1>2, <2>2, <2>4, <2>5
<1>4. CASE CreateInvitationFails(s, f, r)
  BY <1>1, <1>2, <1>4 DEF CreateInvitationFails
<1> QED
  BY <1>3, <1>4

(* CreateInvitation keeps HInv: the new mailbox is as live and as cut as   *)
(* the one it copies.                                                      *)
LEMMA InvitedStep ==
    ASSUME IInv, HInv, NEW s \in Sessions, NEW f \in Filenames, NEW r \in Users,
           Invited(s, f, r)
    PROVE  HInv'
<1>1. PICK own, n, y : own = OwnBox(s, f) /\ n = fresh /\ y = Slot(sessions[s], f)
  OBVIOUS
<1>2. /\ DOMAIN mailbox' = DOMAIN mailbox \cup {n} /\ n \notin DOMAIN mailbox
      /\ own \in DOMAIN mailbox
      /\ mailbox'[n].plain = mailbox[own].plain
      /\ \A m \in DOMAIN mailbox : mailbox'[m] = mailbox[m]
  <2>1. /\ DOMAIN mailbox' = DOMAIN mailbox \cup {fresh} /\ fresh \notin DOMAIN mailbox
        /\ mailbox'[fresh].plain = MailboxOf(sessions[s], f)
        /\ AccessOf(sessions[s], f).box.uuid \in DOMAIN mailbox
        /\ \A m \in DOMAIN mailbox : mailbox'[m] = mailbox[m]
    BY InviteFresh DEF IInv, Invited
  <2>2. MailboxOf(sessions[s], f) = mailbox[own].plain
    BY <1>1, InviteChildren DEF Invited
  <2>3. own = AccessOf(sessions[s], f).box.uuid
    BY <1>1 DEF OwnBox
  <2> QED
    BY <1>1, <2>1, <2>2, <2>3
<1>3. /\ y \in Slots /\ access[y] # Absent /\ access[y].plain.box.uuid = own
      /\ inode' = inode
      /\ \A p \in DOMAIN invitation' :
             \/ p \in DOMAIN invitation /\ invitation'[p] = invitation[p]
             \/ invitation'[p].box.uuid = n
      /\ \A x \in Slots : access'[x] # Absent =>
             /\ access[x] # Absent
             /\ access'[x].plain.box = access[x].plain.box
             /\ \A d \in Users :
                    \/ access'[x].plain.children[d] = access[x].plain.children[d]
                    \/ x = y /\ d = r /\ access'[x].plain.children[d].uuid = n
  BY <1>1, InviteChildren DEF Invited
<1>4. /\ line' = Put(line, n, Append(line[own], r))
      /\ root' = root
      /\ cut' = IF own \in cut THEN cut \cup {n} ELSE cut
  BY <1>1 DEF Invited, InheritCut
<1>5. /\ DOMAIN line = DOMAIN mailbox /\ DOMAIN root = DOMAIN inode
      /\ cut \subseteq DOMAIN mailbox
      /\ \A j \in DOMAIN inode : /\ root[j] \in DOMAIN mailbox
                                 /\ mailbox[root[j]].plain.inode = j
                                 /\ root[j] \notin cut
                                 /\ \E u \in Users : line[root[j]] = <<u>>
  BY DEF HInv, HistoryOK
<1>6. /\ DOMAIN line' = DOMAIN line \cup {n} /\ line'[n] = Append(line[own], r)
      /\ \A m \in DOMAIN line : line'[m] = line[m]
  BY <1>2, <1>4, <1>5 DEF Put, PutAll
<1>7. /\ \A m \in DOMAIN mailbox :
             LiveIn(mailbox', inode', m) <=> LiveIn(mailbox, inode, m)
      /\ LiveIn(mailbox', inode', n) <=> LiveIn(mailbox, inode, own)
  BY <1>2, <1>3 DEF LiveIn
<1>8. HistoryOK'
  BY <1>2, <1>3, <1>4, <1>5, <1>6 DEF HistoryOK
<1>9. RootPrivate'
  BY <1>2, <1>3, <1>4, <1>5 DEF HInv, RootPrivate
<1>10. ASSUME NEW x \in Slots, IsRootSlot(x)', NEW d \in Users,
              access'[x].plain.children[d] # Absent
       PROVE  /\ IsRootSlot(x) /\ access[x].plain.box.uuid \in DOMAIN mailbox
              /\ access'[x].plain.box = access[x].plain.box
              /\ \/ /\ access[x].plain.children[d] # Absent
                    /\ access'[x].plain.children[d] = access[x].plain.children[d]
                    /\ access[x].plain.children[d].uuid \in DOMAIN mailbox
                 \/ x = y /\ d = r /\ access'[x].plain.children[d].uuid = n
  <2>1. access'[x] # Absent /\ access[x] # Absent
    BY <1>3, <1>10 DEF IsRootSlot
  <2>2. /\ access[x].plain.box.uuid \in DOMAIN mailbox
        /\ \A c \in Users : access[x].plain.children[c] # Absent =>
               access[x].plain.children[c].uuid \in DOMAIN mailbox
    BY <2>1, SlotFacts
  <2>3. IsRootSlot(x)
    BY <1>2, <1>3, <1>4, <1>10, <2>1, <2>2 DEF IsRootSlot
  <2> QED
    BY <1>3, <1>10, <2>1, <2>2, <2>3
<1>11. ASSUME IsRootSlot(y)
       PROVE  cut' = cut /\ n \notin cut /\ Range(Tail(line'[n])) = {r}
  <2>1. PICK j \in DOMAIN inode : root[j] = own
    BY <1>3, <1>11, SlotFacts DEF IsRootSlot
  <2>2. PICK u \in Users : line[own] = <<u>>
    BY <1>5, <2>1
  <2>3. cut' = cut /\ n \notin cut
    BY <1>2, <1>4, <1>5, <2>1
  <2> QED
    BY <1>6, <2>2, <2>3, RangeOfLine
<1>12. RootChildren'
  <2>1. SUFFICES ASSUME NEW x \in Slots, IsRootSlot(x)', NEW d \in Users,
                        access'[x].plain.children[d] # Absent
                 PROVE  /\ access'[x].plain.children[d].uuid \notin cut'
                        /\ Range(Tail(line'[access'[x].plain.children[d].uuid])) = {d}
    BY DEF RootChildren
  <2>2. CASE /\ access[x].plain.children[d] # Absent
             /\ access'[x].plain.children[d] = access[x].plain.children[d]
             /\ access[x].plain.children[d].uuid \in DOMAIN mailbox
    <3>1. /\ access[x].plain.children[d].uuid \notin cut
          /\ Range(Tail(line[access[x].plain.children[d].uuid])) = {d}
      BY <1>10, <2>1, <2>2 DEF HInv, RootChildren
    <3>2. line'[access[x].plain.children[d].uuid] = line[access[x].plain.children[d].uuid]
      BY <1>5, <1>6, <2>2
    <3> QED
      BY <1>2, <1>4, <2>2, <3>1, <3>2
  <2>3. CASE x = y /\ d = r /\ access'[x].plain.children[d].uuid = n
    BY <1>10, <1>11, <2>1, <2>3
  <2> QED
    BY <1>10, <2>1, <2>2, <2>3
<1>13. CutStaysCut'
  <2>1. SUFFICES ASSUME NEW j \in DOMAIN inode, LiveIn(mailbox', inode', root[j]),
                        NEW m \in cut', mailbox'[m].plain.inode = j
                 PROVE  ~LiveIn(mailbox', inode', m)
    BY <1>3, <1>4, LiveDef DEF CutStaysCut
  <2>2. LiveIn(mailbox, inode, root[j])
    BY <1>5, <1>7, <2>1
  <2>3. \A k \in cut : mailbox[k].plain.inode = j => ~LiveIn(mailbox, inode, k)
    BY <2>2, LiveDef DEF HInv, CutStaysCut
  <2>4. CASE m \in cut
    BY <1>2, <1>5, <1>7, <2>1, <2>3, <2>4
  <2>5. CASE m = n /\ own \in cut
    BY <1>2, <1>7, <2>1, <2>3, <2>5
  <2> QED
    BY <1>4, <2>1, <2>4, <2>5
<1>14. RecordedShareesRead'
  <2>1. SUFFICES ASSUME NEW x \in Slots, IsRootSlot(x)',
                        LiveIn(mailbox', inode', access'[x].plain.box.uuid),
                        NEW d \in Users, access'[x].plain.children[d] # Absent
                 PROVE  LiveIn(mailbox', inode', access'[x].plain.children[d].uuid)
    BY LiveDef DEF RecordedShareesRead, IsRootSlot
  <2>2. /\ IsRootSlot(x) /\ access[x].plain.box.uuid \in DOMAIN mailbox
        /\ LiveIn(mailbox, inode, access[x].plain.box.uuid)
    BY <1>7, <1>10, <2>1
  <2>3. \A c \in Users : access[x].plain.children[c] # Absent =>
            LiveIn(mailbox, inode, access[x].plain.children[c].uuid)
    BY <2>2, LiveDef DEF HInv, RecordedShareesRead, IsRootSlot
  <2>4. CASE /\ access[x].plain.children[d] # Absent
             /\ access'[x].plain.children[d] = access[x].plain.children[d]
             /\ access[x].plain.children[d].uuid \in DOMAIN mailbox
    BY <1>7, <2>3, <2>4
  <2>5. CASE x = y /\ d = r /\ access'[x].plain.children[d].uuid = n
    BY <1>3, <1>7, <2>2, <2>5
  <2> QED
    BY <1>10, <2>1, <2>4, <2>5
<1> QED
  BY <1>8, <1>9, <1>12, <1>13, <1>14 DEF HInv

(* What RevokeAccess by the holder of slot y does: of the mailboxes of     *)
(* file i that existed, exactly the remaining children's stay live.        *)
Revokes(r, y, own, i, n, kept) ==
    /\ y \in Slots /\ access[y] # Absent /\ access[y].plain.box.uuid = own
    /\ own \in DOMAIN mailbox /\ mailbox[own].plain.inode = i /\ i \in DOMAIN inode
    /\ DOMAIN mailbox' = DOMAIN mailbox \cup {n} /\ n \notin DOMAIN mailbox
    /\ mailbox'[n].plain.inode = i /\ LiveIn(mailbox', inode', n)
    /\ DOMAIN inode' = DOMAIN inode /\ invitation' = invitation
    /\ \A m \in DOMAIN mailbox :
           /\ mailbox'[m].plain.inode = mailbox[m].plain.inode
           /\ LiveIn(mailbox', inode', m)
                  <=> IF mailbox[m].plain.inode = i THEN m \in kept
                      ELSE LiveIn(mailbox, inode, m)
    /\ \A m : m \in kept <=>
           \E c \in Users : /\ c # r /\ access[y].plain.children[c] # Absent
                            /\ m = access[y].plain.children[c].uuid
    /\ access'[y].plain.box.uuid = n
    /\ \A c \in Users : access'[y].plain.children[c]
                            = IF c = r THEN Absent ELSE access[y].plain.children[c]
    /\ \A x \in Slots : x # y => access'[x] = access[x]

(* RevokeAccess has that effect in every state that satisfies IInv.        *)
LEMMA RevokeEffect ==
    ASSUME IInv, NEW s \in Sessions, NEW f \in Filenames, NEW r \in Users,
           RevokeAccess(s, f, r),
           NEW y, y = Slot(sessions[s], f),
           NEW own, own = OwnBox(s, f),
           NEW i, i = MailboxOf(sessions[s], f).inode,
           NEW n, n = fresh + 2,
           NEW kept, kept = RemainingBoxes(AccessOf(sessions[s], f).children, r)
    PROVE  Revokes(r, y, own, i, n, kept)
<1>1. /\ sessions[s] \in User /\ y \in Slots /\ access[y] # Absent
      /\ access[y].plain = AccessOf(sessions[s], f) /\ access[y].plain.box.uuid = own
      /\ mailbox[own].plain.inode = i /\ own \in DOMAIN mailbox
      /\ invitation' = invitation
      /\ AccessOf(sessions[s], f) \in Access
  BY ReadTypes DEF IInv, RevokeAccess, OpensFile, OpensAccess, AccessOf, OpensMailbox,
                   MailboxOf, OwnBox
<1>2. TypeOK /\ FreshUnused
  BY DEF IInv
<1>3. /\ DOMAIN mailbox' = DOMAIN mailbox \cup {fresh + 2}
      /\ fresh + 2 \notin DOMAIN mailbox
      /\ mailbox'[fresh + 2].plain
             = [fileKey |-> fresh, inode |-> MailboxOf(sessions[s], f).inode]
  BY <1>2, RevokeFacts, Zenon
<1>4. \A m \in DOMAIN mailbox :
          /\ mailbox'[m].key = mailbox[m].key
          /\ mailbox'[m].plain.inode = mailbox[m].plain.inode
          /\ mailbox'[m].plain.fileKey
                 = IF m \in RemainingBoxes(AccessOf(sessions[s], f).children, r)
                   THEN fresh ELSE mailbox[m].plain.fileKey
  BY <1>2, RevokeFacts, Zenon
<1>5. /\ MailboxOf(sessions[s], f).inode \in DOMAIN inode
      /\ DOMAIN inode' = DOMAIN inode
      /\ inode'[MailboxOf(sessions[s], f).inode].key = getFileKeys(fresh)
      /\ \A j \in DOMAIN inode : j # MailboxOf(sessions[s], f).inode => inode'[j] = inode[j]
  BY <1>2, RevokeFacts, Zenon
<1>6. /\ DOMAIN mailbox' = DOMAIN mailbox \cup {n} /\ n \notin DOMAIN mailbox
      /\ mailbox'[n].plain = [fileKey |-> fresh, inode |-> i]
      /\ \A m \in DOMAIN mailbox :
             /\ mailbox'[m].plain.inode = mailbox[m].plain.inode
             /\ mailbox'[m].plain.fileKey = IF m \in kept THEN fresh
                                            ELSE mailbox[m].plain.fileKey
      /\ i \in DOMAIN inode /\ DOMAIN inode' = DOMAIN inode
      /\ inode'[i].key = getFileKeys(fresh)
      /\ \A j \in DOMAIN inode : j # i => inode'[j] = inode[j]
  BY <1>3, <1>4, <1>5
<1>7. \A c \in Users : access[y].plain.children[c] # Absent =>
          /\ OpensMailbox(access[y].plain.children[c])
          /\ access[y].plain.children[c].uuid \in DOMAIN mailbox
          /\ mailbox[access[y].plain.children[c].uuid].plain.inode = i
  BY <1>1, SlotFacts
<1>8. \A m : m \in kept <=>
          \E c \in Users : /\ c # r /\ access[y].plain.children[c] # Absent
                           /\ m = access[y].plain.children[c].uuid
  <2>1. kept = RemainingBoxes(access[y].plain.children, r)
    BY <1>1
  <2> QED
    BY <1>7, <2>1 DEF RemainingBoxes
<1>9. \A m \in DOMAIN mailbox :
          mailbox[m].plain.fileKey \in Nat /\ mailbox[m].plain.fileKey < fresh /\ fresh \in Nat
  BY DEF IInv, TypeOK, FreshUnused, IsStore, Sealed, MailboxNode
<1>10. ASSUME NEW m \in DOMAIN mailbox
       PROVE  LiveIn(mailbox', inode', m)
                  <=> IF mailbox[m].plain.inode = i THEN m \in kept
                      ELSE LiveIn(mailbox, inode, m)
  <2>1. CASE mailbox[m].plain.inode = i /\ m \in kept
    BY <1>6, <2>1 DEF LiveIn
  <2>2. CASE mailbox[m].plain.inode = i /\ m \notin kept
    <3>1. mailbox'[m].plain.fileKey # fresh
      BY <1>6, <1>9, <2>2
    <3> QED
      BY <1>6, <2>2, <3>1, FileKeysDiffer DEF LiveIn
  <2>3. CASE mailbox[m].plain.inode # i
    <3>1. m \notin kept
      BY <1>7, <1>8, <2>3
    <3> QED
      BY <1>6, <2>3, <3>1 DEF LiveIn
  <2> QED
    BY <2>1, <2>2, <2>3
<1>11. LiveIn(mailbox', inode', n) /\ mailbox'[n].plain.inode = i
  BY <1>6 DEF LiveIn
<1>12. /\ access'[y].plain.box.uuid = n
       /\ \A c \in Users : access'[y].plain.children[c]
                               = IF c = r THEN Absent ELSE access[y].plain.children[c]
       /\ \A x \in Slots : x # y => access'[x] = access[x]
  <2> DEFINE acc == WithoutChild(AccessOf(sessions[s], f), r, [uuid |-> fresh + 2, key |-> fresh + 1])
             rec == encryptAndMAC(acc, getPersonalKey(sessions[s].master, f))
  <2>1. access' = [access EXCEPT ![y] = rec]
    BY DEF RevokeAccess
  <2>2. /\ rec.plain.box.uuid = n
        /\ \A c \in Users : rec.plain.children[c]
                                = IF c = r THEN Absent ELSE access[y].plain.children[c]
    BY <1>1 DEF encryptAndMAC, WithoutChild, Access, Children
  <2> HIDE DEF rec
  <2>3. access'[y] = rec /\ \A x \in Slots : x # y => access'[x] = access[x]
    BY <1>1, <2>1 DEF IInv, TypeOK
  <2> QED
    BY <2>2, <2>3
<1> QED
  BY <1>1, <1>6, <1>8, <1>10, <1>11, <1>12 DEF Revokes

(* The owner's RevokeAccess keeps HInv: no remaining child has been cut or *)
(* came through the revoked user.                                          *)
LEMMA RevokedByOwnerStep ==
    ASSUME IInv, HInv, NEW s \in Sessions, NEW f \in Filenames, NEW r \in Users,
           RevokedByOwner(s, f, r)
    PROVE  HInv'
<1>1. PICK y, own, i, n, kept :
          /\ y = Slot(sessions[s], f) /\ own = OwnBox(s, f)
          /\ i = MailboxOf(sessions[s], f).inode /\ n = fresh + 2
          /\ kept = RemainingBoxes(AccessOf(sessions[s], f).children, r)
  OBVIOUS
<1>2. Revokes(r, y, own, i, n, kept)
  BY <1>1, RevokeEffect DEF RevokedByOwner
<1>3. /\ root[i] = own
      /\ line' = Put(line, n, line[own]) /\ root' = Put(root, i, n)
      /\ cut' = cut \cup Through(i, r)
  BY <1>1, <1>2 DEF RevokedByOwner, Revokes
<1>4. /\ DOMAIN line = DOMAIN mailbox /\ DOMAIN root = DOMAIN inode
      /\ cut \subseteq DOMAIN mailbox
      /\ \A j \in DOMAIN inode : /\ root[j] \in DOMAIN mailbox
                                 /\ mailbox[root[j]].plain.inode = j
                                 /\ root[j] \notin cut
                                 /\ \E u \in Users : line[root[j]] = <<u>>
  BY DEF HInv, HistoryOK
<1>5. /\ DOMAIN line' = DOMAIN mailbox' /\ line'[n] = line[own]
      /\ \A m \in DOMAIN line : line'[m] = line[m]
      /\ DOMAIN root' = DOMAIN inode /\ root'[i] = n
      /\ \A j \in DOMAIN inode : j # i => root'[j] = root[j]
  <2>1. /\ DOMAIN mailbox' = DOMAIN mailbox \cup {n} /\ n \notin DOMAIN mailbox
        /\ i \in DOMAIN inode
    BY <1>2 DEF Revokes
  <2> QED
    BY <1>3, <1>4, <2>1 DEF Put, PutAll
<1>6. \A m : m \in Through(i, r) <=>
          /\ m \in DOMAIN mailbox /\ mailbox[m].plain.inode = i
          /\ r \in Range(Tail(line[m]))
  BY DEF Through
<1>7. IsRootSlot(y)
  BY <1>2, <1>3 DEF IsRootSlot, Revokes
<1>8. \A c \in Users : access[y].plain.children[c] # Absent =>
          /\ access[y].plain.children[c].uuid \in DOMAIN mailbox
          /\ access[y].plain.children[c].uuid \notin cut
          /\ Range(Tail(line[access[y].plain.children[c].uuid])) = {c}
          /\ c # r => access[y].plain.children[c].uuid \notin Through(i, r)
  <2>1. \A c \in Users : access[y].plain.children[c] # Absent =>
            access[y].plain.children[c].uuid \in DOMAIN mailbox
    BY <1>2, SlotFacts DEF Revokes
  <2>2. \A c \in Users : access[y].plain.children[c] # Absent =>
            /\ access[y].plain.children[c].uuid \notin cut
            /\ Range(Tail(line[access[y].plain.children[c].uuid])) = {c}
    BY <1>2, <1>7 DEF HInv, RootChildren, Revokes
  <2> QED
    BY <1>6, <2>1, <2>2
<1>9. kept \cap (cut \cup Through(i, r)) = {}
  BY <1>2, <1>8 DEF Revokes
<1>10. HistoryOK'
  <2>1. \A j \in DOMAIN inode : j # i => root[j] \notin Through(i, r)
    BY <1>4, <1>6
  <2>2. n \notin cut'
    BY <1>2, <1>3, <1>4, <1>6 DEF Revokes
  <2>3. \E u \in Users : line'[n] = <<u>>
    BY <1>2, <1>3, <1>4, <1>5 DEF Revokes
  <2>4. cut' \subseteq DOMAIN mailbox'
    BY <1>2, <1>3, <1>4, <1>6 DEF Revokes
  <2>5. ASSUME NEW j \in DOMAIN inode
        PROVE  /\ root'[j] \in DOMAIN mailbox'
               /\ mailbox'[root'[j]].plain.inode = j
               /\ root'[j] \notin cut'
               /\ \E u \in Users : line'[root'[j]] = <<u>>
    <3>1. CASE j = i
      BY <1>2, <1>5, <2>2, <2>3, <3>1 DEF Revokes
    <3>2. CASE j # i
      BY <1>2, <1>3, <1>4, <1>5, <2>1, <3>2 DEF Revokes
    <3> QED
      BY <3>1, <3>2
  <2>6. DOMAIN root' = DOMAIN inode'
    BY <1>2, <1>5 DEF Revokes
  <2> QED
    BY <1>5, <2>4, <2>5, <2>6 DEF HistoryOK
<1>11. \A x \in Slots : access[x] # Absent =>
           /\ access[x].plain.box.uuid \in DOMAIN mailbox
           /\ mailbox[access[x].plain.box.uuid].plain.inode \in DOMAIN inode
           /\ \A c \in Users : access[x].plain.children[c] # Absent =>
                  /\ access[x].plain.children[c].uuid \in DOMAIN mailbox
                  /\ mailbox[access[x].plain.children[c].uuid].plain.inode
                         = mailbox[access[x].plain.box.uuid].plain.inode
  BY SlotFacts
<1>12. RootPrivate'
  <2>1. SUFFICES ASSUME NEW j \in DOMAIN inode
                 PROVE  /\ \A p \in DOMAIN invitation : invitation[p].box.uuid # root'[j]
                        /\ \A x \in Slots : access'[x] # Absent =>
                               \A c \in Users : access'[x].plain.children[c] # Absent =>
                                   access'[x].plain.children[c].uuid # root'[j]
    BY <1>2, <1>5 DEF RootPrivate, Revokes
  <2>2. \A p \in DOMAIN invitation : invitation[p].box.uuid \in DOMAIN mailbox
    BY DEF IInv, LinksOpen, InvitationsOpen, OpensMailbox
  <2>3. CASE j = i
    BY <1>2, <1>5, <1>11, <2>2, <2>3 DEF Revokes
  <2>4. CASE j # i
    BY <1>2, <1>4, <1>5, <2>4 DEF HInv, RootPrivate, Revokes
  <2> QED
    BY <2>3, <2>4
(* Another slot of an owner belongs to another file. *)
<1>13. ASSUME NEW x \in Slots, x # y, IsRootSlot(x)'
       PROVE  /\ access'[x] = access[x] /\ IsRootSlot(x)
              /\ mailbox[access[x].plain.box.uuid].plain.inode # i
  <2>1. access'[x] = access[x] /\ access[x] # Absent
    BY <1>2, <1>13 DEF IsRootSlot, Revokes
  <2>2. mailbox'[access[x].plain.box.uuid].plain.inode
            = mailbox[access[x].plain.box.uuid].plain.inode
    BY <1>2, <1>11, <2>1 DEF Revokes
  <2>3. root'[mailbox[access[x].plain.box.uuid].plain.inode] = access[x].plain.box.uuid
    BY <1>13, <2>1, <2>2 DEF IsRootSlot
  <2>4. mailbox[access[x].plain.box.uuid].plain.inode # i
    <3>1. n \notin DOMAIN mailbox
      BY <1>2 DEF Revokes
    <3> QED
      BY <1>5, <1>11, <2>1, <2>3, <3>1
  <2> QED
    BY <1>5, <1>11, <2>1, <2>3, <2>4 DEF IsRootSlot
<1>14. RootChildren'
  <2>1. SUFFICES ASSUME NEW x \in Slots, IsRootSlot(x)', NEW d \in Users,
                        access'[x].plain.children[d] # Absent
                 PROVE  /\ access'[x].plain.children[d].uuid \notin cut'
                        /\ Range(Tail(line'[access'[x].plain.children[d].uuid])) = {d}
    BY DEF RootChildren
  <2>2. CASE x = y
    <3>1. d # r /\ access'[x].plain.children[d] = access[y].plain.children[d]
      BY <1>2, <2>1, <2>2 DEF Revokes
    <3>2. line'[access[y].plain.children[d].uuid] = line[access[y].plain.children[d].uuid]
      BY <1>4, <1>5, <1>8, <2>1, <3>1
    <3> QED
      BY <1>3, <1>8, <2>1, <3>1, <3>2
  <2>3. CASE x # y
    <3>1. /\ access'[x] = access[x] /\ IsRootSlot(x) /\ access[x] # Absent
          /\ mailbox[access[x].plain.box.uuid].plain.inode # i
      BY <1>13, <2>1, <2>3 DEF IsRootSlot
    <3>2. /\ access[x].plain.children[d].uuid \notin cut
          /\ Range(Tail(line[access[x].plain.children[d].uuid])) = {d}
      BY <2>1, <3>1 DEF HInv, RootChildren
    <3>3. /\ access[x].plain.children[d].uuid \in DOMAIN mailbox
          /\ access[x].plain.children[d].uuid \notin Through(i, r)
      BY <1>6, <1>11, <2>1, <3>1
    <3>4. line'[access[x].plain.children[d].uuid] = line[access[x].plain.children[d].uuid]
      BY <1>4, <1>5, <3>3
    <3> QED
      BY <1>3, <3>1, <3>2, <3>3, <3>4
  <2> QED
    BY <2>2, <2>3
<1>15. CutStaysCut'
  <2>1. SUFFICES ASSUME NEW j \in DOMAIN inode, LiveIn(mailbox', inode', root'[j]),
                        NEW m \in cut', mailbox'[m].plain.inode = j
                 PROVE  ~LiveIn(mailbox', inode', m)
    BY <1>2, LiveDef DEF CutStaysCut, Revokes
  <2>2. m \in DOMAIN mailbox /\ mailbox[m].plain.inode = j
    BY <1>2, <1>3, <1>4, <1>6, <2>1 DEF Revokes
  <2>3. CASE j = i
    BY <1>2, <1>3, <1>9, <2>2, <2>3 DEF Revokes
  <2>4. CASE j # i
    <3>1. m \in cut /\ LiveIn(mailbox, inode, root[j])
      BY <1>2, <1>3, <1>4, <1>5, <1>6, <2>1, <2>2, <2>4 DEF Revokes
    <3>2. ~LiveIn(mailbox, inode, m)
      BY <2>2, <3>1, LiveDef DEF HInv, CutStaysCut
    <3> QED
      BY <1>2, <2>2, <2>4, <3>2 DEF Revokes
  <2> QED
    BY <2>3, <2>4
<1>16. RecordedShareesRead'
  <2>1. SUFFICES ASSUME NEW x \in Slots, IsRootSlot(x)',
                        LiveIn(mailbox', inode', access'[x].plain.box.uuid),
                        NEW d \in Users, access'[x].plain.children[d] # Absent
                 PROVE  LiveIn(mailbox', inode', access'[x].plain.children[d].uuid)
    BY LiveDef DEF RecordedShareesRead, IsRootSlot
  <2>2. CASE x = y
    <3>1. d # r /\ access'[x].plain.children[d] = access[y].plain.children[d]
      BY <1>2, <2>1, <2>2 DEF Revokes
    <3>2. /\ access[y].plain.children[d].uuid \in kept
          /\ access[y].plain.children[d].uuid \in DOMAIN mailbox
          /\ mailbox[access[y].plain.children[d].uuid].plain.inode = i
      BY <1>2, <1>11, <2>1, <3>1 DEF Revokes
    <3> QED
      BY <1>2, <3>1, <3>2 DEF Revokes
  <2>3. CASE x # y
    <3>1. /\ access'[x] = access[x] /\ IsRootSlot(x) /\ access[x] # Absent
          /\ mailbox[access[x].plain.box.uuid].plain.inode # i
      BY <1>13, <2>1, <2>3 DEF IsRootSlot
    <3>2. LiveIn(mailbox, inode, access[x].plain.box.uuid)
      BY <1>2, <1>11, <2>1, <3>1 DEF Revokes
    <3>3. LiveIn(mailbox, inode, access[x].plain.children[d].uuid)
      BY <2>1, <3>1, <3>2, LiveDef DEF HInv, RecordedShareesRead, IsRootSlot
    <3>4. /\ access[x].plain.children[d].uuid \in DOMAIN mailbox
          /\ mailbox[access[x].plain.children[d].uuid].plain.inode # i
      BY <1>11, <2>1, <3>1
    <3> QED
      BY <1>2, <3>1, <3>3, <3>4 DEF Revokes
  <2> QED
    BY <2>2, <2>3
<1> QED
  BY <1>10, <1>12, <1>14, <1>15, <1>16 DEF HInv

(* A sharee's RevokeAccess keeps HInv: it locks the owner out, so nothing  *)
(* is claimed of this file any more, and it touches no other file.         *)
LEMMA RevokedByShareeStep ==
    ASSUME IInv, HInv, NEW s \in Sessions, NEW f \in Filenames, NEW r \in Users,
           RevokedBySharee(s, f, r)
    PROVE  HInv'
<1>1. PICK y, own, i, n, kept :
          /\ y = Slot(sessions[s], f) /\ own = OwnBox(s, f)
          /\ i = MailboxOf(sessions[s], f).inode /\ n = fresh + 2
          /\ kept = RemainingBoxes(AccessOf(sessions[s], f).children, r)
  OBVIOUS
<1>2. Revokes(r, y, own, i, n, kept)
  BY <1>1, RevokeEffect DEF RevokedBySharee
<1>3. /\ line' = Put(line, n, line[own]) /\ root' = root
      /\ cut' = IF own \in cut THEN cut \cup {n} ELSE cut
  BY <1>1, <1>2 DEF RevokedBySharee, Revokes, InheritCut
<1>4. /\ DOMAIN line = DOMAIN mailbox /\ DOMAIN root = DOMAIN inode
      /\ cut \subseteq DOMAIN mailbox
      /\ \A j \in DOMAIN inode : /\ root[j] \in DOMAIN mailbox
                                 /\ mailbox[root[j]].plain.inode = j
                                 /\ root[j] \notin cut
                                 /\ \E u \in Users : line[root[j]] = <<u>>
  BY DEF HInv, HistoryOK
<1>5. /\ DOMAIN mailbox' = DOMAIN mailbox \cup {n} /\ n \notin DOMAIN mailbox
      /\ mailbox'[n].plain.inode = i
      /\ i \in DOMAIN inode /\ DOMAIN inode' = DOMAIN inode
      /\ \A m \in DOMAIN mailbox : mailbox'[m].plain.inode = mailbox[m].plain.inode
  BY <1>2 DEF Revokes
<1>6. /\ DOMAIN line' = DOMAIN mailbox'
      /\ \A m \in DOMAIN line : line'[m] = line[m]
  BY <1>3, <1>4, <1>5 DEF Put, PutAll
<1>7. \A m \in DOMAIN mailbox : m \in cut' <=> m \in cut
  BY <1>3, <1>5
(* The owner's mailbox is nobody's child, so it keeps the old file key. *)
<1>8. ~LiveIn(mailbox', inode', root[i])
  <2>1. root[i] \notin kept
    BY <1>2, <1>4, <1>5 DEF HInv, RootPrivate, Revokes
  <2> QED
    BY <1>2, <1>4, <1>5, <2>1 DEF Revokes
<1>9. HistoryOK'
  <2>1. cut' \subseteq DOMAIN mailbox'
    BY <1>3, <1>4, <1>5
  <2> QED
    BY <1>3, <1>4, <1>5, <1>6, <1>7, <2>1 DEF HistoryOK
<1>10. \A x \in Slots : access[x] # Absent =>
           /\ access[x].plain.box.uuid \in DOMAIN mailbox
           /\ mailbox[access[x].plain.box.uuid].plain.inode \in DOMAIN inode
           /\ \A c \in Users : access[x].plain.children[c] # Absent =>
                  /\ access[x].plain.children[c].uuid \in DOMAIN mailbox
                  /\ mailbox[access[x].plain.children[c].uuid].plain.inode
                         = mailbox[access[x].plain.box.uuid].plain.inode
  BY SlotFacts
<1>11. RootPrivate'
  <2>1. \A x \in Slots : access'[x] # Absent =>
            \A c \in Users : access'[x].plain.children[c] # Absent =>
                /\ access[x] # Absent
                /\ access[x].plain.children[c] # Absent
                /\ access'[x].plain.children[c] = access[x].plain.children[c]
    BY <1>2 DEF Revokes
  <2>2. invitation' = invitation
    BY <1>2 DEF Revokes
  <2> QED
    BY <1>3, <2>1, <2>2 DEF HInv, RootPrivate
<1>12. ASSUME NEW x \in Slots, IsRootSlot(x)'
       PROVE  access'[x] = access[x] /\ IsRootSlot(x)
  <2>1. x # y
    <3>1. access'[y].plain.box.uuid = n
      BY <1>2 DEF Revokes
    <3> QED
      BY <1>3, <1>4, <1>5, <1>12, <3>1 DEF IsRootSlot
  <2>2. access'[x] = access[x]
    BY <1>2, <2>1 DEF Revokes
  <2> QED
    BY <1>3, <1>5, <1>10, <1>12, <2>2 DEF IsRootSlot
<1>13. RootChildren'
  <2>1. SUFFICES ASSUME NEW x \in Slots, IsRootSlot(x)', NEW d \in Users,
                        access'[x].plain.children[d] # Absent
                 PROVE  /\ access'[x].plain.children[d].uuid \notin cut'
                        /\ Range(Tail(line'[access'[x].plain.children[d].uuid])) = {d}
    BY DEF RootChildren
  <2>2. access'[x] = access[x] /\ IsRootSlot(x)
    BY <1>12, <2>1
  <2>3. /\ access[x].plain.children[d].uuid \notin cut
        /\ Range(Tail(line[access[x].plain.children[d].uuid])) = {d}
        /\ access[x].plain.children[d].uuid \in DOMAIN mailbox
    BY <1>10, <2>1, <2>2 DEF HInv, RootChildren, IsRootSlot
  <2>4. line'[access[x].plain.children[d].uuid] = line[access[x].plain.children[d].uuid]
    BY <1>4, <1>6, <2>3
  <2> QED
    BY <1>7, <2>2, <2>3, <2>4
<1>14. CutStaysCut'
  <2>1. SUFFICES ASSUME NEW j \in DOMAIN inode, LiveIn(mailbox', inode', root[j]),
                        NEW m \in cut', mailbox'[m].plain.inode = j
                 PROVE  ~LiveIn(mailbox', inode', m)
    BY <1>3, <1>5, LiveDef DEF CutStaysCut
  <2>2. j # i
    BY <1>8, <2>1
  <2>3. m \in DOMAIN mailbox /\ mailbox[m].plain.inode = j /\ m \in cut
    BY <1>3, <1>4, <1>5, <2>1, <2>2
  <2>4. LiveIn(mailbox, inode, root[j])
    BY <1>2, <1>4, <2>1, <2>2 DEF Revokes
  <2>5. ~LiveIn(mailbox, inode, m)
    BY <2>3, <2>4, LiveDef DEF HInv, CutStaysCut
  <2> QED
    BY <1>2, <2>2, <2>3, <2>5 DEF Revokes
<1>15. RecordedShareesRead'
  <2>1. SUFFICES ASSUME NEW x \in Slots, IsRootSlot(x)',
                        LiveIn(mailbox', inode', access'[x].plain.box.uuid),
                        NEW d \in Users, access'[x].plain.children[d] # Absent
                 PROVE  LiveIn(mailbox', inode', access'[x].plain.children[d].uuid)
    BY LiveDef DEF RecordedShareesRead, IsRootSlot
  <2>2. access'[x] = access[x] /\ IsRootSlot(x)
    BY <1>12, <2>1
  <2>3. PICK j \in DOMAIN inode :
            /\ mailbox[access[x].plain.box.uuid].plain.inode = j
            /\ access[x].plain.box.uuid = root[j]
    BY <1>10, <2>2 DEF IsRootSlot
  <2>4. j # i
    BY <1>8, <2>1, <2>2, <2>3
  <2>5. LiveIn(mailbox, inode, root[j])
    BY <1>2, <1>4, <2>1, <2>2, <2>3, <2>4 DEF Revokes
  <2>6. /\ LiveIn(mailbox, inode, access[x].plain.children[d].uuid)
        /\ access[x].plain.children[d].uuid \in DOMAIN mailbox
        /\ mailbox[access[x].plain.children[d].uuid].plain.inode = j
    BY <1>10, <2>1, <2>2, <2>3, <2>5, LiveDef DEF HInv, RecordedShareesRead, IsRootSlot
  <2> QED
    BY <1>2, <2>2, <2>4, <2>6 DEF Revokes
<1> QED
  BY <1>9, <1>11, <1>13, <1>14, <1>15 DEF HInv

(* Every step keeps HInv.                                                  *)
LEMMA HStep ==
    ASSUME IInv, HInv, [HNext]_allVars
    PROVE  HInv'
<1>1. CASE UNCHANGED allVars
  BY <1>1, QuietStep DEF allVars
<1>2. CASE HNext
  <2>1. PICK s \in Sessions :
            \/ Others(s)
            \/ \E f \in Filenames, c \in Contents : Stored(s, f, c)
            \/ \E f \in Filenames, r \in Users :
                   Invited(s, f, r) \/ RevokedByOwner(s, f, r) \/ RevokedBySharee(s, f, r)
    BY <1>2 DEF HNext
  <2>2. CASE Others(s)
    BY <2>2, OthersStep
  <2>3. CASE \E f \in Filenames, c \in Contents : Stored(s, f, c)
    BY <2>3, StoredStep
  <2>4. CASE \E f \in Filenames, r \in Users :
                 Invited(s, f, r) \/ RevokedByOwner(s, f, r) \/ RevokedBySharee(s, f, r)
    BY <2>4, InvitedStep, RevokedByOwnerStep, RevokedByShareeStep
  <2> QED
    BY <2>1, <2>2, <2>3, <2>4
<1> QED
  BY <1>1, <1>2

-----------------------------------------------------------------------------
(* Everything the induction carries along: HistoryOK ties the history to   *)
(* the stored records, RootPrivate keeps the owner's mailbox out of every  *)
(* sharee's reach, and RootChildren says that RevokeAccess' loop over the  *)
(* owner's children cannot meet a mailbox the owner has cut.               *)
THEOREM RevocationInductive == HSpec => [](IInv /\ HInv)
<1>1. ASSUME HInit PROVE HInv
  <2>1. /\ DOMAIN mailbox = {} /\ DOMAIN inode = {} /\ DOMAIN invitation = {}
        /\ DOMAIN line = {} /\ DOMAIN root = {} /\ cut = {}
        /\ \A x \in Slots : access[x] = Absent
    BY <1>1 DEF HInit, Init
  <2>2. HistoryOK /\ RootPrivate
    BY <2>1 DEF HistoryOK, RootPrivate
  <2>3. RootChildren /\ CutStaysCut /\ RecordedShareesRead
    BY <2>1 DEF RootChildren, IsRootSlot, CutStaysCut, RecordedShareesRead
  <2> QED
    BY <2>2, <2>3 DEF HInv
<1>2. IInv /\ HInv /\ [HNext]_allVars => HInv'
  BY HStep
<1> QED
  BY <1>1, <1>2, HistoryIsAuxiliary, PTL DEF HSpec

(* As long as the owner can open a file, no mailbox the owner cut off      *)
(* opens it: RevokeAccess' guarantee for every number of users, sessions,  *)
(* invitations and revocations, sharees' own revocations included.         *)
THEOREM RevokedStayOut == HSpec => []CutStaysCut
<1>1. HInv => CutStaysCut
  BY DEF HInv
<1> QED
  BY <1>1, RevocationInductive, PTL

(* As long as the owner can open a file, every sharee that the owner's     *)
(* access record lists can open it: RevokeAccess' child loop re-keys all   *)
(* of the recorded mailboxes, in every history.                            *)
THEOREM RecordedShareesKeepReading == HSpec => []RecordedShareesRead
<1>1. HInv => RecordedShareesRead
  BY DEF HInv
<1> QED
  BY <1>1, RevocationInductive, PTL

(* No invitation and no Children map ever holds the owner's own mailbox.   *)
THEOREM OwnersMailboxStaysPrivate == HSpec => []RootPrivate
<1>1. HInv => RootPrivate
  BY DEF HInv
<1> QED
  BY <1>1, RevocationInductive, PTL
=============================================================================
