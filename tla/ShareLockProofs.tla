--------------------------- MODULE ShareLockProofs ---------------------------
(***************************************************************************)
(* ShareLock's invariants for every value of its constants.  TypeOK and    *)
(* KeysPublished /\ SessionsGenuine are inductive on their own.  LinksOpen *)
(* and FilesWhole also need that the numbers from fresh on are not in use  *)
(* (FreshUnused): a new UUID must not name an old record, and a new file   *)
(* key must not be in an old mailbox.  IInv is the conjunction.            *)
(***************************************************************************)
EXTENDS ShareLockRefinement, SequenceTheorems, FiniteSetTheorems, WellFoundedInduction, TLAPS

(* The number of blocks that ByteToBlock computes is a natural number.     *)
LEMMA ChunkCount ==
    ASSUME NEW n \in Nat
    PROVE  (n + BlockSize - 1) \div BlockSize \in Nat
  BY BlockSizeAssumption

(* A function on 1..n is a sequence of length n.                           *)
LEMMA FunctionIsSeq ==
    ASSUME NEW S, NEW n \in Nat, NEW q \in [1..n -> S]
    PROVE  q \in Seq(S) /\ Len(q) = n
  OBVIOUS

(* ByteToBlock returns a sequence of byte sequences.                       *)
LEMMA Chunks ==
    ASSUME NEW data \in Seq(Bytes)
    PROVE  /\ ByteToBlock(data) \in Seq(Seq(Bytes))
           /\ Len(ByteToBlock(data)) \in Nat
<1> DEFINE size == Len(data)
           blockNum == (size + BlockSize - 1) \div BlockSize
           end(i) == IF i * BlockSize > size THEN size ELSE i * BlockSize
           start(i) == (i - 1) * BlockSize + 1
<1>1. size \in Nat
  BY LenProperties
<1>2. blockNum \in Nat
  BY <1>1, ChunkCount
<1>3. ASSUME NEW i \in 1..blockNum PROVE SubSeq(data, start(i), end(i)) \in Seq(Bytes)
  <2>0. i - 1 \in Nat /\ i \in Nat /\ BlockSize \in Nat
    BY <1>2, BlockSizeAssumption
  <2>1. (i - 1) * BlockSize \in Nat /\ i * BlockSize \in Nat
    BY <2>0
  <2>2. start(i) \in Nat /\ start(i) >= 1 /\ end(i) \in Nat /\ end(i) <= size
    BY <2>1, <1>1
  <2> QED
    BY <2>2, SubSeqProperties
<1>4. ByteToBlock(data) = [i \in 1..blockNum |-> SubSeq(data, start(i), end(i))]
  BY DEF ByteToBlock
<1> HIDE DEF size, blockNum, end, start
<1>5. ByteToBlock(data) \in [1..blockNum -> Seq(Bytes)]
  BY <1>3, <1>4
<1> QED
  BY <1>2, <1>5, FunctionIsSeq

-----------------------------------------------------------------------------
(* Typing of the stores and of the records an operation reads. *)

MailboxRecords == Sealed({"mailbox"} \X Nat, MailboxNode)
InodeRecords   == Sealed({"file"} \X Nat, Inode)
BlockRecords   == Sealed({"file"} \X Nat, Seq(Bytes))
AccessRecords  == Sealed({"personal"} \X MasterKeys \X Filenames, Access)
AccountRecords == Sealed({"user"} \X MasterKeys, User)

(* Setting well-typed records keeps a store well typed.                    *)
LEMMA PutAllStore ==
    ASSUME NEW R, NEW st, NEW new, IsStore(st, R), IsStore(new, R)
    PROVE  IsStore(PutAll(st, new), R)
  BY DEF IsStore, PutAll

(* The same for a single record.                                           *)
LEMMA PutStore ==
    ASSUME NEW R, NEW st, NEW id \in Nat, NEW r \in R, IsStore(st, R)
    PROVE  IsStore(Put(st, id, r), R)
  BY DEF IsStore, PutAll, Put

(* The block loops of StoreFile and AppendToFile store typed blocks.       *)
LEMMA NewBlocksOf ==
    ASSUME NEW c \in Seq(Bytes), NEW k \in Nat, NEW id \in Nat
    PROVE  /\ Len(ByteToBlock(c)) \in Nat
           /\ IsStore(NewBlocks(ByteToBlock(c), k, id), BlockRecords)
           /\ BlockUUIDs(ByteToBlock(c), id) \in Seq(Nat)
           /\ Len(BlockUUIDs(ByteToBlock(c), id)) = Len(ByteToBlock(c))
<1> DEFINE cs == ByteToBlock(c)
<1>1. cs \in Seq(Seq(Bytes)) /\ Len(cs) \in Nat
  BY Chunks
<1> HIDE DEF cs
<1>2. ASSUME NEW b \in id..(id + Len(cs) - 1)
      PROVE  encryptAndMAC(cs[b - id + 1], getFileKeys(k)) \in BlockRecords
  <2>1. b - id + 1 \in 1..Len(cs)
    BY <1>1
  <2>2. cs[b - id + 1] \in Seq(Bytes)
    BY <2>1, <1>1, ElementOfSeq
  <2> QED
    BY <2>2 DEF encryptAndMAC, getFileKeys, BlockRecords, Sealed
<1>3. IsStore(NewBlocks(cs, k, id), BlockRecords)
  <2>1. DOMAIN NewBlocks(cs, k, id) = id..(id + Len(cs) - 1)
    BY DEF NewBlocks
  <2>2. id..(id + Len(cs) - 1) \subseteq Nat
    BY <1>1
  <2>3. \A b \in id..(id + Len(cs) - 1) :
            NewBlocks(cs, k, id)[b] = encryptAndMAC(cs[b - id + 1], getFileKeys(k))
    BY DEF NewBlocks
  <2> QED
    BY <1>2, <2>1, <2>2, <2>3, Zenon DEF IsStore
<1>4. BlockUUIDs(cs, id) \in [1..Len(cs) -> Nat]
  BY <1>1 DEF BlockUUIDs
<1>5. BlockUUIDs(cs, id) \in Seq(Nat) /\ Len(BlockUUIDs(cs, id)) = Len(cs)
  BY <1>1, <1>4, FunctionIsSeq
<1> QED
  BY <1>1, <1>3, <1>5 DEF cs

LEMMA NewBlocksType ==
    ASSUME NEW c \in Contents, NEW k \in Nat, NEW id \in Nat
    PROVE  /\ Len(ByteToBlock(c)) \in Nat
           /\ IsStore(NewBlocks(ByteToBlock(c), k, id), BlockRecords)
           /\ BlockUUIDs(ByteToBlock(c), id) \in Seq(Nat)
           /\ Len(BlockUUIDs(ByteToBlock(c), id)) = Len(ByteToBlock(c))
  BY ContentsAssumption, NewBlocksOf

(* What an operation reads through a session, an access record, a mailbox  *)
(* and an inode has the type of its kind.                                  *)
LEMMA ReadTypes ==
    ASSUME TypeOK
    PROVE  /\ \A s \in Sessions : sessions[s] # Absent => sessions[s] \in User
           /\ \A me \in User, f \in Filenames :
                  /\ Slot(me, f) \in Slots
                  /\ OpensAccess(me, f) => AccessOf(me, f) \in Access
           /\ \A p : OpensMailbox(p) => mailbox[p.uuid].plain \in MailboxNode
           /\ \A n : OpensInode(n) => inode[n.inode].plain \in Inode
<1>1. ASSUME NEW me \in User, NEW f \in Filenames
      PROVE  /\ Slot(me, f) \in Slots
             /\ OpensAccess(me, f) => AccessOf(me, f) \in Access
  <2>1. Slot(me, f) \in Slots
    BY DEF Slot, Slots, User
  <2> QED
    BY <2>1 DEF OpensAccess, AccessOf, TypeOK, Sealed
<1>2. \A s \in Sessions : sessions[s] # Absent => sessions[s] \in User
  BY DEF TypeOK
<1>3. \A p : OpensMailbox(p) => mailbox[p.uuid].plain \in MailboxNode
  BY DEF TypeOK, IsStore, Sealed, OpensMailbox
<1>4. \A n : OpensInode(n) => inode[n.inode].plain \in Inode
  BY DEF TypeOK, IsStore, Sealed, OpensInode
<1> QED
  BY <1>1, <1>2, <1>3, <1>4

(* saveUser keeps accounts and sessions well typed.                        *)
LEMMA saveUserType ==
    ASSUME TypeOK, NEW s \in Sessions, NEW f \in Filenames,
           sessions[s] # Absent, saveUser(s, f)
    PROVE  /\ accounts' \in [Users -> AccountRecords \cup {Absent}]
           /\ sessions' \in [Sessions -> User \cup {Absent}]
<1> DEFINE me == [sessions[s] EXCEPT !.files = @ \cup {f}]
<1>1. sessions[s] \in User
  BY ReadTypes
<1>2. me \in User
  BY <1>1 DEF User
<1>3. encryptAndMAC(me, getUserKeys(me.master)) \in AccountRecords
  BY <1>2 DEF encryptAndMAC, getUserKeys, AccountRecords, Sealed, User
<1>4. /\ sessions' = [sessions EXCEPT ![s] = me]
      /\ accounts' = [accounts EXCEPT ![me.name] = encryptAndMAC(me, getUserKeys(me.master))]
  BY DEF saveUser
<1> HIDE DEF me
<1> QED
  BY <1>2, <1>3, <1>4 DEF TypeOK, AccountRecords

-----------------------------------------------------------------------------
(* Type correctness *)

(* So does writing an access record,                                       *)
LEMMA AccessType ==
    ASSUME TypeOK, NEW me \in User, NEW f \in Filenames, NEW acc \in Access,
           access' = [access EXCEPT ![Slot(me, f)] =
                          encryptAndMAC(acc, getPersonalKey(me.master, f))]
    PROVE  access' \in [Slots -> AccessRecords \cup {Absent}]
<1>1. encryptAndMAC(acc, getPersonalKey(me.master, f)) \in AccessRecords
  BY DEF encryptAndMAC, getPersonalKey, AccessRecords, Sealed, User
<1> QED
  BY <1>1, ReadTypes DEF TypeOK, AccessRecords

(* a mailbox,                                                              *)
LEMMA MailboxType ==
    ASSUME NEW box \in Pointer, NEW n \in MailboxNode
    PROVE  encryptAndMAC(n, getMailKeys(box.key)) \in MailboxRecords
  BY DEF encryptAndMAC, getMailKeys, MailboxRecords, Sealed, Pointer

(* and an inode.                                                           *)
LEMMA InodeType ==
    ASSUME NEW k \in Nat, NEW n \in Inode
    PROVE  encryptAndMAC(n, getFileKeys(k)) \in InodeRecords
  BY DEF encryptAndMAC, getFileKeys, InodeRecords, Sealed

(* One lemma per action: the action keeps TypeOK.                          *)
LEMMA StoreFileType ==
    ASSUME TypeOK, NEW s \in Sessions, NEW f \in Filenames, NEW c \in Contents,
           StoreFile(s, f, c)
    PROVE  TypeOK'
<1> DEFINE me  == sessions[s]
           box == [uuid |-> fresh + 2, key |-> fresh + 3]
           acc == [box |-> box, children |-> NoChildren]
           cs  == ByteToBlock(c)
<1>1. me \in User /\ me # Absent
  BY ReadTypes DEF StoreFile
<1>2. fresh \in Nat /\ fresh + 4 \in Nat /\ box \in Pointer
  BY DEF TypeOK, Pointer
<1>3. acc \in Access
  BY <1>2 DEF Access, Children, NoChildren
<1>4. access' \in [Slots -> AccessRecords \cup {Absent}]
  BY <1>1, <1>3, AccessType DEF StoreFile
<1>5. IsStore(mailbox', MailboxRecords)
  <2>1. [fileKey |-> fresh, inode |-> fresh + 1] \in MailboxNode
    BY <1>2 DEF MailboxNode
  <2>2. encryptAndMAC([fileKey |-> fresh, inode |-> fresh + 1],
                      getMailKeys(box.key)) \in MailboxRecords
    BY <2>1, <1>2, MailboxType
  <2> QED
    BY <1>2, <2>2, PutStore DEF TypeOK, StoreFile, MailboxRecords
<1>6. /\ Len(cs) \in Nat
      /\ IsStore(NewBlocks(cs, fresh, fresh + 4), BlockRecords)
      /\ BlockUUIDs(cs, fresh + 4) \in Seq(Nat)
  BY <1>2, NewBlocksType
<1>7. IsStore(block', BlockRecords)
  BY <1>6, PutAllStore DEF TypeOK, StoreFile, BlockRecords
<1>8. IsStore(inode', InodeRecords)
  <2>1. [size |-> Len(c), blocks |-> BlockUUIDs(cs, fresh + 4)] \in Inode
    BY <1>6, ContentsAssumption, LenProperties DEF Inode
  <2>2. encryptAndMAC([size |-> Len(c), blocks |-> BlockUUIDs(cs, fresh + 4)],
                      getFileKeys(fresh)) \in InodeRecords
    BY <2>1, <1>2, InodeType
  <2> QED
    BY <1>2, <2>2, PutStore DEF TypeOK, StoreFile, InodeRecords
<1>9. /\ accounts' \in [Users -> AccountRecords \cup {Absent}]
      /\ sessions' \in [Sessions -> User \cup {Absent}]
  BY <1>1, saveUserType DEF StoreFile
<1>10. /\ fresh' \in Nat
       /\ keystore' = keystore
       /\ invitation' = invitation
  BY <1>2, <1>6 DEF StoreFile
<1> QED
  BY <1>4, <1>5, <1>7, <1>8, <1>9, <1>10
     DEF TypeOK, AccessRecords, MailboxRecords, BlockRecords, InodeRecords, AccountRecords

(* The types along the chain access, mailbox, inode.                       *)
LEMMA OpensFileTypes ==
    ASSUME TypeOK, NEW s \in Sessions, NEW f \in Filenames, sessions[s] # Absent,
           OpensFile(sessions[s], f)
    PROVE  /\ sessions[s] \in User
           /\ AccessOf(sessions[s], f) \in Access
           /\ MailboxOf(sessions[s], f) \in MailboxNode
           /\ InodeOf(sessions[s], f) \in Inode
           /\ MailboxOf(sessions[s], f).inode \in DOMAIN inode
<1>1. sessions[s] \in User
  BY ReadTypes
<1> QED
  BY <1>1, ReadTypes DEF OpensFile, MailboxOf, InodeOf, OpensInode

(* AppendToFile's new inode is an inode.                                   *)
LEMMA AppendedType ==
    ASSUME NEW n \in Inode, NEW c \in Contents, NEW id \in Nat
    PROVE  Appended(n, c, id) \in Inode
<1>1. Len(c) \in Nat /\ BlockUUIDs(ByteToBlock(c), id) \in Seq(Nat)
  BY ContentsAssumption, LenProperties, NewBlocksType
<1>2. n.blocks \in Seq(Nat) /\ n.size \in Nat
  BY DEF Inode
<1>3. n.blocks \o BlockUUIDs(ByteToBlock(c), id) \in Seq(Nat)
  BY <1>1, <1>2, ConcatProperties
<1> QED
  BY <1>1, <1>2, <1>3 DEF Appended, Inode

(* AppendToFile keeps TypeOK.                                              *)
LEMMA AppendToFileType ==
    ASSUME TypeOK, NEW s \in Sessions, NEW f \in Filenames, NEW c \in Contents,
           AppendToFile(s, f, c)
    PROVE  TypeOK'
<1> DEFINE node == MailboxOf(sessions[s], f)
           old  == InodeOf(sessions[s], f)
<1>1. /\ node \in MailboxNode /\ old \in Inode
      /\ fresh \in Nat /\ node.fileKey \in Nat /\ node.inode \in Nat
  BY OpensFileTypes DEF AppendToFile, MailboxNode, TypeOK
<1>2. /\ Len(ByteToBlock(c)) \in Nat
      /\ IsStore(NewBlocks(ByteToBlock(c), node.fileKey, fresh), BlockRecords)
  BY <1>1, NewBlocksType
<1>3. IsStore(block', BlockRecords)
  BY <1>2, PutAllStore DEF TypeOK, AppendToFile, BlockRecords
<1>4. encryptAndMAC(Appended(old, c, fresh), getFileKeys(node.fileKey)) \in InodeRecords
  BY <1>1, AppendedType, InodeType
<1>5. IsStore(inode', InodeRecords)
  BY <1>1, <1>4, PutStore DEF TypeOK, AppendToFile, InodeRecords
<1>6. /\ fresh' \in Nat
      /\ UNCHANGED <<accounts, keystore, access, mailbox, invitation, sessions>>
  BY <1>1, <1>2 DEF AppendToFile
<1> QED
  BY <1>3, <1>5, <1>6 DEF TypeOK, BlockRecords, InodeRecords

(* What both outcomes of CreateInvitation read and store is typed.         *)
LEMMA InviteType ==
    ASSUME TypeOK, NEW s \in Sessions, NEW f \in Filenames, CanInvite(sessions[s], f)
    PROVE  /\ sessions[s] \in User
           /\ AccessOf(sessions[s], f) \in Access
           /\ fresh \in Nat
           /\ [uuid |-> fresh, key |-> fresh + 1] \in Pointer
           /\ IsStore(Put(mailbox, fresh, RecipientMailbox(sessions[s], f)), MailboxRecords)
<1> DEFINE box == [uuid |-> fresh, key |-> fresh + 1]
<1>1. fresh \in Nat /\ box \in Pointer /\ sessions[s] \in User
  BY ReadTypes DEF TypeOK, Pointer, CanInvite
<1>2. /\ AccessOf(sessions[s], f) \in Access
      /\ MailboxOf(sessions[s], f) \in MailboxNode
  BY <1>1, ReadTypes DEF CanInvite, MailboxOf
<1>3. encryptAndMAC(MailboxOf(sessions[s], f), getMailKeys(box.key)) \in MailboxRecords
  BY <1>1, <1>2, MailboxType
<1>4. RecipientMailbox(sessions[s], f) \in MailboxRecords
  BY <1>3 DEF RecipientMailbox
<1> QED
  BY <1>1, <1>2, <1>4, PutStore DEF TypeOK, MailboxRecords

(* CreateInvitation keeps TypeOK.                                          *)
LEMMA CreateInvitationType ==
    ASSUME TypeOK, NEW s \in Sessions, NEW f \in Filenames, NEW r \in Users,
           CreateInvitation(s, f, r)
    PROVE  TypeOK'
<1> DEFINE me  == sessions[s]
           box == [uuid |-> fresh, key |-> fresh + 1]
           inv == [enc |-> keystore[r].enc, sig |-> me.ds, box |-> box]
<1>1. /\ me \in User /\ AccessOf(me, f) \in Access /\ fresh \in Nat /\ box \in Pointer
      /\ IsStore(mailbox', MailboxRecords)
  BY InviteType DEF CreateInvitation
<1>2. WithChild(AccessOf(me, f), r, box) \in Access
  BY <1>1 DEF WithChild, Access, Children
<1>3. access' \in [Slots -> AccessRecords \cup {Absent}]
  BY <1>1, <1>2, AccessType DEF CreateInvitation
<1>4. IsStore(invitation', Invitation)
  <2>1. keystore[r] \in PublicKeys
    BY DEF CreateInvitation, TypeOK
  <2>2. inv \in Invitation
    BY <1>1, <2>1 DEF Invitation, PublicKeys, User
  <2>3. fresh + 2 \in Nat
    BY <1>1
  <2> QED
    BY <2>2, <2>3, PutStore DEF TypeOK, CreateInvitation
<1>5. fresh' \in Nat /\ UNCHANGED <<accounts, keystore, inode, block, sessions>>
  BY <1>1 DEF CreateInvitation
<1> QED
  BY <1>1, <1>3, <1>4, <1>5 DEF TypeOK, AccessRecords, MailboxRecords

(* Its error return keeps TypeOK.                                          *)
LEMMA CreateInvitationFailsType ==
    ASSUME TypeOK, NEW s \in Sessions, NEW f \in Filenames, NEW r \in Users,
           CreateInvitationFails(s, f, r)
    PROVE  TypeOK'
<1>1. fresh \in Nat /\ IsStore(mailbox', MailboxRecords)
  BY InviteType DEF CreateInvitationFails
<1>2. fresh' \in Nat
  BY <1>1 DEF CreateInvitationFails
<1> QED
  BY <1>1, <1>2 DEF CreateInvitationFails, TypeOK, MailboxRecords

(* AcceptInvitation keeps TypeOK.                                          *)
LEMMA AcceptInvitationType ==
    ASSUME TypeOK, NEW s \in Sessions, NEW f \in Filenames, NEW u \in Users,
           NEW p \in DOMAIN invitation, AcceptInvitation(s, u, p, f)
    PROVE  TypeOK'
<1> DEFINE me  == sessions[s]
           acc == [box |-> invitation[p].box, children |-> NoChildren]
<1>1. me \in User /\ me # Absent
  BY ReadTypes DEF AcceptInvitation
<1>2. acc \in Access
  BY DEF TypeOK, IsStore, Invitation, Access, Children, NoChildren
<1>3. access' \in [Slots -> AccessRecords \cup {Absent}]
  BY <1>1, <1>2, AccessType DEF AcceptInvitation
<1>4. /\ accounts' \in [Users -> AccountRecords \cup {Absent}]
      /\ sessions' \in [Sessions -> User \cup {Absent}]
  BY <1>1, saveUserType DEF AcceptInvitation
<1> QED
  BY <1>3, <1>4 DEF AcceptInvitation, TypeOK, AccessRecords, AccountRecords

(* RevokeAccess keeps TypeOK.                                              *)
LEMMA RevokeAccessType ==
    ASSUME TypeOK, NEW s \in Sessions, NEW f \in Filenames, NEW r \in Users,
           RevokeAccess(s, f, r)
    PROVE  TypeOK'
<1> DEFINE me   == sessions[s]
           acc  == AccessOf(me, f)
           node == MailboxOf(me, f)
           old  == InodeOf(me, f)
           box  == [uuid |-> fresh + 2, key |-> fresh + 1]
           kept == RemainingBoxes(acc.children, r)
<1>1. /\ me # Absent /\ me \in User /\ acc \in Access
      /\ node \in MailboxNode /\ old \in Inode /\ node.inode \in Nat
  BY OpensFileTypes DEF RevokeAccess, MailboxNode
<1>2. fresh \in Nat /\ box \in Pointer /\ box.uuid \in Nat
  BY DEF TypeOK, Pointer
<1>3. WithoutChild(acc, r, box) \in Access
  BY <1>1, <1>2 DEF WithoutChild, Access, Children
<1>4. access' \in [Slots -> AccessRecords \cup {Absent}]
  BY <1>1, <1>3, AccessType DEF RevokeAccess
<1>5. IsStore(block', BlockRecords)
  BY <1>2 DEF RevokeAccess, ReEncrypted, IsStore, TypeOK, BlockRecords, Sealed,
              encryptAndMAC, getFileKeys
<1>6. IsStore(inode', InodeRecords)
  <2>1. encryptAndMAC(old, getFileKeys(fresh)) \in InodeRecords
    BY <1>1, <1>2, InodeType
  <2> QED
    BY <1>1, <2>1, PutStore DEF TypeOK, RevokeAccess, InodeRecords
<1>7. IsStore(mailbox', MailboxRecords)
  <2>1. IsStore(ReKeyed(kept, fresh), MailboxRecords)
    <3>1. DOMAIN ReKeyed(kept, fresh) \subseteq Nat
      BY DEF ReKeyed, TypeOK, IsStore
    <3>2. ASSUME NEW m \in DOMAIN mailbox
          PROVE  encryptAndMAC([mailbox[m].plain EXCEPT !.fileKey = fresh], mailbox[m].key)
                     \in MailboxRecords
      <4>1. mailbox[m].plain \in MailboxNode /\ mailbox[m].key \in {"mailbox"} \X Nat
        BY DEF TypeOK, IsStore, Sealed
      <4>2. [mailbox[m].plain EXCEPT !.fileKey = fresh] \in MailboxNode
        BY <4>1, <1>2 DEF MailboxNode
      <4> QED
        BY <4>1, <4>2 DEF encryptAndMAC, MailboxRecords, Sealed
    <3> QED
      BY <3>1, <3>2 DEF ReKeyed, IsStore, TypeOK, MailboxRecords
  <2>2. [fileKey |-> fresh, inode |-> node.inode] \in MailboxNode
    BY <1>1, <1>2 DEF MailboxNode
  <2>3. encryptAndMAC([fileKey |-> fresh, inode |-> node.inode], getMailKeys(box.key))
            \in MailboxRecords
    BY <2>2, <1>2, MailboxType
  <2> QED
    BY <1>2, <2>1, <2>3, PutStore DEF RevokeAccess
<1>8. /\ accounts' \in [Users -> AccountRecords \cup {Absent}]
      /\ sessions' \in [Sessions -> User \cup {Absent}]
  BY <1>1, saveUserType DEF RevokeAccess
<1>9. fresh' \in Nat /\ UNCHANGED <<keystore, invitation>>
  BY <1>2 DEF RevokeAccess
<1> QED
  BY <1>4, <1>5, <1>6, <1>7, <1>8, <1>9
     DEF TypeOK, AccessRecords, MailboxRecords, BlockRecords, InodeRecords, AccountRecords

(* InitUser keeps TypeOK.                                                  *)
LEMMA InitUserType ==
    ASSUME TypeOK, NEW s \in Sessions, NEW u \in Users, NEW pw \in Passwords,
           InitUser(s, u, pw)
    PROVE  TypeOK'
<1> DEFINE me == [name |-> u, pke |-> fresh, ds |-> fresh + 1,
                  master |-> <<u, pw>>, files |-> {}]
<1>1. me \in User
  BY DEF TypeOK, User, MasterKeys
<1>2. encryptAndMAC(me, getUserKeys(me.master)) \in AccountRecords
  BY <1>1 DEF encryptAndMAC, getUserKeys, AccountRecords, Sealed, User
<1>3. [enc |-> fresh, sig |-> fresh + 1] \in PublicKeys
  BY DEF TypeOK, PublicKeys
<1>4. fresh' \in Nat
  BY DEF InitUser, TypeOK
<1>5. /\ accounts' \in [Users -> AccountRecords \cup {Absent}]
      /\ keystore' \in [Users -> PublicKeys \cup {Absent}]
      /\ sessions' \in [Sessions -> User \cup {Absent}]
  BY <1>1, <1>2, <1>3 DEF InitUser, TypeOK, AccountRecords
<1> QED
  BY <1>4, <1>5 DEF InitUser, TypeOK, AccountRecords

(* GetUser keeps TypeOK.                                                   *)
LEMMA GetUserType ==
    ASSUME TypeOK, NEW s \in Sessions, NEW u \in Users, NEW pw \in Passwords,
           GetUser(s, u, pw)
    PROVE  TypeOK'
  BY DEF GetUser, TypeOK, Sealed

(* Every reachable state of the services is well typed: each record the    *)
(* operations of UserService, FileService and InvitationService store has  *)
(* the shape its readers unmarshal, for any users, files and contents.     *)
THEOREM TypeCorrect == Spec => []TypeOK
<1>1. Init => TypeOK
  BY DEF Init, TypeOK, IsStore
<1>2. TypeOK /\ [Next]_vars => TypeOK'
  <2>1. SUFFICES ASSUME TypeOK, [Next]_vars PROVE TypeOK'
    OBVIOUS
  <2>2. CASE UNCHANGED vars
    BY <2>1, <2>2 DEF vars, TypeOK
  <2>3. CASE Next
    BY <2>1, <2>3, InitUserType, GetUserType, StoreFileType, AppendToFileType,
       CreateInvitationType, CreateInvitationFailsType, AcceptInvitationType,
       RevokeAccessType DEF Next
  <2> QED
    BY <2>1, <2>2, <2>3
<1> QED
  BY <1>1, <1>2, PTL DEF Spec

-----------------------------------------------------------------------------
(* Identities: the keys in user structs, sessions and the key store agree. *)

Identities == KeysPublished /\ SessionsGenuine

(* A session's user struct differs from the stored one in the file list at *)
(* most.                                                                   *)
LEMMA SessionKeys ==
    ASSUME TypeOK, Identities, NEW s \in Sessions, sessions[s] # Absent
    PROVE  /\ sessions[s] \in User
           /\ accounts[sessions[s].name] # Absent
           /\ accounts[sessions[s].name].plain \in User
           /\ sessions[s].pke = accounts[sessions[s].name].plain.pke
           /\ sessions[s].ds = accounts[sessions[s].name].plain.ds
           /\ sessions[s].master = accounts[sessions[s].name].plain.master
           /\ sessions[s].name = accounts[sessions[s].name].plain.name
<1>1. sessions[s] \in User
  BY ReadTypes
<1>2. accounts[sessions[s].name] # Absent /\ sessions[s].name \in Users
  BY <1>1 DEF Identities, SessionsGenuine, User
<1>3. accounts[sessions[s].name].plain \in User
  BY <1>2 DEF TypeOK, Sealed
<1>4. [sessions[s] EXCEPT !.files = accounts[sessions[s].name].plain.files]
          = accounts[sessions[s].name].plain
  BY DEF Identities, SessionsGenuine
<1> QED
  BY <1>1, <1>2, <1>3, <1>4 DEF User

(* What an account keeps from its creation on. *)
AccountsKept ==
    \A u \in Users : accounts[u] # Absent =>
        /\ accounts'[u] # Absent
        /\ accounts'[u].plain.pke = accounts[u].plain.pke
        /\ accounts'[u].plain.master = accounts[u].plain.master
        /\ keystore'[u] = keystore[u]

(* saveUser changes nothing but the file list of the stored struct.        *)
LEMMA saveUserIdentities ==
    ASSUME TypeOK, Identities, NEW s \in Sessions, NEW f \in Filenames,
           sessions[s] # Absent, saveUser(s, f), keystore' = keystore
    PROVE  Identities' /\ AccountsKept
<1> DEFINE old == sessions[s]
           me  == [old EXCEPT !.files = @ \cup {f}]
<1>1. /\ old \in User
      /\ accounts[old.name] # Absent
      /\ accounts[old.name].plain \in User
      /\ old.pke = accounts[old.name].plain.pke
      /\ old.ds = accounts[old.name].plain.ds
      /\ old.master = accounts[old.name].plain.master
  BY SessionKeys
<1>2. /\ me \in User /\ me.name = old.name /\ me.pke = old.pke /\ me.ds = old.ds
      /\ me.master = old.master
  BY <1>1 DEF User
<1>3. /\ sessions' = [sessions EXCEPT ![s] = me]
      /\ accounts' = [accounts EXCEPT ![me.name] = encryptAndMAC(me, getUserKeys(me.master))]
  BY DEF saveUser
<1>4. encryptAndMAC(me, getUserKeys(me.master)) # Absent
  <2>1. encryptAndMAC(me, getUserKeys(me.master))
            \in [key : {"user"} \X MasterKeys, plain : User]
    BY <1>2 DEF encryptAndMAC, getUserKeys, User
  <2> QED
    BY <2>1, AbsentAssumption
<1> HIDE DEF me
<1>5. /\ accounts'[old.name].plain = me
      /\ accounts'[old.name].key = getUserKeys(me.master)
      /\ accounts'[old.name] # Absent
      /\ \A u \in Users : u # old.name => accounts'[u] = accounts[u]
  BY <1>1, <1>2, <1>3, <1>4 DEF TypeOK, encryptAndMAC, User
<1>6. KeysPublished'
  BY <1>1, <1>2, <1>5 DEF Identities, KeysPublished
<1>7. SessionsGenuine'
  <2>1. ASSUME NEW t \in Sessions, sessions'[t] # Absent
        PROVE  /\ accounts'[sessions'[t].name] # Absent
               /\ [sessions'[t] EXCEPT !.files = accounts'[sessions'[t].name].plain.files]
                      = accounts'[sessions'[t].name].plain
    <3>1. CASE t = s
      <4>1. sessions'[t] = me
        BY <3>1, <1>3 DEF TypeOK
      <4>2. [me EXCEPT !.files = me.files] = me
        BY <1>2 DEF User
      <4> QED
        BY <4>1, <4>2, <1>2, <1>5
    <3>2. CASE t # s
      <4>1. sessions'[t] = sessions[t] /\ sessions[t] # Absent /\ sessions[t] \in User
        BY <2>1, <3>2, <1>3, ReadTypes DEF TypeOK
      <4>2. /\ sessions[t].name \in Users
            /\ accounts[sessions[t].name] # Absent
            /\ accounts[sessions[t].name].plain \in User
            /\ sessions[t].pke = accounts[sessions[t].name].plain.pke
            /\ sessions[t].ds = accounts[sessions[t].name].plain.ds
            /\ sessions[t].master = accounts[sessions[t].name].plain.master
            /\ [sessions[t] EXCEPT !.files = accounts[sessions[t].name].plain.files]
                   = accounts[sessions[t].name].plain
        BY <4>1, SessionKeys DEF User, Identities, SessionsGenuine
      <4>3. CASE sessions[t].name = old.name
        <5>1. [sessions[t] EXCEPT !.files = me.files] = me
          BY <4>1, <4>2, <4>3, <1>1, <1>2 DEF User
        <5> QED
          BY <5>1, <4>1, <4>3, <1>5
      <4>4. CASE sessions[t].name # old.name
        BY <4>1, <4>2, <4>4, <1>5
      <4> QED
        BY <4>3, <4>4
    <3> QED
      BY <3>1, <3>2
  <2> QED
    BY <2>1 DEF SessionsGenuine
<1>8. AccountsKept
  BY <1>1, <1>2, <1>5 DEF AccountsKept
<1> QED
  BY <1>6, <1>7, <1>8 DEF Identities

(* InitUser publishes the keys it stores, and no session can hold a struct *)
(* of a name that was free.                                                *)
LEMMA InitUserIdentities ==
    ASSUME TypeOK, Identities, NEW s \in Sessions, NEW u \in Users,
           NEW pw \in Passwords, InitUser(s, u, pw)
    PROVE  Identities' /\ AccountsKept
<1> DEFINE me == [name |-> u, pke |-> fresh, ds |-> fresh + 1,
                  master |-> <<u, pw>>, files |-> {}]
           pk == [enc |-> fresh, sig |-> fresh + 1]
<1>1. me \in User /\ pk \in PublicKeys
  BY DEF TypeOK, User, PublicKeys, MasterKeys
<1>2. encryptAndMAC(me, getUserKeys(me.master))
          \in [key : {"user"} \X MasterKeys, plain : User]
  BY <1>1 DEF encryptAndMAC, getUserKeys, User
<1>3. encryptAndMAC(me, getUserKeys(me.master)) # Absent /\ pk # Absent
  BY <1>1, <1>2, AbsentAssumption
<1>4. /\ accounts[u] = Absent
      /\ keystore' = [keystore EXCEPT ![u] = pk]
      /\ sessions' = [sessions EXCEPT ![s] = me]
      /\ accounts' = [accounts EXCEPT ![u] = encryptAndMAC(me, getUserKeys(me.master))]
  BY DEF InitUser
<1>5. me.name = u /\ pk = [enc |-> me.pke, sig |-> me.ds]
  OBVIOUS
<1> HIDE DEF me, pk
<1>6. /\ accounts'[u].plain = me
      /\ accounts'[u].key = getUserKeys(me.master)
      /\ accounts'[u] # Absent /\ keystore'[u] = pk /\ keystore'[u] # Absent
      /\ \A v \in Users : v # u => accounts'[v] = accounts[v] /\ keystore'[v] = keystore[v]
  BY <1>3, <1>4 DEF TypeOK, encryptAndMAC
<1>7. KeysPublished'
  BY <1>5, <1>6 DEF Identities, KeysPublished
<1>8. SessionsGenuine'
  <2>1. ASSUME NEW t \in Sessions, sessions'[t] # Absent
        PROVE  /\ accounts'[sessions'[t].name] # Absent
               /\ [sessions'[t] EXCEPT !.files = accounts'[sessions'[t].name].plain.files]
                      = accounts'[sessions'[t].name].plain
    <3>1. CASE t = s
      <4>1. sessions'[t] = me
        BY <3>1, <1>4 DEF TypeOK
      <4>2. [me EXCEPT !.files = me.files] = me
        BY <1>1 DEF User
      <4> QED
        BY <4>1, <4>2, <1>5, <1>6
    <3>2. CASE t # s
      <4>1. sessions'[t] = sessions[t] /\ sessions[t] # Absent /\ sessions[t] \in User
        BY <2>1, <3>2, <1>4, ReadTypes DEF TypeOK
      <4>2. /\ sessions[t].name \in Users
            /\ accounts[sessions[t].name] # Absent
            /\ [sessions[t] EXCEPT !.files = accounts[sessions[t].name].plain.files]
                   = accounts[sessions[t].name].plain
        BY <4>1 DEF User, Identities, SessionsGenuine
      <4> QED
        BY <4>1, <4>2, <1>4, <1>6
    <3> QED
      BY <3>1, <3>2
  <2> QED
    BY <2>1 DEF SessionsGenuine
<1>9. AccountsKept
  BY <1>4, <1>6 DEF AccountsKept
<1> QED
  BY <1>7, <1>8, <1>9 DEF Identities

(* GetUser copies the stored struct.                                       *)
LEMMA GetUserIdentities ==
    ASSUME TypeOK, Identities, NEW s \in Sessions, NEW u \in Users,
           NEW pw \in Passwords, GetUser(s, u, pw)
    PROVE  Identities' /\ AccountsKept
<1>1. /\ accounts[u] # Absent /\ accounts' = accounts /\ keystore' = keystore
      /\ sessions' = [sessions EXCEPT ![s] = accounts[u].plain]
  BY DEF GetUser
<1>2. accounts[u].plain \in User /\ accounts[u].plain.name = u
  BY <1>1 DEF TypeOK, Sealed, Identities, KeysPublished
<1>3. [accounts[u].plain EXCEPT !.files = accounts[u].plain.files] = accounts[u].plain
  BY <1>2 DEF User
<1>4. SessionsGenuine'
  BY <1>1, <1>2, <1>3 DEF TypeOK, Identities, SessionsGenuine
<1>5. KeysPublished' /\ AccountsKept
  BY <1>1 DEF Identities, KeysPublished, AccountsKept
<1> QED
  BY <1>4, <1>5 DEF Identities

(* Every step keeps keys, structs and sessions in agreement.               *)
LEMMA IdentitiesStep ==
    ASSUME TypeOK, Identities, [Next]_vars
    PROVE  Identities' /\ AccountsKept
<1>1. CASE UNCHANGED <<accounts, keystore, sessions>>
  BY <1>1 DEF Identities, KeysPublished, SessionsGenuine, AccountsKept
<1>2. ASSUME NEW s \in Sessions, NEW f \in Filenames, saveUser(s, f),
             sessions[s] # Absent, keystore' = keystore
      PROVE  Identities' /\ AccountsKept
  BY <1>2, saveUserIdentities
<1>3. CASE Next
  <2>1. PICK s \in Sessions :
            \/ \E u \in Users, p \in Passwords : InitUser(s, u, p) \/ GetUser(s, u, p)
            \/ \E f \in Filenames, c \in Contents : StoreFile(s, f, c) \/ AppendToFile(s, f, c)
            \/ \E f \in Filenames, r \in Users :
                   \/ CreateInvitation(s, f, r)
                   \/ CreateInvitationFails(s, f, r)
                   \/ RevokeAccess(s, f, r)
            \/ \E f \in Filenames, u \in Users, p \in DOMAIN invitation :
                   AcceptInvitation(s, u, p, f)
    BY <1>3 DEF Next
  <2>2. CASE \E u \in Users, p \in Passwords : InitUser(s, u, p) \/ GetUser(s, u, p)
    BY <2>2, InitUserIdentities, GetUserIdentities
  <2>3. CASE \E f \in Filenames, c \in Contents : StoreFile(s, f, c)
    BY <2>3, <1>2 DEF StoreFile
  <2>4. CASE \E f \in Filenames, c \in Contents : AppendToFile(s, f, c)
    BY <2>4, <1>1 DEF AppendToFile
  <2>5. CASE \E f \in Filenames, r \in Users :
                 CreateInvitation(s, f, r) \/ CreateInvitationFails(s, f, r)
    BY <2>5, <1>1 DEF CreateInvitation, CreateInvitationFails
  <2>6. CASE \E f \in Filenames, r \in Users : RevokeAccess(s, f, r)
    BY <2>6, <1>2 DEF RevokeAccess
  <2>7. CASE \E f \in Filenames, u \in Users, p \in DOMAIN invitation :
                 AcceptInvitation(s, u, p, f)
    BY <2>7, <1>2 DEF AcceptInvitation
  <2> QED
    BY <2>1, <2>2, <2>3, <2>4, <2>5, <2>6, <2>7
<1> QED
  BY <1>1, <1>3 DEF vars

(* The private keys in every stored user struct and in every session's     *)
(* copy of it are the halves of the published keys, and no saveUser from a *)
(* stale session ever changes that.                                        *)
THEOREM KeysAgree == Spec => [](KeysPublished /\ SessionsGenuine)
<1>1. Init => Identities
  BY DEF Init, Identities, KeysPublished, SessionsGenuine
<1>2. TypeOK /\ Identities /\ [Next]_vars => Identities'
  BY IdentitiesStep
<1>3. Identities => KeysPublished /\ SessionsGenuine
  BY DEF Identities
<1> QED
  BY <1>1, <1>2, <1>3, TypeCorrect, PTL DEF Spec

(* A name has public keys exactly when it has a user struct, and the       *)
(* struct holds the private halves (InitUser, saveUser).                   *)
THEOREM KeysArePublished == Spec => []KeysPublished
<1>1. KeysPublished /\ SessionsGenuine => KeysPublished
  OBVIOUS
<1> QED
  BY <1>1, KeysAgree, PTL

-----------------------------------------------------------------------------
(* Fresh numbers name nothing yet, and what a mailbox opens under and leads *)
(* to never changes.                                                        *)

FreshUnused ==
    /\ \A m \in DOMAIN mailbox : m < fresh /\ mailbox[m].plain.fileKey < fresh
    /\ \A i \in DOMAIN inode : i < fresh
    /\ \A b \in DOMAIN block : b < fresh
    /\ \A p \in DOMAIN invitation : p < fresh

MailboxesKept ==
    /\ DOMAIN inode \subseteq DOMAIN inode'
    /\ \A m \in DOMAIN mailbox :
           /\ m \in DOMAIN mailbox'
           /\ mailbox'[m].key = mailbox[m].key
           /\ mailbox'[m].plain.inode = mailbox[m].plain.inode

(* What a store holds after one Set,                                       *)
LEMMA PutFacts ==
    ASSUME NEW st, NEW id, NEW r
    PROVE  /\ DOMAIN Put(st, id, r) = DOMAIN st \cup {id}
           /\ Put(st, id, r)[id] = r
           /\ \A x \in DOMAIN st : x # id => Put(st, id, r)[x] = st[x]
  BY DEF Put, PutAll

(* after several,                                                          *)
LEMMA PutAllFacts ==
    ASSUME NEW st, NEW new
    PROVE  /\ DOMAIN PutAll(st, new) = DOMAIN st \cup DOMAIN new
           /\ \A x \in DOMAIN new : PutAll(st, new)[x] = new[x]
           /\ \A x \in DOMAIN st : x \notin DOMAIN new => PutAll(st, new)[x] = st[x]
  BY DEF PutAll

(* and after a block loop: old blocks stay, new ones get new UUIDs.        *)
LEMMA NewBlocksFacts ==
    ASSUME NEW c \in Contents, NEW k \in Nat, NEW id \in Nat
    PROVE  LET cs == ByteToBlock(c)
           IN  /\ Len(cs) \in Nat
               /\ DOMAIN NewBlocks(cs, k, id) = id..(id + Len(cs) - 1)
               /\ \A b \in DOMAIN NewBlocks(cs, k, id) :
                      NewBlocks(cs, k, id)[b].key = getFileKeys(k)
               /\ DOMAIN BlockUUIDs(cs, id) = 1..Len(cs)
               /\ \A n \in 1..Len(cs) : BlockUUIDs(cs, id)[n] = id + n - 1
<1>1. Len(ByteToBlock(c)) \in Nat
  BY NewBlocksType
<1> QED
  BY <1>1 DEF NewBlocks, BlockUUIDs, encryptAndMAC

(* StoreFile uses numbers from fresh on and touches no old mailbox or      *)
(* inode.                                                                  *)
LEMMA StoreFileFresh ==
    ASSUME TypeOK, FreshUnused, NEW s \in Sessions, NEW f \in Filenames,
           NEW c \in Contents, StoreFile(s, f, c)
    PROVE  FreshUnused' /\ MailboxesKept
<1> DEFINE cs == ByteToBlock(c)
<1>1. fresh \in Nat /\ fresh + 4 \in Nat /\ Len(cs) \in Nat
  BY NewBlocksType DEF TypeOK
<1>2. /\ DOMAIN mailbox' = DOMAIN mailbox \cup {fresh + 2}
      /\ mailbox'[fresh + 2].plain = [fileKey |-> fresh, inode |-> fresh + 1]
      /\ \A m \in DOMAIN mailbox : m # fresh + 2 => mailbox'[m] = mailbox[m]
      /\ DOMAIN inode' = DOMAIN inode \cup {fresh + 1}
  <2>1. /\ mailbox' = Put(mailbox, fresh + 2,
                         encryptAndMAC([fileKey |-> fresh, inode |-> fresh + 1],
                                       getMailKeys(fresh + 3)))
        /\ \E r : inode' = Put(inode, fresh + 1, r)
    BY DEF StoreFile
  <2>2. encryptAndMAC([fileKey |-> fresh, inode |-> fresh + 1],
                      getMailKeys(fresh + 3)).plain
            = [fileKey |-> fresh, inode |-> fresh + 1]
    BY DEF encryptAndMAC
  <2> QED
    BY <2>1, <2>2 DEF Put, PutAll
<1>3. DOMAIN block' = DOMAIN block \cup (fresh + 4)..(fresh + 4 + Len(cs) - 1)
  <2>1. DOMAIN NewBlocks(cs, fresh, fresh + 4) = (fresh + 4)..(fresh + 4 + Len(cs) - 1)
    BY <1>1, NewBlocksFacts
  <2>2. block' = PutAll(block, NewBlocks(cs, fresh, fresh + 4))
    BY DEF StoreFile
  <2> QED
    BY <2>1, <2>2, PutAllFacts, Zenon
<1>4. fresh' = fresh + 4 + Len(cs) /\ invitation' = invitation
  BY DEF StoreFile
<1>5. \A m \in DOMAIN mailbox : m \in Nat /\ m < fresh /\ mailbox[m].plain.fileKey \in Nat
                                /\ mailbox[m].plain.fileKey < fresh
  BY DEF TypeOK, IsStore, Sealed, MailboxNode, FreshUnused
<1>6. /\ \A i \in DOMAIN inode : i \in Nat /\ i < fresh
      /\ \A b \in DOMAIN block : b \in Nat /\ b < fresh
      /\ \A p \in DOMAIN invitation : p \in Nat /\ p < fresh
  BY DEF TypeOK, IsStore, FreshUnused
<1> HIDE DEF cs
<1>7. MailboxesKept
  BY <1>1, <1>2, <1>5 DEF MailboxesKept
<1>8. FreshUnused'
  BY <1>1, <1>2, <1>3, <1>4, <1>5, <1>6 DEF FreshUnused
<1> QED
  BY <1>7, <1>8

(* AppendToFile touches no mailbox and no other inode.                     *)
LEMMA AppendToFileFresh ==
    ASSUME TypeOK, FreshUnused, NEW s \in Sessions, NEW f \in Filenames,
           NEW c \in Contents, AppendToFile(s, f, c)
    PROVE  FreshUnused' /\ MailboxesKept
<1> DEFINE cs == ByteToBlock(c)
           node == MailboxOf(sessions[s], f)
<1>1. /\ fresh \in Nat /\ Len(cs) \in Nat /\ node.fileKey \in Nat
      /\ node.inode \in DOMAIN inode
  BY NewBlocksType, OpensFileTypes DEF TypeOK, AppendToFile, MailboxNode
<1>2. DOMAIN inode' = DOMAIN inode
  <2>1. \E r : inode' = Put(inode, node.inode, r)
    BY DEF AppendToFile
  <2> QED
    BY <1>1, <2>1 DEF Put, PutAll
<1>3. DOMAIN block' = DOMAIN block \cup fresh..(fresh + Len(cs) - 1)
  <2>1. DOMAIN NewBlocks(cs, node.fileKey, fresh) = fresh..(fresh + Len(cs) - 1)
    BY <1>1, NewBlocksFacts
  <2>2. block' = PutAll(block, NewBlocks(cs, node.fileKey, fresh))
    BY DEF AppendToFile
  <2> QED
    BY <2>1, <2>2, PutAllFacts, Zenon
<1>4. fresh' = fresh + Len(cs) /\ UNCHANGED <<mailbox, invitation>>
  BY DEF AppendToFile
<1>5. \A m \in DOMAIN mailbox : mailbox[m].plain.fileKey \in Nat
  BY DEF TypeOK, IsStore, Sealed, MailboxNode
<1>6. /\ DOMAIN mailbox \subseteq Nat /\ DOMAIN inode \subseteq Nat
      /\ DOMAIN block \subseteq Nat /\ DOMAIN invitation \subseteq Nat
  BY DEF TypeOK, IsStore
<1> HIDE DEF cs, node
<1> QED
  BY <1>1, <1>2, <1>3, <1>4, <1>5, <1>6 DEF FreshUnused, MailboxesKept

(* Either outcome of CreateInvitation adds one mailbox, a copy of the      *)
(* sender's.                                                               *)
LEMMA InviteFresh ==
    ASSUME TypeOK, FreshUnused, NEW s \in Sessions, NEW f \in Filenames,
           NEW r \in Users, CreateInvitation(s, f, r) \/ CreateInvitationFails(s, f, r)
    PROVE  /\ FreshUnused' /\ MailboxesKept
           /\ DOMAIN mailbox' = DOMAIN mailbox \cup {fresh}
           /\ fresh \notin DOMAIN mailbox
           /\ mailbox'[fresh].key = getMailKeys(fresh + 1)
           /\ mailbox'[fresh].plain = MailboxOf(sessions[s], f)
           /\ AccessOf(sessions[s], f).box.uuid \in DOMAIN mailbox
           /\ \A m \in DOMAIN mailbox : mailbox'[m] = mailbox[m]
<1> DEFINE own == AccessOf(sessions[s], f).box.uuid
<1>1. /\ fresh \in Nat /\ own \in DOMAIN mailbox
      /\ MailboxOf(sessions[s], f) = mailbox[own].plain
  BY DEF TypeOK, CreateInvitation, CreateInvitationFails, CanInvite, OpensMailbox, MailboxOf
<1>2. /\ DOMAIN mailbox' = DOMAIN mailbox \cup {fresh}
      /\ mailbox'[fresh] = RecipientMailbox(sessions[s], f)
      /\ \A m \in DOMAIN mailbox : m # fresh => mailbox'[m] = mailbox[m]
      /\ inode' = inode /\ block' = block
  <2>1. /\ mailbox' = Put(mailbox, fresh, RecipientMailbox(sessions[s], f))
        /\ inode' = inode /\ block' = block
    BY DEF CreateInvitation, CreateInvitationFails
  <2> QED
    BY <2>1 DEF Put, PutAll
<1>3. /\ mailbox'[fresh].key = getMailKeys(fresh + 1)
      /\ mailbox'[fresh].plain = mailbox[own].plain
  BY <1>1, <1>2 DEF RecipientMailbox, encryptAndMAC
<1>4. /\ fresh' \in {fresh + 2, fresh + 3}
      /\ \A p \in DOMAIN invitation' : p \in DOMAIN invitation \/ p + 1 = fresh'
  <2>1. CASE CreateInvitation(s, f, r)
    <3>1. fresh' = fresh + 3 /\ \E v : invitation' = Put(invitation, fresh + 2, v)
      BY <2>1 DEF CreateInvitation
    <3>2. DOMAIN invitation' = DOMAIN invitation \cup {fresh + 2}
      BY <3>1, PutFacts, Zenon
    <3> QED
      BY <3>1, <3>2, <1>1
  <2>2. CASE CreateInvitationFails(s, f, r)
    BY <2>2 DEF CreateInvitationFails
  <2> QED
    BY <2>1, <2>2
<1>5. \A m \in DOMAIN mailbox : m \in Nat /\ m < fresh /\ mailbox[m].plain.fileKey \in Nat
                                /\ mailbox[m].plain.fileKey < fresh
  BY DEF TypeOK, IsStore, Sealed, MailboxNode, FreshUnused
<1>6. /\ \A i \in DOMAIN inode : i \in Nat /\ i < fresh
      /\ \A b \in DOMAIN block : b \in Nat /\ b < fresh
      /\ \A p \in DOMAIN invitation : p \in Nat /\ p < fresh
  BY DEF TypeOK, IsStore, FreshUnused
<1>7. \A p \in DOMAIN invitation' : p < fresh'
  <2>1. IsStore(invitation', Invitation)
    BY CreateInvitationType, CreateInvitationFailsType DEF TypeOK
  <2> QED
    BY <2>1, <1>1, <1>4, <1>6 DEF IsStore
<1>8. fresh \notin DOMAIN mailbox /\ \A m \in DOMAIN mailbox : mailbox'[m] = mailbox[m]
  BY <1>1, <1>2, <1>5
<1>9. FreshUnused'
  BY <1>1, <1>2, <1>3, <1>4, <1>5, <1>6, <1>7, <1>8 DEF FreshUnused
<1> QED
  BY <1>1, <1>2, <1>3, <1>8, <1>9 DEF MailboxesKept

(* What RevokeAccess does to mailboxes and inodes: exactly the remaining   *)
(* children and the caller's new mailbox get the new file key.             *)
LEMMA RevokeFacts ==
    ASSUME TypeOK, FreshUnused, NEW s \in Sessions, NEW f \in Filenames,
           NEW r \in Users, RevokeAccess(s, f, r)
    PROVE  LET me   == sessions[s]
               acc  == AccessOf(me, f)
               node == MailboxOf(me, f)
               kept == RemainingBoxes(acc.children, r)
           IN  /\ DOMAIN mailbox' = DOMAIN mailbox \cup {fresh + 2}
               /\ fresh + 2 \notin DOMAIN mailbox
               /\ mailbox'[fresh + 2].key = getMailKeys(fresh + 1)
               /\ mailbox'[fresh + 2].plain = [fileKey |-> fresh, inode |-> node.inode]
               /\ \A m \in DOMAIN mailbox :
                      /\ mailbox'[m].key = mailbox[m].key
                      /\ mailbox'[m].plain.inode = mailbox[m].plain.inode
                      /\ mailbox'[m].plain.fileKey = IF m \in kept THEN fresh
                                                     ELSE mailbox[m].plain.fileKey
               /\ node.inode \in DOMAIN inode
               /\ DOMAIN inode' = DOMAIN inode
               /\ inode'[node.inode].key = getFileKeys(fresh)
               /\ inode'[node.inode].plain = inode[node.inode].plain
               /\ \A i \in DOMAIN inode : i # node.inode => inode'[i] = inode[i]
<1> DEFINE me   == sessions[s]
           acc  == AccessOf(me, f)
           node == MailboxOf(me, f)
           kept == RemainingBoxes(acc.children, r)
           rec  == encryptAndMAC([fileKey |-> fresh, inode |-> node.inode],
                                 getMailKeys(fresh + 1))
<1>1. /\ mailbox' = Put(ReKeyed(kept, fresh), fresh + 2, rec)
      /\ inode' = Put(inode, node.inode,
                      encryptAndMAC(InodeOf(me, f), getFileKeys(fresh)))
  BY DEF RevokeAccess
<1>2. fresh \in Nat /\ \A m \in DOMAIN mailbox : m \in Nat /\ m < fresh
  BY DEF TypeOK, IsStore, FreshUnused
<1>3. fresh + 2 \notin DOMAIN mailbox
  BY <1>2
<1>4. /\ rec.key = getMailKeys(fresh + 1)
      /\ rec.plain = [fileKey |-> fresh, inode |-> node.inode]
  BY DEF encryptAndMAC
<1>5. /\ DOMAIN ReKeyed(kept, fresh) = DOMAIN mailbox
      /\ \A m \in DOMAIN mailbox :
             LET new == ReKeyed(kept, fresh)[m]
             IN  /\ new.key = mailbox[m].key
                 /\ new.plain.inode = mailbox[m].plain.inode
                 /\ new.plain.fileKey = IF m \in kept THEN fresh
                                        ELSE mailbox[m].plain.fileKey
  <2>1. DOMAIN ReKeyed(kept, fresh) = DOMAIN mailbox
    BY DEF ReKeyed
  <2>2. ASSUME NEW m \in DOMAIN mailbox
        PROVE  LET new == ReKeyed(kept, fresh)[m]
               IN  /\ new.key = mailbox[m].key
                   /\ new.plain.inode = mailbox[m].plain.inode
                   /\ new.plain.fileKey = IF m \in kept THEN fresh
                                          ELSE mailbox[m].plain.fileKey
    <3>1. mailbox[m].plain \in MailboxNode
      BY DEF TypeOK, IsStore, Sealed
    <3>2. CASE m \in kept
      <4>1. ReKeyed(kept, fresh)[m]
                = [key |-> mailbox[m].key,
                   plain |-> [mailbox[m].plain EXCEPT !.fileKey = fresh]]
        BY <3>2 DEF ReKeyed, encryptAndMAC
      <4> QED
        BY <4>1, <3>1, <3>2 DEF MailboxNode
    <3>3. CASE m \notin kept
      BY <3>3 DEF ReKeyed
    <3> QED
      BY <3>2, <3>3
  <2> QED
    BY <2>1, <2>2
<1>6. node.inode \in DOMAIN inode /\ InodeOf(me, f) = inode[node.inode].plain
  BY DEF RevokeAccess, OpensFile, OpensInode, InodeOf
<1>7. /\ encryptAndMAC(InodeOf(me, f), getFileKeys(fresh)).key = getFileKeys(fresh)
      /\ encryptAndMAC(InodeOf(me, f), getFileKeys(fresh)).plain = InodeOf(me, f)
  BY DEF encryptAndMAC
<1> HIDE DEF rec, kept, node, acc, me
<1>8. /\ DOMAIN mailbox' = DOMAIN mailbox \cup {fresh + 2}
      /\ mailbox'[fresh + 2] = rec
      /\ \A m \in DOMAIN mailbox : mailbox'[m] = ReKeyed(kept, fresh)[m]
  BY <1>1, <1>3, <1>5 DEF Put, PutAll
<1>9. /\ DOMAIN inode' = DOMAIN inode
      /\ inode'[node.inode].key = getFileKeys(fresh)
      /\ inode'[node.inode].plain = inode[node.inode].plain
      /\ \A i \in DOMAIN inode : i # node.inode => inode'[i] = inode[i]
  BY <1>1, <1>6, <1>7 DEF Put, PutAll
<1> USE DEF kept, node, acc, me
<1> QED
  BY <1>3, <1>4, <1>5, <1>6, <1>8, <1>9

(* RevokeAccess keeps FreshUnused.                                         *)
LEMMA RevokeFresh ==
    ASSUME TypeOK, FreshUnused, NEW s \in Sessions, NEW f \in Filenames,
           NEW r \in Users, RevokeAccess(s, f, r)
    PROVE  FreshUnused' /\ MailboxesKept
<1>1. fresh \in Nat /\ fresh' = fresh + 3 /\ invitation' = invitation
  BY DEF TypeOK, RevokeAccess
<1>2. DOMAIN block' = DOMAIN block
  BY DEF RevokeAccess, ReEncrypted
<1>3. \A m \in DOMAIN mailbox : m \in Nat /\ m < fresh /\ mailbox[m].plain.fileKey \in Nat
                                /\ mailbox[m].plain.fileKey < fresh
  BY DEF TypeOK, IsStore, Sealed, MailboxNode, FreshUnused
<1>4. /\ \A i \in DOMAIN inode : i \in Nat /\ i < fresh
      /\ \A b \in DOMAIN block : b \in Nat /\ b < fresh
      /\ \A p \in DOMAIN invitation : p \in Nat /\ p < fresh
  BY DEF TypeOK, IsStore, FreshUnused
<1>5. /\ DOMAIN mailbox' = DOMAIN mailbox \cup {fresh + 2}
      /\ mailbox'[fresh + 2].plain.fileKey = fresh
      /\ \A m \in DOMAIN mailbox :
             /\ mailbox'[m].key = mailbox[m].key
             /\ mailbox'[m].plain.inode = mailbox[m].plain.inode
             /\ mailbox'[m].plain.fileKey \in {fresh, mailbox[m].plain.fileKey}
      /\ DOMAIN inode' = DOMAIN inode
  <2> DEFINE node == MailboxOf(sessions[s], f)
             kept == RemainingBoxes(AccessOf(sessions[s], f).children, r)
  <2>1. /\ DOMAIN mailbox' = DOMAIN mailbox \cup {fresh + 2}
        /\ mailbox'[fresh + 2].plain = [fileKey |-> fresh, inode |-> node.inode]
        /\ \A m \in DOMAIN mailbox :
               /\ mailbox'[m].key = mailbox[m].key
               /\ mailbox'[m].plain.inode = mailbox[m].plain.inode
               /\ mailbox'[m].plain.fileKey = IF m \in kept THEN fresh
                                              ELSE mailbox[m].plain.fileKey
        /\ DOMAIN inode' = DOMAIN inode
    BY RevokeFacts, Zenon
  <2> HIDE DEF node, kept
  <2> QED
    BY <2>1
<1>6. MailboxesKept
  BY <1>5 DEF MailboxesKept
<1>7. FreshUnused'
  BY <1>1, <1>2, <1>3, <1>4, <1>5 DEF FreshUnused
<1> QED
  BY <1>6, <1>7

(* Every step keeps FreshUnused, and every mailbox keeps its key and its   *)
(* inode.                                                                  *)
LEMMA FreshStep ==
    ASSUME TypeOK, FreshUnused, [Next]_vars
    PROVE  FreshUnused' /\ MailboxesKept
<1>1. CASE UNCHANGED <<mailbox, inode, block, invitation>> /\ fresh' \in {fresh, fresh + 2}
  <2>1. fresh \in Nat
    BY DEF TypeOK
  <2>2. /\ \A m \in DOMAIN mailbox : m \in Nat /\ mailbox[m].plain.fileKey \in Nat
        /\ \A i \in DOMAIN inode : i \in Nat
        /\ \A b \in DOMAIN block : b \in Nat
        /\ \A p \in DOMAIN invitation : p \in Nat
    BY DEF TypeOK, IsStore, Sealed, MailboxNode
  <2> QED
    BY <1>1, <2>1, <2>2 DEF FreshUnused, MailboxesKept
<1>2. CASE UNCHANGED vars
  BY <1>1, <1>2 DEF vars
<1>3. CASE Next
  <2>1. CASE \E s \in Sessions, u \in Users, p \in Passwords : InitUser(s, u, p) \/ GetUser(s, u, p)
    BY <1>1, <2>1 DEF InitUser, GetUser
  <2>2. CASE \E s \in Sessions, f \in Filenames, u \in Users, p \in DOMAIN invitation :
                 AcceptInvitation(s, u, p, f)
    BY <1>1, <2>2 DEF AcceptInvitation
  <2> QED
    BY <1>3, <2>1, <2>2, StoreFileFresh, AppendToFileFresh, InviteFresh, RevokeFresh
       DEF Next
<1> QED
  BY <1>2, <1>3

-----------------------------------------------------------------------------
(* Pointers: every access record and every invitation opens its mailboxes. *)

(* What SlotsOpen says of the contents of an access record, given the state *)
(* mb of the mailboxes.                                                     *)
OpensIn(mb, p) == p.uuid \in DOMAIN mb /\ mb[p.uuid].key = getMailKeys(p.key)

PointersOpen(mb, acc) ==
    /\ OpensIn(mb, acc.box)
    /\ \A c \in Users :
           acc.children[c] # Absent =>
               /\ OpensIn(mb, acc.children[c])
               /\ mb[acc.children[c].uuid].plain.inode = mb[acc.box.uuid].plain.inode

(* SlotsOpen in terms of the mailboxes an access record is read with,      *)
LEMMA SlotsOpenDef ==
    SlotsOpen <=>
        \A u \in Users, f \in Filenames :
            access[<<u, f>>] # Absent =>
                /\ accounts[u] # Absent
                /\ access[<<u, f>>].key = getPersonalKey(accounts[u].plain.master, f)
                /\ PointersOpen(mailbox, access[<<u, f>>].plain)
  BY DEF SlotsOpen, PointersOpen, OpensIn, OpensMailbox, decrypts

(* and the same after a step.                                              *)
LEMMA SlotsOpenDefPrime ==
    SlotsOpen' <=>
        \A u \in Users, f \in Filenames :
            access'[<<u, f>>] # Absent =>
                /\ accounts'[u] # Absent
                /\ access'[<<u, f>>].key = getPersonalKey(accounts'[u].plain.master, f)
                /\ PointersOpen(mailbox', access'[<<u, f>>].plain)
  BY DEF SlotsOpen, PointersOpen, OpensIn, OpensMailbox, decrypts

(* Pointers that open keep opening while mailboxes keep keys and inodes.   *)
LEMMA PointersKept ==
    ASSUME MailboxesKept, NEW acc, PointersOpen(mailbox, acc)
    PROVE  PointersOpen(mailbox', acc)
  BY DEF PointersOpen, OpensIn, MailboxesKept

(* A step that leaves access records alone keeps SlotsOpen.                *)
LEMMA SlotsKept ==
    ASSUME SlotsOpen, MailboxesKept, AccountsKept, access' = access
    PROVE  SlotsOpen'
<1>1. ASSUME NEW u \in Users, NEW f \in Filenames, access[<<u, f>>] # Absent
      PROVE  /\ accounts'[u] # Absent
             /\ access'[<<u, f>>].key = getPersonalKey(accounts'[u].plain.master, f)
             /\ PointersOpen(mailbox', access'[<<u, f>>].plain)
  <2>1. /\ accounts[u] # Absent /\ access'[<<u, f>>] = access[<<u, f>>]
        /\ access[<<u, f>>].key = getPersonalKey(accounts[u].plain.master, f)
        /\ PointersOpen(mailbox, access[<<u, f>>].plain)
    BY <1>1, SlotsOpenDef
  <2>2. accounts'[u] # Absent /\ accounts'[u].plain.master = accounts[u].plain.master
    BY <2>1 DEF AccountsKept
  <2>3. PointersOpen(mailbox', access'[<<u, f>>].plain)
    BY <2>1, PointersKept
  <2> QED
    BY <2>1, <2>2, <2>3
<1> QED
  BY <1>1, SlotsOpenDefPrime

(* So does one that writes one record whose pointers open.                 *)
LEMMA SlotUpdate ==
    ASSUME TypeOK, SlotsOpen, MailboxesKept, AccountsKept,
           NEW me \in User, NEW f \in Filenames, NEW acc \in Access,
           accounts[me.name] # Absent,
           me.master = accounts[me.name].plain.master,
           access' = [access EXCEPT ![Slot(me, f)] =
                          encryptAndMAC(acc, getPersonalKey(me.master, f))],
           PointersOpen(mailbox', acc)
    PROVE  SlotsOpen'
<1>1. ASSUME NEW u \in Users, NEW g \in Filenames, access'[<<u, g>>] # Absent
      PROVE  /\ accounts'[u] # Absent
             /\ access'[<<u, g>>].key = getPersonalKey(accounts'[u].plain.master, g)
             /\ PointersOpen(mailbox', access'[<<u, g>>].plain)
  <2>1. CASE <<u, g>> = Slot(me, f)
    <3>1. u = me.name /\ g = f
      BY <2>1 DEF Slot
    <3>2. access'[<<u, g>>] = encryptAndMAC(acc, getPersonalKey(me.master, f))
      BY <2>1 DEF TypeOK, Slots
    <3>3. access'[<<u, g>>].plain = acc
          /\ access'[<<u, g>>].key = getPersonalKey(me.master, f)
      BY <3>2 DEF encryptAndMAC
    <3>4. accounts'[u] # Absent /\ accounts'[u].plain.master = me.master
      BY <3>1 DEF AccountsKept
    <3>5. PointersOpen(mailbox', access'[<<u, g>>].plain)
      BY <3>3
    <3> QED
      BY <3>1, <3>3, <3>4, <3>5
  <2>2. CASE <<u, g>> # Slot(me, f)
    <3>1. access'[<<u, g>>] = access[<<u, g>>]
      BY <2>2 DEF TypeOK, Slots
    <3>2. /\ accounts[u] # Absent
          /\ access[<<u, g>>].key = getPersonalKey(accounts[u].plain.master, g)
          /\ PointersOpen(mailbox, access[<<u, g>>].plain)
      BY <1>1, <3>1, SlotsOpenDef
    <3>3. accounts'[u] # Absent /\ accounts'[u].plain.master = accounts[u].plain.master
      BY <3>2 DEF AccountsKept
    <3>4. PointersOpen(mailbox', access'[<<u, g>>].plain)
      BY <3>1, <3>2, PointersKept
    <3> QED
      BY <3>1, <3>2, <3>3, <3>4
  <2> QED
    BY <2>1, <2>2
<1> QED
  BY <1>1, SlotsOpenDefPrime

(* StoreFile's new access record opens the mailbox it has just stored.     *)
LEMMA StoreFileLinks ==
    ASSUME TypeOK, FreshUnused, Identities, LinksOpen,
           MailboxesKept, AccountsKept,
           NEW s \in Sessions, NEW f \in Filenames, NEW c \in Contents,
           StoreFile(s, f, c)
    PROVE  SlotsOpen'
<1> DEFINE me  == sessions[s]
           box == [uuid |-> fresh + 2, key |-> fresh + 3]
           acc == [box |-> box, children |-> NoChildren]
           rec == encryptAndMAC([fileKey |-> fresh, inode |-> fresh + 1],
                                getMailKeys(box.key))
<1>1. /\ me \in User /\ accounts[me.name] # Absent
      /\ me.master = accounts[me.name].plain.master
  BY SessionKeys DEF StoreFile
<1>2. acc \in Access
  BY DEF TypeOK, Access, Children, NoChildren, Pointer
<1>3. mailbox' = Put(mailbox, box.uuid, rec) /\ rec.key = getMailKeys(box.key)
  BY DEF StoreFile, encryptAndMAC
<1>4. box.uuid \in DOMAIN mailbox' /\ mailbox'[box.uuid].key = getMailKeys(box.key)
  BY <1>3 DEF Put, PutAll
<1>5. PointersOpen(mailbox', acc)
  BY <1>4 DEF PointersOpen, OpensIn, NoChildren
<1>6. access' = [access EXCEPT ![Slot(me, f)] =
                     encryptAndMAC(acc, getPersonalKey(me.master, f))]
  BY DEF StoreFile
<1> QED
  BY <1>1, <1>2, <1>5, <1>6, SlotUpdate DEF LinksOpen

(* The child CreateInvitation records opens and leads to the sender's      *)
(* file.                                                                   *)
LEMMA CreateInvitationLinks ==
    ASSUME TypeOK, FreshUnused, Identities, LinksOpen,
           MailboxesKept, AccountsKept,
           NEW s \in Sessions, NEW f \in Filenames, NEW r \in Users,
           CreateInvitation(s, f, r)
    PROVE  SlotsOpen'
<1> DEFINE me  == sessions[s]
           old == AccessOf(me, f)
           box == [uuid |-> fresh, key |-> fresh + 1]
           acc == WithChild(old, r, box)
<1>1. /\ me \in User /\ accounts[me.name] # Absent
      /\ me.master = accounts[me.name].plain.master
  BY SessionKeys DEF CreateInvitation, CanInvite
<1>2. old \in Access /\ box \in Pointer
  BY InviteType DEF CreateInvitation
<1>3. /\ acc \in Access /\ acc.box = old.box /\ acc.children[r] = box
      /\ \A d \in Users : d # r => acc.children[d] = old.children[d]
  BY <1>2 DEF WithChild, Access, Children
<1>4. PointersOpen(mailbox, old)
  <2>1. me.name \in Users /\ access[<<me.name, f>>] # Absent
        /\ old = access[<<me.name, f>>].plain
    BY <1>1 DEF User, CreateInvitation, CanInvite, OpensAccess, AccessOf, Slot
  <2> QED
    BY <2>1, SlotsOpenDef DEF LinksOpen
<1>5. /\ fresh \in DOMAIN mailbox'
      /\ mailbox'[fresh].key = getMailKeys(fresh + 1)
      /\ mailbox'[fresh].plain = mailbox[old.box.uuid].plain
      /\ old.box.uuid \in DOMAIN mailbox
      /\ \A m \in DOMAIN mailbox : m \in DOMAIN mailbox' /\ mailbox'[m] = mailbox[m]
  BY InviteFresh DEF MailboxOf
<1> HIDE DEF acc, old, me
<1>6. PointersOpen(mailbox', acc)
  BY <1>3, <1>4, <1>5 DEF PointersOpen, OpensIn
<1> USE DEF acc, old, me
<1>7. access' = [access EXCEPT ![Slot(me, f)] =
                     encryptAndMAC(acc, getPersonalKey(me.master, f))]
  BY DEF CreateInvitation
<1> HIDE DEF acc, old, me
<1> QED
  BY <1>1, <1>3, <1>6, <1>7, SlotUpdate DEF LinksOpen

(* The access record AcceptInvitation writes opens the invitation's        *)
(* mailbox.                                                                *)
LEMMA AcceptInvitationLinks ==
    ASSUME TypeOK, FreshUnused, Identities, LinksOpen,
           MailboxesKept, AccountsKept,
           NEW s \in Sessions, NEW f \in Filenames, NEW u \in Users,
           NEW p \in DOMAIN invitation, AcceptInvitation(s, u, p, f)
    PROVE  SlotsOpen'
<1> DEFINE me  == sessions[s]
           acc == [box |-> invitation[p].box, children |-> NoChildren]
<1>1. /\ me \in User /\ accounts[me.name] # Absent
      /\ me.master = accounts[me.name].plain.master
  BY SessionKeys DEF AcceptInvitation
<1>2. acc \in Access
  BY DEF TypeOK, IsStore, Invitation, Access, Children, NoChildren
<1>3. OpensIn(mailbox, invitation[p].box)
  BY DEF LinksOpen, InvitationsOpen, OpensMailbox, decrypts, OpensIn
<1>4. PointersOpen(mailbox, acc)
  BY <1>3 DEF PointersOpen, NoChildren
<1>5. PointersOpen(mailbox', acc)
  BY <1>4, PointersKept
<1>6. access' = [access EXCEPT ![Slot(me, f)] =
                     encryptAndMAC(acc, getPersonalKey(me.master, f))]
  BY DEF AcceptInvitation
<1> HIDE DEF acc, me
<1> QED
  BY <1>1, <1>2, <1>5, <1>6, SlotUpdate DEF LinksOpen

(* RevokeAccess' new record opens the new mailbox; the remaining children  *)
(* still open.                                                             *)
LEMMA RevokeAccessLinks ==
    ASSUME TypeOK, FreshUnused, Identities, LinksOpen,
           MailboxesKept, AccountsKept,
           NEW s \in Sessions, NEW f \in Filenames, NEW r \in Users,
           RevokeAccess(s, f, r)
    PROVE  SlotsOpen'
<1> DEFINE me  == sessions[s]
           old == AccessOf(me, f)
           box == [uuid |-> fresh + 2, key |-> fresh + 1]
           acc == WithoutChild(old, r, box)
<1>1. /\ me \in User /\ accounts[me.name] # Absent
      /\ me.master = accounts[me.name].plain.master
  BY SessionKeys DEF RevokeAccess
<1>2. old \in Access /\ box \in Pointer
  <2>1. old \in Access
    BY OpensFileTypes DEF RevokeAccess
  <2>2. fresh + 1 \in Nat /\ fresh + 2 \in Nat
    BY DEF TypeOK
  <2> QED
    BY <2>1, <2>2 DEF Pointer
<1>3. /\ acc \in Access /\ acc.box = box /\ acc.children[r] = Absent
      /\ \A d \in Users : d # r => acc.children[d] = old.children[d]
  BY <1>2 DEF WithoutChild, Access, Children
<1>4. PointersOpen(mailbox, old)
  <2>1. me.name \in Users /\ access[<<me.name, f>>] # Absent
        /\ old = access[<<me.name, f>>].plain
    BY <1>1 DEF User, RevokeAccess, OpensFile, OpensAccess, AccessOf, Slot
  <2> QED
    BY <2>1, SlotsOpenDef DEF LinksOpen
<1>5. PointersOpen(mailbox', old)
  BY <1>4, PointersKept
<1>6. /\ fresh + 2 \in DOMAIN mailbox'
      /\ mailbox'[fresh + 2].key = getMailKeys(fresh + 1)
      /\ mailbox'[fresh + 2].plain.inode = mailbox'[old.box.uuid].plain.inode
  <2>1. /\ fresh + 2 \in DOMAIN mailbox'
        /\ mailbox'[fresh + 2].key = getMailKeys(fresh + 1)
        /\ mailbox'[fresh + 2].plain
               = [fileKey |-> fresh, inode |-> mailbox[old.box.uuid].plain.inode]
    BY RevokeFacts DEF MailboxOf
  <2>2. mailbox'[old.box.uuid].plain.inode = mailbox[old.box.uuid].plain.inode
    BY <1>4 DEF PointersOpen, OpensIn, MailboxesKept
  <2> QED
    BY <2>1, <2>2
<1>7. access' = [access EXCEPT ![Slot(me, f)] =
                     encryptAndMAC(acc, getPersonalKey(me.master, f))]
  BY DEF RevokeAccess
<1> HIDE DEF acc, old, me
<1>8. PointersOpen(mailbox', acc)
  BY <1>3, <1>5, <1>6 DEF PointersOpen, OpensIn
<1> QED
  BY <1>1, <1>3, <1>7, <1>8, SlotUpdate DEF LinksOpen

(* The recipient of a new invitation is registered and its signer's key is *)
(* published; older invitations keep both.                                 *)
InvitationOpens(mb, accts, keys, inv) ==
    /\ OpensIn(mb, inv.box)
    /\ \E u \in Users : accts[u] # Absent /\ accts[u].plain.pke = inv.enc
    /\ \E u \in Users : keys[u] # Absent /\ keys[u].sig = inv.sig

(* An invitation that can be accepted stays acceptable.                    *)
LEMMA InvitationKept ==
    ASSUME Identities, MailboxesKept, AccountsKept, NEW inv,
           InvitationOpens(mailbox, accounts, keystore, inv)
    PROVE  InvitationOpens(mailbox', accounts', keystore', inv)
<1>1. OpensIn(mailbox', inv.box)
  BY DEF InvitationOpens, OpensIn, MailboxesKept
<1>2. \E u \in Users : accounts'[u] # Absent /\ accounts'[u].plain.pke = inv.enc
  BY DEF InvitationOpens, AccountsKept
<1>3. \E u \in Users : keystore'[u] # Absent /\ keystore'[u].sig = inv.sig
  BY DEF InvitationOpens, AccountsKept, Identities, KeysPublished
<1> QED
  BY <1>1, <1>2, <1>3 DEF InvitationOpens

(* Every step keeps InvitationsOpen.                                       *)
LEMMA InvitationsStep ==
    ASSUME TypeOK, FreshUnused, Identities, LinksOpen,
           MailboxesKept, AccountsKept, [Next]_vars
    PROVE  InvitationsOpen'
<1>1. \A p \in DOMAIN invitation : InvitationOpens(mailbox, accounts, keystore, invitation[p])
  BY DEF LinksOpen, InvitationsOpen, InvitationOpens, OpensMailbox, decrypts, OpensIn
<1>2. SUFFICES ASSUME NEW p \in DOMAIN invitation'
               PROVE  InvitationOpens(mailbox', accounts', keystore', invitation'[p])
  BY DEF InvitationsOpen, InvitationOpens, OpensMailbox, decrypts, OpensIn
<1>3. CASE p \in DOMAIN invitation /\ invitation'[p] = invitation[p]
  BY <1>1, <1>3, InvitationKept
<1>4. CASE invitation' = invitation
  BY <1>3, <1>4
<1>5. ASSUME NEW s \in Sessions, NEW f \in Filenames, NEW r \in Users,
             CreateInvitation(s, f, r)
      PROVE  InvitationOpens(mailbox', accounts', keystore', invitation'[p])
  <2> DEFINE me  == sessions[s]
             box == [uuid |-> fresh, key |-> fresh + 1]
             inv == [enc |-> keystore[r].enc, sig |-> me.ds, box |-> box]
  <2>1. invitation' = Put(invitation, fresh + 2, inv)
    BY <1>5 DEF CreateInvitation
  <2>2. CASE p = fresh + 2
    <3>1. invitation'[p] = inv
      BY <2>1, <2>2 DEF Put, PutAll
    <3>2. OpensIn(mailbox', inv.box)
      BY <1>5, InviteFresh DEF OpensIn
    <3>3. accounts[r] # Absent /\ accounts[r].plain.pke = inv.enc
      <4>1. keystore[r] # Absent
        BY <1>5 DEF CreateInvitation
      <4>2. /\ accounts[r] # Absent
            /\ keystore[r] = [enc |-> accounts[r].plain.pke, sig |-> accounts[r].plain.ds]
        BY <4>1 DEF Identities, KeysPublished
      <4> QED
        BY <4>2
    <3>4. keystore[me.name] # Absent /\ keystore[me.name].sig = inv.sig /\ me.name \in Users
      <4>1. /\ me \in User /\ accounts[me.name] # Absent
            /\ me.ds = accounts[me.name].plain.ds
        BY <1>5, SessionKeys DEF CreateInvitation, CanInvite
      <4>2. me.name \in Users
        BY <4>1 DEF User
      <4>3. /\ keystore[me.name] # Absent
            /\ keystore[me.name] = [enc |-> accounts[me.name].plain.pke,
                                    sig |-> accounts[me.name].plain.ds]
        BY <4>1, <4>2 DEF Identities, KeysPublished
      <4> QED
        BY <4>1, <4>2, <4>3
    <3>5. accounts' = accounts /\ keystore' = keystore
      BY <1>5 DEF CreateInvitation
    <3> QED
      BY <3>1, <3>2, <3>3, <3>4, <3>5 DEF InvitationOpens
  <2>3. CASE p # fresh + 2
    BY <1>3, <2>1, <2>3 DEF Put, PutAll
  <2> QED
    BY <2>2, <2>3
<1>6. CASE UNCHANGED vars
  BY <1>4, <1>6 DEF vars
<1>7. CASE Next
  <2>1. CASE \E s \in Sessions, u \in Users, q \in Passwords : InitUser(s, u, q) \/ GetUser(s, u, q)
    BY <1>4, <2>1 DEF InitUser, GetUser
  <2>2. CASE \E s \in Sessions, f \in Filenames, c \in Contents :
                 StoreFile(s, f, c) \/ AppendToFile(s, f, c)
    BY <1>4, <2>2 DEF StoreFile, AppendToFile
  <2>3. CASE \E s \in Sessions, f \in Filenames, r \in Users :
                 CreateInvitationFails(s, f, r) \/ RevokeAccess(s, f, r)
    BY <1>4, <2>3 DEF CreateInvitationFails, RevokeAccess
  <2>4. CASE \E s \in Sessions, f \in Filenames, u \in Users, q \in DOMAIN invitation :
                 AcceptInvitation(s, u, q, f)
    BY <1>4, <2>4 DEF AcceptInvitation
  <2> QED
    BY <1>5, <1>7, <2>1, <2>2, <2>3, <2>4 DEF Next
<1> QED
  BY <1>6, <1>7

(* Every step keeps MailboxesLead: no inode is ever deleted.               *)
LEMMA MailboxesLeadStep ==
    ASSUME TypeOK, FreshUnused, LinksOpen, MailboxesKept, [Next]_vars
    PROVE  MailboxesLead'
<1>1. ASSUME NEW m \in DOMAIN mailbox PROVE mailbox'[m].plain.inode \in DOMAIN inode'
  BY DEF MailboxesKept, LinksOpen, MailboxesLead
<1>2. CASE DOMAIN mailbox' = DOMAIN mailbox
  BY <1>1, <1>2 DEF MailboxesLead
<1>3. ASSUME NEW s \in Sessions, NEW f \in Filenames, NEW c \in Contents,
             StoreFile(s, f, c)
      PROVE  MailboxesLead'
  <2> DEFINE rec == encryptAndMAC([fileKey |-> fresh, inode |-> fresh + 1],
                                  getMailKeys(fresh + 3))
  <2>1. /\ mailbox' = Put(mailbox, fresh + 2, rec)
        /\ \E v : inode' = Put(inode, fresh + 1, v)
    BY <1>3 DEF StoreFile
  <2>2. rec.plain.inode = fresh + 1
    BY DEF encryptAndMAC
  <2> HIDE DEF rec
  <2>3. /\ DOMAIN mailbox' = DOMAIN mailbox \cup {fresh + 2}
        /\ mailbox'[fresh + 2] = rec /\ fresh + 1 \in DOMAIN inode'
    BY <2>1 DEF Put, PutAll
  <2> QED
    BY <1>1, <2>2, <2>3 DEF MailboxesLead
<1>4. ASSUME NEW s \in Sessions, NEW f \in Filenames, NEW r \in Users,
             CreateInvitation(s, f, r) \/ CreateInvitationFails(s, f, r)
      PROVE  MailboxesLead'
  <2>1. /\ DOMAIN mailbox' = DOMAIN mailbox \cup {fresh}
        /\ mailbox'[fresh].plain = mailbox[AccessOf(sessions[s], f).box.uuid].plain
        /\ AccessOf(sessions[s], f).box.uuid \in DOMAIN mailbox
    BY <1>4, InviteFresh DEF MailboxOf
  <2> QED
    BY <1>1, <2>1 DEF MailboxesLead, LinksOpen, MailboxesKept
<1>5. ASSUME NEW s \in Sessions, NEW f \in Filenames, NEW r \in Users,
             RevokeAccess(s, f, r)
      PROVE  MailboxesLead'
  <2>1. /\ DOMAIN mailbox' = DOMAIN mailbox \cup {fresh + 2}
        /\ mailbox'[fresh + 2].plain
               = [fileKey |-> fresh, inode |-> MailboxOf(sessions[s], f).inode]
        /\ MailboxOf(sessions[s], f).inode \in DOMAIN inode
    BY <1>5, RevokeFacts, Zenon
  <2> QED
    BY <1>1, <2>1 DEF MailboxesLead, MailboxesKept
<1> QED
  BY <1>2, <1>3, <1>4, <1>5
     DEF Next, vars, InitUser, GetUser, AppendToFile, AcceptInvitation

-----------------------------------------------------------------------------
(* Files stay in one piece. *)

(* The block list of an inode is a sequence of UUIDs.                      *)
LEMMA BlocksType ==
    ASSUME TypeOK, NEW i \in DOMAIN inode
    PROVE  /\ inode[i].plain.blocks \in Seq(Nat)
           /\ Len(inode[i].plain.blocks) \in Nat
           /\ DOMAIN inode[i].plain.blocks = 1..Len(inode[i].plain.blocks)
           /\ i \in Nat
<1>1. inode[i].plain \in Inode /\ i \in Nat
  BY DEF TypeOK, IsStore, Sealed
<1>2. inode[i].plain.blocks \in Seq(Nat)
  BY <1>1 DEF Inode
<1> QED
  BY <1>1, <1>2, LenProperties

(* StoreFile's file is whole and shares no block with another.             *)
LEMMA StoreFileWhole ==
    ASSUME TypeOK, FreshUnused, FilesWhole, NEW s \in Sessions, NEW f \in Filenames,
           NEW c \in Contents, StoreFile(s, f, c)
    PROVE  FilesWhole'
<1> DEFINE cs == ByteToBlock(c)
           n0 == fresh + 1
           b0 == fresh + 4
           rec == encryptAndMAC([size |-> Len(c), blocks |-> BlockUUIDs(cs, b0)],
                                getFileKeys(fresh))
<1>1. fresh \in Nat /\ n0 \in Nat /\ b0 \in Nat
  BY DEF TypeOK
<1>2. /\ Len(cs) \in Nat
      /\ DOMAIN NewBlocks(cs, fresh, b0) = b0..(b0 + Len(cs) - 1)
      /\ \A b \in DOMAIN NewBlocks(cs, fresh, b0) :
             NewBlocks(cs, fresh, b0)[b].key = getFileKeys(fresh)
      /\ DOMAIN BlockUUIDs(cs, b0) = 1..Len(cs)
      /\ \A n \in 1..Len(cs) : BlockUUIDs(cs, b0)[n] = b0 + n - 1
  BY <1>1, NewBlocksFacts
<1>3. /\ block' = PutAll(block, NewBlocks(cs, fresh, b0))
      /\ inode' = Put(inode, n0, rec)
  BY DEF StoreFile
<1>4. rec.key = getFileKeys(fresh) /\ rec.plain.blocks = BlockUUIDs(cs, b0)
  BY DEF encryptAndMAC
<1>5. /\ \A b \in DOMAIN block : b \in Nat /\ b < fresh
      /\ \A i \in DOMAIN inode : i \in Nat /\ i < fresh
  BY DEF TypeOK, IsStore, FreshUnused
<1> HIDE DEF cs, rec
<1>6. /\ DOMAIN inode' = DOMAIN inode \cup {n0}
      /\ n0 \notin DOMAIN inode
      /\ inode'[n0] = rec
      /\ \A i \in DOMAIN inode : inode'[i] = inode[i]
  BY <1>1, <1>3, <1>5 DEF Put, PutAll
<1>7. /\ \A b \in DOMAIN block : b \in DOMAIN block' /\ block'[b] = block[b]
      /\ \A b \in b0..(b0 + Len(cs) - 1) : /\ b \in DOMAIN block'
                                            /\ block'[b].key = getFileKeys(fresh)
  BY <1>1, <1>2, <1>3, <1>5 DEF PutAll
<1>8. ASSUME NEW n \in 1..Len(cs)
      PROVE  b0 + n - 1 \in b0..(b0 + Len(cs) - 1) /\ b0 + n - 1 \notin DOMAIN block
  BY <1>1, <1>2, <1>5
<1>9. ASSUME NEW i \in DOMAIN inode', NEW n \in DOMAIN inode'[i].plain.blocks
      PROVE  LET b == inode'[i].plain.blocks[n]
             IN  /\ b \in DOMAIN block'
                 /\ block'[b].key = inode'[i].key
                 /\ \A j \in DOMAIN inode' : \A k \in DOMAIN inode'[j].plain.blocks :
                        inode'[j].plain.blocks[k] = b => j = i /\ k = n
  <2>1. CASE i = n0
    <3>1. n \in 1..Len(cs) /\ inode'[i].plain.blocks[n] = b0 + n - 1
      BY <2>1, <1>2, <1>4, <1>6
    <3>2. /\ b0 + n - 1 \in DOMAIN block' /\ b0 + n - 1 \notin DOMAIN block
          /\ block'[b0 + n - 1].key = inode'[i].key
      BY <2>1, <3>1, <1>4, <1>6, <1>7, <1>8
    <3>3. ASSUME NEW j \in DOMAIN inode', NEW k \in DOMAIN inode'[j].plain.blocks,
                 inode'[j].plain.blocks[k] = b0 + n - 1
          PROVE  j = i /\ k = n
      <4>1. CASE j = n0
        <5>1. k \in 1..Len(cs) /\ inode'[j].plain.blocks[k] = b0 + k - 1
          BY <4>1, <1>2, <1>4, <1>6
        <5> QED
          BY <5>1, <2>1, <3>1, <3>3, <4>1, <1>1, <1>2
      <4>2. CASE j # n0
        BY <4>2, <3>2, <3>3, <1>6 DEF FilesWhole
      <4> QED
        BY <4>1, <4>2
    <3> QED
      BY <3>1, <3>2, <3>3
  <2>2. CASE i # n0
    <3> DEFINE b == inode[i].plain.blocks[n]
    <3>1. i \in DOMAIN inode /\ inode'[i] = inode[i] /\ n \in DOMAIN inode[i].plain.blocks
      BY <2>2, <1>6
    <3>2. /\ b \in DOMAIN block /\ block[b].key = inode[i].key
          /\ \A j \in DOMAIN inode : \A k \in DOMAIN inode[j].plain.blocks :
                 inode[j].plain.blocks[k] = b => j = i /\ k = n
      BY <3>1 DEF FilesWhole
    <3>3. ASSUME NEW j \in DOMAIN inode', NEW k \in DOMAIN inode'[j].plain.blocks,
                 inode'[j].plain.blocks[k] = b
          PROVE  j = i /\ k = n
      <4>1. CASE j = n0
        <5>1. k \in 1..Len(cs) /\ inode'[j].plain.blocks[k] = b0 + k - 1
          BY <4>1, <1>2, <1>4, <1>6
        <5>2. b0 + k - 1 \notin DOMAIN block
          BY <5>1, <1>8
        <5> QED
          BY <5>1, <5>2, <3>2, <3>3
      <4>2. CASE j # n0
        BY <4>2, <3>2, <3>3, <1>6
      <4> QED
        BY <4>1, <4>2
    <3> QED
      BY <3>1, <3>2, <3>3, <1>7
  <2> QED
    BY <2>1, <2>2
<1> QED
  BY <1>9 DEF FilesWhole

(* RevokeAccess re-seals all blocks of its file and none of another's.     *)
LEMMA RevokeAccessWhole ==
    ASSUME TypeOK, FreshUnused, FilesWhole, NEW s \in Sessions, NEW f \in Filenames,
           NEW r \in Users, RevokeAccess(s, f, r)
    PROVE  FilesWhole'
<1> DEFINE n0 == MailboxOf(sessions[s], f).inode
           bs == inode[n0].plain.blocks
<1>1. /\ n0 \in DOMAIN inode /\ DOMAIN inode' = DOMAIN inode
      /\ inode'[n0].key = getFileKeys(fresh)
      /\ inode'[n0].plain = inode[n0].plain
      /\ \A i \in DOMAIN inode : i # n0 => inode'[i] = inode[i]
  BY RevokeFacts, Zenon
<1>2. block' = ReEncrypted(bs, fresh)
  BY DEF RevokeAccess, InodeOf
<1>3. /\ DOMAIN block' = DOMAIN block
      /\ \A b \in DOMAIN block : b \in Range(bs) => block'[b].key = getFileKeys(fresh)
      /\ \A b \in DOMAIN block : b \notin Range(bs) => block'[b] = block[b]
  BY <1>2 DEF ReEncrypted, encryptAndMAC
<1>4. ASSUME NEW i \in DOMAIN inode, NEW n \in DOMAIN inode[i].plain.blocks
      PROVE  LET b == inode[i].plain.blocks[n]
             IN  /\ b \in DOMAIN block
                 /\ block[b].key = inode[i].key
                 /\ \A j \in DOMAIN inode : \A k \in DOMAIN inode[j].plain.blocks :
                        inode[j].plain.blocks[k] = b => j = i /\ k = n
                 /\ i = n0 => b \in Range(bs)
                 /\ i # n0 => b \notin Range(bs)
  BY <1>1 DEF FilesWhole, Range
<1>5. \A i \in DOMAIN inode : inode'[i].plain = inode[i].plain
  BY <1>1
<1> HIDE DEF bs, n0
<1> QED
  BY <1>1, <1>3, <1>4, <1>5 DEF FilesWhole

(* The block list of an inode after blocks id, id + 1, ... were appended.    *)
LEMMA ConcatIds ==
    ASSUME NEW bs \in Seq(Nat), NEW ids \in Seq(Nat), NEW id \in Nat,
           \A n \in 1..Len(ids) : ids[n] = id + n - 1
    PROVE  /\ DOMAIN (bs \o ids) = 1..(Len(bs) + Len(ids))
           /\ \A n \in 1..(Len(bs) + Len(ids)) :
                  \/ n \in DOMAIN bs /\ (bs \o ids)[n] = bs[n]
                  \/ /\ n \in (Len(bs) + 1)..(Len(bs) + Len(ids))
                     /\ (bs \o ids)[n] = id + (n - Len(bs)) - 1
                     /\ id + (n - Len(bs)) - 1 \in id..(id + Len(ids) - 1)
<1>1. /\ Len(bs) \in Nat /\ Len(ids) \in Nat
      /\ DOMAIN bs = 1..Len(bs)
  BY LenProperties
<1>2. /\ bs \o ids \in Seq(Nat)
      /\ Len(bs \o ids) = Len(bs) + Len(ids)
      /\ \A n \in 1..(Len(bs) + Len(ids)) :
             (bs \o ids)[n] = IF n <= Len(bs) THEN bs[n] ELSE ids[n - Len(bs)]
  BY ConcatProperties
<1>3. DOMAIN (bs \o ids) = 1..(Len(bs) + Len(ids))
  BY <1>2, LenProperties
<1>4. ASSUME NEW n \in 1..(Len(bs) + Len(ids))
      PROVE  \/ n \in DOMAIN bs /\ (bs \o ids)[n] = bs[n]
             \/ /\ n \in (Len(bs) + 1)..(Len(bs) + Len(ids))
                /\ (bs \o ids)[n] = id + (n - Len(bs)) - 1
                /\ id + (n - Len(bs)) - 1 \in id..(id + Len(ids) - 1)
  <2>1. CASE n <= Len(bs)
    BY <2>1, <1>1, <1>2
  <2>2. CASE ~(n <= Len(bs))
    <3>1. n - Len(bs) \in 1..Len(ids) /\ n \in (Len(bs) + 1)..(Len(bs) + Len(ids))
      BY <2>2, <1>1
    <3>2. (bs \o ids)[n] = id + (n - Len(bs)) - 1
      BY <2>2, <3>1, <1>2
    <3> QED
      BY <3>1, <3>2, <1>1
  <2> QED
    BY <2>1, <2>2
<1> QED
  BY <1>3, <1>4

(* AppendToFile adds new blocks sealed under the key of the inode.         *)
LEMMA AppendToFileWhole ==
    ASSUME TypeOK, FreshUnused, FilesWhole, NEW s \in Sessions, NEW f \in Filenames,
           NEW c \in Contents, AppendToFile(s, f, c)
    PROVE  FilesWhole'
<1> DEFINE node == MailboxOf(sessions[s], f)
           n0  == node.inode
           cs  == ByteToBlock(c)
           bs  == inode[n0].plain.blocks
           ids == BlockUUIDs(cs, fresh)
           rec == encryptAndMAC(Appended(InodeOf(sessions[s], f), c, fresh),
                                getFileKeys(node.fileKey))
<1>1. /\ fresh \in Nat /\ node.fileKey \in Nat /\ n0 \in DOMAIN inode
      /\ inode[n0].key = getFileKeys(node.fileKey)
  BY OpensFileTypes DEF TypeOK, AppendToFile, MailboxNode, OpensFile, OpensInode, decrypts
<1>2. /\ Len(cs) \in Nat
      /\ DOMAIN NewBlocks(cs, node.fileKey, fresh) = fresh..(fresh + Len(cs) - 1)
      /\ \A b \in DOMAIN NewBlocks(cs, node.fileKey, fresh) :
             NewBlocks(cs, node.fileKey, fresh)[b].key = getFileKeys(node.fileKey)
      /\ \A n \in 1..Len(cs) : ids[n] = fresh + n - 1
  BY <1>1, NewBlocksFacts
<1>3. /\ bs \in Seq(Nat) /\ Len(bs) \in Nat /\ DOMAIN bs = 1..Len(bs)
      /\ ids \in Seq(Nat) /\ Len(ids) = Len(cs)
  BY <1>1, BlocksType, NewBlocksType
<1>4. /\ block' = PutAll(block, NewBlocks(cs, node.fileKey, fresh))
      /\ inode' = Put(inode, n0, rec)
  BY DEF AppendToFile
<1>5. rec.key = inode[n0].key /\ rec.plain.blocks = bs \o ids
  BY <1>1 DEF encryptAndMAC, Appended, InodeOf
<1>6. /\ \A b \in DOMAIN block : b \in Nat /\ b < fresh
      /\ \A b \in fresh..(fresh + Len(cs) - 1) : b \notin DOMAIN block
  BY <1>1, <1>2 DEF TypeOK, IsStore, FreshUnused
<1> HIDE DEF rec, ids, cs
<1>7. /\ DOMAIN inode' = DOMAIN inode
      /\ inode'[n0].key = inode[n0].key
      /\ inode'[n0].plain.blocks = bs \o ids
      /\ \A i \in DOMAIN inode : i # n0 => inode'[i] = inode[i]
  BY <1>1, <1>4, <1>5 DEF Put, PutAll
<1>8. /\ \A b \in DOMAIN block : b \in DOMAIN block' /\ block'[b] = block[b]
      /\ \A b \in fresh..(fresh + Len(cs) - 1) : /\ b \in DOMAIN block'
                                                  /\ block'[b].key = inode[n0].key
  BY <1>1, <1>2, <1>4, <1>6 DEF PutAll
<1>9. /\ DOMAIN (bs \o ids) = 1..(Len(bs) + Len(cs))
      /\ \A n \in 1..(Len(bs) + Len(cs)) :
             \/ n \in DOMAIN bs /\ (bs \o ids)[n] = bs[n]
             \/ /\ n \in (Len(bs) + 1)..(Len(bs) + Len(cs))
                /\ (bs \o ids)[n] = fresh + (n - Len(bs)) - 1
                /\ fresh + (n - Len(bs)) - 1 \in fresh..(fresh + Len(cs) - 1)
  <2> HIDE DEF bs
  <2>1. \A n \in 1..Len(ids) : ids[n] = fresh + n - 1
    BY <1>2, <1>3
  <2>2. /\ DOMAIN (bs \o ids) = 1..(Len(bs) + Len(ids))
        /\ \A n \in 1..(Len(bs) + Len(ids)) :
               \/ n \in DOMAIN bs /\ (bs \o ids)[n] = bs[n]
               \/ /\ n \in (Len(bs) + 1)..(Len(bs) + Len(ids))
                  /\ (bs \o ids)[n] = fresh + (n - Len(bs)) - 1
                  /\ fresh + (n - Len(bs)) - 1 \in fresh..(fresh + Len(ids) - 1)
    BY <2>1, <1>1, <1>3, ConcatIds, Zenon
  <2> QED
    BY <2>2, <1>3
<1>10. ASSUME NEW i \in DOMAIN inode', NEW n \in DOMAIN inode'[i].plain.blocks
       PROVE  \/ /\ i \in DOMAIN inode /\ n \in DOMAIN inode[i].plain.blocks
                 /\ inode'[i].plain.blocks[n] = inode[i].plain.blocks[n]
                 /\ inode'[i].key = inode[i].key
              \/ /\ i = n0 /\ n \in (Len(bs) + 1)..(Len(bs) + Len(cs))
                 /\ inode'[i].plain.blocks[n] = fresh + (n - Len(bs)) - 1
                 /\ fresh + (n - Len(bs)) - 1 \in fresh..(fresh + Len(cs) - 1)
                 /\ inode'[i].key = inode[n0].key
  <2>1. CASE i # n0
    BY <2>1, <1>7
  <2>2. CASE i = n0
    <3>1. n \in 1..(Len(bs) + Len(cs)) /\ inode'[i].plain.blocks[n] = (bs \o ids)[n]
      BY <2>2, <1>7, <1>9
    <3> QED
      BY <3>1, <2>2, <1>1, <1>7, <1>9
  <2> QED
    BY <2>1, <2>2
<1>11. ASSUME NEW i \in DOMAIN inode, NEW n \in DOMAIN inode[i].plain.blocks
       PROVE  /\ inode[i].plain.blocks[n] \in DOMAIN block
              /\ block[inode[i].plain.blocks[n]].key = inode[i].key
              /\ \A j \in DOMAIN inode : \A k \in DOMAIN inode[j].plain.blocks :
                     inode[j].plain.blocks[k] = inode[i].plain.blocks[n] => j = i /\ k = n
  BY DEF FilesWhole
<1> HIDE DEF n0, bs
<1>12. ASSUME NEW i \in DOMAIN inode', NEW n \in DOMAIN inode'[i].plain.blocks
       PROVE  /\ inode'[i].plain.blocks[n] \in DOMAIN block'
              /\ block'[inode'[i].plain.blocks[n]].key = inode'[i].key
  BY <1>8, <1>10, <1>11
<1>13. ASSUME NEW i \in DOMAIN inode', NEW n \in DOMAIN inode'[i].plain.blocks,
              NEW j \in DOMAIN inode', NEW k \in DOMAIN inode'[j].plain.blocks,
              inode'[j].plain.blocks[k] = inode'[i].plain.blocks[n]
       PROVE  j = i /\ k = n
  <2>1. CASE inode'[i].plain.blocks[n] \in DOMAIN block
    BY <2>1, <1>6, <1>10, <1>11, <1>13
  <2>2. CASE inode'[i].plain.blocks[n] \notin DOMAIN block
    <3>1. /\ i = n0 /\ n \in (Len(bs) + 1)..(Len(bs) + Len(cs))
          /\ inode'[i].plain.blocks[n] = fresh + (n - Len(bs)) - 1
      BY <2>2, <1>10, <1>11
    <3>2. /\ j = n0 /\ k \in (Len(bs) + 1)..(Len(bs) + Len(cs))
          /\ inode'[j].plain.blocks[k] = fresh + (k - Len(bs)) - 1
      BY <2>2, <1>10, <1>11, <1>13
    <3> QED
      BY <3>1, <3>2, <1>13, <1>1, <1>2, <1>3
  <2> QED
    BY <2>1, <2>2
<1> QED
  BY <1>12, <1>13 DEF FilesWhole

(* Every step keeps FilesWhole.                                            *)
LEMMA FilesWholeStep ==
    ASSUME TypeOK, FreshUnused, FilesWhole, [Next]_vars
    PROVE  FilesWhole'
<1>1. CASE UNCHANGED <<inode, block>>
  BY <1>1 DEF FilesWhole
<1>2. CASE UNCHANGED vars
  BY <1>1, <1>2 DEF vars
<1>3. CASE Next
  <2>1. CASE \E s \in Sessions, u \in Users, p \in Passwords : InitUser(s, u, p) \/ GetUser(s, u, p)
    BY <1>1, <2>1 DEF InitUser, GetUser
  <2>2. CASE \E s \in Sessions, f \in Filenames, r \in Users :
                 CreateInvitation(s, f, r) \/ CreateInvitationFails(s, f, r)
    BY <1>1, <2>2 DEF CreateInvitation, CreateInvitationFails
  <2>3. CASE \E s \in Sessions, f \in Filenames, u \in Users, p \in DOMAIN invitation :
                 AcceptInvitation(s, u, p, f)
    BY <1>1, <2>3 DEF AcceptInvitation
  <2> QED
    BY <1>3, <2>1, <2>2, <2>3, StoreFileWhole, AppendToFileWhole, RevokeAccessWhole DEF Next
<1> QED
  BY <1>2, <1>3

(* Every step keeps LinksOpen.                                             *)
LEMMA LinksStep ==
    ASSUME TypeOK, FreshUnused, Identities, LinksOpen, [Next]_vars
    PROVE  LinksOpen'
<1>1. MailboxesKept /\ AccountsKept
  BY FreshStep, IdentitiesStep
<1>2. InvitationsOpen' /\ MailboxesLead'
  BY <1>1, InvitationsStep, MailboxesLeadStep
<1>3. CASE access' = access
  BY <1>1, <1>2, <1>3, SlotsKept DEF LinksOpen
<1>4. CASE UNCHANGED vars
  BY <1>3, <1>4 DEF vars
<1>5. CASE Next
  <2>1. CASE \E s \in Sessions, u \in Users, p \in Passwords : InitUser(s, u, p) \/ GetUser(s, u, p)
    BY <1>3, <2>1 DEF InitUser, GetUser
  <2>2. CASE \E s \in Sessions, f \in Filenames, c \in Contents : StoreFile(s, f, c)
    BY <1>1, <1>2, <2>2, StoreFileLinks DEF LinksOpen
  <2>3. CASE \E s \in Sessions, f \in Filenames, c \in Contents : AppendToFile(s, f, c)
    BY <1>3, <2>3 DEF AppendToFile
  <2>4. CASE \E s \in Sessions, f \in Filenames, r \in Users : CreateInvitation(s, f, r)
    BY <1>1, <1>2, <2>4, CreateInvitationLinks DEF LinksOpen
  <2>5. CASE \E s \in Sessions, f \in Filenames, r \in Users : CreateInvitationFails(s, f, r)
    BY <1>3, <2>5 DEF CreateInvitationFails
  <2>6. CASE \E s \in Sessions, f \in Filenames, r \in Users : RevokeAccess(s, f, r)
    BY <1>1, <1>2, <2>6, RevokeAccessLinks DEF LinksOpen
  <2>7. CASE \E s \in Sessions, f \in Filenames, u \in Users, p \in DOMAIN invitation :
                 AcceptInvitation(s, u, p, f)
    BY <1>1, <1>2, <2>7, AcceptInvitationLinks DEF LinksOpen
  <2> QED
    BY <1>5, <2>1, <2>2, <2>3, <2>4, <2>5, <2>6, <2>7 DEF Next
<1> QED
  BY <1>4, <1>5

-----------------------------------------------------------------------------
(* The inductive invariant.  FreshUnused is what the others need: a new    *)
(* mailbox, inode or block overwrites none that an existing record names.  *)
IInv == TypeOK /\ FreshUnused /\ Identities /\ LinksOpen /\ FilesWhole

(* IInv holds in every reachable state of the client services: the one     *)
(* induction that the theorems about pointers, files and revocation rest   *)
(* on.                                                                     *)
THEOREM Inductive == Spec => []IInv
<1>1. Init => IInv
  <2>1. Init => TypeOK /\ FreshUnused /\ FilesWhole
    BY DEF Init, TypeOK, IsStore, FreshUnused, FilesWhole
  <2>2. Init => Identities
    BY DEF Init, Identities, KeysPublished, SessionsGenuine
  <2>3. Init => LinksOpen
    BY DEF Init, LinksOpen, SlotsOpen, InvitationsOpen, MailboxesLead, Slots
  <2> QED
    BY <2>1, <2>2, <2>3 DEF IInv
<1>2. TypeOK /\ TypeOK' /\ IInv /\ [Next]_vars => IInv'
  BY FreshStep, IdentitiesStep, LinksStep, FilesWholeStep DEF IInv
<1> QED
  BY <1>1, <1>2, TypeCorrect, PTL DEF Spec

(* Every pointer an access record or an invitation holds opens a mailbox,  *)
(* and every mailbox leads to an inode: no order of invitations, accepted  *)
(* ones, overwritten names and revocations leaves a dangling pointer.      *)
THEOREM PointersOpenAlways == Spec => []LinksOpen
<1>1. IInv => LinksOpen
  BY DEF IInv
<1> QED
  BY <1>1, Inductive, PTL

(* Whoever can open a file's inode can read all of its blocks, and the     *)
(* block loops of LoadFile and RevokeAccess never fail halfway.            *)
THEOREM FilesStayWhole == Spec => []FilesWhole
<1>1. IInv => FilesWhole
  BY DEF IInv
<1> QED
  BY <1>1, Inductive, PTL

-----------------------------------------------------------------------------
(* One session: what it keeps in memory is what is stored, so the list it  *)
(* writes back never misses a name.                                        *)
SessionStored ==
    \A s \in Sessions : sessions[s] # Absent => accounts[sessions[s].name].plain = sessions[s]

NamesListed ==
    \A u \in Users, f \in Filenames :
        access[<<u, f>>] # Absent => f \in accounts[u].plain.files

Lists == SessionStored /\ NamesListed

(* saveUser after a write of the access record of f.                       *)
LEMMA saveUserLists ==
    ASSUME TypeOK, Identities, Lists, \A s, t \in Sessions : s = t,
           NEW s \in Sessions, NEW f \in Filenames, sessions[s] # Absent, saveUser(s, f),
           \A x \in Slots : x # Slot(sessions[s], f) => access'[x] = access[x]
    PROVE  Lists'
<1> DEFINE old == sessions[s]
           me  == [old EXCEPT !.files = @ \cup {f}]
<1>1. old \in User /\ old.name \in Users
  BY ReadTypes DEF User
<1>2. me \in User /\ me.name = old.name /\ me.files = old.files \cup {f}
  BY <1>1 DEF User
<1>3. /\ sessions' = [sessions EXCEPT ![s] = me]
      /\ accounts' = [accounts EXCEPT ![me.name] = encryptAndMAC(me, getUserKeys(me.master))]
  BY DEF saveUser
<1>4. accounts[old.name].plain = old
  BY DEF Lists, SessionStored
<1> HIDE DEF me
<1>5. /\ accounts'[old.name].plain = me
      /\ \A u \in Users : u # old.name => accounts'[u] = accounts[u]
  BY <1>1, <1>2, <1>3 DEF TypeOK, encryptAndMAC
<1>6. SessionStored'
  <2>1. \A t \in Sessions : sessions'[t] = me
    BY <1>3 DEF TypeOK
  <2> QED
    BY <2>1, <1>2, <1>5 DEF SessionStored
<1>7. ASSUME NEW u \in Users, NEW g \in Filenames, access'[<<u, g>>] # Absent
      PROVE  g \in accounts'[u].plain.files
  <2>1. CASE u = old.name /\ g = f
    BY <2>1, <1>2, <1>5
  <2>2. CASE ~(u = old.name /\ g = f)
    <3>1. <<u, g>> \in Slots /\ <<u, g>> # Slot(old, f)
      BY <2>2 DEF Slots, Slot
    <3>2. access[<<u, g>>] # Absent
      BY <1>7, <3>1
    <3>3. g \in accounts[u].plain.files
      BY <3>2 DEF Lists, NamesListed
    <3> QED
      BY <3>3, <1>2, <1>4, <1>5
  <2> QED
    BY <2>1, <2>2
<1> QED
  BY <1>6, <1>7 DEF Lists, NamesListed

LEMMA UserLists ==
    ASSUME TypeOK, Identities, SlotsOpen, Lists, \A s, t \in Sessions : s = t,
           NEW s \in Sessions, NEW u \in Users, NEW p \in Passwords,
           InitUser(s, u, p) \/ GetUser(s, u, p)
    PROVE  Lists'
<1>1. CASE InitUser(s, u, p)
  <2> DEFINE me == [name |-> u, pke |-> fresh, ds |-> fresh + 1,
                    master |-> <<u, p>>, files |-> {}]
  <2>1. /\ accounts[u] = Absent /\ access' = access
        /\ accounts' = [accounts EXCEPT ![u] = encryptAndMAC(me, getUserKeys(me.master))]
        /\ sessions' = [sessions EXCEPT ![s] = me]
    BY <1>1 DEF InitUser
  <2>2. me.name = u
    OBVIOUS
  <2> HIDE DEF me
  <2>3. /\ \A t \in Sessions : sessions'[t] = me
        /\ accounts'[u].plain = me
        /\ \A v \in Users : v # u => accounts'[v] = accounts[v]
    BY <2>1 DEF TypeOK, encryptAndMAC
  <2>4. \A g \in Filenames : access[<<u, g>>] = Absent
    BY <2>1 DEF SlotsOpen
  <2> QED
    BY <2>1, <2>2, <2>3, <2>4 DEF Lists, SessionStored, NamesListed
<1>2. CASE GetUser(s, u, p)
  <2>1. /\ accounts[u] # Absent /\ accounts' = accounts /\ access' = access
        /\ sessions' = [sessions EXCEPT ![s] = accounts[u].plain]
    BY <1>2 DEF GetUser
  <2>2. \A t \in Sessions : sessions'[t] = accounts[u].plain
    BY <2>1 DEF TypeOK
  <2>3. accounts[u].plain.name = u
    BY <2>1 DEF Identities, KeysPublished
  <2> QED
    BY <2>1, <2>2, <2>3 DEF Lists, SessionStored, NamesListed
<1> QED
  BY <1>1, <1>2

LEMMA ListsStep ==
    ASSUME IInv, Lists, \A s, t \in Sessions : s = t, [Next]_vars
    PROVE  Lists'
<1> USE DEF IInv, LinksOpen
<1>1. CASE UNCHANGED <<accounts, access, sessions>>
  BY <1>1 DEF Lists, SessionStored, NamesListed
<1>2. CASE UNCHANGED vars
  BY <1>1, <1>2 DEF vars
<1>3. CASE Next
  <2>1. CASE \E s \in Sessions, u \in Users, p \in Passwords : InitUser(s, u, p) \/ GetUser(s, u, p)
    BY <2>1, UserLists
  <2>2. ASSUME NEW s \in Sessions, NEW f \in Filenames, NEW c \in Contents, StoreFile(s, f, c)
        PROVE  Lists'
    BY <2>2, saveUserLists DEF StoreFile, TypeOK
  <2>3. CASE \E s \in Sessions, f \in Filenames, c \in Contents : AppendToFile(s, f, c)
    BY <1>1, <2>3 DEF AppendToFile
  <2>4. ASSUME NEW s \in Sessions, NEW f \in Filenames, NEW r \in Users,
               CreateInvitation(s, f, r)
        PROVE  Lists'
    <3>1. /\ accounts' = accounts /\ sessions' = sessions
          /\ access[Slot(sessions[s], f)] # Absent
          /\ \A x \in Slots : x # Slot(sessions[s], f) => access'[x] = access[x]
      BY <2>4 DEF CreateInvitation, CanInvite, OpensAccess, TypeOK
    <3>2. \A x \in Slots : access'[x] # Absent => access[x] # Absent
      BY <3>1
    <3> QED
      BY <3>1, <3>2 DEF Lists, SessionStored, NamesListed, Slots
  <2>5. CASE \E s \in Sessions, f \in Filenames, r \in Users : CreateInvitationFails(s, f, r)
    BY <1>1, <2>5 DEF CreateInvitationFails
  <2>6. ASSUME NEW s \in Sessions, NEW f \in Filenames, NEW r \in Users, RevokeAccess(s, f, r)
        PROVE  Lists'
    BY <2>6, saveUserLists DEF RevokeAccess, TypeOK
  <2>7. ASSUME NEW s \in Sessions, NEW f \in Filenames, NEW u \in Users,
               NEW p \in DOMAIN invitation, AcceptInvitation(s, u, p, f)
        PROVE  Lists'
    BY <2>7, saveUserLists DEF AcceptInvitation, TypeOK
  <2> QED
    BY <1>3, <2>1, <2>2, <2>3, <2>4, <2>5, <2>6, <2>7 DEF Next
<1> QED
  BY <1>2, <1>3

(* With one session at a time, every name that refers to a file is in the  *)
(* list that is stored for its user.                                       *)
THEOREM AllFilesListed == Spec => []ListsAllFiles
<1> DEFINE ListInv == Cardinality(Sessions) = 1 => Lists
<1>1. Init => ListInv
  BY DEF Init, Lists, SessionStored, NamesListed, Slots
<1>2. Cardinality(Sessions) = 1 => \A s, t \in Sessions : s = t
  BY FS_Singleton, SessionsAssumption
<1>3. IInv /\ ListInv /\ [Next]_vars => ListInv'
  BY <1>2, ListsStep
<1>4. ListInv => ListsAllFiles
  BY DEF Lists, NamesListed, ListsAllFiles, ListFiles
<1> HIDE DEF ListInv
<1> QED
  BY <1>1, <1>3, <1>4, Inductive, PTL DEF Spec

-----------------------------------------------------------------------------
(***************************************************************************)
(* ShareLock implements SharedFiles, and what that means for the bytes of  *)
(* a file: cutting a content into blocks and joining them again gives the  *)
(* content back, the inode's Size is the number of bytes in the blocks,    *)
(* and files only grow.                                                    *)
(***************************************************************************)

(* No two users have the same key pair: an invitation is for one user and  *)
(* from one user.                                                          *)
KeyPairs ==
    /\ \A u \in Users : keystore[u] # Absent => keystore[u].enc < fresh /\ keystore[u].sig < fresh
    /\ \A u, v \in Users : keystore[u] # Absent /\ keystore[v] # Absent =>
           /\ keystore[u].enc = keystore[v].enc => u = v
           /\ keystore[u].sig = keystore[v].sig => u = v

RInv == IInv /\ KeyPairs

(* The next number only grows. *)
LEMMA FreshGrows ==
    ASSUME TypeOK, Next, ~\E s \in Sessions, u \in Users, p \in Passwords : InitUser(s, u, p)
    PROVE  fresh <= fresh' /\ keystore' = keystore
<1>1. fresh \in Nat
  BY DEF TypeOK
<1>2. \A c \in Contents : Len(ByteToBlock(c)) \in Nat
  BY Chunks, ContentsAssumption
<1>3. CASE fresh' = fresh /\ keystore' = keystore
  BY <1>1, <1>3
<1>4. ASSUME NEW s \in Sessions, NEW f \in Filenames, NEW c \in Contents, StoreFile(s, f, c)
      PROVE  fresh <= fresh' /\ keystore' = keystore
  <2>1. fresh' = fresh + 4 + Len(ByteToBlock(c)) /\ keystore' = keystore
    BY <1>4 DEF StoreFile
  <2> QED
    BY <2>1, <1>1, <1>2
<1>5. ASSUME NEW s \in Sessions, NEW f \in Filenames, NEW c \in Contents, AppendToFile(s, f, c)
      PROVE  fresh <= fresh' /\ keystore' = keystore
  <2>1. fresh' = fresh + Len(ByteToBlock(c)) /\ keystore' = keystore
    BY <1>5 DEF AppendToFile
  <2> QED
    BY <2>1, <1>1, <1>2
<1>6. ASSUME NEW s \in Sessions, NEW f \in Filenames, NEW r \in Users,
             CreateInvitation(s, f, r) \/ CreateInvitationFails(s, f, r) \/ RevokeAccess(s, f, r)
      PROVE  fresh <= fresh' /\ keystore' = keystore
  <2>1. fresh' \in {fresh + 2, fresh + 3} /\ keystore' = keystore
    BY <1>6 DEF CreateInvitation, CreateInvitationFails, RevokeAccess
  <2> QED
    BY <2>1, <1>1
<1>7. ASSUME NEW s \in Sessions,
             \/ \E u \in Users, p \in Passwords : GetUser(s, u, p)
             \/ \E f \in Filenames, u \in Users, p \in DOMAIN invitation :
                    AcceptInvitation(s, u, p, f)
      PROVE  fresh' = fresh /\ keystore' = keystore
  BY <1>7 DEF GetUser, AcceptInvitation
<1> QED
  BY <1>3, <1>4, <1>5, <1>6, <1>7 DEF Next

LEMMA KeyPairsStep ==
    ASSUME TypeOK, TypeOK', KeyPairs, [Next]_vars
    PROVE  KeyPairs'
<1>1. /\ fresh \in Nat /\ fresh' \in Nat
      /\ \A u \in Users : keystore[u] # Absent => keystore[u].enc \in Nat /\ keystore[u].sig \in Nat
  BY DEF TypeOK, PublicKeys
<1>2. CASE fresh <= fresh' /\ keystore' = keystore
  BY <1>1, <1>2 DEF KeyPairs
<1>3. ASSUME NEW s \in Sessions, NEW u \in Users, NEW p \in Passwords, InitUser(s, u, p)
      PROVE  KeyPairs'
  <2>1. /\ keystore' = [keystore EXCEPT ![u] = [enc |-> fresh, sig |-> fresh + 1]]
        /\ fresh' = fresh + 2
    BY <1>3 DEF InitUser
  <2>2. /\ keystore'[u] = [enc |-> fresh, sig |-> fresh + 1]
        /\ \A v \in Users : v # u => keystore'[v] = keystore[v]
    BY <2>1 DEF TypeOK
  <2> QED
    BY <2>1, <2>2, <1>1 DEF KeyPairs
<1>4. CASE UNCHANGED vars
  BY <1>1, <1>2, <1>4 DEF vars
<1> QED
  BY <1>2, <1>3, <1>4, FreshGrows

(* Beside the invariant of ShareLockProofs, no two names ever share a      *)
(* public key (InitUser draws a new pair), so CreateInvitation's and       *)
(* AcceptInvitation's keys identify one recipient and one sender.          *)
THEOREM RInductive == Spec => []RInv
<1>1. Init => KeyPairs
  BY DEF Init, KeyPairs
<1>2. TypeOK /\ TypeOK' /\ KeyPairs /\ [Next]_vars => KeyPairs'
  BY KeyPairsStep
<1>3. IInv => TypeOK
  BY DEF IInv
<1> QED
  BY <1>1, <1>2, <1>3, Inductive, PTL DEF Spec, RInv

-----------------------------------------------------------------------------
(* What a changed access record changes of a user's names. *)

ChildIds(acc) == [c \in Users |-> IF acc.children[c] = Absent THEN Absent ELSE acc.children[c].uuid]

LEMMA SlotBars ==
    ASSUME TypeOK, NEW u \in Users, NEW f \in Filenames, access[<<u, f>>] # Absent
    PROVE  /\ <<u, f>> \in Slots
           /\ handleBar[<<u, f>>] = access[<<u, f>>].plain.box.uuid
           /\ handleBar[<<u, f>>] # Absent
           /\ kidsBar[<<u, f>>] = ChildIds(access[<<u, f>>].plain)
<1>1. <<u, f>> \in Slots
  BY DEF Slots
<1>2. access[<<u, f>>].plain \in Access
  BY <1>1 DEF TypeOK, Sealed
<1>3. access[<<u, f>>].plain.box.uuid \in Nat
  BY <1>2 DEF Access, Pointer
<1>4. handleBar[<<u, f>>] = access[<<u, f>>].plain.box.uuid
  BY <1>1 DEF handleBar
<1>5. kidsBar[<<u, f>>] = ChildIds(access[<<u, f>>].plain)
  BY <1>1 DEF kidsBar, ChildIds
<1> QED
  BY <1>1, <1>3, <1>4, <1>5, AbsentAssumption

LEMMA BarUpdate ==
    ASSUME TypeOK, NEW me \in User, NEW f \in Filenames, NEW acc \in Access,
           access' = [access EXCEPT ![Slot(me, f)] =
                          encryptAndMAC(acc, getPersonalKey(me.master, f))]
    PROVE  /\ handleBar' = [handleBar EXCEPT ![<<me.name, f>>] = acc.box.uuid]
           /\ kidsBar' = [kidsBar EXCEPT ![<<me.name, f>>] = ChildIds(acc)]
<1> DEFINE x   == <<me.name, f>>
           rec == encryptAndMAC(acc, getPersonalKey(me.master, f))
<1>1. x \in Slots /\ Slot(me, f) = x
  BY DEF Slots, Slot, User
<1>2. rec # Absent /\ rec.plain = acc
  <2>1. rec \in [key : {"personal"} \X MasterKeys \X Filenames, plain : Access]
    BY DEF encryptAndMAC, getPersonalKey, User
  <2> QED
    BY <2>1, AbsentAssumption DEF encryptAndMAC
<1>3. access' = [access EXCEPT ![x] = rec] /\ DOMAIN access = Slots
  BY <1>1 DEF TypeOK
<1> HIDE DEF rec, x
<1>4. access'[x] = rec /\ \A y \in Slots : y # x => access'[y] = access[y]
  BY <1>1, <1>3
<1>5. /\ handleBar = [y \in Slots |-> IF access[y] = Absent THEN Absent
                                       ELSE access[y].plain.box.uuid]
      /\ handleBar' = [y \in Slots |-> IF access'[y] = Absent THEN Absent
                                        ELSE access'[y].plain.box.uuid]
  BY DEF handleBar
<1>6. handleBar' = [handleBar EXCEPT ![x] = acc.box.uuid]
  BY <1>1, <1>2, <1>4, <1>5
<1>7. /\ \A y \in Slots : kidsBar'[y] = IF y = x THEN ChildIds(acc) ELSE kidsBar[y]
      /\ kidsBar = [y \in Slots |-> kidsBar[y]]
      /\ kidsBar' = [y \in Slots |-> kidsBar'[y]]
  BY <1>1, <1>2, <1>4 DEF kidsBar, ChildIds
<1>8. kidsBar' = [kidsBar EXCEPT ![x] = ChildIds(acc)]
  BY <1>1, <1>7
<1> QED
  BY <1>6, <1>8 DEF x

LEMMA RegisteredSame ==
    ASSUME \A u \in Users : accounts'[u] # Absent <=> accounts[u] # Absent
    PROVE  registeredBar' = registeredBar
BY DEF registeredBar

LEMMA saveUserRegistered ==
    ASSUME TypeOK, Identities, NEW s \in Sessions, NEW f \in Filenames,
           sessions[s] # Absent, saveUser(s, f), keystore' = keystore
    PROVE  registeredBar' = registeredBar /\ sessions[s].name \in registeredBar
<1>1. AccountsKept
  BY saveUserIdentities
<1>2. /\ sessions[s] \in User /\ accounts[sessions[s].name] # Absent
  BY SessionKeys
<1>3. \A u \in Users : u # sessions[s].name => accounts'[u] = accounts[u]
  <2>1. [sessions[s] EXCEPT !.files = @ \cup {f}].name = sessions[s].name
    BY <1>2 DEF User
  <2> QED
    BY <2>1 DEF saveUser, TypeOK
<1>4. sessions[s].name \in registeredBar
  BY <1>2 DEF registeredBar, User
<1> QED
  BY <1>1, <1>2, <1>3, <1>4, RegisteredSame DEF AccountsKept

(* Whom an invitation is for and whom it is from. *)
Holder(keys, k) == CHOOSE u \in Users : keys[u] # Absent /\ keys[u].enc = k
Signer(keys, k) == CHOOSE u \in Users : keys[u] # Absent /\ keys[u].sig = k

OfferOf(keys, inv) ==
    [to |-> Holder(keys, inv.enc), from |-> Signer(keys, inv.sig), cap |-> inv.box.uuid]

LEMMA OfferDef ==
    /\ offerBar = [p \in DOMAIN invitation |-> OfferOf(keystore, invitation[p])]
    /\ offerBar' = [p \in DOMAIN invitation' |-> OfferOf(keystore', invitation'[p])]
BY DEF offerBar, OfferOf, Holder, Signer

(* KeyPairs of any two key stores. *)
Distinct(keys) ==
    \A u, v \in Users : keys[u] # Absent /\ keys[v] # Absent =>
        /\ keys[u].enc = keys[v].enc => u = v
        /\ keys[u].sig = keys[v].sig => u = v

LEMMA HolderIs ==
    ASSUME NEW keys, Distinct(keys), NEW v \in Users, keys[v] # Absent
    PROVE  Holder(keys, keys[v].enc) = v /\ Signer(keys, keys[v].sig) = v
BY DEF Holder, Signer, Distinct

LEMMA DistinctNow ==
    ASSUME KeyPairs
    PROVE  Distinct(keystore)
BY DEF KeyPairs, Distinct

LEMMA DistinctNext ==
    ASSUME KeyPairs'
    PROVE  Distinct(keystore')
BY DEF KeyPairs, Distinct

LEMMA PublishedPair ==
    ASSUME Identities, NEW v \in Users, accounts[v] # Absent
    PROVE  /\ keystore[v] # Absent
           /\ keystore[v].enc = accounts[v].plain.pke
           /\ keystore[v].sig = accounts[v].plain.ds
<1>1. keystore[v] # Absent
  BY DEF Identities, KeysPublished
<1>2. keystore[v] = [enc |-> accounts[v].plain.pke, sig |-> accounts[v].plain.ds]
  BY DEF Identities, KeysPublished
<1> QED
  BY <1>1, <1>2

LEMMA InvitationKeys ==
    ASSUME RInv, NEW p \in DOMAIN invitation
    PROVE  /\ \E v \in Users : keystore[v] # Absent /\ keystore[v].enc = invitation[p].enc
           /\ \E v \in Users : keystore[v] # Absent /\ keystore[v].sig = invitation[p].sig
<1>1. PICK v \in Users : accounts[v] # Absent /\ accounts[v].plain.pke = invitation[p].enc
  BY DEF RInv, IInv, LinksOpen, InvitationsOpen
<1>2. keystore[v] # Absent /\ keystore[v].enc = invitation[p].enc
  BY <1>1, PublishedPair DEF RInv, IInv
<1>3. \E w \in Users : keystore[w] # Absent /\ keystore[w].sig = invitation[p].sig
  BY DEF RInv, IInv, LinksOpen, InvitationsOpen
<1> QED
  BY <1>2, <1>3

LEMMA OfferSame ==
    ASSUME keystore' = keystore, invitation' = invitation
    PROVE  offerBar' = offerBar
BY DEF offerBar

-----------------------------------------------------------------------------
(* What new and changed mailboxes, inodes and blocks change of the         *)
(* capabilities and of the files.                                          *)

(* Live in terms of the mailboxes mb and the inodes nodes. *)
LiveIn(mb, nodes, m) ==
    /\ mb[m].plain.inode \in DOMAIN nodes
    /\ nodes[mb[m].plain.inode].key = getFileKeys(mb[m].plain.fileKey)

LEMMA AliveDef ==
    /\ aliveBar = {m \in DOMAIN mailbox : LiveIn(mailbox, inode, m)}
    /\ aliveBar' = {m \in DOMAIN mailbox' : LiveIn(mailbox', inode', m)}
BY DEF aliveBar, Live, OpensInode, decrypts, LiveIn

(* A mailbox that is written neither itself nor in its inode's key is as   *)
(* live as it was.                                                         *)
LEMMA LiveKept ==
    ASSUME MailboxesLead, NEW m \in DOMAIN mailbox,
           mailbox'[m].plain.inode = mailbox[m].plain.inode,
           mailbox'[m].plain.fileKey = mailbox[m].plain.fileKey,
           mailbox[m].plain.inode \in DOMAIN inode',
           inode'[mailbox[m].plain.inode].key = inode[mailbox[m].plain.inode].key
    PROVE  LiveIn(mailbox', inode', m) <=> LiveIn(mailbox, inode, m)
BY DEF LiveIn, MailboxesLead

LEMMA TargetPut ==
    ASSUME NEW id, id \notin DOMAIN mailbox, DOMAIN mailbox' = DOMAIN mailbox \cup {id},
           \A m \in DOMAIN mailbox : mailbox'[m].plain.inode = mailbox[m].plain.inode
    PROVE  /\ targetBar' = Promise!With(targetBar, id, mailbox'[id].plain.inode)
           /\ id \notin DOMAIN targetBar
           /\ id \in DOMAIN targetBar'
BY DEF targetBar, Promise!With

ReadsOf(ids, st) == [n \in DOMAIN ids |-> st[ids[n]].plain]

ReadsAt(nodes, st, i) == ReadsOf(nodes[i].plain.blocks, st)

(* The block under each new UUID holds the chunk of its place. *)
LEMMA NewBlocksPlain ==
    ASSUME NEW cs, Len(cs) \in Nat, NEW k, NEW id \in Nat, NEW n \in 1..Len(cs)
    PROVE  /\ id + n - 1 \in id..(id + Len(cs) - 1)
           /\ NewBlocks(cs, k, id)[id + n - 1].plain = cs[n]
<1> DEFINE b == id + n - 1
<1>1. b \in id..(id + Len(cs) - 1) /\ b - id + 1 = n
  OBVIOUS
<1>2. NewBlocks(cs, k, id) = [d \in id..(id + Len(cs) - 1) |->
                                 encryptAndMAC(cs[d - id + 1], getFileKeys(k))]
  BY DEF NewBlocks
<1> HIDE DEF b
<1>3. NewBlocks(cs, k, id)[b] = encryptAndMAC(cs[b - id + 1], getFileKeys(k))
  BY <1>1, <1>2
<1>4. encryptAndMAC(cs[n], getFileKeys(k)).plain = cs[n]
  BY DEF encryptAndMAC
<1>5. NewBlocks(cs, k, id)[b].plain = cs[n]
  BY <1>1, <1>3, <1>4
<1> QED
  BY <1>1, <1>5 DEF b

LEMMA ReadsKept ==
    ASSUME NEW i, inode'[i].plain = inode[i].plain,
           \A n \in DOMAIN inode[i].plain.blocks :
               block'[inode[i].plain.blocks[n]].plain = block[inode[i].plain.blocks[n]].plain
    PROVE  ReadsAt(inode', block', i) = ReadsAt(inode, block, i)
BY DEF ReadsAt, ReadsOf

Plains(st) == {st[i].plain : i \in Nat}

LEMMA ReadsSeq ==
    ASSUME NEW ids \in Seq(Nat), NEW st
    PROVE  /\ ReadsOf(ids, st) \in Seq(Plains(st))
           /\ Len(ReadsOf(ids, st)) = Len(ids)
           /\ \A n \in 1..Len(ids) : ReadsOf(ids, st)[n] = st[ids[n]].plain
<1>1. Len(ids) \in Nat /\ DOMAIN ids = 1..Len(ids) /\ \A n \in 1..Len(ids) : ids[n] \in Nat
  OBVIOUS
<1>2. /\ ReadsOf(ids, st) = [n \in 1..Len(ids) |-> st[ids[n]].plain]
      /\ ReadsOf(ids, st) \in [1..Len(ids) -> Plains(st)]
  BY <1>1 DEF ReadsOf, Plains
<1>3. /\ ReadsOf(ids, st) \in Seq(Plains(st))
      /\ Len(ReadsOf(ids, st)) = Len(ids)
  BY <1>1, <1>2, FunctionIsSeq, Zenon
<1> QED
  BY <1>2, <1>3

(* The chunks of a longer list of blocks are the chunks of its parts. *)
LEMMA ReadsConcat ==
    ASSUME NEW bs \in Seq(Nat), NEW ids \in Seq(Nat), NEW st
    PROVE  ReadsOf(bs \o ids, st) = ReadsOf(bs, st) \o ReadsOf(ids, st)
<1> DEFINE S    == Plains(st)
           both == bs \o ids
           old  == ReadsOf(bs, st)
           new  == ReadsOf(ids, st)
           all  == old \o new
<1>1. Len(bs) \in Nat /\ Len(ids) \in Nat
  OBVIOUS
<1>2. /\ old \in Seq(S) /\ Len(old) = Len(bs) /\ \A n \in 1..Len(bs) : old[n] = st[bs[n]].plain
      /\ new \in Seq(S) /\ Len(new) = Len(ids) /\ \A n \in 1..Len(ids) : new[n] = st[ids[n]].plain
  <2>1. old \in Seq(S) /\ Len(old) = Len(bs) /\ \A n \in 1..Len(bs) : old[n] = st[bs[n]].plain
    BY ReadsSeq
  <2>2. new \in Seq(S) /\ Len(new) = Len(ids) /\ \A n \in 1..Len(ids) : new[n] = st[ids[n]].plain
    BY ReadsSeq
  <2> HIDE DEF old, new, S
  <2> QED
    BY <2>1, <2>2
<1>3. /\ both \in Seq(Nat) /\ Len(both) = Len(bs) + Len(ids)
      /\ \A n \in 1..(Len(bs) + Len(ids)) :
             both[n] = IF n <= Len(bs) THEN bs[n] ELSE ids[n - Len(bs)]
  BY ConcatProperties
<1> HIDE DEF old, new, S
<1>4. /\ all \in Seq(S) /\ Len(all) = Len(bs) + Len(ids)
      /\ \A n \in 1..(Len(bs) + Len(ids)) :
             all[n] = IF n <= Len(bs) THEN old[n] ELSE new[n - Len(bs)]
  <2>1. /\ all \in Seq(S) /\ Len(all) = Len(old) + Len(new)
        /\ \A n \in 1..(Len(old) + Len(new)) :
               all[n] = IF n <= Len(old) THEN old[n] ELSE new[n - Len(old)]
    BY <1>2, ConcatProperties
  <2> QED
    BY <2>1, <1>2
<1> HIDE DEF both, all
<1>5. ASSUME NEW n \in 1..(Len(bs) + Len(ids)) PROVE st[both[n]].plain = all[n]
  <2>1. CASE n <= Len(bs)
    <3>1. n \in 1..Len(bs)
      BY <1>1, <2>1
    <3> QED
      BY <3>1, <2>1, <1>2, <1>3, <1>4
  <2>2. CASE n > Len(bs)
    <3>1. n - Len(bs) \in 1..Len(ids) /\ ~(n <= Len(bs))
      BY <1>1, <2>2
    <3> QED
      BY <3>1, <1>2, <1>3, <1>4
  <2> QED
    BY <1>1, <2>1, <2>2
<1>6. all = [n \in 1..(Len(bs) + Len(ids)) |-> all[n]]
  BY <1>4
<1>7. DOMAIN both = 1..(Len(bs) + Len(ids))
  BY <1>3
<1>8. ReadsOf(both, st) = all
  BY <1>5, <1>6, <1>7 DEF ReadsOf
<1> QED
  BY <1>8 DEF both, all, old, new

LEMMA ContentDef ==
    /\ contentBar = [i \in DOMAIN inode |-> ReadsAt(inode, block, i)]
    /\ contentBar' = [i \in DOMAIN inode' |-> ReadsAt(inode', block', i)]
BY DEF contentBar, ReadsAt, ReadsOf

LEMMA ContentSame ==
    ASSUME DOMAIN inode' = DOMAIN inode,
           \A i \in DOMAIN inode : ReadsAt(inode', block', i) = ReadsAt(inode, block, i)
    PROVE  contentBar' = contentBar
BY ContentDef

LEMMA ContentPut ==
    ASSUME NEW id, NEW chunks, id \notin DOMAIN inode, DOMAIN inode' = DOMAIN inode \cup {id},
           \A i \in DOMAIN inode : ReadsAt(inode', block', i) = ReadsAt(inode, block, i),
           ReadsAt(inode', block', id) = chunks
    PROVE  /\ contentBar' = Promise!With(contentBar, id, chunks)
           /\ id \notin DOMAIN contentBar
           /\ id \in DOMAIN contentBar'
<1>1. DOMAIN contentBar = DOMAIN inode /\ DOMAIN contentBar' = DOMAIN inode \cup {id}
  BY ContentDef
<1>2. \A i \in DOMAIN contentBar' : contentBar'[i] = IF i = id THEN chunks ELSE contentBar[i]
  BY ContentDef
<1>3. contentBar' = [i \in DOMAIN contentBar \cup {id} |-> IF i = id THEN chunks ELSE contentBar[i]]
  <2>1. contentBar' = [i \in DOMAIN contentBar' |-> contentBar'[i]]
    BY ContentDef
  <2> QED
    BY <2>1, <1>1, <1>2
<1> QED
  BY <1>1, <1>3 DEF Promise!With

-----------------------------------------------------------------------------
(* The operations, one by one *)

LEMMA StoreFilePromise ==
    ASSUME RInv, NEW s \in Sessions, NEW f \in Filenames, NEW c \in Contents, StoreFile(s, f, c)
    PROVE  Promise!Store(sessions[s].name, f, ByteToBlock(c), fresh + 2, fresh + 1)
<1> DEFINE me  == sessions[s]
           cs  == ByteToBlock(c)
           b0  == fresh + 4
           acc == [box |-> [uuid |-> fresh + 2, key |-> fresh + 3], children |-> NoChildren]
           ids == BlockUUIDs(cs, b0)
<1> USE DEF RInv, IInv
<1>1. fresh \in Nat /\ b0 \in Nat /\ Len(cs) \in Nat /\ cs \in Seq(Seq(Bytes))
  BY Chunks, ContentsAssumption DEF TypeOK
<1>2. me \in User /\ acc \in Access
  <2>1. me \in User
    BY SessionKeys DEF StoreFile
  <2>2. acc.box \in Pointer /\ NoChildren \in Children
    BY <1>1 DEF Pointer, Children, NoChildren
  <2> QED
    BY <2>1, <2>2 DEF Access
<1>3. /\ handleBar' = [handleBar EXCEPT ![<<me.name, f>>] = fresh + 2]
      /\ kidsBar' = [kidsBar EXCEPT ![<<me.name, f>>] = Promise!NoKids]
  <2>1. access' = [access EXCEPT ![Slot(me, f)] =
                     encryptAndMAC(acc, getPersonalKey(me.master, f))]
    BY DEF StoreFile
  <2>2. /\ handleBar' = [handleBar EXCEPT ![<<me.name, f>>] = acc.box.uuid]
        /\ kidsBar' = [kidsBar EXCEPT ![<<me.name, f>>] = ChildIds(acc)]
    <3>1. TypeOK
      OBVIOUS
    <3>2. me \in User /\ acc \in Access
      BY <1>2
    <3> HIDE DEF acc, me
    <3>3. kidsBar' = [kidsBar EXCEPT ![<<me.name, f>>] = ChildIds(acc)]
      BY <3>2, <2>1, <3>1, BarUpdate
    <3>4. handleBar' = [handleBar EXCEPT ![<<me.name, f>>] = acc.box.uuid]
      BY <3>2, <2>1, <3>1, BarUpdate
    <3> QED
      BY <3>3, <3>4
  <2>3. ChildIds(acc) = Promise!NoKids
    BY DEF ChildIds, NoChildren, Promise!NoKids
  <2> QED
    BY <2>2, <2>3
<1>4. registeredBar' = registeredBar /\ me.name \in registeredBar
  BY saveUserRegistered DEF StoreFile
<1>5. offerBar' = offerBar
  BY OfferSame DEF StoreFile
<1>6. /\ \A m \in DOMAIN mailbox : m \in Nat /\ m < fresh
      /\ \A i \in DOMAIN inode : i \in Nat /\ i < fresh
      /\ \A b \in DOMAIN block : b \in Nat /\ b < fresh
  BY DEF TypeOK, IsStore, FreshUnused
<1>7. /\ DOMAIN mailbox' = DOMAIN mailbox \cup {fresh + 2}
      /\ fresh + 2 \notin DOMAIN mailbox
      /\ mailbox'[fresh + 2].plain = [fileKey |-> fresh, inode |-> fresh + 1]
      /\ \A m \in DOMAIN mailbox : mailbox'[m] = mailbox[m]
  <2>1. mailbox' = Put(mailbox, fresh + 2,
                       encryptAndMAC([fileKey |-> fresh, inode |-> fresh + 1],
                                     getMailKeys(fresh + 3)))
    BY DEF StoreFile
  <2>2. encryptAndMAC([fileKey |-> fresh, inode |-> fresh + 1],
                      getMailKeys(fresh + 3)).plain
            = [fileKey |-> fresh, inode |-> fresh + 1]
    BY DEF encryptAndMAC
  <2> QED
    BY <2>1, <2>2, <1>1, <1>6 DEF Put, PutAll
<1>8. /\ DOMAIN inode' = DOMAIN inode \cup {fresh + 1}
      /\ fresh + 1 \notin DOMAIN inode
      /\ inode'[fresh + 1].key = getFileKeys(fresh)
      /\ inode'[fresh + 1].plain.blocks = ids
      /\ \A i \in DOMAIN inode : inode'[i] = inode[i]
  <2> DEFINE rec == encryptAndMAC([size |-> Len(c), blocks |-> ids], getFileKeys(fresh))
  <2>1. inode' = Put(inode, fresh + 1, rec)
    BY DEF StoreFile
  <2>2. rec.key = getFileKeys(fresh) /\ rec.plain.blocks = ids
    BY DEF encryptAndMAC
  <2> HIDE DEF rec
  <2> QED
    BY <2>1, <2>2, <1>1, <1>6 DEF Put, PutAll
<1>9. /\ DOMAIN ids = 1..Len(cs)
      /\ \A n \in 1..Len(cs) : /\ ids[n] = b0 + n - 1
                                /\ b0 + n - 1 \in DOMAIN block'
                                /\ block'[b0 + n - 1].plain = cs[n]
      /\ \A b \in DOMAIN block : block'[b] = block[b]
  <2>1. block' = PutAll(block, NewBlocks(cs, fresh, b0))
    BY DEF StoreFile
  <2>2. /\ DOMAIN NewBlocks(cs, fresh, b0) = b0..(b0 + Len(cs) - 1)
        /\ DOMAIN ids = 1..Len(cs)
        /\ \A n \in 1..Len(cs) : ids[n] = b0 + n - 1
    BY <1>1, NewBlocksFacts
  <2>3. ASSUME NEW n \in 1..Len(cs)
        PROVE  b0 + n - 1 \in DOMAIN NewBlocks(cs, fresh, b0) /\ NewBlocks(cs, fresh, b0)[b0 + n - 1].plain = cs[n]
    <3> HIDE DEF cs, b0
    <3> QED
      BY <1>1, <2>2, NewBlocksPlain
  <2>4. \A b \in DOMAIN block : b \notin DOMAIN NewBlocks(cs, fresh, b0)
    BY <2>2, <1>1, <1>6
  <2> HIDE DEF cs, ids, b0
  <2> QED
    BY <2>1, <2>2, <2>3, <2>4 DEF PutAll
<1> HIDE DEF cs, ids, b0, me, acc
<1>10. /\ targetBar' = Promise!With(targetBar, fresh + 2, fresh + 1)
       /\ fresh + 2 \notin DOMAIN targetBar
  BY <1>7, TargetPut
<1>11. ReadsAt(inode', block', fresh + 1) = cs
  <2>1. ReadsAt(inode', block', fresh + 1) = [n \in 1..Len(cs) |-> block'[ids[n]].plain]
    BY <1>8, <1>9 DEF ReadsAt, ReadsOf
  <2>2. cs = [n \in 1..Len(cs) |-> cs[n]]
    BY <1>1
  <2> QED
    BY <2>1, <2>2, <1>9
<1>12. \A i \in DOMAIN inode : ReadsAt(inode', block', i) = ReadsAt(inode, block, i)
  BY <1>8, <1>9, ReadsKept DEF FilesWhole
<1>13. /\ contentBar' = Promise!With(contentBar, fresh + 1, cs)
       /\ fresh + 1 \notin DOMAIN contentBar
  BY <1>8, <1>11, <1>12, ContentPut
<1>14. \A m \in DOMAIN mailbox : LiveIn(mailbox', inode', m) <=> LiveIn(mailbox, inode, m)
  BY <1>7, <1>8, LiveKept DEF LinksOpen, MailboxesLead
<1>15. LiveIn(mailbox', inode', fresh + 2)
  BY <1>7, <1>8 DEF LiveIn
<1>16. aliveBar' = aliveBar \cup {fresh + 2}
  BY <1>7, <1>14, <1>15, AliveDef
<1> QED
  BY <1>3, <1>4, <1>5, <1>10, <1>13, <1>16 DEF Promise!Store, cs, me

(* The name through which a session reaches a mailbox. *)
LEMMA OpenHandle ==
    ASSUME RInv, NEW s \in Sessions, NEW f \in Filenames, sessions[s] # Absent,
           OpensAccess(sessions[s], f), OpensMailbox(AccessOf(sessions[s], f).box)
    PROVE  LET me == sessions[s]
               x  == <<sessions[s].name, f>>
           IN  /\ me \in User
               /\ AccessOf(me, f) \in Access
               /\ access[x] # Absent /\ AccessOf(me, f) = access[x].plain
               /\ x \in Slots
               /\ handleBar[x] # Absent
               /\ handleBar[x] = AccessOf(me, f).box.uuid
               /\ handleBar[x] \in DOMAIN mailbox
               /\ targetBar[handleBar[x]] = MailboxOf(me, f).inode
               /\ handleBar[x] \in aliveBar <=> OpensInode(MailboxOf(me, f))
               /\ kidsBar[x] = ChildIds(AccessOf(me, f))
<1> USE DEF RInv, IInv
<1> DEFINE me == sessions[s]
           x  == <<me.name, f>>
<1>1. me \in User /\ me.name \in Users
  BY SessionKeys DEF User
<1>2. /\ AccessOf(me, f) \in Access /\ access[x] # Absent /\ AccessOf(me, f) = access[x].plain
  BY <1>1, ReadTypes DEF OpensAccess, AccessOf, Slot
<1>3. /\ x \in Slots /\ handleBar[x] # Absent
      /\ handleBar[x] = access[x].plain.box.uuid
      /\ kidsBar[x] = ChildIds(access[x].plain)
  BY <1>1, <1>2, SlotBars
<1>4. handleBar[x] \in DOMAIN mailbox /\ handleBar[x] = AccessOf(me, f).box.uuid
  BY <1>2, <1>3 DEF OpensMailbox
<1>5. targetBar[handleBar[x]] = MailboxOf(me, f).inode
  BY <1>4 DEF targetBar, MailboxOf
<1>6. handleBar[x] \in aliveBar <=> OpensInode(MailboxOf(me, f))
  BY <1>4 DEF aliveBar, Live, MailboxOf
<1> QED
  BY <1>1, <1>2, <1>3, <1>4, <1>5, <1>6

LEMMA AppendToFilePromise ==
    ASSUME RInv, NEW s \in Sessions, NEW f \in Filenames, NEW c \in Contents,
           AppendToFile(s, f, c)
    PROVE  Promise!Extend(sessions[s].name, f, ByteToBlock(c))
<1> USE DEF RInv, IInv
<1> DEFINE me   == sessions[s]
           x    == <<me.name, f>>
           node == MailboxOf(me, f)
           n0   == node.inode
           cs   == ByteToBlock(c)
           bs   == inode[n0].plain.blocks
           ids  == BlockUUIDs(cs, fresh)
           old  == ReadsAt(inode, block, n0)
           rec  == encryptAndMAC(Appended(InodeOf(me, f), c, fresh), getFileKeys(node.fileKey))
<1>1. /\ fresh \in Nat /\ node.fileKey \in Nat /\ n0 \in DOMAIN inode
      /\ inode[n0].key = getFileKeys(node.fileKey)
      /\ cs \in Seq(Seq(Bytes)) /\ Len(cs) \in Nat
  BY OpensFileTypes, Chunks, ContentsAssumption
     DEF TypeOK, AppendToFile, MailboxNode, OpensFile, OpensInode, decrypts
<1>2. handleBar[x] \in aliveBar /\ targetBar[handleBar[x]] = n0
  BY OpenHandle DEF AppendToFile, OpensFile
<1>3. /\ bs \in Seq(Nat) /\ Len(bs) \in Nat /\ DOMAIN bs = 1..Len(bs)
      /\ ids \in Seq(Nat) /\ Len(ids) = Len(cs)
  BY <1>1, BlocksType, NewBlocksType
<1>4. /\ block' = PutAll(block, NewBlocks(cs, node.fileKey, fresh))
      /\ inode' = Put(inode, n0, rec)
      /\ mailbox' = mailbox
  BY DEF AppendToFile
<1>5. rec.key = inode[n0].key /\ rec.plain.blocks = bs \o ids
  BY <1>1 DEF encryptAndMAC, Appended, InodeOf
<1>6. /\ DOMAIN NewBlocks(cs, node.fileKey, fresh) = fresh..(fresh + Len(cs) - 1)
      /\ \A n \in 1..Len(cs) : ids[n] = fresh + n - 1
  BY <1>1, NewBlocksFacts
<1>7. \A b \in DOMAIN block : b \notin fresh..(fresh + Len(cs) - 1)
  BY <1>1 DEF TypeOK, IsStore, FreshUnused
<1> HIDE DEF rec, ids, cs
<1>8. /\ DOMAIN inode' = DOMAIN inode
      /\ inode'[n0].key = inode[n0].key
      /\ inode'[n0].plain.blocks = bs \o ids
      /\ \A i \in DOMAIN inode : i # n0 => inode'[i] = inode[i]
  BY <1>1, <1>4, <1>5 DEF Put, PutAll
<1>9. /\ \A b \in DOMAIN block : block'[b] = block[b]
      /\ \A n \in 1..Len(cs) : block'[ids[n]].plain = cs[n]
  <2>1. \A n \in 1..Len(cs) : /\ fresh + n - 1 \in fresh..(fresh + Len(cs) - 1)
                               /\ NewBlocks(cs, node.fileKey, fresh)[fresh + n - 1].plain = cs[n]
    BY <1>1, NewBlocksPlain
  <2> QED
    BY <2>1, <1>4, <1>6, <1>7 DEF PutAll
<1>10. \A n \in 1..Len(bs) : bs[n] \in DOMAIN block
  BY <1>1, <1>3 DEF FilesWhole
<1>11. ReadsOf(bs, block') = old
  BY <1>3, <1>9, <1>10 DEF ReadsAt, ReadsOf
<1>12. ReadsAt(inode', block', n0) = old \o cs
  <2>1. ReadsOf(ids, block') = cs
    <3>1. DOMAIN ids = 1..Len(cs) /\ cs = [n \in 1..Len(cs) |-> cs[n]]
      BY <1>1, <1>3
    <3> QED
      BY <3>1, <1>9 DEF ReadsOf
  <2>2. ReadsAt(inode', block', n0) = ReadsOf(bs \o ids, block')
    BY <1>8 DEF ReadsAt
  <2> HIDE DEF old, bs
  <2> QED
    BY <2>1, <2>2, <1>3, <1>11, ReadsConcat
<1>13. \A i \in DOMAIN inode : i # n0 => ReadsAt(inode', block', i) = ReadsAt(inode, block, i)
  BY <1>8, <1>9, ReadsKept DEF FilesWhole
<1>14. contentBar' = [contentBar EXCEPT ![n0] = @ \o cs]
  <2> HIDE DEF n0
  <2>1. contentBar[n0] = old
    BY <1>1, ContentDef
  <2> HIDE DEF old
  <2>2. contentBar'[n0] = old \o cs
    BY <1>1, <1>8, <1>12, ContentDef
  <2>3. \A i \in DOMAIN inode : i # n0 => contentBar'[i] = contentBar[i]
    BY <1>8, <1>13, ContentDef
  <2>4. /\ contentBar = [i \in DOMAIN inode |-> contentBar[i]]
        /\ contentBar' = [i \in DOMAIN inode |-> contentBar'[i]]
    BY <1>8, ContentDef
  <2> QED
    BY <2>1, <2>2, <2>3, <2>4, <1>1
<1>15. aliveBar' = aliveBar /\ targetBar' = targetBar
  <2>1. \A m \in DOMAIN mailbox : LiveIn(mailbox', inode', m) <=> LiveIn(mailbox, inode, m)
    BY <1>4, <1>8, LiveKept DEF LinksOpen, MailboxesLead
  <2>2. targetBar' = targetBar
    BY <1>4 DEF targetBar
  <2> QED
    BY <2>1, <2>2, <1>4, AliveDef
<1>16. offerBar' = offerBar /\ registeredBar' = registeredBar
       /\ handleBar' = handleBar /\ kidsBar' = kidsBar
  BY DEF AppendToFile, offerBar, registeredBar, handleBar, kidsBar
<1> HIDE DEF x, n0
<1>17. contentBar' = [contentBar EXCEPT ![targetBar[handleBar[x]]] = @ \o cs]
  BY <1>2, <1>14
<1> QED
  BY <1>2, <1>15, <1>16, <1>17 DEF Promise!Extend, cs, me, x

LEMMA InitUserPromise ==
    ASSUME RInv, NEW s \in Sessions, NEW u \in Users, NEW p \in Passwords, InitUser(s, u, p)
    PROVE  Promise!Register(u)
<1> USE DEF RInv, IInv
<1>1. Distinct(keystore) /\ Distinct(keystore')
  <2>1. [Next]_vars
    BY DEF Next
  <2>2. TypeOK'
    BY InitUserType
  <2>3. KeyPairs'
    BY <2>1, <2>2, KeyPairsStep
  <2> QED
    BY <2>3, DistinctNow, DistinctNext
<1>2. /\ accounts[u] = Absent /\ keystore[u] = Absent
      /\ \A v \in Users : v # u => keystore'[v] = keystore[v]
  BY DEF InitUser, TypeOK, Identities, KeysPublished
<1>3. \A v \in Users : keystore[v] # Absent =>
          keystore'[v] # Absent /\ keystore'[v].enc = keystore[v].enc
                               /\ keystore'[v].sig = keystore[v].sig
  BY <1>2
<1>4. ASSUME NEW q \in DOMAIN invitation
      PROVE  OfferOf(keystore', invitation[q]) = OfferOf(keystore, invitation[q])
  <2>1. Holder(keystore', invitation[q].enc) = Holder(keystore, invitation[q].enc)
    <3>1. PICK v \in Users : keystore[v] # Absent /\ keystore[v].enc = invitation[q].enc
      BY InvitationKeys
    <3> QED
      BY <3>1, <1>1, <1>3, HolderIs
  <2>2. Signer(keystore', invitation[q].sig) = Signer(keystore, invitation[q].sig)
    <3>1. PICK v \in Users : keystore[v] # Absent /\ keystore[v].sig = invitation[q].sig
      BY InvitationKeys
    <3> QED
      BY <3>1, <1>1, <1>3, HolderIs
  <2> QED
    BY <2>1, <2>2 DEF OfferOf
<1>5. offerBar' = offerBar
  <2>1. invitation' = invitation
    BY DEF InitUser
  <2> QED
    BY <2>1, <1>4, OfferDef
<1>6. registeredBar' = registeredBar \cup {u}
  <2> DEFINE me == [name |-> u, pke |-> fresh, ds |-> fresh + 1,
                    master |-> <<u, p>>, files |-> {}]
  <2>1. accounts' = [accounts EXCEPT ![u] = encryptAndMAC(me, getUserKeys(me.master))]
    BY DEF InitUser
  <2>2. encryptAndMAC(me, getUserKeys(me.master)) # Absent
    <3>1. me \in User /\ getUserKeys(me.master) \in {"user"} \X MasterKeys
      BY DEF TypeOK, User, MasterKeys, getUserKeys
    <3> HIDE DEF me
    <3> QED
      BY <3>1, AbsentAssumption DEF encryptAndMAC
  <2> HIDE DEF me
  <2>3. accounts'[u] # Absent /\ \A v \in Users : v # u => accounts'[v] = accounts[v]
    BY <2>1, <2>2 DEF TypeOK
  <2> QED
    BY <2>3 DEF registeredBar
<1>7. /\ handleBar' = handleBar /\ kidsBar' = kidsBar /\ targetBar' = targetBar
      /\ aliveBar' = aliveBar /\ contentBar' = contentBar
  BY AliveDef DEF InitUser, handleBar, kidsBar, targetBar, contentBar
<1> QED
  BY <1>5, <1>6, <1>7 DEF Promise!Register

LEMMA Unpromised ==
    ASSUME UNCHANGED <<accounts, keystore, access, mailbox, inode, block, invitation>>
    PROVE  UNCHANGED Promise!vars
BY AliveDef
   DEF Promise!vars, registeredBar, handleBar, kidsBar, targetBar, contentBar, offerBar

LEMMA AcceptInvitationPromise ==
    ASSUME RInv, NEW s \in Sessions, NEW f \in Filenames, NEW u \in Users,
           NEW p \in DOMAIN invitation, AcceptInvitation(s, u, p, f)
    PROVE  Promise!Accept(sessions[s].name, p, f)
<1> USE DEF RInv, IInv
<1> DEFINE me  == sessions[s]
           inv == invitation[p]
           acc == [box |-> inv.box, children |-> NoChildren]
<1>1. /\ me \in User /\ me.name \in Users /\ accounts[me.name] # Absent
      /\ me.pke = accounts[me.name].plain.pke
  BY SessionKeys DEF AcceptInvitation, User
<1>2. keystore[me.name] # Absent /\ keystore[me.name].enc = me.pke
  BY <1>1, PublishedPair
<1>3. inv.enc = keystore[me.name].enc
  BY <1>2 DEF AcceptInvitation
<1>4. offerBar[p].to = me.name /\ offerBar[p].cap = inv.box.uuid
  <2>1. Holder(keystore, inv.enc) = me.name
    BY <1>1, <1>2, <1>3, HolderIs, DistinctNow
  <2>2. offerBar[p] = OfferOf(keystore, inv)
    BY OfferDef
  <2> QED
    BY <2>1, <2>2 DEF OfferOf
<1>5. acc \in Access
  <2>1. inv.box \in Pointer /\ NoChildren \in Children
    BY DEF TypeOK, IsStore, Invitation, Children, NoChildren
  <2> QED
    BY <2>1 DEF Access
<1>6. access' = [access EXCEPT ![Slot(me, f)] =
                     encryptAndMAC(acc, getPersonalKey(me.master, f))]
  BY DEF AcceptInvitation
<1>7. ChildIds(acc) = Promise!NoKids /\ acc.box.uuid = inv.box.uuid
  BY DEF ChildIds, NoChildren, Promise!NoKids
<1>8. TypeOK /\ me \in User
  BY <1>1
<1>9. registeredBar' = registeredBar
  BY saveUserRegistered DEF AcceptInvitation
<1>10. /\ targetBar' = targetBar /\ aliveBar' = aliveBar /\ contentBar' = contentBar
       /\ offerBar' = offerBar
  BY AliveDef, OfferSame DEF AcceptInvitation, targetBar, contentBar
<1> HIDE DEF acc, me, inv
<1>11. handleBar' = [handleBar EXCEPT ![<<me.name, f>>] = acc.box.uuid]
  BY <1>5, <1>6, <1>8, BarUpdate
<1>12. kidsBar' = [kidsBar EXCEPT ![<<me.name, f>>] = ChildIds(acc)]
  BY <1>5, <1>6, <1>8, BarUpdate
<1> QED
  BY <1>4, <1>7, <1>9, <1>10, <1>11, <1>12 DEF Promise!Accept, me

LEMMA NestedExcept ==
    ASSUME NEW g, NEW a, NEW b, NEW v
    PROVE  [g EXCEPT ![a][b] = v] = [g EXCEPT ![a] = [g[a] EXCEPT ![b] = v]]
OBVIOUS

LEMMA HandleAgain ==
    ASSUME NEW x \in Slots, handleBar' = [handleBar EXCEPT ![x] = handleBar[x]]
    PROVE  handleBar' = handleBar
<1>1. handleBar = [y \in Slots |-> handleBar[y]]
  BY DEF handleBar
<1> QED
  BY <1>1

(* What both outcomes of CreateInvitation share: the new mailbox is a copy *)
(* of the sender's.                                                        *)
LEMMA MintPromise ==
    ASSUME RInv, NEW s \in Sessions, NEW f \in Filenames, NEW r \in Users,
           CreateInvitation(s, f, r) \/ CreateInvitationFails(s, f, r),
           handleBar' = handleBar
    PROVE  Promise!Mint(sessions[s].name, f, fresh)
<1> USE DEF RInv, IInv
<1> DEFINE me == sessions[s]
           x  == <<me.name, f>>
           m0 == handleBar[x]
<1>1. /\ m0 # Absent /\ m0 \in DOMAIN mailbox
      /\ m0 = AccessOf(me, f).box.uuid
  BY OpenHandle DEF CreateInvitation, CreateInvitationFails, CanInvite
<1>2. /\ DOMAIN mailbox' = DOMAIN mailbox \cup {fresh}
      /\ fresh \notin DOMAIN mailbox
      /\ mailbox'[fresh].plain = mailbox[m0].plain
      /\ \A m \in DOMAIN mailbox : mailbox'[m] = mailbox[m]
  BY <1>1, InviteFresh DEF MailboxOf
<1>3. inode' = inode /\ block' = block /\ accounts' = accounts
  BY DEF CreateInvitation, CreateInvitationFails
<1>4. contentBar' = contentBar /\ registeredBar' = registeredBar
  BY <1>3 DEF contentBar, registeredBar
<1> HIDE DEF m0
<1>5. /\ targetBar' = Promise!With(targetBar, fresh, mailbox'[fresh].plain.inode)
      /\ fresh \notin DOMAIN targetBar
      /\ targetBar[m0] = mailbox'[fresh].plain.inode
  BY <1>1, <1>2, TargetPut DEF targetBar
<1>6. /\ \A m \in DOMAIN mailbox : LiveIn(mailbox', inode', m) <=> LiveIn(mailbox, inode, m)
      /\ LiveIn(mailbox', inode', fresh) <=> LiveIn(mailbox, inode, m0)
  BY <1>2, <1>3 DEF LiveIn
<1>7. aliveBar' = IF m0 \in aliveBar THEN aliveBar \cup {fresh} ELSE aliveBar
  BY <1>1, <1>2, <1>6, AliveDef
<1> QED
  BY <1>1, <1>4, <1>5, <1>7 DEF Promise!Mint, m0

LEMMA CreateInvitationPromise ==
    ASSUME RInv, NEW s \in Sessions, NEW f \in Filenames, NEW r \in Users,
           CreateInvitation(s, f, r)
    PROVE  Promise!Offer(sessions[s].name, f, r, fresh, fresh + 2)
<1> USE DEF RInv, IInv
<1> DEFINE me  == sessions[s]
           x   == <<me.name, f>>
           old == AccessOf(me, f)
           box == [uuid |-> fresh, key |-> fresh + 1]
           acc == WithChild(old, r, box)
           inv == [enc |-> keystore[r].enc, sig |-> me.ds, box |-> box]
<1>1. /\ me \in User /\ old \in Access /\ x \in Slots
      /\ handleBar[x] = old.box.uuid /\ kidsBar[x] = ChildIds(old)
  BY OpenHandle DEF CreateInvitation, CanInvite
<1>2. fresh \in Nat /\ box \in Pointer
  BY DEF TypeOK, Pointer
<1>3. /\ acc \in Access /\ acc.box = old.box /\ acc.children[r] = box
      /\ \A d \in Users : d # r => acc.children[d] = old.children[d]
  BY <1>1, <1>2 DEF WithChild, Access, Children
<1>4. access' = [access EXCEPT ![Slot(me, f)] =
                     encryptAndMAC(acc, getPersonalKey(me.master, f))]
  BY DEF CreateInvitation
<1>5. TypeOK /\ me \in User /\ acc \in Access
  BY <1>1, <1>3
<1>6. box # Absent /\ box.uuid = fresh
  BY <1>2, AbsentAssumption
<1> HIDE DEF acc, me, old, box
<1>7. handleBar' = [handleBar EXCEPT ![x] = acc.box.uuid]
  BY <1>4, <1>5, BarUpdate
<1>8. kidsBar' = [kidsBar EXCEPT ![x] = ChildIds(acc)]
  BY <1>4, <1>5, BarUpdate
<1> HIDE DEF x
<1>9. handleBar' = handleBar
  BY <1>1, <1>3, <1>7, HandleAgain
<1>10. ChildIds(acc) = [ChildIds(old) EXCEPT ![r] = fresh]
  BY <1>3, <1>6 DEF ChildIds
<1>11. kidsBar' = [kidsBar EXCEPT ![x][r] = fresh]
  <2>1. kidsBar' = [kidsBar EXCEPT ![x] = [kidsBar[x] EXCEPT ![r] = fresh]]
    BY <1>1, <1>8, <1>10
  <2> QED
    BY <2>1, NestedExcept
<1> USE DEF me, x, box
<1>12. r \in registeredBar
  BY DEF CreateInvitation, registeredBar, Identities, KeysPublished
<1>13. /\ DOMAIN invitation' = DOMAIN invitation \cup {fresh + 2}
       /\ fresh + 2 \notin DOMAIN invitation
       /\ invitation'[fresh + 2] = inv
       /\ \A p \in DOMAIN invitation : invitation'[p] = invitation[p]
  <2>1. invitation' = Put(invitation, fresh + 2, inv)
    BY DEF CreateInvitation
  <2>2. \A p \in DOMAIN invitation : p \in Nat /\ p < fresh
    BY DEF TypeOK, IsStore, FreshUnused
  <2> HIDE DEF inv
  <2> QED
    BY <1>2, <2>1, <2>2 DEF Put, PutAll
<1>14. OfferOf(keystore', inv) = [to |-> r, from |-> me.name, cap |-> fresh]
  <2>1. /\ keystore[r] # Absent /\ keystore' = keystore
    BY DEF CreateInvitation
  <2>2. me.name \in Users /\ accounts[me.name] # Absent /\ me.ds = accounts[me.name].plain.ds
    BY SessionKeys DEF CreateInvitation, CanInvite, User
  <2>3. keystore[me.name] # Absent /\ keystore[me.name].sig = me.ds
    BY <2>2, PublishedPair
  <2>4. Holder(keystore, keystore[r].enc) = r
    BY <2>1, HolderIs, DistinctNow
  <2>5. Signer(keystore, me.ds) = me.name
    BY <2>2, <2>3, HolderIs, DistinctNow
  <2>6. inv.enc = keystore[r].enc /\ inv.sig = me.ds /\ inv.box.uuid = fresh
    OBVIOUS
  <2> HIDE DEF inv, me
  <2> QED
    BY <2>1, <2>4, <2>5, <2>6 DEF OfferOf
<1>15. /\ offerBar' = Promise!With(offerBar, fresh + 2, [to |-> r, from |-> me.name, cap |-> fresh])
       /\ fresh + 2 \notin DOMAIN offerBar
  <2> DEFINE o == [to |-> r, from |-> me.name, cap |-> fresh]
  <2>1. keystore' = keystore
    BY DEF CreateInvitation
  <2>2. OfferOf(keystore', inv) = o
    BY <1>14
  <2> HIDE DEF o, inv
  <2>3. /\ offerBar' = Promise!With(offerBar, fresh + 2, o)
        /\ fresh + 2 \notin DOMAIN offerBar
    BY <1>13, <2>1, <2>2, OfferDef DEF Promise!With
  <2> QED
    BY <2>3 DEF o
<1>16. Promise!Mint(me.name, f, fresh)
  BY <1>9, MintPromise
<1> HIDE DEF me
<1> QED
  BY <1>11, <1>12, <1>15, <1>16 DEF Promise!Offer, me

LEMMA CreateInvitationFailsPromise ==
    ASSUME RInv, NEW s \in Sessions, NEW f \in Filenames, NEW r \in Users,
           CreateInvitationFails(s, f, r)
    PROVE  Promise!OfferFails(sessions[s].name, f, r, fresh)
<1>1. handleBar' = handleBar /\ kidsBar' = kidsBar /\ offerBar' = offerBar
  BY OfferSame DEF CreateInvitationFails, handleBar, kidsBar
<1>2. Promise!Mint(sessions[s].name, f, fresh)
  BY <1>1, MintPromise
<1>3. r \notin registeredBar
  BY DEF CreateInvitationFails, registeredBar, RInv, IInv, Identities, KeysPublished
<1> QED
  BY <1>1, <1>2, <1>3 DEF Promise!OfferFails

(* The mailboxes that receive the new file key are those of all children   *)
(* but the revoked one, and they lead to the caller's file.                *)
LEMMA KeptBoxes ==
    ASSUME RInv, NEW s \in Sessions, NEW f \in Filenames, NEW r \in Users,
           RevokeAccess(s, f, r)
    PROVE  LET old  == AccessOf(sessions[s], f)
               x    == <<sessions[s].name, f>>
               kept == RemainingBoxes(old.children, r)
           IN  /\ kept = {kidsBar[x][c] : c \in Users \ {r}} \ {Absent}
               /\ \A m \in kept : /\ m \in DOMAIN mailbox
                                   /\ mailbox[m].plain.inode
                                          = MailboxOf(sessions[s], f).inode
<1> USE DEF RInv, IInv
<1> DEFINE me   == sessions[s]
           x    == <<me.name, f>>
           old  == AccessOf(me, f)
           kept == RemainingBoxes(old.children, r)
<1>1. /\ me \in User /\ old \in Access /\ access[x] # Absent /\ old = access[x].plain
      /\ kidsBar[x] = ChildIds(old)
  BY OpenHandle DEF RevokeAccess, OpensFile
<1>2. PointersOpen(mailbox, old)
  BY <1>1, SlotsOpenDef DEF LinksOpen, User
<1>3. \A c \in Users : old.children[c] # Absent =>
          /\ old.children[c].uuid \in Nat
          /\ old.children[c].uuid # Absent
          /\ old.children[c].uuid \in DOMAIN mailbox
          /\ OpensMailbox(old.children[c])
          /\ mailbox[old.children[c].uuid].plain.inode = mailbox[old.box.uuid].plain.inode
  <2>1. \A c \in Users : old.children[c] # Absent => old.children[c].uuid \in Nat
    BY <1>1 DEF Access, Children, Pointer
  <2> HIDE DEF old
  <2>2. \A c \in Users : old.children[c] # Absent =>
          /\ old.children[c].uuid \in DOMAIN mailbox
          /\ OpensMailbox(old.children[c])
          /\ mailbox[old.children[c].uuid].plain.inode = mailbox[old.box.uuid].plain.inode
    BY <1>2 DEF PointersOpen, OpensIn, OpensMailbox, decrypts
  <2> QED
    BY <2>1, <2>2, AbsentAssumption
<1>4. \A c \in Users : kidsBar[x][c] = IF old.children[c] = Absent THEN Absent
                                                              ELSE old.children[c].uuid
  BY <1>1 DEF ChildIds
<1> HIDE DEF old, x
<1>5. kept = {old.children[c].uuid : c \in {u \in Users : u # r /\ old.children[u] # Absent}}
  BY <1>3 DEF RemainingBoxes
<1> HIDE DEF kept
<1>6. ASSUME NEW m PROVE m \in kept <=> m \in {kidsBar[x][c] : c \in Users \ {r}} \ {Absent}
  <2>1. ASSUME m \in kept PROVE m \in {kidsBar[x][c] : c \in Users \ {r}} \ {Absent}
    BY <2>1, <1>3, <1>4, <1>5
  <2>2. ASSUME m \in {kidsBar[x][c] : c \in Users \ {r}} \ {Absent} PROVE m \in kept
    <3>1. PICK c \in Users \ {r} : m = kidsBar[x][c] /\ m # Absent
      BY <2>2
    <3> QED
      BY <3>1, <1>4, <1>5
  <2> QED
    BY <2>1, <2>2
<1>7. \A m \in kept : m \in DOMAIN mailbox /\ mailbox[m].plain.inode = mailbox[old.box.uuid].plain.inode
  BY <1>3, <1>5
<1>8. mailbox[old.box.uuid].plain.inode = MailboxOf(me, f).inode
  BY DEF MailboxOf, old
<1> QED
  BY <1>6, <1>7, <1>8 DEF kept, old, x

LEMMA RevokeAccessPromise ==
    ASSUME RInv, NEW s \in Sessions, NEW f \in Filenames, NEW r \in Users,
           RevokeAccess(s, f, r)
    PROVE  Promise!Revoke(sessions[s].name, f, r, fresh + 2)
<1> USE DEF RInv, IInv
<1> DEFINE me   == sessions[s]
           x    == <<me.name, f>>
           old  == AccessOf(me, f)
           n0   == MailboxOf(me, f).inode
           bs   == inode[n0].plain.blocks
           box  == [uuid |-> fresh + 2, key |-> fresh + 1]
           acc  == WithoutChild(old, r, box)
           kept == RemainingBoxes(old.children, r)
<1>1. /\ me \in User /\ old \in Access /\ x \in Slots
      /\ handleBar[x] \in aliveBar /\ targetBar[handleBar[x]] = n0
      /\ kidsBar[x] = ChildIds(old)
  BY OpenHandle DEF RevokeAccess, OpensFile
<1>2. /\ DOMAIN mailbox' = DOMAIN mailbox \cup {fresh + 2}
      /\ fresh + 2 \notin DOMAIN mailbox
      /\ mailbox'[fresh + 2].plain = [fileKey |-> fresh, inode |-> n0]
      /\ \A m \in DOMAIN mailbox :
             /\ mailbox'[m].key = mailbox[m].key
             /\ mailbox'[m].plain.inode = mailbox[m].plain.inode
             /\ mailbox'[m].plain.fileKey = IF m \in kept THEN fresh
                                            ELSE mailbox[m].plain.fileKey
      /\ n0 \in DOMAIN inode
      /\ DOMAIN inode' = DOMAIN inode
      /\ inode'[n0].key = getFileKeys(fresh)
      /\ inode'[n0].plain = inode[n0].plain
      /\ \A i \in DOMAIN inode : i # n0 => inode'[i] = inode[i]
  BY RevokeFacts, Zenon
<1>3. /\ kept = {kidsBar[x][c] : c \in Users \ {r}} \ {Absent}
      /\ \A m \in kept : m \in DOMAIN mailbox /\ mailbox[m].plain.inode = n0
  BY KeptBoxes, Zenon
<1>4. registeredBar' = registeredBar
  BY saveUserRegistered DEF RevokeAccess
<1>5. offerBar' = offerBar
  BY OfferSame DEF RevokeAccess
<1>6. /\ acc \in Access /\ acc.box.uuid = fresh + 2 /\ acc.children[r] = Absent
      /\ \A d \in Users : d # r => acc.children[d] = old.children[d]
  <2>1. box \in Pointer
    BY DEF TypeOK, Pointer
  <2> QED
    BY <1>1, <2>1 DEF WithoutChild, Access, Children
<1>7. access' = [access EXCEPT ![Slot(me, f)] =
                     encryptAndMAC(acc, getPersonalKey(me.master, f))]
  BY DEF RevokeAccess
<1>8. TypeOK /\ me \in User /\ acc \in Access
  BY <1>1, <1>6
<1>9. contentBar' = contentBar
  <2>1. block' = ReEncrypted(bs, fresh)
    BY DEF RevokeAccess, InodeOf
  <2>2. \A b \in DOMAIN block : block'[b].plain = block[b].plain
    BY <2>1 DEF ReEncrypted, encryptAndMAC
  <2>3. \A i \in DOMAIN inode : inode'[i].plain = inode[i].plain
    BY <1>2
  <2>4. \A i \in DOMAIN inode : ReadsAt(inode', block', i) = ReadsAt(inode, block, i)
    <3>1. \A i \in DOMAIN inode : \A n \in DOMAIN inode[i].plain.blocks :
              inode[i].plain.blocks[n] \in DOMAIN block
      BY DEF FilesWhole
    <3> QED
      BY <3>1, <2>2, <2>3, ReadsKept
  <2> QED
    BY <2>4, <1>2, ContentSame
<1> HIDE DEF acc, me, old, box, n0, bs, kept
<1>10. handleBar' = [handleBar EXCEPT ![x] = fresh + 2]
  <2>1. handleBar' = [handleBar EXCEPT ![x] = acc.box.uuid]
    BY <1>7, <1>8, BarUpdate
  <2> QED
    BY <2>1, <1>6
<1>11. kidsBar' = [kidsBar EXCEPT ![x] = ChildIds(acc)]
  BY <1>7, <1>8, BarUpdate
<1> HIDE DEF x
<1>12. kidsBar' = [kidsBar EXCEPT ![x][r] = Absent]
  <2>1. ChildIds(acc) = [ChildIds(old) EXCEPT ![r] = Absent]
    BY <1>6 DEF ChildIds
  <2>2. kidsBar' = [kidsBar EXCEPT ![x] = [kidsBar[x] EXCEPT ![r] = Absent]]
    BY <2>1, <1>1, <1>11
  <2> QED
    BY <2>2, NestedExcept
<1>13. /\ targetBar' = Promise!With(targetBar, fresh + 2, n0)
       /\ fresh + 2 \notin DOMAIN targetBar
  BY <1>2, TargetPut
<1>14. aliveBar' = {m \in aliveBar : targetBar[m] # n0} \cup kept \cup {fresh + 2}
  <2>1. \A m \in DOMAIN mailbox : targetBar[m] = mailbox[m].plain.inode
    BY DEF targetBar
  <2>2. LiveIn(mailbox', inode', fresh + 2)
    BY <1>2 DEF LiveIn
  <2>3. \A m \in DOMAIN mailbox : mailbox[m].plain.inode # n0 =>
            (LiveIn(mailbox', inode', m) <=> LiveIn(mailbox, inode, m))
    <3>1. \A m \in DOMAIN mailbox : mailbox[m].plain.inode \in DOMAIN inode
      BY DEF LinksOpen, MailboxesLead
    <3>2. \A m \in DOMAIN mailbox : mailbox[m].plain.inode # n0 => m \notin kept
      BY <1>3
    <3> QED
      BY <3>1, <3>2, <1>2 DEF LiveIn
  <2>4. \A m \in DOMAIN mailbox : mailbox[m].plain.inode = n0 =>
            (LiveIn(mailbox', inode', m) <=> m \in kept)
    <3>1. \A m \in DOMAIN mailbox : mailbox[m].plain.fileKey # fresh
      BY DEF TypeOK, IsStore, Sealed, MailboxNode, FreshUnused
    <3>2. \A k : getFileKeys(fresh) = getFileKeys(k) <=> k = fresh
      BY DEF getFileKeys
    <3> QED
      BY <3>1, <3>2, <1>2 DEF LiveIn
  <2> QED
    BY <2>1, <2>2, <2>3, <2>4, <1>2, <1>3, AliveDef
<1>15. /\ targetBar' = Promise!With(targetBar, fresh + 2, targetBar[handleBar[x]])
       /\ aliveBar' = {m \in aliveBar : targetBar[m] # targetBar[handleBar[x]]}
                          \cup ({kidsBar[x][c] : c \in Users \ {r}} \ {Absent}) \cup {fresh + 2}
  BY <1>1, <1>3, <1>13, <1>14
<1> QED
  BY <1>1, <1>4, <1>5, <1>9, <1>10, <1>12, <1>13, <1>15 DEF Promise!Revoke, me, x

-----------------------------------------------------------------------------
(* Every step is one of capabilities. *)

LEMMA WithDomain ==
    ASSUME NEW g, NEW id, NEW y
    PROVE  id \in DOMAIN Promise!With(g, id, y)
BY DEF Promise!With

LEMMA SessionName ==
    ASSUME RInv, NEW s \in Sessions, sessions[s] # Absent
    PROVE  sessions[s].name \in Users
BY SessionKeys DEF RInv, IInv, User

LEMMA PromiseStep ==
    ASSUME RInv, [Next]_vars
    PROVE  [Promise!Next]_(Promise!vars)
<1>1. ASSUME NEW s \in Sessions, NEW u \in Users, NEW p \in Passwords, InitUser(s, u, p)
      PROVE  Promise!Next
  BY <1>1, InitUserPromise DEF Promise!Next
<1>2. ASSUME NEW s \in Sessions, NEW u \in Users, NEW p \in Passwords, GetUser(s, u, p)
      PROVE  UNCHANGED Promise!vars
  BY <1>2, Unpromised DEF GetUser
<1>3. ASSUME NEW s \in Sessions, NEW f \in Filenames, NEW c \in Contents, StoreFile(s, f, c)
      PROVE  Promise!Next
  <2>1. Promise!Store(sessions[s].name, f, ByteToBlock(c), fresh + 2, fresh + 1)
    BY <1>3, StoreFilePromise
  <2>2. sessions[s].name \in Users
    BY <1>3, SessionName DEF StoreFile
  <2>3. fresh + 2 \in DOMAIN targetBar' /\ fresh + 1 \in DOMAIN contentBar'
    BY <2>1, WithDomain DEF Promise!Store
  <2> QED
    BY <2>1, <2>2, <2>3 DEF Promise!Next
<1>4. ASSUME NEW s \in Sessions, NEW f \in Filenames, NEW c \in Contents, AppendToFile(s, f, c)
      PROVE  Promise!Next
  <2>1. Promise!Extend(sessions[s].name, f, ByteToBlock(c))
    BY <1>4, AppendToFilePromise
  <2>2. sessions[s].name \in Users
    BY <1>4, SessionName DEF AppendToFile
  <2> QED
    BY <2>1, <2>2 DEF Promise!Next
<1>5. ASSUME NEW s \in Sessions, NEW f \in Filenames, NEW r \in Users, CreateInvitation(s, f, r)
      PROVE  Promise!Next
  <2>1. Promise!Offer(sessions[s].name, f, r, fresh, fresh + 2)
    BY <1>5, CreateInvitationPromise
  <2>2. sessions[s].name \in Users
    BY <1>5, SessionName DEF CreateInvitation, CanInvite
  <2>3. fresh \in DOMAIN targetBar' /\ fresh + 2 \in DOMAIN offerBar'
    BY <2>1, WithDomain DEF Promise!Offer, Promise!Mint
  <2> QED
    BY <2>1, <2>2, <2>3 DEF Promise!Next
<1>6. ASSUME NEW s \in Sessions, NEW f \in Filenames, NEW r \in Users,
             CreateInvitationFails(s, f, r)
      PROVE  Promise!Next
  <2>1. Promise!OfferFails(sessions[s].name, f, r, fresh)
    BY <1>6, CreateInvitationFailsPromise
  <2>2. sessions[s].name \in Users
    BY <1>6, SessionName DEF CreateInvitationFails, CanInvite
  <2>3. fresh \in DOMAIN targetBar'
    BY <2>1, WithDomain DEF Promise!OfferFails, Promise!Mint
  <2> QED
    BY <2>1, <2>2, <2>3 DEF Promise!Next
<1>7. ASSUME NEW s \in Sessions, NEW f \in Filenames, NEW r \in Users, RevokeAccess(s, f, r)
      PROVE  Promise!Next
  <2>1. Promise!Revoke(sessions[s].name, f, r, fresh + 2)
    BY <1>7, RevokeAccessPromise
  <2>2. sessions[s].name \in Users
    BY <1>7, SessionName DEF RevokeAccess
  <2>3. fresh + 2 \in DOMAIN targetBar'
    BY <2>1, WithDomain DEF Promise!Revoke
  <2> QED
    BY <2>1, <2>2, <2>3 DEF Promise!Next
<1>8. ASSUME NEW s \in Sessions, NEW f \in Filenames, NEW u \in Users,
             NEW p \in DOMAIN invitation, AcceptInvitation(s, u, p, f)
      PROVE  Promise!Next
  <2>1. Promise!Accept(sessions[s].name, p, f)
    BY <1>8, AcceptInvitationPromise
  <2>2. sessions[s].name \in Users
    BY <1>8, SessionName DEF AcceptInvitation
  <2>3. p \in DOMAIN offerBar
    BY DEF offerBar
  <2> QED
    BY <2>1, <2>2, <2>3 DEF Promise!Next
<1>9. CASE UNCHANGED vars
  BY <1>9, Unpromised DEF vars
<1> QED
  BY <1>1, <1>2, <1>3, <1>4, <1>5, <1>6, <1>7, <1>8, <1>9 DEF Next

LEMMA PromiseInit == Init => Promise!Init
<1> SUFFICES ASSUME Init PROVE Promise!Init
  OBVIOUS
<1>1. registeredBar = {}
  BY DEF Init, registeredBar
<1>2. handleBar = [n \in Promise!Names |-> Absent]
  BY DEF Init, handleBar, Slots, Promise!Names
<1>3. kidsBar = [n \in Promise!Names |-> Promise!NoKids]
  BY DEF Init, kidsBar, Slots, Promise!Names, Promise!NoKids
<1>4. targetBar = <<>> /\ contentBar = <<>> /\ offerBar = <<>>
  BY DEF Init, targetBar, contentBar, offerBar
<1>5. aliveBar = {}
  BY DEF Init, aliveBar
<1> QED
  BY <1>1, <1>2, <1>3, <1>4, <1>5 DEF Promise!Init

(* Every execution of the services is one of the capability specification: *)
(* whatever the order of the sessions' calls, each service call that       *)
(* changes the datastore grants, moves or kills exactly the capabilities   *)
(* SharedFiles says, and RevokeAccess changes no chunk of any file.        *)
THEOREM ServicesImplementSharedFiles == Spec => ImplementsSharedFiles
<1>1. Init => Promise!Init
  BY PromiseInit
<1>2. RInv /\ [Next]_vars => [Promise!Next]_(Promise!vars)
  BY PromiseStep
<1> QED
  BY <1>1, <1>2, RInductive, PTL DEF Spec, ImplementsSharedFiles, Promise!Spec

-----------------------------------------------------------------------------
(* The bytes of a file *)

(* Induction over the natural numbers, and over sequences, for a set: the  *)
(* form that needs no operator parameter.                                  *)
LEMMA SetInduction ==
    ASSUME NEW T, 0 \in T, \A n \in Nat : n \in T => n + 1 \in T
    PROVE  \A n \in Nat : n \in T
<1> DEFINE U == Nat \ T
<1>1. SUFFICES ASSUME U # {} PROVE FALSE
  OBVIOUS
<1>2. \E x \in U : \A y \in U : ~(<<y, x>> \in OpToRel(<, Nat))
  BY <1>1, NatLessThanWellFounded, WFMin, Zenon
<1>3. PICK x \in U : \A y \in U : ~(<<y, x>> \in OpToRel(<, Nat))
  BY <1>2
<1>4. \A y \in U : ~(y < x)
  BY <1>3 DEF OpToRel
<1> QED
  BY <1>4

LEMMA SeqSetInduction ==
    ASSUME NEW S, NEW T, <<>> \in T,
           \A q \in Seq(S), e \in S : q \in T => Append(q, e) \in T
    PROVE  \A q \in Seq(S) : q \in T
<1> DEFINE N == {n \in Nat : \A q \in Seq(S) : Len(q) = n => q \in T}
<1>1. 0 \in N
  OBVIOUS
<1>2. ASSUME NEW n \in Nat, n \in N PROVE n + 1 \in N
  <2>1. SUFFICES ASSUME NEW q \in Seq(S), Len(q) = n + 1 PROVE q \in T
    BY DEF N
  <2>2. q # <<>>
    BY <2>1
  <2>3. PICK p \in Seq(S), e \in S : q = Append(p, e)
    BY <2>2, SequenceEmptyOrAppend
  <2>4. Len(p) = n
    <3>1. Len(Append(p, e)) = Len(p) + 1 /\ Len(p) \in Nat
      BY AppendProperties
    <3> QED
      BY <3>1, <2>1, <2>3
  <2> QED
    BY <2>3, <2>4, <1>2
<1> HIDE DEF N
<1>3. \A n \in Nat : n \in N
  BY <1>1, <1>2, SetInduction, Zenon
<1> QED
  BY <1>3 DEF N

(* FlattenSeq defines a function recursively; it exists, and two of them   *)
(* agree as far as their sequences do.                                     *)
FlattensTo(g, s, k) == g = [i \in 1..k |-> IF i = 1 THEN s[i] ELSE g[i - 1] \o s[i]]

LEMMA FlattensExist ==
    ASSUME NEW s, NEW k \in Nat
    PROVE  \E g : FlattensTo(g, s, k)
<1> DEFINE N == {n \in Nat : \E g : FlattensTo(g, s, n)}
<1>1. 0 \in N
  <2>1. FlattensTo(<<>>, s, 0)
    BY DEF FlattensTo
  <2> QED
    BY <2>1
<1>2. ASSUME NEW n \in Nat, n \in N PROVE n + 1 \in N
  <2>1. PICK g : FlattensTo(g, s, n)
    BY <1>2
  <2> DEFINE h == [i \in 1..(n + 1) |->
                      IF i = n + 1 THEN IF i = 1 THEN s[i] ELSE g[n] \o s[i] ELSE g[i]]
  <2>2. ASSUME NEW i \in 1..(n + 1) PROVE h[i] = IF i = 1 THEN s[i] ELSE h[i - 1] \o s[i]
    <3>1. CASE i = n + 1
      <4>1. CASE i = 1
        BY <3>1, <4>1
      <4>2. CASE i # 1
        <5>1. i - 1 = n /\ n \in 1..(n + 1) /\ n # n + 1
          BY <3>1, <4>2
        <5>2. h[n] = g[n]
          BY <5>1
        <5>3. h[i] = g[n] \o s[i]
          BY <3>1, <4>2
        <5> HIDE DEF h
        <5> QED
          BY <5>1, <5>2, <5>3, <4>2
      <4> QED
        BY <4>1, <4>2
    <3>2. CASE i # n + 1
      <4>1. i \in 1..n /\ h[i] = g[i] /\ (i # 1 => i - 1 \in 1..(n + 1) /\ i - 1 # n + 1)
        BY <3>2
      <4>2. i # 1 => h[i - 1] = g[i - 1]
        BY <4>1
      <4>3. g[i] = IF i = 1 THEN s[i] ELSE g[i - 1] \o s[i]
        BY <4>1, <2>1 DEF FlattensTo
      <4> HIDE DEF h
      <4> QED
        BY <4>1, <4>2, <4>3
    <3> QED
      BY <3>1, <3>2
  <2>3. h = [i \in 1..(n + 1) |-> h[i]]
    OBVIOUS
  <2> HIDE DEF h
  <2>4. FlattensTo(h, s, n + 1)
    BY <2>2, <2>3 DEF FlattensTo
  <2> QED
    BY <2>4
<1> HIDE DEF N
<1>3. k \in N
  BY <1>1, <1>2, SetInduction, Zenon
<1> QED
  BY <1>3 DEF N

LEMMA FlattenChosen ==
    ASSUME NEW s, Len(s) # 0, NEW h, FlattensTo(h, s, Len(s))
    PROVE  \E g : FlattensTo(g, s, Len(s)) /\ FlattenSeq(s) = g[Len(s)]
<1> DEFINE g == CHOOSE f : f = [i \in 1..Len(s) |-> IF i = 1 THEN s[i] ELSE f[i - 1] \o s[i]]
<1>1. FlattenSeq(s) = g[Len(s)]
  BY DEF FlattenSeq
<1>2. FlattensTo(g, s, Len(s))
  BY DEF FlattensTo
<1> QED
  BY <1>1, <1>2

LEMMA FlattenDef ==
    ASSUME NEW S, NEW s \in Seq(S), Len(s) # 0
    PROVE  \E g : FlattensTo(g, s, Len(s)) /\ FlattenSeq(s) = g[Len(s)]
<1>1. Len(s) \in Nat
  OBVIOUS
<1>2. PICK h : FlattensTo(h, s, Len(s))
  BY <1>1, FlattensExist
<1> QED
  BY <1>2, FlattenChosen

LEMMA FlattensAt ==
    ASSUME NEW g, NEW s, NEW k \in Nat, FlattensTo(g, s, k), NEW i \in 1..k
    PROVE  g[i] = IF i = 1 THEN s[i] ELSE g[i - 1] \o s[i]
BY DEF FlattensTo

LEMMA FlattensAgree ==
    ASSUME NEW g, NEW h, NEW s, NEW t, NEW k \in Nat, NEW l \in Nat, k <= l,
           FlattensTo(g, s, k), FlattensTo(h, t, l), \A i \in 1..k : s[i] = t[i]
    PROVE  \A i \in 1..k : g[i] = h[i]
<1> DEFINE N == {n \in Nat : n \in 1..k => g[n] = h[n]}
<1>1. 0 \in N
  OBVIOUS
<1>2. ASSUME NEW n \in Nat, n \in N PROVE n + 1 \in N
  <2>1. SUFFICES ASSUME n + 1 \in 1..k PROVE g[n + 1] = h[n + 1]
    OBVIOUS
  <2>2. n + 1 \in 1..l /\ (n + 1) - 1 = n /\ (n + 1 # 1 => n \in 1..k)
    BY <2>1
  <2>3. g[n + 1] = IF n + 1 = 1 THEN s[n + 1] ELSE g[n] \o s[n + 1]
    BY <2>1, <2>2, FlattensAt
  <2>4. h[n + 1] = IF n + 1 = 1 THEN t[n + 1] ELSE h[n] \o t[n + 1]
    BY <2>2, FlattensAt
  <2> QED
    BY <2>1, <2>2, <2>3, <2>4, <1>2
<1> HIDE DEF N
<1>3. \A n \in Nat : n \in N
  BY <1>1, <1>2, SetInduction, Zenon
<1> QED
  BY <1>3 DEF N

LEMMA FlattenEmpty == FlattenSeq(<<>>) = <<>>
BY DEF FlattenSeq

(* The two equations that determine FlattenSeq. *)
LEMMA FlattenAppend ==
    ASSUME NEW S, NEW s \in Seq(Seq(S)), NEW x \in Seq(S)
    PROVE  FlattenSeq(Append(s, x)) = FlattenSeq(s) \o x
<1> DEFINE t == Append(s, x)
           n == Len(s)
<1>1. /\ t \in Seq(Seq(S)) /\ Len(t) = n + 1 /\ n \in Nat
      /\ \A i \in 1..n : t[i] = s[i]
      /\ t[n + 1] = x
  BY AppendProperties
<1> HIDE DEF t
<1>2. PICK h : FlattensTo(h, t, n + 1) /\ FlattenSeq(t) = h[n + 1]
  <2>1. Len(t) # 0
    BY <1>1
  <2>2. \E h : FlattensTo(h, t, Len(t)) /\ FlattenSeq(t) = h[Len(t)]
    BY <2>1, <1>1, FlattenDef
  <2> QED
    BY <2>2, <1>1
<1>3. h[n + 1] = IF n + 1 = 1 THEN x ELSE h[n] \o x
  <2>1. n + 1 \in Nat /\ n + 1 \in 1..(n + 1) /\ (n + 1) - 1 = n
    BY <1>1
  <2> QED
    BY <2>1, <1>1, <1>2, FlattensAt
<1>4. CASE n = 0
  <2>1. s = <<>> /\ h[n + 1] = x
    BY <1>3, <1>4
  <2>2. FlattenSeq(s) \o x = x
    BY <2>1, FlattenEmpty, ConcatEmptySeq
  <2> QED
    BY <2>1, <2>2, <1>2 DEF t
<1>5. CASE n # 0
  <2>1. PICK g : FlattensTo(g, s, n) /\ FlattenSeq(s) = g[n]
    BY <1>5, FlattenDef
  <2>2. \A i \in 1..n : s[i] = t[i]
    BY <1>1
  <2>3. n \in Nat /\ n + 1 \in Nat /\ n <= n + 1 /\ n \in 1..n /\ n + 1 # 1
    BY <1>1, <1>5
  <2> HIDE DEF n
  <2>4. g[n] = h[n]
    BY <2>1, <2>2, <2>3, <1>2, FlattensAgree
  <2> QED
    BY <2>1, <2>3, <2>4, <1>2, <1>3 DEF t
<1> QED
  BY <1>4, <1>5

LEMMA FlattenType ==
    ASSUME NEW S, NEW s \in Seq(Seq(S))
    PROVE  FlattenSeq(s) \in Seq(S)
<1> DEFINE T == {q \in Seq(Seq(S)) : FlattenSeq(q) \in Seq(S)}
<1>1. <<>> \in T
  BY FlattenEmpty, EmptySeq
<1>2. ASSUME NEW q \in Seq(Seq(S)), NEW e \in Seq(S), q \in T PROVE Append(q, e) \in T
  <2>1. FlattenSeq(Append(q, e)) = FlattenSeq(q) \o e
    BY FlattenAppend
  <2>2. FlattenSeq(q) \o e \in Seq(S)
    BY <1>2, ConcatProperties
  <2>3. Append(q, e) \in Seq(Seq(S))
    BY AppendProperties
  <2> QED
    BY <2>1, <2>2, <2>3
<1> HIDE DEF T
<1>3. \A q \in Seq(Seq(S)) : q \in T
  BY <1>1, <1>2, SeqSetInduction, Zenon
<1> QED
  BY <1>3 DEF T

LEMMA FlattenConcat ==
    ASSUME NEW S, NEW s \in Seq(Seq(S)), NEW t \in Seq(Seq(S))
    PROVE  FlattenSeq(s \o t) = FlattenSeq(s) \o FlattenSeq(t)
<1> DEFINE T == {q \in Seq(Seq(S)) : FlattenSeq(s \o q) = FlattenSeq(s) \o FlattenSeq(q)}
<1>1. <<>> \in T
  <2>1. s \o <<>> = s /\ <<>> \in Seq(Seq(S))
    BY ConcatEmptySeq, EmptySeq
  <2>2. FlattenSeq(s) \o <<>> = FlattenSeq(s)
    BY FlattenType, ConcatEmptySeq
  <2> QED
    BY <2>1, <2>2, FlattenEmpty
<1>2. ASSUME NEW q \in Seq(Seq(S)), NEW e \in Seq(S), q \in T PROVE Append(q, e) \in T
  <2>1. /\ Append(q, e) \in Seq(Seq(S)) /\ s \o q \in Seq(Seq(S))
        /\ Append(q, e) = q \o <<e>> /\ <<e>> \in Seq(Seq(S))
        /\ Append(s \o q, e) = (s \o q) \o <<e>>
    BY AppendProperties, AppendIsConcat, ConcatProperties
  <2>2. s \o Append(q, e) = Append(s \o q, e)
    BY <2>1, ConcatAssociative
  <2>3. FlattenSeq(s \o Append(q, e)) = FlattenSeq(s \o q) \o e
    BY <2>1, <2>2, FlattenAppend
  <2>4. FlattenSeq(s \o q) = FlattenSeq(s) \o FlattenSeq(q)
    BY <1>2
  <2>5. (FlattenSeq(s) \o FlattenSeq(q)) \o e = FlattenSeq(s) \o (FlattenSeq(q) \o e)
    <3>1. FlattenSeq(s) \in Seq(S) /\ FlattenSeq(q) \in Seq(S)
      BY FlattenType
    <3> QED
      BY <3>1, ConcatAssociative
  <2>6. FlattenSeq(Append(q, e)) = FlattenSeq(q) \o e
    BY FlattenAppend
  <2>7. FlattenSeq(s \o Append(q, e)) = FlattenSeq(s) \o FlattenSeq(Append(q, e))
    BY <2>3, <2>4, <2>5, <2>6
  <2> QED
    BY <2>1, <2>7
<1> HIDE DEF T
<1>3. \A q \in Seq(Seq(S)) : q \in T
  BY <1>1, <1>2, SeqSetInduction, Zenon
<1> QED
  BY <1>3 DEF T

(* ByteToBlock makes just enough blocks: all of them reach the end of the  *)
(* content, and one fewer does not.                                        *)
LEMMA BlockCount ==
    ASSUME NEW n \in Nat
    PROVE  LET k == (n + BlockSize - 1) \div BlockSize
           IN  /\ k \in Nat
               /\ k * BlockSize >= n
               /\ \A i \in 0..(k - 1) : i * BlockSize < n
<1> DEFINE b == BlockSize
           k == (n + b - 1) \div b
           r == (n + b - 1) % b
<1>1. b \in Nat /\ b > 0 /\ k \in Nat /\ r \in Nat
  BY BlockSizeAssumption
<1>2. n + b - 1 = b * k + r /\ r < b
  BY BlockSizeAssumption
<1> HIDE DEF b, k, r
<1>3. k * b \in Nat /\ b * k = k * b
  BY <1>1
<1>4. k * b >= n
  BY <1>1, <1>2, <1>3
<1>5. ASSUME NEW i \in 0..(k - 1) PROVE i * b < n
  <2>1. i \in Nat /\ k - 1 - i \in Nat
    BY <1>1
  <2>2. (k - 1 - i) * b >= 0 /\ (k - 1 - i) * b = k * b - b - i * b
    BY <2>1, <1>1
  <2>3. i * b \in Nat
    BY <2>1, <1>1
  <2> QED
    BY <2>2, <2>3, <1>1, <1>2, <1>3
<1> QED
  BY <1>1, <1>4, <1>5 DEF k, b

(* What ByteToBlock cuts, the block loop of LoadFile puts together again:  *)
(* no byte is lost, doubled or moved at a block boundary, whatever the     *)
(* block size and the length of the content.                               *)
THEOREM FlattenChunks ==
    ASSUME NEW c \in Seq(Bytes)
    PROVE  FlattenSeq(ByteToBlock(c)) = c
<1> DEFINE cs == ByteToBlock(c)
           size == Len(c)
           k == (size + BlockSize - 1) \div BlockSize
           end(i) == IF i * BlockSize > size THEN size ELSE i * BlockSize
           N == {n \in Nat : n <= k => FlattenSeq(SubSeq(cs, 1, n)) = SubSeq(c, 1, end(n))}
<1>1. size \in Nat /\ k \in Nat /\ BlockSize \in Nat
      /\ k * BlockSize >= size /\ \A i \in 0..(k - 1) : i * BlockSize < size
  BY BlockCount, BlockSizeAssumption
<1>2. /\ cs \in Seq(Seq(Bytes))
      /\ cs = [i \in 1..k |-> SubSeq(c, (i - 1) * BlockSize + 1, end(i))]
  BY Chunks DEF ByteToBlock
<1>3. Len(cs) = k /\ \A i \in 1..k : cs[i] = SubSeq(c, (i - 1) * BlockSize + 1, end(i))
  <2> HIDE DEF cs, k, end
  <2>1. DOMAIN cs = 1..k /\ \A i \in 1..k : cs[i] = SubSeq(c, (i - 1) * BlockSize + 1, end(i))
    BY <1>2
  <2> QED
    BY <2>1, <1>1, <1>2, LenProperties
<1> HIDE DEF cs, k
<1>4. 0 \in N
  <2>1. SubSeq(cs, 1, 0) = <<>> /\ SubSeq(c, 1, 0) = <<>>
    BY SubSeqEmpty
  <2>2. end(0) = 0
    BY <1>1
  <2> QED
    BY <2>1, <2>2, FlattenEmpty
<1>5. ASSUME NEW n \in Nat, n \in N PROVE n + 1 \in N
  <2>1. SUFFICES ASSUME n + 1 <= k
                 PROVE  FlattenSeq(SubSeq(cs, 1, n + 1)) = SubSeq(c, 1, end(n + 1))
    OBVIOUS
  <2>2. n \in 0..(k - 1) /\ n + 1 \in 1..k /\ (n + 1) - 1 = n /\ n <= k
    BY <2>1, <1>1
  <2>3. n * BlockSize < size /\ n * BlockSize \in Nat /\ end(n) = n * BlockSize
    BY <2>2, <1>1
  <2>4. (n + 1) * BlockSize = n * BlockSize + BlockSize
    BY <1>1
  <2>5. end(n + 1) \in Nat /\ end(n + 1) <= size /\ n * BlockSize <= end(n + 1)
    BY <2>3, <2>4, <1>1
  <2>6. /\ SubSeq(cs, 1, n + 1) = SubSeq(cs, 1, n) \o <<cs[n + 1]>>
        /\ SubSeq(cs, 1, n) \in Seq(Seq(Bytes)) /\ cs[n + 1] \in Seq(Bytes)
    <3>1. 1 \in 1..Len(cs) /\ n + 1 \in 1..Len(cs)
      BY <2>2, <1>1, <1>3
    <3>2. SubSeq(cs, 1, n + 1) = SubSeq(cs, 1, (n + 1) - 1) \o <<cs[n + 1]>>
      BY <3>1, <1>2, SubSeqRecursiveSecond
    <3>3. \A i \in 1..n : cs[i] \in Seq(Bytes)
      BY <2>2, <1>1, <1>2, <1>3, ElementOfSeq
    <3>4. SubSeq(cs, 1, n) \in Seq(Seq(Bytes))
      BY <3>3, SubSeqProperties
    <3>5. cs[n + 1] \in Seq(Bytes)
      BY <3>1, <1>2, ElementOfSeq
    <3> QED
      BY <3>2, <3>4, <3>5, <2>2
  <2>7. SubSeq(cs, 1, n + 1) = Append(SubSeq(cs, 1, n), cs[n + 1])
    BY <2>6, AppendIsConcat
  <2>8. FlattenSeq(SubSeq(cs, 1, n + 1)) = FlattenSeq(SubSeq(cs, 1, n)) \o cs[n + 1]
    BY <2>6, <2>7, FlattenAppend
  <2>9. FlattenSeq(SubSeq(cs, 1, n)) = SubSeq(c, 1, n * BlockSize)
    BY <1>5, <2>2, <2>3
  <2>10. cs[n + 1] = SubSeq(c, n * BlockSize + 1, end(n + 1))
    BY <1>3, <2>2
  <2> HIDE DEF end
  <2>11. SubSeq(c, 1, n * BlockSize) \o SubSeq(c, n * BlockSize + 1, end(n + 1))
             = SubSeq(c, 1, end(n + 1))
    <3>1. 1 \in 1..Len(c)+1 /\ n * BlockSize \in (1 - 1)..Len(c)
          /\ end(n + 1) \in (n * BlockSize)..Len(c)
      BY <2>3, <2>5, <1>1
    <3> QED
      BY <3>1, ConcatAdjacentSubSeq
  <2> QED
    BY <2>8, <2>9, <2>10, <2>11
<1> HIDE DEF N
<1>6. k \in N
  BY <1>1, <1>4, <1>5, SetInduction, Zenon
<1>7. FlattenSeq(SubSeq(cs, 1, k)) = SubSeq(c, 1, end(k))
  BY <1>1, <1>6 DEF N
<1>8. end(k) = size
  BY <1>1
<1>9. SubSeq(cs, 1, k) = cs /\ SubSeq(c, 1, size) = c
  BY <1>2, <1>3, SubSeqFull
<1> QED
  BY <1>7, <1>8, <1>9 DEF cs

LEMMA ContentType ==
    ASSUME RInv, NEW i \in DOMAIN inode
    PROVE  contentBar[i] \in Seq(Seq(Bytes))
<1> USE DEF RInv, IInv
<1> DEFINE bs == inode[i].plain.blocks
<1>1. bs \in Seq(Nat) /\ Len(bs) \in Nat /\ DOMAIN bs = 1..Len(bs)
  BY BlocksType
<1>2. \A b \in DOMAIN block : block[b].plain \in Seq(Bytes)
  BY DEF TypeOK, IsStore, Sealed
<1>3. \A n \in 1..Len(bs) : bs[n] \in DOMAIN block
  BY <1>1 DEF FilesWhole
<1>4. contentBar[i] = [n \in 1..Len(bs) |-> block[bs[n]].plain]
  BY <1>1 DEF contentBar
<1> HIDE DEF bs
<1>5. contentBar[i] \in [1..Len(bs) -> Seq(Bytes)]
  BY <1>2, <1>3, <1>4
<1> QED
  BY <1>1, <1>5, FunctionIsSeq, Zenon

LEMMA FileBytesDef ==
    /\ DOMAIN contentBar = DOMAIN inode /\ DOMAIN contentBar' = DOMAIN inode'
    /\ \A i \in DOMAIN inode : FileBytes(i) = FlattenSeq(contentBar[i])
    /\ \A i \in DOMAIN inode' : FileBytes(i)' = FlattenSeq(contentBar'[i])
BY DEF FileBytes, contentBar

(* What a step may do to a file that exists, and what a new file is. *)
SameFile(i)   == contentBar'[i] = contentBar[i] /\ inode'[i].plain.size = inode[i].plain.size
LongerFile(i) == \E c \in Contents :
                     /\ contentBar'[i] = contentBar[i] \o ByteToBlock(c)
                     /\ inode'[i].plain.size = inode[i].plain.size + Len(c)
NewFile(i)    == \E c \in Contents : /\ contentBar'[i] = ByteToBlock(c)
                                     /\ inode'[i].plain.size = Len(c)

FilesGrow ==
    /\ DOMAIN inode \subseteq DOMAIN inode'
    /\ \A i \in DOMAIN inode : SameFile(i) \/ LongerFile(i)
    /\ \A i \in DOMAIN inode' : i \notin DOMAIN inode => NewFile(i)

LEMMA StoreFileGrows ==
    ASSUME RInv, NEW s \in Sessions, NEW f \in Filenames, NEW c \in Contents, StoreFile(s, f, c)
    PROVE  FilesGrow
<1> DEFINE cs  == ByteToBlock(c)
           rec == encryptAndMAC([size |-> Len(c), blocks |-> BlockUUIDs(cs, fresh + 4)],
                                getFileKeys(fresh))
<1>1. /\ contentBar' = Promise!With(contentBar, fresh + 1, cs)
      /\ fresh + 1 \notin DOMAIN contentBar
  BY StoreFilePromise DEF Promise!Store
<1>2. inode' = Put(inode, fresh + 1, rec)
  BY DEF StoreFile
<1>3. rec.plain.size = Len(c)
  BY DEF encryptAndMAC
<1> HIDE DEF rec, cs
<1>4. /\ fresh + 1 \notin DOMAIN inode
      /\ DOMAIN inode' = DOMAIN inode \cup {fresh + 1}
      /\ inode'[fresh + 1].plain.size = Len(c)
      /\ \A i \in DOMAIN inode : inode'[i] = inode[i]
  BY <1>1, <1>2, <1>3, FileBytesDef DEF Put, PutAll
<1>5. /\ contentBar'[fresh + 1] = cs
      /\ \A i \in DOMAIN inode : contentBar'[i] = contentBar[i]
  BY <1>1, <1>4, FileBytesDef DEF Promise!With
<1> QED
  BY <1>4, <1>5 DEF FilesGrow, SameFile, NewFile, cs

LEMMA AppendToFileGrows ==
    ASSUME RInv, NEW s \in Sessions, NEW f \in Filenames, NEW c \in Contents,
           AppendToFile(s, f, c)
    PROVE  FilesGrow
<1> DEFINE me   == sessions[s]
           x    == <<me.name, f>>
           node == MailboxOf(me, f)
           n0   == node.inode
           cs   == ByteToBlock(c)
           rec  == encryptAndMAC(Appended(InodeOf(me, f), c, fresh), getFileKeys(node.fileKey))
<1>1. targetBar[handleBar[x]] = n0 /\ n0 \in DOMAIN inode
  BY OpenHandle, OpensFileTypes DEF AppendToFile, OpensFile, RInv, IInv
<1>2. contentBar' = [contentBar EXCEPT ![n0] = @ \o cs]
  <2>1. contentBar' = [contentBar EXCEPT ![targetBar[handleBar[x]]] = @ \o cs]
    BY AppendToFilePromise DEF Promise!Extend
  <2> QED
    BY <2>1, <1>1
<1>3. inode' = Put(inode, n0, rec)
  BY DEF AppendToFile
<1>4. rec.plain.size = inode[n0].plain.size + Len(c)
  BY DEF encryptAndMAC, Appended, InodeOf
<1> HIDE DEF rec, cs, n0
<1>5. /\ DOMAIN inode' = DOMAIN inode
      /\ inode'[n0].plain.size = inode[n0].plain.size + Len(c)
      /\ \A i \in DOMAIN inode : i # n0 => inode'[i] = inode[i]
  BY <1>1, <1>3, <1>4 DEF Put, PutAll
<1>6. /\ contentBar'[n0] = contentBar[n0] \o cs
      /\ \A i \in DOMAIN inode : i # n0 => contentBar'[i] = contentBar[i]
  BY <1>1, <1>2, FileBytesDef
<1>7. LongerFile(n0)
  BY <1>5, <1>6 DEF LongerFile, cs
<1>8. \A i \in DOMAIN inode : i # n0 => SameFile(i)
  BY <1>5, <1>6 DEF SameFile
<1> QED
  BY <1>5, <1>7, <1>8 DEF FilesGrow

LEMMA RevokeAccessGrows ==
    ASSUME RInv, NEW s \in Sessions, NEW f \in Filenames, NEW r \in Users,
           RevokeAccess(s, f, r)
    PROVE  FilesGrow
<1> DEFINE n0 == MailboxOf(sessions[s], f).inode
<1>1. contentBar' = contentBar
  BY RevokeAccessPromise DEF Promise!Revoke
<1>2. /\ DOMAIN inode' = DOMAIN inode
      /\ inode'[n0].plain = inode[n0].plain
      /\ \A i \in DOMAIN inode : i # n0 => inode'[i] = inode[i]
  BY RevokeFacts, Zenon DEF RInv, IInv
<1> QED
  BY <1>1, <1>2 DEF FilesGrow, SameFile

LEMMA FilesGrowStep ==
    ASSUME RInv, [Next]_vars
    PROVE  FilesGrow
<1>1. CASE inode' = inode /\ block' = block
  <2>1. contentBar' = contentBar
    BY <1>1 DEF contentBar
  <2> QED
    BY <1>1, <2>1 DEF FilesGrow, SameFile
<1>2. ASSUME NEW s \in Sessions,
             \/ \E u \in Users, p \in Passwords : InitUser(s, u, p) \/ GetUser(s, u, p)
             \/ \E f \in Filenames, r \in Users :
                    CreateInvitation(s, f, r) \/ CreateInvitationFails(s, f, r)
             \/ \E f \in Filenames, u \in Users, p \in DOMAIN invitation :
                    AcceptInvitation(s, u, p, f)
      PROVE  inode' = inode /\ block' = block
  BY <1>2 DEF InitUser, GetUser, CreateInvitation, CreateInvitationFails, AcceptInvitation
<1>3. CASE UNCHANGED vars
  BY <1>1, <1>3 DEF vars
<1> QED
  BY <1>1, <1>2, <1>3, StoreFileGrows, AppendToFileGrows, RevokeAccessGrows DEF Next

LEMMA GrownBytes ==
    ASSUME NEW s \in Seq(Seq(Bytes)), NEW c \in Contents
    PROVE  /\ FlattenSeq(s \o ByteToBlock(c)) = FlattenSeq(s) \o c
           /\ FlattenSeq(s) \in Seq(Bytes)
           /\ Len(FlattenSeq(s) \o c) = Len(FlattenSeq(s)) + Len(c)
           /\ IsPrefix(FlattenSeq(s), FlattenSeq(s) \o c)
<1> DEFINE old == FlattenSeq(s)
<1>1. c \in Seq(Bytes) /\ ByteToBlock(c) \in Seq(Seq(Bytes))
  BY Chunks, ContentsAssumption
<1>2. old \in Seq(Bytes)
  BY FlattenType
<1>3. FlattenSeq(s \o ByteToBlock(c)) = old \o c
  <2>1. FlattenSeq(s \o ByteToBlock(c)) = FlattenSeq(s) \o FlattenSeq(ByteToBlock(c))
    BY <1>1, FlattenConcat
  <2> QED
    BY <2>1, <1>1, FlattenChunks
<1> HIDE DEF old
<1>4. /\ old \o c \in Seq(Bytes) /\ Len(old \o c) = Len(old) + Len(c)
      /\ Len(old) \in Nat /\ Len(c) \in Nat
  BY <1>1, <1>2, ConcatProperties
<1>5. SubSeq(old, 1, Len(old)) = SubSeq(old \o c, 1, Len(old))
  <2>1. CASE Len(old) = 0
    BY <2>1, SubSeqEmpty
  <2>2. CASE Len(old) # 0
    <3>1. 1 \in 1..Len(old) /\ Len(old) \in 1..Len(old)
      BY <2>2, <1>4
    <3> QED
      BY <3>1, <1>1, <1>2, SubSeqOfConcat1
  <2> QED
    BY <2>1, <2>2
<1>6. IsPrefix(old, old \o c)
  BY <1>4, <1>5 DEF IsPrefix
<1> QED
  BY <1>2, <1>3, <1>4, <1>6 DEF old

LEMMA SizeStep ==
    ASSUME RInv, SizeMatches, [Next]_vars
    PROVE  SizeMatches'
<1>1. FilesGrow
  BY FilesGrowStep
<1>2. \A i \in DOMAIN inode : /\ contentBar[i] \in Seq(Seq(Bytes))
                              /\ inode[i].plain.size = Len(FlattenSeq(contentBar[i]))
  BY ContentType, FileBytesDef DEF SizeMatches
<1>3. ASSUME NEW i \in DOMAIN inode'
      PROVE  inode'[i].plain.size = Len(FlattenSeq(contentBar'[i]))
  <2>1. CASE i \in DOMAIN inode /\ SameFile(i)
    BY <2>1, <1>2 DEF SameFile
  <2>2. CASE i \in DOMAIN inode /\ LongerFile(i)
    <3>1. PICK c \in Contents : /\ contentBar'[i] = contentBar[i] \o ByteToBlock(c)
                                /\ inode'[i].plain.size = inode[i].plain.size + Len(c)
      BY <2>2 DEF LongerFile
    <3>2. Len(FlattenSeq(contentBar'[i])) = Len(FlattenSeq(contentBar[i])) + Len(c)
      BY <2>2, <3>1, <1>2, GrownBytes
    <3> QED
      BY <2>2, <3>1, <3>2, <1>2
  <2>3. CASE i \notin DOMAIN inode
    <3>1. PICK c \in Contents : contentBar'[i] = ByteToBlock(c) /\ inode'[i].plain.size = Len(c)
      BY <2>3, <1>1 DEF FilesGrow, NewFile
    <3> QED
      BY <3>1, FlattenChunks, ContentsAssumption
  <2> QED
    BY <2>1, <2>2, <2>3, <1>1 DEF FilesGrow
<1> QED
  BY <1>3, FileBytesDef DEF SizeMatches

(* The Size an inode records is the number of bytes its blocks hold,       *)
(* however many stores, appends and re-keyings came before.                *)
THEOREM SizesMatch == Spec => []SizeMatches
<1>1. Init => SizeMatches
  BY DEF Init, SizeMatches
<1>2. RInv /\ SizeMatches /\ [Next]_vars => SizeMatches'
  BY SizeStep
<1> QED
  BY <1>1, <1>2, RInductive, PTL DEF Spec

LEMMA BytesGrow ==
    ASSUME RInv, [Next]_vars
    PROVE  \A i \in DOMAIN inode : /\ i \in DOMAIN inode'
                                   /\ IsPrefix(FileBytes(i), FileBytes(i)')
<1>1. FilesGrow
  BY FilesGrowStep
<1>2. ASSUME NEW i \in DOMAIN inode
      PROVE  i \in DOMAIN inode' /\ IsPrefix(FlattenSeq(contentBar[i]), FlattenSeq(contentBar'[i]))
  <2>1. i \in DOMAIN inode' /\ contentBar[i] \in Seq(Seq(Bytes))
    BY <1>1, ContentType DEF FilesGrow
  <2>2. CASE SameFile(i)
    <3>1. Len(FlattenSeq(contentBar[i])) \in Nat
      BY <2>1, FlattenType, LenProperties
    <3>2. contentBar'[i] = contentBar[i]
      BY <2>2 DEF SameFile
    <3>3. IsPrefix(FlattenSeq(contentBar[i]), FlattenSeq(contentBar[i]))
      BY <3>1 DEF IsPrefix
    <3> QED
      BY <3>2, <3>3, <2>1
  <2>3. CASE LongerFile(i)
    BY <2>1, <2>3, GrownBytes DEF LongerFile
  <2> QED
    BY <2>1, <2>2, <2>3, <1>1 DEF FilesGrow
<1> QED
  BY <1>2, FileBytesDef

(* No step of any session removes, changes or reorders a byte of a file,   *)
(* and no file disappears: bytes are only added at the end.                *)
THEOREM BytesOnlyGrow == Spec => ContentOnlyGrows
<1>1. RInv /\ [Next]_vars =>
          [\A i \in DOMAIN inode : /\ i \in DOMAIN inode'
                                   /\ IsPrefix(FileBytes(i), FileBytes(i)')]_vars
  BY BytesGrow
<1> QED
  BY <1>1, RInductive, PTL DEF Spec, ContentOnlyGrows
=============================================================================
