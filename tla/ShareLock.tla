------------------------------ MODULE ShareLock ------------------------------
(***************************************************************************)
(* The client services of internal/client/encryption: UserService,         *)
(* FileService and InvitationService, over the key-value datastore and the *)
(* public-key store they share.  Every exported method that changes state  *)
(* is one action here, executed as a whole: this module describes the      *)
(* serial executions of the clients, one operation after the other, by any *)
(* number of sessions in any order.                                        *)
(*                                                                         *)
(* The datastore maps UUIDs to encrypted payloads.  Its keys are random    *)
(* (uuid.New) or hashes of names; it is split here by the kind of record   *)
(* stored under a key, because a UUID that names a record of one kind is   *)
(* never used for another.  Random UUIDs, symmetric keys and key pairs are *)
(* numbers drawn from the counter fresh, so none is ever drawn twice.      *)
(* A symmetric payload is the pair (key, plaintext): it opens under that   *)
(* key only, which is what decryptAndVerify's MAC check provides.          *)
(***************************************************************************)
EXTENDS Integers, FiniteSets, SequencesExt

CONSTANTS
    Users,         \* user names, registered or not
    Passwords,
    Filenames,
    Sessions,      \* app.Client instances: long-lived clients or CLI processes
    Bytes,
    Contents,      \* the file contents that are stored and appended
    BlockSize,     \* 512 in the code
    Absent,        \* nothing is stored here, nobody is logged in
    MaxInodes, MaxMailboxes, MaxBlocks   \* bounds on the records created

ASSUME SessionsAssumption  == IsFiniteSet(Sessions)
ASSUME BlockSizeAssumption == BlockSize \in Nat \ {0}
ASSUME ContentsAssumption  == \A c \in Contents : c \in Seq(Bytes)
ASSUME BoundsAssumption    == /\ MaxInodes \in Nat
                              /\ MaxMailboxes \in Nat
                              /\ MaxBlocks \in Nat

VARIABLES
    accounts,    \* user struct stored under Hash(username + "userStruct")
    keystore,    \* <name>_enc_pub and <name>_sig_pub of the public-key store
    access,      \* Access record stored under Hash(username + filename)
    mailbox,     \* MailboxNode records
    inode,       \* Inode records
    block,       \* encrypted FileBlock contents
    invitation,  \* signed, public-key encrypted Invitation records
    sessions,    \* the User struct each session keeps in memory
    fresh        \* the next number no UUID, key or key pair has been given

vars == <<accounts, keystore, access, mailbox, inode, block, invitation,
          sessions, fresh>>

-----------------------------------------------------------------------------
(* Records *)

Slots      == Users \X Filenames
MasterKeys == Users \X Passwords     \* Argon2Key(password, Hash(username))
Pointer    == [uuid : Nat, key : Nat]
Children   == [Users -> Pointer \cup {Absent}]
(* Slip: the Children map of a new access record is never made. *)
NilChildren == <<>>

NoChildren == [u \in Users |-> Absent]
Access     == [box : Pointer, children : Children]
MailboxNode == [fileKey : Nat, inode : Nat]
Inode      == [size : Nat, blocks : Seq(Nat)]
User       == [name : Users, pke : Nat, ds : Nat, master : MasterKeys,
               files : SUBSET Filenames]
Invitation == [enc : Nat, sig : Nat, box : Pointer]
PublicKeys == [enc : Nat, sig : Nat]

ASSUME AbsentAssumption ==
    /\ Absent \notin Nat \cup User \cup PublicKeys \cup Pointer
    /\ Absent \notin [key : {"user"} \X MasterKeys, plain : User]
    /\ Absent \notin [key : {"personal"} \X MasterKeys \X Filenames, plain : Access]

(* Symmetric encryption: a payload opens under the key that sealed it. *)
encryptAndMAC(data, key) == [key |-> key, plain |-> data]
decrypts(payload, key)   == payload.key = key

(* Key derivation.  HashKDF with distinct purposes gives distinct keys. *)
getUserKeys(master)              == <<"user", master>>
getPersonalKey(master, filename) == <<"personal", master, filename>>
getMailKeys(mailboxKey)          == <<"mailbox", mailboxKey>>
getFileKeys(fileKey)             == <<"file", fileKey>>

(* storage.Set: the datastore overwrites whatever the UUID named before.   *)
(* PutAll sets several records at once.                                    *)
PutAll(store, new) ==
    [x \in DOMAIN store \cup DOMAIN new |->
        IF x \in DOMAIN new THEN new[x] ELSE store[x]]

Put(store, id, record) == PutAll(store, [x \in {id} |-> record])

-----------------------------------------------------------------------------
(* Slip: the division rounds down and the partly filled block is lost. *)
ByteToBlockRoundsDown(data) ==
    [i \in 1..(Len(data) \div BlockSize) |->
        SubSeq(data, (i - 1) * BlockSize + 1, i * BlockSize)]

(* File.go: a content is cut into blocks of BlockSize bytes, the last one  *)
(* possibly shorter; an empty content has no block.                        *)
ByteToBlock(data) ==
    LET size     == Len(data)
        blockNum == (size + BlockSize - 1) \div BlockSize
        end(i)   == IF i * BlockSize > size THEN size ELSE i * BlockSize
    IN  [i \in 1..blockNum |-> SubSeq(data, (i - 1) * BlockSize + 1, end(i))]

(* The block loops of StoreFile and AppendToFile: each chunk is sealed     *)
(* under the file key and stored under a UUID of its own, from id on.      *)
NewBlocks(chunks, fileKey, id) ==
    [b \in id..(id + Len(chunks) - 1) |->
        encryptAndMAC(chunks[b - id + 1], getFileKeys(fileKey))]

BlockUUIDs(chunks, id) == [i \in 1..Len(chunks) |-> id + i - 1]

-----------------------------------------------------------------------------
(* What a user struct gives its holder: the checks every operation begins  *)
(* with.  A failing check makes the operation return an error before it    *)
(* has written anything.                                                   *)

Slot(me, f) == <<me.name, f>>

OpensAccess(me, f) ==
    /\ access[Slot(me, f)] # Absent
    /\ decrypts(access[Slot(me, f)], getPersonalKey(me.master, f))

AccessOf(me, f) == access[Slot(me, f)].plain

OpensMailbox(p) ==
    /\ p.uuid \in DOMAIN mailbox
    /\ decrypts(mailbox[p.uuid], getMailKeys(p.key))

MailboxOf(me, f) == mailbox[AccessOf(me, f).box.uuid].plain

OpensInode(node) ==
    /\ node.inode \in DOMAIN inode
    /\ decrypts(inode[node.inode], getFileKeys(node.fileKey))

InodeOf(me, f) == inode[MailboxOf(me, f).inode].plain

OpensBlocks(node) ==
    \A b \in Range(inode[node.inode].plain.blocks) :
        /\ b \in DOMAIN block
        /\ decrypts(block[b], getFileKeys(node.fileKey))

(* The chain access -> mailbox -> inode of LoadFile, AppendToFile and      *)
(* RevokeAccess.                                                           *)
OpensFile(me, f) ==
    /\ OpensAccess(me, f)
    /\ OpensMailbox(AccessOf(me, f).box)
    /\ OpensInode(MailboxOf(me, f))

ListFiles(me) == me.files

(* userdata.Files[filename] = accessUUID; saveUser(storage, userdata): the *)
(* session's own copy of the user struct replaces the stored one.          *)
saveUser(s, f) ==
    LET me == [sessions[s] EXCEPT !.files = @ \cup {f}]
    IN  /\ sessions' = [sessions EXCEPT ![s] = me]
        /\ accounts' = [accounts EXCEPT ![me.name] =
                            encryptAndMAC(me, getUserKeys(me.master))]

-----------------------------------------------------------------------------
(* UserService *)

(* Slip: the name is not looked up before it is registered. *)
InitUserUnchecked(s, u, password) ==
    LET me == [name |-> u, pke |-> fresh, ds |-> fresh + 1,
               master |-> <<u, password>>, files |-> {}]
    IN  /\ keystore' = [keystore EXCEPT ![u] = [enc |-> fresh, sig |-> fresh + 1]]
        /\ accounts' = [accounts EXCEPT ![u] =
                            encryptAndMAC(me, getUserKeys(me.master))]
        /\ sessions' = [sessions EXCEPT ![s] = me]
        /\ fresh' = fresh + 2
        /\ UNCHANGED <<access, mailbox, inode, block, invitation>>

InitUser(s, u, password) ==
    LET me == [name |-> u, pke |-> fresh, ds |-> fresh + 1,
               master |-> <<u, password>>, files |-> {}]
    IN  /\ accounts[u] = Absent
        /\ keystore' = [keystore EXCEPT ![u] = [enc |-> fresh, sig |-> fresh + 1]]
        /\ accounts' = [accounts EXCEPT ![u] =
                            encryptAndMAC(me, getUserKeys(me.master))]
        /\ sessions' = [sessions EXCEPT ![s] = me]
        /\ fresh' = fresh + 2
        /\ UNCHANGED <<access, mailbox, inode, block, invitation>>

GetUser(s, u, password) ==
    /\ accounts[u] # Absent
    /\ decrypts(accounts[u], getUserKeys(<<u, password>>))
    /\ sessions' = [sessions EXCEPT ![s] = accounts[u].plain]
    /\ UNCHANGED <<accounts, keystore, access, mailbox, inode, block,
                   invitation, fresh>>

-----------------------------------------------------------------------------
(* FileService *)

(* A new mailbox, inode and set of blocks under a new file key; the slot's *)
(* former access record, if any, is overwritten and its Children with it.  *)
StoreFile(s, f, content) ==
    LET me      == sessions[s]
        chunks  == ByteToBlock(content)
        fileKey == fresh
        node    == fresh + 1
        box     == [uuid |-> fresh + 2, key |-> fresh + 3]
        first   == fresh + 4
    IN  /\ me # Absent
        /\ Cardinality(DOMAIN inode) < MaxInodes
        /\ Cardinality(DOMAIN mailbox) < MaxMailboxes
        /\ Cardinality(DOMAIN block) + Len(chunks) <= MaxBlocks
        /\ mailbox' = Put(mailbox, box.uuid,
                          encryptAndMAC([fileKey |-> fileKey, inode |-> node],
                                        getMailKeys(box.key)))
        /\ access' = [access EXCEPT ![Slot(me, f)] =
                          encryptAndMAC([box |-> box, children |-> NoChildren],
                                        getPersonalKey(me.master, f))]
        /\ block' = PutAll(block, NewBlocks(chunks, fileKey, first))
        /\ inode' = Put(inode, node,
                        encryptAndMAC([size   |-> Len(content),
                                       blocks |-> BlockUUIDs(chunks, first)],
                                      getFileKeys(fileKey)))
        /\ saveUser(s, f)
        /\ fresh' = first + Len(chunks)
        /\ UNCHANGED <<keystore, invitation>>

(* Slip: the new block UUIDs are put before the old ones. *)
AppendedInFront(node, content, id) ==
    [size   |-> node.size + Len(content),
     blocks |-> BlockUUIDs(ByteToBlock(content), id) \o node.blocks]

(* The inode with the new blocks at its end. *)
Appended(node, content, id) ==
    [size   |-> node.size + Len(content),
     blocks |-> node.blocks \o BlockUUIDs(ByteToBlock(content), id)]

AppendToFile(s, f, content) ==
    LET me   == sessions[s]
        node == MailboxOf(me, f)
        chunks == ByteToBlock(content)
    IN  /\ me # Absent
        /\ OpensFile(me, f)
        /\ Cardinality(DOMAIN block) + Len(chunks) <= MaxBlocks
        /\ block' = PutAll(block, NewBlocks(chunks, node.fileKey, fresh))
        /\ inode' = Put(inode, node.inode,
                        encryptAndMAC(Appended(InodeOf(me, f), content, fresh),
                                      getFileKeys(node.fileKey)))
        /\ fresh' = fresh + Len(chunks)
        /\ UNCHANGED <<accounts, keystore, access, mailbox, invitation, sessions>>

-----------------------------------------------------------------------------
(* InvitationService *)

(* Slip: the recipient's mailbox is sealed under the sender's mailbox key. *)
RecipientMailboxOldKey(me, f) ==
    encryptAndMAC(MailboxOf(me, f), getMailKeys(AccessOf(me, f).box.key))

(* The mailbox CreateInvitation makes for its recipient before it looks up *)
(* the recipient's public key: a copy of the sender's own mailbox.         *)
RecipientMailbox(me, f) ==
    encryptAndMAC(MailboxOf(me, f), getMailKeys(fresh + 1))

CanInvite(me, f) ==
    /\ me # Absent
    /\ OpensAccess(me, f)
    /\ OpensMailbox(AccessOf(me, f).box)
    /\ Cardinality(DOMAIN mailbox) < MaxMailboxes

(* Slip: the child recorded is the sender's own mailbox. *)
WithOwnBoxAsChild(acc, r, box) == [acc EXCEPT !.children[r] = acc.box]

(* The sender's Children remember one mailbox per recipient, the last one. *)
WithChild(acc, r, box) == [acc EXCEPT !.children[r] = box]

CreateInvitation(s, f, recipient) ==
    LET me  == sessions[s]
        box == [uuid |-> fresh, key |-> fresh + 1]
    IN  /\ CanInvite(me, f)
        /\ keystore[recipient] # Absent
        /\ mailbox' = Put(mailbox, box.uuid, RecipientMailbox(me, f))
        /\ invitation' = Put(invitation, fresh + 2,
                             [enc |-> keystore[recipient].enc, sig |-> me.ds,
                              box |-> box])
        /\ access' = [access EXCEPT ![Slot(me, f)] =
                          encryptAndMAC(WithChild(AccessOf(me, f), recipient, box),
                                        getPersonalKey(me.master, f))]
        /\ fresh' = fresh + 3
        /\ UNCHANGED <<accounts, keystore, inode, block, sessions>>

(* The error return "recipient user does not exist": the recipient's       *)
(* mailbox has been stored by then and stays in the datastore.             *)
CreateInvitationFails(s, f, recipient) ==
    LET me == sessions[s]
    IN  /\ CanInvite(me, f)
        /\ keystore[recipient] = Absent
        /\ mailbox' = Put(mailbox, fresh, RecipientMailbox(me, f))
        /\ fresh' = fresh + 2
        /\ UNCHANGED <<accounts, keystore, access, inode, block, invitation,
                       sessions>>

(* The invitation's signature must verify under the named sender's key and *)
(* its ciphertext must decrypt under the session's private key.  Neither   *)
(* the mailbox nor the file behind it is read.                             *)
AcceptInvitation(s, sender, ptr, f) ==
    LET me  == sessions[s]
        inv == invitation[ptr]
    IN  /\ me # Absent
        /\ ptr \in DOMAIN invitation
        /\ keystore[sender] # Absent
        /\ inv.sig = keystore[sender].sig
        /\ inv.enc = me.pke
        /\ access' = [access EXCEPT ![Slot(me, f)] =
                          encryptAndMAC([box |-> inv.box, children |-> NoChildren],
                                        getPersonalKey(me.master, f))]
        /\ saveUser(s, f)
        /\ UNCHANGED <<keystore, mailbox, inode, block, invitation, fresh>>

(* Slip: the loop ends one block early. *)
ReEncryptedButLast(blocks, fileKey) ==
    [b \in DOMAIN block |->
        IF b \in {blocks[n] : n \in 1..(Len(blocks) - 1)}
        THEN encryptAndMAC(block[b].plain, getFileKeys(fileKey))
        ELSE block[b]]

(* RevokeAccess' block loop. *)
ReEncrypted(blocks, fileKey) ==
    [b \in DOMAIN block |->
        IF b \in Range(blocks)
        THEN encryptAndMAC(block[b].plain, getFileKeys(fileKey))
        ELSE block[b]]

(* Slip: the revoked child is not skipped. *)
RemainingBoxesAll(children, recipient) ==
    {children[c].uuid : c \in {u \in Users : /\ children[u] # Absent
                                             /\ OpensMailbox(children[u])}}

(* RevokeAccess' loop over the direct children: all but the revoked one    *)
(* receive the new file key, if their mailbox can be found and opened.     *)
RemainingBoxes(children, recipient) ==
    {children[c].uuid : c \in {u \in Users : /\ u # recipient
                                             /\ children[u] # Absent
                                             /\ OpensMailbox(children[u])}}

(* Slip: the children's mailboxes are written back with the old file key. *)
ReKeyedOldKey(boxes, fileKey) == mailbox

ReKeyed(boxes, fileKey) ==
    [m \in DOMAIN mailbox |->
        IF m \in boxes
        THEN encryptAndMAC([mailbox[m].plain EXCEPT !.fileKey = fileKey],
                           mailbox[m].key)
        ELSE mailbox[m]]

(* Slip: the revoked child stays in the Children map. *)
WithChildLeft(acc, r, box) == [box |-> box, children |-> acc.children]

WithoutChild(acc, r, box) == [box |-> box, children |-> [acc.children EXCEPT ![r] = Absent]]

(* Any holder of a slot may call it, and recipient need not be a child.    *)
RevokeAccess(s, f, recipient) ==
    LET me      == sessions[s]
        acc     == AccessOf(me, f)
        node    == MailboxOf(me, f)
        fileKey == fresh
        box     == [uuid |-> fresh + 2, key |-> fresh + 1]
    IN  /\ me # Absent
        /\ OpensFile(me, f)
        /\ OpensBlocks(node)
        /\ Cardinality(DOMAIN mailbox) < MaxMailboxes
        /\ block' = ReEncrypted(InodeOf(me, f).blocks, fileKey)
        /\ inode' = Put(inode, node.inode,
                        encryptAndMAC(InodeOf(me, f), getFileKeys(fileKey)))
        /\ mailbox' = Put(ReKeyed(RemainingBoxes(acc.children, recipient), fileKey),
                          box.uuid,
                          encryptAndMAC([fileKey |-> fileKey, inode |-> node.inode],
                                        getMailKeys(box.key)))
        /\ access' = [access EXCEPT ![Slot(me, f)] =
                          encryptAndMAC(WithoutChild(acc, recipient, box),
                                        getPersonalKey(me.master, f))]
        /\ saveUser(s, f)
        /\ fresh' = fresh + 3
        /\ UNCHANGED <<keystore, invitation>>

-----------------------------------------------------------------------------
Init ==
    /\ accounts = [u \in Users |-> Absent]
    /\ keystore = [u \in Users |-> Absent]
    /\ access = [x \in Slots |-> Absent]
    /\ mailbox = <<>>
    /\ inode = <<>>
    /\ block = <<>>
    /\ invitation = <<>>
    /\ sessions = [s \in Sessions |-> Absent]
    /\ fresh = 1

Next ==
    \E s \in Sessions :
        \/ \E u \in Users, p \in Passwords : InitUser(s, u, p) \/ GetUser(s, u, p)
        \/ \E f \in Filenames, c \in Contents : StoreFile(s, f, c) \/ AppendToFile(s, f, c)
        \/ \E f \in Filenames, r \in Users :
               \/ CreateInvitation(s, f, r)
               \/ CreateInvitationFails(s, f, r)
               \/ RevokeAccess(s, f, r)
        \/ \E f \in Filenames, sender \in Users, ptr \in DOMAIN invitation :
               AcceptInvitation(s, sender, ptr, f)

Spec == Init /\ [][Next]_vars

-----------------------------------------------------------------------------
(* Properties of the serial executions *)

IsStore(store, Records) ==
    /\ DOMAIN store \subseteq Nat
    /\ \A x \in DOMAIN store : store[x] \in Records

Sealed(Keys, Data) == [key : Keys, plain : Data]

(* Every record has the shape that json.Unmarshal expects of its kind.     *)
TypeOK ==
    /\ accounts \in [Users -> Sealed({"user"} \X MasterKeys, User) \cup {Absent}]
    /\ keystore \in [Users -> PublicKeys \cup {Absent}]
    /\ access \in [Slots -> Sealed({"personal"} \X MasterKeys \X Filenames, Access)
                                \cup {Absent}]
    /\ IsStore(mailbox, Sealed({"mailbox"} \X Nat, MailboxNode))
    /\ IsStore(inode, Sealed({"file"} \X Nat, Inode))
    /\ IsStore(block, Sealed({"file"} \X Nat, Seq(Bytes)))
    /\ IsStore(invitation, Invitation)
    /\ sessions \in [Sessions -> User \cup {Absent}]
    /\ fresh \in Nat

(* A stored user struct is sealed under its owner's master key and holds   *)
(* the private halves of the keys published under the owner's name; a name *)
(* has public keys exactly when it has a user struct (InitUser).           *)
KeysPublished ==
    \A u \in Users :
        /\ (keystore[u] = Absent) <=> (accounts[u] = Absent)
        /\ accounts[u] # Absent =>
               LET me == accounts[u].plain
               IN  /\ me.name = u
                   /\ accounts[u].key = getUserKeys(me.master)
                   /\ keystore[u] = [enc |-> me.pke, sig |-> me.ds]

(* However stale the file list in a session's user struct is, its keys are *)
(* those of the stored struct: saveUser can never install other keys.      *)
SessionsGenuine ==
    \A s \in Sessions :
        sessions[s] # Absent =>
            LET me == sessions[s]
            IN  /\ accounts[me.name] # Absent
                /\ [me EXCEPT !.files = accounts[me.name].plain.files]
                       = accounts[me.name].plain

(* Every pointer in an access record opens: the record is sealed under the *)
(* key its owner derives, its own mailbox and the mailbox of every child   *)
(* exist and open under the keys kept beside their UUIDs, and all of them  *)
(* lead to one file.  "mailbox not found", "failed to decrypt mailbox" and *)
(* the continue branches of RevokeAccess' child loop are never taken.      *)
SlotsOpen ==
    \A u \in Users, f \in Filenames :
        access[<<u, f>>] # Absent =>
            LET acc == access[<<u, f>>].plain
            IN  /\ accounts[u] # Absent
                /\ access[<<u, f>>].key = getPersonalKey(accounts[u].plain.master, f)
                /\ OpensMailbox(acc.box)
                /\ \A c \in Users :
                       acc.children[c] # Absent =>
                           /\ OpensMailbox(acc.children[c])
                           /\ mailbox[acc.children[c].uuid].plain.inode
                                  = mailbox[acc.box.uuid].plain.inode

(* Every invitation ever created can still be accepted: a registered user  *)
(* holds the private key it is encrypted for, its signature verifies under *)
(* a published key, and the mailbox it hands over opens.                   *)
InvitationsOpen ==
    \A p \in DOMAIN invitation :
        /\ OpensMailbox(invitation[p].box)
        /\ \E u \in Users : /\ accounts[u] # Absent
                            /\ accounts[u].plain.pke = invitation[p].enc
        /\ \E u \in Users : /\ keystore[u] # Absent
                            /\ keystore[u].sig = invitation[p].sig

(* ListFiles "returns a list of filenames the user has access to": what a  *)
(* user who has one session at a time lists after logging in holds every   *)
(* name that refers to a file.  (A second session's saveUser would write   *)
(* back the list it has read.)                                             *)
ListsAllFiles ==
    Cardinality(Sessions) = 1 =>
        \A u \in Users, f \in Filenames :
            access[<<u, f>>] # Absent => f \in ListFiles(accounts[u].plain)

(* Every mailbox, a revoked user's included, names an inode that exists.   *)
MailboxesLead ==
    \A m \in DOMAIN mailbox : mailbox[m].plain.inode \in DOMAIN inode

LinksOpen == SlotsOpen /\ InvitationsOpen /\ MailboxesLead

(* A file is in one piece: all its blocks exist and are sealed under the   *)
(* key of its inode, whatever stores, appends and re-keyings came before,  *)
(* and no block belongs to two files or to two places of one file (else    *)
(* the re-keying of one file would destroy another).  Whoever opens the    *)
(* inode reads the whole file: "data block not found" and "failed to       *)
(* decrypt block" are never returned, and RevokeAccess' block loop never   *)
(* stops halfway.                                                          *)
FilesWhole ==
    \A i \in DOMAIN inode :
        \A n \in DOMAIN inode[i].plain.blocks :
            LET b == inode[i].plain.blocks[n]
            IN  /\ b \in DOMAIN block
                /\ block[b].key = inode[i].key
                /\ \A j \in DOMAIN inode : \A k \in DOMAIN inode[j].plain.blocks :
                       inode[j].plain.blocks[k] = b => j = i /\ k = n

(* What LoadFile returns to whoever opens inode i and its blocks. *)
FileBytes(i) ==
    FlattenSeq([n \in DOMAIN inode[i].plain.blocks |->
                    block[inode[i].plain.blocks[n]].plain])

(* The Size that StoreFile and AppendToFile record is the number of bytes  *)
(* the blocks hold, with partly filled blocks anywhere in the file.        *)
SizeMatches ==
    \A i \in DOMAIN inode : inode[i].plain.size = Len(FileBytes(i))

(* A mailbox is live when the file key in it opens the inode it names.     *)
Live(m) == OpensInode(mailbox[m].plain)

(* The bytes of a file are only ever extended at the end: AppendToFile     *)
(* keeps what was there, RevokeAccess re-encrypts the same bytes, and a    *)
(* StoreFile over an existing name leaves the former file as it was for    *)
(* the users it was shared with.                                           *)
ContentOnlyGrows ==
    [][\A i \in DOMAIN inode : /\ i \in DOMAIN inode'
                               /\ IsPrefix(FileBytes(i), FileBytes(i)')]_vars

=============================================================================
