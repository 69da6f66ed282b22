------------------------- MODULE ShareLockRefinement -------------------------
(***************************************************************************)
(* ShareLock implements SharedFiles.  A capability is a mailbox; it is     *)
(* alive when the file key in it opens the inode it names.  The identities *)
(* of mailboxes, inodes and invitations are their UUIDs; sealed payloads,  *)
(* keys, sessions and the stored file lists have no counterpart.           *)
(***************************************************************************)
EXTENDS ShareLock

registeredBar == {u \in Users : accounts[u] # Absent}

handleBar == [x \in Slots |-> IF access[x] = Absent THEN Absent
                              ELSE access[x].plain.box.uuid]

kidsBar ==
    [x \in Slots |->
        [c \in Users |->
            IF access[x] = Absent \/ access[x].plain.children[c] = Absent
            THEN Absent
            ELSE access[x].plain.children[c].uuid]]

targetBar == [m \in DOMAIN mailbox |-> mailbox[m].plain.inode]

aliveBar == {m \in DOMAIN mailbox : Live(m)}

contentBar ==
    [i \in DOMAIN inode |->
        [n \in DOMAIN inode[i].plain.blocks |->
            block[inode[i].plain.blocks[n]].plain]]

offerBar ==
    [p \in DOMAIN invitation |->
        [to   |-> CHOOSE u \in Users : /\ keystore[u] # Absent
                                       /\ keystore[u].enc = invitation[p].enc,
         from |-> CHOOSE u \in Users : /\ keystore[u] # Absent
                                       /\ keystore[u].sig = invitation[p].sig,
         cap  |-> invitation[p].box.uuid]]

Promise == INSTANCE SharedFiles WITH
    Chunkings <- {ByteToBlock(c) : c \in Contents}, None <- Absent,
    registered <- registeredBar, handle <- handleBar, kids <- kidsBar,
    target <- targetBar, alive <- aliveBar, content <- contentBar,
    offer <- offerBar

(* Every execution of the services is one of capabilities: an operation    *)
(* succeeds only through a live mailbox, an invitation is worth as much as *)
(* its sender's own access, and RevokeAccess leaves alive, of all the      *)
(* mailboxes of the file, exactly the caller's new one and those of the    *)
(* caller's remaining children; the chunks of no file change.              *)
ImplementsSharedFiles == Promise!Spec
=============================================================================
