------------------------------ MODULE Revocation ------------------------------
(***************************************************************************)
(* ShareLock with history variables that record what no stored record      *)
(* tells: along which line of users a mailbox was handed on, which mailbox *)
(* the storing user (the owner) holds, and which mailboxes the owner meant *)
(* to cut off.  They restrict no step.  The questions here are who can     *)
(* still read a file after a sequence of invitations and revocations by    *)
(* the owner and by sharees.                                               *)
(***************************************************************************)
EXTENDS ShareLock

VARIABLES
    line,   \* mailbox -> the users it came through, from the owner to its holder
    root,   \* inode -> the owner's current mailbox
    cut     \* mailboxes whose line the owner has revoked somewhere

hvars == <<line, root, cut>>
allVars == <<accounts, keystore, access, mailbox, inode, block, invitation,
             sessions, fresh, line, root, cut>>

HInit == Init /\ line = <<>> /\ root = <<>> /\ cut = {}

OwnBox(s, f) == AccessOf(sessions[s], f).box.uuid

Stored(s, f, c) ==
    /\ StoreFile(s, f, c)
    /\ LET box == access'[Slot(sessions[s], f)].plain.box.uuid
       IN  /\ line' = Put(line, box, <<sessions[s].name>>)
           /\ root' = Put(root, mailbox'[box].plain.inode, box)
    /\ UNCHANGED cut

(* What is handed on from a cut mailbox is cut as well. *)
InheritCut(own, box) == IF own \in cut THEN cut \cup {box} ELSE cut

Invited(s, f, r) ==
    /\ CreateInvitation(s, f, r) \/ CreateInvitationFails(s, f, r)
    /\ line' = Put(line, fresh, Append(line[OwnBox(s, f)], r))
    /\ cut' = InheritCut(OwnBox(s, f), fresh)
    /\ UNCHANGED root

(* The mailboxes of file i that came from the owner through or to user r. *)
Through(i, r) ==
    {m \in DOMAIN mailbox : mailbox[m].plain.inode = i /\ r \in Range(Tail(line[m]))}

RevokedByOwner(s, f, r) ==
    /\ RevokeAccess(s, f, r)
    /\ LET i   == MailboxOf(sessions[s], f).inode
           box == access'[Slot(sessions[s], f)].plain.box.uuid
       IN  /\ root[i] = OwnBox(s, f)
           /\ line' = Put(line, box, line[OwnBox(s, f)])
           /\ root' = Put(root, i, box)
           /\ cut' = cut \cup Through(i, r)

RevokedBySharee(s, f, r) ==
    /\ RevokeAccess(s, f, r)
    /\ LET i   == MailboxOf(sessions[s], f).inode
           box == access'[Slot(sessions[s], f)].plain.box.uuid
       IN  /\ root[i] # OwnBox(s, f)
           /\ line' = Put(line, box, line[OwnBox(s, f)])
           /\ cut' = InheritCut(OwnBox(s, f), box)
    /\ UNCHANGED root

Others(s) ==
    /\ \/ \E u \in Users, p \in Passwords : InitUser(s, u, p) \/ GetUser(s, u, p)
       \/ \E f \in Filenames, c \in Contents : AppendToFile(s, f, c)
       \/ \E f \in Filenames, sender \in Users, ptr \in DOMAIN invitation :
              AcceptInvitation(s, sender, ptr, f)
    /\ UNCHANGED hvars

HNext ==
    \E s \in Sessions :
        \/ Others(s)
        \/ \E f \in Filenames, c \in Contents : Stored(s, f, c)
        \/ \E f \in Filenames, r \in Users :
               \/ Invited(s, f, r)
               \/ RevokedByOwner(s, f, r)
               \/ RevokedBySharee(s, f, r)

HSpec == HInit /\ [][HNext]_allVars

-----------------------------------------------------------------------------
(* As long as the owner can open the file, no mailbox the owner cut off    *)
(* opens it: neither the revoked user's, nor one the revoked user handed   *)
(* on before or after the revocation, nor one another sharee had made for  *)
(* the revoked user.  RevokeAccess' re-keying, over any number of later    *)
(* invitations and revocations by anyone.                                  *)
CutStaysCut ==
    \A i \in DOMAIN inode :
        Live(root[i]) =>
            \A m \in cut : mailbox[m].plain.inode = i => ~Live(m)

(* As long as the owner can open the file, so can every sharee recorded in *)
(* the Children of the owner's access record, through the mailbox recorded *)
(* there: no revocation of another sharee leaves one of them behind.       *)
RecordedShareesRead ==
    \A x \in Slots :
        access[x] # Absent =>
            LET acc == access[x].plain
                i   == mailbox[acc.box.uuid].plain.inode
            IN  root[i] = acc.box.uuid /\ Live(root[i]) =>
                    \A c \in Users :
                        acc.children[c] # Absent => Live(acc.children[c].uuid)

(* The owner's own mailbox is never handed out in an invitation or kept as *)
(* somebody's child, so a sharee's revocation never re-keys it.            *)
RootPrivate ==
    \A i \in DOMAIN root :
        /\ \A p \in DOMAIN invitation : invitation[p].box.uuid # root[i]
        /\ \A x \in Slots : access[x] # Absent =>
               \A c \in Users :
                   access[x].plain.children[c] # Absent =>
                       access[x].plain.children[c].uuid # root[i]

-----------------------------------------------------------------------------
(* What the documentation and the tests say of revocation.                 *)

Holds(x, m) == access[x] # Absent /\ access[x].plain.box.uuid = m

(* "Revoked users immediately lose access to all future file updates.":    *)
(* nobody reads the file through a mailbox that the owner cut off.         *)
RevokedLoseAccess == \A x \in Slots, m \in cut : Holds(x, m) => ~Live(m)

(* "transparently updates remaining sharees": while the owner reads the    *)
(* file, so does every user who accepted an invitation and whose line to   *)
(* the owner nobody revoked, the users the owner's invitees shared the     *)
(* file with among them.                                                   *)
RemainingShareesRead ==
    \A m \in DOMAIN mailbox \ cut :
        /\ Len(line[m]) > 2
        /\ \E x \in Slots : Holds(x, m)
        /\ Live(root[mailbox[m].plain.inode])
        => Live(m)
=============================================================================
