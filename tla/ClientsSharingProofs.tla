------------------------- MODULE ClientsSharingProofs -------------------------
(***************************************************************************)
(* Sharing and revocation in ConcurrentClients, for any number of users,   *)
(* sessions, files and calls: a revoked user stays out and the owner keeps *)
(* reading.                                                                *)
(***************************************************************************)
EXTENDS ConcurrentClientsProofs

(* Labels.  What a number was drawn for is nowhere in the state: whose     *)
(* mailbox it is (of), which inode the mailbox leads to (to), which key    *)
(* seals it (seal), which method drew it (made), under which name an inode *)
(* was stored (home), and which inode a block belongs to (part).  The      *)
(* invariants say that some labels fit the state.                          *)

Labels == [of : [Nat -> Users], to : {x \in [Nat -> Nat] : \A n \in Nat : x[n] <= n},
           seal : [Nat -> Nat], made : [Nat -> Methods], home : [Nat -> Filenames],
           part : [Nat -> Nat]]

Drawn(n, top) == n \in Nat /\ n < top

(* g and h agree on the numbers drawn so far. *)
Agree(g, h, top) ==
    \A n \in Nat : n < top => /\ h.of[n] = g.of[n] /\ h.to[n] = g.to[n]
                              /\ h.seal[n] = g.seal[n] /\ h.made[n] = g.made[n]
                              /\ h.home[n] = g.home[n] /\ h.part[n] = g.part[n]

PointerFits(p, u, g, top) == /\ Drawn(p.uuid, top)
                             /\ g.of[p.uuid] = u /\ p.key = g.seal[p.uuid]

AccessFits(acc, u, g, top) ==
    /\ PointerFits(acc.box, u, g, top)
    /\ \A v \in Users : acc.children[v] # Absent =>
           /\ PointerFits(acc.children[v], v, g, top)
           /\ g.to[acc.children[v].uuid] = g.to[acc.box.uuid]

InvitationFits(inv, g, top) ==
    \A u \in Range(Circle) : inv.enc = Public[u].enc => PointerFits(inv.box, u, g, top)

MailboxFits(m, record, g, top) ==
    /\ Drawn(m, top) /\ record.key = getMailKeys(g.seal[m])
    /\ record.plain.inode = g.to[m] /\ Drawn(record.plain.fileKey, top)

(* The blocks are different ones, all of inode i. *)
BlocksOf(i, blocks, g, top) ==
    /\ \A k \in DOMAIN blocks : Drawn(blocks[k], top) /\ g.part[blocks[k]] = i
    /\ \A k, n \in DOMAIN blocks : blocks[k] = blocks[n] => k = n

WriteFits(u, c, w, g, top) ==
    /\ w.kind = "access" =>
           /\ AccessFits(w.record.plain, u, g, top)
           /\ c.op = "StoreFile" => /\ g.to[w.record.plain.box.uuid] = c.node.inode
                                    /\ g.made[w.record.plain.box.uuid] = "StoreFile"
    /\ w.kind = "invitation" => InvitationFits(w.record, g, top)
    /\ w.kind = "mailbox" => MailboxFits(w.id, w.record, g, top)
    /\ w.kind = "inode" => BlocksOf(w.id, w.record.plain.blocks, g, top)
    /\ w.kind = "block" => Drawn(w.id, top) /\ g.part[w.id] = c.node.inode

CallLabelled(u, c, g, top) ==
    /\ Holds(c) => AccessFits(c.acc, u, g, top)
    /\ Knows(c) => c.node.inode = g.to[c.acc.box.uuid] /\ Drawn(c.node.fileKey, top)
    /\ Invites(c) => /\ PointerFits(c.box, c.arg, g, top) /\ g.to[c.box.uuid] = c.node.inode
                     /\ g.made[c.box.uuid] = "CreateInvitation"
    /\ Rekeys(c) => /\ PointerFits(c.box, u, g, top) /\ g.to[c.box.uuid] = c.node.inode
                    /\ g.made[c.box.uuid] = "RevokeAccess" /\ Drawn(c.key, top)
    /\ c.at = "reseal" => /\ BlocksOf(c.node.inode, c.file.blocks, g, top)
                          /\ BlocksOf(c.node.inode, c.left, g, top)
    /\ c.op = "StoreFile" => Drawn(c.node.inode, top) /\ g.home[c.node.inode] = c.f
    /\ c.at = "sender" => InvitationFits(c.inv, g, top)
    /\ \A n \in DOMAIN c.todo : WriteFits(u, c, c.todo[n], g, top)

LInv(g) ==
    /\ \A x \in Slots : access[x] # Absent => AccessFits(access[x].plain, x[1], g, fresh)
    /\ \A p \in DOMAIN invitation : InvitationFits(invitation[p], g, fresh)
    /\ \A m \in DOMAIN mailbox : MailboxFits(m, mailbox[m], g, fresh)
    /\ \A i \in DOMAIN inode : BlocksOf(i, inode[i].plain.blocks, g, fresh)
    /\ \A s \in Sessions : InCall(s) => CallLabelled(Who(s), call[s], g, fresh)

-----------------------------------------------------------------------------
(* Revocations that do not overlap what they replace. *)

(* Only the owner revokes, under the one name the owner has for the file.  *)
Orderly ==
    /\ OnlyOwnerRevokes
    /\ <<Owner, "AcceptInvitation">> \notin begun
    /\ ~Overlapped({"RevokeAccess"}, {"RevokeAccess", "AppendToFile", "CreateInvitation"})

(* The owner's access record acc, under name f, is of a file stored under  *)
(* f, and its mailbox is none that was made for a recipient.               *)
Homely(acc, f, g) == /\ g.home[g.to[acc.box.uuid]] = f
                     /\ g.made[acc.box.uuid] # "CreateInvitation"

AtHome(g) ==
    /\ \A f \in Filenames : access[<<Owner, f>>] # Absent =>
           Homely(access[<<Owner, f>>].plain, f, g)
    /\ \A s \in Sessions : InCall(s) /\ Who(s) = Owner /\ Holds(call[s]) =>
           Homely(call[s].acc, call[s].f, g)

Queues(c, kind) == \E n \in DOMAIN c.todo : c.todo[n].kind = kind

(* The RevokeAccess c has yet to write its inode; its access record. *)
Unkeyed(c) == Rekeys(c) /\ (c.at = "reseal" \/ Queues(c, "inode"))
Untold(c)  == Rekeys(c) /\ (c.at # "return" \/ Queues(c, "access"))

(* The key of c's inode while c is about to write it, or has written it. *)
NodeKeyed(c, nodes) ==
    /\ c.op = "AppendToFile" /\ c.at = "return" =>
           nodes[c.node.inode].key = getFileKeys(c.node.fileKey)
    /\ Rekeys(c) => /\ c.node.inode \in DOMAIN nodes
                    /\ \A n \in DOMAIN c.todo : c.todo[n].kind = "inode" => n = 1
    /\ Unkeyed(c) => nodes[c.node.inode].key = getFileKeys(c.node.fileKey)
    /\ Rekeys(c) /\ ~Unkeyed(c) => nodes[c.node.inode].key = getFileKeys(c.key)

KeysHeld == \A s \in Sessions : InCall(s) => NodeKeyed(call[s], inode)

-----------------------------------------------------------------------------
(* Who is out. *)

Inviting(u, i, cs) ==
    \E s \in Sessions : /\ cs[s] # Absent /\ Invites(cs[s])
                        /\ cs[s].arg = u /\ cs[s].node.inode = i

(* u has been revoked from inode i and nobody is inviting u again. *)
Cut(u, i, rev, cs) ==
    /\ <<u, i>> \in rev /\ u # Owner /\ u \in Range(Circle)
    /\ ~Inviting(u, i, cs)

(* None of the children is cut. *)
Clean(acc, g, rev, cs) ==
    \A u \in Users : Cut(u, g.to[acc.box.uuid], rev, cs) => acc.children[u] = Absent

(* c gives its new key to u. *)
Spared(c, u) == u = Owner \/ (u # c.arg /\ c.acc.children[u] # Absent)

(* Only those whom c spares have its key, and its Children lose c.arg. *)
RevokeClean(c, g, boxes, accs) ==
    /\ \A m \in DOMAIN boxes :
           g.to[m] = c.node.inode /\ boxes[m].plain.fileKey = c.key => Spared(c, g.of[m])
    /\ ~Untold(c) /\ accs[<<Owner, c.f>>] # Absent =>
           accs[<<Owner, c.f>>].plain.children[c.arg] = Absent

CutInv(g) ==
    /\ \A x \in revoked : x[2] \in DOMAIN inode
    /\ \A m \in DOMAIN mailbox :
           Cut(g.of[m], g.to[m], revoked, call) => ~LiveIn(mailbox, inode, m)
    /\ \A f \in Filenames : access[<<Owner, f>>] # Absent =>
           Clean(access[<<Owner, f>>].plain, g, revoked, call)
    /\ \A s \in Sessions :
           InCall(s) /\ Who(s) = Owner /\ Holds(call[s])
           /\ call[s].op \in {"CreateInvitation", "RevokeAccess"} =>
               Clean(call[s].acc, g, revoked, call)
    /\ \A s \in Sessions : InCall(s) /\ Rekeys(call[s]) =>
           RevokeClean(call[s], g, mailbox, access)

-----------------------------------------------------------------------------
(* The owner reads. *)

(* The key that inode i has, or will have when StoreFile has stored it. *)
KeyOf(i, nodes) == IF i \in DOMAIN nodes THEN nodes[i].key ELSE getFileKeys(i - 1)

(* Mailbox m is stored, with the key of inode i. *)
BoxReads(m, i, boxes, nodes) ==
    m \in DOMAIN boxes /\ getFileKeys(boxes[m].plain.fileKey) = KeyOf(i, nodes)

(* A RevokeAccess is giving inode i a new key; its access record comes next. *)
Rekeying(i, cs)  == \E s \in Sessions : cs[s] # Absent /\ Rekeys(cs[s]) /\ cs[s].node.inode = i
Replacing(i, cs) == \E s \in Sessions : cs[s] # Absent /\ Untold(cs[s]) /\ cs[s].node.inode = i

(* All the blocks are sealed under the key. *)
SealedAs(ids, key, blocks) == \A k \in DOMAIN ids : blocks[ids[k]].key = key

(* CreateInvitation of the owner: the access record that it has read and   *)
(* will write back leads to a file.                                        *)
InviteReads(c, g, boxes, nodes, cs) ==
    /\ There(g.to[c.acc.box.uuid], nodes, cs)
    /\ BoxReads(c.acc.box.uuid, g.to[c.acc.box.uuid], boxes, nodes)

(* StoreFile: the mailbox is stored before the access record. *)
StoreReads(c, boxes) ==
    \A n \in DOMAIN c.todo : c.todo[n].kind = "access" =>
        LET m == c.todo[n].record.plain.box.uuid
        IN  \/ m \in DOMAIN boxes /\ boxes[m].plain.fileKey = c.node.fileKey
            \/ \E k \in DOMAIN c.todo : /\ k < n /\ c.todo[k].kind = "mailbox"
                                        /\ c.todo[k].id = m

(* StoreFile and AppendToFile: the blocks of the inode they will write. *)
InodeReads(c, blocks) ==
    \A n \in DOMAIN c.todo : c.todo[n].kind = "inode" =>
        KeyedAs(c.todo[n].record.plain.blocks, c.node.fileKey, blocks)

(* RevokeAccess: the blocks still left have the former key, the others the *)
(* new one, and the caller's new mailbox is stored before anything else is *)
(* read.                                                                   *)
RevokeReads(c, boxes, nodes, blocks) ==
    /\ nodes[c.node.inode].plain = c.file
    /\ c.at = "reseal" =>
           /\ Exist(c.left, blocks) /\ SealedAs(c.left, getFileKeys(c.node.fileKey), blocks)
           /\ \A k \in DOMAIN c.todo : /\ c.todo[k].kind = "block"
                                       /\ \A n \in DOMAIN c.left : c.todo[k].id # c.left[n]
           /\ \A k \in DOMAIN c.file.blocks :
                  \/ \E n \in DOMAIN c.left : c.left[n] = c.file.blocks[k]
                  \/ \E n \in DOMAIN c.todo : c.todo[n].id = c.file.blocks[k]
                  \/ blocks[c.file.blocks[k]].key = getFileKeys(c.key)
    /\ c.at # "reseal" =>
           /\ SealedAs(c.file.blocks, getFileKeys(c.key), blocks)
           /\ \/ c.box.uuid \in DOMAIN boxes /\ boxes[c.box.uuid].plain.fileKey = c.key
              \/ \E n \in DOMAIN c.todo : c.todo[n].kind = "mailbox" /\ c.todo[n].id = c.box.uuid

CallReads(u, c, g, boxes, nodes, blocks, cs) ==
    /\ u = Owner /\ Holds(c) /\ c.op = "CreateInvitation" => InviteReads(c, g, boxes, nodes, cs)
    /\ c.op = "StoreFile" => StoreReads(c, boxes)
    /\ c.op \in {"StoreFile", "AppendToFile"} => InodeReads(c, blocks)
    /\ Rekeys(c) => RevokeReads(c, boxes, nodes, blocks)

OInv(g) ==
    /\ access[OwnerSlot] # Absent
    /\ \A i \in DOMAIN inode : ~Rekeying(i, call) =>
           SealedAs(inode[i].plain.blocks, inode[i].key, block)
    /\ \A f \in Filenames : access[<<Owner, f>>] # Absent =>
           LET m == access[<<Owner, f>>].plain.box.uuid
           IN  /\ There(g.to[m], inode, call)
               /\ ~Replacing(g.to[m], call) => BoxReads(m, g.to[m], mailbox, inode)
    /\ \A s \in Sessions : InCall(s) =>
           CallReads(Who(s), call[s], g, mailbox, inode, block, call)

(* Revocations that leave nobody in, and those that leave the owner in.    *)
Thorough == Orderly /\ "CreateInvitation" \notin died
Unbroken == Orderly /\ died \cap {"RevokeAccess", "StoreFile"} = {}

-----------------------------------------------------------------------------
(* Labels that fit *)

(* Only numbers that are not drawn yet are labelled anew. *)
Relabels(g, h, top, next) == /\ top \in Nat /\ next \in Nat /\ top <= next
                             /\ Agree(g, h, top)

LEMMA LabelsType ==
    ASSUME NEW g \in Labels
    PROVE  /\ g.of \in [Nat -> Users] /\ g.to \in [Nat -> Nat] /\ g.seal \in [Nat -> Nat]
           /\ g.made \in [Nat -> Methods] /\ g.home \in [Nat -> Filenames] /\ g.part \in [Nat -> Nat]
           /\ \A n \in Nat : g.to[n] <= n
BY DEF Labels

(* h is g with the numbers from top on labelled for mailboxes of u that    *)
(* lead to inode i and for blocks of inode i.                              *)
LabelsAlso(g, h, top, u, i, key, f, op) ==
    /\ Agree(g, h, top)
    /\ \A n \in Nat : n >= top =>
           /\ h.of[n] = u /\ h.seal[n] = key /\ h.made[n] = op
           /\ h.home[n] = f /\ h.part[n] = i
           /\ i <= n => h.to[n] = i

LEMMA NewLabels ==
    ASSUME NEW g \in Labels, NEW top \in Nat, NEW u \in Users, NEW i \in Nat, NEW key \in Nat,
           NEW f \in Filenames, NEW op \in Methods
    PROVE  \E h \in Labels : LabelsAlso(g, h, top, u, i, key, f, op)
<1> DEFINE of   == [n \in Nat |-> IF n < top THEN g.of[n] ELSE u]
           to   == [n \in Nat |-> IF n < top THEN g.to[n] ELSE IF i <= n THEN i ELSE 0]
           seal == [n \in Nat |-> IF n < top THEN g.seal[n] ELSE key]
           made == [n \in Nat |-> IF n < top THEN g.made[n] ELSE op]
           home == [n \in Nat |-> IF n < top THEN g.home[n] ELSE f]
           part == [n \in Nat |-> IF n < top THEN g.part[n] ELSE i]
           h    == [of |-> of, to |-> to, seal |-> seal, made |-> made,
                     home |-> home, part |-> part]
<1>1. /\ of \in [Nat -> Users] /\ to \in [Nat -> Nat] /\ seal \in [Nat -> Nat]
      /\ made \in [Nat -> Methods] /\ home \in [Nat -> Filenames] /\ part \in [Nat -> Nat]
  BY LabelsType
<1>2. \A n \in Nat : to[n] <= n
  BY LabelsType
<1>3. /\ \A n \in Nat : n < top => /\ of[n] = g.of[n] /\ to[n] = g.to[n] /\ seal[n] = g.seal[n]
                                   /\ made[n] = g.made[n] /\ home[n] = g.home[n] /\ part[n] = g.part[n]
      /\ \A n \in Nat : n >= top => /\ of[n] = u /\ seal[n] = key /\ made[n] = op
                                    /\ home[n] = f /\ part[n] = i
                                    /\ i <= n => to[n] = i
  OBVIOUS
<1> HIDE DEF of, to, seal, made, home, part
<1>4. h.of = of /\ h.to = to /\ h.seal = seal /\ h.made = made
      /\ h.home = home /\ h.part = part
  OBVIOUS
<1>5. h \in Labels
  BY <1>1, <1>2 DEF Labels
<1> HIDE DEF h
<1>6. Agree(g, h, top)
  BY <1>3, <1>4 DEF Agree
<1>7. \A n \in Nat : n >= top =>
          /\ h.of[n] = u /\ h.seal[n] = key /\ h.made[n] = op
          /\ h.home[n] = f /\ h.part[n] = i
          /\ i <= n => h.to[n] = i
  BY <1>3, <1>4
<1> QED
  BY <1>5, <1>6, <1>7 DEF LabelsAlso

LEMMA AgreeAt ==
    ASSUME NEW g, NEW h, NEW top, NEW next, Relabels(g, h, top, next), NEW n, Drawn(n, top)
    PROVE  /\ Drawn(n, next)
           /\ h.of[n] = g.of[n] /\ h.to[n] = g.to[n] /\ h.seal[n] = g.seal[n]
           /\ h.made[n] = g.made[n] /\ h.home[n] = g.home[n] /\ h.part[n] = g.part[n]
<1>1. n \in Nat /\ n < top /\ top \in Nat /\ next \in Nat /\ top <= next /\ Agree(g, h, top)
  BY DEF Relabels, Drawn
<1>2. n < next
  BY <1>1
<1> QED
  BY <1>1, <1>2 DEF Drawn, Agree

LEMMA PointerRelabels ==
    ASSUME NEW g, NEW h, NEW top, NEW next, Relabels(g, h, top, next), NEW p, NEW u,
           PointerFits(p, u, g, top)
    PROVE  /\ PointerFits(p, u, h, next) /\ h.to[p.uuid] = g.to[p.uuid]
           /\ h.made[p.uuid] = g.made[p.uuid]
BY AgreeAt DEF PointerFits

LEMMA AccessRelabels ==
    ASSUME NEW g, NEW h, NEW top, NEW next, Relabels(g, h, top, next), NEW acc, NEW u,
           AccessFits(acc, u, g, top)
    PROVE  /\ AccessFits(acc, u, h, next) /\ h.to[acc.box.uuid] = g.to[acc.box.uuid]
           /\ h.made[acc.box.uuid] = g.made[acc.box.uuid]
BY PointerRelabels DEF AccessFits

LEMMA InvitationRelabels ==
    ASSUME NEW g, NEW h, NEW top, NEW next, Relabels(g, h, top, next), NEW inv,
           InvitationFits(inv, g, top)
    PROVE  InvitationFits(inv, h, next)
BY PointerRelabels DEF InvitationFits

LEMMA MailboxRelabels ==
    ASSUME NEW g, NEW h, NEW top, NEW next, Relabels(g, h, top, next), NEW m, NEW record,
           MailboxFits(m, record, g, top)
    PROVE  MailboxFits(m, record, h, next)
BY AgreeAt DEF MailboxFits

LEMMA BlocksRelabel ==
    ASSUME NEW g, NEW h, NEW top, NEW next, Relabels(g, h, top, next), NEW i, NEW blocks,
           BlocksOf(i, blocks, g, top)
    PROVE  BlocksOf(i, blocks, h, next)
BY AgreeAt DEF BlocksOf

LEMMA WriteRelabels ==
    ASSUME NEW g, NEW h, NEW top, NEW next, Relabels(g, h, top, next), NEW u, NEW c, NEW w,
           WriteFits(u, c, w, g, top)
    PROVE  WriteFits(u, c, w, h, next)
<1>1. CASE w.kind = "access"
  BY <1>1, AccessRelabels DEF WriteFits
<1>2. CASE w.kind = "invitation"
  BY <1>2, InvitationRelabels DEF WriteFits
<1>3. CASE w.kind = "mailbox"
  BY <1>3, MailboxRelabels DEF WriteFits
<1>4. CASE w.kind = "inode"
  BY <1>4, BlocksRelabel DEF WriteFits
<1>5. CASE w.kind = "block"
  BY <1>5, AgreeAt DEF WriteFits
<1> QED
  BY <1>1, <1>2, <1>3, <1>4, <1>5 DEF WriteFits

LEMMA CallRelabels ==
    ASSUME NEW g, NEW h, NEW top, NEW next, Relabels(g, h, top, next), NEW u, NEW c,
           CallLabelled(u, c, g, top)
    PROVE  CallLabelled(u, c, h, next)
<1>1. Holds(c) => AccessFits(c.acc, u, h, next) /\ h.to[c.acc.box.uuid] = g.to[c.acc.box.uuid]
  BY AccessRelabels DEF CallLabelled
<1>2. Knows(c) => c.node.inode = h.to[c.acc.box.uuid] /\ Drawn(c.node.fileKey, next)
  BY <1>1, AgreeAt DEF CallLabelled, Knows
<1>3. Invites(c) => /\ PointerFits(c.box, c.arg, h, next) /\ h.to[c.box.uuid] = c.node.inode
                    /\ h.made[c.box.uuid] = "CreateInvitation"
  BY PointerRelabels DEF CallLabelled
<1>4. Rekeys(c) => /\ PointerFits(c.box, u, h, next) /\ h.to[c.box.uuid] = c.node.inode
                   /\ h.made[c.box.uuid] = "RevokeAccess" /\ Drawn(c.key, next)
  BY PointerRelabels, AgreeAt DEF CallLabelled
<1>5. c.at = "reseal" => /\ BlocksOf(c.node.inode, c.file.blocks, h, next)
                         /\ BlocksOf(c.node.inode, c.left, h, next)
  BY BlocksRelabel DEF CallLabelled
<1>6. c.op = "StoreFile" => Drawn(c.node.inode, next) /\ h.home[c.node.inode] = c.f
  BY AgreeAt DEF CallLabelled
<1>7. c.at = "sender" => InvitationFits(c.inv, h, next)
  BY InvitationRelabels DEF CallLabelled
<1>8. \A n \in DOMAIN c.todo : WriteFits(u, c, c.todo[n], h, next)
  BY WriteRelabels DEF CallLabelled
<1> QED
  BY <1>1, <1>2, <1>3, <1>4, <1>5, <1>6, <1>7, <1>8 DEF CallLabelled

(* A step that writes nothing; it may have drawn numbers. *)
LEMMA LabelsGo ==
    ASSUME CTypeOK, NEW s \in Sessions, NEW d, Goes(s, d), NEW g, LInv(g), NEW h,
           Agree(g, h, fresh), d # Absent => CallLabelled(Who(s), d, h, fresh')
    PROVE  LInv(h)'
<1>1. Relabels(g, h, fresh, fresh')
  BY DEF Relabels, Goes, CTypeOK, TypeOK
<1>2. /\ access' = access /\ invitation' = invitation /\ mailbox' = mailbox /\ inode' = inode
      /\ call' = [call EXCEPT ![s] = d] /\ call \in [Sessions -> Calls \cup {Absent}]
      /\ \A t \in Sessions : t # s => sessions'[t] = sessions[t]
      /\ d # Absent => sessions' = sessions
  BY DEF Goes, datastore, CTypeOK, CallsFit
<1>3. \A x \in Slots : access[x] # Absent => AccessFits(access[x].plain, x[1], h, fresh')
  BY <1>1, AccessRelabels DEF LInv
<1>4. \A p \in DOMAIN invitation : InvitationFits(invitation[p], h, fresh')
  BY <1>1, InvitationRelabels DEF LInv
<1>5. \A m \in DOMAIN mailbox : MailboxFits(m, mailbox[m], h, fresh')
  BY <1>1, MailboxRelabels DEF LInv
<1>6. \A i \in DOMAIN inode : BlocksOf(i, inode[i].plain.blocks, h, fresh')
  BY <1>1, BlocksRelabel DEF LInv
<1>7. ASSUME NEW t \in Sessions, call'[t] # Absent
      PROVE  CallLabelled(sessions'[t].name, call'[t], h, fresh')
  <2>1. CASE t = s
    BY <1>2, <1>7, <2>1 DEF Who
  <2>2. CASE t # s
    <3>1. call'[t] = call[t] /\ sessions'[t] = sessions[t]
      BY <1>2, <2>2
    <3>2. CallLabelled(Who(t), call[t], g, fresh)
      BY <1>7, <3>1 DEF LInv, InCall
    <3> QED
      BY <1>1, <3>1, <3>2, CallRelabels DEF Who
  <2> QED
    BY <2>1, <2>2
<1>8. \A t \in Sessions : InCall(t)' => CallLabelled(Who(t), call[t], h, fresh)'
  BY <1>7 DEF InCall, Who
<1> QED
  BY <1>2, <1>3, <1>4, <1>5, <1>6, <1>8 DEF LInv

(* What the records that a call reads say about labels. *)
LEMMA LabelsRead ==
    ASSUME CTypeOK, NEW g \in Labels, LInv(g)
    PROVE  /\ fresh \in Nat
           /\ \A m \in DOMAIN mailbox :
                  /\ m \in Nat /\ m < fresh /\ mailbox[m].plain \in MailboxNode
                  /\ mailbox[m].plain.inode = g.to[m] /\ mailbox[m].plain.inode <= m
                  /\ mailbox[m].plain.inode \in Nat /\ mailbox[m].plain.inode < fresh
                  /\ Drawn(mailbox[m].plain.fileKey, fresh)
<1>1. fresh \in Nat
  BY DEF CTypeOK, TypeOK
<1>2. ASSUME NEW m \in DOMAIN mailbox
      PROVE  /\ m \in Nat /\ m < fresh /\ mailbox[m].plain \in MailboxNode
             /\ mailbox[m].plain.inode = g.to[m] /\ mailbox[m].plain.inode <= m
             /\ mailbox[m].plain.inode \in Nat /\ mailbox[m].plain.inode < fresh
             /\ Drawn(mailbox[m].plain.fileKey, fresh)
  <2>1. /\ m \in Nat /\ m < fresh /\ mailbox[m].plain.inode = g.to[m]
        /\ Drawn(mailbox[m].plain.fileKey, fresh)
    BY DEF LInv, MailboxFits, Drawn
  <2>2. mailbox[m].plain \in MailboxNode
    BY DEF CTypeOK, TypeOK, IsStore, Sealed
  <2>3. g.to[m] \in Nat /\ g.to[m] <= m
    BY <2>1, LabelsType
  <2> QED
    BY <1>1, <2>1, <2>2, <2>3
<1> QED
  BY <1>1, <1>2

LEMMA LabelsMove ==
    ASSUME CTypeOK, MInv, NEW s \in Sessions, InCall(s), NEW g \in Labels, LInv(g),
           NEW d \in Calls, Fits(d), SameCall(call[s], d), fresh' \in Nat, fresh <= fresh',
           MovesTo(sessions[s], call[s], d)
    PROVE  \E h \in Labels : Agree(g, h, fresh) /\ CallLabelled(Who(s), d, h, fresh')
<1> DEFINE c == call[s]
           me == sessions[s]
           u == me.name
<1>1. /\ Fits(c) /\ c \in Calls /\ me \in User /\ fresh \in Nat /\ c.f \in Filenames
      /\ u \in Users /\ FileName \in Filenames /\ <<u, c.f>> \in Slots
  BY CallType, OwnerIs DEF Fits, Calls, User, Slots
<1>2. d.op = c.op /\ d.f = c.f /\ d.arg = c.arg
  BY DEF SameCall
<1>3. CallMine(u, c) /\ Genuine(me) /\ keystore = Public /\ CallLabelled(u, c, g, fresh)
  BY <1>1, AbsentAssumption DEF MInv, LInv, Who
<1>4. Agree(g, g, fresh) /\ Relabels(g, g, fresh, fresh')
  BY <1>1 DEF Agree, Relabels
<1>5. ASSUME CallLabelled(u, d, g, fresh')
      PROVE  \E h \in Labels : Agree(g, h, fresh) /\ CallLabelled(u, d, h, fresh')
  BY <1>4, <1>5
<1> HIDE DEF c, me
<1>6. CASE ToMailbox(me, c, d)
  <2>1. d.at = "mailbox" /\ d.todo = <<>> /\ access[<<u, c.f>>] # Absent
        /\ d.acc = access[<<u, c.f>>].plain
    BY <1>6 DEF ToMailbox, OpensAccess, AccessOf, Slot
  <2>2. AccessFits(d.acc, u, g, fresh) /\ <<u, c.f>>[1] = u
    BY <1>1, <2>1 DEF LInv
  <2>3. AccessFits(d.acc, u, g, fresh')
    BY <1>4, <2>2, AccessRelabels
  <2>4. d.op # "StoreFile" /\ DOMAIN d.todo = {}
    BY <2>1 DEF Fits, OpFits
  <2>5. CallLabelled(u, d, g, fresh')
    BY <2>1, <2>3, <2>4 DEF CallLabelled, Holds, Knows, Invites, Rekeys
  <2> QED
    BY <1>5, <2>5 DEF Who, me
<1>7. CASE ToInode(c, d)
  <2> DEFINE m == c.acc.box.uuid
  <2>1. /\ c.at = "mailbox" /\ m \in DOMAIN mailbox /\ d.at = "inode" /\ d.acc = c.acc
        /\ d.node = mailbox[m].plain /\ d.todo = <<>>
    BY <1>7 DEF ToInode, OpensMailbox
  <2>2. AccessFits(c.acc, u, g, fresh)
    BY <1>3, <2>1 DEF CallLabelled, Holds
  <2>3. AccessFits(d.acc, u, g, fresh')
    BY <1>4, <2>1, <2>2, AccessRelabels
  <2>4. d.node.inode = g.to[d.acc.box.uuid] /\ Drawn(d.node.fileKey, fresh')
    BY <1>4, <2>1, LabelsRead, AgreeAt
  <2>5. d.op # "StoreFile" /\ DOMAIN d.todo = {}
    BY <2>1 DEF Fits, OpFits
  <2>6. CallLabelled(u, d, g, fresh')
    BY <2>1, <2>3, <2>4, <2>5 DEF CallLabelled, Holds, Knows, Invites, Rekeys
  <2> QED
    BY <1>5, <2>6 DEF Who, me
<1>8. CASE ToRecipient(c, d)
  <2> DEFINE m == c.acc.box.uuid
             w == SetMailbox(d.box, d.node)
             i == d.node.inode
  <2>1. /\ c.at = "mailbox" /\ m \in DOMAIN mailbox /\ d.at = "recipient" /\ d.acc = c.acc
        /\ d.node = mailbox[m].plain /\ d.box.uuid = fresh /\ d.box.key = fresh + 1
        /\ d.todo = <<w>> /\ fresh' = fresh + 2 /\ c.op = "CreateInvitation"
    BY <1>8 DEF ToRecipient, OpensMailbox
  <2>2. /\ i \in Nat /\ i <= fresh /\ i = g.to[m] /\ Drawn(d.node.fileKey, fresh)
        /\ d.node \in MailboxNode
    BY <1>1, <2>1, LabelsRead
  <2>3. c.arg \in Users /\ d.box \in Pointer
    BY <1>1, <2>1 DEF Fits, OpFits, Has
  <2> HIDE DEF i
  <2>4. PICK h \in Labels :
            /\ Agree(g, h, fresh)
            /\ h.of[fresh] = c.arg /\ h.seal[fresh] = fresh + 1 /\ h.to[fresh] = i
            /\ h.made[fresh] = "CreateInvitation"
    <3> DEFINE key == fresh + 1
    <3>1. /\ fresh \in Nat /\ key \in Nat /\ fresh >= fresh /\ c.arg \in Users /\ i \in Nat
          /\ FileName \in Filenames /\ i <= fresh /\ "CreateInvitation" \in Methods
      BY <1>1, <2>2, <2>3 DEF Methods
    <3> HIDE DEF key
    <3>2. \E h \in Labels : LabelsAlso(g, h, fresh, c.arg, i, key, FileName, "CreateInvitation")
      BY <3>1, NewLabels
    <3> QED
      BY <3>1, <3>2 DEF key, LabelsAlso
  <2>5. Relabels(g, h, fresh, fresh') /\ Drawn(fresh, fresh')
    BY <1>1, <2>1, <2>4 DEF Relabels, Drawn
  <2>6. AccessFits(c.acc, u, g, fresh)
    BY <1>3, <2>1 DEF CallLabelled, Holds
  <2>7. AccessFits(d.acc, u, h, fresh') /\ i = h.to[d.acc.box.uuid]
    BY <2>1, <2>2, <2>5, <2>6, AccessRelabels
  <2>8. Drawn(d.node.fileKey, fresh')
    BY <2>2, <2>5, AgreeAt
  <2>9. PointerFits(d.box, d.arg, h, fresh')
    BY <1>2, <2>1, <2>4, <2>5 DEF PointerFits
  <2>10. /\ w.kind = "mailbox" /\ w.id = fresh /\ w.record.plain = d.node
         /\ w.record.key = getMailKeys(fresh + 1)
    BY <2>1, <2>2, <2>3, SetMailboxType DEF getMailKeys
  <2>11. DOMAIN d.todo = {1} /\ d.todo[1] = w
    BY <2>1, OneWrite
  <2> HIDE DEF w
  <2>12. WriteFits(u, d, w, h, fresh')
    <3>1. MailboxFits(w.id, w.record, h, fresh')
      BY <2>4, <2>5, <2>8, <2>10 DEF MailboxFits, i
    <3> QED
      BY <2>10, <3>1 DEF WriteFits
  <2>13. CallLabelled(u, d, h, fresh')
    BY <1>2, <2>1, <2>4, <2>7, <2>8, <2>9, <2>11, <2>12
       DEF CallLabelled, Holds, Knows, Invites, Rekeys, i
  <2> QED
    BY <2>4, <2>13 DEF Who, me
<1>9. CASE ToBlock(c, d)
  <2>1. d.at = "block" /\ d.todo = <<>> /\ d.op = "LoadFile"
    BY <1>2, <1>9 DEF ToBlock
  <2>2. DOMAIN d.todo = {}
    BY <2>1
  <2>3. CallLabelled(u, d, g, fresh')
    BY <2>1, <2>2 DEF CallLabelled, Holds, Knows, Invites, Rekeys
  <2> QED
    BY <1>5, <2>3 DEF Who, me
<1>10. CASE ToAppend(c, d)
  <2> DEFINE i == c.node.inode
             file == inode[i].plain
             ws == AppendWrites(c, file)
             n == Len(ByteToBlock(c.arg))
             new == Appended(file, c.arg, fresh)
  <2>1. /\ d.at = "return" /\ d.op = "AppendToFile" /\ d.node = c.node /\ d.todo = ws
        /\ c.at = "inode" /\ c.op = "AppendToFile" /\ i \in DOMAIN inode /\ fresh' = fresh + n
    BY <1>2, <1>10 DEF ToAppend, OpensInode
  <2>2. c.arg \in Contents /\ c.node \in MailboxNode /\ i \in Nat
    BY <1>1, <2>1 DEF Fits, OpFits, Has, MailboxNode
  <2>3. file \in Inode
    BY <2>1 DEF CTypeOK, TypeOK, IsStore, Sealed
  <2>4. BlocksOf(i, file.blocks, g, fresh)
    BY <2>1 DEF LInv
  <2> HIDE DEF file
  <2>5. /\ n \in Nat /\ ws \in Seq(Writes) /\ Len(ws) = n + 1
        /\ \A k \in 1..n : ws[k].kind = "block" /\ ws[k].id = fresh + k - 1
        /\ ws[n + 1] = [kind |-> "inode", id |-> i,
                        record |-> [key |-> <<"file", c.node.fileKey>>, plain |-> new]]
    BY <2>2, <2>3, AppendWritesAre
  <2>6. ws[n + 1].kind = "inode" /\ ws[n + 1].id = i /\ ws[n + 1].record.plain = new
    BY <2>5
  <2> HIDE DEF ws, i
  <2>7. PICK h \in Labels : Agree(g, h, fresh) /\ \A k \in Nat : k >= fresh => h.part[k] = i
    <3>1. /\ fresh \in Nat /\ 0 \in Nat /\ u \in Users /\ i \in Nat /\ FileName \in Filenames
          /\ "AppendToFile" \in Methods
      BY <1>1, <2>2 DEF Methods
    <3>2. \E h \in Labels : LabelsAlso(g, h, fresh, u, i, 0, FileName, "AppendToFile")
      BY <3>1, NewLabels
    <3> QED
      BY <3>2 DEF LabelsAlso
  <2>8. Relabels(g, h, fresh, fresh')
    BY <1>1, <2>7 DEF Relabels
  <2>9. BlocksOf(i, file.blocks, h, fresh')
    BY <2>4, <2>8, BlocksRelabel
  <2>10. \A k \in 1..n : Drawn(fresh + k - 1, fresh') /\ h.part[fresh + k - 1] = i
    <3> HIDE DEF n, i
    <3>1. ASSUME NEW k \in 1..n
          PROVE  fresh + k - 1 \in Nat /\ fresh + k - 1 >= fresh /\ fresh + k - 1 < fresh + n
      BY <1>1, <2>5
    <3> QED
      BY <2>1, <2>7, <3>1 DEF Drawn
  <2>11. BlocksOf(i, new.blocks, h, fresh')
    <3> DEFINE bs == new.blocks
               old == file.blocks
               l == Len(old)
    <3>1. /\ l \in Nat /\ DOMAIN bs = 1..(l + n)
          /\ \A k \in DOMAIN bs : \/ k \in DOMAIN old /\ bs[k] = old[k]
                                  \/ k - l \in 1..n /\ bs[k] = fresh + (k - l) - 1
      BY <1>1, <2>2, <2>3, AppendedBlocks
    <3>2. \A k \in DOMAIN old : Drawn(old[k], fresh)
      BY <2>4 DEF BlocksOf
    <3>3. \A k \in DOMAIN old : Drawn(old[k], fresh') /\ h.part[old[k]] = i
      BY <2>9 DEF BlocksOf
    <3>4. \A k, m \in DOMAIN old : old[k] = old[m] => k = m
      BY <2>9 DEF BlocksOf
    <3> HIDE DEF bs, old, l, n
    <3>5. ASSUME NEW k \in DOMAIN bs PROVE Drawn(bs[k], fresh') /\ h.part[bs[k]] = i
      BY <2>10, <3>1, <3>3
    <3>6. ASSUME NEW k \in DOMAIN bs, NEW m \in DOMAIN bs, bs[k] = bs[m] PROVE k = m
      <4>1. k \in Nat /\ m \in Nat
        BY <2>5, <3>1
      <4>2. ASSUME NEW x \in DOMAIN old, NEW y \in 1..n PROVE old[x] # fresh + y - 1
        BY <1>1, <2>5, <3>2 DEF Drawn
      <4>3. CASE k \in DOMAIN old /\ bs[k] = old[k] /\ m \in DOMAIN old /\ bs[m] = old[m]
        BY <3>4, <3>6, <4>3
      <4>4. CASE k \in DOMAIN old /\ bs[k] = old[k] /\ m - l \in 1..n
                 /\ bs[m] = fresh + (m - l) - 1
        BY <3>6, <4>2, <4>4
      <4>5. CASE m \in DOMAIN old /\ bs[m] = old[m] /\ k - l \in 1..n
                 /\ bs[k] = fresh + (k - l) - 1
        BY <3>6, <4>2, <4>5
      <4>6. CASE /\ k - l \in 1..n /\ bs[k] = fresh + (k - l) - 1
                 /\ m - l \in 1..n /\ bs[m] = fresh + (m - l) - 1
        <5>1. fresh + (k - l) - 1 = fresh + (m - l) - 1
          BY <3>6, <4>6
        <5> QED
          BY <1>1, <3>1, <4>1, <5>1
      <4> QED
        BY <3>1, <4>3, <4>4, <4>5, <4>6
    <3> QED
      BY <3>5, <3>6 DEF BlocksOf, bs
  <2> HIDE DEF n, new
  <2>12. ASSUME NEW k \in DOMAIN ws PROVE WriteFits(u, d, ws[k], h, fresh')
    <3>1. k \in 1..n \/ k = n + 1
      BY <2>5
    <3>2. CASE k \in 1..n
      BY <2>1, <2>5, <2>10, <3>2 DEF WriteFits, i
    <3>3. CASE k = n + 1
      BY <2>6, <2>11, <3>3 DEF WriteFits
    <3> QED
      BY <3>1, <3>2, <3>3
  <2>13. CallLabelled(u, d, h, fresh')
    BY <2>1, <2>12 DEF CallLabelled, Holds, Knows, Invites, Rekeys
  <2> QED
    BY <2>7, <2>13 DEF Who, me
<1>11. CASE ToReseal(c, d)
  <2> DEFINE i == c.node.inode
  <2>1. /\ c.at = "inode" /\ c.op = "RevokeAccess" /\ i \in DOMAIN inode
        /\ d.at = "reseal" /\ d.acc = c.acc /\ d.node = c.node
        /\ d.file = inode[i].plain /\ d.left = d.file.blocks
        /\ d.key = fresh /\ d.box.uuid = fresh + 2 /\ d.box.key = fresh + 1
        /\ d.todo = <<>> /\ fresh' = fresh + 3
    BY <1>11 DEF ToReseal, OpensInode
  <2>2. /\ AccessFits(c.acc, u, g, fresh) /\ i = g.to[c.acc.box.uuid]
        /\ Drawn(c.node.fileKey, fresh)
    BY <1>3, <2>1 DEF CallLabelled, Holds, Knows
  <2>3. i \in Nat /\ i <= fresh + 2
    <3> DEFINE m == c.acc.box.uuid
    <3>1. m \in Nat /\ m < fresh
      BY <2>2 DEF AccessFits, PointerFits, Drawn
    <3> HIDE DEF m
    <3>2. g.to[m] \in Nat /\ g.to[m] <= m
      BY <3>1, LabelsType
    <3> QED
      BY <1>1, <2>2, <3>1, <3>2 DEF m
  <2> HIDE DEF i
  <2>4. PICK h \in Labels :
            /\ Agree(g, h, fresh)
            /\ h.of[fresh + 2] = u /\ h.seal[fresh + 2] = fresh + 1 /\ h.to[fresh + 2] = i
            /\ h.made[fresh + 2] = "RevokeAccess"
    <3> DEFINE key == fresh + 1
               n == fresh + 2
    <3>1. /\ fresh \in Nat /\ key \in Nat /\ n \in Nat /\ n >= fresh /\ u \in Users /\ i \in Nat
          /\ FileName \in Filenames /\ i <= n /\ "RevokeAccess" \in Methods
      BY <1>1, <2>3 DEF Methods
    <3> HIDE DEF key, n
    <3>2. \E h \in Labels : LabelsAlso(g, h, fresh, u, i, key, FileName, "RevokeAccess")
      BY <3>1, NewLabels
    <3> QED
      BY <3>1, <3>2 DEF key, n, LabelsAlso
  <2>5. Relabels(g, h, fresh, fresh') /\ Drawn(fresh, fresh') /\ Drawn(fresh + 2, fresh')
    BY <1>1, <2>1, <2>4 DEF Relabels, Drawn
  <2>6. AccessFits(d.acc, u, h, fresh') /\ i = h.to[d.acc.box.uuid]
    BY <2>1, <2>2, <2>5, AccessRelabels
  <2>7. Drawn(d.node.fileKey, fresh')
    BY <2>1, <2>2, <2>5, AgreeAt
  <2>8. PointerFits(d.box, u, h, fresh')
    BY <2>1, <2>4, <2>5 DEF PointerFits
  <2>9. BlocksOf(i, d.file.blocks, g, fresh)
    BY <2>1 DEF LInv
  <2>10. BlocksOf(i, d.file.blocks, h, fresh')
    BY <2>5, <2>9, BlocksRelabel
  <2>11. DOMAIN d.todo = {}
    BY <2>1
  <2> HIDE DEF i
  <2>12. CallLabelled(u, d, h, fresh')
    BY <1>2, <2>1, <2>4, <2>5, <2>6, <2>7, <2>8, <2>10, <2>11
       DEF CallLabelled, Holds, Knows, Invites, Rekeys, i
  <2> QED
    BY <2>4, <2>12 DEF Who, me
<1>12. ASSUME SameRevocation(c, d), c.at \in {"reseal", "child"},
              d.at \in {"reseal", "child", "return"},
              d.at = "reseal" => /\ BlocksOf(c.node.inode, c.file.blocks, g, fresh)
                                 /\ BlocksOf(c.node.inode, d.left, g, fresh),
              \A n \in DOMAIN d.todo : WriteFits(u, d, d.todo[n], g, fresh)
       PROVE  \E h \in Labels : Agree(g, h, fresh) /\ CallLabelled(u, d, h, fresh')
  <2>1. /\ c.op = "RevokeAccess" /\ d.acc = c.acc /\ d.node = c.node /\ d.file = c.file
        /\ d.key = c.key /\ d.box = c.box
    BY <1>12 DEF SameRevocation
  <2>2. /\ AccessFits(c.acc, u, g, fresh) /\ c.node.inode = g.to[c.acc.box.uuid]
        /\ Drawn(c.node.fileKey, fresh)
        /\ PointerFits(c.box, u, g, fresh) /\ g.to[c.box.uuid] = c.node.inode
        /\ g.made[c.box.uuid] = "RevokeAccess" /\ Drawn(c.key, fresh)
    BY <1>3, <1>12, <2>1 DEF CallLabelled, Holds, Knows, Rekeys
  <2>3. CallLabelled(u, d, g, fresh)
    BY <1>2, <1>12, <2>1, <2>2 DEF CallLabelled, Invites
  <2>4. CallLabelled(u, d, g, fresh')
    BY <1>4, <2>3, CallRelabels
  <2> QED
    BY <1>5, <2>4
<1>13. CASE Resealed(c, d)
  <2> DEFINE b == Head(c.left)
             w == Set("block", b, encryptAndMAC(block[b].plain, getFileKeys(c.key)))
  <2>1. /\ SameRevocation(c, d) /\ c.at = "reseal" /\ d.at = "reseal" /\ d.todo = <<w>>
        /\ c.left # <<>> /\ d.left = Tail(c.left) /\ d.node = c.node
    BY <1>13 DEF Resealed, SameRevocation
  <2>2. w.kind = "block" /\ w.id = b
    BY DEF Set
  <2> HIDE DEF w
  <2>3. DOMAIN d.todo = {1} /\ d.todo[1] = w
    BY <2>1, OneWrite
  <2>4. /\ BlocksOf(c.node.inode, c.file.blocks, g, fresh)
        /\ BlocksOf(c.node.inode, c.left, g, fresh)
    BY <1>3, <2>1 DEF CallLabelled
  <2>5. c.left \in Seq(Nat)
    BY <1>1 DEF Calls
  <2>6. /\ 1 \in DOMAIN c.left /\ b = c.left[1]
        /\ \A n \in DOMAIN d.left : n + 1 \in DOMAIN c.left /\ d.left[n] = c.left[n + 1] /\ n \in Nat
    BY <2>1, <2>5
  <2>7. WriteFits(u, d, w, g, fresh)
    BY <2>1, <2>2, <2>4, <2>6 DEF WriteFits, BlocksOf
  <2>8. BlocksOf(c.node.inode, d.left, g, fresh)
    <3>1. \A n \in DOMAIN d.left : Drawn(d.left[n], fresh) /\ g.part[d.left[n]] = c.node.inode
      BY <2>4, <2>6 DEF BlocksOf
    <3>2. ASSUME NEW n \in DOMAIN d.left, NEW m \in DOMAIN d.left, d.left[n] = d.left[m]
          PROVE  n = m
      <4>1. n + 1 = m + 1
        BY <2>4, <2>6, <3>2 DEF BlocksOf
      <4> QED
        BY <2>6, <4>1
    <3> QED
      BY <3>1, <3>2 DEF BlocksOf
  <2> HIDE DEF b
  <2> QED
    BY <1>12, <2>1, <2>3, <2>4, <2>7, <2>8 DEF Who, me
<1>14. CASE ToChild(c, d)
  <2> DEFINE node == [c.node EXCEPT !.fileKey = c.key]
             v == SetInode(node, c.file)
             w == SetMailbox(c.box, node)
  <2>1. /\ SameRevocation(c, d) /\ c.at = "reseal" /\ d.at = "child" /\ d.todo = <<v, w>>
        /\ c.op = "RevokeAccess" /\ d.node = c.node
    BY <1>14 DEF ToChild, RevokeWrites, SameRevocation
  <2>2. c.node \in MailboxNode /\ c.box \in Pointer /\ c.file \in Inode /\ c.key \in Nat
    BY <1>1, <1>3, <2>1 DEF Fits, Has, Calls, CallMine, Rekeys
  <2>3. node \in MailboxNode /\ node.inode = c.node.inode /\ node.fileKey = c.key
    BY <2>2 DEF MailboxNode
  <2> HIDE DEF node
  <2>4. /\ v.kind = "inode" /\ v.id = c.node.inode /\ v.record.plain = c.file
    BY <2>2, <2>3, SetInodeType
  <2>5. /\ w.kind = "mailbox" /\ w.id = c.box.uuid /\ w.record.plain = node
        /\ w.record.key = getMailKeys(c.box.key)
    BY <2>2, <2>3, SetMailboxType DEF getMailKeys
  <2> HIDE DEF v, w
  <2>6. /\ PointerFits(c.box, u, g, fresh) /\ g.to[c.box.uuid] = c.node.inode
        /\ Drawn(c.key, fresh) /\ BlocksOf(c.node.inode, c.file.blocks, g, fresh)
    BY <1>3, <2>1 DEF CallLabelled, Rekeys
  <2>7. WriteFits(u, d, v, g, fresh)
    BY <2>4, <2>6 DEF WriteFits
  <2>8. WriteFits(u, d, w, g, fresh)
    <3>1. MailboxFits(w.id, w.record, g, fresh)
      BY <2>3, <2>5, <2>6 DEF MailboxFits, PointerFits
    <3> QED
      BY <2>5, <3>1 DEF WriteFits
  <2>9. DOMAIN d.todo = {1, 2} /\ d.todo[1] = v /\ d.todo[2] = w
    BY <2>1, TwoWrites
  <2> QED
    BY <1>12, <2>1, <2>7, <2>8, <2>9 DEF Who, me
<1>15. CASE NextChild(c, d)
  <2>1. /\ SameRevocation(c, d) /\ c.at = "child" /\ d.at = "child" /\ c.op = "RevokeAccess"
    BY <1>15 DEF NextChild, SameRevocation
  <2>2. PICK v \in c.kids : d.todo = KidTodo(c, v)
    BY <1>15 DEF NextChild
  <2>3. c.acc.children[v] # Absent /\ v \in Users /\ c.acc \in Access /\ c.key \in Nat
    BY <1>1, <2>1 DEF Fits, Has, Calls
  <2>4. /\ AccessFits(c.acc, u, g, fresh) /\ Drawn(c.key, fresh)
    BY <1>3, <2>1 DEF CallLabelled, Holds, Rekeys
  <2>5. ASSUME NEW n \in DOMAIN d.todo PROVE WriteFits(u, d, d.todo[n], g, fresh)
    <3> DEFINE p == c.acc.children[v]
               old == mailbox[p.uuid].plain
               node == [old EXCEPT !.fileKey = c.key]
               w == SetMailbox(p, node)
    <3>1. p.uuid \in DOMAIN mailbox /\ d.todo = <<w>>
      <4>1. DOMAIN <<>> = {}
        OBVIOUS
      <4>2. OpensMailbox(p)
        BY <2>2, <2>5, <4>1, Zenon DEF KidTodo
      <4> QED
        BY <2>2, <4>2, Zenon DEF KidTodo, OpensMailbox
    <3>2. old \in MailboxNode /\ old.inode = g.to[p.uuid]
      BY <3>1, LabelsRead
    <3>3. p \in Pointer /\ PointerFits(p, v, g, fresh)
      BY <2>3, <2>4 DEF Access, Children, AccessFits
    <3> HIDE DEF old, p
    <3>4. node \in MailboxNode /\ node.fileKey = c.key /\ node.inode = old.inode
      BY <2>3, <3>2 DEF MailboxNode
    <3> HIDE DEF node
    <3>5. /\ w.kind = "mailbox" /\ w.id = p.uuid /\ w.record.plain = node
          /\ w.record.key = getMailKeys(p.key)
      BY <3>3, <3>4, SetMailboxType DEF getMailKeys
    <3> HIDE DEF w
    <3>6. d.todo[n] = w
      BY <2>5, <3>1, OneWrite
    <3>7. MailboxFits(w.id, w.record, g, fresh)
      BY <2>4, <3>2, <3>3, <3>4, <3>5 DEF MailboxFits, PointerFits
    <3> QED
      BY <3>5, <3>6, <3>7 DEF WriteFits
  <2> QED
    BY <1>12, <2>1, <2>5 DEF Who, me
<1>16. CASE ToRevoked(me, c, d)
  <2> DEFINE acc == WithoutChild(c.acc, c.arg, c.box)
             v == SetAccess(me, c.f, acc)
             w == SetUser(me, c.f)
  <2>1. /\ SameRevocation(c, d) /\ c.at = "child" /\ d.at = "return" /\ d.todo = <<v, w>>
        /\ c.op = "RevokeAccess"
    BY <1>16 DEF ToRevoked, SameRevocation
  <2>2. c.acc \in Access /\ c.box \in Pointer /\ c.arg \in Users
    BY <1>1, <2>1 DEF Fits, Has, OpFits
  <2>3. /\ acc \in Access /\ acc.box = c.box
        /\ \A x \in Users : acc.children[x] # Absent => acc.children[x] = c.acc.children[x]
    BY <2>2, WithoutChildType
  <2> HIDE DEF acc
  <2>4. v.kind = "access" /\ v.record.plain = acc
    BY <1>1, <2>3, SetAccessType
  <2>5. w.kind = "account"
    BY SetKinds
  <2> HIDE DEF v, w
  <2>6. /\ AccessFits(c.acc, u, g, fresh) /\ c.node.inode = g.to[c.acc.box.uuid]
        /\ PointerFits(c.box, u, g, fresh) /\ g.to[c.box.uuid] = c.node.inode
    BY <1>3, <2>1 DEF CallLabelled, Holds, Knows, Rekeys
  <2>7. AccessFits(acc, u, g, fresh)
    BY <2>3, <2>6 DEF AccessFits
  <2>8. WriteFits(u, d, v, g, fresh) /\ WriteFits(u, d, w, g, fresh)
    BY <1>2, <2>1, <2>4, <2>5, <2>7 DEF WriteFits
  <2>9. DOMAIN d.todo = {1, 2} /\ d.todo[1] = v /\ d.todo[2] = w
    BY <2>1, TwoWrites
  <2> QED
    BY <1>12, <2>1, <2>8, <2>9 DEF Who, me
<1>17. CASE ToInvite(me, c, d)
  <2> DEFINE i == [enc |-> keystore[c.arg].enc, sig |-> me.ds, box |-> c.box]
             acc == WithChild(c.acc, c.arg, c.box)
             v == Set("invitation", fresh, i)
             w == SetAccess(me, c.f, acc)
  <2>1. /\ c.at = "recipient" /\ keystore[c.arg] # Absent /\ d.at = "return"
        /\ d.acc = c.acc /\ d.node = c.node /\ d.box = c.box /\ d.todo = <<v, w>>
    BY <1>17 DEF ToInvite, InviteWrites
  <2>2. /\ c.op = "CreateInvitation" /\ c.arg \in Users /\ c.acc \in Access
        /\ c.box \in Pointer /\ c.node \in MailboxNode
    BY <1>1, <2>1 DEF Fits, OpFits, Has
  <2>3. c.arg \in Range(Circle)
    BY <1>3, <2>1, <2>2, PublicApart
  <2>4. /\ acc \in Access /\ acc.box = c.acc.box
        /\ \A x \in Users : acc.children[x] = IF x = c.arg THEN c.box ELSE c.acc.children[x]
    BY <2>2, WithChildType
  <2> HIDE DEF acc
  <2>5. w.kind = "access" /\ w.record.plain = acc
    BY <1>1, <2>4, SetAccessType
  <2>6. v.kind = "invitation" /\ v.record.enc = Public[c.arg].enc /\ v.record.box = c.box
    BY <1>3 DEF Set
  <2> HIDE DEF v, w, i
  <2>7. /\ AccessFits(c.acc, u, g, fresh) /\ c.node.inode = g.to[c.acc.box.uuid]
        /\ PointerFits(c.box, c.arg, g, fresh) /\ g.to[c.box.uuid] = c.node.inode
        /\ g.made[c.box.uuid] = "CreateInvitation" /\ Drawn(c.node.fileKey, fresh)
    BY <1>3, <2>1, <2>2 DEF CallLabelled, Holds, Knows, Invites
  <2>8. AccessFits(acc, u, g, fresh)
    BY <2>4, <2>7 DEF AccessFits
  <2>9. InvitationFits(v.record, g, fresh)
    BY <2>3, <2>6, <2>7, PublicApart DEF InvitationFits
  <2>10. WriteFits(u, d, v, g, fresh)
    BY <2>6, <2>9 DEF WriteFits
  <2>11. WriteFits(u, d, w, g, fresh)
    BY <1>2, <2>2, <2>5, <2>8 DEF WriteFits
  <2>12. DOMAIN d.todo = {1, 2} /\ d.todo[1] = v /\ d.todo[2] = w
    BY <2>1, TwoWrites
  <2>13. CallLabelled(u, d, g, fresh)
    BY <1>2, <2>1, <2>2, <2>7, <2>10, <2>11, <2>12 DEF CallLabelled, Rekeys
  <2>14. CallLabelled(u, d, g, fresh')
    BY <1>4, <2>13, CallRelabels
  <2> QED
    BY <1>5, <2>14 DEF Who, me
<1>18. CASE ToSender(c, d)
  <2>1. /\ d.at = "sender" /\ d.todo = <<>> /\ c.arg[2] \in DOMAIN invitation
        /\ d.inv = invitation[c.arg[2]]
    BY <1>18 DEF ToSender
  <2>2. InvitationFits(d.inv, g, fresh)
    BY <2>1 DEF LInv
  <2>3. InvitationFits(d.inv, g, fresh')
    BY <1>4, <2>2, InvitationRelabels
  <2>4. d.op # "StoreFile" /\ DOMAIN d.todo = {}
    BY <2>1 DEF Fits, OpFits
  <2>5. CallLabelled(u, d, g, fresh')
    BY <2>1, <2>3, <2>4 DEF CallLabelled, Holds, Knows, Invites, Rekeys
  <2> QED
    BY <1>5, <2>5 DEF Who, me
<1>19. CASE ToAccept(me, c, d)
  <2> DEFINE acc == [box |-> c.inv.box, children |-> NoChildren]
             v == SetAccess(me, c.f, acc)
             w == SetUser(me, c.f)
  <2>1. c.at = "sender" /\ c.inv.enc = me.pke /\ d.at = "return" /\ d.todo = <<v, w>>
    BY <1>19 DEF ToAccept
  <2>2. c.inv \in Invitation /\ c.op = "AcceptInvitation"
    BY <1>1, <2>1 DEF Fits, OpFits, Has
  <2>3. acc \in Access /\ acc.box = c.inv.box /\ \A x \in Users : acc.children[x] = Absent
    BY <2>2, NoChildrenType DEF Invitation, NoChildren
  <2> HIDE DEF acc
  <2>4. v.kind = "access" /\ v.record.plain = acc
    BY <1>1, <2>3, SetAccessType
  <2>5. w.kind = "account"
    BY SetKinds
  <2> HIDE DEF v, w
  <2>6. PointerFits(c.inv.box, u, g, fresh)
    BY <1>3, <2>1 DEF CallLabelled, InvitationFits, Genuine
  <2>7. AccessFits(acc, u, g, fresh)
    BY <2>3, <2>6 DEF AccessFits
  <2>8. AccessFits(acc, u, g, fresh')
    BY <1>4, <2>7, AccessRelabels
  <2>9. WriteFits(u, d, v, g, fresh') /\ WriteFits(u, d, w, g, fresh')
    BY <1>2, <2>2, <2>4, <2>5, <2>8 DEF WriteFits
  <2>10. DOMAIN d.todo = {1, 2} /\ d.todo[1] = v /\ d.todo[2] = w
    BY <2>1, TwoWrites
  <2>11. CallLabelled(u, d, g, fresh')
    BY <1>2, <2>1, <2>2, <2>9, <2>10 DEF CallLabelled, Holds, Knows, Invites, Rekeys
  <2> QED
    BY <1>5, <2>11 DEF Who, me
<1> QED
  BY <1>6, <1>7, <1>8, <1>9, <1>10, <1>11, <1>13, <1>14, <1>15, <1>16, <1>17, <1>18, <1>19
     DEF MovesTo, c, me

LEMMA LabelsBegin ==
    ASSUME CTypeOK, NEW s \in Sessions, NEW d, Begins(s, d), NEW g \in Labels,
           BeginsReading(s, d) \/ BeginsStoring(s, d)
    PROVE  \E h \in Labels : Agree(g, h, fresh) /\ CallLabelled(Who(s), d, h, fresh')
<1> DEFINE me == sessions[s]
           u == me.name
<1>1. d \in Calls /\ Fits(d) /\ me \in User /\ u \in Users /\ fresh \in Nat
  BY DEF Begins, User, CTypeOK, TypeOK
<1>2. CASE BeginsReading(s, d)
  <2>1. d.at \in {"access", "invitation"} /\ d.op # "StoreFile" /\ DOMAIN d.todo = {}
    BY <1>2 DEF BeginsReading
  <2>2. CallLabelled(u, d, g, fresh')
    BY <2>1 DEF CallLabelled, Holds, Knows, Invites, Rekeys
  <2>3. Agree(g, g, fresh)
    BY DEF Agree
  <2> QED
    BY <2>2, <2>3 DEF Who
<1>3. CASE BeginsStoring(s, d)
  <2> DEFINE ws == d.todo
             n == Len(ByteToBlock(d.arg))
             bs == BlockWrites(ByteToBlock(d.arg), fresh, fresh + 4)
             acc == [box |-> StoredBox, children |-> NoChildren]
             file == [size |-> Len(d.arg), blocks |-> BlockUUIDs(ByteToBlock(d.arg), fresh + 4)]
             ids == file.blocks
  <2>1. /\ d.op = "StoreFile" /\ d.at = "return" /\ d.arg \in Contents /\ d.f \in Filenames
        /\ d.node = StoredNode /\ fresh' = fresh + 4 + n
        /\ ws = StoreFileWrites(me, d.f, d.arg, StoredNode, StoredBox, fresh + 4)
    BY <1>3 DEF BeginsStoring
  <2>2. /\ StoredNode \in MailboxNode /\ StoredBox \in Pointer /\ fresh + 4 \in Nat
        /\ StoredNode.fileKey = fresh /\ StoredNode.inode = fresh + 1
        /\ StoredBox.uuid = fresh + 2 /\ StoredBox.key = fresh + 3
    BY <1>1 DEF StoredNode, StoredBox, MailboxNode, Pointer
  <2>3. /\ n \in Nat /\ acc \in Access /\ file \in Inode
        /\ ws \in Seq(Writes) /\ Len(ws) = n + 4
        /\ ws[1] = SetMailbox(StoredBox, StoredNode) /\ ws[2] = SetAccess(me, d.f, acc)
        /\ \A k \in 1..n : ws[k + 2] = bs[k]
        /\ ws[n + 3] = SetInode(StoredNode, file) /\ ws[n + 4] = SetUser(me, d.f)
    <3>1. me \in User
      BY <1>1
    <3>2. /\ d.arg \in Contents /\ d.f \in Filenames
          /\ ws = StoreFileWrites(me, d.f, d.arg, StoredNode, StoredBox, fresh + 4)
      BY <2>1
    <3>3. /\ StoredNode \in MailboxNode /\ StoredBox \in Pointer /\ fresh + 4 \in Nat
          /\ StoredNode.fileKey = fresh
      BY <2>2
    <3> QED
      BY <3>1, <3>2, <3>3, StoreFileWritesAre
  <2>4. \A k \in 1..n : bs[k].kind = "block" /\ bs[k].id = fresh + 4 + k - 1
    <3>1. d.arg \in Seq(Bytes)
      BY <2>1, ContentsAssumption
    <3>2. ASSUME NEW k \in 1..n PROVE bs[k].kind = "block" /\ bs[k].id = fresh + 4 + k - 1
      <4> DEFINE r == [key |-> <<"file", fresh>>, plain |-> ByteToBlock(d.arg)[k]]
      <4>1. bs[k] = [kind |-> "block", id |-> fresh + 4 + k - 1, record |-> r]
        BY <1>1, <2>2, <3>1, BlockWritesType
      <4> HIDE DEF bs, r
      <4> QED
        BY <4>1
    <3> QED
      BY <3>2
  <2>5. /\ acc.box = StoredBox /\ \A x \in Users : acc.children[x] = Absent
        /\ file.blocks = ids /\ DOMAIN ids = 1..n
        /\ \A k \in 1..n : ids[k] = fresh + 4 + k - 1
    BY DEF NoChildren, BlockUUIDs
  <2> HIDE DEF acc, file, bs, n, ids
  <2>6. /\ ws[1].kind = "mailbox" /\ ws[1].id = fresh + 2 /\ ws[1].record.plain = StoredNode
        /\ ws[1].record.key = getMailKeys(fresh + 3)
    BY <2>2, <2>3, SetMailboxType DEF getMailKeys
  <2>7. ws[2].kind = "access" /\ ws[2].record.plain = acc
    BY <1>1, <2>1, <2>3, SetAccessType
  <2>8. /\ ws[n + 3].kind = "inode" /\ ws[n + 3].id = fresh + 1 /\ ws[n + 3].record.plain = file
    BY <2>2, <2>3, SetInodeType
  <2>9. ws[n + 4].kind = "account"
    BY <2>3, SetKinds
  <2>10. \A k \in DOMAIN ws : k = 1 \/ k = 2 \/ k - 2 \in 1..n \/ k = n + 3 \/ k = n + 4
    BY <2>3
  <2>11. PICK h \in Labels : LabelsAlso(g, h, fresh, u, fresh + 1, fresh + 3, d.f, "StoreFile")
    <3>1. fresh + 1 \in Nat /\ fresh + 3 \in Nat /\ "StoreFile" \in Methods
      BY <1>1 DEF Methods
    <3> QED
      BY <1>1, <2>1, <3>1, NewLabels
  <2>12. /\ Agree(g, h, fresh)
         /\ h.of[fresh + 2] = u /\ h.seal[fresh + 2] = fresh + 3 /\ h.to[fresh + 2] = fresh + 1
         /\ h.made[fresh + 2] = "StoreFile" /\ h.home[fresh + 1] = d.f
         /\ \A k \in 1..n : h.part[fresh + 4 + k - 1] = fresh + 1
    <3>1. /\ Agree(g, h, fresh)
          /\ \A k \in Nat : k >= fresh =>
                 /\ h.of[k] = u /\ h.seal[k] = fresh + 3 /\ h.made[k] = "StoreFile"
                 /\ h.home[k] = d.f
                 /\ h.part[k] = fresh + 1 /\ (fresh + 1 <= k => h.to[k] = fresh + 1)
      BY <2>11, Zenon DEF LabelsAlso
    <3>2. /\ fresh + 2 \in Nat /\ fresh + 2 >= fresh /\ fresh + 1 <= fresh + 2
          /\ fresh + 1 \in Nat /\ fresh + 1 >= fresh
      BY <1>1
    <3>3. ASSUME NEW k \in 1..n PROVE fresh + 4 + k - 1 \in Nat /\ fresh + 4 + k - 1 >= fresh
      BY <1>1, <2>3
    <3> QED
      BY <3>1, <3>2, <3>3
  <2>13. /\ Drawn(fresh, fresh') /\ Drawn(fresh + 1, fresh') /\ Drawn(fresh + 2, fresh')
         /\ \A k \in 1..n : Drawn(fresh + 4 + k - 1, fresh')
    BY <1>1, <2>1, <2>3 DEF Drawn
  <2>14. ASSUME NEW k \in DOMAIN ws PROVE WriteFits(u, d, ws[k], h, fresh')
    <3>1. CASE k = 1
      <4>1. MailboxFits(fresh + 2, ws[1].record, h, fresh')
        BY <2>2, <2>6, <2>12, <2>13 DEF MailboxFits
      <4> QED
        BY <2>6, <3>1, <4>1 DEF WriteFits
    <3>2. CASE k = 2
      <4>1. /\ AccessFits(acc, u, h, fresh') /\ h.to[acc.box.uuid] = d.node.inode
             /\ h.made[acc.box.uuid] = "StoreFile"
        BY <2>1, <2>2, <2>5, <2>12, <2>13 DEF AccessFits, PointerFits
      <4> QED
        BY <2>7, <3>2, <4>1 DEF WriteFits
    <3>3. CASE k - 2 \in 1..n
      <4> DEFINE m == k - 2
      <4>1. m + 2 = k /\ m \in 1..n
        BY <2>3, <3>3
      <4> HIDE DEF m
      <4>2. ws[k].kind = "block" /\ ws[k].id = fresh + 4 + m - 1
        BY <2>3, <2>4, <4>1
      <4>3. Drawn(ws[k].id, fresh') /\ h.part[ws[k].id] = d.node.inode
        BY <2>1, <2>2, <2>12, <2>13, <4>1, <4>2
      <4> QED
        BY <4>2, <4>3 DEF WriteFits
    <3>4. CASE k = n + 3
      <4>1. BlocksOf(fresh + 1, ids, h, fresh')
        <5>1. \A x, y \in 1..n : ids[x] = ids[y] => x = y
          BY <1>1, <2>3, <2>5
        <5> QED
          BY <2>5, <2>12, <2>13, <5>1 DEF BlocksOf
      <4> QED
        BY <2>5, <2>8, <3>4, <4>1 DEF WriteFits
    <3>5. CASE k = n + 4
      BY <2>9, <3>5 DEF WriteFits
    <3> QED
      BY <2>10, <3>1, <3>2, <3>3, <3>4, <3>5
  <2> HIDE DEF ws
  <2>15. CallLabelled(u, d, h, fresh')
    BY <2>1, <2>2, <2>12, <2>13, <2>14 DEF CallLabelled, Holds, Knows, Invites, Rekeys, ws
  <2> QED
    BY <2>12, <2>15 DEF Who
<1> QED
  BY <1>2, <1>3

LEMMA LabelledNext ==
    ASSUME NEW u, NEW c, NEW d, NEW w, WroteFirst(c, d, w), NEW g, NEW top,
           CallLabelled(u, c, g, top)
    PROVE  CallLabelled(u, d, g, top) /\ WriteFits(u, c, w, g, top)
<1>1. /\ d.op = c.op /\ d.f = c.f /\ d.arg = c.arg /\ d.at = c.at /\ d.acc = c.acc
      /\ d.node = c.node /\ d.file = c.file /\ d.key = c.key /\ d.box = c.box
      /\ d.inv = c.inv /\ d.left = c.left
      /\ 1 \in DOMAIN c.todo /\ w = c.todo[1]
  BY DEF WroteFirst, WroteAll, Wrote, SameCall
<1>2. \A n \in DOMAIN d.todo : n + 1 \in DOMAIN c.todo /\ d.todo[n] = c.todo[n + 1]
  BY QueueMoves DEF WroteFirst, WroteAll
<1>3. ASSUME NEW n \in DOMAIN d.todo PROVE WriteFits(u, d, d.todo[n], g, top)
  <2>1. WriteFits(u, c, d.todo[n], g, top)
    BY <1>2 DEF CallLabelled
  <2> HIDE DEF CallLabelled
  <2> QED
    BY <1>1, <2>1 DEF WriteFits
<1>4. WriteFits(u, c, w, g, top)
  BY <1>1 DEF CallLabelled
<1>5. Holds(d) = Holds(c) /\ Knows(d) = Knows(c) /\ Invites(d) = Invites(c) /\ Rekeys(d) = Rekeys(c)
  BY <1>1 DEF Holds, Knows, Invites, Rekeys
<1>6. CallLabelled(u, d, g, top)
  BY <1>1, <1>3, <1>5 DEF CallLabelled
<1> QED
  BY <1>4, <1>6

(* The next write of a call, what it writes and who goes on how. *)
Written(s, c, d, w) ==
    /\ InCall(s) /\ c = call[s] /\ c \in Calls /\ Fits(c) /\ WroteFirst(c, d, w)
    /\ Write(w) /\ w \in Writes /\ fresh' = fresh
    /\ CallMine(Who(s), c) /\ WriteMine(Who(s), c, w) /\ <<Who(s), c.op>> \in begun
    /\ sessions'[s].name = Who(s) /\ sessions[s] \in User /\ Genuine(sessions[s])
    /\ \A t \in Sessions : t # s => sessions'[t] = sessions[t] /\ call'[t] = call[t]
    /\ call'[s] = Absent \/ call'[s] = d
    /\ \A x \in Slots : \/ access'[x] = access[x]
                        \/ w.kind = "access" /\ x = w.id /\ access'[x] = w.record
    /\ w.kind = "access" => w.id \in Slots /\ access'[w.id] = w.record
    /\ w.kind # "access" => access' = access

LEMMA WritesMine ==
    ASSUME CTypeOK, MInv, NEW s \in Sessions, NEW c, NEW d, NEW w, WritesNext(s, c, d, w)
    PROVE  Written(s, c, d, w)
<1>0. /\ call \in [Sessions -> Calls \cup {Absent}]
      /\ access \in [Slots -> Sealed({"personal"} \X MasterKeys \X Filenames, Access)
                                \cup {Absent}]
  BY DEF CTypeOK, CallsFit, TypeOK
<1>1. /\ InCall(s) /\ c = call[s] /\ WroteFirst(c, d, w) /\ Write(w) /\ w \in Writes
      /\ c \in Calls /\ Fits(c) /\ fresh' = fresh
      /\ \A t \in Sessions : t # s => sessions'[t] = sessions[t] /\ call'[t] = call[t]
      /\ sessions'[s] = IF w.kind = "account" THEN w.record.plain ELSE sessions[s]
      /\ call'[s] = Absent \/ call'[s] = d
  BY <1>0 DEF WritesNext, WroteFirst
<1>2. /\ CallMine(Who(s), c) /\ WriteMine(Who(s), c, w) /\ <<Who(s), c.op>> \in begun
      /\ sessions[s] \in User /\ Genuine(sessions[s])
  BY <1>1, CallType, AbsentAssumption DEF MInv, CallMine, WroteFirst
<1>3. sessions'[s].name = Who(s)
  BY <1>1, <1>2 DEF WriteMine, Who
<1>4. \A x \in Slots : x # w.id \/ w.kind # "access" => access'[x] = access[x]
  BY <1>0, <1>1 DEF Write
<1>5. w.kind = "access" => w.id \in Slots /\ access'[w.id] = w.record
  BY <1>0, <1>1 DEF Write, Writes
<1>6. w.kind # "access" => access' = access
  BY <1>1 DEF Write
<1> QED
  BY <1>1, <1>2, <1>3, <1>4, <1>5, <1>6 DEF Written

LEMMA LabelsNext ==
    ASSUME CTypeOK, MInv, NEW s \in Sessions, NEW c, NEW d, NEW w, WritesNext(s, c, d, w),
           NEW g, LInv(g)
    PROVE  LInv(g)'
<1> DEFINE u == Who(s)
<1>0. Written(s, c, d, w)
  BY WritesMine
<1>1. /\ InCall(s) /\ c = call[s] /\ WroteFirst(c, d, w) /\ Write(w) /\ fresh' = fresh
      /\ WriteMine(u, c, w) /\ sessions'[s].name = u
      /\ \A t \in Sessions : t # s => sessions'[t] = sessions[t] /\ call'[t] = call[t]
      /\ call'[s] = Absent \/ call'[s] = d
      /\ \A x \in Slots : \/ access'[x] = access[x]
                          \/ w.kind = "access" /\ x = w.id /\ access'[x] = w.record
  BY <1>0 DEF Written
<1>2. CallLabelled(u, c, g, fresh)
  BY <1>1 DEF LInv
<1>3. CallLabelled(u, d, g, fresh) /\ WriteFits(u, c, w, g, fresh)
  BY <1>1, <1>2, LabelledNext
<1>4. /\ Added(inode, inode', w.kind = "inode", w.id, w.record)
      /\ Added(mailbox, mailbox', w.kind = "mailbox", w.id, w.record)
      /\ Added(invitation, invitation', w.kind = "invitation", w.id, w.record)
  BY <1>1, WriteAdds
<1> HIDE DEF u
<1>5. ASSUME NEW x \in Slots, access'[x] # Absent
      PROVE  AccessFits(access'[x].plain, x[1], g, fresh)
  <2>1. CASE access'[x] = access[x]
    BY <1>5, <2>1 DEF LInv
  <2>2. CASE w.kind = "access" /\ x = w.id /\ access'[x] = w.record
    <3>1. w.id = <<u, c.f>>
      BY <1>1, <2>2 DEF WriteMine
    <3>2. x[1] = u
      BY <2>2, <3>1
    <3> QED
      BY <1>3, <2>2, <3>2 DEF WriteFits
  <2> QED
    BY <1>1, <2>1, <2>2
<1>6. ASSUME NEW p \in DOMAIN invitation' PROVE InvitationFits(invitation'[p], g, fresh)
  BY <1>3, <1>4 DEF LInv, WriteFits, Added
<1>7. ASSUME NEW m \in DOMAIN mailbox' PROVE MailboxFits(m, mailbox'[m], g, fresh)
  BY <1>3, <1>4 DEF LInv, WriteFits, Added
<1>8. ASSUME NEW i \in DOMAIN inode' PROVE BlocksOf(i, inode'[i].plain.blocks, g, fresh)
  BY <1>3, <1>4 DEF LInv, WriteFits, Added
<1>9. ASSUME NEW t \in Sessions, call'[t] # Absent
      PROVE  CallLabelled(sessions'[t].name, call'[t], g, fresh)
  <2>1. CASE t = s
    BY <1>1, <1>3, <1>9, <2>1
  <2>2. CASE t # s
    BY <1>1, <1>9, <2>2 DEF LInv, InCall, Who
  <2> QED
    BY <2>1, <2>2
<1>10. \A t \in Sessions : InCall(t)' => CallLabelled(Who(t), call[t], g, fresh)'
  BY <1>1, <1>9 DEF InCall, Who
<1> QED
  BY <1>1, <1>5, <1>6, <1>7, <1>8, <1>10 DEF LInv

LEMMA LabelsStep ==
    ASSUME CTypeOK, MInv, NEW s \in Sessions, BeginCall(s) \/ Step(s) \/ Lost(s) \/ Comes(s),
           NEW g \in Labels, LInv(g)
    PROVE  \E h \in Labels : Agree(g, h, fresh) /\ LInv(h)'
<1>0. Agree(g, g, fresh)
  BY DEF Agree
<1>1. CASE BeginCall(s)
  <2>1. PICK d : Begins(s, d) /\ (BeginsReading(s, d) \/ BeginsStoring(s, d))
    BY <1>1, CallsBegin
  <2>2. PICK h \in Labels : Agree(g, h, fresh) /\ CallLabelled(Who(s), d, h, fresh')
    BY <2>1, LabelsBegin
  <2>3. Goes(s, d)
    BY <2>1 DEF Begins
  <2>4. LInv(h)'
    BY <2>2, <2>3, LabelsGo
  <2> QED
    BY <2>2, <2>4
<1>2. CASE Reading(s)
  <2>1. InCall(s)
    BY <1>2, ReadingStays
  <2>2. CASE Ends(s)
    <3>1. LInv(g)'
      BY <1>0, <2>2, LabelsGo DEF Ends
    <3> QED
      BY <1>0, <3>1
  <2>3. ASSUME NEW d \in Calls, Goes(s, d), Fits(d), SameCall(call[s], d),
               MovesTo(sessions[s], call[s], d)
        PROVE  \E h \in Labels : Agree(g, h, fresh) /\ LInv(h)'
    <3>1. PICK h \in Labels : Agree(g, h, fresh) /\ CallLabelled(Who(s), d, h, fresh')
      BY <2>1, <2>3, LabelsMove DEF Goes
    <3>2. LInv(h)'
      BY <2>3, <3>1, LabelsGo
    <3> QED
      BY <3>1, <3>2
  <2> QED
    BY <1>2, <2>2, <2>3, ReadingMoves DEF Moves
<1>3. CASE SetNext(s)
  <2>1. PICK c, d, w : WritesNext(s, c, d, w)
    BY <1>3, SetNextWrites
  <2>2. LInv(g)'
    BY <2>1, LabelsNext
  <2> QED
    BY <1>0, <2>2
<1>4. CASE Lost(s)
  <2>1. LInv(g)'
    BY <1>0, <1>4, LostGoes, LabelsGo
  <2> QED
    BY <1>0, <2>1
<1>5. CASE Comes(s)
  <2>1. /\ UNCHANGED <<datastore, keystore, progress, fresh>> /\ ~InCall(s)
        /\ \A t \in Sessions : t # s => sessions'[t] = sessions[t]
    BY <1>5, ComesType
  <2>2. /\ call' = call /\ invitation' = invitation /\ access' = access /\ mailbox' = mailbox
        /\ inode' = inode /\ fresh' = fresh
    BY <2>1 DEF progress, datastore
  <2>3. ~InCall(s)
    BY <2>1 DEF CTypeOK, CallsFit
  <2>4. \A t \in Sessions : InCall(t)' => InCall(t) /\ call'[t] = call[t] /\ Who(t)' = Who(t)
    BY <2>1, <2>2, <2>3 DEF InCall, Who
  <2>5. LInv(g)'
    BY <2>2, <2>4 DEF LInv
  <2> QED
    BY <1>0, <2>5
<1> QED
  BY <1>1, <1>2, <1>3, <1>4, <1>5 DEF Step, Reading

(* The mailboxes of the set-up are different ones. *)
LEMMA FirstBoxes ==
    /\ \A n \in 1..Shared : /\ BoxOf(n) \in Pointer /\ BoxOf(n).key = BoxOf(n).uuid + 1
                            /\ BoxOf(n).uuid >= FirstNumber + 2
                            /\ BoxOf(n).uuid < FirstInvite + 3 * (Shared - 1)
    /\ \A n, m \in 1..Shared : BoxOf(n).uuid = BoxOf(m).uuid => n = m
    /\ Shared \in Nat \ {0}
    /\ FirstInvite + 3 * (Shared - 1) \in Nat
<1>1. Shared \in Nat \ {0}
  BY CircleAssumption
<1>2. /\ FirstNumber \in Nat /\ FirstInvite \in Nat
      /\ FirstInvite >= FirstNumber + 4
  BY SetUpNumbers
<1>3. ASSUME NEW n \in 1..Shared
      PROVE  /\ BoxOf(n) \in Pointer
             /\ n = 1 => BoxOf(n).uuid = FirstNumber + 2 /\ BoxOf(n).key = FirstNumber + 3
             /\ n # 1 => /\ BoxOf(n).uuid = FirstInvite + 3 * (n - 2)
                         /\ BoxOf(n).key = FirstInvite + 3 * (n - 2) + 1
  <2>1. BoxOf(n) \in Pointer
    BY <1>1, SetUpNumbers
  <2> QED
    BY <2>1 DEF BoxOf
<1>4. ASSUME NEW n \in 1..Shared
      PROVE  /\ BoxOf(n).key = BoxOf(n).uuid + 1
             /\ BoxOf(n).uuid >= FirstNumber + 2
             /\ BoxOf(n).uuid < FirstInvite + 3 * (Shared - 1)
  <2>1. CASE n = 1
    BY <1>1, <1>2, <1>3, <2>1
  <2>2. CASE n # 1
    <3>1. n \in Nat /\ n >= 2 /\ n <= Shared
      BY <1>1, <2>2
    <3>2. 3 * (n - 2) >= 0 /\ 3 * (n - 2) < 3 * (Shared - 1)
      BY <1>1, <3>1
    <3> QED
      BY <1>1, <1>2, <1>3, <2>2, <3>1, <3>2
  <2> QED
    BY <2>1, <2>2
<1>5. ASSUME NEW n \in 1..Shared, NEW m \in 1..Shared, BoxOf(n).uuid = BoxOf(m).uuid
      PROVE  n = m
  <2>1. n \in Nat /\ m \in Nat /\ n >= 1 /\ m >= 1
    BY <1>1
  <2>2. ASSUME NEW k \in Nat, k # 1, k >= 1 PROVE FirstInvite + 3 * (k - 2) > FirstNumber + 2
    BY <1>2, <2>2
  <2>3. CASE n = 1 \/ m = 1
    BY <1>2, <1>3, <1>5, <2>1, <2>2, <2>3
  <2>4. CASE n # 1 /\ m # 1
    <3>1. FirstInvite + 3 * (n - 2) = FirstInvite + 3 * (m - 2)
      BY <1>3, <1>5, <2>4
    <3> QED
      BY <1>2, <2>1, <3>1
  <2> QED
    BY <2>3, <2>4
<1>6. FirstInvite + 3 * (Shared - 1) \in Nat
  BY <1>1, <1>2
<1> QED
  BY <1>1, <1>3, <1>4, <1>5, <1>6

(* The labels of the set-up. *)
FirstLabels(g) ==
    /\ \A n \in 1..Shared : /\ g.of[BoxOf(n).uuid] = Circle[n]
                            /\ g.to[BoxOf(n).uuid] = FirstNumber + 1
                            /\ g.seal[BoxOf(n).uuid] = BoxOf(n).key
    /\ \A n \in Nat : /\ g.made[n] = "StoreFile" /\ g.home[n] = FileName
                       /\ g.part[n] = FirstNumber + 1

LEMMA FirstLabelsExist == \E g \in Labels : FirstLabels(g)
<1> DEFINE of   == [x \in Nat |-> IF \E n \in 1..Shared : BoxOf(n).uuid = x
                                  THEN Circle[CHOOSE n \in 1..Shared : BoxOf(n).uuid = x]
                                  ELSE Owner]
           to   == [x \in Nat |-> IF FirstNumber + 1 <= x THEN FirstNumber + 1 ELSE 0]
           seal == [x \in Nat |-> x + 1]
           made == [x \in Nat |-> "StoreFile"]
           home == [x \in Nat |-> FileName]
           part == [x \in Nat |-> FirstNumber + 1]
           g    == [of |-> of, to |-> to, seal |-> seal, made |-> made,
                     home |-> home, part |-> part]
<1>1. /\ FirstNumber \in Nat /\ FileName \in Filenames /\ Owner \in Users
      /\ \A n \in 1..Shared : Circle[n] \in Users
  BY SetUpNumbers, CircleAssumption, OwnerIs
<1>2. of \in [Nat -> Users]
  <2>1. ASSUME NEW x \in Nat, \E n \in 1..Shared : BoxOf(n).uuid = x
        PROVE  Circle[CHOOSE n \in 1..Shared : BoxOf(n).uuid = x] \in Users
    BY <1>1, <2>1
  <2> QED
    BY <1>1, <2>1
<1>3. /\ to \in [Nat -> Nat] /\ seal \in [Nat -> Nat] /\ home \in [Nat -> Filenames]
      /\ made \in [Nat -> Methods] /\ part \in [Nat -> Nat] /\ \A x \in Nat : to[x] <= x
  BY <1>1 DEF Methods
<1>4. ASSUME NEW n \in 1..Shared
      PROVE  /\ of[BoxOf(n).uuid] = Circle[n] /\ to[BoxOf(n).uuid] = FirstNumber + 1
             /\ seal[BoxOf(n).uuid] = BoxOf(n).key
  <2> DEFINE x == BoxOf(n).uuid
             m == CHOOSE k \in 1..Shared : BoxOf(k).uuid = x
  <2>1. x \in Nat /\ BoxOf(n).key = x + 1 /\ x >= FirstNumber + 2
    BY FirstBoxes DEF Pointer
  <2>2. m \in 1..Shared /\ BoxOf(m).uuid = x
    OBVIOUS
  <2>3. m = n
    BY <2>2, FirstBoxes
  <2>4. of[x] = Circle[m]
    BY <2>1
  <2> HIDE DEF x, m
  <2>5. to[x] = FirstNumber + 1 /\ seal[x] = x + 1
    BY <1>1, <2>1
  <2> QED
    BY <2>1, <2>3, <2>4, <2>5 DEF x
<1>5. \A n \in Nat : made[n] = "StoreFile" /\ home[n] = FileName /\ part[n] = FirstNumber + 1
  OBVIOUS
<1> HIDE DEF of, to, seal, made, home, part
<1>6. g.of = of /\ g.to = to /\ g.seal = seal /\ g.made = made
      /\ g.home = home /\ g.part = part
  OBVIOUS
<1>7. g \in Labels
  BY <1>2, <1>3 DEF Labels
<1> HIDE DEF g
<1>8. FirstLabels(g)
  BY <1>4, <1>5, <1>6 DEF FirstLabels
<1> QED
  BY <1>7, <1>8

LEMMA LabelsStart ==
    ASSUME ClientsInit, NEW g \in Labels, FirstLabels(g)
    PROVE  LInv(g)
<1>1. /\ SetUp /\ \A s \in Sessions : ~InCall(s)
      /\ fresh = FirstInvite + 3 * (Shared - 1)
  BY DEF ClientsInit, InCall, SetUp
<1>2. /\ FirstNumber \in Nat /\ FirstBlock = FirstNumber + 4
      /\ FirstInvite = FirstBlock + Len(ByteToBlock(FirstContent))
      /\ FirstNode.inode = FirstNumber + 1 /\ FirstNode.fileKey = FirstNumber
      /\ Len(ByteToBlock(FirstContent)) \in Nat /\ fresh \in Nat /\ Shared \in Nat \ {0}
      /\ fresh >= FirstInvite
  <2>1. Shared \in Nat \ {0}
    BY FirstBoxes
  <2>2. FirstInvite \in Nat
    BY SetUpNumbers
  <2> QED
    BY <1>1, <2>1, <2>2, SetUpNumbers
<1>3. ASSUME NEW n \in 1..Shared
      PROVE  /\ PointerFits(BoxOf(n), Circle[n], g, fresh)
             /\ g.to[BoxOf(n).uuid] = FirstNumber + 1
             /\ g.seal[BoxOf(n).uuid] = BoxOf(n).key
  <2>1. Drawn(BoxOf(n).uuid, fresh)
    BY <1>1, FirstBoxes DEF Drawn, Pointer
  <2> QED
    BY <2>1 DEF FirstLabels, PointerFits
<1>4. ASSUME NEW u, HasFile(u) PROVE Position(u) \in 1..Shared /\ Circle[Position(u)] = u
  BY <1>2, <1>4, PositionType DEF HasFile
<1>5. ASSUME NEW x \in Slots, access[x] # Absent
      PROVE  AccessFits(access[x].plain, x[1], g, fresh)
  <2> DEFINE u == x[1]
             acc == AccessAtFirst(u)
  <2>1. HasFile(u) /\ access[x].plain = acc
    BY <1>1, <1>5, FirstAccess
  <2> HIDE DEF u
  <2>2. acc.box = BoxOf(Position(u))
    BY DEF AccessAtFirst
  <2>3. ASSUME NEW v \in Users, acc.children[v] # Absent
        PROVE  HasFile(v) /\ acc.children[v] = BoxOf(Position(v))
    BY <2>3 DEF AccessAtFirst
  <2> HIDE DEF acc
  <2>4. AccessFits(acc, u, g, fresh)
    BY <1>3, <1>4, <2>1, <2>2, <2>3 DEF AccessFits
  <2> QED
    BY <2>1, <2>4 DEF u
<1>6. ASSUME NEW p \in DOMAIN invitation PROVE InvitationFits(invitation[p], g, fresh)
  <2> DEFINE n == CHOOSE k \in 2..Shared : InviteOf(k) = p
  <2>1. /\ \E k \in 2..Shared : InviteOf(k) = p
        /\ invitation[p] = [enc |-> 2 * n - 1, sig |-> 2, box |-> BoxOf(n)]
    BY <1>1, <1>6 DEF SetUp
  <2>2. n \in 2..Shared /\ invitation[p].enc = 2 * n - 1 /\ invitation[p].box = BoxOf(n)
    BY <2>1
  <2> HIDE DEF n
  <2>3. ASSUME NEW u \in Range(Circle), invitation[p].enc = Public[u].enc
        PROVE  PointerFits(BoxOf(n), u, g, fresh)
    <3> DEFINE m == Position(u)
    <3>1. m \in Nat /\ u \in Users /\ Circle[m] = u
      BY PositionType
    <3>2. Public[u].enc = 2 * m - 1
      BY <3>1 DEF Public
    <3> HIDE DEF m
    <3>3. n \in 1..Shared /\ n \in Nat /\ 2 * n - 1 = 2 * m - 1
      BY <1>2, <2>2, <2>3, <3>2
    <3>4. m = n
      BY <3>1, <3>3
    <3> QED
      BY <1>3, <3>1, <3>3, <3>4
  <2> QED
    BY <2>2, <2>3 DEF InvitationFits
<1>7. ASSUME NEW m \in DOMAIN mailbox PROVE MailboxFits(m, mailbox[m], g, fresh)
  <2> DEFINE P == {BoxOf(n) : n \in 1..Shared}
             p == CHOOSE q \in P : q.uuid = m
  <2>1. /\ m \in {BoxOf(n).uuid : n \in 1..Shared}
        /\ mailbox[m] = encryptAndMAC(FirstNode, getMailKeys(p.key))
    BY <1>1, <1>7 DEF SetUp
  <2>2. p \in P /\ p.uuid = m
    BY <2>1
  <2>3. PICK n \in 1..Shared : p = BoxOf(n)
    BY <2>2
  <2> HIDE DEF p
  <2>4. /\ mailbox[m].plain = FirstNode /\ mailbox[m].key = getMailKeys(p.key)
    BY <2>1 DEF encryptAndMAC
  <2>5. Drawn(m, fresh) /\ p.key = g.seal[m] /\ g.to[m] = FirstNumber + 1
    BY <1>3, <2>2, <2>3 DEF PointerFits
  <2>6. Drawn(FirstNumber, fresh)
    BY <1>2 DEF Drawn
  <2> QED
    BY <1>2, <2>4, <2>5, <2>6 DEF MailboxFits
<1>8. ASSUME NEW i \in DOMAIN inode PROVE BlocksOf(i, inode[i].plain.blocks, g, fresh)
  <2> DEFINE ids == BlockUUIDs(ByteToBlock(FirstContent), FirstBlock)
             n == Len(ByteToBlock(FirstContent))
  <2>1. /\ i = FirstNumber + 1
        /\ inode[i] = encryptAndMAC([size |-> Len(FirstContent), blocks |-> ids],
                                    getFileKeys(FirstNode.fileKey))
    BY <1>1, <1>2, <1>8 DEF SetUp
  <2>2. inode[i].plain.blocks = ids
    BY <2>1 DEF encryptAndMAC
  <2>3. DOMAIN ids = 1..n /\ \A k \in 1..n : ids[k] = FirstBlock + k - 1
    BY DEF BlockUUIDs
  <2> HIDE DEF ids, n
  <2>4. n \in Nat /\ FirstBlock \in Nat /\ FirstInvite = FirstBlock + n
    BY <1>2 DEF n
  <2>5. ASSUME NEW k \in 1..n PROVE Drawn(ids[k], fresh) /\ g.part[ids[k]] = i
    <3>1. ids[k] \in Nat /\ ids[k] < fresh
      BY <1>2, <2>3, <2>4
    <3> QED
      BY <2>1, <3>1 DEF Drawn, FirstLabels
  <2>6. \A k, m \in 1..n : ids[k] = ids[m] => k = m
    BY <2>3, <2>4
  <2> QED
    BY <2>2, <2>3, <2>5, <2>6 DEF BlocksOf
<1> QED
  BY <1>1, <1>5, <1>6, <1>7, <1>8 DEF LInv

-----------------------------------------------------------------------------
(* Revocations that overlap nothing they replace *)

LEMMA StaysOrderly ==
    ASSUME Remembers
    PROVE  (Orderly' => Orderly) /\ (Thorough' => Thorough) /\ (Unbroken' => Unbroken)
<1>1. OnlyOwnerRevokes' => OnlyOwnerRevokes
  BY DEF Remembers, OnlyOwnerRevokes
<1>2. ASSUME NEW ops1, NEW ops2, Overlapped(ops1, ops2) PROVE Overlapped(ops1, ops2)'
  BY <1>2 DEF Remembers, Overlapped
<1>3. Orderly' => Orderly
  BY <1>1, <1>2 DEF Orderly, Remembers
<1> QED
  BY <1>3 DEF Thorough, Unbroken, Remembers

(* A RevokeAccess in progress is the owner's, and alone. *)
LEMMA RevokesAlone ==
    ASSUME Orderly, Overlaps, MInv, CTypeOK, NEW s \in Sessions, InCall(s),
           call[s].op = "RevokeAccess"
    PROVE  /\ Who(s) = Owner
           /\ \A t \in Sessions : t # s /\ InCall(t) =>
                  call[t].op \notin {"RevokeAccess", "AppendToFile", "CreateInvitation"}
<1>1. sessions[s] \in User /\ <<Who(s), "RevokeAccess">> \in begun
  BY CallType DEF MInv
<1>2. Who(s) = Owner
  BY <1>1 DEF Orderly, OnlyOwnerRevokes, Who, User
<1>3. ASSUME NEW t \in Sessions, t # s, InCall(t),
             call[t].op \in {"RevokeAccess", "AppendToFile", "CreateInvitation"}
      PROVE  FALSE
  <2>1. {call[s].op, call[t].op} \in mixed
    BY <1>3 DEF Overlaps
  <2> QED
    BY <1>3, <2>1 DEF Orderly, Overlapped
<1> QED
  BY <1>2, <1>3

(* The owner accepts nothing. *)
LEMMA OwnerKeeps ==
    ASSUME Orderly, MInv, NEW s \in Sessions, InCall(s), Who(s) = Owner
    PROVE  call[s].op # "AcceptInvitation"
BY DEF Orderly, MInv

LEMMA LabelsAgree ==
    ASSUME CTypeOK, NEW g, NEW h, Agree(g, h, fresh), LInv(g)
    PROVE  LInv(h)
<1>1. Relabels(g, h, fresh, fresh)
  BY DEF Relabels, CTypeOK, TypeOK
<1> QED
  BY <1>1, AccessRelabels, InvitationRelabels, MailboxRelabels, BlocksRelabel, CallRelabels
     DEF LInv

LEMMA HomelyAgree ==
    ASSUME CTypeOK, NEW g \in Labels, NEW h, Agree(g, h, fresh), NEW acc, NEW u,
           AccessFits(acc, u, g, fresh), NEW f, Homely(acc, f, g)
    PROVE  Homely(acc, f, h)
<1> DEFINE m == acc.box.uuid
<1>1. fresh \in Nat /\ Relabels(g, h, fresh, fresh) /\ Drawn(m, fresh) /\ m \in Nat /\ m < fresh
  BY DEF Relabels, CTypeOK, TypeOK, AccessFits, PointerFits, Drawn
<1>2. g.to[m] \in Nat /\ g.to[m] <= m
  BY <1>1, LabelsType
<1>3. Drawn(g.to[m], fresh)
  BY <1>1, <1>2 DEF Drawn
<1> HIDE DEF m
<1>4. h.to[m] = g.to[m] /\ h.made[m] = g.made[m] /\ h.home[g.to[m]] = g.home[g.to[m]]
  BY <1>1, <1>3, AgreeAt
<1> QED
  BY <1>4 DEF Homely, m

LEMMA HomeAgree ==
    ASSUME CTypeOK, NEW g \in Labels, NEW h, Agree(g, h, fresh), LInv(g), AtHome(g)
    PROVE  AtHome(h)
<1>1. ASSUME NEW f \in Filenames, access[<<Owner, f>>] # Absent
      PROVE  Homely(access[<<Owner, f>>].plain, f, h)
  <2>1. <<Owner, f>> \in Slots
    BY OwnerIs DEF Slots
  <2>2. AccessFits(access[<<Owner, f>>].plain, <<Owner, f>>[1], g, fresh)
    BY <1>1, <2>1 DEF LInv
  <2>3. Homely(access[<<Owner, f>>].plain, f, g)
    BY <1>1 DEF AtHome
  <2> QED
    BY <2>2, <2>3, HomelyAgree
<1>2. ASSUME NEW s \in Sessions, InCall(s), Who(s) = Owner, Holds(call[s])
      PROVE  Homely(call[s].acc, call[s].f, h)
  <2>1. AccessFits(call[s].acc, Who(s), g, fresh)
    BY <1>2 DEF LInv, CallLabelled
  <2>2. Homely(call[s].acc, call[s].f, g)
    BY <1>2 DEF AtHome
  <2> QED
    BY <2>1, <2>2, HomelyAgree
<1> QED
  BY <1>1, <1>2 DEF AtHome

LEMMA HomeGoes ==
    ASSUME CTypeOK, NEW s \in Sessions, NEW d, Goes(s, d), NEW h, AtHome(h),
           d # Absent /\ Who(s) = Owner /\ Holds(d) => Homely(d.acc, d.f, h)
    PROVE  AtHome(h)'
<1>1. /\ access' = access
      /\ call' = [call EXCEPT ![s] = d] /\ call \in [Sessions -> Calls \cup {Absent}]
      /\ \A t \in Sessions : t # s => sessions'[t] = sessions[t]
      /\ d # Absent => sessions' = sessions
  BY DEF Goes, datastore, CTypeOK, CallsFit
<1>2. ASSUME NEW t \in Sessions, call'[t] # Absent, sessions'[t].name = Owner, Holds(call'[t])
      PROVE  Homely(call'[t].acc, call'[t].f, h)
  <2>1. CASE t = s
    BY <1>1, <1>2, <2>1 DEF Who
  <2>2. CASE t # s
    <3>1. call'[t] = call[t] /\ sessions'[t] = sessions[t]
      BY <1>1, <2>2
    <3> QED
      BY <1>2, <3>1 DEF AtHome, InCall, Who
  <2> QED
    BY <2>1, <2>2
<1>3. \A t \in Sessions : (InCall(t) /\ Who(t) = Owner /\ Holds(call[t]))' =>
          Homely(call[t].acc, call[t].f, h)'
  BY <1>2 DEF InCall, Who
<1> QED
  BY <1>1, <1>3 DEF AtHome

LEMMA HomeMoves ==
    ASSUME CTypeOK, NEW s \in Sessions, InCall(s), Who(s) = Owner, NEW h, AtHome(h),
           NEW d \in Calls, Fits(d), SameCall(call[s], d),
           MovesTo(sessions[s], call[s], d), Holds(d)
    PROVE  Homely(d.acc, d.f, h)
<1> DEFINE c == call[s]
<1>1. Fits(c) /\ d.op = c.op /\ d.f = c.f /\ c.f \in Filenames
  BY CallType DEF SameCall, Fits, Calls
<1>2. CASE ToMailbox(sessions[s], c, d)
  BY <1>1, <1>2 DEF ToMailbox, OpensAccess, AccessOf, Slot, AtHome, Who
<1>3. ASSUME Holds(c), d.acc = c.acc PROVE Homely(d.acc, d.f, h)
  BY <1>1, <1>3 DEF AtHome
<1> HIDE DEF c
<1>4. CASE ToInode(c, d) \/ ToRecipient(c, d) \/ ToReseal(c, d)
  BY <1>3, <1>4 DEF ToInode, ToRecipient, ToReseal, Holds
<1>5. CASE ToBlock(c, d) \/ ToAppend(c, d) \/ ToSender(c, d) \/ ToAccept(sessions[s], c, d)
  BY <1>1, <1>5 DEF ToBlock, ToAppend, ToSender, ToAccept, Holds, Fits, OpFits
<1>6. CASE Resealed(c, d) \/ ToChild(c, d) \/ NextChild(c, d) \/ ToRevoked(sessions[s], c, d)
  BY <1>3, <1>6 DEF Resealed, ToChild, NextChild, ToRevoked, SameRevocation, Holds
<1>7. CASE ToInvite(sessions[s], c, d)
  BY <1>3, <1>7 DEF ToInvite, Holds
<1> QED
  BY <1>2, <1>4, <1>5, <1>6, <1>7 DEF MovesTo, c

(* What the owner writes is at home as well. *)
LEMMA OwnerWrites ==
    ASSUME CTypeOK, MInv, Orderly, NEW s \in Sessions, NEW c, NEW d, NEW w, Written(s, c, d, w),
           Who(s) = Owner, w.kind = "access", NEW h, LInv(h), AtHome(h)
    PROVE  /\ Homely(w.record.plain, c.f, h) /\ w.id = <<Owner, c.f>>
           /\ c.op \in {"StoreFile", "CreateInvitation", "RevokeAccess"}
<1>1. /\ InCall(s) /\ c = call[s] /\ Fits(c) /\ WriteMine(Owner, c, w) /\ WroteFirst(c, d, w)
  BY DEF Written
<1>2. CallLabelled(Owner, c, h, fresh)
  BY <1>1 DEF LInv
<1>3. WriteFits(Owner, c, w, h, fresh)
  BY <1>1, <1>2, LabelledNext
<1>4. /\ w.id = <<Owner, c.f>> /\ c.at = "return"
      /\ c.op \in {"StoreFile", "CreateInvitation", "RevokeAccess"}
      /\ c.op = "CreateInvitation" => w.record.plain = WithChild(c.acc, c.arg, c.box)
      /\ c.op = "RevokeAccess" => w.record.plain = WithoutChild(c.acc, c.arg, c.box)
  BY <1>1, OwnerKeeps DEF WriteMine
<1>5. CASE c.op = "StoreFile"
  <2>1. /\ h.to[w.record.plain.box.uuid] = c.node.inode
        /\ h.made[w.record.plain.box.uuid] = "StoreFile"
    BY <1>3, <1>5 DEF WriteFits
  <2>2. h.home[c.node.inode] = c.f
    BY <1>2, <1>5 DEF CallLabelled
  <2> QED
    BY <1>4, <2>1, <2>2 DEF Homely
<1>6. CASE c.op = "CreateInvitation"
  <2>1. c.acc \in Access /\ c.box \in Pointer /\ c.arg \in Users
    BY <1>1, <1>4, <1>6 DEF Written, CallMine, Holds, Invites, Fits, OpFits
  <2>2. w.record.plain.box = c.acc.box
    BY <1>4, <1>6, <2>1, WithChildType
  <2>3. Homely(c.acc, c.f, h)
    BY <1>1, <1>4, <1>6 DEF AtHome, Holds
  <2> QED
    BY <1>4, <2>2, <2>3 DEF Homely
<1>7. CASE c.op = "RevokeAccess"
  <2>1. c.acc \in Access /\ c.box \in Pointer /\ c.arg \in Users
    BY <1>1, <1>4, <1>7 DEF Written, CallMine, Holds, Rekeys, Fits, OpFits
  <2>2. w.record.plain.box = c.box
    BY <1>4, <1>7, <2>1, WithoutChildType
  <2>3. Homely(c.acc, c.f, h)
    BY <1>1, <1>4, <1>7 DEF AtHome, Holds
  <2>4. /\ c.node.inode = h.to[c.acc.box.uuid] /\ h.to[c.box.uuid] = c.node.inode
        /\ h.made[c.box.uuid] = "RevokeAccess"
    BY <1>2, <1>4, <1>7 DEF CallLabelled, Knows, Holds, Rekeys
  <2> QED
    BY <1>4, <2>2, <2>3, <2>4 DEF Homely
<1> QED
  BY <1>4, <1>5, <1>6, <1>7

LEMMA HomeWritten ==
    ASSUME CTypeOK, MInv, Orderly, NEW s \in Sessions, NEW c, NEW d, NEW w, Written(s, c, d, w),
           NEW h, LInv(h), AtHome(h)
    PROVE  AtHome(h)'
<1>1. /\ InCall(s) /\ c = call[s] /\ WroteFirst(c, d, w) /\ sessions'[s].name = Who(s)
      /\ WriteMine(Who(s), c, w)
      /\ \A t \in Sessions : t # s => sessions'[t] = sessions[t] /\ call'[t] = call[t]
      /\ call'[s] = Absent \/ call'[s] = d
      /\ \A x \in Slots : \/ access'[x] = access[x]
                          \/ w.kind = "access" /\ x = w.id /\ access'[x] = w.record
  BY DEF Written
<1>2. d.acc = c.acc /\ d.f = c.f /\ Holds(d) = Holds(c)
  BY <1>1 DEF WroteFirst, WroteAll, Wrote, SameCall, Holds
<1>3. ASSUME NEW f \in Filenames, access'[<<Owner, f>>] # Absent
      PROVE  Homely(access'[<<Owner, f>>].plain, f, h)
  <2> DEFINE x == <<Owner, f>>
  <2>1. x \in Slots
    BY OwnerIs DEF Slots
  <2>2. CASE access'[x] = access[x]
    BY <1>3, <2>2 DEF AtHome
  <2>3. CASE w.kind = "access" /\ x = w.id /\ access'[x] = w.record
    <3>1. w.id = <<Who(s), c.f>>
      BY <1>1, <2>3 DEF WriteMine
    <3>2. Who(s) = Owner /\ c.f = f
      BY <2>3, <3>1
    <3> QED
      BY <2>3, <3>2, OwnerWrites
  <2> QED
    BY <1>1, <2>1, <2>2, <2>3
<1>4. ASSUME NEW t \in Sessions, call'[t] # Absent, sessions'[t].name = Owner, Holds(call'[t])
      PROVE  Homely(call'[t].acc, call'[t].f, h)
  <2>1. CASE t = s
    BY <1>1, <1>2, <1>4, <2>1 DEF AtHome
  <2>2. CASE t # s
    <3>1. call'[t] = call[t] /\ sessions'[t] = sessions[t]
      BY <1>1, <2>2
    <3> QED
      BY <1>4, <3>1 DEF AtHome, InCall, Who
  <2> QED
    BY <2>1, <2>2
<1>5. \A t \in Sessions : (InCall(t) /\ Who(t) = Owner /\ Holds(call[t]))' =>
          Homely(call[t].acc, call[t].f, h)'
  BY <1>4 DEF InCall, Who
<1> QED
  BY <1>3, <1>5 DEF AtHome

-----------------------------------------------------------------------------
(* The keys of the inodes that are in use *)

LEMMA NodeKeyedKept ==
    ASSUME NEW c, NEW old, NEW new, NodeKeyed(c, old), DOMAIN old \subseteq DOMAIN new,
           (c.op = "AppendToFile" /\ c.at = "return") \/ Rekeys(c) =>
               new[c.node.inode].key = old[c.node.inode].key
    PROVE  NodeKeyed(c, new)
BY DEF NodeKeyed, Unkeyed

LEMMA NodeKeysGo ==
    ASSUME CTypeOK, NEW s \in Sessions, NEW d, Goes(s, d), KeysHeld,
           d # Absent => NodeKeyed(d, inode)
    PROVE  KeysHeld'
<1>1. /\ inode' = inode
      /\ call' = [call EXCEPT ![s] = d] /\ call \in [Sessions -> Calls \cup {Absent}]
  BY DEF Goes, datastore, CTypeOK, CallsFit
<1>2. ASSUME NEW t \in Sessions, call'[t] # Absent
      PROVE  NodeKeyed(call'[t], inode)
  <2>1. CASE t = s
    BY <1>1, <1>2, <2>1
  <2>2. CASE t # s
    <3>1. call'[t] = call[t]
      BY <1>1, <2>2
    <3> QED
      BY <1>2, <3>1 DEF KeysHeld, InCall
  <2> QED
    BY <2>1, <2>2
<1>3. \A t \in Sessions : InCall(t)' => NodeKeyed(call'[t], inode')
  BY <1>1, <1>2 DEF InCall
<1> QED
  BY <1>3 DEF KeysHeld

LEMMA NodeKeysBegin ==
    ASSUME NEW s \in Sessions, NEW d, BeginsReading(s, d) \/ BeginsStoring(s, d)
    PROVE  NodeKeyed(d, inode)
BY DEF BeginsReading, BeginsStoring, NodeKeyed, Unkeyed, Rekeys

LEMMA NodeKeysMove ==
    ASSUME CTypeOK, NEW s \in Sessions, InCall(s), call[s].todo = <<>>,
           NodeKeyed(call[s], inode), NEW d \in Calls, Fits(d), SameCall(call[s], d),
           MovesTo(sessions[s], call[s], d)
    PROVE  NodeKeyed(d, inode)
<1> DEFINE c == call[s]
<1>1. Fits(c) /\ d.op = c.op /\ OpFits(d) /\ OpFits(c) /\ c.todo = <<>> /\ NodeKeyed(c, inode)
  BY CallType DEF SameCall, Fits
<1> HIDE DEF c
<1>2. CASE ToMailbox(sessions[s], c, d) \/ ToInode(c, d) \/ ToRecipient(c, d) \/ ToBlock(c, d)
           \/ ToSender(c, d)
  BY <1>2 DEF ToMailbox, ToInode, ToRecipient, ToBlock, ToSender, NodeKeyed, Unkeyed, Rekeys
<1>3. CASE ToInvite(sessions[s], c, d) \/ ToAccept(sessions[s], c, d)
  <2>1. c.at \in {"recipient", "sender"}
    BY <1>3 DEF ToInvite, ToAccept
  <2>2. d.op \in {"CreateInvitation", "AcceptInvitation"}
    BY <1>1, <2>1 DEF OpFits
  <2> QED
    BY <2>2 DEF NodeKeyed, Unkeyed, Rekeys
<1>4. CASE ToAppend(c, d)
  BY <1>1, <1>4 DEF ToAppend, OpensInode, decrypts, NodeKeyed, Unkeyed, Rekeys
<1>5. CASE ToReseal(c, d)
  <2>1. /\ c.node.inode \in DOMAIN inode /\ d.node = c.node /\ d.at = "reseal" /\ d.todo = <<>>
        /\ d.op = "RevokeAccess" /\ inode[c.node.inode].key = getFileKeys(c.node.fileKey)
    BY <1>1, <1>5 DEF ToReseal, OpensInode, decrypts
  <2> QED
    BY <2>1 DEF NodeKeyed, Unkeyed, Rekeys
<1>6. ASSUME SameRevocation(c, d), Rekeys(c), Rekeys(d), Unkeyed(c) <=> Unkeyed(d),
             \A n \in DOMAIN d.todo : d.todo[n].kind = "inode" => n = 1
      PROVE  NodeKeyed(d, inode)
  BY <1>1, <1>6 DEF NodeKeyed, SameRevocation, Rekeys
<1>7. CASE Resealed(c, d)
  <2>1. d.todo[1].kind = "block" /\ DOMAIN d.todo = {1}
    BY <1>7 DEF Resealed, Set
  <2> QED
    BY <1>1, <1>6, <1>7, <2>1 DEF Resealed, SameRevocation, Rekeys, Unkeyed
<1>8. CASE ToChild(c, d)
  <2> DEFINE node == [c.node EXCEPT !.fileKey = c.key]
  <2>1. d.todo = <<SetInode(node, c.file), SetMailbox(c.box, node)>>
    BY <1>8 DEF ToChild, RevokeWrites
  <2> HIDE DEF node
  <2>2. DOMAIN d.todo = {1, 2} /\ d.todo[1].kind = "inode" /\ d.todo[2].kind = "mailbox"
    BY <2>1, TwoWrites DEF SetInode, SetMailbox, Set
  <2>3. Rekeys(c) /\ Rekeys(d) /\ Unkeyed(c)
    BY <1>1, <1>8 DEF ToChild, SameRevocation, Rekeys, Unkeyed
  <2>4. Unkeyed(d)
    BY <2>2, <2>3 DEF Unkeyed, Queues
  <2> QED
    BY <1>6, <1>8, <2>2, <2>3, <2>4 DEF ToChild
<1>9. ASSUME SameRevocation(c, d), c.at = "child", d.at \in {"child", "return"},
             \A n \in DOMAIN d.todo : d.todo[n].kind # "inode"
      PROVE  NodeKeyed(d, inode)
  <2>1. Rekeys(c) /\ Rekeys(d) /\ ~Unkeyed(c) /\ ~Unkeyed(d)
    BY <1>1, <1>9 DEF SameRevocation, Rekeys, Unkeyed, Queues
  <2> QED
    BY <1>6, <1>9, <2>1
<1>10. CASE NextChild(c, d)
  <2>1. PICK u \in c.kids : d.todo = KidTodo(c, u)
    BY <1>10 DEF NextChild
  <2>2. \A n \in DOMAIN d.todo : d.todo[n].kind = "mailbox"
    BY <2>1, SetKinds, OneWrite DEF KidTodo
  <2> QED
    BY <1>9, <1>10, <2>2 DEF NextChild
<1>11. CASE ToRevoked(sessions[s], c, d)
  <2>1. d.todo = <<SetAccess(sessions[s], c.f, WithoutChild(c.acc, c.arg, c.box)),
                   SetUser(sessions[s], c.f)>>
    BY <1>11 DEF ToRevoked
  <2>2. DOMAIN d.todo = {1, 2} /\ d.todo[1].kind = "access" /\ d.todo[2].kind = "account"
    BY <2>1, TwoWrites, SetKinds
  <2> QED
    BY <1>9, <1>11, <2>2 DEF ToRevoked
<1> QED
  BY <1>2, <1>3, <1>4, <1>5, <1>7, <1>8, <1>10, <1>11 DEF MovesTo, c

(* Which inode a write changes, and what that means for its key.           *)
InodeWritten(c, w, old, new) ==
    /\ DOMAIN old \subseteq DOMAIN new
    /\ w.kind # "inode" => new = old
    /\ \A i \in DOMAIN new : \/ i \in DOMAIN old /\ new[i] = old[i]
                             \/ w.kind = "inode" /\ i = w.id /\ new[i] = w.record
    /\ w.kind = "inode" =>
           /\ w.id = c.node.inode /\ w.id \in DOMAIN new /\ new[w.id] = w.record
           /\ c.op \in {"StoreFile", "AppendToFile", "RevokeAccess"}
           /\ c.op = "StoreFile" => /\ w.id \notin DOMAIN old /\ c.at = "return"
                                    /\ w.record.key = getFileKeys(c.node.fileKey)
           /\ c.op = "AppendToFile" => /\ w.id \in DOMAIN old /\ c.at = "return"
                                       /\ w.record.key = getFileKeys(c.node.fileKey)
                                       /\ w.record.key = old[w.id].key
           /\ c.op = "RevokeAccess" => /\ w.id \in DOMAIN old /\ c.at = "child"
                                       /\ w.record.key = getFileKeys(c.key)
                                       /\ w.record.plain = c.file

LEMMA WritesInode ==
    ASSUME CTypeOK, AInv, KeysHeld, NEW s \in Sessions, NEW c, NEW d, NEW w, Written(s, c, d, w)
    PROVE  InodeWritten(c, w, inode, inode')
<1>1. /\ InCall(s) /\ c = call[s] /\ WriteMine(Who(s), c, w) /\ Write(w) /\ 1 \in DOMAIN c.todo
      /\ w = c.todo[1] /\ c \in Calls
  BY DEF Written, WroteFirst
<1>2. StoresInode(c, inode) /\ NodeKeyed(c, inode)
  BY <1>1 DEF AInv, OwnInodes, KeysHeld
<1>3. Added(inode, inode', w.kind = "inode", w.id, w.record)
  BY <1>1, WriteAdds
<1>4. w.kind # "inode" => inode' = inode
  BY <1>1 DEF Write
<1>5. w.kind = "inode" => inode'[w.id] = w.record
  BY <1>1 DEF Write, Put, PutAll
<1>6. ASSUME w.kind = "inode"
      PROVE  /\ w.id = c.node.inode
             /\ c.op \in {"StoreFile", "AppendToFile", "RevokeAccess"}
             /\ IF c.op = "StoreFile" THEN c.node.inode \notin DOMAIN inode
                                      ELSE c.node.inode \in DOMAIN inode
  BY <1>1, <1>2, <1>6, FirstInode
<1>7. ASSUME w.kind = "inode"
      PROVE  /\ c.op = "RevokeAccess" => /\ c.at = "child" /\ w.record.plain = c.file
                                         /\ w.record.key = getFileKeys(c.key)
             /\ c.op # "RevokeAccess" => /\ c.at = "return"
                                         /\ w.record.key = getFileKeys(c.node.fileKey)
  BY <1>1, <1>7 DEF WriteMine
<1>8. w.kind = "inode" /\ c.op = "AppendToFile" => w.record.key = inode[w.id].key
  BY <1>2, <1>6, <1>7 DEF NodeKeyed
<1> QED
  BY <1>3, <1>4, <1>5, <1>6, <1>7, <1>8 DEF Added, InodeWritten

LEMMA NodeKeysWritten ==
    ASSUME CTypeOK, AInv, MInv, Orderly, NEW s \in Sessions, NEW c, NEW d, NEW w,
           Written(s, c, d, w), KeysHeld
    PROVE  KeysHeld'
<1>1. /\ InCall(s) /\ c = call[s] /\ WroteFirst(c, d, w)
      /\ \A t \in Sessions : t # s => call'[t] = call[t]
      /\ call'[s] = Absent \/ call'[s] = d
  BY DEF Written
<1>2. InodeWritten(c, w, inode, inode')
  BY WritesInode
<1>3. /\ d.op = c.op /\ d.at = c.at /\ d.node = c.node /\ d.key = c.key /\ Rekeys(d) = Rekeys(c)
      /\ Wrote(c, d) /\ c.todo \in Seq(Writes) /\ w = c.todo[1] /\ 1 \in DOMAIN c.todo
  BY <1>1 DEF WroteFirst, WroteAll, Wrote, SameCall, Rekeys
<1>4. /\ \A n \in DOMAIN d.todo : /\ n + 1 \in DOMAIN c.todo /\ d.todo[n] = c.todo[n + 1]
                                  /\ n + 1 # 1
      /\ \A n \in DOMAIN c.todo : n # 1 => n - 1 \in DOMAIN d.todo /\ d.todo[n - 1] = c.todo[n]
  BY <1>3, QueueMoves
<1>5. NodeKeyed(c, inode)
  BY <1>1 DEF KeysHeld
<1>6. ASSUME NEW t \in Sessions, t # s, InCall(t)
      PROVE  NodeKeyed(call[t], inode')
  <2>1. NodeKeyed(call[t], inode) /\ StoresInode(call[t], inode)
    BY <1>6 DEF KeysHeld, AInv, OwnInodes
  <2>2. CASE w.kind # "inode" \/ c.op = "AppendToFile" \/ c.op = "StoreFile"
    <3>1. \A i \in DOMAIN inode : inode'[i].key = inode[i].key
      BY <1>2, <2>2 DEF InodeWritten
    <3>2. (call[t].op = "AppendToFile" /\ call[t].at = "return") \/ Rekeys(call[t]) =>
              call[t].node.inode \in DOMAIN inode
      BY <2>1 DEF NodeKeyed, StoresInode
    <3> QED
      BY <1>2, <2>1, <3>1, <3>2, NodeKeyedKept DEF InodeWritten
  <2>3. CASE c.op = "RevokeAccess"
    <3>1. call[t].op \notin {"RevokeAccess", "AppendToFile"}
      BY <1>1, <1>6, <2>3, RevokesAlone DEF AInv
    <3> QED
      BY <3>1 DEF NodeKeyed, Unkeyed, Rekeys
  <2> QED
    BY <1>2, <2>2, <2>3 DEF InodeWritten
<1>7. NodeKeyed(d, inode')
  <2>1. CASE w.kind # "inode"
    <3>1. inode' = inode
      BY <1>2, <2>1 DEF InodeWritten
    <3>2. CASE Rekeys(c)
      <4>1. ~Queues(c, "inode") /\ ~Queues(d, "inode")
        BY <1>3, <1>4, <1>5, <2>1, <3>2 DEF NodeKeyed, Queues
      <4>2. Unkeyed(d) <=> Unkeyed(c)
        BY <1>3, <4>1 DEF Unkeyed
      <4>3. \A n \in DOMAIN d.todo : d.todo[n].kind # "inode"
        BY <4>1 DEF Queues
      <4> QED
        BY <1>3, <1>5, <3>1, <3>2, <4>2, <4>3 DEF NodeKeyed, Rekeys
    <3>3. CASE ~Rekeys(c)
      BY <1>3, <1>5, <3>1, <3>3 DEF NodeKeyed, Unkeyed
    <3> QED
      BY <3>2, <3>3
  <2>2. CASE w.kind = "inode" /\ c.op # "RevokeAccess"
    BY <1>2, <1>3, <2>2 DEF InodeWritten, NodeKeyed, Unkeyed, Rekeys
  <2>3. CASE w.kind = "inode" /\ c.op = "RevokeAccess"
    <3>1. Rekeys(c) /\ c.node.inode \in DOMAIN inode' /\ inode'[c.node.inode].key = getFileKeys(c.key)
          /\ c.at = "child"
      BY <1>2, <2>3 DEF InodeWritten, Rekeys
    <3>2. ~Queues(d, "inode")
      BY <1>4, <1>5, <3>1 DEF NodeKeyed, Queues
    <3>3. \A n \in DOMAIN d.todo : d.todo[n].kind # "inode"
      BY <3>2 DEF Queues
    <3> QED
      BY <1>3, <3>1, <3>2, <3>3 DEF NodeKeyed, Unkeyed, Rekeys
  <2> QED
    BY <2>1, <2>2, <2>3
<1>8. ASSUME NEW t \in Sessions, call'[t] # Absent
      PROVE  NodeKeyed(call'[t], inode')
  BY <1>1, <1>6, <1>7, <1>8 DEF InCall
<1>9. \A t \in Sessions : InCall(t)' => NodeKeyed(call'[t], inode')
  BY <1>8 DEF InCall
<1> QED
  BY <1>9 DEF KeysHeld

-----------------------------------------------------------------------------
(* Whoever is revoked stays out *)

LEMMA ComesGoes ==
    ASSUME CTypeOK, NEW s \in Sessions, Comes(s)
    PROVE  Goes(s, Absent) /\ ~InCall(s) /\ UNCHANGED <<revoked, begun, mixed, died, fresh>>
<1>1. /\ CTypeOK' /\ UNCHANGED <<datastore, keystore, fresh, progress>>
      /\ ~InCall(s)
      /\ \A t \in Sessions : t # s => sessions'[t] = sessions[t]
  BY ComesType
<1>2. /\ call' = call /\ call \in [Sessions -> Calls \cup {Absent}] /\ call[s] = Absent
      /\ fresh \in Nat /\ sessions' \in [Sessions -> User \cup {Absent}]
  BY <1>1 DEF CTypeOK, CallsFit, InCall, TypeOK, progress
<1>3. call' = [call EXCEPT ![s] = Absent]
  BY <1>2
<1>4. fresh' = fresh /\ fresh \in Nat /\ fresh <= fresh'
  BY <1>1, <1>2
<1>5. Goes(s, Absent)
  BY <1>1, <1>2, <1>3, <1>4 DEF Goes
<1> QED
  BY <1>1, <1>2, <1>5 DEF InCall, progress, history

LEMMA CutAgree ==
    ASSUME CTypeOK, NEW g \in Labels, NEW h, Agree(g, h, fresh), LInv(g), CutInv(g)
    PROVE  CutInv(h)
<1>1. \A n : Drawn(n, fresh) => h.of[n] = g.of[n] /\ h.to[n] = g.to[n]
  BY DEF Agree, Drawn
<1>2. \A m \in DOMAIN mailbox : h.of[m] = g.of[m] /\ h.to[m] = g.to[m]
  BY <1>1 DEF LInv, MailboxFits
<1>3. ASSUME NEW acc, NEW u, AccessFits(acc, u, g, fresh), Clean(acc, g, revoked, call)
      PROVE  Clean(acc, h, revoked, call)
  <2>1. h.to[acc.box.uuid] = g.to[acc.box.uuid]
    BY <1>1, <1>3 DEF AccessFits, PointerFits
  <2> QED
    BY <1>3, <2>1 DEF Clean
<1>4. ASSUME NEW f \in Filenames, access[<<Owner, f>>] # Absent
      PROVE  Clean(access[<<Owner, f>>].plain, h, revoked, call)
  <2>1. <<Owner, f>> \in Slots
    BY OwnerIs DEF Slots
  <2>2. AccessFits(access[<<Owner, f>>].plain, <<Owner, f>>[1], g, fresh)
    BY <1>4, <2>1 DEF LInv
  <2>3. Clean(access[<<Owner, f>>].plain, g, revoked, call)
    BY <1>4 DEF CutInv
  <2> QED
    BY <1>3, <2>2, <2>3
<1>5. ASSUME NEW s \in Sessions, InCall(s), Who(s) = Owner, Holds(call[s]),
             call[s].op \in {"CreateInvitation", "RevokeAccess"}
      PROVE  Clean(call[s].acc, h, revoked, call)
  <2>1. AccessFits(call[s].acc, Who(s), g, fresh)
    BY <1>5 DEF LInv, CallLabelled
  <2>2. Clean(call[s].acc, g, revoked, call)
    BY <1>5 DEF CutInv
  <2> QED
    BY <1>3, <2>1, <2>2
<1>6. \A s \in Sessions : InCall(s) /\ Rekeys(call[s]) => RevokeClean(call[s], h, mailbox, access)
  BY <1>2 DEF CutInv, RevokeClean
<1>7. \A m \in DOMAIN mailbox :
          Cut(h.of[m], h.to[m], revoked, call) => ~LiveIn(mailbox, inode, m)
  BY <1>2 DEF CutInv
<1>8. \A x \in revoked : x[2] \in DOMAIN inode
  BY DEF CutInv
<1> QED
  BY <1>4, <1>5, <1>6, <1>7, <1>8 DEF CutInv

(* A call that stops inviting invites nobody who could be out. *)
StillInvites(c, d) == d # Absent /\ Invites(d) /\ d.arg = c.arg /\ d.node = c.node

LEMMA CutsStay ==
    ASSUME NEW s \in Sessions, NEW d, NEW old, NEW rev,
           old \in [Sessions -> Calls \cup {Absent}], NEW new, new = [old EXCEPT ![s] = d],
           old[s] # Absent /\ Invites(old[s]) =>
               StillInvites(old[s], d) \/ old[s].arg \notin Range(Circle)
    PROVE  \A u, i : Cut(u, i, rev, new) => Cut(u, i, rev, old)
<1> SUFFICES ASSUME NEW u, NEW i, Cut(u, i, rev, new), Inviting(u, i, old) PROVE FALSE
  BY DEF Cut
<1>1. PICK t \in Sessions : old[t] # Absent /\ Invites(old[t]) /\ old[t].arg = u
                            /\ old[t].node.inode = i
  BY DEF Inviting
<1>2. ~Inviting(u, i, new) /\ u \in Range(Circle)
  BY DEF Cut
<1>3. CASE t = s
  <2>1. new[s] = d
    OBVIOUS
  <2> QED
    BY <1>1, <1>2, <1>3, <2>1 DEF StillInvites, Inviting
<1>4. CASE t # s
  <2>1. new[t] = old[t]
    BY <1>4
  <2> QED
    BY <1>1, <1>2, <2>1 DEF Inviting
<1> QED
  BY <1>3, <1>4

LEMMA CleanStays ==
    ASSUME NEW acc, NEW h, NEW old, NEW rev, NEW new, NEW rev2, Clean(acc, h, rev, old),
           \A u, i : Cut(u, i, rev2, new) => Cut(u, i, rev, old)
    PROVE  Clean(acc, h, rev2, new)
BY DEF Clean

LEMMA CutGoes ==
    ASSUME CTypeOK, NEW s \in Sessions, NEW d, Goes(s, d), revoked' = revoked,
           NEW h, CutInv(h),
           InCall(s) /\ Invites(call[s]) =>
               StillInvites(call[s], d) \/ call[s].arg \notin Range(Circle),
           d # Absent /\ Who(s) = Owner /\ Holds(d) /\ d.op \in {"CreateInvitation", "RevokeAccess"}
               => Clean(d.acc, h, revoked, call),
           d # Absent /\ Rekeys(d) => RevokeClean(d, h, mailbox, access)
    PROVE  CutInv(h)'
<1>1. /\ mailbox' = mailbox /\ access' = access /\ inode' = inode
      /\ call' = [call EXCEPT ![s] = d] /\ call \in [Sessions -> Calls \cup {Absent}]
      /\ \A t \in Sessions : t # s => sessions'[t] = sessions[t]
      /\ d # Absent => sessions' = sessions
  BY DEF Goes, datastore, CTypeOK, CallsFit
<1>2. \A u, i : Cut(u, i, revoked, call') => Cut(u, i, revoked, call)
  BY <1>1, CutsStay DEF InCall
<1>3. ASSUME NEW f \in Filenames, access[<<Owner, f>>] # Absent
      PROVE  Clean(access[<<Owner, f>>].plain, h, revoked, call')
  <2>1. Clean(access[<<Owner, f>>].plain, h, revoked, call)
    BY <1>3 DEF CutInv
  <2> QED
    BY <1>2, <2>1, CleanStays
<1>4. ASSUME NEW t \in Sessions, call'[t] # Absent, sessions'[t].name = Owner, Holds(call'[t]),
             call'[t].op \in {"CreateInvitation", "RevokeAccess"}
      PROVE  Clean(call'[t].acc, h, revoked, call')
  <2>1. CASE t = s
    <3>1. Clean(d.acc, h, revoked, call) /\ call'[t] = d
      BY <1>1, <1>4, <2>1 DEF Who
    <3> QED
      BY <1>2, <3>1, CleanStays
  <2>2. CASE t # s
    <3>1. call'[t] = call[t] /\ sessions'[t] = sessions[t]
      BY <1>1, <2>2
    <3>2. Clean(call[t].acc, h, revoked, call)
      BY <1>4, <3>1 DEF CutInv, InCall, Who
    <3> QED
      BY <1>2, <3>1, <3>2, CleanStays
  <2> QED
    BY <2>1, <2>2
<1>5. ASSUME NEW t \in Sessions, call'[t] # Absent, Rekeys(call'[t])
      PROVE  RevokeClean(call'[t], h, mailbox, access)
  <2>1. CASE t = s
    BY <1>1, <1>5, <2>1
  <2>2. CASE t # s
    <3>1. call'[t] = call[t]
      BY <1>1, <2>2
    <3> QED
      BY <1>5, <3>1 DEF CutInv, InCall
  <2> QED
    BY <2>1, <2>2
<1>6. \A x \in revoked : x[2] \in DOMAIN inode
  BY DEF CutInv
<1>7. \A m \in DOMAIN mailbox :
          Cut(h.of[m], h.to[m], revoked, call') => ~LiveIn(mailbox, inode, m)
  BY <1>2 DEF CutInv
<1>8. \A t \in Sessions :
          (InCall(t) /\ Who(t) = Owner /\ Holds(call[t])
              /\ call[t].op \in {"CreateInvitation", "RevokeAccess"})' =>
          Clean(call'[t].acc, h, revoked, call')
  BY <1>4 DEF InCall, Who
<1>9. \A t \in Sessions : (InCall(t) /\ Rekeys(call[t]))' =>
          RevokeClean(call'[t], h, mailbox, access)
  BY <1>5 DEF InCall
<1> QED
  BY <1>1, <1>3, <1>6, <1>7, <1>8, <1>9 DEF CutInv

(* The call reads on: nobody is let in again. *)
LEMMA CutMoves ==
    ASSUME CTypeOK, MInv, NEW s \in Sessions, InCall(s), NEW h \in Labels, LInv(h), CutInv(h),
           NEW d \in Calls, Fits(d), SameCall(call[s], d), MovesTo(sessions[s], call[s], d)
    PROVE  /\ Invites(call[s]) => StillInvites(call[s], d)
           /\ Who(s) = Owner /\ Holds(d) /\ d.op \in {"CreateInvitation", "RevokeAccess"} =>
                  Clean(d.acc, h, revoked, call)
           /\ Rekeys(d) => RevokeClean(d, h, mailbox, access)
<1> DEFINE c == call[s]
<1>1. /\ Fits(c) /\ d.op = c.op /\ d.f = c.f /\ d.arg = c.arg /\ c.f \in Filenames
      /\ d # Absent /\ OpFits(c)
  BY CallType, NoCallAssumption DEF SameCall, Fits, Calls
<1>2. ASSUME Holds(c), Who(s) = Owner, c.op \in {"CreateInvitation", "RevokeAccess"}, d.acc = c.acc
      PROVE  Clean(d.acc, h, revoked, call)
  BY <1>2 DEF CutInv
<1>3. CASE ToMailbox(sessions[s], c, d)
  <2>1. ~Invites(c) /\ ~Rekeys(d)
    BY <1>3 DEF ToMailbox, Invites, Rekeys
  <2>2. Who(s) = Owner => Clean(d.acc, h, revoked, call)
    BY <1>1, <1>3 DEF ToMailbox, OpensAccess, AccessOf, Slot, CutInv, Who
  <2> QED
    BY <2>1, <2>2
<1>4. ASSUME Rekeys(c) PROVE RevokeClean(c, h, mailbox, access)
  BY <1>4 DEF CutInv
<1> HIDE DEF c
<1>5. CASE ToInode(c, d) \/ ToRecipient(c, d)
  BY <1>1, <1>2, <1>5 DEF ToInode, ToRecipient, Holds, Invites, Rekeys, c
<1>6. CASE ToBlock(c, d) \/ ToAppend(c, d) \/ ToSender(c, d) \/ ToAccept(sessions[s], c, d)
  <2>1. c.op \notin {"CreateInvitation", "RevokeAccess"}
    BY <1>1, <1>6 DEF ToBlock, ToAppend, ToSender, ToAccept, OpFits
  <2> QED
    BY <1>1, <2>1 DEF Invites, Rekeys, c
<1>7. CASE ToInvite(sessions[s], c, d)
  <2>1. c.op = "CreateInvitation"
    BY <1>1, <1>7 DEF ToInvite, OpFits
  <2> QED
    BY <1>1, <1>2, <1>7, <2>1 DEF ToInvite, Holds, Invites, Rekeys, StillInvites, c
<1>8. CASE ToReseal(c, d)
  <2>1. \A m \in DOMAIN mailbox : Drawn(mailbox[m].plain.fileKey, fresh)
    BY LabelsRead
  <2>2. \A m \in DOMAIN mailbox : mailbox[m].plain.fileKey # d.key
    BY <1>8, <2>1 DEF ToReseal, Drawn
  <2>3. Untold(d)
    BY <1>1, <1>8 DEF ToReseal, Untold, Rekeys
  <2>4. RevokeClean(d, h, mailbox, access)
    BY <2>2, <2>3 DEF RevokeClean
  <2> QED
    BY <1>1, <1>2, <1>8, <2>4 DEF ToReseal, Holds, Invites, c
<1>9. ASSUME SameRevocation(c, d), Rekeys(c), Untold(d)
      PROVE  /\ Who(s) = Owner => Clean(d.acc, h, revoked, call)
             /\ RevokeClean(d, h, mailbox, access)
  <2>1. RevokeClean(c, h, mailbox, access)
    BY <1>4, <1>9
  <2>2. \A u : Spared(d, u) <=> Spared(c, u)
    BY <1>1, <1>9 DEF SameRevocation, Spared
  <2>3. RevokeClean(d, h, mailbox, access)
    BY <1>9, <2>1, <2>2 DEF SameRevocation, RevokeClean
  <2> QED
    BY <1>2, <1>9, <2>3 DEF SameRevocation, Rekeys, Holds
<1>10. CASE Resealed(c, d) \/ ToChild(c, d) \/ NextChild(c, d)
  <2>1. SameRevocation(c, d) /\ Rekeys(c) /\ Untold(d) /\ ~Invites(c)
    BY <1>1, <1>10 DEF Resealed, ToChild, NextChild, SameRevocation, Rekeys, Untold, Invites
  <2> QED
    BY <1>9, <2>1 DEF c
<1>11. CASE ToRevoked(sessions[s], c, d)
  <2>1. d.todo = <<SetAccess(sessions[s], c.f, WithoutChild(c.acc, c.arg, c.box)),
                   SetUser(sessions[s], c.f)>>
    BY <1>11 DEF ToRevoked
  <2>2. DOMAIN d.todo = {1, 2} /\ d.todo[1].kind = "access"
    BY <2>1, TwoWrites, SetKinds
  <2>3. SameRevocation(c, d) /\ Rekeys(c) /\ ~Invites(c) /\ Rekeys(d)
    BY <1>1, <1>11 DEF ToRevoked, SameRevocation, Rekeys, Invites
  <2>4. Untold(d)
    BY <2>2, <2>3 DEF Untold, Queues
  <2> QED
    BY <1>9, <2>3, <2>4 DEF c
<1> QED
  BY <1>3, <1>5, <1>6, <1>7, <1>8, <1>10, <1>11 DEF MovesTo, c

(* A write of session s gives nobody access but the pair that a finished   *)
(* RevokeAccess has taken it from.                                         *)
Gains(s, c, u, i) == /\ call'[s] = Absent /\ c.op = "RevokeAccess"
                     /\ u = c.arg /\ i = c.node.inode

LEMMA CutsWritten ==
    ASSUME CTypeOK, NEW s \in Sessions, NEW c, NEW d, NEW w, WritesNext(s, c, d, w)
    PROVE  /\ \A u, i : Cut(u, i, revoked', call') =>
                  Cut(u, i, revoked, call) \/ Gains(s, c, u, i)
           /\ call'[s] = Absent /\ c.op = "CreateInvitation" =>
                  ~Cut(c.arg, c.node.inode, revoked', call')
<1>1. /\ InCall(s) /\ c = call[s] /\ WroteFirst(c, d, w)
      /\ call \in [Sessions -> Calls \cup {Absent}]
  BY DEF WritesNext, CTypeOK, CallsFit
<1>2. d \in Calls /\ d # Absent /\ d.at = c.at /\ d.op = c.op /\ d.arg = c.arg /\ d.node = c.node
  BY <1>1, NoCallAssumption DEF WroteFirst, WroteAll, Wrote
<1>3. CASE call' = [call EXCEPT ![s] = d] /\ revoked' = revoked
  <2>1. call'[s] # Absent
    BY <1>1, <1>2, <1>3
  <2>2. Invites(c) => StillInvites(c, d)
    BY <1>2 DEF Invites, StillInvites
  <2>3. \A u, i : Cut(u, i, revoked, call') => Cut(u, i, revoked, call)
    BY <1>1, <1>3, <2>2, CutsStay
  <2> QED
    BY <1>3, <2>1, <2>3
<1>4. CASE call' = [call EXCEPT ![s] = Absent] /\ revoked' = RevokedAfter(c)
  <2>1. call'[s] = Absent
    BY <1>1, <1>4
  <2>2. CASE c.op # "CreateInvitation"
    <3>1. \A u, i : Cut(u, i, revoked, call') => Cut(u, i, revoked, call)
      BY <1>1, <1>4, <2>2, CutsStay DEF Invites
    <3>2. ASSUME NEW u, NEW i, <<u, i>> \in revoked'
          PROVE  <<u, i>> \in revoked \/ Gains(s, c, u, i)
      <4>1. CASE c.op = "RevokeAccess"
        <5>1. revoked' = revoked \cup {<<c.arg, c.node.inode>>}
          BY <1>4, <4>1 DEF RevokedAfter
        <5> QED
          BY <2>1, <3>2, <4>1, <5>1 DEF Gains
      <4>2. CASE c.op # "RevokeAccess"
        BY <1>4, <2>2, <3>2, <4>2 DEF RevokedAfter
      <4> QED
        BY <4>1, <4>2
    <3>3. ASSUME NEW u, NEW i, Cut(u, i, revoked', call'), <<u, i>> \in revoked
          PROVE  Cut(u, i, revoked, call')
      BY <3>3 DEF Cut
    <3>4. \A u, i : Cut(u, i, revoked', call') => <<u, i>> \in revoked'
      BY DEF Cut
    <3> QED
      BY <2>2, <3>1, <3>2, <3>3, <3>4
  <2>3. CASE c.op = "CreateInvitation"
    <3>1. revoked' = revoked \ {<<c.arg, c.node.inode>>}
      BY <1>4, <2>3 DEF RevokedAfter
    <3>2. ~Cut(c.arg, c.node.inode, revoked', call')
      BY <3>1 DEF Cut
    <3>3. ASSUME NEW u, NEW i, Cut(u, i, revoked', call')
          PROVE  Cut(u, i, revoked, call)
      <4>1. /\ <<u, i>> \in revoked /\ <<u, i>> # <<c.arg, c.node.inode>>
            /\ u # Owner /\ u \in Range(Circle) /\ ~Inviting(u, i, call')
        BY <3>1, <3>3 DEF Cut
      <4>2. ASSUME NEW t \in Sessions, call[t] # Absent, Invites(call[t]), call[t].arg = u,
                   call[t].node.inode = i
            PROVE  FALSE
        <5>1. CASE t = s
          BY <1>1, <4>1, <4>2, <5>1
        <5>2. CASE t # s
          <6>1. call'[t] = call[t]
            BY <1>1, <1>4, <5>2
          <6> QED
            BY <4>1, <4>2, <6>1 DEF Inviting
        <5> QED
          BY <5>1, <5>2
      <4> QED
        BY <4>1, <4>2 DEF Cut, Inviting
    <3> QED
      BY <3>2, <3>3
  <2> QED
    BY <2>2, <2>3
<1> QED
  BY <1>3, <1>4 DEF WritesNext

(* A RevokeAccess that has its new key. *)
RevokeFits(c, h) ==
    /\ c.op = "RevokeAccess" /\ c.acc \in Access /\ c.box \in Pointer /\ c.arg \in Users
    /\ c.f \in Filenames
    /\ h.to[c.acc.box.uuid] = c.node.inode /\ h.to[c.box.uuid] = c.node.inode
    /\ h.of[c.box.uuid] = Owner
    /\ \A v \in Users : c.acc.children[v] # Absent =>
           /\ h.of[c.acc.children[v].uuid] = v
           /\ h.to[c.acc.children[v].uuid] = c.node.inode

LEMMA RekeyFacts ==
    ASSUME CTypeOK, AInv, MInv, Orderly, NEW h, LInv(h), NEW s \in Sessions, InCall(s),
           Rekeys(call[s])
    PROVE  RevokeFits(call[s], h) /\ Who(s) = Owner /\ Holds(call[s])
<1> DEFINE c == call[s]
<1>1. c.op = "RevokeAccess" /\ Holds(c) /\ Knows(c)
  BY DEF Rekeys, Holds, Knows
<1>2. Who(s) = Owner
  BY <1>1, RevokesAlone DEF AInv
<1>3. CallMine(Owner, c) /\ CallLabelled(Owner, c, h, fresh) /\ Fits(c)
  BY <1>2, CallType DEF MInv, LInv
<1>4. c.acc \in Access /\ c.box \in Pointer /\ c.arg \in Users /\ c.f \in Filenames
  BY <1>1, <1>3 DEF CallMine, Fits, OpFits, Calls
<1>5. /\ AccessFits(c.acc, Owner, h, fresh) /\ c.node.inode = h.to[c.acc.box.uuid]
      /\ PointerFits(c.box, Owner, h, fresh) /\ h.to[c.box.uuid] = c.node.inode
  BY <1>1, <1>3 DEF CallLabelled
<1> HIDE DEF c
<1>6. \A v \in Users : c.acc.children[v] # Absent =>
          /\ h.of[c.acc.children[v].uuid] = v
          /\ h.to[c.acc.children[v].uuid] = c.node.inode
  BY <1>5 DEF AccessFits, PointerFits
<1>7. RevokeFits(c, h)
  BY <1>1, <1>4, <1>5, <1>6 DEF RevokeFits, PointerFits
<1> QED
  BY <1>1, <1>2, <1>7 DEF c

(* Whose mailbox a write is of, and what for. *)
BoxWritten(c, w, h, nodes) ==
    w.kind = "mailbox" =>
        /\ w.id \in Nat /\ h.to[w.id] = c.node.inode /\ w.record.plain.inode = h.to[w.id]
        /\ c.op \in {"StoreFile", "CreateInvitation", "RevokeAccess"}
        /\ c.op = "StoreFile" => c.node.inode \notin DOMAIN nodes /\ w.record.plain = c.node
        /\ c.op = "CreateInvitation" => /\ Invites(c) /\ h.of[w.id] = c.arg
                                        /\ h.made[w.id] = "CreateInvitation"
                                        /\ w.record.plain = c.node
        /\ c.op = "RevokeAccess" =>
               /\ Rekeys(c) /\ w.record.plain.fileKey = c.key /\ Spared(c, h.of[w.id])
               /\ h.of[w.id] = Owner => w.id = c.box.uuid \/ c.acc.children[Owner] # Absent

LEMMA WritesBox ==
    ASSUME CTypeOK, AInv, MInv, Orderly, NEW s \in Sessions, NEW c, NEW d, NEW w,
           Written(s, c, d, w), NEW h, LInv(h)
    PROVE  BoxWritten(c, w, h, inode)
<1> SUFFICES ASSUME w.kind = "mailbox" PROVE BoxWritten(c, w, h, inode)
  BY DEF BoxWritten
<1>1. /\ InCall(s) /\ c = call[s] /\ WriteMine(Who(s), c, w) /\ WroteFirst(c, d, w) /\ Fits(c)
      /\ CallMine(Who(s), c) /\ 1 \in DOMAIN c.todo /\ w = c.todo[1] /\ c.todo \in Seq(Writes)
  BY DEF Written, WroteFirst
<1>2. CallLabelled(Who(s), c, h, fresh)
  BY <1>1 DEF LInv
<1>3. WriteFits(Who(s), c, w, h, fresh)
  BY <1>1, <1>2, LabelledNext
<1>4. /\ w.id \in Nat /\ w.record.plain.inode = h.to[w.id]
      /\ c.op \in {"StoreFile", "CreateInvitation", "RevokeAccess"}
  BY <1>1, <1>3 DEF WriteFits, MailboxFits, Drawn, WriteMine
<1>5. CASE c.op = "StoreFile"
  <2>1. w.record.plain = c.node
    BY <1>1, <1>5 DEF WriteMine
  <2>2. \A n \in DOMAIN c.todo : /\ c.todo[n].kind = "inode" <=> n = Len(c.todo) - 1
                                 /\ c.todo[n].kind = "account" <=> n = Len(c.todo)
    BY <1>1, <1>5 DEF CallMine, InOrder
  <2>3. Len(c.todo) \in Nat /\ DOMAIN c.todo = 1..Len(c.todo) /\ 1 # Len(c.todo)
    BY <1>1, <2>2
  <2> DEFINE len == Len(c.todo)
  <2>4. len - 1 \in DOMAIN c.todo
    <3>1. len \in Nat /\ 1 \in 1..len /\ 1 # len /\ DOMAIN c.todo = 1..len
      BY <1>1, <2>3
    <3> HIDE DEF len
    <3> QED
      BY <3>1
  <2>5. StoresInode(c, inode)
    BY <1>1 DEF AInv, OwnInodes
  <2>6. c.node.inode \notin DOMAIN inode
    BY <1>5, <2>2, <2>4, <2>5 DEF StoresInode
  <2> QED
    BY <1>4, <1>5, <2>1, <2>6 DEF BoxWritten
<1>6. CASE c.op = "CreateInvitation"
  <2>1. c.at = "recipient" /\ w.id = c.box.uuid /\ w.record.plain = c.node
    BY <1>1, <1>6 DEF WriteMine
  <2>2. Invites(c)
    BY <1>6, <2>1 DEF Invites
  <2>3. /\ PointerFits(c.box, c.arg, h, fresh) /\ h.to[c.box.uuid] = c.node.inode
        /\ h.made[c.box.uuid] = "CreateInvitation"
    BY <1>2, <2>2 DEF CallLabelled
  <2> QED
    BY <1>4, <1>6, <2>1, <2>2, <2>3 DEF BoxWritten, PointerFits
<1>7. CASE c.op = "RevokeAccess"
  <2>1. /\ c.at = "child" /\ w.record.plain.fileKey = c.key
        /\ \/ w.id = c.box.uuid
           \/ \E v \in Users \ {c.arg} : /\ c.acc.children[v] # Absent
                                         /\ w.id = c.acc.children[v].uuid
    BY <1>1, <1>7 DEF WriteMine
  <2>2. Rekeys(c)
    BY <1>7, <2>1 DEF Rekeys
  <2>3. RevokeFits(c, h)
    <3>1. Rekeys(call[s])
      BY <1>1, <2>2
    <3>2. RevokeFits(call[s], h)
      BY <1>1, <3>1, RekeyFacts
    <3> QED
      BY <1>1, <3>2
  <2>4. CASE w.id = c.box.uuid
    BY <1>4, <1>7, <2>1, <2>2, <2>3, <2>4 DEF RevokeFits, BoxWritten, Spared
  <2>5. CASE w.id # c.box.uuid
    <3>1. PICK v \in Users \ {c.arg} : /\ c.acc.children[v] # Absent
                                       /\ w.id = c.acc.children[v].uuid
      BY <2>1, <2>5
    <3>2. h.of[w.id] = v /\ h.to[w.id] = c.node.inode
      BY <2>3, <3>1 DEF RevokeFits
    <3>3. Spared(c, v) /\ (v = Owner => c.acc.children[Owner] # Absent)
      BY <3>1 DEF Spared
    <3> QED
      BY <1>4, <1>7, <2>1, <2>2, <3>2, <3>3 DEF BoxWritten
  <2> QED
    BY <2>4, <2>5
<1> QED
  BY <1>4, <1>5, <1>6, <1>7

(* The state and the write that the next lemmas are about. *)
CutWrite(s, c, d, w, h) ==
    /\ CTypeOK /\ AInv /\ MInv /\ Orderly /\ KeysHeld
    /\ WritesNext(s, c, d, w) /\ Written(s, c, d, w)
    /\ h \in Labels /\ LInv(h) /\ AtHome(h) /\ CutInv(h)

(* c is a RevokeAccess whose last write is due: its key is the inode's.    *)
LEMMA RevokeReturns ==
    ASSUME NEW s \in Sessions, NEW c, NEW d, NEW w, NEW h, CutWrite(s, c, d, w, h),
           NEW u, NEW i, Gains(s, c, u, i)
    PROVE  /\ Rekeys(c) /\ InCall(s) /\ c = call[s] /\ Len(c.todo) = 1 /\ w.kind \notin {"inode", "mailbox"}
           /\ i \in DOMAIN inode /\ inode[i].key = getFileKeys(c.key)
<1>1. /\ InCall(s) /\ c = call[s] /\ WroteFirst(c, d, w) /\ CallMine(Who(s), c)
      /\ WriteMine(Who(s), c, w) /\ c.op = "RevokeAccess" /\ i = c.node.inode
  BY DEF CutWrite, Written, Gains
<1>2. d # Absent /\ call \in [Sessions -> Calls \cup {Absent}]
  BY <1>1, NoCallAssumption DEF WroteFirst, CutWrite, CTypeOK, CallsFit
<1>3. Len(c.todo) = 1 /\ c.at = "return"
  BY <1>2 DEF CutWrite, WritesNext, Gains
<1>4. Rekeys(c) /\ NodeKeyed(c, inode)
  BY <1>1, <1>3 DEF Rekeys, CutWrite, KeysHeld
<1>5. \A n \in DOMAIN c.todo : c.todo[n].kind # "inode"
  BY <1>1, <1>3 DEF CallMine, WriteMine
<1>6. ~Unkeyed(c)
  BY <1>3, <1>5 DEF Unkeyed, Queues
<1>7. w.kind \notin {"inode", "mailbox"}
  BY <1>1, <1>3 DEF WriteMine
<1> QED
  BY <1>1, <1>3, <1>4, <1>6, <1>7 DEF NodeKeyed

LEMMA BoxesCut ==
    ASSUME NEW s \in Sessions, NEW c, NEW d, NEW w, NEW h, CutWrite(s, c, d, w, h),
           NEW m \in DOMAIN mailbox', Cut(h.of[m], h.to[m], revoked', call')
    PROVE  ~LiveIn(mailbox', inode', m)
<1> DEFINE i == h.to[m]
           u == h.of[m]
<1>1. /\ InCall(s) /\ c = call[s] /\ Write(w)
  BY DEF CutWrite, Written
<1>2. CTypeOK /\ AInv /\ MInv /\ Orderly /\ KeysHeld /\ LInv(h) /\ CutInv(h)
      /\ Written(s, c, d, w) /\ WritesNext(s, c, d, w)
  BY DEF CutWrite
<1>3. Added(mailbox, mailbox', w.kind = "mailbox", w.id, w.record)
  BY <1>1, <1>2, WriteAdds
<1>4. InodeWritten(c, w, inode, inode') /\ BoxWritten(c, w, h, inode)
  BY <1>2, WritesInode, WritesBox
<1>5. u # Owner /\ u \in Range(Circle)
  BY DEF Cut
<1>6. CASE Gains(s, c, u, i)
  <2>1. /\ Rekeys(c) /\ w.kind \notin {"inode", "mailbox"}
        /\ inode[i].key = getFileKeys(c.key) /\ u = c.arg /\ i = c.node.inode
    BY <1>6, RevokeReturns DEF Gains
  <2>2. mailbox' = mailbox /\ inode' = inode
    BY <1>1, <2>1 DEF Write
  <2>3. RevokeClean(c, h, mailbox, access)
    BY <1>1, <1>2, <2>1 DEF CutInv
  <2>4. mailbox[m].plain.fileKey # c.key
    BY <1>5, <2>1, <2>2, <2>3 DEF RevokeClean, Spared
  <2>5. mailbox[m].plain.inode = i
    BY <1>2, <2>2 DEF LInv, MailboxFits
  <2> QED
    BY <2>1, <2>2, <2>4, <2>5 DEF LiveIn, getFileKeys
<1>7. CASE ~Gains(s, c, u, i)
  <2>1. Cut(u, i, revoked, call)
    BY <1>2, <1>7, CutsWritten
  <2>2. <<u, i>> \in revoked /\ ~Inviting(u, i, call)
    BY <2>1 DEF Cut
  <2>3. i \in DOMAIN inode
    BY <1>2, <2>2 DEF CutInv
  <2>4. ASSUME Rekeys(c), c.node.inode = i PROVE ~Spared(c, u)
    <3>1. RevokeFits(c, h) /\ Who(s) = Owner /\ Holds(c) /\ c.op = "RevokeAccess"
      BY <1>1, <1>2, <2>4, RekeyFacts DEF Rekeys
    <3>2. Clean(c.acc, h, revoked, call)
      BY <1>1, <1>2, <3>1 DEF CutInv
    <3>3. u \in Users
      BY <1>5, PositionType
    <3>4. c.acc.children[u] = Absent
      BY <2>1, <2>4, <3>1, <3>2, <3>3 DEF Clean, RevokeFits
    <3> QED
      BY <1>5, <3>4 DEF Spared
  <2>5. CASE m \in DOMAIN mailbox /\ mailbox'[m] = mailbox[m]
    <3>1. mailbox[m].plain.inode = i /\ ~LiveIn(mailbox, inode, m)
      BY <1>2, <2>1, <2>5 DEF CutInv, LInv, MailboxFits
    <3>2. inode[i].key # getFileKeys(mailbox[m].plain.fileKey)
      BY <2>3, <3>1 DEF LiveIn
    <3>3. CASE inode'[i].key = inode[i].key
      BY <2>5, <3>1, <3>2, <3>3 DEF LiveIn
    <3>4. CASE inode'[i].key # inode[i].key
      <4>1. /\ w.kind = "inode" /\ c.op = "RevokeAccess" /\ c.node.inode = i
            /\ inode'[i].key = getFileKeys(c.key) /\ c.at = "child"
        BY <1>4, <2>3, <3>4 DEF InodeWritten
      <4>2. Rekeys(c)
        BY <4>1 DEF Rekeys
      <4>3. RevokeClean(c, h, mailbox, access)
        BY <1>1, <1>2, <4>2 DEF CutInv
      <4>4. mailbox[m].plain.fileKey # c.key
        BY <2>4, <2>5, <4>1, <4>2, <4>3 DEF RevokeClean
      <4> QED
        BY <2>5, <3>1, <4>1, <4>4 DEF LiveIn, getFileKeys
    <3> QED
      BY <3>3, <3>4
  <2>6. CASE w.kind = "mailbox" /\ m = w.id
    <3>1. c.node.inode = i /\ c.op \in {"StoreFile", "CreateInvitation", "RevokeAccess"}
      BY <1>4, <2>6 DEF BoxWritten
    <3>2. c.op # "StoreFile"
      BY <1>4, <2>3, <2>6, <3>1 DEF BoxWritten
    <3>3. c.op # "CreateInvitation"
      BY <1>1, <1>4, <2>2, <2>6, <3>1 DEF BoxWritten, Inviting, InCall
    <3>4. c.op # "RevokeAccess"
      BY <1>4, <2>4, <2>6, <3>1 DEF BoxWritten
    <3> QED
      BY <3>1, <3>2, <3>3, <3>4
  <2> QED
    BY <1>3, <2>5, <2>6 DEF Added
<1> QED
  BY <1>6, <1>7

LEMMA NoChildrenOut ==
    \A u \in Users : NoChildren[u] = Absent
BY DEF NoChildren

LEMMA RecordsCut ==
    ASSUME NEW s \in Sessions, NEW c, NEW d, NEW w, NEW h, CutWrite(s, c, d, w, h),
           NEW f \in Filenames, access'[<<Owner, f>>] # Absent
    PROVE  Clean(access'[<<Owner, f>>].plain, h, revoked', call')
<1> DEFINE x == <<Owner, f>>
<1>1. /\ InCall(s) /\ c = call[s] /\ Fits(c) /\ CallMine(Who(s), c) /\ WriteMine(Who(s), c, w)
      /\ x \in Slots
      /\ \/ access'[x] = access[x]
         \/ w.kind = "access" /\ x = w.id /\ access'[x] = w.record
  BY OwnerIs DEF CutWrite, Written, Slots
<1>2. CTypeOK /\ AInv /\ MInv /\ Orderly /\ KeysHeld /\ LInv(h) /\ CutInv(h) /\ AtHome(h)
      /\ Written(s, c, d, w) /\ WritesNext(s, c, d, w)
  BY DEF CutWrite
<1>3. SUFFICES ASSUME NEW u \in Users, Cut(u, h.to[access'[x].plain.box.uuid], revoked', call')
               PROVE  access'[x].plain.children[u] = Absent
  BY DEF Clean
<1> DEFINE i == h.to[access'[x].plain.box.uuid]
<1>4. CASE ~(w.kind = "access" /\ x = w.id)
  <2>1. access'[x] = access[x]
    BY <1>1, <1>4
  <2>2. CASE Cut(u, i, revoked, call)
    <3>1. Clean(access[x].plain, h, revoked, call)
      BY <1>2, <2>1 DEF CutInv
    <3> QED
      BY <2>1, <2>2, <3>1 DEF Clean
  <2>3. CASE Gains(s, c, u, i)
    <3>1. Rekeys(c) /\ Len(c.todo) = 1 /\ u = c.arg /\ i = c.node.inode
      BY <2>3, RevokeReturns DEF Gains
    <3>2. RevokeFits(c, h) /\ Who(s) = Owner /\ Holds(c)
      BY <1>1, <1>2, <3>1, RekeyFacts
    <3>3. Homely(c.acc, c.f, h) /\ Homely(access[x].plain, f, h)
      BY <1>1, <1>2, <2>1, <3>2 DEF AtHome
    <3>4. f = c.f
      BY <2>1, <3>1, <3>2, <3>3 DEF Homely, RevokeFits
    <3>5. w.kind = "access" => w.id = x
      BY <1>1, <3>2, <3>4 DEF WriteMine
    <3>6. ~Queues(c, "access")
      BY <1>2, <1>4, <3>1, <3>5 DEF Queues, Written, WroteFirst
    <3>7. c.at = "return"
      BY <1>1, <1>2, <2>3, NoCallAssumption DEF WritesNext, Gains, WroteFirst, CTypeOK, CallsFit
    <3>8. ~Untold(c)
      BY <3>6, <3>7 DEF Untold
    <3>9. RevokeClean(c, h, mailbox, access)
      BY <1>1, <1>2, <3>1 DEF CutInv
    <3> QED
      BY <2>1, <3>1, <3>4, <3>8, <3>9 DEF RevokeClean
  <2> QED
    BY <1>2, <1>3, <2>2, <2>3, CutsWritten
<1>5. CASE w.kind = "access" /\ x = w.id
  <2>1. access'[x] = w.record
    BY <1>2, <1>5 DEF Written
  <2>2. Who(s) = Owner
    BY <1>1, <1>5 DEF WriteMine
  <2>3. c.op \in {"StoreFile", "CreateInvitation", "RevokeAccess"} /\ c.at = "return"
    BY <1>1, <1>2, <1>5, <2>2, OwnerWrites DEF WriteMine
  <2>4. CASE c.op = "StoreFile"
    <3>1. w.record.plain.children = NoChildren
      BY <1>1, <1>5, <2>4 DEF WriteMine
    <3> QED
      BY <2>1, <3>1, NoChildrenOut
  <2>5. CASE c.op = "CreateInvitation"
    <3>1. /\ Invites(c) /\ Holds(c) /\ Knows(c)
      BY <2>3, <2>5 DEF Invites, Holds, Knows
    <3>2. c.acc \in Access /\ c.box \in Pointer /\ c.arg \in Users
      BY <1>1, <2>5, <3>1 DEF CallMine, Fits, OpFits
    <3>3. w.record.plain = WithChild(c.acc, c.arg, c.box)
      BY <1>1, <1>5, <2>5 DEF WriteMine
    <3>4. /\ w.record.plain.box = c.acc.box
          /\ w.record.plain.children[u] = IF u = c.arg THEN c.box ELSE c.acc.children[u]
      BY <3>2, <3>3, WithChildType
    <3>5. c.node.inode = h.to[c.acc.box.uuid]
      BY <1>1, <1>2, <3>1 DEF LInv, CallLabelled
    <3>6. Clean(c.acc, h, revoked, call)
      BY <1>1, <1>2, <2>2, <2>5, <3>1 DEF CutInv
    <3>7. i = c.node.inode
      BY <2>1, <3>4, <3>5
    <3>8. CASE u = c.arg
      <4>1. Len(c.todo) = 1
        BY <1>1, <1>2, <1>5, <2>3, <2>5 DEF CallMine, InOrder, Written, WroteFirst
      <4>2. call'[s] = Absent
        BY <1>2, <2>3, <4>1 DEF WritesNext, CTypeOK, CallsFit
      <4> QED
        BY <1>2, <1>3, <2>5, <3>7, <3>8, <4>2, CutsWritten
    <3>9. CASE u # c.arg
      <4>1. Cut(u, i, revoked, call)
        BY <1>2, <1>3, <2>5, CutsWritten DEF Gains
      <4> QED
        BY <2>1, <3>4, <3>6, <3>9, <4>1 DEF Clean
    <3> QED
      BY <3>8, <3>9
  <2>6. CASE c.op = "RevokeAccess"
    <3>1. Rekeys(c)
      BY <2>3, <2>6 DEF Rekeys
    <3>2. RevokeFits(c, h) /\ Who(s) = Owner /\ Holds(c)
      BY <1>1, <1>2, <3>1, RekeyFacts
    <3>3. w.record.plain = WithoutChild(c.acc, c.arg, c.box)
      BY <1>1, <1>5, <2>6 DEF WriteMine
    <3>4. /\ w.record.plain.box = c.box
          /\ w.record.plain.children[u] = IF u = c.arg THEN Absent ELSE c.acc.children[u]
      BY <3>2, <3>3, WithoutChildType DEF RevokeFits
    <3>5. Clean(c.acc, h, revoked, call) /\ i = h.to[c.acc.box.uuid]
      BY <1>1, <1>2, <2>1, <2>2, <2>6, <3>2, <3>4 DEF CutInv, RevokeFits
    <3>6. CASE u # c.arg
      <4>1. Cut(u, i, revoked, call)
        BY <1>2, <1>3, <3>6, CutsWritten DEF Gains
      <4> QED
        BY <2>1, <3>4, <3>5, <3>6, <4>1 DEF Clean
    <3> QED
      BY <2>1, <3>4, <3>6
  <2> QED
    BY <2>3, <2>4, <2>5, <2>6
<1> QED
  BY <1>4, <1>5

LEMMA CallsCut ==
    ASSUME NEW s \in Sessions, NEW c, NEW d, NEW w, NEW h, CutWrite(s, c, d, w, h),
           NEW t \in Sessions, call'[t] # Absent, sessions'[t].name = Owner, Holds(call'[t]),
           call'[t].op \in {"CreateInvitation", "RevokeAccess"}
    PROVE  Clean(call'[t].acc, h, revoked', call')
<1>1. /\ InCall(s) /\ c = call[s] /\ WroteFirst(c, d, w) /\ sessions'[s].name = Who(s)
      /\ \A x \in Sessions : x # s => sessions'[x] = sessions[x] /\ call'[x] = call[x]
      /\ call'[s] = Absent \/ call'[s] = d
  BY DEF CutWrite, Written
<1>2. CTypeOK /\ AInv /\ MInv /\ Orderly /\ CutInv(h) /\ WritesNext(s, c, d, w)
  BY DEF CutWrite
<1>3. d.acc = c.acc /\ d.op = c.op /\ d.at = c.at
  BY <1>1 DEF WroteFirst, WroteAll, Wrote
<1>4. /\ InCall(t) /\ Who(t) = Owner /\ Holds(call[t]) /\ call'[t].acc = call[t].acc
      /\ call[t].op \in {"CreateInvitation", "RevokeAccess"}
  BY <1>1, <1>3 DEF Holds, InCall, Who
<1>5. ASSUME NEW u, NEW i PROVE ~Gains(s, c, u, i)
  <2>1. SUFFICES ASSUME call'[s] = Absent, c.op = "RevokeAccess" PROVE FALSE
    BY DEF Gains
  <2>2. t # s
    BY <2>1
  <2> QED
    BY <1>1, <1>2, <1>4, <2>1, <2>2, RevokesAlone DEF AInv
<1>6. \A u, i : Cut(u, i, revoked', call') => Cut(u, i, revoked, call)
  BY <1>2, <1>5, CutsWritten
<1>7. Clean(call[t].acc, h, revoked, call)
  BY <1>2, <1>4 DEF CutInv
<1> QED
  BY <1>4, <1>6, <1>7, CleanStays

LEMMA RevokesCut ==
    ASSUME NEW s \in Sessions, NEW c, NEW d, NEW w, NEW h, CutWrite(s, c, d, w, h),
           NEW t \in Sessions, call'[t] # Absent, Rekeys(call'[t])
    PROVE  RevokeClean(call'[t], h, mailbox', access')
<1>1. /\ InCall(s) /\ c = call[s] /\ WroteFirst(c, d, w) /\ Write(w) /\ WriteMine(Who(s), c, w)
      /\ \A x \in Sessions : x # s => sessions'[x] = sessions[x] /\ call'[x] = call[x]
      /\ call'[s] = Absent \/ call'[s] = d
      /\ \A x \in Slots : \/ access'[x] = access[x]
                          \/ w.kind = "access" /\ x = w.id /\ access'[x] = w.record
  BY DEF CutWrite, Written
<1>2. CTypeOK /\ AInv /\ MInv /\ Orderly /\ KeysHeld /\ LInv(h) /\ CutInv(h) /\ AtHome(h)
      /\ Written(s, c, d, w)
  BY DEF CutWrite
<1>3. Added(mailbox, mailbox', w.kind = "mailbox", w.id, w.record)
  BY <1>1, <1>2, WriteAdds
<1>4. BoxWritten(c, w, h, inode)
  BY <1>2, WritesBox
<1>5. /\ d.acc = c.acc /\ d.op = c.op /\ d.at = c.at /\ d.arg = c.arg /\ d.f = c.f
      /\ d.node = c.node /\ d.key = c.key /\ Wrote(c, d) /\ c.todo \in Seq(Writes)
      /\ w = c.todo[1]
  BY <1>1 DEF WroteFirst, WroteAll, Wrote, SameCall
<1>6. /\ InCall(t) /\ Rekeys(call[t]) /\ call'[t].acc = call[t].acc /\ call'[t].arg = call[t].arg
      /\ call'[t].node = call[t].node /\ call'[t].key = call[t].key /\ call'[t].f = call[t].f
      /\ call'[t].at = call[t].at
  BY <1>1, <1>5 DEF Rekeys, InCall
<1>7. RevokeFits(call[t], h) /\ Who(t) = Owner /\ call[t].node.inode \in DOMAIN inode
  BY <1>2, <1>6, RekeyFacts DEF KeysHeld, NodeKeyed
<1>8. RevokeClean(call[t], h, mailbox, access)
  BY <1>2, <1>6 DEF CutInv
<1>9. \A u : Spared(call'[t], u) <=> Spared(call[t], u)
  BY <1>6 DEF Spared
<1>10. t # s => c.op \notin {"RevokeAccess", "AppendToFile", "CreateInvitation"}
  <2>1. call[t].op = "RevokeAccess"
    BY <1>6 DEF Rekeys
  <2> QED
    BY <1>1, <1>2, <1>6, <2>1, RevokesAlone DEF AInv
<1>11. ASSUME NEW m \in DOMAIN mailbox', h.to[m] = call[t].node.inode,
              mailbox'[m].plain.fileKey = call[t].key
       PROVE  Spared(call[t], h.of[m])
  <2>1. CASE m \in DOMAIN mailbox /\ mailbox'[m] = mailbox[m]
    BY <1>8, <1>11, <2>1 DEF RevokeClean
  <2>2. CASE w.kind = "mailbox" /\ m = w.id
    <3>1. c.op # "StoreFile"
      BY <1>4, <1>7, <1>11, <2>2 DEF BoxWritten
    <3>2. t = s
      BY <1>4, <1>10, <2>2, <3>1 DEF BoxWritten
    <3> QED
      BY <1>1, <1>4, <1>6, <2>2, <3>2 DEF BoxWritten, Rekeys
  <2> QED
    BY <1>3, <2>1, <2>2 DEF Added
<1>12. ASSUME ~Untold(call'[t]), access'[<<Owner, call[t].f>>] # Absent
       PROVE  access'[<<Owner, call[t].f>>].plain.children[call[t].arg] = Absent
  <2> DEFINE x == <<Owner, call[t].f>>
  <2>1. x \in Slots /\ call[t].arg \in Users
    BY <1>7, OwnerIs DEF RevokeFits, Slots
  <2>2. CASE w.kind = "access" /\ x = w.id
    <3>1. access'[x] = w.record
      BY <1>2, <2>2 DEF Written
    <3>2. Who(s) = Owner
      BY <1>1, <2>2 DEF WriteMine
    <3>3. c.op \in {"StoreFile", "CreateInvitation", "RevokeAccess"}
      BY <1>2, <2>2, <3>2, OwnerWrites
    <3>4. CASE c.op = "StoreFile"
      <4>1. w.record.plain.children = NoChildren
        BY <1>1, <2>2, <3>4 DEF WriteMine
      <4> QED
        BY <2>1, <3>1, <4>1, NoChildrenOut
    <3>5. CASE t = s
      <4>1. w.record.plain = WithoutChild(c.acc, c.arg, c.box)
        BY <1>1, <1>6, <2>2, <3>5 DEF WriteMine, Rekeys
      <4>2. RevokeFits(c, h)
        BY <1>1, <1>7, <3>5
      <4>3. w.record.plain.children[c.arg] = Absent
        BY <4>1, <4>2, WithoutChildType DEF RevokeFits
      <4> QED
        BY <1>1, <3>1, <3>5, <4>3
    <3> QED
      BY <1>10, <3>3, <3>4, <3>5
  <2>3. CASE ~(w.kind = "access" /\ x = w.id)
    <3>1. access'[x] = access[x]
      BY <1>1, <2>1, <2>3
    <3>2. CASE t # s
      <4>1. call'[t] = call[t]
        BY <1>1, <3>2
      <4> QED
        BY <1>8, <1>12, <3>1, <4>1 DEF RevokeClean
    <3>3. CASE t = s
      <4>1. call'[t] = d /\ Rekeys(d) /\ d.at = "return" /\ ~Queues(d, "access")
        BY <1>1, <1>6, <1>12, <3>3 DEF Untold
      <4>2. w.kind # "access"
        BY <1>1, <1>7, <2>3, <3>3 DEF WriteMine
      <4>3. \A n \in DOMAIN c.todo : n # 1 => n - 1 \in DOMAIN d.todo /\ d.todo[n - 1] = c.todo[n]
        BY <1>5, QueueMoves
      <4>4. ~Queues(c, "access")
        BY <1>5, <4>1, <4>2, <4>3 DEF Queues
      <4>5. ~Untold(c)
        BY <1>5, <4>1, <4>4 DEF Untold
      <4> QED
        BY <1>1, <1>8, <1>12, <3>1, <3>3, <4>5 DEF RevokeClean
    <3> QED
      BY <3>2, <3>3
  <2> QED
    BY <2>2, <2>3
<1> QED
  BY <1>6, <1>9, <1>11, <1>12 DEF RevokeClean

LEMMA CutWritten ==
    ASSUME NEW s \in Sessions, NEW c, NEW d, NEW w, NEW h, CutWrite(s, c, d, w, h)
    PROVE  CutInv(h)'
<1>1. ASSUME NEW x \in revoked' PROVE x[2] \in DOMAIN inode'
  <2>1. InodeWritten(c, w, inode, inode') /\ CTypeOK /\ CutInv(h) /\ WritesNext(s, c, d, w)
    BY WritesInode DEF CutWrite
  <2>2. CASE x \in revoked
    BY <2>1, <2>2 DEF CutInv, InodeWritten
  <2>3. CASE x \notin revoked
    <3>1. c.op = "RevokeAccess" /\ x = <<c.arg, c.node.inode>> /\ c.at = "return"
      BY <1>1, <2>1, <2>3 DEF WritesNext, RevokedAfter
    <3>2. c = call[s] /\ InCall(s) /\ Rekeys(c)
      BY <2>1, <3>1 DEF WritesNext, Rekeys
    <3>3. c.node.inode \in DOMAIN inode
      BY <3>2 DEF CutWrite, KeysHeld, NodeKeyed
    <3> QED
      BY <2>1, <3>1, <3>3 DEF InodeWritten
  <2> QED
    BY <2>2, <2>3
<1>2. \A m \in DOMAIN mailbox' :
          Cut(h.of[m], h.to[m], revoked', call') => ~LiveIn(mailbox', inode', m)
  BY BoxesCut
<1>3. \A f \in Filenames : access'[<<Owner, f>>] # Absent =>
          Clean(access'[<<Owner, f>>].plain, h, revoked', call')
  BY RecordsCut
<1>4. \A t \in Sessions :
          (InCall(t) /\ Who(t) = Owner /\ Holds(call[t])
              /\ call[t].op \in {"CreateInvitation", "RevokeAccess"})' =>
          Clean(call'[t].acc, h, revoked', call')
  BY CallsCut DEF InCall, Who
<1>5. \A t \in Sessions : (InCall(t) /\ Rekeys(call[t]))' =>
          RevokeClean(call'[t], h, mailbox', access')
  BY RevokesCut DEF InCall
<1> QED
  BY <1>1, <1>2, <1>3, <1>4, <1>5 DEF CutInv

LEMMA OrderlyStep ==
    ASSUME CTypeOK, AInv, MInv, NEW s \in Sessions,
           BeginCall(s) \/ Step(s) \/ Lost(s) \/ Comes(s), Orderly',
           NEW h \in Labels, LInv(h), AtHome(h), KeysHeld
    PROVE  AtHome(h)' /\ KeysHeld'
<1>1. Orderly
  BY StepRemembers, StaysOrderly
<1>2. CASE BeginCall(s)
  <2>1. PICK d : Begins(s, d) /\ (BeginsReading(s, d) \/ BeginsStoring(s, d))
    BY <1>2, CallsBegin
  <2>2. Goes(s, d) /\ ~Holds(d)
    BY <2>1 DEF Begins, BeginsReading, BeginsStoring, Holds
  <2> QED
    BY <2>1, <2>2, HomeGoes, NodeKeysBegin, NodeKeysGo
<1>3. ASSUME Goes(s, Absent) PROVE AtHome(h)' /\ KeysHeld'
  BY <1>3, HomeGoes, NodeKeysGo
<1>4. CASE Lost(s) \/ Comes(s)
  BY <1>3, <1>4, LostGoes, ComesGoes
<1>5. CASE Reading(s)
  <2>1. InCall(s) /\ call[s].todo = <<>> /\ Moves(s)
    BY <1>5, ReadingStays, ReadingMoves
  <2>2. CASE Ends(s)
    BY <1>3, <2>2 DEF Ends
  <2>3. ASSUME NEW d \in Calls, Goes(s, d), Fits(d), SameCall(call[s], d),
               MovesTo(sessions[s], call[s], d)
        PROVE  AtHome(h)' /\ KeysHeld'
    <3>1. Who(s) = Owner /\ Holds(d) => Homely(d.acc, d.f, h)
      BY <2>1, <2>3, HomeMoves
    <3>2. NodeKeyed(call[s], inode)
      BY <2>1 DEF KeysHeld
    <3>3. NodeKeyed(d, inode)
      BY <2>1, <2>3, <3>2, NodeKeysMove
    <3> QED
      BY <2>3, <3>1, <3>3, HomeGoes, NodeKeysGo
  <2> QED
    BY <2>1, <2>2, <2>3 DEF Moves
<1>6. CASE SetNext(s)
  <2>1. PICK c, d, w : WritesNext(s, c, d, w)
    BY <1>6, SetNextWrites
  <2>2. Written(s, c, d, w)
    BY <2>1, WritesMine
  <2> QED
    BY <1>1, <2>2, HomeWritten, NodeKeysWritten
<1> QED
  BY <1>2, <1>4, <1>5, <1>6 DEF Step, Reading

LEMMA ThoroughStep ==
    ASSUME CTypeOK, AInv, MInv, NEW s \in Sessions,
           BeginCall(s) \/ Step(s) \/ Lost(s) \/ Comes(s), Thorough',
           NEW h \in Labels, LInv(h), AtHome(h), KeysHeld, CutInv(h)
    PROVE  CutInv(h)'
<1>1. Thorough /\ Orderly
  BY StepRemembers, StaysOrderly DEF Thorough
<1>2. CASE BeginCall(s)
  <2>1. PICK d : Begins(s, d) /\ (BeginsReading(s, d) \/ BeginsStoring(s, d))
    BY <1>2, CallsBegin
  <2>2. Goes(s, d) /\ ~Holds(d) /\ ~Rekeys(d) /\ revoked' = revoked /\ ~InCall(s)
    BY <2>1 DEF Begins, BeginsReading, BeginsStoring, Holds, Rekeys
  <2> QED
    BY <2>2, CutGoes
<1>3. ASSUME Goes(s, Absent), revoked' = revoked,
             InCall(s) /\ Invites(call[s]) => call[s].arg \notin Range(Circle)
      PROVE  CutInv(h)'
  BY <1>3, CutGoes
<1>4. CASE Lost(s)
  <2>1. revoked' = revoked /\ call[s].op \in died'
    BY <1>4 DEF Lost
  <2>2. ~Invites(call[s])
    BY <2>1 DEF Thorough, Invites
  <2> QED
    BY <1>3, <1>4, <2>1, <2>2, LostGoes
<1>5. CASE Comes(s)
  BY <1>3, <1>5, ComesGoes
<1>6. CASE Reading(s)
  <2>1. InCall(s) /\ call[s].todo = <<>> /\ Moves(s) /\ revoked' = revoked
    BY <1>6, ReadingStays, ReadingMoves
  <2>2. CASE Ends(s)
    <3>1. GivesUp(call[s]) /\ Goes(s, Absent)
      BY <2>2 DEF Ends
    <3>2. Invites(call[s]) => keystore[call[s].arg] = Absent /\ call[s].arg \in Users
      BY <2>1, <3>1, CallType DEF GivesUp, Invites, Fits, OpFits
    <3>3. Invites(call[s]) => call[s].arg \notin Range(Circle)
      BY <3>2, PublicApart DEF MInv
    <3> QED
      BY <1>3, <2>1, <3>1, <3>3
  <2>3. ASSUME NEW d \in Calls, Goes(s, d), Fits(d), SameCall(call[s], d),
               MovesTo(sessions[s], call[s], d)
        PROVE  CutInv(h)'
    <3>1. /\ Invites(call[s]) => StillInvites(call[s], d)
          /\ Who(s) = Owner /\ Holds(d) /\ d.op \in {"CreateInvitation", "RevokeAccess"} =>
                 Clean(d.acc, h, revoked, call)
          /\ Rekeys(d) => RevokeClean(d, h, mailbox, access)
      BY <2>1, <2>3, CutMoves
    <3> QED
      BY <2>1, <2>3, <3>1, CutGoes
  <2> QED
    BY <2>1, <2>2, <2>3 DEF Moves
<1>7. CASE SetNext(s)
  <2>1. PICK c, d, w : WritesNext(s, c, d, w)
    BY <1>7, SetNextWrites
  <2>2. Written(s, c, d, w)
    BY <2>1, WritesMine
  <2>3. CutWrite(s, c, d, w, h)
    BY <1>1, <2>1, <2>2 DEF CutWrite
  <2> QED
    BY <2>3, CutWritten
<1> QED
  BY <1>2, <1>4, <1>5, <1>6, <1>7 DEF Step, Reading

-----------------------------------------------------------------------------
(* The owner keeps reading *)

LEMMA OwnerAgree ==
    ASSUME CTypeOK, NEW g \in Labels, NEW h, Agree(g, h, fresh), LInv(g), OInv(g)
    PROVE  OInv(h)
<1>1. \A n : Drawn(n, fresh) => h.to[n] = g.to[n]
  BY DEF Agree, Drawn
<1>2. ASSUME NEW f \in Filenames, access[<<Owner, f>>] # Absent
      PROVE  h.to[access[<<Owner, f>>].plain.box.uuid] = g.to[access[<<Owner, f>>].plain.box.uuid]
  <2>1. <<Owner, f>> \in Slots
    BY OwnerIs DEF Slots
  <2>2. AccessFits(access[<<Owner, f>>].plain, <<Owner, f>>[1], g, fresh)
    BY <1>2, <2>1 DEF LInv
  <2> QED
    BY <1>1, <2>2 DEF AccessFits, PointerFits
<1>3. ASSUME NEW s \in Sessions, InCall(s)
      PROVE  CallReads(Who(s), call[s], h, mailbox, inode, block, call)
  <2>1. CallReads(Who(s), call[s], g, mailbox, inode, block, call)
    BY <1>3 DEF OInv
  <2>2. Holds(call[s]) => h.to[call[s].acc.box.uuid] = g.to[call[s].acc.box.uuid]
    BY <1>1, <1>3 DEF LInv, CallLabelled, AccessFits, PointerFits
  <2>3. InviteReads(call[s], g, mailbox, inode, call) /\ Holds(call[s]) =>
            InviteReads(call[s], h, mailbox, inode, call)
    BY <2>2 DEF InviteReads
  <2> QED
    BY <2>1, <2>3 DEF CallReads
<1>4. /\ access[OwnerSlot] # Absent
      /\ \A i \in DOMAIN inode : ~Rekeying(i, call) =>
             SealedAs(inode[i].plain.blocks, inode[i].key, block)
  BY DEF OInv
<1>5. \A f \in Filenames : access[<<Owner, f>>] # Absent =>
          LET m == access[<<Owner, f>>].plain.box.uuid
          IN  /\ There(h.to[m], inode, call)
              /\ ~Replacing(h.to[m], call) => BoxReads(m, h.to[m], mailbox, inode)
  BY <1>2 DEF OInv
<1> QED
  BY <1>3, <1>4, <1>5 DEF OInv

(* A revocation in progress goes on. *)
StillRekeys(c, d) == d # Absent /\ Rekeys(d) /\ d.node = c.node /\ (Untold(c) => Untold(d))

LEMMA RekeyingStays ==
    ASSUME NEW s \in Sessions, NEW d, NEW old, old \in [Sessions -> Calls \cup {Absent}],
           NEW new, new = [old EXCEPT ![s] = d],
           old[s] # Absent /\ Rekeys(old[s]) => StillRekeys(old[s], d)
    PROVE  \A i : /\ Rekeying(i, old) => Rekeying(i, new)
                  /\ Replacing(i, old) => Replacing(i, new)
<1> SUFFICES ASSUME NEW i
             PROVE  /\ Rekeying(i, old) => Rekeying(i, new)
                    /\ Replacing(i, old) => Replacing(i, new)
  OBVIOUS
<1>1. new[s] = d /\ \A t \in Sessions : t # s => new[t] = old[t]
  OBVIOUS
<1>2. ASSUME NEW t \in Sessions, old[t] # Absent, Rekeys(old[t]), old[t].node.inode = i
      PROVE  /\ new[t] # Absent /\ Rekeys(new[t]) /\ new[t].node.inode = i
             /\ Untold(old[t]) => Untold(new[t])
  BY <1>1, <1>2 DEF StillRekeys
<1>3. Rekeying(i, old) => Rekeying(i, new)
  BY <1>2 DEF Rekeying
<1>4. ASSUME NEW t, Untold(old[t]) PROVE Rekeys(old[t])
  BY <1>4 DEF Untold
<1>5. Replacing(i, old) => Replacing(i, new)
  BY <1>2, <1>4 DEF Replacing
<1> QED
  BY <1>3, <1>5

(* A step that writes nothing. *)
LEMMA OwnerGoes ==
    ASSUME CTypeOK, NEW s \in Sessions, NEW d, Goes(s, d), NEW h, OInv(h),
           InCall(s) => call[s].op # "StoreFile",
           InCall(s) /\ Rekeys(call[s]) => StillRekeys(call[s], d),
           d # Absent => CallReads(Who(s), d, h, mailbox, inode, block, call)
    PROVE  OInv(h)'
<1>1. /\ mailbox' = mailbox /\ access' = access /\ inode' = inode /\ block' = block
      /\ call' = [call EXCEPT ![s] = d] /\ call \in [Sessions -> Calls \cup {Absent}]
      /\ \A t \in Sessions : t # s => sessions'[t] = sessions[t]
      /\ d # Absent => sessions' = sessions
  BY DEF Goes, datastore, CTypeOK, CallsFit
<1>2. \A i : (Rekeying(i, call) => Rekeying(i, call')) /\ (Replacing(i, call) => Replacing(i, call'))
  BY <1>1, RekeyingStays DEF InCall
<1>3. ASSUME NEW i, There(i, inode, call) PROVE There(i, inode, call')
  BY <1>1, <1>3, ThereStays DEF InCall
<1>4. ASSUME NEW u, NEW c, CallReads(u, c, h, mailbox, inode, block, call)
      PROVE  CallReads(u, c, h, mailbox, inode, block, call')
  BY <1>3, <1>4 DEF CallReads, InviteReads
<1>5. ASSUME NEW t \in Sessions, call'[t] # Absent
      PROVE  CallReads(sessions'[t].name, call'[t], h, mailbox, inode, block, call')
  <2>1. CASE t = s
    BY <1>1, <1>4, <1>5, <2>1 DEF Who
  <2>2. CASE t # s
    <3>1. call'[t] = call[t] /\ sessions'[t] = sessions[t]
      BY <1>1, <2>2
    <3>2. CallReads(sessions[t].name, call[t], h, mailbox, inode, block, call)
      BY <1>5, <3>1 DEF OInv, InCall, Who
    <3> QED
      BY <1>4, <3>1, <3>2
  <2> QED
    BY <2>1, <2>2
<1>6. \A t \in Sessions : InCall(t)' =>
          CallReads(Who(t)', call'[t], h, mailbox, inode, block, call')
  BY <1>5 DEF InCall, Who
<1>7. /\ access[OwnerSlot] # Absent
      /\ \A i \in DOMAIN inode : ~Rekeying(i, call') =>
             SealedAs(inode[i].plain.blocks, inode[i].key, block)
  BY <1>2 DEF OInv
<1>8. \A f \in Filenames : access[<<Owner, f>>] # Absent =>
          LET m == access[<<Owner, f>>].plain.box.uuid
          IN  /\ There(h.to[m], inode, call')
              /\ ~Replacing(h.to[m], call') => BoxReads(m, h.to[m], mailbox, inode)
  BY <1>2, <1>3 DEF OInv
<1> QED
  BY <1>1, <1>6, <1>7, <1>8 DEF OInv

LEMMA OwnerBegins ==
    ASSUME CTypeOK, BInv, NEW s \in Sessions, NEW d, Begins(s, d), NEW h,
           BeginsReading(s, d) \/ BeginsStoring(s, d)
    PROVE  CallReads(Who(s), d, h, mailbox, inode, block, call)
<1> DEFINE me == sessions[s]
<1>1. d \in Calls /\ Fits(d) /\ me \in User /\ fresh \in Nat /\ \A b \in DOMAIN block : b < fresh
  BY DEF Begins, CTypeOK, TypeOK, BInv, BlocksSettled
<1>2. CASE BeginsReading(s, d)
  <2>1. d.at \in {"access", "invitation"} /\ d.op # "StoreFile" /\ DOMAIN d.todo = {}
    BY <1>2 DEF BeginsReading
  <2> QED
    BY <2>1 DEF CallReads, Holds, Rekeys, InodeReads
<1>3. CASE BeginsStoring(s, d)
  <2> DEFINE ws == d.todo
             n == Len(ByteToBlock(d.arg))
             bs == BlockWrites(ByteToBlock(d.arg), fresh, fresh + 4)
             acc == [box |-> StoredBox, children |-> NoChildren]
             file == [size |-> Len(d.arg), blocks |-> BlockUUIDs(ByteToBlock(d.arg), fresh + 4)]
             ids == file.blocks
  <2>1. /\ d.op = "StoreFile" /\ d.at = "return" /\ d.arg \in Contents /\ d.f \in Filenames
        /\ d.node = StoredNode
        /\ ws = StoreFileWrites(me, d.f, d.arg, StoredNode, StoredBox, fresh + 4)
    BY <1>3 DEF BeginsStoring
  <2>2. /\ StoredNode \in MailboxNode /\ StoredBox \in Pointer /\ fresh + 4 \in Nat
        /\ StoredNode.fileKey = fresh /\ StoredBox.uuid = fresh + 2
    BY <1>1 DEF StoredNode, StoredBox, MailboxNode, Pointer
  <2>3. /\ n \in Nat /\ acc \in Access /\ file \in Inode
        /\ ws \in Seq(Writes) /\ Len(ws) = n + 4
        /\ ws[1] = SetMailbox(StoredBox, StoredNode) /\ ws[2] = SetAccess(me, d.f, acc)
        /\ \A k \in 1..n : ws[k + 2] = bs[k]
        /\ ws[n + 3] = SetInode(StoredNode, file) /\ ws[n + 4] = SetUser(me, d.f)
    <3>1. /\ d.arg \in Contents /\ d.f \in Filenames
          /\ ws = StoreFileWrites(me, d.f, d.arg, StoredNode, StoredBox, fresh + 4)
      BY <2>1
    <3>2. /\ StoredNode \in MailboxNode /\ StoredBox \in Pointer /\ fresh + 4 \in Nat
          /\ StoredNode.fileKey = fresh
      BY <2>2
    <3> QED
      BY <1>1, <3>1, <3>2, StoreFileWritesAre
  <2>4. \A k \in 1..n : bs[k].kind = "block"
    <3>1. d.arg \in Seq(Bytes)
      BY <2>1, ContentsAssumption
    <3>2. ASSUME NEW k \in 1..n PROVE bs[k].kind = "block"
      <4> DEFINE r == [key |-> <<"file", fresh>>, plain |-> ByteToBlock(d.arg)[k]]
      <4>1. bs[k] = [kind |-> "block", id |-> fresh + 4 + k - 1, record |-> r]
        BY <1>1, <2>2, <3>1, BlockWritesType
      <4> HIDE DEF bs, r
      <4> QED
        BY <4>1
    <3> QED
      BY <3>2
  <2>5. /\ acc.box = StoredBox /\ file.blocks = ids /\ DOMAIN ids = 1..n
        /\ \A k \in 1..n : ids[k] = fresh + 4 + k - 1
    BY DEF BlockUUIDs
  <2> HIDE DEF acc, file, bs, n, ids
  <2>6. ws[1].kind = "mailbox" /\ ws[1].id = fresh + 2
    BY <2>2, <2>3, SetMailboxType
  <2>7. ws[2].kind = "access" /\ ws[2].record.plain = acc
    BY <1>1, <2>1, <2>3, SetAccessType
  <2>8. ws[n + 3].kind = "inode" /\ ws[n + 3].record.plain = file
    BY <2>2, <2>3, SetInodeType
  <2>9. ws[n + 4].kind = "account"
    BY <2>3, SetKinds
  <2>10. \A k \in DOMAIN ws : k = 1 \/ k = 2 \/ k - 2 \in 1..n \/ k = n + 3 \/ k = n + 4
    BY <2>3
  <2>11. ASSUME NEW k \in DOMAIN ws, k - 2 \in 1..n PROVE ws[k].kind = "block"
    <3>1. (k - 2) + 2 = k
      BY <2>3
    <3> QED
      BY <2>3, <2>4, <2>11, <3>1
  <2>12. 1 \in DOMAIN ws /\ 2 \in DOMAIN ws
    BY <2>3
  <2>13. ASSUME NEW k \in DOMAIN ws, ws[k].kind = "access" PROVE k = 2
    BY <2>6, <2>8, <2>9, <2>10, <2>11, <2>13
  <2>14. ASSUME NEW k \in DOMAIN ws, ws[k].kind = "inode" PROVE k = n + 3
    BY <2>6, <2>7, <2>9, <2>10, <2>11, <2>14
  <2>15. \A k \in DOMAIN ids : ids[k] \notin DOMAIN block
    <3>1. ASSUME NEW k \in DOMAIN ids, ids[k] \in DOMAIN block PROVE FALSE
      <4>1. k \in 1..n /\ ids[k] < fresh /\ ids[k] = fresh + 4 + k - 1
        BY <1>1, <2>5, <3>1
      <4>2. k \in Nat /\ n \in Nat /\ k >= 1
        BY <2>3, <4>1
      <4> QED
        BY <1>1, <4>1, <4>2
    <3> QED
      BY <3>1
  <2>16. StoreReads(d, mailbox)
    <3>1. ASSUME NEW k \in DOMAIN ws, ws[k].kind = "access"
          PROVE  /\ 1 < k /\ ws[1].kind = "mailbox" /\ ws[1].id = ws[k].record.plain.box.uuid
      BY <2>2, <2>5, <2>6, <2>7, <2>13, <3>1
    <3> HIDE DEF ws
    <3> QED
      BY <2>12, <3>1 DEF StoreReads, ws
  <2>17. InodeReads(d, block)
    <3>1. ASSUME NEW k \in DOMAIN ws, ws[k].kind = "inode"
          PROVE  ws[k].record.plain.blocks = ids
      BY <2>5, <2>8, <2>14, <3>1
    <3> HIDE DEF ws
    <3> QED
      BY <2>15, <3>1 DEF InodeReads, KeyedAs, ws
  <2> QED
    BY <2>1, <2>16, <2>17 DEF CallReads, Holds, Rekeys
<1> QED
  BY <1>2, <1>3

(* While an append or an invitation is in progress nobody revokes. *)
LEMMA NobodyRekeys ==
    ASSUME Orderly, AInv, MInv, CTypeOK, NEW s \in Sessions, InCall(s),
           \/ call[s].op \in {"AppendToFile", "CreateInvitation"}
           \/ call[s].op = "RevokeAccess" /\ ~Rekeys(call[s])
    PROVE  \A i : ~Rekeying(i, call) /\ ~Replacing(i, call)
<1>1. ASSUME NEW t \in Sessions, InCall(t), Rekeys(call[t]) PROVE FALSE
  <2>1. call[t].op = "RevokeAccess"
    BY <1>1 DEF Rekeys
  <2>2. t # s
    BY <1>1, <2>1
  <2> QED
    BY <1>1, <2>1, <2>2, RevokesAlone DEF AInv
<1> QED
  BY <1>1 DEF Rekeying, Replacing, Untold, InCall

(* RevokeAccess can read the blocks that it has yet to seal again. *)
LEMMA ResealReads ==
    ASSUME NEW c, NEW boxes, NEW nodes, NEW blocks, RevokeReads(c, boxes, nodes, blocks),
           c.at = "reseal", c.left \in Seq(Nat), c.left # <<>>
    PROVE  /\ Head(c.left) \in DOMAIN blocks
           /\ blocks[Head(c.left)].key = getFileKeys(c.node.fileKey)
<1>1. 1 \in DOMAIN c.left /\ c.left[1] = Head(c.left)
  OBVIOUS
<1> QED
  BY <1>1 DEF RevokeReads, Exist, SealedAs

LEMMA OwnerMoves ==
    ASSUME CTypeOK, BInv, AInv, MInv, Orderly, NEW s \in Sessions, InCall(s),
           call[s].todo = <<>>, NEW h \in Labels, LInv(h), OInv(h),
           NEW d \in Calls, Fits(d), SameCall(call[s], d), MovesTo(sessions[s], call[s], d)
    PROVE  /\ CallReads(Who(s), d, h, mailbox, inode, block, call)
           /\ Rekeys(call[s]) => StillRekeys(call[s], d)
<1> DEFINE c == call[s]
<1>1. /\ Fits(c) /\ d.op = c.op /\ d.f = c.f /\ d.arg = c.arg /\ c.f \in Filenames
      /\ d # Absent /\ OpFits(c) /\ OpFits(d) /\ c.todo = <<>> /\ fresh \in Nat /\ c \in Calls
  BY CallType, NoCallAssumption DEF SameCall, Fits, Calls
<1>2. /\ CallReads(Who(s), c, h, mailbox, inode, block, call)
      /\ CallLabelled(Who(s), c, h, fresh)
  BY DEF OInv, LInv
<1>3. CASE ToMailbox(sessions[s], c, d)
  <2>1. d.at = "mailbox" /\ d.todo = <<>> /\ c.at = "access"
    BY <1>3 DEF ToMailbox
  <2>2. ASSUME Who(s) = Owner, d.op = "CreateInvitation"
        PROVE  InviteReads(d, h, mailbox, inode, call)
    <3>1. ~Replacing(h.to[d.acc.box.uuid], call)
      BY <1>1, <2>2, NobodyRekeys
    <3>2. access[<<Owner, c.f>>] # Absent /\ d.acc = access[<<Owner, c.f>>].plain
      BY <1>3, <2>2 DEF ToMailbox, OpensAccess, AccessOf, Slot, Who
    <3> QED
      BY <1>1, <3>1, <3>2 DEF OInv, InviteReads
  <2>3. d.op # "StoreFile" /\ ~Rekeys(d) /\ ~Rekeys(c)
    BY <1>1, <2>1 DEF OpFits, Rekeys
  <2> QED
    BY <2>1, <2>2, <2>3 DEF CallReads, InodeReads
<1> HIDE DEF c
<1>4. ASSUME Holds(c), d.acc = c.acc, d.op # "StoreFile",
             d.op = "AppendToFile" => d.todo = <<>>, ~Rekeys(d)
      PROVE  CallReads(Who(s), d, h, mailbox, inode, block, call)
  <2>1. InviteReads(c, h, mailbox, inode, call) => InviteReads(d, h, mailbox, inode, call)
    BY <1>4 DEF InviteReads
  <2> QED
    BY <1>1, <1>2, <1>4, <2>1 DEF CallReads, InodeReads
<1>5. CASE ToInode(c, d) \/ ToRecipient(c, d)
  <2>1. /\ Holds(c) /\ d.acc = c.acc /\ d.at \in {"inode", "recipient"}
        /\ d.at = "inode" => d.todo = <<>>
        /\ c.at = "mailbox" /\ (d.at = "recipient" => d.op = "CreateInvitation")
    BY <1>1, <1>5 DEF ToInode, ToRecipient, Holds
  <2>2. ~Rekeys(d) /\ ~Rekeys(c) /\ d.op # "StoreFile" /\ (d.op = "AppendToFile" => d.todo = <<>>)
    BY <1>1, <2>1 DEF Rekeys, OpFits
  <2> QED
    BY <1>4, <2>1, <2>2 DEF c
<1>6. CASE ToInvite(sessions[s], c, d)
  <2>1. Holds(c) /\ d.acc = c.acc /\ d.op = "CreateInvitation"
    BY <1>1, <1>6 DEF ToInvite, Holds, OpFits
  <2>2. ~Rekeys(d) /\ ~Rekeys(c)
    BY <1>1, <2>1 DEF Rekeys
  <2> QED
    BY <1>4, <2>1, <2>2 DEF c
<1>7. CASE ToBlock(c, d) \/ ToSender(c, d) \/ ToAccept(sessions[s], c, d)
  <2>1. d.op \in {"LoadFile", "AcceptInvitation"}
    BY <1>1, <1>7 DEF ToBlock, ToSender, ToAccept, OpFits
  <2> QED
    BY <1>1, <2>1 DEF CallReads, Rekeys, c
<1>8. CASE ToAppend(c, d)
  <2> DEFINE i == c.node.inode
             file == inode[i].plain
             n == Len(ByteToBlock(c.arg))
             new == Appended(file, c.arg, fresh)
  <2>1. /\ c.at = "inode" /\ d.op = "AppendToFile" /\ d.at = "return" /\ d.node = c.node
        /\ d.todo = AppendWrites(c, file) /\ i \in DOMAIN inode
        /\ inode[i].key = getFileKeys(c.node.fileKey)
    BY <1>1, <1>8 DEF ToAppend, OpensInode, decrypts
  <2>2. c.arg \in Contents /\ c.node \in MailboxNode /\ file \in Inode
    <3>1. c.arg \in Contents /\ c.node \in MailboxNode
      BY <1>1, <2>1 DEF OpFits, Fits, Has
    <3>2. OpensInode(c.node)
      BY <1>8 DEF ToAppend
    <3>3. file \in Inode
      BY <3>2, ReadTypes DEF CTypeOK
    <3> QED
      BY <3>1, <3>3
  <2>3. /\ n \in Nat /\ new \in Inode /\ d.todo \in Seq(Writes) /\ Len(d.todo) = n + 1
        /\ \A k \in 1..n : d.todo[k].kind = "block"
        /\ d.todo[n + 1] = [kind |-> "inode", id |-> i,
                            record |-> [key |-> <<"file", c.node.fileKey>>, plain |-> new]]
    BY <2>1, <2>2, AppendWritesAre
  <2>4. /\ Len(file.blocks) \in Nat
        /\ \A k \in DOMAIN new.blocks :
               \/ k \in DOMAIN file.blocks /\ new.blocks[k] = file.blocks[k]
               \/ /\ k - Len(file.blocks) \in 1..n
                  /\ new.blocks[k] = fresh + (k - Len(file.blocks)) - 1
    BY <1>1, <2>2, AppendedBlocks
  <2>5. ~Rekeying(i, call)
    BY <1>1, <2>1, NobodyRekeys DEF c
  <2>6. SealedAs(file.blocks, getFileKeys(c.node.fileKey), block)
    BY <2>1, <2>5 DEF OInv
  <2>7. ASSUME NEW k \in DOMAIN new.blocks, new.blocks[k] \in DOMAIN block
        PROVE  block[new.blocks[k]].key = getFileKeys(c.node.fileKey)
    <3>1. CASE k \in DOMAIN file.blocks /\ new.blocks[k] = file.blocks[k]
      BY <2>6, <3>1 DEF SealedAs
    <3>2. CASE k - Len(file.blocks) \in 1..n /\ new.blocks[k] = fresh + (k - Len(file.blocks)) - 1
      <4>1. new.blocks[k] < fresh
        BY <2>7 DEF BInv, BlocksSettled
      <4> DEFINE j == k - Len(file.blocks)
      <4>2. j \in 1..n /\ new.blocks[k] = fresh + j - 1
        BY <3>2
      <4> HIDE DEF j
      <4>3. new.blocks[k] >= fresh
        BY <1>1, <2>3, <4>2
      <4> HIDE DEF new
      <4> QED
        BY <1>1, <2>3, <4>1, <4>2, <4>3
    <3> QED
      BY <2>4, <2>7, <3>1, <3>2
  <2>8. KeyedAs(new.blocks, c.node.fileKey, block)
    BY <2>7 DEF KeyedAs
  <2>9. ASSUME NEW k \in DOMAIN d.todo, d.todo[k].kind = "inode"
        PROVE  d.todo[k].record.plain = new
    <3>1. k = n + 1
      BY <2>3, <2>9
    <3> HIDE DEF new, n, file
    <3> QED
      BY <2>3, <3>1
  <2> HIDE DEF new, file, n
  <2>10. InodeReads(d, block)
    BY <2>1, <2>8, <2>9 DEF InodeReads
  <2> QED
    BY <1>1, <2>1, <2>10 DEF CallReads, Rekeys, c
<1>9. CASE ToReseal(c, d)
  <2>1. /\ d.op = "RevokeAccess" /\ c.node.inode \in DOMAIN inode /\ c.at = "inode"
        /\ inode[c.node.inode].key = getFileKeys(c.node.fileKey)
        /\ d.node = c.node /\ d.file = inode[c.node.inode].plain /\ d.left = d.file.blocks
        /\ d.at = "reseal" /\ d.todo = <<>>
    BY <1>1, <1>9 DEF ToReseal, OpensInode, decrypts
  <2>2. ~Rekeys(c) /\ c.op = "RevokeAccess"
    BY <1>1, <2>1 DEF Rekeys
  <2>3. ~Rekeying(c.node.inode, call)
    BY <2>2, NobodyRekeys DEF c
  <2>4. SealedAs(d.left, getFileKeys(d.node.fileKey), block)
    BY <2>1, <2>3 DEF OInv
  <2>5. Exist(d.left, block)
    BY <2>1 DEF BInv, InodesBacked
  <2>6. RevokeReads(d, mailbox, inode, block)
    BY <2>1, <2>4, <2>5 DEF RevokeReads
  <2> QED
    BY <2>1, <2>2, <2>6 DEF CallReads, c
<1>10. ASSUME c.op = "RevokeAccess", Rekeys(c) PROVE RevokeReads(c, mailbox, inode, block)
  BY <1>2, <1>10 DEF CallReads
<1>11. ASSUME SameRevocation(c, d), Rekeys(c), Rekeys(d), Untold(d),
              RevokeReads(d, mailbox, inode, block)
       PROVE  /\ CallReads(Who(s), d, h, mailbox, inode, block, call)
              /\ StillRekeys(c, d)
  BY <1>1, <1>11 DEF CallReads, SameRevocation, StillRekeys, Rekeys
<1>12. CASE Resealed(c, d)
  <2> DEFINE b == Head(c.left)
  <2>1. /\ SameRevocation(c, d) /\ c.at = "reseal" /\ d.at = "reseal"
        /\ c.left # <<>> /\ d.left = Tail(c.left) /\ c.op = "RevokeAccess" /\ c.left \in Seq(Nat)
    BY <1>1, <1>12 DEF Resealed, SameRevocation, Calls
  <2>2. DOMAIN d.todo = {1} /\ d.todo[1].kind = "block" /\ d.todo[1].id = b
    BY <1>12 DEF Resealed, Set
  <2>3. Rekeys(c) /\ Rekeys(d) /\ Untold(d)
    BY <1>1, <2>1 DEF Rekeys, Untold
  <2>4. RevokeReads(c, mailbox, inode, block)
    BY <1>10, <2>1, <2>3
  <2>5. /\ \A n \in DOMAIN d.left : n + 1 \in DOMAIN c.left /\ d.left[n] = c.left[n + 1] /\ n + 1 # 1
        /\ \A n \in DOMAIN c.left : n = 1 \/ (n - 1 \in DOMAIN d.left /\ d.left[n - 1] = c.left[n])
        /\ 1 \in DOMAIN c.left /\ c.left[1] = b
    BY <2>1
  <2>6. \A n \in DOMAIN d.left : d.left[n] # b
    <3>1. BlocksOf(c.node.inode, c.left, h, fresh)
      BY <1>2, <2>1 DEF CallLabelled
    <3> QED
      BY <2>5, <3>1 DEF BlocksOf
  <2> HIDE DEF b
  <2>7. Exist(d.left, block) /\ SealedAs(d.left, getFileKeys(c.node.fileKey), block)
    BY <2>1, <2>4, <2>5 DEF RevokeReads, Exist, SealedAs
  <2>8. ASSUME NEW k \in DOMAIN c.file.blocks
        PROVE  \/ \E n \in DOMAIN d.left : d.left[n] = c.file.blocks[k]
               \/ \E n \in DOMAIN d.todo : d.todo[n].id = c.file.blocks[k]
               \/ block[c.file.blocks[k]].key = getFileKeys(c.key)
    <3>1. \/ \E n \in DOMAIN c.left : c.left[n] = c.file.blocks[k]
          \/ \E n \in DOMAIN c.todo : c.todo[n].id = c.file.blocks[k]
          \/ block[c.file.blocks[k]].key = getFileKeys(c.key)
      BY <2>1, <2>4, <2>8 DEF RevokeReads
    <3>2. DOMAIN c.todo = {}
      BY <1>1
    <3>3. ASSUME NEW n \in DOMAIN c.left, c.left[n] = c.file.blocks[k]
          PROVE  \/ \E x \in DOMAIN d.left : d.left[x] = c.file.blocks[k]
                 \/ \E x \in DOMAIN d.todo : d.todo[x].id = c.file.blocks[k]
      BY <2>2, <2>5, <3>3
    <3> QED
      BY <3>1, <3>2, <3>3
  <2>9. RevokeReads(d, mailbox, inode, block)
    <3>1. d.node = c.node /\ d.file = c.file /\ d.key = c.key /\ inode[c.node.inode].plain = c.file
      BY <2>1, <2>4 DEF SameRevocation, RevokeReads
    <3> QED
      BY <2>1, <2>2, <2>6, <2>7, <2>8, <3>1 DEF RevokeReads
  <2> QED
    BY <1>11, <2>1, <2>3, <2>9 DEF c
<1>13. CASE ToChild(c, d)
  <2> DEFINE node == [c.node EXCEPT !.fileKey = c.key]
  <2>1. /\ SameRevocation(c, d) /\ c.at = "reseal" /\ d.at = "child" /\ c.op = "RevokeAccess"
        /\ DOMAIN c.left = {} /\ DOMAIN c.todo = {}
    BY <1>1, <1>13 DEF ToChild, SameRevocation
  <2>2. d.todo = <<SetInode(node, c.file), SetMailbox(c.box, node)>>
    BY <1>13 DEF ToChild, RevokeWrites
  <2> HIDE DEF node
  <2>3. DOMAIN d.todo = {1, 2} /\ d.todo[2].kind = "mailbox" /\ d.todo[2].id = c.box.uuid
    BY <2>2, TwoWrites DEF SetMailbox, Set
  <2>4. Rekeys(c) /\ Rekeys(d) /\ Untold(d)
    BY <1>1, <2>1 DEF Rekeys, Untold
  <2>5. RevokeReads(c, mailbox, inode, block)
    BY <1>10, <2>1, <2>4
  <2>6. SealedAs(c.file.blocks, getFileKeys(c.key), block) /\ inode[c.node.inode].plain = c.file
    BY <2>1, <2>5 DEF RevokeReads, SealedAs
  <2>7. d.node = c.node /\ d.file = c.file /\ d.key = c.key /\ d.box = c.box
    BY <2>1 DEF SameRevocation
  <2>8. RevokeReads(d, mailbox, inode, block)
    BY <2>1, <2>3, <2>6, <2>7 DEF RevokeReads
  <2> QED
    BY <1>11, <2>1, <2>4, <2>8 DEF c
<1>14. ASSUME SameRevocation(c, d), c.at = "child", d.at \in {"child", "return"}
       PROVE  Rekeys(c) /\ Rekeys(d) /\ RevokeReads(d, mailbox, inode, block)
  <2>1. Rekeys(c) /\ Rekeys(d) /\ c.op = "RevokeAccess"
    BY <1>1, <1>14 DEF SameRevocation, Rekeys
  <2>2. RevokeReads(c, mailbox, inode, block) /\ DOMAIN c.todo = {}
    BY <1>1, <1>10, <2>1
  <2>3. d.node = c.node /\ d.file = c.file /\ d.key = c.key /\ d.box = c.box
    BY <1>14 DEF SameRevocation
  <2> QED
    BY <1>14, <2>1, <2>2, <2>3 DEF RevokeReads
<1>15. CASE NextChild(c, d)
  <2>1. SameRevocation(c, d) /\ c.at = "child" /\ d.at = "child"
    BY <1>15 DEF NextChild
  <2>2. Rekeys(c) /\ Rekeys(d) /\ RevokeReads(d, mailbox, inode, block)
    BY <1>14, <2>1
  <2> QED
    BY <1>11, <2>1, <2>2 DEF Untold, c
<1>16. CASE ToRevoked(sessions[s], c, d)
  <2>1. /\ SameRevocation(c, d) /\ c.at = "child" /\ d.at = "return"
        /\ d.todo = <<SetAccess(sessions[s], c.f, WithoutChild(c.acc, c.arg, c.box)),
                      SetUser(sessions[s], c.f)>>
    BY <1>16 DEF ToRevoked
  <2>2. DOMAIN d.todo = {1, 2} /\ d.todo[1].kind = "access"
    BY <2>1, TwoWrites, SetKinds
  <2>3. Rekeys(c) /\ Rekeys(d) /\ RevokeReads(d, mailbox, inode, block)
    BY <1>14, <2>1
  <2>4. Untold(d)
    BY <2>2, <2>3 DEF Untold, Queues
  <2> QED
    BY <1>11, <2>1, <2>3, <2>4 DEF c
<1> QED
  BY <1>3, <1>5, <1>6, <1>7, <1>8, <1>9, <1>12, <1>13, <1>15, <1>16 DEF MovesTo, c

(* StoreFile's inode is not stored before anything but the user record is. *)
LEMMA StillStoring ==
    ASSUME NEW c, NEW nodes, c.op = "StoreFile", InOrder(c), StoresInode(c, nodes),
           c.todo \in Seq(Writes), NEW n \in DOMAIN c.todo, c.todo[n].kind # "account"
    PROVE  c.node.inode \notin DOMAIN nodes
<1> DEFINE len == Len(c.todo)
<1>1. /\ \A k \in DOMAIN c.todo : /\ c.todo[k].kind = "inode" <=> k = len - 1
                                  /\ c.todo[k].kind = "account" <=> k = len
  BY DEF InOrder
<1>2. len \in Nat /\ DOMAIN c.todo = 1..len /\ n \in 1..len /\ n # len
  BY <1>1
<1> HIDE DEF len
<1>3. len - 1 \in 1..len
  BY <1>2
<1> QED
  BY <1>1, <1>2, <1>3 DEF StoresInode

(* The state and the write that the next lemmas are about. *)
OwnWrite(s, c, d, w, h) ==
    /\ CTypeOK /\ BInv /\ AInv /\ MInv /\ Orderly /\ KeysHeld
    /\ WritesNext(s, c, d, w) /\ Written(s, c, d, w)
    /\ h \in Labels /\ LInv(h) /\ AtHome(h) /\ OInv(h)

(* Whose block a write is of, and under which key. *)
BlockWritten(c, w, h, nodes) ==
    w.kind = "block" =>
        /\ h.part[w.id] = c.node.inode
        /\ c.op \in {"StoreFile", "AppendToFile", "RevokeAccess"}
        /\ c.op = "StoreFile" => c.node.inode \notin DOMAIN nodes
        /\ c.op = "AppendToFile" => /\ c.node.inode \in DOMAIN nodes
                                    /\ w.record.key = nodes[c.node.inode].key
        /\ c.op # "RevokeAccess" => w.record.key = getFileKeys(c.node.fileKey)
        /\ c.op = "RevokeAccess" => /\ Rekeys(c) /\ c.at = "reseal"
                                    /\ c.node.inode \in DOMAIN nodes
                                    /\ w.record.key = getFileKeys(c.key)

LEMMA WritesBlock ==
    ASSUME NEW s \in Sessions, NEW c, NEW d, NEW w, NEW h, OwnWrite(s, c, d, w, h)
    PROVE  BlockWritten(c, w, h, inode)
<1> SUFFICES ASSUME w.kind = "block" PROVE BlockWritten(c, w, h, inode)
  BY DEF BlockWritten
<1>1. /\ InCall(s) /\ c = call[s] /\ WroteFirst(c, d, w) /\ CallMine(Who(s), c)
      /\ WriteMine(Who(s), c, w)
  BY DEF OwnWrite, Written
<1>2. /\ c.todo \in Seq(Writes) /\ 1 \in DOMAIN c.todo /\ w = c.todo[1]
  BY <1>1 DEF WroteFirst
<1>3. /\ CallLabelled(Who(s), c, h, fresh) /\ StoresInode(c, inode) /\ NodeKeyed(c, inode)
  BY <1>1 DEF OwnWrite, LInv, AInv, OwnInodes, KeysHeld
<1>4. WriteFits(Who(s), c, w, h, fresh)
  BY <1>1, <1>3, LabelledNext
<1>5. /\ h.part[w.id] = c.node.inode
      /\ c.op \in {"StoreFile", "AppendToFile", "RevokeAccess"}
      /\ c.op = "RevokeAccess" => c.at = "reseal" /\ w.record.key = getFileKeys(c.key)
      /\ c.op # "RevokeAccess" => /\ c.at = "return"
                                  /\ w.record.key = getFileKeys(c.node.fileKey)
  BY <1>1, <1>4 DEF WriteFits, WriteMine
<1>6. c.op = "StoreFile" => c.node.inode \notin DOMAIN inode
  BY <1>1, <1>2, <1>3, StillStoring DEF CallMine
<1>7. c.op = "AppendToFile" => /\ c.node.inode \in DOMAIN inode
                               /\ w.record.key = inode[c.node.inode].key
  BY <1>3, <1>5 DEF StoresInode, NodeKeyed
<1>8. c.op = "RevokeAccess" => Rekeys(c) /\ c.node.inode \in DOMAIN inode
  BY <1>3, <1>5 DEF Rekeys, NodeKeyed
<1> QED
  BY <1>5, <1>6, <1>7, <1>8 DEF BlockWritten

(* What is written, in the words of the lemmas above. *)
LEMMA OwnFacts ==
    ASSUME NEW s \in Sessions, NEW c, NEW d, NEW w, NEW h, OwnWrite(s, c, d, w, h)
    PROVE  /\ InCall(s) /\ c = call[s] /\ WroteFirst(c, d, w) /\ CallMine(Who(s), c)
           /\ WriteMine(Who(s), c, w) /\ CallLabelled(Who(s), c, h, fresh)
           /\ WriteFits(Who(s), c, w, h, fresh)
           /\ StoresInode(c, inode) /\ NodeKeyed(c, inode)
           /\ CallReads(Who(s), c, h, mailbox, inode, block, call)
           /\ InodeWritten(c, w, inode, inode') /\ BoxWritten(c, w, h, inode)
           /\ BlockWritten(c, w, h, inode)
           /\ Added(block, block', w.kind = "block", w.id, w.record)
           /\ Added(mailbox, mailbox', w.kind = "mailbox", w.id, w.record)
           /\ w.kind # "block" => block' = block
           /\ w.kind = "block" => block'[w.id] = w.record
           /\ w.kind # "mailbox" => mailbox' = mailbox
           /\ w.kind = "mailbox" => mailbox'[w.id] = w.record
<1>1. CTypeOK /\ AInv /\ MInv /\ Orderly /\ KeysHeld /\ Written(s, c, d, w) /\ LInv(h)
  BY DEF OwnWrite
<1>2. InodeWritten(c, w, inode, inode') /\ BoxWritten(c, w, h, inode) /\ BlockWritten(c, w, h, inode)
  BY <1>1, WritesInode, WritesBox, WritesBlock
<1>3. /\ InCall(s) /\ c = call[s] /\ WroteFirst(c, d, w) /\ CallMine(Who(s), c)
      /\ WriteMine(Who(s), c, w) /\ Write(w)
  BY <1>1 DEF Written
<1>4. /\ CallLabelled(Who(s), c, h, fresh) /\ StoresInode(c, inode) /\ NodeKeyed(c, inode)
      /\ CallReads(Who(s), c, h, mailbox, inode, block, call)
  BY <1>3 DEF OwnWrite, LInv, AInv, OwnInodes, KeysHeld, OInv
<1>5. WriteFits(Who(s), c, w, h, fresh)
  BY <1>3, <1>4, LabelledNext
<1>6. /\ Added(block, block', w.kind = "block", w.id, w.record)
      /\ Added(mailbox, mailbox', w.kind = "mailbox", w.id, w.record)
      /\ w.kind # "block" => block' = block
  BY <1>1, <1>3, WriteAdds
<1>7. /\ w.kind # "mailbox" => mailbox' = mailbox
      /\ w.kind = "mailbox" => mailbox'[w.id] = w.record
      /\ w.kind = "block" => block'[w.id] = w.record
  BY <1>3 DEF Write, Put, PutAll
<1> QED
  BY <1>2, <1>3, <1>4, <1>5, <1>6, <1>7

(* Only RevokeAccess gives an inode another key. *)
LEMMA KeyWritten ==
    ASSUME NEW s \in Sessions, NEW c, NEW d, NEW w, NEW h, OwnWrite(s, c, d, w, h), NEW i,
           KeyOf(i, inode') # KeyOf(i, inode)
    PROVE  Rekeys(c) /\ Untold(c) /\ c.node.inode = i
<1>1. InodeWritten(c, w, inode, inode') /\ CallMine(Who(s), c)
  BY OwnFacts
<1>2. /\ w.kind = "inode" /\ i = w.id /\ inode'[i] = w.record /\ i \in DOMAIN inode'
      /\ w.id = c.node.inode /\ c.op \in {"StoreFile", "AppendToFile", "RevokeAccess"}
  BY <1>1 DEF InodeWritten, KeyOf
<1>3. c.op # "AppendToFile"
  BY <1>1, <1>2 DEF InodeWritten, KeyOf
<1>4. CASE c.op = "StoreFile"
  <2>1. /\ i \notin DOMAIN inode /\ inode'[i].key = getFileKeys(c.node.fileKey)
        /\ i = c.node.fileKey + 1 /\ c.at = "return"
    BY <1>1, <1>2, <1>4 DEF InodeWritten, CallMine, InOrder
  <2>2. c.node \in MailboxNode
    BY <1>4, <2>1 DEF OwnWrite, Written, Fits, Has
  <2>3. c.node.fileKey \in Nat
    BY <2>2 DEF MailboxNode
  <2>4. i - 1 = c.node.fileKey
    BY <2>1, <2>3
  <2> QED
    BY <1>2, <2>1, <2>4 DEF KeyOf
<1>5. CASE c.op = "RevokeAccess"
  <2>1. c.at = "child"
    BY <1>1, <1>2, <1>5 DEF InodeWritten
  <2> QED
    BY <1>2, <1>5, <2>1 DEF Rekeys, Untold
<1> QED
  BY <1>2, <1>3, <1>4, <1>5

(* What is there stays there. *)
LEMMA ThereWritten ==
    ASSUME NEW s \in Sessions, NEW c, NEW d, NEW w, NEW h, OwnWrite(s, c, d, w, h), NEW i,
           There(i, inode, call)
    PROVE  There(i, inode', call')
<1>1. /\ InodeWritten(c, w, inode, inode') /\ c = call[s] /\ WroteFirst(c, d, w)
      /\ CallMine(Who(s), c) /\ StoresInode(c, inode)
  BY OwnFacts
<1>2. CASE i \in DOMAIN inode
  BY <1>1, <1>2 DEF InodeWritten, There
<1>3. ASSUME NEW t \in Sessions, call[t] # Absent, call[t].op = "StoreFile", call[t].node.inode = i
      PROVE  There(i, inode', call')
  <2>1. CASE t # s
    <3>1. call'[t] = call[t]
      BY <2>1 DEF OwnWrite, Written
    <3> QED
      BY <1>3, <3>1 DEF There
  <2>2. CASE t = s /\ call'[s] = d
    <3>1. d # Absent /\ d.op = c.op /\ d.node = c.node
      BY <1>1, NoCallAssumption DEF WroteFirst, WroteAll, Wrote
    <3> QED
      BY <1>1, <1>3, <2>2, <3>1 DEF There
  <2>3. CASE t = s /\ call'[s] # d
    <3>1. Len(c.todo) = 1
      BY <1>1, <2>3 DEF OwnWrite, WritesNext, CTypeOK, CallsFit
    <3>2. c.todo \in Seq(Writes) /\ c.op = "StoreFile" /\ c.node.inode = i
      BY <1>1, <1>3, <2>3 DEF WroteFirst
    <3>3. \A n \in DOMAIN c.todo : n = 1 /\ n # Len(c.todo) - 1
      BY <3>1, <3>2
    <3>4. \A n \in DOMAIN c.todo : c.todo[n].kind # "inode"
      BY <1>1, <3>2, <3>3 DEF CallMine, InOrder
    <3> QED
      BY <1>2, <1>1, <3>2, <3>4 DEF StoresInode
  <2> QED
    BY <2>1, <2>2, <2>3
<1> QED
  BY <1>2, <1>3 DEF There

(* A mailbox that is not being replaced keeps the key of its inode. *)
LEMMA BoxKept ==
    ASSUME NEW s \in Sessions, NEW c, NEW d, NEW w, NEW h, OwnWrite(s, c, d, w, h),
           NEW m, BoxReads(m, h.to[m], mailbox, inode), ~Replacing(h.to[m], call),
           h.made[m] # "CreateInvitation"
    PROVE  BoxReads(m, h.to[m], mailbox', inode')
<1> DEFINE i == h.to[m]
<1>1. /\ InCall(s) /\ c = call[s] /\ BoxWritten(c, w, h, inode) /\ CallMine(Who(s), c)
      /\ WriteMine(Who(s), c, w)
      /\ Added(mailbox, mailbox', w.kind = "mailbox", w.id, w.record)
      /\ w.kind = "mailbox" => mailbox'[w.id] = w.record
  BY OwnFacts
<1>2. ~(Untold(c) /\ c.node.inode = i)
  BY <1>1 DEF Replacing, InCall
<1>3. KeyOf(i, inode') = KeyOf(i, inode)
  BY <1>2, KeyWritten
<1>4. m \in DOMAIN mailbox /\ m \in DOMAIN mailbox'
      /\ getFileKeys(mailbox[m].plain.fileKey) = KeyOf(i, inode)
  BY <1>1 DEF Added, BoxReads
<1>5. CASE mailbox'[m] = mailbox[m]
  BY <1>3, <1>4, <1>5 DEF BoxReads
<1>6. CASE w.kind = "mailbox" /\ m = w.id
  <2>1. c.node.inode = i /\ c.op \in {"StoreFile", "CreateInvitation", "RevokeAccess"}
        /\ c.op # "CreateInvitation"
    BY <1>1, <1>6 DEF BoxWritten
  <2>2. c.op = "RevokeAccess" => Rekeys(c) /\ c.at = "child"
    BY <1>1, <1>6 DEF BoxWritten, WriteMine
  <2>3. c.op = "StoreFile"
    BY <1>2, <2>1, <2>2 DEF Untold
  <2>4. i \notin DOMAIN inode /\ mailbox'[m].plain = c.node /\ i = c.node.fileKey + 1
    BY <1>1, <1>6, <2>1, <2>3 DEF BoxWritten, CallMine, InOrder
  <2>5. c.node \in MailboxNode
    <3>1. w.record.plain = c.node /\ w \in Writes
      BY <1>1, <1>6, <2>3 DEF BoxWritten, OwnWrite, Written
    <3> QED
      BY <1>6, <3>1 DEF Writes, Sealed
  <2>6. c.node.fileKey \in Nat
    BY <2>5 DEF MailboxNode
  <2>7. i - 1 = c.node.fileKey
    BY <2>4, <2>6
  <2>8. KeyOf(i, inode) = getFileKeys(c.node.fileKey)
    BY <2>4, <2>7 DEF KeyOf
  <2> QED
    BY <1>3, <1>4, <2>4, <2>8 DEF BoxReads
<1> QED
  BY <1>1, <1>4, <1>5, <1>6 DEF Added

(* The blocks that a write leaves alone. *)
LEMMA BlocksKept ==
    ASSUME NEW ids, NEW i, NEW g, NEW top, BlocksOf(i, ids, g, top), NEW old, NEW new, NEW w,
           Added(old, new, w.kind = "block", w.id, w.record), NEW key,
           w.kind = "block" /\ g.part[w.id] = i => w.record.key = key
    PROVE  /\ Exist(ids, old) => Exist(ids, new)
           /\ Exist(ids, old) /\ SealedAs(ids, key, old) => SealedAs(ids, key, new)
<1>1. Exist(ids, old) => Exist(ids, new)
  BY DEF Exist, Added
<1>2. ASSUME NEW k \in DOMAIN ids, ids[k] \in DOMAIN new
      PROVE  (ids[k] \in DOMAIN old /\ new[ids[k]] = old[ids[k]]) \/ new[ids[k]].key = key
  BY <1>2 DEF BlocksOf, Added
<1>3. Exist(ids, old) /\ SealedAs(ids, key, old) => SealedAs(ids, key, new)
  BY <1>1, <1>2 DEF Exist, SealedAs
<1> QED
  BY <1>1, <1>3

(* A RevokeAccess past its loops has given the inode its new key, and the  *)
(* caller's new mailbox is stored.                                         *)
LEMMA RevokeTold ==
    ASSUME NEW s \in Sessions, NEW c, NEW d, NEW w, NEW h, OwnWrite(s, c, d, w, h),
           c.op = "RevokeAccess", c.at = "return"
    PROVE  /\ Rekeys(c) /\ w.kind \notin {"block", "inode", "mailbox"}
           /\ c.node.inode \in DOMAIN inode /\ inode[c.node.inode].key = getFileKeys(c.key)
           /\ inode[c.node.inode].plain = c.file
           /\ SealedAs(c.file.blocks, getFileKeys(c.key), block)
           /\ c.box.uuid \in DOMAIN mailbox /\ mailbox[c.box.uuid].plain.fileKey = c.key
<1>1. /\ CallMine(Who(s), c) /\ WriteMine(Who(s), c, w) /\ NodeKeyed(c, inode)
      /\ CallReads(Who(s), c, h, mailbox, inode, block, call)
  BY OwnFacts
<1>2. Rekeys(c)
  BY DEF Rekeys
<1>3. RevokeReads(c, mailbox, inode, block)
  BY <1>1, <1>2 DEF CallReads
<1>4. \A n \in DOMAIN c.todo : c.todo[n].kind \notin {"inode", "mailbox"}
  BY <1>1 DEF CallMine, WriteMine
<1>5. ~Unkeyed(c)
  BY <1>4 DEF Unkeyed, Queues
<1>6. w.kind \notin {"block", "inode", "mailbox"}
  BY <1>1 DEF WriteMine
<1>7. c.node.inode \in DOMAIN inode /\ inode[c.node.inode].key = getFileKeys(c.key)
  BY <1>1, <1>2, <1>5 DEF NodeKeyed
<1> QED
  BY <1>2, <1>3, <1>4, <1>6, <1>7 DEF RevokeReads

(* While a RevokeAccess writes it goes on, until its last write. *)
LEMMA StillRevokes ==
    ASSUME NEW s \in Sessions, NEW c, NEW d, NEW w, NEW h, OwnWrite(s, c, d, w, h), Rekeys(c)
    PROVE  /\ c.at # "return" => call'[s] = d
           /\ d # Absent /\ Rekeys(d) /\ d.node = c.node /\ d.at = c.at
           /\ w.kind # "access" /\ Untold(c) => Untold(d) /\ call'[s] = d
<1>1. /\ WroteFirst(c, d, w) /\ c = call[s] /\ CallMine(Who(s), c)
  BY OwnFacts
<1>2. /\ d # Absent /\ d.op = c.op /\ d.node = c.node /\ d.at = c.at /\ Wrote(c, d)
      /\ c.todo \in Seq(Writes) /\ w = c.todo[1]
  BY <1>1, NoCallAssumption DEF WroteFirst, WroteAll, Wrote
<1>3. call'[s] = d \/ (c.at = "return" /\ Len(c.todo) = 1)
  BY <1>1 DEF OwnWrite, WritesNext, CTypeOK, CallsFit
<1>4. Rekeys(d)
  BY <1>2 DEF Rekeys
<1>5. ASSUME w.kind # "access", Untold(c) PROVE Untold(d) /\ call'[s] = d
  <2>1. CASE c.at # "return"
    BY <1>2, <1>3, <1>4, <2>1 DEF Untold
  <2>2. CASE c.at = "return"
    <3>1. PICK n \in DOMAIN c.todo : c.todo[n].kind = "access"
      BY <1>5, <2>2 DEF Untold, Queues
    <3>2. n # 1
      BY <1>2, <1>5, <3>1
    <3>3. n - 1 \in DOMAIN d.todo /\ d.todo[n - 1] = c.todo[n]
      BY <1>2, <3>2, QueueMoves
    <3>4. Len(c.todo) # 1
      BY <1>2, <3>2
    <3> QED
      BY <1>3, <1>4, <3>1, <3>3, <3>4 DEF Untold, Queues
  <2> QED
    BY <2>1, <2>2
<1> QED
  BY <1>2, <1>3, <1>4, <1>5

LEMMA InodesSealed ==
    ASSUME NEW s \in Sessions, NEW c, NEW d, NEW w, NEW h, OwnWrite(s, c, d, w, h), BInv',
           NEW i \in DOMAIN inode', ~Rekeying(i, call')
    PROVE  SealedAs(inode'[i].plain.blocks, inode'[i].key, block')
<1>1. /\ InCall(s) /\ c = call[s] /\ InodeWritten(c, w, inode, inode')
      /\ BlockWritten(c, w, h, inode) /\ CallReads(Who(s), c, h, mailbox, inode, block, call)
      /\ Added(block, block', w.kind = "block", w.id, w.record)
      /\ w.kind # "block" => block' = block
      /\ WroteFirst(c, d, w)
  BY OwnFacts
<1>2. Exist(inode'[i].plain.blocks, block')
  BY DEF BInv, InodesBacked
<1>3. ~(Rekeys(c) /\ c.node.inode = i /\ call'[s] = d)
  BY StillRevokes DEF Rekeying
<1>4. CASE w.kind = "inode" /\ i = w.id /\ inode'[i] = w.record
  <2>1. w.id = c.node.inode /\ c.op \in {"StoreFile", "AppendToFile", "RevokeAccess"}
        /\ block' = block /\ 1 \in DOMAIN c.todo /\ c.todo[1] = w
    BY <1>1, <1>4 DEF InodeWritten, WroteFirst
  <2>2. c.op # "RevokeAccess"
    <3>1. SUFFICES ASSUME c.op = "RevokeAccess" PROVE FALSE
      OBVIOUS
    <3>2. c.at = "child" /\ Rekeys(c)
      BY <1>1, <1>4, <3>1 DEF InodeWritten, Rekeys
    <3> QED
      BY <1>3, <1>4, <2>1, <3>2, StillRevokes
  <2>3. InodeReads(c, block)
    BY <1>1, <2>1, <2>2 DEF CallReads
  <2>4. KeyedAs(w.record.plain.blocks, c.node.fileKey, block)
    BY <1>4, <2>1, <2>3 DEF InodeReads
  <2>5. w.record.key = getFileKeys(c.node.fileKey)
    BY <1>1, <1>4, <2>1, <2>2 DEF InodeWritten
  <2> QED
    BY <1>2, <1>4, <2>1, <2>4, <2>5 DEF KeyedAs, Exist, SealedAs
<1>5. CASE i \in DOMAIN inode /\ inode'[i] = inode[i]
  <2>1. CASE Rekeying(i, call)
    <3>1. PICK t \in Sessions : call[t] # Absent /\ Rekeys(call[t]) /\ call[t].node.inode = i
      BY <2>1 DEF Rekeying
    <3>2. t = s
      <4>1. t # s => call'[t] = call[t]
        BY DEF OwnWrite, Written
      <4> QED
        BY <3>1, <4>1 DEF Rekeying
    <3>3. c.at = "return" /\ c.op = "RevokeAccess" /\ c.node.inode = i
      BY <1>1, <1>3, <3>1, <3>2, StillRevokes DEF Rekeys
    <3>4. /\ w.kind # "block" /\ inode[i].key = getFileKeys(c.key) /\ inode[i].plain = c.file
          /\ SealedAs(c.file.blocks, getFileKeys(c.key), block)
      BY <3>3, RevokeTold
    <3> QED
      BY <1>1, <1>5, <3>4
  <2>2. CASE ~Rekeying(i, call)
    <3>1. /\ SealedAs(inode[i].plain.blocks, inode[i].key, block)
          /\ Exist(inode[i].plain.blocks, block)
          /\ BlocksOf(i, inode[i].plain.blocks, h, fresh)
      BY <1>5, <2>2 DEF OwnWrite, OInv, BInv, InodesBacked, LInv
    <3>2. ~(Rekeys(c) /\ c.node.inode = i)
      BY <1>1, <2>2 DEF Rekeying, InCall
    <3>3. w.kind = "block" /\ h.part[w.id] = i => w.record.key = inode[i].key
      BY <1>1, <1>5, <3>2 DEF BlockWritten
    <3> DEFINE ids == inode[i].plain.blocks
               key == inode[i].key
    <3>4. Added(block, block', w.kind = "block", w.id, w.record)
      BY <1>1
    <3> HIDE DEF ids, key
    <3>5. Exist(ids, block) /\ SealedAs(ids, key, block) => SealedAs(ids, key, block')
      <4>1. BlocksOf(i, ids, h, fresh) /\ (w.kind = "block" /\ h.part[w.id] = i => w.record.key = key)
        BY <3>1, <3>3 DEF ids, key
      <4> QED
        BY <3>4, <4>1, BlocksKept
    <3> QED
      BY <1>5, <3>1, <3>5 DEF ids, key
  <2> QED
    BY <2>1, <2>2
<1> QED
  BY <1>1, <1>4, <1>5 DEF InodeWritten

LEMMA RecordsRead ==
    ASSUME NEW s \in Sessions, NEW c, NEW d, NEW w, NEW h, OwnWrite(s, c, d, w, h),
           NEW f \in Filenames, access'[<<Owner, f>>] # Absent
    PROVE  LET m == access'[<<Owner, f>>].plain.box.uuid
           IN  /\ There(h.to[m], inode', call')
               /\ ~Replacing(h.to[m], call') => BoxReads(m, h.to[m], mailbox', inode')
<1> DEFINE x == <<Owner, f>>
           m == access'[x].plain.box.uuid
           i == h.to[m]
<1>1. /\ InCall(s) /\ c = call[s] /\ WroteFirst(c, d, w) /\ CallMine(Who(s), c)
      /\ WriteMine(Who(s), c, w) /\ CallLabelled(Who(s), c, h, fresh)
      /\ WriteFits(Who(s), c, w, h, fresh) /\ StoresInode(c, inode)
      /\ CallReads(Who(s), c, h, mailbox, inode, block, call)
      /\ InodeWritten(c, w, inode, inode')
      /\ w.kind # "mailbox" => mailbox' = mailbox
  BY OwnFacts
<1>2. /\ CTypeOK /\ AInv /\ MInv /\ Orderly /\ LInv(h) /\ AtHome(h) /\ OInv(h) /\ Written(s, c, d, w)
      /\ x \in Slots
  BY OwnerIs DEF OwnWrite, Slots
<1>3. CASE ~(w.kind = "access" /\ x = w.id)
  <2>1. access'[x] = access[x]
    BY <1>2, <1>3 DEF Written
  <2>2. /\ There(i, inode, call) /\ (~Replacing(i, call) => BoxReads(m, i, mailbox, inode))
        /\ Homely(access[x].plain, f, h) /\ m = access[x].plain.box.uuid
    BY <1>2, <2>1 DEF OInv, AtHome
  <2> HIDE DEF m
  <2>3. ASSUME Replacing(i, call) PROVE Replacing(i, call')
    <3>1. PICK t \in Sessions : call[t] # Absent /\ Untold(call[t]) /\ call[t].node.inode = i
      BY <2>3 DEF Replacing
    <3>2. CASE t # s
      <4>1. call'[t] = call[t]
        BY <1>2, <3>2 DEF Written
      <4> QED
        BY <3>1, <4>1 DEF Replacing
    <3>3. CASE t = s
      <4>1. Rekeys(c) /\ Untold(c) /\ c.node.inode = i
        BY <1>1, <3>1, <3>3 DEF Untold
      <4>2. RevokeFits(c, h) /\ Who(s) = Owner /\ Holds(c)
        BY <1>1, <1>2, <4>1, RekeyFacts
      <4>3. Homely(c.acc, c.f, h)
        BY <1>1, <1>2, <4>2 DEF AtHome
      <4>4. c.f = f
        BY <2>2, <4>1, <4>2, <4>3 DEF Homely, RevokeFits
      <4>5. w.kind # "access"
        BY <1>1, <1>3, <4>2, <4>4 DEF WriteMine
      <4>6. Untold(d) /\ call'[s] = d /\ d # Absent /\ d.node = c.node
        BY <4>1, <4>5, StillRevokes
      <4> QED
        BY <4>1, <4>6 DEF Replacing
    <3> QED
      BY <3>2, <3>3
  <2>4. There(i, inode', call')
    BY <2>2, ThereWritten
  <2>5. ~Replacing(i, call') => BoxReads(m, i, mailbox', inode')
    BY <2>2, <2>3, BoxKept DEF Homely
  <2> QED
    BY <2>4, <2>5 DEF m
<1>4. CASE w.kind = "access" /\ x = w.id
  <2>1. access'[x] = w.record /\ Who(s) = Owner /\ mailbox' = mailbox /\ inode' = inode
    BY <1>1, <1>2, <1>4 DEF Written, WriteMine, InodeWritten
  <2>2. c.op \in {"StoreFile", "CreateInvitation", "RevokeAccess"} /\ c.at = "return"
    BY <1>1, <1>2, <1>4, <2>1, OwnerWrites DEF WriteMine
  <2>3. m = w.record.plain.box.uuid /\ 1 \in DOMAIN c.todo /\ w = c.todo[1]
        /\ c.todo \in Seq(Writes) /\ c.node \in MailboxNode
    BY <1>1, <2>1, <2>2 DEF WroteFirst, Fits, Has
  <2> HIDE DEF m
  <2>4. CASE c.op = "StoreFile"
    <3>1. i = c.node.inode
      BY <1>1, <1>4, <2>3, <2>4 DEF WriteFits
    <3>2. There(i, inode, call)
      BY <1>1, <2>4, <3>1 DEF There, InCall
    <3>3. StoreReads(c, mailbox)
      BY <1>1, <2>4 DEF CallReads
    <3>4. \A k \in DOMAIN c.todo : ~(k < 1)
      BY <2>3
    <3>5. m \in DOMAIN mailbox /\ mailbox[m].plain.fileKey = c.node.fileKey
      BY <1>4, <2>3, <3>3, <3>4 DEF StoreReads
    <3>6. i \notin DOMAIN inode /\ i = c.node.fileKey + 1
      BY <1>1, <1>4, <2>3, <2>4, <3>1, StillStoring DEF CallMine, InOrder
    <3>7. c.node.fileKey \in Nat
      BY <2>3 DEF MailboxNode
    <3>8. i - 1 = c.node.fileKey
      BY <3>6, <3>7
    <3>9. BoxReads(m, i, mailbox, inode)
      BY <3>5, <3>6, <3>8 DEF BoxReads, KeyOf
    <3> QED
      BY <2>1, <3>2, <3>9, ThereWritten DEF m
  <2>5. CASE c.op = "CreateInvitation"
    <3>1. Holds(c) /\ Invites(c)
      BY <2>2, <2>5 DEF Holds, Invites
    <3>2. w.record.plain = WithChild(c.acc, c.arg, c.box)
      BY <1>1, <1>4, <2>5 DEF WriteMine
    <3>3. c.acc \in Access /\ c.box \in Pointer /\ c.arg \in Users
      BY <1>1, <2>5, <3>1 DEF CallMine, WroteFirst, Fits, OpFits
    <3>4. m = c.acc.box.uuid
      BY <2>3, <3>2, <3>3, WithChildType
    <3>5. InviteReads(c, h, mailbox, inode, call)
      BY <1>1, <2>1, <2>5, <3>1 DEF CallReads
    <3> QED
      BY <2>1, <3>4, <3>5, ThereWritten DEF InviteReads, m
  <2>6. CASE c.op = "RevokeAccess"
    <3>1. /\ Rekeys(c) /\ c.node.inode \in DOMAIN inode
          /\ inode[c.node.inode].key = getFileKeys(c.key)
          /\ c.box.uuid \in DOMAIN mailbox /\ mailbox[c.box.uuid].plain.fileKey = c.key
      BY <2>2, <2>6, RevokeTold
    <3>2. RevokeFits(c, h)
      BY <1>1, <1>2, <3>1, RekeyFacts
    <3>3. w.record.plain = WithoutChild(c.acc, c.arg, c.box)
      BY <1>1, <1>4, <2>6 DEF WriteMine
    <3>4. m = c.box.uuid
      BY <2>3, <3>2, <3>3, WithoutChildType DEF RevokeFits
    <3>5. i = c.node.inode
      BY <3>2, <3>4 DEF RevokeFits
    <3> QED
      BY <2>1, <3>1, <3>4, <3>5 DEF BoxReads, KeyOf, There, m
  <2> QED
    BY <2>2, <2>4, <2>5, <2>6
<1> QED
  BY <1>3, <1>4

(* The owner's invitations keep what they have read. *)
LEMMA InvitesRead ==
    ASSUME NEW s \in Sessions, NEW c, NEW d, NEW w, NEW h, OwnWrite(s, c, d, w, h),
           NEW t \in Sessions, InCall(t), Who(t) = Owner, Holds(call[t]),
           call[t].op = "CreateInvitation"
    PROVE  InviteReads(call[t], h, mailbox', inode', call')
<1> DEFINE m == call[t].acc.box.uuid
<1>1. InviteReads(call[t], h, mailbox, inode, call)
  BY DEF OwnWrite, OInv, CallReads
<1>2. Homely(call[t].acc, call[t].f, h)
  BY DEF OwnWrite, AtHome
<1>3. ~Replacing(h.to[m], call)
  BY NobodyRekeys DEF OwnWrite
<1>4. BoxReads(m, h.to[m], mailbox', inode')
  BY <1>1, <1>2, <1>3, BoxKept DEF InviteReads, Homely
<1>5. There(h.to[m], inode', call')
  BY <1>1, ThereWritten DEF InviteReads
<1> QED
  BY <1>4, <1>5 DEF InviteReads

(* A StoreFile of another session: nobody else writes its mailbox. *)
LEMMA OthersStore ==
    ASSUME NEW s \in Sessions, NEW c, NEW d, NEW w, NEW h, OwnWrite(s, c, d, w, h),
           NEW t \in Sessions, t # s, InCall(t), call[t].op = "StoreFile"
    PROVE  StoreReads(call[t], mailbox')
<1> DEFINE e == call[t]
<1>1. /\ InCall(s) /\ c = call[s] /\ BoxWritten(c, w, h, inode) /\ NodeKeyed(c, inode)
      /\ Added(mailbox, mailbox', w.kind = "mailbox", w.id, w.record)
  BY OwnFacts
<1>2. /\ StoreReads(e, mailbox) /\ CallLabelled(Who(t), e, h, fresh) /\ StoresInode(e, inode)
      /\ CallMine(Who(t), e)
  BY DEF OwnWrite, OInv, CallReads, LInv, AInv, OwnInodes, MInv
<1>3. e.todo \in Seq(Writes) /\ e.op = "StoreFile"
  <2>1. CTypeOK
    BY DEF OwnWrite
  <2>2. e \in Calls
    BY <2>1, CallType DEF Fits
  <2> QED
    BY <2>2 DEF Calls
<1>4. c.op = "StoreFile" => c.node.inode # e.node.inode
  BY <1>1 DEF OwnWrite, AInv, OwnInodes
<1> HIDE DEF e
<1>5. ASSUME NEW n \in DOMAIN e.todo, e.todo[n].kind = "access"
      PROVE  LET m == e.todo[n].record.plain.box.uuid
             IN  m \in DOMAIN mailbox => m \in DOMAIN mailbox' /\ mailbox'[m] = mailbox[m]
  <2> DEFINE m == e.todo[n].record.plain.box.uuid
  <2>1. WriteFits(Who(t), e, e.todo[n], h, fresh)
    BY <1>2 DEF CallLabelled
  <2>2. h.to[m] = e.node.inode /\ h.made[m] = "StoreFile"
    BY <1>3, <1>5, <2>1 DEF WriteFits
  <2>3. e.node.inode \notin DOMAIN inode
    BY <1>2, <1>3, <1>5, StillStoring DEF CallMine
  <2> HIDE DEF m
  <2>4. ~(w.kind = "mailbox" /\ m = w.id)
    <3>1. SUFFICES ASSUME w.kind = "mailbox", m = w.id PROVE FALSE
      OBVIOUS
    <3>2. c.node.inode = e.node.inode /\ c.op \in {"StoreFile", "RevokeAccess"}
          /\ (c.op = "RevokeAccess" => Rekeys(c))
      BY <1>1, <2>2, <3>1 DEF BoxWritten
    <3>3. c.op = "RevokeAccess" => c.node.inode \in DOMAIN inode
      BY <1>1, <3>2 DEF NodeKeyed
    <3> QED
      BY <1>4, <2>3, <3>2, <3>3
  <2>5. m \in DOMAIN mailbox => m \in DOMAIN mailbox' /\ mailbox'[m] = mailbox[m]
    BY <1>1, <2>4 DEF Added
  <2> QED
    BY <2>5 DEF m
<1>6. StoreReads(e, mailbox')
  BY <1>2, <1>5 DEF StoreReads
<1> QED
  BY <1>6 DEF e

(* A StoreFile or an AppendToFile of another session: its blocks are its   *)
(* own, or sealed under the key that the file has.                         *)
LEMMA OthersSeal ==
    ASSUME NEW s \in Sessions, NEW c, NEW d, NEW w, NEW h, OwnWrite(s, c, d, w, h),
           NEW t \in Sessions, t # s, InCall(t), call[t].op \in {"StoreFile", "AppendToFile"}
    PROVE  InodeReads(call[t], block')
<1> DEFINE e == call[t]
<1>1. /\ InCall(s) /\ c = call[s] /\ BlockWritten(c, w, h, inode)
      /\ Added(block, block', w.kind = "block", w.id, w.record)
  BY OwnFacts
<1>2. /\ InodeReads(e, block) /\ CallLabelled(Who(t), e, h, fresh) /\ StoresInode(e, inode)
      /\ CallMine(Who(t), e) /\ NodeKeyed(e, inode) /\ e.op \in {"StoreFile", "AppendToFile"}
  BY DEF OwnWrite, OInv, CallReads, LInv, AInv, OwnInodes, MInv, KeysHeld
<1>3. c.op = "StoreFile" /\ e.op = "StoreFile" => c.node.inode # e.node.inode
  BY <1>1 DEF OwnWrite, AInv, OwnInodes
<1>4. c.op = "RevokeAccess" => e.op # "AppendToFile"
  BY <1>1, RevokesAlone DEF OwnWrite, AInv
<1> HIDE DEF e
<1>5. ASSUME NEW n \in DOMAIN e.todo, e.todo[n].kind = "inode"
      PROVE  KeyedAs(e.todo[n].record.plain.blocks, e.node.fileKey, block')
  <2> DEFINE ids == e.todo[n].record.plain.blocks
             key == getFileKeys(e.node.fileKey)
  <2>1. WriteFits(Who(t), e, e.todo[n], h, fresh) /\ WriteMine(Who(t), e, e.todo[n])
    BY <1>2 DEF CallLabelled, CallMine
  <2>2. BlocksOf(e.node.inode, ids, h, fresh) /\ (e.op = "AppendToFile" => e.at = "return")
    BY <1>5, <2>1 DEF WriteFits, WriteMine
  <2>3. KeyedAs(ids, e.node.fileKey, block)
    BY <1>2, <1>5 DEF InodeReads
  <2>4. e.op = "StoreFile" => e.node.inode \notin DOMAIN inode
    BY <1>2, <1>5 DEF StoresInode
  <2>5. e.op = "AppendToFile" => /\ e.node.inode \in DOMAIN inode
                                 /\ inode[e.node.inode].key = key
    BY <1>2, <2>2 DEF StoresInode, NodeKeyed
  <2> HIDE DEF ids, key
  <2>6. w.kind = "block" /\ h.part[w.id] = e.node.inode => w.record.key = key
    BY <1>1, <1>2, <1>3, <1>4, <2>4, <2>5 DEF BlockWritten
  <2>7. key = getFileKeys(e.node.fileKey)
    BY DEF key
  <2>8. KeyedAs(ids, e.node.fileKey, block')
    <3>1. Added(block, block', w.kind = "block", w.id, w.record)
      BY <1>1
    <3>2. BlocksOf(e.node.inode, ids, h, fresh)
      BY <2>2
    <3>3. ASSUME NEW k \in DOMAIN ids, ids[k] \in DOMAIN block' PROVE block'[ids[k]].key = key
      BY <2>3, <2>6, <2>7, <3>1, <3>2, <3>3 DEF Added, BlocksOf, KeyedAs
    <3> QED
      BY <2>7, <3>3 DEF KeyedAs
  <2> QED
    BY <2>8 DEF ids
<1>6. InodeReads(e, block')
  BY <1>5 DEF InodeReads
<1> QED
  BY <1>6 DEF e

(* A RevokeAccess of another session: what it works on is not written. *)
LEMMA OthersRevoke ==
    ASSUME NEW s \in Sessions, NEW c, NEW d, NEW w, NEW h, OwnWrite(s, c, d, w, h),
           NEW t \in Sessions, t # s, InCall(t), Rekeys(call[t])
    PROVE  RevokeReads(call[t], mailbox', inode', block')
<1> DEFINE e == call[t]
           i == e.node.inode
<1>1. /\ InCall(s) /\ c = call[s] /\ BlockWritten(c, w, h, inode)
      /\ BoxWritten(c, w, h, inode) /\ InodeWritten(c, w, inode, inode')
      /\ Added(block, block', w.kind = "block", w.id, w.record)
      /\ Added(mailbox, mailbox', w.kind = "mailbox", w.id, w.record)
  BY OwnFacts
<1>2. /\ RevokeReads(e, mailbox, inode, block) /\ CallLabelled(Who(t), e, h, fresh)
      /\ NodeKeyed(e, inode) /\ Rekeys(e)
  BY DEF OwnWrite, OInv, CallReads, LInv, KeysHeld
<1>3. c.op \notin {"RevokeAccess", "AppendToFile", "CreateInvitation"}
  BY <1>1, RevokesAlone DEF OwnWrite, AInv, Rekeys
<1>4. RevokeFits(e, h)
  BY RekeyFacts DEF OwnWrite
<1>5. /\ BlocksOf(i, inode[i].plain.blocks, h, fresh) /\ Exist(inode[i].plain.blocks, block)
      /\ i \in DOMAIN inode
  BY <1>2 DEF NodeKeyed, OwnWrite, LInv, BInv, InodesBacked
<1> HIDE DEF e, i
<1>6. inode'[i] = inode[i] /\ inode[i].plain = e.file
  BY <1>1, <1>2, <1>3, <1>5 DEF InodeWritten, RevokeReads, i
<1>7. ~(w.kind = "block" /\ h.part[w.id] = i)
  BY <1>1, <1>3, <1>5 DEF BlockWritten
<1>8. ASSUME NEW b \in DOMAIN block, h.part[b] = i PROVE b \in DOMAIN block' /\ block'[b] = block[b]
  BY <1>1, <1>7, <1>8 DEF Added
<1>9. \A k \in DOMAIN e.file.blocks : block'[e.file.blocks[k]] = block[e.file.blocks[k]]
  BY <1>5, <1>6, <1>8 DEF BlocksOf, Exist
<1>10. CASE e.at = "reseal"
  <2>1. BlocksOf(i, e.left, h, fresh)
    BY <1>2, <1>10 DEF CallLabelled, i
  <2>2. Exist(e.left, block) /\ SealedAs(e.left, getFileKeys(e.node.fileKey), block)
    BY <1>2, <1>10 DEF RevokeReads
  <2>3. Exist(e.left, block') /\ SealedAs(e.left, getFileKeys(e.node.fileKey), block')
    BY <1>8, <2>1, <2>2 DEF BlocksOf, Exist, SealedAs
  <2>4. RevokeReads(e, mailbox', inode', block')
    BY <1>2, <1>6, <1>9, <1>10, <2>3 DEF RevokeReads, i
  <2> QED
    BY <2>4 DEF e
<1>11. CASE e.at # "reseal"
  <2>1. SealedAs(e.file.blocks, getFileKeys(e.key), block')
    BY <1>2, <1>9, <1>11 DEF RevokeReads, SealedAs
  <2>2. ~(w.kind = "mailbox" /\ e.box.uuid = w.id)
    BY <1>1, <1>3, <1>4, <1>5 DEF BoxWritten, RevokeFits, i
  <2>3. e.box.uuid \in DOMAIN mailbox =>
            e.box.uuid \in DOMAIN mailbox' /\ mailbox'[e.box.uuid] = mailbox[e.box.uuid]
    BY <1>1, <2>2 DEF Added
  <2>4. RevokeReads(e, mailbox', inode', block')
    BY <1>2, <1>6, <1>11, <2>1, <2>3 DEF RevokeReads, i
  <2> QED
    BY <2>4 DEF e
<1> QED
  BY <1>10, <1>11

(* The writing call itself. *)
LEMMA WriterReads ==
    ASSUME NEW s \in Sessions, NEW c, NEW d, NEW w, NEW h, OwnWrite(s, c, d, w, h)
    PROVE  /\ d.op = "StoreFile" => StoreReads(d, mailbox')
           /\ d.op \in {"StoreFile", "AppendToFile"} => InodeReads(d, block')
           /\ Rekeys(d) => RevokeReads(d, mailbox', inode', block')
<1>1. /\ InCall(s) /\ c = call[s] /\ WroteFirst(c, d, w) /\ CallMine(Who(s), c)
      /\ WriteMine(Who(s), c, w) /\ CallReads(Who(s), c, h, mailbox, inode, block, call)
      /\ InodeWritten(c, w, inode, inode') /\ BoxWritten(c, w, h, inode)
      /\ BlockWritten(c, w, h, inode)
      /\ Added(block, block', w.kind = "block", w.id, w.record)
      /\ Added(mailbox, mailbox', w.kind = "mailbox", w.id, w.record)
      /\ w.kind # "block" => block' = block
      /\ w.kind = "block" => block'[w.id] = w.record
      /\ w.kind = "mailbox" => mailbox'[w.id] = w.record
  BY OwnFacts
<1>2. /\ d.op = c.op /\ d.node = c.node /\ d.at = c.at /\ d.file = c.file /\ d.left = c.left
      /\ d.box = c.box /\ d.key = c.key /\ Wrote(c, d) /\ w = c.todo[1] /\ 1 \in DOMAIN c.todo
      /\ c.todo \in Seq(Writes)
  BY <1>1 DEF WroteFirst, WroteAll, Wrote
<1>3. /\ \A n \in DOMAIN d.todo : n + 1 \in DOMAIN c.todo /\ d.todo[n] = c.todo[n + 1]
      /\ \A n \in DOMAIN c.todo : n # 1 => n - 1 \in DOMAIN d.todo /\ d.todo[n - 1] = c.todo[n]
      /\ DOMAIN c.todo = 1..Len(c.todo) /\ Len(c.todo) \in Nat
      /\ DOMAIN d.todo \subseteq Nat
  BY <1>2, QueueMoves
<1>4. ASSUME c.op = "StoreFile" PROVE StoreReads(d, mailbox')
  <2>1. SUFFICES ASSUME NEW n \in DOMAIN d.todo, d.todo[n].kind = "access"
                 PROVE  LET m == d.todo[n].record.plain.box.uuid
                        IN  \/ m \in DOMAIN mailbox' /\ mailbox'[m].plain.fileKey = d.node.fileKey
                            \/ \E k \in DOMAIN d.todo : /\ k < n /\ d.todo[k].kind = "mailbox"
                                                        /\ d.todo[k].id = m
    BY DEF StoreReads
  <2> DEFINE m == d.todo[n].record.plain.box.uuid
  <2>2. n + 1 \in DOMAIN c.todo /\ d.todo[n] = c.todo[n + 1] /\ n \in Nat
    BY <1>3
  <2>3. StoreReads(c, mailbox)
    BY <1>1, <1>4 DEF CallReads
  <2>4. \/ m \in DOMAIN mailbox /\ mailbox[m].plain.fileKey = c.node.fileKey
        \/ \E k \in DOMAIN c.todo : /\ k < n + 1 /\ c.todo[k].kind = "mailbox" /\ c.todo[k].id = m
    BY <2>1, <2>2, <2>3 DEF StoreReads
  <2> HIDE DEF m
  <2>5. w.kind = "mailbox" => mailbox'[w.id].plain = c.node /\ w.id \in DOMAIN mailbox'
    BY <1>1, <1>4 DEF BoxWritten, Added
  <2>6. CASE m \in DOMAIN mailbox /\ mailbox[m].plain.fileKey = c.node.fileKey
    BY <1>1, <1>2, <2>5, <2>6 DEF Added, m
  <2>7. ASSUME NEW k \in DOMAIN c.todo, k < n + 1, c.todo[k].kind = "mailbox", c.todo[k].id = m
        PROVE  \/ m \in DOMAIN mailbox' /\ mailbox'[m].plain.fileKey = d.node.fileKey
               \/ \E j \in DOMAIN d.todo : /\ j < n /\ d.todo[j].kind = "mailbox"
                                           /\ d.todo[j].id = m
    <3>1. CASE k = 1
      BY <1>2, <2>5, <2>7, <3>1
    <3>2. CASE k # 1
      <4>1. k - 1 \in DOMAIN d.todo /\ d.todo[k - 1] = c.todo[k]
        BY <1>3, <3>2
      <4>2. k \in Nat
        BY <1>3
      <4>3. k - 1 < n
        BY <2>2, <2>7, <4>2
      <4> QED
        BY <2>7, <4>1, <4>3
    <3> QED
      BY <3>1, <3>2
  <2> QED
    BY <2>4, <2>6, <2>7 DEF m
<1>5. ASSUME c.op \in {"StoreFile", "AppendToFile"} PROVE InodeReads(d, block')
  <2>1. InodeReads(c, block)
    BY <1>1, <1>5 DEF CallReads
  <2>2. w.kind = "block" => w.record.key = getFileKeys(c.node.fileKey)
    BY <1>1, <1>5 DEF BlockWritten
  <2>3. \A ids : KeyedAs(ids, c.node.fileKey, block) => KeyedAs(ids, c.node.fileKey, block')
    BY <1>1, <2>2 DEF KeyedAs, Added
  <2>4. ASSUME NEW n \in DOMAIN d.todo, d.todo[n].kind = "inode"
        PROVE  KeyedAs(d.todo[n].record.plain.blocks, d.node.fileKey, block')
    <3>1. n + 1 \in DOMAIN c.todo /\ d.todo[n] = c.todo[n + 1]
      BY <1>3
    <3>2. KeyedAs(d.todo[n].record.plain.blocks, c.node.fileKey, block)
      BY <2>1, <2>4, <3>1 DEF InodeReads
    <3> QED
      BY <1>2, <2>3, <3>2
  <2> QED
    BY <2>4 DEF InodeReads
<1>6. ASSUME Rekeys(c) PROVE RevokeReads(d, mailbox', inode', block')
  <2> DEFINE i == c.node.inode
  <2>1. RevokeReads(c, mailbox, inode, block) /\ NodeKeyed(c, inode) /\ c.op = "RevokeAccess"
    BY <1>1, <1>6, OwnFacts DEF CallReads, Rekeys
  <2>2. i \in DOMAIN inode /\ inode[i].plain = c.file
    BY <1>6, <2>1 DEF NodeKeyed, RevokeReads
  <2>3. inode'[i].plain = c.file
    BY <1>1, <2>1, <2>2 DEF InodeWritten
  <2>4. CASE c.at = "reseal"
    <3>1. w.kind = "block" /\ w.record.key = getFileKeys(c.key)
      BY <1>1, <1>2, <2>1, <2>4 DEF RevokeReads, BlockWritten
    <3>2. \A n \in DOMAIN c.left : c.left[n] # w.id
      BY <1>2, <2>1, <2>4 DEF RevokeReads
    <3>3. \A b \in DOMAIN block : b \in DOMAIN block' /\ (b # w.id => block'[b] = block[b])
      BY <1>1 DEF Added
    <3>4. Exist(c.left, block') /\ SealedAs(c.left, getFileKeys(c.node.fileKey), block')
      BY <2>1, <2>4, <3>2, <3>3 DEF RevokeReads, Exist, SealedAs
    <3>5. \A k \in DOMAIN d.todo : /\ d.todo[k].kind = "block"
                                   /\ \A n \in DOMAIN c.left : d.todo[k].id # c.left[n]
      BY <1>3, <2>1, <2>4 DEF RevokeReads
    <3>6. ASSUME NEW k \in DOMAIN c.file.blocks
          PROVE  \/ \E n \in DOMAIN c.left : c.left[n] = c.file.blocks[k]
                 \/ \E n \in DOMAIN d.todo : d.todo[n].id = c.file.blocks[k]
                 \/ block'[c.file.blocks[k]].key = getFileKeys(c.key)
      <4>1. c.file.blocks[k] \in DOMAIN block
        BY <2>2 DEF OwnWrite, BInv, InodesBacked, Exist
      <4>2. CASE c.file.blocks[k] = w.id
        BY <1>1, <3>1, <4>2
      <4>3. CASE c.file.blocks[k] # w.id
        <5>1. \/ \E n \in DOMAIN c.left : c.left[n] = c.file.blocks[k]
              \/ \E n \in DOMAIN c.todo : c.todo[n].id = c.file.blocks[k]
              \/ block[c.file.blocks[k]].key = getFileKeys(c.key)
          BY <2>1, <2>4 DEF RevokeReads
        <5>2. ASSUME NEW n \in DOMAIN c.todo, c.todo[n].id = c.file.blocks[k]
              PROVE  \E j \in DOMAIN d.todo : d.todo[j].id = c.file.blocks[k]
          BY <1>2, <1>3, <4>3, <5>2
        <5> QED
          BY <3>3, <4>1, <4>3, <5>1, <5>2
      <4> QED
        BY <4>2, <4>3
    <3> QED
      BY <1>2, <2>3, <2>4, <3>4, <3>5, <3>6 DEF RevokeReads
  <2>5. CASE c.at # "reseal"
    <3>1. block' = block
      BY <1>1, <2>1, <2>5 DEF BlockWritten
    <3>2. SealedAs(c.file.blocks, getFileKeys(c.key), block')
      BY <2>1, <2>5, <3>1 DEF RevokeReads
    <3>3. w.kind = "mailbox" => w.id \in DOMAIN mailbox' /\ mailbox'[w.id].plain.fileKey = c.key
      BY <1>1, <2>1 DEF BoxWritten, Added
    <3>4. \/ c.box.uuid \in DOMAIN mailbox /\ mailbox[c.box.uuid].plain.fileKey = c.key
          \/ \E n \in DOMAIN c.todo : c.todo[n].kind = "mailbox" /\ c.todo[n].id = c.box.uuid
      BY <2>1, <2>5 DEF RevokeReads
    <3>5. CASE c.box.uuid \in DOMAIN mailbox /\ mailbox[c.box.uuid].plain.fileKey = c.key
      <4>1. c.box.uuid \in DOMAIN mailbox' /\ mailbox'[c.box.uuid].plain.fileKey = c.key
        BY <1>1, <3>3, <3>5 DEF Added
      <4> QED
        BY <1>2, <2>3, <2>5, <3>2, <4>1 DEF RevokeReads
    <3>6. ASSUME NEW n \in DOMAIN c.todo, c.todo[n].kind = "mailbox", c.todo[n].id = c.box.uuid
          PROVE  \/ c.box.uuid \in DOMAIN mailbox' /\ mailbox'[c.box.uuid].plain.fileKey = c.key
                 \/ \E k \in DOMAIN d.todo : d.todo[k].kind = "mailbox" /\ d.todo[k].id = c.box.uuid
      BY <1>2, <1>3, <3>3, <3>6
    <3> QED
      BY <1>2, <2>3, <2>5, <3>2, <3>4, <3>5, <3>6 DEF RevokeReads
  <2> QED
    BY <2>4, <2>5
<1>7. Rekeys(d) <=> Rekeys(c)
  BY <1>2 DEF Rekeys
<1> QED
  BY <1>2, <1>4, <1>5, <1>6, <1>7

LEMMA OwnerWritten ==
    ASSUME NEW s \in Sessions, NEW c, NEW d, NEW w, NEW h, OwnWrite(s, c, d, w, h), BInv'
    PROVE  OInv(h)'
<1>1. /\ InCall(s) /\ c = call[s] /\ WroteFirst(c, d, w)
  BY OwnFacts
<1>2. access'[OwnerSlot] # Absent
  <2>1. /\ OwnerSlot \in Slots /\ w \in Writes /\ access[OwnerSlot] # Absent
        /\ \/ access'[OwnerSlot] = access[OwnerSlot]
           \/ w.kind = "access" /\ access'[OwnerSlot] = w.record
    BY OwnerIs, CircleAssumption DEF OwnWrite, OInv, Written, OwnerSlot, Slots
  <2> QED
    BY <2>1, AbsentAssumption DEF Writes, Sealed
<1>3. \A i \in DOMAIN inode' : ~Rekeying(i, call') =>
          SealedAs(inode'[i].plain.blocks, inode'[i].key, block')
  BY InodesSealed
<1>4. \A f \in Filenames : access'[<<Owner, f>>] # Absent =>
          LET m == access'[<<Owner, f>>].plain.box.uuid
          IN  /\ There(h.to[m], inode', call')
              /\ ~Replacing(h.to[m], call') => BoxReads(m, h.to[m], mailbox', inode')
  BY RecordsRead
<1>5. ASSUME NEW t \in Sessions, call'[t] # Absent
      PROVE  CallReads(sessions'[t].name, call'[t], h, mailbox', inode', block', call')
  <2>1. CASE t # s
    <3>1. call'[t] = call[t] /\ sessions'[t].name = Who(t) /\ InCall(t)
      BY <1>5, <2>1 DEF OwnWrite, Written, Who, InCall
    <3>2. Who(t) = Owner /\ Holds(call[t]) /\ call[t].op = "CreateInvitation" =>
              InviteReads(call[t], h, mailbox', inode', call')
      BY <3>1, InvitesRead
    <3>3. call[t].op = "StoreFile" => StoreReads(call[t], mailbox')
      BY <2>1, <3>1, OthersStore
    <3>4. call[t].op \in {"StoreFile", "AppendToFile"} => InodeReads(call[t], block')
      BY <2>1, <3>1, OthersSeal
    <3>5. Rekeys(call[t]) => RevokeReads(call[t], mailbox', inode', block')
      BY <2>1, <3>1, OthersRevoke
    <3> QED
      BY <3>1, <3>2, <3>3, <3>4, <3>5 DEF CallReads
  <2>2. CASE t = s
    <3>1. call'[s] = d /\ sessions'[s].name = Who(s)
      BY <1>5, <2>2 DEF OwnWrite, Written
    <3>2. d.op = c.op /\ d.acc = c.acc /\ d.at = c.at
      BY <1>1 DEF WroteFirst, WroteAll, Wrote
    <3>3. Holds(d) <=> Holds(c)
      BY <3>2 DEF Holds
    <3>4. Who(s) = Owner /\ Holds(c) /\ c.op = "CreateInvitation" =>
              InviteReads(c, h, mailbox', inode', call')
      BY <1>1, InvitesRead
    <3>5. Who(s) = Owner /\ Holds(d) /\ d.op = "CreateInvitation" =>
              InviteReads(d, h, mailbox', inode', call')
      BY <3>2, <3>3, <3>4 DEF InviteReads
    <3>6. /\ d.op = "StoreFile" => StoreReads(d, mailbox')
          /\ d.op \in {"StoreFile", "AppendToFile"} => InodeReads(d, block')
          /\ Rekeys(d) => RevokeReads(d, mailbox', inode', block')
      BY WriterReads
    <3> QED
      BY <2>2, <3>1, <3>5, <3>6 DEF CallReads
  <2> QED
    BY <2>1, <2>2
<1>6. \A t \in Sessions : InCall(t)' =>
          CallReads(Who(t)', call'[t], h, mailbox', inode', block', call')
  BY <1>5 DEF InCall, Who
<1> QED
  BY <1>2, <1>3, <1>4, <1>6 DEF OInv

LEMMA UnbrokenStep ==
    ASSUME CTypeOK, BInv, BInv', AInv, MInv, NEW s \in Sessions,
           BeginCall(s) \/ Step(s) \/ Lost(s) \/ Comes(s), Unbroken',
           NEW h \in Labels, LInv(h), AtHome(h), KeysHeld, OInv(h)
    PROVE  OInv(h)'
<1>1. Unbroken /\ Orderly
  BY StepRemembers, StaysOrderly DEF Unbroken
<1>2. CASE BeginCall(s)
  <2>1. PICK d : Begins(s, d) /\ (BeginsReading(s, d) \/ BeginsStoring(s, d))
    BY <1>2, CallsBegin
  <2>2. Goes(s, d) /\ ~InCall(s)
    BY <2>1 DEF Begins
  <2>3. CallReads(Who(s), d, h, mailbox, inode, block, call)
    BY <2>1, OwnerBegins
  <2> QED
    BY <2>2, <2>3, OwnerGoes
<1>3. ASSUME Goes(s, Absent), InCall(s) => call[s].op # "StoreFile" /\ ~Rekeys(call[s])
      PROVE  OInv(h)'
  BY <1>3, OwnerGoes
<1>4. CASE Lost(s)
  <2>1. call[s].op \in died'
    BY <1>4 DEF Lost
  <2>2. call[s].op \notin {"RevokeAccess", "StoreFile"}
    BY <2>1 DEF Unbroken
  <2> QED
    BY <1>3, <1>4, <2>2, LostGoes DEF Rekeys
<1>5. CASE Comes(s)
  BY <1>3, <1>5, ComesGoes
<1>6. CASE Reading(s)
  <2>1. InCall(s) /\ call[s].todo = <<>> /\ Moves(s)
    BY <1>6, ReadingStays, ReadingMoves
  <2>2. StoresInode(call[s], inode) /\ call[s] \in Calls
    BY <2>1, CallType DEF AInv, OwnInodes, Fits
  <2>3. call[s].op # "StoreFile"
    BY <2>1, <2>2 DEF StoresInode
  <2>4. CASE Ends(s)
    <3>1. GivesUp(call[s]) /\ Goes(s, Absent)
      BY <2>4 DEF Ends
    <3>2. ~Rekeys(call[s])
      <4>1. SUFFICES ASSUME Rekeys(call[s]) PROVE FALSE
        OBVIOUS
      <4>2. /\ call[s].at = "reseal" /\ call[s].left # <<>>
            /\ ~OpensBlock(Head(call[s].left), call[s].node)
        BY <3>1, <4>1 DEF GivesUp, Rekeys
      <4>3. RevokeReads(call[s], mailbox, inode, block)
        BY <2>1, <4>1 DEF OInv, CallReads
      <4>4. call[s].left \in Seq(Nat)
        BY <2>2 DEF Calls
      <4>5. /\ Head(call[s].left) \in DOMAIN block
            /\ block[Head(call[s].left)].key = getFileKeys(call[s].node.fileKey)
        BY <4>2, <4>3, <4>4, ResealReads
      <4> QED
        BY <4>2, <4>5 DEF OpensBlock, decrypts
    <3> QED
      BY <1>3, <2>3, <3>1, <3>2
  <2>5. ASSUME NEW d \in Calls, Goes(s, d), Fits(d), SameCall(call[s], d),
               MovesTo(sessions[s], call[s], d)
        PROVE  OInv(h)'
    <3>1. /\ CallReads(Who(s), d, h, mailbox, inode, block, call)
          /\ Rekeys(call[s]) => StillRekeys(call[s], d)
      BY <1>1, <2>1, <2>5, OwnerMoves
    <3> QED
      BY <2>3, <2>5, <3>1, OwnerGoes
  <2> QED
    BY <2>1, <2>4, <2>5 DEF Moves
<1>7. CASE SetNext(s)
  <2>1. PICK c, d, w : WritesNext(s, c, d, w)
    BY <1>7, SetNextWrites
  <2>2. Written(s, c, d, w)
    BY <2>1, WritesMine
  <2>3. OwnWrite(s, c, d, w, h)
    BY <1>1, <2>1, <2>2 DEF OwnWrite
  <2> QED
    BY <2>3, OwnerWritten
<1> QED
  BY <1>2, <1>4, <1>5, <1>6, <1>7 DEF Step, Reading

-----------------------------------------------------------------------------
(* The steps together, the set-up, and what follows. *)

SInv(g) ==
    /\ LInv(g)
    /\ Orderly => AtHome(g) /\ KeysHeld
    /\ Thorough => CutInv(g)
    /\ Unbroken => OInv(g)

(* At first everybody with the file reads it. *)
LEMMA OwnerStarts ==
    ASSUME ClientsInit, NEW g, LInv(g)
    PROVE  OInv(g)
<1>1. CTypeOK /\ BInv /\ KInv /\ SetUp
  BY ClientsStart, KeysStart DEF ClientsInit
<1>2. /\ \A s \in Sessions : ~InCall(s)
      /\ begun = {} /\ died = {}
  BY DEF ClientsInit, InCall
<1>3. AllKeyed /\ AllThere
  BY <1>1, <1>2 DEF KInv, Calm, Called
<1>4. access[OwnerSlot] # Absent
  BY <1>1, OwnerIs, FirstAccess DEF OwnerSlot
<1>5. ASSUME NEW i \in DOMAIN inode
      PROVE  SealedAs(inode[i].plain.blocks, inode[i].key, block)
  <2>1. inode[i].key = getFileKeys(i - 1) /\ KeyedAs(inode[i].plain.blocks, i - 1, block)
    BY <1>3 DEF AllKeyed, StoresKeyed
  <2>2. Exist(inode[i].plain.blocks, block)
    BY <1>1 DEF BInv, InodesBacked
  <2> QED
    BY <2>1, <2>2 DEF KeyedAs, Exist, SealedAs
<1>6. ASSUME NEW f \in Filenames, access[<<Owner, f>>] # Absent
      PROVE  LET m == access[<<Owner, f>>].plain.box.uuid
             IN  There(g.to[m], inode, call) /\ BoxReads(m, g.to[m], mailbox, inode)
  <2> DEFINE x == <<Owner, f>>
             m == access[x].plain.box.uuid
             i == g.to[m]
  <2>1. x \in Slots
    BY OwnerIs DEF Slots
  <2>2. Leads(access[x].plain.box, mailbox)
    BY <1>3, <1>6, <2>1 DEF AllKeyed, StoresKeyed
  <2> HIDE DEF m
  <2>3. m \in DOMAIN mailbox
    BY <2>2 DEF Leads, m
  <2>4. mailbox[m].plain.inode = i
    BY <2>3 DEF LInv, MailboxFits
  <2>5. There(i, inode, call)
    BY <1>3, <2>3, <2>4 DEF AllThere
  <2>6. i \in DOMAIN inode
    BY <1>2, <2>5 DEF There, InCall
  <2>7. inode[i].key = getFileKeys(i - 1) /\ MailFits(m, mailbox[m])
    BY <1>3, <2>3, <2>6 DEF AllKeyed, StoresKeyed
  <2>8. mailbox[m].plain.fileKey = i - 1
    <3>1. OpensMailbox(access[x].plain.box)
      BY <2>2, <2>7 DEF Leads, MailFits, OpensMailbox, decrypts, m
    <3>2. mailbox[m].plain \in MailboxNode
      BY <1>1, <3>1, ReadTypes DEF CTypeOK, m
    <3>3. mailbox[m].plain.fileKey \in Nat /\ i = mailbox[m].plain.fileKey + 1
      BY <2>4, <2>7, <3>2 DEF MailFits, NodeFits, MailboxNode
    <3> HIDE DEF i
    <3> QED
      BY <3>3
  <2>9. BoxReads(m, i, mailbox, inode)
    BY <2>3, <2>6, <2>7, <2>8 DEF BoxReads, KeyOf
  <2> QED
    BY <2>5, <2>9 DEF m
<1> QED
  BY <1>2, <1>4, <1>5, <1>6 DEF OInv

LEMMA SharingStart ==
    ASSUME ClientsInit
    PROVE  \E g \in Labels : SInv(g)
<1>1. PICK g \in Labels : FirstLabels(g)
  BY FirstLabelsExist
<1>2. LInv(g)
  BY <1>1, LabelsStart
<1>3. \A s \in Sessions : ~InCall(s)
  BY DEF ClientsInit, InCall
<1>4. ASSUME NEW f \in Filenames, access[<<Owner, f>>] # Absent
      PROVE  f = FileName /\ access[<<Owner, f>>].plain.box.uuid \in Nat
  <2>1. <<Owner, f>> \in Slots
    BY OwnerIs DEF Slots
  <2>2. AccessFits(access[<<Owner, f>>].plain, <<Owner, f>>[1], g, fresh)
    BY <1>2, <1>4, <2>1 DEF LInv
  <2>3. f = FileName
    BY <1>4, <2>1, FirstAccess DEF ClientsInit
  <2> QED
    BY <2>2, <2>3 DEF AccessFits, PointerFits, Drawn
<1>5. AtHome(g)
  <2>1. ASSUME NEW f \in Filenames, access[<<Owner, f>>] # Absent
        PROVE  Homely(access[<<Owner, f>>].plain, f, g)
    <3> DEFINE m == access[<<Owner, f>>].plain.box.uuid
    <3>1. m \in Nat /\ f = FileName
      BY <1>4, <2>1
    <3>2. g.to[m] \in Nat
      BY <3>1, LabelsType
    <3>3. g.home[g.to[m]] = f /\ g.made[m] = "StoreFile"
      BY <1>1, <3>1, <3>2 DEF FirstLabels
    <3> QED
      BY <3>3 DEF Homely
  <2> QED
    BY <1>3, <2>1 DEF AtHome
<1>6. KeysHeld
  BY <1>3 DEF KeysHeld
<1>7. revoked = {}
  BY DEF ClientsInit
<1>8. \A u, i : ~Cut(u, i, revoked, call)
  BY <1>7 DEF Cut
<1>9. CutInv(g)
  BY <1>3, <1>7, <1>8 DEF CutInv, Clean
<1>10. OInv(g)
  BY <1>2, OwnerStarts
<1> QED
  BY <1>2, <1>5, <1>6, <1>9, <1>10 DEF SInv

LEMMA SharingStep ==
    ASSUME CTypeOK, BInv, BInv', AInv, MInv, NEW s \in Sessions,
           BeginCall(s) \/ Step(s) \/ Lost(s) \/ Comes(s), NEW g \in Labels, SInv(g)
    PROVE  \E h \in Labels : SInv(h)'
<1>1. LInv(g) /\ Remembers
  BY StepRemembers DEF SInv
<1>2. PICK h \in Labels : Agree(g, h, fresh) /\ LInv(h)'
  BY <1>1, LabelsStep
<1>3. LInv(h)
  BY <1>1, <1>2, LabelsAgree
<1>4. (Orderly' => Orderly) /\ (Thorough' => Thorough) /\ (Unbroken' => Unbroken)
  BY <1>1, StaysOrderly
<1>5. Orderly => AtHome(h) /\ KeysHeld
  BY <1>1, <1>2, HomeAgree DEF SInv
<1>6. Thorough => CutInv(h) /\ Orderly
  BY <1>1, <1>2, CutAgree DEF SInv, Thorough
<1>7. Orderly' => AtHome(h)' /\ KeysHeld'
  BY <1>3, <1>4, <1>5, OrderlyStep
<1>8. Thorough' => CutInv(h)'
  BY <1>3, <1>4, <1>5, <1>6, ThoroughStep
<1>9. Unbroken => OInv(h) /\ Orderly
  BY <1>1, <1>2, OwnerAgree DEF SInv, Unbroken
<1>10. Unbroken' => OInv(h)'
  BY <1>3, <1>4, <1>5, <1>9, UnbrokenStep
<1>11. SInv(h)'
  BY <1>2, <1>7, <1>8, <1>10 DEF SInv
<1> QED
  BY <1>11

LEMMA SharingStutter ==
    ASSUME NEW g \in Labels, SInv(g), UNCHANGED <<vars, progress>>
    PROVE  SInv(g)'
<1>1. /\ UNCHANGED <<access, mailbox, inode, invitation, block, sessions, fresh, call>>
      /\ UNCHANGED <<revoked, begun, mixed, died>>
  BY DEF vars, progress, history
<1>2. LInv(g)' <=> LInv(g)
  BY <1>1 DEF LInv, InCall, Who
<1>3. (Orderly' <=> Orderly) /\ (Thorough' <=> Thorough) /\ (Unbroken' <=> Unbroken)
  BY <1>1 DEF Orderly, Thorough, Unbroken, OnlyOwnerRevokes, Overlapped
<1>4. (AtHome(g)' <=> AtHome(g)) /\ (KeysHeld' <=> KeysHeld)
  BY <1>1 DEF AtHome, KeysHeld, InCall, Who
<1>5. CutInv(g)' <=> CutInv(g)
  BY <1>1 DEF CutInv, InCall, Who
<1>6. OInv(g)' <=> OInv(g)
  BY <1>1 DEF OInv, InCall, Who
<1> QED
  BY <1>2, <1>3, <1>4, <1>5, <1>6 DEF SInv

(* What all steps of the calls in service.go preserve: there is an account *)
(* of whose each mailbox is, which inode it leads to and which inode each  *)
(* block belongs to that fits the datastore and the calls in progress; as  *)
(* long as revocations are orderly, nobody who has been revoked holds the  *)
(* key of the inode, nor is handed it by a call in progress, and the owner *)
(* holds it, or the RevokeAccess that is giving the inode a new key will   *)
(* hand it over.  All this unless a Set was refused.                       *)
THEOREM SharingInductive == ClientsSpec => [](Heeded => \E g \in Labels : SInv(g))
<1> DEFINE Old == CTypeOK /\ (Heeded => BInv /\ AInv /\ KInv) /\ (Heeded => MInv /\ (Tended => TInv))
           Inv == Heeded => \E g \in Labels : SInv(g)
<1>1. ClientsInit => Inv
  BY SharingStart
<1>2. Old /\ Old' /\ Inv /\ [ClientsNext]_allVars => Inv'
  <2> SUFFICES ASSUME Old, Old', Inv, [ClientsNext]_allVars, Heeded'
               PROVE  \E h \in Labels : SInv(h)'
    OBVIOUS
  <2>1. CTypeOK /\ BInv /\ BInv' /\ AInv /\ MInv /\ Heeded
    BY NextIs
  <2>2. PICK g \in Labels : SInv(g)
    BY <2>1
  <2>3. CASE UNCHANGED <<vars, progress>>
    BY <2>2, <2>3, SharingStutter
  <2>4. ASSUME NEW s \in Sessions, BeginCall(s) \/ Step(s) \/ Lost(s) \/ Comes(s)
        PROVE  \E h \in Labels : SInv(h)'
    BY <2>1, <2>2, <2>4, SharingStep
  <2> QED
    BY <2>3, <2>4, NextIs
<1> QED
  BY <1>1, <1>2, KeysInductive, IdentitiesInductive, PTL DEF ClientsSpec

LEMMA CutOut ==
    ASSUME CTypeOK, MInv, NEW g \in Labels, SInv(g)
    PROVE  RevokedStayOut
<1> SUFFICES ASSUME Quiet, Thorough, NEW u \in Users \ {Owner}, NEW f \in Filenames,
                    access[<<u, f>>] # Absent, OpensMailbox(access[<<u, f>>].plain.box),
                    <<u, mailbox[access[<<u, f>>].plain.box.uuid].plain.inode>> \in revoked,
                    CanRead(u, f)
             PROVE  FALSE
  BY DEF RevokedStayOut, Thorough, Orderly
<1> DEFINE x == <<u, f>>
           m == access[x].plain.box.uuid
<1>1. LInv(g) /\ CutInv(g) /\ x \in Slots
  BY DEF SInv, Slots
<1>2. x[1] = u /\ x[1] \in Range(Circle)
  BY <1>1 DEF MInv
<1>3. m \in DOMAIN mailbox
  BY DEF OpensMailbox
<1>4. AccessFits(access[x].plain, u, g, fresh)
  BY <1>1, <1>2 DEF LInv
<1>5. g.of[m] = u
  BY <1>4 DEF AccessFits, PointerFits
<1>6. mailbox[m].plain.inode = g.to[m]
  BY <1>1, <1>3 DEF LInv, MailboxFits
<1>7. Cut(g.of[m], g.to[m], revoked, call)
  BY <1>2, <1>5, <1>6 DEF Cut, Inviting, Quiet
<1>8. ~LiveIn(mailbox, inode, m)
  BY <1>1, <1>3, <1>7 DEF CutInv
<1>9. LiveIn(mailbox, inode, m)
  BY DEF CanRead, OpensInode, decrypts, LiveIn
<1> QED
  BY <1>8, <1>9

(* RevokedStayOut for any number of users, sessions, files and calls: once *)
(* RevokeAccess (service.go) has returned to the owner, the revoked user   *)
(* does not read the file under any name, whatever the calls in between,   *)
(* unless invited again, as long as only the owner revokes, holds the file *)
(* under one name, no revocation overlapped another one, an append or an   *)
(* invitation, their late Sets included, no CreateInvitation was cut short *)
(* and no Set was refused.                                                 *)
THEOREM RevokedUsersStayOut == ClientsSpec => []RevokedStayOut
<1>1. /\ CTypeOK /\ (Heeded => MInv /\ (Tended => TInv))
      /\ Heeded => \E g \in Labels : SInv(g)
      => RevokedStayOut
  BY CutOut DEF RevokedStayOut, Heeded
<1> QED
  BY <1>1, KeysInductive, IdentitiesInductive, SharingInductive, PTL

LEMMA OwnerIn ==
    ASSUME CTypeOK, BInv, NEW g \in Labels, SInv(g)
    PROVE  OwnerReads
<1> SUFFICES ASSUME Quiet, Unbroken PROVE CanRead(Owner, FileName)
  BY DEF OwnerReads, Unbroken, Orderly
<1> DEFINE x == <<Owner, FileName>>
           p == access[x].plain.box
           m == p.uuid
           i == g.to[m]
           node == mailbox[m].plain
<1>1. LInv(g) /\ OInv(g) /\ x \in Slots /\ FileName \in Filenames /\ x[1] = Owner
  BY OwnerIs, CircleAssumption DEF SInv, Slots
<1>2. \A j : ~Rekeying(j, call) /\ ~Replacing(j, call)
  BY DEF Quiet, Rekeying, Replacing
<1>3. access[x] # Absent
  BY <1>1 DEF OInv, OwnerSlot
<1>4. There(i, inode, call) /\ BoxReads(m, i, mailbox, inode)
  BY <1>1, <1>2, <1>3 DEF OInv
<1>5. PointerFits(p, Owner, g, fresh)
  BY <1>1, <1>3 DEF LInv, AccessFits
<1> HIDE DEF p
<1>6. m \in DOMAIN mailbox /\ i \in DOMAIN inode
  BY <1>4 DEF There, Quiet, BoxReads
<1>7. MailboxFits(m, mailbox[m], g, fresh)
  BY <1>1, <1>6 DEF LInv
<1>8. OpensMailbox(p)
  BY <1>5, <1>6, <1>7 DEF PointerFits, MailboxFits, OpensMailbox, decrypts
<1>9. node.inode = i /\ inode[i].key = getFileKeys(node.fileKey)
  BY <1>4, <1>6, <1>7 DEF MailboxFits, BoxReads, KeyOf
<1>10. SealedAs(inode[i].plain.blocks, getFileKeys(node.fileKey), block)
  BY <1>1, <1>2, <1>6, <1>9 DEF OInv
<1>11. Exist(inode[i].plain.blocks, block)
  BY <1>6 DEF BInv, InodesBacked
<1> HIDE DEF node, i
<1>12. OpensInode(node)
  BY <1>6, <1>9 DEF OpensInode, decrypts
<1>13. OpensBlocks(node)
  BY <1>9, <1>10, <1>11 DEF OpensBlocks, SealedAs, Exist, decrypts, Range
<1> QED
  BY <1>3, <1>8, <1>12, <1>13 DEF CanRead, p, node

(* OwnerReads for any number of users, sessions, files and calls: when no  *)
(* call is in progress the owner opens the mailbox, the inode and every    *)
(* block of the shared file (service.go), whatever was stored, appended,   *)
(* shared and revoked before, as long as only the owner revokes and has    *)
(* accepted nothing in its place, no revocation overlapped another one, an *)
(* append or an invitation, their late Sets included, nobody died inside   *)
(* RevokeAccess or StoreFile and no Set was refused.                       *)
THEOREM OwnerKeepsReading == ClientsSpec => []OwnerReads
<1>1. /\ CTypeOK /\ (Heeded => BInv /\ AInv /\ KInv)
      /\ Heeded => \E g \in Labels : SInv(g)
      => OwnerReads
  BY OwnerIn DEF OwnerReads, Heeded
<1> QED
  BY <1>1, KeysInductive, SharingInductive, PTL
====
