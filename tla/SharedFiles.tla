----------------------------- MODULE SharedFiles -----------------------------
(***************************************************************************)
(* What the ShareLock services promise, without cryptography, records or   *)
(* sessions.  A file is a list of chunks.  Users reach files through       *)
(* capabilities: a name of a user refers to one capability, a capability   *)
(* to one file, and only a capability in alive grants anything.  Each name *)
(* keeps the capabilities its user has handed out (kids); revoking through *)
(* a name kills every capability of the file but a new one for the         *)
(* revoking user and the kids of that name other than the revoked user's.  *)
(***************************************************************************)
EXTENDS Naturals, Sequences

CONSTANTS
    Users, Filenames,
    Chunkings,    \* what is stored or appended: lists of chunks
    None          \* no capability

VARIABLES
    registered,   \* the users that exist
    handle,       \* [Users \X Filenames -> capability or None]
    kids,         \* [Users \X Filenames -> [Users -> capability or None]]
    target,       \* capability -> file
    alive,        \* the capabilities that open their file
    content,      \* file -> list of chunks
    offer         \* invitation -> [to, from, cap]

vars == <<registered, handle, kids, target, alive, content, offer>>

Names  == Users \X Filenames
NoKids == [u \in Users |-> None]

With(fun, x, y) == [z \in DOMAIN fun \cup {x} |-> IF z = x THEN y ELSE fun[z]]

Init ==
    /\ registered = {}
    /\ handle = [n \in Names |-> None]
    /\ kids = [n \in Names |-> NoKids]
    /\ target = <<>>
    /\ alive = {}
    /\ content = <<>>
    /\ offer = <<>>

Register(u) ==
    /\ registered' = registered \cup {u}
    /\ UNCHANGED <<handle, kids, target, alive, content, offer>>

Store(u, f, chunks, cap, file) ==
    /\ u \in registered
    /\ cap \notin DOMAIN target
    /\ file \notin DOMAIN content
    /\ handle' = [handle EXCEPT ![<<u, f>>] = cap]
    /\ kids' = [kids EXCEPT ![<<u, f>>] = NoKids]
    /\ target' = With(target, cap, file)
    /\ alive' = alive \cup {cap}
    /\ content' = With(content, file, chunks)
    /\ UNCHANGED <<registered, offer>>

Extend(u, f, chunks) ==
    /\ handle[<<u, f>>] \in alive
    /\ LET file == target[handle[<<u, f>>]]
       IN  content' = [content EXCEPT ![file] = @ \o chunks]
    /\ UNCHANGED <<registered, handle, kids, target, alive, offer>>

(* The new capability is worth as much as the one it is made from. *)
Mint(u, f, cap) ==
    /\ handle[<<u, f>>] # None
    /\ cap \notin DOMAIN target
    /\ target' = With(target, cap, target[handle[<<u, f>>]])
    /\ alive' = IF handle[<<u, f>>] \in alive THEN alive \cup {cap} ELSE alive
    /\ UNCHANGED <<registered, handle, content>>

Offer(u, f, r, cap, o) ==
    /\ Mint(u, f, cap)
    /\ r \in registered
    /\ o \notin DOMAIN offer
    /\ kids' = [kids EXCEPT ![<<u, f>>][r] = cap]
    /\ offer' = With(offer, o, [to |-> r, from |-> u, cap |-> cap])

(* A capability minted for somebody who does not exist belongs to nobody. *)
OfferFails(u, f, r, cap) ==
    /\ Mint(u, f, cap)
    /\ r \notin registered
    /\ UNCHANGED <<kids, offer>>

Accept(u, o, f) ==
    /\ offer[o].to = u
    /\ handle' = [handle EXCEPT ![<<u, f>>] = offer[o].cap]
    /\ kids' = [kids EXCEPT ![<<u, f>>] = NoKids]
    /\ UNCHANGED <<registered, target, alive, content, offer>>

Revoke(u, f, r, cap) ==
    LET file == target[handle[<<u, f>>]]
        kept == {kids[<<u, f>>][c] : c \in Users \ {r}} \ {None}
    IN  /\ handle[<<u, f>>] \in alive
        /\ cap \notin DOMAIN target
        /\ handle' = [handle EXCEPT ![<<u, f>>] = cap]
        /\ kids' = [kids EXCEPT ![<<u, f>>][r] = None]
        /\ target' = With(target, cap, file)
        /\ alive' = {c \in alive : target[c] # file} \cup kept \cup {cap}
        /\ UNCHANGED <<registered, content, offer>>

(* The new identifiers are whichever the step itself introduces. *)
Next ==
    \/ \E u \in Users : Register(u)
    \/ \E u \in Users, f \in Filenames, cs \in Chunkings :
           \/ Extend(u, f, cs)
           \/ \E cap \in DOMAIN target', file \in DOMAIN content' :
                  Store(u, f, cs, cap, file)
    \/ \E u, r \in Users, f \in Filenames, cap \in DOMAIN target' :
           \/ \E o \in DOMAIN offer' : Offer(u, f, r, cap, o)
           \/ OfferFails(u, f, r, cap)
           \/ Revoke(u, f, r, cap)
    \/ \E u \in Users, f \in Filenames, o \in DOMAIN offer : Accept(u, o, f)

Spec == Init /\ [][Next]_vars
=============================================================================
