----------------------------- MODULE MCRevocation -----------------------------
(* Instances of Revocation for TLC. *)
EXTENDS Revocation, ShareLockRefinement

CONSTANTS alice, bob, carol, dan, a

ShortContents == {<<a>>}

UserSymmetry == Permutations(Users)

(* Every user has one session, which is his for good.  Who registers at    *)
(* all registers before the first file is stored.  What this leaves out, a *)
(* failed invitation to a user who registers later and logins of several   *)
(* users in several sessions, is in the states of the run over             *)
(* MCShareLock.                                                            *)
InOwnSession == \A s \in Sessions : sessions'[s] = Absent \/ sessions'[s].name = s

RegistersEarly == keystore' = keystore \/ mailbox = <<>>

OwnSessionsSpec == HInit /\ [][HNext /\ InOwnSession /\ RegistersEarly]_allVars

(* The ordinary use of sharing: nobody is invited to a file that came to   *)
(* the inviting user through him, and a user revokes a sharee of his own.  *)
InvitesOutward == \A m \in DOMAIN line' : IsInjective(line'[m])

RevokesOwnSharee ==
    \A x \in Slots :
        (access[x] # Absent /\ access'[x].plain.box.uuid \notin DOMAIN mailbox
             /\ DOMAIN inode' = DOMAIN inode) =>
            \E c \in Users : /\ access[x].plain.children[c] # Absent
                             /\ access'[x].plain.children[c] = Absent

OrdinarySpec == HInit /\ [][HNext /\ InvitesOutward /\ RevokesOwnSharee]_allVars

(* A state that InitUser reaches: everyone has registered, in some order,  *)
(* in a session of his own, and keeps it.                                  *)
Registered(order) ==
    LET me(u) == [name |-> u, pke |-> 2 * order[u] - 1, ds |-> 2 * order[u],
                  master |-> <<u, CHOOSE p \in Passwords : TRUE>>, files |-> {}]
    IN  /\ accounts = [u \in Users |-> encryptAndMAC(me(u), getUserKeys(me(u).master))]
        /\ keystore = [u \in Users |-> [enc |-> me(u).pke, sig |-> me(u).ds]]
        /\ sessions = [u \in Users |-> me(u)]
        /\ fresh = 2 * Cardinality(Users) + 1

RegisteredInit ==
    /\ \E order \in Bijection(Users, 1..Cardinality(Users)) : Registered(order)
    /\ access = [x \in Slots |-> Absent]
    /\ mailbox = <<>> /\ inode = <<>> /\ block = <<>> /\ invitation = <<>>
    /\ line = <<>> /\ root = <<>> /\ cut = {}

EveryoneSpec ==
    RegisteredInit /\ [][HNext /\ InOwnSession /\ InvitesOutward /\ RevokesOwnSharee]_allVars
=============================================================================
