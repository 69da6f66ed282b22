---------------------------- MODULE SerialClients ----------------------------
(* ConcurrentClients with one call at a time and no deaths, next to        *)
(* ShareLock: executed alone, a method's storage calls add up to the one   *)
(* action that ShareLock gives it.                                         *)
EXTENDS ConcurrentClients

VARIABLE before   \* the state in which the call in progress began

State == [accounts |-> accounts, access |-> access, mailbox |-> mailbox,
          inode |-> inode, block |-> block, invitation |-> invitation,
          sessions |-> sessions, fresh |-> fresh]

SerialInit == ClientsInit /\ before = State

SerialNext ==
    \E s \in Sessions :
        \/ Quiet /\ BeginCall(s) /\ before' = State /\ UNCHANGED clients
        \/ Step(s) /\ UNCHANGED <<before, clients>>

SerialSpec == SerialInit /\ [][SerialNext]_<<allVars, before>>

Seen == IF Quiet THEN State ELSE before

Atomic == INSTANCE ShareLock WITH
    accounts <- Seen.accounts, access <- Seen.access, mailbox <- Seen.mailbox,
    inode <- Seen.inode, block <- Seen.block, invitation <- Seen.invitation,
    sessions <- Seen.sessions, fresh <- Seen.fresh

(* A StoreFile, AppendToFile, CreateInvitation, AcceptInvitation or        *)
(* RevokeAccess that nobody disturbs does to the datastore what the action *)
(* of that name in ShareLock does, or nothing when it returns an error;    *)
(* LoadFile changes nothing.                                               *)
ImplementsShareLock == [][Atomic!Next]_(Atomic!vars)
=============================================================================
