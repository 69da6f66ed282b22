------------------------------- MODULE Naming -------------------------------
(***************************************************************************)
(* The names of the records that are not under a random UUID, and the keys *)
(* they are sealed with.  A user struct is stored under the hash of        *)
(* username + "userStruct" and an access record under the hash of          *)
(* username + filename, in one datastore; both are sealed with keys        *)
(* derived from the user's master key.  A hash or a derived key stands for *)
(* what it is taken of, and a text is a sequence of letters: what matters  *)
(* is which concatenations coincide.                                       *)
(***************************************************************************)
EXTENDS Naturals, Sequences

CONSTANTS
    Users, Filenames,  \* texts: sequences of letters
    Passwords,
    userStruct,        \* the text "userStruct"
    Absent,
    MaxStores          \* bound

VARIABLES
    datastore,   \* the record under each UUID: its sealing key and what it holds
    sessions,    \* the User values InitUser and GetUser have returned
    last,        \* what each user has stored last under each filename; 0: nothing
    stores       \* StoreFile calls so far; each stores a content of its own

nameVars == <<datastore, sessions, last, stores>>

userUUID(u)      == u \o userStruct
accessUUID(u, f) == u \o f
UUIDs == {userUUID(u) : u \in Users} \cup {accessUUID(u, f) : u \in Users, f \in Filenames}

(* Argon2Key, salted with the hash of the username. *)
masterKey(u, p) == [salt |-> u, password |-> p]

(* The keys derived from a master key: for the user struct, and for the    *)
(* access record of a file (getPersonalKey).                               *)
structKey(m)      == [for |-> "struct", master |-> m]
personalKey(m, f) == [for |-> "access", master |-> m, file |-> f]

Sealed(key, value) == [key |-> key, holds |-> value]

(* decryptAndVerify succeeds on the record under this UUID. *)
Opens(uuid, key) == datastore[uuid] # Absent /\ datastore[uuid].key = key

-----------------------------------------------------------------------------
NamingInit ==
    /\ datastore = [k \in UUIDs |-> Absent]
    /\ sessions = {}
    /\ last = [x \in Users \X Filenames |-> 0]
    /\ stores = 0

(* The check that the name is free looks for any record under the UUID. *)
InitUser(u, p) ==
    LET user == [Username |-> u, MasterKey |-> masterKey(u, p)]
    IN  /\ datastore[userUUID(u)] = Absent
        /\ datastore' = [datastore EXCEPT ![userUUID(u)] = Sealed(structKey(user.MasterKey), user)]
        /\ sessions' = sessions \cup {user}
        /\ UNCHANGED <<last, stores>>

GetUser(u, p) ==
    /\ Opens(userUUID(u), structKey(masterKey(u, p)))
    /\ sessions' = sessions \cup {datastore[userUUID(u)].holds}
    /\ UNCHANGED <<datastore, last, stores>>

(* The access record is written, and at the end the user struct (saveUser).*)
StoreFile(user, f) ==
    LET u == user.Username
        m == user.MasterKey
    IN  /\ stores < MaxStores
        /\ stores' = stores + 1
        /\ last' = [last EXCEPT ![<<u, f>>] = stores']
        /\ datastore' = [datastore EXCEPT
               ![accessUUID(u, f)] = Sealed(personalKey(m, f), stores'),
               ![userUUID(u)]      = Sealed(structKey(m), user)]
        /\ UNCHANGED sessions

NamingNext ==
    \/ \E u \in Users, p \in Passwords : InitUser(u, p) \/ GetUser(u, p)
    \/ \E user \in sessions, f \in Filenames : StoreFile(user, f)

NamingSpec == NamingInit /\ [][NamingNext]_nameVars

-----------------------------------------------------------------------------
(* "Any unauthorized modification or tampering is instantly detected":     *)
(* whatever other users register and store, under names whose              *)
(* concatenations coincide or not, a record that opens for LoadFile holds  *)
(* what this user has stored last under this filename, and one that opens  *)
(* for GetUser is this user's struct.  A record that another user's has    *)
(* replaced is an error, never taken for one's own.                        *)
CollisionsDetected ==
    /\ \A user \in sessions, f \in Filenames :
           LET uuid == accessUUID(user.Username, f)
           IN  Opens(uuid, personalKey(user.MasterKey, f))
                   => datastore[uuid].holds = last[<<user.Username, f>>]
    /\ \A u \in Users, p \in Passwords :
           Opens(userUUID(u), structKey(masterKey(u, p)))
               => datastore[userUUID(u)].holds.Username = u

(* "verifies basic lifecycle" and "basic round-trip", for all users: what  *)
(* a user has registered and stored is found under its name and opens,     *)
(* whatever other users register and store.                                *)
RecordsKept ==
    \A user \in sessions :
        /\ Opens(userUUID(user.Username), structKey(user.MasterKey))
        /\ \A f \in Filenames :
               last[<<user.Username, f>>] # 0 =>
                   Opens(accessUUID(user.Username, f), personalKey(user.MasterKey, f))
=============================================================================
