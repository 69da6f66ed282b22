---------------------------- MODULE Registration ----------------------------
(***************************************************************************)
(* UserService.InitUser step by step, with the key stores under it: every  *)
(* app.Client has a UserlibKeyStore with a local cache in front of the     *)
(* shared public-key store.  Connected to a server, the shared store       *)
(* overwrites a key; in memory it refuses one that is taken, and the       *)
(* error is dropped by UserlibKeyStore.Set either way.                     *)
(*                                                                         *)
(* An attempt to register draws one number, which stands for the key pairs *)
(* it generates: the public halves go to the key store, the private halves *)
(* into the user struct.                                                   *)
(*                                                                         *)
(* A client may die inside one of its three Sets, which the server then    *)
(* applies later (ClientDies and HandleSet of KVServer); the call counts   *)
(* as going on until it does.  A Set the server refuses looks like any     *)
(* other to InitUser: datastoreSet drops the status, UserlibKeyStore.Set   *)
(* the error.                                                              *)
(***************************************************************************)
EXTENDS Naturals, FiniteSets

CONSTANTS
    Users, Clients, Absent,
    MaxAttempts, MaxCrashes, MaxRefusals, MaxTests   \* bounds

ASSUME BoundsAssumption ==
    /\ {MaxAttempts, MaxCrashes, MaxRefusals, MaxTests} \subseteq Nat
    /\ Absent \notin Nat
    /\ Absent \notin [user : Users, keys : Nat, at : {"check", "enc", "sig", "struct"}]

VARIABLES
    connected,   \* remoteAddr is set: the processes share a server
    account,     \* the user struct: the attempt whose private keys it holds
    published,   \* shared store: <name>_enc_pub and <name>_sig_pub
    cache,       \* the local map of each client's UserlibKeyStore
    attempt,     \* the InitUser call each client is in
    late,        \* clients that died in a Set the server still has to apply
    succeeded,   \* <<user, attempt>> of the calls that returned a user
    drawn, crashes, tests,
    contended,   \* names that two calls were registering at the same time
    refused,     \* <<user, attempt, step>> of the Sets the server refused
    leftover     \* in memory: names whose keys an earlier test has left

bounds  == <<drawn, crashes, tests>>
regVars == <<connected, account, published, cache, attempt, late, succeeded, bounds,
             contended, refused, leftover>>

Half   == {"enc", "sig"}
Sets   == Half \cup {"struct"}
NoKeys == [half \in Half |-> Absent]

(* UserlibKeyStore.Get: the local cache first, then the shared store.      *)
Lookup(c, u, half) ==
    IF cache[c][u][half] # Absent THEN cache[c][u][half] ELSE published[u][half]

(* The client is in a call, before one of these steps. *)
At(c, steps) == attempt[c] # Absent /\ c \notin late /\ attempt[c].at \in steps

Registering(u) == \E c \in Clients : attempt[c] # Absent /\ attempt[c].user = u

-----------------------------------------------------------------------------
(* The call begins; nothing has been looked up yet. *)
Begin(c, u) ==
    /\ attempt[c] = Absent
    /\ drawn < MaxAttempts
    /\ drawn' = drawn + 1
    /\ contended' = IF Registering(u) THEN contended \cup {u} ELSE contended
    /\ attempt' = [attempt EXCEPT ![c] = [user |-> u, keys |-> drawn + 1, at |-> "check"]]
    /\ UNCHANGED <<connected, account, published, cache, late, succeeded, crashes, tests,
                   refused, leftover>>

(* Slip: the name is looked up in the client's own cache. *)
CheckLocally(c) ==
    LET r == attempt[c]
    IN  /\ At(c, {"check"})
        /\ attempt' = [attempt EXCEPT ![c] = IF cache[c][r.user] # NoKeys THEN Absent
                                             ELSE [r EXCEPT !.at = "enc"]]
        /\ UNCHANGED <<connected, account, published, cache, late, succeeded, bounds,
                       contended, refused, leftover>>

(* storage.Get(userUUID): "user already exists". *)
Check(c) ==
    LET r == attempt[c]
    IN  /\ At(c, {"check"})
        /\ attempt' = [attempt EXCEPT ![c] = IF account[r.user] # Absent THEN Absent
                                             ELSE [r EXCEPT !.at = "enc"]]
        /\ UNCHANGED <<connected, account, published, cache, late, succeeded, bounds,
                       contended, refused, leftover>>

(* Slip: connected, too, a key that is taken is not overwritten. *)
KeystoreSetOnce(u, half, key) ==
    published' = [published EXCEPT ![u][half] = IF @ = Absent THEN key ELSE @]

(* keystoreSet. *)
KeystoreSet(u, half, key) ==
    published' = [published EXCEPT ![u][half] =
                      IF connected \/ @ = Absent THEN key ELSE @]

(* The server answers this Set of an attempt with an error. *)
Refuse(r) ==
    /\ connected /\ Cardinality(refused) < MaxRefusals
    /\ refused' = refused \cup {<<r.user, r.keys, r.at>>}

(* UserlibKeyStore.Set, for the encryption key and then the verification   *)
(* key.  The error of KeystoreSet is dropped and the registration goes on. *)
SetKey(c) ==
    LET r == attempt[c]
    IN  /\ At(c, Half)
        /\ cache' = [cache EXCEPT ![c][r.user][r.at] = r.keys]
        /\ \/ KeystoreSet(r.user, r.at, r.keys) /\ UNCHANGED refused
           \/ Refuse(r) /\ UNCHANGED published
        /\ attempt' = [attempt EXCEPT ![c].at = IF @ = "enc" THEN "sig" ELSE "struct"]
        /\ UNCHANGED <<connected, account, late, succeeded, bounds, contended, leftover>>

(* storage.Set(userUUID, payload), whose status is dropped; the user is    *)
(* returned.                                                               *)
SetStruct(c) ==
    LET r == attempt[c]
    IN  /\ At(c, {"struct"})
        /\ \/ account' = [account EXCEPT ![r.user] = r.keys] /\ UNCHANGED refused
           \/ Refuse(r) /\ UNCHANGED account
        /\ succeeded' = succeeded \cup {<<r.user, r.keys>>}
        /\ attempt' = [attempt EXCEPT ![c] = Absent]
        /\ UNCHANGED <<connected, published, cache, late, bounds, contended, leftover>>

(* A client process dies: its cache dies with it. *)
Dies(c) ==
    /\ connected
    /\ crashes < MaxCrashes
    /\ crashes' = crashes + 1
    /\ cache' = [cache EXCEPT ![c] = [u \in Users |-> NoKeys]]
    /\ UNCHANGED <<connected, account, published, succeeded, drawn, tests, contended,
                   refused, leftover>>

(* It dies inside InitUser, and nothing of the call is under way. *)
Crash(c) ==
    /\ At(c, {"check"} \cup Sets)
    /\ Dies(c)
    /\ attempt' = [attempt EXCEPT ![c] = Absent]
    /\ UNCHANGED late

(* It dies waiting for the reply to a Set that the server has received and *)
(* not yet applied (readStatus panics, or the process is killed).          *)
CrashInSet(c) ==
    /\ At(c, Sets)
    /\ Dies(c)
    /\ late' = late \cup {c}
    /\ UNCHANGED attempt

(* The server's handler applies that Set; nobody waits for the reply.      *)
LateSet(c) ==
    LET r == attempt[c]
    IN  /\ c \in late
        /\ IF r.at = "struct"
           THEN account' = [account EXCEPT ![r.user] = r.keys] /\ UNCHANGED published
           ELSE KeystoreSet(r.user, r.at, r.keys) /\ UNCHANGED account
        /\ attempt' = [attempt EXCEPT ![c] = Absent]
        /\ late' = late \ {c}
        /\ UNCHANGED <<connected, cache, succeeded, bounds, contended, refused, leftover>>

(* In memory, a test ends: the next one begins with new clients and an     *)
(* empty datastore (datastoreClear), and with an empty keystore if it      *)
(* calls keystoreClear.  Connected, both functions do nothing.             *)
NextTest(clearKeystore) ==
    /\ ~connected
    /\ tests < MaxTests
    /\ \A c \in Clients : attempt[c] = Absent
    /\ tests' = tests + 1
    /\ account' = [u \in Users |-> Absent]
    /\ published' = IF clearKeystore THEN [u \in Users |-> NoKeys] ELSE published
    /\ cache' = [c \in Clients |-> [u \in Users |-> NoKeys]]
    /\ succeeded' = {}
    /\ contended' = {}
    /\ leftover' = {u \in Users : published'[u] # NoKeys}
    /\ UNCHANGED <<connected, attempt, late, drawn, crashes, refused>>

-----------------------------------------------------------------------------
RegInit ==
    /\ connected \in BOOLEAN
    /\ account = [u \in Users |-> Absent]
    /\ published = [u \in Users |-> NoKeys]
    /\ cache = [c \in Clients |-> [u \in Users |-> NoKeys]]
    /\ attempt = [c \in Clients |-> Absent]
    /\ late = {} /\ succeeded = {}
    /\ drawn = 0 /\ crashes = 0 /\ tests = 0
    /\ contended = {} /\ refused = {} /\ leftover = {}

RegNext ==
    \/ \E c \in Clients : \/ \E u \in Users : Begin(c, u)
                          \/ Check(c) \/ SetKey(c) \/ SetStruct(c)
                          \/ Crash(c) \/ CrashInSet(c) \/ LateSet(c)
    \/ \E clear \in BOOLEAN : NextTest(clear)

RegSpec == RegInit /\ [][RegNext]_regVars

-----------------------------------------------------------------------------
(* The private keys in a user struct belong to the public keys that every  *)
(* client finds under the name, in its own cache or in the shared store:   *)
(* an earlier attempt that died between or inside two of InitUser's writes *)
(* leaves no key behind that an invitation would be encrypted for or       *)
(* verified with.  The exceptions: two calls were registering the name at  *)
(* the same time (a dead client's last Set counts until it is applied),    *)
(* the server refused a key of this registration, or, in memory, a test    *)
(* began without clearing the keystore; and a client whose own             *)
(* registration of the name was returned to it though its struct was       *)
(* refused goes on with the keys it has cached.                            *)
KeysAgreed ==
    \A u \in Users \ (contended \cup leftover) :
        /\ account[u] # Absent
        /\ \A half \in Half : <<u, account[u], half>> \notin refused
        => \A c \in Clients, half \in Half :
               \/ Lookup(c, u, half) = account[u]
               \/ <<u, cache[c][u][half], "struct">> \in refused

(* "re-initializing an existing user returns an error": of all the calls   *)
(* that register one name at most one returns a user whose struct the      *)
(* server has taken, however many clients died in it before, inside a Set  *)
(* or between two, unless two of them overlapped.                          *)
OneRegistration ==
    \A u \in Users \ contended :
        Cardinality({x \in succeeded : x[1] = u /\ <<u, x[2], "struct">> \notin refused}) <= 1
=============================================================================
