------------------------- MODULE RegistrationProofs -------------------------
(* Registration for any number of users, clients, attempts, deaths, late   *)
(* and refused Sets and tests.                                             *)
EXTENDS Registration, FiniteSetTheorems, TLAPS

MaybeKey == Nat \cup {Absent}
Attempts == [user : Users, keys : Nat, at : {"check", "enc", "sig", "struct"}]

RegTypeOK ==
    /\ connected \in BOOLEAN
    /\ account \in [Users -> MaybeKey]
    /\ published \in [Users -> [Half -> MaybeKey]]
    /\ cache \in [Clients -> [Users -> [Half -> MaybeKey]]]
    /\ attempt \in [Clients -> Attempts \cup {Absent}]
    /\ drawn \in Nat
    /\ late \subseteq Clients

(* Who died inside a Set was connected and has no cache any more, and its  *)
(* attempt waits for the server.                                           *)
LateWait ==
    \A c \in late :
        /\ connected /\ attempt[c] # Absent /\ attempt[c].at \in Sets
        /\ \A u \in Users, half \in Half : cache[c][u][half] = Absent

(* Attempt r has got as far as having set this half of its key pair. *)
HasSet(r, half) == r.at = "struct" \/ (r.at = "sig" /\ half = "enc")

On(c, u) == attempt[c] # Absent /\ attempt[c].user = u

(* Of a name over which no two calls have met, one client at a time is     *)
(* registering, and past its check only while the name is free.            *)
OneAttempt ==
    \A u \in Users \ contended :
        /\ \A c, d \in Clients : On(c, u) /\ On(d, u) => c = d
        /\ \A c \in Clients : On(c, u) /\ attempt[c].at # "check" => account[u] = Absent

(* The calls that have returned a user are the one whose struct is stored, *)
(* and those whose struct was refused.                                     *)
OneAccount ==
    \A u \in Users \ contended, x \in succeeded :
        x[1] = u => \/ <<u, x[2], "struct">> \in refused
                    \/ account[u] # Absent /\ x = <<u, account[u]>>

(* A cached key is the registered one, or its client is about to register  *)
(* it, or has done so with a struct that was refused.                      *)
CachesAgree ==
    \A u \in Users \ contended, c \in Clients, half \in Half :
        cache[c][u][half] # Absent /\ <<u, cache[c][u][half], "struct">> \notin refused =>
            IF account[u] # Absent THEN cache[c][u][half] = account[u]
            ELSE /\ On(c, u) /\ HasSet(attempt[c], half)
                 /\ cache[c][u][half] = attempt[c].keys

(* A public key that was not refused is where its attempt has put it.      *)
StoreAgrees ==
    \A u \in Users \ (contended \cup leftover), half \in Half :
        /\ account[u] # Absent /\ <<u, account[u], half>> \notin refused
               => published[u][half] = account[u]
        /\ \A c \in Clients :
               /\ On(c, u) /\ HasSet(attempt[c], half)
               /\ <<u, attempt[c].keys, half>> \notin refused
               => published[u][half] = attempt[c].keys

(* In memory nobody dies: a key that is in the store is one of the         *)
(* registered user or of the attempt that is going on.                     *)
MemoryFree ==
    ~connected =>
        \A u \in Users \ (contended \cup leftover), half \in Half :
            published[u][half] # Absent /\ account[u] = Absent =>
                \E c \in Clients : On(c, u) /\ HasSet(attempt[c], half)

RegInv == /\ RegTypeOK /\ LateWait /\ OneAttempt /\ OneAccount
          /\ CachesAgree /\ StoreAgrees /\ MemoryFree

-----------------------------------------------------------------------------
LEMMA RegStart == RegInit => RegInv
<1> SUFFICES ASSUME RegInit PROVE RegInv
  OBVIOUS
<1>1. RegTypeOK
  BY DEF RegInit, RegTypeOK, NoKeys, MaybeKey
<1>2. LateWait /\ OneAttempt /\ OneAccount
  BY DEF RegInit, LateWait, OneAttempt, OneAccount, On
<1>3. CachesAgree /\ StoreAgrees /\ MemoryFree
  BY DEF RegInit, CachesAgree, StoreAgrees, MemoryFree, On, NoKeys
<1> QED
  BY <1>1, <1>2, <1>3 DEF RegInv

(* A call begins on a name that nobody is registering, or contends for it. *)
LEMMA BeginKeeps ==
    ASSUME RegInv, NEW c \in Clients, NEW u \in Users, Begin(c, u)
    PROVE  RegInv'
<1> DEFINE new == [user |-> u, keys |-> drawn + 1, at |-> "check"]
<1>1. new \in Attempts /\ new # Absent /\ attempt[c] = Absent
  BY BoundsAssumption DEF RegInv, RegTypeOK, Attempts, Begin
<1>2. \A d \in Clients : attempt'[d] = IF d = c THEN new ELSE attempt[d]
  BY DEF RegInv, RegTypeOK, Begin
<1>3. new.user = u /\ new.at = "check"
  OBVIOUS
<1>4. RegTypeOK'
  BY <1>1 DEF RegInv, RegTypeOK, Begin
<1> HIDE DEF new
<1>5. UNCHANGED <<connected, account, published, cache, late, succeeded, refused, leftover>>
  BY DEF Begin
<1>6. \A v \in Users \ contended' : v \in Users \ contended /\ (v = u => ~Registering(u))
  BY DEF Begin
<1>7. \A d \in Clients, v \in Users \ contended' :
          On(d, v)' => \/ d = c /\ v = u /\ attempt'[d].at = "check"
                       \/ d # c /\ attempt'[d] = attempt[d] /\ On(d, v)
  BY <1>1, <1>2, <1>3, <1>6 DEF On
<1>8. \A v : \A d \in Clients : On(d, v) => On(d, v)' /\ attempt'[d] = attempt[d]
  BY <1>1, <1>2 DEF On
<1>9. OneAttempt'
  BY <1>5, <1>6, <1>7 DEF RegInv, OneAttempt, Registering, On
<1>10. OneAccount'
  BY <1>5, <1>6 DEF RegInv, OneAccount
<1>11. CachesAgree'
  BY <1>5, <1>6, <1>8 DEF RegInv, CachesAgree
<1>12. StoreAgrees'
  BY <1>5, <1>6, <1>7 DEF RegInv, StoreAgrees, HasSet
<1>13. MemoryFree'
  BY <1>5, <1>6, <1>8 DEF RegInv, MemoryFree
<1>14. LateWait'
  BY <1>1, <1>2, <1>5 DEF RegInv, RegTypeOK, LateWait
<1> QED
  BY <1>4, <1>9, <1>10, <1>11, <1>12, <1>13, <1>14 DEF RegInv

(* The check ends the call when the name is taken. *)
LEMMA CheckKeeps ==
    ASSUME RegInv, NEW c \in Clients, Check(c)
    PROVE  RegInv'
<1> DEFINE r == attempt[c]
<1>1. /\ r \in Attempts /\ r # Absent /\ r.at = "check" /\ r.user \in Users
      /\ c \notin late
  BY DEF RegInv, RegTypeOK, Attempts, Check, At
<1>2. UNCHANGED <<connected, account, published, cache, late, succeeded, contended, refused,
                  leftover, drawn>>
  BY DEF Check, bounds
<1>3. \A d \in Clients : d # c => attempt'[d] = attempt[d]
  BY DEF RegInv, RegTypeOK, Check
<1>4. \/ attempt'[c] = Absent
      \/ /\ attempt'[c] \in Attempts /\ attempt'[c] # Absent
         /\ attempt'[c].user = r.user /\ attempt'[c].keys = r.keys /\ attempt'[c].at = "enc"
         /\ account[r.user] = Absent
  <2>1. CASE account[r.user] # Absent
    BY <2>1 DEF RegInv, RegTypeOK, Check
  <2>2. CASE account[r.user] = Absent
    <3>1. attempt'[c] = [r EXCEPT !.at = "enc"]
      BY <2>2 DEF RegInv, RegTypeOK, Check
    <3>2. [r EXCEPT !.at = "enc"] \in Attempts
      BY <1>1 DEF Attempts
    <3> QED
      BY <1>1, <2>2, <3>1, <3>2, BoundsAssumption DEF Attempts
  <2> QED
    BY <2>1, <2>2
<1>5. RegTypeOK'
  <2>1. attempt' \in [Clients -> Attempts \cup {Absent}]
    BY <1>3, <1>4 DEF RegInv, RegTypeOK, Check
  <2> QED
    BY <1>2, <2>1 DEF RegInv, RegTypeOK
<1>6. \A d \in Clients, v \in Users :
          On(d, v)' =>
              /\ On(d, v)
              /\ \/ d = c /\ attempt'[d].at = "enc" /\ account[v] = Absent
                 \/ d # c /\ attempt'[d] = attempt[d]
  BY <1>1, <1>3, <1>4 DEF On
<1>7. \A d \in Clients, v \in Users, half \in Half :
          On(d, v) /\ HasSet(attempt[d], half) => On(d, v)' /\ attempt'[d] = attempt[d]
  BY <1>1, <1>3 DEF On, HasSet
<1>8. OneAttempt'
  BY <1>2, <1>6 DEF RegInv, OneAttempt
<1>9. OneAccount'
  BY <1>2 DEF RegInv, OneAccount
<1>10. CachesAgree'
  BY <1>2, <1>7 DEF RegInv, CachesAgree, HasSet
<1>11. StoreAgrees'
  <2>1. \A d \in Clients, v \in Users, half \in Half :
            On(d, v)' /\ HasSet(attempt'[d], half) => On(d, v) /\ attempt'[d] = attempt[d]
    BY <1>6 DEF HasSet
  <2> QED
    BY <1>2, <2>1 DEF RegInv, StoreAgrees
<1>12. MemoryFree'
  BY <1>2, <1>7 DEF RegInv, MemoryFree
<1>13. LateWait'
  BY <1>1, <1>2, <1>3 DEF RegInv, RegTypeOK, LateWait
<1> QED
  BY <1>5, <1>8, <1>9, <1>10, <1>11, <1>12, <1>13 DEF RegInv

(* A key goes into the client's cache, and into the shared store unless it *)
(* is refused there.                                                       *)
LEMMA SetKeyKeeps ==
    ASSUME RegInv, NEW c \in Clients, SetKey(c)
    PROVE  RegInv'
<1> DEFINE r == attempt[c]
           u == r.user
           h == r.at
<1>1. /\ r \in Attempts /\ r # Absent /\ h \in Half /\ u \in Users /\ r.keys \in Nat
      /\ c \notin late
  BY DEF RegInv, RegTypeOK, Attempts, SetKey, At
<1>2. r.keys # Absent
  BY <1>1, BoundsAssumption
<1>3. UNCHANGED <<connected, account, late, succeeded, contended, leftover, drawn>>
  BY DEF SetKey, bounds
<1>4. /\ \A d \in Clients : d # c => attempt'[d] = attempt[d]
      /\ attempt'[c] \in Attempts /\ attempt'[c] # Absent
      /\ attempt'[c].user = u /\ attempt'[c].keys = r.keys
      /\ attempt'[c].at = IF h = "enc" THEN "sig" ELSE "struct"
  <2>1. attempt'[c] = [r EXCEPT !.at = IF @ = "enc" THEN "sig" ELSE "struct"]
    BY DEF RegInv, RegTypeOK, SetKey
  <2>2. [r EXCEPT !.at = IF @ = "enc" THEN "sig" ELSE "struct"] \in Attempts
    BY <1>1 DEF Attempts, Half
  <2>3. \A d \in Clients : d # c => attempt'[d] = attempt[d]
    BY DEF RegInv, RegTypeOK, SetKey
  <2> QED
    BY <1>1, <2>1, <2>2, <2>3, BoundsAssumption DEF Attempts
<1>5. /\ \A d \in Clients, v \in Users, half \in Half :
             cache'[d][v][half] = IF d = c /\ v = u /\ half = h THEN r.keys
                                  ELSE cache[d][v][half]
      /\ cache' \in [Clients -> [Users -> [Half -> MaybeKey]]]
  BY <1>1 DEF SetKey, RegInv, RegTypeOK, MaybeKey
<1>6. /\ published' \in [Users -> [Half -> MaybeKey]]
      /\ \A v \in Users, half \in Half :
             ~(v = u /\ half = h) => published'[v][half] = published[v][half]
      /\ \/ /\ connected \/ published[u][h] = Absent
            /\ published'[u][h] = r.keys
         \/ ~connected /\ published[u][h] # Absent
         \/ connected /\ <<u, r.keys, h>> \in refused'
  <2>1. published \in [Users -> [Half -> MaybeKey]] /\ r.keys \in MaybeKey
    BY <1>1 DEF RegInv, RegTypeOK, MaybeKey
  <2>2. CASE KeystoreSet(u, h, r.keys)
    <3> DEFINE k == IF connected \/ published[u][h] = Absent THEN r.keys ELSE published[u][h]
    <3>1. published' = [published EXCEPT ![u] = [published[u] EXCEPT ![h] = k]]
      BY <2>2 DEF KeystoreSet
    <3>2. k \in MaybeKey
      BY <1>1, <2>1
    <3> HIDE DEF k
    <3>3. /\ published' \in [Users -> [Half -> MaybeKey]]
          /\ published'[u][h] = k
          /\ \A v \in Users, half \in Half :
                 ~(v = u /\ half = h) => published'[v][half] = published[v][half]
      BY <1>1, <2>1, <3>1, <3>2
    <3> QED
      BY <3>3 DEF k
  <2>3. CASE UNCHANGED published /\ connected /\ refused' = refused \cup {<<u, r.keys, h>>}
    BY <2>1, <2>3
  <2> QED
    BY <2>2, <2>3 DEF SetKey, Refuse
<1>7. refused \subseteq refused'
  BY DEF SetKey, Refuse
<1>8. RegTypeOK'
  <2>1. attempt' \in [Clients -> Attempts \cup {Absent}]
    BY <1>4 DEF RegInv, RegTypeOK, SetKey
  <2> QED
    BY <1>3, <1>5, <1>6, <2>1 DEF RegInv, RegTypeOK
<1>9. \A d \in Clients, v \in Users :
          /\ On(d, v)' <=> On(d, v)
          /\ On(d, v) => attempt'[d].keys = attempt[d].keys
          /\ d # c => attempt'[d] = attempt[d]
  BY <1>1, <1>4 DEF On
<1>10. /\ On(c, u)
       /\ \A v \in Users : On(c, v) => v = u
       /\ \A half \in Half : HasSet(attempt'[c], half) <=> half = h \/ HasSet(r, half)
       /\ ~HasSet(r, h)
  BY <1>1, <1>4 DEF On, HasSet, Half
<1>11. u \notin contended => /\ account[u] = Absent
                             /\ \A d \in Clients : On(d, u) => d = c
  BY <1>1, <1>10 DEF RegInv, OneAttempt, Half
<1> HIDE DEF r, u, h
<1>12. OneAttempt'
  <2>1. \A d \in Clients, v \in Users \ contended : On(d, v) /\ attempt'[d].at # "check"
            => account[v] = Absent
    BY <1>9, <1>10, <1>11 DEF RegInv, OneAttempt
  <2> QED
    BY <1>3, <1>9, <2>1 DEF RegInv, OneAttempt
<1>13. OneAccount'
  BY <1>3, <1>7 DEF RegInv, OneAccount
<1>14. CachesAgree'
  <2> SUFFICES ASSUME NEW v \in Users \ contended, NEW d \in Clients, NEW half \in Half,
                      cache'[d][v][half] # Absent,
                      <<v, cache'[d][v][half], "struct">> \notin refused
               PROVE  IF account[v] # Absent THEN cache'[d][v][half] = account[v]
                      ELSE /\ On(d, v) /\ HasSet(attempt'[d], half)
                           /\ cache'[d][v][half] = attempt'[d].keys
    BY <1>3, <1>7, <1>9 DEF CachesAgree
  <2>1. CASE d = c /\ v = u /\ half = h
    BY <2>1, <1>1, <1>4, <1>5, <1>10, <1>11
  <2>2. CASE ~(d = c /\ v = u /\ half = h)
    <3>1. cache'[d][v][half] = cache[d][v][half]
      BY <1>5, <2>2
    <3>2. CASE account[v] # Absent
      BY <3>1, <3>2 DEF RegInv, CachesAgree
    <3>3. CASE account[v] = Absent
      <4>1. /\ On(d, v) /\ HasSet(attempt[d], half)
            /\ cache[d][v][half] = attempt[d].keys
        BY <3>1, <3>3 DEF RegInv, CachesAgree
      <4>2. HasSet(attempt'[d], half)
        BY <4>1, <1>9, <1>10 DEF r
      <4> QED
        BY <3>1, <3>3, <4>1, <4>2, <1>9
    <3> QED
      BY <3>2, <3>3
  <2> QED
    BY <2>1, <2>2
<1>15. StoreAgrees'
  <2> SUFFICES ASSUME NEW v \in Users \ (contended \cup leftover), NEW half \in Half
               PROVE  /\ account[v] # Absent /\ <<v, account[v], half>> \notin refused'
                             => published'[v][half] = account[v]
                      /\ \A d \in Clients :
                             /\ On(d, v) /\ HasSet(attempt'[d], half)
                             /\ <<v, attempt'[d].keys, half>> \notin refused'
                             => published'[v][half] = attempt'[d].keys
    BY <1>3, <1>9 DEF StoreAgrees
  <2>1. CASE v = u /\ half = h
    <3>1. account[v] = Absent /\ \A d \in Clients : On(d, v) => d = c
      BY <1>11, <2>1
    <3>2. ~connected => published[v][half] = Absent
      BY <1>10, <3>1, <2>1 DEF RegInv, MemoryFree, r
    <3>3. \/ published'[v][half] = r.keys
          \/ <<v, r.keys, half>> \in refused'
      BY <1>6, <3>2, <2>1
    <3> QED
      BY <1>4, <3>1, <3>3
  <2>2. CASE ~(v = u /\ half = h)
    <3>1. published'[v][half] = published[v][half]
      BY <1>6, <2>2
    <3>2. ASSUME NEW d \in Clients, On(d, v), HasSet(attempt'[d], half)
          PROVE  HasSet(attempt[d], half)
      BY <3>2, <1>9, <1>10, <2>2 DEF r
    <3> QED
      BY <1>7, <1>9, <3>1, <3>2 DEF RegInv, StoreAgrees
  <2> QED
    BY <2>1, <2>2
<1>16. MemoryFree'
  <2> SUFFICES ASSUME ~connected, NEW v \in Users \ (contended \cup leftover),
                      NEW half \in Half,
                      published'[v][half] # Absent, account[v] = Absent
               PROVE  \E d \in Clients : On(d, v) /\ HasSet(attempt'[d], half)
    BY <1>3, <1>9 DEF MemoryFree
  <2>1. CASE v = u /\ half = h
    BY <1>10, <2>1
  <2>2. CASE ~(v = u /\ half = h)
    <3>1. PICK d \in Clients : On(d, v) /\ HasSet(attempt[d], half)
      BY <1>6, <2>2 DEF RegInv, MemoryFree
    <3>2. HasSet(attempt'[d], half)
      BY <3>1, <1>9, <1>10 DEF r
    <3> QED
      BY <3>1, <3>2
  <2> QED
    BY <2>1, <2>2
<1>17. LateWait'
  BY <1>1, <1>3, <1>4, <1>5 DEF RegInv, RegTypeOK, LateWait
<1> QED
  BY <1>8, <1>12, <1>13, <1>14, <1>15, <1>16, <1>17 DEF RegInv

(* A Set of the struct ends the call: the struct is stored with the keys   *)
(* of its attempt, or refused.  What succeeds is that attempt or nothing.  *)
LEMMA StructEnds ==
    ASSUME RegInv, NEW c \in Clients, attempt[c] # Absent, attempt[c].at = "struct",
           UNCHANGED <<connected, published, cache, contended, leftover, drawn>>,
           \/ /\ account' = [account EXCEPT ![attempt[c].user] = attempt[c].keys]
              /\ UNCHANGED refused
           \/ /\ connected /\ UNCHANGED account
              /\ refused' = refused \cup {<<attempt[c].user, attempt[c].keys, "struct">>},
           \/ UNCHANGED succeeded
           \/ succeeded' = succeeded \cup {<<attempt[c].user, attempt[c].keys>>},
           attempt' = [attempt EXCEPT ![c] = Absent],
           late' = late \ {c}
    PROVE  RegInv'
<1> DEFINE r == attempt[c]
           u == r.user
<1>1. r \in Attempts /\ r # Absent /\ r.at = "struct" /\ u \in Users /\ r.keys \in Nat
  BY DEF RegInv, RegTypeOK, Attempts
<1>2. r.keys # Absent
  BY <1>1, BoundsAssumption
<1>3. refused \subseteq refused'
  OBVIOUS
<1>4. /\ attempt'[c] = Absent
      /\ \A d \in Clients : d # c => attempt'[d] = attempt[d]
  BY DEF RegInv, RegTypeOK
<1>5. /\ \A v \in Users : v # u => account'[v] = account[v]
      /\ \/ account'[u] = r.keys
         \/ /\ connected /\ account'[u] = account[u]
            /\ <<u, r.keys, "struct">> \in refused'
  BY <1>1 DEF RegInv, RegTypeOK
<1>6. UNCHANGED cache
  OBVIOUS
<1>7. RegTypeOK'
  <2>1. account' \in [Users -> MaybeKey]
    BY <1>1 DEF RegInv, RegTypeOK, MaybeKey
  <2> QED
    BY <2>1 DEF RegInv, RegTypeOK
<1>8. LateWait'
  BY <1>4, <1>6 DEF RegInv, RegTypeOK, LateWait
<1>9. /\ On(c, u)
      /\ \A v \in Users : On(c, v) => v = u
      /\ \A half \in Half : HasSet(r, half)
  BY <1>1 DEF On, HasSet
<1>10. \A d \in Clients, v \in Users :
          On(d, v)' => d # c /\ On(d, v) /\ attempt'[d] = attempt[d]
  BY <1>4 DEF On
<1>11. \A d \in Clients, v \in Users : d # c /\ On(d, v) => On(d, v)'
  BY <1>4 DEF On
<1>12. u \notin contended => /\ account[u] = Absent
                             /\ \A d \in Clients : On(d, u) => d = c
  BY <1>1, <1>9 DEF RegInv, OneAttempt
<1>13. \A x \in succeeded' : x \in succeeded \/ x = <<u, r.keys>>
  OBVIOUS
<1>14. UNCHANGED <<published, contended, leftover, connected>>
  OBVIOUS
<1> HIDE DEF r, u
<1>15. OneAttempt'
  BY <1>4, <1>5, <1>10, <1>12, <1>14 DEF RegInv, OneAttempt
<1>16. OneAccount'
  <2> SUFFICES ASSUME NEW v \in Users \ contended, NEW x \in succeeded', x[1] = v
               PROVE  \/ <<v, x[2], "struct">> \in refused'
                      \/ account'[v] # Absent /\ x = <<v, account'[v]>>
    BY <1>14 DEF OneAccount
  <2>1. CASE x = <<u, r.keys>>
    <3>1. v = u /\ x[2] = r.keys
      BY <2>1
    <3> QED
      BY <1>2, <1>5, <2>1, <3>1
  <2>2. CASE x \in succeeded /\ v = u
    BY <1>3, <1>12, <2>2 DEF RegInv, OneAccount
  <2>3. CASE x \in succeeded /\ v # u
    BY <1>3, <1>5, <2>3 DEF RegInv, OneAccount
  <2> QED
    BY <1>13, <2>1, <2>2, <2>3
<1>17. CachesAgree'
  <2> SUFFICES ASSUME NEW v \in Users \ contended, NEW d \in Clients, NEW half \in Half,
                      cache'[d][v][half] # Absent,
                      <<v, cache'[d][v][half], "struct">> \notin refused'
               PROVE  IF account'[v] # Absent THEN cache'[d][v][half] = account'[v]
                      ELSE /\ On(d, v)' /\ HasSet(attempt'[d], half)
                           /\ cache'[d][v][half] = attempt'[d].keys
    BY <1>14 DEF CachesAgree
  <2> DEFINE k == cache[d][v][half]
  <2>1. cache'[d][v][half] = k /\ k # Absent /\ <<v, k, "struct">> \notin refused
    BY <1>3, <1>6
  <2>2. IF account[v] # Absent THEN k = account[v]
        ELSE On(d, v) /\ HasSet(attempt[d], half) /\ k = attempt[d].keys
    BY <2>1 DEF RegInv, CachesAgree
  <2> HIDE DEF k
  <2>3. CASE v = u
    <3>1. d = c /\ k = r.keys
      BY <1>12, <2>2, <2>3 DEF r
    <3> QED
      BY <1>2, <1>5, <2>1, <2>3, <3>1
  <2>4. CASE v # u
    <3>1. CASE account[v] # Absent
      BY <1>5, <2>1, <2>2, <2>4, <3>1
    <3>2. CASE account[v] = Absent
      <4>1. d # c
        BY <1>9, <2>2, <2>4, <3>2
      <4> QED
        BY <1>4, <1>5, <1>11, <2>1, <2>2, <2>4, <3>2, <4>1
    <3> QED
      BY <3>1, <3>2
  <2> QED
    BY <2>3, <2>4
<1>18. StoreAgrees'
  <2> SUFFICES ASSUME NEW v \in Users \ (contended \cup leftover)', NEW half \in Half
               PROVE  /\ account'[v] # Absent /\ <<v, account'[v], half>> \notin refused'
                             => published'[v][half] = account'[v]
                      /\ \A d \in Clients :
                             /\ On(d, v)' /\ HasSet(attempt'[d], half)
                             /\ <<v, attempt'[d].keys, half>> \notin refused'
                             => published'[v][half] = attempt'[d].keys
    BY DEF StoreAgrees
  <2>1. CASE v = u
    <3>1. <<v, r.keys, half>> \notin refused => published[v][half] = r.keys
      BY <1>9, <1>14, <2>1 DEF RegInv, StoreAgrees, r
    <3> QED
      BY <1>3, <1>5, <1>14, <1>10, <1>12, <2>1, <3>1
  <2>2. CASE v # u
    BY <1>3, <1>5, <1>14, <1>10, <2>2 DEF RegInv, StoreAgrees
  <2> QED
    BY <2>1, <2>2
<1>19. MemoryFree'
  <2> SUFFICES ASSUME ~connected, NEW v \in Users \ (contended \cup leftover),
                      NEW half \in Half,
                      published[v][half] # Absent, account'[v] = Absent
               PROVE  \E d \in Clients : On(d, v)' /\ HasSet(attempt'[d], half)
    BY <1>14 DEF MemoryFree
  <2>1. v # u /\ account[v] = Absent
    BY <1>2, <1>5
  <2>2. PICK d \in Clients : On(d, v) /\ HasSet(attempt[d], half)
    BY <2>1 DEF RegInv, MemoryFree
  <2>3. d # c
    BY <1>9, <2>1, <2>2
  <2> QED
    BY <1>4, <1>11, <2>2, <2>3
<1> QED
  BY <1>7, <1>8, <1>15, <1>16, <1>17, <1>18, <1>19 DEF RegInv

(* The call that stores the struct, or believes it has. *)
LEMMA SetStructKeeps ==
    ASSUME RegInv, NEW c \in Clients, SetStruct(c)
    PROVE  RegInv'
<1>1. attempt[c] # Absent /\ attempt[c].at = "struct" /\ c \notin late
  BY DEF SetStruct, At
<1>2. late' = late \ {c}
  BY <1>1 DEF SetStruct, RegInv, RegTypeOK
<1>3. \/ /\ account' = [account EXCEPT ![attempt[c].user] = attempt[c].keys]
         /\ UNCHANGED refused
      \/ /\ connected /\ UNCHANGED account
         /\ refused' = refused \cup {<<attempt[c].user, attempt[c].keys, "struct">>}
  BY <1>1 DEF SetStruct, Refuse
<1> QED
  BY <1>1, <1>2, <1>3, StructEnds DEF SetStruct, bounds

(* A client dies: its cache is gone, and its attempt unless the server has *)
(* a Set of it to apply; what it has put into the shared store stays.      *)
LEMMA DeathKeeps ==
    ASSUME RegInv, NEW c \in Clients, Crash(c) \/ CrashInSet(c)
    PROVE  RegInv'
<1>1. UNCHANGED <<connected, account, published, succeeded, contended, refused, leftover,
                  drawn>>
  BY DEF Crash, CrashInSet, Dies
<1>2. /\ attempt'[c] = Absent \/ attempt'[c] = attempt[c]
      /\ \A d \in Clients : d # c => attempt'[d] = attempt[d]
      /\ \A v \in Users, half \in Half : cache'[c][v][half] = Absent
      /\ \A d \in Clients : d # c => cache'[d] = cache[d]
  BY DEF Crash, CrashInSet, Dies, RegInv, RegTypeOK, NoKeys
<1>3. RegTypeOK'
  <2>1. cache' \in [Clients -> [Users -> [Half -> MaybeKey]]]
    <3>1. [u \in Users |-> NoKeys] \in [Users -> [Half -> MaybeKey]]
      BY DEF MaybeKey, NoKeys
    <3>2. cache' = [cache EXCEPT ![c] = [u \in Users |-> NoKeys]]
      BY DEF Crash, CrashInSet, Dies
    <3> QED
      BY <3>1, <3>2 DEF RegInv, RegTypeOK
  <2>2. attempt' \in [Clients -> Attempts \cup {Absent}] /\ late' \subseteq Clients
    BY DEF Crash, CrashInSet, RegInv, RegTypeOK
  <2> QED
    BY <1>1, <2>1, <2>2 DEF RegInv, RegTypeOK
<1>4. LateWait'
  <2>1. CASE Crash(c)
    BY <1>1, <1>2, <2>1 DEF Crash, At, RegInv, RegTypeOK, LateWait
  <2>2. CASE CrashInSet(c)
    BY <1>1, <1>2, <2>2 DEF CrashInSet, Dies, At, RegInv, RegTypeOK, LateWait
  <2> QED
    BY <2>1, <2>2
<1>5. \A d \in Clients, v \in Users : On(d, v)' => On(d, v) /\ attempt'[d] = attempt[d]
  BY <1>2 DEF On
<1>6. \A d \in Clients, v \in Users : d # c /\ On(d, v) => On(d, v)'
  BY <1>2 DEF On
<1>7. OneAttempt'
  BY <1>1, <1>5 DEF RegInv, OneAttempt
<1>8. OneAccount'
  BY <1>1 DEF RegInv, OneAccount
<1>9. CachesAgree'
  <2> SUFFICES ASSUME NEW v \in Users \ contended, NEW d \in Clients, NEW half \in Half,
                      cache'[d][v][half] # Absent,
                      <<v, cache'[d][v][half], "struct">> \notin refused
               PROVE  IF account[v] # Absent THEN cache'[d][v][half] = account[v]
                      ELSE /\ On(d, v)' /\ HasSet(attempt'[d], half)
                           /\ cache'[d][v][half] = attempt'[d].keys
    BY <1>1 DEF CachesAgree
  <2>1. d # c /\ cache'[d] = cache[d] /\ attempt'[d] = attempt[d]
    BY <1>2
  <2> QED
    BY <1>6, <2>1 DEF RegInv, CachesAgree
<1>10. StoreAgrees'
  BY <1>1, <1>5 DEF RegInv, StoreAgrees
<1>11. MemoryFree'
  BY <1>1 DEF Crash, CrashInSet, Dies, MemoryFree
<1> QED
  BY <1>3, <1>4, <1>7, <1>8, <1>9, <1>10, <1>11 DEF RegInv

(* The last Set of a dead client reaches the store, while nobody else has  *)
(* begun to register the name or the name is contended.                    *)
LEMMA LateSetKeeps ==
    ASSUME RegInv, NEW c \in Clients, LateSet(c)
    PROVE  RegInv'
<1> DEFINE r == attempt[c]
           u == r.user
           h == r.at
<1>1. /\ c \in late /\ connected /\ h \in Sets
      /\ r \in Attempts /\ r # Absent /\ u \in Users /\ r.keys \in Nat
  BY DEF LateSet, RegInv, RegTypeOK, LateWait, Attempts
<1>2. CASE h = "struct"
  <2>1. account' = [account EXCEPT ![attempt[c].user] = attempt[c].keys]
    BY <1>2 DEF LateSet
  <2> QED
    BY <1>1, <1>2, <2>1, StructEnds DEF LateSet, bounds
<1>3. CASE h # "struct"
  <2>1. UNCHANGED <<connected, account, cache, succeeded, contended, refused, leftover, drawn>>
    BY <1>3 DEF LateSet, bounds
  <2>2. h \in Half /\ KeystoreSet(u, h, r.keys)
    BY <1>1, <1>3 DEF LateSet, Sets
  <2>3. /\ published' \in [Users -> [Half -> MaybeKey]]
        /\ \A v \in Users, half \in Half : v # u => published'[v][half] = published[v][half]
    BY <1>1, <2>2 DEF KeystoreSet, RegInv, RegTypeOK, MaybeKey
  <2>4. attempt'[c] = Absent /\ \A d \in Clients : d # c => attempt'[d] = attempt[d]
    BY DEF LateSet, RegInv, RegTypeOK
  <2>5. RegTypeOK'
    BY <2>1, <2>3 DEF LateSet, RegInv, RegTypeOK
  <2>6. LateWait'
    BY <2>1, <2>4 DEF LateSet, RegInv, RegTypeOK, LateWait
  <2>7. On(c, u) /\ \A v \in Users : On(c, v) => v = u
    BY <1>1 DEF On
  <2>8. \A d \in Clients, v \in Users :
            On(d, v)' => d # c /\ On(d, v) /\ attempt'[d] = attempt[d]
    BY <2>4 DEF On
  <2>9. \A d \in Clients, v \in Users : d # c /\ On(d, v) => On(d, v)'
    BY <2>4 DEF On
  <2>10. u \notin contended => /\ account[u] = Absent
                               /\ \A d \in Clients : On(d, u) => d = c
    BY <1>1, <2>2, <2>7 DEF RegInv, OneAttempt, Half
  <2> HIDE DEF r, u, h
  <2>12. OneAttempt'
    BY <2>1, <2>8 DEF RegInv, OneAttempt
  <2>13. OneAccount'
    BY <2>1 DEF RegInv, OneAccount
  <2>14. CachesAgree'
    <3> SUFFICES ASSUME NEW v \in Users \ contended, NEW d \in Clients, NEW half \in Half,
                        cache[d][v][half] # Absent,
                        <<v, cache[d][v][half], "struct">> \notin refused,
                        account[v] = Absent
                 PROVE  /\ On(d, v)' /\ HasSet(attempt'[d], half)
                        /\ cache[d][v][half] = attempt'[d].keys
      BY <2>1 DEF RegInv, CachesAgree
    <3>1. On(d, v) /\ HasSet(attempt[d], half) /\ cache[d][v][half] = attempt[d].keys
      BY DEF RegInv, CachesAgree
    <3>2. d # c
      BY <1>1 DEF RegInv, LateWait
    <3> QED
      BY <2>4, <2>9, <3>1, <3>2
  <2>15. StoreAgrees'
    <3> SUFFICES ASSUME NEW v \in Users \ (contended \cup leftover), NEW half \in Half
                 PROVE  /\ account[v] # Absent /\ <<v, account[v], half>> \notin refused
                               => published'[v][half] = account[v]
                        /\ \A d \in Clients :
                               /\ On(d, v)' /\ HasSet(attempt'[d], half)
                               /\ <<v, attempt'[d].keys, half>> \notin refused
                               => published'[v][half] = attempt'[d].keys
      BY <2>1 DEF StoreAgrees
    <3>1. CASE v = u
      BY <2>8, <2>10, <3>1
    <3>2. CASE v # u
      <4>1. published'[v][half] = published[v][half]
        BY <2>3, <3>2
      <4> QED
        BY <2>8, <4>1 DEF RegInv, StoreAgrees
    <3> QED
      BY <3>1, <3>2
  <2>16. MemoryFree'
    BY <1>1, <2>1 DEF MemoryFree
  <2> QED
    BY <2>5, <2>6, <2>12, <2>13, <2>14, <2>15, <2>16 DEF RegInv
<1> QED
  BY <1>2, <1>3

(* A test begins with empty caches and no account; names whose keys are    *)
(* still in the store are left over.                                       *)
LEMMA NextTestKeeps ==
    ASSUME RegInv, NEW clear \in BOOLEAN, NextTest(clear)
    PROVE  RegInv'
<1>1. RegTypeOK'
  BY DEF NextTest, RegInv, RegTypeOK, MaybeKey, NoKeys
<1>2. \A c \in Clients, u \in Users : ~On(c, u)'
  BY DEF NextTest, On
<1>3. OneAttempt'
  BY <1>2 DEF OneAttempt
<1>8. LateWait'
  BY DEF NextTest, RegInv, LateWait
<1>4. OneAccount'
  BY DEF NextTest, OneAccount
<1>5. CachesAgree'
  BY DEF NextTest, CachesAgree, NoKeys
<1>6. StoreAgrees'
  BY <1>2 DEF NextTest, StoreAgrees
<1>7. MemoryFree'
  BY DEF NextTest, MemoryFree, NoKeys
<1> QED
  BY <1>1, <1>3, <1>4, <1>5, <1>6, <1>7, <1>8 DEF RegInv

(* The inductive invariant holds throughout. *)
THEOREM RegistrationInductive == RegSpec => []RegInv
<1>1. RegInv /\ [RegNext]_regVars => RegInv'
  <2> SUFFICES ASSUME RegInv, [RegNext]_regVars
               PROVE  RegInv'
    OBVIOUS
  <2>1. CASE RegNext
    BY <2>1, BeginKeeps, CheckKeeps, SetKeyKeeps, SetStructKeeps, DeathKeeps, LateSetKeeps,
       NextTestKeeps DEF RegNext
  <2>2. CASE UNCHANGED regVars
    BY <2>2 DEF regVars, bounds, RegInv, RegTypeOK, LateWait, OneAttempt, OneAccount, CachesAgree,
                StoreAgrees, MemoryFree, On
  <2> QED
    BY <2>1, <2>2
<1> QED
  BY <1>1, RegStart, PTL DEF RegSpec

(* Of the calls of InitUser that register one name at most one returns a   *)
(* user whose struct the server has taken, whatever deaths, late Sets and  *)
(* refusals come before, if no two of them overlapped.                     *)
THEOREM NameGivenOnce == RegSpec => []OneRegistration
<1>1. RegInv => OneRegistration
  <2> SUFFICES ASSUME RegInv, NEW u \in Users \ contended
               PROVE  Cardinality({x \in succeeded : /\ x[1] = u
                                                      /\ <<u, x[2], "struct">> \notin refused}) <= 1
    BY DEF OneRegistration
  <2> DEFINE S == {x \in succeeded : x[1] = u /\ <<u, x[2], "struct">> \notin refused}
  <2>1. S = {} \/ S = {<<u, account[u]>>}
    <3>1. \A x \in S : x = <<u, account[u]>>
      BY DEF RegInv, OneAccount
    <3> QED
      BY <3>1
  <2> HIDE DEF S
  <2>2. Cardinality(S) = 0 \/ Cardinality(S) = 1
    BY <2>1, FS_EmptySet, FS_Singleton
  <2>3. Cardinality(S) <= 1
    BY <2>2
  <2> QED
    BY <2>3 DEF S
<1> QED
  BY <1>1, RegistrationInductive, PTL

(* The private keys in a user struct belong to the public keys that every  *)
(* client finds: UserlibKeyStore's cache and the shared store agree with   *)
(* the struct InitUser has stored, but for contended names, refused Sets   *)
(* and keys an earlier test has left.                                      *)
THEOREM PublishedKeysAgree == RegSpec => []KeysAgreed
<1>1. RegInv => KeysAgreed
  <2> SUFFICES ASSUME RegInv, NEW u \in Users \ (contended \cup leftover),
                      account[u] # Absent,
                      \A half \in Half : <<u, account[u], half>> \notin refused,
                      NEW c \in Clients, NEW half \in Half,
                      <<u, cache[c][u][half], "struct">> \notin refused
               PROVE  Lookup(c, u, half) = account[u]
    BY DEF KeysAgreed
  <2>1. published[u][half] = account[u]
    BY DEF RegInv, StoreAgrees
  <2>2. cache[c][u][half] # Absent => cache[c][u][half] = account[u]
    BY DEF RegInv, CachesAgree
  <2> QED
    BY <2>1, <2>2 DEF Lookup
<1> QED
  BY <1>1, RegistrationInductive, PTL
=============================================================================
