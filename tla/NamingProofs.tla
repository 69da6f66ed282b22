---------------------------- MODULE NamingProofs ----------------------------
(* CollisionsDetected for all sets of usernames, filenames and passwords,  *)
(* whatever their concatenations.                                          *)
EXTENDS Naming, TLAPS

UserOf(u, p)         == [Username |-> u, MasterKey |-> masterKey(u, p)]
StructOf(u, p)       == Sealed(structKey(masterKey(u, p)), UserOf(u, p))
AccessOf(u, p, f, n) == Sealed(personalKey(masterKey(u, p), f), n)

NamingTypeOK ==
    /\ DOMAIN datastore = UUIDs
    /\ last \in [Users \X Filenames -> Nat]
    /\ stores \in Nat
    /\ \A user \in sessions : \E u \in Users, p \in Passwords : user = UserOf(u, p)

(* Every record is some user's struct, or an access record that is where   *)
(* its user would look for it and holds what that user has stored last     *)
(* under the name.                                                         *)
Genuine(k) ==
    \/ \E u \in Users, p \in Passwords : datastore[k] = StructOf(u, p)
    \/ \E u \in Users, p \in Passwords, f \in Filenames :
           k = accessUUID(u, f) /\ datastore[k] = AccessOf(u, p, f, last[<<u, f>>])

RecordsGenuine == \A k \in UUIDs : datastore[k] # Absent => Genuine(k)

NamingInv == NamingTypeOK /\ RecordsGenuine

-----------------------------------------------------------------------------
(* The key of a record tells whose it is, and of which file: Argon2Key is  *)
(* salted with the username and getPersonalKey with the filename.          *)
LEMMA MasterTells ==
    ASSUME NEW u, NEW p, NEW v, NEW q, masterKey(u, p) = masterKey(v, q)
    PROVE  u = v /\ p = q
<1>1. masterKey(u, p).salt = u /\ masterKey(u, p).password = p
  BY DEF masterKey
<1>2. masterKey(v, q).salt = v /\ masterKey(v, q).password = q
  BY DEF masterKey
<1> QED
  BY <1>1, <1>2

LEMMA StructKeyTells ==
    ASSUME NEW u, NEW p, NEW v, NEW q,
           structKey(masterKey(u, p)) = structKey(masterKey(v, q))
    PROVE  u = v /\ p = q
<1>1. structKey(masterKey(u, p)).master = masterKey(u, p)
  BY DEF structKey
<1>2. structKey(masterKey(v, q)).master = masterKey(v, q)
  BY DEF structKey
<1> QED
  BY <1>1, <1>2, MasterTells

LEMMA PersonalKeyTells ==
    ASSUME NEW u, NEW p, NEW f, NEW v, NEW q, NEW g,
           personalKey(masterKey(u, p), f) = personalKey(masterKey(v, q), g)
    PROVE  u = v /\ p = q /\ f = g
<1>1. /\ personalKey(masterKey(u, p), f).master = masterKey(u, p)
      /\ personalKey(masterKey(u, p), f).file = f
  BY DEF personalKey
<1>2. /\ personalKey(masterKey(v, q), g).master = masterKey(v, q)
      /\ personalKey(masterKey(v, q), g).file = g
  BY DEF personalKey
<1> QED
  BY <1>1, <1>2, MasterTells

LEMMA KeysDiffer ==
    ASSUME NEW m, NEW n, NEW f
    PROVE  structKey(m) # personalKey(n, f)
<1>1. structKey(m).for = "struct"
  BY DEF structKey
<1>2. personalKey(n, f).for = "access"
  BY DEF personalKey
<1> QED
  BY <1>1, <1>2

(* What a sealed record gives back. *)
LEMMA SealedGives ==
    \A key, value : Sealed(key, value).key = key /\ Sealed(key, value).holds = value
BY DEF Sealed

(* Every user has a UUID for the user struct and one for each file. *)
LEMMA UUIDsExist ==
    /\ \A u \in Users : userUUID(u) \in UUIDs
    /\ \A u \in Users, f \in Filenames : accessUUID(u, f) \in UUIDs
BY DEF UUIDs

LEMMA NamingStart == NamingInit => NamingInv
BY DEF NamingInit, NamingInv, NamingTypeOK, RecordsGenuine

(* Registering adds one struct and touches no other record. *)
LEMMA InitUserKeeps ==
    ASSUME NamingInv, NEW u \in Users, NEW p \in Passwords, InitUser(u, p)
    PROVE  NamingInv'
<1>1. /\ datastore' = [datastore EXCEPT ![userUUID(u)] = StructOf(u, p)]
      /\ sessions' = sessions \cup {UserOf(u, p)}
      /\ UNCHANGED <<last, stores>>
  BY DEF InitUser, StructOf, UserOf
<1>2. NamingTypeOK'
  BY <1>1 DEF NamingInv, NamingTypeOK
<1>3. ASSUME NEW k \in UUIDs, datastore'[k] # Absent
      PROVE  Genuine(k)'
  <2>1. CASE k = userUUID(u)
    <3>1. datastore'[k] = StructOf(u, p)
      BY <1>1, <2>1 DEF NamingInv, NamingTypeOK
    <3> QED
      BY <3>1 DEF Genuine
  <2>2. CASE k # userUUID(u)
    <3>1. datastore'[k] = datastore[k] /\ Genuine(k)
      BY <1>1, <1>3, <2>2 DEF NamingInv, NamingTypeOK, RecordsGenuine
    <3> QED
      BY <1>1, <3>1 DEF Genuine
  <2> QED
    BY <2>1, <2>2
<1> QED
  BY <1>2, <1>3 DEF NamingInv, RecordsGenuine

(* A struct that opens is the struct of the user who logs in. *)
LEMMA StructIsOwn ==
    ASSUME NamingInv, NEW u \in Users, NEW p \in Passwords,
           Opens(userUUID(u), structKey(masterKey(u, p)))
    PROVE  datastore[userUUID(u)].holds = UserOf(u, p)
<1> DEFINE rec == datastore[userUUID(u)]
<1>1. Genuine(userUUID(u)) /\ rec.key = structKey(masterKey(u, p))
  BY UUIDsExist DEF NamingInv, RecordsGenuine, Opens
<1>2. ASSUME NEW v \in Users, NEW q \in Passwords, rec = StructOf(v, q)
      PROVE  rec.holds = UserOf(u, p)
  <2>1. rec.key = structKey(masterKey(v, q)) /\ rec.holds = UserOf(v, q)
    BY <1>2, SealedGives DEF StructOf
  <2>2. v = u /\ q = p
    <3>1. structKey(masterKey(v, q)) = structKey(masterKey(u, p))
      BY <1>1, <2>1
    <3> QED
      BY <3>1, StructKeyTells
  <2> QED
    BY <2>1, <2>2
<1>3. ASSUME NEW v \in Users, NEW q \in Passwords, NEW f \in Filenames, NEW n,
             rec = AccessOf(v, q, f, n)
      PROVE  FALSE
  <2>1. rec.key = personalKey(masterKey(v, q), f)
    BY <1>3, SealedGives DEF AccessOf
  <2> QED
    <3>1. structKey(masterKey(u, p)) = personalKey(masterKey(v, q), f)
      BY <1>1, <2>1
    <3> QED
      BY <3>1, KeysDiffer, Zenon
<1> HIDE DEF rec
<1>4. CASE \E v \in Users, q \in Passwords : rec = StructOf(v, q)
  BY <1>2, <1>4 DEF rec
<1>5. CASE \E v \in Users, q \in Passwords, f \in Filenames : rec = AccessOf(v, q, f, last[<<v, f>>])
  BY <1>3, <1>5
<1> QED
  BY <1>1, <1>4, <1>5 DEF Genuine, rec

(* Logging in writes nothing. *)
LEMMA GetUserKeeps ==
    ASSUME NamingInv, NEW u \in Users, NEW p \in Passwords, GetUser(u, p)
    PROVE  NamingInv'
<1>1. sessions' = sessions \cup {UserOf(u, p)} /\ UNCHANGED <<datastore, last, stores>>
  BY StructIsOwn DEF GetUser
<1>2. NamingTypeOK'
  BY <1>1 DEF NamingInv, NamingTypeOK
<1>3. RecordsGenuine'
  BY <1>1 DEF NamingInv, RecordsGenuine, Genuine
<1> QED
  BY <1>2, <1>3 DEF NamingInv

(* Storing replaces whatever is under the two UUIDs; an access record of   *)
(* the same user and file can only have been there.                        *)
LEMMA StoreFileKeeps ==
    ASSUME NamingInv, NEW user \in sessions, NEW f \in Filenames, StoreFile(user, f)
    PROVE  NamingInv'
<1>1. PICK u \in Users, p \in Passwords : user = UserOf(u, p)
  BY DEF NamingInv, NamingTypeOK
<1>2. user.Username = u /\ user.MasterKey = masterKey(u, p)
  BY <1>1 DEF UserOf
<1> DEFINE n == stores + 1
<1>3. /\ stores' = n /\ UNCHANGED sessions
      /\ last' = [last EXCEPT ![<<u, f>>] = n]
      /\ datastore' = [datastore EXCEPT ![accessUUID(u, f)] = AccessOf(u, p, f, n),
                                        ![userUUID(u)] = StructOf(u, p)]
  BY <1>1, <1>2 DEF StoreFile, AccessOf, StructOf
<1>4. n \in Nat
  BY DEF NamingInv, NamingTypeOK
<1> HIDE DEF n
<1>5. NamingTypeOK'
  BY <1>3, <1>4 DEF NamingInv, NamingTypeOK
<1>6. \A x \in Users \X Filenames : last'[x] = IF x = <<u, f>> THEN n ELSE last[x]
  BY <1>3 DEF NamingInv, NamingTypeOK
<1>7. \A k \in UUIDs : datastore'[k] = IF k = userUUID(u) THEN StructOf(u, p)
                                       ELSE IF k = accessUUID(u, f) THEN AccessOf(u, p, f, n)
                                       ELSE datastore[k]
  BY <1>3, UUIDsExist DEF NamingInv, NamingTypeOK
<1>8. ASSUME NEW k \in UUIDs, datastore'[k] # Absent
      PROVE  Genuine(k)'
  <2>1. CASE k = userUUID(u)
    BY <1>7, <2>1 DEF Genuine
  <2>2. CASE k # userUUID(u) /\ k = accessUUID(u, f)
    <3>1. datastore'[k] = AccessOf(u, p, f, last'[<<u, f>>])
      BY <1>6, <1>7, <2>2
    <3> QED
      BY <2>2, <3>1 DEF Genuine
  <2>3. CASE k # userUUID(u) /\ k # accessUUID(u, f)
    <3>1. datastore'[k] = datastore[k] /\ Genuine(k)
      BY <1>7, <1>8, <2>3 DEF NamingInv, RecordsGenuine
    <3>2. ASSUME NEW v \in Users, NEW q \in Passwords, NEW g \in Filenames,
                 k = accessUUID(v, g), datastore[k] = AccessOf(v, q, g, last[<<v, g>>])
          PROVE  Genuine(k)'
      <4>1. <<v, g>> # <<u, f>>
        BY <2>3, <3>2
      <4>2. last'[<<v, g>>] = last[<<v, g>>]
        BY <1>6, <4>1
      <4> QED
        BY <3>1, <3>2, <4>2 DEF Genuine
    <3>3. CASE \E v \in Users, q \in Passwords : datastore[k] = StructOf(v, q)
      BY <3>1, <3>3 DEF Genuine
    <3> QED
      BY <3>1, <3>2, <3>3 DEF Genuine
  <2> QED
    BY <2>1, <2>2, <2>3
<1> QED
  BY <1>5, <1>8 DEF NamingInv, RecordsGenuine

(* For all usernames, filenames and passwords, after any sequence of       *)
(* InitUser, GetUser and StoreFile: what opens for LoadFile is what the    *)
(* user has stored last under the name, and what opens for GetUser is that *)
(* user's struct, though UUIDs of different names may coincide.            *)
THEOREM CollisionsAreDetected == NamingSpec => []CollisionsDetected
<1>1. NamingInv /\ [NamingNext]_nameVars => NamingInv'
  <2>1. ASSUME NamingInv, UNCHANGED nameVars
        PROVE  NamingInv'
    BY <2>1 DEF NamingInv, NamingTypeOK, RecordsGenuine, Genuine, nameVars
  <2> QED
    BY <2>1, InitUserKeeps, GetUserKeeps, StoreFileKeeps DEF NamingNext
<1>2. NamingInv => CollisionsDetected
  <2> SUFFICES ASSUME NamingInv PROVE CollisionsDetected
    OBVIOUS
  <2>1. ASSUME NEW user \in sessions, NEW f \in Filenames,
               Opens(accessUUID(user.Username, f), personalKey(user.MasterKey, f))
        PROVE  datastore[accessUUID(user.Username, f)].holds = last[<<user.Username, f>>]
    <3>1. PICK u \in Users, p \in Passwords : user = UserOf(u, p)
      BY DEF NamingInv, NamingTypeOK
    <3>2. user.Username = u /\ user.MasterKey = masterKey(u, p)
      BY <3>1 DEF UserOf
    <3> DEFINE rec == datastore[accessUUID(u, f)]
    <3>3. Genuine(accessUUID(u, f)) /\ rec.key = personalKey(masterKey(u, p), f)
      BY <2>1, <3>2, UUIDsExist DEF NamingInv, RecordsGenuine, Opens
    <3>4. ASSUME NEW v \in Users, NEW q \in Passwords, rec = StructOf(v, q)
          PROVE  FALSE
      <4>1. rec.key = structKey(masterKey(v, q))
        BY <3>4, SealedGives DEF StructOf
      <4> QED
        <5>1. structKey(masterKey(v, q)) = personalKey(masterKey(u, p), f)
          BY <3>3, <4>1
        <5> QED
          BY <5>1, KeysDiffer, Zenon
    <3>5. ASSUME NEW v \in Users, NEW q \in Passwords, NEW g \in Filenames,
                 rec = AccessOf(v, q, g, last[<<v, g>>])
          PROVE  rec.holds = last[<<u, f>>]
      <4>1. rec.key = personalKey(masterKey(v, q), g) /\ rec.holds = last[<<v, g>>]
        BY <3>5, SealedGives DEF AccessOf
      <4>2. v = u /\ g = f
        <5>1. personalKey(masterKey(v, q), g) = personalKey(masterKey(u, p), f)
          BY <3>3, <4>1
        <5> QED
          BY <5>1, PersonalKeyTells
      <4> QED
        BY <4>1, <4>2
    <3>6. rec.holds = last[<<u, f>>]
      BY <3>3, <3>4, <3>5 DEF Genuine
    <3> QED
      BY <3>2, <3>6
  <2>2. ASSUME NEW u \in Users, NEW p \in Passwords,
               Opens(userUUID(u), structKey(masterKey(u, p)))
        PROVE  datastore[userUUID(u)].holds.Username = u
    <3>1. datastore[userUUID(u)].holds = UserOf(u, p)
      BY <2>2, StructIsOwn
    <3> QED
      BY <3>1 DEF UserOf
  <2> QED
    BY <2>1, <2>2 DEF CollisionsDetected
<1> QED
  BY <1>1, <1>2, NamingStart, PTL DEF NamingSpec
=============================================================================
