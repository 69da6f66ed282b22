\* Every method of two sessions, overlapping in every way; a client may die.
SPECIFICATION ClientsSpec
CONSTANTS
    alice = alice
    bob = bob
    carol = carol
    s1 = s1
    s2 = s2
    a = a
    z = z
    Users = {alice, bob, carol}
    Passwords = {pw}
    Password = pw
    Filenames = {f}
    FileName = f
    Sessions = {s1, s2}
    Bytes = {a, z}
    Contents <- ShortContents
    FirstContent <- OneBlock
    BlockSize = 2
    Absent = Absent
    MaxInodes = 9
    MaxMailboxes = 9
    MaxBlocks = 19
    Circle <- Trio
    Shared = 2
    Logins <- EitherLogin
    Ops <- AllMethods
    MaxEvents = 3
    MaxFaults = 1
SYMMETRY SessionSymmetry
INVARIANTS NeverCorrupted LoadsAreSnapshots AppendsKept SlotsReadable 
    RevokedStayOut SharingTreeComplete
CHECK_DEADLOCK FALSE
