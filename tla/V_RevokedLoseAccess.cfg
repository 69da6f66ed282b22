SPECIFICATION EveryoneSpec
CONSTANTS
    alice = alice
    bob = bob
    carol = carol
    dan = dan
    a = a
    Users = {alice, bob, carol, dan}
    Passwords = {pw}
    Filenames = {f1}
    Sessions = {alice, bob, carol, dan}
    Bytes = {a}
    Contents <- ShortContents
    BlockSize = 2
    Absent = Absent
    MaxInodes = 1
    MaxMailboxes = 7
    MaxBlocks = 1
SYMMETRY UserSymmetry
INVARIANT RevokedLoseAccess
