SPECIFICATION OrdinarySpec
CONSTANTS
    alice = alice
    bob = bob
    carol = carol
    dan = dan
    a = a
    Users = {alice, bob, carol, dan}
    Passwords = {pw}
    Filenames = {f1}
    Sessions = {s1}
    Bytes = {a}
    Contents <- ShortContents
    BlockSize = 2
    Absent = Absent
    MaxInodes = 1
    MaxMailboxes = 5
    MaxBlocks = 1
SYMMETRY UserSymmetry
INVARIANT RemainingShareesRead
