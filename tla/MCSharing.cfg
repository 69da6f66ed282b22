\* Three users share one file through up to five mailboxes.
SPECIFICATION OwnSessionsSpec
CONSTANTS
    alice = alice
    bob = bob
    carol = carol
    dan = dan
    a = a
    Users = {alice, bob, carol}
    Passwords = {pw}
    Filenames = {f1}
    Sessions = {alice, bob, carol}
    Bytes = {a}
    Contents <- ShortContents
    BlockSize = 2
    Absent = Absent
    MaxInodes = 1
    MaxMailboxes = 5
    MaxBlocks = 1
SYMMETRY UserSymmetry
INVARIANTS CutStaysCut RecordedShareesRead RootPrivate LinksOpen
PROPERTIES ImplementsSharedFiles
