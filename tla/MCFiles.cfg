SPECIFICATION Spec
CONSTANTS
    Users = {alice, bob}
    Passwords = {pw}
    Filenames = {f1}
    Sessions = {s1, s2}
    a = a
    z = z
    Bytes = {a, z}
    Contents <- LongContents
    BlockSize = 2
    Absent = Absent
    MaxInodes = 2
    MaxMailboxes = 3
    MaxBlocks = 3
SYMMETRY UserSymmetry
INVARIANTS TypeOK KeysPublished SessionsGenuine FilesWhole SizeMatches
PROPERTIES ContentOnlyGrows ImplementsSharedFiles
