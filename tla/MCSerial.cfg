\* The methods one at a time: carol has no account.
SPECIFICATION SerialSpec
CONSTANTS
    alice = alice
    bob = bob
    carol = carol
    s1 = s1
    s2 = s2
    a = a
    z = z
    Users = {alice, bob, carol}
    Passwords = {pw}
    Password = pw
    Filenames = {f, g}
    FileName = f
    Sessions = {s1, s2}
    Bytes = {a, z}
    Contents <- LongContents
    FirstContent <- TwoBlocks
    BlockSize = 2
    Absent = Absent
    MaxInodes = 9
    MaxMailboxes = 9
    MaxBlocks = 19
    Circle <- Pair
    Shared = 2
    Logins <- ShareeLogin
    Ops <- AllMethods
    MaxEvents = 3
    MaxFaults = 0
PROPERTY ImplementsShareLock
CHECK_DEADLOCK FALSE
