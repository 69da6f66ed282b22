\* Usernames of different lengths and files whose UUIDs coincide.
SPECIFICATION NamingSpec
CONSTANTS
    a = a
    b = b
    z = z
    Users <- PrefixUsers
    Filenames <- ClashFiles
    Passwords = {p, q}
    userStruct <- Ending
    Absent = Absent
    MaxStores = 3
INVARIANT RecordsKept
CHECK_DEADLOCK FALSE
