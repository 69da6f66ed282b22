\* One terminal, the old command names.
SPECIFICATION CliSpec
CONSTANTS
    Terminals = {t1}
    t1 = t1
    t2 = t2
    Names <- NameSet
    Default <- NameDefault
    Entries = {Blank, a}
    Blank = Blank
    Serving = {a}
    Users = {u1}
    Passwords = {p1}
    Offered <- Legacy
    Missing = Missing
    Empty = Empty
    Torn = Torn
    None = None
    MaxCommands = 3
    MaxFaults = 0
INVARIANT LegacyCommandsWork
CHECK_DEADLOCK FALSE
