\* The whole command line at one terminal, sessions at a second, one fault.
SPECIFICATION CliSpec
CONSTANTS
    Terminals = {t1, t2}
    t1 = t1
    t2 = t2
    Names <- NameSet
    Default <- NameDefault
    Entries = {Blank, a, gone}
    Blank = Blank
    Serving = {a}
    Users = {u1}
    Passwords = {p1, p2}
    Offered <- Mixed
    Missing = Missing
    Empty = Empty
    Torn = Torn
    None = None
    MaxCommands = 4
    MaxFaults = 1
SYMMETRY PasswordSymmetry
INVARIANTS SessionsAccepted LoginSticks
PROPERTY ImplementsHostTable
CHECK_DEADLOCK FALSE
