\* Connected or in memory: overlapping attempts, deaths, late and refused Sets, tests.
SPECIFICATION RegSpec
CONSTANTS
    Users = {u1, u2}
    Clients = {c1, c2, c3}
    Absent = Absent
    MaxAttempts = 4
    MaxCrashes = 2
    MaxRefusals = 1
    MaxTests = 2
SYMMETRY RegSymmetry
INVARIANTS KeysAgreed OneRegistration
CHECK_DEADLOCK FALSE
