\* Two API processes, one of them with an admin, and one problem that changes once.
CONSTANTS
    Procs = {p1, p2}
    Slots = {a}
    Admins = {p1}
    Ids = {i1}
    Versions = {v1, v2}
    Absent = Absent
    Hidden = Hidden
    Nil = Nil
    None = None
    L1Cap = 1
    MaxUpdates = 1
    MaxDbFaults = 1
    MaxRedisFaults = 1
SPECIFICATION FairSpec
INVARIANTS TypeOK StaleOnlyIfExcused
PROPERTY EventuallyFresh
