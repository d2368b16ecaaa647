\* One existing problem, one load that fails.
CONSTANTS
    Procs = {p1}
    Slots = {a}
    Admins = {p1}
    Ids = {i1}
    Versions = {v1}
    Absent = Absent
    Hidden = Hidden
    Nil = Nil
    None = None
    L1Cap = 1
    MaxUpdates = 0
    MaxDbFaults = 1
    MaxRedisFaults = 0
SPECIFICATION FairSpec
INVARIANT NilMeansMissing
