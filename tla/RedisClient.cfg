\* Two threads, one key with one value, two faults: enough for a call under way
\* to break, its command to come late, and the server to stop or hang meanwhile.
\* The last thread may wait for g_mu forever when the server disappears.
CONSTANTS
    Threads = {t1, t2}
    Keys = {k1}
    Values = {v1}
    None = None
    Yes = Yes
    No = No
    MaxFaults = 2
SPECIFICATION FairSpec
INVARIANT TypeOK
PROPERTY ImplementsKeyValue
PROPERTY MutexIsReleased
CHECK_DEADLOCK FALSE
