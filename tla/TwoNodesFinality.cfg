\* The state machine of schema.sql with two judge nodes, no faults at all.
CONSTANTS
    api = api
    n1 = n1
    n2 = n2
    s1 = s1
    Procs = {api, n1, n2}
    Api = {api}
    Workers = {n1, n2}
    Nodes = {n1, n2}
    Tasks = {s1}
    Outcomes = {"AC", "WA"}
    Poison = Poison
    NoTask = NoTask
    NoProc = NoProc
    MaxBreaks = 0
    MaxRestarts = 0
    MaxFaults = 0
    MaxDefers = 0
    MaxCopies = 2
SPECIFICATION FairSpec
PROPERTY VerdictsAreFinal
\* Once every submission is judged and the fault bounds are used up, nothing is
\* left to do.
CHECK_DEADLOCK FALSE
