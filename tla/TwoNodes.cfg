\* Two judge nodes that defer to each other and reclaim each other's rows.
CONSTANTS
    api = api
    n1 = n1
    n2 = n2
    s1 = s1
    Procs = {api, n1, n2}
    Api = {api}
    Workers = {n1, n2}
    Nodes = {n1, n2}
    Tasks = {s1}
    Outcomes = {"AC"}
    Poison = Poison
    NoTask = NoTask
    NoProc = NoProc
    MaxBreaks = 1
    MaxRestarts = 1
    MaxFaults = 1
    MaxDefers = 1
    MaxCopies = 2
SPECIFICATION Spec
INVARIANTS NothingForgotten
PROPERTY ReclaimKeepsVerdicts
SYMMETRY NodeSymmetry
\* Once every submission is judged and the fault bounds are used up, nothing is
\* left to do.
CHECK_DEADLOCK FALSE
