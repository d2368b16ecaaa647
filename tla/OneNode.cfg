\* An API without embedded worker, and one judge node: the life of one submission.
CONSTANTS
    api = api
    n1 = n1
    n2 = n2
    s1 = s1
    Procs = {api, n1}
    Api = {api}
    Workers = {n1}
    Nodes = {n1}
    Tasks = {s1}
    Outcomes = {"AC", "WA"}
    Poison = Poison
    NoTask = NoTask
    NoProc = NoProc
    MaxBreaks = 1
    MaxRestarts = 1
    MaxFaults = 1
    MaxDefers = 0
    MaxCopies = 2
SPECIFICATION FairSpec
INVARIANTS TypeOK WorkIsUnacked
PROPERTIES VerdictsAreFinal ImplementsLifecycle EventuallyJudged
\* Once every submission is judged and the fault bounds are used up, nothing is
\* left to do.
CHECK_DEADLOCK FALSE
