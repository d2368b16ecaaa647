\* Two processes that both publish and consume (nloj_api with its embedded
\* worker, and a judge node); every kind of fault once.
CONSTANTS
    Procs = {api, node}
    Consumers = {api, node}
    Tasks = {t1, t2}
    Poison = Poison
    NoTask = NoTask
    MaxSends = 1
    MaxBreaks = 2
    MaxRestarts = 1
    MaxPoison = 1
SPECIFICATION FairSpec
INVARIANTS TypeOK NoTaskLost DuplicatesNeedAFault DeliveredIsHeldOrAcked
PROPERTY EventuallyTaken
\* The clients stop publishing at their bounds; the system may then rest.
CHECK_DEADLOCK FALSE
