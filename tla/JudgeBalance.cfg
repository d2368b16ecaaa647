SPECIFICATION Spec
CONSTANTS Nodes = {1, 2}  Tasks = {t1, t2}  NoTask = NoTask
          MaxCrashes = 1  MaxFallbacks = 1  MaxOutages = 1
INVARIANTS TypeOK StoppedNodeHasNoKeys
PROPERTIES LoadsSettle StopEndsTheNode EveryTaskJudged
CHECK_DEADLOCK FALSE
