----------------------------- MODULE JudgeBalance -----------------------------
(***************************************************************************)
(* Heartbeats, loads and the deferring of tasks between judge nodes         *)
(* (nl-judge/src/node.cpp, load_balance.cpp). A node has two threads: run   *)
(* takes tasks, and the heartbeat thread of HeartbeatReporter renews two    *)
(* keys in Redis, "node:id" and "load:id", the second of which run writes   *)
(* too. What a run does to the row is JudgePipeline's subject; here a task  *)
(* is judged or not.                                                        *)
(*                                                                         *)
(* A node may lose Redis: its calls then fail, and none of the callers here *)
(* reads the answer of a SET or DEL; or Redis hangs, and whichever thread    *)
(* calls it waits in recv, which has no timeout. A key expires only when    *)
(* its node is gone or without Redis: a heartbeat renews it every 5 s of    *)
(* 15. A node's id is a number: pick orders ids.                            *)
(***************************************************************************)
EXTENDS Integers, Sequences, SequencesExt, FiniteSets, FiniteSetsExt

CONSTANTS Nodes, Tasks, NoTask, MaxCrashes, MaxFallbacks, MaxOutages
ASSUME NodesAssumption == Nodes \subseteq Nat /\ IsFiniteSet(Nodes) /\ Nodes # {}
ASSUME TasksAssumption == IsFiniteSet(Tasks) /\ NoTask \notin Tasks

VARIABLES
    queue,      \* the broker's judge queue, without what a node holds unacknowledged
    judged,     \* the tasks run_judge_task was called for
    keys,       \* the ids with a heartbeat key
    loadKey,    \* id |-> value of its load key; 0 when there is none
    link,       \* node |-> "up", "cut" while it cannot reach Redis, "hung" while Redis
                \*         does not answer it, "again" after that
    rabbit,     \* node |-> mq_using_rabbit
    stopping,   \* node |-> JudgeNode::stop_
    at,         \* node |-> where run is
    task,       \* node |-> the task it holds
    seen,       \* node |-> the loads it has read, by id, for this decision
    load,       \* node |-> HeartbeatReporter::load_
    running,    \* node |-> HeartbeatReporter::running_
    beat,       \* node |-> where the heartbeat thread is
    copy        \* node |-> the load that thread has read

redis   == <<keys, loadKey>>
control == <<link, rabbit, stopping>>
main    == <<at, task, seen, load>>
thread  == <<running, beat, copy>>
vars    == <<queue, judged, redis, control, main, thread>>

Budget == [crashes   |-> Cardinality({n \in Nodes : at[n] = "dead"}),
           fallbacks |-> Cardinality({n \in Nodes : ~rabbit[n]}),
           outages   |-> Cardinality({n \in Nodes : link[n] # "up"})]

None == <<>>        \* no id read yet; seen is a function on a set of ids

Init ==
    /\ queue = SetToSeq(Tasks) /\ judged = {}      \* one order: tasks differ in nothing else
    /\ keys = {} /\ loadKey = [n \in Nodes |-> 0]
    /\ link = [n \in Nodes |-> "up"]
    /\ rabbit = [n \in Nodes |-> TRUE] /\ stopping = [n \in Nodes |-> FALSE]
    /\ at = [n \in Nodes |-> "new"] /\ task = [n \in Nodes |-> NoTask]
    /\ seen = [n \in Nodes |-> None] /\ load = [n \in Nodes |-> 0]
    /\ running = [n \in Nodes |-> FALSE] /\ beat = [n \in Nodes |-> "off"]
    /\ copy = [n \in Nodes |-> 0]

Gone(n) == at[n] \in {"down", "dead"}
Up(n)   == at[n] # "new" /\ ~Gone(n)

(* The commands of this module: they do nothing without Redis, and wait for it
   while it hangs. *)
Reach(n)      == link[n] \in {"up", "again"}
Hung(n)       == link[n] = "hung"
SetBeat(n)    == ~Hung(n) /\ keys' = IF Reach(n) THEN keys \cup {n} ELSE keys
DelBeat(n)    == ~Hung(n) /\ keys' = IF Reach(n) THEN keys \ {n} ELSE keys
SetLoad(n, l) == ~Hung(n) /\ loadKey' = IF Reach(n) THEN [loadKey EXCEPT ![n] = l] ELSE loadKey

-----------------------------------------------------------------------------
(* The heartbeat thread: heartbeat key and read load_, load key, sleep. *)
Awake(n) == beat[n] = "beat" \/ (beat[n] = "sleep" /\ running[n])

(* Past the loop's condition, and in a call that Redis does not answer. *)
BeatHangs(n) ==
    /\ beat[n] = "sleep" /\ running[n] /\ Hung(n)
    /\ beat' = [beat EXCEPT ![n] = "beat"]
    /\ UNCHANGED <<queue, judged, redis, control, main, running, copy>>

BugBeat(n) ==                       \* a bug: an idle node does not renew its load
    /\ Awake(n) /\ SetBeat(n)
    /\ copy' = [copy EXCEPT ![n] = load[n]]
    /\ beat' = [beat EXCEPT ![n] = IF load[n] = 0 THEN "sleep" ELSE "write"]
    /\ UNCHANGED <<queue, judged, loadKey, control, main, running>>

Beat(n) ==
    /\ Awake(n) /\ SetBeat(n)
    /\ copy' = [copy EXCEPT ![n] = load[n]] /\ beat' = [beat EXCEPT ![n] = "write"]
    /\ UNCHANGED <<queue, judged, loadKey, control, main, running>>

WriteLoad(n) ==
    /\ beat[n] = "write"
    /\ SetLoad(n, copy[n]) /\ copy' = [copy EXCEPT ![n] = 0]
    /\ beat' = [beat EXCEPT ![n] = "sleep"]
    /\ UNCHANGED <<queue, judged, keys, control, main, running>>

LeaveLoop(n) ==
    /\ beat[n] = "sleep" /\ ~running[n]
    /\ beat' = [beat EXCEPT ![n] = "off"]
    /\ UNCHANGED <<queue, judged, redis, control, main, running, copy>>

-----------------------------------------------------------------------------
(* run: start, and from the second heartbeat on the loop. *)
Go(n, place) == at' = [at EXCEPT ![n] = place]

StartNode(n) ==
    /\ at[n] = "new"
    /\ SetBeat(n) /\ SetLoad(n, load[n])
    /\ stopping' = [stopping EXCEPT ![n] = FALSE]      \* a request made before run is lost
    /\ running' = [running EXCEPT ![n] = TRUE] /\ beat' = [beat EXCEPT ![n] = "sleep"]
    /\ Go(n, "poll")
    /\ UNCHANGED <<queue, judged, link, rabbit, task, seen, load, copy>>

Pop(n) ==
    /\ at[n] = "poll" /\ ~stopping[n] /\ rabbit[n] /\ queue # <<>>
    /\ task' = [task EXCEPT ![n] = Head(queue)] /\ queue' = Tail(queue)
    /\ Go(n, "list")
    /\ UNCHANGED <<judged, redis, control, seen, load, thread>>

(* list_judge_nodes, then one GET for each id it returned. Without Redis there
   is no id, and the node judges the task itself, or a load reads as 0. *)
List(n) ==
    /\ at[n] = "list" /\ ~Hung(n)
    /\ IF keys = {} \/ ~Reach(n) THEN Go(n, "begin") /\ UNCHANGED seen
       ELSE Go(n, "look") /\ seen' = [seen EXCEPT ![n] = [i \in keys |-> -1]]
    /\ UNCHANGED <<queue, judged, redis, control, task, load, thread>>

Look(n) ==
    /\ at[n] = "look" /\ ~Hung(n)
    /\ \E i \in {j \in DOMAIN seen[n] : seen[n][j] = -1} :
           seen' = [seen EXCEPT ![n][i] = IF Reach(n) THEN loadKey[i] ELSE 0]
    /\ UNCHANGED <<queue, judged, redis, control, at, task, load, thread>>

HasLooked(n) == at[n] = "look" /\ \A i \in DOMAIN seen[n] : seen[n][i] # -1

BugPicked(n) ==                     \* a bug: equals are ordered from the reader's own id on
    CHOOSE i \in DOMAIN seen[n] : \A j \in DOMAIN seen[n] \ {i} :
        seen[n][i] < seen[n][j] \/ (seen[n][i] = seen[n][j] /\ j = n)

(* LoadBalance::pick: the least load, and of equals the smaller id. *)
Picked(n) ==
    CHOOSE i \in DOMAIN seen[n] : \A j \in DOMAIN seen[n] \ {i} :
        seen[n][i] < seen[n][j] \/ (seen[n][i] = seen[n][j] /\ i < j)

BugDefer(n) ==                      \* a bug: the load is raised before the decision and stays
    /\ HasLooked(n) /\ Picked(n) # n
    /\ queue' = Append(queue, task[n])
    /\ task' = [task EXCEPT ![n] = NoTask] /\ seen' = [seen EXCEPT ![n] = None]
    /\ load' = [load EXCEPT ![n] = @ + 1]
    /\ Go(n, "poll")
    /\ UNCHANGED <<judged, redis, control, thread>>

(* Published again and acknowledged: the task goes to the end of the queue. *)
Defer(n) ==
    /\ HasLooked(n) /\ Picked(n) # n
    /\ queue' = Append(queue, task[n])
    /\ task' = [task EXCEPT ![n] = NoTask] /\ seen' = [seen EXCEPT ![n] = None]
    /\ Go(n, "poll")
    /\ UNCHANGED <<judged, redis, control, load, thread>>

Keep(n) ==
    /\ HasLooked(n) /\ Picked(n) = n
    /\ seen' = [seen EXCEPT ![n] = None] /\ Go(n, "begin")
    /\ UNCHANGED <<queue, judged, redis, control, task, load, thread>>

(* set_load stores load_, then writes the key; nobody tells the two apart, as the
   heartbeat thread in between would only write the same value. *)
ChangeLoad(n, from, l, to) ==
    /\ at[n] = from /\ load' = [load EXCEPT ![n] = l] /\ SetLoad(n, l) /\ Go(n, to)
    /\ UNCHANGED <<queue, judged, keys, control, task, seen, thread>>

BeginLoad(n) == ChangeLoad(n, "begin", load[n] + 1, "judge")
EndLoad(n)   == ChangeLoad(n, "end", load[n] - 1, "poll")

Judge(n) ==                         \* run_judge_task, ack_judge_task
    /\ at[n] = "judge"
    /\ judged' = judged \cup {task[n]} /\ task' = [task EXCEPT ![n] = NoTask]
    /\ Go(n, "end")
    /\ UNCHANGED <<queue, redis, control, seen, load, thread>>

-----------------------------------------------------------------------------
(* request_stop, seen at the head of the loop; hb_.stop joins and deletes. *)
RequestStop(n) ==
    /\ ~Gone(n) /\ ~stopping[n]
    /\ stopping' = [stopping EXCEPT ![n] = TRUE]
    /\ UNCHANGED <<queue, judged, redis, link, rabbit, main, thread>>

BugStopBeats(n) ==                  \* a bug: the thread is not told, and join waits for it
    /\ at[n] = "poll" /\ stopping[n] /\ Go(n, "join")
    /\ UNCHANGED <<queue, judged, redis, control, task, seen, load, thread>>

StopBeats(n) ==
    /\ at[n] = "poll" /\ stopping[n]
    /\ running' = [running EXCEPT ![n] = FALSE] /\ Go(n, "join")
    /\ UNCHANGED <<queue, judged, redis, control, task, seen, load, beat, copy>>

BugJoin(n) ==                       \* a bug: the keys go before the thread does
    /\ at[n] = "join" /\ DelBeat(n) /\ Go(n, "joined")
    /\ UNCHANGED <<queue, judged, loadKey, control, task, seen, load, thread>>

Join(n) ==
    /\ at[n] = "join" /\ beat[n] = "off" /\ DelBeat(n) /\ Go(n, "joined")
    /\ UNCHANGED <<queue, judged, loadKey, control, task, seen, load, thread>>

DeleteLoad(n) ==
    /\ at[n] = "joined" /\ SetLoad(n, 0) /\ Go(n, "down")
    /\ UNCHANGED <<queue, judged, keys, control, task, seen, load, thread>>

-----------------------------------------------------------------------------
(* The process dies; the broker takes back what it held. *)
Crash(n) ==
    /\ Up(n) /\ Budget.crashes < MaxCrashes
    /\ queue' = IF task[n] = NoTask THEN queue ELSE <<task[n]>> \o queue
    /\ task' = [task EXCEPT ![n] = NoTask] /\ seen' = [seen EXCEPT ![n] = None]
    /\ running' = [running EXCEPT ![n] = FALSE] /\ beat' = [beat EXCEPT ![n] = "off"]
    /\ load' = [load EXCEPT ![n] = 0] /\ copy' = [copy EXCEPT ![n] = 0]
    /\ Go(n, "dead")
    /\ UNCHANGED <<judged, redis, control>>

(* A hung connection that is reset in the end is a cut one whose calls were slow. *)
LoseRedis(n) ==
    /\ Up(n) /\ link[n] = "up" /\ Budget.outages < MaxOutages
    /\ \E l \in {"cut", "hung"} : link' = [link EXCEPT ![n] = l]
    /\ UNCHANGED <<queue, judged, redis, rabbit, stopping, main, thread>>

Reconnect(n) ==
    /\ Up(n) /\ link[n] \in {"cut", "hung"} /\ link' = [link EXCEPT ![n] = "again"]
    /\ UNCHANGED <<queue, judged, redis, rabbit, stopping, main, thread>>

Expire(n) ==
    /\ Gone(n) \/ ~Reach(n)
    /\ n \in keys \/ loadKey[n] # 0
    /\ keys' = keys \ {n} /\ loadKey' = [loadKey EXCEPT ![n] = 0]
    /\ UNCHANGED <<queue, judged, control, main, thread>>

(* try_pop finds the connection broken: this process uses its own queue from
   now on, which nobody fills, and goes on with its heartbeats. *)
FallBack(n) ==
    /\ at[n] = "poll" /\ ~stopping[n] /\ rabbit[n] /\ Budget.fallbacks < MaxFallbacks
    /\ rabbit' = [rabbit EXCEPT ![n] = FALSE]
    /\ UNCHANGED <<queue, judged, redis, link, stopping, main, thread>>

-----------------------------------------------------------------------------
Heartbeat(n) == BeatHangs(n) \/ Beat(n) \/ WriteLoad(n) \/ LeaveLoop(n)
Decision(n)  == List(n) \/ Look(n) \/ Defer(n) \/ Keep(n)
RunTask(n)   == BeginLoad(n) \/ Judge(n) \/ EndLoad(n)
EndRun(n)    == StopBeats(n) \/ Join(n) \/ DeleteLoad(n)
Run(n)       == StartNode(n) \/ Decision(n) \/ RunTask(n) \/ EndRun(n)

Next == \E n \in Nodes :
    \/ Heartbeat(n) \/ Run(n) \/ Pop(n)
    \/ RequestStop(n) \/ Crash(n) \/ Expire(n) \/ FallBack(n)
    \/ LoseRedis(n) \/ Reconnect(n)

(* Threads are scheduled, a run ends, keys expire; and a node that asks for a
   task again and again while the queue is not empty gets one. Redis need not
   come back, nor answer a node it hangs for. *)
Fairness == \A n \in Nodes :
    WF_vars(Heartbeat(n)) /\ WF_vars(Run(n)) /\ WF_vars(Expire(n)) /\ SF_vars(Pop(n))

Spec == Init /\ [][Next]_vars /\ Fairness

-----------------------------------------------------------------------------
TypeOK ==
    /\ queue \in Seq(Tasks) /\ judged \subseteq Tasks /\ keys \subseteq Nodes
    /\ loadKey \in [Nodes -> {0, 1}] /\ load \in [Nodes -> {0, 1}] /\ copy \in [Nodes -> {0, 1}]
    /\ at \in [Nodes -> {"new", "poll", "list", "look", "begin", "judge", "end", "join",
                         "joined", "down", "dead"}]
    /\ link \in [Nodes -> {"up", "cut", "hung", "again"}]
    /\ beat \in [Nodes -> {"sleep", "beat", "write", "off"}]
    /\ task \in [Nodes -> Tasks \cup {NoTask}]
    /\ \A n \in Nodes : DOMAIN seen[n] \subseteq Nodes

(* A node that was stopped has no keys, and gets none again from a heartbeat
   that was under way (HeartbeatReporter::stop): nobody defers to it. Only a
   node that has itself been without Redis may leave them. *)
StoppedNodeHasNoKeys ==
    \A n \in Nodes : at[n] = "down" /\ link[n] = "up" => n \notin keys /\ loadKey[n] = 0

(* The two writers of a load key can leave an old value in it, and an outage a
   key that its node could not delete, but not for good: the next heartbeat
   repairs the one, Redis expires the other. *)
LoadsSettle == <>[](\A n \in Nodes :
    /\ Up(n) /\ ~stopping[n] /\ Reach(n) => n \in keys /\ loadKey[n] = load[n]
    /\ Gone(n) => n \notin keys)

(* A request to stop that a running node gets ends it (node.h:75): after the task
   it holds, whether it judges or defers it, and the heartbeat that is under way,
   with Redis or with calls that fail. Only a Redis that hangs for ever keeps it:
   a thread waits in recv, and join for that thread. *)
StopEndsTheNode == <>[](\A n \in Nodes : stopping[n] /\ ~Hung(n) => Gone(n))

(* A node that looks idle and takes nothing, and is smaller than all that do. *)
Stranded(n) == /\ Up(n) /\ ~rabbit[n] /\ Reach(n)
               /\ \A m \in Nodes : Up(m) /\ rabbit[m] => n < m

(* Deferring does not go on for ever: every task is judged, unless a node holds it
   that a hung Redis holds, all nodes are gone or held, or the smallest one has
   fallen back to its own queue. *)
EveryTaskJudged ==
    \/ <>[](\A t \in Tasks : t \in judged \/ \E n \in Nodes : task[n] = t /\ Hung(n))
    \/ <>[](\A n \in Nodes : Gone(n) \/ stopping[n] \/ ~rabbit[n] \/ Hung(n))
    \/ <>[](\E n \in Nodes : Stranded(n))

=============================================================================
