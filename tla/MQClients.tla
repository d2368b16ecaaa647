------------------------------ MODULE MQClients ------------------------------
(***************************************************************************)
(* The queue of MessageQueue with the simplest clients the program has: any*)
(* process may publish, and each process of Consumers runs one thread that *)
(* takes a task, works on it and acknowledges it, as judge_worker_loop and *)
(* JudgeNode::run do.  The model counts what happens to each task, to state*)
(* what the queue promises when connections break and processes restart.   *)
(***************************************************************************)
EXTENDS MessageQueue, FiniteSets

CONSTANTS
    Consumers,      \* the processes with a consuming thread
    NoTask,         \* "the consumer holds nothing"
    MaxSends,       \* bound: how often each task is published
    MaxBreaks,      \* bound: broken connections
    MaxRestarts,    \* bound: crashed and restarted processes
    MaxPoison       \* bound: foreign messages put in the broker's queue

ASSUME ProcsAssumption == IsFiniteSet(Procs)
ASSUME ConsumersAssumption == Consumers \subseteq Procs
ASSUME NoTaskAssumption == NoTask \notin Tasks \cup {Poison}
ASSUME ClientBoundsAssumption ==
    {MaxSends, MaxBreaks, MaxRestarts, MaxPoison} \subseteq Nat

VARIABLES
    held,       \* consumer -> [task, tagged], the message it works on
    sent,       \* task -> publish_judge_task calls that returned 1
    taken,      \* task -> times a consumer was handed it
    done,       \* task -> times a consumer finished with it
    lost,       \* task -> messages a break or a restart destroyed
    breaks, restarts, poisons

clientVars == <<held, sent, taken, done, lost, breaks, restarts, poisons>>
vars == <<mqVars, clientVars>>

Nothing == [task |-> NoTask, tagged |-> FALSE]

TypeOK ==
    /\ MQTypeOK
    /\ held \in [Consumers -> [task : Tasks \cup {NoTask}, tagged : BOOLEAN]]
    /\ {sent, taken, done, lost} \subseteq [Tasks -> Nat]
    /\ breaks \in 0..MaxBreaks /\ restarts \in 0..MaxRestarts
    /\ poisons \in 0..MaxPoison

Init ==
    /\ MQInit
    /\ held  = [c \in Consumers |-> Nothing]
    /\ sent  = [t \in Tasks |-> 0]
    /\ taken = [t \in Tasks |-> 0]
    /\ done  = [t \in Tasks |-> 0]
    /\ lost  = [t \in Tasks |-> 0]
    /\ breaks = 0 /\ restarts = 0 /\ poisons = 0

-----------------------------------------------------------------------------
Positions(q, t)   == {i \in DOMAIN q : q[i] = t}
Occurrences(q, t) == Cardinality(Positions(q, t))
Bump(counter, t)  == [counter EXCEPT ![t] = @ + 1]

PublishTask(p, t) ==
    /\ sent[t] < MaxSends
    /\ sent' = Bump(sent, t)
    /\ \/ /\ Send(p, t) \/ QueueLocally(p, t)
          /\ UNCHANGED lost
       \/ /\ SendIntoDeadSocket(p, t)
          /\ lost' = Bump(lost, t)
    /\ UNCHANGED <<held, taken, done, breaks, restarts, poisons>>

Take(c) ==
    /\ held[c] = Nothing
    /\ \E t \in Tasks \cup {Poison}, tagged \in BOOLEAN :
         /\ Pop(c, t, tagged)
         /\ held'  = [held EXCEPT ![c] = [task |-> t, tagged |-> tagged]]
         /\ taken' = Bump(taken, t)
    /\ UNCHANGED <<sent, done, lost, breaks, restarts, poisons>>

Poll(c) ==
    /\ held[c] = Nothing
    /\ PopNothing(c) \/ PopPoison(c)
    /\ UNCHANGED clientVars

Finish(c) ==
    /\ held[c] # Nothing
    /\ Ack(c, held[c].task, held[c].tagged)
    /\ held' = [held EXCEPT ![c] = Nothing]
    /\ done' = Bump(done, held[c].task)
    /\ UNCHANGED <<sent, taken, lost, breaks, restarts, poisons>>

Receive(p) == BrokerReceive(p) /\ UNCHANGED clientVars

(* Frames of tasks that were written and not handled are lost. *)
Break(p) ==
    /\ breaks < MaxBreaks
    /\ ConnectionBreaks(p)
    /\ breaks' = breaks + 1
    /\ lost' = [t \in Tasks |-> lost[t] + Occurrences(wire[p], PublishFrame(t))]
    /\ UNCHANGED <<held, sent, taken, done, restarts, poisons>>

(* So are the in-process queue and a task taken from it. *)
Restart(p) ==
    /\ restarts < MaxRestarts
    /\ ProcessRestarts(p)
    /\ restarts' = restarts + 1
    /\ lost' = [t \in Tasks |-> lost[t]
                 + Occurrences(wire[p], PublishFrame(t))
                 + Occurrences(local[p], t)
                 + IF p \in Consumers /\ held[p] = [task |-> t, tagged |-> FALSE]
                   THEN 1 ELSE 0]
    /\ held' = [c \in Consumers |-> IF c = p THEN Nothing ELSE held[c]]
    /\ UNCHANGED <<sent, taken, done, breaks, poisons>>

Intrude ==
    /\ poisons < MaxPoison
    /\ ForeignPublish
    /\ poisons' = poisons + 1
    /\ UNCHANGED <<held, sent, taken, done, lost, breaks, restarts>>

Next ==
    \/ \E p \in Procs : \/ \E t \in Tasks : PublishTask(p, t)
                        \/ Receive(p) \/ Break(p) \/ Restart(p)
    \/ \E c \in Consumers : Take(c) \/ Poll(c) \/ Finish(c)
    \/ Intrude

(* The consuming threads loop for ever and the broker keeps handling frames;
   nobody has to publish, and nothing has to break. *)
Fairness ==
    /\ \A p \in Procs : WF_vars(Receive(p))
    /\ \A c \in Consumers : WF_vars(Take(c)) /\ WF_vars(Poll(c)) /\ WF_vars(Finish(c))

Spec == Init /\ [][Next]_vars
FairSpec == Spec /\ Fairness

-----------------------------------------------------------------------------
(* Messages of t that somebody can still be handed, or is working on.  A
   tagged message a consumer holds is still the broker's: it is unacknowledged,
   or it is ready again. *)
Total(queues, t) ==             \* occurrences in the queues of all processes
    Cardinality(UNION {{p} \X Positions(queues[p], t) : p \in Procs})

Untagged(t) == {c \in Consumers : held[c] = [task |-> t, tagged |-> FALSE]}

Copies(t) ==
    Occurrences(broker, t) + Total(wire, PublishFrame(t)) + Total(local, t)
    + Total(unacked, t) + Cardinality(Untagged(t))

(* Every accepted publish is still somewhere in the queue, was worked on to the
   end, or was destroyed by a connection that broke under it or a process that
   restarted with it in memory: the fallback after a failed publish, the
   acknowledgement after the work and the requeue of unacknowledged messages
   lose nothing else (publish_judge_task, "this one goes in-process, so that
   nothing is lost on the submission path"). *)
NoTaskLost == \A t \in Tasks : Copies(t) + done[t] + lost[t] >= sent[t]

(* Duplicates come from broken connections and restarts only: without one, a
   published task is handed out at most once, whatever backends the processes
   chose and however their calls interleave. *)
DuplicatesNeedAFault ==
    breaks = 0 /\ restarts = 0 => \A t \in Tasks : taken[t] <= sent[t]

(* While the connection lives, whatever the broker has delivered to a process
   is the one message its consumer is working on, or its acknowledgement is on
   its way: no delivery (a poison message included) stays unacknowledged for
   ever. *)
DeliveredIsHeldOrAcked ==
    \A p \in Procs : link[p] = "up" =>
        /\ Len(unacked[p]) <= 1
        /\ \A i \in 1..Len(unacked[p]) :
             \/ p \in Consumers /\ held[p] = [task |-> unacked[p][i], tagged |-> TRUE]
             \/ Occurrences(wire[p], AckFrame(unacked[p][i])) = 1

(* Where every process consumes, a published task is eventually handed to a
   consumer, unless a fault destroyed it or it stands in the broker's queue
   after the last process has fallen back (mq.cpp never probes again, so only a
   restart, or the reclaim that publishes the row anew, helps then).  A task in
   an in-process queue is never forgotten. *)
EventuallyTaken ==
    \A t \in Tasks :
       sent[t] > 0 ~> \/ taken[t] + lost[t] > 0
                      \/ /\ \A c \in Consumers : link[c] = "local"
                         /\ Occurrences(broker, t) > 0
=============================================================================
