-------------------------- MODULE JudgeBalanceProofs --------------------------
(***************************************************************************)
(* What heartbeats and deferring keep, for any nodes and tasks and any      *)
(* crashes, fall-backs and outages: a load counts the task being judged,    *)
(* a node that stopped leaves no key, and no task is lost on the way from   *)
(* node to node.                                                            *)
(***************************************************************************)
EXTENDS JudgeBalance, FiniteSetTheorems, SequenceTheorems, TLAPS

Places == {"new", "poll", "list", "look", "begin", "judge", "end", "join",
           "joined", "down", "dead"}

(* The loads a node has read, of some ids; -1 where it has not asked yet. *)
Readings == UNION {[D -> {-1, 0, 1}] : D \in SUBSET Nodes}

(* What TypeOK leaves out, and the two facts its loads and tasks rest on: load_ is
   1 just while a task is being judged, and a node that decides or judges has a
   task. *)
NodeTypes ==
    /\ rabbit \in [Nodes -> BOOLEAN] /\ stopping \in [Nodes -> BOOLEAN]
    /\ running \in [Nodes -> BOOLEAN] /\ seen \in [Nodes -> Readings]

LoadCounts ==
    \A n \in Nodes : load[n] = IF at[n] \in {"judge", "end"} THEN 1 ELSE 0

HoldsATask ==
    \A n \in Nodes : task[n] # NoTask <=> at[n] \in {"list", "look", "begin", "judge"}

(* The order of HeartbeatReporter::stop: the thread is gone before the keys are
   deleted, first the heartbeat, then the load. *)
KeysGoLast ==
    \A n \in Nodes : at[n] \in {"joined", "down"} =>
        /\ beat[n] = "off"
        /\ link[n] = "up" => n \notin keys
        /\ link[n] = "up" /\ at[n] = "down" => loadKey[n] = 0

(* Every task is judged, in the queue or with a node. *)
Among(s, t) == \E i \in 1..Len(s) : s[i] = t
Waits(t)   == Among(queue, t)
Held(t)    == \E n \in Nodes : task[n] = t
NoTaskLost == \A t \in Tasks : t \in judged \/ Waits(t) \/ Held(t)

BalanceInv == TypeOK /\ NodeTypes /\ LoadCounts /\ HoldsATask /\ KeysGoLast /\ NoTaskLost

-----------------------------------------------------------------------------
(* The queue at the start: SetToSeq lists every task. *)
LEMMA QueueAtStart ==
    /\ SetToSeq(Tasks) \in Seq(Tasks)
    /\ \A t \in Tasks : Among(SetToSeq(Tasks), t)
  <1> DEFINE n == Cardinality(Tasks)
             q == SetToSeq(Tasks)
  <1>1. n \in Nat /\ ExistsBijection(1..n, Tasks)
    <2>1. PICK k \in Nat : ExistsBijection(1..k, Tasks)
      BY TasksAssumption, FS_NatBijection
    <2>2. n = k
      BY <2>1, FS_CountingElements
    <2> QED BY <2>1, <2>2
  <1>2. \E f \in [1..n -> Tasks] : IsInjective(f)
    BY <1>1 DEF ExistsBijection, Bijection, Injection
  <1>3. q \in [1..n -> Tasks] /\ IsInjective(q)
    BY <1>2 DEF SetToSeq
  <1>4. q \in Surjection(1..n, Tasks)
    <2>1. q \in Injection(1..n, Tasks)
      BY <1>3 DEF Injection
    <2>2. IsFiniteSet(1..n) /\ Cardinality(1..n) = n
      BY <1>1, FS_Interval
    <2> QED BY <2>1, <2>2, TasksAssumption, FS_Injection
  <1> HIDE DEF n, q
  <1>5. q \in Seq(Tasks) /\ Len(q) = n
    BY <1>1, <1>3
  <1>6. \A t \in Tasks : \E i \in 1..n : q[i] = t
    BY <1>4 DEF Surjection
  <1> QED BY <1>5, <1>6 DEF q, Among

(* What the broker's three operations leave waiting. *)
LEMMA WaitsAppend ==
    ASSUME NEW s \in Seq(Tasks), NEW t \in Tasks
    PROVE  /\ Append(s, t) \in Seq(Tasks)
           /\ Among(Append(s, t), t)
           /\ \A u : Among(s, u) => Among(Append(s, t), u)
  <1>1. Append(s, t) \in Seq(Tasks) /\ Len(Append(s, t)) = Len(s) + 1
        /\ Append(s, t)[Len(s) + 1] = t /\ \A i \in 1..Len(s) : Append(s, t)[i] = s[i]
    OBVIOUS
  <1> DEFINE q == Append(s, t)
  <1>2. Len(s) \in Nat
    OBVIOUS
  <1>3. q \in Seq(Tasks) /\ Len(q) = Len(s) + 1 /\ q[Len(s) + 1] = t
        /\ \A i \in 1..Len(s) : q[i] = s[i]
    BY <1>1
  <1> HIDE DEF q
  <1>4. Len(s) + 1 \in 1..Len(q) /\ \A i \in 1..Len(s) : i \in 1..Len(q)
    BY <1>2, <1>3
  <1>5. \E i \in 1..Len(q) : q[i] = t
    BY <1>3, <1>4
  <1>6. \A u : (\E i \in 1..Len(s) : s[i] = u) => \E i \in 1..Len(q) : q[i] = u
    BY <1>3, <1>4
  <1> QED BY <1>3, <1>5, <1>6 DEF q, Among

LEMMA WaitsTail ==
    ASSUME NEW s \in Seq(Tasks), s # <<>>
    PROVE  /\ Head(s) \in Tasks /\ Tail(s) \in Seq(Tasks)
           /\ \A u : Among(s, u) => u = Head(s) \/ Among(Tail(s), u)
  <1>1. /\ Head(s) \in Tasks /\ Tail(s) \in Seq(Tasks) /\ Len(s) \in Nat \ {0}
        /\ Head(s) = s[1] /\ Len(Tail(s)) = Len(s) - 1
        /\ \A i \in 1..Len(Tail(s)) : Tail(s)[i] = s[i + 1]
    OBVIOUS
  <1>2. ASSUME NEW u, NEW i \in 1..Len(s), s[i] = u, u # Head(s)
        PROVE  \E j \in 1..Len(Tail(s)) : Tail(s)[j] = u
    <2>1. i - 1 \in 1..Len(Tail(s)) /\ i = (i - 1) + 1
      BY <1>1, <1>2
    <2>2. Tail(s)[i - 1] = u
      BY <1>1, <1>2, <2>1
    <2> QED BY <2>1, <2>2
  <1> QED BY <1>1, <1>2 DEF Among

LEMMA WaitsAgain ==
    ASSUME NEW s \in Seq(Tasks), NEW t \in Tasks
    PROVE  /\ <<t>> \o s \in Seq(Tasks)
           /\ Among(<<t>> \o s, t)
           /\ \A u : Among(s, u) => Among(<<t>> \o s, u)
  <1> DEFINE q == <<t>> \o s
  <1>1. /\ q \in Seq(Tasks) /\ Len(q) = Len(s) + 1 /\ Len(s) \in Nat
        /\ q[1] = t /\ \A i \in 1..Len(s) : q[i + 1] = s[i]
    OBVIOUS
  <1> HIDE DEF q
  <1>2. ASSUME NEW u, NEW i \in 1..Len(s), s[i] = u
        PROVE  \E j \in 1..Len(q) : q[j] = u
    <2>1. i + 1 \in 1..Len(q) /\ q[i + 1] = u
      BY <1>1, <1>2
    <2> QED BY <2>1
  <1>3. 1 \in 1..Len(q)
    BY <1>1
  <1>4. \E i \in 1..Len(q) : q[i] = t
    BY <1>1, <1>3
  <1> QED BY <1>1, <1>2, <1>4 DEF q, Among

-----------------------------------------------------------------------------
LEMMA NoReading == None \in Readings
  <1>1. None \in [{} -> {-1, 0, 1}]
    BY DEF None
  <1> QED BY <1>1 DEF Readings

(* What list_judge_nodes and a GET leave in seen; Forgets: a decision is over. *)
LEMMA ReadingStarts == ASSUME keys \subseteq Nodes PROVE [i \in keys |-> -1] \in Readings
  <1>1. [i \in keys |-> -1] \in [keys -> {-1, 0, 1}]
    OBVIOUS
  <1> QED BY <1>1 DEF Readings

LEMMA ReadingGoesOn ==
    ASSUME NEW f \in Readings, NEW i \in DOMAIN f, NEW l \in {0, 1}
    PROVE  [f EXCEPT ![i] = l] \in Readings
  <1>1. PICK D \in SUBSET Nodes : f \in [D -> {-1, 0, 1}]
    BY DEF Readings
  <1>2. [f EXCEPT ![i] = l] \in [D -> {-1, 0, 1}]
    BY <1>1
  <1> QED BY <1>2 DEF Readings

LEMMA ReadingIds == \A f \in Readings : DOMAIN f \subseteq Nodes
  BY DEF Readings

(* Every action keeps the types, and the facts about loads and tasks. *)
Typed == TypeOK /\ NodeTypes /\ LoadCounts /\ HoldsATask

LEMMA TypedStep == ASSUME Typed, Next PROVE Typed'
  <1> USE DEF Typed, TypeOK, NodeTypes, LoadCounts, HoldsATask, redis, control, main, thread, Go,
              SetBeat, DelBeat, SetLoad, Awake
  <1> USE TasksAssumption
  <1>1. ASSUME NEW n \in Nodes, Beat(n) PROVE Typed'
    BY <1>1 DEF Beat
  <1>22. ASSUME NEW n \in Nodes, BeatHangs(n) PROVE Typed'
    BY <1>22 DEF BeatHangs
  <1>2. ASSUME NEW n \in Nodes, WriteLoad(n) PROVE Typed'
    BY <1>2 DEF WriteLoad
  <1>3. ASSUME NEW n \in Nodes, LeaveLoop(n) PROVE Typed'
    BY <1>3 DEF LeaveLoop
  <1>4. ASSUME NEW n \in Nodes, StartNode(n) PROVE Typed'
    BY <1>4 DEF StartNode
  <1>5. ASSUME NEW n \in Nodes, Pop(n) PROVE Typed'
    BY <1>5, WaitsTail DEF Pop
  <1>6. ASSUME NEW n \in Nodes, List(n) PROVE Typed'
    <2>1. CASE keys = {} \/ ~Reach(n)
      <3>1. /\ at' = [at EXCEPT ![n] = "begin"] /\ at[n] = "list"
            /\ UNCHANGED <<queue, judged, redis, control, task, seen, load, thread>>
        BY <1>6, <2>1 DEF List
      <3>2. NodeTypes' /\ LoadCounts' /\ HoldsATask'
        BY <3>1
      <3> QED BY <3>1, <3>2
    <2>2. CASE ~(keys = {} \/ ~Reach(n))
      <3> DEFINE f == [i \in keys |-> -1]
      <3>1. f \in Readings /\ seen' = [seen EXCEPT ![n] = f]
        BY <1>6, <2>2, ReadingStarts DEF List
      <3> HIDE DEF f
      <3>2. seen' \in [Nodes -> Readings] /\ \A m \in Nodes : DOMAIN seen'[m] \subseteq Nodes
        BY <3>1, ReadingIds
      <3>3. /\ at' = [at EXCEPT ![n] = "look"] /\ at[n] = "list"
            /\ UNCHANGED <<queue, judged, redis, control, task, load, thread>>
        BY <1>6, <2>2 DEF List
      <3>4. NodeTypes' /\ LoadCounts' /\ HoldsATask'
        BY <3>2, <3>3
      <3> QED BY <3>2, <3>3, <3>4
    <2> QED BY <2>1, <2>2
  <1>7. ASSUME NEW n \in Nodes, Look(n) PROVE Typed'
    <2>1. PICK i \in DOMAIN seen[n] :
             seen' = [seen EXCEPT ![n][i] = IF Reach(n) THEN loadKey[i] ELSE 0]
      BY <1>7 DEF Look
    <2> DEFINE l == IF Reach(n) THEN loadKey[i] ELSE 0
               f == [seen[n] EXCEPT ![i] = l]
    <2>2. l \in {0, 1} /\ seen[n] \in Readings
      OBVIOUS
    <2> HIDE DEF l
    <2>3. f \in Readings
      BY <2>2, ReadingGoesOn
    <2>4. seen' = [seen EXCEPT ![n] = f]
      BY <2>1 DEF l
    <2> HIDE DEF f
    <2>5. seen' \in [Nodes -> Readings] /\ \A m \in Nodes : DOMAIN seen'[m] \subseteq Nodes
      BY <2>3, <2>4, ReadingIds
    <2> QED BY <1>7, <2>5 DEF Look
  <1>8. ASSUME NEW n \in Nodes, Defer(n) PROVE Typed'
    <2>1. task[n] \in Tasks /\ queue' \in Seq(Tasks)
      BY <1>8, WaitsAppend DEF Defer, HasLooked
    <2>2. seen' \in [Nodes -> Readings] /\ \A m \in Nodes : DOMAIN seen'[m] \subseteq Nodes
      BY <1>8, NoReading, ReadingIds DEF Defer
    <2> QED BY <1>8, <2>1, <2>2 DEF Defer, HasLooked
  <1>9. ASSUME NEW n \in Nodes, Keep(n) PROVE Typed'
    <2>1. seen' \in [Nodes -> Readings] /\ \A m \in Nodes : DOMAIN seen'[m] \subseteq Nodes
      BY <1>9, NoReading, ReadingIds DEF Keep
    <2> QED BY <1>9, <2>1 DEF Keep, HasLooked
  <1>10. ASSUME NEW n \in Nodes, BeginLoad(n) PROVE Typed'
    BY <1>10 DEF BeginLoad, ChangeLoad
  <1>11. ASSUME NEW n \in Nodes, Judge(n) PROVE Typed'
    BY <1>11 DEF Judge
  <1>12. ASSUME NEW n \in Nodes, EndLoad(n) PROVE Typed'
    BY <1>12 DEF EndLoad, ChangeLoad
  <1>13. ASSUME NEW n \in Nodes, StopBeats(n) PROVE Typed'
    BY <1>13 DEF StopBeats
  <1>14. ASSUME NEW n \in Nodes, Join(n) PROVE Typed'
    BY <1>14 DEF Join
  <1>15. ASSUME NEW n \in Nodes, DeleteLoad(n) PROVE Typed'
    BY <1>15 DEF DeleteLoad
  <1>16. ASSUME NEW n \in Nodes, RequestStop(n) PROVE Typed'
    BY <1>16 DEF RequestStop
  <1>17. ASSUME NEW n \in Nodes, Crash(n) PROVE Typed'
    <2>1. queue' \in Seq(Tasks)
      <3>1. task[n] # NoTask => task[n] \in Tasks
        OBVIOUS
      <3> QED BY <1>17, <3>1, WaitsAgain DEF Crash
    <2>2. seen' \in [Nodes -> Readings] /\ \A m \in Nodes : DOMAIN seen'[m] \subseteq Nodes
      BY <1>17, NoReading, ReadingIds DEF Crash
    <2> QED BY <1>17, <2>1, <2>2 DEF Crash
  <1>18. ASSUME NEW n \in Nodes, LoseRedis(n) PROVE Typed'
    BY <1>18 DEF LoseRedis
  <1>19. ASSUME NEW n \in Nodes, Reconnect(n) PROVE Typed'
    BY <1>19 DEF Reconnect
  <1>20. ASSUME NEW n \in Nodes, Expire(n) PROVE Typed'
    BY <1>20 DEF Expire
  <1>21. ASSUME NEW n \in Nodes, FallBack(n) PROVE Typed'
    BY <1>21 DEF FallBack
  <1> HIDE DEF Typed
  <1> QED BY <1>1, <1>2, <1>3, <1>4, <1>5, <1>6, <1>7, <1>8, <1>9, <1>10, <1>11, <1>12, <1>13,
             <1>14, <1>15, <1>16, <1>17, <1>18, <1>19, <1>20, <1>21, <1>22
          DEF Next, Heartbeat, Run, Decision, RunTask, EndRun

(* Every action keeps the keys of a stopped node deleted. *)
LEMMA KeysStep == ASSUME Typed, KeysGoLast, Next PROVE KeysGoLast'
  <1> DEFINE Fine(n) == at[n] \in {"joined", "down"} =>
                          /\ beat[n] = "off"
                          /\ link[n] = "up" => n \notin keys
                          /\ link[n] = "up" /\ at[n] = "down" => loadKey[n] = 0
  <1> SUFFICES ASSUME NEW n \in Nodes PROVE Fine(n)'
    BY DEF KeysGoLast
  <1>a. /\ Fine(n) /\ at \in [Nodes -> Places] /\ beat \in [Nodes -> {"sleep", "beat", "write", "off"}]
        /\ link \in [Nodes -> {"up", "cut", "hung", "again"}] /\ loadKey \in [Nodes -> {0, 1}]
    BY DEF KeysGoLast, Typed, TypeOK, Places
  <1> USE DEF redis, control, main, thread, Go, SetBeat, DelBeat, SetLoad, Reach, Awake
  <1>1. ASSUME NEW m \in Nodes, Beat(m) PROVE Fine(n)'
    BY <1>a, <1>1 DEF Beat
  <1>14. ASSUME NEW m \in Nodes, BeatHangs(m) PROVE Fine(n)'
    BY <1>a, <1>14 DEF BeatHangs
  <1>2. ASSUME NEW m \in Nodes, WriteLoad(m) PROVE Fine(n)'
    BY <1>a, <1>2 DEF WriteLoad
  <1>3. ASSUME NEW m \in Nodes, LeaveLoop(m) PROVE Fine(n)'
    BY <1>a, <1>3 DEF LeaveLoop
  <1>4. ASSUME NEW m \in Nodes, StartNode(m) PROVE Fine(n)'
    BY <1>a, <1>4 DEF StartNode
  <1>5. ASSUME NEW m \in Nodes, Pop(m) \/ Decision(m) \/ Judge(m) PROVE Fine(n)'
    BY <1>a, <1>5 DEF Pop, Decision, List, Look, Defer, Keep, Judge, HasLooked
  <1>6. ASSUME NEW m \in Nodes, BeginLoad(m) \/ EndLoad(m) PROVE Fine(n)'
    BY <1>a, <1>6 DEF BeginLoad, EndLoad, ChangeLoad
  <1>7. ASSUME NEW m \in Nodes, StopBeats(m) PROVE Fine(n)'
    BY <1>a, <1>7 DEF StopBeats
  <1>8. ASSUME NEW m \in Nodes, Join(m) PROVE Fine(n)'
    BY <1>a, <1>8 DEF Join
  <1>9. ASSUME NEW m \in Nodes, DeleteLoad(m) PROVE Fine(n)'
    BY <1>a, <1>9 DEF DeleteLoad
  <1>10. ASSUME NEW m \in Nodes, RequestStop(m) \/ FallBack(m) PROVE Fine(n)'
    BY <1>a, <1>10 DEF RequestStop, FallBack
  <1>11. ASSUME NEW m \in Nodes, Crash(m) PROVE Fine(n)'
    BY <1>a, <1>11 DEF Crash
  <1>12. ASSUME NEW m \in Nodes, LoseRedis(m) \/ Reconnect(m) PROVE Fine(n)'
    BY <1>a, <1>12 DEF LoseRedis, Reconnect
  <1>13. ASSUME NEW m \in Nodes, Expire(m) PROVE Fine(n)'
    BY <1>a, <1>13 DEF Expire
  <1> HIDE DEF Fine
  <1> QED BY <1>1, <1>2, <1>3, <1>4, <1>5, <1>6, <1>7, <1>8, <1>9, <1>10, <1>11, <1>12, <1>13, <1>14
          DEF Next, Heartbeat, Run, RunTask, EndRun

(* Every action leaves every task somewhere. *)
LEMMA TasksStep == ASSUME Typed, NoTaskLost, Next PROVE NoTaskLost'
  <1> SUFFICES ASSUME NEW t \in Tasks PROVE (t \in judged \/ Waits(t) \/ Held(t))'
    BY DEF NoTaskLost
  <1> DEFINE Here == t \in judged \/ Waits(t) \/ Held(t)
  <1>a. /\ Here /\ queue \in Seq(Tasks) /\ task \in [Nodes -> Tasks \cup {NoTask}] /\ t # NoTask
        /\ \A n \in Nodes : task[n] # NoTask <=> at[n] \in {"list", "look", "begin", "judge"}
    BY TasksAssumption DEF NoTaskLost, Typed, TypeOK, HoldsATask
  <1>1. ASSUME UNCHANGED <<queue, judged, task>> PROVE Here'
    BY <1>a, <1>1 DEF Waits, Held
  <1>2. ASSUME NEW n \in Nodes, Pop(n) PROVE Here'
    <2>1. queue # <<>> /\ queue' = Tail(queue) /\ judged' = judged
          /\ task' = [task EXCEPT ![n] = Head(queue)] /\ task[n] = NoTask
      BY <1>a, <1>2 DEF Pop
    <2>2. task'[n] = Head(queue) /\ \A m \in Nodes \ {n} : task'[m] = task[m]
      BY <1>a, <2>1
    <2>3. Waits(t) => t = Head(queue) \/ Waits(t)'
      BY <1>a, <2>1, WaitsTail DEF Waits
    <2>4. Held(t) => Held(t)'
      BY <1>a, <2>1, <2>2 DEF Held
    <2> QED BY <1>a, <2>1, <2>2, <2>3, <2>4 DEF Held
  <1>3. ASSUME NEW n \in Nodes, Defer(n) PROVE Here'
    <2>1. queue' = Append(queue, task[n]) /\ judged' = judged /\ task[n] \in Tasks
          /\ task' = [task EXCEPT ![n] = NoTask]
      BY <1>a, <1>3 DEF Defer, HasLooked
    <2>2. \A m \in Nodes \ {n} : task'[m] = task[m]
      BY <1>a, <2>1
    <2>3. (t = task[n] => Waits(t)') /\ (Waits(t) => Waits(t)')
      BY <1>a, <2>1, WaitsAppend DEF Waits
    <2>4. Held(t) => Held(t)' \/ t = task[n]
      BY <2>2 DEF Held
    <2> QED BY <1>a, <2>1, <2>3, <2>4
  <1>4. ASSUME NEW n \in Nodes, Judge(n) PROVE Here'
    <2>1. queue' = queue /\ judged' = judged \cup {task[n]} /\ task' = [task EXCEPT ![n] = NoTask]
      BY <1>4 DEF Judge
    <2>2. \A m \in Nodes \ {n} : task'[m] = task[m]
      BY <1>a, <2>1
    <2>3. Held(t) => Held(t)' \/ t = task[n]
      BY <2>2 DEF Held
    <2> QED BY <1>a, <2>1, <2>3 DEF Waits
  <1>5. ASSUME NEW n \in Nodes, Crash(n) PROVE Here'
    <2>1. judged' = judged /\ task' = [task EXCEPT ![n] = NoTask]
          /\ queue' = IF task[n] = NoTask THEN queue ELSE <<task[n]>> \o queue
      BY <1>5 DEF Crash
    <2>2. \A m \in Nodes \ {n} : task'[m] = task[m]
      BY <1>a, <2>1
    <2>3. Held(t) => Held(t)' \/ t = task[n]
      BY <2>2 DEF Held
    <2>4. (t = task[n] => Waits(t)') /\ (Waits(t) => Waits(t)')
      <3>1. CASE task[n] = NoTask
        BY <1>a, <2>1, <3>1 DEF Waits
      <3>2. CASE task[n] # NoTask
        BY <1>a, <2>1, <3>2, WaitsAgain DEF Waits
      <3> QED BY <3>1, <3>2
    <2> QED BY <1>a, <2>1, <2>3, <2>4
  <1> HIDE DEF Here
  <1>6. ASSUME NEW n \in Nodes, Heartbeat(n) \/ StartNode(n) \/ List(n) \/ Look(n) \/ Keep(n)
        PROVE  Here'
    BY <1>1, <1>6 DEF Heartbeat, BeatHangs, Beat, WriteLoad, LeaveLoop, StartNode, List, Look, Keep, main
  <1>7. ASSUME NEW n \in Nodes, BeginLoad(n) \/ EndLoad(n) \/ EndRun(n) PROVE Here'
    BY <1>1, <1>7 DEF BeginLoad, EndLoad, ChangeLoad, EndRun, StopBeats, Join, DeleteLoad
  <1>8. ASSUME NEW n \in Nodes,
               RequestStop(n) \/ Expire(n) \/ FallBack(n) \/ LoseRedis(n) \/ Reconnect(n)
        PROVE  Here'
    BY <1>1, <1>8 DEF RequestStop, Expire, FallBack, LoseRedis, Reconnect, main
  <1>9. Here'
    BY <1>2, <1>3, <1>4, <1>5, <1>6, <1>7, <1>8 DEF Next, Run, Decision, RunTask
  <1> QED BY <1>9 DEF Here

LEMMA BalanceInvHolds == Spec => []BalanceInv
  <1>1. Init => BalanceInv
    <2> SUFFICES ASSUME Init PROVE BalanceInv
      OBVIOUS
    <2>1. TypeOK
      BY QueueAtStart, TasksAssumption DEF Init, TypeOK, None
    <2>2. NodeTypes
      BY NoReading DEF Init, NodeTypes
    <2>3. LoadCounts /\ HoldsATask /\ KeysGoLast
      BY DEF Init, LoadCounts, HoldsATask, KeysGoLast
    <2>4. NoTaskLost
      BY QueueAtStart DEF Init, NoTaskLost, Waits
    <2> QED BY <2>1, <2>2, <2>3, <2>4 DEF BalanceInv
  <1>2. BalanceInv /\ [Next]_vars => BalanceInv'
    <2>1. ASSUME BalanceInv, Next PROVE BalanceInv'
      BY <2>1, TypedStep, KeysStep, TasksStep DEF BalanceInv, Typed
    <2>2. ASSUME BalanceInv, UNCHANGED vars PROVE BalanceInv'
      BY <2>2 DEF BalanceInv, vars, redis, control, main, thread, TypeOK, NodeTypes, LoadCounts,
                  HoldsATask, KeysGoLast, NoTaskLost, Waits, Held
    <2> QED BY <2>1, <2>2
  <1> QED BY <1>1, <1>2, PTL DEF Spec

(* For any nodes and tasks: the types, with every load a node reads or writes 0 or
   1, whichever of its two threads wrote the key last. *)
THEOREM TypeCorrect == Spec => []TypeOK
  <1>1. BalanceInv => TypeOK
    BY DEF BalanceInv
  <1> QED BY <1>1, BalanceInvHolds, PTL

(* HeartbeatReporter::stop leaves no key of a node that always had Redis, whatever
   became of the others, and no heartbeat that was under way writes one again. *)
THEOREM StoppedHolds == Spec => []StoppedNodeHasNoKeys
  <1>1. BalanceInv => StoppedNodeHasNoKeys
    BY DEF BalanceInv, KeysGoLast, StoppedNodeHasNoKeys
  <1> QED BY <1>1, BalanceInvHolds, PTL

(* Whatever nodes crash, defer, stop or lose the broker, every task is judged,
   waits in the queue, or is held by a node whose crash gives it back: what
   remains for EveryTaskJudged is only that it moves on. *)
THEOREM TasksAreKept == Spec => []NoTaskLost
  <1>1. BalanceInv => NoTaskLost
    BY DEF BalanceInv
  <1> QED BY <1>1, BalanceInvHolds, PTL
=============================================================================
