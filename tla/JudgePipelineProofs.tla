------------------------- MODULE JudgePipelineProofs -------------------------
(***************************************************************************)
(* Proofs about JudgePipeline, for every set of processes, workers, nodes  *)
(* and submissions and every bound: its types, that no submission is       *)
(* forgotten, and what becomes of the status column.                       *)
(***************************************************************************)
EXTENDS JudgePipeline, TLAPS

-----------------------------------------------------------------------------
(* Membership in queues.  Each lemma says what one operation on a sequence, as
   the queue performs it, does to the set of elements. *)

(* A pushed element is in the queue, and so is everything that was. *)
LEMMA InAppend ==
    ASSUME NEW S, NEW q \in Seq(S), NEW y \in S, NEW x
    PROVE  /\ Append(q, y) \in Seq(S)
           /\ In(Append(q, y), x) <=> In(q, x) \/ x = y
  BY DEF In

(* Popping the head takes nothing else. *)
LEMMA InTail ==
    ASSUME NEW S, NEW q \in Seq(S), q # <<>>, NEW x
    PROVE  /\ Head(q) \in S /\ Tail(q) \in Seq(S)
           /\ In(q, x) <=> x = Head(q) \/ In(Tail(q), x)
  <1>1. Head(q) \in S /\ Tail(q) \in Seq(S) /\ Len(q) \in Nat /\ Len(q) >= 1
        /\ Len(Tail(q)) = Len(q) - 1 /\ Head(q) = q[1]
        /\ \A i \in 1..Len(Tail(q)) : Tail(q)[i] = q[i + 1]
    OBVIOUS
  <1>2. In(q, x) => x = Head(q) \/ In(Tail(q), x)
    <2>1. ASSUME NEW i \in 1..Len(q), q[i] = x, i # 1
          PROVE  i - 1 \in 1..Len(Tail(q)) /\ Tail(q)[i - 1] = x
      BY <1>1, <2>1
    <2> QED BY <1>1, <2>1 DEF In
  <1>3. x = Head(q) => In(q, x)
    BY <1>1 DEF In
  <1>4. In(Tail(q), x) => In(q, x)
    <2>1. ASSUME NEW i \in 1..Len(Tail(q)), Tail(q)[i] = x
          PROVE  i + 1 \in 1..Len(q) /\ q[i + 1] = x
      BY <1>1, <2>1
    <2> QED BY <2>1 DEF In
  <1> QED BY <1>1, <1>2, <1>3, <1>4

(* Requeueing before the ready messages keeps both. *)
LEMMA InConcat ==
    ASSUME NEW S, NEW q \in Seq(S), NEW r \in Seq(S), NEW x
    PROVE  /\ q \o r \in Seq(S)
           /\ In(q \o r, x) <=> In(q, x) \/ In(r, x)
  <1>1. /\ q \o r \in Seq(S) /\ Len(q \o r) = Len(q) + Len(r)
        /\ Len(q) \in Nat /\ Len(r) \in Nat
        /\ \A i \in 1..Len(q) : (q \o r)[i] = q[i]
        /\ \A i \in 1..Len(r) : (q \o r)[i + Len(q)] = r[i]
    OBVIOUS
  <1>2. In(q, x) => In(q \o r, x)
    BY <1>1 DEF In
  <1>3. In(r, x) => In(q \o r, x)
    <2>1. ASSUME NEW i \in 1..Len(r), r[i] = x
          PROVE  i + Len(q) \in 1..Len(q \o r) /\ (q \o r)[i + Len(q)] = x
      BY <1>1, <2>1
    <2> QED BY <2>1 DEF In
  <1>4. In(q \o r, x) => In(q, x) \/ In(r, x)
    <2>1. ASSUME NEW i \in 1..Len(q \o r), (q \o r)[i] = x, i \notin 1..Len(q)
          PROVE  i - Len(q) \in 1..Len(r) /\ r[i - Len(q)] = x
      <3>1. i - Len(q) \in 1..Len(r)
        BY <1>1, <2>1
      <3>2. (q \o r)[(i - Len(q)) + Len(q)] = r[i - Len(q)]
        BY <1>1, <3>1
      <3>3. (i - Len(q)) + Len(q) = i
        BY <1>1
      <3> QED BY <2>1, <3>1, <3>2, <3>3
    <2> QED BY <1>1, <2>1 DEF In
  <1> QED BY <1>1, <1>2, <1>3, <1>4

(* An acknowledgement adds no delivery. *)
LEMMA InAcknowledged ==
    ASSUME NEW S, NEW q \in Seq(S), NEW t, NEW x
    PROVE  /\ Acknowledged(q, t) \in Seq(S)
           /\ In(Acknowledged(q, t), x) => In(q, x)
  <1>1. CASE \A i \in 1..Len(q) : q[i] # t
    BY <1>1 DEF Acknowledged
  <1>2. CASE ~ \A i \in 1..Len(q) : q[i] # t
    <2> DEFINE k == CHOOSE i \in 1..Len(q) : /\ q[i] = t
                                             /\ \A j \in 1..(i - 1) : q[j] # t
               a == [i \in 1..(Len(q) - 1) |-> IF i < k THEN q[i] ELSE q[i + 1]]
    <2>1. Acknowledged(q, t) = a
      BY <1>2 DEF Acknowledged
    <2>2. Len(q) \in Nat /\ Len(q) - 1 \in Nat
      BY <1>2
    <2>3. \A i \in 1..(Len(q) - 1) : i \in 1..Len(q) /\ i + 1 \in 1..Len(q)
      BY <2>2
    <2> HIDE DEF k
    <2>4. \A i \in 1..(Len(q) - 1) : a[i] \in {q[i], q[i + 1]}
      OBVIOUS
    <2>5. \A i \in 1..Len(q) : q[i] \in S
      OBVIOUS
    <2>6. a \in Seq(S) /\ Len(a) = Len(q) - 1
      <3>1. a \in [1..(Len(q) - 1) -> S]
        BY <2>3, <2>5
      <3> QED BY <2>2, <3>1
    <2>7. In(a, x) => In(q, x)
      BY <2>3, <2>4, <2>6 DEF In
    <2> QED BY <2>1, <2>6, <2>7
  <1> QED BY <1>1, <1>2
-----------------------------------------------------------------------------
(* Type correctness *)

(* A call of publish_judge_task keeps the queue's types. *)
LEMMA PublishTypes ==
    ASSUME MQTypeOK, NEW p \in Procs, NEW t \in Tasks, Publish(p, t)
    PROVE  MQTypeOK'
  <1> USE DEF MQTypeOK, Links
  <1>1. PublishFrame(t) \in Frames
    BY DEF PublishFrame, Frames
  <1>2. CASE Send(p, t)
    <2>1. Append(wire[p], PublishFrame(t)) \in Seq(Frames)
      BY <1>1
    <2> QED BY <1>2, <2>1 DEF Send
  <1>3. CASE SendIntoDeadSocket(p, t)
    BY <1>3 DEF SendIntoDeadSocket, mqVars
  <1>4. CASE QueueLocally(p, t)
    <2>1. Append(local[p], t) \in Seq(Tasks)
      OBVIOUS
    <2> QED BY <1>4, <2>1 DEF QueueLocally
  <1> QED BY <1>2, <1>3, <1>4 DEF Publish

(* So does a pop, with or without a task. *)
LEMMA PopTypes ==
    ASSUME MQTypeOK, NEW p \in Procs, NEW t \in Tasks, NEW tagged \in BOOLEAN,
           Pop(p, t, tagged) \/ PopNothing(p)
    PROVE  MQTypeOK'
  <1> USE DEF MQTypeOK, Links
  <1>1. CASE Pop(p, t, tagged) /\ tagged
    <2>1. Tail(broker) \in Seq(Tasks \cup {Poison})
      BY <1>1, InTail DEF Pop
    <2>2. Append(unacked[p], t) \in Seq(Tasks \cup {Poison})
      OBVIOUS
    <2> QED BY <1>1, <2>1, <2>2 DEF Pop
  <1>2. CASE Pop(p, t, tagged) /\ ~tagged
    <2>1. local[p] # <<>> => Tail(local[p]) \in Seq(Tasks)
      BY InTail
    <2> QED BY <1>2, <2>1 DEF Pop
  <1>3. CASE PopNothing(p)
    <2>1. link' \in [Procs -> Links] /\ UNCHANGED <<wire, local, broker, unacked>>
      BY <1>3 DEF PopNothing
    <2> QED BY <2>1
  <1> QED BY <1>1, <1>2, <1>3

(* So does an acknowledgement. *)
LEMMA AckTypes ==
    ASSUME MQTypeOK, NEW p \in Procs, NEW t \in Tasks, NEW tagged \in BOOLEAN,
           Ack(p, t, tagged)
    PROVE  MQTypeOK'
  <1>1. AckFrame(t) \in Frames
    BY DEF AckFrame, Frames
  <1>2. Append(wire[p], AckFrame(t)) \in Seq(Frames)
    BY <1>1 DEF MQTypeOK
  <1> QED BY <1>2 DEF Ack, MQTypeOK

(* So does what the broker does with a frame. *)
LEMMA ReceiveTypes ==
    ASSUME MQTypeOK, NEW p \in Procs, BrokerReceive(p)
    PROVE  MQTypeOK'
  <1> USE DEF MQTypeOK
  <1>1. Head(wire[p]) \in Frames /\ Tail(wire[p]) \in Seq(Frames)
    BY InTail DEF BrokerReceive
  <1>2. Append(broker, Head(wire[p]).task) \in Seq(Tasks \cup {Poison})
    BY <1>1 DEF Frames
  <1>3. Acknowledged(unacked[p], Head(wire[p]).task) \in Seq(Tasks \cup {Poison})
    BY InAcknowledged
  <1> QED BY <1>1, <1>2, <1>3 DEF BrokerReceive

(* So do a broken connection and a restart. *)
LEMMA DisconnectTypes ==
    ASSUME MQTypeOK, NEW p \in Procs, ConnectionBreaks(p) \/ ProcessRestarts(p)
    PROVE  MQTypeOK'
  <1> USE DEF MQTypeOK
  <1>1. unacked[p] \o broker \in Seq(Tasks \cup {Poison})
    BY InConcat
  <1>2. <<>> \in Seq(Frames) /\ <<>> \in Seq(Tasks) /\ <<>> \in Seq(Tasks \cup {Poison})
    OBVIOUS
  <1>3. wire' \in [Procs -> Seq(Frames)] /\ unacked' \in [Procs -> Seq(Tasks \cup {Poison})]
        /\ broker' \in Seq(Tasks \cup {Poison})
    <2>1. Disconnect(p)
      BY DEF ConnectionBreaks, ProcessRestarts
    <2> QED BY <1>1, <1>2, <2>1 DEF Disconnect
  <1>4. link' \in [Procs -> Links] /\ local' \in [Procs -> Seq(Tasks)]
    <2>1. CASE ConnectionBreaks(p)
      BY <2>1 DEF ConnectionBreaks, Links
    <2>2. CASE ProcessRestarts(p)
      BY <1>2, <2>2 DEF ProcessRestarts, Links
    <2> QED BY <2>1, <2>2
  <1> QED BY <1>3, <1>4

(* Only an open row can be stale: every UPDATE that closes one touches its
   update_time.  TypeOK needs this, for what a reclaim selects. *)
StaleIsOpen == \A s \in Tasks : stale[s] => status[s] \in Open

TypeInv == TypeOK /\ StaleIsOpen

(* The initial state is well-typed, and has no stale row. *)
LEMMA TypeInit == Init => TypeInv
  BY DEF Init, MQInit, TypeInv, TypeOK, MQTypeOK, StaleIsOpen, Links, Statuses,
         Places, Working, NoMsg

(* Every action keeps the types and StaleIsOpen. *)
LEMMA TypeStep == TypeInv /\ [Next]_vars => TypeInv'
  <1> SUFFICES ASSUME TypeInv, [Next]_vars PROVE TypeInv'
    OBVIOUS
  <1> USE ProcsAssumption, OutcomesAssumption
  <1>a. TypeOK /\ MQTypeOK /\ StaleIsOpen
    BY DEF TypeInv, TypeOK
  <1>b. Open \subseteq Statuses /\ Terminal \subseteq Statuses /\ "NONE" \in Statuses
        /\ "PENDING" \in Open /\ "JUDGING" \in Open /\ "NONE" \notin Open
        /\ Outcomes \subseteq Statuses /\ Outcomes \cap Open = {}
    BY DEF Statuses, Open, Terminal
  <1>c. \A w \in Workers : pc[w] \in Working \cup {"finishing", "republishing"}
                             => msg[w].task \in Tasks /\ msg[w].tagged \in BOOLEAN
    BY <1>a DEF TypeOK
  <1>1. ASSUME NEW p \in Api, NEW s \in Tasks, Insert(p, s)
        PROVE  TypeInv'
    BY <1>1, <1>a, <1>b DEF Insert, TypeInv, TypeOK, MQTypeOK, StaleIsOpen, mqVars, threadVars, faultVars
  <1>2. ASSUME NEW p \in Api, NEW s \in Tasks, SubmitPublish(p, s)
        PROVE  TypeInv'
    <2>1. MQTypeOK'
      BY <1>2, <1>a, PublishTypes DEF SubmitPublish, Publish
    <2> QED BY <1>2, <1>a, <2>1 DEF SubmitPublish, TypeInv, TypeOK, StaleIsOpen, dbVars, threadVars, faultVars
  <1>3. ASSUME NEW s \in Tasks, Age(s) \/ ChangeProblem(s)
        PROVE  TypeInv'
    BY <1>3, <1>a DEF Age, ChangeProblem, TypeInv, TypeOK, MQTypeOK, StaleIsOpen, mqVars, threadVars, faultVars
  <1>4. ASSUME NEW w \in Workers, Take(w)
        PROVE  TypeInv'
    <2>1. PICK s \in Tasks, tagged \in BOOLEAN :
                 Pop(w, s, tagged) /\ msg' = [msg EXCEPT ![w] = [task |-> s, tagged |-> tagged]]
      BY <1>4 DEF Take
    <2>2. MQTypeOK'
      BY <2>1, <1>a, PopTypes
    <2> QED BY <1>4, <1>a, <2>1, <2>2
            DEF Take, Goto, TypeInv, TypeOK, StaleIsOpen, dbVars, faultVars, Places, Working
  <1>5. ASSUME NEW w \in Workers, Poll(w)
        PROVE  TypeInv'
    <2>1. MQTypeOK'
      BY <1>5, <1>a DEF Poll, PopNothing, MQTypeOK, Links
    <2> QED BY <1>5, <1>a, <2>1 DEF Poll, TypeInv, TypeOK, StaleIsOpen, dbVars, threadVars, faultVars
  <1>6. ASSUME NEW w \in Workers, Defer(w)
        PROVE  TypeInv'
    <2>1. msg[w].task \in Tasks
      BY <1>6, <1>c DEF Defer, Working
    <2>2. MQTypeOK'
      BY <1>6, <1>a, <2>1, PublishTypes DEF Defer
    <2> QED BY <1>6, <1>a, <2>1, <2>2
            DEF Defer, Goto, TypeInv, TypeOK, StaleIsOpen, dbVars, Places, Working
  <1>7. ASSUME NEW w \in Workers, ReadRow(w)
        PROVE  TypeInv'
    BY <1>7, <1>a, <1>c
       DEF ReadRow, Goto, TypeInv, TypeOK, MQTypeOK, StaleIsOpen, mqVars, dbVars, faultVars, Places, Working
  <1>8. ASSUME NEW w \in Workers, MarkJudging(w)
        PROVE  TypeInv'
    <2>1. msg[w].task \in Tasks
      BY <1>8, <1>c DEF MarkJudging, Working
    <2>2. status' \in [Tasks -> Statuses] /\ stale' \in [Tasks -> BOOLEAN] /\ StaleIsOpen'
      BY <1>8, <1>a, <1>b, <2>1 DEF MarkJudging, TypeOK, StaleIsOpen
    <2> QED BY <1>8, <1>a, <1>c, <2>2
            DEF MarkJudging, Goto, TypeInv, TypeOK, MQTypeOK, mqVars, faultVars, Places, Working
  <1>9. ASSUME NEW w \in Workers, WriteVerdict(w)
        PROVE  TypeInv'
    <2>1. msg[w].task \in Tasks
      BY <1>9, <1>c DEF WriteVerdict, Working
    <2>2. status' \in [Tasks -> Statuses] /\ stale' \in [Tasks -> BOOLEAN] /\ StaleIsOpen'
      BY <1>9, <1>a, <1>b, <2>1 DEF WriteVerdict, TypeOK, StaleIsOpen
    <2> QED BY <1>9, <1>a, <1>c, <2>2
            DEF WriteVerdict, Goto, TypeInv, TypeOK, MQTypeOK, mqVars, faultVars, Places, Working
  <1>10. ASSUME NEW w \in Workers, GiveUp(w)
         PROVE  TypeInv'
    BY <1>10, <1>a, <1>c
       DEF GiveUp, Goto, TypeInv, TypeOK, MQTypeOK, StaleIsOpen, mqVars, dbVars, Places, Working
  <1>11. ASSUME NEW w \in Workers, Finish(w)
         PROVE  TypeInv'
    <2>1. MQTypeOK'
      BY <1>11, <1>a, <1>c, AckTypes DEF Finish
    <2> QED BY <1>11, <1>a, <2>1
            DEF Finish, Goto, TypeInv, TypeOK, StaleIsOpen, dbVars, faultVars, Places, Working, NoMsg
  <1>12. ASSUME NEW w \in Workers, SelectStale(w)
         PROVE  TypeInv'
    <2>1. rows' \in [Workers -> SUBSET [id : Tasks, status : Open]]
      BY <1>12, <1>a DEF SelectStale, TypeOK, StaleIsOpen
    <2> QED BY <1>12, <1>a, <2>1
            DEF SelectStale, Goto, TypeInv, TypeOK, MQTypeOK, StaleIsOpen, mqVars, dbVars, faultVars, Places, Working
  <1>13. ASSUME NEW w \in Workers, NEW row \in rows[w], ReclaimRow(w, row)
         PROVE  TypeInv'
    <2>1. row.id \in Tasks
      BY <1>a DEF TypeOK
    <2>2. status' \in [Tasks -> Statuses] /\ stale' \in [Tasks -> BOOLEAN] /\ StaleIsOpen'
      <3>1. CASE row.status = "JUDGING"
        <4>1. status' = [status EXCEPT ![row.id] = "PENDING"]
              /\ stale' = [stale EXCEPT ![row.id] = FALSE]
          BY <1>13, <3>1 DEF ReclaimRow
        <4> QED BY <1>a, <1>b, <2>1, <4>1 DEF TypeOK, StaleIsOpen
      <3>2. CASE row.status # "JUDGING"
        BY <1>13, <1>a, <3>2 DEF ReclaimRow, TypeOK, StaleIsOpen, dbVars
      <3> QED BY <3>1, <3>2
    <2> QED BY <1>13, <1>a, <2>1, <2>2
            DEF ReclaimRow, Goto, TypeInv, TypeOK, MQTypeOK, mqVars, faultVars, Places, Working
  <1>14. ASSUME NEW w \in Workers, NEW row \in rows[w], SkipRow(w, row)
         PROVE  TypeInv'
    BY <1>14, <1>a DEF SkipRow, TypeInv, TypeOK, MQTypeOK, StaleIsOpen, mqVars, dbVars, faultVars
  <1>15. ASSUME NEW w \in Workers, Republish(w)
         PROVE  TypeInv'
    <2>1. MQTypeOK'
      BY <1>15, <1>a, <1>c, PublishTypes DEF Republish, Publish
    <2> QED BY <1>15, <1>a, <2>1
            DEF Republish, Goto, TypeInv, TypeOK, StaleIsOpen, dbVars, faultVars, Places, Working, NoMsg
  <1>16. ASSUME NEW w \in Workers, EndReclaim(w)
         PROVE  TypeInv'
    BY <1>16, <1>a
       DEF EndReclaim, Goto, TypeInv, TypeOK, MQTypeOK, StaleIsOpen, mqVars, dbVars, faultVars, Places, Working
  <1>17. ASSUME NEW p \in Procs, Receive(p)
         PROVE  TypeInv'
    <2>1. MQTypeOK'
      BY <1>17, <1>a, ReceiveTypes DEF Receive
    <2> QED BY <1>17, <1>a, <2>1 DEF Receive, TypeInv, TypeOK, StaleIsOpen, dbVars, threadVars, faultVars
  <1>18. ASSUME NEW p \in Procs, Break(p)
         PROVE  TypeInv'
    <2>1. MQTypeOK'
      BY <1>18, <1>a, DisconnectTypes DEF Break
    <2> QED BY <1>18, <1>a, <2>1
            DEF Break, Undelivered, TypeInv, TypeOK, StaleIsOpen, dbVars, threadVars
  <1>19. ASSUME NEW p \in Procs, Restart(p)
         PROVE  TypeInv'
    <2>1. MQTypeOK'
      BY <1>19, <1>a, DisconnectTypes DEF Restart
    <2>2. InHandOnly(p) \subseteq Tasks /\ Undelivered(p) \subseteq Tasks
      BY <1>c DEF InHandOnly, Undelivered
    <2> QED BY <1>19, <1>a, <2>1, <2>2
            DEF Restart, TypeInv, TypeOK, StaleIsOpen, dbVars, Places, Working, NoMsg
  <1>20. CASE UNCHANGED vars
    BY <1>20, <1>a
       DEF vars, mqVars, dbVars, threadVars, faultVars, TypeInv, TypeOK, MQTypeOK, StaleIsOpen
  <1> QED BY <1>1, <1>2, <1>3, <1>4, <1>5, <1>6, <1>7, <1>8, <1>9, <1>10, <1>11, <1>12,
             <1>13, <1>14, <1>15, <1>16, <1>17, <1>18, <1>19, <1>20 DEF Next, Thread

(* Every variable keeps its type, and a judge thread that is past the pop has a
   submission in hand: run_judge_task, the ack and the reclaim's publish never
   act on a message that is not there. *)
THEOREM TypeCorrect == Spec => []TypeOK
  <1>1. Spec => []TypeInv
    BY TypeInit, TypeStep, PTL DEF Spec
  <1>2. TypeInv => TypeOK
    BY DEF TypeInv
  <1> QED BY <1>1, <1>2, PTL

-----------------------------------------------------------------------------
(* No open submission is forgotten *)

(* NothingForgotten alone is not inductive.  A thread that has popped a task
   over a connection that broke since may still put it back, into a dead
   socket: it does not carry the submission, the message that the broker made
   ready again does.  And what keeps a task safe from a crash is that its
   delivery is unacknowledged, with no ack on the wire. *)
Holds(w, s) ==
    /\ pc[w] \in Working /\ msg[w].task = s
    /\ pc[w] = "popped" /\ msg[w].tagged => link[w] = "up"

Queued(s) ==
    \/ In(broker, s)
    \/ \E p \in Procs : In(wire[p], PublishFrame(s)) \/ In(local[p], s)

Carried(s) ==
    \/ request[s] # NoProc
    \/ Queued(s)
    \/ \E w \in Workers : Holds(w, s)

OpenIsCarried == \A s \in Tasks : status[s] \in Open /\ s \notin orphaned => Carried(s)

WorkIsLinked ==
    \A w \in Workers : pc[w] \in Working =>
        link[w] # "unprobed" /\ (~msg[w].tagged => link[w] = "local")

NoAckUnderWork ==
    \A w \in Workers : pc[w] \in Working /\ msg[w].tagged /\ link[w] = "up" =>
        /\ In(unacked[w], msg[w].task)
        /\ \A i \in 1..Len(wire[w]) : wire[w][i].kind # "ack"

CarryInv == TypeInv /\ OpenIsCarried /\ WorkIsLinked /\ NoAckUnderWork

(* Publishing leaves every queued message queued, and queues the new one unless
   it is written into a dead socket. *)
LEMMA QueuedPublish ==
    ASSUME MQTypeOK, NEW p \in Procs, NEW t \in Tasks, Send(p, t) \/ QueueLocally(p, t),
           NEW s \in Tasks
    PROVE  /\ Queued(s) => Queued(s)'
           /\ Queued(t)'
  <1> USE DEF MQTypeOK
  <1>0. /\ PublishFrame(t) \in Frames /\ PublishFrame(s) \in Frames
        /\ \A q \in Procs : wire[q] \in Seq(Frames) /\ local[q] \in Seq(Tasks)
    BY DEF PublishFrame, Frames
  <1>1. CASE Send(p, t)
    <2>1. /\ wire' = [wire EXCEPT ![p] = Append(wire[p], PublishFrame(t))]
          /\ local' = local /\ broker' = broker
      BY <1>1 DEF Send
    <2>2. /\ In(wire[p], PublishFrame(s)) => In(Append(wire[p], PublishFrame(t)), PublishFrame(s))
          /\ In(Append(wire[p], PublishFrame(t)), PublishFrame(t))
      BY <1>0, InAppend
    <2>3. In(wire'[p], PublishFrame(t))
      BY <2>1, <2>2
    <2>4. \A q \in Procs : In(wire[q], PublishFrame(s)) => In(wire'[q], PublishFrame(s))
      BY <2>1, <2>2
    <2> QED BY <2>1, <2>3, <2>4 DEF Queued, PublishFrame
  <1>2. CASE QueueLocally(p, t)
    <2>1. /\ local' = [local EXCEPT ![p] = Append(local[p], t)]
          /\ wire' = wire /\ broker' = broker
      BY <1>2 DEF QueueLocally
    <2>2. /\ In(local[p], s) => In(Append(local[p], t), s)
          /\ In(Append(local[p], t), t)
      BY <1>0, InAppend
    <2>3. In(local'[p], t)
      BY <2>1, <2>2
    <2>4. \A q \in Procs : In(local[q], s) => In(local'[q], s)
      BY <2>1, <2>2
    <2> QED BY <2>1, <2>3, <2>4 DEF Queued
  <1> QED BY <1>1, <1>2

(* A pop takes the message it hands out, no other. *)
LEMMA QueuedPop ==
    ASSUME MQTypeOK, NEW p \in Procs, NEW t \in Tasks, NEW tagged \in BOOLEAN,
           Pop(p, t, tagged), NEW s \in Tasks, s # t, Queued(s)
    PROVE  Queued(s)'
  <1> USE DEF MQTypeOK
  <1>1. CASE tagged
    <2>1. broker # <<>> /\ t = Head(broker) /\ broker' = Tail(broker) /\ UNCHANGED <<wire, local>>
      BY <1>1 DEF Pop
    <2>2. In(broker, s) => In(broker', s)
      BY <2>1, InTail
    <2> QED BY <2>1, <2>2 DEF Queued
  <1>2. CASE ~tagged
    <2>1. /\ local[p] # <<>> /\ t = Head(local[p])
          /\ local' = [local EXCEPT ![p] = Tail(local[p])] /\ UNCHANGED <<wire, broker>>
      BY <1>2 DEF Pop
    <2>2. In(local[p], s) => In(Tail(local[p]), s)
      BY <2>1, InTail
    <2>3. \A q \in Procs : In(local[q], s) => In(local'[q], s)
      BY <2>1, <2>2
    <2> QED BY <2>1, <2>3 DEF Queued
  <1> QED BY <1>1, <1>2

(* A frame the broker handles becomes a ready message, or was an ack. *)
LEMMA QueuedReceive ==
    ASSUME MQTypeOK, NEW p \in Procs, BrokerReceive(p), NEW s \in Tasks, Queued(s)
    PROVE  Queued(s)'
  <1> USE DEF MQTypeOK
  <1> DEFINE f == Head(wire[p])
  <1>1. /\ wire[p] # <<>> /\ wire[p] \in Seq(Frames)
        /\ wire' = [wire EXCEPT ![p] = Tail(wire[p])] /\ UNCHANGED <<link, local>>
        /\ \/ f.kind = "publish" /\ broker' = Append(broker, f.task)
           \/ f.kind = "ack" /\ broker' = broker
    BY DEF BrokerReceive
  <1>2. f \in Frames /\ (In(wire[p], PublishFrame(s)) => PublishFrame(s) = f \/ In(Tail(wire[p]), PublishFrame(s)))
    BY <1>1, InTail
  <1>a. f.task \in Tasks \cup {Poison} /\ broker \in Seq(Tasks \cup {Poison})
    BY <1>2 DEF Frames
  <1> HIDE DEF f
  <1>b. In(Append(broker, f.task), s) <=> In(broker, s) \/ s = f.task
    <2> DEFINE M == Tasks \cup {Poison}
    <2>1. f.task \in M /\ broker \in Seq(M)
      BY <1>a
    <2> HIDE DEF M
    <2> QED BY <2>1, InAppend
  <1>3. In(broker, s) => In(broker', s)
    BY <1>1, <1>b
  <1>4. PublishFrame(s) = f => In(broker', s)
    <2>1. PublishFrame(s).kind = "publish" /\ PublishFrame(s).task = s
      BY DEF PublishFrame
    <2>2. "publish" # "ack"
      OBVIOUS
    <2> QED BY <1>1, <1>b, <2>1, <2>2
  <1>5. \A q \in Procs : In(wire[q], PublishFrame(s)) => In(wire'[q], PublishFrame(s)) \/ In(broker', s)
    BY <1>1, <1>2, <1>4 DEF f
  <1> QED BY <1>1, <1>3, <1>5 DEF Queued

(* A broken connection and a restart lose the frames on the wire and, for the
   restart, the in-process queue; what was unacknowledged is ready again. *)
LEMMA QueuedDisconnect ==
    ASSUME MQTypeOK, NEW p \in Procs, ConnectionBreaks(p) \/ ProcessRestarts(p), NEW s \in Tasks
    PROVE  /\ In(unacked[p], s) => Queued(s)'
           /\ Queued(s) => \/ Queued(s)'
                           \/ In(wire[p], PublishFrame(s))
                           \/ ProcessRestarts(p) /\ In(local[p], s)
  <1> USE DEF MQTypeOK
  <1>1. /\ broker' = unacked[p] \o broker
        /\ \A q \in Procs : q # p => wire'[q] = wire[q] /\ local'[q] = local[q]
        /\ ConnectionBreaks(p) => local' = local
    BY DEF ConnectionBreaks, ProcessRestarts, Disconnect
  <1>2. In(unacked[p], s) \/ In(broker, s) => In(broker', s)
    BY <1>1, InConcat
  <1> QED BY <1>1, <1>2 DEF Queued

(* What publishing does to the process that calls it: no delivery is touched, no
   ack written, no connection comes back. *)
LEMMA PublishKeeps ==
    ASSUME MQTypeOK, NEW p \in Procs, NEW t \in Tasks, Publish(p, t), NEW q \in Procs
    PROVE  /\ unacked' = unacked
           /\ link[q] # "unprobed" => link'[q] # "unprobed"
           /\ link[q] = "local" => link'[q] = "local"
           /\ link[q] # "unprobed" /\ link'[q] = "up" => link[q] = "up"
           /\ (\A i \in 1..Len(wire[q]) : wire[q][i].kind # "ack")
              => (\A i \in 1..Len(wire'[q]) : wire'[q][i].kind # "ack")
  <1>1. /\ unacked' = unacked
        /\ link[q] # "unprobed" => link'[q] # "unprobed"
        /\ link[q] = "local" => link'[q] = "local"
        /\ link[q] # "unprobed" /\ link'[q] = "up" => link[q] = "up"
        /\ wire'[q] = wire[q] \/ wire'[q] = Append(wire[q], PublishFrame(t))
    BY DEF Publish, Send, SendIntoDeadSocket, QueueLocally, mqVars, MQTypeOK
  <1>2. wire[q] \in Seq(Frames)
    BY DEF MQTypeOK
  <1>3. /\ Len(wire[q]) \in Nat
        /\ Len(Append(wire[q], PublishFrame(t))) = Len(wire[q]) + 1
        /\ \A i \in 1..Len(wire[q]) : Append(wire[q], PublishFrame(t))[i] = wire[q][i]
        /\ Append(wire[q], PublishFrame(t))[Len(wire[q]) + 1] = PublishFrame(t)
    BY <1>2
  <1>4. PublishFrame(t).kind # "ack"
    BY DEF PublishFrame
  <1>5. \A i \in 1..(Len(wire[q]) + 1) : i \in 1..Len(wire[q]) \/ i = Len(wire[q]) + 1
    BY <1>3
  <1> QED BY <1>1, <1>3, <1>4, <1>5

(* Initially there is no open row to carry. *)
LEMMA CarryInit == Init => CarryInv
  BY TypeInit DEF Init, MQInit, CarryInv, OpenIsCarried, WorkIsLinked, NoAckUnderWork,
                  Open, Working

(* Every action keeps the strengthened invariant. *)
LEMMA CarryStep == CarryInv /\ [Next]_vars => CarryInv'
  <1> SUFFICES ASSUME CarryInv, [Next]_vars
               PROVE  OpenIsCarried' /\ WorkIsLinked' /\ NoAckUnderWork'
    BY TypeStep DEF CarryInv
  <1> USE ProcsAssumption, NamesAssumption
  <1>a. TypeOK /\ MQTypeOK /\ OpenIsCarried /\ WorkIsLinked /\ NoAckUnderWork
    BY DEF CarryInv, TypeInv, TypeOK
  <1>b. \A w \in Workers : pc[w] \in Working \cup {"finishing", "republishing"}
                             => msg[w].task \in Tasks /\ msg[w].tagged \in BOOLEAN
    BY <1>a DEF TypeOK
  <1>c. \A s \in Terminal : s \notin Open
    BY DEF Terminal, Open
  (* A step that leaves the queue, the requests and the threads' places alone *)
  <1>d. ASSUME UNCHANGED mqVars
        PROVE  \A s : Queued(s)' <=> Queued(s)
    BY <1>d DEF mqVars, Queued
  <1>e. ASSUME UNCHANGED <<pc, msg, link>>
        PROVE  \A w, s : Holds(w, s)' <=> Holds(w, s)
    BY <1>e DEF Holds
  <1>1. ASSUME NEW p \in Api, NEW s \in Tasks, Insert(p, s)
        PROVE  OpenIsCarried' /\ WorkIsLinked' /\ NoAckUnderWork'
    <2>1. UNCHANGED <<mqVars, link, wire, unacked, pc, msg, orphaned>>
      BY <1>1 DEF Insert, mqVars, threadVars
    <2>2. request' = [request EXCEPT ![s] = p] /\ status' = [status EXCEPT ![s] = "PENDING"]
          /\ p # NoProc
      BY <1>1 DEF Insert
    <2>3. OpenIsCarried'
      <3> SUFFICES ASSUME NEW u \in Tasks, status'[u] \in Open, u \notin orphaned
                   PROVE  Carried(u)'
        BY <2>1 DEF OpenIsCarried
      <3>1. CASE u = s
        BY <1>a, <2>2, <3>1 DEF Carried, TypeOK
      <3>2. CASE u # s
        <4>1. Carried(u) /\ request'[u] = request[u]
          BY <1>a, <2>2, <3>2 DEF OpenIsCarried, TypeOK
        <4> QED BY <1>d, <1>e, <2>1, <4>1 DEF Carried
      <3> QED BY <3>1, <3>2
    <2> QED BY <1>a, <2>1, <2>3 DEF WorkIsLinked, NoAckUnderWork
  <1>2. ASSUME NEW p \in Api, NEW s \in Tasks, SubmitPublish(p, s)
        PROVE  OpenIsCarried' /\ WorkIsLinked' /\ NoAckUnderWork'
    <2>1. UNCHANGED <<status, pc, msg>> /\ request' = [request EXCEPT ![s] = NoProc]
      BY <1>2 DEF SubmitPublish, dbVars, threadVars
    <2>2. Publish(p, s) /\ p \in Procs
      BY <1>2 DEF SubmitPublish, Publish
    <2>3. \A w \in Workers, u \in Tasks : Holds(w, u) => Holds(w, u)'
      BY <1>a, <2>1, <2>2 DEF Holds, Publish, Send, SendIntoDeadSocket, QueueLocally, mqVars, MQTypeOK
    <2>4. OpenIsCarried'
      <3> SUFFICES ASSUME NEW u \in Tasks, status'[u] \in Open, u \notin orphaned'
                   PROVE  Carried(u)'
        BY DEF OpenIsCarried
      <3>1. CASE SendIntoDeadSocket(p, s) /\ orphaned' = orphaned \cup {s}
        <4>1. u # s /\ Carried(u) /\ request'[u] = request[u]
          BY <1>a, <2>1, <3>1 DEF OpenIsCarried, TypeOK
        <4> QED BY <1>d, <2>3, <3>1, <4>1 DEF Carried, SendIntoDeadSocket
      <3>2. CASE (Send(p, s) \/ QueueLocally(p, s)) /\ orphaned' = orphaned
        <4>1. Queued(s)' /\ (Queued(u) => Queued(u)')
          BY <1>a, <2>2, <3>2, QueuedPublish
        <4>2. Carried(u) /\ (u # s => request'[u] = request[u])
          BY <1>a, <2>1, <3>2 DEF OpenIsCarried, TypeOK
        <4> QED BY <2>3, <4>1, <4>2 DEF Carried
      <3> QED BY <1>2, <3>1, <3>2 DEF SubmitPublish
    <2>5. WorkIsLinked' /\ NoAckUnderWork'
      BY <1>a, <2>1, <2>2, PublishKeeps DEF WorkIsLinked, NoAckUnderWork
    <2> QED BY <2>4, <2>5
  <1>3. ASSUME NEW s \in Tasks, Age(s) \/ ChangeProblem(s)
        PROVE  OpenIsCarried' /\ WorkIsLinked' /\ NoAckUnderWork'
    <2>1. UNCHANGED <<mqVars, link, wire, unacked, pc, msg, orphaned, status, request>>
      BY <1>3 DEF Age, ChangeProblem, mqVars, threadVars
    <2> QED BY <1>a, <1>d, <1>e, <2>1 DEF OpenIsCarried, Carried, WorkIsLinked, NoAckUnderWork
  <1>4. ASSUME NEW w \in Workers, Take(w)
        PROVE  OpenIsCarried' /\ WorkIsLinked' /\ NoAckUnderWork'
    <2>1. PICK t \in Tasks, tagged \in BOOLEAN :
                 Pop(w, t, tagged) /\ msg' = [msg EXCEPT ![w] = [task |-> t, tagged |-> tagged]]
      BY <1>4 DEF Take
    <2>2. /\ UNCHANGED <<status, request, orphaned>>
          /\ pc[w] = "idle" /\ pc' = [pc EXCEPT ![w] = "popped"]
      BY <1>4 DEF Take, Goto, dbVars
    <2>3. /\ msg'[w] = [task |-> t, tagged |-> tagged] /\ pc'[w] = "popped"
          /\ \A v \in Workers \ {w} : msg'[v] = msg[v] /\ pc'[v] = pc[v]
      BY <1>a, <2>1, <2>2 DEF TypeOK
    <2>4. /\ tagged => link'[w] = "up" /\ wire'[w] = <<>> /\ unacked' = [unacked EXCEPT ![w] = Append(@, t)]
          /\ ~tagged => link'[w] = "local" /\ unacked' = unacked
          /\ \A v \in Workers \ {w} : link'[v] = link[v] /\ wire'[v] = wire[v] /\ unacked'[v] = unacked[v]
      BY <1>a, <2>1 DEF Pop, MQTypeOK
    <2>5. \A u \in Tasks : \A v \in Workers : Holds(v, u) => Holds(v, u)'
      BY <2>2, <2>3, <2>4 DEF Holds, Working
    <2>6. Holds(w, t)'
      BY <2>3, <2>4 DEF Holds, Working
    <2>7. OpenIsCarried'
      <3> SUFFICES ASSUME NEW u \in Tasks, status'[u] \in Open, u \notin orphaned'
                   PROVE  Carried(u)'
        BY DEF OpenIsCarried
      <3>1. CASE u = t
        BY <2>6, <3>1 DEF Carried
      <3>2. CASE u # t
        <4>1. Queued(u) => Queued(u)'
          BY <1>a, <2>1, <3>2, QueuedPop
        <4> QED BY <1>a, <2>2, <2>5, <4>1 DEF OpenIsCarried, Carried
      <3> QED BY <3>1, <3>2
    <2>8. WorkIsLinked'
      BY <1>a, <2>3, <2>4 DEF WorkIsLinked
    <2>9. NoAckUnderWork'
      <3>1. tagged => In(unacked'[w], t)
        <4>1. unacked[w] \in Seq(Tasks \cup {Poison})
          BY <1>a DEF MQTypeOK
        <4>2. In(Append(unacked[w], t), t)
          BY <4>1 DEF In
        <4> QED BY <1>a, <2>4, <4>2 DEF MQTypeOK
      <3>2. ASSUME NEW v \in Workers, pc'[v] \in Working, msg'[v].tagged, link'[v] = "up"
            PROVE  /\ In(unacked'[v], msg'[v].task)
                   /\ \A i \in 1..Len(wire'[v]) : wire'[v][i].kind # "ack"
        <4>1. CASE v = w
          BY <2>3, <2>4, <3>1, <3>2, <4>1
        <4>2. CASE v # w
          BY <1>a, <2>3, <2>4, <3>2, <4>2 DEF NoAckUnderWork
        <4> QED BY <4>1, <4>2
      <3> QED BY <3>2 DEF NoAckUnderWork
    <2> QED BY <2>7, <2>8, <2>9
  <1>5. ASSUME NEW w \in Workers, Poll(w)
        PROVE  OpenIsCarried' /\ WorkIsLinked' /\ NoAckUnderWork'
    <2>1. /\ UNCHANGED <<status, request, orphaned, pc, msg, wire, local, broker, unacked>>
          /\ pc[w] = "idle" /\ \A v \in Workers \ {w} : link'[v] = link[v]
      BY <1>5, <1>a DEF Poll, PopNothing, dbVars, threadVars, MQTypeOK
    <2>2. \A u : Queued(u) <=> Queued(u)'
      BY <2>1 DEF Queued
    <2>3. \A u \in Tasks : \A v \in Workers : Holds(v, u) => Holds(v, u)'
      BY <2>1 DEF Holds, Working
    <2> QED BY <1>a, <2>1, <2>2, <2>3
            DEF OpenIsCarried, Carried, WorkIsLinked, NoAckUnderWork, Working
  <1>6. ASSUME NEW w \in Workers, Defer(w)
        PROVE  OpenIsCarried' /\ WorkIsLinked' /\ NoAckUnderWork'
    <2> DEFINE t == msg[w].task
    <2>1. /\ UNCHANGED <<status, request, orphaned, msg>>
          /\ pc[w] = "popped" /\ pc' = [pc EXCEPT ![w] = "finishing"]
          /\ link[w] \in {"up", "broken"} /\ Publish(w, t)
      BY <1>6 DEF Defer, Goto, dbVars
    <2>2. t \in Tasks
      BY <1>b, <2>1 DEF Working
    <2> HIDE DEF t
    <2>3. pc'[w] = "finishing" /\ \A v \in Workers \ {w} : pc'[v] = pc[v] /\ link'[v] = link[v]
      BY <1>a, <2>1 DEF TypeOK, MQTypeOK, Publish, Send, SendIntoDeadSocket, QueueLocally, mqVars
    <2>4. \A u \in Tasks : \A v \in Workers \ {w} : Holds(v, u) => Holds(v, u)'
      BY <2>1, <2>3 DEF Holds
    <2>5. \A u \in Tasks : Queued(u) => Queued(u)'
      BY <1>a, <2>1, <2>2, QueuedPublish DEF Publish, SendIntoDeadSocket, mqVars, Queued
    <2>6. \A u \in Tasks : Holds(w, u) => Queued(u)'
      <3>1. SUFFICES ASSUME NEW u \in Tasks, Holds(w, u) PROVE Queued(u)'
        OBVIOUS
      <3>2. u = t
        BY <3>1 DEF Holds, t
      <3>3. link[w] = "up"
        BY <1>a, <2>1, <3>1 DEF Holds, WorkIsLinked, Working
      <3>4. Send(w, t)
        BY <2>1, <3>3 DEF Publish, SendIntoDeadSocket, QueueLocally
      <3> QED BY <1>a, <2>2, <3>2, <3>4, QueuedPublish
    <2>7. OpenIsCarried'
      BY <1>a, <2>1, <2>4, <2>5, <2>6 DEF OpenIsCarried, Carried
    <2>8. WorkIsLinked' /\ NoAckUnderWork'
      <3>1. "finishing" \notin Working
        BY DEF Working
      <3> QED BY <1>a, <2>1, <2>2, <2>3, <3>1, PublishKeeps DEF WorkIsLinked, NoAckUnderWork
    <2> QED BY <2>7, <2>8
  <1>7. ASSUME NEW w \in Workers, ReadRow(w)
        PROVE  OpenIsCarried' /\ WorkIsLinked' /\ NoAckUnderWork'
    <2> DEFINE t == msg[w].task
    <2>1. /\ UNCHANGED <<mqVars, link, wire, unacked, status, request, orphaned, msg>>
          /\ pc[w] = "popped"
          /\ pc' = [pc EXCEPT ![w] = IF status[t] \in Terminal THEN "finishing" ELSE "read"]
      BY <1>7 DEF ReadRow, Goto, mqVars, dbVars
    <2>2. \A v \in Workers \ {w} : pc'[v] = pc[v]
      BY <1>a, <2>1 DEF TypeOK
    <2>3. \A u \in Tasks : \A v \in Workers \ {w} : Holds(v, u) => Holds(v, u)'
      BY <2>1, <2>2 DEF Holds
    <2>4. \A u \in Tasks : Holds(w, u) /\ status[u] \in Open => Holds(w, u)'
      BY <1>a, <1>c, <2>1 DEF Holds, Working, TypeOK
    <2>5. OpenIsCarried'
      BY <1>a, <1>d, <2>1, <2>3, <2>4 DEF OpenIsCarried, Carried
    <2>6. \A v \in Workers : pc'[v] \in Working => pc[v] \in Working
      BY <1>a, <2>1, <2>2 DEF Working, TypeOK
    <2> QED BY <1>a, <2>1, <2>5, <2>6 DEF WorkIsLinked, NoAckUnderWork
  <1>8. ASSUME NEW w \in Workers, MarkJudging(w)
        PROVE  OpenIsCarried' /\ WorkIsLinked' /\ NoAckUnderWork'
    <2> DEFINE t == msg[w].task
    <2>1. /\ UNCHANGED <<mqVars, link, wire, unacked, request, orphaned, msg>>
          /\ status' = [status EXCEPT ![t] = "JUDGING"]
          /\ pc[w] = "read" /\ pc' = [pc EXCEPT ![w] = "judging"]
      BY <1>8 DEF MarkJudging, Goto, mqVars
    <2>2. t \in Tasks
      BY <1>b, <2>1 DEF Working
    <2> HIDE DEF t
    <2>3. pc'[w] = "judging" /\ \A v \in Workers \ {w} : pc'[v] = pc[v]
      BY <1>a, <2>1 DEF TypeOK
    <2>4. \A u \in Tasks : \A v \in Workers : Holds(v, u) => Holds(v, u)'
      BY <2>1, <2>3 DEF Holds, Working
    <2>5. \A u \in Tasks : u = t => Carried(u)'
      BY <2>1, <2>3 DEF Carried, Holds, Working, t
    <2>6. \A u \in Tasks : u # t => status'[u] = status[u]
      BY <1>a, <2>1 DEF TypeOK
    <2>7. OpenIsCarried'
      <3>1. \A u \in Tasks : Carried(u) => Carried(u)'
        BY <1>d, <2>1, <2>4 DEF Carried
      <3> QED BY <1>a, <2>1, <2>5, <2>6, <3>1 DEF OpenIsCarried
    <2>8. \A v \in Workers : pc'[v] \in Working => pc[v] \in Working
      BY <2>1, <2>3 DEF Working
    <2> QED BY <1>a, <2>1, <2>7, <2>8 DEF WorkIsLinked, NoAckUnderWork
  <1>9. ASSUME NEW w \in Workers, WriteVerdict(w)
        PROVE  OpenIsCarried' /\ WorkIsLinked' /\ NoAckUnderWork'
    <2> DEFINE t == msg[w].task
    <2>1. /\ UNCHANGED <<mqVars, link, wire, unacked, request, orphaned, msg>>
          /\ \E v \in Outcomes : status' = [status EXCEPT ![t] = v]
          /\ pc[w] = "judging" /\ pc' = [pc EXCEPT ![w] = "finishing"]
      BY <1>9 DEF WriteVerdict, Goto, mqVars
    <2>2. t \in Tasks
      BY <1>b, <2>1 DEF Working
    <2>3. \A u \in Tasks : status'[u] \in Open => u # t /\ status'[u] = status[u]
      BY <1>a, <1>c, <2>1, <2>2, OutcomesAssumption DEF TypeOK
    <2>4. pc'[w] = "finishing" /\ \A v \in Workers \ {w} : pc'[v] = pc[v]
      BY <1>a, <2>1 DEF TypeOK
    <2>5. \A u \in Tasks : \A v \in Workers : u # t /\ Holds(v, u) => Holds(v, u)'
      BY <2>1, <2>4 DEF Holds
    <2>6. OpenIsCarried'
      BY <1>a, <1>d, <2>1, <2>3, <2>5 DEF OpenIsCarried, Carried
    <2>7. \A v \in Workers : pc'[v] \in Working => pc[v] \in Working
      BY <2>4 DEF Working
    <2> QED BY <1>a, <2>1, <2>6, <2>7 DEF WorkIsLinked, NoAckUnderWork
  <1>10. ASSUME NEW w \in Workers, GiveUp(w)
         PROVE  OpenIsCarried' /\ WorkIsLinked' /\ NoAckUnderWork'
    <2> DEFINE t == msg[w].task
    <2>1. /\ UNCHANGED <<mqVars, link, wire, unacked, request, status, msg>>
          /\ orphaned' = orphaned \cup {t}
          /\ pc[w] \in Working /\ pc' = [pc EXCEPT ![w] = "finishing"]
      BY <1>10 DEF GiveUp, Goto, mqVars, dbVars, Working
    <2>2. pc'[w] = "finishing" /\ \A v \in Workers \ {w} : pc'[v] = pc[v]
      BY <1>a, <2>1 DEF TypeOK
    <2>3. \A u \in Tasks : \A v \in Workers : u # t /\ Holds(v, u) => Holds(v, u)'
      BY <2>1, <2>2 DEF Holds
    <2>4. OpenIsCarried'
      BY <1>a, <1>d, <2>1, <2>3 DEF OpenIsCarried, Carried
    <2>5. \A v \in Workers : pc'[v] \in Working => pc[v] \in Working
      BY <2>2 DEF Working
    <2> QED BY <1>a, <2>1, <2>4, <2>5 DEF WorkIsLinked, NoAckUnderWork
  <1>11. ASSUME NEW w \in Workers, Finish(w)
         PROVE  OpenIsCarried' /\ WorkIsLinked' /\ NoAckUnderWork'
    <2> DEFINE t == msg[w].task
    <2>1. /\ UNCHANGED <<link, local, broker, unacked, request, status, orphaned>>
          /\ msg' = [msg EXCEPT ![w] = NoMsg]
          /\ pc[w] = "finishing" /\ pc' = [pc EXCEPT ![w] = "idle"]
          /\ Ack(w, t, msg[w].tagged)
      BY <1>11 DEF Finish, Goto, dbVars, Ack
    <2>2. t \in Tasks
      BY <1>b, <2>1
    <2> HIDE DEF t
    <2>3. /\ pc'[w] = "idle"
          /\ \A v \in Workers \ {w} : pc'[v] = pc[v] /\ msg'[v] = msg[v] /\ wire'[v] = wire[v]
      BY <1>a, <2>1 DEF TypeOK, MQTypeOK, Ack
    <2>4. \A u \in Tasks : \A v \in Workers : Holds(v, u) => Holds(v, u)'
      BY <2>1, <2>3 DEF Holds, Working
    <2>5. \A u \in Tasks : Queued(u) => Queued(u)'
      <3> SUFFICES ASSUME NEW u \in Tasks, Queued(u) PROVE Queued(u)'
        OBVIOUS
      <3>1. wire[w] \in Seq(Frames) /\ AckFrame(t) \in Frames
        BY <1>a, <2>2 DEF MQTypeOK, AckFrame, Frames
      <3>2. In(wire[w], PublishFrame(u)) => In(Append(wire[w], AckFrame(t)), PublishFrame(u))
        BY <3>1, InAppend
      <3>3. \A q \in Procs : In(wire[q], PublishFrame(u)) => In(wire'[q], PublishFrame(u))
        BY <1>a, <2>1, <3>2 DEF Ack, MQTypeOK
      <3> QED BY <2>1, <3>3 DEF Queued
    <2>6. OpenIsCarried'
      BY <1>a, <2>1, <2>4, <2>5 DEF OpenIsCarried, Carried
    <2>7. "idle" \notin Working
      BY DEF Working
    <2> QED BY <1>a, <2>1, <2>3, <2>6, <2>7 DEF WorkIsLinked, NoAckUnderWork
  (* The steps of a reclaim that do not publish: the thread works on nothing
     before or after, and an open row stays open. *)
  <1>12. ASSUME NEW w \in Workers,
                UNCHANGED <<mqVars, link, wire, unacked, request, orphaned>>,
                \A u \in Tasks : status'[u] \in Open => status[u] \in Open,
                pc[w] \notin Working, pc'[w] \notin Working,
                \A v \in Workers \ {w} : pc'[v] = pc[v] /\ msg'[v] = msg[v]
         PROVE  OpenIsCarried' /\ WorkIsLinked' /\ NoAckUnderWork'
    <2>1. \A u \in Tasks : \A v \in Workers : Holds(v, u) => Holds(v, u)'
      BY <1>12 DEF Holds
    <2>2. OpenIsCarried'
      BY <1>a, <1>d, <1>12, <2>1 DEF OpenIsCarried, Carried
    <2> QED BY <1>a, <1>12, <2>2 DEF WorkIsLinked, NoAckUnderWork
  <1>13. ASSUME NEW w \in Workers, SelectStale(w)
         PROVE  OpenIsCarried' /\ WorkIsLinked' /\ NoAckUnderWork'
    <2>1. /\ pc[w] \notin Working /\ pc'[w] \notin Working
          /\ \A v \in Workers \ {w} : pc'[v] = pc[v] /\ msg'[v] = msg[v]
      BY <1>a, <1>13 DEF SelectStale, Goto, Working, TypeOK
    <2> QED BY <1>12, <1>13, <2>1 DEF SelectStale, mqVars, dbVars
  <1>14. ASSUME NEW w \in Workers, NEW row \in rows[w], ReclaimRow(w, row)
         PROVE  OpenIsCarried' /\ WorkIsLinked' /\ NoAckUnderWork'
    <2>1. /\ pc[w] \notin Working /\ pc'[w] \notin Working
          /\ \A v \in Workers \ {w} : pc'[v] = pc[v] /\ msg'[v] = msg[v]
      BY <1>a, <1>14 DEF ReclaimRow, Goto, Working, TypeOK
    <2>2. \A u \in Tasks : status'[u] \in Open => status[u] \in Open
      <3>1. CASE row.status = "JUDGING"
        <4>1. status' = [status EXCEPT ![row.id] = "PENDING"] /\ status[row.id] \in Open
          BY <1>14, <3>1 DEF ReclaimRow, Open
        <4> QED BY <1>a, <4>1 DEF TypeOK
      <3>2. CASE row.status # "JUDGING"
        BY <1>14, <3>2 DEF ReclaimRow, dbVars
      <3> QED BY <3>1, <3>2
    <2> QED BY <1>12, <1>14, <2>1, <2>2 DEF ReclaimRow, mqVars
  <1>15. ASSUME NEW w \in Workers, NEW row \in rows[w], SkipRow(w, row)
         PROVE  OpenIsCarried' /\ WorkIsLinked' /\ NoAckUnderWork'
    <2>1. pc[w] \notin Working /\ pc' = pc /\ msg' = msg
      BY <1>15 DEF SkipRow, Working
    <2> QED BY <1>12, <1>15, <2>1 DEF SkipRow, mqVars, dbVars
  <1>16. ASSUME NEW w \in Workers, EndReclaim(w)
         PROVE  OpenIsCarried' /\ WorkIsLinked' /\ NoAckUnderWork'
    <2>1. /\ pc[w] \notin Working /\ pc'[w] \notin Working
          /\ \A v \in Workers \ {w} : pc'[v] = pc[v] /\ msg'[v] = msg[v]
      BY <1>a, <1>16 DEF EndReclaim, Goto, Working, TypeOK
    <2> QED BY <1>12, <1>16, <2>1 DEF EndReclaim, mqVars, dbVars
  <1>17. ASSUME NEW w \in Workers, Republish(w)
         PROVE  OpenIsCarried' /\ WorkIsLinked' /\ NoAckUnderWork'
    <2> DEFINE t == msg[w].task
    <2>1. /\ UNCHANGED <<status, request>>
          /\ msg' = [msg EXCEPT ![w] = NoMsg]
          /\ pc[w] = "republishing" /\ pc' = [pc EXCEPT ![w] = "reclaiming"]
          /\ \/ (Send(w, t) \/ QueueLocally(w, t)) /\ orphaned' = orphaned \ {t}
             \/ SendIntoDeadSocket(w, t) /\ orphaned' = orphaned
      BY <1>17 DEF Republish, Goto, dbVars
    <2>2. t \in Tasks
      BY <1>b, <2>1
    <2> HIDE DEF t
    <2>3. Publish(w, t)
      BY <2>1 DEF Publish
    <2>4. /\ pc'[w] = "reclaiming"
          /\ \A v \in Workers \ {w} : pc'[v] = pc[v] /\ msg'[v] = msg[v] /\ link'[v] = link[v]
      BY <1>a, <2>1, <2>3 DEF TypeOK, MQTypeOK, Publish, Send, SendIntoDeadSocket, QueueLocally, mqVars
    <2>5. \A u \in Tasks : \A v \in Workers : Holds(v, u) => Holds(v, u)'
      BY <2>1, <2>4 DEF Holds, Working
    <2>6. OpenIsCarried'
      <3>1. CASE (Send(w, t) \/ QueueLocally(w, t)) /\ orphaned' = orphaned \ {t}
        <4>1. \A u \in Tasks : Queued(u) => Queued(u)'
          BY <1>a, <2>2, <3>1, QueuedPublish
        <4>2. \A u \in Tasks : u = t => Carried(u)'
          BY <1>a, <2>2, <3>1, QueuedPublish DEF Carried
        <4>3. \A u \in Tasks : u # t /\ Carried(u) => Carried(u)'
          BY <2>1, <2>5, <4>1 DEF Carried
        <4> QED BY <1>a, <2>1, <3>1, <4>2, <4>3 DEF OpenIsCarried
      <3>2. CASE SendIntoDeadSocket(w, t) /\ orphaned' = orphaned
        BY <1>a, <1>d, <2>1, <2>5, <3>2 DEF OpenIsCarried, Carried, SendIntoDeadSocket
      <3> QED BY <2>1, <3>1, <3>2
    <2>7. WorkIsLinked' /\ NoAckUnderWork'
      <3>1. "reclaiming" \notin Working
        BY DEF Working
      <3> QED BY <1>a, <2>2, <2>3, <2>4, <3>1, PublishKeeps DEF WorkIsLinked, NoAckUnderWork
    <2> QED BY <2>6, <2>7
  <1>18. ASSUME NEW p \in Procs, Receive(p)
         PROVE  OpenIsCarried' /\ WorkIsLinked' /\ NoAckUnderWork'
    <2>1. BrokerReceive(p) /\ UNCHANGED <<link, status, request, orphaned, pc, msg>>
      BY <1>18 DEF Receive, BrokerReceive, dbVars, threadVars
    <2>2. \A u \in Tasks : Queued(u) => Queued(u)'
      BY <1>a, <2>1, QueuedReceive
    <2>3. OpenIsCarried' /\ WorkIsLinked'
      BY <1>a, <1>e, <2>1, <2>2 DEF OpenIsCarried, Carried, WorkIsLinked
    <2>4. NoAckUnderWork'
      <3> SUFFICES ASSUME NEW w \in Workers, pc[w] \in Working, msg[w].tagged, link[w] = "up"
                   PROVE  /\ In(unacked'[w], msg[w].task)
                          /\ \A i \in 1..Len(wire'[w]) : wire'[w][i].kind # "ack"
        BY <2>1 DEF NoAckUnderWork
      <3>1. /\ In(unacked[w], msg[w].task)
            /\ \A i \in 1..Len(wire[w]) : wire[w][i].kind # "ack"
        BY <1>a DEF NoAckUnderWork
      <3>2. CASE w # p
        BY <1>a, <2>1, <3>1, <3>2 DEF BrokerReceive, MQTypeOK
      <3>3. CASE w = p
        <4>1. /\ wire[w] \in Seq(Frames) /\ wire[w] # <<>>
              /\ Head(wire[w]) = wire[w][1] /\ 1 \in 1..Len(wire[w])
              /\ wire'[w] = Tail(wire[w])
          BY <1>a, <2>1, <3>3 DEF BrokerReceive, MQTypeOK
        <4>2. unacked'[w] = unacked[w]
          BY <2>1, <3>1, <3>3, <4>1 DEF BrokerReceive
        <4>3. /\ Len(wire'[w]) = Len(wire[w]) - 1 /\ Len(wire[w]) \in Nat
              /\ \A i \in 1..Len(wire'[w]) : wire'[w][i] = wire[w][i + 1]
          BY <4>1
        <4>4. \A i \in 1..Len(wire'[w]) : i + 1 \in 1..Len(wire[w])
          BY <4>3
        <4> QED BY <3>1, <4>2, <4>3, <4>4
      <3> QED BY <3>2, <3>3
    <2> QED BY <2>3, <2>4
  <1>19. ASSUME NEW p \in Procs, Break(p)
         PROVE  OpenIsCarried' /\ WorkIsLinked' /\ NoAckUnderWork'
    <2>1. /\ ConnectionBreaks(p) /\ UNCHANGED <<status, request, pc, msg>>
          /\ orphaned' = orphaned \cup Undelivered(p)
      BY <1>19 DEF Break, dbVars, threadVars
    <2>2. /\ link[p] = "up" /\ link'[p] = "broken"
          /\ \A q \in Procs \ {p} : link'[q] = link[q] /\ wire'[q] = wire[q] /\ unacked'[q] = unacked[q]
      BY <1>a, <2>1 DEF ConnectionBreaks, Disconnect, MQTypeOK
    <2>3. \A u \in Tasks : In(unacked[p], u) => Queued(u)'
      BY <1>a, <2>1, QueuedDisconnect
    <2>4. \A u \in Tasks : Queued(u) => Queued(u)' \/ u \in Undelivered(p)
      <3>1. ~ProcessRestarts(p)
        BY <1>a, <2>1, <2>2 DEF ProcessRestarts, MQTypeOK
      <3> QED BY <1>a, <2>1, <2>3, <3>1, QueuedDisconnect DEF Undelivered
    <2>5. \A u \in Tasks : \A w \in Workers : Holds(w, u) => Holds(w, u)' \/ Queued(u)'
      <3>1. SUFFICES ASSUME NEW u \in Tasks, NEW w \in Workers, Holds(w, u), ~Holds(w, u)'
                     PROVE  Queued(u)'
        OBVIOUS
      <3>2. w = p /\ pc[w] = "popped" /\ msg[w].tagged /\ msg[w].task = u
        BY <2>1, <2>2, <3>1 DEF Holds
      <3>3. In(unacked[p], u)
        BY <1>a, <2>2, <3>2 DEF NoAckUnderWork, Working
      <3> QED BY <2>3, <3>3
    <2>6. OpenIsCarried'
      BY <1>a, <2>1, <2>4, <2>5 DEF OpenIsCarried, Carried
    <2>7. WorkIsLinked'
      BY <1>a, <2>1, <2>2 DEF WorkIsLinked
    <2>8. NoAckUnderWork'
      BY <1>a, <2>1, <2>2 DEF NoAckUnderWork
    <2> QED BY <2>6, <2>7, <2>8
  <1>20. ASSUME NEW p \in Procs, Restart(p)
         PROVE  OpenIsCarried' /\ WorkIsLinked' /\ NoAckUnderWork'
    <2>1. /\ ProcessRestarts(p) /\ UNCHANGED status
          /\ orphaned' = orphaned \cup Undelivered(p) \cup InHandOnly(p)
                         \cup {s \in Tasks : In(local[p], s) \/ request[s] = p}
          /\ request' = [s \in Tasks |-> IF request[s] = p THEN NoProc ELSE request[s]]
          /\ \A w \in Workers : /\ w = p => pc'[w] = "idle"
                                /\ w # p => pc'[w] = pc[w] /\ msg'[w] = msg[w]
      BY <1>20 DEF Restart, dbVars
    <2>2. \A q \in Procs \ {p} : link'[q] = link[q] /\ wire'[q] = wire[q] /\ unacked'[q] = unacked[q]
      BY <1>a, <2>1 DEF ProcessRestarts, Disconnect, MQTypeOK
    <2>3. \A u \in Tasks : In(unacked[p], u) => Queued(u)'
      BY <1>a, <2>1, QueuedDisconnect
    <2>4. \A u \in Tasks : Queued(u) => Queued(u)' \/ u \in orphaned'
      BY <1>a, <2>1, <2>3, QueuedDisconnect DEF Undelivered
    <2>5. \A u \in Tasks : \A w \in Workers :
             Holds(w, u) => Holds(w, u)' \/ Queued(u)' \/ u \in orphaned'
      <3>1. SUFFICES ASSUME NEW u \in Tasks, NEW w \in Workers, Holds(w, u), ~Holds(w, u)'
                     PROVE  Queued(u)' \/ u \in orphaned'
        OBVIOUS
      <3>2. w = p /\ pc[w] \in Working /\ msg[w].task = u
        BY <2>1, <2>2, <3>1 DEF Holds
      <3>3. CASE msg[w].tagged /\ link[w] = "up"
        BY <1>a, <2>3, <3>2, <3>3 DEF NoAckUnderWork
      <3>4. CASE ~(msg[w].tagged /\ link[w] = "up")
        BY <2>1, <3>2, <3>4 DEF InHandOnly
      <3> QED BY <3>3, <3>4
    <2>6. \A u \in Tasks : request[u] # NoProc => request'[u] # NoProc \/ u \in orphaned'
      BY <2>1
    <2>7. OpenIsCarried'
      BY <1>a, <2>1, <2>4, <2>5, <2>6 DEF OpenIsCarried, Carried
    <2>8. "idle" \notin Working
      BY DEF Working
    <2>9. WorkIsLinked'
      BY <1>a, <2>1, <2>2, <2>8 DEF WorkIsLinked
    <2>10. NoAckUnderWork'
      BY <1>a, <2>1, <2>2, <2>8 DEF NoAckUnderWork
    <2> QED BY <2>7, <2>9, <2>10
  <1>21. CASE UNCHANGED vars
    <2>1. UNCHANGED <<mqVars, link, wire, unacked, pc, msg, status, request, orphaned>>
      BY <1>21 DEF vars, mqVars, dbVars, threadVars
    <2> QED BY <1>a, <1>d, <1>e, <2>1 DEF OpenIsCarried, Carried, WorkIsLinked, NoAckUnderWork
  <1> QED BY <1>1, <1>2, <1>3, <1>4, <1>5, <1>6, <1>7, <1>8, <1>9, <1>10, <1>11, <1>13,
             <1>14, <1>15, <1>16, <1>17, <1>18, <1>19, <1>20, <1>21 DEF Next, Thread

(* A PENDING or JUDGING submission that no fault has orphaned has a message under
   way or a worker on it, for any number of processes, workers and submissions:
   the fallback in publish_judge_task, the broker's redelivery, a deferred task
   and the reclaim never drop one. *)
THEOREM SubmissionsAreNotForgotten == Spec => []NothingForgotten
  <1>1. Spec => []CarryInv
    BY CarryInit, CarryStep, PTL DEF Spec
  <1>2. CarryInv => NothingForgotten
    BY DEF CarryInv, OpenIsCarried, NothingForgotten, Carried, UnderWay, Queued, Holds
  <1> QED BY <1>1, <1>2, PTL

(* A task in the hands of a judge thread is unacknowledged as long as its
   connection stands: the ack_judge_task calls come after the work. *)
THEOREM WorkStaysUnacked == Spec => []WorkIsUnacked
  <1>1. Spec => []CarryInv
    BY CarryInit, CarryStep, PTL DEF Spec
  <1>2. CarryInv => WorkIsUnacked
    BY DEF CarryInv, NoAckUnderWork, WorkIsUnacked
  <1> QED BY <1>1, <1>2, PTL

-----------------------------------------------------------------------------
(* What the pipeline promises about the status column: a reclaim never reopens a
   verdict, in any deployment; with one judge thread verdicts are final.  With
   two threads the last is false (run two_nodes_finality): both read an open
   row, and their UPDATEs carry no guard.  One thread moves the rows as
   SubmissionLifecycle allows, for any number of submissions and processes and
   any faults.  Beside what the finality of verdicts needs this takes two facts:
   a row stays JUDGING while its sandbox runs, and no task is about a row that
   was never inserted. *)

(* The optimistic UPDATE of reclaim_stale_judging is what keeps a verdict that
   was written between its SELECT and its UPDATE. *)
THEOREM ReclaimNeverReopens == Spec => ReclaimKeepsVerdicts
  <1> DEFINE Keeps == \A s \in Tasks : status[s] \in Terminal => status'[s] # "PENDING"
  <1>1. TypeInv /\ [Next]_vars => [Keeps]_vars
    <2> SUFFICES ASSUME TypeInv, Next PROVE Keeps
      OBVIOUS
    <2> USE ProcsAssumption, OutcomesAssumption
    <2>a. status \in [Tasks -> Statuses] /\ "PENDING" \notin Terminal /\ "NONE" \notin Terminal
          /\ "JUDGING" \notin Terminal
      BY DEF TypeInv, TypeOK, Terminal
    <2>1. ASSUME UNCHANGED status PROVE Keeps
      BY <2>a, <2>1
    <2>2. ASSUME NEW p \in Api, NEW s \in Tasks, Insert(p, s) PROVE Keeps
      BY <2>a, <2>2 DEF Insert
    <2>3. ASSUME NEW w \in Workers, MarkJudging(w) PROVE Keeps
      BY <2>a, <2>3 DEF MarkJudging
    <2>4. ASSUME NEW w \in Workers, WriteVerdict(w) PROVE Keeps
      BY <2>a, <2>4 DEF WriteVerdict
    <2>5. ASSUME NEW w \in Workers, NEW row \in rows[w], ReclaimRow(w, row) PROVE Keeps
      <3>1. CASE row.status = "JUDGING"
        <4>1. status[row.id] = "JUDGING" /\ status' = [status EXCEPT ![row.id] = "PENDING"]
          BY <2>5, <3>1 DEF ReclaimRow
        <4> QED BY <2>a, <4>1
      <3>2. CASE row.status # "JUDGING"
        BY <2>1, <2>5, <3>2 DEF ReclaimRow, dbVars
      <3> QED BY <3>1, <3>2
    <2>6. ASSUME NEW p \in Api, NEW s \in Tasks, SubmitPublish(p, s) PROVE Keeps
      BY <2>1, <2>6 DEF SubmitPublish, dbVars
    <2>7. ASSUME NEW s \in Tasks, Age(s) \/ ChangeProblem(s) PROVE Keeps
      BY <2>1, <2>7 DEF Age, ChangeProblem
    <2>8. ASSUME NEW w \in Workers,
                 \/ Take(w) \/ Poll(w) \/ Defer(w) \/ ReadRow(w) \/ GiveUp(w) \/ Finish(w)
                 \/ SelectStale(w) \/ Republish(w) \/ EndReclaim(w)
                 \/ \E row \in rows[w] : SkipRow(w, row)
          PROVE  Keeps
      BY <2>1, <2>8 DEF Take, Poll, Defer, ReadRow, GiveUp, Finish, SelectStale, Republish,
                        EndReclaim, SkipRow, dbVars
    <2>9. ASSUME NEW p \in Procs, Receive(p) \/ Break(p) \/ Restart(p) PROVE Keeps
      BY <2>1, <2>9 DEF Receive, Break, Restart, dbVars
    <2> HIDE DEF Keeps
    <2> QED BY <2>2, <2>3, <2>4, <2>5, <2>6, <2>7, <2>8, <2>9 DEF Next, Thread
  <1>2. Spec => []TypeInv
    BY TypeInit, TypeStep, PTL DEF Spec
  <1> QED BY <1>1, <1>2, PTL DEF Spec, ReclaimKeepsVerdicts

-----------------------------------------------------------------------------
(* One judge thread in the whole deployment: a single node, or an API with its
   embedded worker and no node. *)
SoleWorker == \A v, w \in Workers : v = w

(* The row the thread has read as open has no verdict yet, up to its own. *)
SoleInv ==
    \A w \in Workers : pc[w] \in {"read", "judging"} => status[msg[w].task] \notin Terminal

(* A step never leaves a verdict, and keeps SoleInv: whoever else moves a row
   (an INSERT, a reclaim) moves it to an open status. *)
LEMMA SoleStep ==
    ASSUME SoleWorker, TypeInv, SoleInv, Next
    PROVE  /\ SoleInv'
           /\ \A s \in Tasks : status[s] \in Terminal => status'[s] = status[s]
  <1> DEFINE Final == \A s \in Tasks : status[s] \in Terminal => status'[s] = status[s]
  <1> USE ProcsAssumption, OutcomesAssumption
  <1>a. /\ status \in [Tasks -> Statuses] /\ pc \in [Workers -> Places]
        /\ msg \in [Workers -> [task : Tasks \cup {NoTask}, tagged : BOOLEAN]]
        /\ \A w \in Workers : pc[w] \in {"read", "judging"} => msg[w].task \in Tasks
    BY DEF TypeInv, TypeOK, Working
  <1>b. "PENDING" \notin Terminal /\ "JUDGING" \notin Terminal /\ "NONE" \notin Terminal
    BY DEF Terminal
  <1>1. ASSUME UNCHANGED status,
               \A w \in Workers : pc'[w] \in {"read", "judging"} =>
                                    pc[w] = pc'[w] /\ msg'[w] = msg[w]
        PROVE  SoleInv' /\ Final
    BY <1>a, <1>1 DEF SoleInv
  <1>2. ASSUME NEW p \in Api, NEW s \in Tasks, Insert(p, s) PROVE SoleInv' /\ Final
    <2>1. status[s] = "NONE" /\ status' = [status EXCEPT ![s] = "PENDING"] /\ pc' = pc /\ msg' = msg
      BY <1>2 DEF Insert, threadVars
    <2> QED BY <1>a, <1>b, <2>1 DEF SoleInv
  <1>3. ASSUME NEW w \in Workers, MarkJudging(w) PROVE SoleInv' /\ Final
    <2>1. /\ pc[w] = "read" /\ msg' = msg /\ pc' = [pc EXCEPT ![w] = "judging"]
          /\ status' = [status EXCEPT ![msg[w].task] = "JUDGING"]
      BY <1>3 DEF MarkJudging, Goto
    <2>2. msg[w].task \in Tasks /\ status[msg[w].task] \notin Terminal
      BY <1>a, <2>1 DEF SoleInv
    <2>3. Final
      BY <1>a, <2>1, <2>2
    <2>4. SoleInv'
      BY <1>a, <1>b, <2>1, <2>2 DEF SoleInv
    <2> QED BY <2>3, <2>4
  <1>4. ASSUME NEW w \in Workers, WriteVerdict(w) PROVE SoleInv' /\ Final
    <2>1. /\ pc[w] = "judging" /\ msg' = msg /\ pc' = [pc EXCEPT ![w] = "finishing"]
          /\ \E v \in Outcomes : status' = [status EXCEPT ![msg[w].task] = v]
      BY <1>4 DEF WriteVerdict, Goto
    <2>2. msg[w].task \in Tasks /\ status[msg[w].task] \notin Terminal
      BY <1>a, <2>1 DEF SoleInv
    <2>3. Final
      BY <1>a, <2>1, <2>2
    <2>4. SoleInv'
      BY <1>a, <2>1 DEF SoleInv, SoleWorker
    <2> QED BY <2>3, <2>4
  <1>5. ASSUME NEW w \in Workers, ReadRow(w) PROVE SoleInv' /\ Final
    <2>1. /\ status' = status /\ msg' = msg
          /\ pc' = [pc EXCEPT ![w] = IF status[msg[w].task] \in Terminal THEN "finishing" ELSE "read"]
      BY <1>5 DEF ReadRow, Goto, dbVars
    <2> QED BY <1>a, <2>1 DEF SoleInv
  <1>6. ASSUME NEW w \in Workers, NEW row \in rows[w], ReclaimRow(w, row) PROVE SoleInv' /\ Final
    <2>1. pc[w] = "reclaiming" /\ pc' = [pc EXCEPT ![w] = "republishing"]
      BY <1>6 DEF ReclaimRow, Goto
    <2>2. SoleInv'
      BY <1>a, <2>1 DEF SoleInv, SoleWorker
    <2>3. CASE row.status = "JUDGING"
      <3>1. status[row.id] = "JUDGING" /\ status' = [status EXCEPT ![row.id] = "PENDING"]
        BY <1>6, <2>3 DEF ReclaimRow
      <3> QED BY <1>a, <1>b, <2>2, <3>1
    <2>4. CASE row.status # "JUDGING"
      <3>1. status' = status
        BY <1>6, <2>4 DEF ReclaimRow, dbVars
      <3> QED BY <2>2, <3>1
    <2> QED BY <2>3, <2>4
  <1>7. ASSUME NEW w \in Workers,
               \/ Take(w) \/ Finish(w) \/ Republish(w) \/ SelectStale(w)
        PROVE  SoleInv' /\ Final
    <2>1. /\ status' = status
          /\ \E x \in {"popped", "idle", "reclaiming"} : pc' = [pc EXCEPT ![w] = x]
      BY <1>7 DEF Take, Finish, Republish, SelectStale, Goto, dbVars
    <2> QED BY <1>a, <2>1 DEF SoleInv, SoleWorker
  <1>8. ASSUME NEW w \in Workers, Defer(w) \/ GiveUp(w) \/ EndReclaim(w) PROVE SoleInv' /\ Final
    <2>1. /\ status' = status
          /\ \E x \in {"finishing", "idle"} : pc' = [pc EXCEPT ![w] = x]
      BY <1>8 DEF Defer, GiveUp, EndReclaim, Goto, dbVars
    <2> QED BY <1>a, <2>1 DEF SoleInv, SoleWorker
  <1>9. ASSUME NEW w \in Workers, Poll(w) \/ \E row \in rows[w] : SkipRow(w, row)
        PROVE  SoleInv' /\ Final
    <2>1. status' = status /\ pc' = pc /\ msg' = msg
      BY <1>9 DEF Poll, SkipRow, dbVars, threadVars
    <2> QED BY <1>1, <2>1
  <1>10. ASSUME NEW p \in Api, NEW s \in Tasks, SubmitPublish(p, s) PROVE SoleInv' /\ Final
    BY <1>1, <1>10 DEF SubmitPublish, dbVars, threadVars
  <1>11. ASSUME NEW p \in Procs, Receive(p) \/ Break(p) PROVE SoleInv' /\ Final
    BY <1>1, <1>11 DEF Receive, Break, dbVars, threadVars
  <1>12. ASSUME NEW p \in Procs, Restart(p) PROVE SoleInv' /\ Final
    <2>1. /\ status' = status
          /\ pc'  = [w \in Workers |-> IF w = p THEN "idle" ELSE pc[w]]
          /\ msg' = [w \in Workers |-> IF w = p THEN NoMsg ELSE msg[w]]
      BY <1>12 DEF Restart, dbVars
    <2> QED BY <1>1, <2>1
  <1>13. ASSUME NEW s \in Tasks, Age(s) \/ ChangeProblem(s) PROVE SoleInv' /\ Final
    BY <1>1, <1>13 DEF Age, ChangeProblem, threadVars
  <1> HIDE DEF Final
  <1>14. SoleInv' /\ Final
    BY <1>2, <1>3, <1>4, <1>5, <1>6, <1>7, <1>8, <1>9, <1>10, <1>11, <1>12, <1>13 DEF Next, Thread
  <1> QED BY <1>14 DEF Final

(* With one judge thread the idempotency run_judge_task promises holds for any
   number of submissions, redeliveries, reclaims, crashes and restarts: a verdict
   is never changed. *)
THEOREM VerdictsFinalForOneWorker ==
    ASSUME SoleWorker
    PROVE  Spec => VerdictsAreFinal
  <1> DEFINE Final == \A s \in Tasks : status[s] \in Terminal => status'[s] = status[s]
  <1>1. Init => SoleInv
    BY DEF Init, SoleInv
  <1>2. TypeInv /\ SoleInv /\ [Next]_vars => SoleInv' /\ [Final]_vars
    <2>1. CASE Next
      BY <2>1, SoleStep
    <2>2. CASE UNCHANGED vars
      BY <2>2 DEF vars, dbVars, threadVars, SoleInv
    <2> QED BY <2>1, <2>2
  <1>3. Spec => []TypeInv
    BY TypeInit, TypeStep, PTL DEF Spec
  <1> QED BY <1>1, <1>2, <1>3, PTL DEF Spec, VerdictsAreFinal

-----------------------------------------------------------------------------
(* The refinement. *)

(* A message about s exists, ready, queued, on a wire or delivered. *)
Message(s) == Queued(s) \/ \E p \in Procs : In(unacked[p], s)

(* Something in the system refers to s. *)
Known(s) ==
    \/ request[s] # NoProc
    \/ Message(s)
    \/ \E w \in Workers : msg[w].task = s \/ \E row \in rows[w] : row.id = s

KnownRowsExist == \A s \in Tasks : Known(s) => status[s] # "NONE"

JudgedRowsStay == \A w \in Workers : pc[w] = "judging" => status[msg[w].task] = "JUDGING"

PathInv == SoleInv /\ KnownRowsExist /\ JudgedRowsStay

-----------------------------------------------------------------------------
(* Publishing adds a message about the published task, no other. *)
LEMMA PublishAdds ==
    ASSUME MQTypeOK, NEW p \in Procs, NEW t \in Tasks, Publish(p, t),
           NEW s \in Tasks, Message(s)'
    PROVE  Message(s) \/ s = t
  <1> USE DEF MQTypeOK
  <1>0. /\ PublishFrame(t) \in Frames
        /\ PublishFrame(s) = PublishFrame(t) => s = t
        /\ \A q \in Procs : wire[q] \in Seq(Frames) /\ local[q] \in Seq(Tasks)
    BY DEF PublishFrame, Frames
  <1>1. CASE Send(p, t)
    <2>1. /\ wire' = [wire EXCEPT ![p] = Append(wire[p], PublishFrame(t))]
          /\ UNCHANGED <<local, broker, unacked>>
      BY <1>1 DEF Send
    <2>2. In(Append(wire[p], PublishFrame(t)), PublishFrame(s)) => In(wire[p], PublishFrame(s)) \/ s = t
      BY <1>0, InAppend
    <2>3. \A q \in Procs : In(wire'[q], PublishFrame(s)) => In(wire[q], PublishFrame(s)) \/ s = t
      BY <2>1, <2>2
    <2> QED BY <2>1, <2>3 DEF Message, Queued
  <1>2. CASE QueueLocally(p, t)
    <2>1. /\ local' = [local EXCEPT ![p] = Append(local[p], t)]
          /\ UNCHANGED <<wire, broker, unacked>>
      BY <1>2 DEF QueueLocally
    <2>2. In(Append(local[p], t), s) => In(local[p], s) \/ s = t
      BY <1>0, InAppend
    <2>3. \A q \in Procs : In(local'[q], s) => In(local[q], s) \/ s = t
      BY <2>1, <2>2
    <2> QED BY <2>1, <2>3 DEF Message, Queued
  <1>3. CASE SendIntoDeadSocket(p, t)
    BY <1>3 DEF SendIntoDeadSocket, mqVars, Message, Queued
  <1> QED BY <1>1, <1>2, <1>3 DEF Publish

(* A pop hands out a task some message is about, and adds none. *)
LEMMA PopAdds ==
    ASSUME MQTypeOK, NEW p \in Procs, NEW t \in Tasks, NEW tagged \in BOOLEAN, Pop(p, t, tagged)
    PROVE  Message(t) /\ \A s \in Tasks : Message(s)' => Message(s)
  <1> USE DEF MQTypeOK
  <1> DEFINE M == Tasks \cup {Poison}
  <1>1. CASE tagged
    <2>1. /\ broker # <<>> /\ t = Head(broker) /\ broker' = Tail(broker)
          /\ unacked' = [unacked EXCEPT ![p] = Append(unacked[p], t)] /\ UNCHANGED <<wire, local>>
      BY <1>1 DEF Pop
    <2>2. broker \in Seq(M) /\ unacked[p] \in Seq(M) /\ t \in M
      OBVIOUS
    <2> HIDE DEF M
    <2>3. \A s : In(broker, s) <=> s = t \/ In(broker', s)
      BY <2>1, <2>2, InTail
    <2>4. \A s : In(Append(unacked[p], t), s) => In(unacked[p], s) \/ s = t
      BY <2>2, InAppend
    <2>5. \A s, q : q \in Procs /\ In(unacked'[q], s) => In(unacked[q], s) \/ s = t
      BY <2>1, <2>4
    <2>6. Message(t)
      BY <2>3 DEF Message, Queued
    <2>7. ASSUME NEW s \in Tasks, Message(s)' PROVE Message(s)
      BY <2>1, <2>3, <2>5, <2>6, <2>7 DEF Message, Queued
    <2> QED BY <2>6, <2>7
  <1>2. CASE ~tagged
    <2>1. /\ local[p] # <<>> /\ t = Head(local[p]) /\ local[p] \in Seq(Tasks)
          /\ local' = [local EXCEPT ![p] = Tail(local[p])] /\ UNCHANGED <<wire, broker, unacked>>
      BY <1>2 DEF Pop
    <2>2. \A s : In(local[p], s) <=> s = t \/ In(Tail(local[p]), s)
      BY <2>1, InTail
    <2>3. \A s, q : q \in Procs /\ In(local'[q], s) => In(local[q], s)
      BY <2>1, <2>2
    <2> QED BY <2>1, <2>2, <2>3 DEF Message, Queued
  <1> QED BY <1>1, <1>2

(* Acknowledging, an empty poll, the broker and a lost connection add none. *)
LEMMA OthersAddNone ==
    ASSUME MQTypeOK, NEW p \in Procs, NEW t, NEW tagged \in BOOLEAN,
           \/ t \in Tasks /\ Ack(p, t, tagged)
           \/ PopNothing(p) \/ BrokerReceive(p) \/ ConnectionBreaks(p) \/ ProcessRestarts(p),
           NEW s \in Tasks, Message(s)'
    PROVE  Message(s)
  <1> USE DEF MQTypeOK
  <1> DEFINE M == Tasks \cup {Poison}
  <1>0. /\ broker \in Seq(M)
        /\ \A q \in Procs : wire[q] \in Seq(Frames) /\ local[q] \in Seq(Tasks) /\ unacked[q] \in Seq(M)
    OBVIOUS
  <1> HIDE DEF M
  <1>1. CASE t \in Tasks /\ Ack(p, t, tagged)
    <2>1. /\ wire' = wire \/ wire' = [wire EXCEPT ![p] = Append(wire[p], AckFrame(t))]
          /\ UNCHANGED <<local, broker, unacked>>
      BY <1>1 DEF Ack
    <2>2. AckFrame(t) \in Frames /\ AckFrame(t) # PublishFrame(s)
      BY <1>1 DEF AckFrame, PublishFrame, Frames
    <2>3. In(Append(wire[p], AckFrame(t)), PublishFrame(s)) => In(wire[p], PublishFrame(s))
      BY <1>0, <2>2, InAppend
    <2>4. \A q \in Procs : In(wire'[q], PublishFrame(s)) => In(wire[q], PublishFrame(s))
      BY <2>1, <2>3
    <2> QED BY <2>1, <2>4 DEF Message, Queued
  <1>2. CASE PopNothing(p)
    BY <1>2 DEF PopNothing, Message, Queued
  <1>3. CASE BrokerReceive(p)
    <2> DEFINE f == Head(wire[p])
    <2>1. /\ wire[p] # <<>> /\ local' = local
          /\ wire' = [wire EXCEPT ![p] = Tail(wire[p])]
          /\ \/ /\ f.kind = "publish"
                /\ broker' = Append(broker, f.task) /\ unacked' = unacked
             \/ /\ broker' = broker
                /\ unacked' = [unacked EXCEPT ![p] = Acknowledged(unacked[p], f.task)]
      BY <1>3 DEF BrokerReceive
    <2>2. f \in Frames /\ \A x : In(wire[p], x) <=> x = f \/ In(Tail(wire[p]), x)
      BY <1>0, <2>1, InTail
    <2>3. f.task \in M
      BY <2>2 DEF Frames, M
    <2>4. f.kind = "publish" => f = PublishFrame(f.task)
      BY <2>2 DEF Frames, PublishFrame
    <2> HIDE DEF f
    <2>5. \A q \in Procs : In(wire'[q], PublishFrame(s)) => In(wire[q], PublishFrame(s))
      BY <2>1, <2>2
    <2>6. In(Append(broker, f.task), s) => In(broker, s) \/ s = f.task
      BY <1>0, <2>3, InAppend
    <2>7. In(broker', s) => In(broker, s) \/ In(wire[p], PublishFrame(s))
      BY <2>1, <2>2, <2>4, <2>6
    <2>8. In(Acknowledged(unacked[p], f.task), s) => In(unacked[p], s)
      BY <1>0, InAcknowledged
    <2>9. \A q \in Procs : In(unacked'[q], s) => In(unacked[q], s)
      BY <2>1, <2>8
    <2> QED BY <2>1, <2>5, <2>7, <2>9 DEF Message, Queued
  <1>4. CASE ConnectionBreaks(p) \/ ProcessRestarts(p)
    <2>1. /\ wire' = [wire EXCEPT ![p] = <<>>]
          /\ broker' = unacked[p] \o broker
          /\ unacked' = [unacked EXCEPT ![p] = <<>>]
          /\ local' = local \/ local' = [local EXCEPT ![p] = <<>>]
      BY <1>4 DEF ConnectionBreaks, ProcessRestarts, Disconnect
    <2>2. ~In(<<>>, s) /\ ~In(<<>>, PublishFrame(s))
      BY DEF In
    <2>3. In(broker', s) => In(unacked[p], s) \/ In(broker, s)
      BY <1>0, <2>1, InConcat
    <2>4. \A q \in Procs : /\ In(wire'[q], PublishFrame(s)) => In(wire[q], PublishFrame(s))
                           /\ In(local'[q], s) => In(local[q], s)
                           /\ In(unacked'[q], s) => In(unacked[q], s)
      BY <2>1, <2>2
    <2> QED BY <2>3, <2>4 DEF Message, Queued
  <1> QED BY <1>1, <1>2, <1>3, <1>4

-----------------------------------------------------------------------------
(* No step deletes a row, or begins to refer to one that does not exist. *)
LEMMA KnownStep ==
    ASSUME TypeInv, KnownRowsExist, Next
    PROVE  KnownRowsExist'
  <1> USE ProcsAssumption, OutcomesAssumption, NamesAssumption
  <1> DEFINE Stays(s)  == status[s] # "NONE" => status'[s] # "NONE"
             Sound(s)  == Stays(s) /\ (Known(s)' => Known(s) \/ status'[s] # "NONE")
             Same(s)   == \A w \in Workers : msg'[w].task = s => msg[w].task = s
             Fewer(s)  == \A w \in Workers : rows'[w] \subseteq rows[w]
  <1>a. /\ MQTypeOK /\ status \in [Tasks -> Statuses]
        /\ request \in [Tasks -> Procs \cup {NoProc}]
        /\ msg \in [Workers -> [task : Tasks \cup {NoTask}, tagged : BOOLEAN]]
        /\ rows \in [Workers -> SUBSET [id : Tasks, status : Open]]
        /\ \A w \in Workers : pc[w] \in Working \cup {"finishing", "republishing"}
                                => msg[w].task \in Tasks
        /\ \A s \in Tasks : stale[s] => status[s] # "NONE"
    BY DEF TypeInv, TypeOK, StaleIsOpen, Open
  <1>b. "NONE" \notin Outcomes
    BY DEF Terminal
  <1>c. SUFFICES ASSUME NEW x \in Tasks PROVE Sound(x)
    BY DEF KnownRowsExist
  <1>d. ASSUME request' = request, Message(x)' => Message(x), Same(x), Fewer(x)
        PROVE  Known(x)' => Known(x)
    BY <1>d DEF Known
  <1>e. UNCHANGED mqVars => (Message(x)' <=> Message(x))
    BY DEF mqVars, Message, Queued
  <1>1. ASSUME NEW p \in Api, NEW s \in Tasks, Insert(p, s) PROVE Sound(x)
    <2>1. /\ status' = [status EXCEPT ![s] = "PENDING"] /\ request' = [request EXCEPT ![s] = p]
          /\ UNCHANGED <<mqVars, msg, rows>>
      BY <1>1 DEF Insert, threadVars
    <2>2. CASE x = s
      BY <1>a, <2>1, <2>2
    <2>3. CASE x # s
      BY <1>a, <1>e, <2>1, <2>3 DEF Known
    <2> QED BY <2>2, <2>3
  <1>2. ASSUME NEW p \in Api, NEW s \in Tasks, SubmitPublish(p, s) PROVE Sound(x)
    <2>1. /\ Publish(p, s) /\ request[s] = p /\ request' = [request EXCEPT ![s] = NoProc]
          /\ UNCHANGED <<status, msg, rows>>
      BY <1>2 DEF SubmitPublish, Publish, dbVars, threadVars
    <2>2. Message(x)' => Message(x) \/ x = s
      BY <1>a, <2>1, PublishAdds
    <2>3. Known(s)
      BY <2>1 DEF Known
    <2> QED BY <1>a, <2>1, <2>2, <2>3 DEF Known
  <1>3. ASSUME NEW s \in Tasks, Age(s) \/ ChangeProblem(s) PROVE Sound(x)
    BY <1>d, <1>e, <1>3 DEF Age, ChangeProblem, threadVars
  <1>4. ASSUME NEW w \in Workers, Take(w) PROVE Sound(x)
    <2>1. PICK s \in Tasks, tagged \in BOOLEAN :
              Pop(w, s, tagged) /\ msg' = [msg EXCEPT ![w] = [task |-> s, tagged |-> tagged]]
      BY <1>4 DEF Take
    <2>2. UNCHANGED <<status, request, rows>>
      BY <1>4 DEF Take, dbVars
    <2>3. Message(s) /\ (Message(x)' => Message(x))
      BY <1>a, <2>1, PopAdds
    <2>4. \A v \in Workers : msg'[v].task = x => msg[v].task = x \/ x = s
      BY <1>a, <2>1
    <2> QED BY <2>2, <2>3, <2>4 DEF Known
  <1>5. ASSUME NEW w \in Workers, Poll(w) PROVE Sound(x)
    <2>1. PopNothing(w) /\ UNCHANGED <<status, request, msg, rows>>
      BY <1>5 DEF Poll, dbVars, threadVars
    <2>2. Message(x)' => Message(x)
      BY <1>a, <2>1, OthersAddNone
    <2> QED BY <1>d, <2>1, <2>2
  <1>6. ASSUME NEW w \in Workers, Defer(w) \/ Republish(w) PROVE Sound(x)
    <2>1. /\ Publish(w, msg[w].task) /\ msg[w].task \in Tasks
          /\ UNCHANGED <<status, request, rows>>
          /\ msg' = msg \/ msg' = [msg EXCEPT ![w] = NoMsg]
      BY <1>a, <1>6 DEF Defer, Republish, Publish, Working, dbVars
    <2>2. Message(x)' => Message(x) \/ x = msg[w].task
      BY <1>a, <2>1, PublishAdds
    <2>3. Known(msg[w].task)
      BY DEF Known
    <2>4. Same(x)
      BY <1>a, <2>1 DEF NoMsg
    <2> QED BY <1>d, <2>1, <2>2, <2>3, <2>4
  <1>7. ASSUME NEW w \in Workers, ReadRow(w) \/ GiveUp(w) \/ EndReclaim(w) PROVE Sound(x)
    BY <1>d, <1>e, <1>7 DEF ReadRow, GiveUp, EndReclaim, dbVars
  <1>8. ASSUME NEW w \in Workers, MarkJudging(w) \/ WriteVerdict(w) PROVE Sound(x)
    <2>1. /\ \E v \in Outcomes \cup {"JUDGING"} : status' = [status EXCEPT ![msg[w].task] = v]
          /\ UNCHANGED <<mqVars, request, msg, rows>>
      BY <1>8 DEF MarkJudging, WriteVerdict
    <2>2. Stays(x)
      BY <1>a, <1>b, <2>1
    <2> QED BY <1>d, <1>e, <2>1, <2>2
  <1>9. ASSUME NEW w \in Workers, Finish(w) PROVE Sound(x)
    <2>1. /\ Ack(w, msg[w].task, msg[w].tagged) /\ msg[w].task \in Tasks /\ msg[w].tagged \in BOOLEAN
          /\ msg' = [msg EXCEPT ![w] = NoMsg] /\ UNCHANGED <<status, request, rows>>
      BY <1>a, <1>9 DEF Finish, dbVars
    <2>2. Message(x)' => Message(x)
      BY <1>a, <2>1, OthersAddNone
    <2>3. Same(x)
      BY <1>a, <2>1 DEF NoMsg
    <2> QED BY <1>d, <2>1, <2>2, <2>3
  <1>10. ASSUME NEW w \in Workers, SelectStale(w) PROVE Sound(x)
    <2>1. /\ rows' = [rows EXCEPT ![w] = {[id |-> s, status |-> status[s]] : s \in {s \in Tasks : stale[s]}}]
          /\ UNCHANGED <<mqVars, status, request, msg>>
      BY <1>10 DEF SelectStale, dbVars
    <2>2. \A row \in rows'[w] : row.id = x => status[x] # "NONE"
      BY <1>a, <2>1
    <2>3. \A v \in Workers : v # w => rows'[v] = rows[v]
      BY <2>1
    <2> QED BY <1>e, <2>1, <2>2, <2>3 DEF Known
  <1>11. ASSUME NEW w \in Workers, NEW row \in rows[w], ReclaimRow(w, row) PROVE Sound(x)
    <2>1. /\ rows' = [rows EXCEPT ![w] = rows[w] \ {row}]
          /\ msg' = [msg EXCEPT ![w] = [task |-> row.id, tagged |-> FALSE]]
          /\ status' = status \/ status' = [status EXCEPT ![row.id] = "PENDING"]
          /\ UNCHANGED <<mqVars, request>>
      BY <1>11 DEF ReclaimRow, dbVars
    <2>2. \A v \in Workers : msg'[v].task = x => msg[v].task = x \/ x = row.id
      BY <1>a, <2>1
    <2>3. Fewer(x) /\ Stays(x)
      BY <1>a, <2>1
    <2> QED BY <1>e, <2>1, <2>2, <2>3 DEF Known
  <1>12. ASSUME NEW w \in Workers, NEW row \in rows[w], SkipRow(w, row) PROVE Sound(x)
    <2>1. /\ rows' = [rows EXCEPT ![w] = rows[w] \ {row}]
          /\ UNCHANGED <<mqVars, status, request, msg>>
      BY <1>12 DEF SkipRow, dbVars
    <2>2. Fewer(x)
      BY <1>a, <2>1
    <2> QED BY <1>d, <1>e, <2>1, <2>2
  <1>13. ASSUME NEW p \in Procs, Receive(p) \/ Break(p) PROVE Sound(x)
    <2>1. /\ BrokerReceive(p) \/ ConnectionBreaks(p)
          /\ UNCHANGED <<status, request, msg, rows>>
      BY <1>13 DEF Receive, Break, dbVars, threadVars
    <2>2. Message(x)' => Message(x)
      BY <1>a, <2>1, OthersAddNone
    <2> QED BY <1>d, <2>1, <2>2
  <1>14. ASSUME NEW p \in Procs, Restart(p) PROVE Sound(x)
    <2>1. /\ ProcessRestarts(p) /\ status' = status
          /\ request' = [s \in Tasks |-> IF request[s] = p THEN NoProc ELSE request[s]]
          /\ msg'  = [w \in Workers |-> IF w = p THEN NoMsg ELSE msg[w]]
          /\ rows' = [w \in Workers |-> IF w = p THEN {} ELSE rows[w]]
      BY <1>14 DEF Restart, dbVars
    <2>2. Message(x)' => Message(x)
      BY <1>a, <2>1, OthersAddNone
    <2>3. Same(x) /\ Fewer(x)
      BY <1>a, <2>1 DEF NoMsg
    <2> QED BY <2>1, <2>2, <2>3 DEF Known
  <1> HIDE DEF Sound
  <1> QED BY <1>1, <1>2, <1>3, <1>4, <1>5, <1>6, <1>7, <1>8, <1>9, <1>10, <1>11, <1>12, <1>13,
             <1>14 DEF Next, Thread

-----------------------------------------------------------------------------
(* A row stays JUDGING while the one judge thread judges it: only a reclaim
   could put it back, and that is the same thread's. *)
LEMMA JudgedStep ==
    ASSUME SoleWorker, TypeInv, JudgedRowsStay, Next
    PROVE  JudgedRowsStay'
  <1> USE ProcsAssumption, OutcomesAssumption
  <1>a. /\ status \in [Tasks -> Statuses] /\ pc \in [Workers -> Places]
        /\ msg \in [Workers -> [task : Tasks \cup {NoTask}, tagged : BOOLEAN]]
        /\ \A w \in Workers : pc[w] \in {"read", "judging"} => msg[w].task \in Tasks
    BY DEF TypeInv, TypeOK, Working
  <1>1. ASSUME \A s \in Tasks : status[s] # "NONE" => status'[s] = status[s],
               \A w \in Workers : pc'[w] = "judging" => pc[w] = "judging" /\ msg'[w] = msg[w]
        PROVE  JudgedRowsStay'
    BY <1>a, <1>1 DEF JudgedRowsStay
  <1>2. ASSUME NEW w \in Workers, pc'[w] # "judging" PROVE JudgedRowsStay'
    BY <1>2 DEF JudgedRowsStay, SoleWorker
  <1>3. ASSUME NEW p \in Api, NEW s \in Tasks, Insert(p, s) \/ SubmitPublish(p, s)
        PROVE  JudgedRowsStay'
    BY <1>a, <1>1, <1>3 DEF Insert, SubmitPublish, dbVars, threadVars
  <1>4. ASSUME NEW s \in Tasks, Age(s) \/ ChangeProblem(s) PROVE JudgedRowsStay'
    BY <1>1, <1>4 DEF Age, ChangeProblem, threadVars
  <1>5. ASSUME NEW w \in Workers, MarkJudging(w) PROVE JudgedRowsStay'
    <2>1. /\ pc[w] = "read" /\ msg' = msg
          /\ status' = [status EXCEPT ![msg[w].task] = "JUDGING"]
      BY <1>5 DEF MarkJudging
    <2> QED BY <1>a, <2>1 DEF JudgedRowsStay, SoleWorker
  <1>6. ASSUME NEW w \in Workers,
               \/ Take(w) \/ Defer(w) \/ ReadRow(w) \/ WriteVerdict(w) \/ GiveUp(w) \/ Finish(w)
               \/ SelectStale(w) \/ Republish(w) \/ EndReclaim(w)
               \/ \E row \in rows[w] : ReclaimRow(w, row)
        PROVE  JudgedRowsStay'
    <2>1. \E place \in Places \ {"judging"} : pc' = [pc EXCEPT ![w] = place]
      BY <1>6 DEF Take, Defer, ReadRow, WriteVerdict, GiveUp, Finish, SelectStale, Republish,
                  EndReclaim, ReclaimRow, Goto, Places
    <2> QED BY <1>a, <1>2, <2>1
  <1>7. ASSUME NEW w \in Workers, Poll(w) \/ \E row \in rows[w] : SkipRow(w, row)
        PROVE  JudgedRowsStay'
    BY <1>1, <1>7 DEF Poll, SkipRow, dbVars, threadVars
  <1>8. ASSUME NEW p \in Procs, Receive(p) \/ Break(p) PROVE JudgedRowsStay'
    BY <1>1, <1>8 DEF Receive, Break, dbVars, threadVars
  <1>9. ASSUME NEW p \in Procs, Restart(p) PROVE JudgedRowsStay'
    <2>1. /\ status' = status
          /\ pc'  = [w \in Workers |-> IF w = p THEN "idle" ELSE pc[w]]
          /\ msg' = [w \in Workers |-> IF w = p THEN NoMsg ELSE msg[w]]
      BY <1>9 DEF Restart, dbVars
    <2> QED BY <1>1, <2>1
  <1> QED BY <1>3, <1>4, <1>5, <1>6, <1>7, <1>8, <1>9 DEF Next, Thread

(* Every step of the pipeline is one of the lifecycle, or leaves the rows alone. *)
LEMMA StepRefines ==
    ASSUME TypeInv, PathInv, [Next]_vars
    PROVE  [Lifecycle!Next]_status
  <1> USE ProcsAssumption
  <1>a. /\ status \in [Tasks -> Statuses]
        /\ \A w \in Workers : pc[w] \in {"read", "judging"} => msg[w].task \in Tasks
    BY DEF TypeInv, TypeOK, Working
  <1>1. ASSUME NEW p \in Api, NEW s \in Tasks, Insert(p, s) PROVE Lifecycle!Create(s)
    BY <1>1 DEF Insert, Lifecycle!Create
  <1>2. ASSUME NEW w \in Workers, MarkJudging(w)
        PROVE  status' = status \/ \E s \in Tasks : Lifecycle!Judge(s)
    <2> DEFINE s == msg[w].task
    <2>1. pc[w] = "read" /\ status' = [status EXCEPT ![s] = "JUDGING"] /\ s \in Tasks
      BY <1>a, <1>2 DEF MarkJudging
    <2>2. status[s] \in Open
      <3>1. status[s] \notin Terminal
        BY <2>1 DEF PathInv, SoleInv
      <3>2. Known(s)
        BY DEF Known
      <3>3. status[s] # "NONE"
        BY <2>1, <3>2 DEF PathInv, KnownRowsExist
      <3> QED BY <1>a, <2>1, <3>1, <3>3 DEF Statuses
    <2>3. CASE status[s] = "PENDING"
      BY <2>1, <2>3 DEF Lifecycle!Judge
    <2>4. CASE status[s] = "JUDGING"
      BY <1>a, <2>1, <2>4
    <2> QED BY <2>2, <2>3, <2>4 DEF Open
  <1>3. ASSUME NEW w \in Workers, WriteVerdict(w) PROVE \E s \in Tasks : Lifecycle!Decide(s)
    <2> DEFINE s == msg[w].task
    <2>1. /\ pc[w] = "judging" /\ s \in Tasks
          /\ \E v \in Outcomes : status' = [status EXCEPT ![s] = v]
      BY <1>a, <1>3 DEF WriteVerdict
    <2>2. status[s] = "JUDGING"
      BY <2>1 DEF PathInv, JudgedRowsStay
    <2>3. Lifecycle!Decide(s)
      BY <2>1, <2>2 DEF Lifecycle!Decide
    <2> QED BY <2>1, <2>3
  <1>4. ASSUME NEW w \in Workers, NEW row \in rows[w], ReclaimRow(w, row)
        PROVE  status' = status \/ \E s \in Tasks : Lifecycle!Requeue(s)
    <2>1. row.id \in Tasks
      BY DEF TypeInv, TypeOK
    <2> QED BY <1>4, <2>1 DEF ReclaimRow, Lifecycle!Requeue, dbVars
  <1>5. ASSUME NEW w \in Workers,
               \/ Take(w) \/ Poll(w) \/ Defer(w) \/ ReadRow(w) \/ GiveUp(w) \/ Finish(w)
               \/ SelectStale(w) \/ Republish(w) \/ EndReclaim(w)
               \/ \E row \in rows[w] : SkipRow(w, row)
        PROVE  status' = status
    BY <1>5 DEF Take, Poll, Defer, ReadRow, GiveUp, Finish, SelectStale, Republish, EndReclaim,
                SkipRow, dbVars
  <1>6. ASSUME NEW p \in Procs, Receive(p) \/ Break(p) \/ Restart(p) PROVE status' = status
    BY <1>6 DEF Receive, Break, Restart, dbVars
  <1>7. ASSUME NEW s \in Tasks, \E p \in Api : SubmitPublish(p, s)
        PROVE  status' = status
    BY <1>7 DEF SubmitPublish, dbVars
  <1>8. ASSUME NEW s \in Tasks, Age(s) \/ ChangeProblem(s) PROVE status' = status
    BY <1>8 DEF Age, ChangeProblem
  <1>9. CASE UNCHANGED vars
    BY <1>9 DEF vars, dbVars
  <1> QED BY <1>1, <1>2, <1>3, <1>4, <1>5, <1>6, <1>7, <1>8, <1>9
          DEF Next, Thread, Lifecycle!Next

(* The pipeline with one judge thread implements the abstract lifecycle: for any
   submissions, processes and faults, create_submission, run_judge_task and
   reclaim_stale_judging move a row only as SubmissionLifecycle allows. *)
THEOREM PipelineImplementsLifecycle ==
    ASSUME SoleWorker
    PROVE  Spec => ImplementsLifecycle
  <1>1. Init => PathInv
    <2>1. Init => SoleInv /\ JudgedRowsStay
      BY DEF Init, SoleInv, JudgedRowsStay
    <2>2. ASSUME Init, NEW s \in Tasks PROVE ~Known(s)
      BY <2>2, NamesAssumption, ProcsAssumption
         DEF Init, MQInit, Known, Message, Queued, In, NoMsg
    <2> QED BY <2>1, <2>2 DEF PathInv, KnownRowsExist
  <1>2. TypeInv /\ PathInv /\ [Next]_vars => PathInv'
    <2>1. CASE Next
      BY <2>1, SoleStep, KnownStep, JudgedStep DEF PathInv
    <2>2. ASSUME UNCHANGED vars, PathInv PROVE PathInv'
      BY <2>2 DEF vars, mqVars, dbVars, threadVars, PathInv, SoleInv, KnownRowsExist,
                  JudgedRowsStay, Known, Message, Queued
    <2> QED BY <2>1, <2>2
  <1>3. Init => Lifecycle!Init
    BY DEF Init, Lifecycle!Init
  <1>4. TypeInv /\ PathInv /\ [Next]_vars => [Lifecycle!Next]_status
    BY StepRefines
  <1>5. Spec => []TypeInv
    BY TypeInit, TypeStep, PTL DEF Spec
  <1> QED BY <1>1, <1>2, <1>3, <1>4, <1>5, PTL DEF Spec, ImplementsLifecycle, Lifecycle!Spec
=============================================================================
