---------------------------- MODULE MessageQueue ----------------------------
(***************************************************************************)
(* The judge-task queue of nl-common/src/mq.cpp.                           *)
(*                                                                         *)
(* Each process that links nl-common keeps one backend choice (g_probed,   *)
(* g_use_rabbit, g_conn), guarded by g_mu, and one in-process queue        *)
(* (g_queue).  All processes share one durable RabbitMQ queue.             *)
(*                                                                         *)
(* The module declares the queue's state and what each exported function   *)
(* does to it; who calls them, and when, is left to the modules that       *)
(* extend this one (MQClients, JudgePipeline).  A call runs under g_mu, so *)
(* it is one step of its process.  The client library only writes frames   *)
(* for basic.publish and basic.ack (no publisher confirms): the broker     *)
(* handles them later, in order, and a connection that breaks loses them.  *)
(***************************************************************************)
EXTENDS Naturals, Sequences

CONSTANTS
    Procs,      \* the processes: nloj_api and the nloj_judge_node processes
    Tasks,      \* what a valid JudgeTaskMessage carries: a submission id
    Poison      \* a message parse_json rejects, put there by something else

ASSUME PoisonAssumption == Poison \notin Tasks

VARIABLES
    link,       \* process -> its backend, see Links
    wire,       \* process -> frames written to the socket, not handled yet
    local,      \* process -> g_queue
    broker,     \* the ready messages of nloj.judge.queue
    unacked     \* process -> messages delivered to it and not acknowledged

mqVars == <<link, wire, local, broker, unacked>>

(***************************************************************************)
(* "unprobed": g_probed = 0.  "up": g_use_rabbit = 1 and the connection is *)
(* alive.  "broken": g_use_rabbit = 1, but the connection is dead and the  *)
(* process has not met the error yet.  "local": g_use_rabbit = 0, which no *)
(* code ever undoes.                                                       *)
(***************************************************************************)
Links == {"unprobed", "up", "broken", "local"}

Frames == [kind : {"publish", "ack"}, task : Tasks \cup {Poison}]
PublishFrame(t) == [kind |-> "publish", task |-> t]
AckFrame(t)     == [kind |-> "ack",     task |-> t]

(* The deliveries q without (the first) one of t. *)
Acknowledged(q, t) ==
    IF \A i \in 1..Len(q) : q[i] # t
    THEN q
    ELSE LET k == CHOOSE i \in 1..Len(q) : /\ q[i] = t
                                         /\ \A j \in 1..(i - 1) : q[j] # t
         IN  [i \in 1..(Len(q) - 1) |-> IF i < k THEN q[i] ELSE q[i + 1]]

MQTypeOK ==
    /\ link    \in [Procs -> Links]
    /\ wire    \in [Procs -> Seq(Frames)]
    /\ local   \in [Procs -> Seq(Tasks)]
    /\ broker  \in Seq(Tasks \cup {Poison})
    /\ unacked \in [Procs -> Seq(Tasks \cup {Poison})]

MQInit ==
    /\ link    = [p \in Procs |-> "unprobed"]
    /\ wire    = [p \in Procs |-> <<>>]
    /\ local   = [p \in Procs |-> <<>>]
    /\ broker  = <<>>
    /\ unacked = [p \in Procs |-> <<>>]

-----------------------------------------------------------------------------
(* Plausible bugs of the functions below: what the properties of the extending
   modules are there to detect. *)

BugFallBackWithoutQueueing(p, t) ==     \* the publish failed: give up, no push
    /\ link[p] \in {"unprobed", "broken", "local"}
    /\ link' = [link EXCEPT ![p] = "local"]
    /\ UNCHANGED <<wire, local, broker, unacked>>

BugPopUnparsed(p, t, tagged) ==         \* the result of parse_json is not looked at
    \/ /\ tagged
       /\ link[p] \in {"unprobed", "up"} /\ wire[p] = <<>>
       /\ broker # <<>> /\ t = Head(broker)
       /\ link'    = [link EXCEPT ![p] = "up"]
       /\ broker'  = Tail(broker)
       /\ unacked' = [unacked EXCEPT ![p] = Append(@, t)]
       /\ UNCHANGED <<wire, local>>
    \/ /\ ~tagged
       /\ link[p] = "local"
       /\ local[p] # <<>> /\ t = Head(local[p])
       /\ local' = [local EXCEPT ![p] = Tail(@)]
       /\ UNCHANGED <<link, wire, broker, unacked>>

BugPeek(p, t, tagged) ==                \* front() without pop()
    \/ /\ tagged
       /\ link[p] \in {"unprobed", "up"} /\ wire[p] = <<>>
       /\ broker # <<>> /\ t = Head(broker) /\ t \in Tasks
       /\ link'    = [link EXCEPT ![p] = "up"]
       /\ broker'  = Tail(broker)
       /\ unacked' = [unacked EXCEPT ![p] = Append(@, t)]
       /\ UNCHANGED <<wire, local>>
    \/ /\ ~tagged
       /\ link[p] = "local"
       /\ local[p] # <<>> /\ t = Head(local[p])
       /\ UNCHANGED mqVars

BugAutoAck(p, t, tagged) ==             \* basic.get with no_ack = 1
    \/ /\ tagged
       /\ link[p] \in {"unprobed", "up"} /\ wire[p] = <<>>
       /\ broker # <<>> /\ t = Head(broker) /\ t \in Tasks
       /\ link'   = [link EXCEPT ![p] = "up"]
       /\ broker' = Tail(broker)
       /\ UNCHANGED <<wire, local, unacked>>
    \/ /\ ~tagged
       /\ link[p] = "local"
       /\ local[p] # <<>> /\ t = Head(local[p])
       /\ local' = [local EXCEPT ![p] = Tail(@)]
       /\ UNCHANGED <<link, wire, broker, unacked>>

BugPoisonNotAcked(p) ==                 \* return before the ack
    /\ link[p] \in {"unprobed", "up"} /\ wire[p] = <<>>
    /\ broker # <<>> /\ Head(broker) = Poison
    /\ link'    = [link EXCEPT ![p] = "up"]
    /\ broker'  = Tail(broker)
    /\ unacked' = [unacked EXCEPT ![p] = Append(@, Poison)]
    /\ UNCHANGED <<wire, local>>

BugNoFallback(p) ==                     \* basic.get failed: return 0, no fallback
    /\ \/ link[p] = "unprobed" /\ link' = [link EXCEPT ![p] = "local"]
       \/ link[p] = "broken"   /\ link' = link
       \/ link[p] = "unprobed" /\ broker = <<>>
          /\ link' = [link EXCEPT ![p] = "up"]
    /\ UNCHANGED <<wire, local, broker, unacked>>

-----------------------------------------------------------------------------
(* publish_judge_task *)

(* basic.publish returned AMQP_STATUS_OK on a live connection: the frame is
   written, the broker has not seen it.  The first call of a process probes
   the broker (ensure_backend) and may find it there. *)
Send(p, t) ==
    /\ link[p] \in {"unprobed", "up"}
    /\ link' = [link EXCEPT ![p] = "up"]
    /\ wire' = [wire EXCEPT ![p] = Append(@, PublishFrame(t))]
    /\ UNCHANGED <<local, broker, unacked>>

(* The connection is dead but the socket still takes the bytes: the call
   returns AMQP_STATUS_OK, and the message is gone. *)
SendIntoDeadSocket(p, t) ==
    /\ link[p] = "broken"
    /\ UNCHANGED mqVars

(* No broker: the probe failed, the publish failed (fallback_inprocess), or
   the process had fallen back before. *)
QueueLocally(p, t) ==
    /\ link[p] \in {"unprobed", "broken", "local"}
    /\ link'  = [link EXCEPT ![p] = "local"]
    /\ local' = [local EXCEPT ![p] = Append(@, t)]
    /\ UNCHANGED <<wire, broker, unacked>>

Publish(p, t) ==
    \/ Send(p, t)
    \/ SendIntoDeadSocket(p, t)
    \/ QueueLocally(p, t)

-----------------------------------------------------------------------------
(* try_pop_judge_task, and wait_pop_judge_task, which repeats it.  basic.get
   is a call: its answer comes after the broker handled the frames the
   process wrote before. *)

Pop(p, t, tagged) ==        \* the call that hands out task t
    \/ /\ tagged
       /\ link[p] \in {"unprobed", "up"} /\ wire[p] = <<>>
       /\ broker # <<>> /\ t = Head(broker) /\ t \in Tasks
       /\ link'    = [link EXCEPT ![p] = "up"]
       /\ broker'  = Tail(broker)
       /\ unacked' = [unacked EXCEPT ![p] = Append(@, t)]
       /\ UNCHANGED <<wire, local>>
    \/ /\ ~tagged
       /\ link[p] = "local"
       /\ local[p] # <<>> /\ t = Head(local[p])
       /\ local' = [local EXCEPT ![p] = Tail(@)]
       /\ UNCHANGED <<link, wire, broker, unacked>>

PopPoison(p) ==             \* a message parse_json rejects is acknowledged
    /\ link[p] \in {"unprobed", "up"} /\ wire[p] = <<>>
    /\ broker # <<>> /\ Head(broker) = Poison
    /\ link'    = [link EXCEPT ![p] = "up"]
    /\ broker'  = Tail(broker)
    /\ unacked' = [unacked EXCEPT ![p] = Append(@, Poison)]
    /\ wire'    = [wire EXCEPT ![p] = Append(@, AckFrame(Poison))]
    /\ UNCHANGED local

PopNothing(p) ==            \* nothing handed out, but the backend changes:
    /\ \/ link[p] \in {"unprobed", "broken"}   \* probe or basic.get failed
          /\ link' = [link EXCEPT ![p] = "local"]
       \/ link[p] = "unprobed" /\ broker = <<>>
          /\ link' = [link EXCEPT ![p] = "up"]
    /\ UNCHANGED <<wire, local, broker, unacked>>

-----------------------------------------------------------------------------
(* ack_judge_task: a no-op for a message of the in-process queue (delivery_tag
   0) and for a process that has fallen back; a write into a dead socket
   changes nothing either. *)
Ack(p, t, tagged) ==
    /\ wire' = IF tagged /\ link[p] = "up"
               THEN [wire EXCEPT ![p] = Append(@, AckFrame(t))]
               ELSE wire
    /\ UNCHANGED <<link, local, broker, unacked>>

-----------------------------------------------------------------------------
(* The broker, and what can happen to a process and its connection. *)

BrokerReceive(p) ==
    /\ wire[p] # <<>>
    /\ LET f == Head(wire[p]) IN
       \/ /\ f.kind = "publish"
          /\ broker' = Append(broker, f.task)
          /\ UNCHANGED unacked
       \/ /\ f.kind = "ack"
          /\ unacked' = [unacked EXCEPT ![p] = Acknowledged(@, f.task)]
          /\ UNCHANGED broker
    /\ wire' = [wire EXCEPT ![p] = Tail(@)]
    /\ UNCHANGED <<link, local>>

(* What both a broken connection and a dead process mean for the broker: the
   unhandled frames are lost, the unacknowledged messages are ready again, at
   the place they were taken from. *)
Disconnect(p) ==
    /\ wire'    = [wire EXCEPT ![p] = <<>>]
    /\ broker'  = unacked[p] \o broker
    /\ unacked' = [unacked EXCEPT ![p] = <<>>]

ConnectionBreaks(p) ==
    /\ link[p] = "up"
    /\ link' = [link EXCEPT ![p] = "broken"]
    /\ Disconnect(p)
    /\ UNCHANGED local

ProcessRestarts(p) ==
    /\ link'  = [link EXCEPT ![p] = "unprobed"]
    /\ local' = [local EXCEPT ![p] = <<>>]
    /\ Disconnect(p)

ForeignPublish ==
    /\ broker' = Append(broker, Poison)
    /\ UNCHANGED <<link, wire, local, unacked>>
=============================================================================
