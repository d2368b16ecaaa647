---------------------------- MODULE JudgePipeline ----------------------------
(***************************************************************************)
(* The life of a submission across processes: create_submission inserts the*)
(* row and publishes a task (nl-submit/src/module.cpp), a judge thread takes*)
(* the task and runs run_judge_task (nl-judge/src/module.cpp), and a judge *)
(* node reclaims rows that stand still (reclaim_stale_judging, called by   *)
(* JudgeNode::run, nl-judge/src/node.cpp).  The tasks travel through the   *)
(* queue of MessageQueue, which this module extends.                       *)
(*                                                                         *)
(* An operator deletes and restores problems and their cases meanwhile; no *)
(* judging of a submission to a problem without them comes to a verdict.   *)
(*                                                                         *)
(* Every SQL statement is one step: the code uses no transaction, so two   *)
(* workers can interleave between any two statements.                      *)
(***************************************************************************)
EXTENDS MessageQueue, FiniteSets

CONSTANTS
    Api,            \* processes that serve POST /api/submissions
    Workers,        \* processes with a judge thread (embedded, or a judge node)
    Nodes,          \* the judge nodes among them: these also reclaim
    Outcomes,       \* the verdicts the sandbox and the comparison can lead to
    NoTask, NoProc,
    MaxBreaks,      \* bound: broken connections
    MaxRestarts,    \* bound: crashed and restarted processes
    MaxFaults,      \* bound: judgings that fail for no fault of the problem, and failed reclaim UPDATEs
    MaxDefers,      \* bound: tasks a node puts back for a less loaded one
    MaxCopies       \* bound: a row with that many messages queued is not reclaimed

Terminal == {"AC", "WA", "TLE", "MLE", "RE", "CE", "SYSTEM_ERROR"}
Open     == {"PENDING", "JUDGING"}
Statuses == {"NONE"} \cup Open \cup Terminal    \* "NONE": the row does not exist

ASSUME ProcsAssumption == Api \subseteq Procs /\ Nodes \subseteq Workers /\ Workers \subseteq Procs
ASSUME OutcomesAssumption == Outcomes \subseteq Terminal
ASSUME NamesAssumption == NoTask \notin Tasks /\ NoProc \notin Procs
ASSUME BoundsAssumption ==
    /\ MaxBreaks \in Nat /\ MaxRestarts \in Nat /\ MaxFaults \in Nat
    /\ MaxDefers \in Nat /\ MaxCopies \in Nat

VARIABLES
    status,     \* submission.status
    judgeable,  \* the submissions whose problem exists and has cases
    stale,      \* update_time is more than kStaleJudgingSec ago
    request,    \* the process whose create_submission inserted and not yet published
    pc,         \* where each judge thread is, see Places
    msg,        \* the JudgeTaskMessage the thread has in hand
    rows,       \* the rows reclaim_stale_judging selected and has not handled
    orphaned,   \* history: submissions whose last message a fault may have taken
    breaks, restarts, faults, defers

dbVars     == <<status, stale, judgeable>>
threadVars == <<pc, msg, rows>>
faultVars  == <<breaks, restarts, faults, defers>>
vars       == <<mqVars, dbVars, request, threadVars, orphaned, faultVars>>

(***************************************************************************)
(* "popped": a message in hand.  "read": run_judge_task has read the row   *)
(* and found it open.  "judging": it has set JUDGING, the sandbox runs.    *)
(* "finishing": it has returned (or the task was put back), the ack is     *)
(* next.  "reclaiming": rows selected.  "republishing": about to publish   *)
(* one of them.                                                            *)
(***************************************************************************)
Places  == {"idle", "popped", "read", "judging", "finishing", "reclaiming", "republishing"}
Working == {"popped", "read", "judging"}

NoMsg == [task |-> NoTask, tagged |-> FALSE]

TypeOK ==
    /\ MQTypeOK
    /\ status   \in [Tasks -> Statuses]
    /\ stale    \in [Tasks -> BOOLEAN]
    /\ judgeable \in SUBSET Tasks
    /\ request  \in [Tasks -> Procs \cup {NoProc}]
    /\ pc       \in [Workers -> Places]
    /\ msg      \in [Workers -> [task : Tasks \cup {NoTask}, tagged : BOOLEAN]]
    /\ rows     \in [Workers -> SUBSET [id : Tasks, status : Open]]
    /\ orphaned \in SUBSET Tasks
    /\ breaks \in Nat /\ restarts \in Nat /\ faults \in Nat /\ defers \in Nat
    /\ \A w \in Workers : pc[w] \in Working \cup {"finishing", "republishing"}
                            => msg[w].task \in Tasks

Init ==
    /\ MQInit
    /\ status   = [s \in Tasks |-> "NONE"]
    /\ stale    = [s \in Tasks |-> FALSE]
    /\ judgeable \in SUBSET Tasks
    /\ request  = [s \in Tasks |-> NoProc]
    /\ pc       = [w \in Workers |-> "idle"]
    /\ msg      = [w \in Workers |-> NoMsg]
    /\ rows     = [w \in Workers |-> {}]
    /\ orphaned = {}
    /\ breaks = 0 /\ restarts = 0 /\ faults = 0 /\ defers = 0

In(q, x)  == \E i \in 1..Len(q) : q[i] = x
Goto(w, place) == pc' = [pc EXCEPT ![w] = place]

-----------------------------------------------------------------------------
(* create_submission: INSERT, then publish.  A request refused before the
   INSERT changes nothing. *)

Insert(p, s) ==
    /\ status[s] = "NONE"
    /\ status'  = [status EXCEPT ![s] = "PENDING"]
    /\ request' = [request EXCEPT ![s] = p]
    /\ UNCHANGED <<mqVars, stale, judgeable, threadVars, orphaned, faultVars>>

SubmitPublish(p, s) ==
    /\ request[s] = p
    /\ \/ /\ Send(p, s) \/ QueueLocally(p, s)
          /\ UNCHANGED orphaned
       \/ /\ SendIntoDeadSocket(p, s)
          /\ orphaned' = orphaned \cup {s}
    /\ request' = [request EXCEPT ![s] = NoProc]
    /\ UNCHANGED <<dbVars, threadVars, faultVars>>

(* update_time falls kStaleJudgingSec behind: the row has waited, or its
   sandbox has run, that long. *)
Age(s) ==
    /\ status[s] \in Open /\ ~stale[s]
    /\ stale' = [stale EXCEPT ![s] = TRUE]
    /\ UNCHANGED <<mqVars, status, judgeable, request, threadVars, orphaned, faultVars>>

-----------------------------------------------------------------------------
(* One turn of a judge thread: judge_worker_loop, JudgeNode::run *)

Take(w) ==
    /\ pc[w] = "idle"
    /\ \E s \in Tasks, tagged \in BOOLEAN :
         /\ Pop(w, s, tagged)
         /\ msg' = [msg EXCEPT ![w] = [task |-> s, tagged |-> tagged]]
    /\ Goto(w, "popped")
    /\ UNCHANGED <<dbVars, request, rows, orphaned, faultVars>>

Poll(w) ==
    /\ pc[w] = "idle"
    /\ PopNothing(w)
    /\ UNCHANGED <<dbVars, request, threadVars, orphaned, faultVars>>

BugDeferWithoutPublish(w) ==        \* a bug: ack, and trust the other node to ask
    /\ pc[w] = "popped" /\ w \in Nodes
    /\ link[w] \in {"up", "broken"}
    /\ \E other \in Nodes : other # w
    /\ defers < MaxDefers
    /\ Goto(w, "finishing")
    /\ defers' = defers + 1
    /\ UNCHANGED <<mqVars, dbVars, request, msg, rows, orphaned, breaks, restarts, faults>>

BugNoTerminalCheck(w) ==            \* a bug: a redelivered task is judged again
    /\ pc[w] = "popped"
    /\ Goto(w, "read")
    /\ UNCHANGED <<mqVars, dbVars, request, msg, rows, orphaned, faultVars>>

(* Another online node is less loaded: publish a copy, then ack the original.
   Which node least_loaded_online_node picks is left open here. *)
Defer(w) ==
    /\ pc[w] = "popped" /\ w \in Nodes
    /\ link[w] \in {"up", "broken"}             \* mq_using_rabbit()
    /\ \E other \in Nodes : other # w
    /\ defers < MaxDefers
    /\ Publish(w, msg[w].task)
    /\ Goto(w, "finishing")
    /\ defers' = defers + 1
    /\ UNCHANGED <<dbVars, request, msg, rows, orphaned, breaks, restarts, faults>>

ReadRow(w) ==
    /\ pc[w] = "popped"
    /\ Goto(w, IF status[msg[w].task] \in Terminal THEN "finishing" ELSE "read")
    /\ UNCHANGED <<mqVars, dbVars, request, msg, rows, orphaned, faultVars>>

BugForgetMark(w) ==                 \* a bug: judge without setting JUDGING
    /\ pc[w] = "read" /\ msg[w].task \in judgeable
    /\ Goto(w, "judging")
    /\ UNCHANGED <<mqVars, dbVars, request, msg, rows, orphaned, faultVars>>

(* The problem and its cases are read, then UPDATE ... SET status='JUDGING'
   WHERE id=..., whatever the status is by now.  They are one step: a problem
   may change just before and just after it, so no outcome is left out.  MySQL touches update_time only when a column changes. *)
MarkJudging(w) ==
    LET s == msg[w].task IN
    /\ pc[w] = "read" /\ s \in judgeable
    /\ status' = [status EXCEPT ![s] = "JUDGING"]
    /\ stale'  = [stale EXCEPT ![s] = @ /\ status[s] = "JUDGING"]
    /\ Goto(w, "judging")
    /\ UNCHANGED <<mqVars, judgeable, request, msg, rows, orphaned, faultVars>>

(* write_verdict: again whatever the status is by now. *)
WriteVerdict(w) ==
    LET s == msg[w].task IN
    /\ pc[w] = "judging"
    /\ \E v \in Outcomes : status' = [status EXCEPT ![s] = v]
    /\ stale' = [stale EXCEPT ![s] = FALSE]
    /\ Goto(w, "finishing")
    /\ UNCHANGED <<mqVars, judgeable, request, msg, rows, orphaned, faultVars>>

(* run_judge_task returns 0 with no verdict: each time, when the problem is
   deleted or has no cases; now and then, for want of a connection, on a failed
   statement, or when the runner stopped early.  The callers ignore the result. *)
GiveUp(w) ==
    /\ \/ pc[w] = "read" /\ msg[w].task \notin judgeable /\ faults' = faults
       \/ pc[w] \in Working /\ faults < MaxFaults /\ faults' = faults + 1
    /\ orphaned' = orphaned \cup {msg[w].task}
    /\ Goto(w, "finishing")
    /\ UNCHANGED <<mqVars, dbVars, request, msg, rows, breaks, restarts, defers>>

Finish(w) ==
    /\ pc[w] = "finishing"
    /\ Ack(w, msg[w].task, msg[w].tagged)
    /\ msg' = [msg EXCEPT ![w] = NoMsg]
    /\ Goto(w, "idle")
    /\ UNCHANGED <<dbVars, request, rows, orphaned, faultVars>>

-----------------------------------------------------------------------------
(* reclaim_stale_judging, run by a judge node between two tasks *)

Backlog(w, s) ==    \* the messages of s in the queue w takes its tasks from
    IF link[w] = "local"
    THEN Cardinality({i \in 1..Len(local[w]) : local[w][i] = s})
    ELSE Cardinality({i \in 1..Len(broker) : broker[i] = s}) + Len(wire[w])

BugSelectAnyStatus(w) ==            \* a bug: the WHERE clause is lost
    /\ pc[w] = "idle" /\ w \in Nodes
    /\ \E s \in Tasks : status[s] # "NONE"
    /\ \A s \in Tasks : Backlog(w, s) < MaxCopies
    /\ rows' = [rows EXCEPT ![w] =
                 {[id |-> s, status |-> status[s]] : s \in {s \in Tasks : status[s] # "NONE"}}]
    /\ Goto(w, "reclaiming")
    /\ UNCHANGED <<mqVars, dbVars, request, msg, orphaned, faultVars>>

BugSelectJudgingOnly(w) ==          \* a bug: WHERE status='JUDGING'
    /\ pc[w] = "idle" /\ w \in Nodes
    /\ \E s \in Tasks : stale[s] /\ status[s] = "JUDGING"
    /\ \A s \in Tasks : stale[s] => Backlog(w, s) < MaxCopies
    /\ rows' = [rows EXCEPT ![w] =
                 {[id |-> s, status |-> status[s]] : s \in
                    {s \in Tasks : stale[s] /\ status[s] = "JUDGING"}}]
    /\ Goto(w, "reclaiming")
    /\ UNCHANGED <<mqVars, dbVars, request, msg, orphaned, faultVars>>

SelectStale(w) ==
    /\ pc[w] = "idle" /\ w \in Nodes
    /\ \E s \in Tasks : stale[s]
    /\ \A s \in Tasks : stale[s] => Backlog(w, s) < MaxCopies
    /\ rows' = [rows EXCEPT ![w] = {[id |-> s, status |-> status[s]] : s \in {s \in Tasks : stale[s]}}]
    /\ Goto(w, "reclaiming")
    /\ UNCHANGED <<mqVars, dbVars, request, msg, orphaned, faultVars>>

BugReclaimUnguarded(w, row) ==      \* a bug: UPDATE without AND status='JUDGING'
    LET s == row.id IN
    /\ pc[w] = "reclaiming" /\ row \in rows[w]
    /\ status' = [status EXCEPT ![s] = "PENDING"]
    /\ stale'  = [stale EXCEPT ![s] = FALSE]
    /\ rows' = [rows EXCEPT ![w] = @ \ {row}]
    /\ msg'  = [msg EXCEPT ![w] = [task |-> s, tagged |-> FALSE]]
    /\ Goto(w, "republishing")
    /\ UNCHANGED <<mqVars, judgeable, request, orphaned, faultVars>>

(* The optimistic UPDATE ... WHERE id=... AND status='JUDGING'; a row selected
   as PENDING is published as it is, its update_time untouched. *)
ReclaimRow(w, row) ==
    LET s == row.id IN
    /\ pc[w] = "reclaiming" /\ row \in rows[w]
    /\ row.status = "JUDGING" => status[s] = "JUDGING"
    /\ IF row.status = "JUDGING"
       THEN /\ status' = [status EXCEPT ![s] = "PENDING"]
            /\ stale'  = [stale EXCEPT ![s] = FALSE]
       ELSE UNCHANGED <<status, stale>>
    /\ rows' = [rows EXCEPT ![w] = @ \ {row}]
    /\ msg'  = [msg EXCEPT ![w] = [task |-> s, tagged |-> FALSE]]
    /\ Goto(w, "republishing")
    /\ UNCHANGED <<mqVars, judgeable, request, orphaned, faultVars>>

(* No affected row, because somebody else changed it, or the UPDATE failed: on
   to the next row. *)
SkipRow(w, row) ==
    /\ pc[w] = "reclaiming" /\ row \in rows[w]
    /\ row.status = "JUDGING"
    /\ \/ status[row.id] # "JUDGING" /\ faults' = faults
       \/ faults < MaxFaults /\ faults' = faults + 1
    /\ rows' = [rows EXCEPT ![w] = @ \ {row}]
    /\ UNCHANGED <<mqVars, dbVars, request, pc, msg, orphaned, breaks, restarts, defers>>

Republish(w) ==
    LET s == msg[w].task IN
    /\ pc[w] = "republishing"
    /\ \/ /\ Send(w, s) \/ QueueLocally(w, s)
          /\ orphaned' = orphaned \ {s}
       \/ /\ SendIntoDeadSocket(w, s)
          /\ UNCHANGED orphaned
    /\ msg' = [msg EXCEPT ![w] = NoMsg]
    /\ Goto(w, "reclaiming")
    /\ UNCHANGED <<dbVars, request, rows, faultVars>>

EndReclaim(w) ==
    /\ pc[w] = "reclaiming" /\ rows[w] = {}
    /\ Goto(w, "idle")
    /\ UNCHANGED <<mqVars, dbVars, request, msg, rows, orphaned, faultVars>>

-----------------------------------------------------------------------------
(* The problem of s, the broker, and the faults *)

ChangeProblem(s) ==
    /\ judgeable' \in {judgeable \cup {s}, judgeable \ {s}}
    /\ judgeable' # judgeable
    /\ UNCHANGED <<mqVars, status, stale, request, threadVars, orphaned, faultVars>>

Receive(p) ==
    /\ BrokerReceive(p)
    /\ UNCHANGED <<dbVars, request, threadVars, orphaned, faultVars>>

(* Publish frames that were written and not handled are gone.  A task that was
   put back is not: its original is still unacknowledged. *)
Undelivered(p) ==
    {s \in Tasks : In(wire[p], PublishFrame(s)) /\ ~In(unacked[p], s)}

Break(p) ==
    /\ breaks < MaxBreaks
    /\ ConnectionBreaks(p)
    /\ breaks' = breaks + 1
    /\ orphaned' = orphaned \cup Undelivered(p)
    /\ UNCHANGED <<dbVars, request, threadVars, restarts, faults, defers>>

(* A task in hand is the broker's to redeliver only if it came over the
   connection that still stands. *)
InHandOnly(p) ==
    {msg[w].task : w \in {w \in Workers :
        /\ w = p /\ pc[w] \in Working
        /\ ~(msg[w].tagged /\ link[w] = "up")}}

Restart(p) ==
    /\ restarts < MaxRestarts
    /\ ProcessRestarts(p)
    /\ restarts' = restarts + 1
    /\ orphaned' = orphaned \cup Undelivered(p) \cup InHandOnly(p)
                   \cup {s \in Tasks : In(local[p], s) \/ request[s] = p}
    /\ request' = [s \in Tasks |-> IF request[s] = p THEN NoProc ELSE request[s]]
    /\ pc'   = [w \in Workers |-> IF w = p THEN "idle" ELSE pc[w]]
    /\ msg'  = [w \in Workers |-> IF w = p THEN NoMsg ELSE msg[w]]
    /\ rows' = [w \in Workers |-> IF w = p THEN {} ELSE rows[w]]
    /\ UNCHANGED <<dbVars, breaks, faults, defers>>

-----------------------------------------------------------------------------
Thread(w) ==
    \/ Take(w) \/ Poll(w) \/ Defer(w) \/ ReadRow(w) \/ MarkJudging(w)
    \/ WriteVerdict(w) \/ GiveUp(w) \/ Finish(w)
    \/ SelectStale(w) \/ Republish(w) \/ EndReclaim(w)
    \/ \E row \in rows[w] : ReclaimRow(w, row) \/ SkipRow(w, row)

Next ==
    \/ \E p \in Api, s \in Tasks : Insert(p, s) \/ SubmitPublish(p, s)
    \/ \E s \in Tasks : Age(s) \/ ChangeProblem(s)
    \/ \E w \in Workers : Thread(w)
    \/ \E p \in Procs : Receive(p) \/ Break(p) \/ Restart(p)

Spec == Init /\ [][Next]_vars

(* Time passes, request handlers and judge threads run, the broker handles its
   frames.  Taking and reclaiming are strongly fair: a thread comes back to the
   top of its loop after every task and every reclaim, looks at the clock and
   then asks for a task. *)
Fairness ==
    /\ \A s \in Tasks : WF_vars(Age(s))
    /\ \A p \in Api, s \in Tasks : WF_vars(SubmitPublish(p, s))
    /\ \A p \in Procs : WF_vars(Receive(p))
    /\ \A w \in Workers : /\ WF_vars(Thread(w)) /\ SF_vars(SelectStale(w))
                        /\ SF_vars(Take(w)) /\ SF_vars(Poll(w))

FairSpec == Spec /\ Fairness

-----------------------------------------------------------------------------
(* Properties *)

(* A message of s is in some queue or frame, or a request or a judge thread is
   about to publish it or is working on it. *)
UnderWay(s) ==
    \/ request[s] # NoProc
    \/ In(broker, s)
    \/ \E p \in Procs : In(wire[p], PublishFrame(s)) \/ In(local[p], s)
    \/ \E w \in Workers : pc[w] \in Working /\ msg[w].task = s

(* No open submission is forgotten: unless one of the named faults took its last
   message and no reclaim has replaced it, a PENDING or JUDGING row has a message
   under way or a worker on it.  So a fallback, a redelivery, a task put back for
   another node, a reclaim under a running judge, and an ack after the work never
   drop a submission, in any interleaving. *)
NothingForgotten ==
    \A s \in Tasks : status[s] \in Open /\ s \notin orphaned => UnderWay(s)

(* What a judge thread works on while its connection stands, the broker has not
   forgotten: the ack comes after the work, so a crash redelivers the task. *)
WorkIsUnacked ==
    \A w \in Workers :
       pc[w] \in Working /\ msg[w].tagged /\ link[w] = "up" => In(unacked[w], msg[w].task)

(* Reclaiming never reopens a finished submission, though a judge may write its
   verdict between the reclaim's SELECT and its UPDATE. *)
ReclaimKeepsVerdicts ==
    [][\A s \in Tasks : status[s] \in Terminal => status'[s] # "PENDING"]_vars

(* The state machine of schema.sql ("PENDING -> JUDGING -> AC | WA | ..."), and
   run_judge_task's promise that a redelivered task is idempotent: a terminal
   status is never left. *)
VerdictsAreFinal ==
    [][\A s \in Tasks : status[s] \in Terminal => status'[s] = status[s]]_vars

(* With one judge thread the rows move as the abstract lifecycle says: no step
   of the pipeline shows a status it does not allow. *)
Lifecycle == INSTANCE SubmissionLifecycle WITH
    Tasks <- Tasks, Outcomes <- Outcomes, status <- status
ImplementsLifecycle == Lifecycle!Spec

(* Every accepted submission whose problem is there in the end gets a verdict,
   though connections break, processes restart, judges give up, the problem was
   gone for a while, and API processes fall back to a queue nobody reads. *)
EventuallyJudged ==
    \A s \in Tasks :
       <>[](s \in judgeable) => (status[s] = "PENDING" ~> status[s] \in Terminal)
=============================================================================
