------------------------- MODULE SubmissionLifecycle -------------------------
(***************************************************************************)
(* What a submission's status promises its author: the state machine that  *)
(* src/sql/schema.sql writes beside the column, with the one way back that *)
(* reclaim_stale_judging adds.  A verdict is the end.                      *)
(***************************************************************************)
CONSTANTS Tasks, Outcomes

VARIABLE status

Create(s)  == status[s] = "NONE"    /\ status' = [status EXCEPT ![s] = "PENDING"]
Judge(s)   == status[s] = "PENDING" /\ status' = [status EXCEPT ![s] = "JUDGING"]
Requeue(s) == status[s] = "JUDGING" /\ status' = [status EXCEPT ![s] = "PENDING"]
Decide(s)  == /\ status[s] = "JUDGING"
              /\ \E v \in Outcomes : status' = [status EXCEPT ![s] = v]

Init == status = [s \in Tasks |-> "NONE"]
Next == \E s \in Tasks : Create(s) \/ Judge(s) \/ Requeue(s) \/ Decide(s)
Spec == Init /\ [][Next]_status
=============================================================================
