------------------------------- MODULE Sandbox -------------------------------
(***************************************************************************)
(* One judging of a submission: run_judge_task loads it, JudgeSandbox::judge *)
(* compiles, starts the runner (the C++ text kRunnerSrc), collects what it  *)
(* printed, runs the checker, and run_judge_task turns the cases into a     *)
(* verdict.                                                                *)
(*                                                                         *)
(* Time is one flag, late: the limit of the current case has passed. It may *)
(* be raised between any two steps. A process ends how and when it likes,   *)
(* or never, and may fork others. What the file of a case's output holds    *)
(* when the host reads it is chosen with the job. What a process does that  *)
(* is left running after the run is not followed. The #ifdef _WIN32         *)
(* branches are left out.                                                  *)
(***************************************************************************)
EXTENDS OutputMatch

CONSTANTS
    NumCases,   \* the cases of the problem
    OutputCap,  \* kOutputCapBytes: how much is read of an output
    Answer,     \* the expected output, of every case
    Outputs     \* what a program may print, some of it longer than OutputCap

ASSUME NumCasesAssumption  == NumCases \in Nat \ {0}
ASSUME OutputCapAssumption == OutputCap \in Nat

VARIABLES
    job,        \* the sandbox, the problem's type and mode, what is printed
    stage,      \* how far judge and run_judge_task are
    caseNo,     \* the runner's case
    at,         \* where the runner is in it
    proc,       \* process |-> how it is
    reaped,     \* the processes wait4 has returned
    late,       \* the limit of this case has passed
    stray,      \* a process that one of the processes forked still runs
    text,       \* what the runner printed
    cases,      \* SandboxJudgeResult.cases
    result,     \* the row's new status and the case it is about
    seen,       \* history: how a case's processes were when its line was printed
    checked,    \* history: what a case's checker went by
    gaveUp      \* history: run_judge_task gave up, or its UPDATE failed

vars == <<job, stage, caseNo, at, proc, reaped, late, stray, text, cases, result, seen, checked, gaveUp>>

Cases   == 1..NumCases
Players == {"sol", "alice", "bob"}
Judges  == {"inter", "manager"}

Procs == CASE job.type = "STANDARD"      -> {"sol"}
           [] job.type = "INTERACTIVE"   -> {"sol", "inter"}
           [] job.type = "COMMUNICATION" -> {"alice", "bob", "manager"}

Ends     == {"zero", "nonzero", "signal", "sigkill"}
Verdicts == {"OK", "WA", "TLE", "MLE", "RE", "SE"}
NoResult == [status |-> "none", case |-> 0]
Nobody   == [p \in Players \cup Judges |-> "none"]

(* Only a STANDARD problem's output goes to a file. *)
Init ==
    /\ job \in [box    : {"docker", "local"},
                type   : {"STANDARD", "INTERACTIVE", "COMMUNICATION"},
                mode   : {"EXACT", "SPJ"},
                prints : [Cases -> Outputs \cup {<<>>}]]
    /\ \A k \in Cases : job.prints[k] = <<>> <=> job.type # "STANDARD"
    /\ stage = "load" /\ caseNo = 1 /\ at = "start"
    /\ proc = Nobody /\ reaped = {} /\ late = FALSE /\ stray = FALSE
    /\ text = <<>> /\ cases = <<>> /\ result = NoResult
    /\ seen = [k \in Cases |-> [ends |-> Nobody, late |-> FALSE]]
    /\ checked = [k \in Cases |-> "no"]
    /\ gaveUp = FALSE

children == <<proc, reaped, late, stray>>
runner   == <<caseNo, at, children, text, seen>>
host     == <<cases, result, checked, gaveUp>>

(* run_judge_task writes this status, or its UPDATE fails, and is done. *)
Conclude(status, k) ==
    /\ stage' = "end"
    /\ \/ result' = [status |-> status, case |-> k] /\ UNCHANGED gaveUp
       \/ gaveUp' = TRUE /\ UNCHANGED result

-----------------------------------------------------------------------------
(* run_judge_task up to the sandbox: a query or the UPDATE to JUDGING fails, the
   problem is gone or has no cases, or all is there. *)
Load ==
    /\ stage = "load"
    /\ \/ stage' = "compile" /\ UNCHANGED gaveUp
       \/ stage' = "end" /\ gaveUp' = TRUE
    /\ UNCHANGED <<runner, job, cases, result, checked>>

(* Writing the job's files and compiling: the code's fault, ours, or fine. *)
Compile ==
    /\ stage = "compile"
    /\ \/ \E status \in {"CE", "SYSTEM_ERROR"} : Conclude(status, 0)
       \/ stage' = "run" /\ UNCHANGED <<result, gaveUp>>
    /\ UNCHANGED <<runner, job, cases, checked>>

-----------------------------------------------------------------------------
(* The runner. A case ends with a printed line; all but OK end the runner. *)
Emit(v) ==
    /\ text' = Append(text, [index |-> caseNo, verdict |-> v])
    /\ seen' = [seen EXCEPT ![caseNo] =
                  IF at = "start" THEN [ends |-> Nobody, late |-> FALSE] ELSE [ends |-> proc, late |-> late]]
    /\ caseNo' = IF v = "OK" THEN caseNo + 1 ELSE caseNo
    /\ at' = IF v = "OK" /\ caseNo < NumCases THEN "start" ELSE "exit"
    /\ UNCHANGED <<job, stage, late, stray, host>>

BugKillFirst(S) ==                  \* a bug: only one process is killed
    LET p == CHOOSE q \in Procs : TRUE
    IN  proc' = [proc EXCEPT ![p] = IF proc[p] = "run" THEN "sigkill" ELSE @]

(* SIGKILL goes to these children alone; what they have forked lives on. *)
Kill(S) == proc' = [p \in DOMAIN proc |-> IF p \in S /\ proc[p] = "run" THEN "sigkill" ELSE proc[p]]

Start ==
    /\ stage = "run" /\ at = "start"
    /\ proc' = [p \in DOMAIN proc |-> IF p \in Procs THEN "run" ELSE "none"]
    /\ reaped' = {} /\ late' = FALSE /\ at' = "poll"
    /\ UNCHANGED <<job, stage, caseNo, stray, text, seen, host>>

(* A file, a pipe or a fork fails; the processes that were started are killed. *)
StartFails ==
    /\ stage = "run" /\ at = "start"
    /\ proc' = Nobody /\ reaped' = {}
    /\ Emit("SE")

(* wait4 and the exit status of a lone program: run_std. *)
SolVerdict ==
    CASE proc["sol"] = "zero"    -> "OK"
      [] proc["sol"] = "sigkill" -> "MLE"
      [] OTHER                   -> "RE"

(* wait4 returns the program once it has ended, or fails when it has. *)
PollStd ==
    /\ stage = "run" /\ at = "poll" /\ job.type = "STANDARD"
    /\ \/ /\ \/ late /\ UNCHANGED reaped
             \/ ~late /\ proc["sol"] # "run" /\ reaped' = {"sol"}
          /\ at' = "check"
          /\ UNCHANGED <<job, stage, caseNo, late, stray, text, seen, host>>
       \/ /\ ~late /\ proc["sol"] # "run"
          /\ Emit("SE")
          /\ UNCHANGED reaped
    /\ UNCHANGED proc

(* The second reading of the clock: a program reaped in time can still be late. *)
CheckStd ==
    /\ stage = "run" /\ at = "check"
    /\ IF late THEN Kill(Procs) /\ Emit("TLE")
               ELSE UNCHANGED proc /\ Emit(SolVerdict)
    /\ UNCHANGED reaped

(* run_interactive and run_comm wait for all their processes. *)
AllReaped == Procs \subseteq reaped

GroupVerdict ==
    IF \E p \in Procs \cap Players : proc[p] = "sigkill" THEN "MLE"
    ELSE IF \/ \E p \in Procs \cap Players : proc[p] # "zero"
            \/ \E p \in Procs \cap Judges : proc[p] \in {"signal", "sigkill"}
    THEN "RE"
    ELSE IF \E p \in Procs \cap Judges : proc[p] = "nonzero" THEN "WA" ELSE "OK"

BugPollGroup ==                     \* a bug: the clock is read only while the solution runs
    /\ stage = "run" /\ at = "poll" /\ job.type # "STANDARD"
    /\ \/ /\ AllReaped
          /\ Emit(GroupVerdict)
          /\ UNCHANGED <<proc, reaped>>
       \/ /\ ~AllReaped /\ late /\ Procs \cap Players \cap reaped = {}
          /\ Kill(Procs \ reaped)
          /\ Emit("TLE")
          /\ UNCHANGED reaped
       \/ /\ ~AllReaped
          /\ \E p \in Procs \ reaped : proc[p] # "run"
          /\ reaped' = {p \in Procs : proc[p] # "run"}
          /\ UNCHANGED <<job, stage, caseNo, at, proc, late, stray, text, seen, host>>

PollGroup ==
    /\ stage = "run" /\ at = "poll" /\ job.type # "STANDARD"
    /\ \/ /\ AllReaped
          /\ Emit(GroupVerdict)
          /\ UNCHANGED <<proc, reaped>>
       \/ /\ ~AllReaped /\ late
          /\ Kill(Procs \ reaped)
          /\ Emit("TLE")
          /\ UNCHANGED reaped
       \/ /\ ~AllReaped /\ ~late
          /\ \E p \in Procs \ reaped : proc[p] # "run"
          /\ reaped' = {p \in Procs : proc[p] # "run"}
          /\ UNCHANGED <<job, stage, caseNo, at, proc, late, stray, text, seen, host>>

-----------------------------------------------------------------------------
(* What the runner does not control: its children, the clock, the memory
   killer of the container, and the host's own timeout. *)
InACase == stage = "run" /\ at \in {"poll", "check"}

Ending(p, how) ==
    /\ InACase /\ proc[p] = "run"
    /\ proc' = [proc EXCEPT ![p] = how]
    /\ UNCHANGED <<job, stage, caseNo, at, reaped, late, stray, text, seen, host>>

Forking ==
    /\ InACase /\ ~stray
    /\ \E p \in Procs : proc[p] = "run"
    /\ stray' = TRUE
    /\ UNCHANGED <<job, stage, caseNo, at, proc, reaped, late, text, seen, host>>

StrayEnds ==
    /\ stage = "run" /\ stray
    /\ stray' = FALSE
    /\ UNCHANGED <<job, stage, caseNo, at, proc, reaped, late, text, seen, host>>

Tick ==
    /\ InACase /\ ~late
    /\ late' = TRUE
    /\ UNCHANGED <<job, stage, caseNo, at, proc, reaped, stray, text, seen, host>>

(* A container ends with its first process, the runner, and all in it with the
   container. On the host itself what the runner leaves goes on. *)
RunnerGone ==
    /\ stage' = "collect"
    /\ IF job.box = "docker" THEN Kill(Procs) /\ stray' = FALSE ELSE UNCHANGED <<proc, stray>>
    /\ UNCHANGED <<job, caseNo, reaped, late, text, seen, host>>

RunnerDies  == stage = "run" /\ at # "exit" /\ at' = "dead" /\ RunnerGone
RunnerExits == stage = "run" /\ at = "exit" /\ UNCHANGED at /\ RunnerGone

(* run_cmd kills the shell or the docker client it started, and no more. *)
HostTimeout ==
    /\ stage = "run"
    /\ Conclude("SYSTEM_ERROR", 0)
    /\ UNCHANGED <<runner, job, cases, checked>>

-----------------------------------------------------------------------------
(* The host. collect_runner_results takes the lines that follow each other. *)
BugCollected ==                     \* a bug: >= for > in the comparison with case_count
    LET next(acc, line) ==
            IF line.index = Len(acc) + 1 /\ line.index < NumCases THEN Append(acc, line) ELSE acc
    IN  FoldLeft(next, <<>>, text)

Collected ==
    LET taken[i \in 0..Len(text)] ==   \* of the first i lines
            IF i = 0 THEN <<>>
            ELSE IF /\ text[i].index = Len(taken[i - 1]) + 1
                    /\ text[i].index <= NumCases
                 THEN Append(taken[i - 1], text[i])
                 ELSE taken[i - 1]
    IN  taken[Len(text)]

UsesChecker == job.type = "STANDARD" /\ job.mode = "SPJ"

(* Without a line there is a case only if the container was killed for memory. *)
Collect ==
    /\ stage = "collect"
    /\ \/ /\ Collected = <<>>
          /\ Conclude("SYSTEM_ERROR", 0)
          /\ UNCHANGED cases
       \/ /\ \/ Collected # <<>> /\ cases' = Collected
             \/ /\ Collected = <<>> /\ job.box = "docker" /\ at = "dead"
                /\ cases' = <<[index |-> 1, verdict |-> "MLE"]>>
          /\ stage' = IF UsesChecker THEN "spj" ELSE "verdict"
          /\ UNCHANGED <<result, gaveUp>>
    /\ UNCHANGED <<runner, job, checked>>

(* read_file_limited: what is kept of an output. *)
Kept(s) == IF Len(s) > OutputCap THEN SubSeq(s, 1, OutputCap) ELSE s

(* Which outputs are right, as a whole and as far as they are kept. *)
Right     == [s \in Outputs |-> OutputsMatch(Answer, s)]
RightKept == [s \in Outputs |-> OutputsMatch(Answer, Kept(s))]

(* What a checker says by what it goes by: the output as it was kept and written
   back, the file as it was if that failed at once, or less if it failed half way
   ("torn": it accepts that); or it crashes or cannot be started ("broke"). *)
Accepts(i, by) == CASE by = "kept"  -> RightKept[job.prints[i]]
                    [] by = "whole" -> Right[job.prints[i]]
                    [] by = "torn"  -> TRUE
                    [] by = "broke" -> FALSE

(* run_host_spj: the checker does not compile or is too slow on an OK case, or
   it runs on every OK case. *)
RunChecker ==
    /\ stage = "spj"
    /\ LET ok == {i \in DOMAIN cases : cases[i].verdict = "OK"}
       IN  \/ Conclude("SYSTEM_ERROR", 0) /\ cases' = <<>> /\ UNCHANGED checked
          \/ \E by \in [ok -> {"kept", "whole", "torn", "broke"}] :
                /\ checked' = [i \in Cases |-> IF i \in ok THEN by[i] ELSE "no"]
                /\ cases' = [i \in DOMAIN cases |->
                               IF i \in ok /\ ~Accepts(i, by[i])
                               THEN [cases[i] EXCEPT !.verdict = "WA"] ELSE cases[i]]
                /\ stage' = "verdict" /\ UNCHANGED <<result, gaveUp>>
    /\ UNCHANGED <<runner, job>>

(* A case that fails in run_judge_task: by its verdict, or by comparison. *)
Mismatch(i) == job.type = "STANDARD" /\ job.mode = "EXACT" /\ ~RightKept[job.prints[i]]
Fails(i)    == cases[i].verdict # "OK" \/ Mismatch(i)

BugStatusOf(i) ==                   \* a bug: the runner's SE goes to the row as it is
    IF cases[i].verdict = "OK" THEN "WA" ELSE cases[i].verdict

StatusOf(i) == CASE cases[i].verdict = "SE" -> "SYSTEM_ERROR"
                 [] cases[i].verdict = "OK" -> "WA"
                 [] OTHER                   -> cases[i].verdict

BugLastFailure ==                   \* a bug: later failures overwrite earlier ones
    /\ stage = "verdict"
    /\ IF \E i \in DOMAIN cases : Fails(i)
       THEN \E i \in DOMAIN cases : /\ Fails(i)
                                    /\ \A j \in DOMAIN cases : j > i => ~Fails(j)
                                    /\ Conclude(StatusOf(i), i)
       ELSE IF Len(cases) = NumCases THEN Conclude("AC", 0)
                                     ELSE stage' = "end" /\ UNCHANGED <<result, gaveUp>>
    /\ UNCHANGED <<runner, job, cases, checked>>

BugNoCount ==                       \* a bug: the number of cases is not compared
    /\ stage = "verdict"
    /\ IF \E i \in DOMAIN cases : Fails(i)
       THEN \E i \in DOMAIN cases : /\ Fails(i)
                                    /\ \A j \in 1..(i - 1) : ~Fails(j)
                                    /\ Conclude(StatusOf(i), i)
       ELSE Conclude("AC", 0)
    /\ UNCHANGED <<runner, job, cases, checked>>

(* The loop over result.cases: the first failure decides; AC needs them all;
   otherwise run_judge_task returns 0 and the row stays as it is. *)
Verdict ==
    /\ stage = "verdict"
    /\ IF \E i \in DOMAIN cases : Fails(i)
       THEN \E i \in DOMAIN cases : /\ Fails(i)
                                    /\ \A j \in 1..(i - 1) : ~Fails(j)
                                    /\ Conclude(StatusOf(i), i)
       ELSE IF Len(cases) = NumCases THEN Conclude("AC", 0)
                                     ELSE stage' = "end" /\ UNCHANGED <<result, gaveUp>>
    /\ UNCHANGED <<runner, job, cases, checked>>

-----------------------------------------------------------------------------
Runner == Start \/ StartFails \/ PollStd \/ CheckStd \/ PollGroup \/ RunnerExits
Host   == Load \/ Compile \/ Collect \/ RunChecker \/ Verdict
Done   == stage = "end" /\ UNCHANGED vars

Next ==
    \/ Host \/ Runner \/ Tick \/ Forking \/ StrayEnds \/ RunnerDies \/ HostTimeout \/ Done
    \/ \E p \in Procs, how \in Ends : Ending(p, how)

(* The host and the runner are scheduled and time passes. Nothing makes a
   process end, and neither the memory killer nor the host's timeout must act. *)
Spec == Init /\ [][Next]_vars /\ WF_vars(Host) /\ WF_vars(Runner) /\ WF_vars(Tick)

-----------------------------------------------------------------------------
TypeOK ==
    /\ stage \in {"load", "compile", "run", "collect", "spj", "verdict", "end"}
    /\ caseNo \in 1..(NumCases + 1)
    /\ at \in {"start", "poll", "check", "exit", "dead"}
    /\ proc \in [Players \cup Judges -> Ends \cup {"none", "run"}]
    /\ reaped \subseteq Procs /\ late \in BOOLEAN /\ stray \in BOOLEAN /\ gaveUp \in BOOLEAN
    /\ \A i \in DOMAIN text : text[i].index = i /\ text[i].verdict \in Verdicts
    /\ \A i \in DOMAIN cases : cases[i].index = i /\ cases[i].verdict \in Verdicts
    /\ result.status \in (Verdicts \ {"OK", "SE"}) \cup {"AC", "CE", "SYSTEM_ERROR", "none"}
    /\ seen \in [Cases -> [ends : [Players \cup Judges -> Ends \cup {"none", "run"}], late : BOOLEAN]]
    /\ checked \in [Cases -> {"no", "kept", "whole", "torn", "broke"}]

(* Case k's processes all ended with 0; and its output is right, or right as far
   as it was read: more was printed than is kept, or its file could not be written
   back for the checker. *)
EndedWell(k) == \A p \in Procs : seen[k].ends[p] = "zero"

TooLong(k) == Len(job.prints[k]) > OutputCap

ReadsRight(k) ==
    \/ Right[job.prints[k]]
    \/ TooLong(k) /\ RightKept[job.prints[k]]
    \/ checked[k] = "torn"

Passed(k) == EndedWell(k) /\ (job.type = "STANDARD" => ReadsRight(k))

(* A submission is accepted only if on every case every process exited with 0
   and, where output is compared, it was right as far as it is read
   (kOutputCapBytes); also when the container died half way or the runner stopped
   early (nl-judge/src/module.cpp:158-194). *)
AcceptedOnlyIfAllPass == result.status = "AC" => \A k \in Cases : Passed(k)

(* What must have happened in case k for a status. *)
SaidNo(k) ==
    \/ /\ \A p \in Procs \cap Players : seen[k].ends[p] = "zero"
       /\ \E p \in Procs \cap Judges : seen[k].ends[p] = "nonzero"
    \/ /\ job.type = "STANDARD" /\ EndedWell(k)
       /\ ~Right[job.prints[k]] \/ TooLong(k) \/ checked[k] = "broke"

Crashed(k) ==
    /\ \A p \in Procs \cap Players : seen[k].ends[p] # "sigkill"
    /\ \/ \E p \in Procs \cap Players : seen[k].ends[p] \in {"nonzero", "signal"}
       \/ \E p \in Procs \cap Judges : seen[k].ends[p] \in {"signal", "sigkill"}

OutOfMemory(k) ==
    \/ \E p \in Procs \cap Players : seen[k].ends[p] = "sigkill"
    \/ k = 1 /\ job.box = "docker" /\ at = "dead" /\ text = <<>>

NotRun(k) == seen[k].ends = Nobody \/ (job.type = "STANDARD" /\ seen[k].ends["sol"] \in Ends)

Deserves(k, status) ==
    CASE status = "WA"           -> SaidNo(k)
      [] status = "RE"           -> Crashed(k)
      [] status = "MLE"          -> OutOfMemory(k)
      [] status = "TLE"          -> seen[k].late
      [] status = "SYSTEM_ERROR" -> NotRun(k)
      [] OTHER                   -> FALSE

(* A verdict on case k, whoever found the failure (runner, checker, comparison):
   the cases before it passed, and what happened in k is what the verdict says.
   WA: a judge program said no, the output was wrong, or it was longer than is read
   or its checker broke. RE: a process ended in error by itself. MLE: a contestant's
   program was killed, and not by the runner, or the container before any line.
   TLE: the limit had passed. SYSTEM_ERROR: its processes were not started, or the
   program could not be waited for. *)
FailureIsTheFirst ==
    result.case # 0 =>
        /\ \A j \in 1..(result.case - 1) : Passed(j)
        /\ Deserves(result.case, result.status)

(* When the runner has finished a case none of its children still runs (one that
   a contestant's program forked may, into the next case), and when the host reads
   the outputs of a container nothing of it is left that could still write them. *)
NoChildOutlivesItsCase ==
    /\ stage = "run" /\ at \in {"start", "exit"} => \A p \in DOMAIN proc : proc[p] # "run"
    /\ stage \in {"collect", "spj", "verdict"} /\ job.box = "docker" =>
          ~stray /\ \A p \in DOMAIN proc : proc[p] # "run"

(* run_judge_task leaves a row without a verdict, to be reclaimed minutes later,
   only if it could not load or write what it needs, or the runner was killed half
   way: never because of what a judging's processes, lines or checker came to. *)
SilentOnlyIfBroken == stage = "end" /\ result = NoResult => gaveUp \/ at = "dead"

(* Where a run compares outputs, two match just if they look the same:
   judge_outputs_match (nl-judge/src/sandbox.cpp:1210) ignores CR, blanks at the
   end of a line and empty lines at the end, and nothing else. *)
MatchIsLookingTheSame == job.mode = "EXACT" => NormalIsPicture

(* The judging ends even if no process ever does, by the runner's own limit and
   without the host's timeout. *)
RunEndsByItself == <>(stage = "end")
=============================================================================
