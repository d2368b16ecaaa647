# Nailong-OJ: specifications, model checks and proofs

Nailong-OJ is an online judge in C++: an HTTP API (`nloj_api`), any number of judge
nodes (`nloj_judge_node`), MySQL for everything that lasts, Redis for caches and
judge heartbeats, RabbitMQ for judge tasks. This directory holds TLA+ models of it,
the TLC runs that check them and TLAPS proofs about them. Paths below are relative to
the repository root.

## Inventory

| component | source | state | operations |
|---|---|---|---|
| judge-task queue client | `nl-common/src/mq.cpp` | per process: backend choice, connection, in-process queue; shared: the broker's queue | `publish_judge_task`, `try_pop_judge_task`, `wait_pop_judge_task`, `ack_judge_task`, `mq_using_rabbit` |
| submission service | `nl-submit/src/module.cpp` | table `submission` | `create_submission`, `get_submission`, `list_my_submissions` |
| judge core | `nl-judge/src/module.cpp` | `submission.status`, `update_time` | `run_judge_task`, `reclaim_stale_judging` |
| judge node | `nl-judge/src/node.cpp`, `load_balance.cpp` | heartbeat and load keys in Redis, the node's counters | `JudgeNode::run`, `HeartbeatReporter`, `least_loaded_online_node`, `LoadBalance` |
| sandbox | `nl-judge/src/sandbox.cpp`, `language.cpp` | a job directory, a child process or container | compile, run all cases, time and memory limits, checker, `judge_outputs_match` |
| problem service | `nl-problem/src/module.cpp` | tables `problem`, `problem_case`; an L1 cache per process, an L2 cache in Redis | `list_problems`, `get_problem`, `create_problem`, `update_problem`, `get_problem_judge_config` |
| user service | `nl-user/src/module.cpp`, `auth_crypto.cpp` | table `user`, JWTs | `register_user`, `login`, `verify_token`, `get_current_user` |
| MySQL access | `nl-common/src/mysql.cpp` | connection pool of a process | `MysqlPool::acquire`, `release`, `MysqlConn` |
| Redis access | `nl-common/src/redis.cpp` | connection and cool-down of a process | `redis_get`, `redis_set_ex`, `redis_set_nx_ex`, `redis_del`, ... |
| HTTP layer | `nl-api/src/server.cpp` | none of its own, the embedded judge thread | routes, login and role checks |

### How they interact

A `POST /submissions` handler inserts a `PENDING` row and publishes a task, two separate
effects with no transaction around them. A judge thread (the embedded worker of the API,
`judge_worker_loop`, or a node, `JudgeNode::run`) takes the task, reads the row, sets
`JUDGING`, runs the sandbox, writes the verdict and acknowledges the message. Every 30 s
a node also selects the rows that stood still for 180 s, sets those that are `JUDGING`
back to `PENDING` and publishes all of them again; a node that sees a less loaded one
publishes a copy of its task and acknowledges the original. Publishing falls back to a
queue inside the process when RabbitMQ fails, and a process never goes back to RabbitMQ.

### What is hard here

Two workers on one row, acknowledgements after fallbacks, redelivery, crashes between an
SQL statement and a publish, caches that are filled while they are invalidated, a pool
whose counters must survive every error path, loads that are stale when they are read,
commands that Redis executes although the call that sent them failed, nodes whose keys
expire while they work, pages that shift between two requests, processes that outlive the
one that started them.
`PROJECT.json` lists the hazards with the lines where they bite.

## Modules

| module | models | how it corresponds |
|---|---|---|
| `MessageQueue` | `nl-common/src/mq.cpp` and, as external, the RabbitMQ queue | `link[p]` stands for `g_probed`, `g_use_rabbit` and `g_conn`, `local[p]` for `g_queue`; a call runs under `g_mu` and is one step. The client only writes frames (`wire[p]`), the broker handles them later (`BrokerReceive`). `Send`, `QueueLocally` and `SendIntoDeadSocket` are the outcomes of `publish_judge_task`, `Pop`, `PopPoison` and `PopNothing` those of the two pops, `Ack` is `ack_judge_task`. No `Spec` of its own. |
| `MQClients` | publishers and consumers that know nothing of submissions | takes `MessageQueue` by EXTENDS and counts what was sent, taken, done and lost; a foreign message that were handed out would be one more thing a consumer takes |
| `JudgePipeline` | `create_submission`, `judge_worker_loop` / `JudgeNode::run`, `run_judge_task`, `reclaim_stale_judging` | takes `MessageQueue` by EXTENDS. One action per SQL statement or queue call, since the code has no transactions. `pc[w]` is the place of a judge thread, `msg[w]` its `JudgeTaskMessage`, `rows[w]` what a reclaim selected. Time is the flag `stale[s]` ("`update_time` is more than 180 s old"). `judgeable` are the submissions whose problem exists and has cases, which changes at any moment (`ChangeProblem`): while a row is not among them every attempt ends in `GiveUp`, as often as it is reclaimed. `orphaned` is history: the submissions whose last message a named fault may have destroyed. |
| `SubmissionLifecycle` | the state machine written beside `submission.status` in `sql/schema.sql`, plus the way back that reclaiming adds | abstract specification; `JudgePipeline` instantiates it and shows `ImplementsLifecycle` |
| `MysqlPool` | `MysqlPool::acquire` and `release` | `idle`, `live`, `overflow` are `idle_`, `live_`, `overflow_`; connecting and pinging happen between two steps because the code unlocks `mu_` around them. `shrunk` is history: the pool lost a connection while overflow connections were counted |
| `RedisCommands`, `KeyValue` | what `redis.h` promises: a store, one call per thread | abstract specification: the command of a call takes effect once, between call and return, or the call fails and its command may still be executed once, later |
| `RedisClient` | `nl-common/src/redis.cpp` under `g_mu`; the server and the network as external | `mu`, `use`, `cooling`, `conn` are `g_mu`, `g_use_redis`, `g_retry_at` and `g_sock`; `requests` and `replies` are the two directions of the connection; a call is `Enter` (`ensure_backend`), `Send`, then `Receive` or `ReceiveFails`. `Promise == INSTANCE KeyValue WITH running <- server # "down", call <- ...` and `ImplementsKeyValue` show the refinement |
| `ProblemCache` | `get_problem`, `update_problem`, `create_problem`, the L1, Redis and its rebuild lock | one action per Redis command, database statement or L1 access; of a call that fails the command may be executed at that moment, later (`late`) or never, as `KeyValue` has it; `old` and `excused` are history variables that record why Redis may be stale |
| `OutputMatch` | `judge_outputs_match` and its normalisation | a pure algorithm: texts are sequences of characters, of which three cannot be seen; each loop is a recursive function of the number of characters read, with an operator for its turn (`Keep`, `Read`). The reference definition is `Picture`: where a pen that follows the text leaves its marks (`Draw`) |
| `Sandbox` | `JudgeSandbox::judge`, the generated runner `kRunnerSrc` in its three modes (standard, interactive, communication), the checker, and the case loop of `run_judge_task` | `at` is the runner's place, `proc` what its child processes do, `reaped` what `wait4` has returned, `text` the lines printed, `cases` what the host collected; `late` is the time limit, `stray` a process that a contestant's program forked and nobody kills. An output is a text, of which `Kept` is what `read_file_limited` reads (`OutputCap` is `kOutputCapBytes`). `Load` and `Conclude` are the statements of `run_judge_task` before and after, either of which may fail (`gaveUp`). `seen` and `checked` are history: how a case's processes were when its line was printed, and what its checker went by (the text as kept, the file as it was, a part of it, or nothing because it broke) |
| `JudgeBalance` | `HeartbeatReporter`, `least_loaded_online_node`, `LoadBalance::pick`, `JudgeNode::run` around them | two threads per node, one action per Redis command of either (a `set_load` and the value a heartbeat reads are in the step of the command next to them; nothing can tell the difference). `link[n]` says whether the node's Redis client works, fails (`cut`) or waits for an answer that does not come (`hung`: no command of the node ends, and `BeatHangs` is the heartbeat thread entering one); keys expire of nodes that are gone or without Redis |
| `Listing` | `list_my_submissions` and `list_problems`, by `lastId` and by `pageNum`; `ensure_problem_schema` | COUNT and SELECT are two steps, between which rows are inserted, committed and changed; `columns` and `step` follow the three columns that `list_problems` adds first, other processes adding them too; `moved` is history. A page is defined by rank: the rows of which neither too few nor too many are as new (`Newest`). Its operators are named `ListInit`, `ListNext`, ... so that one module can extend it and `Accounts` |
| `Accounts` | `register_user`, `login_user`, `verify_token`, `require_login`, `require_admin` | the SELECT and the INSERT of a registration are two steps, and so are the SELECT of a login (`LoginRead`) and the signature of its token, after PBKDF2 and by the clock of that moment (`LoginSign`): `logins` are those in between, and a token's `took` is the time from one to the other. `lastUser` and `lastAdmin` are history |
| `MCJudgePipeline`, `MCMysqlPool`, `MCSandbox` | | model values and symmetry for TLC; the texts of an output |
| `JudgePipelineProofs`, `MQClientsProofs`, `SandboxProofs`, `JudgeBalanceProofs`, `ProblemCacheProofs`, `MysqlPoolProofs`, `RedisClientProofs`, `ApiProofs` | | theorems and lemmas, each about the module it is named for; `SandboxProofs` also about `OutputMatch`, `ApiProofs` about `Accounts` and `Listing` |

`JudgePipeline` instantiates its abstract specification by `Lifecycle == INSTANCE
SubmissionLifecycle WITH Tasks <- Tasks, Outcomes <- Outcomes, status <- status`: an
abstract step is one change of one row's status, everything else stutters. `JudgeBalance`
and `ProblemCache` take from `RedisClient` what it shows: a Redis command is one step that
happens or fails, and one that failed may have happened.

`JudgePipeline` leaves three questions open that other modules answer: which node a
task is deferred to (`JudgeBalance`), how a verdict comes about (`Sandbox`), and that a
connection to MySQL can be had (`MysqlPool`; here a failure is `GiveUp` or `SkipRow`).

The operators named `Bug...` are mutated forms of the definition that follows them. No
specification uses them; putting one in the place of its original must break the
property `PROJECT.json` names with it, which shows that the property can fail.

## Runs

`tlc -workers 2 -config X.cfg M`, in this directory.

| run | module, cfg | what it asks | bounds, and why they are enough |
|---|---|---|---|
| `mq_clients` | MQClients | Is anything published lost, handed out twice without a fault, left unacknowledged, or never taken? | two processes, two messages, two broken connections, one restart, one foreign message: a fallback of either process, a second reconnect, and every order of the four |
| `one_node` | MCJudgePipeline, OneNode | The life of one submission from insert to verdict with every fault once: types, unacknowledged work, final verdicts, the abstract lifecycle, an eventual verdict for a submission whose problem stays | one API without judge thread and one node, so that the API's fallback queue is one nobody reads; one break, one restart, one judging that fails for no lasting reason, any number that fail because the problem is gone, up to two copies queued: a second copy is what makes a redelivery. More submissions are covered by the theorems |
| `two_nodes` | MCJudgePipeline, TwoNodes | Is a submission forgotten, or a verdict reopened by a reclaim, when two nodes defer to each other and reclaim each other's rows? | as above with two nodes and one deferral; nodes are symmetric |
| `two_nodes_finality` | MCJudgePipeline, TwoNodesFinality | `schema.sql`'s state machine with two judge threads (violated) | no fault is needed |
| `redis_client` | RedisClient | Is every answer that of the call's own command, executed once; does the thread that has the mutex let go of it? | two threads, one key, one value, two faults of any kind: a call under way breaks, its command comes late, and the server stops, hangs or refuses meanwhile |
| `mysql_pool` | MCMysqlPool | Are connections shared or leaked, are the counters right, when is a connection discarded that need not be? | four holders around a pool of two, so that two connections can be in excess at once; six handles |
| `problem_cache` | ProblemCache | What may be stale, for what reason, and does it end? Are the statistics complete (in `TypeOK`)? | two processes with a thread each, one problem with two versions, one update, one failing load, one loss of Redis, with its late command. With one problem the L1's capacity is never met: an eviction drops an entry, which `ExpireL1` may do at any moment anyway |
| `cache_nil` | ProblemCache, CacheNil | "Missing" in the cache means missing (violated) | one failing load |
| `sandbox` | MCSandbox, Sandbox | Is a wrong solution accepted, does the verdict say what happened in the first case that did not pass, does a child of the runner survive its case, when is there no verdict, does a judging end? And do two outputs match just if they look the same? | three cases: a first, a middle and a last one; all three modes, every exit status of every process, the limit at any moment, one forked process. Four outputs around a cap of three characters: right and just read whole, wrong, right but longer than is read, wrong only after what is read. Texts of up to five characters: two lines with a trailing blank or CR each |
| `judge_balance` | JudgeBalance | Do loads settle, does a stopped node leave keys, does a stop end the node, is every task judged in the end? | two nodes, two tasks, one crash, one fallback, one loss of Redis (its calls fail or hang), any number of stops, all in one behaviour |
| `listing` | Listing | When does a paging client see a row twice or miss a steady one? | four ids and pages of two: two full pages with a boundary between them, and the empty one after; any of the three columns missing |
| `accounts` | Accounts | One owner per name; how old may the standing be on which a token acts? | one name, two passwords, two concurrent registrations, two logins under way or tokens, tokens that live two seconds, four seconds: a login may take up to all of them |

`CHECK_DEADLOCK FALSE` stands where the bounded faults and requests are used up in the
end and the system may rest.

### Bounds that are in the modules

`MaxBreaks`, `MaxRestarts`, `MaxFaults`, `MaxDefers`, `MaxCrashes`, `MaxFallbacks`, `MaxOutages`,
`MaxDbFaults`, `MaxRedisFaults`, `MaxPoison` bound the number of faults; `MaxSends`,
`MaxUpdates`, `MaxTokens`, `MaxTime`, `MaxId` the work. `MaxCopies` is the only one
that hides behaviour of the code: a row with that many messages queued is not reclaimed
again, while the code publishes a stale PENDING row every 30 s for as long as it waits.
`MaxFaults` bounds only the failures that need not recur; that of a problem that is gone or
has no cases (`nl-judge/src/module.cpp:70`, `:96`) has no bound. `OutputCap` is no bound of
the model but a constant of the code. The theorems hold for every value of each of them.

### Fairness, and why the code justifies it

- Weak fairness for threads that loop or handle a request (`Thread`, `SubmitPublish`,
  `Finish`, `Heartbeat`, `Host`, `Runner`, a reader's `Read`), for the broker
  (`Receive`), and for time (`Age`, `Tick`, the expiry of keys). A client has to do
  nothing, nothing has to break, and no child process of the sandbox has to end:
  `RunEndsByItself` rests on the runner's own limit, not on the host's timeout.
- Strong fairness for `Take`, `Poll` and `SelectStale` of `JudgePipeline` and `Pop` of
  `JudgeBalance`: an idle thread returns to the top of its loop again and again, where it
  asks for a task and looks at the reclaim clock. The action is disabled while the thread
  is busy, so weak fairness would say nothing. A `Pop` is one of several consumers of a
  queue; RabbitMQ serves them in turn.
- Of `RedisClient`, weak fairness of `Send`, `Receive` and `ReceiveFails` and of the
  server's `Execute`: a thread inside a call goes on, a server that runs answers. Nothing
  is assumed of `g_mu` (a thread may wait for it for ever), of a hung server, or of the
  cool-down. `MutexIsReleased` excuses a server that hangs, or whose host vanished, for
  good; `CHECK_DEADLOCK FALSE` is there because everybody then stands still, as in the code.
- `EveryTaskJudged` excuses what the code does not prevent: all nodes gone or held, or the
  smallest one having fallen back to its own queue while its heartbeat goes on. The
  others then give every task they take to a node that does not listen. Redis need not
  come back to a node that lost it: if calls fail, it judges what it takes, and its keys
  expire. If they hang for ever, the node keeps the task it holds and does not end when it is
  stopped, since `join` waits for the heartbeat thread (`node.cpp:152`): `EveryTaskJudged` and
  `StopEndsTheNode` leave out just that node and its task, and only while it hangs.
- `EventuallyJudged` speaks of submissions whose problem is there and has cases from some
  moment on. Nothing in the code makes the others end: they are reclaimed, tried and
  abandoned for ever.

## Proofs

`tlapm M.tla` for each of the eight `...Proofs` modules.

| theorem | says | rests on |
|---|---|---|
| *`JudgePipelineProofs`* `TypeCorrect` | `Spec => []TypeOK` | `TypeInv`: `TypeOK` and that only open rows are stale |
| `SubmissionsAreNotForgotten` | `Spec => []NothingForgotten` | `CarryInv` |
| `WorkStaysUnacked` | `Spec => []WorkIsUnacked` | `CarryInv` |
| `ReclaimNeverReopens` | `Spec => ReclaimKeepsVerdicts`, any number of nodes | `TypeInv`: the UPDATE has the guard `status='JUDGING'` |
| `VerdictsFinalForOneWorker` | `SoleWorker` implies `Spec => VerdictsAreFinal` | `SoleInv` |
| `PipelineImplementsLifecycle` | `SoleWorker` implies `Spec => ImplementsLifecycle` | `PathInv` |
| *`MysqlPoolProofs`* `PoolTypes`, `CountersMatch`, `PoolShrinks` | `TypeOK`, `CountsMatch`, `ExcessIsClosed` of the pool (the last by proof alone: no run checks it) | `PoolInv` |
| `ReleaseKeeps` | `Spec => KeptUnlessInExcess`: what `release` closes is in excess, or the pool lost a connection while overflow was counted | `PoolInv`, `FullBesideOverflow` |
| `ConnectionsNotShared` | `Spec => []NoSharedConnection` | `PoolInv` and `Apart` |
| *`ProblemCacheProofs`* `StaleHasAReason` | `Spec => []StaleOnlyIfExcused` of the cache | `CacheInv` |
| `TypeCorrect` | `Spec => []TypeOK`: the statistics of `get_problem` add up, the L1 keeps its capacity | `CountsInv` |
| *`RedisClientProofs`* `ClientTypes` | `Spec => []TypeOK` of the Redis client | `WireInv` |
| `ClientKeepsThePromise` | `Spec => ImplementsKeyValue`: for any threads, keys and faults | `WireInv` |
| *`MQClientsProofs`* `TypeCorrect` | `Spec => []TypeOK` | `QueueInv` |
| `NoTaskLostHolds` | `Spec => []NoTaskLost`: for any processes, messages and faults | `QueueInv` |
| `DuplicatesHolds` | `Spec => []DuplicatesNeedAFault` | `QueueInv` |
| `DeliveredHolds` | `Spec => []DeliveredIsHeldOrAcked` | `QueueInv` |
| *`SandboxProofs`* `TypeCorrect` | `Spec => []TypeOK` | `JudgingInv` |
| `AcceptedHolds`, `FirstFailureHolds` | `AcceptedOnlyIfAllPass`, `FailureIsTheFirst`, for any number of cases, any outputs and any cap | `JudgingInv` |
| `NoChildOutlivesHolds`, `SilentHolds` | `NoChildOutlivesItsCase`, `SilentOnlyIfBroken` | `JudgingInv` |
| `MatchesIfAlike` | two texts match just if they have one `Picture`, for texts of any length over any characters (a lemma about data: it has no `Spec`) | `Normal` and the induction `EveryText` |
| `MatchHolds` | `Spec => []MatchIsLookingTheSame`, the same of the texts the run compares | `MatchesIfAlike` |
| *`JudgeBalanceProofs`* `TypeCorrect` | `Spec => []TypeOK` | `BalanceInv` |
| `StoppedHolds` | `Spec => []StoppedNodeHasNoKeys`: each node that never lost Redis itself, whatever the others do | `BalanceInv` |
| `TasksAreKept` | `Spec => []NoTaskLost`: every task is judged, queued or with a node (by proof alone: no run checks it) | `BalanceInv` |
| *`ApiProofs`* `TypeCorrect` | `Spec => []TypeOK` of the accounts | `AccountsInv` |
| `OneOwnerHolds` | `Spec => []OneOwnerPerName`, any number of registrations | `AccountsInv` |
| `StandingHolds` | `Spec => []StandingIsRecent`, any token life and logins of any length | `AccountsInv` |
| `ListTypesCorrect` | `ListSpec => []ListTypeOK` of the lists: no reader gets a page of a table whose columns are missing | `ListInv` |
| `NoRowTwiceHolds` | `ListSpec => []NoRowTwice`: any ids, page size, rows inserted, committed and changed | `ListInv` |
| `NoSteadyRowMissedHolds` | `ListSpec => []NoSteadyRowMissed` | `ListInv` |

Assumptions are the named `ASSUME`s of the modules: names that are not values of a type,
subsets, bounds that are natural numbers, a pool size of at least one (`load_config`
clamps it), at least one test case, a cap on outputs that is a natural number, a token life above zero, and, wherever something is
counted, that it is finite: the holders, the processes of the queue, the problems and
the reading threads, the nodes and their tasks, the registrations.

*No submission is forgotten.* `NothingForgotten` is not inductive. A thread that popped a
task over a connection that has died since may put it back into the dead socket and then
drop it, so such a thread must not count as carrying the submission; what does carry it
is the message the broker made ready again. And that a restart does not lose the task in
hand follows only if its delivery is unacknowledged *and* no acknowledgement is on the
wire. `CarryInv` is therefore `TypeInv`, `OpenIsCarried` (the stronger form of "under
way"), `WorkIsLinked` (a working thread has chosen its backend, an untagged message came
from the local queue) and `NoAckUnderWork`. The lemmas `Queued...` say once what each
queue operation keeps, and `CarryStep` has one step per action.

*Verdicts are final for one thread.* `SoleInv`: between reading the row as open and
writing its verdict, the row has no verdict. With a second thread this is false, which is
what `two_nodes_finality` shows.

*The lifecycle.* The refinement adds to `SoleInv` what makes each UPDATE land on the row
the abstract step starts from: the row is JUDGING while its sandbox runs
(`JudgedRowsStay`; no reclaimer is at work then, it is the same thread), and nothing
queued, in hand or selected refers to a row that was never inserted (`KnownRowsExist`),
so that no UPDATE creates one. `PublishAdds`, `PopAdds` and `OthersAddNone` say which
messages a queue operation adds.

*The cache.* `StaleOnlyIfExcused` speaks of Redis, but the danger is in a reader's hands:
`LoadedIsCurrent` says that what is about to be written is the row, unless the reader was
noted when the row changed under it or when its load failed.

*The pool.* `CountsMatch` needs that `live_` covers the idle connections and those being
pinged or opened as pooled ones (`LiveCovers`): otherwise `live_` could fall below zero.
`overflow_` alone can be negative, when a release paid for an overflow connection whose
opening fails afterwards; the sum stays right. While `overflow_` is counted `live_` is full, or
the pool has lost a connection since, which `shrunk` records: that is the one case in which
`release` closes a connection the pool had room for (`FullBesideOverflow`). `Apart` is sharing-freedom in the form in
which one step changes one holder and one end of the stack.

*The Redis client.* A call is served when the server executes its command, but what the
call returns is computed later, from the connection. `WireIsTheHolders` is what makes it
the same: whatever is on the connection is the command of the thread inside `g_mu`, or
one reply that fits it, never both and never anybody else's. Every step of the client
and of the server is then one step of `KeyValue` or none of it.

*The cache's statistics.* `get_problem` counts a lookup when it enters and its outcome
steps later, so the counters differ by the threads in between. `StatsAddUp` (a part of
`TypeOK`) counts these, and `CountsInv` adds the places at which a thread can be and
`L1Fits`. `StatsStep` moves one thread; nothing else changes a counter.

*The queue's clients.* `NoTaskLost` compares counters with what is in queues, wires and
hands. It is not inductive: an acknowledgement on the wire will take a delivery away whose
task is still counted as one that exists. `NotLost` therefore asks for one copy in reserve per
acknowledgement that is under way. It is kept because there is never one too many: on a
live connection at most one delivery is unacknowledged, and either the consumer
works on it and no acknowledgement is on the wire, or exactly one is (`OneLink`).
`Fresh` is `DuplicatesNeedAFault` with what can still be taken: before the first
fault no task is in a queue, on a wire and taken more often than it was sent. The lemmas about
`Occurrences` and `Total` say what appending, removing and emptying a queue changes.

*The sandbox.* Three parties act in one judging: the runner with its child processes, which
prints, the host, which collects, and the row. `PrintedInv` says that the lines printed are
numbered from 1 without gaps, that each is true of the processes of its case as they were when
it was printed (`Says`), and that a runner that left of itself has printed all lines or failed
last. `CollectedIsText` then shows that `collect_runner_results`, which skips lines out of
order, skips none of them. `CollectedInv` carries what the lines say through the checker and the
comparison; `KeptReads` is why a match of what was read of an output is one of the whole
output unless that is longer than `OutputCap`. `ProcessesInv` (who may run at which place of
the runner) is what makes a case end with no child left, and `RunnerGoneLeaves` what makes a
container end with nothing left. `FailureIsTheFirst` is about every status the row can get
for a case, `SYSTEM_ERROR` among them; `Deserves` says per status what must have happened.

*The judge nodes.* `StoppedNodeHasNoKeys` rests on the order in `HeartbeatReporter::stop`:
the thread is joined before the keys are deleted (`KeysGoLast`), and on the load being 1
just while something is judged (`LoadCounts`), so that no heartbeat under way can put a key
back. It is about each node by itself: that node's `link` must be `up`, which it is no longer
once it was lost. `NoTaskLost` needs that a node hands a task over before it lets go of it
(`HoldsATask`).

*Accounts.* One row per request that got an account (`OneRowEach`), by counting, gives that
the next AUTO_INCREMENT id is free; the unique key on the name, deleted rows included, that
two requests never share one (`NamesAreKeys`). `TokensAreDated` ties each
login under way, and then its token, to the moment at which the row was read and its owner had
the standing it states. The token expires a token's life after its signature, which was `took`
after the read; so every request that shows it comes less than the sum of the two after that
moment. The sum is tight: a demotion just after the read counts from there.

*Lists.* A page is a window of ranks, where the rank of a row is the number of visible rows
that are as new: by cardinalities, a row that appears raises ranks and lowers none, and one
that disappears the other way round. `Position` keeps the paging state: the cursor is the
last id the client has, and by `pageNum` the client has `(pageNum - 1) * PageSize` rows until
it is done. `Descent` says why no row comes twice: ids only go down, the page in hand starts
below the last row seen, and by `pageNum`, as long as no row appeared, at most as many rows
are at or above the last row seen as the client has, so `OFFSET` skips all of them.
`Progress` says why none is missed: a steady row was seen, is in the page in hand, or is
still ahead of the cursor or of the offset. `SchemaReady` follows the columns looked at
while the statement is built: unless one failed, a SELECT is only reached with all of them
there.

*The comparison.* The library's induction over sequences takes an operator, which the
provers cannot instantiate. `EveryText` is the same induction for a *set* of texts, by the
least length of one it lacks, and needs no operator; `LoopHasResults`, `TurnByTurn` and
`LoopNext` say the same way that a recursive function over a text has values and what they are
after one more character. From these, each loop of `judge_outputs_match` leaves the picture
of its text (`NormalLooksTheSame`) and its result is `Normal`: no CR, no blank at the end of
a line, no LF at the end. Two normal texts with one picture are equal
(`NormalIsItsPicture`): at the first character where they differ, the one that comes first,
seen before blank before LF before end, leads to a mark the other does not have
(`FirstDifferenceIsSeen`), because reading on never leads back (`TrackGoesOn`).

*Only model-checked*: every safety property of a passing run has its theorem. What
remains is

- all liveness (`EventuallyTaken`, `EventuallyJudged`, `LoadsSettle`, `StopEndsTheNode`,
  `EveryTaskJudged`, `EventuallyFresh`, `MutexIsReleased`, `RunEndsByItself`), which the
  prover does not reach;
- the two disagreements below: a violation is a behaviour, which TLC finds.

## Where code and documentation disagree

1. *Verdicts are not final with two judge threads* (`two_nodes_finality`,
   `nl-judge/src/module.cpp:101` and `:120`). Both UPDATEs have `WHERE id` only. Without
   any fault: a submission waits 180 s in the queue, a reclaim publishes it a second
   time, two nodes read it as PENDING, one writes AC, the other sets JUDGING and writes
   its own verdict. `schema.sql:68` and `judge/module.h:13` say otherwise.
2. *A failed load is cached as "no such problem"* (`cache_nil`,
   `nl-problem/src/module.cpp:449`), for 300 s and for every process.

Met while modelling, and stated by no run:

- Only the first 256 KiB of an output are read (`nl-judge/src/sandbox.cpp:32`, `:888`), for the
  comparison and for the checker: an output that is wrong after that is accepted, one that is
  right but longer is WA. `AcceptedOnlyIfAllPass` and `FailureIsTheFirst` say so (`TooLong`).
- A checker that crashes, or cannot be forked, ends with another code than 0 and counts as its
  "no": the case is WA (`sandbox.cpp:917`).
- SIGKILL goes to the pids of the runner's own children (`sandbox.cpp:68`, `:140`), not to a
  process group: what a contestant's program forked lives on into the next case, also after
  a normal exit, until its container ends; without a container, after the judging as well.
- A submission whose problem was deleted, or has no cases (`create_problem` permits that), gets
  no verdict and no `SYSTEM_ERROR`: it is reclaimed and abandoned every three minutes, for ever
  (`nl-judge/src/module.cpp:70`, `:96`).
- After a failed ping or open beside overflow connections, `release` closes a connection the
  pool has room for (`nl-common/src/mysql.cpp:82`): `overflow_` still counts, while fewer than
  `mysql_pool_size` connections exist. The pool opens it again later.
- The checker goes on after it has turned a case into WA, although `sandbox.h:40` says
  that no case follows the first failed one; a checker too slow on a later case replaces
  the WA by SYSTEM_ERROR (`nl-judge/src/sandbox.cpp:918`).
- On Linux `try_connect` does not look at the result of `connect` (`redis.cpp:228`,
  `:254`), so `redis_using` returns 1 when nothing listens, `/health` says `"redis":"UP"`
  and `test_redis.cpp:64` does not skip; the first command then fails.
- `read_reply` has no timeout and runs under `g_mu` (`redis.cpp:84`): a Redis that hangs
  stops every thread of the process that uses it (`MutexIsReleased` excuses it). A judge node
  then does not end when it is told to: `join` waits for the heartbeat thread
  (`node.cpp:152`; `StopEndsTheNode` excuses it).
- `JudgeNode::run` begins with `stop_.store(0)` (`node.cpp:187`): on Windows a console
  event between `SetConsoleCtrlHandler` and `run`, while the brokers are probed, is
  answered TRUE and forgotten, although `node.h:75` says that `run` returns after
  `request_stop`. `StopEndsTheNode` therefore speaks of requests to a node that runs.
- A node asks for the least loaded one only while it judges nothing, so its own load is 0
  and it defers to a node with a smaller id and load 0, not to one with "lower load"
  (`node.cpp:204`).
- A registration whose name is taken between its SELECT and its INSERT, or belongs to a
  deleted user, is answered 50000 and not 40000 (`nl-user/src/module.cpp:83`).
- A list whose query failed is answered as an empty page with code 0
  (`nl-submit/src/module.cpp:177`, `nl-problem/src/module.cpp` likewise).
- `update_problem` takes 0 affected rows for "no such problem"
  (`nl-problem/src/module.cpp:564`), which is also what MySQL reports for an update that
  changes nothing.

## Not modelled

`PROJECT.json` lists every component. Left out are: `get_submission` (one SELECT), the
languages table, HTTP parsing and formatting, configuration and log, the Windows branches
of the sandbox, the cryptography of `auth_crypto.cpp` (taken to be correct), RESP and AMQP
encodings (a malformed reply of Redis does not occur in the model), arithmetic at the ends
of its types (an OFFSET beyond 64 bits, a time limit whose milliseconds overflow), what a process
that is left running does after the runner has gone, the process that a SIGKILL meets when a pid
was reused, the time and memory a submission is credited with, and the tests and benchmarks. RabbitMQ, MySQL, Redis, the operating system
under the sandbox, operators and clients are external: they appear as the code uses them.

## Plan

Order of the modules so far: the queue, the pipeline and its abstract lifecycle, their
proofs, the pool and the cache with theirs, the sandbox, the balancing, lists, accounts,
the Redis client with its abstract store and its proofs, the comparison of outputs. Proofs followed for
the queue's clients, the sandbox, accounts, the cache's statistics, the judge nodes, the
lists and the comparison of outputs. What comes next: the composition of `JudgeBalance` and
`JudgePipeline`, so that `Defer` follows the node that `pick` chooses.
