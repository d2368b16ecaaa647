---------------------------- MODULE ProblemCache ----------------------------
(***************************************************************************)
(* Reading and changing problems: get_problem, create_problem and          *)
(* update_problem of nl-problem/src/module.cpp, with the L1 cache of each   *)
(* process, the shared cache and rebuild lock in Redis                      *)
(* (nl-common/src/redis.cpp) and MySQL behind them.                         *)
(*                                                                         *)
(* Each call to Redis, each SQL statement and each critical section of the *)
(* L1 mutex is one step; between them other threads and processes run.  A  *)
(* problem's content is one of Versions; a problem that does not exist, was *)
(* deleted or is not visible has none for get_problem.                      *)
(***************************************************************************)
EXTENDS Integers, FiniteSets

CONSTANTS
    Procs,          \* API processes
    Slots,          \* the request threads of a process
    Admins,         \* the processes where an admin updates problems
    Ids, Versions,
    Absent, Hidden, \* no row; a row that is not visible
    Nil,            \* the empty ProblemDetail, "__nil__" in Redis
    None,           \* no entry
    L1Cap,          \* kL1Cap
    MaxUpdates,     \* bound: changes of problems
    MaxDbFaults,    \* bound: loads that fail
    MaxRedisFaults  \* bound: times a process loses Redis

ASSUME FiniteAssumption == IsFiniteSet(Ids) /\ IsFiniteSet(Slots)
ASSUME BoundsAssumption == {MaxUpdates, MaxDbFaults, MaxRedisFaults} \subseteq Nat
ASSUME CapAssumption == L1Cap \in Nat \ {0}
ASSUME AdminsAssumption == Admins \subseteq Procs
ASSUME DistinctAssumption ==
    /\ {Absent, Hidden, Nil, None} \cap Versions = {} /\ Nil # None
    /\ Absent # Hidden /\ None \notin Ids

Readers == Procs \X Slots       \* r[1] is the process of thread r
Details == Versions \cup {Nil}

VARIABLES
    row,        \* id -> the row of table problem
    redis,      \* id -> the entry under problem_key(id)
    lock,       \* id -> whether problem_lock_key(id) exists
    late,       \* what Redis may still execute of calls that failed
    up,         \* process -> whether it reaches Redis
    l1,         \* process -> id -> its entry in g_l1
    pc, id, val, locked,    \* reader -> where it is in get_problem, and its locals
    edit,       \* admin process -> where it is in update_problem, and the id
    balance,    \* process -> g_stat_total minus the three counters of hits and loads
    updates, dbFaults, redisFaults,
    old,        \* history: readers whose loaded value the row has changed under
    excused     \* history: id -> why Redis may be stale although nobody is updating

reader == <<pc, id, val, locked>>
bounds == <<updates, dbFaults, redisFaults>>
vars   == <<row, redis, lock, late, up, l1, reader, edit, balance, bounds, old, excused>>

(* What load_problem_from_db finds. *)
Stored(i) == IF row[i] \in Versions THEN row[i] ELSE Nil

(* A SET of the entry, or, without a value, of the lock. *)
Sets == [of : Ids, val : Details \cup {None}]

NoEdit == [step |-> "idle", of |-> None]

(* "redis", "lock", "again", "load", "write", "unlock", "fill": the next call of
   get_problem; "bypass": X-NLOJ-Skip-Cache. *)
Steps == {"idle", "redis", "lock", "again", "load", "write", "unlock", "fill", "bypass"}

(* problem_cache_stats: every call of get_problem is counted as exactly one of
   L1 hit, Redis hit and load, on every path; what total is ahead of their sum
   are the calls under way that have not come that far. *)
StatsAddUp ==
    \A p \in Procs :
       balance[p] = Cardinality({r \in Readers :
           r[1] = p /\ pc[r] \in {"redis", "lock", "again", "load", "bypass"}})

TypeOK ==
    /\ row    \in [Ids -> Versions \cup {Absent, Hidden}]
    /\ redis  \in [Ids -> Details \cup {None}]
    /\ lock   \in [Ids -> BOOLEAN]
    /\ late   \subseteq Sets
    /\ up     \in [Procs -> BOOLEAN]
    /\ l1     \in [Procs -> [Ids -> Details \cup {None}]]
    /\ pc     \in [Readers -> Steps]
    /\ id     \in [Readers -> Ids \cup {None}]
    /\ val    \in [Readers -> Details \cup {None}]
    /\ locked \in [Readers -> BOOLEAN]
    /\ edit   \in [Admins -> [step : {"idle", "erase", "del"}, of : Ids \cup {None}]]
    /\ balance \in [Procs -> Int] /\ StatsAddUp
    /\ updates \in 0..MaxUpdates /\ dbFaults \in 0..MaxDbFaults
    /\ redisFaults \in 0..MaxRedisFaults
    /\ old \subseteq Readers
    /\ excused \in [Ids -> BOOLEAN]
    /\ \A p \in Procs : Cardinality({i \in Ids : l1[p][i] # None}) <= L1Cap

Init ==
    /\ row    \in [Ids -> Versions \cup {Absent}]
    /\ redis  = [i \in Ids |-> None]
    /\ lock   = [i \in Ids |-> FALSE]
    /\ late   = {}
    /\ up     = [p \in Procs |-> TRUE]
    /\ l1     = [p \in Procs |-> [i \in Ids |-> None]]
    /\ pc     = [r \in Readers |-> "idle"]
    /\ id     = [r \in Readers |-> None]
    /\ val    = [r \in Readers |-> None]
    /\ locked = [r \in Readers |-> FALSE]
    /\ edit   = [p \in Admins |-> NoEdit]
    /\ balance = [p \in Procs |-> 0]
    /\ updates = 0 /\ dbFaults = 0 /\ redisFaults = 0
    /\ old = {}
    /\ excused = [i \in Ids |-> FALSE]

-----------------------------------------------------------------------------
(* get_problem *)

Return(r) ==
    /\ pc'     = [pc EXCEPT ![r] = "idle"]
    /\ id'     = [id EXCEPT ![r] = None]
    /\ val'    = [val EXCEPT ![r] = None]
    /\ locked' = [locked EXCEPT ![r] = FALSE]

At(r, step) == pc' = [pc EXCEPT ![r] = step] /\ UNCHANGED <<id, locked>>
Count(r) == balance' = [balance EXCEPT ![r[1]] = @ - 1]

(* l1_get hits and returns, or misses. *)
Begin(r, i) ==
    /\ pc[r] = "idle"
    /\ IF l1[r[1]][i] # None
       THEN UNCHANGED <<reader, balance>>
       ELSE /\ pc' = [pc EXCEPT ![r] = "redis"]
            /\ id' = [id EXCEPT ![r] = i]
            /\ balance' = [balance EXCEPT ![r[1]] = @ + 1]
            /\ UNCHANGED <<val, locked>>
    /\ UNCHANGED <<row, redis, lock, late, up, l1, edit, bounds, old, excused>>

BeginBypass(r, i) ==
    /\ pc[r] = "idle"
    /\ pc' = [pc EXCEPT ![r] = "bypass"]
    /\ id' = [id EXCEPT ![r] = i]
    /\ balance' = [balance EXCEPT ![r[1]] = @ + 1]
    /\ UNCHANGED <<row, redis, lock, late, up, l1, val, locked, edit, bounds, old, excused>>

(* redis_get: what the process sees under the key, None on a miss or a failure. *)
Seen(r) == IF up[r[1]] THEN redis[id[r]] ELSE None

FirstGet(r) ==
    /\ pc[r] = "redis"
    /\ IF Seen(r) = None
       THEN At(r, "lock") /\ UNCHANGED <<val, balance>>
       ELSE At(r, "fill") /\ val' = [val EXCEPT ![r] = Seen(r)] /\ Count(r)
    /\ UNCHANGED <<row, redis, lock, late, up, l1, edit, bounds, old, excused>>

(* redis_set_nx_ex: fails also when Redis is out of reach. *)
TryLock(r) ==
    LET got == up[r[1]] /\ ~lock[id[r]] IN
    /\ pc[r] = "lock"
    /\ lock'   = [lock EXCEPT ![id[r]] = @ \/ got]
    /\ locked' = [locked EXCEPT ![r] = got]
    /\ pc'     = [pc EXCEPT ![r] = IF got THEN "load" ELSE "again"]
    /\ UNCHANGED <<row, redis, late, up, l1, id, val, edit, balance, bounds, old, excused>>

(* The connection breaks under a call: its command may have been executed all the
   same, or be executed later. *)
BreaksUnder(r) ==
    /\ up[r[1]] /\ redisFaults < MaxRedisFaults
    /\ redisFaults' = redisFaults + 1
    /\ up' = [up EXCEPT ![r[1]] = FALSE]

LockBreaks(r) ==
    /\ pc[r] = "lock" /\ BreaksUnder(r)
    /\ \/ lock' = [lock EXCEPT ![id[r]] = TRUE] /\ UNCHANGED late
       \/ late' = late \cup {[of |-> id[r], val |-> None]} /\ UNCHANGED lock
    /\ locked' = [locked EXCEPT ![r] = FALSE]
    /\ pc' = [pc EXCEPT ![r] = "again"]
    /\ UNCHANGED <<row, redis, l1, id, val, edit, balance, updates, dbFaults, old, excused>>

BugNilNotCounted(r) ==          \* a bug: the second nil hit returns uncounted
    /\ pc[r] = "again"
    /\ \/ Seen(r) = None /\ At(r, "load") /\ UNCHANGED <<val, balance>>
       \/ Seen(r) = Nil /\ Return(r) /\ UNCHANGED balance
       \/ /\ Seen(r) \in Versions
          /\ At(r, "fill") /\ val' = [val EXCEPT ![r] = Seen(r)] /\ Count(r)
    /\ UNCHANGED <<row, redis, lock, late, up, l1, edit, bounds, old, excused>>

(* After 20 ms somebody else may have rebuilt the entry; if not, load anyway.
   A nil entry does not go to the L1 here. *)
SecondGet(r) ==
    /\ pc[r] = "again"
    /\ \/ Seen(r) = None /\ At(r, "load") /\ UNCHANGED <<val, balance>>
       \/ Seen(r) = Nil /\ Return(r) /\ Count(r)
       \/ /\ Seen(r) \in Versions
          /\ At(r, "fill") /\ val' = [val EXCEPT ![r] = Seen(r)] /\ Count(r)
    /\ UNCHANGED <<row, redis, lock, late, up, l1, edit, bounds, old, excused>>

(* load_problem_from_db returns the empty detail for a missing problem, and also
   when a connection or a query fails. *)
Load(r) ==
    /\ pc[r] = "load"
    /\ \/ /\ val' = [val EXCEPT ![r] = Stored(id[r])]
          /\ UNCHANGED <<dbFaults, old>>
       \/ /\ dbFaults < MaxDbFaults
          /\ dbFaults' = dbFaults + 1
          /\ val' = [val EXCEPT ![r] = Nil]
          /\ old' = old \cup {r}
    /\ At(r, "write") /\ Count(r)
    /\ UNCHANGED <<row, redis, lock, late, up, l1, edit, updates, redisFaults, excused>>

Write(r) ==                     \* write_problem_cache
    /\ pc[r] = "write"
    /\ IF up[r[1]]
       THEN /\ redis'   = [redis EXCEPT ![id[r]] = val[r]]
            /\ excused' = [excused EXCEPT ![id[r]] = r \in old]
       ELSE UNCHANGED <<redis, excused>>
    /\ old' = old \ {r}
    /\ At(r, IF locked[r] THEN "unlock" ELSE "fill") /\ UNCHANGED val
    /\ UNCHANGED <<row, lock, late, up, l1, edit, balance, bounds>>

WriteBreaks(r) ==
    /\ pc[r] = "write" /\ BreaksUnder(r)
    /\ late' = late \cup {[of |-> id[r], val |-> val[r]]}
    /\ old' = old \ {r}
    /\ At(r, IF locked[r] THEN "unlock" ELSE "fill") /\ UNCHANGED val
    /\ UNCHANGED <<row, redis, lock, l1, edit, balance, updates, dbFaults, excused>>

(* redis_del of the lock key, whoever holds it by now. *)
Unlock(r) ==
    /\ pc[r] = "unlock"
    /\ lock' = IF up[r[1]] THEN [lock EXCEPT ![id[r]] = FALSE] ELSE lock
    /\ At(r, "fill") /\ UNCHANGED val
    /\ UNCHANGED <<row, redis, late, up, l1, edit, balance, bounds, old, excused>>

Full(p) == Cardinality({i \in Ids : l1[p][i] # None}) >= L1Cap

BugFillWritesThrough(r) ==      \* a bug: filling the L1 refreshes Redis
    /\ pc[r] = "fill"
    /\ l1' = [l1 EXCEPT ![r[1]][id[r]] = val[r]]
    /\ redis' = IF up[r[1]] THEN [redis EXCEPT ![id[r]] = val[r]] ELSE redis
    /\ Return(r)
    /\ UNCHANGED <<row, lock, late, up, edit, balance, bounds, old, excused>>

(* l1_put: a full map gives up an arbitrary entry first. *)
Fill(r) ==
    LET p == r[1] IN
    /\ pc[r] = "fill"
    /\ IF Full(p)
       THEN \E i \in Ids : /\ l1[p][i] # None
                           /\ l1' = [l1 EXCEPT ![p] = [@ EXCEPT ![i] = None, ![id[r]] = val[r]]]
       ELSE l1' = [l1 EXCEPT ![p][id[r]] = val[r]]
    /\ Return(r)
    /\ UNCHANGED <<row, redis, lock, late, up, edit, balance, bounds, old, excused>>

LoadBypass(r) ==                \* the caches are neither read nor filled
    /\ pc[r] = "bypass"
    /\ Return(r) /\ Count(r)
    /\ UNCHANGED <<row, redis, lock, late, up, l1, edit, bounds, old, excused>>

-----------------------------------------------------------------------------
(* create_problem invalidates nothing: an entry that says the id does not exist
   stays until it expires. *)
Create(i, v) ==
    /\ row[i] = Absent
    /\ row' = [row EXCEPT ![i] = v]
    /\ updates < MaxUpdates /\ updates' = updates + 1
    /\ old' = old \cup {r \in Readers : pc[r] = "write" /\ id[r] = i}
    /\ excused' = [excused EXCEPT ![i] = TRUE]
    /\ UNCHANGED <<redis, lock, late, up, l1, reader, edit, balance, dbFaults, redisFaults>>

BugDelBeforeUpdate(p, i, v) ==  \* a bug: invalidate first, then change the row
    /\ edit[p] = NoEdit
    /\ row[i] # Absent /\ row[i] # v
    /\ row' = [row EXCEPT ![i] = v]
    /\ updates < MaxUpdates /\ updates' = updates + 1
    /\ UNCHANGED <<redis, lock, late, up, l1, reader, edit, balance, dbFaults, redisFaults, old, excused>>

(* update_problem: the UPDATE, then l1_erase, then redis_del.  Only a statement
   that changes the row (mysql_affected_rows) goes on to invalidate. *)
Update(p, i, v) ==
    /\ edit[p] = NoEdit
    /\ row[i] # Absent /\ row[i] # v
    /\ row' = [row EXCEPT ![i] = v]
    /\ updates < MaxUpdates /\ updates' = updates + 1
    /\ edit' = [edit EXCEPT ![p] = [step |-> "erase", of |-> i]]
    /\ old' = old \cup {r \in Readers : pc[r] = "write" /\ id[r] = i}
    /\ UNCHANGED <<redis, lock, late, up, l1, reader, balance, dbFaults, redisFaults, excused>>

EraseL1(p) ==
    /\ edit[p].step = "erase"
    /\ l1' = [l1 EXCEPT ![p][edit[p].of] = None]
    /\ edit' = [edit EXCEPT ![p].step = "del"]
    /\ UNCHANGED <<row, redis, lock, late, up, reader, balance, bounds, old, excused>>

DelRedis(p) ==
    LET i == edit[p].of IN
    /\ edit[p].step = "del"
    /\ IF up[p]
       THEN /\ redis'   = [redis EXCEPT ![i] = None]
            /\ excused' = [excused EXCEPT ![i] = FALSE]
       ELSE /\ excused' = [excused EXCEPT ![i] = TRUE]
            /\ UNCHANGED redis
    /\ edit' = [edit EXCEPT ![p] = NoEdit]
    /\ UNCHANGED <<row, lock, late, up, l1, reader, balance, bounds, old>>

-----------------------------------------------------------------------------
(* Time: the L1 entry (60 s), the Redis entry (30 min, 5 min for nil), the lock
   (5 s).  And Redis: exec gives the connection up at the first error and tries
   again after 5 s. *)
ExpireL1(p, i) ==
    /\ l1[p][i] # None
    /\ l1' = [l1 EXCEPT ![p][i] = None]
    /\ UNCHANGED <<row, redis, lock, late, up, reader, edit, balance, bounds, old, excused>>

ExpireRedis(i) ==
    /\ redis[i] # None
    /\ redis' = [redis EXCEPT ![i] = None]
    /\ excused' = [excused EXCEPT ![i] = FALSE]
    /\ UNCHANGED <<row, lock, late, up, l1, reader, edit, balance, bounds, old>>

ExpireLock(i) ==
    /\ lock[i]
    /\ lock' = [lock EXCEPT ![i] = FALSE]
    /\ UNCHANGED <<row, redis, late, up, l1, reader, edit, balance, bounds, old, excused>>

ExecuteLate(s) ==
    /\ s \in late /\ late' = late \ {s}
    /\ IF s.val = None
       THEN lock' = [lock EXCEPT ![s.of] = TRUE] /\ UNCHANGED <<redis, excused>>
       ELSE /\ redis'   = [redis EXCEPT ![s.of] = s.val]
            /\ excused' = [excused EXCEPT ![s.of] = TRUE]
            /\ UNCHANGED lock
    /\ UNCHANGED <<row, up, l1, reader, edit, balance, bounds, old>>

LoseRedis(p) ==
    /\ up[p] /\ redisFaults < MaxRedisFaults
    /\ redisFaults' = redisFaults + 1
    /\ up' = [up EXCEPT ![p] = FALSE]
    /\ UNCHANGED <<row, redis, lock, late, l1, reader, edit, balance, updates, dbFaults, old, excused>>

Reconnect(p) ==
    /\ ~up[p]
    /\ up' = [up EXCEPT ![p] = TRUE]
    /\ UNCHANGED <<row, redis, lock, late, l1, reader, edit, balance, bounds, old, excused>>

-----------------------------------------------------------------------------
Read(r) ==
    \/ FirstGet(r) \/ TryLock(r) \/ LockBreaks(r) \/ SecondGet(r) \/ Load(r)
    \/ Write(r) \/ WriteBreaks(r) \/ Unlock(r) \/ Fill(r) \/ LoadBypass(r)

Next ==
    \/ \E r \in Readers : Read(r) \/ \E i \in Ids : Begin(r, i) \/ BeginBypass(r, i)
    \/ \E i \in Ids : \/ \E v \in Versions \cup {Hidden} : Create(i, v)
                      \/ ExpireRedis(i) \/ ExpireLock(i)
    \/ \E p \in Admins : \/ EraseL1(p) \/ DelRedis(p)
                         \/ \E i \in Ids, v \in Versions \cup {Hidden} : Update(p, i, v)
    \/ \E p \in Procs : \/ LoseRedis(p) \/ Reconnect(p)
                        \/ \E i \in Ids : ExpireL1(p, i)
    \/ \E s \in Sets : ExecuteLate(s)

Spec == Init /\ [][Next]_vars

(* A call that has begun runs to its end, and time passes; nobody has to read,
   to change a problem or to reconnect. *)
Fairness ==
    /\ \A r \in Readers : WF_vars(Read(r))
    /\ \A p \in Admins : WF_vars(EraseL1(p) \/ DelRedis(p))
    /\ \A i \in Ids : WF_vars(ExpireRedis(i)) /\ \A p \in Procs : WF_vars(ExpireL1(p, i))

FairSpec == Spec /\ Fairness

-----------------------------------------------------------------------------
(* Every stale entry in Redis has one of five excuses: an update is between its
   UPDATE and its DEL, its DEL could not reach Redis, a reader wrote what it had
   loaded before the change (or an empty detail after a failed load), a write
   that had failed was executed late, or the id was created after it had been
   cached as missing.  In particular the order
   UPDATE, then DEL leaves no window of its own. *)
StaleOnlyIfExcused ==
    \A i \in Ids :
       redis[i] \notin {None, Stored(i)} =>
          excused[i] \/ \E p \in Admins : edit[p].of = i

(* Whatever raced and whatever failed, once nobody changes problems any more all
   caches agree with the database, and stay so: stale values do not travel from
   the L1 back to Redis, or from one process to another for ever. *)
EventuallyFresh ==
    <>[](\A i \in Ids :
           /\ redis[i] \in {None, Stored(i)}
           /\ \A p \in Procs : l1[p][i] \in {None, Stored(i)})

(* module.h: what is cached as missing does not exist (or is not visible). *)
NilMeansMissing ==
    \A i \in Ids : redis[i] = Nil => Stored(i) = Nil
=============================================================================
