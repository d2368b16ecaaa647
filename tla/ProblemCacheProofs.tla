-------------------------- MODULE ProblemCacheProofs --------------------------
(***************************************************************************)
(* What may be stale in Redis, and why: for any processes, threads,        *)
(* problems and contents, and however often problems change and loads fail.*)
(* And the types, with what problem_cache_stats counts and the L1's size.  *)
(***************************************************************************)
EXTENDS ProblemCache, FiniteSetTheorems, TLAPS

(* The part of TypeOK the argument needs. *)
CacheTypes ==
    /\ row     \in [Ids -> Versions \cup {Absent, Hidden}]
    /\ redis   \in [Ids -> Details \cup {None}]
    /\ id      \in [Readers -> Ids \cup {None}]
    /\ pc      \in [Readers -> Steps]
    /\ val     \in [Readers -> Details \cup {None}]
    /\ edit    \in [Admins -> [step : {"idle", "erase", "del"}, of : Ids \cup {None}]]
    /\ excused \in [Ids -> BOOLEAN]
    /\ \A r \in Readers : pc[r] # "idle" => id[r] \in Ids
    /\ \A p \in Admins : edit[p].step # "idle" => edit[p].of \in Ids

(* What a reader is about to write is the row, unless the row has changed since
   it was loaded, or the load failed: then the reader is in old. *)
LoadedIsCurrent ==
    \A r \in Readers : pc[r] = "write" /\ r \notin old => val[r] = Stored(id[r])

CacheInv == CacheTypes /\ LoadedIsCurrent /\ StaleOnlyIfExcused

-----------------------------------------------------------------------------
(* The types a reader's step keeps, put once: it moves only its own locals. *)
LEMMA ReaderTypes ==
    ASSUME CacheTypes, NEW r \in Readers, NEW step \in Steps, NEW i \in Ids \cup {None},
           NEW v \in Details \cup {None}, step # "idle" => i \in Ids,
           pc' = [pc EXCEPT ![r] = step], id' = [id EXCEPT ![r] = i],
           val' = [val EXCEPT ![r] = v], UNCHANGED <<row, edit>>,
           redis' \in [Ids -> Details \cup {None}], excused' \in [Ids -> BOOLEAN]
    PROVE  CacheTypes'
  BY DEF CacheTypes

(* Every action keeps the types. *)
LEMMA TypesStep ==
    ASSUME CacheTypes, [Next]_vars
    PROVE  CacheTypes'
  <1>a. /\ redis \in [Ids -> Details \cup {None}] /\ excused \in [Ids -> BOOLEAN]
        /\ row \in [Ids -> Versions \cup {Absent, Hidden}]
        /\ pc \in [Readers -> Steps] /\ id \in [Readers -> Ids \cup {None}]
        /\ val \in [Readers -> Details \cup {None}]
        /\ \A r \in Readers : pc[r] # "idle" => id[r] \in Ids
        /\ Nil \in Details /\ Versions \subseteq Details
    BY DEF CacheTypes, Details
  <1>b. \A i \in Ids : Stored(i) \in Details
    BY DEF Stored, Details
  <1>1. ASSUME NEW r \in Readers, NEW i \in Ids, Begin(r, i) \/ BeginBypass(r, i) PROVE CacheTypes'
    <2>1. CASE UNCHANGED reader
      BY <1>1, <2>1 DEF Begin, BeginBypass, reader, CacheTypes
    <2>2. CASE /\ pc' = [pc EXCEPT ![r] = "redis"] \/ pc' = [pc EXCEPT ![r] = "bypass"]
               /\ id' = [id EXCEPT ![r] = i] /\ UNCHANGED <<val, row, edit, redis, excused>>
      BY <2>2 DEF CacheTypes, Steps
    <2> QED BY <1>1, <2>1, <2>2 DEF Begin, BeginBypass
  <1>2. ASSUME NEW r \in Readers, Read(r) PROVE CacheTypes'
    <2>1. id[r] \in Ids /\ UNCHANGED <<row, edit>>
      BY <1>a, <1>2 DEF Read, FirstGet, TryLock, LockBreaks, SecondGet, Load, Write, WriteBreaks,
         Unlock, Fill, LoadBypass
    <2>2. redis' \in [Ids -> Details \cup {None}] /\ excused' \in [Ids -> BOOLEAN]
      <3>1. CASE /\ redis' = [redis EXCEPT ![id[r]] = val[r]]
                 /\ excused' = [excused EXCEPT ![id[r]] = r \in old]
        <4>1. (r \in old) \in BOOLEAN
          OBVIOUS
        <4> QED BY <1>a, <2>1, <3>1, <4>1
      <3>2. CASE UNCHANGED <<redis, excused>>
        BY <1>a, <3>2
      <3> QED BY <1>2, <3>1, <3>2
              DEF Read, FirstGet, TryLock, LockBreaks, SecondGet, Load, Write, WriteBreaks,
         Unlock, Fill, LoadBypass
    <2>3. \E v \in Details \cup {None} : val' = [val EXCEPT ![r] = v]
      BY <1>a, <1>b, <1>2, <2>1
         DEF Read, FirstGet, TryLock, LockBreaks, SecondGet, Load, Write, WriteBreaks,
         Unlock, Fill, LoadBypass, Return, Seen
    <2>4. \E step \in Steps, i \in Ids \cup {None} :
             /\ step # "idle" => i \in Ids
             /\ pc' = [pc EXCEPT ![r] = step] /\ id' = [id EXCEPT ![r] = i]
      BY <1>a, <1>2, <2>1
         DEF Read, FirstGet, TryLock, LockBreaks, SecondGet, Load, Write, WriteBreaks,
         Unlock, Fill, LoadBypass, Return, At, Steps
    <2> QED BY <2>1, <2>2, <2>3, <2>4, ReaderTypes
  <1>3. ASSUME NEW i \in Ids, NEW v \in Versions \cup {Hidden}, Create(i, v) PROVE CacheTypes'
    BY <1>3 DEF Create, CacheTypes, reader
  <1>4. ASSUME NEW i \in Ids, ExpireRedis(i) \/ ExpireLock(i) PROVE CacheTypes'
    BY <1>4 DEF ExpireRedis, ExpireLock, CacheTypes, reader
  <1>5. ASSUME NEW p \in Admins, NEW i \in Ids, NEW v \in Versions \cup {Hidden}, Update(p, i, v)
        PROVE  CacheTypes'
    BY <1>5 DEF Update, CacheTypes, reader
  <1>6. ASSUME NEW p \in Admins, EraseL1(p) PROVE CacheTypes'
    BY <1>6 DEF EraseL1, CacheTypes, reader
  <1>7. ASSUME NEW p \in Admins, DelRedis(p) PROVE CacheTypes'
    BY <1>7 DEF DelRedis, CacheTypes, reader, NoEdit
  <1>8. ASSUME NEW p \in Procs, LoseRedis(p) \/ Reconnect(p) \/ \E i \in Ids : ExpireL1(p, i)
        PROVE  CacheTypes'
    BY <1>8 DEF LoseRedis, Reconnect, ExpireL1, CacheTypes, reader
  <1>9. CASE UNCHANGED vars
    BY <1>9 DEF vars, reader, CacheTypes
  <1>10. ASSUME NEW s \in Sets, ExecuteLate(s) PROVE CacheTypes'
    BY <1>10 DEF ExecuteLate, Sets, CacheTypes, reader
  <1> QED BY <1>1, <1>2, <1>3, <1>4, <1>5, <1>6, <1>7, <1>8, <1>9, <1>10 DEF Next

-----------------------------------------------------------------------------
(* What a reader has loaded stays current, or the reader is noted in old. *)
LEMMA LoadedStep ==
    ASSUME CacheInv, Next
    PROVE  LoadedIsCurrent'
  <1>a. /\ pc \in [Readers -> Steps] /\ id \in [Readers -> Ids \cup {None}]
        /\ val \in [Readers -> Details \cup {None}] /\ row \in [Ids -> Versions \cup {Absent, Hidden}]
        /\ \A r \in Readers : pc[r] # "idle" => id[r] \in Ids
        /\ LoadedIsCurrent
    BY DEF CacheInv, CacheTypes
  <1>1. ASSUME UNCHANGED row, NEW r \in Readers, pc'[r] # "write",
               \A q \in Readers \ {r} : /\ pc'[q] = pc[q] /\ id'[q] = id[q] /\ val'[q] = val[q]
                                        /\ q \in old => q \in old'
        PROVE  LoadedIsCurrent'
    <2>1. ASSUME NEW q \in Readers, pc'[q] = "write", q \notin old' PROVE (val[q] = Stored(id[q]))'
      <3>1. q # r
        BY <1>1, <2>1
      <3>2. pc'[q] = pc[q] /\ id'[q] = id[q] /\ val'[q] = val[q] /\ q \notin old
        BY <1>1, <2>1, <3>1
      <3>3. val[q] = Stored(id[q])
        BY <1>a, <2>1, <3>2 DEF LoadedIsCurrent
      <3>4. (Stored(id[q]))' = Stored(id[q])
        BY <1>1, <3>2 DEF Stored
      <3> QED BY <3>2, <3>3, <3>4
    <2> QED BY <2>1 DEF LoadedIsCurrent
  <1>2. ASSUME UNCHANGED <<row, reader, old>> PROVE LoadedIsCurrent'
    BY <1>a, <1>2 DEF LoadedIsCurrent, Stored, reader
  <1>3. ASSUME NEW r \in Readers, NEW i \in Ids, Begin(r, i) \/ BeginBypass(r, i)
        PROVE  LoadedIsCurrent'
    <2>1. CASE UNCHANGED reader
      BY <1>2, <1>3, <2>1 DEF Begin, BeginBypass
    <2>2. CASE pc' = [pc EXCEPT ![r] = "redis"] \/ pc' = [pc EXCEPT ![r] = "bypass"]
      BY <1>a, <1>1, <1>3, <2>2 DEF Begin, BeginBypass, reader
    <2> QED BY <1>3, <2>1, <2>2 DEF Begin, BeginBypass
  <1>4. ASSUME NEW r \in Readers, Load(r) PROVE LoadedIsCurrent'
    <2>1. /\ pc[r] = "load" /\ pc' = [pc EXCEPT ![r] = "write"] /\ UNCHANGED <<id, row>>
          /\ \/ val' = [val EXCEPT ![r] = Stored(id[r])] /\ old' = old
             \/ val' = [val EXCEPT ![r] = Nil] /\ old' = old \cup {r}
      BY <1>4 DEF Load, At
    <2> QED BY <1>a, <2>1 DEF LoadedIsCurrent, Stored
  <1>5. ASSUME NEW r \in Readers, Write(r) \/ WriteBreaks(r) PROVE LoadedIsCurrent'
    <2>1. /\ \E step \in {"unlock", "fill"} : pc' = [pc EXCEPT ![r] = step]
          /\ UNCHANGED <<id, val, row>> /\ old' = old \ {r}
      BY <1>5 DEF Write, WriteBreaks, At
    <2> QED BY <1>a, <2>1 DEF LoadedIsCurrent, Stored
  <1>6. ASSUME NEW r \in Readers,
               \/ FirstGet(r) \/ TryLock(r) \/ LockBreaks(r) \/ SecondGet(r)
               \/ Unlock(r) \/ Fill(r) \/ LoadBypass(r)
        PROVE  LoadedIsCurrent'
    <2>1. /\ UNCHANGED <<row, old>> /\ pc'[r] # "write"
          /\ \A q \in Readers \ {r} : pc'[q] = pc[q] /\ id'[q] = id[q] /\ val'[q] = val[q]
      BY <1>a, <1>6 DEF FirstGet, TryLock, LockBreaks, SecondGet, Unlock, Fill, LoadBypass, At, Return
    <2> QED BY <1>1, <2>1
  <1>7. ASSUME NEW i \in Ids, NEW v \in Versions \cup {Hidden},
               Create(i, v) \/ \E p \in Admins : Update(p, i, v)
        PROVE  LoadedIsCurrent'
    <2>1. /\ row' = [row EXCEPT ![i] = v] /\ UNCHANGED <<pc, id, val>>
          /\ old' = old \cup {r \in Readers : pc[r] = "write" /\ id[r] = i}
      BY <1>7 DEF Create, Update, reader
    <2> QED BY <1>a, <2>1 DEF LoadedIsCurrent, Stored
  <1>8. ASSUME NEW i \in Ids, \/ ExpireRedis(i) \/ ExpireLock(i) \/ \E p \in Procs : ExpireL1(p, i)
        PROVE  LoadedIsCurrent'
    BY <1>2, <1>8 DEF ExpireRedis, ExpireLock, ExpireL1
  <1>9. ASSUME NEW p \in Procs,
               (p \in Admins /\ (EraseL1(p) \/ DelRedis(p))) \/ LoseRedis(p) \/ Reconnect(p)
        PROVE  LoadedIsCurrent'
    BY <1>2, <1>9 DEF EraseL1, DelRedis, LoseRedis, Reconnect
  <1>10. ASSUME NEW s \in Sets, ExecuteLate(s) PROVE LoadedIsCurrent'
    BY <1>2, <1>10 DEF ExecuteLate
  <1> QED BY AdminsAssumption, <1>3, <1>4, <1>5, <1>6, <1>7, <1>8, <1>9, <1>10 DEF Next, Read

(* A stale entry keeps its excuse, and no step makes one without. *)
LEMMA ExcuseStep ==
    ASSUME CacheInv, Next
    PROVE  StaleOnlyIfExcused'
  <1> DEFINE Fine(i) == redis[i] \notin {None, Stored(i)} =>
                          excused[i] \/ \E p \in Admins : edit[p].of = i
  <1>a. /\ redis \in [Ids -> Details \cup {None}] /\ excused \in [Ids -> BOOLEAN]
        /\ row \in [Ids -> Versions \cup {Absent, Hidden}]
        /\ edit \in [Admins -> [step : {"idle", "erase", "del"}, of : Ids \cup {None}]]
        /\ \A r \in Readers : pc[r] # "idle" => id[r] \in Ids
        /\ \A p \in Admins : edit[p].step # "idle" => edit[p].of \in Ids
        /\ LoadedIsCurrent /\ \A i \in Ids : Fine(i)
    BY DEF CacheInv, CacheTypes, StaleOnlyIfExcused
  <1>b. SUFFICES ASSUME NEW j \in Ids PROVE Fine(j)'
    BY DEF StaleOnlyIfExcused
  <1>1. ASSUME UNCHANGED <<row, redis, excused>>, \A p \in Admins : edit'[p].of = edit[p].of
        PROVE  Fine(j)'
    BY <1>a, <1>1 DEF Stored
  <1>2. ASSUME NEW r \in Readers, Write(r) PROVE Fine(j)'
    <2>1. pc[r] = "write" /\ id[r] \in Ids /\ UNCHANGED <<row, edit>>
      BY <1>a, <1>2 DEF Write
    <2>2. CASE UNCHANGED <<redis, excused>>
      BY <1>1, <2>1, <2>2
    <2>3. CASE /\ redis' = [redis EXCEPT ![id[r]] = val[r]]
               /\ excused' = [excused EXCEPT ![id[r]] = r \in old]
      <3>1. CASE j # id[r]
        BY <1>a, <2>1, <2>3, <3>1 DEF Stored
      <3>2. CASE j = id[r] /\ r \in old
        BY <1>a, <2>1, <2>3, <3>2
      <3>3. CASE j = id[r] /\ r \notin old
        <4>1. val[r] = Stored(j)
          BY <1>a, <2>1, <3>3 DEF LoadedIsCurrent
        <4> QED BY <1>a, <2>1, <2>3, <3>3, <4>1 DEF Stored
      <3> QED BY <3>1, <3>2, <3>3
    <2> QED BY <1>2, <2>2, <2>3 DEF Write
  <1>3. ASSUME NEW r \in Readers,
               \/ FirstGet(r) \/ TryLock(r) \/ LockBreaks(r) \/ SecondGet(r) \/ Load(r)
               \/ WriteBreaks(r) \/ Unlock(r) \/ Fill(r) \/ LoadBypass(r) \/ \E i \in Ids : Begin(r, i) \/ BeginBypass(r, i)
        PROVE  Fine(j)'
    BY <1>1, <1>3 DEF FirstGet, TryLock, LockBreaks, SecondGet, Load, WriteBreaks, Unlock, Fill,
                      LoadBypass, Begin, BeginBypass
  <1>4. ASSUME NEW i \in Ids, NEW v \in Versions \cup {Hidden}, Create(i, v) PROVE Fine(j)'
    BY <1>a, <1>4 DEF Create, Stored
  <1>5. ASSUME NEW p \in Admins, NEW i \in Ids, NEW v \in Versions \cup {Hidden}, Update(p, i, v)
        PROVE  Fine(j)'
    <2>1. /\ row' = [row EXCEPT ![i] = v] /\ UNCHANGED <<redis, excused>>
          /\ edit' = [edit EXCEPT ![p] = [step |-> "erase", of |-> i]] /\ edit[p] = NoEdit
      BY <1>5 DEF Update
    <2>2. CASE j = i
      BY <1>a, <2>1, <2>2
    <2>3. CASE j # i
      <3>1. \A q \in Admins : edit[q].of = j => edit'[q].of = j \/ q = p
        BY <1>a, <2>1
      <3>2. redis'[j] = redis[j] /\ excused'[j] = excused[j] /\ Stored(j)' = Stored(j)
        BY <1>a, <2>1, <2>3 DEF Stored
      <3> QED BY DistinctAssumption, <1>a, <2>1, <2>3, <3>1, <3>2 DEF NoEdit
    <2> QED BY <2>2, <2>3
  <1>6. ASSUME NEW p \in Admins, EraseL1(p) PROVE Fine(j)'
    BY <1>a, <1>1, <1>6 DEF EraseL1
  <1>7. ASSUME NEW p \in Admins, DelRedis(p) PROVE Fine(j)'
    <2> DEFINE i == edit[p].of
    <2>1. /\ i \in Ids /\ row' = row /\ edit' = [edit EXCEPT ![p] = NoEdit]
          /\ \/ redis' = [redis EXCEPT ![i] = None] /\ excused' = [excused EXCEPT ![i] = FALSE]
             \/ redis' = redis /\ excused' = [excused EXCEPT ![i] = TRUE]
      BY <1>a, <1>7 DEF DelRedis
    <2> HIDE DEF i
    <2>2. CASE j = i
      BY <1>a, <2>1, <2>2
    <2>3. CASE j # i
      <3>1. \A q \in Admins : edit[q].of = j => edit'[q].of = j
        BY <1>a, <2>1, <2>3 DEF i
      <3>2. redis'[j] = redis[j] /\ excused'[j] = excused[j] /\ Stored(j)' = Stored(j)
        BY <1>a, <2>1, <2>3 DEF Stored
      <3> QED BY <1>a, <3>1, <3>2
    <2> QED BY <2>2, <2>3
  <1>8. ASSUME NEW i \in Ids, ExpireRedis(i) PROVE Fine(j)'
    BY <1>a, <1>8 DEF ExpireRedis, Stored
  <1>9. ASSUME NEW i \in Ids, ExpireLock(i) \/ \E p \in Procs : ExpireL1(p, i) PROVE Fine(j)'
    BY <1>1, <1>9 DEF ExpireLock, ExpireL1
  <1>10. ASSUME NEW p \in Procs, LoseRedis(p) \/ Reconnect(p) PROVE Fine(j)'
    BY <1>1, <1>10 DEF LoseRedis, Reconnect
  <1>11. ASSUME NEW s \in Sets, ExecuteLate(s) PROVE Fine(j)'
    <2>1. CASE s.val = None
      BY <1>1, <1>11, <2>1 DEF ExecuteLate
    <2>2. CASE s.val # None
      BY <1>a, <1>11, <2>2 DEF ExecuteLate, Sets, Stored
    <2> QED BY <2>1, <2>2
  <1> HIDE DEF Fine
  <1> QED BY <1>2, <1>3, <1>4, <1>5, <1>6, <1>7, <1>8, <1>9, <1>10, <1>11 DEF Next, Read

(* For any processes, threads and problems, and any faults: what get_problem
   leaves in Redis differs from the row only while an update is between its
   UPDATE and its DEL, or for a reason that was noted when it happened. *)
THEOREM StaleHasAReason == Spec => []StaleOnlyIfExcused
  <1>1. Init => CacheInv
    BY DistinctAssumption
       DEF Init, CacheInv, CacheTypes, LoadedIsCurrent, StaleOnlyIfExcused, Details, Steps, NoEdit
  <1>2. CacheInv /\ [Next]_vars => CacheInv'
    <2>1. CASE Next
      BY <2>1, TypesStep, LoadedStep, ExcuseStep DEF CacheInv
    <2>2. CASE UNCHANGED vars
      BY <2>2 DEF vars, reader, CacheInv, CacheTypes, LoadedIsCurrent, StaleOnlyIfExcused, Stored
    <2> QED BY <2>1, <2>2
  <1>3. CacheInv => StaleOnlyIfExcused
    BY DEF CacheInv
  <1> QED BY <1>1, <1>2, <1>3, PTL DEF Spec

-----------------------------------------------------------------------------
(* What CacheTypes leaves out of TypeOK, beside the two counts. *)
PlainTypes ==
    /\ lock \in [Ids -> BOOLEAN] /\ late \subseteq Sets
    /\ up \in [Procs -> BOOLEAN] /\ locked \in [Readers -> BOOLEAN]
    /\ l1 \in [Procs -> [Ids -> Details \cup {None}]]
    /\ balance \in [Procs -> Int]
    /\ updates \in 0..MaxUpdates /\ dbFaults \in 0..MaxDbFaults
    /\ redisFaults \in 0..MaxRedisFaults
    /\ old \subseteq Readers

(* The calls of process p that problem_cache_stats has in its total only. *)
Early    == {"redis", "lock", "again", "load", "bypass"}
Ahead(p) == {r \in Readers : r[1] = p /\ pc[r] \in Early}

(* What process p has in its L1. *)
Cached(p) == {i \in Ids : l1[p][i] # None}

L1Fits == \A p \in Procs : Cardinality(Cached(p)) <= L1Cap

CountsInv == CacheTypes /\ PlainTypes /\ StatsAddUp /\ L1Fits

LEMMA AheadIsFinite == \A p \in Procs : IsFiniteSet(Ahead(p)) /\ IsFiniteSet(Ahead(p)')
  <1> TAKE p \in Procs
  <1>1. IsFiniteSet({p} \X Slots)
    BY FiniteAssumption, FS_Singleton, FS_Product
  <1>2. Ahead(p) \in SUBSET ({p} \X Slots) /\ Ahead(p)' \in SUBSET ({p} \X Slots)
    BY DEF Ahead, Readers
  <1> QED BY <1>1, <1>2, FS_Subset

(* Reader r's step goes to step; it adds d to the balance of its process; and d
   is the number of early calls it adds. *)
Goes(r, step) == pc' = [pc EXCEPT ![r] = step]
Adds(r, d) == balance' = [balance EXCEPT ![r[1]] = @ + d]
Turns(r, step, d) ==
    /\ step \in Early /\ pc[r] \in Early => d = 0
    /\ step \in Early /\ pc[r] \notin Early => d = 1
    /\ step \notin Early /\ pc[r] \in Early => d = -1
    /\ step \notin Early /\ pc[r] \notin Early => d = 0

(* A reader's step keeps the sum if it counts the call when it stops being early
   and takes it into the total when it begins. *)
LEMMA StatsStep ==
    ASSUME CountsInv, NEW r \in Readers, NEW step \in Steps, Goes(r, step),
           NEW d \in Int, Adds(r, d), Turns(r, step, d)
    PROVE  StatsAddUp' /\ balance' \in [Procs -> Int]
  <1>1. /\ r[1] \in Procs /\ pc \in [Readers -> Steps] /\ balance \in [Procs -> Int]
        /\ \A p \in Procs : balance[p] = Cardinality(Ahead(p))
    BY DEF CountsInv, CacheTypes, PlainTypes, StatsAddUp, Ahead, Early, Readers
  <1>2. balance' \in [Procs -> Int] /\ balance'[r[1]] = balance[r[1]] + d
        /\ \A p \in Procs \ {r[1]} : balance'[p] = balance[p]
    BY <1>1 DEF Adds
  <1>3. \A p \in Procs \ {r[1]} : Ahead(p)' = Ahead(p) /\ balance'[p] = balance[p]
    BY <1>1, <1>2 DEF Ahead, Goes
  <1>4. balance'[r[1]] = Cardinality(Ahead(r[1])')
    <2> DEFINE A == Ahead(r[1])
               B == Ahead(r[1])'
    <2>1. A \ {r} = B \ {r} /\ (r \in A <=> pc[r] \in Early) /\ (r \in B <=> step \in Early)
      BY <1>1 DEF Ahead, Goes
    <2>2. IsFiniteSet(A) /\ IsFiniteSet(B) /\ balance'[r[1]] = Cardinality(A) + d
      BY <1>1, <1>2, AheadIsFinite
    <2> HIDE DEF A, B
    <2>3. /\ Cardinality(A \ {r}) = IF r \in A THEN Cardinality(A) - 1 ELSE Cardinality(A)
          /\ Cardinality(B \ {r}) = IF r \in B THEN Cardinality(B) - 1 ELSE Cardinality(B)
          /\ Cardinality(A) \in Nat /\ Cardinality(B) \in Nat
      BY <2>2, FS_RemoveElement, FS_CardinalityType
    <2>4. Cardinality(A \ {r}) = Cardinality(B \ {r})
      BY <2>1
    <2> DEFINE a == Cardinality(A)
               b == Cardinality(B)
               c == Cardinality(A \ {r})
    <2>5. /\ a \in Nat /\ b \in Nat /\ balance'[r[1]] = a + d
          /\ c = (IF r \in A THEN a - 1 ELSE a) /\ c = (IF r \in B THEN b - 1 ELSE b)
      BY <2>2, <2>3, <2>4
    <2> HIDE DEF a, b, c
    <2>6. CASE r \in A /\ r \in B
      <3>1. d = 0 /\ c = a - 1 /\ c = b - 1
        BY <2>1, <2>5, <2>6 DEF Turns
      <3>2. balance'[r[1]] = b
        BY <2>5, <3>1
      <3> QED BY <3>2 DEF b, B
    <2>7. CASE r \in A /\ r \notin B
      <3>1. d = -1 /\ c = a - 1 /\ c = b
        BY <2>1, <2>5, <2>7 DEF Turns
      <3>2. balance'[r[1]] = b
        BY <2>5, <3>1
      <3> QED BY <3>2 DEF b, B
    <2>8. CASE r \notin A /\ r \in B
      <3>1. d = 1 /\ c = a /\ c = b - 1
        BY <2>1, <2>5, <2>8 DEF Turns
      <3>2. balance'[r[1]] = b
        BY <2>5, <3>1
      <3> QED BY <3>2 DEF b, B
    <2>9. CASE r \notin A /\ r \notin B
      <3>1. d = 0 /\ c = a /\ c = b
        BY <2>1, <2>5, <2>9 DEF Turns
      <3>2. balance'[r[1]] = b
        BY <2>5, <3>1
      <3> QED BY <3>2 DEF b, B
    <2> QED BY <2>6, <2>7, <2>8, <2>9
  <1>5. \A p \in Procs : balance'[p] = Cardinality(Ahead(p)')
    BY <1>1, <1>3, <1>4
  <1> QED BY <1>2, <1>5 DEF StatsAddUp, Ahead, Early

(* The L1 fits if each entry that is new has room, or the place of another. *)
LEMMA L1Step ==
    ASSUME CountsInv, NEW p \in Procs, NEW S \in SUBSET Cached(p), NEW i \in Ids,
           Cardinality(S) < L1Cap, Cached(p)' \subseteq S \cup {i},
           \A q \in Procs \ {p} : l1'[q] = l1[q]
    PROVE  L1Fits'
  <1>1. IsFiniteSet(S) /\ S \cup {i} \in SUBSET Ids
    <2>1. S \in SUBSET Ids
      BY DEF Cached
    <2> QED BY <2>1, FiniteAssumption, FS_Subset
  <1>2. IsFiniteSet(S \cup {i}) /\ Cardinality(S \cup {i}) <= Cardinality(S) + 1 /\ Cardinality(S) \in Nat
    <2>1. IsFiniteSet(S \cup {i}) /\ Cardinality(S) \in Nat
          /\ Cardinality(S \cup {i}) = IF i \in S THEN Cardinality(S) ELSE Cardinality(S) + 1
      BY <1>1, FS_AddElement, FS_CardinalityType
    <2> QED BY <2>1
  <1>3. Cardinality(Cached(p)') <= Cardinality(S \cup {i}) /\ Cardinality(Cached(p)') \in Nat
    BY <1>2, FS_Subset, FS_CardinalityType
  <1>4. Cardinality(Cached(p)') <= L1Cap
    BY <1>2, <1>3, CapAssumption, FS_CardinalityType
  <1>5. \A q \in Procs \ {p} : Cached(q)' = Cached(q)
    BY DEF Cached
  <1> QED BY <1>4, <1>5 DEF L1Fits, CountsInv

(* An entry that leaves leaves room. *)
LEMMA L1Shrinks ==
    ASSUME CountsInv, \A p \in Procs : Cached(p)' \subseteq Cached(p)
    PROVE  L1Fits'
  <1> SUFFICES ASSUME NEW p \in Procs PROVE Cardinality(Cached(p)') <= L1Cap
    BY DEF L1Fits
  <1>1. IsFiniteSet(Cached(p)) /\ Cardinality(Cached(p)) <= L1Cap
    <2>1. Cached(p) \in SUBSET Ids
      BY DEF Cached
    <2> QED BY <2>1, FiniteAssumption, FS_Subset DEF CountsInv, L1Fits
  <1>2. Cardinality(Cached(p)') <= Cardinality(Cached(p)) /\ Cardinality(Cached(p)') \in Nat
        /\ Cardinality(Cached(p)) \in Nat
    BY <1>1, FS_Subset, FS_CardinalityType
  <1> QED BY <1>1, <1>2, CapAssumption

(* l1_put. *)
LEMMA FillFits ==
    ASSUME CountsInv, NEW r \in Readers, Fill(r)
    PROVE  L1Fits' /\ l1' \in [Procs -> [Ids -> Details \cup {None}]]
  <1> DEFINE p == r[1]
  <1>1. /\ p \in Procs /\ id[r] \in Ids /\ val[r] \in Details \cup {None}
        /\ l1 \in [Procs -> [Ids -> Details \cup {None}]] /\ None \in Details \cup {None}
    BY DEF CountsInv, CacheTypes, PlainTypes, Fill, Readers
  <1> HIDE DEF p
  <1>2. IsFiniteSet(Cached(p)) /\ Cardinality(Cached(p)) <= L1Cap /\ Cardinality(Cached(p)) \in Nat
    <2>1. Cached(p) \in SUBSET Ids
      BY DEF Cached
    <2> QED BY <1>1, <2>1, FiniteAssumption, FS_Subset, FS_CardinalityType DEF CountsInv, L1Fits
  <1>3. CASE Full(p)
    <2>1. PICK i \in Ids : /\ l1[p][i] # None
                           /\ l1' = [l1 EXCEPT ![p] = [@ EXCEPT ![i] = None, ![id[r]] = val[r]]]
      BY <1>3 DEF Fill, p
    <2>2. Cardinality(Cached(p) \ {i}) < L1Cap
      <3>1. i \in Cached(p)
        BY <2>1 DEF Cached
      <3>2. Cardinality(Cached(p) \ {i}) = Cardinality(Cached(p)) - 1
        BY <1>2, <3>1, FS_RemoveElement
      <3> QED BY <1>2, <3>2, CapAssumption
    <2> DEFINE e == [l1[p] EXCEPT ![i] = None]
               f == [e EXCEPT ![id[r]] = val[r]]
    <2>3. e \in [Ids -> Details \cup {None}] /\ e[i] = None /\ \A j \in Ids \ {i} : e[j] = l1[p][j]
      BY <1>1
    <2> HIDE DEF e
    <2>4. f \in [Ids -> Details \cup {None}] /\ \A j \in Ids \ {id[r]} : f[j] = e[j]
      BY <1>1, <2>3
    <2>5. l1' = [l1 EXCEPT ![p] = f]
      BY <2>1 DEF e
    <2> HIDE DEF f
    <2>6. /\ l1' \in [Procs -> [Ids -> Details \cup {None}]] /\ l1'[p] = f
          /\ \A q \in Procs \ {p} : l1'[q] = l1[q]
      BY <1>1, <2>4, <2>5
    <2>7. Cached(p)' \subseteq (Cached(p) \ {i}) \cup {id[r]}
      BY <2>3, <2>4, <2>6 DEF Cached
    <2> QED BY <1>1, <2>2, <2>6, <2>7, L1Step
  <1>4. CASE ~Full(p)
    <2>1. l1' = [l1 EXCEPT ![p][id[r]] = val[r]]
      BY <1>4 DEF Fill, p
    <2>2. Cardinality(Cached(p)) < L1Cap
      BY <1>2, <1>4, CapAssumption DEF Full, Cached
    <2>3. /\ l1' \in [Procs -> [Ids -> Details \cup {None}]]
          /\ \A j \in Ids \ {id[r]} : l1'[p][j] = l1[p][j]
          /\ \A q \in Procs \ {p} : l1'[q] = l1[q]
      BY <1>1, <2>1
    <2>4. Cached(p)' \subseteq Cached(p) \cup {id[r]}
      BY <2>3 DEF Cached
    <2> QED BY <1>1, <2>2, <2>3, <2>4, L1Step
  <1> QED BY <1>3, <1>4

-----------------------------------------------------------------------------
(* A step that leaves pc and balance alone keeps the sum. *)
LEMMA StatsUntouched ==
    ASSUME CountsInv, UNCHANGED <<pc, balance>>
    PROVE  StatsAddUp' /\ balance' \in [Procs -> Int]
  BY DEF CountsInv, PlainTypes, StatsAddUp

(* Every action keeps the statistics in order. *)
LEMMA StatsKept ==
    ASSUME CountsInv, Next
    PROVE  StatsAddUp' /\ balance' \in [Procs -> Int]
  <1> DEFINE Good == StatsAddUp' /\ balance' \in [Procs -> Int]
  <1>a. /\ pc \in [Readers -> Steps] /\ balance \in [Procs -> Int]
        /\ \A r \in Readers : r[1] \in Procs
    BY DEF CountsInv, CacheTypes, PlainTypes, Readers
  <1>b. ASSUME NEW r \in Readers, balance' = balance PROVE Adds(r, 0)
    BY <1>a, <1>b DEF Adds
  <1>c. ASSUME NEW r \in Readers, Count(r) PROVE Adds(r, -1)
    <2>1. balance[r[1]] - 1 = balance[r[1]] + (-1)
      BY <1>a
    <2> QED BY <1>c, <2>1 DEF Adds, Count
  <1> HIDE DEF Good
  <1>s. ASSUME NEW r \in Readers, NEW step \in Steps, pc' = [pc EXCEPT ![r] = step],
               balance' = balance, step \in Early <=> pc[r] \in Early
        PROVE  Good
    <2>1. Turns(r, step, 0) /\ Goes(r, step) /\ Adds(r, 0)
      BY <1>b, <1>s DEF Turns, Goes
    <2> QED BY <2>1, StatsStep DEF Good
  <1>d. ASSUME NEW r \in Readers, NEW step \in Steps, pc' = [pc EXCEPT ![r] = step],
               Count(r), step \notin Early, pc[r] \in Early
        PROVE  Good
    <2>1. Turns(r, step, -1) /\ Goes(r, step) /\ Adds(r, -1)
      BY <1>c, <1>d DEF Turns, Goes
    <2> QED BY <2>1, StatsStep DEF Good
  <1>u. ASSUME NEW r \in Readers, NEW step \in Steps, pc' = [pc EXCEPT ![r] = step],
               balance' = [balance EXCEPT ![r[1]] = @ + 1], step \in Early, pc[r] \notin Early
        PROVE  Good
    <2>1. Turns(r, step, 1) /\ Goes(r, step) /\ Adds(r, 1)
      BY <1>u DEF Turns, Goes, Adds
    <2> QED BY <2>1, StatsStep DEF Good
  <1>t. Steps = {"idle", "redis", "lock", "again", "load", "write", "unlock", "fill", "bypass"}
        /\ Early = {"redis", "lock", "again", "load", "bypass"}
    BY DEF Steps, Early
  <1>1. ASSUME NEW r \in Readers, Read(r) PROVE Good
    <2>1. CASE FirstGet(r)
      BY <1>s, <1>d, <1>t, <2>1 DEF FirstGet, At
    <2>2. CASE TryLock(r)
      BY <1>s, <1>t, <2>2 DEF TryLock
    <2>3. CASE LockBreaks(r)
      BY <1>s, <1>t, <2>3 DEF LockBreaks
    <2>4. CASE SecondGet(r)
      BY <1>s, <1>d, <1>t, <2>4 DEF SecondGet, At, Return
    <2>5. CASE Load(r)
      BY <1>d, <1>t, <2>5 DEF Load, At
    <2>6. CASE Write(r) \/ WriteBreaks(r)
      BY <1>s, <1>t, <2>6 DEF Write, WriteBreaks, At
    <2>7. CASE Unlock(r)
      BY <1>s, <1>t, <2>7 DEF Unlock, At
    <2>8. CASE Fill(r)
      BY <1>s, <1>t, <2>8 DEF Fill, Return
    <2>9. CASE LoadBypass(r)
      BY <1>d, <1>t, <2>9 DEF LoadBypass, Return
    <2> QED BY <1>1, <2>1, <2>2, <2>3, <2>4, <2>5, <2>6, <2>7, <2>8, <2>9 DEF Read
  <1>2. ASSUME NEW r \in Readers, NEW i \in Ids, Begin(r, i) PROVE Good
    <2>1. CASE l1[r[1]][i] # None
      BY <1>2, <2>1, StatsUntouched DEF Begin, reader, Good
    <2>2. CASE l1[r[1]][i] = None
      BY <1>u, <1>t, <1>2, <2>2 DEF Begin
    <2> QED BY <2>1, <2>2
  <1>3. ASSUME NEW r \in Readers, NEW i \in Ids, BeginBypass(r, i) PROVE Good
    BY <1>u, <1>t, <1>3 DEF BeginBypass
  <1>4. ASSUME UNCHANGED <<pc, balance>> PROVE Good
    BY <1>4, StatsUntouched DEF Good
  <1>5. ASSUME NEW i \in Ids, NEW v, Create(i, v) \/ ExpireRedis(i) \/ ExpireLock(i) PROVE Good
    BY <1>4, <1>5 DEF Create, ExpireRedis, ExpireLock, reader
  <1>6. ASSUME NEW p \in Admins, NEW i \in Ids, NEW v, EraseL1(p) \/ DelRedis(p) \/ Update(p, i, v)
        PROVE  Good
    BY <1>4, <1>6 DEF EraseL1, DelRedis, Update, reader
  <1>7. ASSUME NEW p \in Procs, NEW i \in Ids, LoseRedis(p) \/ Reconnect(p) \/ ExpireL1(p, i)
        PROVE  Good
    BY <1>4, <1>7 DEF LoseRedis, Reconnect, ExpireL1, reader
  <1>8. ASSUME NEW s \in Sets, ExecuteLate(s) PROVE Good
    BY <1>4, <1>8 DEF ExecuteLate, reader
  <1>9. Good
    <2>1. ASSUME NEW i \in Ids, ExpireRedis(i) \/ ExpireLock(i) PROVE Good
      BY <1>4, <2>1 DEF ExpireRedis, ExpireLock, reader
    <2>2. ASSUME NEW p \in Admins, EraseL1(p) \/ DelRedis(p) PROVE Good
      BY <1>4, <2>2 DEF EraseL1, DelRedis, reader
    <2>3. ASSUME NEW p \in Procs, LoseRedis(p) \/ Reconnect(p) PROVE Good
      BY <1>4, <2>3 DEF LoseRedis, Reconnect, reader
    <2> QED BY <1>1, <1>2, <1>3, <1>5, <1>6, <1>7, <1>8, <2>1, <2>2, <2>3 DEF Next
  <1> QED BY <1>9 DEF Good

(* Every action keeps the L1 small enough. *)
LEMMA L1Kept ==
    ASSUME CountsInv, Next
    PROVE  L1Fits' /\ l1' \in [Procs -> [Ids -> Details \cup {None}]]
  <1> DEFINE Good == L1Fits' /\ l1' \in [Procs -> [Ids -> Details \cup {None}]]
  <1>a. /\ l1 \in [Procs -> [Ids -> Details \cup {None}]] /\ Admins \subseteq Procs
        /\ \A p \in Admins : edit[p].step # "idle" => edit[p].of \in Ids
    BY AdminsAssumption DEF CountsInv, CacheTypes, PlainTypes
  <1>1. ASSUME UNCHANGED l1 PROVE Good
    BY <1>a, <1>1, L1Shrinks DEF Cached
  <1>2. ASSUME NEW p \in Procs, NEW i \in Ids, l1' = [l1 EXCEPT ![p][i] = None] PROVE Good
    <2>1. /\ l1' \in [Procs -> [Ids -> Details \cup {None}]]
          /\ \A q \in Procs, j \in Ids : l1'[q][j] # None => l1[q][j] # None
      BY <1>a, <1>2
    <2>2. \A q \in Procs : Cached(q)' \subseteq Cached(q)
      BY <2>1 DEF Cached
    <2> QED BY <2>1, <2>2, L1Shrinks
  <1>3. ASSUME NEW r \in Readers, Fill(r) PROVE Good
    BY <1>3, FillFits
  <1> HIDE DEF Good
  <1>4. ASSUME NEW r \in Readers, Read(r) PROVE Good
    <2>1. CASE Fill(r)
      BY <1>3, <2>1
    <2>2. CASE ~Fill(r)
      BY <1>1, <1>4, <2>2
         DEF Read, FirstGet, TryLock, LockBreaks, SecondGet, Load, Write, WriteBreaks, Unlock, LoadBypass
    <2> QED BY <2>1, <2>2
  <1>5. ASSUME NEW r \in Readers, NEW i \in Ids, Begin(r, i) \/ BeginBypass(r, i) PROVE Good
    BY <1>1, <1>5 DEF Begin, BeginBypass
  <1>6. ASSUME NEW i \in Ids, ExpireRedis(i) \/ ExpireLock(i) PROVE Good
    BY <1>1, <1>6 DEF ExpireRedis, ExpireLock
  <1>7. ASSUME NEW i \in Ids, NEW v, Create(i, v) PROVE Good
    BY <1>1, <1>7 DEF Create
  <1>8. ASSUME NEW p \in Admins, EraseL1(p) PROVE Good
    <2>1. edit[p].of \in Ids /\ p \in Procs /\ l1' = [l1 EXCEPT ![p][edit[p].of] = None]
      BY <1>a, <1>8 DEF EraseL1
    <2> QED BY <1>2, <2>1
  <1>9. ASSUME NEW p \in Admins, DelRedis(p) PROVE Good
    BY <1>1, <1>9 DEF DelRedis
  <1>10. ASSUME NEW p \in Admins, NEW i \in Ids, NEW v, Update(p, i, v) PROVE Good
    BY <1>1, <1>10 DEF Update
  <1>11. ASSUME NEW p \in Procs, LoseRedis(p) \/ Reconnect(p) PROVE Good
    BY <1>1, <1>11 DEF LoseRedis, Reconnect
  <1>12. ASSUME NEW p \in Procs, NEW i \in Ids, ExpireL1(p, i) PROVE Good
    BY <1>2, <1>12 DEF ExpireL1
  <1>13. ASSUME NEW s \in Sets, ExecuteLate(s) PROVE Good
    BY <1>1, <1>13 DEF ExecuteLate
  <1>14. Good
    BY <1>4, <1>5, <1>6, <1>7, <1>8, <1>9, <1>10, <1>11, <1>12, <1>13 DEF Next
  <1> QED BY <1>14 DEF Good

(* What PlainTypes says beside the L1 and the balance. *)
Rest ==
    /\ lock \in [Ids -> BOOLEAN] /\ late \subseteq Sets
    /\ up \in [Procs -> BOOLEAN] /\ locked \in [Readers -> BOOLEAN]
    /\ updates \in 0..MaxUpdates /\ dbFaults \in 0..MaxDbFaults
    /\ redisFaults \in 0..MaxRedisFaults
    /\ old \subseteq Readers

(* Every action keeps the other types. *)
LEMMA RestKept == ASSUME CacheTypes, Rest, Next PROVE Rest'
  <1>a. /\ \A r \in Readers : r[1] \in Procs /\ val[r] \in Details \cup {None}
        /\ \A r \in Readers : pc[r] # "idle" => id[r] \in Ids
        /\ MaxUpdates \in Nat /\ MaxDbFaults \in Nat /\ MaxRedisFaults \in Nat
    BY BoundsAssumption DEF CacheTypes, Readers
  <1>1. ASSUME NEW r \in Readers, Read(r) PROVE Rest'
    <2>1. CASE FirstGet(r) \/ SecondGet(r) \/ Unlock(r) \/ Fill(r) \/ LoadBypass(r)
      BY <2>1 DEF Rest, FirstGet, SecondGet, Unlock, Fill, LoadBypass, At, Return, bounds
    <2>2. CASE TryLock(r)
      <3>1. /\ id[r] \in Ids /\ lock' = [lock EXCEPT ![id[r]] = @ \/ (up[r[1]] /\ ~lock[id[r]])]
            /\ locked' = [locked EXCEPT ![r] = up[r[1]] /\ ~lock[id[r]]]
            /\ UNCHANGED <<late, up, updates, dbFaults, redisFaults, old>>
        BY <1>a, <2>2 DEF TryLock, bounds
      <3>2. (up[r[1]] /\ ~lock[id[r]]) \in BOOLEAN
        OBVIOUS
      <3> QED BY <3>1, <3>2 DEF Rest
    <2>3. CASE LockBreaks(r)
      <3>1. [of |-> id[r], val |-> None] \in Sets
        BY <1>a, <2>3 DEF LockBreaks, Sets
      <3>2. id[r] \in Ids /\ r[1] \in Procs
        BY <1>a, <2>3 DEF LockBreaks
      <3>3. lock' \in [Ids -> BOOLEAN] /\ late' \subseteq Sets
        BY <2>3, <3>1, <3>2 DEF Rest, LockBreaks
      <3>4. /\ up' \in [Procs -> BOOLEAN] /\ locked' \in [Readers -> BOOLEAN]
            /\ redisFaults' \in 0..MaxRedisFaults
            /\ UNCHANGED <<updates, dbFaults, old>>
        BY <1>a, <2>3, <3>2 DEF Rest, LockBreaks, BreaksUnder
      <3> QED BY <3>3, <3>4 DEF Rest
    <2>4. CASE Load(r)
      BY <1>a, <2>4 DEF Rest, Load, At
    <2>5. CASE Write(r)
      BY <2>5 DEF Rest, Write, At, bounds
    <2>6. CASE WriteBreaks(r)
      <3>1. [of |-> id[r], val |-> val[r]] \in Sets
        BY <1>a, <2>6 DEF WriteBreaks, Sets
      <3> QED BY <1>a, <2>6, <3>1 DEF Rest, WriteBreaks, BreaksUnder, At
    <2> QED BY <1>1, <2>1, <2>2, <2>3, <2>4, <2>5, <2>6 DEF Read
  <1>2. ASSUME NEW r \in Readers, NEW i \in Ids, Begin(r, i) \/ BeginBypass(r, i) PROVE Rest'
    BY <1>2 DEF Rest, Begin, BeginBypass, reader, bounds
  <1>3. ASSUME NEW i \in Ids, ExpireRedis(i) \/ ExpireLock(i) PROVE Rest'
    BY <1>3 DEF Rest, ExpireRedis, ExpireLock, reader, bounds
  <1>4. ASSUME NEW i \in Ids, NEW v, Create(i, v) PROVE Rest'
    BY <1>a, <1>4 DEF Rest, Create, reader
  <1>5. ASSUME NEW p \in Admins, EraseL1(p) \/ DelRedis(p) PROVE Rest'
    BY <1>5 DEF Rest, EraseL1, DelRedis, reader, bounds
  <1>6. ASSUME NEW p \in Admins, NEW i \in Ids, NEW v, Update(p, i, v) PROVE Rest'
    BY <1>a, <1>6 DEF Rest, Update, reader
  <1>7. ASSUME NEW p \in Procs, LoseRedis(p) \/ Reconnect(p) PROVE Rest'
    <2>1. CASE LoseRedis(p)
      <3>1. up' \in [Procs -> BOOLEAN] /\ redisFaults' \in 0..MaxRedisFaults
        BY <1>a, <2>1 DEF Rest, LoseRedis
      <3> QED BY <2>1, <3>1 DEF Rest, LoseRedis, reader
    <2>2. CASE Reconnect(p)
      BY <2>2 DEF Rest, Reconnect, reader, bounds
    <2> QED BY <1>7, <2>1, <2>2
  <1>8. ASSUME NEW p \in Procs, NEW i \in Ids, ExpireL1(p, i) PROVE Rest'
    BY <1>8 DEF Rest, ExpireL1, reader, bounds
  <1>9. ASSUME NEW s \in Sets, ExecuteLate(s) PROVE Rest'
    BY <1>9 DEF Rest, ExecuteLate, reader, bounds, Sets
  <1> QED BY <1>1, <1>2, <1>3, <1>4, <1>5, <1>6, <1>7, <1>8, <1>9 DEF Next

(* For any processes, threads and problems, and any L1 capacity: the types hold,
   every call of get_problem is counted as exactly one hit or load when it has
   come that far (problem_cache_stats), and the L1 never outgrows kL1Cap. *)
THEOREM TypeCorrect == Spec => []TypeOK
  <1>1. Init => CountsInv
    <2> SUFFICES ASSUME Init PROVE CountsInv
      OBVIOUS
    <2>1. CacheTypes
      BY DistinctAssumption DEF Init, CacheTypes, Details, Steps, NoEdit
    <2>2. PlainTypes
      BY BoundsAssumption DEF Init, PlainTypes, Details
    <2>3. StatsAddUp
      <3> SUFFICES ASSUME NEW p \in Procs
                   PROVE  balance[p] = Cardinality({r \in Readers :
                              r[1] = p /\ pc[r] \in {"redis", "lock", "again", "load", "bypass"}})
        BY DEF StatsAddUp
      <3>1. {r \in Readers : r[1] = p /\ pc[r] \in {"redis", "lock", "again", "load", "bypass"}} = {}
        BY DEF Init
      <3>2. balance[p] = 0
        BY DEF Init
      <3> QED BY <3>1, <3>2, FS_EmptySet
    <2>4. L1Fits
      <3> SUFFICES ASSUME NEW p \in Procs PROVE Cardinality(Cached(p)) <= L1Cap
        BY DEF L1Fits
      <3>1. Cached(p) = {}
        BY DEF Init, Cached
      <3> QED BY <3>1, FS_EmptySet, CapAssumption
    <2> QED BY <2>1, <2>2, <2>3, <2>4 DEF CountsInv
  <1>2. CountsInv /\ [Next]_vars => CountsInv'
    <2> SUFFICES ASSUME CountsInv, [Next]_vars PROVE CountsInv'
      OBVIOUS
    <2>1. CASE Next
      <3>1. CacheTypes'
        BY <2>1, TypesStep DEF CountsInv
      <3>2. Rest'
        BY <2>1, RestKept DEF CountsInv, PlainTypes, Rest
      <3>3. StatsAddUp' /\ balance' \in [Procs -> Int]
        BY <2>1, StatsKept
      <3>4. L1Fits' /\ l1' \in [Procs -> [Ids -> Details \cup {None}]]
        BY <2>1, L1Kept
      <3>5. PlainTypes'
        BY <3>2, <3>3, <3>4 DEF PlainTypes, Rest
      <3> QED BY <3>1, <3>3, <3>4, <3>5 DEF CountsInv
    <2>2. CASE UNCHANGED vars
      <3>1. UNCHANGED <<row, redis, lock, late, up, l1, pc, id, val, locked, edit, balance,
                        updates, dbFaults, redisFaults, old, excused>>
        BY <2>2 DEF vars, reader, bounds
      <3>2. CacheTypes' /\ PlainTypes'
        BY <3>1 DEF CountsInv, CacheTypes, PlainTypes
      <3>3. StatsAddUp' /\ L1Fits'
        BY <3>1 DEF CountsInv, StatsAddUp, L1Fits, Cached
      <3> QED BY <3>2, <3>3 DEF CountsInv
    <2> QED BY <2>1, <2>2
  <1>3. CountsInv => TypeOK
    BY DEF CountsInv, CacheTypes, PlainTypes, L1Fits, Cached, TypeOK
  <1> QED BY <1>1, <1>2, <1>3, PTL DEF Spec
=============================================================================
