--------------------------- MODULE MysqlPoolProofs ---------------------------
(***************************************************************************)
(* The pool's counters, for any number of holders and any pool size.  The   *)
(* argument: CountsMatch by itself does not bound live_ from below, since   *)
(* overflow_ can be positive on behalf of connections that are long closed *)
(* and negative on behalf of ones that never opened.  LiveCovers adds that *)
(* what may come back to idle_ or be subtracted from live_ is always        *)
(* covered by live_.                                                        *)
(***************************************************************************)
EXTENDS MysqlPool, FiniteSetTheorems, SequenceTheorems, TLAPS

(* The holders whose next step may take one from live_. *)
InFlight == {h \in Holders : at[h] \in {"pinging", "opening"}}

LiveCovers == Len(idle) + Cardinality(InFlight) <= live

PoolInv == TypeOK /\ CountsMatch /\ LiveCovers


(* What pop_back leaves of a stack that is not empty. *)
LEMMA Popped ==
    ASSUME NEW q \in Seq(Handles), q # <<>>
    PROVE  /\ Len(q) \in Nat \ {0} /\ q[Len(q)] \in Handles
           /\ SubSeq(q, 1, Len(q) - 1) \in Seq(Handles)
           /\ Len(SubSeq(q, 1, Len(q) - 1)) = Len(q) - 1
           /\ \A i \in 1..(Len(q) - 1) : SubSeq(q, 1, Len(q) - 1)[i] = q[i]
  <1>1. Len(q) \in Nat \ {0}
    BY EmptySeq
  <1>2. \A i \in 1..Len(q) : q[i] \in Handles
    BY ElementOfSeq
  <1>3. 1 \in Int /\ Len(q) - 1 \in Int /\ \A i \in 1..(Len(q) - 1) : q[i] \in Handles
    BY <1>1, <1>2
  <1>4. /\ SubSeq(q, 1, Len(q) - 1) \in Seq(Handles)
        /\ Len(SubSeq(q, 1, Len(q) - 1)) = IF 1 <= Len(q) - 1 THEN Len(q) - 1 - 1 + 1 ELSE 0
        /\ \A i \in 1..(Len(q) - 1 - 1 + 1) : SubSeq(q, 1, Len(q) - 1)[i] = q[1 + i - 1]
    BY <1>3, SubSeqProperties
  <1>5. ASSUME NEW i \in 1..(Len(q) - 1) PROVE SubSeq(q, 1, Len(q) - 1)[i] = q[i]
    <2>1. i \in 1..(Len(q) - 1 - 1 + 1) /\ 1 + i - 1 = i
      BY <1>1
    <2> QED BY <1>4, <2>1
  <1>6. Len(SubSeq(q, 1, Len(q) - 1)) = Len(q) - 1
    <2>1. \A n \in Nat \ {0} : (IF 1 <= n - 1 THEN n - 1 - 1 + 1 ELSE 0) = n - 1
      OBVIOUS
    <2> QED BY <1>1, <1>4, <2>1
  <1>7. Len(q) \in 1..Len(q)
    BY <1>1
  <1> QED BY <1>1, <1>2, <1>4, <1>5, <1>6, <1>7

(* A move of holder h, and nobody else. *)
Moves(h, x) == at' = [at EXCEPT ![h] = x]

(* How a holder's move changes the two counts. *)
LEMMA Counts ==
    ASSUME TypeOK, NEW h \in Holders, NEW x \in Places, Moves(h, x)
    PROVE  /\ Cardinality(Busy) \in Nat /\ Cardinality(InFlight) \in Nat
           /\ Cardinality(Busy') \in Nat /\ Cardinality(InFlight') \in Nat
           /\ Cardinality(Busy') =
                Cardinality(Busy) - (IF at[h] = "out" THEN 0 ELSE 1) + (IF x = "out" THEN 0 ELSE 1)
           /\ Cardinality(InFlight') =
                Cardinality(InFlight)
                - (IF at[h] \in {"pinging", "opening"} THEN 1 ELSE 0)
                + (IF x \in {"pinging", "opening"} THEN 1 ELSE 0)
           /\ Cardinality(InFlight) <= Cardinality(Busy)
           /\ at[h] \in {"pinging", "opening"} => Cardinality(InFlight) >= 1
           /\ at[h] \in {"held", "extra"} => Cardinality(InFlight) + 1 <= Cardinality(Busy)
  <1> USE HoldersAssumption
  <1>1. /\ at \in [Holders -> Places] /\ at' \in [Holders -> Places]
        /\ at' = [at EXCEPT ![h] = x]
    BY DEF TypeOK, Moves
  <1>2. /\ IsFiniteSet(Busy) /\ IsFiniteSet(InFlight)
        /\ IsFiniteSet(Busy \ {h}) /\ IsFiniteSet(InFlight \ {h})
    BY FS_Subset DEF Busy, InFlight
  <1>3. /\ Busy'     = IF x = "out" THEN Busy \ {h} ELSE (Busy \ {h}) \cup {h}
        /\ InFlight' = IF x \in {"pinging", "opening"} THEN (InFlight \ {h}) \cup {h}
                                                       ELSE InFlight \ {h}
    BY <1>1 DEF Busy, InFlight
  <1>4. ASSUME NEW S, IsFiniteSet(S), IsFiniteSet(S \ {h})
        PROVE  /\ Cardinality(S) \in Nat /\ Cardinality(S \ {h}) \in Nat
               /\ Cardinality(S \ {h}) = IF h \in S THEN Cardinality(S) - 1 ELSE Cardinality(S)
               /\ Cardinality((S \ {h}) \cup {h}) = Cardinality(S \ {h}) + 1
    BY <1>4, FS_CardinalityType, FS_RemoveElement, FS_AddElement
  <1>5. InFlight \subseteq Busy /\ (h \in Busy <=> at[h] # "out")
        /\ (h \in InFlight <=> at[h] \in {"pinging", "opening"})
    BY <1>1 DEF Busy, InFlight
  <1>6. Cardinality(InFlight) <= Cardinality(Busy)
    BY <1>2, <1>5, FS_Subset
  <1>7. /\ Cardinality(Busy) \in Nat /\ Cardinality(Busy \ {h}) \in Nat
        /\ Cardinality(Busy \ {h}) = IF h \in Busy THEN Cardinality(Busy) - 1 ELSE Cardinality(Busy)
        /\ Cardinality((Busy \ {h}) \cup {h}) = Cardinality(Busy \ {h}) + 1
    BY <1>2, <1>4
  <1>8. /\ Cardinality(InFlight) \in Nat /\ Cardinality(InFlight \ {h}) \in Nat
        /\ Cardinality(InFlight \ {h}) =
             IF h \in InFlight THEN Cardinality(InFlight) - 1 ELSE Cardinality(InFlight)
        /\ Cardinality((InFlight \ {h}) \cup {h}) = Cardinality(InFlight \ {h}) + 1
    BY <1>2, <1>4
  <1>9. ASSUME at[h] \in {"held", "extra"}
        PROVE  Cardinality(InFlight) + 1 <= Cardinality(Busy)
    <2>1. h \in Busy /\ h \notin InFlight /\ InFlight \subseteq Busy \ {h}
      BY <1>5, <1>9
    <2>2. Cardinality(InFlight) <= Cardinality(Busy \ {h})
      BY <1>2, <2>1, FS_Subset
    <2> QED BY <1>7, <1>8, <2>1, <2>2
  <1>10. /\ Cardinality(Busy') \in Nat
         /\ Cardinality(Busy') =
              Cardinality(Busy) - (IF at[h] = "out" THEN 0 ELSE 1) + (IF x = "out" THEN 0 ELSE 1)
    BY <1>3, <1>5, <1>7
  <1>11. /\ Cardinality(InFlight') \in Nat
         /\ Cardinality(InFlight') =
              Cardinality(InFlight)
              - (IF at[h] \in {"pinging", "opening"} THEN 1 ELSE 0)
              + (IF x \in {"pinging", "opening"} THEN 1 ELSE 0)
    BY <1>3, <1>5, <1>8
  <1>12. at[h] \in {"pinging", "opening"} => Cardinality(InFlight) >= 1
    BY <1>5, <1>8
  <1> QED BY <1>6, <1>7, <1>8, <1>9, <1>10, <1>11, <1>12

-----------------------------------------------------------------------------
(* The pool begins empty. *)
LEMMA PoolInit == Init => PoolInv
  <1> SUFFICES ASSUME Init PROVE PoolInv
    OBVIOUS
  <1>b. shrunk \in BOOLEAN
    BY Zenon DEF Init
  <1>1. TypeOK
    BY <1>b, NoneAssumption, MaxSizeAssumption DEF Init, TypeOK, Places
  <1>2. Busy = {} /\ InFlight = {} /\ Len(idle) = 0
    BY DEF Init, Busy, InFlight
  <1> QED BY <1>1, <1>2, FS_EmptySet DEF Init, PoolInv, CountsMatch, Connections, LiveCovers

(* The locked part of acquire keeps the invariant, entered from "out" with the
   live_ there is, or after a failed ping with one less. *)
LEMMA DrawKeeps ==
    ASSUME PoolInv, NEW h \in Holders, NEW n \in Int, Draw(h, n),
           \/ at[h] = "out" /\ n = live
           \/ at[h] = "pinging" /\ n = live - 1,
           shrunk' \in BOOLEAN
    PROVE  PoolInv'
  <1> USE NoneAssumption, MaxSizeAssumption
  <1>1. /\ idle \in Seq(Handles) /\ live \in 0..MaxSize /\ overflow \in Int
        /\ at \in [Holders -> Places] /\ conn \in [Holders -> Handles \cup {None}]
        /\ \A g \in Holders : conn[g] # None <=> at[g] \in {"pinging", "held"}
        /\ live + overflow = Len(idle) + Cardinality(Busy)
        /\ Len(idle) + Cardinality(InFlight) <= live
        /\ Len(idle) \in Nat /\ MaxSize \in Nat /\ shrunk' \in BOOLEAN
    BY DEF PoolInv, TypeOK, CountsMatch, Connections, LiveCovers
  <1>t. TypeOK
    BY DEF PoolInv
  <1>2. CASE /\ idle # <<>>
             /\ conn' = [conn EXCEPT ![h] = idle[Len(idle)]]
             /\ idle' = SubSeq(idle, 1, Len(idle) - 1)
             /\ at'   = [at EXCEPT ![h] = "pinging"]
             /\ live' = n /\ UNCHANGED overflow
    <2>1. idle[Len(idle)] \in Handles /\ idle' \in Seq(Handles) /\ Len(idle') = Len(idle) - 1
          /\ Moves(h, "pinging") /\ "pinging" \in Places
      BY <1>1, <1>2, Popped DEF Moves, Places
    <2>2. /\ Cardinality(InFlight) \in Nat /\ Cardinality(Busy) \in Nat
          /\ Cardinality(Busy') = Cardinality(Busy) - (IF at[h] = "out" THEN 0 ELSE 1) + 1
          /\ Cardinality(InFlight') =
               Cardinality(InFlight) - (IF at[h] = "pinging" THEN 1 ELSE 0) + 1
          /\ at[h] = "pinging" => Cardinality(InFlight) >= 1
      BY <1>t, <2>1, Counts
    <2>3. TypeOK'
      <3>1. live' \in 0..MaxSize
        <4>1. CASE at[h] = "out" /\ n = live
          BY <1>1, <1>2, <4>1
        <4>2. CASE at[h] = "pinging" /\ n = live - 1
          <5> DEFINE spare == Len(idle)
                     flying == Cardinality(InFlight)
          <5>1. /\ spare \in Nat /\ flying \in Nat /\ live \in 0..MaxSize /\ MaxSize \in Nat
                /\ spare + flying <= live /\ flying >= 1 /\ live' = live - 1
            BY <1>1, <1>2, <2>2, <4>2
          <5> HIDE DEF spare, flying
          <5>2. live' \in 0..MaxSize
            BY ONLY <5>1
          <5> QED BY <5>2
        <4> QED BY <4>1, <4>2
      <3>2. at' \in [Holders -> Places] /\ conn' \in [Holders -> Handles \cup {None}]
        BY <1>1, <1>2, <2>1
      <3>3. \A g \in Holders : conn'[g] # None <=> at'[g] \in {"pinging", "held"}
        BY <1>1, <1>2, <2>1, <3>2
      <3>4. overflow' \in Int
        BY <1>1, <1>2
      <3> QED BY <2>1, <3>1, <3>2, <3>3, <3>4 DEF TypeOK
    <2>4. live' + overflow' = Len(idle') + Cardinality(Busy')
          /\ Len(idle') + Cardinality(InFlight') <= live'
      <3> HIDE NoneAssumption, MaxSizeAssumption
      <3> DEFINE a == Cardinality(Busy)
                 b == Cardinality(InFlight)
                 c == Cardinality(Busy')
                 d == Cardinality(InFlight')
                 i == Len(idle)
                 j == Len(idle')
      <3>3. /\ live \in Int /\ overflow \in Int /\ i \in Nat
            /\ b \in Nat /\ a \in Nat
        BY <1>1, <2>2
      <3>4. /\ j = i - 1
            /\ live + overflow = i + a
            /\ i + b <= live
        BY <1>1, <2>1
      <3>1. CASE at[h] = "out" /\ n = live
        <4>1. /\ c = a + 1
              /\ d = b + 1
          BY <3>1, <2>2
        <4>2. live' = live /\ overflow' = overflow
          BY <3>1, <1>2
        <4> HIDE DEF a, b, c, d, i, j
        <4>3. live' + overflow' = j + c /\ j + d <= live'
          BY ONLY <4>1, <4>2, <3>3, <3>4
        <4> QED BY <4>3 DEF a, b, c, d, i, j
      <3>2. CASE at[h] = "pinging" /\ n = live - 1
        <4>1. /\ c = a
              /\ d = b
          BY <3>2, <2>2
        <4>2. live' = live - 1 /\ overflow' = overflow
          BY <3>2, <1>2
        <4> HIDE DEF a, b, c, d, i, j
        <4>3. live' + overflow' = j + c /\ j + d <= live'
          BY ONLY <4>1, <4>2, <3>3, <3>4
        <4> QED BY <4>3 DEF a, b, c, d, i, j
      <3> QED BY <3>1, <3>2
    <2> QED BY <2>3, <2>4 DEF PoolInv, CountsMatch, Connections, LiveCovers
  <1>3. CASE /\ idle = <<>> /\ n >= MaxSize
             /\ overflow' = overflow + 1
             /\ conn' = [conn EXCEPT ![h] = None]
             /\ at'   = [at EXCEPT ![h] = "extra"]
             /\ live' = n /\ UNCHANGED idle
    <2>1. n = live /\ at[h] = "out" /\ Moves(h, "extra") /\ "extra" \in Places
      BY <1>1, <1>3 DEF Moves, Places
    <2>2. /\ Cardinality(InFlight) \in Nat /\ Cardinality(Busy) \in Nat
          /\ Cardinality(Busy') = Cardinality(Busy) + 1
          /\ Cardinality(InFlight') = Cardinality(InFlight)
      BY <1>t, <2>1, Counts
    <2>3. TypeOK'
      BY <1>1, <1>3, <2>1 DEF TypeOK, Places
    <2> QED BY <1>1, <1>3, <2>1, <2>2, <2>3 DEF PoolInv, CountsMatch, Connections, LiveCovers
  <1>4. CASE /\ idle = <<>> /\ n < MaxSize
             /\ conn' = [conn EXCEPT ![h] = None]
             /\ at'   = [at EXCEPT ![h] = "opening"]
             /\ live' = n + 1 /\ UNCHANGED <<idle, overflow>>
    <2>m. Moves(h, "opening") /\ "opening" \in Places
      BY <1>4 DEF Moves, Places
    <2>1. /\ Cardinality(InFlight) \in Nat /\ Cardinality(Busy) \in Nat
          /\ Cardinality(Busy') = Cardinality(Busy) - (IF at[h] = "out" THEN 0 ELSE 1) + 1
          /\ Cardinality(InFlight') =
               Cardinality(InFlight) - (IF at[h] = "pinging" THEN 1 ELSE 0) + 1
      BY <1>t, <2>m, Counts
    <2>2. n + 1 \in 0..MaxSize
      BY <1>1, <1>4
    <2>3. TypeOK'
      BY <1>1, <1>4, <2>2 DEF TypeOK, Places
    <2> QED BY <1>1, <1>4, <2>1, <2>3 DEF PoolInv, CountsMatch, Connections, LiveCovers
  <1> QED BY <1>2, <1>3, <1>4 DEF Draw

(* Every step keeps the invariant. *)
LEMMA PoolStep == PoolInv /\ [Next]_vars => PoolInv'
  <1> SUFFICES ASSUME PoolInv, [Next]_vars PROVE PoolInv'
    OBVIOUS
  <1> USE NoneAssumption, MaxSizeAssumption
  <1>b. shrunk' \in BOOLEAN
    <2>1. shrunk \in BOOLEAN
      BY DEF PoolInv, TypeOK
    <2>2. CASE UNCHANGED vars
      BY <2>1, <2>2 DEF vars
    <2>3. CASE Next
      BY Zenon, <2>3 DEF Next, NoteLoss
    <2> QED BY <2>2, <2>3
  <1>1. /\ idle \in Seq(Handles) /\ live \in 0..MaxSize /\ overflow \in Int
        /\ at \in [Holders -> Places] /\ conn \in [Holders -> Handles \cup {None}]
        /\ \A g \in Holders : conn[g] # None <=> at[g] \in {"pinging", "held"}
        /\ live + overflow = Len(idle) + Cardinality(Busy)
        /\ Len(idle) + Cardinality(InFlight) <= live
        /\ Len(idle) \in Nat /\ MaxSize \in Nat /\ shrunk' \in BOOLEAN
    BY <1>b DEF PoolInv, TypeOK, CountsMatch, Connections, LiveCovers
  <1>t. TypeOK
    BY DEF PoolInv
  <1>2. ASSUME NEW h \in Holders, Acquire(h) PROVE PoolInv'
    BY <1>1, <1>2, DrawKeeps DEF Acquire
  <1>3. ASSUME NEW h \in Holders, PingFails(h) PROVE PoolInv'
    <2>1. live - 1 \in Int
      BY <1>1
    <2> QED BY <1>1, <1>3, <2>1, DrawKeeps DEF PingFails
  <1>4. ASSUME NEW h \in Holders, PingOk(h) PROVE PoolInv'
    <2>m. Moves(h, "held") /\ "held" \in Places /\ at[h] = "pinging"
      BY <1>4 DEF PingOk, Moves, Places
    <2>1. /\ Cardinality(InFlight) \in Nat /\ Cardinality(Busy) \in Nat
          /\ Cardinality(Busy') = Cardinality(Busy)
          /\ Cardinality(InFlight') = Cardinality(InFlight) - 1
      BY <1>t, <2>m, Counts
    <2>2. TypeOK'
      BY <1>1, <1>4 DEF PingOk, TypeOK, Places
    <2> QED BY <1>1, <1>4, <2>1, <2>2 DEF PingOk, PoolInv, CountsMatch, Connections, LiveCovers
  <1>5. ASSUME NEW h \in Holders, Open(h) PROVE PoolInv'
    <2>m. Moves(h, "held") /\ "held" \in Places /\ at[h] \in {"opening", "extra"}
      BY <1>5 DEF Open, Moves, Places
    <2>1. /\ Cardinality(InFlight) \in Nat /\ Cardinality(Busy) \in Nat
          /\ Cardinality(Busy') = Cardinality(Busy)
          /\ Cardinality(InFlight') <= Cardinality(InFlight) /\ Cardinality(InFlight') \in Nat
      BY <1>t, <2>m, Counts
    <2>2. TypeOK'
      <3>1. PICK c \in Handles : conn' = [conn EXCEPT ![h] = c]
        BY <1>5 DEF Open
      <3> QED BY <1>1, <1>5, <3>1 DEF Open, TypeOK, Places
    <2> QED BY <1>1, <1>5, <2>1, <2>2 DEF Open, PoolInv, CountsMatch, Connections, LiveCovers
  <1>6. ASSUME NEW h \in Holders, OpenFails(h) PROVE PoolInv'
    <2>m. Moves(h, "out") /\ "out" \in Places /\ at[h] \in {"opening", "extra"}
      BY <1>6 DEF OpenFails, Moves, Places
    <2>1. /\ Cardinality(InFlight) \in Nat /\ Cardinality(Busy) \in Nat
          /\ Cardinality(InFlight') \in Nat
          /\ Cardinality(Busy') = Cardinality(Busy) - 1
          /\ Cardinality(InFlight') =
               Cardinality(InFlight) - (IF at[h] = "opening" THEN 1 ELSE 0)
      BY <1>t, <2>m, Counts
    <2>2. live' \in 0..MaxSize /\ overflow' \in Int
      BY <1>1, <1>6, <2>1 DEF OpenFails
    <2>3. TypeOK'
      BY <1>1, <1>6, <2>2 DEF OpenFails, TypeOK, Places
    <2> QED BY SMTT(30), <1>1, <1>6, <2>1, <2>3 DEF OpenFails, PoolInv, CountsMatch, Connections, LiveCovers
  <1>7. ASSUME NEW h \in Holders, Release(h) PROVE PoolInv'
    <2>1. /\ at[h] = "held" /\ at' = [at EXCEPT ![h] = "out"]
          /\ conn' = [conn EXCEPT ![h] = None] /\ conn[h] \in Handles
          /\ Moves(h, "out") /\ "out" \in Places
      BY <1>1, <1>7 DEF Release, Moves, Places
    <2>2. /\ Cardinality(InFlight) \in Nat /\ Cardinality(Busy) \in Nat
          /\ Cardinality(Busy') = Cardinality(Busy) - 1
          /\ Cardinality(InFlight') = Cardinality(InFlight)
          /\ Cardinality(InFlight) + 1 <= Cardinality(Busy)
      BY <1>t, <2>1, Counts
    <2>3. CASE overflow > 0 /\ overflow' = overflow - 1 /\ UNCHANGED <<idle, live>>
      <3>1. TypeOK'
        BY <1>1, <2>1, <2>3 DEF TypeOK, Places
      <3> QED BY <1>1, <2>2, <2>3, <3>1 DEF PoolInv, CountsMatch, Connections, LiveCovers
    <2>4. CASE overflow <= 0 /\ Len(idle) >= MaxSize
      BY <1>1, <2>2, <2>4
    <2>5. CASE /\ overflow <= 0 /\ Len(idle) < MaxSize
               /\ idle' = Append(idle, conn[h])
               /\ UNCHANGED <<live, overflow>>
      <3>1. Len(idle') = Len(idle) + 1 /\ idle' \in Seq(Handles)
        BY <1>1, <2>1, <2>5
      <3>2. TypeOK'
        BY <1>1, <2>1, <2>5, <3>1 DEF TypeOK, Places
      <3> QED BY <1>1, <2>2, <2>5, <3>1, <3>2 DEF PoolInv, CountsMatch, Connections, LiveCovers
    <2> QED BY <1>7, <2>3, <2>4, <2>5 DEF Release
  <1>8. CASE UNCHANGED vars
    BY <1>1, <1>8 DEF vars, PoolInv, TypeOK, CountsMatch, Connections, LiveCovers, Busy, InFlight
  <1> QED BY <1>2, <1>3, <1>4, <1>5, <1>6, <1>7, <1>8 DEF Next

(* The pool's state is well-typed; live_ never exceeds mysql_pool_size. *)
THEOREM PoolTypes == Spec => []TypeOK
  BY PoolInit, PoolStep, PTL DEF Spec, PoolInv

(* The two counters together are the connections there are. *)
THEOREM CountersMatch == Spec => []CountsMatch
  BY PoolInit, PoolStep, PTL DEF Spec, PoolInv

(* With more connections open than the pool may keep, the next release closes
   one: live_ alone cannot account for them. *)
THEOREM PoolShrinks == Spec => []ExcessIsClosed
  <1>1. PoolInv => ExcessIsClosed
    BY MaxSizeAssumption DEF PoolInv, TypeOK, CountsMatch, Connections, ExcessIsClosed
  <1> QED BY <1>1, PoolInit, PoolStep, PTL DEF Spec

(* Overflow connections are opened beside a full pool, and it stays full until
   it loses a connection. *)
FullBesideOverflow == overflow > 0 /\ ~shrunk => live >= MaxSize

(* Every step keeps that. *)
LEMMA FullStep == PoolInv /\ FullBesideOverflow /\ [Next]_vars => FullBesideOverflow'
  <1> SUFFICES ASSUME PoolInv, FullBesideOverflow, [Next]_vars, overflow' > 0, ~shrunk'
               PROVE  live' >= MaxSize
    BY DEF FullBesideOverflow
  <1>1. overflow \in Int /\ live \in 0..MaxSize /\ MaxSize \in Nat /\ shrunk \in BOOLEAN
        /\ live' \in Int /\ overflow' \in Int
    BY PoolStep, MaxSizeAssumption DEF PoolInv, TypeOK
  <1>2. CASE UNCHANGED vars
    BY <1>1, <1>2 DEF vars, FullBesideOverflow
  <1>3. CASE Next
    <2>a. ~shrunk /\ ~(live' < live)
      BY Zenon, <1>3 DEF Next, NoteLoss
    <2>1. ~shrunk /\ live' >= live
      BY <1>1, <2>a
    <2>2. CASE overflow > 0
      BY <1>1, <2>1, <2>2 DEF FullBesideOverflow
    <2>3. CASE overflow <= 0
      <3>1. PICK h \in Holders : overflow' = overflow + 1 /\ live' >= MaxSize
        BY <1>1, <1>3, <2>3 DEF Next, Acquire, PingOk, PingFails, Open, OpenFails, Release, Draw
      <3> QED BY <3>1
    <2> QED BY <1>1, <2>2, <2>3
  <1> QED BY <1>2, <1>3

(* release closes a connection only while there are more than mysql_pool_size,
   or after a loss beside counted overflow connections. *)
THEOREM ReleaseKeeps == Spec => KeptUnlessInExcess
  <1> DEFINE Kept == \A h \in Holders : at[h] = "held" /\ at'[h] = "out"
                              => conn[h] \in Pooled' \/ Connections > MaxSize \/ shrunk
  <1>1. PoolInv /\ FullBesideOverflow /\ [Next]_vars => [Kept]_vars
    <2> SUFFICES ASSUME PoolInv, FullBesideOverflow, Next, NEW h \in Holders,
                        at[h] = "held", at'[h] = "out",
                        ~(Connections > MaxSize), ~shrunk
                 PROVE  conn[h] \in Pooled'
      OBVIOUS
    <2>1. Release(h)
      BY DEF Next, Acquire, PingOk, PingFails, Open, OpenFails, Release, Draw, PoolInv, TypeOK
    <2>2. /\ Cardinality(InFlight) \in Nat /\ Cardinality(Busy) \in Nat
          /\ Cardinality(InFlight) + 1 <= Cardinality(Busy)
      <3>1. Moves(h, "out") /\ "out" \in Places /\ TypeOK
        BY <2>1 DEF Release, Moves, Places, PoolInv
      <3> QED BY <3>1, Counts
    <2>3. /\ live \in 0..MaxSize /\ overflow \in Int /\ MaxSize \in Nat /\ Connections \in Int
          /\ live + overflow = Connections
      BY <2>2, MaxSizeAssumption DEF PoolInv, TypeOK, CountsMatch, Connections
    <2>4. overflow <= 0
      BY <2>3 DEF FullBesideOverflow
    <2>5. Len(idle) < MaxSize /\ idle \in Seq(Handles) /\ conn[h] \in Handles
      BY <2>1, <2>2, <2>4, MaxSizeAssumption DEF PoolInv, TypeOK, CountsMatch, Connections, LiveCovers
    <2>6. idle' = Append(idle, conn[h])
      BY <2>1, <2>4, <2>5, MaxSizeAssumption DEF Release, PoolInv, TypeOK
    <2>7. Len(idle') = Len(idle) + 1 /\ idle'[Len(idle) + 1] = conn[h] /\ Len(idle) + 1 \in 1..Len(idle')
      BY <2>5, <2>6
    <2> QED BY <2>7 DEF Pooled
  <1>2. Spec => []PoolInv
    BY PoolInit, PoolStep, PTL DEF Spec
  <1>3. Init => FullBesideOverflow
    BY DEF Init, FullBesideOverflow
  <1>4. Spec => []FullBesideOverflow
    BY <1>2, <1>3, FullStep, PTL DEF Spec
  <1> QED BY <1>1, <1>2, <1>4, PTL DEF Spec, KeptUnlessInExcess

-----------------------------------------------------------------------------
(* NoSharedConnection, holder by holder and place by place. *)
Apart ==
    /\ \A g, h \in Holders : conn[g] = conn[h] /\ conn[g] # None => g = h
    /\ \A i, j \in 1..Len(idle) : idle[i] = idle[j] => i = j
    /\ \A g \in Holders : \A i \in 1..Len(idle) : conn[g] # idle[i]

(* The two forms agree. *)
LEMMA ApartIsNotShared ==
    ASSUME TypeOK
    PROVE  Apart <=> NoSharedConnection
  <1>1. \A i \in 1..Len(idle) : idle[i] # None
    BY NoneAssumption, ElementOfSeq DEF TypeOK
  <1>2. (InUse \cap Pooled = {})
        <=> \A g \in Holders : \A i \in 1..Len(idle) : conn[g] # idle[i]
    <2>1. ASSUME InUse \cap Pooled = {}, NEW g \in Holders, NEW i \in 1..Len(idle), conn[g] = idle[i]
          PROVE  FALSE
      <3>1. idle[i] \in Pooled /\ conn[g] \in InUse
        BY <1>1, <2>1 DEF InUse, Pooled
      <3> QED BY <2>1, <3>1
    <2>2. ASSUME \A g \in Holders : \A i \in 1..Len(idle) : conn[g] # idle[i]
          PROVE  InUse \cap Pooled = {}
      BY <2>2 DEF InUse, Pooled
    <2> QED BY <2>1, <2>2
  <1> QED BY <1>2 DEF Apart, NoSharedConnection

(* A holder that ends up with nothing in hand, idle_ unchanged. *)
LEMMA ApartDrop ==
    ASSUME TypeOK, Apart, NEW h \in Holders,
           conn' = [conn EXCEPT ![h] = None], idle' = idle
    PROVE  Apart'
  <1>1. \A i \in 1..Len(idle) : idle[i] # None
    BY NoneAssumption, ElementOfSeq DEF TypeOK
  <1> QED BY <1>1 DEF Apart, TypeOK

(* The locked part of acquire moves a connection out of the stack. *)
LEMMA ApartDraw ==
    ASSUME TypeOK, Apart, NEW h \in Holders, NEW n \in Int, Draw(h, n)
    PROVE  Apart'
  <1>1. CASE idle # <<>> /\ conn' = [conn EXCEPT ![h] = idle[Len(idle)]]
             /\ idle' = SubSeq(idle, 1, Len(idle) - 1)
    <2>1. /\ Len(idle) \in Nat \ {0} /\ Len(idle') = Len(idle) - 1
          /\ \A i \in 1..(Len(idle) - 1) : idle'[i] = idle[i]
      BY <1>1, Popped DEF TypeOK
    <2>2. \A i \in 1..Len(idle') : i \in 1..Len(idle) /\ i # Len(idle) /\ idle'[i] = idle[i]
      BY <2>1
    <2>3. Len(idle) \in 1..Len(idle)
      BY <2>1
    <2>4. \A g \in Holders : conn'[g] = IF g = h THEN idle[Len(idle)] ELSE conn[g]
      BY <1>1 DEF TypeOK
    <2> QED BY <2>2, <2>3, <2>4 DEF Apart
  <1>2. CASE conn' = [conn EXCEPT ![h] = None] /\ idle' = idle
    BY <1>2, ApartDrop
  <1> QED BY <1>1, <1>2 DEF Draw

(* Every step keeps the connections apart. *)
LEMMA ApartStep == PoolInv /\ Apart /\ [Next]_vars => Apart'
  <1> SUFFICES ASSUME PoolInv, Apart, [Next]_vars PROVE Apart'
    OBVIOUS
  <1>t. TypeOK
    BY DEF PoolInv
  <1>1. ASSUME NEW h \in Holders, Acquire(h) \/ PingFails(h) PROVE Apart'
    <2>1. live \in Int /\ live - 1 \in Int
      BY <1>t, MaxSizeAssumption DEF TypeOK
    <2> QED BY <1>t, <1>1, <2>1, ApartDraw DEF Acquire, PingFails
  <1>2. ASSUME NEW h \in Holders, PingOk(h) \/ OpenFails(h) PROVE Apart'
    BY <1>2 DEF PingOk, OpenFails, Apart
  <1>3. ASSUME NEW h \in Holders, Open(h) PROVE Apart'
    <2>1. PICK c \in Handles \ (InUse \cup Pooled) : conn' = [conn EXCEPT ![h] = c]
      BY <1>3 DEF Open
    <2>2. /\ c # None /\ \A i \in 1..Len(idle) : c # idle[i]
          /\ \A g \in Holders : conn[g] # c
      BY <2>1, NoneAssumption DEF InUse, Pooled
    <2>3. idle' = idle /\ \A g \in Holders : conn'[g] = IF g = h THEN c ELSE conn[g]
      BY <1>t, <1>3, <2>1 DEF Open, TypeOK
    <2> QED BY <2>2, <2>3 DEF Apart
  <1>4. ASSUME NEW h \in Holders, Release(h) PROVE Apart'
    <2>1. conn' = [conn EXCEPT ![h] = None] /\ conn[h] \in Handles /\ conn[h] # None
      BY <1>t, <1>4, NoneAssumption DEF Release, TypeOK
    <2>2. CASE idle' = idle
      BY <1>t, <2>1, <2>2, ApartDrop
    <2>3. CASE idle' = Append(idle, conn[h])
      <3>1. /\ Len(idle) \in Nat /\ Len(idle') = Len(idle) + 1
            /\ \A i \in 1..Len(idle) : idle'[i] = idle[i] /\ idle[i] \in Handles
            /\ idle'[Len(idle) + 1] = conn[h]
        BY <1>t, <2>1, <2>3 DEF TypeOK
      <3>2. \A i \in 1..Len(idle') : i \in 1..Len(idle) \/ i = Len(idle) + 1
        BY <3>1
      <3>3. \A g \in Holders : conn'[g] = IF g = h THEN None ELSE conn[g]
        BY <1>t, <2>1 DEF TypeOK
      <3> QED BY <2>1, <3>1, <3>2, <3>3, NoneAssumption DEF Apart
    <2> QED BY <1>4, <2>2, <2>3 DEF Release
  <1>5. CASE UNCHANGED vars
    BY <1>5 DEF vars, Apart
  <1> QED BY <1>1, <1>2, <1>3, <1>4, <1>5 DEF Next

(* No connection is ever used by two MysqlConn objects, or used while idle. *)
THEOREM ConnectionsNotShared == Spec => []NoSharedConnection
  <1>1. Init => Apart
    BY DEF Init, Apart
  <1>2. PoolInv /\ Apart => NoSharedConnection
    BY ApartIsNotShared DEF PoolInv
  <1> QED BY <1>1, <1>2, PoolInit, PoolStep, ApartStep, PTL DEF Spec
=============================================================================
