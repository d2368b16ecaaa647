--------------------------- MODULE MQClientsProofs ---------------------------
EXTENDS MQClients, FiniteSetTheorems, SequenceTheorems, FunctionTheorems,
        WellFoundedInduction, TLAPS

(* What a consumer holds of the broker and what it holds of the process. *)
Tagged(t) == [task |-> t, tagged |-> TRUE]
Plain(t)  == [task |-> t, tagged |-> FALSE]

(* A consumer holds nothing or a task. *)
HeldInv == \A c \in Consumers :
    held[c] = Nothing \/ \E t \in Tasks : held[c] = Tagged(t) \/ held[c] = Plain(t)

(* NoTaskLost with room for what is acknowledged: the broker may still drop one
   delivery for every acknowledgement it has not seen, and only for those. *)
NotLost(t) == Copies(t) + done[t] + lost[t] >= sent[t] + Total(wire, AckFrame(t))

(* DuplicatesNeedAFault with what can still be taken. *)
Fresh(t) ==
    breaks = 0 /\ restarts = 0 =>
        taken[t] + Occurrences(broker, t) + Total(wire, PublishFrame(t)) + Total(local, t) <= sent[t]

CountInv == \A t \in Tasks : NotLost(t) /\ Fresh(t)

(* DeliveredIsHeldOrAcked, for one process.  Without a live connection it has
   nothing on its way and nothing delivered; while it works on a delivery, no
   acknowledgement of it is on its way. *)
OneLink(p) ==
    /\ link[p] # "up" => wire[p] = <<>> /\ unacked[p] = <<>>
    /\ link[p] = "up" /\ p \in Consumers /\ (\E t \in Tasks : held[p] = Tagged(t)) =>
         \A i \in 1..Len(wire[p]) : wire[p][i].kind # "ack"
    /\ link[p] = "up" =>
         /\ Len(unacked[p]) <= 1
         /\ \A i \in 1..Len(unacked[p]) :
              \/ p \in Consumers /\ held[p] = Tagged(unacked[p][i])
              \/ Occurrences(wire[p], AckFrame(unacked[p][i])) = 1

LinkInv == \A p \in Procs : OneLink(p)

QueueInv == TypeOK /\ HeldInv /\ CountInv /\ LinkInv

LEMMA MessagesAre ==
    /\ \A t, x : /\ Tagged(t) = Tagged(x) <=> t = x
                 /\ Plain(t) = Plain(x) <=> t = x
                 /\ Tagged(t) # Plain(x)
    /\ \A t : /\ Tagged(t).task = t /\ Tagged(t).tagged
              /\ Plain(t).task = t /\ ~Plain(t).tagged
    /\ Nothing = Plain(NoTask)
    /\ \A t \in Tasks \cup {NoTask} :
         {Tagged(t), Plain(t)} \subseteq [task : Tasks \cup {NoTask}, tagged : BOOLEAN]
    /\ \A t \in Tasks : Nothing # Tagged(t) /\ Nothing # Plain(t)
  <1>1. /\ \A t, x : Tagged(t) = Tagged(x) <=> t = x
        /\ \A t : Tagged(t).task = t /\ Tagged(t).tagged
    BY DEF Tagged
  <1>2. /\ \A t, x : Plain(t) = Plain(x) <=> t = x
        /\ \A t : Plain(t).task = t /\ ~Plain(t).tagged
    BY DEF Plain
  <1>3. \A t, x : Tagged(t) # Plain(x)
    BY DEF Tagged, Plain
  <1>4. Nothing = Plain(NoTask)
    BY DEF Plain, Nothing
  <1>5. ASSUME NEW t \in Tasks \cup {NoTask}
        PROVE  /\ Tagged(t) \in [task : Tasks \cup {NoTask}, tagged : BOOLEAN]
               /\ Plain(t) \in [task : Tasks \cup {NoTask}, tagged : BOOLEAN]
    BY DEF Tagged, Plain
  <1>6. \A t \in Tasks : Nothing # Tagged(t) /\ Nothing # Plain(t)
    BY <1>2, <1>3, <1>4, NoTaskAssumption
  <1> QED BY <1>1, <1>2, <1>3, <1>4, <1>5, <1>6

-----------------------------------------------------------------------------
(* Counting in queues. *)

LEMMA OccurrencesType ==
    ASSUME NEW S, NEW q \in Seq(S), NEW x
    PROVE  /\ Positions(q, x) \subseteq 1..Len(q) /\ IsFiniteSet(Positions(q, x))
           /\ Occurrences(q, x) \in Nat
           /\ Occurrences(q, x) = 0 <=> \A i \in 1..Len(q) : q[i] # x
  <1>1. Positions(q, x) \in SUBSET (1..Len(q)) /\ IsFiniteSet(1..Len(q))
    BY FS_Interval DEF Positions
  <1>2. IsFiniteSet(Positions(q, x))
    BY <1>1, FS_Subset
  <1>3. Positions(q, x) = {} <=> \A i \in 1..Len(q) : q[i] # x
    BY DEF Positions
  <1> QED BY <1>1, <1>2, <1>3, FS_CardinalityType, FS_EmptySet DEF Occurrences

LEMMA OccurrencesEmpty == \A x : Occurrences(<<>>, x) = 0
  <1>1. \A x : Positions(<<>>, x) = {}
    BY DEF Positions
  <1> QED BY <1>1, FS_EmptySet DEF Occurrences

(* r is q without its k-th element, which was all that one occurrence less. *)
Lacks(r, q, k) ==
    /\ k \in 1..Len(q) /\ Len(r) = Len(q) - 1
    /\ \A i \in 1..Len(r) : r[i] = IF i < k THEN q[i] ELSE q[i + 1]

LEMMA WithoutOne ==
    ASSUME NEW S, NEW q \in Seq(S), NEW r \in Seq(S), NEW k, Lacks(r, q, k), NEW x
    PROVE  Occurrences(q, x) = Occurrences(r, x) + IF q[k] = x THEN 1 ELSE 0
  <1> DEFINE P == Positions(q, x) \ {k}
             f == [i \in Positions(r, x) |-> IF i < k THEN i ELSE i + 1]
  <1> USE DEF Lacks
  <1>1. IsFiniteSet(Positions(q, x)) /\ IsFiniteSet(Positions(r, x)) /\ Len(q) \in Nat /\ Len(r) \in Nat
    BY OccurrencesType
  <1>2. \A i \in Positions(r, x) : i \in 1..Len(r) /\ r[i] = x
    BY DEF Positions
  <1>3. \A i \in Positions(r, x) : f[i] \in P
    BY <1>1, <1>2 DEF Positions
  <1>4. \A i, j \in Positions(r, x) : f[i] = f[j] => i = j
    BY <1>1, <1>2
  <1>5. \A j \in P : \E i \in Positions(r, x) : f[i] = j
    <2> TAKE j \in P
    <2>1. j \in 1..Len(q) /\ q[j] = x /\ j # k
      BY DEF Positions
    <2>2. CASE j < k
      <3>1. j \in 1..Len(r) /\ r[j] = x
        BY <1>1, <2>1, <2>2
      <3> QED BY <2>2, <3>1 DEF Positions
    <2>3. CASE j > k
      <3>1. j - 1 \in 1..Len(r) /\ r[j - 1] = x /\ ~(j - 1 < k) /\ (j - 1) + 1 = j
        BY <1>1, <2>1, <2>3
      <3>2. j - 1 \in Positions(r, x)
        BY <3>1 DEF Positions
      <3> QED BY <3>1, <3>2
    <2> QED BY <1>1, <2>1, <2>2, <2>3
  <1>6. f \in Bijection(Positions(r, x), P)
    BY <1>3, <1>4, <1>5, Fun_IsBij
  <1>7. Cardinality(P) = Cardinality(Positions(r, x))
    BY <1>1, <1>6, FS_Bijection DEF ExistsBijection
  <1>8. Cardinality(P) = Cardinality(Positions(q, x)) - IF q[k] = x THEN 1 ELSE 0
    <2>1. k \in Positions(q, x) <=> q[k] = x
      BY DEF Positions
    <2>2. Cardinality(P) = IF k \in Positions(q, x) THEN Cardinality(Positions(q, x)) - 1
                                                 ELSE Cardinality(Positions(q, x))
      BY <1>1, FS_RemoveElement
    <2>3. Cardinality(Positions(q, x)) \in Nat
      BY <1>1, FS_CardinalityType
    <2> HIDE DEF P
    <2> QED BY <2>1, <2>2, <2>3
  <1> QED BY <1>1, <1>7, <1>8, FS_CardinalityType DEF Occurrences

LEMMA OccurrencesTail ==
    ASSUME NEW S, NEW q \in Seq(S), q # <<>>, NEW x
    PROVE  /\ Head(q) \in S /\ Tail(q) \in Seq(S)
           /\ Occurrences(q, x) = Occurrences(Tail(q), x) + IF Head(q) = x THEN 1 ELSE 0
  <1>1. /\ Head(q) \in S /\ Tail(q) \in Seq(S) /\ Len(q) \in Nat /\ 1 \in 1..Len(q)
        /\ Len(Tail(q)) = Len(q) - 1 /\ \A i \in 1..Len(Tail(q)) : Tail(q)[i] = q[i + 1]
        /\ Head(q) = q[1]
    <2>1. Head(q) \in S /\ Tail(q) \in Seq(S) /\ Len(q) \in Nat /\ Len(q) >= 1
      OBVIOUS
    <2>2. Len(Tail(q)) = Len(q) - 1 /\ Head(q) = q[1]
      OBVIOUS
    <2>3. \A i \in 1..Len(Tail(q)) : Tail(q)[i] = q[i + 1]
      OBVIOUS
    <2>4. 1 \in 1..Len(q)
      BY <2>1
    <2> QED BY <2>1, <2>2, <2>3, <2>4
  <1> DEFINE r == Tail(q)
  <1>2. Lacks(r, q, 1) /\ r \in Seq(S)
    BY <1>1 DEF Lacks
  <1> HIDE DEF r
  <1>3. Occurrences(q, x) = Occurrences(r, x) + IF q[1] = x THEN 1 ELSE 0
    BY <1>2, WithoutOne
  <1> QED BY <1>1, <1>3 DEF r

LEMMA OccurrencesAppend ==
    ASSUME NEW S, NEW q \in Seq(S), NEW u \in S, NEW x
    PROVE  /\ Append(q, u) \in Seq(S)
           /\ Occurrences(Append(q, u), x) = Occurrences(q, x) + IF u = x THEN 1 ELSE 0
  <1> DEFINE r == Append(q, u)
  <1>1. /\ r \in Seq(S) /\ Len(q) \in Nat /\ Len(q) = Len(r) - 1 /\ Len(r) \in 1..Len(r)
        /\ r[Len(r)] = u /\ \A i \in 1..Len(q) : q[i] = r[i] /\ i < Len(r)
    BY AppendProperties
  <1> HIDE DEF r
  <1>2. Lacks(q, r, Len(r))
    BY <1>1 DEF Lacks
  <1>3. Occurrences(r, x) = Occurrences(q, x) + IF r[Len(r)] = x THEN 1 ELSE 0
    BY <1>1, <1>2, WithoutOne
  <1> QED BY <1>1, <1>3 DEF r

LEMMA OccurrencesConcat ==
    ASSUME NEW S, NEW q \in Seq(S), NEW r \in Seq(S), NEW x
    PROVE  /\ q \o r \in Seq(S)
           /\ Occurrences(q \o r, x) = Occurrences(q, x) + Occurrences(r, x)
  <1> DEFINE n == Len(q)
             P == {j \in Positions(q \o r, x) : j > n}
             f == [i \in Positions(r, x) |-> i + n]
  <1>1. /\ q \o r \in Seq(S) /\ n \in Nat /\ Len(r) \in Nat /\ Len(q \o r) = n + Len(r)
        /\ \A i \in 1..(n + Len(r)) : (q \o r)[i] = IF i <= n THEN q[i] ELSE r[i - n]
    BY ConcatProperties
  <1>2. /\ IsFiniteSet(Positions(q, x)) /\ IsFiniteSet(Positions(r, x))
    BY OccurrencesType
  <1>3. Positions(q, x) = {j \in Positions(q \o r, x) : j <= n}
    BY <1>1 DEF Positions
  <1>4. Positions(q \o r, x) = Positions(q, x) \cup P /\ Positions(q, x) \cap P = {}
    BY <1>1, <1>3 DEF Positions
  <1>5. \A i \in Positions(r, x) : f[i] \in P
    BY <1>1 DEF Positions
  <1>6. \A i, j \in Positions(r, x) : f[i] = f[j] => i = j
    BY <1>1 DEF Positions
  <1>7. \A j \in P : \E i \in Positions(r, x) : f[i] = j
    <2> TAKE j \in P
    <2>1. j - n \in Positions(r, x) /\ (j - n) + n = j
      BY <1>1 DEF Positions
    <2> QED BY <2>1
  <1>8. f \in Bijection(Positions(r, x), P)
    BY <1>5, <1>6, <1>7, Fun_IsBij
  <1>9. IsFiniteSet(P) /\ Cardinality(P) = Cardinality(Positions(r, x))
    BY <1>2, <1>8, FS_Bijection DEF ExistsBijection
  <1> HIDE DEF P
  <1>10. Cardinality(Positions(q \o r, x)) = Cardinality(Positions(q, x)) + Cardinality(P) - Cardinality({})
    BY <1>2, <1>4, <1>9, FS_Union
  <1> QED BY <1>1, <1>2, <1>9, <1>10, FS_EmptySet, FS_CardinalityType DEF Occurrences

(* A set of naturals that is not empty has a least element. *)
LEMMA LeastOfNaturals ==
    ASSUME NEW S \in SUBSET Nat, S # {}
    PROVE  \E m \in S : \A k \in S : m <= k
  <1>1. IsWellFoundedOn(OpToRel(<,Nat), Nat)
    BY NatLessThanWellFounded
  <1>2. PICK m \in S : \A k \in S : ~ (<<k, m>> \in OpToRel(<,Nat))
    BY <1>1, WFMin
  <1>3. \A k \in S : <<k, m>> \in Nat \X Nat
    OBVIOUS
  <1>4. \A k \in S : ~(k < m)
    BY <1>2, <1>3 DEF OpToRel
  <1> QED BY <1>4


(* An acknowledgement takes one delivery of its task, if there is one. *)
LEMMA OccurrencesAcknowledged ==
    ASSUME NEW S, NEW q \in Seq(S), NEW t, NEW x
    PROVE  /\ Acknowledged(q, t) \in Seq(S)
           /\ Len(Acknowledged(q, t)) <= Len(q)
           /\ Occurrences(q, x) >= Occurrences(Acknowledged(q, t), x)
           /\ x # t => Occurrences(Acknowledged(q, t), x) = Occurrences(q, x)
           /\ Occurrences(q, x) <= Occurrences(Acknowledged(q, t), x) + 1
           /\ Len(q) = 1 => Acknowledged(q, t) = IF q[1] = t THEN <<>> ELSE q
  <1>1. CASE \A i \in 1..Len(q) : q[i] # t
    <2>1. Acknowledged(q, t) = q
      BY <1>1 DEF Acknowledged
    <2> QED BY <1>1, <2>1, OccurrencesType
  <1>2. CASE \E i \in 1..Len(q) : q[i] = t
    <2> DEFINE M == {i \in 1..Len(q) : q[i] = t}
               First(i) == q[i] = t /\ \A j \in 1..(i - 1) : q[j] # t
               k == CHOOSE i \in 1..Len(q) : First(i)
               a == [i \in 1..(Len(q) - 1) |-> IF i < k THEN q[i] ELSE q[i + 1]]
    <2>1. k \in 1..Len(q) /\ q[k] = t
      <3>1. M \subseteq Nat /\ M # {}
        BY <1>2
      <3>2. PICK m \in M : \A i \in M : m <= i
        BY <3>1, LeastOfNaturals
      <3>3. m \in 1..Len(q) /\ First(m)
        BY <3>2
      <3> QED BY <3>3
    <2>2. Acknowledged(q, t) = a
      BY <1>2 DEF Acknowledged
    <2> HIDE DEF k
    <2>3. Len(q) \in Nat /\ Len(q) - 1 \in Nat
      BY <2>1
    <2>4. a \in Seq(S) /\ Len(a) = Len(q) - 1
      <3>1. \A i \in 1..(Len(q) - 1) : i \in 1..Len(q) /\ i + 1 \in 1..Len(q)
        BY <2>3
      <3>2. a \in [1..(Len(q) - 1) -> S]
        BY <3>1
      <3> QED BY <2>3, <3>2
    <2>5. \A i \in 1..Len(a) : a[i] = IF i < k THEN q[i] ELSE q[i + 1]
      BY <2>4
    <2>6. Len(q) = 1 => a = <<>>
      BY <2>4
    <2> HIDE DEF a
    <2>7. Lacks(a, q, k)
      BY <2>1, <2>4, <2>5 DEF Lacks
    <2>8. Occurrences(q, x) = Occurrences(a, x) + IF q[k] = x THEN 1 ELSE 0
      BY <2>4, <2>7, WithoutOne
    <2>9. Occurrences(a, x) \in Nat /\ Occurrences(q, x) \in Nat
      BY <2>4, OccurrencesType
    <2> QED BY <2>1, <2>2, <2>3, <2>4, <2>6, <2>8, <2>9
  <1> QED BY <1>1, <1>2

-----------------------------------------------------------------------------
(* Counting in the queues of all processes. *)

LEMMA TotalSplits ==
    ASSUME NEW S, NEW queues \in [Procs -> Seq(S)], NEW p \in Procs, NEW x
    PROVE  LET others == UNION {{r} \X Positions(queues[r], x) : r \in Procs \ {p}}
           IN  /\ Cardinality(others) \in Nat /\ Total(queues, x) \in Nat
               /\ Total(queues, x) = Cardinality(others) + Occurrences(queues[p], x)
  <1> DEFINE Of(r) == {r} \X Positions(queues[r], x)
             all == UNION {Of(r) : r \in Procs}
             others == UNION {Of(r) : r \in Procs \ {p}}
             f == [i \in Positions(queues[p], x) |-> <<p, i>>]
  <1>1. \A r \in Procs : IsFiniteSet(Of(r))
    <2> TAKE r \in Procs
    <2>1. IsFiniteSet(Positions(queues[r], x))
      BY OccurrencesType
    <2> QED BY <2>1, FS_Singleton, FS_Product
  <1>2. IsFiniteSet(all)
    <2> DEFINE Image == {Of(r) : r \in Procs}
               g == [r \in Procs |-> Of(r)]
    <2>1. g \in Surjection(Procs, Image)
      BY Fun_IsSurj
    <2>2. IsFiniteSet(Image)
      BY <2>1, ProcsAssumption, FS_Surjection
    <2> QED BY <1>1, <2>2, FS_UNION
  <1>3. all = others \cup Of(p) /\ others \cap Of(p) = {}
    OBVIOUS
  <1>4. IsFiniteSet(others) /\ IsFiniteSet(Of(p))
    <2>1. others \in SUBSET all
      BY <1>3
    <2> QED BY <1>1, <1>2, <2>1, FS_Subset
  <1>5. f \in Bijection(Positions(queues[p], x), Of(p))
    <2>1. \A i \in Positions(queues[p], x) : f[i] \in Of(p)
      OBVIOUS
    <2>2. \A i, j \in Positions(queues[p], x) : f[i] = f[j] => i = j
      OBVIOUS
    <2>3. \A u \in Of(p) : \E i \in Positions(queues[p], x) : f[i] = u
      OBVIOUS
    <2> QED BY <2>1, <2>2, <2>3, Fun_IsBij
  <1>6. Cardinality(Of(p)) = Occurrences(queues[p], x)
    BY <1>5, OccurrencesType, FS_Bijection DEF ExistsBijection, Occurrences
  <1> HIDE DEF Of
  <1>7. Cardinality(all) = Cardinality(others) + Cardinality(Of(p)) - Cardinality({})
    BY <1>3, <1>4, FS_Union
  <1>8. Cardinality(others) \in Nat /\ Cardinality(Of(p)) \in Nat /\ Cardinality({}) = 0
    BY <1>4, FS_CardinalityType, FS_EmptySet
  <1>9. Total(queues, x) = Cardinality(all)
    BY DEF Total, Of
  <1>10. Total(queues, x) = Cardinality(others) + Occurrences(queues[p], x) /\ Total(queues, x) \in Nat
    BY <1>6, <1>7, <1>8, <1>9
  <1> QED BY <1>8, <1>10 DEF Of

(* When one process's queue changes, the total changes as that queue does. *)
Updated(new, old, p, q) == new = [old EXCEPT ![p] = q]

LEMMA TotalExcept ==
    ASSUME NEW S, NEW old \in [Procs -> Seq(S)], NEW p \in Procs, NEW q \in Seq(S), NEW new,
           Updated(new, old, p, q)
    PROVE  /\ new \in [Procs -> Seq(S)] /\ new[p] = q
           /\ \A x : /\ Total(new, x) \in Nat /\ Total(old, x) \in Nat
                     /\ Occurrences(old[p], x) \in Nat /\ Occurrences(q, x) \in Nat
                     /\ Total(new, x) = Total(old, x) - Occurrences(old[p], x) + Occurrences(q, x)
  <1>1. new \in [Procs -> Seq(S)] /\ new[p] = q /\ \A r \in Procs : r # p => new[r] = old[r]
    BY DEF Updated
  <1>2. ASSUME NEW x, NEW g \in [Procs -> Seq(S)], g[p] = q, \A r \in Procs : r # p => g[r] = old[r]
        PROVE  /\ Total(g, x) \in Nat /\ Total(old, x) \in Nat
               /\ Occurrences(old[p], x) \in Nat /\ Occurrences(q, x) \in Nat
               /\ Total(g, x) = Total(old, x) - Occurrences(old[p], x) + Occurrences(q, x)
    <2> DEFINE others(f) == UNION {{r} \X Positions(f[r], x) : r \in Procs \ {p}}
    <2>1. others(g) = others(old)
      BY <1>2
    <2>2. /\ Cardinality(others(old)) \in Nat /\ Total(old, x) \in Nat
          /\ Total(old, x) = Cardinality(others(old)) + Occurrences(old[p], x)
      BY TotalSplits
    <2>3. /\ Total(g, x) \in Nat
          /\ Total(g, x) = Cardinality(others(g)) + Occurrences(g[p], x)
      BY TotalSplits
    <2>4. Occurrences(old[p], x) \in Nat /\ Occurrences(q, x) \in Nat
      BY OccurrencesType
    <2> HIDE DEF others
    <2> QED BY <1>2, <2>1, <2>2, <2>3, <2>4
  <1> QED BY <1>1, <1>2

LEMMA FramesAre ==
    /\ \A t \in Tasks \cup {Poison} : PublishFrame(t) \in Frames /\ AckFrame(t) \in Frames
    /\ \A t, x : /\ PublishFrame(t) = PublishFrame(x) <=> t = x
                 /\ AckFrame(t) = AckFrame(x) <=> t = x
                 /\ PublishFrame(t) # AckFrame(x)
    /\ \A f \in Frames : /\ f.task \in Tasks \cup {Poison} /\ f.kind \in {"publish", "ack"}
                         /\ f.kind = "publish" => f = PublishFrame(f.task)
                         /\ f.kind = "ack" => f = AckFrame(f.task)
  BY DEF Frames, PublishFrame, AckFrame

(* A poison message is acknowledged at once: no consumer holds one. *)
LEMMA PoisonNotHeld ==
    ASSUME HeldInv, NEW c \in Consumers
    PROVE  held[c] # Tagged(Poison)
  BY MessagesAre, PoisonAssumption DEF HeldInv

(* When one consumer takes or lays down a message. *)
LEMMA UntaggedChanges ==
    ASSUME NEW c \in Consumers, \A d \in Consumers : d # c => held'[d] = held[d], NEW x
    PROVE  /\ Cardinality(Untagged(x)) \in Nat /\ Cardinality(Untagged(x))' \in Nat
           /\ Cardinality(Untagged(x))' =
                Cardinality(Untagged(x))
                - (IF held[c] = Plain(x) THEN 1 ELSE 0)
                + (IF held'[c] = Plain(x) THEN 1 ELSE 0)
  <1> DEFINE U == Untagged(x)
             V == Untagged(x)'
  <1>1. IsFiniteSet(U) /\ IsFiniteSet(V)
    <2>1. U \in SUBSET Procs /\ V \in SUBSET Procs
      BY ConsumersAssumption DEF Untagged, Plain
    <2> QED BY <2>1, ProcsAssumption, FS_Subset
  <1>2. U \ {c} = V \ {c}
    BY DEF Untagged, Plain
  <1>3. /\ c \in U <=> held[c] = Plain(x)
        /\ c \in V <=> held'[c] = Plain(x)
    BY DEF Untagged, Plain
  <1> HIDE DEF U, V
  <1>4. /\ Cardinality(U \ {c}) = IF c \in U THEN Cardinality(U) - 1 ELSE Cardinality(U)
        /\ Cardinality(V \ {c}) = IF c \in V THEN Cardinality(V) - 1 ELSE Cardinality(V)
        /\ Cardinality(U) \in Nat /\ Cardinality(V) \in Nat
    BY <1>1, FS_RemoveElement, FS_CardinalityType
  <1>5. Cardinality(V) = Cardinality(U) - (IF c \in U THEN 1 ELSE 0) + (IF c \in V THEN 1 ELSE 0)
    BY <1>2, <1>4
  <1> QED BY <1>3, <1>4, <1>5 DEF U, V

(* All counts are naturals. *)
LEMMA CountsType ==
    ASSUME TypeOK, NEW t \in Tasks
    PROVE  /\ Occurrences(broker, t) \in Nat /\ Total(wire, PublishFrame(t)) \in Nat
           /\ Total(local, t) \in Nat /\ Total(unacked, t) \in Nat
           /\ Total(wire, AckFrame(t)) \in Nat /\ Cardinality(Untagged(t)) \in Nat
           /\ sent[t] \in Nat /\ taken[t] \in Nat /\ done[t] \in Nat /\ lost[t] \in Nat
  <1>1. Occurrences(broker, t) \in Nat
    BY OccurrencesType DEF TypeOK, MQTypeOK
  <1>2. ASSUME NEW S, NEW queues \in [Procs -> Seq(S)], NEW x PROVE Total(queues, x) \in Nat
    <2>1. CASE \E p : p \in Procs
      BY <2>1, TotalSplits
    <2>2. CASE ~\E p : p \in Procs
      <3>1. UNION {{p} \X Positions(queues[p], x) : p \in Procs} = {}
        BY <2>2
      <3>2. Total(queues, x) = Cardinality({})
        BY <3>1 DEF Total
      <3> QED BY <3>2, FS_EmptySet
    <2> QED BY <2>1, <2>2
  <1>3. /\ wire \in [Procs -> Seq(Frames)] /\ local \in [Procs -> Seq(Tasks)]
        /\ unacked \in [Procs -> Seq(Tasks \cup {Poison})]
    BY DEF TypeOK, MQTypeOK
  <1>4. Cardinality(Untagged(t)) \in Nat
    <2>1. Untagged(t) \in SUBSET Procs
      BY ConsumersAssumption DEF Untagged
    <2> QED BY <2>1, ProcsAssumption, FS_Subset, FS_CardinalityType
  <1>5. sent[t] \in Nat /\ taken[t] \in Nat /\ done[t] \in Nat /\ lost[t] \in Nat
    BY DEF TypeOK
  <1> QED BY <1>1, <1>2, <1>3, <1>4, <1>5

LEMMA BumpType ==
    ASSUME NEW counter \in [Tasks -> Nat], NEW t \in Tasks
    PROVE  /\ Bump(counter, t) \in [Tasks -> Nat]
           /\ \A x \in Tasks : Bump(counter, t)[x] = counter[x] + IF x = t THEN 1 ELSE 0
  BY DEF Bump

LEMMA OthersKeepLinks ==
    ASSUME LinkInv, NEW p \in Procs, OneLink(p)',
           \A r \in Procs : r # p => /\ link'[r] = link[r] /\ wire'[r] = wire[r]
                                    /\ unacked'[r] = unacked[r],
           \A c \in Consumers : c # p => held'[c] = held[c]
    PROVE  LinkInv'
  <1>1. ASSUME NEW r \in Procs, r # p PROVE OneLink(r)'
    BY <1>1 DEF LinkInv, OneLink
  <1> QED BY <1>1 DEF LinkInv

(* What an action does to the counts of task x: to its copies that are ready,
   published, local, delivered, acknowledged and held, and to sent, taken, done
   and lost. *)
Moved(x, a, w, l, u, k, h) ==
    /\ Occurrences(broker, x)' = Occurrences(broker, x) + a
    /\ Total(wire, PublishFrame(x))' = Total(wire, PublishFrame(x)) + w
    /\ Total(local, x)' = Total(local, x) + l
    /\ Total(unacked, x)' = Total(unacked, x) + u
    /\ Total(wire, AckFrame(x))' = Total(wire, AckFrame(x)) + k
    /\ Cardinality(Untagged(x))' = Cardinality(Untagged(x)) + h

Counted(x, s, n, d, o) ==
    /\ sent'[x] = sent[x] + s /\ taken'[x] = taken[x] + n
    /\ done'[x] = done[x] + d /\ lost'[x] = lost[x] + o

LEMMA Steady ==
    ASSUME TypeOK, NEW x \in Tasks
    PROVE  /\ broker' = broker => Occurrences(broker, x)' = Occurrences(broker, x) + 0
           /\ wire' = wire => /\ Total(wire, PublishFrame(x))' = Total(wire, PublishFrame(x)) + 0
                             /\ Total(wire, AckFrame(x))' = Total(wire, AckFrame(x)) + 0
           /\ local' = local => Total(local, x)' = Total(local, x) + 0
           /\ unacked' = unacked => Total(unacked, x)' = Total(unacked, x) + 0
           /\ held' = held => Cardinality(Untagged(x))' = Cardinality(Untagged(x)) + 0
           /\ sent' = sent => sent'[x] = sent[x] + 0
           /\ taken' = taken => taken'[x] = taken[x] + 0
           /\ done' = done => done'[x] = done[x] + 0
           /\ lost' = lost => lost'[x] = lost[x] + 0
  <1>1. /\ Occurrences(broker, x) \in Nat /\ Total(wire, PublishFrame(x)) \in Nat
        /\ Total(local, x) \in Nat /\ Total(unacked, x) \in Nat
        /\ Total(wire, AckFrame(x)) \in Nat /\ Cardinality(Untagged(x)) \in Nat
        /\ sent[x] \in Nat /\ taken[x] \in Nat /\ done[x] \in Nat /\ lost[x] \in Nat
    BY CountsType
  <1>2. held' = held => Untagged(x)' = Untagged(x)
    BY DEF Untagged
  <1>3. held' = held => Cardinality(Untagged(x))' = Cardinality(Untagged(x)) + 0
    BY <1>1, <1>2
  <1>4. wire' = wire => /\ Total(wire, PublishFrame(x))' = Total(wire, PublishFrame(x)) + 0
                        /\ Total(wire, AckFrame(x))' = Total(wire, AckFrame(x)) + 0
    BY <1>1
  <1>5. /\ broker' = broker => Occurrences(broker, x)' = Occurrences(broker, x) + 0
        /\ local' = local => Total(local, x)' = Total(local, x) + 0
        /\ unacked' = unacked => Total(unacked, x)' = Total(unacked, x) + 0
    BY <1>1
  <1>6. /\ sent' = sent => sent'[x] = sent[x] + 0
        /\ taken' = taken => taken'[x] = taken[x] + 0
        /\ done' = done => done'[x] = done[x] + 0
        /\ lost' = lost => lost'[x] = lost[x] + 0
    BY <1>1
  <1> QED BY <1>3, <1>4, <1>5, <1>6

(* No copy is lost if what an action takes away it counts as done or lost, and
   what it adds to the acknowledgements as done; nothing is taken twice if what
   it hands out or makes ready it takes from what was sent. *)
LEMMA CountsKeep ==
    ASSUME TypeOK, CountInv, NEW x \in Tasks,
           NEW a \in Int, NEW w \in Int, NEW l \in Int, NEW u \in Int, NEW k \in Int, NEW h \in Int,
           NEW s \in Int, NEW n \in Int, NEW d \in Int, NEW o \in Int,
           Moved(x, a, w, l, u, k, h), Counted(x, s, n, d, o),
           a + w + l + u + h + d + o >= s + k,
           breaks' = 0 /\ restarts' = 0 => breaks = 0 /\ restarts = 0 /\ a + w + l + n <= s
    PROVE  NotLost(x)' /\ Fresh(x)'
  <1>1. NotLost(x) /\ Fresh(x)
    BY DEF CountInv
  <1>2. /\ Occurrences(broker, x) \in Nat /\ Total(wire, PublishFrame(x)) \in Nat
        /\ Total(local, x) \in Nat /\ Total(unacked, x) \in Nat
        /\ Total(wire, AckFrame(x)) \in Nat /\ Cardinality(Untagged(x)) \in Nat
        /\ sent[x] \in Nat /\ taken[x] \in Nat /\ done[x] \in Nat /\ lost[x] \in Nat
    BY CountsType
  <1>3. NotLost(x)'
    <2>1. Copies(x)' = Copies(x) + a + w + l + u + h /\ Copies(x) \in Nat
      BY <1>2 DEF Copies, Moved
    <2> QED BY <1>1, <1>2, <2>1 DEF NotLost, Moved, Counted
  <1>4. Fresh(x)'
    BY <1>1, <1>2 DEF Fresh, Moved, Counted
  <1> QED BY <1>3, <1>4

-----------------------------------------------------------------------------
(* One queue changes. *)

(* The broker's queue without its first message. *)
LEMMA BrokerTail ==
    ASSUME TypeOK, broker # <<>>, broker' = Tail(broker)
    PROVE  /\ broker' \in Seq(Tasks \cup {Poison})
           /\ \A x : Occurrences(broker, x)' = Occurrences(broker, x) + (0 - IF Head(broker) = x THEN 1 ELSE 0)
  <1>1. broker \in Seq(Tasks \cup {Poison})
    BY DEF TypeOK, MQTypeOK
  <1>2. ASSUME NEW x
        PROVE  /\ Tail(broker) \in Seq(Tasks \cup {Poison})
               /\ Occurrences(broker, x) = Occurrences(Tail(broker), x) + IF Head(broker) = x THEN 1 ELSE 0
    BY <1>1, OccurrencesTail
  <1>3. \A x : Occurrences(Tail(broker), x) \in Nat
    BY <1>2, OccurrencesType
  <1> QED BY <1>2, <1>3

(* One more message in the broker's queue, or in front of it. *)
LEMMA BrokerAppend ==
    ASSUME TypeOK, NEW u \in Tasks \cup {Poison}, broker' = Append(broker, u)
    PROVE  /\ broker' \in Seq(Tasks \cup {Poison})
           /\ \A x : Occurrences(broker, x)' = Occurrences(broker, x) + IF u = x THEN 1 ELSE 0
  <1>1. broker \in Seq(Tasks \cup {Poison})
    BY DEF TypeOK, MQTypeOK
  <1>2. \A x : /\ Append(broker, u) \in Seq(Tasks \cup {Poison})
              /\ Occurrences(Append(broker, u), x) = Occurrences(broker, x) + IF u = x THEN 1 ELSE 0
    BY <1>1, OccurrencesAppend
  <1> QED BY <1>2

(* What one process writes to its socket, and what it has delivered. *)
LEMMA WireAppend ==
    ASSUME TypeOK, NEW p \in Procs, NEW f \in Frames, Updated(wire', wire, p, Append(wire[p], f))
    PROVE  /\ wire' \in [Procs -> Seq(Frames)]
           /\ \A x : /\ Total(wire, x)' = Total(wire, x) + IF f = x THEN 1 ELSE 0
                     /\ Occurrences(wire'[p], x) = Occurrences(wire[p], x) + IF f = x THEN 1 ELSE 0
  <1> DEFINE q == Append(wire[p], f)
  <1>1. wire \in [Procs -> Seq(Frames)] /\ wire[p] \in Seq(Frames)
    BY DEF TypeOK, MQTypeOK
  <1>2. /\ q \in Seq(Frames)
        /\ \A x : Occurrences(q, x) = Occurrences(wire[p], x) + IF f = x THEN 1 ELSE 0
    BY <1>1, OccurrencesAppend
  <1>3. Updated(wire', wire, p, q)
    OBVIOUS
  <1> HIDE DEF q
  <1>4. /\ wire' \in [Procs -> Seq(Frames)] /\ wire'[p] = q
        /\ \A x : /\ Total(wire', x) \in Nat /\ Total(wire, x) \in Nat
                  /\ Occurrences(wire[p], x) \in Nat /\ Occurrences(q, x) \in Nat
                  /\ Total(wire', x) = Total(wire, x) - Occurrences(wire[p], x) + Occurrences(q, x)
    BY <1>1, <1>2, <1>3, TotalExcept
  <1> QED BY <1>2, <1>4

LEMMA UnackedAppend ==
    ASSUME TypeOK, NEW p \in Procs, NEW f \in Tasks \cup {Poison}, Updated(unacked', unacked, p, Append(unacked[p], f))
    PROVE  /\ unacked' \in [Procs -> Seq(Tasks \cup {Poison})] /\ unacked'[p] = Append(unacked[p], f)
           /\ \A x : Total(unacked, x)' = Total(unacked, x) + IF f = x THEN 1 ELSE 0
  <1> DEFINE q == Append(unacked[p], f)
  <1>1. unacked \in [Procs -> Seq(Tasks \cup {Poison})] /\ unacked[p] \in Seq(Tasks \cup {Poison})
    BY DEF TypeOK, MQTypeOK
  <1>2. /\ q \in Seq(Tasks \cup {Poison})
        /\ \A x : Occurrences(q, x) = Occurrences(unacked[p], x) + IF f = x THEN 1 ELSE 0
    BY <1>1, OccurrencesAppend
  <1>3. Updated(unacked', unacked, p, q)
    OBVIOUS
  <1> HIDE DEF q
  <1>4. /\ unacked' \in [Procs -> Seq(Tasks \cup {Poison})] /\ unacked'[p] = q
        /\ \A x : /\ Total(unacked', x) \in Nat /\ Total(unacked, x) \in Nat
                  /\ Occurrences(unacked[p], x) \in Nat /\ Occurrences(q, x) \in Nat
                  /\ Total(unacked', x) = Total(unacked, x) - Occurrences(unacked[p], x) + Occurrences(q, x)
    BY <1>1, <1>2, <1>3, TotalExcept
  <1>5. \A x : Total(unacked', x) = Total(unacked, x) + IF f = x THEN 1 ELSE 0
    BY <1>2, <1>4
  <1> QED BY <1>2, <1>4, <1>5 DEF q

-----------------------------------------------------------------------------
(* publish_judge_task *)

LEMMA SendChanges ==
    ASSUME TypeOK, NEW p \in Procs, NEW t \in Tasks, Send(p, t)
    PROVE  /\ wire' \in [Procs -> Seq(Frames)]
           /\ \A x \in Tasks :
                /\ Total(wire, PublishFrame(x))' = Total(wire, PublishFrame(x)) + IF x = t THEN 1 ELSE 0
                /\ Total(wire, AckFrame(x))' = Total(wire, AckFrame(x))
           /\ \A x : Occurrences(wire'[p], AckFrame(x)) = Occurrences(wire[p], AckFrame(x))
  <1>1. Updated(wire', wire, p, Append(wire[p], PublishFrame(t))) /\ PublishFrame(t) \in Frames
    BY FramesAre DEF Send, Updated
  <1>2. /\ wire' \in [Procs -> Seq(Frames)]
        /\ \A x : /\ Total(wire, x)' = Total(wire, x) + IF PublishFrame(t) = x THEN 1 ELSE 0
                  /\ Occurrences(wire'[p], x) = Occurrences(wire[p], x) + IF PublishFrame(t) = x THEN 1 ELSE 0
    BY <1>1, WireAppend
  <1>3. ASSUME NEW x \in Tasks
        PROVE  /\ Total(wire, PublishFrame(x))' = Total(wire, PublishFrame(x)) + IF x = t THEN 1 ELSE 0
               /\ Total(wire, AckFrame(x))' = Total(wire, AckFrame(x))
    BY <1>2, CountsType, FramesAre
  <1>4. ASSUME NEW x PROVE Occurrences(wire'[p], AckFrame(x)) = Occurrences(wire[p], AckFrame(x))
    <2>1. Occurrences(wire[p], AckFrame(x)) \in Nat
      BY OccurrencesType DEF TypeOK, MQTypeOK
    <2> QED BY <1>2, <2>1, FramesAre
  <1> QED BY <1>2, <1>3, <1>4

LEMMA QueueLocallyChanges ==
    ASSUME TypeOK, NEW p \in Procs, NEW t \in Tasks, QueueLocally(p, t)
    PROVE  /\ local' \in [Procs -> Seq(Tasks)]
           /\ \A x \in Tasks : Total(local, x)' = Total(local, x) + IF x = t THEN 1 ELSE 0
  <1> DEFINE q == Append(local[p], t)
  <1>1. local \in [Procs -> Seq(Tasks)] /\ local[p] \in Seq(Tasks)
    BY DEF TypeOK, MQTypeOK
  <1>2. /\ q \in Seq(Tasks)
        /\ \A x : Occurrences(q, x) = Occurrences(local[p], x) + IF t = x THEN 1 ELSE 0
        /\ \A x : Occurrences(local[p], x) \in Nat
    BY <1>1, OccurrencesAppend, OccurrencesType
  <1>3. Updated(local', local, p, q)
    BY DEF QueueLocally, Updated
  <1> HIDE DEF q
  <1>4. /\ local' \in [Procs -> Seq(Tasks)]
        /\ \A x : /\ Total(local', x) \in Nat /\ Total(local, x) \in Nat
                  /\ Total(local', x) = Total(local, x) - Occurrences(local[p], x) + Occurrences(q, x)
    BY <1>1, <1>2, <1>3, TotalExcept
  <1>5. \A x : Total(local', x) = Total(local, x) + IF x = t THEN 1 ELSE 0
    BY <1>2, <1>4
  <1> QED BY <1>4, <1>5

LEMMA PublishKeeps ==
    ASSUME QueueInv, NEW p \in Procs, NEW t \in Tasks, PublishTask(p, t)
    PROVE  QueueInv'
  <1>1. /\ TypeOK /\ HeldInv /\ CountInv /\ LinkInv
        /\ UNCHANGED <<held, taken, done, breaks, restarts, poisons>>
        /\ sent' \in [Tasks -> Nat]
        /\ \A x \in Tasks : sent'[x] = sent[x] + IF x = t THEN 1 ELSE 0
    BY BumpType DEF PublishTask, QueueInv, TypeOK
  <1>3. HeldInv'
    BY <1>1 DEF HeldInv
  <1>4. CASE Send(p, t) /\ UNCHANGED lost
    <2>1. /\ UNCHANGED <<local, broker, unacked, lost>>
          /\ wire' \in [Procs -> Seq(Frames)]
          /\ \A x \in Tasks :
               /\ Total(wire, PublishFrame(x))' = Total(wire, PublishFrame(x)) + IF x = t THEN 1 ELSE 0
               /\ Total(wire, AckFrame(x))' = Total(wire, AckFrame(x))
          /\ link' \in [Procs -> Links] /\ link'[p] = "up" /\ link[p] \in {"unprobed", "up"}
      BY <1>1, <1>4, SendChanges DEF Send, TypeOK, MQTypeOK, Links
    <2>2. TypeOK'
      BY <1>1, <2>1 DEF TypeOK, MQTypeOK
    <2>3. CountInv'
      <3> SUFFICES ASSUME NEW x \in Tasks PROVE NotLost(x)' /\ Fresh(x)'
        BY DEF CountInv
      <3> DEFINE i == IF x = t THEN 1 ELSE 0
      <3>3. /\ Total(wire, PublishFrame(x))' = Total(wire, PublishFrame(x)) + i
            /\ Total(wire, AckFrame(x))' = Total(wire, AckFrame(x)) + 0
            /\ sent'[x] = sent[x] + i
        BY <1>1, <2>1, CountsType
      <3> HIDE DEF i
      <3>1. Moved(x, 0, i, 0, 0, 0, 0) /\ Counted(x, i, 0, 0, 0)
        BY <1>1, <2>1, <3>3, Steady DEF Moved, Counted
      <3>2. i \in Int
        BY DEF i
      <3> QED BY <1>1, <3>1, <3>2, CountsKeep
    <2>5. OneLink(p)'
      <3>1. OneLink(p) /\ wire[p] \in Seq(Frames)
        BY <1>1 DEF LinkInv, TypeOK, MQTypeOK
      <3>2. \A x : Occurrences(wire'[p], AckFrame(x)) = Occurrences(wire[p], AckFrame(x))
        BY <1>1, <1>4, SendChanges
      <3>3. wire'[p] = Append(wire[p], PublishFrame(t)) /\ PublishFrame(t).kind = "publish"
        BY <1>4 DEF Send, PublishFrame, TypeOK, MQTypeOK, QueueInv
      <3>4. (\A i \in 1..Len(wire[p]) : wire[p][i].kind # "ack")
              => \A i \in 1..Len(wire'[p]) : wire'[p][i].kind # "ack"
        BY <3>1, <3>3
      <3>5. CASE link[p] = "up"
        BY <1>1, <2>1, <3>1, <3>2, <3>4, <3>5 DEF OneLink
      <3>6. CASE link[p] = "unprobed"
        <4>1. wire[p] = <<>> /\ unacked[p] = <<>>
          BY <3>1, <3>6 DEF OneLink
        <4>2. \A i \in 1..Len(wire'[p]) : wire'[p][i].kind # "ack"
          BY <3>4, <4>1
        <4>3. unacked'[p] = <<>> /\ link'[p] = "up"
          BY <2>1, <4>1
        <4> QED BY <4>2, <4>3 DEF OneLink
      <3> QED BY <2>1, <3>5, <3>6
    <2>6. LinkInv'
      BY <1>1, <1>4, <2>5, OthersKeepLinks DEF Send, TypeOK, MQTypeOK
    <2> QED BY <1>3, <2>2, <2>3, <2>6 DEF QueueInv
  <1>5. CASE QueueLocally(p, t) /\ UNCHANGED lost
    <2>1. /\ UNCHANGED <<wire, broker, unacked, lost>>
          /\ local' \in [Procs -> Seq(Tasks)]
          /\ \A x \in Tasks : Total(local, x)' = Total(local, x) + IF x = t THEN 1 ELSE 0
          /\ link' \in [Procs -> Links] /\ link'[p] = "local" /\ link[p] # "up"
      BY <1>1, <1>5, QueueLocallyChanges DEF QueueLocally, OneLink, LinkInv, TypeOK, MQTypeOK, Links
    <2>2. TypeOK'
      BY <1>1, <2>1 DEF TypeOK, MQTypeOK
    <2>3. CountInv'
      <3> SUFFICES ASSUME NEW x \in Tasks PROVE NotLost(x)' /\ Fresh(x)'
        BY DEF CountInv
      <3> DEFINE i == IF x = t THEN 1 ELSE 0
      <3>3. Total(local, x)' = Total(local, x) + i /\ sent'[x] = sent[x] + i
        BY <1>1, <2>1
      <3> HIDE DEF i
      <3>1. Moved(x, 0, 0, i, 0, 0, 0) /\ Counted(x, i, 0, 0, 0)
        BY <1>1, <2>1, <3>3, Steady DEF Moved, Counted
      <3>2. i \in Int
        BY DEF i
      <3> QED BY <1>1, <3>1, <3>2, CountsKeep
    <2>5. OneLink(p)'
      BY <1>1, <2>1 DEF LinkInv, OneLink
    <2>6. LinkInv'
      BY <1>1, <1>5, <2>5, OthersKeepLinks DEF QueueLocally, TypeOK, MQTypeOK
    <2> QED BY <1>3, <2>2, <2>3, <2>6 DEF QueueInv
  <1>6. CASE SendIntoDeadSocket(p, t) /\ lost' = Bump(lost, t)
    <2>1. /\ UNCHANGED <<link, wire, local, broker, unacked>>
          /\ lost' \in [Tasks -> Nat] /\ \A x \in Tasks : lost'[x] = lost[x] + IF x = t THEN 1 ELSE 0
      BY <1>1, <1>6, BumpType DEF SendIntoDeadSocket, TypeOK, mqVars
    <2>2. TypeOK'
      BY <1>1, <2>1 DEF TypeOK, MQTypeOK
    <2>3. CountInv'
      <3> SUFFICES ASSUME NEW x \in Tasks PROVE NotLost(x)' /\ Fresh(x)'
        BY DEF CountInv
      <3> DEFINE i == IF x = t THEN 1 ELSE 0
      <3>1. Moved(x, 0, 0, 0, 0, 0, 0) /\ Counted(x, i, 0, 0, i)
        BY <1>1, <2>1, Steady DEF Moved, Counted
      <3>2. i \in Int /\ i >= 0
        OBVIOUS
      <3> HIDE DEF i
      <3> QED BY <1>1, <3>1, <3>2, CountsKeep
    <2>5. LinkInv'
      BY <1>1, <2>1 DEF LinkInv, OneLink
    <2> QED BY <1>3, <2>2, <2>3, <2>5 DEF QueueInv
  <1> QED BY <1>4, <1>5, <1>6 DEF PublishTask

-----------------------------------------------------------------------------
(* try_pop_judge_task *)

(* A consumer that holds nothing and has nothing on its way has nothing
   delivered. *)
LEMMA NothingDelivered ==
    ASSUME QueueInv, NEW c \in Consumers, held[c] = Nothing, wire[c] = <<>>
    PROVE  unacked[c] = <<>>
  <1>1. c \in Procs /\ OneLink(c) /\ unacked[c] \in Seq(Tasks \cup {Poison})
    BY ConsumersAssumption DEF QueueInv, LinkInv, TypeOK, MQTypeOK
  <1>2. CASE link[c] # "up"
    BY <1>1, <1>2 DEF OneLink
  <1>3. CASE link[c] = "up"
    <2>1. ASSUME NEW i \in 1..Len(unacked[c]) PROVE FALSE
      <3>1. Occurrences(<<>>, AckFrame(unacked[c][i])) = 0
        BY OccurrencesEmpty
      <3>2. held[c] # Tagged(unacked[c][i])
        BY MessagesAre
      <3> QED BY <1>1, <1>3, <3>1, <3>2 DEF OneLink
    <2>2. Len(unacked[c]) \in Nat /\ ~(Len(unacked[c]) >= 1)
      BY <1>1, <2>1
    <2> QED BY <1>1, <2>2
  <1> QED BY <1>2, <1>3

(* Taking the first task of the in-process queue. *)
LEMMA PopLocallyChanges ==
    ASSUME TypeOK, NEW p \in Procs, NEW t \in Tasks, Pop(p, t, FALSE)
    PROVE  /\ local' \in [Procs -> Seq(Tasks)]
           /\ \A x : Total(local, x)' = Total(local, x) + (0 - IF t = x THEN 1 ELSE 0)
  <1>1. /\ local[p] # <<>> /\ t = Head(local[p])
    BY DEF Pop
  <1> DEFINE q == Tail(local[p])
  <1>2. local \in [Procs -> Seq(Tasks)] /\ local[p] \in Seq(Tasks)
    BY DEF TypeOK, MQTypeOK
  <1>3. /\ q \in Seq(Tasks)
        /\ \A x : Occurrences(local[p], x) = Occurrences(q, x) + IF t = x THEN 1 ELSE 0
    BY <1>1, <1>2, OccurrencesTail
  <1>4. Updated(local', local, p, q)
    BY DEF Pop, Updated
  <1> HIDE DEF q
  <1>5. /\ local' \in [Procs -> Seq(Tasks)]
        /\ \A x : /\ Total(local', x) \in Nat /\ Total(local, x) \in Nat
                  /\ Occurrences(q, x) \in Nat /\ Occurrences(local[p], x) \in Nat
                  /\ Total(local', x) = Total(local, x) - Occurrences(local[p], x) + Occurrences(q, x)
    <2>1. q \in Seq(Tasks)
      BY <1>3
    <2> QED BY <1>2, <2>1, <1>4, TotalExcept
  <1> QED BY <1>3, <1>5

LEMMA TakeKeeps ==
    ASSUME QueueInv, NEW c \in Consumers, Take(c)
    PROVE  QueueInv'
  <1>1. /\ TypeOK /\ HeldInv /\ CountInv /\ LinkInv /\ c \in Procs
        /\ UNCHANGED <<sent, done, lost, breaks, restarts, poisons>> /\ held[c] = Nothing
    BY ConsumersAssumption DEF Take, QueueInv
  <1>2. PICK t \in Tasks :
           /\ taken' = Bump(taken, t)
           /\ \/ Pop(c, t, TRUE) /\ held' = [held EXCEPT ![c] = Tagged(t)]
              \/ Pop(c, t, FALSE) /\ held' = [held EXCEPT ![c] = Plain(t)]
    <2>1. PICK t \in Tasks \cup {Poison}, tagged \in BOOLEAN :
             /\ Pop(c, t, tagged)
             /\ held'  = [held EXCEPT ![c] = [task |-> t, tagged |-> tagged]]
             /\ taken' = Bump(taken, t)
      BY DEF Take
    <2>2. t \in Tasks
      <3>1. local[c] \in Seq(Tasks)
        BY <1>1 DEF TypeOK, MQTypeOK
      <3>2. local[c] # <<>> => Head(local[c]) \in Tasks
        BY <3>1
      <3> QED BY <2>1, <3>2 DEF Pop
    <2> QED BY <2>1, <2>2 DEF Tagged, Plain
  <1>3. /\ taken' \in [Tasks -> Nat]
        /\ \A x \in Tasks : taken'[x] = taken[x] + IF x = t THEN 1 ELSE 0
    BY <1>1, <1>2, BumpType DEF TypeOK
  <1>4. /\ held' \in [Consumers -> [task : Tasks \cup {NoTask}, tagged : BOOLEAN]]
        /\ held'[c] \in {Tagged(t), Plain(t)}
        /\ \A d \in Consumers : d # c => held'[d] = held[d]
    <2> DEFINE Messages == [task : Tasks \cup {NoTask}, tagged : BOOLEAN]
    <2>1. Tagged(t) \in Messages /\ Plain(t) \in Messages
      BY MessagesAre
    <2>2. held \in [Consumers -> Messages]
      BY <1>1 DEF TypeOK
    <2> HIDE DEF Messages
    <2>3. /\ held' \in [Consumers -> Messages]
          /\ held'[c] \in {Tagged(t), Plain(t)}
          /\ \A d \in Consumers : d # c => held'[d] = held[d]
      BY <1>2, <2>1, <2>2
    <2> QED BY <2>3 DEF Messages
  <1>5. HeldInv'
    BY <1>1, <1>4 DEF HeldInv
  <1>6. \A x \in Tasks : held[c] # Plain(x)
    BY <1>1, MessagesAre
  <1>7. CASE Pop(c, t, TRUE) /\ held' = [held EXCEPT ![c] = Tagged(t)]
    <2>0. held'[c] = Tagged(t)
      BY <1>1, <1>7 DEF TypeOK
    <2>1. /\ link[c] \in {"unprobed", "up"} /\ wire[c] = <<>> /\ broker # <<>> /\ t = Head(broker)
          /\ link' = [link EXCEPT ![c] = "up"] /\ broker' = Tail(broker)
          /\ unacked' = [unacked EXCEPT ![c] = Append(@, t)] /\ UNCHANGED <<wire, local>>
      BY <1>7 DEF Pop
    <2>2. /\ broker' \in Seq(Tasks \cup {Poison})
          /\ \A x : Occurrences(broker, x)' = Occurrences(broker, x) + (0 - IF t = x THEN 1 ELSE 0)
      BY <1>1, <2>1, BrokerTail
    <2>3. unacked[c] = <<>>
      BY <1>1, <2>1, NothingDelivered
    <2>4. /\ unacked' \in [Procs -> Seq(Tasks \cup {Poison})] /\ unacked'[c] = Append(<<>>, t)
          /\ \A x : Total(unacked, x)' = Total(unacked, x) + IF t = x THEN 1 ELSE 0
      <3>1. Updated(unacked', unacked, c, Append(unacked[c], t))
        BY <2>1 DEF Updated
      <3> QED BY <1>1, <2>3, <3>1, UnackedAppend
    <2>9. TypeOK'
      <3>1. MQTypeOK'
        BY <1>1, <2>1, <2>2, <2>4 DEF TypeOK, MQTypeOK, Links
      <3>2. {sent, taken, done, lost}' \subseteq [Tasks -> Nat]
        BY <1>1, <1>3 DEF TypeOK
      <3>3. breaks' \in 0..MaxBreaks /\ restarts' \in 0..MaxRestarts /\ poisons' \in 0..MaxPoison
        BY <1>1 DEF TypeOK
      <3> QED BY <1>4, <3>1, <3>2, <3>3 DEF TypeOK
    <2>10. CountInv'
      <3> SUFFICES ASSUME NEW x \in Tasks PROVE NotLost(x)' /\ Fresh(x)'
        BY DEF CountInv
      <3> DEFINE i == IF x = t THEN 1 ELSE 0
      <3>1. /\ Occurrences(broker, x)' = Occurrences(broker, x) + (0 - i)
            /\ Total(unacked, x)' = Total(unacked, x) + i
        BY <2>2, <2>4
      <3>2. Cardinality(Untagged(x))' = Cardinality(Untagged(x)) + 0 /\ taken'[x] = taken[x] + i
        <4>1. held'[c] # Plain(x)
          BY <2>0, MessagesAre
        <4> QED BY <1>3, <1>4, <1>6, <4>1, UntaggedChanges
      <3>3. i \in Int /\ i \in Nat /\ 0 - i \in Int
        OBVIOUS
      <3> HIDE DEF i
      <3>4. Moved(x, 0 - i, 0, 0, i, 0, 0) /\ Counted(x, 0, i, 0, 0)
        BY <1>1, <2>1, <3>1, <3>2, Steady DEF Moved, Counted
      <3> QED BY <1>1, <3>3, <3>4, CountsKeep
    <2>11. OneLink(c)'
      <3>1. link'[c] = "up" /\ wire'[c] = <<>>
        BY <1>1, <2>1 DEF TypeOK, MQTypeOK
      <3>2. held'[c] = Tagged(t) /\ unacked'[c][1] = t /\ Len(unacked'[c]) = 1
        BY <2>0, <2>4
      <3> QED BY <3>1, <3>2 DEF OneLink
    <2>12. LinkInv'
      BY <1>1, <1>4, <2>1, <2>11, OthersKeepLinks DEF TypeOK, MQTypeOK
    <2> QED BY <1>5, <2>9, <2>10, <2>12 DEF QueueInv
  <1>8. CASE Pop(c, t, FALSE) /\ held' = [held EXCEPT ![c] = Plain(t)]
    <2>0. held'[c] = Plain(t)
      BY <1>1, <1>8 DEF TypeOK
    <2>1. /\ link[c] = "local" /\ local[c] # <<>> /\ t = Head(local[c])
          /\ local' = [local EXCEPT ![c] = Tail(@)] /\ UNCHANGED <<link, wire, broker, unacked>>
      BY <1>8 DEF Pop
    <2>5. /\ local' \in [Procs -> Seq(Tasks)]
          /\ \A x : Total(local, x)' = Total(local, x) + (0 - IF t = x THEN 1 ELSE 0)
      BY <1>1, <1>8, PopLocallyChanges
    <2>6. TypeOK'
      BY <1>1, <1>3, <1>4, <2>1, <2>5 DEF TypeOK, MQTypeOK
    <2>7. CountInv'
      <3> SUFFICES ASSUME NEW x \in Tasks PROVE NotLost(x)' /\ Fresh(x)'
        BY DEF CountInv
      <3> DEFINE i == IF x = t THEN 1 ELSE 0
      <3>1. Total(local, x)' = Total(local, x) + (0 - i)
        BY <2>5
      <3>2. Cardinality(Untagged(x))' = Cardinality(Untagged(x)) + i /\ taken'[x] = taken[x] + i
        <4>1. held'[c] = Plain(x) <=> x = t
          BY <2>0, MessagesAre
        <4> QED BY <1>3, <1>4, <1>6, <4>1, UntaggedChanges
      <3>3. i \in Int /\ i \in Nat /\ 0 - i \in Int
        OBVIOUS
      <3> HIDE DEF i
      <3>4. Moved(x, 0, 0, 0 - i, 0, 0, i) /\ Counted(x, 0, i, 0, 0)
        BY <1>1, <2>1, <3>1, <3>2, Steady DEF Moved, Counted
      <3> QED BY <1>1, <3>3, <3>4, CountsKeep
    <2>8. OneLink(c)'
      BY <1>1, <2>1 DEF LinkInv, OneLink
    <2>9. LinkInv'
      BY <1>1, <1>4, <2>1, <2>8, OthersKeepLinks
    <2> QED BY <1>5, <2>6, <2>7, <2>9 DEF QueueInv
  <1> QED BY <1>2, <1>7, <1>8

LEMMA PollKeeps ==
    ASSUME QueueInv, NEW c \in Consumers, Poll(c)
    PROVE  QueueInv'
  <1>1. /\ TypeOK /\ HeldInv /\ CountInv /\ LinkInv /\ c \in Procs
        /\ UNCHANGED <<held, sent, taken, done, lost, breaks, restarts, poisons>> /\ held[c] = Nothing
        /\ OneLink(c)
    BY ConsumersAssumption DEF Poll, QueueInv, clientVars, LinkInv
  <1>2. HeldInv'
    BY <1>1 DEF HeldInv
  <1>3. CASE PopNothing(c)
    <2>1. TypeOK'
      BY <1>1, <1>3 DEF PopNothing, TypeOK, MQTypeOK, Links
    <2>2. CountInv'
      <3> SUFFICES ASSUME NEW x \in Tasks PROVE NotLost(x)' /\ Fresh(x)'
        BY DEF CountInv
      <3>1. Moved(x, 0, 0, 0, 0, 0, 0) /\ Counted(x, 0, 0, 0, 0)
        BY <1>1, <1>3, Steady DEF PopNothing, Moved, Counted
      <3> QED BY <1>1, <3>1, CountsKeep
    <2>3. OneLink(c)'
      <3>1. /\ UNCHANGED <<wire, unacked>> /\ wire[c] = <<>> /\ unacked[c] = <<>>
        BY <1>1, <1>3 DEF PopNothing, OneLink
      <3> QED BY <3>1 DEF OneLink
    <2>4. LinkInv'
      BY <1>1, <1>3, <2>3, OthersKeepLinks DEF PopNothing, TypeOK, MQTypeOK
    <2> QED BY <1>2, <2>1, <2>2, <2>4 DEF QueueInv
  <1>4. CASE PopPoison(c)
    <2>1. /\ link[c] \in {"unprobed", "up"} /\ wire[c] = <<>> /\ broker # <<>> /\ Head(broker) = Poison
          /\ link' \in [Procs -> Links] /\ link'[c] = "up" /\ broker' = Tail(broker)
          /\ UNCHANGED local
      BY <1>1, <1>4 DEF PopPoison, TypeOK, MQTypeOK, Links
    <2>2. /\ broker' \in Seq(Tasks \cup {Poison})
          /\ \A x : Occurrences(broker, x)' = Occurrences(broker, x) + (0 - IF Poison = x THEN 1 ELSE 0)
      BY <1>1, <2>1, BrokerTail
    <2>3. /\ wire' \in [Procs -> Seq(Frames)]
          /\ \A x : /\ Total(wire, x)' = Total(wire, x) + IF AckFrame(Poison) = x THEN 1 ELSE 0
                    /\ Occurrences(wire'[c], x) = Occurrences(wire[c], x) + IF AckFrame(Poison) = x THEN 1 ELSE 0
      <3>1. Updated(wire', wire, c, Append(wire[c], AckFrame(Poison)))
        BY <1>4 DEF PopPoison, Updated
      <3> QED BY <1>1, <3>1, FramesAre, WireAppend
    <2>4. unacked[c] = <<>>
      BY <1>1, <2>1, NothingDelivered
    <2>5. /\ unacked' \in [Procs -> Seq(Tasks \cup {Poison})] /\ unacked'[c] = Append(<<>>, Poison)
          /\ \A x : Total(unacked, x)' = Total(unacked, x) + IF Poison = x THEN 1 ELSE 0
      <3>1. Updated(unacked', unacked, c, Append(unacked[c], Poison))
        BY <1>4 DEF PopPoison, Updated
      <3> QED BY <1>1, <2>4, <3>1, UnackedAppend
    <2>6. TypeOK'
      BY <1>1, <2>1, <2>2, <2>3, <2>5 DEF TypeOK, MQTypeOK
    <2>7. CountInv'
      <3> SUFFICES ASSUME NEW x \in Tasks PROVE NotLost(x)' /\ Fresh(x)'
        BY DEF CountInv
      <3>1. Poison # x /\ AckFrame(Poison) # AckFrame(x) /\ AckFrame(Poison) # PublishFrame(x)
        BY PoisonAssumption, FramesAre
      <3>2. /\ Occurrences(broker, x)' = Occurrences(broker, x) + 0
            /\ Total(unacked, x)' = Total(unacked, x) + 0
            /\ Total(wire, AckFrame(x))' = Total(wire, AckFrame(x)) + 0
            /\ Total(wire, PublishFrame(x))' = Total(wire, PublishFrame(x)) + 0
        BY <2>2, <2>3, <2>5, <3>1
      <3>3. Moved(x, 0, 0, 0, 0, 0, 0) /\ Counted(x, 0, 0, 0, 0)
        BY <1>1, <2>1, <3>2, Steady DEF Moved, Counted
      <3> QED BY <1>1, <3>3, CountsKeep
    <2>8. OneLink(c)'
      <3>1. Occurrences(wire'[c], AckFrame(Poison)) = 1
        BY <2>1, <2>3, OccurrencesEmpty
      <3>2. Len(unacked'[c]) = 1 /\ unacked'[c][1] = Poison
        BY <2>5
      <3>3. held'[c] = Nothing /\ \A t \in Tasks : held'[c] # Tagged(t)
        BY <1>1, MessagesAre
      <3> QED BY <2>1, <3>1, <3>2, <3>3 DEF OneLink
    <2>9. LinkInv'
      BY <1>1, <1>4, <2>8, OthersKeepLinks DEF PopPoison, TypeOK, MQTypeOK
    <2> QED BY <1>2, <2>6, <2>7, <2>9 DEF QueueInv
  <1> QED BY <1>3, <1>4 DEF Poll

-----------------------------------------------------------------------------
(* ack_judge_task *)

(* An acknowledgement nobody has written yet makes the consumer's one delivery
   acknowledged: what it held is what was delivered to it. *)
LEMMA AckKeepsLink ==
    ASSUME QueueInv, NEW c \in Consumers, NEW t \in Tasks, held[c] = Tagged(t), link[c] = "up",
           \A x : Occurrences(wire'[c], x) = Occurrences(wire[c], x) + IF AckFrame(t) = x THEN 1 ELSE 0,
           UNCHANGED <<link, unacked>>, held'[c] = Nothing
    PROVE  OneLink(c)'
  <1>1. c \in Procs /\ OneLink(c) /\ wire[c] \in Seq(Frames)
    BY ConsumersAssumption DEF QueueInv, LinkInv, TypeOK, MQTypeOK
  <1>2. \A x : Occurrences(wire[c], AckFrame(x)) = 0
    <2>1. \A i \in 1..Len(wire[c]) : wire[c][i].kind # "ack"
      BY <1>1 DEF OneLink
    <2>2. \A x : \A i \in 1..Len(wire[c]) : wire[c][i] # AckFrame(x)
      BY <2>1 DEF AckFrame
    <2> QED BY <1>1, <2>2, OccurrencesType
  <1>3. \A i \in 1..Len(unacked[c]) : Occurrences(wire'[c], AckFrame(unacked[c][i])) = 1
    <2> TAKE i \in 1..Len(unacked[c])
    <2>1. held[c] = Tagged(unacked[c][i]) \/ Occurrences(wire[c], AckFrame(unacked[c][i])) = 1
      BY <1>1 DEF OneLink
    <2>2. unacked[c][i] = t
      BY <1>2, <2>1, MessagesAre
    <2> QED BY <1>2, <2>2
  <1>4. \A x \in Tasks : held'[c] # Tagged(x)
    BY MessagesAre
  <1> QED BY <1>1, <1>3, <1>4 DEF OneLink

LEMMA FinishKeeps ==
    ASSUME QueueInv, NEW c \in Consumers, Finish(c)
    PROVE  QueueInv'
  <1>1. /\ TypeOK /\ HeldInv /\ CountInv /\ LinkInv /\ c \in Procs /\ OneLink(c)
        /\ UNCHANGED <<sent, taken, lost, breaks, restarts, poisons, link, local, broker, unacked>>
        /\ held[c] # Nothing /\ held' = [held EXCEPT ![c] = Nothing]
    BY ConsumersAssumption DEF Finish, Ack, QueueInv, LinkInv
  <1>2. PICK t \in Tasks : held[c] = Tagged(t) \/ held[c] = Plain(t)
    BY <1>1 DEF HeldInv
  <1>3. held[c].task = t
    BY <1>2, MessagesAre
  <1>4. /\ done' \in [Tasks -> Nat]
        /\ \A x \in Tasks : done'[x] = done[x] + IF x = t THEN 1 ELSE 0
    <2>1. done \in [Tasks -> Nat] /\ done' = Bump(done, t)
      BY <1>1, <1>3 DEF Finish, TypeOK
    <2> QED BY <2>1, BumpType
  <1>5. /\ held' \in [Consumers -> [task : Tasks \cup {NoTask}, tagged : BOOLEAN]]
        /\ held'[c] = Nothing /\ \A d \in Consumers : d # c => held'[d] = held[d]
    <2> DEFINE Messages == [task : Tasks \cup {NoTask}, tagged : BOOLEAN]
    <2>1. Nothing \in Messages
      BY MessagesAre
    <2>2. held \in [Consumers -> Messages]
      BY <1>1 DEF TypeOK
    <2> HIDE DEF Messages
    <2>3. /\ held' \in [Consumers -> Messages] /\ held'[c] = Nothing
          /\ \A d \in Consumers : d # c => held'[d] = held[d]
      BY <1>1, <2>1, <2>2
    <2> QED BY <2>3 DEF Messages
  <1>6. HeldInv'
    BY <1>1, <1>5 DEF HeldInv
  <1>7. \A x \in Tasks : /\ Cardinality(Untagged(x)) \in Nat
                         /\ Cardinality(Untagged(x))' = Cardinality(Untagged(x))
                                + (0 - IF held[c] = Plain(x) THEN 1 ELSE 0)
    <2>1. \A x \in Tasks : held'[c] # Plain(x)
      BY <1>5, MessagesAre
    <2> QED BY <1>5, <2>1, UntaggedChanges
  <1>8. CASE held[c] = Tagged(t) /\ link[c] = "up"
    <2>1. held[c].tagged
      BY <1>8, MessagesAre
    <2>2. Updated(wire', wire, c, Append(wire[c], AckFrame(t)))
      BY <1>3, <1>8, <2>1 DEF Finish, Ack, Updated
    <2>3. /\ wire' \in [Procs -> Seq(Frames)]
          /\ \A x : /\ Total(wire, x)' = Total(wire, x) + IF AckFrame(t) = x THEN 1 ELSE 0
                    /\ Occurrences(wire'[c], x) = Occurrences(wire[c], x) + IF AckFrame(t) = x THEN 1 ELSE 0
      BY <1>1, <2>2, FramesAre, WireAppend
    <2>4. TypeOK'
      <3>1. MQTypeOK'
        BY <1>1, <1>4, <2>3 DEF TypeOK, MQTypeOK
      <3> QED BY <1>1, <1>4, <1>5, <3>1 DEF TypeOK
    <2>5. CountInv'
      <3> SUFFICES ASSUME NEW x \in Tasks PROVE NotLost(x)' /\ Fresh(x)'
        BY DEF CountInv
      <3> DEFINE i == IF x = t THEN 1 ELSE 0
      <3>1. /\ Total(wire, AckFrame(x))' = Total(wire, AckFrame(x)) + i
            /\ Total(wire, PublishFrame(x))' = Total(wire, PublishFrame(x)) + 0
        BY <2>3, FramesAre
      <3>2. Cardinality(Untagged(x))' = Cardinality(Untagged(x)) + 0 /\ done'[x] = done[x] + i
        BY <1>4, <1>7, <1>8, MessagesAre
      <3>3. i \in Int /\ i \in Nat
        OBVIOUS
      <3> HIDE DEF i
      <3>4. Moved(x, 0, 0, 0, 0, i, 0) /\ Counted(x, 0, 0, i, 0)
        BY <1>1, <3>1, <3>2, Steady DEF Moved, Counted
      <3> QED BY <1>1, <3>3, <3>4, CountsKeep
    <2>6. OneLink(c)'
      BY <1>1, <1>5, <1>8, <2>3, AckKeepsLink
    <2>7. LinkInv'
      <3>1. \A r \in Procs : r # c => wire'[r] = wire[r]
        BY <1>1, <2>2 DEF Updated, TypeOK, MQTypeOK
      <3> QED BY <1>1, <1>5, <2>6, <3>1, OthersKeepLinks
    <2> QED BY <1>6, <2>4, <2>5, <2>7 DEF QueueInv
  <1>9. CASE ~(held[c] = Tagged(t) /\ link[c] = "up")
    <2>1. wire' = wire
      BY <1>2, <1>9, MessagesAre DEF Finish, Ack
    <2>2. TypeOK'
      <3>1. MQTypeOK'
        BY <1>1, <1>4, <2>1 DEF TypeOK, MQTypeOK
      <3> QED BY <1>1, <1>4, <1>5, <3>1 DEF TypeOK
    <2>3. CountInv'
      <3> SUFFICES ASSUME NEW x \in Tasks PROVE NotLost(x)' /\ Fresh(x)'
        BY DEF CountInv
      <3> DEFINE i == IF x = t THEN 1 ELSE 0
                 h == IF held[c] = Plain(x) THEN 1 ELSE 0
      <3>1. Cardinality(Untagged(x))' = Cardinality(Untagged(x)) + (0 - h) /\ done'[x] = done[x] + i
        BY <1>4, <1>7
      <3>2. i \in Int /\ i \in Nat /\ h \in Nat /\ 0 - h \in Int /\ h <= i
        BY <1>2, MessagesAre
      <3> HIDE DEF i, h
      <3>3. Moved(x, 0, 0, 0, 0, 0, 0 - h) /\ Counted(x, 0, 0, i, 0)
        BY <1>1, <2>1, <3>1, Steady DEF Moved, Counted
      <3> QED BY <1>1, <3>2, <3>3, CountsKeep
    <2>4. OneLink(c)'
      <3>1. \A x \in Tasks : held'[c] # Tagged(x)
        BY <1>5, MessagesAre
      <3>2. CASE link[c] # "up"
        BY <1>1, <2>1, <3>1, <3>2 DEF OneLink
      <3>3. CASE held[c] = Plain(t)
        BY <1>1, <2>1, <3>1, <3>3, MessagesAre DEF OneLink
      <3> QED BY <1>2, <1>9, <3>2, <3>3
    <2>5. LinkInv'
      BY <1>1, <1>5, <2>1, <2>4, OthersKeepLinks
    <2> QED BY <1>6, <2>2, <2>3, <2>5 DEF QueueInv
  <1> QED BY <1>8, <1>9

-----------------------------------------------------------------------------
(* The broker handles a frame. *)

Handled(new, old, p) == Updated(new, old, p, Tail(old[p]))

LEMMA WireTail ==
    ASSUME TypeOK, NEW p \in Procs, wire[p] # <<>>, Handled(wire', wire, p)
    PROVE  /\ Head(wire[p]) \in Frames /\ wire'[p] = Tail(wire[p])
           /\ wire' \in [Procs -> Seq(Frames)]
           /\ \A x : /\ Total(wire, x)' = Total(wire, x) + (0 - IF Head(wire[p]) = x THEN 1 ELSE 0)
                     /\ Occurrences(wire[p], x) =
                          Occurrences(wire'[p], x) + IF Head(wire[p]) = x THEN 1 ELSE 0
           /\ (\A i \in 1..Len(wire[p]) : wire[p][i].kind # "ack")
                => \A i \in 1..Len(wire'[p]) : wire'[p][i].kind # "ack"
  <1> DEFINE q == Tail(wire[p])
  <1>1. wire \in [Procs -> Seq(Frames)] /\ wire[p] \in Seq(Frames)
    BY DEF TypeOK, MQTypeOK
  <1>2. ASSUME NEW x
        PROVE  /\ Head(wire[p]) \in Frames /\ q \in Seq(Frames)
               /\ Occurrences(wire[p], x) = Occurrences(q, x) + IF Head(wire[p]) = x THEN 1 ELSE 0
    BY <1>1, OccurrencesTail
  <1>3. Len(q) \in Nat /\ Len(wire[p]) = Len(q) + 1 /\ \A i \in 1..Len(q) : q[i] = wire[p][i + 1]
    BY <1>1
  <1>4. q \in Seq(Frames)
    BY <1>2
  <1> HIDE DEF q
  <1>5. /\ wire' \in [Procs -> Seq(Frames)] /\ wire'[p] = q
        /\ \A x : /\ Total(wire', x) \in Nat /\ Total(wire, x) \in Nat
                  /\ Occurrences(wire[p], x) \in Nat /\ Occurrences(q, x) \in Nat
                  /\ Total(wire', x) = Total(wire, x) - Occurrences(wire[p], x) + Occurrences(q, x)
    <2>1. Updated(wire', wire, p, q)
      BY DEF q, Handled
    <2>2. wire' \in [Procs -> Seq(Frames)] /\ wire'[p] = q
      BY <1>1, <1>4, <2>1, TotalExcept
    <2>3. ASSUME NEW x
          PROVE  /\ Total(wire', x) \in Nat /\ Total(wire, x) \in Nat
                 /\ Occurrences(wire[p], x) \in Nat /\ Occurrences(q, x) \in Nat
                 /\ Total(wire', x) = Total(wire, x) - Occurrences(wire[p], x) + Occurrences(q, x)
      <3>1. Total(wire', x) \in Nat /\ Total(wire, x) \in Nat
        BY <1>1, <1>4, <2>1, TotalExcept
      <3>2. Occurrences(wire[p], x) \in Nat /\ Occurrences(q, x) \in Nat
        BY <1>1, <1>4, OccurrencesType
      <3>3. Total(wire', x) = Total(wire, x) - Occurrences(wire[p], x) + Occurrences(q, x)
        BY <1>1, <1>4, <2>1, TotalExcept
      <3> QED BY <3>1, <3>2, <3>3
    <2> QED BY <2>2, <2>3
  <1>6. \A x : Total(wire', x) = Total(wire, x) + (0 - IF Head(wire[p]) = x THEN 1 ELSE 0)
    BY <1>2, <1>5
  <1>7. (\A i \in 1..Len(wire[p]) : wire[p][i].kind # "ack") => \A i \in 1..Len(q) : q[i].kind # "ack"
    BY <1>3
  <1> QED BY <1>2, <1>5, <1>6, <1>7 DEF q

LEMMA UnackedAcknowledged ==
    ASSUME TypeOK, NEW p \in Procs, NEW t, Updated(unacked', unacked, p, Acknowledged(unacked[p], t))
    PROVE  /\ unacked' \in [Procs -> Seq(Tasks \cup {Poison})]
           /\ unacked'[p] = Acknowledged(unacked[p], t)
           /\ \A x : /\ Total(unacked, x) \in Nat /\ Total(unacked, x)' \in Nat
                     /\ x # t => Total(unacked, x)' = Total(unacked, x)
                     /\ Total(unacked, x)' >= Total(unacked, x) - 1
  <1> DEFINE q == Acknowledged(unacked[p], t)
  <1>1. unacked \in [Procs -> Seq(Tasks \cup {Poison})] /\ unacked[p] \in Seq(Tasks \cup {Poison})
    BY DEF TypeOK, MQTypeOK
  <1>2. ASSUME NEW x
        PROVE  /\ q \in Seq(Tasks \cup {Poison})
               /\ x # t => Occurrences(q, x) = Occurrences(unacked[p], x)
               /\ Occurrences(unacked[p], x) <= Occurrences(q, x) + 1
    BY <1>1, OccurrencesAcknowledged
  <1>3. q \in Seq(Tasks \cup {Poison}) /\ Updated(unacked', unacked, p, q)
    BY <1>2
  <1> HIDE DEF q
  <1>4. /\ unacked' \in [Procs -> Seq(Tasks \cup {Poison})] /\ unacked'[p] = q
        /\ \A x : /\ Total(unacked', x) \in Nat /\ Total(unacked, x) \in Nat
                  /\ Occurrences(unacked[p], x) \in Nat /\ Occurrences(q, x) \in Nat
                  /\ Total(unacked', x) = Total(unacked, x) - Occurrences(unacked[p], x) + Occurrences(q, x)
    BY <1>1, <1>3, TotalExcept
  <1>5. \A x : /\ Total(unacked', x) \in Nat /\ Total(unacked, x) \in Nat
               /\ x # t => Total(unacked', x) = Total(unacked, x)
               /\ Total(unacked', x) >= Total(unacked, x) - 1
    BY <1>2, <1>4
  <1> QED BY <1>4, <1>5 DEF q

LEMMA ReceiveKeeps ==
    ASSUME QueueInv, NEW p \in Procs, Receive(p)
    PROVE  QueueInv'
  <1>1. /\ TypeOK /\ HeldInv /\ CountInv /\ LinkInv /\ OneLink(p)
        /\ UNCHANGED <<held, sent, taken, done, lost, breaks, restarts, poisons, link, local>>
        /\ wire[p] # <<>> /\ unacked[p] \in Seq(Tasks \cup {Poison})
    BY DEF Receive, BrokerReceive, QueueInv, clientVars, LinkInv, TypeOK, MQTypeOK
  <1>2. HeldInv'
    BY <1>1 DEF HeldInv
  <1>3. link[p] = "up"
    BY <1>1 DEF OneLink
  <1> DEFINE f == Head(wire[p])
  <1>4. Handled(wire', wire, p)
    BY DEF Receive, BrokerReceive, Handled, Updated
  <1>5. /\ f \in Frames /\ wire' \in [Procs -> Seq(Frames)]
        /\ \A x : /\ Total(wire, x)' = Total(wire, x) + (0 - IF f = x THEN 1 ELSE 0)
                  /\ Occurrences(wire[p], x) = Occurrences(wire'[p], x) + IF f = x THEN 1 ELSE 0
        /\ (\A i \in 1..Len(wire[p]) : wire[p][i].kind # "ack")
             => \A i \in 1..Len(wire'[p]) : wire'[p][i].kind # "ack"
    BY <1>1, <1>4, WireTail
  <1>6. /\ f.kind = "publish" => broker' = Append(broker, f.task) /\ UNCHANGED unacked
        /\ f.kind = "ack" => /\ Updated(unacked', unacked, p, Acknowledged(unacked[p], f.task))
                             /\ UNCHANGED broker
    BY DEF Receive, BrokerReceive, Updated
  <1>7. f = wire[p][1] /\ 1 \in 1..Len(wire[p])
    BY <1>1 DEF TypeOK, MQTypeOK
  <1>8. \A r \in Procs : r # p => wire'[r] = wire[r] /\ unacked'[r] = unacked[r]
    BY <1>1, <1>4, <1>5, <1>6, FramesAre DEF Handled, Updated, TypeOK, MQTypeOK
  <1> HIDE DEF f
  <1>9. CASE f.kind = "publish"
    <2>1. PICK t \in Tasks \cup {Poison} : f = PublishFrame(t) /\ f.task = t
      BY <1>5, <1>9, FramesAre
    <2>2. /\ broker' \in Seq(Tasks \cup {Poison}) /\ UNCHANGED unacked
          /\ \A x : Occurrences(broker, x)' = Occurrences(broker, x) + IF t = x THEN 1 ELSE 0
      BY <1>1, <1>6, <1>9, <2>1, BrokerAppend
    <2>3. TypeOK'
      BY <1>1, <1>5, <2>2 DEF TypeOK, MQTypeOK
    <2>4. CountInv'
      <3> SUFFICES ASSUME NEW x \in Tasks PROVE NotLost(x)' /\ Fresh(x)'
        BY DEF CountInv
      <3> DEFINE i == IF t = x THEN 1 ELSE 0
                 j == 0 - i
      <3>1. /\ Total(wire, AckFrame(x))' = Total(wire, AckFrame(x)) + 0
            /\ Total(wire, PublishFrame(x))' = Total(wire, PublishFrame(x)) + j
            /\ Occurrences(broker, x)' = Occurrences(broker, x) + i
        BY <1>5, <2>1, <2>2, FramesAre
      <3>2. i \in Int /\ j \in Int /\ i + j = 0
        OBVIOUS
      <3> HIDE DEF i, j
      <3>3. Moved(x, i, j, 0, 0, 0, 0) /\ Counted(x, 0, 0, 0, 0)
        BY <1>1, <2>2, <3>1, Steady DEF Moved, Counted
      <3>4. i + j + 0 + 0 + 0 + 0 + 0 >= 0 + 0 /\ i + j + 0 + 0 <= 0
        BY <3>2
      <3>5. TypeOK /\ CountInv /\ (breaks' = 0 /\ restarts' = 0 => breaks = 0 /\ restarts = 0)
        BY <1>1
      <3> QED BY <3>2, <3>3, <3>4, <3>5, CountsKeep
    <2>5. OneLink(p)'
      <3>1. \A x : Occurrences(wire[p], AckFrame(x)) = Occurrences(wire'[p], AckFrame(x)) + 0
        BY <1>5, <2>1, FramesAre
      <3>2. \A x : Occurrences(wire'[p], AckFrame(x)) \in Nat
        BY <1>5, OccurrencesType
      <3>3. \A x : Occurrences(wire[p], AckFrame(x)) = Occurrences(wire'[p], AckFrame(x))
        BY <3>1, <3>2
      <3> QED BY <1>1, <1>3, <1>5, <2>2, <3>3 DEF OneLink
    <2>6. LinkInv'
      BY <1>1, <1>8, <2>5, OthersKeepLinks
    <2> QED BY <1>2, <2>3, <2>4, <2>6 DEF QueueInv
  <1>10. CASE f.kind = "ack"
    <2>1. PICK t \in Tasks \cup {Poison} : f = AckFrame(t) /\ f.task = t
      BY <1>5, <1>10, FramesAre
    <2>2. /\ unacked' \in [Procs -> Seq(Tasks \cup {Poison})] /\ UNCHANGED broker
          /\ unacked'[p] = Acknowledged(unacked[p], t)
          /\ \A x : /\ Total(unacked, x) \in Nat /\ Total(unacked, x)' \in Nat
                    /\ x # t => Total(unacked, x)' = Total(unacked, x)
                    /\ Total(unacked, x)' >= Total(unacked, x) - 1
      BY <1>1, <1>6, <1>10, <2>1, UnackedAcknowledged
    <2>3. TypeOK'
      BY <1>1, <1>5, <2>2 DEF TypeOK, MQTypeOK
    <2>4. CountInv'
      <3> SUFFICES ASSUME NEW x \in Tasks PROVE NotLost(x)' /\ Fresh(x)'
        BY DEF CountInv
      <3> DEFINE i == IF t = x THEN 1 ELSE 0
                 u == Total(unacked, x)' - Total(unacked, x)
      <3>1. /\ Total(wire, AckFrame(x))' = Total(wire, AckFrame(x)) + (0 - i)
            /\ Total(wire, PublishFrame(x))' = Total(wire, PublishFrame(x)) + 0
        BY <1>5, <2>1, FramesAre
      <3>2. i \in Int /\ i \in Nat /\ 0 - i \in Int
        OBVIOUS
      <3>3. u \in Int /\ u >= 0 - i /\ Total(unacked, x)' = Total(unacked, x) + u
        BY <2>2
      <3> HIDE DEF i, u
      <3>4. Moved(x, 0, 0, 0, u, 0 - i, 0) /\ Counted(x, 0, 0, 0, 0)
        BY <1>1, <2>2, <3>1, <3>3, Steady DEF Moved, Counted
      <3>5. PICK j \in Int : j = 0 - i
        BY <3>2
      <3>6. Moved(x, 0, 0, 0, u, j, 0)
        BY <3>4, <3>5
      <3>7. u \in Int /\ 0 + 0 + 0 + u + 0 + 0 + 0 >= 0 + j
        BY <3>3, <3>5
      <3>8. TypeOK /\ CountInv /\ (breaks' = 0 /\ restarts' = 0 => breaks = 0 /\ restarts = 0)
        BY <1>1
      <3> QED BY <3>4, <3>5, <3>6, <3>7, <3>8, CountsKeep
    <2>5. OneLink(p)'
      <3>1. p \in Consumers => \A x \in Tasks : held[p] # Tagged(x)
        BY <1>1, <1>3, <1>7, <1>10 DEF OneLink
      <3>2. Len(unacked[p]) \in Nat /\ Len(unacked[p]) <= 1
        BY <1>1, <1>3 DEF OneLink
      <3>3. /\ unacked'[p] \in Seq(Tasks \cup {Poison}) /\ Len(unacked'[p]) <= Len(unacked[p])
            /\ Len(unacked[p]) = 1 => unacked'[p] = IF unacked[p][1] = t THEN <<>> ELSE unacked[p]
        <4>1. unacked[p] \in Seq(Tasks \cup {Poison}) /\ unacked'[p] = Acknowledged(unacked[p], t)
          BY <1>1, <2>2 DEF TypeOK, MQTypeOK
        <4> QED BY <4>1, OccurrencesAcknowledged
      <3>4. \A i \in 1..Len(unacked'[p]) : Occurrences(wire'[p], AckFrame(unacked'[p][i])) = 1
        <4> TAKE i \in 1..Len(unacked'[p])
        <4>1. i = 1 /\ Len(unacked[p]) = 1
          <5> DEFINE m == Len(unacked'[p])
                     n == Len(unacked[p])
          <5>1. m \in Nat /\ n \in Nat /\ m <= n /\ n <= 1 /\ i \in 1..m
            BY <3>2, <3>3
          <5> HIDE DEF m, n
          <5>2. i = 1 /\ n = 1
            BY <5>1
          <5> QED BY <5>2 DEF n
        <4>2. unacked[p][1] # t /\ unacked'[p] = unacked[p]
          BY <3>3, <4>1
        <4>3. Occurrences(wire[p], AckFrame(unacked[p][1])) = 1
          <5>1. p \in Consumers => held[p] # Tagged(unacked[p][1])
            <6>1. unacked[p][1] \in Tasks \cup {Poison}
              BY <1>1, <4>1
            <6> QED BY <1>1, <3>1, <6>1, PoisonNotHeld
          <5> QED BY <1>1, <1>3, <4>1, <5>1 DEF OneLink
        <4>4. Occurrences(wire'[p], AckFrame(unacked[p][1])) \in Nat
          BY <1>5, OccurrencesType
        <4> QED BY <1>5, <2>1, <4>1, <4>2, <4>3, <4>4, FramesAre
      <3>5. Len(unacked'[p]) <= 1
        BY <3>2, <3>3
      <3> QED BY <1>1, <1>3, <3>1, <3>4, <3>5 DEF OneLink
    <2>6. LinkInv'
      BY <1>1, <1>8, <2>5, OthersKeepLinks
    <2> QED BY <1>2, <2>3, <2>4, <2>6 DEF QueueInv
  <1> QED BY <1>5, <1>9, <1>10, FramesAre

-----------------------------------------------------------------------------
(* Broken connections, restarted processes, foreign messages. *)

(* Emptying one process's queue takes what it held from the total. *)
Emptied(new, old, p) == Updated(new, old, p, <<>>)

LEMMA TotalEmptied ==
    ASSUME NEW S, NEW old \in [Procs -> Seq(S)], NEW p \in Procs, NEW new, Emptied(new, old, p)
    PROVE  /\ new \in [Procs -> Seq(S)] /\ new[p] = <<>>
           /\ \A x : /\ Occurrences(old[p], x) \in Nat
                     /\ Total(new, x) = Total(old, x) + (0 - Occurrences(old[p], x))
  <1> DEFINE q == <<>>
  <1>1. Updated(new, old, p, q) /\ q \in Seq(S) /\ \A x : Occurrences(q, x) = 0
    BY OccurrencesEmpty DEF Emptied
  <1> HIDE DEF q
  <1>2. new \in [Procs -> Seq(S)] /\ new[p] = q
    BY <1>1, TotalExcept
  <1>3. ASSUME NEW x
        PROVE  /\ Occurrences(old[p], x) \in Nat
               /\ Total(new, x) = Total(old, x) + (0 - Occurrences(old[p], x))
    <2>1. Total(new, x) = Total(old, x) - Occurrences(old[p], x) + Occurrences(q, x)
      BY <1>1, TotalExcept
    <2>2. Total(old, x) \in Nat /\ Occurrences(old[p], x) \in Nat
      BY <1>1, TotalExcept
    <2> QED BY <1>1, <2>1, <2>2
  <1> QED BY <1>2, <1>3 DEF q

(* A lost connection loses the frames and makes the deliveries ready again. *)
LEMMA DisconnectChanges ==
    ASSUME TypeOK, NEW p \in Procs, Disconnect(p)
    PROVE  /\ wire' \in [Procs -> Seq(Frames)] /\ wire'[p] = <<>>
           /\ unacked' \in [Procs -> Seq(Tasks \cup {Poison})] /\ unacked'[p] = <<>>
           /\ broker' \in Seq(Tasks \cup {Poison})
           /\ \A r \in Procs : r # p => wire'[r] = wire[r] /\ unacked'[r] = unacked[r]
           /\ \A x : /\ Occurrences(wire[p], x) \in Nat
                     /\ Total(wire, x)' = Total(wire, x) + (0 - Occurrences(wire[p], x))
           /\ \A x : /\ Occurrences(unacked[p], x) \in Nat
                     /\ Total(unacked, x)' = Total(unacked, x) + (0 - Occurrences(unacked[p], x))
                     /\ Occurrences(broker, x)' = Occurrences(broker, x) + Occurrences(unacked[p], x)
  <1>1. /\ wire \in [Procs -> Seq(Frames)] /\ unacked \in [Procs -> Seq(Tasks \cup {Poison})]
        /\ unacked[p] \in Seq(Tasks \cup {Poison}) /\ broker \in Seq(Tasks \cup {Poison})
    BY DEF TypeOK, MQTypeOK
  <1>2. Emptied(wire', wire, p) /\ Emptied(unacked', unacked, p) /\ broker' = unacked[p] \o broker
    BY DEF Disconnect, Emptied, Updated
  <1>3. /\ wire' \in [Procs -> Seq(Frames)] /\ wire'[p] = <<>>
        /\ \A x : /\ Occurrences(wire[p], x) \in Nat
                  /\ Total(wire', x) = Total(wire, x) + (0 - Occurrences(wire[p], x))
    <2>1. wire' \in [Procs -> Seq(Frames)] /\ wire'[p] = <<>>
      BY <1>1, <1>2, TotalEmptied
    <2>2. ASSUME NEW x
          PROVE  /\ Occurrences(wire[p], x) \in Nat
                 /\ Total(wire', x) = Total(wire, x) + (0 - Occurrences(wire[p], x))
      <3>1. Occurrences(wire[p], x) \in Nat
        BY <1>1, OccurrencesType
      <3>2. Total(wire', x) = Total(wire, x) + (0 - Occurrences(wire[p], x))
        <4>1. wire \in [Procs -> Seq(Frames)] /\ Emptied(wire', wire, p)
          BY <1>1, <1>2
        <4> QED BY <4>1, TotalEmptied
      <3> QED BY <3>1, <3>2
    <2> QED BY <2>1, <2>2
  <1>4. /\ unacked' \in [Procs -> Seq(Tasks \cup {Poison})] /\ unacked'[p] = <<>>
        /\ \A x : /\ Occurrences(unacked[p], x) \in Nat
                  /\ Total(unacked', x) = Total(unacked, x) + (0 - Occurrences(unacked[p], x))
    <2>1. unacked' \in [Procs -> Seq(Tasks \cup {Poison})] /\ unacked'[p] = <<>>
      BY <1>1, <1>2, TotalEmptied
    <2>2. ASSUME NEW x
          PROVE  /\ Occurrences(unacked[p], x) \in Nat
                 /\ Total(unacked', x) = Total(unacked, x) + (0 - Occurrences(unacked[p], x))
      <3>1. Occurrences(unacked[p], x) \in Nat
        BY <1>1, OccurrencesType
      <3>2. Total(unacked', x) = Total(unacked, x) + (0 - Occurrences(unacked[p], x))
        <4>1. unacked \in [Procs -> Seq(Tasks \cup {Poison})] /\ Emptied(unacked', unacked, p)
          BY <1>1, <1>2
        <4> QED BY <4>1, TotalEmptied
      <3> QED BY <3>1, <3>2
    <2> QED BY <2>1, <2>2
  <1>5. ASSUME NEW x
        PROVE  /\ broker' \in Seq(Tasks \cup {Poison})
               /\ Occurrences(broker', x) = Occurrences(broker, x) + Occurrences(unacked[p], x)
    <2>1. /\ broker' \in Seq(Tasks \cup {Poison})
          /\ Occurrences(broker', x) = Occurrences(unacked[p], x) + Occurrences(broker, x)
      BY <1>1, <1>2, OccurrencesConcat
    <2> QED BY <1>1, <2>1, OccurrencesType
  <1>6. \A r \in Procs : r # p => wire'[r] = wire[r] /\ unacked'[r] = unacked[r]
    BY <1>1 DEF Disconnect
  <1> QED BY <1>3, <1>4, <1>5, <1>6

LEMMA BreakKeeps ==
    ASSUME QueueInv, NEW p \in Procs, Break(p)
    PROVE  QueueInv'
  <1>1. /\ TypeOK /\ HeldInv /\ CountInv /\ LinkInv
        /\ UNCHANGED <<held, sent, taken, done, restarts, poisons, local>>
        /\ breaks \in Nat /\ breaks' = breaks + 1 /\ breaks' \in 0..MaxBreaks
        /\ link' \in [Procs -> Links] /\ link'[p] = "broken"
        /\ \A r \in Procs : r # p => link'[r] = link[r]
    <2>1. TypeOK /\ HeldInv /\ CountInv /\ LinkInv /\ breaks \in 0..MaxBreaks /\ MaxBreaks \in Nat
      BY ClientBoundsAssumption DEF QueueInv, TypeOK
    <2>2. breaks < MaxBreaks /\ breaks' = breaks + 1 /\ breaks \in Nat /\ breaks' \in 0..MaxBreaks
      BY <2>1 DEF Break
    <2>3. link \in [Procs -> Links] /\ "broken" \in Links
      BY <2>1 DEF TypeOK, MQTypeOK, Links
    <2>4. /\ link' \in [Procs -> Links] /\ link'[p] = "broken"
          /\ \A r \in Procs : r # p => link'[r] = link[r]
      BY <2>3 DEF Break, ConnectionBreaks
    <2> QED BY <2>1, <2>2, <2>4 DEF Break, ConnectionBreaks
  <1>2. /\ wire' \in [Procs -> Seq(Frames)] /\ wire'[p] = <<>>
        /\ unacked' \in [Procs -> Seq(Tasks \cup {Poison})] /\ unacked'[p] = <<>>
        /\ broker' \in Seq(Tasks \cup {Poison})
        /\ \A r \in Procs : r # p => wire'[r] = wire[r] /\ unacked'[r] = unacked[r]
        /\ \A x : /\ Occurrences(wire[p], x) \in Nat
                  /\ Total(wire, x)' = Total(wire, x) + (0 - Occurrences(wire[p], x))
        /\ \A x : /\ Occurrences(unacked[p], x) \in Nat
                  /\ Total(unacked, x)' = Total(unacked, x) + (0 - Occurrences(unacked[p], x))
                  /\ Occurrences(broker, x)' = Occurrences(broker, x) + Occurrences(unacked[p], x)
    BY <1>1, DisconnectChanges DEF Break, ConnectionBreaks
  <1>3. /\ lost' \in [Tasks -> Nat]
        /\ \A x \in Tasks : lost'[x] = lost[x] + Occurrences(wire[p], PublishFrame(x))
    <2>1. \A x \in Tasks : lost[x] + Occurrences(wire[p], PublishFrame(x)) \in Nat
      BY <1>1, <1>2 DEF TypeOK
    <2> QED BY <2>1 DEF Break
  <1>4. HeldInv'
    BY <1>1 DEF HeldInv
  <1>5. TypeOK'
    <2>1. MQTypeOK'
      BY <1>1, <1>2 DEF TypeOK, MQTypeOK
    <2>2. /\ held' \in [Consumers -> [task : Tasks \cup {NoTask}, tagged : BOOLEAN]]
          /\ {sent, taken, done, lost}' \subseteq [Tasks -> Nat]
      BY <1>1, <1>3 DEF TypeOK
    <2>3. breaks' \in 0..MaxBreaks /\ restarts' \in 0..MaxRestarts /\ poisons' \in 0..MaxPoison
      BY <1>1 DEF TypeOK
    <2> QED BY <2>1, <2>2, <2>3 DEF TypeOK
  <1>6. CountInv'
    <2> SUFFICES ASSUME NEW x \in Tasks PROVE NotLost(x)' /\ Fresh(x)'
      BY DEF CountInv
    <2> DEFINE a == Occurrences(unacked[p], x)
               w == Occurrences(wire[p], PublishFrame(x))
               k == Occurrences(wire[p], AckFrame(x))
    <2>1. /\ Total(wire, PublishFrame(x))' = Total(wire, PublishFrame(x)) + (0 - w)
          /\ Total(wire, AckFrame(x))' = Total(wire, AckFrame(x)) + (0 - k)
          /\ Total(unacked, x)' = Total(unacked, x) + (0 - a)
          /\ Occurrences(broker, x)' = Occurrences(broker, x) + a
          /\ lost'[x] = lost[x] + w
          /\ a \in Nat /\ w \in Nat /\ k \in Nat
      BY <1>2, <1>3
    <2> HIDE DEF a, w, k
    <2>2. Moved(x, a, 0 - w, 0, 0 - a, 0 - k, 0) /\ Counted(x, 0, 0, 0, w)
      BY <1>1, <2>1, Steady DEF Moved, Counted
    <2>3. /\ a \in Int /\ w \in Int /\ 0 - w \in Int /\ 0 - a \in Int /\ 0 - k \in Int
          /\ a + (0 - w) + 0 + (0 - a) + 0 + 0 + w >= 0 + (0 - k)
          /\ breaks' # 0
      BY <1>1, <2>1
    <2> QED BY <1>1, <2>2, <2>3, CountsKeep
  <1>7. OneLink(p)'
    BY <1>1, <1>2 DEF OneLink
  <1>8. LinkInv'
    BY <1>1, <1>2, <1>7, OthersKeepLinks
  <1> QED BY <1>4, <1>5, <1>6, <1>8 DEF QueueInv

LEMMA RestartKeeps ==
    ASSUME QueueInv, NEW p \in Procs, Restart(p)
    PROVE  QueueInv'
  <1>1. /\ TypeOK /\ HeldInv /\ CountInv /\ LinkInv
        /\ UNCHANGED <<sent, taken, done, breaks, poisons>>
        /\ restarts \in Nat /\ restarts' = restarts + 1 /\ restarts' \in 0..MaxRestarts
        /\ link' \in [Procs -> Links] /\ link'[p] = "unprobed"
        /\ \A r \in Procs : r # p => link'[r] = link[r]
    <2>1. TypeOK /\ HeldInv /\ CountInv /\ LinkInv
      BY DEF QueueInv
    <2>2. UNCHANGED <<sent, taken, done, breaks, poisons>> /\ link' = [link EXCEPT ![p] = "unprobed"]
      BY DEF Restart, ProcessRestarts
    <2>3. link \in [Procs -> Links] /\ "unprobed" \in Links
      BY <2>1 DEF TypeOK, MQTypeOK, Links
    <2>4. restarts \in 0..MaxRestarts /\ MaxRestarts \in Nat /\ restarts < MaxRestarts /\ restarts' = restarts + 1
      BY <2>1, ClientBoundsAssumption DEF TypeOK, Restart
    <2>5. restarts \in Nat /\ restarts' \in 0..MaxRestarts
      BY <2>4
    <2> QED BY <2>1, <2>2, <2>3, <2>4, <2>5
  <1>2. /\ wire' \in [Procs -> Seq(Frames)] /\ wire'[p] = <<>>
        /\ unacked' \in [Procs -> Seq(Tasks \cup {Poison})] /\ unacked'[p] = <<>>
        /\ broker' \in Seq(Tasks \cup {Poison})
        /\ \A r \in Procs : r # p => wire'[r] = wire[r] /\ unacked'[r] = unacked[r]
        /\ \A x : /\ Occurrences(wire[p], x) \in Nat
                  /\ Total(wire, x)' = Total(wire, x) + (0 - Occurrences(wire[p], x))
        /\ \A x : /\ Occurrences(unacked[p], x) \in Nat
                  /\ Total(unacked, x)' = Total(unacked, x) + (0 - Occurrences(unacked[p], x))
                  /\ Occurrences(broker, x)' = Occurrences(broker, x) + Occurrences(unacked[p], x)
    BY <1>1, DisconnectChanges DEF Restart, ProcessRestarts
  <1>3. /\ local' \in [Procs -> Seq(Tasks)]
        /\ \A x : /\ Occurrences(local[p], x) \in Nat
                  /\ Total(local, x)' = Total(local, x) + (0 - Occurrences(local[p], x))
    <2>1. Emptied(local', local, p)
      BY DEF Restart, ProcessRestarts, Emptied, Updated
    <2>2. local \in [Procs -> Seq(Tasks)]
      BY <1>1 DEF TypeOK, MQTypeOK
    <2> QED BY <2>1, <2>2, TotalEmptied
  <1> DEFINE Held(x) == IF p \in Consumers /\ held[p] = Plain(x) THEN 1 ELSE 0
  <1>4. /\ lost' \in [Tasks -> Nat]
        /\ \A x \in Tasks : lost'[x] = lost[x] + Occurrences(wire[p], PublishFrame(x))
                                               + Occurrences(local[p], x) + Held(x)
    <2> DEFINE n(x) == lost[x] + Occurrences(wire[p], PublishFrame(x)) + Occurrences(local[p], x) + Held(x)
    <2>1. \A x \in Tasks : Held(x) \in Nat
      OBVIOUS
    <2>2. \A x \in Tasks : lost[x] \in Nat
      BY <1>1 DEF TypeOK
    <2>3. lost' = [x \in Tasks |-> n(x)]
      BY DEF Restart, Plain
    <2> HIDE DEF Held
    <2>4. \A x \in Tasks : n(x) \in Nat
      <3> SUFFICES ASSUME NEW x \in Tasks PROVE n(x) \in Nat
        OBVIOUS
      <3> DEFINE w == Occurrences(wire[p], PublishFrame(x))
                 l == Occurrences(local[p], x)
      <3>1. lost[x] \in Nat /\ w \in Nat /\ l \in Nat /\ Held(x) \in Nat
        BY <1>2, <1>3, <2>1, <2>2
      <3> HIDE DEF w, l
      <3>2. lost[x] + w + l + Held(x) \in Nat
        BY <3>1
      <3> QED BY <3>2 DEF w, l
    <2> QED BY <2>3, <2>4
  <1>5. /\ held' \in [Consumers -> [task : Tasks \cup {NoTask}, tagged : BOOLEAN]]
        /\ p \in Consumers => held'[p] = Nothing
        /\ \A d \in Consumers : d # p => held'[d] = held[d]
    <2> DEFINE Messages == [task : Tasks \cup {NoTask}, tagged : BOOLEAN]
    <2>1. Nothing \in Messages
      BY MessagesAre
    <2>2. held \in [Consumers -> Messages] /\ held' = [d \in Consumers |-> IF d = p THEN Nothing ELSE held[d]]
      BY <1>1 DEF TypeOK, Restart
    <2> HIDE DEF Messages
    <2>3. /\ held' \in [Consumers -> Messages]
          /\ p \in Consumers => held'[p] = Nothing
          /\ \A d \in Consumers : d # p => held'[d] = held[d]
      BY <2>1, <2>2
    <2> QED BY <2>3 DEF Messages
  <1>6. HeldInv'
    BY <1>1, <1>5 DEF HeldInv
  <1>7. TypeOK'
    <2>1. MQTypeOK'
      BY <1>1, <1>2, <1>3 DEF TypeOK, MQTypeOK
    <2>2. {sent, taken, done, lost}' \subseteq [Tasks -> Nat]
      BY <1>1, <1>4 DEF TypeOK
    <2>3. breaks' \in 0..MaxBreaks /\ restarts' \in 0..MaxRestarts /\ poisons' \in 0..MaxPoison
      BY <1>1 DEF TypeOK
    <2> QED BY <1>5, <2>1, <2>2, <2>3 DEF TypeOK
  <1>8. \A x \in Tasks : Cardinality(Untagged(x))' = Cardinality(Untagged(x)) + (0 - Held(x)) /\ Held(x) \in Nat
    <2>1. CASE p \in Consumers
      <3>1. \A x \in Tasks : held'[p] # Plain(x)
        BY <1>5, <2>1, MessagesAre
      <3>2. \A x : /\ Cardinality(Untagged(x)) \in Nat
                   /\ Cardinality(Untagged(x))' = Cardinality(Untagged(x))
                        - (IF held[p] = Plain(x) THEN 1 ELSE 0) + (IF held'[p] = Plain(x) THEN 1 ELSE 0)
        BY <1>5, <2>1, UntaggedChanges
      <3> QED BY <2>1, <3>1, <3>2
    <2>2. CASE p \notin Consumers
      <3>1. \A x \in Tasks : Untagged(x)' = Untagged(x)
        BY <1>5, <2>2 DEF Untagged
      <3>2. \A x \in Tasks : Cardinality(Untagged(x)) \in Nat /\ Held(x) = 0
        BY <1>1, <2>2, CountsType
      <3> QED BY <3>1, <3>2
    <2> QED BY <2>1, <2>2
  <1> HIDE DEF Held
  <1>9. CountInv'
    <2> SUFFICES ASSUME NEW x \in Tasks PROVE NotLost(x)' /\ Fresh(x)'
      BY DEF CountInv
    <2> DEFINE a == Occurrences(unacked[p], x)
               w == Occurrences(wire[p], PublishFrame(x))
               k == Occurrences(wire[p], AckFrame(x))
               l == Occurrences(local[p], x)
               h == Held(x)
    <2>1. /\ Total(wire, PublishFrame(x))' = Total(wire, PublishFrame(x)) + (0 - w)
          /\ Total(wire, AckFrame(x))' = Total(wire, AckFrame(x)) + (0 - k)
          /\ Total(unacked, x)' = Total(unacked, x) + (0 - a)
          /\ Occurrences(broker, x)' = Occurrences(broker, x) + a
          /\ Total(local, x)' = Total(local, x) + (0 - l)
          /\ Cardinality(Untagged(x))' = Cardinality(Untagged(x)) + (0 - h)
          /\ lost'[x] = lost[x] + w + l + h
          /\ a \in Nat /\ w \in Nat /\ k \in Nat /\ l \in Nat /\ h \in Nat /\ lost[x] \in Nat
      BY <1>1, <1>2, <1>3, <1>4, <1>8, CountsType
    <2> HIDE DEF a, w, k, l, h
    <2>2. lost'[x] = lost[x] + (w + l + h)
      BY <2>1
    <2>3. Moved(x, a, 0 - w, 0 - l, 0 - a, 0 - k, 0 - h) /\ Counted(x, 0, 0, 0, w + l + h)
      BY <1>1, <2>1, <2>2, Steady DEF Moved, Counted
    <2>4. /\ a \in Int /\ w + l + h \in Int
          /\ 0 - w \in Int /\ 0 - a \in Int /\ 0 - k \in Int /\ 0 - l \in Int /\ 0 - h \in Int
          /\ a + (0 - w) + (0 - l) + (0 - a) + (0 - h) + 0 + (w + l + h) >= 0 + (0 - k)
          /\ restarts' # 0
      BY <1>1, <2>1
    <2> QED BY <1>1, <2>3, <2>4, CountsKeep
  <1>10. OneLink(p)'
    BY <1>1, <1>2 DEF OneLink
  <1>11. LinkInv'
    BY <1>1, <1>2, <1>5, <1>10, OthersKeepLinks
  <1> QED BY <1>6, <1>7, <1>9, <1>11 DEF QueueInv

LEMMA IntrudeKeeps ==
    ASSUME QueueInv, Intrude
    PROVE  QueueInv'
  <1>1. /\ TypeOK /\ HeldInv /\ CountInv /\ LinkInv
        /\ UNCHANGED <<held, sent, taken, done, lost, breaks, restarts, link, wire, local, unacked>>
        /\ broker' = Append(broker, Poison) /\ poisons' \in 0..MaxPoison
    BY ClientBoundsAssumption DEF Intrude, ForeignPublish, QueueInv, TypeOK
  <1>2. /\ broker' \in Seq(Tasks \cup {Poison})
        /\ \A x : Occurrences(broker, x)' = Occurrences(broker, x) + IF Poison = x THEN 1 ELSE 0
    BY <1>1, BrokerAppend
  <1>3. TypeOK'
    BY <1>1, <1>2 DEF TypeOK, MQTypeOK
  <1>4. CountInv'
    <2> SUFFICES ASSUME NEW x \in Tasks PROVE NotLost(x)' /\ Fresh(x)'
      BY DEF CountInv
    <2>1. Occurrences(broker, x)' = Occurrences(broker, x) + 0
      BY <1>2, PoisonAssumption
    <2>2. Moved(x, 0, 0, 0, 0, 0, 0) /\ Counted(x, 0, 0, 0, 0)
      BY <1>1, <2>1, Steady DEF Moved, Counted
    <2> QED BY <1>1, <2>2, CountsKeep
  <1>5. HeldInv' /\ LinkInv'
    BY <1>1 DEF HeldInv, LinkInv, OneLink
  <1> QED BY <1>3, <1>4, <1>5 DEF QueueInv

-----------------------------------------------------------------------------
LEMMA InitQueueInv == Init => QueueInv
  <1> SUFFICES ASSUME Init PROVE QueueInv
    OBVIOUS
  <1>1. TypeOK
    <2> DEFINE Messages == [task : Tasks \cup {NoTask}, tagged : BOOLEAN]
    <2>1. Nothing \in Messages
      BY MessagesAre
    <2> HIDE DEF Messages
    <2>2. held \in [Consumers -> Messages]
      BY <2>1 DEF Init
    <2>3. MQTypeOK
      BY DEF Init, MQInit, MQTypeOK, Links
    <2>4. /\ {sent, taken, done, lost} \subseteq [Tasks -> Nat]
          /\ breaks \in 0..MaxBreaks /\ restarts \in 0..MaxRestarts /\ poisons \in 0..MaxPoison
      BY ClientBoundsAssumption DEF Init
    <2> QED BY <2>2, <2>3, <2>4 DEF TypeOK, Messages
  <1>2. HeldInv
    BY DEF Init, HeldInv
  <1>3. CountInv
    <2> SUFFICES ASSUME NEW x \in Tasks PROVE NotLost(x) /\ Fresh(x)
      BY DEF CountInv
    <2>1. /\ sent[x] = 0 /\ taken[x] = 0 /\ done[x] = 0 /\ lost[x] = 0
          /\ Occurrences(broker, x) = 0
      BY OccurrencesEmpty DEF Init, MQInit
    <2>2. ASSUME NEW y PROVE Total(wire, y) = 0 /\ Total(local, y) = 0
      <3>1. Positions(<<>>, y) = {}
        BY DEF Positions
      <3>2. \A p \in Procs : wire[p] = <<>> /\ local[p] = <<>>
        BY DEF Init, MQInit
      <3>3. /\ UNION {{p} \X Positions(wire[p], y) : p \in Procs} = {}
            /\ UNION {{p} \X Positions(local[p], y) : p \in Procs} = {}
        BY <3>1, <3>2
      <3> QED BY <3>3, FS_EmptySet DEF Total
    <2>3. /\ Total(unacked, x) \in Nat /\ Cardinality(Untagged(x)) \in Nat
      BY <1>1, CountsType
    <2> QED BY <2>1, <2>2, <2>3 DEF NotLost, Fresh, Copies
  <1>4. LinkInv
    BY DEF Init, MQInit, LinkInv, OneLink
  <1> QED BY <1>1, <1>2, <1>3, <1>4 DEF QueueInv

LEMMA StepKeepsQueueInv == QueueInv /\ [Next]_vars => QueueInv'
  <1> SUFFICES ASSUME QueueInv, [Next]_vars PROVE QueueInv'
    OBVIOUS
  <1>1. ASSUME NEW p \in Procs, NEW t \in Tasks, PublishTask(p, t) PROVE QueueInv'
    BY <1>1, PublishKeeps
  <1>2. ASSUME NEW p \in Procs, Receive(p) \/ Break(p) \/ Restart(p) PROVE QueueInv'
    BY <1>2, ReceiveKeeps, BreakKeeps, RestartKeeps
  <1>3. ASSUME NEW c \in Consumers, Take(c) \/ Poll(c) \/ Finish(c) PROVE QueueInv'
    BY <1>3, TakeKeeps, PollKeeps, FinishKeeps
  <1>4. CASE Intrude
    BY <1>4, IntrudeKeeps
  <1>5. CASE UNCHANGED vars
    <2>1. /\ TypeOK /\ HeldInv /\ CountInv /\ LinkInv
          /\ UNCHANGED <<held, sent, taken, done, lost, breaks, restarts, poisons,
                         link, wire, local, broker, unacked>>
      BY <1>5 DEF QueueInv, vars, mqVars, clientVars
    <2>2. CountInv'
      <3> SUFFICES ASSUME NEW x \in Tasks PROVE NotLost(x)' /\ Fresh(x)'
        BY DEF CountInv
      <3>1. Moved(x, 0, 0, 0, 0, 0, 0) /\ Counted(x, 0, 0, 0, 0)
        BY <2>1, Steady DEF Moved, Counted
      <3> QED BY <2>1, <3>1, CountsKeep
    <2>3. TypeOK' /\ HeldInv' /\ LinkInv'
      BY <2>1 DEF TypeOK, MQTypeOK, HeldInv, LinkInv, OneLink
    <2> QED BY <2>2, <2>3 DEF QueueInv
  <1> QED BY <1>1, <1>2, <1>3, <1>4, <1>5 DEF Next

(* Whatever the processes, their threads and the broker do, in whatever order,
   with whatever backends they chose, the invariant holds. *)
THEOREM QueueInvHolds == Spec => []QueueInv
  BY InitQueueInv, StepKeepsQueueInv, PTL DEF Spec

(* Every variable of the queue and of its clients stays in its type: in
   particular a consumer's delivery tag is that of a task, and no encoded frame
   gets into the in-process queue. *)
THEOREM TypeCorrect == Spec => []TypeOK
  <1>1. QueueInv => TypeOK
    BY DEF QueueInv
  <1> QED BY <1>1, QueueInvHolds, PTL

(* publish_judge_task never loses a task it accepted: each is somewhere in the
   queue, finished, or destroyed by a fault. *)
THEOREM NoTaskLostHolds == Spec => []NoTaskLost
  <1>1. QueueInv => NoTaskLost
    <2> SUFFICES ASSUME QueueInv, NEW t \in Tasks
                 PROVE  Copies(t) + done[t] + lost[t] >= sent[t]
      BY DEF NoTaskLost
    <2>1. NotLost(t) /\ TypeOK
      BY DEF QueueInv, CountInv
    <2>2. /\ Total(wire, AckFrame(t)) \in Nat /\ Copies(t) \in Nat
          /\ sent[t] \in Nat /\ done[t] \in Nat /\ lost[t] \in Nat
      BY <2>1, CountsType DEF Copies
    <2> QED BY <2>1, <2>2 DEF NotLost
  <1> QED BY <1>1, QueueInvHolds, PTL

(* Without a broken connection or a restart, a published task is handed out at
   most once, by whichever backend. *)
THEOREM DuplicatesHolds == Spec => []DuplicatesNeedAFault
  <1>1. QueueInv => DuplicatesNeedAFault
    <2> SUFFICES ASSUME QueueInv, breaks = 0, restarts = 0, NEW t \in Tasks
                 PROVE  taken[t] <= sent[t]
      BY DEF DuplicatesNeedAFault
    <2>1. Fresh(t) /\ TypeOK
      BY DEF QueueInv, CountInv
    <2>2. /\ Occurrences(broker, t) \in Nat /\ Total(wire, PublishFrame(t)) \in Nat
          /\ Total(local, t) \in Nat /\ sent[t] \in Nat /\ taken[t] \in Nat
      BY <2>1, CountsType
    <2> QED BY <2>1, <2>2 DEF Fresh
  <1> QED BY <1>1, QueueInvHolds, PTL

(* On a live connection the one delivery is what the consumer works on, or its
   acknowledgement is on its way. *)
THEOREM DeliveredHolds == Spec => []DeliveredIsHeldOrAcked
  <1>1. QueueInv => DeliveredIsHeldOrAcked
    BY DEF QueueInv, LinkInv, OneLink, Tagged, DeliveredIsHeldOrAcked
  <1> QED BY <1>1, QueueInvHolds, PTL
=============================================================================
