------------------------------ MODULE MysqlPool ------------------------------
(***************************************************************************)
(* The connection pool of nl-common/src/mysql.cpp.  Each MysqlConn object   *)
(* (a holder here; a thread may have several) acquires a connection when   *)
(* it is constructed and releases it when it is destroyed.  The counters   *)
(* live_ and overflow_ and the vector idle_ change under mu_; connecting    *)
(* and pinging happen with the mutex unlocked, so that other holders run    *)
(* in between.  The pool's destructor, at the end of the process, is left   *)
(* out.                                                                     *)
(***************************************************************************)
EXTENDS Integers, Sequences, FiniteSets

CONSTANTS
    Holders,    \* the MysqlConn objects
    Handles,    \* connections to the server
    None,       \* nullptr
    MaxSize     \* mysql_pool_size

ASSUME HoldersAssumption == IsFiniteSet(Holders)
ASSUME NoneAssumption == None \notin Handles
ASSUME MaxSizeAssumption == MaxSize \in Nat \ {0}   \* load_config clamps it

VARIABLES
    idle,       \* idle_, a stack
    live,       \* live_
    overflow,   \* overflow_
    at,         \* holder -> where it is in acquire, or "held", or "out"
    conn,       \* holder -> the connection it has in hand
    shrunk      \* history: since overflow_ last rose above 0, the pool lost a connection

vars == <<idle, live, overflow, at, conn, shrunk>>

(* "pinging": popped from idle_, mutex unlocked.  "opening" and "extra":
   open_pooled runs for a pooled or for an overflow connection. *)
Places == {"out", "pinging", "opening", "extra", "held"}

Busy == {h \in Holders : at[h] # "out"}

(* overflow_ may fall below zero, see OpenFails. *)
TypeOK ==
    /\ idle \in Seq(Handles)
    /\ live \in 0..MaxSize
    /\ overflow \in Int
    /\ at   \in [Holders -> Places]
    /\ conn \in [Holders -> Handles \cup {None}]
    /\ \A h \in Holders : conn[h] # None <=> at[h] \in {"pinging", "held"}
    /\ shrunk \in BOOLEAN

Init ==
    /\ idle = <<>> /\ live = 0 /\ overflow = 0 /\ shrunk = FALSE
    /\ at   = [h \in Holders |-> "out"]
    /\ conn = [h \in Holders |-> None]

InUse == {conn[h] : h \in Holders} \ {None}
Pooled == {idle[i] : i \in 1..Len(idle)}

-----------------------------------------------------------------------------
BugDrawWithoutPop(h, n) ==          \* a bug: back() without pop_back()
    \/ /\ idle # <<>>
       /\ conn' = [conn EXCEPT ![h] = idle[Len(idle)]]
       /\ at'   = [at EXCEPT ![h] = "pinging"]
       /\ live' = n /\ UNCHANGED <<idle, overflow>>
    \/ /\ idle = <<>> /\ n < MaxSize
       /\ conn' = [conn EXCEPT ![h] = None]
       /\ at'   = [at EXCEPT ![h] = "opening"]
       /\ live' = n + 1 /\ UNCHANGED <<idle, overflow>>

(* The locked part of acquire, entered with live_ = n: an idle connection, an
   overflow connection when the pool is used up, or a new one. *)
Draw(h, n) ==
    \/ /\ idle # <<>>
       /\ conn' = [conn EXCEPT ![h] = idle[Len(idle)]]
       /\ idle' = SubSeq(idle, 1, Len(idle) - 1)
       /\ at'   = [at EXCEPT ![h] = "pinging"]
       /\ live' = n /\ UNCHANGED overflow
    \/ /\ idle = <<>> /\ n >= MaxSize
       /\ overflow' = overflow + 1
       /\ conn' = [conn EXCEPT ![h] = None]
       /\ at'   = [at EXCEPT ![h] = "extra"]
       /\ live' = n /\ UNCHANGED idle
    \/ /\ idle = <<>> /\ n < MaxSize
       /\ conn' = [conn EXCEPT ![h] = None]
       /\ at'   = [at EXCEPT ![h] = "opening"]
       /\ live' = n + 1 /\ UNCHANGED <<idle, overflow>>

Acquire(h) == at[h] = "out" /\ Draw(h, live)

PingOk(h) ==
    /\ at[h] = "pinging"
    /\ at' = [at EXCEPT ![h] = "held"]
    /\ UNCHANGED <<idle, live, overflow, conn>>

(* The server had dropped it: close it, and go on with the loop. *)
PingFails(h) == at[h] = "pinging" /\ Draw(h, live - 1)

Open(h) ==
    /\ at[h] \in {"opening", "extra"}
    /\ \E c \in Handles \ (InUse \cup Pooled) : conn' = [conn EXCEPT ![h] = c]
    /\ at' = [at EXCEPT ![h] = "held"]
    /\ UNCHANGED <<idle, live, overflow>>

BugForgetFailedOpen(h) ==           \* a bug: the early return skips the counters
    /\ at[h] \in {"opening", "extra"}
    /\ at' = [at EXCEPT ![h] = "out"]
    /\ UNCHANGED <<idle, live, overflow, conn>>

BugFailedExtraWasLive(h) ==         \* a bug: the same cleanup on both paths
    /\ at[h] \in {"opening", "extra"}
    /\ live' = live - 1
    /\ at' = [at EXCEPT ![h] = "out"]
    /\ UNCHANGED <<idle, overflow, conn>>

(* acquire returns nullptr; ok() = 0, and the destructor releases nothing.  In
   between another holder may have released its connection on the account of
   this overflow: then overflow_ becomes negative. *)
OpenFails(h) ==
    /\ \/ at[h] = "opening" /\ live' = live - 1 /\ UNCHANGED overflow
       \/ at[h] = "extra" /\ overflow' = overflow - 1 /\ UNCHANGED live
    /\ at' = [at EXCEPT ![h] = "out"]
    /\ UNCHANGED <<idle, conn>>

BugReleaseAtZero(h) ==              \* a bug: >= for > in the test of overflow_
    /\ at[h] = "held"
    /\ \/ /\ overflow >= 0
          /\ overflow' = overflow - 1
          /\ UNCHANGED <<idle, live>>
       \/ /\ overflow < 0
          /\ idle' = Append(idle, conn[h])
          /\ UNCHANGED <<live, overflow>>
    /\ at'   = [at EXCEPT ![h] = "out"]
    /\ conn' = [conn EXCEPT ![h] = None]

(* Any connection pays for an overflow, not only the one that was opened so. *)
Release(h) ==
    /\ at[h] = "held"
    /\ \/ /\ overflow > 0
          /\ overflow' = overflow - 1
          /\ UNCHANGED <<idle, live>>
       \/ /\ overflow <= 0 /\ Len(idle) >= MaxSize
          /\ live' = live - 1
          /\ UNCHANGED <<idle, overflow>>
       \/ /\ overflow <= 0 /\ Len(idle) < MaxSize
          /\ idle' = Append(idle, conn[h])
          /\ UNCHANGED <<live, overflow>>
    /\ at'   = [at EXCEPT ![h] = "out"]
    /\ conn' = [conn EXCEPT ![h] = None]

(* History, with every step: did the server drop or refuse a connection of the
   pool while overflow connections were counted? *)
NoteLoss == shrunk' = (overflow' > 0 /\ (shrunk \/ live' < live))

Next == \E h \in Holders :
    /\ Acquire(h) \/ PingOk(h) \/ PingFails(h) \/ Open(h) \/ OpenFails(h) \/ Release(h)
    /\ NoteLoss

Spec == Init /\ [][Next]_vars

-----------------------------------------------------------------------------
(* No two MysqlConn objects ever work on the same connection, and none works on
   a connection that is also idle. *)
NoSharedConnection ==
    /\ \A g, h \in Holders : conn[g] = conn[h] /\ conn[g] # None => g = h
    /\ \A i, j \in 1..Len(idle) : idle[i] = idle[j] => i = j
    /\ InUse \cap Pooled = {}

(* The connections there are: idle, in use or being opened. *)
Connections == Len(idle) + Cardinality(Busy)

(* The two counters together are the connections there are.  No error path of
   acquire leaks one, though a failed overflow makes each of them wrong by
   itself. *)
CountsMatch == live + overflow = Connections

(* While more connections exist than the pool may keep, the next release closes
   one: the pool shrinks back to mysql_pool_size. *)
ExcessIsClosed == Connections > MaxSize => overflow > 0

(* release closes a connection only while more than mysql_pool_size exist, or
   after the server dropped or refused one of the pool while overflow
   connections were counted: then the counter still makes it close one that the
   pool had room for.  Its second guard (idle_.size() >= max_size) never takes
   effect. *)
KeptUnlessInExcess ==
    [][\A h \in Holders : at[h] = "held" /\ at'[h] = "out"
                            => conn[h] \in Pooled' \/ Connections > MaxSize \/ shrunk]_vars
=============================================================================
