-------------------------- MODULE RedisClientProofs --------------------------
(***************************************************************************)
(* The Redis client keeps what KeyValue promises, for any number of threads *)
(* and keys and any faults.  What this needs beside the types is that the   *)
(* connection carries at most the command of the thread that holds g_mu, or *)
(* the reply to it.                                                         *)
(***************************************************************************)
EXTENDS RedisClient, TLAPS

Stores == [Keys -> Values \cup {None}]

(* A reply that the function of command c can take. *)
Fits(c, r) == r \in Reply /\ (r.kind # "error" => Result(c, r) \in Results)

WireIsTheHolders ==
    /\ requests # <<>> =>
          /\ conn = "open" /\ replies = <<>>
          /\ \E t \in Threads : mu = t /\ pc[t] = "receiving" /\ requests = <<cmd[t]>>
    /\ replies # <<>> =>
          /\ requests = <<>>
          /\ \E t \in Threads : /\ mu = t /\ pc[t] = "receiving"
                                /\ \E r \in Reply : replies = <<r>> /\ Fits(cmd[t], r)

WireInv == TypeOK /\ WireIsTheHolders

-----------------------------------------------------------------------------
LEMMA CommandFields ==
    ASSUME NEW c \in Commands
    PROVE  \/ c.op = "GET" /\ c.key \in Keys
           \/ c.op = "DEL" /\ c.key \in Keys
           \/ c.op \in {"SET", "SETNX"} /\ c.key \in Keys /\ c.val \in Values
           \/ c.op = "KEYS" /\ c.key = None
  BY DEF Commands

LEMMA EmptyWire == <<>> \in Seq(Commands) /\ <<>> \in Seq(Reply)
  OBVIOUS

LEMMA EffectIsStore ==
    ASSUME NEW c \in Commands, NEW s \in Stores
    PROVE  Effect(c, s) \in Stores
  BY CommandFields, KeysAssumption DEF Effect, Stores

(* The reply of a server whose store is s makes the function return what
   KeyValue says. *)
LEMMA ReplyAnswers ==
    ASSUME NEW c \in Commands, NEW s \in Stores
    PROVE  /\ ReplyTo(c, s) \in Reply /\ ReplyTo(c, s).kind # "error"
           /\ Result(c, ReplyTo(c, s)) = Promise!Answer(c, s)
           /\ Result(c, ReplyTo(c, s)) \in Results
  <1>1. CASE c.op = "GET"
    BY <1>1, CommandFields DEF ReplyTo, Result, Promise!Answer, Reply, Results, Stores
  <1>2. CASE c.op = "DEL"
    BY <1>2, CommandFields DEF ReplyTo, Result, Promise!Answer, Reply, Results, Stores
  <1>3. CASE c.op = "SET"
    BY <1>3, CommandFields DEF ReplyTo, Result, Promise!Answer, Reply, Results, Stores
  <1>4. CASE c.op = "SETNX"
    BY <1>4, CommandFields DEF ReplyTo, Result, Promise!Answer, Reply, Results, Stores
  <1>5. CASE c.op = "KEYS"
    BY <1>5, CommandFields DEF ReplyTo, Result, Promise!Answer, Reply, Results, Stores
  <1> QED BY <1>1, <1>2, <1>3, <1>4, <1>5, CommandFields

-----------------------------------------------------------------------------
(* The failing branch of exec leaves an empty connection and no holder. *)
LEMMA GiveUpKeeps ==
    ASSUME WireInv, NEW t \in Threads, mu = t, GiveUp(t)
    PROVE  WireInv'
  <1> USE ThreadsAssumption, KeysAssumption DEF GiveUp, Leave, remote
  <1>1. TypeOK'
    <2>1. /\ mu' = None /\ use' = FALSE /\ cooling' = TRUE /\ conn' = "none"
          /\ requests' = <<>> /\ replies' = <<>>
          /\ requests' \in Seq(Commands) /\ replies' \in Seq(Reply)
      OBVIOUS
    <2>2. /\ pc' \in [Threads -> {"out", "waiting", "sending", "receiving"}]
          /\ cmd' \in [Threads -> Commands \cup {None}] /\ ret' \in [Threads -> Results]
      BY DEF WireInv, TypeOK, Results
    <2>3. \A u \in Threads : /\ cmd'[u] = None <=> pc'[u] = "out"
                             /\ mu' = u <=> pc'[u] \in {"sending", "receiving"}
      BY DEF WireInv, TypeOK
    <2> QED BY <2>1, <2>2, <2>3 DEF WireInv, TypeOK, Conns
  <1>2. WireIsTheHolders'
    BY DEF WireIsTheHolders
  <1> QED BY <1>1, <1>2 DEF WireInv

LEMMA EnsureKeeps ==
    ASSUME TypeOK, Ensure
    PROVE  use' \in BOOLEAN /\ cooling' \in BOOLEAN /\ conn' \in Conns /\ (use' <=> conn' # "none")
  <1>1. CASE UNCHANGED <<use, conn, cooling>>
    BY <1>1 DEF TypeOK
  <1>2. CASE use' = TRUE /\ conn' \in {"open", "unconnected"} /\ UNCHANGED cooling
    BY <1>2 DEF TypeOK, Conns
  <1>3. CASE cooling' = TRUE /\ UNCHANGED <<use, conn>>
    BY <1>3 DEF TypeOK
  <1> QED BY <1>1, <1>2, <1>3 DEF Ensure

LEMMA ClientKeeps ==
    ASSUME WireInv, NEW t \in Threads, Client(t)
    PROVE  WireInv'
  <1> USE ThreadsAssumption, KeysAssumption DEF WireInv
  <1>1. ASSUME NEW c \in Commands, Call(t, c) PROVE WireInv'
    <2>1. TypeOK'
      BY <1>1 DEF TypeOK, Call, remote, wire, Results
    <2>2. WireIsTheHolders'
      BY <1>1 DEF TypeOK, Call, remote, wire, WireIsTheHolders
    <2> QED BY <2>1, <2>2
  <1>2. CASE Enter(t)
    <2>0. requests = <<>> /\ replies = <<>> /\ UNCHANGED <<requests, replies>>
      BY <1>2 DEF Enter, Ensure, WireIsTheHolders
    <2>1. TypeOK'
      <3>1. use' \in BOOLEAN /\ cooling' \in BOOLEAN /\ conn' \in Conns /\ (use' <=> conn' # "none")
        BY <1>2, EnsureKeeps DEF TypeOK, Enter
      <3>2. /\ pc' \in [Threads -> {"out", "waiting", "sending", "receiving"}]
            /\ cmd' \in [Threads -> Commands \cup {None}] /\ ret' \in [Threads -> Results]
        <4>1. CASE use'
          BY <1>2, <4>1 DEF TypeOK, Enter
        <4>2. CASE ~use'
          <5>1. Leave(t, No) /\ No \in Results
            BY <1>2, <4>2 DEF Enter, Results
          <5> QED BY <5>1 DEF TypeOK, Leave
        <4> QED BY <4>1, <4>2
      <3>3. \A u \in Threads : /\ cmd'[u] = None <=> pc'[u] = "out"
                               /\ mu' = u <=> pc'[u] \in {"sending", "receiving"}
        BY <1>2 DEF TypeOK, Enter, Leave
      <3>4. mu' \in Threads \cup {None} /\ UNCHANGED remote
        BY <1>2 DEF TypeOK, Enter
      <3> QED BY <2>0, <3>1, <3>2, <3>3, <3>4 DEF TypeOK, remote
    <2>2. WireIsTheHolders'
      BY <2>0 DEF WireIsTheHolders
    <2> QED BY <2>1, <2>2
  <1>3. CASE Using(t)
    <2>0. requests = <<>> /\ replies = <<>> /\ UNCHANGED <<requests, replies>>
      BY <1>3 DEF Using, Ensure, WireIsTheHolders
    <2>1. TypeOK'
      <3>1. use' \in BOOLEAN /\ cooling' \in BOOLEAN /\ conn' \in Conns /\ (use' <=> conn' # "none")
        BY <1>3, EnsureKeeps DEF TypeOK, Using
      <3> QED BY <1>3, <2>0, <3>1 DEF TypeOK, Using, thread, remote
    <2>2. WireIsTheHolders'
      BY <2>0 DEF WireIsTheHolders
    <2> QED BY <2>1, <2>2
  <1>4. CASE Send(t)
    <2>0. requests = <<>> /\ replies = <<>>
      BY <1>4 DEF Send, WireIsTheHolders
    <2>1. CASE conn \in {"open", "broken"} /\ ~GiveUp(t)
      <3>1. /\ requests' = (IF conn = "open" THEN <<cmd[t]>> ELSE <<>>)
            /\ pc' = [pc EXCEPT ![t] = "receiving"] /\ mu = t
            /\ UNCHANGED <<mu, use, cooling, conn, replies, cmd, ret, remote>>
        BY <1>4, <2>0, <2>1 DEF Send
      <3>2. cmd[t] \in Commands
        BY <1>4 DEF Send, TypeOK
      <3>3. TypeOK'
        BY <3>1, <3>2, <1>4, <2>0 DEF TypeOK, Send, remote
      <3>4. WireIsTheHolders'
        BY <3>1, <2>0 DEF WireIsTheHolders, TypeOK
      <3> QED BY <3>3, <3>4
    <2>2. CASE GiveUp(t)
      BY <1>4, <2>2, GiveUpKeeps DEF Send
    <2> QED BY <1>4, <2>1, <2>2 DEF Send
  <1>5. CASE Receive(t)
    <2>1. CASE Head(replies).kind # "error"
      <3>0. PICK r \in Reply : replies = <<r>> /\ Fits(cmd[t], r) /\ requests = <<>> /\ mu = t
        BY <1>5 DEF Receive, WireIsTheHolders
      <3>1. /\ Leave(t, Result(cmd[t], r)) /\ replies' = <<>> /\ mu' = None
            /\ UNCHANGED <<use, cooling, conn, requests, remote>>
        BY <1>5, <2>1, <3>0 DEF Receive
      <3>2. Result(cmd[t], r) \in Results
        BY <2>1, <3>0 DEF Fits
      <3>3. TypeOK'
        BY <3>0, <3>1, <3>2 DEF TypeOK, Leave, remote
      <3>4. WireIsTheHolders'
        BY <3>0, <3>1 DEF WireIsTheHolders
      <3> QED BY <3>3, <3>4
    <2>2. CASE Head(replies).kind = "error"
      BY <1>5, <2>2, GiveUpKeeps DEF Receive
    <2> QED BY <2>1, <2>2
  <1>6. CASE ReceiveFails(t)
    BY <1>6, GiveUpKeeps DEF ReceiveFails
  <1> QED BY <1>1, <1>2, <1>3, <1>4, <1>5, <1>6 DEF Client

LEMMA EnvironmentKeeps ==
    ASSUME WireInv, Environment \/ CoolDown
    PROVE  WireInv'
  <1> USE FaultsAssumption DEF WireInv
  <1>1. CASE Execute
    <2>0. PICK t \in Threads : /\ mu = t /\ pc[t] = "receiving" /\ requests = <<cmd[t]>>
                              /\ conn = "open" /\ replies = <<>>
      BY <1>1 DEF Execute, WireIsTheHolders
    <2>1. cmd[t] \in Commands /\ store \in Stores
      BY <2>0 DEF TypeOK, Stores
    <2>2. /\ requests' = <<>> /\ replies' = <<ReplyTo(cmd[t], store)>>
          /\ store' = Effect(cmd[t], store)
          /\ UNCHANGED <<mu, use, cooling, conn, thread, server, late, faults>>
      BY <1>1, <2>0 DEF Execute
    <2>3. store' \in Stores
      BY <2>1, <2>2, EffectIsStore
    <2>4. ReplyTo(cmd[t], store) \in Reply /\ Fits(cmd[t], ReplyTo(cmd[t], store))
      BY <2>1, ReplyAnswers DEF Fits
    <2>5. TypeOK'
      BY <2>2, <2>3, <2>4 DEF TypeOK, Stores, thread
    <2>6. WireIsTheHolders'
      BY <2>0, <2>2, <2>4 DEF WireIsTheHolders, thread, Fits
    <2> QED BY <2>5, <2>6
  <1>2. CASE Refuse
    <2>0. PICK t \in Threads : /\ mu = t /\ pc[t] = "receiving" /\ requests = <<cmd[t]>>
                              /\ conn = "open" /\ replies = <<>>
      BY <1>2 DEF Refuse, WireIsTheHolders
    <2>1. DEFINE r == [kind |-> "error", val |-> None]
    <2>2. r \in Reply /\ Fits(cmd[t], r)
      BY DEF Reply, Fits
    <2>3. /\ requests' = <<>> /\ replies' = <<r>> /\ faults' \in 0..MaxFaults
          /\ UNCHANGED <<mu, use, cooling, conn, thread, server, store, late>>
      BY <1>2, <2>0 DEF Refuse, Fault, TypeOK
    <2> HIDE DEF r
    <2>4. TypeOK'
      BY <2>2, <2>3 DEF TypeOK, thread
    <2>5. WireIsTheHolders'
      BY <2>0, <2>2, <2>3 DEF WireIsTheHolders, thread, Fits
    <2> QED BY <2>4, <2>5
  <1>3. ASSUME NEW b \in {"broken", "silent"}, Break(b), replies' \in {replies, <<>>}
        PROVE  WireInv'
    <2>1. /\ requests' = <<>> /\ conn' = b /\ conn = "open" /\ faults' \in 0..MaxFaults
          /\ UNCHANGED <<mu, use, cooling, thread, server, store>>
      BY <1>3 DEF Break, Fault, TypeOK
    <2>2. late' \in [Commands -> Nat]
      BY <1>3 DEF Break, TypeOK
    <2>3. TypeOK'
      <3>1. conn' \in Conns /\ (use' <=> conn' # "none")
        BY <2>1 DEF TypeOK, Conns
      <3>2. requests' \in Seq(Commands) /\ replies' \in Seq(Reply)
        BY <1>3, <2>1, EmptyWire DEF TypeOK
      <3> QED BY <2>1, <2>2, <3>1, <3>2 DEF TypeOK, thread
    <2>4. WireIsTheHolders'
      BY <1>3, <2>1 DEF WireIsTheHolders, thread, Fits
    <2> QED BY <2>3, <2>4
  <1>4. CASE Reset
    BY <1>3, <1>4 DEF Reset
  <1>5. CASE Vanish
    BY <1>3, <1>5 DEF Vanish
  <1>6. ASSUME UNCHANGED <<mu, use, wire, thread>>, cooling' \in BOOLEAN,
               server' \in {"up", "hung", "down"}, store' \in Stores,
               late' \in [Commands -> Nat], faults' \in 0..MaxFaults
        PROVE  WireInv'
    <2>1. TypeOK'
      BY <1>6 DEF TypeOK, wire, thread, Stores
    <2>2. WireIsTheHolders'
      BY <1>6 DEF WireIsTheHolders, wire, thread, Fits
    <2> QED BY <2>1, <2>2
  <1>7. CASE Hang \/ Stop \/ Recover
    <2>1. /\ UNCHANGED <<mu, use, wire, thread, cooling>>
          /\ server' \in {"up", "hung", "down"} /\ faults' \in 0..MaxFaults
      BY <1>7 DEF Hang, Stop, Recover, Fault, TypeOK
    <2>2. store' \in Stores
      BY <1>7 DEF Hang, Stop, Recover, TypeOK, Stores
    <2>3. late' \in [Commands -> Nat]
      BY <1>7 DEF Hang, Stop, Recover, TypeOK
    <2> QED BY <1>6, <2>1, <2>2, <2>3 DEF TypeOK
  <1>8. ASSUME NEW c \in Commands, ExecuteLate(c) PROVE WireInv'
    <2>1. store' \in Stores
      BY <1>8, EffectIsStore DEF ExecuteLate, TypeOK, Stores
    <2>2. late' \in [Commands -> Nat]
      BY <1>8 DEF ExecuteLate, TypeOK
    <2> QED BY <1>6, <1>8, <2>1, <2>2 DEF ExecuteLate, TypeOK
  <1>9. ASSUME NEW k \in Keys, Expire(k) PROVE WireInv'
    <2>1. store' \in Stores
      BY <1>9 DEF Expire, TypeOK, Stores
    <2> QED BY <1>6, <1>9, <2>1 DEF Expire, TypeOK
  <1>10. CASE CoolDown
    BY <1>6, <1>10 DEF CoolDown, remote, TypeOK, Stores
  <1> QED BY <1>1, <1>2, <1>4, <1>5, <1>7, <1>8, <1>9, <1>10 DEF Environment

LEMMA InitHolds == Init => WireInv
  <1> SUFFICES ASSUME Init PROVE WireInv
    OBVIOUS
  <1>1. TypeOK
    <2>1. /\ mu \in Threads \cup {None} /\ use \in BOOLEAN /\ cooling \in BOOLEAN
          /\ conn \in Conns /\ use = FALSE /\ conn = "none"
          /\ requests \in Seq(Commands) /\ replies \in Seq(Reply)
      BY EmptyWire DEF Init, Conns
    <2>0. use <=> conn # "none"
      BY <2>1
    <2>2. /\ pc \in [Threads -> {"out", "waiting", "sending", "receiving"}]
          /\ cmd \in [Threads -> Commands \cup {None}] /\ ret \in [Threads -> Results]
          /\ \A t \in Threads : /\ cmd[t] = None <=> pc[t] = "out"
                                /\ mu = t <=> pc[t] \in {"sending", "receiving"}
      BY ThreadsAssumption DEF Init, Results
    <2>3. /\ server \in {"up", "hung", "down"} /\ store \in [Keys -> Values \cup {None}]
          /\ late \in [Commands -> Nat] /\ faults \in 0..MaxFaults
      BY FaultsAssumption DEF Init
    <2> QED BY <2>0, <2>1, <2>2, <2>3 DEF TypeOK
  <1>2. WireIsTheHolders
    BY DEF Init, WireIsTheHolders
  <1> QED BY <1>1, <1>2 DEF WireInv

LEMMA StepKeeps == WireInv /\ [Next]_vars => WireInv'
  <1> SUFFICES ASSUME WireInv, [Next]_vars PROVE WireInv'
    OBVIOUS
  <1>1. CASE UNCHANGED vars
    BY <1>1 DEF vars, wire, thread, remote, WireInv, TypeOK, WireIsTheHolders
  <1>2. CASE Next
    BY <1>2, ClientKeeps, EnvironmentKeeps DEF Next
  <1> QED BY <1>1, <1>2

(* The client's state stays within its types, and whoever is inside a call is
   the one thread that holds g_mu. *)
THEOREM ClientTypes == Spec => []TypeOK
  <1>1. WireInv => TypeOK
    BY DEF WireInv
  <1> QED BY <1>1, InitHolds, StepKeeps, PTL DEF Spec

-----------------------------------------------------------------------------
(* The calls, as KeyValue sees them. *)
Calls == [t \in Threads |-> CallOf(t)]

IdleCall == [stage |-> "idle", cmd |-> None, ans |-> None]

(* The two modules' copies of RedisCommands. *)
LEMMA SameCommands ==
    /\ Promise!Commands = Commands
    /\ \A c, s : Promise!Effect(c, s) = Effect(c, s)
  BY DEF Commands, Promise!Commands, Effect, Promise!Effect

(* What a thread shows depends on its own place and, inside the mutex, on what
   is on the connection. *)
LEMMA OthersShowTheSame ==
    ASSUME WireInv, NEW t \in Threads, mu \in {None, t},
           \A u \in Threads \ {t} : pc'[u] = pc[u] /\ cmd'[u] = cmd[u]
    PROVE  \A u \in Threads \ {t} : CallOf(u)' = CallOf(u)
  <1> SUFFICES ASSUME NEW u \in Threads \ {t} PROVE CallOf(u)' = CallOf(u)
    OBVIOUS
  <1>1. pc[u] \in {"out", "waiting"}
    BY ThreadsAssumption DEF WireInv, TypeOK
  <1> QED BY <1>1 DEF CallOf, Stage

LEMMA CallsChange ==
    ASSUME WireInv, NEW t \in Threads, mu \in {None, t}, NEW r,
           \A u \in Threads \ {t} : pc'[u] = pc[u] /\ cmd'[u] = cmd[u],
           CallOf(t)' = r
    PROVE  Calls' = [Calls EXCEPT ![t] = r]
  BY OthersShowTheSame DEF Calls

(* The stages of a thread. *)
LEMMA Shows ==
    ASSUME NEW t \in Threads
    PROVE  /\ pc[t] = "out" => CallOf(t) = [stage |-> "idle", cmd |-> cmd[t], ans |-> None]
           /\ pc[t] \in {"waiting", "sending"} =>
                 CallOf(t) = [stage |-> "asked", cmd |-> cmd[t], ans |-> None]
           /\ pc[t] = "receiving" /\ requests # <<>> =>
                 CallOf(t) = [stage |-> "asked", cmd |-> cmd[t], ans |-> None]
           /\ pc[t] = "receiving" /\ requests = <<>> /\ (replies = <<>> \/ Head(replies).kind = "error") =>
                 CallOf(t) = [stage |-> "lost", cmd |-> cmd[t], ans |-> None]
           /\ pc[t] = "receiving" /\ requests = <<>> /\ replies # <<>> /\ Head(replies).kind # "error" =>
                 CallOf(t) = [stage |-> "served", cmd |-> cmd[t], ans |-> Result(cmd[t], Head(replies))]
  BY DEF CallOf, Stage

(* A call that fails. *)
LEMMA GiveUpFails ==
    ASSUME WireInv, NEW t \in Threads, mu = t, GiveUp(t),
           pc[t] = "sending" \/ (requests = <<>> /\ (replies = <<>> \/ Head(replies).kind = "error"))
    PROVE  Promise!Fail(t)
  <1> USE DEF WireInv
  <1>1. pc[t] \in {"sending", "receiving"}
    BY DEF TypeOK
  <1>2. CallOf(t).stage \in {"asked", "lost"}
    BY <1>1, Shows
  <1>3. pc'[t] = "out" /\ cmd'[t] = None
    BY DEF GiveUp, Leave, TypeOK
  <1>4. CallOf(t)' = IdleCall
    BY <1>3 DEF CallOf, Stage, IdleCall
  <1>5. \A u \in Threads \ {t} : pc'[u] = pc[u] /\ cmd'[u] = cmd[u]
    BY DEF GiveUp, Leave, TypeOK
  <1>6. Calls' = [Calls EXCEPT ![t] = IdleCall]
    BY <1>4, <1>5, CallsChange
  <1>7. ret' = [ret EXCEPT ![t] = No] /\ UNCHANGED <<server, store, late>>
    BY DEF GiveUp, Leave, remote
  <1> QED BY <1>2, <1>6, <1>7 DEF Promise!Fail, Promise!Idle, Calls, IdleCall

LEMMA ClientPromises ==
    ASSUME WireInv, NEW t \in Threads, Client(t)
    PROVE  Promise!Next \/ UNCHANGED <<server, store, late, Calls, ret>>
  <1> USE ThreadsAssumption DEF WireInv
  <1>1. ASSUME NEW c \in Commands, Call(t, c) PROVE Promise!Next
    <2>1. pc[t] = "out" /\ cmd[t] = None
      BY <1>1 DEF Call, TypeOK
    <2>2. /\ pc' = [pc EXCEPT ![t] = "waiting"] /\ cmd' = [cmd EXCEPT ![t] = c]
          /\ ret' = [ret EXCEPT ![t] = No] /\ UNCHANGED <<server, store, late, requests, replies>>
      BY <1>1 DEF Call, wire, remote
    <2>3. CallOf(t) = IdleCall
      BY <2>1, Shows DEF IdleCall
    <2>4. CallOf(t)' = [stage |-> "asked", cmd |-> c, ans |-> None]
      <3>1. pc'[t] = "waiting" /\ cmd'[t] = c
        BY <2>2 DEF TypeOK
      <3> QED BY <3>1 DEF CallOf, Stage
    <2>5. \A u \in Threads \ {t} : CallOf(u)' = CallOf(u)
      BY <2>2 DEF CallOf, Stage, TypeOK
    <2>6. Calls' = [Calls EXCEPT ![t] = [stage |-> "asked", cmd |-> c, ans |-> None]]
      BY <2>4, <2>5 DEF Calls
    <2>7. Promise!Ask(t, c)
      BY <2>2, <2>3, <2>6 DEF Promise!Ask, Promise!Idle, Calls, IdleCall
    <2> QED BY <2>7, SameCommands DEF Promise!Next
  <1>2. CASE Enter(t)
    <2>0. /\ requests = <<>> /\ replies = <<>> /\ UNCHANGED <<requests, replies>>
          /\ pc[t] = "waiting" /\ mu = None /\ UNCHANGED <<server, store, late>>
      BY <1>2 DEF Enter, Ensure, WireIsTheHolders, remote
    <2>1. CASE mu' = t /\ pc' = [pc EXCEPT ![t] = "sending"] /\ UNCHANGED <<cmd, ret>>
      <3>1. \A u \in Threads : CallOf(u)' = CallOf(u)
        BY <2>0, <2>1 DEF CallOf, Stage, TypeOK
      <3> QED BY <2>0, <2>1, <3>1 DEF Calls
    <2>2. CASE Leave(t, No)
      <3>1. /\ pc' = [pc EXCEPT ![t] = "out"] /\ cmd' = [cmd EXCEPT ![t] = None]
            /\ ret' = [ret EXCEPT ![t] = No]
        BY <2>2 DEF Leave
      <3>2. CallOf(t).stage = "asked"
        BY <2>0, Shows
      <3>3. CallOf(t)' = IdleCall
        <4>1. pc'[t] = "out" /\ cmd'[t] = None
          BY <3>1 DEF TypeOK
        <4> QED BY <4>1 DEF CallOf, Stage, IdleCall
      <3>4. \A u \in Threads \ {t} : pc'[u] = pc[u] /\ cmd'[u] = cmd[u]
        BY <3>1 DEF TypeOK
      <3>5. Calls' = [Calls EXCEPT ![t] = IdleCall]
        BY <2>0, <3>3, <3>4, CallsChange
      <3>6. Promise!Fail(t)
        BY <2>0, <3>1, <3>2, <3>5 DEF Promise!Fail, Promise!Idle, Calls, IdleCall
      <3> QED BY <3>6 DEF Promise!Next
    <2> QED BY <1>2, <2>1, <2>2 DEF Enter
  <1>3. CASE Using(t)
    <2>1. \A u \in Threads : CallOf(u)' = CallOf(u)
      BY <1>3 DEF Using, Ensure, thread, CallOf, Stage
    <2> QED BY <1>3, <2>1 DEF Using, thread, remote, Calls
  <1>4. CASE Send(t)
    <2>0. requests = <<>> /\ replies = <<>> /\ pc[t] = "sending" /\ mu = t
      BY <1>4 DEF Send, WireIsTheHolders
    <2>1. CASE ~GiveUp(t)
      <3>1. /\ requests' = (IF conn = "open" THEN <<cmd[t]>> ELSE <<>>)
            /\ pc' = [pc EXCEPT ![t] = "receiving"]
            /\ UNCHANGED <<mu, replies, cmd, ret, server, store, late>>
        BY <1>4, <2>0, <2>1 DEF Send, remote
      <3>2. pc'[t] = "receiving" /\ \A u \in Threads \ {t} : pc'[u] = pc[u] /\ cmd'[u] = cmd[u]
        BY <3>1 DEF TypeOK
      <3>3. CallOf(t) = [stage |-> "asked", cmd |-> cmd[t], ans |-> None]
        BY <2>0, Shows
      <3>4. CASE conn = "open"
        <4>1. CallOf(t)' = CallOf(t)
          BY <3>1, <3>2, <3>3, <3>4 DEF CallOf, Stage
        <4>2. \A u \in Threads : CallOf(u)' = CallOf(u)
          BY <2>0, <3>2, <4>1, OthersShowTheSame
        <4> QED BY <3>1, <4>2 DEF Calls
      <3>5. CASE conn # "open"
        <4>1. CallOf(t)' = [stage |-> "lost", cmd |-> cmd[t], ans |-> None]
          BY <2>0, <3>1, <3>2, <3>5 DEF CallOf, Stage
        <4>2. Calls' = [Calls EXCEPT ![t] = [stage |-> "lost", cmd |-> cmd[t], ans |-> None]]
          BY <2>0, <3>2, <4>1, CallsChange
        <4>3. Calls[t].stage = "asked" /\ Calls[t].cmd = cmd[t]
          BY <3>3 DEF Calls
        <4>4. Promise!Lose(t)
          BY <3>1, <4>2, <4>3 DEF Promise!Lose, Calls
        <4> QED BY <4>4 DEF Promise!Next
      <3> QED BY <3>4, <3>5
    <2>2. CASE GiveUp(t)
      BY <2>0, <2>2, GiveUpFails DEF Promise!Next
    <2> QED BY <2>1, <2>2
  <1>5. CASE Receive(t)
    <2>0. PICK r \in Reply : /\ replies = <<r>> /\ Fits(cmd[t], r) /\ requests = <<>>
                            /\ mu = t /\ pc[t] = "receiving"
      BY <1>5 DEF Receive, WireIsTheHolders
    <2>1. CASE r.kind # "error"
      <3>1. /\ pc' = [pc EXCEPT ![t] = "out"] /\ cmd' = [cmd EXCEPT ![t] = None]
            /\ ret' = [ret EXCEPT ![t] = Result(cmd[t], r)] /\ UNCHANGED <<server, store, late>>
        BY <1>5, <2>0, <2>1 DEF Receive, Leave, remote
      <3>2. CallOf(t) = [stage |-> "served", cmd |-> cmd[t], ans |-> Result(cmd[t], r)]
        BY <2>0, <2>1, Shows
      <3>3. CallOf(t)' = IdleCall
        <4>1. pc'[t] = "out" /\ cmd'[t] = None
          BY <3>1 DEF TypeOK
        <4> QED BY <4>1 DEF CallOf, Stage, IdleCall
      <3>4. \A u \in Threads \ {t} : pc'[u] = pc[u] /\ cmd'[u] = cmd[u]
        BY <3>1 DEF TypeOK
      <3>5. Calls' = [Calls EXCEPT ![t] = IdleCall]
        BY <2>0, <3>3, <3>4, CallsChange
      <3>6. Calls[t].stage = "served" /\ Calls[t].ans = Result(cmd[t], r)
        BY <3>2 DEF Calls
      <3>7. Promise!Return(t)
        BY <3>1, <3>5, <3>6 DEF Promise!Return, Promise!Idle, Calls, IdleCall
      <3> QED BY <3>7 DEF Promise!Next
    <2>2. CASE r.kind = "error"
      BY <1>5, <2>0, <2>2, GiveUpFails DEF Receive, Promise!Next
    <2> QED BY <2>1, <2>2
  <1>6. CASE ReceiveFails(t)
    <2>1. requests = <<>> /\ replies = <<>> /\ mu = t
      BY <1>6 DEF ReceiveFails, WireIsTheHolders
    <2> QED BY <1>6, <2>1, GiveUpFails DEF ReceiveFails, Promise!Next
  <1> QED BY <1>1, <1>2, <1>3, <1>4, <1>5, <1>6 DEF Client

LEMMA EnvironmentPromises ==
    ASSUME WireInv, Environment \/ CoolDown
    PROVE  Promise!Next \/ UNCHANGED <<server # "down", store, late, Calls, ret>>
  <1> USE ThreadsAssumption DEF WireInv
  <1>1. ASSUME UNCHANGED <<requests, replies, thread>> PROVE UNCHANGED <<Calls, ret>>
    <2>1. \A u \in Threads : CallOf(u)' = CallOf(u)
      BY <1>1 DEF thread, CallOf, Stage
    <2> QED BY <1>1, <2>1 DEF Calls, thread
  <1>2. ASSUME NEW t \in Threads, mu = t, UNCHANGED <<pc, cmd>>, NEW r, CallOf(t)' = r
        PROVE  Calls' = [Calls EXCEPT ![t] = r]
    BY <1>2, CallsChange
  <1>3. CASE Execute
    <2>0. PICK t \in Threads : /\ mu = t /\ pc[t] = "receiving" /\ requests = <<cmd[t]>>
                              /\ replies = <<>>
      BY <1>3 DEF Execute, WireIsTheHolders
    <2>1. cmd[t] \in Commands /\ store \in Stores
      BY <2>0 DEF TypeOK, Stores
    <2>2. DEFINE r == ReplyTo(cmd[t], store)
    <2>3. /\ requests' = <<>> /\ replies' = <<r>> /\ store' = Effect(cmd[t], store)
          /\ server = "up" /\ UNCHANGED <<pc, cmd, ret, server, late>>
      BY <1>3, <2>0 DEF Execute, thread
    <2>4. r.kind # "error" /\ Result(cmd[t], r) = Promise!Answer(cmd[t], store)
      BY <2>1, ReplyAnswers
    <2> HIDE DEF r
    <2>5. CallOf(t) = [stage |-> "asked", cmd |-> cmd[t], ans |-> None]
      BY <2>0, Shows
    <2>6. CallOf(t)' = [stage |-> "served", cmd |-> cmd[t],
                        ans |-> Promise!Answer(cmd[t], store)]
      BY <2>0, <2>3, <2>4 DEF CallOf, Stage
    <2>7. Calls' = [Calls EXCEPT ![t] = [stage |-> "served", cmd |-> cmd[t],
                                         ans |-> Promise!Answer(cmd[t], store)]]
      BY <1>2, <2>0, <2>3, <2>6
    <2>8. Calls[t].stage = "asked" /\ Calls[t].cmd = cmd[t]
      BY <2>5 DEF Calls
    <2>9. Promise!Serve(t)
      BY <2>3, <2>7, <2>8, SameCommands DEF Promise!Serve, Calls
    <2> QED BY <2>9 DEF Promise!Next
  <1>4. CASE Refuse
    <2>0. PICK t \in Threads : /\ mu = t /\ pc[t] = "receiving" /\ requests = <<cmd[t]>>
                              /\ replies = <<>>
      BY <1>4 DEF Refuse, WireIsTheHolders
    <2>1. /\ requests' = <<>> /\ replies' = <<[kind |-> "error", val |-> None]>>
          /\ UNCHANGED <<pc, cmd, ret, server, store, late>>
      BY <1>4, <2>0 DEF Refuse, thread
    <2>2. CallOf(t) = [stage |-> "asked", cmd |-> cmd[t], ans |-> None]
      BY <2>0, Shows
    <2>3. CallOf(t)' = [stage |-> "lost", cmd |-> cmd[t], ans |-> None]
      BY <2>0, <2>1 DEF CallOf, Stage
    <2>4. Calls' = [Calls EXCEPT ![t] = [stage |-> "lost", cmd |-> cmd[t], ans |-> None]]
      BY <1>2, <2>0, <2>1, <2>3
    <2>5. Calls[t].stage = "asked" /\ Calls[t].cmd = cmd[t]
      BY <2>2 DEF Calls
    <2>6. Promise!Lose(t)
      BY <2>1, <2>4, <2>5 DEF Promise!Lose, Calls
    <2> QED BY <2>6 DEF Promise!Next
  <1>5. ASSUME NEW b \in {"broken", "silent"}, Break(b), replies' \in {replies, <<>>}
        PROVE  Promise!Next \/ UNCHANGED <<server, store, late, Calls, ret>>
    <2>1. requests' = <<>> /\ UNCHANGED <<mu, pc, cmd, ret, server, store>>
      BY <1>5 DEF Break, thread
    <2>2. CASE requests # <<>>
      <3>0. PICK t \in Threads : /\ mu = t /\ pc[t] = "receiving" /\ requests = <<cmd[t]>>
                                /\ replies = <<>>
        BY <2>2 DEF WireIsTheHolders
      <3>1. CallOf(t) = [stage |-> "asked", cmd |-> cmd[t], ans |-> None]
        BY <3>0, Shows
      <3>2. CallOf(t)' = [stage |-> "lost", cmd |-> cmd[t], ans |-> None]
        BY <1>5, <2>1, <3>0 DEF CallOf, Stage
      <3>3. Calls' = [Calls EXCEPT ![t] = [stage |-> "lost", cmd |-> cmd[t], ans |-> None]]
        BY <1>2, <2>1, <3>0, <3>2
      <3>4. Calls[t].stage = "asked" /\ Calls[t].cmd = cmd[t]
        BY <3>1 DEF Calls
      <3>5. UNCHANGED late \/ late' = [late EXCEPT ![cmd[t]] = @ + 1]
        BY <1>5, <3>0 DEF Break
      <3>6. Promise!Lose(t)
        BY <2>1, <3>3, <3>4, <3>5 DEF Promise!Lose, Calls
      <3> QED BY <3>6 DEF Promise!Next
    <2>3. CASE replies # <<>> /\ replies' = <<>>
      <3>0. PICK t \in Threads, r \in Reply :
                 mu = t /\ pc[t] = "receiving" /\ replies = <<r>> /\ requests = <<>>
        BY <2>3 DEF WireIsTheHolders
      <3>1. CallOf(t)' = [stage |-> "lost", cmd |-> cmd[t], ans |-> None]
        BY <2>1, <2>3, <3>0 DEF CallOf, Stage
      <3>2. UNCHANGED late
        BY <1>5, <3>0 DEF Break
      <3>3. CASE r.kind = "error"
        <4>1. CallOf(t) = [stage |-> "lost", cmd |-> cmd[t], ans |-> None]
          BY <3>0, <3>3, Shows
        <4>2. \A u \in Threads : CallOf(u)' = CallOf(u)
          BY <2>1, <3>0, <3>1, <4>1, OthersShowTheSame
        <4> QED BY <2>1, <3>2, <4>2 DEF Calls
      <3>4. CASE r.kind # "error"
        <4>1. CallOf(t) = [stage |-> "served", cmd |-> cmd[t], ans |-> Result(cmd[t], r)]
          BY <3>0, <3>4, Shows
        <4>2. Calls' = [Calls EXCEPT ![t] = [stage |-> "lost", cmd |-> cmd[t], ans |-> None]]
          BY <1>2, <2>1, <3>0, <3>1
        <4>3. Calls[t].stage = "served" /\ Calls[t].cmd = cmd[t]
          BY <4>1 DEF Calls
        <4>4. Promise!Lose(t)
          BY <2>1, <3>2, <4>2, <4>3 DEF Promise!Lose, Calls
        <4> QED BY <4>4 DEF Promise!Next
      <3> QED BY <3>3, <3>4
    <2>4. CASE requests = <<>> /\ replies' = replies
      BY <1>1, <1>5, <2>1, <2>4 DEF Break, thread
    <2> QED BY <1>5, <2>2, <2>3, <2>4
  <1>6. CASE Reset
    BY <1>5, <1>6 DEF Reset
  <1>7. CASE Vanish
    BY <1>5, <1>7 DEF Vanish
  <1>8. CASE Hang
    BY <1>1, <1>8 DEF Hang, wire, thread
  <1>9. CASE Stop
    <2>1. /\ UNCHANGED <<Calls, ret>> /\ server # "down" /\ server' = "down"
          /\ store' \in [Keys -> Values \cup {None}] /\ late' = [c \in Commands |-> 0]
      BY <1>1, <1>9 DEF Stop, wire, thread
    <2>2. Promise!Stop
      BY <2>1, SameCommands DEF Promise!Stop, Calls
    <2> QED BY <2>2 DEF Promise!Next
  <1>10. CASE Recover
    <2>1. UNCHANGED <<Calls, ret, store, late>> /\ server' # "down"
      BY <1>1, <1>10 DEF Recover, wire, thread
    <2>2. CASE server = "down"
      <3>1. Promise!Start
        BY <2>1, <2>2 DEF Promise!Start, Calls
      <3> QED BY <3>1 DEF Promise!Next
    <2>3. CASE server # "down"
      BY <2>1, <2>3
    <2> QED BY <2>2, <2>3
  <1>11. ASSUME NEW c \in Commands, ExecuteLate(c) PROVE Promise!Next
    <2>1. UNCHANGED <<Calls, ret, server>> /\ server = "up"
      BY <1>1, <1>11 DEF ExecuteLate, wire, thread
    <2>2. Promise!ServeLate(c)
      BY <1>11, <2>1, SameCommands DEF ExecuteLate, Promise!ServeLate, Calls
    <2> QED BY <2>2, SameCommands DEF Promise!Next
  <1>12. ASSUME NEW k \in Keys, Expire(k) PROVE Promise!Next
    <2>1. UNCHANGED <<Calls, ret, server>>
      BY <1>1, <1>12 DEF Expire, wire, thread
    <2>2. Promise!Expire(k)
      BY <1>12, <2>1 DEF Expire, Promise!Expire, Calls
    <2> QED BY <2>2 DEF Promise!Next
  <1>13. CASE CoolDown
    BY <1>1, <1>13 DEF CoolDown, wire, thread, remote
  <1> QED BY <1>3, <1>4, <1>6, <1>7, <1>8, <1>9, <1>10, <1>11, <1>12, <1>13 DEF Environment

LEMMA StepPromises == WireInv /\ [Next]_vars => [Promise!Next]_(Promise!vars)
  <1> SUFFICES ASSUME WireInv, [Next]_vars PROVE [Promise!Next]_(Promise!vars)
    OBVIOUS
  <1>1. CASE UNCHANGED vars
    <2>1. UNCHANGED <<server, store, late, Calls, ret>>
      BY <1>1 DEF vars, wire, thread, remote, Calls, CallOf, Stage
    <2> QED BY <2>1 DEF Promise!vars, Calls
  <1>2. CASE Next
    <2>1. Promise!Next \/ UNCHANGED <<server # "down", store, late, Calls, ret>>
      BY <1>2, ClientPromises, EnvironmentPromises DEF Next
    <2> QED BY <2>1 DEF Promise!vars, Calls
  <1> QED BY <1>1, <1>2

(* Whatever breaks, and for any number of threads and keys, a call of the client
   returns the answer to its own command, executed once during the call, or
   fails. *)
THEOREM ClientKeepsThePromise == Spec => ImplementsKeyValue
  <1>1. Init => Promise!Init
    <2>1. ASSUME Init, NEW t \in Threads PROVE CallOf(t) = Promise!Idle
      BY <2>1 DEF Init, CallOf, Stage, Promise!Idle
    <2> QED BY <2>1, SameCommands DEF Init, Promise!Init
  <1> QED BY <1>1, InitHolds, StepKeeps, StepPromises, PTL
          DEF Spec, ImplementsKeyValue, Promise!Spec
=============================================================================
