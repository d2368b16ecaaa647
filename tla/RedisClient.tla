----------------------------- MODULE RedisClient -----------------------------
(***************************************************************************)
(* The Redis client of nl-common/src/redis.cpp in one process: threads that *)
(* call it, one connection, and the mutex g_mu that a call holds from       *)
(* ensure_backend until it has read its reply.  The server and the network  *)
(* are external: the server executes, refuses, hangs or stops; a connection *)
(* breaks, or its other end disappears without telling.                     *)
(*                                                                         *)
(* Replies are whole: a kind and the value the functions look at.           *)
(***************************************************************************)
EXTENDS Integers, Sequences, RedisCommands

CONSTANTS
    Threads,
    Yes, No,    \* the functions' 1 and 0
    MaxFaults   \* bound: what goes wrong at the server or on the way

ASSUME ValuesAssumption == {None, Yes, No} \cap Values = {} /\ Yes # No /\ None # No
ASSUME KeysAssumption == None \notin Keys /\ None \notin Commands
ASSUME ThreadsAssumption == None \notin Threads
ASSUME FaultsAssumption == MaxFaults \in Nat

VARIABLES
    mu,         \* the thread that holds g_mu
    use,        \* g_use_redis
    cooling,    \* whether g_retry_at lies ahead
    conn,       \* what g_sock is: "none" is kInvalid
    requests,   \* on the connection: commands the server has not executed,
    replies,    \*   and what it has sent back
    pc, cmd,    \* thread -> where its call is, and the command
    ret,        \* thread -> what its last call returned, until the next
    server,     \* "up", "hung" or "down"
    store,      \* key -> its value
    late,       \* command -> how often it waits on connections closed here
    faults

wire   == <<conn, requests, replies>>
thread == <<pc, cmd, ret>>
remote == <<server, store, late, faults>>
vars   == <<mu, use, cooling, wire, thread, remote>>

(* "broken": the next read or write fails, and so on a socket whose connect
   failed ("unconnected").  "silent": the reply waited for will never come. *)
Conns == {"none", "unconnected", "open", "broken", "silent"}

Results == Values \cup {Yes, No} \cup SUBSET Keys

Reply == [kind : {"status", "nil", "int", "bulk", "array", "error"},
          val : Values \cup {None} \cup SUBSET Keys]

TypeOK ==
    /\ mu \in Threads \cup {None} /\ use \in BOOLEAN /\ cooling \in BOOLEAN
    /\ conn \in Conns /\ (use <=> conn # "none")
    /\ requests \in Seq(Commands) /\ replies \in Seq(Reply)
    /\ pc  \in [Threads -> {"out", "waiting", "sending", "receiving"}]
    /\ cmd \in [Threads -> Commands \cup {None}]
    /\ ret \in [Threads -> Results]
    /\ server \in {"up", "hung", "down"}
    /\ store \in [Keys -> Values \cup {None}]
    /\ late  \in [Commands -> Nat]
    /\ faults \in 0..MaxFaults
    /\ \A t \in Threads : /\ cmd[t] = None <=> pc[t] = "out"
                          /\ mu = t <=> pc[t] \in {"sending", "receiving"}

Init ==
    /\ mu = None /\ use = FALSE /\ cooling = FALSE
    /\ conn = "none" /\ requests = <<>> /\ replies = <<>>
    /\ pc  = [t \in Threads |-> "out"]
    /\ cmd = [t \in Threads |-> None]
    /\ ret = [t \in Threads |-> No]
    /\ server \in {"up", "down"}
    /\ store = [k \in Keys |-> None]
    /\ late  = [c \in Commands |-> 0]
    /\ faults = 0

-----------------------------------------------------------------------------
(* A thread's call *)

Call(t, c) ==
    /\ pc[t] = "out"
    /\ pc'  = [pc EXCEPT ![t] = "waiting"]
    /\ cmd' = [cmd EXCEPT ![t] = c]
    /\ ret' = [ret EXCEPT ![t] = No]
    /\ UNCHANGED <<mu, use, cooling, wire, remote>>

(* ensure_backend: after it there is a socket or a cool-down.  A hung server
   still accepts.  On Windows try_connect fails when nobody does; elsewhere it
   does not look at connect's result and keeps the socket. *)
Ensure ==
    /\ \/ (use \/ cooling) /\ UNCHANGED <<use, conn, cooling>>
       \/ /\ ~use /\ ~cooling /\ server # "down"
          /\ use' = TRUE /\ conn' = "open" /\ UNCHANGED cooling
       \/ /\ ~use /\ ~cooling /\ server = "down"
          /\ use' = TRUE /\ conn' = "unconnected" /\ UNCHANGED cooling
       \/ /\ ~use /\ ~cooling /\ server = "down"
          /\ cooling' = TRUE /\ UNCHANGED <<use, conn>>
    /\ UNCHANGED <<requests, replies>>

Leave(t, result) ==
    /\ pc'  = [pc EXCEPT ![t] = "out"]
    /\ cmd' = [cmd EXCEPT ![t] = None]
    /\ ret' = [ret EXCEPT ![t] = result]

(* g_mu is taken; without a connection the call fails at once. *)
Enter(t) ==
    /\ pc[t] = "waiting" /\ mu = None
    /\ Ensure
    /\ IF use'
       THEN mu' = t /\ pc' = [pc EXCEPT ![t] = "sending"] /\ UNCHANGED <<cmd, ret>>
       ELSE Leave(t, No) /\ UNCHANGED mu
    /\ UNCHANGED remote

(* redis_using *)
Using(t) ==
    /\ pc[t] = "out" /\ mu = None
    /\ Ensure
    /\ UNCHANGED <<mu, thread, remote>>

BugKeepSocket(t) ==             \* a bug: close_sock forgotten
    /\ use' = FALSE /\ cooling' = TRUE
    /\ mu' = None /\ Leave(t, No)
    /\ UNCHANGED <<wire, remote>>

BugTryAgain(t) ==               \* a bug: a command that failed is sent once more
    /\ use' = FALSE /\ conn' = "none" /\ requests' = <<>> /\ replies' = <<>>
    /\ mu' = None /\ pc' = [pc EXCEPT ![t] = "waiting"]
    /\ UNCHANGED <<cooling, cmd, ret, remote>>

(* The failing branch of exec: what the server has not read yet it may still
   execute, and replies under way are dropped with the socket. *)
GiveUp(t) ==
    /\ use' = FALSE /\ conn' = "none" /\ cooling' = TRUE
    /\ requests' = <<>> /\ replies' = <<>>
    /\ mu' = None /\ Leave(t, No)
    /\ UNCHANGED remote

(* send_all.  A broken connection may take the bytes before it fails. *)
Send(t) ==
    /\ pc[t] = "sending" /\ mu = t
    /\ \/ /\ conn \in {"open", "broken"}
          /\ requests' = IF conn = "open" THEN Append(requests, cmd[t]) ELSE requests
          /\ pc' = [pc EXCEPT ![t] = "receiving"]
          /\ UNCHANGED <<mu, use, cooling, conn, replies, cmd, ret, remote>>
       \/ conn \in {"unconnected", "broken"} /\ GiveUp(t)

(* What the functions make of a reply that is no error. *)
Result(c, r) ==
    CASE c.op = "GET"    -> IF r.kind = "nil" THEN No ELSE r.val
      [] c.op \in {"SET", "SETNX"} -> IF r.kind = "status" THEN Yes ELSE No
      [] c.op = "DEL"    -> Yes
      [] c.op = "KEYS"   -> IF r.kind = "array" THEN r.val ELSE {}

(* read_reply has a whole reply; an error reply counts as a failure. *)
Receive(t) ==
    /\ pc[t] = "receiving" /\ mu = t /\ replies # <<>>
    /\ \/ /\ Head(replies).kind = "error"
          /\ GiveUp(t)
       \/ /\ Head(replies).kind # "error"
          /\ Leave(t, Result(cmd[t], Head(replies)))
          /\ replies' = Tail(replies) /\ mu' = None
          /\ UNCHANGED <<use, cooling, conn, requests, remote>>

BugWaitAfterEnd(t) ==           \* a bug: recv's 0 at the end of the stream ignored
    /\ pc[t] = "receiving" /\ mu = t /\ replies = <<>> /\ conn = "broken"
    /\ UNCHANGED vars

(* recv returns 0 or -1. *)
ReceiveFails(t) ==
    /\ pc[t] = "receiving" /\ mu = t /\ replies = <<>> /\ conn = "broken"
    /\ GiveUp(t)

(* The five seconds of kReconnectCooldownMs pass. *)
CoolDown ==
    /\ cooling /\ cooling' = FALSE
    /\ UNCHANGED <<mu, use, wire, thread, remote>>

-----------------------------------------------------------------------------
(* The server and the network *)

ReplyTo(c, s) ==
    CASE c.op = "GET" -> IF s[c.key] = None THEN [kind |-> "nil", val |-> None]
                         ELSE [kind |-> "bulk", val |-> s[c.key]]
      [] c.op = "SET" -> [kind |-> "status", val |-> None]
      [] c.op = "SETNX" -> IF s[c.key] = None THEN [kind |-> "status", val |-> None]
                           ELSE [kind |-> "nil", val |-> None]
      [] c.op = "DEL" -> [kind |-> "int", val |-> None]
      [] c.op = "KEYS" -> [kind |-> "array", val |-> {k \in Keys : s[k] # None}]

Execute ==
    /\ server = "up" /\ conn = "open" /\ requests # <<>>
    /\ replies'  = Append(replies, ReplyTo(Head(requests), store))
    /\ requests' = Tail(requests)
    /\ store'    = Effect(Head(requests), store)
    /\ UNCHANGED <<mu, use, cooling, conn, thread, server, late, faults>>

Fault == faults < MaxFaults /\ faults' = faults + 1

(* An error reply, as while it loads its data or when it is out of memory. *)
Refuse ==
    /\ server = "up" /\ conn = "open" /\ requests # <<>> /\ Fault
    /\ replies'  = Append(replies, [kind |-> "error", val |-> None])
    /\ requests' = Tail(requests)
    /\ UNCHANGED <<mu, use, cooling, conn, thread, server, store, late>>

(* What was sent may have reached the server, and its reply the client. *)
Break(became) ==
    /\ conn = "open" /\ conn' = became /\ Fault
    /\ requests' = <<>>
    /\ \/ UNCHANGED late
       \/ requests # <<>> /\ late' = [late EXCEPT ![Head(requests)] = @ + 1]
    /\ UNCHANGED <<mu, use, cooling, thread, server, store>>

Reset == Break("broken") /\ replies' \in {replies, <<>>}

(* The server's host disappears while a reply is awaited: recv has no timeout. *)
Vanish ==
    /\ \E t \in Threads : pc[t] = "receiving"
    /\ Break("silent") /\ replies' = <<>>

ExecuteLate(c) ==
    /\ server = "up" /\ late[c] > 0
    /\ store' = Effect(c, store)
    /\ late'  = [late EXCEPT ![c] = @ - 1]
    /\ UNCHANGED <<mu, use, cooling, wire, thread, server, faults>>

Expire(k) ==
    /\ server # "down" /\ store[k] # None
    /\ store' = [store EXCEPT ![k] = None]
    /\ UNCHANGED <<mu, use, cooling, wire, thread, server, late, faults>>

Hang ==
    /\ server = "up" /\ server' = "hung" /\ Fault
    /\ UNCHANGED <<mu, use, cooling, wire, thread, store, late>>

(* The server stops after its connections break, which is all that the client
   sees of it; it comes back with what it had saved, possibly less or older. *)
Stop ==
    /\ server # "down" /\ conn # "open" /\ Fault
    /\ server' = "down"
    /\ late' = [c \in Commands |-> 0]
    /\ store' \in [Keys -> Values \cup {None}]
    /\ UNCHANGED <<mu, use, cooling, wire, thread>>

Recover ==
    /\ server # "up" /\ server' = "up"
    /\ UNCHANGED <<mu, use, cooling, wire, thread, store, late, faults>>

Environment ==
    \/ Execute \/ Refuse \/ Reset \/ Vanish \/ Hang \/ Stop \/ Recover
    \/ \E c \in Commands : ExecuteLate(c)
    \/ \E k \in Keys : Expire(k)

Client(t) ==
    \/ \E c \in Commands : Call(t, c)
    \/ Enter(t) \/ Using(t) \/ Send(t) \/ Receive(t) \/ ReceiveFails(t)

Next == (\E t \in Threads : Client(t)) \/ CoolDown \/ Environment
Spec == Init /\ [][Next]_vars

Fairness ==
    /\ \A t \in Threads : WF_vars(Send(t)) /\ WF_vars(Receive(t)) /\ WF_vars(ReceiveFails(t))
    /\ WF_vars(Execute)

FairSpec == Spec /\ Fairness

-----------------------------------------------------------------------------
(* The call of thread t as its caller may see it. *)
Stage(t) ==
    CASE pc[t] = "out" -> "idle"
      [] pc[t] \in {"waiting", "sending"} -> "asked"
      [] pc[t] = "receiving" /\ requests # <<>> -> "asked"
      [] pc[t] = "receiving" /\ requests = <<>> ->
            IF replies # <<>> /\ Head(replies).kind # "error" THEN "served" ELSE "lost"

CallOf(t) ==
    [stage |-> Stage(t), cmd |-> cmd[t],
     ans |-> IF Stage(t) = "served" THEN Result(cmd[t], Head(replies)) ELSE None]

Promise == INSTANCE KeyValue WITH
    running <- server # "down",
    call    <- [t \in Threads |-> CallOf(t)]

(* A call returns the answer to its own command, executed once and at one moment
   of the call, or fails: no thread is given another call's reply, no reply of a
   connection that was given up is read on the next one, and no command is sent
   again that may have been executed. *)
ImplementsKeyValue == Promise!Spec

(* The thread that holds g_mu lets go of it, whatever breaks, unless the server
   hangs or disappears under it for good: then, recv having no timeout, every
   other thread waits forever too. *)
MutexIsReleased ==
    <>[](server # "hung" /\ conn # "silent")
        => \A t \in Threads : mu = t ~> mu # t
=============================================================================
