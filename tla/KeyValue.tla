------------------------------ MODULE KeyValue ------------------------------
(***************************************************************************)
(* What the functions of nl-common/include/nloj/common/redis.h promise: a   *)
(* store shared by threads, each with one call at a time.  The command of a *)
(* call is executed at one moment between the call and its return, and the  *)
(* call returns the answer of that moment; or the call fails, and then its  *)
(* command has been executed, or may be once later, or never is.            *)
(***************************************************************************)
EXTENDS Integers, RedisCommands

CONSTANTS Threads,
          Yes, No   \* 1 and 0

VARIABLES
    running,    \* whether the server runs
    store,      \* key -> its value
    late,       \* command -> how many failed calls may still have it executed
    call,       \* thread -> the stage of its call, the command and the answer
    ret         \* thread -> what its last call returned, until the next

vars == <<running, store, late, call, ret>>

(* What the function of command c returns when the store is s. *)
Answer(c, s) ==
    CASE c.op = "GET"   -> IF s[c.key] = None THEN No ELSE s[c.key]
      [] c.op = "SETNX" -> IF s[c.key] = None THEN Yes ELSE No
      [] c.op = "KEYS"  -> {k \in Keys : s[k] # None}
      [] OTHER          -> Yes

Idle == [stage |-> "idle", cmd |-> None, ans |-> None]

Init ==
    /\ running \in BOOLEAN
    /\ store = [k \in Keys |-> None]
    /\ late  = [c \in Commands |-> 0]
    /\ call  = [t \in Threads |-> Idle]
    /\ ret   = [t \in Threads |-> No]

Ask(t, c) ==
    /\ call[t] = Idle
    /\ call' = [call EXCEPT ![t] = [stage |-> "asked", cmd |-> c, ans |-> None]]
    /\ ret'  = [ret EXCEPT ![t] = No]
    /\ UNCHANGED <<running, store, late>>

Serve(t) ==
    /\ running /\ call[t].stage = "asked"
    /\ store' = Effect(call[t].cmd, store)
    /\ call'  = [call EXCEPT ![t] = [stage |-> "served", cmd |-> call[t].cmd,
                                     ans |-> Answer(call[t].cmd, store)]]
    /\ UNCHANGED <<running, late, ret>>

Return(t) ==
    /\ call[t].stage = "served"
    /\ ret'  = [ret EXCEPT ![t] = call[t].ans]
    /\ call' = [call EXCEPT ![t] = Idle]
    /\ UNCHANGED <<running, store, late>>

(* The call can only fail now: its answer is lost, or its command is, or that
   command is still on its way. *)
Lose(t) ==
    /\ call[t].stage \in {"asked", "served"}
    /\ call' = [call EXCEPT ![t] = [stage |-> "lost", cmd |-> call[t].cmd, ans |-> None]]
    /\ \/ UNCHANGED late
       \/ /\ call[t].stage = "asked"
          /\ late' = [late EXCEPT ![call[t].cmd] = @ + 1]
    /\ UNCHANGED <<running, store, ret>>

Fail(t) ==
    /\ call[t].stage \in {"asked", "lost"}
    /\ ret'  = [ret EXCEPT ![t] = No]
    /\ call' = [call EXCEPT ![t] = Idle]
    /\ UNCHANGED <<running, store, late>>

ServeLate(c) ==
    /\ running /\ late[c] > 0
    /\ store' = Effect(c, store)
    /\ late'  = [late EXCEPT ![c] = @ - 1]
    /\ UNCHANGED <<running, call, ret>>

Expire(k) ==
    /\ running /\ store[k] # None
    /\ store' = [store EXCEPT ![k] = None]
    /\ UNCHANGED <<running, late, call, ret>>

(* What was on its way is lost, and the server comes back with what it saved. *)
Stop ==
    /\ running /\ running' = FALSE
    /\ store' \in [Keys -> Values \cup {None}]
    /\ late' = [c \in Commands |-> 0]
    /\ UNCHANGED <<call, ret>>

Start == ~running /\ running' = TRUE /\ UNCHANGED <<store, late, call, ret>>

Next ==
    \/ \E t \in Threads : \/ \E c \in Commands : Ask(t, c)
                          \/ Serve(t) \/ Return(t) \/ Lose(t) \/ Fail(t)
    \/ \E c \in Commands : ServeLate(c)
    \/ \E k \in Keys : Expire(k)
    \/ Stop \/ Start

Spec == Init /\ [][Next]_vars
=============================================================================
