---------------------------- MODULE RedisCommands ----------------------------
(***************************************************************************)
(* The commands that nl-common/src/redis.cpp sends, and what the server     *)
(* does with them.  A time to live is left out: a key may expire any time.  *)
(***************************************************************************)
CONSTANTS Keys, Values,
          None      \* no key, no value, no command

Commands ==
    [op : {"GET", "DEL"}, key : Keys, val : {None}]
    \cup [op : {"SET", "SETNX"}, key : Keys, val : Values]
    \cup [op : {"KEYS"}, key : {None}, val : {None}]

(* The store that command c leaves of s. *)
Effect(c, s) ==
    [k \in Keys |->
        IF k # c.key THEN s[k]
        ELSE CASE c.op = "DEL" -> None
               [] c.op = "SET" -> c.val
               [] c.op = "SETNX" /\ s[k] = None -> c.val
               [] OTHER -> s[k]]
=============================================================================
