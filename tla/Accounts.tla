------------------------------- MODULE Accounts -------------------------------
(***************************************************************************)
(* register_user, login_user and the checks of the HTTP routes on a token   *)
(* (nl-user/src/module.cpp; require_login and require_admin in              *)
(* nl-api/src/server.cpp). Registration looks for the name and inserts the  *)
(* row in two statements; login reads the row and its role, and signs a     *)
(* token with that role, by a clock it reads later.                         *)
(*                                                                         *)
(* The table's unique key is on the name alone. Roles are changed and rows  *)
(* marked deleted by an operator in MySQL: no code under src/ does either.  *)
(* Hashing and signing are taken to work.                                   *)
(***************************************************************************)
EXTENDS Integers, FiniteSets

CONSTANTS Names, Passwords, Requests, TokenLife, MaxTime, MaxTokens
ASSUME RequestsAssumption == IsFiniteSet(Requests)
ASSUME TimesAssumption == TokenLife \in Nat \ {0} /\ MaxTime \in Nat

VARIABLES
    users,      \* the table: a set of rows; the id is the order of insertion
    asks,       \* request |-> what it wants to register and how far it is
    logins,     \* logins that have read their row and not signed yet
    tokens,     \* the tokens handed out; took: how long the signing came after the read
    acts,       \* history: the last request the routes let through, as a set
    now,
    lastUser,   \* history: uid |-> the last time the row was not deleted
    lastAdmin   \* history: uid |-> the last time its role was admin, or Never

vars == <<users, asks, logins, tokens, acts, now, lastUser, lastAdmin>>

Uids  == 1..Cardinality(Requests)
Never == -(TokenLife + 1)

Init ==
    /\ users = {} /\ logins = {} /\ tokens = {} /\ acts = {} /\ now = 0
    /\ asks \in [Requests -> [name : Names, password : Passwords, at : {"new"}, code : {0}, id : {0}]]
    /\ lastUser = [u \in Uids |-> Never] /\ lastAdmin = [u \in Uids |-> Never]

Live(name) == {u \in users : u.name = name /\ ~u.deleted}
Taken(name) == \E u \in users : u.name = name

-----------------------------------------------------------------------------
(* register_user: the SELECT, and the INSERT that the unique key may refuse. *)
BugAnswer(r, code, id) ==           \* a bug: the -1 register_user returns is sent as the code
    asks' = [asks EXCEPT ![r].at = "done", ![r].code = IF id = 0 THEN -1 ELSE code, ![r].id = id]

Answer(r, code, id) == asks' = [asks EXCEPT ![r].at = "done", ![r].code = code, ![r].id = id]

Lookup(r) ==
    /\ asks[r].at = "new"
    /\ IF Live(asks[r].name) # {} THEN Answer(r, 40000, 0)
       ELSE asks' = [asks EXCEPT ![r].at = "hashing"]
    /\ UNCHANGED <<users, logins, tokens, acts, now, lastUser, lastAdmin>>

BugInsert(r) ==                     \* a bug: the SELECT is trusted, there is no unique key
    /\ asks[r].at = "hashing"
    /\ LET uid == Cardinality(users) + 1
       IN  /\ users' = users \cup {[id |-> uid, name |-> asks[r].name, password |-> asks[r].password,
                                    role |-> "user", deleted |-> FALSE]}
           /\ Answer(r, 0, uid)
           /\ lastUser' = [lastUser EXCEPT ![uid] = now]
    /\ UNCHANGED <<logins, tokens, acts, now, lastAdmin>>

Insert(r) ==
    /\ asks[r].at = "hashing"
    /\ LET uid == Cardinality(users) + 1
       IN  IF Taken(asks[r].name)
           THEN Answer(r, 50000, 0) /\ UNCHANGED <<users, lastUser>>
           ELSE /\ users' = users \cup {[id |-> uid, name |-> asks[r].name, password |-> asks[r].password,
                                         role |-> "user", deleted |-> FALSE]}
                /\ Answer(r, 0, uid)
                /\ lastUser' = [lastUser EXCEPT ![uid] = now]
    /\ UNCHANGED <<logins, tokens, acts, now, lastAdmin>>

RegisterFails(r) ==                 \* no connection, or a statement fails
    /\ asks[r].at \in {"new", "hashing"}
    /\ Answer(r, 50000, 0)
    /\ UNCHANGED <<users, logins, tokens, acts, now, lastUser, lastAdmin>>

-----------------------------------------------------------------------------
(* login_user: the row and its role as the SELECT finds them, with a password
   that will prove right; then, PBKDF2 done, the token, by the clock of that
   moment, unless the signing fails. *)
LoginRead(name, password) ==
    /\ Cardinality(tokens) + Cardinality(logins) < MaxTokens
    /\ \E u \in Live(name) :
          /\ u.password = password
          /\ logins' = logins \cup {[uid |-> u.id, role |-> u.role, since |-> now]}
    /\ UNCHANGED <<users, asks, tokens, acts, now, lastUser, lastAdmin>>

Token(l) == [uid |-> l.uid, role |-> l.role, exp |-> now + TokenLife, took |-> now - l.since]

LoginSign(l) ==
    /\ logins' = logins \ {l}
    /\ tokens' \in {tokens, tokens \cup {Token(l)}}
    /\ UNCHANGED <<users, asks, acts, now, lastUser, lastAdmin>>

BugVerified(t) == now <= t.exp      \* a bug: > for >= in the comparison with exp

(* verify_token: the signature holds and now < exp. *)
Verified(t) == now < t.exp

(* A route behind require_login, or behind require_admin for role = "admin". *)
Act(t) ==
    /\ Verified(t)
    /\ acts' = {[role |-> t.role, took |-> t.took, sinceUser |-> now - lastUser[t.uid],
                 sinceAdmin |-> now - lastAdmin[t.uid]]}
    /\ UNCHANGED <<users, asks, logins, tokens, now, lastUser, lastAdmin>>

-----------------------------------------------------------------------------
Change(u, v) == users' = (users \ {u}) \cup {v}

Promote(u) ==
    /\ ~u.deleted /\ u.role = "user"
    /\ Change(u, [u EXCEPT !.role = "admin"])
    /\ lastAdmin' = [lastAdmin EXCEPT ![u.id] = now]
    /\ UNCHANGED <<asks, logins, tokens, acts, now, lastUser>>

Demote(u) ==
    /\ ~u.deleted /\ u.role = "admin"
    /\ Change(u, [u EXCEPT !.role = "user"])
    /\ UNCHANGED <<asks, logins, tokens, acts, now, lastUser, lastAdmin>>

Delete(u) ==
    /\ ~u.deleted
    /\ Change(u, [u EXCEPT !.deleted = TRUE])
    /\ UNCHANGED <<asks, logins, tokens, acts, now, lastUser, lastAdmin>>

Tick ==
    /\ now < MaxTime
    /\ now' = now + 1
    /\ lastUser' = [i \in Uids |->
                      IF \E u \in users : u.id = i /\ ~u.deleted THEN now + 1 ELSE lastUser[i]]
    /\ lastAdmin' = [i \in Uids |->
                      IF \E u \in users : u.id = i /\ ~u.deleted /\ u.role = "admin"
                      THEN now + 1 ELSE lastAdmin[i]]
    /\ UNCHANGED <<users, asks, logins, tokens, acts>>

-----------------------------------------------------------------------------
Next ==
    \/ \E r \in Requests : Lookup(r) \/ Insert(r) \/ RegisterFails(r)
    \/ \E name \in Names, password \in Passwords : LoginRead(name, password)
    \/ \E l \in logins : LoginSign(l)
    \/ \E t \in tokens : Act(t)
    \/ \E u \in users : Promote(u) \/ Demote(u) \/ Delete(u)
    \/ Tick

Spec == Init /\ [][Next]_vars

-----------------------------------------------------------------------------
TypeOK ==
    /\ \A u \in users : u.id \in Uids /\ u.name \in Names /\ u.role \in {"user", "admin"}
    /\ \A u, v \in users : u.id = v.id => u = v
    /\ \A r \in Requests : asks[r].id \in 0..Cardinality(users) /\ asks[r].code \in {0, 40000, 50000}
    /\ now \in 0..MaxTime

(* Of the requests that register one name at the same time, at most one is told
   that it has the account, and its password is the one that logs in. *)
OneOwnerPerName ==
    /\ \A q, r \in Requests : asks[q].name = asks[r].name /\ asks[q].id # 0 /\ asks[r].id # 0 => q = r
    /\ \A r \in Requests : asks[r].id # 0 =>
          \E u \in users : u.id = asks[r].id /\ u.name = asks[r].name /\ u.password = asks[r].password

(* A token outlives the standing it was issued on by less than its life and the
   time its login took from the read of the row to the signature: who acts was
   a user, and who acts as admin was one, that recently. *)
StandingIsRecent ==
    \A a \in acts : /\ a.sinceUser < TokenLife + a.took
                    /\ a.role = "admin" => a.sinceAdmin < TokenLife + a.took

=============================================================================
