------------------------------ MODULE ApiProofs ------------------------------
(***************************************************************************)
(* What the API's request handlers promise that leave judging to others.   *)
(*                                                                         *)
(* Accounts, for any number of requests, names and passwords, any token    *)
(* life and any time: what registration promises although its lookup and   *)
(* its INSERT are two statements, and how old the standing can be on which *)
(* a request is let through.                                               *)
(*                                                                         *)
(* Listing, for any number of rows and any page size: what a client gets   *)
(* that pages through a list while its rows move.                          *)
(***************************************************************************)
EXTENDS Accounts, Listing, FiniteSetTheorems, TLAPS

Rows == [id : Uids, name : Names, password : Passwords, role : {"user", "admin"}, deleted : BOOLEAN]
Asks == [name : Names, password : Passwords, at : {"new", "hashing", "done"}, code : Int, id : Int]

(* The requests that were told they have an account. *)
Winners == {r \in Requests : asks[r].id # 0}

Types ==
    /\ users \subseteq Rows /\ asks \in [Requests -> Asks]
    /\ tokens \subseteq [uid : Uids, role : {"user", "admin"}, exp : Int, took : Int]
    /\ logins \subseteq [uid : Uids, role : {"user", "admin"}, since : Int]
    /\ now \in 0..MaxTime
    /\ lastUser \in [Uids -> Int] /\ lastAdmin \in [Uids -> Int]
    /\ \A r \in Requests : asks[r].code \in {0, 40000, 50000}

(* One row per request that got an account. The ids are those of AUTO_INCREMENT,
   so the next one is free and, while a request is left, within Uids. *)
OneRowEach ==
    /\ IsFiniteSet(users) /\ Cardinality(users) = Cardinality(Winners)
    /\ \A r \in Requests : asks[r].id \in 0..Cardinality(users) /\ (asks[r].id # 0 => asks[r].at = "done")
    /\ \A u \in users : u.id <= Cardinality(users)
    /\ \A u, v \in users : u.id = v.id => u = v

(* The unique key is on the name: no two rows, deleted ones included, share it.
   Two requests with one row would be one. *)
NamesAreKeys ==
    /\ \A u, v \in users : u.name = v.name => u = v
    /\ \A q, r \in Winners : asks[q].id = asks[r].id => q = r
    /\ \A r \in Winners : \E u \in users :
          u.id = asks[r].id /\ u.name = asks[r].name /\ u.password = asks[r].password

StandingIsDated ==
    /\ \A i \in Uids : lastUser[i] <= now /\ lastAdmin[i] <= now
    /\ \A u \in users : ~u.deleted => /\ lastUser[u.id] = now
                                      /\ u.role = "admin" => lastAdmin[u.id] = now

(* A login has read a standing somebody had then; a token expires TokenLife
   after its login read that, and what the signing took. *)
TokensAreDated ==
    /\ \A l \in logins : /\ l.since <= lastUser[l.uid]
                         /\ l.role = "admin" => l.since <= lastAdmin[l.uid]
    /\ \A t \in tokens : /\ t.exp <= lastUser[t.uid] + TokenLife + t.took
                         /\ t.role = "admin" => t.exp <= lastAdmin[t.uid] + TokenLife + t.took

AccountsInv == Types /\ OneRowEach /\ NamesAreKeys /\ StandingIsDated /\ TokensAreDated /\ StandingIsRecent

(* A standing only gets more recent: what was dated stays so. *)
LEMMA DatesStay ==
    ASSUME Types, Types', TokensAreDated, UNCHANGED <<logins, tokens>>,
           \A i \in Uids : lastUser'[i] >= lastUser[i] /\ lastAdmin'[i] >= lastAdmin[i]
    PROVE  TokensAreDated'
  <1>1. lastUser' \in [Uids -> Int] /\ lastAdmin' \in [Uids -> Int]
    BY DEF Types, Uids
  <1>2. ASSUME NEW l \in logins
        PROVE  /\ l.since <= lastUser'[l.uid]
               /\ l.role = "admin" => l.since <= lastAdmin'[l.uid]
    <2>1. /\ l.uid \in Uids /\ l.since \in Int /\ l.since <= lastUser[l.uid]
          /\ l.role = "admin" => l.since <= lastAdmin[l.uid]
          /\ lastUser[l.uid] \in Int /\ lastAdmin[l.uid] \in Int
      BY DEF Types, TokensAreDated
    <2> QED BY <1>1, <2>1
  <1>3. ASSUME NEW t \in tokens
        PROVE  /\ t.exp <= lastUser'[t.uid] + TokenLife + t.took
               /\ t.role = "admin" => t.exp <= lastAdmin'[t.uid] + TokenLife + t.took
    <2>1. /\ t.uid \in Uids /\ t.exp \in Int /\ t.took \in Int /\ TokenLife \in Int
          /\ t.exp <= lastUser[t.uid] + TokenLife + t.took
          /\ t.role = "admin" => t.exp <= lastAdmin[t.uid] + TokenLife + t.took
          /\ lastUser[t.uid] \in Int /\ lastAdmin[t.uid] \in Int
      BY TimesAssumption DEF Types, TokensAreDated
    <2> QED BY <1>1, <2>1
  <1> QED BY <1>2, <1>3 DEF TokensAreDated

-----------------------------------------------------------------------------
(* register_user *)

(* Room for the next id, while a request that may get it is left. *)
LEMMA NextIdIsFree ==
    ASSUME AccountsInv, NEW r \in Requests, asks[r].at = "hashing"
    PROVE  /\ Cardinality(users) + 1 \in Uids
           /\ asks[r].id = 0
           /\ \A u \in users : u.id # Cardinality(users) + 1
           /\ \A q \in Requests : asks[q].id # Cardinality(users) + 1
  <1>1. Cardinality(users) \in Nat /\ Cardinality(users) = Cardinality(Winners)
    BY FS_CardinalityType DEF AccountsInv, OneRowEach
  <1>2. r \notin Winners /\ asks[r].id = 0 /\ Winners \in SUBSET Requests
    BY DEF AccountsInv, OneRowEach, Winners
  <1>3. Winners \cup {r} \in SUBSET Requests /\ IsFiniteSet(Winners)
    BY <1>2, RequestsAssumption, FS_Subset
  <1>4. /\ Cardinality(Winners \cup {r}) = Cardinality(Winners) + 1
        /\ Cardinality(Winners \cup {r}) <= Cardinality(Requests)
        /\ Cardinality(Requests) \in Nat
    BY <1>2, <1>3, RequestsAssumption, FS_AddElement, FS_Subset, FS_CardinalityType
  <1>5. Cardinality(users) + 1 \in Uids
    BY <1>1, <1>4 DEF Uids
  <1>6. /\ \A u \in users : u.id # Cardinality(users) + 1
        /\ \A q \in Requests : asks[q].id # Cardinality(users) + 1
    BY <1>1 DEF AccountsInv, OneRowEach, Types, Rows, Uids
  <1> QED BY <1>2, <1>5, <1>6

(* A request is answered: it changes nothing but its own record. *)
LEMMA AnswerChanges ==
    ASSUME Types, NEW r \in Requests, NEW code \in {0, 40000, 50000}, NEW i \in Int, Answer(r, code, i)
    PROVE  /\ asks' \in [Requests -> Asks]
           /\ asks'[r].name = asks[r].name /\ asks'[r].password = asks[r].password
           /\ asks'[r].at = "done" /\ asks'[r].code = code /\ asks'[r].id = i
           /\ \A q \in Requests : q # r => asks'[q] = asks[q]
  <1>1. asks \in [Requests -> Asks] /\ asks[r] \in Asks
    BY DEF Types
  <1> DEFINE f == [asks EXCEPT ![r].at = "done"]
             g == [f EXCEPT ![r].code = code]
             h == [g EXCEPT ![r].id = i]
  <1>2. asks' = h
    BY DEF Answer
  <1>3. /\ f \in [Requests -> Asks] /\ f[r].at = "done"
        /\ f[r].name = asks[r].name /\ f[r].password = asks[r].password
        /\ \A q \in Requests : q # r => f[q] = asks[q]
    BY <1>1 DEF Asks
  <1> HIDE DEF f
  <1>4. /\ g \in [Requests -> Asks] /\ g[r].at = f[r].at /\ g[r].code = code
        /\ g[r].name = f[r].name /\ g[r].password = f[r].password
        /\ \A q \in Requests : q # r => g[q] = f[q]
    BY <1>3 DEF Asks
  <1> HIDE DEF g
  <1>5. /\ h \in [Requests -> Asks] /\ h[r].at = g[r].at /\ h[r].code = g[r].code /\ h[r].id = i
        /\ h[r].name = g[r].name /\ h[r].password = g[r].password
        /\ \A q \in Requests : q # r => h[q] = g[q]
    BY <1>4 DEF Asks
  <1> HIDE DEF h
  <1> QED BY <1>2, <1>3, <1>4, <1>5

(* Refused, or failed. *)
LEMMA RefusalKeeps ==
    ASSUME AccountsInv, NEW r \in Requests, asks[r].at # "done", NEW code \in {0, 40000, 50000},
           Answer(r, code, 0), UNCHANGED <<users, logins, tokens, acts, now, lastUser, lastAdmin>>
    PROVE  AccountsInv'
  <1>1. Types /\ OneRowEach /\ NamesAreKeys /\ StandingIsDated /\ TokensAreDated /\ StandingIsRecent
    BY DEF AccountsInv
  <1>2. /\ asks' \in [Requests -> Asks] /\ asks'[r].id = 0 /\ asks'[r].code = code
        /\ \A q \in Requests : q # r => asks'[q] = asks[q]
    BY <1>1, AnswerChanges
  <1>3. asks[r].id = 0
    BY <1>1 DEF OneRowEach
  <1>4. Winners' = Winners /\ \A q \in Winners : asks'[q] = asks[q]
    BY <1>2, <1>3 DEF Winners
  <1>5. Types'
    BY <1>1, <1>2 DEF Types, Uids
  <1>6. OneRowEach'
    <2>1. Cardinality(users) \in Nat
      BY <1>1, FS_CardinalityType DEF OneRowEach
    <2>2. \A q \in Requests : asks'[q].id \in 0..Cardinality(users) /\ (asks'[q].id # 0 => asks'[q].at = "done")
      BY <1>1, <1>2, <2>1 DEF OneRowEach
    <2> QED BY <1>1, <1>4, <2>2 DEF OneRowEach
  <1>7. NamesAreKeys'
    BY <1>1, <1>4 DEF NamesAreKeys
  <1>8. StandingIsDated' /\ TokensAreDated' /\ StandingIsRecent'
    BY <1>1 DEF StandingIsDated, TokensAreDated, StandingIsRecent, Uids
  <1> QED BY <1>5, <1>6, <1>7, <1>8 DEF AccountsInv

LEMMA LookupKeeps ==
    ASSUME AccountsInv, NEW r \in Requests, Lookup(r)
    PROVE  AccountsInv'
  <1>1. CASE Live(asks[r].name) # {}
    BY <1>1, RefusalKeeps DEF Lookup
  <1>2. CASE Live(asks[r].name) = {}
    <2>1. /\ Types /\ OneRowEach /\ NamesAreKeys /\ StandingIsDated /\ TokensAreDated /\ StandingIsRecent
          /\ UNCHANGED <<users, logins, tokens, acts, now, lastUser, lastAdmin>> /\ asks[r].at = "new"
          /\ asks' = [asks EXCEPT ![r].at = "hashing"]
      BY <1>2 DEF Lookup, AccountsInv
    <2>2. /\ asks' \in [Requests -> Asks]
          /\ \A q \in Requests : /\ asks'[q].id = asks[q].id /\ asks'[q].code = asks[q].code
                                 /\ asks'[q].name = asks[q].name
                                 /\ asks'[q].password = asks[q].password
                                 /\ q # r => asks'[q] = asks[q]
      BY <2>1 DEF Types, Asks
    <2>3. Winners' = Winners /\ asks[r].id = 0
      BY <2>1, <2>2 DEF Winners, OneRowEach
    <2>4. Types'
      BY <2>1, <2>2 DEF Types, Uids
    <2>5. OneRowEach'
      <3>1. \A q \in Requests : asks'[q].id \in 0..Cardinality(users) /\ (asks'[q].id # 0 => asks'[q].at = "done")
        BY <2>1, <2>2, <2>3 DEF OneRowEach
      <3> QED BY <2>1, <2>3, <3>1 DEF OneRowEach
    <2>6. NamesAreKeys'
      BY <2>1, <2>2, <2>3 DEF NamesAreKeys, Winners
    <2>7. StandingIsDated' /\ TokensAreDated' /\ StandingIsRecent'
      BY <2>1 DEF StandingIsDated, TokensAreDated, StandingIsRecent, Uids
    <2> QED BY <2>4, <2>5, <2>6, <2>7 DEF AccountsInv
  <1> QED BY <1>1, <1>2

(* The row an INSERT adds. *)
NewRow(i, a) ==
    [id |-> i, name |-> a.name, password |-> a.password, role |-> "user", deleted |-> FALSE]

LEMMA NewRowIs ==
    ASSUME NEW i \in Uids, NEW a \in Asks
    PROVE  /\ NewRow(i, a) \in Rows
           /\ NewRow(i, a).id = i /\ NewRow(i, a).name = a.name /\ NewRow(i, a).password = a.password
           /\ NewRow(i, a).role = "user" /\ ~NewRow(i, a).deleted
  BY DEF NewRow, Rows, Asks

LEMMA InsertKeeps ==
    ASSUME AccountsInv, NEW r \in Requests, asks[r].at = "hashing", ~Taken(asks[r].name),
           NEW i, i = Cardinality(users) + 1, NEW u, u = NewRow(i, asks[r]),
           users' = users \cup {u}, Answer(r, 0, i), lastUser' = [lastUser EXCEPT ![i] = now],
           UNCHANGED <<logins, tokens, acts, now, lastAdmin>>
    PROVE  AccountsInv'
  <1>1. Types /\ OneRowEach /\ NamesAreKeys /\ StandingIsDated /\ TokensAreDated /\ StandingIsRecent
    BY DEF AccountsInv
  <1>2. /\ i \in Uids /\ asks[r].id = 0 /\ (\A v \in users : v.id # i)
        /\ (\A q \in Requests : asks[q].id # i) /\ Cardinality(users) \in Nat /\ i \in Nat
    BY <1>1, NextIdIsFree, FS_CardinalityType DEF OneRowEach
  <1>3. /\ u \in Rows /\ u.id = i /\ u.name = asks[r].name /\ u.password = asks[r].password
        /\ u.role = "user" /\ ~u.deleted
    BY <1>1, <1>2, NewRowIs DEF Types
  <1>4. /\ asks' \in [Requests -> Asks] /\ asks'[r].id = i /\ asks'[r].code = 0 /\ asks'[r].at = "done"
        /\ asks'[r].name = asks[r].name /\ asks'[r].password = asks[r].password
        /\ \A q \in Requests : q # r => asks'[q] = asks[q]
    BY <1>1, <1>2, AnswerChanges
  <1>5. Winners' = Winners \cup {r} /\ r \notin Winners /\ \A q \in Winners : asks'[q] = asks[q]
    BY <1>2, <1>4 DEF Winners
  <1>6. u \notin users /\ \A v \in users : v.name # u.name
    BY <1>2, <1>3 DEF Taken
  <1>7. IsFiniteSet(users') /\ Cardinality(users') = Cardinality(users) + 1
    BY <1>1, <1>6, FS_AddElement DEF OneRowEach
  <1>8. /\ lastUser' \in [Uids -> Int] /\ lastUser'[i] = now
        /\ \A j \in Uids : lastUser'[j] >= lastUser[j] /\ lastUser'[j] <= now /\ (j # i => lastUser'[j] = lastUser[j])
    BY <1>1, <1>2 DEF Types, StandingIsDated
  <1>9. Types'
    <2>1. users' \subseteq Rows /\ \A q \in Requests : asks'[q].code \in {0, 40000, 50000}
      BY <1>1, <1>3, <1>4 DEF Types
    <2> QED BY <1>1, <1>4, <1>8, <2>1 DEF Types, Rows, Uids
  <1>10. OneRowEach'
    <2>1. Cardinality(Winners') = Cardinality(Winners) + 1
      <3>1. Winners \in SUBSET Requests
        BY DEF Winners
      <3> QED BY <1>5, <3>1, RequestsAssumption, FS_Subset, FS_AddElement
    <2>2. \A q \in Requests : asks'[q].id \in 0..i /\ (asks'[q].id # 0 => asks'[q].at = "done")
      BY <1>1, <1>2, <1>4 DEF OneRowEach
    <2>3. \A v \in users' : v.id <= i
      BY <1>1, <1>2, <1>3 DEF OneRowEach, Types, Rows, Uids
    <2>4. \A v, w \in users' : v.id = w.id => v = w
      BY <1>1, <1>2, <1>3 DEF OneRowEach
    <2>5. Cardinality(users') = i /\ Cardinality(users) = Cardinality(Winners)
      BY <1>1, <1>7 DEF OneRowEach
    <2>6. Cardinality(users') = Cardinality(Winners')
      BY <1>7, <2>1, <2>5
    <2>7. IsFiniteSet(users') /\ \A v \in users' : v.id <= Cardinality(users')
      BY <1>7, <2>3, <2>5
    <2>8. \A q \in Requests : asks'[q].id \in 0..Cardinality(users') /\ (asks'[q].id # 0 => asks'[q].at = "done")
      BY ONLY <2>2, <2>5
    <2> QED BY ONLY <2>4, <2>6, <2>7, <2>8 DEF OneRowEach
  <1>11. NamesAreKeys'
    <2>1. \A v, w \in users' : v.name = w.name => v = w
      BY <1>1, <1>6 DEF NamesAreKeys
    <2>2. \A p, q \in Winners' : asks'[p].id = asks'[q].id => p = q
      BY <1>1, <1>2, <1>4, <1>5 DEF NamesAreKeys, Winners
    <2>3. \A q \in Winners' : \E v \in users' :
             v.id = asks'[q].id /\ v.name = asks'[q].name /\ v.password = asks'[q].password
      BY <1>1, <1>3, <1>4, <1>5 DEF NamesAreKeys
    <2> QED BY <2>1, <2>2, <2>3 DEF NamesAreKeys
  <1>12. StandingIsDated' /\ TokensAreDated'
    <2>1. \A j \in Uids : lastUser'[j] <= now /\ lastAdmin[j] <= now
      BY <1>1, <1>8 DEF StandingIsDated
    <2>2. \A v \in users' : ~v.deleted => /\ lastUser'[v.id] = now
                                          /\ v.role = "admin" => lastAdmin[v.id] = now
      BY <1>1, <1>2, <1>3, <1>8 DEF StandingIsDated, Types, Rows
    <2>3. \A j \in Uids : lastUser'[j] >= lastUser[j] /\ lastAdmin'[j] >= lastAdmin[j]
      BY <1>1, <1>8 DEF Types
    <2>4. TokensAreDated'
      BY <1>1, <1>9, <2>3, DatesStay
    <2> QED BY <2>1, <2>2, <2>4 DEF StandingIsDated, Uids
  <1>13. StandingIsRecent'
    BY <1>1 DEF StandingIsRecent
  <1> QED BY <1>9, <1>10, <1>11, <1>12, <1>13 DEF AccountsInv

-----------------------------------------------------------------------------
(* The operator's changes: a row keeps its id, its name and its password. *)
LEMMA ChangeKeeps ==
    ASSUME AccountsInv, NEW u \in users, NEW v \in Rows, Change(u, v),
           v.id = u.id, v.name = u.name, v.password = u.password, v.deleted \/ ~u.deleted,
           lastAdmin' \in [Uids -> Int],
           \A i \in Uids : lastAdmin'[i] >= lastAdmin[i] /\ lastAdmin'[i] <= now,
           \A w \in users \ {u} : lastAdmin'[w.id] = lastAdmin[w.id],
           ~v.deleted /\ v.role = "admin" => lastAdmin'[v.id] = now,
           UNCHANGED <<asks, logins, tokens, acts, now, lastUser>>
    PROVE  AccountsInv'
  <1>1. Types /\ OneRowEach /\ NamesAreKeys /\ StandingIsDated /\ TokensAreDated /\ StandingIsRecent
    BY DEF AccountsInv
  <1>2. users' = (users \ {u}) \cup {v} /\ v \notin users \ {u}
    BY <1>1 DEF Change, OneRowEach
  <1>3. IsFiniteSet(users') /\ Cardinality(users') = Cardinality(users)
    <2>1. IsFiniteSet(users \ {u}) /\ Cardinality(users \ {u}) = Cardinality(users) - 1
      BY <1>1, FS_RemoveElement DEF OneRowEach
    <2>2. Cardinality(users) \in Nat
      BY <1>1, FS_CardinalityType DEF OneRowEach
    <2>3. IsFiniteSet((users \ {u}) \cup {v}) /\ Cardinality((users \ {u}) \cup {v}) = Cardinality(users \ {u}) + 1
      BY <1>2, <2>1, FS_AddElement
    <2> QED BY <1>2, <2>1, <2>2, <2>3
  <1>4. Types'
    <2>1. users' \subseteq Rows
      BY <1>1, <1>2 DEF Types
    <2>2. /\ asks' \in [Requests -> Asks] /\ now' \in 0..MaxTime
          /\ tokens' \subseteq [uid : Uids, role : {"user", "admin"}, exp : Int, took : Int]
          /\ logins' \subseteq [uid : Uids, role : {"user", "admin"}, since : Int]
          /\ lastUser' \in [Uids -> Int] /\ lastAdmin' \in [Uids -> Int]
          /\ \A r \in Requests : asks'[r].code \in {0, 40000, 50000}
      BY <1>1 DEF Types
    <2> QED BY ONLY <2>1, <2>2 DEF Types, Rows, Uids
  <1>5. OneRowEach'
    <2>1. Winners' = Winners
      BY DEF Winners
    <2>2. \A w \in users' : w.id <= Cardinality(users)
      BY <1>1, <1>2 DEF OneRowEach
    <2>3. \A w, x \in users' : w.id = x.id => w = x
      BY <1>1, <1>2 DEF OneRowEach
    <2> QED BY <1>1, <1>3, <2>1, <2>2, <2>3 DEF OneRowEach
  <1>6. NamesAreKeys'
    <2>1. \A w, x \in users' : w.name = x.name => w = x
      BY <1>1, <1>2 DEF NamesAreKeys
    <2>2. \A r \in Winners : \E w \in users' :
             w.id = asks[r].id /\ w.name = asks[r].name /\ w.password = asks[r].password
      BY <1>1, <1>2 DEF NamesAreKeys
    <2> QED BY <1>1, <2>1, <2>2 DEF NamesAreKeys, Winners
  <1>7. StandingIsDated' /\ TokensAreDated'
    <2>1. \A i \in Uids : lastUser[i] <= now /\ lastAdmin'[i] <= now
      BY <1>1 DEF StandingIsDated
    <2>2. ASSUME NEW w \in users', ~w.deleted
          PROVE  lastUser[w.id] = now /\ (w.role = "admin" => lastAdmin'[w.id] = now)
      BY <1>1, <1>2, <2>2 DEF StandingIsDated
    <2>3. \A i \in Uids : lastUser'[i] >= lastUser[i] /\ lastAdmin'[i] >= lastAdmin[i]
      BY <1>1 DEF Types
    <2>4. TokensAreDated'
      BY <1>1, <1>4, <2>3, DatesStay
    <2> QED BY <2>1, <2>2, <2>4 DEF StandingIsDated, Uids
  <1>8. StandingIsRecent'
    BY <1>1 DEF StandingIsRecent
  <1> QED BY <1>4, <1>5, <1>6, <1>7, <1>8 DEF AccountsInv

LEMMA OperatorKeeps ==
    ASSUME AccountsInv, NEW u \in users, Promote(u) \/ Demote(u) \/ Delete(u)
    PROVE  AccountsInv'
  <1>1. /\ Types /\ OneRowEach /\ StandingIsDated
        /\ u \in Rows /\ u.id \in Uids /\ lastAdmin \in [Uids -> Int] /\ now \in Int
        /\ \A i \in Uids : lastAdmin[i] <= now
    BY TimesAssumption DEF AccountsInv, Types, Rows, StandingIsDated
  <1>2. /\ \A role \in {"user", "admin"} :
             LET v == [u EXCEPT !.role = role]
             IN  /\ v \in Rows /\ v.id = u.id /\ v.name = u.name /\ v.password = u.password
                 /\ v.role = role /\ v.deleted = u.deleted
        /\ LET v == [u EXCEPT !.deleted = TRUE]
           IN  /\ v \in Rows /\ v.id = u.id /\ v.name = u.name /\ v.password = u.password
               /\ v.deleted
    BY <1>1 DEF Rows
  <1>3. CASE Promote(u)
    <2> DEFINE v == [u EXCEPT !.role = "admin"]
    <2>1. /\ ~u.deleted /\ Change(u, v) /\ UNCHANGED <<asks, logins, tokens, acts, now, lastUser>>
          /\ lastAdmin' = [lastAdmin EXCEPT ![u.id] = now]
      BY <1>3 DEF Promote
    <2>2. v \in Rows /\ v.id = u.id /\ v.name = u.name /\ v.password = u.password
      BY <1>2
    <2> HIDE DEF v
    <2>3. /\ lastAdmin' \in [Uids -> Int] /\ lastAdmin'[v.id] = now
          /\ \A i \in Uids : lastAdmin'[i] >= lastAdmin[i] /\ lastAdmin'[i] <= now
          /\ \A i \in Uids : i # u.id => lastAdmin'[i] = lastAdmin[i]
      BY <1>1, <2>1, <2>2
    <2>4. \A w \in users \ {u} : lastAdmin'[w.id] = lastAdmin[w.id]
      BY <1>1, <2>3 DEF OneRowEach, Types, Rows
    <2> QED BY <2>1, <2>2, <2>3, <2>4, ChangeKeeps
  <1>4. CASE Demote(u)
    <2> DEFINE v == [u EXCEPT !.role = "user"]
    <2>1. /\ ~u.deleted /\ Change(u, v) /\ UNCHANGED <<asks, logins, tokens, acts, now, lastUser, lastAdmin>>
      BY <1>4 DEF Demote
    <2>2. v \in Rows /\ v.id = u.id /\ v.name = u.name /\ v.password = u.password /\ v.role = "user"
      BY <1>2
    <2> HIDE DEF v
    <2> QED BY <1>1, <2>1, <2>2, ChangeKeeps
  <1>5. CASE Delete(u)
    <2> DEFINE v == [u EXCEPT !.deleted = TRUE]
    <2>1. Change(u, v) /\ UNCHANGED <<asks, logins, tokens, acts, now, lastUser, lastAdmin>>
      BY <1>5 DEF Delete
    <2>2. v \in Rows /\ v.id = u.id /\ v.name = u.name /\ v.password = u.password /\ v.deleted
      BY <1>2
    <2> HIDE DEF v
    <2> QED BY <1>1, <2>1, <2>2, ChangeKeeps
  <1> QED BY <1>3, <1>4, <1>5

-----------------------------------------------------------------------------
(* login_user, the routes, and time. *)

LEMMA LoginReadKeeps ==
    ASSUME AccountsInv, NEW name \in Names, NEW password \in Passwords, LoginRead(name, password)
    PROVE  AccountsInv'
  <1>1. /\ Types /\ OneRowEach /\ NamesAreKeys /\ StandingIsDated /\ TokensAreDated /\ StandingIsRecent
        /\ UNCHANGED <<users, asks, tokens, acts, now, lastUser, lastAdmin>>
    BY DEF AccountsInv, LoginRead
  <1>2. PICK u \in users :
           ~u.deleted /\ logins' = logins \cup {[uid |-> u.id, role |-> u.role, since |-> now]}
    BY DEF LoginRead, Live
  <1>3. /\ u.id \in Uids /\ u.role \in {"user", "admin"} /\ now \in Int
        /\ lastUser[u.id] = now /\ (u.role = "admin" => lastAdmin[u.id] = now)
    BY <1>1, <1>2, TimesAssumption DEF Types, Rows, StandingIsDated
  <1>4. Types'
    <2>1. logins' \subseteq [uid : Uids, role : {"user", "admin"}, since : Int]
      BY <1>1, <1>2, <1>3 DEF Types
    <2> QED BY <1>1, <2>1 DEF Types, Rows, Uids
  <1>5. OneRowEach' /\ NamesAreKeys' /\ StandingIsDated' /\ StandingIsRecent'
    BY <1>1 DEF OneRowEach, NamesAreKeys, StandingIsDated, StandingIsRecent, Winners, Uids
  <1>6. TokensAreDated'
    <2>1. ASSUME NEW l \in logins'
          PROVE  /\ l.since <= lastUser[l.uid]
                 /\ l.role = "admin" => l.since <= lastAdmin[l.uid]
      BY <1>1, <1>2, <1>3 DEF TokensAreDated
    <2> QED BY <1>1, <2>1 DEF TokensAreDated
  <1> QED BY <1>4, <1>5, <1>6 DEF AccountsInv

LEMMA LoginSignKeeps ==
    ASSUME AccountsInv, NEW l \in logins, LoginSign(l)
    PROVE  AccountsInv'
  <1>1. /\ Types /\ OneRowEach /\ NamesAreKeys /\ StandingIsDated /\ TokensAreDated /\ StandingIsRecent
        /\ UNCHANGED <<users, asks, acts, now, lastUser, lastAdmin>>
        /\ logins' \subseteq logins /\ tokens' \subseteq tokens \cup {Token(l)}
    BY DEF AccountsInv, LoginSign
  <1>2. /\ l.uid \in Uids /\ l.role \in {"user", "admin"} /\ l.since \in Int
        /\ now \in Int /\ TokenLife \in Int
        /\ lastUser[l.uid] \in Int /\ lastAdmin[l.uid] \in Int
        /\ l.since <= lastUser[l.uid] /\ (l.role = "admin" => l.since <= lastAdmin[l.uid])
    BY <1>1, TimesAssumption DEF Types, TokensAreDated
  <1>3. /\ Token(l) \in [uid : Uids, role : {"user", "admin"}, exp : Int, took : Int]
        /\ Token(l).uid = l.uid /\ Token(l).role = l.role
        /\ Token(l).exp = now + TokenLife /\ Token(l).took = now - l.since
    BY <1>2 DEF Token
  <1>4. Types'
    <2>1. /\ tokens' \subseteq [uid : Uids, role : {"user", "admin"}, exp : Int, took : Int]
          /\ logins' \subseteq [uid : Uids, role : {"user", "admin"}, since : Int]
      BY <1>1, <1>3 DEF Types
    <2> QED BY <1>1, <2>1 DEF Types, Rows, Uids
  <1>5. OneRowEach' /\ NamesAreKeys' /\ StandingIsDated' /\ StandingIsRecent'
    BY <1>1 DEF OneRowEach, NamesAreKeys, StandingIsDated, StandingIsRecent, Winners, Uids
  <1>6. TokensAreDated'
    <2>1. /\ Token(l).exp <= lastUser[l.uid] + TokenLife + Token(l).took
          /\ l.role = "admin" => Token(l).exp <= lastAdmin[l.uid] + TokenLife + Token(l).took
      BY <1>2, <1>3
    <2>2. ASSUME NEW t \in tokens'
          PROVE  /\ t.exp <= lastUser[t.uid] + TokenLife + t.took
                 /\ t.role = "admin" => t.exp <= lastAdmin[t.uid] + TokenLife + t.took
      <3>1. CASE t \in tokens
        BY <1>1, <3>1 DEF TokensAreDated
      <3>2. CASE t = Token(l)
        BY <1>3, <2>1, <3>2
      <3> QED BY <1>1, <3>1, <3>2
    <2> QED BY <1>1, <2>2 DEF TokensAreDated
  <1> QED BY <1>4, <1>5, <1>6 DEF AccountsInv

LEMMA ActKeeps ==
    ASSUME AccountsInv, NEW t \in tokens, Act(t)
    PROVE  AccountsInv'
  <1>1. /\ Types /\ OneRowEach /\ NamesAreKeys /\ StandingIsDated /\ TokensAreDated
        /\ UNCHANGED <<users, asks, logins, tokens, now, lastUser, lastAdmin>>
    BY DEF AccountsInv, Act
  <1>2. Types' /\ OneRowEach' /\ NamesAreKeys' /\ StandingIsDated' /\ TokensAreDated'
    BY <1>1 DEF Types, OneRowEach, NamesAreKeys, StandingIsDated, TokensAreDated, Winners, Uids, Rows
  <1>3. StandingIsRecent'
    <2>1. /\ now < t.exp /\ now \in Int /\ t.exp \in Int /\ t.took \in Int /\ TokenLife \in Int
          /\ lastUser[t.uid] \in Int /\ lastAdmin[t.uid] \in Int
          /\ t.exp <= lastUser[t.uid] + TokenLife + t.took
          /\ t.role = "admin" => t.exp <= lastAdmin[t.uid] + TokenLife + t.took
      BY <1>1, TimesAssumption DEF Act, Verified, Types, TokensAreDated
    <2>2. /\ now - lastUser[t.uid] < TokenLife + t.took
          /\ t.role = "admin" => now - lastAdmin[t.uid] < TokenLife + t.took
      BY <2>1
    <2>3. acts' = {[role |-> t.role, took |-> t.took, sinceUser |-> now - lastUser[t.uid],
                    sinceAdmin |-> now - lastAdmin[t.uid]]}
      BY DEF Act
    <2> QED BY <2>2, <2>3 DEF StandingIsRecent
  <1> QED BY <1>2, <1>3 DEF AccountsInv

LEMMA TickKeeps ==
    ASSUME AccountsInv, Tick
    PROVE  AccountsInv'
  <1>1. /\ Types /\ OneRowEach /\ NamesAreKeys /\ StandingIsDated /\ TokensAreDated /\ StandingIsRecent
        /\ UNCHANGED <<users, asks, logins, tokens, acts>> /\ now' = now + 1 /\ now \in Nat
        /\ now' \in 0..MaxTime
    BY TimesAssumption DEF AccountsInv, Tick, Types
  <1>2. /\ lastUser' \in [Uids -> Int]
        /\ \A i \in Uids : /\ lastUser'[i] \in {now + 1, lastUser[i]}
                           /\ (\E u \in users : u.id = i /\ ~u.deleted) => lastUser'[i] = now + 1
    BY <1>1 DEF Tick, Types
  <1>3. /\ lastAdmin' \in [Uids -> Int]
        /\ \A i \in Uids : /\ lastAdmin'[i] \in {now + 1, lastAdmin[i]}
                           /\ (\E u \in users : u.id = i /\ ~u.deleted /\ u.role = "admin")
                                => lastAdmin'[i] = now + 1
    BY <1>1 DEF Tick, Types
  <1>4. \A i \in Uids : /\ lastUser'[i] >= lastUser[i] /\ lastUser'[i] <= now'
                        /\ lastAdmin'[i] >= lastAdmin[i] /\ lastAdmin'[i] <= now'
    BY <1>1, <1>2, <1>3 DEF StandingIsDated, Types
  <1>5. Types'
    BY <1>1, <1>2, <1>3 DEF Types, Rows, Uids
  <1>6. OneRowEach' /\ NamesAreKeys' /\ StandingIsRecent'
    BY <1>1 DEF OneRowEach, NamesAreKeys, StandingIsRecent, Winners
  <1>7. StandingIsDated'
    <2>1. ASSUME NEW u \in users, ~u.deleted
          PROVE  lastUser'[u.id] = now' /\ (u.role = "admin" => lastAdmin'[u.id] = now')
      <3>1. u.id \in Uids
        BY <1>1 DEF Types, Rows
      <3> QED BY <1>1, <1>2, <1>3, <2>1, <3>1
    <2> QED BY <1>1, <1>4, <2>1 DEF StandingIsDated, Uids
  <1>8. TokensAreDated'
    BY <1>1, <1>4, <1>5, DatesStay
  <1> QED BY <1>5, <1>6, <1>7, <1>8 DEF AccountsInv

-----------------------------------------------------------------------------
LEMMA InitAccounts == Init => AccountsInv
  <1> SUFFICES ASSUME Init PROVE AccountsInv
    OBVIOUS
  <1>1. /\ users = {} /\ logins = {} /\ tokens = {} /\ acts = {} /\ now = 0
        /\ asks \in [Requests -> Asks] /\ \A r \in Requests : asks[r].id = 0 /\ asks[r].code = 0
        /\ lastUser = [i \in Uids |-> Never] /\ lastAdmin = [i \in Uids |-> Never]
    BY DEF Init, Asks
  <1>2. Never \in Int /\ Never <= 0 /\ 0 \in 0..MaxTime
    BY TimesAssumption DEF Never
  <1>3. Winners = {}
    BY <1>1 DEF Winners
  <1>4. Types
    BY <1>1, <1>2 DEF Types
  <1>5. OneRowEach
    BY <1>1, <1>3, FS_EmptySet DEF OneRowEach
  <1>6. NamesAreKeys /\ StandingIsRecent
    BY <1>1, <1>3 DEF NamesAreKeys, StandingIsRecent
  <1>7. StandingIsDated /\ TokensAreDated
    BY <1>1, <1>2 DEF StandingIsDated, TokensAreDated
  <1> QED BY <1>4, <1>5, <1>6, <1>7 DEF AccountsInv

LEMMA AccountsStep == AccountsInv /\ [Next]_vars => AccountsInv'
  <1> SUFFICES ASSUME AccountsInv, [Next]_vars PROVE AccountsInv'
    OBVIOUS
  <1>1. ASSUME NEW r \in Requests, Lookup(r) PROVE AccountsInv'
    BY <1>1, LookupKeeps
  <1>2. ASSUME NEW r \in Requests, Insert(r) PROVE AccountsInv'
    <2>1. asks[r].at = "hashing" /\ UNCHANGED <<logins, tokens, acts, now, lastAdmin>>
      BY <1>2 DEF Insert
    <2>2. CASE Taken(asks[r].name)
      <3>1. Answer(r, 50000, 0) /\ UNCHANGED <<users, lastUser>>
        BY <1>2, <2>2 DEF Insert
      <3> QED BY <2>1, <3>1, RefusalKeeps
    <2>3. CASE ~Taken(asks[r].name)
      <3> DEFINE i == Cardinality(users) + 1
      <3>1. /\ users' = users \cup {NewRow(i, asks[r])} /\ Answer(r, 0, i)
            /\ lastUser' = [lastUser EXCEPT ![i] = now]
        BY <1>2, <2>3 DEF Insert, NewRow
      <3> HIDE DEF i
      <3>2. i = Cardinality(users) + 1
        BY DEF i
      <3> QED BY <2>1, <2>3, <3>1, <3>2, InsertKeeps
    <2> QED BY <2>2, <2>3
  <1>3. ASSUME NEW r \in Requests, RegisterFails(r) PROVE AccountsInv'
    BY <1>3, RefusalKeeps DEF RegisterFails
  <1>4. ASSUME NEW name \in Names, NEW password \in Passwords, LoginRead(name, password) PROVE AccountsInv'
    BY <1>4, LoginReadKeeps
  <1>9. ASSUME NEW l \in logins, LoginSign(l) PROVE AccountsInv'
    BY <1>9, LoginSignKeeps
  <1>5. ASSUME NEW t \in tokens, Act(t) PROVE AccountsInv'
    BY <1>5, ActKeeps
  <1>6. ASSUME NEW u \in users, Promote(u) \/ Demote(u) \/ Delete(u) PROVE AccountsInv'
    BY <1>6, OperatorKeeps
  <1>7. CASE Tick
    BY <1>7, TickKeeps
  <1>8. CASE UNCHANGED vars
    BY <1>8 DEF vars, AccountsInv, Types, OneRowEach, NamesAreKeys, StandingIsDated,
                TokensAreDated, StandingIsRecent,
                Winners, Uids, Rows
  <1> QED BY <1>1, <1>2, <1>3, <1>4, <1>5, <1>6, <1>7, <1>8, <1>9 DEF Next

LEMMA AccountsInvHolds == Spec => []AccountsInv
  BY InitAccounts, AccountsStep, PTL DEF Spec

(* Ids stay within what the requests can use up and are given once, and every
   request is answered with a code register_user has. *)
THEOREM TypeCorrect == Spec => []TypeOK
  <1>1. AccountsInv => TypeOK
    BY DEF AccountsInv, Types, OneRowEach, TypeOK, Rows
  <1> QED BY <1>1, AccountsInvHolds, PTL

(* However the lookups and INSERTs of any number of requests interleave, one of
   those for a name gets the account, with its own password. *)
THEOREM OneOwnerHolds == Spec => []OneOwnerPerName
  <1>1. AccountsInv => OneOwnerPerName
    <2> SUFFICES ASSUME AccountsInv PROVE OneOwnerPerName
      OBVIOUS
    <2>1. NamesAreKeys /\ \A r \in Requests : asks[r].id # 0 <=> r \in Winners
      BY DEF AccountsInv, Winners
    <2>2. \A r \in Requests : asks[r].id # 0 =>
             \E u \in users : u.id = asks[r].id /\ u.name = asks[r].name /\ u.password = asks[r].password
      BY <2>1 DEF NamesAreKeys
    <2>3. ASSUME NEW q \in Requests, NEW r \in Requests,
                 asks[q].name = asks[r].name, asks[q].id # 0, asks[r].id # 0
          PROVE  q = r
      <3>1. PICK u \in users : u.id = asks[q].id /\ u.name = asks[q].name
        BY <2>2, <2>3
      <3>2. PICK v \in users : v.id = asks[r].id /\ v.name = asks[r].name
        BY <2>2, <2>3
      <3>3. u = v
        BY <2>1, <2>3, <3>1, <3>2 DEF NamesAreKeys
      <3> QED BY <2>1, <2>3, <3>1, <3>2, <3>3 DEF NamesAreKeys
    <2> QED BY <2>2, <2>3 DEF OneOwnerPerName
  <1> QED BY <1>1, AccountsInvHolds, PTL

(* Whoever acts with a token was a user, and whoever acts as admin an admin, less
   than a token's life and the length of its login ago, for any life, however
   slow a login is and whatever the operator does. *)
THEOREM StandingHolds == Spec => []StandingIsRecent
  <1>1. AccountsInv => StandingIsRecent
    BY DEF AccountsInv
  <1> QED BY <1>1, AccountsInvHolds, PTL

-----------------------------------------------------------------------------
(* Listing. *)

Rank(S, i) == Cardinality(AtLeast(S, i))

Decreasing(s) == \A i, j \in DOMAIN s : i < j => s[i] > s[j]

Records == reply.records

(* What ListTypeOK leaves out. *)
ListTypes ==
    /\ ListTypeOK
    /\ got \in Seq(Ids)
    /\ reply \in [code : {0}, total : 0..MaxId, records : Seq(Ids)]

(* Where the client is: at the last row it has, or behind as many full pages. *)
Position ==
    /\ pageNum >= 1
    /\ paging = "cursor" => /\ pageNum = 1
                            /\ cursor = IF got = <<>> THEN 0 ELSE Last(got)
    /\ paging = "offset" => /\ cursor = 0
                            /\ at # "done" => Len(got) = (pageNum - 1) * PageSize

(* The columns that were looked at are there, unless a statement failed. *)
SchemaReady ==
    /\ at # "idle" \/ list = "submissions" => step = <<1, "ask">>
    /\ failed = 0 /\ list = "problems" =>
          /\ at = "idle" => \A k \in 1..(step[1] - 1) : Added[k] \in columns
          /\ at \in {"ready", "counted"} => Needed \subseteq columns

(* No row comes twice: a page begins below the last row the client has, with the
   cursor because it asks for that, with OFFSET because no more rows can be at
   or above that row than it has. *)
Ordered == paging = "cursor" \/ "grew" \notin moved

Descent ==
    Ordered =>
       /\ Decreasing(got)
       /\ at = "replied" =>
             /\ Decreasing(Records)
             /\ got # <<>> => \A k \in DOMAIN Records : Records[k] < Last(got)
       /\ paging = "offset" /\ got # <<>> => Rank(Visible, Last(got)) <= Len(got)
       /\ paging = "offset" /\ at = "replied" /\ Records # <<>> =>
             Rank(Visible, Last(Records)) <= Len(got) + Len(Records)

(* No steady row is passed over: what the client does not have is still ahead,
   below the cursor or behind as many rows as it has. *)
Complete == failed = 0 /\ (paging = "cursor" \/ "shrank" \notin moved)

Ahead(i) == IF paging = "cursor" THEN got = <<>> \/ i < Last(got)
            ELSE Rank(Visible, i) > Len(got)

AheadOfPage(i) ==
    /\ Len(Records) = PageSize
    /\ IF paging = "cursor" THEN i < Last(Records)
       ELSE Rank(Visible, i) > Len(got) + PageSize

Progress ==
    Complete =>
       \A i \in steady :
          \/ i \in ToSet(got)
          \/ at \in {"idle", "ready", "counted"} /\ Ahead(i)
          \/ at = "replied" /\ (i \in ToSet(Records) \/ AheadOfPage(i))

ListInv == ListTypes /\ Position /\ SchemaReady /\ Descent /\ Progress

-----------------------------------------------------------------------------
(* ORDER BY id DESC: ranks run from 1 to the number of rows, downwards. *)
LEMMA RankFacts ==
    ASSUME NEW S, S \subseteq Int, IsFiniteSet(S)
    PROVE  /\ \A i \in Int : IsFiniteSet(AtLeast(S, i)) /\ Rank(S, i) \in 0..Cardinality(S)
           /\ \A i \in S : Rank(S, i) \in 1..Cardinality(S)
           /\ \A i \in S, j \in Int : i < j => Rank(S, j) < Rank(S, i)
           /\ \A i \in Int, j \in Int : i <= j => Rank(S, j) <= Rank(S, i)
  <1>0. Cardinality(S) \in Nat
    BY FS_CardinalityType
  <1>1. ASSUME NEW i \in Int
        PROVE  IsFiniteSet(AtLeast(S, i)) /\ Rank(S, i) \in 0..Cardinality(S)
    <2>1. AtLeast(S, i) \in SUBSET S
      BY DEF AtLeast
    <2>2. IsFiniteSet(AtLeast(S, i)) /\ Rank(S, i) <= Cardinality(S) /\ Rank(S, i) \in Nat
      BY <2>1, FS_Subset, FS_CardinalityType DEF Rank
    <2> QED BY <1>0, <2>2
  <1>2. ASSUME NEW i \in S PROVE Rank(S, i) \in 1..Cardinality(S)
    <2>1. i \in AtLeast(S, i)
      BY DEF AtLeast
    <2>2. Rank(S, i) # 0
      BY <1>1, <2>1, FS_EmptySet DEF Rank
    <2> QED BY <1>0, <1>1, <2>2
  <1>3. ASSUME NEW i \in S, NEW j \in Int, i < j PROVE Rank(S, j) < Rank(S, i)
    <2> DEFINE A == AtLeast(S, i)
               B == AtLeast(S, j)
    <2>1. B \in SUBSET (A \ {i}) /\ i \in A
      <3>1. i \in Int /\ i >= i /\ \A k \in Int : k >= j => k >= i /\ k # i
        BY <1>3
      <3>2. i \in A
        BY <3>1 DEF AtLeast
      <3>3. \A k \in B : k \in A /\ k # i
        BY <3>1 DEF AtLeast
      <3> HIDE DEF A, B
      <3> QED BY <3>2, <3>3
    <2>2. IsFiniteSet(A) /\ IsFiniteSet(B)
      BY <1>1, <1>3
    <2> HIDE DEF A, B
    <2>3. IsFiniteSet(A \ {i}) /\ Cardinality(A \ {i}) = Cardinality(A) - 1
      BY <2>1, <2>2, FS_RemoveElement
    <2>4. Cardinality(B) <= Cardinality(A \ {i})
      BY <2>1, <2>3, FS_Subset
    <2>5. Cardinality(A) \in Nat /\ Cardinality(B) \in Nat
      BY <2>2, FS_CardinalityType
    <2>6. Cardinality(B) < Cardinality(A)
      BY <2>3, <2>4, <2>5
    <2> QED BY <2>6 DEF A, B, Rank
  <1>4. ASSUME NEW i \in Int, NEW j \in Int, i <= j PROVE Rank(S, j) <= Rank(S, i)
    <2>1. AtLeast(S, j) \in SUBSET AtLeast(S, i)
      <3>1. \A k \in Int : k >= j => k >= i
        BY <1>4
      <3> QED BY <3>1 DEF AtLeast
    <2> QED BY <1>1, <2>1, FS_Subset DEF Rank
  <1> QED BY <1>1, <1>2, <1>3, <1>4

(* Newest lists the rows by rank. *)
LEMMA NewestFacts ==
    ASSUME NEW S, S \subseteq Int, IsFiniteSet(S)
    PROVE  /\ Newest(S) \in Seq(S) /\ Len(Newest(S)) = Cardinality(S)
           /\ \A k \in 1..Cardinality(S) : Newest(S)[k] \in S /\ Rank(S, Newest(S)[k]) = k
           /\ \A i \in S : Newest(S)[Rank(S, i)] = i
  <1> DEFINE n == Cardinality(S)
             rank == [i \in S |-> Rank(S, i)]
  <1>0. n \in Nat
    BY FS_CardinalityType
  <1>1. ASSUME NEW i \in S, NEW j \in S, Rank(S, i) = Rank(S, j) PROVE i = j
    <2>1. i \in Int /\ j \in Int
      OBVIOUS
    <2>2. Rank(S, i) \in 1..Cardinality(S) /\ Rank(S, j) \in 1..Cardinality(S)
      BY RankFacts
    <2>3. i < j => Rank(S, j) < Rank(S, i)
      BY <2>1, RankFacts
    <2>4. j < i => Rank(S, i) < Rank(S, j)
      BY <2>1, RankFacts
    <2>5. Rank(S, i) \in Int
      BY <2>2
    <2> QED BY <1>1, <2>1, <2>3, <2>4, <2>5
  <1>2. rank \in [S -> 1..n]
    BY RankFacts
  <1>3. rank \in Injection(S, 1..n)
    BY <1>1, <1>2 DEF Injection, IsInjective
  <1>4. IsFiniteSet(1..n) /\ Cardinality(1..n) = n
    BY <1>0, FS_Interval
  <1>5. rank \in Surjection(S, 1..n)
    BY <1>3, <1>4, FS_Injection
  <1>6. \A k \in 1..n : \E i \in S : Rank(S, i) = k
    BY <1>5 DEF Surjection
  <1>7. \A k \in 1..n : Newest(S)[k] \in S /\ Rank(S, Newest(S)[k]) = k
    <2> TAKE k \in 1..n
    <2>1. Newest(S)[k] = CHOOSE id \in S : Rank(S, id) = k
      BY DEF Newest, Rank
    <2> QED BY <1>6, <2>1
  <1>8. Newest(S) \in Seq(S) /\ Len(Newest(S)) = n
    <2>1. Newest(S) \in [1..n -> S]
      BY <1>7 DEF Newest
    <2> QED BY <1>0, <2>1
  <1>9. \A i \in S : Newest(S)[Rank(S, i)] = i
    BY <1>1, <1>7, RankFacts
  <1> QED BY <1>7, <1>8, <1>9

(* What a page of n rows behind the first off is. *)
Window(S, off, n) == Limit(Skip(Newest(S), off), n)

LEMMA WindowFacts ==
    ASSUME NEW S, S \subseteq Int, IsFiniteSet(S), NEW off \in Nat, NEW n \in Nat
    PROVE  /\ Window(S, off, n) \in Seq(S) /\ Len(Window(S, off, n)) <= n
           /\ \A k \in 1..Len(Window(S, off, n)) :
                 Window(S, off, n)[k] \in S /\ Rank(S, Window(S, off, n)[k]) = off + k
           /\ \A i \in S : off < Rank(S, i) =>
                 \/ \E k \in 1..Len(Window(S, off, n)) : Window(S, off, n)[k] = i
                 \/ Len(Window(S, off, n)) = n /\ off + n < Rank(S, i)
  <1> DEFINE s == Newest(S)
             m == Cardinality(S)
             t == Skip(s, off)
             w == Limit(t, n)
  <1>1. /\ s \in Seq(S) /\ Len(s) = m /\ m \in Nat
        /\ \A k \in 1..m : s[k] \in S /\ Rank(S, s[k]) = k
        /\ \A i \in S : Rank(S, i) \in 1..m /\ s[Rank(S, i)] = i
    BY NewestFacts, RankFacts, FS_CardinalityType
  <1> HIDE DEF s, m
  <1>2. /\ t \in Seq(S) /\ Len(t) = (IF off < m THEN m - off ELSE 0)
        /\ \A k \in 1..Len(t) : t[k] = s[off + k]
    <2>1. CASE off < m
      BY <1>1, <2>1 DEF Skip
    <2>2. CASE ~(off < m)
      BY <1>1, <2>2 DEF Skip
    <2> QED BY <2>1, <2>2
  <1> HIDE DEF t
  <1>3. /\ w \in Seq(S) /\ Len(w) = (IF Len(t) < n THEN Len(t) ELSE n)
        /\ \A k \in 1..Len(w) : w[k] = t[k]
    <2>1. Len(t) \in Nat
      BY <1>2
    <2>2. CASE Len(t) < n
      BY <1>2, <2>1, <2>2 DEF Limit
    <2>3. CASE ~(Len(t) < n)
      BY <1>2, <2>1, <2>3 DEF Limit
    <2> QED BY <2>2, <2>3
  <1> HIDE DEF w
  <1>4. Len(w) <= n /\ Len(w) <= Len(t) /\ Len(w) \in Nat /\ Len(t) \in Nat
    BY <1>2, <1>3
  <1>5. ASSUME NEW k \in 1..Len(w) PROVE w[k] \in S /\ Rank(S, w[k]) = off + k
    <2>1. k \in 1..Len(t) /\ off + k \in 1..m
      BY <1>1, <1>2, <1>4
    <2>2. w[k] = s[off + k]
      BY <1>2, <1>3, <2>1
    <2> QED BY <1>1, <2>1, <2>2
  <1>6. ASSUME NEW i \in S, off < Rank(S, i)
        PROVE  \/ \E k \in 1..Len(w) : w[k] = i
               \/ Len(w) = n /\ off + n < Rank(S, i)
    <2> DEFINE r == Rank(S, i)
    <2>1. r \in 1..m /\ s[r] = i /\ off < r
      BY <1>1, <1>6
    <2> HIDE DEF r
    <2>2. r - off \in 1..Len(t) /\ t[r - off] = i
      <3>1. r - off \in 1..Len(t) /\ off + (r - off) = r
        BY <1>1, <1>2, <2>1
      <3> QED BY <1>2, <2>1, <3>1
    <2>3. CASE r - off <= Len(w)
      <3>1. r - off \in 1..Len(w)
        BY <1>4, <2>1, <2>2, <2>3
      <3>2. w[r - off] = i
        BY <1>3, <2>2, <3>1
      <3> QED BY <3>1, <3>2
    <2>4. CASE r - off > Len(w)
      <3>1. Len(w) = n
        BY <1>1, <1>2, <1>3, <1>4, <2>1, <2>2, <2>4
      <3>2. off + n < r
        BY <1>1, <1>4, <2>1, <2>4, <3>1
      <3> QED BY <3>1, <3>2 DEF r
    <2>5. Len(w) \in Int /\ r - off \in Int
      BY <1>1, <1>4, <2>1
    <2> QED BY <2>3, <2>4, <2>5
  <1>7. w = Window(S, off, n)
    BY DEF w, t, s, Window
  <1> QED BY <1>3, <1>4, <1>5, <1>6, <1>7

(* The page of a request: below the cursor, or behind the pages before it. *)
Base   == IF cursor > 0 THEN {i \in Visible : i < cursor} ELSE Visible
Before == IF cursor > 0 THEN 0 ELSE (pageNum - 1) * PageSize

LEMMA PageIsWindow ==
    ASSUME ListTypes
    PROVE  Page = Window(Base, Before, PageSize) /\ Base \subseteq Int /\ IsFiniteSet(Base)
  <1>1. Base \subseteq Visible /\ Visible \subseteq Ids /\ Ids \subseteq Int
    BY DEF Base, Visible, ListTypes, ListTypeOK, Ids
  <1>2. IsFiniteSet(Ids) /\ Base \in SUBSET Ids
    BY <1>1, SizesAssumption, FS_Interval DEF Ids
  <1>3. IsFiniteSet(Base)
    BY <1>2, FS_Subset
  <1>4. CASE cursor > 0
    <2> DEFINE s == Newest(Base)
    <2>1. s \in Seq(Base)
      BY <1>1, <1>3, NewestFacts
    <2>2. Page = Limit(s, PageSize) /\ Before = 0
      BY <1>4 DEF Page, Base, Before
    <2> HIDE DEF s
    <2>3. Skip(s, 0) = s
      BY <2>1 DEF Skip
    <2>4. Window(Base, Before, PageSize) = Limit(Skip(s, 0), PageSize)
      BY <2>2 DEF Window, s
    <2> QED BY <1>1, <1>3, <2>2, <2>3, <2>4
  <1>5. CASE ~(cursor > 0)
    BY <1>1, <1>3, <1>5 DEF Page, Window, Base, Before
  <1> QED BY <1>4, <1>5

-----------------------------------------------------------------------------
VisibleFacts == Visible \subseteq Ids /\ IsFiniteSet(Visible) /\ Visible \subseteq Int
                /\ Cardinality(Visible) \in 0..MaxId

LEMMA RowsAreFinite ==
    ASSUME NEW S \in SUBSET Ids
    PROVE  IsFiniteSet(S) /\ S \subseteq Int /\ Cardinality(S) \in 0..MaxId
  <1>1. IsFiniteSet(Ids) /\ Cardinality(Ids) = MaxId /\ Ids \subseteq Int
    BY SizesAssumption, FS_Interval DEF Ids
  <1>2. IsFiniteSet(S) /\ Cardinality(S) <= MaxId /\ Cardinality(S) \in Nat
    BY <1>1, FS_Subset, FS_CardinalityType
  <1> QED BY <1>1, <1>2, SizesAssumption

LEMMA VisibleIsFinite ==
    /\ ListTypes => VisibleFacts
    /\ ListTypes' => VisibleFacts'
  <1>1. ListTypes => Visible \in SUBSET Ids
    BY DEF ListTypes, ListTypeOK, Visible
  <1>2. ListTypes' => Visible' \in SUBSET Ids
    BY DEF ListTypes, ListTypeOK, Visible
  <1> QED BY <1>1, <1>2, RowsAreFinite DEF VisibleFacts

(* Ranks move with the rows: they only grow with them, and only shrink with them. *)
LEMMA RanksGrow ==
    ASSUME NEW S, NEW T, S \subseteq T, IsFiniteSet(T), NEW i
    PROVE  Rank(S, i) <= Rank(T, i) /\ Rank(S, i) \in Nat /\ Rank(T, i) \in Nat
  <1>1. AtLeast(S, i) \in SUBSET AtLeast(T, i) /\ AtLeast(T, i) \in SUBSET T
    BY DEF AtLeast
  <1>2. IsFiniteSet(AtLeast(T, i))
    BY <1>1, FS_Subset
  <1> QED BY <1>1, <1>2, FS_Subset, FS_CardinalityType DEF Rank

-----------------------------------------------------------------------------
LEMMA AddedFacts ==
    /\ Len(Added) = 3 /\ DOMAIN Added = 1..3
    /\ ToSet(Added) = {Added[1], Added[2], Added[3]} /\ Needed = {Added[1], Added[2]}
  BY DEF Added, Needed, ToSet

LEMMA LastOf == ASSUME NEW s \in Seq(Ids), s # <<>> PROVE Last(s) = s[Len(s)] /\ Last(s) \in Ids /\ Len(s) \in Nat \ {0}
  BY DEF Last

(* What a client has after a page. *)
LEMMA Together ==
    ASSUME NEW s \in Seq(Ids), NEW t \in Seq(Ids)
    PROVE  /\ s \o t \in Seq(Ids) /\ Len(s \o t) = Len(s) + Len(t)
           /\ \A i : i \in ToSet(s) \/ i \in ToSet(t) => i \in ToSet(s \o t)
           /\ t # <<>> => s \o t # <<>> /\ Last(s \o t) = Last(t)
           /\ t = <<>> => s \o t = s
           /\ Decreasing(s) /\ Decreasing(t)
                 /\ (s # <<>> => \A k \in DOMAIN t : t[k] < Last(s)) => Decreasing(s \o t)
  <1> DEFINE u == s \o t
             m == Len(s)
             n == Len(t)
  <1>t. \A k \in 1..m : s[k] \in Int
    <2>1. \A k \in 1..m : s[k] \in Ids
      OBVIOUS
    <2> QED BY <2>1 DEF Ids
  <1>v. \A l \in 1..n : t[l] \in Int
    <2>1. \A l \in 1..n : t[l] \in Ids
      OBVIOUS
    <2> QED BY <2>1 DEF Ids
  <1>1. /\ u \in Seq(Ids) /\ Len(u) = m + n /\ m \in Nat /\ n \in Nat
        /\ DOMAIN s = 1..m /\ DOMAIN t = 1..n /\ DOMAIN u = 1..(m + n)
    OBVIOUS
  <1>b. \A k \in 1..m : u[k] = s[k]
    OBVIOUS
  <1>a. ASSUME NEW l \in 1..n PROVE u[m + l] = t[l]
    <2>1. m + l \in 1..(m + n) /\ ~(m + l <= m) /\ (m + l) - m = l
      BY <1>1
    <2> QED BY <2>1
  <1>2. t = <<>> => u = s
    OBVIOUS
  <1> HIDE DEF u
  <1>3. ASSUME NEW i, i \in ToSet(s) \/ i \in ToSet(t) PROVE i \in ToSet(u)
    <2>1. CASE i \in ToSet(s)
      <3>1. PICK k \in 1..m : i = s[k]
        BY <1>1, <2>1 DEF ToSet
      <3>2. k \in DOMAIN u /\ u[k] = i
        BY <1>1, <1>b, <3>1
      <3> QED BY <3>2 DEF ToSet
    <2>2. CASE i \in ToSet(t)
      <3>1. PICK l \in 1..n : i = t[l]
        BY <1>1, <2>2 DEF ToSet
      <3>2. m + l \in DOMAIN u /\ u[m + l] = i
        BY <1>1, <1>a, <3>1
      <3> QED BY <3>2 DEF ToSet
    <2> QED BY <1>3, <2>1, <2>2
  <1>4. t # <<>> => u # <<>> /\ Last(u) = Last(t)
    <2> SUFFICES ASSUME t # <<>> PROVE u # <<>> /\ Last(u) = Last(t)
      OBVIOUS
    <2>1. n \in 1..n /\ m + n # 0
      BY <1>1
    <2>2. u[m + n] = t[n]
      BY <1>a, <2>1
    <2> QED BY <1>1, <2>1, <2>2 DEF Last
  <1>5. ASSUME Decreasing(s), Decreasing(t), s # <<>> => \A k \in DOMAIN t : t[k] < Last(s)
        PROVE  Decreasing(u)
    <2> SUFFICES ASSUME NEW k \in 1..(m + n), NEW l \in 1..(m + n), k < l PROVE u[k] > u[l]
      BY <1>1 DEF Decreasing
    <2>1. CASE l <= m
      <3>1. k \in 1..m /\ l \in 1..m
        BY <1>1, <2>1
      <3> QED BY <1>1, <1>b, <1>5, <3>1 DEF Decreasing
    <2>2. CASE k > m
      <3>1. k - m \in 1..n /\ l - m \in 1..n /\ k - m < l - m /\ m + (k - m) = k /\ m + (l - m) = l
        BY <1>1, <2>2
      <3>2. u[k] = t[k - m] /\ u[l] = t[l - m]
        BY <1>a, <3>1
      <3> QED BY <1>1, <1>5, <3>1, <3>2 DEF Decreasing
    <2>3. CASE k <= m /\ l > m
      <3>1. k \in 1..m /\ l - m \in 1..n /\ m + (l - m) = l /\ m \in 1..m
        BY <1>1, <2>3
      <3>2. u[k] = s[k] /\ u[l] = t[l - m] /\ s[k] \in Int /\ s[m] \in Int /\ t[l - m] \in Int
        BY <1>t, <1>v, <1>b, <1>a, <3>1
      <3>3. t[l - m] < s[m]
        <4>1. s # <<>> /\ Last(s) = s[m] /\ l - m \in DOMAIN t
          BY <1>1, <3>1 DEF Last
        <4> QED BY <1>5, <4>1
      <3>4. s[k] >= s[m]
        <4>1. CASE k < m
          <5>1. s[k] > s[m]
            BY <1>1, <1>5, <3>1, <4>1 DEF Decreasing
          <5> QED BY <3>2, <5>1
        <4>2. CASE k = m
          BY <3>2, <4>2
        <4>3. k \in Int /\ m \in Int /\ k <= m
          BY <1>1, <2>3
        <4> HIDE DEF m
        <4>4. k < m \/ k = m
          BY ONLY <4>3
        <4> QED BY <4>1, <4>2, <4>4
      <3> QED BY <3>2, <3>3, <3>4
    <2> QED BY <1>1, <2>1, <2>2, <2>3
  <1> QED BY <1>1, <1>2, <1>3, <1>4, <1>5 DEF u

-----------------------------------------------------------------------------
LEMMA BeforeIsNat == ASSUME ListTypes, Position PROVE Before \in Nat
  <1>1. pageNum - 1 \in Nat /\ PageSize \in Nat
    BY SizesAssumption DEF ListTypes, ListTypeOK, Position
  <1> HIDE DEF Position
  <1>2. \A a, b \in Nat : a * b \in Nat
    OBVIOUS
  <1> QED BY <1>1, <1>2 DEF Before

LEMMA PageTypes ==
    ASSUME ListTypes, Position
    PROVE  Page \in Seq(Ids) /\ Len(Page) <= PageSize
  <1>1. Base \subseteq Ids
    BY DEF Base, Visible, ListTypes, ListTypeOK
  <1>2. Page \in Seq(Base) /\ Len(Page) <= PageSize
    BY PageIsWindow, BeforeIsNat, WindowFacts, SizesAssumption
  <1> QED BY <1>1, <1>2

(* Every action keeps the types, the client's position and the schema's. *)
LEMMA TypesStep == ASSUME ListTypes, Position, ListNext PROVE ListTypes'
  <1> USE SizesAssumption
  <1> USE DEF ListTypes, ListTypeOK, table, data, client
  <1>0. VisibleFacts
    BY VisibleIsFinite
  <1>1. CASE Begin
    BY <1>1 DEF Begin, Visible
  <1>2. ASSUME NEW id \in Ids, Commit(id) PROVE ListTypes'
    BY <1>2 DEF Commit, Visible
  <1>3. ASSUME NEW id \in Ids, Rematch(id) PROVE ListTypes'
    BY <1>3 DEF Rematch, Visible
  <1>4. CASE OthersAdd
    BY <1>4 DEF OthersAdd, Visible
  <1>5. CASE AskColumn
    BY <1>5, AddedFacts DEF AskColumn, NextColumn, SchemaDone, Visible
  <1>6. CASE AddColumn
    BY <1>6, AddedFacts DEF AddColumn, NextColumn, SchemaDone, Visible
  <1>7. CASE AddFails
    BY <1>7, AddedFacts DEF AddFails, NextColumn, SchemaDone, Visible
  <1>8. CASE Count
    BY <1>0, <1>8 DEF Count, Visible, VisibleFacts
  <1>9. CASE Select
    BY <1>9, PageTypes DEF Select, Visible, NoPage
  <1>10. CASE Fault
    BY <1>10 DEF Fault, Visible, NoPage
  <1>11. CASE Take
    <2>1. /\ Records \in Seq(Ids) /\ got \in Seq(Ids) /\ got' = got \o Records
          /\ UNCHANGED <<table, data, list, paging, total, reply, steady, moved, failed>>
          /\ at' \in {"done", "idle"}
      BY <1>11 DEF Take, Records
    <2>2. got' \in Seq(Ids)
      BY <2>1, Together
    <2>3. cursor' \in 0..MaxId /\ pageNum' \in Nat /\ (cursor' = 0 \/ pageNum' = 1)
      <3>1. CASE paging = "cursor" /\ Records # <<>>
        <4>1. cursor' = Last(Records) /\ pageNum' = pageNum /\ pageNum = 1
          BY <1>11, <3>1 DEF Take, Records, Position
        <4>2. Last(Records) \in Ids
          BY <2>1, <3>1, LastOf
        <4> QED BY <4>1, <4>2 DEF Ids
      <3>2. CASE paging = "cursor" /\ Records = <<>>
        <4>1. cursor' = cursor /\ pageNum' = pageNum + 0 /\ pageNum = 1
          BY <1>11, <3>2 DEF Take, Records, Position
        <4> QED BY <4>1
      <3>3. CASE paging = "offset"
        <4>1. cursor' = cursor /\ pageNum' = pageNum + 1 /\ cursor = 0
          BY <1>11, <3>3 DEF Take, Records, Position
        <4> QED BY <4>1
      <3> QED BY <3>1, <3>2, <3>3
    <2> QED BY <2>1, <2>2, <2>3 DEF Visible
  <1> QED BY <1>1, <1>2, <1>3, <1>4, <1>5, <1>6, <1>7, <1>8, <1>9, <1>10, <1>11 DEF ListNext, Request

LEMMA PositionStep == ASSUME ListTypes, Position, ListNext PROVE Position'
  <1>1. CASE Take
    <2>1. /\ Records \in Seq(Ids) /\ got \in Seq(Ids) /\ PageSize \in Nat \ {0} /\ pageNum \in Nat
          /\ Len(Records) <= PageSize /\ Len(Records) \in Nat /\ Len(got) \in Nat
          /\ paging \in {"cursor", "offset"} /\ at = "replied" /\ pageNum >= 1
      BY <1>1, SizesAssumption DEF ListTypes, ListTypeOK, Take, Position, Records
    <2>2. /\ got' = got \o Records /\ paging' = paging
          /\ at' = IF Len(Records) < PageSize THEN "done" ELSE "idle"
      BY <1>1 DEF Take, Records
    <2>3. CASE paging = "cursor"
      <3>1. pageNum' = pageNum
        BY <1>1, <2>1, <2>3 DEF Take, Records
      <3>2. cursor' = IF Records # <<>> THEN Last(Records) ELSE cursor
        BY <1>1, <2>3 DEF Take, Records
      <3>3. cursor' = IF got' = <<>> THEN 0 ELSE Last(got')
        BY <2>1, <2>2, <2>3, <3>2, Together DEF Position
      <3> QED BY <2>1, <2>2, <2>3, <3>1, <3>3 DEF Position
    <2>4. CASE paging = "offset"
      <3>1. cursor' = cursor /\ pageNum' = pageNum + 1
        BY <1>1, <2>4 DEF Take, Records
      <3>2. at' # "done" => Len(got') = (pageNum' - 1) * PageSize
        <4>1. Len(got) = (pageNum - 1) * PageSize
          BY <2>1, <2>4 DEF Position
        <4>2. Len(got') = Len(got) + Len(Records)
          BY <2>1, <2>2, Together
        <4>3. at' # "done" => Len(Records) = PageSize
          BY <2>1, <2>2
        <4>4. (pageNum' - 1) * PageSize = (pageNum - 1) * PageSize + PageSize
          <5>1. \A a, b \in Int : ((a + 1) - 1) * b = (a - 1) * b + b
            OBVIOUS
          <5> QED BY <2>1, <3>1, <5>1
        <4> QED BY <4>1, <4>2, <4>3, <4>4
      <3> QED BY <2>1, <2>2, <2>4, <3>1, <3>2 DEF Position
    <2> QED BY <2>1, <2>3, <2>4
  <1>2. CASE ~Take
    <2>1. UNCHANGED <<paging, got, cursor, pageNum>> /\ (at = "done" => at' = "done")
      BY <1>2 DEF ListNext, Request, Begin, Commit, Rematch, OthersAdd, AskColumn, AddColumn, AddFails,
                  Count, Select, Fault, client, SchemaDone
    <2> QED BY <2>1 DEF Position
  <1> QED BY <1>1, <1>2

LEMMA SchemaStep == ASSUME ListTypes, SchemaReady, ListNext PROVE SchemaReady'
  <1> USE DEF table, data, client
  <1>a. step[1] \in 1..3 /\ step[2] \in {"ask", "alter"} /\ step = <<step[1], step[2]>>
        /\ columns \subseteq ToSet(Added) /\ failed \in Nat /\ list \in {"submissions", "problems"}
    BY AddedFacts, SizesAssumption DEF ListTypes, ListTypeOK
  <1>1. CASE AskColumn
    BY <1>1, <1>a, AddedFacts DEF AskColumn, NextColumn, SchemaDone, SchemaReady
  <1>2. CASE AddColumn
    BY <1>2, <1>a, AddedFacts DEF AddColumn, NextColumn, SchemaDone, SchemaReady
  <1>3. CASE AddFails
    BY <1>3, <1>a, AddedFacts DEF AddFails, NextColumn, SchemaDone, SchemaReady
  <1>4. CASE OthersAdd
    BY <1>4, <1>a DEF OthersAdd, SchemaReady
  <1>5. CASE Fault
    BY <1>5, <1>a DEF Fault, SchemaReady
  <1>6. CASE Begin \/ Count \/ Select \/ Take \/ \E id \in Ids : Commit(id) \/ Rematch(id)
    <2>1. UNCHANGED <<step, columns, list, failed>>
      BY <1>6 DEF Begin, Count, Select, Take, Commit, Rematch
    <2>2. \/ at' = at
          \/ at = "ready" /\ at' = "counted"
          \/ at = "idle" /\ list = "submissions" /\ at' = "counted"
          \/ at = "counted" /\ at' = "replied"
          \/ at = "replied" /\ at' \in {"idle", "done"}
      BY <1>6, <1>a DEF Begin, Count, Select, Take, Commit, Rematch
    <2> QED BY <1>a, <2>1, <2>2 DEF SchemaReady
  <1> QED BY <1>1, <1>2, <1>3, <1>4, <1>5, <1>6 DEF ListNext, Request

-----------------------------------------------------------------------------
(* The page that is asked for goes on downwards from the last row there is. *)
LEMMA PageDescends ==
    ASSUME ListTypes, Position, Descent, at = "counted", Ordered
    PROVE  /\ Decreasing(Page)
           /\ got # <<>> => \A k \in DOMAIN Page : Page[k] < Last(got)
           /\ paging = "offset" /\ Page # <<>> => Rank(Visible, Last(Page)) <= Len(got) + Len(Page)
  <1> DEFINE w == Page
             n == Len(Page)
  <1>1. /\ Base \subseteq Int /\ IsFiniteSet(Base) /\ Before \in Nat /\ PageSize \in Nat
        /\ w = Window(Base, Before, PageSize)
    BY PageIsWindow, BeforeIsNat, SizesAssumption
  <1>2. /\ w \in Seq(Base)
        /\ \A k \in 1..n : w[k] \in Base /\ Rank(Base, w[k]) = Before + k
    BY <1>1, WindowFacts
  <1>3. n \in Nat /\ DOMAIN w = 1..n
    BY <1>2
  <1>4. got \in Seq(Ids) /\ paging \in {"cursor", "offset"} /\ cursor \in 0..MaxId
    BY DEF ListTypes, ListTypeOK
  <1>5. got # <<>> => Last(got) \in Int /\ Last(got) > 0
    BY <1>4, LastOf DEF Ids
  <1> HIDE DEF w, n
  <1>6. ASSUME NEW k \in 1..n, NEW b \in Int, Rank(Base, b) < Rank(Base, w[k]) PROVE w[k] < b
    <2>1. w[k] \in Base /\ w[k] \in Int
      BY <1>1, <1>2
    <2>2. b <= w[k] => Rank(Base, w[k]) <= Rank(Base, b)
      BY <1>1, <2>1, RankFacts
    <2>3. Rank(Base, b) \in Int /\ Rank(Base, w[k]) \in Int
      <3>1. Rank(Base, b) \in 0..Cardinality(Base) /\ Rank(Base, w[k]) \in 0..Cardinality(Base)
        BY <1>1, <2>1, RankFacts
      <3> QED BY <3>1
    <2> QED BY <1>6, <2>1, <2>2, <2>3
  <1>7. Decreasing(w)
    <2> SUFFICES ASSUME NEW k \in 1..n, NEW l \in 1..n, k < l PROVE w[k] > w[l]
      BY <1>3 DEF Decreasing
    <2>1. Rank(Base, w[k]) = Before + k /\ Rank(Base, w[l]) = Before + l /\ w[k] \in Int /\ w[l] \in Int
      BY <1>1, <1>2
    <2>2. Rank(Base, w[k]) < Rank(Base, w[l])
      BY <1>1, <2>1
    <2>3. w[l] < w[k]
      BY <1>6, <2>1, <2>2
    <2> QED BY <2>1, <2>3
  <1>8. ASSUME got # <<>>, NEW k \in DOMAIN w PROVE w[k] < Last(got)
    <2>1. k \in 1..n
      BY <1>3, <1>8
    <2>2. CASE paging = "cursor"
      <3>1. cursor = Last(got) /\ cursor > 0
        BY <1>5, <1>8, <2>2 DEF Position
      <3> QED BY <1>2, <2>1, <3>1 DEF Base
    <2>3. CASE paging = "offset"
      <3>1. cursor = 0 /\ Len(got) = (pageNum - 1) * PageSize
        BY <2>3 DEF Position
      <3>2. Base = Visible /\ Before = Len(got)
        BY <3>1 DEF Base, Before
      <3>3. Rank(Visible, Last(got)) <= Len(got)
        BY <1>8, <2>3 DEF Descent
      <3>4. Rank(Base, Last(got)) <= Before /\ Rank(Base, w[k]) = Before + k /\ k >= 1 /\ k \in Int
        BY <1>2, <2>1, <3>2, <3>3
      <3>5. Rank(Base, Last(got)) \in 0..Cardinality(Base)
        BY <1>1, <1>5, <1>8, RankFacts
      <3>6. Rank(Base, Last(got)) < Rank(Base, w[k])
        BY <1>1, <3>4, <3>5
      <3> QED BY <1>5, <1>6, <1>8, <2>1, <3>6
    <2> QED BY <1>4, <2>2, <2>3
  <1>9. ASSUME paging = "offset", w # <<>> PROVE Rank(Visible, Last(w)) <= Len(got) + n
    <2>1. cursor = 0 /\ Len(got) = (pageNum - 1) * PageSize
      BY <1>9 DEF Position
    <2>2. Base = Visible /\ Before = Len(got)
      BY <2>1 DEF Base, Before
    <2>3. n \in 1..n /\ Last(w) = w[n]
      BY <1>2, <1>3, <1>9 DEF Last, n
    <2>4. Rank(Visible, Last(w)) = Len(got) + n
      BY <1>2, <2>2, <2>3
    <2>5. Len(got) \in Nat
      BY <1>4
    <2> QED BY <1>3, <2>4, <2>5
  <1> QED BY <1>7, <1>8, <1>9 DEF w, n

(* A row that is still ahead is on the page, or the page is full and the row
   behind it. *)
LEMMA PageAdvances ==
    ASSUME ListTypes, Position, at = "counted", NEW i \in Visible, Ahead(i)
    PROVE  \/ i \in ToSet(Page)
           \/ /\ Len(Page) = PageSize
              /\ IF paging = "cursor" THEN i < Last(Page)
                 ELSE Rank(Visible, i) > Len(got) + PageSize
  <1> DEFINE w == Page
             n == Len(Page)
  <1>1. /\ Base \subseteq Int /\ IsFiniteSet(Base) /\ Before \in Nat /\ PageSize \in Nat \ {0}
        /\ w = Window(Base, Before, PageSize)
    BY PageIsWindow, BeforeIsNat, SizesAssumption
  <1>2. /\ w \in Seq(Base) /\ n \in Nat /\ DOMAIN w = 1..n
        /\ \A k \in 1..n : w[k] \in Base /\ Rank(Base, w[k]) = Before + k
        /\ i \in Base /\ Before < Rank(Base, i) =>
              \/ \E k \in 1..n : w[k] = i
              \/ n = PageSize /\ Before + PageSize < Rank(Base, i)
    <2> DEFINE v == Window(Base, Before, PageSize)
    <2>1. PageSize \in Nat
      BY <1>1
    <2>2. /\ v \in Seq(Base)
          /\ \A k \in 1..Len(v) : v[k] \in Base /\ Rank(Base, v[k]) = Before + k
          /\ \A j \in Base : Before < Rank(Base, j) =>
                 \/ \E k \in 1..Len(v) : v[k] = j
                 \/ Len(v) = PageSize /\ Before + PageSize < Rank(Base, j)
      <3> HIDE DEF v
      <3>1. Base \subseteq Int /\ IsFiniteSet(Base) /\ Before \in Nat
        BY <1>1
      <3> USE DEF v
      <3> QED BY ONLY <2>1, <3>1, WindowFacts, Zenon
    <2> HIDE DEF v
    <2>3. Len(v) \in Nat /\ DOMAIN v = 1..Len(v)
      BY <2>2
    <2>4. w = v /\ n = Len(v)
      BY <1>1 DEF v
    <2> HIDE DEF w, n
    <2> QED BY <2>2, <2>3, <2>4
  <1>3. /\ got \in Seq(Ids) /\ paging \in {"cursor", "offset"} /\ cursor \in 0..MaxId
        /\ i \in Int /\ i \in Ids
    BY DEF ListTypes, ListTypeOK, Visible, Ids
  <1> HIDE DEF w, n
  <1>4. i \in Base /\ Before < Rank(Base, i) /\ (paging = "offset" => Base = Visible /\ Before = Len(got))
    <2>1. CASE paging = "cursor"
      <3>1. cursor = (IF got = <<>> THEN 0 ELSE Last(got)) /\ pageNum = 1
        BY <2>1 DEF Position
      <3>2. i \in Base
        <4>1. CASE got = <<>>
          BY <3>1, <4>1 DEF Base
        <4>2. CASE got # <<>>
          BY <2>1, <3>1, <4>2 DEF Base, Ahead
        <4> QED BY <4>1, <4>2
      <3>3. Before = 0
        <4>1. \A a \in Int : (1 - 1) * a = 0
          OBVIOUS
        <4> QED BY <1>1, <3>1, <4>1 DEF Before
      <3>4. Rank(Base, i) \in 1..Cardinality(Base)
        BY <1>1, <3>2, RankFacts
      <3> QED BY <2>1, <3>2, <3>3, <3>4
    <2>2. CASE paging = "offset"
      <3>1. cursor = 0 /\ Len(got) = (pageNum - 1) * PageSize
        BY <2>2 DEF Position
      <3>2. Base = Visible /\ Before = Len(got)
        BY <3>1 DEF Base, Before
      <3>3. Rank(Visible, i) > Len(got)
        BY <2>2 DEF Ahead
      <3>4. Rank(Base, i) \in 0..Cardinality(Base)
        BY <1>1, <1>3, RankFacts
      <3> QED BY <1>1, <3>2, <3>3, <3>4
    <2> QED BY <1>3, <2>1, <2>2
  <1>5. CASE \E k \in 1..n : w[k] = i
    <2>1. i \in ToSet(w)
      BY <1>2, <1>5 DEF ToSet
    <2> QED BY <2>1 DEF w
  <1>6. CASE n = PageSize /\ Before + PageSize < Rank(Base, i)
    <2>1. CASE paging = "offset"
      <3>1. Rank(Visible, i) > Len(got) + PageSize
        <4>1. Rank(Base, i) \in 0..Cardinality(Base)
          BY <1>1, <1>3, RankFacts
        <4> QED BY <1>1, <1>4, <1>6, <2>1, <4>1
      <3> QED BY <1>6, <2>1, <3>1 DEF n
    <2>2. CASE paging = "cursor"
      <3>1. n \in 1..n /\ Last(w) = w[n]
        BY <1>1, <1>2, <1>6 DEF Last, n
      <3>2. w[n] \in Base /\ w[n] \in Int /\ Rank(Base, w[n]) = Before + PageSize
        BY <1>1, <1>2, <1>6, <3>1
      <3>3. ~(w[n] <= i)
        <4>1. w[n] <= i => Rank(Base, i) <= Rank(Base, w[n])
          BY <1>1, <1>3, <3>2, RankFacts
        <4>2. Rank(Base, i) \in 0..Cardinality(Base)
          BY <1>1, <1>3, RankFacts
        <4> QED BY <1>1, <1>6, <3>2, <4>1, <4>2
      <3>4. i < Last(w)
        BY <1>3, <3>1, <3>2, <3>3
      <3> QED BY <1>6, <2>2, <3>4 DEF w, n
    <2> QED BY <1>3, <2>1, <2>2
  <1> QED BY <1>2, <1>4, <1>5, <1>6

-----------------------------------------------------------------------------
(* What changes rows and columns, and what only asks: the client and the answer
   stay as they are. *)
Asking == {"idle", "ready", "counted"}

Quiet ==
    /\ UNCHANGED <<paging, got, reply>>
    /\ at' = at \/ {at, at'} \subseteq Asking
    /\ moved \subseteq moved'
    /\ "grew" \notin moved' => Visible' \subseteq Visible
    /\ "shrank" \notin moved' => Visible \subseteq Visible'
    /\ steady' \subseteq steady
    /\ failed' = 0 => failed = 0

LEMMA OthersAreQuiet ==
    ASSUME ListTypes, ListNext, ~Select, ~Fault, ~Take
    PROVE  Quiet
  <1> USE DEF table, data, client, Quiet, Asking
  <1>0. failed \in Nat /\ matching \subseteq rows /\ pending \cap rows = {}
    BY SizesAssumption DEF ListTypes, ListTypeOK
  <1>1. CASE Begin
    <2>1. UNCHANGED <<paging, got, reply, at, moved, rows, matching, steady, failed>>
      BY <1>1 DEF Begin
    <2> QED BY <2>1 DEF Visible
  <1>2. ASSUME NEW id \in Ids, Commit(id) PROVE Quiet
    <2>1. /\ UNCHANGED <<paging, got, reply, at, steady, failed>> /\ moved' = moved \cup {"grew"}
          /\ rows' = rows \cup {id} /\ matching' = matching \cup {id}
      BY <1>2 DEF Commit
    <2>2. Visible \subseteq Visible'
      BY <2>1 DEF Visible
    <2> QED BY <2>1, <2>2
  <1>3. ASSUME NEW id \in Ids, Rematch(id) PROVE Quiet
    <2>1. /\ UNCHANGED <<paging, got, reply, at, rows, failed>> /\ steady' = steady \ {id}
          /\ \/ matching' = matching \ {id} /\ moved' = moved \cup {"shrank"}
             \/ matching' = matching \cup {id} /\ moved' = moved \cup {"grew"}
      BY <1>3 DEF Rematch
    <2>2. CASE matching' = matching \ {id} /\ moved' = moved \cup {"shrank"}
      <3>1. Visible' \subseteq Visible
        BY <2>1, <2>2 DEF Visible
      <3> QED BY <2>1, <2>2, <3>1
    <2>3. CASE matching' = matching \cup {id} /\ moved' = moved \cup {"grew"}
      <3>1. Visible \subseteq Visible'
        BY <2>1, <2>3 DEF Visible
      <3> QED BY <2>1, <2>3, <3>1
    <2> QED BY <2>1, <2>2, <2>3
  <1>4. CASE OthersAdd
    <2>1. UNCHANGED <<paging, got, reply, at, moved, rows, matching, steady, failed>>
      BY <1>4 DEF OthersAdd
    <2> QED BY <2>1 DEF Visible
  <1>5. CASE AskColumn
    BY <1>5 DEF AskColumn, SchemaDone, Visible
  <1>6. CASE AddColumn
    BY <1>6 DEF AddColumn, SchemaDone, Visible
  <1>7. CASE AddFails
    BY <1>0, <1>7 DEF AddFails, SchemaDone, Visible
  <1>8. CASE Count
    BY <1>8 DEF Count, Visible
  <1> QED BY <1>1, <1>2, <1>3, <1>4, <1>5, <1>6, <1>7, <1>8 DEF ListNext, Request

LEMMA DescentStep ==
    ASSUME ListTypes, Position, Descent, ListNext, ListTypes'
    PROVE  Descent'
  <1>0. VisibleFacts /\ VisibleFacts'
    BY VisibleIsFinite
  <1>t. got \in Seq(Ids) /\ Records \in Seq(Ids) /\ paging \in {"cursor", "offset"}
    BY DEF ListTypes, ListTypeOK, Records
  <1>1. CASE Quiet
    <2> SUFFICES ASSUME Ordered' PROVE Descent'
      BY DEF Descent
    <2>1. Ordered /\ Records' = Records /\ got' = got /\ paging' = paging /\ (at' = "replied" => at = "replied")
          /\ (paging = "offset" => Visible' \subseteq Visible)
      BY <1>1 DEF Quiet, Ordered, Records, Asking
    <2>2. paging = "offset" => \A i : Rank(Visible', i) <= Rank(Visible, i)
                                      /\ Rank(Visible', i) \in Nat /\ Rank(Visible, i) \in Nat
      BY <1>0, <2>1, RanksGrow DEF VisibleFacts
    <2>3. Len(got) \in Nat /\ Len(Records) \in Nat
      BY <1>t
    <2>4. paging = "offset" /\ got # <<>> => Rank(Visible', Last(got)) <= Len(got)
      BY <2>1, <2>2, <2>3 DEF Descent
    <2>5. paging = "offset" /\ at' = "replied" /\ Records # <<>> =>
             Rank(Visible', Last(Records)) <= Len(got) + Len(Records)
      BY <2>1, <2>2, <2>3 DEF Descent
    <2> QED BY <2>1, <2>4, <2>5 DEF Descent
  <1>2. CASE Select
    <2> SUFFICES ASSUME Ordered' PROVE Descent'
      BY DEF Descent
    <2>1. /\ UNCHANGED <<got, paging, moved, Visible>> /\ at = "counted" /\ at' = "replied"
          /\ Records' = <<>> \/ Records' = Page
      BY <1>2 DEF Select, client, data, Visible, Records, NoPage
    <2>2. Ordered
      BY <2>1 DEF Ordered
    <2>3. CASE Records' = <<>>
      BY <2>1, <2>2, <2>3 DEF Descent, Decreasing
    <2>4. CASE Records' = Page
      <3>1. /\ Decreasing(Page)
            /\ got # <<>> => \A k \in DOMAIN Page : Page[k] < Last(got)
            /\ paging = "offset" /\ Page # <<>> =>
                  Rank(Visible, Last(Page)) <= Len(got) + Len(Page)
        BY <2>1, <2>2, PageDescends
      <3>2. /\ Decreasing(got)
            /\ paging = "offset" /\ got # <<>> => Rank(Visible, Last(got)) <= Len(got)
        BY <2>2 DEF Descent
      <3> QED BY <2>1, <2>4, <3>1, <3>2 DEF Descent
    <2> QED BY <2>1, <2>3, <2>4
  <1>3. CASE Fault
    <2>1. /\ UNCHANGED <<got, paging, moved, Visible>> /\ Records' = <<>>
      BY <1>3 DEF Fault, client, data, Visible, Records, NoPage
    <2> QED BY <2>1 DEF Descent, Decreasing, Ordered
  <1>4. CASE Take
    <2> SUFFICES ASSUME Ordered' PROVE Descent'
      BY DEF Descent
    <2>1. /\ UNCHANGED <<paging, moved, Visible, reply>> /\ got' = got \o Records
          /\ at = "replied" /\ at' # "replied"
      BY <1>4 DEF Take, data, Visible, Records
    <2>2. Ordered
      BY <2>1 DEF Ordered
    <2>3. /\ Decreasing(got) /\ Decreasing(Records)
          /\ got # <<>> => \A k \in DOMAIN Records : Records[k] < Last(got)
          /\ paging = "offset" /\ got # <<>> => Rank(Visible, Last(got)) <= Len(got)
          /\ paging = "offset" /\ Records # <<>> =>
                Rank(Visible, Last(Records)) <= Len(got) + Len(Records)
      BY <2>1, <2>2 DEF Descent
    <2>4. Decreasing(got')
      BY <1>t, <2>1, <2>3, Together
    <2>5. paging = "offset" /\ got' # <<>> => Rank(Visible, Last(got')) <= Len(got')
      <3>1. CASE Records = <<>>
        BY <1>t, <2>1, <2>3, <3>1, Together
      <3>2. CASE Records # <<>>
        BY <1>t, <2>1, <2>3, <3>2, Together
      <3> QED BY <3>1, <3>2
    <2> QED BY <2>1, <2>4, <2>5 DEF Descent
  <1> QED BY <1>1, <1>2, <1>3, <1>4, OthersAreQuiet

LEMMA ProgressStep ==
    ASSUME ListTypes, Position, SchemaReady, Progress, ListNext, ListTypes'
    PROVE  Progress'
  <1>0. VisibleFacts /\ VisibleFacts' /\ steady \subseteq Visible /\ failed \in Nat
    <2>1. steady \subseteq Visible /\ failed \in Nat
      BY SizesAssumption DEF ListTypes, ListTypeOK
    <2> QED BY <2>1, VisibleIsFinite
  <1>t. /\ got \in Seq(Ids) /\ Records \in Seq(Ids) /\ paging \in {"cursor", "offset"}
        /\ Len(got) \in Nat /\ PageSize \in Nat \ {0} /\ list \in {"submissions", "problems"}
    BY SizesAssumption DEF ListTypes, ListTypeOK, Records
  <1>1. CASE Quiet
    <2> SUFFICES ASSUME Complete', NEW i \in steady'
                 PROVE  \/ i \in ToSet(got')
                        \/ at' \in {"idle", "ready", "counted"} /\ Ahead(i)'
                        \/ at' = "replied" /\ (i \in ToSet(Records') \/ AheadOfPage(i)')
      BY DEF Progress
    <2>1. /\ Complete /\ i \in steady /\ Records' = Records /\ got' = got /\ paging' = paging
          /\ at' = at \/ {at, at'} \subseteq Asking
          /\ paging = "offset" => Visible \subseteq Visible'
      BY <1>1, <1>t DEF Quiet, Complete, Records
    <2>2. paging = "offset" => Rank(Visible, i) <= Rank(Visible', i)
                               /\ Rank(Visible', i) \in Nat /\ Rank(Visible, i) \in Nat
      BY <1>0, <2>1, RanksGrow DEF VisibleFacts
    <2>3. Ahead(i) => Ahead(i)'
      BY <1>t, <2>1, <2>2 DEF Ahead
    <2>4. AheadOfPage(i) => AheadOfPage(i)'
      BY <1>t, <2>1, <2>2 DEF AheadOfPage
    <2> QED BY <2>1, <2>3, <2>4 DEF Progress, Asking
  <1>2. CASE Select
    <2> SUFFICES ASSUME Complete', NEW i \in steady'
                 PROVE  \/ i \in ToSet(got')
                        \/ i \in ToSet(Records')
                        \/ AheadOfPage(i)'
      BY <1>2 DEF Progress, Select
    <2>1. /\ Complete /\ UNCHANGED <<got, paging, list, Visible>> /\ at = "counted" /\ i \in steady
      BY <1>2 DEF Select, client, data, Visible, Complete
    <2>2. Records' = Page
      <3>1. list = "problems" => Needed \subseteq columns
        BY <2>1 DEF SchemaReady, Complete
      <3> QED BY <1>2, <3>1 DEF Select, Records
    <2>3. i \in ToSet(got) \/ Ahead(i)
      BY <2>1 DEF Progress
    <2>4. ASSUME Ahead(i) PROVE i \in ToSet(Records') \/ AheadOfPage(i)'
      <3>1. \/ i \in ToSet(Page)
            \/ /\ Len(Page) = PageSize
               /\ IF paging = "cursor" THEN i < Last(Page)
                  ELSE Rank(Visible, i) > Len(got) + PageSize
        BY <1>0, <2>1, <2>4, PageAdvances
      <3> QED BY <2>1, <2>2, <3>1 DEF AheadOfPage
    <2> QED BY <2>1, <2>3, <2>4
  <1>3. CASE Fault
    <2>1. failed' # 0
      BY <1>0, <1>3 DEF Fault
    <2> QED BY <2>1 DEF Progress, Complete
  <1>4. CASE Take
    <2> SUFFICES ASSUME Complete', NEW i \in steady'
                 PROVE  i \in ToSet(got') \/ (at' = "idle" /\ Ahead(i)')
      BY DEF Progress
    <2>1. /\ Complete /\ UNCHANGED <<paging, Visible>> /\ got' = got \o Records /\ i \in steady
          /\ at = "replied" /\ at' = IF Len(Records) < PageSize THEN "done" ELSE "idle"
      BY <1>4 DEF Take, data, Visible, Records, Complete
    <2>2. i \in ToSet(got) \/ i \in ToSet(Records) \/ AheadOfPage(i)
      BY <2>1 DEF Progress
    <2>3. CASE i \in ToSet(got) \/ i \in ToSet(Records)
      <3>1. i \in ToSet(got \o Records)
        BY <1>t, <2>3, Together
      <3> QED BY <2>1, <3>1
    <2>4. CASE AheadOfPage(i)
      <3>1. Len(Records) = PageSize /\ Records # <<>> /\ at' = "idle"
        BY <1>t, <2>1, <2>4 DEF AheadOfPage
      <3>2. got' # <<>> /\ Last(got') = Last(Records) /\ Len(got') = Len(got) + PageSize
        BY <1>t, <2>1, <3>1, Together
      <3>3. Ahead(i)'
        BY <2>1, <2>4, <3>2 DEF Ahead, AheadOfPage
      <3> QED BY <3>1, <3>3
    <2> QED BY <2>2, <2>3, <2>4
  <1> QED BY <1>1, <1>2, <1>3, <1>4, OthersAreQuiet

-----------------------------------------------------------------------------
LEMMA ListInitInv == ListInit => ListInv
  <1> SUFFICES ASSUME ListInit PROVE ListInv
    OBVIOUS
  <1>1. ListTypes
    BY SizesAssumption, AddedFacts DEF ListInit, ListTypes, ListTypeOK, Ids, Visible, NoPage
  <1>2. Position
    <2>1. Len(<<>>) = 0 /\ \A a \in Int : (1 - 1) * a = 0
      OBVIOUS
    <2>2. pageNum = 1 /\ cursor = 0 /\ got = <<>>
      BY DEF ListInit
    <2> QED BY <2>1, <2>2, SizesAssumption DEF Position
  <1>3. SchemaReady
    BY DEF ListInit, SchemaReady
  <1>4. Descent
    BY DEF ListInit, Descent, Decreasing
  <1>5. Progress
    <2> SUFFICES ASSUME NEW i \in steady PROVE Ahead(i)
      BY DEF ListInit, Progress
    <2>1. i \in Visible /\ got = <<>> /\ VisibleFacts
      BY <1>1, VisibleIsFinite DEF ListInit
    <2>2. Rank(Visible, i) \in 1..Cardinality(Visible)
      BY <2>1, RankFacts DEF VisibleFacts
    <2>3. Len(<<>>) = 0
      OBVIOUS
    <2> QED BY <2>1, <2>2, <2>3 DEF Ahead
  <1> QED BY <1>1, <1>2, <1>3, <1>4, <1>5 DEF ListInv

LEMMA ListInvStep == ListInv /\ [ListNext]_listVars => ListInv'
  <1> SUFFICES ASSUME ListInv, [ListNext]_listVars PROVE ListInv'
    OBVIOUS
  <1>1. CASE ListNext
    <2>1. ListTypes'
      BY <1>1, TypesStep DEF ListInv
    <2> QED BY <1>1, <2>1, PositionStep, SchemaStep, DescentStep, ProgressStep DEF ListInv
  <1>2. CASE UNCHANGED listVars
    <2> USE <1>2 DEF listVars, table, data, client
    <2>1. Visible' = Visible /\ Records' = Records
      BY DEF Visible, Records
    <2>2. ListTypes'
      BY DEF ListInv, ListTypes, ListTypeOK, Visible
    <2>3. Position' /\ SchemaReady'
      BY DEF ListInv, Position, SchemaReady
    <2>4. Descent'
      BY <2>1 DEF ListInv, Descent, Ordered
    <2>5. Progress'
      BY <2>1 DEF ListInv, Progress, Complete, Ahead, AheadOfPage
    <2> QED BY <2>2, <2>3, <2>4, <2>5 DEF ListInv
  <1> QED BY <1>1, <1>2

THEOREM ListInvHolds == ListSpec => []ListInv
  BY ListInitInv, ListInvStep, PTL DEF ListSpec

(* Whatever the rows do meanwhile, the request and the client's place in the list
   are what their declarations say; a page is never longer than was asked for. *)
THEOREM ListTypesCorrect == ListSpec => []ListTypeOK
  <1>1. ListInv => ListTypeOK
    BY DEF ListInv, ListTypes
  <1> QED BY <1>1, ListInvHolds, PTL

(* list_my_submissions and list_problems: for any page size, no row comes twice to
   a client that pages by lastId, and by pageNum only once a row began to match. *)
THEOREM NoRowTwiceHolds == ListSpec => []NoRowTwice
  <1>1. ListInv => NoRowTwice
    BY DEF ListInv, Descent, Ordered, Decreasing, NoRowTwice
  <1> QED BY <1>1, ListInvHolds, PTL

(* A client that reaches the last page has every row that matched all along, unless
   a statement failed or, by pageNum, a row ceased to match. *)
THEOREM NoSteadyRowMissedHolds == ListSpec => []NoSteadyRowMissed
  <1>1. ListInv => NoSteadyRowMissed
    BY DEF ListInv, Progress, Complete, NoSteadyRowMissed
  <1> QED BY <1>1, ListInvHolds, PTL
=============================================================================
