------------------------------- MODULE Listing -------------------------------
(***************************************************************************)
(* list_my_submissions and list_problems have one shape: COUNT, then SELECT *)
(* of one page, newest first, by OFFSET or, with lastId, below a cursor.    *)
(* list_problems first adds the columns an old database lacks. Here one     *)
(* client pages through a filtered list either way, as docs/api.md          *)
(* describes it, while rows are inserted and start or stop matching the     *)
(* filter (a verdict, a problem made invisible) and other processes add     *)
(* the columns too.                                                         *)
(*                                                                         *)
(* The client is not part of the repository and is marked external. The     *)
(* specification is ListSpec, and so on, so that ApiProofs can extend this  *)
(* module and Accounts.                                                     *)
(***************************************************************************)
EXTENDS Integers, Sequences, SequencesExt, FiniteSets

CONSTANTS MaxId, PageSize, MaxFaults
ASSUME SizesAssumption == MaxId \in Nat /\ PageSize \in Nat \ {0} /\ MaxFaults \in Nat

VARIABLES
    list,       \* which list it is: "submissions" or "problems"
    paging,     \* how the client pages: "cursor" (lastId) or "offset" (pageNum)
    columns,    \* the columns of Added that the table has
    step,       \* where ensure_problem_schema is: <<column, "ask" or "alter">>
    rows,       \* the committed rows: a set of ids
    pending,    \* ids given out by AUTO_INCREMENT to inserts not committed yet
    matching,   \* the ids whose row satisfies the filter
    at,         \* where the request is
    total,      \* what COUNT found
    reply,      \* the last answer
    got,        \* what the client has so far, in order
    cursor,     \* its lastId; 0 at first, and always with "offset"
    pageNum,    \* its pageNum; always 1 with "cursor"
    steady,     \* history: the rows that have matched since the scan began
    moved,      \* history: "grew" or "shrank", once a row began or ceased to match
    failed      \* history: the statements the database failed for good

table  == <<columns, step>>
data   == <<rows, pending, matching>>
client == <<list, paging, got, cursor, pageNum>>
listVars == <<table, data, client, at, total, reply, steady, moved, failed>>

Added   == <<"problem_type", "judge_mode", "extra_code">>
Needed  == {"problem_type", "judge_mode"}       \* those the SELECT of a page names
Ids     == 1..MaxId
Visible == rows \cap matching
NoPage  == [code |-> 0, total |-> 0, records |-> <<>>]

ListInit ==
    /\ list \in {"submissions", "problems"} /\ paging \in {"cursor", "offset"}
    /\ columns \in SUBSET ToSet(Added) /\ (list = "submissions" => columns = {})
    /\ step = <<1, "ask">>
    /\ \E n \in 0..MaxId : rows = 1..n
    /\ matching \in SUBSET rows /\ pending = {} /\ at = "idle"
    /\ total = 0 /\ reply = NoPage /\ got = <<>> /\ cursor = 0 /\ pageNum = 1
    /\ steady = Visible /\ moved = {} /\ failed = 0

-----------------------------------------------------------------------------
(* The rows move on. An id is given out before its row is committed. *)
Begin ==
    /\ \E id \in Ids \ (rows \cup pending) :
          /\ \A old \in rows \cup pending : old < id
          /\ \A other \in Ids \ (rows \cup pending) : id <= other
          /\ pending' = pending \cup {id}
    /\ UNCHANGED <<table, rows, matching, client, at, total, reply, steady, moved, failed>>

Commit(id) ==
    /\ id \in pending
    /\ pending' = pending \ {id} /\ rows' = rows \cup {id} /\ matching' = matching \cup {id}
    /\ moved' = moved \cup {"grew"}
    /\ UNCHANGED <<table, client, at, total, reply, steady, failed>>

Rematch(id) ==
    /\ id \in rows
    /\ IF id \in matching
       THEN matching' = matching \ {id} /\ moved' = moved \cup {"shrank"}
       ELSE matching' = matching \cup {id} /\ moved' = moved \cup {"grew"}
    /\ steady' = steady \ {id}
    /\ UNCHANGED <<table, rows, pending, client, at, total, reply, failed>>

(* Another process, or another request of this one, adds a column. *)
OthersAdd ==
    /\ list = "problems"
    /\ \E c \in ToSet(Added) \ columns : columns' = columns \cup {c}
    /\ UNCHANGED <<step, data, client, at, total, reply, steady, moved, failed>>

-----------------------------------------------------------------------------
(* list_problems asks for each column and, where it finds none, adds it. The
   question answers "no" also when it fails; the answer of ALTER is not read. *)
NextColumn == step' = IF step[1] = Len(Added) THEN <<1, "ask">> ELSE <<step[1] + 1, "ask">>
SchemaDone == at' = IF step[1] = Len(Added) THEN "ready" ELSE at

AskColumn ==
    /\ list = "problems" /\ at = "idle" /\ step[2] = "ask"
    /\ \/ Added[step[1]] \in columns /\ NextColumn /\ SchemaDone
       \/ step' = <<step[1], "alter">> /\ at' = at      \* no such column, or the query failed
    /\ UNCHANGED <<columns, data, client, total, reply, steady, moved, failed>>

BugAddOneColumn ==  \* a bug: a database that lacked a column is taken for brought up to date
    /\ at = "idle" /\ step[2] = "alter"
    /\ columns' = columns \cup {Added[step[1]]}
    /\ step' = <<1, "ask">> /\ at' = "ready"
    /\ UNCHANGED <<data, client, total, reply, steady, moved, failed>>

AddColumn ==        \* MySQL refuses a column the table has by now
    /\ at = "idle" /\ step[2] = "alter"
    /\ columns' = columns \cup {Added[step[1]]}
    /\ NextColumn /\ SchemaDone
    /\ UNCHANGED <<data, client, total, reply, steady, moved, failed>>

AddFails ==
    /\ at = "idle" /\ step[2] = "alter" /\ failed < MaxFaults
    /\ failed' = failed + 1
    /\ NextColumn /\ SchemaDone
    /\ UNCHANGED <<columns, data, client, total, reply, steady, moved>>

-----------------------------------------------------------------------------
(* The request: COUNT and SELECT are two statements with nothing around them. *)
AtLeast(S, id) == {i \in S : i >= id}

(* ORDER BY id DESC: the k-th row has k rows at or above it. *)
Newest(S) == [k \in 1..Cardinality(S) |->
                 CHOOSE id \in S : Cardinality(AtLeast(S, id)) = k]
Limit(s, n) == SubSeq(s, 1, IF Len(s) < n THEN Len(s) ELSE n)

Skip(s, n)  == SubSeq(s, n + 1, Len(s))

BugPageWithOffset ==                \* a bug: the cursor and the OFFSET of the page after it
    IF cursor > 0 THEN Limit(Skip(Newest({i \in Visible : i < cursor}), PageSize), PageSize)
    ELSE Limit(Skip(Newest(Visible), (pageNum - 1) * PageSize), PageSize)

BugPageAtCursor ==                  \* a bug: id <= cursor
    IF cursor > 0 THEN Limit(Newest({i \in Visible : i <= cursor}), PageSize)
    ELSE Limit(Skip(Newest(Visible), (pageNum - 1) * PageSize), PageSize)

BugPageOneMore ==                   \* a bug: one row more, to see whether there is a next page
    IF cursor > 0 THEN Limit(Newest({i \in Visible : i < cursor}), PageSize + 1)
    ELSE Limit(Skip(Newest(Visible), (pageNum - 1) * PageSize), PageSize + 1)

Page ==
    IF cursor > 0 THEN Limit(Newest({i \in Visible : i < cursor}), PageSize)
    ELSE Limit(Skip(Newest(Visible), (pageNum - 1) * PageSize), PageSize)

Count ==
    /\ at = IF list = "problems" THEN "ready" ELSE "idle"
    /\ at' = "counted" /\ total' = Cardinality(Visible)
    /\ UNCHANGED <<table, data, client, reply, steady, moved, failed>>

Select ==
    /\ at = "counted"
    /\ reply' = IF list = "problems" /\ ~(Needed \subseteq columns) THEN NoPage
                ELSE [code |-> 0, total |-> total, records |-> Page]
    /\ at' = "replied"
    /\ UNCHANGED <<table, data, client, total, steady, moved, failed>>

(* No connection, or a statement fails: an empty page object is returned, and
   the route answers it like any other page. *)
Fault ==
    /\ failed < MaxFaults
    /\ at \in {"ready", "counted"} \/ (at = "idle" /\ step = <<1, "ask">>)
    /\ reply' = NoPage /\ failed' = failed + 1
    /\ at' = "replied"
    /\ UNCHANGED <<table, data, client, total, steady, moved>>

(* The client keeps what it got; a short page is the last one. *)
Take ==
    /\ at = "replied"
    /\ got' = got \o reply.records
    /\ at' = IF Len(reply.records) < PageSize THEN "done" ELSE "idle"
    /\ IF paging = "cursor" /\ reply.records # <<>>
       THEN cursor' = Last(reply.records) /\ UNCHANGED pageNum
       ELSE pageNum' = pageNum + (IF paging = "offset" THEN 1 ELSE 0) /\ UNCHANGED cursor
    /\ UNCHANGED <<table, data, list, paging, total, reply, steady, moved, failed>>

-----------------------------------------------------------------------------
Request == AskColumn \/ AddColumn \/ Count \/ Select \/ Take
ListNext == \/ Begin \/ OthersAdd \/ Request \/ AddFails \/ Fault
        \/ \E id \in Ids : Commit(id) \/ Rematch(id)

ListSpec == ListInit /\ [][ListNext]_listVars /\ WF_listVars(Request)

-----------------------------------------------------------------------------
ListTypeOK ==
    /\ rows \subseteq Ids /\ pending \subseteq Ids \ rows /\ matching \subseteq rows
    /\ at \in {"idle", "ready", "counted", "replied", "done"}
    /\ list \in {"submissions", "problems"} /\ paging \in {"cursor", "offset"}
    /\ columns \subseteq ToSet(Added) /\ step \in (DOMAIN Added) \X {"ask", "alter"}
    /\ cursor \in 0..MaxId /\ pageNum \in Nat /\ (cursor = 0 \/ pageNum = 1)
    /\ total \in 0..MaxId /\ failed \in 0..MaxFaults /\ steady \subseteq Visible
    /\ moved \subseteq {"grew", "shrank"}
    /\ Len(reply.records) <= PageSize /\ reply.total \in 0..MaxId

(* Paging by lastId never returns a row twice, whatever is inserted, committed
   out of order or changed between the pages; paging by pageNum does so only
   once a row has begun to match, which pushes the others down. *)
NoRowTwice ==
    paging = "cursor" \/ "grew" \notin moved =>
        \A i, j \in DOMAIN got : i < j => got[i] > got[j]

(* When the client has the last page it has every row that matched the filter
   all the time, unless the database failed one of its statements or, with
   pageNum, a row has ceased to match, which pulls the others up. That another
   process is adding the same columns costs it nothing. *)
NoSteadyRowMissed ==
    at = "done" /\ failed = 0 /\ (paging = "cursor" \/ "shrank" \notin moved) =>
        steady \subseteq ToSet(got)

=============================================================================
