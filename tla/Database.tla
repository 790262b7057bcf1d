------------------------------ MODULE Database ------------------------------
(* sqlite/: the connection and a statement as any client may use them, and the *)
(* statements of updateSessionList() and of the writers of the logs            *)
(* (DefaultEffector::logState(), TempSensor::writeTempLog()). Each call of     *)
(* SQLite may fail.                                                            *)
EXTENDS Integers, Sequences

CONSTANTS
    Query,          \* the text of a query
    Columns,        \* the names of a query's columns, in their order
    Rows,           \* how many rows it returns
    Session,        \* the sessions that may be active
    MaxErrors       \* bound: calls of SQLite that fail

VARIABLES
    db,         \* db_: "closed", "open", or "broken" after an open that failed
    stmt,       \* the statement object of a client
    handles,    \* sqlite3_stmt objects that have not been finalised
    answer,     \* what its column() last returned, and what it was asked for
    list,       \* updateSessionList(): where it is, rows to come, what it returns
    sessions,   \* sessions_
    wanted,     \* the active sessions
    log,        \* where logState() or writeTempLog() is
    errors      \* calls that may still fail

vars == <<db, stmt, handles, answer, list, sessions, wanted, log, errors>>

(***************************************************************************)
(* SQLiteStmt. query is NoQuery while stmt_ is NULL; row is 0 when there   *)
(* is no current row.                                                      *)
(***************************************************************************)
NoQuery == "none"
DatabaseAssumption == NoQuery \notin Query /\ MaxErrors \in Nat /\ Rows \in [Query -> Nat]

NewStmt  == [query |-> NoQuery, row |-> 0, names |-> <<>>, firstStepDone |-> FALSE]
NoList   == [at |-> "idle", todo |-> {}, ok |-> FALSE, err |-> FALSE]
NoAnswer == [asked |-> "none", name |-> "none", row |-> 0, query |-> NoQuery]

Init == /\ db = "closed" /\ stmt = NewStmt /\ handles = 0 /\ answer = NoAnswer
          /\ list = NoList /\ sessions = {} /\ wanted \in SUBSET Session
          /\ log = "idle" /\ errors = MaxErrors

Fails    == errors > 0 /\ errors' = errors - 1
Succeeds == UNCHANGED errors

\* Mutant: stmt_ is not set to NULL.
Finalise_KeepsPointer(s) == s

Finalise(s) == IF s.query = NoQuery THEN s ELSE NewStmt

\* open(): an attempt that fails leaves a handle, and isOpen() is true.
Open ==
    /\ \/ Succeeds /\ db' = "open"
       \/ Fails /\ db' = "broken"
    /\ UNCHANGED <<stmt, handles, answer, list, sessions, wanted, log>>

\* close_v2() keeps a session alive that has statements; it does not fail.
Close == db # "closed" /\ db' = "closed"
         /\ UNCHANGED <<stmt, handles, answer, list, sessions, wanted, log, errors>>

\* Mutant: the statement that the object had is not finalised.
Prepare_NoFinalise ==
    /\ db = "open" /\ Succeeds
    /\ \E q \in Query : stmt' = [NewStmt EXCEPT !.query = q]
    /\ handles' = handles + 1
    /\ UNCHANGED <<db, answer, list, sessions, wanted, log>>

\* Mutant: the names of the columns stay.
Prepare_KeepsNames ==
    /\ db = "open" /\ Succeeds
    /\ \E q \in Query : stmt' = [stmt EXCEPT !.query = q, !.row = 0]
    /\ handles' = handles + (IF stmt.query = NoQuery THEN 1 ELSE 0)
    /\ UNCHANGED <<db, answer, list, sessions, wanted, log>>

Prepare ==
    /\ \E q \in Query :
          \/ /\ db = "closed"       \* stmt keeps what it had
             /\ UNCHANGED <<stmt, handles, errors>>
          \/ /\ db = "open" /\ Succeeds
             /\ stmt' = [NewStmt EXCEPT !.query = q]
             /\ handles' = handles + (IF stmt.query = NoQuery THEN 1 ELSE 0)
          \/ /\ db # "closed"
             /\ IF db = "open" THEN Fails ELSE UNCHANGED errors
             /\ stmt' = Finalise(stmt)
             /\ handles' = handles - (IF stmt.query = NoQuery THEN 0 ELSE 1)
    /\ UNCHANGED <<db, answer, list, sessions, wanted, log>>

\* stepWrapper(): step() and execute() differ in what they make of the end. A step
\* after the end begins anew; the names are built at the first row.
StepTo(s, row) ==
    [s EXCEPT !.row = row,
              !.firstStepDone = @ \/ row > 0,
              !.names = IF row > 0 /\ ~s.firstStepDone THEN Columns[s.query] ELSE @]

Step ==
    /\ stmt.query # NoQuery
    /\ \/ Succeeds /\ stmt' = StepTo(stmt, IF stmt.row < Rows[stmt.query] THEN stmt.row + 1 ELSE 0)
       \/ Fails /\ stmt' = StepTo(stmt, 0)
    /\ UNCHANGED <<db, handles, answer, list, sessions, wanted, log>>

\* reset() forgets the names only if the last step did not fail.
Reset ==
    /\ \/ Succeeds /\ stmt' = [stmt EXCEPT !.row = 0, !.names = <<>>, !.firstStepDone = FALSE]
       \/ Fails /\ stmt' = [stmt EXCEPT !.row = 0]
    /\ UNCHANGED <<db, handles, answer, list, sessions, wanted, log>>

\* column(name): the place is looked up in the names, and read of the current row;
\* without a row the column is NULL.
Column ==
    /\ \E q \in Query, i \in 1 .. 2 :
        /\ i <= Len(Columns[q])
        /\ LET asked  == Columns[q][i]
               places == {p \in DOMAIN stmt.names : stmt.names[p] = asked}
           IN  answer' = IF places = {} \/ stmt.row = 0 THEN [NoAnswer EXCEPT !.asked = asked]
                         ELSE [asked |-> asked, query |-> stmt.query, row |-> stmt.row,
                               name |-> Columns[stmt.query][CHOOSE p \in places : TRUE]]
    /\ UNCHANGED <<db, stmt, handles, list, sessions, wanted, log, errors>>

\* The object's end.
Destruct ==
    /\ stmt.query # NoQuery
    /\ stmt' = Finalise(stmt)
    /\ handles' = handles - 1
    /\ UNCHANGED <<db, answer, list, sessions, wanted, log, errors>>

(***************************************************************************)
(* updateSessionList(): its statement is finalised when it returns.        *)
(***************************************************************************)
Return(ok, err) == /\ list' = [at |-> "returned", todo |-> {}, ok |-> ok, err |-> err]
                   /\ handles' = handles - 1

ListPrepare ==
    /\ list.at \in {"idle", "returned"}
    /\ \/ /\ db = "open" /\ Succeeds
          /\ list' = [at |-> "listing", todo |-> wanted, ok |-> FALSE, err |-> FALSE]
          /\ handles' = handles + 1
       \/ /\ IF db = "open" THEN Fails ELSE UNCHANGED errors
          /\ list' = [at |-> "returned", todo |-> {}, ok |-> FALSE, err |-> TRUE]
          /\ UNCHANGED handles
    /\ UNCHANGED <<db, stmt, answer, sessions, wanted, log>>

\* Mutant: a step that fails is taken for the end.
ListStep_ErrorIsEnd ==
    /\ list.at = "listing"
    /\ \/ /\ Succeeds
          /\ \E id \in list.todo : /\ sessions' = sessions \cup {id}
                                  /\ list' = [list EXCEPT !.todo = @ \ {id}]
          /\ UNCHANGED handles
       \/ (Fails \/ (Succeeds /\ list.todo = {})) /\ Return(TRUE, FALSE) /\ UNCHANGED sessions
    /\ UNCHANGED <<db, stmt, answer, wanted, log>>

ListStep ==
    /\ list.at = "listing"
    /\ \/ \E id \in list.todo :
            \/ /\ Succeeds
               /\ sessions' = sessions \cup {id}
               /\ list' = [list EXCEPT !.todo = @ \ {id}]
               /\ UNCHANGED handles
            \/ /\ id \notin sessions /\ Fails       \* Session::Session() fails
               /\ Return(FALSE, TRUE) /\ UNCHANGED sessions
       \/ /\ list.todo = {} /\ Succeeds
          /\ Return(TRUE, FALSE) /\ UNCHANGED sessions
       \/ /\ Fails
          /\ Return(TRUE, TRUE) /\ UNCHANGED sessions
    /\ UNCHANGED <<db, stmt, answer, wanted, log>>

\* A session comes or goes between two calls.
Schedule ==
    /\ list.at # "listing"
    /\ wanted' \in SUBSET Session /\ wanted' # wanted
    /\ list' = NoList
    /\ UNCHANGED <<db, stmt, handles, answer, sessions, log, errors>>

(***************************************************************************)
(* prepare() && bind() && bind() && execute(): the first that fails is the *)
(* last that is called. An INSERT has no row: its first step is the end,   *)
(* which execute() takes for success.                                      *)
(***************************************************************************)
LogTo(next, opened) == log' = next /\ handles' = handles + opened

LogPrepare ==
    /\ log = "idle"
    /\ \/ db = "open" /\ Succeeds /\ LogTo("prepared", 1)
       \/ db = "open" /\ Fails /\ LogTo("idle", 0)
    /\ UNCHANGED <<db, stmt, answer, list, sessions, wanted>>

LogBind ==
    /\ log = "prepared"
    /\ \/ Succeeds /\ LogTo("bound", 0)
       \/ Fails /\ LogTo("idle", -1)
    /\ UNCHANGED <<db, stmt, answer, list, sessions, wanted>>

LogExecute ==
    /\ log = "bound"
    /\ (Succeeds \/ Fails) /\ LogTo("idle", -1)
    /\ UNCHANGED <<db, stmt, answer, list, sessions, wanted>>

Next == Open \/ Close \/ Prepare \/ Step \/ Reset \/ Column \/ Destruct
          \/ ListPrepare \/ ListStep \/ Schedule
          \/ LogPrepare \/ LogBind \/ LogExecute
Spec == Init /\ [][Next]_vars

TypeOK ==
    /\ db \in {"closed", "open", "broken"}
    /\ stmt.query \in Query \cup {NoQuery} /\ stmt.firstStepDone \in BOOLEAN
    /\ stmt.query # NoQuery => stmt.row \in 0 .. Rows[stmt.query]
    /\ handles \in 0 .. 3 /\ log \in {"idle", "prepared", "bound"}
    /\ list.todo \cup sessions \cup wanted \subseteq Session
    /\ errors \in 0 .. MaxErrors

\* sqlitestmt.cc:245, 317: a column that is asked for by its name is that column of the
\* current row of the current query, or NULL: the names of a query that the
\* statement had before are never used, whatever was prepared, stepped, reset or failed.
ColumnIsTheOneNamed == answer.query # NoQuery => answer.name = answer.asked

\* sqlite.cc:86, sqlitestmt.cc:260: each statement of SQLite is finalised once: none is
\* left when an object is prepared again, goes, or a function returns early.
NothingLeaks ==
    handles = (IF stmt.query = NoQuery THEN 0 ELSE 1) + (IF list.at = "listing" THEN 1 ELSE 0)
                                                       + (IF log = "idle" THEN 0 ELSE 1)

\* sessionmanager.cc:74: updateSessionList() returns true at the end of the list and
\* after an error in the middle of it; but a call without an error has all sessions.
ListedOrError == list.at = "returned" /\ ~list.err => list.ok /\ wanted \subseteq sessions
=============================================================================
