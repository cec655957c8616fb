---------------------------- MODULE LogEntries ----------------------------
(***************************************************************************)
(* Rows of the table task_log and the queries of task_log.rs over them.   *)
(* A row is a record with at least the fields id, project, gateway and    *)
(* cursor; content, agent and timestamps are fixed by the id (a UUID is   *)
(* issued once, with one content) and are not repeated.                   *)
(* Operators only: TaskLog and PeerLogSync build state machines on them.  *)
(***************************************************************************)
EXTENDS Integers

\* The rows of one project: WHERE project_id = $1.
of_project(rows, p) == {r \in rows : r.project = p}

\* r is a row of project p with the largest cursor.
IsHead(rows, p, r) ==
    /\ r \in of_project(rows, p)
    /\ \A s \in of_project(rows, p) : s.cursor <= r.cursor

\* TaskLog::head_cursor, SELECT COALESCE(MAX(cursor), 0).
head_cursor(rows, p) ==
    IF of_project(rows, p) = {}
    THEN 0
    ELSE (CHOOSE r \in of_project(rows, p) : IsHead(rows, p, r)).cursor

\* Mutant of next_cursor: MAX(cursor) without the increment.
next_cursor_NoIncrement(rows, p) ==
    IF head_cursor(rows, p) = 0 THEN 1 ELSE head_cursor(rows, p)

\* Mutant of next_cursor: the increment is applied twice.
next_cursor_Twice(rows, p) == head_cursor(rows, p) + 2

\* The subquery of append_with_status, SELECT COALESCE(MAX(cursor), 0) + 1.
next_cursor(rows, p) == head_cursor(rows, p) + 1

\* Mutant of since: the delta starts one entry too late.
since_OffByOne(rows, p, after) ==
    {r \in of_project(rows, p) : r.cursor > after + 1}

\* TaskLog::since, WHERE cursor > after.  Its ORDER BY matters only for the
\* last element of the result, the row with the largest cursor.
since(rows, p, after) == {r \in of_project(rows, p) : r.cursor > after}
=============================================================================
