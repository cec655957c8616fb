------------------------------ MODULE TaskLog ------------------------------
(***************************************************************************)
(* One gateway's task log: task_log.rs over PostgreSQL, with the web      *)
(* dashboard's poller (web/projects.rs, task_log_partial) as its reader.  *)
(*                                                                        *)
(* append_with_status is ONE statement, INSERT ... (SELECT MAX(cursor)+1) *)
(* RETURNING cursor.  db.rs opens a pool of connections at PostgreSQL's   *)
(* default isolation level, READ COMMITTED, and the table has no UNIQUE   *)
(* constraint on (project_id, cursor): the subquery reads the rows that   *)
(* are committed when the statement starts, and the new row becomes       *)
(* visible when it commits.  Other statements run in between, so the      *)
(* append is two actions, BeginAppend and CommitAppend.                   *)
(***************************************************************************)
EXTENDS LogEntries, FiniteSets

CONSTANTS
    Writers,      \* concurrent callers of append (handlers, onboarding tasks)
    Projects,
    Ids,          \* UUIDs
    PeerCursors   \* cursors that entries delivered by peer sync may carry

ASSUME PeerCursorsAssumption == PeerCursors \subseteq Nat \ {0}

VARIABLES
    rows,         \* committed rows of task_log
    inflight,     \* INSERT statements that have read MAX and not committed
    viewer        \* per project: the poller's `after` and the ids it was sent

vars == <<rows, inflight, viewer>>

Local == "local"  \* gateway_name of the entries this gateway appends
Peer  == "peer"   \* gateway_name of the entries peer sync brought in

\* before is a history field, not a column: the ids that were committed in the
\* project when the INSERT of the row started.
Row == [id : Ids, project : Projects, gateway : {Local, Peer}, cursor : Nat,
        before : SUBSET Ids]

TypeOK ==
    /\ rows \subseteq Row
    /\ inflight \in [Writers -> SUBSET Row]
    /\ viewer \in [Projects -> [after : Nat, seen : SUBSET Ids]]

Init ==
    /\ rows = {}
    /\ inflight = [w \in Writers |-> {}]
    /\ viewer = [p \in Projects |-> [after |-> 0, seen |-> {}]]

Pending == UNION {inflight[w] : w \in Writers}
IdsOf(R) == {r.id : r \in R}

\* append / append_with_status, first half: a fresh UUID, and the subquery
\* evaluated on the committed rows.
BeginAppend(w, p, id) ==
    /\ inflight[w] = {}
    /\ id \notin IdsOf(rows \cup Pending)
    /\ inflight' = [inflight EXCEPT ![w] =
           {[id |-> id, project |-> p, gateway |-> Local,
             cursor |-> next_cursor(rows, p),
             before |-> IdsOf(of_project(rows, p))]}]
    /\ UNCHANGED <<rows, viewer>>

\* Second half: the row becomes visible and RETURNING gives the cursor back.
CommitAppend(w) ==
    /\ inflight[w] # {}
    /\ rows' = rows \cup inflight[w]
    /\ inflight' = [inflight EXCEPT ![w] = {}]
    /\ UNCHANGED viewer

\* The statement fails ("insert log entry" error) or the gateway stops.
FailAppend(w) ==
    /\ inflight[w] # {}
    /\ inflight' = [inflight EXCEPT ![w] = {}]
    /\ UNCHANGED <<rows, viewer>>

PeerRow(p, id, c) ==
    [id |-> id, project |-> p, gateway |-> Peer, cursor |-> c,
     before |-> IdsOf(of_project(rows, p))]

\* insert_peer_entry: the peer's cursor is kept, ON CONFLICT (id) DO NOTHING.
\* Nothing of the log is read, so the INSERT and its commit are one step.
\* (UUIDs of peers and of in-flight local appends never collide.)
insert_peer_entry(p, id, c) ==
    /\ id \notin IdsOf(Pending)
    /\ rows' = IF id \in IdsOf(rows)
               THEN rows
               ELSE rows \cup {PeerRow(p, id, c)}
    /\ UNCHANGED <<inflight, viewer>>

\* task_log_partial: the page asks for `after` and receives next_cursor, the
\* cursor of the last entry sent, to ask with ten seconds later.
task_log_partial(p) ==
    LET entries == since(rows, p, viewer[p].after)
    IN  /\ viewer' = [viewer EXCEPT ![p] =
               [after |-> IF entries = {} THEN @.after ELSE head_cursor(entries, p),
                seen  |-> @.seen \cup IdsOf(entries)]]
        /\ UNCHANGED <<rows, inflight>>

Next ==
    \/ \E w \in Writers, p \in Projects, id \in Ids : BeginAppend(w, p, id)
    \/ \E w \in Writers : CommitAppend(w)
    \/ \E w \in Writers : FailAppend(w)
    \/ \E p \in Projects, id \in Ids, c \in PeerCursors : insert_peer_entry(p, id, c)
    \/ \E p \in Projects : task_log_partial(p)

Spec == Init /\ [][Next]_vars

-----------------------------------------------------------------------------
(* What holds for any number of writers and any peer entries.             *)

\* An append that starts after another entry of the project was committed
\* gets a larger cursor than that entry: within what a caller can observe,
\* cursors of append_with_status follow real time, even when appends overlap
\* and peer entries arrive (task_log.rs, SELECT MAX(cursor) + 1).
RealTimeOrder ==
    \A r, s \in rows : r.gateway = Local /\ s.id \in r.before => s.cursor < r.cursor

\* A locally appended entry never opens a gap: unless it is the first of its
\* project, some entry of the project holds the cursor just below.  Overlapping
\* appends may repeat a cursor but never skip one.
NoGapBelowAppend ==
    \A r \in rows : r.gateway = Local /\ r.cursor > 1 =>
        \E s \in of_project(rows, r.project) : s.cursor = r.cursor - 1

\* The local append r was in flight when s was committed: neither INSERT saw the
\* other's row.
Overlap(r, s) ==
    r.gateway = Local /\ s.id \notin r.before /\ r.id \notin s.before

\* A peer delivered r when s was in the log already.
DeliveredAfter(r, s) == r.gateway = Peer /\ s.id \in r.before

\* The poller of task_log_partial may pass an entry it was never sent, in two
\* ways only: a local append that was in flight while an entry with a cursor no
\* smaller was committed and sent, or a peer's entry delivered when such an entry
\* was in the log already.  Whatever is committed before another entry starts is
\* never lost between two polls.
MissedOnlyLate ==
    \A r \in rows :
        r.cursor <= viewer[r.project].after /\ r.id \notin viewer[r.project].seen =>
            \E s \in of_project(rows, r.project) :
                /\ s.id \in viewer[r.project].seen
                /\ r.cursor <= s.cursor
                /\ Overlap(r, s) \/ DeliveredAfter(r, s)

\* Entries are never updated or deleted (task_log.rs, header), not even when
\* peer sync delivers an id a second time with other columns.
AppendOnly == [][rows \subseteq rows']_vars

-----------------------------------------------------------------------------
(* What holds only while appends of a project never overlap and no peer   *)
(* entry arrives.                                                         *)

\* Each write gets its own cursor.
UniqueCursors ==
    \A r, s \in rows : r.project = s.project /\ r.cursor = s.cursor => r = s

\* Delta reading loses nothing: whatever the poller's cursor has passed was
\* sent to it.
ViewerComplete ==
    \A r \in rows :
        r.cursor <= viewer[r.project].after => r.id \in viewer[r.project].seen
=============================================================================
