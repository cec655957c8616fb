---------------------------- MODULE PeerLogSync ----------------------------
(***************************************************************************)
(* Replication of one project's task log between gateways: the puller of   *)
(* peer_sync.rs against sync_task_log of peer_server.rs.                   *)
(*                                                                         *)
(* Every gateway runs one loop.  It visits its configured peers in order;  *)
(* for a peer it reads the head of its OWN log, asks the peer for the      *)
(* entries above that cursor, stores the ones it accepts under their       *)
(* original cursor, and records the peer's head in peer_cursor_state.      *)
(* Each SQL statement and each half of the RPC is a step of its own;       *)
(* appends of all gateways run in between.  An append is the two steps it  *)
(* is in TaskLog: the INSERT reads MAX(cursor) when it starts, its row is  *)
(* visible when it commits, and other appends of the gateway and the       *)
(* inserts of its puller run in between.  Peers see the project in         *)
(* list_projects as soon as it exists (visibility public).                 *)
(***************************************************************************)
EXTENDS LogEntries, Sequences, FiniteSets

CONSTANTS
    Gateways,
    PeersOf,          \* gateway.toml: the sequence of peers each gateway pulls from
    Writers,          \* gateways whose agents append to the project
    Ids,              \* UUIDs of entries
    MaxFailures,      \* bound on sessions that end early, by an error or a crash
    MaxInsertFailures \* bound on insert_peer_entry errors, which .ok() swallows

ASSUME PeersAssumption == PeersOf \in [Gateways -> Seq(Gateways)]
ASSUME NoSelfPeering == \A g \in Gateways : \A n \in DOMAIN PeersOf[g] : PeersOf[g][n] # g
ASSUME WritersAssumption == Writers \subseteq Gateways
ASSUME SyncBounds == MaxFailures \in Nat /\ MaxInsertFailures \in Nat

VARIABLES
    local,        \* local[g]: g has a project of this name
    rows,         \* rows[g]: committed rows of g's task_log
    appending,    \* appending[g]: INSERTs of g that have read MAX and not committed
    cursor_state, \* cursor_state[g][h]: peer_cursor_state, 0 without a row
    turn,         \* turn[g]: position in PeersOf[g] of the current sync_round
    session,      \* session[g]: local state of sync_project
    failures,
    insert_failures

vars == <<local, rows, appending, cursor_state, turn, session, failures, insert_failures>>

\* Project ids are UUIDs made by the gateway that created the project, so the
\* id of g's project is named by g.  signed is the project id the HMAC covers.
\* before is a history field, not a column: the ids that the INSERT of the author
\* found committed in the author's log.
Row == [id : Ids, project : Gateways, gateway : Gateways, cursor : Nat,
        signed : Gateways, before : SUBSET Ids]

Idle == [pc |-> "idle"]

SessionState ==
    {Idle}
    \cup [pc : {"since"}, after : Nat]
    \cup [pc : {"head"}, after : Nat, entries : SUBSET Row]
    \cup [pc : {"insert"}, after : Nat, entries : SUBSET Row, head : Nat]

TypeOK ==
    /\ local \in [Gateways -> BOOLEAN]
    /\ rows \in [Gateways -> SUBSET Row]
    /\ appending \in [Gateways -> SUBSET Row]
    /\ cursor_state \in [Gateways -> [Gateways -> Nat]]
    /\ turn \in [Gateways -> Nat]
    /\ \A g \in Gateways : turn[g] \in 1 .. (Len(PeersOf[g]) + 1)
    /\ session \in [Gateways -> SessionState]
    /\ failures \in Nat /\ insert_failures \in Nat

Init ==
    /\ local = [g \in Gateways |-> FALSE]
    /\ rows = [g \in Gateways |-> {}]
    /\ appending = [g \in Gateways |-> {}]
    /\ cursor_state = [g \in Gateways |-> [h \in Gateways |-> 0]]
    /\ turn = [g \in Gateways |-> 1]
    /\ session = [g \in Gateways |-> Idle]
    /\ failures = 0 /\ insert_failures = 0

IdsOf(R) == {r.id : r \in R}
AllIds == IdsOf(UNION {rows[g] \cup appending[g] : g \in Gateways})
Peers(g) == {PeersOf[g][n] : n \in DOMAIN PeersOf[g]}
Peer(g) == PeersOf[g][turn[g]]
LogHead(g) == head_cursor(rows[g], g)

\* The for loop of sync_round goes on to the next peer, and after the sleep
\* the next round starts over.
NextTurn(g) ==
    turn' = [turn EXCEPT ![g] = IF @ < Len(PeersOf[g]) THEN @ + 1 ELSE 1]
Goto(g, next) == session' = [session EXCEPT ![g] = next]

-----------------------------------------------------------------------------

create(g) ==
    /\ ~local[g]
    /\ local' = [local EXCEPT ![g] = TRUE]
    /\ UNCHANGED <<rows, appending, cursor_state, turn, session, failures, insert_failures>>

\* The row that append_with_status computes at g now, signed for g's own project.
NewRow(g, id) ==
    [id |-> id, project |-> g, gateway |-> g, cursor |-> next_cursor(rows[g], g),
     signed |-> g, before |-> IdsOf(rows[g])]

\* append_with_status at g, first half: a fresh UUID, and the subquery on the
\* committed rows.  Any number of handlers may be here at once.
BeginAppend(g, id) ==
    /\ local[g]
    /\ id \notin AllIds
    /\ appending' = [appending EXCEPT ![g] = @ \cup {NewRow(g, id)}]
    /\ UNCHANGED <<local, rows, cursor_state, turn, session, failures, insert_failures>>

\* Second half: the row becomes visible.
CommitAppend(g, r) ==
    /\ r \in appending[g]
    /\ rows' = [rows EXCEPT ![g] = @ \cup {r}]
    /\ appending' = [appending EXCEPT ![g] = @ \ {r}]
    /\ UNCHANGED <<local, cursor_state, turn, session, failures, insert_failures>>

\* The statement fails, or the gateway stops before it is done.
FailAppend(g, r) ==
    /\ r \in appending[g]
    /\ appending' = [appending EXCEPT ![g] = @ \ {r}]
    /\ UNCHANGED <<local, rows, cursor_state, turn, session, failures, insert_failures>>

\* Mutant of local_cursor: the delta is asked from one entry further on.
local_cursor_Skips(g) == LogHead(g) + 1

\* "let local_cursor = ... head_cursor(&p.id)".
local_cursor(g) == LogHead(g)

\* sync_project: ping, list_projects, get_by_name and the local head.
sync_project(g) ==
    /\ session[g] = Idle
    /\ turn[g] <= Len(PeersOf[g])
    /\ IF local[g] /\ local[Peer(g)]
       THEN Goto(g, [pc |-> "since", after |-> local_cursor(g)]) /\ UNCHANGED turn
       ELSE NextTurn(g) /\ UNCHANGED session
    /\ UNCHANGED <<local, rows, appending, cursor_state, failures, insert_failures>>

\* sync_task_log at the peer: first the entries ...
sync_task_log_entries(g) ==
    /\ session[g].pc = "since"
    /\ Goto(g, [pc |-> "head", after |-> session[g].after,
                entries |-> since(rows[Peer(g)], Peer(g), session[g].after)])
    /\ UNCHANGED <<local, rows, appending, cursor_state, turn, failures, insert_failures>>

\* ... then, by a second query, the head.
sync_task_log_head(g) ==
    /\ session[g].pc = "head"
    /\ Goto(g, [pc |-> "insert", after |-> session[g].after,
                entries |-> session[g].entries, head |-> LogHead(Peer(g))])
    /\ UNCHANGED <<local, rows, appending, cursor_state, turn, failures, insert_failures>>

\* TaskLog::verify_entry on the entry rebuilt with the remote project's id.
verify_entry(e, project) == e.signed = project

\* Mutant of accepts: neither the name nor the signature is checked.
accepts_Anything(h, e) == e.id \in Ids

\* The entry names the peer it came from, and its signature verifies.
accepts(h, e) == e.gateway = h /\ verify_entry(e, h)

\* insert_peer_entry: the row g ends up with.  ON CONFLICT (id) DO NOTHING.
insert_peer_entry(g, e) ==
    IF \E r \in rows[g] : r.id = e.id
    THEN rows[g]
    ELSE rows[g] \cup {[e EXCEPT !.project = g]}

\* The loop takes the entries in the order of the query, by cursor.
IsNextEntry(g, e) == \A f \in session[g].entries : e.cursor <= f.cursor
EntryDone(g, e) == Goto(g, [session[g] EXCEPT !.entries = @ \ {e}])

sync_entry(g) ==
    /\ session[g].pc = "insert"
    /\ \E e \in session[g].entries :
           /\ IsNextEntry(g, e)
           /\ rows' = IF accepts(Peer(g), e)
                      THEN [rows EXCEPT ![g] = insert_peer_entry(g, e)]
                      ELSE rows
           /\ EntryDone(g, e)
    /\ UNCHANGED <<local, appending, cursor_state, turn, failures, insert_failures>>

\* insert_peer_entry(...).await.ok(): the statement fails, the loop goes on.
sync_entry_fails(g) ==
    /\ insert_failures < MaxInsertFailures
    /\ session[g].pc = "insert"
    /\ \E e \in session[g].entries :
           IsNextEntry(g, e) /\ accepts(Peer(g), e) /\ EntryDone(g, e)
    /\ insert_failures' = insert_failures + 1
    /\ UNCHANGED <<local, rows, appending, cursor_state, turn, failures>>

\* The value stored in last_cursor when the peer's head is above the local one.
update_peer_cursor(g) == session[g].head

\* The end of the log part of sync_project.
sync_done(g) ==
    /\ session[g].pc = "insert"
    /\ session[g].entries = {}
    /\ cursor_state' = IF session[g].head > session[g].after
                       THEN [cursor_state EXCEPT ![g][Peer(g)] = update_peer_cursor(g)]
                       ELSE cursor_state
    /\ Goto(g, Idle)
    /\ NextTurn(g)
    /\ UNCHANGED <<local, rows, appending, failures, insert_failures>>

\* An error of the connection, the RPC or the last statement: the peer is left
\* for this round.
Abort(g) ==
    /\ failures < MaxFailures
    /\ session[g] # Idle
    /\ Goto(g, Idle)
    /\ NextTurn(g)
    /\ failures' = failures + 1
    /\ UNCHANGED <<local, rows, appending, cursor_state, insert_failures>>

\* The gateway stops and is restarted: a new round begins.
Crash(g) ==
    /\ failures < MaxFailures
    /\ session[g] # Idle
    /\ Goto(g, Idle)
    /\ turn' = [turn EXCEPT ![g] = 1]
    /\ failures' = failures + 1
    /\ UNCHANGED <<local, rows, appending, cursor_state, insert_failures>>

SyncStep(g) ==
    \/ sync_project(g)
    \/ sync_task_log_entries(g)
    \/ sync_task_log_head(g)
    \/ sync_entry(g)
    \/ sync_done(g)

Next ==
    \/ \E g \in Gateways : create(g)
    \/ \E g \in Writers, id \in Ids : BeginAppend(g, id)
    \/ \E g \in Writers : \E r \in appending[g] : CommitAppend(g, r)
    \/ \E g \in Writers : \E r \in appending[g] : FailAppend(g, r)
    \/ \E g \in Gateways : sync_project(g)
    \/ \E g \in Gateways : sync_task_log_entries(g)
    \/ \E g \in Gateways : sync_task_log_head(g)
    \/ \E g \in Gateways : sync_entry(g)
    \/ \E g \in Gateways : sync_entry_fails(g)
    \/ \E g \in Gateways : sync_done(g)
    \/ \E g \in Gateways : Abort(g)
    \/ \E g \in Gateways : Crash(g)

Spec == Init /\ [][Next]_vars

\* The loop of PeerSyncCoordinator::spawn never ends, and the project is
\* eventually created everywhere.
FairSpec ==
    /\ Spec
    /\ \A g \in Gateways : WF_vars(create(g)) /\ WF_vars(SyncStep(g))

-----------------------------------------------------------------------------

Authored(h) == {r \in rows[h] : r.gateway = h}
HasCopy(g, r) == [r EXCEPT !.project = g] \in rows[g]

\* Entries without the local project id, the signature and the history.
Entries(R) == {[id |-> r.id, author |-> r.gateway, cursor |-> r.cursor] : r \in R}
held == [g \in Gateways |-> Entries(rows[g])]
writing == [g \in Gateways |-> Entries(appending[g])]

Replication == INSTANCE LogReplication WITH Sources <- [g \in Gateways |-> Peers(g)]

\* Overlapping appends, pulls, lost inserts, crashes and retries implement
\* LogReplication: a gateway's own entry is above all the gateway held when its
\* INSERT started; what a gateway holds under another's name is what that gateway
\* wrote, with its cursor, it came straight from its author ("a compromised peer
\* must not inject entries pretending to be another gateway"; entries are not
\* relayed), and nothing held is changed or written twice.
ImplementsReplication == Replication!Spec

\* A gateway that writes nothing itself and pulls from a single peer.
Mirrors(g, h) == g \notin Writers /\ Peers(g) = {h}

\* r and s were in flight together at their author: neither INSERT saw the other.
Overlap(r, s) == s.id \notin r.before /\ r.id \notin s.before

\* g holds an entry of h whose append overlapped that of r, with a cursor no
\* smaller: r was committed too late, or tied with an entry that was taken first.
PassedInFlight(g, h, r) ==
    \E s \in Authored(h) : HasCopy(g, s) /\ r.cursor <= s.cursor /\ Overlap(r, s)

\* A mirror asks for what is above its own head and stores it in the order of the
\* cursors.  As long as no insert is swallowed by .ok(), the only entries of its
\* peer it can lack up to its head are appends that overlapped one it holds:
\* sessions that end early leave no other hole.
MirrorIsPrefix ==
    insert_failures = 0 =>
        \A g, h \in Gateways : Mirrors(g, h) =>
            \A r \in Authored(h) :
                r.cursor <= LogHead(g) => HasCopy(g, r) \/ PassedInFlight(g, h, r)

\* The entry's cursor is not above g's own head any more, and g wrote or pulled
\* something else meanwhile, or lost an insert, or holds an entry whose append
\* overlapped this one: no later pull asks for it.
Overtaken(g, h, id) ==
    \E r \in Authored(h) :
        /\ r.id = id /\ r.cursor <= LogHead(g)
        /\ ~Mirrors(g, h) \/ insert_failures > 0 \/ PassedInFlight(g, h, r)

\* "Task log entries are ... replicated": whatever a gateway writes reaches
\* every gateway that pulls from it, through aborted sessions, crashes and
\* swallowed inserts, unless it is overtaken before.
EntriesArrive ==
    \A g, h \in Gateways, id \in Ids : h \in Peers(g) =>
        ((\E r \in Authored(h) : r.id = id)
            ~> ((\E r \in rows[g] : r.id = id) \/ Overtaken(g, h, id)))
=============================================================================
