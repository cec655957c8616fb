------------------------- MODULE PeerLogSyncProofs -------------------------
(***************************************************************************)
(* The pull loops of any number of gateways, with any peers, failures and  *)
(* crashes, implement LogReplication.                                      *)
(*                                                                         *)
(* The invariant ties a session to its peer: while it lasts, the turn      *)
(* points at one configured peer, and what the session still has to insert *)
(* are rows of that peer, which never lose a row.                          *)
(*                                                                         *)
(* Of mirrors: a gateway that writes nothing and pulls from one peer lacks *)
(* below its head only appends that overlapped one it holds.  The inserts  *)
(* of a session come in the order of their cursors, and a row that was not *)
(* committed when the session asked was seen by no INSERT among its        *)
(* entries.                                                                *)
(***************************************************************************)
EXTENDS PeerLogSync, TLAPS

\* A gateway stores every row under its own project.
OwnProject == \A g \in Gateways : \A r \in rows[g] : r.project = g

\* So is the row of an INSERT under way, and no two of them share an id.
AppendingRows ==
    \A g \in Gateways : /\ \A r \in appending[g] : r.project = g
                        /\ \A r, s \in appending[g] : r.id = s.id => r = s

\* MAX(cursor) exists in every log that has rows.
HeadsExist ==
    \A g \in Gateways :
        of_project(rows[g], g) # {} => \E r \in rows[g] : IsHead(rows[g], g, r)

\* A session is with a configured peer.
InTurn == \A g \in Gateways : session[g] # Idle => turn[g] \in DOMAIN PeersOf[g]

\* What a session was sent are rows of its peer.
Served ==
    \A g \in Gateways :
        session[g].pc \in {"head", "insert"} => session[g].entries \subseteq rows[Peer(g)]

SyncInv == TypeOK /\ OwnProject /\ AppendingRows /\ HeadsExist /\ InTurn /\ Served

-----------------------------------------------------------------------------

\* head_cursor is the largest cursor of the log, 0 if it has no rows.
LEMMA LogHeadIsMax ==
    ASSUME SyncInv, NEW g \in Gateways
    PROVE  /\ LogHead(g) \in Nat
           /\ \A r \in rows[g] : r.cursor <= LogHead(g)
           /\ LogHead(g) = 0 \/ \E r \in rows[g] : r.cursor = LogHead(g)
<1>1. of_project(rows[g], g) = rows[g]
  BY DEF SyncInv, OwnProject, of_project
<1>2. rows[g] \subseteq Row
  BY DEF SyncInv, TypeOK
<1>3. CASE rows[g] = {}
  BY <1>1, <1>3 DEF LogHead, head_cursor
<1>4. CASE rows[g] # {}
  <2> DEFINE h == CHOOSE r \in rows[g] : IsHead(rows[g], g, r)
  <2>1. \E r \in rows[g] : IsHead(rows[g], g, r)
    BY <1>1, <1>4 DEF SyncInv, HeadsExist
  <2>2. h \in rows[g] /\ IsHead(rows[g], g, h)
    BY <2>1
  <2>3. LogHead(g) = h.cursor
    BY <1>1, <1>4 DEF LogHead, head_cursor
  <2>4. h.cursor \in Nat
    BY <1>2, <2>2 DEF Row
  <2>5. QED
    BY <1>1, <2>2, <2>3, <2>4 DEF IsHead
<1>5. QED
  BY <1>3, <1>4

\* A log with one more row has a largest cursor again.
LEMMA HeadSurvives ==
    ASSUME NEW g, NEW R \in SUBSET Row, NEW x \in Row,
           \A r \in R : r.project = g, x.project = g,
           of_project(R, g) # {} => \E r \in R : IsHead(R, g, r)
    PROVE  \E r \in R \cup {x} : IsHead(R \cup {x}, g, r)
<1>1. of_project(R, g) = R /\ of_project(R \cup {x}, g) = R \cup {x}
  BY DEF of_project
<1>2. \A r \in R \cup {x} : r.cursor \in Nat
  BY DEF Row
<1>3. CASE \A r \in R : r.cursor <= x.cursor
  <2>1. \A s \in R \cup {x} : s.cursor <= x.cursor
    BY <1>2, <1>3
  <2>2. x \in R \cup {x} /\ IsHead(R \cup {x}, g, x)
    BY <1>1, <2>1 DEF IsHead
  <2>3. QED
    BY <2>2
<1>4. CASE \E r \in R : ~(r.cursor <= x.cursor)
  <2>1. PICK h \in R : IsHead(R, g, h)
    BY <1>1, <1>4
  <2>2. \A s \in R : s.cursor <= h.cursor
    BY <1>1, <2>1 DEF IsHead
  <2>3. PICK r \in R : ~(r.cursor <= x.cursor)
    BY <1>4
  <2>4. x.cursor <= h.cursor
    BY <1>2, <2>2, <2>3
  <2>5. \A s \in R \cup {x} : s.cursor <= h.cursor
    BY <2>2, <2>4
  <2>6. h \in R \cup {x} /\ IsHead(R \cup {x}, g, h)
    BY <1>1, <2>5 DEF IsHead
  <2>7. QED
    BY <2>6
<1>5. QED
  BY <1>3, <1>4

\* The fields of a session by its pc.
LEMMA SessionTypes ==
    ASSUME TypeOK, NEW g \in Gateways
    PROVE  /\ session[g] \in SessionState
           /\ session[g] = Idle <=> session[g].pc = "idle"
           /\ session[g] # Idle => session[g].after \in Nat
           /\ session[g].pc \in {"head", "insert"} => session[g].entries \subseteq Row
           /\ session[g].pc = "insert" => session[g].head \in Nat
BY DEF TypeOK, SessionState, Idle

\* The peer of a session is one of the gateway's peers.
LEMMA PeerIsPeer ==
    ASSUME NEW g \in Gateways, turn[g] \in DOMAIN PeersOf[g]
    PROVE  Peer(g) \in Gateways /\ Peer(g) \in Peers(g)
BY PeersAssumption DEF Peer, Peers

\* Advancing the turn keeps it in its range.
LEMMA NextTurnTypes ==
    ASSUME TypeOK, NEW g \in Gateways, NextTurn(g)
    PROVE  /\ turn' \in [Gateways -> Nat]
           /\ \A k \in Gateways : turn'[k] \in 1 .. (Len(PeersOf[k]) + 1)
           /\ \A k \in Gateways : k # g => turn'[k] = turn[k]
<1>1. \A k \in Gateways : Len(PeersOf[k]) \in Nat
  BY PeersAssumption
<1>2. \A k \in Gateways : turn'[k] = IF k = g
                                      THEN IF turn[g] < Len(PeersOf[g]) THEN turn[g] + 1 ELSE 1
                                      ELSE turn[k]
  BY DEF TypeOK, NextTurn
<1>3. turn' \in [Gateways -> Nat]
  BY DEF TypeOK, NextTurn
<1>4. ASSUME NEW k \in Gateways PROVE turn'[k] \in 1 .. (Len(PeersOf[k]) + 1)
  <2> DEFINE n == Len(PeersOf[k])
  <2>1. n \in Nat /\ turn[k] \in 1 .. (n + 1)
    BY <1>1 DEF TypeOK
  <2>2. turn'[k] = turn[k] \/ turn'[k] = 1 \/ (turn'[k] = turn[k] + 1 /\ turn[k] < n)
    BY <1>2
  <2> HIDE DEF n
  <2>3. turn'[k] \in 1 .. (n + 1)
    BY <2>1, <2>2
  <2>4. QED
    BY <2>3 DEF n
<1>5. QED
  BY <1>2, <1>3, <1>4

-----------------------------------------------------------------------------

\* g stores one more row, under its own project.
Inserts(g) == \E x \in Row : x.project = g /\ rows' = [rows EXCEPT ![g] = @ \cup {x}]

\* What every step of a gateway does to the invariant: at most one row is added
\* to its log, and its session goes on with the same peer or ends.
LEMMA GatewayStep ==
    ASSUME SyncInv, NEW g \in Gateways, NEW s \in SessionState,
           session' = [session EXCEPT ![g] = s],
           rows' = rows \/ Inserts(g),
           \/ appending' = appending
           \/ appending' \in [Gateways -> SUBSET Row] /\ AppendingRows',
           turn' \in [Gateways -> Nat],
           \A k \in Gateways : turn'[k] \in 1 .. (Len(PeersOf[k]) + 1),
           \A k \in Gateways : k # g => turn'[k] = turn[k],
           s # Idle => turn'[g] = turn[g] /\ turn[g] \in DOMAIN PeersOf[g],
           s.pc \in {"head", "insert"} => s.entries \subseteq rows[Peer(g)],
           local' \in [Gateways -> BOOLEAN],
           cursor_state' \in [Gateways -> [Gateways -> Nat]],
           failures' \in Nat, insert_failures' \in Nat
    PROVE  SyncInv'
<1>1. TypeOK /\ OwnProject /\ AppendingRows /\ HeadsExist /\ InTurn /\ Served
  BY DEF SyncInv
<1>0. appending' \in [Gateways -> SUBSET Row] /\ AppendingRows'
  BY <1>1 DEF TypeOK, AppendingRows
<1>2. session' \in [Gateways -> SessionState] /\ session'[g] = s
      /\ \A k \in Gateways : k # g => session'[k] = session[k]
  BY <1>1 DEF TypeOK
<1>3. /\ rows' \in [Gateways -> SUBSET Row]
      /\ \A k \in Gateways : rows[k] \subseteq rows'[k]
      /\ \A k \in Gateways : k # g => rows'[k] = rows[k]
  <2>1. CASE rows' = rows
    BY <1>1, <2>1 DEF TypeOK
  <2>2. CASE Inserts(g)
    <3>1. PICK x \in Row : rows' = [rows EXCEPT ![g] = @ \cup {x}]
      BY <2>2 DEF Inserts
    <3>2. rows \in [Gateways -> SUBSET Row]
      BY <1>1 DEF TypeOK
    <3>3. rows[g] \cup {x} \in SUBSET Row
      BY <3>2
    <3>4. QED
      BY <3>1, <3>2, <3>3
  <2>3. QED
    BY <2>1, <2>2
<1>4. TypeOK'
  BY <1>0, <1>2, <1>3 DEF TypeOK
<1>5. OwnProject' /\ HeadsExist'
  <2>1. CASE rows' = rows
    BY <1>1, <2>1 DEF OwnProject, HeadsExist
  <2>2. CASE Inserts(g)
    <3>1. PICK x \in Row : x.project = g /\ rows' = [rows EXCEPT ![g] = @ \cup {x}]
      BY <2>2 DEF Inserts
    <3>2. rows'[g] = rows[g] \cup {x} /\ rows[g] \subseteq Row
      BY <1>1, <3>1 DEF TypeOK
    <3>3. OwnProject'
      BY <1>1, <1>3, <3>1, <3>2 DEF OwnProject
    <3>4. \E r \in rows'[g] : IsHead(rows'[g], g, r)
      <4>1. /\ \A r \in rows[g] : r.project = g
            /\ of_project(rows[g], g) # {} => \E r \in rows[g] : IsHead(rows[g], g, r)
        BY <1>1 DEF OwnProject, HeadsExist
      <4>2. rows[g] \in SUBSET Row
        BY <3>2
      <4>3. \E r \in rows[g] \cup {x} : IsHead(rows[g] \cup {x}, g, r)
        BY <3>1, <4>1, <4>2, HeadSurvives
      <4>4. QED
        BY <3>2, <4>3
    <3>5. HeadsExist'
      BY <1>1, <1>3, <3>4 DEF HeadsExist
    <3>6. QED
      BY <3>3, <3>5
  <2>3. QED
    BY <2>1, <2>2
<1>6. InTurn'
  BY <1>1, <1>2 DEF InTurn
<1>7. Served'
  <2>1. SUFFICES ASSUME NEW k \in Gateways, session'[k].pc \in {"head", "insert"}
                 PROVE  session'[k].entries \subseteq rows'[Peer(k)']
    BY DEF Served
  <2>2. session'[k] # Idle
    BY <2>1 DEF Idle
  <2>3. turn'[k] = turn[k] /\ turn[k] \in DOMAIN PeersOf[k]
    BY <1>1, <1>2, <2>2 DEF InTurn
  <2>4. Peer(k)' = Peer(k) /\ Peer(k) \in Gateways
    BY <2>3, PeerIsPeer DEF Peer
  <2>5. session'[k].entries \subseteq rows[Peer(k)]
    BY <1>1, <1>2, <2>1 DEF Served
  <2>6. QED
    BY <1>3, <2>4, <2>5
<1>8. QED
  BY <1>0, <1>4, <1>5, <1>6, <1>7 DEF SyncInv

LEMMA InitSyncInv == Init => SyncInv
<1> SUFFICES ASSUME Init PROVE SyncInv
  OBVIOUS
<1>1. \A g \in Gateways : Len(PeersOf[g]) \in Nat
  BY PeersAssumption
<1>2. \A g \in Gateways : rows[g] = {} /\ session[g] = Idle /\ turn[g] = 1
  BY DEF Init
<1>3. \A g \in Gateways : turn[g] \in 1 .. (Len(PeersOf[g]) + 1)
  BY <1>1, <1>2
<1>4. TypeOK
  BY <1>3 DEF Init, TypeOK, SessionState
<1>5. QED
  BY <1>2, <1>4 DEF Init, SyncInv, OwnProject, AppendingRows, HeadsExist, InTurn, Served,
     of_project, Idle

LEMMA CreateSyncInv ==
    ASSUME SyncInv, NEW g \in Gateways, create(g)
    PROVE  SyncInv'
BY DEF create, SyncInv, TypeOK, OwnProject, AppendingRows, HeadsExist, InTurn, Served, Peer

\* The row an INSERT computes: fresh, and above everything in the log.
LEMMA NewRowTypes ==
    ASSUME SyncInv, NEW g \in Gateways, NEW id \in Ids, BeginAppend(g, id)
    PROVE  /\ NewRow(g, id) \in Row
           /\ NewRow(g, id).id = id /\ NewRow(g, id).project = g
           /\ NewRow(g, id).gateway = g /\ NewRow(g, id).signed = g
           /\ NewRow(g, id).cursor = LogHead(g) + 1 /\ LogHead(g) \in Nat
           /\ NewRow(g, id).before = IdsOf(rows[g])
           /\ \A k \in Gateways : \A r \in rows[k] \cup appending[k] : r.id # id
<1>1. TypeOK
  BY DEF SyncInv
<1>2. LogHead(g) \in Nat /\ next_cursor(rows[g], g) = LogHead(g) + 1
  BY LogHeadIsMax DEF next_cursor, LogHead
<1>3. IdsOf(rows[g]) \subseteq Ids
  <2>1. \A r \in rows[g] : r.id \in Ids
    BY <1>1 DEF TypeOK, Row
  <2>2. QED
    BY <2>1 DEF IdsOf
<1>4. NewRow(g, id) \in Row
  BY <1>2, <1>3 DEF NewRow, Row
<1>5. ASSUME NEW k \in Gateways, NEW r \in rows[k] \cup appending[k] PROVE r.id # id
  <2>1. r.id \in AllIds
    BY DEF AllIds, IdsOf
  <2>2. QED
    BY <2>1 DEF BeginAppend
<1>6. QED
  BY <1>2, <1>4, <1>5 DEF NewRow

LEMMA BeginSyncInv ==
    ASSUME SyncInv, NEW g \in Gateways, NEW id \in Ids, BeginAppend(g, id)
    PROVE  SyncInv'
<1> DEFINE x == NewRow(g, id)
<1>1. TypeOK /\ AppendingRows
  BY DEF SyncInv
<1>2. /\ x \in Row /\ x.id = id /\ x.project = g
      /\ \A r \in appending[g] : r.id # id
  BY NewRowTypes
<1>3. appending' = [appending EXCEPT ![g] = @ \cup {x}]
  BY DEF BeginAppend
<1> HIDE DEF x
<1>4. /\ appending'[g] = appending[g] \cup {x}
      /\ \A k \in Gateways : k # g => appending'[k] = appending[k]
  BY <1>1, <1>3 DEF TypeOK
<1>5. appending' \in [Gateways -> SUBSET Row]
  <2>1. appending \in [Gateways -> SUBSET Row] /\ appending[g] \cup {x} \in SUBSET Row
    BY <1>1, <1>2 DEF TypeOK
  <2>2. QED
    BY <1>3, <2>1
<1>6. AppendingRows'
  BY <1>1, <1>2, <1>4 DEF AppendingRows
<1>7. TypeOK'
  BY <1>1, <1>5 DEF BeginAppend, TypeOK
<1>8. QED
  BY <1>6, <1>7 DEF BeginAppend, SyncInv, OwnProject, HeadsExist, InTurn, Served, Peer

\* The INSERTs under way with one less.
LEMMA AppendingShrinks ==
    ASSUME SyncInv, NEW g \in Gateways, NEW r,
           appending' = [appending EXCEPT ![g] = @ \ {r}]
    PROVE  appending' \in [Gateways -> SUBSET Row] /\ AppendingRows'
<1>1. TypeOK /\ AppendingRows
  BY DEF SyncInv
<1>2. appending \in [Gateways -> SUBSET Row] /\ appending[g] \ {r} \in SUBSET Row
  BY <1>1 DEF TypeOK
<1>3. appending' \in [Gateways -> SUBSET Row]
  BY <1>2
<1>4. \A k \in Gateways : appending'[k] \subseteq appending[k]
  BY <1>2
<1>5. QED
  BY <1>1, <1>3, <1>4 DEF AppendingRows

LEMMA CommitSyncInv ==
    ASSUME SyncInv, NEW g \in Gateways, NEW r, CommitAppend(g, r)
    PROVE  SyncInv'
<1>1. TypeOK
  BY DEF SyncInv
<1>2. Inserts(g)
  <2>1. r \in Row /\ r.project = g
    BY <1>1 DEF CommitAppend, TypeOK, SyncInv, AppendingRows
  <2>2. rows' = [rows EXCEPT ![g] = @ \cup {r}]
    BY DEF CommitAppend
  <2>3. QED
    BY <2>1, <2>2 DEF Inserts
<1>3. appending' \in [Gateways -> SUBSET Row] /\ AppendingRows'
  BY AppendingShrinks DEF CommitAppend
<1>4. session' = [session EXCEPT ![g] = session[g]] /\ session[g] \in SessionState
  BY <1>1 DEF CommitAppend, TypeOK
<1>5. /\ session[g] # Idle => turn[g] \in DOMAIN PeersOf[g]
      /\ session[g].pc \in {"head", "insert"} => session[g].entries \subseteq rows[Peer(g)]
  BY DEF SyncInv, InTurn, Served
<1>6. QED
  BY <1>1, <1>2, <1>3, <1>4, <1>5, GatewayStep DEF CommitAppend, TypeOK

LEMMA FailSyncInv ==
    ASSUME SyncInv, NEW g \in Gateways, NEW r, FailAppend(g, r)
    PROVE  SyncInv'
<1>1. appending' \in [Gateways -> SUBSET Row] /\ AppendingRows'
  BY AppendingShrinks DEF FailAppend
<1>2. TypeOK'
  BY <1>1 DEF FailAppend, SyncInv, TypeOK
<1>3. QED
  BY <1>1, <1>2 DEF FailAppend, SyncInv, OwnProject, HeadsExist, InTurn, Served, Peer

LEMMA SyncProjectSyncInv ==
    ASSUME SyncInv, NEW g \in Gateways, sync_project(g)
    PROVE  SyncInv'
<1>1. TypeOK
  BY DEF SyncInv
<1>2. CASE /\ session' = [session EXCEPT ![g] = [pc |-> "since", after |-> local_cursor(g)]]
           /\ UNCHANGED turn
  <2> DEFINE s == [pc |-> "since", after |-> local_cursor(g)]
  <2>1. s \in SessionState /\ s.pc = "since"
    BY LogHeadIsMax DEF local_cursor, SessionState
  <2>2. turn[g] \in DOMAIN PeersOf[g]
    <3>1. turn[g] \in Nat /\ turn[g] >= 1 /\ Len(PeersOf[g]) \in Nat
      BY <1>1, PeersAssumption DEF TypeOK
    <3>2. DOMAIN PeersOf[g] = 1 .. Len(PeersOf[g])
      BY PeersAssumption
    <3>3. QED
      BY <3>1, <3>2 DEF sync_project
  <2>3. session' = [session EXCEPT ![g] = s]
    BY <1>2
  <2> HIDE DEF s
  <2>4. QED
    BY <1>1, <1>2, <2>1, <2>2, <2>3, GatewayStep DEF sync_project, TypeOK
<1>3. CASE NextTurn(g) /\ UNCHANGED session
  <2>1. session' = [session EXCEPT ![g] = Idle] /\ Idle \in SessionState
    BY <1>1, <1>3 DEF sync_project, TypeOK, SessionState
  <2>2. Idle.pc = "idle"
    BY DEF Idle
  <2>3. QED
    BY <1>1, <1>3, <2>1, <2>2, NextTurnTypes, GatewayStep DEF sync_project, TypeOK
<1>4. QED
  BY <1>2, <1>3 DEF sync_project, Goto

LEMMA EntriesSyncInv ==
    ASSUME SyncInv, NEW g \in Gateways, sync_task_log_entries(g)
    PROVE  SyncInv'
<1>1. TypeOK
  BY DEF SyncInv
<1> DEFINE s == [pc |-> "head", after |-> session[g].after,
                 entries |-> since(rows[Peer(g)], Peer(g), session[g].after)]
<1>2. session[g] # Idle /\ session[g].after \in Nat
  BY <1>1, SessionTypes DEF sync_task_log_entries, Idle
<1>3. turn[g] \in DOMAIN PeersOf[g] /\ Peer(g) \in Gateways
  BY <1>2, PeerIsPeer DEF SyncInv, InTurn
<1>4. s.entries \subseteq rows[Peer(g)] /\ s.entries \subseteq Row
  BY <1>1, <1>3 DEF since, of_project, TypeOK
<1>5. s \in SessionState
  BY <1>2, <1>4 DEF SessionState
<1>6. session' = [session EXCEPT ![g] = s]
  BY DEF sync_task_log_entries, Goto
<1> HIDE DEF s
<1>7. QED
  BY <1>1, <1>3, <1>4, <1>5, <1>6, GatewayStep DEF sync_task_log_entries, TypeOK

LEMMA HeadSyncInv ==
    ASSUME SyncInv, NEW g \in Gateways, sync_task_log_head(g)
    PROVE  SyncInv'
<1>1. TypeOK
  BY DEF SyncInv
<1> DEFINE s == [pc |-> "insert", after |-> session[g].after,
                 entries |-> session[g].entries, head |-> LogHead(Peer(g))]
<1>2. session[g] # Idle /\ session[g].after \in Nat /\ session[g].entries \subseteq Row
  BY <1>1, SessionTypes DEF sync_task_log_head, Idle
<1>3. turn[g] \in DOMAIN PeersOf[g] /\ Peer(g) \in Gateways
  BY <1>2, PeerIsPeer DEF SyncInv, InTurn
<1>4. s.entries \subseteq rows[Peer(g)]
  BY DEF sync_task_log_head, SyncInv, Served
<1>5. LogHead(Peer(g)) \in Nat
  BY <1>3, LogHeadIsMax
<1>6. s \in SessionState
  BY <1>2, <1>5 DEF SessionState
<1>7. session' = [session EXCEPT ![g] = s]
  BY DEF sync_task_log_head, Goto
<1> HIDE DEF s
<1>8. QED
  BY <1>1, <1>3, <1>4, <1>6, <1>7, GatewayStep DEF sync_task_log_head, TypeOK

\* A session with one entry less.
LEMMA EntryTaken ==
    ASSUME SyncInv, NEW g \in Gateways, session[g].pc = "insert", NEW e
    PROVE  LET s == [session[g] EXCEPT !.entries = @ \ {e}]
           IN  /\ s \in SessionState
               /\ s.entries \subseteq rows[Peer(g)]
               /\ turn[g] \in DOMAIN PeersOf[g]
               /\ Peer(g) \in Gateways /\ Peer(g) \in Peers(g)
<1>1. TypeOK
  BY DEF SyncInv
<1>2. session[g] # Idle
  BY <1>1, SessionTypes DEF Idle
<1>3. turn[g] \in DOMAIN PeersOf[g]
  BY <1>2 DEF SyncInv, InTurn
<1>4. session[g] \in [pc : {"insert"}, after : Nat, entries : SUBSET Row, head : Nat]
  BY <1>1, SessionTypes DEF SessionState, Idle
<1>5. session[g].entries \subseteq rows[Peer(g)]
  BY DEF SyncInv, Served
<1>6. [session[g] EXCEPT !.entries = @ \ {e}] \in SessionState
  BY <1>4 DEF SessionState
<1>7. [session[g] EXCEPT !.entries = @ \ {e}].entries = session[g].entries \ {e}
  BY <1>4
<1>8. QED
  BY <1>3, <1>5, <1>6, <1>7, PeerIsPeer

\* What sync_entry does to the log: nothing, or a row of the peer, under the
\* peer's own name, is stored with the local project.
Copies(g) ==
    \E e \in rows[Peer(g)] :
        /\ e.gateway = Peer(g)
        /\ rows' = [rows EXCEPT ![g] = @ \cup {[e EXCEPT !.project = g]}]

LEMMA SyncEntryCopies ==
    ASSUME SyncInv, NEW g \in Gateways, sync_entry(g)
    PROVE  rows' = rows \/ Copies(g)
<1>1. rows \in [Gateways -> SUBSET Row]
  BY DEF SyncInv, TypeOK
<1>2. PICK e \in session[g].entries :
          rows' = IF accepts(Peer(g), e)
                  THEN [rows EXCEPT ![g] = insert_peer_entry(g, e)]
                  ELSE rows
  BY DEF sync_entry
<1>3. e \in rows[Peer(g)]
  BY DEF sync_entry, SyncInv, Served
<1>4. CASE accepts(Peer(g), e) /\ ~(\E r \in rows[g] : r.id = e.id)
  <2>1. insert_peer_entry(g, e) = rows[g] \cup {[e EXCEPT !.project = g]}
    BY <1>4 DEF insert_peer_entry
  <2>2. e.gateway = Peer(g)
    BY <1>4 DEF accepts
  <2>3. QED
    BY <1>2, <1>3, <1>4, <2>1, <2>2 DEF Copies
<1>5. CASE accepts(Peer(g), e) /\ \E r \in rows[g] : r.id = e.id
  <2>1. insert_peer_entry(g, e) = rows[g]
    BY <1>5 DEF insert_peer_entry
  <2>2. QED
    BY <1>1, <1>2, <1>5, <2>1
<1>6. CASE ~accepts(Peer(g), e)
  BY <1>2, <1>6
<1>7. QED
  BY <1>4, <1>5, <1>6

LEMMA SyncEntrySyncInv ==
    ASSUME SyncInv, NEW g \in Gateways, sync_entry(g)
    PROVE  SyncInv'
<1>1. TypeOK
  BY DEF SyncInv
<1>2. PICK e \in session[g].entries : EntryDone(g, e)
  BY DEF sync_entry
<1> DEFINE s == [session[g] EXCEPT !.entries = @ \ {e}]
<1>3. /\ s \in SessionState /\ s.entries \subseteq rows[Peer(g)]
      /\ turn[g] \in DOMAIN PeersOf[g] /\ Peer(g) \in Gateways
  BY EntryTaken DEF sync_entry
<1>4. session' = [session EXCEPT ![g] = s]
  BY <1>2 DEF EntryDone, Goto
<1>5. rows' = rows \/ Inserts(g)
  <2>1. SUFFICES ASSUME Copies(g) PROVE Inserts(g)
    BY SyncEntryCopies
  <2>2. PICK f \in rows[Peer(g)] :
            rows' = [rows EXCEPT ![g] = @ \cup {[f EXCEPT !.project = g]}]
    BY <2>1 DEF Copies
  <2>3. f \in Row
    BY <1>1, <1>3 DEF TypeOK
  <2> DEFINE x == [f EXCEPT !.project = g]
  <2>4. x \in Row /\ x.project = g
    BY <2>3 DEF Row
  <2>5. QED
    BY <2>2, <2>4 DEF Inserts
<1> HIDE DEF s
<1>6. QED
  BY <1>1, <1>3, <1>4, <1>5, GatewayStep DEF sync_entry, TypeOK

LEMMA EntryFailsSyncInv ==
    ASSUME SyncInv, NEW g \in Gateways, sync_entry_fails(g)
    PROVE  SyncInv'
<1>1. TypeOK
  BY DEF SyncInv
<1>2. PICK e \in session[g].entries : EntryDone(g, e)
  BY DEF sync_entry_fails
<1> DEFINE s == [session[g] EXCEPT !.entries = @ \ {e}]
<1>3. /\ s \in SessionState /\ s.entries \subseteq rows[Peer(g)]
      /\ turn[g] \in DOMAIN PeersOf[g]
  BY EntryTaken DEF sync_entry_fails
<1>4. session' = [session EXCEPT ![g] = s]
  BY <1>2 DEF EntryDone, Goto
<1>5. UNCHANGED <<local, rows, appending, cursor_state, turn, failures>> /\ insert_failures' \in Nat
  BY <1>1 DEF sync_entry_fails, TypeOK
<1> HIDE DEF s
<1>6. QED
  BY <1>1, <1>3, <1>4, <1>5, GatewayStep DEF TypeOK

LEMMA DoneSyncInv ==
    ASSUME SyncInv, NEW g \in Gateways, sync_done(g)
    PROVE  SyncInv'
<1>1. TypeOK
  BY DEF SyncInv
<1>2. session[g] # Idle /\ session[g].head \in Nat
  BY <1>1, SessionTypes DEF sync_done, Idle
<1>3. Peer(g) \in Gateways
  BY <1>2, PeerIsPeer DEF SyncInv, InTurn
<1>4. cursor_state' \in [Gateways -> [Gateways -> Nat]]
  BY <1>1, <1>2, <1>3 DEF sync_done, update_peer_cursor, TypeOK
<1>5. Idle \in SessionState /\ Idle.pc = "idle"
  BY DEF SessionState, Idle
<1>6. session' = [session EXCEPT ![g] = Idle] /\ NextTurn(g)
  BY DEF sync_done, Goto
<1>7. QED
  BY <1>1, <1>4, <1>5, <1>6, NextTurnTypes, GatewayStep DEF sync_done, TypeOK

LEMMA AbortSyncInv ==
    ASSUME SyncInv, NEW g \in Gateways, Abort(g)
    PROVE  SyncInv'
<1>1. TypeOK
  BY DEF SyncInv
<1>2. Idle \in SessionState /\ Idle.pc = "idle"
  BY DEF SessionState, Idle
<1>3. session' = [session EXCEPT ![g] = Idle] /\ NextTurn(g)
  BY DEF Abort, Goto
<1>4. UNCHANGED <<local, rows, appending, cursor_state, insert_failures>> /\ failures' \in Nat
  BY <1>1 DEF Abort, TypeOK
<1>5. QED
  BY <1>1, <1>2, <1>3, <1>4, NextTurnTypes, GatewayStep DEF TypeOK

LEMMA CrashSyncInv ==
    ASSUME SyncInv, NEW g \in Gateways, Crash(g)
    PROVE  SyncInv'
<1>1. TypeOK
  BY DEF SyncInv
<1>2. Idle \in SessionState /\ Idle.pc = "idle"
  BY DEF SessionState, Idle
<1>3. session' = [session EXCEPT ![g] = Idle]
  BY DEF Crash, Goto
<1>4. /\ turn' \in [Gateways -> Nat]
      /\ \A k \in Gateways : k # g => turn'[k] = turn[k]
      /\ turn'[g] = 1
  BY <1>1 DEF Crash, TypeOK
<1>5. \A k \in Gateways : Len(PeersOf[k]) \in Nat
  BY PeersAssumption
<1>6. \A k \in Gateways : turn'[k] \in 1 .. (Len(PeersOf[k]) + 1)
  <2>1. 1 \in 1 .. (Len(PeersOf[g]) + 1)
    BY <1>5
  <2>2. QED
    BY <1>1, <1>4, <2>1 DEF TypeOK
<1>7. UNCHANGED <<local, rows, appending, cursor_state, insert_failures>> /\ failures' \in Nat
  BY <1>1 DEF Crash, TypeOK
<1>8. QED
  BY <1>1, <1>2, <1>3, <1>4, <1>6, <1>7, GatewayStep DEF TypeOK

-----------------------------------------------------------------------------

LEMMA NextSyncInv == SyncInv /\ [Next]_vars => SyncInv'
<1> SUFFICES ASSUME SyncInv, [Next]_vars PROVE SyncInv'
  OBVIOUS
<1>1. CASE UNCHANGED vars
  BY <1>1 DEF vars, SyncInv, TypeOK, OwnProject, AppendingRows, HeadsExist, InTurn,
     Served, Peer
<1>2. CASE \/ \E g \in Writers, id \in Ids : BeginAppend(g, id)
           \/ \E g \in Writers : \E r \in appending[g] : CommitAppend(g, r)
           \/ \E g \in Writers : \E r \in appending[g] : FailAppend(g, r)
  BY <1>2, BeginSyncInv, CommitSyncInv, FailSyncInv, WritersAssumption
<1>3. CASE \E g \in Gateways : \/ create(g) \/ sync_project(g) \/ sync_task_log_entries(g)
                                \/ sync_task_log_head(g) \/ sync_entry(g)
                                \/ sync_entry_fails(g) \/ sync_done(g)
                                \/ Abort(g) \/ Crash(g)
  BY <1>3, CreateSyncInv, SyncProjectSyncInv, EntriesSyncInv, HeadSyncInv,
     SyncEntrySyncInv, EntryFailsSyncInv, DoneSyncInv, AbortSyncInv, CrashSyncInv
<1>4. QED
  BY <1>1, <1>2, <1>3 DEF Next

LEMMA SpecSyncInv == Spec => []SyncInv
BY InitSyncInv, NextSyncInv, PTL DEF Spec

\* The variables of the pull loops keep their types for every set of gateways,
\* every peering and every number of failures: a session only ever holds rows,
\* and sync_round never points past the end of the peer list by more than one.
THEOREM SyncTypes == Spec => []TypeOK
<1>1. SyncInv => TypeOK
  BY DEF SyncInv
<1>2. QED
  BY <1>1, SpecSyncInv, PTL

-----------------------------------------------------------------------------

\* The abstract entry of a row.
Abstract(r) == [id |-> r.id, author |-> r.gateway, cursor |-> r.cursor]

LEMMA EntriesAbstract == \A R : Entries(R) = {Abstract(r) : r \in R}
BY DEF Entries, Abstract

LEMMA Mapped ==
    \A k \in Gateways : /\ held[k] = {Abstract(r) : r \in rows[k]}
                        /\ writing[k] = {Abstract(r) : r \in appending[k]}
BY EntriesAbstract DEF held, writing

\* A set with one more row, or one less, has one more entry, or one less.
LEMMA EntriesGrow ==
    ASSUME NEW R, NEW x
    PROVE  Entries(R \cup {x}) = Entries(R) \cup {Abstract(x)}
<1>1. {Abstract(r) : r \in R \cup {x}} = {Abstract(r) : r \in R} \cup {Abstract(x)}
  BY Zenon
<1>2. QED
  BY <1>1, EntriesAbstract

LEMMA EntriesShrink ==
    ASSUME NEW R, NEW x \in R, \A r, s \in R : r.id = s.id => r = s
    PROVE  Entries(R \ {x}) = Entries(R) \ {Abstract(x)}
<1>1. \A r \in R : Abstract(r) = Abstract(x) => r = x
  BY DEF Abstract
<1>2. {Abstract(r) : r \in R \ {x}} = {Abstract(r) : r \in R} \ {Abstract(x)}
  BY <1>1, Zenon
<1>3. QED
  BY <1>2, EntriesAbstract

\* A step that changes the rows of one gateway changes its entries.
LEMMA HeldGrows ==
    ASSUME TypeOK, NEW g \in Gateways, NEW x,
           rows' = [rows EXCEPT ![g] = @ \cup {x}]
    PROVE  held' = [held EXCEPT ![g] = @ \cup {Abstract(x)}]
<1>1. \A k \in Gateways : rows'[k] = IF k = g THEN rows[g] \cup {x} ELSE rows[k]
  BY DEF TypeOK
<1>2. held = [k \in Gateways |-> Entries(rows[k])] /\ held' = [k \in Gateways |-> Entries(rows'[k])]
  BY DEF held, Entries
<1>3. Entries(rows[g] \cup {x}) = Entries(rows[g]) \cup {Abstract(x)}
  BY EntriesGrow
<1>4. \A k \in Gateways : Entries(rows'[k]) = IF k = g THEN Entries(rows[g]) \cup {Abstract(x)}
                                               ELSE Entries(rows[k])
  BY <1>1, <1>3
<1>5. QED
  BY <1>2, <1>4

LEMMA WritingGrows ==
    ASSUME TypeOK, NEW g \in Gateways, NEW x,
           appending' = [appending EXCEPT ![g] = @ \cup {x}]
    PROVE  writing' = [writing EXCEPT ![g] = @ \cup {Abstract(x)}]
<1>1. \A k \in Gateways : appending'[k] = IF k = g THEN appending[g] \cup {x} ELSE appending[k]
  BY DEF TypeOK
<1>2. /\ writing = [k \in Gateways |-> Entries(appending[k])]
      /\ writing' = [k \in Gateways |-> Entries(appending'[k])]
  BY DEF writing, Entries
<1>3. Entries(appending[g] \cup {x}) = Entries(appending[g]) \cup {Abstract(x)}
  BY EntriesGrow
<1>4. \A k \in Gateways :
          Entries(appending'[k]) = IF k = g THEN Entries(appending[g]) \cup {Abstract(x)}
                                   ELSE Entries(appending[k])
  BY <1>1, <1>3
<1>5. QED
  BY <1>2, <1>4

LEMMA WritingShrinks ==
    ASSUME SyncInv, NEW g \in Gateways, NEW x \in appending[g],
           appending' = [appending EXCEPT ![g] = @ \ {x}]
    PROVE  writing' = [writing EXCEPT ![g] = @ \ {Abstract(x)}] /\ Abstract(x) \in writing[g]
<1>1. \A k \in Gateways : appending'[k] = IF k = g THEN appending[g] \ {x} ELSE appending[k]
  BY DEF SyncInv, TypeOK
<1>2. /\ writing = [k \in Gateways |-> Entries(appending[k])]
      /\ writing' = [k \in Gateways |-> Entries(appending'[k])]
  BY DEF writing, Entries
<1>3. Entries(appending[g] \ {x}) = Entries(appending[g]) \ {Abstract(x)}
  BY EntriesShrink DEF SyncInv, AppendingRows
<1>4. \A k \in Gateways :
          Entries(appending'[k]) = IF k = g THEN Entries(appending[g]) \ {Abstract(x)}
                                   ELSE Entries(appending[k])
  BY <1>1, <1>3
<1>5. Abstract(x) \in writing[g]
  BY Mapped
<1>6. QED
  BY <1>2, <1>4, <1>5

\* The first half of an append starts an entry of the abstract log: a new id
\* above every cursor held.
LEMMA BeginStarts ==
    ASSUME SyncInv, NEW g \in Gateways, NEW id \in Ids, BeginAppend(g, id)
    PROVE  Replication!Next
<1>1. TypeOK
  BY DEF SyncInv
<1> DEFINE e == Abstract(NewRow(g, id))
<1>2. /\ LogHead(g) \in Nat
      /\ \A r \in rows[g] : r.cursor <= LogHead(g)
      /\ LogHead(g) = 0 \/ \E r \in rows[g] : r.cursor = LogHead(g)
  BY LogHeadIsMax
<1>3. \A k \in Gateways : \A r \in rows[k] \cup appending[k] : r.id # id
  BY NewRowTypes
<1>4. e.id = id /\ e.author = g /\ e.cursor = LogHead(g) + 1
  BY NewRowTypes DEF Abstract
<1>5. writing' = [writing EXCEPT ![g] = @ \cup {e}]
  BY <1>1, WritingGrows DEF BeginAppend
<1>6. held' = held
  BY DEF BeginAppend, held
<1> HIDE DEF e
<1>7. Replication!Fresh(e.id)
  <2>1. SUFFICES ASSUME NEW k \in Gateways, NEW f \in held[k] \cup writing[k] PROVE f.id # e.id
    BY DEF Replication!Fresh
  <2>2. PICK r \in rows[k] \cup appending[k] : f = Abstract(r)
    BY Mapped
  <2>3. f.id = r.id
    BY <2>2 DEF Abstract
  <2>4. QED
    BY <1>3, <1>4, <2>3
<1>8. \A f \in held[g] : f.cursor < e.cursor
  <2>1. \A r \in rows[g] : r.cursor \in Nat
    BY <1>1 DEF TypeOK, Row
  <2>2. \A r \in rows[g] : r.cursor < LogHead(g) + 1
    BY <1>2, <2>1
  <2>3. QED
    BY <1>4, <2>2, Mapped DEF Abstract
<1>9. e.cursor = 1 \/ \E f \in held[g] : f.cursor = e.cursor - 1
  <2>1. CASE LogHead(g) = 0
    BY <1>4, <2>1
  <2>2. CASE \E r \in rows[g] : r.cursor = LogHead(g)
    <3>1. PICK r \in rows[g] : r.cursor = LogHead(g)
      BY <2>2
    <3>2. Abstract(r) \in held[g] /\ Abstract(r).cursor = LogHead(g)
      BY <3>1, Mapped DEF Abstract
    <3>3. (LogHead(g) + 1) - 1 = LogHead(g)
      BY <1>2
    <3>4. QED
      BY <1>4, <3>2, <3>3
  <2>3. QED
    BY <1>2, <2>1, <2>2
<1>10. e \in writing'[g] /\ e \notin writing[g]
  <2>1. writing'[g] = writing[g] \cup {e}
    BY <1>5 DEF writing
  <2>2. QED
    BY <1>7, <2>1 DEF Replication!Fresh
<1>11. Replication!Start(g, e)
  BY <1>4, <1>5, <1>6, <1>7, <1>8, <1>9 DEF Replication!Start
<1>12. QED
  BY <1>10, <1>11 DEF Replication!Next, Replication!Started

\* The second half finishes it, a failed statement gives it up.
LEMMA CommitFinishes ==
    ASSUME SyncInv, NEW g \in Gateways, NEW r, CommitAppend(g, r)
    PROVE  Replication!Next
<1>1. held' = [held EXCEPT ![g] = @ \cup {Abstract(r)}]
  BY HeldGrows DEF SyncInv, CommitAppend
<1>2. writing' = [writing EXCEPT ![g] = @ \ {Abstract(r)}] /\ Abstract(r) \in writing[g]
  BY WritingShrinks DEF CommitAppend
<1>3. Replication!Finish(g, Abstract(r))
  BY <1>1, <1>2 DEF Replication!Finish
<1>4. QED
  BY <1>2, <1>3 DEF Replication!Next

LEMMA FailGivesUp ==
    ASSUME SyncInv, NEW g \in Gateways, NEW r, FailAppend(g, r)
    PROVE  Replication!Next
<1>1. held' = held
  BY DEF FailAppend, held
<1>2. writing' = [writing EXCEPT ![g] = @ \ {Abstract(r)}] /\ Abstract(r) \in writing[g]
  BY WritingShrinks DEF FailAppend
<1>3. Replication!GiveUp(g, Abstract(r))
  BY <1>1, <1>2 DEF Replication!GiveUp
<1>4. QED
  BY <1>2, <1>3 DEF Replication!Next

\* Storing an entry of the peer is a Deliver from its author.
LEMMA SyncEntryDelivers ==
    ASSUME SyncInv, NEW g \in Gateways, sync_entry(g)
    PROVE  [Replication!Next]_<<held, writing>>
<1>0. writing' = writing
  BY DEF sync_entry, writing
<1>1. CASE rows' = rows
  BY <1>0, <1>1 DEF held
<1>2. CASE Copies(g)
  <2>1. PICK e \in rows[Peer(g)] :
            /\ e.gateway = Peer(g)
            /\ rows' = [rows EXCEPT ![g] = @ \cup {[e EXCEPT !.project = g]}]
    BY <1>2 DEF Copies
  <2>2. Peer(g) \in Gateways /\ Peer(g) \in Peers(g)
    BY EntryTaken DEF sync_entry
  <2>3. e \in Row
    BY <2>2 DEF SyncInv, TypeOK
  <2>4. Abstract([e EXCEPT !.project = g]) = Abstract(e)
    BY <2>3 DEF Abstract, Row
  <2>5. held' = [held EXCEPT ![g] = @ \cup {Abstract(e)}]
    BY <2>1, <2>4, HeldGrows DEF SyncInv
  <2>6. Abstract(e) \in held[Peer(g)] /\ Abstract(e).author = Peer(g)
    BY <2>1, <2>2, Mapped DEF Abstract
  <2>7. Replication!Deliver(g, Peer(g))
    BY <1>0, <2>2, <2>5, <2>6 DEF Replication!Deliver
  <2>8. QED
    BY <2>2, <2>7 DEF Replication!Next
<1>3. QED
  BY <1>1, <1>2, SyncEntryCopies

\* A step adds no row, commits one at a writer, or stores one at a gateway that
\* pulls; and it leaves the INSERTs under way alone, or is a step of one of them.
LEMMA RowsStep ==
    ASSUME [Next]_vars
    PROVE  \/ rows' = rows /\ appending' = appending
           \/ \E g \in Writers, id \in Ids : BeginAppend(g, id)
           \/ \E g \in Writers : \E r \in appending[g] : CommitAppend(g, r)
           \/ \E g \in Writers : \E r \in appending[g] : FailAppend(g, r)
           \/ \E g \in Gateways : sync_entry(g)
BY DEF Next, vars, create, sync_project, sync_task_log_entries,
       sync_task_log_head, sync_entry_fails, sync_done, Abort, Crash

\* Every other step leaves the logs alone.
LEMMA StepRefines == SyncInv /\ [Next]_vars => [Replication!Next]_<<held, writing>>
<1> SUFFICES ASSUME SyncInv, [Next]_vars PROVE [Replication!Next]_<<held, writing>>
  OBVIOUS
<1>1. CASE \/ \E g \in Writers, id \in Ids : BeginAppend(g, id)
           \/ \E g \in Writers : \E r \in appending[g] : CommitAppend(g, r)
           \/ \E g \in Writers : \E r \in appending[g] : FailAppend(g, r)
  BY <1>1, BeginStarts, CommitFinishes, FailGivesUp, WritersAssumption
<1>2. CASE \E g \in Gateways : sync_entry(g)
  BY <1>2, SyncEntryDelivers
<1>3. CASE rows' = rows /\ appending' = appending
  BY <1>3 DEF held, writing
<1>4. \/ rows' = rows /\ appending' = appending
      \/ \E g \in Writers, id \in Ids : BeginAppend(g, id)
      \/ \E g \in Writers : \E r \in appending[g] : CommitAppend(g, r)
      \/ \E g \in Writers : \E r \in appending[g] : FailAppend(g, r)
      \/ \E g \in Gateways : sync_entry(g)
  BY RowsStep
<1>5. QED
  BY <1>1, <1>2, <1>3, <1>4

\* Overlapping appends and the pull loops implement LogReplication for every set
\* of gateways, every peering and any number of lost inserts, aborted sessions and
\* crashes: an entry is above all its author held when its INSERT started, no
\* entry appears under a name whose gateway did not write it, none changes its
\* cursor on the way, none is relayed, none is lost once held.
THEOREM SyncImplementsReplication == Spec => ImplementsReplication
<1>1. Init => Replication!Init
  BY DEF Init, Replication!Init, held, writing, Entries
<1>2. SyncInv /\ [Next]_vars => [Replication!Next]_<<held, writing>>
  BY StepRefines
<1>3. QED
  BY <1>1, <1>2, SpecSyncInv, PTL DEF Spec, ImplementsReplication, Replication!Spec

-----------------------------------------------------------------------------

\* A UUID names one entry: wherever a row with this id is held, author, cursor,
\* signature and history are the same.
IdsFixRows ==
    \A g, h \in Gateways : \A r \in rows[g], s \in rows[h] :
        r.id = s.id => /\ r.gateway = s.gateway /\ r.cursor = s.cursor
                       /\ r.signed = s.signed /\ r.before = s.before

\* Every row is signed for the project of the gateway that wrote it.
OwnSignature == \A g \in Gateways : \A r \in rows[g] : r.signed = r.gateway

\* A row was written by its holder, or is held by its author, a peer of the holder.
Provenance ==
    \A g \in Gateways : \A r \in rows[g] :
        \/ r.gateway = g /\ g \in Writers
        \/ r.gateway \in Peers(g) /\ \E o \in rows[r.gateway] : o.id = r.id

\* An INSERT saw committed rows only, and its cursor is above those the gateway
\* wrote itself.
SeenCommitted ==
    \A h \in Gateways : \A r \in Authored(h) \cup appending[h] : r.before \subseteq IdsOf(rows[h])

AboveSeen ==
    \A h \in Gateways : \A r \in Authored(h) \cup appending[h] : \A s \in Authored(h) :
        s.id \in r.before => s.cursor < r.cursor

\* The INSERTs under way: written by the gateway, with ids nobody holds.
OwnAppends ==
    \A h \in Gateways : \A r \in appending[h] :
        r.gateway = h /\ r.signed = h /\ r.cursor > 0

FreshAppends ==
    \A h \in Gateways : \A r \in appending[h] : \A k \in Gateways :
        /\ \A s \in rows[k] : s.id # r.id
        /\ \A s \in appending[k] : s.id = r.id => k = h /\ s = r

RowsInv ==
    /\ IdsFixRows /\ OwnSignature /\ Provenance
    /\ SeenCommitted /\ AboveSeen
    /\ OwnAppends /\ FreshAppends

\* g has the entry of row r.
Copied(g, r) == \E s \in rows[g] : s.id = r.id

\* g has an entry of h, no smaller than r, whose append overlapped that of r.
Passed(g, h, r) ==
    \E s \in Authored(h) : Copied(g, s) /\ r.cursor <= s.cursor /\ Overlap(r, s)

\* r was committed after the session asked: no INSERT of h among the entries
\* that are left saw it.
Unseen(g, h, r) == \A e \in session[g].entries : e.gateway = h => r.id \notin e.before

\* The mirror g of h has everything up to its head but what it passed in flight,
\* asks from there, and during a session misses only what the session still has
\* to insert or did not see.
NoHole(g, h) ==
    /\ \A r \in Authored(h) : r.cursor <= LogHead(g) => Copied(g, r) \/ Passed(g, h, r)
    /\ session[g].pc = "since" => session[g].after = LogHead(g)
    /\ session[g].pc \in {"head", "insert"} =>
           \A r \in Authored(h) : \/ Copied(g, r) \/ Passed(g, h, r)
                                  \/ r \in session[g].entries \/ Unseen(g, h, r)

MirrorInv ==
    insert_failures = 0 => \A g, h \in Gateways : Mirrors(g, h) => NoHole(g, h)

\* What a pulled entry adds: a row its author, the peer, holds.
LEMMA CopyAdds ==
    ASSUME SyncInv, NEW g \in Gateways, sync_entry(g), rows' # rows
    PROVE  \E e \in rows[Peer(g)], x \in Row :
               /\ x.id = e.id /\ x.project = g /\ x.gateway = e.gateway
               /\ x.cursor = e.cursor /\ x.signed = e.signed /\ x.before = e.before
               /\ e.gateway = Peer(g) /\ Peer(g) \in Gateways /\ Peer(g) \in Peers(g)
               /\ Peer(g) # g
               /\ rows'[g] = rows[g] \cup {x}
               /\ \A k \in Gateways : k # g => rows'[k] = rows[k]
<1>1. rows \in [Gateways -> SUBSET Row]
  BY DEF SyncInv, TypeOK
<1>2. PICK e \in rows[Peer(g)] :
          /\ e.gateway = Peer(g)
          /\ rows' = [rows EXCEPT ![g] = @ \cup {[e EXCEPT !.project = g]}]
  BY SyncEntryCopies DEF Copies
<1>3. Peer(g) \in Gateways /\ Peer(g) \in Peers(g) /\ turn[g] \in DOMAIN PeersOf[g]
  BY EntryTaken DEF sync_entry
<1>4. Peer(g) # g
  BY <1>3, NoSelfPeering DEF Peer
<1> DEFINE x == [e EXCEPT !.project = g]
<1>5. e \in Row
  BY <1>1, <1>3
<1>6. x \in Row /\ x.id = e.id /\ x.project = g /\ x.gateway = e.gateway
      /\ x.cursor = e.cursor /\ x.signed = e.signed /\ x.before = e.before
  BY <1>5 DEF Row
<1>7. rows'[g] = rows[g] \cup {x} /\ \A k \in Gateways : k # g => rows'[k] = rows[k]
  BY <1>1, <1>2
<1> HIDE DEF x
<1>8. QED
  BY <1>2, <1>3, <1>4, <1>6, <1>7

LEMMA BeginRowsInv ==
    ASSUME SyncInv, RowsInv, NEW g \in Gateways, NEW id \in Ids, BeginAppend(g, id)
    PROVE  RowsInv'
<1> DEFINE x == NewRow(g, id)
<1>1. /\ x \in Row /\ x.id = id /\ x.project = g /\ x.gateway = g /\ x.signed = g
      /\ x.cursor = LogHead(g) + 1 /\ LogHead(g) \in Nat
      /\ x.before = IdsOf(rows[g])
      /\ \A k \in Gateways : \A r \in rows[k] \cup appending[k] : r.id # id
  BY NewRowTypes
<1>2. rows' = rows /\ appending' = [appending EXCEPT ![g] = @ \cup {x}]
  BY DEF BeginAppend
<1> HIDE DEF x
<1>3. \A k \in Gateways : appending'[k] = IF k = g THEN appending[g] \cup {x} ELSE appending[k]
  BY <1>2 DEF SyncInv, TypeOK
<1>4. \A k \in Gateways : Authored(k)' = Authored(k)
  BY <1>2 DEF Authored
<1>5. \A k \in Gateways : \A r \in appending'[k] : r \in appending[k] \/ (k = g /\ r = x)
  BY <1>3
<1>6. IdsFixRows' /\ OwnSignature' /\ Provenance'
  BY <1>2 DEF RowsInv, IdsFixRows, OwnSignature, Provenance, Peers
<1>7. SeenCommitted'
  BY <1>1, <1>2, <1>4, <1>5 DEF RowsInv, SeenCommitted
<1>8. AboveSeen'
  <2>1. ASSUME NEW s \in Authored(g) PROVE s.cursor < x.cursor
    <3>1. s \in rows[g] /\ s.cursor \in Nat
      BY DEF Authored, SyncInv, TypeOK, Row
    <3>2. s.cursor <= LogHead(g)
      BY <3>1, LogHeadIsMax
    <3>3. QED
      BY <1>1, <3>1, <3>2
  <2>2. QED
    BY <1>4, <1>5, <2>1 DEF RowsInv, AboveSeen
<1>9. OwnAppends'
  <2>1. x.cursor > 0
    BY <1>1
  <2>2. QED
    BY <1>1, <1>5, <2>1 DEF RowsInv, OwnAppends
<1>10. FreshAppends'
  BY <1>1, <1>2, <1>5 DEF RowsInv, FreshAppends
<1>11. QED
  BY <1>6, <1>7, <1>8, <1>9, <1>10 DEF RowsInv

\* What a commit adds.
LEMMA CommitAdds ==
    ASSUME SyncInv, RowsInv, NEW g \in Gateways, NEW x, CommitAppend(g, x)
    PROVE  /\ x \in appending[g] /\ x \in Row /\ x.gateway = g /\ x.signed = g /\ x.cursor > 0
           /\ rows'[g] = rows[g] \cup {x}
           /\ \A k \in Gateways : k # g => rows'[k] = rows[k]
           /\ \A k \in Gateways : \A r \in rows[k] : r.id # x.id
           /\ \A k \in Gateways : appending'[k] \subseteq appending[k] /\ x \notin appending'[k]
           /\ \A k \in Gateways : k # g => Authored(k)' = Authored(k)
           /\ Authored(g)' = Authored(g) \cup {x}
<1>1. rows \in [Gateways -> SUBSET Row] /\ appending \in [Gateways -> SUBSET Row]
  BY DEF SyncInv, TypeOK
<1>2. x \in appending[g] /\ x \in Row /\ x.gateway = g /\ x.signed = g /\ x.cursor > 0
  BY <1>1 DEF CommitAppend, RowsInv, OwnAppends
<1>3. rows'[g] = rows[g] \cup {x} /\ \A k \in Gateways : k # g => rows'[k] = rows[k]
  BY <1>1 DEF CommitAppend
<1>4. \A k \in Gateways : \A r \in rows[k] : r.id # x.id
  BY <1>2 DEF RowsInv, FreshAppends
<1>5. \A k \in Gateways : appending'[k] = IF k = g THEN appending[g] \ {x} ELSE appending[k]
  BY <1>1 DEF CommitAppend
<1>6. \A k \in Gateways : k # g => x \notin appending[k]
  BY <1>2 DEF RowsInv, FreshAppends
<1>7. /\ \A k \in Gateways : k # g => Authored(k)' = Authored(k)
      /\ Authored(g)' = Authored(g) \cup {x}
  BY <1>2, <1>3 DEF Authored
<1>8. QED
  BY <1>2, <1>3, <1>4, <1>5, <1>6, <1>7

LEMMA CommitRowsInv ==
    ASSUME SyncInv, RowsInv, NEW g \in Writers, NEW x, CommitAppend(g, x)
    PROVE  RowsInv'
<1>0. g \in Gateways
  BY WritersAssumption
<1>1. /\ x \in appending[g] /\ x \in Row /\ x.gateway = g /\ x.signed = g /\ x.cursor > 0
      /\ rows'[g] = rows[g] \cup {x}
      /\ \A k \in Gateways : k # g => rows'[k] = rows[k]
      /\ \A k \in Gateways : \A r \in rows[k] : r.id # x.id
      /\ \A k \in Gateways : appending'[k] \subseteq appending[k] /\ x \notin appending'[k]
      /\ \A k \in Gateways : k # g => Authored(k)' = Authored(k)
      /\ Authored(g)' = Authored(g) \cup {x}
  BY <1>0, CommitAdds
<1>2. \A k \in Gateways : \A r \in rows'[k] : r \in rows[k] \/ (k = g /\ r = x)
  BY <1>1
<1>3. \A k \in Gateways : rows[k] \subseteq rows'[k]
  BY <1>1
<1>4. IdsFixRows'
  BY <1>1, <1>2 DEF RowsInv, IdsFixRows
<1>5. OwnSignature'
  BY <1>1, <1>2 DEF RowsInv, OwnSignature
<1>6. Provenance'
  <2>1. SUFFICES ASSUME NEW k \in Gateways, NEW r \in rows'[k]
                 PROVE  \/ r.gateway = k /\ k \in Writers
                        \/ r.gateway \in Peers(k) /\ \E o \in rows'[r.gateway] : o.id = r.id
    BY DEF Provenance, Peers
  <2>2. CASE r \in rows[k]
    <3>1. r.gateway \in Gateways
      BY <2>2 DEF SyncInv, TypeOK, Row
    <3>2. QED
      BY <1>3, <2>2, <3>1 DEF RowsInv, Provenance
  <2>3. CASE k = g /\ r = x
    BY <1>1, <2>3
  <2>4. QED
    BY <1>2, <2>2, <2>3
<1>7. \A k \in Gateways : \A r \in Authored(k)' \cup appending'[k] : r \in Authored(k) \cup appending[k]
  BY <1>1
<1>8. SeenCommitted'
  <2>1. \A k \in Gateways : IdsOf(rows[k]) \subseteq IdsOf(rows'[k])
    BY <1>3 DEF IdsOf
  <2>2. \A k \in Gateways : \A r \in Authored(k)' \cup appending'[k] : r.before \subseteq IdsOf(rows'[k])
    BY <1>7, <2>1 DEF RowsInv, SeenCommitted
  <2>3. QED
    BY <2>2 DEF SeenCommitted, IdsOf
<1>9. AboveSeen'
  <2>1. \A r \in Authored(g) \cup appending[g] : x.id \notin r.before
    <3>1. x.id \notin IdsOf(rows[g])
      BY <1>0, <1>1 DEF IdsOf
    <3>2. QED
      BY <1>0, <3>1 DEF RowsInv, SeenCommitted
  <2>2. \A k \in Gateways : \A s \in Authored(k)' : s \in Authored(k) \/ (k = g /\ s = x)
    BY <1>1
  <2>3. QED
    BY <1>7, <2>1, <2>2 DEF RowsInv, AboveSeen
<1>10. OwnAppends'
  BY <1>1 DEF RowsInv, OwnAppends
<1>11. FreshAppends'
  BY <1>0, <1>1, <1>2 DEF RowsInv, FreshAppends
<1>12. QED
  BY <1>4, <1>5, <1>6, <1>8, <1>9, <1>10, <1>11 DEF RowsInv

LEMMA FailRowsInv ==
    ASSUME SyncInv, RowsInv, NEW g \in Gateways, NEW x, FailAppend(g, x)
    PROVE  RowsInv'
<1>1. rows' = rows /\ appending' = [appending EXCEPT ![g] = @ \ {x}]
  BY DEF FailAppend
<1>2. \A k \in Gateways : appending'[k] \subseteq appending[k] /\ Authored(k)' = Authored(k)
  BY <1>1 DEF SyncInv, TypeOK, Authored
<1>3. QED
  BY <1>1, <1>2 DEF RowsInv, IdsFixRows, OwnSignature, Provenance, SeenCommitted, AboveSeen,
     OwnAppends, FreshAppends, Peers

LEMMA CopyRowsInv ==
    ASSUME SyncInv, RowsInv, NEW g \in Gateways, sync_entry(g), rows' # rows
    PROVE  RowsInv'
<1>1. PICK e \in rows[Peer(g)], x \in Row :
          /\ x.id = e.id /\ x.project = g /\ x.gateway = e.gateway
          /\ x.cursor = e.cursor /\ x.signed = e.signed /\ x.before = e.before
          /\ e.gateway = Peer(g) /\ Peer(g) \in Gateways /\ Peer(g) \in Peers(g)
          /\ Peer(g) # g
          /\ rows'[g] = rows[g] \cup {x}
          /\ \A k \in Gateways : k # g => rows'[k] = rows[k]
  BY CopyAdds
<1>2. \A k \in Gateways : \A r \in rows'[k] : r \in rows[k] \/ (k = g /\ r = x)
  BY <1>1
<1>3. IdsFixRows'
  <2>1. \A k \in Gateways : \A s \in rows[k] :
            s.id = x.id => /\ s.gateway = x.gateway /\ s.cursor = x.cursor
                           /\ s.signed = x.signed /\ s.before = x.before
    BY <1>1 DEF RowsInv, IdsFixRows
  <2>2. QED
    BY <1>2, <2>1 DEF RowsInv, IdsFixRows
<1>4. OwnSignature'
  BY <1>1, <1>2 DEF RowsInv, OwnSignature
<1>5. SeenCommitted' /\ AboveSeen' /\ OwnAppends'
  <2>1. \A h \in Gateways : Authored(h)' = Authored(h)
    BY <1>1 DEF Authored
  <2>2. appending' = appending
    BY DEF sync_entry
  <2>3. \A h \in Gateways : IdsOf(rows[h]) \subseteq IdsOf(rows[h])'
    BY <1>1 DEF IdsOf
  <2>4. QED
    BY <2>1, <2>2, <2>3 DEF RowsInv, SeenCommitted, AboveSeen, OwnAppends
<1>6. Provenance'
  <2>1. SUFFICES ASSUME NEW k \in Gateways, NEW r \in rows'[k]
                 PROVE  \/ r.gateway = k /\ k \in Writers
                        \/ r.gateway \in Peers(k) /\ \E o \in rows'[r.gateway] : o.id = r.id
    BY DEF Provenance, Peers
  <2>2. CASE r \in rows[k]
    <3>1. r.gateway \in Gateways
      BY <2>2 DEF SyncInv, TypeOK, Row
    <3>2. rows[r.gateway] \subseteq rows'[r.gateway]
      BY <1>1, <3>1
    <3>3. QED
      BY <2>2, <3>2 DEF RowsInv, Provenance
  <2>3. CASE k = g /\ r = x
    BY <1>1, <2>3
  <2>4. QED
    BY <1>2, <2>2, <2>3
<1>7. FreshAppends'
  <2>1. appending' = appending
    BY DEF sync_entry
  <2>2. \A h \in Gateways : \A r \in appending[h] : r.id # x.id
    BY <1>1 DEF RowsInv, FreshAppends
  <2>3. QED
    BY <1>2, <2>1, <2>2 DEF RowsInv, FreshAppends
<1>8. QED
  BY <1>3, <1>4, <1>5, <1>6, <1>7 DEF RowsInv

LEMMA NextRowsInv ==
    ASSUME SyncInv, RowsInv, [Next]_vars
    PROVE  RowsInv'
<1>1. CASE rows' = rows /\ appending' = appending
  BY <1>1 DEF RowsInv, IdsFixRows, OwnSignature, Provenance, SeenCommitted, AboveSeen,
     OwnAppends, FreshAppends, Authored, Peers
<1>2. CASE \E g \in Writers, id \in Ids : BeginAppend(g, id)
  BY <1>2, BeginRowsInv, WritersAssumption
<1>3. CASE \E g \in Writers : \E r \in appending[g] : CommitAppend(g, r)
  BY <1>3, CommitRowsInv
<1>4. CASE \E g \in Writers : \E r \in appending[g] : FailAppend(g, r)
  BY <1>4, FailRowsInv, WritersAssumption
<1>5. CASE rows' # rows /\ \E g \in Gateways : sync_entry(g)
  BY <1>5, CopyRowsInv
<1>6. CASE rows' = rows /\ \E g \in Gateways : sync_entry(g)
  BY <1>1, <1>6 DEF sync_entry
<1>7. QED
  BY <1>1, <1>2, <1>3, <1>4, <1>5, <1>6, RowsStep

\* The largest cursor of a log, whatever step produced the log.
LEMMA HeadIsMax ==
    ASSUME NEW g, NEW R \in SUBSET Row, \A r \in R : r.project = g,
           of_project(R, g) # {} => \E r \in R : IsHead(R, g, r)
    PROVE  /\ head_cursor(R, g) \in Nat
           /\ \A r \in R : r.cursor <= head_cursor(R, g)
           /\ head_cursor(R, g) = 0 \/ \E r \in R : r.cursor = head_cursor(R, g)
<1>1. of_project(R, g) = R
  BY DEF of_project
<1>2. CASE R = {}
  BY <1>1, <1>2 DEF head_cursor
<1>3. CASE R # {}
  <2> DEFINE h == CHOOSE r \in R : IsHead(R, g, r)
  <2>1. h \in R /\ IsHead(R, g, h)
    BY <1>1, <1>3
  <2>2. head_cursor(R, g) = h.cursor
    BY <1>1, <1>3 DEF head_cursor
  <2>3. h.cursor \in Nat
    BY <2>1 DEF Row
  <2>4. QED
    BY <1>1, <2>1, <2>2, <2>3 DEF IsHead
<1>4. QED
  BY <1>2, <1>3

\* The head after a step.
LEMMA NewHead ==
    ASSUME SyncInv', NEW g \in Gateways
    PROVE  /\ LogHead(g)' \in Nat
           /\ \A r \in rows'[g] : r.cursor <= LogHead(g)'
           /\ LogHead(g)' = 0 \/ \E r \in rows'[g] : r.cursor = LogHead(g)'
<1>1. rows'[g] \in SUBSET Row /\ \A r \in rows'[g] : r.project = g
  BY DEF SyncInv, TypeOK, OwnProject
<1>2. of_project(rows'[g], g) # {} => \E r \in rows'[g] : IsHead(rows'[g], g, r)
  BY DEF SyncInv, HeadsExist
<1>3. LogHead(g)' = head_cursor(rows'[g], g)
  BY DEF LogHead
<1>4. QED
  BY <1>1, <1>2, <1>3, HeadIsMax

\* A mirror's peer is the one it mirrors, its rows are its peer's, and it is
\* not its own peer.
LEMMA MirrorRows ==
    ASSUME SyncInv, RowsInv, NEW g \in Gateways, NEW h \in Gateways, Mirrors(g, h)
    PROVE  /\ g # h
           /\ session[g] # Idle => Peer(g) = h
           /\ \A s \in rows[g] : \E o \in Authored(h) : o.id = s.id /\ o.cursor = s.cursor
<1>1. g # h
  <2>1. PICK n \in DOMAIN PeersOf[g] : PeersOf[g][n] = h
    BY DEF Mirrors, Peers
  <2>2. QED
    BY <2>1, NoSelfPeering
<1>2. session[g] # Idle => Peer(g) = h
  BY PeerIsPeer DEF SyncInv, InTurn, Mirrors
<1>3. ASSUME NEW s \in rows[g]
      PROVE  \E o \in Authored(h) : o.id = s.id /\ o.cursor = s.cursor
  <2>1. s.gateway = h
    BY DEF RowsInv, Provenance, Mirrors
  <2>2. PICK o \in rows[h] : o.id = s.id
    BY <2>1 DEF RowsInv, Provenance, Mirrors
  <2>3. o.gateway = h /\ o.cursor = s.cursor
    BY <2>1, <2>2 DEF RowsInv, IdsFixRows
  <2>4. QED
    BY <2>2, <2>3 DEF Authored
<1>4. QED
  BY <1>1, <1>2, <1>3

\* What g passed stays passed.
LEMMA PassedStays ==
    ASSUME NEW g \in Gateways, NEW h \in Gateways,
           rows[g] \subseteq rows'[g], Authored(h) \subseteq Authored(h)'
    PROVE  (\A r : Copied(g, r) => Copied(g, r)') /\ (\A r : Passed(g, h, r) => Passed(g, h, r)')
<1>1. \A r : Copied(g, r) => Copied(g, r)'
  BY DEF Copied
<1>2. ASSUME NEW r, Passed(g, h, r) PROVE Passed(g, h, r)'
  <2>1. PICK s \in Authored(h) : Copied(g, s) /\ r.cursor <= s.cursor /\ Overlap(r, s)
    BY <1>2 DEF Passed
  <2>2. s \in Authored(h)' /\ Copied(g, s)'
    BY <1>1, <2>1
  <2>3. QED
    BY <2>1, <2>2 DEF Passed, Overlap
<1>3. QED
  BY <1>1, <1>2

\* A commit at the mirrored gateway: what the mirror holds at or above the new
\* entry was committed while the INSERT was under way, and no entry of a session
\* saw it.
LEMMA CommitNoHole ==
    ASSUME SyncInv, RowsInv, NEW g \in Gateways, NEW h \in Gateways,
           Mirrors(g, h), NoHole(g, h), NEW x, CommitAppend(h, x)
    PROVE  NoHole(g, h)'
<1>1. /\ x \in appending[h] /\ x \in Row /\ x.cursor > 0
      /\ \A k \in Gateways : k # h => rows'[k] = rows[k]
      /\ \A r \in rows[h] : r.id # x.id
      /\ Authored(h)' = Authored(h) \cup {x}
  BY CommitAdds
<1>2. /\ g # h
      /\ session[g] # Idle => Peer(g) = h
      /\ \A s \in rows[g] : \E o \in Authored(h) : o.id = s.id /\ o.cursor = s.cursor
  BY MirrorRows
<1>3. rows'[g] = rows[g] /\ LogHead(g)' = LogHead(g) /\ session' = session
  BY <1>1, <1>2 DEF LogHead, CommitAppend
<1>4. (\A r : Copied(g, r) => Copied(g, r)') /\ (\A r : Passed(g, h, r) => Passed(g, h, r)')
  BY <1>1, <1>3, PassedStays
<1>5. \A o \in Authored(h) : x.id \notin o.before
  <2>1. x.id \notin IdsOf(rows[h])
    BY <1>1 DEF IdsOf
  <2>2. QED
    BY <2>1 DEF RowsInv, SeenCommitted
<1>6. ASSUME x.cursor <= LogHead(g) PROVE Passed(g, h, x)
  <2>1. x.cursor \in Nat /\ LogHead(g) \in Nat
        /\ (LogHead(g) = 0 \/ \E r \in rows[g] : r.cursor = LogHead(g))
    BY <1>1, LogHeadIsMax DEF Row
  <2>2. PICK s \in rows[g] : s.cursor = LogHead(g)
    BY <1>1, <1>6, <2>1
  <2>3. PICK o \in Authored(h) : o.id = s.id /\ o.cursor = s.cursor
    BY <1>2
  <2>4. x.cursor <= o.cursor /\ o.cursor \in Nat
    BY <1>6, <2>1, <2>2, <2>3
  <2>5. o.id \notin x.before
    <3>1. o.id \in x.before => o.cursor < x.cursor
      BY <1>1 DEF RowsInv, AboveSeen
    <3>2. QED
      BY <2>1, <2>4, <3>1
  <2>6. Copied(g, o)
    BY <2>3 DEF Copied
  <2>7. QED
    BY <1>5, <2>4, <2>5, <2>6 DEF Passed, Overlap
<1>7. \A r \in Authored(h)' : r.cursor <= LogHead(g)' => Copied(g, r)' \/ Passed(g, h, r)'
  BY <1>1, <1>3, <1>4, <1>6 DEF NoHole
<1>8. session'[g].pc = "since" => session'[g].after = LogHead(g)'
  BY <1>3 DEF NoHole
<1>9. ASSUME session'[g].pc \in {"head", "insert"}, NEW r \in Authored(h)'
      PROVE  \/ Copied(g, r)' \/ Passed(g, h, r)'
             \/ r \in session'[g].entries \/ Unseen(g, h, r)'
  <2>1. session[g] # Idle
    BY <1>3, <1>9 DEF Idle
  <2>2. session[g].entries \subseteq rows[h]
    BY <1>2, <1>3, <1>9, <2>1 DEF SyncInv, Served
  <2>3. CASE r \in Authored(h)
    <3>1. Unseen(g, h, r) => Unseen(g, h, r)'
      BY <1>3 DEF Unseen
    <3>2. QED
      BY <1>3, <1>4, <1>9, <2>3, <3>1 DEF NoHole
  <2>4. CASE r = x
    <3>1. \A e \in session[g].entries : e.gateway = h => e \in Authored(h)
      BY <2>2 DEF Authored
    <3>2. QED
      BY <1>3, <1>5, <2>4, <3>1 DEF Unseen
  <2>5. QED
    BY <1>1, <2>3, <2>4
<1>10. QED
  BY <1>7, <1>8, <1>9 DEF NoHole

\* The mirror takes an entry: the smallest cursor left, so what it passes over is
\* not the peer's own, or is held already, or overlapped the entry it takes.
LEMMA EntryNoHole ==
    ASSUME SyncInv, SyncInv', RowsInv, NEW g \in Gateways, NEW h \in Gateways,
           Mirrors(g, h), NoHole(g, h), sync_entry(g)
    PROVE  NoHole(g, h)'
<1>1. /\ g # h
      /\ session[g] # Idle => Peer(g) = h
  BY MirrorRows
<1>2. session[g] # Idle /\ session[g].pc = "insert"
  BY DEF sync_entry, Idle
<1>3. PICK e \in session[g].entries :
           /\ IsNextEntry(g, e)
           /\ rows' = IF accepts(h, e)
                      THEN [rows EXCEPT ![g] = insert_peer_entry(g, e)]
                      ELSE rows
           /\ EntryDone(g, e)
  BY <1>1, <1>2 DEF sync_entry
<1>4. rows \in [Gateways -> SUBSET Row] /\ session \in [Gateways -> SessionState]
  BY DEF SyncInv, TypeOK
<1>5. session[g].entries \subseteq rows[h]
  BY <1>1, <1>2 DEF SyncInv, Served
<1>6. e \in rows[h] /\ e \in Row /\ e.cursor \in Nat
  BY <1>3, <1>4, <1>5 DEF Row
<1>7. session'[g].pc = "insert" /\ session'[g].entries = session[g].entries \ {e}
  <2>1. session[g] \in [pc : {"insert"}, after : Nat, entries : SUBSET Row, head : Nat]
    BY <1>2, <1>4 DEF SessionState, Idle
  <2>2. session'[g] = [session[g] EXCEPT !.entries = @ \ {e}]
    BY <1>3, <1>4 DEF EntryDone, Goto
  <2>3. QED
    BY <2>1, <2>2
<1>8. rows'[h] = rows[h] /\ Authored(h)' = Authored(h)
  <2>1. rows'[h] = rows[h]
    BY <1>1, <1>3, <1>4
  <2>2. QED
    BY <2>1 DEF Authored
<1>9. \A s \in rows'[g] : s \in rows[g] \/ (accepts(h, e) /\ s.id = e.id /\ s.cursor = e.cursor)
  <2>1. [e EXCEPT !.project = g].id = e.id /\ [e EXCEPT !.project = g].cursor = e.cursor
    BY <1>6 DEF Row
  <2>2. QED
    BY <1>3, <1>4, <2>1 DEF insert_peer_entry
<1>10. rows[g] \subseteq rows'[g] /\ (accepts(h, e) => \E s \in rows'[g] : s.id = e.id)
  <2>1. [e EXCEPT !.project = g].id = e.id
    BY <1>6 DEF Row
  <2>2. QED
    BY <1>3, <1>4, <2>1 DEF insert_peer_entry
<1>11. (\A r : Copied(g, r) => Copied(g, r)') /\ (\A r : Passed(g, h, r) => Passed(g, h, r)')
  BY <1>8, <1>10, PassedStays
<1>12. accepts(h, e) => Copied(g, e)' /\ e \in Authored(h)
  BY <1>6, <1>10 DEF Copied, Authored, accepts
<1>13. e \in Authored(h) => accepts(h, e)
  BY <1>6 DEF Authored, accepts, verify_entry, RowsInv, OwnSignature
<1>14. /\ LogHead(g) \in Nat /\ LogHead(g)' \in Nat
       /\ \A r \in rows[g] : r.cursor <= LogHead(g)
       /\ LogHead(g)' <= LogHead(g) \/ (accepts(h, e) /\ LogHead(g)' = e.cursor)
  <2>1. LogHead(g) \in Nat /\ \A r \in rows[g] : r.cursor <= LogHead(g)
    BY LogHeadIsMax
  <2>2. LogHead(g)' \in Nat /\ (LogHead(g)' = 0 \/ \E r \in rows'[g] : r.cursor = LogHead(g)')
    BY NewHead
  <2>3. CASE LogHead(g)' = 0
    BY <2>1, <2>3
  <2>4. CASE \E r \in rows'[g] : r.cursor = LogHead(g)'
    <3>1. PICK r \in rows'[g] : r.cursor = LogHead(g)'
      BY <2>4
    <3>2. CASE r \in rows[g]
      BY <2>1, <2>2, <3>1, <3>2
    <3>3. CASE accepts(h, e) /\ r.cursor = e.cursor
      BY <2>1, <2>2, <3>1, <3>3
    <3>4. QED
      BY <1>9, <3>2, <3>3
  <2>5. QED
    BY <2>1, <2>2, <2>3, <2>4
<1>15. \A r \in Authored(h) : r.cursor \in Nat
  BY <1>4 DEF Authored, Row
<1>16. \A r \in Authored(h) : \/ Copied(g, r) \/ Passed(g, h, r)
                             \/ r \in session[g].entries \/ Unseen(g, h, r)
  BY <1>2 DEF NoHole
<1>17. ASSUME NEW r \in Authored(h), r.cursor <= LogHead(g)'
       PROVE  Copied(g, r)' \/ Passed(g, h, r)'
  <2>1. CASE r.cursor <= LogHead(g)
    BY <1>11, <2>1 DEF NoHole
  <2>2. CASE ~(r.cursor <= LogHead(g))
    <3>1. accepts(h, e) /\ r.cursor <= e.cursor
      BY <1>6, <1>14, <1>15, <1>17, <2>2
    <3>2. e \in Authored(h) /\ Copied(g, e)' /\ e \in Authored(h)' /\ e.gateway = h
      BY <1>8, <1>12, <3>1 DEF Authored
    <3>3. e.id \notin r.before
      <4>1. e.id \in r.before => e.cursor < r.cursor
        BY <3>2 DEF RowsInv, AboveSeen
      <4>2. QED
        BY <1>6, <1>15, <3>1, <4>1
    <3>4. ASSUME r.id \notin e.before PROVE Passed(g, h, r)'
      BY <3>1, <3>2, <3>3, <3>4 DEF Passed, Overlap
    <3>5. CASE r \in session[g].entries
      <4>1. e.cursor <= r.cursor
        BY <1>3, <3>5 DEF IsNextEntry
      <4>2. r.id \in e.before => r.cursor < e.cursor
        BY <3>2 DEF RowsInv, AboveSeen
      <4>3. QED
        BY <1>6, <1>15, <3>4, <4>1, <4>2
    <3>6. CASE Unseen(g, h, r)
      BY <1>3, <3>2, <3>4, <3>6 DEF Unseen
    <3>7. QED
      BY <1>11, <1>16, <3>5, <3>6
  <2>3. QED
    BY <2>1, <2>2
<1>18. ASSUME NEW r \in Authored(h)
       PROVE  \/ Copied(g, r)' \/ Passed(g, h, r)'
              \/ r \in session'[g].entries \/ Unseen(g, h, r)'
  <2>1. CASE Copied(g, r) \/ Passed(g, h, r)
    BY <1>11, <2>1
  <2>2. CASE r \in session[g].entries
    BY <1>7, <1>12, <1>13, <2>2
  <2>3. CASE Unseen(g, h, r)
    BY <1>7, <2>3 DEF Unseen
  <2>4. QED
    BY <1>16, <2>1, <2>2, <2>3
<1>19. QED
  BY <1>7, <1>8, <1>17, <1>18 DEF NoHole

\* A step that changes neither the mirror's session nor its rows, and adds
\* nothing of h's own.
LEMMA OtherNoHole ==
    ASSUME NEW g \in Gateways, NEW h \in Gateways, NoHole(g, h),
           rows'[g] = rows[g], Authored(h)' = Authored(h), session'[g] = session[g]
    PROVE  NoHole(g, h)'
<1>1. LogHead(g)' = LogHead(g)
  BY DEF LogHead
<1>2. (\A r : Copied(g, r) => Copied(g, r)') /\ (\A r : Passed(g, h, r) => Passed(g, h, r)')
  BY PassedStays
<1>3. \A r : Unseen(g, h, r) => Unseen(g, h, r)'
  BY DEF Unseen
<1>4. QED
  BY <1>1, <1>2, <1>3 DEF NoHole

\* A step of the mirror's own session that stores nothing.
LEMMA SessionNoHole ==
    ASSUME SyncInv, RowsInv, NEW g \in Gateways, NEW h \in Gateways,
           Mirrors(g, h), NoHole(g, h),
           \/ sync_project(g) \/ sync_task_log_entries(g) \/ sync_task_log_head(g)
           \/ sync_done(g) \/ Abort(g) \/ Crash(g)
    PROVE  NoHole(g, h)'
<1>1. rows' = rows
  BY DEF sync_project, sync_task_log_entries, sync_task_log_head, sync_done, Abort, Crash
<1>2. LogHead(g)' = LogHead(g) /\ Authored(h)' = Authored(h)
  BY <1>1 DEF LogHead, Authored
<1>3. (\A r : Copied(g, r) => Copied(g, r)') /\ (\A r : Passed(g, h, r) => Passed(g, h, r)')
  BY <1>1, <1>2, PassedStays
<1>4. session \in [Gateways -> SessionState] /\ rows \in [Gateways -> SUBSET Row]
  BY DEF SyncInv, TypeOK
<1>5. session[g] # Idle => Peer(g) = h
  BY MirrorRows
<1>6. CASE session' = session
  <2>1. session'[g] = session[g] /\ rows'[g] = rows[g]
    BY <1>1, <1>6
  <2>2. QED
    BY <1>2, <2>1, OtherNoHole
<1>7. CASE session'[g].pc = "idle"
  BY <1>2, <1>3, <1>7 DEF NoHole
<1>8. CASE Goto(g, [pc |-> "since", after |-> LogHead(g)])
  <2>1. session'[g].pc = "since" /\ session'[g].after = LogHead(g)
    BY <1>4, <1>8 DEF Goto
  <2>2. QED
    BY <1>2, <1>3, <2>1 DEF NoHole
<1>9. CASE sync_task_log_entries(g)
  <2>1. session[g].pc = "since" /\ session[g] # Idle
    BY <1>9 DEF sync_task_log_entries, Idle
  <2>2. session[g].after = LogHead(g)
    BY <2>1 DEF NoHole
  <2>3. session'[g].pc = "head" /\ session'[g].entries = since(rows[h], h, LogHead(g))
    BY <1>4, <1>5, <1>9, <2>1, <2>2 DEF sync_task_log_entries, Goto
  <2>4. LogHead(g) \in Nat
    BY LogHeadIsMax
  <2>5. ASSUME NEW r \in Authored(h)
        PROVE  Copied(g, r) \/ Passed(g, h, r) \/ r \in session'[g].entries
    <3>1. r \in rows[h] /\ r.cursor \in Nat /\ r.project = h
      BY <1>4 DEF Authored, Row, SyncInv, OwnProject
    <3>2. CASE r.cursor <= LogHead(g)
      BY <3>2 DEF NoHole
    <3>3. CASE r.cursor > LogHead(g)
      BY <2>3, <3>1, <3>3 DEF since, of_project
    <3>4. QED
      BY <2>4, <3>1, <3>2, <3>3
  <2>6. QED
    BY <1>2, <1>3, <2>3, <2>5 DEF NoHole
<1>10. CASE sync_task_log_head(g)
  <2>1. session[g].pc = "head"
    BY <1>10 DEF sync_task_log_head
  <2>2. session'[g].pc = "insert" /\ session'[g].entries = session[g].entries
    BY <1>4, <1>10 DEF sync_task_log_head, Goto
  <2>3. \A r : Unseen(g, h, r) => Unseen(g, h, r)'
    BY <2>2 DEF Unseen
  <2>4. QED
    BY <1>2, <1>3, <2>1, <2>2, <2>3 DEF NoHole
<1>11. CASE sync_project(g)
  BY <1>6, <1>8, <1>11 DEF sync_project, local_cursor
<1>12. CASE sync_done(g) \/ Abort(g) \/ Crash(g)
  <2>1. session' = [session EXCEPT ![g] = Idle]
    BY <1>12 DEF sync_done, Abort, Crash, Goto
  <2>2. session'[g].pc = "idle"
    BY <1>4, <2>1 DEF Idle
  <2>3. QED
    BY <1>7, <2>2
<1>13. QED
  BY <1>9, <1>10, <1>11, <1>12

LEMMA NextMirrorInv ==
    ASSUME SyncInv, SyncInv', RowsInv, MirrorInv, [Next]_vars
    PROVE  MirrorInv'
<1>1. insert_failures' = 0 => insert_failures = 0 /\ ~(\E k \in Gateways : sync_entry_fails(k))
  <2>1. insert_failures \in Nat
    BY DEF SyncInv, TypeOK
  <2>2. ASSUME NEW k \in Gateways, sync_entry_fails(k) PROVE insert_failures' # 0
    BY <2>1, <2>2 DEF sync_entry_fails
  <2>3. insert_failures' = insert_failures \/ \E k \in Gateways : sync_entry_fails(k)
    BY DEF Next, vars, create, BeginAppend, CommitAppend, FailAppend, sync_project, sync_task_log_entries,
           sync_task_log_head, sync_entry, sync_done, Abort, Crash
  <2>4. QED
    BY <2>2, <2>3
<1>2. SUFFICES ASSUME insert_failures' = 0, NEW g \in Gateways, NEW h \in Gateways, Mirrors(g, h)
               PROVE  NoHole(g, h)'
  BY DEF MirrorInv, Mirrors, Peers
<1>3. NoHole(g, h)
  BY <1>1, <1>2 DEF MirrorInv
<1>4. g # h
  BY <1>2, MirrorRows
<1>5. session \in [Gateways -> SessionState] /\ rows \in [Gateways -> SUBSET Row]
  BY DEF SyncInv, TypeOK
<1>6. CASE \E r \in appending[h] : CommitAppend(h, r)
  BY <1>2, <1>3, <1>6, CommitNoHole
<1>7. CASE sync_entry(g)
  BY <1>2, <1>3, <1>7, EntryNoHole
<1>8. CASE \/ sync_project(g) \/ sync_task_log_entries(g) \/ sync_task_log_head(g)
           \/ sync_done(g) \/ Abort(g) \/ Crash(g)
  BY <1>2, <1>3, <1>8, SessionNoHole
<1>9. CASE \/ UNCHANGED vars
           \/ \E k \in Gateways : \/ create(k) \/ \E id \in Ids : BeginAppend(k, id)
                                  \/ \E r \in appending[k] : FailAppend(k, r)
  <2>1. rows' = rows /\ session' = session
    BY <1>9 DEF vars, create, BeginAppend, FailAppend
  <2>2. rows'[g] = rows[g] /\ Authored(h)' = Authored(h) /\ session'[g] = session[g]
    BY <2>1 DEF Authored
  <2>3. QED
    BY <1>3, <2>2, OtherNoHole
<1>10. CASE \E k \in Writers : k # h /\ \E r \in appending[k] : CommitAppend(k, r)
  <2>1. PICK k \in Writers : k # h /\ \E r \in appending[k] : CommitAppend(k, r)
    BY <1>10
  <2>2. k # g /\ k \in Gateways
    BY <1>2, WritersAssumption DEF Mirrors
  <2>3. rows'[g] = rows[g] /\ rows'[h] = rows[h] /\ session' = session
    BY <1>5, <2>1, <2>2 DEF CommitAppend
  <2>4. Authored(h)' = Authored(h) /\ session'[g] = session[g]
    BY <2>3 DEF Authored
  <2>5. QED
    BY <1>3, <2>3, <2>4, OtherNoHole
<1>11. CASE \E k \in Gateways : k # g /\ sync_entry(k)
  <2>1. PICK k \in Gateways : k # g /\ sync_entry(k)
    BY <1>11
  <2>2. session'[g] = session[g]
    BY <1>5, <2>1 DEF sync_entry, EntryDone, Goto
  <2>3. rows'[g] = rows[g] /\ Authored(h)' = Authored(h)
    <3>1. CASE rows' = rows
      BY <3>1 DEF Authored
    <3>2. CASE rows' # rows
      <4>1. PICK e \in rows[Peer(k)], x \in Row :
                /\ x.gateway = e.gateway /\ e.gateway = Peer(k) /\ Peer(k) # k
                /\ rows'[k] = rows[k] \cup {x}
                /\ \A j \in Gateways : j # k => rows'[j] = rows[j]
        BY <2>1, <3>2, CopyAdds
      <4>2. QED
        BY <2>1, <4>1 DEF Authored
    <3>3. QED
      BY <3>1, <3>2
  <2>4. QED
    BY <1>3, <2>2, <2>3, OtherNoHole
<1>12. CASE \E k \in Gateways :
               /\ k # g
               /\ \/ sync_project(k) \/ sync_task_log_entries(k) \/ sync_task_log_head(k)
                  \/ sync_done(k) \/ Abort(k) \/ Crash(k)
  <2>1. rows' = rows /\ session'[g] = session[g]
    BY <1>5, <1>12 DEF sync_project, sync_task_log_entries, sync_task_log_head,
       sync_done, Abort, Crash, Goto
  <2>2. rows'[g] = rows[g] /\ Authored(h)' = Authored(h)
    BY <2>1 DEF Authored
  <2>3. QED
    BY <1>3, <2>1, <2>2, OtherNoHole
<1>13. QED
  BY <1>1, <1>2, <1>6, <1>7, <1>8, <1>9, <1>10, <1>11, <1>12, WritersAssumption DEF Next

\* A row is the copy of another one with the same id.
LEMMA CopiedHasCopy ==
    ASSUME SyncInv, RowsInv, NEW g \in Gateways, NEW h \in Gateways,
           NEW r \in rows[h], Copied(g, r)
    PROVE  HasCopy(g, r)
<1>1. PICK s \in rows[g] : s.id = r.id
  BY DEF Copied
<1>2. r \in Row /\ s \in Row
  BY <1>1 DEF SyncInv, TypeOK
<1>3. /\ s.gateway = r.gateway /\ s.cursor = r.cursor /\ s.signed = r.signed
      /\ s.before = r.before /\ s.project = g
  BY <1>1 DEF RowsInv, IdsFixRows, SyncInv, OwnProject
<1>4. s = [r EXCEPT !.project = g]
  BY <1>1, <1>2, <1>3 DEF Row
<1>5. QED
  BY <1>1, <1>4 DEF HasCopy

\* A gateway that writes nothing itself and pulls from one peer lacks, up to its
\* own head, only entries whose append overlapped one it holds with a cursor no
\* smaller: at every moment and for every length of log, aborted sessions, crashes
\* and appends in the middle of a pull leave no other hole, as long as no
\* insert_peer_entry error is swallowed by .ok().
THEOREM MirrorsMissOnlyOverlaps == Spec => []MirrorIsPrefix
<1>1. Init => SyncInv /\ RowsInv /\ MirrorInv
  <2> SUFFICES ASSUME Init PROVE RowsInv /\ MirrorInv
    BY InitSyncInv
  <2>1. \A g \in Gateways : /\ rows[g] = {} /\ appending[g] = {} /\ Authored(g) = {}
                            /\ session[g].pc = "idle"
    BY DEF Init, Authored, Idle
  <2>2. QED
    BY <2>1 DEF RowsInv, IdsFixRows, OwnSignature, Provenance, SeenCommitted, AboveSeen,
       OwnAppends, FreshAppends, MirrorInv, NoHole
<1>2. SyncInv /\ RowsInv /\ MirrorInv /\ [Next]_vars => (SyncInv /\ RowsInv /\ MirrorInv)'
  BY NextSyncInv, NextRowsInv, NextMirrorInv
<1>3. SyncInv /\ RowsInv /\ MirrorInv => MirrorIsPrefix
  <2>1. SUFFICES ASSUME SyncInv, RowsInv, MirrorInv, insert_failures = 0,
                        NEW g \in Gateways, NEW h \in Gateways, Mirrors(g, h),
                        NEW r \in Authored(h), r.cursor <= LogHead(g)
                 PROVE  HasCopy(g, r) \/ PassedInFlight(g, h, r)
    BY DEF MirrorIsPrefix
  <2>2. Copied(g, r) \/ Passed(g, h, r)
    BY <2>1 DEF MirrorInv, NoHole
  <2>3. \A s \in Authored(h) : Copied(g, s) => HasCopy(g, s)
    BY <2>1, CopiedHasCopy DEF Authored
  <2>4. QED
    BY <2>2, <2>3 DEF Passed, PassedInFlight
<1>4. QED
  BY <1>1, <1>2, <1>3, PTL DEF Spec
=============================================================================
