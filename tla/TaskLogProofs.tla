--------------------------- MODULE TaskLogProofs ---------------------------
(***************************************************************************)
(* What TaskLog guarantees for every set of writers, projects, ids and    *)
(* peer cursors, and what it guarantees when appends never overlap.       *)
(***************************************************************************)
EXTENDS TaskLog, TLAPS

(***************************************************************************)
(* The inductive invariant.  RealTimeOrder and NoGapBelowAppend speak of   *)
(* committed rows only; they are preserved by CommitAppend because the     *)
(* rows still in flight satisfy them already, and because the ids an       *)
(* INSERT saw are ids of rows that stay committed.                         *)
(***************************************************************************)
UniqueIds ==
    \A r, s \in rows \cup Pending : r.id = s.id => r = s

PendingUncommitted ==
    \A r \in Pending : r.id \notin IdsOf(rows)

OneStatementPerWriter ==
    \A w \in Writers : \A r, s \in inflight[w] : r = s

PendingOwned ==
    \A v, w \in Writers : inflight[v] \cap inflight[w] # {} => v = w

\* Only local appends are ever in flight.
PendingLocal == \A r \in Pending : r.gateway = Local

SeenCommitted ==
    \A r \in rows \cup Pending : r.before \subseteq IdsOf(rows)

PendingOrder ==
    \A r \in Pending, s \in rows : s.id \in r.before => s.cursor < r.cursor

PendingNoGap ==
    \A r \in Pending : r.cursor > 1 =>
        \E s \in of_project(rows, r.project) : s.cursor = r.cursor - 1

\* MAX(cursor) exists in every project that has rows.
HeadsExist ==
    \A p \in Projects : of_project(rows, p) # {} => \E r \in rows : IsHead(rows, p, r)

LogInv ==
    /\ TypeOK
    /\ UniqueIds /\ PendingUncommitted
    /\ OneStatementPerWriter /\ PendingOwned /\ PendingLocal
    /\ SeenCommitted
    /\ HeadsExist
    /\ PendingOrder /\ PendingNoGap
    /\ RealTimeOrder /\ NoGapBelowAppend

\* head_cursor is the cursor of a row no other row of the project exceeds, and
\* 0 for a project without rows.
LEMMA HeadCursorIsMax ==
    ASSUME NEW R \in SUBSET Row, NEW p,
           of_project(R, p) # {} => \E r \in R : IsHead(R, p, r)
    PROVE  /\ head_cursor(R, p) \in Nat
           /\ \A s \in of_project(R, p) : s.cursor <= head_cursor(R, p)
           /\ \/ head_cursor(R, p) = 0
              \/ \E r \in of_project(R, p) : r.cursor = head_cursor(R, p)
<1>1. CASE of_project(R, p) = {}
  BY <1>1 DEF head_cursor
<1>2. CASE of_project(R, p) # {}
  <2> DEFINE h == CHOOSE r \in of_project(R, p) : IsHead(R, p, r)
  <2>1. \E r \in of_project(R, p) : IsHead(R, p, r)
    BY <1>2 DEF IsHead
  <2>2. h \in of_project(R, p) /\ IsHead(R, p, h)
    BY <2>1
  <2>3. head_cursor(R, p) = h.cursor
    BY <1>2 DEF head_cursor
  <2>4. h.cursor \in Nat
    BY <2>2 DEF of_project, Row
  <2> QED
    BY <2>2, <2>3, <2>4 DEF IsHead
<1> QED
  BY <1>1, <1>2

\* Committing new rows of one project keeps a largest cursor in every project.
LEMMA HeadSurvivesInsert ==
    ASSUME NEW R \in SUBSET Row, NEW x \in Row, NEW p,
           of_project(R, p) # {} => \E r \in R : IsHead(R, p, r)
    PROVE  of_project(R \cup {x}, p) # {} =>
               \E r \in R \cup {x} : IsHead(R \cup {x}, p, r)
<1>1. CASE x.project # p
  <2>1. of_project(R \cup {x}, p) = of_project(R, p)
    BY <1>1 DEF of_project
  <2> QED
    BY <2>1 DEF IsHead
<1>2. CASE x.project = p /\ of_project(R, p) = {}
  <2>1. of_project(R \cup {x}, p) = {x}
    BY <1>2 DEF of_project
  <2>2. x.cursor <= x.cursor
    BY DEF Row
  <2> QED
    BY <2>1, <2>2 DEF IsHead
<1>3. CASE x.project = p /\ of_project(R, p) # {}
  <2>1. PICK h \in R : IsHead(R, p, h)
    BY <1>3
  <2>2. of_project(R \cup {x}, p) = of_project(R, p) \cup {x}
    BY <1>3 DEF of_project
  <2>3. /\ h.cursor \in Nat /\ x.cursor \in Nat
        /\ \A s \in of_project(R, p) : s.cursor \in Nat /\ s.cursor <= h.cursor
    BY <2>1 DEF of_project, Row, IsHead
  <2>4. CASE x.cursor <= h.cursor
    <3>1. IsHead(R \cup {x}, p, h)
      BY <2>1, <2>2, <2>3, <2>4 DEF IsHead
    <3> QED BY <3>1
  <2>5. CASE ~(x.cursor <= h.cursor)
    <3>1. IsHead(R \cup {x}, p, x)
      BY <2>2, <2>3, <2>5 DEF IsHead
    <3> QED BY <3>1
  <2> QED
    BY <2>4, <2>5
<1> QED
  BY <1>1, <1>2, <1>3

LEMMA InitLogInv == Init => LogInv
<1> SUFFICES ASSUME Init PROVE LogInv
  OBVIOUS
<1>1. rows = {} /\ Pending = {} /\ \A w \in Writers : inflight[w] = {}
  BY DEF Init, Pending
<1>2. TypeOK
  BY DEF Init, TypeOK
<1> QED
  BY <1>1, <1>2 DEF LogInv, UniqueIds, PendingUncommitted, OneStatementPerWriter,
     PendingOwned, PendingLocal, SeenCommitted, HeadsExist, PendingOrder, PendingNoGap,
     RealTimeOrder, NoGapBelowAppend, of_project

\* BeginAppend adds one row in flight, above everything it saw.
LEMMA BeginAppendLogInv ==
    ASSUME LogInv, NEW w \in Writers, NEW p \in Projects, NEW id \in Ids,
           BeginAppend(w, p, id)
    PROVE  LogInv'
<1> DEFINE x == [id |-> id, project |-> p, gateway |-> Local,
                 cursor |-> next_cursor(rows, p),
                 before |-> IdsOf(of_project(rows, p))]
<1>0. /\ inflight[w] = {} /\ id \notin IdsOf(rows \cup Pending)
      /\ inflight' = [inflight EXCEPT ![w] = {x}]
      /\ rows' = rows /\ viewer' = viewer
  BY DEF BeginAppend
<1>1. TypeOK
  BY DEF LogInv
<1>2. /\ head_cursor(rows, p) \in Nat
      /\ \A s \in of_project(rows, p) : s.cursor <= head_cursor(rows, p)
      /\ \/ head_cursor(rows, p) = 0
         \/ \E r \in of_project(rows, p) : r.cursor = head_cursor(rows, p)
  BY HeadCursorIsMax, <1>1 DEF LogInv, HeadsExist, TypeOK
<1>3. x.before \subseteq IdsOf(rows) /\ x.before \subseteq Ids
  BY <1>1 DEF IdsOf, of_project, TypeOK, Row
<1>4. x \in Row
  <2>1. x.cursor \in Nat
    BY <1>2 DEF next_cursor
  <2> QED
    BY <2>1, <1>3 DEF Row
<1> HIDE DEF x
<1>5. TypeOK'
  BY <1>0, <1>1, <1>4 DEF TypeOK
<1>6. \A v \in Writers : inflight'[v] = IF v = w THEN {x} ELSE inflight[v]
  BY <1>0, <1>1 DEF TypeOK
<1>7. Pending' = Pending \cup {x}
  BY <1>0, <1>6 DEF Pending
<1>8. x.id = id /\ x.project = p /\ x.gateway = Local
  BY DEF x
<1>9. \A r \in rows \cup Pending : r.id # x.id
  BY <1>0, <1>8 DEF IdsOf
<1>10. UniqueIds'
  BY <1>0, <1>7, <1>9 DEF UniqueIds, LogInv
<1>11. PendingUncommitted'
  BY <1>0, <1>7, <1>9 DEF PendingUncommitted, LogInv, IdsOf
<1>12. OneStatementPerWriter'
  BY <1>6 DEF OneStatementPerWriter, LogInv
<1>13. PendingOwned'
  <2>1. \A v \in Writers : x \notin inflight[v]
    BY <1>9 DEF Pending
  <2> QED
    BY <1>6, <2>1 DEF PendingOwned, LogInv
<1>14. SeenCommitted'
  BY <1>0, <1>3, <1>7 DEF SeenCommitted, LogInv
<1>15. HeadsExist' /\ RealTimeOrder' /\ NoGapBelowAppend'
  BY <1>0 DEF HeadsExist, RealTimeOrder, NoGapBelowAppend, LogInv
<1>16. PendingOrder'
  <2>1. ASSUME NEW s \in rows, s.id \in x.before PROVE s.cursor < x.cursor
    <3>1. PICK t \in of_project(rows, p) : t.id = s.id
      BY <2>1 DEF x, IdsOf
    <3>2. t = s
      BY <3>1 DEF LogInv, UniqueIds, of_project
    <3>3. s.cursor \in Nat /\ s.cursor <= head_cursor(rows, p)
      BY <1>1, <1>2, <3>1, <3>2 DEF TypeOK, Row
    <3> QED
      BY <1>2, <3>3 DEF x, next_cursor
  <2> QED
    BY <1>0, <1>7, <2>1 DEF PendingOrder, LogInv
<1>17. PendingNoGap'
  <2>1. ASSUME x.cursor > 1
        PROVE  \E s \in of_project(rows, x.project) : s.cursor = x.cursor - 1
    <3>1. x.cursor = head_cursor(rows, p) + 1
      BY DEF x, next_cursor
    <3> QED
      BY <1>2, <1>8, <2>1, <3>1
  <2> QED
    BY <1>0, <1>7, <2>1 DEF PendingNoGap, LogInv
<1>18. PendingLocal'
  BY <1>7, <1>8 DEF PendingLocal, LogInv
<1> QED
  BY <1>5, <1>10, <1>11, <1>12, <1>13, <1>14, <1>15, <1>16, <1>17, <1>18 DEF LogInv

\* CommitAppend moves one row from in flight to committed.
LEMMA CommitAppendLogInv ==
    ASSUME LogInv, NEW w \in Writers, CommitAppend(w)
    PROVE  LogInv'
<1>0. /\ inflight[w] # {} /\ rows' = rows \cup inflight[w]
      /\ inflight' = [inflight EXCEPT ![w] = {}] /\ viewer' = viewer
  BY DEF CommitAppend
<1>1. TypeOK
  BY DEF LogInv
<1>2. PICK x \in Row : inflight[w] = {x}
  BY <1>0, <1>1 DEF LogInv, OneStatementPerWriter, TypeOK
<1>3. rows' = rows \cup {x} /\ x \in Pending
  BY <1>0, <1>2 DEF Pending
<1>4. \A v \in Writers : inflight'[v] = IF v = w THEN {} ELSE inflight[v]
  BY <1>0, <1>1 DEF TypeOK
<1>5. Pending' \subseteq Pending /\ x \notin Pending'
  <2>1. \A v \in Writers : v # w => x \notin inflight[v]
    BY <1>2 DEF LogInv, PendingOwned
  <2> QED
    BY <1>4, <2>1 DEF Pending
<1>6. rows' \cup Pending' \subseteq rows \cup Pending
  BY <1>3, <1>5
<1>7. IdsOf(rows') = IdsOf(rows) \cup {x.id} /\ x.id \notin IdsOf(rows)
  BY <1>3 DEF IdsOf, LogInv, PendingUncommitted
<1>8. TypeOK'
  BY <1>0, <1>1, <1>2 DEF TypeOK
<1>9. UniqueIds'
  BY <1>6 DEF UniqueIds, LogInv
<1>10. PendingUncommitted'
  <2>1. \A r \in Pending' : r.id # x.id
    BY <1>3, <1>5 DEF LogInv, UniqueIds
  <2> QED
    BY <1>5, <1>7, <2>1 DEF PendingUncommitted, LogInv
<1>11. OneStatementPerWriter' /\ PendingOwned' /\ PendingLocal'
  BY <1>4, <1>5 DEF OneStatementPerWriter, PendingOwned, PendingLocal, LogInv
<1>12. SeenCommitted'
  BY <1>6, <1>7 DEF SeenCommitted, LogInv
<1>13. HeadsExist'
  <2>1. ASSUME NEW q \in Projects
        PROVE  of_project(rows \cup {x}, q) # {} =>
                   \E r \in rows \cup {x} : IsHead(rows \cup {x}, q, r)
    BY <1>1, HeadSurvivesInsert DEF LogInv, HeadsExist, TypeOK
  <2> QED
    BY <1>3, <2>1 DEF HeadsExist
<1>14. \A r \in rows \cup Pending : x.id \notin r.before
  BY <1>7 DEF LogInv, SeenCommitted
<1>15. PendingOrder'
  BY <1>3, <1>5, <1>14 DEF PendingOrder, LogInv
<1>16. RealTimeOrder'
  BY <1>3, <1>14 DEF RealTimeOrder, PendingOrder, LogInv
<1>17. \A q : of_project(rows, q) \subseteq of_project(rows', q)
  BY <1>3 DEF of_project
<1>18. PendingNoGap'
  BY <1>5, <1>17 DEF PendingNoGap, LogInv
<1>19. NoGapBelowAppend'
  BY <1>3, <1>17 DEF NoGapBelowAppend, PendingNoGap, LogInv
<1> QED
  BY <1>8, <1>9, <1>10, <1>11, <1>12, <1>13, <1>15, <1>16, <1>18, <1>19 DEF LogInv

\* A failed INSERT leaves no trace.
LEMMA FailAppendLogInv ==
    ASSUME LogInv, NEW w \in Writers, FailAppend(w)
    PROVE  LogInv'
<1>0. /\ inflight' = [inflight EXCEPT ![w] = {}]
      /\ rows' = rows /\ viewer' = viewer
  BY DEF FailAppend
<1>1. TypeOK /\ TypeOK'
  BY <1>0 DEF LogInv, TypeOK
<1>2. \A v \in Writers : inflight'[v] \subseteq inflight[v]
  BY <1>0, <1>1 DEF TypeOK
<1>3. Pending' \subseteq Pending
  BY <1>2 DEF Pending
<1>4. UniqueIds' /\ PendingUncommitted' /\ SeenCommitted' /\ PendingOrder' /\ PendingNoGap'
  BY <1>0, <1>3 DEF LogInv, UniqueIds, PendingUncommitted, SeenCommitted,
     PendingOrder, PendingNoGap
<1>5. OneStatementPerWriter' /\ PendingOwned' /\ PendingLocal'
  BY <1>2, <1>3 DEF LogInv, OneStatementPerWriter, PendingOwned, PendingLocal
<1>6. HeadsExist' /\ RealTimeOrder' /\ NoGapBelowAppend'
  BY <1>0 DEF LogInv, HeadsExist, RealTimeOrder, NoGapBelowAppend
<1> QED
  BY <1>1, <1>4, <1>5, <1>6 DEF LogInv

\* A peer's entry arrives with a cursor of its own.
LEMMA PeerEntryLogInv ==
    ASSUME LogInv, NEW p \in Projects, NEW id \in Ids, NEW c \in PeerCursors,
           insert_peer_entry(p, id, c)
    PROVE  LogInv'
<1>0. /\ id \notin IdsOf(Pending) /\ inflight' = inflight /\ viewer' = viewer
      /\ Pending' = Pending
  BY DEF insert_peer_entry, Pending
<1>1. CASE id \in IdsOf(rows)
  <2>1. rows' = rows
    BY <1>1 DEF insert_peer_entry
  <2> QED
    BY <1>0, <2>1 DEF LogInv, TypeOK, UniqueIds, PendingUncommitted,
       OneStatementPerWriter, PendingOwned, PendingLocal, SeenCommitted, HeadsExist,
       PendingOrder, PendingNoGap, RealTimeOrder, NoGapBelowAppend
<1>2. CASE id \notin IdsOf(rows)
  <2> DEFINE x == PeerRow(p, id, c)
  <2>1. rows' = rows \cup {x}
    BY <1>2 DEF insert_peer_entry
  <2>2. x \in Row /\ x.id = id /\ x.before \subseteq IdsOf(rows) /\ x.gateway # Local
    <3>1. /\ IdsOf(of_project(rows, p)) \subseteq IdsOf(rows)
          /\ IdsOf(of_project(rows, p)) \subseteq Ids
      BY DEF IdsOf, of_project, LogInv, TypeOK, Row
    <3> QED
      BY <3>1, PeerCursorsAssumption DEF PeerRow, Row, Local, Peer
  <2> HIDE DEF x
  <2>3. TypeOK'
    BY <1>0, <2>1, <2>2 DEF LogInv, TypeOK
  <2>4. \A r \in rows \cup Pending : r.id # x.id
    BY <1>0, <1>2, <2>2 DEF IdsOf
  <2>5. IdsOf(rows') = IdsOf(rows) \cup {x.id}
    BY <2>1 DEF IdsOf
  <2>6. UniqueIds' /\ PendingUncommitted'
    BY <1>0, <2>1, <2>4, <2>5 DEF LogInv, UniqueIds, PendingUncommitted
  <2>7. OneStatementPerWriter' /\ PendingOwned' /\ PendingLocal'
    BY <1>0 DEF LogInv, OneStatementPerWriter, PendingOwned, PendingLocal
  <2>8. SeenCommitted'
    BY <1>0, <2>1, <2>2, <2>5 DEF LogInv, SeenCommitted
  <2>9. HeadsExist'
    <3>1. ASSUME NEW q \in Projects
          PROVE  of_project(rows \cup {x}, q) # {} =>
                     \E r \in rows \cup {x} : IsHead(rows \cup {x}, q, r)
      BY <2>2, HeadSurvivesInsert DEF LogInv, HeadsExist, TypeOK
    <3> QED
      BY <2>1, <3>1 DEF HeadsExist
  <2>10. \A r \in rows \cup Pending : x.id \notin r.before
    BY <1>2, <2>2 DEF LogInv, SeenCommitted
  <2>11. PendingOrder' /\ RealTimeOrder'
    BY <1>0, <2>1, <2>2, <2>10 DEF LogInv, PendingOrder, RealTimeOrder
  <2>12. \A q : of_project(rows, q) \subseteq of_project(rows', q)
    BY <2>1 DEF of_project
  <2>13. PendingNoGap' /\ NoGapBelowAppend'
    BY <1>0, <2>1, <2>2, <2>12 DEF LogInv, PendingNoGap, NoGapBelowAppend
  <2> QED
    BY <2>3, <2>6, <2>7, <2>8, <2>9, <2>11, <2>13 DEF LogInv
<1> QED
  BY <1>1, <1>2

\* The poller only reads the log.
LEMMA PollLogInv ==
    ASSUME LogInv, NEW p \in Projects, task_log_partial(p)
    PROVE  LogInv'
<1> DEFINE entries == since(rows, p, viewer[p].after)
<1>0. rows' = rows /\ inflight' = inflight /\ Pending' = Pending
  BY DEF task_log_partial, Pending
<1>1. viewer' = [viewer EXCEPT ![p] =
               [after |-> IF entries = {} THEN viewer[p].after ELSE head_cursor(entries, p),
                seen  |-> viewer[p].seen \cup IdsOf(entries)]]
  BY DEF task_log_partial
<1>2. entries \subseteq rows /\ entries \in SUBSET Row /\ IdsOf(entries) \subseteq Ids
  BY DEF since, of_project, LogInv, TypeOK, IdsOf, Row
<1>3. of_project(entries, p) # {} => \E r \in entries : IsHead(entries, p, r)
  <2>1. SUFFICES ASSUME of_project(entries, p) # {}
                 PROVE  \E r \in entries : IsHead(entries, p, r)
    OBVIOUS
  <2>2. entries = {r \in of_project(rows, p) : r.cursor > viewer[p].after}
        /\ of_project(entries, p) = entries
    BY DEF since, of_project
  <2>3. PICK h \in rows : IsHead(rows, p, h)
    <3>1. of_project(rows, p) # {}
      BY <2>1, <2>2
    <3> QED
      BY <3>1 DEF LogInv, HeadsExist
  <2>4. viewer[p].after \in Nat /\ \A r \in rows : r.cursor \in Nat
    BY DEF LogInv, TypeOK, Row
  <2>5. PICK e \in entries : e \in of_project(rows, p) /\ e.cursor > viewer[p].after
    BY <2>1, <2>2
  <2>6. e.cursor \in Nat /\ h.cursor \in Nat /\ e.cursor <= h.cursor
    BY <2>3, <2>4, <2>5 DEF IsHead, of_project
  <2>7. h \in entries
    <3>1. h \in of_project(rows, p)
      BY <2>3 DEF IsHead
    <3>2. h.cursor > viewer[p].after
      BY <2>4, <2>5, <2>6
    <3> QED
      BY <2>2, <3>1, <3>2
  <2> QED
    BY <2>2, <2>3, <2>7 DEF IsHead
<1>4. head_cursor(entries, p) \in Nat
  BY <1>2, <1>3, HeadCursorIsMax
<1>5. viewer[p].after \in Nat /\ viewer[p].seen \subseteq Ids
  BY DEF LogInv, TypeOK
<1> HIDE DEF entries
<1>6. TypeOK'
  BY <1>0, <1>1, <1>2, <1>4, <1>5 DEF LogInv, TypeOK
<1> QED
  BY <1>0, <1>6 DEF LogInv, UniqueIds, PendingUncommitted, OneStatementPerWriter,
     PendingOwned, PendingLocal, SeenCommitted, HeadsExist, PendingOrder, PendingNoGap,
     RealTimeOrder, NoGapBelowAppend

LEMMA NextLogInv == LogInv /\ [Next]_vars => LogInv'
<1> SUFFICES ASSUME LogInv, [Next]_vars PROVE LogInv'
  OBVIOUS
<1>1. CASE UNCHANGED vars
  BY <1>1 DEF vars, LogInv, TypeOK, Pending, UniqueIds, PendingUncommitted,
     OneStatementPerWriter, PendingOwned, PendingLocal, SeenCommitted, HeadsExist,
     PendingOrder, PendingNoGap, RealTimeOrder, NoGapBelowAppend
<1>2. CASE Next
  BY <1>2, BeginAppendLogInv, CommitAppendLogInv, FailAppendLogInv,
     PeerEntryLogInv, PollLogInv DEF Next
<1> QED
  BY <1>1, <1>2

LEMMA SpecLogInv == Spec => []LogInv
<1> QED
  BY InitLogInv, NextLogInv, PTL DEF Spec

\* The log's tables keep their types.
THEOREM TypeCorrect == Spec => []TypeOK
<1>1. LogInv => TypeOK
  BY DEF LogInv
<1> QED
  BY <1>1, SpecLogInv, PTL

\* However many appends overlap and whatever peers deliver, an append that
\* starts after an entry was committed gets a larger cursor than that entry.
THEOREM CursorsFollowRealTime == Spec => []RealTimeOrder
<1>1. LogInv => RealTimeOrder
  BY DEF LogInv
<1> QED
  BY <1>1, SpecLogInv, PTL

\* No append skips a cursor.
THEOREM AppendsLeaveNoGap == Spec => []NoGapBelowAppend
<1>1. LogInv => NoGapBelowAppend
  BY DEF LogInv
<1> QED
  BY <1>1, SpecLogInv, PTL

\* Committed entries are never changed or removed, by any action.
THEOREM LogIsAppendOnly == Spec => AppendOnly
<1>1. [Next]_vars => [rows \subseteq rows']_vars
  BY DEF Next, vars, BeginAppend, CommitAppend, FailAppend, insert_peer_entry,
     task_log_partial
<1> QED
  BY <1>1, PTL DEF Spec, AppendOnly

-----------------------------------------------------------------------------
(***************************************************************************)
(* The poller.  Its cursor is that of a row it was sent.  A local append   *)
(* that commits below that cursor later did not see that row, and was not  *)
(* seen by it; a peer's entry that comes below it came after that row.     *)
(***************************************************************************)
AfterWasSent ==
    \A p \in Projects :
        \/ viewer[p].after = 0
        \/ \E s \in of_project(rows, p) :
               s.cursor = viewer[p].after /\ s.id \in viewer[p].seen

CursorsPositive == \A r \in rows \cup Pending : r.cursor > 0

PollInv == LogInv /\ CursorsPositive /\ AfterWasSent /\ MissedOnlyLate

LEMMA InitPollInv == Init => PollInv
<1> SUFFICES ASSUME Init PROVE PollInv
  OBVIOUS
<1>1. rows = {} /\ Pending = {}
  BY DEF Init, Pending
<1>2. \A p \in Projects : viewer[p].after = 0
  BY DEF Init
<1> QED
  BY <1>1, <1>2, InitLogInv DEF PollInv, CursorsPositive, AfterWasSent,
     MissedOnlyLate

\* A new committed row whose INSERT nobody saw keeps the poller's guarantee when
\* it exceeds all it saw, as a local append does, and when it comes from a peer
\* and its INSERT saw all there was.
LEMMA NewRowPollInv ==
    ASSUME PollInv, LogInv', CursorsPositive',
           NEW x \in Row, rows' = rows \cup {x}, viewer' = viewer,
           x.cursor > 0,
           x.id \notin IdsOf(rows),
           \/ /\ x.gateway = Local
              /\ \A s \in rows : s.id \in x.before => s.cursor < x.cursor
           \/ x.gateway = Peer /\ x.before = IdsOf(of_project(rows, x.project))
    PROVE  PollInv'
<1>1. \A q : of_project(rows, q) \subseteq of_project(rows', q)
  BY DEF of_project
<1>2. AfterWasSent'
  BY <1>1 DEF PollInv, AfterWasSent
<1>3. ASSUME x.cursor <= viewer[x.project].after
      PROVE  \E s \in of_project(rows, x.project) :
                 /\ s.id \in viewer[x.project].seen
                 /\ x.cursor <= s.cursor
                 /\ Overlap(x, s) \/ DeliveredAfter(x, s)
  <2>1. x.project \in Projects /\ x.cursor \in Nat /\ viewer[x.project].after \in Nat
    BY DEF Row, PollInv, LogInv, TypeOK
  <2>2. PICK s \in of_project(rows, x.project) :
            s.cursor = viewer[x.project].after /\ s.id \in viewer[x.project].seen
    BY <1>3, <2>1 DEF PollInv, AfterWasSent
  <2>3. s \in rows /\ s.cursor \in Nat
    BY <2>2 DEF of_project, PollInv, LogInv, TypeOK, Row
  <2>4. x.cursor <= s.cursor
    BY <1>3, <2>2
  <2>5. x.id \notin s.before
    BY <2>3 DEF PollInv, LogInv, SeenCommitted
  <2>6. CASE /\ x.gateway = Local
             /\ \A t \in rows : t.id \in x.before => t.cursor < x.cursor
    <3>1. s.id \notin x.before
      BY <2>1, <2>3, <2>4, <2>6
    <3> QED
      BY <2>2, <2>4, <2>5, <2>6, <3>1 DEF Overlap
  <2>7. CASE x.gateway = Peer /\ x.before = IdsOf(of_project(rows, x.project))
    BY <2>2, <2>4, <2>7 DEF DeliveredAfter, IdsOf
  <2> QED
    BY <2>6, <2>7
<1>4. MissedOnlyLate'
  BY <1>1, <1>3 DEF PollInv, MissedOnlyLate
<1> QED
  BY <1>2, <1>4 DEF PollInv

LEMMA BeginAppendPollInv ==
    ASSUME PollInv, NEW w \in Writers, NEW p \in Projects, NEW id \in Ids,
           BeginAppend(w, p, id)
    PROVE  PollInv'
<1> DEFINE x == [id |-> id, project |-> p, gateway |-> Local,
                 cursor |-> next_cursor(rows, p),
                 before |-> IdsOf(of_project(rows, p))]
<1>1. LogInv /\ TypeOK /\ LogInv'
  BY BeginAppendLogInv DEF PollInv, LogInv
<1>2. /\ inflight' = [inflight EXCEPT ![w] = {x}]
      /\ rows' = rows /\ viewer' = viewer /\ inflight[w] = {}
  BY DEF BeginAppend
<1>3. Pending' = Pending \cup {x}
  BY <1>1, <1>2 DEF Pending, TypeOK
<1>4. head_cursor(rows, p) \in Nat
  BY <1>1, HeadCursorIsMax DEF LogInv, HeadsExist, TypeOK
<1>5. x.cursor > 0
  BY <1>4 DEF next_cursor
<1> HIDE DEF x
<1>6. CursorsPositive'
  BY <1>2, <1>3, <1>5 DEF PollInv, CursorsPositive
<1> QED
  BY <1>1, <1>2, <1>6 DEF PollInv, AfterWasSent, MissedOnlyLate

LEMMA CommitAppendPollInv ==
    ASSUME PollInv, NEW w \in Writers, CommitAppend(w)
    PROVE  PollInv'
<1>1. LogInv /\ TypeOK /\ LogInv'
  BY CommitAppendLogInv DEF PollInv, LogInv
<1>2. /\ inflight[w] # {} /\ rows' = rows \cup inflight[w]
      /\ inflight' = [inflight EXCEPT ![w] = {}] /\ viewer' = viewer
  BY DEF CommitAppend
<1>3. PICK x \in Row : inflight[w] = {x}
  BY <1>1, <1>2 DEF LogInv, OneStatementPerWriter, TypeOK
<1>4. rows' = rows \cup {x} /\ x \in Pending
  BY <1>2, <1>3 DEF Pending
<1>5. Pending' \subseteq Pending
  BY <1>1, <1>2 DEF Pending, TypeOK
<1>6. CursorsPositive' /\ x.cursor > 0
  BY <1>4, <1>5 DEF PollInv, CursorsPositive
<1>7. /\ x.id \notin IdsOf(rows) /\ x.gateway = Local
      /\ \A s \in rows : s.id \in x.before => s.cursor < x.cursor
  BY <1>1, <1>4 DEF LogInv, PendingUncommitted, PendingLocal, PendingOrder
<1> QED
  BY <1>1, <1>2, <1>4, <1>6, <1>7, NewRowPollInv

LEMMA FailAppendPollInv ==
    ASSUME PollInv, NEW w \in Writers, FailAppend(w)
    PROVE  PollInv'
<1>1. LogInv'
  BY FailAppendLogInv DEF PollInv
<1>2. rows' = rows /\ viewer' = viewer /\ Pending' \subseteq Pending
  BY DEF FailAppend, Pending, PollInv, LogInv, TypeOK
<1> QED
  BY <1>1, <1>2 DEF PollInv, CursorsPositive, AfterWasSent, MissedOnlyLate

LEMMA PeerEntryPollInv ==
    ASSUME PollInv, NEW p \in Projects, NEW id \in Ids, NEW c \in PeerCursors,
           insert_peer_entry(p, id, c)
    PROVE  PollInv'
<1>1. LogInv'
  BY PeerEntryLogInv DEF PollInv
<1>2. viewer' = viewer /\ Pending' = Pending
  BY DEF insert_peer_entry, Pending
<1>3. CASE rows' = rows
  BY <1>1, <1>2, <1>3 DEF PollInv, CursorsPositive, AfterWasSent, MissedOnlyLate
<1>4. CASE rows' # rows
  <2> DEFINE x == PeerRow(p, id, c)
  <2>1. rows' = rows \cup {x} /\ id \notin IdsOf(rows)
    BY <1>4 DEF insert_peer_entry
  <2>2. /\ x \in Row /\ x.id = id /\ x.cursor > 0 /\ x.gateway = Peer
        /\ x.before = IdsOf(of_project(rows, x.project))
    <3>1. IdsOf(of_project(rows, p)) \subseteq Ids
      BY DEF IdsOf, of_project, PollInv, LogInv, TypeOK, Row
    <3> QED
      BY <3>1, PeerCursorsAssumption DEF PeerRow, Row, Local, Peer
  <2> HIDE DEF x
  <2>3. CursorsPositive'
    BY <1>2, <2>1, <2>2 DEF PollInv, CursorsPositive
  <2> QED
    BY <1>1, <1>2, <2>1, <2>2, <2>3, NewRowPollInv
<1> QED
  BY <1>3, <1>4

\* What one poll does: it sends every row above the old cursor, and the new
\* cursor is the old one or that of a row it sent.
LEMMA PollSends ==
    ASSUME LogInv, NEW p \in Projects, task_log_partial(p)
    PROVE  /\ rows' = rows /\ Pending' = Pending
           /\ \A q \in Projects : q # p => viewer'[q] = viewer[q]
           /\ viewer[p].seen \subseteq viewer'[p].seen
           /\ \A r \in of_project(rows, p) :
                  r.cursor > viewer[p].after => r.id \in viewer'[p].seen
           /\ \/ viewer'[p].after = viewer[p].after
              \/ \E t \in of_project(rows, p) :
                     t.cursor = viewer'[p].after /\ t.cursor > viewer[p].after
<1> DEFINE after == viewer[p].after
           entries == since(rows, p, after)
           newafter == IF entries = {} THEN after ELSE head_cursor(entries, p)
<1>1. TypeOK
  BY DEF LogInv
<1>2. rows' = rows /\ inflight' = inflight /\ Pending' = Pending
  BY DEF task_log_partial, Pending
<1>3. viewer' = [viewer EXCEPT ![p] = [after |-> newafter,
                                       seen  |-> viewer[p].seen \cup IdsOf(entries)]]
  BY DEF task_log_partial
<1>4. /\ viewer'[p].after = newafter
      /\ viewer'[p].seen = viewer[p].seen \cup IdsOf(entries)
      /\ \A q \in Projects : q # p => viewer'[q] = viewer[q]
  BY <1>1, <1>3 DEF TypeOK
<1>5. entries = {r \in of_project(rows, p) : r.cursor > after}
  BY DEF since
<1>6. after \in Nat /\ \A r \in of_project(rows, p) : r.cursor \in Nat
  BY <1>1 DEF TypeOK, of_project, Row
<1>7. \A r \in of_project(rows, p) : r.cursor > after => r.id \in viewer'[p].seen
  BY <1>4, <1>5 DEF IdsOf
<1>8. ASSUME entries # {}
      PROVE  \E t \in of_project(rows, p) : t.cursor = newafter /\ t.cursor > after
  <2>1. of_project(entries, p) = entries
    BY <1>5 DEF of_project
  <2>2. PICK h \in rows : IsHead(rows, p, h)
    <3>1. of_project(rows, p) # {}
      BY <1>5, <1>8
    <3> QED
      BY <3>1 DEF LogInv, HeadsExist
  <2>3. h \in of_project(rows, p) /\ \A s \in of_project(rows, p) : s.cursor <= h.cursor
    BY <2>2 DEF IsHead
  <2>4. PICK e \in of_project(rows, p) : e.cursor > after
    BY <1>5, <1>8
  <2>5. h.cursor > after
    BY <1>6, <2>3, <2>4
  <2>6. h \in entries
    BY <1>5, <2>3, <2>5
  <2>7. IsHead(entries, p, h)
    BY <1>5, <2>1, <2>3, <2>6 DEF IsHead
  <2>8. entries \in SUBSET Row
    BY <1>1, <1>5 DEF of_project, TypeOK
  <2>9. /\ head_cursor(entries, p) \in Nat
        /\ \A s \in entries : s.cursor <= head_cursor(entries, p)
        /\ \/ head_cursor(entries, p) = 0
           \/ \E r \in entries : r.cursor = head_cursor(entries, p)
    <3> HIDE DEF entries
    <3> QED
      BY <2>1, <2>6, <2>7, <2>8, HeadCursorIsMax
  <2>10. h.cursor <= head_cursor(entries, p)
    BY <2>6, <2>9
  <2>11. head_cursor(entries, p) # 0
    <3>1. h.cursor \in Nat
      BY <1>6, <2>3
    <3> HIDE DEF entries, after
    <3> QED
      BY <1>6, <2>5, <2>9, <2>10, <3>1
  <2>12. PICK r \in entries : r.cursor = head_cursor(entries, p)
    BY <2>9, <2>11
  <2>13. r \in of_project(rows, p) /\ r.cursor > after
    BY <1>5, <2>12
  <2>14. newafter = head_cursor(entries, p)
    BY <1>8
  <2> HIDE DEF entries, newafter, after
  <2> QED
    BY <2>12, <2>13, <2>14
<1>9. \/ viewer'[p].after = after
      \/ \E t \in of_project(rows, p) : t.cursor = viewer'[p].after /\ t.cursor > after
  BY <1>4, <1>8
<1> QED
  BY <1>2, <1>4, <1>7, <1>9

LEMMA PollPollInv ==
    ASSUME PollInv, NEW p \in Projects, task_log_partial(p)
    PROVE  PollInv'
<1>1. LogInv' /\ LogInv /\ TypeOK
  BY PollLogInv DEF PollInv, LogInv
<1>2. /\ rows' = rows /\ Pending' = Pending
      /\ \A q \in Projects : q # p => viewer'[q] = viewer[q]
      /\ viewer[p].seen \subseteq viewer'[p].seen
      /\ \A r \in of_project(rows, p) :
             r.cursor > viewer[p].after => r.id \in viewer'[p].seen
      /\ \/ viewer'[p].after = viewer[p].after
         \/ \E t \in of_project(rows, p) :
                t.cursor = viewer'[p].after /\ t.cursor > viewer[p].after
  BY <1>1, PollSends
<1>3. AfterWasSent'
  BY <1>2 DEF PollInv, AfterWasSent
<1>4. ASSUME NEW r \in rows, r.cursor <= viewer'[r.project].after,
             r.id \notin viewer'[r.project].seen
      PROVE  \E s \in of_project(rows, r.project) :
                 /\ s.id \in viewer'[r.project].seen
                 /\ r.cursor <= s.cursor
                 /\ Overlap(r, s) \/ DeliveredAfter(r, s)
  <2>1. r.project \in Projects /\ r.cursor \in Nat
    BY <1>1 DEF TypeOK, Row
  <2>2. CASE r.project # p
    BY <1>2, <1>4, <2>1, <2>2 DEF PollInv, MissedOnlyLate
  <2>3. CASE r.project = p
    <3>1. viewer[p].after \in Nat /\ r \in of_project(rows, p)
      BY <1>1, <2>3 DEF TypeOK, of_project
    <3>2. r.cursor <= viewer[p].after
      BY <1>2, <1>4, <2>1, <2>3, <3>1
    <3> QED
      BY <1>2, <1>4, <2>3, <3>2 DEF PollInv, MissedOnlyLate
  <2> QED
    BY <2>2, <2>3
<1>5. MissedOnlyLate'
  BY <1>2, <1>4 DEF MissedOnlyLate
<1> QED
  BY <1>1, <1>2, <1>3, <1>5 DEF PollInv, CursorsPositive

LEMMA NextPollInv == PollInv /\ [Next]_vars => PollInv'
<1> SUFFICES ASSUME PollInv, [Next]_vars PROVE PollInv'
  OBVIOUS
<1>1. CASE UNCHANGED vars
  <2>1. LogInv'
    BY <1>1, NextLogInv DEF PollInv
  <2> QED
    BY <1>1, <2>1 DEF vars, PollInv, Pending, CursorsPositive, AfterWasSent,
       MissedOnlyLate
<1>2. CASE Next
  BY <1>2, BeginAppendPollInv, CommitAppendPollInv, FailAppendPollInv,
     PeerEntryPollInv, PollPollInv DEF Next
<1> QED
  BY <1>1, <1>2

\* A poller that advances its cursor misses an entry only if it is a local append
\* that was in flight while an entry the poller was sent, with a cursor no smaller,
\* was committed, or a peer's entry delivered when such an entry was in the log:
\* for every number of writers and peer entries.
THEOREM PollerMissesOnlyLateEntries == Spec => []MissedOnlyLate
<1>1. PollInv => MissedOnlyLate
  BY DEF PollInv
<1> QED
  BY <1>1, InitPollInv, NextPollInv, PTL DEF Spec

-----------------------------------------------------------------------------
(***************************************************************************)
(* What the header of task_log.rs promises ("each write atomically gets    *)
(* the next cursor") is true when one writer appends and no peer delivers: *)
(* then the row in flight is above every committed row and above the       *)
(* poller's cursor.                                                        *)
(***************************************************************************)
Serial == (\A v, w \in Writers : v = w) /\ PeerCursors = {}

PendingOnTop ==
    \A r \in Pending : /\ \A s \in of_project(rows, r.project) : s.cursor < r.cursor
                       /\ viewer[r.project].after < r.cursor

ViewerBelowHead ==
    \A p \in Projects : \/ viewer[p].after = 0
                        \/ \E r \in of_project(rows, p) : r.cursor = viewer[p].after

SerialInv ==
    /\ LogInv
    /\ PendingOnTop /\ ViewerBelowHead /\ CursorsPositive
    /\ UniqueCursors /\ ViewerComplete

LEMMA InitSerialInv == Init => SerialInv
<1> SUFFICES ASSUME Init PROVE SerialInv
  OBVIOUS
<1>1. rows = {} /\ Pending = {}
  BY DEF Init, Pending
<1>2. \A p \in Projects : viewer[p].after = 0
  BY DEF Init
<1> QED
  BY <1>1, <1>2, InitLogInv DEF SerialInv, PendingOnTop, ViewerBelowHead,
     CursorsPositive, UniqueCursors, ViewerComplete

LEMMA BeginAppendSerial ==
    ASSUME SerialInv, NEW w \in Writers, NEW p \in Projects, NEW id \in Ids,
           BeginAppend(w, p, id)
    PROVE  SerialInv'
<1> DEFINE x == [id |-> id, project |-> p, gateway |-> Local,
                 cursor |-> next_cursor(rows, p),
                 before |-> IdsOf(of_project(rows, p))]
<1>1. LogInv /\ TypeOK /\ LogInv'
  BY BeginAppendLogInv DEF SerialInv, LogInv
<1>2. /\ inflight' = [inflight EXCEPT ![w] = {x}]
      /\ rows' = rows /\ viewer' = viewer /\ inflight[w] = {}
  BY DEF BeginAppend
<1>3. Pending' = Pending \cup {x}
  BY <1>1, <1>2 DEF Pending, TypeOK
<1>4. /\ head_cursor(rows, p) \in Nat
      /\ \A s \in of_project(rows, p) : s.cursor <= head_cursor(rows, p)
  BY <1>1, HeadCursorIsMax DEF LogInv, HeadsExist, TypeOK
<1>5. \A s \in of_project(rows, p) : s.cursor \in Nat
  BY <1>1 DEF TypeOK, of_project, Row
<1>6. x.project = p /\ x.cursor = head_cursor(rows, p) + 1
  BY DEF next_cursor
<1> HIDE DEF x
<1>7. ASSUME NEW s \in of_project(rows, p) PROVE s.cursor < x.cursor
  <2>1. s.cursor \in Nat /\ s.cursor <= head_cursor(rows, p)
    BY <1>4, <1>5
  <2> QED
    BY <1>4, <1>6, <2>1
<1>8. viewer[p].after < x.cursor
  BY <1>4, <1>6, <1>7 DEF SerialInv, ViewerBelowHead
<1>9. PendingOnTop'
  BY <1>2, <1>3, <1>6, <1>7, <1>8 DEF SerialInv, PendingOnTop
<1>10. CursorsPositive'
  BY <1>2, <1>3, <1>4, <1>6 DEF SerialInv, CursorsPositive
<1> QED
  BY <1>1, <1>2, <1>9, <1>10 DEF SerialInv, ViewerBelowHead, UniqueCursors, ViewerComplete

LEMMA CommitAppendSerial ==
    ASSUME SerialInv, Serial, NEW w \in Writers, CommitAppend(w)
    PROVE  SerialInv'
<1>1. LogInv /\ TypeOK /\ LogInv'
  BY CommitAppendLogInv DEF SerialInv, LogInv
<1>2. /\ inflight[w] # {} /\ rows' = rows \cup inflight[w]
      /\ inflight' = [inflight EXCEPT ![w] = {}] /\ viewer' = viewer
  BY DEF CommitAppend
<1>3. PICK x \in Row : inflight[w] = {x}
  BY <1>1, <1>2 DEF LogInv, OneStatementPerWriter, TypeOK
<1>4. rows' = rows \cup {x} /\ x \in Pending
  BY <1>2, <1>3 DEF Pending
<1>5. Pending' = {}
  BY <1>1, <1>2 DEF Pending, TypeOK, Serial
<1>6. /\ x.cursor \in Nat /\ x.cursor > 0 /\ x.project \in Projects
      /\ \A s \in of_project(rows, x.project) : s.cursor < x.cursor /\ s.cursor \in Nat
      /\ viewer[x.project].after < x.cursor /\ viewer[x.project].after \in Nat
  BY <1>1, <1>4 DEF SerialInv, PendingOnTop, CursorsPositive, Row, TypeOK, of_project
<1>7. PendingOnTop'
  BY <1>5 DEF PendingOnTop
<1>8. ViewerBelowHead'
  <2>1. \A q : of_project(rows, q) \subseteq of_project(rows', q)
    BY <1>4 DEF of_project
  <2> QED
    BY <1>2, <2>1 DEF SerialInv, ViewerBelowHead
<1>9. CursorsPositive'
  BY <1>4, <1>5 DEF SerialInv, CursorsPositive
<1>10. UniqueCursors'
  <2>1. \A s \in rows : s.project = x.project => s.cursor # x.cursor
    BY <1>6 DEF of_project
  <2> QED
    BY <1>4, <2>1 DEF SerialInv, UniqueCursors
<1>11. ViewerComplete'
  <2>1. ~(x.cursor <= viewer[x.project].after)
    BY <1>6
  <2> QED
    BY <1>2, <1>4, <2>1 DEF SerialInv, ViewerComplete
<1> QED
  BY <1>1, <1>7, <1>8, <1>9, <1>10, <1>11 DEF SerialInv

LEMMA FailAppendSerial ==
    ASSUME SerialInv, NEW w \in Writers, FailAppend(w)
    PROVE  SerialInv'
<1>1. LogInv'
  BY FailAppendLogInv DEF SerialInv
<1>2. rows' = rows /\ viewer' = viewer /\ Pending' \subseteq Pending
  BY DEF FailAppend, Pending, SerialInv, LogInv, TypeOK
<1> QED
  BY <1>1, <1>2 DEF SerialInv, PendingOnTop, ViewerBelowHead, CursorsPositive,
     UniqueCursors, ViewerComplete

\* The poller's new cursor is that of a committed row, and everything up to it
\* was sent now or before.
LEMMA PollSerial ==
    ASSUME SerialInv, NEW p \in Projects, task_log_partial(p)
    PROVE  SerialInv'
<1>1. LogInv /\ LogInv' /\ TypeOK
  BY PollLogInv DEF SerialInv, LogInv
<1>2. /\ rows' = rows /\ Pending' = Pending
      /\ \A q \in Projects : q # p => viewer'[q] = viewer[q]
      /\ viewer[p].seen \subseteq viewer'[p].seen
      /\ \A r \in of_project(rows, p) :
             r.cursor > viewer[p].after => r.id \in viewer'[p].seen
      /\ \/ viewer'[p].after = viewer[p].after
         \/ \E t \in of_project(rows, p) :
                t.cursor = viewer'[p].after /\ t.cursor > viewer[p].after
  BY <1>1, PollSends
<1>3. ViewerBelowHead'
  BY <1>2 DEF SerialInv, ViewerBelowHead
<1>4. PendingOnTop'
  <2>1. ASSUME NEW r \in Pending PROVE viewer'[r.project].after < r.cursor
    <3>1. r.project \in Projects
      BY <1>1 DEF TypeOK, Pending, Row
    <3>2. CASE r.project = p
      BY <1>2, <3>2 DEF SerialInv, PendingOnTop
    <3>3. CASE r.project # p
      BY <1>2, <3>1, <3>3 DEF SerialInv, PendingOnTop
    <3> QED BY <3>2, <3>3
  <2> QED
    BY <1>2, <2>1 DEF SerialInv, PendingOnTop
<1>5. ViewerComplete'
  <2>1. ASSUME NEW r \in rows, r.cursor <= viewer'[r.project].after
        PROVE  r.id \in viewer'[r.project].seen
    <3>1. r.project \in Projects /\ r.cursor \in Nat /\ viewer[p].after \in Nat
      BY <1>1 DEF TypeOK, Row
    <3>2. CASE r.project # p
      BY <1>2, <2>1, <3>1, <3>2 DEF SerialInv, ViewerComplete
    <3>3. CASE r.project = p /\ r.cursor > viewer[p].after
      BY <1>2, <3>3 DEF of_project
    <3>4. CASE r.project = p /\ r.cursor <= viewer[p].after
      BY <1>2, <3>4 DEF SerialInv, ViewerComplete
    <3> QED BY <3>1, <3>2, <3>3, <3>4
  <2> QED
    BY <1>2, <2>1 DEF ViewerComplete
<1> QED
  BY <1>1, <1>2, <1>3, <1>4, <1>5 DEF SerialInv, CursorsPositive, UniqueCursors

LEMMA NextSerialInv ==
    ASSUME Serial
    PROVE  SerialInv /\ [Next]_vars => SerialInv'
<1> SUFFICES ASSUME SerialInv, [Next]_vars PROVE SerialInv'
  OBVIOUS
<1>1. CASE UNCHANGED vars
  <2>1. LogInv'
    BY <1>1, NextLogInv DEF SerialInv
  <2> QED
    BY <1>1, <2>1 DEF vars, SerialInv, Pending, PendingOnTop, ViewerBelowHead,
       CursorsPositive, UniqueCursors, ViewerComplete
<1>2. CASE Next
  <2>1. ~ \E p \in Projects, id \in Ids, c \in PeerCursors : insert_peer_entry(p, id, c)
    BY DEF Serial
  <2> QED
    BY <1>2, <2>1, BeginAppendSerial, CommitAppendSerial, FailAppendSerial, PollSerial
       DEF Next
<1> QED
  BY <1>1, <1>2

\* With one writer and no peer entries, every write gets a cursor of its own
\* and the poller of task_log_partial misses no entry.
THEOREM SerialLogIsExact ==
    ASSUME Serial
    PROVE  Spec => [](UniqueCursors /\ ViewerComplete)
<1>1. Init => SerialInv
  BY InitSerialInv
<1>2. SerialInv /\ [Next]_vars => SerialInv'
  BY NextSerialInv
<1>3. SerialInv => UniqueCursors /\ ViewerComplete
  BY DEF SerialInv
<1> QED
  BY <1>1, <1>2, <1>3, PTL DEF Spec
=============================================================================
