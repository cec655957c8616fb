--------------------------- MODULE FileSyncProofs ---------------------------
(***************************************************************************)
(* Proofs about FileSync and the transcripts it exchanges.                 *)
(*                                                                         *)
(* Of transcripts: applied to the old one, a diff gives the contents of    *)
(* the new one, the objects it asks for are enough, and it is empty only   *)
(* if the contents are the same.  All of it is about the files whose lines *)
(* can be read back.                                                       *)
(*                                                                         *)
(* Of scans and pulls: a snapshot made by a scan can be restored, and is   *)
(* the folder's own unless the folder was edited during the scan.  The     *)
(* inductive invariant FileInv says what a scan has read and put so far,   *)
(* and that every head, and every head a pull was told of, has its row.    *)
(***************************************************************************)
EXTENDS FileSync, TLAPS

\* What is parsed from a transcript is a tree again.
LEMMA ParsedIsTree ==
    ASSUME NEW t \in Tree
    PROVE  parse_transcript(t) \in Tree
BY DEF parse_transcript, Tree

\* A path has a file or NoFile, and the hash tells which.
LEMMA HashTellsFile ==
    ASSUME NEW t \in Tree, NEW f \in Paths
    PROVE  /\ t[f] \in TranscriptEntry \cup {NoFile}
           /\ f \in Files(t) <=> t[f].sha256 # "none"
           /\ f \in Files(t) => t[f].sha256 \in Hashes
           /\ f \notin Files(t) => t[f] = NoFile
<1>1. t[f] \in TranscriptEntry \cup {NoFile}
  BY DEF Tree
<1>2. CASE t[f] = NoFile
  BY <1>2 DEF Files, NoFile
<1>3. CASE t[f] \in TranscriptEntry
  <2>1. t[f].sha256 \in Hashes
    BY <1>3 DEF TranscriptEntry
  <2>2. t[f].sha256 # "none"
    BY <2>1, NoFileAssumption
  <2>3. t[f] # NoFile
    BY <2>2 DEF NoFile
  <2>4. QED
    BY <1>1, <2>1, <2>2, <2>3 DEF Files
<1>4. QED
  BY <1>1, <1>2, <1>3

\* "Diff between two snapshots": applied to the old transcript, the diff of
\* compute_diff gives exactly the files and contents of the new one.
THEOREM DiffRestores ==
    ASSUME NEW old \in Tree, NEW new \in Tree
    PROVE  SameContents(Patched(parse_transcript(old), compute_diff(old, new)),
                        parse_transcript(new))
<1> DEFINE was == parse_transcript(old)
           is == parse_transcript(new)
           d == compute_diff(old, new)
<1>1. was \in Tree /\ is \in Tree
  BY ParsedIsTree
<1>2. /\ d.added = {<<f, is[f]>> : f \in Files(is) \ Files(was)}
      /\ d.removed = {<<f, was[f]>> : f \in Files(was) \ Files(is)}
      /\ d.modified = {<<f, was[f], is[f]>> :
            f \in {g \in Files(was) \cap Files(is) : was[g].sha256 # is[g].sha256}}
  BY DEF compute_diff
<1> HIDE DEF was, is, d
<1>3. SUFFICES ASSUME NEW f \in Paths
               PROVE  Patched(was, d)[f].sha256 = is[f].sha256
  BY DEF SameContents, was, is, d
<1>4. /\ f \in Files(was) <=> was[f].sha256 # "none"
      /\ f \in Files(is) <=> is[f].sha256 # "none"
      /\ f \notin Files(is) => is[f] = NoFile
      /\ f \notin Files(was) => was[f] = NoFile
  BY <1>1, HashTellsFile
<1>5. CASE f \in Files(is) \ Files(was)
  <2>1. \E e \in d.added : e[1] = f
    <3>1. <<f, is[f]>> \in d.added
      BY <1>2, <1>5
    <3>2. QED
      BY <3>1
  <2>2. \A e \in d.added : e[1] = f => e[2] = is[f]
    BY <1>2
  <2>3. (CHOOSE e \in d.added : e[1] = f)[2] = is[f]
    BY <2>1, <2>2
  <2>4. QED
    BY <2>1, <2>3 DEF Patched
<1>6. CASE f \in Files(is) \cap Files(was) /\ was[f].sha256 # is[f].sha256
  <2>1. ~ \E e \in d.added : e[1] = f
    BY <1>2, <1>6
  <2>2. \E e \in d.modified : e[1] = f
    <3>1. <<f, was[f], is[f]>> \in d.modified
      BY <1>2, <1>6
    <3>2. QED
      BY <3>1
  <2>3. \A e \in d.modified : e[1] = f => e[3] = is[f]
    BY <1>2
  <2>4. (CHOOSE e \in d.modified : e[1] = f)[3] = is[f]
    BY <2>2, <2>3
  <2>5. QED
    BY <2>1, <2>2, <2>4 DEF Patched
<1>7. CASE f \in Files(is) \cap Files(was) /\ was[f].sha256 = is[f].sha256
  <2>1. ~ \E e \in d.added : e[1] = f
    BY <1>2, <1>7
  <2>2. ~ \E e \in d.modified : e[1] = f
    BY <1>2, <1>7
  <2>3. ~ \E e \in d.removed : e[1] = f
    BY <1>2, <1>7
  <2>4. QED
    BY <1>7, <2>1, <2>2, <2>3 DEF Patched
<1>8. CASE f \in Files(was) \ Files(is)
  <2>1. ~ \E e \in d.added : e[1] = f
    BY <1>2, <1>8
  <2>2. ~ \E e \in d.modified : e[1] = f
    BY <1>2, <1>8
  <2>3. \E e \in d.removed : e[1] = f
    <3>1. <<f, was[f]>> \in d.removed
      BY <1>2, <1>8
    <3>2. QED
      BY <3>1
  <2>4. QED
    BY <1>4, <1>8, <2>1, <2>2, <2>3 DEF Patched
<1>9. CASE f \notin Files(was) /\ f \notin Files(is)
  <2>1. ~ \E e \in d.added : e[1] = f
    BY <1>2, <1>9
  <2>2. ~ \E e \in d.modified : e[1] = f
    BY <1>2, <1>9
  <2>3. ~ \E e \in d.removed : e[1] = f
    BY <1>2, <1>9
  <2>4. QED
    BY <1>4, <1>9, <2>1, <2>2, <2>3 DEF Patched
<1>10. QED
  BY <1>5, <1>6, <1>7, <1>8, <1>9

\* "All object hashes that must be fetched to apply this diff": whoever holds
\* the objects of the old transcript and fetches required_objects has those of
\* the new one, and fetches nothing the new one does not need.
THEOREM RequiredObjectsSuffice ==
    ASSUME NEW old \in Tree, NEW new \in Tree
    PROVE  LET required == required_objects(compute_diff(old, new))
           IN  /\ Objects(parse_transcript(new))
                      \subseteq Objects(parse_transcript(old)) \cup required
               /\ required \subseteq Objects(parse_transcript(new))
<1> DEFINE was == parse_transcript(old)
           is == parse_transcript(new)
           d == compute_diff(old, new)
<1>1. /\ d.added = {<<f, is[f]>> : f \in Files(is) \ Files(was)}
      /\ d.modified = {<<f, was[f], is[f]>> :
            f \in {g \in Files(was) \cap Files(is) : was[g].sha256 # is[g].sha256}}
  BY DEF compute_diff
<1> HIDE DEF was, is, d
<1>2. ASSUME NEW f \in Files(is)
      PROVE  is[f].sha256 \in Objects(was) \cup required_objects(d)
  <2>1. CASE f \notin Files(was)
    <3>1. <<f, is[f]>> \in d.added
      BY <1>1, <2>1
    <3>2. QED
      BY <3>1 DEF required_objects
  <2>2. CASE f \in Files(was) /\ was[f].sha256 # is[f].sha256
    <3>1. <<f, was[f], is[f]>> \in d.modified
      BY <1>1, <2>2
    <3>2. QED
      BY <3>1 DEF required_objects
  <2>3. CASE f \in Files(was) /\ was[f].sha256 = is[f].sha256
    BY <2>3 DEF Objects
  <2>4. QED
    BY <2>1, <2>2, <2>3
<1>3. \A e \in d.added : e[2].sha256 \in Objects(is)
  BY <1>1 DEF Objects
<1>4. \A e \in d.modified : e[3].sha256 \in Objects(is)
  BY <1>1 DEF Objects
<1>5. Objects(is) \subseteq Objects(was) \cup required_objects(d)
  BY <1>2 DEF Objects
<1>6. required_objects(d) \subseteq Objects(is)
  BY <1>3, <1>4 DEF required_objects
<1>7. QED
  BY <1>5, <1>6 DEF was, is, d

\* is_empty is exact: the diff is empty if and only if the two transcripts have
\* the same files with the same contents; a new mtime or mode alone changes the
\* snapshot id and leaves the diff empty.
THEOREM EmptyDiffMeansSame ==
    ASSUME NEW old \in Tree, NEW new \in Tree
    PROVE  is_empty(compute_diff(old, new))
               <=> SameContents(parse_transcript(old), parse_transcript(new))
<1> DEFINE was == parse_transcript(old)
           is == parse_transcript(new)
           d == compute_diff(old, new)
<1>1. was \in Tree /\ is \in Tree
  BY ParsedIsTree
<1>2. /\ d.added = {<<f, is[f]>> : f \in Files(is) \ Files(was)}
      /\ d.removed = {<<f, was[f]>> : f \in Files(was) \ Files(is)}
      /\ d.modified = {<<f, was[f], is[f]>> :
            f \in {g \in Files(was) \cap Files(is) : was[g].sha256 # is[g].sha256}}
  BY DEF compute_diff
<1> HIDE DEF was, is, d
<1>3. \A f \in Paths : /\ f \in Files(was) <=> was[f].sha256 # "none"
                       /\ f \in Files(is) <=> is[f].sha256 # "none"
  BY <1>1, HashTellsFile
<1>4. Files(was) \subseteq Paths /\ Files(is) \subseteq Paths
  BY DEF Files
<1>5. is_empty(d) <=> /\ Files(is) \ Files(was) = {}
                      /\ Files(was) \ Files(is) = {}
                      /\ \A f \in Files(was) \cap Files(is) : was[f].sha256 = is[f].sha256
  BY <1>2 DEF is_empty
<1>6. ASSUME is_empty(d) PROVE SameContents(was, is)
  <2>1. SUFFICES ASSUME NEW f \in Paths PROVE was[f].sha256 = is[f].sha256
    BY DEF SameContents
  <2>2. QED
    BY <1>3, <1>5, <1>6
<1>7. ASSUME SameContents(was, is) PROVE is_empty(d)
  <2>1. \A f \in Paths : was[f].sha256 = is[f].sha256
    BY <1>7 DEF SameContents
  <2>2. Files(is) = Files(was)
    BY <1>3, <1>4, <2>1
  <2>3. QED
    BY <1>4, <1>5, <2>1, <2>2
<1>8. QED
  BY <1>6, <1>7 DEF was, is, d

-----------------------------------------------------------------------------

\* Every head has its row, at the gateway that has it and at every gateway that
\* was told of it; a scan or a pull that is about to move a head has stored the
\* row before.
HeadsStored ==
    /\ \A g \in Gateways, p \in Projects : head[g][p] # NoSnapshot => Stored(g, head[g][p])
    /\ \A g \in Gateways : pull[g] # Idle => Stored(pull[g].peer, pull[g].tree)
    /\ \A g \in Gateways : pull[g].pc = "advance_head" => Stored(g, pull[g].tree)
    /\ \A g \in Gateways : scan[g].pc = "advance_head" => Stored(g, scan[g].tree)

\* What a scan has read so far is in the store, and is the folder's unless the
\* folder was edited meanwhile; it goes on only when everything is read.
ReadSoFar(g) ==
    /\ \A f \in Paths \ scan[g].todo : Content(scan[g].tree[f]) \subseteq objects[g]
    /\ ~scan[g].edited =>
           \A f \in Paths \ scan[g].todo : scan[g].tree[f] = folder[g][scan[g].project][f]
    /\ scan[g].pc # "read" => scan[g].todo = {}

ScansRead == \A g \in Gateways : scan[g] # Idle => ReadSoFar(g)

FileInv == TypeOK /\ HeadsStored /\ ScansRead /\ ScannedComplete

\* The fields of a scan and of a pull.
LEMMA ScanTypes ==
    ASSUME TypeOK, NEW g \in Gateways
    PROVE  /\ scan[g] = Idle <=> scan[g].pc = "idle"
           /\ scan[g] # Idle =>
                  scan[g] \in [pc : {"read", "write_snapshot", "advance_head"}, project : Projects,
                               todo : SUBSET Paths, tree : Tree, edited : BOOLEAN]
BY DEF TypeOK, ScanState, Idle

LEMMA PullTypes ==
    ASSUME TypeOK, NEW g \in Gateways
    PROVE  /\ pull[g] = Idle <=> pull[g].pc = "idle"
           /\ pull[g] # Idle =>
                  /\ pull[g].project \in Projects /\ pull[g].peer \in Gateways
                  /\ pull[g].tree \in Tree /\ pull[g].pc \in Steps
           /\ pull[g].pc = "fetch_objects" =>
                  pull[g] \in [pc : {"fetch_objects"}, project : Projects, peer : Gateways,
                               tree : Tree, missing : SUBSET Hashes]
BY DEF TypeOK, PullState, Idle, Steps

\* The contents of a tree are hashes.
LEMMA ObjectsAreHashes ==
    ASSUME NEW t \in Tree
    PROVE  Objects(t) \subseteq Hashes /\ parse_transcript(t) \in Tree
           /\ \A f \in Paths : Content(t[f]) \subseteq Hashes
<1>1. \A f \in Paths : t[f] \in TranscriptEntry \cup {NoFile}
  BY DEF Tree
<1>2. \A f \in Paths : t[f] # NoFile => t[f].sha256 \in Hashes
  BY <1>1 DEF TranscriptEntry
<1>3. Objects(t) \subseteq Hashes
  BY <1>2 DEF Objects, Files
<1>4. parse_transcript(t) \in Tree
  BY <1>1 DEF parse_transcript, Tree
<1>5. QED
  BY <1>2, <1>3, <1>4 DEF Content

\* The contents put for the files of a tree are its objects.
LEMMA ContentsAreObjects ==
    ASSUME NEW t, NEW S, \A f \in Paths : Content(t[f]) \subseteq S
    PROVE  Objects(t) \subseteq S
BY DEF Objects, Files, Content

LEMMA EmptyTreeType == EmptyTree \in Tree
BY DEF EmptyTree, Tree

LEMMA ScanGotoTypes ==
    ASSUME TypeOK, NEW g \in Gateways, NEW s \in ScanState, ScanGoto(g, s)
    PROVE  /\ scan' \in [Gateways -> ScanState]
           /\ scan'[g] = s /\ \A k \in Gateways : k # g => scan'[k] = scan[k]
BY DEF TypeOK, ScanGoto

LEMMA PullGotoTypes ==
    ASSUME TypeOK, NEW g \in Gateways, NEW s \in PullState, PullGoto(g, s)
    PROVE  /\ pull' \in [Gateways -> PullState]
           /\ pull'[g] = s /\ \A k \in Gateways : k # g => pull'[k] = pull[k]
BY DEF TypeOK, PullGoto

-----------------------------------------------------------------------------

\* A row or an object that is stored stays stored.
LEMMA StoreGrows ==
    ASSUME TypeOK, [Next]_vars
    PROVE  /\ \A g \in Gateways : objects[g] \subseteq objects'[g]
           /\ \A g \in Gateways : snapshots[g] \subseteq snapshots'[g]
           /\ \A g \in Gateways, t \in Tree : Stored(g, t) => Stored(g, t)'
<1>1. \A g \in Gateways : objects[g] \subseteq objects'[g]
  BY DEF TypeOK, Next, vars, edit, scan_begin, scan_file, scan_lookup, write_snapshot,
         scan_advance_head, ScanFail, sync_project, sync_compare, fetch_snapshot, fetch_object,
         apply_peer_snapshot, pull_advance_head, PullFail
<1>2. \A g \in Gateways : snapshots[g] \subseteq snapshots'[g]
  <2>1. snapshots \in [Gateways -> SUBSET SnapshotRow]
    BY DEF TypeOK
  <2>2. ASSUME NEW g \in Gateways, write_snapshot(g) \/ apply_peer_snapshot(g)
        PROVE  \A k \in Gateways : snapshots[k] \subseteq snapshots'[k]
    <3>1. PICK R : snapshots' = snapshots \/ snapshots' = [snapshots EXCEPT ![g] = @ \cup R]
      BY <2>2 DEF write_snapshot, apply_peer_snapshot
    <3>2. QED
      BY <2>1, <3>1
  <2>3. CASE UNCHANGED snapshots
    BY <2>3
  <2>4. QED
    BY <2>2, <2>3 DEF Next, vars, edit, scan_begin, scan_file, scan_lookup,
         scan_advance_head, ScanFail, sync_project, sync_compare, fetch_snapshot, fetch_object,
         pull_advance_head, PullFail
<1>3. QED
  BY <1>1, <1>2 DEF Stored

LEMMA InitFileInv == Init => FileInv
<1> SUFFICES ASSUME Init PROVE FileInv
  OBVIOUS
<1>1. \A g \in Gateways : scan[g] = Idle /\ pull[g] = Idle /\ snapshots[g] = {}
      /\ \A p \in Projects : head[g][p] = NoSnapshot
  BY DEF Init
<1>2. TypeOK
  BY EmptyTreeType DEF Init, TypeOK, ScanState, PullState
<1>3. QED
  BY <1>1, <1>2 DEF FileInv, HeadsStored, ScansRead, ScannedComplete, Idle

LEMMA EditTypes ==
    ASSUME TypeOK, NEW g \in Gateways, NEW p \in Projects, NEW f \in Paths,
           NEW e \in TranscriptEntry \cup {NoFile}, edit(g, p, f, e)
    PROVE  /\ TypeOK'
           /\ \A k \in Gateways, q \in Projects : (k # g \/ q # p) => folder'[k][q] = folder[k][q]
           /\ \A k \in Gateways : \/ scan'[k] = scan[k] /\ ~(k = g /\ scan[g] # Idle /\ scan[g].project = p)
                                  \/ k = g /\ scan[g] # Idle /\ scan'[k] = [scan[g] EXCEPT !.edited = TRUE]
<1> DEFINE tree == [folder[g][p] EXCEPT ![f] = e]
<1>1. /\ folder' = [folder EXCEPT ![g][p] = tree]
      /\ scan' = IF scan[g] # Idle /\ scan[g].project = p
                   THEN [scan EXCEPT ![g].edited = TRUE]
                   ELSE scan
  BY DEF edit
<1>2. edits' \in Nat /\ UNCHANGED <<objects, snapshots, head, headed, pull, failed>>
  BY DEF edit, TypeOK
<1>3. folder[g][p] \in Tree /\ tree \in Tree
  BY DEF TypeOK, Tree
<1> HIDE DEF tree
<1>4. folder' \in [Gateways -> [Projects -> Tree]]
      /\ \A k \in Gateways, q \in Projects : (k # g \/ q # p) => folder'[k][q] = folder[k][q]
  BY <1>1, <1>3 DEF TypeOK
<1>5. CASE scan[g] # Idle /\ scan[g].project = p
  <2> DEFINE s == [scan[g] EXCEPT !.edited = TRUE]
  <2>1. s \in ScanState
    BY <1>5, ScanTypes DEF ScanState
  <2>2. scan' = [scan EXCEPT ![g] = s]
    BY <1>1, <1>5
  <2>3. scan' \in [Gateways -> ScanState] /\ scan'[g] = s
        /\ \A k \in Gateways : k # g => scan'[k] = scan[k]
    BY <2>1, <2>2 DEF TypeOK
  <2>4. TypeOK'
    BY <1>4, <1>2, <2>3 DEF TypeOK
  <2>5. QED
    BY <1>4, <1>5, <2>3, <2>4
<1>6. CASE ~(scan[g] # Idle /\ scan[g].project = p)
  <2>1. scan' = scan
    BY <1>1, <1>6
  <2>2. TypeOK'
    BY <1>4, <1>2, <2>1 DEF TypeOK
  <2>3. QED
    BY <1>4, <1>6, <2>1, <2>2
<1>7. QED
  BY <1>5, <1>6

\* One file: the new local state of the scan.
LEMMA ScanFileStep ==
    ASSUME TypeOK, NEW g \in Gateways, scan_file(g)
    PROVE  \E f \in scan[g].todo :
               LET e == folder[g][scan[g].project][f]
                   s == [scan[g] EXCEPT !.todo = @ \ {f}, !.tree[f] = e]
               IN  /\ f \in Paths /\ s \in ScanState
                   /\ s # Idle /\ s.pc = "read" /\ s.project = scan[g].project
                   /\ s.edited = scan[g].edited /\ s.todo = scan[g].todo \ {f}
                   /\ s.tree[f] = e
                   /\ \A k \in Paths : k # f => s.tree[k] = scan[g].tree[k]
                   /\ scan' = [scan EXCEPT ![g] = s]
                   /\ Content(e) \subseteq Hashes
                   /\ objects' = [objects EXCEPT ![g] = @ \cup Content(e)]
                   /\ UNCHANGED <<folder, snapshots, head, headed, pull, edits, failed>>
<1>1. PICK f \in scan[g].todo :
          /\ scan' = [scan EXCEPT ![g] = [scan[g] EXCEPT !.todo = @ \ {f},
                          !.tree[f] = folder[g][scan[g].project][f]]]
          /\ objects' = [objects EXCEPT ![g] = @ \cup Content(folder[g][scan[g].project][f])]
  BY DEF scan_file, ScanGoto
<1>2. scan[g].pc = "read" /\ scan[g] # Idle
  BY DEF scan_file, Idle
<1>3. scan[g] \in [pc : {"read", "write_snapshot", "advance_head"}, project : Projects,
                   todo : SUBSET Paths, tree : Tree, edited : BOOLEAN]
  BY <1>2, ScanTypes
<1>4. f \in Paths /\ scan[g].project \in Projects /\ scan[g].tree \in Tree
  BY <1>1, <1>3
<1> DEFINE e == folder[g][scan[g].project][f]
           tree == [scan[g].tree EXCEPT ![f] = e]
           s == [scan[g] EXCEPT !.todo = @ \ {f}, !.tree[f] = e]
<1>5. folder[g][scan[g].project] \in Tree
  BY <1>4 DEF TypeOK
<1>6. e \in TranscriptEntry \cup {NoFile} /\ Content(e) \subseteq Hashes
  BY <1>4, <1>5, ObjectsAreHashes DEF Tree
<1> HIDE DEF e
<1>7. tree \in Tree /\ tree[f] = e /\ \A k \in Paths : k # f => tree[k] = scan[g].tree[k]
  BY <1>4, <1>6 DEF Tree
<1>8. s = [pc |-> "read", project |-> scan[g].project, todo |-> scan[g].todo \ {f},
           tree |-> tree, edited |-> scan[g].edited]
  <2>1. s = [scan[g] EXCEPT !.todo = scan[g].todo \ {f}, !.tree = tree]
    BY <1>3
  <2> HIDE DEF s, tree
  <2>2. QED
    BY <1>2, <1>3, <2>1
<1> HIDE DEF tree
<1>9. s \in ScanState /\ s # Idle
  BY <1>3, <1>4, <1>7, <1>8 DEF ScanState, Idle
<1>10. /\ s.pc = "read" /\ s.project = scan[g].project /\ s.edited = scan[g].edited
       /\ s.todo = scan[g].todo \ {f} /\ s.tree = tree
  BY <1>8
<1>11. scan' = [scan EXCEPT ![g] = s] /\ objects' = [objects EXCEPT ![g] = @ \cup Content(e)]
       /\ UNCHANGED <<folder, snapshots, head, headed, pull, edits, failed>>
  BY <1>1 DEF scan_file, e
<1> HIDE DEF s
<1>12. /\ f \in scan[g].todo /\ f \in Paths /\ s \in ScanState /\ s # Idle /\ s.pc = "read"
       /\ s.project = scan[g].project /\ s.edited = scan[g].edited
       /\ s.todo = scan[g].todo \ {f} /\ s.tree[f] = e
       /\ \A k \in Paths : k # f => s.tree[k] = scan[g].tree[k]
       /\ Content(e) \subseteq Hashes
  BY <1>1, <1>4, <1>6, <1>7, <1>9, <1>10
<1>13. QED
  BY <1>11, <1>12 DEF s, e

\* The other steps of a scan keep its record and change its pc, or end it.
LEMMA ScanMoves ==
    ASSUME TypeOK, NEW g \in Gateways,
           scan_lookup(g) \/ write_snapshot(g) \/ scan_advance_head(g) \/ ScanFail(g)
    PROVE  /\ scan[g] # Idle
           /\ \A k \in Gateways : k # g => scan'[k] = scan[k]
           /\ scan' \in [Gateways -> ScanState]
           /\ \/ scan'[g] = Idle
              \/ /\ scan'[g].pc \in {"write_snapshot", "advance_head"}
                 /\ scan'[g].todo = scan[g].todo /\ scan'[g].tree = scan[g].tree
                 /\ scan'[g].edited = scan[g].edited /\ scan'[g].project = scan[g].project
<1>1. scan[g] # Idle
  BY DEF scan_lookup, write_snapshot, scan_advance_head, ScanFail, Idle
<1>2. scan[g] \in [pc : {"read", "write_snapshot", "advance_head"}, project : Projects,
                   todo : SUBSET Paths, tree : Tree, edited : BOOLEAN]
  BY <1>1, ScanTypes
<1>3. CASE ScanGoto(g, Idle)
  <2>1. Idle \in ScanState
    BY DEF ScanState
  <2>2. QED
    BY <1>1, <1>3, <2>1, ScanGotoTypes
<1>4. ASSUME NEW pc \in {"write_snapshot", "advance_head"}, ScanGoto(g, [scan[g] EXCEPT !.pc = pc])
      PROVE  /\ \A k \in Gateways : k # g => scan'[k] = scan[k]
             /\ scan' \in [Gateways -> ScanState]
             /\ scan'[g].pc = pc
             /\ scan'[g].todo = scan[g].todo /\ scan'[g].tree = scan[g].tree
             /\ scan'[g].edited = scan[g].edited /\ scan'[g].project = scan[g].project
  <2> DEFINE s == [scan[g] EXCEPT !.pc = pc]
  <2>1. s \in ScanState
    BY <1>2 DEF ScanState
  <2>2. /\ s.pc = pc /\ s.todo = scan[g].todo /\ s.tree = scan[g].tree
        /\ s.edited = scan[g].edited /\ s.project = scan[g].project
    BY <1>2
  <2> HIDE DEF s
  <2>3. scan' \in [Gateways -> ScanState] /\ scan'[g] = s
        /\ \A k \in Gateways : k # g => scan'[k] = scan[k]
    BY <1>4, <2>1, ScanGotoTypes DEF s
  <2>4. QED
    BY <2>2, <2>3
<1>5. \/ ScanGoto(g, Idle)
      \/ ScanGoto(g, [scan[g] EXCEPT !.pc = "write_snapshot"])
      \/ ScanGoto(g, [scan[g] EXCEPT !.pc = "advance_head"])
  BY DEF scan_lookup, write_snapshot, scan_advance_head, ScanFail
<1>6. QED
  BY <1>1, <1>3, <1>4, <1>5

LEMMA HeadMoves ==
    ASSUME TypeOK, NEW g \in Gateways, NEW p \in Projects, NEW t \in Tree,
           head' = [head EXCEPT ![g][p] = t]
    PROVE  /\ head' \in [Gateways -> [Projects -> Tree \cup {NoSnapshot}]]
           /\ head'[g][p] = t
           /\ \A k \in Gateways, q \in Projects : k # g \/ q # p => head'[k][q] = head[k][q]
<1>1. head \in [Gateways -> [Projects -> Tree \cup {NoSnapshot}]]
  BY DEF TypeOK
<1>2. QED
  BY <1>1

\* advance_head, or no change, keeps the types of the head and its history.
LEMMA HeadTypes ==
    ASSUME TypeOK, NEW g \in Gateways, NEW p \in Projects, NEW t \in Tree,
           advance_head(g, p, t) \/ UNCHANGED <<head, headed>>
    PROVE  /\ head' \in [Gateways -> [Projects -> Tree \cup {NoSnapshot}]]
           /\ headed' \in [Gateways -> [Projects -> SUBSET Tree]]
<1>1. CASE advance_head(g, p, t)
  <2>1. headed \in [Gateways -> [Projects -> SUBSET Tree]] /\ headed[g][p] \cup {t} \in SUBSET Tree
    BY DEF TypeOK
  <2>2. headed' = [headed EXCEPT ![g][p] = headed[g][p] \cup {t}]
    BY <1>1 DEF advance_head
  <2>3. headed' \in [Gateways -> [Projects -> SUBSET Tree]]
    BY <2>1, <2>2
  <2>4. head' \in [Gateways -> [Projects -> Tree \cup {NoSnapshot}]]
    BY <1>1, HeadMoves DEF advance_head
  <2>5. QED
    BY <2>3, <2>4
<1>2. CASE UNCHANGED <<head, headed>>
  BY <1>2 DEF TypeOK
<1>3. QED
  BY <1>1, <1>2

LEMMA ScanTypeOK ==
    ASSUME TypeOK, NEW g \in Gateways,
           \/ scan_file(g) \/ scan_lookup(g) \/ write_snapshot(g)
           \/ scan_advance_head(g) \/ ScanFail(g)
    PROVE  TypeOK'
<1>1. CASE scan_file(g)
  <2>1. PICK f \in Paths, s \in ScanState, C \in SUBSET Hashes :
            /\ scan' = [scan EXCEPT ![g] = s]
            /\ objects' = [objects EXCEPT ![g] = @ \cup C]
            /\ UNCHANGED <<folder, snapshots, head, headed, pull, edits, failed>>
    BY <1>1, ScanFileStep
  <2>2. objects[g] \cup C \in SUBSET Hashes
    BY DEF TypeOK
  <2>3. scan' \in [Gateways -> ScanState] /\ objects' \in [Gateways -> SUBSET Hashes]
    BY <2>1, <2>2 DEF TypeOK
  <2>4. QED
    BY <2>1, <2>3 DEF TypeOK
<1>2. CASE scan_lookup(g) \/ write_snapshot(g) \/ scan_advance_head(g) \/ ScanFail(g)
  <2>1. scan' \in [Gateways -> ScanState] /\ scan[g] # Idle
    BY <1>2, ScanMoves
  <2>2. scan[g].tree \in Tree /\ scan[g].project \in Projects /\ scan[g].pc \in Steps
    BY <2>1, ScanTypes DEF Steps
  <2>3. [id |-> scan[g].tree, project |-> scan[g].project, gateway |-> g] \in SnapshotRow
    BY <2>2 DEF SnapshotRow
  <2>4. snapshots' \in [Gateways -> SUBSET SnapshotRow]
    BY <1>2, <2>3 DEF TypeOK, scan_lookup, write_snapshot, scan_advance_head, ScanFail
  <2>5. /\ head' \in [Gateways -> [Projects -> Tree \cup {NoSnapshot}]]
        /\ headed' \in [Gateways -> [Projects -> SUBSET Tree]]
    <3>1. advance_head(g, scan[g].project, scan[g].tree) \/ UNCHANGED <<head, headed>>
      BY <1>2 DEF scan_lookup, write_snapshot, scan_advance_head, ScanFail
    <3>2. QED
      BY <2>2, <3>1, HeadTypes
  <2>6. failed' \subseteq Steps /\ UNCHANGED <<folder, objects, pull, edits>>
    BY <1>2, <2>2 DEF TypeOK, scan_lookup, write_snapshot, scan_advance_head, ScanFail
  <2>7. QED
    BY <2>1, <2>4, <2>5, <2>6 DEF TypeOK
<1>3. QED
  BY <1>1, <1>2

\* The steps of a pull keep its project, peer and tree, or end it.
LEMMA PullMoves ==
    ASSUME TypeOK, NEW g \in Gateways,
           \/ sync_compare(g) \/ fetch_snapshot(g) \/ fetch_object(g)
           \/ apply_peer_snapshot(g) \/ pull_advance_head(g) \/ PullFail(g)
    PROVE  /\ pull[g] # Idle
           /\ pull' \in [Gateways -> PullState]
           /\ \A k \in Gateways : k # g => pull'[k] = pull[k]
           /\ \/ pull'[g] = Idle
              \/ /\ pull'[g].tree = pull[g].tree /\ pull'[g].peer = pull[g].peer
                 /\ pull'[g].pc = "advance_head" => apply_peer_snapshot(g) /\ ~Stored(g, pull[g].tree)
<1>1. pull[g] # Idle
  BY DEF sync_compare, fetch_snapshot, fetch_object, apply_peer_snapshot, pull_advance_head,
         PullFail, Idle
<1>2. pull[g].project \in Projects /\ pull[g].peer \in Gateways /\ pull[g].tree \in Tree
  BY <1>1, PullTypes
<1>3. ASSUME NEW s \in PullState, PullGoto(g, s),
             s = Idle \/ (s.tree = pull[g].tree /\ s.peer = pull[g].peer),
             s.pc = "advance_head" => apply_peer_snapshot(g) /\ ~Stored(g, pull[g].tree)
      PROVE  /\ pull' \in [Gateways -> PullState]
             /\ \A k \in Gateways : k # g => pull'[k] = pull[k]
             /\ \/ pull'[g] = Idle
                \/ /\ pull'[g].tree = pull[g].tree /\ pull'[g].peer = pull[g].peer
                   /\ pull'[g].pc = "advance_head" => apply_peer_snapshot(g) /\ ~Stored(g, pull[g].tree)
  BY <1>3, PullGotoTypes
<1>4. Idle \in PullState /\ Idle.pc # "advance_head"
  BY DEF PullState, Idle
<1>5. \A pc \in {"fetch_snapshot", "advance_head"} :
          /\ PullNext(g, pc) \in PullState /\ PullNext(g, pc).pc = pc
          /\ PullNext(g, pc).tree = pull[g].tree /\ PullNext(g, pc).peer = pull[g].peer
  BY <1>2 DEF PullNext, PullState
<1>6. CASE PullGoto(g, Idle)
  BY <1>1, <1>3, <1>4, <1>6
<1>7. CASE PullGoto(g, PullNext(g, "fetch_snapshot"))
  BY <1>1, <1>3, <1>5, <1>7
<1>8. CASE apply_peer_snapshot(g) /\ ~Stored(g, pull[g].tree)
  BY <1>1, <1>3, <1>5, <1>8 DEF apply_peer_snapshot
<1>9. CASE fetch_snapshot(g)
  <2> DEFINE m == all_hashes(pull[g].tree) \ objects[pull[g].peer]
             s == [pc |-> "fetch_objects", project |-> pull[g].project, peer |-> pull[g].peer,
                   tree |-> pull[g].tree, missing |-> m]
  <2>1. m \in SUBSET Hashes
    BY <1>2, ObjectsAreHashes DEF all_hashes
  <2> HIDE DEF m
  <2>2. /\ s \in PullState /\ s.pc # "advance_head"
        /\ s.tree = pull[g].tree /\ s.peer = pull[g].peer
    BY <1>2, <2>1 DEF PullState
  <2>3. PullGoto(g, s)
    BY <1>9 DEF fetch_snapshot, m
  <2> HIDE DEF s
  <2>4. QED
    BY <1>1, <1>3, <2>2, <2>3
<1>10. ASSUME NEW o, fetch_object(g), PullGoto(g, [pull[g] EXCEPT !.missing = @ \ {o}])
       PROVE  /\ pull' \in [Gateways -> PullState]
              /\ \A k \in Gateways : k # g => pull'[k] = pull[k]
              /\ \/ pull'[g] = Idle
                 \/ /\ pull'[g].tree = pull[g].tree /\ pull'[g].peer = pull[g].peer
                    /\ pull'[g].pc = "advance_head" => apply_peer_snapshot(g) /\ ~Stored(g, pull[g].tree)
  <2> DEFINE s == [pull[g] EXCEPT !.missing = @ \ {o}]
  <2>1. pull[g] \in [pc : {"fetch_objects"}, project : Projects, peer : Gateways,
                     tree : Tree, missing : SUBSET Hashes]
    BY <1>10, PullTypes DEF fetch_object
  <2>2. s \in [pc : {"fetch_objects"}, project : Projects, peer : Gateways,
               tree : Tree, missing : SUBSET Hashes]
        /\ s.tree = pull[g].tree /\ s.peer = pull[g].peer
    BY <2>1
  <2>3. s \in PullState /\ s.pc # "advance_head"
    BY <2>2 DEF PullState
  <2>4. PullGoto(g, s)
    BY <1>10
  <2> HIDE DEF s
  <2>5. QED
    BY <1>3, <2>2, <2>3, <2>4
<1>11. CASE fetch_object(g)
  <2>1. PullGoto(g, Idle) \/ \E o : PullGoto(g, [pull[g] EXCEPT !.missing = @ \ {o}])
    BY <1>11 DEF fetch_object
  <2>2. QED
    BY <1>1, <1>6, <1>10, <1>11, <2>1
<1>12. CASE ~fetch_object(g) /\ ~fetch_snapshot(g)
  BY <1>6, <1>7, <1>8, <1>12 DEF sync_compare, apply_peer_snapshot, pull_advance_head, PullFail
<1>13. QED
  BY <1>9, <1>11, <1>12

LEMMA PullTypeOK ==
    ASSUME TypeOK, NEW g \in Gateways,
           \/ sync_compare(g) \/ fetch_snapshot(g) \/ fetch_object(g)
           \/ apply_peer_snapshot(g) \/ pull_advance_head(g) \/ PullFail(g)
    PROVE  TypeOK'
<1>1. pull' \in [Gateways -> PullState] /\ pull[g] # Idle
  BY PullMoves
<1>2. pull[g].project \in Projects /\ pull[g].peer \in Gateways /\ pull[g].tree \in Tree
      /\ pull[g].pc \in Steps
  BY <1>1, PullTypes
<1>3. UNCHANGED <<folder, scan, edits>> /\ failed' \subseteq Steps
  BY <1>2 DEF TypeOK, sync_compare, fetch_snapshot, fetch_object, apply_peer_snapshot,
     pull_advance_head, PullFail
<1>4. /\ head' \in [Gateways -> [Projects -> Tree \cup {NoSnapshot}]]
      /\ headed' \in [Gateways -> [Projects -> SUBSET Tree]]
  <2>1. advance_head(g, pull[g].project, pull[g].tree) \/ UNCHANGED <<head, headed>>
    BY DEF sync_compare, fetch_snapshot, fetch_object, apply_peer_snapshot,
       pull_advance_head, PullFail
  <2>2. QED
    BY <1>2, <2>1, HeadTypes
<1>5. objects' \in [Gateways -> SUBSET Hashes]
  <2>1. CASE fetch_object(g)
    <3>1. pull[g].missing \subseteq Hashes
      BY <2>1, PullTypes DEF fetch_object
    <3>2. PICK o \in pull[g].missing :
              objects' = objects \/ objects' = [objects EXCEPT ![g] = @ \cup {o}]
      BY <2>1 DEF fetch_object
    <3>3. objects \in [Gateways -> SUBSET Hashes] /\ objects[g] \cup {o} \in SUBSET Hashes
      BY <3>1 DEF TypeOK
    <3>4. QED
      BY <3>2, <3>3
  <2>2. CASE ~fetch_object(g)
    BY <2>2 DEF TypeOK, sync_compare, fetch_snapshot, apply_peer_snapshot, pull_advance_head, PullFail
  <2>3. QED
    BY <2>1, <2>2
<1>6. snapshots' \in [Gateways -> SUBSET SnapshotRow]
  <2>1. [id |-> pull[g].tree, project |-> pull[g].project, gateway |-> pull[g].peer] \in SnapshotRow
    BY <1>2 DEF SnapshotRow
  <2>2. CASE apply_peer_snapshot(g)
    <3>1. PICK r \in SnapshotRow :
              snapshots' = snapshots \/ snapshots' = [snapshots EXCEPT ![g] = @ \cup {r}]
      BY <2>1, <2>2 DEF apply_peer_snapshot
    <3>2. snapshots \in [Gateways -> SUBSET SnapshotRow]
      BY DEF TypeOK
    <3>3. QED
      BY <3>1, <3>2
  <2>3. CASE ~apply_peer_snapshot(g)
    BY <2>3 DEF TypeOK, sync_compare, fetch_snapshot, fetch_object, pull_advance_head, PullFail
  <2>4. QED
    BY <2>2, <2>3
<1>7. QED
  BY <1>1, <1>3, <1>4, <1>5, <1>6 DEF TypeOK

\* The first steps of a scan and of a pull.
LEMMA ScanBegins ==
    ASSUME TypeOK, NEW g \in Gateways, NEW p \in Projects, scan_begin(g, p)
    PROVE  /\ TypeOK'
           /\ scan'[g] = [pc |-> "read", project |-> p, todo |-> Paths, tree |-> EmptyTree,
                          edited |-> FALSE]
           /\ \A k \in Gateways : k # g => scan'[k] = scan[k]
<1> DEFINE s == [pc |-> "read", project |-> p, todo |-> Paths, tree |-> EmptyTree,
                 edited |-> FALSE]
<1>1. s \in ScanState
  BY EmptyTreeType DEF ScanState
<1>2. ScanGoto(g, s) /\ UNCHANGED <<folder, objects, snapshots, head, headed, pull, edits, failed>>
  BY DEF scan_begin
<1> HIDE DEF s
<1>3. scan' \in [Gateways -> ScanState] /\ scan'[g] = s
      /\ \A k \in Gateways : k # g => scan'[k] = scan[k]
  BY <1>1, <1>2, ScanGotoTypes
<1>4. TypeOK'
  BY <1>2, <1>3 DEF TypeOK
<1>5. QED
  BY <1>3, <1>4 DEF s

LEMMA PullBegins ==
    ASSUME TypeOK, NEW g \in Gateways, NEW h \in Gateways, NEW p \in Projects, sync_project(g, h, p)
    PROVE  /\ TypeOK'
           /\ pull'[g].pc = "compare" /\ pull'[g].peer = h /\ pull'[g].tree = head[h][p]
           /\ head[h][p] # NoSnapshot /\ head[h][p] \in Tree
           /\ \A k \in Gateways : k # g => pull'[k] = pull[k]
<1> DEFINE s == [pc |-> "compare", project |-> p, peer |-> h, tree |-> head[h][p]]
<1>1. head[h][p] # NoSnapshot /\ head[h][p] \in Tree
  BY DEF sync_project, TypeOK
<1>2. s \in PullState /\ s.pc = "compare" /\ s.peer = h /\ s.tree = head[h][p]
  BY <1>1 DEF PullState
<1>3. PullGoto(g, s) /\ UNCHANGED <<folder, objects, snapshots, head, headed, scan, edits, failed>>
  BY DEF sync_project
<1> HIDE DEF s
<1>4. pull' \in [Gateways -> PullState] /\ pull'[g] = s
      /\ \A k \in Gateways : k # g => pull'[k] = pull[k]
  BY <1>2, <1>3, PullGotoTypes
<1>5. TypeOK'
  BY <1>3, <1>4 DEF TypeOK
<1>6. QED
  BY <1>1, <1>2, <1>4, <1>5

LEMMA NextTypeOK == TypeOK /\ [Next]_vars => TypeOK'
<1> SUFFICES ASSUME TypeOK, [Next]_vars PROVE TypeOK'
  OBVIOUS
<1>1. CASE UNCHANGED vars
  BY <1>1 DEF vars, TypeOK
<1>2. ASSUME NEW e \in Pulls, sync_project(e[1], e[2], e[3]) PROVE TypeOK'
  <2>1. e[1] \in Gateways /\ e[2] \in Gateways /\ e[3] \in Projects
    BY PullsAssumption
  <2>2. QED
    BY <1>2, <2>1, PullBegins
<1>3. QED
  BY <1>1, <1>2, EditTypes, ScanBegins, ScanTypeOK, PullTypeOK, SourcesAssumption DEF Next

-----------------------------------------------------------------------------

\* A step that leaves a scan and its folder alone keeps what it has read.
LEMMA ReadKept ==
    ASSUME NEW k, ReadSoFar(k), objects[k] \subseteq objects'[k], scan'[k] = scan[k],
           scan[k].edited \/ folder'[k][scan[k].project] = folder[k][scan[k].project]
    PROVE  ReadSoFar(k)'
BY DEF ReadSoFar

LEMMA EditScansRead ==
    ASSUME FileInv, NEW g \in Gateways, NEW p \in Projects, NEW f \in Paths,
           NEW e \in TranscriptEntry \cup {NoFile}, edit(g, p, f, e)
    PROVE  ScansRead'
<1>1. TypeOK /\ ScansRead
  BY DEF FileInv
<1>2. /\ \A k \in Gateways, q \in Projects : (k # g \/ q # p) => folder'[k][q] = folder[k][q]
      /\ \A k \in Gateways : \/ scan'[k] = scan[k] /\ ~(k = g /\ scan[g] # Idle /\ scan[g].project = p)
                             \/ k = g /\ scan[g] # Idle /\ scan'[k] = [scan[g] EXCEPT !.edited = TRUE]
  BY <1>1, EditTypes
<1>3. objects' = objects
  BY DEF edit
<1>4. SUFFICES ASSUME NEW k \in Gateways, scan'[k] # Idle PROVE ReadSoFar(k)'
  BY DEF ScansRead
<1>5. CASE scan'[k] = scan[k] /\ ~(k = g /\ scan[g] # Idle /\ scan[g].project = p)
  <2>1. scan[k] # Idle /\ ReadSoFar(k) /\ scan[k].project \in Projects
    BY <1>1, <1>4, <1>5, ScanTypes DEF ScansRead
  <2>2. folder'[k][scan[k].project] = folder[k][scan[k].project]
    BY <1>2, <1>5, <2>1
  <2>3. QED
    BY <1>3, <1>5, <2>1, <2>2, ReadKept
<1>6. CASE k = g /\ scan[g] # Idle /\ scan'[k] = [scan[g] EXCEPT !.edited = TRUE]
  <2>1. ReadSoFar(g)
    BY <1>1, <1>6 DEF ScansRead
  <2>2. scan[g] \in [pc : {"read", "write_snapshot", "advance_head"}, project : Projects,
                     todo : SUBSET Paths, tree : Tree, edited : BOOLEAN]
    BY <1>1, <1>6, ScanTypes
  <2>3. /\ scan'[g].edited = TRUE /\ scan'[g].todo = scan[g].todo
        /\ scan'[g].tree = scan[g].tree /\ scan'[g].pc = scan[g].pc
    BY <1>6, <2>2
  <2>4. QED
    BY <1>3, <1>6, <2>1, <2>3 DEF ReadSoFar
<1>7. QED
  BY <1>2, <1>5, <1>6

\* The file that was read now joins those that were read before.
LEMMA ScanFileScansRead ==
    ASSUME FileInv, NEW g \in Gateways, scan_file(g)
    PROVE  ScansRead'
<1>1. TypeOK /\ ScansRead
  BY DEF FileInv
<1>2. scan[g] # Idle /\ scan[g].pc = "read"
  BY DEF scan_file, Idle
<1>3. PICK f \in scan[g].todo :
               LET e == folder[g][scan[g].project][f]
                   s == [scan[g] EXCEPT !.todo = @ \ {f}, !.tree[f] = e]
               IN  /\ f \in Paths /\ s \in ScanState
                   /\ s # Idle /\ s.pc = "read" /\ s.project = scan[g].project
                   /\ s.edited = scan[g].edited /\ s.todo = scan[g].todo \ {f}
                   /\ s.tree[f] = e
                   /\ \A k \in Paths : k # f => s.tree[k] = scan[g].tree[k]
                   /\ scan' = [scan EXCEPT ![g] = s]
                   /\ objects' = [objects EXCEPT ![g] = @ \cup Content(e)]
                   /\ UNCHANGED <<folder, snapshots, head, headed, pull, edits, failed>>
  BY <1>1, ScanFileStep
<1> DEFINE e == folder[g][scan[g].project][f]
           s == [scan[g] EXCEPT !.todo = @ \ {f}, !.tree[f] = e]
<1>4. /\ scan'[g] = s /\ objects'[g] = objects[g] \cup Content(e) /\ folder' = folder
      /\ \A k \in Gateways : k # g => scan'[k] = scan[k] /\ objects'[k] = objects[k]
  BY <1>1, <1>3 DEF TypeOK
<1>5. /\ f \in Paths /\ s.pc = "read" /\ s.project = scan[g].project
      /\ s.edited = scan[g].edited /\ s.todo = scan[g].todo \ {f}
      /\ s.tree[f] = e
      /\ \A k \in Paths : k # f => s.tree[k] = scan[g].tree[k]
  BY <1>3
<1> HIDE DEF s
<1>6. ReadSoFar(g)
  BY <1>1, <1>2 DEF ScansRead
<1>7. ReadSoFar(g)'
  <2>1. \A k \in Paths \ s.todo : Content(s.tree[k]) \subseteq objects'[g]
    BY <1>4, <1>5, <1>6 DEF ReadSoFar
  <2>2. ~s.edited => \A k \in Paths \ s.todo : s.tree[k] = folder[g][s.project][k]
    BY <1>5, <1>6 DEF ReadSoFar, e
  <2>3. QED
    BY <1>4, <1>5, <2>1, <2>2 DEF ReadSoFar
<1>8. ASSUME NEW k \in Gateways, k # g, scan'[k] # Idle PROVE ReadSoFar(k)'
  <2>1. scan'[k] = scan[k] /\ objects[k] \subseteq objects'[k] /\ ReadSoFar(k)
    BY <1>1, <1>4, <1>8 DEF ScansRead
  <2>2. QED
    BY <1>4, <2>1, ReadKept
<1>9. QED
  BY <1>7, <1>8 DEF ScansRead

LEMMA NextScansRead ==
    ASSUME FileInv, [Next]_vars
    PROVE  ScansRead'
<1>1. TypeOK /\ ScansRead
  BY DEF FileInv
<1>2. \A k \in Gateways : objects[k] \subseteq objects'[k]
  BY <1>1, StoreGrows
<1>3. ASSUME NEW g \in Gateways, folder' = folder,
             \A k \in Gateways : k # g => scan'[k] = scan[k],
             scan'[g] # Idle => ReadSoFar(g)'
      PROVE  ScansRead'
  <2>1. ASSUME NEW k \in Gateways, k # g, scan'[k] # Idle PROVE ReadSoFar(k)'
    <3>1. scan'[k] = scan[k] /\ objects[k] \subseteq objects'[k] /\ ReadSoFar(k)
      BY <1>1, <1>2, <1>3, <2>1 DEF ScansRead
    <3>2. QED
      BY <1>3, <3>1, ReadKept
  <2>2. QED
    BY <1>3, <2>1 DEF ScansRead
<1>4. ASSUME scan' = scan, folder' = folder PROVE ScansRead'
  <2>1. ASSUME NEW k \in Gateways, scan'[k] # Idle PROVE ReadSoFar(k)'
    <3>1. scan'[k] = scan[k] /\ objects[k] \subseteq objects'[k] /\ ReadSoFar(k)
      BY <1>1, <1>2, <1>4, <2>1 DEF ScansRead
    <3>2. QED
      BY <1>4, <3>1, ReadKept
  <2>2. QED
    BY <2>1 DEF ScansRead
<1>5. ASSUME NEW g \in Gateways, NEW p \in Projects, scan_begin(g, p) PROVE ScansRead'
  <2>1. /\ scan'[g] = [pc |-> "read", project |-> p, todo |-> Paths, tree |-> EmptyTree,
                       edited |-> FALSE]
        /\ \A k \in Gateways : k # g => scan'[k] = scan[k]
    BY <1>1, <1>5, ScanBegins
  <2>2. scan'[g].todo = Paths /\ scan'[g].pc = "read"
    BY <2>1
  <2>3. ReadSoFar(g)'
    BY <2>2 DEF ReadSoFar
  <2>4. folder' = folder
    BY <1>5 DEF scan_begin
  <2>5. QED
    BY <1>3, <2>1, <2>3, <2>4
<1>6. ASSUME NEW g \in Gateways,
             scan_lookup(g) \/ write_snapshot(g) \/ scan_advance_head(g) \/ ScanFail(g)
      PROVE  ScansRead'
  <2>1. folder' = folder
    BY <1>6 DEF scan_lookup, write_snapshot, scan_advance_head, ScanFail
  <2>2. /\ scan[g] # Idle
        /\ \A k \in Gateways : k # g => scan'[k] = scan[k]
        /\ \/ scan'[g] = Idle
           \/ /\ scan'[g].pc \in {"write_snapshot", "advance_head"}
              /\ scan'[g].todo = scan[g].todo /\ scan'[g].tree = scan[g].tree
              /\ scan'[g].edited = scan[g].edited /\ scan'[g].project = scan[g].project
    BY <1>1, <1>6, ScanMoves
  <2>3. ReadSoFar(g) /\ objects[g] \subseteq objects'[g]
    BY <1>1, <1>2, <2>2 DEF ScansRead
  <2>4. scan'[g] # Idle => scan[g].todo = {}
    <3>1. CASE scan_lookup(g)
      BY <3>1 DEF scan_lookup
    <3>2. CASE write_snapshot(g)
      BY <2>3, <3>2 DEF write_snapshot, ReadSoFar
    <3>3. CASE scan_advance_head(g) \/ ScanFail(g)
      BY <1>1, <3>3 DEF scan_advance_head, ScanFail, ScanGoto, TypeOK
    <3>4. QED
      BY <1>6, <3>1, <3>2, <3>3
  <2>5. scan'[g] # Idle => ReadSoFar(g)'
    BY <2>1, <2>2, <2>3, <2>4 DEF ReadSoFar
  <2>6. QED
    BY <1>3, <2>1, <2>2, <2>5
<1>7. CASE \/ UNCHANGED vars
           \/ \E e \in Pulls : sync_project(e[1], e[2], e[3])
           \/ \E g \in Gateways : \/ sync_compare(g) \/ fetch_snapshot(g) \/ fetch_object(g)
                                  \/ apply_peer_snapshot(g) \/ pull_advance_head(g) \/ PullFail(g)
  <2>1. scan' = scan /\ folder' = folder
    BY <1>7 DEF vars, sync_project, sync_compare, fetch_snapshot, fetch_object,
       apply_peer_snapshot, pull_advance_head, PullFail
  <2>2. QED
    BY <1>4, <2>1
<1>8. QED
  BY <1>5, <1>6, <1>7, EditScansRead, ScanFileScansRead, SourcesAssumption DEF Next

-----------------------------------------------------------------------------

LEMMA HeadRowsStored ==
    ASSUME FileInv, [Next]_vars, NEW k \in Gateways, NEW q \in Projects,
           head'[k][q] # NoSnapshot
    PROVE  Stored(k, head[k][q])'
<1>1. TypeOK /\ HeadsStored
  BY DEF FileInv
<1>2. \A g \in Gateways, t \in Tree : Stored(g, t) => Stored(g, t)'
  BY <1>1, StoreGrows
<1>3. CASE head'[k][q] = head[k][q]
  <2>1. head[k][q] \in Tree /\ Stored(k, head[k][q])
    BY <1>1, <1>3 DEF HeadsStored, TypeOK
  <2>2. Stored(k, head[k][q])' <=> \E r \in snapshots'[k] : r.id = head'[k][q]
    BY DEF Stored
  <2>3. \E r \in snapshots[k] : r.id = head[k][q]
    BY <2>1 DEF Stored
  <2>4. snapshots[k] \subseteq snapshots'[k]
    BY <1>1, StoreGrows
  <2>5. QED
    BY <1>3, <2>2, <2>3, <2>4
<1>4. ASSUME NEW g \in Gateways, NEW p \in Projects, NEW t \in Tree, Stored(g, t),
             head' = [head EXCEPT ![g][p] = t]
      PROVE  Stored(k, head[k][q])'
  <2>0. head \in [Gateways -> [Projects -> Tree \cup {NoSnapshot}]]
    BY <1>1 DEF TypeOK
  <2>1. /\ k = g /\ q = p => head'[k][q] = t
        /\ k # g \/ q # p => head'[k][q] = head[k][q]
    BY <1>4, <2>0
  <2>2. CASE k = g /\ q = p
    <3>1. head'[k][q] = t /\ \E r \in snapshots[k] : r.id = t
      BY <1>4, <2>1, <2>2 DEF Stored
    <3>2. snapshots[k] \subseteq snapshots'[k]
      BY <1>1, StoreGrows
    <3>3. QED
      BY <3>1, <3>2 DEF Stored
  <2>3. QED
    BY <1>3, <2>1, <2>2
<1>5. ASSUME NEW g \in Gateways, scan_advance_head(g) PROVE Stored(k, head[k][q])'
  <2>1. scan[g].pc = "advance_head" /\ scan[g] # Idle
    BY <1>5 DEF scan_advance_head, Idle
  <2>2. Stored(g, scan[g].tree) /\ scan[g].tree \in Tree /\ scan[g].project \in Projects
    BY <1>1, <2>1, ScanTypes DEF HeadsStored
  <2>3. QED
    BY <1>4, <1>5, <2>2 DEF scan_advance_head, advance_head
<1>6. ASSUME NEW g \in Gateways, pull_advance_head(g) PROVE Stored(k, head[k][q])'
  <2>1. pull[g].pc = "advance_head" /\ pull[g] # Idle
    BY <1>6 DEF pull_advance_head, Idle
  <2>2. Stored(g, pull[g].tree) /\ pull[g].tree \in Tree /\ pull[g].project \in Projects
    BY <1>1, <2>1, PullTypes DEF HeadsStored
  <2>3. QED
    BY <1>4, <1>6, <2>2 DEF pull_advance_head, advance_head
<1>7. CASE head' = head
  BY <1>3, <1>7
<1>8. QED
  BY <1>5, <1>6, <1>7 DEF Next, vars, edit, scan_begin, scan_file, scan_lookup, write_snapshot,
     ScanFail, sync_project, sync_compare, fetch_snapshot, fetch_object,
     apply_peer_snapshot, PullFail

LEMMA PullRowsStored ==
    ASSUME FileInv, [Next]_vars, NEW k \in Gateways, pull'[k] # Idle
    PROVE  /\ Stored(pull[k].peer, pull[k].tree)'
           /\ pull'[k].pc = "advance_head" => Stored(k, pull[k].tree)'
<1>1. TypeOK /\ HeadsStored
  BY DEF FileInv
<1>2. \A g \in Gateways : snapshots[g] \subseteq snapshots'[g]
  BY <1>1, StoreGrows
<1>3. \A g \in Gateways : \A t :
          (\E r \in snapshots[g] : r.id = t) => \E r \in snapshots'[g] : r.id = t
  BY <1>2
<1>4. SUFFICES /\ \E r \in snapshots'[pull'[k].peer] : r.id = pull'[k].tree
               /\ pull'[k].pc = "advance_head" => \E r \in snapshots'[k] : r.id = pull'[k].tree
  BY DEF Stored
<1>5. CASE pull'[k] = pull[k]
  <2>1. pull[k] # Idle /\ pull[k].peer \in Gateways
    BY <1>1, <1>5, PullTypes
  <2>2. /\ Stored(pull[k].peer, pull[k].tree)
        /\ pull[k].pc = "advance_head" => Stored(k, pull[k].tree)
    BY <1>1, <2>1 DEF HeadsStored
  <2>3. /\ \E r \in snapshots[pull[k].peer] : r.id = pull[k].tree
        /\ pull[k].pc = "advance_head" => \E r \in snapshots[k] : r.id = pull[k].tree
    BY <2>2 DEF Stored
  <2>4. snapshots[pull[k].peer] \subseteq snapshots'[pull[k].peer]
        /\ snapshots[k] \subseteq snapshots'[k]
    BY <1>2, <2>1
  <2>5. QED
    BY <1>5, <2>3, <2>4
<1>6. ASSUME NEW g \in Gateways,
             \/ sync_compare(g) \/ fetch_snapshot(g) \/ fetch_object(g)
             \/ apply_peer_snapshot(g) \/ pull_advance_head(g) \/ PullFail(g)
      PROVE  /\ \E r \in snapshots'[pull'[k].peer] : r.id = pull'[k].tree
             /\ pull'[k].pc = "advance_head" => \E r \in snapshots'[k] : r.id = pull'[k].tree
  <2>1. /\ pull[g] # Idle
        /\ \A j \in Gateways : j # g => pull'[j] = pull[j]
        /\ \/ pull'[g] = Idle
           \/ /\ pull'[g].tree = pull[g].tree /\ pull'[g].peer = pull[g].peer
              /\ pull'[g].pc = "advance_head" => apply_peer_snapshot(g) /\ ~Stored(g, pull[g].tree)
    BY <1>1, <1>6, PullMoves
  <2>2. CASE k # g
    BY <1>5, <2>1, <2>2
  <2>3. CASE k = g
    <3>1. pull'[g].tree = pull[g].tree /\ pull'[g].peer = pull[g].peer /\ pull[g].peer \in Gateways
      BY <1>1, <2>1, <2>3, PullTypes
    <3>2. \E r \in snapshots'[pull'[g].peer] : r.id = pull'[g].tree
      <4>1. Stored(pull[g].peer, pull[g].tree)
        BY <1>1, <2>1 DEF HeadsStored
      <4>2. \E r \in snapshots[pull[g].peer] : r.id = pull[g].tree
        BY <4>1 DEF Stored
      <4>3. snapshots[pull[g].peer] \subseteq snapshots'[pull[g].peer]
        BY <1>2, <3>1
      <4>4. QED
        BY <3>1, <4>2, <4>3
    <3>3. ASSUME pull'[g].pc = "advance_head" PROVE \E r \in snapshots'[g] : r.id = pull'[g].tree
      <4>1. apply_peer_snapshot(g) /\ ~Stored(g, pull[g].tree)
        BY <2>1, <2>3, <3>3
      <4> DEFINE row == [id |-> pull[g].tree, project |-> pull[g].project, gateway |-> pull[g].peer]
      <4>2. snapshots' = [snapshots EXCEPT ![g] = @ \cup {row}] /\ row.id = pull[g].tree
        BY <4>1 DEF apply_peer_snapshot
      <4> HIDE DEF row
      <4>3. row \in snapshots'[g]
        BY <1>1, <4>2 DEF TypeOK
      <4>4. QED
        BY <3>1, <4>2, <4>3
    <3>4. QED
      BY <2>3, <3>2, <3>3
  <2>4. QED
    BY <2>2, <2>3
<1>7. ASSUME NEW e \in Pulls, sync_project(e[1], e[2], e[3])
      PROVE  /\ \E r \in snapshots'[pull'[k].peer] : r.id = pull'[k].tree
             /\ pull'[k].pc = "advance_head" => \E r \in snapshots'[k] : r.id = pull'[k].tree
  <2>1. e[1] \in Gateways /\ e[2] \in Gateways /\ e[3] \in Projects
    BY PullsAssumption
  <2>2. /\ pull'[e[1]].pc = "compare" /\ pull'[e[1]].peer = e[2] /\ pull'[e[1]].tree = head[e[2]][e[3]]
        /\ head[e[2]][e[3]] # NoSnapshot
        /\ \A j \in Gateways : j # e[1] => pull'[j] = pull[j]
    BY <1>1, <1>7, <2>1, PullBegins
  <2>3. \E r \in snapshots[e[2]] : r.id = head[e[2]][e[3]]
    BY <1>1, <2>1, <2>2 DEF HeadsStored, Stored
  <2>4. QED
    BY <1>3, <1>5, <2>1, <2>2, <2>3
<1>8. CASE pull' = pull
  BY <1>5, <1>8
<1>9. QED
  BY <1>6, <1>7, <1>8 DEF Next, vars, edit, scan_begin, scan_file, scan_lookup, write_snapshot,
     scan_advance_head, ScanFail

LEMMA ScanRowsStored ==
    ASSUME FileInv, [Next]_vars, NEW k \in Gateways, scan'[k].pc = "advance_head"
    PROVE  Stored(k, scan[k].tree)'
<1>1. TypeOK /\ HeadsStored
  BY DEF FileInv
<1>2. \A g \in Gateways : snapshots[g] \subseteq snapshots'[g]
  BY <1>1, StoreGrows
<1>3. SUFFICES \E r \in snapshots'[k] : r.id = scan'[k].tree
  BY DEF Stored
<1>4. CASE scan[k].pc = "advance_head" /\ scan'[k].tree = scan[k].tree
  BY <1>1, <1>2, <1>4 DEF HeadsStored, Stored
<1>5. CASE scan'[k] = scan[k]
  BY <1>4, <1>5
<1>6. ASSUME NEW g \in Gateways, NEW p \in Projects, NEW f \in Paths,
             NEW e \in TranscriptEntry \cup {NoFile}, edit(g, p, f, e)
      PROVE  \E r \in snapshots'[k] : r.id = scan'[k].tree
  <2>1. scan'[k] = scan[k] \/ (scan[k] # Idle /\ scan'[k] = [scan[k] EXCEPT !.edited = TRUE])
    BY <1>1, <1>6, EditTypes
  <2>2. CASE scan[k] # Idle /\ scan'[k] = [scan[k] EXCEPT !.edited = TRUE]
    <3>1. scan[k] \in [pc : {"read", "write_snapshot", "advance_head"}, project : Projects,
                       todo : SUBSET Paths, tree : Tree, edited : BOOLEAN]
      BY <1>1, <2>2, ScanTypes
    <3>2. scan[k].pc = "advance_head" /\ scan'[k].tree = scan[k].tree
      BY <2>2, <3>1
    <3>3. QED
      BY <1>4, <3>2
  <2>3. QED
    BY <1>5, <2>1, <2>2
<1>7. ASSUME NEW g \in Gateways, scan_lookup(g) \/ scan_advance_head(g) \/ ScanFail(g)
      PROVE  \E r \in snapshots'[k] : r.id = scan'[k].tree
  <2>1. k # g
    <3>1. scan[g] # Idle
      BY <1>1, <1>7, ScanMoves
    <3>2. scan[g] \in [pc : {"read", "write_snapshot", "advance_head"}, project : Projects,
                       todo : SUBSET Paths, tree : Tree, edited : BOOLEAN]
      BY <1>1, <3>1, ScanTypes
    <3>3. scan'[g].pc # "advance_head"
      BY <1>1, <1>7, <3>2 DEF scan_lookup, scan_advance_head, ScanFail, ScanGoto, TypeOK, Idle
    <3>4. QED
      BY <3>3
  <2>2. QED
    BY <1>1, <1>5, <1>7, <2>1, ScanMoves
<1>8. ASSUME NEW g \in Gateways, write_snapshot(g)
      PROVE  \E r \in snapshots'[k] : r.id = scan'[k].tree
  <2>1. CASE k # g
    BY <1>1, <1>5, <1>8, <2>1, ScanMoves
  <2>2. CASE k = g
    <3>1. scan'[g] # Idle
      BY <2>2 DEF Idle
    <3>2. ~Stored(g, scan[g].tree)
      BY <1>1, <1>8, <3>1 DEF write_snapshot, ScanGoto, TypeOK
    <3> DEFINE row == [id |-> scan[g].tree, project |-> scan[g].project, gateway |-> g]
    <3>3. snapshots' = [snapshots EXCEPT ![g] = @ \cup {row}] /\ row.id = scan[g].tree
      BY <1>8, <3>2 DEF write_snapshot
    <3> HIDE DEF row
    <3>4. row \in snapshots'[g]
      BY <1>1, <3>3 DEF TypeOK
    <3>5. scan'[g].tree = scan[g].tree
      BY <1>1, <1>8, <3>1, ScanMoves
    <3>6. QED
      BY <2>2, <3>3, <3>4, <3>5
  <2>3. QED
    BY <2>1, <2>2
<1>9. ASSUME NEW g \in Gateways, scan_file(g)
      PROVE  \E r \in snapshots'[k] : r.id = scan'[k].tree
  <2>1. PICK s \in ScanState : s.pc = "read" /\ scan' = [scan EXCEPT ![g] = s]
    BY <1>1, <1>9, ScanFileStep
  <2>2. scan'[g].pc = "read" /\ (k # g => scan'[k] = scan[k])
    BY <1>1, <2>1 DEF TypeOK
  <2>3. QED
    <3>1. k # g
      BY <2>2
    <3>2. QED
      BY <1>5, <2>2, <3>1
<1>10. ASSUME NEW g \in Gateways, NEW p \in Projects, scan_begin(g, p)
       PROVE  \E r \in snapshots'[k] : r.id = scan'[k].tree
  <2>1. scan'[g].pc = "read" /\ (k # g => scan'[k] = scan[k])
    <3>1. /\ scan'[g] = [pc |-> "read", project |-> p, todo |-> Paths, tree |-> EmptyTree,
                         edited |-> FALSE]
          /\ \A j \in Gateways : j # g => scan'[j] = scan[j]
      BY <1>1, <1>10, ScanBegins
    <3>2. QED
      BY <3>1
  <2>2. k # g
    BY <2>1
  <2>3. QED
    BY <1>5, <2>1, <2>2
<1>11. CASE scan' = scan
  BY <1>5, <1>11
<1>12. QED
  BY <1>6, <1>7, <1>8, <1>9, <1>10, <1>11, SourcesAssumption DEF Next, vars, sync_project,
     sync_compare, fetch_snapshot, fetch_object, apply_peer_snapshot, pull_advance_head, PullFail

LEMMA NextHeadsStored ==
    ASSUME FileInv, [Next]_vars
    PROVE  HeadsStored'
<1>1. ASSUME NEW k \in Gateways, pull'[k].pc = "advance_head" PROVE pull'[k] # Idle
  BY <1>1 DEF Idle
<1>2. QED
  BY <1>1, HeadRowsStored, PullRowsStored, ScanRowsStored DEF HeadsStored

\* A row appears in one of the two INSERTs only.
LEMMA NewRow ==
    ASSUME TypeOK, [Next]_vars, NEW k \in Gateways, NEW r \in snapshots'[k],
           r \notin snapshots[k]
    PROVE  \/ /\ scan[k].pc = "write_snapshot" /\ r.id = scan[k].tree /\ r.gateway = k
           \/ /\ pull[k].pc = "fetch_objects" /\ r.id = pull[k].tree /\ r.gateway = pull[k].peer
              /\ ~Stored(k, r.id)
<1>1. snapshots \in [Gateways -> SUBSET SnapshotRow]
  BY DEF TypeOK
<1>2. ASSUME NEW g \in Gateways, write_snapshot(g)
      PROVE  scan[k].pc = "write_snapshot" /\ r.id = scan[k].tree /\ r.gateway = k
  <2> DEFINE row == [id |-> scan[g].tree, project |-> scan[g].project, gateway |-> g]
  <2>1. snapshots' = [snapshots EXCEPT ![g] = @ \cup {row}] /\ row.id = scan[g].tree /\ row.gateway = g
    BY <1>2 DEF write_snapshot
  <2> HIDE DEF row
  <2>2. k = g /\ r = row
    BY <1>1, <2>1
  <2>3. QED
    BY <1>2, <2>1, <2>2 DEF write_snapshot
<1>3. ASSUME NEW g \in Gateways, apply_peer_snapshot(g)
      PROVE  /\ pull[k].pc = "fetch_objects" /\ r.id = pull[k].tree /\ r.gateway = pull[k].peer
             /\ ~Stored(k, r.id)
  <2> DEFINE row == [id |-> pull[g].tree, project |-> pull[g].project, gateway |-> pull[g].peer]
  <2>1. /\ snapshots' = [snapshots EXCEPT ![g] = @ \cup {row}]
        /\ row.id = pull[g].tree /\ row.gateway = pull[g].peer
        /\ ~Stored(g, pull[g].tree)
    BY <1>3 DEF apply_peer_snapshot
  <2> HIDE DEF row
  <2>2. k = g /\ r = row
    BY <1>1, <2>1
  <2>3. QED
    BY <1>3, <2>1, <2>2 DEF apply_peer_snapshot
<1>4. QED
  BY <1>2, <1>3 DEF Next, vars, edit, scan_begin, scan_file, scan_lookup, scan_advance_head,
     ScanFail, sync_project, sync_compare, fetch_snapshot, fetch_object, pull_advance_head, PullFail

LEMMA NextScannedComplete ==
    ASSUME FileInv, [Next]_vars
    PROVE  ScannedComplete'
<1>1. TypeOK /\ HeadsStored /\ ScansRead /\ ScannedComplete
  BY DEF FileInv
<1>2. \A g \in Gateways : objects[g] \subseteq objects'[g]
  BY <1>1, StoreGrows
<1>3. SUFFICES ASSUME NEW k \in Gateways, NEW r \in snapshots'[k], r.gateway = k
               PROVE  Objects(r.id) \subseteq objects[k]
  BY <1>2 DEF ScannedComplete
<1>4. CASE r \in snapshots[k]
  BY <1>1, <1>3, <1>4 DEF ScannedComplete
<1>5. CASE scan[k].pc = "write_snapshot" /\ r.id = scan[k].tree
  <2>1. scan[k] # Idle
    BY <1>5 DEF Idle
  <2>2. \A f \in Paths : Content(scan[k].tree[f]) \subseteq objects[k]
    BY <1>1, <1>5, <2>1 DEF ScansRead, ReadSoFar
  <2>3. QED
    BY <1>5, <2>2, ContentsAreObjects
<1>6. CASE pull[k].pc = "fetch_objects" /\ r.id = pull[k].tree /\ r.gateway = pull[k].peer
           /\ ~Stored(k, r.id)
  <2>1. pull[k] # Idle
    BY <1>6 DEF Idle
  <2>2. QED
    BY <1>1, <1>3, <1>6, <2>1 DEF HeadsStored
<1>7. QED
  BY <1>1, <1>3, <1>4, <1>5, <1>6, NewRow

\* The invariant is inductive.
THEOREM FileInvariant == Spec => []FileInv
<1>1. FileInv /\ [Next]_vars => FileInv'
  BY NextTypeOK, NextHeadsStored, NextScansRead, NextScannedComplete DEF FileInv
<1>2. QED
  BY <1>1, InitFileInv, PTL DEF Spec

\* Type correctness of scans and pulls over any gateways, projects and paths:
\* every local state a scan or a pull can be in carries exactly the fields the
\* statements of scan_and_snapshot and sync_project read.
THEOREM FileSyncTypes == Spec => []TypeOK
<1>1. FileInv => TypeOK
  BY DEF FileInv
<1>2. QED
  BY <1>1, FileInvariant, PTL

\* Every content named by a snapshot that scan_and_snapshot wrote is in this
\* gateway's object store, whatever scans, edits and pulls overlap or end early:
\* put precedes write_snapshot, and the pull loop never inserts a row under this
\* gateway's own name, because a head it was told of by itself is stored.
THEOREM SnapshotsRestorable == Spec => []ScannedComplete
<1>1. FileInv => ScannedComplete
  BY DEF FileInv
<1>2. QED
  BY <1>1, FileInvariant, PTL

\* The tree a scan is about to write is the folder's own if nothing was edited
\* since it began, although scan_dir_recursive reads the files one at a time.
THEOREM QuietScansExact == Spec => []QuietScanExact
<1>1. ASSUME FileInv PROVE QuietScanExact
  <2>1. TypeOK /\ ScansRead
    BY <1>1 DEF FileInv
  <2>2. SUFFICES ASSUME NEW g \in Gateways,
                        scan[g].pc \in {"write_snapshot", "advance_head"}, ~scan[g].edited
                 PROVE  scan[g].tree = folder[g][scan[g].project]
    BY DEF QuietScanExact
  <2>3. scan[g] # Idle
    BY <2>2 DEF Idle
  <2>4. scan[g].project \in Projects /\ scan[g].tree \in Tree
    BY <2>1, <2>3, ScanTypes
  <2>5. folder[g][scan[g].project] \in Tree
    BY <2>1, <2>4 DEF TypeOK
  <2>6. \A f \in Paths : scan[g].tree[f] = folder[g][scan[g].project][f]
    BY <2>1, <2>2, <2>3 DEF ScansRead, ReadSoFar
  <2>7. QED
    BY <2>4, <2>5, <2>6 DEF Tree
<1>2. QED
  BY <1>1, FileInvariant, PTL
=============================================================================
