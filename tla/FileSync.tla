------------------------------ MODULE FileSync ------------------------------
(***************************************************************************)
(* Snapshots of project folders and their exchange between gateways:       *)
(* file_sync.rs and scan_directory of object_store.rs, the snapshot part   *)
(* of sync_project in peer_sync.rs, and list_projects, fetch_snapshot and  *)
(* fetch_object of peer_server.rs.                                         *)
(*                                                                         *)
(*   scan_and_snapshot    read every file of the folder and put it; look   *)
(*                        the snapshot up; write_snapshot; advance_head    *)
(*   sync_project         ask for the peer's head; compare it with ours;   *)
(*                        fetch_snapshot; fetch the missing objects;       *)
(*                        INSERT the snapshot; advance_head                *)
(*                                                                         *)
(* A scan and the pull loop of a gateway run concurrently; each statement  *)
(* is a step.  Trees are the transcripts of Transcripts.  put is one step  *)
(* here, its inside is ObjectStore.  Projects are public.                  *)
(***************************************************************************)
EXTENDS Naturals, FiniteSets, Transcripts

CONSTANTS
    Gateways,
    Projects,
    Sources,        \* gateways whose folders are edited and scanned
    Pulls,          \* triples <<g, h, p>>: h is a configured peer of g, and both
                    \* have project p
    MaxEdits,       \* bound on edits of all folders
    MaxFailures,    \* bound on calls that end early
    NoSnapshot      \* no row in project_heads

ASSUME PullsAssumption == Pulls \subseteq Gateways \X Gateways \X Projects
ASSUME SourcesAssumption == Sources \subseteq Gateways
ASSUME FileSyncBounds == MaxEdits \in Nat /\ MaxFailures \in Nat

VARIABLES
    folder,     \* folder[g][p]: the file tree at folder_path
    objects,    \* objects[g]: contents in the object store
    snapshots,  \* snapshots[g]: rows [id, project, gateway]
    head,       \* head[g][p]: project_heads, NoSnapshot without a row
    headed,     \* headed[g][p]: the trees head[g][p] has been set to, as history
    scan,       \* scan[g]: local state of scan_and_snapshot
    pull,       \* pull[g]: local state of sync_project
    edits,
    failed      \* the steps before which some call has ended

vars == <<folder, objects, snapshots, head, headed, scan, pull, edits, failed>>

Idle == [pc |-> "idle"]

ASSUME NoSnapshotAssumption == NoSnapshot \notin Tree

\* The hashes fetch_snapshot reads out of a transcript.
all_hashes(tree) == Objects(parse_transcript(tree))

\* The contents put for one file that was read.
Content(e) == IF e = NoFile THEN {} ELSE {e.sha256}

SnapshotRow == [id : Tree, project : Projects, gateway : Gateways]

\* edited is history: the folder has changed since the scan began.
ScanState ==
    {Idle}
    \cup [pc : {"read", "write_snapshot", "advance_head"}, project : Projects,
          todo : SUBSET Paths, tree : Tree, edited : BOOLEAN]

PullState ==
    {Idle}
    \cup [pc : {"compare", "fetch_snapshot", "advance_head"},
          project : Projects, peer : Gateways, tree : Tree]
    \cup [pc : {"fetch_objects"}, project : Projects, peer : Gateways, tree : Tree,
          missing : SUBSET Hashes]

Steps == {"read", "write_snapshot", "advance_head", "compare", "fetch_snapshot",
          "fetch_objects"}

TypeOK ==
    /\ folder \in [Gateways -> [Projects -> Tree]]
    /\ objects \in [Gateways -> SUBSET Hashes]
    /\ snapshots \in [Gateways -> SUBSET SnapshotRow]
    /\ head \in [Gateways -> [Projects -> Tree \cup {NoSnapshot}]]
    /\ headed \in [Gateways -> [Projects -> SUBSET Tree]]
    /\ scan \in [Gateways -> ScanState]
    /\ pull \in [Gateways -> PullState]
    /\ edits \in Nat
    /\ failed \subseteq Steps

Init ==
    /\ folder = [g \in Gateways |-> [p \in Projects |-> EmptyTree]]
    /\ objects = [g \in Gateways |-> {}]
    /\ snapshots = [g \in Gateways |-> {}]
    /\ head = [g \in Gateways |-> [p \in Projects |-> NoSnapshot]]
    /\ headed = [g \in Gateways |-> [p \in Projects |-> {}]]
    /\ scan = [g \in Gateways |-> Idle]
    /\ pull = [g \in Gateways |-> Idle]
    /\ edits = 0 /\ failed = {}

\* advance_head: INSERT ... ON CONFLICT (project_id) DO UPDATE.
advance_head(g, p, tree) ==
    /\ head' = [head EXCEPT ![g][p] = tree]
    /\ headed' = [headed EXCEPT ![g][p] = @ \cup {tree}]

\* A row with this id, of whatever project: the id is the primary key.
Stored(g, tree) == \E r \in snapshots[g] : r.id = tree
ScanGoto(g, next) == scan' = [scan EXCEPT ![g] = next]
PullGoto(g, next) == pull' = [pull EXCEPT ![g] = next]

-----------------------------------------------------------------------------
(* The folder, edited by its user (external).                              *)

edit(g, p, f, e) ==
    LET tree == [folder[g][p] EXCEPT ![f] = e]
    IN  /\ edits < MaxEdits
        /\ tree # folder[g][p]
        /\ folder' = [folder EXCEPT ![g][p] = tree]
        /\ scan' = IF scan[g] # Idle /\ scan[g].project = p
                   THEN [scan EXCEPT ![g].edited = TRUE]
                   ELSE scan
        /\ edits' = edits + 1
        /\ UNCHANGED <<objects, snapshots, head, headed, pull, failed>>

-----------------------------------------------------------------------------
(* scan_and_snapshot.                                                      *)

\* The project exists and has a folder (folder_path is not empty).
scan_begin(g, p) ==
    /\ scan[g] = Idle
    /\ ScanGoto(g, [pc |-> "read", project |-> p, todo |-> Paths, tree |-> EmptyTree,
                    edited |-> FALSE])
    /\ UNCHANGED <<folder, objects, snapshots, head, headed, pull, edits, failed>>

\* Mutant of scan_file: the file is hashed and not put.
scan_file_HashOnly(g) ==
    /\ scan[g].pc = "read"
    /\ \E f \in scan[g].todo :
           LET e == folder[g][scan[g].project][f]
           IN  ScanGoto(g, [scan[g] EXCEPT !.todo = @ \ {f}, !.tree[f] = e])
    /\ UNCHANGED <<folder, objects, snapshots, head, headed, pull, edits, failed>>

\* Mutant of scan_file: the walk stops after the first file.
scan_file_StopsEarly(g) ==
    /\ scan[g].pc = "read"
    /\ \E f \in scan[g].todo :
           LET e == folder[g][scan[g].project][f]
           IN  /\ ScanGoto(g, [scan[g] EXCEPT !.todo = {}, !.tree[f] = e])
               /\ objects' = [objects EXCEPT ![g] = @ \cup Content(e)]
    /\ UNCHANGED <<folder, snapshots, head, headed, pull, edits, failed>>

\* scan_dir_recursive: the next path, in the order of the directory; the file
\* is read and put when its turn comes.
scan_file(g) ==
    /\ scan[g].pc = "read"
    /\ \E f \in scan[g].todo :
           LET e == folder[g][scan[g].project][f]
           IN  /\ ScanGoto(g, [scan[g] EXCEPT !.todo = @ \ {f}, !.tree[f] = e])
               /\ objects' = [objects EXCEPT ![g] = @ \cup Content(e)]
    /\ UNCHANGED <<folder, snapshots, head, headed, pull, edits, failed>>

\* SELECT id FROM snapshots: a known snapshot is returned and nothing changes.
scan_lookup(g) ==
    /\ scan[g].pc = "read"
    /\ scan[g].todo = {}
    /\ ScanGoto(g, IF Stored(g, scan[g].tree)
                   THEN Idle
                   ELSE [scan[g] EXCEPT !.pc = "write_snapshot"])
    /\ UNCHANGED <<folder, objects, snapshots, head, headed, pull, edits, failed>>

\* write_snapshot: a plain INSERT; the primary key is the id alone.
write_snapshot(g) ==
    /\ scan[g].pc = "write_snapshot"
    /\ IF Stored(g, scan[g].tree)
       THEN ScanGoto(g, Idle) /\ UNCHANGED snapshots
       ELSE /\ snapshots' = [snapshots EXCEPT ![g] = @ \cup
                  {[id |-> scan[g].tree, project |-> scan[g].project, gateway |-> g]}]
            /\ ScanGoto(g, [scan[g] EXCEPT !.pc = "advance_head"])
    /\ UNCHANGED <<folder, objects, head, headed, pull, edits, failed>>

\* Mutant of scan_advance_head: the two text arguments are swapped.
scan_advance_head_Swapped(g) ==
    /\ scan[g].pc = "advance_head"
    /\ advance_head(g, scan[g].project, scan[g].project)
    /\ ScanGoto(g, Idle)
    /\ UNCHANGED <<folder, objects, snapshots, pull, edits, failed>>

\* Mutant of scan_advance_head: ON CONFLICT DO NOTHING, the first head stays.
scan_advance_head_FirstStays(g) ==
    /\ scan[g].pc = "advance_head"
    /\ IF head[g][scan[g].project] = NoSnapshot
       THEN advance_head(g, scan[g].project, scan[g].tree)
       ELSE UNCHANGED <<head, headed>>
    /\ ScanGoto(g, Idle)
    /\ UNCHANGED <<folder, objects, snapshots, pull, edits, failed>>

\* The end of a scan.
scan_advance_head(g) ==
    /\ scan[g].pc = "advance_head"
    /\ advance_head(g, scan[g].project, scan[g].tree)
    /\ ScanGoto(g, Idle)
    /\ UNCHANGED <<folder, objects, snapshots, pull, edits, failed>>

\* The scan ends with an error, or the gateway stops.
ScanFail(g) ==
    /\ Cardinality(failed) < MaxFailures
    /\ scan[g] # Idle
    /\ failed' = failed \cup {scan[g].pc}
    /\ ScanGoto(g, Idle)
    /\ UNCHANGED <<folder, objects, snapshots, head, headed, pull, edits>>

-----------------------------------------------------------------------------
(* The snapshot part of sync_project.                                      *)

\* list_projects: the peer's head, an empty string without one.
sync_project(g, h, p) ==
    /\ pull[g] = Idle
    /\ head[h][p] # NoSnapshot
    /\ PullGoto(g, [pc |-> "compare", project |-> p, peer |-> h, tree |-> head[h][p]])
    /\ UNCHANGED <<folder, objects, snapshots, head, headed, scan, edits, failed>>

PullNext(g, pc) ==
    [pc |-> pc, project |-> pull[g].project, peer |-> pull[g].peer, tree |-> pull[g].tree]

\* if current_head == remote.snapshot_id ... already up to date.
sync_compare(g) ==
    /\ pull[g].pc = "compare"
    /\ PullGoto(g, IF head[g][pull[g].project] = pull[g].tree
                   THEN Idle
                   ELSE PullNext(g, "fetch_snapshot"))
    /\ UNCHANGED <<folder, objects, snapshots, head, headed, scan, edits, failed>>

\* fetch_snapshot at the peer: missing_objects are the objects the PEER lacks.
fetch_snapshot(g) ==
    /\ pull[g].pc = "fetch_snapshot"
    /\ PullGoto(g, [pc |-> "fetch_objects", project |-> pull[g].project,
                    peer |-> pull[g].peer, tree |-> pull[g].tree,
                    missing |-> all_hashes(pull[g].tree) \ objects[pull[g].peer]])
    /\ UNCHANGED <<folder, objects, snapshots, head, headed, scan, edits, failed>>

\* fetch_object and put, or "object not found" and the pull is given up.
fetch_object(g) ==
    /\ pull[g].pc = "fetch_objects"
    /\ \E o \in pull[g].missing :
           IF o \in objects[pull[g].peer]
           THEN /\ objects' = [objects EXCEPT ![g] = @ \cup {o}]
                /\ PullGoto(g, [pull[g] EXCEPT !.missing = @ \ {o}])
           ELSE PullGoto(g, Idle) /\ UNCHANGED objects
    /\ UNCHANGED <<folder, snapshots, head, headed, scan, edits, failed>>

\* apply_peer_snapshot: a plain INSERT, an error if the id is there already.
apply_peer_snapshot(g) ==
    /\ pull[g].pc = "fetch_objects"
    /\ pull[g].missing = {}
    /\ IF Stored(g, pull[g].tree)
       THEN PullGoto(g, Idle) /\ UNCHANGED snapshots
       ELSE /\ snapshots' = [snapshots EXCEPT ![g] = @ \cup
                  {[id |-> pull[g].tree, project |-> pull[g].project,
                    gateway |-> pull[g].peer]}]
            /\ PullGoto(g, PullNext(g, "advance_head"))
    /\ UNCHANGED <<folder, objects, head, headed, scan, edits, failed>>

\* Mutant of pull_advance_head: a plain UPDATE, which finds no row at first.
pull_advance_head_UpdateOnly(g) ==
    /\ pull[g].pc = "advance_head"
    /\ IF head[g][pull[g].project] # NoSnapshot
       THEN advance_head(g, pull[g].project, pull[g].tree)
       ELSE UNCHANGED <<head, headed>>
    /\ PullGoto(g, Idle)
    /\ UNCHANGED <<folder, objects, snapshots, scan, edits, failed>>

\* The end of a pull.
pull_advance_head(g) ==
    /\ pull[g].pc = "advance_head"
    /\ advance_head(g, pull[g].project, pull[g].tree)
    /\ PullGoto(g, Idle)
    /\ UNCHANGED <<folder, objects, snapshots, scan, edits, failed>>

\* The pull ends with an error, or the gateway stops.
PullFail(g) ==
    /\ Cardinality(failed) < MaxFailures
    /\ pull[g] # Idle
    /\ failed' = failed \cup {pull[g].pc}
    /\ PullGoto(g, Idle)
    /\ UNCHANGED <<folder, objects, snapshots, head, headed, scan, edits>>

-----------------------------------------------------------------------------

ScanStep(g) ==
    scan_file(g) \/ scan_lookup(g) \/ write_snapshot(g) \/ scan_advance_head(g)

PullStep(g) ==
    \/ sync_compare(g)
    \/ fetch_snapshot(g)
    \/ fetch_object(g)
    \/ apply_peer_snapshot(g)
    \/ pull_advance_head(g)

Next ==
    \/ \E g \in Sources, p \in Projects, f \in Paths,
          e \in TranscriptEntry \cup {NoFile} : edit(g, p, f, e)
    \/ \E g \in Sources, p \in Projects : scan_begin(g, p)
    \/ \E g \in Gateways : scan_file(g)
    \/ \E g \in Gateways : scan_lookup(g)
    \/ \E g \in Gateways : write_snapshot(g)
    \/ \E g \in Gateways : scan_advance_head(g)
    \/ \E g \in Gateways : ScanFail(g)
    \/ \E e \in Pulls : sync_project(e[1], e[2], e[3])
    \/ \E g \in Gateways : sync_compare(g)
    \/ \E g \in Gateways : fetch_snapshot(g)
    \/ \E g \in Gateways : fetch_object(g)
    \/ \E g \in Gateways : apply_peer_snapshot(g)
    \/ \E g \in Gateways : pull_advance_head(g)
    \/ \E g \in Gateways : PullFail(g)

Spec == Init /\ [][Next]_vars

\* The pull loop visits every peer and project again and again; scans are
\* requested again and again; both run to their end unless they fail.
FairSpec ==
    /\ Spec
    /\ \A g \in Gateways : WF_vars(ScanStep(g)) /\ WF_vars(PullStep(g))
    /\ \A g \in Sources, p \in Projects : SF_vars(scan_begin(g, p))
    /\ \A e \in Pulls : SF_vars(sync_project(e[1], e[2], e[3]))

-----------------------------------------------------------------------------

\* Every content named by a snapshot this gateway made is in its store, so the
\* snapshot can be restored: objects are put before the row is written, and the
\* early return finds a snapshot whose objects this scan has put as well.
ScannedComplete ==
    \A g \in Gateways : \A r \in snapshots[g] :
        r.gateway = g => Objects(r.id) \subseteq objects[g]

\* A snapshot is a state the folder was in ("point-in-time transcripts") if the
\* folder did not change during the scan: the tree about to be written is the
\* folder's, although files are read one at a time.
QuietScanExact ==
    \A g \in Gateways :
        scan[g].pc \in {"write_snapshot", "advance_head"} /\ ~scan[g].edited =>
            scan[g].tree = folder[g][scan[g].project]

\* A snapshot accepted from a peer can be restored too ("objects must already
\* be stored").
PulledComplete ==
    \A g \in Gateways : \A r \in snapshots[g] : Objects(r.id) \subseteq objects[g]

\* The tree has a row of this project, and was made the project's head.
HeadOnce(g, p, tree) ==
    tree \in headed[g][p] /\ \E r \in snapshots[g] : r.id = tree /\ r.project = p

\* The early return: the id is the table's whole key, so a tree that another
\* project has a row for gets no row and no head here.
OthersTree(g, p, tree) == \E r \in snapshots[g] : r.id = tree /\ r.project # p

\* "Walk the project's folder_path, store all objects, write a snapshot row."
\* Again and again the folder as it is, so the state it settles in, is stored,
\* has a row of its project and was made its head, whatever ended early before,
\* unless another project has the row or a call ended between an INSERT and its
\* update of the head.  It need not be the head now: a folder that returns to an
\* earlier tree finds the id in the table, and the early return leaves the head
\* where it is.
FolderStored ==
    \A g \in Sources, p \in Projects :
        []<>(/\ Stored(g, folder[g][p])
             /\ \/ HeadOnce(g, p, folder[g][p])
                \/ OthersTree(g, p, folder[g][p])
                \/ "advance_head" \in failed)

\* Again and again a gateway that only pulls has the head of the peer that scans
\* ("Bob's local changes -> Alice's NAS"), unless a call ended between the INSERT
\* of a snapshot and the update of the head.
HeadFollows ==
    \A e \in Pulls : e[2] \in Sources /\ e[1] \notin Sources =>
        []<>(head[e[1]][e[3]] = head[e[2]][e[3]] \/ "advance_head" \in failed)
=============================================================================
