---------------------------- MODULE ObjectStore ----------------------------
(***************************************************************************)
(* The content-addressed object store, object_store.rs: a file per hash on *)
(* disk and a row per hash in the table objects.                           *)
(*                                                                         *)
(*   put   exists_db; fs::write (open and truncate, then write); INSERT    *)
(*                                                                         *)
(* A write of the file is two actions, because a reader, a second writer   *)
(* or a crash may come between the truncation and the last byte.           *)
(***************************************************************************)
EXTENDS Naturals, FiniteSets

CONSTANTS
    Hashes,            \* contents, each named by its sha256
    Tasks,             \* concurrent callers of put
    MaxStoreFailures   \* bound on I/O errors and crashes

ASSUME StoreBound == MaxStoreFailures \in Nat

VARIABLES
    disk,      \* disk[h]: state of the file data/objects/{h[0..2]}/{h[2..]}
    objects,   \* rows of the table objects
    task,
    shared,    \* history: hashes two puts were working on at the same time
    storeFailures

storeVars == <<disk, objects, task, shared, storeFailures>>

Idle == [pc |-> "idle"]

\* "partial": the file exists with less than the content.
FileState == {"absent", "partial", "full"}

StoreTypeOK ==
    /\ disk \in [Hashes -> FileState]
    /\ objects \subseteq Hashes
    /\ task \in [Tasks -> {Idle} \cup [pc : {"open", "writing", "insert"}, hash : Hashes]]
    /\ shared \subseteq Hashes
    /\ storeFailures \in Nat

StoreInit ==
    /\ disk = [h \in Hashes |-> "absent"]
    /\ objects = {}
    /\ task = [t \in Tasks |-> Idle]
    /\ shared = {}
    /\ storeFailures = 0

Goto(t, next) == task' = [task EXCEPT ![t] = next]
Busy(t, h) == task[t] # Idle /\ task[t].hash = h
Writing(t, h) == task[t] = [pc |-> "writing", hash |-> h]

-----------------------------------------------------------------------------

\* The history of a put of h that begins now.
NoteOverlap(h) ==
    shared' = IF \E t \in Tasks : Busy(t, h) THEN shared \cup {h} ELSE shared

\* Mutant of put: the check trusts the file instead of the row.
put_TrustsFile(t, h) ==
    /\ task[t] = Idle
    /\ Goto(t, IF disk[h] # "absent"
               THEN [pc |-> "insert", hash |-> h]
               ELSE [pc |-> "open", hash |-> h])
    /\ NoteOverlap(h)
    /\ UNCHANGED <<disk, objects, storeFailures>>

\* put: exists_db.  A row means the content is stored and put returns.
put(t, h) ==
    /\ task[t] = Idle
    /\ h \notin objects
    /\ Goto(t, [pc |-> "open", hash |-> h])
    /\ NoteOverlap(h)
    /\ UNCHANGED <<disk, objects, storeFailures>>

\* Mutant of write_open: the write is started and not awaited.
write_open_NotAwaited(t) ==
    /\ task[t].pc = "open"
    /\ disk' = [disk EXCEPT ![task[t].hash] = "partial"]
    /\ Goto(t, [pc |-> "insert", hash |-> task[t].hash])
    /\ UNCHANGED <<objects, shared, storeFailures>>

\* fs::write opens the file with truncation.
write_open(t) ==
    /\ task[t].pc = "open"
    /\ disk' = [disk EXCEPT ![task[t].hash] = "partial"]
    /\ Goto(t, [pc |-> "writing", hash |-> task[t].hash])
    /\ UNCHANGED <<objects, shared, storeFailures>>

\* fs::write returns.  While another writer is between its truncation and its
\* last byte, the file may still be incomplete.
write_done(t) ==
    /\ task[t].pc = "writing"
    /\ \E s \in {"full"} \cup {disk[task[t].hash] : u \in {u \in Tasks \ {t} :
                                                       Writing(u, task[t].hash)}} :
           disk' = [disk EXCEPT ![task[t].hash] = s]
    /\ Goto(t, [pc |-> "insert", hash |-> task[t].hash])
    /\ UNCHANGED <<objects, shared, storeFailures>>

\* INSERT INTO objects ... ON CONFLICT DO NOTHING.
insert_object(t) ==
    /\ task[t].pc = "insert"
    /\ objects' = objects \cup {task[t].hash}
    /\ Goto(t, Idle)
    /\ UNCHANGED <<disk, shared, storeFailures>>

\* One put ends with an error: of the disk, or of the database.
PutFails(t) ==
    /\ storeFailures < MaxStoreFailures
    /\ task[t] # Idle
    /\ Goto(t, Idle)
    /\ storeFailures' = storeFailures + 1
    /\ UNCHANGED <<disk, objects, shared>>

\* The gateway stops: every put in progress is gone.
Crash ==
    /\ storeFailures < MaxStoreFailures
    /\ task' = [t \in Tasks |-> Idle]
    /\ storeFailures' = storeFailures + 1
    /\ UNCHANGED <<disk, objects, shared>>

StoreNext ==
    \/ \E t \in Tasks, h \in Hashes : put(t, h)
    \/ \E t \in Tasks : write_open(t)
    \/ \E t \in Tasks : write_done(t)
    \/ \E t \in Tasks : insert_object(t)
    \/ \E t \in Tasks : PutFails(t)
    \/ Crash

StoreSpec == StoreInit /\ [][StoreNext]_storeVars

-----------------------------------------------------------------------------

\* A row promises the content: exists and missing answer from the rows alone.
\* It is kept for every object whose puts never overlapped, whatever failed or
\* crashed and however often the put was repeated.
StoredWhole == \A h \in objects \ shared : disk[h] = "full"

\* Overlapping puts of the same content keep it too while nothing fails: a stored
\* object is whole whenever nobody is rewriting it.
WholeAtRest ==
    storeFailures = 0 =>
        \A h \in objects : (\A t \in Tasks : ~Writing(t, h)) => disk[h] = "full"
=============================================================================
