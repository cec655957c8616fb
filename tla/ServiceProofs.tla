--------------------------- MODULE ServiceProofs ----------------------------
(***************************************************************************)
(* The smaller services of a gateway: the object store, the containers of  *)
(* the dashboard, the memory facts, and the reconciler with the event bus. *)
(* Each has a specification and an inductive invariant of its own, and no  *)
(* theorem is about two of them.                                           *)
(***************************************************************************)
EXTENDS ObjectStore, Containers, MemoryFacts, TaskHooks,
        WellFoundedInduction, FiniteSetTheorems, TLAPS


-----------------------------------------------------------------------------
(* The rows of the object store promise whole files: ObjectStore.          *)


\* At most one put works on a content whose puts never overlapped.
OnePut ==
    \A h \in Hashes \ shared : \A t, u \in Tasks : Busy(t, h) /\ Busy(u, h) => t = u

\* Before its INSERT the only put has written the whole file.
WrittenBeforeRow ==
    \A t \in Tasks : task[t].pc = "insert" /\ task[t].hash \notin shared
                         => disk[task[t].hash] = "full"

\* A stored content is whole, and nobody is about to truncate its file.
StoredAndLeft ==
    \A h \in objects \ shared : disk[h] = "full" /\ \A t \in Tasks : ~Busy(t, h)

StoreInv == StoreTypeOK /\ OnePut /\ WrittenBeforeRow /\ StoredAndLeft

\* Types of a put at work.
LEMMA BusyTypes ==
    ASSUME StoreTypeOK, NEW t \in Tasks
    PROVE  /\ task[t] = Idle <=> task[t].pc = "idle"
           /\ task[t] # Idle => /\ task[t].hash \in Hashes
                                /\ task[t].pc \in {"open", "writing", "insert"}
BY DEF StoreTypeOK, Idle

LEMMA InitStoreInv == StoreInit => StoreInv
BY DEF StoreInit, StoreInv, StoreTypeOK, OnePut, WrittenBeforeRow, StoredAndLeft, Busy, Idle, FileState

LEMMA PutStoreInv ==
    ASSUME StoreInv, NEW t \in Tasks, NEW h \in Hashes, put(t, h)
    PROVE  StoreInv'
<1>0. /\ task[t] = Idle /\ h \notin objects
      /\ task' = [task EXCEPT ![t] = [pc |-> "open", hash |-> h]]
      /\ disk' = disk /\ objects' = objects /\ storeFailures' = storeFailures
      /\ shared' = IF \E u \in Tasks : Busy(u, h) THEN shared \cup {h} ELSE shared
  BY DEF put, Goto, NoteOverlap
<1>1. StoreTypeOK
  BY DEF StoreInv
<1>2. StoreTypeOK'
  BY <1>0, <1>1 DEF StoreTypeOK
<1>3. /\ \A u \in Tasks : u # t => task'[u] = task[u]
      /\ task'[t] = [pc |-> "open", hash |-> h]
  BY <1>0, <1>1 DEF StoreTypeOK
<1>4. shared \subseteq shared'
  BY <1>0
<1>5. \A u \in Tasks, k \in Hashes : u # t => (Busy(u, k)' <=> Busy(u, k))
  BY <1>3 DEF Busy
<1>6. \A k \in Hashes : Busy(t, k)' <=> k = h
  BY <1>3 DEF Busy, Idle
<1>7. OnePut'
  <2>1. SUFFICES ASSUME NEW k \in Hashes \ shared', NEW u \in Tasks, NEW v \in Tasks,
                        Busy(u, k)', Busy(v, k)'
                 PROVE  u = v
    BY DEF OnePut
  <2>2. k \in Hashes \ shared
    BY <1>4, <2>1
  <2>3. CASE k = h
    <3>1. \A w \in Tasks : ~Busy(w, h)
      BY <1>0, <2>1, <2>3
    <3>2. QED
      BY <1>5, <2>1, <2>3, <3>1
  <2>4. CASE k # h
    BY <1>5, <1>6, <2>1, <2>2, <2>4 DEF StoreInv, OnePut
  <2>5. QED
    BY <2>3, <2>4
<1>8. WrittenBeforeRow'
  BY <1>0, <1>3, <1>4 DEF StoreInv, WrittenBeforeRow
<1>9. StoredAndLeft'
  <2>1. objects \subseteq Hashes
    BY <1>1 DEF StoreTypeOK
  <2>2. QED
    BY <1>0, <1>4, <1>5, <1>6, <2>1 DEF StoreInv, StoredAndLeft
<1>10. QED
  BY <1>2, <1>7, <1>8, <1>9 DEF StoreInv

\* The steps of a put on its own content: what they share.
LEMMA SameWork ==
    ASSUME StoreTypeOK, NEW t \in Tasks, task[t] # Idle,
           NEW pc \in {"open", "writing", "insert"},
           task' = [task EXCEPT ![t] = [pc |-> pc, hash |-> task[t].hash]]
    PROVE  /\ \A u \in Tasks : u # t => task'[u] = task[u]
           /\ task'[t] = [pc |-> pc, hash |-> task[t].hash]
           /\ \A u \in Tasks, h \in Hashes : Busy(u, h)' <=> Busy(u, h)
<1>1. /\ \A u \in Tasks : u # t => task'[u] = task[u]
      /\ task'[t] = [pc |-> pc, hash |-> task[t].hash]
  BY DEF StoreTypeOK
<1>2. QED
  BY <1>1 DEF Busy, Idle

LEMMA WriteOpenStoreInv ==
    ASSUME StoreInv, NEW t \in Tasks, write_open(t)
    PROVE  StoreInv'
<1> DEFINE h == task[t].hash
<1>1. StoreTypeOK
  BY DEF StoreInv
<1>0. /\ task[t].pc = "open" /\ task[t] # Idle /\ h \in Hashes
      /\ disk' = [disk EXCEPT ![h] = "partial"]
      /\ task' = [task EXCEPT ![t] = [pc |-> "writing", hash |-> h]]
      /\ objects' = objects /\ shared' = shared /\ storeFailures' = storeFailures
  BY <1>1, BusyTypes DEF write_open, Goto, Idle
<1>2. StoreTypeOK'
  BY <1>0, <1>1 DEF StoreTypeOK, FileState
<1>3. /\ \A u \in Tasks : u # t => task'[u] = task[u]
      /\ task'[t] = [pc |-> "writing", hash |-> h]
      /\ \A u \in Tasks, k \in Hashes : Busy(u, k)' <=> Busy(u, k)
  BY <1>0, <1>1, SameWork
<1>4. \A k \in Hashes : k # h => disk'[k] = disk[k]
  BY <1>0, <1>1 DEF StoreTypeOK
<1>5. OnePut'
  BY <1>0, <1>3 DEF StoreInv, OnePut
<1>6. Busy(t, h)
  BY <1>0 DEF Busy
<1>7. WrittenBeforeRow'
  <2>1. SUFFICES ASSUME NEW u \in Tasks, task'[u].pc = "insert", task'[u].hash \notin shared
                 PROVE  disk'[task'[u].hash] = "full"
    BY <1>0 DEF WrittenBeforeRow
  <2>2. u # t /\ task[u].pc = "insert" /\ task'[u] = task[u]
    BY <1>3, <2>1
  <2>3. task[u].hash \in Hashes /\ Busy(u, task[u].hash)
    BY <1>1, <2>2, BusyTypes DEF Busy, Idle
  <2>4. task[u].hash # h
    BY <1>0, <1>6, <2>1, <2>2, <2>3 DEF StoreInv, OnePut
  <2>5. disk[task[u].hash] = "full"
    BY <2>1, <2>2 DEF StoreInv, WrittenBeforeRow
  <2>6. QED
    BY <1>4, <2>2, <2>3, <2>4, <2>5
<1>8. StoredAndLeft'
  <2>1. \A k \in objects \ shared : k \in Hashes /\ k # h
    BY <1>1, <1>6 DEF StoreInv, StoredAndLeft, StoreTypeOK
  <2>2. QED
    BY <1>0, <1>3, <1>4, <2>1 DEF StoreInv, StoredAndLeft
<1>9. QED
  BY <1>2, <1>5, <1>7, <1>8 DEF StoreInv

LEMMA WriteDoneStoreInv ==
    ASSUME StoreInv, NEW t \in Tasks, write_done(t)
    PROVE  StoreInv'
<1> DEFINE h == task[t].hash
<1>1. StoreTypeOK
  BY DEF StoreInv
<1>0. /\ task[t].pc = "writing" /\ task[t] # Idle /\ h \in Hashes
      /\ task' = [task EXCEPT ![t] = [pc |-> "insert", hash |-> h]]
      /\ objects' = objects /\ shared' = shared /\ storeFailures' = storeFailures
  BY <1>1, BusyTypes DEF write_done, Goto, Idle
<1>2. PICK s \in {"full"} \cup {disk[h] : u \in {u \in Tasks \ {t} : Writing(u, h)}} :
          disk' = [disk EXCEPT ![h] = s]
  BY DEF write_done
<1>3. s \in FileState /\ (s = "full" \/ \E u \in Tasks : u # t /\ Writing(u, h))
  BY <1>0, <1>1 DEF StoreTypeOK, FileState
<1>4. /\ \A k \in Hashes : k # h => disk'[k] = disk[k]
      /\ disk'[h] = s
  BY <1>0, <1>1, <1>2 DEF StoreTypeOK
<1>5. StoreTypeOK'
  BY <1>0, <1>1, <1>2, <1>3 DEF StoreTypeOK
<1>6. /\ \A u \in Tasks : u # t => task'[u] = task[u]
      /\ task'[t] = [pc |-> "insert", hash |-> h]
      /\ \A u \in Tasks, k \in Hashes : Busy(u, k)' <=> Busy(u, k)
  BY <1>0, <1>1, SameWork
<1>7. Busy(t, h)
  BY <1>0 DEF Busy
<1>8. h \notin shared => s = "full"
  <2>1. \A u \in Tasks : Writing(u, h) => Busy(u, h)
    BY DEF Writing, Busy, Idle
  <2>2. QED
    BY <1>0, <1>3, <1>7, <2>1 DEF StoreInv, OnePut
<1>9. OnePut'
  BY <1>0, <1>6 DEF StoreInv, OnePut
<1>10. WrittenBeforeRow'
  <2>1. SUFFICES ASSUME NEW u \in Tasks, task'[u].pc = "insert", task'[u].hash \notin shared
                 PROVE  disk'[task'[u].hash] = "full"
    BY <1>0 DEF WrittenBeforeRow
  <2>2. CASE task'[u].hash = h
    BY <1>4, <1>8, <2>1, <2>2
  <2>3. CASE task'[u].hash # h
    <3>1. u # t /\ task'[u] = task[u]
      BY <1>6, <2>3
    <3>2. task[u].hash \in Hashes
      BY <1>1, <2>1, <3>1, BusyTypes DEF Idle
    <3>3. QED
      BY <1>4, <2>1, <2>3, <3>1, <3>2 DEF StoreInv, WrittenBeforeRow
  <2>4. QED
    BY <2>2, <2>3
<1>11. StoredAndLeft'
  <2>1. \A k \in objects \ shared : k \in Hashes /\ k # h
    BY <1>1, <1>7 DEF StoreInv, StoredAndLeft, StoreTypeOK
  <2>2. QED
    BY <1>0, <1>4, <1>6, <2>1 DEF StoreInv, StoredAndLeft
<1>12. QED
  BY <1>5, <1>9, <1>10, <1>11 DEF StoreInv

\* A put that ends, by its INSERT or an error, is busy with nothing.
LEMMA Released ==
    ASSUME StoreTypeOK, NEW t \in Tasks, task' = [task EXCEPT ![t] = Idle]
    PROVE  /\ \A u \in Tasks : u # t => task'[u] = task[u]
           /\ task'[t] = Idle
           /\ \A u \in Tasks, h \in Hashes : Busy(u, h)' <=> (u # t /\ Busy(u, h))
<1>1. /\ \A u \in Tasks : u # t => task'[u] = task[u]
      /\ task'[t] = Idle
  BY DEF StoreTypeOK
<1>2. QED
  BY <1>1 DEF Busy

LEMMA InsertStoreInv ==
    ASSUME StoreInv, NEW t \in Tasks, insert_object(t)
    PROVE  StoreInv'
<1> DEFINE h == task[t].hash
<1>1. StoreTypeOK
  BY DEF StoreInv
<1>0. /\ task[t].pc = "insert" /\ task[t] # Idle /\ h \in Hashes
      /\ objects' = objects \cup {h}
      /\ task' = [task EXCEPT ![t] = Idle]
      /\ disk' = disk /\ shared' = shared /\ storeFailures' = storeFailures
  BY <1>1, BusyTypes DEF insert_object, Goto, Idle
<1>2. StoreTypeOK'
  BY <1>0, <1>1 DEF StoreTypeOK
<1>3. /\ \A u \in Tasks : u # t => task'[u] = task[u]
      /\ task'[t] = Idle
      /\ \A u \in Tasks, k \in Hashes : Busy(u, k)' <=> (u # t /\ Busy(u, k))
  BY <1>0, <1>1, Released
<1>4. OnePut'
  BY <1>0, <1>3 DEF StoreInv, OnePut
<1>5. WrittenBeforeRow'
  BY <1>0, <1>3 DEF StoreInv, WrittenBeforeRow, Idle
<1>6. StoredAndLeft'
  <2>1. SUFFICES ASSUME NEW k \in objects' \ shared
                 PROVE  disk[k] = "full" /\ \A u \in Tasks : ~Busy(u, k)'
    BY <1>0 DEF StoredAndLeft
  <2>2. CASE k = h
    <3>1. disk[h] = "full"
      BY <1>0, <2>1, <2>2 DEF StoreInv, WrittenBeforeRow
    <3>2. \A u \in Tasks : Busy(u, h) => u = t
      BY <1>0, <2>1, <2>2 DEF StoreInv, OnePut, Busy
    <3>3. QED
      BY <1>0, <1>3, <2>2, <3>1, <3>2
  <2>3. CASE k # h
    <3>1. k \in objects \ shared /\ k \in Hashes
      BY <1>0, <1>1, <2>1, <2>3 DEF StoreTypeOK
    <3>2. QED
      BY <1>3, <3>1 DEF StoreInv, StoredAndLeft
  <2>4. QED
    BY <2>2, <2>3
<1>7. QED
  BY <1>2, <1>4, <1>5, <1>6 DEF StoreInv

LEMMA FailStoreInv ==
    ASSUME StoreInv, NEW t \in Tasks, PutFails(t)
    PROVE  StoreInv'
<1>1. StoreTypeOK
  BY DEF StoreInv
<1>0. /\ task' = [task EXCEPT ![t] = Idle] /\ storeFailures' = storeFailures + 1
      /\ disk' = disk /\ objects' = objects /\ shared' = shared
  BY DEF PutFails, Goto
<1>2. StoreTypeOK'
  BY <1>0, <1>1 DEF StoreTypeOK
<1>3. /\ \A u \in Tasks : u # t => task'[u] = task[u]
      /\ task'[t] = Idle
      /\ \A u \in Tasks, k \in Hashes : Busy(u, k)' <=> (u # t /\ Busy(u, k))
  BY <1>0, <1>1, Released
<1>4. objects \subseteq Hashes
  BY <1>1 DEF StoreTypeOK
<1>5. OnePut' /\ WrittenBeforeRow' /\ StoredAndLeft'
  BY <1>0, <1>3, <1>4 DEF StoreInv, OnePut, WrittenBeforeRow, StoredAndLeft, Idle
<1>6. QED
  BY <1>2, <1>5 DEF StoreInv

LEMMA CrashStoreInv ==
    ASSUME StoreInv, Crash
    PROVE  StoreInv'
<1>0. /\ task' = [t \in Tasks |-> Idle] /\ storeFailures' = storeFailures + 1
      /\ disk' = disk /\ objects' = objects /\ shared' = shared
  BY DEF Crash
<1>1. StoreTypeOK'
  BY <1>0 DEF StoreInv, StoreTypeOK
<1>2. \A t \in Tasks : task'[t].pc = "idle" /\ \A h \in Hashes : ~Busy(t, h)'
  BY <1>0 DEF Busy, Idle
<1>3. objects \subseteq Hashes
  BY DEF StoreInv, StoreTypeOK
<1>4. OnePut' /\ WrittenBeforeRow' /\ StoredAndLeft'
  BY <1>0, <1>2, <1>3 DEF StoreInv, OnePut, WrittenBeforeRow, StoredAndLeft
<1>5. QED
  BY <1>1, <1>4 DEF StoreInv

LEMMA NextStoreInv == StoreInv /\ [StoreNext]_storeVars => StoreInv'
<1> SUFFICES ASSUME StoreInv, [StoreNext]_storeVars PROVE StoreInv'
  OBVIOUS
<1>1. CASE UNCHANGED storeVars
  BY <1>1 DEF storeVars, StoreInv, StoreTypeOK, OnePut, WrittenBeforeRow, StoredAndLeft, Busy
<1>2. CASE StoreNext
  BY <1>2, PutStoreInv, WriteOpenStoreInv, WriteDoneStoreInv, InsertStoreInv, FailStoreInv,
     CrashStoreInv DEF StoreNext
<1>3. QED
  BY <1>1, <1>2

\* Rows, files and the puts at work keep their types (ObjectStore::put).
THEOREM StoreTypes == StoreSpec => []StoreTypeOK
<1>1. StoreInv => StoreTypeOK
  BY DEF StoreInv
<1> QED
  BY <1>1, InitStoreInv, NextStoreInv, PTL DEF StoreSpec

\* A row of the table objects promises the whole file for every content whose
\* puts did not overlap: ObjectStore::put writes the file before the row, trusts
\* only the row, and so survives errors and crashes at any point.
THEOREM RowsPromiseFiles == StoreSpec => []StoredWhole
<1>1. StoreInv => StoredWhole
  BY DEF StoreInv, StoredAndLeft, StoredWhole
<1> QED
  BY <1>1, InitStoreInv, NextStoreInv, PTL DEF StoreSpec

-----------------------------------------------------------------------------

\* While nothing has failed, an incomplete file has a writer.
PartialHasWriter ==
    storeFailures = 0 => \A h \in Hashes : disk[h] = "partial" => \E t \in Tasks : Writing(t, h)

\* A file exists from the truncation on, and is never removed.
FileBeforeRow ==
    /\ \A h \in objects : disk[h] # "absent"
    /\ \A t \in Tasks : task[t].pc \in {"writing", "insert"} => disk[task[t].hash] # "absent"

RestInv == PartialHasWriter /\ FileBeforeRow

LEMMA WriteOpenRestInv ==
    ASSUME StoreTypeOK, RestInv, NEW t \in Tasks, write_open(t)
    PROVE  RestInv'
<1> DEFINE h == task[t].hash
<1>1. /\ h \in Hashes /\ disk' = [disk EXCEPT ![h] = "partial"]
      /\ objects' = objects /\ storeFailures' = storeFailures
      /\ \A u \in Tasks : u # t => task'[u] = task[u]
      /\ task'[t] = [pc |-> "writing", hash |-> h]
      /\ task[t].pc = "open"
  BY BusyTypes DEF write_open, Goto, Idle, StoreTypeOK
<1>2. \A k \in Hashes : disk'[k] = IF k = h THEN "partial" ELSE disk[k]
  BY <1>1 DEF StoreTypeOK
<1>3. PartialHasWriter'
  <2>1. SUFFICES ASSUME storeFailures = 0, NEW k \in Hashes, disk'[k] = "partial"
                 PROVE  \E u \in Tasks : Writing(u, k)'
    BY <1>1 DEF PartialHasWriter
  <2>2. CASE k = h
    BY <1>1, <2>2 DEF Writing
  <2>3. CASE k # h
    <3>1. PICK u \in Tasks : Writing(u, k)
      BY <1>2, <2>1, <2>3 DEF RestInv, PartialHasWriter
    <3>2. u # t
      BY <1>1, <3>1 DEF Writing
    <3>3. QED
      BY <1>1, <3>1, <3>2 DEF Writing
  <2>4. QED
    BY <2>2, <2>3
<1>4. FileBeforeRow'
  <2>1. objects \subseteq Hashes /\ \A u \in Tasks : task[u].pc \in {"writing", "insert"} =>
                                                        task[u].hash \in Hashes
    BY BusyTypes DEF StoreTypeOK, Idle
  <2>2. QED
    BY <1>1, <1>2, <2>1 DEF RestInv, FileBeforeRow
<1>5. QED
  BY <1>3, <1>4 DEF RestInv

LEMMA WriteDoneRestInv ==
    ASSUME StoreTypeOK, RestInv, NEW t \in Tasks, write_done(t)
    PROVE  RestInv'
<1> DEFINE h == task[t].hash
<1>1. /\ h \in Hashes /\ objects' = objects /\ storeFailures' = storeFailures
      /\ \A u \in Tasks : u # t => task'[u] = task[u]
      /\ task'[t] = [pc |-> "insert", hash |-> h]
      /\ task[t].pc = "writing"
  BY BusyTypes DEF write_done, Goto, Idle, StoreTypeOK
<1>2. PICK s \in {"full"} \cup {disk[h] : u \in {u \in Tasks \ {t} : Writing(u, h)}} :
          disk' = [disk EXCEPT ![h] = s]
  BY DEF write_done
<1>3. s = "full" \/ (s = disk[h] /\ \E u \in Tasks : u # t /\ Writing(u, h))
  OBVIOUS
<1>4. \A k \in Hashes : disk'[k] = IF k = h THEN s ELSE disk[k]
  BY <1>1, <1>2 DEF StoreTypeOK
<1>5. disk[h] # "absent"
  BY <1>1 DEF RestInv, FileBeforeRow
<1>6. PartialHasWriter'
  <2>1. SUFFICES ASSUME storeFailures = 0, NEW k \in Hashes, disk'[k] = "partial"
                 PROVE  \E u \in Tasks : Writing(u, k)'
    BY <1>1 DEF PartialHasWriter
  <2>2. PICK u \in Tasks : u # t /\ Writing(u, k)
    <3>1. CASE k = h
      BY <1>3, <1>4, <2>1, <3>1
    <3>2. CASE k # h
      <4>1. PICK u \in Tasks : Writing(u, k)
        BY <1>4, <2>1, <3>2 DEF RestInv, PartialHasWriter
      <4>2. QED
        BY <3>2, <4>1 DEF Writing
    <3>3. QED
      BY <3>1, <3>2
  <2>3. QED
    BY <1>1, <2>2 DEF Writing
<1>7. FileBeforeRow'
  <2>1. objects \subseteq Hashes /\ \A u \in Tasks : task[u].pc \in {"writing", "insert"} =>
                                                        task[u].hash \in Hashes
    BY BusyTypes DEF StoreTypeOK, Idle
  <2>2. \A k \in Hashes : disk[k] # "absent" => disk'[k] # "absent"
    BY <1>3, <1>4
  <2>3. QED
    BY <1>1, <1>5, <2>1, <2>2 DEF RestInv, FileBeforeRow
<1>8. QED
  BY <1>6, <1>7 DEF RestInv

\* The other steps leave the files alone and take no writer away, except by a
\* failure.
LEMMA OtherRestInv ==
    ASSUME StoreTypeOK, RestInv,
           \/ \E t \in Tasks, h \in Hashes : put(t, h)
           \/ \E t \in Tasks : insert_object(t) \/ PutFails(t)
           \/ Crash \/ UNCHANGED storeVars
    PROVE  RestInv'
<1>1. disk' = disk
  BY DEF put, insert_object, PutFails, Crash, storeVars
<1>2. ASSUME NEW t \in Tasks, NEW h \in Hashes, put(t, h) PROVE RestInv'
  <2>1. /\ task[t] = Idle /\ task'[t] = [pc |-> "open", hash |-> h]
        /\ \A u \in Tasks : u # t => task'[u] = task[u]
        /\ objects' = objects /\ storeFailures' = storeFailures
    BY <1>2 DEF put, Goto, StoreTypeOK
  <2>2. \A k \in Hashes, u \in Tasks : Writing(u, k) => Writing(u, k)'
    BY <2>1 DEF Writing, Idle
  <2>3. QED
    BY <1>1, <2>1, <2>2 DEF RestInv, PartialHasWriter, FileBeforeRow
<1>3. ASSUME NEW t \in Tasks, insert_object(t) PROVE RestInv'
  <2>1. /\ task[t].pc = "insert" /\ task'[t] = Idle
        /\ \A u \in Tasks : u # t => task'[u] = task[u]
        /\ objects' = objects \cup {task[t].hash} /\ storeFailures' = storeFailures
    BY <1>3 DEF insert_object, Goto, StoreTypeOK
  <2>2. \A k \in Hashes, u \in Tasks : Writing(u, k) => Writing(u, k)'
    BY <2>1 DEF Writing
  <2>3. QED
    BY <1>1, <2>1, <2>2 DEF RestInv, PartialHasWriter, FileBeforeRow, Idle
<1>4. ASSUME storeFailures' = storeFailures + 1, objects' = objects,
             \A u \in Tasks : task'[u] = task[u] \/ task'[u] = Idle
      PROVE  RestInv'
  <2>1. storeFailures' # 0
    BY <1>4 DEF StoreTypeOK
  <2>2. QED
    BY <1>1, <1>4, <2>1 DEF RestInv, PartialHasWriter, FileBeforeRow, Idle
<1>5. ASSUME NEW t \in Tasks, PutFails(t) PROVE RestInv'
  <2>1. storeFailures' = storeFailures + 1 /\ objects' = objects
        /\ \A u \in Tasks : task'[u] = task[u] \/ task'[u] = Idle
    BY <1>5 DEF PutFails, Goto, StoreTypeOK
  <2>2. QED
    BY <1>4, <2>1
<1>6. CASE Crash
  <2>1. storeFailures' = storeFailures + 1 /\ objects' = objects
        /\ \A u \in Tasks : task'[u] = task[u] \/ task'[u] = Idle
    BY <1>6 DEF Crash
  <2>2. QED
    BY <1>4, <2>1
<1>7. CASE UNCHANGED storeVars
  BY <1>7 DEF storeVars, RestInv, PartialHasWriter, FileBeforeRow, Writing
<1>8. QED
  BY <1>2, <1>3, <1>5, <1>6, <1>7

\* Overlapping puts of one content do no lasting harm while nothing fails: any
\* number of writers may truncate the file of a stored object again, and when
\* the last of them is done it is whole (ObjectStore::put).
THEOREM OverlapsHeal == StoreSpec => []WholeAtRest
<1>1. StoreInit => RestInv
  BY DEF StoreInit, RestInv, PartialHasWriter, FileBeforeRow, Idle
<1>2. StoreInv /\ RestInv /\ [StoreNext]_storeVars => RestInv'
  <2>1. SUFFICES ASSUME StoreTypeOK, RestInv, [StoreNext]_storeVars PROVE RestInv'
    BY DEF StoreInv
  <2>2. QED
    BY <2>1, WriteOpenRestInv, WriteDoneRestInv, OtherRestInv DEF StoreNext
<1>3. StoreInv /\ RestInv => WholeAtRest
  <2>1. SUFFICES ASSUME StoreTypeOK, RestInv, storeFailures = 0, NEW h \in objects,
                        \A t \in Tasks : ~Writing(t, h)
                 PROVE  disk[h] = "full"
    BY DEF StoreInv, WholeAtRest
  <2>2. h \in Hashes /\ disk[h] \in FileState
    BY <2>1 DEF StoreTypeOK
  <2>3. QED
    BY <2>1, <2>2 DEF FileState, RestInv, PartialHasWriter, FileBeforeRow
<1>4. QED
  BY <1>1, <1>2, <1>3, InitStoreInv, NextStoreInv, PTL DEF StoreSpec

-----------------------------------------------------------------------------
(* Least and largest numbers.                                              *)

\* Sets of natural numbers have a least element, bounded ones a largest one.
LEMMA Least ==
    ASSUME NEW S, S \subseteq Nat, S # {}
    PROVE  \E x \in S : \A y \in S : x <= y
<1>1. PICK R : R = OpToRel(<, Nat)
  OBVIOUS
<1>2. IsWellFoundedOn(R, Nat)
  BY <1>1, NatLessThanWellFounded
<1>3. \A x, y \in Nat : <<y, x>> \in R <=> y < x
  BY <1>1 DEF OpToRel
<1>4. PICK x \in S : \A y \in S : ~(<<y, x>> \in R)
  BY <1>2, WFMin
<1>5. ASSUME NEW y \in S PROVE x <= y
  <2>1. x \in Nat /\ y \in Nat
    OBVIOUS
  <2>2. ~(y < x)
    BY <1>3, <1>4, <2>1
  <2>3. QED
    BY <2>1, <2>2
<1>6. QED
  BY <1>5

LEMMA Largest ==
    ASSUME NEW S, S \subseteq Nat, S # {}, NEW n \in Nat, \A x \in S : x <= n
    PROVE  \E x \in S : \A y \in S : x >= y
<1>1. PICK T : T = {n - x : x \in S}
  OBVIOUS
<1>2. T \subseteq Nat /\ T # {}
  <2>1. \A x \in S : n - x \in Nat
    OBVIOUS
  <2>2. QED
    BY <1>1, <2>1
<1>3. PICK m \in T : \A y \in T : m <= y
  BY <1>2, Least
<1>4. PICK x \in S : m = n - x
  BY <1>1, <1>3
<1>5. ASSUME NEW y \in S PROVE x >= y
  <2>1. n - y \in T
    BY <1>1
  <2>2. n - x <= n - y
    BY <1>3, <1>4, <2>1
  <2>3. QED
    BY <2>2
<1>6. QED
  BY <1>5

-----------------------------------------------------------------------------
(* Spawned containers: Containers.                                         *)

\* The id a call is about to clone to is free, or its list was out of date, of no
\* use, or did not show what has the id.
FreshId(s) ==
    spawn[s].pc = "clone" => ct[spawn[s].vmid] = "none" \/ s \in raced \cup hidden \/ ~numeric

\* The container of a call is its own until the host gives it up.
OwnClone(s) ==
    spawn[s].pc \in {"start", "ok"} =>
        s \in dropped \/ (maker[spawn[s].vmid] = s /\ ct[spawn[s].vmid] # "none")

\* Nobody starts the container of a call that is still waiting.
NotStarted(s) ==
    spawn[s].pc = "start" => dropped # {} \/ ct[spawn[s].vmid] \in {"cloning", "stopped"}

Caused(s) ==
    spawn[s].pc = "failed" =>
        s \in raced \cup late \cup broken \cup refused \cup hidden \/ dropped # {} \/ ~numeric

SpawnInv == \A s \in Spawns : FreshId(s) /\ OwnClone(s) /\ NotStarted(s) /\ Caused(s)

ContainerInv == ContainerTypeOK /\ SpawnInv

\* What the types say of one call.
LEMMA SpawnTypes ==
    ASSUME ContainerTypeOK, NEW s \in Spawns
    PROVE  /\ spawn[s].pc \in {"new", "failed", "clone", "start", "ok"}
           /\ spawn[s].pc \in {"clone", "start", "ok"} =>
                  /\ spawn[s].vmid \in FirstVmid .. LastVmid /\ spawn[s].vmid \in Vmids
                  /\ spawn[s] = [pc |-> spawn[s].pc, vmid |-> spawn[s].vmid]
<1>1. /\ spawn[s].pc \in {"new", "failed", "clone", "start", "ok"}
      /\ spawn[s].pc \in {"clone", "start", "ok"} =>
             /\ spawn[s].vmid \in FirstVmid .. LastVmid
             /\ spawn[s] = [pc |-> spawn[s].pc, vmid |-> spawn[s].vmid]
  BY DEF ContainerTypeOK, SpawnState
<1>2. \A v \in FirstVmid .. LastVmid : v \in Vmids
  BY VmidAssumption DEF Vmids
<1>3. QED
  BY <1>1, <1>2

\* The largest id.
LEMMA MaxOfIds ==
    ASSUME NEW S, S \subseteq Nat, S # {}, NEW n \in Nat, \A x \in S : x <= n
    PROVE  Max(S) \in S /\ \A y \in S : Max(S) >= y
BY Largest DEF Max

\* new_vmid is at least the minimum, and above every id of the node's containers, if
\* the list has them.
LEMMA NewIdIsFree ==
    ASSUME ContainerTypeOK, new_vmid(list) <= LastVmid
    PROVE  /\ new_vmid(list) \in FirstVmid .. LastVmid
           /\ new_vmid(list) \in Vmids
           /\ numeric => ct[new_vmid(list)] \in {"none", "elsewhere"}
<1>1. LastVmid \in Nat /\ FirstVmid \in Nat
  BY VmidAssumption DEF Vmids
<1>2. PICK ids : ids = list
  OBVIOUS
<1>3. ids \subseteq Nat /\ \A x \in ids : x <= LastVmid
  BY <1>1, <1>2 DEF list, Listed, Vmids
<1>4. CASE ids = {}
  <2>1. new_vmid(ids) = FirstVmid
    BY <1>4 DEF new_vmid
  <2>2. FirstVmid \in Vmids /\ FirstVmid \in FirstVmid .. LastVmid
    BY VmidAssumption DEF Vmids
  <2>3. Listed = {}
    BY <1>2, <1>4 DEF list
  <2>4. QED
    BY <1>2, <2>1, <2>2, <2>3 DEF Listed
<1>5. CASE ids # {}
  <2>1. Max(ids) \in ids /\ \A y \in ids : Max(ids) >= y
    BY <1>1, <1>3, <1>5, MaxOfIds
  <2>2. PICK m \in Nat : m = Max(ids)
    BY <1>3, <2>1
  <2>3. PICK P : P = {FirstVmid, m + 1}
    OBVIOUS
  <2>4. P \subseteq Nat /\ P # {} /\ \A x \in P : x <= FirstVmid + m + 1
    BY <1>1, <2>2, <2>3
  <2>5. FirstVmid + m + 1 \in Nat
    BY <1>1, <2>2
  <2>6. Max(P) \in P /\ \A y \in P : Max(P) >= y
    BY <2>4, <2>5, MaxOfIds
  <2>7. new_vmid(ids) = Max(P)
    BY <1>5, <2>2, <2>3 DEF new_vmid
  <2>8. PICK v \in Nat : v = Max(P)
    BY <2>4, <2>6
  <2>9. v >= m + 1 /\ v \in Vmids /\ v \in FirstVmid .. LastVmid
    BY <1>1, <1>2, <2>3, <2>6, <2>7, <2>8 DEF Vmids
  <2>10. ASSUME numeric PROVE ct[v] \in {"none", "elsewhere"}
    <3>1. ids = Listed
      BY <1>2, <2>10 DEF list
    <3>2. v \notin ids
      <4>1. SUFFICES ASSUME v \in ids PROVE FALSE
        OBVIOUS
      <4>2. m >= v
        BY <2>1, <2>2, <4>1
      <4>3. QED
        BY <2>2, <2>8, <2>9, <4>2
    <3>3. QED
      BY <2>9, <3>1, <3>2 DEF Listed
  <2>11. QED
    BY <1>2, <2>7, <2>8, <2>9, <2>10
<1>6. QED
  BY <1>4, <1>5

LEMMA InitContainers == ContainerInit => ContainerInv
<1> SUFFICES ASSUME ContainerInit PROVE ContainerInv
  OBVIOUS
<1>1. \A s \in Spawns : spawn[s] = [pc |-> "new"]
  BY DEF ContainerInit
<1>2. 0 \in 0 .. MaxFaults /\ 0 \in 0 .. MaxOthers
  BY ContainerBounds
<1>3. lxc \in BOOLEAN
  BY DEF ContainerInit, from_config
<1>4. spawn \in [Spawns -> SpawnState]
  BY DEF ContainerInit, SpawnState
<1>5. ct \in [Vmids -> HostStates]
  <2>1. PICK taken \in SUBSET Elsewhere :
            ct = [v \in Vmids |-> CASE v \in Existing -> "stopped"
                                    [] v \in taken \ Existing -> "elsewhere"
                                    [] OTHER -> "none"]
    BY DEF ContainerInit
  <2>2. QED
    BY <2>1 DEF HostStates
<1>6. ContainerTypeOK
  BY <1>2, <1>3, <1>4, <1>5 DEF ContainerInit, ContainerTypeOK
<1>7. QED
  BY <1>1, <1>6 DEF ContainerInv, SpawnInv, FreshId, OwnClone, NotStarted, Caused

\* A call that is not concerned by the step of another one.
LEMMA SpawnKept ==
    ASSUME NEW s \in Spawns, FreshId(s), OwnClone(s), NotStarted(s), Caused(s),
           spawn'[s] = spawn[s], numeric' = numeric,
           raced \subseteq raced', late \subseteq late', broken \subseteq broken',
           refused \subseteq refused', hidden \subseteq hidden', dropped \subseteq dropped',
           spawn[s].pc = "clone" /\ ct[spawn[s].vmid] = "none" =>
               ct'[spawn[s].vmid] = "none" \/ s \in raced',
           spawn[s].pc \in {"start", "ok"} /\ s \notin dropped' =>
               maker'[spawn[s].vmid] = maker[spawn[s].vmid] /\ ct'[spawn[s].vmid] # "none",
           spawn[s].pc = "start" /\ dropped' = {} =>
               ct'[spawn[s].vmid] \in {"cloning", "stopped"}
    PROVE  FreshId(s)' /\ OwnClone(s)' /\ NotStarted(s)' /\ Caused(s)'
<1>1. FreshId(s)'
  BY DEF FreshId
<1>2. OwnClone(s)'
  BY DEF OwnClone
<1>3. NotStarted(s)'
  BY DEF NotStarted
<1>4. Caused(s)'
  BY DEF Caused
<1>5. QED
  BY <1>1, <1>2, <1>3, <1>4

\* Of a step that touches only what a container or a call has.
LEMMA OthersKept ==
    ASSUME SpawnInv, NEW s, spawn' \in [Spawns -> SpawnState],
           \A u \in Spawns \ {s} : spawn'[u] = spawn[u],
           UNCHANGED <<numeric, ct, maker, dropped, raced>>,
           late \subseteq late', broken \subseteq broken', refused \subseteq refused',
           hidden \subseteq hidden',
           s \in Spawns => FreshId(s)' /\ OwnClone(s)' /\ NotStarted(s)' /\ Caused(s)'
    PROVE  SpawnInv'
<1>1. ASSUME NEW u \in Spawns \ {s}
      PROVE  FreshId(u)' /\ OwnClone(u)' /\ NotStarted(u)' /\ Caused(u)'
  <2>1. FreshId(u) /\ OwnClone(u) /\ NotStarted(u) /\ Caused(u)
    BY DEF SpawnInv
  <2>2. spawn[u].pc \in {"start", "ok"} /\ u \notin dropped => ct[spawn[u].vmid] # "none"
    BY <2>1 DEF OwnClone
  <2>3. spawn[u].pc = "start" /\ dropped = {} => ct[spawn[u].vmid] \in {"cloning", "stopped"}
    BY <2>1 DEF NotStarted
  <2>4. QED
    BY <2>1, <2>2, <2>3, SpawnKept
<1>2. QED
  BY <1>1 DEF SpawnInv

\* The call fails, with its cause on record.
LEMMA FailsCaused ==
    ASSUME ContainerTypeOK, SpawnInv, NEW s \in Spawns, Failed(s),
           UNCHANGED <<numeric, ct, maker, dropped, raced>>,
           late \subseteq late', broken \subseteq broken', refused \subseteq refused',
           hidden \subseteq hidden',
           s \in raced \cup late' \cup broken' \cup refused' \cup hidden' \/ dropped # {} \/ ~numeric
    PROVE  spawn' \in [Spawns -> SpawnState] /\ SpawnInv'
<1>1. spawn' = [spawn EXCEPT ![s] = [pc |-> "failed"]]
  BY DEF Failed, SpawnGoto
<1>2. [pc |-> "failed"] \in SpawnState
  BY DEF SpawnState
<1>3. /\ spawn' \in [Spawns -> SpawnState] /\ spawn'[s] = [pc |-> "failed"]
      /\ \A u \in Spawns \ {s} : spawn'[u] = spawn[u]
  BY <1>1, <1>2 DEF ContainerTypeOK
<1>4. FreshId(s)' /\ OwnClone(s)' /\ NotStarted(s)' /\ Caused(s)'
  BY <1>3 DEF FreshId, OwnClone, NotStarted, Caused
<1>5. SpawnInv'
  BY <1>3, <1>4, OthersKept
<1>6. QED
  BY <1>3, <1>5

LEMMA SpawnRequest ==
    ASSUME ContainerInv, NEW s \in Spawns, NEW tok, lxc_spawn(s, tok)
    PROVE  ContainerInv'
<1>1. ContainerTypeOK /\ SpawnInv
  BY DEF ContainerInv
<1>2. UNCHANGED <<lxc, web_token, numeric, ct, maker, dropped, raced, late, faults, others, broken>>
  BY DEF lxc_spawn, configVars, hostVars
<1>3. CASE spawn_list(s)
  <2>1. PICK v : v = new_vmid(list)
    OBVIOUS
  <2>2. v <= LastVmid /\ spawn' = [spawn EXCEPT ![s] = [pc |-> "clone", vmid |-> v]]
        /\ refused' = refused
        /\ hidden' = IF ct[v] = "elsewhere" THEN hidden \cup {s} ELSE hidden
    BY <1>3, <2>1 DEF spawn_list, SpawnGoto
  <2>3. v \in FirstVmid .. LastVmid /\ (numeric => ct[v] \in {"none", "elsewhere"})
    BY <1>1, <2>1, <2>2, NewIdIsFree
  <2>a. hidden \subseteq hidden' /\ hidden' \subseteq hidden \cup {s}
        /\ (numeric => ct[v] = "none" \/ s \in hidden')
    BY <2>2, <2>3
  <2>4. [pc |-> "clone", vmid |-> v] \in SpawnState
    BY <2>3 DEF SpawnState
  <2>5. /\ spawn' \in [Spawns -> SpawnState] /\ spawn'[s] = [pc |-> "clone", vmid |-> v]
        /\ \A u \in Spawns \ {s} : spawn'[u] = spawn[u]
    BY <1>1, <2>2, <2>4 DEF ContainerTypeOK
  <2>6. ContainerTypeOK'
    BY <1>1, <1>2, <2>2, <2>5, <2>a DEF ContainerTypeOK
  <2>7. FreshId(s)' /\ OwnClone(s)' /\ NotStarted(s)' /\ Caused(s)'
    BY <1>2, <2>5, <2>a DEF FreshId, OwnClone, NotStarted, Caused
  <2>8. SpawnInv'
    BY <1>1, <1>2, <2>2, <2>5, <2>7, <2>a, OthersKept
  <2>9. QED
    BY <2>6, <2>8 DEF ContainerInv
<1>4. CASE Failed(s) /\ refused' = refused \cup {s} /\ hidden' = hidden
  <2>1. spawn' \in [Spawns -> SpawnState] /\ SpawnInv'
    BY <1>1, <1>2, <1>4, FailsCaused
  <2>2. ContainerTypeOK'
    BY <1>1, <1>2, <1>4, <2>1 DEF ContainerTypeOK
  <2>3. QED
    BY <2>1, <2>2 DEF ContainerInv
<1>5. QED
  BY <1>3, <1>4 DEF lxc_spawn

\* A container is made: by the call s, whose clone state is over in the same step,
\* or by somebody else.
LEMMA CreateKeeps ==
    ASSUME ContainerInv, NEW s, NEW v \in Vmids,
           NEW state \in {"cloning", "elsewhere"}, Create(s, v, state), UNCHANGED numeric,
           late \subseteq late', broken \subseteq broken', refused \subseteq refused',
           hidden \subseteq hidden',
           \A u \in Spawns \ {s} : spawn'[u] = spawn[u],
           s \in Spawns => FreshId(s)' /\ OwnClone(s)' /\ NotStarted(s)' /\ Caused(s)'
    PROVE  SpawnInv'
<1>1. ContainerTypeOK /\ SpawnInv
  BY DEF ContainerInv
<1>2. /\ ct[v] = "none" /\ ct' = [ct EXCEPT ![v] = state]
      /\ maker' = [maker EXCEPT ![v] = s] /\ raced' = raced \cup (Active \ {s})
      /\ dropped' = dropped
  BY DEF Create
<1>3. \A w \in Vmids : w # v => ct'[w] = ct[w] /\ maker'[w] = maker[w]
  BY <1>1, <1>2 DEF ContainerTypeOK
<1>4. ASSUME NEW u \in Spawns \ {s}
      PROVE  FreshId(u)' /\ OwnClone(u)' /\ NotStarted(u)' /\ Caused(u)'
  <2>1. FreshId(u) /\ OwnClone(u) /\ NotStarted(u) /\ Caused(u)
    BY <1>1 DEF SpawnInv
  <2>2. spawn[u].pc \in {"clone", "start", "ok"} => spawn[u].vmid \in Vmids
    BY <1>1, SpawnTypes
  <2>3. spawn[u].pc = "clone" => u \in raced'
    BY <1>2 DEF Active
  <2>4. spawn[u].pc \in {"start", "ok"} /\ u \notin dropped' =>
            maker'[spawn[u].vmid] = maker[spawn[u].vmid] /\ ct'[spawn[u].vmid] # "none"
    BY <1>2, <1>3, <2>1, <2>2 DEF OwnClone
  <2>5. spawn[u].pc = "start" /\ dropped' = {} =>
            ct'[spawn[u].vmid] \in {"cloning", "stopped"}
    BY <1>2, <1>3, <2>1, <2>2 DEF NotStarted
  <2>6. raced \subseteq raced' /\ dropped \subseteq dropped'
    BY <1>2
  <2>7. QED
    BY <2>1, <2>3, <2>4, <2>5, <2>6, SpawnKept
<1>5. QED
  BY <1>4 DEF SpawnInv

LEMMA CreateTypes ==
    ASSUME ContainerTypeOK, NEW s \in Spawns \cup {Nobody}, NEW v \in Vmids,
           NEW state \in {"cloning", "elsewhere"}, Create(s, v, state)
    PROVE  /\ ct' \in [Vmids -> HostStates]
           /\ maker' \in [Vmids -> Spawns \cup {Nobody}]
           /\ raced' \subseteq Spawns /\ dropped' = dropped
           /\ ct'[v] = state /\ maker'[v] = s
BY DEF ContainerTypeOK, HostStates, Create, Active

LEMMA CloneKeeps ==
    ASSUME ContainerInv, NEW s \in Spawns, clone(s)
    PROVE  ContainerInv'
<1>1. ContainerTypeOK /\ SpawnInv /\ FreshId(s)
  BY DEF ContainerInv, SpawnInv
<1>2. /\ spawn[s].pc = "clone"
      /\ UNCHANGED <<lxc, web_token, numeric, late, faults, others, broken, refused, hidden>>
  BY DEF clone, configVars
<1>3. PICK v \in Vmids : /\ v = spawn[s].vmid /\ spawn[s] = [pc |-> "clone", vmid |-> v]
                         /\ v \in FirstVmid .. LastVmid
  BY <1>1, <1>2, SpawnTypes
<1>4. CASE Create(s, v, "cloning") /\ SpawnGoto(s, [spawn[s] EXCEPT !.pc = "start"])
  <2>1. [spawn[s] EXCEPT !.pc = "start"] = [pc |-> "start", vmid |-> v]
    BY <1>3
  <2>2. spawn' = [spawn EXCEPT ![s] = [pc |-> "start", vmid |-> v]]
    BY <1>4, <2>1 DEF SpawnGoto
  <2>3. [pc |-> "start", vmid |-> v] \in SpawnState
    BY <1>3 DEF SpawnState
  <2>4. /\ spawn' \in [Spawns -> SpawnState] /\ spawn'[s] = [pc |-> "start", vmid |-> v]
        /\ \A u \in Spawns \ {s} : spawn'[u] = spawn[u]
    BY <1>1, <2>2, <2>3 DEF ContainerTypeOK
  <2>5. /\ ct' \in [Vmids -> HostStates]
        /\ maker' \in [Vmids -> Spawns \cup {Nobody}]
        /\ raced' \subseteq Spawns /\ dropped' = dropped
        /\ ct'[v] = "cloning" /\ maker'[v] = s
    BY <1>1, <1>4, CreateTypes
  <2>6. ContainerTypeOK'
    BY <1>1, <1>2, <2>4, <2>5 DEF ContainerTypeOK
  <2>7. FreshId(s)' /\ OwnClone(s)' /\ NotStarted(s)' /\ Caused(s)'
    BY <2>4, <2>5 DEF FreshId, OwnClone, NotStarted, Caused
  <2>8. SpawnInv'
    BY <1>2, <1>4, <2>4, <2>7, CreateKeeps
  <2>9. QED
    BY <2>6, <2>8 DEF ContainerInv
<1>5. CASE ct[v] # "none" /\ Failed(s) /\ UNCHANGED <<ct, maker, dropped, raced>>
  <2>1. s \in raced \cup hidden \/ ~numeric
    BY <1>1, <1>2, <1>3, <1>5 DEF FreshId
  <2>2. spawn' \in [Spawns -> SpawnState] /\ SpawnInv'
    BY <1>1, <1>2, <1>5, <2>1, FailsCaused
  <2>3. ContainerTypeOK'
    BY <1>1, <1>2, <1>5, <2>2 DEF ContainerTypeOK
  <2>4. QED
    BY <2>2, <2>3 DEF ContainerInv
<1>6. QED
  BY <1>3, <1>4, <1>5 DEF clone, hostVars

LEMMA StartKeeps ==
    ASSUME ContainerInv, NEW s \in Spawns, start(s)
    PROVE  ContainerInv'
<1>1. ContainerTypeOK /\ SpawnInv /\ OwnClone(s) /\ NotStarted(s)
  BY DEF ContainerInv, SpawnInv
<1>2. /\ spawn[s].pc = "start"
      /\ UNCHANGED <<lxc, web_token, numeric, raced, faults, others, broken, refused, hidden>>
  BY DEF start, configVars
<1>3. PICK v \in Vmids : v = spawn[s].vmid /\ v \in FirstVmid .. LastVmid
  BY <1>1, <1>2, SpawnTypes
<1>4. CASE /\ ct[v] = "stopped"
           /\ ct' = [ct EXCEPT ![v] = "running"]
           /\ SpawnGoto(s, [pc |-> "ok", vmid |-> v])
           /\ UNCHANGED <<maker, dropped, late>>
  <2>1. [pc |-> "ok", vmid |-> v] \in SpawnState
    BY <1>3 DEF SpawnState
  <2>2. /\ spawn' \in [Spawns -> SpawnState] /\ spawn'[s] = [pc |-> "ok", vmid |-> v]
        /\ \A u \in Spawns \ {s} : spawn'[u] = spawn[u]
    BY <1>1, <1>4, <2>1 DEF ContainerTypeOK, SpawnGoto
  <2>3. /\ ct' \in [Vmids -> HostStates]
        /\ ct'[v] = "running" /\ \A w \in Vmids : w # v => ct'[w] = ct[w]
    BY <1>1, <1>4 DEF ContainerTypeOK, HostStates
  <2>4. ContainerTypeOK'
    BY <1>1, <1>2, <1>4, <2>2, <2>3 DEF ContainerTypeOK
  <2>5. OwnClone(s)'
    BY <1>1, <1>2, <1>3, <1>4, <2>2, <2>3 DEF OwnClone
  <2>6. FreshId(s)' /\ NotStarted(s)' /\ Caused(s)'
    BY <2>2 DEF FreshId, NotStarted, Caused
  <2>7. ASSUME NEW u \in Spawns \ {s}
        PROVE  FreshId(u)' /\ OwnClone(u)' /\ NotStarted(u)' /\ Caused(u)'
    <3>1. FreshId(u) /\ OwnClone(u) /\ NotStarted(u) /\ Caused(u)
      BY <1>1 DEF SpawnInv
    <3>2. spawn[u].pc \in {"clone", "start", "ok"} => spawn[u].vmid \in Vmids
      BY <1>1, SpawnTypes
    <3>3. spawn[u].pc = "clone" /\ ct[spawn[u].vmid] = "none" => ct'[spawn[u].vmid] = "none"
      BY <1>4, <2>3, <3>2
    <3>4. spawn[u].pc \in {"start", "ok"} /\ u \notin dropped => ct'[spawn[u].vmid] # "none"
      BY <2>3, <3>1, <3>2 DEF OwnClone
    <3>5. spawn[u].pc = "start" /\ dropped = {} =>
              ct'[spawn[u].vmid] \in {"cloning", "stopped"}
      <4>1. SUFFICES ASSUME spawn[u].pc = "start", dropped = {}
                     PROVE  ct'[spawn[u].vmid] \in {"cloning", "stopped"}
        OBVIOUS
      <4>2. maker[spawn[u].vmid] = u /\ maker[v] = s
        BY <1>1, <1>2, <1>3, <3>1, <4>1 DEF OwnClone
      <4>3. spawn[u].vmid # v
        BY <4>2
      <4>4. QED
        BY <2>3, <3>1, <3>2, <4>1, <4>3 DEF NotStarted
    <3>6. QED
      BY <1>2, <1>4, <2>2, <3>1, <3>3, <3>4, <3>5, SpawnKept
  <2>8. QED
    BY <2>4, <2>5, <2>6, <2>7 DEF ContainerInv, SpawnInv
<1>5. CASE /\ ct[v] # "stopped"
           /\ Failed(s)
           /\ late' = IF ct[v] = "cloning" THEN late \cup {s} ELSE late
           /\ UNCHANGED <<ct, maker, dropped>>
  <2>1. s \in late' \/ dropped # {}
    BY <1>1, <1>2, <1>3, <1>5 DEF NotStarted
  <2>2. late \subseteq late' /\ late' \subseteq late \cup {s}
    BY <1>5
  <2>3. spawn' \in [Spawns -> SpawnState] /\ SpawnInv'
    BY <1>1, <1>2, <1>5, <2>1, <2>2, FailsCaused
  <2>4. ContainerTypeOK'
    BY <1>1, <1>2, <1>5, <2>2, <2>3 DEF ContainerTypeOK
  <2>5. QED
    BY <2>3, <2>4 DEF ContainerInv
<1>6. QED
  BY <1>3, <1>4, <1>5 DEF start, hostVars

\* A container changes its state and is still there.
LEMMA HostKeeps ==
    ASSUME ContainerInv, NEW v \in Vmids, NEW state \in {"stopped", "running", "stopping"},
           \/ ct[v] = "cloning" /\ state = "stopped"
           \/ ct[v] \in {"running", "stopping"},
           ct' = [ct EXCEPT ![v] = state],
           UNCHANGED <<lxc, web_token, numeric, maker, dropped, spawn, raced, late, faults, others,
                       broken, refused, hidden>>
    PROVE  ContainerInv'
<1>1. ContainerTypeOK /\ SpawnInv
  BY DEF ContainerInv
<1>2. /\ ct' \in [Vmids -> HostStates]
      /\ \A w \in Vmids : ct'[w] = IF w = v THEN state ELSE ct[w]
  BY <1>1 DEF ContainerTypeOK, HostStates
<1>3. ContainerTypeOK'
  BY <1>1, <1>2 DEF ContainerTypeOK
<1>4. ASSUME NEW u \in Spawns
      PROVE  FreshId(u)' /\ OwnClone(u)' /\ NotStarted(u)' /\ Caused(u)'
  <2>1. FreshId(u) /\ OwnClone(u) /\ NotStarted(u) /\ Caused(u)
    BY <1>1 DEF SpawnInv
  <2>2. spawn[u].pc \in {"clone", "start", "ok"} => spawn[u].vmid \in Vmids
    BY <1>1, SpawnTypes
  <2>3. spawn[u].pc = "clone" /\ ct[spawn[u].vmid] = "none" => ct'[spawn[u].vmid] = "none"
    BY <1>2, <2>2
  <2>4. spawn[u].pc \in {"start", "ok"} /\ u \notin dropped => ct'[spawn[u].vmid] # "none"
    BY <1>2, <2>1, <2>2 DEF OwnClone
  <2>5. spawn[u].pc = "start" /\ dropped = {} => ct'[spawn[u].vmid] \in {"cloning", "stopped"}
    BY <1>2, <2>1, <2>2 DEF NotStarted
  <2>6. QED
    BY <2>1, <2>3, <2>4, <2>5, SpawnKept
<1>5. QED
  BY <1>3, <1>4 DEF ContainerInv, SpawnInv

LEMMA DropKeeps ==
    ASSUME ContainerInv, NEW v \in Vmids, clone_dropped(v)
    PROVE  ContainerInv'
<1>1. ContainerTypeOK /\ SpawnInv
  BY DEF ContainerInv
<1>2. /\ faults < MaxFaults /\ faults' = faults + 1
      /\ ct' = [ct EXCEPT ![v] = "none"]
      /\ dropped' = dropped \cup ({maker[v]} \cap Spawns)
      /\ maker' = [maker EXCEPT ![v] = Nobody]
      /\ UNCHANGED <<lxc, web_token, numeric, spawn, raced, late, others, broken, refused, hidden>>
  BY DEF clone_dropped, Fault, configVars
<1>3. /\ ct' \in [Vmids -> HostStates]
      /\ maker' \in [Vmids -> Spawns \cup {Nobody}]
      /\ ct'[v] = "none" /\ \A w \in Vmids : w # v => ct'[w] = ct[w] /\ maker'[w] = maker[w]
  BY <1>1, <1>2 DEF ContainerTypeOK, HostStates
<1>4. ContainerTypeOK'
  <2>1. faults' \in 0 .. MaxFaults
    BY <1>1, <1>2, ContainerBounds DEF ContainerTypeOK
  <2>2. QED
    BY <1>1, <1>2, <1>3, <2>1 DEF ContainerTypeOK
<1>5. ASSUME NEW u \in Spawns
      PROVE  FreshId(u)' /\ OwnClone(u)' /\ NotStarted(u)' /\ Caused(u)'
  <2>1. FreshId(u) /\ OwnClone(u) /\ NotStarted(u) /\ Caused(u)
    BY <1>1 DEF SpawnInv
  <2>2. spawn[u].pc \in {"clone", "start", "ok"} => spawn[u].vmid \in Vmids
    BY <1>1, SpawnTypes
  <2>3. spawn[u].pc = "clone" /\ ct[spawn[u].vmid] = "none" => ct'[spawn[u].vmid] = "none"
    BY <1>3, <2>2
  <2>4. spawn[u].pc \in {"start", "ok"} /\ u \notin dropped' => spawn[u].vmid # v
    BY <1>2, <2>1 DEF OwnClone
  <2>5. spawn[u].pc \in {"start", "ok"} /\ u \notin dropped' =>
            maker'[spawn[u].vmid] = maker[spawn[u].vmid] /\ ct'[spawn[u].vmid] # "none"
    BY <1>2, <1>3, <2>1, <2>2, <2>4 DEF OwnClone
  <2>6. spawn[u].pc = "start" /\ dropped' = {} => ct'[spawn[u].vmid] \in {"cloning", "stopped"}
    BY <1>2, <1>3, <2>1, <2>2, <2>4 DEF NotStarted
  <2>7. dropped \subseteq dropped'
    BY <1>2
  <2>8. QED
    BY <1>2, <2>1, <2>3, <2>5, <2>6, <2>7, SpawnKept
<1>6. QED
  BY <1>4, <1>5 DEF ContainerInv, SpawnInv

LEMMA AnswerLostKeeps ==
    ASSUME ContainerInv, NEW s \in Spawns, AnswerLost(s)
    PROVE  ContainerInv'
<1>1. ContainerTypeOK /\ SpawnInv
  BY DEF ContainerInv
<1>2. /\ faults < MaxFaults /\ faults' = faults + 1 /\ broken' = broken \cup {s}
      /\ spawn[s].pc = "clone" /\ Create(s, spawn[s].vmid, "cloning")
      /\ spawn' = [spawn EXCEPT ![s] = [pc |-> "failed"]]
      /\ UNCHANGED <<lxc, web_token, numeric, late, others, refused, hidden>>
  BY DEF AnswerLost, Breaks, Fault, Failed, SpawnGoto, configVars
<1>3. PICK v \in Vmids : v = spawn[s].vmid
  BY <1>1, <1>2, SpawnTypes
<1>4. [pc |-> "failed"] \in SpawnState
  BY DEF SpawnState
<1>5. /\ spawn' \in [Spawns -> SpawnState] /\ spawn'[s] = [pc |-> "failed"]
      /\ \A u \in Spawns \ {s} : spawn'[u] = spawn[u]
  BY <1>1, <1>2, <1>4 DEF ContainerTypeOK
<1>6. /\ ct' \in [Vmids -> HostStates]
      /\ maker' \in [Vmids -> Spawns \cup {Nobody}]
      /\ raced' \subseteq Spawns /\ dropped' = dropped
  BY <1>1, <1>2, <1>3, CreateTypes
<1>7. ContainerTypeOK'
  <2>1. faults' \in 0 .. MaxFaults
    BY <1>1, <1>2, ContainerBounds DEF ContainerTypeOK
  <2>2. QED
    BY <1>1, <1>2, <1>5, <1>6, <2>1 DEF ContainerTypeOK
<1>8. FreshId(s)' /\ OwnClone(s)' /\ NotStarted(s)' /\ Caused(s)'
  BY <1>2, <1>5 DEF FreshId, OwnClone, NotStarted, Caused
<1>9. SpawnInv'
  BY <1>2, <1>3, <1>5, <1>8, CreateKeeps
<1>10. QED
  BY <1>7, <1>9 DEF ContainerInv

LEMMA RequestFailsKeeps ==
    ASSUME ContainerInv, NEW s \in Spawns, RequestFails(s)
    PROVE  ContainerInv'
<1>1. ContainerTypeOK /\ SpawnInv
  BY DEF ContainerInv
<1>2. /\ faults < MaxFaults /\ faults' = faults + 1 /\ broken' = broken \cup {s} /\ Failed(s)
      /\ UNCHANGED <<lxc, web_token, numeric, ct, maker, dropped, raced, late, others, refused, hidden>>
  BY DEF RequestFails, Breaks, Fault, configVars, hostVars
<1>3. spawn' \in [Spawns -> SpawnState] /\ SpawnInv'
  BY <1>1, <1>2, FailsCaused
<1>4. faults' \in 0 .. MaxFaults
  BY <1>1, <1>2, ContainerBounds DEF ContainerTypeOK
<1>5. ContainerTypeOK'
  BY <1>1, <1>2, <1>3, <1>4 DEF ContainerTypeOK
<1>6. QED
  BY <1>3, <1>5 DEF ContainerInv

LEMMA OtherCreatesKeeps ==
    ASSUME ContainerInv, NEW v \in Vmids, OtherCreates(v)
    PROVE  ContainerInv'
<1>1. ContainerTypeOK /\ SpawnInv
  BY DEF ContainerInv
<1>0. PICK state \in {"cloning", "elsewhere"} : Create(Nobody, v, state)
  BY DEF OtherCreates
<1>2. /\ others < MaxOthers /\ others' = others + 1
      /\ UNCHANGED <<lxc, web_token, numeric, spawn, late, faults, broken, refused, hidden>>
  BY DEF OtherCreates, configVars
<1>3. /\ ct' \in [Vmids -> HostStates]
      /\ maker' \in [Vmids -> Spawns \cup {Nobody}]
      /\ raced' \subseteq Spawns /\ dropped' = dropped
  BY <1>0, <1>1, CreateTypes
<1>4. others' \in 0 .. MaxOthers
  BY <1>1, <1>2, ContainerBounds DEF ContainerTypeOK
<1>5. ContainerTypeOK'
  BY <1>1, <1>2, <1>3, <1>4 DEF ContainerTypeOK
<1>6. SpawnInv'
  BY <1>0, <1>2, CreateKeeps, NobodyAssumption
<1>7. QED
  BY <1>5, <1>6 DEF ContainerInv

LEMMA NextContainers ==
    ASSUME ContainerInv, [ContainerNext]_containerVars
    PROVE  ContainerInv'
<1>1. CASE UNCHANGED containerVars
  <2>1. UNCHANGED <<lxc, web_token, numeric, ct, maker, dropped, spawn, raced, late, broken,
                    refused, hidden, faults, others>>
    BY <1>1 DEF containerVars, configVars, hostVars
  <2>2. QED
    BY <2>1 DEF ContainerInv, ContainerTypeOK, SpawnInv, FreshId, OwnClone, NotStarted, Caused
<1>2. ASSUME NEW v \in Vmids, stop(v) PROVE ContainerInv'
  BY <1>2, HostKeeps DEF stop, configVars
<1>3. ASSUME NEW v \in Vmids, clone_done(v) PROVE ContainerInv'
  BY <1>3, HostKeeps DEF clone_done, configVars
<1>4. ASSUME NEW v \in Vmids, NEW tok, lxc_stop(v, tok) PROVE ContainerInv'
  BY <1>2, <1>4 DEF lxc_stop
<1>5. ASSUME NEW v \in Vmids, shutdown_ends(v) PROVE ContainerInv'
  BY <1>5, HostKeeps DEF shutdown_ends, configVars
<1>6. QED
  BY <1>1, <1>3, <1>4, <1>5, SpawnRequest, CloneKeeps, StartKeeps, RequestFailsKeeps, AnswerLostKeeps,
     DropKeeps, OtherCreatesKeeps DEF ContainerNext, cmd_lxc_spawn, cmd_lxc_stop

\* Types, and what each call and its container are to each other.
THEOREM ContainerInvariant ==
    ContainerSpec => []ContainerInv
<1>1. ContainerInit => ContainerInv
  BY InitContainers
<1>2. ContainerInv /\ [ContainerNext]_containerVars => ContainerInv'
  BY NextContainers
<1>3. QED
  BY <1>1, <1>2, PTL DEF ContainerSpec

\* The calls of spawn and the host keep their types.
THEOREM ContainerTypes ==
    ContainerSpec => []ContainerTypeOK
<1>1. ContainerInv => ContainerTypeOK
  BY DEF ContainerInv
<1>2. QED
  BY <1>1, ContainerInvariant, PTL

\* A successful spawn names the container it had cloned, unless the host gave that
\* clone up, for any number of spawns that choose the same id.
THEOREM SpawnsOwnContainers ==
    ContainerSpec => []OwnContainer
<1>1. ContainerInv => OwnContainer
  BY DEF ContainerInv, SpawnInv, OwnClone, OwnContainer
<1>2. QED
  BY <1>1, ContainerInvariant, PTL

\* A spawn fails only for the causes on record: the id that new_vmid chooses is free
\* unless something outside the list has it, the list has no numbers, or another
\* container was made since; and a clone that is done can be started.
THEOREM SpawnsFailWithCause ==
    ContainerSpec => []FailsWithCause
<1>1. ContainerInv => FailsWithCause
  BY DEF ContainerInv, SpawnInv, Caused, FailsWithCause
<1>2. QED
  BY <1>1, ContainerInvariant, PTL

-----------------------------------------------------------------------------
(* Facts stored, expired and recalled: MemoryFacts.                        *)

\* The table has room for the stores that have begun.
Storing == {u \in Calls : call[u].pc = "store"}
RoomLeft == IsFiniteSet(Storing) /\ Len(facts) + Cardinality(Storing) <= MaxFacts

\* No fact is stored or expired in the future.
FactsPast ==
    \A i \in DOMAIN facts : /\ facts[i].created_at <= clock
                            /\ facts[i].valid_to # None => facts[i].valid_to <= clock

\* What was stored before a store began is not younger than its fact.
StoredOrder ==
    \A i \in DOMAIN stored :
        /\ stored[i] \subseteq DOMAIN facts
        /\ \A j \in stored[i] : facts[j].created_at <= facts[i].created_at

\* A call r: the time it read is over; what it has noted of the table is still so,
\* up to what it was told of since; its answer has what it should.
StoreGood(r) == r.seen \subseteq DOMAIN facts /\ \A j \in r.seen : facts[j].created_at <= r.now

RecallGood(r) ==
    /\ r.known \subseteq DOMAIN facts /\ r.gone \subseteq DOMAIN facts
    /\ \A i \in r.gone \ r.again : facts[i].valid_to # None /\ facts[i].valid_to <= r.now
    /\ \A i \in r.known \ (r.gone \cup r.again) : facts[i].valid_to = None

AnswerGood(r) ==
    /\ r.revived = {}
    /\ r.found \subseteq DOMAIN facts /\ r.missed \subseteq DOMAIN facts
    /\ \A i \in r.missed : /\ r.limit # Unset /\ Cardinality(r.found) = r.limit
                           /\ \A j \in r.found : facts[j].created_at >= facts[i].created_at

CallGood(r) ==
    /\ r.pc \in {"store", "expire", "recall"} => r.now <= clock
    /\ r.pc = "store" => StoreGood(r)
    /\ r.pc = "recall" => RecallGood(r)
    /\ r.pc = "answered" => AnswerGood(r)

MemoryInv ==
    MemoryTypeOK /\ RoomLeft /\ FactsPast /\ StoredOrder /\ \A t \in Calls : CallGood(call[t])

LEMMA MemoryBounds ==
    MaxFacts \in Nat /\ MaxClock \in Nat /\ MaxErrors \in Nat /\ Limits \subseteq Nat
BY FactBounds

LEMMA FactTypes ==
    ASSUME MemoryTypeOK
    PROVE  /\ clock \in Nat /\ Len(facts) \in Nat
           /\ DOMAIN facts = 1 .. Len(facts) /\ DOMAIN stored = DOMAIN facts
           /\ DOMAIN facts \subseteq FactIds
           /\ \A i \in DOMAIN facts : /\ facts[i] \in MemoryFact
                                      /\ facts[i].created_at \in Nat
                                      /\ facts[i].valid_to # None => facts[i].valid_to \in Nat
<1>1. MaxFacts \in Nat /\ MaxClock \in Nat
  BY MemoryBounds
<1>2. clock \in Nat
  BY <1>1 DEF MemoryTypeOK, Time
<1>3. /\ Len(facts) \in Nat /\ DOMAIN facts = 1 .. Len(facts)
      /\ \A i \in DOMAIN facts : facts[i] \in MemoryFact
  BY DEF MemoryTypeOK
<1>4. DOMAIN stored = 1 .. Len(stored) /\ Len(stored) = Len(facts) /\ Len(facts) <= MaxFacts
  BY DEF MemoryTypeOK
<1>5. DOMAIN facts \subseteq FactIds
  BY <1>1, <1>3, <1>4 DEF FactIds
<1>6. ASSUME NEW i \in DOMAIN facts
      PROVE  /\ facts[i].created_at \in Nat
             /\ facts[i].valid_to # None => facts[i].valid_to \in Nat
  <2>1. facts[i].created_at \in Time /\ facts[i].valid_to \in Time \cup {None}
    BY <1>3, <1>6 DEF MemoryFact
  <2>2. Time \subseteq Nat
    BY <1>1 DEF Time
  <2>3. QED
    BY <2>1, <2>2
<1>7. QED
  BY <1>2, <1>3, <1>4, <1>5, <1>6

LEMMA CallTypes ==
    ASSUME MemoryTypeOK, NEW t \in Calls
    PROVE  /\ call[t] \in CallState
           /\ call[t].pc \in {"store", "expire", "recall"} => call[t].now \in Time /\ call[t].now \in Nat
           /\ call[t].pc = "store" => call[t].scope \in Scopes /\ call[t].seen \subseteq FactIds
           /\ call[t].pc = "expire" => call[t].id \in FactIds
           /\ call[t].pc = "recall" =>
                  /\ call[t].limit \in Limits \cup {Unset} /\ call[t].known \subseteq FactIds
                  /\ call[t].gone \subseteq FactIds /\ call[t].again \subseteq FactIds
<1>1. call[t] \in CallState
  BY DEF MemoryTypeOK
<1>2. Time \subseteq Nat
  BY MemoryBounds DEF Time
<1>3. CASE call[t] = NoCall
  BY <1>1, <1>3 DEF NoCall
<1>4. CASE call[t] \in [pc : {"store"}, now : Time, scope : Scopes, seen : SUBSET FactIds]
  BY <1>1, <1>2, <1>4
<1>5. CASE call[t] \in [pc : {"expire"}, now : Time, id : FactIds]
  BY <1>1, <1>2, <1>5
<1>6. CASE call[t] \in [pc : {"recall"}, now : Time, filter : Filters,
                        limit : Limits \cup {Unset}, known : SUBSET FactIds, gone : SUBSET FactIds,
                        again : SUBSET FactIds]
  BY <1>1, <1>2, <1>6
<1>7. CASE call[t] \in [pc : {"answered"}, found : SUBSET FactIds, missed : SUBSET FactIds,
                        limit : Limits \cup {Unset}, revived : SUBSET FactIds]
  BY <1>1, <1>7
<1>8. QED
  BY <1>1, <1>3, <1>4, <1>5, <1>6, <1>7 DEF CallState

LEMMA RecallRecord ==
    ASSUME MemoryTypeOK, NEW u \in Calls, call[u].pc = "recall"
    PROVE  call[u] \in [pc : {"recall"}, now : Time, filter : Filters,
                        limit : Limits \cup {Unset}, known : SUBSET FactIds, gone : SUBSET FactIds,
                        again : SUBSET FactIds]
<1>1. call[u] \in CallState
  BY DEF MemoryTypeOK
<1>2. NoCall.pc # "recall"
  BY DEF NoCall
<1>3. QED
  BY <1>1, <1>2 DEF CallState

\* The table keeps its facts and when they were stored.
Grows ==
    /\ DOMAIN facts \subseteq DOMAIN facts'
    /\ \A i \in DOMAIN facts : facts'[i].created_at = facts[i].created_at

LEMMA CallKeptGood ==
    ASSUME MemoryTypeOK, NEW t \in Calls, NEW r, r = call[t], CallGood(r),
           Grows, clock' \in Nat, clock <= clock',
           r.pc = "recall" => \A i \in DOMAIN facts : facts'[i] = facts[i] \/ i \in r.again
    PROVE  CallGood(r)'
<1>1. r.pc \in {"store", "expire", "recall"} => r.now <= clock'
  <2>1. clock \in Nat
    BY FactTypes
  <2>2. r.pc \in {"store", "expire", "recall"} => r.now \in Nat
    BY CallTypes
  <2>3. QED
    BY <2>1, <2>2 DEF CallGood
<1>2. r.pc = "store" => StoreGood(r)'
  BY DEF CallGood, StoreGood, Grows
<1>3. r.pc = "recall" => RecallGood(r)'
  BY DEF CallGood, RecallGood, Grows
<1>4. r.pc = "answered" => AnswerGood(r)'
  <2>1. SUFFICES ASSUME AnswerGood(r) PROVE AnswerGood(r)'
    BY DEF CallGood
  <2>2. \A i \in DOMAIN facts : i \in DOMAIN facts' /\ facts'[i].created_at = facts[i].created_at
    BY DEF Grows
  <2>3. r.found \subseteq DOMAIN facts' /\ r.missed \subseteq DOMAIN facts'
    BY <2>1, <2>2 DEF AnswerGood
  <2>4. QED
    BY <2>1, <2>2, <2>3 DEF AnswerGood
<1>5. QED
  BY <1>1, <1>2, <1>3, <1>4 DEF CallGood

LEMMA OrderKept ==
    ASSUME StoredOrder, Grows, stored' = stored, DOMAIN stored \subseteq DOMAIN facts
    PROVE  StoredOrder'
BY DEF StoredOrder, Grows

LEMMA InitMemory == MemoryInit => MemoryInv
<1> SUFFICES ASSUME MemoryInit PROVE MemoryInv
  OBVIOUS
<1>1. MaxFacts \in Nat /\ MaxClock \in Nat /\ MaxErrors \in Nat
  BY MemoryBounds
<1>2. \A t \in Calls : call[t] = NoCall /\ call[t].pc = "idle"
  BY DEF MemoryInit, NoCall
<1>3. facts = <<>> /\ stored = <<>> /\ Len(facts) = 0 /\ Len(stored) = 0
      /\ DOMAIN facts = {} /\ DOMAIN stored = {}
  BY DEF MemoryInit
<1>4. call \in [Calls -> CallState]
  BY DEF MemoryInit, CallState
<1>5. MemoryTypeOK
  BY <1>1, <1>3, <1>4 DEF MemoryInit, MemoryTypeOK, Time
<1>6. RoomLeft
  <2>1. Storing = {}
    BY <1>2 DEF Storing
  <2>2. QED
    BY <1>1, <1>3, <2>1, FS_EmptySet DEF RoomLeft
<1>7. QED
  BY <1>2, <1>3, <1>5, <1>6 DEF MemoryInv, FactsPast, StoredOrder, CallGood

\* A call that leaves its store, if it was storing, needs no room any more.
LEMMA RoomKept ==
    ASSUME MemoryTypeOK, RoomLeft, NEW t \in Calls, call'[t].pc # "store",
           \A u \in Calls : u # t => call'[u].pc = call[u].pc,
           Len(facts') = Len(facts)
    PROVE  RoomLeft'
<1>1. Storing' = Storing \ {t}
  BY DEF Storing
<1>2. IsFiniteSet(Storing)
  BY DEF RoomLeft
<1>3. /\ IsFiniteSet(Storing \ {t}) /\ Cardinality(Storing) \in Nat
      /\ Cardinality(Storing \ {t}) \in {Cardinality(Storing), Cardinality(Storing) - 1}
  BY <1>2, FS_RemoveElement, FS_CardinalityType, Zenon
<1>4. Len(facts) \in Nat /\ MaxFacts \in Nat
  BY MemoryBounds, FactTypes
<1>5. Len(facts) + Cardinality(Storing \ {t}) <= MaxFacts
  BY <1>3, <1>4 DEF RoomLeft
<1>6. QED
  BY <1>1, <1>3, <1>5 DEF RoomLeft

\* One call moves on and the table stays as it is.
LEMMA CallMoves ==
    ASSUME MemoryInv, NEW t \in Calls, NEW n \in CallState, CallGoto(t, n),
           UNCHANGED <<clock, facts, stored>>, errors' \in 0 .. MaxErrors,
           CallGood(n), n.pc = "store" => RoomLeft'
    PROVE  MemoryInv'
<1>1. MemoryTypeOK /\ RoomLeft /\ FactsPast /\ StoredOrder /\ \A u \in Calls : CallGood(call[u])
  BY DEF MemoryInv
<1>2. /\ call' \in [Calls -> CallState] /\ call'[t] = n
      /\ \A u \in Calls : u # t => call'[u] = call[u]
  BY <1>1 DEF MemoryTypeOK, CallGoto
<1>3. MemoryTypeOK'
  BY <1>1, <1>2 DEF MemoryTypeOK
<1>4. RoomLeft'
  BY <1>1, <1>2, RoomKept
<1>5. FactsPast' /\ StoredOrder'
  BY <1>1 DEF FactsPast, StoredOrder
<1>6. ASSUME NEW u \in Calls PROVE CallGood(call[u])'
  <2>1. PICK r : r = call'[u]
    OBVIOUS
  <2>2. CallGood(r)
    BY <1>1, <1>2, <2>1
  <2>3. CallGood(r)'
    BY <2>2 DEF CallGood, StoreGood, RecallGood, AnswerGood
  <2>4. QED
    BY <2>1, <2>3 DEF CallGood, StoreGood, RecallGood, AnswerGood
<1>7. QED
  BY <1>3, <1>4, <1>5, <1>6 DEF MemoryInv

LEMMA TickKeeps ==
    ASSUME MemoryInv, Tick
    PROVE  MemoryInv'
<1>1. MemoryTypeOK /\ RoomLeft /\ FactsPast /\ StoredOrder /\ \A u \in Calls : CallGood(call[u])
  BY DEF MemoryInv
<1>2. /\ clock < MaxClock /\ clock' = clock + 1
      /\ UNCHANGED <<facts, stored, call, errors>>
  BY DEF Tick
<1>3. clock \in Nat /\ clock' \in Nat /\ clock <= clock' /\ clock' \in Time
  BY <1>1, <1>2, FactTypes, MemoryBounds DEF Time
<1>4. MemoryTypeOK'
  BY <1>1, <1>2, <1>3 DEF MemoryTypeOK
<1>5. RoomLeft'
  BY <1>1, <1>2 DEF RoomLeft, Storing
<1>6. StoredOrder' /\ Grows
  BY <1>1, <1>2 DEF StoredOrder, Grows
<1>7. FactsPast'
  <2>1. \A i \in DOMAIN facts : /\ facts[i].created_at \in Nat
                                /\ facts[i].valid_to # None => facts[i].valid_to \in Nat
    BY <1>1, FactTypes
  <2>2. QED
    BY <1>1, <1>2, <1>3, <2>1 DEF FactsPast
<1>8. ASSUME NEW u \in Calls PROVE CallGood(call[u])'
  <2>1. PICK r : r = call[u]
    OBVIOUS
  <2>2. CallGood(r)'
    BY <1>1, <1>2, <1>3, <1>6, <2>1, CallKeptGood
  <2>3. QED
    BY <1>2, <2>1, <2>2 DEF CallGood, StoreGood, RecallGood, AnswerGood
<1>9. QED
  BY <1>4, <1>5, <1>6, <1>7, <1>8 DEF MemoryInv

LEMMA StoreBegins ==
    ASSUME MemoryInv, NEW t \in Calls, NEW s \in Scopes, store_begin(t, s)
    PROVE  MemoryInv'
<1>1. MemoryTypeOK /\ RoomLeft /\ FactsPast
  BY DEF MemoryInv
<1>2. PICK n : n = [pc |-> "store", now |-> clock, scope |-> s, seen |-> DOMAIN facts]
  OBVIOUS
<1>3. /\ Free(t) /\ Len(facts) + Cardinality(Storing) < MaxFacts /\ CallGoto(t, n)
      /\ UNCHANGED <<clock, facts, stored, errors>>
  BY <1>2 DEF store_begin, Storing, now_secs
<1>4. n \in CallState
  <2>1. clock \in Time /\ DOMAIN facts \subseteq FactIds
    BY <1>1, FactTypes DEF MemoryTypeOK
  <2>2. QED
    BY <1>2, <2>1 DEF CallState
<1>5. CallGood(n)
  <2>1. clock <= clock
    BY <1>1, FactTypes
  <2>2. QED
    BY <1>1, <1>2, <2>1 DEF CallGood, StoreGood, FactsPast
<1>6. RoomLeft'
  <2>1. call'[t] = n /\ n.pc = "store" /\ \A u \in Calls : u # t => call'[u] = call[u]
    BY <1>1, <1>2, <1>3 DEF MemoryTypeOK, CallGoto
  <2>2. Storing' = Storing \cup {t}
    BY <2>1 DEF Storing
  <2>3. t \notin Storing
    BY <1>3 DEF Storing, Free
  <2>4. IsFiniteSet(Storing) /\ Cardinality(Storing) \in Nat
    BY <1>1, FS_CardinalityType DEF RoomLeft
  <2>5. IsFiniteSet(Storing \cup {t}) /\ Cardinality(Storing \cup {t}) = Cardinality(Storing) + 1
    BY <2>3, <2>4, FS_AddElement, Zenon
  <2>6. Len(facts) \in Nat /\ MaxFacts \in Nat
    BY <1>1, MemoryBounds, FactTypes
  <2>7. Len(facts) + Cardinality(Storing \cup {t}) <= MaxFacts
    BY <1>3, <2>4, <2>5, <2>6
  <2>8. QED
    BY <1>3, <2>2, <2>5, <2>7 DEF RoomLeft
<1>7. errors' \in 0 .. MaxErrors
  BY <1>1, <1>3 DEF MemoryTypeOK
<1>8. QED
  BY <1>3, <1>4, <1>5, <1>6, <1>7, CallMoves

LEMMA ExpireBegins ==
    ASSUME MemoryInv, NEW t \in Calls, NEW i \in FactIds, expire_begin(t, i)
    PROVE  MemoryInv'
<1>1. MemoryTypeOK
  BY DEF MemoryInv
<1>2. PICK n : n = [pc |-> "expire", now |-> clock, id |-> i]
  OBVIOUS
<1>3. CallGoto(t, n) /\ UNCHANGED <<clock, facts, stored, errors>>
  BY <1>2 DEF expire_begin, now_secs
<1>4. n \in CallState
  BY <1>1, <1>2 DEF CallState, MemoryTypeOK
<1>5. CallGood(n) /\ n.pc # "store"
  <2>1. clock <= clock
    BY <1>1, FactTypes
  <2>2. QED
    BY <1>2, <2>1 DEF CallGood
<1>6. errors' \in 0 .. MaxErrors
  BY <1>1, <1>3 DEF MemoryTypeOK
<1>7. QED
  BY <1>3, <1>4, <1>5, <1>6, CallMoves

LEMMA RecallBegins ==
    ASSUME MemoryInv, NEW t \in Calls, NEW f \in Filters,
           NEW limit \in Limits \cup {Unset}, recall_begin(t, f, limit)
    PROVE  MemoryInv'
<1>1. MemoryTypeOK /\ FactsPast
  BY DEF MemoryInv
<1>2. PICK g : g = {i \in DOMAIN facts : facts[i].valid_to # None}
  OBVIOUS
<1>3. PICK n : n = [pc |-> "recall", now |-> clock, filter |-> f, limit |-> limit,
                    known |-> DOMAIN facts, gone |-> g, again |-> {}]
  OBVIOUS
<1>4. CallGoto(t, n) /\ UNCHANGED <<clock, facts, stored, errors>>
  BY <1>2, <1>3 DEF recall_begin, now_secs
<1>5. n \in CallState
  <2>1. clock \in Time /\ DOMAIN facts \subseteq FactIds /\ g \subseteq FactIds
    BY <1>1, <1>2, FactTypes DEF MemoryTypeOK
  <2>2. QED
    BY <1>3, <2>1 DEF CallState
<1>6. CallGood(n) /\ n.pc # "store"
  <2>1. clock <= clock
    BY <1>1, FactTypes
  <2>2. RecallGood(n)
    BY <1>1, <1>2, <1>3 DEF RecallGood, FactsPast
  <2>3. QED
    BY <1>3, <2>1, <2>2 DEF CallGood
<1>7. errors' \in 0 .. MaxErrors
  BY <1>1, <1>4 DEF MemoryTypeOK
<1>8. QED
  BY <1>4, <1>5, <1>6, <1>7, CallMoves

LEMMA CallFails ==
    ASSUME MemoryInv, NEW t \in Calls, StatementFails(t)
    PROVE  MemoryInv'
<1>1. MemoryTypeOK
  BY DEF MemoryInv
<1>2. /\ errors < MaxErrors /\ errors' = errors + 1 /\ CallGoto(t, NoCall)
      /\ UNCHANGED <<clock, facts, stored>>
  BY DEF StatementFails
<1>3. errors' \in 0 .. MaxErrors
  BY <1>1, <1>2, MemoryBounds DEF MemoryTypeOK
<1>4. NoCall \in CallState /\ CallGood(NoCall) /\ NoCall.pc # "store"
  BY DEF CallState, NoCall, CallGood
<1>5. QED
  BY <1>2, <1>3, <1>4, CallMoves

LEMMA StoreKeeps ==
    ASSUME MemoryInv, NEW t \in Calls, store(t)
    PROVE  MemoryInv'
<1>1. MemoryTypeOK /\ RoomLeft /\ FactsPast /\ StoredOrder /\ \A u \in Calls : CallGood(call[u])
  BY DEF MemoryInv
<1>2. PICK f : f = [scope |-> call[t].scope, created_at |-> call[t].now, valid_to |-> None]
  OBVIOUS
<1>3. /\ call[t].pc = "store" /\ facts' = Append(facts, f)
      /\ stored' = Append(stored, call[t].seen) /\ CallGoto(t, NoCall)
      /\ clock' = clock /\ errors' = errors
  BY <1>2 DEF store
<1>4. /\ call[t].now \in Time /\ call[t].now \in Nat /\ call[t].scope \in Scopes
      /\ call[t].seen \subseteq FactIds
  BY <1>1, <1>3, CallTypes
<1>5. f \in MemoryFact /\ f.created_at = call[t].now /\ f.valid_to = None
  BY <1>2, <1>4 DEF MemoryFact
<1>6. /\ clock \in Nat /\ Len(facts) \in Nat /\ DOMAIN facts = 1 .. Len(facts)
      /\ DOMAIN stored = DOMAIN facts
      /\ \A i \in DOMAIN facts : facts[i].created_at \in Nat
  BY <1>1, FactTypes
<1>7. /\ call' \in [Calls -> CallState] /\ call'[t] = NoCall
      /\ \A u \in Calls : u # t => call'[u] = call[u]
  BY <1>1, <1>3 DEF MemoryTypeOK, CallGoto, CallState
<1>8. /\ facts' \in Seq(MemoryFact) /\ Len(facts') = Len(facts) + 1
      /\ stored' \in Seq(SUBSET FactIds) /\ Len(stored') = Len(stored) + 1
  BY <1>1, <1>3, <1>4, <1>5 DEF MemoryTypeOK
<1>9. /\ DOMAIN facts' = DOMAIN facts \cup {Len(facts) + 1} /\ facts'[Len(facts) + 1] = f
      /\ \A i \in DOMAIN facts : facts'[i] = facts[i]
  <2>1. DOMAIN facts' = 1 .. (Len(facts) + 1)
    BY <1>8
  <2>2. \A i \in 1 .. Len(facts) : facts'[i] = facts[i]
    BY <1>1, <1>3, <1>5 DEF MemoryTypeOK
  <2>3. facts'[Len(facts) + 1] = f
    BY <1>1, <1>3, <1>5 DEF MemoryTypeOK
  <2>4. QED
    BY <1>6, <2>1, <2>2, <2>3
<1>10. /\ DOMAIN stored' = DOMAIN stored \cup {Len(facts) + 1}
       /\ stored'[Len(facts) + 1] = call[t].seen
       /\ \A i \in DOMAIN stored : stored'[i] = stored[i]
  <2>1. Len(stored) = Len(facts) /\ stored \in Seq(SUBSET FactIds)
    BY <1>1 DEF MemoryTypeOK
  <2>2. DOMAIN stored = 1 .. Len(facts) /\ DOMAIN stored' = 1 .. (Len(facts) + 1)
    BY <1>6, <1>8, <2>1
  <2>3. \A i \in 1 .. Len(facts) : stored'[i] = stored[i]
    BY <1>3, <1>4, <2>1
  <2>4. stored'[Len(facts) + 1] = call[t].seen
    BY <1>3, <1>4, <2>1
  <2>5. QED
    BY <1>6, <2>2, <2>3, <2>4
<1>11. /\ IsFiniteSet(Storing') /\ Len(facts') + Cardinality(Storing') <= MaxFacts
       /\ Cardinality(Storing') \in Nat
  <2>1. Storing' = Storing \ {t}
    BY <1>7 DEF Storing, NoCall
  <2>2. t \in Storing /\ IsFiniteSet(Storing)
    BY <1>1, <1>3 DEF Storing, RoomLeft
  <2>3. /\ IsFiniteSet(Storing \ {t}) /\ Cardinality(Storing) \in Nat
        /\ Cardinality(Storing \ {t}) = Cardinality(Storing) - 1
        /\ Cardinality(Storing \ {t}) \in Nat
    BY <2>2, FS_RemoveElement, FS_CardinalityType, Zenon
  <2>4. Len(facts) + Cardinality(Storing) <= MaxFacts
    BY <1>1 DEF RoomLeft
  <2>5. (Len(facts) + 1) + Cardinality(Storing \ {t}) <= MaxFacts
    BY <1>6, <2>3, <2>4, MemoryBounds
  <2>6. QED
    BY <1>8, <2>1, <2>3, <2>5
<1>12. MemoryTypeOK' /\ RoomLeft'
  <2>1. Len(facts') <= MaxFacts
    BY <1>6, <1>8, <1>11, MemoryBounds
  <2>2. Len(stored') = Len(facts')
    BY <1>1, <1>8 DEF MemoryTypeOK
  <2>3. QED
    BY <1>1, <1>3, <1>7, <1>8, <1>11, <2>1, <2>2 DEF MemoryTypeOK, RoomLeft
<1>13. call[t].now <= clock /\ StoreGood(call[t])
  BY <1>1, <1>3 DEF CallGood
<1>14. FactsPast'
  BY <1>1, <1>3, <1>5, <1>9, <1>13 DEF FactsPast
<1>15. StoredOrder'
  <2>1. ASSUME NEW i \in DOMAIN stored
        PROVE  /\ stored'[i] \subseteq DOMAIN facts'
               /\ \A j \in stored'[i] : facts'[j].created_at <= facts'[i].created_at
    <3>1. i \in DOMAIN facts /\ stored'[i] = stored[i] /\ stored[i] \subseteq DOMAIN facts
      BY <1>1, <1>6, <1>10, <2>1 DEF StoredOrder
    <3>2. QED
      BY <1>1, <1>9, <2>1, <3>1 DEF StoredOrder
  <2>2. /\ call[t].seen \subseteq DOMAIN facts'
        /\ \A j \in call[t].seen : facts'[j].created_at <= facts'[Len(facts) + 1].created_at
    BY <1>5, <1>9, <1>13 DEF StoreGood
  <2>3. QED
    BY <1>10, <2>1, <2>2 DEF StoredOrder
<1>16. ASSUME NEW u \in Calls PROVE CallGood(call[u])'
  <2>1. CASE u = t
    BY <1>7, <2>1 DEF NoCall, CallGood
  <2>2. CASE u # t
    <3>1. PICK r : r = call[u]
      OBVIOUS
    <3>2. Grows
      BY <1>9 DEF Grows
    <3>3. CallGood(r)'
      BY <1>1, <1>3, <1>6, <1>9, <3>1, <3>2, CallKeptGood
    <3>4. QED
      BY <1>7, <2>2, <3>1, <3>3 DEF CallGood, StoreGood, RecallGood, AnswerGood
  <2>3. QED
    BY <2>1, <2>2
<1>17. QED
  BY <1>12, <1>14, <1>15, <1>16 DEF MemoryInv

LEMMA ExpireKeeps ==
    ASSUME MemoryInv, NEW t \in Calls, expire(t)
    PROVE  MemoryInv'
<1>1. MemoryTypeOK /\ RoomLeft /\ FactsPast /\ StoredOrder /\ \A u \in Calls : CallGood(call[u])
  BY DEF MemoryInv
<1>2. PICK i : i = call[t].id
  OBVIOUS
<1>3. /\ call[t].pc = "expire"
      /\ facts' = [j \in DOMAIN facts |->
             IF j = i THEN [facts[j] EXCEPT !.valid_to = call[t].now] ELSE facts[j]]
      /\ call' = [NoteExpiry(i) EXCEPT ![t] = NoCall]
      /\ clock' = clock /\ stored' = stored /\ errors' = errors
  BY <1>2 DEF expire
<1>4. i \in FactIds /\ call[t].now \in Time /\ call[t].now \in Nat /\ call[t].now <= clock
  BY <1>1, <1>2, <1>3, CallTypes DEF CallGood
<1>5. /\ clock \in Nat /\ Len(facts) \in Nat /\ DOMAIN facts = 1 .. Len(facts)
      /\ DOMAIN stored = DOMAIN facts
      /\ \A j \in DOMAIN facts : facts[j] \in MemoryFact
  BY <1>1, FactTypes
<1>6. /\ DOMAIN facts' = DOMAIN facts
      /\ \A j \in DOMAIN facts :
             /\ facts'[j] \in MemoryFact /\ facts'[j].created_at = facts[j].created_at
             /\ facts'[j].valid_to \in {facts[j].valid_to, call[t].now}
             /\ j # i => facts'[j] = facts[j]
  BY <1>3, <1>4, <1>5 DEF MemoryFact
<1>7. facts' \in Seq(MemoryFact) /\ Len(facts') = Len(facts)
  BY <1>3, <1>5, <1>6
<1>8. /\ DOMAIN call' = Calls /\ call'[t] = NoCall
      /\ \A u \in Calls : u # t =>
             call'[u] = IF call[u].pc = "recall"
                        THEN [call[u] EXCEPT !.again = call[u].again \cup {i}] ELSE call[u]
  BY <1>3 DEF NoteExpiry
<1>9. ASSUME NEW u \in Calls PROVE call'[u] \in CallState
  <2>1. CASE u # t /\ call[u].pc = "recall"
    <3>1. call[u] \in [pc : {"recall"}, now : Time, filter : Filters,
                       limit : Limits \cup {Unset}, known : SUBSET FactIds, gone : SUBSET FactIds,
                       again : SUBSET FactIds]
      BY <1>1, <2>1, RecallRecord
    <3>2. call[u].again \cup {i} \in SUBSET FactIds
      BY <1>4, <3>1
    <3>3. call'[u] \in [pc : {"recall"}, now : Time, filter : Filters,
                       limit : Limits \cup {Unset}, known : SUBSET FactIds, gone : SUBSET FactIds,
                       again : SUBSET FactIds]
      BY <1>8, <2>1, <3>1, <3>2
    <3>4. QED
      BY <3>3 DEF CallState
  <2>2. CASE u # t /\ call[u].pc # "recall"
    BY <1>1, <1>8, <2>2 DEF MemoryTypeOK
  <2>3. CASE u = t
    BY <1>8, <2>3 DEF CallState
  <2>4. QED
    BY <2>1, <2>2, <2>3
<1>10. MemoryTypeOK'
  <2>1. call' \in [Calls -> CallState]
    BY <1>3, <1>9 DEF NoteExpiry
  <2>2. QED
    BY <1>1, <1>3, <1>7, <2>1 DEF MemoryTypeOK
<1>11. RoomLeft'
  <2>1. \A u \in Calls : u # t => call'[u].pc = call[u].pc
    BY <1>1, <1>8, RecallRecord
  <2>2. call'[t].pc # "store"
    BY <1>8 DEF NoCall
  <2>3. QED
    BY <1>1, <1>7, <2>1, <2>2, RoomKept
<1>12. Grows
  BY <1>6 DEF Grows
<1>13. FactsPast'
  BY <1>1, <1>3, <1>4, <1>5, <1>6 DEF FactsPast
<1>14. StoredOrder'
  BY <1>1, <1>3, <1>5, <1>12, OrderKept
<1>15. ASSUME NEW u \in Calls PROVE CallGood(call[u])'
  <2>1. CASE u # t /\ call[u].pc = "recall"
    <3>1. PICK n : n = call'[u]
      OBVIOUS
    <3>2. PICK r : r = call[u]
      OBVIOUS
    <3>3. /\ n.pc = "recall" /\ n.now = r.now /\ n.known = r.known /\ n.gone = r.gone
          /\ n.again = r.again \cup {i}
      BY <1>1, <1>8, <2>1, <3>1, <3>2, RecallRecord
    <3>4. RecallGood(r) /\ r.now <= clock
      BY <1>1, <2>1, <3>2 DEF CallGood
    <3>5. RecallGood(n)'
      BY <1>6, <3>3, <3>4 DEF RecallGood
    <3>6. CallGood(n)'
      BY <1>3, <3>3, <3>4, <3>5 DEF CallGood
    <3>7. QED
      BY <3>1, <3>6 DEF CallGood, StoreGood, RecallGood, AnswerGood
  <2>2. CASE u # t /\ call[u].pc # "recall"
    <3>1. PICK r : r = call[u]
      OBVIOUS
    <3>2. r.pc # "recall" /\ CallGood(r) /\ clock' \in Nat /\ clock <= clock'
      BY <1>1, <1>3, <1>5, <2>2, <3>1
    <3>3. CallGood(r)'
      BY <1>1, <1>12, <3>1, <3>2, CallKeptGood
    <3>4. QED
      BY <1>8, <2>2, <3>1, <3>3 DEF CallGood, StoreGood, RecallGood, AnswerGood
  <2>3. CASE u = t
    BY <1>8, <2>3 DEF NoCall, CallGood
  <2>4. QED
    BY <2>1, <2>2, <2>3
<1>16. QED
  BY <1>10, <1>11, <1>13, <1>14, <1>15 DEF MemoryInv

\* A full answer of a recall to which something was left over has its limit.
LEMMA RecallKeeps ==
    ASSUME MemoryInv, NEW t \in Calls, recall(t)
    PROVE  MemoryInv'
<1>1. MemoryTypeOK /\ \A u \in Calls : CallGood(call[u])
  BY DEF MemoryInv
<1>2. PICK r : r = call[t]
  OBVIOUS
<1>3. PICK all : all = {i \in DOMAIN facts : Matches(r.filter, facts[i].scope)
                                              /\ IsValid(facts[i], r.now)}
  OBVIOUS
<1>4. PICK found \in SUBSET all :
          /\ IsAnswer(found, all, r.limit)
          /\ CallGoto(t, [pc |-> "answered", found |-> found, limit |-> r.limit,
                        missed |-> {i \in r.known \ (found \cup r.gone \cup r.again) :
                                        Matches(r.filter, facts[i].scope)},
                        revived |-> found \cap (r.gone \ r.again)])
  BY <1>2, <1>3 DEF recall
<1>5. r.pc = "recall" /\ UNCHANGED <<clock, facts, stored, errors>>
  BY <1>2 DEF recall
<1>6. PICK missed : missed = {i \in r.known \ (found \cup r.gone \cup r.again) :
                                  Matches(r.filter, facts[i].scope)}
  OBVIOUS
<1>7. PICK n : n = [pc |-> "answered", found |-> found, limit |-> r.limit, missed |-> missed,
                    revived |-> found \cap (r.gone \ r.again)]
  OBVIOUS
<1>8. RecallGood(r) /\ r.now \in Nat /\ r.limit \in Limits \cup {Unset}
  BY <1>1, <1>2, <1>5, CallTypes DEF CallGood
<1>9. /\ Len(facts) \in Nat /\ DOMAIN facts = 1 .. Len(facts) /\ DOMAIN facts \subseteq FactIds
      /\ \A i \in DOMAIN facts : /\ facts[i].created_at \in Nat
                                 /\ facts[i].valid_to # None => facts[i].valid_to \in Nat
  BY <1>1, FactTypes
<1>10. found \subseteq DOMAIN facts /\ missed \subseteq DOMAIN facts
  BY <1>3, <1>4, <1>6, <1>8 DEF RecallGood
<1>11. found \cap (r.gone \ r.again) = {}
  <2>1. SUFFICES ASSUME NEW i \in found, i \in r.gone \ r.again PROVE FALSE
    OBVIOUS
  <2>2. facts[i].valid_to # None /\ facts[i].valid_to <= r.now
    BY <1>8, <2>1 DEF RecallGood
  <2>3. i \in DOMAIN facts /\ facts[i].valid_to > r.now
    BY <1>3, <1>4, <2>1, <2>2 DEF IsValid
  <2>4. QED
    BY <1>8, <1>9, <2>2, <2>3
<1>12. ASSUME NEW i \in missed
       PROVE  /\ r.limit # Unset /\ Cardinality(found) = r.limit
              /\ \A j \in found : facts[j].created_at >= facts[i].created_at
  <2>1. i \in all \ found
    BY <1>3, <1>6, <1>8, <1>12 DEF RecallGood, IsValid
  <2>2. r.limit # Unset /\ ~(Cardinality(all) <= r.limit)
    BY <1>4, <2>1 DEF IsAnswer
  <2>3. Cardinality(all) > r.limit
    <3>1. IsFiniteSet(DOMAIN facts)
      BY <1>9, FS_Interval
    <3>2. Cardinality(all) \in Nat
      BY <1>3, <3>1, FS_Subset, FS_CardinalityType
    <3>3. r.limit \in Nat
      BY <1>8, <2>2, MemoryBounds
    <3>4. QED
      BY <2>2, <3>2, <3>3
  <2>4. Cardinality(found) = r.limit
    BY <1>4, <2>2, <2>3 DEF IsAnswer
  <2>5. \A j \in found : facts[j].created_at >= facts[i].created_at
    BY <1>4, <2>1 DEF IsAnswer, Precedes
  <2>6. QED
    BY <2>2, <2>4, <2>5
<1>13. CallGood(n) /\ n.pc # "store"
  <2>1. AnswerGood(n)
    BY <1>7, <1>10, <1>11, <1>12 DEF AnswerGood
  <2>2. QED
    BY <1>7, <2>1 DEF CallGood
<1>14. n \in CallState
  <2>1. found \subseteq FactIds /\ missed \subseteq FactIds
    BY <1>9, <1>10
  <2>2. n \in [pc : {"answered"}, found : SUBSET FactIds, missed : SUBSET FactIds,
                limit : Limits \cup {Unset}, revived : SUBSET FactIds]
    BY <1>7, <1>8, <1>11, <2>1
  <2>3. QED
    BY <2>2 DEF CallState
<1>15. CallGoto(t, n) /\ errors' \in 0 .. MaxErrors
  BY <1>1, <1>4, <1>5, <1>6, <1>7 DEF MemoryTypeOK
<1>16. QED
  BY <1>5, <1>13, <1>14, <1>15, CallMoves

LEMMA NextMemory == MemoryInv /\ [MemoryNext]_memoryVars => MemoryInv'
<1> SUFFICES ASSUME MemoryInv, [MemoryNext]_memoryVars PROVE MemoryInv'
  OBVIOUS
<1>1. CASE UNCHANGED memoryVars
  <2>1. UNCHANGED <<clock, facts, stored>> /\ UNCHANGED <<call, errors>>
    BY <1>1 DEF memoryVars
  <2>2. MemoryTypeOK' /\ RoomLeft' /\ FactsPast' /\ StoredOrder'
    BY <2>1 DEF MemoryInv, MemoryTypeOK, RoomLeft, Storing, FactsPast, StoredOrder
  <2>3. \A u \in Calls : CallGood(call[u])'
    BY <2>1 DEF MemoryInv, CallGood, StoreGood, RecallGood, AnswerGood
  <2>4. QED
    BY <2>2, <2>3 DEF MemoryInv
<1>2. CASE Tick
  BY <1>2, TickKeeps
<1>3. CASE \E t \in Calls, s \in Scopes : store_begin(t, s)
  BY <1>3, StoreBegins
<1>4. CASE \E t \in Calls : store(t)
  BY <1>4, StoreKeeps
<1>5. CASE \E t \in Calls, i \in FactIds : expire_begin(t, i)
  BY <1>5, ExpireBegins
<1>6. CASE \E t \in Calls : expire(t)
  BY <1>6, ExpireKeeps
<1>7. CASE \E t \in Calls, f \in Filters, n \in Limits \cup {Unset} : recall_begin(t, f, n)
  BY <1>7, RecallBegins
<1>8. CASE \E t \in Calls : recall(t)
  BY <1>8, RecallKeeps
<1>9. CASE \E t \in Calls : StatementFails(t)
  BY <1>9, CallFails
<1>10. QED
  BY <1>1, <1>2, <1>3, <1>4, <1>5, <1>6, <1>7, <1>8, <1>9 DEF MemoryNext

\* What was noted of the facts before holds until the statement runs: every call of
\* the service compares the table with a time read before.
THEOREM MemoryInvariant == MemorySpec => []MemoryInv
<1>1. MemoryInit => MemoryInv
  BY InitMemory
<1>2. MemoryInv /\ [MemoryNext]_memoryVars => MemoryInv'
  BY NextMemory
<1>3. QED
  BY <1>1, <1>2, PTL DEF MemorySpec

\* The types of MemoryFacts: the table stays within its bound although stores that
\* have begun are not in it yet.
THEOREM MemoryTypes == MemorySpec => []MemoryTypeOK
<1>1. MemoryInv => MemoryTypeOK
  BY DEF MemoryInv
<1>2. QED
  BY <1>1, MemoryInvariant, PTL

\* A fact that was expired before a recall began, and not again while it ran, is
\* not in the answer, whatever the clock and other calls do between the time the
\* recall reads and its query.
THEOREM ExpiredAreLeftOut == MemorySpec => []ExpiredStaysOut
<1>1. MemoryInv => ExpiredStaysOut
  BY DEF MemoryInv, CallGood, AnswerGood, ExpiredStaysOut, Answers
<1>2. QED
  BY <1>1, MemoryInvariant, PTL

\* A fact is left out only of a full answer, and never for one that was already
\* stored when its own store began.
THEOREM NewerComeFirst == MemorySpec => []LeftOutForNewer
<1>1. ASSUME MemoryInv PROVE LeftOutForNewer
  <2>1. SUFFICES ASSUME NEW r \in Answers, NEW i \in r.missed
                 PROVE  /\ r.limit # Unset /\ Cardinality(r.found) = r.limit
                        /\ \A j \in r.found \cap stored[i] :
                               facts[j].created_at = facts[i].created_at
    BY DEF LeftOutForNewer
  <2>2. PICK u \in Calls : call[u].pc = "answered" /\ r = call[u]
    BY DEF Answers
  <2>3. AnswerGood(r)
    BY <1>1, <2>2 DEF MemoryInv, CallGood
  <2>4. MemoryTypeOK /\ StoredOrder
    BY <1>1 DEF MemoryInv
  <2>5. i \in DOMAIN stored /\ \A j \in DOMAIN facts : facts[j].created_at \in Nat
    BY <2>3, <2>4, FactTypes DEF AnswerGood
  <2>6. ASSUME NEW j \in r.found, j \in stored[i]
        PROVE  facts[j].created_at = facts[i].created_at
    <3>1. facts[j].created_at >= facts[i].created_at
      BY <2>3 DEF AnswerGood
    <3>2. facts[j].created_at <= facts[i].created_at
      BY <2>4, <2>5, <2>6 DEF StoredOrder
    <3>3. i \in DOMAIN facts /\ j \in DOMAIN facts
      BY <2>3 DEF AnswerGood
    <3>4. QED
      BY <2>5, <3>1, <3>2, <3>3
  <2>7. QED
    BY <2>3, <2>6 DEF AnswerGood
<1>2. MemoryInv => LeftOutForNewer
  BY <1>1
<1>3. QED
  BY <1>2, MemoryInvariant, PTL

-----------------------------------------------------------------------------
(* The reconciler with the event bus: TaskHooks.                           *)

\* A pass p knows what it loaded: whatever it did not load of the todos that were
\* there when it began is done, and each group it has left has a todo.
PassGood(p) ==
    p.pc # "idle" =>
        /\ p.open \subseteq DOMAIN todos /\ 1 .. p.top \subseteq DOMAIN todos
        /\ \A i \in (1 .. p.top) \ p.open : todos[i].status = "done"
        /\ \A k \in p.left : \E i \in p.open : Normal[todos[i].task] = k
        /\ p.pc \in {"upsert", "publish"} => p.key \in p.left

KnownExist == \A k \in Keys : known[k] \subseteq DOMAIN todos

HookInv == TypeOK /\ PassGood(pass) /\ KnownExist /\ LeftOutOnlyLate

\* What every step does with the todos: they stay, with agent and task, and once
\* done they stay done.
TodosKept ==
    /\ DOMAIN todos \subseteq DOMAIN todos'
    /\ \A i \in DOMAIN todos : /\ todos'[i].task = todos[i].task
                               /\ todos[i].status = "done" => todos'[i].status = "done"

LEMMA HookBounds ==
    /\ MaxTodos \in Nat /\ MaxRegistrations \in Nat /\ MaxFailures \in Nat
    /\ Normal \in [Texts -> Texts] /\ Rank \in [Texts -> Nat]
    /\ Work \subseteq Agents \X Texts /\ Events = Ids
    /\ \A x \in Texts : Normal[x] \in Keys
<1>1. /\ MaxTodos \in Nat /\ MaxRegistrations \in Nat /\ MaxFailures \in Nat
      /\ Normal \in [Texts -> Texts] /\ Rank \in [Texts -> Nat]
      /\ Work \subseteq Agents \X Texts /\ Events = Ids
  BY NormalAssumption, RankAssumption, ReconcilerBounds, WorkAssumption, EventsAssumption
<1>2. \A x \in Texts : Normal[x] \in Keys
  BY <1>1 DEF Keys, Range
<1>3. QED
  BY <1>1, <1>2

LEMMA TodoTypes ==
    ASSUME TypeOK
    PROVE  /\ Len(todos) \in Nat /\ DOMAIN todos = 1 .. Len(todos) /\ DOMAIN todos \subseteq Ids
           /\ \A i \in DOMAIN todos :
                  /\ todos[i] \in Todo /\ todos[i].agent \in Agents /\ todos[i].task \in Texts
                  /\ Rank[todos[i].task] \in Nat /\ Normal[todos[i].task] \in Keys
<1>1. /\ todos \in Seq(Todo) /\ Len(todos) <= MaxTodos
  BY DEF TypeOK, ReconcilerTypeOK
<1>2. /\ Len(todos) \in Nat /\ DOMAIN todos = 1 .. Len(todos)
      /\ \A i \in DOMAIN todos : todos[i] \in Todo
  BY <1>1
<1>3. DOMAIN todos \subseteq Ids
  BY <1>1, <1>2, HookBounds DEF Ids
<1>4. \A i \in DOMAIN todos : todos[i].agent \in Agents /\ todos[i].task \in Texts
  BY <1>2 DEF Todo
<1>5. QED
  BY <1>2, <1>3, <1>4, HookBounds

LEMMA PassTypes ==
    ASSUME TypeOK
    PROVE  /\ pass \in Pass
           /\ pass.pc \in {"idle", "group", "file", "upsert", "publish"}
           /\ pass.pc # "idle" => /\ pass.open \subseteq Ids /\ pass.left \subseteq Keys
                                  /\ pass.top \in 0 .. MaxTodos
           /\ pass.pc = "upsert" => pass.key \in Keys /\ pass.status \in {"pending", "flagged"}
           /\ pass.pc = "publish" => pass.key \in Keys
<1>1. pass \in Pass
  BY DEF TypeOK, ReconcilerTypeOK
<1>2. CASE pass = NoPass
  BY <1>1, <1>2 DEF NoPass
<1>3. CASE pass \in [pc : {"group", "file"}, open : SUBSET Ids, left : SUBSET Keys,
                     top : 0 .. MaxTodos]
  BY <1>1, <1>3
<1>4. CASE pass \in [pc : {"upsert"}, open : SUBSET Ids, left : SUBSET Keys,
                     top : 0 .. MaxTodos, key : Keys, status : {"pending", "flagged"}]
  BY <1>1, <1>4
<1>5. CASE pass \in [pc : {"publish"}, open : SUBSET Ids, left : SUBSET Keys,
                     top : 0 .. MaxTodos, key : Keys]
  BY <1>1, <1>5
<1>6. QED
  BY <1>1, <1>2, <1>3, <1>4, <1>5 DEF Pass

LEMMA PassKept ==
    ASSUME NEW p, PassGood(p), TodosKept
    PROVE  PassGood(p)'
<1>1. SUFFICES ASSUME p.pc # "idle"
               PROVE  /\ p.open \subseteq DOMAIN todos' /\ 1 .. p.top \subseteq DOMAIN todos'
                      /\ \A i \in (1 .. p.top) \ p.open : todos'[i].status = "done"
                      /\ \A k \in p.left : \E i \in p.open : Normal[todos'[i].task] = k
                      /\ p.pc \in {"upsert", "publish"} => p.key \in p.left
  BY DEF PassGood
<1>2. /\ p.open \subseteq DOMAIN todos /\ 1 .. p.top \subseteq DOMAIN todos
      /\ \A i \in (1 .. p.top) \ p.open : todos[i].status = "done"
      /\ \A k \in p.left : \E i \in p.open : Normal[todos[i].task] = k
      /\ p.pc \in {"upsert", "publish"} => p.key \in p.left
  BY <1>1 DEF PassGood
<1>3. /\ p.open \subseteq DOMAIN todos' /\ 1 .. p.top \subseteq DOMAIN todos'
  BY <1>2 DEF TodosKept
<1>4. \A i \in (1 .. p.top) \ p.open : todos'[i].status = "done"
  BY <1>2 DEF TodosKept
<1>5. ASSUME NEW k \in p.left PROVE \E i \in p.open : Normal[todos'[i].task] = k
  BY <1>2 DEF TodosKept
<1>6. QED
  BY <1>2, <1>3, <1>4, <1>5

\* The rows keep what they promise while only todos change.
LEMMA RowsKept ==
    ASSUME TypeOK, KnownExist, LeftOutOnlyLate, TodosKept,
           listed' = listed, known' = known,
           \A i \in DOMAIN todos' : Normal[todos'[i].task] \in Keys
    PROVE  KnownExist' /\ LeftOutOnlyLate'
<1>1. KnownExist'
  BY DEF KnownExist, TodosKept
<1>2. ASSUME NEW i \in DOMAIN todos', NEW k, k = Normal[todos'[i].task],
             listed[k] # Absent, i \in known[k] \ listed[k].source_todos
      PROVE  todos'[i].status = "done"
  <2>1. i \in DOMAIN todos /\ k = Normal[todos[i].task]
    BY <1>2 DEF KnownExist, TodosKept
  <2>2. todos[i].status = "done"
    BY <1>2, <2>1 DEF LeftOutOnlyLate
  <2>3. QED
    BY <2>1, <2>2 DEF TodosKept
<1>3. QED
  BY <1>1, <1>2 DEF LeftOutOnlyLate

\* The first entry of a group, by collation and then by id.
LEMMA FirstOwner ==
    ASSUME TypeOK, NEW k, entries(k) # {}, entries(k) \subseteq DOMAIN todos
    PROVE  first_owner(k) \in Agents
<1>1. PICK E : E = entries(k)
  OBVIOUS
<1>2. \A i \in E : i \in Nat /\ i \in DOMAIN todos /\ Rank[todos[i].task] \in Nat
                   /\ todos[i].agent \in Agents
  BY <1>1, TodoTypes
<1>3. PICK R : R = {Rank[todos[i].task] : i \in E}
  OBVIOUS
<1>4. R \subseteq Nat /\ R # {}
  BY <1>1, <1>2, <1>3
<1>5. PICK r \in R : \A q \in R : r <= q
  BY <1>4, Least
<1>6. PICK T : T = {i \in E : Rank[todos[i].task] = r}
  OBVIOUS
<1>7. T \subseteq Nat /\ T # {}
  BY <1>2, <1>3, <1>5, <1>6
<1>8. PICK m \in T : \A j \in T : m <= j
  BY <1>7, Least
<1> DEFINE First(i) ==
      \A j \in E : \/ Rank[todos[i].task] < Rank[todos[j].task]
                   \/ Rank[todos[i].task] = Rank[todos[j].task] /\ i <= j
<1>9. m \in E /\ First(m)
  <2>1. m \in E /\ Rank[todos[m].task] = r
    BY <1>6, <1>8
  <2>2. ASSUME NEW j \in E
        PROVE  \/ Rank[todos[m].task] < Rank[todos[j].task]
               \/ Rank[todos[m].task] = Rank[todos[j].task] /\ m <= j
    <3>1. r <= Rank[todos[j].task] /\ r \in Nat /\ Rank[todos[j].task] \in Nat
      BY <1>2, <1>3, <1>4, <1>5
    <3>2. CASE Rank[todos[j].task] = r
      BY <1>6, <1>8, <2>1, <3>2
    <3>3. CASE Rank[todos[j].task] # r
      BY <2>1, <3>1, <3>3
    <3>4. QED
      BY <3>2, <3>3
  <2>3. QED
    BY <2>1, <2>2
<1>10. PICK c : c = CHOOSE i \in E : First(i)
  OBVIOUS
<1> HIDE DEF First
<1>11. c \in E
  BY <1>9, <1>10, Zenon
<1>12. first_owner(k) = todos[c].agent
  BY <1>1, <1>10 DEF first_owner, First
<1>13. QED
  BY <1>2, <1>11, <1>12

LEMMA GroupTypes ==
    ASSUME HookInv, pass.pc # "idle", NEW k \in pass.left
    PROVE  /\ entries(k) \subseteq DOMAIN todos /\ entries(k) # {} /\ k \in Keys
           /\ first_owner(k) \in Agents
<1>1. TypeOK /\ PassGood(pass)
  BY DEF HookInv
<1>2. entries(k) \subseteq DOMAIN todos /\ entries(k) # {}
  BY <1>1 DEF PassGood, entries, normalise_task
<1>3. k \in Keys
  BY <1>1, PassTypes
<1>4. QED
  BY <1>1, <1>2, <1>3, FirstOwner

LEMMA InitHooks == Init => HookInv
<1> SUFFICES ASSUME Init PROVE HookInv
  OBVIOUS
<1>1. ReconcilerInit /\ BusInit
  BY DEF Init
<1>2. todos = <<>> /\ Len(todos) = 0 /\ DOMAIN todos = {} /\ todos \in Seq(Todo)
  BY <1>1 DEF ReconcilerInit
<1>3. pass = NoPass /\ pass.pc = "idle" /\ pass \in Pass
  BY <1>1 DEF ReconcilerInit, NoPass, Pass
<1>4. ReconcilerTypeOK
  <2>1. MaxTodos \in Nat /\ MaxRegistrations \in Nat /\ MaxFailures \in Nat
    BY HookBounds
  <2>2. todos \in Seq(Todo) /\ Len(todos) <= MaxTodos
    BY <1>2, <2>1
  <2>3. listed \in [Keys -> Row \cup {Absent}] /\ known \in [Keys -> SUBSET Ids]
    BY <1>1 DEF ReconcilerInit
  <2>4. capable \in [Agents -> SUBSET Keys]
    BY <1>1 DEF ReconcilerInit
  <2>5. file \subseteq Keys /\ moves \in 0 .. MaxRegistrations /\ failures \in 0 .. MaxFailures
    BY <1>1, <2>1 DEF ReconcilerInit
  <2>6. QED
    BY <1>3, <2>2, <2>3, <2>4, <2>5 DEF ReconcilerTypeOK
<1>5. BusTypeOK
  BY <1>1 DEF BusInit, BusTypeOK, Buses, connect
<1>6. KnownExist /\ LeftOutOnlyLate /\ PassGood(pass)
  BY <1>1, <1>2, <1>3 DEF ReconcilerInit, KnownExist, LeftOutOnlyLate, PassGood
<1>7. QED
  BY <1>4, <1>5, <1>6 DEF HookInv, TypeOK

LEMMA BusKept ==
    ASSUME TypeOK, UNCHANGED busVars
    PROVE  BusTypeOK'
BY DEF TypeOK, BusTypeOK, busVars

\* A new todo.
LEMMA AppendKeeps ==
    ASSUME HookInv, NEW a \in Agents, NEW x \in Texts,
           append_todo(a, x), UNCHANGED busVars
    PROVE  HookInv'
<1>1. TypeOK /\ PassGood(pass) /\ KnownExist /\ LeftOutOnlyLate
  BY DEF HookInv
<1>2. PICK n : n = [agent |-> a, task |-> x, status |-> "pending"]
  OBVIOUS
<1>3. /\ Len(todos) < MaxTodos /\ todos' = Append(todos, n)
      /\ listed' = listed /\ known' = known /\ file' = file /\ capable' = capable
      /\ pass' = pass /\ moves' = moves /\ failures' = failures
  BY <1>2 DEF append_todo
<1>4. n \in Todo /\ todos \in Seq(Todo)
  BY <1>1, <1>2 DEF Todo, TypeOK, ReconcilerTypeOK
<1>5. /\ todos' \in Seq(Todo) /\ Len(todos') = Len(todos) + 1
      /\ \A i \in 1 .. Len(todos) : todos'[i] = todos[i]
      /\ DOMAIN todos' = 1 .. Len(todos')
  BY <1>3, <1>4
<1>6. Len(todos) \in Nat /\ DOMAIN todos = 1 .. Len(todos) /\ MaxTodos \in Nat
  BY <1>1, TodoTypes, HookBounds
<1>7. TypeOK'
  <2>1. Len(todos') <= MaxTodos
    BY <1>3, <1>5, <1>6
  <2>2. ReconcilerTypeOK'
    BY <1>1, <1>3, <1>5, <2>1 DEF TypeOK, ReconcilerTypeOK
  <2>3. QED
    BY <1>1, <2>2, BusKept DEF TypeOK
<1>8. TodosKept
  BY <1>5, <1>6 DEF TodosKept
<1>9. PassGood(pass)'
  <2>1. PICK p : p = pass
    OBVIOUS
  <2>2. PassGood(p)'
    BY <1>1, <1>8, <2>1, PassKept
  <2>3. QED
    BY <1>3, <2>1, <2>2 DEF PassGood
<1>10. \A i \in DOMAIN todos' : Normal[todos'[i].task] \in Keys
  <2>1. \A i \in DOMAIN todos' : todos'[i] \in Todo
    BY <1>5
  <2>2. QED
    BY <2>1, HookBounds DEF Todo
<1>11. KnownExist' /\ LeftOutOnlyLate'
  BY <1>1, <1>3, <1>8, <1>10, RowsKept
<1>12. QED
  BY <1>7, <1>9, <1>11 DEF HookInv

LEMMA CompleteKeeps ==
    ASSUME HookInv, NEW i \in DOMAIN todos, complete_todo(i), UNCHANGED busVars
    PROVE  HookInv'
<1>1. TypeOK /\ PassGood(pass) /\ KnownExist /\ LeftOutOnlyLate
  BY DEF HookInv
<1>2. /\ todos' = [todos EXCEPT ![i].status = "done"]
      /\ listed' = listed /\ known' = known /\ file' = file /\ capable' = capable
      /\ pass' = pass /\ moves' = moves /\ failures' = failures
  BY DEF complete_todo
<1>3. /\ todos \in Seq(Todo) /\ Len(todos) \in Nat /\ DOMAIN todos = 1 .. Len(todos)
      /\ \A j \in DOMAIN todos : todos[j] \in Todo
  BY <1>1, TodoTypes DEF TypeOK, ReconcilerTypeOK
<1>4. /\ DOMAIN todos' = DOMAIN todos
      /\ \A j \in DOMAIN todos : j # i => todos'[j] = todos[j]
      /\ todos'[i] = [todos[i] EXCEPT !.status = "done"]
  BY <1>2, <1>3
<1>5. \A j \in DOMAIN todos : /\ todos'[j] \in Todo /\ todos'[j].task = todos[j].task
                              /\ todos[j].status = "done" => todos'[j].status = "done"
  BY <1>3, <1>4 DEF Todo
<1>6. todos' \in Seq(Todo) /\ Len(todos') = Len(todos)
  <2>1. todos' \in [1 .. Len(todos) -> Todo]
    BY <1>2, <1>3, <1>4, <1>5
  <2>2. QED
    BY <1>3, <2>1
<1>7. TypeOK'
  <2>1. ReconcilerTypeOK'
    BY <1>1, <1>2, <1>6 DEF TypeOK, ReconcilerTypeOK
  <2>2. QED
    BY <1>1, <2>1, BusKept DEF TypeOK
<1>8. TodosKept
  BY <1>4, <1>5 DEF TodosKept
<1>9. PassGood(pass)'
  <2>1. PICK p : p = pass
    OBVIOUS
  <2>2. PassGood(p)'
    BY <1>1, <1>8, <2>1, PassKept
  <2>3. QED
    BY <1>2, <2>1, <2>2 DEF PassGood
<1>10. \A j \in DOMAIN todos' : Normal[todos'[j].task] \in Keys
  BY <1>1, <1>4, <1>5, TodoTypes
<1>11. KnownExist' /\ LeftOutOnlyLate'
  BY <1>1, <1>2, <1>8, <1>10, RowsKept
<1>12. QED
  BY <1>7, <1>9, <1>11 DEF HookInv

\* Steps that leave the tables alone: the pass becomes p, or the bus moves.
LEMMA TablesAlone ==
    ASSUME HookInv, todos' = todos, listed' = listed, known' = known,
           file' \subseteq Keys, capable' \in [Agents -> SUBSET Keys],
           NEW p \in Pass, pass' = p, PassGood(p),
           moves' \in 0 .. MaxRegistrations, failures' \in 0 .. MaxFailures, BusTypeOK'
    PROVE  HookInv'
<1>1. TypeOK'
  BY DEF HookInv, TypeOK, ReconcilerTypeOK
<1>2. PassGood(pass)'
  BY DEF PassGood
<1>3. KnownExist' /\ LeftOutOnlyLate'
  BY DEF HookInv, KnownExist, LeftOutOnlyLate
<1>4. QED
  BY <1>1, <1>2, <1>3 DEF HookInv

\* The types of what a step leaves alone.
LEMMA StillTyped ==
    ASSUME HookInv
    PROVE  /\ file \subseteq Keys /\ capable \in [Agents -> SUBSET Keys] /\ pass \in Pass
           /\ moves \in 0 .. MaxRegistrations /\ failures \in 0 .. MaxFailures
           /\ TypeOK /\ BusTypeOK /\ PassGood(pass)
           /\ NoPass \in Pass /\ PassGood(NoPass)
BY DEF HookInv, TypeOK, ReconcilerTypeOK, NoPass, Pass, PassGood

\* The pass that goes on with fewer groups.
LEMMA ProceedGood ==
    ASSUME HookInv, pass.pc # "idle", NEW left, left \subseteq pass.left
    PROVE  /\ Proceed(pass.open, pass.top, left) \in Pass
           /\ PassGood(Proceed(pass.open, pass.top, left))
<1>1. TypeOK /\ PassGood(pass)
  BY DEF HookInv
<1>2. /\ pass.open \subseteq Ids /\ left \subseteq Keys /\ pass.top \in 0 .. MaxTodos
  BY <1>1, PassTypes
<1>3. PICK p : p = Proceed(pass.open, pass.top, left)
  OBVIOUS
<1>4. /\ p \in [pc : {"group", "file"}, open : SUBSET Ids, left : SUBSET Keys,
                top : 0 .. MaxTodos]
      /\ p.open = pass.open /\ p.top = pass.top /\ p.left = left
      /\ p.pc \in {"group", "file"}
  BY <1>2, <1>3 DEF Proceed
<1>5. p \in Pass
  BY <1>4 DEF Pass
<1>6. PassGood(p)
  BY <1>1, <1>4 DEF PassGood
<1>7. QED
  BY <1>3, <1>5, <1>6

LEMMA RegisterKeeps ==
    ASSUME HookInv, NEW a \in Agents, NEW caps \in {{}, Keys},
           Register(a, caps)
    PROVE  HookInv'
<1>1. upsert(a, caps) /\ serve(a)
  BY DEF Register
<1>2. /\ moves < MaxRegistrations /\ moves' = moves + 1
      /\ capable' = [capable EXCEPT ![a] = caps]
      /\ todos' = todos /\ listed' = listed /\ known' = known /\ file' = file
      /\ pass' = pass /\ failures' = failures
  BY <1>1 DEF upsert
<1>3. capable' \in [Agents -> SUBSET Keys]
  BY <1>2, StillTyped
<1>4. moves' \in 0 .. MaxRegistrations
  BY <1>2, StillTyped, HookBounds
<1>5. BusTypeOK'
  <2>1. BusTypeOK /\ bus' = bus /\ told' = told
    BY <1>1, StillTyped DEF serve
  <2>2. /\ hook' \in [HookAgents -> {"off", "starting", "on"}]
        /\ inbox' \in [HookAgents -> SUBSET Events]
    BY <1>1, <2>1 DEF serve, BusTypeOK
  <2>3. QED
    BY <2>1, <2>2 DEF BusTypeOK
<1>6. QED
  BY <1>2, <1>3, <1>4, <1>5, StillTyped, TablesAlone

LEMMA PassBegins ==
    ASSUME HookInv, reconcile_todos, UNCHANGED busVars
    PROVE  HookInv'
<1>1. PICK left : left = {Normal[todos[i].task] : i \in open_todos}
  OBVIOUS
<1>2. PICK p : p = Proceed(open_todos, Len(todos), left)
  OBVIOUS
<1>3. /\ pass' = p /\ todos' = todos /\ listed' = listed /\ known' = known /\ file' = file
      /\ capable' = capable /\ moves' = moves /\ failures' = failures
  BY <1>1, <1>2 DEF reconcile_todos, normalise_task
<1>4. /\ Len(todos) \in Nat /\ DOMAIN todos = 1 .. Len(todos) /\ DOMAIN todos \subseteq Ids
      /\ \A i \in DOMAIN todos : Normal[todos[i].task] \in Keys
  BY StillTyped, TodoTypes
<1>5. /\ open_todos \subseteq DOMAIN todos
      /\ \A i \in DOMAIN todos \ open_todos : todos[i].status = "done"
  BY DEF open_todos
<1>6. left \subseteq Keys
  BY <1>1, <1>4, <1>5
<1>7. Len(todos) \in 0 .. MaxTodos
  BY <1>4, StillTyped, HookBounds DEF TypeOK, ReconcilerTypeOK
<1>8. /\ p \in [pc : {"group", "file"}, open : SUBSET Ids, left : SUBSET Keys,
                top : 0 .. MaxTodos]
      /\ p.open = open_todos /\ p.top = Len(todos) /\ p.left = left
      /\ p.pc \in {"group", "file"}
  BY <1>2, <1>4, <1>5, <1>6, <1>7 DEF Proceed
<1>9. p \in Pass
  BY <1>8 DEF Pass
<1>10. PassGood(p)
  <2>1. 1 .. p.top = DOMAIN todos
    BY <1>4, <1>8
  <2>2. \A k \in p.left : \E i \in p.open : Normal[todos[i].task] = k
    BY <1>1, <1>8
  <2>3. QED
    BY <1>5, <1>8, <2>1, <2>2 DEF PassGood
<1>11. QED
  BY <1>3, <1>9, <1>10, StillTyped, BusKept, TablesAlone

\* The row of a task: a pass has all of its todos that were open when it began.
LEMMA RowWritten ==
    ASSUME HookInv, pass.pc # "idle", NEW k \in pass.left,
           NEW s \in {"pending", "flagged"}, upsert_project_todo(k, s), todos' = todos
    PROVE  /\ listed' \in [Keys -> Row \cup {Absent}] /\ known' \in [Keys -> SUBSET Ids]
           /\ KnownExist' /\ LeftOutOnlyLate'
<1>1. TypeOK /\ PassGood(pass) /\ KnownExist /\ LeftOutOnlyLate
  BY DEF HookInv
<1>2. listed \in [Keys -> Row \cup {Absent}] /\ known \in [Keys -> SUBSET Ids]
  BY <1>1 DEF TypeOK, ReconcilerTypeOK
<1>3. CASE UNCHANGED <<listed, known>>
  BY <1>1, <1>2, <1>3 DEF KnownExist, LeftOutOnlyLate
<1>4. CASE ~UNCHANGED <<listed, known>>
  <2>1. PICK row : row = [assigned_to |-> first_owner(k), status |-> s,
                          source_todos |-> entries(k)]
    OBVIOUS
  <2>2. listed' = [listed EXCEPT ![k] = row] /\ known' = [known EXCEPT ![k] = 1 .. pass.top]
    BY <1>4, <2>1 DEF upsert_project_todo, source_ids
  <2>3. /\ entries(k) \subseteq DOMAIN todos /\ k \in Keys /\ first_owner(k) \in Agents
    BY GroupTypes
  <2>4. DOMAIN todos \subseteq Ids /\ 1 .. pass.top \subseteq DOMAIN todos
    BY <1>1, TodoTypes DEF PassGood
  <2>5. row \in Row /\ row.source_todos = entries(k)
    BY <2>1, <2>3, <2>4 DEF Row
  <2>6. listed' \in [Keys -> Row \cup {Absent}] /\ known' \in [Keys -> SUBSET Ids]
    BY <1>2, <2>2, <2>4, <2>5
  <2>7. KnownExist'
    BY <1>1, <1>2, <2>2, <2>4 DEF KnownExist
  <2>8. ASSUME NEW i \in DOMAIN todos, NEW q, q = Normal[todos[i].task],
               listed'[q] # Absent, i \in known'[q] \ listed'[q].source_todos
        PROVE  todos[i].status = "done"
    <3>1. CASE q = k
      <4>1. listed'[q] = row /\ known'[q] = 1 .. pass.top
        BY <1>2, <2>2, <2>3, <3>1
      <4>2. i \in 1 .. pass.top /\ i \notin entries(k)
        BY <2>5, <2>8, <4>1
      <4>3. i \notin pass.open
        BY <2>8, <3>1, <4>2 DEF entries, normalise_task
      <4>4. QED
        BY <1>1, <4>2, <4>3 DEF PassGood
    <3>2. CASE q # k
      <4>1. q \in Keys
        BY <1>1, <2>8, TodoTypes
      <4>2. listed'[q] = listed[q] /\ known'[q] = known[q]
        BY <1>2, <2>2, <3>2, <4>1
      <4>3. QED
        BY <1>1, <2>8, <4>2 DEF LeftOutOnlyLate
    <3>3. QED
      BY <3>1, <3>2
  <2>9. LeftOutOnlyLate'
    BY <2>8 DEF LeftOutOnlyLate
  <2>10. QED
    BY <2>6, <2>7, <2>9
<1>5. QED
  BY <1>3, <1>4

\* A step that writes a row and goes on as p.
LEMMA RowStep ==
    ASSUME HookInv, pass.pc # "idle", NEW k \in pass.left,
           NEW s \in {"pending", "flagged"}, upsert_project_todo(k, s), todos' = todos,
           file' = file, capable' = capable, moves' = moves, failures' = failures,
           NEW p \in Pass, pass' = p, PassGood(p), UNCHANGED busVars
    PROVE  HookInv'
<1>1. /\ listed' \in [Keys -> Row \cup {Absent}] /\ known' \in [Keys -> SUBSET Ids]
      /\ KnownExist' /\ LeftOutOnlyLate'
  BY RowWritten
<1>2. todos' \in Seq(Todo) /\ Len(todos') <= MaxTodos
  BY StillTyped DEF TypeOK, ReconcilerTypeOK
<1>3. ReconcilerTypeOK'
  BY <1>1, <1>2, StillTyped DEF ReconcilerTypeOK
<1>4. TypeOK'
  BY <1>3, StillTyped, BusKept DEF TypeOK
<1>5. PassGood(pass)'
  BY DEF PassGood
<1>6. QED
  BY <1>1, <1>4, <1>5 DEF HookInv

LEMMA MergeKeeps ==
    ASSUME HookInv, NEW k \in Keys, merge(k), UNCHANGED busVars
    PROVE  HookInv'
<1>1. pass.pc # "idle" /\ k \in pass.left /\ upsert_project_todo(k, "pending")
  BY DEF merge
<1>2. PICK p : p = Proceed(pass.open, pass.top, pass.left \ {k})
  OBVIOUS
<1>3. /\ pass' = p /\ todos' = todos /\ file' = file /\ capable' = capable
      /\ moves' = moves /\ failures' = failures
  BY <1>2 DEF merge
<1>4. p \in Pass /\ PassGood(p)
  <2>1. pass.left \ {k} \subseteq pass.left
    OBVIOUS
  <2>2. QED
    BY <1>1, <1>2, <2>1, ProceedGood
<1>5. QED
  BY <1>1, <1>3, <1>4, RowStep

LEMMA CapabilityKeeps ==
    ASSUME HookInv, NEW k \in Keys, agent_has_capability(k),
           UNCHANGED busVars
    PROVE  HookInv'
<1>1. pass.pc = "group" /\ k \in pass.left
  BY DEF agent_has_capability
<1>2. PICK s \in {"pending", "flagged"} :
          s = IF k \in capable[first_owner(k)] THEN "pending" ELSE "flagged"
  OBVIOUS
<1>3. PICK p : p = [pc |-> "upsert", open |-> pass.open, left |-> pass.left, top |-> pass.top,
                    key |-> k, status |-> s]
  OBVIOUS
<1>4. /\ pass' = p /\ todos' = todos /\ listed' = listed /\ known' = known /\ file' = file
      /\ capable' = capable /\ moves' = moves /\ failures' = failures
  BY <1>2, <1>3 DEF agent_has_capability
<1>5. pass.open \subseteq Ids /\ pass.left \subseteq Keys /\ pass.top \in 0 .. MaxTodos
  BY <1>1, StillTyped, PassTypes
<1>6. p \in Pass
  <2>1. p \in [pc : {"upsert"}, open : SUBSET Ids, left : SUBSET Keys, top : 0 .. MaxTodos,
               key : Keys, status : {"pending", "flagged"}]
    BY <1>3, <1>5
  <2>2. QED
    BY <2>1 DEF Pass
<1>7. PassGood(p)
  BY <1>1, <1>3, StillTyped DEF PassGood
<1>8. QED
  BY <1>4, <1>6, <1>7, StillTyped, BusKept, TablesAlone

LEMMA AssignKeeps ==
    ASSUME HookInv, assign, UNCHANGED busVars
    PROVE  HookInv'
<1>1. pass.pc = "upsert" /\ upsert_project_todo(pass.key, pass.status)
  BY DEF assign
<1>2. pass.key \in pass.left
  BY <1>1, StillTyped DEF PassGood
<1>3. /\ pass.open \subseteq Ids /\ pass.left \subseteq Keys /\ pass.top \in 0 .. MaxTodos
      /\ pass.key \in Keys /\ pass.status \in {"pending", "flagged"}
  BY <1>1, StillTyped, PassTypes
<1>4. PICK q : q = [pc |-> "publish", open |-> pass.open, left |-> pass.left, top |-> pass.top,
                    key |-> pass.key]
  OBVIOUS
<1>5. q \in Pass
  <2>1. q \in [pc : {"publish"}, open : SUBSET Ids, left : SUBSET Keys, top : 0 .. MaxTodos,
               key : Keys]
    BY <1>3, <1>4
  <2>2. QED
    BY <2>1 DEF Pass
<1>6. PassGood(q)
  BY <1>1, <1>4, StillTyped DEF PassGood
<1>7. PICK r : r = Proceed(pass.open, pass.top, pass.left \ {pass.key})
  OBVIOUS
<1>8. r \in Pass /\ PassGood(r)
  <2>1. pass.left \ {pass.key} \subseteq pass.left
    OBVIOUS
  <2>2. QED
    BY <1>1, <1>7, <2>1, ProceedGood
<1>9. PICK p \in Pass : pass' = p /\ PassGood(p)
  <2>1. pass' = q \/ pass' = r
    BY <1>4, <1>7 DEF assign
  <2>2. QED
    BY <1>5, <1>6, <1>8, <2>1
<1>10. todos' = todos /\ file' = file /\ capable' = capable /\ moves' = moves /\ failures' = failures
  BY DEF assign
<1>11. QED
  BY <1>1, <1>2, <1>3, <1>9, <1>10, RowStep

LEMMA PublishKeeps ==
    ASSUME HookInv, PublishAssignment
    PROVE  HookInv'
<1>1. notify
  BY DEF PublishAssignment
<1>2. PICK i \in entries(pass.key) : publish_task_assigned(todos[i].agent, i)
  BY DEF PublishAssignment
<1>3. pass.pc = "publish" /\ pass.pc # "idle"
  BY <1>1 DEF notify
<1>4. PICK p : p = Proceed(pass.open, pass.top, pass.left \ {pass.key})
  OBVIOUS
<1>5. /\ pass' = p /\ todos' = todos /\ listed' = listed /\ known' = known /\ file' = file
      /\ capable' = capable /\ moves' = moves /\ failures' = failures
  BY <1>1, <1>4 DEF notify
<1>6. p \in Pass /\ PassGood(p)
  <2>1. pass.left \ {pass.key} \subseteq pass.left
    OBVIOUS
  <2>2. QED
    BY <1>3, <1>4, <2>1, ProceedGood
<1>7. i \in Events
  <2>1. i \in pass.open
    BY <1>2 DEF entries
  <2>2. pass.open \subseteq Ids
    BY <1>3, StillTyped, PassTypes
  <2>3. QED
    BY <2>1, <2>2, HookBounds
<1>8. BusTypeOK'
  <2>1. BusTypeOK
    BY StillTyped
  <2>2. inbox' \in [HookAgents -> SUBSET Events]
    <3>1. PICK a : a = todos[i].agent
      OBVIOUS
    <3>2. CASE UNCHANGED inbox
      BY <2>1, <3>2 DEF BusTypeOK
    <3>3. CASE nats_publish(a, i)
      BY <1>7, <2>1, <3>3 DEF nats_publish, BusTypeOK
    <3>4. QED
      BY <1>2, <3>1, <3>2, <3>3 DEF publish_task_assigned, pulsar_send
  <2>3. QED
    BY <1>2, <2>1, <2>2 DEF publish_task_assigned, BusTypeOK
<1>9. QED
  BY <1>5, <1>6, <1>8, StillTyped, TablesAlone

LEMMA FileKeeps ==
    ASSUME HookInv, write_todo_md, UNCHANGED busVars
    PROVE  HookInv'
<1>1. /\ pass' = NoPass /\ todos' = todos /\ listed' = listed /\ known' = known
      /\ capable' = capable /\ moves' = moves /\ failures' = failures
      /\ file' \subseteq Keys
  BY DEF write_todo_md
<1>2. QED
  BY <1>1, StillTyped, BusKept, TablesAlone

LEMMA PassFails ==
    ASSUME HookInv, Fail, UNCHANGED busVars
    PROVE  HookInv'
<1>1. /\ pass' = NoPass /\ todos' = todos /\ listed' = listed /\ known' = known
      /\ file' = file /\ capable' = capable /\ moves' = moves
      /\ failures < MaxFailures /\ failures' = failures + 1
  BY DEF Fail
<1>2. failures' \in 0 .. MaxFailures
  BY <1>1, StillTyped, HookBounds
<1>3. QED
  BY <1>1, <1>2, StillTyped, BusKept, TablesAlone

LEMMA RestartKeeps ==
    ASSUME HookInv, StartGateway
    PROVE  HookInv'
<1>1. Restart /\ GatewayRestarts
  BY DEF StartGateway
<1>2. /\ pass' = NoPass /\ todos' = todos /\ listed' = listed /\ known' = known
      /\ file' = file /\ moves' = moves
      /\ failures < MaxFailures /\ failures' = failures + 1
      /\ capable' = [a \in Agents |-> IF a \in Seeds THEN {} ELSE capable[a]]
  BY <1>1 DEF Restart
<1>3. failures' \in 0 .. MaxFailures
  BY <1>2, StillTyped, HookBounds
<1>4. capable' \in [Agents -> SUBSET Keys]
  BY <1>2, StillTyped
<1>5. BusTypeOK'
  <2>1. bus' \in {"pulsar", "nats", "none"}
    BY <1>1 DEF GatewayRestarts, Buses, connect
  <2>2. QED
    BY <1>1, <2>1, StillTyped DEF GatewayRestarts, BusTypeOK
<1>6. QED
  BY <1>2, <1>3, <1>4, <1>5, StillTyped, TablesAlone

\* Steps of the bus and of the agents' subscribers.
LEMMA BusSteps ==
    ASSUME HookInv, UNCHANGED reconcilerVars, BusTypeOK'
    PROVE  HookInv'
<1>1. /\ todos' = todos /\ listed' = listed /\ known' = known /\ file' = file
      /\ capable' = capable /\ pass' = pass /\ moves' = moves /\ failures' = failures
  BY DEF reconcilerVars
<1>2. QED
  BY <1>1, StillTyped, TablesAlone

LEMMA SubscribeTypes ==
    ASSUME HookInv, NEW a \in HookAgents, spawn_hook_subscriber(a)
    PROVE  BusTypeOK'
<1>1. BusTypeOK
  BY StillTyped
<1>2. PICK reached \in BOOLEAN : hook' = [hook EXCEPT ![a] = IF reached THEN "on" ELSE "off"]
  BY DEF spawn_hook_subscriber
<1>3. hook' \in [HookAgents -> {"off", "starting", "on"}]
  BY <1>1, <1>2 DEF BusTypeOK
<1>4. QED
  BY <1>1, <1>3 DEF spawn_hook_subscriber, BusTypeOK

LEMMA ExitTypes ==
    ASSUME HookInv, NEW a \in HookAgents, SubscriberExits(a)
    PROVE  BusTypeOK'
BY StillTyped DEF SubscriberExits, BusTypeOK

LEMMA MessageTypes ==
    ASSUME HookInv, NEW a \in HookAgents, NEW e \in Events,
           dispatch_event(a, e) \/ MessageLost(a, e)
    PROVE  BusTypeOK'
<1>1. BusTypeOK
  BY StillTyped
<1>2. CASE dispatch_event(a, e)
  BY <1>1, <1>2 DEF dispatch_event, BusTypeOK
<1>3. CASE MessageLost(a, e)
  BY <1>1, <1>3 DEF MessageLost, BusTypeOK
<1>4. QED
  BY <1>2, <1>3

LEMMA LossKeeps ==
    ASSUME HookInv, NEW a \in HookAgents, NEW e \in Events, LoseMessage(a, e)
    PROVE  HookInv'
<1>1. /\ failures < MaxFailures /\ failures' = failures + 1
      /\ todos' = todos /\ listed' = listed /\ known' = known /\ file' = file
      /\ capable' = capable /\ pass' = pass /\ moves' = moves
  BY DEF LoseMessage
<1>2. failures' \in 0 .. MaxFailures
  BY <1>1, StillTyped, HookBounds
<1>3. BusTypeOK'
  BY MessageTypes DEF LoseMessage
<1>4. QED
  BY <1>1, <1>2, <1>3, StillTyped, TablesAlone

LEMMA NextHooks == HookInv /\ [Next]_vars => HookInv'
<1> SUFFICES ASSUME HookInv, [Next]_vars PROVE HookInv'
  OBVIOUS
<1>1. CASE UNCHANGED vars
  <2>1. UNCHANGED reconcilerVars /\ UNCHANGED busVars
    BY <1>1 DEF vars
  <2>2. QED
    BY <2>1, StillTyped, BusKept, BusSteps
<1>2. CASE \E w \in Work : append_todo(w[1], w[2]) /\ UNCHANGED busVars
  <2>1. PICK w \in Work : append_todo(w[1], w[2]) /\ UNCHANGED busVars
    BY <1>2
  <2>2. w[1] \in Agents /\ w[2] \in Texts
    BY HookBounds
  <2>3. QED
    BY <2>1, <2>2, AppendKeeps
<1>3. CASE \E i \in DOMAIN todos : complete_todo(i) /\ UNCHANGED busVars
  BY <1>3, CompleteKeeps
<1>4. CASE \E a \in Agents, caps \in {{}, Keys} : Register(a, caps)
  BY <1>4, RegisterKeeps
<1>5. CASE PassStep /\ UNCHANGED busVars
  BY <1>5, PassBegins, AssignKeeps, FileKeeps, MergeKeeps, CapabilityKeeps DEF PassStep
<1>6. CASE PublishAssignment
  BY <1>6, PublishKeeps
<1>7. CASE Fail /\ UNCHANGED busVars
  BY <1>7, PassFails
<1>8. CASE StartGateway
  BY <1>8, RestartKeeps
<1>9. CASE \E a \in HookAgents : spawn_hook_subscriber(a) /\ UNCHANGED reconcilerVars
  <2>1. PICK a \in HookAgents : spawn_hook_subscriber(a) /\ UNCHANGED reconcilerVars
    BY <1>9
  <2>2. BusTypeOK'
    BY <2>1, SubscribeTypes
  <2>3. QED
    BY <2>1, <2>2, BusSteps
<1>10. CASE \E a \in HookAgents, e \in Events : dispatch_event(a, e) /\ UNCHANGED reconcilerVars
  BY <1>10, MessageTypes, BusSteps
<1>11. CASE \E a \in HookAgents, e \in Events : LoseMessage(a, e)
  BY <1>11, LossKeeps
<1>12. CASE \E a \in HookAgents : SubscriberExits(a) /\ UNCHANGED reconcilerVars
  <2>1. PICK a \in HookAgents : SubscriberExits(a) /\ UNCHANGED reconcilerVars
    BY <1>12
  <2>2. BusTypeOK'
    BY <2>1, ExitTypes
  <2>3. QED
    BY <2>1, <2>2, BusSteps
<1>13. QED
  BY <1>1, <1>2, <1>3, <1>4, <1>5, <1>6, <1>7, <1>8, <1>9, <1>10, <1>11, <1>12 DEF Next

\* A pass keeps what it loaded, whatever agents append, complete or register while
\* it runs and wherever it is cut off.
THEOREM HookInvariant == Spec => []HookInv
<1>1. Init => HookInv
  BY InitHooks
<1>2. HookInv /\ [Next]_vars => HookInv'
  BY NextHooks
<1>3. QED
  BY <1>1, <1>2, PTL DEF Spec

\* The types of TaskHooks: every group has a first entry, so that every row names
\* an agent.
THEOREM HookTypes == Spec => []TypeOK
<1>1. HookInv => TypeOK
  BY DEF HookInv
<1>2. QED
  BY <1>1, HookInvariant, PTL

\* A row of project_todos names every todo of its task that was open when the pass
\* that wrote it began, unless it is done.
THEOREM DuplicatesAreMerged == Spec => []LeftOutOnlyLate
<1>1. HookInv => LeftOutOnlyLate
  BY DEF HookInv
<1>2. QED
  BY <1>1, HookInvariant, PTL
=============================================================================
