----------------------------- MODULE Reconciler -----------------------------
(***************************************************************************)
(* The task reconciler of reconciler.rs with the todos of identity.rs that *)
(* it reads and the agents' capabilities of registry.rs.                   *)
(*                                                                         *)
(* One loop makes a pass every interval: it loads the open todos, groups   *)
(* them by normalised text, writes a row of project_todos for each group   *)
(* and then the file todo.md.  Each statement is an action; agents append  *)
(* and complete todos and register between them.  A pass stops at its      *)
(* first error and the next one starts from the beginning.  What the event *)
(* of an assigned task does is modelled in EventBus; TaskHooks joins both. *)
(***************************************************************************)
EXTENDS Naturals, Sequences, FiniteSets, Functions

CONSTANTS
    Agents,
    Texts,             \* task texts as agents write them
    Normal,            \* Normal[x]: x trimmed and in lower case
    Rank,              \* Rank[x]: the place of x in the collation of the database
    Work,              \* the pairs <<a, x>> of an agent and a task it may append
    Seeds,             \* agents listed in gateway.toml
    MaxTodos,          \* bound on todos
    MaxRegistrations,  \* bound on changes of capabilities
    MaxFailures,       \* bound on passes that stop early and restarts
    Absent             \* no row

Keys == Range(Normal)

ASSUME NormalAssumption ==
    /\ Normal \in [Texts -> Texts]
    /\ \A k \in Keys : Normal[k] = k
ASSUME RankAssumption == Rank \in [Texts -> Nat]
ASSUME ReconcilerBounds == {MaxTodos, MaxRegistrations, MaxFailures} \subseteq Nat
ASSUME WorkAssumption == Work \subseteq Agents \X Texts
ASSUME SeedsAssumption == Seeds \subseteq Agents

VARIABLES
    todos,     \* the table todos, by id
    listed,    \* the table project_todos, by its UNIQUE task
    known,     \* history: the ids that existed when the pass that wrote the row began
    file,      \* the tasks in todo.md
    capable,   \* capable[a]: the tasks that mention a capability of a
    pass,      \* the pass in progress
    moves,
    failures

reconcilerVars == <<todos, listed, known, file, capable, pass, moves, failures>>

Todo == [agent : Agents, task : Texts, status : {"pending", "done"}]
Ids == 1 .. MaxTodos
Row == [assigned_to : Agents, status : {"pending", "flagged"}, source_todos : SUBSET Ids]
NoPass == [pc |-> "idle"]

Pass ==
    {NoPass}
    \cup [pc : {"group", "file"}, open : SUBSET Ids, left : SUBSET Keys, top : 0 .. MaxTodos]
    \cup [pc : {"upsert"}, open : SUBSET Ids, left : SUBSET Keys, top : 0 .. MaxTodos,
          key : Keys, status : {"pending", "flagged"}]
    \cup [pc : {"publish"}, open : SUBSET Ids, left : SUBSET Keys, top : 0 .. MaxTodos,
          key : Keys]

ReconcilerTypeOK ==
    /\ todos \in Seq(Todo) /\ Len(todos) <= MaxTodos
    /\ listed \in [Keys -> Row \cup {Absent}]
    /\ known \in [Keys -> SUBSET Ids]
    /\ file \subseteq Keys
    /\ capable \in [Agents -> SUBSET Keys]
    /\ pass \in Pass
    /\ moves \in 0 .. MaxRegistrations
    /\ failures \in 0 .. MaxFailures

ReconcilerInit ==
    /\ todos = <<>>
    /\ listed = [k \in Keys |-> Absent]
    /\ known = [k \in Keys |-> {}]
    /\ file = {}
    /\ capable \in [Agents -> {{}, Keys}] /\ \A a \in Seeds : capable[a] = {}
    /\ pass = NoPass
    /\ moves = 0 /\ failures = 0

-----------------------------------------------------------------------------
(* Agents.                                                                 *)

append_todo(a, x) ==
    /\ Len(todos) < MaxTodos
    /\ todos' = Append(todos, [agent |-> a, task |-> x, status |-> "pending"])
    /\ UNCHANGED <<listed, known, file, capable, pass, moves, failures>>

\* UPDATE; a second completion changes only the note.
complete_todo(i) ==
    /\ i \in DOMAIN todos
    /\ todos[i].status = "pending"
    /\ todos' = [todos EXCEPT ![i].status = "done"]
    /\ UNCHANGED <<listed, known, file, capable, pass, moves, failures>>

\* Registry::upsert: capabilities = excluded.capabilities.
upsert(a, caps) ==
    /\ moves < MaxRegistrations /\ moves' = moves + 1
    /\ capable' = [capable EXCEPT ![a] = caps]
    /\ UNCHANGED <<todos, listed, known, file, pass, failures>>

-----------------------------------------------------------------------------
(* A pass.                                                                 *)

\* Mutant of normalise_task: the text is taken as it is.
normalise_task_Raw(x) == x

normalise_task(x) == Normal[x]

open_todos == {i \in DOMAIN todos : todos[i].status # "done"}

\* The loop over the groups that are left; after the last one the file is written.
Proceed(open, top, left) ==
    [pc |-> IF left = {} THEN "file" ELSE "group", open |-> open, top |-> top, left |-> left]

\* The tick: load all open todos, group them by task.
reconcile_todos ==
    /\ pass = NoPass
    /\ pass' = Proceed(open_todos, Len(todos),
                       {normalise_task(todos[i].task) : i \in open_todos})
    /\ UNCHANGED <<todos, listed, known, file, capable, moves, failures>>

\* by_task[k]: the todos that were loaded, not as they are now.
entries(k) == {i \in pass.open : normalise_task(todos[i].task) = k}

\* The owner of the first entry: ORDER BY task, id.
first_owner(k) ==
    LET before(i, j) == \/ Rank[todos[i].task] < Rank[todos[j].task]
                        \/ Rank[todos[i].task] = Rank[todos[j].task] /\ i <= j
    IN  todos[CHOOSE i \in entries(k) : \A j \in entries(k) : before(i, j)].agent

\* Mutant of source_ids: only the first of the merged todos is kept.
source_ids_First(k) == {CHOOSE i \in entries(k) : \A j \in entries(k) : i <= j}

source_ids(k) == entries(k)

\* INSERT ... ON CONFLICT DO NOTHING: the first row of a task stays as it is.
upsert_project_todo(k, s) ==
    IF listed[k] = Absent
    THEN /\ listed' = [listed EXCEPT ![k] =
                [assigned_to |-> first_owner(k), status |-> s, source_todos |-> source_ids(k)]]
         /\ known' = [known EXCEPT ![k] = 1 .. pass.top]
    ELSE UNCHANGED <<listed, known>>

\* A group of several todos.
merge(k) ==
    /\ pass.pc = "group" /\ k \in pass.left
    /\ Cardinality(entries(k)) > 1
    /\ upsert_project_todo(k, "pending")
    /\ pass' = Proceed(pass.open, pass.top, pass.left \ {k})
    /\ UNCHANGED <<todos, file, capable, moves, failures>>

\* A single todo: the capabilities of its agent are read first.
agent_has_capability(k) ==
    /\ pass.pc = "group" /\ k \in pass.left
    /\ Cardinality(entries(k)) = 1
    /\ pass' = [pc |-> "upsert", open |-> pass.open, left |-> pass.left, top |-> pass.top,
                key |-> k,
                status |-> IF k \in capable[first_owner(k)] THEN "pending" ELSE "flagged"]
    /\ UNCHANGED <<todos, listed, known, file, capable, moves, failures>>

\* Mutant of announced: only a task that is new in the table is announced.
announced_New == pass.status = "pending" /\ listed[pass.key] = Absent

\* The agent is told on every pass, whether or not the row was there already.
announced == pass.status = "pending"

\* The row of a single todo, assigned or flagged.
assign ==
    /\ pass.pc = "upsert"
    /\ upsert_project_todo(pass.key, pass.status)
    /\ pass' = IF announced
               THEN [pc |-> "publish", open |-> pass.open, left |-> pass.left,
                     top |-> pass.top, key |-> pass.key]
               ELSE Proceed(pass.open, pass.top, pass.left \ {pass.key})
    /\ UNCHANGED <<todos, file, capable, moves, failures>>

\* publish_task_assigned returns nothing: the pass goes on whatever became of it.
notify ==
    /\ pass.pc = "publish"
    /\ pass' = Proceed(pass.open, pass.top, pass.left \ {pass.key})
    /\ UNCHANGED <<todos, listed, known, file, capable, moves, failures>>

\* Mutant of write_todo_md: flagged tasks are left out.
write_todo_md_Pending ==
    /\ pass.pc = "file"
    /\ file' = {k \in Keys : listed[k] # Absent /\ listed[k].status = "pending"}
    /\ pass' = NoPass
    /\ UNCHANGED <<todos, listed, known, capable, moves, failures>>

\* The file is rewritten from the table, also after a pass that found nothing.
write_todo_md ==
    /\ pass.pc = "file"
    /\ file' = {k \in Keys : listed[k] # Absent}
    /\ pass' = NoPass
    /\ UNCHANGED <<todos, listed, known, capable, moves, failures>>

\* A statement fails, or the file cannot be written: the pass is over.
Fail ==
    /\ failures < MaxFailures
    /\ pass.pc \notin {"idle", "publish"}
    /\ pass' = NoPass
    /\ failures' = failures + 1
    /\ UNCHANGED <<todos, listed, known, file, capable, moves>>

\* The gateway stops and starts: the agents of gateway.toml are registered again,
\* without capabilities.
Restart ==
    /\ failures < MaxFailures
    /\ pass' = NoPass
    /\ capable' = [a \in Agents |-> IF a \in Seeds THEN {} ELSE capable[a]]
    /\ failures' = failures + 1
    /\ UNCHANGED <<todos, listed, known, file, moves>>

-----------------------------------------------------------------------------

\* Duplicates are merged completely, whatever agents write them in which case and
\* whatever changes during the pass: a todo is missing from the sources of its
\* task's row only if it is younger than the pass that wrote the row or was done
\* by then.  Later duplicates are never added (ON CONFLICT DO NOTHING).
LeftOutOnlyLate ==
    \A i \in DOMAIN todos :
        LET k == Normal[todos[i].task]
        IN  listed[k] # Absent /\ i \in known[k] \ listed[k].source_todos =>
                todos[i].status = "done"

\* Every todo gets its task into todo.md unless it is done before: passes that
\* stop early are repeated, and the table never loses a row.
TaskListed ==
    \A i \in Ids :
        (i \in DOMAIN todos) ~>
            (i \in DOMAIN todos /\ (todos[i].status = "done" \/ Normal[todos[i].task] \in file))
=============================================================================
