# TLA+ models of Tools-A2A

Tools-A2A connects agents through gateways. Each gateway is one process
(`crates/a2a-gateway`) with a PostgreSQL database and a folder of content-addressed
objects. Agents register with their gateway and call each other through it; people
use its web dashboard; gateways exchange task logs, file snapshots and memberships
with the peers listed in `gateway.toml`.

This directory models the parts of the gateway, and of the SDK and the command line
where they take part, whose correctness depends on the
order in which things happen, checks them with TLC on small instances, and proves
the main invariants with TLAPS for every size. Paths below are relative to
`crates/a2a-gateway/src/` unless they start with `crates/` or `agents/`.

## Inventory

| Component | State | Operations | Hard behaviour | What makes it correct |
|---|---|---|---|---|
| Task log (`task_log.rs`) | table `task_log`, a cursor per entry | `append_with_status`, `insert_peer_entry`, `since`, `head_cursor`; the dashboard's polling reader | `MAX(cursor)+1` under READ COMMITTED, peer entries that keep foreign cursors | cursors follow real time, no gap, readers lose nothing they could have seen, append only |
| Contribution proposals (`contributions.rs`) | `contribution_proposals`, `contribution_votes` | `open`, `cast_vote`, `accept_pr`, `reject_pr` | check-then-act over several statements, unconditional `UPDATE`s, concurrent voters and reviewers | a decision is backed by a majority, a vote is immutable, a decision stays, a majority decides |
| Groups and invites (`groups.rs`) | `groups`, `group_members`, `invites` | `create_group`, `create_invite`, `consume_invite` | one token held by many callers, clock read before the statement, two statements per call | a token admits once, members are entitled, a consumed token admits its gateway unless a call ended early or the gateway was in already |
| Peer log replication (`peer_sync.rs`, `peer_server.rs`) | `task_log` at each gateway, `peer_cursor_state` | `sync_round`, `sync_project`, `sync_task_log`, `insert_peer_entry` | appends in flight during a pull, one cursor space for local and foreign entries, two queries per answer, aborted rounds, swallowed errors | it implements a replicated log: entries come unchanged from their author; no holes but those of overlapping appends; everything arrives that is not overtaken |
| Object store (`object_store.rs`) | files under `data/objects`, table `objects` | `put`, `get`, `exists`, `missing` | truncating writes, concurrent writers of one hash, crash between file and row | a row means the content is there; objects are immutable |
| File sync (`file_sync.rs`, `object_store.rs`, `peer_sync.rs`) | `snapshots`, `project_heads`, objects, the project folder | `scan_and_snapshot`, `apply_peer_snapshot`, `advance_head`, `fetch_snapshot`, `fetch_object`, `compute_diff` | edits during a scan, id shared by projects, failure between two writes, missing objects computed by the wrong side | snapshots can be restored, the head belongs to its project, heads follow, a diff leads from one snapshot to the other |
| Project registry (`projects.rs`) and onboarding (`onboarding.rs`, `context_builder.rs`) | `projects`, pending prompts in memory | `create`, `set_visibility`, `set_folder_path`, `start`, `answer`, `context_ready` | the client's step is not compared with the stored one, read-check-write of visibility, prompts lost on restart | levels change by one step, onboarding reaches its end |
| Agent registry and routing (`registry.rs`, `router.rs`, `local_server.rs`, `crates/a2a-sdk/src/client.rs`) | table `agents` and an in-memory cache | `upsert`, `heartbeat`, `reload`, `route`, `call`, the SDK's retries | cache behind the table, retry of a call that was executed, hop counting | a call is bounded, registered agents are found |
| Reconciler and identity (`reconciler.rs`, `identity.rs`) | `todos`, `project_todos`, `memories`, the file `todo.md` | `run_once`, `append_todo`, `complete_todo`, `set_soul`, `append_memory` | todos change while a pass works on the ones it loaded, rows are written once, passes stop half way | duplicates are merged completely, every task is listed |
| Message buses and hooks (`pulsar_bus.rs`, `nats_bus.rs`, `crates/a2a-sdk/src/hooks.rs`) | the bus chosen at start, a subscription in each agent's process | `connect`, `publish_task_assigned`, `spawn_hook_subscriber`, `dispatch_event` | two brokers and one kind of listener, messages that are lost or come before the subscription, stops between row and message | an agent that can do its task and listens is told |
| Memory facts (`memory_service.rs`) | `memory_facts` | `store`, `recall`, `recall_all`, `expire` | clocks read before the statements that use them, a second `expire` over the first | expired facts stay out, a capped answer has the newer facts |
| LXC lifecycle (`lxc.rs`, `web/mod.rs`, `crates/a2a-cli`) | containers of an external host | `from_config`, `list`, `spawn`, `start`, `stop` | an id chosen from a list read before that shows one node only, a clone that outlasts the sleep or is given up, ids written as strings | a spawn starts its own container, a failed one has a cause |
| Web dashboard, HTTP and gRPC servers (`web/`, `http_server.rs`, `peer_server.rs`) | none of their own | handlers that call the components above | handlers run concurrently and can be dropped | modelled as the callers of the components |
| Authentication between gateways, configuration, sidecar, protocol definitions, demo agents; most of the start-up code and the CLI | — | — | — | not modelled |

`PROJECT.json` lists the components with their status, the hazards at their lines,
and the line ranges every definition models.

## How components interact

Handlers of the dashboard and the gRPC servers are Tokio tasks of one process. They
share a pool of 20 connections (`db.rs`), every `.await` on the pool is one statement
with its own implicit transaction at READ COMMITTED, and no code path opens a
longer transaction. All models therefore use the same scheme: *a call is a task
whose local state (`pc` and the values it has read) says which statement comes
next*; one statement is one action; every other task may run between two of them.
A task can end between statements, because a statement fails, because the client
disconnects and the future is dropped, or because the gateway stops; these are
the actions `Fail`, `Abort`, `Crash` and their like, bounded by `MaxFailures` or a bound of the module.

The peer loop (`PeerSyncCoordinator::spawn`) is one task per gateway; the RPCs it
makes are statements executed at the other gateway. The reconciler is another loop; its
messages reach agents that run in processes of their own, through a broker that is
outside the repository. `TaskHooks` composes the two: an action is one of `Reconciler`, one
of `EventBus`, or both where the code does both in one step.

## Modules

| Module | Models | Notes |
|---|---|---|
| `LogEntries` | the queries of `task_log.rs` | operators only, shared by the next two |
| `TaskLog` | one gateway's log and a polling reader | an append is two actions: the subquery reads what is committed, the row appears at commit |
| `Contributions` | proposals, votes, reviews | one action per statement of `cast_vote`, `accept_pr`, `reject_pr` |
| `Groups` | groups, members, invites, the clock | the clock is read before the statement it is used in |
| `PeerLogSync` | replication between gateways | an append is the two actions it is in `TaskLog`; appends of a gateway overlap each other and its pulls |
| `LogReplication` | no code: what replication promises | `PeerLogSync` implements it under the mapping `held`, `writing` |
| `ObjectStore` | files and rows of objects | `fs::write` is a truncation and a completion |
| `Transcripts` | transcripts, `parse_transcript`, `compute_diff`, `required_objects` | operators only; a transcript is a function from paths to entries |
| `FileSync` | scans, snapshots, heads, pulls | extends `Transcripts`; `put` is one step here, its inside is `ObjectStore` |
| `Projects` | project rows, onboarding, prompts, the dashboard's form | a call is the sequence of statements it still has to execute |
| `CallPath` | agents calling agents: SDK, gateway, registry; calls that go around the router | a forwarded request is a message that outlives its caller's timeout; an agent listens after it has registered |
| `Reconciler` | todos, the passes over them, `project_todos`, `todo.md` | a pass keeps the todos it loaded; each of its statements is an action |
| `EventBus` | the way of a `task_assigned` event to a callback | the gateway chooses Pulsar, NATS or nothing when it starts; NATS forgets what nobody hears |
| `TaskHooks` | `Reconciler` and `EventBus` together | a pass publishes, a starting agent registers and subscribes, a starting gateway connects |
| `MemoryFacts` | `memory_facts` and its four operations | the clock and the statement are two steps |
| `Containers` | `spawn` and `stop` against a Proxmox host | a request is one step; clones and shutdowns go on after their answers; the host refuses ids in use, also those the list does not show, and containers that are not stopped |
| `MC...` | the TLC instances of each | |
| `...Proofs` | theorems | |

Data is abstracted to what the properties tell apart: an entry is its id, project,
author and cursor; a signature is the project id it covers; a file's content is its
hash; an agent's entry is its endpoint or, for the reconciler, the tasks that mention one of its capabilities; a page is the set of prompts it has shown; a
snapshot id is the transcript it is the digest of (equal ids iff equal
transcripts); a group's name is its id. Definitions named `X_Something` are mutated
forms of `X`: a plausible mistake in the code that a property must notice. They are
used by no specification.

## Runs

| Run | Question | Result |
|---|---|---|
| `TaskLogConcurrent` | two writers, two projects, peer entries, a poller | cursors follow real time, no gaps, the poller misses only appends in flight and peers' entries delivered late |
| `ContributionsConcurrent` | three voters or reviewers in three tasks, one of which may end early | decisions backed by majorities; voted decisions final, all others once no handler is under way; majorities and accepting reviews reach a decision |
| `GroupsConcurrent` | two groups, gateways, tokens and calls; expiry; one call ends early | single use, memberships earned, each token or membership lost has a call behind it that ended early or joined a group it was in |
| `LogSyncRelay` | two writers whose appends overlap, of which one pulls, and a mirror, with an aborted session or crash and a swallowed insert | implements `LogReplication`; the mirror lacks only entries whose append overlapped one it holds; every entry arrives unless it is overtaken |
| `ObjectStoreConcurrent` | three puts of two contents, two failures or crashes | rows promise whole content except for overlapping puts with failures |
| `FileSyncChain` | a gateway that edits and scans two projects, two that pull along a chain | snapshots restorable where they were made, quiet scans exact, folders get their row and head unless another project has the tree, heads follow |
| `ProjectsOnboarding` | two calls on one project, an answer from an old page, a call that ends early, a restart | no step without its folder or task, the user is asked until onboarding ends, it ends, a public project was a group's before |
| `CallPathChain` | a call from the SDK, HTTP or a peer and a call or stream from its handler, an agent that moves, timeouts, late deliveries, a restart or failure | at most one execution per attempt, none of a refused call, relayed hop counts bound the chain, every call of the SDK ends |
| `TaskHooksDelivery` | two agents write one task in two spellings and another task, complete, register, listen and stop while passes run and publish; a pass, a message or the gateway is lost | merged rows name every duplicate the pass could know, every task gets into `todo.md` unless it is done before, the agent of an assigned task is told |
| `MemoryFactsConcurrent` | two calls at a time on facts of two agents while the clock runs; a statement fails | expired facts stay out, capped answers keep the newer facts, up to the overlaps that the two properties name |
| `ContainersRacing` | three spawns that race with each other and another user of the host, an id taken outside the list, slow and abandoned clones, lost answers, the dashboard and the CLI with and without a token | a spawn starts the container it cloned, a failure has a cause |
| `FileSyncNoObjects` | can a pulled snapshot be restored? | violated |

### Bounds

Two of each kind of actor are the least at which every race named in the hazards
can occur; three are taken where a third party matters (a majority of three, a
relay of three gateways, a put that overlaps two others). `MaxTime = 2` with
`TTL = 1` lets a token be used before, at and after its expiry. `PeerCursors =
{1, 3}` lets a peer's entry repeat a local cursor and jump over the next one.
`GatewayCounts = {0, 2, 3}` has both sides of the threshold `> 2` and the count of a
project without registered agents. `MaxEdits = 2` gives a folder that changes during
a scan and one that returns to an earlier state. One failure per run (two in
`ObjectStore`, where a second crash must meet the remains of the first) is
enough to interrupt a call at any of its statements. `MaxRequests = 2` and `MaxStale = 1` let an
agent be asked twice and an old page answer once, which suffices to move a project
backwards at each step and to open it again at the end. `CallPath` has one call from
outside and one nested in its handler, `MaxHops = 1` so that the nested one is over the
limit, `Retries = 1` so that a late attempt and a new one coexist, one agent that is
seeded and one that only registers, one that relays its hop count and one that uses
the SDK; `HopWidth` stands for 2^32 and only has to exceed the limit. `TaskHooks` has two
todos, the least that can be duplicates of each other, of one task in two spellings or of two
tasks, one registration and one pass, message or gateway that is lost; one of the agents
has a hook. `MemoryFacts` has two facts and a limit of one, so that an answer must leave
one out, and a clock of three instants, so that a fact can be expired, expired again and
recalled at times of their own. `Containers` has three spawns, so that two can race while a third
takes the id of an abandoned clone; 200 is 2, `Elsewhere = {3}` puts an id that the list does not
show among those the spawns choose, and the largest id leaves room for all of
them and one of another user. `PeerLogSync` has two entries, the least that can overlap: both of one
writer, so that one can be pulled before the other commits, or one of each. `Parsable` is one of the two paths of `FileSync`: the other has a
separator in its name. The runs with
unlimited sets of handlers reuse task slots, so the number of calls over time is not bounded by the
number of tasks. Deadlock is checked for
`TaskHooks`, whose loop never ends, and for `MemoryFacts`, whose calls can always be made. It is not for the others: they stop when ids, proposals or
tokens, which stand for inputs from outside, are used up.

### Fairness

`Contributions`: weak fairness of a started handler's statements, because Tokio polls
a ready future until it completes. Nothing is assumed of the users. `PeerLogSync`: weak
fairness of each gateway's loop, which never returns, and of the creation of the
project. `FileSync`: weak fairness of started scans and pulls; strong fairness of
starting the pull of each configured peer and project, because the round visits all
of them in turn, and of starting a scan, an assumption on its caller, which the
repository leaves to the embedding program. `Projects`: weak fairness of a started
call's statements and of the page's polling (htmx repeats it); strong fairness of the
user answering the prompt that is current, with a value the handler accepts, and of
an agent that received a request calling back: both are outside the repository, and
`OnboardingEnds` says what the gateway contributes if they do their part. `CallPath`:
weak fairness of routing and of the caller's timeout, which `set_timeout` arms for every
attempt; nothing is assumed of agents, network or registrations. `TaskHooks`: weak fairness
of the loop of `Reconciler::spawn`, which ticks for ever and goes on after an error, and of
the loop of a subscription, which takes every message that is there; starting agents,
subscribing and connecting are not assumed to happen. Failures are never assumed to
happen or not to happen; where a liveness property needs their absence it says so.

### Refinement

`LogReplication` has two variables, the entries each gateway holds and the ones it is writing. A
gateway starts to write an entry, with the cursor after the highest it holds then, finishes it or gives it up,
any number at a time, or gets an entry from the gateway that wrote it.
`PeerLogSync` maps to it by `held` and `writing`, which forget the local project id, the signature and the history
of a row; loops, sessions, cursors, failures and crashes become stuttering steps. The run
checks the abstract specification as a property, and `PeerLogSyncProofs` proves it.

## Where documents and code disagree

* **Pulled snapshots lack their objects** (`FileSyncNoObjects`). `fetch_snapshot`
  computes `missing_objects` from the *serving* gateway's store, so the puller fetches
  what the peer does not have and nothing of what it needs.

Other disagreements, visible in the models but not runs of their own:

* `task_log.rs:178` calls the cursor an "Atomic cursor increment". `MAX(cursor)+1` is
  evaluated on committed rows and nothing makes `(project_id, cursor)` unique: two
  overlapping appends share a cursor. The reader that asks `cursor > after` can then pass an
  entry that commits late, or one that a peer delivers late under its old cursor. `MissedOnlyLate` says these are the only ways, and
  `SerialLogIsExact` that without them cursors are unique. A gateway that pulls passes entries in the same way:
  an append that commits after the pull, at or below the head the pull took, is never asked for
  (`PassedInFlight` in `MirrorIsPrefix` and `EntriesArrive`).
* The repository's `README.md:333` says that entries are "replicated across all three gateways". The
  puller asks a peer for entries above the head of its *own* log. A gateway that has
  written more than its peer never asks for the peer's entries: `Overtaken` in
  `EntriesArrive`. `peer_cursor_state`, made for this, is written and never read.
* `groups.rs:186` says that `consume_invite` "validates, marks used, adds the joining gateway as a member". The `UPDATE`
  does not ask whether the gateway is a member already; if it is, the `INSERT` fails on the primary key
  after the token is spent, and nobody is admitted (`conflicts` in `LossesHaveCause`).
* `file_sync.rs:75` says that a scan writes a snapshot row. The id is the hash of the transcript and the whole key of the table,
  and a scan that finds it returns early: a second project with the same tree gets neither row nor
  head (`OthersTree`), and a folder that returns to an earlier tree keeps the later head (`HeadOnce`).
* The state machine in the header of `contributions.rs` has no arrow out of `accepted` and
  `rejected`; `resolve` is an `UPDATE` without a condition on the status, so of two
  concurrent reviews that both passed the check the later one wins. For decisions by
  vote finality holds under a condition (`VotedDecisionFinal`), for the others once no
  handler is under way (`SettledStays`).
* `router.rs:64` reads an empty caller as "external (HTTP :7242)" and checks it against the
  call graph; `tasks/send` (`http_server.rs:165`) and `Delegate` (`peer_server.rs:109`) look the agent up and post to it
  without asking the router, and `Delegate` drops the hop count. Both, and `stream`
  (`local_server.rs:171`), need an agent that serves HTTP: agents of the SDK have gRPC only.
* The header of `reconciler.rs` ends a pass with "Write updated project_todos". The row of
  a task is written once (`ON CONFLICT DO NOTHING`): completed todos, later duplicates
  and capabilities gained later never reach it, and `task_assigned` is published again
  on every pass. A restart registers the agents of `gateway.toml` without
  capabilities, so that a task that is first seen before they register again is flagged for good.
* `crates/a2a-sdk/src/convert.rs:42` sends hop count 0 with the comment "gateway always
  overwrites this"; `router.rs:55` increments the received value. The limit therefore does
  not bound a chain of agents that use the SDK; `ChainBounded` holds for chains whose
  agents relay the count.
* `local_server.rs:156` turns every error of a handler into `Unavailable`, which the SDK
  retries. A call whose handler fails deterministically runs `retries + 1` times.
  `circuit_breaker_threshold` of `options.rs` is read nowhere.
* `projects.rs:48` lets visibility "move exactly one level" and `projects.rs:194` requires the
  project to be idle; both are checked on a row read earlier, so that concurrent calls
  can move it by two levels or while it is active. What remains is `PublicWasGroup`.
* The header of `onboarding.rs` is a chain of steps; `answer` trusts the step in the form.
  An old page moves the project back, and one that answers the last question again
  after a restart or next to another call can leave it without a prompt
  (`Disturbed` names these cases).
* With `PULSAR_URL` set and Pulsar reachable the gateway publishes to Pulsar only; the hooks of the SDK
  listen on NATS only, so no callback is ever called (`bus = "nats"` in `Assignable`). A
  comment in `hooks.rs` calls the subscriber's task supervised; `catch_unwind` is around the whole loop,
  so a callback that panics still ends the subscription, with a line in the log. Only an assigned task is announced: one
  that is merged or flagged is not.
* `memory_service.rs` excludes "expired facts"; a second `expire` overwrites `valid_to` with a later
  time, and a recall that read its clock in between finds the fact valid again (`ExpiredStaysOut`).
* `lxc.rs:125` chooses `max(existing_vmids) + 1`. The list is that of the containers of one node, and ids are shared with
  virtual machines and other nodes, so that the id can be taken (`hidden`); ids that the host writes as strings count as 0, so
  that every spawn tries 200 (`FailsWithCause`). The command line sends no token, so
  `a2a lxc` is refused as soon as `A2A_WEB_TOKEN` is set.
* A file whose path contains `|` or a line break is in the transcript and the snapshot id, and is
  dropped when the transcript is read back (`Parsable`): diffs and pulls do not see it. (A line break
  followed by what looks like a line of a transcript would be read as another file; the model leaves such names out.)
* At each start `main.rs:68` writes the endpoints of `gateway.toml` over what the agents have
  registered; calls to an agent that moved then fail until it registers again.

Other limits are stated inside the properties, as the condition under which they
hold: a vote can flip when more voters exist than gateways were counted
(`VotedDecisionFinal`); a handler that ends between its two `UPDATE`s leaves
`pr_accepted` behind (`DecisionReached`); a call that ends between the `UPDATE` of the
invite and the `INSERT` of the member burns the token and leaves its gateway outside (`LossesHaveCause`); an insert
error swallowed by `.ok()` is a permanent hole (`MirrorIsPrefix`, `EntriesArrive`);
a put that fails while another put of the same content is under way can leave a row
over a truncated file (`StoredWhole`, `WholeAtRest`); a scan of a folder
that changes can record a tree that never existed (`QuietScanExact`); a failure
between the `INSERT` of a snapshot and `advance_head` leaves the head behind for
good, because the next attempt finds the id in the table (`HeadFollows`).

## Proofs

All proofs are checked by TLAPS with no assumption but the `ASSUME`s of the modules,
which only type the constants (and say that the placeholder values differ from
real ones, that writers are gateways, and that the events of the bus are the ids of todos). They
hold for any number of writers, voters, tokens, tasks, gateways, peerings, agents, folders and
containers. Every safety invariant and every action property of the passing runs is a
theorem. Where a property is not inductive, the invariant
below is what has to be added to it, and why.

* **`TaskLogProofs`.** `LogInv` adds to `TypeOK` that ids identify rows across
  `rows` and `inflight`, that the history field `before` names committed rows of the
  same project whose cursors are smaller, and that the cursor below an in-flight
  append is taken; it is needed because `RealTimeOrder` and `NoGapBelowAppend` speak of
  committed rows only and a commit must find the facts established when the
  statement began. `PollInv` adds that the poller's position is the cursor of an entry it was sent,
  which gives `MissedOnlyLate`. `SerialLogIsExact` shows what the duplicate cursors
  cost: if appends never overlap and no peer entry arrives, cursors are unique and
  the poller misses nothing.
* **`ContributionsProofs`.** `ProposalInv`: a pending `resolve` of a voted proposal
  already has its majority (votes are never withdrawn, so it still has it when the
  `UPDATE` runs), and a reviewing task only exists for a proposal in review mode. Two
  majorities for opposite kinds would need more voters than gateways were counted;
  counting disjoint finite sets gives `VotedDecisionsAreFinal`.
  `VotesStay` is the step this rests on: no statement changes a recorded vote.
  `DecisionsSettle` is about one step: a handler that starts on a decided proposal ends at its
  check, so only one that had passed the check before could still write.
* **`GroupsProofs`.** `InviteInv`: tokens identify invites; every membership and every
  pending `add_member` carries the token it came from; that invite is used, by this
  gateway and for this group; no two of them carry the same token. `ConsumptionStays` adds that the record of
  who used a token is never overwritten. `LossesHaveCause` compares
  cardinalities with the number of calls that ended early and of inserts that the key refused. `LossInv`
  is this with a simpler set for `ShutOut` (`LostInvites`: the call of the token is gone and its gateway is no member), and with finite
  tables, without which cardinalities say nothing. A call in progress counts for its own token only, so each early end adds
  at most one to either count, and a refusal by the key, which needs a member, one to the second.
* **`PeerLogSyncProofs`.** `SyncInv` adds to `TypeOK` that a gateway stores every row under its own
  project (so that its head is the maximum of all its rows), that this maximum exists
  (`HeadsExist`: `SUBSET Row` alone does not say that a log is finite), that a session has a
  configured peer as long as it lasts (`InTurn`), and that the entries it still has to insert
  are rows of that peer (`Served`), which holds because no gateway loses rows. `GatewayStep`
  shows once what all actions have in common. The refinement then needs two facts: an append that
  starts is above every cursor held then, and an accepted entry is one its author holds.
  For `MirrorIsPrefix`, `RowsInv` says that an id fixes author, cursor, signature and history wherever
  it is held (`IdsFixRows`), that an author signs its rows for its own project and holds every row that
  others have of it (`OwnSignature`, `Provenance`), that what an `INSERT` saw was committed at its author and has smaller
  cursors (`SeenCommitted`, `AboveSeen`), and that appends in flight are their gateway's own and nobody has
  their ids yet (`OwnAppends`, `FreshAppends`). On top of it `NoHole` says that a mirror has everything its peer wrote up to its own
  head but what it passed (`Passed`), asks from there, and during a session lacks only what it still has to insert, what it
  passed, or what was committed after it asked and no entry left to insert has seen (`Unseen`). The order of the inserts is
  what keeps this true, and `AboveSeen` what makes a late commit an overlap.
* **`FileSyncProofs`.** About the operators, for all trees: applying a diff gives the contents of the new
  transcript, the objects it requires suffice and none is superfluous, and it is empty iff
  the contents are equal. All three are about what can be read back. About the engine: `FileInv`
  says that what a scan has read so far is in the store, and equals the folder unless the folder
  was edited; that a scan goes past reading only with nothing left; and that whatever a head or
  a pull names has its row.
* **`CallPathProofs`.** `PathInv` counts: the runs of a call and its requests still on their way are
  together no more than the attempts that `route` let pass. A call that was let pass once is let
  pass again, because neither its hop count, the call graph nor the presence of an agent in
  the cache changes for the worse, and a restart reads the cache from a table that has the row
  (`RegistryInv`); so a refusal can only come at the first attempt, when nothing has
  been sent. Where an agent relays the count it is one less than the depth.
* **`ProjectsProofs`.** A call is a suffix of one of the sequences in `Plans`, so that its next statement says
  what it has already done. `EarlyInv` says what each step, page, request and pending
  statement stands on (a folder, a task, a group), which survives overlaps, stale pages and the
  restart because none of these is ever taken back; it gives `StepsEarned` and `PublicWasGroup`.
  `AskInv` follows the one call of an undisturbed project: the question of the current step is
  open, or the call will ask it, or an agent has been asked.
* **`ServiceProofs`** has the four smaller services, each with a specification of its own
  (`StoreSpec`, `ContainerSpec`, `MemorySpec`, and `Spec` of `TaskHooks`).
  * `ObjectStore`: `StoreInv`: on a content whose puts never overlapped at most one put works, its
    file is whole before its `INSERT`, and once the row exists nobody is about to truncate the
    file. `RestInv`, for overlapping puts: while nothing has failed, a partial file has a writer.
  * `Containers`: `SpawnInv`: the id a call is about to clone to is free unless its list was stale, had
    no numeric ids or did not show the id's owner (`NewIdIsFree`: the maximum exists, and one more is neither below the minimum nor
    an id of the node's containers); from the answer
    of the clone on, the container has this call as its maker until the host gives it up, and
    nobody else starts it.
  * `MemoryFacts`: `MemoryInv`: no time in the table, or read by a call, is later than the clock; a store has
    seen no younger fact; what a recall noted as expired has a `valid_to` not above the time it
    read, unless it was expired again. `LeftOutForNewer` then squeezes the two times together.
    `RoomLeft` counts the stores that have begun, without which the bound on the table is not
    inductive.
  * `TaskHooks`: `HookInv`: of the todos that were there when a pass began, the ones it did not load are
    done (and stay so); every group left has a todo, so `first_owner`, the least by
    collation and id, exists and names an agent.

Only model-checked: the liveness properties (`DecisionReached`, `EntriesArrive`, `FolderStored`,
`HeadFollows`, `OnboardingEnds`, `CallEnds`, `TaskListed`, `AgentTold`), because fairness and `ENABLED`
are beyond what TLAPS checks here; and the run that is violated, which is a counterexample.

## Not modelled

* JWT authentication between gateways, configuration parsing, error classes, most of the command
  line, the sidecar, the protocol definitions and the demo agents: adapters, pure
  functions or generated code without state of their own.
* `heartbeat` only writes `last_seen`. An agent's soul is one `UPDATE` that nothing modelled reads.
  `append_memory` names `content_md` without its table in `ON CONFLICT DO UPDATE`, which PostgreSQL
  rejects as ambiguous between the row and the excluded one, so what it does when a
  memory exists is an error and not the concatenation that was meant; it is left out.
* The events `snapshot`, `task_log`, `online` and `agent_snapshot` of the buses are published by
  nothing, and `subscribe_task_assigned` is called by nothing.
* `matches_glob`: a pure function on characters.
* `group_projects` and `agent_projects`: insert-only mappings. `ContributionStore::open` gets the number of
  gateways of a project from its caller; the composition of `Groups` with `Contributions` through
  `gateway_count` is not modelled, the count is any of `GatewayCounts`.
* Push notifications, wording of prompts, timestamps other than the invite's expiry.
* `OnboardingManager::start`, `context_ready`, `ProjectStore::set_visibility` and `set_active`,
  `scan_and_snapshot`, `diff_against_head`, `required_objects` and all of `MemoryService` have no caller outside tests; they are modelled as calls of the
  embedding program at any time their documentation allows. `take_prompt` has none
  either and is left out: it would remove a prompt that nothing emits again.
* Other users of the Proxmox host create containers; that they start, stop or remove the ones a spawn
  made is not modelled. A shutdown ends with the container stopped, or running if it did not stop in the host's time.
* `onboarding.rs:232` dispatches the context build in a task of its own; `dispatch` is kept as the last statement of the
  call that spawns it, which nothing waits for, and its failure, which the code only logs, is a call that ends early there.
* tonic's report of an expired timeout depends on its version (`DeadlineExceeded` or
  `Cancelled`, of which the SDK retries the first); `timeout` allows both.

## Plan

Done: the persistent core (task log, proposals, invites), replication of logs with its abstract
specification and of files, objects, projects with onboarding, the call path, the reconciler with
the events it publishes, memory facts and containers; proofs of all safety
properties of the passing runs and of the refinement.

Next, in this order:

1. Proofs of facts no run states: that the head of a project moves only to snapshots of
   that project, that todos and rows of `project_todos` are append-only, that a known agent stays
   in the table.
2. An atomic token that `Groups` implements, with its refinement mapping.
3. `Groups` with `Contributions`: `gateway_count` read while members join.
4. The other half of pulling files: reads of objects that are being written.
