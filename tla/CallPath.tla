------------------------------ MODULE CallPath ------------------------------
(***************************************************************************)
(* A call from one agent to another: the SDK's GatewayClient::call with    *)
(* its timeout and retries, Call and Stream of local_server.rs, the checks *)
(* of router.rs and the agent registry of registry.rs; and the two entries *)
(* that go around the router, tasks/send of http_server.rs and Delegate of *)
(* peer_server.rs.                                                         *)
(*                                                                         *)
(* An attempt is sent to the gateway, routed, and forwarded to the         *)
(* endpoint that the registry's cache holds for the target.  The caller    *)
(* waits at most its timeout: the forwarded request may still be on its    *)
(* way, or its handler running, when the next attempt is sent.  A handler  *)
(* may make calls of its own through a GatewayClient of its own.           *)
(* An agent registers, which writes the table agents and then the cache,   *)
(* and listens when it has the answer; a restart of the gateway fills the  *)
(* cache from the table and registers the agents of gateway.toml.          *)
(***************************************************************************)
EXTENDS Naturals, Functions

CONSTANTS
    Agents,
    Endpoints,
    Calls,
    Roots,        \* the calls that come from outside, not from a handler
    Tasks,        \* registrations running at the same time
    CallGraph,    \* gateway.toml: the targets of each caller that is listed
    Seeds,        \* gateway.toml: endpoints of the agents that are listed
    Relays,       \* agents written without the SDK: they pass the hop count on
                  \* and serve /invoke and /a2a/stream over HTTP
    MaxHops,
    Retries,
    HopWidth,     \* hop_count is a u32: 2^32
    MaxRegistrations,
    MaxFailures,  \* bound on restarts, failed registrations and failed handlers
    External,     \* the empty caller
    None

ASSUME CallBounds == {MaxHops, Retries, MaxRegistrations, MaxFailures} \subseteq Nat
ASSUME RootsAssumption == Roots \subseteq Calls
ASSUME HopWidthAssumption == HopWidth \in Nat /\ HopWidth > MaxHops + 1
ASSUME SeedsAssumption == DOMAIN Seeds \subseteq Agents /\ Range(Seeds) \subseteq Endpoints
ASSUME NoneAssumption == None \notin Endpoints /\ External \notin Agents

VARIABLES
    table,      \* agents.endpoint, None without a row
    cache,      \* the DashMap of Registry
    serving,    \* the endpoint an agent listens on, None while it does not run
    upsert,     \* registrations in progress
    moves,      \* registrations so far
    call,       \* the callers' state
    net,        \* forwarded requests that have not reached their agent
    handler,    \* requests that agents are working on
    runs,       \* history: runs[c], how often a handler was started for c
    failures

vars == <<table, cache, serving, upsert, moves, call, net, handler, runs, failures>>
registry == <<table, cache, serving, upsert, moves>>

Idle == [pc |-> "idle"]
Unused == [pc |-> "unused"]

\* Streams and direct calls, which go around the router, are neither timed nor
\* retried.  depth and relayed are history: the length of the chain of calls that
\* led here, and whether its hop count has been passed on at every link.
CallState ==
    {Unused} \cup
    [pc : {"send", "wait", "ok", "refused", "failed"}, caller : Agents \cup {External},
     target : Agents, hop : Nat, attempt : 1 .. Retries + 1, depth : Nat, relayed : BOOLEAN,
     kind : {"call", "stream", "direct"}]

Request == [call : Calls, attempt : 1 .. Retries + 1, hop : Nat, endpoint : Endpoints]

TypeOK ==
    /\ table \in [Agents -> Endpoints \cup {None}]
    /\ cache \in [Agents -> Endpoints \cup {None}]
    /\ serving \in [Agents -> Endpoints \cup {None}]
    /\ upsert \in [Tasks -> {Idle} \cup [pc : {"insert", "cache", "serve"}, agent : Agents,
                                         endpoint : Endpoints]]
    /\ moves \in 0 .. MaxRegistrations
    /\ call \in [Calls -> CallState]
    /\ net \subseteq Request /\ handler \subseteq Request
    /\ runs \in [Calls -> Nat]
    /\ failures \in 0 .. MaxFailures

Seeded(endpoints) ==
    [a \in Agents |-> IF a \in DOMAIN Seeds THEN Seeds[a] ELSE endpoints[a]]

\* The first start of the gateway, on an empty database, with the agents of
\* gateway.toml in their places.
Init ==
    /\ table = Seeded([a \in Agents |-> None])
    /\ cache = table
    /\ serving = table
    /\ upsert = [t \in Tasks |-> Idle]
    /\ moves = 0
    /\ call = [c \in Calls |-> Unused]
    /\ net = {} /\ handler = {}
    /\ runs = [c \in Calls |-> 0]
    /\ failures = 0

-----------------------------------------------------------------------------
(* The registry.                                                           *)

\* An agent that no longer listens starts again, for endpoint e, and registers it.
register(t, a, e) ==
    /\ upsert[t] = Idle
    /\ moves < MaxRegistrations /\ moves' = moves + 1
    /\ serving[a] # e
    /\ serving' = [serving EXCEPT ![a] = None]
    /\ upsert' = [upsert EXCEPT ![t] = [pc |-> "insert", agent |-> a, endpoint |-> e]]
    /\ UNCHANGED <<table, cache, call, net, handler, runs, failures>>

\* Mutant of upsert_insert: the row is not written.
upsert_insert_Skipped(t) ==
    /\ upsert[t].pc = "insert"
    /\ upsert' = [upsert EXCEPT ![t].pc = "cache"]
    /\ UNCHANGED <<table, cache, serving, moves, call, net, handler, runs, failures>>

\* upsert: INSERT ... ON CONFLICT (name) DO UPDATE, and the memories row.
upsert_insert(t) ==
    /\ upsert[t].pc = "insert"
    /\ table' = [table EXCEPT ![upsert[t].agent] = upsert[t].endpoint]
    /\ upsert' = [upsert EXCEPT ![t].pc = "cache"]
    /\ UNCHANGED <<cache, serving, moves, call, net, handler, runs, failures>>

\* upsert: the entry of the cache.
upsert_cache(t) ==
    /\ upsert[t].pc = "cache"
    /\ cache' = [cache EXCEPT ![upsert[t].agent] = upsert[t].endpoint]
    /\ upsert' = [upsert EXCEPT ![t].pc = "serve"]
    /\ UNCHANGED <<table, serving, moves, call, net, handler, runs, failures>>

\* Agent::serve: the answer has come, the agent listens.
serve(t) ==
    /\ upsert[t].pc = "serve"
    /\ serving' = [serving EXCEPT ![upsert[t].agent] = upsert[t].endpoint]
    /\ upsert' = [upsert EXCEPT ![t] = Idle]
    /\ UNCHANGED <<table, cache, moves, call, net, handler, runs, failures>>

\* A statement of the registration, or its answer, fails: serve returns.
RegisterFails(t) ==
    /\ failures < MaxFailures
    /\ upsert[t] # Idle
    /\ upsert' = [upsert EXCEPT ![t] = Idle]
    /\ failures' = failures + 1
    /\ UNCHANGED <<table, cache, serving, moves, call, net, handler, runs>>

-----------------------------------------------------------------------------
(* The caller.                                                             *)

NewCall(c, kind, from, to, h, d, r) ==
    /\ call[c] = Unused
    /\ call' = [call EXCEPT ![c] =
           [pc |-> "send", caller |-> from, target |-> to, hop |-> h, attempt |-> 1,
            depth |-> d, relayed |-> r, kind |-> kind]]
    /\ UNCHANGED <<registry, net, handler, runs, failures>>

\* A call from outside.
call_external(c, to) == c \in Roots /\ NewCall(c, "call", External, to, 0, 1, TRUE)

\* to_call_request: hop_count is 0 in a request made by the SDK.
hop_count(me, m) == IF me \in Relays THEN m.hop ELSE 0

\* A handler calls on.
Nested(c, kind, m, to) ==
    LET parent == call[m.call]
        me     == parent.target
    IN  /\ m \in handler /\ c \notin Roots
        /\ NewCall(c, kind, me, to, hop_count(me, m), parent.depth + 1,
                   parent.relayed /\ parent.kind = "call" /\ me \in Relays)

call_nested(c, m, to) == Nested(c, "call", m, to)

\* GatewayClient::stream: one attempt.
stream_nested(c, m, to) == Nested(c, "stream", m, to)

\* Mutant of retried: one attempt more.
retried_OnceMore(r) ==
    IF r.kind = "call" /\ r.attempt <= Retries + 1
    THEN [r EXCEPT !.pc = "send", !.attempt = @ + 1]
    ELSE [r EXCEPT !.pc = "failed"]

\* Mutant of retried: the attempts are not counted.
retried_Uncounted(r) ==
    IF r.kind = "call" /\ r.attempt <= Retries
    THEN [r EXCEPT !.pc = "send"]
    ELSE [r EXCEPT !.pc = "failed"]

\* After Unavailable or DeadlineExceeded: attempt <= opts.retries.
retried(r) ==
    IF r.kind = "call" /\ r.attempt <= Retries
    THEN [r EXCEPT !.pc = "send", !.attempt = @ + 1]
    ELSE [r EXCEPT !.pc = "failed"]

\* The caller still waits for the answer to request m.
Awaits(m) == call[m.call].pc = "wait" /\ call[m.call].attempt = m.attempt

\* The gateway answers Unavailable to request m.
Unavailable(m) ==
    call' = IF Awaits(m) THEN [call EXCEPT ![m.call] = retried(@)] ELSE call

\* The caller's timeout; the request stays where it is.  tonic reports it as
\* DeadlineExceeded or, by version, as Cancelled, which is_retryable leaves out.
timeout(c) ==
    /\ call[c].pc = "wait" /\ call[c].kind = "call"
    /\ \E r \in {retried(call[c]), [call[c] EXCEPT !.pc = "failed"]} :
           call' = [call EXCEPT ![c] = r]
    /\ UNCHANGED <<registry, net, handler, runs, failures>>

-----------------------------------------------------------------------------
(* The gateway.                                                            *)

is_allowed(from, to) ==
    IF from \in DOMAIN CallGraph
    THEN to \in CallGraph[from]
    ELSE from = External

\* Mutant of next_hop: the gateway leaves the count to the caller.
next_hop_Trusted(h) == h

next_hop(h) == (h + 1) % HopWidth

\* The hop count of the request that reaches the agent; Stream posts method,
\* payload and trace id only.
forwarded_hop(kind, hops) == IF kind = "stream" THEN 0 ELSE hops

\* route: a refusal is final for the SDK; otherwise the request is forwarded.
route(c) ==
    LET r    == call[c]
        hops == next_hop(r.hop)
    IN  /\ r.pc = "send"
        /\ IF hops > MaxHops \/ ~is_allowed(r.caller, r.target) \/ cache[r.target] = None
           THEN /\ call' = [call EXCEPT ![c].pc = "refused"]
                /\ UNCHANGED net
           ELSE /\ call' = [call EXCEPT ![c].pc = "wait"]
                /\ net' = net \cup {[call |-> c, attempt |-> r.attempt,
                                     hop |-> forwarded_hop(r.kind, hops),
                                     endpoint |-> cache[r.target]]}
        /\ UNCHANGED <<registry, handler, runs, failures>>

\* A request that is forwarded without the router: neither the call graph nor the
\* hop limit is looked at, and the hop count stops here.
DirectCall(c, to) ==
    LET known == cache[to] # None
    IN  /\ c \in Roots /\ call[c] = Unused
        /\ call' = [call EXCEPT ![c] =
               [pc |-> IF known THEN "wait" ELSE "refused", caller |-> External, target |-> to,
                hop |-> 0, attempt |-> 1, depth |-> 1, relayed |-> FALSE, kind |-> "direct"]]
        /\ net' = IF known
                  THEN net \cup {[call |-> c, attempt |-> 1, hop |-> 0, endpoint |-> cache[to]]}
                  ELSE net
        /\ UNCHANGED <<registry, handler, runs, failures>>

\* jsonrpc_dispatch: tasks/send.
tasks_send(c, to) == DirectCall(c, to)

\* Delegate, from a peer gateway.
delegate(c, to) == DirectCall(c, to)

\* Somebody at the endpoint of request m takes it: POST needs an agent that
\* serves HTTP, AgentService only has gRPC.
Reachable(m) ==
    /\ serving[call[m.call].target] = m.endpoint
    /\ call[m.call].kind = "call" \/ call[m.call].target \in Relays

\* connect fails: nobody listens at the endpoint, or not for this request.
unreachable(m) ==
    /\ m \in net
    /\ ~Reachable(m)
    /\ net' = net \ {m}
    /\ Unavailable(m)
    /\ UNCHANGED <<registry, handler, runs, failures>>

\* The gateway stops and starts: reload_from_db, then the seeds.  Callers lose
\* their connection, registrations in progress end.
Restart ==
    /\ failures < MaxFailures
    /\ table' = Seeded(table)
    /\ cache' = Seeded(table)
    /\ upsert' = [t \in Tasks |-> Idle]
    /\ call' = [c \in Calls |-> IF call[c].pc = "wait" THEN retried(call[c]) ELSE call[c]]
    /\ failures' = failures + 1
    /\ UNCHANGED <<serving, moves, net, handler, runs>>

-----------------------------------------------------------------------------
(* The agent that is called (AgentService::call).                          *)

deliver(m) ==
    /\ m \in net
    /\ Reachable(m)
    /\ net' = net \ {m}
    /\ handler' = handler \cup {m}
    /\ runs' = [runs EXCEPT ![m.call] = @ + 1]
    /\ UNCHANGED <<registry, call, failures>>

reply(m) ==
    /\ m \in handler
    /\ handler' = handler \ {m}
    /\ call' = IF Awaits(m) THEN [call EXCEPT ![m.call].pc = "ok"] ELSE call
    /\ UNCHANGED <<registry, net, runs, failures>>

\* The handler returns an error, which Call turns into Unavailable; the status of
\* an answer to POST is not looked at.
handler_error(m) ==
    /\ failures < MaxFailures
    /\ m \in handler
    /\ handler' = handler \ {m}
    /\ IF call[m.call].kind = "call"
       THEN Unavailable(m)
       ELSE call' = IF Awaits(m) THEN [call EXCEPT ![m.call].pc = "ok"] ELSE call
    /\ failures' = failures + 1
    /\ UNCHANGED <<registry, net, runs>>

-----------------------------------------------------------------------------

Next ==
    \/ \E t \in Tasks, a \in Agents, e \in Endpoints : register(t, a, e)
    \/ \E t \in Tasks : upsert_insert(t)
    \/ \E t \in Tasks : upsert_cache(t)
    \/ \E t \in Tasks : serve(t)
    \/ \E t \in Tasks : RegisterFails(t)
    \/ \E c \in Calls, to \in Agents : call_external(c, to)
    \/ \E c \in Calls, m \in handler, to \in Agents : call_nested(c, m, to)
    \/ \E c \in Calls, m \in handler, to \in Agents : stream_nested(c, m, to)
    \/ \E c \in Calls, to \in Agents : tasks_send(c, to)
    \/ \E c \in Calls, to \in Agents : delegate(c, to)
    \/ \E c \in Calls : route(c)
    \/ \E c \in Calls : timeout(c)
    \/ \E m \in net : unreachable(m)
    \/ \E m \in net : deliver(m)
    \/ \E m \in handler : reply(m)
    \/ \E m \in handler : handler_error(m)
    \/ Restart

Spec == Init /\ [][Next]_vars

\* The gateway routes what it receives and a timeout fires; nothing is assumed of
\* the agents.
FairSpec == Spec /\ \A c \in Calls : WF_vars(route(c) \/ timeout(c))

-----------------------------------------------------------------------------

\* A call runs at most once per attempt, retries + 1 times in all, also when late
\* requests arrive after their timeout and through restarts of the gateway; a
\* stream, and a call that goes around the router, run at most once.
RunsBounded ==
    \A c \in Calls : call[c] # Unused =>
        runs[c] <= IF call[c].kind = "call" THEN Retries + 1 ELSE 1

\* A call that is refused (NotFound, NotPermitted, HopLimitExceeded) has not run
\* and will not, not even by an earlier attempt: an agent that was once found
\* stays in the registry, because its row is written before its cache entry.
RefusedNeverRan ==
    \A c \in Calls : call[c].pc = "refused" =>
        runs[c] = 0 /\ \A m \in net : m.call # c

\* The hop limit bounds a chain of calls as long as the hop count is passed on at
\* each of its links.
ChainBounded ==
    \A c \in Calls : call[c].pc \in {"wait", "ok"} /\ call[c].relayed =>
        call[c].depth <= MaxHops

\* Every call of the SDK ends, whatever agents and gateway do.
CallEnds ==
    \A c \in Calls :
        (call[c].pc \in {"send", "wait"} /\ call[c].kind = "call")
            ~> call[c].pc \in {"ok", "refused", "failed"}
=============================================================================
