----------------------------- MODULE TaskHooks ------------------------------
(***************************************************************************)
(* The reconciler and the event bus together: from a todo that an agent    *)
(* appends, over the row of project_todos and the message, to the callback *)
(* in the process of the agent.                                            *)
(*                                                                         *)
(* Each action is one of Reconciler, one of EventBus, or both where the    *)
(* code does both in one step: a pass publishes, a starting agent          *)
(* registers, a starting gateway connects to its bus.                      *)
(***************************************************************************)
EXTENDS Reconciler, EventBus

\* An event carries the id of its todo.
ASSUME EventsAssumption == Events = Ids
ASSUME HookAgentsAssumption == HookAgents \subseteq Agents

vars == <<reconcilerVars, busVars>>

TypeOK == ReconcilerTypeOK /\ BusTypeOK

Init == ReconcilerInit /\ BusInit

\* reconciler.rs: the event names the owner and the id of the only entry.
PublishAssignment ==
    /\ notify
    /\ \E i \in entries(pass.key) : publish_task_assigned(todos[i].agent, i)

\* Agent::serve, or a client without hooks that registers.
Register(a, caps) == upsert(a, caps) /\ serve(a)

LoseMessage(a, e) ==
    /\ failures < MaxFailures /\ failures' = failures + 1
    /\ MessageLost(a, e)
    /\ UNCHANGED <<todos, listed, known, file, capable, pass, moves>>

StartGateway == Restart /\ GatewayRestarts

\* A pass without its last part, the message.
PassStep ==
    \/ reconcile_todos \/ assign \/ write_todo_md
    \/ \E k \in Keys : merge(k) \/ agent_has_capability(k)

Next ==
    \/ \E w \in Work : append_todo(w[1], w[2]) /\ UNCHANGED busVars
    \/ \E i \in DOMAIN todos : complete_todo(i) /\ UNCHANGED busVars
    \/ \E a \in Agents, caps \in {{}, Keys} : Register(a, caps)
    \/ PassStep /\ UNCHANGED busVars
    \/ PublishAssignment
    \/ Fail /\ UNCHANGED busVars
    \/ StartGateway
    \/ \E a \in HookAgents : spawn_hook_subscriber(a) /\ UNCHANGED reconcilerVars
    \/ \E a \in HookAgents, e \in Events : dispatch_event(a, e) /\ UNCHANGED reconcilerVars
    \/ \E a \in HookAgents, e \in Events : LoseMessage(a, e)
    \/ \E a \in HookAgents : SubscriberExits(a) /\ UNCHANGED reconcilerVars

Spec == Init /\ [][Next]_vars

\* The loop of Reconciler::spawn never returns, nor does the loop over the
\* messages of a subscription while the agent runs.
FairSpec ==
    /\ Spec
    /\ WF_vars((PassStep /\ UNCHANGED busVars) \/ PublishAssignment)
    /\ \A a \in HookAgents, e \in Events :
           WF_vars(dispatch_event(a, e) /\ UNCHANGED reconcilerVars)

-----------------------------------------------------------------------------

\* The todo is the only open one of its task, its agent can do it, listens, and
\* the gateway publishes where it listens.
Assignable(i) ==
    /\ i \in open_todos
    /\ \A j \in open_todos : Normal[todos[j].task] = Normal[todos[i].task] => j = i
    /\ Normal[todos[i].task] \in capable[todos[i].agent]
    /\ bus = "nats"
    /\ todos[i].agent \in HookAgents /\ hook[todos[i].agent] = "on"

\* "The reconciler assigns a task -> on_task_assigned": the agent is told of its
\* task while this stays so, although NATS keeps nothing for an agent that
\* subscribes late, messages are lost and the gateway may stop between the row and
\* the message: every pass announces the task again, not only the one that wrote
\* its row.
AgentTold == \A i \in Ids : Assignable(i) ~> (i \in told \/ ~Assignable(i))
=============================================================================
