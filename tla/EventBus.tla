------------------------------ MODULE EventBus ------------------------------
(***************************************************************************)
(* The way of a task_assigned event from the gateway to a callback of an   *)
(* agent: EventBus of pulsar_bus.rs, NatsBus of nats_bus.rs and the hook   *)
(* subscriber of hooks.rs in the SDK.                                      *)
(*                                                                         *)
(* The gateway chooses its bus once, when it starts.  An agent subscribes  *)
(* to its NATS subject once, after it has registered, and has no hooks     *)
(* until it is started again if NATS cannot be reached then.  NATS hands a *)
(* message to the subscribers of the moment and forgets it.                *)
(***************************************************************************)
EXTENDS Naturals

CONSTANTS
    HookAgents,   \* agents built with on_task_assigned
    Events        \* task_assigned events, named by their todo_id

VARIABLES
    bus,          \* the bus the gateway connected to
    hook,         \* hook[a]: "off", "starting" in spawn_hook_subscriber, or "on"
    inbox,        \* inbox[a]: messages of a's subscription that are not dispatched yet
    told          \* history: the events callbacks were called with

busVars == <<bus, hook, inbox, told>>

BusTypeOK ==
    /\ bus \in {"pulsar", "nats", "none"}
    /\ hook \in [HookAgents -> {"off", "starting", "on"}]
    /\ inbox \in [HookAgents -> SUBSET Events]
    /\ told \subseteq Events

-----------------------------------------------------------------------------
(* The gateway.                                                            *)

\* PulsarBus::connect and NatsBus::connect answer None if their server is away.
PulsarBus_connect(reachable) == reachable
NatsBus_connect(reachable) == reachable

\* EventBus::connect: PULSAR_URL is set or not, each server is there or not.
connect(pulsar_url, pulsar_up, nats_up) ==
    IF pulsar_url /\ PulsarBus_connect(pulsar_up) THEN "pulsar"
    ELSE IF NatsBus_connect(nats_up) THEN "nats" ELSE "none"

Buses == {connect(url, p, n) : url, p, n \in BOOLEAN}

BusInit ==
    /\ bus \in Buses
    /\ hook = [a \in HookAgents |-> "off"]
    /\ inbox = [a \in HookAgents |-> {}]
    /\ told = {}

\* main.rs connects again, perhaps to another bus.
GatewayRestarts ==
    /\ bus' \in Buses
    /\ UNCHANGED <<hook, inbox, told>>

\* PulsarBus::publish_task_assigned: the event is appended to the agent's topic,
\* or the failure is logged.  The topic has no reader: subscribe_task_assigned is
\* called nowhere.
pulsar_send(a, e) == UNCHANGED inbox

\* NatsBus::publish_task_assigned, on the subject of the agent.
nats_publish(a, e) ==
    inbox' = [b \in HookAgents |->
                  IF b = a /\ hook[b] = "on" THEN inbox[b] \cup {e} ELSE inbox[b]]

publish_task_assigned(a, e) ==
    /\ \/ bus = "pulsar" /\ pulsar_send(a, e)
       \/ bus = "nats" /\ nats_publish(a, e)
       \/ bus = "none" /\ UNCHANGED inbox
    /\ UNCHANGED <<bus, hook, told>>

-----------------------------------------------------------------------------
(* The agent.                                                              *)

\* Agent::serve, after register: the subscriber is spawned.
serve(a) ==
    /\ hook' = IF a \in HookAgents THEN [hook EXCEPT ![a] = "starting"] ELSE hook
    /\ inbox' = IF a \in HookAgents THEN [inbox EXCEPT ![a] = {}] ELSE inbox
    /\ UNCHANGED <<bus, told>>

\* spawn_hook_subscriber connects and subscribes, or gives up: NATS is not
\* available, or the subscription fails and is skipped.
spawn_hook_subscriber(a) ==
    /\ hook[a] = "starting"
    /\ \E reached \in BOOLEAN : hook' = [hook EXCEPT ![a] = IF reached THEN "on" ELSE "off"]
    /\ UNCHANGED <<bus, inbox, told>>

\* The callback; its error is only logged.
dispatch_event(a, e) ==
    /\ e \in inbox[a]
    /\ inbox' = [inbox EXCEPT ![a] = @ \ {e}]
    /\ told' = told \cup {e}
    /\ UNCHANGED <<bus, hook>>

\* A message does not arrive: the connection broke or the subscriber was too slow.
MessageLost(a, e) ==
    /\ e \in inbox[a]
    /\ inbox' = [inbox EXCEPT ![a] = @ \ {e}]
    /\ UNCHANGED <<bus, hook, told>>

\* The process of the agent ends, or a callback panics: catch_unwind is around the
\* whole loop, so the subscription is over in both cases.
SubscriberExits(a) ==
    /\ hook[a] # "off"
    /\ hook' = [hook EXCEPT ![a] = "off"]
    /\ inbox' = [inbox EXCEPT ![a] = {}]
    /\ UNCHANGED <<bus, told>>
=============================================================================
