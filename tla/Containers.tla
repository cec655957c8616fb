----------------------------- MODULE Containers -----------------------------
(***************************************************************************)
(* The container lifecycle of lxc.rs, as the dashboard and the CLI use it, *)
(* against a Proxmox host.                                                 *)
(*                                                                         *)
(* spawn is a sequence of requests: list the containers, clone the         *)
(* template under the next free id, sleep, start it.  Each request is      *)
(* answered in one step; the clone goes on at the host after its answer.   *)
(* Other spawns, stops and other users of the host come in between.  Of    *)
(* the host the model has what its answers depend on: it refuses to clone  *)
(* to an id in use and to start a container that is not stopped.  An id is *)
(* in use in the whole cluster: the list shows the containers of one node, *)
(* and neither its virtual machines nor what other nodes have.             *)
(***************************************************************************)
EXTENDS Naturals, FiniteSets, FiniteSetsExt

CONSTANTS
    Spawns,       \* calls of spawn
    FirstVmid,    \* 200 in the code
    LastVmid,     \* bound on ids
    Existing,     \* containers of the node at the start, the template among them
    Elsewhere,    \* ids that may belong to a virtual machine or another node
    Nobody,       \* made by no call of spawn
    MaxFaults,    \* bound on failures of the host or the connection
    MaxOthers     \* bound on containers made by other users

Vmids == 0 .. LastVmid

ASSUME VmidAssumption ==
    /\ FirstVmid \in Vmids /\ LastVmid \in Nat
    /\ Existing \subseteq Vmids /\ Elsewhere \subseteq Vmids
ASSUME ContainerBounds == MaxFaults \in Nat /\ MaxOthers \in Nat
ASSUME NobodyAssumption == Nobody \notin Spawns

VARIABLES
    lxc,       \* the gateway has an LxcClient
    web_token, \* the dashboard asks for A2A_WEB_TOKEN
    ct,        \* ct[v]: what has id v, in which state
    numeric,   \* the host writes ids as JSON numbers, not as strings
    maker,     \* history: maker[v], the call that had v cloned
    spawn,     \* local state of the calls
    raced,     \* history: calls during which another container was made
    late,      \* history: calls that came to start before the clone was done
    dropped,   \* history: calls whose clone the host gave up
    broken,    \* history: calls with a request that failed
    refused,   \* history: calls the dashboard refused
    hidden,    \* history: calls that chose an id in use where the list does not look
    faults,
    others

hostVars == <<ct, maker, dropped>>
configVars == <<lxc, web_token, numeric>>
containerVars == <<configVars, hostVars, spawn, raced, late, broken, refused, hidden,
                   faults, others>>

\* "elsewhere": a virtual machine of the node, or anything of another node.
HostStates == {"none", "elsewhere", "cloning", "stopped", "running", "stopping"}

\* "max(existing_vmids) + 1, minimum 200".
SpawnState ==
    [pc : {"new", "failed"}]
    \cup [pc : {"clone", "start", "ok"}, vmid : FirstVmid .. LastVmid]

ContainerTypeOK ==
    /\ ct \in [Vmids -> HostStates]
    /\ {lxc, web_token, numeric} \subseteq BOOLEAN
    /\ maker \in [Vmids -> Spawns \cup {Nobody}]
    /\ spawn \in [Spawns -> SpawnState]
    /\ {raced, late, dropped, broken, refused, hidden} \subseteq SUBSET Spawns
    /\ faults \in 0 .. MaxFaults
    /\ others \in 0 .. MaxOthers

\* from_config: a section [lxc] in gateway.toml and A2A_PROXMOX_TOKEN; without
\* them the client is left out.
from_config(section, token) == section /\ token

ContainerInit ==
    /\ lxc \in {from_config(section, token) : section, token \in BOOLEAN}
    /\ web_token \in BOOLEAN
    /\ \E taken \in SUBSET Elsewhere :
           ct = [v \in Vmids |-> CASE v \in Existing -> "stopped"
                                   [] v \in taken \ Existing -> "elsewhere"
                                   [] OTHER -> "none"]
    /\ numeric \in BOOLEAN
    /\ maker = [v \in Vmids |-> Nobody]
    /\ spawn = [s \in Spawns |-> [pc |-> "new"]]
    /\ raced = {} /\ late = {} /\ dropped = {} /\ broken = {} /\ refused = {} /\ hidden = {}
    /\ faults = 0 /\ others = 0

\* The containers of the node.
Listed == {v \in Vmids : ct[v] \notin {"none", "elsewhere"}}
Active == {s \in Spawns : spawn[s].pc \in {"clone", "start"}}
SpawnGoto(s, next) == spawn' = [spawn EXCEPT ![s] = next]
Failed(s) == SpawnGoto(s, [pc |-> "failed"])
Fault == faults < MaxFaults /\ faults' = faults + 1
Breaks(s) == Fault /\ broken' = broken \cup {s}

-----------------------------------------------------------------------------
(* The dashboard.                                                          *)

\* What the request of a browser or a script carries.
Tokens == {"right", "wrong"}

\* auth_middleware: the header or the query parameter has the token, if one is set.
auth_middleware(tok) == ~web_token \/ tok = "right"

\* lxc_client: NotFound without a client.
lxc_client == lxc

Admitted(tok) == auth_middleware(tok) /\ lxc_client

-----------------------------------------------------------------------------
(* LxcClient.                                                              *)

\* list: GET /nodes/{node}/lxc; as_u64().unwrap_or(0) makes 0 of an id that is
\* a string.
list == {IF numeric THEN v ELSE 0 : v \in Listed}

\* Mutant of new_vmid: the largest id itself.
new_vmid_NoIncrement(ids) == IF ids = {} THEN FirstVmid ELSE Max({FirstVmid, Max(ids)})

\* Mutant of new_vmid: the minimum is forgotten.
new_vmid_NoMinimum(ids) == IF ids = {} THEN FirstVmid ELSE Max(ids) + 1

\* max().map(|m| m + 1).unwrap_or(200).max(200)
new_vmid(ids) == IF ids = {} THEN FirstVmid ELSE Max({FirstVmid, Max(ids) + 1})

\* spawn lists the containers first.
spawn_list(s) ==
    /\ new_vmid(list) <= LastVmid
    /\ SpawnGoto(s, [pc |-> "clone", vmid |-> new_vmid(list)])
    /\ hidden' = IF ct[new_vmid(list)] = "elsewhere" THEN hidden \cup {s} ELSE hidden
    /\ UNCHANGED refused

\* POST /lxc/spawn.
lxc_spawn(s, tok) ==
    /\ spawn[s].pc = "new"
    /\ \/ Admitted(tok) /\ spawn_list(s)
       \/ ~Admitted(tok) /\ Failed(s) /\ refused' = refused \cup {s} /\ UNCHANGED hidden
    /\ UNCHANGED <<configVars, hostVars, raced, late, faults, others, broken>>

\* The host gives out an id; calls under way have company.
Create(s, v, state) ==
    /\ ct[v] = "none"
    /\ ct' = [ct EXCEPT ![v] = state]
    /\ maker' = [maker EXCEPT ![v] = s]
    /\ raced' = raced \cup (Active \ {s})
    /\ UNCHANGED dropped

\* Mutant of clone: the status of the answer is not looked at.
clone_AnyStatus(s) ==
    /\ spawn[s].pc = "clone"
    /\ \/ Create(s, spawn[s].vmid, "cloning")
       \/ ct[spawn[s].vmid] # "none" /\ UNCHANGED <<hostVars, raced>>
    /\ SpawnGoto(s, [spawn[s] EXCEPT !.pc = "start"])
    /\ UNCHANGED <<configVars, late, faults, others, broken, refused, hidden>>

clone(s) ==
    /\ spawn[s].pc = "clone"
    /\ \/ Create(s, spawn[s].vmid, "cloning") /\ SpawnGoto(s, [spawn[s] EXCEPT !.pc = "start"])
       \/ ct[spawn[s].vmid] # "none" /\ Failed(s) /\ UNCHANGED <<hostVars, raced>>
    /\ UNCHANGED <<configVars, late, faults, others, broken, refused, hidden>>

\* start, three seconds later: the clone is done by then, or it is not.
start(s) ==
    /\ spawn[s].pc = "start"
    /\ LET v == spawn[s].vmid
       IN  \/ /\ ct[v] = "stopped"
              /\ ct' = [ct EXCEPT ![v] = "running"]
              /\ SpawnGoto(s, [pc |-> "ok", vmid |-> v])
              /\ UNCHANGED <<maker, dropped, late>>
           \/ /\ ct[v] # "stopped"
              /\ Failed(s)
              /\ late' = IF ct[v] = "cloning" THEN late \cup {s} ELSE late
              /\ UNCHANGED hostVars
    /\ UNCHANGED <<configVars, raced, faults, others, broken, refused, hidden>>

\* stop asks for a shutdown and does not wait for it; if the host refuses,
\* because the container does not run, that is only logged.
stop(v) ==
    /\ ct[v] = "running"
    /\ ct' = [ct EXCEPT ![v] = "stopping"]
    /\ UNCHANGED <<configVars, maker, dropped, spawn, raced, late, faults, others, broken, refused, hidden>>

\* POST /lxc/:vmid/stop.
lxc_stop(v, tok) == Admitted(tok) /\ stop(v)

\* "a2a lxc": the same requests, and never with a token.
cmd_lxc_spawn(s) == lxc_spawn(s, "none")
cmd_lxc_stop(v) == lxc_stop(v, "none")

\* A request fails before the host acts on it: the call ends with the error and
\* leaves what it made so far.
RequestFails(s) ==
    /\ Breaks(s)
    /\ spawn[s].pc \in {"new", "clone", "start"}
    /\ Failed(s)
    /\ UNCHANGED <<configVars, hostVars, raced, late, others, refused, hidden>>

\* The host clones, but its answer is lost.
AnswerLost(s) ==
    /\ Breaks(s)
    /\ spawn[s].pc = "clone"
    /\ Create(s, spawn[s].vmid, "cloning")
    /\ Failed(s)
    /\ UNCHANGED <<configVars, late, others, refused, hidden>>

-----------------------------------------------------------------------------
(* The host.                                                               *)

clone_done(v) ==
    /\ ct[v] = "cloning"
    /\ ct' = [ct EXCEPT ![v] = "stopped"]
    /\ UNCHANGED <<configVars, maker, dropped, spawn, raced, late, faults, others, broken, refused, hidden>>

\* The clone fails at the host, after it was accepted, and is removed.
clone_dropped(v) ==
    /\ Fault
    /\ ct[v] = "cloning"
    /\ ct' = [ct EXCEPT ![v] = "none"]
    /\ dropped' = dropped \cup ({maker[v]} \cap Spawns)
    /\ maker' = [maker EXCEPT ![v] = Nobody]
    /\ UNCHANGED <<configVars, spawn, raced, late, others, broken, refused, hidden>>

\* The container has shut down, or did not within the host's time.
shutdown_ends(v) ==
    /\ ct[v] = "stopping"
    /\ \E state \in {"stopped", "running"} : ct' = [ct EXCEPT ![v] = state]
    /\ UNCHANGED <<configVars, maker, dropped, spawn, raced, late, faults, others, broken, refused, hidden>>

\* Another user makes a container, or something the list does not show.
OtherCreates(v) ==
    /\ others < MaxOthers /\ others' = others + 1
    /\ v > 0
    /\ \E state \in {"cloning", "elsewhere"} : Create(Nobody, v, state)
    /\ UNCHANGED <<configVars, spawn, late, faults, broken, refused, hidden>>

ContainerNext ==
    \/ \E s \in Spawns, tok \in Tokens : lxc_spawn(s, tok)
    \/ \E s \in Spawns : cmd_lxc_spawn(s)
    \/ \E s \in Spawns : clone(s)
    \/ \E s \in Spawns : start(s)
    \/ \E v \in Vmids, tok \in Tokens : lxc_stop(v, tok)
    \/ \E v \in Vmids : cmd_lxc_stop(v)
    \/ \E s \in Spawns : RequestFails(s)
    \/ \E s \in Spawns : AnswerLost(s)
    \/ \E v \in Vmids : clone_done(v)
    \/ \E v \in Vmids : clone_dropped(v)
    \/ \E v \in Vmids : shutdown_ends(v)
    \/ \E v \in Vmids : OtherCreates(v)

ContainerSpec == ContainerInit /\ [][ContainerNext]_containerVars

-----------------------------------------------------------------------------

\* "Clone the agent template and start the new container": the container that a
\* successful spawn names is the one it had cloned, whoever chose the same id from
\* the same list; so no two spawns that succeed share one.  The host refuses the
\* second clone, and the call stops there.  It fails only where the host gave up
\* the clone it had accepted and another call took the id before the start.
OwnContainer ==
    \A s \in Spawns : spawn[s].pc = "ok" =>
        maker[spawn[s].vmid] = s \/ s \in dropped

\* A spawn fails only for cause: another container was made while it ran, its
\* clone was not done after the sleep, one of its own requests failed, a clone
\* was given up (its own, or that of a call that then starts its container in its
\* place), or the dashboard refused it.  "max(existing_vmids) + 1" is not always
\* free, with two more causes: the host writes its ids as strings, which the list
\* turns into zeros; or the id belongs to a virtual machine or another node, which
\* the list does not show.
FailsWithCause ==
    \A s \in Spawns : spawn[s].pc = "failed" =>
        s \in raced \cup late \cup broken \cup refused \cup hidden \/ dropped # {} \/ ~numeric
=============================================================================
