------------------------------ MODULE Groups ------------------------------
(***************************************************************************)
(* Groups, members and invite tokens: groups.rs, called by join_group in   *)
(* peer_server.rs.  Every SQL statement commits on its own; calls run      *)
(* concurrently and may end early between two statements (a failed         *)
(* statement, a dropped request, a crash of the gateway).                  *)
(*                                                                         *)
(*   create_group     INSERT group; add_member(creator)                    *)
(*   consume_invite   read the clock; UPDATE invites ... RETURNING;        *)
(*                    add_member(joining gateway)                          *)
(***************************************************************************)
EXTENDS Integers, FiniteSets

CONSTANTS
    GroupIds,
    Gateways,
    Tokens,
    Tasks,        \* calls running at the same time
    TTL,          \* INVITE_TTL_SECS, in clock ticks
    MaxTime,      \* bound on the clock
    MaxFailures   \* bound on calls that end early

ASSUME TTLAssumption == TTL \in Nat \ {0}
ASSUME BoundsAssumption == MaxTime \in Nat /\ MaxFailures \in Nat

VARIABLES
    clock,
    groups,     \* rows of groups: [id, created_by]
    members,    \* rows of group_members: [group, gateway], and in `via` the
                \* token (or the creation) that led to the row, as history
    invites,    \* rows of invites: [token, group, expires_at, used_at, used_by]
    task,       \* the calls' local state
    failures,   \* calls that ended early
    conflicts   \* INSERTs of add_member that failed on the primary key, as history

vars == <<clock, groups, members, invites, task, failures, conflicts>>

Unused   == "unused"    \* used_at IS NULL, used_by IS NULL
Creation == "creation"  \* via of a creator's membership
Idle     == [pc |-> "idle"]

ASSUME NamesAssumption == Unused \notin Gateways /\ Creation \notin Tokens

Group  == [id : GroupIds, created_by : Gateways]
Member == [group : GroupIds, gateway : Gateways, via : Tokens \cup {Creation}]
Invite == [token : Tokens, group : GroupIds, expires_at : Nat,
           used_at : Nat \cup {-1}, used_by : Gateways \cup {Unused}]

TaskState ==
    {Idle}
    \cup [pc : {"update_invite"}, token : Tokens, gateway : Gateways, now : Nat]
    \cup [pc : {"add_member"}, group : GroupIds, gateway : Gateways,
          via : Tokens \cup {Creation}]

TypeOK ==
    /\ clock \in Nat
    /\ groups \subseteq Group
    /\ members \subseteq Member
    /\ invites \subseteq Invite
    /\ task \in [Tasks -> TaskState]
    /\ failures \in Nat
    /\ conflicts \in Nat

Init ==
    /\ clock = 0
    /\ groups = {}
    /\ members = {}
    /\ invites = {}
    /\ task = [t \in Tasks |-> Idle]
    /\ failures = 0
    /\ conflicts = 0

Goto(t, next) == task' = [task EXCEPT ![t] = next]
IsMember(g, x) == \E m \in members : m.group = g /\ m.gateway = x

-----------------------------------------------------------------------------

Tick ==
    /\ clock < MaxTime
    /\ clock' = clock + 1
    /\ UNCHANGED <<groups, members, invites, task, failures, conflicts>>

\* create_group: the INSERT.  groups.name is UNIQUE; a name is its id here.
create_group(t, g, x) ==
    /\ task[t] = Idle
    /\ \A r \in groups : r.id # g
    /\ groups' = groups \cup {[id |-> g, created_by |-> x]}
    /\ Goto(t, [pc |-> "add_member", group |-> g, gateway |-> x, via |-> Creation])
    /\ UNCHANGED <<clock, members, invites, failures, conflicts>>

\* create_invite: a fresh token for an existing group (foreign key).  The clock
\* was read at some time now, before the INSERT.
create_invite(k, g, now) ==
    /\ \E r \in groups : r.id = g
    /\ \A i \in invites : i.token # k
    /\ invites' = invites \cup {[token |-> k, group |-> g, expires_at |-> now + TTL,
                                 used_at |-> -1, used_by |-> Unused]}
    /\ UNCHANGED <<clock, groups, members, task, failures, conflicts>>

\* consume_invite: now_secs() is read before the statement is sent.
consume_invite_begin(t, k, x) ==
    /\ task[t] = Idle
    /\ Goto(t, [pc |-> "update_invite", token |-> k, gateway |-> x, now |-> clock])
    /\ UNCHANGED <<clock, groups, members, invites, failures, conflicts>>

\* Mutant of Consumable: the expiry bound is forgotten.
Consumable_NoExpiry(i, k, now) == i.token = k /\ i.used_by = Unused

\* Mutant of Consumable: a used token is accepted again.
Consumable_Reusable(i, k, now) == i.token = k /\ i.expires_at > now

\* WHERE token = $3 AND used_at IS NULL AND expires_at > $4.
Consumable(i, k, now) == i.token = k /\ i.used_by = Unused /\ i.expires_at > now

\* SET used_at = $1, used_by = $2.
Used(i, x, now) ==
    [token |-> i.token, group |-> i.group, expires_at |-> i.expires_at,
     used_at |-> now, used_by |-> x]

\* Mutant of consume_invite_update: the call returns after the UPDATE.
consume_invite_update_NoMember(t) ==
    /\ task[t].pc = "update_invite"
    /\ \E i \in invites :
           /\ Consumable(i, task[t].token, task[t].now)
           /\ invites' = (invites \ {i}) \cup {Used(i, task[t].gateway, task[t].now)}
    /\ Goto(t, Idle)
    /\ UNCHANGED <<clock, groups, members, failures, conflicts>>

\* consume_invite: the UPDATE ... RETURNING finds and marks the invite.
consume_invite_update(t) ==
    /\ task[t].pc = "update_invite"
    /\ \E i \in invites :
           /\ Consumable(i, task[t].token, task[t].now)
           /\ invites' = (invites \ {i}) \cup {Used(i, task[t].gateway, task[t].now)}
           /\ Goto(t, [pc |-> "add_member", group |-> i.group,
                       gateway |-> task[t].gateway, via |-> i.token])
    /\ UNCHANGED <<clock, groups, members, failures, conflicts>>

\* The UPDATE matches no row: "invite token is expired or already used".
consume_invite_refused(t) ==
    /\ task[t].pc = "update_invite"
    /\ \A i \in invites : ~Consumable(i, task[t].token, task[t].now)
    /\ Goto(t, Idle)
    /\ UNCHANGED <<clock, groups, members, invites, failures, conflicts>>

\* add_member: a plain INSERT, which the primary key (group_id, gateway_name)
\* makes fail for a gateway that is a member already.
add_member(t) ==
    /\ task[t].pc = "add_member"
    /\ \/ /\ ~IsMember(task[t].group, task[t].gateway)
          /\ members' = members \cup {[group |-> task[t].group, gateway |-> task[t].gateway,
                                      via |-> task[t].via]}
          /\ UNCHANGED conflicts
       \/ /\ IsMember(task[t].group, task[t].gateway)
          /\ conflicts' = conflicts + 1
          /\ UNCHANGED members
    /\ Goto(t, Idle)
    /\ UNCHANGED <<clock, groups, invites, failures>>

\* The call ends before its next statement.
Fail(t) ==
    /\ failures < MaxFailures
    /\ task[t] # Idle
    /\ Goto(t, Idle)
    /\ failures' = failures + 1
    /\ UNCHANGED <<clock, groups, members, invites, conflicts>>

Next ==
    \/ Tick
    \/ \E t \in Tasks, g \in GroupIds, x \in Gateways : create_group(t, g, x)
    \/ \E k \in Tokens, g \in GroupIds, now \in 0 .. clock : create_invite(k, g, now)
    \/ \E t \in Tasks, k \in Tokens, x \in Gateways : consume_invite_begin(t, k, x)
    \/ \E t \in Tasks : consume_invite_update(t)
    \/ \E t \in Tasks : consume_invite_refused(t)
    \/ \E t \in Tasks : add_member(t)
    \/ \E t \in Tasks : Fail(t)

Spec == Init /\ [][Next]_vars

-----------------------------------------------------------------------------

\* A token admits at most one gateway, to at most one group, although the
\* UPDATE that consumes it and the INSERT of the member are separate and many
\* calls may hold the same token ("subsequent uses are rejected").
SingleUse ==
    \A m, n \in members : m.via = n.via /\ m.via # Creation => m = n

\* Nobody is a member without cause: a member created its group or is on record
\* as the gateway that used an invite to that group, before it expired.
MembershipEarned ==
    \A m \in members :
        \/ m.via = Creation /\ [id |-> m.group, created_by |-> m.gateway] \in groups
        \/ \E i \in invites : /\ i.token = m.via
                              /\ i.group = m.group
                              /\ i.used_by = m.gateway
                              /\ i.used_at < i.expires_at

\* The record of who used a token is never rewritten.
ConsumptionImmutable ==
    [][\A i \in invites : i.used_by # Unused => i \in invites']_vars

\* The row that cause v entitles gateway x to is still to come: the call that
\* UPDATEd the invite, or INSERTed the group, has its add_member ahead.
CallOf(v, g, x) ==
    \E t \in Tasks : /\ task[t].pc = "add_member"
                     /\ task[t].via = v
                     /\ task[t].group = g /\ task[t].gateway = x

\* Tokens that were spent and admitted nobody, those of them whose user is not a
\* member by any other cause either, and groups without their creator.
BurntInvites ==
    {i \in invites : /\ i.used_by # Unused
                     /\ \A m \in members : m.via # i.token
                     /\ ~CallOf(i.token, i.group, i.used_by)}
ShutOut == {i \in BurntInvites : ~IsMember(i.group, i.used_by)}
OrphanGroups ==
    {r \in groups : ~IsMember(r.id, r.created_by) /\ ~CallOf(Creation, r.id, r.created_by)}

\* A consumed token ends in a membership and a creator joins its group ("marks
\* used, adds the joining gateway as a member", "Creator auto-joins"), with two
\* exceptions, and each occurrence of either costs one token or one creator's
\* membership at most.  A call may end between its two statements; and the
\* UPDATE asks nowhere whether the gateway is a member already, so such a
\* gateway spends the token, fails on the primary key and admits nobody.  Only
\* the first leaves a gateway outside the group.
LossesHaveCause ==
    /\ Cardinality(BurntInvites) + Cardinality(OrphanGroups) <= failures + conflicts
    /\ Cardinality(ShutOut) + Cardinality(OrphanGroups) <= failures
=============================================================================
