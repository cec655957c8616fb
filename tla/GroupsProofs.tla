--------------------------- MODULE GroupsProofs ---------------------------
(***************************************************************************)
(* Invite tokens admit once, for every set of groups, gateways, tokens and *)
(* concurrent calls.                                                       *)
(***************************************************************************)
EXTENDS Groups, FiniteSetTheorems, TLAPS

\* What entitles gateway x to a row of group g that cites the cause v.
Earned(g, x, v) ==
    \/ v = Creation /\ [id |-> g, created_by |-> x] \in groups
    \/ \E i \in invites : /\ i.token = v
                          /\ i.group = g
                          /\ i.used_by = x
                          /\ i.used_at < i.expires_at

Joining(t) == task[t].pc = "add_member"

\* token is the primary key of invites.
TokensUnique == \A i, j \in invites : i.token = j.token => i = j

\* A call that is about to insert a member is entitled to.
JoiningEarned ==
    \A t \in Tasks : Joining(t) => Earned(task[t].group, task[t].gateway, task[t].via)

\* Two calls never join on one token, and none joins on a token that has
\* already led to a row.
JoiningAlone ==
    \A t, u \in Tasks :
        Joining(t) /\ Joining(u) /\ task[t].via = task[u].via /\ task[t].via # Creation
            => t = u

JoiningFirst ==
    \A t \in Tasks : Joining(t) /\ task[t].via # Creation =>
        \A m \in members : m.via # task[t].via

InviteInv ==
    /\ TypeOK
    /\ TokensUnique
    /\ JoiningEarned
    /\ JoiningAlone
    /\ JoiningFirst
    /\ MembershipEarned
    /\ SingleUse

LEMMA InitInviteInv == Init => InviteInv
<1> SUFFICES ASSUME Init PROVE InviteInv
  OBVIOUS
<1>1. TypeOK
  BY DEF Init, TypeOK, TaskState
<1>2. \A t \in Tasks : ~Joining(t)
  BY DEF Init, Joining, Idle
<1>3. TokensUnique /\ JoiningEarned /\ JoiningAlone /\ JoiningFirst
  BY <1>2 DEF Init, TokensUnique, JoiningEarned, JoiningAlone, JoiningFirst
<1>4. MembershipEarned /\ SingleUse
  BY DEF Init, MembershipEarned, SingleUse
<1> QED
  BY <1>1, <1>3, <1>4 DEF InviteInv

\* The pc of a call determines the fields of its local state.
LEMMA TaskShape ==
    ASSUME TypeOK, NEW t \in Tasks
    PROVE  /\ task[t].pc = "update_invite" =>
                  task[t].token \in Tokens /\ task[t].gateway \in Gateways /\ task[t].now \in Nat
           /\ task[t].pc = "add_member" =>
                  /\ task[t].group \in GroupIds
                  /\ task[t].gateway \in Gateways
                  /\ task[t].via \in Tokens \cup {Creation}
BY DEF TypeOK, TaskState, Idle

LEMMA NextTypeOK == TypeOK /\ [Next]_vars => TypeOK'
<1> SUFFICES ASSUME TypeOK, [Next]_vars PROVE TypeOK'
  OBVIOUS
<1> USE DEF TypeOK
<1>1. CASE Tick
  BY <1>1 DEF Tick
<1>2. ASSUME NEW t \in Tasks, NEW g \in GroupIds, NEW x \in Gateways, create_group(t, g, x)
      PROVE  TypeOK'
  BY <1>2 DEF create_group, Goto, TaskState, Group
<1>3. ASSUME NEW k \in Tokens, NEW g \in GroupIds, NEW now \in 0 .. clock,
             create_invite(k, g, now)
      PROVE  TypeOK'
  <2>1. now + TTL \in Nat
    BY TTLAssumption
  <2>2. [token |-> k, group |-> g, expires_at |-> now + TTL,
         used_at |-> -1, used_by |-> Unused] \in Invite
    BY <2>1 DEF Invite
  <2> QED
    BY <1>3, <2>2 DEF create_invite
<1>4. ASSUME NEW t \in Tasks, NEW k \in Tokens, NEW x \in Gateways, consume_invite_begin(t, k, x)
      PROVE  TypeOK'
  BY <1>4 DEF consume_invite_begin, Goto, TaskState
<1>5. ASSUME NEW t \in Tasks, consume_invite_update(t) PROVE TypeOK'
  <2>1. /\ task[t].token \in Tokens /\ task[t].gateway \in Gateways /\ task[t].now \in Nat
    BY <1>5, TaskShape DEF consume_invite_update
  <2>2. PICK i \in invites :
           /\ invites' = (invites \ {i}) \cup {Used(i, task[t].gateway, task[t].now)}
           /\ Goto(t, [pc |-> "add_member", group |-> i.group,
                       gateway |-> task[t].gateway, via |-> i.token])
    BY <1>5 DEF consume_invite_update
  <2>3. Used(i, task[t].gateway, task[t].now) \in Invite
    BY <2>1, <2>2 DEF Invite, Used
  <2>4. [pc |-> "add_member", group |-> i.group, gateway |-> task[t].gateway,
         via |-> i.token] \in TaskState
    BY <2>1, <2>2 DEF Invite, TaskState
  <2> QED
    BY <1>5, <2>2, <2>3, <2>4 DEF consume_invite_update, Goto
<1>6. ASSUME NEW t \in Tasks, consume_invite_refused(t) PROVE TypeOK'
  BY <1>6 DEF consume_invite_refused, Goto, TaskState
<1>7. ASSUME NEW t \in Tasks, add_member(t) PROVE TypeOK'
  <2>1. [group |-> task[t].group, gateway |-> task[t].gateway, via |-> task[t].via] \in Member
    BY <1>7, TaskShape DEF add_member, Member
  <2> QED
    BY <1>7, <2>1 DEF add_member, Goto, TaskState
<1>8. ASSUME NEW t \in Tasks, Fail(t) PROVE TypeOK'
  BY <1>8 DEF Fail, Goto, TaskState
<1>9. CASE UNCHANGED vars
  BY <1>9 DEF vars
<1> QED
  BY <1>1, <1>2, <1>3, <1>4, <1>5, <1>6, <1>7, <1>8, <1>9 DEF Next

\* Steps of a call that leave the tables alone and do not make it join.
LEMMA LocalStep ==
    ASSUME InviteInv, TypeOK', NEW t \in Tasks, NEW next,
           Goto(t, next), next.pc # "add_member", UNCHANGED <<groups, members, invites>>
    PROVE  InviteInv'
<1>1. \A u \in Tasks : task'[u] = IF u = t THEN next ELSE task[u]
  BY DEF Goto, InviteInv, TypeOK
<1>2. \A u \in Tasks : Joining(u)' => Joining(u) /\ task'[u] = task[u]
  BY <1>1 DEF Joining
<1>3. TokensUnique' /\ MembershipEarned' /\ SingleUse'
  BY DEF InviteInv, TokensUnique, MembershipEarned, SingleUse
<1>4. JoiningEarned'
  BY <1>2 DEF InviteInv, JoiningEarned, Earned
<1>5. JoiningAlone' /\ JoiningFirst'
  BY <1>2 DEF InviteInv, JoiningAlone, JoiningFirst
<1> QED
  BY <1>3, <1>4, <1>5 DEF InviteInv

LEMMA CreateGroupInv ==
    ASSUME InviteInv, TypeOK', NEW t \in Tasks, NEW g \in GroupIds, NEW x \in Gateways,
           create_group(t, g, x)
    PROVE  InviteInv'
<1> DEFINE next == [pc |-> "add_member", group |-> g, gateway |-> x, via |-> Creation]
<1>1. /\ groups' = groups \cup {[id |-> g, created_by |-> x]}
      /\ members' = members /\ invites' = invites
      /\ \A u \in Tasks : task'[u] = IF u = t THEN next ELSE task[u]
  BY DEF create_group, Goto, InviteInv, TypeOK
<1>2. \A u \in Tasks : Joining(u)' => u = t \/ (Joining(u) /\ task'[u] = task[u])
  BY <1>1 DEF Joining
<1>3. TokensUnique' /\ SingleUse'
  BY <1>1 DEF InviteInv, TokensUnique, SingleUse
<1>4. MembershipEarned'
  BY <1>1 DEF InviteInv, MembershipEarned
<1>5. JoiningEarned'
  <2>1. ASSUME NEW u \in Tasks, Joining(u)'
        PROVE  Earned(task[u].group, task[u].gateway, task[u].via)'
    <3>1. CASE u = t
      BY <1>1, <3>1 DEF Earned
    <3>2. CASE u # t
      <4>1. Earned(task[u].group, task[u].gateway, task[u].via) /\ task'[u] = task[u]
        BY <1>2, <2>1, <3>2 DEF InviteInv, JoiningEarned
      <4> QED
        BY <1>1, <4>1 DEF Earned
    <3> QED BY <3>1, <3>2
  <2> QED
    BY <2>1 DEF JoiningEarned
<1>6. JoiningAlone' /\ JoiningFirst'
  BY <1>1, <1>2 DEF InviteInv, JoiningAlone, JoiningFirst
<1> QED
  BY <1>3, <1>4, <1>5, <1>6 DEF InviteInv

LEMMA CreateInviteInv ==
    ASSUME InviteInv, TypeOK', NEW k \in Tokens, NEW g \in GroupIds, NEW now,
           create_invite(k, g, now)
    PROVE  InviteInv'
<1>1. PICK new : new.token = k /\ invites' = invites \cup {new}
  BY DEF create_invite
<1>2. groups' = groups /\ members' = members /\ task' = task /\ \A i \in invites : i.token # k
  BY DEF create_invite
<1>3. TokensUnique'
  BY <1>1, <1>2 DEF InviteInv, TokensUnique
<1>4. MembershipEarned'
  BY <1>1, <1>2 DEF InviteInv, MembershipEarned
<1>5. JoiningEarned'
  BY <1>1, <1>2 DEF InviteInv, JoiningEarned, Joining, Earned
<1>6. JoiningAlone' /\ JoiningFirst' /\ SingleUse'
  BY <1>2 DEF InviteInv, JoiningAlone, JoiningFirst, SingleUse, Joining
<1> QED
  BY <1>3, <1>4, <1>5, <1>6 DEF InviteInv

\* The UPDATE: the row it marks was unused, so no member and no running call
\* rests on it yet; from now on this call does, alone.
LEMMA ConsumeInv ==
    ASSUME InviteInv, TypeOK', NEW t \in Tasks, consume_invite_update(t)
    PROVE  InviteInv'
<1> DEFINE x == task[t].gateway
           now == task[t].now
<1>1. x \in Gateways /\ now \in Nat /\ task[t].pc = "update_invite"
  BY TaskShape DEF consume_invite_update, InviteInv
<1>2. PICK i \in invites :
          /\ i.used_by = Unused /\ i.expires_at > now
          /\ invites' = (invites \ {i}) \cup {Used(i, x, now)}
          /\ Goto(t, [pc |-> "add_member", group |-> i.group, gateway |-> x, via |-> i.token])
  BY DEF consume_invite_update, Consumable
<1> DEFINE next == [pc |-> "add_member", group |-> i.group, gateway |-> x, via |-> i.token]
<1>3. /\ groups' = groups /\ members' = members
      /\ \A u \in Tasks : task'[u] = IF u = t THEN next ELSE task[u]
  BY <1>2 DEF consume_invite_update, Goto, InviteInv, TypeOK
<1>4. i.token \in Tokens /\ i.token # Creation /\ x # Unused /\ i.expires_at \in Nat
  BY <1>1, NamesAssumption DEF InviteInv, TypeOK, Invite
<1>5. \A u \in Tasks : Joining(u)' => u = t \/ (Joining(u) /\ task'[u] = task[u])
  BY <1>3 DEF Joining
<1>6. \A g, y, v : Earned(g, y, v) /\ y \in Gateways => Earned(g, y, v)' /\ v # i.token
  <2> SUFFICES ASSUME NEW g, NEW y \in Gateways, NEW v, Earned(g, y, v)
               PROVE  Earned(g, y, v)' /\ v # i.token
    OBVIOUS
  <2>1. CASE v = Creation /\ [id |-> g, created_by |-> y] \in groups
    BY <1>3, <1>4, <2>1 DEF Earned
  <2>2. CASE \E j \in invites : /\ j.token = v /\ j.group = g /\ j.used_by = y
                                /\ j.used_at < j.expires_at
    <3>1. PICK j \in invites : /\ j.token = v /\ j.group = g /\ j.used_by = y
                               /\ j.used_at < j.expires_at
      BY <2>2
    <3>2. j # i
      BY <1>2, <3>1, NamesAssumption
    <3>3. j \in invites' /\ v # i.token
      BY <1>2, <3>1, <3>2 DEF InviteInv, TokensUnique
    <3> QED
      BY <3>1, <3>3 DEF Earned
  <2> QED
    BY <2>1, <2>2 DEF Earned
<1>7. TokensUnique'
  BY <1>2 DEF InviteInv, TokensUnique, Used
<1>8. \A m \in members : m.gateway \in Gateways /\ Earned(m.group, m.gateway, m.via)
  BY DEF InviteInv, TypeOK, Member, MembershipEarned, Earned
<1>9. MembershipEarned'
  <2>1. ASSUME NEW m \in members PROVE Earned(m.group, m.gateway, m.via)'
    BY <1>6, <1>8
  <2> QED
    BY <1>3, <2>1 DEF MembershipEarned, Earned
<1>10. \A u \in Tasks : Joining(u) =>
          task[u].gateway \in Gateways /\ Earned(task[u].group, task[u].gateway, task[u].via)
  BY TaskShape DEF InviteInv, JoiningEarned, Joining
<1>11. JoiningEarned'
  <2>1. ASSUME NEW u \in Tasks, Joining(u)'
        PROVE  Earned(task[u].group, task[u].gateway, task[u].via)'
    <3>1. CASE u = t
      <4>1. Used(i, x, now) \in invites'
        BY <1>2
      <4>2. /\ Used(i, x, now).token = i.token /\ Used(i, x, now).group = i.group
            /\ Used(i, x, now).used_by = x
            /\ Used(i, x, now).used_at < Used(i, x, now).expires_at
        BY <1>1, <1>2, <1>4 DEF Used
      <4> QED
        BY <1>3, <3>1, <4>1, <4>2 DEF Earned
    <3>2. CASE u # t
      BY <1>5, <1>6, <1>10, <2>1, <3>2
    <3> QED BY <3>1, <3>2
  <2> QED
    BY <2>1 DEF JoiningEarned
<1>12. JoiningAlone'
  BY <1>3, <1>5, <1>6, <1>10 DEF InviteInv, JoiningAlone
<1>13. JoiningFirst'
  BY <1>3, <1>5, <1>6, <1>8 DEF InviteInv, JoiningFirst
<1>14. SingleUse'
  BY <1>3 DEF InviteInv, SingleUse
<1> QED
  BY <1>7, <1>9, <1>11, <1>12, <1>13, <1>14 DEF InviteInv

LEMMA AddMemberInv ==
    ASSUME InviteInv, TypeOK', NEW t \in Tasks, add_member(t)
    PROVE  InviteInv'
<1> DEFINE new == [group |-> task[t].group, gateway |-> task[t].gateway, via |-> task[t].via]
<1>1. /\ groups' = groups /\ invites' = invites /\ Joining(t)
      /\ members' \subseteq members \cup {new}
      /\ \A u \in Tasks : task'[u] = IF u = t THEN Idle ELSE task[u]
  BY DEF add_member, Goto, InviteInv, TypeOK, Joining
<1>2. \A u \in Tasks : Joining(u)' => u # t /\ Joining(u) /\ task'[u] = task[u]
  BY <1>1 DEF Joining, Idle
<1>3. TokensUnique' /\ JoiningAlone'
  BY <1>1, <1>2 DEF InviteInv, TokensUnique, JoiningAlone
<1>4. JoiningEarned'
  BY <1>1, <1>2 DEF InviteInv, JoiningEarned, Earned
<1>5. JoiningFirst'
  BY <1>1, <1>2 DEF InviteInv, JoiningFirst, JoiningAlone
<1>6. Earned(new.group, new.gateway, new.via)
  BY <1>1 DEF InviteInv, JoiningEarned
<1>7. MembershipEarned'
  BY <1>1, <1>6 DEF InviteInv, MembershipEarned, Earned
<1>8. SingleUse'
  BY <1>1 DEF InviteInv, JoiningFirst, SingleUse
<1> QED
  BY <1>3, <1>4, <1>5, <1>7, <1>8 DEF InviteInv

LEMMA NextInviteInv == InviteInv /\ [Next]_vars => InviteInv'
<1> SUFFICES ASSUME InviteInv, [Next]_vars PROVE InviteInv'
  OBVIOUS
<1> TypeOK'
  BY NextTypeOK DEF InviteInv
<1>1. CASE Tick
  BY <1>1 DEF Tick, InviteInv, TokensUnique, JoiningEarned, JoiningAlone, JoiningFirst,
              MembershipEarned, SingleUse, Earned, Joining
<1>2. ASSUME NEW t \in Tasks, NEW k \in Tokens, NEW x \in Gateways, consume_invite_begin(t, k, x)
      PROVE  InviteInv'
  <2>1. /\ Goto(t, [pc |-> "update_invite", token |-> k, gateway |-> x, now |-> clock])
        /\ UNCHANGED <<groups, members, invites>>
    BY <1>2 DEF consume_invite_begin
  <2> QED
    BY <2>1, LocalStep
<1>3. ASSUME NEW t \in Tasks, consume_invite_refused(t) \/ Fail(t) PROVE InviteInv'
  <2>1. Goto(t, Idle) /\ UNCHANGED <<groups, members, invites>> /\ Idle.pc # "add_member"
    BY <1>3 DEF consume_invite_refused, Fail, Idle
  <2> QED
    BY <2>1, LocalStep
<1>4. CASE UNCHANGED vars
  BY <1>4 DEF vars, InviteInv, TokensUnique, JoiningEarned, JoiningAlone, JoiningFirst,
              MembershipEarned, SingleUse, Earned, Joining
<1> QED
  BY <1>1, <1>2, <1>3, <1>4, CreateGroupInv, CreateInviteInv, ConsumeInv, AddMemberInv DEF Next

\* Every field of every row and of every call stays in its type.
THEOREM InviteTypes == Spec => []TypeOK
<1>1. InviteInv => TypeOK
  BY DEF InviteInv
<1> QED
  BY <1>1, InitInviteInv, NextInviteInv, PTL DEF Spec

\* consume_invite admits at most one gateway per token, however many calls hold
\* the token and wherever calls fail.
THEOREM TokensAdmitOnce == Spec => []SingleUse
<1>1. InviteInv => SingleUse
  BY DEF InviteInv
<1> QED
  BY <1>1, InitInviteInv, NextInviteInv, PTL DEF Spec

\* Every member created its group or used an unexpired invite to it.
THEOREM MembersAreEntitled == Spec => []MembershipEarned
<1>1. InviteInv => MembershipEarned
  BY DEF InviteInv
<1> QED
  BY <1>1, InitInviteInv, NextInviteInv, PTL DEF Spec

\* A used invite is never rewritten: the UPDATE only matches unused rows.
THEOREM ConsumptionStays == Spec => ConsumptionImmutable
<1>1. InviteInv /\ [Next]_vars => [\A i \in invites : i.used_by # Unused => i \in invites']_vars
  <2> SUFFICES ASSUME InviteInv, Next, NEW i \in invites, i.used_by # Unused
               PROVE  i \in invites'
    OBVIOUS
  <2>1. ASSUME NEW t \in Tasks, consume_invite_update(t) PROVE i \in invites'
    BY <2>1 DEF consume_invite_update, Consumable
  <2>2. ASSUME NEW k \in Tokens, NEW g \in GroupIds, NEW now, create_invite(k, g, now)
        PROVE  i \in invites'
    BY <2>2 DEF create_invite
  <2> QED
    BY <2>1, <2>2 DEF Next, Tick, create_group, consume_invite_begin, consume_invite_refused,
                      add_member, Fail
<1> QED
  BY <1>1, InitInviteInv, NextInviteInv, PTL DEF Spec, ConsumptionImmutable

-----------------------------------------------------------------------------

\* The bounds on losses.  A gateway shut out is counted by its membership alone,
\* whatever row cites its token: the count needs no uniqueness of `via`.
LostInvites ==
    {i \in invites : /\ i.used_by # Unused
                     /\ ~IsMember(i.group, i.used_by)
                     /\ ~CallOf(i.token, i.group, i.used_by)}

TablesFinite == IsFiniteSet(invites) /\ IsFiniteSet(groups)

LossInv ==
    /\ TablesFinite
    /\ Cardinality(LostInvites) + Cardinality(OrphanGroups) <= failures
    /\ Cardinality(BurntInvites) + Cardinality(OrphanGroups) <= failures + conflicts

\* The arithmetic of the bound: nothing new is lost, or one thing is and one
\* more call has failed.
LEMMA NothingLost ==
    ASSUME NEW A, NEW B, IsFiniteSet(A), IsFiniteSet(B),
           NEW C \in SUBSET A, NEW D \in SUBSET B, NEW f \in Nat, NEW n \in Nat,
           Cardinality(A) + Cardinality(B) <= f, f <= n
    PROVE  Cardinality(C) + Cardinality(D) <= n
<1>1. /\ IsFiniteSet(C) /\ Cardinality(C) <= Cardinality(A)
      /\ IsFiniteSet(D) /\ Cardinality(D) <= Cardinality(B)
  BY FS_Subset
<1>2. /\ Cardinality(A) \in Nat /\ Cardinality(B) \in Nat
      /\ Cardinality(C) \in Nat /\ Cardinality(D) \in Nat
  BY <1>1, FS_CardinalityType
<1>3. QED
  BY <1>1, <1>2

LEMMA OneLost ==
    ASSUME NEW A, NEW B, IsFiniteSet(A), IsFiniteSet(B), NEW x,
           NEW C \in SUBSET (A \cup {x}), NEW D \in SUBSET B, NEW f \in Nat,
           Cardinality(A) + Cardinality(B) <= f
    PROVE  Cardinality(C) + Cardinality(D) <= f + 1
<1>1. Cardinality(A) \in Nat /\ Cardinality(B) \in Nat
  BY FS_CardinalityType
<1>2. IsFiniteSet(A \cup {x}) /\ Cardinality(A \cup {x}) <= Cardinality(A) + 1
  <2>1. /\ IsFiniteSet(A \cup {x})
        /\ Cardinality(A \cup {x}) = IF x \in A THEN Cardinality(A) ELSE Cardinality(A) + 1
    BY FS_AddElement, Zenon
  <2>2. QED
    BY <1>1, <2>1
<1>3. Cardinality(A \cup {x}) \in Nat
  BY <1>2, FS_CardinalityType
<1>4. Cardinality(A \cup {x}) + Cardinality(B) <= f + 1
  BY <1>1, <1>2, <1>3
<1>5. QED
  BY <1>2, <1>4, NothingLost

LEMMA OtherLost ==
    ASSUME NEW A, NEW B, IsFiniteSet(A), IsFiniteSet(B), NEW x,
           NEW C \in SUBSET A, NEW D \in SUBSET (B \cup {x}), NEW f \in Nat,
           Cardinality(A) + Cardinality(B) <= f
    PROVE  Cardinality(C) + Cardinality(D) <= f + 1
<1>1. Cardinality(A) \in Nat /\ Cardinality(B) \in Nat
  BY FS_CardinalityType
<1>2. Cardinality(B) + Cardinality(A) <= f
  BY <1>1
<1>3. Cardinality(D) + Cardinality(C) <= f + 1
  BY <1>2, OneLost
<1>4. IsFiniteSet(C) /\ IsFiniteSet(B \cup {x})
  BY FS_Subset, FS_AddElement
<1>5. IsFiniteSet(D)
  BY <1>4, FS_Subset
<1>6. Cardinality(C) \in Nat /\ Cardinality(D) \in Nat
  BY <1>4, <1>5, FS_CardinalityType
<1>7. QED
  BY <1>3, <1>6

LEMMA LostFinite ==
    ASSUME TypeOK, TablesFinite
    PROVE  /\ IsFiniteSet(LostInvites) /\ IsFiniteSet(BurntInvites) /\ IsFiniteSet(OrphanGroups)
           /\ failures \in Nat /\ conflicts \in Nat /\ failures + conflicts \in Nat
<1>1. /\ LostInvites \in SUBSET invites /\ BurntInvites \in SUBSET invites
      /\ OrphanGroups \in SUBSET groups
  BY DEF LostInvites, BurntInvites, OrphanGroups
<1>2. /\ IsFiniteSet(LostInvites) /\ IsFiniteSet(BurntInvites) /\ IsFiniteSet(OrphanGroups)
  BY <1>1, FS_Subset DEF TablesFinite
<1>3. failures \in Nat /\ conflicts \in Nat
  BY DEF TypeOK
<1>4. failures + conflicts \in Nat
  BY <1>3
<1>5. QED
  BY <1>2, <1>3, <1>4

\* A step after which nothing more is lost.
LEMMA LosesNothing ==
    ASSUME TypeOK, TypeOK', LossInv, TablesFinite',
           failures' = failures, conflicts' = conflicts,
           LostInvites' \subseteq LostInvites, BurntInvites' \subseteq BurntInvites,
           OrphanGroups' \subseteq OrphanGroups
    PROVE  LossInv'
<1>1. /\ IsFiniteSet(LostInvites) /\ IsFiniteSet(BurntInvites) /\ IsFiniteSet(OrphanGroups)
      /\ failures \in Nat /\ conflicts \in Nat /\ failures + conflicts \in Nat
  BY LostFinite DEF LossInv
<1>2. failures + conflicts' \in Nat /\ failures + conflicts <= failures + conflicts'
  BY <1>1
<1>3. Cardinality(LostInvites') + Cardinality(OrphanGroups') <= failures
  BY <1>1, NothingLost DEF LossInv
<1>4. Cardinality(BurntInvites') + Cardinality(OrphanGroups') <= failures + conflicts'
  BY <1>1, <1>2, NothingLost DEF LossInv
<1>5. /\ Cardinality(LostInvites') + Cardinality(OrphanGroups') <= failures'
      /\ Cardinality(BurntInvites') + Cardinality(OrphanGroups') <= failures' + conflicts'
  BY <1>3, <1>4
<1>6. QED
  BY <1>5 DEF LossInv

\* An add_member refused by the primary key costs one token, and shuts nobody out.
LEMMA LosesConflict ==
    ASSUME TypeOK, TypeOK', LossInv, TablesFinite', NEW i,
           failures' = failures, conflicts' = conflicts + 1,
           LostInvites' \subseteq LostInvites, BurntInvites' \subseteq BurntInvites \cup {i},
           OrphanGroups' \subseteq OrphanGroups
    PROVE  LossInv'
<1>1. /\ IsFiniteSet(LostInvites) /\ IsFiniteSet(BurntInvites) /\ IsFiniteSet(OrphanGroups)
      /\ failures \in Nat /\ conflicts \in Nat /\ failures + conflicts \in Nat
  BY LostFinite DEF LossInv
<1>2. Cardinality(LostInvites') + Cardinality(OrphanGroups') <= failures
  BY <1>1, NothingLost DEF LossInv
<1>3. Cardinality(BurntInvites') + Cardinality(OrphanGroups') <= (failures + conflicts) + 1
  BY <1>1, OneLost DEF LossInv
<1>4. (failures + conflicts) + 1 = failures' + conflicts'
  BY <1>1
<1>5. QED
  BY <1>2, <1>3, <1>4 DEF LossInv

\* A call that ends early costs one token, or one creator's membership.
LEMMA LosesInvite ==
    ASSUME TypeOK, TypeOK', LossInv, TablesFinite', NEW i,
           failures' = failures + 1, conflicts' = conflicts,
           LostInvites' \subseteq LostInvites \cup {i}, BurntInvites' \subseteq BurntInvites \cup {i},
           OrphanGroups' \subseteq OrphanGroups
    PROVE  LossInv'
<1>1. /\ IsFiniteSet(LostInvites) /\ IsFiniteSet(BurntInvites) /\ IsFiniteSet(OrphanGroups)
      /\ failures \in Nat /\ conflicts \in Nat /\ failures + conflicts \in Nat
  BY LostFinite DEF LossInv
<1>2. Cardinality(LostInvites') + Cardinality(OrphanGroups') <= failures + 1
  BY <1>1, OneLost DEF LossInv
<1>3. Cardinality(BurntInvites') + Cardinality(OrphanGroups') <= (failures + conflicts) + 1
  BY <1>1, OneLost DEF LossInv
<1>4. (failures + conflicts) + 1 = failures' + conflicts'
  BY <1>1
<1>5. QED
  BY <1>2, <1>3, <1>4 DEF LossInv

LEMMA LosesCreation ==
    ASSUME TypeOK, TypeOK', LossInv, TablesFinite', NEW r,
           failures' = failures + 1, conflicts' = conflicts,
           LostInvites' \subseteq LostInvites, BurntInvites' \subseteq BurntInvites,
           OrphanGroups' \subseteq OrphanGroups \cup {r}
    PROVE  LossInv'
<1>1. /\ IsFiniteSet(LostInvites) /\ IsFiniteSet(BurntInvites) /\ IsFiniteSet(OrphanGroups)
      /\ failures \in Nat /\ conflicts \in Nat /\ failures + conflicts \in Nat
  BY LostFinite DEF LossInv
<1>2. Cardinality(LostInvites') + Cardinality(OrphanGroups') <= failures + 1
  BY <1>1, OtherLost DEF LossInv
<1>3. Cardinality(BurntInvites') + Cardinality(OrphanGroups') <= (failures + conflicts) + 1
  BY <1>1, OtherLost DEF LossInv
<1>4. (failures + conflicts) + 1 = failures' + conflicts'
  BY <1>1
<1>5. QED
  BY <1>2, <1>3, <1>4 DEF LossInv

\* A call still joining, or a row already there, keeps its cause from being lost.
LEMMA CallsKept ==
    ASSUME TypeOK, NEW t \in Tasks, NEW next, Goto(t, next), ~Joining(t)
    PROVE  \A v, g, x : CallOf(v, g, x) => CallOf(v, g, x)'
<1>1. \A u \in Tasks : task'[u] = IF u = t THEN next ELSE task[u]
  BY DEF TypeOK, Goto
<1>2. QED
  BY <1>1 DEF CallOf, Joining

LEMMA CreateGroupLoss ==
    ASSUME InviteInv, TypeOK', LossInv, NEW t \in Tasks, NEW g \in GroupIds, NEW x \in Gateways,
           create_group(t, g, x)
    PROVE  LossInv'
<1> DEFINE next == [pc |-> "add_member", group |-> g, gateway |-> x, via |-> Creation]
           new == [id |-> g, created_by |-> x]
<1>1. /\ groups' = groups \cup {new} /\ invites' = invites /\ members' = members
      /\ failures' = failures /\ conflicts' = conflicts /\ Goto(t, next) /\ ~Joining(t)
  BY DEF create_group, Joining, Idle
<1>2. TypeOK
  BY DEF InviteInv
<1>3. \A v, h, y : CallOf(v, h, y) => CallOf(v, h, y)'
  BY <1>1, <1>2, CallsKept
<1>4. CallOf(Creation, new.id, new.created_by)'
  <2>1. task'[t] = next
    BY <1>1, <1>2 DEF Goto, TypeOK
  <2>2. QED
    BY <2>1 DEF CallOf, Joining
<1>5. TablesFinite'
  BY <1>1, FS_AddElement DEF LossInv, TablesFinite
<1>6. \A h, y : IsMember(h, y)' <=> IsMember(h, y)
  BY <1>1 DEF IsMember
<1>7. LostInvites' \subseteq LostInvites /\ BurntInvites' \subseteq BurntInvites
  BY <1>1, <1>3, <1>6 DEF LostInvites, BurntInvites
<1>8. OrphanGroups' \subseteq OrphanGroups
  <2> HIDE DEF new
  <2>1. QED
    BY <1>1, <1>3, <1>4, <1>6 DEF OrphanGroups
<1>9. QED
  BY <1>1, <1>2, <1>5, <1>7, <1>8, LosesNothing

LEMMA CreateInviteLoss ==
    ASSUME InviteInv, TypeOK', LossInv, NEW k \in Tokens, NEW g \in GroupIds, NEW now,
           create_invite(k, g, now)
    PROVE  LossInv'
<1>1. PICK new : new.used_by = Unused /\ invites' = invites \cup {new}
  BY DEF create_invite
<1>2. /\ groups' = groups /\ members' = members /\ task' = task
      /\ failures' = failures /\ conflicts' = conflicts
  BY DEF create_invite
<1>3. TypeOK
  BY DEF InviteInv
<1>4. TablesFinite'
  BY <1>1, <1>2, FS_AddElement DEF LossInv, TablesFinite
<1>5. \A v, h, y : CallOf(v, h, y)' <=> CallOf(v, h, y)
  BY <1>2 DEF CallOf, Joining
<1>6. \A h, y : IsMember(h, y)' <=> IsMember(h, y)
  BY <1>2 DEF IsMember
<1>7. /\ LostInvites' \subseteq LostInvites /\ BurntInvites' \subseteq BurntInvites
      /\ OrphanGroups' \subseteq OrphanGroups
  BY <1>1, <1>2, <1>5, <1>6 DEF LostInvites, BurntInvites, OrphanGroups
<1>8. QED
  BY <1>2, <1>3, <1>4, <1>7, LosesNothing

LEMMA ConsumeLoss ==
    ASSUME InviteInv, TypeOK', LossInv, NEW t \in Tasks, consume_invite_update(t)
    PROVE  LossInv'
<1>0. PICK x, now : x = task[t].gateway /\ now = task[t].now
  OBVIOUS
<1>1. PICK i \in invites :
          /\ invites' = (invites \ {i}) \cup {Used(i, x, now)}
          /\ Goto(t, [pc |-> "add_member", group |-> i.group, gateway |-> x, via |-> i.token])
  BY <1>0 DEF consume_invite_update
<1>2. /\ groups' = groups /\ members' = members
      /\ failures' = failures /\ conflicts' = conflicts /\ ~Joining(t)
  BY DEF consume_invite_update, Joining
<1>3. TypeOK
  BY DEF InviteInv
<1>4. TablesFinite'
  BY <1>1, <1>2, FS_AddElement, FS_RemoveElement DEF LossInv, TablesFinite
<1>5. \A v, h, y : CallOf(v, h, y) => CallOf(v, h, y)'
  BY <1>1, <1>2, <1>3, CallsKept
<1>6. CallOf(i.token, i.group, x)'
  <2>1. task'[t] = [pc |-> "add_member", group |-> i.group, gateway |-> x, via |-> i.token]
    BY <1>1, <1>3 DEF Goto, TypeOK
  <2>2. QED
    BY <2>1 DEF CallOf, Joining
<1>7. \A h, y : IsMember(h, y)' <=> IsMember(h, y)
  BY <1>2 DEF IsMember
<1>8. LostInvites' \subseteq LostInvites /\ BurntInvites' \subseteq BurntInvites
  <2>1. /\ Used(i, x, now).token = i.token /\ Used(i, x, now).group = i.group
        /\ Used(i, x, now).used_by = x
    BY DEF Used
  <2>2. QED
    BY <1>1, <1>2, <1>5, <1>6, <1>7, <2>1 DEF LostInvites, BurntInvites
<1>9. OrphanGroups' \subseteq OrphanGroups
  BY <1>2, <1>5, <1>7 DEF OrphanGroups
<1>10. QED
  BY <1>2, <1>3, <1>4, <1>8, <1>9, LosesNothing

LEMMA AddMemberLoss ==
    ASSUME InviteInv, TypeOK', LossInv, NEW t \in Tasks, add_member(t)
    PROVE  LossInv'
<1>0. PICK g, x, w : g = task[t].group /\ x = task[t].gateway /\ w = task[t].via
  OBVIOUS
<1>1. /\ groups' = groups /\ invites' = invites /\ failures' = failures
      /\ Goto(t, Idle) /\ Joining(t)
  BY DEF add_member, Joining
<1>2. TypeOK
  BY DEF InviteInv
<1>3. TablesFinite'
  BY <1>1 DEF LossInv, TablesFinite
<1>4. \A v, h, y : CallOf(v, h, y) => CallOf(v, h, y)' \/ (v = w /\ h = g /\ y = x)
  <2>1. \A u \in Tasks : u # t => task'[u] = task[u]
    BY <1>1, <1>2 DEF Goto, TypeOK
  <2>2. QED
    BY <1>0, <2>1 DEF CallOf
<1>5. CASE ~IsMember(g, x)
  <2> DEFINE new == [group |-> g, gateway |-> x, via |-> w]
  <2>1. members' = members \cup {new} /\ conflicts' = conflicts
    BY <1>0, <1>5 DEF add_member
  <2>2. new.group = g /\ new.gateway = x /\ new.via = w
    OBVIOUS
  <2> HIDE DEF new
  <2>3. IsMember(g, x)' /\ \A h, y : IsMember(h, y) => IsMember(h, y)'
    BY <2>1, <2>2 DEF IsMember
  <2>4. LostInvites' \subseteq LostInvites /\ OrphanGroups' \subseteq OrphanGroups
    BY <1>1, <1>4, <2>3 DEF LostInvites, OrphanGroups
  <2>5. BurntInvites' \subseteq BurntInvites
    BY <1>1, <1>4, <2>1, <2>2 DEF BurntInvites
  <2>6. QED
    BY <1>1, <1>2, <1>3, <2>1, <2>4, <2>5, LosesNothing
<1>6. CASE IsMember(g, x)
  <2>1. members' = members /\ conflicts' = conflicts + 1
    BY <1>0, <1>6 DEF add_member
  <2>2. IsMember(g, x)' /\ \A h, y : IsMember(h, y) => IsMember(h, y)'
    BY <1>6, <2>1 DEF IsMember
  <2>3. LostInvites' \subseteq LostInvites /\ OrphanGroups' \subseteq OrphanGroups
    BY <1>1, <1>4, <2>2 DEF LostInvites, OrphanGroups
  <2>4. PICK i \in invites \cup {Unused} : \A j \in invites : j.token = w => j = i
    BY DEF InviteInv, TokensUnique
  <2>5. BurntInvites' \subseteq BurntInvites \cup {i}
    BY <1>1, <1>4, <2>1, <2>4 DEF BurntInvites
  <2>6. QED
    BY <1>1, <1>2, <1>3, <2>1, <2>3, <2>5, LosesConflict
<1>7. QED
  BY <1>5, <1>6

\* A call that ends between its two statements costs the token or the creation
\* it was called for, and nothing else.
LEMMA FailLoss ==
    ASSUME InviteInv, TypeOK', LossInv, NEW t \in Tasks, Fail(t)
    PROVE  LossInv'
<1>1. /\ groups' = groups /\ invites' = invites /\ members' = members
      /\ failures' = failures + 1 /\ conflicts' = conflicts /\ Goto(t, Idle)
  BY DEF Fail
<1>2. TypeOK
  BY DEF InviteInv
<1>3. TablesFinite'
  BY <1>1 DEF LossInv, TablesFinite
<1>4. \A h, y : IsMember(h, y)' <=> IsMember(h, y)
  BY <1>1 DEF IsMember
<1>5. PICK w, g, x : w = task[t].via /\ g = task[t].group /\ x = task[t].gateway
  OBVIOUS
<1>6. \A v, h, y : CallOf(v, h, y) =>
          CallOf(v, h, y)' \/ (Joining(t) /\ v = w /\ h = g /\ y = x)
  <2>1. \A u \in Tasks : u # t => task'[u] = task[u]
    BY <1>1, <1>2 DEF Goto, TypeOK
  <2>2. QED
    BY <1>5, <2>1 DEF CallOf, Joining
<1>7. CASE Joining(t) /\ w = Creation
  <2>1. \A i \in invites : i.token # w
    BY <1>2, <1>7, NamesAssumption DEF TypeOK, Invite
  <2>2. LostInvites' \subseteq LostInvites /\ BurntInvites' \subseteq BurntInvites
    BY <1>1, <1>4, <1>6, <2>1 DEF LostInvites, BurntInvites
  <2>3. \A r \in groups : r.id = g /\ r.created_by = x => r = [id |-> g, created_by |-> x]
    BY <1>2 DEF TypeOK, Group
  <2>4. OrphanGroups' \subseteq OrphanGroups \cup {[id |-> g, created_by |-> x]}
    BY <1>1, <1>4, <1>6, <2>3 DEF OrphanGroups
  <2>5. QED
    BY <1>1, <1>2, <1>3, <2>2, <2>4, LosesCreation
<1>8. CASE ~(Joining(t) /\ w = Creation)
  <2>1. OrphanGroups' \subseteq OrphanGroups
    BY <1>1, <1>4, <1>6, <1>8 DEF OrphanGroups
  <2>2. PICK i \in invites \cup {Unused} : \A j \in invites : j.token = w => j = i
    BY DEF InviteInv, TokensUnique
  <2>3. LostInvites' \subseteq LostInvites \cup {i} /\ BurntInvites' \subseteq BurntInvites \cup {i}
    BY <1>1, <1>4, <1>6, <2>2 DEF LostInvites, BurntInvites
  <2>4. QED
    BY <1>1, <1>2, <1>3, <2>1, <2>3, LosesInvite
<1>9. QED
  BY <1>7, <1>8

\* Steps that neither touch the tables nor end a call that is joining.
LEMMA QuietLoss ==
    ASSUME InviteInv, TypeOK', LossInv,
           \/ Tick \/ UNCHANGED vars
           \/ \E t \in Tasks, k \in Tokens, x \in Gateways : consume_invite_begin(t, k, x)
           \/ \E t \in Tasks : consume_invite_refused(t)
    PROVE  LossInv'
<1>1. /\ groups' = groups /\ invites' = invites /\ members' = members
      /\ failures' = failures /\ conflicts' = conflicts
  BY DEF Tick, vars, consume_invite_begin, consume_invite_refused
<1>2. TypeOK
  BY DEF InviteInv
<1>3. TablesFinite'
  BY <1>1 DEF LossInv, TablesFinite
<1>4. \A h, y : IsMember(h, y)' <=> IsMember(h, y)
  BY <1>1 DEF IsMember
<1>5. \A v, h, y : CallOf(v, h, y) => CallOf(v, h, y)'
  <2>1. CASE task' = task
    BY <2>1 DEF CallOf, Joining
  <2>2. ASSUME NEW t \in Tasks, NEW next, Goto(t, next), ~Joining(t)
        PROVE  \A v, h, y : CallOf(v, h, y) => CallOf(v, h, y)'
    BY <1>2, <2>2, CallsKept
  <2>3. CASE \E t \in Tasks, k \in Tokens, x \in Gateways : consume_invite_begin(t, k, x)
    BY <2>2, <2>3 DEF consume_invite_begin, Joining, Idle
  <2>4. CASE \E t \in Tasks : consume_invite_refused(t)
    BY <2>2, <2>4 DEF consume_invite_refused, Joining
  <2>5. QED
    BY <2>1, <2>3, <2>4 DEF Tick, vars
<1>6. /\ LostInvites' \subseteq LostInvites /\ BurntInvites' \subseteq BurntInvites
      /\ OrphanGroups' \subseteq OrphanGroups
  BY <1>1, <1>4, <1>5 DEF LostInvites, BurntInvites, OrphanGroups
<1>7. QED
  BY <1>1, <1>2, <1>3, <1>6, LosesNothing

LEMMA NextLossInv == InviteInv /\ LossInv /\ [Next]_vars => LossInv'
<1> SUFFICES ASSUME InviteInv, LossInv, [Next]_vars PROVE LossInv'
  OBVIOUS
<1>1. TypeOK'
  BY NextTypeOK DEF InviteInv
<1>2. QED
  BY <1>1, CreateGroupLoss, CreateInviteLoss, ConsumeLoss, AddMemberLoss, FailLoss,
     QuietLoss DEF Next

\* What is visibly lost is lost in the sense of the invariant.
LEMMA LossesCounted ==
    ASSUME TypeOK, LossInv
    PROVE  LossesHaveCause
<1>1. ShutOut \subseteq LostInvites
  BY DEF ShutOut, BurntInvites, LostInvites
<1>2. IsFiniteSet(LostInvites) /\ IsFiniteSet(OrphanGroups) /\ failures \in Nat
  BY LostFinite DEF LossInv
<1>3. Cardinality(ShutOut) + Cardinality(OrphanGroups) <= failures
  BY <1>1, <1>2, NothingLost DEF LossInv
<1>4. QED
  BY <1>3 DEF LossInv, LossesHaveCause

\* Every token that was spent on nobody, and every group its creator never
\* joined, is paid for by a call of its own that ended between its UPDATE or
\* INSERT and its add_member, or by an add_member that the primary key refused
\* because the gateway was a member already (consume_invite, create_group): k
\* early ends and c refusals never cost more than k + c of them, and leave no
\* more than k gateways outside.
THEOREM LossesAreFailures == Spec => []LossesHaveCause
<1>1. Init => LossInv
  <2> SUFFICES ASSUME Init PROVE LossInv
    OBVIOUS
  <2>1. /\ LostInvites = {} /\ BurntInvites = {} /\ OrphanGroups = {}
        /\ failures = 0 /\ conflicts = 0
    BY DEF Init, LostInvites, BurntInvites, OrphanGroups
  <2>2. QED
    BY <2>1, FS_EmptySet DEF Init, LossInv, TablesFinite
<1>2. InviteInv /\ LossInv => LossesHaveCause
  BY LossesCounted DEF InviteInv
<1>3. QED
  BY <1>1, <1>2, InitInviteInv, NextInviteInv, NextLossInv, PTL DEF Spec
=============================================================================
