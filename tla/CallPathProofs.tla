--------------------------- MODULE CallPathProofs ---------------------------
(***************************************************************************)
(* Proofs about CallPath, for any agents, calls, limits and registrations. *)
(*                                                                         *)
(* The inductive invariant PathInv follows a call by what has been         *)
(* forwarded of it: its runs and its requests on the way are no more than  *)
(* the attempts that route let pass; a call that passed once passes again, *)
(* so a refusal comes at the first attempt or not at all; and where the    *)
(* hop count is passed on, it is one less than the depth of the chain.     *)
(***************************************************************************)
EXTENDS CallPath, FiniteSetTheorems, TLAPS

\* The states of a call that has been made.
Made == [pc : {"send", "wait", "ok", "refused", "failed"}, caller : Agents \cup {External},
         target : Agents, hop : Nat, attempt : 1 .. Retries + 1, depth : Nat, relayed : BOOLEAN,
         kind : {"call", "stream", "direct"}]

\* Requests of c that are on their way, and those that are or have been at an agent.
NetOf(c) == {m \in net : m.call = c}
Work(c) == runs[c] + Cardinality(NetOf(c))

\* An attempt of the call has been forwarded; how many.
Went(r) == r.attempt > 1 \/ r.pc \in {"wait", "ok", "failed"}
Forwards(r) == IF r.pc \in {"send", "refused"} THEN r.attempt - 1 ELSE r.attempt

\* route lets the call pass when the cache is reg.
Routable(r, reg) ==
    /\ reg[r.target] # None
    /\ r.kind # "direct" => next_hop(r.hop) <= MaxHops /\ is_allowed(r.caller, r.target)

\* A call of which n requests are on their way or have arrived.
GoodCall(r, n, reg) ==
    /\ r.kind # "call" => r.attempt = 1
    /\ r.pc = "refused" => r.attempt = 1
    /\ r.kind = "direct" => r.pc # "send" /\ ~r.relayed
    /\ r.relayed => r.depth = r.hop + 1 /\ r.hop <= MaxHops
    /\ n <= Forwards(r)
    /\ Went(r) => Routable(r, reg)

CallInv ==
    \A c \in Calls : /\ call[c] = Unused => Work(c) = 0
                     /\ call[c] # Unused => GoodCall(call[c], Work(c), cache)

\* A request belongs to a call that was forwarded and carries the call's hop
\* count, one up.
GoodRequest(m, r) == r # Unused /\ Went(r) /\ (r.kind = "call" => m.hop = next_hop(r.hop))

RequestInv ==
    /\ IsFiniteSet(net)
    /\ \A m \in net \cup handler : GoodRequest(m, call[m.call])

\* An agent of the cache has its row: a restart does not lose it.
RegistryInv ==
    /\ \A a \in Agents : cache[a] # None => table[a] # None
    /\ \A t \in Tasks : upsert[t].pc = "cache" => table[upsert[t].agent] # None

PathInv == TypeOK /\ RegistryInv /\ RequestInv /\ CallInv

LEMMA CallTypes ==
    /\ CallState = {Unused} \cup Made
    /\ \A r \in CallState : r = Unused <=> r.pc = "unused"
BY DEF CallState, Made, Unused

LEMMA SeededTypes ==
    ASSUME NEW f \in [Agents -> Endpoints \cup {None}]
    PROVE  /\ Seeded(f) \in [Agents -> Endpoints \cup {None}]
           /\ \A a \in Agents : f[a] # None => Seeded(f)[a] # None
<1>1. \A a \in DOMAIN Seeds : Seeds[a] \in Endpoints /\ Seeds[a] # None
  BY SeedsAssumption, NoneAssumption DEF Range
<1>2. QED
  BY <1>1 DEF Seeded

LEMMA NextHopTypes ==
    ASSUME NEW h \in Nat
    PROVE  /\ next_hop(h) \in Nat
           /\ h <= MaxHops => next_hop(h) = h + 1
BY HopWidthAssumption, CallBounds DEF next_hop

\* A caller that waits and hears Unavailable, an answer or its timeout.
LEMMA WaitMoves ==
    ASSUME NEW r \in Made, r.pc = "wait",
           NEW s \in {retried(r), [r EXCEPT !.pc = "ok"], [r EXCEPT !.pc = "failed"]}
    PROVE  /\ s \in Made
           /\ s.caller = r.caller /\ s.target = r.target /\ s.hop = r.hop /\ s.depth = r.depth
           /\ s.relayed = r.relayed /\ s.kind = r.kind /\ s.pc # "refused" /\ Went(s)
           /\ s.pc = "send" => r.kind = "call" /\ s.attempt = r.attempt + 1
           /\ s.pc # "send" => s.attempt = r.attempt
<1>1. CASE s = retried(r) /\ r.kind = "call" /\ r.attempt <= Retries
  <2>1. s = [r EXCEPT !.pc = "send", !.attempt = @ + 1]
    BY <1>1 DEF retried
  <2>2. r.attempt + 1 \in 1 .. Retries + 1 /\ r.attempt + 1 > 1
    BY <1>1, CallBounds DEF Made
  <2>3. QED
    BY <1>1, <2>1, <2>2 DEF Made, Went
<1>2. CASE s = [r EXCEPT !.pc = "failed"] \/ s = [r EXCEPT !.pc = "ok"]
  BY <1>2 DEF Made, Went
<1>3. QED
  BY <1>1, <1>2 DEF retried

\* What a step may do to a call besides making and forwarding it.
Evolves(r, s) ==
    \/ s = r
    \/ r.pc = "wait" /\ s \in {retried(r), [r EXCEPT !.pc = "ok"], [r EXCEPT !.pc = "failed"]}

LEMMA EvolvesGood ==
    ASSUME NEW r \in CallState, NEW s, Evolves(r, s)
    PROVE  /\ s \in CallState /\ (s = Unused <=> r = Unused)
           /\ \A m : GoodRequest(m, r) => GoodRequest(m, s)
           /\ r # Unused => \A n \in Nat : \A reg, new :
                  GoodCall(r, n, reg) /\ (\A a \in Agents : reg[a] # None => new[a] # None)
                      => \A k \in Nat : k <= n => GoodCall(s, k, new)
<1>1. CASE s = r
  <2>1. ASSUME r # Unused, NEW n \in Nat, NEW reg, NEW new, GoodCall(r, n, reg),
               \A a \in Agents : reg[a] # None => new[a] # None, NEW k \in Nat, k <= n
        PROVE  GoodCall(r, k, new)
    <3>1. r \in Made
      BY <2>1, CallTypes
    <3>2. r.target \in Agents /\ Forwards(r) \in Int
      BY <3>1, CallBounds DEF Made, Forwards
    <3>3. n <= Forwards(r)
      BY <2>1 DEF GoodCall
    <3>4. k <= Forwards(r)
      BY <2>1, <3>2, <3>3
    <3>5. Went(r) => Routable(r, new)
      BY <2>1, <3>2 DEF GoodCall, Routable
    <3>6. QED
      BY <2>1, <3>4, <3>5 DEF GoodCall
  <2>2. QED
    BY <1>1, <2>1
<1>2. CASE r.pc = "wait" /\ s \in {retried(r), [r EXCEPT !.pc = "ok"], [r EXCEPT !.pc = "failed"]}
  <2>1. r \in Made /\ Went(r)
    BY <1>2, CallTypes DEF Unused, Went
  <2>2. /\ s \in Made
        /\ s.caller = r.caller /\ s.target = r.target /\ s.hop = r.hop /\ s.depth = r.depth
        /\ s.relayed = r.relayed /\ s.kind = r.kind /\ s.pc # "refused" /\ Went(s)
        /\ s.pc = "send" => r.kind = "call" /\ s.attempt = r.attempt + 1
        /\ s.pc # "send" => s.attempt = r.attempt
    BY <1>2, <2>1, WaitMoves
  <2>3. r # Unused /\ s # Unused /\ s \in CallState
    BY <2>1, <2>2, CallTypes DEF Made, Unused
  <2>4. \A m : GoodRequest(m, r) => GoodRequest(m, s)
    BY <2>2, <2>3 DEF GoodRequest
  <2>5. ASSUME NEW n \in Nat, NEW reg, NEW new, GoodCall(r, n, reg),
               \A a \in Agents : reg[a] # None => new[a] # None, NEW k \in Nat, k <= n
        PROVE  GoodCall(s, k, new)
    <3>1. Forwards(s) = r.attempt /\ Forwards(r) = r.attempt /\ r.attempt \in Nat
      BY <1>2, <2>1, <2>2, CallBounds DEF Forwards, Made
    <3>2. k <= Forwards(s)
      BY <2>5, <3>1 DEF GoodCall
    <3>3. r.target \in Agents /\ Routable(r, reg)
      BY <2>1, <2>5 DEF Made, GoodCall
    <3>4. Routable(s, new)
      BY <2>2, <2>5, <3>3 DEF Routable
    <3>5. s.kind # "call" => s.attempt = 1
      BY <2>2, <2>5 DEF GoodCall
    <3>6. /\ s.kind = "direct" => s.pc # "send" /\ ~s.relayed
          /\ s.relayed => s.depth = s.hop + 1 /\ s.hop <= MaxHops
      BY <2>2, <2>5 DEF GoodCall
    <3>7. QED
      BY <2>2, <3>2, <3>4, <3>5, <3>6 DEF GoodCall
  <2>6. QED
    BY <2>3, <2>4, <2>5
<1>3. QED
  BY <1>1, <1>2 DEF Evolves

\* The requests of a call can be counted.
LEMMA WorkTypes ==
    ASSUME TypeOK, IsFiniteSet(net), NEW c \in Calls
    PROVE  /\ IsFiniteSet(NetOf(c)) /\ Cardinality(NetOf(c)) \in Nat
           /\ runs[c] \in Nat /\ Work(c) \in Nat
<1>1. NetOf(c) \in SUBSET net
  BY DEF NetOf
<1>2. IsFiniteSet(NetOf(c))
  BY <1>1, FS_Subset
<1>3. Cardinality(NetOf(c)) \in Nat
  BY <1>2, FS_CardinalityType
<1>4. runs[c] \in Nat
  BY DEF TypeOK
<1>5. QED
  BY <1>2, <1>3, <1>4 DEF Work

\* A step that makes and forwards no call keeps what holds of calls and requests.
LEMMA Progress ==
    ASSUME TypeOK, CallInv, RequestInv, TypeOK',
           \A c \in Calls : Evolves(call[c], call'[c]),
           \A c \in Calls : Work(c)' <= Work(c),
           \A a \in Agents : cache[a] # None => cache'[a] # None,
           IsFiniteSet(net'), net' \cup handler' \subseteq net \cup handler
    PROVE  CallInv' /\ RequestInv'
<1>1. \A c \in Calls : Work(c) \in Nat
  BY WorkTypes DEF RequestInv
<1>2. ASSUME NEW c \in Calls PROVE Work(c)' \in Nat
  <2>1. (IsFiniteSet(net) /\ TypeOK => Work(c) \in Nat)'
    BY WorkTypes, PTL
  <2>2. QED
    BY <2>1
<1>3. ASSUME NEW c \in Calls
      PROVE  /\ call'[c] = Unused => Work(c)' = 0
             /\ call'[c] # Unused => GoodCall(call'[c], Work(c)', cache')
  <2>1. call[c] \in CallState /\ Evolves(call[c], call'[c])
    BY DEF TypeOK
  <2>2. /\ call'[c] = Unused <=> call[c] = Unused
        /\ call[c] # Unused => \A n \in Nat : \A reg, new :
               GoodCall(call[c], n, reg) /\ (\A a \in Agents : reg[a] # None => new[a] # None)
                   => \A k \in Nat : k <= n => GoodCall(call'[c], k, new)
    BY <2>1, EvolvesGood
  <2>3. Work(c) \in Nat /\ Work(c)' \in Nat /\ Work(c)' <= Work(c)
    BY <1>1, <1>2
  <2>4. CASE call[c] = Unused
    <3>1. Work(c) = 0
      BY <2>4 DEF CallInv
    <3>2. QED
      BY <2>2, <2>3, <2>4, <3>1
  <2>5. CASE call[c] # Unused
    <3>1. GoodCall(call[c], Work(c), cache)
      BY <2>5 DEF CallInv
    <3>2. QED
      BY <2>2, <2>3, <2>5, <3>1
  <2>6. QED
    BY <2>4, <2>5
<1>4. ASSUME NEW m \in net' \cup handler' PROVE GoodRequest(m, call'[m.call])
  <2>1. m \in net \cup handler /\ m.call \in Calls
    BY DEF TypeOK, Request
  <2>2. GoodRequest(m, call[m.call]) /\ call[m.call] \in CallState
        /\ Evolves(call[m.call], call'[m.call])
    BY <2>1 DEF RequestInv, TypeOK
  <2>3. QED
    BY <2>2, EvolvesGood
<1>5. CallInv'
  BY <1>3 DEF CallInv
<1>6. RequestInv'
  BY <1>4 DEF RequestInv
<1>7. QED
  BY <1>5, <1>6

\* The number of requests of a call depends on net and runs alone.
LEMMA SameWork ==
    ASSUME net' = net, runs' = runs, NEW c \in Calls
    PROVE  Work(c)' = Work(c)
BY DEF Work, NetOf

-----------------------------------------------------------------------------

Registering == [pc : {"insert", "cache", "serve"}, agent : Agents, endpoint : Endpoints]

LEMMA UpsertTypes ==
    ASSUME TypeOK, NEW t \in Tasks, upsert[t] # Idle
    PROVE  upsert[t] \in Registering /\ upsert[t].agent \in Agents
           /\ upsert[t].endpoint \in Endpoints /\ upsert[t].endpoint # None
<1>1. upsert[t] \in {Idle} \cup Registering
  BY DEF TypeOK, Registering
<1>2. QED
  BY <1>1, NoneAssumption DEF Registering

\* The steps of a registration.
LEMMA RegistrySteps ==
    ASSUME TypeOK, RegistryInv, NEW t \in Tasks,
           \/ \E a \in Agents, e \in Endpoints : register(t, a, e)
           \/ upsert_insert(t) \/ upsert_cache(t) \/ serve(t) \/ RegisterFails(t)
    PROVE  /\ TypeOK' /\ RegistryInv'
           /\ \A a \in Agents : cache[a] # None => cache'[a] # None
           /\ UNCHANGED <<call, net, handler, runs>>
<1>1. /\ table \in [Agents -> Endpoints \cup {None}]
      /\ cache \in [Agents -> Endpoints \cup {None}]
      /\ serving \in [Agents -> Endpoints \cup {None}]
      /\ upsert \in [Tasks -> {Idle} \cup Registering]
      /\ moves \in 0 .. MaxRegistrations /\ failures \in 0 .. MaxFailures
  BY DEF TypeOK, Registering
<1>2. SUFFICES /\ table' \in [Agents -> Endpoints \cup {None}]
               /\ cache' \in [Agents -> Endpoints \cup {None}]
               /\ serving' \in [Agents -> Endpoints \cup {None}]
               /\ upsert' \in [Tasks -> {Idle} \cup Registering]
               /\ moves' \in 0 .. MaxRegistrations /\ failures' \in 0 .. MaxFailures
               /\ RegistryInv'
               /\ \A a \in Agents : cache[a] # None => cache'[a] # None
               /\ UNCHANGED <<call, net, handler, runs>>
  BY DEF TypeOK, Registering
<1>3. ASSUME NEW a \in Agents, NEW e \in Endpoints, register(t, a, e)
      PROVE  /\ table' \in [Agents -> Endpoints \cup {None}]
             /\ cache' \in [Agents -> Endpoints \cup {None}]
             /\ serving' \in [Agents -> Endpoints \cup {None}]
             /\ upsert' \in [Tasks -> {Idle} \cup Registering]
             /\ moves' \in 0 .. MaxRegistrations /\ failures' \in 0 .. MaxFailures
             /\ RegistryInv'
             /\ \A b \in Agents : cache[b] # None => cache'[b] # None
             /\ UNCHANGED <<call, net, handler, runs>>
  <2> DEFINE u == [pc |-> "insert", agent |-> a, endpoint |-> e]
  <2>1. u \in Registering /\ u.pc = "insert"
    BY DEF Registering
  <2>2. /\ upsert' = [upsert EXCEPT ![t] = u] /\ serving' = [serving EXCEPT ![a] = None]
        /\ moves < MaxRegistrations /\ moves' = moves + 1
        /\ UNCHANGED <<table, cache, call, net, handler, runs, failures>>
    BY <1>3 DEF register
  <2> HIDE DEF u
  <2>3. upsert' \in [Tasks -> {Idle} \cup Registering]
    BY <1>1, <2>1, <2>2
  <2>4. moves' \in 0 .. MaxRegistrations
    BY <1>1, <2>2, CallBounds
  <2>5. RegistryInv'
    BY <1>1, <2>1, <2>2 DEF RegistryInv
  <2>6. QED
    BY <1>1, <2>2, <2>3, <2>4, <2>5
<1>4. CASE upsert_insert(t)
  <2>1. upsert[t] # Idle
    BY <1>4 DEF upsert_insert, Idle
  <2>2. PICK u : u = [upsert[t] EXCEPT !.pc = "cache"]
    OBVIOUS
  <2>3. upsert[t] \in Registering /\ upsert[t].endpoint # None
    BY <2>1, UpsertTypes
  <2>4. u \in Registering /\ u.agent = upsert[t].agent
    BY <2>2, <2>3 DEF Registering
  <2>5. upsert' = [upsert EXCEPT ![t] = u]
    BY <1>1, <1>4, <2>2 DEF upsert_insert
  <2>6. upsert[t].agent \in Agents /\ upsert[t].endpoint \in Endpoints
    BY <2>3 DEF Registering
  <2>7. /\ table' = [table EXCEPT ![upsert[t].agent] = upsert[t].endpoint]
        /\ UNCHANGED <<cache, serving, moves, call, net, handler, runs, failures>>
    BY <1>4 DEF upsert_insert
  <2>8. table'[upsert[t].agent] # None /\ \A a \in Agents : table[a] # None => table'[a] # None
    BY <1>1, <2>3, <2>6, <2>7
  <2>9. RegistryInv'
    <3>1. \A a \in Agents : cache'[a] # None => table'[a] # None
      BY <2>7, <2>8 DEF RegistryInv
    <3>2. ASSUME NEW k \in Tasks, upsert'[k].pc = "cache" PROVE table'[upsert'[k].agent] # None
      <4>1. CASE k = t
        BY <1>1, <2>4, <2>5, <2>8, <4>1
      <4>2. CASE k # t
        <5>1. upsert'[k] = upsert[k]
          BY <1>1, <2>5, <4>2
        <5>2. upsert[k].agent \in Agents
          BY <3>2, <5>1, UpsertTypes DEF Idle
        <5>3. QED
          BY <2>8, <3>2, <5>1, <5>2 DEF RegistryInv
      <4>3. QED
        BY <4>1, <4>2
    <3>3. QED
      BY <3>1, <3>2 DEF RegistryInv
  <2>10. upsert' \in [Tasks -> {Idle} \cup Registering]
    BY <1>1, <2>4, <2>5
  <2>11. table' \in [Agents -> Endpoints \cup {None}]
    BY <1>1, <2>6, <2>7
  <2>12. QED
    BY <1>1, <2>7, <2>9, <2>10, <2>11
<1>5. CASE upsert_cache(t)
  <2>1. upsert[t] # Idle
    BY <1>5 DEF upsert_cache, Idle
  <2>2. PICK u : u = [upsert[t] EXCEPT !.pc = "serve"]
    OBVIOUS
  <2>3. upsert[t] \in Registering /\ upsert[t].endpoint # None
    BY <2>1, UpsertTypes
  <2>4. u \in Registering /\ u.agent = upsert[t].agent /\ u.pc = "serve"
    BY <2>2, <2>3 DEF Registering
  <2>5. upsert' = [upsert EXCEPT ![t] = u]
    BY <1>1, <1>5, <2>2 DEF upsert_cache
  <2>6. upsert[t].agent \in Agents /\ upsert[t].endpoint \in Endpoints
    BY <2>3 DEF Registering
  <2>7. /\ cache' = [cache EXCEPT ![upsert[t].agent] = upsert[t].endpoint]
        /\ upsert[t].pc = "cache"
        /\ UNCHANGED <<table, serving, moves, call, net, handler, runs, failures>>
    BY <1>5 DEF upsert_cache
  <2>8. RegistryInv'
    <3>1. table[upsert[t].agent] # None
      BY <2>7 DEF RegistryInv
    <3>2. \A a \in Agents : cache'[a] # None => table'[a] # None
      BY <1>1, <2>6, <2>7, <3>1 DEF RegistryInv
    <3>3. \A k \in Tasks : upsert'[k].pc = "cache" => upsert'[k] = upsert[k]
      BY <1>1, <2>4, <2>5
    <3>4. QED
      BY <2>7, <3>2, <3>3 DEF RegistryInv
  <2>9. upsert' \in [Tasks -> {Idle} \cup Registering]
    BY <1>1, <2>4, <2>5
  <2>10. cache' \in [Agents -> Endpoints \cup {None}]
    BY <1>1, <2>6, <2>7
  <2>11. \A a \in Agents : cache[a] # None => cache'[a] # None
    BY <1>1, <2>3, <2>6, <2>7
  <2>12. QED
    BY <1>1, <2>7, <2>8, <2>9, <2>10, <2>11
<1>6. CASE serve(t) \/ RegisterFails(t)
  <2>1. upsert[t] # Idle
    BY <1>6 DEF serve, RegisterFails, Idle
  <2>2. upsert[t].agent \in Agents /\ upsert[t].endpoint \in Endpoints
    BY <2>1, UpsertTypes
  <2>3. upsert' = [upsert EXCEPT ![t] = Idle]
        /\ UNCHANGED <<table, cache, moves, call, net, handler, runs>>
    BY <1>6 DEF serve, RegisterFails
  <2>4. serving' \in [Agents -> Endpoints \cup {None}]
    BY <1>1, <1>6, <2>2 DEF serve, RegisterFails
  <2>5. failures' \in 0 .. MaxFailures
    BY <1>1, <1>6, CallBounds DEF serve, RegisterFails
  <2>6. upsert' \in [Tasks -> {Idle} \cup Registering]
    BY <1>1, <2>3
  <2>7. RegistryInv'
    <3>1. \A k \in Tasks : upsert'[k].pc = "cache" => upsert'[k] = upsert[k]
      BY <1>1, <2>3 DEF Idle
    <3>2. QED
      BY <2>3, <3>1 DEF RegistryInv
  <2>8. QED
    BY <1>1, <2>3, <2>4, <2>5, <2>6, <2>7
<1>7. QED
  BY <1>3, <1>4, <1>5, <1>6

-----------------------------------------------------------------------------

\* One caller moves on, or none.
LEMMA OneEvolves ==
    ASSUME TypeOK, NEW c \in Calls, NEW s, Evolves(call[c], s),
           call' = [call EXCEPT ![c] = s] \/ call' = call
    PROVE  /\ call' \in [Calls -> CallState]
           /\ \A k \in Calls : Evolves(call[k], call'[k])
<1>1. call \in [Calls -> CallState]
  BY DEF TypeOK
<1>2. s \in CallState
  BY <1>1, EvolvesGood
<1>3. call' \in [Calls -> CallState]
  BY <1>1, <1>2
<1>4. \A k \in Calls : call'[k] = call[k] \/ (k = c /\ call'[k] = s)
  BY <1>1
<1>5. QED
  BY <1>3, <1>4 DEF Evolves

\* The caller of request m hears from the gateway.
LEMMA Answered ==
    ASSUME TypeOK, NEW m, m.call \in Calls,
           Unavailable(m) \/ call' = IF Awaits(m) THEN [call EXCEPT ![m.call].pc = "ok"] ELSE call
    PROVE  /\ call' \in [Calls -> CallState]
           /\ \A k \in Calls : Evolves(call[k], call'[k])
<1>1. PICK c \in Calls : c = m.call
  OBVIOUS
<1>2. call \in [Calls -> CallState]
  BY DEF TypeOK
<1>3. CASE call' = call
  BY <1>1, <1>2, <1>3 DEF Evolves
<1>4. CASE call[c].pc = "wait" /\ call' = [call EXCEPT ![c] = retried(call[c])]
  <2>1. Evolves(call[c], retried(call[c]))
    BY <1>4 DEF Evolves
  <2>2. QED
    BY <1>4, <2>1, OneEvolves
<1>5. CASE call[c].pc = "wait" /\ call' = [call EXCEPT ![c] = [call[c] EXCEPT !.pc = "ok"]]
  <2>1. Evolves(call[c], [call[c] EXCEPT !.pc = "ok"])
    BY <1>5 DEF Evolves
  <2>2. QED
    BY <1>5, <2>1, OneEvolves
<1>6. \/ call' = call
      \/ call[c].pc = "wait" /\ call' = [call EXCEPT ![c] = retried(call[c])]
      \/ call[c].pc = "wait" /\ call' = [call EXCEPT ![c] = [call[c] EXCEPT !.pc = "ok"]]
  BY <1>1, <1>2 DEF Unavailable, Awaits
<1>7. QED
  BY <1>3, <1>4, <1>5, <1>6

\* A step of calls and requests that leaves the registry alone.
LEMMA CallStep ==
    ASSUME PathInv, UNCHANGED registry,
           call' \in [Calls -> CallState], \A c \in Calls : Evolves(call[c], call'[c]),
           \A c \in Calls : Work(c)' <= Work(c),
           IsFiniteSet(net'), net' \cup handler' \subseteq net \cup handler,
           runs' \in [Calls -> Nat], failures' \in 0 .. MaxFailures
    PROVE  PathInv'
<1>1. TypeOK /\ RegistryInv /\ RequestInv /\ CallInv
  BY DEF PathInv
<1>2. table' = table /\ cache' = cache /\ serving' = serving /\ upsert' = upsert /\ moves' = moves
  BY DEF registry
<1>3. net' \subseteq Request /\ handler' \subseteq Request
  BY <1>1 DEF TypeOK
<1>4. TypeOK'
  BY <1>1, <1>2, <1>3 DEF TypeOK
<1>5. RegistryInv'
  BY <1>1, <1>2 DEF RegistryInv
<1>6. \A a \in Agents : cache[a] # None => cache'[a] # None
  BY <1>2
<1>7. CallInv' /\ RequestInv'
  BY <1>1, <1>4, <1>6, Progress
<1>8. QED
  BY <1>4, <1>5, <1>7 DEF PathInv

LEMMA TimeoutStep ==
    ASSUME PathInv, NEW c \in Calls, timeout(c)
    PROVE  PathInv'
<1>1. TypeOK /\ RequestInv
  BY DEF PathInv
<1>2. PICK s \in {retried(call[c]), [call[c] EXCEPT !.pc = "failed"]} :
          call' = [call EXCEPT ![c] = s]
  BY DEF timeout
<1>3. Evolves(call[c], s)
  BY <1>2 DEF timeout, Evolves
<1>4. call' \in [Calls -> CallState] /\ \A k \in Calls : Evolves(call[k], call'[k])
  BY <1>1, <1>2, <1>3, OneEvolves
<1>5. UNCHANGED <<registry, net, handler, runs, failures>>
  BY DEF timeout
<1>6. \A k \in Calls : Work(k)' = Work(k) /\ Work(k) \in Nat
  BY <1>1, <1>5, SameWork, WorkTypes DEF RequestInv
<1>7. \A k \in Calls : Work(k)' <= Work(k)
  BY <1>6
<1>8. IsFiniteSet(net') /\ net' \cup handler' \subseteq net \cup handler
      /\ runs' \in [Calls -> Nat] /\ failures' \in 0 .. MaxFailures
  BY <1>1, <1>5 DEF TypeOK, RequestInv
<1>9. QED
  BY <1>4, <1>5, <1>7, <1>8, CallStep

\* A request leaves the network, or not.
LEMMA LeavesNet ==
    ASSUME TypeOK, RequestInv, NEW m \in net, net' = net \ {m}
    PROVE  /\ m.call \in Calls /\ IsFiniteSet(net')
           /\ \A c \in Calls : c # m.call => NetOf(c)' = NetOf(c)
           /\ Cardinality(NetOf(m.call)) \in Nat
           /\ Cardinality(NetOf(m.call))' = Cardinality(NetOf(m.call)) - 1
<1>1. m.call \in Calls /\ IsFiniteSet(net)
  BY DEF TypeOK, Request, RequestInv
<1>2. IsFiniteSet(net')
  BY <1>1, FS_RemoveElement
<1>3. \A c \in Calls : c # m.call => NetOf(c)' = NetOf(c)
  BY DEF NetOf
<1>4. m \in NetOf(m.call) /\ NetOf(m.call)' = NetOf(m.call) \ {m}
  BY DEF NetOf
<1>5. IsFiniteSet(NetOf(m.call)) /\ Cardinality(NetOf(m.call)) \in Nat
  BY <1>1, WorkTypes
<1>6. Cardinality(NetOf(m.call) \ {m}) =
        IF m \in NetOf(m.call) THEN Cardinality(NetOf(m.call)) - 1 ELSE Cardinality(NetOf(m.call))
  BY <1>5, FS_RemoveElement, Zenon
<1>7. QED
  BY <1>1, <1>2, <1>3, <1>4, <1>5, <1>6

LEMMA UnreachableStep ==
    ASSUME PathInv, NEW m \in net, unreachable(m)
    PROVE  PathInv'
<1>1. TypeOK /\ RequestInv
  BY DEF PathInv
<1>2. net' = net \ {m} /\ Unavailable(m) /\ UNCHANGED <<registry, handler, runs, failures>>
  BY DEF unreachable
<1>3. /\ m.call \in Calls /\ IsFiniteSet(net')
      /\ \A c \in Calls : c # m.call => NetOf(c)' = NetOf(c)
      /\ Cardinality(NetOf(m.call)) \in Nat
      /\ Cardinality(NetOf(m.call))' = Cardinality(NetOf(m.call)) - 1
  BY <1>1, <1>2, LeavesNet
<1>4. call' \in [Calls -> CallState] /\ \A k \in Calls : Evolves(call[k], call'[k])
  BY <1>1, <1>2, <1>3, Answered
<1>5. ASSUME NEW c \in Calls PROVE Work(c)' <= Work(c)
  <2>1. runs[c] \in Nat /\ Cardinality(NetOf(c)) \in Nat
    BY <1>1, WorkTypes DEF RequestInv
  <2>2. CASE c = m.call
    BY <1>2, <1>3, <2>1, <2>2 DEF Work
  <2>3. CASE c # m.call
    BY <1>2, <1>3, <2>1, <2>3 DEF Work
  <2>4. QED
    BY <2>2, <2>3
<1>6. net' \cup handler' \subseteq net \cup handler
      /\ runs' \in [Calls -> Nat] /\ failures' \in 0 .. MaxFailures
  BY <1>1, <1>2 DEF TypeOK
<1>7. QED
  BY <1>2, <1>3, <1>4, <1>5, <1>6, CallStep

LEMMA DeliverStep ==
    ASSUME PathInv, NEW m \in net, deliver(m)
    PROVE  PathInv'
<1>1. TypeOK /\ RequestInv
  BY DEF PathInv
<1>2. /\ net' = net \ {m} /\ handler' = handler \cup {m}
      /\ runs' = [runs EXCEPT ![m.call] = @ + 1] /\ UNCHANGED <<registry, call, failures>>
  BY DEF deliver
<1>3. /\ m.call \in Calls /\ IsFiniteSet(net')
      /\ \A c \in Calls : c # m.call => NetOf(c)' = NetOf(c)
      /\ Cardinality(NetOf(m.call)) \in Nat
      /\ Cardinality(NetOf(m.call))' = Cardinality(NetOf(m.call)) - 1
  BY <1>1, <1>2, LeavesNet
<1>4. call' \in [Calls -> CallState] /\ \A k \in Calls : Evolves(call[k], call'[k])
  BY <1>1, <1>2 DEF TypeOK, Evolves
<1>5. ASSUME NEW c \in Calls PROVE Work(c)' <= Work(c)
  <2>1. runs[c] \in Nat /\ Cardinality(NetOf(c)) \in Nat
    BY <1>1, WorkTypes DEF RequestInv
  <2>2. runs'[c] = IF c = m.call THEN runs[c] + 1 ELSE runs[c]
    BY <1>1, <1>2 DEF TypeOK
  <2>3. CASE c = m.call
    BY <1>3, <2>1, <2>2, <2>3 DEF Work
  <2>4. CASE c # m.call
    BY <1>3, <2>1, <2>2, <2>4 DEF Work
  <2>5. QED
    BY <2>3, <2>4
<1>6. net' \cup handler' \subseteq net \cup handler
      /\ runs' \in [Calls -> Nat] /\ failures' \in 0 .. MaxFailures
  <2>1. runs \in [Calls -> Nat] /\ failures \in 0 .. MaxFailures
    BY <1>1 DEF TypeOK
  <2>2. \A c \in Calls : runs[c] + 1 \in Nat
    BY <2>1
  <2>3. runs' \in [Calls -> Nat]
    BY <1>2, <1>3, <2>1, <2>2
  <2>4. QED
    BY <1>2, <2>1, <2>3
<1>7. QED
  BY <1>2, <1>3, <1>4, <1>5, <1>6, CallStep

\* reply and handler_error: the request is done with.
LEMMA AnswerStep ==
    ASSUME PathInv, NEW m \in handler, reply(m) \/ handler_error(m)
    PROVE  PathInv'
<1>1. TypeOK /\ RequestInv
  BY DEF PathInv
<1>2. m.call \in Calls
  BY <1>1 DEF TypeOK, Request
<1>3. handler' = handler \ {m} /\ UNCHANGED <<registry, net, runs>>
  BY DEF reply, handler_error
<1>4. Unavailable(m) \/ call' = IF Awaits(m) THEN [call EXCEPT ![m.call].pc = "ok"] ELSE call
  BY DEF reply, handler_error
<1>5. call' \in [Calls -> CallState] /\ \A k \in Calls : Evolves(call[k], call'[k])
  BY <1>1, <1>2, <1>4, Answered
<1>6. \A k \in Calls : Work(k)' = Work(k) /\ Work(k) \in Nat
  BY <1>1, <1>3, SameWork, WorkTypes DEF RequestInv
<1>7. \A k \in Calls : Work(k)' <= Work(k)
  BY <1>6
<1>8. failures' \in 0 .. MaxFailures
  BY <1>1, CallBounds DEF TypeOK, reply, handler_error
<1>9. IsFiniteSet(net') /\ net' \cup handler' \subseteq net \cup handler /\ runs' \in [Calls -> Nat]
  BY <1>1, <1>3 DEF TypeOK, RequestInv
<1>10. QED
  BY <1>3, <1>5, <1>7, <1>8, <1>9, CallStep

\* The cache after a restart has every agent that it had, from the table.
LEMMA RestartStep ==
    ASSUME PathInv, Restart
    PROVE  PathInv'
<1>1. TypeOK /\ RegistryInv /\ RequestInv /\ CallInv
  BY DEF PathInv
<1>2. /\ table' = Seeded(table) /\ cache' = Seeded(table) /\ upsert' = [t \in Tasks |-> Idle]
      /\ call' = [c \in Calls |-> IF call[c].pc = "wait" THEN retried(call[c]) ELSE call[c]]
      /\ UNCHANGED <<serving, moves, net, handler, runs>>
  BY DEF Restart
<1>3. failures' \in 0 .. MaxFailures
  BY <1>1, CallBounds DEF TypeOK, Restart
<1>4. /\ Seeded(table) \in [Agents -> Endpoints \cup {None}]
      /\ \A a \in Agents : table[a] # None => Seeded(table)[a] # None
  BY <1>1, SeededTypes DEF TypeOK
<1>5. \A c \in Calls : Evolves(call[c], call'[c])
  BY <1>2 DEF Evolves
<1>6. call' \in [Calls -> CallState]
  <2>1. \A c \in Calls : call'[c] \in CallState
    BY <1>1, <1>5, EvolvesGood DEF TypeOK
  <2>2. QED
    BY <1>2, <2>1
<1>7. TypeOK'
  <2>1. upsert' \in [Tasks -> {Idle} \cup Registering]
    BY <1>2
  <2>2. QED
    BY <1>1, <1>2, <1>3, <1>4, <1>6, <2>1 DEF TypeOK, Registering
<1>8. RegistryInv'
  BY <1>2 DEF RegistryInv, Idle
<1>9. \A a \in Agents : cache[a] # None => cache'[a] # None
  BY <1>1, <1>2, <1>4 DEF RegistryInv
<1>10. \A k \in Calls : Work(k)' = Work(k) /\ Work(k) \in Nat
  BY <1>1, <1>2, SameWork, WorkTypes DEF RequestInv
<1>11. \A k \in Calls : Work(k)' <= Work(k)
  BY <1>10
<1>12. IsFiniteSet(net') /\ net' \cup handler' \subseteq net \cup handler
  BY <1>1, <1>2 DEF RequestInv
<1>13. QED
  BY <1>1, <1>5, <1>7, <1>8, <1>9, <1>11, <1>12, Progress DEF PathInv

-----------------------------------------------------------------------------

\* One call is made, forwarded or refused; d requests are sent for it.
LEMMA OneCallStep ==
    ASSUME PathInv, UNCHANGED <<registry, handler, runs, failures>>,
           NEW c \in Calls, NEW s \in Made, call' = [call EXCEPT ![c] = s],
           NEW d \in {0, 1}, d = 0 => net' = net,
           d = 1 => \E m \in Request : m.call = c /\ GoodRequest(m, s) /\ net' = net \cup {m},
           \A m : GoodRequest(m, call[c]) => GoodRequest(m, s),
           \A n \in Nat : n <= Work(c) + d => GoodCall(s, n, cache)
    PROVE  PathInv'
<1>1. TypeOK /\ RegistryInv /\ RequestInv /\ CallInv
  BY DEF PathInv
<1>2. table' = table /\ cache' = cache /\ serving' = serving /\ upsert' = upsert /\ moves' = moves
  BY DEF registry
<1>3. call \in [Calls -> CallState] /\ s \in CallState /\ s # Unused
  BY <1>1, CallTypes DEF TypeOK, Made, Unused
<1>4. call'[c] = s /\ \A k \in Calls : k # c => call'[k] = call[k]
  BY <1>3
<1>5. /\ net' \subseteq Request /\ IsFiniteSet(net') /\ IsFiniteSet(NetOf(c)')
      /\ \A k \in Calls : k # c => NetOf(k)' = NetOf(k)
      /\ Cardinality(NetOf(c)') <= Cardinality(NetOf(c)) + d
  <2>1. IsFiniteSet(net) /\ IsFiniteSet(NetOf(c)) /\ Cardinality(NetOf(c)) \in Nat
    BY <1>1, WorkTypes DEF RequestInv
  <2>2. CASE d = 0
    BY <1>1, <2>1, <2>2 DEF TypeOK, NetOf
  <2>3. CASE d = 1
    <3>1. PICK m \in Request : m.call = c /\ net' = net \cup {m}
      BY <2>3
    <3>2. NetOf(c)' = NetOf(c) \cup {m} /\ \A k \in Calls : k # c => NetOf(k)' = NetOf(k)
      BY <3>1 DEF NetOf
    <3>3. IsFiniteSet(net') /\ net' \subseteq Request
      BY <1>1, <2>1, <3>1, FS_AddElement DEF TypeOK
    <3>4. /\ IsFiniteSet(NetOf(c) \cup {m})
          /\ Cardinality(NetOf(c) \cup {m}) =
               IF m \in NetOf(c) THEN Cardinality(NetOf(c)) ELSE Cardinality(NetOf(c)) + 1
      BY <2>1, FS_AddElement, Zenon
    <3>5. Cardinality(NetOf(c) \cup {m}) <= Cardinality(NetOf(c)) + 1
      BY <2>1, <3>4
    <3>6. QED
      BY <2>3, <3>2, <3>3, <3>4, <3>5
  <2>4. QED
    BY <2>2, <2>3
<1>6. TypeOK'
  BY <1>1, <1>2, <1>3, <1>5 DEF TypeOK
<1>7. RegistryInv'
  BY <1>1, <1>2 DEF RegistryInv
<1>8. ASSUME NEW k \in Calls
      PROVE  /\ call'[k] = Unused => Work(k)' = 0
             /\ call'[k] # Unused => GoodCall(call'[k], Work(k)', cache')
  <2>1. CASE k # c
    <3>1. Work(k)' = Work(k)
      BY <1>5, <2>1 DEF Work
    <3>2. QED
      BY <1>1, <1>2, <1>4, <2>1, <3>1 DEF CallInv
  <2>2. CASE k = c
    <3>1. Cardinality(NetOf(c)') \in Nat
      BY <1>5, FS_CardinalityType
    <3>2. runs[c] \in Nat /\ Cardinality(NetOf(c)) \in Nat
      BY <1>1, WorkTypes DEF RequestInv
    <3>3. Work(c)' \in Nat /\ Work(c)' <= Work(c) + d
      BY <1>5, <3>1, <3>2 DEF Work
    <3>4. QED
      BY <1>2, <1>3, <1>4, <2>2, <3>3
  <2>3. QED
    BY <2>1, <2>2
<1>9. ASSUME NEW m \in net' \cup handler' PROVE GoodRequest(m, call'[m.call])
  <2>1. m.call \in Calls
    BY <1>6 DEF TypeOK, Request
  <2>2. CASE m \in net \cup handler
    <3>1. GoodRequest(m, call[m.call])
      BY <1>1, <2>2 DEF RequestInv
    <3>2. QED
      BY <1>4, <2>1, <3>1
  <2>3. CASE m \notin net \cup handler
    <3>1. d = 1
      BY <2>3
    <3>2. m.call = c /\ GoodRequest(m, s)
      BY <2>3, <3>1
    <3>3. QED
      BY <1>4, <3>2
  <2>4. QED
    BY <2>2, <2>3
<1>10. CallInv'
  BY <1>8 DEF CallInv
<1>11. RequestInv'
  BY <1>5, <1>9 DEF RequestInv
<1>12. QED
  BY <1>6, <1>7, <1>10, <1>11 DEF PathInv

LEMMA UnsentCallStep ==
    ASSUME PathInv, UNCHANGED <<registry, net, handler, runs, failures>>,
           NEW c \in Calls, NEW s \in Made, call' = [call EXCEPT ![c] = s],
           \A m : GoodRequest(m, call[c]) => GoodRequest(m, s),
           \A n \in Nat : n <= Work(c) => GoodCall(s, n, cache)
    PROVE  PathInv'
<1>1. PICK d \in {0, 1} : d = 0
  OBVIOUS
<1>2. Work(c) \in Nat
  BY WorkTypes DEF PathInv, RequestInv
<1>3. /\ d = 0 => net' = net
      /\ d = 1 => \E m \in Request : m.call = c /\ GoodRequest(m, s) /\ net' = net \cup {m}
  BY <1>1
<1>4. \A n \in Nat : n <= Work(c) + d => GoodCall(s, n, cache)
  BY <1>1, <1>2
<1>5. QED
  BY <1>3, <1>4, OneCallStep

LEMMA SentCallStep ==
    ASSUME PathInv, UNCHANGED <<registry, handler, runs, failures>>,
           NEW c \in Calls, NEW s \in Made, call' = [call EXCEPT ![c] = s],
           NEW q \in Request, q.call = c, GoodRequest(q, s), net' = net \cup {q},
           \A m : GoodRequest(m, call[c]) => GoodRequest(m, s),
           \A n \in Nat : n <= Work(c) + 1 => GoodCall(s, n, cache)
    PROVE  PathInv'
<1>1. PICK d \in {0, 1} : d = 1
  OBVIOUS
<1>2. /\ d = 0 => net' = net
      /\ d = 1 => \E m \in Request : m.call = c /\ GoodRequest(m, s) /\ net' = net \cup {m}
  BY <1>1
<1>3. \A n \in Nat : n <= Work(c) + d => GoodCall(s, n, cache)
  BY <1>1
<1>4. QED
  BY <1>2, <1>3, OneCallStep

\* A call before it was made.
LEMMA UnusedCall ==
    ASSUME PathInv, NEW c \in Calls, call[c] = Unused
    PROVE  Work(c) = 0 /\ \A m : ~GoodRequest(m, call[c])
BY DEF PathInv, CallInv, GoodRequest

LEMMA NewCallStep ==
    ASSUME PathInv, NEW c \in Calls, NEW kind \in {"call", "stream"},
           NEW from \in Agents \cup {External}, NEW to \in Agents, NEW h \in Nat, NEW d \in Nat,
           NEW r \in BOOLEAN, r => d = h + 1 /\ h <= MaxHops,
           NewCall(c, kind, from, to, h, d, r)
    PROVE  PathInv'
<1> DEFINE s == [pc |-> "send", caller |-> from, target |-> to, hop |-> h, attempt |-> 1,
                 depth |-> d, relayed |-> r, kind |-> kind]
<1>1. call[c] = Unused /\ call' = [call EXCEPT ![c] = s]
      /\ UNCHANGED <<registry, net, handler, runs, failures>>
  BY DEF NewCall
<1>2. /\ s \in Made
      /\ s.pc = "send" /\ s.attempt = 1 /\ s.kind = kind /\ s.relayed = r /\ s.depth = d /\ s.hop = h
  BY CallBounds DEF Made
<1> HIDE DEF s
<1>3. Work(c) = 0 /\ \A m : ~GoodRequest(m, call[c])
  BY <1>1, UnusedCall
<1>4. ASSUME NEW n \in Nat, n <= Work(c) PROVE GoodCall(s, n, cache)
  <2>1. n <= Forwards(s) /\ ~Went(s)
    BY <1>2, <1>3, <1>4 DEF Forwards, Went
  <2>2. QED
    BY <1>2, <2>1 DEF GoodCall
<1>5. QED
  BY <1>1, <1>2, <1>3, <1>4, UnsentCallStep

\* A handler's request belongs to a call that was made.
LEMMA HandlerCall ==
    ASSUME PathInv, NEW m \in handler
    PROVE  /\ m.call \in Calls /\ m.hop \in Nat /\ call[m.call] \in Made
           /\ GoodRequest(m, call[m.call]) /\ Routable(call[m.call], cache)
           /\ GoodCall(call[m.call], Work(m.call), cache)
<1>1. m.call \in Calls /\ m.hop \in Nat
  BY DEF PathInv, TypeOK, Request
<1>2. GoodRequest(m, call[m.call])
  BY DEF PathInv, RequestInv
<1>3. call[m.call] \in CallState
  BY <1>1 DEF PathInv, TypeOK
<1>4. call[m.call] # Unused /\ Went(call[m.call])
  BY <1>2 DEF GoodRequest
<1>5. GoodCall(call[m.call], Work(m.call), cache)
  BY <1>1, <1>4 DEF PathInv, CallInv
<1>6. QED
  BY <1>1, <1>2, <1>3, <1>4, <1>5, CallTypes DEF GoodCall

\* Along a chain on which the hop count is passed on, it is one less than the depth.
LEMMA NestedStep ==
    ASSUME PathInv, NEW c \in Calls, NEW kind \in {"call", "stream"}, NEW m \in handler,
           NEW to \in Agents, Nested(c, kind, m, to)
    PROVE  PathInv'
<1>1. PICK p : p = call[m.call]
  OBVIOUS
<1>2. /\ m.hop \in Nat /\ p \in Made /\ GoodRequest(m, p) /\ Routable(p, cache)
      /\ GoodCall(p, Work(m.call), cache)
  BY <1>1, HandlerCall
<1>3. PICK r : r = (p.relayed /\ p.kind = "call" /\ p.target \in Relays)
  OBVIOUS
<1>4. PICK h : h = hop_count(p.target, m)
  OBVIOUS
<1>5. NewCall(c, kind, p.target, to, h, p.depth + 1, r)
  BY <1>1, <1>3, <1>4 DEF Nested
<1>6. p.target \in Agents /\ p.hop \in Nat /\ p.depth \in Nat /\ p.depth + 1 \in Nat
  BY <1>2 DEF Made
<1>7. r \in BOOLEAN
  BY <1>3
<1>8. h \in Nat
  BY <1>2, <1>4 DEF hop_count
<1>9. ASSUME r PROVE p.depth + 1 = h + 1 /\ h <= MaxHops
  <2>1. p.relayed /\ p.kind = "call" /\ p.target \in Relays
    BY <1>3, <1>9
  <2>2. h = m.hop /\ m.hop = next_hop(p.hop)
    BY <1>2, <1>4, <2>1 DEF hop_count, GoodRequest
  <2>3. p.depth = p.hop + 1 /\ p.hop <= MaxHops /\ next_hop(p.hop) <= MaxHops
    BY <1>2, <2>1 DEF GoodCall, Routable
  <2>4. next_hop(p.hop) = p.hop + 1
    BY <1>6, <2>3, NextHopTypes
  <2>5. QED
    BY <2>2, <2>3, <2>4
<1>10. QED
  BY <1>5, <1>6, <1>7, <1>8, <1>9, NewCallStep

LEMMA ExternalStep ==
    ASSUME PathInv, NEW c \in Calls, NEW to \in Agents, call_external(c, to)
    PROVE  PathInv'
<1>1. NewCall(c, "call", External, to, 0, 1, TRUE)
  BY DEF call_external
<1>2. 0 <= MaxHops /\ 1 = 0 + 1
  BY CallBounds
<1>3. QED
  BY <1>1, <1>2, NewCallStep

LEMMA DirectStep ==
    ASSUME PathInv, NEW c \in Calls, NEW to \in Agents, DirectCall(c, to)
    PROVE  PathInv'
<1>1. PICK s : s = [pc |-> IF cache[to] # None THEN "wait" ELSE "refused", caller |-> External,
                    target |-> to, hop |-> 0, attempt |-> 1, depth |-> 1, relayed |-> FALSE,
                    kind |-> "direct"]
  OBVIOUS
<1>2. call[c] = Unused /\ call' = [call EXCEPT ![c] = s]
      /\ UNCHANGED <<registry, handler, runs, failures>>
  BY <1>1 DEF DirectCall
<1>3. /\ s \in Made /\ s.attempt = 1 /\ s.kind = "direct" /\ ~s.relayed /\ s.target = to
      /\ s.pc = IF cache[to] # None THEN "wait" ELSE "refused"
  BY <1>1, CallBounds DEF Made
<1>4. Work(c) = 0 /\ \A m : ~GoodRequest(m, call[c])
  BY <1>2, UnusedCall
<1>5. CASE cache[to] # None
  <2>1. PICK q : q = [call |-> c, attempt |-> 1, hop |-> 0, endpoint |-> cache[to]]
    OBVIOUS
  <2>2. net' = net \cup {q}
    BY <1>5, <2>1 DEF DirectCall
  <2>3. cache[to] \in Endpoints
    BY <1>5 DEF PathInv, TypeOK
  <2>4. q \in Request /\ q.call = c
    BY <2>1, <2>3, CallBounds DEF Request
  <2>5. s.pc = "wait" /\ s # Unused
    BY <1>3, <1>5 DEF Unused
  <2>6. GoodRequest(q, s)
    BY <1>3, <2>5 DEF GoodRequest, Went
  <2>7. ASSUME NEW n \in Nat, n <= Work(c) + 1 PROVE GoodCall(s, n, cache)
    <3>1. n <= Forwards(s)
      BY <1>3, <1>4, <2>5, <2>7 DEF Forwards
    <3>2. Routable(s, cache)
      BY <1>3, <1>5 DEF Routable
    <3>3. QED
      BY <1>3, <2>5, <3>1, <3>2 DEF GoodCall
  <2>8. QED
    BY <1>2, <1>3, <1>4, <2>2, <2>4, <2>6, <2>7, SentCallStep
<1>6. CASE cache[to] = None
  <2>1. net' = net
    BY <1>6 DEF DirectCall
  <2>2. s.pc = "refused"
    BY <1>3, <1>6
  <2>3. ASSUME NEW n \in Nat, n <= Work(c) PROVE GoodCall(s, n, cache)
    <3>1. n <= Forwards(s) /\ ~Went(s)
      BY <1>3, <1>4, <2>2, <2>3 DEF Forwards, Went
    <3>2. QED
      BY <1>3, <2>2, <3>1 DEF GoodCall
  <2>4. QED
    BY <1>2, <1>3, <1>4, <2>1, <2>3, UnsentCallStep
<1>7. QED
  BY <1>5, <1>6

\* route refuses the first attempt of a call or none: a call that was forwarded
\* once passes every check again.
LEMMA RouteStep ==
    ASSUME PathInv, NEW c \in Calls, route(c)
    PROVE  PathInv'
<1>1. PICK r : r = call[c]
  OBVIOUS
<1>2. r.pc = "send" /\ call[c] # Unused /\ call \in [Calls -> CallState]
  BY <1>1 DEF route, Unused, PathInv, TypeOK
<1>3. r \in Made /\ GoodCall(r, Work(c), cache) /\ Work(c) \in Nat
  BY <1>1, <1>2, CallTypes, WorkTypes DEF PathInv, CallInv, RequestInv
<1>4. UNCHANGED <<registry, handler, runs, failures>>
  BY DEF route
<1>5. r.kind # "direct" /\ r.attempt \in 1 .. Retries + 1 /\ r.hop \in Nat /\ r.target \in Agents
  BY <1>2, <1>3 DEF GoodCall, Made
<1>6. Work(c) <= r.attempt - 1
  BY <1>2, <1>3 DEF GoodCall, Forwards
<1>7. CASE next_hop(r.hop) > MaxHops \/ ~is_allowed(r.caller, r.target) \/ cache[r.target] = None
  <2>1. PICK s : s = [r EXCEPT !.pc = "refused"]
    OBVIOUS
  <2>2. call' = [call EXCEPT ![c] = s] /\ net' = net
    BY <1>1, <1>2, <1>7, <2>1 DEF route
  <2>3. ~Went(r) /\ r.attempt = 1
    <3>1. next_hop(r.hop) \in Nat /\ MaxHops \in Nat
      BY <1>5, NextHopTypes, CallBounds
    <3>2. ~Routable(r, cache)
      BY <1>5, <1>7, <3>1 DEF Routable
    <3>3. ~Went(r)
      BY <1>3, <3>2 DEF GoodCall
    <3>4. QED
      BY <1>5, <3>3, CallBounds DEF Went
  <2>4. /\ s \in Made /\ s.pc = "refused" /\ s.attempt = 1 /\ s.kind = r.kind
        /\ s.relayed = r.relayed /\ s.depth = r.depth /\ s.hop = r.hop
    BY <1>3, <2>1, <2>3 DEF Made
  <2>5. \A m : ~GoodRequest(m, r)
    BY <2>3 DEF GoodRequest
  <2>6. ASSUME NEW n \in Nat, n <= Work(c) PROVE GoodCall(s, n, cache)
    <3>1. n <= Forwards(s) /\ ~Went(s)
      BY <1>3, <1>6, <2>3, <2>4, <2>6 DEF Forwards, Went
    <3>2. r.relayed => r.depth = r.hop + 1 /\ r.hop <= MaxHops
      BY <1>3 DEF GoodCall
    <3>3. QED
      BY <1>5, <2>4, <3>1, <3>2 DEF GoodCall
  <2>7. QED
    BY <1>1, <1>4, <2>2, <2>4, <2>5, <2>6, UnsentCallStep
<1>8. CASE ~(next_hop(r.hop) > MaxHops \/ ~is_allowed(r.caller, r.target) \/ cache[r.target] = None)
  <2>1. PICK s : s = [r EXCEPT !.pc = "wait"]
    OBVIOUS
  <2>2. PICK q : q = [call |-> c, attempt |-> r.attempt,
                      hop |-> forwarded_hop(r.kind, next_hop(r.hop)), endpoint |-> cache[r.target]]
    OBVIOUS
  <2>3. call' = [call EXCEPT ![c] = s] /\ net' = net \cup {q}
    BY <1>1, <1>2, <1>8, <2>1, <2>2 DEF route
  <2>4. next_hop(r.hop) \in Nat /\ next_hop(r.hop) <= MaxHops
    BY <1>5, <1>8, NextHopTypes, CallBounds
  <2>5. cache[r.target] \in Endpoints
    BY <1>5, <1>8 DEF PathInv, TypeOK
  <2>6. /\ q \in Request /\ q.call = c
        /\ r.kind = "call" => q.hop = next_hop(r.hop)
    BY <1>5, <2>2, <2>4, <2>5 DEF Request, forwarded_hop
  <2>7. /\ s \in Made /\ s.pc = "wait" /\ s.attempt = r.attempt /\ s.kind = r.kind
        /\ s.relayed = r.relayed /\ s.depth = r.depth /\ s.hop = r.hop
        /\ s.caller = r.caller /\ s.target = r.target
    BY <1>3, <2>1 DEF Made
  <2>8. s # Unused /\ Went(s)
    BY <2>7 DEF Unused, Went
  <2>9. GoodRequest(q, s)
    BY <2>6, <2>7, <2>8 DEF GoodRequest
  <2>10. \A m : GoodRequest(m, r) => GoodRequest(m, s)
    BY <2>7, <2>8 DEF GoodRequest
  <2>11. ASSUME NEW n \in Nat, n <= Work(c) + 1 PROVE GoodCall(s, n, cache)
    <3>1. n <= Forwards(s)
      BY <1>3, <1>5, <1>6, <2>7, <2>11 DEF Forwards
    <3>2. Routable(s, cache)
      BY <1>8, <2>4, <2>7 DEF Routable
    <3>3. /\ r.relayed => r.depth = r.hop + 1 /\ r.hop <= MaxHops
          /\ r.kind # "call" => r.attempt = 1
      BY <1>3 DEF GoodCall
    <3>4. QED
      BY <1>5, <2>7, <3>1, <3>2, <3>3 DEF GoodCall
  <2>12. QED
    BY <1>1, <1>4, <2>3, <2>6, <2>7, <2>9, <2>10, <2>11, SentCallStep
<1>9. QED
  BY <1>7, <1>8

-----------------------------------------------------------------------------

LEMMA InitPathInv == Init => PathInv
<1> SUFFICES ASSUME Init PROVE PathInv
  OBVIOUS
<1>1. table \in [Agents -> Endpoints \cup {None}] /\ cache = table /\ serving = table
  <2>1. [a \in Agents |-> None] \in [Agents -> Endpoints \cup {None}]
    OBVIOUS
  <2>2. QED
    BY <2>1, SeededTypes DEF Init
<1>2. call = [c \in Calls |-> Unused] /\ runs = [c \in Calls |-> 0] /\ net = {} /\ handler = {}
      /\ upsert = [t \in Tasks |-> Idle] /\ moves = 0 /\ failures = 0
  BY DEF Init
<1>3. TypeOK
  BY <1>1, <1>2, CallBounds DEF TypeOK, CallState
<1>4. RegistryInv
  BY <1>1, <1>2 DEF RegistryInv, Idle
<1>5. RequestInv
  BY <1>2, FS_EmptySet DEF RequestInv
<1>6. \A c \in Calls : call[c] = Unused /\ Work(c) = 0
  <2>1. \A c \in Calls : NetOf(c) = {} /\ runs[c] = 0 /\ call[c] = Unused
    BY <1>2 DEF NetOf
  <2>2. QED
    BY <2>1, FS_EmptySet DEF Work
<1>7. QED
  BY <1>3, <1>4, <1>5, <1>6 DEF PathInv, CallInv

LEMMA RegistrationStep ==
    ASSUME PathInv, NEW t \in Tasks,
           \/ \E a \in Agents, e \in Endpoints : register(t, a, e)
           \/ upsert_insert(t) \/ upsert_cache(t) \/ serve(t) \/ RegisterFails(t)
    PROVE  PathInv'
<1>1. TypeOK /\ RegistryInv /\ RequestInv /\ CallInv
  BY DEF PathInv
<1>2. /\ TypeOK' /\ RegistryInv'
      /\ \A a \in Agents : cache[a] # None => cache'[a] # None
      /\ UNCHANGED <<call, net, handler, runs>>
  BY <1>1, RegistrySteps
<1>3. \A c \in Calls : Evolves(call[c], call'[c])
  BY <1>2 DEF Evolves
<1>4. \A k \in Calls : Work(k)' = Work(k) /\ Work(k) \in Nat
  BY <1>1, <1>2, SameWork, WorkTypes DEF RequestInv
<1>5. \A k \in Calls : Work(k)' <= Work(k)
  BY <1>4
<1>6. IsFiniteSet(net') /\ net' \cup handler' \subseteq net \cup handler
  BY <1>1, <1>2 DEF RequestInv
<1>7. QED
  BY <1>1, <1>2, <1>3, <1>5, <1>6, Progress DEF PathInv

\* The invariant is inductive.
LEMMA NextPathInv == PathInv /\ [Next]_vars => PathInv'
<1> SUFFICES ASSUME PathInv, [Next]_vars PROVE PathInv'
  OBVIOUS
<1>1. CASE UNCHANGED vars
  BY <1>1 DEF vars, PathInv, TypeOK, RegistryInv, RequestInv, CallInv, Work, NetOf
<1>2. ASSUME NEW c \in Calls, NEW m \in handler, NEW to \in Agents,
             call_nested(c, m, to) \/ stream_nested(c, m, to)
      PROVE  PathInv'
  BY <1>2, NestedStep DEF call_nested, stream_nested
<1>3. ASSUME NEW c \in Calls, NEW to \in Agents, tasks_send(c, to) \/ delegate(c, to)
      PROVE  PathInv'
  BY <1>3, DirectStep DEF tasks_send, delegate
<1>4. QED
  BY <1>1, <1>2, <1>3, RegistrationStep, ExternalStep, RouteStep, TimeoutStep, UnreachableStep,
     DeliverStep, AnswerStep, RestartStep DEF Next

THEOREM PathInvariant == Spec => []PathInv
BY InitPathInv, NextPathInv, PTL DEF Spec

\* Type correctness; with it a call makes at most Retries + 1 attempts.
THEOREM CallPathTypes == Spec => []TypeOK
<1>1. PathInv => TypeOK
  BY DEF PathInv
<1>2. QED
  BY <1>1, PathInvariant, PTL

\* Any number of calls, late requests, restarts and registrations: a handler is
\* started for a call of the SDK at most once per attempt, and at most once for a
\* stream and for a call that goes around the router.
THEOREM RunsAreBounded == Spec => []RunsBounded
<1>1. ASSUME PathInv PROVE RunsBounded
  <2>1. SUFFICES ASSUME NEW c \in Calls, call[c] # Unused
                 PROVE  runs[c] <= IF call[c].kind = "call" THEN Retries + 1 ELSE 1
    BY DEF RunsBounded
  <2>2. call[c] \in Made
    BY <1>1, <2>1, CallTypes DEF PathInv, TypeOK
  <2>3. GoodCall(call[c], Work(c), cache)
    BY <1>1, <2>1 DEF PathInv, CallInv
  <2>4. runs[c] \in Nat /\ Cardinality(NetOf(c)) \in Nat
    BY <1>1, WorkTypes DEF PathInv, RequestInv
  <2>5. call[c].attempt \in 1 .. Retries + 1 /\ Forwards(call[c]) <= call[c].attempt
        /\ Forwards(call[c]) \in Int
    BY <2>2, CallBounds DEF Made, Forwards
  <2>6. runs[c] <= call[c].attempt
    BY <2>3, <2>4, <2>5 DEF GoodCall, Work
  <2>7. Retries \in Nat /\ (call[c].kind # "call" => call[c].attempt = 1)
    BY <2>3, CallBounds DEF GoodCall
  <2>8. CASE call[c].kind = "call"
    BY <2>4, <2>5, <2>6, <2>7, <2>8
  <2>9. CASE call[c].kind # "call"
    BY <2>6, <2>7, <2>9
  <2>10. QED
    BY <2>8, <2>9
<1>2. QED
  BY <1>1, PathInvariant, PTL

\* A call that route refuses has run nowhere, and no request of it is on its way:
\* what was found, allowed and within the limit once is so again at every retry,
\* because a restart fills the cache from a table that is written first.
THEOREM RefusedDoesNotRun == Spec => []RefusedNeverRan
<1>1. ASSUME PathInv PROVE RefusedNeverRan
  <2>1. SUFFICES ASSUME NEW c \in Calls, call[c].pc = "refused"
                 PROVE  runs[c] = 0 /\ \A m \in net : m.call # c
    BY DEF RefusedNeverRan
  <2>2. call[c] # Unused
    BY <2>1 DEF Unused
  <2>3. GoodCall(call[c], Work(c), cache)
    BY <1>1, <2>2 DEF PathInv, CallInv
  <2>4. call[c].attempt = 1
    BY <2>1, <2>3 DEF GoodCall
  <2>5. runs[c] \in Nat /\ Cardinality(NetOf(c)) \in Nat /\ IsFiniteSet(NetOf(c))
    BY <1>1, WorkTypes DEF PathInv, RequestInv
  <2>6. Work(c) <= 0
    BY <2>1, <2>3, <2>4 DEF GoodCall, Forwards
  <2>7. runs[c] = 0 /\ Cardinality(NetOf(c)) = 0
    BY <2>5, <2>6 DEF Work
  <2>8. NetOf(c) = {}
    BY <2>5, <2>7, FS_EmptySet
  <2>9. QED
    BY <2>7, <2>8 DEF NetOf
<1>2. QED
  BY <1>1, PathInvariant, PTL

\* The hop limit holds for chains of any number of agents and calls, as long as
\* the count is passed on at each link: on such a chain it is the depth, and the
\* gateway's arithmetic does not wrap around.
THEOREM ChainsAreBounded == Spec => []ChainBounded
<1>1. ASSUME PathInv PROVE ChainBounded
  <2>1. SUFFICES ASSUME NEW c \in Calls, call[c].pc \in {"wait", "ok"}, call[c].relayed
                 PROVE  call[c].depth <= MaxHops
    BY DEF ChainBounded
  <2>2. call[c] # Unused /\ Went(call[c])
    BY <2>1 DEF Unused, Went
  <2>3. GoodCall(call[c], Work(c), cache) /\ call[c] \in Made
    BY <1>1, <2>2, CallTypes DEF PathInv, CallInv, TypeOK
  <2>4. Routable(call[c], cache) /\ call[c].kind # "direct"
        /\ call[c].depth = call[c].hop + 1 /\ call[c].hop <= MaxHops /\ call[c].hop \in Nat
    BY <2>1, <2>2, <2>3 DEF GoodCall, Made
  <2>5. next_hop(call[c].hop) = call[c].hop + 1
    BY <2>4, NextHopTypes
  <2>6. QED
    BY <2>4, <2>5 DEF Routable
<1>2. QED
  BY <1>1, PathInvariant, PTL
=============================================================================
