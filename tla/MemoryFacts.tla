---------------------------- MODULE MemoryFacts -----------------------------
(***************************************************************************)
(* The facts of memory_service.rs: store, recall, recall_all and expire.   *)
(*                                                                         *)
(* Every operation reads the clock and then runs one statement, and the    *)
(* two are steps of their own: other operations and ticks of the clock     *)
(* come between.  The clock does not run backwards.                        *)
(***************************************************************************)
EXTENDS Integers, Sequences, FiniteSets

CONSTANTS
    Calls,       \* calls in progress at the same time
    Scopes,      \* agent, project (or None) and topic of the facts to store
    Filters,     \* the same with Unset for an argument that is not given
    Limits,
    Unset, None,
    MaxFacts,    \* bound on facts
    MaxClock,    \* bound on the clock
    MaxErrors    \* bound on statements that fail

FactIds == 1 .. MaxFacts
Time == 0 .. MaxClock

ASSUME FactBounds == {MaxFacts, MaxClock, MaxErrors} \subseteq Nat /\ Limits \subseteq Nat
ASSUME ScopeAssumption ==
    \A s \in Scopes \cup Filters : DOMAIN s = {"agent", "project", "topic"}

VARIABLES
    clock,
    facts,     \* the table memory_facts, by id
    stored,    \* history: stored[i], the ids in the table when the store of i began
    call,
    errors

memoryVars == <<clock, facts, stored, call, errors>>

MemoryFact == [scope : Scopes, created_at : Time, valid_to : Time \cup {None}]

NoCall == [pc |-> "idle"]

\* known and gone: the ids, and the ids expired before, when the recall began;
\* again: the ids expired while it ran.
CallState ==
    {NoCall}
    \cup [pc : {"store"}, now : Time, scope : Scopes, seen : SUBSET FactIds]
    \cup [pc : {"expire"}, now : Time, id : FactIds]
    \cup [pc : {"recall"}, now : Time, filter : Filters, limit : Limits \cup {Unset},
          known : SUBSET FactIds, gone : SUBSET FactIds, again : SUBSET FactIds]
    \cup [pc : {"answered"}, found : SUBSET FactIds, missed : SUBSET FactIds,
          limit : Limits \cup {Unset}, revived : SUBSET FactIds]

MemoryTypeOK ==
    /\ clock \in Time
    /\ facts \in Seq(MemoryFact) /\ Len(facts) <= MaxFacts
    /\ stored \in Seq(SUBSET FactIds) /\ Len(stored) = Len(facts)
    /\ call \in [Calls -> CallState]
    /\ errors \in 0 .. MaxErrors

MemoryInit ==
    /\ clock = 0
    /\ facts = <<>> /\ stored = <<>>
    /\ call = [t \in Calls |-> NoCall]
    /\ errors = 0

Free(t) == call[t].pc \in {"idle", "answered"}
CallGoto(t, next) == call' = [call EXCEPT ![t] = next]

Tick ==
    /\ clock < MaxClock
    /\ clock' = clock + 1
    /\ UNCHANGED <<facts, stored, call, errors>>

-----------------------------------------------------------------------------

now_secs == clock

store_begin(t, s) ==
    /\ Free(t)
    /\ Len(facts) + Cardinality({u \in Calls : call[u].pc = "store"}) < MaxFacts
    /\ CallGoto(t, [pc |-> "store", now |-> now_secs, scope |-> s, seen |-> DOMAIN facts])
    /\ UNCHANGED <<clock, facts, stored, errors>>

\* Mutant of store: project_id and topic are bound in the wrong order.
store_SwappedBinds(t) ==
    /\ call[t].pc = "store"
    /\ facts' = Append(facts, [scope |-> [call[t].scope EXCEPT !.project = call[t].scope.topic,
                                                              !.topic = call[t].scope.project],
                               created_at |-> call[t].now, valid_to |-> None])
    /\ stored' = Append(stored, call[t].seen)
    /\ CallGoto(t, NoCall)
    /\ UNCHANGED <<clock, errors>>

\* INSERT: created_at and valid_from are the time read before, valid_to is NULL.
store(t) ==
    /\ call[t].pc = "store"
    /\ facts' = Append(facts, [scope |-> call[t].scope, created_at |-> call[t].now,
                               valid_to |-> None])
    /\ stored' = Append(stored, call[t].seen)
    /\ CallGoto(t, NoCall)
    /\ UNCHANGED <<clock, errors>>

expire_begin(t, i) ==
    /\ Free(t)
    /\ CallGoto(t, [pc |-> "expire", now |-> now_secs, id |-> i])
    /\ UNCHANGED <<clock, facts, stored, errors>>

\* Recalls in progress note that i is expired while they run.
NoteExpiry(i) ==
    [t \in Calls |-> IF call[t].pc = "recall"
                     THEN [call[t] EXCEPT !.again = @ \cup {i}] ELSE call[t]]

\* UPDATE ... SET valid_to, over an earlier valid_to as well; an id without a row
\* is no error.
expire(t) ==
    /\ call[t].pc = "expire"
    /\ LET i == call[t].id
       IN  /\ facts' = [j \in DOMAIN facts |->
                  IF j = i THEN [facts[j] EXCEPT !.valid_to = call[t].now] ELSE facts[j]]
           /\ call' = [NoteExpiry(i) EXCEPT ![t] = NoCall]
    /\ UNCHANGED <<clock, stored, errors>>

\* recall with a limit; recall_all is recall without filter and limit.
recall_begin(t, f, limit) ==
    /\ Free(t)
    /\ CallGoto(t, [pc |-> "recall", now |-> now_secs, filter |-> f, limit |-> limit,
                known |-> DOMAIN facts,
                gone |-> {i \in DOMAIN facts : facts[i].valid_to # None}, again |-> {}])
    /\ UNCHANGED <<clock, facts, stored, errors>>

\* The four queries of recall differ in the filters they have.
Matches(f, s) ==
    /\ s.agent = f.agent
    /\ f.project # Unset => s.project = f.project
    /\ f.topic # Unset => s.topic = f.topic

\* Mutant of IsValid: a fact is valid up to and including valid_to.
IsValid_Inclusive(fact, now) == fact.valid_to = None \/ fact.valid_to >= now

\* valid_to IS NULL OR valid_to > now.
IsValid(fact, now) == fact.valid_to = None \/ fact.valid_to > now

\* Mutant of Precedes: the oldest first.
Precedes_Oldest(i, j) == facts[i].created_at <= facts[j].created_at

\* ORDER BY created_at DESC; facts of the same instant come in any order.
Precedes(i, j) == facts[i].created_at >= facts[j].created_at

\* LIMIT: found holds the first ones of all that qualify.
IsAnswer(found, all, limit) ==
    /\ found \subseteq all
    /\ limit = Unset \/ Cardinality(all) <= limit => found = all
    /\ limit # Unset /\ Cardinality(all) > limit => Cardinality(found) = limit
    /\ \A i \in found, j \in all \ found : Precedes(i, j)

recall(t) ==
    /\ call[t].pc = "recall"
    /\ LET r == call[t]
           all == {i \in DOMAIN facts : Matches(r.filter, facts[i].scope) /\ IsValid(facts[i], r.now)}
       IN  \E found \in SUBSET all :
               /\ IsAnswer(found, all, r.limit)
               /\ CallGoto(t, [pc |-> "answered", found |-> found, limit |-> r.limit,
                           missed |-> {i \in r.known \ (found \cup r.gone \cup r.again) :
                                           Matches(r.filter, facts[i].scope)},
                           revived |-> found \cap (r.gone \ r.again)])
    /\ UNCHANGED <<clock, facts, stored, errors>>

\* The statement fails: Err, and nothing is written.
StatementFails(t) ==
    /\ errors < MaxErrors
    /\ ~Free(t)
    /\ CallGoto(t, NoCall)
    /\ errors' = errors + 1
    /\ UNCHANGED <<clock, facts, stored>>

MemoryNext ==
    \/ Tick
    \/ \E t \in Calls, s \in Scopes : store_begin(t, s)
    \/ \E t \in Calls : store(t)
    \/ \E t \in Calls, i \in FactIds : expire_begin(t, i)
    \/ \E t \in Calls : expire(t)
    \/ \E t \in Calls, f \in Filters, n \in Limits \cup {Unset} : recall_begin(t, f, n)
    \/ \E t \in Calls : recall(t)
    \/ \E t \in Calls : StatementFails(t)

MemorySpec == MemoryInit /\ [][MemoryNext]_memoryVars

-----------------------------------------------------------------------------

Answers == {call[t] : t \in {u \in Calls : call[u].pc = "answered"}}

\* "Expired facts ... are automatically excluded from recall queries": a fact that
\* was expired before the recall began is not in its answer, unless it was expired
\* again while the recall ran: the second expire puts a later valid_to over the
\* first, and the recall compares it with the time it read before.
ExpiredStaysOut == \A r \in Answers : r.revived = {}

\* "Newest first, capped at limit": a fact that was stored before the recall began
\* and never expired is left out only by a full answer, and never for a fact that
\* was already stored when its own store began, unless both read the same instant:
\* the times of overlapping stores need not follow the order of their INSERTs.
LeftOutForNewer ==
    \A r \in Answers : \A i \in r.missed :
        /\ r.limit # Unset /\ Cardinality(r.found) = r.limit
        /\ \A j \in r.found \cap stored[i] : facts[j].created_at = facts[i].created_at
=============================================================================
