--------------------------- MODULE Contributions ---------------------------
(***************************************************************************)
(* Contribution proposals: contributions.rs, called from the dashboard's   *)
(* handlers in web/projects.rs.                                            *)
(*                                                                         *)
(* Every `.await` on the pool is one SQL statement, committed on its own,  *)
(* and the handlers of one gateway run concurrently on Tokio.  A handler   *)
(* is therefore a task whose local state says which statement comes next:  *)
(*                                                                         *)
(*   cast_vote    get+check; INSERT vote; tally; (resolve)                 *)
(*   accept_pr    get+check; set_status(pr_accepted); resolve(accepted)    *)
(*   reject_pr    get+check; resolve(rejected)                             *)
(*                                                                         *)
(* A handler can end before any of its statements: the statement fails,    *)
(* the client disconnects and the future is dropped, or the gateway stops. *)
(***************************************************************************)
EXTENDS Integers, FiniteSets

CONSTANTS
    Proposals,
    Voters,         \* (gateway_name, agent_name) pairs that may vote
    Tasks,          \* handlers running at the same time
    GatewayCounts,  \* values gateway_count_for_project may return
    MaxFailures     \* bound on handlers that end early

ASSUME VotersAssumption == IsFiniteSet(Voters)
ASSUME CountsAssumption == GatewayCounts \subseteq Nat
ASSUME FailuresAssumption == MaxFailures \in Nat

VARIABLES
    status,         \* contribution_proposals.status, "none" before the INSERT
    gateway_count,  \* contribution_proposals.gateway_count, captured by open
    votes,          \* contribution_votes: votes[p][v], "none" without a row
    task,           \* the handlers' local state
    failures

vars == <<status, gateway_count, votes, task, failures>>

Statuses == {"none", "voting", "pr_pending", "pr_accepted", "accepted", "rejected"}
VoteKind == {"approve", "reject"}
Decided  == {"accepted", "rejected"}

Idle == [pc |-> "idle"]

TaskState ==
    {Idle}
    \cup [pc : {"insert_vote"}, p : Proposals, voter : Voters, vote : VoteKind]
    \cup [pc : {"tally"}, p : Proposals]
    \cup [pc : {"set_pr_accepted"}, p : Proposals]
    \cup [pc : {"resolve"}, p : Proposals, to : Decided]

TypeOK ==
    /\ status \in [Proposals -> Statuses]
    /\ gateway_count \in [Proposals -> Nat]
    /\ votes \in [Proposals -> [Voters -> VoteKind \cup {"none"}]]
    /\ task \in [Tasks -> TaskState]
    /\ failures \in Nat

Init ==
    /\ status = [p \in Proposals |-> "none"]
    /\ gateway_count = [p \in Proposals |-> 0]
    /\ votes = [p \in Proposals |-> [v \in Voters |-> "none"]]
    /\ task = [t \in Tasks |-> Idle]
    /\ failures = 0

Goto(t, next) == task' = [task EXCEPT ![t] = next]

-----------------------------------------------------------------------------

\* Voting when gateway_count > 2, PrPending otherwise.
InitialStatus(n) == IF n > 2 THEN "voting" ELSE "pr_pending"

\* open: one INSERT, with the status chosen from the gateway count that
\* open_contribution read just before.
open(p, n) ==
    /\ status[p] = "none"
    /\ status' = [status EXCEPT ![p] = InitialStatus(n)]
    /\ gateway_count' = [gateway_count EXCEPT ![p] = n]
    /\ UNCHANGED <<votes, task, failures>>

\* The dashboard's form: the gateways of the project's groups are counted, 2 are
\* assumed if that fails.
open_contribution(p) == \E n \in GatewayCounts : open(p, n)

\* Mutant of cast_vote_begin: the status is not checked.
cast_vote_begin_NoCheck(t, p, v, kind) ==
    /\ task[t] = Idle
    /\ status[p] # "none"
    /\ Goto(t, [pc |-> "insert_vote", p |-> p, voter |-> v, vote |-> kind])
    /\ UNCHANGED <<status, gateway_count, votes, failures>>

\* cast_vote: get, and the check that the proposal is voting.
cast_vote_begin(t, p, v, kind) ==
    /\ task[t] = Idle
    /\ status[p] = "voting"
    /\ Goto(t, [pc |-> "insert_vote", p |-> p, voter |-> v, vote |-> kind])
    /\ UNCHANGED <<status, gateway_count, votes, failures>>

\* The dashboard's form for a vote of any agent.
cast_vote(t, p) ==
    \E v \in Voters, kind \in VoteKind : cast_vote_begin(t, p, v, kind)

\* Mutant of cast_vote_insert: ON CONFLICT DO UPDATE SET vote.
cast_vote_insert_Upsert(t) ==
    /\ task[t].pc = "insert_vote"
    /\ votes' = [votes EXCEPT ![task[t].p][task[t].voter] = task[t].vote]
    /\ Goto(t, [pc |-> "tally", p |-> task[t].p])
    /\ UNCHANGED <<status, gateway_count, failures>>

\* cast_vote: INSERT ... ON CONFLICT (proposal, gateway, agent) DO NOTHING.
cast_vote_insert(t) ==
    /\ task[t].pc = "insert_vote"
    /\ votes' = [votes EXCEPT ![task[t].p][task[t].voter] =
                     IF @ = "none" THEN task[t].vote ELSE @]
    /\ Goto(t, [pc |-> "tally", p |-> task[t].p])
    /\ UNCHANGED <<status, gateway_count, failures>>

VotersFor(p, kind) == {v \in Voters : votes[p][v] = kind}
Tally(p, kind) == Cardinality(VotersFor(p, kind))

\* Mutant of majority: half is enough.
majority_Half(p) == gateway_count[p] \div 2

majority(p) == (gateway_count[p] \div 2) + 1

\* Mutant of check_vote_outcome: the UPDATE needs more than the majority.
check_vote_outcome_Strict(t) ==
    /\ task[t].pc = "tally"
    /\ LET p == task[t].p
       IN  Goto(t, IF Tally(p, "approve") > majority(p)
                   THEN [pc |-> "resolve", p |-> p, to |-> "accepted"]
                   ELSE IF Tally(p, "reject") > majority(p)
                   THEN [pc |-> "resolve", p |-> p, to |-> "rejected"]
                   ELSE Idle)
    /\ UNCHANGED <<status, gateway_count, votes, failures>>

\* check_vote_outcome: the tally, and the choice of the statement that follows.
check_vote_outcome(t) ==
    /\ task[t].pc = "tally"
    /\ LET p == task[t].p
       IN  Goto(t, IF Tally(p, "approve") >= majority(p)
                   THEN [pc |-> "resolve", p |-> p, to |-> "accepted"]
                   ELSE IF Tally(p, "reject") >= majority(p)
                   THEN [pc |-> "resolve", p |-> p, to |-> "rejected"]
                   ELSE Idle)
    /\ UNCHANGED <<status, gateway_count, votes, failures>>

\* accept_pr and reject_pr: get, and the check that the proposal is pr_pending.
review_pr_begin(t, p, first) ==
    /\ task[t] = Idle
    /\ status[p] = "pr_pending"
    /\ Goto(t, first)
    /\ UNCHANGED <<status, gateway_count, votes, failures>>

accept_pr_begin(t, p) ==
    review_pr_begin(t, p, [pc |-> "set_pr_accepted", p |-> p])

reject_pr_begin(t, p) ==
    review_pr_begin(t, p, [pc |-> "resolve", p |-> p, to |-> "rejected"])

\* set_status(pr_accepted): UPDATE without a condition on the old status.
set_status(t) ==
    /\ task[t].pc = "set_pr_accepted"
    /\ status' = [status EXCEPT ![task[t].p] = "pr_accepted"]
    /\ Goto(t, [pc |-> "resolve", p |-> task[t].p, to |-> "accepted"])
    /\ UNCHANGED <<gateway_count, votes, failures>>

\* resolve: UPDATE without a condition on the old status.
resolve(t) ==
    /\ task[t].pc = "resolve"
    /\ status' = [status EXCEPT ![task[t].p] = task[t].to]
    /\ Goto(t, Idle)
    /\ UNCHANGED <<gateway_count, votes, failures>>

\* The handler ends before its next statement.
Fail(t) ==
    /\ failures < MaxFailures
    /\ task[t] # Idle
    /\ Goto(t, Idle)
    /\ failures' = failures + 1
    /\ UNCHANGED <<status, gateway_count, votes>>

\* The statements a running handler executes.
Step(t) == cast_vote_insert(t) \/ check_vote_outcome(t) \/ set_status(t) \/ resolve(t)

Next ==
    \/ \E p \in Proposals : open_contribution(p)
    \/ \E t \in Tasks, p \in Proposals : cast_vote(t, p)
    \/ \E t \in Tasks, p \in Proposals : accept_pr_begin(t, p) \/ reject_pr_begin(t, p)
    \/ \E t \in Tasks : cast_vote_insert(t)
    \/ \E t \in Tasks : check_vote_outcome(t)
    \/ \E t \in Tasks : set_status(t)
    \/ \E t \in Tasks : resolve(t)
    \/ \E t \in Tasks : Fail(t)

Spec == Init /\ [][Next]_vars

\* Tokio runs every handler that has started to its end.
FairSpec == Spec /\ \A t \in Tasks : WF_vars(Step(t))

-----------------------------------------------------------------------------

\* "majority wins": more than half of the gateways captured by open.
MoreThanHalf(p, kind) == 2 * Tally(p, kind) > gateway_count[p]

\* A proposal put to the vote carries a decision only if a majority of the
\* gateway count voted for it, however the tallies and the UPDATEs of
\* concurrent voters interleave (check_vote_outcome, resolve).
DecisionBacked ==
    \A p \in Proposals : gateway_count[p] > 2 =>
        /\ status[p] = "accepted" => MoreThanHalf(p, "approve")
        /\ status[p] = "rejected" => MoreThanHalf(p, "reject")

\* The approval mode fixed by open is never left: with more than two gateways
\* no review decides, with two or fewer no vote is recorded and no vote decides.
ModeRespected ==
    \A p \in Proposals :
        /\ gateway_count[p] > 2 => status[p] \notin {"pr_pending", "pr_accepted"}
        /\ gateway_count[p] <= 2 =>
               /\ status[p] # "voting"
               /\ \A v \in Voters : votes[p][v] = "none"

\* A vote, once recorded, is never changed (UNIQUE + ON CONFLICT DO NOTHING),
\* not even by a second request of the voter that raced the first.
VotesImmutable ==
    [][\A p \in Proposals, v \in Voters :
           votes[p][v] # "none" => votes'[p][v] = votes[p][v]]_vars

\* The state machine in the header of contributions.rs has no arrow out of
\* accepted or rejected.  What the code keeps of it: a decision by vote is final
\* when no more voters exist than gateways were counted, although resolve is an
\* unconditional UPDATE and late voters may still be between their tally and
\* their resolve.
VotedDecisionFinal ==
    [][\A p \in Proposals :
           /\ gateway_count[p] > 2 /\ Cardinality(Voters) <= gateway_count[p]
           /\ status[p] \in Decided
           => status'[p] = status[p]]_vars

\* No handler is between its check of the status and its last statement.
Undisturbed(p) == \A t \in Tasks : task[t] = Idle \/ task[t].p # p

\* Handlers that checked the status before a decision may still overwrite it:
\* two reviews that began together, or a voter beyond the counted gateways.
\* Once the last of them is done the proposal is settled: the decision stays,
\* and no later vote or review gets to a write.
SettledStays ==
    [][\A p \in Proposals :
           status[p] \in Decided /\ Undisturbed(p)
               => status'[p] = status[p] /\ Undisturbed(p)']_vars

\* Decisions are reached.  When a majority of approvals or of rejections is on
\* record the proposal gets decided, because the voter whose INSERT completed the
\* majority tallies after it, and an accepting review that has begun to write gets
\* to its decision (header: "pr_accepted ──► accepted, auto"); unless a handler
\* ended early.
DecisionReached ==
    \A p \in Proposals :
        (\/ gateway_count[p] > 2 /\ \E k \in VoteKind : MoreThanHalf(p, k)
         \/ status[p] = "pr_accepted")
            ~> (status[p] \in Decided \/ failures > 0)
=============================================================================
