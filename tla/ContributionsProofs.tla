------------------------ MODULE ContributionsProofs ------------------------
(***************************************************************************)
(* Proposals, for every set of proposals, voters and concurrent handlers.  *)
(***************************************************************************)
EXTENDS Contributions, FiniteSetTheorems, TLAPS

KindOf(decision) == IF decision = "accepted" THEN "approve" ELSE "reject"

\* A handler only runs for a proposal that exists, in the mode open chose, and
\* one that is about to decide a vote has the majority on record already.
Justified(t, p) ==
    /\ status[p] # "none"
    /\ task[t].pc \in {"insert_vote", "tally"} => gateway_count[p] > 2
    /\ task[t].pc = "set_pr_accepted" => gateway_count[p] <= 2
    /\ \A d \in Decided :
           task[t].pc = "resolve" /\ task[t].to = d /\ gateway_count[p] > 2 =>
               MoreThanHalf(p, KindOf(d))

TasksJustified ==
    \A t \in Tasks, p \in Proposals :
        task[t] # Idle /\ task[t].p = p => Justified(t, p)

UnopenedBlank ==
    \A p \in Proposals : status[p] = "none" => gateway_count[p] = 0

ProposalInv ==
    /\ TypeOK
    /\ UnopenedBlank
    /\ TasksJustified
    /\ ModeRespected
    /\ DecisionBacked

LEMMA TallyType ==
    ASSUME NEW p, NEW k
    PROVE  IsFiniteSet(VotersFor(p, k)) /\ Tally(p, k) \in Nat
<1>1. VotersFor(p, k) \in SUBSET Voters
  BY DEF VotersFor
<1> QED
  BY <1>1, VotersAssumption, FS_Subset, FS_CardinalityType DEF Tally

\* Recorded votes stay, so a tally never shrinks.
LEMMA TallyGrows ==
    ASSUME NEW p, NEW k, k # "none",
           \A v \in Voters : votes[p][v] # "none" => votes'[p][v] = votes[p][v]
    PROVE  Tally(p, k) <= Tally(p, k)' /\ Tally(p, k)' \in Nat
<1>1. VotersFor(p, k) \subseteq VotersFor(p, k)'
  BY DEF VotersFor
<1>2. IsFiniteSet(VotersFor(p, k)') /\ Cardinality(VotersFor(p, k)') \in Nat
  <2>1. VotersFor(p, k)' \in SUBSET Voters
    BY DEF VotersFor
  <2> QED
    BY <2>1, VotersAssumption, FS_Subset, FS_CardinalityType
<1>3. Cardinality(VotersFor(p, k)) <= Cardinality(VotersFor(p, k)')
  BY <1>1, <1>2, FS_Subset
<1> QED
  BY <1>2, <1>3 DEF Tally

\* The integer division of check_vote_outcome gives a strict majority.
LEMMA MajorityIsMoreThanHalf ==
    ASSUME NEW p \in Proposals, NEW k, gateway_count[p] \in Nat,
           Tally(p, k) >= majority(p)
    PROVE  MoreThanHalf(p, k)
<1> DEFINE n == gateway_count[p]
<1>1. Tally(p, k) \in Nat
  BY TallyType
<1>2. n <= 2 * (n \div 2) + 1 /\ n \div 2 \in Nat
  <2> HIDE DEF n
  <2>1. n \in Nat
    BY DEF n
  <2> QED
    BY <2>1
<1>3. Tally(p, k) >= (n \div 2) + 1
  BY DEF majority
<1> QED
  BY <1>1, <1>2, <1>3 DEF MoreThanHalf

LEMMA InitProposalInv == Init => ProposalInv
<1> SUFFICES ASSUME Init PROVE ProposalInv
  OBVIOUS
<1>1. TypeOK
  BY DEF Init, TypeOK, TaskState, Statuses
<1>2. TasksJustified
  BY DEF Init, TasksJustified
<1>3. UnopenedBlank /\ ModeRespected /\ DecisionBacked
  BY DEF Init, UnopenedBlank, ModeRespected, DecisionBacked
<1> QED
  BY <1>1, <1>2, <1>3 DEF ProposalInv

LEMMA NextTypeOK == TypeOK /\ [Next]_vars => TypeOK'
<1> SUFFICES ASSUME TypeOK, [Next]_vars PROVE TypeOK'
  OBVIOUS
<1> USE DEF TypeOK
<1>1. ASSUME NEW p \in Proposals, NEW n \in GatewayCounts, open(p, n) PROVE TypeOK'
  BY <1>1, CountsAssumption DEF open, InitialStatus, Statuses
<1>2. ASSUME NEW t \in Tasks, NEW p \in Proposals, NEW v \in Voters, NEW k \in VoteKind,
             cast_vote_begin(t, p, v, k)
      PROVE  TypeOK'
  BY <1>2 DEF cast_vote_begin, Goto, TaskState
<1>3. ASSUME NEW t \in Tasks, NEW p \in Proposals,
             accept_pr_begin(t, p) \/ reject_pr_begin(t, p)
      PROVE  TypeOK'
  BY <1>3 DEF accept_pr_begin, reject_pr_begin, review_pr_begin, Goto, TaskState, Decided
<1>4. ASSUME NEW t \in Tasks, cast_vote_insert(t) PROVE TypeOK'
  <2>1. /\ task[t] \in [pc : {"insert_vote"}, p : Proposals, voter : Voters, vote : VoteKind]
        /\ task' = [task EXCEPT ![t] = [pc |-> "tally", p |-> task[t].p]]
        /\ votes' = [votes EXCEPT ![task[t].p][task[t].voter] =
                     IF @ = "none" THEN task[t].vote ELSE @]
        /\ UNCHANGED <<status, gateway_count, failures>>
    BY <1>4 DEF cast_vote_insert, Goto, TaskState, Idle
  <2>2. task' \in [Tasks -> TaskState]
    BY <2>1 DEF TaskState
  <2>3. votes' \in [Proposals -> [Voters -> VoteKind \cup {"none"}]]
    BY <2>1
  <2> QED
    BY <2>1, <2>2, <2>3
<1>5. ASSUME NEW t \in Tasks, check_vote_outcome(t) PROVE TypeOK'
  <2>1. task[t] \in [pc : {"tally"}, p : Proposals]
    BY <1>5 DEF check_vote_outcome, TaskState, Idle
  <2> QED
    BY <1>5, <2>1 DEF check_vote_outcome, Goto, TaskState, Decided
<1>6. ASSUME NEW t \in Tasks, set_status(t) PROVE TypeOK'
  <2>1. task[t] \in [pc : {"set_pr_accepted"}, p : Proposals]
    BY <1>6 DEF set_status, TaskState, Idle
  <2> QED
    BY <1>6, <2>1 DEF set_status, Goto, TaskState, Decided, Statuses
<1>7. ASSUME NEW t \in Tasks, resolve(t) PROVE TypeOK'
  <2>1. task[t] \in [pc : {"resolve"}, p : Proposals, to : Decided]
    BY <1>7 DEF resolve, TaskState, Idle
  <2> QED
    BY <1>7, <2>1 DEF resolve, Goto, TaskState, Decided, Statuses
<1>8. ASSUME NEW t \in Tasks, Fail(t) PROVE TypeOK'
  BY <1>8 DEF Fail, Goto, TaskState
<1>9. CASE UNCHANGED vars
  BY <1>9 DEF vars
<1> QED
  BY <1>1, <1>2, <1>3, <1>4, <1>5, <1>6, <1>7, <1>8, <1>9
     DEF Next, open_contribution, cast_vote

\* The pc of a running handler determines the fields of its local state.
LEMMA TaskShape ==
    ASSUME TypeOK, NEW t \in Tasks
    PROVE  /\ task[t] # Idle => task[t].p \in Proposals /\ task[t].pc # "idle"
           /\ task[t].pc # "idle" => task[t] # Idle
           /\ task[t].pc = "resolve" => task[t].to \in Decided
           /\ task[t].pc = "insert_vote" => task[t].voter \in Voters /\ task[t].vote \in VoteKind
BY DEF TypeOK, TaskState, Idle

\* Steps that leave the proposals and the votes alone: only the handler that
\* moved has to be justified again.
LEMMA LocalStep ==
    ASSUME ProposalInv, TypeOK', NEW t \in Tasks, NEW next \in TaskState,
           Goto(t, next), UNCHANGED <<status, gateway_count, votes>>,
           \A p \in Proposals : next # Idle /\ next.p = p =>
               /\ status[p] # "none"
               /\ next.pc \in {"insert_vote", "tally"} => gateway_count[p] > 2
               /\ next.pc = "set_pr_accepted" => gateway_count[p] <= 2
               /\ \A d \in Decided :
                      next.pc = "resolve" /\ next.to = d /\ gateway_count[p] > 2 =>
                          MoreThanHalf(p, KindOf(d))
    PROVE  ProposalInv'
<1>1. \A u \in Tasks : task'[u] = IF u = t THEN next ELSE task[u]
  BY DEF Goto, ProposalInv, TypeOK
<1>2. \A p, k : MoreThanHalf(p, k)' = MoreThanHalf(p, k)
  BY DEF MoreThanHalf, Tally, VotersFor
<1>3. TasksJustified'
  <2>1. ASSUME NEW u \in Tasks, NEW p \in Proposals, task'[u] # Idle, task'[u].p = p
        PROVE  Justified(u, p)'
    <3>1. CASE u = t
      BY <1>1, <1>2, <2>1, <3>1 DEF Justified
    <3>2. CASE u # t
      BY <1>1, <1>2, <2>1, <3>2 DEF ProposalInv, TasksJustified, Justified
    <3> QED BY <3>1, <3>2
  <2> QED
    BY <2>1 DEF TasksJustified
<1>4. UnopenedBlank' /\ ModeRespected'
  BY DEF ProposalInv, UnopenedBlank, ModeRespected
<1>5. DecisionBacked'
  BY <1>2 DEF ProposalInv, DecisionBacked
<1> QED
  BY <1>3, <1>4, <1>5 DEF ProposalInv

LEMMA OpenInv ==
    ASSUME ProposalInv, TypeOK', NEW p \in Proposals, NEW n \in GatewayCounts, open(p, n)
    PROVE  ProposalInv'
<1>1. /\ status[p] = "none" /\ votes' = votes /\ task' = task
      /\ \A q \in Proposals : status'[q] = IF q = p THEN InitialStatus(n) ELSE status[q]
      /\ \A q \in Proposals : gateway_count'[q] = IF q = p THEN n ELSE gateway_count[q]
  BY DEF open, ProposalInv, TypeOK
<1>2. n \in Nat /\ gateway_count[p] = 0 /\ InitialStatus(n) \in {"voting", "pr_pending"}
  BY <1>1, CountsAssumption DEF ProposalInv, UnopenedBlank, InitialStatus
<1>3. \A v \in Voters : votes[p][v] = "none"
  BY <1>2 DEF ProposalInv, ModeRespected
<1>4. \A t \in Tasks : task[t] # Idle => task[t].p \in Proposals /\ task[t].p # p
  BY <1>1, TaskShape DEF ProposalInv, TasksJustified, Justified
<1>5. \A q \in Proposals : \A k : q # p => MoreThanHalf(q, k)' = MoreThanHalf(q, k)
  BY <1>1 DEF MoreThanHalf, Tally, VotersFor
<1>6. UnopenedBlank'
  BY <1>1, <1>2 DEF ProposalInv, UnopenedBlank
<1>7. ModeRespected'
  BY <1>1, <1>2, <1>3 DEF ProposalInv, ModeRespected, InitialStatus
<1>8. DecisionBacked'
  BY <1>1, <1>2, <1>5 DEF ProposalInv, DecisionBacked
<1>9. TasksJustified'
  BY <1>1, <1>4, <1>5 DEF ProposalInv, TasksJustified, Justified
<1> QED
  BY <1>6, <1>7, <1>8, <1>9 DEF ProposalInv

\* INSERT vote: tallies grow, so what was justified stays justified.
LEMMA InsertVoteInv ==
    ASSUME ProposalInv, TypeOK', NEW t \in Tasks, cast_vote_insert(t)
    PROVE  ProposalInv'
<1> DEFINE p == task[t].p
           next == [pc |-> "tally", p |-> p]
<1>1. /\ task[t].pc = "insert_vote" /\ p \in Proposals
      /\ task[t].voter \in Voters /\ task[t].vote \in VoteKind
      /\ status[p] # "none" /\ gateway_count[p] > 2
  BY TaskShape DEF cast_vote_insert, ProposalInv, TasksJustified, Justified
<1>2. /\ status' = status /\ gateway_count' = gateway_count
      /\ \A u \in Tasks : task'[u] = IF u = t THEN next ELSE task[u]
  BY DEF cast_vote_insert, Goto, ProposalInv, TypeOK
<1>3. /\ \A q \in Proposals : q # p => votes'[q] = votes[q]
      /\ \A q \in Proposals : \A v \in Voters :
             votes[q][v] # "none" => votes'[q][v] = votes[q][v]
  BY <1>1 DEF cast_vote_insert, ProposalInv, TypeOK
<1>4. ASSUME NEW q \in Proposals, NEW k \in VoteKind, MoreThanHalf(q, k)
      PROVE  MoreThanHalf(q, k)'
  <2>1. Tally(q, k) <= Tally(q, k)' /\ Tally(q, k)' \in Nat
    BY <1>3, TallyGrows DEF VoteKind
  <2>2. Tally(q, k) \in Nat /\ gateway_count[q] \in Nat
    BY TallyType DEF ProposalInv, TypeOK
  <2> QED
    BY <1>2, <1>4, <2>1, <2>2 DEF MoreThanHalf
<1>5. \A d : KindOf(d) \in VoteKind
  BY DEF KindOf, VoteKind
<1>6. TasksJustified'
  <2>1. ASSUME NEW u \in Tasks, NEW q \in Proposals, task'[u] # Idle, task'[u].p = q
        PROVE  Justified(u, q)'
    <3>1. CASE u = t
      BY <1>1, <1>2, <2>1, <3>1 DEF Justified
    <3>2. CASE u # t
      BY <1>2, <1>4, <1>5, <2>1, <3>2 DEF ProposalInv, TasksJustified, Justified
    <3> QED BY <3>1, <3>2
  <2> QED
    BY <2>1 DEF TasksJustified
<1>7. UnopenedBlank'
  BY <1>2 DEF ProposalInv, UnopenedBlank
<1>8. ModeRespected'
  BY <1>1, <1>2, <1>3 DEF ProposalInv, ModeRespected, TypeOK
<1>9. DecisionBacked'
  BY <1>2, <1>4 DEF ProposalInv, DecisionBacked, VoteKind
<1> QED
  BY <1>6, <1>7, <1>8, <1>9 DEF ProposalInv

LEMMA CastVoteBeginInv ==
    ASSUME ProposalInv, TypeOK', NEW t \in Tasks, NEW p \in Proposals,
           NEW v \in Voters, NEW k \in VoteKind, cast_vote_begin(t, p, v, k)
    PROVE  ProposalInv'
<1> DEFINE next == [pc |-> "insert_vote", p |-> p, voter |-> v, vote |-> k]
<1>1. next \in TaskState
  BY DEF TaskState
<1>2. status[p] = "voting" /\ Goto(t, next) /\ UNCHANGED <<status, gateway_count, votes>>
  BY DEF cast_vote_begin
<1>3. gateway_count[p] > 2
  BY <1>2 DEF ProposalInv, ModeRespected, TypeOK
<1> QED
  BY <1>1, <1>2, <1>3, LocalStep

LEMMA ReviewBeginInv ==
    ASSUME ProposalInv, TypeOK', NEW t \in Tasks, NEW p \in Proposals,
           accept_pr_begin(t, p) \/ reject_pr_begin(t, p)
    PROVE  ProposalInv'
<1>1. status[p] = "pr_pending" /\ UNCHANGED <<status, gateway_count, votes>>
  BY DEF accept_pr_begin, reject_pr_begin, review_pr_begin
<1>2. gateway_count[p] <= 2 /\ gateway_count[p] \in Nat
  BY <1>1 DEF ProposalInv, ModeRespected, TypeOK
<1>3. CASE accept_pr_begin(t, p)
  <2> DEFINE next == [pc |-> "set_pr_accepted", p |-> p]
  <2>1. next \in TaskState /\ Goto(t, next)
    BY <1>3 DEF accept_pr_begin, review_pr_begin, TaskState
  <2> QED
    BY <1>1, <1>2, <2>1, LocalStep
<1>4. CASE reject_pr_begin(t, p)
  <2> DEFINE next == [pc |-> "resolve", p |-> p, to |-> "rejected"]
  <2>1. next \in TaskState /\ Goto(t, next)
    BY <1>4 DEF reject_pr_begin, review_pr_begin, TaskState, Decided
  <2> QED
    BY <1>1, <1>2, <2>1, LocalStep
<1> QED
  BY <1>3, <1>4

LEMMA TallyInv ==
    ASSUME ProposalInv, TypeOK', NEW t \in Tasks, check_vote_outcome(t)
    PROVE  ProposalInv'
<1> DEFINE p == task[t].p
<1>1. /\ task[t].pc = "tally" /\ p \in Proposals /\ gateway_count[p] \in Nat
      /\ status[p] # "none" /\ gateway_count[p] > 2
      /\ UNCHANGED <<status, gateway_count, votes>>
  BY TaskShape DEF check_vote_outcome, ProposalInv, TasksJustified, Justified, TypeOK
<1>2. CASE Tally(p, "approve") >= majority(p)
  <2> DEFINE next == [pc |-> "resolve", p |-> p, to |-> "accepted"]
  <2>1. next \in TaskState /\ Goto(t, next)
    BY <1>1, <1>2 DEF check_vote_outcome, TaskState, Decided
  <2>2. MoreThanHalf(p, KindOf("accepted"))
    BY <1>1, <1>2, MajorityIsMoreThanHalf DEF KindOf
  <2> QED
    BY <1>1, <2>1, <2>2, LocalStep
<1>3. CASE ~(Tally(p, "approve") >= majority(p)) /\ Tally(p, "reject") >= majority(p)
  <2> DEFINE next == [pc |-> "resolve", p |-> p, to |-> "rejected"]
  <2>1. next \in TaskState /\ Goto(t, next)
    BY <1>1, <1>3 DEF check_vote_outcome, TaskState, Decided
  <2>2. MoreThanHalf(p, KindOf("rejected"))
    BY <1>1, <1>3, MajorityIsMoreThanHalf DEF KindOf
  <2> QED
    BY <1>1, <2>1, <2>2, LocalStep
<1>4. CASE ~(Tally(p, "approve") >= majority(p)) /\ ~(Tally(p, "reject") >= majority(p))
  <2>1. Idle \in TaskState /\ Goto(t, Idle)
    BY <1>4 DEF check_vote_outcome, TaskState
  <2> QED
    BY <1>1, <2>1, LocalStep
<1> QED
  BY <1>2, <1>3, <1>4

LEMMA FailInv ==
    ASSUME ProposalInv, TypeOK', NEW t \in Tasks, Fail(t)
    PROVE  ProposalInv'
<1>1. Idle \in TaskState /\ Goto(t, Idle) /\ UNCHANGED <<status, gateway_count, votes>>
  BY DEF Fail, TaskState
<1> QED
  BY <1>1, LocalStep

\* The two unconditional UPDATEs: the new status of p fits the mode and, for a
\* decision by vote, the majority behind it.
LEMMA StatusStep ==
    ASSUME ProposalInv, TypeOK', NEW t \in Tasks, NEW next \in TaskState,
           NEW p \in Proposals, NEW new \in Statuses \ {"none", "voting"},
           Goto(t, next), status' = [status EXCEPT ![p] = new],
           UNCHANGED <<gateway_count, votes>>,
           next # Idle => /\ next.p = p /\ next.pc = "resolve"
                          /\ gateway_count[p] <= 2,
           new \in {"pr_pending", "pr_accepted"} => gateway_count[p] <= 2,
           \A d \in Decided : new = d /\ gateway_count[p] > 2 => MoreThanHalf(p, KindOf(d))
    PROVE  ProposalInv'
<1>1. /\ \A u \in Tasks : task'[u] = IF u = t THEN next ELSE task[u]
      /\ \A q \in Proposals : status'[q] = IF q = p THEN new ELSE status[q]
      /\ \A q \in Proposals : gateway_count[q] \in Nat
  BY DEF Goto, ProposalInv, TypeOK
<1>2. \A q, k : MoreThanHalf(q, k)' = MoreThanHalf(q, k)
  BY DEF MoreThanHalf, Tally, VotersFor
<1>3. TasksJustified'
  <2>1. ASSUME NEW u \in Tasks, NEW q \in Proposals, task'[u] # Idle, task'[u].p = q
        PROVE  Justified(u, q)'
    <3>1. CASE u = t
      BY <1>1, <2>1, <3>1 DEF Justified
    <3>2. CASE u # t
      BY <1>1, <1>2, <2>1, <3>2 DEF ProposalInv, TasksJustified, Justified
    <3> QED BY <3>1, <3>2
  <2> QED
    BY <2>1 DEF TasksJustified
<1>4. UnopenedBlank' /\ ModeRespected'
  BY <1>1 DEF ProposalInv, UnopenedBlank, ModeRespected
<1>5. DecisionBacked'
  BY <1>1, <1>2 DEF ProposalInv, DecisionBacked, KindOf, Decided
<1> QED
  BY <1>3, <1>4, <1>5 DEF ProposalInv

LEMMA SetStatusInv ==
    ASSUME ProposalInv, TypeOK', NEW t \in Tasks, set_status(t)
    PROVE  ProposalInv'
<1> DEFINE p == task[t].p
           next == [pc |-> "resolve", p |-> p, to |-> "accepted"]
<1>1. p \in Proposals /\ gateway_count[p] <= 2 /\ gateway_count[p] \in Nat
  BY TaskShape DEF set_status, ProposalInv, TasksJustified, Justified, TypeOK
<1>2. /\ next \in TaskState /\ Goto(t, next) /\ next.p = p /\ next.pc = "resolve"
      /\ status' = [status EXCEPT ![p] = "pr_accepted"] /\ UNCHANGED <<gateway_count, votes>>
  BY <1>1 DEF set_status, TaskState, Decided
<1>3. "pr_accepted" \in Statuses \ {"none", "voting"} /\ "pr_accepted" \notin Decided
  BY DEF Statuses, Decided
<1> HIDE DEF p, next
<1> QED
  BY <1>1, <1>2, <1>3, StatusStep

LEMMA ResolveInv ==
    ASSUME ProposalInv, TypeOK', NEW t \in Tasks, resolve(t)
    PROVE  ProposalInv'
<1> DEFINE p == task[t].p
           new == task[t].to
<1>1. /\ p \in Proposals /\ new \in Decided
      /\ \A d \in Decided : new = d /\ gateway_count[p] > 2 => MoreThanHalf(p, KindOf(d))
  BY TaskShape DEF resolve, ProposalInv, TasksJustified, Justified
<1>2. /\ Idle \in TaskState /\ Goto(t, Idle)
      /\ status' = [status EXCEPT ![p] = new] /\ UNCHANGED <<gateway_count, votes>>
  BY DEF resolve, TaskState
<1>3. new \in Statuses \ {"none", "voting"} /\ new \notin {"pr_pending", "pr_accepted"}
  BY <1>1 DEF Statuses, Decided
<1> HIDE DEF p, new
<1> QED
  BY <1>1, <1>2, <1>3, StatusStep

LEMMA NextProposalInv == ProposalInv /\ [Next]_vars => ProposalInv'
<1> SUFFICES ASSUME ProposalInv, [Next]_vars PROVE ProposalInv'
  OBVIOUS
<1>1. TypeOK'
  BY NextTypeOK DEF ProposalInv
<1>2. CASE UNCHANGED vars
  <2>1. \A p, k : MoreThanHalf(p, k)' = MoreThanHalf(p, k)
    BY <1>2 DEF vars, MoreThanHalf, Tally, VotersFor
  <2> QED
    BY <1>1, <1>2, <2>1 DEF vars, ProposalInv, UnopenedBlank, TasksJustified, Justified,
       ModeRespected, DecisionBacked
<1>3. CASE Next
  BY <1>1, <1>3, OpenInv, CastVoteBeginInv, ReviewBeginInv, InsertVoteInv, TallyInv,
     SetStatusInv, ResolveInv, FailInv DEF Next, open_contribution, cast_vote
<1> QED
  BY <1>2, <1>3

LEMMA SpecProposalInv == Spec => []ProposalInv
<1> QED
  BY InitProposalInv, NextProposalInv, PTL DEF Spec

-----------------------------------------------------------------------------

\* Type correctness of the proposals store.
THEOREM ProposalTypes == Spec => []TypeOK
<1>1. ProposalInv => TypeOK
  BY DEF ProposalInv
<1> QED
  BY <1>1, SpecProposalInv, PTL

\* A decision by vote always has a majority of the gateways behind it, for any
\* number of voters and any interleaving of their handlers.
THEOREM DecisionsAreBacked == Spec => []DecisionBacked
<1>1. ProposalInv => DecisionBacked
  BY DEF ProposalInv
<1> QED
  BY <1>1, SpecProposalInv, PTL

\* No proposal is decided by the mode that was not chosen for it.
THEOREM ModesAreKept == Spec => []ModeRespected
<1>1. ProposalInv => ModeRespected
  BY DEF ProposalInv
<1> QED
  BY <1>1, SpecProposalInv, PTL

\* A recorded vote is never changed.
THEOREM VotesStay == Spec => VotesImmutable
<1> DEFINE Kept == \A p \in Proposals, v \in Voters :
                       votes[p][v] # "none" => votes'[p][v] = votes[p][v]
<1>1. ProposalInv /\ [Next]_vars => [Kept]_vars
  <2> SUFFICES ASSUME ProposalInv, Next PROVE Kept
    OBVIOUS
  <2>1. ASSUME NEW t \in Tasks, cast_vote_insert(t) PROVE Kept
    <3>1. task[t].p \in Proposals /\ task[t].voter \in Voters
      BY <2>1, TaskShape DEF cast_vote_insert, ProposalInv
    <3> QED
      BY <2>1, <3>1 DEF cast_vote_insert, ProposalInv, TypeOK
  <2>2. CASE UNCHANGED votes
    BY <2>2
  <2> QED
    BY <2>1, <2>2 DEF Next, open_contribution, cast_vote, open, cast_vote_begin,
       accept_pr_begin, reject_pr_begin,
       review_pr_begin, check_vote_outcome, set_status, resolve, Fail
<1> QED
  BY <1>1, SpecProposalInv, PTL DEF Spec, VotesImmutable

-----------------------------------------------------------------------------
(***************************************************************************)
(* Finality of a vote needs a hypothesis the code does not enforce: no     *)
(* more voters than gateways.  Then two opposite majorities would share a  *)
(* voter.                                                                  *)
(***************************************************************************)
LEMMA NoOppositeMajorities ==
    ASSUME ProposalInv, NEW p \in Proposals,
           Cardinality(Voters) <= gateway_count[p],
           MoreThanHalf(p, "approve"), MoreThanHalf(p, "reject")
    PROVE  FALSE
<1> DEFINE A == VotersFor(p, "approve")
           R == VotersFor(p, "reject")
<1>1. A \subseteq Voters /\ R \subseteq Voters /\ A \cap R = {}
  BY DEF VotersFor
<1>2. Cardinality(A) \in Nat /\ Cardinality(R) \in Nat /\ Cardinality(Voters) \in Nat
  BY TallyType, VotersAssumption, FS_CardinalityType DEF Tally
<1>3. gateway_count[p] \in Nat
  BY DEF ProposalInv, TypeOK
<1>4. Cardinality(A) + Cardinality(R) > Cardinality(Voters)
  BY <1>2, <1>3 DEF MoreThanHalf, Tally
<1> QED
  BY <1>1, <1>4, VotersAssumption, FS_MajoritiesIntersect

\* With at most as many voters as gateways, a proposal accepted or rejected by
\* vote stays what it is although resolve is an unconditional UPDATE and late
\* voters may still be between tally and resolve.
THEOREM VotedDecisionsAreFinal == Spec => VotedDecisionFinal
<1> DEFINE Voted(p) == /\ gateway_count[p] > 2 /\ Cardinality(Voters) <= gateway_count[p]
                       /\ status[p] \in Decided
           Final == \A p \in Proposals : Voted(p) => status'[p] = status[p]
<1>1. ProposalInv /\ [Next]_vars => [Final]_vars
  <2> SUFFICES ASSUME ProposalInv, Next, NEW p \in Proposals, Voted(p)
               PROVE  status'[p] = status[p]
    OBVIOUS
  <2>0. TypeOK /\ gateway_count[p] \in Nat
    BY DEF ProposalInv, TypeOK
  <2>1. ASSUME NEW t \in Tasks, resolve(t) PROVE status'[p] = status[p]
    <3>1. CASE task[t].p # p
      BY <2>0, <2>1, <3>1 DEF resolve, TypeOK
    <3>2. CASE task[t].p = p
      <4>1. task[t].to \in Decided /\ task[t] # Idle /\ Justified(t, p)
        BY <2>1, <3>2, TaskShape DEF resolve, ProposalInv, TasksJustified
      <4>2. MoreThanHalf(p, KindOf(task[t].to))
        BY <2>1, <4>1 DEF Justified, resolve
      <4>3. MoreThanHalf(p, KindOf(status[p]))
        BY DEF ProposalInv, DecisionBacked, KindOf, Decided
      <4>4. KindOf(task[t].to) = KindOf(status[p])
        BY <4>2, <4>3, NoOppositeMajorities DEF KindOf
      <4>5. task[t].to = status[p]
        BY <4>1, <4>4 DEF KindOf, Decided
      <4> QED
        BY <2>0, <2>1, <3>2, <4>5 DEF resolve, TypeOK
    <3> QED BY <3>1, <3>2
  <2>2. ASSUME NEW t \in Tasks, set_status(t) PROVE status'[p] = status[p]
    <3>1. task[t].p # p
      BY <2>0, <2>2, TaskShape DEF set_status, ProposalInv, TasksJustified, Justified
    <3> QED
      BY <2>0, <2>2, <3>1 DEF set_status, TypeOK
  <2>3. ASSUME NEW q \in Proposals, NEW n \in GatewayCounts, open(q, n)
        PROVE  status'[p] = status[p]
    BY <2>0, <2>3 DEF open, TypeOK, Decided
  <2>4. CASE UNCHANGED status
    BY <2>4
  <2> QED
    BY <2>1, <2>2, <2>3, <2>4 DEF Next, open_contribution, cast_vote, cast_vote_begin,
       accept_pr_begin, reject_pr_begin,
       review_pr_begin, cast_vote_insert, check_vote_outcome, Fail
<1> QED
  BY <1>1, SpecProposalInv, PTL DEF Spec, VotedDecisionFinal

-----------------------------------------------------------------------------

\* Once the last handler that checked a proposal before its decision is done,
\* the proposal is settled for good: every write of the status belongs to a
\* handler that is past its check, and no check lets one start on a decided
\* proposal (cast_vote, accept_pr, reject_pr, resolve).
THEOREM DecisionsSettle == Spec => SettledStays
<1> DEFINE Settled(p) == status[p] \in Decided /\ Undisturbed(p)
           Stays == \A p \in Proposals : Settled(p) => status'[p] = status[p] /\ Undisturbed(p)'
<1>1. ProposalInv /\ [Next]_vars => [Stays]_vars
  <2> SUFFICES ASSUME ProposalInv, Next, NEW p \in Proposals, status[p] \in Decided, Undisturbed(p)
               PROVE  status'[p] = status[p] /\ Undisturbed(p)'
    OBVIOUS
  <2>0. TypeOK
    BY DEF ProposalInv
  <2>1. ASSUME NEW t \in Tasks, task[t] # Idle,
               cast_vote_insert(t) \/ check_vote_outcome(t) \/ set_status(t) \/ resolve(t) \/ Fail(t)
        PROVE  status'[p] = status[p] /\ Undisturbed(p)'
    <3>1. task[t].p # p
      BY <2>1 DEF Undisturbed
    <3>2. status'[p] = status[p]
      BY <2>0, <2>1, <3>1 DEF TypeOK, cast_vote_insert, check_vote_outcome, set_status, resolve, Fail
    <3>3. \A u \in Tasks : task'[u] = task[u] \/ task'[u] = Idle
                                \/ (task'[u].p = task[t].p)
      BY <2>0, <2>1 DEF TypeOK, cast_vote_insert, check_vote_outcome, set_status, resolve, Fail, Goto
    <3>4. QED
      BY <3>1, <3>2, <3>3 DEF Undisturbed
  <2>2. ASSUME NEW t \in Tasks, NEW q \in Proposals,
               cast_vote(t, q) \/ accept_pr_begin(t, q) \/ reject_pr_begin(t, q)
        PROVE  status'[p] = status[p] /\ Undisturbed(p)'
    <3>1. q # p /\ status' = status
      BY <2>2 DEF cast_vote, cast_vote_begin, accept_pr_begin, reject_pr_begin, review_pr_begin, Decided
    <3>2. \A u \in Tasks : task'[u] = task[u] \/ task'[u].p = q
      BY <2>0, <2>2 DEF TypeOK, cast_vote, cast_vote_begin, accept_pr_begin, reject_pr_begin,
         review_pr_begin, Goto
    <3>3. QED
      BY <3>1, <3>2 DEF Undisturbed
  <2>3. ASSUME NEW q \in Proposals, open_contribution(q)
        PROVE  status'[p] = status[p] /\ Undisturbed(p)'
    BY <2>0, <2>3 DEF open_contribution, open, TypeOK, Decided, Undisturbed
  <2>4. \A t \in Tasks : cast_vote_insert(t) \/ check_vote_outcome(t) \/ set_status(t)
                            \/ resolve(t) \/ Fail(t) => task[t] # Idle
    BY DEF cast_vote_insert, check_vote_outcome, set_status, resolve, Fail, Idle
  <2>5. QED
    BY <2>1, <2>2, <2>3, <2>4 DEF Next
<1>2. QED
  BY <1>1, SpecProposalInv, PTL DEF Spec, SettledStays
=============================================================================
