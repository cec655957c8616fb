------------------------------ MODULE Projects ------------------------------
(***************************************************************************)
(* The project registry and the onboarding of peer projects: projects.rs,  *)
(* onboarding.rs, the dispatch of context_builder.rs and the onboarding    *)
(* handlers of web/projects.rs.                                            *)
(*                                                                         *)
(* A row of projects holds the onboarding step; the prompt shown to the    *)
(* user is kept in memory only.  A call is the sequence of the statements  *)
(* it still has to execute; calls run concurrently and may end early.      *)
(* Requests that change nothing (an unknown folder, an empty task, an      *)
(* unexpected step) are left out.                                          *)
(***************************************************************************)
EXTENDS Naturals, Sequences

CONSTANTS
    Projects,
    Tasks,        \* calls running at the same time
    MaxRequests,  \* bound on context-build requests that agents are working on
    MaxStale,     \* bound on answers given from a page that is out of date
    MaxFailures   \* bound on calls that end early

ASSUME ProjectBounds ==
    MaxRequests \in Nat \ {0} /\ MaxStale \in Nat /\ MaxFailures \in Nat

\* "nothing" is what an idle call works on.
ASSUME ProjectsAssumption == "nothing" \notin Projects

VARIABLES
    step,        \* projects.onboarding_step: "done" for NULL, "absent" without a row
    folder,      \* folder[p]: folder_path is not empty
    visibility,
    active,      \* projects.is_active
    focus,       \* focus[p]: the task log has the user's Focus entry
    prompt,      \* OnboardingManager.pending: the step asked for, or "none"
    requests,    \* context-build requests dispatched and not answered
    task,        \* the calls' remaining statements
    shown,       \* history: the steps that pages of p have displayed
    grouped,     \* history: the projects that have had visibility group
    asked,       \* history: the projects that have been prompted for
    overlapped,  \* history: the projects two calls worked on at the same time
    reopened,    \* history: the projects whose step was written again after "done"
    crashed,
    stale,
    failures

vars == <<step, folder, visibility, active, focus, prompt, requests, task, shown,
          grouped, asked, overlapped, reopened, crashed, stale, failures>>

row == <<step, folder, visibility, active>>
history == <<grouped, overlapped, reopened, crashed, stale, failures>>

PromptSteps == {"awaiting_folder", "awaiting_files", "awaiting_user_input"}
Steps == PromptSteps \cup {"absent", "building_context", "done"}
Visibility == {"lan-only", "group", "public"}

\* One statement: what it writes and the value.
Statement ==
    ({"set_folder_path", "append_focus", "dispatch", "clear_prompt"} \X {"-"})
    \cup ({"set_onboarding_step"} \X Steps)
    \cup ({"emit_prompt"} \X PromptSteps)
    \cup ({"set_visibility"} \X Visibility)

Idle == [on |-> "nothing", todo |-> <<>>]

TypeOK ==
    /\ step \in [Projects -> Steps]
    /\ folder \in [Projects -> BOOLEAN]
    /\ visibility \in [Projects -> Visibility]
    /\ active \in [Projects -> BOOLEAN]
    /\ focus \in [Projects -> BOOLEAN]
    /\ prompt \in [Projects -> PromptSteps \cup {"none"}]
    /\ requests \in [Projects -> 0 .. MaxRequests]
    /\ \A t \in Tasks : \/ task[t] = Idle
                        \/ /\ task[t].on \in Projects
                           /\ task[t].todo # <<>>
                           /\ \A n \in DOMAIN task[t].todo : task[t].todo[n] \in Statement
    /\ shown \in [Projects -> SUBSET PromptSteps]
    /\ {grouped, asked, overlapped, reopened} \subseteq SUBSET Projects
    /\ crashed \in BOOLEAN
    /\ stale \in 0 .. MaxStale
    /\ failures \in 0 .. MaxFailures

Init ==
    /\ step = [p \in Projects |-> "absent"]
    /\ folder = [p \in Projects |-> FALSE]
    /\ visibility = [p \in Projects |-> "lan-only"]
    /\ active = [p \in Projects |-> FALSE]
    /\ focus = [p \in Projects |-> FALSE]
    /\ prompt = [p \in Projects |-> "none"]
    /\ requests = [p \in Projects |-> 0]
    /\ task = [t \in Tasks |-> Idle]
    /\ shown = [p \in Projects |-> {}]
    /\ grouped = {} /\ asked = {} /\ overlapped = {} /\ reopened = {}
    /\ crashed = FALSE /\ stale = 0 /\ failures = 0

Busy(p) == \E t \in Tasks : task[t].on = p

\* A call on p begins, with the statements todo ahead of it.
Begin(t, p, todo) ==
    /\ task[t] = Idle
    /\ task' = [task EXCEPT ![t] = [on |-> p, todo |-> todo]]
    /\ overlapped' = IF Busy(p) THEN overlapped \cup {p} ELSE overlapped

\* The next statement of t is op with value v; afterwards t goes on.
Executes(t, op, v) ==
    /\ task[t] # Idle
    /\ Head(task[t].todo) = <<op, v>>
    /\ task' = [task EXCEPT ![t] = IF Len(task[t].todo) = 1
                                    THEN Idle
                                    ELSE [on |-> task[t].on, todo |-> Tail(task[t].todo)]]

-----------------------------------------------------------------------------
(* ProjectStore.                                                           *)

\* Mutant of create: the step of a local project is an empty string.
create_EmptyStep(p, peer) ==
    /\ step[p] = "absent"
    /\ step' = [step EXCEPT ![p] = IF peer THEN "awaiting_folder" ELSE ""]
    /\ UNCHANGED <<folder, visibility, active, focus, prompt, requests, task, shown, asked,
                   history>>

\* create: the INSERT, with an onboarding step only for a project of a peer.
create(p, peer) ==
    /\ step[p] = "absent"
    /\ step' = [step EXCEPT ![p] = IF peer THEN "awaiting_folder" ELSE "done"]
    /\ UNCHANGED <<folder, visibility, active, focus, prompt, requests, task, shown, asked,
                   history>>

\* Mutant of can_transition_to: a project may be published at once.
can_transition_to_Skips(from, to) == from # to

\* can_transition_to: exactly one level.
can_transition_to(from, to) == from # to /\ "group" \in {from, to}

\* set_visibility: get and the two guards; the UPDATE follows.
set_visibility_begin(t, p, next) ==
    /\ step[p] # "absent"
    /\ ~active[p]
    /\ can_transition_to(visibility[p], next)
    /\ Begin(t, p, <<<<"set_visibility", next>>>>)
    /\ UNCHANGED <<row, focus, prompt, requests, shown, grouped, asked, reopened,
                   crashed, stale, failures>>

set_visibility(t, next) ==
    /\ Executes(t, "set_visibility", next)
    /\ visibility' = [visibility EXCEPT ![task[t].on] = next]
    /\ grouped' = IF next = "group" THEN grouped \cup {task[t].on} ELSE grouped
    /\ UNCHANGED <<step, folder, active, focus, prompt, requests, shown, asked, overlapped,
                   reopened, crashed, stale, failures>>

set_active(p, b) ==
    /\ step[p] # "absent"
    /\ active[p] # b
    /\ active' = [active EXCEPT ![p] = b]
    /\ UNCHANGED <<step, folder, visibility, focus, prompt, requests, task, shown, asked,
                   history>>

set_folder_path(t) ==
    /\ Executes(t, "set_folder_path", "-")
    /\ folder' = [folder EXCEPT ![task[t].on] = TRUE]
    /\ UNCHANGED <<step, visibility, active, focus, prompt, requests, shown, asked, history>>

set_onboarding_step(t, s) ==
    /\ Executes(t, "set_onboarding_step", s)
    /\ step' = [step EXCEPT ![task[t].on] = s]
    /\ reopened' = IF step[task[t].on] = "done" THEN reopened \cup {task[t].on} ELSE reopened
    /\ UNCHANGED <<folder, visibility, active, focus, prompt, requests, shown, asked, grouped,
                   overlapped, crashed, stale, failures>>

-----------------------------------------------------------------------------
(* OnboardingManager.                                                      *)

\* start: called once the peer's project has been added.
start(t, p) ==
    /\ step[p] = "awaiting_folder"
    /\ p \notin asked /\ ~Busy(p)
    /\ Begin(t, p, <<<<"emit_prompt", "awaiting_folder">>>>)
    /\ UNCHANGED <<row, focus, prompt, requests, shown, grouped, asked, reopened,
                   crashed, stale, failures>>

\* Mutant of handle_folder_answer: the step is advanced before the folder is set.
handle_folder_answer_StepFirst ==
    << <<"set_onboarding_step", "awaiting_files">>, <<"set_folder_path", "-">>,
       <<"emit_prompt", "awaiting_files">> >>

handle_folder_answer ==
    << <<"set_folder_path", "-">>, <<"set_onboarding_step", "awaiting_files">>,
       <<"emit_prompt", "awaiting_files">> >>

\* The glob and the Note of the task log are read by nobody and left out.
handle_files_answer ==
    << <<"set_onboarding_step", "building_context">>, <<"dispatch", "-">> >>

\* Mutant of handle_user_task: the prompt is cleared first.
handle_user_task_ClearFirst ==
    << <<"clear_prompt", "-">>, <<"append_focus", "-">>, <<"set_onboarding_step", "done">> >>

handle_user_task ==
    << <<"append_focus", "-">>, <<"set_onboarding_step", "done">>, <<"clear_prompt", "-">> >>

\* answer: the handler is chosen by the step the page sent, not by the row.
Handler(s) ==
    CASE s = "awaiting_folder"     -> handle_folder_answer
      [] s = "awaiting_files"      -> handle_files_answer
      [] s = "awaiting_user_input" -> handle_user_task

\* onboard_answer, from a page that shows the prompt of step s: the current one,
\* or one that has been replaced since (another tab, a second submit).
answer(t, p, s) ==
    /\ s \in shown[p]
    /\ IF s = prompt[p]
       THEN UNCHANGED stale
       ELSE stale < MaxStale /\ stale' = stale + 1
    /\ Begin(t, p, Handler(s))
    /\ UNCHANGED <<row, focus, prompt, requests, shown, grouped, asked, reopened, crashed,
                   failures>>

\* onboard_prompt: peek_prompt, rendered with its step in the form.
onboard_prompt(p) ==
    /\ prompt[p] # "none"
    /\ shown' = [shown EXCEPT ![p] = @ \cup {prompt[p]}]
    /\ UNCHANGED <<row, focus, prompt, requests, task, asked, history>>

append_focus(t) ==
    /\ Executes(t, "append_focus", "-")
    /\ focus' = [focus EXCEPT ![task[t].on] = TRUE]
    /\ UNCHANGED <<row, prompt, requests, shown, asked, history>>

\* The spawned ContextBuilder::dispatch reaches an agent.  It is a task of its own
\* that the handler does not wait for; it is kept as the last statement of the
\* call, after which the handler only pushes a notification, so for Busy and
\* overlapped a call goes on until its dispatch has ended.
dispatch(t) ==
    /\ Executes(t, "dispatch", "-")
    /\ requests' = [requests EXCEPT ![task[t].on] = IF @ < MaxRequests THEN @ + 1 ELSE @]
    /\ UNCHANGED <<row, focus, prompt, shown, asked, history>>

\* context_ready: the agent calls back with its summary.
context_ready(t, p) ==
    /\ requests[p] > 0
    /\ requests' = [requests EXCEPT ![p] = @ - 1]
    /\ Begin(t, p, << <<"set_onboarding_step", "awaiting_user_input">>,
                      <<"emit_prompt", "awaiting_user_input">> >>)
    /\ UNCHANGED <<row, focus, prompt, shown, grouped, asked, reopened, crashed, stale,
                   failures>>

\* Mutant of emit_prompt: an earlier prompt is kept.
emit_prompt_Keeps(t, s) ==
    /\ Executes(t, "emit_prompt", s)
    /\ prompt' = [prompt EXCEPT ![task[t].on] = IF @ = "none" THEN s ELSE @]
    /\ asked' = asked \cup {task[t].on}
    /\ UNCHANGED <<row, focus, requests, shown, history>>

emit_prompt(t, s) ==
    /\ Executes(t, "emit_prompt", s)
    /\ prompt' = [prompt EXCEPT ![task[t].on] = s]
    /\ asked' = asked \cup {task[t].on}
    /\ UNCHANGED <<row, focus, requests, shown, history>>

clear_prompt(t) ==
    /\ Executes(t, "clear_prompt", "-")
    /\ prompt' = [prompt EXCEPT ![task[t].on] = "none"]
    /\ UNCHANGED <<row, focus, requests, shown, asked, history>>

-----------------------------------------------------------------------------

\* The call ends before its next statement; for a dispatch, no agent is
\* registered or the agent cannot be reached.
Fail(t) ==
    /\ failures < MaxFailures
    /\ task[t] # Idle
    /\ task' = [task EXCEPT ![t] = Idle]
    /\ failures' = failures + 1
    /\ UNCHANGED <<row, focus, prompt, requests, shown, grouped, asked, overlapped,
                   reopened, crashed, stale>>

\* The gateway stops and starts again: calls, prompts and requests that had not
\* reached their agent are gone; pages stay open.
Crash ==
    /\ ~crashed
    /\ crashed' = TRUE
    /\ task' = [t \in Tasks |-> Idle]
    /\ prompt' = [p \in Projects |-> "none"]
    /\ \E n \in [Projects -> 0 .. MaxRequests] :
           /\ \A p \in Projects : n[p] <= requests[p]
           /\ requests' = n
    /\ UNCHANGED <<row, focus, shown, grouped, asked, overlapped, reopened, stale, failures>>

Step(t) ==
    \/ set_folder_path(t) \/ append_focus(t) \/ dispatch(t) \/ clear_prompt(t)
    \/ \E s \in Steps : set_onboarding_step(t, s)
    \/ \E s \in PromptSteps : emit_prompt(t, s)
    \/ \E v \in Visibility : set_visibility(t, v)

Next ==
    \/ \E p \in Projects, peer \in BOOLEAN : create(p, peer)
    \/ \E p \in Projects, b \in BOOLEAN : set_active(p, b)
    \/ \E t \in Tasks, p \in Projects, v \in Visibility : set_visibility_begin(t, p, v)
    \/ \E t \in Tasks, v \in Visibility : set_visibility(t, v)
    \/ \E t \in Tasks, p \in Projects : start(t, p)
    \/ \E p \in Projects : onboard_prompt(p)
    \/ \E t \in Tasks, p \in Projects, s \in PromptSteps : answer(t, p, s)
    \/ \E t \in Tasks, p \in Projects : context_ready(t, p)
    \/ \E t \in Tasks : set_folder_path(t)
    \/ \E t \in Tasks, s \in Steps : set_onboarding_step(t, s)
    \/ \E t \in Tasks : append_focus(t)
    \/ \E t \in Tasks : dispatch(t)
    \/ \E t \in Tasks, s \in PromptSteps : emit_prompt(t, s)
    \/ \E t \in Tasks : clear_prompt(t)
    \/ \E t \in Tasks : Fail(t)
    \/ Crash

Spec == Init /\ [][Next]_vars

\* The page polls; the user answers what it shows, again if need be; an agent
\* that received a request calls back; a call that has begun runs to its end.
FairSpec ==
    /\ Spec
    /\ \A t \in Tasks : WF_vars(Step(t))
    /\ \A p \in Projects :
           /\ WF_vars(onboard_prompt(p))
           /\ SF_vars(\E t \in Tasks : context_ready(t, p))
           /\ SF_vars(\E t \in Tasks : answer(t, p, prompt[p]))

-----------------------------------------------------------------------------

\* A project has what its step stands on, whatever pages answer late or twice and
\* wherever a call ends: nothing after the first question is reached without a
\* folder, which the sync that follows reads, and onboarding is never over without
\* the user's task in the task log (the handlers write these before the step).
StepsEarned ==
    \A p \in asked : /\ step[p] # "awaiting_folder" => folder[p]
                     /\ step[p] = "done" => focus[p]

\* What onboarding does not survive: two calls on the project at the same time, a
\* restart of the gateway, or an early end of a call when an old page or a second
\* answer of an agent has opened it again.
Disturbed(p) == p \in overlapped \/ crashed \/ (failures > 0 /\ p \in reopened)

\* Until onboarding is over the user is asked for something or an agent is at
\* work, although the step and the prompt are written separately, calls end early
\* and pages answer late; and nothing is asked afterwards unless a call ended
\* early between the two.
AskedUntilDone ==
    \A p \in asked : ~Disturbed(p) /\ ~Busy(p) =>
        /\ step[p] # "done" => prompt[p] # "none" \/ requests[p] > 0
        /\ step[p] = "done" => prompt[p] = "none" \/ failures > 0

\* A project is public only if it was shared with a group before ("must move
\* exactly one level"), although set_visibility checks a row that concurrent
\* calls may have changed by the time of its UPDATE.
PublicWasGroup ==
    \A p \in Projects : visibility[p] = "public" => p \in grouped

\* Onboarding ends, through failed dispatches and calls that end early, or
\* through answers from pages that are out of date.
OnboardingEnds ==
    \A p \in Projects : (p \in asked) ~> (step[p] = "done" \/ Disturbed(p))
=============================================================================
