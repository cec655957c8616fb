--------------------------- MODULE ProjectsProofs ---------------------------
(***************************************************************************)
(* Proofs about Projects, for any projects, any number of calls and any    *)
(* bounds.                                                                 *)
(*                                                                         *)
(* A call is at the head of one of the Plans, so that its next statement   *)
(* says what it has done.  EarlyInv holds in every state, overlaps and     *)
(* restarts included: what a step, a page, a request or a call stands on   *)
(* was written before it.  AskInv follows the single call of a project     *)
(* that is not disturbed: a question is open, or the call will ask one, or *)
(* an agent will be answering.                                             *)
(***************************************************************************)
EXTENDS Projects, TLAPS

\* The first question of the onboarding.
Ask == <<"emit_prompt", "awaiting_folder">>

\* What a call may still have to do.
Plans ==
    {<< <<"set_visibility", v>> >> : v \in Visibility}
    \cup {<<Ask>>}
    \cup {handle_folder_answer, Tail(handle_folder_answer), Tail(Tail(handle_folder_answer))}
    \cup {handle_files_answer, Tail(handle_files_answer)}
    \cup {handle_user_task, Tail(handle_user_task), Tail(Tail(handle_user_task))}
    \cup {<< <<"set_onboarding_step", "awaiting_user_input">>,
             <<"emit_prompt", "awaiting_user_input">> >>,
          << <<"emit_prompt", "awaiting_user_input">> >>}

\* The last statements of a call; every other one has its successor.
Last == ({"set_visibility"} \X Visibility) \cup ({"emit_prompt"} \X PromptSteps)
        \cup {<<"dispatch", "-">>, <<"clear_prompt", "-">>}

Follows(h, n) ==
    \/ h = <<"set_folder_path", "-">> /\ n = <<"set_onboarding_step", "awaiting_files">>
    \/ h = <<"set_onboarding_step", "awaiting_files">> /\ n = <<"emit_prompt", "awaiting_files">>
    \/ h = <<"set_onboarding_step", "building_context">> /\ n = <<"dispatch", "-">>
    \/ h = <<"append_focus", "-">> /\ n = <<"set_onboarding_step", "done">>
    \/ h = <<"set_onboarding_step", "done">> /\ n = <<"clear_prompt", "-">>
    \/ h = <<"set_onboarding_step", "awaiting_user_input">>
       /\ n = <<"emit_prompt", "awaiting_user_input">>

LEMMA Sequences1 ==
    ASSUME NEW a
    PROVE  Len(<<a>>) = 1 /\ Head(<<a>>) = a /\ DOMAIN <<a>> = {1} /\ <<a>>[1] = a
OBVIOUS

LEMMA Sequences2 ==
    ASSUME NEW a, NEW b
    PROVE  /\ Len(<<a, b>>) = 2 /\ Head(<<a, b>>) = a /\ Tail(<<a, b>>) = <<b>>
           /\ DOMAIN <<a, b>> = {1, 2} /\ <<a, b>>[1] = a /\ <<a, b>>[2] = b
<1>1. Len(<<a, b>>) = 2 /\ Head(<<a, b>>) = a
      /\ DOMAIN <<a, b>> = {1, 2} /\ <<a, b>>[1] = a /\ <<a, b>>[2] = b
  OBVIOUS
<1>2. Tail(<<a, b>>) = <<b>>
  OBVIOUS
<1>3. QED
  BY <1>1, <1>2

LEMMA Sequences3 ==
    ASSUME NEW a, NEW b, NEW c
    PROVE  /\ Len(<<a, b, c>>) = 3 /\ Head(<<a, b, c>>) = a /\ Tail(<<a, b, c>>) = <<b, c>>
           /\ DOMAIN <<a, b, c>> = {1, 2, 3}
           /\ <<a, b, c>>[1] = a /\ <<a, b, c>>[2] = b /\ <<a, b, c>>[3] = c
<1>1. Len(<<a, b, c>>) = 3 /\ Head(<<a, b, c>>) = a
      /\ DOMAIN <<a, b, c>> = {1, 2, 3}
      /\ <<a, b, c>>[1] = a /\ <<a, b, c>>[2] = b /\ <<a, b, c>>[3] = c
  OBVIOUS
<1>2. Tail(<<a, b, c>>) = <<b, c>>
  OBVIOUS
<1>3. QED
  BY <1>1, <1>2

\* Three lengths of plans.
LEMMA PlanShapes ==
    ASSUME NEW q \in Plans
    PROVE  \/ \E h \in Last : q = <<h>>
           \/ \E a, b : q = <<a, b>> /\ Follows(a, b) /\ <<b>> \in Plans /\ b \in Last
           \/ \E a, b, c : q = <<a, b, c>> /\ Follows(a, b) /\ Follows(b, c)
                           /\ <<b, c>> \in Plans /\ c \in Last
<1>1. /\ Tail(handle_folder_answer) = << <<"set_onboarding_step", "awaiting_files">>,
                                         <<"emit_prompt", "awaiting_files">> >>
      /\ Tail(Tail(handle_folder_answer)) = << <<"emit_prompt", "awaiting_files">> >>
  BY Sequences2, Sequences3 DEF handle_folder_answer
<1>2. Tail(handle_files_answer) = << <<"dispatch", "-">> >>
  BY Sequences2 DEF handle_files_answer
<1>3. /\ Tail(handle_user_task) = << <<"set_onboarding_step", "done">>, <<"clear_prompt", "-">> >>
      /\ Tail(Tail(handle_user_task)) = << <<"clear_prompt", "-">> >>
  BY Sequences2, Sequences3 DEF handle_user_task
<1>4. CASE \E v \in Visibility : q = << <<"set_visibility", v>> >>
  <2>1. \A v \in Visibility : <<"set_visibility", v>> \in Last
    BY DEF Last
  <2>2. QED
    BY <1>4, <2>1
<1>5. CASE q \in {<<Ask>>, Tail(Tail(handle_folder_answer)), Tail(handle_files_answer),
                  Tail(Tail(handle_user_task)), << <<"emit_prompt", "awaiting_user_input">> >>}
  <2>1. {Ask, <<"emit_prompt", "awaiting_files">>, <<"dispatch", "-">>, <<"clear_prompt", "-">>,
         <<"emit_prompt", "awaiting_user_input">>} \subseteq Last
    BY DEF Last, Ask, PromptSteps
  <2>2. QED
    BY <1>1, <1>2, <1>3, <1>5, <2>1
<1>6. CASE q = handle_folder_answer
  <2>1. /\ q = << <<"set_folder_path", "-">>, <<"set_onboarding_step", "awaiting_files">>,
                  <<"emit_prompt", "awaiting_files">> >>
        /\ << <<"set_onboarding_step", "awaiting_files">>,
              <<"emit_prompt", "awaiting_files">> >> \in Plans
        /\ <<"emit_prompt", "awaiting_files">> \in Last
    BY <1>1, <1>6 DEF handle_folder_answer, Plans, Last, PromptSteps
  <2>2. /\ Follows(<<"set_folder_path", "-">>, <<"set_onboarding_step", "awaiting_files">>)
        /\ Follows(<<"set_onboarding_step", "awaiting_files">>,
                   <<"emit_prompt", "awaiting_files">>)
    BY DEF Follows
  <2>3. QED
    BY <2>1, <2>2
<1>7. CASE q = Tail(handle_folder_answer)
  <2>1. Follows(<<"set_onboarding_step", "awaiting_files">>, <<"emit_prompt", "awaiting_files">>)
    BY DEF Follows
  <2>2. /\ << <<"emit_prompt", "awaiting_files">> >> \in Plans
        /\ <<"emit_prompt", "awaiting_files">> \in Last
    BY <1>1 DEF Plans, Last, PromptSteps
  <2>3. QED
    BY <1>1, <1>7, <2>1, <2>2
<1>8. CASE q = handle_files_answer
  <2>1. Follows(<<"set_onboarding_step", "building_context">>, <<"dispatch", "-">>)
    BY DEF Follows
  <2>2. << <<"dispatch", "-">> >> \in Plans /\ <<"dispatch", "-">> \in Last
    BY <1>2 DEF Plans, Last
  <2>3. QED
    BY <1>8, <2>1, <2>2 DEF handle_files_answer
<1>9. CASE q = handle_user_task
  <2>1. /\ q = << <<"append_focus", "-">>, <<"set_onboarding_step", "done">>,
                  <<"clear_prompt", "-">> >>
        /\ << <<"set_onboarding_step", "done">>, <<"clear_prompt", "-">> >> \in Plans
        /\ <<"clear_prompt", "-">> \in Last
    BY <1>3, <1>9 DEF handle_user_task, Plans, Last
  <2>2. /\ Follows(<<"append_focus", "-">>, <<"set_onboarding_step", "done">>)
        /\ Follows(<<"set_onboarding_step", "done">>, <<"clear_prompt", "-">>)
    BY DEF Follows
  <2>3. QED
    BY <2>1, <2>2
<1>10. CASE q = Tail(handle_user_task)
  <2>1. Follows(<<"set_onboarding_step", "done">>, <<"clear_prompt", "-">>)
    BY DEF Follows
  <2>2. << <<"clear_prompt", "-">> >> \in Plans /\ <<"clear_prompt", "-">> \in Last
    BY <1>3 DEF Plans, Last
  <2>3. QED
    BY <1>3, <1>10, <2>1, <2>2
<1>11. CASE q = << <<"set_onboarding_step", "awaiting_user_input">>,
                   <<"emit_prompt", "awaiting_user_input">> >>
  <2>1. Follows(<<"set_onboarding_step", "awaiting_user_input">>,
                <<"emit_prompt", "awaiting_user_input">>)
    BY DEF Follows
  <2>2. /\ << <<"emit_prompt", "awaiting_user_input">> >> \in Plans
        /\ <<"emit_prompt", "awaiting_user_input">> \in Last
    BY DEF Plans, Last, PromptSteps
  <2>3. QED
    BY <1>11, <2>1, <2>2
<1>12. QED
  BY <1>4, <1>5, <1>6, <1>7, <1>8, <1>9, <1>10, <1>11 DEF Plans

\* What is followed by something is not the last, and is a statement.
LEMMA FollowsTypes ==
    ASSUME NEW a, NEW b, Follows(a, b)
    PROVE  a \notin Last /\ a \in Statement
<1>1. a \in {<<"set_folder_path", "-">>, <<"append_focus", "-">>}
            \cup ({"set_onboarding_step"} \X Steps)
  BY DEF Follows, Steps, PromptSteps
<1>2. QED
  BY <1>1 DEF Last, Statement

LEMMA LastTypes == Last \subseteq Statement
BY DEF Last, Statement

LEMMA PlanSteps ==
    ASSUME NEW q \in Plans
    PROVE  /\ q # <<>> /\ \A n \in DOMAIN q : q[n] \in Statement
           /\ Head(q) \in Last => Len(q) = 1
           /\ Head(q) \notin Last =>
                  Len(q) # 1 /\ Tail(q) \in Plans /\ Follows(Head(q), Head(Tail(q)))
<1>1. CASE \E h \in Last : q = <<h>>
  <2>1. PICK h \in Last : q = <<h>>
    BY <1>1
  <2>2. Head(q) = h /\ Len(q) = 1 /\ DOMAIN q = {1} /\ q[1] = h
    BY <2>1, Sequences1
  <2>3. q # <<>>
    BY <2>2
  <2>4. QED
    BY <2>1, <2>2, <2>3, LastTypes
<1>2. CASE \E a, b : q = <<a, b>> /\ Follows(a, b) /\ <<b>> \in Plans /\ b \in Last
  <2>1. PICK a, b : q = <<a, b>> /\ Follows(a, b) /\ <<b>> \in Plans /\ b \in Last
    BY <1>2
  <2>2. Head(q) = a /\ Len(q) = 2 /\ Tail(q) = <<b>> /\ DOMAIN q = {1, 2} /\ q[1] = a /\ q[2] = b
    BY <2>1, Sequences2
  <2>3. q # <<>> /\ Head(Tail(q)) = b
    BY <2>2, Sequences1
  <2>4. a \notin Last /\ a \in Statement /\ b \in Statement
    BY <2>1, FollowsTypes, LastTypes
  <2>5. QED
    BY <2>1, <2>2, <2>3, <2>4
<1>3. CASE \E a, b, c : q = <<a, b, c>> /\ Follows(a, b) /\ Follows(b, c)
                        /\ <<b, c>> \in Plans /\ c \in Last
  <2>1. PICK a, b, c : q = <<a, b, c>> /\ Follows(a, b) /\ Follows(b, c)
                       /\ <<b, c>> \in Plans /\ c \in Last
    BY <1>3
  <2>2. /\ Head(q) = a /\ Len(q) = 3 /\ Tail(q) = <<b, c>> /\ DOMAIN q = {1, 2, 3}
        /\ q[1] = a /\ q[2] = b /\ q[3] = c
    BY <2>1, Sequences3
  <2>3. q # <<>> /\ Head(Tail(q)) = b
    BY <2>2, Sequences2
  <2>4. a \notin Last /\ a \in Statement /\ b \in Statement /\ c \in Statement
    BY <2>1, FollowsTypes, LastTypes
  <2>5. QED
    BY <2>1, <2>2, <2>3, <2>4
<1>4. QED
  BY <1>1, <1>2, <1>3, PlanShapes

-----------------------------------------------------------------------------

TaskInv == task \in [Tasks -> {Idle} \cup [on : Projects, todo : Plans]]

DataOK ==
    /\ step \in [Projects -> Steps]
    /\ folder \in [Projects -> BOOLEAN]
    /\ visibility \in [Projects -> Visibility]
    /\ active \in [Projects -> BOOLEAN]
    /\ focus \in [Projects -> BOOLEAN]
    /\ prompt \in [Projects -> PromptSteps \cup {"none"}]
    /\ requests \in [Projects -> 0 .. MaxRequests]
    /\ shown \in [Projects -> SUBSET PromptSteps]
    /\ grouped \subseteq Projects /\ asked \subseteq Projects
    /\ overlapped \subseteq Projects /\ reopened \subseteq Projects
    /\ crashed \in BOOLEAN
    /\ stale \in 0 .. MaxStale
    /\ failures \in 0 .. MaxFailures

\* The next statement of a call.
Doing(t) == Head(task[t].todo)

LEMMA TaskTypes ==
    ASSUME TaskInv, NEW t \in Tasks
    PROVE  /\ task[t] # Idle => /\ task[t].on \in Projects /\ task[t].todo \in Plans
                                /\ task[t] = [on |-> task[t].on, todo |-> task[t].todo]
           /\ task[t].on \in Projects => task[t] # Idle
BY ProjectsAssumption DEF TaskInv, Idle

LEMMA ProjectTypes ==
    ASSUME DataOK, TaskInv
    PROVE  TypeOK
<1>1. \A t \in Tasks : \/ task[t] = Idle
                       \/ /\ task[t].on \in Projects
                          /\ task[t].todo # <<>>
                          /\ \A n \in DOMAIN task[t].todo : task[t].todo[n] \in Statement
  BY TaskTypes, PlanSteps
<1>2. QED
  BY <1>1 DEF DataOK, TypeOK

\* The statement of t is executed; t goes on, or was at its end.
LEMMA Executed ==
    ASSUME TaskInv, NEW t \in Tasks, NEW op, NEW v, Executes(t, op, v)
    PROVE  /\ task[t] # Idle /\ task[t].on \in Projects /\ Doing(t) = <<op, v>>
           /\ TaskInv'
           /\ \A u \in Tasks : u # t => task'[u] = task[u]
           /\ <<op, v>> \in Last => task'[t] = Idle
           /\ <<op, v>> \notin Last =>
                  /\ task'[t] # Idle /\ task'[t].on = task[t].on
                  /\ Follows(<<op, v>>, Head(task'[t].todo))
<1>1. task[t] # Idle /\ Doing(t) = <<op, v>>
  BY DEF Executes, Doing
<1>2. /\ task[t].on \in Projects /\ task[t].todo \in Plans
      /\ task[t] = [on |-> task[t].on, todo |-> task[t].todo]
  BY <1>1, TaskTypes
<1>3. PICK o \in Projects, q \in Plans : task[t] = [on |-> o, todo |-> q]
  BY <1>2
<1>4. /\ Head(q) \in Last => Len(q) = 1
      /\ Head(q) \notin Last =>
             Len(q) # 1 /\ Tail(q) \in Plans /\ Follows(Head(q), Head(Tail(q)))
  BY PlanSteps
<1>5. Head(q) = <<op, v>> /\ task[t].on = o
  BY <1>1, <1>3 DEF Doing
<1>6. PICK n : n = IF Len(q) = 1 THEN Idle ELSE [on |-> o, todo |-> Tail(q)]
  OBVIOUS
<1>7. task' = [task EXCEPT ![t] = n]
  <2>1. task[t].todo = q
    BY <1>3
  <2>2. QED
    BY <1>5, <1>6, <2>1 DEF Executes
<1>8. n \in {Idle} \cup [on : Projects, todo : Plans]
  BY <1>4, <1>6
<1>9. TaskInv' /\ task'[t] = n /\ \A u \in Tasks : u # t => task'[u] = task[u]
  BY <1>7, <1>8 DEF TaskInv
<1>10. <<op, v>> \notin Last => n # Idle /\ n.on = o /\ Follows(<<op, v>>, Head(n.todo))
  BY <1>4, <1>5, <1>6, ProjectsAssumption DEF Idle
<1>11. <<op, v>> \in Last => n = Idle
  BY <1>4, <1>5, <1>6
<1>12. QED
  BY <1>1, <1>2, <1>5, <1>9, <1>10, <1>11

\* A call begins.
LEMMA Begun ==
    ASSUME TaskInv, NEW t \in Tasks, NEW p \in Projects, NEW q \in Plans, Begin(t, p, q)
    PROVE  /\ TaskInv' /\ task[t] = Idle
           /\ task'[t] # Idle /\ task'[t].on = p /\ Doing(t)' = Head(q)
           /\ \A u \in Tasks : u # t => task'[u] = task[u]
           /\ overlapped' = IF Busy(p) THEN overlapped \cup {p} ELSE overlapped
<1>1. PICK n : n = [on |-> p, todo |-> q]
  OBVIOUS
<1>2. n \in [on : Projects, todo : Plans] /\ n # Idle /\ n.on = p /\ n.todo = q
  BY <1>1, ProjectsAssumption DEF Idle
<1>3. task[t] = Idle /\ task' = [task EXCEPT ![t] = n]
      /\ overlapped' = IF Busy(p) THEN overlapped \cup {p} ELSE overlapped
  BY <1>1 DEF Begin
<1>4. TaskInv' /\ task'[t] = n /\ \A u \in Tasks : u # t => task'[u] = task[u]
  BY <1>2, <1>3 DEF TaskInv
<1>5. QED
  BY <1>2, <1>3, <1>4 DEF Doing

\* The statements a call begins with.
LEMMA FirstStatements ==
    /\ \A v \in Visibility : << <<"set_visibility", v>> >> \in Plans
                             /\ Head(<< <<"set_visibility", v>> >>) = <<"set_visibility", v>>
    /\ <<Ask>> \in Plans /\ Head(<<Ask>>) = Ask
    /\ \A s \in PromptSteps : Handler(s) \in Plans
    /\ Head(Handler("awaiting_folder")) = <<"set_folder_path", "-">>
    /\ Head(Handler("awaiting_files")) = <<"set_onboarding_step", "building_context">>
    /\ Head(Handler("awaiting_user_input")) = <<"append_focus", "-">>
<1>1. \A v \in Visibility : << <<"set_visibility", v>> >> \in Plans
                             /\ Head(<< <<"set_visibility", v>> >>) = <<"set_visibility", v>>
  BY Sequences1 DEF Plans
<1>2. <<Ask>> \in Plans /\ Head(<<Ask>>) = Ask
  BY Sequences1 DEF Plans
<1>3. /\ Handler("awaiting_folder") = handle_folder_answer
      /\ Handler("awaiting_files") = handle_files_answer
      /\ Handler("awaiting_user_input") = handle_user_task
  BY DEF Handler
<1>4. /\ Head(handle_folder_answer) = <<"set_folder_path", "-">>
      /\ Head(handle_files_answer) = <<"set_onboarding_step", "building_context">>
      /\ Head(handle_user_task) = <<"append_focus", "-">>
  BY Sequences2, Sequences3 DEF handle_folder_answer, handle_files_answer, handle_user_task
<1>5. \A s \in PromptSteps : Handler(s) \in Plans
  BY <1>3 DEF PromptSteps, Plans
<1>6. QED
  BY <1>1, <1>2, <1>3, <1>4, <1>5

-----------------------------------------------------------------------------

\* What the row, the prompts, the pages and the requests of a project stand on.
ProjectEarned(p) ==
    /\ p \in asked => /\ step[p] # "absent"
                      /\ step[p] # "awaiting_folder" => folder[p]
                      /\ step[p] = "done" => focus[p]
    /\ p \notin asked => shown[p] = {} /\ prompt[p] = "none" /\ requests[p] = 0
    /\ ~folder[p] => /\ shown[p] \subseteq {"awaiting_folder"}
                     /\ prompt[p] \in {"none", "awaiting_folder"}
                     /\ requests[p] = 0
    /\ visibility[p] # "lan-only" => p \in grouped

\* What a call on p stands on whose next statement is h.
CallEarned(p, h) ==
    /\ h[1] = "set_visibility" \/ h = Ask \/ p \in asked
    /\ h[1] \in {"set_visibility", "set_folder_path"} \/ h = Ask \/ folder[p]
    /\ h = Ask => p \notin asked /\ step[p] = "awaiting_folder"
    /\ h = <<"set_onboarding_step", "done">> => focus[p]
    /\ h = <<"set_visibility", "public">> => p \in grouped

CallsEarned == \A t \in Tasks : task[t] # Idle => CallEarned(task[t].on, Doing(t))

\* The first question is asked by one call.
OneAsk ==
    \A t, u \in Tasks :
        /\ task[t] # Idle /\ Doing(t) = Ask
        /\ task[u] # Idle /\ Doing(u) = Ask
        /\ task[t].on = task[u].on
        => t = u

EarnInv == (\A p \in Projects : ProjectEarned(p)) /\ CallsEarned /\ OneAsk

\* Nothing that a call stands on is lost.
LEMMA CallKept ==
    ASSUME NEW p \in Projects, NEW h, CallEarned(p, h),
           p \in asked => p \in asked', folder[p] => folder'[p], focus[p] => focus'[p],
           p \in grouped => p \in grouped',
           h = Ask => p \notin asked' /\ step'[p] = step[p]
    PROVE  CallEarned(p, h)'
BY DEF CallEarned

\* What follows a statement is not the first question.
LEMMA FollowsNoAsk ==
    ASSUME NEW h, NEW n, Follows(h, n)
    PROVE  n # Ask
BY DEF Follows, Ask

\* The calls, after the statement <<op, v>> of t.
LEMMA ExecutedEarned ==
    ASSUME TaskInv, CallsEarned, OneAsk, NEW t \in Tasks, NEW op, NEW v, Executes(t, op, v),
           NEW p \in Projects, p = task[t].on,
           asked \subseteq asked', grouped \subseteq grouped',
           \A k \in Projects : (folder[k] => folder'[k]) /\ (focus[k] => focus'[k]),
           \A k \in Projects : k # p => step'[k] = step[k] /\ (k \in asked' => k \in asked),
           op = "set_visibility" => step' = step /\ asked' = asked,
           \A n : Follows(<<op, v>>, n) => CallEarned(p, n)'
    PROVE  CallsEarned' /\ OneAsk'
<1>1. p = task[t].on
  OBVIOUS
<1>2. /\ task[t] # Idle /\ p \in Projects /\ Doing(t) = <<op, v>>
      /\ \A u \in Tasks : u # t => task'[u] = task[u]
      /\ <<op, v>> \in Last => task'[t] = Idle
      /\ <<op, v>> \notin Last =>
             /\ task'[t] # Idle /\ task'[t].on = p /\ Follows(<<op, v>>, Head(task'[t].todo))
  BY <1>1, Executed
<1>3. CallEarned(p, <<op, v>>)
  BY <1>1, <1>2 DEF CallsEarned
<1>4. ASSUME NEW u \in Tasks, u # t, task[u] # Idle
      PROVE  CallEarned(task[u].on, Doing(u))'
  <2>1. PICK k, h : k = task[u].on /\ h = Doing(u)
    OBVIOUS
  <2>2. k \in Projects /\ CallEarned(k, h)
    BY <1>4, <2>1, TaskTypes DEF CallsEarned
  <2>3. h = Ask => k \notin asked' /\ step'[k] = step[k]
    <3>1. SUFFICES ASSUME h = Ask PROVE k \notin asked' /\ step'[k] = step[k]
      OBVIOUS
    <3>2. k \notin asked
      BY <2>2, <3>1 DEF CallEarned
    <3>3. CASE k # p
      BY <1>1, <2>2, <3>2, <3>3
    <3>4. CASE k = p
      <4>1. <<op, v>> # Ask
        BY <1>1, <1>2, <1>4, <2>1, <3>1, <3>4 DEF OneAsk
      <4>2. op = "set_visibility"
        BY <1>3, <3>2, <3>4, <4>1 DEF CallEarned
      <4>3. QED
        BY <3>2, <4>2
    <3>5. QED
      BY <3>3, <3>4
  <2>4. CallEarned(k, h)'
    BY <2>2, <2>3, CallKept
  <2>5. task'[u].on = k /\ Doing(u)' = h
    BY <1>2, <1>4, <2>1 DEF Doing
  <2>6. QED
    BY <2>4, <2>5 DEF CallEarned
<1>5. ASSUME task'[t] # Idle PROVE CallEarned(task[t].on, Doing(t))' /\ Doing(t)' # Ask
  <2>1. task'[t].on = p /\ Follows(<<op, v>>, Doing(t)')
    BY <1>2, <1>5 DEF Doing
  <2>2. PICK n : n = Doing(t)'
    OBVIOUS
  <2>3. CallEarned(p, n)' /\ n # Ask
    BY <1>1, <2>1, <2>2, FollowsNoAsk
  <2>4. QED
    BY <2>1, <2>2, <2>3 DEF CallEarned
<1>6. CallsEarned'
  <2>1. ASSUME NEW u \in Tasks, task'[u] # Idle PROVE CallEarned(task[u].on, Doing(u))'
    BY <1>2, <1>4, <1>5, <2>1
  <2>2. QED
    BY <2>1 DEF CallsEarned
<1>7. OneAsk'
  <2>1. SUFFICES ASSUME NEW u \in Tasks, NEW w \in Tasks, task'[u] # Idle, Doing(u)' = Ask,
                        task'[w] # Idle, Doing(w)' = Ask, task'[u].on = task'[w].on
                 PROVE  u = w
    BY DEF OneAsk
  <2>2. u # t /\ w # t
    BY <1>5, <2>1
  <2>3. task'[u] = task[u] /\ task'[w] = task[w]
    BY <1>2, <2>2
  <2>4. QED
    BY <2>1, <2>3 DEF OneAsk, Doing
<1>8. QED
  BY <1>6, <1>7

\* The calls, after a new one has begun.
LEMMA BegunEarned ==
    ASSUME TaskInv, CallsEarned, OneAsk, NEW t \in Tasks, NEW p \in Projects, NEW q \in Plans,
           Begin(t, p, q), UNCHANGED <<step, folder, focus, grouped, asked>>,
           CallEarned(p, Head(q)), Head(q) = Ask => ~Busy(p)
    PROVE  CallsEarned' /\ OneAsk'
<1>1. /\ task'[t] # Idle /\ task'[t].on = p /\ Doing(t)' = Head(q)
      /\ \A u \in Tasks : u # t => task'[u] = task[u]
  BY Begun
<1>2. ASSUME NEW u \in Tasks, task'[u] # Idle PROVE CallEarned(task[u].on, Doing(u))'
  <2>1. CASE u = t
    BY <1>1, <2>1 DEF CallEarned
  <2>2. CASE u # t
    <3>1. task'[u] = task[u] /\ Doing(u)' = Doing(u)
      BY <1>1, <2>2 DEF Doing
    <3>2. CallEarned(task[u].on, Doing(u))
      BY <1>2, <3>1 DEF CallsEarned
    <3>3. QED
      BY <3>1, <3>2 DEF CallEarned
  <2>3. QED
    BY <2>1, <2>2
<1>3. OneAsk'
  <2>1. SUFFICES ASSUME NEW u \in Tasks, NEW w \in Tasks, task'[u] # Idle, Doing(u)' = Ask,
                        task'[w] # Idle, Doing(w)' = Ask, task'[u].on = task'[w].on, u # w
                 PROVE  FALSE
    BY DEF OneAsk
  <2>2. CASE u # t /\ w # t
    <3>1. task'[u] = task[u] /\ task'[w] = task[w]
      BY <1>1, <2>2
    <3>2. QED
      BY <2>1, <3>1 DEF OneAsk, Doing
  <2>3. CASE u = t
    <3>1. Head(q) = Ask /\ task'[w] = task[w] /\ task[w].on = p
      BY <1>1, <2>1, <2>3
    <3>2. QED
      BY <3>1 DEF Busy
  <2>4. CASE w = t
    <3>1. Head(q) = Ask /\ task'[u] = task[u] /\ task[u].on = p
      BY <1>1, <2>1, <2>4
    <3>2. QED
      BY <3>1 DEF Busy
  <2>5. QED
    BY <2>2, <2>3, <2>4
<1>4. QED
  BY <1>2, <1>3 DEF CallsEarned

EarlyInv == DataOK /\ TaskInv /\ EarnInv

LEMMA ProjectKept ==
    ASSUME NEW k \in Projects, ProjectEarned(k),
           step'[k] = step[k], folder'[k] = folder[k], focus'[k] = focus[k],
           prompt'[k] = prompt[k], requests'[k] = requests[k], shown'[k] = shown[k],
           visibility'[k] = visibility[k], k \in asked <=> k \in asked',
           k \in grouped => k \in grouped'
    PROVE  ProjectEarned(k)'
BY DEF ProjectEarned

LEMMA SetVisibilityEarned ==
    ASSUME EarlyInv, NEW t \in Tasks, NEW v \in Visibility, set_visibility(t, v)
    PROVE  EarlyInv'
<1>1. DataOK /\ TaskInv /\ EarnInv /\ CallsEarned /\ OneAsk
  BY DEF EarlyInv, EarnInv
<1>2. PICK p : p = task[t].on
  OBVIOUS
<1>3. /\ Executes(t, "set_visibility", v)
      /\ visibility' = [visibility EXCEPT ![p] = v]
      /\ grouped' = IF v = "group" THEN grouped \cup {p} ELSE grouped
      /\ UNCHANGED <<step, folder, active, focus, prompt, requests, shown, asked, overlapped,
                     reopened, crashed, stale, failures>>
  BY <1>2 DEF set_visibility
<1>4. task[t] # Idle /\ p \in Projects /\ Doing(t) = <<"set_visibility", v>> /\ TaskInv'
  BY <1>1, <1>2, <1>3, Executed
<1>5. DataOK'
  BY <1>1, <1>3, <1>4 DEF DataOK
<1>6. CallEarned(p, <<"set_visibility", v>>)
  BY <1>1, <1>2, <1>4 DEF CallsEarned
<1>7. \A n : ~Follows(<<"set_visibility", v>>, n)
  BY DEF Follows
<1>8. CallsEarned' /\ OneAsk'
  BY <1>1, <1>2, <1>3, <1>4, <1>7, ExecutedEarned
<1>9. ASSUME NEW k \in Projects PROVE ProjectEarned(k)'
  <2>1. ProjectEarned(k)
    BY <1>1 DEF EarnInv
  <2>2. CASE k # p
    <3>1. visibility'[k] = visibility[k]
      BY <1>1, <1>3, <2>2 DEF DataOK
    <3>2. QED
      BY <1>3, <2>1, <3>1, ProjectKept
  <2>3. CASE k = p
    <3>1. visibility'[p] = v
      BY <1>1, <1>3, <1>4 DEF DataOK
    <3>2. v = "public" => p \in grouped
      BY <1>6 DEF CallEarned
    <3>3. v # "lan-only" => p \in grouped'
      BY <1>3, <3>2 DEF Visibility
    <3>4. QED
      BY <1>3, <2>1, <2>3, <3>1, <3>3 DEF ProjectEarned
  <2>4. QED
    BY <2>2, <2>3
<1>10. QED
  BY <1>4, <1>5, <1>8, <1>9 DEF EarlyInv, EarnInv

LEMMA SetFolderPathEarned ==
    ASSUME EarlyInv, NEW t \in Tasks, set_folder_path(t)
    PROVE  EarlyInv'
<1>1. DataOK /\ TaskInv /\ EarnInv /\ CallsEarned /\ OneAsk
  BY DEF EarlyInv, EarnInv
<1>2. PICK p : p = task[t].on
  OBVIOUS
<1>3. /\ Executes(t, "set_folder_path", "-")
      /\ folder' = [folder EXCEPT ![p] = TRUE]
      /\ UNCHANGED <<step, visibility, active, focus, prompt, requests, shown, asked, history>>
  BY <1>2 DEF set_folder_path
<1>4. UNCHANGED <<grouped, overlapped, reopened, crashed, stale, failures>>
  BY <1>3 DEF history
<1>5. task[t] # Idle /\ p \in Projects /\ Doing(t) = <<"set_folder_path", "-">> /\ TaskInv'
  BY <1>1, <1>2, <1>3, Executed
<1>6. DataOK'
  BY <1>1, <1>3, <1>4, <1>5 DEF DataOK
<1>7. /\ folder'[p]
      /\ \A k \in Projects : (folder[k] => folder'[k]) /\ (k # p => folder'[k] = folder[k])
  BY <1>1, <1>3, <1>5 DEF DataOK
<1>8. CallEarned(p, <<"set_folder_path", "-">>)
  BY <1>1, <1>2, <1>5 DEF CallsEarned
<1>9. p \in asked
  BY <1>8 DEF CallEarned, Ask
<1>10. ASSUME NEW n, Follows(<<"set_folder_path", "-">>, n) PROVE CallEarned(p, n)'
  <2>1. n = <<"set_onboarding_step", "awaiting_files">>
    BY <1>10 DEF Follows
  <2>2. QED
    BY <1>3, <1>7, <1>9, <2>1 DEF CallEarned, Ask
<1>11. CallsEarned' /\ OneAsk'
  BY <1>1, <1>2, <1>3, <1>4, <1>5, <1>7, <1>10, ExecutedEarned
<1>12. ASSUME NEW k \in Projects PROVE ProjectEarned(k)'
  <2>1. ProjectEarned(k)
    BY <1>1 DEF EarnInv
  <2>2. CASE k # p
    BY <1>3, <1>4, <1>7, <2>1, <2>2, ProjectKept
  <2>3. CASE k = p
    BY <1>3, <1>4, <1>7, <1>9, <2>1, <2>3 DEF ProjectEarned
  <2>4. QED
    BY <2>2, <2>3
<1>13. QED
  BY <1>5, <1>6, <1>11, <1>12 DEF EarlyInv, EarnInv

LEMMA AppendFocusEarned ==
    ASSUME EarlyInv, NEW t \in Tasks, append_focus(t)
    PROVE  EarlyInv'
<1>1. DataOK /\ TaskInv /\ EarnInv /\ CallsEarned /\ OneAsk
  BY DEF EarlyInv, EarnInv
<1>2. PICK p : p = task[t].on
  OBVIOUS
<1>3. /\ Executes(t, "append_focus", "-")
      /\ focus' = [focus EXCEPT ![p] = TRUE]
      /\ UNCHANGED <<row, prompt, requests, shown, asked, history>>
  BY <1>2 DEF append_focus
<1>4. UNCHANGED <<step, folder, visibility, active, grouped, overlapped, reopened, crashed, stale,
                  failures>>
  BY <1>3 DEF history, row
<1>5. task[t] # Idle /\ p \in Projects /\ Doing(t) = <<"append_focus", "-">> /\ TaskInv'
  BY <1>1, <1>2, <1>3, Executed
<1>6. DataOK'
  BY <1>1, <1>3, <1>4, <1>5 DEF DataOK
<1>7. focus'[p] /\ \A k \in Projects : (focus[k] => focus'[k]) /\ (k # p => focus'[k] = focus[k])
  BY <1>1, <1>3, <1>5 DEF DataOK
<1>8. CallEarned(p, <<"append_focus", "-">>)
  BY <1>1, <1>2, <1>5 DEF CallsEarned
<1>9. p \in asked /\ folder[p]
  BY <1>8 DEF CallEarned, Ask
<1>10. ASSUME NEW n, Follows(<<"append_focus", "-">>, n) PROVE CallEarned(p, n)'
  <2>1. n = <<"set_onboarding_step", "done">>
    BY <1>10 DEF Follows
  <2>2. QED
    BY <1>3, <1>4, <1>7, <1>9, <2>1 DEF CallEarned, Ask
<1>11. CallsEarned' /\ OneAsk'
  BY <1>1, <1>2, <1>3, <1>4, <1>5, <1>7, <1>10, ExecutedEarned
<1>12. ASSUME NEW k \in Projects PROVE ProjectEarned(k)'
  <2>1. ProjectEarned(k)
    BY <1>1 DEF EarnInv
  <2>2. CASE k # p
    BY <1>3, <1>4, <1>7, <2>1, <2>2, ProjectKept
  <2>3. CASE k = p
    BY <1>3, <1>4, <1>7, <1>9, <2>1, <2>3 DEF ProjectEarned
  <2>4. QED
    BY <2>2, <2>3
<1>13. QED
  BY <1>5, <1>6, <1>11, <1>12 DEF EarlyInv, EarnInv

\* A step is written by a call that stands on all the step needs.
LEMMA SetStepEarned ==
    ASSUME EarlyInv, NEW t \in Tasks, NEW s \in Steps, set_onboarding_step(t, s)
    PROVE  EarlyInv'
<1>1. DataOK /\ TaskInv /\ EarnInv /\ CallsEarned /\ OneAsk
  BY DEF EarlyInv, EarnInv
<1>2. PICK p : p = task[t].on
  OBVIOUS
<1>3. /\ Executes(t, "set_onboarding_step", s)
      /\ step' = [step EXCEPT ![p] = s]
      /\ reopened' = IF step[p] = "done" THEN reopened \cup {p} ELSE reopened
      /\ UNCHANGED <<folder, visibility, active, focus, prompt, requests, shown, asked, grouped,
                     overlapped, crashed, stale, failures>>
  BY <1>2 DEF set_onboarding_step
<1>4. /\ task[t] # Idle /\ p \in Projects /\ Doing(t) = <<"set_onboarding_step", s>> /\ TaskInv'
      /\ <<"set_onboarding_step", s>> \notin Last =>
             Follows(<<"set_onboarding_step", s>>, Head(task'[t].todo))
  BY <1>1, <1>2, <1>3, Executed
<1>5. s \in {"awaiting_files", "building_context", "awaiting_user_input", "done"}
  <2>1. <<"set_onboarding_step", s>> \notin Last
    BY DEF Last
  <2>2. QED
    BY <1>4, <2>1 DEF Follows
<1>6. DataOK'
  BY <1>1, <1>3, <1>4 DEF DataOK
<1>7. step'[p] = s /\ \A k \in Projects : k # p => step'[k] = step[k]
  BY <1>1, <1>3, <1>4 DEF DataOK
<1>8. CallEarned(p, <<"set_onboarding_step", s>>)
  BY <1>1, <1>2, <1>4 DEF CallsEarned
<1>9. p \in asked /\ folder[p] /\ (s = "done" => focus[p])
  BY <1>8 DEF CallEarned, Ask
<1>10. ASSUME NEW n, Follows(<<"set_onboarding_step", s>>, n) PROVE CallEarned(p, n)'
  <2>1. n \in {<<"emit_prompt", "awaiting_files">>, <<"dispatch", "-">>, <<"clear_prompt", "-">>,
               <<"emit_prompt", "awaiting_user_input">>}
    BY <1>10 DEF Follows
  <2>2. QED
    BY <1>3, <1>9, <2>1 DEF CallEarned, Ask
<1>11. CallsEarned' /\ OneAsk'
  BY <1>1, <1>2, <1>3, <1>4, <1>7, <1>10, ExecutedEarned
<1>12. ASSUME NEW k \in Projects PROVE ProjectEarned(k)'
  <2>1. ProjectEarned(k)
    BY <1>1 DEF EarnInv
  <2>2. CASE k # p
    BY <1>3, <1>7, <2>1, <2>2, ProjectKept
  <2>3. CASE k = p
    BY <1>3, <1>5, <1>7, <1>9, <2>1, <2>3 DEF ProjectEarned
  <2>4. QED
    BY <2>2, <2>3
<1>13. QED
  BY <1>4, <1>6, <1>11, <1>12 DEF EarlyInv, EarnInv

LEMMA EmitPromptEarned ==
    ASSUME EarlyInv, NEW t \in Tasks, NEW s \in PromptSteps, emit_prompt(t, s)
    PROVE  EarlyInv'
<1>1. DataOK /\ TaskInv /\ EarnInv /\ CallsEarned /\ OneAsk
  BY DEF EarlyInv, EarnInv
<1>2. PICK p : p = task[t].on
  OBVIOUS
<1>3. /\ Executes(t, "emit_prompt", s)
      /\ prompt' = [prompt EXCEPT ![p] = s] /\ asked' = asked \cup {p}
      /\ UNCHANGED <<row, focus, requests, shown, history>>
  BY <1>2 DEF emit_prompt
<1>4. UNCHANGED <<step, folder, visibility, active, grouped, overlapped, reopened, crashed, stale,
                  failures>>
  BY <1>3 DEF history, row
<1>5. task[t] # Idle /\ p \in Projects /\ Doing(t) = <<"emit_prompt", s>> /\ TaskInv'
  BY <1>1, <1>2, <1>3, Executed
<1>6. DataOK'
  BY <1>1, <1>3, <1>4, <1>5 DEF DataOK
<1>7. prompt'[p] = s /\ \A k \in Projects : k # p => prompt'[k] = prompt[k]
  BY <1>1, <1>3, <1>5 DEF DataOK
<1>8. CallEarned(p, <<"emit_prompt", s>>)
  BY <1>1, <1>2, <1>5 DEF CallsEarned
<1>9. \A n : ~Follows(<<"emit_prompt", s>>, n)
  BY DEF Follows
<1>10. CallsEarned' /\ OneAsk'
  BY <1>1, <1>2, <1>3, <1>4, <1>5, <1>9, ExecutedEarned
<1>11. ASSUME NEW k \in Projects PROVE ProjectEarned(k)'
  <2>1. ProjectEarned(k)
    BY <1>1 DEF EarnInv
  <2>2. CASE k # p
    BY <1>3, <1>4, <1>7, <2>1, <2>2, ProjectKept
  <2>3. CASE k = p /\ s = "awaiting_folder"
    <3>1. p \notin asked /\ step[p] = "awaiting_folder"
      BY <1>8, <2>3 DEF CallEarned, Ask
    <3>2. QED
      BY <1>3, <1>4, <1>7, <2>1, <2>3, <3>1 DEF ProjectEarned
  <2>4. CASE k = p /\ s # "awaiting_folder"
    <3>1. <<"emit_prompt", s>> # Ask
      BY <2>4 DEF Ask
    <3>2. p \in asked /\ folder[p]
      BY <1>8, <3>1 DEF CallEarned
    <3>3. QED
      BY <1>3, <1>4, <1>7, <2>1, <2>4, <3>2 DEF ProjectEarned
  <2>5. QED
    BY <2>2, <2>3, <2>4
<1>12. QED
  BY <1>5, <1>6, <1>10, <1>11 DEF EarlyInv, EarnInv

LEMMA DispatchEarned ==
    ASSUME EarlyInv, NEW t \in Tasks, dispatch(t)
    PROVE  EarlyInv'
<1>1. DataOK /\ TaskInv /\ EarnInv /\ CallsEarned /\ OneAsk
  BY DEF EarlyInv, EarnInv
<1>2. PICK p : p = task[t].on
  OBVIOUS
<1>3. /\ Executes(t, "dispatch", "-")
      /\ requests' = [requests EXCEPT ![p] =
                          IF requests[p] < MaxRequests THEN requests[p] + 1 ELSE requests[p]]
      /\ UNCHANGED <<row, focus, prompt, shown, asked, history>>
  BY <1>2 DEF dispatch
<1>4. UNCHANGED <<step, folder, visibility, active, grouped, overlapped, reopened, crashed, stale,
                  failures>>
  BY <1>3 DEF history, row
<1>5. task[t] # Idle /\ p \in Projects /\ Doing(t) = <<"dispatch", "-">> /\ TaskInv'
  BY <1>1, <1>2, <1>3, Executed
<1>6. requests' \in [Projects -> 0 .. MaxRequests]
  BY <1>1, <1>3, <1>5, ProjectBounds DEF DataOK
<1>7. DataOK'
  BY <1>1, <1>3, <1>4, <1>6 DEF DataOK
<1>8. \A k \in Projects : k # p => requests'[k] = requests[k]
  BY <1>1, <1>3, <1>5 DEF DataOK
<1>9. CallEarned(p, <<"dispatch", "-">>)
  BY <1>1, <1>2, <1>5 DEF CallsEarned
<1>10. p \in asked /\ folder[p]
  BY <1>9 DEF CallEarned, Ask
<1>11. \A n : ~Follows(<<"dispatch", "-">>, n)
  BY DEF Follows
<1>12. CallsEarned' /\ OneAsk'
  BY <1>1, <1>2, <1>3, <1>4, <1>5, <1>11, ExecutedEarned
<1>13. ASSUME NEW k \in Projects PROVE ProjectEarned(k)'
  <2>1. ProjectEarned(k)
    BY <1>1 DEF EarnInv
  <2>2. CASE k # p
    BY <1>3, <1>4, <1>8, <2>1, <2>2, ProjectKept
  <2>3. CASE k = p
    BY <1>3, <1>4, <1>10, <2>1, <2>3 DEF ProjectEarned
  <2>4. QED
    BY <2>2, <2>3
<1>14. QED
  BY <1>5, <1>7, <1>12, <1>13 DEF EarlyInv, EarnInv

LEMMA ClearPromptEarned ==
    ASSUME EarlyInv, NEW t \in Tasks, clear_prompt(t)
    PROVE  EarlyInv'
<1>1. DataOK /\ TaskInv /\ EarnInv /\ CallsEarned /\ OneAsk
  BY DEF EarlyInv, EarnInv
<1>2. PICK p : p = task[t].on
  OBVIOUS
<1>3. /\ Executes(t, "clear_prompt", "-")
      /\ prompt' = [prompt EXCEPT ![p] = "none"]
      /\ UNCHANGED <<row, focus, requests, shown, asked, history>>
  BY <1>2 DEF clear_prompt
<1>4. UNCHANGED <<step, folder, visibility, active, grouped, overlapped, reopened, crashed, stale,
                  failures>>
  BY <1>3 DEF history, row
<1>5. task[t] # Idle /\ p \in Projects /\ Doing(t) = <<"clear_prompt", "-">> /\ TaskInv'
  BY <1>1, <1>2, <1>3, Executed
<1>6. DataOK'
  BY <1>1, <1>3, <1>4, <1>5 DEF DataOK
<1>7. \A k \in Projects : prompt'[k] = IF k = p THEN "none" ELSE prompt[k]
  BY <1>1, <1>3, <1>5 DEF DataOK
<1>8. \A n : ~Follows(<<"clear_prompt", "-">>, n)
  BY DEF Follows
<1>9. CallsEarned' /\ OneAsk'
  BY <1>1, <1>2, <1>3, <1>4, <1>5, <1>8, ExecutedEarned
<1>10. ASSUME NEW k \in Projects PROVE ProjectEarned(k)'
  <2>1. ProjectEarned(k)
    BY <1>1 DEF EarnInv
  <2>2. CASE k # p
    BY <1>3, <1>4, <1>7, <2>1, <2>2, ProjectKept
  <2>3. CASE k = p
    BY <1>3, <1>4, <1>7, <2>1, <2>3 DEF ProjectEarned
  <2>4. QED
    BY <2>2, <2>3
<1>11. QED
  BY <1>5, <1>6, <1>9, <1>10 DEF EarlyInv, EarnInv

\* The statement of a row that is not read again changes nothing else.
LEMMA SameProjects ==
    ASSUME EarnInv, UNCHANGED <<step, folder, visibility, focus, prompt, requests, shown, asked,
                                grouped>>
    PROVE  (\A p \in Projects : ProjectEarned(p))'
<1>1. ASSUME NEW k \in Projects PROVE ProjectEarned(k)'
  <2>1. ProjectEarned(k)
    BY DEF EarnInv
  <2>2. QED
    BY <2>1, ProjectKept
<1>2. QED
  BY <1>1

LEMMA SetVisibilityBegins ==
    ASSUME EarlyInv, NEW t \in Tasks, NEW p \in Projects, NEW v \in Visibility,
           set_visibility_begin(t, p, v)
    PROVE  EarlyInv'
<1>1. DataOK /\ TaskInv /\ EarnInv /\ CallsEarned /\ OneAsk
  BY DEF EarlyInv, EarnInv
<1>2. PICK q : q = << <<"set_visibility", v>> >>
  OBVIOUS
<1>3. q \in Plans /\ Head(q) = <<"set_visibility", v>>
  BY <1>2, FirstStatements
<1>4. /\ Begin(t, p, q) /\ can_transition_to(visibility[p], v)
      /\ UNCHANGED <<step, folder, visibility, active, focus, prompt, requests, shown, grouped,
                     asked, reopened, crashed, stale, failures>>
  BY <1>2 DEF set_visibility_begin, row
<1>5. TaskInv' /\ overlapped' = IF Busy(p) THEN overlapped \cup {p} ELSE overlapped
  BY <1>1, <1>3, <1>4, Begun
<1>6. DataOK'
  BY <1>1, <1>4, <1>5 DEF DataOK
<1>7. v = "public" => p \in grouped
  <2>1. v = "public" => visibility[p] = "group"
    BY <1>4 DEF can_transition_to
  <2>2. QED
    BY <1>1, <2>1 DEF EarnInv, ProjectEarned
<1>8. CallEarned(p, Head(q)) /\ Head(q) # Ask
  BY <1>3, <1>7 DEF CallEarned, Ask
<1>9. CallsEarned' /\ OneAsk'
  BY <1>1, <1>3, <1>4, <1>8, BegunEarned
<1>10. (\A k \in Projects : ProjectEarned(k))'
  BY <1>1, <1>4, SameProjects
<1>11. QED
  BY <1>5, <1>6, <1>9, <1>10 DEF EarlyInv, EarnInv

LEMMA StartBegins ==
    ASSUME EarlyInv, NEW t \in Tasks, NEW p \in Projects, start(t, p)
    PROVE  EarlyInv'
<1>1. DataOK /\ TaskInv /\ EarnInv /\ CallsEarned /\ OneAsk
  BY DEF EarlyInv, EarnInv
<1>2. PICK q : q = <<Ask>>
  OBVIOUS
<1>3. q \in Plans /\ Head(q) = Ask
  BY <1>2, FirstStatements
<1>4. /\ Begin(t, p, q) /\ step[p] = "awaiting_folder" /\ p \notin asked /\ ~Busy(p)
      /\ UNCHANGED <<step, folder, visibility, active, focus, prompt, requests, shown, grouped,
                     asked, reopened, crashed, stale, failures>>
  BY <1>2 DEF start, row, Ask
<1>5. TaskInv' /\ overlapped' = IF Busy(p) THEN overlapped \cup {p} ELSE overlapped
  BY <1>1, <1>3, <1>4, Begun
<1>6. DataOK'
  BY <1>1, <1>4, <1>5 DEF DataOK
<1>7. CallEarned(p, Head(q))
  BY <1>3, <1>4 DEF CallEarned, Ask
<1>8. CallsEarned' /\ OneAsk'
  BY <1>1, <1>3, <1>4, <1>7, BegunEarned
<1>9. (\A k \in Projects : ProjectEarned(k))'
  BY <1>1, <1>4, SameProjects
<1>10. QED
  BY <1>5, <1>6, <1>8, <1>9 DEF EarlyInv, EarnInv

LEMMA AnswerBegins ==
    ASSUME EarlyInv, NEW t \in Tasks, NEW p \in Projects, NEW s \in PromptSteps, answer(t, p, s)
    PROVE  EarlyInv'
<1>1. DataOK /\ TaskInv /\ EarnInv /\ CallsEarned /\ OneAsk
  BY DEF EarlyInv, EarnInv
<1>2. PICK q : q = Handler(s)
  OBVIOUS
<1>3. /\ q \in Plans
      /\ \/ s = "awaiting_folder" /\ Head(q) = <<"set_folder_path", "-">>
         \/ s = "awaiting_files" /\ Head(q) = <<"set_onboarding_step", "building_context">>
         \/ s = "awaiting_user_input" /\ Head(q) = <<"append_focus", "-">>
  BY <1>2, FirstStatements DEF PromptSteps
<1>4. /\ Begin(t, p, q) /\ s \in shown[p]
      /\ UNCHANGED <<step, folder, visibility, active, focus, prompt, requests, shown, grouped,
                     asked, reopened, crashed, failures>>
  BY <1>2 DEF answer, row
<1>5. TaskInv' /\ overlapped' = IF Busy(p) THEN overlapped \cup {p} ELSE overlapped
  BY <1>1, <1>3, <1>4, Begun
<1>6. stale' \in 0 .. MaxStale
  BY <1>1, ProjectBounds DEF answer, DataOK
<1>7. DataOK'
  BY <1>1, <1>4, <1>5, <1>6 DEF DataOK
<1>8. p \in asked /\ (s # "awaiting_folder" => folder[p])
  BY <1>1, <1>4 DEF EarnInv, ProjectEarned
<1>9. CallEarned(p, Head(q)) /\ Head(q) # Ask
  BY <1>3, <1>8 DEF CallEarned, Ask
<1>10. CallsEarned' /\ OneAsk'
  BY <1>1, <1>3, <1>4, <1>9, BegunEarned
<1>11. (\A k \in Projects : ProjectEarned(k))'
  BY <1>1, <1>4, SameProjects
<1>12. QED
  BY <1>5, <1>7, <1>10, <1>11 DEF EarlyInv, EarnInv

Ready == << <<"set_onboarding_step", "awaiting_user_input">>,
            <<"emit_prompt", "awaiting_user_input">> >>

LEMMA ContextReadyBegins ==
    ASSUME EarlyInv, NEW t \in Tasks, NEW p \in Projects, context_ready(t, p)
    PROVE  EarlyInv'
<1>1. DataOK /\ TaskInv /\ EarnInv /\ CallsEarned /\ OneAsk
  BY DEF EarlyInv, EarnInv
<1>2. Ready \in Plans /\ Head(Ready) = <<"set_onboarding_step", "awaiting_user_input">>
  BY Sequences2 DEF Ready, Plans
<1>3. /\ Begin(t, p, Ready) /\ requests[p] > 0
      /\ requests' = [requests EXCEPT ![p] = requests[p] - 1]
      /\ UNCHANGED <<step, folder, visibility, active, focus, prompt, shown, grouped,
                     asked, reopened, crashed, stale, failures>>
  BY DEF context_ready, row, Ready
<1>4. TaskInv' /\ overlapped' = IF Busy(p) THEN overlapped \cup {p} ELSE overlapped
  BY <1>1, <1>2, <1>3, Begun
<1>5. requests' \in [Projects -> 0 .. MaxRequests]
  BY <1>1, <1>3, ProjectBounds DEF DataOK
<1>6. DataOK'
  BY <1>1, <1>3, <1>4, <1>5 DEF DataOK
<1>7. p \in asked /\ folder[p]
  <2>1. requests[p] # 0
    BY <1>3
  <2>2. QED
    BY <1>1, <2>1 DEF EarnInv, ProjectEarned
<1>8. CallEarned(p, Head(Ready)) /\ Head(Ready) # Ask
  BY <1>2, <1>7 DEF CallEarned, Ask
<1>9. CallsEarned' /\ OneAsk'
  BY <1>1, <1>2, <1>3, <1>8, BegunEarned
<1>10. ASSUME NEW k \in Projects PROVE ProjectEarned(k)'
  <2>1. ProjectEarned(k)
    BY <1>1 DEF EarnInv
  <2>2. CASE k # p
    <3>1. requests'[k] = requests[k]
      BY <1>1, <1>3, <2>2 DEF DataOK
    <3>2. QED
      BY <1>3, <2>1, <3>1, ProjectKept
  <2>3. CASE k = p
    BY <1>3, <1>7, <2>1, <2>3 DEF ProjectEarned
  <2>4. QED
    BY <2>2, <2>3
<1>11. QED
  BY <1>4, <1>6, <1>9, <1>10 DEF EarlyInv, EarnInv

\* Calls that end leave the others as they are.
LEMMA FewerCalls ==
    ASSUME CallsEarned, OneAsk, UNCHANGED <<step, folder, focus, grouped, asked>>,
           \A u \in Tasks : task'[u] = task[u] \/ task'[u] = Idle
    PROVE  CallsEarned' /\ OneAsk'
<1>1. ASSUME NEW u \in Tasks, task'[u] # Idle PROVE CallEarned(task[u].on, Doing(u))'
  <2>1. task'[u] = task[u] /\ Doing(u)' = Doing(u)
    BY <1>1 DEF Doing
  <2>2. CallEarned(task[u].on, Doing(u))
    BY <1>1, <2>1 DEF CallsEarned
  <2>3. QED
    BY <2>1, <2>2 DEF CallEarned
<1>2. OneAsk'
  <2>1. SUFFICES ASSUME NEW u \in Tasks, NEW w \in Tasks, task'[u] # Idle, Doing(u)' = Ask,
                        task'[w] # Idle, Doing(w)' = Ask, task'[u].on = task'[w].on
                 PROVE  u = w
    BY DEF OneAsk
  <2>2. task'[u] = task[u] /\ task'[w] = task[w]
    BY <2>1
  <2>3. QED
    BY <2>1, <2>2 DEF OneAsk, Doing
<1>3. QED
  BY <1>1, <1>2 DEF CallsEarned

LEMMA CreateEarned ==
    ASSUME EarlyInv, NEW p \in Projects, NEW peer \in BOOLEAN, create(p, peer)
    PROVE  EarlyInv' /\ p \notin asked /\ \A k \in Projects : k # p => step'[k] = step[k]
<1>1. DataOK /\ TaskInv /\ EarnInv /\ CallsEarned /\ OneAsk
  BY DEF EarlyInv, EarnInv
<1>2. /\ step[p] = "absent"
      /\ step' = [step EXCEPT ![p] = IF peer THEN "awaiting_folder" ELSE "done"]
      /\ UNCHANGED <<folder, visibility, active, focus, prompt, requests, task, shown, asked,
                     grouped, overlapped, reopened, crashed, stale, failures>>
  BY DEF create, history
<1>3. p \notin asked
  BY <1>1, <1>2 DEF EarnInv, ProjectEarned
<1>4. \A k \in Projects : k # p => step'[k] = step[k]
  BY <1>1, <1>2 DEF DataOK
<1>5. step' \in [Projects -> Steps]
  <2>1. (IF peer THEN "awaiting_folder" ELSE "done") \in Steps
    BY DEF Steps, PromptSteps
  <2>2. QED
    BY <1>1, <1>2, <2>1 DEF DataOK
<1>6. DataOK' /\ TaskInv'
  BY <1>1, <1>2, <1>5 DEF DataOK, TaskInv
<1>7. ASSUME NEW k \in Projects PROVE ProjectEarned(k)'
  <2>1. ProjectEarned(k)
    BY <1>1 DEF EarnInv
  <2>2. CASE k # p
    BY <1>2, <1>4, <2>1, <2>2, ProjectKept
  <2>3. CASE k = p
    BY <1>2, <1>3, <2>1, <2>3 DEF ProjectEarned
  <2>4. QED
    BY <2>2, <2>3
<1>8. ASSUME NEW u \in Tasks, task'[u] # Idle PROVE CallEarned(task[u].on, Doing(u))'
  <2>1. PICK k, h : k = task[u].on /\ h = Doing(u)
    OBVIOUS
  <2>2. k \in Projects /\ CallEarned(k, h)
    BY <1>1, <1>2, <1>8, <2>1, TaskTypes DEF CallsEarned
  <2>3. h = Ask => k \notin asked' /\ step'[k] = step[k]
    <3>1. h = Ask => step[k] = "awaiting_folder" /\ k \notin asked
      BY <2>2 DEF CallEarned
    <3>2. QED
      BY <1>2, <1>4, <2>2, <3>1
  <2>4. CallEarned(k, h)'
    BY <1>2, <2>2, <2>3, CallKept
  <2>5. task'[u].on = k /\ Doing(u)' = h
    BY <1>2, <2>1 DEF Doing
  <2>6. QED
    BY <2>4, <2>5 DEF CallEarned
<1>9. OneAsk'
  BY <1>1, <1>2 DEF OneAsk, Doing
<1>10. QED
  BY <1>3, <1>4, <1>6, <1>7, <1>8, <1>9 DEF EarlyInv, EarnInv, CallsEarned

LEMMA SetActiveEarned ==
    ASSUME EarlyInv, NEW p \in Projects, NEW b \in BOOLEAN, set_active(p, b)
    PROVE  EarlyInv'
<1>1. DataOK /\ TaskInv /\ EarnInv /\ CallsEarned /\ OneAsk
  BY DEF EarlyInv, EarnInv
<1>2. /\ active' = [active EXCEPT ![p] = b]
      /\ UNCHANGED <<step, folder, visibility, focus, prompt, requests, task, shown, asked,
                     grouped, overlapped, reopened, crashed, stale, failures>>
  BY DEF set_active, history
<1>3. DataOK' /\ TaskInv'
  BY <1>1, <1>2 DEF DataOK, TaskInv
<1>4. CallsEarned' /\ OneAsk'
  BY <1>1, <1>2, FewerCalls
<1>5. (\A k \in Projects : ProjectEarned(k))'
  BY <1>1, <1>2, SameProjects
<1>6. QED
  BY <1>3, <1>4, <1>5 DEF EarlyInv, EarnInv

LEMMA OnboardPromptEarned ==
    ASSUME EarlyInv, NEW p \in Projects, onboard_prompt(p)
    PROVE  EarlyInv'
<1>1. DataOK /\ TaskInv /\ EarnInv /\ CallsEarned /\ OneAsk
  BY DEF EarlyInv, EarnInv
<1>2. /\ prompt[p] # "none" /\ shown' = [shown EXCEPT ![p] = shown[p] \cup {prompt[p]}]
      /\ UNCHANGED <<step, folder, visibility, active, focus, prompt, requests, task, asked,
                     grouped, overlapped, reopened, crashed, stale, failures>>
  BY DEF onboard_prompt, history, row
<1>3. prompt[p] \in PromptSteps
  BY <1>1, <1>2 DEF DataOK
<1>4. DataOK' /\ TaskInv'
  BY <1>1, <1>2, <1>3 DEF DataOK, TaskInv
<1>5. CallsEarned' /\ OneAsk'
  BY <1>1, <1>2, FewerCalls
<1>6. ASSUME NEW k \in Projects PROVE ProjectEarned(k)'
  <2>1. ProjectEarned(k)
    BY <1>1 DEF EarnInv
  <2>2. CASE k # p
    <3>1. shown'[k] = shown[k]
      BY <1>1, <1>2, <2>2 DEF DataOK
    <3>2. QED
      BY <1>2, <2>1, <3>1, ProjectKept
  <2>3. CASE k = p
    <3>1. shown'[p] = shown[p] \cup {prompt[p]}
      BY <1>1, <1>2 DEF DataOK
    <3>2. QED
      BY <1>2, <2>1, <2>3, <3>1 DEF ProjectEarned
  <2>4. QED
    BY <2>2, <2>3
<1>7. QED
  BY <1>4, <1>5, <1>6 DEF EarlyInv, EarnInv

LEMMA FailEarned ==
    ASSUME EarlyInv, NEW t \in Tasks, Fail(t)
    PROVE  /\ EarlyInv' /\ \A u \in Tasks : task'[u] = IF u = t THEN Idle ELSE task[u]
<1>1. DataOK /\ TaskInv /\ EarnInv /\ CallsEarned /\ OneAsk
  BY DEF EarlyInv, EarnInv
<1>2. /\ task' = [task EXCEPT ![t] = Idle]
      /\ UNCHANGED <<step, folder, visibility, active, focus, prompt, requests, shown, asked,
                     grouped, overlapped, reopened, crashed, stale>>
  BY DEF Fail, row
<1>3. failures' \in 0 .. MaxFailures
  BY <1>1, ProjectBounds DEF Fail, DataOK
<1>4. TaskInv' /\ \A u \in Tasks : task'[u] = IF u = t THEN Idle ELSE task[u]
  BY <1>1, <1>2 DEF TaskInv
<1>5. DataOK'
  BY <1>1, <1>2, <1>3 DEF DataOK
<1>6. \A u \in Tasks : task'[u] = task[u] \/ task'[u] = Idle
  BY <1>4
<1>7. CallsEarned' /\ OneAsk'
  BY <1>1, <1>2, <1>6, FewerCalls
<1>8. (\A k \in Projects : ProjectEarned(k))'
  BY <1>1, <1>2, SameProjects
<1>9. QED
  BY <1>4, <1>5, <1>7, <1>8 DEF EarlyInv, EarnInv

LEMMA CrashEarned ==
    ASSUME EarlyInv, Crash
    PROVE  EarlyInv'
<1>1. DataOK /\ TaskInv /\ EarnInv /\ CallsEarned /\ OneAsk
  BY DEF EarlyInv, EarnInv
<1>2. /\ crashed' = TRUE /\ task' = [t \in Tasks |-> Idle]
      /\ prompt' = [p \in Projects |-> "none"]
      /\ UNCHANGED <<step, folder, visibility, active, focus, shown, asked, grouped, overlapped,
                     reopened, stale, failures>>
  BY DEF Crash, row
<1>3. PICK n \in [Projects -> 0 .. MaxRequests] :
          (\A p \in Projects : n[p] <= requests[p]) /\ requests' = n
  BY DEF Crash
<1>4. \A p \in Projects : requests[p] \in Nat /\ n[p] \in Nat
  BY <1>1, <1>3, ProjectBounds DEF DataOK
<1>5. DataOK' /\ TaskInv'
  BY <1>1, <1>2, <1>3 DEF DataOK, TaskInv
<1>6. CallsEarned' /\ OneAsk'
  BY <1>1, <1>2, FewerCalls
<1>7. ASSUME NEW k \in Projects PROVE ProjectEarned(k)'
  <2>1. ProjectEarned(k)
    BY <1>1 DEF EarnInv
  <2>2. requests[k] = 0 => requests'[k] = 0
    BY <1>3, <1>4
  <2>3. prompt'[k] = "none"
    BY <1>2
  <2>4. QED
    BY <1>2, <2>1, <2>2, <2>3 DEF ProjectEarned
<1>8. QED
  BY <1>5, <1>6, <1>7 DEF EarlyInv, EarnInv

LEMMA InitEarlyInv == Init => EarlyInv
<1> SUFFICES ASSUME Init PROVE EarlyInv
  OBVIOUS
<1>1. DataOK
  <2>1. 0 \in 0 .. MaxRequests /\ 0 \in 0 .. MaxStale /\ 0 \in 0 .. MaxFailures
    BY ProjectBounds
  <2>2. "absent" \in Steps /\ "lan-only" \in Visibility
    BY DEF Steps, Visibility
  <2>3. /\ step \in [Projects -> Steps] /\ visibility \in [Projects -> Visibility]
        /\ prompt \in [Projects -> PromptSteps \cup {"none"}]
    BY <2>2 DEF Init
  <2>4. /\ folder \in [Projects -> BOOLEAN] /\ active \in [Projects -> BOOLEAN]
        /\ focus \in [Projects -> BOOLEAN]
        /\ shown \in [Projects -> SUBSET PromptSteps]
    BY DEF Init
  <2>5. /\ requests \in [Projects -> 0 .. MaxRequests]
        /\ stale \in 0 .. MaxStale /\ failures \in 0 .. MaxFailures
    BY <2>1 DEF Init
  <2>6. /\ grouped \subseteq Projects /\ asked \subseteq Projects
        /\ overlapped \subseteq Projects /\ reopened \subseteq Projects
        /\ crashed \in BOOLEAN
    BY DEF Init
  <2>7. QED
    BY <2>3, <2>4, <2>5, <2>6 DEF DataOK
<1>2. TaskInv /\ \A t \in Tasks : task[t] = Idle
  BY DEF Init, TaskInv
<1>3. \A p \in Projects : ProjectEarned(p)
  BY DEF Init, ProjectEarned
<1>4. QED
  BY <1>1, <1>2, <1>3 DEF EarlyInv, EarnInv, CallsEarned, OneAsk

LEMMA NextEarlyInv == EarlyInv /\ [Next]_vars => EarlyInv'
<1> SUFFICES ASSUME EarlyInv, [Next]_vars PROVE EarlyInv'
  OBVIOUS
<1>1. CASE UNCHANGED vars
  BY <1>1 DEF vars, EarlyInv, DataOK, TaskInv, EarnInv, ProjectEarned, CallsEarned, CallEarned,
     OneAsk, Doing
<1>2. QED
  BY <1>1, CreateEarned, SetActiveEarned, SetVisibilityBegins, SetVisibilityEarned, StartBegins,
     OnboardPromptEarned, AnswerBegins, ContextReadyBegins, SetFolderPathEarned, SetStepEarned,
     AppendFocusEarned, DispatchEarned, EmitPromptEarned, ClearPromptEarned, FailEarned,
     CrashEarned DEF Next

\* The types, what the projects and the calls stand on.
THEOREM EarlyInvariant == Spec => []EarlyInv
<1>1. Init => EarlyInv
  BY InitEarlyInv
<1>2. EarlyInv /\ [Next]_vars => EarlyInv'
  BY NextEarlyInv
<1>3. QED
  BY <1>1, <1>2, PTL DEF Spec

\* The registry and the onboarding keep their types.
THEOREM ProjectsTypes == Spec => []TypeOK
<1>1. EarlyInv => TypeOK
  BY ProjectTypes DEF EarlyInv
<1>2. QED
  BY <1>1, EarlyInvariant, PTL

\* Whatever pages answer late or twice and wherever calls end, no project is past
\* the first question without a folder, and none is done without the user's task
\* in the task log.
THEOREM StepsAreEarned == Spec => []StepsEarned
<1>1. EarlyInv => StepsEarned
  <2>1. SUFFICES ASSUME EarlyInv, NEW p \in asked
                 PROVE  /\ step[p] # "awaiting_folder" => folder[p]
                        /\ step[p] = "done" => focus[p]
    BY DEF StepsEarned
  <2>2. p \in Projects
    BY <2>1 DEF EarlyInv, DataOK
  <2>3. ProjectEarned(p)
    BY <2>1, <2>2 DEF EarlyInv, EarnInv
  <2>4. QED
    BY <2>1, <2>3 DEF ProjectEarned
<1>2. QED
  BY <1>1, EarlyInvariant, PTL

\* A project becomes public only after it was shared with a group, however the
\* calls of set_visibility overlap.
THEOREM PublicAfterGroup == Spec => []PublicWasGroup
<1>1. EarlyInv => PublicWasGroup
  BY DEF EarlyInv, EarnInv, ProjectEarned, PublicWasGroup
<1>2. QED
  BY <1>1, EarlyInvariant, PTL

-----------------------------------------------------------------------------
(* The user is asked until onboarding is over.                             *)

\* Two calls on one project have been noticed.
Alone ==
    \A t, u \in Tasks :
        task[t] # Idle /\ task[u] # Idle /\ task[t].on = task[u].on /\ t # u
        => task[t].on \in overlapped

Clear == <<"clear_prompt", "-">>

\* The statements before which onboarding has been opened, or is about to be,
\* without a prompt.
Reopening == {<<"set_onboarding_step", "awaiting_user_input">>,
              <<"emit_prompt", "awaiting_files">>, <<"emit_prompt", "awaiting_user_input">>,
              <<"dispatch", "-">>}

Working(p, H) == \E t \in Tasks : task[t].on = p /\ Doing(t) \in H

\* The next statement of a call on p fits the step.
Fits(p) ==
    \A t \in Tasks : task[t].on = p =>
        /\ Doing(t)[1] \in {"emit_prompt", "dispatch"} => step[p] # "done"
        /\ Doing(t) = Clear => step[p] = "done"

Asks(p) ==
    /\ step[p] # "done" =>
           \/ prompt[p] # "none"
           \/ p \in reopened /\ (requests[p] > 0 \/ Working(p, Reopening))
    /\ step[p] = "done" => prompt[p] = "none" \/ failures > 0 \/ Working(p, {Clear})
    /\ Fits(p)

AskInv == Alone /\ \A p \in asked : ~Disturbed(p) => Asks(p)

\* What is asked for when no call is about to write the prompt.
Plain(p) ==
    /\ step[p] # "done" => prompt[p] # "none" \/ (p \in reopened /\ requests[p] > 0)
    /\ step[p] = "done" => prompt[p] = "none" \/ failures > 0

Writing == {"emit_prompt", "dispatch", "clear_prompt"}

LEMMA AsksSame ==
    ASSUME NEW k \in Projects, Asks(k),
           step'[k] = step[k], prompt'[k] = prompt[k], requests'[k] = requests[k],
           failures' = failures, k \in reopened => k \in reopened',
           \A u \in Tasks : task[u].on = k \/ task'[u].on = k => task'[u] = task[u]
    PROVE  Asks(k)'
<1>1. ASSUME NEW H, Working(k, H) PROVE Working(k, H)'
  <2>1. PICK u \in Tasks : task[u].on = k /\ Doing(u) \in H
    BY <1>1 DEF Working
  <2>2. task'[u] = task[u] /\ Doing(u)' = Doing(u)
    BY <2>1 DEF Doing
  <2>3. QED
    BY <2>1, <2>2 DEF Working
<1>2. Fits(k)'
  BY DEF Asks, Fits, Doing
<1>3. Working(k, Reopening) => Working(k, Reopening)'
  BY <1>1
<1>4. Working(k, {Clear}) => Working(k, {Clear})'
  BY <1>1
<1>5. QED
  BY <1>2, <1>3, <1>4 DEF Asks

LEMMA PlainAsks ==
    ASSUME NEW p \in Projects, Plain(p)',
           \A u \in Tasks : task'[u].on = p => Head(task'[u].todo)[1] \notin Writing
    PROVE  Asks(p)'
<1>1. Fits(p)'
  BY DEF Fits, Doing, Writing, Clear
<1>2. QED
  BY <1>1 DEF Asks, Plain

\* A single call on p that is not about to write the prompt.
LEMMA AsksPlain ==
    ASSUME NEW p \in Projects, Asks(p), NEW h, h \notin Reopening, h # Clear,
           \A u \in Tasks : task[u].on = p => Doing(u) = h
    PROVE  Plain(p)
<1>1. ~Working(p, Reopening) /\ ~Working(p, {Clear})
  BY DEF Working
<1>2. QED
  BY <1>1 DEF Asks, Plain

\* A statement of a call on p concerns no other project.
LEMMA ExecutedAsks ==
    ASSUME EarlyInv, AskInv, NEW t \in Tasks, NEW op, NEW v, Executes(t, op, v),
           NEW p \in Projects, p = task[t].on,
           overlapped' = overlapped, crashed' = crashed, failures' = failures,
           reopened \subseteq reopened',
           \A k \in Projects : k # p => step'[k] = step[k] /\ prompt'[k] = prompt[k]
                                        /\ requests'[k] = requests[k],
           \A k \in asked' : k # p => k \in asked,
           asked' \subseteq Projects,
           /\ p \in asked' /\ (p \in asked => Asks(p))
           /\ \A u \in Tasks : task[u].on = p => u = t
           /\ \A u \in Tasks : task'[u].on = p => u = t /\ Follows(<<op, v>>, Head(task'[t].todo))
           => Asks(p)'
    PROVE  AskInv'
<1>1. TaskInv /\ Alone
  BY DEF EarlyInv, AskInv
<1>2. /\ task[t] # Idle /\ Doing(t) = <<op, v>> /\ TaskInv'
      /\ \A u \in Tasks : u # t => task'[u] = task[u]
      /\ task'[t] # Idle => task'[t].on = p /\ Follows(<<op, v>>, Head(task'[t].todo))
  BY <1>1, Executed
<1>3. \A u \in Tasks : task[u].on \in Projects => task[u] # Idle
  BY <1>1, TaskTypes
<1>4. \A u \in Tasks : task'[u].on \in Projects => task'[u] # Idle
  BY <1>2, ProjectsAssumption DEF TaskInv, Idle
<1>5. Alone'
  <2>1. SUFFICES ASSUME NEW u \in Tasks, NEW w \in Tasks, task'[u] # Idle, task'[w] # Idle,
                        task'[u].on = task'[w].on, u # w
                 PROVE  task'[u].on \in overlapped'
    BY DEF Alone
  <2>2. task[u] # Idle /\ task'[u].on = task[u].on
    BY <1>2, <2>1
  <2>3. task[w] # Idle /\ task'[w].on = task[w].on
    BY <1>2, <2>1
  <2>4. QED
    BY <1>1, <2>1, <2>2, <2>3 DEF Alone
<1>6. ASSUME NEW k \in asked', ~Disturbed(k)' PROVE Asks(k)'
  <2>1. ~Disturbed(k) /\ k \in Projects
    BY <1>6 DEF Disturbed
  <2>2. CASE k # p
    <3>1. Asks(k)
      BY <2>1, <2>2 DEF AskInv
    <3>2. \A u \in Tasks : task[u].on = k \/ task'[u].on = k => task'[u] = task[u]
      BY <1>2, <1>4, <2>1, <2>2
    <3>3. QED
      BY <2>1, <2>2, <3>1, <3>2, AsksSame
  <2>3. CASE k = p
    <3>1. p \in asked' /\ (p \in asked => Asks(p))
      BY <1>6, <2>1, <2>3 DEF AskInv
    <3>2. \A u \in Tasks : task[u].on = p => u = t
      BY <1>1, <1>2, <1>3, <2>1, <2>3 DEF Alone, Disturbed
    <3>3. \A u \in Tasks : task'[u].on = p =>
              u = t /\ Follows(<<op, v>>, Head(task'[t].todo))
      BY <1>2, <1>4, <3>2
    <3>4. QED
      BY <2>3, <3>1, <3>2, <3>3
  <2>4. QED
    BY <2>2, <2>3
<1>7. QED
  BY <1>5, <1>6 DEF AskInv

LEMMA SetVisibilityAsks ==
    ASSUME EarlyInv, EarlyInv', AskInv, NEW t \in Tasks, NEW v \in Visibility, set_visibility(t, v)
    PROVE  AskInv'
<1>1. DataOK /\ TaskInv /\ CallsEarned /\ asked' \subseteq Projects
  BY DEF EarlyInv, EarnInv, DataOK
<1>2. PICK p : p = task[t].on
  OBVIOUS
<1>3. /\ Executes(t, "set_visibility", v)
      /\ visibility' = [visibility EXCEPT ![p] = v]
      /\ UNCHANGED <<step, prompt, requests, asked, overlapped, reopened, crashed, failures>>
  BY <1>2 DEF set_visibility, row, history
<1>4. task[t] # Idle /\ p \in Projects /\ Doing(t) = <<"set_visibility", v>>
  BY <1>1, <1>2, <1>3, Executed
<1>5. \A k \in Projects : k # p => step'[k] = step[k] /\ prompt'[k] = prompt[k]
                                  /\ requests'[k] = requests[k]
  BY <1>1, <1>3, <1>4 DEF DataOK
<1>6. \A k \in asked' : k # p => k \in asked
  BY <1>3
<1>7. reopened \subseteq reopened'
  BY <1>3
<1>8. ASSUME p \in asked', p \in asked => Asks(p), \A u \in Tasks : task[u].on = p => u = t,
             \A u \in Tasks : task'[u].on = p =>
                 u = t /\ Follows(<<"set_visibility", v>>, Head(task'[t].todo))
      PROVE  Asks(p)'
  <2>1. p \in asked /\ Asks(p)
    BY <1>3, <1>8
  <2>2. <<"set_visibility", v>> \notin Reopening /\ <<"set_visibility", v>> # Clear
    BY DEF Reopening, Clear
  <2>3. \A u \in Tasks : task[u].on = p => Doing(u) = <<"set_visibility", v>>
    BY <1>4, <1>8
  <2>4. Plain(p)
    BY <1>4, <2>1, <2>2, <2>3, AsksPlain
  <2>5. Plain(p)'
    BY <1>3, <2>4 DEF Plain
  <2>6. \A n : Follows(<<"set_visibility", v>>, n) => n[1] \notin Writing
    BY DEF Follows, Writing
  <2>7. \A u \in Tasks : task'[u].on = p => Head(task'[u].todo)[1] \notin Writing
    BY <1>8, <2>6
  <2>8. QED
    BY <1>4, <2>5, <2>7, PlainAsks
<1>9. QED
  BY <1>1, <1>2, <1>3, <1>4, <1>5, <1>6, <1>7, <1>8, ExecutedAsks

LEMMA SetFolderPathAsks ==
    ASSUME EarlyInv, EarlyInv', AskInv, NEW t \in Tasks, set_folder_path(t)
    PROVE  AskInv'
<1>1. DataOK /\ TaskInv /\ CallsEarned /\ asked' \subseteq Projects
  BY DEF EarlyInv, EarnInv, DataOK
<1>2. PICK p : p = task[t].on
  OBVIOUS
<1>3. /\ Executes(t, "set_folder_path", "-")
      /\ folder' = [folder EXCEPT ![p] = TRUE]
      /\ UNCHANGED <<step, prompt, requests, asked, overlapped, reopened, crashed, failures>>
  BY <1>2 DEF set_folder_path, row, history
<1>4. task[t] # Idle /\ p \in Projects /\ Doing(t) = <<"set_folder_path", "-">>
  BY <1>1, <1>2, <1>3, Executed
<1>5. \A k \in Projects : k # p => step'[k] = step[k] /\ prompt'[k] = prompt[k]
                                  /\ requests'[k] = requests[k]
  BY <1>1, <1>3, <1>4 DEF DataOK
<1>6. \A k \in asked' : k # p => k \in asked
  BY <1>3
<1>7. reopened \subseteq reopened'
  BY <1>3
<1>8. ASSUME p \in asked', p \in asked => Asks(p), \A u \in Tasks : task[u].on = p => u = t,
             \A u \in Tasks : task'[u].on = p =>
                 u = t /\ Follows(<<"set_folder_path", "-">>, Head(task'[t].todo))
      PROVE  Asks(p)'
  <2>1. p \in asked /\ Asks(p)
    BY <1>3, <1>8
  <2>2. <<"set_folder_path", "-">> \notin Reopening /\ <<"set_folder_path", "-">> # Clear
    BY DEF Reopening, Clear
  <2>3. \A u \in Tasks : task[u].on = p => Doing(u) = <<"set_folder_path", "-">>
    BY <1>4, <1>8
  <2>4. Plain(p)
    BY <1>4, <2>1, <2>2, <2>3, AsksPlain
  <2>5. Plain(p)'
    BY <1>3, <2>4 DEF Plain
  <2>6. \A n : Follows(<<"set_folder_path", "-">>, n) => n[1] \notin Writing
    BY DEF Follows, Writing
  <2>7. \A u \in Tasks : task'[u].on = p => Head(task'[u].todo)[1] \notin Writing
    BY <1>8, <2>6
  <2>8. QED
    BY <1>4, <2>5, <2>7, PlainAsks
<1>9. QED
  BY <1>1, <1>2, <1>3, <1>4, <1>5, <1>6, <1>7, <1>8, ExecutedAsks

LEMMA AppendFocusAsks ==
    ASSUME EarlyInv, EarlyInv', AskInv, NEW t \in Tasks, append_focus(t)
    PROVE  AskInv'
<1>1. DataOK /\ TaskInv /\ CallsEarned /\ asked' \subseteq Projects
  BY DEF EarlyInv, EarnInv, DataOK
<1>2. PICK p : p = task[t].on
  OBVIOUS
<1>3. /\ Executes(t, "append_focus", "-")
      /\ focus' = [focus EXCEPT ![p] = TRUE]
      /\ UNCHANGED <<step, prompt, requests, asked, overlapped, reopened, crashed, failures>>
  BY <1>2 DEF append_focus, row, history
<1>4. task[t] # Idle /\ p \in Projects /\ Doing(t) = <<"append_focus", "-">>
  BY <1>1, <1>2, <1>3, Executed
<1>5. \A k \in Projects : k # p => step'[k] = step[k] /\ prompt'[k] = prompt[k]
                                  /\ requests'[k] = requests[k]
  BY <1>1, <1>3, <1>4 DEF DataOK
<1>6. \A k \in asked' : k # p => k \in asked
  BY <1>3
<1>7. reopened \subseteq reopened'
  BY <1>3
<1>8. ASSUME p \in asked', p \in asked => Asks(p), \A u \in Tasks : task[u].on = p => u = t,
             \A u \in Tasks : task'[u].on = p =>
                 u = t /\ Follows(<<"append_focus", "-">>, Head(task'[t].todo))
      PROVE  Asks(p)'
  <2>1. p \in asked /\ Asks(p)
    BY <1>3, <1>8
  <2>2. <<"append_focus", "-">> \notin Reopening /\ <<"append_focus", "-">> # Clear
    BY DEF Reopening, Clear
  <2>3. \A u \in Tasks : task[u].on = p => Doing(u) = <<"append_focus", "-">>
    BY <1>4, <1>8
  <2>4. Plain(p)
    BY <1>4, <2>1, <2>2, <2>3, AsksPlain
  <2>5. Plain(p)'
    BY <1>3, <2>4 DEF Plain
  <2>6. \A n : Follows(<<"append_focus", "-">>, n) => n[1] \notin Writing
    BY DEF Follows, Writing
  <2>7. \A u \in Tasks : task'[u].on = p => Head(task'[u].todo)[1] \notin Writing
    BY <1>8, <2>6
  <2>8. QED
    BY <1>4, <2>5, <2>7, PlainAsks
<1>9. QED
  BY <1>1, <1>2, <1>3, <1>4, <1>5, <1>6, <1>7, <1>8, ExecutedAsks

\* The step is written: the statement that follows asks, has an agent asked, or
\* takes the last prompt away.
LEMMA SetStepAsks ==
    ASSUME EarlyInv, EarlyInv', AskInv, NEW t \in Tasks, NEW s \in Steps, set_onboarding_step(t, s)
    PROVE  AskInv'
<1>1. DataOK /\ TaskInv /\ CallsEarned /\ asked' \subseteq Projects
  BY DEF EarlyInv, EarnInv, DataOK
<1>2. PICK p : p = task[t].on
  OBVIOUS
<1>3. /\ Executes(t, "set_onboarding_step", s)
      /\ step' = [step EXCEPT ![p] = s]
      /\ reopened' = IF step[p] = "done" THEN reopened \cup {p} ELSE reopened
      /\ UNCHANGED <<prompt, requests, asked, overlapped, crashed, failures>>
  BY <1>2 DEF set_onboarding_step, row, history
<1>4. task[t] # Idle /\ p \in Projects /\ Doing(t) = <<"set_onboarding_step", s>>
  BY <1>1, <1>2, <1>3, Executed
<1>5. \A k \in Projects : k # p => step'[k] = step[k] /\ prompt'[k] = prompt[k]
                                  /\ requests'[k] = requests[k]
  BY <1>1, <1>3, <1>4 DEF DataOK
<1>6. \A k \in asked' : k # p => k \in asked
  BY <1>3
<1>7. reopened \subseteq reopened'
  BY <1>3
<1>8. ASSUME p \in asked', p \in asked => Asks(p), \A u \in Tasks : task[u].on = p => u = t,
             \A u \in Tasks : task'[u].on = p =>
                 u = t /\ Follows(<<"set_onboarding_step", s>>, Head(task'[t].todo))
      PROVE  Asks(p)'
  <2>1. p \in asked /\ Asks(p)
    BY <1>3, <1>8
  <2>2. step'[p] = s
    BY <1>1, <1>3, <1>4 DEF DataOK
  <2>3. <<"set_onboarding_step", s>> \notin Last
    BY DEF Last
  <2>4. task'[t].on = p /\ Follows(<<"set_onboarding_step", s>>, Head(task'[t].todo))
    BY <1>1, <1>2, <1>3, <2>3, Executed
  <2>5. CASE s # "done"
    <3>1. /\ Doing(t)' \in Reopening /\ Doing(t)'[1] \in {"emit_prompt", "dispatch"}
          /\ Doing(t)' # Clear
      BY <2>4, <2>5 DEF Follows, Reopening, Doing, Clear
    <3>2. prompt[p] # "none" \/ p \in reopened'
      BY <1>3, <2>1 DEF Asks
    <3>3. \E u \in Tasks : task'[u].on = p /\ Doing(u)' \in Reopening
      BY <2>4, <3>1
    <3>4. Working(p, Reopening)'
      BY <3>3 DEF Working, Reopening
    <3>5. Fits(p)'
      BY <1>8, <2>2, <2>5, <3>1 DEF Fits
    <3>6. QED
      BY <1>3, <2>2, <2>5, <3>2, <3>4, <3>5 DEF Asks
  <2>6. CASE s = "done"
    <3>1. Doing(t)' = Clear
      BY <2>4, <2>6 DEF Follows, Doing, Clear
    <3>2. \E u \in Tasks : task'[u].on = p /\ Doing(u)' \in {Clear}
      BY <2>4, <3>1
    <3>3. Working(p, {Clear})'
      BY <3>2 DEF Working, Clear
    <3>4. Fits(p)'
      BY <1>8, <2>2, <2>6, <3>1 DEF Fits, Clear
    <3>5. QED
      BY <2>2, <2>6, <3>3, <3>4 DEF Asks
  <2>7. QED
    BY <2>5, <2>6
<1>9. QED
  BY <1>1, <1>2, <1>3, <1>4, <1>5, <1>6, <1>7, <1>8, ExecutedAsks

LEMMA EmitPromptAsks ==
    ASSUME EarlyInv, EarlyInv', AskInv, NEW t \in Tasks, NEW s \in PromptSteps, emit_prompt(t, s)
    PROVE  AskInv'
<1>1. DataOK /\ TaskInv /\ CallsEarned /\ asked' \subseteq Projects
  BY DEF EarlyInv, EarnInv, DataOK
<1>2. PICK p : p = task[t].on
  OBVIOUS
<1>3. /\ Executes(t, "emit_prompt", s)
      /\ prompt' = [prompt EXCEPT ![p] = s] /\ asked' = asked \cup {p}
      /\ UNCHANGED <<step, requests, overlapped, reopened, crashed, failures>>
  BY <1>2 DEF emit_prompt, row, history
<1>4. task[t] # Idle /\ p \in Projects /\ Doing(t) = <<"emit_prompt", s>>
  BY <1>1, <1>2, <1>3, Executed
<1>5. \A k \in Projects : k # p => step'[k] = step[k] /\ prompt'[k] = prompt[k]
                                  /\ requests'[k] = requests[k]
  BY <1>1, <1>3, <1>4 DEF DataOK
<1>6. \A k \in asked' : k # p => k \in asked
  BY <1>3
<1>7. reopened \subseteq reopened'
  BY <1>3
<1>8. ASSUME p \in asked', p \in asked => Asks(p), \A u \in Tasks : task[u].on = p => u = t,
             \A u \in Tasks : task'[u].on = p =>
                 u = t /\ Follows(<<"emit_prompt", s>>, Head(task'[t].todo))
      PROVE  Asks(p)'
  <2>1. prompt'[p] # "none"
    <3>1. prompt'[p] = s
      BY <1>1, <1>3, <1>4 DEF DataOK
    <3>2. QED
      BY <3>1 DEF PromptSteps
  <2>2. step'[p] # "done"
    <3>1. CASE p \in asked
      <4>1. Fits(p)
        BY <1>8, <3>1 DEF Asks
      <4>2. QED
        BY <1>2, <1>3, <1>4, <4>1 DEF Fits
    <3>2. CASE p \notin asked
      <4>1. CallEarned(p, <<"emit_prompt", s>>)
        BY <1>1, <1>2, <1>4 DEF CallsEarned
      <4>2. step[p] = "awaiting_folder"
        BY <3>2, <4>1 DEF CallEarned
      <4>3. QED
        BY <1>3, <4>2
    <3>3. QED
      BY <3>1, <3>2
  <2>3. \A u \in Tasks : task'[u].on # p
    <3>1. \A n : ~Follows(<<"emit_prompt", s>>, n)
      BY DEF Follows
    <3>2. QED
      BY <1>8, <3>1
  <2>4. QED
    BY <2>1, <2>2, <2>3 DEF Asks, Fits
<1>9. QED
  BY <1>1, <1>2, <1>3, <1>4, <1>5, <1>6, <1>7, <1>8, ExecutedAsks

LEMMA DispatchAsks ==
    ASSUME EarlyInv, EarlyInv', AskInv, NEW t \in Tasks, dispatch(t)
    PROVE  AskInv'
<1>1. DataOK /\ TaskInv /\ CallsEarned /\ asked' \subseteq Projects
  BY DEF EarlyInv, EarnInv, DataOK
<1>2. PICK p : p = task[t].on
  OBVIOUS
<1>3. /\ Executes(t, "dispatch", "-")
      /\ requests' = [requests EXCEPT ![p] =
                          IF requests[p] < MaxRequests THEN requests[p] + 1 ELSE requests[p]]
      /\ UNCHANGED <<step, prompt, asked, overlapped, reopened, crashed, failures>>
  BY <1>2 DEF dispatch, row, history
<1>4. task[t] # Idle /\ p \in Projects /\ Doing(t) = <<"dispatch", "-">>
  BY <1>1, <1>2, <1>3, Executed
<1>5. \A k \in Projects : k # p => step'[k] = step[k] /\ prompt'[k] = prompt[k]
                                  /\ requests'[k] = requests[k]
  BY <1>1, <1>3, <1>4 DEF DataOK
<1>6. \A k \in asked' : k # p => k \in asked
  BY <1>3
<1>7. reopened \subseteq reopened'
  BY <1>3
<1>8. ASSUME p \in asked', p \in asked => Asks(p), \A u \in Tasks : task[u].on = p => u = t,
             \A u \in Tasks : task'[u].on = p =>
                 u = t /\ Follows(<<"dispatch", "-">>, Head(task'[t].todo))
      PROVE  Asks(p)'
  <2>1. p \in asked /\ Asks(p) /\ Fits(p)
    BY <1>3, <1>8 DEF Asks
  <2>2. step[p] # "done"
    BY <1>2, <1>4, <2>1 DEF Fits
  <2>3. requests'[p] > 0
    <3>1. requests[p] \in 0 .. MaxRequests
      BY <1>1, <1>4 DEF DataOK
    <3>2. requests'[p] = IF requests[p] < MaxRequests THEN requests[p] + 1 ELSE requests[p]
      BY <1>1, <1>3, <1>4 DEF DataOK
    <3>3. QED
      BY <3>1, <3>2, ProjectBounds
  <2>4. prompt[p] # "none" \/ p \in reopened
    BY <2>1, <2>2 DEF Asks
  <2>5. \A u \in Tasks : task'[u].on # p
    <3>1. \A n : ~Follows(<<"dispatch", "-">>, n)
      BY DEF Follows
    <3>2. QED
      BY <1>8, <3>1
  <2>6. QED
    BY <1>3, <2>2, <2>3, <2>4, <2>5 DEF Asks, Fits
<1>9. QED
  BY <1>1, <1>2, <1>3, <1>4, <1>5, <1>6, <1>7, <1>8, ExecutedAsks

LEMMA ClearPromptAsks ==
    ASSUME EarlyInv, EarlyInv', AskInv, NEW t \in Tasks, clear_prompt(t)
    PROVE  AskInv'
<1>1. DataOK /\ TaskInv /\ CallsEarned /\ asked' \subseteq Projects
  BY DEF EarlyInv, EarnInv, DataOK
<1>2. PICK p : p = task[t].on
  OBVIOUS
<1>3. /\ Executes(t, "clear_prompt", "-")
      /\ prompt' = [prompt EXCEPT ![p] = "none"]
      /\ UNCHANGED <<step, requests, asked, overlapped, reopened, crashed, failures>>
  BY <1>2 DEF clear_prompt, row, history
<1>4. task[t] # Idle /\ p \in Projects /\ Doing(t) = <<"clear_prompt", "-">>
  BY <1>1, <1>2, <1>3, Executed
<1>5. \A k \in Projects : k # p => step'[k] = step[k] /\ prompt'[k] = prompt[k]
                                  /\ requests'[k] = requests[k]
  BY <1>1, <1>3, <1>4 DEF DataOK
<1>6. \A k \in asked' : k # p => k \in asked
  BY <1>3
<1>7. reopened \subseteq reopened'
  BY <1>3
<1>8. ASSUME p \in asked', p \in asked => Asks(p), \A u \in Tasks : task[u].on = p => u = t,
             \A u \in Tasks : task'[u].on = p =>
                 u = t /\ Follows(<<"clear_prompt", "-">>, Head(task'[t].todo))
      PROVE  Asks(p)'
  <2>1. p \in asked /\ Fits(p)
    BY <1>3, <1>8 DEF Asks
  <2>2. step[p] = "done"
    BY <1>2, <1>4, <2>1 DEF Fits, Clear
  <2>3. prompt'[p] = "none"
    BY <1>1, <1>3, <1>4 DEF DataOK
  <2>4. \A u \in Tasks : task'[u].on # p
    <3>1. \A n : ~Follows(<<"clear_prompt", "-">>, n)
      BY DEF Follows
    <3>2. QED
      BY <1>8, <3>1
  <2>5. QED
    BY <1>3, <2>2, <2>3, <2>4 DEF Asks, Fits
<1>9. QED
  BY <1>1, <1>2, <1>3, <1>4, <1>5, <1>6, <1>7, <1>8, ExecutedAsks

\* A call that begins concerns no other project.
LEMMA BegunAsks ==
    ASSUME EarlyInv, EarlyInv', AskInv, NEW t \in Tasks, NEW p \in Projects, NEW q \in Plans,
           Begin(t, p, q), UNCHANGED <<step, prompt, asked, reopened, crashed, failures>>,
           \A k \in Projects : k # p => requests'[k] = requests[k],
           /\ p \in asked /\ Plain(p) /\ task'[t].on = p /\ Doing(t)' = Head(q)
           /\ \A u \in Tasks : task'[u].on = p => u = t
           => Asks(p)'
    PROVE  AskInv'
<1>1. TaskInv /\ TaskInv' /\ Alone /\ asked \subseteq Projects
  BY DEF EarlyInv, AskInv, DataOK
<1>2. /\ task[t] = Idle /\ task'[t] # Idle /\ task'[t].on = p /\ Doing(t)' = Head(q)
      /\ \A u \in Tasks : u # t => task'[u] = task[u]
      /\ overlapped' = IF Busy(p) THEN overlapped \cup {p} ELSE overlapped
  BY <1>1, Begun
<1>3. \A u \in Tasks : task[u].on \in Projects => task[u] # Idle
  BY <1>1, TaskTypes
<1>4. overlapped \subseteq overlapped' /\ (Busy(p) => p \in overlapped')
  BY <1>2
<1>5. Alone'
  <2>1. SUFFICES ASSUME NEW u \in Tasks, NEW w \in Tasks, task'[u] # Idle, task'[w] # Idle,
                        task'[u].on = task'[w].on, u # w
                 PROVE  task'[u].on \in overlapped'
    BY DEF Alone
  <2>2. CASE u # t /\ w # t
    <3>1. task'[u] = task[u] /\ task'[w] = task[w]
      BY <1>2, <2>2
    <3>2. QED
      BY <1>1, <1>4, <2>1, <3>1 DEF Alone
  <2>3. CASE u = t
    <3>1. task'[w] = task[w] /\ task[w].on = p
      BY <1>2, <2>1, <2>3
    <3>2. QED
      BY <1>2, <1>4, <2>3, <3>1 DEF Busy
  <2>4. CASE w = t
    <3>1. task'[u] = task[u] /\ task[u].on = p
      BY <1>2, <2>1, <2>4
    <3>2. QED
      BY <1>4, <3>1 DEF Busy
  <2>5. QED
    BY <2>2, <2>3, <2>4
<1>6. ASSUME NEW k \in asked, ~Disturbed(k)' PROVE Asks(k)'
  <2>1. ~Disturbed(k) /\ k \in Projects
    BY <1>1, <1>4, <1>6 DEF Disturbed
  <2>2. Asks(k)
    BY <2>1 DEF AskInv
  <2>3. CASE k # p
    <3>1. \A u \in Tasks : task[u].on = k \/ task'[u].on = k => task'[u] = task[u]
      BY <1>2, <1>3, <2>1, <2>3
    <3>2. QED
      BY <2>1, <2>2, <2>3, <3>1, AsksSame
  <2>4. CASE k = p
    <3>1. ~Busy(p)
      BY <1>4, <1>6, <2>4 DEF Disturbed
    <3>2. \A u \in Tasks : task[u].on # p
      BY <3>1 DEF Busy
    <3>3. Plain(p)
      BY <2>2, <2>4, <3>2 DEF Asks, Plain, Working
    <3>4. \A u \in Tasks : task'[u].on = p => u = t
      BY <1>2, <3>2
    <3>5. QED
      BY <1>2, <1>6, <2>4, <3>3, <3>4
  <2>5. QED
    BY <2>3, <2>4
<1>7. QED
  BY <1>5, <1>6 DEF AskInv

LEMMA SetVisibilityBeginAsks ==
    ASSUME EarlyInv, EarlyInv', AskInv, NEW t \in Tasks, NEW p \in Projects,
           NEW v \in Visibility, set_visibility_begin(t, p, v)
    PROVE  AskInv'
<1>1. PICK q : q = << <<"set_visibility", v>> >>
  OBVIOUS
<1>2. q \in Plans /\ Head(q) = <<"set_visibility", v>>
  BY <1>1, FirstStatements
<1>3. Begin(t, p, q) /\ UNCHANGED <<step, prompt, requests, asked, reopened, crashed, failures>>
  BY <1>1 DEF set_visibility_begin, row
<1>4. ASSUME p \in asked, Plain(p), task'[t].on = p, Doing(t)' = Head(q),
             \A u \in Tasks : task'[u].on = p => u = t
      PROVE  Asks(p)'
  <2>1. Plain(p)'
    BY <1>3, <1>4 DEF Plain
  <2>2. \A u \in Tasks : task'[u].on = p => Head(task'[u].todo)[1] \notin Writing
    BY <1>2, <1>4 DEF Doing, Writing
  <2>3. QED
    BY <2>1, <2>2, PlainAsks
<1>5. QED
  BY <1>2, <1>3, <1>4, BegunAsks

LEMMA StartAsks ==
    ASSUME EarlyInv, EarlyInv', AskInv, NEW t \in Tasks, NEW p \in Projects, start(t, p)
    PROVE  AskInv'
<1>1. PICK q : q = <<Ask>>
  OBVIOUS
<1>2. q \in Plans
  BY <1>1, FirstStatements
<1>3. /\ Begin(t, p, q) /\ p \notin asked
      /\ UNCHANGED <<step, prompt, requests, asked, reopened, crashed, failures>>
  BY <1>1 DEF start, row, Ask
<1>4. QED
  BY <1>2, <1>3, BegunAsks

LEMMA AnswerAsks ==
    ASSUME EarlyInv, EarlyInv', AskInv, NEW t \in Tasks, NEW p \in Projects,
           NEW s \in PromptSteps, answer(t, p, s)
    PROVE  AskInv'
<1>1. PICK q : q = Handler(s)
  OBVIOUS
<1>2. /\ q \in Plans
      /\ Head(q) \in {<<"set_folder_path", "-">>, <<"append_focus", "-">>,
                      <<"set_onboarding_step", "building_context">>}
  BY <1>1, FirstStatements DEF PromptSteps
<1>3. Begin(t, p, q) /\ UNCHANGED <<step, prompt, requests, asked, reopened, crashed, failures>>
  BY <1>1 DEF answer, row
<1>4. ASSUME p \in asked, Plain(p), task'[t].on = p, Doing(t)' = Head(q),
             \A u \in Tasks : task'[u].on = p => u = t
      PROVE  Asks(p)'
  <2>1. Plain(p)'
    BY <1>3, <1>4 DEF Plain
  <2>2. Head(q)[1] \notin Writing
    BY <1>2 DEF Writing
  <2>3. \A u \in Tasks : task'[u].on = p => Head(task'[u].todo)[1] \notin Writing
    BY <1>4, <2>2 DEF Doing
  <2>4. QED
    BY <2>1, <2>3, PlainAsks
<1>5. QED
  BY <1>2, <1>3, <1>4, BegunAsks

\* The request that is answered is replaced by the call that will ask.
LEMMA ContextReadyAsks ==
    ASSUME EarlyInv, EarlyInv', AskInv, NEW t \in Tasks, NEW p \in Projects, context_ready(t, p)
    PROVE  AskInv'
<1>1. Ready \in Plans /\ Head(Ready) = <<"set_onboarding_step", "awaiting_user_input">>
  BY Sequences2 DEF Ready, Plans
<1>2. /\ Begin(t, p, Ready) /\ requests[p] > 0
      /\ requests' = [requests EXCEPT ![p] = requests[p] - 1]
      /\ UNCHANGED <<step, prompt, asked, reopened, crashed, failures>>
  BY DEF context_ready, row, Ready
<1>3. \A k \in Projects : k # p => requests'[k] = requests[k]
  BY <1>2 DEF EarlyInv, DataOK
<1>4. ASSUME p \in asked, Plain(p), task'[t].on = p, Doing(t)' = Head(Ready),
             \A u \in Tasks : task'[u].on = p => u = t
      PROVE  Asks(p)'
  <2>1. Doing(t)' \in Reopening /\ Doing(t)'[1] = "set_onboarding_step"
    BY <1>1, <1>4 DEF Reopening
  <2>2. \E u \in Tasks : task'[u].on = p /\ Doing(u)' \in Reopening
    BY <1>4, <2>1
  <2>3. Working(p, Reopening)'
    BY <2>2 DEF Working, Reopening
  <2>4. Fits(p)'
    BY <1>4, <2>1 DEF Fits, Clear
  <2>5. QED
    BY <1>2, <1>4, <2>3, <2>4 DEF Asks, Plain
<1>5. QED
  BY <1>1, <1>2, <1>3, <1>4, BegunAsks

\* Nothing is asked, answered or begun.
LEMMA SameAsks ==
    ASSUME EarlyInv, AskInv,
           UNCHANGED <<prompt, requests, task, asked, overlapped, reopened, crashed, failures>>,
           \A k \in asked : step'[k] = step[k]
    PROVE  AskInv'
<1>1. Alone'
  BY DEF AskInv, Alone
<1>2. ASSUME NEW k \in asked, ~Disturbed(k)' PROVE Asks(k)'
  <2>1. k \in Projects /\ ~Disturbed(k)
    BY <1>2 DEF EarlyInv, DataOK, Disturbed
  <2>2. Asks(k)
    BY <2>1 DEF AskInv
  <2>3. QED
    BY <2>1, <2>2, AsksSame
<1>3. QED
  BY <1>1, <1>2 DEF AskInv

LEMMA FailAsks ==
    ASSUME EarlyInv, EarlyInv', AskInv, NEW t \in Tasks, Fail(t)
    PROVE  AskInv'
<1>1. \A u \in Tasks : task'[u] = IF u = t THEN Idle ELSE task[u]
  BY FailEarned
<1>2. /\ failures' = failures + 1
      /\ UNCHANGED <<step, prompt, requests, asked, overlapped, reopened, crashed>>
  BY DEF Fail, row
<1>3. failures' > 0
  BY <1>2, ProjectBounds DEF EarlyInv, DataOK
<1>4. Alone'
  <2>1. SUFFICES ASSUME NEW u \in Tasks, NEW w \in Tasks, task'[u] # Idle, task'[w] # Idle,
                        task'[u].on = task'[w].on, u # w
                 PROVE  task'[u].on \in overlapped'
    BY DEF Alone
  <2>2. task'[u] = task[u] /\ task'[w] = task[w]
    BY <1>1, <2>1
  <2>3. QED
    BY <1>2, <2>1, <2>2 DEF AskInv, Alone
<1>5. ASSUME NEW k \in asked, ~Disturbed(k)' PROVE Asks(k)'
  <2>1. k \in Projects /\ ~Disturbed(k) /\ k \notin reopened
    BY <1>2, <1>3, <1>5 DEF EarlyInv, DataOK, Disturbed
  <2>2. Asks(k)
    BY <2>1 DEF AskInv
  <2>3. \A u \in Tasks : task'[u].on = k => task'[u] = task[u]
    BY <1>1, <2>1, ProjectsAssumption DEF Idle
  <2>4. Fits(k)'
    BY <1>2, <2>2, <2>3 DEF Asks, Fits, Doing
  <2>5. QED
    BY <1>2, <1>3, <2>1, <2>2, <2>4 DEF Asks
<1>6. QED
  BY <1>2, <1>4, <1>5 DEF AskInv

LEMMA CrashAsks ==
    ASSUME Crash
    PROVE  AskInv'
<1>1. crashed' = TRUE /\ \A u \in Tasks : task'[u] = Idle
  BY DEF Crash
<1>2. QED
  BY <1>1 DEF AskInv, Alone, Disturbed

LEMMA NextAskInv ==
    ASSUME EarlyInv, AskInv, [Next]_vars
    PROVE  AskInv'
<1>1. EarlyInv'
  BY NextEarlyInv
<1>2. CASE UNCHANGED vars
  BY <1>2, SameAsks DEF vars
<1>3. ASSUME NEW p \in Projects, NEW peer \in BOOLEAN, create(p, peer) PROVE AskInv'
  <2>1. p \notin asked /\ \A k \in Projects : k # p => step'[k] = step[k]
    BY <1>3, CreateEarned
  <2>2. \A k \in asked : step'[k] = step[k]
    BY <2>1 DEF EarlyInv, DataOK
  <2>3. UNCHANGED <<prompt, requests, task, asked, overlapped, reopened, crashed, failures>>
    BY <1>3 DEF create, history
  <2>4. QED
    BY <2>2, <2>3, SameAsks
<1>4. ASSUME NEW p \in Projects, NEW b \in BOOLEAN, set_active(p, b) PROVE AskInv'
  <2>1. UNCHANGED <<step, prompt, requests, task, asked, overlapped, reopened, crashed, failures>>
    BY <1>4 DEF set_active, history
  <2>2. QED
    BY <2>1, SameAsks
<1>5. ASSUME NEW p \in Projects, onboard_prompt(p) PROVE AskInv'
  <2>1. UNCHANGED <<step, prompt, requests, task, asked, overlapped, reopened, crashed, failures>>
    BY <1>5 DEF onboard_prompt, history, row
  <2>2. QED
    BY <2>1, SameAsks
<1>6. QED
  BY <1>1, <1>2, <1>3, <1>4, <1>5, SetVisibilityBeginAsks, SetVisibilityAsks, StartAsks,
     AnswerAsks, ContextReadyAsks, SetFolderPathAsks, SetStepAsks, AppendFocusAsks, DispatchAsks,
     EmitPromptAsks, ClearPromptAsks, FailAsks, CrashAsks DEF Next

\* What each project is waiting for, during its calls as well.
THEOREM OnboardingInvariant == Spec => [](EarlyInv /\ AskInv)
<1>1. Init => AskInv
  BY DEF Init, AskInv, Alone
<1>2. EarlyInv /\ AskInv /\ [Next]_vars => AskInv'
  BY NextAskInv
<1>3. QED
  BY <1>1, <1>2, EarlyInvariant, PTL DEF Spec

\* Until onboarding is over the user is asked for something or an agent is at work,
\* although the step and the prompt are written separately, calls end early and
\* pages answer late; unless two calls overlapped, the gateway restarted, or a call
\* ended early on a project that had been opened again.
THEOREM AskedToTheEnd == Spec => []AskedUntilDone
<1>1. EarlyInv /\ AskInv => AskedUntilDone
  <2>1. SUFFICES ASSUME EarlyInv, AskInv, NEW p \in asked, ~Disturbed(p), ~Busy(p)
                 PROVE  /\ step[p] # "done" => prompt[p] # "none" \/ requests[p] > 0
                        /\ step[p] = "done" => prompt[p] = "none" \/ failures > 0
    BY DEF AskedUntilDone
  <2>2. Asks(p) /\ \A H : ~Working(p, H)
    BY <2>1 DEF AskInv, Busy, Working
  <2>3. QED
    BY <2>2 DEF Asks
<1>2. QED
  BY <1>1, OnboardingInvariant, PTL
=============================================================================
