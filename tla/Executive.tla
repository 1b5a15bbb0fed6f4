------------------------------ MODULE Executive ------------------------------
(***************************************************************************)
(* The executive controller (src/aetheris/controller/executive.py): one    *)
(* runner that takes the next queued task, runs ONE step of its plan, and  *)
(* puts the task back, settles it, or repairs the plan.                    *)
(*                                                                         *)
(* run_once is a sequence of durable writes (journal appends, plan files)  *)
(* around one tool call, and the process may stop between any two of them. *)
(* `todo` is the list of durable writes the code has still to make for the *)
(* outcome it has decided on; `Write` makes the first of them.             *)
(***************************************************************************)
EXTENDS TaskQueue, PlanDag

CONSTANTS
  InitialPlans,       \* plans plan_multi may produce
  RepairCounts,       \* numbers of repair steps reflection may propose
  MaxRetries,         \* _MAX_RETRIES
  MaxReflectRetries,  \* _MAX_REFLECT_RETRIES
  Reflection,         \* TRUE: reflection decides; FALSE: the legacy path
  PlanReview,         \* TRUE: plans of several steps go to the review queue
  SkillTasks,         \* tasks whose plan a skill renders
  IdleThreshold,      \* idle_ticks_before_improve
  PromotionBudget,    \* promotion_budget
  MaxSteps,           \* BOUND: the longest plan repairs may grow to
  MaxCrashes,         \* BOUND: process crashes
  MaxRequeues,        \* BOUND: times a client puts a stopped task back
  NoTask

ASSUME ExecutiveAssumption ==
  /\ InitialPlans \subseteq Plan
  /\ \A p \in InitialPlans :
       /\ p # << >> /\ IsForward(p)
       /\ \A i \in DOMAIN p : p[i].status = "pending" /\ p[i].uid = i /\ p[i].needs = p[i].deps
  /\ RepairCounts \subseteq Nat
  /\ MaxRetries \in Nat
  /\ MaxReflectRetries \in Nat
  /\ Reflection \in BOOLEAN
  /\ PlanReview \in BOOLEAN
  /\ SkillTasks \subseteq Tasks
  /\ IdleThreshold \in Nat \ {0}
  /\ PromotionBudget \in Nat
  /\ MaxSteps \in Nat
  /\ MaxCrashes \in Nat
  /\ MaxRequeues \in Nat
  /\ NoTask \notin Tasks

VARIABLES
  saved,      \* PlanStore: the plan file of each task, << >> when there is none
  lessons,    \* ExperienceMemory: outcome types recorded for each task
  phase,      \* where in run_once the runner is
  cur,        \* the task it is working on
  mem,        \* that task's plan, in memory
  at,         \* position of the step being run
  todo,       \* durable writes still to make
  tick,       \* the outcome of the tick being finished
  retries,    \* _retry_counts
  idle,       \* _idle_ticks
  tried,      \* candidates tried in this idle promotion
  reviews,    \* PlanReviewQueue: status of each task's latest review
  \* history, not in the code
  crashes,    \* crashes so far
  requeues,   \* tasks put back so far
  succeeded,  \* uids of each task whose tool run succeeded
  repeated,   \* uids of each task whose tool run succeeded again after that
  misfires    \* transient failures of each task since its last success

runnerVars  == <<phase, cur, mem, at, todo, tick, retries, idle, tried, reviews>>
storeVars   == <<saved, lessons>>
historyVars == <<crashes, requeues, succeeded, repeated, misfires>>
vars == <<queueVars, storeVars, runnerVars, historyVars>>

Phases == {"idle", "picked", "loading", "deciding", "calling", "writing", "observing",
           "improving", "promoting"}
Outcomes == {"none", "done", "step_done", "failed", "blocked", "waiting", "retrying",
             "repair_inserted", "plan_review"}
LessonTypes == {"worked_well", "failed_safely", "failed_repeatedly"}
StoreWrites == {"save", "delete"}
Writes == StoreWrites \cup TaskState
ReviewStatus == {"none", "pending", "approved", "rejected"}

\* A plan no task has: there is no plan file, or no plan in memory.
NoPlan == << >>

Init ==
  /\ QueueInit
  /\ saved = [t \in Tasks |-> NoPlan]
  /\ lessons = [t \in Tasks |-> {}]
  /\ phase = "idle"
  /\ cur = NoTask
  /\ mem = NoPlan
  /\ at = 0
  /\ todo = << >>
  /\ tick = "none"
  /\ retries = [t \in Tasks |-> 0]
  /\ idle = 0
  /\ tried = 0
  /\ reviews = [t \in Tasks |-> "none"]
  /\ crashes = 0
  /\ requeues = 0
  /\ succeeded = [t \in Tasks |-> {}]
  /\ repeated = [t \in Tasks |-> {}]
  /\ misfires = [t \in Tasks |-> 0]

-----------------------------------------------------------------------------
(* Submission, concurrent with everything the runner does. *)

Submit(t) ==
  /\ Enqueue(t)
  /\ UNCHANGED <<storeVars, runnerVars, historyVars>>

\* A client of the queue puts back a task nobody is running, as the table allows.
\* Nothing in src/ does it; MaxRequeues = 0 is the system as it is.
Requeue(t) ==
  /\ requeues < MaxRequeues
  /\ t # cur
  /\ Transition(t, "queued")
  /\ requeues' = requeues + 1
  /\ UNCHANGED <<storeVars, runnerVars, crashes, succeeded, repeated, misfires>>

\* approve_plan and reject_plan set the status of the review and nothing else.
DecideReview(t, verdict) ==
  /\ reviews[t] # "none"
  /\ reviews' = [reviews EXCEPT ![t] = verdict]
  /\ UNCHANGED <<queueVars, storeVars, phase, cur, mem, at, todo, tick, retries, idle, tried, historyVars>>

-----------------------------------------------------------------------------
(* run_once and _run_task up to the decision what to do. *)

Pick(t) ==
  /\ phase = "idle"
  /\ IsNextQueued(t)
  /\ Transition(t, "planning")
  /\ phase' = "picked"
  /\ cur' = t
  /\ idle' = 0
  /\ UNCHANGED <<storeVars, mem, at, todo, tick, retries, tried, reviews, historyVars>>

HandOver ==
  /\ phase = "picked"
  /\ Transition(cur, "executing")
  /\ phase' = "loading"
  /\ UNCHANGED <<storeVars, cur, mem, at, todo, tick, retries, idle, tried, reviews, historyVars>>

\* The stored plan is resumed; without one the planner makes it and it is saved.
LoadPlan ==
  /\ phase = "loading"
  /\ \/ saved[cur] # NoPlan /\ mem' = saved[cur]
     \/ saved[cur] = NoPlan /\ mem' \in InitialPlans
  /\ saved' = [saved EXCEPT ![cur] = mem']
  /\ phase' = "deciding"
  /\ UNCHANGED <<queueVars, lessons, cur, at, todo, tick, retries, idle, tried, reviews, historyVars>>

\* End the tick with outcome o after the durable writes ws.
FinishWith(ws, o) ==
  /\ todo' = ws
  /\ tick' = o
  /\ phase' = "writing"

\* Plans rendered from a skill are exempt.
NeedsReview == PlanReview /\ Len(mem) > 1 /\ cur \notin SkillTasks

SubmitForReview ==
  /\ phase = "deciding"
  /\ NeedsReview
  /\ reviews' = [reviews EXCEPT ![cur] = "pending"]
  /\ FinishWith(<<"waiting">>, "plan_review")
  /\ UNCHANGED <<queueVars, storeVars, cur, mem, at, retries, idle, tried, historyVars>>

CallTool ==
  /\ phase = "deciding"
  /\ ~NeedsReview
  /\ at' \in DOMAIN mem
  /\ IsNextReady(mem, at')
  /\ phase' = "calling"
  /\ UNCHANGED <<queueVars, storeVars, cur, mem, todo, tick, retries, idle, tried, reviews, historyVars>>

\* No step is ready: the task is over, well or badly.
NothingReady ==
  /\ phase = "deciding"
  /\ ~NeedsReview
  /\ ReadySteps(mem) = {}
  /\ IF IsComplete(mem)
     THEN FinishWith(<<"delete", "done">>, "done")
     ELSE FinishWith(<<"failed">>, "failed")
  /\ UNCHANGED <<queueVars, storeVars, cur, mem, at, retries, idle, tried, reviews, historyVars>>

-----------------------------------------------------------------------------
(* The tool call returns: _execute_step, _apply_verdict, _handle_step_failure. *)

Uid == mem[at].uid

StepSucceeds ==
  /\ phase = "calling"
  /\ mem' = SetStatus(mem, at, "done")
  /\ retries' = [retries EXCEPT ![cur] = 0]
  /\ IF IsComplete(mem')
     THEN FinishWith(<<"save", "delete", "done">>, "done")
     ELSE FinishWith(<<"save", "queued">>, "step_done")
  /\ succeeded' = [succeeded EXCEPT ![cur] = @ \cup {Uid}]
  /\ repeated' = [repeated EXCEPT ![cur] = @ \cup ({Uid} \cap succeeded[cur])]
  /\ misfires' = [misfires EXCEPT ![cur] = 0]
  /\ UNCHANGED <<queueVars, storeVars, cur, at, idle, tried, reviews, crashes, requeues>>

\* The step is given up and takes its task with it.
GiveUp(status, ws, o) ==
  /\ mem' = SetStatus(mem, at, status)
  /\ retries' = [retries EXCEPT ![cur] = 0]
  /\ FinishWith(ws, o)

\* Mutant: the attempt is not counted.
RetryUncounted ==
  IF retries[cur] < MaxRetries
  THEN /\ mem' = SetStatus(mem, at, "pending")
       /\ retries' = retries
       /\ FinishWith(<<"save", "failed", "queued">>, "retrying")
  ELSE GiveUp("failed", <<"save", "failed">>, "failed")

\* Mutant: the task is not put back into the queue.
RetryForgotten ==
  IF retries[cur] < MaxRetries
  THEN /\ mem' = SetStatus(mem, at, "pending")
       /\ retries' = [retries EXCEPT ![cur] = @ + 1]
       /\ FinishWith(<<"save">>, "retrying")
  ELSE GiveUp("failed", <<"save", "failed">>, "failed")

RetryOrFail ==
  IF retries[cur] < MaxRetries
  THEN /\ mem' = SetStatus(mem, at, "pending")
       /\ retries' = [retries EXCEPT ![cur] = @ + 1]
       /\ FinishWith(<<"save", "failed", "queued">>, "retrying")
  ELSE GiveUp("failed", <<"save", "failed">>, "failed")

\* Reflection's own cap on attempts comes before the executive's.
StepFailsTransiently ==
  /\ phase = "calling"
  /\ IF Reflection /\ retries[cur] + 1 >= MaxReflectRetries
     THEN GiveUp("failed", <<"save", "failed">>, "failed")
     ELSE RetryOrFail
  /\ misfires' = [misfires EXCEPT ![cur] = @ + 1]
  /\ UNCHANGED <<queueVars, storeVars, cur, at, idle, tried, reviews, crashes, requeues, succeeded, repeated>>

\* A safety block (or, for reflection, a missing command) is never retried.
StepIsBlocked ==
  /\ phase = "calling"
  /\ IF Reflection
     THEN GiveUp("blocked", <<"save", "waiting">>, "waiting")
     ELSE GiveUp("blocked", <<"save", "blocked">>, "blocked")
  /\ UNCHANGED <<queueVars, storeVars, cur, at, idle, tried, reviews, historyVars>>

\* A code failure: the proposed repairs go into the plan; none means abort.
StepNeedsRepair(n) ==
  /\ phase = "calling"
  /\ Reflection
  /\ Len(mem) + n <= MaxSteps
  /\ IF n > 0
     THEN /\ mem' = Repaired(mem, at, n)
          /\ retries' = retries
          /\ FinishWith(<<"save", "queued">>, "repair_inserted")
     ELSE GiveUp("failed", <<"save", "failed">>, "failed")
  /\ UNCHANGED <<queueVars, storeVars, cur, at, idle, tried, reviews, historyVars>>

-----------------------------------------------------------------------------
(* The durable writes that end the tick, and the lesson recorded from it. *)

Write ==
  /\ phase = "writing"
  /\ LET w == Head(todo) IN
       /\ \/ w \in TaskState /\ Transition(cur, w) /\ saved' = saved
          \/ w = "save"   /\ saved' = [saved EXCEPT ![cur] = mem]    /\ UNCHANGED queueVars
          \/ w = "delete" /\ saved' = [saved EXCEPT ![cur] = NoPlan] /\ UNCHANGED queueVars
  /\ todo' = Tail(todo)
  /\ phase' = IF Len(todo) = 1 THEN "observing" ELSE "writing"
  /\ UNCHANGED <<lessons, cur, mem, at, tick, retries, idle, tried, reviews, historyVars>>

\* Mutant: an outcome that is not known is recorded as it is.
LessonOfAnything(o) ==
  CASE o \in {"done", "step_done"}    -> {"worked_well"}
    [] o \in {"blocked", "waiting"}   -> {"failed_safely"}
    [] o = "failed"                   -> {"failed_repeatedly"}
    [] OTHER                          -> {o}

\* _outcome_for_tick: ticks that settle nothing teach nothing.
LessonOf(o) ==
  CASE o \in {"done", "step_done"}   -> {"worked_well"}
    [] o \in {"blocked", "waiting"}  -> {"failed_safely"}
    [] o = "failed"                  -> {"failed_repeatedly"}
    [] OTHER                         -> {}

Observe ==
  /\ phase = "observing"
  /\ lessons' = [lessons EXCEPT ![cur] = @ \cup LessonOf(tick)]
  /\ phase' = "idle"
  /\ cur' = NoTask
  /\ mem' = NoPlan
  /\ at' = 0
  /\ tick' = "none"
  /\ UNCHANGED <<queueVars, saved, todo, retries, idle, tried, reviews, historyVars>>

-----------------------------------------------------------------------------
(* _on_idle: improvement, then bounded promotion that yields to new work. *)

IdleTick ==
  /\ phase = "idle"
  /\ Queued = {}
  /\ IF idle + 1 < IdleThreshold
     THEN idle' = idle + 1 /\ phase' = "idle"
     ELSE idle' = 0 /\ phase' = "improving"
  /\ UNCHANGED <<queueVars, storeVars, cur, mem, at, todo, tick, retries, tried, reviews, historyVars>>

ImproveDone ==
  /\ phase = "improving"
  /\ phase' = "promoting"
  /\ UNCHANGED <<queueVars, storeVars, cur, mem, at, todo, tick, retries, idle, tried, reviews, historyVars>>

TryCandidate ==
  /\ phase = "promoting"
  /\ tried < PromotionBudget
  /\ Queued = {}
  /\ tried' = tried + 1
  /\ UNCHANGED <<queueVars, storeVars, phase, cur, mem, at, todo, tick, retries, idle, reviews, historyVars>>

\* Budget used up, work arrived, or no candidate is left.
PromotionEnds ==
  /\ phase = "promoting"
  /\ phase' = "idle"
  /\ tried' = 0
  /\ UNCHANGED <<queueVars, storeVars, cur, mem, at, todo, tick, retries, idle, reviews, historyVars>>

-----------------------------------------------------------------------------
(* The process stops and is started again: the stores stay, memory is gone. *)

Crash ==
  /\ crashes < MaxCrashes
  /\ crashes' = crashes + 1
  /\ phase' = "idle"
  /\ cur' = NoTask
  /\ mem' = NoPlan
  /\ at' = 0
  /\ todo' = << >>
  /\ tick' = "none"
  /\ retries' = [t \in Tasks |-> 0]
  /\ idle' = 0
  /\ tried' = 0
  /\ reviews' = [t \in Tasks |-> "none"]
  /\ UNCHANGED <<queueVars, storeVars, requeues, succeeded, repeated, misfires>>

Run ==
  \/ \E t \in Tasks : Pick(t)
  \/ HandOver \/ LoadPlan \/ SubmitForReview \/ CallTool \/ NothingReady
  \/ StepSucceeds \/ StepFailsTransiently \/ StepIsBlocked
  \/ \E n \in RepairCounts : StepNeedsRepair(n)
  \/ Write \/ Observe
  \/ IdleTick \/ ImproveDone \/ TryCandidate \/ PromotionEnds

Next ==
  \/ \E t \in Tasks : Submit(t) \/ Requeue(t) \/ \E v \in {"approved", "rejected"} : DecideReview(t, v)
  \/ Run
  \/ Crash

Spec == Init /\ [][Next]_vars

\* The drain loop calls run_once for ever, and every tool call returns.
FairSpec == Spec /\ WF_vars(Run)

-----------------------------------------------------------------------------
(* Properties *)

TypeOK ==
  /\ state \in [Tasks -> TaskState \cup {"absent"}]
  /\ arrival \in Seq(Tasks)
  /\ saved \in [Tasks -> Plan]
  /\ lessons \in [Tasks -> SUBSET LessonTypes]
  /\ phase \in Phases
  /\ cur \in Tasks \cup {NoTask}
  /\ mem \in Plan
  /\ at \in Nat
  /\ todo \in Seq(Writes)
  /\ tick \in Outcomes
  /\ retries \in [Tasks -> Nat]
  /\ idle \in Nat
  /\ tried \in Nat
  /\ reviews \in [Tasks -> ReviewStatus]
  /\ crashes \in Nat
  /\ requeues \in Nat
  /\ succeeded \in [Tasks -> SUBSET Nat]
  /\ repeated \in [Tasks -> SUBSET Nat]
  /\ misfires \in [Tasks -> Nat]

\* The executive never asks the queue for a move the table refuses: no
\* IllegalTransition is raised half-way through run_once, wherever earlier runs
\* of the task ended and whatever a crash left behind.
WritesAllowed ==
  phase = "writing" /\ Head(todo) \in TaskState => Head(todo) \in Allowed(state[cur])

\* As long as the process has not crashed, a task is in PLANNING or EXECUTING only
\* while the runner is working on it; between ticks nothing is in flight.
InFlightOwned == crashes = 0 => \A t \in Tasks : state[t] \in InFlight => t = cur

\* A tool is called only when every step it must wait for has been DONE: the
\* dependencies survive the renumbering that inserted repairs cause.  Nor does that
\* wire steps into a circle: a plan with nothing failed or blocked can go on.
DependencyOrder ==
  /\ phase = "calling" =>
       \A u \in mem[at].needs : \E i \in DOMAIN mem : mem[i].uid = u /\ mem[i].status = "done"
  /\ phase = "deciding" /\ (\A i \in DOMAIN mem : mem[i].status \in {"pending", "done"}) =>
       IsComplete(mem) \/ ReadySteps(mem) # {}

\* A task becomes DONE only when the tool of every step of its plan, repairs
\* included, has succeeded.
DoneOnlyWhenEveryStepRan ==
  [][\A t \in Tasks : state[t] # "done" /\ state'[t] = "done"
        => \A i \in DOMAIN mem : mem[i].uid \in succeeded[t]]_vars

\* What is on disk for a queued task is exactly its progress, also after crashes: a
\* step is DONE in the plan file if and only if its tool has succeeded; so no step's
\* tool succeeds twice, across ticks, retries, repairs and crashes.
NoDuplicateExecution ==
  requeues = 0 =>
    \A t \in Tasks :
      /\ repeated[t] = {}
      /\ t \in Queued =>
           \A i \in DOMAIN saved[t] :
             saved[t][i].status = "done" <=> saved[t][i].uid \in succeeded[t]

\* At most MaxRetries + 1 transient failures of a task come between two of its
\* successes; a crash, which forgets the counter, and being put back into the queue
\* allow as many again and no more.
RetryBudget == \A t \in Tasks : misfires[t] <= (crashes + requeues + 1) * (MaxRetries + 1)

\* Every submitted task is settled for good, one way or another.
EveryTaskSettles ==
  \A t \in Tasks : [](state[t] = "queued" => <>[](state[t] \in Settled))
=============================================================================
