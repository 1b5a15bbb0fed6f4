------------------------------ MODULE Supervisor ------------------------------
(***************************************************************************)
(* The unattended supervisor (src/aetheris/unattended): a bounded session  *)
(* that takes one step of the executive after another while the watchdog   *)
(* finds the system healthy, saves a snapshot after every step, and can be *)
(* resumed from the snapshot.  All sessions of a frontier have one id, so  *)
(* there is one snapshot file and one history of events.                   *)
(*                                                                         *)
(* Of the executive only the outcome of a step is visible.  The journal is *)
(* reduced to what _record_outcome reads back from it.                     *)
(***************************************************************************)
EXTENDS Integers

CONSTANTS
  MaxSteps,      \* bounds.max_steps
  StepLimits,    \* step limits a session may get: the consult may tighten it
  MaxFailures,   \* bounds.max_consecutive_failures
  StallWindows,  \* stall windows the consult's prior may leave of
                 \*   bounds.max_ticks_without_progress
  RetryLimit,    \* WatchdogThresholds.retry_limit
  RepairLimit,   \* WatchdogThresholds.repair_limit
  MayDefer,      \* TRUE: the consult may decline to start a session
  MaxStarts,     \* BOUND: sessions started
  MaxCrashes,    \* BOUND: process crashes
  MaxTasks,      \* BOUND: tasks submitted
  MaxRequests,   \* BOUND: request_stop and request_pause calls
  NoSession

ASSUME SupervisorAssumption ==
  /\ MaxSteps \in Nat \ {0}
  /\ StepLimits \subseteq 1 .. MaxSteps
  /\ MaxFailures \in Nat \ {0}
  /\ StallWindows \subseteq Nat \ {0}
  /\ RetryLimit \in Nat /\ RepairLimit \in Nat
  /\ MayDefer \in BOOLEAN
  /\ MaxStarts \in Nat /\ MaxCrashes \in Nat /\ MaxTasks \in Nat /\ MaxRequests \in Nat

VARIABLES
  pc,         \* where in start, run or resume the supervisor is
  sess,       \* the Session it drives
  after,      \* what follows the checkpoint, or the state the session ends in
  snap,       \* the snapshot file
  resumed,    \* a session_resumed line is in the journal
  before,     \* the largest steps_taken of the checkpoint lines before the first of them
  regressed,  \* a checkpoint line after it has a smaller one
  reported,   \* an outcome with duplicate_work = 1 has been recorded
  work,       \* queued tasks
  stuck,      \* tasks a crash left in flight
  denied,     \* the network perimeter has denied a request
  halt,       \* _halt_requested
  pause,      \* _pause_requested
  expired,    \* max_wall_clock_s has passed since started_at
  \* history, not in the code
  starts, crashes, submitted, requests,
  executed,   \* steps of the executive since the last start
  streak,     \* failing steps since the last start or the last good step
  sinceHalt,  \* steps that ended after request_stop
  high,       \* the largest steps_taken logged since the last start
  lost,       \* a session logged fewer steps than it had logged before
  faulted     \* the session was stopped for review and not started again

sessionVars == <<pc, sess, after>>
storeVars   == <<snap, resumed, before, regressed, reported>>
worldVars   == <<work, stuck, denied, submitted>>
brakeVars   == <<halt, pause, requests, sinceHalt>>
countVars   == <<expired, starts, crashes, executed, streak, high, lost, faulted>>
vars == <<sessionVars, storeVars, worldVars, brakeVars, countVars>>

Ends == {"paused", "stopped", "failed", "completed"}
Outcomes == {"repair_inserted", "retrying", "failed", "blocked", "waiting_for_context",
             "done", "step_done", "plan_review"}

\* Outcomes after which the task is not queued any more.
Leaving == {"failed", "blocked", "waiting_for_context", "done", "plan_review"}

Session ==
  [state: {"starting", "running"} \cup Ends, limit: 1 .. MaxSteps, steps: Nat,
   retries: Nat, repairs: Nat, stalled: Nat, failures: Nat]

ASSUME NoSessionAssumption == NoSession \notin Session

FreshSession(limit) ==
  [state |-> "starting", limit |-> limit, steps |-> 0,
   retries |-> 0, repairs |-> 0, stalled |-> 0, failures |-> 0]

Init ==
  /\ pc = "none" /\ sess = NoSession /\ after = "top"
  /\ snap = NoSession
  /\ resumed = FALSE /\ before = 0 /\ regressed = FALSE /\ reported = FALSE
  /\ work = 0 /\ stuck = 0 /\ denied = FALSE /\ submitted = 0
  /\ halt = FALSE /\ pause = FALSE /\ requests = 0 /\ sinceHalt = 0
  /\ expired = FALSE
  /\ starts = 0 /\ crashes = 0 /\ executed = 0 /\ streak = 0 /\ high = 0
  /\ lost = FALSE /\ faulted = FALSE

-----------------------------------------------------------------------------
(* start() and resume() *)

\* A new session, its counters at 0; it is saved at once.  A deferred one is
\* parked as paused after that.
Start(limit, deferred) ==
  /\ pc = "none"
  /\ starts < MaxStarts
  /\ sess' = FreshSession(limit)
  /\ pc' = "saving"
  /\ after' = IF deferred THEN "paused" ELSE "top"
  /\ starts' = starts + 1
  /\ expired' = FALSE
  /\ executed' = 0 /\ streak' = 0 /\ high' = 0 /\ faulted' = FALSE
  /\ UNCHANGED <<snap, resumed, before, regressed, reported, worldVars, brakeVars, crashes, lost>>

\* Mutants: failures are forgotten; steps are not restored.
RehydratedClean == [snap EXCEPT !.state = "running", !.failures = 0]
RehydratedFromZero == [snap EXCEPT !.state = "running", !.steps = 0]

Rehydrated == [snap EXCEPT !.state = "running"]

\* The snapshot is all that is read, whatever lines the journal ends with.
Resume ==
  /\ pc = "none"
  /\ snap # NoSession
  /\ sess' = Rehydrated
  /\ resumed' = TRUE
  /\ pc' = "top"
  /\ UNCHANGED <<after, snap, before, regressed, reported, worldVars, brakeVars, countVars>>

\* Without one the session is irreconcilable: it is logged as resumed, then as failed.
ResumeNothing ==
  /\ pc = "none"
  /\ snap = NoSession
  /\ resumed' = TRUE
  /\ faulted' = TRUE
  /\ UNCHANGED <<sessionVars, snap, before, regressed, reported, worldVars, brakeVars,
                 expired, starts, crashes, executed, streak, high, lost>>

-----------------------------------------------------------------------------
(* The watchdog *)

BudgetExhausted ==
  /\ sess.retries >= RetryLimit \/ sess.repairs >= RepairLimit
  /\ work > 0 \/ stuck > 0

\* Mutant: one failure too many.
StopForReviewLate == sess.failures > MaxFailures \/ BudgetExhausted \/ denied

StopForReview == sess.failures >= MaxFailures \/ BudgetExhausted \/ denied

NearExhaustion == sess.retries >= RetryLimit - 1 \/ sess.repairs >= RepairLimit - 1

PauseFor(window) == sess.stalled >= window \/ NearExhaustion

Healthy(window) == ~StopForReview /\ ~PauseFor(window)

-----------------------------------------------------------------------------
(* One iteration of run() *)

AtTop == pc = "top" /\ ~halt /\ ~pause

GoTo(place, what) ==
  /\ pc' = place
  /\ after' = what
  /\ UNCHANGED <<sess, storeVars, worldVars, countVars>>

\* Mutant: the request is looked at only when there is work to stop.
HonorHaltAtWork ==
  /\ pc = "top"
  /\ halt /\ work > 0
  /\ GoTo("ending", "stopped")
  /\ UNCHANGED brakeVars

HonorHalt ==
  /\ pc = "top"
  /\ halt
  /\ GoTo("ending", "stopped")
  /\ UNCHANGED brakeVars

HonorPause ==
  /\ pc = "top"
  /\ ~halt /\ pause
  /\ pause' = FALSE
  /\ GoTo("ending", "paused")
  /\ UNCHANGED <<halt, requests, sinceHalt>>

\* No checkpoint comes before this stop.
StopOnFault ==
  /\ AtTop
  /\ StopForReview
  /\ GoTo("ending", "failed")
  /\ UNCHANGED brakeVars

PauseOnConcern ==
  /\ AtTop
  /\ ~StopForReview
  /\ \E w \in StallWindows : PauseFor(w)
  /\ GoTo("saving", "paused")
  /\ UNCHANGED brakeVars

\* Mutant: the bound itself is not reached yet.
BoundPassed == sess.steps > sess.limit \/ expired

BoundReached == sess.steps >= sess.limit \/ expired

ReachBound ==
  /\ AtTop
  /\ \E w \in StallWindows : Healthy(w)
  /\ BoundReached
  /\ GoTo("saving", "stopped")
  /\ UNCHANGED brakeVars

Drained ==
  /\ AtTop
  /\ \E w \in StallWindows : Healthy(w)
  /\ ~BoundReached
  /\ work = 0
  /\ GoTo("saving", "completed")
  /\ UNCHANGED brakeVars

TakeStep ==
  /\ AtTop
  /\ \E w \in StallWindows : Healthy(w)
  /\ ~BoundReached
  /\ work > 0
  /\ GoTo("stepping", "top")
  /\ UNCHANGED brakeVars

-----------------------------------------------------------------------------
(* The step returns; _apply_tick_outcome *)

Failing == {"retrying", "failed", "blocked", "waiting_for_context"}

Applied(s, o) ==
  CASE o = "repair_inserted" -> [s EXCEPT !.repairs = @ + 1, !.stalled = @ + 1]
    [] o = "retrying"        -> [s EXCEPT !.retries = @ + 1, !.failures = @ + 1, !.stalled = @ + 1]
    [] o \in Failing \ {"retrying"} -> [s EXCEPT !.failures = @ + 1, !.stalled = @ + 1]
    [] o \in {"done", "step_done", "plan_review"} ->
         [s EXCEPT !.retries = 0, !.failures = 0, !.stalled = 0]
    [] OTHER -> s

\* The other runner may have emptied the queue since _work_ready looked: "idle".
StepReturns(o) ==
  /\ pc = "stepping"
  /\ IF work = 0 THEN o = "idle" ELSE o \in Outcomes
  /\ sess' = [Applied(sess, o) EXCEPT !.steps = @ + 1]
  /\ work' = IF o \in Leaving THEN work - 1 ELSE work
  /\ pc' = "saving"
  /\ executed' = executed + 1
  /\ streak' = IF o \in Failing THEN streak + 1
               ELSE IF o \in {"idle", "repair_inserted"} THEN streak ELSE 0
  /\ sinceHalt' = IF halt THEN sinceHalt + 1 ELSE sinceHalt
  /\ UNCHANGED <<after, storeVars, stuck, denied, submitted, halt, pause, requests,
                 expired, starts, crashes, high, lost, faulted>>

-----------------------------------------------------------------------------
(* checkpoint(): the snapshot file, then the journal line *)

SaveSnapshot ==
  /\ pc = "saving"
  /\ snap' = sess
  /\ pc' = "logging"
  /\ UNCHANGED <<sess, after, resumed, before, regressed, reported, worldVars, brakeVars, countVars>>

Larger(m, n) == IF m > n THEN m ELSE n

\* _record_outcome: the largest count before the first resume, against those after it.
FellBehind(steps) == resumed /\ steps < before

LogCheckpoint ==
  /\ pc = "logging"
  /\ before' = IF resumed THEN before ELSE Larger(before, sess.steps)
  /\ regressed' = (regressed \/ FellBehind(sess.steps))
  /\ high' = Larger(high, sess.steps)
  /\ lost' = (lost \/ sess.steps < high)
  /\ sess' = [sess EXCEPT !.state = "running"]
  /\ pc' = IF after = "top" THEN "top" ELSE "ending"
  /\ UNCHANGED <<after, snap, resumed, reported, worldVars, brakeVars,
                 expired, starts, crashes, executed, streak, faulted>>

\* _pause, _stop, _complete: one journal line, and the outcome for session learning.
\* The snapshot is left as it is.
Ending ==
  /\ pc = "ending"
  /\ sess' = [sess EXCEPT !.state = after]
  /\ reported' = (reported \/ regressed)
  /\ faulted' = (faulted \/ after = "failed")
  /\ pc' = "none"
  /\ UNCHANGED <<after, snap, resumed, before, regressed, worldVars, brakeVars,
                 expired, starts, crashes, executed, streak, high, lost>>

-----------------------------------------------------------------------------
(* Around the loop: brakes, other users of the queue, crashes *)

\* brake() works on a copy made from the snapshot: one journal line, and the outcome.
\* The snapshot never has a terminal state, so the test for one lets every session
\* through.
Brake ==
  /\ snap # NoSession
  /\ snap.state \notin {"stopped", "failed", "completed"}
  /\ reported' = (reported \/ regressed)
  /\ UNCHANGED <<sessionVars, snap, resumed, before, regressed, worldVars, brakeVars, countVars>>

RequestStop ==
  /\ requests < MaxRequests
  /\ halt' = TRUE
  /\ requests' = requests + 1
  /\ UNCHANGED <<sessionVars, storeVars, worldVars, pause, sinceHalt, countVars>>

RequestPause ==
  /\ requests < MaxRequests
  /\ pause' = TRUE
  /\ requests' = requests + 1
  /\ UNCHANGED <<sessionVars, storeVars, worldVars, halt, sinceHalt, countVars>>

Submit ==
  /\ submitted < MaxTasks
  /\ submitted' = submitted + 1
  /\ work' = work + 1
  /\ UNCHANGED <<sessionVars, storeVars, stuck, denied, brakeVars, countVars>>

\* The drain loop of the API settles a task.
OtherRunner ==
  /\ work > 0
  /\ work' = work - 1
  /\ UNCHANGED <<sessionVars, storeVars, stuck, denied, submitted, brakeVars, countVars>>

PerimeterDenies ==
  /\ ~denied
  /\ denied' = TRUE
  /\ UNCHANGED <<sessionVars, storeVars, work, stuck, submitted, brakeVars, countVars>>

ClockRunsOut ==
  /\ pc # "none"
  /\ ~expired
  /\ expired' = TRUE
  /\ UNCHANGED <<sessionVars, storeVars, worldVars, brakeVars, starts, crashes,
                 executed, streak, high, lost, faulted>>

\* A step cut short leaves its task in flight and is not counted anywhere.
Crash ==
  /\ crashes < MaxCrashes
  /\ crashes' = crashes + 1
  /\ IF pc = "stepping" /\ work > 0
     THEN work' = work - 1 /\ stuck' = stuck + 1 /\ executed' = executed + 1
     ELSE UNCHANGED <<work, stuck, executed>>
  /\ pc' = "none"
  /\ sess' = NoSession
  /\ after' = "top"
  /\ halt' = FALSE /\ pause' = FALSE /\ sinceHalt' = 0
  /\ UNCHANGED <<storeVars, denied, submitted, requests, expired, starts, streak, high, lost, faulted>>

Loop ==
  \/ HonorHalt \/ HonorPause \/ StopOnFault \/ PauseOnConcern \/ ReachBound
  \/ Drained \/ TakeStep
  \/ \E o \in Outcomes \cup {"idle"} : StepReturns(o)
  \/ SaveSnapshot \/ LogCheckpoint \/ Ending

World ==
  \/ \E limit \in StepLimits : Start(limit, FALSE) \/ (MayDefer /\ Start(limit, TRUE))
  \/ ResumeNothing
  \/ Brake \/ RequestStop \/ RequestPause
  \/ Submit \/ OtherRunner \/ PerimeterDenies \/ ClockRunsOut \/ Crash

Next == Loop \/ Resume \/ World

Spec == Init /\ [][Next]_vars

\* start, resume and the step they call return control to the loop.
FairSpec == Spec /\ WF_vars(Loop)

-----------------------------------------------------------------------------
(* Properties *)

TypeOK ==
  /\ pc \in {"none", "saving", "logging", "top", "stepping", "ending"}
  /\ sess \in Session \cup {NoSession}
  /\ pc # "none" => sess # NoSession
  /\ after \in Ends \cup {"top"}
  /\ snap \in Session \cup {NoSession}
  /\ resumed \in BOOLEAN /\ before \in Nat /\ regressed \in BOOLEAN /\ reported \in BOOLEAN
  /\ work \in Nat /\ stuck \in Nat /\ denied \in BOOLEAN /\ submitted \in Nat
  /\ halt \in BOOLEAN /\ pause \in BOOLEAN /\ requests \in Nat /\ sinceHalt \in Nat
  /\ expired \in BOOLEAN
  /\ starts \in Nat /\ crashes \in Nat /\ executed \in Nat /\ streak \in Nat /\ high \in Nat
  /\ lost \in BOOLEAN /\ faulted \in BOOLEAN

\* A session takes no more steps than its bounds allow, however often it is paused
\* and resumed; a crash forgets at most the one step not yet saved.
StepBudget == executed <= MaxSteps + crashes

\* Nor does it go on after max_consecutive_failures failing steps in a row, across
\* pauses, resumes and crashes.
FailureRunBounded == streak <= MaxFailures + crashes

\* A session stopped for human review takes no further step, resumed or not, until a
\* new one is started (test_never_continues_after_unrecoverable_fault); one that was
\* asked to stop at most finishes the step under way.
FaultedStaysStopped == (faulted => pc # "stepping") /\ sinceHalt <= 1

\* The journal never claims a checkpoint the snapshot does not have: what was logged
\* since the last start is never lost, so no step is done and counted twice, and
\* duplicate_work is not reported of a session that was only paused and resumed, with
\* or without a crash, as long as it did not fall behind what it had logged.
CheckpointDurable ==
  /\ high <= (IF snap = NoSession THEN 0 ELSE snap.steps)
  /\ reported => lost \/ starts > 1

\* Every session ends or is paused within its bounds.
SessionEnds == []<>(pc = "none")

=============================================================================
