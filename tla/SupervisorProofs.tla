--------------------------- MODULE SupervisorProofs ---------------------------
(***************************************************************************)
(* Proofs about Supervisor: its types, and that no number of pauses,       *)
(* resumes and crashes takes a session past its step bound, past its limit *)
(* of failures or past a stop for review, or loses what was logged.        *)
(***************************************************************************)
EXTENDS Supervisor, TLAPS

\* What the snapshot file says a resumed session has done.
SavedSteps == IF snap = NoSession THEN 0 ELSE snap.steps

\* While no step is waiting to be saved, every executed step is in the snapshot,
\* but for those cut short by a crash.
AllSaved == pc # "saving" => executed <= SavedSteps + crashes

\* While one is, it is the only one missing.
OneUnsaved ==
  pc = "saving" => executed <= SavedSteps + crashes + 1 /\ executed <= sess.steps + crashes

\* The session in memory is the saved one wherever a step may be taken.
InStep == pc \in {"top", "stepping", "logging"} => snap # NoSession /\ sess.steps = snap.steps

\* Neither is past the bound, and a step is begun only below the limit.
WithinLimit ==
  /\ sess # NoSession => sess.steps <= MaxSteps
  /\ snap # NoSession => snap.steps <= MaxSteps
  /\ pc = "stepping" => sess.steps < sess.limit

EndsWell == pc = "ending" => after \in Ends

SInv == TypeOK /\ EndsWell /\ AllSaved /\ OneUnsaved /\ InStep /\ WithinLimit

\* Setting one counter of a session leaves it a session, and its steps as they were.
LEMMA CounterType ==
  ASSUME NEW s \in Session, NEW n \in Nat, NEW t,
         \/ t = [s EXCEPT !.repairs = n]
         \/ t = [s EXCEPT !.retries = n]
         \/ t = [s EXCEPT !.failures = n]
         \/ t = [s EXCEPT !.stalled = n]
  PROVE  t \in Session /\ t.steps = s.steps /\ t.limit = s.limit
<1>1. CASE t = [s EXCEPT !.repairs = n]
  BY <1>1 DEF Session
<1>2. CASE t = [s EXCEPT !.retries = n]
  BY <1>2 DEF Session
<1>3. CASE t = [s EXCEPT !.failures = n]
  BY <1>3 DEF Session
<1>4. CASE t = [s EXCEPT !.stalled = n]
  BY <1>4 DEF Session
<1> QED BY <1>1, <1>2, <1>3, <1>4

\* Counting the outcome of a step leaves a session a session, and its steps as they were.
LEMMA AppliedType ==
  ASSUME NEW s \in Session, NEW o
  PROVE  /\ Applied(s, o) \in Session
         /\ Applied(s, o).steps = s.steps
         /\ Applied(s, o).limit = s.limit
<1>0. /\ s.repairs + 1 \in Nat /\ s.retries + 1 \in Nat
      /\ s.failures + 1 \in Nat /\ s.stalled + 1 \in Nat
  BY DEF Session
<1>1. CASE o = "repair_inserted"
  <2> DEFINE
       t1 == [s EXCEPT !.repairs = s.repairs + 1]
       t2 == [t1 EXCEPT !.stalled = s.stalled + 1]
  <2>1. Applied(s, o) = t2
    BY <1>1 DEF Applied, Failing
  <2>2. t1 \in Session /\ t1.steps = s.steps /\ t1.limit = s.limit
    BY <1>0, CounterType
  <2> HIDE DEF t1
  <2>3. t2 \in Session /\ t2.steps = s.steps /\ t2.limit = s.limit
    BY <1>0, <2>2, CounterType
  <2> HIDE DEF t2
  <2> QED BY <2>1, <2>3
<1>2. CASE o = "retrying"
  <2> DEFINE
       t1 == [s EXCEPT !.retries = s.retries + 1]
       t2 == [t1 EXCEPT !.failures = s.failures + 1]
       t3 == [t2 EXCEPT !.stalled = s.stalled + 1]
  <2>1. Applied(s, o) = t3
    BY <1>2 DEF Applied, Failing
  <2>2. t1 \in Session /\ t1.steps = s.steps /\ t1.limit = s.limit
    BY <1>0, CounterType
  <2> HIDE DEF t1
  <2>3. t2 \in Session /\ t2.steps = s.steps /\ t2.limit = s.limit
    BY <1>0, <2>2, CounterType
  <2> HIDE DEF t2
  <2>4. t3 \in Session /\ t3.steps = s.steps /\ t3.limit = s.limit
    BY <1>0, <2>3, CounterType
  <2> HIDE DEF t3
  <2> QED BY <2>1, <2>4
<1>3. CASE o \in Failing \ {"retrying"}
  <2> DEFINE
       t1 == [s EXCEPT !.failures = s.failures + 1]
       t2 == [t1 EXCEPT !.stalled = s.stalled + 1]
  <2>1. Applied(s, o) = t2
    BY <1>3 DEF Applied, Failing
  <2>2. t1 \in Session /\ t1.steps = s.steps /\ t1.limit = s.limit
    BY <1>0, CounterType
  <2> HIDE DEF t1
  <2>3. t2 \in Session /\ t2.steps = s.steps /\ t2.limit = s.limit
    BY <1>0, <2>2, CounterType
  <2> HIDE DEF t2
  <2> QED BY <2>1, <2>3
<1>4. CASE o \in {"done", "step_done", "plan_review"}
  <2> DEFINE
       t1 == [s EXCEPT !.retries = 0]
       t2 == [t1 EXCEPT !.failures = 0]
       t3 == [t2 EXCEPT !.stalled = 0]
  <2>1. Applied(s, o) = t3
    BY <1>4 DEF Applied, Failing
  <2>2. t1 \in Session /\ t1.steps = s.steps /\ t1.limit = s.limit
    BY <1>0, CounterType
  <2> HIDE DEF t1
  <2>3. t2 \in Session /\ t2.steps = s.steps /\ t2.limit = s.limit
    BY <1>0, <2>2, CounterType
  <2> HIDE DEF t2
  <2>4. t3 \in Session /\ t3.steps = s.steps /\ t3.limit = s.limit
    BY <1>0, <2>3, CounterType
  <2> HIDE DEF t3
  <2> QED BY <2>1, <2>4
<1>5. CASE o \notin {"repair_inserted", "retrying", "done", "step_done", "plan_review"} \cup Failing
  <2>1. Applied(s, o) = s
    BY <1>5 DEF Applied
  <2> QED BY <2>1
<1> QED BY <1>1, <1>2, <1>3, <1>4, <1>5

LEMMA InitSInv == Init => SInv
<1> SUFFICES ASSUME Init PROVE SInv
  OBVIOUS
<1>1. TypeOK
  BY DEF Init, TypeOK
<1>2. EndsWell /\ AllSaved /\ OneUnsaved /\ InStep /\ WithinLimit
  BY DEF Init, EndsWell, AllSaved, OneUnsaved, InStep, WithinLimit, SavedSteps
<1> QED BY <1>1, <1>2 DEF SInv

\* The numbers a session is compared by.
LEMMA SessionNumbers ==
  ASSUME NEW s \in Session
  PROVE  s.steps \in Nat /\ s.limit \in Nat /\ s.limit <= MaxSteps /\ s # NoSession
BY SupervisorAssumption, NoSessionAssumption DEF Session

\* Every step keeps the invariant.
LEMMA NextSInv == SInv /\ [Next]_vars => SInv'
<1> SUFFICES ASSUME SInv, [Next]_vars PROVE SInv'
  OBVIOUS
<1> USE DEF SInv
<1>0. /\ sess # NoSession => sess \in Session /\ sess.steps \in Nat /\ sess.limit \in Nat /\ sess.limit <= MaxSteps
      /\ snap # NoSession => snap \in Session /\ snap.steps \in Nat /\ snap.limit \in Nat /\ snap.limit <= MaxSteps
      /\ MaxSteps \in Nat /\ executed \in Nat /\ crashes \in Nat
  BY SessionNumbers, SupervisorAssumption DEF TypeOK
<1>1. CASE HonorHalt
  <2>1. TypeOK'
    BY <1>1 DEF HonorHalt, GoTo, TypeOK, Ends, vars, sessionVars, storeVars, worldVars, brakeVars, countVars
  <2>2. (EndsWell /\ AllSaved /\ OneUnsaved /\ InStep /\ WithinLimit)'
    BY <1>0, <1>1 DEF HonorHalt, GoTo, EndsWell, AllSaved, OneUnsaved, InStep, WithinLimit, SavedSteps, TypeOK, Ends, vars, sessionVars, storeVars, worldVars, brakeVars, countVars
  <2> QED BY <2>1, <2>2 DEF SInv
<1>2. CASE HonorPause
  <2>1. TypeOK'
    BY <1>2 DEF HonorPause, GoTo, TypeOK, Ends, vars, sessionVars, storeVars, worldVars, brakeVars, countVars
  <2>2. (EndsWell /\ AllSaved /\ OneUnsaved /\ InStep /\ WithinLimit)'
    BY <1>0, <1>2 DEF HonorPause, GoTo, EndsWell, AllSaved, OneUnsaved, InStep, WithinLimit, SavedSteps, TypeOK, Ends, vars, sessionVars, storeVars, worldVars, brakeVars, countVars
  <2> QED BY <2>1, <2>2 DEF SInv
<1>3. CASE StopOnFault
  <2>1. TypeOK'
    BY <1>3 DEF StopOnFault, AtTop, GoTo, TypeOK, Ends, vars, sessionVars, storeVars, worldVars, brakeVars, countVars
  <2>2. (EndsWell /\ AllSaved /\ OneUnsaved /\ InStep /\ WithinLimit)'
    BY <1>0, <1>3 DEF StopOnFault, AtTop, GoTo, EndsWell, AllSaved, OneUnsaved, InStep, WithinLimit, SavedSteps, TypeOK, Ends, vars, sessionVars, storeVars, worldVars, brakeVars, countVars
  <2> QED BY <2>1, <2>2 DEF SInv
<1>4. CASE PauseOnConcern
  <2>1. TypeOK'
    BY <1>4 DEF PauseOnConcern, AtTop, GoTo, TypeOK, Ends, vars, sessionVars, storeVars, worldVars, brakeVars, countVars
  <2>2. (EndsWell /\ AllSaved /\ OneUnsaved /\ InStep /\ WithinLimit)'
    BY <1>0, <1>4 DEF PauseOnConcern, AtTop, GoTo, EndsWell, AllSaved, OneUnsaved, InStep, WithinLimit, SavedSteps, TypeOK, Ends, vars, sessionVars, storeVars, worldVars, brakeVars, countVars
  <2> QED BY <2>1, <2>2 DEF SInv
<1>5. CASE ReachBound
  <2>1. TypeOK'
    BY <1>5 DEF ReachBound, AtTop, GoTo, TypeOK, Ends, vars, sessionVars, storeVars, worldVars, brakeVars, countVars
  <2>2. (EndsWell /\ AllSaved /\ OneUnsaved /\ InStep /\ WithinLimit)'
    BY <1>0, <1>5 DEF ReachBound, AtTop, GoTo, EndsWell, AllSaved, OneUnsaved, InStep, WithinLimit, SavedSteps, TypeOK, Ends, vars, sessionVars, storeVars, worldVars, brakeVars, countVars
  <2> QED BY <2>1, <2>2 DEF SInv
<1>6. CASE Drained
  <2>1. TypeOK'
    BY <1>6 DEF Drained, AtTop, GoTo, TypeOK, Ends, vars, sessionVars, storeVars, worldVars, brakeVars, countVars
  <2>2. (EndsWell /\ AllSaved /\ OneUnsaved /\ InStep /\ WithinLimit)'
    BY <1>0, <1>6 DEF Drained, AtTop, GoTo, EndsWell, AllSaved, OneUnsaved, InStep, WithinLimit, SavedSteps, TypeOK, Ends, vars, sessionVars, storeVars, worldVars, brakeVars, countVars
  <2> QED BY <2>1, <2>2 DEF SInv
<1>7. CASE TakeStep
  <2>1. TypeOK'
    BY <1>7 DEF TakeStep, AtTop, GoTo, BoundReached, TypeOK, Ends, vars, sessionVars, storeVars, worldVars, brakeVars, countVars
  <2>2. (EndsWell /\ AllSaved /\ OneUnsaved /\ InStep /\ WithinLimit)'
    BY <1>0, <1>7 DEF TakeStep, AtTop, GoTo, BoundReached, EndsWell, AllSaved, OneUnsaved, InStep, WithinLimit, SavedSteps, TypeOK, Ends, vars, sessionVars, storeVars, worldVars, brakeVars, countVars
  <2> QED BY <2>1, <2>2 DEF SInv
<1>8. CASE SaveSnapshot
  <2>1. TypeOK'
    BY <1>8 DEF SaveSnapshot, TypeOK, Ends, vars, sessionVars, storeVars, worldVars, brakeVars, countVars
  <2>2. (EndsWell /\ AllSaved /\ OneUnsaved /\ InStep /\ WithinLimit)'
    BY <1>0, <1>8 DEF SaveSnapshot, EndsWell, AllSaved, OneUnsaved, InStep, WithinLimit, SavedSteps, TypeOK, Ends, vars, sessionVars, storeVars, worldVars, brakeVars, countVars
  <2> QED BY <2>1, <2>2 DEF SInv
<1>9. CASE ResumeNothing
  <2>1. TypeOK'
    BY <1>9 DEF ResumeNothing, TypeOK, Ends, vars, sessionVars, storeVars, worldVars, brakeVars, countVars
  <2>2. (EndsWell /\ AllSaved /\ OneUnsaved /\ InStep /\ WithinLimit)'
    BY <1>0, <1>9 DEF ResumeNothing, EndsWell, AllSaved, OneUnsaved, InStep, WithinLimit, SavedSteps, TypeOK, Ends, vars, sessionVars, storeVars, worldVars, brakeVars, countVars
  <2> QED BY <2>1, <2>2 DEF SInv
<1>10. CASE RequestStop
  <2>1. TypeOK'
    BY <1>10 DEF RequestStop, TypeOK, Ends, vars, sessionVars, storeVars, worldVars, brakeVars, countVars
  <2>2. (EndsWell /\ AllSaved /\ OneUnsaved /\ InStep /\ WithinLimit)'
    BY <1>0, <1>10 DEF RequestStop, EndsWell, AllSaved, OneUnsaved, InStep, WithinLimit, SavedSteps, TypeOK, Ends, vars, sessionVars, storeVars, worldVars, brakeVars, countVars
  <2> QED BY <2>1, <2>2 DEF SInv
<1>11. CASE RequestPause
  <2>1. TypeOK'
    BY <1>11 DEF RequestPause, TypeOK, Ends, vars, sessionVars, storeVars, worldVars, brakeVars, countVars
  <2>2. (EndsWell /\ AllSaved /\ OneUnsaved /\ InStep /\ WithinLimit)'
    BY <1>0, <1>11 DEF RequestPause, EndsWell, AllSaved, OneUnsaved, InStep, WithinLimit, SavedSteps, TypeOK, Ends, vars, sessionVars, storeVars, worldVars, brakeVars, countVars
  <2> QED BY <2>1, <2>2 DEF SInv
<1>12. CASE Submit
  <2>1. TypeOK'
    BY <1>12 DEF Submit, TypeOK, Ends, vars, sessionVars, storeVars, worldVars, brakeVars, countVars
  <2>2. (EndsWell /\ AllSaved /\ OneUnsaved /\ InStep /\ WithinLimit)'
    BY <1>0, <1>12 DEF Submit, EndsWell, AllSaved, OneUnsaved, InStep, WithinLimit, SavedSteps, TypeOK, Ends, vars, sessionVars, storeVars, worldVars, brakeVars, countVars
  <2> QED BY <2>1, <2>2 DEF SInv
<1>13. CASE OtherRunner
  <2>1. TypeOK'
    BY <1>13 DEF OtherRunner, TypeOK, Ends, vars, sessionVars, storeVars, worldVars, brakeVars, countVars
  <2>2. (EndsWell /\ AllSaved /\ OneUnsaved /\ InStep /\ WithinLimit)'
    BY <1>0, <1>13 DEF OtherRunner, EndsWell, AllSaved, OneUnsaved, InStep, WithinLimit, SavedSteps, TypeOK, Ends, vars, sessionVars, storeVars, worldVars, brakeVars, countVars
  <2> QED BY <2>1, <2>2 DEF SInv
<1>14. CASE PerimeterDenies
  <2>1. TypeOK'
    BY <1>14 DEF PerimeterDenies, TypeOK, Ends, vars, sessionVars, storeVars, worldVars, brakeVars, countVars
  <2>2. (EndsWell /\ AllSaved /\ OneUnsaved /\ InStep /\ WithinLimit)'
    BY <1>0, <1>14 DEF PerimeterDenies, EndsWell, AllSaved, OneUnsaved, InStep, WithinLimit, SavedSteps, TypeOK, Ends, vars, sessionVars, storeVars, worldVars, brakeVars, countVars
  <2> QED BY <2>1, <2>2 DEF SInv
<1>15. CASE ClockRunsOut
  <2>1. TypeOK'
    BY <1>15 DEF ClockRunsOut, TypeOK, Ends, vars, sessionVars, storeVars, worldVars, brakeVars, countVars
  <2>2. (EndsWell /\ AllSaved /\ OneUnsaved /\ InStep /\ WithinLimit)'
    BY <1>0, <1>15 DEF ClockRunsOut, EndsWell, AllSaved, OneUnsaved, InStep, WithinLimit, SavedSteps, TypeOK, Ends, vars, sessionVars, storeVars, worldVars, brakeVars, countVars
  <2> QED BY <2>1, <2>2 DEF SInv
<1>16. CASE Crash
  <2>a. work' \in Nat /\ stuck' \in Nat /\ executed' \in Nat
    BY <1>16 DEF Crash, TypeOK
  <2>b. /\ pc' = "none" /\ sess' = NoSession /\ after' = "top"
        /\ halt' = FALSE /\ pause' = FALSE /\ sinceHalt' = 0 /\ crashes' \in Nat
        /\ UNCHANGED <<snap, resumed, before, regressed, reported, denied, submitted,
                       requests, expired, starts, streak, high, lost, faulted>>
    BY <1>0, <1>16 DEF Crash, storeVars
  <2>1. TypeOK'
    BY <2>a, <2>b DEF TypeOK
  <2>2. (EndsWell /\ AllSaved /\ OneUnsaved /\ InStep /\ WithinLimit)'
    BY <1>0, <1>16 DEF Crash, EndsWell, AllSaved, OneUnsaved, InStep, WithinLimit, SavedSteps, TypeOK, Ends, vars, sessionVars, storeVars, worldVars, brakeVars, countVars
  <2> QED BY <2>1, <2>2 DEF SInv
<1>17. CASE Brake
  <2>1. TypeOK'
    BY <1>17 DEF Brake, TypeOK, Ends, vars, sessionVars, storeVars, worldVars, brakeVars, countVars
  <2>2. (EndsWell /\ AllSaved /\ OneUnsaved /\ InStep /\ WithinLimit)'
    BY <1>0, <1>17 DEF Brake, EndsWell, AllSaved, OneUnsaved, InStep, WithinLimit, SavedSteps, TypeOK, Ends, vars, sessionVars, storeVars, worldVars, brakeVars, countVars
  <2> QED BY <2>1, <2>2 DEF SInv
<1>19. ASSUME NEW limit \in StepLimits, NEW deferred \in BOOLEAN, Start(limit, deferred)
      PROVE  SInv'
  <2>1. FreshSession(limit) \in Session /\ FreshSession(limit).steps = 0
    BY SupervisorAssumption DEF FreshSession, Session
  <2>a. after' \in Ends \cup {"top"}
    BY <1>19 DEF Start, Ends
  <2>b. sess' \in Session /\ sess' # NoSession
    BY <1>19, <2>1, NoSessionAssumption DEF Start
  <2>c. /\ pc' = "saving" /\ starts' \in Nat /\ expired' = FALSE
        /\ executed' = 0 /\ streak' = 0 /\ high' = 0 /\ faulted' = FALSE
        /\ UNCHANGED <<snap, resumed, before, regressed, reported, work, stuck, denied, submitted,
                       halt, pause, requests, sinceHalt, crashes, lost>>
    BY <1>19 DEF Start, TypeOK, worldVars, brakeVars
  <2>2. TypeOK'
    BY <2>a, <2>b, <2>c DEF TypeOK
  <2>3. (EndsWell /\ AllSaved /\ OneUnsaved /\ InStep /\ WithinLimit)'
    BY <1>0, <1>19, <2>1 DEF Start, EndsWell, AllSaved, OneUnsaved, InStep, WithinLimit, SavedSteps, TypeOK, Ends, vars, sessionVars, storeVars, worldVars, brakeVars, countVars
  <2> QED BY <2>2, <2>3
<1>20. CASE Resume
  <2>1. sess' \in Session /\ sess'.steps = snap.steps
    BY <1>0, <1>20 DEF Resume, Rehydrated, Session
  <2>2. TypeOK'
    BY <1>20, <2>1, NoSessionAssumption DEF Resume, Rehydrated, TypeOK, Ends, vars, sessionVars, storeVars, worldVars, brakeVars, countVars
  <2>3. (EndsWell /\ AllSaved /\ OneUnsaved /\ InStep /\ WithinLimit)'
    BY <1>0, <1>20, <2>1 DEF Resume, Rehydrated, EndsWell, AllSaved, OneUnsaved, InStep, WithinLimit, SavedSteps, TypeOK, Ends, vars, sessionVars, storeVars, worldVars, brakeVars, countVars
  <2> QED BY <2>2, <2>3
<1>21. CASE LogCheckpoint
  <2>1. sess' \in Session /\ sess'.steps = sess.steps
    BY <1>0, <1>21 DEF LogCheckpoint, Session, TypeOK
  <2>2. TypeOK'
    BY <1>0, <1>21, <2>1, NoSessionAssumption DEF LogCheckpoint, Larger, TypeOK, Ends, vars, sessionVars, storeVars, worldVars, brakeVars, countVars
  <2>3. (EndsWell /\ AllSaved /\ OneUnsaved /\ InStep /\ WithinLimit)'
    BY <1>0, <1>21, <2>1 DEF LogCheckpoint, EndsWell, AllSaved, OneUnsaved, InStep, WithinLimit, SavedSteps, TypeOK, Ends, vars, sessionVars, storeVars, worldVars, brakeVars, countVars
  <2> QED BY <2>2, <2>3
<1>22. CASE Ending
  <2>1. sess' \in Session /\ sess'.steps = sess.steps
    BY <1>0, <1>22 DEF Ending, EndsWell, Session, TypeOK
  <2>2. TypeOK'
    BY <1>22, <2>1, NoSessionAssumption DEF Ending, EndsWell, TypeOK, Ends, vars, sessionVars, storeVars, worldVars, brakeVars, countVars
  <2>3. (EndsWell /\ AllSaved /\ OneUnsaved /\ InStep /\ WithinLimit)'
    BY <1>0, <1>22, <2>1 DEF Ending, EndsWell, AllSaved, OneUnsaved, InStep, WithinLimit, SavedSteps, TypeOK, Ends, vars, sessionVars, storeVars, worldVars, brakeVars, countVars
  <2> QED BY <2>2, <2>3
<1>23. ASSUME NEW o \in Outcomes \cup {"idle"}, StepReturns(o)
      PROVE  SInv'
  <2>1. sess \in Session /\ snap # NoSession /\ sess.steps = snap.steps /\ sess.steps < sess.limit
    BY <1>0, <1>23 DEF StepReturns, TypeOK, InStep, WithinLimit
  <2>2. /\ Applied(sess, o) \in Session
        /\ Applied(sess, o).steps = sess.steps
    BY <2>1, AppliedType
  <2>3. sess' \in Session /\ sess'.steps = sess.steps + 1
    BY <1>23, <2>2 DEF StepReturns, Session
  <2>4. work' \in Nat
    BY <1>23 DEF StepReturns, Leaving, TypeOK
  <2>5. TypeOK'
    BY <1>23, <2>3, <2>4, NoSessionAssumption DEF StepReturns, TypeOK, Ends, vars, sessionVars, storeVars, worldVars, brakeVars, countVars
  <2>6. (EndsWell /\ AllSaved /\ OneUnsaved /\ InStep /\ WithinLimit)'
    BY <1>0, <1>23, <2>1, <2>3 DEF StepReturns, EndsWell, AllSaved, OneUnsaved, InStep, WithinLimit, SavedSteps, TypeOK, Ends, vars, sessionVars, storeVars, worldVars, brakeVars, countVars
  <2> QED BY <2>5, <2>6
<1>24. CASE UNCHANGED vars
  BY <1>24 DEF EndsWell, AllSaved, OneUnsaved, InStep, WithinLimit, SavedSteps, TypeOK, Ends, vars, sessionVars, storeVars, worldVars, brakeVars, countVars
<1> QED
  BY <1>1, <1>2, <1>3, <1>4, <1>5, <1>6, <1>7, <1>8, <1>9, <1>10, <1>11, <1>12, <1>13, <1>14, <1>15, <1>16, <1>17, <1>19, <1>20, <1>21, <1>22, <1>23, <1>24
  DEF Next, Loop, World

\* The invariant holds of every behaviour.
THEOREM SessionInvariant == Spec => []SInv
<1>1. Init => SInv
  BY InitSInv
<1>2. SInv /\ [Next]_vars => SInv'
  BY NextSInv
<1> QED BY <1>1, <1>2, PTL DEF Spec

\* Every variable of the supervisor keeps its type, for any bounds and thresholds.
THEOREM SupervisorTypes == Spec => []TypeOK
BY SessionInvariant, PTL DEF SInv

\* A session takes at most max_steps steps and one more per crash, for any bounds,
\* thresholds and numbers of sessions, pauses, resumes and crashes.
THEOREM StepsBounded == Spec => []StepBudget
<1>1. SInv => StepBudget
  <2> SUFFICES ASSUME SInv PROVE StepBudget
    OBVIOUS
  <2>1. CASE pc = "saving"
    BY <2>1, SupervisorAssumption, SessionNumbers DEF SInv, OneUnsaved, WithinLimit, StepBudget, TypeOK
  <2>2. CASE pc # "saving"
    BY <2>2, SupervisorAssumption, SessionNumbers DEF SInv, AllSaved, SavedSteps, WithinLimit, StepBudget, TypeOK
  <2> QED BY <2>1, <2>2
<1> QED BY <1>1, SessionInvariant, PTL

-----------------------------------------------------------------------------

\* What the snapshot file says of a resumed session's failures in a row.
SavedFailures == IF snap = NoSession THEN 0 ELSE snap.failures

\* The failing steps in a row are counted in the session, and but for the one not yet
\* saved in the snapshot; a crash forgets at most one. Neither count passes the limit.
FailuresCounted ==
  /\ pc # "saving" => streak <= SavedFailures + crashes
  /\ pc = "saving" => streak <= SavedFailures + crashes + 1 /\ streak <= sess.failures + crashes
  /\ sess # NoSession => sess.failures <= MaxFailures
  /\ snap # NoSession => snap.failures <= MaxFailures
  /\ pc \in {"top", "stepping", "logging"} => sess.failures = snap.failures
  /\ pc = "stepping" => sess.failures < MaxFailures

\* With these counters the watchdog lets no step through, whatever is queued.
Unfit(s) ==
  \/ s.failures >= MaxFailures
  \/ s.retries >= RetryLimit - 1
  \/ s.repairs >= RepairLimit - 1
  \/ denied

\* A session stopped for review is unfit in memory and in the snapshot, so that it is
\* when it is resumed.
StaysUnfit ==
  /\ pc \in {"top", "stepping", "logging"} => sess.retries = snap.retries /\ sess.repairs = snap.repairs
  /\ pc \in {"saving", "logging", "stepping"} => after # "failed"
  /\ pc = "ending" /\ after = "failed" => snap # NoSession /\ Unfit(snap) /\ Unfit(sess)
  /\ faulted => /\ pc # "stepping"
                /\ pc # "none" => Unfit(sess)
                /\ IF snap = NoSession THEN pc = "none" ELSE Unfit(snap)

\* A step that is begun after a request to stop would have been begun before it.
HaltSeen ==
  /\ sinceHalt <= 1
  /\ ~halt \/ pc = "stepping" => sinceHalt = 0

\* What is logged has been saved; only a later session, or one that has lost steps, logs
\* fewer than were logged before the first resume.
LoggedIsSaved ==
  /\ high <= SavedSteps
  /\ pc = "saving" => high <= sess.steps
  /\ starts = 0 => snap = NoSession /\ pc = "none" /\ before = 0
  /\ starts <= 1 => before <= high
  /\ regressed \/ reported => lost \/ starts > 1

-----------------------------------------------------------------------------
(* Failing steps in a row *)

\* How the outcome of a step counts as a failure.
LEMMA AppliedFailures ==
  ASSUME NEW s \in Session, NEW o
  PROVE  /\ o \in Failing => Applied(s, o).failures = s.failures + 1
         /\ o \in {"done", "step_done", "plan_review"} => Applied(s, o).failures = 0
         /\ o \in {"repair_inserted", "idle"} => Applied(s, o).failures = s.failures
<1>1. CASE o = "retrying"
  BY <1>1 DEF Applied, Failing, Session
<1>2. CASE o \in Failing \ {"retrying"}
  BY <1>2 DEF Applied, Failing, Session
<1>3. CASE o \in {"done", "step_done", "plan_review"}
  BY <1>3 DEF Applied, Failing, Session
<1>4. CASE o \in {"repair_inserted", "idle"}
  BY <1>4 DEF Applied, Failing, Session
<1> QED BY <1>1, <1>2, <1>3, <1>4 DEF Failing

\* The moves of the loop between its steps, and what others do meanwhile.
Moves ==
  \/ HonorHalt \/ HonorPause \/ StopOnFault \/ PauseOnConcern \/ ReachBound \/ Drained \/ TakeStep
Around ==
  \/ Brake \/ RequestStop \/ RequestPause \/ Submit \/ OtherRunner \/ PerimeterDenies
  \/ ClockRunsOut \/ UNCHANGED vars

\* Every step is one of these.
LEMMA StepCases ==
  ASSUME [Next]_vars
  PROVE  \/ Moves \/ Around \/ Resume \/ ResumeNothing \/ Crash
         \/ SaveSnapshot \/ LogCheckpoint \/ Ending
         \/ \E o \in Outcomes \cup {"idle"} : StepReturns(o)
         \/ \E limit \in StepLimits, deferred \in BOOLEAN : Start(limit, deferred)
BY DEF Next, Loop, World, Moves, Around

\* A move goes from the top to where the session ends, is saved or takes a step.
LEMMA MoveFrame ==
  ASSUME Moves
  PROVE  /\ pc = "top"
         /\ UNCHANGED <<sess, storeVars, worldVars, countVars, halt, sinceHalt>>
         /\ \/ pc' = "ending" /\ after' \in {"stopped", "paused"}
            \/ pc' = "ending" /\ after' = "failed" /\ StopForReview
            \/ pc' = "saving" /\ after' \in {"paused", "stopped", "completed"}
            \/ /\ pc' = "stepping" /\ after' = "top" /\ ~halt
               /\ \E w \in StallWindows : Healthy(w)
BY DEF Moves, HonorHalt, HonorPause, StopOnFault, PauseOnConcern, ReachBound, Drained, TakeStep,
       GoTo, AtTop, brakeVars

\* What others do leaves the session and its snapshot alone.
LEMMA AroundFrame ==
  ASSUME Around
  PROVE  /\ UNCHANGED <<pc, sess, after, snap, before, regressed, resumed, sinceHalt>>
         /\ UNCHANGED <<starts, crashes, executed, streak, high, lost, faulted>>
         /\ denied => denied'
         /\ halt => halt'
         /\ reported' => reported \/ regressed
<1>1. UNCHANGED <<pc, sess, after, snap, before, regressed, resumed, sinceHalt>>
  BY DEF Around, Brake, RequestStop, RequestPause, Submit, OtherRunner, PerimeterDenies, ClockRunsOut,
         vars, sessionVars, storeVars, worldVars, brakeVars, countVars
<1>2. UNCHANGED <<starts, crashes, executed, streak, high, lost, faulted>>
  BY DEF Around, Brake, RequestStop, RequestPause, Submit, OtherRunner, PerimeterDenies, ClockRunsOut,
         vars, sessionVars, storeVars, worldVars, brakeVars, countVars
<1>3. denied' = denied \/ denied' = TRUE
  BY DEF Around, Brake, RequestStop, RequestPause, Submit, OtherRunner, PerimeterDenies, ClockRunsOut,
         vars, sessionVars, storeVars, worldVars, brakeVars, countVars
<1>4. halt' = halt \/ halt' = TRUE
  BY DEF Around, Brake, RequestStop, RequestPause, Submit, OtherRunner, PerimeterDenies, ClockRunsOut,
         vars, sessionVars, storeVars, worldVars, brakeVars, countVars
<1>5. reported' = reported \/ reported' = (reported \/ regressed)
  BY DEF Around, Brake, RequestStop, RequestPause, Submit, OtherRunner, PerimeterDenies, ClockRunsOut,
         vars, sessionVars, storeVars, worldVars, brakeVars, countVars
<1>6. denied => denied'
  BY <1>3
<1>7. halt => halt'
  BY <1>4
<1>8. reported' => reported \/ regressed
  BY <1>5
<1> QED BY <1>1, <1>2, <1>6, <1>7, <1>8

\* Only a crash before the save makes the snapshot's count fall behind.
LEMMA FailuresStep == SInv /\ FailuresCounted /\ [Next]_vars => FailuresCounted'
<1> SUFFICES ASSUME SInv, FailuresCounted, [Next]_vars PROVE FailuresCounted'
  OBVIOUS
<1>0. /\ TypeOK /\ InStep /\ streak \in Nat /\ crashes \in Nat /\ MaxFailures \in Nat \ {0}
      /\ sess # NoSession => sess \in Session /\ sess.failures \in Nat
      /\ snap # NoSession => snap \in Session /\ snap.failures \in Nat
  BY SupervisorAssumption DEF SInv, TypeOK, Session
<1>1. CASE Moves
  <2>1. pc' = "stepping" => sess.failures < MaxFailures
    BY <1>0, <1>1, MoveFrame DEF Healthy, StopForReview, TypeOK
  <2>2. pc = "top" /\ pc' \in {"ending", "saving", "stepping"}
        /\ UNCHANGED <<sess, snap, streak, crashes>>
    BY <1>1, MoveFrame DEF storeVars, countVars
  <2>3. snap # NoSession /\ sess # NoSession /\ sess.failures = snap.failures
    BY <1>0, <2>2 DEF FailuresCounted, InStep, TypeOK
  <2> QED BY <1>0, <2>1, <2>2, <2>3 DEF FailuresCounted, SavedFailures
<1>2. CASE Around \/ ResumeNothing
  <2>1. UNCHANGED <<pc, sess, snap, streak, crashes>>
    BY <1>2, AroundFrame DEF ResumeNothing, sessionVars
  <2> QED BY <2>1 DEF FailuresCounted, SavedFailures
<1>3. CASE Resume
  <2>1. /\ snap # NoSession /\ pc = "none" /\ pc' = "top"
        /\ UNCHANGED <<snap, streak, crashes>>
        /\ sess'.failures = snap.failures
    BY <1>0, <1>3 DEF Resume, Rehydrated, countVars, Session
  <2> QED BY <1>0, <2>1 DEF FailuresCounted, SavedFailures
<1>4. CASE Crash
  <2>1. /\ pc' = "none" /\ sess' = NoSession /\ crashes' = crashes + 1
        /\ UNCHANGED <<snap, streak>>
    BY <1>4 DEF Crash, storeVars
  <2> QED BY <1>0, <2>1 DEF FailuresCounted, SavedFailures
<1>5. CASE SaveSnapshot
  <2>1. /\ pc = "saving" /\ pc' = "logging" /\ snap' = sess
        /\ UNCHANGED <<sess, streak, crashes>>
    BY <1>5 DEF SaveSnapshot, countVars
  <2>2. sess # NoSession
    BY <1>0, <2>1 DEF TypeOK
  <2> QED BY <1>0, <2>1, <2>2 DEF FailuresCounted, SavedFailures
<1>6. CASE LogCheckpoint \/ Ending
  <2>1. /\ pc \in {"logging", "ending"} /\ pc' \in {"top", "ending", "none"}
        /\ UNCHANGED <<snap, streak, crashes>>
        /\ pc = "logging" \/ pc' = "none"
    BY <1>6 DEF LogCheckpoint, Ending
  <2>2. sess # NoSession /\ sess \in Session
    BY <1>0, <2>1 DEF TypeOK
  <2>3. sess'.failures = sess.failures
    BY <1>6, <2>2 DEF LogCheckpoint, Ending, Session
  <2> QED BY <1>0, <2>1, <2>2, <2>3 DEF FailuresCounted, SavedFailures
<1>7. ASSUME NEW o \in Outcomes \cup {"idle"}, StepReturns(o)
      PROVE  FailuresCounted'
  <2>1. /\ pc = "stepping" /\ pc' = "saving" /\ UNCHANGED <<snap, crashes>>
        /\ streak' = IF o \in Failing THEN streak + 1
                     ELSE IF o \in {"idle", "repair_inserted"} THEN streak ELSE 0
    BY <1>7 DEF StepReturns, storeVars
  <2>2. sess \in Session /\ snap # NoSession /\ sess.failures = snap.failures
        /\ sess.failures < MaxFailures /\ streak <= snap.failures + crashes
    BY <1>0, <2>1 DEF TypeOK, InStep, FailuresCounted, SavedFailures
  <2>3. sess'.failures = Applied(sess, o).failures
    <3>1. Applied(sess, o) \in Session
      BY <2>2, AppliedType
    <3> QED BY <1>7, <3>1 DEF StepReturns, Session
  <2>4. o \in Failing \/ o \in {"done", "step_done", "plan_review"} \/ o \in {"repair_inserted", "idle"}
    BY DEF Outcomes, Failing
  <2>5. sess'.failures <= MaxFailures /\ sess'.failures \in Nat
        /\ streak' <= sess'.failures + crashes /\ streak' <= snap.failures + crashes + 1
    <3>1. CASE o \in Failing
      BY <1>0, <2>1, <2>2, <2>3, <3>1, AppliedFailures
    <3>2. CASE o \in {"done", "step_done", "plan_review"}
      BY <1>0, <2>1, <2>2, <2>3, <3>2, AppliedFailures DEF Failing
    <3>3. CASE o \in {"repair_inserted", "idle"}
      BY <1>0, <2>1, <2>2, <2>3, <3>3, AppliedFailures DEF Failing
    <3> QED BY <2>4, <3>1, <3>2, <3>3
  <2> QED BY <1>0, <2>1, <2>2, <2>5 DEF FailuresCounted, SavedFailures
<1>8. ASSUME NEW limit \in StepLimits, NEW deferred \in BOOLEAN, Start(limit, deferred)
      PROVE  FailuresCounted'
  <2>1. pc = "none" /\ pc' = "saving" /\ streak' = 0 /\ sess'.failures = 0 /\ UNCHANGED <<snap, crashes>>
    BY <1>8 DEF Start, FreshSession
  <2> QED BY <1>0, <2>1 DEF FailuresCounted, SavedFailures
<1> QED BY <1>1, <1>2, <1>3, <1>4, <1>5, <1>6, <1>7, <1>8, StepCases

\* At most max_consecutive_failures steps fail in a row, and one more per crash, however
\* often the session is paused and resumed, for any thresholds.
THEOREM FailuresBounded == Spec => []FailureRunBounded
<1>1. Init => FailuresCounted
  BY SupervisorAssumption DEF Init, FailuresCounted, SavedFailures
<1>2. SInv /\ FailuresCounted => FailureRunBounded
  BY SupervisorAssumption DEF SInv, TypeOK, Session, FailuresCounted, SavedFailures, FailureRunBounded
<1> QED BY <1>1, <1>2, FailuresStep, SessionInvariant, PTL DEF Spec

-----------------------------------------------------------------------------
(* A stop for review, and a request to stop *)

\* What the watchdog lets through is fit.
LEMMA HealthyIsFit ==
  ASSUME TypeOK, sess # NoSession, \E w \in StallWindows : Healthy(w)
  PROVE  ~Unfit(sess)
BY SupervisorAssumption DEF TypeOK, Session, Healthy, StopForReview, PauseFor, NearExhaustion, Unfit

\* What it stops for review is not, whatever has happened to the queue when it is resumed.
LEMMA StoppedIsUnfit ==
  ASSUME TypeOK, sess # NoSession, StopForReview
  PROVE  Unfit(sess)
BY SupervisorAssumption DEF TypeOK, Session, StopForReview, BudgetExhausted, Unfit

\* Fitness is a matter of three counters and the perimeter.
LEMMA SameCounters ==
  ASSUME NEW s, NEW t, s.failures = t.failures, s.retries = t.retries, s.repairs = t.repairs
  PROVE  Unfit(s) <=> Unfit(t)
BY DEF Unfit

\* From the stop on, what is resumed is what was stopped.
LEMMA UnfitStep == SInv /\ FailuresCounted /\ StaysUnfit /\ [Next]_vars => StaysUnfit'
<1> SUFFICES ASSUME SInv, FailuresCounted, StaysUnfit, [Next]_vars PROVE StaysUnfit'
  OBVIOUS
<1>0. /\ TypeOK /\ InStep /\ EndsWell
      /\ pc # "none" => sess # NoSession
      /\ sess # NoSession => sess \in Session
      /\ snap # NoSession => snap \in Session
  BY DEF SInv, TypeOK
<1>1. CASE Moves
  <2>1. /\ pc = "top" /\ UNCHANGED <<sess, snap, faulted, denied>>
        /\ snap # NoSession /\ sess # NoSession
        /\ sess.failures = snap.failures /\ sess.retries = snap.retries /\ sess.repairs = snap.repairs
    BY <1>0, <1>1, MoveFrame DEF storeVars, worldVars, countVars, InStep, StaysUnfit, FailuresCounted
  <2>2. /\ \A s : Unfit(s)' <=> Unfit(s)
        /\ Unfit(sess)' <=> Unfit(sess)
        /\ Unfit(snap)' <=> Unfit(sess)
    BY <2>1, SameCounters DEF Unfit
  <2>3. pc' = "stepping" => ~Unfit(sess)
    BY <1>0, <1>1, <2>1, MoveFrame, HealthyIsFit
  <2>4. after' = "failed" => pc' = "ending" /\ Unfit(sess)
    BY <1>0, <1>1, <2>1, MoveFrame, StoppedIsUnfit
  <2>5. pc' # "none"
    BY <1>1, MoveFrame
  <2> QED BY <2>1, <2>2, <2>3, <2>4, <2>5 DEF StaysUnfit
<1>2. CASE Around
  <2>1. UNCHANGED <<pc, sess, after, snap, faulted>> /\ (denied => denied')
    BY <1>2, AroundFrame
  <2>2. (Unfit(sess) => Unfit(sess)') /\ (Unfit(snap) => Unfit(snap)')
    BY <2>1 DEF Unfit
  <2> QED BY <2>1, <2>2 DEF StaysUnfit
<1>3. CASE ResumeNothing
  <2>1. pc = "none" /\ snap = NoSession /\ UNCHANGED <<pc, sess, after, snap>>
    BY <1>3 DEF ResumeNothing, sessionVars
  <2> QED BY <2>1 DEF StaysUnfit
<1>4. CASE Resume
  <2>1. /\ snap # NoSession /\ pc = "none" /\ pc' = "top" /\ UNCHANGED <<snap, denied, faulted>>
        /\ sess' = [snap EXCEPT !.state = "running"]
    BY <1>4 DEF Resume, Rehydrated, worldVars, countVars
  <2>2. sess'.failures = snap.failures /\ sess'.retries = snap.retries /\ sess'.repairs = snap.repairs
    BY <1>0, <2>1 DEF Session
  <2>3. (Unfit(sess)' <=> Unfit(snap)) /\ (Unfit(snap)' <=> Unfit(snap))
    BY <2>1, <2>2 DEF Unfit
  <2> QED BY <2>1, <2>2, <2>3 DEF StaysUnfit
<1>5. CASE Crash
  <2>1. pc' = "none" /\ UNCHANGED <<snap, denied, faulted>>
    BY <1>5 DEF Crash, storeVars
  <2>2. Unfit(snap)' <=> Unfit(snap)
    BY <2>1 DEF Unfit
  <2> QED BY <2>1, <2>2 DEF StaysUnfit
<1>6. CASE SaveSnapshot
  <2>1. pc = "saving" /\ pc' = "logging" /\ snap' = sess /\ UNCHANGED <<sess, after, denied, faulted>>
    BY <1>6 DEF SaveSnapshot, worldVars, countVars
  <2>2. (Unfit(sess)' <=> Unfit(sess)) /\ (Unfit(snap)' <=> Unfit(sess))
    BY <2>1 DEF Unfit
  <2> QED BY <1>0, <2>1, <2>2 DEF StaysUnfit
<1>7. CASE LogCheckpoint
  <2>1. /\ pc = "logging" /\ pc' \in {"top", "ending"} /\ UNCHANGED <<after, snap, denied, faulted>>
        /\ sess' = [sess EXCEPT !.state = "running"]
    BY <1>7 DEF LogCheckpoint, worldVars
  <2>2. sess'.failures = sess.failures /\ sess'.retries = sess.retries /\ sess'.repairs = sess.repairs
    BY <1>0, <2>1 DEF Session
  <2>3. (Unfit(sess)' <=> Unfit(sess)) /\ (Unfit(snap)' <=> Unfit(snap))
    BY <2>1, <2>2 DEF Unfit
  <2> QED BY <2>1, <2>2, <2>3 DEF StaysUnfit
<1>8. CASE Ending
  <2>1. /\ pc = "ending" /\ pc' = "none" /\ UNCHANGED <<after, snap, denied>>
        /\ faulted' = (faulted \/ after = "failed")
    BY <1>8 DEF Ending, worldVars
  <2>2. Unfit(snap)' <=> Unfit(snap)
    BY <2>1 DEF Unfit
  <2> QED BY <2>1, <2>2 DEF StaysUnfit
<1>9. ASSUME NEW o \in Outcomes \cup {"idle"}, StepReturns(o)
      PROVE  StaysUnfit'
  <2>1. pc = "stepping" /\ pc' = "saving" /\ UNCHANGED <<after, faulted>>
    BY <1>9 DEF StepReturns
  <2>2. ~faulted /\ after # "failed"
    BY <2>1 DEF StaysUnfit
  <2> QED BY <2>1, <2>2 DEF StaysUnfit
<1>10. ASSUME NEW limit \in StepLimits, NEW deferred \in BOOLEAN, Start(limit, deferred)
       PROVE  StaysUnfit'
  <2>1. pc' = "saving" /\ after' # "failed" /\ faulted' = FALSE
    BY <1>10 DEF Start
  <2> QED BY <2>1 DEF StaysUnfit
<1> QED BY <1>1, <1>2, <1>3, <1>4, <1>5, <1>6, <1>7, <1>8, <1>9, <1>10, StepCases

\* The request is kept until a crash, and looked at before every step.
LEMMA HaltStep == SInv /\ HaltSeen /\ [Next]_vars => HaltSeen'
<1> SUFFICES ASSUME SInv, HaltSeen, [Next]_vars PROVE HaltSeen'
  OBVIOUS
<1>0. halt \in BOOLEAN /\ sinceHalt \in Nat
  BY DEF SInv, TypeOK
<1>1. CASE Moves
  <2>1. UNCHANGED <<halt, sinceHalt>> /\ (pc' = "stepping" => ~halt)
    BY <1>1, MoveFrame
  <2> QED BY <2>1 DEF HaltSeen
<1>2. CASE Around
  <2>1. UNCHANGED <<pc, sinceHalt>> /\ (halt => halt')
    BY <1>2, AroundFrame
  <2> QED BY <2>1 DEF HaltSeen
<1>3. CASE Crash
  BY <1>3 DEF Crash, HaltSeen
<1>4. CASE Resume \/ ResumeNothing \/ SaveSnapshot \/ LogCheckpoint \/ Ending
  <2>1. UNCHANGED <<halt, sinceHalt>> /\ (pc' = "stepping" => pc = "stepping")
    BY <1>4 DEF Resume, ResumeNothing, SaveSnapshot, LogCheckpoint, Ending, brakeVars, sessionVars
  <2> QED BY <2>1 DEF HaltSeen
<1>5. ASSUME NEW o \in Outcomes \cup {"idle"}, StepReturns(o)
      PROVE  HaltSeen'
  <2>1. /\ pc = "stepping" /\ pc' = "saving" /\ UNCHANGED halt
        /\ sinceHalt' = IF halt THEN sinceHalt + 1 ELSE sinceHalt
    BY <1>5 DEF StepReturns
  <2> QED BY <1>0, <2>1 DEF HaltSeen
<1>6. ASSUME NEW limit \in StepLimits, NEW deferred \in BOOLEAN, Start(limit, deferred)
      PROVE  HaltSeen'
  <2>1. pc' = "saving" /\ UNCHANGED <<halt, sinceHalt>>
    BY <1>6 DEF Start, brakeVars
  <2> QED BY <2>1 DEF HaltSeen
<1> QED BY <1>1, <1>2, <1>3, <1>4, <1>5, <1>6, StepCases

\* A session stopped for review takes no further step however often it is resumed, even
\* if the queue has been emptied meanwhile, and one that is asked to stop finishes at
\* most the step under way, for any thresholds.
THEOREM StoppedForGood == Spec => []FaultedStaysStopped
<1>1. Init => FailuresCounted /\ StaysUnfit /\ HaltSeen
  BY SupervisorAssumption DEF Init, FailuresCounted, SavedFailures, StaysUnfit, HaltSeen
<1>2. StaysUnfit /\ HaltSeen => FaultedStaysStopped
  BY DEF StaysUnfit, HaltSeen, FaultedStaysStopped
<1> QED BY <1>1, <1>2, FailuresStep, UnfitStep, HaltStep, SessionInvariant, PTL DEF Spec

-----------------------------------------------------------------------------
(* Snapshot and journal *)

\* The snapshot is written before the line, and a resume goes on from it.
LEMMA LoggedStep == SInv /\ LoggedIsSaved /\ [Next]_vars => LoggedIsSaved'
<1> SUFFICES ASSUME SInv, LoggedIsSaved, [Next]_vars PROVE LoggedIsSaved'
  OBVIOUS
<1>0. /\ TypeOK /\ InStep /\ {high, before, starts} \subseteq Nat
      /\ {regressed, reported, lost, resumed} \subseteq BOOLEAN
      /\ pc # "none" => sess # NoSession
      /\ sess # NoSession => sess \in Session /\ sess.steps \in Nat
      /\ snap # NoSession => snap \in Session /\ snap.steps \in Nat
  BY DEF SInv, TypeOK, Session
<1>1. CASE Moves
  <2>1. /\ pc = "top" /\ pc' \in {"ending", "saving", "stepping"}
        /\ UNCHANGED <<sess, snap, high, before, starts, lost, regressed, reported>>
    BY <1>1, MoveFrame DEF storeVars, countVars
  <2>2. snap # NoSession /\ sess.steps = snap.steps
    BY <2>1, <1>0 DEF InStep
  <2> QED BY <2>1, <2>2 DEF LoggedIsSaved, SavedSteps
<1>2. CASE Around
  <2>1. /\ UNCHANGED <<pc, sess, snap, high, before, starts, lost, regressed>>
        /\ reported' => reported \/ regressed
    BY <1>2, AroundFrame
  <2> QED BY <2>1 DEF LoggedIsSaved, SavedSteps
<1>3. CASE ResumeNothing
  <2>1. UNCHANGED <<pc, sess, snap, high, before, starts, lost, regressed, reported>>
    BY <1>3 DEF ResumeNothing, sessionVars
  <2> QED BY <2>1 DEF LoggedIsSaved, SavedSteps
<1>4. CASE Resume
  <2>1. /\ snap # NoSession /\ pc' = "top"
        /\ UNCHANGED <<snap, high, before, starts, lost, regressed, reported>>
    BY <1>4 DEF Resume, countVars
  <2> QED BY <2>1 DEF LoggedIsSaved, SavedSteps
<1>5. CASE Crash
  <2>1. pc' = "none" /\ UNCHANGED <<snap, high, before, starts, lost, regressed, reported>>
    BY <1>5 DEF Crash, storeVars
  <2> QED BY <2>1 DEF LoggedIsSaved, SavedSteps
<1>6. CASE SaveSnapshot
  <2>1. /\ pc = "saving" /\ pc' = "logging" /\ snap' = sess
        /\ UNCHANGED <<high, before, starts, lost, regressed, reported>>
    BY <1>6 DEF SaveSnapshot, countVars
  <2> QED BY <1>0, <2>1 DEF LoggedIsSaved, SavedSteps
<1>7. CASE LogCheckpoint
  <2>1. /\ pc = "logging" /\ pc' \in {"top", "ending"} /\ UNCHANGED <<snap, starts, reported>>
        /\ snap # NoSession /\ sess.steps = snap.steps /\ snap.steps \in Nat
    BY <1>0, <1>7 DEF LogCheckpoint, InStep
  <2>2. /\ high' = (IF high > snap.steps THEN high ELSE snap.steps)
        /\ before' = before \/ before' = (IF before > snap.steps THEN before ELSE snap.steps)
        /\ lost' = (lost \/ snap.steps < high)
        /\ regressed' = (regressed \/ (resumed /\ snap.steps < before))
    BY <1>7, <2>1 DEF LogCheckpoint, Larger, FellBehind
  <2>3. high' <= snap.steps /\ (starts <= 1 => before' <= high')
    BY <1>0, <2>1, <2>2 DEF LoggedIsSaved, SavedSteps
  <2>4. regressed' \/ reported' => lost' \/ starts' > 1
    <3>1. CASE snap.steps < before
      BY <1>0, <2>1, <2>2, <3>1 DEF LoggedIsSaved
    <3>2. CASE ~(snap.steps < before)
      BY <1>0, <2>1, <2>2, <3>2 DEF LoggedIsSaved
    <3> QED BY <3>1, <3>2
  <2> QED BY <2>1, <2>3, <2>4 DEF LoggedIsSaved, SavedSteps
<1>8. CASE Ending
  <2>1. /\ pc = "ending" /\ pc' = "none" /\ reported' = (reported \/ regressed)
        /\ UNCHANGED <<snap, high, before, starts, lost, regressed>>
    BY <1>8 DEF Ending
  <2> QED BY <1>0, <2>1 DEF LoggedIsSaved, SavedSteps
<1>9. ASSUME NEW o \in Outcomes \cup {"idle"}, StepReturns(o)
      PROVE  LoggedIsSaved'
  <2>1. /\ pc = "stepping" /\ pc' = "saving"
        /\ UNCHANGED <<snap, high, before, starts, lost, regressed, reported>>
    BY <1>9 DEF StepReturns, storeVars
  <2>2. sess \in Session /\ snap # NoSession /\ sess.steps = snap.steps /\ snap.steps \in Nat
    BY <1>0, <2>1 DEF InStep
  <2>3. sess'.steps = sess.steps + 1
    <3>1. Applied(sess, o) \in Session /\ Applied(sess, o).steps = sess.steps
      BY <2>2, AppliedType
    <3> QED BY <1>9, <3>1 DEF StepReturns, Session
  <2> QED BY <1>0, <2>1, <2>2, <2>3 DEF LoggedIsSaved, SavedSteps
<1>10. ASSUME NEW limit \in StepLimits, NEW deferred \in BOOLEAN, Start(limit, deferred)
       PROVE  LoggedIsSaved'
  <2>1. /\ pc' = "saving" /\ high' = 0 /\ starts' = starts + 1 /\ sess'.steps = 0
        /\ UNCHANGED <<snap, before, lost, regressed, reported>>
    BY <1>10 DEF Start, FreshSession
  <2> QED BY <1>0, <2>1 DEF LoggedIsSaved, SavedSteps
<1> QED BY <1>1, <1>2, <1>3, <1>4, <1>5, <1>6, <1>7, <1>8, <1>9, <1>10, StepCases

\* What the journal says was checkpointed is in the snapshot, and duplicate work is not
\* reported of a session that was only paused, crashed and resumed, for any bounds.
THEOREM CheckpointsDurable == Spec => []CheckpointDurable
<1>1. Init => LoggedIsSaved
  BY DEF Init, LoggedIsSaved, SavedSteps
<1>2. LoggedIsSaved => CheckpointDurable
  BY DEF LoggedIsSaved, SavedSteps, CheckpointDurable
<1> QED BY <1>1, <1>2, LoggedStep, SessionInvariant, PTL DEF Spec
=============================================================================
