------------------------------ MODULE GoalProofs ------------------------------
(* What the states of subgoals say about what was really run, for any graph of    *)
(* subgoals, any budgets and any number of crashes: proofs about GoalOrchestrator.*)
EXTENDS GoalOrchestrator, WellFoundedInduction, TLAPS

Phases == {"idle", "scheduled", "running", "blocking", "cancelling", "rolling", "down"}

TypeOK ==
  /\ state \in [Goals -> States]
  /\ log \in [Goals -> States \cup {"none"}]
  /\ \A v \in Saved : snaps[v].state \in [Goals -> States]
  /\ phase \in Phases
  /\ unsaved \in BOOLEAN
  /\ {plans, achieved, cutOff} \subseteq SUBSET Goals
  /\ runs \in [Goals -> Nat]
  /\ {crashes, reruns} \subseteq Nat
  /\ phase = "down" => crashes # 0

\* The node a step is at is EXECUTING, in memory and in the journal.
AtWork == phase \in {"scheduled", "running"} => cur \in Goals /\ state[cur] = "executing"

\* A node that is not PENDING is in the journal as it is in memory; what a snapshot says
\* of a node the journal does not know is PENDING.
Journalled ==
  \A g \in Goals :
    /\ state[g] # "pending" => log[g] = state[g]
    /\ \A v \in Saved : snaps[v].state[g] # "pending" => log[g] # "none"

\* What the journal says is DONE has been achieved, or was cut off by the cap.
LogHonest == \A g \in Goals : log[g] = "done" => g \in achieved \cup cutOff

\* What has been achieved is settled, in memory and for a process to come; nothing is
\* achieved before the first snapshot.
AchievedSettled ==
  MaxReruns = 0 =>
    /\ \A g \in achieved : /\ log[g] \in {"done", "cancelled"}
                           /\ phase # "down" => state[g] \in {"done", "cancelled"}
    /\ Saved = {} => achieved = {} /\ (unsaved \/ phase = "down")

GInv == TypeOK /\ AtWork /\ Journalled /\ LogHonest /\ AchievedSettled

-----------------------------------------------------------------------------

LEMMA InitGInv == Init => GInv
<1> SUFFICES ASSUME Init PROVE GInv
  OBVIOUS
<1>1. Saved = {}
  BY DEF Init, Saved
<1>2. TypeOK
  BY <1>1 DEF Init, TypeOK, FreshStates, States, Phases
<1>3. AtWork /\ Journalled /\ LogHonest /\ AchievedSettled
  BY <1>1 DEF Init, AtWork, Journalled, LogHonest, AchievedSettled, FreshStates
<1> QED BY <1>2, <1>3 DEF GInv

\* A transition of one node, with what may be achieved and left behind after it.
LEMMA TransitionKeeps ==
  ASSUME GInv, NEW g \in Goals, NEW s \in States, Transition(g, s),
         phase # "down", phase' \in Phases \ {"down"},
         plans' \subseteq Goals,
         UNCHANGED <<runs, crashes, reruns>>,
         \/ /\ UNCHANGED <<achieved, cutOff>> /\ s # "done"
            /\ MaxReruns = 0 /\ g \in achieved => s = "cancelled"
         \/ achieved' = achieved \cup {g} /\ cutOff' = cutOff /\ s = "done"
         \/ achieved' = achieved /\ cutOff' = cutOff \cup {g} /\ s = "done"
         \/ achieved' = achieved \ {g} /\ cutOff' = cutOff \ {g} /\ s # "done",
         phase' # "running",
         phase' = "scheduled" => cur' = g /\ s = "executing"
  PROVE  GInv'
<1> USE DEF GInv
<1>1. /\ ~unsaved /\ unsaved' = TRUE /\ snaps' = snaps /\ Saved' = Saved
      /\ state' = [state EXCEPT ![g] = s] /\ log' = [log EXCEPT ![g] = s]
  BY DEF Transition, Saved
<1>2. TypeOK'
  BY <1>1 DEF TypeOK
<1>3. \A h \in Goals : /\ state'[h] = IF h = g THEN s ELSE state[h]
                       /\ log'[h] = IF h = g THEN s ELSE log[h]
  BY <1>1 DEF TypeOK
<1>4. AtWork'
  BY <1>3 DEF AtWork, TypeOK, Phases
<1>5. Journalled'
  BY <1>1, <1>3 DEF Journalled, States
<1>6. LogHonest'
  BY <1>3 DEF LogHonest
<1>8. AchievedSettled'
  BY <1>1, <1>3 DEF AchievedSettled, TypeOK
<1> QED BY <1>2, <1>4, <1>5, <1>6, <1>8

\* A step that only moves between phases where nobody is at work.
LEMMA PhaseKeeps ==
  ASSUME GInv, phase \notin {"down", "running"},
         phase' \in Phases \ {"down", "running", "scheduled"},
         UNCHANGED <<state, log, snaps, unsaved, plans, runs, crashes, reruns>>,
         \/ UNCHANGED <<achieved, cutOff>>
         \/ \E g \in Goals : /\ log[g] # "done" /\ achieved' = achieved \ {g}
                             /\ cutOff' = cutOff \ {g}
  PROVE  GInv'
<1> USE DEF GInv
<1>1. Saved' = Saved
  BY DEF Saved
<1>2. TypeOK' /\ AtWork' /\ Journalled'
  BY <1>1 DEF TypeOK, AtWork, Journalled, Phases
<1>3. LogHonest' /\ AchievedSettled'
  BY <1>1 DEF LogHonest, AchievedSettled, TypeOK
<1> QED BY <1>2, <1>3

LEMMA NextGInv == GInv /\ [Next]_vars => GInv'
<1> SUFFICES ASSUME GInv, [Next]_vars PROVE GInv'
  OBVIOUS
<1> USE DEF GInv
<1>1. CASE Save
  <2>1. /\ snaps' = [v \in Saved \cup {version} |->
                       IF v = version
                       THEN [state |-> state, attempts |-> attempts, planFile |-> planFile]
                       ELSE snaps[v]]
        /\ UNCHANGED <<state, log, plans, phase, cur, runs, achieved, cutOff, crashes, reruns>>
        /\ unsaved' = FALSE /\ phase # "down"
    BY <1>1 DEF Save, graphVars, historyVars, countVars
  <2>2. /\ Saved' = Saved \cup {version}
        /\ \A v \in Saved' : snaps'[v].state = IF v = version THEN state ELSE snaps[v].state
    BY <2>1 DEF Saved
  <2>3. TypeOK'
    BY <2>1, <2>2 DEF TypeOK
  <2>4. Journalled'
    BY <2>1, <2>2 DEF Journalled, TypeOK, States
  <2>5. AtWork' /\ LogHonest'
    BY <2>1 DEF AtWork, LogHonest
  <2>6. AchievedSettled'
    BY <2>1, <2>2 DEF AchievedSettled
  <2> QED BY <2>3, <2>4, <2>5, <2>6
<1>2. ASSUME NEW g \in Goals, Schedule(g)
      PROVE  GInv'
  <2>1. /\ phase = "idle" /\ phase' = "scheduled" /\ cur' = g /\ Transition(g, "executing")
        /\ UNCHANGED <<plans, runs, achieved, cutOff, crashes, reruns>>
    BY <1>2 DEF Schedule, historyVars, countVars
  <2>2. state[g] \in Startable
    BY <1>2 DEF Schedule, IsNextReady, Ready
  <2>3. g \in achieved => MaxReruns # 0
    BY <2>1, <2>2 DEF AchievedSettled, Startable
  <2> QED BY <2>1, <2>3, TransitionKeeps DEF TypeOK, Phases, States
<1>3. CASE AlreadySatisfied
  <2>1. /\ phase = "scheduled" /\ cur \in Goals /\ Transition(cur, "done") /\ phase' = "idle"
        /\ achieved' = achieved \cup {cur}
        /\ UNCHANGED <<plans, runs, cutOff, crashes, reruns>>
    BY <1>3 DEF AlreadySatisfied, AtWork, countVars
  <2> QED BY <2>1, TransitionKeeps DEF TypeOK, Phases, States
<1>4. ASSUME NEW wrote \in BOOLEAN, RunPlan(wrote)
      PROVE  GInv'
  <2>1. /\ phase = "scheduled" /\ phase' = "running" /\ cur \in Goals /\ state[cur] = "executing"
        /\ runs' = [runs EXCEPT ![cur] = @ + 1]
        /\ UNCHANGED <<state, log, snaps, plans, cur, unsaved, crashes, reruns, achieved, cutOff>>
    BY <1>4 DEF RunPlan, AtWork, graphVars, storeVars, countVars
  <2>2. Saved' = Saved
    BY <2>1 DEF Saved
  <2>3. TypeOK'
    BY <2>1, <2>2 DEF TypeOK, Phases
  <2>4. AtWork' /\ Journalled' /\ LogHonest'
    BY <2>1, <2>2 DEF AtWork, Journalled, LogHonest
  <2>5. AchievedSettled'
    BY <2>1, <2>2 DEF AchievedSettled
  <2> QED BY <2>3, <2>4, <2>5
<1>5. ASSUME NEW settled \in BOOLEAN, PlanNotFailed(settled)
      PROVE  GInv'
  <2>1. /\ phase = "running" /\ cur \in Goals /\ Transition(cur, "done") /\ phase' = "idle"
        /\ plans' = plans \cup {cur}
        /\ UNCHANGED <<runs, crashes, reruns>>
        /\ achieved' = IF settled THEN achieved \cup {cur} ELSE achieved
        /\ cutOff' = IF settled THEN cutOff ELSE cutOff \cup {cur}
    BY <1>5 DEF PlanNotFailed, PlanReturns, AtWork, countVars
  <2>2. settled => achieved' = achieved \cup {cur} /\ cutOff' = cutOff
    BY <2>1
  <2>3. ~settled => achieved' = achieved /\ cutOff' = cutOff \cup {cur}
    BY <2>1
  <2>4. plans' \subseteq Goals
    BY <2>1 DEF TypeOK
  <2> QED BY <2>1, <2>2, <2>3, <2>4, TransitionKeeps DEF Phases, States
<1>6. CASE PlanFailsWithRetry \/ PlanFailsForGood
  <2>1. /\ phase = "running" /\ cur \in Goals /\ state[cur] = "executing"
        /\ phase' \in {"idle", "blocking"}
        /\ \E s \in {"ready", "failed"} : Transition(cur, s)
        /\ plans' = plans \cup {cur}
        /\ UNCHANGED <<runs, achieved, cutOff, crashes, reruns>>
    BY <1>6 DEF PlanFailsWithRetry, PlanFailsForGood, PlanReturns, AtWork, countVars
  <2>2. cur \in achieved => MaxReruns # 0
    BY <2>1 DEF AchievedSettled
  <2>3. plans' \subseteq Goals
    BY <2>1 DEF TypeOK
  <2> QED BY <2>1, <2>2, <2>3, TransitionKeeps DEF Phases, States
<1>7. ASSUME NEW g \in Goals, Block(g) \/ CancelRest(g)
      PROVE  GInv'
  <2>1. /\ phase \in {"blocking", "cancelling"} /\ phase' = phase /\ state[g] \in Startable
        /\ \E s \in {"blocked", "cancelled"} : Transition(g, s)
        /\ UNCHANGED <<plans, runs, achieved, cutOff, crashes, reruns>>
    BY <1>7 DEF Block, CancelRest, ToBlock, ToCancel, historyVars, countVars
  <2>2. g \in achieved => MaxReruns # 0
    BY <2>1 DEF AchievedSettled, Startable
  <2> QED BY <2>1, <2>2, TransitionKeeps DEF TypeOK, Phases, States
<1>8. ASSUME NEW g \in Goals, Cancel(g)
      PROVE  GInv'
  <2>1. /\ phase = "idle" /\ phase' = "cancelling" /\ Transition(g, "cancelled")
        /\ UNCHANGED <<plans, runs, achieved, cutOff, crashes, reruns>>
    BY <1>8 DEF Cancel
  <2> QED BY <2>1, TransitionKeeps DEF TypeOK, Phases, States
<1>9. ASSUME NEW g \in Goals, NEW raises \in BOOLEAN, ResetNode(g, raises)
      PROVE  GInv'
  <2>1. /\ phase = "rolling" /\ phase' = phase /\ cur' = cur
        /\ achieved' = achieved \ {g}
        /\ cutOff' = cutOff \ {g}
        /\ UNCHANGED <<plans, runs, crashes, reruns>>
    BY <1>9 DEF ResetNode, countVars
  <2>2. CASE KeepsState(g)
    <3>1. UNCHANGED <<state, log, snaps, unsaved>>
      BY <1>9, <2>2 DEF ResetNode, graphVars, storeVars
    <3>2. log[g] # "done"
      BY <2>2 DEF KeepsState, Journalled
    <3> QED BY <2>1, <3>1, <3>2, PhaseKeeps DEF TypeOK, Phases
  <2>3. CASE ~KeepsState(g)
    <3>1. Transition(g, "pending")
      BY <1>9, <2>3 DEF ResetNode
    <3> QED BY <2>1, <3>1, TransitionKeeps DEF TypeOK, Phases, States
  <2> QED BY <2>2, <2>3
<1>10. CASE BlockingDone \/ CancelDone \/ RollbackDone
  <2>1. /\ phase \notin {"down", "running"} /\ phase' = "idle"
        /\ UNCHANGED <<state, log, snaps, unsaved, plans, runs, crashes, reruns, achieved, cutOff>>
    BY <1>10 DEF BlockingDone, CancelDone, RollbackDone, graphVars, storeVars, historyVars, countVars
  <2> QED BY <2>1, PhaseKeeps DEF Phases
<1>11. ASSUME NEW g \in Goals, Rollback(g)
       PROVE  GInv'
  <2>1. /\ phase = "idle" /\ phase' = "rolling"
        /\ UNCHANGED <<state, log, snaps, unsaved, plans, runs, crashes, reruns, achieved, cutOff>>
    BY <1>11 DEF Rollback, graphVars, storeVars
  <2> QED BY <2>1, PhaseKeeps DEF Phases
<1>12. CASE Crash
  <2>1. /\ phase' = "down" /\ crashes' = crashes + 1 /\ plans' = {} /\ unsaved' = FALSE
        /\ UNCHANGED <<state, log, snaps, Saved, runs, achieved, cutOff, reruns>>
    BY <1>12 DEF Crash, graphVars, storeVars, Saved
  <2>2. crashes' \in Nat /\ crashes' # 0
    BY <2>1 DEF TypeOK
  <2> QED BY <2>1, <2>2
      DEF TypeOK, Phases, AtWork, Journalled, LogHonest, AchievedSettled
<1>13. ASSUME NEW v \in Saved, Resume(v)
       PROVE  GInv'
  <2>1. /\ phase = "down" /\ phase' = "idle" /\ unsaved' = TRUE
        /\ state' = [g \in Goals |-> Replayed(v, g)]
        /\ UNCHANGED <<log, snaps, Saved, plans, runs, achieved, cutOff, crashes, reruns>>
    BY <1>13 DEF Resume, storeVars, historyVars, countVars, Saved
  <2>2. \A g \in Goals : /\ state'[g] \in States
                         /\ state'[g] = log[g] \/ (log[g] = "none" /\ state'[g] = "pending")
    BY <2>1 DEF Replayed, TypeOK, Journalled
  <2>3. TypeOK' /\ AtWork'
    BY <2>1, <2>2 DEF TypeOK, AtWork, Phases
  <2>4. Journalled' /\ LogHonest'
    BY <2>1, <2>2 DEF Journalled, LogHonest, TypeOK
  <2>5. AchievedSettled'
    BY <2>1, <2>2 DEF AchievedSettled, TypeOK
  <2> QED BY <2>3, <2>4, <2>5
<1>14. CASE Rerun
  <2>1. /\ phase' = "idle" /\ unsaved' = TRUE /\ plans' = {} /\ state' = FreshStates
        /\ UNCHANGED <<log, snaps, Saved, runs, achieved, cutOff, crashes>>
        /\ reruns' = IF phase = "down" THEN reruns ELSE reruns + 1
        /\ phase = "down" => Saved = {}
        /\ phase # "down" => reruns < MaxReruns
    BY <1>14 DEF Rerun, storeVars, Saved
  <2>2. /\ reruns' \in Nat /\ (phase # "down" => reruns' # 0 /\ MaxReruns # 0)
    BY <2>1, OrchestratorAssumption DEF TypeOK
  <2>3. TypeOK' /\ AtWork'
    BY <2>1, <2>2 DEF TypeOK, AtWork, Phases, FreshStates, States
  <2>4. Journalled' /\ LogHonest'
    BY <2>1, <2>2 DEF Journalled, LogHonest, TypeOK, FreshStates
  <2>5. AchievedSettled'
    BY <2>1, <2>2 DEF AchievedSettled
  <2> QED BY <2>3, <2>4, <2>5
<1>15. CASE UNCHANGED vars
  <2>1. UNCHANGED <<state, log, snaps, Saved, unsaved, plans, phase, cur, runs, achieved, cutOff, crashes, reruns>>
    BY <1>15 DEF vars, graphVars, storeVars, historyVars, countVars, Saved
  <2> QED BY <2>1 DEF TypeOK, AtWork, Journalled, LogHonest, AchievedSettled
<1> QED
  BY <1>1, <1>2, <1>3, <1>4, <1>5, <1>6, <1>7, <1>8, <1>9, <1>10, <1>11, <1>12, <1>13, <1>14, <1>15
  DEF Next, Step

\* What the state and the journal of subgoals say, in every behaviour.
THEOREM GoalInvariant == Spec => []GInv
BY InitGInv, NextGInv, PTL DEF Spec

\* A subgoal is DONE only when it has been achieved, or its plan was cut off by the cap,
\* for any graph and any number of crashes, reruns, cancellations and rollbacks.
THEOREM DoneIsAchieved == Spec => []DoneMeansAchieved
<1>1. GInv => DoneMeansAchieved
  BY DEF GInv, TypeOK, Journalled, LogHonest, DoneMeansAchieved
<1> QED BY <1>1, GoalInvariant, PTL

\* What is in a file whose plan is remembered, or told by a file of its own, is what the
\* plan has written once, on top of nothing; and its node has gone on from PENDING.
FilesOK == effects \subseteq Goals /\ backups \in [Goals -> {"none", "clean", "dirty"}]

Restorable ==
  \A g \in (effects \cap WritesFile) \ beyondUndo :
    /\ log[g] \notin {"none", "pending"}
    /\ backups[g] = "clean"
    /\ phase # "down" => state[g] # "pending"
    /\ phase # "down" => PlanKnown(g) \/ (phase = "running" /\ g = cur)

\* A step that leaves the files alone, and no node PENDING.
LEMMA FilesAlone ==
  ASSUME GInv, FilesOK, Restorable, UNCHANGED <<effects, backups, beyondUndo>>,
         phase # "down", plans \subseteq plans',
         \A g \in Goals :
           /\ planFile'[g] = planFile[g] \/ g \in plans'
           /\ log'[g] = log[g] \/ log'[g] \notin {"none", "pending"}
           /\ state'[g] = state[g] \/ state'[g] # "pending",
         phase = "running" => (phase' = "running" /\ cur' = cur) \/ cur \in plans'
  PROVE  FilesOK' /\ Restorable'
BY DEF FilesOK, Restorable, PlanKnown

LEMMA RestoreStep ==
  ASSUME GInv, FilesOK, Restorable, [Next]_vars
  PROVE  FilesOK' /\ Restorable'
<1>0. WritesFile \subseteq Goals
  BY OrchestratorAssumption
<1>1. CASE Save \/ BlockingDone \/ CancelDone \/ RollbackDone
  <2>1. /\ UNCHANGED <<state, planFile, log, plans, effects, backups, beyondUndo>>
        /\ phase # "down" /\ (phase = "running" => phase' = phase /\ cur' = cur)
    BY <1>1 DEF Save, BlockingDone, CancelDone, RollbackDone, graphVars, storeVars, fileVars, historyVars
  <2> QED BY <2>1, FilesAlone
<1>2. ASSUME NEW g \in Goals, Schedule(g) \/ Block(g) \/ CancelRest(g) \/ Cancel(g)
      PROVE  FilesOK' /\ Restorable'
  <2>1. /\ UNCHANGED <<planFile, plans, effects, backups, beyondUndo>>
        /\ phase \notin {"down", "running"}
        /\ \E s \in {"executing", "blocked", "cancelled"} : Transition(g, s)
    BY <1>2 DEF Schedule, Block, CancelRest, Cancel, graphVars, fileVars, historyVars
  <2>2. \A h \in Goals : /\ log'[h] = log[h] \/ log'[h] \notin {"none", "pending"}
                         /\ state'[h] = state[h] \/ state'[h] # "pending"
    BY <2>1 DEF Transition, GInv, TypeOK
  <2> QED BY <2>1, <2>2, FilesAlone
<1>3. CASE AlreadySatisfied
  <2>1. /\ UNCHANGED <<planFile, plans, effects, backups, beyondUndo>>
        /\ phase = "scheduled" /\ cur \in Goals /\ Transition(cur, "done")
    BY <1>3 DEF AlreadySatisfied, fileVars, GInv, AtWork
  <2>2. \A h \in Goals : /\ log'[h] = log[h] \/ log'[h] \notin {"none", "pending"}
                         /\ state'[h] = state[h] \/ state'[h] # "pending"
    BY <2>1 DEF Transition, GInv, TypeOK
  <2> QED BY <2>1, <2>2, FilesAlone
<1>4. ASSUME NEW wrote \in BOOLEAN, RunPlan(wrote)
      PROVE  FilesOK' /\ Restorable'
  <2>1. /\ UNCHANGED <<state, planFile, log, plans, cur>> /\ phase = "scheduled" /\ phase' = "running"
        /\ cur \in Goals /\ state[cur] = "executing" /\ log[cur] = "executing"
        /\ effects' = IF wrote THEN effects \cup {cur} ELSE effects
        /\ backups' = IF wrote THEN Written(cur) ELSE backups
        /\ beyondUndo' = IF wrote /\ cur \in effects \cap WritesFile
                         THEN beyondUndo \cup {cur} ELSE beyondUndo
    BY <1>4 DEF RunPlan, graphVars, storeVars, GInv, AtWork, Journalled
  <2>2. FilesOK'
    BY <2>1 DEF FilesOK, Written
  <2>3. ASSUME NEW g \in (effects' \cap WritesFile) \ beyondUndo'
        PROVE  /\ log'[g] \notin {"none", "pending"} /\ backups'[g] = "clean"
               /\ state'[g] # "pending" /\ (PlanKnown(g)' \/ g = cur')
    <3>1. CASE g # cur
      BY <1>0, <2>1, <2>3, <3>1 DEF FilesOK, Restorable, Written, PlanKnown
    <3>2. CASE g = cur /\ wrote
      BY <1>0, <2>1, <2>3, <3>2 DEF FilesOK, Written
    <3>3. CASE g = cur /\ ~wrote
      BY <2>1, <2>3, <3>3 DEF Restorable
    <3> QED BY <3>1, <3>2, <3>3
  <2> QED BY <2>1, <2>2, <2>3 DEF Restorable
<1>5. CASE PlanNotFailed(TRUE) \/ PlanNotFailed(FALSE) \/ PlanFailsWithRetry \/ PlanFailsForGood
  <2>1. /\ UNCHANGED <<effects, backups, beyondUndo>> /\ phase = "running" /\ cur \in Goals
        /\ plans' = plans \cup {cur} /\ \E file \in {"deleted", "kept"} : planFile' = [planFile EXCEPT ![cur] = file]
        /\ \E s \in {"done", "ready", "failed"} : Transition(cur, s)
    BY <1>5 DEF PlanNotFailed, PlanFailsWithRetry, PlanFailsForGood, PlanReturns, fileVars, GInv, AtWork
  <2>2. \A h \in Goals : /\ log'[h] = log[h] \/ log'[h] \notin {"none", "pending"}
                         /\ state'[h] = state[h] \/ state'[h] # "pending"
                         /\ planFile'[h] = planFile[h] \/ h \in plans'
    BY <2>1 DEF Transition, GInv, TypeOK
  <2> QED BY <2>1, <2>2, FilesAlone
<1>6. ASSUME NEW x \in Goals, NEW raises \in BOOLEAN, ResetNode(x, raises)
      PROVE  FilesOK' /\ Restorable'
  <2>1. /\ UNCHANGED <<planFile, plans>> /\ phase = "rolling" /\ phase' = phase
        /\ raises => CanUndo(x)
        /\ IF CanUndo(x) /\ ~raises THEN Undo(x) ELSE UNCHANGED <<effects, backups>>
        /\ beyondUndo' = IF raises THEN beyondUndo \cup {x} ELSE beyondUndo
        /\ \A h \in Goals \ {x} : state'[h] = state[h] /\ log'[h] = log[h]
    BY <1>6 DEF ResetNode, Transition, graphVars, storeVars, fileVars, GInv, TypeOK
  <2>2. FilesOK'
    BY <2>1 DEF FilesOK, Undo
  <2>3. ASSUME x \in (effects' \cap WritesFile) \ beyondUndo'
        PROVE  FALSE
    <3>1. x \in (effects \cap WritesFile) \ beyondUndo /\ ~raises
      BY <2>1, <2>3 DEF Undo
    <3>2. PlanKnown(x) /\ backups[x] = "clean"
      BY <2>1, <3>1 DEF Restorable
    <3>3. Undo(x)
      BY <2>1, <3>1, <3>2 DEF CanUndo
    <3> QED BY <2>3, <3>2, <3>3 DEF Undo
  <2>4. ASSUME NEW g \in (effects' \cap WritesFile) \ beyondUndo'
        PROVE  /\ log'[g] \notin {"none", "pending"} /\ backups'[g] = "clean"
               /\ state'[g] # "pending" /\ PlanKnown(g)'
    <3>1. g # x /\ g \in Goals
      BY <1>0, <2>3, <2>4
    <3>2. g \in (effects \cap WritesFile) \ beyondUndo /\ backups'[g] = backups[g]
      BY <2>1, <2>4, <3>1 DEF Undo, FilesOK
    <3> QED BY <2>1, <3>1, <3>2 DEF Restorable, PlanKnown
  <2> QED BY <2>2, <2>4 DEF Restorable
<1>7. ASSUME NEW g \in Goals, Rollback(g)
      PROVE  FilesOK' /\ Restorable'
  <2>1. /\ UNCHANGED <<state, planFile, log, plans, effects, backups, beyondUndo>> /\ phase = "idle"
    BY <1>7 DEF Rollback, graphVars, storeVars, fileVars
  <2> QED BY <2>1, FilesAlone
<1>8. CASE Crash
  <2>1. UNCHANGED <<log, effects, backups, beyondUndo>> /\ phase' = "down"
    BY <1>8 DEF Crash, storeVars, fileVars
  <2> QED BY <2>1 DEF FilesOK, Restorable
<1>9. ASSUME NEW v \in Saved, Resume(v)
      PROVE  FilesOK' /\ Restorable'
  <2>1. /\ UNCHANGED <<log, effects, backups>> /\ beyondUndo' = beyondUndo \cup LostToUndo(v)
        /\ state' = [g \in Goals |-> Replayed(v, g)] /\ planFile' = snaps[v].planFile
    BY <1>9 DEF Resume, storeVars, fileVars
  <2>2. \A g \in (effects \cap WritesFile) \ beyondUndo' : PlanKnown(g)' /\ g \notin beyondUndo
    BY <2>1 DEF LostToUndo, PlanKnown
  <2>3. \A g \in Goals : log[g] # "none" => state'[g] = log[g]
    BY <2>1 DEF Replayed
  <2> QED BY <1>0, <2>1, <2>2, <2>3 DEF FilesOK, Restorable
<1>10. CASE Rerun
  <2>1. UNCHANGED <<effects, backups>> /\ beyondUndo' = beyondUndo \cup (effects \cap WritesFile)
    BY <1>10 DEF Rerun, fileVars
  <2> QED BY <2>1 DEF FilesOK, Restorable
<1>11. CASE UNCHANGED vars
  BY <1>11 DEF vars, graphVars, storeVars, fileVars, historyVars, FilesOK, Restorable, PlanKnown
<1> QED
  BY <1>1, <1>2, <1>3, <1>4, <1>5, <1>6, <1>7, <1>8, <1>9, <1>10, <1>11 DEF Next, Step

\* A node that is PENDING again has left nothing behind in the file its plan wrote, for
\* any graph, any crashes and any rollbacks; excepted are files written twice, undos that
\* raised, and plans a restart knows nothing of.
THEOREM RollbackIsClean == Spec => []RollbackRestores
<1>1. Init => FilesOK /\ Restorable
  BY DEF Init, FilesOK, Restorable
<1>2. GInv /\ FilesOK /\ Restorable /\ [Next]_vars => FilesOK' /\ Restorable'
  BY RestoreStep
<1>3. Restorable => RollbackRestores
  BY DEF Restorable, RollbackRestores
<1> QED BY <1>1, <1>2, <1>3, GoalInvariant, PTL DEF Spec

\* What has been achieved is not run again in any number of crashes, cancellations and
\* rollbacks, as long as the goal is not decomposed a second time.
THEOREM AchievedStaysDone ==
  ASSUME MaxReruns = 0
  PROVE  Spec => CompletedNeverRerun
<1>1. ASSUME GInv, [Next]_vars
      PROVE  [\A g \in achieved : runs'[g] = runs[g]]_vars
  <2> SUFFICES ASSUME NEW g \in achieved, Next
               PROVE  runs'[g] = runs[g]
    BY <1>1
  <2>1. CASE RunPlan(TRUE) \/ RunPlan(FALSE)
    <3>1. cur \in Goals /\ cur \notin achieved /\ runs' = [runs EXCEPT ![cur] = @ + 1]
      BY <1>1, <2>1 DEF RunPlan, GInv, AtWork, AchievedSettled
    <3> QED BY <1>1, <3>1 DEF GInv, TypeOK
  <2>2. CASE ~(RunPlan(TRUE) \/ RunPlan(FALSE))
    <3>1. runs' = runs
      BY <2>2
      DEF Next, Step, Save, AlreadySatisfied, PlanNotFailed, PlanFailsWithRetry, PlanFailsForGood,
          PlanReturns, BlockingDone, CancelDone, RollbackDone, Schedule, Block, CancelRest,
          ResetNode, Resume, Crash, Rerun, Cancel, Rollback, historyVars, countVars
    <3> QED BY <3>1
  <2> QED BY <2>1, <2>2
<1> QED BY <1>1, GoalInvariant, PTL DEF Spec, CompletedNeverRerun

\* What the subgoal a step is at waits for is DONE until its plan has been run.
WaitsForDone == phase \in {"scheduled", "running"} => \A d \in DependsOn[cur] : state[d] = "done"

\* Commands come only between steps.
LEMMA WaitStep == GInv /\ WaitsForDone /\ [Next]_vars => WaitsForDone'
<1> SUFFICES ASSUME GInv, WaitsForDone, [Next]_vars, phase' \in {"scheduled", "running"}
             PROVE  \A d \in DependsOn[cur'] : state'[d] = "done"
  BY DEF WaitsForDone
<1>1. CASE Save \/ RunPlan(TRUE) \/ RunPlan(FALSE) \/ UNCHANGED vars
  <2>1. /\ UNCHANGED <<state, cur>>
        /\ phase \in {"scheduled", "running"}
    BY <1>1 DEF Save, RunPlan, vars, graphVars
  <2> QED BY <2>1 DEF WaitsForDone
<1>2. ASSUME NEW g \in Goals, Schedule(g)
      PROVE  \A d \in DependsOn[cur'] : state'[d] = "done"
  <2>1. /\ cur' = g /\ state' = [state EXCEPT ![g] = "executing"]
        /\ state[g] \in Startable /\ \A d \in DependsOn[g] : state[d] = "done"
    BY <1>2 DEF Schedule, IsNextReady, Ready, Transition
  <2>2. DependsOn[g] \subseteq Goals /\ g \notin DependsOn[g]
    BY <2>1, OrchestratorAssumption DEF Startable
  <2> QED BY <2>1, <2>2 DEF GInv, TypeOK
<1>3. ASSUME NEW g \in Goals, NEW raises \in BOOLEAN,
             Cancel(g) \/ Rollback(g) \/ Block(g) \/ CancelRest(g) \/ ResetNode(g, raises)
      PROVE  phase' \notin {"scheduled", "running"}
  BY <1>3 DEF Cancel, Rollback, Block, CancelRest, ResetNode
<1>4. ASSUME \/ AlreadySatisfied \/ PlanNotFailed(TRUE) \/ PlanNotFailed(FALSE)
             \/ PlanFailsWithRetry \/ PlanFailsForGood \/ BlockingDone \/ CancelDone
             \/ RollbackDone \/ Crash \/ Rerun \/ \E v \in Saved : Resume(v)
      PROVE  phase' \notin {"scheduled", "running"}
  BY <1>4 DEF AlreadySatisfied, PlanNotFailed, PlanFailsWithRetry, PlanFailsForGood, BlockingDone,
       CancelDone, RollbackDone, Crash, Rerun, Resume
<1> QED BY <1>1, <1>2, <1>3, <1>4 DEF Next, Step

\* A plan is run only when everything its subgoal waits for has been achieved, or was cut
\* off, and has not been rolled back since, in this process or an earlier one.
THEOREM RunsAfterDependencies ==
  Spec => [](phase = "running" => DependsOn[cur] \subseteq achieved \cup cutOff)
<1>1. Init => WaitsForDone
  BY DEF Init, WaitsForDone
<1>2. GInv /\ WaitsForDone => (phase = "running" => DependsOn[cur] \subseteq achieved \cup cutOff)
  <2> SUFFICES ASSUME GInv, WaitsForDone, phase = "running", NEW d \in DependsOn[cur]
               PROVE  d \in achieved \cup cutOff
    OBVIOUS
  <2>1. d \in Goals /\ state[d] = "done"
    BY OrchestratorAssumption DEF WaitsForDone, GInv, AtWork
  <2> QED BY <2>1 DEF GInv, Journalled, LogHonest
<1> QED BY <1>1, <1>2, WaitStep, GoalInvariant, PTL DEF Spec

-----------------------------------------------------------------------------
(* A failure stays in its branch. *)

\* Among subgoals there is one of least rank.
LEMMA LeastRank ==
  ASSUME NEW S \in SUBSET Goals, S # {}
  PROVE  \E g \in S : \A h \in S : Rank[g] <= Rank[h]
<1> DEFINE R == {Rank[g] : g \in S}
<1>1. R \subseteq Nat /\ R # {}
  BY OrchestratorAssumption
<1>2. PICK r \in R : \A q \in R : <<q, r>> \notin OpToRel(<, Nat)
  <2> HIDE DEF R
  <2> QED BY <1>1, NatLessThanWellFounded, WFMin
<1>3. PICK g \in S : r = Rank[g]
  OBVIOUS
<1>4. ASSUME NEW h \in S
      PROVE  Rank[g] <= Rank[h]
  <2>1. Rank[h] \in Nat /\ Rank[g] \in Nat
    BY OrchestratorAssumption
  <2>2. ~(Rank[h] < Rank[g])
    BY <1>2, <1>3, <2>1 DEF OpToRel
  <2> QED BY <2>1, <2>2
<1> QED BY <1>4

\* A subgoal and its descendants are all that waits for one of them.
LEMMA Waits ==
  ASSUME NEW h \in Goals, NEW d \in {h} \cup Descendants(h), NEW g \in Goals,
         d \in DependsOn[g]
  PROVE  g \in {h} \cup Descendants(h)
<1> SUFFICES ASSUME g # h, NEW S \in SUBSET Goals, h \in S,
                    \A k \in Goals : DependsOn[k] \cap S # {} => k \in S
             PROVE  g \in S
  BY DEF Descendants
<1>1. d \in S
  BY DEF Descendants
<1> QED BY <1>1

Stopped == {"failed", "blocked", "cancelled"}

\* As long as no process has stopped, a BLOCKED node waits for a stopped one, until a
\* rollback that has reached it resets it; a rollback resets whole branches.
BlockedBelow ==
  crashes = 0 =>
    /\ \A g \in Goals : state[g] = "blocked" =>
         g \in rolling \/ \E d \in DependsOn[g] : state[d] \in Stopped
    /\ \A g \in Goals : state[g] = "blocked" /\ DependsOn[g] \cap rolling # {} => g \in rolling
    /\ phase # "rolling" => rolling = {}

LEMMA ContainStep == GInv /\ BlockedBelow /\ [Next]_vars => BlockedBelow'
<1> SUFFICES ASSUME GInv, BlockedBelow, [Next]_vars, crashes' = 0
             PROVE  BlockedBelow'
  BY DEF BlockedBelow
<1>0. /\ state \in [Goals -> States] /\ \A g \in Goals : DependsOn[g] \subseteq Goals
      /\ phase \in {"scheduled", "running"} => cur \in Goals /\ state[cur] = "executing"
  BY OrchestratorAssumption DEF GInv, TypeOK, AtWork
<1>1. ASSUME crashes = 0
      PROVE  /\ \A g \in Goals : state[g] = "blocked" =>
                  g \in rolling \/ \E d \in DependsOn[g] : state[d] \in Stopped
             /\ \A g \in Goals : state[g] = "blocked" /\ DependsOn[g] \cap rolling # {} => g \in rolling
             /\ phase # "rolling" => rolling = {}
  BY <1>1 DEF BlockedBelow
\* No node is blocked that was not, and none stopped goes on.
<1>2. ASSUME crashes' = crashes, rolling' = rolling, phase' # "rolling" => phase # "rolling",
             NEW x \in Goals, NEW s \in States, state' = [state EXCEPT ![x] = s],
             state[x] \in Stopped => s \in Stopped,
             s = "blocked" => /\ phase # "rolling"
                              /\ \E d \in DependsOn[x] : state[d] \in Stopped
      PROVE  BlockedBelow'
  <2>1. \A g \in Goals : state'[g] = IF g = x THEN s ELSE state[g]
    BY <1>0, <1>2
  <2>2. \A g \in Goals : state[g] \in Stopped => state'[g] \in Stopped
    BY <1>2, <2>1
  <2>3. \A g \in Goals : state'[g] = "blocked" =>
          g \in rolling \/ \E d \in DependsOn[g] : state[d] \in Stopped
    BY <1>1, <1>2, <2>1
  <2>4. \A g \in Goals : state'[g] = "blocked" =>
          g \in rolling \/ \E d \in DependsOn[g] : state'[d] \in Stopped
    BY <1>0, <2>2, <2>3
  <2>5. \A g \in Goals : state'[g] = "blocked" /\ DependsOn[g] \cap rolling # {} => g \in rolling
    BY <1>1, <1>2, <2>1
  <2> QED BY <1>1, <1>2, <2>4, <2>5 DEF BlockedBelow
<1>3. ASSUME UNCHANGED <<state, rolling, crashes>>, phase' # "rolling" => phase # "rolling"
      PROVE  BlockedBelow'
  BY <1>1, <1>3 DEF BlockedBelow
<1>4. CASE Save \/ RunPlan(TRUE) \/ RunPlan(FALSE) \/ UNCHANGED vars
  BY <1>3, <1>4 DEF Save, RunPlan, vars, graphVars, historyVars, countVars
<1>5. CASE BlockingDone \/ CancelDone
  BY <1>3, <1>5 DEF BlockingDone, CancelDone, graphVars, historyVars, countVars
<1>6. ASSUME NEW g \in Goals, Schedule(g)
      PROVE  BlockedBelow'
  <2>1. /\ phase = "idle" /\ state[g] \in Startable
        /\ state' = [state EXCEPT ![g] = "executing"] /\ UNCHANGED <<crashes, rolling>>
    BY <1>6 DEF Schedule, IsNextReady, Ready, Transition, historyVars, countVars
  <2> QED BY <1>2, <2>1 DEF States, Startable, Stopped
<1>7. CASE AlreadySatisfied \/ PlanNotFailed(TRUE) \/ PlanNotFailed(FALSE)
           \/ PlanFailsWithRetry \/ PlanFailsForGood
  <2>1. /\ phase \in {"scheduled", "running"} /\ UNCHANGED <<crashes, rolling>>
        /\ \E s \in {"done", "ready", "failed"} : state' = [state EXCEPT ![cur] = s]
    BY <1>7 DEF AlreadySatisfied, PlanNotFailed, PlanFailsWithRetry, PlanFailsForGood,
         PlanReturns, Transition, countVars
  <2> QED BY <1>0, <1>2, <2>1 DEF States, Stopped
<1>8. ASSUME NEW g \in Goals, Block(g)
      PROVE  BlockedBelow'
  <2>1. /\ phase = "blocking" /\ \E d \in DependsOn[g] : state[d] \in Stopped
        /\ phase' = phase /\ state' = [state EXCEPT ![g] = "blocked"] /\ UNCHANGED <<crashes, rolling>>
    BY <1>8 DEF Block, ToBlock, Transition, historyVars, countVars, Stopped
  <2> QED BY <1>2, <2>1 DEF States, Stopped
<1>9. ASSUME NEW g \in Goals, Cancel(g) \/ CancelRest(g)
      PROVE  BlockedBelow'
  <2>1. /\ phase \in {"idle", "cancelling"}
        /\ state' = [state EXCEPT ![g] = "cancelled"] /\ UNCHANGED <<crashes, rolling>>
    BY <1>9 DEF Cancel, CancelRest, Transition, historyVars, countVars
  <2> QED BY <1>2, <2>1 DEF States, Stopped
<1>10. ASSUME NEW g \in Goals, Rollback(g)
       PROVE  BlockedBelow'
  <2>1. /\ phase = "idle" /\ phase' = "rolling" /\ UNCHANGED <<state, crashes>>
        /\ rolling' = {g} \cup Descendants(g)
    BY <1>10 DEF Rollback, graphVars
  <2>2. \A h \in Goals : DependsOn[h] \cap rolling' # {} => h \in rolling'
    BY <2>1, Waits
  <2> QED BY <1>1, <2>1, <2>2 DEF BlockedBelow
<1>11. ASSUME NEW g \in Goals, NEW raises \in BOOLEAN, ResetNode(g, raises)
       PROVE  BlockedBelow'
  <2>1. /\ phase = "rolling" /\ phase' = phase /\ crashes' = crashes /\ g \in rolling
        /\ rolling' = rolling \ {g}
        /\ \/ state[g] = "cancelled" /\ state' = state
           \/ state' = [state EXCEPT ![g] = "pending"]
    BY <1>11 DEF ResetNode, KeepsState, Transition, graphVars, countVars
  <2>2. state'[g] # "blocked" /\ \A h \in Goals \ {g} : state'[h] = state[h]
    BY <1>0, <2>1
  <2>3. ASSUME NEW h \in Goals, state'[h] = "blocked"
        PROVE  /\ h \in rolling' \/ \E d \in DependsOn[h] : state'[d] \in Stopped
               /\ DependsOn[h] \cap rolling' # {} => h \in rolling'
    <3>1. h # g /\ state[h] = "blocked"
      BY <2>2, <2>3
    <3>2. CASE g \in DependsOn[h]
      BY <1>1, <2>1, <3>1, <3>2
    <3>3. CASE g \notin DependsOn[h]
      <4>1. \A d \in DependsOn[h] : state'[d] = state[d]
        BY <1>0, <2>2, <3>3
      <4> QED BY <1>1, <2>1, <3>1, <4>1
    <3> QED BY <3>2, <3>3
  <2> QED BY <2>1, <2>3 DEF BlockedBelow
<1>12. CASE RollbackDone
  BY <1>1, <1>12 DEF RollbackDone, graphVars, historyVars, countVars, BlockedBelow
<1>13. CASE Crash \/ \E v \in Saved : Resume(v)
  <2>1. crashes' # 0
    BY <1>13 DEF Crash, Resume, historyVars, countVars, GInv, TypeOK
  <2> QED BY <2>1
<1>14. CASE Rerun
  <2>1. /\ state' = FreshStates /\ phase' = "idle" /\ UNCHANGED <<crashes, rolling>>
        /\ phase \in {"idle", "down"}
    BY <1>14 DEF Rerun
  <2> QED BY <1>1, <2>1 DEF BlockedBelow, FreshStates
<1> QED
  BY <1>4, <1>5, <1>6, <1>7, <1>8, <1>9, <1>10, <1>11, <1>12, <1>13, <1>14 DEF Next, Step

\* Between steps a node is BLOCKED only below a failed or a cancelled one, in any graph,
\* after any retries, cancellations and rollbacks.
THEOREM FailureStaysBelow == Spec => []FailureContained
<1>1. Init => BlockedBelow
  BY DEF Init, BlockedBelow, FreshStates
<1>2. GInv /\ BlockedBelow => FailureContained
  <2> DEFINE Ends(g) == \E h \in Goals : g \in Descendants(h) /\ state[h] \in {"failed", "cancelled"}
             Loose == {g \in Goals : state[g] = "blocked" /\ ~Ends(g)}
  <2> SUFFICES ASSUME GInv, BlockedBelow, crashes = 0, phase = "idle", Loose # {}
               PROVE  FALSE
    BY DEF FailureContained
  <2>1. PICK g \in Loose : \A h \in Loose : Rank[g] <= Rank[h]
    <3> Loose \in SUBSET Goals
      OBVIOUS
    <3> HIDE DEF Loose
    <3> QED BY LeastRank
  <2>2. PICK d \in DependsOn[g] : state[d] \in Stopped
    BY <2>1 DEF BlockedBelow
  <2>3. d \in Goals /\ g \in Goals /\ Rank[d] < Rank[g] /\ Rank[d] \in Nat /\ Rank[g] \in Nat
    BY <2>1, <2>2, OrchestratorAssumption
  <2>4. CASE state[d] \in {"failed", "cancelled"}
    <3>1. g \in {d} \cup Descendants(d)
      BY <2>2, <2>3, Waits
    <3> QED BY <2>1, <2>3, <2>4, <3>1
  <2>5. CASE state[d] = "blocked"
    <3>1. d \notin Loose
      BY <2>1, <2>3
    <3>2. PICK h \in Goals : d \in Descendants(h) /\ state[h] \in {"failed", "cancelled"}
      BY <2>3, <2>5, <3>1
    <3>3. g \in {h} \cup Descendants(h)
      BY <2>2, <2>3, <3>2, Waits
    <3> QED BY <2>1, <3>2, <3>3
  <2> QED BY <2>2, <2>4, <2>5 DEF Stopped
<1> QED BY <1>1, <1>2, ContainStep, GoalInvariant, PTL DEF Spec

-----------------------------------------------------------------------------
(* Nobody waits for what can no longer become DONE. *)

\* Only the node a step is at is EXECUTING; what has not started waits for nothing that
\* stopped, unless the propagation of a failure is under way.
NoneToBlock ==
  /\ \A g \in Goals : state[g] = "executing" => phase \in {"scheduled", "running"} /\ g = cur
  /\ phase # "blocking" => ToBlock = {}

\* Without crashes and commands.
Undisturbed == crashes = 0 /\ commands = 0

LEMMA UnblockedStep ==
  ASSUME MaxCrashes = 0, MaxCommands = 0,
         GInv, WaitsForDone, Undisturbed, NoneToBlock, [Next]_vars,
         phase \notin {"cancelling", "rolling"}
  PROVE  Undisturbed' /\ NoneToBlock' /\ phase' \notin {"cancelling", "rolling"}
<1>0. /\ state \in [Goals -> States] /\ \A g \in Goals : DependsOn[g] \subseteq Goals
      /\ phase \in {"scheduled", "running"} => cur \in Goals /\ state[cur] = "executing"
      /\ phase # "down"
  BY OrchestratorAssumption DEF GInv, TypeOK, AtWork, Undisturbed
<1>1. /\ \A g \in Goals : state[g] = "executing" => phase \in {"scheduled", "running"} /\ g = cur
      /\ phase # "blocking" => \A g \in Goals : state[g] \in Startable =>
           \A d \in DependsOn[g] : state[d] \notin Stopped
  BY DEF NoneToBlock, ToBlock, Stopped
<1>2. SUFFICES /\ Undisturbed' /\ phase' \notin {"cancelling", "rolling"}
               /\ \A g \in Goals : state'[g] = "executing" => phase' \in {"scheduled", "running"} /\ g = cur'
               /\ phase' # "blocking" => \A g \in Goals : state'[g] \in Startable =>
                    \A d \in DependsOn[g] : state'[d] \notin Stopped
  BY DEF NoneToBlock, ToBlock, Stopped
<1>3. CASE Save \/ UNCHANGED vars
  BY <1>1, <1>3 DEF Save, vars, graphVars, historyVars, countVars, Undisturbed
<1>4. CASE RunPlan(TRUE) \/ RunPlan(FALSE)
  BY <1>1, <1>4 DEF RunPlan, graphVars, countVars, Undisturbed
<1>5. ASSUME NEW g \in Goals, Schedule(g)
      PROVE  /\ Undisturbed' /\ phase' = "scheduled"
             /\ \A h \in Goals : state'[h] = "executing" => h = cur'
             /\ \A h \in Goals : state'[h] \in Startable =>
                  \A d \in DependsOn[h] : state'[d] \notin Stopped
  <2>1. /\ phase = "idle" /\ phase' = "scheduled" /\ cur' = g
        /\ state' = [state EXCEPT ![g] = "executing"] /\ UNCHANGED <<crashes, commands>>
    BY <1>5 DEF Schedule, Transition, historyVars, countVars
  <2>2. \A h \in Goals : state'[h] = IF h = g THEN "executing" ELSE state[h]
    BY <1>0, <2>1
  <2> QED BY <1>0, <1>1, <2>1, <2>2 DEF Undisturbed, Startable, Stopped
\* The step of the node at work ends.
<1>6. ASSUME NEW s \in {"done", "ready", "failed"}, state' = [state EXCEPT ![cur] = s],
             phase \in {"scheduled", "running"}, UNCHANGED <<crashes, commands>>,
             phase' = IF s = "failed" THEN "blocking" ELSE "idle"
      PROVE  /\ Undisturbed' /\ phase' \notin {"cancelling", "rolling"}
             /\ \A g \in Goals : state'[g] = "executing" => phase' \in {"scheduled", "running"} /\ g = cur'
             /\ phase' # "blocking" => \A g \in Goals : state'[g] \in Startable =>
                  \A d \in DependsOn[g] : state'[d] \notin Stopped
  <2>1. \A h \in Goals : state'[h] = IF h = cur THEN s ELSE state[h]
    BY <1>0, <1>6
  <2>2. \A d \in DependsOn[cur] : state[d] = "done"
    BY <1>6 DEF WaitsForDone
  <2> QED BY <1>0, <1>1, <1>6, <2>1, <2>2 DEF Undisturbed, Startable, Stopped
<1>7. CASE AlreadySatisfied \/ PlanNotFailed(TRUE) \/ PlanNotFailed(FALSE)
  <2>1. /\ state' = [state EXCEPT ![cur] = "done"] /\ phase \in {"scheduled", "running"}
        /\ UNCHANGED <<crashes, commands>> /\ phase' = "idle"
    BY <1>7 DEF AlreadySatisfied, PlanNotFailed, PlanReturns, Transition, countVars
  <2> QED BY <1>6, <2>1
<1>8. CASE PlanFailsWithRetry
  <2>1. /\ state' = [state EXCEPT ![cur] = "ready"] /\ phase \in {"scheduled", "running"}
        /\ UNCHANGED <<crashes, commands>> /\ phase' = "idle"
    BY <1>8 DEF PlanFailsWithRetry, PlanReturns, Transition, countVars
  <2> QED BY <1>6, <2>1
<1>9. CASE PlanFailsForGood
  <2>1. /\ state' = [state EXCEPT ![cur] = "failed"] /\ phase \in {"scheduled", "running"}
        /\ UNCHANGED <<crashes, commands>> /\ phase' = "blocking"
    BY <1>9 DEF PlanFailsForGood, PlanReturns, Transition, countVars
  <2> QED BY <1>6, <2>1
<1>10. ASSUME NEW g \in Goals, Block(g)
       PROVE  /\ Undisturbed' /\ phase' = "blocking"
              /\ \A h \in Goals : state'[h] # "executing"
  <2>1. /\ phase = "blocking" /\ phase' = phase
        /\ state' = [state EXCEPT ![g] = "blocked"] /\ UNCHANGED <<crashes, commands>>
    BY <1>10 DEF Block, Transition, historyVars, countVars
  <2>2. \A h \in Goals : state'[h] = IF h = g THEN "blocked" ELSE state[h]
    BY <1>0, <2>1
  <2> QED BY <1>1, <2>1, <2>2 DEF Undisturbed
<1>11. CASE BlockingDone
  <2>1. /\ phase = "blocking" /\ phase' = "idle" /\ ToBlock = {} /\ UNCHANGED <<state, crashes, commands>>
    BY <1>11 DEF BlockingDone, graphVars, historyVars, countVars
  <2> QED BY <1>1, <2>1 DEF Undisturbed, ToBlock, Stopped
<1>12. CASE Rerun
  BY <1>0, <1>12 DEF Rerun, FreshStates, Undisturbed, Startable, Stopped
<1>13. ~Crash /\ \A g \in Goals : ~Cancel(g) /\ ~Rollback(g)
  BY DEF Crash, Cancel, Rollback, Undisturbed
<1>14. /\ ~CancelDone /\ ~RollbackDone
       /\ \A g \in Goals, raises \in BOOLEAN : ~CancelRest(g) /\ ~ResetNode(g, raises)
       /\ \A v \in Saved : ~Resume(v)
  BY <1>0 DEF CancelDone, RollbackDone, CancelRest, ResetNode, Resume
<1> QED
  BY <1>3, <1>4, <1>5, <1>7, <1>8, <1>9, <1>10, <1>11, <1>12, <1>13, <1>14 DEF Next, Step

\* When nothing is ready between steps, every node is settled, for any graph and any
\* number of decompositions, as long as nobody cancels or rolls back and no process stops.
THEOREM EveryoneSettles ==
  ASSUME MaxCrashes = 0, MaxCommands = 0
  PROVE  Spec => []NothingStranded
<1> DEFINE UInv == Undisturbed /\ NoneToBlock /\ phase \notin {"cancelling", "rolling"}
<1>1. Init => WaitsForDone /\ UInv
  BY OrchestratorAssumption
  DEF Init, WaitsForDone, Undisturbed, NoneToBlock, ToBlock, FreshStates
<1>2. GInv /\ WaitsForDone /\ UInv /\ [Next]_vars => UInv'
  BY UnblockedStep
<1>3. GInv /\ UInv => NothingStranded
  <2> DEFINE Left == {g \in Goals : state[g] \notin Terminal}
  <2> SUFFICES ASSUME GInv, UInv, phase = "idle", Ready = {}, Left # {}
               PROVE  FALSE
    BY DEF NothingStranded
  <2>1. PICK g \in Left : \A h \in Left : Rank[g] <= Rank[h]
    <3> Left \in SUBSET Goals
      OBVIOUS
    <3> HIDE DEF Left
    <3> QED BY LeastRank
  <2>2. state[g] \in Startable
    BY <2>1 DEF GInv, TypeOK, States, Terminal, Startable, NoneToBlock
  <2>3. ASSUME NEW d \in DependsOn[g]
        PROVE  state[d] = "done"
    <3>1. d \in Goals /\ Rank[d] < Rank[g] /\ Rank[d] \in Nat /\ Rank[g] \in Nat
      BY <2>1, OrchestratorAssumption
    <3>2. d \notin Left
      BY <2>1, <3>1
    <3>3. state[d] \notin {"failed", "blocked", "cancelled"}
      BY <2>1, <2>2 DEF NoneToBlock, ToBlock
    <3> QED BY <3>1, <3>2, <3>3 DEF Terminal
  <2> QED BY <2>1, <2>2, <2>3 DEF Ready
<1> HIDE DEF UInv
<1> QED BY <1>1, <1>2, <1>3, WaitStep, GoalInvariant, PTL DEF Spec

-----------------------------------------------------------------------------
(* How often a plan is run. *)

\* As long as there are less than ten snapshots, of one graph, the one that is loaded is
\* the latest.
Early == reruns = 0 /\ Saved \subseteq 1 .. 9

Latest(v) == v \in Saved /\ Saved \subseteq 1 .. v

InProgress == {"pending", "ready", "executing"}

AttemptsOK ==
  /\ version \in 1 .. MaxVersion
  /\ commands \in Nat
  /\ attempts \in [Goals -> Nat]
  /\ \A v \in Saved : snaps[v].attempts \in [Goals -> Nat]
  /\ Saved \subseteq 1 .. version
  /\ ~unsaved /\ phase # "down" => version \in Saved /\ snaps[version].attempts = attempts

\* What is in progress, or rolled back, has attempts left or has been given one by a
\* command; a snapshot never has more than memory.
AttemptsBounded ==
  /\ \A g \in Goals :
       /\ attempts[g] <= RetryBudget[g] + 1 + commands
       /\ state[g] \in InProgress \/ phase = "rolling" => attempts[g] <= RetryBudget[g] + commands
  /\ \A v \in Saved : Latest(v) => \A g \in Goals : snaps[v].attempts[g] <= attempts[g]

\* Every run is an attempt in memory, or one under way, or lost in a crash; and one in the
\* snapshot that would be loaded, or the one not yet saved.
RunsCounted ==
  /\ phase # "down" => \A g \in Goals :
       runs[g] <= attempts[g] + crashes + (IF phase = "running" /\ cur = g THEN 1 ELSE 0)
  /\ \A v \in Saved : Latest(v) => \A g \in Goals :
       runs[g] <= snaps[v].attempts[g] + crashes + (IF phase = "down" THEN 0 ELSE 1)
  /\ Saved = {} => \A g \in Goals : runs[g] = 0

RunsBounded == \A g \in Goals : runs[g] <= RetryBudget[g] + 1 + crashes + commands

RInv == AttemptsOK /\ AttemptsBounded /\ RunsCounted /\ RunsBounded

\* The types the arithmetic below is about.
LEMMA RunNumbers ==
  ASSUME GInv, AttemptsOK
  PROVE  /\ crashes \in Nat /\ commands \in Nat
         /\ \A g \in Goals : runs[g] \in Nat /\ attempts[g] \in Nat /\ RetryBudget[g] \in Nat
         /\ \A v \in Saved : v \in Nat /\ \A g \in Goals : snaps[v].attempts[g] \in Nat
BY OrchestratorAssumption DEF GInv, TypeOK, AttemptsOK

\* A transition of node x that counts k attempts more for it.
LEMMA CountedTransition ==
  ASSUME GInv, RInv, NEW x \in Goals, NEW s \in States, Transition(x, s),
         phase \notin {"down", "running"}, phase' \notin {"down", "running"},
         UNCHANGED <<attempts, runs, crashes, reruns>>,
         commands' \in Nat, commands <= commands',
         s \in InProgress => state[x] \in InProgress \/ phase = "rolling",
         phase' = "rolling" => phase = "rolling"
  PROVE  RInv'
<1>1. /\ ~unsaved /\ version < MaxVersion /\ version' = version + 1 /\ unsaved' = TRUE
      /\ snaps' = snaps /\ Saved' = Saved /\ state' = [state EXCEPT ![x] = s]
  BY DEF Transition, Saved
<1>2. AttemptsOK'
  BY <1>1, OrchestratorAssumption DEF RInv, AttemptsOK
<1>3. \A g \in Goals : state'[g] = IF g = x THEN s ELSE state[g]
  BY <1>1 DEF GInv, TypeOK
<1>4. AttemptsBounded'
  BY <1>1, <1>3, RunNumbers DEF RInv, AttemptsBounded, Latest
<1>5. RunsCounted' /\ RunsBounded'
  BY <1>1, RunNumbers DEF RInv, RunsCounted, RunsBounded, Latest
<1> QED BY <1>2, <1>4, <1>5 DEF RInv

\* The plan of the node at work returns: the attempt is counted.
LEMMA CountedReturn ==
  ASSUME GInv, RInv, phase = "running", NEW s \in States, Transition(cur, s),
         phase' \in {"idle", "blocking"},
         attempts' = [attempts EXCEPT ![cur] = @ + 1],
         UNCHANGED <<runs, crashes, reruns, commands>>,
         s \in InProgress => attempts'[cur] <= RetryBudget[cur]
  PROVE  RInv'
<1>0. cur \in Goals /\ state[cur] = "executing"
  BY DEF GInv, AtWork
<1>1. /\ ~unsaved /\ version < MaxVersion /\ version' = version + 1 /\ unsaved' = TRUE
      /\ snaps' = snaps /\ Saved' = Saved /\ state' = [state EXCEPT ![cur] = s]
  BY DEF Transition, Saved
<1>2. attempts' \in [Goals -> Nat]
  BY <1>0 DEF RInv, AttemptsOK
<1>3. AttemptsOK'
  BY <1>1, <1>2, OrchestratorAssumption DEF RInv, AttemptsOK
<1>4. \A g \in Goals : /\ state'[g] = IF g = cur THEN s ELSE state[g]
                       /\ attempts'[g] = IF g = cur THEN attempts[g] + 1 ELSE attempts[g]
  BY <1>1 DEF GInv, TypeOK, RInv, AttemptsOK
<1>5. AttemptsBounded'
  <2>1. ASSUME NEW g \in Goals
        PROVE  /\ attempts'[g] <= RetryBudget[g] + 1 + commands
               /\ state'[g] \in InProgress => attempts'[g] <= RetryBudget[g] + commands
    BY <1>0, <1>4, RunNumbers DEF RInv, AttemptsBounded, InProgress
  <2>2. ASSUME NEW v \in Saved, Latest(v), NEW g \in Goals
        PROVE  snaps[v].attempts[g] <= attempts'[g]
    BY <1>4, <2>2, RunNumbers DEF RInv, AttemptsBounded
  <2> QED BY <1>1, <2>1, <2>2 DEF AttemptsBounded, Latest
<1>6. RunsCounted'
  <2>1. ASSUME NEW g \in Goals PROVE runs[g] <= attempts'[g] + crashes
    BY <1>4, RunNumbers DEF RInv, RunsCounted
  <2>2. \A g \in Goals : attempts'[g] \in Nat /\ phase' # "running" /\ phase' # "down"
    BY <1>2
  <2>3. \A g \in Goals : runs'[g] <= attempts'[g] + crashes' + 0
    BY <2>1, <2>2, RunNumbers DEF RInv
  <2>4. \A v \in Saved : Latest(v)' => Latest(v)
    BY <1>1 DEF Latest
  <2> QED BY <1>1, <2>2, <2>3, <2>4 DEF RInv, RunsCounted
<1>7. RunsBounded'
  BY DEF RInv, RunsBounded
<1> QED BY <1>3, <1>5, <1>6, <1>7 DEF RInv

\* Where no run, attempt or snapshot changes, only what is being done.
LEMMA CountedPhase ==
  ASSUME GInv, RInv, phase \notin {"down", "running"}, phase' \notin {"down", "running"},
         UNCHANGED <<graphVars, snaps, unsaved, runs, crashes, reruns>>,
         commands' \in Nat, commands <= commands',
         phase' = "rolling" => phase = "rolling" \/ commands' = commands + 1
  PROVE  RInv'
<1>1. Saved' = Saved /\ UNCHANGED <<state, attempts, version>>
  BY DEF Saved, graphVars
<1>2. AttemptsOK'
  BY <1>1 DEF RInv, AttemptsOK
<1>3. AttemptsBounded'
  BY <1>1, RunNumbers DEF RInv, AttemptsBounded, Latest
<1>4. RunsCounted' /\ RunsBounded'
  BY <1>1, RunNumbers DEF RInv, RunsCounted, RunsBounded, Latest
<1> QED BY <1>2, <1>3, <1>4 DEF RInv

\* What is at least as late as everything saved is the last of it.
LEMMA LastSaved ==
  ASSUME NEW S, NEW w \in Nat, S \subseteq 1 .. w, w \in S, NEW v \in S, S \subseteq 1 .. v
  PROVE  v = w
<1>1. v \in 1 .. w /\ w \in 1 .. v
  OBVIOUS
<1> QED BY <1>1

LEMMA RunStep ==
  ASSUME GInv, RInv, [Next]_vars, Early, Early'
  PROVE  RInv'
<1> USE RunNumbers DEF RInv
<1>1. CASE Save
  <2>1. /\ UNCHANGED <<state, attempts, version, phase, cur, runs, crashes, reruns, commands>>
        /\ Saved' = Saved \cup {version} /\ unsaved' = FALSE /\ phase # "down"
        /\ \A v \in Saved' : snaps'[v].attempts = IF v = version THEN attempts ELSE snaps[v].attempts
    BY <1>1 DEF Save, Saved, graphVars, historyVars, countVars
  <2>2. AttemptsOK'
    BY <2>1, OrchestratorAssumption DEF AttemptsOK
  <2>3. \A v \in Saved' : Latest(v)' => v = version
    <3>1. version \in Nat /\ Saved' \subseteq 1 .. version /\ version \in Saved'
      BY <2>1, <2>2 DEF AttemptsOK
    <3> SUFFICES ASSUME NEW v \in Saved', Latest(v)' PROVE v = version
      OBVIOUS
    <3>2. Saved' \subseteq 1 .. v
      BY ONLY Latest(v)' DEF Latest
    <3> QED BY ONLY <3>1, <3>2, v \in Saved', LastSaved
  <2>4. AttemptsBounded'
    BY <2>1, <2>3 DEF AttemptsBounded
  <2>5. RunsCounted' /\ RunsBounded'
    BY <2>1, <2>3 DEF RunsCounted, RunsBounded
  <2> QED BY <2>2, <2>4, <2>5
<1>2. ASSUME NEW g \in Goals, Schedule(g)
      PROVE  RInv'
  <2>1. /\ phase = "idle" /\ phase' = "scheduled" /\ Transition(g, "executing")
        /\ state[g] \in InProgress
        /\ UNCHANGED <<attempts, runs, crashes, reruns, commands>>
    BY <1>2 DEF Schedule, IsNextReady, Ready, Startable, InProgress, historyVars, countVars
  <2> QED BY <2>1, CountedTransition DEF States
<1>3. CASE AlreadySatisfied
  <2>1. /\ phase = "scheduled" /\ phase' = "idle" /\ Transition(cur, "done") /\ cur \in Goals
        /\ UNCHANGED <<attempts, runs, crashes, reruns, commands>>
    BY <1>3 DEF AlreadySatisfied, GInv, AtWork, countVars
  <2> QED BY <2>1, CountedTransition DEF States, InProgress
<1>4. CASE RunPlan(TRUE) \/ RunPlan(FALSE)
  <2>1. /\ phase = "scheduled" /\ phase' = "running" /\ ~unsaved /\ cur \in Goals
        /\ state[cur] = "executing" /\ runs' = [runs EXCEPT ![cur] = @ + 1]
        /\ UNCHANGED <<state, attempts, version, snaps, Saved, unsaved, cur, crashes, reruns, commands>>
    BY <1>4 DEF RunPlan, graphVars, storeVars, countVars, Saved, GInv, AtWork
  <2>2. \A g \in Goals : runs'[g] = IF g = cur THEN runs[g] + 1 ELSE runs[g]
    BY <2>1 DEF GInv, TypeOK
  <2>3. AttemptsOK' /\ AttemptsBounded'
    BY <2>1 DEF AttemptsOK, AttemptsBounded, Latest
  <2>4. \A g \in Goals : runs[g] <= attempts[g] + crashes
    BY <2>1 DEF RunsCounted
  <2>5. version \in Saved /\ snaps[version].attempts = attempts
        /\ \A v \in Saved : Latest(v) => v = version
    <3>1. version \in Saved /\ snaps[version].attempts = attempts
      BY <2>1 DEF AttemptsOK
    <3> SUFFICES ASSUME NEW v \in Saved, Latest(v) PROVE v = version
      BY <3>1
    <3>2. version \in Nat /\ Saved \subseteq 1 .. version
      BY DEF AttemptsOK
    <3>3. Saved \subseteq 1 .. v
      BY ONLY Latest(v) DEF Latest
    <3> QED BY ONLY <3>1, <3>2, <3>3, v \in Saved, LastSaved
  <2>6. RunsCounted'
    BY <2>1, <2>2, <2>4, <2>5 DEF RunsCounted, Latest
  <2>7. RunsBounded'
    <3>1. attempts[cur] <= RetryBudget[cur] + commands
      BY <2>1 DEF AttemptsBounded, InProgress
    <3> QED BY <2>1, <2>2, <2>4, <3>1 DEF RunsBounded
  <2> QED BY <2>3, <2>6, <2>7
<1>5. CASE PlanNotFailed(TRUE) \/ PlanNotFailed(FALSE) \/ PlanFailsWithRetry \/ PlanFailsForGood
  <2>1. /\ phase = "running" /\ phase' \in {"idle", "blocking"}
        /\ attempts' = [attempts EXCEPT ![cur] = @ + 1]
        /\ UNCHANGED <<runs, crashes, reruns, commands>>
        /\ \E s \in {"done", "ready", "failed"} :
             /\ Transition(cur, s)
             /\ s = "ready" => attempts'[cur] <= RetryBudget[cur]
    BY <1>5 DEF PlanNotFailed, PlanFailsWithRetry, PlanFailsForGood, PlanReturns, MayRetry, countVars
  <2> QED BY <2>1, CountedReturn DEF States, InProgress
<1>6. ASSUME NEW g \in Goals, Block(g) \/ CancelRest(g) \/ Cancel(g)
      PROVE  RInv'
  <2>1. /\ phase \in {"blocking", "cancelling", "idle"} /\ phase' \in {"blocking", "cancelling"}
        /\ \E s \in {"blocked", "cancelled"} : Transition(g, s)
        /\ UNCHANGED <<attempts, runs, crashes, reruns>>
        /\ commands' \in {commands, commands + 1}
    BY <1>6 DEF Block, CancelRest, Cancel, historyVars, countVars
  <2> QED BY <2>1, CountedTransition DEF States, InProgress
<1>7. ASSUME NEW g \in Goals, NEW raises \in BOOLEAN, ResetNode(g, raises)
      PROVE  RInv'
  <2>1. /\ phase = "rolling" /\ phase' = phase /\ UNCHANGED <<runs, crashes, reruns, commands>>
        /\ \/ UNCHANGED <<graphVars, unsaved, snaps>>
           \/ Transition(g, "pending") /\ attempts' = attempts
    BY <1>7 DEF ResetNode, storeVars, countVars
  <2> QED BY <2>1, CountedTransition, CountedPhase DEF States
<1>8. CASE BlockingDone \/ CancelDone \/ RollbackDone
  <2>1. /\ phase \notin {"down", "running"} /\ phase' = "idle"
        /\ UNCHANGED <<graphVars, snaps, unsaved, runs, crashes, reruns, commands>>
    BY <1>8 DEF BlockingDone, CancelDone, RollbackDone, storeVars, historyVars, countVars
  <2> QED BY <2>1, CountedPhase
<1>9. ASSUME NEW g \in Goals, Rollback(g)
      PROVE  RInv'
  <2>1. /\ phase = "idle" /\ phase' = "rolling" /\ commands' = commands + 1
        /\ UNCHANGED <<graphVars, snaps, unsaved, runs, crashes, reruns>>
    BY <1>9 DEF Rollback, storeVars
  <2> QED BY <2>1, CountedPhase
<1>10. CASE Crash
  <2>1. /\ phase # "down" /\ phase' = "down" /\ crashes' = crashes + 1
        /\ UNCHANGED <<state, attempts, version, snaps, Saved, runs, reruns, commands>>
    BY <1>10 DEF Crash, graphVars, storeVars, Saved
  <2>2. AttemptsOK' /\ AttemptsBounded'
    BY <2>1 DEF AttemptsOK, AttemptsBounded, Latest
  <2>3. RunsCounted' /\ RunsBounded'
    BY <2>1 DEF RunsCounted, RunsBounded, Latest
  <2> QED BY <2>2, <2>3
<1>11. ASSUME NEW v \in Saved, Resume(v)
       PROVE  RInv'
  <2>1. /\ phase = "down" /\ phase' = "idle" /\ unsaved' = TRUE /\ version' = v
        /\ IsLoaded(v) /\ attempts' = snaps[v].attempts
        /\ state' = [g \in Goals |-> Replayed(v, g)]
        /\ UNCHANGED <<snaps, Saved, runs, crashes, reruns, commands>>
    BY <1>11 DEF Resume, storeVars, historyVars, countVars, Saved
  <2>3. Latest(v) /\ v \in 1 .. MaxVersion
    <3>1. \A w \in Saved : w \in 1 .. 9
      BY DEF Early
    <3>2. \A w \in Saved : NameKey(w) = 100 * w
      BY <3>1 DEF NameKey
    <3>3. \A w \in Saved : 100 * w <= 100 * v
      BY <2>1, <3>2 DEF IsLoaded
    <3>4. Latest(v)
      BY <3>1, <3>3 DEF Latest
    <3>5. \A w \in Saved : w \in 1 .. MaxVersion
      BY OrchestratorAssumption DEF AttemptsOK
    <3> QED BY <3>4, <3>5
  <2>4. \A g \in Goals : state'[g] \in InProgress => state[g] \in InProgress
    BY <2>1 DEF Replayed, GInv, TypeOK, Journalled, States, InProgress
  <2>5. \A g \in Goals : attempts'[g] <= attempts[g] /\ attempts'[g] \in Nat
    BY <2>1, <2>3 DEF AttemptsBounded
  <2>6. AttemptsOK'
    BY <2>1, <2>3 DEF AttemptsOK, Latest
  <2>7. \A w \in Saved : Latest(w) => w = v
    BY <2>3 DEF Latest
  <2>8. AttemptsBounded'
    BY <2>1, <2>4, <2>5, <2>7 DEF AttemptsBounded, Latest
  <2>9. \A g \in Goals : /\ runs'[g] <= attempts'[g] + crashes' + 0
                         /\ runs'[g] <= snaps'[v].attempts[g] + crashes' + 1
    BY <2>1, <2>3, <2>5 DEF RunsCounted
  <2>10. \A w \in Saved' : Latest(w)' => w = v
    BY <2>1, <2>7 DEF Latest
  <2>11. RunsCounted' /\ RunsBounded'
    BY <2>1, <2>3, <2>9, <2>10 DEF RunsCounted, RunsBounded
  <2> QED BY <2>6, <2>8, <2>11
<1>12. CASE Rerun
  <2>1. /\ phase = "down" /\ Saved = {} /\ phase' = "idle" /\ unsaved' = TRUE /\ version' = 1
        /\ attempts' = NoAttempts /\ reruns' = reruns
        /\ UNCHANGED <<snaps, Saved, runs, crashes, commands>>
    BY <1>12 DEF Rerun, storeVars, Saved, Early, GInv, TypeOK
  <2>2. AttemptsOK'
    BY <2>1, OrchestratorAssumption DEF AttemptsOK, NoAttempts
  <2>3. AttemptsBounded' /\ RunsCounted' /\ RunsBounded'
    BY <2>1 DEF AttemptsBounded, RunsCounted, RunsBounded, NoAttempts
  <2> QED BY <2>2, <2>3
<1>13. CASE UNCHANGED vars
  <2>1. /\ UNCHANGED <<state, attempts, version, snaps, Saved, unsaved, phase, cur, runs, crashes, reruns, commands>>
    BY <1>13 DEF vars, graphVars, storeVars, historyVars, countVars, Saved
  <2> QED BY <2>1 DEF AttemptsOK, AttemptsBounded, RunsCounted, RunsBounded, Latest
<1> QED
  BY <1>1, <1>2, <1>3, <1>4, <1>5, <1>6, <1>7, <1>8, <1>9, <1>10, <1>11, <1>12, <1>13
  DEF Next, Step

-----------------------------------------------------------------------------
(* A restart from a snapshot that is not the latest costs a whole budget at most. *)

Budget(g) == RetryBudget[g] + 1
Lives == reruns + crashes

\* Runs of earlier lives, of this one, and the rollbacks: while its plan may be run again
\* there is one left.
LivesBounded ==
  /\ commands \in Nat
  /\ attempts \in [Goals -> Nat]
  /\ \A v \in Saved : snaps[v].attempts \in [Goals -> Nat]
  /\ \A g \in Goals :
       /\ runs[g] <= Budget(g) + Budget(g) * Lives + commands
       /\ phase = "down" => runs[g] <= Budget(g) * Lives + commands
       /\ phase # "down" =>
            runs[g] <= Budget(g) * Lives + commands
                         + attempts[g] + (IF phase = "running" /\ cur = g THEN 1 ELSE 0)
       /\ /\ phase # "down"
          /\ state[g] \in InProgress \/ phase = "rolling"
          /\ ~(phase = "running" /\ cur = g)
          => runs[g] + 1 <= Budget(g) + Budget(g) * Lives + commands

LEMMA LifeNumbers ==
  ASSUME GInv, LivesBounded, NEW g \in Goals
  PROVE  /\ Budget(g) \in Nat \ {0} /\ RetryBudget[g] \in Nat /\ Budget(g) = RetryBudget[g] + 1
         /\ Lives \in Nat /\ commands \in Nat
         /\ Budget(g) * Lives \in Nat /\ Budget(g) * (Lives + 1) = Budget(g) * Lives + Budget(g)
         /\ runs[g] \in Nat /\ attempts[g] \in Nat
<1>1. /\ RetryBudget[g] \in Nat /\ Budget(g) = RetryBudget[g] + 1 /\ Lives \in Nat
      /\ commands \in Nat /\ runs[g] \in Nat /\ attempts[g] \in Nat
  BY OrchestratorAssumption DEF GInv, TypeOK, LivesBounded, Budget, Lives
<1>2. Budget(g) \in Nat \ {0}
  BY <1>1
<1>3. \A m, n \in Nat : m * n \in Nat /\ m * (n + 1) = m * n + m
  OBVIOUS
<1> QED BY <1>1, <1>2, <1>3

\* A step that neither starts nor ends a run or a life, and puts no node back to work.
LEMMA LifeQuiet ==
  ASSUME GInv, LivesBounded, UNCHANGED <<attempts, snaps, runs, crashes, reruns>>,
         phase \notin {"down", "running"}, phase' \notin {"down", "running"},
         commands' \in Nat, commands <= commands',
         \A g \in Goals :
           state'[g] \in InProgress \/ phase' = "rolling" =>
             \/ state[g] \in InProgress \/ phase = "rolling"
             \/ commands' = commands + 1
  PROVE  LivesBounded'
<1>1. Saved' = Saved /\ Lives' = Lives /\ \A g \in Goals : Budget(g)' = Budget(g)
  BY DEF Saved, Lives, Budget
<1>2. ASSUME NEW g \in Goals
      PROVE  /\ runs'[g] <= Budget(g) + Budget(g) * Lives + commands'
             /\ runs'[g] <= Budget(g) * Lives + commands' + attempts'[g]
             /\ state'[g] \in InProgress \/ phase' = "rolling" =>
                  runs'[g] + 1 <= Budget(g) + Budget(g) * Lives + commands'
  BY LifeNumbers DEF LivesBounded
<1>3. \A g \in Goals : attempts'[g] \in Nat
  BY DEF LivesBounded
<1>4. attempts' \in [Goals -> Nat] /\ \A v \in Saved' : snaps'[v].attempts \in [Goals -> Nat]
  BY <1>1 DEF LivesBounded
<1>5. \A g \in Goals : runs'[g] <= Budget(g) * Lives + commands' + attempts'[g] + 0
  <2> TAKE g \in Goals
  <2>1. Budget(g) * Lives \in Nat /\ commands' \in Nat /\ attempts'[g] \in Nat
    BY <1>3, LifeNumbers
  <2> QED BY <1>2, <2>1
<1>6. phase' # "down" /\ phase' # "running" /\ commands' \in Nat
  OBVIOUS
<1> QED BY <1>1, <1>2, <1>4, <1>5, <1>6 DEF LivesBounded

LEMMA LifeStep ==
  ASSUME GInv, LivesBounded, [Next]_vars
  PROVE  LivesBounded'
<1>0. \A g \in Goals : Budget(g)' = Budget(g)
  BY DEF Budget
<1>1. CASE Save
  <2>1. /\ UNCHANGED <<state, attempts, phase, cur, runs, crashes, reruns, commands, Lives>>
        /\ Saved' = Saved \cup {version}
        /\ \A v \in Saved' : snaps'[v].attempts = IF v = version THEN attempts ELSE snaps[v].attempts
    BY <1>1 DEF Save, Saved, graphVars, historyVars, countVars, Lives
  <2>2. \A v \in Saved' : snaps'[v].attempts \in [Goals -> Nat]
    BY <2>1 DEF LivesBounded
  <2> QED BY <1>0, <2>1, <2>2 DEF LivesBounded
<1>2. ASSUME NEW g \in Goals, Schedule(g) \/ Block(g) \/ CancelRest(g) \/ Cancel(g)
      PROVE  LivesBounded'
  <2>1. /\ phase \notin {"down", "running", "rolling"} /\ phase' \notin {"down", "running", "rolling"}
        /\ UNCHANGED <<attempts, snaps, runs, crashes, reruns>>
        /\ commands' \in {commands, commands + 1}
        /\ \E s \in States : /\ state' = [state EXCEPT ![g] = s]
                             /\ s \in InProgress => state[g] \in InProgress
    BY <1>2 DEF Schedule, Block, CancelRest, Cancel, Transition, IsNextReady, Ready, Startable, States,
         InProgress, historyVars, countVars
  <2>2. \A h \in Goals : state'[h] \in InProgress => state[h] \in InProgress
    BY <2>1 DEF GInv, TypeOK
  <2>3. commands' \in Nat /\ commands <= commands'
    BY <2>1 DEF LivesBounded
  <2> QED BY <2>1, <2>2, <2>3, LifeQuiet
<1>3. CASE AlreadySatisfied
  <2>1. /\ phase = "scheduled" /\ phase' = "idle" /\ cur \in Goals
        /\ UNCHANGED <<attempts, snaps, runs, crashes, reruns, commands>>
        /\ state' = [state EXCEPT ![cur] = "done"]
    BY <1>3 DEF AlreadySatisfied, Transition, countVars, GInv, AtWork
  <2>2. \A h \in Goals : state'[h] \in InProgress => state[h] \in InProgress
    BY <2>1 DEF GInv, TypeOK, InProgress
  <2>3. commands' \in Nat /\ commands <= commands'
    BY <2>1 DEF LivesBounded
  <2> QED BY <2>1, <2>2, <2>3, LifeQuiet
<1>4. ASSUME NEW wrote \in BOOLEAN, RunPlan(wrote)
      PROVE  LivesBounded'
  <2>1. /\ phase = "scheduled" /\ phase' = "running" /\ cur \in Goals /\ cur' = cur
        /\ state[cur] = "executing" /\ runs' = [runs EXCEPT ![cur] = @ + 1]
        /\ UNCHANGED <<state, attempts, snaps, Saved, crashes, reruns, commands, Lives>>
    BY <1>4 DEF RunPlan, graphVars, storeVars, countVars, Saved, Lives, GInv, AtWork
  <2>2. \A g \in Goals : runs'[g] = IF g = cur THEN runs[g] + 1 ELSE runs[g]
    BY <2>1 DEF GInv, TypeOK
  <2>3. ASSUME NEW g \in Goals
        PROVE  /\ runs'[g] <= Budget(g) + Budget(g) * Lives + commands
               /\ runs'[g] <= Budget(g) * Lives + commands + attempts[g] + (IF cur = g THEN 1 ELSE 0)
               /\ state[g] \in InProgress /\ cur # g =>
                    runs'[g] + 1 <= Budget(g) + Budget(g) * Lives + commands
    BY <2>1, <2>2, LifeNumbers DEF LivesBounded, InProgress
  <2> QED BY <1>0, <2>1, <2>3 DEF LivesBounded
<1>5. CASE PlanNotFailed(TRUE) \/ PlanNotFailed(FALSE) \/ PlanFailsWithRetry \/ PlanFailsForGood
  <2>1. /\ phase = "running" /\ phase' \in {"idle", "blocking"} /\ cur \in Goals
        /\ attempts' = [attempts EXCEPT ![cur] = @ + 1]
        /\ UNCHANGED <<runs, snaps, Saved, crashes, reruns, commands, Lives>>
        /\ \E s \in {"done", "ready", "failed"} :
             /\ state' = [state EXCEPT ![cur] = s]
             /\ s = "ready" => attempts'[cur] <= RetryBudget[cur]
    BY <1>5 DEF PlanNotFailed, PlanFailsWithRetry, PlanFailsForGood, PlanReturns, MayRetry, Transition,
         countVars, Saved, Lives, GInv, AtWork
  <2>2. /\ attempts' \in [Goals -> Nat]
        /\ \A g \in Goals : attempts'[g] = IF g = cur THEN attempts[g] + 1 ELSE attempts[g]
    BY <2>1 DEF LivesBounded
  <2>3. \A g \in Goals : state'[g] \in InProgress =>
          IF g = cur THEN attempts'[g] <= RetryBudget[g] ELSE state[g] \in InProgress
    BY <2>1 DEF GInv, TypeOK, InProgress
  <2>4. ASSUME NEW g \in Goals
        PROVE  /\ runs[g] <= Budget(g) + Budget(g) * Lives + commands
               /\ runs[g] <= Budget(g) * Lives + commands + attempts'[g]
               /\ state'[g] \in InProgress => runs[g] + 1 <= Budget(g) + Budget(g) * Lives + commands
    BY <2>1, <2>2, <2>3, LifeNumbers DEF LivesBounded
  <2>5. phase' # "rolling" /\ phase' # "running" /\ phase' # "down"
    BY <2>1
  <2>6. \A v \in Saved' : snaps'[v].attempts \in [Goals -> Nat]
    BY <2>1 DEF LivesBounded
  <2>7. \A g \in Goals : attempts'[g] \in Nat /\ Budget(g) * Lives \in Nat /\ commands \in Nat
    BY <2>2, LifeNumbers
  <2>8. \A g \in Goals : runs[g] <= Budget(g) * Lives + commands + attempts'[g] + 0
    BY <2>4, <2>7
  <2> QED BY <1>0, <2>1, <2>2, <2>4, <2>5, <2>6, <2>8 DEF LivesBounded
<1>6. ASSUME NEW g \in Goals, NEW raises \in BOOLEAN, ResetNode(g, raises)
      PROVE  LivesBounded'
  <2>1. /\ phase = "rolling" /\ phase' = phase
        /\ UNCHANGED <<attempts, snaps, runs, crashes, reruns, commands>>
    BY <1>6 DEF ResetNode, Transition, graphVars, storeVars, countVars
  <2>2. commands' \in Nat /\ commands <= commands'
    BY <2>1 DEF LivesBounded
  <2> QED BY <2>1, <2>2, LifeQuiet
<1>7. CASE BlockingDone \/ CancelDone \/ RollbackDone
  <2>1. /\ phase \notin {"down", "running"} /\ phase' = "idle"
        /\ UNCHANGED <<state, attempts, snaps, runs, crashes, reruns, commands>>
    BY <1>7 DEF BlockingDone, CancelDone, RollbackDone, graphVars, storeVars, historyVars, countVars
  <2>2. commands' \in Nat /\ commands <= commands'
    BY <2>1 DEF LivesBounded
  <2> QED BY <2>1, <2>2, LifeQuiet
<1>8. ASSUME NEW g \in Goals, Rollback(g)
      PROVE  LivesBounded'
  <2>1. /\ phase = "idle" /\ phase' = "rolling" /\ commands' = commands + 1
        /\ UNCHANGED <<state, attempts, snaps, runs, crashes, reruns>>
    BY <1>8 DEF Rollback, graphVars, storeVars
  <2>2. commands' \in Nat /\ commands <= commands'
    BY <2>1 DEF LivesBounded
  <2> QED BY <2>1, <2>2, LifeQuiet
<1>9. CASE Crash
  <2>1. /\ phase' = "down" /\ Lives' = Lives + 1 /\ phase # "down"
        /\ UNCHANGED <<attempts, snaps, Saved, runs, commands>>
    BY <1>9 DEF Crash, graphVars, storeVars, Saved, Lives, GInv, TypeOK
  <2>2. ASSUME NEW g \in Goals
        PROVE  /\ runs[g] <= Budget(g) * (Lives + 1) + commands
               /\ runs[g] <= Budget(g) + Budget(g) * (Lives + 1) + commands
    BY LifeNumbers DEF LivesBounded
  <2> QED BY <1>0, <2>1, <2>2 DEF LivesBounded
\* A life begins with at least one run of each plan to spend.
<1>10. ASSUME phase' = "idle", attempts' \in [Goals -> Nat],
              UNCHANGED <<snaps, Saved, runs, commands>>, Lives' \in Nat,
              \A g \in Goals : runs[g] <= Budget(g) * Lives' + commands
       PROVE  LivesBounded'
  <2>1. ASSUME NEW g \in Goals
        PROVE  /\ runs[g] <= Budget(g) + Budget(g) * Lives' + commands
               /\ runs[g] <= Budget(g) * Lives' + commands + attempts'[g] + 0
               /\ runs[g] + 1 <= Budget(g) + Budget(g) * Lives' + commands
    <3>1. Budget(g) \in Nat \ {0} /\ commands \in Nat /\ runs[g] \in Nat /\ attempts'[g] \in Nat
      BY <1>10, LifeNumbers
    <3>2. Budget(g) * Lives' \in Nat
      BY <1>10, <3>1
    <3> QED BY <1>10, <3>1, <3>2
  <2> QED BY <1>0, <1>10, <2>1 DEF LivesBounded
<1>11. ASSUME NEW v \in Saved, Resume(v)
       PROVE  LivesBounded'
  <2>1. /\ phase = "down" /\ phase' = "idle" /\ attempts' = snaps[v].attempts
        /\ UNCHANGED <<snaps, Saved, runs, commands, Lives>>
    BY <1>11 DEF Resume, storeVars, countVars, Saved, Lives
  <2>2. \A g \in Goals : runs[g] <= Budget(g) * Lives + commands
    BY <2>1 DEF LivesBounded
  <2>3. attempts' \in [Goals -> Nat] /\ Lives \in Nat
    BY <2>1 DEF LivesBounded, Lives, GInv, TypeOK
  <2> QED BY <1>10, <2>1, <2>2, <2>3
<1>12. CASE Rerun
  <2>1. /\ phase' = "idle" /\ attempts' = NoAttempts
        /\ UNCHANGED <<snaps, Saved, runs, commands>>
        /\ IF phase = "down" THEN Lives' = Lives ELSE Lives' = Lives + 1
    BY <1>12 DEF Rerun, storeVars, Saved, Lives, GInv, TypeOK
  <2>2. attempts' \in [Goals -> Nat] /\ Lives' \in Nat
    BY <2>1 DEF NoAttempts, Lives, GInv, TypeOK
  <2>3. \A g \in Goals : runs[g] <= Budget(g) * Lives' + commands
    BY <2>1, LifeNumbers DEF LivesBounded
  <2> QED BY <1>10, <2>1, <2>2, <2>3
<1>13. CASE UNCHANGED vars
  <2>1. UNCHANGED <<state, attempts, snaps, Saved, phase, cur, runs, Lives, commands>>
    BY <1>13 DEF vars, graphVars, storeVars, historyVars, countVars, Saved, Lives
  <2> QED BY <1>0, <2>1 DEF LivesBounded
<1> QED
  BY <1>1, <1>2, <1>3, <1>4, <1>5, <1>6, <1>7, <1>8, <1>9, <1>11, <1>12, <1>13 DEF Next, Step

\* A plan is run only after what it waits for, and no more often than its budget, the
\* crashes and the commands allow, in any graph: one run more for a crash as long as the
\* names of the snapshots sort as their numbers, a whole budget more when they do not.
THEOREM OrderAndBudget == Spec => []OrderedByDependencies
<1>1. Init => (Early => RInv) /\ LivesBounded
  <2> SUFFICES ASSUME Init PROVE RInv /\ LivesBounded
    OBVIOUS
  <2>1. Saved = {}
    BY DEF Init, Saved
  <2>2. RInv
    BY <2>1, OrchestratorAssumption
       DEF Init, RInv, AttemptsOK, AttemptsBounded, RunsCounted, RunsBounded, NoAttempts
  <2>3. \A g \in Goals : Budget(g) \in Nat /\ Lives = 0 /\ Budget(g) * Lives = 0
    BY OrchestratorAssumption DEF Init, Budget, Lives
  <2>4. \A g \in Goals : runs[g] = 0 /\ attempts[g] = 0 /\ commands = 0 /\ phase = "idle"
    BY DEF Init, NoAttempts
  <2>5. attempts \in [Goals -> Nat]
    BY DEF Init, NoAttempts
  <2>6. \A g \in Goals : Budget(g) >= 1
    BY OrchestratorAssumption DEF Budget
  <2>7. ASSUME NEW g \in Goals
        PROVE  /\ runs[g] + 1 <= Budget(g) + Budget(g) * Lives + commands
               /\ runs[g] <= Budget(g) + Budget(g) * Lives + commands
               /\ runs[g] <= Budget(g) * Lives + commands + attempts[g] + 0
    BY <2>3, <2>4, <2>6
  <2>8. phase = "idle" /\ commands \in Nat
    BY DEF Init
  <2>9. LivesBounded
    BY <2>1, <2>5, <2>7, <2>8 DEF LivesBounded
  <2> QED BY <2>2, <2>9
<1>2. GInv /\ (Early => RInv) /\ [Next]_vars => (Early => RInv)'
  <2> SUFFICES ASSUME GInv, Early => RInv, [Next]_vars, Early'
               PROVE  RInv'
    OBVIOUS
  <2>1. Saved \subseteq Saved' /\ (reruns' = 0 => reruns = 0)
    <3>1. CASE Save
      BY <3>1 DEF Save, Saved, historyVars, countVars
    <3>2. CASE Rerun
      BY <3>2 DEF Rerun, storeVars, Saved, GInv, TypeOK
    <3>3. CASE ~Save /\ ~Rerun
      <4>1. snaps' = snaps /\ reruns' = reruns
        BY <3>3
        DEF Next, Step, AlreadySatisfied, RunPlan, PlanNotFailed, PlanFailsWithRetry, PlanFailsForGood,
            PlanReturns, BlockingDone, CancelDone, RollbackDone, Schedule, Block, CancelRest, Transition,
            ResetNode, Resume, Crash, Cancel, Rollback, vars, storeVars, historyVars, countVars
      <4> QED BY <4>1 DEF Saved
    <3> QED BY <3>1, <3>2, <3>3
  <2>2. Early
    BY <2>1 DEF Early
  <2> QED BY <2>2, RunStep
<1>3. GInv /\ LivesBounded /\ [Next]_vars => LivesBounded'
  BY LifeStep
<1>4. GInv /\ (Early => RInv) /\ LivesBounded
        /\ (phase = "running" => DependsOn[cur] \subseteq achieved \cup cutOff)
      => OrderedByDependencies
  <2> SUFFICES ASSUME GInv, Early => RInv, LivesBounded, NEW g \in Goals
               PROVE  /\ reruns = 0 /\ Saved \subseteq 1 .. 9 =>
                           runs[g] <= RetryBudget[g] + 1 + crashes + commands
                      /\ runs[g] <= (RetryBudget[g] + 1) * (1 + reruns + crashes) + commands
    BY DEF OrderedByDependencies
  <2>1. reruns = 0 /\ Saved \subseteq 1 .. 9 => runs[g] <= RetryBudget[g] + 1 + crashes + commands
    BY DEF Early, RInv, RunsBounded
  <2>2. 1 + reruns + crashes = Lives + 1
    BY DEF Lives, GInv, TypeOK
  <2>3. Budget(g) * (Lives + 1) = Budget(g) + Budget(g) * Lives
    BY LifeNumbers
  <2>4. runs[g] <= Budget(g) + Budget(g) * Lives + commands
    BY DEF LivesBounded
  <2>5. runs[g] <= Budget(g) * (Lives + 1) + commands
    BY <2>3, <2>4
  <2> QED BY <2>1, <2>2, <2>5 DEF Budget
<1> QED BY <1>1, <1>2, <1>3, <1>4, RunsAfterDependencies, InitGInv, GoalInvariant, PTL DEF Spec
=============================================================================
