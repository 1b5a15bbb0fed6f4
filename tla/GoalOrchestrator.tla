--------------------------- MODULE GoalOrchestrator ---------------------------
(***************************************************************************)
(* Hierarchical planning (src/aetheris/hierarchy): one goal, decomposed    *)
(* into a DAG of subgoals, is walked one subgoal at a time; every change   *)
(* of a subgoal's state is appended to a journal and then saved in a       *)
(* numbered snapshot of the whole graph, from which a restarted process    *)
(* resumes.  The plan of a subgoal is run by the executive (SpineRunner);  *)
(* only how that run ends is visible here.                                 *)
(***************************************************************************)
EXTENDS Integers, FiniteSets

CONSTANTS
  Goals,         \* subgoal ids
  DependsOn,     \* the ids each subgoal waits for
  Rank,          \* position in topological_order (depth, then id)
  RetryBudget,   \* retry_budget of each subgoal
  SymbolGoals,   \* subgoals whose done_if_symbol Understanding may find
  WritesFile,    \* subgoals whose plan is a write_file, to a file of its own; the plans of
                 \*   the others call tools that have no undo (shell, run_tests, run_check)
  Capped,        \* TRUE: a plan may still be unsettled after 64 ticks
  MaxVersion,    \* BOUND: numbers of snapshots
  MaxCrashes,    \* BOUND: process crashes
  MaxReruns,     \* BOUND: times the goal is decomposed afresh
  MaxCommands,   \* BOUND: cancellations and rollbacks
  NoGoal

ASSUME OrchestratorAssumption ==
  /\ DependsOn \in [Goals -> SUBSET Goals]
  /\ Rank \in [Goals -> Nat]
  /\ \A g, h \in Goals : Rank[g] = Rank[h] => g = h
  /\ \A g \in Goals : \A d \in DependsOn[g] : Rank[d] < Rank[g]
  /\ RetryBudget \in [Goals -> Nat]
  /\ {SymbolGoals, WritesFile} \subseteq SUBSET Goals
  /\ Capped \in BOOLEAN
  /\ MaxVersion \in 1 .. 99
  /\ MaxCrashes \in Nat /\ MaxReruns \in Nat /\ MaxCommands \in Nat
  /\ NoGoal \notin Goals

VARIABLES
  state,      \* GoalGraph: state of every node
  attempts,   \* GoalGraph: attempts of every node
  planFile,   \* GoalGraph: the file plan_id names: "none", "kept", or "deleted" (with a
              \*   task that ends DONE)
  version,    \* GoalGraph.version
  plans,      \* _plans: nodes whose plan this process remembers
  phase,      \* where in run, cancel or rollback_subtree the process is
  cur,        \* the node it is working on
  unsaved,    \* a journal line is written and its snapshot is not
  rolling,    \* nodes rollback_subtree has still to reset
  log,        \* GoalJournal: last to_state of every node, "none" before the first
  snaps,      \* snapshot files: version -> graph
  effects,    \* workspace: nodes whose plan has left something in it
  backups,    \* the .aetheris.bak beside each written file: "none", or what the file was
              \*   like when it was last written, "clean" or "dirty" (written before)
  \* history, not in the code
  crashes, reruns, commands,
  runs,       \* how often each node's plan was run
  achieved,   \* nodes whose plan settled DONE or whose symbol was found
  cutOff,     \* nodes whose plan was cut off by the cap, and not rolled back since
  beyondUndo  \* nodes whose file no undo restores any more: written twice, or with a plan
              \*   that a restart does not know, or with an undo that raised

graphVars   == <<state, attempts, planFile, version>>
storeVars   == <<log, snaps>>
fileVars    == <<effects, backups>>
countVars   == <<crashes, reruns, commands>>
historyVars == <<countVars, runs, achieved, cutOff, beyondUndo>>
vars == <<graphVars, plans, phase, cur, unsaved, rolling, storeVars, fileVars, historyVars>>

States == {"pending", "ready", "executing", "done", "failed", "blocked", "cancelled"}
Terminal == {"done", "failed", "blocked", "cancelled"}
Startable == {"pending", "ready"}

Saved == DOMAIN snaps

FreshStates == [g \in Goals |-> "pending"]
NoAttempts == [g \in Goals |-> 0]
NoPlanFiles == [g \in Goals |-> "none"]

\* run() saves a first snapshot before its first step.
Init ==
  /\ state = FreshStates
  /\ attempts = NoAttempts
  /\ planFile = NoPlanFiles
  /\ version = 1
  /\ plans = {}
  /\ phase = "idle"
  /\ cur = NoGoal
  /\ unsaved = TRUE
  /\ rolling = {}
  /\ log = [g \in Goals |-> "none"]
  /\ snaps = << >>
  /\ effects = {}
  /\ backups = [g \in Goals |-> "none"]
  /\ crashes = 0
  /\ reruns = 0
  /\ commands = 0
  /\ runs = [g \in Goals |-> 0]
  /\ achieved = {}
  /\ cutOff = {}
  /\ beyondUndo = {}

-----------------------------------------------------------------------------
(* _transition: the node changes, the journal line is appended; the        *)
(* snapshot under the next number follows (Save), before anything else.    *)

Transition(g, s) ==
  /\ ~unsaved
  /\ version < MaxVersion
  /\ state' = [state EXCEPT ![g] = s]
  /\ log' = [log EXCEPT ![g] = s]
  /\ version' = version + 1
  /\ unsaved' = TRUE
  /\ snaps' = snaps

Save ==
  /\ phase # "down"
  /\ unsaved
  /\ snaps' = [v \in Saved \cup {version} |->
                 IF v = version
                 THEN [state |-> state, attempts |-> attempts, planFile |-> planFile]
                 ELSE snaps[v]]
  /\ unsaved' = FALSE
  /\ UNCHANGED <<graphVars, plans, phase, cur, rolling, log, fileVars, historyVars>>

-----------------------------------------------------------------------------
(* step() *)

\* Mutant: nobody waits for anybody.
ReadyAtOnce == {g \in Goals : state[g] \in Startable}

Ready == {g \in Goals : state[g] \in Startable /\ \A d \in DependsOn[g] : state[d] = "done"}

IsNextReady(g) == g \in Ready /\ \A h \in Ready : Rank[g] <= Rank[h]

Schedule(g) ==
  /\ phase = "idle"
  /\ IsNextReady(g)
  /\ Transition(g, "executing")
  /\ cur' = g
  /\ phase' = "scheduled"
  /\ UNCHANGED <<attempts, planFile, plans, rolling, fileVars, historyVars>>

\* The journal is asked first, then Understanding.
JournalSaysDone == log[cur] = "done"

AlreadySatisfied ==
  /\ phase = "scheduled"
  /\ JournalSaysDone \/ cur \in SymbolGoals
  /\ Transition(cur, "done")
  /\ achieved' = achieved \cup {cur}
  /\ phase' = "idle"
  /\ cur' = NoGoal
  /\ UNCHANGED <<attempts, planFile, plans, rolling, fileVars, countVars, runs, cutOff, beyondUndo>>

\* write_file and edit_file keep one backup, of the file as they find it.
Written(g) ==
  IF g \in WritesFile
  THEN [backups EXCEPT ![g] = IF g \in effects THEN "dirty" ELSE "clean"]
  ELSE backups

\* The plan is run by the executive; it may fail before it has written its file.
RunPlan(wrote) ==
  /\ phase = "scheduled"
  /\ cur \notin WritesFile => wrote
  /\ ~unsaved
  /\ ~JournalSaysDone
  /\ phase' = "running"
  /\ runs' = [runs EXCEPT ![cur] = @ + 1]
  /\ effects' = IF wrote THEN effects \cup {cur} ELSE effects
  /\ backups' = IF wrote THEN Written(cur) ELSE backups
  /\ beyondUndo' = IF wrote /\ cur \in effects \cap WritesFile THEN beyondUndo \cup {cur} ELSE beyondUndo
  /\ UNCHANGED <<graphVars, plans, cur, unsaved, rolling, storeVars, countVars, achieved, cutOff>>

\* Bookkeeping common to every end of a plan run.
PlanReturns(file) ==
  /\ phase = "running"
  /\ attempts' = [attempts EXCEPT ![cur] = @ + 1]
  /\ planFile' = [planFile EXCEPT ![cur] = file]
  /\ plans' = plans \cup {cur}
  /\ UNCHANGED <<rolling, fileVars, countVars, runs, beyondUndo>>

\* Anything that has not failed counts as done, a run cut off by the cap too.
PlanNotFailed(settled) ==
  /\ PlanReturns(IF settled THEN "deleted" ELSE "kept")
  /\ Transition(cur, "done")
  /\ achieved' = IF settled THEN achieved \cup {cur} ELSE achieved
  /\ cutOff' = IF settled THEN cutOff ELSE cutOff \cup {cur}
  /\ phase' = "idle"
  /\ cur' = NoGoal

\* Mutant: no end of retries.
MayRetryForever == TRUE

MayRetry == attempts'[cur] <= RetryBudget[cur]

PlanFailsWithRetry ==
  /\ PlanReturns("kept")
  /\ MayRetry
  /\ Transition(cur, "ready")
  /\ phase' = "idle"
  /\ cur' = NoGoal
  /\ UNCHANGED <<achieved, cutOff>>

PlanFailsForGood ==
  /\ PlanReturns("kept")
  /\ ~MayRetry
  /\ Transition(cur, "failed")
  /\ phase' = "blocking"
  /\ cur' = NoGoal
  /\ UNCHANGED <<achieved, cutOff>>

-----------------------------------------------------------------------------
(* _propagate_blocked, cancel, rollback_subtree: node after node, in any   *)
(* order (the code's is that in which the nodes were added).               *)

\* Mutants: everything not started is blocked; a node is blocked when all it waits
\* for has failed.
ToBlockAll == {g \in Goals : state[g] \in Startable}
ToBlockBelowAll ==
  {g \in Goals : state[g] \in Startable
                 /\ DependsOn[g] # {}
                 /\ \A d \in DependsOn[g] : state[d] \in {"failed", "blocked", "cancelled"}}

ToBlock ==
  {g \in Goals : state[g] \in Startable
                 /\ \E d \in DependsOn[g] : state[d] \in {"failed", "blocked", "cancelled"}}

Block(g) ==
  /\ phase = "blocking"
  /\ g \in ToBlock
  /\ Transition(g, "blocked")
  /\ UNCHANGED <<attempts, planFile, plans, phase, cur, rolling, fileVars, historyVars>>

BlockingDone ==
  /\ phase = "blocking"
  /\ ~unsaved
  /\ ToBlock = {}
  /\ phase' = "idle"
  /\ UNCHANGED <<graphVars, plans, cur, unsaved, rolling, storeVars, fileVars, historyVars>>

\* The nodes that wait for g, directly or not: they are in every set that g is in and,
\* with any node, those that wait for it.
Descendants(g) ==
  {h \in Goals \ {g} :
     \A S \in SUBSET Goals :
       g \in S /\ (\A k \in Goals : DependsOn[k] \cap S # {} => k \in S) => h \in S}

Cancel(g) ==
  /\ phase = "idle"
  /\ commands < MaxCommands
  /\ Transition(g, "cancelled")
  /\ commands' = commands + 1
  /\ phase' = "cancelling"
  /\ cur' = g
  /\ UNCHANGED <<attempts, planFile, plans, rolling, fileVars,
                 crashes, reruns, runs, achieved, cutOff, beyondUndo>>

ToCancel == {g \in Descendants(cur) : state[g] \in Startable}

CancelRest(g) ==
  /\ phase = "cancelling"
  /\ g \in ToCancel
  /\ Transition(g, "cancelled")
  /\ UNCHANGED <<attempts, planFile, plans, phase, cur, rolling, fileVars, historyVars>>

CancelDone ==
  /\ phase = "cancelling"
  /\ ~unsaved
  /\ ToCancel = {}
  /\ phase' = "idle"
  /\ cur' = NoGoal
  /\ UNCHANGED <<graphVars, plans, unsaved, rolling, storeVars, fileVars, historyVars>>

Rollback(g) ==
  /\ phase = "idle"
  /\ ~unsaved
  /\ commands < MaxCommands
  /\ commands' = commands + 1
  /\ rolling' = {g} \cup Descendants(g)
  /\ phase' = "rolling"
  /\ UNCHANGED <<graphVars, plans, cur, unsaved, storeVars, fileVars,
                 crashes, reruns, runs, achieved, cutOff, beyondUndo>>

\* Mutant: only the file is looked at, which the executive deletes with the last step.
PlanInFile(g) == planFile[g] = "kept"

\* The plan is in memory or in its file.
PlanKnown(g) == g \in plans \/ planFile[g] = "kept"

\* undo of write_file and edit_file: the backup is put back, and gone with that.
CanUndo(g) == PlanKnown(g) /\ g \in WritesFile /\ backups[g] # "none"
Undo(g) ==
  /\ effects' = IF backups[g] = "clean" THEN effects \ {g} ELSE effects
  /\ backups' = [backups EXCEPT ![g] = "none"]

\* Mutant: a node that is settled stays as it is.
KeepsWhenSettled(g) == state[g] \in Terminal

KeepsState(g) == state[g] = "cancelled"

\* What the plan wrote is undone where there is a plan to tell it, and an undo; one that
\* raises is passed over.  The node is reset all the same, unless it was cancelled.
ResetNode(g, raises) ==
  /\ phase = "rolling"
  /\ g \in rolling
  /\ raises => CanUndo(g)
  /\ IF KeepsState(g)
     THEN ~unsaved /\ UNCHANGED <<graphVars, unsaved, storeVars>>
     ELSE Transition(g, "pending") /\ UNCHANGED <<attempts, planFile>>
  /\ rolling' = rolling \ {g}
  /\ IF CanUndo(g) /\ ~raises THEN Undo(g) ELSE UNCHANGED fileVars
  /\ achieved' = achieved \ {g}
  /\ cutOff' = cutOff \ {g}
  /\ beyondUndo' = IF raises THEN beyondUndo \cup {g} ELSE beyondUndo
  /\ UNCHANGED <<plans, phase, cur, countVars, runs>>

RollbackDone ==
  /\ phase = "rolling"
  /\ ~unsaved
  /\ rolling = {}
  /\ phase' = "idle"
  /\ UNCHANGED <<graphVars, plans, cur, unsaved, rolling, storeVars, fileVars, historyVars>>

-----------------------------------------------------------------------------
(* The process stops and resumes, or the goal is asked for once more.      *)

Crash ==
  /\ phase # "down"
  /\ crashes < MaxCrashes
  /\ crashes' = crashes + 1
  /\ phase' = "down"
  /\ cur' = NoGoal
  /\ plans' = {}
  /\ unsaved' = FALSE
  /\ rolling' = {}
  /\ UNCHANGED <<graphVars, storeVars, fileVars, reruns, commands, runs, achieved, cutOff, beyondUndo>>

\* The file names are compared as text, so that 9 comes after 10.
NameKey(v) == IF v < 10 THEN 100 * v ELSE 10 * v + 1

IsLoaded(v) == v \in Saved /\ \A w \in Saved : NameKey(w) <= NameKey(v)

\* Mutant: what the snapshot says is running is run again, and the journal not read.
ReplayedFromSnapshot(v, g) ==
  IF snaps[v].state[g] = "executing" THEN "ready" ELSE snaps[v].state[g]

\* The state in the snapshot, unless there is one in the journal.
Replayed(v, g) == IF log[g] = "none" THEN snaps[v].state[g] ELSE log[g]

\* After a restart a plan is known by its file alone.
LostToUndo(v) == {g \in effects \cap WritesFile : snaps[v].planFile[g] # "kept"}

\* load() and resume().
Resume(v) ==
  /\ phase = "down"
  /\ IsLoaded(v)
  /\ state' = [g \in Goals |-> Replayed(v, g)]
  /\ attempts' = snaps[v].attempts
  /\ planFile' = snaps[v].planFile
  /\ version' = v
  /\ phase' = "idle"
  /\ unsaved' = TRUE
  /\ beyondUndo' = beyondUndo \cup LostToUndo(v)
  /\ UNCHANGED <<plans, cur, rolling, storeVars, fileVars, countVars, runs, achieved, cutOff>>

\* The same goal is decomposed again: a fresh graph of the same stable ids.
Rerun ==
  /\ \/ phase = "idle" /\ ~unsaved /\ Ready = {}
     \/ phase = "down" /\ Saved = {}
  /\ phase = "down" \/ reruns < MaxReruns
  /\ reruns' = IF phase = "down" THEN reruns ELSE reruns + 1
  /\ state' = FreshStates
  /\ attempts' = NoAttempts
  /\ planFile' = NoPlanFiles
  /\ version' = 1
  /\ phase' = "idle"
  /\ unsaved' = TRUE
  /\ plans' = {}
  /\ beyondUndo' = beyondUndo \cup (effects \cap WritesFile)
  /\ UNCHANGED <<cur, rolling, storeVars, fileVars, crashes, commands, runs, achieved, cutOff>>

Step ==
  \/ Save \/ AlreadySatisfied \/ RunPlan(TRUE) \/ RunPlan(FALSE)
  \/ PlanNotFailed(TRUE) \/ (Capped /\ PlanNotFailed(FALSE))
  \/ PlanFailsWithRetry \/ PlanFailsForGood
  \/ BlockingDone \/ CancelDone \/ RollbackDone
  \/ \E g \in Goals : Schedule(g) \/ Block(g) \/ CancelRest(g)
  \/ \E g \in Goals, raises \in BOOLEAN : ResetNode(g, raises)
  \/ \E v \in Saved : Resume(v)

Next == Step \/ Crash \/ Rerun \/ \E g \in Goals : Cancel(g) \/ Rollback(g)

Spec == Init /\ [][Next]_vars

\* The loop of run() goes on, and a stopped process is resumed.
FairSpec == Spec /\ WF_vars(Step)

-----------------------------------------------------------------------------
(* Properties *)

\* A plan is run only when everything its subgoal waits for really has been achieved,
\* or taken for done at the cap, and has not been rolled back since, in this process or
\* an earlier one.  As long as the latest snapshot is the last by name too, no plan is
\* run more often than its retry budget says, a crash, and a rollback, costing one run
\* more; after the tenth snapshot a restart may cost the whole budget, but never more.
OrderedByDependencies ==
  /\ phase = "running" => DependsOn[cur] \subseteq achieved \cup cutOff
  /\ \A g \in Goals :
       /\ reruns = 0 /\ Saved \subseteq 1 .. 9 =>
            runs[g] <= RetryBudget[g] + 1 + crashes + commands
       /\ runs[g] <= (RetryBudget[g] + 1) * (1 + reruns + crashes) + commands

\* model.py: DONE is "executed OR detected already-satisfied".  Whatever crashes, reruns
\* and rollbacks came between, a DONE node has been, since it was last rolled back; the
\* one other way to be DONE is a plan that was cut off by the cap.
DoneMeansAchieved ==
  phase # "down" => \A g \in Goals : state[g] = "done" => g \in achieved \cup cutOff

\* rollback_subtree: "Revert a subtree's effects ... and reset its nodes to PENDING".  A
\* PENDING node whose plan wrote a file has left nothing behind in it, unless its plan
\* wrote twice before it was rolled back (the backup is then of what the first run
\* wrote), an undo raised, or a restart knew nothing of the plan.
RollbackRestores ==
  phase # "down" =>
    \A g \in effects \cap WritesFile : state[g] = "pending" => g \in beyondUndo

\* The plan of an achieved subgoal is not run again, neither after a crash nor
\* when the goal is decomposed again (model.py: "a completed ID is never re-run").
CompletedNeverRerun ==
  [][\A g \in achieved : runs'[g] = runs[g]]_vars

\* A failure stays in its branch: a node is BLOCKED only below a failed or a
\* cancelled one.
FailureContained ==
  crashes = 0 /\ phase = "idle" =>
    \A g \in Goals : state[g] = "blocked" =>
      \E h \in Goals : g \in Descendants(h) /\ state[h] \in {"failed", "cancelled"}

\* When nothing is ready any more, every node is settled: nobody waits for ever
\* for something that can no longer become DONE.
NothingStranded ==
  phase = "idle" /\ Ready = {} => \A g \in Goals : state[g] \in Terminal

\* The run of a goal comes to an end.
RunEnds == <>[](phase = "idle" /\ Ready = {} /\ ~unsaved)
=============================================================================
