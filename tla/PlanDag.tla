------------------------------- MODULE PlanDag -------------------------------
(***************************************************************************)
(* The multi-step plan of one task (src/aetheris/planner/plan.py): a       *)
(* sequence of steps, each waiting for the steps at the positions in its   *)
(* `deps`.  Positions are 1-based here and 0-based in the code.            *)
(*                                                                         *)
(* A step also carries two history fields the code does not have: `uid`,   *)
(* which step it is (its position changes when repairs are inserted), and  *)
(* `needs`, the uids it must really wait for.  `deps` is what the code     *)
(* computes with, `needs` is what it is for.                               *)
(***************************************************************************)
EXTENDS Integers, Sequences, FiniteSets

StepStatus == {"pending", "done", "failed", "blocked"}

Step == [uid: Nat, status: StepStatus, deps: SUBSET Nat, needs: SUBSET Nat]

Plan == Seq(Step)

DoneAt(plan) == {i \in DOMAIN plan : plan[i].status = "done"}

(***************************************************************************)
(* MultiStepPlan.next_ready: the first PENDING step whose dependencies are *)
(* all DONE.                                                               *)
(***************************************************************************)
ReadySteps(plan) ==
  {i \in DOMAIN plan : plan[i].status = "pending" /\ plan[i].deps \subseteq DoneAt(plan)}

IsNextReady(plan, i) ==
  /\ i \in ReadySteps(plan)
  /\ \A j \in ReadySteps(plan) : i <= j

\* Mutant: the last step is done.
LastIsDone(plan) == plan[Len(plan)].status = "done"

IsComplete(plan) == \A i \in DOMAIN plan : plan[i].status = "done"

\* Mutant: the status is set on a copy.
SetStatusOnCopy(plan, i, s) == plan

SetStatus(plan, i, s) == [plan EXCEPT ![i].status = s]

(***************************************************************************)
(* MultiStepPlan.insert_repair_after with the executive's rewiring of the  *)
(* failed step that follows it: n repairs go in right behind step i, each  *)
(* waiting for the one before it; dependencies of the LATER steps on       *)
(* positions behind i move up by n; the failed step is PENDING again and   *)
(* waits for the last repair only.                                         *)
(***************************************************************************)
ShiftDeps(deps, i, n) == {IF d > i THEN d + n ELSE d : d \in deps}

RepairStep(plan, i, k) ==
  [uid    |-> Len(plan) + k,
   status |-> "pending",
   deps   |-> IF k = 1 THEN {} ELSE {i + k - 1},
   needs  |-> (Len(plan) + 1) .. (Len(plan) + k - 1)]

InsertRepairAfter(plan, i, n) ==
  [j \in 1 .. (Len(plan) + n) |->
     CASE j <= i               -> plan[j]
       [] j > i /\ j <= i + n  -> RepairStep(plan, i, j - i)
       [] OTHER                -> [plan[j - n] EXCEPT !.deps = ShiftDeps(@, i, n)]]

\* Mutant: the failed step goes on waiting for what it waited for.
RewireForgotten(plan, i, n) ==
  [plan EXCEPT ![i].status = "pending",
               ![i].needs  = @ \cup ((Len(plan) - n + 1) .. Len(plan))]

RewireFailed(plan, i, n) ==
  [plan EXCEPT ![i].status = "pending",
               ![i].deps   = {i + n},
               ![i].needs  = @ \cup ((Len(plan) - n + 1) .. Len(plan))]

Repaired(plan, i, n) == RewireFailed(InsertRepairAfter(plan, i, n), i, n)

(***************************************************************************)
(* MultiStepPlan.is_valid_dag: every dependency points at an earlier step. *)
(* Forward-only dependencies are acyclic, so the code's second loop (a     *)
(* topological sort) always succeeds once the first has.                   *)
(***************************************************************************)
IsForward(plan) == \A i \in DOMAIN plan : plan[i].deps \subseteq 1 .. (i - 1)

=============================================================================
