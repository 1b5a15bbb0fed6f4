------------------------------ MODULE TaskQueue ------------------------------
(***************************************************************************)
(* The persistent task queue (src/aetheris/controller/queue.py) as its     *)
(* clients see it: the latest journal record of every task, and the order  *)
(* of creation.  JournalQueue shows what that view costs when two clients  *)
(* use the journal at once.                                                *)
(***************************************************************************)
EXTENDS Integers, Sequences, FiniteSets

CONSTANTS Tasks,       \* ids of the tasks users may submit
          Priority     \* the priority each task is submitted with

ASSUME PriorityAssumption == Priority \in [Tasks -> Nat]

VARIABLES state,       \* latest recorded state of each task; "absent" before it is enqueued
          arrival      \* enqueued tasks in the order of created_at

queueVars == <<state, arrival>>

TaskState == {"queued", "planning", "executing", "done", "blocked", "failed", "waiting"}

InFlight == {"planning", "executing"}

Settled == {"done", "blocked", "failed", "waiting"}

\* Mutant: the row that lets a FAILED task be queued again is missing.
AllowedWithoutRetry(s) ==
  CASE s = "queued"    -> {"planning", "failed"}
    [] s = "planning"  -> {"executing", "blocked", "failed"}
    [] s = "executing" -> {"done", "blocked", "failed", "queued", "waiting"}
    [] s = "waiting"   -> {"queued", "failed"}
    [] s = "blocked"   -> {"queued"}
    [] OTHER           -> {}

\* The table _ALLOWED.
Allowed(s) ==
  CASE s = "queued"    -> {"planning", "failed"}
    [] s = "planning"  -> {"executing", "blocked", "failed"}
    [] s = "executing" -> {"done", "blocked", "failed", "queued", "waiting"}
    [] s = "waiting"   -> {"queued", "failed"}
    [] s \in {"blocked", "failed"} -> {"queued"}
    [] OTHER           -> {}

QueueInit ==
  /\ state = [t \in Tasks |-> "absent"]
  /\ arrival = << >>

Queued == {t \in Tasks : state[t] = "queued"}

ArrivedBefore(t, u) ==
  \E i, j \in DOMAIN arrival : i < j /\ arrival[i] = t /\ arrival[j] = u

\* The sort key of pending(): priority first, then age.
ServedBefore(t, u) ==
  \/ Priority[t] > Priority[u]
  \/ Priority[t] = Priority[u] /\ ArrivedBefore(t, u)

IsNextQueued(t) ==
  /\ t \in Queued
  /\ \A u \in Queued \ {t} : ServedBefore(t, u)

Enqueue(t) ==
  /\ state[t] = "absent"
  /\ state' = [state EXCEPT ![t] = "queued"]
  /\ arrival' = Append(arrival, t)

\* transition(): IllegalTransition is raised unless the table allows the move.
Transition(t, s) ==
  /\ s \in Allowed(state[t])
  /\ state' = [state EXCEPT ![t] = s]
  /\ arrival' = arrival

QueueNext == \E t \in Tasks : Enqueue(t) \/ \E s \in TaskState : Transition(t, s)

QueueSpec == QueueInit /\ [][QueueNext]_queueVars
=============================================================================
