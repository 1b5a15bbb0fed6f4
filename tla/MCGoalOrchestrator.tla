-------------------------- MODULE MCGoalOrchestrator --------------------------
(* Finite graphs of subgoals for GoalOrchestrator. *)
EXTENDS GoalOrchestrator, TLC

CONSTANTS a, b, c

\* a <- b, and c on its own.
Branches == (a :> {}) @@ (b :> {a}) @@ (c :> {})

\* c waits for both a and b.
Join == (a :> {}) @@ (b :> {}) @@ (c :> {a, b})

Chain == (a :> {}) @@ (b :> {a}) @@ (c :> {b})

Ranks == (a :> 1) @@ (b :> 2) @@ (c :> 3)

Once == [g \in Goals |-> 1]

Never == [g \in Goals |-> 0]

\* The default of retry_budget.
Twice == [g \in Goals |-> 2]

\* The plans of b and c call the shell.
FilesA == {a}

NoSymbols == {}

SymbolB == {b}

\* Of the snapshots only the last by name can ever be read, now or later (IsLoaded): no
\* file is deleted, and another number takes its place only with a later name.
AllButOldSnapshots ==
  <<graphVars, plans, phase, cur, unsaved, rolling, log, fileVars, historyVars,
    Saved \subseteq 1 .. 9, {<<v, snaps[v]>> : v \in {w \in Saved : IsLoaded(w)}}>>
=============================================================================
