----------------------------- MODULE MCExecutive -----------------------------
(* Small instances of Executive for TLC. *)
EXTENDS Executive

CONSTANTS t1, t2

Fresh(u, ds) == [uid |-> u, status |-> "pending", deps |-> ds, needs |-> ds]

OneStep == <<Fresh(1, {})>>
TwoSteps == <<Fresh(1, {}), Fresh(2, {1})>>

Short == {OneStep, TwoSteps}
Single == {OneStep}

EqualPriority == [t \in Tasks |-> 0]
SecondFirst == [t \in Tasks |-> IF t = t2 THEN 1 ELSE 0]
=============================================================================
