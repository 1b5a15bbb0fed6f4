----------------------------- MODULE MCSupervisor -----------------------------
(* Small instances of Supervisor for TLC: what the consult may advise. *)
EXTENDS Supervisor

\* A lesson may take one step off the bounds, or none.
Tightened == {MaxSteps - 1, MaxSteps}

\* The whole window, or one that a stall prior has shrunk.
ShrinkingWindow == {2, 3}
=============================================================================
