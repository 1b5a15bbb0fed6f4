-------------------------------- MODULE MCAudit --------------------------------
(* Small instance of Audit: one record of every kind the audits tell apart. *)
EXTENDS Audit

Rec(store, stream, kind, id, step, value, raw, digest, line) ==
  [store |-> store, stream |-> stream, kind |-> kind, id |-> id, step |-> step,
   value |-> value, raw |-> raw, digest |-> digest, line |-> line, event |-> 0]

\* Two states of one subgoal, two plan files (no line), a checkpoint, a promotion and the
\* outcome of a rollback, research, memory and a record without an identifier.
MCRecords ==
  {Rec("hierarchy_journal", "hierarchy", "t", "g1", "s1", "executing", TRUE, "d1", 1),
   Rec("hierarchy_journal", "hierarchy", "t", "g1", "s1", "achieved", FALSE, "d2", 2),
   Rec("plan_store", "plans", "plan", "p1", None, "steps1", FALSE, "d1", 0),
   Rec("plan_store", "plans", "plan", "p2", None, "steps2", FALSE, "d2", 0),
   Rec("unattended_journal", "unattended", "session_checkpoint", "u1", None, None, FALSE, "d1", 1),
   Rec("unattended_journal", "unattended", "session_stopped", "u1", None, "halted", FALSE, "d2", 2),
   Rec("skill_learning", "skills", "skill_promotion", "k1", None, None, FALSE, "d1", 1),
   Rec("model_patch", "patches", "rollback", None, None, "succeeded", FALSE, "d1", 2),
   Rec("reliability_journal", "reliability", "outcome", "r1", None, "failed", TRUE, "d2", 1),
   Rec("memory_store", "memory", "step_result", "q1", None, None, FALSE, "d2", 1),
   Rec("jsonl_store", "experience", "journal_append", None, None, None, FALSE, "d1", 1)}

MCIdentities ==
  {None, Identity("skill_promotion", "memory", "k1", "d1")}
         \cup {Identity("skill_promotion", "skills", "k1", digest) : digest \in {"d1", "d2", None}}
         \cup {Identity("journal_append", "memory", "k1", digest) : digest \in {"d1", "d2"}}

\* A trace value, an object, and what has both a value of its own and a digest.
Known(own, digest) == [own |-> own, digest |-> digest]
MCSeen ==
  {None, Known("d1", None), Known("unknown", None), Known(None, "d1"), Known("d1", "d1"),
   Known("d2", "unknown")}

Observed(outcome, seen, evidence, gained, safe) ==
  [outcome |-> outcome, seen |-> seen, change |-> "chg", receipt |-> "rcpt",
   evidence |-> evidence, gained |-> gained, safe |-> safe, took |-> 1]

\* Every outcome with every identity, and what else can be wrong with a good one.
MCObservations ==
  {Observed(outcome, seen, <<"e1", "e1">>, {}, TRUE) :
     outcome \in {"succeeded", "failed", "not_attempted", None}, seen \in MCSeen}
  \cup {Observed("succeeded", Known("d1", "d1"), evidence, gained, safe) :
          evidence \in {<<"e1", "e1">>, <<"e1", "e2">>}, gained \in {{}, {"network"}}, safe \in BOOLEAN}

MCExpectations ==
  [outcome : {"succeeded", "failed"}, seen : MCSeen \cup {Known("d1", "d2"), Known("d1", "unknown")}]

MCDangerous == {"executing"}
MCExternalRoots == {99}
=============================================================================
