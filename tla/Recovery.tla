------------------------------- MODULE Recovery -------------------------------
(***************************************************************************)
(* Recovery drills: how an observed rollback is classified, verified and   *)
(* scored (src/aetheris/evaluation/recovery_verify.py), and the fixture    *)
(* scenarios the drill script runs (scripts/run_recovery_drill.py).        *)
(*                                                                         *)
(* An observation is                                                       *)
(*   outcome   what the rollback reported     seen      observed identity  *)
(*   change, receipt  the linked ids          evidence  <<before, after>>  *)
(*   gained    authority held only after it   safe      its safety checks  *)
(*   took      its duration                             all passed         *)
(* and an expectation [outcome, seen].  None: not known, and for outcome   *)
(* that the observation has none, as RollbackObservation.  An identity is  *)
(* None or what its attributes say when they are compared:                 *)
(*   own     its own state and value, None: it has none of its own         *)
(*   digest  those of its digest, None: it has no digest                   *)
(* A TraceValue has the first only, an ObjectIdentity the second.  Two     *)
(* values that are unknown compare as equal.                               *)
(***************************************************************************)
EXTENDS Values, Integers, Sequences, SequencesExt, FiniteSets, TLC

Classes == {"exact", "partial", "blocked", "failed", "unknown", "not_applicable", "invalid"}

-----------------------------------------------------------------------------
(* One scenario *)

\* Mutant: a success that was expected counts as exact without comparing the digests.
ClassifyTrusting(obs, expected) ==
  CASE obs.outcome = "succeeded" /\ expected.outcome = "succeeded" -> "exact"
    [] obs.outcome \in {"blocked", "failed", "partial"} -> obs.outcome
    [] obs.outcome = "not_attempted" -> "not_applicable"
    [] OTHER -> "unknown"

DigestOf(identity) == IF identity = None THEN None ELSE identity.digest

\* classify_outcome looks at digests only, and neither at the receipt nor at evidence,
\* authority or safety.
ClassifyOutcome(obs, expected) ==
  CASE /\ obs.outcome = "succeeded" /\ expected.outcome = "succeeded"
       /\ None \notin {DigestOf(obs.seen), DigestOf(expected.seen)}
       -> IF DigestOf(obs.seen) = DigestOf(expected.seen) THEN "exact" ELSE "partial"
    [] obs.outcome \in {"blocked", "failed", "partial"} -> obs.outcome
    [] obs.outcome = "not_attempted" -> "not_applicable"
    [] OTHER -> "unknown"

\* verify_receipt_linkage
Linked(changeId, receiptChangeId) ==
  None \notin {changeId, receiptChangeId} /\ changeId = receiptChangeId

\* verify_identity_match reads the state and value of both, of what has none it raises.
Comparable(observed, expected) ==
  None \notin {observed, expected} => None \notin {observed.own, expected.own}
SameIdentity(observed, expected) ==
  IF None \in {observed, expected} THEN observed = expected ELSE observed.own = expected.own

\* verify_sequence_order: the declared scenarios run in the order they are declared in.
InOrder(ids, declared) ==
  LET ran == SelectSeq(ids, LAMBDA id : id \in ToSet(declared))
      Rank(id) == SelectLastInSeq(declared, LAMBDA d : d = id)
  IN declared = <<>> \/ \A i \in 2 .. Len(ran) : Rank(ran[i - 1]) <= Rank(ran[i])

\* verify_scenario, of identities that can be compared.  It compares the change set's id
\* with the receipt's own id.
VerifyScenario(obs, expected, ids, declared) ==
  [class |-> ClassifyOutcome(obs, expected),
   linked |-> Linked(obs.change, obs.receipt),
   matches |-> SameIdentity(obs.seen, expected.seen),
   preserved |-> obs.evidence[1] = obs.evidence[2],
   gained |-> Cardinality(obs.gained), safe |-> obs.safe,
   ordered |-> InOrder(ids, declared), took |-> obs.took]

-----------------------------------------------------------------------------
(* The drill *)

Counted(verified, Test(_)) == Cardinality({i \in DOMAIN verified : Test(verified[i])})

\* What all scenarios together gained.
Gained(verified) == Cardinality(UNION {{i} \X (1 .. verified[i].gained) : i \in DOMAIN verified})

Metrics(verified) ==
  LET count == [class \in Classes |-> Counted(verified, LAMBDA v : v.class = class)]
      eligible == Counted(verified, LAMBDA v : v.class \in {"exact", "partial", "failed", "unknown"})
      durations == SortSeq(SelectSeq([i \in DOMAIN verified |-> verified[i].took],
                                     LAMBDA d : d > 0), <)
      n == Len(durations)
      last == (n * 95) \div 100
      At(index) == IF n = 0 THEN 0 ELSE durations[index + 1]
  IN [count |-> count, total |-> Len(verified), eligible |-> eligible,
      exactRate |-> <<count["exact"], eligible>>,
      median |-> At(n \div 2), p95 |-> At(IF last < n THEN last ELSE n - 1),
      regressions |-> {i \in DOMAIN verified : verified[i].class = "invalid"},
      unsafe |-> Counted(verified, LAMBDA v : ~v.safe),
      gained |-> Gained(verified),
      preserved |-> \A i \in DOMAIN verified : verified[i].preserved]

\* determine_verdict: evidence that was not preserved is not asked for.
Verdict(m) ==
  IF m.unsafe > 0 \/ m.gained > 0 \/ m.count["invalid"] > 0 THEN "reject"
  ELSE IF m.count["exact"] = m.total /\ m.total > 0 THEN "pass"
  ELSE "hold"

\* ALL_SCENARIOS: <<kind of rollback, outcome it is expected to have>>.
Scenarios ==
  <<<<"restore_snapshot", "succeeded">>, <<"git_revert", "succeeded">>,
    <<"restore_snapshot", "succeeded">>, <<"config_disable", "succeeded">>,
    <<"resume_checkpoint", "succeeded">>, <<"discard_sandbox", "succeeded">>,
    <<"not_applicable", "not_attempted">>, <<"restore_snapshot", "partial">>,
    <<"restore_snapshot", "partial">>, <<"restore_snapshot", "blocked">>,
    <<"restore_snapshot", "failed">>, <<"restore_snapshot", "unknown">>>>

\* The runner of each scenario reports its expected outcome, the Git one only if git can
\* revert: it reverts the commit before HEAD, the one that created the file.
FixtureOutcome(scenario, reverted) ==
  IF scenario[1] = "git_revert" /\ ~reverted THEN "failed" ELSE scenario[2]

\* run_scenario: the runner's result is a dictionary, in which classify_outcome sees no
\* attribute, so every scenario is classified as unknown; the rest is filled in.
DrillScenario(scenario, reverted) ==
  [class |-> "unknown", reported |-> FixtureOutcome(scenario, reverted),
   linked |-> TRUE, matches |-> TRUE, preserved |-> TRUE, gained |-> 0, safe |-> TRUE,
   ordered |-> TRUE, took |-> 1]

\* run_all_scenarios; main exits with 0 only on a pass.
DrillVerdict(reverted) ==
  Verdict(Metrics([i \in DOMAIN Scenarios |-> DrillScenario(Scenarios[i], reverted)]))
=============================================================================
