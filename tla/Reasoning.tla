------------------------------- MODULE Reasoning -------------------------------
(* The advisor (src/aetheris/reasoning/engine.py): it weighs what is known, ranks *)
(* a fixed list of approaches and recommends the first one, or abstains where it  *)
(* is not sure enough or its time is up.  Scores and confidence are in hundredths.*)
EXTENDS Values, Sorting, Integers, Sequences, FiniteSets

CONSTANTS
  MaxDepth, MaxHypotheses, MaxFanIn, Floor,   \* ReasoningBudget
  EvidenceSet, Extras,   \* what may be known, what the model may add (None: nothing)
  MaxThoughts            \* bound of the model: how much is written down

ASSUME ReasoningAssumption ==
  {MaxDepth, MaxHypotheses, MaxThoughts} \subseteq Nat /\ MaxFanIn \in Nat \ 0..6 /\ Floor \in 0..100

VARIABLE thoughts   \* the engine's journal

Seams == {"planner", "reflection", "learning"}

Approaches(seam) ==
  CASE seam = "planner" -> <<"use_matching_skill", "decompose_plan", "inspect_then_plan">>
    [] seam = "reflection" -> <<"retry_step", "repair_and_retry", "request_context">>
    [] seam = "learning" -> <<"adopt", "reject", "defer">>

\* What is known: whether the repository was scanned, what a failing step printed,
\* the kinds of trouble in the history, whether there are skills, how many lessons
\* there are, which approach they name and whether they name a clear failure.
Situation ==
  [facts: BOOLEAN, failure: {None, "plain", "clear"}, kinds: 0..3, skills: BOOLEAN,
   lessons: Nat, naming: {None, "use_matching_skill", "repair_and_retry", "adopt"}, clear: BOOLEAN]

ASSUME EvidenceAssumption == EvidenceSet \subseteq Situation

Lesser(m, n) == IF m < n THEN m ELSE n
Count(b) == IF b THEN 1 ELSE 0

\* Observations are cut at the fan-in; the lessons, which come last, go first.
Others(e) == Count(e.facts) + Count(e.failure # None) + e.kinds + Count(e.skills)
Observed(e) == Lesser(MaxFanIn, Others(e) + e.lessons)
LessonsSeen(e) == Observed(e) - Others(e)
ClearFailure(e) == e.failure = "clear" \/ (e.clear /\ LessonsSeen(e) > 0)
Uncertain(e) == Observed(e) < 2

\* Each lesson that names an approach supports it; without any observation the one
\* assumption that then carries the weight costs a fifth.
Score(e, approach) ==
  LET support == IF e.naming = approach THEN LessonsSeen(e) ELSE 0 IN
  (Lesser(100, 50 + 10 * support) * (IF Observed(e) = 0 THEN 8 ELSE 10)) \div 10

\* Best first; equals keep their order.
BestFirst(candidates) ==
  SortedBy(candidates, {p \in (DOMAIN candidates) \X (DOMAIN candidates) :
                         \/ candidates[p[1]].score > candidates[p[2]].score
                         \/ (candidates[p[1]].score = candidates[p[2]].score /\ p[1] < p[2])})

Scored(e, seam) ==
  LET listed == SubSeq(Approaches(seam), 1, Lesser(MaxHypotheses, 3)) IN
  BestFirst([n \in DOMAIN listed |-> [approach |-> listed[n], score |-> Score(e, listed[n])]])

\* A model may add a candidate of its own, which nothing looks at.
Enriched(candidates, extra) ==
  IF extra = None THEN candidates ELSE Append(candidates, [approach |-> extra, score |-> 60])

Risks(candidates) ==
  Cardinality({n \in DOMAIN candidates : candidates[n].approach \in {"repair_and_retry", "adopt"}})

\* Refining sorts again; the risks are never high, so no score changes.
Refined(candidates, rounds) == IF rounds > 0 /\ candidates # <<>> THEN BestFirst(candidates) ELSE candidates

ConfidenceIn(e, candidates) ==
  LET spread == Len(candidates) >= 2 /\ candidates[1].score > candidates[Len(candidates)].score + 20 IN
  IF candidates = <<>> THEN 0
  ELSE (IF Observed(e) = 0 THEN 40 ELSE 50 + Lesser(30, 5 * Observed(e)))
       + 10 * Count(spread) + 15 * Count(ClearFailure(e)) - 5 * Count(Uncertain(e)) - 5 * Risks(candidates)

\* Two risks taken off in floating point leave a sum at the floor just below it.
SureEnough(e, candidates) ==
  /\ ConfidenceIn(e, candidates) >= Floor
  /\ ConfidenceIn(e, candidates) = Floor => Risks(candidates) < 2

\* The time left: whether the model is still asked, how often refinement goes
\* round, and whether the answer is in time.
Clocks == {c \in [asks: BOOLEAN, rounds: 0..MaxDepth, intime: BOOLEAN] : c.rounds > 0 => c.asks}

Deliberation(e, seam, extra, clock) ==
  LET listed == Scored(e, seam)
      candidates == Refined(IF clock.asks THEN Enriched(listed, extra) ELSE listed, clock.rounds)
      advised == candidates # <<>> /\ SureEnough(e, candidates) /\ clock.intime
  IN [seam |-> seam, abstained |-> ~advised, observations |-> Observed(e), clear |-> ClearFailure(e),
      approach |-> IF advised THEN candidates[1].approach ELSE None,
      hypotheses |-> IF advised THEN Len(candidates) ELSE 0]

\* All that may be advised, whatever is known and however long it takes.
Advices(seam) ==
  {Deliberation(e, seam, extra, clock) :
     e \in {x \in EvidenceSet : x.failure # None <=> seam = "reflection"}, extra \in Extras, clock \in Clocks}

\* Only advice is written down.
Journalled(advice) == IF advice.abstained THEN thoughts ELSE Append(thoughts, advice)

\* Learning asks before it adopts; reflection asks when it repairs, and writes down
\* what it was told a second time, abstentions with it.
Deliberate(seam) ==
  /\ Len(thoughts) < MaxThoughts
  /\ \E advice \in Advices(seam) :
       thoughts' = IF seam = "reflection" THEN Append(Journalled(advice), advice) ELSE Journalled(advice)
=============================================================================
