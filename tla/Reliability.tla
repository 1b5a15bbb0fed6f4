------------------------------ MODULE Reliability ------------------------------
(* What is learnt of the sources of research (research/reliability.py): outcomes  *)
(* go to a journal, a source's standing is rebuilt from the tail of it, decays    *)
(* and can be withdrawn, and is kept in a snapshot written after the journal.     *)
(* Consumers order and weigh findings by it; nothing is ever dropped.             *)
(* Time is counted in months, confidence in ten-thousandths.                      *)
EXTENDS Integers, Sequences, FiniteSets, SequencesExt

CONSTANTS
  Sources,
  HistoryCap,     \* outcomes a standing is rebuilt from
  MaxJournal,     \* bound: lines in the journal
  MaxMonths,      \* bound: the clock
  MaxCrashes,     \* bound: crashes
  Nil

Confidences == 0 .. 10000
Standing == [supports : Nat, against : Nat, at : Nat, confidence : Confidences,
             trend : {"stale", "unreliable", "reliable", "mixed"}, retired : BOOLEAN]

ASSUME ReliabilityAssumption ==
  /\ HistoryCap \in Nat \ {0} /\ {MaxJournal, MaxMonths, MaxCrashes} \subseteq Nat
  /\ IsFiniteSet(Sources) /\ Nil \notin Standing

VARIABLES
  month,
  rjournal,   \* [kind, source, outcome, at]
  standing,   \* source -> its standing or Nil, in memory
  snapshot,   \* the same, in the file
  pending,    \* the standings an operation has journalled and not saved yet, or Nil
  withdrawn,  \* history: sources retired and not brought back
  unsaved,    \* history: a source's outcomes journalled since one was saved
  rcrashes

reliabilityVars == <<month, rjournal, standing, snapshot, pending, withdrawn, unsaved, rcrashes>>

Outcomes == {"validated", "contradicted", "neither"}
Floor == 2000
RetireFloor == 3500
Clip(n) == IF n < 0 THEN 0 ELSE IF n > 10000 THEN 10000 ELSE n
AtMost(n, bound) == IF n > bound THEN bound ELSE n

\* The share of the recorded outcomes that held, scaled down with age to no less than 0.3.
Confidence(supports, against, age) ==
  LET total == supports + against
      base == IF total = 0 THEN 5000
              ELSE Clip((10000 * (2 * supports + 1)) \div (2 * (total + 1))
                        - (5000 * against) \div total)
      recency == IF age >= 3 THEN 0 ELSE 10000 - (10000 * age) \div 3
  IN  (base * (IF recency < 3000 THEN 3000 ELSE recency)) \div 10000

Trend(supports, against, age) ==
  IF age > 1 /\ Confidence(supports, against, age) > 1000 THEN "stale"
  ELSE IF against > 2 * supports /\ against >= 3 THEN "unreliable"
  ELSE IF supports >= 3 /\ supports > against THEN "reliable"
  ELSE "mixed"

-----------------------------------------------------------------------------
(* The write paths *)

OutcomesOf(lines, source) ==
  {i \in DOMAIN lines : lines[i].source = source /\ lines[i].kind = "outcome"}

\* The last outcomes of a source, by their positions: fewer than HistoryCap come after.
Recent(lines, source) ==
  {i \in OutcomesOf(lines, source) :
     Cardinality({j \in OutcomesOf(lines, source) : j > i}) < HistoryCap}

Number(lines, source, outcome) ==
  Cardinality({i \in Recent(lines, source) : lines[i].outcome = outcome})

RetiredFlag(source) == standing[source] # Nil /\ standing[source].retired

\* Mutant: the new outcome is added to the standing at hand.
RebuiltIncrementally(lines, source) ==
  LET old(o) == IF standing[source] = Nil THEN 0
                ELSE IF o = "validated" THEN standing[source].supports ELSE standing[source].against
      Count(o) == old(o) + (IF Last(lines).outcome = o THEN 1 ELSE 0)
  IN  [supports |-> Count("validated"), against |-> Count("contradicted"), at |-> month,
       confidence |-> Confidence(Count("validated"), Count("contradicted"), 0),
       trend |-> Trend(Count("validated"), Count("contradicted"), 0),
       retired |-> RetiredFlag(source)]

\* _rebuild, at the time of the outcome: the age is nothing, and what decay took is back.
Rebuilt(lines, source) ==
  LET supports == Number(lines, source, "validated")
      against == Number(lines, source, "contradicted")
  IN  [supports |-> supports, against |-> against, at |-> month,
       confidence |-> Confidence(supports, against, 0),
       trend |-> Trend(supports, against, 0),
       retired |-> RetiredFlag(source)]

Ready == pending = Nil /\ Len(rjournal) < MaxJournal
Wrote(lines, standings) ==
  /\ rjournal' = rjournal \o lines
  /\ pending' = standings
  /\ UNCHANGED <<month, standing, snapshot, rcrashes>>
LineOf(kind, source, outcome) == [kind |-> kind, source |-> source, outcome |-> outcome]

\* record_outcome: validated and contradicted at once counts as contradicted.
RecordOutcome(source, outcome) ==
  LET line == LineOf("outcome", source, outcome)
  IN  /\ Ready
      /\ Wrote(<<line>>, [standing EXCEPT ![source] = Rebuilt(Append(rjournal, line), source)])
      /\ unsaved' = [unsaved EXCEPT ![source] = @ + 1]
      /\ UNCHANGED withdrawn

\* What one call of apply_decay makes of a standing.  The contradictions are taken off
\* what the last call left; their limit for a retirement has no effect of its own.
Decayed(s) ==
  LET age == month - s.at
      idle == IF age > 0 /\ s.supports = 0 /\ s.against = 0
              THEN IF s.confidence - 2 < Floor THEN Floor ELSE s.confidence - 2
              ELSE s.confidence
      less == IF s.against > 0 /\ s.trend # "stale"
              THEN Clip(idle - AtMost(250 * s.against, 5000)) ELSE idle
      trend == IF age > 1 THEN "stale" ELSE s.trend
  IN  [s EXCEPT !.confidence = less, !.trend = trend,
                !.retired = @ \/ less < RetireFloor]

ApplyDecay ==
  LET after == [s \in Sources |-> IF standing[s] = Nil THEN Nil ELSE Decayed(standing[s])]
      changed == {s \in Sources : after[s] # standing[s]}
      Kind(s) == IF after[s].retired # standing[s].retired THEN "retire" ELSE "decay"
      lines == SetToSeq({LineOf(Kind(s), s, Nil) : s \in changed})
  IN  /\ Ready /\ changed # {}
      /\ Wrote(lines, after)
      /\ UNCHANGED <<withdrawn, unsaved>>

\* retire_to_neutral and unretire.
SetRetired(source, retired) ==
  /\ Ready
  /\ standing[source] # Nil /\ standing[source].retired # retired
  /\ Wrote(<<LineOf(IF retired THEN "retire" ELSE "unretire", source, Nil)>>,
           [standing EXCEPT ![source].retired = retired])
  /\ withdrawn' = IF retired THEN withdrawn ELSE withdrawn \ {source}
  /\ UNCHANGED unsaved

\* The snapshot is replaced by a rename; now the operation is over.
Persist ==
  /\ pending # Nil
  /\ standing' = pending /\ snapshot' = pending
  /\ pending' = Nil
  /\ withdrawn' = withdrawn \cup {s \in Sources : pending[s] # Nil /\ pending[s].retired}
  /\ unsaved' = IF Last(rjournal).kind = "outcome"
                THEN [unsaved EXCEPT ![Last(rjournal).source] = 0] ELSE unsaved
  /\ UNCHANGED <<month, rjournal, rcrashes>>

\* A restart reads the snapshot only: what was journalled and not saved is left out
\* until the source's next outcome, a retirement for good.
Restart ==
  /\ rcrashes < MaxCrashes
  /\ rcrashes' = rcrashes + 1
  /\ standing' = snapshot
  /\ pending' = Nil
  /\ withdrawn' = {s \in Sources : snapshot[s] # Nil /\ snapshot[s].retired}
  /\ UNCHANGED <<month, rjournal, snapshot, unsaved>>

Month ==
  /\ month < MaxMonths /\ pending = Nil
  /\ month' = month + 1
  /\ UNCHANGED <<rjournal, standing, snapshot, pending, withdrawn, unsaved, rcrashes>>

-----------------------------------------------------------------------------
(* The queries *)

\* Mutant: the withdrawal is not looked at.
PreferredEvenRetired(source) ==
  standing[source] # Nil /\ standing[source].confidence >= Floor

Preferred(source) ==
  standing[source] # Nil /\ ~standing[source].retired /\ standing[source].confidence >= Floor

\* rank_findings: a stable sort, the sources in good standing first, by confidence.
Rank(findings) ==
  LET Key(i) == IF Preferred(findings[i]) THEN standing[findings[i]].confidence ELSE -1
      Before(i, j) == Key(i) > Key(j) \/ (Key(i) = Key(j) /\ i < j)
      Place(i) == 1 + Cardinality({j \in DOMAIN findings : Before(j, i)})
  IN  [k \in DOMAIN findings |-> findings[CHOOSE i \in DOMAIN findings : Place(i) = k]]

\* weight_confidence: an unproven source and a retired one keep their full weight.
Weight(source, confidence) ==
  IF ~Preferred(source) THEN confidence
  ELSE (confidence * (IF standing[source].confidence < 5000 THEN 5000 ELSE standing[source].confidence))
         \div 10000

-----------------------------------------------------------------------------
ReliabilityInit ==
  /\ month = 0 /\ rjournal = <<>>
  /\ standing = [s \in Sources |-> Nil] /\ snapshot = standing
  /\ pending = Nil /\ withdrawn = {} /\ rcrashes = 0
  /\ unsaved = [s \in Sources |-> 0]

ReliabilityNext ==
  \/ \E s \in Sources, o \in Outcomes : RecordOutcome(s, o)
  \/ \E s \in Sources, retired \in BOOLEAN : SetRetired(s, retired)
  \/ ApplyDecay \/ Persist \/ Restart \/ Month

ReliabilitySpec == ReliabilityInit /\ [][ReliabilityNext]_reliabilityVars

-----------------------------------------------------------------------------
(* Properties *)

\* Of a finding of each, a's comes last if b is preferred; both are still shown.
ComesAfter(a, b) ==
  LET ranked == Rank(<<a, b>>)
  IN  Range(ranked) = {a, b} /\ (Preferred(b) => ranked[Len(ranked)] = a)

\* A source withdrawn by the owner or by decay is preferred to no other, however many
\* outcomes speak for it later, until it is brought back; and it is still shown: an
\* order of findings loses none ("not blacklisted", "permutation; nothing dropped").
\* Nor does any standing raise the confidence of a finding, or take more than half of it.
WithdrawnNotPreferred ==
  pending = Nil =>
    /\ \A a \in withdrawn, b \in Sources : ComesAfter(a, b)
    /\ \A b \in Sources, c \in {0, 5000, 10000} : 2 * Weight(b, c) >= c /\ Weight(b, c) <= c

\* A standing counts every outcome in the tail of the journal but those a crash kept
\* out of the snapshot, and these too from the source's next outcome on.
LostOnlyByCrash ==
  pending = Nil =>
    \A s \in Sources :
      LET counted == IF standing[s] = Nil THEN 0 ELSE standing[s].supports + standing[s].against
      IN  Number(rjournal, s, "validated") + Number(rjournal, s, "contradicted") - counted
            <= unsaved[s]
=============================================================================
