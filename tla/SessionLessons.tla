----------------------------- MODULE SessionLessons -----------------------------
(* Session outcome learning and the supervisor that consults it                   *)
(* (unattended/outcome_learning.py, supervisor.py: start, resume and the outcome  *)
(* of a session).  A session that ends or is paused leaves one record in an       *)
(* append-only journal; extraction turns the records of a workload shape into one *)
(* lesson; the next start of that shape may be deferred or run under tighter      *)
(* bounds.  What a session does is one step: it comes back with an outcome.       *)
EXTENDS Values, Integers, Sequences, FiniteSets

CONSTANTS
  Frontiers,     \* what a session works on
  Profiles,      \* the bounds a lesson may suggest, by name
  Configured,    \* the bounds the supervisor may be built with
  MinSupport,    \* MIN_SUPPORT
  HistoryCap,    \* HISTORY_CAP
  MaxRecords,    \* bound: records in the journal
  MaxRestarts,   \* bound: restarts of the process
  MaxVersion     \* bound: versions of a lesson, so of extractions

Bounds == [clock : Nat, steps : Nat, failures : Nat, ticks : Nat]

ASSUME SessionLessonsAssumption ==
  /\ Configured \subseteq Bounds /\ \A p \in DOMAIN Profiles : Profiles[p] \in Bounds
  /\ {MinSupport, HistoryCap} \subseteq Nat \ {0}
  /\ {MaxRecords, MaxRestarts, MaxVersion} \subseteq Nat

VARIABLES
  journal,    \* every record ever appended: [shape, outcome]
  records,    \* those the process works with: lines of the journal
  advice,    \* shape -> lesson or None, in memory
  index,      \* the same, in the index file
  own,        \* the supervisor's bounds
  withdrawn,  \* shapes withdrawn by the owner or by decay (_retired)
  paused,     \* sessions that can be resumed: [frontier, bounds]
  \* history, not in the code
  held,       \* shapes whose lesson the owner withdrew and did not bring back
  forgotten,  \* those of them that had no lesson when the process was restarted
  restarts

fileVars == <<journal, index>>
memVars  == <<records, advice, withdrawn, own>>
histVars == <<held, forgotten, restarts>>
sessionVars == <<fileVars, memVars, paused, histVars>>

Clean == {"clean_complete", "paused_recovered", "crash_recovered"}

\* Sessions are grouped by what they work on and by their bounds.
ShapeFrom(frontier, bounds) ==
  [frontier |-> frontier, profile |-> <<bounds.steps, bounds.ticks>>]
Shapes == {ShapeFrom(f, b) : f \in Frontiers, b \in Configured \cup {Profiles[p] : p \in DOMAIN Profiles}}

\* How a session leaves the loop: its state, and whether it was stalled when paused.
Endings == [state : {"completed", "stopped", "failed", "paused"}, stalled : {FALSE}]
           \cup {[state |-> "paused", stalled |-> TRUE]}

OutcomeOf(end) ==
  CASE end.state = "failed"  -> "failed"
    [] end.state = "stopped" -> "stopped_for_review"
    [] end.state = "paused" -> IF end.stalled THEN "stalled" ELSE "paused_recovered"
    [] OTHER -> "clean_complete"

-----------------------------------------------------------------------------
(* Aggregation *)

Of(lines, shape) == {i \in lines : journal[i].shape = shape}

\* Of these lines of the file, the last HistoryCap of each shape.
Capped(file, lines) ==
  LET Later(i) == {j \in lines : j >= i /\ file[j].shape = file[i].shape}
  IN  {i \in lines : Cardinality(Later(i)) <= HistoryCap}

Aggregate(lines, shape) ==
  LET Number(outcomes) == Cardinality({i \in Of(lines, shape) : journal[i].outcome \in outcomes})
  IN  [total |-> Cardinality(Of(lines, shape)), clean |-> Number(Clean), stall |-> Number({"stalled"}),
       review |-> Number({"stopped_for_review"}), failed |-> Number({"failed"})]

\* The share a of a + b, in hundredths; nothing at all supports nothing.
Confidence(a, b) == IF a + b = 0 THEN 0 ELSE (100 * a) \div (a + b)

NoVerdict == [verdict |-> None, confidence |-> 0, profile |-> None]

Classify(c) ==
  LET against == c.stall + c.review + c.failed
      Majority(k) == 10 * k >= 7 * c.total
      Lesson(v, conf, p) == [verdict |-> v, confidence |-> conf, profile |-> p]
  IN  IF c.total < MinSupport THEN NoVerdict
      ELSE IF Majority(c.review) \/ 2 * c.failed >= c.total THEN
             Lesson("likely_needs_review", Confidence(c.review + c.failed, c.clean), None)
      ELSE IF Majority(c.stall) THEN
             Lesson("likely_stall", Confidence(c.stall, c.clean + c.review + c.failed), None)
      ELSE IF Majority(c.clean) THEN
             IF against = 0 THEN Lesson("safe_unattended", Confidence(c.clean, 0), None)
             ELSE Lesson("safe_only_tighter_bounds", Confidence(c.clean, against), "tighter")
      ELSE NoVerdict

-----------------------------------------------------------------------------
(* What the supervisor asks *)

\* A lesson counts while it is not withdrawn and its confidence reaches 0.6.
ForecastFrom(ls, shape) ==
  LET lesson == ls[shape]
  IN  IF lesson = None \/ lesson.retired \/ lesson.confidence < 60 THEN None ELSE lesson
Forecast(shape) == ForecastFrom(advice, shape)

IsEqualOrTighter(a, b) == \A limit \in DOMAIN a : a[limit] <= b[limit]

SuggestedBounds(shape, default) ==
  LET lesson == Forecast(shape)
  IN  IF /\ lesson # None /\ lesson.verdict = "safe_only_tighter_bounds"
         /\ lesson.profile \in DOMAIN Profiles
         /\ IsEqualOrTighter(Profiles[lesson.profile], default)
      THEN Profiles[lesson.profile]
      ELSE default

\* Where start asks, before it knows the bounds: under its own default.
StartShape(frontier) == ShapeFrom(frontier, own)

Deferred(frontier) ==
  LET lesson == Forecast(StartShape(frontier))
  IN  lesson # None /\ lesson.verdict = "likely_needs_review"

-----------------------------------------------------------------------------
(* Sessions *)

\* record: one line in the journal, and the process's records cut to size.
Record(shape, end) ==
  LET file == Append(journal, [shape |-> shape, outcome |-> OutcomeOf(end)])
  IN  /\ Len(journal) < MaxRecords
      /\ journal' = file
      /\ records' = Capped(file, records \cup {Len(file)})

Paused(end, frontier, bounds) ==
  IF end.state = "paused" THEN {[frontier |-> frontier, bounds |-> bounds]} ELSE {}

\* A start that goes ahead: the outcome is filed under the bounds it had.
Start(frontier, end) ==
  LET bounds == SuggestedBounds(StartShape(frontier), own)
  IN  /\ ~Deferred(frontier)
      /\ Record(ShapeFrom(frontier, bounds), end)
      /\ paused' = paused \cup Paused(end, frontier, bounds)
      /\ UNCHANGED <<index, advice, withdrawn, own, histVars>>

\* A start that is left to a human: paused before its first step, and recorded.
Defer(frontier) ==
  LET end == [state |-> "paused", stalled |-> FALSE]
  IN  /\ Deferred(frontier)
      /\ Record(StartShape(frontier), end)
      /\ paused' = paused \cup Paused(end, frontier, own)
      /\ UNCHANGED <<index, advice, withdrawn, own, histVars>>

\* A paused session is resumed under the bounds it has, and recorded once more.
Resume(session, end) ==
  /\ session \in paused
  /\ Record(ShapeFrom(session.frontier, session.bounds), end)
  /\ paused' = (paused \ {session}) \cup Paused(end, session.frontier, session.bounds)
  /\ UNCHANGED <<index, advice, withdrawn, own, histVars>>

-----------------------------------------------------------------------------
(* Maintenance *)

WithLessons(ls) == advice' = ls /\ index' = ls

LessonOf(shape, v, retired) ==
  [verdict |-> v.verdict, confidence |-> v.confidence, profile |-> v.profile, retired |-> retired,
   version |-> IF advice[shape] = None THEN 1 ELSE advice[shape].version + 1]

\* Mutant: the new lessons come without the flag.
ExtractedAfresh ==
  [shape \in Shapes |->
     LET v == Classify(Aggregate(records, shape))
     IN  IF v.verdict = None THEN None ELSE LessonOf(shape, v, FALSE)]

\* extract_lessons: every shape anew from the records; a shape without a verdict
\* loses its lesson, a withdrawn shape keeps its flag.
Extracted ==
  [shape \in Shapes |->
     LET v == Classify(Aggregate(records, shape))
     IN  IF v.verdict = None THEN None ELSE LessonOf(shape, v, shape \in withdrawn)]

ExtractLessons ==
  LET ls == Extracted
  IN  /\ \A s \in Shapes : ls[s] # None => ls[s].version <= MaxVersion
      /\ WithLessons(ls)
      /\ UNCHANGED <<journal, records, withdrawn, own, paused, histVars>>

Unsupported(shape) ==
  /\ advice[shape] # None /\ ~advice[shape].retired
  /\ Classify(Aggregate(records, shape)).verdict = None

\* apply_decay: a lesson the records no longer support is withdrawn, one whose
\* verdict changed is left as it is.
ApplyDecay ==
  LET stale == {s \in Shapes : Unsupported(s)}
  IN  /\ stale # {}
      /\ WithLessons([s \in Shapes |->
                        IF s \in stale THEN [advice[s] EXCEPT !.retired = TRUE, !.confidence = 0]
                        ELSE advice[s]])
      /\ withdrawn' = withdrawn \cup stale
      /\ UNCHANGED <<journal, records, own, paused, histVars>>

SetRetired(shape, retired) == [advice EXCEPT ![shape].retired = retired]

\* Mutant: only the lessons in memory change.
SavedLate(ls) == index
\* _write_index: by a rename, so the file holds all lessons or is as it was.
Saved(ls) == ls

RetireLesson(shape) ==
  /\ advice[shape] # None
  /\ advice' = SetRetired(shape, TRUE) /\ index' = Saved(SetRetired(shape, TRUE))
  /\ withdrawn' = withdrawn \cup {shape}
  /\ held' = held \cup {shape} /\ forgotten' = forgotten \ {shape}
  /\ UNCHANGED <<journal, records, own, paused, restarts>>

Unretire(shape) ==
  /\ advice[shape] # None
  /\ advice' = SetRetired(shape, FALSE) /\ index' = Saved(SetRetired(shape, FALSE))
  /\ withdrawn' = withdrawn \ {shape}
  /\ held' = held \ {shape} /\ forgotten' = forgotten \ {shape}
  /\ UNCHANGED <<journal, records, own, paused, restarts>>

\* _load, and a supervisor that may be built with other bounds: a flag is remembered by
\* the lesson that carries it, so the hold on a shape whose lesson was dropped is gone.
Restart ==
  /\ restarts < MaxRestarts
  /\ restarts' = restarts + 1
  /\ records' = Capped(journal, DOMAIN journal)
  /\ advice' = index
  /\ withdrawn' = {s \in Shapes : index[s] # None /\ index[s].retired}
  /\ own' \in Configured
  /\ forgotten' = forgotten \cup {s \in held : index[s] = None}
  /\ UNCHANGED <<fileVars, paused, held>>

-----------------------------------------------------------------------------
SessionsInit ==
  /\ journal = <<>> /\ records = {}
  /\ advice = [s \in Shapes |-> None] /\ index = advice
  /\ withdrawn = {} /\ paused = {} /\ held = {} /\ forgotten = {}
  /\ own \in Configured
  /\ restarts = 0

Session ==
  \E f \in Frontiers :
    \/ \E end \in Endings : Start(f, end)
    \/ Defer(f)
ResumeAny == \E s \in paused, end \in Endings : Resume(s, end)
Owner == \E shape \in Shapes : RetireLesson(shape) \/ Unretire(shape)

SessionsNext == Session \/ ResumeAny \/ Owner \/ ExtractLessons \/ ApplyDecay \/ Restart

SessionsSpec == SessionsInit /\ [][SessionsNext]_sessionVars

-----------------------------------------------------------------------------
(* Properties *)

\* A lesson the owner withdrew advises nobody, through later records, extractions and
\* decay, until he brings it back.  A restart keeps the hold on a shape that has a
\* lesson then; it forgets the hold when the lesson had been dropped for want of
\* evidence, and from then on the shape is learned anew (forgotten).
HoldRespected == \A shape \in held \ forgotten : Forecast(shape) = None

\* A restart changes no advice: what the process would answer is what the files say.
RestartKeepsAdvice ==
  \A shape \in Shapes :
    /\ Forecast(shape) = ForecastFrom(index, shape)
    /\ Aggregate(records, shape) = Aggregate(Capped(journal, DOMAIN journal), shape)
=============================================================================
