-------------------------------- MODULE Lessons --------------------------------
(* Lessons of real attempts (memory/lessons.py, experience_rerank.py): the        *)
(* executive appends one after a task, maintenance confirms, contradicts, retires *)
(* and expires them by rewriting the whole file, and consumers are shown the      *)
(* confident ones, if consumption is on at all.  Nothing is locked: a rewrite     *)
(* reads the file, truncates it and writes it, and a reader, a lesson added or a  *)
(* crash may come between.  One caller maintains, another one adds.               *)
(* Confidence is in hundredths; a lesson is about the options its words share.    *)
EXTENDS Values, Integers, Sequences, FiniteSets

CONSTANTS
  Subjects,       \* what a lesson may be about: sets of names of skills
  Confidences,    \* how sure the one who adds a lesson may be
  Ttl,            \* days without confirmation after which a lesson expires
  MaxLessons,     \* BOUND: lessons added
  MaxDays,        \* BOUND: the clock
  MaxRewrites,    \* BOUND: rewrites of the file
  MaxTears        \* BOUND: crashes in the middle of a rewrite

Kinds == {"success", "avoid", "neutral"}

\* `id` stands for the lesson itself (the code's, a count and a hash, may coincide);
\* `given`, the confidence it was added with, is history.
Lesson ==
  [id: Nat, kind: Kinds, about: Subjects, confidence: 0 .. 100, given : 0 .. 100,
   confirmed: Nat, contradicted: Nat, at: Nat, retired: BOOLEAN]

ASSUME LessonsAssumption ==
  /\ {Ttl, MaxLessons, MaxDays, MaxRewrites, MaxTears} \subseteq Nat
  /\ Confidences \subseteq 0 .. 100
  /\ None \notin Seq(Lesson)

VARIABLES
  lessons,    \* the lines of the file
  garbled,    \* is there more in it that is no line?  Then all() raises, for good.
  writing,    \* what a rewrite under way will have written, or None
  truncated,  \* has it emptied the file?
  consume,    \* is consumption on?
  day,
  \* history, not in the code
  added, rewrites, tears,
  overrun     \* lessons added while a rewrite was under way

lessonVars == <<lessons, garbled, writing, truncated, consume, day, added, rewrites, tears, overrun>>

Usual == 50
ConfidenceFloor == 20
RetireFloor == 15
RetireAt == 4
DecayStep == 20
Gain == 5

LessonsInit ==
  /\ lessons = <<>> /\ garbled = FALSE
  /\ writing = None /\ truncated = FALSE
  /\ consume \in BOOLEAN
  /\ day = 0 /\ added = 0 /\ rewrites = 0 /\ tears = 0 /\ overrun = {}

-----------------------------------------------------------------------------
(* The write path *)

\* add: a line at the end of the file as it is, confirmed as of now.  It counts the
\* lessons for a name, so the file must be readable.
Learn(kind, about, confidence) ==
  /\ ~garbled /\ added < MaxLessons
  /\ added' = added + 1
  /\ lessons' = Append(lessons,
       [id |-> added + 1, kind |-> kind, about |-> about, confidence |-> confidence,
        given |-> confidence, confirmed |-> 0, contradicted |-> 0, at |-> day, retired |-> FALSE])
  /\ overrun' = IF writing = None THEN overrun ELSE overrun \cup {added + 1}
  /\ UNCHANGED <<garbled, writing, truncated, consume, day, rewrites, tears>>

AtMost100(n) == IF n > 100 THEN 100 ELSE n
AtLeast0(n) == IF n < 0 THEN 0 ELSE n

Confirmed(l) ==
  [l EXCEPT !.confirmed = @ + 1, !.at = day, !.confidence = AtMost100(@ + Gain)]

\* A second contradiction of an unconfirmed lesson retires it, or the fourth of any.
Contradicted(l) ==
  LET less == AtLeast0(l.confidence - DecayStep)
  IN  [l EXCEPT !.contradicted = @ + 1, !.confidence = less,
                !.retired = less < RetireFloor \/ l.contradicted + 1 >= RetireAt]

\* A lesson confirmed once never expires.
Expires(l) == ~l.retired /\ day - l.at > Ttl /\ l.confirmed = 0

\* Mutant: only the lessons still in force are written back.
RewrittenActive(i, l) == SelectSeq([lessons EXCEPT ![i] = l], LAMBDA m : ~m.retired)

Rewritten(i, l) == [lessons EXCEPT ![i] = l]

\* Maintenance has read the file and has this to write.
Decide(new) ==
  /\ writing = None /\ ~garbled /\ rewrites < MaxRewrites
  /\ rewrites' = rewrites + 1
  /\ writing' = new
  /\ UNCHANGED <<lessons, garbled, truncated, consume, day, added, tears, overrun>>

Confirm(i) == ~lessons[i].retired /\ Decide(Rewritten(i, Confirmed(lessons[i])))
Contradict(i) == ~lessons[i].retired /\ Decide(Rewritten(i, Contradicted(lessons[i])))

\* retire and unretire: the flag only; what contradictions took stays taken.
SetAside(i, retired) ==
  /\ lessons[i].retired # retired
  /\ Decide(Rewritten(i, [lessons[i] EXCEPT !.retired = retired]))

Expire ==
  /\ \E i \in DOMAIN lessons : Expires(lessons[i])
  /\ Decide([i \in DOMAIN lessons |->
               IF Expires(lessons[i]) THEN [lessons[i] EXCEPT !.retired = TRUE] ELSE lessons[i]])

\* open("w"): the file is empty until the buffer is written.
Truncate ==
  /\ writing # None /\ ~truncated
  /\ lessons' = <<>>
  /\ truncated' = TRUE
  /\ UNCHANGED <<garbled, writing, consume, day, added, rewrites, tears, overrun>>

\* The first n lines go to the start of the file, over what was appended meanwhile: over
\* the first k lines of it, or over a part of the last one, whose rest is then no line.
Overlaid(n, k) == SubSeq(writing, 1, n) \o SubSeq(lessons, k + 1, Len(lessons))
Covered(n) == IF n = 0 \/ lessons = <<>> THEN {0} ELSE 1 .. Len(lessons)

WriteBack ==
  /\ writing # None /\ truncated
  /\ \E k \in Covered(Len(writing)) : lessons' = Overlaid(Len(writing), k)
  /\ garbled' \in {FALSE, lessons # <<>>}
  /\ writing' = None /\ truncated' = FALSE
  /\ UNCHANGED <<consume, day, added, rewrites, tears, overrun>>

\* A crash leaves the lines that had reached the file, the last one perhaps in part.
Tear ==
  /\ writing # None /\ truncated /\ tears < MaxTears
  /\ \E n \in 0 .. Len(writing) : \E k \in Covered(n) : lessons' = Overlaid(n, k)
  /\ garbled' \in BOOLEAN
  /\ writing' = None /\ truncated' = FALSE
  /\ tears' = tears + 1
  /\ UNCHANGED <<consume, day, added, rewrites, overrun>>

Tomorrow ==
  /\ day < MaxDays
  /\ day' = day + 1
  /\ UNCHANGED <<lessons, garbled, writing, truncated, consume, added, rewrites, tears, overrun>>

LessonsNext ==
  \/ \E kind \in Kinds, about \in Subjects, confidence \in Confidences :
       Learn(kind, about, confidence)
  \/ \E i \in DOMAIN lessons :
       Confirm(i) \/ Contradict(i) \/ \E retired \in BOOLEAN : SetAside(i, retired)
  \/ Expire \/ Truncate \/ WriteBack \/ Tear \/ Tomorrow

LessonsSpec == LessonsInit /\ [][LessonsNext]_lessonVars

-----------------------------------------------------------------------------
(* The consume path *)

\* ExperienceMemory.query: nothing at all while consumption is off.
Advice ==
  {i \in DOMAIN lessons :
     consume /\ ~lessons[i].retired /\ lessons[i].confidence >= ConfidenceFloor}

Evidence(option, kind) ==
  {i \in Advice : option \in lessons[i].about /\ lessons[i].kind = kind}

\* The sum of the confidences of these lessons, in hundredths.
Weight(ids) == Cardinality({p \in ids \X (1 .. 100) : p[2] <= lessons[p[1]].confidence})

\* experience_bias: what failed safely counts neither way.
Bias(option) == Weight(Evidence(option, "success")) - Weight(Evidence(option, "avoid"))

-----------------------------------------------------------------------------
\* Maintenance loses a lesson only by a crash that tears a rewrite, or if the lesson is
\* added while the file is being rewritten: every other one ever added is in the file,
\* once and in the order they came, also those withdrawn ("fully reversible"), and the
\* file can be read.
NothingForgotten ==
  writing = None /\ tears = 0 =>
    /\ (1 .. added) \ overrun \subseteq {lessons[i].id : i \in DOMAIN lessons}
    /\ \A i, j \in DOMAIN lessons : i < j => lessons[i].id < lessons[j].id
    /\ garbled => overrun # {}
=============================================================================
