------------------------------ MODULE AdviceProofs ------------------------------
(* Theorems about what learns from past work, and what plans with it: the lessons *)
(* of attempts (Lessons), the skills they retire (Skills), the lessons of         *)
(* sessions (SessionLessons), how a task becomes a plan (Planner), how the        *)
(* advisor's word does (RepoAware), and a model's patch an edit (Patching).       *)
EXTENDS Skills, SessionLessons, Planner, RepoAware, Patching, SequenceTheorems,
        FiniteSetTheorems, NaturalsInduction, WellFoundedInduction, TLAPS

-----------------------------------------------------------------------------
(* Least and greatest *)

LEMMA LeastNat ==
  ASSUME NEW S \in SUBSET Nat, S # {}
  PROVE  \E n \in S : \A m \in S : n <= m
<1>1. PICK n \in S : \A m \in S : <<m, n>> \notin OpToRel(<, Nat)
  BY NatLessThanWellFounded, WFMin
<1>2. \A m \in S : ~(m < n)
  BY <1>1 DEF OpToRel
<1> QED BY <1>2

LEMMA GreatestUpTo ==
  ASSUME NEW n \in Nat, NEW S \in SUBSET (0 .. n), S # {}
  PROVE  Max(S) \in S /\ \A m \in S : m <= Max(S)
<1> DEFINE below == {n - m : m \in S}
<1>1. below \in SUBSET Nat /\ below # {}
  OBVIOUS
<1>2. PICK d \in below : \A e \in below : d <= e
  BY <1>1, LeastNat
<1>3. PICK k \in S : d = n - k
  BY <1>2
<1>4. \A m \in S : n - m \in below
  OBVIOUS
<1> HIDE DEF below
<1>5. \A m \in S : k >= m
  BY <1>2, <1>3, <1>4
<1>6. Max(S) \in S /\ \A m \in S : Max(S) >= m
  BY <1>5 DEF Max
<1> QED BY <1>6

-----------------------------------------------------------------------------
(* Sorting *)

\* Of any two one comes first, and what comes before the first comes before the second.
Total(S, before) ==
  /\ \A x \in S : <<x, x>> \notin before
  /\ \A x, y \in S : x # y => <<x, y>> \in before \/ <<y, x>> \in before
  /\ \A x, y, z \in S : <<x, y>> \in before /\ <<y, z>> \in before => <<x, z>> \in before

LEMMA PlaceGrows ==
  ASSUME NEW S, IsFiniteSet(S), NEW before, Total(S, before), NEW x \in S, NEW y \in S, x # y
  PROVE  Place(S, before, x) # Place(S, before, y)
<1> DEFINE Ahead(z) == {w \in S : <<w, z>> \in before}
<1>1. \A z \in S : IsFiniteSet(Ahead(z)) /\ Cardinality(Ahead(z)) \in Nat
  BY FS_Subset, FS_CardinalityType
<1>2. ASSUME NEW z \in S, NEW w \in S, z \in Ahead(w)
      PROVE  Cardinality(Ahead(z)) < Cardinality(Ahead(w))
  <2>1. Ahead(z) \cup {z} \subseteq Ahead(w) /\ z \notin Ahead(z)
    BY <1>2 DEF Total
  <2>2. Cardinality(Ahead(z) \cup {z}) = Cardinality(Ahead(z)) + 1
    BY <1>1, <2>1, FS_AddElement
  <2>3. Cardinality(Ahead(z) \cup {z}) <= Cardinality(Ahead(w))
    BY <1>1, <2>1, FS_Subset
  <2> QED BY <1>1, <2>2, <2>3
<1>3. x \in Ahead(y) \/ y \in Ahead(x)
  BY DEF Total
<1>4. \A z : Place(S, before, z) = Cardinality(Ahead(z))
  BY DEF Place
<1> HIDE DEF Ahead
<1> QED BY <1>1, <1>2, <1>3, <1>4

\* Every place is somebody's, so that sorting puts none in that was not there.
LEMMA SortedPlaces ==
  ASSUME NEW S, IsFiniteSet(S), NEW before, Total(S, before), NEW n \in 1 .. Cardinality(S)
  PROVE  /\ Sorted(S, before)[n] \in S
         /\ Place(S, before, Sorted(S, before)[n]) = n - 1
<1> DEFINE size == Cardinality(S)
           rank == [x \in S |-> Place(S, before, x) + 1]
<1>1. size \in Nat
  BY FS_CardinalityType
<1>2. IsFiniteSet(1 .. size) /\ Cardinality(1 .. size) = size
  BY <1>1, FS_Interval
<1>3. \A x \in S : Place(S, before, x) \in Nat /\ Place(S, before, x) < size
  <2> TAKE x \in S
  <2> DEFINE ahead == {w \in S : <<w, x>> \in before}
  <2>1. ahead \subseteq S \ {x}
    BY DEF Total
  <2>2. IsFiniteSet(S \ {x}) /\ Cardinality(S \ {x}) = size - 1
    BY FS_RemoveElement
  <2>3. IsFiniteSet(ahead) /\ Cardinality(ahead) <= size - 1
    BY <2>1, <2>2, FS_Subset
  <2>4. Cardinality(ahead) \in Nat
    BY <2>3, FS_CardinalityType
  <2>5. Place(S, before, x) = Cardinality(ahead)
    BY DEF Place
  <2> HIDE DEF ahead, size
  <2> QED BY <1>1, <2>3, <2>4, <2>5
<1> HIDE DEF size
<1>4. rank \in [S -> 1 .. size]
  BY <1>1, <1>3
<1>5. \A x, y \in S : rank[x] = rank[y] => x = y
  BY <1>3, PlaceGrows
<1>6. rank \in Injection(S, 1 .. size)
  BY <1>4, <1>5 DEF Injection, IsInjective
<1>7. rank \in Surjection(S, 1 .. size)
  BY <1>2, <1>6, FS_Injection DEF size
<1>8. PICK x \in S : rank[x] = n
  BY <1>7 DEF Surjection, size
<1>9. Place(S, before, x) = n - 1 /\ n \in 1 .. size
  BY <1>1, <1>3, <1>8 DEF size
<1>10. Sorted(S, before)[n] = CHOOSE z \in S : Place(S, before, z) = n - 1
  BY DEF Sorted
<1> QED BY <1>9, <1>10

LEMMA SortedByForm ==
  ASSUME NEW s, NEW before
  PROVE  SortedBy(s, before) = [n \in DOMAIN s |-> SortedBy(s, before)[n]]
<1> DEFINE at(n) == CHOOSE x \in {s[i] : i \in DOMAIN s} :
                      \E i \in DOMAIN s : s[i] = x /\ Place(DOMAIN s, before, i) = n - 1
<1>1. SortedBy(s, before) = [n \in DOMAIN s |-> at(n)]
  BY DEF SortedBy
<1> HIDE DEF at
<1> QED BY <1>1

\* So does sorting a sequence: what is at a place is what so many others come before.
LEMMA SortedByPlaces ==
  ASSUME NEW s, NEW m \in Nat, DOMAIN s = 1 .. m, NEW before, Total(DOMAIN s, before), NEW n \in 1 .. m
  PROVE  \E i \in 1 .. m : SortedBy(s, before)[n] = s[i] /\ Place(DOMAIN s, before, i) = n - 1
<1>0. \A k \in Nat : IsFiniteSet(1 .. k) /\ Cardinality(1 .. k) = k
  BY FS_Interval
<1>1. IsFiniteSet(DOMAIN s) /\ n \in 1 .. Cardinality(DOMAIN s)
  BY <1>0
<1>2. PICK i \in DOMAIN s : Place(DOMAIN s, before, i) = n - 1
  BY <1>1, SortedPlaces
<1> DEFINE At(x) == \E k \in DOMAIN s : s[k] = x /\ Place(DOMAIN s, before, k) = n - 1
           all == {s[k] : k \in DOMAIN s}
<1>3. s[i] \in all /\ At(s[i])
  BY <1>2
<1>4. SortedBy(s, before)[n] = CHOOSE x \in all : At(x)
  BY DEF SortedBy
<1> HIDE DEF all
<1>5. At(SortedBy(s, before)[n])
  <2> HIDE DEF At
  <2> QED BY <1>3, <1>4
<1> QED BY <1>5

LEMMA SortedBySome ==
  ASSUME NEW s, NEW m \in Nat, DOMAIN s = 1 .. m, NEW before, Total(DOMAIN s, before)
  PROVE  \A n \in 1 .. m : \E i \in 1 .. m : SortedBy(s, before)[n] = s[i]
<1> TAKE n \in 1 .. m
<1>1. PICK i \in 1 .. m : SortedBy(s, before)[n] = s[i] /\ Place(DOMAIN s, before, i) = n - 1
  BY SortedByPlaces
<1> QED BY <1>1

LEMMA SortedByStays ==
  ASSUME NEW T, NEW s, s \in Seq(T), NEW before, Total(DOMAIN s, before)
  PROVE  SortedBy(s, before) \in Seq(T)
<1>1. PICK m \in Nat : DOMAIN s = 1 .. m
  BY LenProperties
<1>2. \A n \in 1 .. m : \E i \in 1 .. m : SortedBy(s, before)[n] = s[i]
  BY <1>1, SortedBySome
<1>3. \A i \in 1 .. m : s[i] \in T
  BY <1>1, ElementOfSeq, LenProperties
<1>4. SortedBy(s, before) = [n \in 1 .. m |-> SortedBy(s, before)[n]]
  BY <1>1, SortedByForm
<1> DEFINE sorted == SortedBy(s, before)
<1> HIDE DEF sorted
<1>5. sorted \in [1 .. m -> T]
  BY <1>2, <1>3, <1>4 DEF sorted
<1> QED BY <1>5, SeqDef DEF sorted

-----------------------------------------------------------------------------
(* Lessons *)

TypeOK ==
  /\ lessons \in Seq(Lesson)
  /\ writing \in Seq(Lesson) \cup {None}
  /\ {garbled, truncated, consume} \subseteq BOOLEAN
  /\ {day, added, rewrites, tears} \subseteq Nat

\* Nobody's word alone is trusted more than it was given.
Trusted(l) == l.confirmed = 0 => l.confidence <= l.given

\* Lessons of those added, in the order they were.
InOrder(file) ==
  /\ \A i \in 1 .. Len(file) : file[i].id \in 1 .. added /\ Trusted(file[i])
  /\ \A i, j \in 1 .. Len(file) : i < j => file[i].id < file[j].id

\* What the truncated file has was added since.
Younger ==
  \A i \in 1 .. Len(lessons) :
    /\ lessons[i].id \in overrun
    /\ \A j \in 1 .. Len(writing) : writing[j].id < lessons[i].id

Holds(file) == \A n \in (1 .. added) \ overrun : \E i \in 1 .. Len(file) : file[i].id = n

\* Until a crash tears it, all other lessons are in the file or on their way there.
Kept ==
  tears = 0 =>
    /\ Holds(IF writing = None THEN lessons ELSE writing)
    /\ garbled => overrun # {}

LInv ==
  /\ TypeOK
  /\ InOrder(lessons)
  /\ writing # None => InOrder(writing)
  /\ truncated => writing # None /\ Younger
  /\ Kept

-----------------------------------------------------------------------------

\* What a rewrite puts in the place of a lesson: the same one, trusted no more.
Replaces(m, l) == m \in Lesson /\ m.id = l.id /\ (Trusted(l) => Trusted(m))

LEMMA LessonFields ==
  \A l \in Lesson : /\ l.id \in Nat /\ l.confirmed \in Nat
                    /\ l.confidence \in 0 .. 100 /\ l.given \in 0 .. 100
BY DEF Lesson

\* A change of one field leaves a lesson a lesson, and the same one.
LEMMA ChangedLesson ==
  ASSUME NEW l \in Lesson
  PROVE  /\ \A n \in Nat : LET m == [l EXCEPT !.confirmed = n] IN m \in Lesson /\ m.id = l.id
         /\ \A n \in Nat : LET m == [l EXCEPT !.contradicted = n] IN m \in Lesson /\ m.id = l.id
         /\ \A n \in Nat : LET m == [l EXCEPT !.at = n] IN m \in Lesson /\ m.id = l.id
         /\ \A n \in 0 .. 100 : LET m == [l EXCEPT !.confidence = n] IN m \in Lesson /\ m.id = l.id
         /\ \A r \in BOOLEAN : LET m == [l EXCEPT !.retired = r] IN m \in Lesson /\ m.id = l.id
<1>1. \A n \in Nat : LET m == [l EXCEPT !.confirmed = n] IN m \in Lesson /\ m.id = l.id
  BY DEF Lesson
<1>2. \A n \in Nat : LET m == [l EXCEPT !.contradicted = n] IN m \in Lesson /\ m.id = l.id
  BY DEF Lesson
<1>3. \A n \in Nat : LET m == [l EXCEPT !.at = n] IN m \in Lesson /\ m.id = l.id
  BY DEF Lesson
<1>4. \A n \in 0 .. 100 : LET m == [l EXCEPT !.confidence = n] IN m \in Lesson /\ m.id = l.id
  BY DEF Lesson
<1>5. \A r \in BOOLEAN : LET m == [l EXCEPT !.retired = r] IN m \in Lesson /\ m.id = l.id
  BY DEF Lesson
<1> QED BY <1>1, <1>2, <1>3, <1>4, <1>5

\* A confirmation, a contradiction and a change of the flag replace a lesson.
LEMMA JudgedLesson ==
  ASSUME NEW l \in Lesson, day \in Nat
  PROVE  /\ Replaces(Confirmed(l), l) /\ Replaces(Contradicted(l), l)
         /\ \A r \in BOOLEAN : Replaces([l EXCEPT !.retired = r], l)
<1>1. /\ l.confirmed + 1 \in Nat /\ l.contradicted + 1 \in Nat
      /\ AtMost100(l.confidence + Gain) \in 0 .. 100
      /\ AtLeast0(l.confidence - DecayStep) \in 0 .. 100
      /\ AtLeast0(l.confidence - DecayStep) <= l.confidence
      /\ l.confidence \in Nat /\ l.given \in Nat /\ l.confirmed \in Nat
  BY DEF Lesson, AtMost100, Gain, AtLeast0, DecayStep
<1>2. Replaces(Confirmed(l), l)
  <2> DEFINE one == [l EXCEPT !.confirmed = l.confirmed + 1]
             two == [one EXCEPT !.at = day]
             three == [two EXCEPT !.confidence = AtMost100(l.confidence + Gain)]
  <2>1. one \in Lesson /\ one.id = l.id
    BY <1>1, ChangedLesson
  <2>2. two \in Lesson /\ two.id = l.id
    BY <2>1, ChangedLesson
  <2>3. three \in Lesson /\ three.id = l.id
    BY <1>1, <2>2, ChangedLesson
  <2>4. Confirmed(l) = three
    BY DEF Confirmed, Lesson
  <2>5. Confirmed(l).confirmed # 0
    BY DEF Confirmed, Lesson
  <2> QED BY <2>3, <2>4, <2>5 DEF Replaces, Trusted
<1>3. Replaces(Contradicted(l), l)
  <2> DEFINE less == AtLeast0(l.confidence - DecayStep)
             out == less < RetireFloor \/ l.contradicted + 1 >= RetireAt
             one == [l EXCEPT !.contradicted = l.contradicted + 1]
             two == [one EXCEPT !.confidence = less]
             three == [two EXCEPT !.retired = out]
  <2>1. one \in Lesson /\ one.id = l.id
    BY <1>1, ChangedLesson
  <2>2. two \in Lesson /\ two.id = l.id
    BY <1>1, <2>1, ChangedLesson
  <2>3. three \in Lesson /\ three.id = l.id
    BY <2>2, ChangedLesson
  <2>4. Contradicted(l) = three
    BY DEF Contradicted, Lesson
  <2>5. /\ Contradicted(l).confirmed = l.confirmed /\ Contradicted(l).given = l.given
        /\ Contradicted(l).confidence = less
    BY DEF Contradicted, Lesson
  <2> HIDE DEF less
  <2> QED BY <1>1, <2>3, <2>4, <2>5 DEF Replaces, Trusted, less
<1>4. ASSUME NEW r \in BOOLEAN PROVE Replaces([l EXCEPT !.retired = r], l)
  <2> DEFINE m == [l EXCEPT !.retired = r]
  <2>1. m \in Lesson /\ m.id = l.id
    BY ChangedLesson
  <2>2. m.confirmed = l.confirmed /\ m.given = l.given /\ m.confidence = l.confidence
    BY DEF Lesson
  <2> QED BY <2>1, <2>2 DEF Replaces, Trusted
<1> QED BY <1>2, <1>3, <1>4

\* A rewrite that replaces lessons one by one may be decided at any time.
LEMMA DecideKeeps ==
  ASSUME LInv, NEW new \in Seq(Lesson), Decide(new), Len(new) = Len(lessons),
         \A i \in 1 .. Len(lessons) : Replaces(new[i], lessons[i])
  PROVE  LInv'
<1>1. /\ writing = None /\ writing' = new /\ new # None
      /\ UNCHANGED <<lessons, garbled, truncated, consume, day, added, tears, overrun>>
  BY LessonsAssumption DEF Decide
<1>2. InOrder(new)
  BY DEF LInv, InOrder, Replaces
<1>3. TypeOK'
  BY <1>1 DEF LInv, TypeOK, Decide
<1>4. ~truncated'
  BY <1>1 DEF LInv
<1>5. InOrder(lessons)' /\ InOrder(writing)'
  BY <1>1, <1>2 DEF LInv, InOrder
<1>6. tears = 0 => Holds(new)
  BY <1>1 DEF LInv, Kept, Holds, Replaces
<1>7. Kept'
  BY <1>1, <1>6 DEF LInv, Kept, Holds
<1> QED BY <1>3, <1>4, <1>5, <1>7 DEF LInv

\* One lesson is judged.
LEMMA RewriteKeeps ==
  ASSUME LInv, NEW i \in DOMAIN lessons, NEW l, Replaces(l, lessons[i]), Decide(Rewritten(i, l))
  PROVE  LInv'
<1>1. i \in 1 .. Len(lessons) /\ l \in Lesson
  BY LenProperties DEF LInv, TypeOK, Replaces
<1>2. /\ Rewritten(i, l) \in Seq(Lesson) /\ Len(Rewritten(i, l)) = Len(lessons)
      /\ \A j \in 1 .. Len(lessons) : Rewritten(i, l)[j] = IF j = i THEN l ELSE lessons[j]
  BY <1>1, ExceptSeq DEF LInv, TypeOK, Rewritten
<1>3. \A j \in 1 .. Len(lessons) : lessons[j] \in Lesson
  BY LenProperties, ElementOfSeq DEF LInv, TypeOK
<1>4. \A j \in 1 .. Len(lessons) : Replaces(Rewritten(i, l)[j], lessons[j])
  BY <1>2, <1>3 DEF Replaces
<1> QED BY <1>2, <1>4, DecideKeeps

\* However much of what was appended meanwhile a rewrite covers, or a crash cuts off of
\* the rewrite, the lines are in order.
LEMMA OverlaidInOrder ==
  ASSUME LInv, writing # None, truncated,
         NEW n \in 0 .. Len(writing), NEW k \in Covered(n)
  PROVE  /\ Overlaid(n, k) \in Seq(Lesson) /\ InOrder(Overlaid(n, k))
         /\ n <= Len(Overlaid(n, k)) /\ \A i \in 1 .. n : Overlaid(n, k)[i] = writing[i]
<1> DEFINE front == SubSeq(writing, 1, n)
           size == Len(lessons)
           back == SubSeq(lessons, k + 1, size)
           both == front \o back
<1>1. /\ writing \in Seq(Lesson) /\ Len(writing) \in Nat
      /\ \A i \in 1 .. Len(writing) : writing[i] \in Lesson
      /\ lessons \in Seq(Lesson) /\ size \in Nat
      /\ \A i \in 1 .. size : lessons[i] \in Lesson
  BY LenProperties, ElementOfSeq DEF LInv, TypeOK
<1>2. k \in 0 .. size /\ n \in Nat /\ n <= Len(writing)
  BY <1>1 DEF Covered
<1>3. /\ InOrder(lessons) /\ InOrder(writing) /\ Younger
  BY DEF LInv
<1>4. front \in Seq(Lesson) /\ Len(front) = n /\ \A i \in 1 .. n : front[i] = writing[i]
  <2>1. \A i \in 1 .. n : writing[i] \in Lesson
    BY <1>1, <1>2
  <2>2. n \in Int /\ 1 \in Int /\ n >= 0
    BY <1>2
  <2>3. /\ front \in Seq(Lesson) /\ Len(front) = IF 1 <= n THEN n - 1 + 1 ELSE 0
        /\ \A i \in 1 .. n - 1 + 1 : front[i] = writing[1 + i - 1]
    BY <2>1, <2>2, SubSeqProperties
  <2> HIDE DEF front
  <2> QED BY <2>2, <2>3
<1>5. back \in Seq(Lesson) /\ Len(back) = size - k /\ \A i \in 1 .. size - k : back[i] = lessons[k + i]
  <2>1. k + 1 \in Int /\ size \in Int
    BY <1>1, <1>2
  <2>2. \A i \in (k + 1) .. size : lessons[i] \in Lesson
    BY <1>1, <1>2
  <2>3. /\ back \in Seq(Lesson) /\ Len(back) = IF k + 1 <= size THEN size - (k + 1) + 1 ELSE 0
        /\ \A i \in 1 .. size - (k + 1) + 1 : back[i] = lessons[(k + 1) + i - 1]
    <3> HIDE DEF size
    <3> QED BY <2>1, <2>2, SubSeqProperties
  <2> HIDE DEF back, size
  <2> QED BY <1>1, <1>2, <2>3 DEF size
<1> HIDE DEF front, back
<1>6. /\ both \in Seq(Lesson) /\ Len(both) = Len(front) + Len(back)
      /\ \A i \in 1 .. Len(front) + Len(back) :
           both[i] = IF i <= Len(front) THEN front[i] ELSE back[i - Len(front)]
  BY <1>4, <1>5, ConcatProperties
<1>7. Overlaid(n, k) = both
  BY DEF Overlaid, front, back
<1> HIDE DEF both, size
<1>11. Len(both) = n + (size - k) /\ Len(both) \in Nat
  BY <1>1, <1>2, <1>4, <1>5, <1>6
<1>8. \A i \in 1 .. Len(both) :
        \/ i <= n /\ both[i] = writing[i]
        \/ i > n /\ i - n + k \in 1 .. size /\ both[i] = lessons[i - n + k]
  <2> TAKE i \in 1 .. Len(both)
  <2>1. CASE i <= n
    BY <1>1, <1>2, <1>4, <1>6, <1>11, <2>1
  <2>2. CASE i > n
    <3>1. i - n \in 1 .. size - k /\ i - n + k \in 1 .. size
      BY <1>1, <1>2, <1>11, <2>2
    <3>2. both[i] = back[i - n]
      BY <1>1, <1>2, <1>4, <1>5, <1>6, <2>2
    <3>3. back[i - n] = lessons[k + (i - n)] /\ k + (i - n) = i - n + k
      BY <1>2, <1>5, <3>1
    <3> QED BY <2>2, <3>1, <3>2, <3>3
  <2> QED BY <1>2, <2>1, <2>2
<1>9. InOrder(both)
  <2>0. Len(both) \in Nat
    BY <1>11
  <2>1. \A i \in 1 .. Len(both) : both[i].id \in 1 .. added /\ Trusted(both[i])
    <3> TAKE i \in 1 .. Len(both)
    <3>1. CASE i <= n
      <4>1. both[i] = writing[i] /\ i \in 1 .. Len(writing)
        BY <1>1, <1>2, <1>8, <2>0, <3>1
      <4> QED BY <1>3, <4>1 DEF InOrder
    <3>2. CASE i > n
      <4>1. i - n + k \in 1 .. size /\ both[i] = lessons[i - n + k]
        BY <1>2, <1>8, <2>0, <3>2
      <4> QED BY <1>3, <4>1 DEF InOrder, size
    <3> QED BY <1>2, <2>0, <3>1, <3>2
  <2>2. ASSUME NEW i \in 1 .. Len(both), NEW j \in 1 .. Len(both), i < j
        PROVE  both[i].id < both[j].id
    <3>1. CASE j <= n
      <4>1. /\ i \in 1 .. Len(writing) /\ j \in 1 .. Len(writing)
            /\ both[i] = writing[i] /\ both[j] = writing[j]
        BY <1>1, <1>2, <1>8, <2>0, <2>2, <3>1
      <4> QED BY <1>3, <2>2, <4>1 DEF InOrder
    <3>2. CASE i <= n /\ j > n
      <4>1. /\ i \in 1 .. Len(writing) /\ both[i] = writing[i]
            /\ j - n + k \in 1 .. size /\ both[j] = lessons[j - n + k]
        BY <1>1, <1>2, <1>8, <2>0, <2>2, <3>2
      <4> QED BY <1>3, <4>1 DEF Younger, size
    <3>3. CASE i > n
      <4>1. /\ i - n + k \in 1 .. size /\ both[i] = lessons[i - n + k]
            /\ j - n + k \in 1 .. size /\ both[j] = lessons[j - n + k]
            /\ i - n + k < j - n + k
        BY <1>2, <1>8, <2>0, <2>2, <3>3
      <4> QED BY <1>3, <4>1 DEF InOrder, size
    <3> QED BY <1>2, <2>0, <3>1, <3>2, <3>3
  <2> QED BY <2>1, <2>2 DEF InOrder
<1>10. n <= Len(both) /\ \A i \in 1 .. n : both[i] = writing[i]
  <2>1. n <= Len(both)
    BY <1>1, <1>2, <1>11
  <2>2. ASSUME NEW i \in 1 .. n PROVE both[i] = writing[i]
    <3>1. i \in 1 .. Len(both) /\ i <= n
      BY <1>1, <1>11, <2>1
    <3> QED BY <1>1, <1>8, <3>1
  <2> QED BY <2>1, <2>2
<1> QED BY <1>6, <1>7, <1>9, <1>10

LEMMA InitLInv == LessonsInit => LInv
<1> SUFFICES ASSUME LessonsInit PROVE LInv
  OBVIOUS
<1>1. lessons \in Seq(Lesson) /\ Len(lessons) = 0
  BY EmptySeq DEF LessonsInit
<1>2. TypeOK
  <2>1. garbled \in BOOLEAN /\ truncated \in BOOLEAN /\ consume \in BOOLEAN
    BY DEF LessonsInit
  <2>2. writing = None /\ day = 0 /\ added = 0 /\ rewrites = 0 /\ tears = 0
    BY DEF LessonsInit
  <2> QED BY <1>1, <2>1, <2>2 DEF TypeOK
<1>3. InOrder(lessons) /\ Holds(lessons)
  BY <1>1 DEF LessonsInit, InOrder, Holds
<1>4. Kept
  BY <1>3 DEF LessonsInit, Kept
<1> QED BY <1>2, <1>3, <1>4 DEF LessonsInit, LInv

LEMMA LearnKeeps ==
  ASSUME LInv, NEW kind \in Kinds, NEW about \in Subjects, NEW confidence \in Confidences,
         Learn(kind, about, confidence)
  PROVE  LInv'
<1> DEFINE new == [id |-> added + 1, kind |-> kind, about |-> about, confidence |-> confidence,
                   given |-> confidence, confirmed |-> 0, contradicted |-> 0, at |-> day,
                   retired |-> FALSE]
<1>0. lessons \in Seq(Lesson) /\ Len(lessons) \in Nat /\ added \in Nat /\ TypeOK
  BY LenProperties DEF LInv, TypeOK
<1>1. new \in Lesson /\ new.id = added + 1 /\ Trusted(new)
  <2>1. confidence \in 0 .. 100 /\ added + 1 \in Nat /\ day \in Nat
    BY LessonsAssumption DEF LInv, TypeOK
  <2> QED BY <2>1 DEF Lesson, Trusted
<1>2. /\ ~garbled /\ added' = added + 1 /\ lessons' = Append(lessons, new)
      /\ overrun' = IF writing = None THEN overrun ELSE overrun \cup {added + 1}
      /\ UNCHANGED <<garbled, writing, truncated, consume, day, rewrites, tears>>
  BY DEF Learn
<1> HIDE DEF new
<1>3. /\ lessons' \in Seq(Lesson) /\ Len(lessons') = Len(lessons) + 1
      /\ \A i \in 1 .. Len(lessons) : lessons'[i] = lessons[i]
      /\ lessons'[Len(lessons) + 1] = new
  BY <1>0, <1>1, <1>2, AppendProperties
<1>4. TypeOK'
  BY <1>2, <1>3 DEF LInv, TypeOK
<1>5. InOrder(lessons)'
  <2>1. \A i \in 1 .. Len(lessons) : lessons[i].id \in 1 .. added /\ Trusted(lessons[i])
    BY DEF LInv, InOrder
  <2>2. \A i, j \in 1 .. Len(lessons) : i < j => lessons[i].id < lessons[j].id
    BY DEF LInv, InOrder
  <2>3. \A i \in 1 .. Len(lessons') : lessons'[i].id \in 1 .. added' /\ Trusted(lessons'[i])
    <3> TAKE i \in 1 .. Len(lessons')
    <3>1. i \in 1 .. Len(lessons) \/ lessons'[i] = new
      BY <1>0, <1>3
    <3> QED BY <1>0, <1>1, <1>2, <1>3, <2>1, <3>1
  <2>4. \A i, j \in 1 .. Len(lessons') : i < j => lessons'[i].id < lessons'[j].id
    <3> TAKE i, j \in 1 .. Len(lessons')
    <3>1. i < j => i \in 1 .. Len(lessons)
      BY <1>0, <1>3
    <3>2. j \in 1 .. Len(lessons) \/ lessons'[j] = new
      BY <1>0, <1>3
    <3>3. \A m \in 1 .. Len(lessons) : lessons'[m].id < added + 1
      BY <1>0, <1>3, <2>1
    <3> QED BY <1>1, <1>3, <2>2, <3>1, <3>2, <3>3
  <2> QED BY <2>3, <2>4 DEF InOrder
<1>6. writing' # None => InOrder(writing)'
  <2> SUFFICES ASSUME writing # None PROVE InOrder(writing)'
    BY <1>2
  <2>1. InOrder(writing)
    BY DEF LInv
  <2>2. writing' = writing /\ 1 .. added \subseteq 1 .. added'
    BY <1>0, <1>2
  <2> QED BY <2>1, <2>2 DEF InOrder
<1>7. truncated' => writing' # None /\ Younger'
  <2> SUFFICES ASSUME truncated PROVE writing # None /\ Younger'
    BY <1>2
  <2>1. writing # None /\ Younger /\ InOrder(writing)
    BY DEF LInv
  <2>2. overrun' = overrun \cup {added + 1}
    BY <1>2, <2>1
  <2>3. \A j \in 1 .. Len(writing) : writing[j].id < new.id
    BY <1>0, <1>1, <2>1 DEF InOrder
  <2>4. \A i \in 1 .. Len(lessons') :
          /\ lessons'[i].id \in overrun'
          /\ \A j \in 1 .. Len(writing) : writing[j].id < lessons'[i].id
    <3> SUFFICES ASSUME NEW i \in 1 .. Len(lessons')
                 PROVE  /\ lessons'[i].id \in overrun'
                        /\ \A j \in 1 .. Len(writing) : writing[j].id < lessons'[i].id
      OBVIOUS
    <3>1. i \in 1 .. Len(lessons) \/ lessons'[i] = new
      BY <1>0, <1>3
    <3>2. CASE i \in 1 .. Len(lessons)
      <4>1. lessons'[i] = lessons[i]
        BY <1>0, <1>3, <3>2
      <4> QED BY <2>1, <2>2, <3>2, <4>1 DEF Younger
    <3>3. CASE lessons'[i] = new
      BY <1>1, <2>2, <2>3, <3>3
    <3> QED BY <3>1, <3>2, <3>3
  <2> QED BY <1>2, <2>1, <2>4 DEF Younger
<1>8. Kept'
  <2> SUFFICES ASSUME tears = 0
               PROVE  /\ Holds(IF writing = None THEN lessons ELSE writing)'
                      /\ garbled' => overrun' # {}
    BY <1>2 DEF Kept
  <2>1. Holds(IF writing = None THEN lessons ELSE writing)
    BY DEF LInv, Kept
  <2>2. CASE writing = None
    <3>1. \A n \in (1 .. added') \ overrun' : \E i \in 1 .. Len(lessons') : lessons'[i].id = n
      BY <1>0, <1>1, <1>2, <1>3, <2>1, <2>2 DEF Holds
    <3> QED BY <1>2, <2>2, <3>1 DEF Holds
  <2>3. CASE writing # None
    <3>1. \A n \in (1 .. added') \ overrun' : n \in (1 .. added) \ overrun
      BY <1>0, <1>2, <2>3
    <3> QED BY <1>2, <2>1, <2>3, <3>1 DEF Holds
  <2> QED BY <1>2, <2>2, <2>3
<1> QED BY <1>4, <1>5, <1>6, <1>7, <1>8 DEF LInv

LEMMA NextLInv == LInv /\ [LessonsNext]_lessonVars => LInv'
<1> SUFFICES ASSUME LInv, [LessonsNext]_lessonVars PROVE LInv'
  OBVIOUS
<1>0. /\ \A i \in DOMAIN lessons : lessons[i] \in Lesson
      /\ day \in Nat /\ DOMAIN lessons = 1 .. Len(lessons) /\ Len(lessons) \in Nat
  BY LenProperties, ElementOfSeq DEF LInv, TypeOK
<1>1. ASSUME NEW kind \in Kinds, NEW about \in Subjects, NEW confidence \in Confidences,
             Learn(kind, about, confidence)
      PROVE  LInv'
  BY <1>1, LearnKeeps
<1>2. ASSUME NEW i \in DOMAIN lessons, Confirm(i) PROVE LInv'
  BY <1>0, <1>2, JudgedLesson, RewriteKeeps DEF Confirm
<1>3. ASSUME NEW i \in DOMAIN lessons, Contradict(i) PROVE LInv'
  BY <1>0, <1>3, JudgedLesson, RewriteKeeps DEF Contradict
<1>4. ASSUME NEW i \in DOMAIN lessons, NEW r \in BOOLEAN, SetAside(i, r) PROVE LInv'
  BY <1>0, <1>4, JudgedLesson, RewriteKeeps DEF SetAside
<1>5. CASE Expire
  <2> DEFINE swept(i) == IF Expires(lessons[i]) THEN [lessons[i] EXCEPT !.retired = TRUE]
                                                ELSE lessons[i]
             new == [i \in DOMAIN lessons |-> swept(i)]
  <2>1. \A i \in DOMAIN lessons : Replaces(swept(i), lessons[i])
    BY <1>0, JudgedLesson DEF Replaces
  <2>2. \A i \in DOMAIN lessons : swept(i) \in Lesson
    BY <2>1 DEF Replaces
  <2>3. Decide(new)
    BY <1>5 DEF Expire
  <2> HIDE DEF swept
  <2>4. new \in Seq(Lesson) /\ Len(new) = Len(lessons)
    BY <1>0, <2>2
  <2>5. \A i \in 1 .. Len(lessons) : Replaces(new[i], lessons[i])
    BY <1>0, <2>1
  <2> HIDE DEF new
  <2> QED BY <2>3, <2>4, <2>5, DecideKeeps
<1>6. CASE Truncate
  <2>1. /\ writing # None /\ lessons' = <<>> /\ truncated' = TRUE
        /\ UNCHANGED <<garbled, writing, consume, day, added, rewrites, tears, overrun>>
    BY <1>6 DEF Truncate
  <2>2. lessons' \in Seq(Lesson) /\ Len(lessons') = 0
    BY <2>1, EmptySeq
  <2>3. TypeOK'
    BY <2>1, <2>2 DEF LInv, TypeOK
  <2>4. InOrder(lessons)' /\ Younger'
    BY <2>2 DEF InOrder, Younger
  <2>5. InOrder(writing)' /\ Kept'
    BY <2>1 DEF LInv, InOrder, Kept, Holds
  <2> QED BY <2>1, <2>3, <2>4, <2>5 DEF LInv
<1>7. CASE WriteBack
  <2>1. PICK k \in Covered(Len(writing)) : lessons' = Overlaid(Len(writing), k)
    BY <1>7 DEF WriteBack
  <2>2. /\ writing # None /\ truncated /\ garbled' \in {FALSE, lessons # <<>>}
        /\ writing' = None /\ truncated' = FALSE
        /\ UNCHANGED <<consume, day, added, rewrites, tears, overrun>>
    BY <1>7 DEF WriteBack
  <2>3. Len(writing) \in 0 .. Len(writing) /\ Len(writing) \in Nat
    BY <2>2, LenProperties DEF LInv, TypeOK
  <2>4. /\ lessons' \in Seq(Lesson) /\ InOrder(lessons') /\ Len(writing) <= Len(lessons')
        /\ \A i \in 1 .. Len(writing) : lessons'[i] = writing[i]
    BY <2>1, <2>2, <2>3, OverlaidInOrder
  <2>5. TypeOK'
    BY <2>2, <2>4 DEF LInv, TypeOK
  <2>6. InOrder(lessons)'
    BY <2>2, <2>4 DEF InOrder
  <2>7. garbled' => overrun # {}
    <3>1. garbled' => lessons # <<>>
      BY <2>2
    <3>2. lessons # <<>> => 1 \in 1 .. Len(lessons)
      BY EmptySeq DEF LInv, TypeOK
    <3> QED BY <2>2, <3>1, <3>2 DEF LInv, Younger
  <2>8. tears = 0 => Holds(lessons')
    <3>1. tears = 0 => Holds(writing)
      BY <2>2 DEF LInv, Kept
    <3>2. 1 .. Len(writing) \subseteq 1 .. Len(lessons')
      BY <2>3, <2>4, LenProperties
    <3> QED BY <2>4, <3>1, <3>2 DEF Holds
  <2>9. Kept'
    BY <2>2, <2>7, <2>8 DEF Kept, Holds
  <2> QED BY <2>2, <2>5, <2>6, <2>9 DEF LInv
<1>8. CASE Tear
  <2>0. PICK n \in 0 .. Len(writing) : \E k \in Covered(n) : lessons' = Overlaid(n, k)
    BY <1>8 DEF Tear
  <2>1. PICK k \in Covered(n) : lessons' = Overlaid(n, k)
    BY <2>0
  <2>2. /\ writing # None /\ truncated /\ garbled' \in BOOLEAN
        /\ writing' = None /\ truncated' = FALSE /\ tears' = tears + 1
        /\ UNCHANGED <<consume, day, added, rewrites, overrun>>
    BY <1>8 DEF Tear
  <2>3. lessons' \in Seq(Lesson) /\ InOrder(lessons')
    BY <2>1, <2>2, OverlaidInOrder
  <2>4. TypeOK' /\ tears' # 0
    <3>1. tears' \in Nat /\ tears' # 0 /\ {day', added', rewrites'} \subseteq Nat
      BY <2>2 DEF LInv, TypeOK
    <3>2. garbled' \in BOOLEAN /\ truncated' \in BOOLEAN /\ consume' \in BOOLEAN
      BY <2>2 DEF LInv, TypeOK
    <3> QED BY <2>2, <2>3, <3>1, <3>2 DEF TypeOK
  <2>5. InOrder(lessons)'
    BY <2>2, <2>3 DEF InOrder
  <2> QED BY <2>2, <2>4, <2>5 DEF LInv, Kept
<1>9. CASE Tomorrow \/ UNCHANGED lessonVars
  <2>1. UNCHANGED <<lessons, garbled, writing, truncated, consume, added, rewrites, tears, overrun>>
    BY <1>9 DEF Tomorrow, lessonVars
  <2>2. TypeOK'
    BY <1>9 DEF LInv, TypeOK, Tomorrow, lessonVars
  <2> QED BY <2>1, <2>2 DEF LInv, InOrder, Younger, Kept, Holds
<1> QED BY <1>1, <1>2, <1>3, <1>4, <1>5, <1>6, <1>7, <1>8, <1>9 DEF LessonsNext

\* However often lessons are confirmed, contradicted, retired, restored and expired,
\* wherever a reader comes between, and whatever a lesson added meanwhile has done to the
\* file: without a torn rewrite every lesson not added during one is there.
THEOREM LessonsKept == LessonsSpec => []NothingForgotten
<1>1. LInv => NothingForgotten
  <2> SUFFICES ASSUME LInv, writing = None, tears = 0
               PROVE  NothingForgotten!2
    BY DEF NothingForgotten
  <2>1. DOMAIN lessons = 1 .. Len(lessons)
    BY LenProperties DEF LInv, TypeOK
  <2> QED BY <2>1 DEF LInv, InOrder, Kept, Holds
<1>2. LessonsSpec => []LInv
  BY InitLInv, NextLInv, PTL DEF LessonsSpec
<1> QED BY <1>1, <1>2, PTL

-----------------------------------------------------------------------------
(* The skills that lessons retire *)

LEMMA PairsWithOne ==
  ASSUME NEW i, NEW n \in Nat \ {0}
  PROVE  IsFiniteSet({i} \X (1 .. n)) /\ Cardinality({i} \X (1 .. n)) = n
<1>1. IsFiniteSet(1 .. n) /\ Cardinality(1 .. n) = n
  BY FS_Interval
<1>2. IsFiniteSet({i}) /\ Cardinality({i}) = 1
  BY FS_Singleton
<1>3. /\ IsFiniteSet({i} \X (1 .. n))
      /\ Cardinality({i} \X (1 .. n)) = Cardinality({i}) * Cardinality(1 .. n)
  BY <1>1, <1>2, FS_Product
<1> QED BY <1>1, <1>2, <1>3

LEMMA WeightType ==
  ASSUME TypeOK, NEW option, NEW kind
  PROVE  /\ Evidence(option, kind) \subseteq 1 .. Len(lessons)
         /\ IsFiniteSet(Evidence(option, kind))
         /\ Weight(Evidence(option, kind)) \in Nat
<1> DEFINE E == Evidence(option, kind)
           counts == {p \in E \X (1 .. 100) : p[2] <= lessons[p[1]].confidence}
<1>1. DOMAIN lessons = 1 .. Len(lessons) /\ Len(lessons) \in Nat
  BY LenProperties DEF TypeOK
<1>2. E \subseteq 1 .. Len(lessons)
  BY <1>1 DEF Evidence, Advice
<1>3. IsFiniteSet(1 .. Len(lessons)) /\ IsFiniteSet(1 .. 100)
  <2>1. Len(lessons) \in Int /\ 1 \in Int /\ 100 \in Int
    BY <1>1
  <2> QED BY <2>1, FS_Interval
<1>4. IsFiniteSet(E)
  BY <1>2, <1>3, FS_Subset
<1>5. IsFiniteSet(E \X (1 .. 100))
  BY <1>3, <1>4, FS_Product
<1>6. IsFiniteSet(counts)
  BY <1>5, FS_Subset
<1>7. Weight(E) = Cardinality(counts)
  BY DEF Weight
<1> QED BY <1>2, <1>4, <1>6, <1>7, FS_CardinalityType

LEMMA BiasType ==
  ASSUME TypeOK, NEW option
  PROVE  Bias(option) \in Int /\ (~consume => Bias(option) = 0)
<1>1. \A kind : Weight(Evidence(option, kind)) \in Nat
  BY WeightType
<1>2. ASSUME ~consume, NEW kind PROVE Evidence(option, kind) = {}
  BY <1>2 DEF Evidence, Advice
<1>3. ~consume => Weight(Evidence(option, "success")) = Weight(Evidence(option, "avoid"))
  <2>1. ~consume => Evidence(option, "success") = {} /\ Evidence(option, "avoid") = {}
    BY <1>2
  <2> QED BY <2>1
<1> QED BY <1>1, <1>3 DEF Bias

\* A bias of -60 is more than one lesson can weigh that nobody confirmed or was sure of.
LEMMA TakesTwo ==
  ASSUME LInv, NEW option, Bias(option) <= RetireBias
  PROVE  LET told == {lessons[i] : i \in Evidence(option, "avoid")}
         IN  Cardinality(told) >= 2 \/ \E l \in told : l.confirmed > 0 \/ l.given > Usual
<1> DEFINE E == Evidence(option, "avoid")
           told == {lessons[i] : i \in E}
           Counts(ids) == {p \in ids \X (1 .. 100) : p[2] <= lessons[p[1]].confidence}
<1>1. /\ DOMAIN lessons = 1 .. Len(lessons) /\ Len(lessons) \in Nat
      /\ \A i \in 1 .. Len(lessons) : lessons[i] \in Lesson
  BY LenProperties, ElementOfSeq DEF LInv, TypeOK
<1>2. \A kind : Evidence(option, kind) \subseteq 1 .. Len(lessons) /\ IsFiniteSet(Evidence(option, kind))
  BY WeightType DEF LInv
<1>4. \A kind : Weight(Evidence(option, kind)) \in Nat
  BY WeightType DEF LInv
<1>5. Weight(E) >= 60
  BY <1>4 DEF Bias, RetireBias
<1>6. SUFFICES ASSUME \A i \in E : lessons[i].confirmed = 0 /\ lessons[i].given <= 50
               PROVE  Cardinality(told) >= 2
  <2>1. \A i \in E : lessons[i] \in Lesson
    BY <1>1, <1>2
  <2>2. \A i \in E : lessons[i].confirmed \in Nat /\ lessons[i].given \in 0 .. 100
    BY <2>1, LessonFields
  <2>3. \A i \in E : (lessons[i].confirmed = 0 \/ lessons[i].confirmed > 0)
                      /\ (lessons[i].given <= 50 \/ lessons[i].given > 50)
    BY <2>2
  <2>4. ASSUME ~ \E l \in told : l.confirmed > 0 \/ l.given > 50
        PROVE  \A i \in E : ~(lessons[i].confirmed > 0) /\ ~(lessons[i].given > 50)
    BY <2>4
  <2>5. (\E l \in told : l.confirmed > 0 \/ l.given > 50)
        \/ \A i \in E : lessons[i].confirmed = 0 /\ lessons[i].given <= 50
    <3> HIDE DEF E, told
    <3> QED BY <2>3, <2>4
  <2> QED BY <2>5 DEF Usual
<1>7. \A i \in E : lessons[i].confidence <= 50 /\ lessons[i].confidence \in Nat
  <2>1. \A i \in E : i \in 1 .. Len(lessons)
    BY <1>2
  <2>2. \A i \in E : lessons[i].confidence <= lessons[i].given
    BY <1>6, <2>1 DEF LInv, InOrder, Trusted
  <2>3. \A i \in E : lessons[i].confidence \in 0 .. 100 /\ lessons[i].given \in 0 .. 100
    BY <1>1, <2>1 DEF Lesson
  <2> QED BY <1>6, <2>2, <2>3
<1> HIDE DEF E
<1>8. ASSUME NEW i, E \subseteq {i} PROVE FALSE
  <2>1. PICK half \in Nat \ {0} : half = 50
    OBVIOUS
  <2>2. Counts(E) \subseteq {i} \X (1 .. half)
    BY <1>7, <1>8, <2>1
  <2>3. IsFiniteSet({i} \X (1 .. half)) /\ Cardinality({i} \X (1 .. half)) = half
    BY <2>1, PairsWithOne
  <2>4. Cardinality(Counts(E)) <= half /\ Cardinality(Counts(E)) \in Nat
    BY <2>1, <2>2, <2>3, FS_Subset, FS_CardinalityType
  <2>5. Weight(E) = Cardinality(Counts(E))
    BY DEF Weight
  <2> QED BY <1>5, <2>1, <2>4, <2>5
<1>9. PICK i \in E, j \in E : i # j
  BY <1>8
<1>10. lessons[i] # lessons[j]
  <2>1. i \in 1 .. Len(lessons) /\ j \in 1 .. Len(lessons)
    BY <1>2, <1>9 DEF E
  <2>2. lessons[i].id \in Nat /\ lessons[j].id \in Nat /\ (i < j \/ j < i)
    BY <1>1, <1>9, <2>1 DEF Lesson
  <2> QED BY <2>1, <2>2 DEF LInv, InOrder
<1>11. IsFiniteSet(told)
  <2> DEFINE f == [k \in E |-> lessons[k]]
  <2>1. IsFiniteSet(E)
    BY <1>2 DEF E
  <2>2. f \in Surjection(E, told)
    BY DEF Surjection
  <2> HIDE DEF f
  <2> QED BY <2>1, <2>2, FS_Surjection
<1>12. Cardinality({lessons[i]} \cup {lessons[j]}) = 2
  <2>1. IsFiniteSet({lessons[i]}) /\ Cardinality({lessons[i]}) = 1 /\ lessons[j] \notin {lessons[i]}
    BY <1>10, FS_Singleton
  <2>2. Cardinality({lessons[i]} \cup {lessons[j]}) = 1 + 1
    BY <2>1, FS_AddElement
  <2> QED BY <2>2
<1>13. {lessons[i]} \cup {lessons[j]} \subseteq told
  BY <1>9
<1> QED BY <1>11, <1>12, <1>13, FS_Subset, FS_CardinalityType

LEMMA RetiredOnEvidence ==
  ASSUME LInv, LoneFailureKeepsSkill, [SkillsNext]_libraryVars
  PROVE  LoneFailureKeepsSkill'
<1>1. CASE RetireStale
  <2> DEFINE now(id) == {lessons[i] : i \in Evidence(CurrentOf(id).name, "avoid")}
  <2>1. against' = [id \in DOMAIN against \cup Stale |-> IF id \in Stale THEN now(id) ELSE against[id]]
    BY <1>1 DEF RetireStale
  <2>2. \A id \in Stale : Cardinality(now(id)) >= 2 \/ \E l \in now(id) : l.confirmed > 0 \/ l.given > Usual
    BY TakesTwo DEF Stale
  <2> HIDE DEF now
  <2> QED BY <2>1, <2>2 DEF LoneFailureKeepsSkill
<1>2. CASE UNCHANGED against
  BY <1>2 DEF LoneFailureKeepsSkill
<1>3. RetireStale \/ UNCHANGED against
  BY DEF SkillsNext, libraryVars, skillVars, PromoteByHand, Complete, Mine, PassEnds, TryOne, Demote, Restore
<1> QED BY <1>1, <1>2, <1>3

LEMMA LessonsLearned == SkillsSpec => []LInv
<1>1. SkillsInit => LInv
  BY InitLInv DEF SkillsInit
<1>2. [SkillsNext]_libraryVars => [LessonsNext]_lessonVars
  BY DEF SkillsNext, libraryVars, PromoteByHand, Complete, Mine, PassEnds, TryOne, Demote, Restore,
         RetireStale
<1>3. LInv /\ [SkillsNext]_libraryVars => LInv'
  BY <1>2, NextLInv
<1> QED BY <1>1, <1>3, PTL DEF SkillsSpec

\* A skill is retired by experience only if two lessons are against it, or one that was
\* confirmed or told with more than the usual confidence, whatever maintenance, lessons
\* added meanwhile and crashes have made of the lessons before.
THEOREM RetiredForCause == SkillsSpec => []LoneFailureKeepsSkill
<1>1. SkillsInit => LoneFailureKeepsSkill
  BY DEF SkillsInit, LoneFailureKeepsSkill
<1>2. LInv /\ LoneFailureKeepsSkill /\ [SkillsNext]_libraryVars => LoneFailureKeepsSkill'
  BY RetiredOnEvidence
<1> QED BY <1>1, <1>2, LessonsLearned, PTL DEF SkillsSpec

-----------------------------------------------------------------------------
(* What skills are made of *)

\* One plan for a task, and such as there are.
DoneOK ==
  /\ done \subseteq PlanSet /\ IsFiniteSet(done)
  /\ \A p, q \in done : p.task = q.task => p = q

Fields == {"id", "name", "trigger", "params", "steps", "version", "active"}

\* A record of a skill, the first of which gave it its id.
LogOK ==
  /\ \E S : log \in Seq(S)
  /\ \A i \in 1 .. Len(log) :
       DOMAIN log[i] = Fields /\ \E k \in 1 .. i : log[i].id = <<k, log[i].name>>

\* What these plans have in common, all of them done.
MadeOf(skill, ids) == ids \subseteq {p.task : p \in done} /\ Reproduces(skill, From(ids))

\* Every record of a mined skill is made of the plans it came from, and so are the candidates.
AllMade ==
  /\ DOMAIN sources = Ids
  /\ \A i \in 1 .. Len(log) : sources[log[i].id] # {} => MadeOf(log[i], sources[log[i].id])
  /\ idlePass # None => \A c \in idlePass.left : MadeOf(c, c.sources)

MInv == DoneOK /\ LogOK /\ AllMade

-----------------------------------------------------------------------------

\* What is one at most is one.
LEMMA NotTwo ==
  ASSUME NEW S, IsFiniteSet(S), ~(Cardinality(S) > 1), NEW x \in S, NEW y \in S
  PROVE  x = y
<1> SUFFICES ASSUME x # y PROVE FALSE
  OBVIOUS
<1>1. IsFiniteSet({x}) /\ Cardinality({x}) = 1 /\ y \notin {x}
  BY FS_Singleton
<1>2. IsFiniteSet({x} \cup {y}) /\ Cardinality({x} \cup {y}) = 2
  <2>1. Cardinality({x} \cup {y}) = 1 + 1 /\ IsFiniteSet({x} \cup {y})
    BY <1>1, FS_AddElement
  <2> QED BY <2>1
<1>3. {x} \cup {y} \subseteq S
  OBVIOUS
<1> QED BY <1>2, <1>3, FS_Subset, FS_CardinalityType

\* The one value of a key in a step, if the plans have no two: a template that keeps it is right.
LEMMA KeptValue ==
  ASSUME NEW args, IsFiniteSet(args), Clear(args), NEW arg \in args, NEW key \in DOMAIN arg
  PROVE  /\ DOMAIN Template(args) = DOMAIN arg
         /\ Template(args)[key].param = Varies(args, key)
         /\ ~Template(args)[key].param => Template(args)[key].value = arg[key]
<1> DEFINE one == CHOOSE a \in args : TRUE
           values == {a[key] : a \in args}
<1>1. one \in args
  OBVIOUS
<1> HIDE DEF one
<1>2. Template(args) = [k \in DOMAIN one |-> [param |-> Varies(args, k), value |-> one[k]]]
  BY DEF Template, one
<1>3. DOMAIN one = DOMAIN arg
  BY <1>1 DEF Clear
<1>4. IsFiniteSet(values)
  <2> DEFINE f == [a \in args |-> a[key]]
  <2>1. f \in Surjection(args, values)
    BY DEF Surjection
  <2> QED BY <2>1, FS_Surjection
<1>5. ~Varies(args, key) => one[key] = arg[key]
  <2>1. one[key] \in values /\ arg[key] \in values
    BY <1>1
  <2>2. Varies(args, key) <=> Cardinality(values) > 1
    BY DEF Varies
  <2> HIDE DEF values
  <2> QED BY <1>4, <2>1, <2>2, NotTwo
<1> QED BY <1>2, <1>3, <1>5

\* The steps of a plan are so many, and an argument that is an object is a function.
LEMMA PlanForm ==
  ASSUME NEW p \in PlanSet
  PROVE  /\ IsFiniteSet(DOMAIN p.steps)
         /\ \A i \in DOMAIN p.steps :
              p.steps[i].arg # None => p.steps[i].arg = [key \in DOMAIN p.steps[i].arg |-> p.steps[i].arg[key]]
BY Zenon, SkillsAssumption

\* What plans of one shape are generalised to is what they have in common.
LEMMA GeneralMakes ==
  ASSUME DoneOK, NEW g \in SUBSET done, Cardinality(g) >= MinRecurrence,
         \A p \in g : Stable(p), \A p, q \in g : ShapeOf(p) = ShapeOf(q), Generalized(g) # None
  PROVE  MadeOf(Generalized(g), Generalized(g).sources)
<1> DEFINE one == CHOOSE p \in g : TRUE
           texts == {p \in g : p.text # None}
           Args(i) == {p.steps[i].arg : p \in g}
           trigger == Trigger(texts, Cardinality(texts))
           steps == [i \in DOMAIN one.steps |->
                       [tool |-> one.steps[i].tool, deps |-> one.steps[i].deps, template |-> Template(Args(i))]]
           params == {key \in UNION {DOMAIN steps[i].template : i \in DOMAIN steps} :
                        \E i \in DOMAIN steps : key \in DOMAIN steps[i].template
                                                 /\ steps[i].template[key].param}
           skill == Generalized(g)
<1>1. /\ texts # {}
      /\ \A i \in DOMAIN one.steps : Clear(Args(i))
      /\ \A p \in texts : p.text \cap trigger # {}
      /\ skill = [name |-> NameOf({one.steps[i].tool : i \in DOMAIN one.steps}), trigger |-> trigger,
                  params |-> params, steps |-> steps, sources |-> {p.task : p \in g}]
  BY Zenon DEF Generalized
<1>2. one \in g
  BY <1>1
<1> HIDE DEF one, trigger, params, steps, skill
<1>3. /\ skill.trigger = trigger /\ skill.params = params /\ skill.steps = steps
      /\ skill.sources = {p.task : p \in g}
  BY <1>1
<1>4. From(skill.sources) = g /\ skill.sources \subseteq {p.task : p \in done}
  BY <1>3 DEF From, DoneOK
<1>5. \A p \in g : DOMAIN p.steps = DOMAIN one.steps
  <2> SUFFICES ASSUME NEW p \in g PROVE DOMAIN p.steps = DOMAIN one.steps
    OBVIOUS
  <2>1. \A q : DOMAIN ShapeOf(q) = DOMAIN q.steps
    BY DEF ShapeOf
  <2>2. ShapeOf(p) = ShapeOf(one)
    BY <1>2
  <2> QED BY <2>1, <2>2
<1>6. \A p \in g : p.text # None => Matches(skill, [words |-> p.text])
  BY <1>1, <1>3 DEF Matches
<1>7. \A i \in DOMAIN one.steps : IsFiniteSet(Args(i))
  <2> SUFFICES ASSUME NEW i \in DOMAIN one.steps PROVE IsFiniteSet(Args(i))
    OBVIOUS
  <2> DEFINE f == [p \in g |-> p.steps[i].arg]
  <2>1. f \in Surjection(g, Args(i))
    BY DEF Surjection
  <2>2. IsFiniteSet(g)
    BY FS_Subset DEF DoneOK
  <2> QED BY <2>1, <2>2, FS_Surjection
<1>8. \A p \in g : \A i \in DOMAIN one.steps : p.steps[i].arg \in Args(i)
  OBVIOUS
<1>9. \A i \in DOMAIN one.steps : skill.steps[i].template = Template(Args(i))
  BY <1>3 DEF steps
<1>10. ASSUME NEW i \in DOMAIN one.steps, NEW key \in DOMAIN skill.steps[i].template,
              skill.steps[i].template[key].param
       PROVE  key \in skill.params
  <2>1. DOMAIN steps = DOMAIN one.steps
    BY DEF steps
  <2> QED BY <1>3, <1>10, <2>1 DEF params
<1> HIDE DEF Args
<1>11. ASSUME NEW p \in g, NEW i \in DOMAIN one.steps, NEW key \in DOMAIN p.steps[i].arg,
              ~skill.steps[i].template[key].param
       PROVE  skill.steps[i].template[key].value = p.steps[i].arg[key]
  <2>1. Clear(Args(i)) /\ IsFiniteSet(Args(i)) /\ p.steps[i].arg \in Args(i)
    BY <1>1, <1>7, <1>8
  <2>2. ~Template(Args(i))[key].param
    BY <1>9, <1>11
  <2>3. Template(Args(i))[key].value = p.steps[i].arg[key]
    BY <2>1, <2>2, KeptValue
  <2> QED BY <1>9, <2>3
<1>12. ASSUME NEW p \in g, NEW i \in DOMAIN one.steps
       PROVE  DOMAIN skill.steps[i].template = DOMAIN p.steps[i].arg
  <2>1. Clear(Args(i)) /\ p.steps[i].arg \in Args(i)
    BY <1>1, <1>8
  <2>2. DOMAIN Template(Args(i)) = DOMAIN p.steps[i].arg
    <3> DEFINE args == Args(i)
               a == CHOOSE x \in args : TRUE
    <3>1. a \in args
      BY <2>1
    <3>2. DOMAIN Template(args) = DOMAIN a
      BY DEF Template
    <3> HIDE DEF a, args
    <3>3. Clear(args) /\ p.steps[i].arg \in args
      BY <2>1 DEF args
    <3>4. DOMAIN a = DOMAIN p.steps[i].arg
      BY <3>1, <3>3 DEF Clear
    <3> QED BY <3>2, <3>4 DEF args
  <2> QED BY <1>9, <2>2
<1> DEFINE Slots(key, p) == {p.steps[i].arg[key] :
                               i \in {j \in DOMAIN p.steps : key \in DOMAIN p.steps[j].arg
                                                             /\ skill.steps[j].template[key].param}}
<1>13. ASSUME NEW p \in g, \A key \in skill.params : Cardinality(Slots(key, p)) = 1
       PROVE  LET values == [key \in skill.params |-> CHOOSE v \in Slots(key, p) : TRUE]
              IN  \A i \in DOMAIN p.steps : Filled(skill.steps[i], values) = p.steps[i].arg
  <2> DEFINE values == [key \in skill.params |-> CHOOSE v \in Slots(key, p) : TRUE]
  <2> SUFFICES ASSUME NEW i \in DOMAIN one.steps PROVE Filled(skill.steps[i], values) = p.steps[i].arg
    BY <1>5
  <2> DEFINE arg == p.steps[i].arg
  <2>1. p \in PlanSet /\ i \in DOMAIN p.steps
    BY <1>5 DEF DoneOK
  <2>2. arg # None
    BY <1>1, <1>8 DEF Clear
  <2>3. arg = [key \in DOMAIN arg |-> arg[key]] /\ IsFiniteSet(DOMAIN p.steps)
    BY <2>1, <2>2, PlanForm
  <2>4. DOMAIN skill.steps[i].template = DOMAIN arg
    BY <1>12
  <2>5. ASSUME NEW key \in DOMAIN arg, skill.steps[i].template[key].param
        PROVE  values[key] = arg[key]
    <3>1. key \in skill.params
      BY <1>10, <2>4, <2>5
    <3>2. arg[key] \in Slots(key, p)
      BY <2>1, <2>5
    <3>3. IsFiniteSet(Slots(key, p))
      <4> DEFINE J == {j \in DOMAIN p.steps : key \in DOMAIN p.steps[j].arg /\ skill.steps[j].template[key].param}
                 f == [j \in J |-> p.steps[j].arg[key]]
      <4>1. f \in Surjection(J, Slots(key, p))
        BY DEF Surjection
      <4>2. IsFiniteSet(J)
        BY <2>3, FS_Subset
      <4> QED BY <4>1, <4>2, FS_Surjection
    <3>4. Cardinality(Slots(key, p)) = 1
      BY <1>13, <3>1
    <3> DEFINE S == Slots(key, p)
               v == CHOOSE x \in S : TRUE
    <3>5. v \in S
      BY <3>2
    <3>6. values[key] = v
      BY <3>1
    <3> HIDE DEF S, v, values, Slots
    <3>7. IsFiniteSet(S) /\ ~(Cardinality(S) > 1) /\ arg[key] \in S
      BY <3>2, <3>3, <3>4 DEF S
    <3> QED BY <3>5, <3>6, <3>7, NotTwo
  <2> HIDE DEF values, Slots
  <2>6. Filled(skill.steps[i], values) =
          [key \in DOMAIN arg |-> IF skill.steps[i].template[key].param THEN values[key] ELSE skill.steps[i].template[key].value]
    BY <2>4 DEF Filled
  <2>7. \A key \in DOMAIN arg :
          (IF skill.steps[i].template[key].param THEN values[key] ELSE skill.steps[i].template[key].value) = arg[key]
    BY <1>11, <2>5
  <2> QED BY <2>3, <2>6, <2>7
<1>14. \A p \in g : p.repairs <= MaxRepairs
  BY DEF Stable
<1>15. Reproduces(skill, g)
  BY <1>3, <1>6, <1>13, <1>14 DEF Reproduces
<1> QED BY <1>4, <1>15 DEF MadeOf, skill

\* Only these fields count.
LEMMA SameSkill ==
  ASSUME NEW s, NEW r, NEW from, Reproduces(s, from),
         r.trigger = s.trigger, r.params = s.params, r.steps = s.steps
  PROVE  Reproduces(r, from)
<1> DEFINE Slots(steps, key, p) == {p.steps[i].arg[key] :
                                      i \in {j \in DOMAIN p.steps : key \in DOMAIN p.steps[j].arg
                                                                    /\ steps[j].template[key].param}}
           Refills(params, steps, p) ==
             (\A key \in params : Cardinality(Slots(steps, key, p)) = 1) =>
               LET values == [key \in params |-> CHOOSE v \in Slots(steps, key, p) : TRUE]
               IN  \A i \in DOMAIN p.steps : Filled(steps[i], values) = p.steps[i].arg
           Recognised(trigger, p) == p.text # None => trigger \cap p.text # {}
           Common(trigger, params, steps) ==
             /\ Cardinality(from) >= MinRecurrence
             /\ \A p \in from : p.repairs <= MaxRepairs /\ Recognised(trigger, p) /\ Refills(params, steps, p)
<1>1. Reproduces(s, from) <=> Common(s.trigger, s.params, s.steps)
  BY DEF Reproduces, Matches
<1>2. Reproduces(r, from) <=> Common(r.trigger, r.params, r.steps)
  BY DEF Reproduces, Matches
<1> HIDE DEF Common
<1> QED BY <1>1, <1>2

\* Plans of other tasks change nothing.
LEMMA MadeLater ==
  ASSUME DoneOK', done \subseteq done', NEW skill, NEW ids, MadeOf(skill, ids)
  PROVE  MadeOf(skill, ids)'
<1>1. ids \subseteq {p.task : p \in done}
  BY DEF MadeOf
<1>2. From(ids)' = From(ids)
  BY <1>1 DEF From, DoneOK
<1>3. ids \subseteq {p.task : p \in done'}
  BY <1>1
<1> QED BY <1>2, <1>3 DEF MadeOf

LEMMA CurrentIsOne ==
  ASSUME LogOK, NEW id \in Ids
  PROVE  \E i \in 1 .. Len(log) : CurrentOf(id) = log[i] /\ log[i].id = id
<1>1. DOMAIN log = 1 .. Len(log) /\ Len(log) \in Nat
  BY LenProperties DEF LogOK
<1>2. Records(id) # {} /\ Records(id) \in SUBSET (0 .. Len(log))
  BY <1>1 DEF Ids, Records
<1>3. Max(Records(id)) \in Records(id)
  BY <1>1, <1>2, GreatestUpTo
<1> QED BY <1>1, <1>3 DEF CurrentOf, Records

\* A flag leaves the rest of a skill alone.
Alike(r, s) ==
  /\ DOMAIN r = Fields
  /\ r.id = s.id /\ r.name = s.name /\ r.trigger = s.trigger /\ r.params = s.params /\ r.steps = s.steps

LEMMA FlaggedAlike ==
  ASSUME LogOK, NEW id \in Ids, NEW active
  PROVE  \E i \in 1 .. Len(log) : Alike(Flagged(id, active), log[i])
<1>1. PICK i \in 1 .. Len(log) : CurrentOf(id) = log[i]
  BY CurrentIsOne
<1>2. DOMAIN log[i] = Fields
  BY DEF LogOK
<1>3. Flagged(id, active) = [log[i] EXCEPT !.active = active, !.version = log[i].version + 1]
  BY <1>1 DEF Flagged
<1>4. Alike(Flagged(id, active), log[i])
  BY <1>2, <1>3 DEF Alike, Fields
<1> QED BY <1>4

\* Records like earlier ones, put behind them, leave what skills are made of as it was.
LEMMA AlikeAppended ==
  ASSUME MInv, NEW T, NEW new \in Seq(T), log' = log \o new,
         \A n \in 1 .. Len(new) : \E i \in 1 .. Len(log) : Alike(new[n], log[i]),
         UNCHANGED <<done, idlePass, sources>>
  PROVE  MInv'
<1>1. PICK S : log \in Seq(S)
  BY DEF MInv, LogOK
<1>2. log \in Seq(S \cup T) /\ new \in Seq(S \cup T)
  BY <1>1, LenProperties, ElementOfSeq, SeqDef
<1>3. /\ log' \in Seq(S \cup T) /\ Len(log') = Len(log) + Len(new)
      /\ \A i \in 1 .. Len(log') : log'[i] = IF i <= Len(log) THEN log[i] ELSE new[i - Len(log)]
  BY <1>2, ConcatProperties
<1>4. /\ Len(log) \in Nat /\ Len(new) \in Nat /\ DOMAIN log = 1 .. Len(log)
      /\ Len(log') \in Nat /\ DOMAIN log' = 1 .. Len(log')
  BY <1>2, <1>3, LenProperties
<1>5. \A i \in 1 .. Len(log) : i \in 1 .. Len(log') /\ log'[i] = log[i]
  BY <1>3, <1>4
<1>6. ASSUME NEW i \in 1 .. Len(log')
      PROVE  \E j \in 1 .. Len(log) : j <= i /\ Alike(log'[i], log[j])
  <2>1. CASE i <= Len(log)
    <3>1. i \in 1 .. Len(log) /\ DOMAIN log[i] = Fields
      BY <1>4, <2>1 DEF MInv, LogOK
    <3> QED BY <1>5, <3>1 DEF Alike
  <2>2. CASE i > Len(log)
    <3>1. i - Len(log) \in 1 .. Len(new) /\ log'[i] = new[i - Len(log)]
      BY <1>3, <1>4, <2>2
    <3>2. PICK j \in 1 .. Len(log) : Alike(log'[i], log[j])
      BY <3>1
    <3>3. j <= i
      <4>1. i \in Int /\ j \in Int /\ Len(log) \in Int /\ j <= Len(log)
        BY <1>4
      <4> QED BY <2>2, <4>1
    <3> QED BY <3>2, <3>3
  <2>3. i \in Int /\ Len(log) \in Int
    BY <1>4
  <2> QED BY <2>1, <2>2, <2>3
<1>7. LogOK'
  <2>1. ASSUME NEW i \in 1 .. Len(log')
        PROVE  DOMAIN log'[i] = Fields /\ \E k \in 1 .. i : log'[i].id = <<k, log'[i].name>>
    <3>1. PICK j \in 1 .. Len(log) : j <= i /\ Alike(log'[i], log[j])
      BY <1>6
    <3>2. PICK k \in 1 .. j : log[j].id = <<k, log[j].name>>
      BY DEF MInv, LogOK
    <3>3. k \in 1 .. i
      BY <1>4, <3>1, <3>2
    <3> QED BY <3>1, <3>2, <3>3 DEF Alike
  <2> QED BY <1>3, <2>1 DEF LogOK
<1>8. Ids' = Ids
  <2>1. \A i \in 1 .. Len(log') : \E j \in 1 .. Len(log) : log'[i].id = log[j].id
    BY <1>6 DEF Alike
  <2>2. Ids = {log[i].id : i \in 1 .. Len(log)} /\ Ids' = {log'[i].id : i \in 1 .. Len(log')}
    BY <1>4 DEF Ids
  <2>3. ASSUME NEW i \in 1 .. Len(log') PROVE log'[i].id \in Ids
    <3>1. PICK j \in 1 .. Len(log) : log'[i].id = log[j].id
      BY <2>1
    <3> QED BY <2>2, <3>1
  <2>4. \A id \in Ids : id \in Ids'
    BY <1>5, <2>2
  <2> QED BY <2>2, <2>3, <2>4
<1>9. ASSUME NEW i \in 1 .. Len(log'), sources'[log'[i].id] # {}
      PROVE  MadeOf(log[i], sources[log[i].id])'
  <2>1. PICK j \in 1 .. Len(log) : Alike(log'[i], log[j])
    BY <1>6
  <2>2. sources[log[j].id] # {} /\ sources'[log'[i].id] = sources[log[j].id]
    BY <1>9, <2>1 DEF Alike
  <2>3. MadeOf(log[j], sources[log[j].id])
    BY <2>2 DEF MInv, AllMade
  <2>4. Reproduces(log'[i], From(sources[log[j].id]))
    BY <2>1, <2>3, SameSkill DEF MadeOf, Alike
  <2> QED BY <2>2, <2>3, <2>4 DEF MadeOf, From
<1>10. AllMade'
  <2>1. idlePass' # None => \A c \in idlePass'.left : MadeOf(c, c.sources)'
    BY DEF MInv, AllMade, MadeOf, From
  <2>2. DOMAIN sources' = Ids'
    BY <1>8 DEF MInv, AllMade
  <2> QED BY <1>9, <2>1, <2>2 DEF AllMade
<1> QED BY <1>7, <1>10 DEF MInv, DoneOK

\* A new skill has a new id, and is made of what it comes from.
LEMMA RegisterMade ==
  ASSUME MInv, NEW skill, NEW from, Register(skill, from), from # {} => MadeOf(skill, from),
         done' = done, idlePass' # None => idlePass # None /\ idlePass'.left \subseteq idlePass.left
  PROVE  MInv'
<1> DEFINE new == Registered(skill)
<1>1. PICK S : log \in Seq(S)
  BY DEF MInv, LogOK
<1>2. /\ log' = Append(log, new)
      /\ sources' = [id \in DOMAIN sources \cup {new.id} |-> IF id = new.id THEN from ELSE sources[id]]
  BY DEF Register
<1>3. /\ DOMAIN new = Fields /\ new.id = <<Len(log) + 1, new.name>>
      /\ new.trigger = skill.trigger /\ new.params = skill.params /\ new.steps = skill.steps
  BY DEF Registered, Fields
<1> HIDE DEF new
<1>4. log \in Seq(S \cup {new}) /\ Len(log) \in Nat /\ DOMAIN log = 1 .. Len(log)
  BY <1>1, LenProperties, ElementOfSeq, SeqDef
<1>5. /\ log' \in Seq(S \cup {new}) /\ Len(log') = Len(log) + 1
      /\ \A i \in 1 .. Len(log) : log'[i] = log[i]
      /\ log'[Len(log) + 1] = new
  BY <1>2, <1>4, AppendProperties
<1>6. DOMAIN log' = 1 .. Len(log')
  BY <1>5, LenProperties
<1>7. \A i \in 1 .. Len(log') : i \in 1 .. Len(log) \/ i = Len(log) + 1
  BY <1>4, <1>5
<1>8. new.id \notin Ids
  <2> SUFFICES ASSUME NEW i \in 1 .. Len(log), log[i].id = new.id PROVE FALSE
    BY <1>4 DEF Ids
  <2>1. PICK k \in 1 .. i : log[i].id = <<k, log[i].name>>
    BY DEF MInv, LogOK
  <2>2. k = Len(log) + 1
    BY <1>3, <2>1
  <2> QED BY <1>4, <2>2
<1>9. LogOK'
  <2>1. \A i \in 1 .. Len(log) : DOMAIN log[i] = Fields /\ \E k \in 1 .. i : log[i].id = <<k, log[i].name>>
    BY DEF MInv, LogOK
  <2>2. Len(log) + 1 \in 1 .. Len(log) + 1
    BY <1>4
  <2>3. \A i \in 1 .. Len(log') :
          DOMAIN log'[i] = Fields /\ \E k \in 1 .. i : log'[i].id = <<k, log'[i].name>>
    BY <1>3, <1>5, <1>7, <2>1, <2>2
  <2> QED BY <1>5, <2>3 DEF LogOK
<1>10. Ids' = Ids \cup {new.id}
  BY <1>4, <1>5, <1>6, <1>7 DEF Ids
<1>11. \A id \in Ids : sources'[id] = sources[id]
  BY <1>2, <1>8 DEF MInv, AllMade
<1>12. ASSUME NEW i \in 1 .. Len(log'), sources'[log'[i].id] # {}
       PROVE  MadeOf(log[i], sources[log[i].id])'
  <2>1. CASE i \in 1 .. Len(log)
    <3>1. log'[i] = log[i] /\ log[i].id \in Ids
      BY <1>4, <1>5, <2>1 DEF Ids
    <3>2. sources'[log'[i].id] = sources[log[i].id]
      BY <1>11, <3>1
    <3>3. MadeOf(log[i], sources[log[i].id])
      BY <1>12, <2>1, <3>2 DEF MInv, AllMade
    <3> QED BY <3>1, <3>2, <3>3 DEF MadeOf, From
  <2>2. CASE i = Len(log) + 1
    <3>1. log'[i] = new /\ sources'[new.id] = from
      BY <1>2, <1>5, <2>2
    <3>2. MadeOf(skill, from)
      BY <1>12, <3>1
    <3>3. Reproduces(new, From(from))
      BY <1>3, <3>2, SameSkill DEF MadeOf
    <3> QED BY <3>1, <3>2, <3>3 DEF MadeOf, From
  <2> QED BY <1>7, <2>1, <2>2
<1>13. idlePass' # None => \A c \in idlePass'.left : MadeOf(c, c.sources)'
  BY DEF MInv, AllMade, MadeOf, From
<1>14. DOMAIN sources' = Ids'
  BY <1>2, <1>10 DEF MInv, AllMade
<1>15. AllMade'
  BY <1>12, <1>13, <1>14 DEF AllMade
<1> QED BY <1>9, <1>15 DEF MInv, DoneOK

\* Retiring and restoring put one such record behind the others, experience as many as it retires.
LEMMA FlagMade ==
  ASSUME MInv, NEW id \in Ids, NEW active, Flag(id, active), UNCHANGED <<done, idlePass, sources>>
  PROVE  MInv'
<1> DEFINE new == <<Flagged(id, active)>>
<1>1. PICK S : log \in Seq(S)
  BY DEF MInv, LogOK
<1>2. log' = log \o new
  BY <1>1, AppendIsConcat DEF Flag
<1>3. new \in Seq({Flagged(id, active)}) /\ Len(new) = 1 /\ new[1] = Flagged(id, active)
  OBVIOUS
<1>4. \E i \in 1 .. Len(log) : Alike(new[1], log[i])
  BY <1>3, FlaggedAlike DEF MInv
<1> HIDE DEF new
<1>5. \A n \in 1 .. Len(new) : \E i \in 1 .. Len(log) : Alike(new[n], log[i])
  BY <1>3, <1>4
<1> QED BY <1>2, <1>3, <1>5, AlikeAppended

LEMMA IdsFinite ==
  ASSUME LogOK
  PROVE  IsFiniteSet(Ids)
<1>1. DOMAIN log = 1 .. Len(log) /\ Len(log) \in Nat
  BY LenProperties DEF LogOK
<1> DEFINE f == [i \in 1 .. Len(log) |-> log[i].id]
<1>2. f \in Surjection(1 .. Len(log), Ids)
  BY <1>1 DEF Surjection, Ids
<1>3. IsFiniteSet(1 .. Len(log))
  BY <1>1, FS_Interval
<1> HIDE DEF f
<1> QED BY <1>2, <1>3, FS_Surjection

LEMMA RetireMade ==
  ASSUME MInv, RetireStale
  PROVE  MInv'
<1> DEFINE order == SetToSeq(Stale)
           new == [k \in DOMAIN order |-> Flagged(order[k], FALSE)]
           T == {Flagged(id, FALSE) : id \in Stale}
<1>1. IsFiniteSet(Stale)
  BY IdsFinite, FS_Subset DEF Stale, ActiveIds, MInv
<1>2. Cardinality(Stale) \in Nat /\ order \in [1 .. Cardinality(Stale) -> Stale]
  <2>1. Cardinality(Stale) \in Nat /\ ExistsBijection(1 .. Cardinality(Stale), Stale)
    BY <1>1, FS_CardinalityType
  <2>2. \E f \in [1 .. Cardinality(Stale) -> Stale] : IsInjective(f)
    BY <2>1 DEF ExistsBijection, Bijection, Injection, Surjection, IsInjective
  <2> QED BY <2>1, <2>2 DEF SetToSeq
<1>3. log' = log \o new /\ UNCHANGED <<done, idlePass, sources>>
  BY DEF RetireStale
<1> HIDE DEF order
<1>4. new \in [1 .. Cardinality(Stale) -> T]
  BY <1>2
<1>5. new \in Seq(T) /\ Len(new) = Cardinality(Stale)
  <2> HIDE DEF new, T
  <2>1. new \in Seq(T)
    BY <1>2, <1>4, SeqDef
  <2>2. DOMAIN new = 1 .. Cardinality(Stale)
    BY <1>4
  <2> QED BY <1>2, <2>1, <2>2, LenProperties
<1>6. \A n \in 1 .. Len(new) : \E i \in 1 .. Len(log) : Alike(new[n], log[i])
  <2> SUFFICES ASSUME NEW n \in 1 .. Cardinality(Stale) PROVE \E i \in 1 .. Len(log) : Alike(new[n], log[i])
    BY <1>5
  <2>1. order[n] \in Ids /\ new[n] = Flagged(order[n], FALSE)
    BY <1>2 DEF Stale, ActiveIds
  <2> QED BY <2>1, FlaggedAlike DEF MInv
<1> HIDE DEF new, T
<1> QED BY <1>3, <1>5, <1>6, AlikeAppended

\* What is mined is made of the plans it names.
LEMMA MinedMade ==
  ASSUME MInv, NEW c \in Mined
  PROVE  MadeOf(c, c.sources)
<1> DEFINE stable == {p \in done : Stable(p)}
<1>1. PICK g \in {{p \in stable : ShapeOf(p) = ShapeOf(q)} : q \in stable} :
        Cardinality(g) >= MinRecurrence /\ c = Generalized(g) /\ c # None
  BY DEF Mined, Candidates
<1>2. /\ g \in SUBSET done /\ \A p \in g : Stable(p)
      /\ \A p, q \in g : ShapeOf(p) = ShapeOf(q)
  BY <1>1
<1>3. DoneOK
  BY DEF MInv
<1> QED BY <1>1, <1>2, <1>3, GeneralMakes

LEMMA InitMInv == SkillsInit => MInv
<1> SUFFICES ASSUME SkillsInit PROVE MInv
  OBVIOUS
<1>1. DoneOK
  BY SkillsAssumption DEF SkillsInit, DoneOK
<1>2. log = <<>> /\ log \in Seq({}) /\ Len(log) = 0 /\ DOMAIN log = {} /\ DOMAIN sources = {} /\ idlePass = None
  BY EmptySeq DEF SkillsInit
<1>3. LogOK /\ AllMade
  BY <1>2 DEF LogOK, AllMade, Ids
<1> QED BY <1>1, <1>3 DEF MInv

\* What an idle pass leaves to try is all that may have changed.
LEMMA PassMade ==
  ASSUME MInv, UNCHANGED <<log, done, sources>>,
         idlePass' # None => \A c \in idlePass'.left : MadeOf(c, c.sources)
  PROVE  MInv'
<1>1. DoneOK' /\ LogOK' /\ Ids' = Ids
  BY DEF MInv, DoneOK, LogOK, Ids
<1>2. \A skill, ids : MadeOf(skill, ids) => MadeOf(skill, ids)'
  BY DEF MadeOf, From
<1>3. \A i \in 1 .. Len(log) : sources[log[i].id] # {} => MadeOf(log[i], sources[log[i].id])
  BY DEF MInv, AllMade
<1>4. AllMade'
  BY <1>1, <1>2, <1>3 DEF MInv, AllMade
<1> QED BY <1>1, <1>4 DEF MInv

LEMMA NextMInv == MInv /\ [SkillsNext]_libraryVars => MInv'
<1> SUFFICES ASSUME MInv, [SkillsNext]_libraryVars PROVE MInv'
  OBVIOUS
<1>1. ASSUME NEW s, NEW cases, PromoteByHand(s, cases)
      PROVE  MInv'
  BY <1>1, RegisterMade DEF PromoteByHand
<1>2. ASSUME NEW p \in PlanSet, Complete(p)
      PROVE  MInv'
  <2>1. /\ \A q \in done : q.task # p.task
        /\ done' = done \cup {p} /\ UNCHANGED <<log, idlePass, sources>>
    BY <1>2 DEF Complete
  <2>2. IsFiniteSet(done')
    BY <2>1, FS_AddElement DEF MInv, DoneOK
  <2>3. DoneOK'
    BY <2>1, <2>2 DEF MInv, DoneOK
  <2>4. \A skill, ids : MadeOf(skill, ids) => MadeOf(skill, ids)'
    BY <2>1, <2>3, MadeLater
  <2>5. LogOK' /\ Ids' = Ids
    BY <2>1 DEF MInv, LogOK, Ids
  <2>6. AllMade'
    BY <2>1, <2>4, <2>5 DEF MInv, AllMade
  <2> QED BY <2>3, <2>5, <2>6 DEF MInv
<1>3. CASE Mine
  <2>1. idlePass'.left = Mined /\ UNCHANGED <<log, done, sources>>
    BY <1>3 DEF Mine
  <2>2. \A c \in Mined : MadeOf(c, c.sources)
    BY MinedMade
  <2> QED BY <2>1, <2>2, PassMade
<1>4. CASE PassEnds
  BY <1>4, PassMade DEF PassEnds
<1>5. ASSUME NEW c, c \in idlePass.left, TryOne(c)
      PROVE  MInv'
  <2>1. /\ idlePass # None /\ idlePass'.left = idlePass.left \ {c}
        /\ UNCHANGED done
    BY <1>5 DEF TryOne
  <2>2. MadeOf(c, c.sources)
    BY <1>5, <2>1 DEF MInv, AllMade
  <2>3. CASE Register(c, c.sources)
    BY <2>1, <2>2, <2>3, RegisterMade
  <2>4. CASE UNCHANGED <<log, sources>>
    <3>1. \A d \in idlePass'.left : MadeOf(d, d.sources)
      BY <2>1 DEF MInv, AllMade
    <3> QED BY <2>1, <2>4, <3>1, PassMade
  <2> QED BY <1>5, <2>3, <2>4 DEF TryOne
<1>6. ASSUME NEW id \in Ids, Demote(id) \/ Restore(id)
      PROVE  MInv'
  BY <1>6, FlagMade DEF Demote, Restore
<1>7. CASE RetireStale
  BY <1>7, RetireMade
<1>8. CASE UNCHANGED skillVars
  <2>1. UNCHANGED <<log, done, sources, idlePass>>
    BY <1>8 DEF skillVars
  <2>2. idlePass' # None => \A c \in idlePass'.left : MadeOf(c, c.sources)
    BY <2>1 DEF MInv, AllMade
  <2> QED BY <2>1, <2>2, PassMade
<1> QED BY <1>1, <1>2, <1>3, <1>4, <1>5, <1>6, <1>7, <1>8 DEF SkillsNext, libraryVars

\* Whatever is retired, restored or mined again, a skill that was mined does what the plans
\* it came from did, and there were enough of these.
THEOREM SkillsComeFromPlans == SkillsSpec => []MinedReproduces
<1>1. MInv => MinedReproduces
  <2> SUFFICES ASSUME MInv, NEW id \in DOMAIN sources, sources[id] # {}
               PROVE  Reproduces(CurrentOf(id), From(sources[id]))
    BY DEF MinedReproduces
  <2>1. PICK i \in 1 .. Len(log) : CurrentOf(id) = log[i] /\ log[i].id = id
    BY CurrentIsOne DEF MInv, AllMade
  <2>2. MadeOf(log[i], sources[id])
    BY <2>1 DEF MInv, AllMade
  <2> QED BY <2>1, <2>2 DEF MadeOf
<1> QED BY <1>1, InitMInv, NextMInv, PTL DEF SkillsSpec

-----------------------------------------------------------------------------
(* Which skill the planner takes *)

LEMMA EmptyFunction ==
  ASSUME NEW f, f = [k \in DOMAIN f |-> f[k]], NEW n \in Nat, DOMAIN f = 1 .. n
  PROVE  f = <<>> <=> n = 0
<1>1. ASSUME n = 0 PROVE f = <<>>
  <2>1. f \in [1 .. n -> {}]
    BY <1>1
  <2>2. f \in Seq({}) /\ Len(f) = n
    BY <2>1, SeqDef, LenProperties
  <2> QED BY <1>1, <2>2, EmptySeq
<1>2. ASSUME n # 0, f = <<>> PROVE FALSE
  BY <1>2
<1> QED BY <1>1, <1>2

LEMMA MatchingForm ==
  ASSUME LogOK, NEW task
  PROVE  \E n \in Nat : DOMAIN Matching(task) = 1 .. n
<1> DEFINE fit == {id \in ActiveIds : Matches(CurrentOf(id), task) /\ Binds(CurrentOf(id), task)}
<1>1. IsFiniteSet(Ids)
  BY IdsFinite
<1>2. fit \subseteq Ids
  BY DEF ActiveIds
<1>3. Cardinality(fit) \in Nat
  BY <1>1, <1>2, FS_Subset, FS_CardinalityType
<1>4. DOMAIN Matching(task) = 1 .. Cardinality(fit)
  BY DEF Matching, Sorted
<1> HIDE DEF fit
<1> QED BY <1>3, <1>4

\* The first of the ranked has the best record, and is the oldest of those that have it.
LEMMA FirstRanked ==
  ASSUME TypeOK, NEW n \in Nat, NEW skills, DOMAIN skills = 1 .. n
  PROVE  /\ DOMAIN Ranked(skills) = 1 .. n
         /\ n > 0 => \E i \in 1 .. n :
              /\ Ranked(skills)[1] = skills[i]
              /\ \A j \in 1 .. n : /\ ~(Bias(skills[j].name) > Bias(skills[i].name))
                                   /\ j < i => Bias(skills[i].name) > Bias(skills[j].name)
<1> DEFINE S == DOMAIN skills
           B(k) == Bias(skills[k].name)
           ahead == {p \in S \X S : B(p[1]) > B(p[2]) \/ (B(p[1]) = B(p[2]) /\ p[1] < p[2])}
<1>1. IsFiniteSet(S) /\ S = 1 .. n
  BY FS_Interval
<1>2. \A k : B(k) \in Int
  BY BiasType
<1>3. Ranked(skills) = SortedBy(skills, ahead)
  BY DEF Ranked
<1>4. DOMAIN Ranked(skills) = 1 .. n
  BY <1>1, <1>3 DEF SortedBy
<1> HIDE DEF S, B
<1>5. \A x, y \in S : <<x, y>> \in ahead <=> B(x) > B(y) \/ (B(x) = B(y) /\ x < y)
  OBVIOUS
<1> HIDE DEF ahead
<1>6. Total(S, ahead)
  <2>1. \A x \in S : x \in Int
    BY <1>1
  <2> QED BY <1>2, <1>5, <2>1 DEF Total
<1>7. ASSUME n > 0
      PROVE  \E i \in 1 .. n : /\ Ranked(skills)[1] = skills[i]
                               /\ \A j \in 1 .. n : ~(B(j) > B(i)) /\ (j < i => B(i) > B(j))
  <2>1. Total(DOMAIN skills, ahead) /\ DOMAIN skills = 1 .. n /\ 1 \in 1 .. n
    BY <1>6, <1>7 DEF S
  <2>2. PICK i \in 1 .. n : SortedBy(skills, ahead)[1] = skills[i] /\ Place(DOMAIN skills, ahead, i) = 1 - 1
    BY <2>1, SortedByPlaces
  <2>3. Place(S, ahead, i) = 0
    BY <2>2 DEF S
  <2>4. \A j \in S : <<j, i>> \notin ahead
    <3> DEFINE before == {y \in S : <<y, i>> \in ahead}
    <3>1. IsFiniteSet(before)
      BY <1>1, FS_Subset
    <3>2. Place(S, ahead, i) = Cardinality(before)
      BY DEF Place
    <3> HIDE DEF before
    <3>3. before = {}
      BY <2>3, <3>1, <3>2, FS_EmptySet
    <3> QED BY <3>3 DEF before
  <2>5. \A j \in S : ~(B(j) > B(i)) /\ (j < i => B(i) > B(j))
    <3> SUFFICES ASSUME NEW j \in S PROVE ~(B(j) > B(i)) /\ (j < i => B(i) > B(j))
      OBVIOUS
    <3>1. ~(B(j) > B(i) \/ (B(j) = B(i) /\ j < i))
      BY <1>1, <1>5, <2>4
    <3>2. B(i) \in Int /\ B(j) \in Int
      BY <1>2
    <3> QED BY <3>1, <3>2
  <2> QED BY <1>1, <1>3, <2>2, <2>5
<1> QED BY <1>4, <1>7 DEF B

\* Experience decides the order of the skills that match, and nothing else: the planner
\* gets one of them if there is one, and the best.
THEOREM ExperienceOnlyRanks == SkillsSpec => []BestOfTheMatching
<1>1. LInv /\ MInv => BestOfTheMatching
  <2> SUFFICES ASSUME LInv, MInv, NEW task \in Tasks
               PROVE  LET source == PlanSource(task)
                          Better(i, j) == Bias(Matching(task)[i].name) > Bias(Matching(task)[j].name)
                      IN  /\ Matching(task) = <<>> <=> source.why \in {"bind_failed", "no_trigger_match"}
                          /\ source.why = None =>
                               \E i \in DOMAIN Matching(task) :
                                 /\ Matching(task)[i].id = source.id
                                 /\ \A j \in DOMAIN Matching(task) : ~Better(j, i) /\ (j < i => Better(i, j))
                                 /\ ~consume => i = 1
    BY DEF BestOfTheMatching
  <2> DEFINE m == Matching(task)
             ranked == Ranked(m)
             source == PlanSource(task)
             B(k) == Bias(m[k].name)
  <2>1. TypeOK /\ LogOK
    BY DEF LInv, MInv
  <2>2. PICK n \in Nat : DOMAIN m = 1 .. n
    BY <2>1, MatchingForm
  <2>3. m = <<>> <=> n = 0
    <3>1. m = [k \in DOMAIN m |-> m[k]]
      BY Zenon DEF Matching
    <3> QED BY <2>2, <3>1, EmptyFunction
  <2>4. \A k : B(k) \in Int /\ (~consume => B(k) = 0)
    BY <2>1, BiasType
  <2> HIDE DEF m
  <2>5. /\ DOMAIN ranked = 1 .. n
        /\ n > 0 => \E i \in 1 .. n : /\ ranked[1] = m[i]
                                      /\ \A j \in 1 .. n : ~(B(j) > B(i)) /\ (j < i => B(i) > B(j))
    BY <2>1, <2>2, FirstRanked
  <2>6. ranked = <<>> <=> n = 0
    <3>1. ranked = [k \in DOMAIN ranked |-> ranked[k]]
      <4>1. ranked = [k \in DOMAIN m |-> ranked[k]]
        BY SortedByForm DEF Ranked
      <4> QED BY <2>2, <2>5, <4>1
    <3> QED BY <2>5, <3>1, EmptyFunction
  <2>7. CASE n = 0
    <3>1. source.why \in {"bind_failed", "no_trigger_match"}
      BY <2>6, <2>7 DEF PlanSource, m
    <3>2. source.why # None
      BY <3>1, SkillsAssumption
    <3> QED BY <2>3, <2>7, <3>1, <3>2 DEF m
  <2>8. CASE n > 0
    <3>1. source.why = None => source.id = ranked[1].id
      BY <2>6, <2>8, SkillsAssumption DEF PlanSource, m
    <3>2. source.why \in {None, "invalid_render"}
      BY <2>6, <2>8 DEF PlanSource, m
    <3>3. source.why \notin {"bind_failed", "no_trigger_match"}
      BY <3>2, SkillsAssumption
    <3>4. PICK i \in 1 .. n : /\ ranked[1] = m[i]
                              /\ \A j \in 1 .. n : ~(B(j) > B(i)) /\ (j < i => B(i) > B(j))
      BY <2>5, <2>8
    <3>5. ~consume => i = 1
      BY <2>4, <2>8, <3>4
    <3> QED BY <2>2, <2>3, <2>8, <3>1, <3>3, <3>4, <3>5 DEF m
  <2> QED BY <2>7, <2>8
<1> QED BY <1>1, LessonsLearned, InitMInv, NextMInv, PTL DEF SkillsSpec

-----------------------------------------------------------------------------
(* The lessons of sessions *)

Outcomes == Clean \cup {"stalled", "stopped_for_review", "failed"}
Verdicts == {"likely_needs_review", "likely_stall", "safe_unattended", "safe_only_tighter_bounds"}
Learned ==
  [verdict : Verdicts, confidence : Int, profile : {"tighter", None}, retired : BOOLEAN,
   version : Nat]

SessionTypes ==
  /\ journal \in Seq([shape : Shapes, outcome : Outcomes])
  /\ advice \in [Shapes -> Learned \cup {None}]
  /\ withdrawn \subseteq Shapes
  /\ own \in Configured
  /\ paused \subseteq [frontier : Frontiers,
                       bounds : Configured \cup {Profiles[p] : p \in DOMAIN Profiles}]

\* What the process works with is what a restart would read.
AsLoaded ==
  /\ index = advice
  /\ records = Capped(journal, DOMAIN journal)

\* A shape set aside has no lesson, or one with the flag.
SetAsideByFlag == \A s \in withdrawn : advice[s] # None => advice[s].retired

AInv == SessionTypes /\ AsLoaded /\ SetAsideByFlag /\ held \ forgotten \subseteq withdrawn

-----------------------------------------------------------------------------

\* To cut after every line comes to the same as to cut the whole file: what is cut has
\* HistoryCap later lines of its shape, and they do not get fewer.
LEMMA CutAsYouGo ==
  ASSUME NEW n \in Nat, NEW file, NEW longer, \A i \in 1 .. n : longer[i] = file[i]
  PROVE  Capped(longer, Capped(file, 1 .. n) \cup {n + 1}) = Capped(longer, 1 .. n + 1)
<1> DEFINE Later(f, lines, i) == {j \in lines : j >= i /\ f[j].shape = f[i].shape}
           kept == Capped(file, 1 .. n)
           new == kept \cup {n + 1}
           whole == 1 .. n + 1
<1>1. IsFiniteSet(whole) /\ IsFiniteSet(1 .. n)
  BY FS_Interval
<1>2. \A f, lines, i : i \in Capped(f, lines) <=> i \in lines /\ Cardinality(Later(f, lines, i)) <= HistoryCap
  BY DEF Capped
<1>3. \A i \in 1 .. n + 1 : /\ IsFiniteSet(Later(longer, whole, i))
                            /\ Cardinality(Later(longer, whole, i)) \in Nat
  BY <1>1, FS_Subset, FS_CardinalityType
<1>4. kept \subseteq 1 .. n
  BY <1>2
<1>5. ASSUME NEW i \in new
      PROVE  Later(longer, new, i) = Later(longer, whole, i)
  <2>1. CASE i = n + 1
    BY <1>4, <2>1
  <2>2. CASE i \in kept
    <3>1. i \in 1 .. n /\ Cardinality(Later(file, 1 .. n, i)) <= HistoryCap
      <4> HIDE DEF Later
      <4> QED BY <1>2, <2>2
    <3>2. ASSUME NEW j \in Later(file, 1 .. n, i)
          PROVE  j \in kept
      <4>1. Later(file, 1 .. n, j) \subseteq Later(file, 1 .. n, i)
        BY <3>1, <3>2
      <4>2. IsFiniteSet(Later(file, 1 .. n, i))
        BY <1>1, FS_Subset
      <4>3. Cardinality(Later(file, 1 .. n, j)) <= HistoryCap
        BY <3>1, <4>1, <4>2, FS_Subset, FS_CardinalityType, SessionLessonsAssumption
      <4> QED BY <1>2, <4>3
    <3>3. \A j \in 1 .. n : j >= i /\ longer[j].shape = longer[i].shape => j \in kept
      BY <3>1, <3>2
    <3> QED BY <1>4, <3>1, <3>3
  <2> QED BY <2>1, <2>2
<1>6. ASSUME NEW i \in whole, i \notin new
      PROVE  ~ Cardinality(Later(longer, whole, i)) <= HistoryCap
  <2>1. i \in 1 .. n /\ i \notin kept
    BY <1>6
  <2>2. ~ Cardinality(Later(file, 1 .. n, i)) <= HistoryCap
    BY <1>2, <2>1
  <2>3. Later(file, 1 .. n, i) \subseteq Later(longer, whole, i)
    BY <2>1
  <2>4. Cardinality(Later(file, 1 .. n, i)) <= Cardinality(Later(longer, whole, i))
    BY <1>3, <2>3, FS_Subset
  <2>5. Cardinality(Later(file, 1 .. n, i)) \in Nat
    BY <1>3, <2>3, FS_Subset, FS_CardinalityType
  <2>6. Cardinality(Later(longer, whole, i)) \in Nat
    BY <1>3
  <2> HIDE DEF Later, whole
  <2> QED BY <2>2, <2>4, <2>5, <2>6, SessionLessonsAssumption
<1>7. new \subseteq whole
  BY <1>4
<1> HIDE DEF Later, kept, new, whole
<1>8. /\ \A i : i \in Capped(longer, new) <=> i \in new /\ Cardinality(Later(longer, new, i)) <= HistoryCap
      /\ \A i : i \in Capped(longer, whole)
                  <=> i \in whole /\ Cardinality(Later(longer, whole, i)) <= HistoryCap
  BY <1>2
<1>9. Capped(longer, new) = Capped(longer, whole)
  BY <1>5, <1>6, <1>7, <1>8
<1> QED BY <1>9 DEF kept, new, whole

\* What is counted are numbers, and what they yield is a lesson or nothing.
LEMMA CountsType ==
  ASSUME SessionTypes, NEW lines \in SUBSET DOMAIN journal, NEW shape
  PROVE  Aggregate(lines, shape) \in [total : Nat, clean : Nat, stall : Nat, review : Nat, failed : Nat]
<1>1. IsFiniteSet(lines)
  <2>1. DOMAIN journal = 1 .. Len(journal) /\ Len(journal) \in Nat
    BY LenProperties DEF SessionTypes
  <2>2. IsFiniteSet(DOMAIN journal)
    BY <2>1, FS_Interval
  <2> QED BY <2>2, FS_Subset
<1>2. \A S \in SUBSET lines : Cardinality(S) \in Nat
  BY <1>1, FS_Subset, FS_CardinalityType
<1>3. Cardinality(Of(lines, shape)) \in Nat
  BY <1>2 DEF Of
<1>4. \A outcomes : Cardinality({i \in Of(lines, shape) : journal[i].outcome \in outcomes}) \in Nat
  BY <1>2 DEF Of
<1> QED BY <1>3, <1>4 DEF Aggregate

LEMMA ConfidenceType ==
  ASSUME NEW a \in Nat, NEW b \in Nat
  PROVE  Confidence(a, b) \in Int
<1>1. CASE a + b = 0
  BY <1>1 DEF Confidence
<1>2. CASE a + b # 0
  <2>1. a + b \in Int /\ a + b > 0 /\ 100 * a \in Int
    BY <1>2
  <2>2. \A x, y \in Int : y > 0 => x \div y \in Int
    OBVIOUS
  <2> QED BY <1>2, <2>1, <2>2 DEF Confidence
<1> QED BY <1>1, <1>2

LEMMA VerdictType ==
  ASSUME NEW c \in [total : Nat, clean : Nat, stall : Nat, review : Nat, failed : Nat]
  PROVE  Classify(c) \in [verdict : Verdicts \cup {None}, confidence : Int, profile : {"tighter", None}]
<1>1. /\ c.clean \in Nat /\ c.stall \in Nat /\ c.review \in Nat /\ c.failed \in Nat
  OBVIOUS
<1>2. /\ Confidence(c.review + c.failed, c.clean) \in Int
      /\ Confidence(c.stall, c.clean + c.review + c.failed) \in Int
      /\ Confidence(c.clean, 0) \in Int
      /\ Confidence(c.clean, c.stall + c.review + c.failed) \in Int
  BY <1>1, ConfidenceType
<1> HIDE DEF Confidence
<1> QED BY <1>2 DEF Classify, NoVerdict, Verdicts

LEMMA LessonType ==
  ASSUME SessionTypes, NEW shape \in Shapes, NEW r \in BOOLEAN,
         NEW v \in [verdict : Verdicts \cup {None}, confidence : Int, profile : {"tighter", None}],
         v.verdict # None
  PROVE  LessonOf(shape, v, r) \in Learned /\ LessonOf(shape, v, r).retired = r
<1>1. (IF advice[shape] = None THEN 1 ELSE advice[shape].version + 1) \in Nat
  BY DEF SessionTypes, Learned
<1>2. v.verdict \in Verdicts /\ v.confidence \in Int /\ v.profile \in {"tighter", None}
  OBVIOUS
<1> QED BY <1>1, <1>2 DEF LessonOf, Learned

LEMMA ExtractedType ==
  ASSUME AInv
  PROVE  /\ Extracted \in [Shapes -> Learned \cup {None}]
         /\ \A s \in withdrawn : Extracted[s] # None => Extracted[s].retired
<1>1. records \subseteq DOMAIN journal
  BY DEF AInv, AsLoaded, Capped
<1> DEFINE v(s) == Classify(Aggregate(records, s))
           one(s) == LessonOf(s, v(s), s \in withdrawn)
<1>2. ASSUME NEW s \in Shapes, v(s).verdict # None
      PROVE  one(s) \in Learned /\ (s \in withdrawn => one(s).retired)
  <2>1. v(s) \in [verdict : Verdicts \cup {None}, confidence : Int, profile : {"tighter", None}]
    BY <1>1, CountsType, VerdictType DEF AInv
  <2> HIDE DEF v
  <2>2. (s \in withdrawn) \in BOOLEAN
    OBVIOUS
  <2>3. one(s) \in Learned /\ one(s).retired = (s \in withdrawn)
    BY <1>2, <2>1, <2>2, LessonType DEF AInv
  <2> QED BY <2>3
<1>3. Extracted = [s \in Shapes |-> IF v(s).verdict = None THEN None ELSE one(s)]
  BY DEF Extracted
<1> HIDE DEF v, one
<1>4. Extracted = [s \in Shapes |-> Extracted[s]]
  BY <1>3
<1>5. \A s \in Shapes : /\ Extracted[s] \in Learned \cup {None}
                        /\ s \in withdrawn => (Extracted[s] # None => Extracted[s].retired)
  BY <1>2, <1>3
<1>6. withdrawn \subseteq Shapes
  BY DEF AInv, SessionTypes
<1> QED BY <1>4, <1>5, <1>6

-----------------------------------------------------------------------------

\* A session that ends adds a line, and the records are still those of a restart.
LEMMA RecordKeeps ==
  ASSUME AInv, NEW shape \in Shapes, NEW end \in Endings, Record(shape, end)
  PROVE  /\ journal' \in Seq([shape : Shapes, outcome : Outcomes])
         /\ records' = Capped(journal, DOMAIN journal)'
<1> DEFINE line == [shape |-> shape, outcome |-> OutcomeOf(end)]
           file == Append(journal, line)
           n == Len(journal)
<1>1. line \in [shape : Shapes, outcome : Outcomes]
  BY DEF Endings, OutcomeOf, Outcomes, Clean
<1>2. journal' = file /\ records' = Capped(file, records \cup {Len(file)})
  BY DEF Record
<1> HIDE DEF line
<1>3. /\ file \in Seq([shape : Shapes, outcome : Outcomes]) /\ n \in Nat
      /\ Len(file) = n + 1 /\ DOMAIN file = 1 .. n + 1 /\ DOMAIN journal = 1 .. n
      /\ \A i \in 1 .. n : file[i] = journal[i]
  BY <1>1, AppendProperties, LenProperties DEF AInv, SessionTypes
<1> HIDE DEF file, n
<1>4. Capped(file, Capped(journal, 1 .. n) \cup {n + 1}) = Capped(file, 1 .. n + 1)
  BY <1>3, CutAsYouGo
<1>5. records' = Capped(file, DOMAIN file)
  BY <1>2, <1>3, <1>4 DEF AInv, AsLoaded
<1>6. Capped(journal, DOMAIN journal)' = Capped(journal', DOMAIN journal')
  BY DEF Capped
<1> QED BY <1>2, <1>3, <1>5, <1>6

LEMMA InitAInv == SessionsInit => AInv
<1> SUFFICES ASSUME SessionsInit PROVE AInv
  OBVIOUS
<1>1. SessionTypes /\ SetAsideByFlag /\ held \ forgotten \subseteq withdrawn
  BY DEF SessionsInit, SessionTypes, SetAsideByFlag
<1>2. AsLoaded
  <2>1. journal = <<>> /\ DOMAIN journal = {} /\ records = {} /\ index = advice
    BY DEF SessionsInit
  <2> QED BY <2>1 DEF AsLoaded, Capped
<1> QED BY <1>1, <1>2 DEF AInv

\* What a step that leaves the journal and the records alone has to show.
LEMMA AdviceOnly ==
  ASSUME AInv, UNCHANGED <<journal, records, own, paused>>,
         advice' \in [Shapes -> Learned \cup {None}], index' = advice',
         withdrawn' \subseteq Shapes, SetAsideByFlag', held' \ forgotten' \subseteq withdrawn'
  PROVE  AInv'
<1>1. Capped(journal, DOMAIN journal)' = Capped(journal, DOMAIN journal)
  BY DEF Capped
<1> QED BY <1>1 DEF AInv, SessionTypes, AsLoaded

\* Of what a session step changes, only the journal and the records matter.
LEMMA SessionKeeps ==
  ASSUME AInv, NEW shape \in Shapes, NEW end \in Endings, Record(shape, end),
         UNCHANGED <<index, advice, withdrawn, own, held, forgotten>>,
         paused' \subseteq [frontier : Frontiers,
                           bounds : Configured \cup {Profiles[p] : p \in DOMAIN Profiles}]
  PROVE  AInv'
<1>1. /\ journal' \in Seq([shape : Shapes, outcome : Outcomes])
      /\ records' = Capped(journal, DOMAIN journal)'
  BY RecordKeeps
<1> QED BY <1>1 DEF AInv, SessionTypes, AsLoaded, SetAsideByFlag

\* What is run is run under bounds the supervisor has or a profile names.
LEMMA SuggestedType ==
  ASSUME NEW shape, NEW default \in Configured
  PROVE  SuggestedBounds(shape, default)
           \in Configured \cup {Profiles[p] : p \in DOMAIN Profiles}
BY DEF SuggestedBounds

LEMMA NextAInv == AInv /\ [SessionsNext]_sessionVars => AInv'
<1> SUFFICES ASSUME AInv, [SessionsNext]_sessionVars PROVE AInv'
  OBVIOUS
<1> DEFINE AnyBounds == Configured \cup {Profiles[p] : p \in DOMAIN Profiles}
<1>0. \A f \in Frontiers, b \in AnyBounds : ShapeFrom(f, b) \in Shapes
  BY DEF Shapes
<1>1. ASSUME NEW f \in Frontiers, NEW end \in Endings, Start(f, end) PROVE AInv'
  <2> DEFINE bounds == SuggestedBounds(StartShape(f), own)
  <2>1. bounds \in AnyBounds
    BY SuggestedType DEF AInv, SessionTypes
  <2>2. /\ Record(ShapeFrom(f, bounds), end) /\ paused' = paused \cup Paused(end, f, bounds)
        /\ UNCHANGED <<index, advice, withdrawn, own, held, forgotten>>
    BY <1>1 DEF Start, histVars
  <2> HIDE DEF bounds
  <2>3. ShapeFrom(f, bounds) \in Shapes
    BY <1>0, <2>1
  <2>4. paused' \subseteq [frontier : Frontiers, bounds : AnyBounds]
    BY <2>1, <2>2 DEF Paused, AInv, SessionTypes
  <2> QED BY <2>2, <2>3, <2>4, SessionKeeps
<1>2. ASSUME NEW f \in Frontiers, Defer(f) PROVE AInv'
  <2> DEFINE end == [state |-> "paused", stalled |-> FALSE]
  <2>1. /\ Record(ShapeFrom(f, own), end) /\ paused' = paused \cup Paused(end, f, own)
        /\ UNCHANGED <<index, advice, withdrawn, own, held, forgotten>>
    BY <1>2 DEF Defer, StartShape, histVars
  <2>2. end \in Endings
    BY DEF Endings
  <2> HIDE DEF end
  <2>3. own \in AnyBounds
    BY DEF AInv, SessionTypes
  <2>4. paused' \subseteq [frontier : Frontiers, bounds : AnyBounds]
    BY <2>1, <2>3 DEF Paused, AInv, SessionTypes
  <2> QED BY <1>0, <2>1, <2>2, <2>3, <2>4, SessionKeeps
<1>3. ASSUME NEW s \in paused, NEW end \in Endings, Resume(s, end) PROVE AInv'
  <2>1. s.frontier \in Frontiers /\ s.bounds \in AnyBounds
    BY DEF AInv, SessionTypes
  <2>2. /\ Record(ShapeFrom(s.frontier, s.bounds), end)
        /\ paused' = (paused \ {s}) \cup Paused(end, s.frontier, s.bounds)
        /\ UNCHANGED <<index, advice, withdrawn, own, held, forgotten>>
    BY <1>3 DEF Resume, histVars
  <2>3. paused' \subseteq [frontier : Frontiers, bounds : AnyBounds]
    BY <2>1, <2>2 DEF Paused, AInv, SessionTypes
  <2> QED BY <1>0, <2>1, <2>2, <2>3, SessionKeeps
<1>4. ASSUME NEW shape \in Shapes, RetireLesson(shape) PROVE AInv'
  <2>1. /\ advice[shape] \in Learned /\ advice' = SetRetired(shape, TRUE) /\ index' = advice'
        /\ withdrawn' = withdrawn \cup {shape} /\ held' = held \cup {shape} /\ forgotten' = forgotten \ {shape}
        /\ UNCHANGED <<journal, records, own, paused>>
    BY <1>4 DEF RetireLesson, AInv, SessionTypes, Saved
  <2>2. /\ advice' \in [Shapes -> Learned \cup {None}] /\ advice'[shape].retired
        /\ \A s \in Shapes : s # shape => advice'[s] = advice[s]
    <3>1. [advice[shape] EXCEPT !.retired = TRUE] \in Learned
      BY <2>1 DEF Learned
    <3>2. [advice[shape] EXCEPT !.retired = TRUE].retired
      BY <2>1 DEF Learned
    <3>3. advice' = [advice EXCEPT ![shape] = [advice[shape] EXCEPT !.retired = TRUE]]
      BY <2>1 DEF SetRetired
    <3> QED BY <3>1, <3>2, <3>3 DEF AInv, SessionTypes
  <2>3. SetAsideByFlag'
    BY <2>1, <2>2 DEF AInv, SessionTypes, SetAsideByFlag
  <2> QED BY <2>1, <2>2, <2>3, AdviceOnly DEF AInv, SessionTypes
<1>5. ASSUME NEW shape \in Shapes, Unretire(shape) PROVE AInv'
  <2>1. /\ advice[shape] \in Learned /\ advice' = SetRetired(shape, FALSE) /\ index' = advice'
        /\ withdrawn' = withdrawn \ {shape} /\ held' = held \ {shape} /\ forgotten' = forgotten \ {shape}
        /\ UNCHANGED <<journal, records, own, paused>>
    BY <1>5 DEF Unretire, AInv, SessionTypes, Saved
  <2>2. /\ advice' \in [Shapes -> Learned \cup {None}]
        /\ \A s \in Shapes : s # shape => advice'[s] = advice[s]
    <3>1. [advice[shape] EXCEPT !.retired = FALSE] \in Learned
      BY <2>1 DEF Learned
    <3>2. advice' = [advice EXCEPT ![shape] = [advice[shape] EXCEPT !.retired = FALSE]]
      BY <2>1 DEF SetRetired
    <3> QED BY <3>1, <3>2 DEF AInv, SessionTypes
  <2>3. SetAsideByFlag'
    BY <2>1, <2>2 DEF AInv, SessionTypes, SetAsideByFlag
  <2> QED BY <2>1, <2>2, <2>3, AdviceOnly DEF AInv, SessionTypes
<1>6. CASE ExtractLessons
  <2>1. /\ advice' = Extracted /\ index' = advice'
        /\ UNCHANGED <<journal, records, withdrawn, own, paused, held, forgotten>>
    BY <1>6 DEF ExtractLessons, WithLessons, histVars
  <2>2. SetAsideByFlag'
    BY <2>1, ExtractedType DEF SetAsideByFlag
  <2> QED BY <2>1, <2>2, ExtractedType, AdviceOnly DEF AInv, SessionTypes
<1>7. CASE ApplyDecay
  <2> DEFINE stale == {s \in Shapes : Unsupported(s)}
             weak(s) == [advice[s] EXCEPT !.retired = TRUE, !.confidence = 0]
  <2>1. /\ advice' = [s \in Shapes |-> IF s \in stale THEN weak(s) ELSE advice[s]]
        /\ index' = advice' /\ withdrawn' = withdrawn \cup stale
        /\ UNCHANGED <<journal, records, own, paused, held, forgotten>>
    BY <1>7 DEF ApplyDecay, WithLessons, histVars
  <2>2. \A s \in stale : s \in Shapes /\ advice[s] \in Learned
    BY DEF Unsupported, AInv, SessionTypes
  <2>3. \A s \in stale : weak(s) \in Learned /\ weak(s).retired
    <3>1. ASSUME NEW l \in Learned
          PROVE  LET m == [l EXCEPT !.retired = TRUE] IN m \in Learned /\ m.retired
      BY DEF Learned
    <3>2. ASSUME NEW l \in Learned
          PROVE  LET m == [l EXCEPT !.confidence = 0] IN m \in Learned /\ m.retired = l.retired
      BY DEF Learned
    <3>3. ASSUME NEW s \in stale
          PROVE  LET one == [advice[s] EXCEPT !.retired = TRUE]
                 IN  weak(s) = [one EXCEPT !.confidence = 0]
      BY <2>2 DEF Learned
    <3> QED BY <2>2, <3>1, <3>2, <3>3
  <2> HIDE DEF stale, weak
  <2>4. /\ advice' \in [Shapes -> Learned \cup {None}]
        /\ \A s \in Shapes : advice'[s] = IF s \in stale THEN weak(s) ELSE advice[s]
    BY <2>1, <2>3 DEF AInv, SessionTypes
  <2>5. stale \subseteq Shapes
    BY DEF stale
  <2>6. SetAsideByFlag'
    BY <2>1, <2>3, <2>4, <2>5 DEF AInv, SessionTypes, SetAsideByFlag
  <2> QED BY <2>1, <2>4, <2>5, <2>6, AdviceOnly DEF AInv, SessionTypes
<1>8. CASE Restart
  <2>1. /\ records' = Capped(journal, DOMAIN journal) /\ advice' = index /\ own' \in Configured
        /\ withdrawn' = {s \in Shapes : index[s] # None /\ index[s].retired}
        /\ forgotten' = forgotten \cup {s \in held : index[s] = None}
        /\ UNCHANGED <<journal, index, paused, held>>
    BY <1>8 DEF Restart, fileVars
  <2>2. advice' = advice /\ index' = advice' /\ records' = records
    BY <2>1 DEF AInv, AsLoaded
  <2>3. Capped(journal, DOMAIN journal)' = Capped(journal, DOMAIN journal)
    BY <2>1 DEF Capped
  <2>4. AsLoaded'
    BY <2>1, <2>2, <2>3 DEF AsLoaded
  <2>5. held' \ forgotten' \subseteq withdrawn' /\ SetAsideByFlag'
    BY <2>1, <2>2 DEF AInv, AsLoaded, SessionTypes, SetAsideByFlag
  <2> QED BY <2>1, <2>2, <2>4, <2>5 DEF AInv, SessionTypes
<1>9. CASE UNCHANGED sessionVars
  BY <1>9 DEF sessionVars, fileVars, memVars, histVars, AInv, SessionTypes, AsLoaded, Capped,
              SetAsideByFlag
<1> QED BY <1>1, <1>2, <1>3, <1>4, <1>5, <1>6, <1>7, <1>8, <1>9
        DEF SessionsNext, Session, ResumeAny, Owner

LEMMA AdviceInvariant == SessionsSpec => []AInv
BY InitAInv, NextAInv, PTL DEF SessionsSpec

\* Whatever sessions end how, and however often lessons are extracted and decay: the lesson
\* the owner withdrew advises nobody until he brings it back, or until the process is
\* restarted at a moment when the shape has no lesson to carry the flag.
THEOREM HoldIsRespected == SessionsSpec => []HoldRespected
<1>1. AInv => HoldRespected
  BY DEF AInv, SessionTypes, SetAsideByFlag, HoldRespected, Forecast, ForecastFrom
<1> QED BY <1>1, AdviceInvariant, PTL

\* At every moment a restart would find the advice the process gives.
THEOREM AdviceSurvives == SessionsSpec => []RestartKeepsAdvice
<1>1. AInv => RestartKeepsAdvice
  BY DEF AInv, AsLoaded, RestartKeepsAdvice, Forecast
<1> QED BY <1>1, AdviceInvariant, PTL

-----------------------------------------------------------------------------
(* How a task becomes a plan *)

\* What becomes of one fragment with and without a model: a step the rules make is the
\* same with one, and what the model takes over is never planned with confidence.
LEMMA OneFragment ==
  ASSUME NEW fragment, NEW answer
  PROVE  LET bare == PlanOf(fragment, None)
             asked == PlanOf(fragment, answer)
         IN  /\ bare.tool # "echo" => asked = bare /\ bare.confident
             /\ bare.tool = "echo" /\ answer # None => ~asked.confident
             /\ ~bare.confident => ~asked.confident
             /\ bare.tool = "echo" /\ bare.confident => fragment.shell = None /\ fragment.verbs \cap Verbs = {}
             /\ asked.by = "model" => asked.tool \in ToolNames
<1> DEFINE Fits(bare, asked) ==
             /\ bare.tool # "echo" => asked = bare /\ bare.confident
             /\ bare.tool = "echo" /\ answer # None => ~asked.confident
             /\ ~bare.confident => ~asked.confident
             /\ bare.tool = "echo" /\ bare.confident => fragment.shell = None /\ fragment.verbs \cap Verbs = {}
             /\ asked.by = "model" => asked.tool \in ToolNames
<1>1. Fits(Fallback(None), Fallback(answer))
  BY DEF Fallback, Suggested, Single
<1>2. \A tool \in {"shell", "write_file", "list_dir", "read_file"} : \A path :
        Fits(Single(tool, path, "rule"), Single(tool, path, "rule"))
  BY DEF Single
<1>3. fragment.shell = None /\ fragment.verbs \cap Verbs = {} =>
        Fits(Single("echo", None, "default"),
             IF answer # None THEN Fallback(answer) ELSE Single("echo", None, "default"))
  BY DEF Fallback, Suggested, Single
<1> SUFFICES Fits(PlanOf(fragment, None), PlanOf(fragment, answer))
  OBVIOUS
<1> HIDE DEF Fits
<1>5. CASE fragment.shell # None
  BY <1>1, <1>2, <1>5 DEF PlanOf
<1>6. CASE fragment.shell = None /\ "write" \in fragment.verbs
  BY <1>1, <1>2, <1>6 DEF PlanOf
<1>7. CASE fragment.shell = None /\ "write" \notin fragment.verbs /\ "list" \in fragment.verbs
  BY <1>1, <1>2, <1>7 DEF PlanOf
<1>8. CASE /\ fragment.shell = None
           /\ "write" \notin fragment.verbs /\ "list" \notin fragment.verbs /\ "read" \in fragment.verbs
  BY <1>1, <1>2, <1>8 DEF PlanOf
<1>9. CASE /\ fragment.shell = None
           /\ "write" \notin fragment.verbs /\ "list" \notin fragment.verbs /\ "read" \notin fragment.verbs
  <2>1. fragment.verbs \cap Verbs = {}
    BY <1>9 DEF Verbs
  <2> QED BY <1>3, <1>9, <2>1 DEF PlanOf
<1> QED BY <1>5, <1>6, <1>7, <1>8, <1>9

\* The two forms of a plan made from a task, a chain and a single step.
Chains(task, answers) == Len(task) > 1 /\ \A i \in DOMAIN task : PlanOf(task[i], answers[i]).confident
StepFor(single, i) ==
  [tool |-> single.tool, path |-> single.path, by |-> single.by,
   of |-> i, deps |-> IF i = 1 THEN {} ELSE {i - 1}]
ChainOf(task, answers) == [i \in DOMAIN task |-> StepFor(PlanOf(task[i], answers[i]), i)]
OnlyStep(task, answers) ==
  LET single == PlanOf(WholeTask(task), answers[0])
  IN  <<[tool |-> single.tool, path |-> single.path, by |-> single.by, of |-> 0, deps |-> {}]>>

LEMMA TwoForms ==
  ASSUME NEW task \in TaskSet, NEW answers
  PROVE  LET made == Decomposed(task, answers)
         IN  /\ made = [source |-> "decomposed", steps |-> made.steps]
             /\ Chains(task, answers) =>
                  /\ made.steps = ChainOf(task, answers)
                  /\ DOMAIN made.steps = DOMAIN task /\ Len(made.steps) = Len(task)
                  /\ \A i \in DOMAIN task : made.steps[i] = StepFor(PlanOf(task[i], answers[i]), i)
             /\ ~Chains(task, answers) =>
                  LET single == PlanOf(WholeTask(task), answers[0])
                  IN  /\ made.steps = OnlyStep(task, answers)
                      /\ DOMAIN made.steps = {1} /\ Len(made.steps) = 1
                      /\ made.steps[1].tool = single.tool /\ made.steps[1].by = single.by
<1> DEFINE made == Decomposed(task, answers)
           single == PlanOf(WholeTask(task), answers[0])
           step == [tool |-> single.tool, path |-> single.path, by |-> single.by, of |-> 0, deps |-> {}]
<1>1. Chains(task, answers) => made = [source |-> "decomposed", steps |-> ChainOf(task, answers)]
  BY DEF Decomposed, Chains, ChainOf, StepFor
<1>2. ~Chains(task, answers) => made = [source |-> "decomposed", steps |-> OnlyStep(task, answers)]
  BY DEF Decomposed, Chains, SingleStep, OnlyStep
<1>3. DOMAIN task = 1 .. Len(task) /\ Len(task) \in Nat
  BY PlannerAssumption, LenProperties
<1>4. /\ DOMAIN ChainOf(task, answers) = 1 .. Len(task)
      /\ \A i \in DOMAIN task : ChainOf(task, answers)[i] = StepFor(PlanOf(task[i], answers[i]), i)
  BY <1>3 DEF ChainOf
<1>5. Len(ChainOf(task, answers)) = Len(task)
  BY <1>3, <1>4
<1>6. OnlyStep(task, answers) = <<step>> /\ step.tool = single.tool /\ step.by = single.by
  BY DEF OnlyStep
<1>7. DOMAIN <<step>> = {1} /\ Len(<<step>>) = 1 /\ <<step>>[1] = step
  OBVIOUS
<1>8. made = [source |-> "decomposed", steps |-> made.steps]
  BY <1>1, <1>2
<1>9. CASE Chains(task, answers)
  <2>1. made.steps = ChainOf(task, answers)
    BY <1>1, <1>9
  <2> HIDE DEF made
  <2>2. /\ DOMAIN made.steps = DOMAIN task /\ Len(made.steps) = Len(task)
        /\ \A i \in DOMAIN task : made.steps[i] = StepFor(PlanOf(task[i], answers[i]), i)
    BY <1>3, <1>4, <1>5, <2>1
  <2> QED BY <1>8, <1>9, <2>1, <2>2 DEF made
<1>10. CASE ~Chains(task, answers)
  <2>1. made.steps = OnlyStep(task, answers)
    BY <1>2, <1>10
  <2> HIDE DEF made, step
  <2>2. made.steps = <<step>>
    BY <1>6, <2>1
  <2>3. DOMAIN made.steps = {1} /\ Len(made.steps) = 1 /\ made.steps[1] = step
    BY <1>7, <2>2
  <2>4. made.steps[1].tool = single.tool /\ made.steps[1].by = single.by
    BY <1>6, <2>3, Zenon
  <2> QED BY <1>8, <1>10, <2>1, <2>3, <2>4 DEF made
<1> QED BY <1>9, <1>10

\* What the property asks of the plan made of a task, beside the one made without a model.
GapsFilled(made, bare, task, answers) ==
  /\ Echoes(bare.steps) = {} => made.steps = bare.steps
  /\ Echoes(bare.steps) # {} /\ answers[0] # None => Len(made.steps) = 1
  /\ Len(bare.steps) > 1 => \A i \in Echoes(bare.steps) : NoIntent(task[i])
  /\ \A i \in DOMAIN made.steps : made.steps[i].by = "model" => made.steps[i].tool \in ToolNames

LEMMA ModelOrNot ==
  ASSUME NEW task \in TaskSet, NEW answers,
         \/ answers \in [0 .. Len(task) -> ModelAnswers \ {None}]
         \/ answers = [i \in 0 .. Len(task) |-> None]
  PROVE  GapsFilled(Decomposed(task, answers), Decomposed(task, [i \in 0 .. Len(task) |-> None]), task, answers)
<1> DEFINE none == [i \in 0 .. Len(task) |-> None]
           made == Decomposed(task, answers)
           bare == Decomposed(task, none)
           Alone(i) == PlanOf(task[i], None)
           With(i) == PlanOf(task[i], answers[i])
<1>1. /\ DOMAIN task = 1 .. Len(task) /\ Len(task) \in Nat /\ Len(task) >= 1
      /\ \A i \in DOMAIN task : task[i] \in Fragment
  BY PlannerAssumption, LenProperties
<1>2. none[0] = None /\ \A i \in DOMAIN task : none[i] = None
  BY <1>1
<1>3. answers = none \/ (answers[0] # None /\ \A i \in DOMAIN task : answers[i] # None)
  BY <1>1
<1> HIDE DEF none
<1>4. \A i \in DOMAIN task :
        /\ Alone(i).tool # "echo" => With(i) = Alone(i) /\ Alone(i).confident
        /\ Alone(i).tool = "echo" /\ answers[i] # None => ~With(i).confident
        /\ ~Alone(i).confident => ~With(i).confident
        /\ Alone(i).tool = "echo" /\ Alone(i).confident => NoIntent(task[i])
        /\ With(i).by = "model" => With(i).tool \in ToolNames
  <2>1. \A i \in DOMAIN task : task[i].verbs \cap Verbs = {} => task[i].verbs = {}
    BY <1>1 DEF Fragment
  <2> QED BY <2>1, OneFragment DEF NoIntent
<1>5. LET alone == PlanOf(WholeTask(task), None)
          asked == PlanOf(WholeTask(task), answers[0])
      IN  /\ alone.tool # "echo" => asked = alone
          /\ asked.by = "model" => asked.tool \in ToolNames
  BY OneFragment
<1>6. Chains(task, answers) => Chains(task, none)
  BY <1>2, <1>4 DEF Chains
<1>7. \A i \in DOMAIN task : \A single : /\ StepFor(single, i).tool = single.tool
                                          /\ StepFor(single, i).by = single.by
  BY DEF StepFor
<1>8. \A i \in DOMAIN made.steps : made.steps[i].by = "model" => made.steps[i].tool \in ToolNames
  <2>1. CASE Chains(task, answers)
    <3>1. DOMAIN made.steps = DOMAIN task /\ \A i \in DOMAIN task : made.steps[i] = StepFor(With(i), i)
      BY <2>1, TwoForms
    <3> HIDE DEF made, With
    <3> QED BY <1>4, <1>7, <3>1
  <2>2. CASE ~Chains(task, answers)
    BY <2>2, <1>5, TwoForms
  <2> QED BY <2>1, <2>2
<1>9. CASE Chains(task, none)
  <2>1. /\ bare.steps = ChainOf(task, none)
        /\ DOMAIN bare.steps = DOMAIN task /\ Len(bare.steps) = Len(task)
        /\ \A i \in DOMAIN task : bare.steps[i] = StepFor(Alone(i), i)
    <3>1. \A i \in DOMAIN task : PlanOf(task[i], none[i]) = Alone(i)
      BY <1>2
    <3>2. /\ bare.steps = ChainOf(task, none)
          /\ DOMAIN bare.steps = DOMAIN task /\ Len(bare.steps) = Len(task)
          /\ \A i \in DOMAIN task : bare.steps[i] = StepFor(PlanOf(task[i], none[i]), i)
      BY <1>9, TwoForms
    <3> HIDE DEF bare, Alone
    <3> QED BY <3>1, <3>2
  <2>2. \A i \in DOMAIN task : bare.steps[i].tool = Alone(i).tool /\ Alone(i).confident
    BY <1>2, <1>7, <1>9, <2>1 DEF Chains
  <2>3. Echoes(bare.steps) = {i \in DOMAIN task : Alone(i).tool = "echo"}
    BY <2>1, <2>2 DEF Echoes
  <2> HIDE DEF made, bare, Alone, With
  <2>4. \A i \in Echoes(bare.steps) : NoIntent(task[i])
    BY <1>4, <2>2, <2>3
  <2>5. Echoes(bare.steps) = {} => made.steps = bare.steps
    <3> SUFFICES ASSUME Echoes(bare.steps) = {} PROVE made.steps = bare.steps
      OBVIOUS
    <3>1. \A i \in DOMAIN task : With(i) = Alone(i) /\ Alone(i).confident
      BY <1>4, <2>2, <2>3
    <3>2. Chains(task, answers)
      BY <1>9, <3>1 DEF Chains, With
    <3>3. made.steps = ChainOf(task, answers)
      BY <3>2, TwoForms DEF made
    <3>4. ChainOf(task, answers) = ChainOf(task, none)
      BY <1>2, <3>1 DEF ChainOf, With, Alone
    <3> QED BY <2>1, <3>3, <3>4
  <2>6. Echoes(bare.steps) # {} /\ answers[0] # None => Len(made.steps) = 1
    <3> SUFFICES ASSUME Echoes(bare.steps) # {}, answers[0] # None PROVE Len(made.steps) = 1
      OBVIOUS
    <3>1. PICK i \in DOMAIN task : Alone(i).tool = "echo"
      BY <2>3
    <3>2. answers[i] # None
      BY <1>2, <1>3
    <3>3. ~Chains(task, answers)
      BY <1>4, <3>1, <3>2 DEF Chains, With
    <3> QED BY <3>3, TwoForms DEF made
  <2> QED BY <1>8, <2>4, <2>5, <2>6 DEF GapsFilled, made, bare, none
<1>10. CASE ~Chains(task, none)
  <2>1. ~Chains(task, answers)
    BY <1>6, <1>10
  <2>2. /\ bare.steps = OnlyStep(task, none) /\ made.steps = OnlyStep(task, answers)
        /\ Len(bare.steps) = 1 /\ Len(made.steps) = 1 /\ DOMAIN bare.steps = {1}
        /\ bare.steps[1].tool = PlanOf(WholeTask(task), None).tool
    BY <1>2, <1>10, <2>1, TwoForms
  <2> HIDE DEF made, bare
  <2>3. Echoes(bare.steps) = {} => made.steps = bare.steps
    <3> SUFFICES ASSUME Echoes(bare.steps) = {} PROVE made.steps = bare.steps
      OBVIOUS
    <3>1. PlanOf(WholeTask(task), None).tool # "echo"
      BY <2>2 DEF Echoes
    <3>2. PlanOf(WholeTask(task), answers[0]) = PlanOf(WholeTask(task), none[0])
      BY <1>2, <1>5, <3>1
    <3>3. OnlyStep(task, answers) = OnlyStep(task, none)
      BY <3>2 DEF OnlyStep
    <3> QED BY <2>2, <3>3
  <2>4. ~(Len(bare.steps) > 1)
    BY <2>2
  <2> QED BY <1>8, <2>2, <2>3, <2>4 DEF GapsFilled, made, bare, none
<1> QED BY <1>9, <1>10

\* A model changes no plan the rules make, makes one step of a task they leave a gap in,
\* and suggests registered tools only: for all tasks, answers and skills' offers.
THEOREM ModelOnlyFillsGaps == PlannerSpec => []ModelFillsGaps
<1>1. PlannerInit => ModelFillsGaps
  BY DEF PlannerInit, ModelFillsGaps
<1>2. ModelFillsGaps /\ [Ask]_plannerVars => ModelFillsGaps'
  <2> SUFFICES ASSUME ModelFillsGaps, [Ask]_plannerVars PROVE ModelFillsGaps'
    OBVIOUS
  <2>1. CASE Ask
    <3>1. PICK task \in TaskSet, offer \in Renderings :
            \E answers \in [0..Len(task) -> ModelAnswers \ {None}] \cup {[i \in 0..Len(task) |-> None]} :
              /\ request' = [task |-> task, answers |-> answers, offer |-> offer]
              /\ plan' = PlanMulti(task, answers, offer)
      BY <2>1 DEF Ask
    <3>2. PICK answers \in [0..Len(task) -> ModelAnswers \ {None}] \cup {[i \in 0..Len(task) |-> None]} :
            /\ request' = [task |-> task, answers |-> answers, offer |-> offer]
            /\ plan' = PlanMulti(task, answers, offer)
      BY <3>1
    <3> DEFINE none == [i \in 0 .. Len(task) |-> None]
               Source(made) == [made EXCEPT !.source = IF offer = None THEN @ ELSE "fallback"]
    <3>3. request'.task = task /\ request'.answers = answers /\ Bare' = PlanMulti(task, none, offer)
      BY <3>2 DEF Bare
    <3>4. CASE Rendered(offer)
      <4>1. plan'.source = "skill"
        BY <3>2, <3>4 DEF PlanMulti
      <4> QED BY <4>1 DEF ModelFillsGaps
    <3>5. CASE ~Rendered(offer)
      <4> DEFINE made == Decomposed(task, answers)
                 bare == Decomposed(task, none)
      <4>1. plan' = Source(made) /\ Bare' = Source(bare)
        BY <3>2, <3>3, <3>5 DEF PlanMulti
      <4>2. /\ made = [source |-> "decomposed", steps |-> made.steps]
            /\ bare = [source |-> "decomposed", steps |-> bare.steps]
        BY TwoForms
      <4>3. GapsFilled(made, bare, task, answers)
        BY ModelOrNot
      <4> HIDE DEF made, bare
      <4>4. plan'.steps = made.steps /\ Bare'.steps = bare.steps
        BY <4>1, <4>2
      <4>5. made.steps = bare.steps => made = bare
        BY <4>2
      <4>6. made.steps = bare.steps => plan' = Bare'
        BY <4>1, <4>5
      <4> HIDE DEF Source
      <4> QED BY <3>3, <4>3, <4>4, <4>6 DEF ModelFillsGaps, GapsFilled
    <3> QED BY <3>4, <3>5
  <2>2. CASE UNCHANGED plannerVars
    BY <2>2 DEF plannerVars, ModelFillsGaps, Bare
  <2> QED BY <2>1, <2>2
<1> QED BY <1>1, <1>2, PTL DEF PlannerSpec

-----------------------------------------------------------------------------
(* The advisor and the shapes it may choose *)

\* A candidate, with a score between two bounds.
Named == {Approaches(seam)[n] : seam \in Seams, n \in 1 .. 3}
Candidate(lo, hi) == [approach: Named \cup Extras, score: lo..hi]

LEMMA ScoreType ==
  ASSUME NEW lo \in Nat, NEW hi \in Nat, NEW c \in Seq(Candidate(lo, hi)), NEW k \in DOMAIN c
  PROVE  c[k].score \in lo .. hi /\ c[k].score \in Nat
<1>1. c[k] \in Candidate(lo, hi)
  BY LenProperties, ElementOfSeq
<1>2. c[k].score \in lo .. hi
  BY <1>1 DEF Candidate
<1> QED BY <1>2

LEMMA BestFirstType ==
  ASSUME NEW lo \in Nat, NEW hi \in Nat, NEW c \in Seq(Candidate(lo, hi))
  PROVE  BestFirst(c) \in Seq(Candidate(lo, hi))
<1> DEFINE better == {p \in (DOMAIN c) \X (DOMAIN c) :
                        \/ c[p[1]].score > c[p[2]].score
                        \/ (c[p[1]].score = c[p[2]].score /\ p[1] < p[2])}
           T == Candidate(lo, hi)
<1>1. \A k \in DOMAIN c : k \in Nat /\ c[k].score \in Nat
  BY ScoreType, LenProperties
<1>2. Total(DOMAIN c, better)
  BY <1>1 DEF Total
<1> HIDE DEF better, T
<1>3. c \in Seq(T)
  BY DEF T
<1>4. SortedBy(c, better) \in Seq(T)
  BY ONLY <1>2, <1>3, SortedByStays
<1> QED BY <1>4 DEF BestFirst, better, T

\* The observations come before the lessons, so that some are left for these.
LEMMA FewLessons ==
  ASSUME NEW e \in Situation
  PROVE  Observed(e) \in Nat /\ LessonsSeen(e) \in 0 .. Observed(e)
<1>1. e.kinds \in 0 .. 3 /\ e.lessons \in Nat /\ MaxFanIn \in Nat /\ MaxFanIn > 6
  BY ReasoningAssumption DEF Situation
<1>2. Others(e) \in 0 .. 6
  BY <1>1 DEF Others, Count
<1> QED BY <1>1, <1>2 DEF Observed, LessonsSeen, Lesser

LEMMA ScoreBound ==
  ASSUME NEW e \in Situation, NEW approach, Observed(e) < 2
  PROVE  Score(e, approach) \in 40 .. 60
<1> DEFINE support == IF e.naming = approach THEN LessonsSeen(e) ELSE 0
<1>1. /\ Observed(e) \in {0, 1} /\ support \in {0, 1}
      /\ Observed(e) = 0 => support = 0
  BY FewLessons
<1>2. Score(e, approach) = (Lesser(100, 50 + 10 * support) * (IF Observed(e) = 0 THEN 8 ELSE 10)) \div 10
  BY DEF Score
<1> HIDE DEF support
<1>3. CASE Observed(e) = 0
  <2>1. Score(e, approach) = (50 * 8) \div 10
    BY <1>1, <1>2, <1>3 DEF Lesser
  <2> QED BY <2>1
<1>4. CASE Observed(e) = 1
  <2>1. Score(e, approach) \in {(50 * 10) \div 10, (60 * 10) \div 10}
    BY <1>1, <1>2, <1>4 DEF Lesser
  <2> QED BY <2>1
<1> QED BY <1>1, <1>3, <1>4

LEMMA ListedType ==
  ASSUME NEW e \in Situation, NEW seam \in Seams, Observed(e) < 2
  PROVE  Scored(e, seam) \in Seq(Candidate(40, 60))
<1> DEFINE n == Lesser(MaxHypotheses, 3)
           listed == SubSeq(Approaches(seam), 1, n)
           graded == [i \in DOMAIN listed |-> [approach |-> listed[i], score |-> Score(e, listed[i])]]
<1>1. \A i \in 1 .. 3 : Approaches(seam)[i] \in Named
  BY DEF Named
<1>2. n \in 0 .. 3
  BY ReasoningAssumption DEF Lesser
<1>3. listed \in Seq(Named)
  BY <1>1, <1>2, SubSeqProperties
<1> HIDE DEF listed
<1>4. graded \in [1 .. Len(listed) -> Candidate(40, 60)]
  BY <1>3, ScoreBound, LenProperties, ElementOfSeq DEF Candidate
<1>5. graded \in Seq(Candidate(40, 60))
  BY <1>3, <1>4, LenProperties, SeqDef
<1> HIDE DEF graded
<1>6. BestFirst(graded) \in Seq(Candidate(40, 60))
  BY <1>5, BestFirstType
<1> QED BY <1>6 DEF Scored, graded, listed

\* On less than two observations, and no clear failure, the confidence never gets above a half.
LEMMA BlindNotSure ==
  ASSUME NEW e \in Situation, NEW c \in Seq(Candidate(40, 60)), Observed(e) < 2, ~ClearFailure(e)
  PROVE  ConfidenceIn(e, c) \in Int /\ ConfidenceIn(e, c) <= 50
<1> DEFINE spread == Len(c) >= 2 /\ c[1].score > c[Len(c)].score + 20
           risks == Risks(c)
<1>1. Observed(e) \in {0, 1}
  BY FewLessons
<1>2. ~spread
  <2> SUFFICES ASSUME Len(c) >= 2 PROVE ~(c[1].score > c[Len(c)].score + 20)
    OBVIOUS
  <2>1. 1 \in DOMAIN c /\ Len(c) \in DOMAIN c
    BY LenProperties
  <2>2. \A k \in DOMAIN c : c[k].score \in Nat /\ c[k].score >= 40 /\ c[k].score <= 60
    BY ScoreType
  <2> DEFINE m == Len(c)
  <2> HIDE DEF m
  <2>3. c[1].score <= 60 /\ c[m].score >= 40 /\ c[1].score \in Nat /\ c[m].score \in Nat
    BY <2>1, <2>2 DEF m
  <2> QED BY <2>3 DEF m
<1>3. risks \in Nat
  <2>1. IsFiniteSet(DOMAIN c)
    BY LenProperties, FS_Interval
  <2> QED BY <2>1, FS_Subset, FS_CardinalityType DEF Risks
<1>4. ConfidenceIn(e, c) =
        IF c = <<>> THEN 0
        ELSE (IF Observed(e) = 0 THEN 40 ELSE 50 + Lesser(30, 5 * Observed(e)))
             + 10 * Count(spread) + 15 * Count(ClearFailure(e)) - 5 * Count(Uncertain(e)) - 5 * risks
  BY DEF ConfidenceIn
<1> HIDE DEF spread, risks
<1>5. Count(spread) = 0 /\ Count(ClearFailure(e)) = 0 /\ Count(Uncertain(e)) = 1
  BY <1>2 DEF Count, Uncertain
<1> QED BY <1>1, <1>3, <1>4, <1>5 DEF Lesser

LEMMA BlindAbstains ==
  ASSUME Floor > 50, NEW e \in EvidenceSet, NEW seam \in Seams, NEW extra \in Extras, NEW clock \in Clocks,
         Observed(e) < 2, ~ClearFailure(e)
  PROVE  Deliberation(e, seam, extra, clock).abstained
<1> DEFINE listed == Scored(e, seam)
           enriched == IF clock.asks THEN Enriched(listed, extra) ELSE listed
           candidates == Refined(enriched, clock.rounds)
           advised == candidates # <<>> /\ SureEnough(e, candidates) /\ clock.intime
<1>0. e \in Situation
  BY EvidenceAssumption
<1>1. listed \in Seq(Candidate(40, 60))
  BY <1>0, ListedType
<1> HIDE DEF listed
<1>2. enriched \in Seq(Candidate(40, 60))
  <2>1. [approach |-> extra, score |-> 60] \in Candidate(40, 60)
    BY DEF Candidate
  <2> QED BY <1>1, <2>1, AppendProperties DEF Enriched
<1> HIDE DEF enriched
<1>3. candidates \in Seq(Candidate(40, 60))
  BY <1>2, BestFirstType DEF Refined
<1> HIDE DEF candidates
<1>4. ~SureEnough(e, candidates)
  BY <1>0, <1>3, BlindNotSure, ReasoningAssumption DEF SureEnough
<1>5. Deliberation(e, seam, extra, clock).abstained = ~advised
  BY DEF Deliberation, candidates, enriched, listed
<1> QED BY <1>4, <1>5

\* Advice is of its own seam, and is never given blindly.
LEMMA SeenAdvice ==
  ASSUME Floor > 50, NEW seam \in Seams, NEW word \in Advices(seam), ~word.abstained
  PROVE  word.seam = seam /\ (word.observations >= 2 \/ word.clear)
<1>1. PICK e \in EvidenceSet, extra \in Extras, clock \in Clocks :
        word = Deliberation(e, seam, extra, clock)
  BY DEF Advices
<1>2. word.seam = seam /\ word.observations = Observed(e) /\ word.clear = ClearFailure(e)
  BY <1>1 DEF Deliberation
<1>3. Observed(e) \in Nat
  BY FewLessons, EvidenceAssumption
<1>4. ~(Observed(e) < 2 /\ ~ClearFailure(e))
  BY <1>1, BlindAbstains
<1> QED BY <1>2, <1>3, <1>4

\* The first of some positions is one of them.
LEMMA FirstIsOne ==
  ASSUME NEW skill \in SkillSet, NEW positions \in SUBSET DOMAIN skill.shapes, positions # {}
  PROVE  \E n \in positions : FirstOf(skill, positions) = skill.shapes[n]
<1>1. positions \in SUBSET Nat
  BY RepoAwareAssumption, LenProperties
<1>2. \E n \in positions : \A m \in positions : n <= m
  BY <1>1, LeastNat
<1> QED BY <1>2 DEF FirstOf

\* A shape is found again by its name.
LEMMA FoundByName ==
  ASSUME NEW skill \in SkillSet, NEW n \in DOMAIN skill.shapes
  PROVE  ShapeNamed(skill, skill.shapes[n].id) = skill.shapes[n]
<1> DEFINE found == {m \in DOMAIN skill.shapes : skill.shapes[m].id = skill.shapes[n].id}
<1>1. ShapeNamed(skill, skill.shapes[n].id) = FirstOf(skill, found)
  BY DEF ShapeNamed, Positions
<1>2. found = {n}
  BY RepoAwareAssumption
<1>3. FirstOf(skill, found) = skill.shapes[n]
  BY <1>2, FirstIsOne
<1> QED BY <1>1, <1>3

LEMMA DefaultIsDefault ==
  ASSUME NEW skill \in SkillSet
  PROVE  \E n \in DOMAIN skill.shapes : DefaultShape(skill) = skill.shapes[n] /\ skill.shapes[n].default
<1> DEFINE defaults == {n \in DOMAIN skill.shapes : skill.shapes[n].default}
<1>1. DefaultShape(skill) = FirstOf(skill, defaults)
  BY DEF DefaultShape, Positions
<1>2. defaults # {}
  BY RepoAwareAssumption
<1>3. \E n \in defaults : FirstOf(skill, defaults) = skill.shapes[n]
  BY <1>2, FirstIsOne
<1> QED BY <1>1, <1>3

\* Why a shape is rendered: it is the default, a fact it needs was found, or it was advised.
Grounds(skill, given, known, consulted, word, shape) ==
  \/ shape.default
  \/ \E fact \in skill.facts :
       fact.binding = shape.requires /\ fact.arg \in given /\ fact.query \in known \cup {"param"}
  \/ consulted /\ ~word.abstained /\ word.approach = shape.id

LEMMA ShapeHasGrounds ==
  ASSUME NEW skill \in SkillSet, NEW given, NEW known, NEW consulted, NEW word
  PROVE  LET shape == Materialized(skill,
                        ChosenShape(skill, RealBindings(skill, given, known), consulted, word))
         IN  /\ \E n \in DOMAIN skill.shapes : shape = skill.shapes[n]
             /\ Grounds(skill, given, known, consulted, word, shape)
<1> DEFINE real == RealBindings(skill, given, known)
           chosen == ChosenShape(skill, real, consulted, word)
           Good(shape) == /\ \E n \in DOMAIN skill.shapes : shape = skill.shapes[n]
                          /\ Grounds(skill, given, known, consulted, word, shape)
<1>1. Good(DefaultShape(skill))
  BY DefaultIsDefault DEF Grounds
<1>2. ASSUME Favoured(skill, real) # {} PROVE Good(chosen)
  <2> DEFINE favoured == {n \in DOMAIN skill.shapes : ~skill.shapes[n].default /\ skill.shapes[n].requires \in real}
  <2>1. Favoured(skill, real) = favoured
    BY DEF Favoured, Positions
  <2>2. PICK n \in favoured : FirstOf(skill, favoured) = skill.shapes[n]
    BY <1>2, <2>1, FirstIsOne
  <2>3. chosen = skill.shapes[n]
    BY <1>2, <2>1, <2>2 DEF ChosenShape
  <2>4. PICK fact \in skill.facts : fact.binding = skill.shapes[n].requires /\ Resolves(fact, given, known)
    BY <2>2 DEF RealBindings
  <2>5. fact.arg \in given /\ fact.query \in known \cup {"param"}
    BY <2>4 DEF Resolves
  <2>6. Good(skill.shapes[n])
    BY <2>4, <2>5 DEF Grounds
  <2> QED BY <2>3, <2>6
<1>3. ASSUME Favoured(skill, real) = {}, consulted, Recommended(skill, word) # {} PROVE Good(chosen)
  <2> DEFINE named == {n \in DOMAIN skill.shapes : ~word.abstained /\ skill.shapes[n].id = word.approach}
  <2>1. Recommended(skill, word) = named
    BY DEF Recommended, Positions
  <2>2. PICK n \in named : FirstOf(skill, named) = skill.shapes[n]
    BY <1>3, <2>1, FirstIsOne
  <2>3. chosen = skill.shapes[n]
    BY <1>3, <2>1, <2>2 DEF ChosenShape
  <2>4. Good(skill.shapes[n])
    BY <1>3, <2>2 DEF Grounds
  <2> QED BY <2>3, <2>4
<1>4. ASSUME Favoured(skill, real) = {}, ~(consulted /\ Recommended(skill, word) # {}) PROVE Good(chosen)
  <2>1. chosen = DefaultShape(skill)
    BY <1>4 DEF ChosenShape
  <2> QED BY <1>1, <2>1
<1>5. Good(chosen)
  BY <1>2, <1>3, <1>4
<1> HIDE DEF Good, chosen
<1>6. Good(Materialized(skill, chosen))
  BY <1>1, <1>5 DEF Materialized
<1> QED BY <1>6 DEF Good, chosen

Thought == UNION {Advices(seam) : seam \in Seams}

\* The inductive invariant: all that is written down is advice.
FInv == thoughts \in Seq(Thought) /\ PlainFloor

LEMMA WrittenDown ==
  ASSUME NEW seam \in Seams, NEW word \in Advices(seam), thoughts \in Seq(Thought)
  PROVE  /\ Append(thoughts, word) \in Seq(Thought)
         /\ \A t \in DOMAIN thoughts : /\ t \in DOMAIN Append(thoughts, word)
                                       /\ Append(thoughts, word)[t] = thoughts[t]
         /\ \E t \in DOMAIN Append(thoughts, word) : Append(thoughts, word)[t] = word
<1>1. word \in Thought
  BY DEF Thought
<1>2. Len(thoughts) \in Nat /\ DOMAIN thoughts = 1 .. Len(thoughts)
  BY LenProperties
<1>3. /\ Append(thoughts, word) \in Seq(Thought)
      /\ DOMAIN Append(thoughts, word) = 1 .. Len(thoughts) + 1
      /\ \A t \in 1 .. Len(thoughts) : Append(thoughts, word)[t] = thoughts[t]
      /\ Append(thoughts, word)[Len(thoughts) + 1] = word
  BY <1>1, <1>2, AppendProperties, LenProperties
<1>4. Len(thoughts) + 1 \in DOMAIN Append(thoughts, word)
  BY <1>2, <1>3
<1> QED BY <1>2, <1>3, <1>4

LEMMA RenderFloor == Floor > 50 /\ FInv /\ Render => FInv'
<1> SUFFICES ASSUME Floor > 50, FInv, Render PROVE FInv'
  OBVIOUS
<1>0. PICK skill \in SkillSet, advisor \in BOOLEAN :
        \E given \in SUBSET {fact.arg : fact \in skill.facts},
           known \in SUBSET ({fact.query : fact \in skill.facts} \ {"param"}) :
          LET consulted == Consults(skill, RealBindings(skill, given, known), advisor)
          IN \E word \in IF consulted THEN Advices("planner") ELSE {None} :
               RenderWith(skill, given, known, consulted, word)
  BY Zenon DEF Render
<1>1. PICK given \in SUBSET {fact.arg : fact \in skill.facts},
           known \in SUBSET ({fact.query : fact \in skill.facts} \ {"param"}) :
        LET consulted == Consults(skill, RealBindings(skill, given, known), advisor)
        IN \E word \in IF consulted THEN Advices("planner") ELSE {None} :
             RenderWith(skill, given, known, consulted, word)
  BY <1>0, Zenon
<1> DEFINE consulted == Consults(skill, RealBindings(skill, given, known), advisor)
<1>2. PICK word \in (IF consulted THEN Advices("planner") ELSE {None}) :
        RenderWith(skill, given, known, consulted, word)
  BY <1>1
<1>3. consulted => word \in Advices("planner")
  OBVIOUS
<1> HIDE DEF consulted
<1> DEFINE real == RealBindings(skill, given, known)
           shape == Materialized(skill, ChosenShape(skill, real, consulted, word))
           line == [skill |-> skill, given |-> given, known |-> known, shape |-> shape.id,
                    tools |-> {shape.steps[n].tool : n \in DOMAIN shape.steps},
                    helped |-> consulted /\ Recommended(skill, word) # {}]
<1>4. /\ Gated(shape) /\ renders' = Append(renders, line)
      /\ thoughts' = IF consulted THEN Journalled(word) ELSE thoughts
  BY <1>2 DEF RenderWith
<1>5. /\ \E n \in DOMAIN skill.shapes : shape = skill.shapes[n]
      /\ Grounds(skill, given, known, consulted, word, shape)
  BY ShapeHasGrounds
<1> HIDE DEF shape
<1>6. consulted => word \in Advices("planner")
  BY <1>3
<1>7. "planner" \in Seams
  BY DEF Seams
<1>8. thoughts' \in Seq(Thought)
  BY <1>4, <1>6, <1>7, WrittenDown DEF FInv, Journalled
<1>9. ASSUME consulted, ~word.abstained
      PROVE  \E t \in DOMAIN thoughts' :
               /\ thoughts'[t].seam = "planner" /\ thoughts'[t].approach = word.approach
               /\ thoughts'[t].observations >= 2 \/ thoughts'[t].clear
  <2>1. thoughts' = Append(thoughts, word)
    BY <1>4, <1>9 DEF Journalled
  <2>2. word.seam = "planner" /\ (word.observations >= 2 \/ word.clear)
    BY <1>6, <1>7, <1>9, SeenAdvice
  <2>3. \E t \in DOMAIN thoughts' : thoughts'[t] = word
    BY <1>6, <1>7, <1>9, <2>1, WrittenDown DEF FInv
  <2> QED BY <2>2, <2>3
<1>10. Grounded(line, thoughts')
  <2>1. ShapeNamed(skill, shape.id) = shape
    BY <1>5, FoundByName
  <2>2. {shape.steps[n].tool : n \in DOMAIN shape.steps} \subseteq GatedTools
    BY <1>4 DEF Gated
  <2> QED BY <1>5, <1>9, <2>1, <2>2 DEF Grounds, Grounded
<1>11. renders = <<>>
  BY DEF Render
<1>12. renders' = <<line>>
  BY <1>4, <1>11
<1>13. \A r \in DOMAIN renders' : Grounded(renders'[r], thoughts')
  <2> HIDE DEF line
  <2>1. DOMAIN renders' = {1} /\ renders'[1] = line
    BY <1>12
  <2> QED BY <1>10, <2>1
<1>14. PlainFloor'
  BY <1>13 DEF PlainFloor
<1> QED BY <1>8, <1>14 DEF FInv

LEMMA ElsewhereFloor == FInv /\ Elsewhere => FInv'
<1> SUFFICES ASSUME FInv, Elsewhere PROVE FInv'
  OBVIOUS
<1>1. renders' = renders
  BY DEF Elsewhere
<1>2. PICK seam \in Seams : Deliberate(seam)
  BY DEF Elsewhere
<1>3. PICK word \in Advices(seam) :
        thoughts' = IF seam = "reflection" THEN Append(Journalled(word), word) ELSE Journalled(word)
  BY <1>2 DEF Deliberate
<1> DEFINE Keeps(longer) == /\ longer \in Seq(Thought)
                            /\ \A t \in DOMAIN thoughts : t \in DOMAIN longer /\ longer[t] = thoughts[t]
<1>4. \A s \in Seq(Thought) : Append(s, word) \in Seq(Thought)
                             /\ \A t \in DOMAIN s : t \in DOMAIN Append(s, word) /\ Append(s, word)[t] = s[t]
  <2>1. word \in Thought
    BY DEF Thought
  <2> TAKE s \in Seq(Thought)
  <2>2. DOMAIN s = 1 .. Len(s) /\ Len(s) \in Nat
    BY LenProperties
  <2>3. /\ Append(s, word) \in Seq(Thought) /\ DOMAIN Append(s, word) = 1 .. Len(s) + 1
        /\ \A t \in 1 .. Len(s) : Append(s, word)[t] = s[t]
    BY <2>1, <2>2, AppendProperties, LenProperties
  <2> QED BY <2>2, <2>3
<1>5. Keeps(Journalled(word))
  BY <1>4 DEF FInv, Journalled
<1>6. \A s : Keeps(s) => Keeps(Append(s, word))
  BY <1>4
<1>7. Keeps(thoughts')
  BY <1>3, <1>5, <1>6
<1>8. \A r \in DOMAIN renders : Grounded(renders[r], thoughts')
  BY <1>7 DEF FInv, PlainFloor, Grounded
<1>9. PlainFloor'
  BY <1>1, <1>8 DEF PlainFloor
<1> QED BY <1>7, <1>9 DEF FInv

\* As long as the advisor must be more than half sure, a repo-aware skill never does worse
\* than its plain twin: for all skills, facts of the repository, evidence and budgets.
THEOREM NeverWorseThanPlain ==
  ASSUME Floor > 50
  PROVE  RendererSpec => []PlainFloor
<1>1. RendererInit => FInv
  BY DEF RendererInit, FInv, PlainFloor
<1>2. FInv /\ [RendererNext]_<<thoughts, renders>> => FInv'
  <2>1. FInv /\ UNCHANGED <<thoughts, renders>> => FInv'
    BY DEF FInv, PlainFloor
  <2> QED BY <2>1, RenderFloor, ElsewhereFloor DEF RendererNext
<1>3. FInv => PlainFloor
  BY DEF FInv
<1> QED BY <1>1, <1>2, <1>3, PTL DEF RendererSpec

-----------------------------------------------------------------------------
(* Lines and texts *)

\* f goes from init, one step after the other.
Stepwise(f, m, S, init, step) ==
  f \in [0 .. m -> S] /\ f[0] = init /\ \A k \in 1 .. m : f[k] = step[k][f[k - 1]]

\* It can go as far as there are steps.
LEMMA StepByStep ==
  ASSUME NEW m \in Nat, NEW S, NEW init \in S, NEW step \in [1 .. m -> [S -> S]]
  PROVE  \E f : Stepwise(f, m, S, init, step)
<1> DEFINE UpTo(n) == \E f : Stepwise(f, n, S, init, step)
           bad == {n \in 0 .. m : ~UpTo(n)}
<1>0. UpTo(0)
  <2>1. Stepwise([k \in 0 .. 0 |-> init], 0, S, init, step)
    BY DEF Stepwise
  <2> QED BY <2>1
<1> SUFFICES ASSUME ~UpTo(m) PROVE FALSE
  OBVIOUS
<1> HIDE DEF UpTo
<1>1. PICK n \in bad : \A k \in bad : n <= k
  <2>1. bad \in SUBSET Nat /\ m \in bad
    OBVIOUS
  <2> HIDE DEF bad
  <2> QED BY <2>1, LeastNat
<1>2. n \in 0 .. m /\ n # 0
  BY <1>0, <1>1
<1>3. n - 1 \in 0 .. m /\ n - 1 \notin bad /\ n \in 1 .. m
  <2> HIDE DEF bad
  <2> QED BY <1>1, <1>2
<1>4. PICK f : Stepwise(f, n - 1, S, init, step)
  BY <1>3 DEF UpTo
<1> DEFINE next == step[n][f[n - 1]]
           g == [k \in 0 .. n |-> IF k < n THEN f[k] ELSE next]
<1>5. next \in S
  BY <1>3, <1>4 DEF Stepwise
<1>6. /\ g \in [0 .. n -> S] /\ g[n] = next /\ g[0] = init
      /\ \A k \in 0 .. n - 1 : g[k] = f[k]
  <2> HIDE DEF next
  <2> QED BY <1>3, <1>4, <1>5 DEF Stepwise
<1> HIDE DEF g
<1>7. \A k \in 1 .. n : g[k] = step[k][g[k - 1]]
  <2> TAKE k \in 1 .. n
  <2>1. g[k - 1] = f[k - 1]
    BY <1>3, <1>6
  <2>2. k # n => g[k] = f[k] /\ f[k] = step[k][f[k - 1]]
    BY <1>3, <1>4, <1>6 DEF Stepwise
  <2> QED BY <1>6, <2>1, <2>2
<1>8. Stepwise(g, n, S, init, step)
  BY <1>6, <1>7 DEF Stepwise
<1> QED BY <1>1, <1>8 DEF UpTo

Texts == Seq(Chars)
Lines == Seq(Texts)

\* The provers do without the definition of concatenation, once this is known of it.
Glued(x, y) == x \o y

LEMMA GluedTexts ==
  ASSUME NEW x \in Texts, NEW y \in Texts, NEW z \in Texts
  PROVE  Glued(x, y) \in Texts /\ Glued(Glued(x, y), z) = Glued(x, Glued(y, z))
BY ConcatAssociative, ConcatProperties DEF Texts, Glued

LEMMA GluedToNothing ==
  ASSUME NEW x \in Texts
  PROVE  Glued(x, <<>>) = x /\ Glued(<<>>, x) = x
BY ConcatEmptySeq DEF Texts, Glued

NL == <<"\n">>

\* What Text computes: f[n] is the first n lines, joined.
Joins(lines, f) ==
  f = [n \in 0 .. Len(lines) |->
         IF n = 0 THEN <<>> ELSE IF n = 1 THEN lines[1] ELSE Glued(Glued(f[n - 1], NL), lines[n])]

LEMMA NewlineIsText == NL \in Texts /\ <<>> \in Texts
<1>1. "\n" \in Chars /\ <<>> \in Seq(Chars)
  BY PatchingAssumption, EmptySeq
<1>2. Append(<<>>, "\n") = <<"\n">>
  OBVIOUS
<1>3. Append(<<>>, "\n") \in Seq(Chars)
  BY <1>1, AppendProperties
<1> QED BY <1>1, <1>2, <1>3 DEF Texts, NL

LEMMA JoinsAt ==
  ASSUME NEW lines, NEW f, Joins(lines, f), NEW n \in 0 .. Len(lines)
  PROVE  f[n] = IF n = 0 THEN <<>> ELSE IF n = 1 THEN lines[1] ELSE Glued(Glued(f[n - 1], NL), lines[n])
BY Zenon DEF Joins

\* Texts that begin with the same lines begin the same.
LEMMA JoinsSame ==
  ASSUME NEW a \in Lines, NEW f, Joins(a, f), NEW b \in Lines, NEW g, Joins(b, g),
         Len(a) <= Len(b), \A k \in 1 .. Len(a) : a[k] = b[k]
  PROVE  \A k \in 0 .. Len(a) : f[k] = g[k]
<1> DEFINE m == Len(a)
           bad == {k \in 0 .. m : f[k] # g[k]}
<1> SUFFICES ASSUME bad # {} PROVE FALSE
  OBVIOUS
<1>1. PICK n \in bad : \A k \in bad : n <= k
  <2>1. bad \in SUBSET Nat
    OBVIOUS
  <2> HIDE DEF bad
  <2> QED BY <2>1, LeastNat
<1>2. Len(a) \in Nat /\ Len(b) \in Nat
  BY LenProperties DEF Lines
<1>3. /\ f[n] = IF n = 0 THEN <<>> ELSE IF n = 1 THEN a[1] ELSE Glued(Glued(f[n - 1], NL), a[n])
      /\ g[n] = IF n = 0 THEN <<>> ELSE IF n = 1 THEN b[1] ELSE Glued(Glued(g[n - 1], NL), b[n])
  BY <1>1, <1>2, JoinsAt
<1>4. n > 0 => n - 1 \in 0 .. m /\ n - 1 \notin bad /\ a[n] = b[n]
  BY <1>1
<1> QED BY <1>1, <1>3, <1>4

LEMMA TextJoins ==
  ASSUME NEW lines \in Lines
  PROVE  \E f \in [0 .. Len(lines) -> Texts] : Joins(lines, f) /\ Text(lines) = f[Len(lines)]
<1> DEFINE m == Len(lines)
           one == [k \in 1 .. m |-> [x \in Texts |->
                     IF k = 1 THEN lines[1] ELSE Glued(Glued(x, NL), lines[k])]]
           f == CHOOSE f : Joins(lines, f)
<1>1. m \in Nat /\ \A k \in 1 .. m : lines[k] \in Texts
  BY LenProperties, ElementOfSeq DEF Lines
<1>2. one \in [1 .. m -> [Texts -> Texts]] /\ <<>> \in Texts
  <2>1. \A x \in Texts, y \in Texts : Glued(Glued(x, NL), y) \in Texts
    BY GluedTexts, NewlineIsText
  <2> QED BY <1>1, <2>1, NewlineIsText
<1>3. PICK g : Stepwise(g, m, Texts, <<>>, one)
  <2> HIDE DEF one, m
  <2> QED BY <1>1, <1>2, StepByStep
<1>4. g \in [0 .. m -> Texts] /\ Joins(lines, g)
  <2>1. \A k \in 1 .. m : g[k] = IF k = 1 THEN lines[1] ELSE Glued(Glued(g[k - 1], NL), lines[k])
    BY <1>1, <1>3 DEF Stepwise
  <2>2. g \in [0 .. m -> Texts] /\ g[0] = <<>>
    BY <1>3 DEF Stepwise
  <2> DEFINE h == [n \in 0 .. m |-> IF n = 0 THEN <<>> ELSE IF n = 1 THEN lines[1]
                                     ELSE Glued(Glued(g[n - 1], NL), lines[n])]
  <2>3. \A n \in 0 .. m : h[n] = IF n = 0 THEN <<>> ELSE IF n = 1 THEN lines[1]
                                 ELSE Glued(Glued(g[n - 1], NL), lines[n])
    BY Zenon
  <2>4. h = [n \in 0 .. m |-> h[n]]
    OBVIOUS
  <2> HIDE DEF h
  <2>5. \A n \in 0 .. m : h[n] = g[n]
    BY <1>1, <2>1, <2>2, <2>3
  <2>6. h = g
    BY <2>2, <2>4, <2>5
  <2> QED BY <2>2, <2>6 DEF Joins, h
<1>5. Joins(lines, f)
  <2> HIDE DEF f
  <2>1. \E h : Joins(lines, h)
    BY <1>4
  <2> QED BY <2>1 DEF f
<1>6. Text(lines) = f[m]
  BY DEF Text, Joins, Glued, NL
<1> HIDE DEF f
<1>7. f = g
  <2>1. DOMAIN f = 0 .. m /\ f = [k \in 0 .. m |-> f[k]]
    BY <1>5 DEF Joins
  <2>2. \A k \in 0 .. m : f[k] = g[k]
    BY <1>1, <1>4, <1>5, JoinsSame
  <2> QED BY <1>4, <2>1, <2>2
<1> QED BY <1>4, <1>5, <1>6, <1>7

LEMMA TextIsText ==
  ASSUME NEW lines \in Lines
  PROVE  Text(lines) \in Texts
<1>1. Len(lines) \in Nat
  BY LenProperties DEF Lines
<1> QED BY <1>1, TextJoins

\* c is some lines, and then those of b; the first ones are as many as those of a.
Follows(a, b, c) ==
  Len(c) = Len(a) + Len(b) /\ \A k \in 1 .. Len(b) : c[Len(a) + k] = b[k]

\* If g joins the lines of b, h goes on from the ones before like g.
GoesOn(a, b, g, h) == \A k \in 1 .. Len(b) : h[Len(a) + k] = Glued(Glued(h[Len(a)], NL), g[k])

LEMMA JoinsBehind ==
  ASSUME NEW a \in Lines, NEW b \in Lines, NEW c \in Lines, Len(a) > 0, Follows(a, b, c),
         NEW g \in [0 .. Len(b) -> Texts], Joins(b, g), NEW h, Joins(c, h), h[Len(a)] \in Texts
  PROVE  GoesOn(a, b, g, h)
<1> DEFINE m == Len(a)
           n == Len(b)
           head == Glued(h[m], NL)
           bad == {k \in 1 .. n : h[m + k] # Glued(head, g[k])}
<1> SUFFICES ASSUME bad # {} PROVE FALSE
  BY DEF GoesOn
<1>0. bad \in SUBSET Nat /\ m \in Nat /\ n \in Nat /\ m > 0 /\ head \in Texts
  <2>1. bad \in SUBSET Nat
    OBVIOUS
  <2>2. m \in Nat /\ n \in Nat /\ m > 0
    BY LenProperties DEF Lines
  <2>3. head \in Texts
    BY NewlineIsText, GluedTexts
  <2> QED BY <2>1, <2>2, <2>3
<1>1. PICK k \in bad : \A i \in bad : k <= i
  <2> HIDE DEF bad
  <2> QED BY <1>0, LeastNat
<1>2. k \in 1 .. n /\ h[m + k] # Glued(head, g[k])
  BY <1>1
<1>3. ASSUME k > 1 PROVE h[m + (k - 1)] = Glued(head, g[k - 1])
  <2>1. k - 1 \in 1 .. n /\ k - 1 \notin bad
    <3> HIDE DEF bad, m, n
    <3> QED BY <1>0, <1>1, <1>2, <1>3
  <2> QED BY <2>1
<1> HIDE DEF bad
<1> DEFINE at == m + k
<1>4. at \in 0 .. Len(c) /\ at # 0 /\ at # 1 /\ at - 1 = m + (k - 1) /\ c[at] = b[k]
  BY <1>0, <1>2 DEF Follows
<1> HIDE DEF at
<1>5. h[at] = IF at = 0 THEN <<>> ELSE IF at = 1 THEN c[1] ELSE Glued(Glued(h[at - 1], NL), c[at])
  BY <1>4, JoinsAt, Zenon
<1>6. h[at] = Glued(Glued(h[m + (k - 1)], NL), b[k])
  BY <1>4, <1>5
<1>7. k \in 0 .. Len(b) /\ k # 0
  BY <1>0, <1>2
<1>8. g[k] = IF k = 0 THEN <<>> ELSE IF k = 1 THEN b[1] ELSE Glued(Glued(g[k - 1], NL), b[k])
  BY <1>7, JoinsAt, Zenon
<1>9. CASE k = 1
  <2>1. g[k] = b[k]
    BY <1>8, <1>9
  <2>2. h[m + (k - 1)] = h[m]
    BY <1>0, <1>9
  <2> QED BY <1>2, <1>6, <2>1, <2>2 DEF at
<1>10. CASE k # 1
  <2> DEFINE before == g[k - 1]
             now == b[k]
  <2>1. k - 1 \in 0 .. n /\ k > 1
    BY <1>0, <1>2, <1>10
  <2>2. now \in Texts
    BY <1>2, ElementOfSeq DEF Lines
  <2>3. before \in Texts
    BY <2>1
  <2>4. h[m + (k - 1)] = Glued(head, before)
    BY <1>3, <2>1
  <2>5. g[k] = Glued(Glued(before, NL), now)
    BY <1>7, <1>8, <1>10
  <2>6. h[at] = Glued(Glued(Glued(head, before), NL), now)
    BY <1>6, <2>4
  <2> HIDE DEF before, now, head
  <2>7. Glued(Glued(head, before), NL) = Glued(head, Glued(before, NL)) /\ Glued(before, NL) \in Texts
    BY <1>0, <2>3, NewlineIsText, GluedTexts
  <2>8. Glued(Glued(head, Glued(before, NL)), now) = Glued(head, Glued(Glued(before, NL), now))
    BY <1>0, <2>2, <2>7, GluedTexts
  <2> QED BY <1>2, <2>5, <2>6, <2>7, <2>8 DEF at
<1> QED BY <1>9, <1>10

\* Lines put behind others are joined behind their text.
LEMMA TextOfBoth ==
  ASSUME NEW a \in Lines, NEW b \in Lines, a # <<>>, b # <<>>
  PROVE  Text(a \o b) = Glued(Glued(Text(a), NL), Text(b))
<1> DEFINE c == a \o b
<1>1. Len(a) \in Nat /\ Len(b) \in Nat /\ Len(a) > 0 /\ Len(b) > 0
  BY EmptySeq, LenProperties DEF Lines
<1>2. /\ c \in Lines /\ Len(c) = Len(a) + Len(b)
      /\ \A k \in 1 .. Len(a) + Len(b) : c[k] = IF k <= Len(a) THEN a[k] ELSE b[k - Len(a)]
  BY ConcatProperties DEF Lines
<1> HIDE DEF c
<1>3. Len(a) <= Len(c) /\ \A k \in 1 .. Len(a) : a[k] = c[k]
  BY <1>1, <1>2
<1>4. Follows(a, b, c)
  <2>1. \A k \in 1 .. Len(b) : /\ Len(a) + k \in 1 .. Len(a) + Len(b)
                               /\ ~(Len(a) + k <= Len(a)) /\ (Len(a) + k) - Len(a) = k
    BY <1>1
  <2>2. \A k \in 1 .. Len(b) : c[Len(a) + k] = b[k]
    BY <1>2, <2>1
  <2> QED BY <1>2, <2>2 DEF Follows
<1>5. PICK f \in [0 .. Len(a) -> Texts] : Joins(a, f) /\ Text(a) = f[Len(a)]
  BY TextJoins
<1>6. PICK g \in [0 .. Len(b) -> Texts] : Joins(b, g) /\ Text(b) = g[Len(b)]
  BY TextJoins
<1>7. PICK h \in [0 .. Len(c) -> Texts] : Joins(c, h) /\ Text(c) = h[Len(c)]
  BY <1>2, TextJoins
<1>8. h[Len(a)] = Text(a) /\ Text(a) \in Texts
  <2>1. \A k \in 0 .. Len(a) : f[k] = h[k]
    BY <1>2, <1>3, <1>5, <1>7, JoinsSame
  <2> QED BY <1>1, <1>5, <2>1
<1>9. GoesOn(a, b, g, h)
  <2>1. h[Len(a)] \in Texts
    BY <1>8
  <2> QED BY <1>1, <1>2, <1>4, <1>6, <1>7, <2>1, JoinsBehind
<1>10. h[Len(a) + Len(b)] = Glued(Glued(h[Len(a)], NL), g[Len(b)])
  BY <1>1, <1>9 DEF GoesOn
<1> QED BY <1>2, <1>6, <1>7, <1>8, <1>10 DEF c

LEMMA TextOfOne ==
  ASSUME NEW l \in Texts
  PROVE  <<l>> \in Lines /\ <<l>> # <<>> /\ Text(<<l>>) = l
<1> DEFINE one == <<l>>
<1>1. one \in Lines /\ Len(one) = 1 /\ one[1] = l /\ one # <<>>
  BY DEF Lines
<1> HIDE DEF one
<1>2. PICK f \in [0 .. 1 -> Texts] : Joins(one, f) /\ Text(one) = f[1]
  BY <1>1, TextJoins
<1>3. f[1] = one[1]
  BY <1>1, <1>2, JoinsAt
<1> QED BY <1>1, <1>2, <1>3 DEF one

LEMMA GluedChar ==
  ASSUME NEW x \in Texts, NEW char \in Chars
  PROVE  <<char>> \in Texts /\ Append(x, char) \in Texts /\ Append(x, char) = Glued(x, <<char>>)
BY AppendProperties, AppendIsConcat DEF Texts, Glued

\* One more character of a text is one more of its lines.
LEMMA ExtendedText ==
  ASSUME NEW lines \in Lines, lines # <<>>, NEW char \in Chars
  PROVE  /\ Extended(lines, char) \in Lines /\ Extended(lines, char) # <<>>
         /\ Text(Extended(lines, char)) = Glued(Text(lines), <<char>>)
<1>0. Text(lines) \in Texts /\ <<char>> \in Texts /\ NL \in Texts /\ <<>> \in Texts
  BY TextIsText, GluedChar, NewlineIsText DEF Texts
<1>1. CASE char = "\n"
  <2> DEFINE empty == << <<>> >>
             new == Append(lines, <<>>)
  <2>1. new = lines \o empty /\ new \in Lines /\ new # <<>>
    BY <1>0, AppendIsConcat, AppendProperties DEF Lines
  <2>2. empty \in Lines /\ empty # <<>> /\ Text(empty) = <<>>
    BY <1>0, TextOfOne
  <2>3. Extended(lines, char) = new /\ <<char>> = NL
    BY <1>1 DEF Extended, NL
  <2> HIDE DEF empty, new
  <2>4. Text(lines \o empty) = Glued(Glued(Text(lines), NL), Text(empty))
    BY <2>2, TextOfBoth
  <2>5. Glued(Text(lines), NL) \in Texts
    BY <1>0, GluedTexts
  <2>6. Glued(Glued(Text(lines), NL), Text(empty)) = Glued(Text(lines), NL)
    BY <2>2, <2>5, GluedToNothing
  <2> QED BY <2>1, <2>3, <2>4, <2>6
<1>2. CASE char # "\n"
  <2>1. PICK front \in Lines, l \in Texts : lines = Append(front, l)
    BY SequenceEmptyOrAppend DEF Lines
  <2> DEFINE m == Len(lines)
             longer == Append(l, char)
             new == [lines EXCEPT ![m] = longer]
  <2>2. longer \in Texts /\ longer = Glued(l, <<char>>)
    BY GluedChar
  <2>3. /\ m = Len(front) + 1 /\ lines[m] = l /\ \A k \in 1 .. Len(front) : lines[k] = front[k]
        /\ Len(front) \in Nat /\ m \in 1 .. Len(lines)
    BY <2>1, AppendProperties, LenProperties DEF Lines
  <2>4. Extended(lines, char) = new
    BY <1>2, <2>3 DEF Extended
  <2>5. /\ new \in Lines /\ Len(new) = m
        /\ \A k \in 1 .. m : new[k] = IF k = m THEN longer ELSE lines[k]
    <3> HIDE DEF longer
    <3> QED BY <2>2, <2>3, ExceptSeq DEF Lines
  <2>6. new = Append(front, longer)
    <3> DEFINE other == Append(front, longer)
    <3>1. /\ other \in Lines /\ Len(other) = m /\ other[m] = longer
          /\ \A k \in 1 .. Len(front) : other[k] = front[k]
      <4> HIDE DEF longer
      <4> QED BY <2>2, <2>3, AppendProperties DEF Lines
    <3> HIDE DEF other, new, longer, m
    <3>2. \A k \in 1 .. m : new[k] = other[k]
      BY <2>3, <2>5, <3>1
    <3> QED BY <2>5, <3>1, <3>2, SeqEqual DEF Lines, other
  <2> HIDE DEF longer, new, m
  <2>7. CASE front = <<>>
    <3>1. lines = <<l>> /\ new = <<longer>>
      BY <2>1, <2>6, <2>7
    <3>2. Text(lines) = l
      BY <3>1, TextOfOne
    <3>3. Text(new) = longer /\ new # <<>>
      BY <2>2, <3>1, TextOfOne
    <3> QED BY <2>2, <2>4, <2>5, <3>2, <3>3
  <2>8. CASE front # <<>>
    <3> DEFINE one == <<l>>
               other == <<longer>>
               head == Glued(Text(front), NL)
    <3>1. lines = front \o one /\ new = front \o other
      BY <2>1, <2>2, <2>6, AppendIsConcat DEF Lines
    <3>2. one \in Lines /\ one # <<>> /\ Text(one) = l
      BY TextOfOne
    <3>3. other \in Lines /\ other # <<>> /\ Text(other) = longer
      BY <2>2, TextOfOne
    <3> HIDE DEF one, other
    <3>4. Text(lines) = Glued(head, l)
      BY <2>8, <3>1, <3>2, TextOfBoth
    <3>5. Text(new) = Glued(head, longer)
      BY <2>8, <3>1, <3>3, TextOfBoth
    <3>6. head \in Texts
      BY <1>0, TextIsText, GluedTexts
    <3> HIDE DEF head
    <3>7. Text(new) = Glued(Glued(head, l), <<char>>)
      BY <1>0, <2>2, <3>5, <3>6, GluedTexts
    <3>8. new # <<>>
      BY <2>2, <2>6, AppendProperties DEF Lines
    <3> QED BY <2>4, <2>5, <3>4, <3>7, <3>8
  <2> QED BY <2>7, <2>8
<1> QED BY <1>1, <1>2

\* What Split computes: f[n] is the lines of the first n characters.
Splits(text, f) ==
  f = [n \in 0 .. Len(text) |-> IF n = 0 THEN <<(<<>>)>> ELSE Extended(f[n - 1], text[n])]

LEMMA SplitsAt ==
  ASSUME NEW text, NEW f, Splits(text, f), NEW n \in 0 .. Len(text)
  PROVE  f[n] = IF n = 0 THEN <<(<<>>)>> ELSE Extended(f[n - 1], text[n])
BY Zenon DEF Splits

LEMMA SplitSplits ==
  ASSUME NEW text \in Texts
  PROVE  \E f : Splits(text, f) /\ Split(text) = f[Len(text)]
<1> DEFINE m == Len(text)
           S == {lines \in Lines : lines # <<>>}
           one == [k \in 1 .. m |-> [lines \in S |-> Extended(lines, text[k])]]
           first == << <<>> >>
           f == CHOOSE f : Splits(text, f)
<1>1. m \in Nat /\ \A k \in 1 .. m : text[k] \in Chars
  BY LenProperties, ElementOfSeq DEF Texts
<1>2. first \in S
  BY TextOfOne, EmptySeq DEF Texts
<1>3. one \in [1 .. m -> [S -> S]]
  BY <1>1, ExtendedText
<1>4. PICK g : Stepwise(g, m, S, first, one)
  <2> HIDE DEF one, m, S, first
  <2> QED BY <1>1, <1>2, <1>3, StepByStep
<1>5. Splits(text, g)
  <2>1. \A k \in 1 .. m : g[k] = Extended(g[k - 1], text[k])
    <3> TAKE k \in 1 .. m
    <3>1. g[k - 1] \in S /\ g[k] = one[k][g[k - 1]]
      <4> HIDE DEF one, S
      <4> QED BY <1>1, <1>4 DEF Stepwise
    <3> HIDE DEF S
    <3> QED BY <3>1
  <2>2. g \in [0 .. m -> S] /\ g[0] = first
    <3> HIDE DEF S, one, first
    <3> QED BY <1>4 DEF Stepwise
  <2> DEFINE h == [n \in 0 .. m |-> IF n = 0 THEN first ELSE Extended(g[n - 1], text[n])]
  <2>3. \A n \in 0 .. m : h[n] = IF n = 0 THEN first ELSE Extended(g[n - 1], text[n])
    BY Zenon
  <2>4. h = [n \in 0 .. m |-> h[n]]
    OBVIOUS
  <2> HIDE DEF h, first, S
  <2>5. \A n \in 0 .. m : h[n] = g[n]
    BY <1>1, <2>1, <2>2, <2>3
  <2>6. h = g
    BY <2>2, <2>4, <2>5
  <2> QED BY <2>6 DEF Splits, h, first
<1>6. Splits(text, f)
  <2> HIDE DEF f
  <2>1. \E h : Splits(text, h)
    BY <1>5
  <2> QED BY <2>1 DEF f
<1>7. Split(text) = f[m]
  BY DEF Split, Splits
<1> QED BY <1>6, <1>7

\* A text that is split is the text of its lines.
LEMMA SplitText ==
  ASSUME NEW text \in Texts
  PROVE  Split(text) \in Lines /\ Split(text) # <<>> /\ Text(Split(text)) = text
<1> DEFINE m == Len(text)
           Right(lines, n) == lines \in Lines /\ lines # <<>> /\ Text(lines) = SubSeq(text, 1, n)
<1>1. m \in Nat /\ \A k \in 1 .. m : text[k] \in Chars
  BY LenProperties, ElementOfSeq DEF Texts
<1>2. PICK f : Splits(text, f) /\ Split(text) = f[m]
  BY SplitSplits
<1>3. Right(f[0], 0)
  <2>1. f[0] = << <<>> >>
    <3>1. 0 \in 0 .. m
      BY <1>1
    <3> QED BY <1>2, <3>1, SplitsAt
  <2>2. <<>> \in Texts /\ SubSeq(text, 1, 0) = <<>>
    BY EmptySeq, SubSeqEmpty DEF Texts
  <2> QED BY <2>1, <2>2, TextOfOne
<1>4. ASSUME NEW n \in 1 .. m, Right(f[n - 1], n - 1) PROVE Right(f[n], n)
  <2>1. f[n] = Extended(f[n - 1], text[n])
    <3>1. n \in 0 .. m /\ n # 0
      BY <1>1
    <3>2. f[n] = IF n = 0 THEN <<(<<>>)>> ELSE Extended(f[n - 1], text[n])
      BY <1>2, <3>1, SplitsAt, Zenon
    <3> QED BY <3>1, <3>2
  <2>2. f[n] \in Lines /\ f[n] # <<>> /\ Text(f[n]) = Glued(SubSeq(text, 1, n - 1), <<text[n]>>)
    BY <1>1, <1>4, <2>1, ExtendedText
  <2>3. Glued(SubSeq(text, 1, n - 1), <<text[n]>>) = SubSeq(text, 1, n)
    <3>1. 1 \in 1 .. Len(text) /\ n \in 1 .. Len(text)
      BY <1>1
    <3> QED BY <3>1, SubSeqRecursiveSecond DEF Texts, Glued
  <2> QED BY <2>2, <2>3
<1> DEFINE bad == {n \in 0 .. m : ~Right(f[n], n)}
<1>5. bad = {}
  <2> HIDE DEF Right
  <2> SUFFICES ASSUME bad # {} PROVE FALSE
    OBVIOUS
  <2>0. bad \in SUBSET Nat
    BY <1>1
  <2>1. PICK n \in bad : \A k \in bad : n <= k
    <3> HIDE DEF bad
    <3> QED BY <2>0, LeastNat
  <2>2. n \in 0 .. m /\ ~Right(f[n], n)
    BY <2>1
  <2>3. n # 0
    BY <1>3, <2>2
  <2>4. n - 1 \in 0 .. m /\ n - 1 \notin bad /\ n \in 1 .. m
    <3> HIDE DEF bad
    <3> QED BY <1>1, <2>1, <2>2, <2>3
  <2>5. Right(f[n - 1], n - 1)
    BY <2>4
  <2> QED BY <1>4, <2>2, <2>4, <2>5
<1>6. Right(f[m], m)
  <2> HIDE DEF Right
  <2> QED BY <1>1, <1>5
<1>7. SubSeq(text, 1, m) = text
  BY SubSeqFull DEF Texts
<1> QED BY <1>2, <1>6, <1>7

LEMMA LeastMin ==
  ASSUME NEW S \in SUBSET Nat, S # {}
  PROVE  Min(S) \in S
<1>1. \E n \in S : \A k \in S : n =< k
  BY LeastNat
<1> QED BY <1>1 DEF Min

\* What is before, in and behind the place of a part.
Around(x, part, y) == Glued(Glued(x, part), y)

\* A part at a place divides the whole.
LEMMA Divided ==
  ASSUME NEW S, NEW whole \in Seq(S), NEW part \in Seq(S), NEW at \in Places(whole, part)
  PROVE  /\ SubSeq(whole, 1, at - 1) \in Seq(S)
         /\ SubSeq(whole, at + Len(part), Len(whole)) \in Seq(S)
         /\ whole = Around(SubSeq(whole, 1, at - 1), part, SubSeq(whole, at + Len(part), Len(whole)))
<1> DEFINE m == Len(whole)
           n == Len(part)
<1>1. m \in Nat /\ n \in Nat /\ \A k \in 1 .. m : whole[k] \in S
  BY LenProperties, ElementOfSeq
<1>2. at \in Nat /\ at \in 1 .. m - n + 1 /\ SubSeq(whole, at, at + n - 1) = part
  BY <1>1 DEF Places
<1> HIDE DEF m, n
<1>3. \A k \in 1 .. at - 1 : whole[k] \in S
  BY <1>1, <1>2
<1>4. \A k \in at + n .. m : whole[k] \in S
  BY <1>1, <1>2
<1>5. at - 1 \in Int /\ at + n \in Int /\ m \in Int /\ 1 \in Int
  BY <1>1, <1>2
<1>6. SubSeq(whole, 1, at - 1) \in Seq(S)
  BY <1>3, <1>5, SubSeqProperties
<1>7. SubSeq(whole, at + n, m) \in Seq(S)
  BY <1>4, <1>5, SubSeqProperties
<1>8. SubSeq(whole, 1, at - 1) \o SubSeq(whole, (at - 1) + 1, at + n - 1) = SubSeq(whole, 1, at + n - 1)
  <2>1. 1 \in 1 .. Len(whole) + 1 /\ at - 1 \in 1 - 1 .. Len(whole) /\ at + n - 1 \in at - 1 .. Len(whole)
    BY <1>1, <1>2 DEF m
  <2> QED BY <2>1, ConcatAdjacentSubSeq
<1>9. SubSeq(whole, 1, at + n - 1) \o SubSeq(whole, (at + n - 1) + 1, m) = SubSeq(whole, 1, m)
  <2>1. 1 \in 1 .. Len(whole) + 1 /\ at + n - 1 \in 1 - 1 .. Len(whole) /\ m \in at + n - 1 .. Len(whole)
    BY <1>1, <1>2 DEF m
  <2> QED BY <2>1, ConcatAdjacentSubSeq
<1>10. (at - 1) + 1 = at /\ (at + n - 1) + 1 = at + n /\ SubSeq(whole, 1, m) = whole
  BY <1>1, <1>2, SubSeqFull DEF m
<1> QED BY <1>2, <1>6, <1>7, <1>8, <1>9, <1>10 DEF Around, Glued, m, n

\* And what is put together has the part where it was put.
LEMMA PutTogether ==
  ASSUME NEW S, NEW x \in Seq(S), NEW part \in Seq(S), NEW y \in Seq(S),
         NEW whole \in Seq(S), whole = Around(x, part, y)
  PROVE  /\ Len(x) + 1 \in Places(whole, part)
         /\ SubSeq(whole, 1, Len(x)) = x
         /\ SubSeq(whole, Len(x) + 1 + Len(part), Len(whole)) = y
<1> DEFINE i == Len(x)
           m == Len(part)
           n == Len(y)
           head == x \o part
<1>1. i \in Nat /\ m \in Nat /\ n \in Nat
  BY LenProperties
<1>2. /\ head \in Seq(S) /\ Len(head) = i + m
      /\ \A k \in 1 .. i + m : head[k] = IF k <= i THEN x[k] ELSE part[k - i]
  BY ConcatProperties
<1>3. /\ Len(whole) = Len(head) + n
      /\ \A k \in 1 .. Len(head) + n : whole[k] = IF k <= Len(head) THEN head[k] ELSE y[k - Len(head)]
  <2>1. whole = head \o y
    BY DEF Around, Glued
  <2>2. head \in Seq(S)
    BY <1>2
  <2> HIDE DEF head, i, m, n
  <2>3. /\ Len(head \o y) = Len(head) + Len(y)
        /\ \A k \in 1 .. Len(head) + Len(y) :
             (head \o y)[k] = IF k <= Len(head) THEN head[k] ELSE y[k - Len(head)]
    BY ONLY <2>2, y \in Seq(S), ConcatProperties
  <2> QED BY <2>1, <2>3, Zenon DEF n
<1> HIDE DEF head
<1>4. /\ Len(whole) = i + m + n
      /\ \A k \in 1 .. i : whole[k] = x[k]
      /\ \A k \in 1 .. m : whole[i + k] = part[k]
      /\ \A k \in 1 .. n : whole[i + m + k] = y[k]
  <2> HIDE DEF i, m, n
  <2>1. Len(whole) = i + m + n /\ Len(head) = i + m
    BY <1>1, <1>2, <1>3
  <2>2. ASSUME NEW k \in 1 .. i PROVE whole[k] = x[k]
    <3>1. k \in 1 .. i + m /\ k \in 1 .. Len(head) + n /\ k <= i /\ k <= Len(head)
      BY <1>1, <2>1
    <3> QED BY <1>2, <1>3, <3>1
  <2>3. ASSUME NEW k \in 1 .. m PROVE whole[i + k] = part[k]
    <3>1. /\ i + k \in 1 .. i + m /\ i + k \in 1 .. Len(head) + n /\ ~(i + k <= i) /\ i + k <= Len(head)
          /\ (i + k) - i = k
      BY <1>1, <2>1
    <3> QED BY <1>2, <1>3, <3>1
  <2>4. ASSUME NEW k \in 1 .. n PROVE whole[i + m + k] = y[k]
    <3>1. /\ i + m + k \in 1 .. Len(head) + n /\ ~(i + m + k <= Len(head))
          /\ (i + m + k) - Len(head) = k
      BY <1>1, <2>1
    <3> QED BY <1>3, <3>1
  <2> QED BY <2>1, <2>2, <2>3, <2>4
<1>5. /\ \A k \in 1 .. Len(whole) : whole[k] \in S
      /\ i + 1 \in Int /\ i + m \in Int /\ i + m + 1 \in Int /\ 1 \in Int /\ Len(whole) \in Int
  BY <1>1, <1>4, ElementOfSeq
<1> HIDE DEF i, m, n
<1>6. SubSeq(whole, 1, i) = x
  <2> DEFINE sub == SubSeq(whole, 1, i)
  <2>1. \A k \in 1 .. i : whole[k] \in S
    BY <1>1, <1>4, <1>5
  <2>2. /\ sub \in Seq(S) /\ Len(sub) = IF 1 <= i THEN i - 1 + 1 ELSE 0
        /\ \A k \in 1 .. i - 1 + 1 : sub[k] = whole[1 + k - 1]
    BY <1>1, <1>5, <2>1, SubSeqProperties
  <2> HIDE DEF sub
  <2>3. Len(sub) = Len(x) /\ \A k \in 1 .. Len(sub) : sub[k] = x[k]
    <3>1. \A k \in 1 .. i : 1 + k - 1 = k /\ k \in 1 .. i - 1 + 1
      BY <1>1
    <3> QED BY <1>1, <1>4, <2>2, <3>1 DEF i
  <2> QED BY <2>2, <2>3, SeqEqual DEF sub
<1>7. SubSeq(whole, i + 1, i + m) = part
  <2> DEFINE sub == SubSeq(whole, i + 1, i + m)
  <2>1. \A k \in i + 1 .. i + m : whole[k] \in S
    BY <1>1, <1>4, <1>5
  <2>2. /\ sub \in Seq(S) /\ Len(sub) = IF i + 1 <= i + m THEN i + m - (i + 1) + 1 ELSE 0
        /\ \A k \in 1 .. i + m - (i + 1) + 1 : sub[k] = whole[i + 1 + k - 1]
    BY <1>1, <1>5, <2>1, SubSeqProperties
  <2> HIDE DEF sub
  <2>3. Len(sub) = Len(part) /\ \A k \in 1 .. Len(sub) : sub[k] = part[k]
    <3>1. \A k \in 1 .. m : i + 1 + k - 1 = i + k /\ k \in 1 .. i + m - (i + 1) + 1
      BY <1>1
    <3>2. Len(sub) = m
      BY <1>1, <2>2
    <3> QED BY <1>4, <2>2, <3>1, <3>2 DEF m
  <2> QED BY <2>2, <2>3, SeqEqual DEF sub
<1>8. SubSeq(whole, i + m + 1, Len(whole)) = y
  <2> DEFINE sub == SubSeq(whole, i + m + 1, Len(whole))
  <2>1. \A k \in i + m + 1 .. Len(whole) : whole[k] \in S
    BY <1>1, <1>4, <1>5
  <2>2. /\ sub \in Seq(S) /\ Len(sub) = IF i + m + 1 <= Len(whole) THEN Len(whole) - (i + m + 1) + 1 ELSE 0
        /\ \A k \in 1 .. Len(whole) - (i + m + 1) + 1 : sub[k] = whole[i + m + 1 + k - 1]
    BY <1>5, <2>1, SubSeqProperties
  <2> HIDE DEF sub
  <2>3. Len(sub) = Len(y) /\ \A k \in 1 .. Len(sub) : sub[k] = y[k]
    <3>1. \A k \in 1 .. n : i + m + 1 + k - 1 = i + m + k /\ k \in 1 .. Len(whole) - (i + m + 1) + 1
      BY <1>1, <1>4
    <3>2. Len(sub) = n
      BY <1>1, <1>4, <2>2
    <3> QED BY <1>4, <2>2, <3>1, <3>2 DEF n
  <2> QED BY <2>2, <2>3, SeqEqual DEF sub
<1>9. i + 1 \in Places(whole, part)
  <2>1. i + 1 \in 1 .. (Len(whole) - m + 1) /\ i + 1 + m - 1 = i + m
    BY <1>1, <1>4
  <2>2. SubSeq(whole, i + 1, i + 1 + m - 1) = part
    BY <1>7, <2>1
  <2> QED BY <2>1, <2>2 DEF Places, m
<1>10. i + 1 + m = i + m + 1
  BY <1>1
<1> QED BY <1>6, <1>8, <1>9, <1>10 DEF i, m

\* The text above and below some lines.
Above(lines) == IF lines = <<>> THEN <<>> ELSE Glued(Text(lines), NL)
Below(lines) == IF lines = <<>> THEN <<>> ELSE Glued(NL, Text(lines))

LEMMA TextAround ==
  ASSUME NEW a \in Lines, NEW o \in Lines, NEW b \in Lines, o # <<>>
  PROVE  /\ Above(a) \in Texts /\ Below(b) \in Texts
         /\ Text(Around(a, o, b)) = Around(Above(a), Text(o), Below(b))
<1> DEFINE c == a \o o
<1>1. Text(a) \in Texts /\ Text(o) \in Texts /\ Text(b) \in Texts /\ NL \in Texts /\ <<>> \in Texts
  BY TextIsText, NewlineIsText
<1>2. Above(a) \in Texts /\ Below(b) \in Texts
  BY <1>1, GluedTexts DEF Above, Below
<1>3. c \in Lines /\ c # <<>> /\ Text(c) = Glued(Above(a), Text(o))
  <2>1. CASE a = <<>>
    <3>1. c = o
      BY <2>1, ConcatEmptySeq DEF Lines
    <3>2. Glued(<<>>, Text(o)) = Text(o)
      BY <1>1, GluedToNothing
    <3> QED BY <2>1, <3>1, <3>2 DEF Above
  <2>2. CASE a # <<>>
    <3>1. c \in Lines /\ c # <<>>
      BY <2>2, ConcatProperties, ConcatEqualIffEmpty DEF Lines
    <3>2. Text(c) = Glued(Glued(Text(a), NL), Text(o))
      BY <2>2, TextOfBoth
    <3> QED BY <2>2, <3>1, <3>2 DEF Above
  <2> QED BY <2>1, <2>2
<1> HIDE DEF c
<1>4. Text(c \o b) = Glued(Text(c), Below(b))
  <2>0. Text(c) \in Texts
    BY <1>3, TextIsText
  <2>1. CASE b = <<>>
    <3>1. c \o b = c
      BY <1>3, <2>1, ConcatEmptySeq DEF Lines
    <3>2. Glued(Text(c), <<>>) = Text(c)
      BY <2>0, GluedToNothing
    <3> QED BY <2>1, <3>1, <3>2 DEF Below
  <2>2. CASE b # <<>>
    <3>1. Text(c \o b) = Glued(Glued(Text(c), NL), Text(b))
      BY <1>3, <2>2, TextOfBoth
    <3>2. Glued(Glued(Text(c), NL), Text(b)) = Glued(Text(c), Glued(NL, Text(b)))
      BY <1>1, <2>0, GluedTexts
    <3> QED BY <2>2, <3>1, <3>2 DEF Below
  <2> QED BY <2>1, <2>2
<1>5. Around(a, o, b) = c \o b
  BY DEF Around, Glued, c
<1> QED BY <1>2, <1>3, <1>4, <1>5 DEF Around

\* What is put in the place of some lines is put in the place of their text.
LEMMA TextReplaced ==
  ASSUME NEW lines \in Lines, NEW old \in Lines, NEW new \in Lines, old # <<>>, new # <<>>,
         NEW at \in Places(lines, old)
  PROVE  \E x \in Texts, y \in Texts :
           /\ Text(lines) = Around(x, Text(old), y)
           /\ Text(Replayed(lines, old, at, new)) = Around(x, Text(new), y)
           /\ SubSeq(lines, 1, at - 1) \in Lines /\ x = Above(SubSeq(lines, 1, at - 1))
<1> DEFINE a == SubSeq(lines, 1, at - 1)
           b == SubSeq(lines, at + Len(old), Len(lines))
<1>1. a \in Lines /\ b \in Lines /\ lines = Around(a, old, b)
  BY Divided DEF Lines
<1>2. Replayed(lines, old, at, new) = Around(a, new, b)
  BY DEF Replayed, Around, Glued
<1> HIDE DEF a, b
<1>3. /\ Above(a) \in Texts /\ Below(b) \in Texts
      /\ Text(Around(a, old, b)) = Around(Above(a), Text(old), Below(b))
  BY <1>1, TextAround
<1>4. Text(Around(a, new, b)) = Around(Above(a), Text(new), Below(b))
  BY <1>1, TextAround
<1>5. SubSeq(lines, 1, at - 1) \in Lines /\ Above(a) = Above(SubSeq(lines, 1, at - 1))
  BY <1>1 DEF a
<1> QED BY <1>1, <1>2, <1>3, <1>4, <1>5

\* A part is replaced where it is first.
LEMMA EditedFirst ==
  ASSUME NEW x \in Texts, NEW y \in Texts, NEW find \in Texts, NEW replace \in Texts,
         NEW whole \in Texts, whole = Around(x, find, y), Min(Places(whole, find)) = Len(x) + 1
  PROVE  EditFile(whole, find, replace) = Around(x, replace, y)
<1> DEFINE places == Places(whole, find)
<1>1. /\ Len(x) + 1 \in places
      /\ SubSeq(whole, 1, Len(x)) = x
      /\ SubSeq(whole, Len(x) + 1 + Len(find), Len(whole)) = y
  BY PutTogether DEF Texts
<1>4. Min(places) = Len(x) + 1
  OBVIOUS
<1> HIDE DEF places
<1>5. Len(x) \in Nat
  BY LenProperties DEF Texts
<1>6. Min(places) - 1 = Len(x)
  BY <1>4, <1>5
<1>7. EditFile(whole, find, replace)
        = SubSeq(whole, 1, Min(places) - 1) \o replace \o SubSeq(whole, Min(places) + Len(find), Len(whole))
  BY <1>1, Zenon DEF EditFile, places
<1> QED BY <1>1, <1>4, <1>6, <1>7 DEF Around, Glued

\* So the replacement of lines that was tested is the replacement of text that is done.
LEMMA EditedAsReplayed ==
  ASSUME NEW text \in Texts, NEW diff, diff.old \in Texts, diff.new \in Texts,
         Replay(text, diff) # None
  PROVE  /\ Replay(text, diff) \in Texts
         /\ Min(Places(text, diff.old)) = TestedAt(text, diff) =>
              EditFile(text, diff.old, diff.new) = Replay(text, diff)
<1> DEFINE lines == Split(text)
           old == Split(diff.old)
           new == Split(diff.new)
           places == Places(lines, old)
<1>1. /\ lines \in Lines /\ Text(lines) = text
      /\ old \in Lines /\ old # <<>> /\ Text(old) = diff.old
      /\ new \in Lines /\ new # <<>> /\ Text(new) = diff.new
  BY SplitText
<1>2. places # {} /\ Replay(text, diff) = Text(Replayed(lines, old, Min(places), new))
  BY DEF Replay
<1>7. TestedAt(text, diff) = LET above == SubSeq(lines, 1, Min(places) - 1)
                             IN  IF above = <<>> THEN 1 ELSE Len(Text(above)) + 2
  BY DEF TestedAt
<1> HIDE DEF lines, old, new
<1>3. Min(places) \in places
  <2>1. places \in SUBSET Nat
    <3>1. Len(lines) \in Nat /\ Len(old) \in Nat
      BY <1>1, LenProperties DEF Lines
    <3> QED BY <3>1 DEF Places
  <2> HIDE DEF places
  <2> QED BY <1>2, <2>1, LeastMin
<1>4. PICK x \in Texts, y \in Texts :
        /\ text = Around(x, diff.old, y)
        /\ Replay(text, diff) = Around(x, diff.new, y)
        /\ SubSeq(lines, 1, Min(places) - 1) \in Lines /\ x = Above(SubSeq(lines, 1, Min(places) - 1))
  <2> DEFINE at == Min(places)
  <2>1. at \in Places(lines, old)
    BY <1>3
  <2>2. Replay(text, diff) = Text(Replayed(lines, old, at, new))
    BY <1>2
  <2> HIDE DEF at, places
  <2>3. \E x \in Texts, y \in Texts :
          /\ Text(lines) = Around(x, Text(old), y)
          /\ Text(Replayed(lines, old, at, new)) = Around(x, Text(new), y)
          /\ SubSeq(lines, 1, at - 1) \in Lines /\ x = Above(SubSeq(lines, 1, at - 1))
    BY <1>1, <2>1, TextReplaced
  <2>4. at = Min(places)
    BY DEF at
  <2> QED BY <1>1, <2>2, <2>3, <2>4
<1>5. Around(x, diff.new, y) \in Texts
  BY GluedTexts DEF Around
<1>8. TestedAt(text, diff) = Len(x) + 1
  <2> DEFINE above == SubSeq(lines, 1, Min(places) - 1)
  <2>1. above \in Lines /\ x = Above(above)
    BY <1>4
  <2>2. TestedAt(text, diff) = IF above = <<>> THEN 1 ELSE Len(Text(above)) + 2
    BY <1>7
  <2> HIDE DEF above
  <2>3. CASE above = <<>>
    BY <2>1, <2>2, <2>3, EmptySeq DEF Above
  <2>4. CASE above # <<>>
    <3>1. Text(above) \in Texts /\ NL \in Texts /\ Len(NL) = 1
      BY <2>1, TextIsText, NewlineIsText DEF NL
    <3>2. Len(Glued(Text(above), NL)) = Len(Text(above)) + Len(NL)
      BY <3>1, ConcatProperties DEF Texts, Glued
    <3>3. Len(Text(above)) \in Nat
      BY <3>1, LenProperties DEF Texts
    <3> QED BY <2>1, <2>2, <2>4, <3>1, <3>2, <3>3 DEF Above
  <2> QED BY <2>3, <2>4
<1>6. ASSUME Min(Places(text, diff.old)) = TestedAt(text, diff)
      PROVE  EditFile(text, diff.old, diff.new) = Around(x, diff.new, y)
  BY <1>4, <1>6, <1>8, EditedFirst
<1> QED BY <1>4, <1>5, <1>6

-----------------------------------------------------------------------------
(* What is parsed, tested and carried out *)

Names == STRING \cup {None}
Diffs == [path : Names, old : Texts, new : Texts]
Parsed == [path : Names, old : Lines, new : Lines, hunk : BOOLEAN, diffs : Seq(Diffs), ok : BOOLEAN]

LEMMA NothingParsed == Parsing \in Parsed
<1>1. <<>> \in Lines /\ <<>> \in Seq(Diffs)
  BY EmptySeq DEF Lines
<1> QED BY <1>1 DEF Parsing, Parsed, Names

LEMMA FlushedParsed ==
  ASSUME NEW s \in Parsed
  PROVE  Flushed(s) \in Parsed
<1> DEFINE diff == [path |-> s.path, old |-> Text(s.old), new |-> Text(s.new)]
           diffs == IF s.path # None /\ s.hunk THEN Append(s.diffs, diff) ELSE s.diffs
<1>1. diff \in Diffs /\ s.diffs \in Seq(Diffs)
  BY TextIsText DEF Parsed, Diffs
<1>2. diffs \in Seq(Diffs)
  <2> HIDE DEF diff
  <2> QED BY <1>1, AppendProperties
<1>3. Flushed(s) = [Parsing EXCEPT !.diffs = diffs]
  BY DEF Flushed
<1> HIDE DEF diffs
<1> QED BY <1>2, <1>3, NothingParsed DEF Parsed

LEMMA LineParsed ==
  ASSUME NEW s \in Parsed, NEW line \in DiffLine
  PROVE  ParsedLine(s, line) \in Parsed
<1> DEFINE refused == [s EXCEPT !.ok = FALSE]
<1>0. refused \in Parsed
  BY DEF Parsed
<1>1. CASE ~s.ok
  BY <1>1 DEF ParsedLine
<1>2. CASE s.ok /\ line.kind \in {"---", "+++"}
  <2> DEFINE flushed == IF line.kind = "---" THEN Flushed(s) ELSE s
  <2>1. flushed \in Parsed /\ line.path \in Names
    BY <1>2, FlushedParsed DEF DiffLine, Names
  <2>2. ParsedLine(s, line) = IF line.path = None THEN refused ELSE [flushed EXCEPT !.path = line.path]
    BY <1>2 DEF ParsedLine
  <2> HIDE DEF flushed, refused
  <2>3. [flushed EXCEPT !.path = line.path] \in Parsed
    BY <2>1 DEF Parsed
  <2> QED BY <1>0, <2>2, <2>3
<1>3. CASE s.ok /\ line.kind = "@@"
  <2>1. ParsedLine(s, line) = IF s.path # None /\ line.numbers THEN [s EXCEPT !.hunk = TRUE] ELSE refused
    BY <1>3 DEF ParsedLine
  <2>2. [s EXCEPT !.hunk = TRUE] \in Parsed
    BY DEF Parsed
  <2> QED BY <1>0, <2>1, <2>2
<1>4. CASE s.ok /\ line.kind = "blank"
  <2>1. ParsedLine(s, line) \in {refused, s}
    BY <1>4 DEF ParsedLine
  <2> QED BY <1>0, <2>1
<1>5. CASE s.ok /\ line.kind = "other"
  <2>1. ParsedLine(s, line) = refused
    BY <1>5 DEF ParsedLine
  <2> QED BY <1>0, <2>1
<1>6. CASE s.ok /\ line.kind \notin {"---", "+++", "@@", "blank", "other"}
  <2> DEFINE old == IF line.kind \in {"-", " "} THEN Append(s.old, line.text) ELSE s.old
             new == IF line.kind \in {"+", " "} THEN Append(s.new, line.text) ELSE s.new
  <2>1. ParsedLine(s, line) \in {refused, [s EXCEPT !.old = old, !.new = new]}
    BY <1>6 DEF ParsedLine
  <2>2. line.kind \in {"-", "+", " "} => line.text \in Texts
    BY DEF DiffLine, Texts
  <2>3. s.old \in Lines /\ s.new \in Lines
    BY DEF Parsed
  <2>4. old \in Lines /\ new \in Lines
    BY <2>2, <2>3, AppendProperties DEF Lines
  <2> HIDE DEF old, new, refused
  <2>5. [s EXCEPT !.old = old, !.new = new] \in Parsed
    BY <2>4 DEF Parsed
  <2> QED BY <1>0, <2>1, <2>5
<1> QED BY <1>1, <1>2, <1>3, <1>4, <1>5, <1>6

\* What ParseDiff computes: f[n] is where it is after n lines.
Parses(answer, f) ==
  f = [n \in 0 .. Len(answer) |-> IF n = 0 THEN Parsing ELSE ParsedLine(f[n - 1], answer[n])]

LEMMA ParsesAt ==
  ASSUME NEW answer, NEW f, Parses(answer, f), NEW n \in 0 .. Len(answer)
  PROVE  f[n] = IF n = 0 THEN Parsing ELSE ParsedLine(f[n - 1], answer[n])
BY Zenon DEF Parses

LEMMA ParseDiffParses ==
  ASSUME NEW answer \in Seq(DiffLine)
  PROVE  \E f : /\ Parses(answer, f)
                /\ ParseDiff(answer) =
                     IF f[Len(answer)].ok THEN Flushed(f[Len(answer)]).diffs ELSE <<>>
<1> DEFINE m == Len(answer)
           one == [k \in 1 .. m |-> [s \in Parsed |-> ParsedLine(s, answer[k])]]
           f == CHOOSE f : Parses(answer, f)
<1>1. m \in Nat /\ \A k \in 1 .. m : answer[k] \in DiffLine
  BY LenProperties, ElementOfSeq
<1>2. one \in [1 .. m -> [Parsed -> Parsed]]
  BY <1>1, LineParsed
<1>3. PICK g : Stepwise(g, m, Parsed, Parsing, one)
  <2> HIDE DEF one, m
  <2> QED BY <1>1, <1>2, NothingParsed, StepByStep
<1>4. Parses(answer, g)
  <2>1. \A k \in 1 .. m : g[k] = ParsedLine(g[k - 1], answer[k])
    <3> TAKE k \in 1 .. m
    <3>1. g[k - 1] \in Parsed /\ g[k] = one[k][g[k - 1]]
      <4> HIDE DEF one
      <4> QED BY <1>1, <1>3 DEF Stepwise
    <3> QED BY <3>1
  <2>2. g \in [0 .. m -> Parsed] /\ g[0] = Parsing
    <3> HIDE DEF one
    <3> QED BY <1>3 DEF Stepwise
  <2> DEFINE h == [n \in 0 .. m |-> IF n = 0 THEN Parsing ELSE ParsedLine(g[n - 1], answer[n])]
  <2>3. \A n \in 0 .. m : h[n] = IF n = 0 THEN Parsing ELSE ParsedLine(g[n - 1], answer[n])
    BY Zenon
  <2>4. h = [n \in 0 .. m |-> h[n]]
    OBVIOUS
  <2> HIDE DEF h
  <2>5. \A n \in 0 .. m : h[n] = g[n]
    BY <1>1, <2>1, <2>2, <2>3
  <2>6. h = g
    BY <2>2, <2>4, <2>5
  <2> QED BY <2>6 DEF Parses, h
<1>5. Parses(answer, f)
  <2> HIDE DEF f
  <2>1. \E h : Parses(answer, h)
    BY <1>4
  <2> QED BY <2>1 DEF f
<1>6. ParseDiff(answer) = IF f[m].ok THEN Flushed(f[m]).diffs ELSE <<>>
  BY DEF ParseDiff, Parses
<1> QED BY <1>5, <1>6

\* An answer, whatever it is, is parsed to diffs whose old and new sides are texts.
LEMMA AnswersAreDiffs ==
  ASSUME NEW answer \in Seq(DiffLine)
  PROVE  ParseDiff(answer) \in Seq(Diffs)
<1> DEFINE m == Len(answer)
<1>1. m \in Nat /\ \A k \in 1 .. m : answer[k] \in DiffLine
  BY LenProperties, ElementOfSeq
<1>2. PICK f : /\ Parses(answer, f)
               /\ ParseDiff(answer) = IF f[m].ok THEN Flushed(f[m]).diffs ELSE <<>>
  BY ParseDiffParses
<1> DEFINE bad == {n \in 0 .. m : f[n] \notin Parsed}
<1>3. bad = {}
  <2> SUFFICES ASSUME bad # {} PROVE FALSE
    OBVIOUS
  <2>0. bad \in SUBSET Nat
    BY <1>1
  <2>1. PICK n \in bad : \A k \in bad : n <= k
    <3> HIDE DEF bad
    <3> QED BY <2>0, LeastNat
  <2>2. n \in 0 .. m /\ f[n] \notin Parsed
    BY <2>1
  <2>3. f[n] = IF n = 0 THEN Parsing ELSE ParsedLine(f[n - 1], answer[n])
    BY <1>2, <2>2, ParsesAt
  <2>4. n # 0
    BY <2>2, <2>3, NothingParsed
  <2>5. n - 1 \in 0 .. m /\ n - 1 \notin bad /\ n \in 1 .. m
    <3> HIDE DEF bad
    <3> QED BY <1>1, <2>1, <2>2, <2>4
  <2>6. f[n - 1] \in Parsed
    BY <2>5
  <2> QED BY <1>1, <2>2, <2>3, <2>4, <2>5, <2>6, LineParsed
<1>4. f[m] \in Parsed
  BY <1>1, <1>3
<1>5. Flushed(f[m]) \in Parsed /\ <<>> \in Seq(Diffs)
  BY <1>4, FlushedParsed, EmptySeq
<1> QED BY <1>2, <1>5 DEF Parsed

LEMMA EditIsText ==
  ASSUME NEW text \in Texts, NEW find \in Texts, NEW replace \in Texts,
         EditFile(text, find, replace) # None
  PROVE  EditFile(text, find, replace) \in Texts
<1> DEFINE places == Places(text, find)
           at == Min(places)
           x == SubSeq(text, 1, at - 1)
           y == SubSeq(text, at + Len(find), Len(text))
<1>1. places # {} /\ EditFile(text, find, replace) = Around(x, replace, y)
  BY DEF EditFile, Around, Glued
<1>2. at \in Places(text, find)
  <2>1. places \in SUBSET Nat
    <3>1. Len(text) \in Nat /\ Len(find) \in Nat
      BY LenProperties DEF Texts
    <3> QED BY <3>1 DEF Places
  <2> HIDE DEF places
  <2>2. Min(places) \in places
    BY <1>1, <2>1, LeastMin
  <2> QED BY <2>2 DEF places
<1> HIDE DEF at
<1>3. x \in Texts /\ y \in Texts
  BY <1>2, Divided DEF Texts
<1> HIDE DEF x, y
<1> QED BY <1>1, <1>3, GluedTexts DEF Around

Edits ==
  [path : {path \in Names : FromRoot(path) \in Files},
   find : Texts, replace : Texts, tested : Texts, drifted : BOOLEAN]

\* What an edit's test made of a text.
Tested(edit, text) ==
  edit.tested # None /\ edit.tested = Replay(text, [old |-> edit.find, new |-> edit.replace])

\* An edit of the repair that waits was tested on the text its file still has, unless
\* the file was written since.
RepairTested ==
  repair # None =>
    /\ repair \in Seq(Edits) /\ repair # <<>>
    /\ \A i \in 1 .. Len(repair) : ~repair[i].drifted => Tested(repair[i], tree[FromRoot(repair[i].path)])

PatchInv == tree \in [Files -> Texts] /\ RepairTested /\ AppliedAsTested

\* What is written to one file leaves the tests of the others as they are.
LEMMA OutdatedEdits ==
  ASSUME NEW edits \in Seq(Edits), NEW file \in Files, NEW text,
         tree \in [Files -> Texts], tree' = [tree EXCEPT ![file] = text],
         \A i \in 1 .. Len(edits) : ~edits[i].drifted => Tested(edits[i], tree[FromRoot(edits[i].path)])
  PROVE  /\ Outdated(edits, file) \in Seq(Edits) /\ Len(Outdated(edits, file)) = Len(edits)
         /\ \A i \in 1 .. Len(edits) :
              ~Outdated(edits, file)[i].drifted =>
                Tested(Outdated(edits, file)[i], tree'[FromRoot(Outdated(edits, file)[i].path)])
<1> DEFINE m == Len(edits)
           new == Outdated(edits, file)
           Marked(edit) == [edit EXCEPT !.drifted = @ \/ FromRoot(edit.path) = file]
<1>1. m \in Nat /\ DOMAIN edits = 1 .. m /\ \A i \in 1 .. m : edits[i] \in Edits
  BY LenProperties, ElementOfSeq
<1>2. new = [i \in 1 .. m |-> Marked(edits[i])]
  BY <1>1 DEF Outdated
<1>3. ASSUME NEW edit \in Edits
      PROVE  /\ Marked(edit) \in Edits /\ Marked(edit).path = edit.path
             /\ Marked(edit).find = edit.find /\ Marked(edit).replace = edit.replace
             /\ Marked(edit).tested = edit.tested
             /\ ~Marked(edit).drifted => ~edit.drifted /\ FromRoot(edit.path) # file
  <2> DEFINE flag == edit.drifted \/ FromRoot(edit.path) = file
  <2>1. Marked(edit) = [edit EXCEPT !.drifted = flag]
    OBVIOUS
  <2>2. flag \in BOOLEAN
    BY DEF Edits
  <2> HIDE DEF Marked, flag
  <2>3. /\ Marked(edit) \in Edits /\ Marked(edit).path = edit.path
        /\ Marked(edit).find = edit.find /\ Marked(edit).replace = edit.replace
        /\ Marked(edit).tested = edit.tested /\ Marked(edit).drifted = flag
    BY <2>1, <2>2 DEF Edits
  <2> QED BY <2>3, Zenon DEF flag
<1> HIDE DEF Marked, new, m
<1>4. /\ new \in Seq(Edits) /\ Len(new) = m
      /\ \A i \in 1 .. m : new[i] = Marked(edits[i])
  <2>1. \A i \in 1 .. m : Marked(edits[i]) \in Edits
    BY <1>1, <1>3
  <2> QED BY <1>1, <1>2, <2>1
<1>5. ASSUME NEW i \in 1 .. m, ~new[i].drifted
      PROVE  Tested(new[i], tree'[FromRoot(new[i].path)])
  <2>1. edits[i] \in Edits /\ new[i] = Marked(edits[i])
    BY <1>1, <1>4
  <2>2. /\ ~edits[i].drifted /\ FromRoot(edits[i].path) # file /\ new[i].path = edits[i].path
        /\ new[i].find = edits[i].find /\ new[i].replace = edits[i].replace
        /\ new[i].tested = edits[i].tested
    BY <1>3, <1>5, <2>1
  <2>3. Tested(edits[i], tree[FromRoot(edits[i].path)])
    BY <1>5, <2>2 DEF m
  <2>4. tree'[FromRoot(edits[i].path)] = tree[FromRoot(edits[i].path)]
    BY <2>1, <2>2 DEF Edits
  <2> QED BY <2>2, <2>3, <2>4 DEF Tested
<1> QED BY <1>4, <1>5 DEF new, m

LEMMA ReflectKeeps ==
  ASSUME PatchInv, NEW answer \in Answers, NEW passed \in BOOLEAN, Reflect(answer, passed)
  PROVE  PatchInv'
<1> DEFINE diffs == ParseDiff(answer)
           m == Len(diffs)
<1>1. tree' = tree /\ enacted' = enacted /\ cwd' = cwd
  BY DEF Reflect
<1>2. repair' = IF Validated(diffs, passed) THEN [i \in DOMAIN diffs |-> Edit(diffs[i])] ELSE None
  BY DEF Reflect
<1>3. tree \in [Files -> Texts] /\ diffs \in Seq(Diffs)
  BY PatchingAssumption, AnswersAreDiffs DEF PatchInv
<1> HIDE DEF diffs
<1>4. m \in Nat /\ DOMAIN diffs = 1 .. m /\ \A i \in 1 .. m : diffs[i] \in Diffs
  BY <1>3, LenProperties, ElementOfSeq
<1>5. RepairTested'
  <2> SUFFICES ASSUME repair' # None PROVE RepairTested'
    BY DEF RepairTested
  <2>1. Validated(diffs, passed) /\ repair' = [i \in 1 .. m |-> Edit(diffs[i])]
    BY <1>2, <1>4
  <2>2. diffs # <<>> /\ \A i \in 1 .. m : /\ FromRoot(diffs[i].path) \in Files
                                         /\ Replay(tree[FromRoot(diffs[i].path)], diffs[i]) # None
    BY <1>3, <1>4, <2>1 DEF Validated, Refused, Applies
  <2>3. ASSUME NEW i \in 1 .. m
        PROVE  Edit(diffs[i]) \in Edits /\ Tested(Edit(diffs[i]), tree[FromRoot(Edit(diffs[i]).path)])
    <3> DEFINE diff == diffs[i]
               text == tree[FromRoot(diff.path)]
    <3>1. diff \in Diffs /\ FromRoot(diff.path) \in Files /\ Replay(text, diff) # None
      BY <1>4, <2>2
    <3> HIDE DEF diff
    <3>2. diff.old \in Texts /\ diff.new \in Texts /\ text \in Texts
      BY <1>3, <3>1 DEF Diffs
    <3>3. Edit(diff) = [path |-> diff.path, find |-> diff.old, replace |-> diff.new,
                        tested |-> Replay(text, diff), drifted |-> FALSE]
      BY DEF Edit
    <3> HIDE DEF text
    <3>4. Replay(text, diff) \in Texts
      BY <3>1, <3>2, EditedAsReplayed
    <3>5. Replay(text, diff) = Replay(text, [old |-> diff.old, new |-> diff.new])
      BY DEF Replay
    <3>6. Edit(diff) \in Edits
      <4>1. diff.path \in Names
        BY <3>1 DEF Diffs
      <4> QED BY <3>1, <3>2, <3>3, <3>4, <4>1 DEF Edits
    <3>7. Tested(Edit(diff), text) /\ Edit(diff).path = diff.path
      BY <3>1, <3>3, <3>5 DEF Tested
    <3> QED BY <3>6, <3>7 DEF diff, text
  <2>4. repair' \in Seq(Edits) /\ Len(repair') = m /\ \A i \in 1 .. m : repair'[i] = Edit(diffs[i])
    BY <1>4, <2>1, <2>3
  <2>5. repair' # <<>>
    BY <1>3, <1>4, <2>2, <2>4, EmptySeq
  <2> QED BY <1>1, <2>3, <2>4, <2>5 DEF RepairTested
<1> QED BY <1>1, <1>3, <1>5 DEF PatchInv, AppliedAsTested, FromHere

LEMMA EnactKeeps ==
  ASSUME PatchInv, Enact
  PROVE  PatchInv'
<1> DEFINE edit == Head(repair)
           file == FromHere(edit.path)
           text == IF file \in Files THEN EditFile(tree[file], edit.find, edit.replace) ELSE None
<1>1. /\ repair # None /\ cwd' = cwd
      /\ enacted' = IF file \in Files THEN [before |-> tree[file], after |-> text, edit |-> edit]
                    ELSE enacted
      /\ tree' = IF text = None THEN tree ELSE [tree EXCEPT ![file] = text]
      /\ repair' = IF text = None \/ Len(repair) = 1 THEN None ELSE Outdated(Tail(repair), file)
  BY DEF Enact
<1>2. /\ tree \in [Files -> Texts] /\ repair \in Seq(Edits) /\ repair # <<>>
      /\ \A i \in 1 .. Len(repair) : ~repair[i].drifted => Tested(repair[i], tree[FromRoot(repair[i].path)])
  BY <1>1 DEF PatchInv, RepairTested
<1>3. /\ edit \in Edits /\ edit = repair[1] /\ 1 \in 1 .. Len(repair)
      /\ Tail(repair) \in Seq(Edits) /\ Len(Tail(repair)) = Len(repair) - 1
      /\ \A i \in 1 .. Len(Tail(repair)) : Tail(repair)[i] = repair[i + 1]
  <2>1. Len(repair) \in Nat \ {0}
    BY <1>2, EmptySeq
  <2> QED BY <1>2, <2>1, HeadTailProperties
<1>4. edit.find \in Texts /\ edit.replace \in Texts /\ (file \in Files => tree[file] \in Texts)
  BY <1>2, <1>3 DEF Edits
<1> HIDE DEF edit
<1>5. ~edit.drifted => Tested(edit, tree[FromRoot(edit.path)])
  BY <1>2, <1>3
<1>6. file = FromHere(edit.path)
  OBVIOUS
<1>9. text # None => file \in Files /\ text = EditFile(tree[file], edit.find, edit.replace)
  OBVIOUS
<1>10. file \in Files => text = EditFile(tree[file], edit.find, edit.replace)
  OBVIOUS
<1> HIDE DEF file, text
<1>11. tree' \in [Files -> Texts]
  BY <1>1, <1>2, <1>4, <1>9, EditIsText
<1>7. RepairTested'
  <2> SUFFICES ASSUME repair' # None PROVE RepairTested'
    BY DEF RepairTested
  <2> DEFINE rest == Tail(repair)
  <2>1. /\ tree' = [tree EXCEPT ![file] = text] /\ Len(repair) # 1 /\ file \in Files
        /\ repair' = Outdated(rest, file)
    BY <1>1, <1>9
  <2>2. rest \in Seq(Edits) /\ Len(rest) \in Nat \ {0}
    BY <1>2, <1>3, <2>1, LenProperties
  <2>3. \A i \in 1 .. Len(rest) : ~rest[i].drifted => Tested(rest[i], tree[FromRoot(rest[i].path)])
    <3>1. \A i \in 1 .. Len(rest) : i + 1 \in 1 .. Len(repair) /\ rest[i] = repair[i + 1]
      BY <1>2, <1>3, LenProperties
    <3> QED BY <1>2, <3>1
  <2> HIDE DEF rest
  <2>4. /\ repair' \in Seq(Edits) /\ Len(repair') = Len(rest)
        /\ \A i \in 1 .. Len(rest) : ~repair'[i].drifted => Tested(repair'[i], tree'[FromRoot(repair'[i].path)])
    BY <1>2, <2>1, <2>2, <2>3, OutdatedEdits
  <2>5. repair' # <<>>
    BY <2>2, <2>4
  <2> QED BY <2>4, <2>5 DEF RepairTested
<1>8. AppliedAsTested'
  <2>1. CASE file \notin Files
    BY <1>1, <2>1 DEF PatchInv, AppliedAsTested, FromHere
  <2>2. CASE file \in Files
    <3> DEFINE diff == [old |-> edit.find, new |-> edit.replace]
               before == tree[file]
    <3>1. ~edit.drifted /\ FromHere(edit.path) = FromRoot(edit.path)
            => Replay(before, diff) = edit.tested
      BY <1>5, <1>6 DEF Tested
    <3>2. /\ before \in Texts /\ text = EditFile(before, diff.old, diff.new)
          /\ diff.old \in Texts /\ diff.new \in Texts
      BY <1>4, <1>10, <2>2
    <3> HIDE DEF diff, before
    <3>3. Replay(before, diff) # None /\ Min(Places(before, diff.old)) = TestedAt(before, diff)
            => text = Replay(before, diff)
      BY <3>2, EditedAsReplayed
    <3>4. enacted' = [before |-> before, after |-> text, edit |-> edit] /\ diff.old = edit.find
      BY <1>1, <2>2 DEF before, diff
    <3>5. \A path : FromHere(path)' = FromHere(path)
      BY <1>1 DEF FromHere
    <3> QED BY <3>1, <3>3, <3>4, <3>5 DEF AppliedAsTested, diff
  <2> QED BY <2>1, <2>2
<1> QED BY <1>7, <1>8, <1>11 DEF PatchInv

LEMMA DriftKeeps ==
  ASSUME PatchInv, NEW file \in Files, NEW text \in Contents, Drift(file, text)
  PROVE  PatchInv'
<1>1. /\ tree' = [tree EXCEPT ![file] = text] /\ enacted' = enacted /\ cwd' = cwd
      /\ repair' = IF repair = None THEN None ELSE Outdated(repair, file)
  BY DEF Drift
<1>2. tree \in [Files -> Texts] /\ text \in Texts
  BY PatchingAssumption DEF PatchInv, Texts
<1>3. RepairTested'
  <2> SUFFICES ASSUME repair' # None PROVE RepairTested'
    BY DEF RepairTested
  <2>1. repair # None /\ repair' = Outdated(repair, file)
    BY <1>1
  <2>2. /\ repair \in Seq(Edits) /\ repair # <<>>
        /\ \A i \in 1 .. Len(repair) : ~repair[i].drifted => Tested(repair[i], tree[FromRoot(repair[i].path)])
    BY <2>1 DEF PatchInv, RepairTested
  <2>3. /\ repair' \in Seq(Edits) /\ Len(repair') = Len(repair)
        /\ \A i \in 1 .. Len(repair) : ~repair'[i].drifted => Tested(repair'[i], tree'[FromRoot(repair'[i].path)])
    BY <1>1, <1>2, <2>1, <2>2, OutdatedEdits
  <2>4. repair' # <<>>
    BY <2>2, <2>3, EmptySeq
  <2> QED BY <2>3, <2>4 DEF RepairTested
<1> QED BY <1>1, <1>2, <1>3 DEF PatchInv, AppliedAsTested, FromHere

\* A repair that is carried out does to the file it finds what its test would do to it, for
\* every answer and every text (model_patch._replay on lines, edit_file's replacement on
\* text), unless the test refuses the text or the old text comes earlier than its lines;
\* and what its test did, if the file is the one that was tested and was not written since.
THEOREM RepairsAreAppliedAsTested == PatchSpec => []AppliedAsTested
<1>1. PatchInit => PatchInv
  BY PatchingAssumption DEF PatchInit, PatchInv, RepairTested, AppliedAsTested, Texts
<1>2. PatchInv /\ [PatchNext]_patchVars => PatchInv'
  <2> SUFFICES ASSUME PatchInv, [PatchNext]_patchVars PROVE PatchInv'
    OBVIOUS
  <2>1. ASSUME NEW answer \in Answers, NEW passed \in BOOLEAN, Reflect(answer, passed) PROVE PatchInv'
    BY <2>1, ReflectKeeps
  <2>2. CASE Enact
    BY <2>2, EnactKeeps
  <2>3. CASE Abandon
    BY <2>3 DEF Abandon, PatchInv, RepairTested, AppliedAsTested, FromHere
  <2>4. ASSUME NEW file \in Files, NEW text \in Contents, Drift(file, text) PROVE PatchInv'
    BY <2>4, DriftKeeps
  <2>5. CASE UNCHANGED patchVars
    BY <2>5 DEF patchVars, PatchInv, RepairTested, AppliedAsTested, FromHere
  <2> QED BY <2>1, <2>2, <2>3, <2>4, <2>5 DEF PatchNext
<1>3. PatchInv => AppliedAsTested
  BY DEF PatchInv
<1> QED BY <1>1, <1>2, <1>3, PTL DEF PatchSpec
=============================================================================
