--------------------------- MODULE JournalQueueProofs ---------------------------
(* Two submissions share an id only if they had one text and overlapped, for any  *)
(* number of clients and any interleaving of what they read and append; and       *)
(* without two at a time the journal under one runner implements TaskQueue:       *)
(* proofs about JournalQueue.                                                     *)
EXTENDS JournalQueue, SequenceTheorems, FiniteSetTheorems, TLAPS

TypeOK ==
  /\ journal \in Seq(Record)
  /\ writing \in [Clients -> Record \cup {NoRecord}]
  /\ clock \in Nat
  /\ given \in [Ids -> Nat]

\* An id is given out when as many lines as its number are there, and twice only for a
\* text that was submitted twice at a time.
GivenBehind ==
  \A i \in Ids : (given[i] > 1 => i[2] \in together) /\ (given[i] # 0 => i[1] <= Len(journal))

\* What a submitter is about to append has an id that is not given out yet, unless its
\* text was submitted twice at a time.
Fresh ==
  \A c \in Submitters :
    writing[c] # NoRecord =>
      /\ writing[c].id[1] <= Len(journal) + 1
      /\ given[writing[c].id] = 0 \/ writing[c].id[2] \in together

\* Two submitters about to append the same text have been noticed.
Noticed ==
  \A c, d \in Submitters :
    /\ c # d /\ writing[c] # NoRecord /\ writing[d] # NoRecord
    /\ writing[c].id[2] = writing[d].id[2]
    => writing[c].id[2] \in together

JInv == TypeOK /\ GivenBehind /\ Fresh /\ Noticed

-----------------------------------------------------------------------------

LEMMA Absent == NoRecord \notin Record
<1>1. "id" \notin DOMAIN NoRecord
  BY DEF NoRecord
<1>2. \A r \in Record : "id" \in DOMAIN r
  BY DEF Record
<1> QED BY <1>1, <1>2

LinesIn(lines, i) == {n \in DOMAIN lines : lines[n].id = i}
LastIn(lines, i) == CHOOSE n \in LinesIn(lines, i) : \A m \in LinesIn(lines, i) : m <= n
IdsIn(lines) == {lines[n].id : n \in DOMAIN lines}

\* The last line of an id is one of its lines, and none comes after it.
LEMMA LatestLine ==
  ASSUME NEW lines \in Seq(Record), NEW i \in IdsIn(lines)
  PROVE  /\ LastIn(lines, i) \in LinesIn(lines, i)
         /\ \A m \in LinesIn(lines, i) : m <= LastIn(lines, i)
<1>1. Len(lines) \in Nat /\ DOMAIN lines = 1 .. Len(lines)
  BY LenProperties
<1>2. LinesIn(lines, i) # {} /\ LinesIn(lines, i) \subseteq 1 .. Len(lines)
  BY <1>1 DEF IdsIn, LinesIn
<1> DEFINE After == {Len(lines) - n : n \in LinesIn(lines, i)}
<1>3. After \subseteq Nat /\ After # {}
  BY <1>1, <1>2
<1>4. PICK x \in After : \A y \in After : <<y, x>> \notin OpToRel(<, Nat)
  <2> HIDE DEF After
  <2> QED BY <1>3, NatLessThanWellFounded, WFMin
<1>5. \A y \in After : ~(y < x)
  BY <1>3, <1>4 DEF OpToRel
<1>6. PICK n \in LinesIn(lines, i) : x = Len(lines) - n
  OBVIOUS
<1>7. \A m \in LinesIn(lines, i) : m <= n
  <2> SUFFICES ASSUME NEW m \in LinesIn(lines, i) PROVE m <= n
    OBVIOUS
  <2>1. ~(Len(lines) - m < Len(lines) - n)
    BY <1>5, <1>6
  <2> QED BY <1>1, <1>2, <2>1
<1> QED BY <1>7 DEF LastIn

LEMMA LastIsLine ==
  ASSUME journal \in Seq(Record), NEW i \in Known
  PROVE  LastLine(i) \in DOMAIN journal /\ Current(i) \in Record /\ Current(i).id = i
<1>1. i \in IdsIn(journal) /\ LastLine(i) = LastIn(journal, i)
  BY DEF Known, IdsIn, LastLine, LinesOf, LastIn, LinesIn
<1>2. LastLine(i) \in LinesIn(journal, i)
  BY <1>1, LatestLine
<1> QED BY <1>2, ElementOfSeq DEF LinesIn, Current

LEMMA InitJInv == Init => JInv
<1> SUFFICES ASSUME Init PROVE JInv
  OBVIOUS
<1>1. TypeOK
  BY EmptySeq DEF Init, TypeOK
<1>2. GivenBehind /\ Fresh /\ Noticed
  BY DEF Init, GivenBehind, Fresh, Noticed, Clients
<1> QED BY <1>1, <1>2 DEF JInv

LEMMA NextJInv == JInv /\ [Next]_vars => JInv'
<1> SUFFICES ASSUME JInv, [Next]_vars PROVE JInv'
  OBVIOUS
<1> USE DEF JInv
<1>0. Len(journal) \in Nat /\ MaxRecords \in Nat /\ NoRecord \notin Record
  BY JournalQueueAssumption, LenProperties, Absent DEF TypeOK
<1>1. ASSUME NEW c \in Submitters, NEW text \in SubmitsText[c], ReadForEnqueue(c, text)
      PROVE  JInv'
  <2> DEFINE new == [id |-> <<Len(journal) + 1, text>>, state |-> "queued", created |-> clock]
  <2>1. text \in Texts /\ c \in Clients
    BY JournalQueueAssumption DEF Clients
  <2>2. /\ UNCHANGED <<journal, given>> /\ clock' = clock + 1
        /\ together' = IF InTheMaking(text) THEN together \cup {text} ELSE together
        /\ writing' = [writing EXCEPT ![c] = new] /\ Len(journal) < MaxRecords
    BY <1>1 DEF ReadForEnqueue, MakeId
  <2>3. new.id \in Ids /\ new.id[1] = Len(journal) + 1 /\ new.id[2] = text
    BY <1>0, <2>1, <2>2 DEF Ids
  <2>4. new \in Record
    BY <2>3 DEF TypeOK, Record, Queue!TaskState
  <2>5. given[new.id] = 0
    BY <1>0, <2>3 DEF GivenBehind, TypeOK
  <2> HIDE DEF new
  <2>6. TypeOK'
    BY <2>1, <2>2, <2>4 DEF TypeOK
  <2>7. GivenBehind'
    BY <2>2 DEF GivenBehind
  <2>8. Fresh'
    BY <1>0, <2>1, <2>2, <2>3, <2>5 DEF Fresh, TypeOK, Clients
  <2>9. Noticed'
    <3> SUFFICES ASSUME NEW d \in Submitters, NEW e \in Submitters, d # e,
                        writing'[d] # NoRecord, writing'[e] # NoRecord,
                        writing'[d].id[2] = writing'[e].id[2]
                 PROVE  writing'[d].id[2] \in together'
      BY DEF Noticed
    <3>1. \A k \in Submitters : k \in Clients /\ writing'[k] = IF k = c THEN new ELSE writing[k]
      BY <2>2 DEF TypeOK, Clients
    <3>2. CASE d # c /\ e # c
      BY <2>2, <3>1, <3>2 DEF Noticed
    <3>3. CASE d = c \/ e = c
      BY <2>2, <2>3, <3>1, <3>3 DEF InTheMaking
    <3> QED BY <3>2, <3>3
  <2> QED BY <2>6, <2>7, <2>8, <2>9
<1>2. ASSUME NEW c \in Runners, NEW i \in Ids, NEW s \in Queue!TaskState, ReadForTransition(c, i, s)
      PROVE  JInv'
  <2>1. c \in Clients /\ c \notin Submitters
    BY JournalQueueAssumption DEF Clients
  <2>2. /\ i \in Known /\ UNCHANGED <<journal, given, clock, together>>
        /\ writing' = [writing EXCEPT ![c] = [Current(i) EXCEPT !.state = s]]
    BY <1>2 DEF ReadForTransition
  <2>3. Current(i) \in Record
    BY <2>2, LastIsLine DEF TypeOK
  <2>4. [Current(i) EXCEPT !.state = s] \in Record
    BY <2>3 DEF Record
  <2>5. TypeOK'
    BY <2>1, <2>2, <2>4 DEF TypeOK
  <2>6. GivenBehind' /\ Fresh' /\ Noticed'
    BY <2>1, <2>2 DEF GivenBehind, Fresh, Noticed, TypeOK, Clients
  <2> QED BY <2>5, <2>6
<1>3. ASSUME NEW c \in Clients, AppendRecord(c)
      PROVE  JInv'
  <2>1. /\ writing[c] \in Record /\ writing[c].id \in Ids
        /\ journal' = Append(journal, writing[c]) /\ UNCHANGED <<clock, together>>
        /\ writing' = [writing EXCEPT ![c] = NoRecord]
        /\ given' = IF c \in Submitters THEN [given EXCEPT ![writing[c].id] = @ + 1] ELSE given
    BY <1>3 DEF AppendRecord, TypeOK, Record
  <2>2. journal' \in Seq(Record) /\ Len(journal') = Len(journal) + 1
    BY <2>1, AppendProperties DEF TypeOK
  <2>3. TypeOK'
    BY <2>1, <2>2 DEF TypeOK
  <2>4. GivenBehind'
    <3>1. \A i \in Ids : i[1] \in Nat
      BY <1>0 DEF Ids
    <3>2. CASE c \in Submitters
      <4>1. /\ writing[c].id[1] <= Len(journal) + 1
            /\ given[writing[c].id] = 0 \/ writing[c].id[2] \in together
        BY <1>0, <2>1, <3>2 DEF Fresh
      <4> QED BY <1>0, <2>1, <2>2, <3>1, <3>2, <4>1 DEF GivenBehind, TypeOK
    <3>3. CASE c \notin Submitters
      BY <1>0, <2>1, <2>2, <3>1, <3>3 DEF GivenBehind, TypeOK
    <3> QED BY <3>2, <3>3
  <2>5. ASSUME NEW d \in Submitters, writing'[d] # NoRecord
        PROVE  d \in Clients /\ d # c /\ writing'[d] = writing[d] /\ writing[d] \in Record
    BY <2>1, <2>5 DEF TypeOK, Clients
  <2>6. Fresh'
    <3> SUFFICES ASSUME NEW d \in Submitters, writing'[d] # NoRecord
                 PROVE  /\ writing'[d].id[1] <= Len(journal') + 1
                        /\ given'[writing'[d].id] = 0 \/ writing'[d].id[2] \in together'
      BY DEF Fresh
    <3>1. /\ writing[d].id[1] <= Len(journal) + 1
          /\ given[writing[d].id] = 0 \/ writing[d].id[2] \in together
          /\ writing[d].id \in Ids /\ writing[d].id[1] \in Nat
      BY <1>0, <2>5 DEF Fresh, Record, Ids
    <3>2. c \in Submitters /\ writing[c].id = writing[d].id => writing[d].id[2] \in together
      BY <1>0, <2>1, <2>5 DEF Noticed
    <3> QED BY <1>0, <2>1, <2>2, <2>5, <3>1, <3>2 DEF TypeOK
  <2>7. Noticed'
    BY <2>1, <2>5 DEF Noticed
  <2> QED BY <2>3, <2>4, <2>6, <2>7
<1>4. CASE UNCHANGED vars
  BY <1>4 DEF vars, TypeOK, GivenBehind, Fresh, Noticed
<1> QED BY <1>1, <1>2, <1>3, <1>4 DEF Next

\* What is in the journal, and what each client is about to append to it.
THEOREM JournalInvariant == Spec => []JInv
BY InitJInv, NextJInv, PTL DEF Spec

\* make_id gives an id twice only to clients that submitted one text at one time, although
\* the number in it is of lines read earlier: the text tells apart what is submitted at
\* the same time, and the number the rest.
THEOREM NoIdTwice == Spec => []OwnTaskEach
<1>1. JInv => OwnTaskEach
  BY DEF JInv, GivenBehind, OwnTaskEach
<1> QED BY <1>1, JournalInvariant, PTL

-----------------------------------------------------------------------------
(* The journal implements TaskQueue. *)

\* At most one client moves tasks.
OneRunner == \A c, d \in Runners : c = d

\* One line more: its id is known now, and nothing else looks different.
LEMMA OneLineMore ==
  ASSUME NEW lines \in Seq(Record), NEW rec \in Record
  PROVE  LET more == Append(lines, rec) IN
         /\ IdsIn(more) = IdsIn(lines) \cup {rec.id}
         /\ more[LastIn(more, rec.id)] = rec
         /\ \A i \in IdsIn(lines) : i # rec.id => more[LastIn(more, i)] = lines[LastIn(lines, i)]
<1> DEFINE more == Append(lines, rec)
<1>1. /\ Len(lines) \in Nat /\ DOMAIN lines = 1 .. Len(lines)
      /\ more \in Seq(Record) /\ Len(more) = Len(lines) + 1 /\ DOMAIN more = 1 .. Len(more)
      /\ \A n \in 1 .. Len(lines) : more[n] = lines[n]
      /\ more[Len(lines) + 1] = rec
  BY LenProperties, AppendProperties
<1> HIDE DEF more
<1>2. IdsIn(more) = IdsIn(lines) \cup {rec.id}
  BY <1>1 DEF IdsIn
<1>3. more[LastIn(more, rec.id)] = rec
  <2>1. Len(lines) + 1 \in LinesIn(more, rec.id) /\ rec.id \in IdsIn(more)
    BY <1>1, <1>2 DEF LinesIn
  <2>2. LastIn(more, rec.id) \in LinesIn(more, rec.id) /\ LastIn(more, rec.id) >= Len(lines) + 1
    BY <1>1, <2>1, LatestLine
  <2>3. LastIn(more, rec.id) = Len(lines) + 1
    BY <1>1, <2>2 DEF LinesIn
  <2> QED BY <1>1, <2>3
<1>4. ASSUME NEW i \in IdsIn(lines), i # rec.id
      PROVE  more[LastIn(more, i)] = lines[LastIn(lines, i)]
  <2>1. LinesIn(more, i) = LinesIn(lines, i)
    BY <1>1, <1>4 DEF LinesIn
  <2>2. LastIn(more, i) = LastIn(lines, i)
    BY <2>1 DEF LastIn
  <2>3. LastIn(lines, i) \in DOMAIN lines
    BY LatestLine DEF LinesIn
  <2> QED BY <1>1, <2>2, <2>3
<1> QED BY <1>2, <1>3, <1>4 DEF more

LEMMA AfterAppend ==
  ASSUME journal \in Seq(Record), NEW rec \in Record, journal' = Append(journal, rec)
  PROVE  /\ Known' = Known \cup {rec.id}
         /\ Current(rec.id)' = rec
         /\ \A i \in Known : i # rec.id => Current(i)' = Current(i)
<1>1. /\ Known = IdsIn(journal) /\ Known' = IdsIn(journal')
      /\ \A i : Current(i) = journal[LastIn(journal, i)]
      /\ \A i : Current(i)' = journal'[LastIn(journal', i)]
  BY DEF Known, IdsIn, Current, LastLine, LinesOf, LastIn, LinesIn
<1> QED BY <1>1, OneLineMore

LEMMA KnownFinite ==
  ASSUME journal \in Seq(Record)
  PROVE  /\ IsFiniteSet(Known) /\ Cardinality(Known) \in Nat
         /\ \A i \in Known : IsFiniteSet(Older(i)) /\ Cardinality(Older(i)) \in Nat
<1>1. Len(journal) \in Nat /\ DOMAIN journal = 1 .. Len(journal)
  BY LenProperties
<1> DEFINE f == [n \in 1 .. Len(journal) |-> journal[n].id]
<1>2. f \in Surjection(1 .. Len(journal), Known)
  BY <1>1 DEF Known, Surjection
<1>3. IsFiniteSet(1 .. Len(journal))
  BY <1>1, FS_Interval
<1>4. IsFiniteSet(Known)
  BY <1>2, <1>3, FS_Surjection
<1>5. \A i : Older(i) \subseteq Known
  BY DEF Older
<1> QED BY <1>4, <1>5, FS_Subset, FS_CardinalityType

LEMMA FunctionIsSeq ==
  ASSUME NEW n, n \in Nat, NEW f, f = [k \in 1 .. n |-> f[k]]
  PROVE  f \in Seq({f[k] : k \in 1 .. n}) /\ Len(f) = n
OBVIOUS

LEMMA AppendedFunction ==
  ASSUME NEW n, n \in Nat, NEW f, f = [k \in 1 .. n |-> f[k]], NEW e
  PROVE  Append(f, e) = [k \in 1 .. n + 1 |-> IF k <= n THEN f[k] ELSE e]
<1> DEFINE S == {f[k] : k \in 1 .. n} \cup {e}
           g == Append(f, e)
<1>1. f \in Seq(S) /\ Len(f) = n /\ e \in S
  OBVIOUS
<1> HIDE DEF S
<1>2. /\ g \in Seq(S) /\ Len(g) = n + 1
      /\ \A k \in 1 .. n : g[k] = f[k]
      /\ g[n + 1] = e
  BY <1>1, AppendProperties
<1>3. g = [k \in 1 .. n + 1 |-> g[k]]
  <2> HIDE DEF g
  <2> QED BY <1>2
<1> HIDE DEF g
<1>4. \A k \in 1 .. n + 1 : g[k] = IF k <= n THEN f[k] ELSE e
  BY <1>2
<1>5. g = [k \in 1 .. n + 1 |-> IF k <= n THEN f[k] ELSE e]
  BY <1>3, <1>4
<1> QED BY <1>5 DEF g

\* The k-th by age.
AgeRank(k) == {j \in Known : Cardinality(Older(j)) = k - 1}

LEMMA ByAgeRanks == ByAge = [k \in 1 .. Cardinality(Known) |-> CHOOSE i \in AgeRank(k) : TRUE]
BY DEF ByAge, AgeRank

\* A task submitted after all others is the youngest.
LEMMA YoungestLast ==
  ASSUME journal \in Seq(Record), journal' \in Seq(Record), NEW new, new \notin Known,
         Known' = Known \cup {new},
         \A i \in Known : Current(i)' = Current(i),
         \A i \in Known : Current(i).created \in Nat /\ Current(i).created < Current(new)'.created,
         Current(new)'.created \in Nat
  PROVE  ByAge' = Append(ByAge, new)
<1> DEFINE n == Cardinality(Known)
<1>1. /\ IsFiniteSet(Known) /\ n \in Nat /\ Cardinality(Known') = n + 1
      /\ \A i \in Known : IsFiniteSet(Older(i)) /\ Cardinality(Older(i)) \in Nat
  BY KnownFinite, FS_AddElement
<1>2. \A i \in Known : Older(i)' = Older(i)
  BY DEF Older
<1>3. Older(new)' = Known
  BY DEF Older
<1>4. \A i \in Known : Cardinality(Older(i)) < n
  <2> SUFFICES ASSUME NEW i \in Known PROVE Cardinality(Older(i)) < n
    OBVIOUS
  <2>1. Older(i) \subseteq Known /\ i \notin Older(i)
    BY DEF Older
  <2>2. Cardinality(Older(i)) <= n /\ (n = Cardinality(Older(i)) => Known = Older(i))
    BY <1>1, <2>1, FS_Subset
  <2> QED BY <1>1, <2>1, <2>2
<1>5. \A k \in 1 .. n : AgeRank(k)' = AgeRank(k)
  BY <1>1, <1>2, <1>3 DEF AgeRank
<1>6. ASSUME NEW k, k = n + 1
      PROVE  AgeRank(k)' = {new}
  <2>1. \A i \in Known : Cardinality(Older(i))' # k - 1
    BY <1>1, <1>2, <1>4, <1>6
  <2>2. Cardinality(Older(new))' = k - 1
    BY <1>1, <1>3, <1>6
  <2>3. AgeRank(k)' = {j \in Known' : Cardinality(Older(j))' = k - 1}
    BY DEF AgeRank
  <2> QED BY <2>1, <2>2, <2>3
<1> DEFINE oldest == [k \in 1 .. n |-> CHOOSE i \in AgeRank(k) : TRUE]
<1>7. ByAge = oldest /\ ByAge' = [k \in 1 .. n + 1 |-> CHOOSE i \in AgeRank(k)' : TRUE]
  BY <1>1 DEF ByAge, AgeRank
<1>8. (CHOOSE i \in {new} : TRUE) = new
  OBVIOUS
<1>9. ByAge' = [k \in 1 .. n + 1 |-> IF k <= n THEN oldest[k] ELSE new]
  <2> SUFFICES ASSUME NEW k \in 1 .. n + 1
               PROVE  (CHOOSE i \in AgeRank(k)' : TRUE) = IF k <= n THEN oldest[k] ELSE new
    BY <1>7
  <2>1. CASE k <= n
    <3>1. k \in 1 .. n
      BY <1>1, <2>1
    <3> QED BY <1>5, <2>1, <3>1
  <2>2. CASE k = n + 1
    BY <1>1, <1>6, <1>8, <2>2
  <2> QED BY <1>1, <2>1, <2>2
<1>10. Append(oldest, new) = [k \in 1 .. n + 1 |-> IF k <= n THEN oldest[k] ELSE new]
  BY <1>1, AppendedFunction
<1> QED BY <1>7, <1>9, <1>10

Pending(c) == writing[c] # NoRecord

\* Lines are numbered and dated behind what is to come.
Dated ==
  /\ \A n \in DOMAIN journal : journal[n].id[1] <= Len(journal) /\ journal[n].created < clock
  /\ \A c \in Clients : Pending(c) => writing[c].created < clock
  /\ \A c \in Clients : Pending(c) => writing[c].id[1] <= Len(journal) + 1

\* What a submitter is about to append is a task that is not there yet, and younger than
\* all that are.
Making(c) ==
  Pending(c) =>
    /\ writing[c].state = "queued" /\ writing[c].id \notin Known
    /\ \A n \in DOMAIN journal : journal[n].created < writing[c].created

\* What a runner is about to append is a move the table allows in the task's present state.
Moving(c) ==
  Pending(c) =>
    LET now == Current(writing[c].id)
    IN  /\ writing[c].id \in Known /\ writing[c].created = now.created
        /\ writing[c].state \in Queue!Allowed(now.state)

\* Nobody's reading is stale until submissions overlap.
Undisturbed ==
  ~overlap =>
    /\ \A c, d \in Submitters : Pending(c) /\ Pending(d) => c = d
    /\ \A c \in Submitters : Making(c)
    /\ \A c \in Runners : Moving(c)

RInv == TypeOK /\ Dated /\ Undisturbed

LEMMA KnownLines ==
  ASSUME journal \in Seq(Record)
  PROVE  /\ Known \subseteq Ids
         /\ \A i \in Known : \E n \in DOMAIN journal : Current(i) = journal[n] /\ Current(i) \in Record
<1>1. \A i \in Known : LastLine(i) \in DOMAIN journal /\ Current(i) \in Record /\ Current(i).id = i
  BY LastIsLine
<1>2. \A r \in Record : r.id \in Ids
  BY DEF Record
<1> QED BY <1>1, <1>2 DEF Current

LEMMA InitRInv == Init => RInv
<1> SUFFICES ASSUME Init PROVE RInv
  OBVIOUS
<1>1. TypeOK
  BY EmptySeq DEF Init, TypeOK
<1>2. Dated /\ Undisturbed
  BY DEF Init, Dated, Undisturbed, Making, Moving, Pending, Clients
<1> QED BY <1>1, <1>2 DEF RInv

LEMMA EnqueueReadRInv ==
  ASSUME RInv, NEW c \in Submitters, NEW text \in SubmitsText[c], ReadForEnqueue(c, text)
  PROVE  RInv'
<1> DEFINE new == [id |-> <<Len(journal) + 1, text>>, state |-> "queued", created |-> clock]
<1>0. /\ Len(journal) \in Nat /\ MaxRecords \in Nat /\ NoRecord \notin Record
      /\ text \in Texts /\ c \in Clients /\ c \notin Runners /\ DOMAIN journal = 1 .. Len(journal)
      /\ \A n \in DOMAIN journal : journal[n] \in Record
  BY JournalQueueAssumption, LenProperties, Absent, ElementOfSeq DEF RInv, TypeOK, Clients
<1>1. /\ UNCHANGED <<journal, given>> /\ clock' = clock + 1
      /\ writing' = [writing EXCEPT ![c] = new] /\ Len(journal) < MaxRecords
      /\ overlap' = (overlap \/ \E d \in Submitters : Pending(d))
  BY DEF ReadForEnqueue, MakeId, Pending
<1>2. /\ new \in Record /\ new.id[1] = Len(journal) + 1 /\ new.state = "queued"
      /\ new.created = clock /\ new # NoRecord
  BY <1>0, <1>1 DEF RInv, TypeOK, Record, Queue!TaskState, Ids
<1> HIDE DEF new
<1>3. TypeOK'
  BY <1>0, <1>1, <1>2 DEF RInv, TypeOK
<1>4. /\ Known' = Known /\ \A i : Current(i)' = Current(i)
  BY <1>1 DEF Known, Current, LastLine, LinesOf
<1>5. /\ writing'[c] = new
      /\ \A d \in Clients : d # c => writing'[d] = writing[d]
  BY <1>0, <1>1 DEF RInv, TypeOK
<1>6. Dated'
  <2>1. clock \in Nat /\ \A n \in DOMAIN journal : journal[n].created \in Nat
    BY <1>0 DEF RInv, TypeOK, Record
  <2>2. \A d \in Clients : Pending(d) => writing[d].created \in Nat
    BY DEF RInv, TypeOK, Pending, Record
  <2>3. \A n \in DOMAIN journal' : journal'[n].id[1] <= Len(journal') /\ journal'[n].created < clock'
    BY <1>1, <2>1 DEF RInv, Dated
  <2>4. \A d \in Clients : Pending(d)' => writing'[d].created < clock'
    BY <1>1, <1>2, <1>5, <2>1, <2>2 DEF RInv, Dated, Pending
  <2>5. \A d \in Clients : Pending(d)' => writing'[d].id[1] <= Len(journal') + 1
    BY <1>0, <1>1, <1>2, <1>5 DEF RInv, Dated, Pending, Clients
  <2> QED BY <2>3, <2>4, <2>5 DEF Dated
<1>7. Undisturbed'
  <2> SUFFICES ASSUME ~overlap'
               PROVE  /\ \A a, d \in Submitters : Pending(a)' /\ Pending(d)' => a = d
                      /\ \A d \in Submitters : Making(d)'
                      /\ \A d \in Runners : Moving(d)'
    BY DEF Undisturbed
  <2>1. ~overlap /\ \A d \in Submitters : ~Pending(d)
    BY <1>1
  <2>2. \A d \in Submitters : Pending(d)' => d = c
    BY <1>5, <2>1 DEF Pending, Clients
  <2>3. new.id \notin Known
    <3>1. \A n \in DOMAIN journal : journal[n].id[1] <= Len(journal)
      BY DEF RInv, Dated
    <3> QED BY <1>0, <1>2, <3>1 DEF Known
  <2>4. \A n \in DOMAIN journal : journal[n].created < clock
    BY DEF RInv, Dated
  <2>5. \A d \in Submitters : Making(d)'
    BY <1>1, <1>2, <1>4, <1>5, <2>2, <2>3, <2>4 DEF Making
  <2>6. ASSUME NEW d \in Runners PROVE Moving(d)'
    <3>1. d \in Clients /\ d # c /\ Moving(d)
      BY <1>0, <2>1 DEF Clients, RInv, Undisturbed
    <3>2. writing'[d] = writing[d]
      BY <1>5, <3>1
    <3> QED BY <1>4, <3>1, <3>2 DEF Moving, Pending, Queue!Allowed
  <2> QED BY <2>2, <2>5, <2>6
<1> QED BY <1>3, <1>6, <1>7 DEF RInv

LEMMA TransitionReadRInv ==
  ASSUME OneRunner, RInv, NEW c \in Runners, NEW i \in Ids, NEW s \in Queue!TaskState,
         ReadForTransition(c, i, s)
  PROVE  RInv'
<1> DEFINE new == [Current(i) EXCEPT !.state = s]
<1>0. /\ NoRecord \notin Record /\ c \in Clients /\ c \notin Submitters
      /\ \A n \in DOMAIN journal : journal[n].id[1] <= Len(journal) /\ journal[n].created < clock
      /\ Len(journal) \in Nat /\ \A j \in Ids : j[1] \in Nat
  BY JournalQueueAssumption, Absent, LenProperties DEF RInv, TypeOK, Dated, Clients, Ids
<1>1. /\ UNCHANGED <<journal, clock, given, overlap>> /\ i \in Known
      /\ writing' = [writing EXCEPT ![c] = new] /\ s \in Queue!Allowed(Current(i).state)
  BY DEF ReadForTransition
<1>2. /\ Current(i) \in Record /\ Current(i).id = i
      /\ i[1] <= Len(journal) + 1 /\ Current(i).created < clock
  BY <1>0, <1>1, LastIsLine DEF RInv, TypeOK, Current
<1>3. /\ new \in Record /\ new.id = i /\ new.created = Current(i).created
      /\ new.state = s /\ new # NoRecord
  BY <1>0, <1>2 DEF Record
<1> HIDE DEF new
<1>4. /\ Known' = Known /\ \A j : Current(j)' = Current(j)
  BY <1>1 DEF Known, Current, LastLine, LinesOf
<1>5. /\ writing'[c] = new
      /\ \A d \in Clients : d # c => writing'[d] = writing[d]
  BY <1>0, <1>1 DEF RInv, TypeOK
<1>6. TypeOK'
  BY <1>0, <1>1, <1>3 DEF RInv, TypeOK
<1>7. Dated'
  BY <1>0, <1>1, <1>2, <1>3, <1>5 DEF RInv, Dated, Pending, Clients
<1>8. Undisturbed'
  <2> SUFFICES ASSUME ~overlap
               PROVE  /\ \A a, d \in Submitters : Pending(a)' /\ Pending(d)' => a = d
                      /\ \A d \in Submitters : Making(d)'
                      /\ \A d \in Runners : Moving(d)'
    BY <1>1 DEF Undisturbed
  <2>1. \A d \in Submitters : d \in Clients /\ writing'[d] = writing[d]
    BY <1>0, <1>5 DEF Clients
  <2>2. \A a, d \in Submitters : Pending(a)' /\ Pending(d)' => a = d
    BY <2>1 DEF RInv, Undisturbed, Pending
  <2>3. \A d \in Submitters : Making(d)'
    BY <1>1, <1>4, <2>1 DEF RInv, Undisturbed, Making, Pending
  <2>4. \A d \in Runners : d = c
    BY DEF OneRunner
  <2>5. Moving(c)'
    BY <1>1, <1>3, <1>4, <1>5 DEF Moving, Queue!Allowed
  <2> QED BY <2>2, <2>3, <2>4, <2>5
<1> QED BY <1>6, <1>7, <1>8 DEF RInv

LEMMA AppendRInv ==
  ASSUME OneRunner, RInv, NEW c \in Clients, AppendRecord(c)
  PROVE  RInv'
<1> DEFINE new == writing[c]
<1>0. /\ Len(journal) \in Nat /\ NoRecord \notin Record /\ DOMAIN journal = 1 .. Len(journal)
  BY LenProperties, Absent DEF RInv, TypeOK
<1>1. /\ new \in Record /\ new.id \in Ids /\ Pending(c)
      /\ journal' = Append(journal, new) /\ UNCHANGED <<clock, overlap>>
      /\ writing' = [writing EXCEPT ![c] = NoRecord]
      /\ given' = IF c \in Submitters THEN [given EXCEPT ![new.id] = @ + 1] ELSE given
  BY DEF AppendRecord, RInv, TypeOK, Record, Pending
<1>2. /\ journal' \in Seq(Record) /\ Len(journal') = Len(journal) + 1
      /\ DOMAIN journal' = 1 .. Len(journal) + 1
      /\ \A n \in DOMAIN journal : journal'[n] = journal[n]
      /\ journal'[Len(journal) + 1] = new
  BY <1>0, <1>1, AppendProperties, LenProperties DEF RInv, TypeOK
<1>3. TypeOK'
  BY <1>1, <1>2 DEF RInv, TypeOK
<1>4. /\ ~Pending(c)'
      /\ \A d \in Clients : d # c => writing'[d] = writing[d] /\ (Pending(d)' <=> Pending(d))
  BY <1>1 DEF RInv, TypeOK, Pending
<1>5. /\ Known' = Known \cup {new.id}
      /\ \A i : i = new.id => Current(i)' = new
      /\ \A i \in Known : i # new.id => Current(i)' = Current(i)
  BY <1>1, AfterAppend DEF RInv, TypeOK
<1>6. Dated'
  <2>1. /\ \A i \in Ids : i[1] \in Int
        /\ \A n \in DOMAIN journal : journal[n].id \in Ids
        /\ \A d \in Clients : Pending(d) => writing[d].id \in Ids
    <3>1. \A n \in DOMAIN journal : journal[n] \in Record
      BY <1>0, ElementOfSeq DEF RInv, TypeOK
    <3> QED BY <3>1 DEF RInv, TypeOK, Pending, Record, Ids
  <2>2. \A n \in DOMAIN journal' : n \in DOMAIN journal \/ n = Len(journal) + 1
    BY <1>0, <1>2
  <2>3. \A n \in DOMAIN journal' : journal'[n].id[1] <= Len(journal') /\ journal'[n].created < clock'
    BY <1>0, <1>1, <1>2, <2>1, <2>2 DEF RInv, Dated
  <2>4. \A d \in Clients : Pending(d)' => /\ writing'[d].created < clock'
                                       /\ writing'[d].id[1] <= Len(journal') + 1
    BY <1>0, <1>1, <1>2, <1>4, <2>1 DEF RInv, Dated
  <2> QED BY <2>3, <2>4 DEF Dated
<1>7. Undisturbed'
  <2> SUFFICES ASSUME ~overlap
               PROVE  /\ \A a, d \in Submitters : Pending(a)' /\ Pending(d)' => a = d
                      /\ \A d \in Submitters : Making(d)'
                      /\ \A d \in Runners : Moving(d)'
    BY <1>1 DEF Undisturbed
  <2>1. \A a, d \in Submitters : Pending(a)' /\ Pending(d)' => a = d
    BY <1>4 DEF RInv, Undisturbed, Clients
  <2>2. ASSUME NEW d \in Submitters, Pending(d)' PROVE Making(d)'
    <3>1. d # c /\ Pending(d) /\ writing'[d] = writing[d] /\ Making(d) /\ c \in Runners /\ Moving(c)
      BY <1>1, <1>4, <2>2 DEF RInv, Undisturbed, Clients
    <3>2. PICK k \in DOMAIN journal : Current(new.id) = journal[k]
      BY <1>1, <3>1, KnownLines DEF RInv, TypeOK, Moving
    <3>3. new.id \in Known /\ new.created = journal[k].created
      BY <1>1, <3>1, <3>2 DEF Moving
    <3>4. Known' = Known
      BY <1>5, <3>3
    <3>5. \A n \in DOMAIN journal' : journal'[n].created < writing[d].created
      BY <1>0, <1>2, <3>1, <3>3 DEF Making
    <3> QED BY <3>1, <3>4, <3>5 DEF Making
  <2>3. ASSUME NEW d \in Runners, Pending(d)' PROVE Moving(d)'
    <3>1. d # c /\ Pending(d) /\ writing'[d] = writing[d] /\ Moving(d) /\ c \in Submitters /\ Making(c)
      BY <1>1, <1>4, <2>3 DEF RInv, Undisturbed, Clients, OneRunner
    <3> QED BY <1>1, <1>5, <3>1 DEF Making, Moving, Queue!Allowed
  <2>4. (\A d \in Submitters : Making(d)') /\ (\A d \in Runners : Moving(d)')
    BY <2>2, <2>3 DEF Making, Moving
  <2> QED BY <2>1, <2>4
<1> QED BY <1>3, <1>6, <1>7 DEF RInv

LEMMA NextRInv == ASSUME OneRunner PROVE RInv /\ [Next]_vars => RInv'
<1> SUFFICES ASSUME RInv, [Next]_vars PROVE RInv'
  OBVIOUS
<1>1. CASE UNCHANGED vars
  <2>1. UNCHANGED <<journal, writing, clock, given, overlap>>
    BY <1>1 DEF vars
  <2>2. /\ Known' = Known /\ \A i : Current(i)' = Current(i)
        /\ \A c : Pending(c)' <=> Pending(c)
    BY <2>1 DEF Known, Current, LastLine, LinesOf, Pending
  <2>3. TypeOK' /\ Dated'
    BY <2>1, <2>2 DEF RInv, TypeOK, Dated
  <2>4. (\A c : Making(c)' <=> Making(c)) /\ (\A c : Moving(c)' <=> Moving(c))
    BY <2>1, <2>2 DEF Making, Moving, Queue!Allowed
  <2> QED BY <2>1, <2>2, <2>3, <2>4 DEF RInv, Undisturbed
<1> QED BY <1>1, EnqueueReadRInv, TransitionReadRInv, AppendRInv DEF Next

\* A step that leaves the journal alone is not seen.
LEMMA Unseen ==
  ASSUME journal' = journal
  PROVE  StateSeen' = StateSeen /\ ByAge' = ByAge
BY DEF StateSeen, ByAge, Older, Known, Current, LastLine, LinesOf

\* A submitter's append is an Enqueue.
LEMMA EnqueueSeen ==
  ASSUME RInv, ~overlap, NEW c \in Submitters, AppendRecord(c)
  PROVE  Queue!Enqueue(writing[c].id)
<1> DEFINE new == writing[c]
<1>0. c \in Clients /\ journal \in Seq(Record)
  BY DEF Clients, RInv, TypeOK
<1>1. /\ new \in Record /\ new.id \in Ids /\ Pending(c) /\ journal' = Append(journal, new)
  BY <1>0 DEF AppendRecord, RInv, TypeOK, Record, Pending
<1>2. /\ new.state = "queued" /\ new.id \notin Known
      /\ \A n \in DOMAIN journal : journal[n].created < new.created
  BY <1>1 DEF RInv, Undisturbed, Making
<1>3. PICK t \in Ids : t = new.id
  BY <1>1
<1>4. /\ Known' = Known \cup {t} /\ Current(t)' = new
      /\ \A i \in Known : Current(i)' = Current(i)
  BY <1>0, <1>1, <1>2, <1>3, AfterAppend
<1>5. journal' \in Seq(Record) /\ Known \subseteq Ids
  BY <1>0, <1>1, AppendProperties, KnownLines
<1>6. /\ \A i \in Known : Current(i).created \in Nat /\ Current(i).created < new.created
      /\ new.created \in Nat
  BY <1>0, <1>1, <1>2, KnownLines DEF Record
<1>7. ByAge' = Append(ByAge, t)
  BY <1>0, <1>2, <1>3, <1>4, <1>5, <1>6, YoungestLast
<1>8. StateSeen[t] = "absent" /\ StateSeen' = [StateSeen EXCEPT ![t] = "queued"]
  BY <1>2, <1>3, <1>4, <1>5 DEF StateSeen
<1> QED BY <1>3, <1>7, <1>8 DEF Queue!Enqueue

\* The runner's append is a Transition.
LEMMA TransitionSeen ==
  ASSUME RInv, ~overlap, NEW c \in Runners, AppendRecord(c)
  PROVE  /\ writing[c].id \in Ids /\ writing[c].state \in Queue!TaskState
         /\ Queue!Transition(writing[c].id, writing[c].state)
<1> DEFINE new == writing[c]
<1>0. c \in Clients /\ journal \in Seq(Record)
  BY DEF Clients, RInv, TypeOK
<1>1. /\ new \in Record /\ new.id \in Ids /\ new.state \in Queue!TaskState
      /\ Pending(c) /\ journal' = Append(journal, new)
  BY <1>0 DEF AppendRecord, RInv, TypeOK, Record, Pending
<1>2. /\ new.id \in Known /\ new.created = Current(new.id).created
      /\ new.state \in Queue!Allowed(Current(new.id).state)
  BY <1>1 DEF RInv, Undisturbed, Moving
<1>3. PICK t \in Ids : t = new.id
  BY <1>1
<1>4. /\ Known' = Known /\ Current(t)' = new
      /\ \A i \in Known : i # t => Current(i)' = Current(i)
  <2>1. /\ Known' = Known \cup {t} /\ Current(t)' = new
        /\ \A i \in Known : i # t => Current(i)' = Current(i)
    BY <1>0, <1>1, <1>3, AfterAppend
  <2> QED BY <1>2, <1>3, <2>1
<1>5. \A i \in Known : Current(i)'.created = Current(i).created
  BY <1>2, <1>3, <1>4
<1>6. \A i \in Known : Older(i)' = Older(i)
  BY <1>4, <1>5 DEF Older
<1>7. ByAge' = ByAge
  <2>1. \A k : AgeRank(k)' = AgeRank(k)
    BY <1>4, <1>6 DEF AgeRank
  <2>2. ByAge' = [k \in 1 .. Cardinality(Known') |-> CHOOSE i \in AgeRank(k)' : TRUE]
    BY DEF ByAge, AgeRank
  <2> QED BY <1>4, <2>1, <2>2, ByAgeRanks
<1>8. new.state \in Queue!Allowed(StateSeen[t]) /\ StateSeen' = [StateSeen EXCEPT ![t] = new.state]
  BY <1>2, <1>3, <1>4 DEF StateSeen
<1> QED BY <1>1, <1>3, <1>7, <1>8 DEF Queue!Transition

\* One runner's moves and submissions that do not overlap look to every client like
\* operations of TaskQueue that happen at once: the move is legal when it takes effect, a
\* new task is the youngest, and nothing else changes, whatever was read before and
\* appended later (enqueue, transition, pending over JsonlStore without a lock).
THEOREM JournalIsQueue ==
  ASSUME OneRunner
  PROVE  Spec => ImplementsTaskQueue
<1>1. Init => Queue!QueueInit
  <2> SUFFICES ASSUME Init PROVE Queue!QueueInit
    OBVIOUS
  <2>1. Known = {}
    BY DEF Init, Known
  <2>2. Cardinality(Known) = 0
    BY <2>1, FS_EmptySet
  <2>3. ByAge = << >>
    BY <2>2 DEF ByAge
  <2>4. StateSeen = [i \in Ids |-> "absent"]
    BY <2>1 DEF StateSeen
  <2> QED BY <2>3, <2>4 DEF Queue!QueueInit
<1>2. RInv /\ [Next]_vars => [overlap \/ Queue!QueueNext]_(Queue!queueVars)
  <2> SUFFICES ASSUME RInv, [Next]_vars, ~overlap
               PROVE  Queue!QueueNext \/ UNCHANGED Queue!queueVars
    OBVIOUS
  <2>1. CASE journal' = journal
    BY <2>1, Unseen DEF Queue!queueVars
  <2>2. ASSUME NEW c \in Submitters, AppendRecord(c)
        PROVE  Queue!QueueNext
    <3>1. writing[c].id \in Ids
      BY <2>2 DEF AppendRecord, RInv, TypeOK, Record, Clients
    <3> QED BY <2>2, <3>1, EnqueueSeen DEF Queue!QueueNext
  <2>3. ASSUME NEW c \in Runners, AppendRecord(c)
        PROVE  Queue!QueueNext
    BY <2>3, TransitionSeen DEF Queue!QueueNext
  <2>4. journal' = journal \/ \E c \in Clients : AppendRecord(c)
    BY DEF Next, vars, ReadForEnqueue, ReadForTransition
  <2> QED BY <2>1, <2>2, <2>3, <2>4 DEF Clients
<1> QED BY <1>1, <1>2, InitRInv, NextRInv, PTL DEF Spec, ImplementsTaskQueue

===============================================================================
