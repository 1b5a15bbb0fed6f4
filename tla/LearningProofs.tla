---------------------------- MODULE LearningProofs ----------------------------
(* What an accepted keyword can and cannot do, for any suite, any keywords and    *)
(* any number of threads, reverts and restarts: proofs about Learning.            *)
EXTENDS Learning, SequenceTheorems, FiniteSetTheorems,
        WellFoundedInduction, TLAPS

CallRecord ==
  [step: {"none", "baseline", "propose", "try", "judge", "reload", "assign", "install",
          "read", "rewrite"},
   engine: Engines, baseline: SUBSET Cases, keyword: Keywords \cup {NoKeyword},
   trial: SUBSET Keywords, lines: Seq(Keywords), fresh: SUBSET Keywords]

TypeOK ==
  /\ journal \in Seq(Keywords)
  /\ known \in [Engines -> SUBSET Keywords]
  /\ call \in [Callers -> CallRecord]
  /\ alone \subseteq Callers
  /\ mixed \in BOOLEAN
  /\ reverts \in Nat

\* From the proposal on, a call has a keyword, and only the live engine is installed.
HasKeyword ==
  \A c \in Callers :
    /\ call[c].step \in {"try", "judge", "install"} => call[c].keyword \in Keywords
    /\ call[c].step = "install" => call[c].engine = "live"
    /\ call[c].step \in {"read", "rewrite"} => call[c].keyword = NoKeyword

\* A call nobody interferes with is the only one, and what it has read is so still.
AloneIsCurrent ==
  \A c \in alone :
    /\ call[c].step # "none"
    /\ \A d \in Callers \ {c} : call[d].step = "none"
    /\ call[c].step \in {"baseline", "propose", "try", "judge"} =>
         known[call[c].engine] = Learned
    /\ call[c].step \in {"propose", "try", "judge"} => call[c].baseline = Passes[Learned]
    /\ call[c].step = "judge" => call[c].trial = Learned \cup {call[c].keyword}
    /\ call[c].step = "rewrite" => call[c].lines = journal /\ journal # << >>
    /\ call[c].step = "assign" => call[c].fresh = Learned
    /\ call[c].step = "install" => known["live"] = Learned

\* No keyword is learned twice, unless calls have met.
LearnedOnce ==
  ~mixed => \A i, j \in DOMAIN journal : journal[i] = journal[j] => i = j

\* Without a revert, what a call has accepted is in the journal, in what it has read back
\* and in the live engine from then on; and unless another call had read before that, in
\* what every other call is about to give the live engine.
AcceptedStays ==
  reverts = 0 =>
    \A c \in Callers :
      /\ call[c].step \notin {"read", "rewrite"}
      /\ call[c].step \in {"reload", "assign", "install"} =>
           call[c].keyword \in Learned /\ call[c].keyword \in Keywords
      /\ call[c].step = "assign" => call[c].keyword \in call[c].fresh
      /\ c \notin outread /\ call[c].step \in {"reload", "assign", "install"} =>
           /\ \A d \in Callers : call[d].step = "assign" /\ call[d].engine = "live" =>
                                  call[c].keyword \in call[d].fresh
           /\ call[c].step = "install" => call[c].keyword \in known["live"]

LInv == TypeOK /\ HasKeyword /\ AloneIsCurrent /\ LearnedOnce /\ AcceptedStays

-----------------------------------------------------------------------------

\* A set of cases that is not empty has a first one.
LEMMA FirstCase ==
  ASSUME NEW S \in SUBSET Cases, S # {}
  PROVE  \E x \in S : \A y \in S : x <= y
<1>1. S \subseteq Nat
  BY LearningAssumption DEF Cases
<1>2. PICK x \in S : \A y \in S : <<y, x>> \notin OpToRel(<, Nat)
  BY <1>1, NatLessThanWellFounded, WFMin
<1>3. \A y \in S : ~(y < x)
  BY <1>1, <1>2 DEF OpToRel
<1> QED BY <1>1, <1>3

\* What is proposed is a keyword.
LEMMA ProposedKeyword ==
  ASSUME NEW failing \in SUBSET Cases, Candidates(failing) # {}
  PROVE  KeywordOf[CHOOSE x \in Candidates(failing) : \A y \in Candidates(failing) : x <= y]
           \in Keywords
<1>1. Candidates(failing) \in SUBSET Cases
  BY DEF Candidates
<1>2. (CHOOSE x \in Candidates(failing) : \A y \in Candidates(failing) : x <= y)
         \in Candidates(failing)
  BY <1>1, FirstCase
<1> QED BY <1>1, <1>2, LearningAssumption DEF Candidates

\* A line that is appended adds its keyword to what is learned.
LEMMA LearnedByAppend ==
  ASSUME journal \in Seq(Keywords), NEW k \in Keywords, journal' = Append(journal, k)
  PROVE  /\ journal' \in Seq(Keywords)
         /\ Learned' = Learned \cup {k}
         /\ (k \notin Learned /\ \A i, j \in DOMAIN journal : journal[i] = journal[j] => i = j)
              => \A i, j \in DOMAIN journal' : journal'[i] = journal'[j] => i = j
<1>1. /\ journal' \in Seq(Keywords)
      /\ DOMAIN journal = 1 .. Len(journal) /\ Len(journal) \in Nat
      /\ DOMAIN journal' = 1 .. (Len(journal) + 1)
      /\ \A i \in 1 .. Len(journal) : journal'[i] = journal[i]
      /\ journal'[Len(journal) + 1] = k
  BY AppendProperties
<1>2. Learned' = Learned \cup {k}
  BY <1>1 DEF Learned
<1> QED BY <1>1, <1>2 DEF Learned

\* Without its last line, a journal without repetitions has lost just that keyword.
LEMMA LearnedByRemoval ==
  ASSUME journal \in Seq(Keywords), journal # << >>, journal' = AllButLast(journal),
         \A i, j \in DOMAIN journal : journal[i] = journal[j] => i = j
  PROVE  /\ Learned' = Learned \ {journal[Len(journal)]}
         /\ \A i, j \in DOMAIN journal' : journal'[i] = journal'[j] => i = j
<1>1. /\ DOMAIN journal = 1 .. Len(journal) /\ Len(journal) \in Nat /\ Len(journal) # 0
      /\ \A i \in 1 .. (Len(journal) - 1) : journal[i] \in Keywords
  BY EmptySeq, LenProperties, ElementOfSeq
<1>2. /\ DOMAIN journal' = 1 .. (Len(journal) - 1)
      /\ \A i \in 1 .. (Len(journal) - 1) : journal'[i] = journal[i]
  BY <1>1, SubSeqProperties, LenProperties DEF AllButLast
<1>3. Learned' = Learned \ {journal[Len(journal)]}
  BY <1>1, <1>2 DEF Learned
<1> QED BY <1>1, <1>2, <1>3

\* A shorter journal is still one of keywords.
LEMMA AllButLastType ==
  ASSUME NEW s \in Seq(Keywords)
  PROVE  AllButLast(s) \in Seq(Keywords)
<1>1. Len(s) \in Nat /\ \A i \in 1 .. (Len(s) - 1) : s[i] \in Keywords
  BY LenProperties, ElementOfSeq
<1> QED BY <1>1, SubSeqProperties DEF AllButLast

\* A call that clears the bar alone learns what was not learned.
LEMMA GainIsNew ==
  ASSUME TypeOK, NEW c \in alone, AloneIsCurrent, Clears(c), call[c].step = "judge"
  PROVE  /\ Passes[Learned] \subseteq Passes[Learned \cup {call[c].keyword}]
         /\ Passes[Learned] # Passes[Learned \cup {call[c].keyword}]
         /\ call[c].keyword \notin Learned
<1>1. /\ call[c].baseline = Passes[Learned]
      /\ call[c].trial = Learned \cup {call[c].keyword}
  BY DEF AloneIsCurrent
<1>2. Passes[Learned] # Passes[Learned \cup {call[c].keyword}]
  <2>1. SUFFICES ASSUME Passes[Learned] = Passes[Learned \cup {call[c].keyword}]
                 PROVE  FALSE
    OBVIOUS
  <2>2. Cardinality(Passes[Learned]) > Cardinality(Passes[Learned])
    BY <1>1, <2>1 DEF Clears, Improved
  <2>3. Learned \in SUBSET Keywords
    BY LenProperties, ElementOfSeq DEF TypeOK, Learned
  <2>4. Passes[Learned] \in SUBSET (1 .. CaseCount)
    BY <2>3, LearningAssumption DEF Cases
  <2>5. Cardinality(Passes[Learned]) \in Nat
    <3>1. IsFiniteSet(1 .. CaseCount)
      BY FS_Interval, LearningAssumption
    <3>2. IsFiniteSet(Passes[Learned])
      BY <2>4, <3>1, FS_Subset
    <3> QED BY <3>2, FS_CardinalityType
  <2> QED BY <2>2, <2>5
<1>3. Passes[Learned] \subseteq Passes[Learned \cup {call[c].keyword}]
  BY <1>1 DEF Clears, Regressed
<1>4. call[c].keyword \notin Learned
  <2>1. SUFFICES ASSUME call[c].keyword \in Learned PROVE FALSE
    OBVIOUS
  <2>2. Learned = Learned \cup {call[c].keyword}
    BY <2>1
  <2> QED BY <1>2, <2>2
<1> QED BY <1>2, <1>3, <1>4

-----------------------------------------------------------------------------

\* What a step of a call writes into its record leaves it a record.
LEMMA WrittenCall ==
  ASSUME NEW r \in CallRecord,
         NEW s \in {"propose", "try", "judge", "reload", "assign", "install"}
  PROVE  /\ [r EXCEPT !.step = s] \in CallRecord
         /\ \A b \in SUBSET Cases : [r EXCEPT !.step = s, !.baseline = b] \in CallRecord
         /\ \A k \in Keywords : [r EXCEPT !.step = s, !.keyword = k] \in CallRecord
         /\ \A t \in SUBSET Keywords : [r EXCEPT !.step = s, !.trial = t] \in CallRecord
         /\ \A t \in SUBSET Keywords : [r EXCEPT !.step = s, !.fresh = t] \in CallRecord
<1>1. [r EXCEPT !.step = s] \in CallRecord
  BY DEF CallRecord
<1>2. ASSUME NEW b \in SUBSET Cases
      PROVE  [r EXCEPT !.step = s, !.baseline = b] \in CallRecord
  BY DEF CallRecord
<1>3. ASSUME NEW k \in Keywords
      PROVE  [r EXCEPT !.step = s, !.keyword = k] \in CallRecord
  BY DEF CallRecord
<1>4. ASSUME NEW t \in SUBSET Keywords
      PROVE  [r EXCEPT !.step = s, !.trial = t] \in CallRecord
  BY DEF CallRecord
<1>5. ASSUME NEW t \in SUBSET Keywords
      PROVE  [r EXCEPT !.step = s, !.fresh = t] \in CallRecord
  BY DEF CallRecord
<1> QED BY <1>1, <1>2, <1>3, <1>4, <1>5

\* Nothing is learned, and nobody has called.
LEMMA InitLInv == Init => LInv
<1> SUFFICES ASSUME Init PROVE LInv
  OBVIOUS
<1>1. Idle \in CallRecord /\ journal \in Seq(Keywords)
  BY EmptySeq DEF Init, Idle, CallRecord, Engines
<1>2. TypeOK
  BY <1>1 DEF Init, TypeOK
<1>3. HasKeyword /\ AloneIsCurrent
  BY DEF Init, HasKeyword, AloneIsCurrent, Idle
<1>4. LearnedOnce /\ AcceptedStays
  BY DEF Init, LearnedOnce, AcceptedStays, Idle
<1> QED BY <1>2, <1>3, <1>4 DEF LInv

\* A call that returns leaves nobody alone, and what the others hold as it was, if all it
\* has changed is that the live engine knows what it had read back.
LEMMA ReturnKeeps ==
  ASSUME LInv, NEW c \in Callers, Return(c), ~At(c, "none"), journal' = journal,
         known' \in [Engines -> SUBSET Keywords],
         known'["live"] # known["live"] =>
           At(c, "assign") /\ call[c].engine = "live" /\ known'["live"] = call[c].fresh
  PROVE  LInv'
<1> USE DEF LInv
<1>1. Idle \in CallRecord
  BY EmptySeq DEF Idle, CallRecord, Engines
<1>2. Learned' = Learned
  BY DEF Learned
<1>3. alone' = {}
  BY DEF Return, AloneIsCurrent, At
<1>4. TypeOK'
  BY <1>1, <1>3 DEF TypeOK, Return
<1>5. \A d \in Callers : call'[d] = IF d = c THEN Idle ELSE call[d]
  BY DEF Return, TypeOK
<1>6. HasKeyword'
  BY <1>5 DEF HasKeyword, Idle
<1>7. AloneIsCurrent'
  BY <1>3 DEF AloneIsCurrent
<1>8. LearnedOnce'
  BY DEF LearnedOnce, Return
<1>9. AcceptedStays'
  <2> SUFFICES ASSUME reverts = 0, NEW d \in Callers
               PROVE  AcceptedStays!2!(d)'
    BY DEF AcceptedStays, Return
  <2>1. CASE d = c
    BY <1>5, <2>1 DEF Idle
  <2>2. CASE d # c
    BY <1>2, <1>5, <2>2 DEF AcceptedStays, Return, Idle, At
  <2> QED BY <2>1, <2>2
<1> QED BY <1>4, <1>6, <1>7, <1>8, <1>9

\* The actions of a call, one by one, and what surrounds them.
LEMMA NextLInv == LInv /\ [Next]_vars => LInv'
<1> SUFFICES ASSUME LInv, [Next]_vars PROVE LInv'
  OBVIOUS
<1> USE DEF LInv
<1>0. Learned \in SUBSET Keywords
  BY LenProperties, ElementOfSeq DEF TypeOK, Learned
<1>a. Idle \in CallRecord
  BY EmptySeq DEF Idle, CallRecord, Engines
<1>1. ASSUME NEW c \in Callers, NEW e \in Engines, Call(c, e, "baseline"), UNCHANGED reverts
      PROVE  LInv'
  <2>1. UNCHANGED <<journal, known, Learned>>
    BY <1>1 DEF Call, storeVars, Learned
  <2>2. TypeOK'
    BY <1>1, <1>a, <2>1 DEF TypeOK, CallRecord, Call, Idle
  <2>3. HasKeyword'
    BY <1>1 DEF TypeOK, HasKeyword, Call, Idle
  <2>4. AloneIsCurrent'
    BY <1>1, <2>1 DEF TypeOK, AloneIsCurrent, Call, Idle, At
  <2>5. LearnedOnce' /\ AcceptedStays'
    BY <1>1, <2>1 DEF TypeOK, LearnedOnce, AcceptedStays, Call, Idle
  <2> QED BY <2>2, <2>3, <2>4, <2>5
<1>2. ASSUME NEW c \in Callers, Revert(c)
      PROVE  LInv'
  <2>1. UNCHANGED <<journal, known, Learned>> /\ reverts' \in Nat /\ reverts' # 0
    BY <1>2 DEF Revert, Call, storeVars, Learned, TypeOK
  <2>2. TypeOK'
    BY <1>2, <1>a, <2>1 DEF TypeOK, CallRecord, Revert, Call, Idle, Engines
  <2>3. HasKeyword'
    BY <1>2 DEF TypeOK, HasKeyword, Revert, Call, Idle
  <2>4. AloneIsCurrent'
    BY <1>2, <2>1 DEF TypeOK, AloneIsCurrent, Revert, Call, Idle, At
  <2>5. LearnedOnce' /\ AcceptedStays'
    BY <1>2, <2>1 DEF TypeOK, LearnedOnce, AcceptedStays, Revert, Call
  <2> QED BY <2>2, <2>3, <2>4, <2>5
<1>3. ASSUME NEW c \in Callers, TakeBaseline(c)
      PROVE  LInv'
  <2>1. UNCHANGED <<journal, known, Learned>>
    BY <1>3 DEF TakeBaseline, storeVars, Learned
  <2>2. Baseline(call[c].engine) \in SUBSET Cases
    BY <1>3, LearningAssumption DEF Baseline, TypeOK, CallRecord
  <2>3. TypeOK'
    <3>1. call[c] \in CallRecord
      BY DEF TypeOK
    <3>2. call' \in [Callers -> CallRecord]
      BY <1>3, <2>2, <3>1, WrittenCall DEF TypeOK, TakeBaseline
    <3> QED BY <1>3, <2>1, <3>2 DEF TypeOK, TakeBaseline, historyVars
  <2>4. HasKeyword'
    BY <1>3 DEF TypeOK, HasKeyword, TakeBaseline
  <2>5. AloneIsCurrent'
    BY <1>3, <2>1 DEF TypeOK, AloneIsCurrent, TakeBaseline, Baseline, historyVars, At
  <2>6. LearnedOnce' /\ AcceptedStays'
    BY <1>3, <2>1 DEF TypeOK, LearnedOnce, AcceptedStays, TakeBaseline, historyVars, At
  <2> QED BY <2>3, <2>4, <2>5, <2>6
<1>4. ASSUME NEW c \in Callers, Propose(c), UNCHANGED storeVars, Return(c)
      PROVE  LInv'
  BY <1>4, ReturnKeeps DEF Propose, At, storeVars, TypeOK
<1>5. ASSUME NEW c \in Callers, Propose(c), UNCHANGED storeVars, UNCHANGED historyVars,
             NEW k \in Keywords,
             call' = [call EXCEPT ![c].step = "try", ![c].keyword = k]
      PROVE  LInv'
  <2>1. UNCHANGED <<journal, known, Learned>> /\ call[c].step = "propose"
    BY <1>5 DEF Propose, At, storeVars, Learned
  <2>2. TypeOK'
    <3>1. call[c] \in CallRecord
      BY DEF TypeOK
    <3>2. call' \in [Callers -> CallRecord]
      BY <1>5, <3>1, WrittenCall DEF TypeOK
    <3> QED BY <1>5, <2>1, <3>2 DEF TypeOK, historyVars
  <2>3. HasKeyword'
    BY <1>5 DEF TypeOK, HasKeyword
  <2>4. AloneIsCurrent'
    BY <1>5, <2>1 DEF TypeOK, AloneIsCurrent, historyVars
  <2>5. LearnedOnce' /\ AcceptedStays'
    BY <1>5, <2>1 DEF TypeOK, LearnedOnce, AcceptedStays, historyVars
  <2> QED BY <2>2, <2>3, <2>4, <2>5
<1>6. ASSUME NEW c \in Callers, Propose(c)
      PROVE  LInv'
  <2> DEFINE failing == Cases \ Passes[known[call[c].engine]]
             found == Candidates(failing)
             first == CHOOSE x \in found : \A y \in found : x <= y
  <2>1. UNCHANGED storeVars
    BY <1>6 DEF Propose
  <2>2. CASE found = {}
    BY <1>4, <1>6, <2>1, <2>2 DEF Propose
  <2>3. CASE found # {}
    <3>1. KeywordOf[first] \in Keywords
      BY <2>3, ProposedKeyword
    <3>2. /\ UNCHANGED historyVars
          /\ call' = [call EXCEPT ![c].step = "try", ![c].keyword = KeywordOf[first]]
      BY <1>6, <2>3 DEF Propose
    <3> QED BY <1>5, <1>6, <2>1, <3>1, <3>2
  <2> QED BY <2>2, <2>3
<1>7. ASSUME NEW c \in Callers, Try(c)
      PROVE  LInv'
  <2>1. UNCHANGED <<journal, known, Learned>> /\ call[c].step = "try"
    BY <1>7 DEF Try, At, storeVars, Learned
  <2>2. known[call[c].engine] \cup {call[c].keyword} \in SUBSET Keywords
    BY <1>7, <2>1 DEF TypeOK, CallRecord, HasKeyword
  <2>3. TypeOK'
    <3>1. call[c] \in CallRecord
      BY DEF TypeOK
    <3>2. call' \in [Callers -> CallRecord]
      BY <1>7, <2>2, <3>1, WrittenCall DEF TypeOK, Try
    <3> QED BY <1>7, <2>1, <3>2 DEF TypeOK, Try, historyVars
  <2>4. HasKeyword'
    BY <1>7, <2>1 DEF TypeOK, HasKeyword, Try
  <2>5. AloneIsCurrent'
    BY <1>7, <2>1 DEF TypeOK, AloneIsCurrent, Try, historyVars
  <2>6. LearnedOnce' /\ AcceptedStays'
    BY <1>7, <2>1 DEF TypeOK, LearnedOnce, AcceptedStays, Try, historyVars
  <2> QED BY <2>3, <2>4, <2>5, <2>6
<1>8. ASSUME NEW c \in Callers, Accept(c)
      PROVE  LInv'
  <2>1. call[c].keyword \in Keywords /\ call[c].step = "judge" /\ call[c] \in CallRecord
    BY <1>8 DEF Accept, At, HasKeyword, TypeOK
  <2>2. /\ journal' \in Seq(Keywords)
        /\ Learned' = Learned \cup {call[c].keyword}
        /\ (call[c].keyword \notin Learned /\ \A i, j \in DOMAIN journal : journal[i] = journal[j] => i = j)
              => \A i, j \in DOMAIN journal' : journal'[i] = journal'[j] => i = j
    BY <1>8, <2>1, LearnedByAppend DEF Accept, TypeOK
  <2>3. /\ call' = [call EXCEPT ![c].step = "reload"]
        /\ UNCHANGED <<known, reverts, alone>> /\ mixed' = (mixed \/ c \notin alone)
    BY <1>8 DEF Accept, GoTo
  <2>4. \A d \in Callers \ {c} : call'[d] = call[d]
    BY <2>3 DEF TypeOK
  <2>5. call'[c] \in CallRecord /\ call'[c].step = "reload" /\ call'[c].keyword = call[c].keyword
    BY <2>1, <2>3 DEF TypeOK, CallRecord
  <2>6. TypeOK'
    <3>1. call' \in [Callers -> CallRecord]
      BY <2>3, <2>4, <2>5 DEF TypeOK
    <3>2. mixed' \in BOOLEAN
      BY <2>3 DEF TypeOK
    <3> QED BY <2>2, <2>3, <3>1, <3>2 DEF TypeOK
  <2>7. HasKeyword'
    BY <2>1, <2>4, <2>5 DEF HasKeyword
  <2>8. AloneIsCurrent'
    BY <2>1, <2>3, <2>4, <2>5 DEF AloneIsCurrent, TypeOK
  <2>9. LearnedOnce'
    BY <1>8, <2>1, <2>2, <2>3, GainIsNew DEF LearnedOnce, Accept
  <2>10. AcceptedStays'
    <3>1. outread' = IF \E d \in Callers : call[d].step = "assign" /\ call[d].engine = "live"
                     THEN outread \cup {c} ELSE outread
      BY <1>8 DEF Accept, At
    <3> QED BY <2>1, <2>2, <2>3, <2>4, <2>5, <3>1 DEF AcceptedStays
  <2> QED BY <2>6, <2>7, <2>8, <2>9, <2>10
<1>9. ASSUME NEW c \in Callers, Reject(c)
      PROVE  LInv'
  BY <1>9, ReturnKeeps DEF Reject, At, storeVars, TypeOK
<1>10. ASSUME NEW c \in Callers, ReadBack(c)
       PROVE  LInv'
  <2>1. UNCHANGED <<journal, known, Learned>> /\ call[c].step = "reload" /\ UNCHANGED historyVars
    BY <1>10 DEF ReadBack, At, storeVars, Learned
  <2>2. call' = [call EXCEPT ![c].step = "assign", ![c].fresh = Learned]
    BY <1>10 DEF ReadBack
  <2>3. TypeOK'
    <3>1. call[c] \in CallRecord
      BY DEF TypeOK
    <3>2. call' \in [Callers -> CallRecord]
      BY <1>0, <2>2, <3>1, WrittenCall DEF TypeOK
    <3> QED BY <2>1, <3>2 DEF TypeOK, historyVars
  <2>4. HasKeyword'
    BY <2>1, <2>2 DEF TypeOK, HasKeyword
  <2>5. AloneIsCurrent'
    BY <2>1, <2>2 DEF TypeOK, AloneIsCurrent, historyVars
  <2>6. LearnedOnce'
    BY <2>1 DEF LearnedOnce, historyVars
  <2>7. AcceptedStays'
    BY <2>1, <2>2 DEF TypeOK, AcceptedStays, historyVars
  <2> QED BY <2>3, <2>4, <2>5, <2>6, <2>7
<1>18. ASSUME NEW c \in Callers, Assign(c)
       PROVE  LInv'
  <2>1. /\ UNCHANGED <<journal, Learned>> /\ call[c].step = "assign"
        /\ call[c] \in CallRecord
    BY <1>18 DEF Assign, At, Learned, TypeOK
  <2>2. /\ known' = [known EXCEPT ![call[c].engine] = call[c].fresh]
        /\ known' \in [Engines -> SUBSET Keywords]
        /\ known'["live"] = IF call[c].engine = "live" THEN call[c].fresh ELSE known["live"]
    BY <1>18, <2>1 DEF Assign, TypeOK, Engines, CallRecord
  <2>3. CASE call[c].engine = "auto" \/ call[c].keyword = NoKeyword
    BY <1>18, <2>1, <2>2, <2>3, ReturnKeeps DEF Assign, At
  <2>4. CASE call[c].engine = "live" /\ call[c].keyword # NoKeyword
    <3>1. call' = [call EXCEPT ![c].step = "install"] /\ UNCHANGED historyVars
      BY <1>18, <2>4 DEF Assign, GoTo
    <3>2. TypeOK'
      <4>1. call' \in [Callers -> CallRecord]
        BY <2>1, <3>1, WrittenCall DEF TypeOK
      <4> QED BY <2>1, <2>2, <3>1, <4>1 DEF TypeOK, historyVars
    <3>3. HasKeyword'
      BY <2>1, <2>4, <3>1 DEF TypeOK, HasKeyword, CallRecord
    <3>4. AloneIsCurrent'
      BY <2>1, <2>2, <2>4, <3>1 DEF TypeOK, AloneIsCurrent, historyVars
    <3>5. LearnedOnce'
      BY <2>1, <3>1 DEF LearnedOnce, historyVars
    <3>6. AcceptedStays'
      BY <2>1, <2>2, <2>4, <3>1 DEF TypeOK, AcceptedStays, historyVars
    <3> QED BY <3>2, <3>3, <3>4, <3>5, <3>6
  <2> QED BY <2>1, <2>3, <2>4 DEF CallRecord, Engines
<1>11. ASSUME NEW c \in Callers, Install(c)
       PROVE  LInv'
  BY <1>11, ReturnKeeps DEF Install, At, TypeOK
<1>12. ASSUME NEW c \in Callers, ReadLines(c)
       PROVE  LInv'
  <2>1. UNCHANGED <<journal, known, Learned>> /\ call[c].step = "read"
    BY <1>12 DEF ReadLines, At, storeVars, Learned
  <2>2. TypeOK'
    <3>1. call[c] \in CallRecord /\ journal \in Seq(Keywords)
      BY <1>12 DEF TypeOK
    <3>2. [call[c] EXCEPT !.step = IF journal = << >> THEN "reload" ELSE "rewrite",
                          !.lines = journal] \in CallRecord
      BY <3>1 DEF CallRecord
    <3>3. call' = [call EXCEPT ![c] =
            [call[c] EXCEPT !.step = IF journal = << >> THEN "reload" ELSE "rewrite",
                            !.lines = journal]]
      BY <1>12 DEF ReadLines, TypeOK
    <3> QED BY <1>12, <2>1, <3>2, <3>3 DEF TypeOK, ReadLines, historyVars
  <2>3. HasKeyword'
    BY <1>12, <2>1 DEF TypeOK, HasKeyword, ReadLines
  <2>4. AloneIsCurrent'
    BY <1>12, <2>1 DEF TypeOK, AloneIsCurrent, ReadLines, historyVars
  <2>5. LearnedOnce' /\ AcceptedStays'
    BY <1>12, <2>1 DEF TypeOK, LearnedOnce, AcceptedStays, ReadLines, historyVars
  <2> QED BY <2>2, <2>3, <2>4, <2>5
<1>13. ASSUME NEW c \in Callers, Rewrite(c)
       PROVE  LInv'
  <2>1. call[c].step = "rewrite" /\ call[c] \in CallRecord /\ reverts # 0
    BY <1>13 DEF Rewrite, At, TypeOK, AcceptedStays
  <2>2. /\ journal' = AllButLast(call[c].lines)
        /\ call' = [call EXCEPT ![c].step = "reload"]
        /\ UNCHANGED <<known, reverts, alone, outread>> /\ mixed' = (mixed \/ c \notin alone)
    BY <1>13 DEF Rewrite, GoTo
  <2>3. journal' \in Seq(Keywords)
    BY <2>1, <2>2, AllButLastType DEF CallRecord
  <2>4. TypeOK'
    BY <2>1, <2>2, <2>3 DEF TypeOK, CallRecord
  <2>5. HasKeyword'
    BY <2>2 DEF TypeOK, HasKeyword
  <2>6. AloneIsCurrent'
    BY <2>1, <2>2 DEF TypeOK, AloneIsCurrent
  <2>7. LearnedOnce'
    <3>1. SUFFICES ASSUME ~mixed'
                   PROVE  \A i, j \in DOMAIN journal' : journal'[i] = journal'[j] => i = j
      BY DEF LearnedOnce
    <3>2. c \in alone /\ ~mixed /\ journal # << >> /\ journal' = AllButLast(journal)
      BY <2>1, <2>2, <3>1 DEF AloneIsCurrent
    <3> QED BY <3>2, LearnedByRemoval DEF LearnedOnce, TypeOK
  <2>8. AcceptedStays'
    BY <2>1, <2>2 DEF AcceptedStays
  <2> QED BY <2>4, <2>5, <2>6, <2>7, <2>8
<1>15. CASE Restart
  <2>1. UNCHANGED <<journal, reverts, mixed, Learned>>
    BY <1>15 DEF Restart, Learned
  <2>2. TypeOK'
    BY <1>0, <1>15, <1>a, <2>1 DEF TypeOK, Restart
  <2>3. HasKeyword' /\ AloneIsCurrent'
    BY <1>15 DEF HasKeyword, AloneIsCurrent, Restart, Idle
  <2>4. LearnedOnce' /\ AcceptedStays'
    BY <1>15, <2>1 DEF LearnedOnce, AcceptedStays, Restart, Idle
  <2> QED BY <2>2, <2>3, <2>4
<1>16. CASE UNCHANGED vars
  <2>1. Learned' = Learned
    BY <1>16 DEF vars, storeVars, Learned
  <2> QED
    BY <1>16, <2>1
    DEF vars, storeVars, historyVars, TypeOK, HasKeyword, AloneIsCurrent, LearnedOnce, AcceptedStays
<1>17. ASSUME NEW c \in Callers, Improve(c) \/ Cycle(c)
       PROVE  LInv'
  BY <1>1, <1>17 DEF Improve, Cycle, Engines
<1> QED
  BY <1>2, <1>3, <1>6, <1>7, <1>8, <1>9, <1>10, <1>11, <1>12, <1>13, <1>18, <1>15, <1>16, <1>17
  DEF Next, Work

\* What calls hold, and what is learned, in every behaviour.
THEOREM LearningInvariant == Spec => []LInv
BY InitLInv, NextLInv, PTL DEF Spec

\* "Accept iff strictly better and no regressions", for any suite: alone, a call never
\* costs a case, always gains one, and, if calls have never met, reverts exactly the last keyword.
THEOREM AloneNeverRegresses == Spec => NeverRegresses
<1>1. ASSUME LInv, [Next]_vars
      PROVE  [\A c \in alone :
                /\ Accept(c) => /\ Passes[Learned] \subseteq Passes[Learned']
                                /\ Passes[Learned] # Passes[Learned']
                /\ Rewrite(c) /\ ~mixed => Learned' = Learned \ {journal[Len(journal)]}]_vars
  <2> USE <1>1 DEF LInv
  <2> SUFFICES ASSUME NEW c \in alone
               PROVE  /\ Accept(c) => /\ Passes[Learned] \subseteq Passes[Learned']
                                       /\ Passes[Learned] # Passes[Learned']
                      /\ Rewrite(c) /\ ~mixed => Learned' = Learned \ {journal[Len(journal)]}
    OBVIOUS
  <2>1. ASSUME Accept(c)
        PROVE  Passes[Learned] \subseteq Passes[Learned'] /\ Passes[Learned] # Passes[Learned']
    <3>1. call[c].step = "judge" /\ Clears(c) /\ call[c].keyword \in Keywords
      BY <2>1 DEF Accept, At, HasKeyword, TypeOK
    <3>2. Learned' = Learned \cup {call[c].keyword}
      BY <2>1, <3>1, LearnedByAppend DEF Accept, TypeOK
    <3> QED BY <3>1, <3>2, GainIsNew
  <2>2. ASSUME Rewrite(c), ~mixed
        PROVE  Learned' = Learned \ {journal[Len(journal)]}
    <3>1. journal # << >> /\ journal' = AllButLast(journal)
      BY <2>2 DEF Rewrite, At, AloneIsCurrent
    <3> QED BY <2>2, <3>1, LearnedByRemoval DEF LearnedOnce, TypeOK
  <2> QED BY <2>1, <2>2
<1> QED BY <1>1, LearningInvariant, PTL DEF Spec, NeverRegresses

\* Unless something is reverted, or another call gives the live engine what it had read
\* before, the planner put in place knows what was accepted for it; and alone exactly what
\* is learned; for any number of threads.
THEOREM AcceptedReachesPlanner == Spec => ReachesPlanner
<1>1. ASSUME LInv, [Next]_vars
      PROVE  [\A c \in Callers :
                Install(c) =>
                  /\ reverts = 0 /\ c \notin outread => call[c].keyword \in planner'.keywords
                  /\ c \in alone => planner'.keywords = Learned]_vars
  <2> SUFFICES ASSUME NEW c \in Callers, Install(c)
               PROVE  /\ reverts = 0 /\ c \notin outread => call[c].keyword \in planner'.keywords
                      /\ c \in alone => planner'.keywords = Learned
    OBVIOUS
  <2>1. reverts = 0 /\ c \notin outread => call[c].keyword \in known["live"]
    BY <1>1 DEF LInv, AcceptedStays, Install, At
  <2>2. c \in alone => known["live"] = Learned
    BY <1>1 DEF LInv, AloneIsCurrent, Install, At
  <2> QED BY <2>1, <2>2 DEF Install, Installed
<1> QED BY <1>1, LearningInvariant, PTL DEF Spec, ReachesPlanner
=============================================================================
