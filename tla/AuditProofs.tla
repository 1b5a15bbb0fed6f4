------------------------------ MODULE AuditProofs ------------------------------
(* Theorems about the records of accountability: what a receipt that confirms a *)
(* rollback was given, which drills pass, and that replay does not depend on the *)
(* order of its input, for any journals, objects and number of change sets.      *)
EXTENDS Audit, SequenceTheorems, FiniteSetTheorems, TLAPS

-----------------------------------------------------------------------------
(* What the projections keep *)

\* Every adapter keeps the event id and the digest of the record, and sets no cause.
LEMMA AdapterKeeps ==
  ASSUME NEW r \in SourceRecord
  PROVE  /\ Projected(r).event = r.event /\ Projected(r).digest = r.digest
         /\ Projected(r).causes = {}
<1>1. CASE r.store = "memory_store"
  BY <1>1 DEF Projected, MemoryStore, BaseEnvelope
<1>2. CASE r.store = "jsonl_store"
  BY <1>2 DEF Projected, JsonlStore, BaseEnvelope
<1>3. CASE r.store = "plan_store"
  BY <1>3 DEF Projected, PlanStore, BaseEnvelope
<1>4. CASE r.store = "research_journal"
  BY <1>4 DEF Projected, ResearchJournal, BaseEnvelope
<1>5. CASE r.store = "hierarchy_journal"
  BY <1>5 DEF Projected, Hierarchy, BaseEnvelope
<1>6. CASE r.store = "unattended_journal"
  BY <1>6 DEF Projected, Unattended, BaseEnvelope
<1>7. CASE r.store = "understanding_journal"
  BY <1>7 DEF Projected, Understanding, BaseEnvelope
<1>8. CASE r.store = "reliability_journal"
  BY <1>8 DEF Projected, Reliability, BaseEnvelope
<1>9. CASE r.store = "evidence_record"
  BY <1>9 DEF Projected, Evidence, BaseEnvelope
<1>10. CASE r.store = "skill_learning"
  BY <1>10 DEF Projected, SkillLearning, BaseEnvelope
<1>11. CASE r.store = "model_patch"
  BY <1>11 DEF Projected, ModelPatch, BaseEnvelope
<1> QED
  BY <1>1, <1>2, <1>3, <1>4, <1>5, <1>6, <1>7, <1>8, <1>9, <1>10, <1>11 DEF SourceRecord, Stores

Changed == {ProjectedChange(Projected(r), before, after) :
              r \in SourceRecord, before \in Identities, after \in Identities}

\* A change set is filed under the id of its own fields.
LEMMA ChangeUnderItsId ==
  ASSUME NEW cs \in Changed
  PROVE  /\ cs.id = ChangeId(cs)
         /\ Coerced(cs).id = cs.id /\ Coerced(cs).before = cs.before /\ Coerced(cs).after = cs.after
<1>1. PICK r \in SourceRecord, before \in Identities, after \in Identities :
        cs = ProjectedChange(Projected(r), before, after)
  BY DEF Changed
<1> DEFINE e == Projected(r)
           class == MutationClassifiers[e.type]
           Or(identity) == IF identity = None THEN Identity(e.type, e.subsystem, None, None)
                           ELSE identity
           was == Or(before)
           is == Or(after)
           target == Identity(e.type, e.subsystem, Locator(e), e.digest)
           unknowns == When(None \in {before, after}, "missing_payload")
           bare == [id |-> <<>>, capability |-> e.capability, owner |-> class.owner, kind |-> e.type,
                    disposition |-> class.disposition, inverse |-> class.inverse,
                    aim |-> e.outcome, task |-> e.task, target |-> target,
                    before |-> was, after |-> is, events |-> <<e.event>>, unknowns |-> unknowns]
           id == <<e.capability, e.type, target, was, is, <<e.event>>>>
<1>2. cs = [bare EXCEPT !.id = ChangeId(bare)]
  BY <1>1 DEF ProjectedChange
<1> HIDE DEF was, is, target, unknowns, class, e
<1>3. ChangeId(bare) = id
  BY DEF ChangeId
<1>4. cs = [id |-> id, capability |-> e.capability, owner |-> class.owner, kind |-> e.type,
            disposition |-> class.disposition, inverse |-> class.inverse,
            aim |-> e.outcome, task |-> e.task, target |-> target,
            before |-> was, after |-> is, events |-> <<e.event>>, unknowns |-> unknowns]
  BY <1>2, <1>3
<1>5. ChangeId(cs) = id
  BY <1>4 DEF ChangeId
<1> HIDE DEF id
<1> QED BY <1>4, <1>5 DEF Coerced

\* So one id stands for one state before and one after.
LEMMA SameIdSameChange ==
  ASSUME NEW c \in Changed, NEW d \in Changed, c.id = d.id
  PROVE  c.before = d.before /\ c.after = d.after
  BY ChangeUnderItsId DEF ChangeId

\* What a receipt says of the rollback event and of the change it was correlated with.
LEMMA ReceiptFields ==
  ASSUME NEW cs, NEW e
  PROVE  LET r == Correlated(cs, e)
             observed == Identity(cs.kind, cs.owner, Locator(e), e.digest)
         IN  /\ r.change = cs.id /\ r.kind = cs.inverse /\ r.events = <<e.event>>
             /\ r.pre = observed /\ r.post = observed /\ r.expected = cs.before
             /\ r.mismatches = Mismatches(cs.before, observed)
             /\ r.outcome = RollbackOutcome(e)
             /\ r.status = ConfirmationStatus(r.outcome, r.mismatches)
             /\ LET back == Coerced(r) IN
                  /\ back.change = r.change /\ back.kind = r.kind /\ back.pre = r.pre
                  /\ back.post = r.post /\ back.expected = r.expected
<1> DEFINE observed == Identity(cs.kind, cs.owner, Locator(e), e.digest)
           mismatches == Mismatches(cs.before, observed)
           outcome == RollbackOutcome(e)
           status == ConfirmationStatus(outcome, mismatches)
           bare == [id |-> <<>>, change |-> cs.id, kind |-> cs.inverse, target |-> cs.target,
                    outcome |-> outcome, pre |-> observed, post |-> observed,
                    expected |-> cs.before, mismatches |-> mismatches, events |-> <<e.event>>,
                    status |-> status, unknowns |-> {}]
           id == ReceiptId(bare)
<1>1. Correlated(cs, e) = [bare EXCEPT !.id = id]
  BY DEF Correlated
<1> HIDE DEF id, status, outcome, mismatches, observed
<1>2. Correlated(cs, e) =
        [id |-> id, change |-> cs.id, kind |-> cs.inverse, target |-> cs.target,
         outcome |-> outcome, pre |-> observed, post |-> observed,
         expected |-> cs.before, mismatches |-> mismatches, events |-> <<e.event>>,
         status |-> status, unknowns |-> {}]
  BY <1>1
<1> QED BY <1>2 DEF Coerced, status, outcome, mismatches, observed

\* A confirmation names a known digest, the one the event of the rollback has.
LEMMA ConfirmedByDigest ==
  ASSUME NEW cs, NEW e, e.digest # None, Correlated(cs, e).status = "confirmed"
  PROVE  e.outcome = "succeeded" /\ cs.before.digest = e.digest
<1> DEFINE observed == Identity(cs.kind, cs.owner, Locator(e), e.digest)
<1>1. ConfirmationStatus(RollbackOutcome(e), Mismatches(cs.before, observed)) = "confirmed"
  BY ReceiptFields
<1>2. RollbackOutcome(e) = "succeeded" /\ Mismatches(cs.before, observed) = {}
  BY <1>1 DEF ConfirmationStatus
<1>3. observed.digest = e.digest
  BY DEF Identity
<1> HIDE DEF observed
<1>4. cs.before.digest = observed.digest
  BY <1>2, <1>3 DEF Mismatches, When
<1> QED BY <1>2, <1>3, <1>4 DEF RollbackOutcome

-----------------------------------------------------------------------------
(* The invariant *)

Received == {Correlated(cs, Projected(r)) : cs \in Changed, r \in SourceRecord}

Recorded == journal \in Seq(SourceRecord) /\ changes \in Seq(Changed) /\ receipts \in Seq(Received)

\* Every receipt comes from a record that is in the journal.
Traced ==
  \A k \in DOMAIN receipts :
    \E cs \in Changed, i \in DOMAIN journal : receipts[k] = Correlated(cs, Projected(journal[i]))

RInv == Recorded /\ Traced

LEMMA AppendKeeps ==
  ASSUME NEW S, NEW s \in Seq(S), NEW x \in S
  PROVE  /\ Append(s, x) \in Seq(S)
         /\ \A i \in DOMAIN s : i \in DOMAIN Append(s, x) /\ Append(s, x)[i] = s[i]
         /\ \A i \in DOMAIN Append(s, x) : i \notin DOMAIN s => Append(s, x)[i] = x
<1>1. DOMAIN s = 1 .. Len(s) /\ Len(s) \in Nat
  BY LenProperties
<1>2. /\ Append(s, x) \in Seq(S) /\ DOMAIN Append(s, x) = 1 .. Len(s) + 1
      /\ \A i \in 1 .. Len(s) : Append(s, x)[i] = s[i]
      /\ Append(s, x)[Len(s) + 1] = x
  BY <1>1, AppendProperties, LenProperties
<1> QED BY <1>1, <1>2

LEMMA NextRInv == RInv /\ [Next]_vars => RInv'
<1> SUFFICES ASSUME RInv, [Next]_vars PROVE RInv'
  OBVIOUS
<1>0. /\ journal \in Seq(SourceRecord) /\ changes \in Seq(Changed) /\ receipts \in Seq(Received)
      /\ \A i \in DOMAIN journal : journal[i] \in SourceRecord
      /\ \A i \in DOMAIN changes : changes[i] \in Changed
  BY LenProperties, ElementOfSeq DEF RInv, Recorded
<1>1. ASSUME NEW r \in Records, NEW event \in 1 .. MaxLog, Log(r, event) PROVE RInv'
  <2> DEFINE new == [r EXCEPT !.event = event]
  <2>1. journal' = Append(journal, new) /\ changes' = changes /\ receipts' = receipts
    BY <1>1 DEF Log
  <2>2. new \in SourceRecord
    BY AuditAssumption DEF SourceRecord
  <2> HIDE DEF new
  <2>3. Recorded'
    BY <1>0, <2>1, <2>2, AppendKeeps DEF Recorded
  <2>4. \A i \in DOMAIN journal : i \in DOMAIN journal' /\ journal'[i] = journal[i]
    BY <1>0, <2>1, <2>2, AppendKeeps
  <2>5. Traced'
    BY <2>1, <2>4 DEF RInv, Traced
  <2> QED BY <2>3, <2>5 DEF RInv
<1>2. ASSUME NEW i \in DOMAIN journal, NEW before \in Identities, NEW after \in Identities,
             ProjectChange(i, before, after)
      PROVE  RInv'
  <2>1. /\ changes' = Append(changes, ProjectedChange(Projected(journal[i]), before, after))
        /\ journal' = journal /\ receipts' = receipts
    BY <1>2 DEF ProjectChange
  <2>2. ProjectedChange(Projected(journal[i]), before, after) \in Changed
    BY <1>0 DEF Changed
  <2>3. Recorded'
    BY <1>0, <2>1, <2>2, AppendKeeps DEF Recorded
  <2>4. Traced'
    BY <2>1 DEF RInv, Traced
  <2> QED BY <2>3, <2>4 DEF RInv
<1>3. ASSUME NEW c \in DOMAIN changes, NEW i \in DOMAIN journal, Correlate(c, i) PROVE RInv'
  <2> DEFINE new == Correlated(changes[c], Projected(journal[i]))
  <2>1. receipts' = Append(receipts, new) /\ journal' = journal /\ changes' = changes
    BY <1>3 DEF Correlate
  <2>2. changes[c] \in Changed /\ new \in Received
    BY <1>0 DEF Received
  <2>3. \E cs \in Changed, j \in DOMAIN journal : new = Correlated(cs, Projected(journal[j]))
    BY <2>2
  <2> HIDE DEF new
  <2>4. Recorded'
    BY <1>0, <2>1, <2>2, AppendKeeps DEF Recorded
  <2>5. \A k \in DOMAIN receipts' : (k \in DOMAIN receipts /\ receipts'[k] = receipts[k]) \/ receipts'[k] = new
    BY <1>0, <2>1, <2>2, AppendKeeps
  <2>6. Traced'
    BY <2>1, <2>3, <2>5 DEF RInv, Traced
  <2> QED BY <2>4, <2>6 DEF RInv
<1>4. ASSUME NEW obs \in Observations, NEW expected \in Expectations, Drill(obs, expected) PROVE RInv'
  BY <1>4 DEF Drill, RInv, Recorded, Traced
<1>5. CASE UNCHANGED vars
  BY <1>5 DEF vars, RInv, Recorded, Traced
<1> QED BY <1>1, <1>2, <1>3, <1>4, <1>5 DEF Next, Done

-----------------------------------------------------------------------------
(* What follows from it *)

\* What the validator accepts of a receipt and its change.
LEMMA AcceptedDigests ==
  ASSUME NEW r, NEW cs, ReceiptErrors(r, cs) = {}, r.kind # "not_applicable"
  PROVE  ~Differ(r.pre.digest, cs.after.digest) /\ ~Differ(r.post.digest, cs.before.digest)
<1>1. LinkErrors(r, cs) = {}
  BY DEF ReceiptErrors
<1> QED BY <1>1 DEF LinkErrors, When

LEMMA Confirmed ==
  ASSUME RInv, NEW k \in DOMAIN receipts, receipts[k].status = "confirmed"
  PROVE  /\ \E i \in DOMAIN journal :
              /\ receipts[k].events = <<journal[i].event>>
              /\ Projected(journal[i]).outcome = "succeeded"
              /\ receipts[k].expected.digest = journal[i].digest
         /\ receipts[k].expected.digest # None
         /\ receipts[k].pre.digest = receipts[k].expected.digest
         /\ receipts[k].post.digest = receipts[k].expected.digest
<1>1. PICK cs \in Changed, i \in DOMAIN journal : receipts[k] = Correlated(cs, Projected(journal[i]))
  BY DEF RInv, Traced
<1>2. journal[i] \in SourceRecord
  BY LenProperties, ElementOfSeq DEF RInv, Recorded
<1> DEFINE e == Projected(journal[i])
<1>3. e.event = journal[i].event /\ e.digest = journal[i].digest /\ e.digest # None
  BY <1>2, AdapterKeeps DEF SourceRecord
<1> HIDE DEF e
<1>4. e.outcome = "succeeded" /\ cs.before.digest = e.digest
  BY <1>1, <1>3, ConfirmedByDigest DEF e
<1> DEFINE observed == Identity(cs.kind, cs.owner, Locator(e), e.digest)
<1>5. observed.digest = e.digest
  BY DEF Identity
<1> HIDE DEF observed
<1>6. LET r == Correlated(cs, e)
      IN  r.events = <<e.event>> /\ r.expected = cs.before /\ r.pre = observed /\ r.post = observed
  BY ReceiptFields DEF observed
<1>7. /\ receipts[k].events = <<e.event>> /\ receipts[k].expected = cs.before
      /\ receipts[k].pre = observed /\ receipts[k].post = observed
  BY <1>1, <1>6 DEF e
<1> QED BY <1>3, <1>4, <1>5, <1>7 DEF e

\* A receipt the validator accepts belongs to no change that is known to have changed anything.
LEMMA AcceptedUnchanged ==
  ASSUME RInv, NEW k \in DOMAIN receipts, receipts[k].status = "confirmed",
         ValidFiles(changes, receipts), receipts[k].kind # "not_applicable",
         NEW c \in DOMAIN changes, changes[c].id = receipts[k].change
  PROVE  ~Differ(changes[c].after.digest, changes[c].before.digest)
<1>1. PICK i \in DOMAIN changes :
        /\ changes[i].id = receipts[k].change
        /\ ReceiptErrors(Coerced(receipts[k]), Coerced(changes[i])) = {}
  BY DEF ValidFiles
<1>2. changes[i] \in Changed /\ changes[c] \in Changed
  BY LenProperties, ElementOfSeq DEF RInv, Recorded
<1>3. changes[c].before = changes[i].before /\ changes[c].after = changes[i].after
  BY <1>1, <1>2, SameIdSameChange
<1>4. /\ Coerced(receipts[k]).kind = receipts[k].kind /\ Coerced(receipts[k]).pre = receipts[k].pre
      /\ Coerced(receipts[k]).post = receipts[k].post
  BY ReceiptFields DEF RInv, Traced
<1>5. /\ ~Differ(receipts[k].pre.digest, changes[i].after.digest)
      /\ ~Differ(receipts[k].post.digest, changes[i].before.digest)
  BY <1>1, <1>2, <1>4, ChangeUnderItsId, AcceptedDigests
<1>6. /\ receipts[k].pre.digest = receipts[k].expected.digest
      /\ receipts[k].post.digest = receipts[k].expected.digest
      /\ receipts[k].expected.digest # None
  BY Confirmed
<1> QED BY <1>3, <1>5, <1>6 DEF Differ

\* A rollback is confirmed only by a success that was seen to restore the digest the change
\* was recorded to have started from: for any records, objects and number of change sets.
THEOREM ConfirmedWasRestored == Spec => []NeverFalselyConfirmed
<1>1. Init => RInv
  BY DEF Init, RInv, Recorded, Traced
<1>2. RInv => NeverFalselyConfirmed
  BY Confirmed, AcceptedUnchanged DEF NeverFalselyConfirmed
<1> QED BY <1>1, <1>2, NextRInv, PTL DEF Spec

-----------------------------------------------------------------------------
(* Drills *)

\* What can be verified, and what the verification makes of it.
Verifiable == {d \in [obs : Observations, expected : Expectations] : Comparable(d.obs.seen, d.expected.seen)}
Scored == {VerifyScenario(d.obs, d.expected, <<>>, <<>>) : d \in Verifiable}

VInv == drilled \in Seq(Verifiable)

\* What a passing drill asks of one scenario.
Restored(d) ==
  /\ d.obs.outcome = "succeeded" /\ d.expected.outcome = "succeeded"
  /\ DigestOf(d.obs.seen) = DigestOf(d.expected.seen)
  /\ ~OfOneType(d.obs.seen) /\ ~OfOneType(d.expected.seen)

\* What is classified as exact has the digest that was expected, and what can be verified
\* as exact has a value of its own beside it.
LEMMA ExactIsRestored ==
  ASSUME NEW d \in Verifiable
  PROVE  LET v == VerifyScenario(d.obs, d.expected, <<>>, <<>>)
         IN  /\ v.class = "exact" => Restored(d)
             /\ v.gained \in Nat /\ (v.gained = 0 => d.obs.gained = {})
             /\ v.safe = d.obs.safe
<1> DEFINE v == VerifyScenario(d.obs, d.expected, <<>>, <<>>)
<1>1. /\ v.class = ClassifyOutcome(d.obs, d.expected) /\ v.gained = Cardinality(d.obs.gained)
      /\ v.safe = d.obs.safe
  BY DEF VerifyScenario
<1>2. IsFiniteSet(d.obs.gained)
  BY AuditAssumption DEF Verifiable
<1>3. v.gained \in Nat /\ (v.gained = 0 => d.obs.gained = {})
  BY <1>1, <1>2, FS_CardinalityType, FS_EmptySet
<1>4. ClassifyOutcome(d.obs, d.expected) = "exact" =>
        /\ d.obs.outcome = "succeeded" /\ d.expected.outcome = "succeeded"
        /\ None \notin {DigestOf(d.obs.seen), DigestOf(d.expected.seen)}
        /\ DigestOf(d.obs.seen) = DigestOf(d.expected.seen)
  BY DEF ClassifyOutcome
<1>5. None \notin {DigestOf(d.obs.seen), DigestOf(d.expected.seen)} =>
        ~OfOneType(d.obs.seen) /\ ~OfOneType(d.expected.seen)
  BY DEF Verifiable, Comparable, DigestOf, OfOneType
<1> QED BY <1>1, <1>3, <1>4, <1>5 DEF Restored

LEMMA ScoredFields ==
  ASSUME NEW s \in Seq(Scored)
  PROVE  DOMAIN s = 1 .. Len(s) /\ Len(s) \in Nat /\ \A i \in DOMAIN s : s[i].gained \in Nat
BY LenProperties, ElementOfSeq, ExactIsRestored DEF Scored

\* Nothing was gained in all only if nothing was in any scenario.
LEMMA NothingGained ==
  ASSUME NEW s \in Seq(Scored), ~(Gained(s) > 0)
  PROVE  \A i \in DOMAIN s : s[i].gained = 0
<1> DEFINE part == [i \in DOMAIN s |-> {i} \X (1 .. s[i].gained)]
           parts == {part[i] : i \in DOMAIN s}
<1>1. DOMAIN s = 1 .. Len(s) /\ Len(s) \in Nat /\ \A i \in DOMAIN s : s[i].gained \in Nat
  BY ScoredFields
<1>2. IsFiniteSet(DOMAIN s)
  BY <1>1, FS_Interval
<1>3. part \in Surjection(DOMAIN s, parts)
  BY DEF Surjection
<1>4. IsFiniteSet(parts)
  BY <1>2, <1>3, FS_Surjection
<1>5. \A i \in DOMAIN s : IsFiniteSet(part[i])
  <2> TAKE i \in DOMAIN s
  <2>0. \A n \in Nat : IsFiniteSet(1 .. n)
    BY FS_Interval
  <2>1. IsFiniteSet({i}) /\ IsFiniteSet(1 .. s[i].gained)
    BY <1>1, <2>0, FS_Singleton
  <2> QED BY <2>1, FS_Product
<1>6. IsFiniteSet(UNION parts)
  BY <1>4, <1>5, FS_UNION
<1>7. Gained(s) = Cardinality(UNION parts)
  BY DEF Gained
<1>8. UNION parts = {}
  <2> DEFINE all == UNION parts
  <2>1. IsFiniteSet(all) /\ Gained(s) = Cardinality(all)
    BY <1>6, <1>7
  <2> HIDE DEF all
  <2>2. Cardinality(all) \in Nat
    BY <2>1, FS_CardinalityType
  <2>3. Cardinality(all) = 0
    BY <2>1, <2>2
  <2>4. all = {}
    BY <2>1, <2>3, FS_EmptySet
  <2> QED BY <2>4 DEF all
<1> SUFFICES ASSUME NEW i \in DOMAIN s, s[i].gained # 0 PROVE FALSE
  OBVIOUS
<1>9. <<i, 1>> \in part[i]
  BY <1>1
<1>10. <<i, 1>> \in UNION parts
  BY <1>9
<1> QED BY <1>8, <1>10

LEMMA PassNeedsAll ==
  ASSUME NEW s \in Seq(Scored), Verdict(Metrics(s)) = "pass"
  PROVE  \A i \in DOMAIN s : s[i].class = "exact" /\ s[i].safe /\ s[i].gained = 0
<1> DEFINE exact == {i \in DOMAIN s : s[i].class = "exact"}
           unsafe == {i \in DOMAIN s : ~s[i].safe}
           m == Metrics(s)
<1>1. DOMAIN s = 1 .. Len(s) /\ Len(s) \in Nat /\ \A i \in DOMAIN s : s[i] \in Scored
  BY LenProperties, ElementOfSeq
<1>2. \A n \in Nat : IsFiniteSet(1 .. n) /\ Cardinality(1 .. n) = n
  BY FS_Interval
<1>3. IsFiniteSet(DOMAIN s) /\ Cardinality(DOMAIN s) = Len(s)
  BY <1>1, <1>2
<1>4. /\ m.unsafe = Cardinality(unsafe) /\ m.gained = Gained(s)
      /\ m.count["exact"] = Cardinality(exact) /\ m.total = Len(s)
  BY DEF Metrics, Counted, Classes
<1>5. ~(m.unsafe > 0) /\ ~(m.gained > 0) /\ m.count["exact"] = m.total
  BY DEF Verdict
<1> HIDE DEF m
<1>6. exact = DOMAIN s
  BY <1>3, <1>4, <1>5, FS_Subset
<1>7. unsafe = {}
  <2>1. IsFiniteSet(unsafe)
    BY <1>3, FS_Subset
  <2> HIDE DEF unsafe
  <2>2. Cardinality(unsafe) = 0
    BY <1>4, <1>5, <2>1, FS_CardinalityType
  <2> QED BY <2>1, <2>2, FS_EmptySet
<1>8. \A i \in DOMAIN s : s[i].gained = 0
  BY <1>4, <1>5, NothingGained
<1> QED BY <1>1, <1>6, <1>7, <1>8

\* The drill script sees nothing but unknown outcomes.
LEMMA DrillHolds ==
  ASSUME NEW reverted
  PROVE  DrillVerdict(reverted) = "hold"
<1> DEFINE s == [i \in DOMAIN Scenarios |-> DrillScenario(Scenarios[i], reverted)]
           m == Metrics(s)
<1>1. \A i \in DOMAIN s : s[i].class = "unknown" /\ s[i].safe /\ s[i].gained = 0
  BY DEF DrillScenario
<1>2. DrillVerdict(reverted) = Verdict(m)
  BY DEF DrillVerdict
<1> HIDE DEF s
<1>3. Cardinality({}) = 0
  BY FS_EmptySet
<1>4. m.unsafe = 0
  <2>1. {i \in DOMAIN s : ~s[i].safe} = {}
    BY <1>1
  <2> QED BY <1>3, <2>1 DEF Metrics, Counted
<1>5. m.gained = 0
  <2>1. \A i \in DOMAIN s : {i} \X (1 .. s[i].gained) = {}
    BY <1>1
  <2>2. UNION {{i} \X (1 .. s[i].gained) : i \in DOMAIN s} = {}
    BY <2>1
  <2> QED BY <1>3, <2>2 DEF Metrics, Gained
<1>6. m.count["invalid"] = 0 /\ m.count["exact"] = 0
  <2>1. {i \in DOMAIN s : s[i].class = "invalid"} = {} /\ {i \in DOMAIN s : s[i].class = "exact"} = {}
    BY <1>1
  <2> QED BY <1>3, <2>1 DEF Metrics, Counted, Classes
<1> HIDE DEF m
<1> QED BY <1>2, <1>4, <1>5, <1>6 DEF Verdict

\* A drill passes only if every rollback reports the success and the digest expected of it,
\* safely and without gaining authority, and not with the repository's own types; the drill
\* script's own run never passes: for any identities and any number of scenarios.
THEOREM PassedIsExact == Spec => []PassMeansAllExact
<1>1. Init => VInv
  BY DEF Init, VInv
<1>2. VInv /\ [Next]_vars => VInv'
  <2> SUFFICES ASSUME VInv, [Next]_vars PROVE VInv'
    OBVIOUS
  <2>1. ASSUME NEW obs \in Observations, NEW expected \in Expectations, Drill(obs, expected) PROVE VInv'
    <3>1. [obs |-> obs, expected |-> expected] \in Verifiable
      BY <2>1 DEF Drill, Verifiable
    <3>2. drilled' = Append(drilled, [obs |-> obs, expected |-> expected])
      BY <2>1 DEF Drill
    <3> QED BY <3>1, <3>2, AppendProperties DEF VInv
  <2>2. drilled' = drilled \/ \E obs \in Observations, expected \in Expectations : Drill(obs, expected)
    BY DEF Next, Log, ProjectChange, Correlate, Done, vars
  <2> QED BY <2>1, <2>2 DEF VInv
<1>3. VInv => PassMeansAllExact
  <2> SUFFICES ASSUME VInv, Verdict(Metrics(Verified)) = "pass", NEW i \in DOMAIN drilled
               PROVE  Restored(drilled[i]) /\ drilled[i].obs.safe /\ drilled[i].obs.gained = {}
    BY DrillHolds DEF PassMeansAllExact, Restored
  <2>1. /\ DOMAIN drilled = 1 .. Len(drilled) /\ Len(drilled) \in Nat
        /\ \A k \in DOMAIN drilled : drilled[k] \in Verifiable
    BY LenProperties, ElementOfSeq DEF VInv
  <2> DEFINE score(k) == VerifyScenario(drilled[k].obs, drilled[k].expected, <<>>, <<>>)
  <2>2. \A k \in DOMAIN drilled : score(k) \in Scored
    BY <2>1 DEF Scored
  <2>3. Verified = [k \in 1 .. Len(drilled) |-> score(k)]
    BY <2>1 DEF Verified
  <2> HIDE DEF score
  <2>4. Verified \in Seq(Scored) /\ DOMAIN Verified = DOMAIN drilled /\ Verified[i] = score(i)
    BY <2>1, <2>2, <2>3
  <2>5. score(i).class = "exact" /\ score(i).safe /\ score(i).gained = 0
    BY <2>4, PassNeedsAll
  <2> QED BY <2>1, <2>5, ExactIsRestored DEF score
<1> QED BY <1>1, <1>2, <1>3, PTL DEF Spec

-----------------------------------------------------------------------------
(* The order in which envelopes are passed in *)

\* f is e with its n places turned round by t, which turns them back as well.
Turned(e, f, n, t) ==
  /\ n \in Nat /\ DOMAIN e = 1 .. n /\ Len(e) = n /\ DOMAIN f = 1 .. n /\ Len(f) = n
  /\ t \in [1 .. n -> 1 .. n] /\ \A i \in 1 .. n : t[t[i]] = i
  /\ \A i \in 1 .. n : f[i] = e[t[i]]

LEMMA TurnedBack ==
  ASSUME NEW e, NEW f, NEW n, NEW t, Turned(e, f, n, t)
  PROVE  Turned(f, e, n, t)
<1>1. \A i \in 1 .. n : t[i] \in 1 .. n /\ f[t[i]] = e[t[t[i]]] /\ t[t[i]] = i
  BY DEF Turned
<1> QED BY <1>1 DEF Turned

\* Places that t takes to each other are as many.
LEMMA Recount ==
  ASSUME NEW e, NEW f, NEW n, NEW t, Turned(e, f, n, t),
         NEW A \in SUBSET (1 .. n), NEW B \in SUBSET (1 .. n),
         \A i \in 1 .. n : i \in B <=> t[i] \in A
  PROVE  Cardinality(A) = Cardinality(B)
<1> DEFINE g == [i \in B |-> t[i]]
<1>1. /\ n \in Nat /\ t \in [1 .. n -> 1 .. n] /\ \A i \in 1 .. n : t[t[i]] = i
  BY DEF Turned
<1>2. IsFiniteSet(B)
  <2>1. IsFiniteSet(1 .. n)
    BY <1>1, FS_Interval
  <2> QED BY <2>1, FS_Subset
<1>3. g \in Injection(B, A)
  <2>1. g \in [B -> A]
    OBVIOUS
  <2>2. \A i, j \in B : g[i] = g[j] => i = j
    BY <1>1
  <2> QED BY <2>1, <2>2 DEF Injection, IsInjective
<1>4. g \in Surjection(B, A)
  <2>1. \A a \in A : t[a] \in B /\ g[t[a]] = a
    BY <1>1
  <2> QED BY <1>3, <2>1 DEF Injection, Surjection
<1>5. ExistsBijection(B, A)
  BY <1>3, <1>4 DEF ExistsBijection, Bijection
<1> QED BY <1>2, <1>5, FS_Bijection

LEMMA SameIds ==
  ASSUME NEW e, NEW f, NEW n, NEW t, Turned(e, f, n, t)
  PROVE  Ids(f) = Ids(e)
<1>1. Ids(f) \subseteq Ids(e)
  BY DEF Turned, Ids
<1>2. Ids(e) \subseteq Ids(f)
  BY TurnedBack DEF Turned, Ids
<1> QED BY <1>1, <1>2

LEMMA SameBetween ==
  ASSUME NEW e, NEW f, NEW n, NEW t, Turned(e, f, n, t), NEW a, NEW b
  PROVE  Between(f, a, b) = Between(e, a, b)
<1> DEFINE Parent(g) == {i \in DOMAIN g : g[i].event = b /\ g[i].parent = a}
           Cause(g) == {i \in DOMAIN g : g[i].event = b /\ a \in g[i].causes}
<1>1. /\ Parent(e) \in SUBSET (1 .. n) /\ Parent(f) \in SUBSET (1 .. n)
      /\ \A i \in 1 .. n : i \in Parent(f) <=> t[i] \in Parent(e)
      /\ Cause(e) \in SUBSET (1 .. n) /\ Cause(f) \in SUBSET (1 .. n)
      /\ \A i \in 1 .. n : i \in Cause(f) <=> t[i] \in Cause(e)
  BY DEF Turned
<1> HIDE DEF Parent, Cause
<1>2. Cardinality(Parent(e)) = Cardinality(Parent(f)) /\ Cardinality(Cause(e)) = Cardinality(Cause(f))
  BY <1>1, Recount
<1> QED BY <1>2 DEF Between, Parent, Cause

\* The nodes come out in one order.
LEMMA SameNodes ==
  ASSUME NEW e, NEW f, NEW n, NEW t, Turned(e, f, n, t)
  PROVE  Ascending([i \in DOMAIN f |-> f[i].event]) = Ascending([i \in DOMAIN e |-> e[i].event])
<1> DEFINE u == [i \in DOMAIN e |-> e[i].event]
           v == [i \in DOMAIN f |-> f[i].event]
           Less(s, x) == {i \in DOMAIN s : s[i] < x}
           UpTo(s, x) == {i \in DOMAIN s : s[i] <= x}
<1>1. /\ DOMAIN u = 1 .. n /\ DOMAIN v = 1 .. n /\ \A i \in 1 .. n : t[i] \in 1 .. n /\ v[i] = u[t[i]]
      /\ {u[i] : i \in DOMAIN u} = {v[i] : i \in DOMAIN v}
  <2>1. {u[i] : i \in DOMAIN u} = Ids(e) /\ {v[i] : i \in DOMAIN v} = Ids(f)
    BY DEF Ids
  <2> QED BY <2>1, SameIds DEF Turned
<1> HIDE DEF u, v
<1>2. \A x : /\ Cardinality(Less(v, x)) = Cardinality(Less(u, x))
             /\ Cardinality(UpTo(v, x)) = Cardinality(UpTo(u, x))
  <2> TAKE x
  <2>1. /\ Less(u, x) \in SUBSET (1 .. n) /\ Less(v, x) \in SUBSET (1 .. n)
        /\ \A i \in 1 .. n : i \in Less(v, x) <=> t[i] \in Less(u, x)
        /\ UpTo(u, x) \in SUBSET (1 .. n) /\ UpTo(v, x) \in SUBSET (1 .. n)
        /\ \A i \in 1 .. n : i \in UpTo(v, x) <=> t[i] \in UpTo(u, x)
    BY <1>1
  <2> HIDE DEF Less, UpTo
  <2> QED BY <2>1, Recount
<1> DEFINE At(s, k) == CHOOSE x \in {s[i] : i \in DOMAIN s} :
                         Cardinality(Less(s, x)) < k /\ k <= Cardinality(UpTo(s, x))
<1>3. Ascending(u) = [k \in 1 .. n |-> At(u, k)] /\ Ascending(v) = [k \in 1 .. n |-> At(v, k)]
  BY <1>1 DEF Ascending
<1> HIDE DEF Less, UpTo
<1>4. \A k : At(v, k) = At(u, k)
  BY <1>1, <1>2
<1> HIDE DEF At
<1>5. Ascending(u) = Ascending(v)
  BY <1>3, <1>4
<1> QED BY <1>5 DEF u, v

\* The mentions of causes by the envelopes with one id.
Mentions(envs, id) == UNION {{i} \X envs[i].causes : i \in {j \in DOMAIN envs : envs[j].event = id}}

LEMMA MentionsFinite ==
  ASSUME NEW e, NEW n \in Nat, DOMAIN e = 1 .. n, \A i \in 1 .. n : IsFiniteSet(e[i].causes), NEW b
  PROVE  IsFiniteSet(Mentions(e, b))
<1> DEFINE part == [i \in {j \in DOMAIN e : e[j].event = b} |-> {i} \X e[i].causes]
           parts == {part[i] : i \in DOMAIN part}
<1>1. IsFiniteSet(DOMAIN part)
  <2>1. IsFiniteSet(1 .. n) /\ DOMAIN part \in SUBSET (1 .. n)
    BY FS_Interval
  <2> HIDE DEF part
  <2> QED BY <2>1, FS_Subset
<1>2. part \in Surjection(DOMAIN part, parts)
  BY DEF Surjection
<1>3. IsFiniteSet(parts)
  BY <1>1, <1>2, FS_Surjection
<1>4. \A i \in DOMAIN part : IsFiniteSet(part[i])
  <2> TAKE i \in DOMAIN part
  <2>1. IsFiniteSet({i}) /\ IsFiniteSet(e[i].causes)
    BY FS_Singleton
  <2> QED BY <2>1, FS_Product
<1>5. IsFiniteSet(UNION parts)
  BY <1>3, <1>4, FS_UNION
<1> QED BY <1>5 DEF Mentions

LEMMA SameInto ==
  ASSUME NEW e, NEW f, NEW n, NEW t, Turned(e, f, n, t),
         \A i \in 1 .. n : IsFiniteSet(e[i].causes), NEW b
  PROVE  Into(f, b) = Into(e, b)
<1> DEFINE Parent(g) == {i \in DOMAIN g : g[i].event = b /\ g[i].parent # None}
           M == Mentions(f, b)
           N == Mentions(e, b)
           h == [p \in M |-> <<t[p[1]], p[2]>>]
<1>1. Cardinality(Parent(e)) = Cardinality(Parent(f))
  <2>1. /\ Parent(e) \in SUBSET (1 .. n) /\ Parent(f) \in SUBSET (1 .. n)
        /\ \A i \in 1 .. n : i \in Parent(f) <=> t[i] \in Parent(e)
    BY DEF Turned
  <2> HIDE DEF Parent
  <2> QED BY <2>1, Recount
<1>2. \A i \in 1 .. n : IsFiniteSet(f[i].causes)
  BY DEF Turned
<1>3. IsFiniteSet(M)
  BY <1>2, MentionsFinite DEF Turned
<1>4. /\ \A p \in M : /\ p = <<p[1], p[2]>> /\ p[1] \in 1 .. n
                      /\ f[p[1]].event = b /\ p[2] \in f[p[1]].causes
      /\ \A i \in 1 .. n : \A c : e[i].event = b /\ c \in e[i].causes => <<i, c>> \in N
      /\ \A p \in N : /\ p = <<p[1], p[2]>> /\ p[1] \in 1 .. n
                      /\ e[p[1]].event = b /\ p[2] \in e[p[1]].causes
      /\ \A i \in 1 .. n : \A c : f[i].event = b /\ c \in f[i].causes => <<i, c>> \in M
  BY DEF Mentions, Turned
<1> HIDE DEF M, N
<1>5. \A i \in 1 .. n : t[i] \in 1 .. n /\ f[i] = e[t[i]] /\ t[t[i]] = i
  BY DEF Turned
<1>6. h \in Injection(M, N)
  <2>1. h \in [M -> N]
    BY <1>4, <1>5
  <2>2. \A p, q \in M : h[p] = h[q] => p = q
    BY <1>4, <1>5
  <2> QED BY <2>1, <2>2 DEF Injection, IsInjective
<1>7. h \in Surjection(M, N)
  <2>1. ASSUME NEW p \in N PROVE \E q \in M : h[q] = p
    <3>1. <<t[p[1]], p[2]>> \in M
      BY <1>4, <1>5
    <3>2. h[<<t[p[1]], p[2]>>] = p
      BY <1>4, <1>5, <3>1
    <3> QED BY <3>1, <3>2
  <2> QED BY <1>6, <2>1 DEF Injection, Surjection
<1>8. ExistsBijection(M, N)
  BY <1>6, <1>7 DEF ExistsBijection, Bijection
<1>9. Cardinality(M) = Cardinality(N)
  BY <1>3, <1>8, FS_Bijection
<1> QED BY <1>1, <1>9 DEF Into, Mentions, M, N

\* So the lineage is sorted into one order.
LEMMA SameTopology ==
  ASSUME NEW e, NEW f, NEW n, NEW t, Turned(e, f, n, t),
         \A i \in 1 .. n : IsFiniteSet(e[i].causes)
  PROVE  /\ TopologicalSort(f) = TopologicalSort(e)
         /\ HasCausalCycle(f) = HasCausalCycle(e)
<1> DEFINE ids == Ids(e)
           nodes(g) == Ascending([i \in DOMAIN g |-> g[i].event])
           into(g) == [k \in ids |-> Into(g, k)]
           between(g) == [a \in ids |-> [b \in ids |-> Between(g, a, b)]]
<1>1. Ids(f) = ids
  BY SameIds
<1>2. nodes(f) = nodes(e)
  BY SameNodes
<1>3. into(f) = into(e)
  BY SameInto
<1>4. between(f) = between(e)
  <2>1. \A a, b : Between(f, a, b) = Between(e, a, b)
    BY SameBetween
  <2> QED BY <2>1
<1>5. /\ TopologicalSort(e) = Kahn(ids, nodes(e), into(e), between(e))
      /\ TopologicalSort(f) = Kahn(ids, nodes(f), into(f), between(f))
  BY <1>1 DEF TopologicalSort
<1>6. TopologicalSort(f) = TopologicalSort(e)
  <2> HIDE DEF ids, nodes, into, between
  <2> QED BY <1>2, <1>3, <1>4, <1>5
<1>7. HasCausalCycle(f) = HasCausalCycle(e)
  <2> DEFINE Reaches(g, S, k) == \E i \in DOMAIN g :
                                  g[i].event = k /\ (g[i].parent \in S \/ g[i].causes \cap S # {})
  <2>1. \A S, k : Reaches(f, S, k) => Reaches(e, S, k)
    BY DEF Turned
  <2>2. \A S, k : Reaches(e, S, k) => Reaches(f, S, k)
    BY TurnedBack DEF Turned
  <2>3. /\ HasCausalCycle(e) = \E S \in SUBSET ids \ {{}} : \A k \in S : Reaches(e, S, k)
        /\ HasCausalCycle(f) = \E S \in SUBSET ids \ {{}} : \A k \in S : Reaches(f, S, k)
    BY <1>1 DEF HasCausalCycle
  <2> HIDE DEF Reaches
  <2> QED BY <2>1, <2>2, <2>3
<1> QED BY <1>6, <1>7

\* What is wrong with an envelope of f is wrong with one of e, for the same event.
LEMMA FailuresAmong ==
  ASSUME NEW e, NEW f, NEW n, NEW t, Turned(e, f, n, t)
  PROVE  Listed(Failures(f)) \subseteq Listed(Failures(e))
<1> DEFINE Twice(g, i) == IF \E j \in 1 .. i - 1 : g[j].event = g[i].event
                          THEN {"malformed_record"} ELSE {}
           Alone(g, i) == (IF g[i].intact THEN {} ELSE {"payload_hash_mismatch"})
                          \cup (IF Dangling(g, g[i].parent) THEN {"missing_parent"} ELSE {})
                          \cup (IF \E c \in g[i].causes : Dangling(g, c) THEN {"missing_cause"} ELSE {})
<1>1. /\ n \in Nat /\ DOMAIN e = 1 .. n /\ DOMAIN f = 1 .. n
      /\ \A i \in 1 .. n : t[i] \in 1 .. n /\ f[i] = e[t[i]] /\ t[t[i]] = i
  BY DEF Turned
<1>2. \A c : Dangling(f, c) <=> Dangling(e, c)
  BY SameIds DEF Dangling
<1>3. \A i \in 1 .. n : Alone(f, i) = Alone(e, t[i])
  BY <1>1, <1>2
<1>4. \A g, i : Wrong(g, i) = {g[i].event} \X (Twice(g, i) \cup Alone(g, i))
  BY DEF Wrong
<1>5. \A i \in 1 .. n : \E k \in 1 .. n : e[k].event = f[i].event /\ Twice(f, i) \subseteq Twice(e, k)
  <2> SUFFICES ASSUME NEW i \in 1 .. n
               PROVE  \E k \in 1 .. n : e[k].event = f[i].event /\ Twice(f, i) \subseteq Twice(e, k)
    OBVIOUS
  <2>1. t[i] \in 1 .. n /\ e[t[i]].event = f[i].event
    BY <1>1
  <2>2. CASE \E j \in 1 .. i - 1 : f[j].event = f[i].event
    <3>1. PICK j \in 1 .. i - 1 : f[j].event = f[i].event
      BY <2>2
    <3>2. /\ t[j] \in 1 .. n /\ t[i] # t[j] /\ e[t[j]].event = e[t[i]].event
      BY <1>1, <3>1
    <3>3. CASE t[j] < t[i]
      <4>1. t[j] \in 1 .. t[i] - 1
        BY <1>1, <2>1, <3>2, <3>3
      <4> QED BY <2>1, <3>2, <4>1
    <3>4. CASE t[i] < t[j]
      <4>1. t[i] \in 1 .. t[j] - 1
        BY <1>1, <2>1, <3>2, <3>4
      <4>2. e[t[j]].event = f[i].event /\ Twice(e, t[j]) = {"malformed_record"}
        BY <2>1, <3>2, <4>1
      <4> QED BY <3>2, <4>2
    <3> QED BY <1>1, <2>1, <3>2, <3>3, <3>4
  <2>3. CASE ~ \E j \in 1 .. i - 1 : f[j].event = f[i].event
    BY <2>1, <2>3
  <2> QED BY <2>2, <2>3
<1> HIDE DEF Twice, Alone
<1>6. ASSUME NEW i \in 1 .. n, NEW x \in Wrong(f, i) PROVE \E k \in 1 .. n : x \in Wrong(e, k)
  <2>1. PICK code \in Twice(f, i) \cup Alone(f, i) : x = <<f[i].event, code>>
    BY <1>4, <1>6
  <2>2. CASE code \in Alone(f, i)
    <3>1. t[i] \in 1 .. n /\ f[i].event = e[t[i]].event /\ code \in Alone(e, t[i])
      BY <1>1, <1>3, <2>2
    <3> QED BY <1>4, <2>1, <3>1
  <2>3. CASE code \in Twice(f, i)
    <3>1. PICK k \in 1 .. n : e[k].event = f[i].event /\ code \in Twice(e, k)
      BY <1>5, <2>3
    <3> QED BY <1>4, <2>1, <3>1
  <2> QED BY <2>1, <2>2, <2>3
<1>7. /\ Listed(Failures(f)) = UNION {Wrong(f, i) : i \in 1 .. n}
      /\ Listed(Failures(e)) = UNION {Wrong(e, i) : i \in 1 .. n}
  BY <1>1 DEF Listed, Failures
<1> QED BY <1>6, <1>7

LEMMA SameFindings ==
  ASSUME NEW e, NEW f, NEW n, NEW t, Turned(e, f, n, t)
  PROVE  /\ Listed(Failures(f)) = Listed(Failures(e))
         /\ Listed(Unknowns(f)) = Listed(Unknowns(e))
<1>1. Listed(Failures(f)) = Listed(Failures(e))
  BY TurnedBack, FailuresAmong
<1>2. Listed(Unknowns(f)) \subseteq Listed(Unknowns(e))
  BY DEF Turned, Unknowns, Listed
<1>3. Listed(Unknowns(e)) \subseteq Listed(Unknowns(f))
  BY TurnedBack DEF Turned, Unknowns, Listed
<1> QED BY <1>1, <1>2, <1>3

\* SortedBy with its places at hand.
SortedIn(s, places, before) ==
  [n \in places |-> CHOOSE x \in {s[i] : i \in places} :
                      \E i \in places : s[i] = x /\ Place(places, before, i) = n - 1]

LEMMA SortedOn ==
  ASSUME NEW s, NEW places, DOMAIN s = places, NEW before
  PROVE  SortedBy(s, before) = SortedIn(s, places, before)
<1>1. SortedBy(s, before) = SortedIn(s, DOMAIN s, before)
  BY Zenon DEF SortedBy, SortedIn
<1> QED BY <1>1

\* With one envelope for an id, there is one order to replay them in.
LEMMA SameOrder ==
  ASSUME NEW e, NEW f, NEW n, NEW t, Turned(e, f, n, t),
         \A i \in 1 .. n : IsFiniteSet(e[i].causes),
         \A i, j \in 1 .. n : e[i].event = e[j].event => i = j
  PROVE  Ordered(f) = Ordered(e)
<1> DEFINE all == {e[i] : i \in DOMAIN e}
           Only(g, x, k) == \E i \in DOMAIN g : /\ g[i] = x /\ x.event = k
                                               /\ \A j \in i + 1 .. Len(g) : g[j].event # k
           Pick(g, k) == CHOOSE x \in {g[i] : i \in DOMAIN g} : Only(g, x, k)
<1>0. /\ n \in Nat /\ DOMAIN e = 1 .. n /\ Len(e) = n /\ DOMAIN f = 1 .. n /\ Len(f) = n
      /\ \A i \in 1 .. n : t[i] \in 1 .. n /\ f[i] = e[t[i]] /\ t[t[i]] = i /\ e[i] = f[t[i]]
  BY DEF Turned
<1>1. {f[i] : i \in DOMAIN f} = all
  BY <1>0
<1>2. \A i, j \in 1 .. n : f[i].event = f[j].event => i = j
  BY <1>0
<1>3. \A x, k : Only(e, x, k) <=> \E i \in 1 .. n : e[i] = x /\ x.event = k
  BY <1>0
<1>4. \A x, k : Only(f, x, k) <=> \E i \in 1 .. n : f[i] = x /\ x.event = k
  BY <1>0, <1>2
<1> HIDE DEF Only, all
<1>5. \A x, k : Only(f, x, k) <=> Only(e, x, k)
  BY <1>0, <1>3, <1>4
<1>6. \A k : Pick(f, k) = Pick(e, k)
  <2>1. \A k : Pick(f, k) = CHOOSE x \in all : Only(f, x, k)
    BY <1>1
  <2>2. \A k : Pick(e, k) = CHOOSE x \in all : Only(e, x, k)
    BY DEF all
  <2> QED BY <1>5, <2>1, <2>2
<1>7. ByStream(f) = ByStream(e)
  <2> DEFINE Before(g, a, b) == \/ g[a].seq < g[b].seq
                                \/ g[a].seq = g[b].seq /\ g[a].event < g[b].event
                                \/ g[a].seq = g[b].seq /\ g[a].event = g[b].event /\ a < b
             pairs(g) == {p \in (1 .. n) \X (1 .. n) : Before(g, p[1], p[2])}
             At(g, i) == Place(1 .. n, pairs(g), i)
  <2>1. \A i, j \in 1 .. n : Before(f, i, j) <=> Before(e, t[i], t[j])
    BY <1>0, <1>2
  <2>2. ByStream(e) = SortedBy(e, pairs(e)) /\ ByStream(f) = SortedBy(f, pairs(f))
    BY <1>0 DEF ByStream
  <2>3. \A i, j \in 1 .. n : <<i, j>> \in pairs(f) <=> <<t[i], t[j]>> \in pairs(e)
    <3> HIDE DEF Before
    <3> QED BY <1>0, <2>1
  <2> HIDE DEF pairs
  <2>4. \A i \in 1 .. n : At(f, i) = At(e, t[i])
    <3> TAKE i \in 1 .. n
    <3> DEFINE A == {y \in 1 .. n : <<y, t[i]>> \in pairs(e)}
               B == {y \in 1 .. n : <<y, i>> \in pairs(f)}
    <3>1. /\ A \in SUBSET (1 .. n) /\ B \in SUBSET (1 .. n)
          /\ \A y \in 1 .. n : y \in B <=> t[y] \in A
      BY <1>0, <2>3
    <3>2. Cardinality(A) = Cardinality(B)
      <4> HIDE DEF A, B
      <4> QED BY <3>1, Recount
    <3> QED BY <3>2 DEF Place
  <2> DEFINE Here(g, x, m) == \E i \in 1 .. n : g[i] = x /\ At(g, i) = m - 1
  <2>5. \A x, m : Here(f, x, m) <=> Here(e, x, m)
    <3> HIDE DEF At
    <3> QED BY <1>0, <2>4
  <2> DEFINE Value(g, m) == CHOOSE x \in {g[i] : i \in 1 .. n} : Here(g, x, m)
             sorted(g) == SortedIn(g, 1 .. n, pairs(g))
  <2>6. SortedBy(e, pairs(e)) = sorted(e) /\ SortedBy(f, pairs(f)) = sorted(f)
    <3>1. DOMAIN e = 1 .. n /\ DOMAIN f = 1 .. n
      BY <1>0
    <3>2. SortedBy(e, pairs(e)) = SortedIn(e, 1 .. n, pairs(e))
      BY <3>1, SortedOn
    <3>3. SortedBy(f, pairs(f)) = SortedIn(f, 1 .. n, pairs(f))
      BY <3>1, SortedOn
    <3> QED BY <3>2, <3>3
  <2>7. sorted(e) = [m \in 1 .. n |-> Value(e, m)] /\ sorted(f) = [m \in 1 .. n |-> Value(f, m)]
    BY Zenon DEF SortedIn
  <2> HIDE DEF Here, sorted
  <2>8. \A m : Value(f, m) = Value(e, m)
    <3>1. {f[i] : i \in 1 .. n} = {e[i] : i \in 1 .. n}
      BY <1>0
    <3> QED BY <2>5, <3>1
  <2> HIDE DEF Value
  <2>9. sorted(e) = sorted(f)
    BY <2>7, <2>8
  <2> QED BY <2>2, <2>6, <2>9, Zenon
<1>8. TopologicalSort(f) = TopologicalSort(e)
  BY SameTopology
<1> DEFINE order == TopologicalSort(e)
<1>9. /\ Ordered(e) = IF order # <<>> THEN [i \in DOMAIN order |-> Pick(e, order[i])] ELSE ByStream(e)
      /\ Ordered(f) = IF order # <<>> THEN [i \in DOMAIN order |-> Pick(f, order[i])] ELSE ByStream(f)
  BY <1>8 DEF Ordered, Only
<1> HIDE DEF Pick, order
<1> QED BY <1>6, <1>7, <1>9

LEMMA SameReplay ==
  ASSUME NEW e, NEW f, NEW n, NEW t, Turned(e, f, n, t),
         \A i \in 1 .. n : IsFiniteSet(e[i].causes), NEW strict
  PROVE  /\ Replay(f, strict).status = Replay(e, strict).status
         /\ Replay(f, strict).level = Replay(e, strict).level
         /\ Listed(Replay(f, strict).failures) = Listed(Replay(e, strict).failures)
         /\ Listed(Replay(f, strict).unknowns) = Listed(Replay(e, strict).unknowns)
         /\ Cardinality(Ids(e)) = Len(e) => Replay(f, strict).state = Replay(e, strict).state
<1>1. TopologicalSort(f) = TopologicalSort(e) /\ HasCausalCycle(f) = HasCausalCycle(e)
  BY SameTopology
<1>2. Listed(Failures(f)) = Listed(Failures(e)) /\ Listed(Unknowns(f)) = Listed(Unknowns(e))
  BY SameFindings
<1>3. Level(f) = Level(e) /\ Status(f, strict) = Status(e, strict)
  BY <1>2 DEF Level, Status
<1>4. Cardinality(Ids(e)) = Len(e) => Ordered(f) = Ordered(e)
  <2> SUFFICES ASSUME Cardinality(Ids(e)) = Len(e) PROVE Ordered(f) = Ordered(e)
    OBVIOUS
  <2> DEFINE ev == [i \in 1 .. n |-> e[i].event]
  <2>1. n \in Nat /\ DOMAIN e = 1 .. n /\ Len(e) = n
    BY DEF Turned
  <2>2. IsFiniteSet(1 .. n) /\ Cardinality(1 .. n) = n
    BY <2>1, FS_Interval
  <2>3. ev \in Surjection(1 .. n, Ids(e))
    BY <2>1 DEF Surjection, Ids
  <2>4. ev \in Injection(1 .. n, Ids(e))
    <3> HIDE DEF ev
    <3> QED BY <2>1, <2>2, <2>3, FS_Surjection
  <2>5. \A i, j \in 1 .. n : e[i].event = e[j].event => i = j
    BY <2>4 DEF Injection, IsInjective
  <2> QED BY <2>5, SameOrder
<1> DEFINE cyclic == TopologicalSort(e) = <<>> /\ HasCausalCycle(e)
<1>5. CASE cyclic
  <2>1. \A g \in {e, f} :
          Replay(g, strict) =
            [status |-> "invalid", level |-> 0, state |-> NothingReduced,
             failures |-> Append(Failures(g), {<<0, "causal_cycle">>}), unknowns |-> Unknowns(g)]
    BY <1>1, <1>5 DEF Replay
  <2>2. \A g \in {e, f} :
          Listed(Append(Failures(g), {<<0, "causal_cycle">>})) = Listed(Failures(g)) \cup {<<0, "causal_cycle">>}
    <3> SUFFICES ASSUME NEW g \in {e, f}
                 PROVE  Listed(Append(Failures(g), {<<0, "causal_cycle">>}))
                          = Listed(Failures(g)) \cup {<<0, "causal_cycle">>}
      OBVIOUS
    <3> DEFINE lists == Failures(g)
               last == {<<0, "causal_cycle">>}
               wrong == {lists[i] : i \in 1 .. n}
    <3>1. n \in Nat /\ DOMAIN lists = 1 .. n /\ lists = [i \in 1 .. n |-> Wrong(g, i)]
      BY DEF Turned, Failures
    <3> HIDE DEF lists, last
    <3>2. lists \in Seq(wrong)
      BY <3>1
    <3> HIDE DEF wrong
    <3>3. /\ Len(lists) = n /\ DOMAIN Append(lists, last) = 1 .. n + 1
          /\ Append(lists, last)[n + 1] = last
          /\ \A i \in 1 .. n : Append(lists, last)[i] = lists[i]
      BY <3>1, <3>2
    <3>4. 1 .. n + 1 = (1 .. n) \cup {n + 1}
      BY <3>1
    <3>5. Listed(Append(lists, last)) = Listed(lists) \cup last
      BY <3>1, <3>3, <3>4 DEF Listed
    <3> QED BY <3>5 DEF lists, last
  <2> DEFINE Cyclic(g) == Append(Failures(g), {<<0, "causal_cycle">>})
  <2>3. \A g \in {e, f} : Listed(Cyclic(g)) = Listed(Failures(g)) \cup {<<0, "causal_cycle">>}
    BY <2>2
  <2> HIDE DEF Cyclic
  <2>4. \A g \in {e, f} : /\ Replay(g, strict).status = "invalid" /\ Replay(g, strict).level = 0
                          /\ Replay(g, strict).state = NothingReduced
                          /\ Replay(g, strict).failures = Cyclic(g)
                          /\ Replay(g, strict).unknowns = Unknowns(g)
    BY <2>1 DEF Cyclic
  <2> QED BY <1>2, <2>3, <2>4
<1>6. CASE ~cyclic
  <2>1. \A g \in {e, f} :
          Replay(g, strict) = [status |-> Status(g, strict), level |-> Level(g),
                               state |-> Reconstructed(Ordered(g)), failures |-> Failures(g),
                               unknowns |-> Unknowns(g)]
    BY <1>1, <1>6 DEF Replay
  <2> QED BY <1>2, <1>3, <1>4, <2>1
<1> QED BY <1>5, <1>6

-----------------------------------------------------------------------------
(* Replaying what the inspector was given *)

\* An envelope names finitely many causes.
LEMMA FewCauses ==
  /\ \A r \in SourceRecord : Projected(r).causes = {}
  /\ \A cs, event : ChangeEnvelope(cs, event).causes = {}
  /\ \A r \in Received : \A cs, event : IsFiniteSet(ReceiptEnvelope(r, cs, event).causes)
<1>1. \A r \in SourceRecord : Projected(r).causes = {}
  BY AdapterKeeps
<1>2. \A cs, event : ChangeEnvelope(cs, event).causes = {}
  BY DEF ChangeEnvelope, BaseEnvelope
<1>3. ASSUME NEW r \in Received, NEW cs, NEW event
      PROVE  IsFiniteSet(ReceiptEnvelope(r, cs, event).causes)
  <2>1. PICK of \in Changed, from \in SourceRecord : r = Correlated(of, Projected(from))
    BY DEF Received
  <2>2. r.events = <<Projected(from).event>>
    BY <2>1, ReceiptFields
  <2>3. ToSet(r.events) = {Projected(from).event}
    BY <2>2 DEF ToSet
  <2> DEFINE env == ChangeEnvelope(cs, event)
             named == ToSet(r.events)
  <2>4. "causes" \in DOMAIN env
    BY DEF ChangeEnvelope, BaseEnvelope
  <2>5. ReceiptEnvelope(r, cs, event)
          = [env EXCEPT !.type = "rollback_receipt", !.parent = ChangeRef, !.causes = named]
    BY DEF ReceiptEnvelope
  <2>6. named = {Projected(from).event}
    BY <2>3
  <2> HIDE DEF env, named
  <2>7. ReceiptEnvelope(r, cs, event).causes = named
    BY <2>4, <2>5
  <2>8. \A x : IsFiniteSet({x})
    BY FS_Singleton
  <2> QED BY <2>6, <2>7, <2>8
<1> QED BY <1>1, <1>2, <1>3

LEMMA EnvelopesFinite ==
  ASSUME RInv
  PROVE  \E S : Envelopes \in Seq(S) /\ \A x \in S : IsFiniteSet(x.causes)
<1> DEFINE one == [i \in DOMAIN journal |-> Projected(journal[i])]
           two == [c \in DOMAIN changes |-> ChangeEnvelope(changes[c], MaxLog + c)]
           About(k) == changes[CHOOSE c \in DOMAIN changes : changes[c].id = receipts[k].change]
           three == [k \in DOMAIN receipts |->
                       ReceiptEnvelope(receipts[k], About(k), MaxLog + Len(changes) + k)]
           S == {one[i] : i \in DOMAIN one} \cup {two[c] : c \in DOMAIN two}
                \cup {three[k] : k \in DOMAIN three}
<1>1. /\ \A i \in DOMAIN journal : journal[i] \in SourceRecord
      /\ \A k \in DOMAIN receipts : receipts[k] \in Received
      /\ DOMAIN journal = 1 .. Len(journal) /\ Len(journal) \in Nat
      /\ DOMAIN changes = 1 .. Len(changes) /\ Len(changes) \in Nat
      /\ DOMAIN receipts = 1 .. Len(receipts) /\ Len(receipts) \in Nat
  BY LenProperties, ElementOfSeq DEF RInv, Recorded
<1>2. Envelopes = one \o two \o three
  BY DEF Envelopes
<1>3. IsFiniteSet({})
  BY FS_EmptySet
<1>4. /\ \A i \in DOMAIN one : IsFiniteSet(one[i].causes)
      /\ \A c \in DOMAIN two : IsFiniteSet(two[c].causes)
      /\ \A k \in DOMAIN three : IsFiniteSet(three[k].causes)
  <2> HIDE DEF About
  <2> QED BY <1>1, <1>3, FewCauses
<1>5. /\ DOMAIN one = 1 .. Len(journal) /\ DOMAIN two = 1 .. Len(changes)
      /\ DOMAIN three = 1 .. Len(receipts)
  BY <1>1
<1> HIDE DEF one, two, three
<1>6. one \in Seq(S) /\ two \in Seq(S) /\ three \in Seq(S)
  <2>1. \A i \in DOMAIN one : one[i] \in S
    OBVIOUS
  <2>2. \A c \in DOMAIN two : two[c] \in S
    OBVIOUS
  <2>3. \A k \in DOMAIN three : three[k] \in S
    OBVIOUS
  <2> HIDE DEF S
  <2> QED BY <1>1, <1>5, <2>1, <2>2, <2>3 DEF one, two, three
<1>7. \A x \in S : IsFiniteSet(x.causes)
  BY <1>4
<1> HIDE DEF S
<1>8. Envelopes \in Seq(S)
  BY <1>2, <1>6, ConcatProperties
<1> QED BY <1>7, <1>8

\* Replay gives one verdict, finds the same failures and unknowns and, unless two ids are equal,
\* makes one state, in whatever order the sources of the envelopes were read: for any records,
\* any number of them, and any change sets and receipts among them.
THEOREM ReplayOrderFree == Spec => []ReplayDeterministic
<1>1. Init => RInv
  BY DEF Init, RInv, Recorded, Traced
<1>2. RInv => ReplayDeterministic
  <2> SUFFICES ASSUME RInv, NEW i \in DOMAIN Envelopes, NEW j \in DOMAIN Envelopes, i < j
               PROVE  LET given == Replay(Envelopes, TRUE)
                          other == Replay([Envelopes EXCEPT ![i] = Envelopes[j],
                                                            ![j] = Envelopes[i]], TRUE)
                      IN  /\ <<other.status, other.level>> = <<given.status, given.level>>
                          /\ Listed(other.failures) = Listed(given.failures)
                          /\ Listed(other.unknowns) = Listed(given.unknowns)
                          /\ Cardinality(Ids(Envelopes)) = Len(Envelopes) => other.state = given.state
    BY DEF ReplayDeterministic
  <2>1. PICK S : Envelopes \in Seq(S) /\ \A x \in S : IsFiniteSet(x.causes)
    BY EnvelopesFinite
  <2> DEFINE e == Envelopes
             n == Len(e)
             f == [e EXCEPT ![i] = e[j], ![j] = e[i]]
             t == [k \in 1 .. n |-> IF k = i THEN j ELSE IF k = j THEN i ELSE k]
  <2>2. e \in Seq(S)
    BY <2>1
  <2> HIDE DEF e
  <2>3. /\ n \in Nat /\ DOMAIN e = 1 .. n /\ \A k \in 1 .. n : e[k] \in S
        /\ i \in 1 .. n /\ j \in 1 .. n
    BY <2>2, LenProperties, ElementOfSeq DEF e
  <2>4. f \in [1 .. n -> S]
    BY <2>2, <2>3
  <2>5. f \in Seq(S) /\ Len(f) = n
    <3> HIDE DEF f
    <3> QED BY <2>3, <2>4, SeqDef, LenProperties
  <2>6. Turned(e, f, n, t)
    <3>1. t \in [1 .. n -> 1 .. n] /\ \A k \in 1 .. n : t[t[k]] = k
      BY <2>3
    <3>2. \A k \in 1 .. n : f[k] = e[t[k]]
      BY <2>3
    <3>3. DOMAIN f = 1 .. n
      BY <2>4
    <3> HIDE DEF t, f
    <3> QED BY <2>3, <2>5, <3>1, <3>2, <3>3 DEF Turned
  <2>7. \A k \in 1 .. n : IsFiniteSet(e[k].causes)
    BY <2>1, <2>3
  <2> HIDE DEF f, t, n
  <2>8. /\ Replay(f, TRUE).status = Replay(e, TRUE).status
        /\ Replay(f, TRUE).level = Replay(e, TRUE).level
        /\ Listed(Replay(f, TRUE).failures) = Listed(Replay(e, TRUE).failures)
        /\ Listed(Replay(f, TRUE).unknowns) = Listed(Replay(e, TRUE).unknowns)
        /\ Cardinality(Ids(e)) = Len(e) => Replay(f, TRUE).state = Replay(e, TRUE).state
    <3> DEFINE size == n
               strict == TRUE
    <3>1. Turned(e, f, size, t) /\ \A k \in 1 .. size : IsFiniteSet(e[k].causes)
      BY <2>6, <2>7
    <3> HIDE DEF size, strict
    <3>2. /\ Replay(f, strict).status = Replay(e, strict).status
          /\ Replay(f, strict).level = Replay(e, strict).level
          /\ Listed(Replay(f, strict).failures) = Listed(Replay(e, strict).failures)
          /\ Listed(Replay(f, strict).unknowns) = Listed(Replay(e, strict).unknowns)
          /\ Cardinality(Ids(e)) = Len(e) => Replay(f, strict).state = Replay(e, strict).state
      BY <3>1, SameReplay
    <3> QED BY <3>2 DEF strict
  <2> QED BY <2>8 DEF e, f
<1> QED BY <1>1, <1>2, NextRInv, PTL DEF Spec
=============================================================================
