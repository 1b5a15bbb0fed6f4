--------------------------------- MODULE Audit ---------------------------------
(***************************************************************************)
(* The three read-only audits of what the system wrote down, over inputs   *)
(* that grow: journals that are replayed (Trace), change sets and rollback *)
(* receipts projected from their records (ChangeSets), and drill scenarios *)
(* that are scored (Recovery).  An audit is one of the three.              *)
(***************************************************************************)
EXTENDS ChangeSets, Recovery

CONSTANTS
  Records,       \* source records that have no event id yet
  Identities,    \* object identities a caller may know, None among them
  Observations,  \* observed rollbacks
  Expectations,  \* what a scenario expects
  MaxLog, MaxEvidence, MaxChanges, MaxReceipts, MaxDrill  \* bounds on the inputs

ASSUME AuditAssumption ==
  Records \subseteq SourceRecord /\ \A obs \in Observations : IsFiniteSet(obs.gained)

VARIABLES
  audit,     \* "replay", "changes" or "drill"
  journal,   \* the records, in the order the inspector reads them
  changes, receipts,
  drilled    \* the scenarios verified so far: what was observed and expected

vars == <<audit, journal, changes, receipts, drilled>>

Init ==
  /\ audit \in {"replay", "changes", "drill"}
  /\ journal = <<>> /\ changes = <<>> /\ receipts = <<>> /\ drilled = <<>>

\* Equal keys have equal event ids; the ids of different keys are in no relation to them.
EventOf(r, event) ==
  \A i \in DOMAIN journal : journal[i].event = event <=> EventKey(journal[i]) = EventKey(r)

\* How much of the journals an audit reads.
LogBound == IF audit = "replay" THEN MaxLog ELSE IF audit = "changes" THEN MaxEvidence ELSE 0

\* One more record in one of the journals that are inspected.
Log(r, event) ==
  /\ Len(journal) < LogBound
  /\ EventOf(r, event)
  /\ journal' = Append(journal, [r EXCEPT !.event = event])
  /\ UNCHANGED <<audit, changes, receipts, drilled>>

\* A mutation's envelope is projected, with what is known of the object before and after it.
ProjectChange(i, before, after) ==
  /\ audit = "changes" /\ Len(changes) < MaxChanges
  /\ Projected(journal[i]).type \in DOMAIN MutationClassifiers
  /\ changes' = Append(changes, ProjectedChange(Projected(journal[i]), before, after))
  /\ UNCHANGED <<audit, journal, receipts, drilled>>

\* The envelope of a rollback is correlated with a change set.
Correlate(c, i) ==
  /\ audit = "changes" /\ Len(receipts) < MaxReceipts
  /\ receipts' = Append(receipts, Correlated(changes[c], Projected(journal[i])))
  /\ UNCHANGED <<audit, journal, changes, drilled>>

\* A scenario is verified; one whose verification raises is not scored.
Drill(obs, expected) ==
  /\ audit = "drill" /\ Len(drilled) < MaxDrill
  /\ Comparable(obs.seen, expected.seen)
  /\ drilled' = Append(drilled, [obs |-> obs, expected |-> expected])
  /\ UNCHANGED <<audit, journal, changes, receipts>>

Done ==
  /\ \/ audit = "drill" /\ Len(drilled) = MaxDrill
     \/ audit # "drill" /\ Len(journal) = LogBound
  /\ UNCHANGED vars

Next ==
  \/ \E r \in Records, event \in 1 .. MaxLog : Log(r, event)
  \/ \E i \in DOMAIN journal, before, after \in Identities : ProjectChange(i, before, after)
  \/ \E c \in DOMAIN changes, i \in DOMAIN journal : Correlate(c, i)
  \/ \E obs \in Observations, expected \in Expectations : Drill(obs, expected)
  \/ Done

Spec == Init /\ [][Next]_vars

-----------------------------------------------------------------------------

\* What the inspector hands to replay: the records, then change sets, then receipts.
Envelopes ==
  [i \in DOMAIN journal |-> Projected(journal[i])]
    \o [c \in DOMAIN changes |-> ChangeEnvelope(changes[c], MaxLog + c)]
    \o [k \in DOMAIN receipts |->
          ReceiptEnvelope(receipts[k],
                          changes[CHOOSE c \in DOMAIN changes : changes[c].id = receipts[k].change],
                          MaxLog + Len(changes) + k)]

\* The order in which sources are passed to the inspector does not change what replay finds:
\* exchanging two envelopes gives the same status and level, the same failures for the same
\* events and the same unknowns, and one state unless two envelopes share an id, of which
\* replay keeps one (replay.py sorts by id or by stream, never by input).  What it does change
\* is the order of the two lists, and with it the fingerprint of the result.
ReplayDeterministic ==
  LET given == Replay(Envelopes, TRUE)
      Exchanged(i, j) ==
        Replay([Envelopes EXCEPT ![i] = Envelopes[j], ![j] = Envelopes[i]], TRUE)
  IN \A i, j \in DOMAIN Envelopes :
       i < j => LET other == Exchanged(i, j) IN
         /\ <<other.status, other.level>> = <<given.status, given.level>>
         /\ Listed(other.failures) = Listed(given.failures)
         /\ Listed(other.unknowns) = Listed(given.unknowns)
         /\ Cardinality(Ids(Envelopes)) = Len(Envelopes) => other.state = given.state

\* A receipt that confirms a restoration was given the digest recorded before the change,
\* by an event that reports success: an unknown digest never counts as a match.  The one
\* observation stands for the state before the rollback and after it, so a confirmed receipt
\* that validate-only accepts belongs to a change that is not known to have changed anything,
\* or to one that nothing can roll back, with which no receipt is compared.
NeverFalselyConfirmed ==
  \A k \in DOMAIN receipts :
    receipts[k].status = "confirmed" =>
      /\ \E i \in DOMAIN journal :
           /\ receipts[k].events = <<journal[i].event>>
           /\ Projected(journal[i]).outcome = "succeeded"
           /\ receipts[k].expected.digest = journal[i].digest
      /\ receipts[k].expected.digest # None
      /\ ValidFiles(changes, receipts) /\ receipts[k].kind # "not_applicable" =>
           \A c \in DOMAIN changes :
             changes[c].id = receipts[k].change =>
               ~Differ(changes[c].after.digest, changes[c].before.digest)

Verified ==
  [i \in DOMAIN drilled |-> VerifyScenario(drilled[i].obs, drilled[i].expected, <<>>, <<>>)]

\* A TraceValue or an ObjectIdentity, the types the repository has for an identity.
OfOneType(identity) == identity = None \/ None \in {identity.own, identity.digest}

\* A drill passes only if every rollback reports the success that was expected and the digest
\* that was expected, safely and without gaining authority; an unknown digest passes for
\* another unknown one, and nobody asks whether the identities match.  Nor is it passed with
\* the repository's own types: of a TraceValue classify_outcome finds no digest, and an
\* ObjectIdentity cannot be verified.  The drill script's own run, which classifies every
\* scenario as unknown, never passes, whether git can revert or not.
PassMeansAllExact ==
  /\ Verdict(Metrics(Verified)) = "pass" =>
       \A i \in DOMAIN drilled :
         LET obs == drilled[i].obs
             expected == drilled[i].expected
         IN  /\ obs.outcome = "succeeded" /\ expected.outcome = "succeeded"
             /\ DigestOf(obs.seen) = DigestOf(expected.seen)
             /\ ~OfOneType(obs.seen) /\ ~OfOneType(expected.seen)
             /\ obs.safe /\ obs.gained = {}
  /\ \A reverted \in BOOLEAN : DrillVerdict(reverted) = "hold"
=============================================================================
