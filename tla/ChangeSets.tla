------------------------------ MODULE ChangeSets ------------------------------
(***************************************************************************)
(* Accountability records (src/aetheris/changeset): a change set projected *)
(* from the envelope of a mutation, a rollback receipt correlated with it, *)
(* what the validators accept, and the envelopes both turn into.           *)
(*                                                                         *)
(* An object identity is [type, scope, locator, digest]; None stands for   *)
(* an unknown locator or digest.                                           *)
(***************************************************************************)
EXTENDS Trace

CONSTANTS
  Dangerous,   \* outcome texts that contain one of the dangerous patterns
  ChangeRef    \* a change id where an event id is expected: "chg_..." is never one

When(condition, code) == IF condition THEN {code} ELSE {}

-----------------------------------------------------------------------------
(* Change sets *)

Mutation(disposition, owner, inverse) ==
  [disposition |-> disposition, owner |-> owner, inverse |-> inverse]

MutationClassifiers ==
  "file_edit"                :> Mutation("reversible", "planner", "git_revert") @@
  "plan_edit"                :> Mutation("reversible", "planner", "restore_snapshot") @@
  "skill_promotion"          :> Mutation("reversible", "skills", "tombstone_unretire") @@
  "skill_retirement"         :> Mutation("reversible", "skills", "tombstone_unretire") @@
  "learning_adoption"        :> Mutation("compensatable", "learning", "git_revert") @@
  "learning_demotion"        :> Mutation("compensatable", "learning", "git_revert") @@
  "session_checkpoint"       :> Mutation("rebuildable_snapshot", "unattended", "resume_checkpoint") @@
  "research_evidence_append" :> Mutation("append_only", "research", "not_applicable") @@
  "config_toggle"            :> Mutation("reversible", "config", "config_disable") @@
  "benchmark_adoption"       :> Mutation("append_only", "evaluation", "not_applicable") @@
  "journal_append"           :> Mutation("append_only", "memory", "not_applicable") @@
  "snapshot_update"          :> Mutation("rebuildable_snapshot", "memory", "restore_snapshot") @@
  "model_patch_proposal"     :> Mutation("ephemeral", "learning", "discard_sandbox") @@
  "model_patch_validation"   :> Mutation("ephemeral", "learning", "discard_sandbox") @@
  "experience_append"        :> Mutation("append_only", "experience_recording", "not_applicable") @@
  "knowledge_append"         :> Mutation("append_only", "memory", "not_applicable")

Identity(type, scope, locator, digest) ==
  [type |-> type, scope |-> scope, locator |-> locator, digest |-> digest]

Locator(e) == IF e.task # None THEN e.task ELSE e.event

\* The fields that change_id hashes.
ChangeId(cs) == <<cs.capability, cs.kind, cs.target, cs.before, cs.after, cs.events>>

\* ChangeSetProjector.project of a known kind of mutation; before and after may be None.
ProjectedChange(e, before, after) ==
  LET class == MutationClassifiers[e.type]
      Or(identity) == IF identity = None THEN Identity(e.type, e.subsystem, None, None)
                      ELSE identity
      cs == [id |-> <<>>, capability |-> e.capability, owner |-> class.owner, kind |-> e.type,
             disposition |-> class.disposition, inverse |-> class.inverse,
             aim |-> e.outcome, task |-> e.task,
             target |-> Identity(e.type, e.subsystem, Locator(e), e.digest),
             before |-> Or(before), after |-> Or(after), events |-> <<e.event>>,
             unknowns |-> When(None \in {before, after}, "missing_payload")]
  IN [cs EXCEPT !.id = ChangeId(cs)]

AppendOnly(cs) ==
  \/ cs.disposition \in {"append_only", "ephemeral"}
  \/ cs.kind \in {"research_evidence_append", "journal_append", "knowledge_append"}

Misplaced(identity, target) ==
  /\ <<identity.scope, identity.type>> # <<target.scope, target.type>>
  /\ identity.locator # None \/ identity.digest # None

\* validate_change_set
ChangeErrors(cs) ==
  When(cs.id # ChangeId(cs), "change_id")
    \cup When(Misplaced(cs.before, cs.target), "before_scope")
    \cup When(Misplaced(cs.after, cs.target), "after_scope")
    \cup When(cs.aim \in Dangerous, "dangerous_inverse")
    \cup When(AppendOnly(cs) /\ cs.inverse # "not_applicable", "append_only_inverse")

-----------------------------------------------------------------------------
(* Rollback receipts *)

RollbackOutcome(e) ==
  IF e.outcome \in {"succeeded", "failed", "partial", "blocked", "not_attempted"}
  THEN e.outcome ELSE "unknown"

\* Mutant: digests are not compared.
MismatchesOfKind(expected, observed) ==
  When(expected.type # observed.type, "object_type")
    \cup When(expected.scope # observed.scope, "scope")

Mismatches(expected, observed) ==
  When(expected.type # observed.type, "object_type")
    \cup When(expected.scope # observed.scope, "scope")
    \cup (IF None \notin {expected.digest, observed.digest}
          THEN When(expected.digest # observed.digest, "digest")
          ELSE When(expected.digest # None \/ observed.digest # None, "digest_unknown"))

\* The status ReceiptProjector gives to a restoration.  Its first branch asks for a known
\* verifier and no required unknowns, its second confirms a success without either.
ConfirmationStatus(outcome, mismatches) ==
  IF outcome = "succeeded" /\ mismatches = {} THEN "confirmed"
  ELSE IF outcome = "partial" /\ mismatches = {} THEN "partially_confirmed"
  ELSE IF outcome = "failed" THEN "not_confirmed"
  ELSE "unknown"

\* The fields that receipt_id hashes.
ReceiptId(r) ==
  <<r.change, r.kind, r.target, r.pre, r.post, r.outcome, r.status, r.mismatches, r.events>>

\* ReceiptProjector.correlate: one observation, of the first rollback event, is both the
\* state before and the state after the rollback.
Correlated(cs, e) ==
  LET observed == Identity(cs.kind, cs.owner, Locator(e), e.digest)
      mismatches == Mismatches(cs.before, observed)
      r == [id |-> <<>>, change |-> cs.id, kind |-> cs.inverse, target |-> cs.target,
            outcome |-> RollbackOutcome(e), pre |-> observed, post |-> observed,
            expected |-> cs.before, mismatches |-> mismatches, events |-> <<e.event>>,
            status |-> ConfirmationStatus(RollbackOutcome(e), mismatches), unknowns |-> {}]
  IN [r EXCEPT !.id = ReceiptId(r)]

\* Two known digests that differ.
Differ(d1, d2) == None \notin {d1, d2} /\ d1 # d2

LinkErrors(r, cs) ==
  When(r.change # cs.id, "change_id")
    \cup (IF r.kind = "not_applicable" THEN {}
          ELSE When(<<r.target.scope, r.target.type>> # <<cs.target.scope, cs.target.type>>,
                    "rollback_target")
               \cup When(Differ(r.pre.digest, cs.after.digest), "pre_is_not_after")
               \cup When(Differ(r.expected.digest, cs.before.digest), "expected_is_not_before")
               \cup When(Differ(r.post.digest, cs.before.digest), "post_is_not_before"))

ConfirmationErrors(r) ==
  IF r.status # "confirmed" THEN {}
  ELSE When(r.outcome # "succeeded", "not_succeeded")
       \cup When(<<r.expected.type, r.expected.scope>> # <<r.post.type, r.post.scope>>,
                 "other_object")
       \cup When(None \in {r.expected.digest, r.post.digest}, "digest_unknown")
       \cup When(r.expected.digest # r.post.digest, "digest")
       \cup When(r.mismatches # {}, "mismatches")
       \cup When(r.unknowns \ {"missing_config", "missing_policy"} # {}, "required_unknowns")

KindErrors(r, cs) ==
  When(r.kind = "config_disable" /\ cs.disposition = "append_only", "config_disable")
    \cup When(/\ r.kind = "resume_checkpoint"
              /\ cs.disposition \notin {"rebuildable_snapshot", "ephemeral"},
              "resume_checkpoint")
    \cup When(r.kind = "discard_sandbox" /\ r.target.scope # "sandbox", "discard_sandbox")

\* validate_rollback_receipt with its change set.
ReceiptErrors(r, cs) ==
  When(r.id # ReceiptId(r), "receipt_id") \cup LinkErrors(r, cs)
    \cup ConfirmationErrors(r) \cup KindErrors(r, cs)
    \cup When(r.kind = "unknown", "unknown_kind")

-----------------------------------------------------------------------------
(* Envelopes of the two records, and the inspector that reads them back *)

\* Neither envelope carries an outcome, so replay counts both under "unknown".
ChangeEnvelope(cs, event) ==
  [BaseEnvelope([event |-> event, kind |-> "change_set", line |-> 0, raw |-> FALSE,
                 digest |-> None])
   EXCEPT !.subsystem = cs.owner, !.capability = cs.capability, !.task = cs.task,
          !.outcome = None]

ReceiptEnvelope(r, cs, event) ==
  [ChangeEnvelope(cs, event)
   EXCEPT !.type = "rollback_receipt", !.parent = ChangeRef, !.causes = ToSet(r.events)]

\* A record read back from its file has lost its unknowns, which no id covers.
Coerced(record) == [record EXCEPT !.unknowns = {}]

\* inspect_changes --validate-only: a change id that comes twice stands for the later one.
ValidFiles(changes, receipts) ==
  /\ \A i \in DOMAIN changes : ChangeErrors(Coerced(changes[i])) = {}
  /\ \A j \in DOMAIN receipts :
       \E i \in DOMAIN changes :
         /\ changes[i].id = receipts[j].change
         /\ \A k \in i + 1 .. Len(changes) : changes[k].id # changes[i].id
         /\ ReceiptErrors(Coerced(receipts[j]), Coerced(changes[i])) = {}
=============================================================================
