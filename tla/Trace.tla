------------------------------- MODULE Trace -------------------------------
(***************************************************************************)
(* Trace and replay (src/aetheris/trace): what each journal of the running *)
(* system becomes as an envelope, and what the replay engine makes of a    *)
(* list of envelopes.  Everything here is a pure function of its input.    *)
(*                                                                         *)
(* A source record has only the fields the adapters look at:               *)
(*   store  the kind of journal        stream  its stream_id               *)
(*   kind   the record's kind          id      the identifier it is filed  *)
(*   step   subgoal or capability              under (None: it has none)   *)
(*   value  state, verdict, steps      raw     its exact bytes are known   *)
(*   digest payload hash               line    line number, 0 for a file   *)
(*   event  the rank of its event id, 0 until it has one: ids are hashes,  *)
(*          so their order has nothing to do with the order of the lines   *)
(***************************************************************************)
EXTENDS Values, Sorting, Integers, Sequences, SequencesExt, FiniteSets, TLC

\* The journals there is an adapter for.
Stores ==
  {"memory_store", "jsonl_store", "plan_store", "research_journal", "hierarchy_journal",
   "unattended_journal", "understanding_journal", "reliability_journal", "evidence_record",
   "skill_learning", "model_patch"}

\* A digest is computed from every record.
SourceRecord ==
  [store: Stores, stream: STRING, kind: STRING, id: STRING \cup {None}, step: STRING \cup {None},
   value: STRING \cup {None}, raw: BOOLEAN, digest: STRING \ {None}, line: Nat, event: Nat]

-----------------------------------------------------------------------------
(* Adapters *)

\* What an event id hashes: without the raw bytes only the place of the record, and for a
\* file that is one record not even that.
EventKey(r) == <<r.store, r.stream, r.line, IF r.raw THEN r.digest ELSE None>>

\* What every adapter starts from.  No adapter sets a parent or a cause.
BaseEnvelope(r) ==
  [event |-> r.event, subsystem |-> "unknown", capability |-> "unknown", type |-> r.kind,
   task |-> None, session |-> None, plan |-> None, goal |-> None, step |-> None,
   outcome |-> r.kind, seq |-> r.line, digest |-> r.digest, parent |-> None, causes |-> {},
   unknowns |-> IF r.raw THEN {} ELSE {"missing_raw_bytes"}, intact |-> TRUE]

\* The unknown that a missing field leaves behind.
Lacking(code, field) == IF field = None THEN {code} ELSE {}

MemoryStore(r) ==
  [BaseEnvelope(r) EXCEPT !.subsystem = "memory", !.capability = "memory", !.task = r.id,
                          !.unknowns = @ \cup Lacking("missing_parent", r.id)]

StreamCapability(stream) ==
  CASE stream = "knowledge" -> "memory"
    [] stream = "experience" -> "experience_recording"
    [] stream = "learned" -> "skills"
    [] OTHER -> "unknown"

JsonlStore(r) ==
  [BaseEnvelope(r) EXCEPT
     !.subsystem = IF r.stream \in {"knowledge", "experience", "learned"}
                   THEN "memory" ELSE "unknown",
     !.capability = StreamCapability(r.stream), !.task = r.id,
     !.unknowns = @ \cup Lacking("missing_parent", r.id)]

PlanStore(r) ==
  [BaseEnvelope(r) EXCEPT
     !.subsystem = "planner", !.capability = "planner", !.type = "plan_snapshot",
     !.task = r.id, !.plan = r.id, !.outcome = r.value,
     !.unknowns = @ \cup Lacking("missing_parent", r.id)]

ResearchJournal(r) ==
  [BaseEnvelope(r) EXCEPT !.subsystem = "research", !.capability = "research"]

Hierarchy(r) ==
  [BaseEnvelope(r) EXCEPT
     !.subsystem = "hierarchy", !.capability = "hierarchy", !.type = "goal_transition",
     !.goal = r.id, !.step = r.step, !.outcome = r.value,
     !.unknowns = @ \cup Lacking("missing_parent", r.id)]

Unattended(r) ==
  [BaseEnvelope(r) EXCEPT
     !.subsystem = "unattended", !.capability = "unattended_supervisor", !.session = r.id,
     !.outcome = IF r.kind = "session_stopped" THEN r.value ELSE r.kind,
     !.unknowns = @ \cup Lacking("missing_parent", r.id)]

Understanding(r) ==
  [BaseEnvelope(r) EXCEPT
     !.subsystem = "understanding", !.capability = "understanding", !.type = "scan_report",
     !.outcome = r.value, !.unknowns = @ \cup Lacking("missing_snapshot", r.id)]

Reliability(r) ==
  [BaseEnvelope(r) EXCEPT
     !.subsystem = "research", !.capability = "research_reliability",
     !.outcome = IF r.kind = "outcome" THEN r.value ELSE r.kind,
     !.unknowns = @ \cup Lacking("missing_parent", r.id)]

Evidence(r) ==
  [BaseEnvelope(r) EXCEPT
     !.subsystem = "architecture", !.capability = r.step, !.type = "adoption_evidence",
     !.outcome = r.kind,
     !.unknowns = @ \cup Lacking("missing_revision", r.id)
                    \cup Lacking("missing_evidence", r.value)]

SkillLearning(r) ==
  [BaseEnvelope(r) EXCEPT
     !.subsystem = "skills", !.capability = "skills", !.task = r.id,
     !.unknowns = @ \cup Lacking("missing_parent", r.id)]

ModelPatch(r) ==
  [BaseEnvelope(r) EXCEPT !.subsystem = "learning", !.capability = "model_patch",
                          !.outcome = r.value]

Projected(r) ==
  CASE r.store = "memory_store" -> MemoryStore(r)
    [] r.store = "jsonl_store" -> JsonlStore(r)
    [] r.store = "plan_store" -> PlanStore(r)
    [] r.store = "research_journal" -> ResearchJournal(r)
    [] r.store = "hierarchy_journal" -> Hierarchy(r)
    [] r.store = "unattended_journal" -> Unattended(r)
    [] r.store = "understanding_journal" -> Understanding(r)
    [] r.store = "reliability_journal" -> Reliability(r)
    [] r.store = "evidence_record" -> Evidence(r)
    [] r.store = "skill_learning" -> SkillLearning(r)
    [] r.store = "model_patch" -> ModelPatch(r)

-----------------------------------------------------------------------------
(* Reducers.  The reconstructed state is a set of slots; what an envelope  *)
(* does to it is a set of effects <<slot, how, value>>.                    *)

Sets(slot, v)  == {<<slot, "set", v>>}
Appends(slot, e) == {<<slot, "append", e.event>>}
Counts(slot) == {<<slot, "count", 1>>}

Named(x) == IF x = None THEN "unknown" ELSE x

TaskOutcome(e) ==
  LET actions == {"action_allowed", "action_blocked", "action_preview"}
      part == IF e.type \in actions THEN "last_memory_kind" ELSE "last_step_result"
  IN IF e.subsystem = "memory" /\ e.type \in actions \cup {"step_result"}
     THEN Sets(<<"tasks", Named(e.task), part>>, e.outcome)
          \cup Appends(<<"tasks", Named(e.task), "events">>, e)
     ELSE {}

PlanState(e) ==
  IF e.subsystem = "planner" /\ e.type = "plan_snapshot"
  THEN Sets(<<"plans", Named(e.plan), "steps">>, e.outcome)
       \cup Appends(<<"plans", Named(e.plan), "events">>, e)
  ELSE {}

HierarchyState(e) ==
  LET node == <<Named(e.goal), Named(e.step)>>
  IN IF e.subsystem = "hierarchy" /\ e.type = "goal_transition"
     THEN Sets(<<"goals", node, "final_state">>, Named(e.outcome))
          \cup Appends(<<"goals", node, "events">>, e)
     ELSE {}

UnattendedState(e) ==
  LET session == Named(e.session)
  IN IF e.subsystem = "unattended" /\ e.type \in {"session_stopped", "session_checkpoint"}
     THEN (IF e.type = "session_stopped"
           THEN Sets(<<"sessions", session, "terminal_state">>, Named(e.outcome))
           ELSE Sets(<<"sessions", session, "last_checkpoint">>, TRUE))
          \cup Appends(<<"sessions", session, "events">>, e)
     ELSE {}

ResearchSummary(e) ==
  IF e.subsystem = "research" THEN Counts(<<"research_kind_counts", e.type>>) ELSE {}

AdoptionSummary(e) ==
  IF e.capability \in {"memory", "experience_recording", "skills"}
  THEN Appends(<<"adoption", e.capability>>, e) ELSE {}

ChangeSetSummary(e) ==
  IF e.type = "change_set"
  THEN Counts(<<"change_kind_counts", Named(e.outcome)>>)
       \cup Counts(<<"change_capabilities", Named(e.capability)>>)
  ELSE {}

RollbackSummary(e) ==
  IF e.type = "rollback_receipt" THEN Counts(<<"rollback_kind_counts", Named(e.outcome)>>)
  ELSE {}

Effects(e) ==
  TaskOutcome(e) \cup PlanState(e) \cup HierarchyState(e) \cup UnattendedState(e)
    \cup ResearchSummary(e) \cup AdoptionSummary(e) \cup ChangeSetSummary(e)
    \cup RollbackSummary(e)

\* One envelope through every reducer: no two of them write the same slot.
Reduced(state, e) ==
  LET Old(slot, none) == IF slot \in DOMAIN state THEN state[slot] ELSE none
      New(effect) ==
        CASE effect[2] = "set" -> effect[3]
          [] effect[2] = "append" -> Append(Old(effect[1], <<>>), effect[3])
          [] effect[2] = "count" -> Old(effect[1], 0) + 1
      written == {effect[1] : effect \in Effects(e)}
  IN [slot \in DOMAIN state \cup written |->
        IF slot \in written
        THEN New(CHOOSE effect \in Effects(e) : effect[1] = slot)
        ELSE state[slot]]

NothingReduced == [slot \in {} |-> None]

-----------------------------------------------------------------------------
(* Lineage and order *)

\* Ids that replay takes for roots outside of its input.
CONSTANT ExternalRoots

Ids(envs) == {envs[i].event : i \in DOMAIN envs}

\* There is an edge for every mention of a parent or cause: those from m to n, and all to n.
Between(envs, m, n) ==
  Cardinality({i \in DOMAIN envs : envs[i].event = n /\ envs[i].parent = m})
    + Cardinality({i \in DOMAIN envs : envs[i].event = n /\ m \in envs[i].causes})

Into(envs, n) ==
  Cardinality({i \in DOMAIN envs : envs[i].event = n /\ envs[i].parent # None})
    + Cardinality(UNION {{i} \X envs[i].causes : i \in {j \in DOMAIN envs : envs[j].event = n}})

\* Kahn's algorithm on the nodes, which come sorted.  A parent that is no node is never taken
\* from the queue, so its children never enter it.
Kahn(ids, nodes, into, between) ==
  LET Visit(s, i) ==
        IF s.queue = <<>> THEN s
        ELSE LET n == Head(s.queue)
                 left == [m \in ids |-> s.degree[m] - between[n][m]]
                 ready == {m \in ids : s.degree[m] > 0 /\ left[m] <= 0}
             IN [queue |-> Tail(s.queue) \o SetToSortSeq(ready, <),
                 degree |-> left, order |-> Append(s.order, n)]
      end == FoldLeft(Visit, [queue |-> SelectSeq(nodes, LAMBDA n : into[n] = 0),
                              degree |-> into, order |-> <<>>],
                      [i \in 1 .. 2 * Len(nodes) |-> i])
  IN IF Len(end.order) = Cardinality(ids) THEN end.order ELSE <<>>

TopologicalSort(envs) ==
  LET ids == Ids(envs)
  IN Kahn(ids, Ascending([i \in DOMAIN envs |-> envs[i].event]), [n \in ids |-> Into(envs, n)],
          [m \in ids |-> [n \in ids |-> Between(envs, m, n)]])

\* Some set of events of which each has a parent or cause in the set.
HasCausalCycle(envs) ==
  \E S \in SUBSET Ids(envs) \ {{}} :
    \A n \in S : \E i \in DOMAIN envs :
      envs[i].event = n /\ (envs[i].parent \in S \/ envs[i].causes \cap S # {})

ByStream(envs) ==
  SortedBy(envs, {p \in (DOMAIN envs) \X (DOMAIN envs) :
                   LET a == envs[p[1]]
                       b == envs[p[2]]
                   IN \/ a.seq < b.seq
                      \/ a.seq = b.seq /\ a.event < b.event
                      \/ a.seq = b.seq /\ a.event = b.event /\ p[1] < p[2]})

\* Mutant: envelopes are replayed as they were passed in.
OrderedAsGiven(envs) == envs

\* Of two envelopes with one id the later in the input is taken.
Ordered(envs) ==
  LET order == TopologicalSort(envs)
      Env(n) == CHOOSE e \in {envs[i] : i \in DOMAIN envs} :
                  \E i \in DOMAIN envs : /\ envs[i] = e /\ e.event = n
                                        /\ \A j \in i + 1 .. Len(envs) : envs[j].event # n
  IN IF order # <<>> THEN [i \in DOMAIN order |-> Env(order[i])] ELSE ByStream(envs)

-----------------------------------------------------------------------------
(* ReplayEngine.replay *)

\* An id that neither the input nor a root accounts for.
Dangling(envs, id) == id # None /\ id \notin Ids(envs) \cup ExternalRoots

\* What is wrong with one envelope, each with the event it is reported for.
Wrong(envs, i) ==
  {envs[i].event} \X
    ((IF \E j \in 1 .. i - 1 : envs[j].event = envs[i].event THEN {"malformed_record"} ELSE {})
     \cup (IF envs[i].intact THEN {} ELSE {"payload_hash_mismatch"})
     \cup (IF Dangling(envs, envs[i].parent) THEN {"missing_parent"} ELSE {})
     \cup (IF \E c \in envs[i].causes : Dangling(envs, c) THEN {"missing_cause"} ELSE {}))

\* Failures and unknowns are listed in the order in which the envelopes come.
Failures(envs) == [i \in DOMAIN envs |-> Wrong(envs, i)]
Unknowns(envs) == [i \in DOMAIN envs |-> envs[i].unknowns]

\* What a list holds, whatever its order.
Listed(lists) == UNION {lists[i] : i \in DOMAIN lists}

RequiredUnknowns ==
  {"missing_revision", "missing_config", "missing_policy", "missing_evidence",
   "missing_trace_root", "missing_parent", "missing_cause", "missing_snapshot",
   "missing_payload", "missing_raw_bytes", "unsupported_record_version",
   "ambiguous_order", "redacted_secret", "external_input_not_recorded",
   "adapter_error", "hash_mismatch"}

Level(envs) ==
  IF Listed(Failures(envs)) # {} THEN 1 ELSE IF Listed(Unknowns(envs)) # {} THEN 2 ELSE 3

Status(envs, strict) ==
  IF Listed(Failures(envs)) # {} THEN "invalid"
  ELSE IF strict /\ Listed(Unknowns(envs)) \cap RequiredUnknowns # {} THEN "incomplete"
  ELSE "complete"

\* The state that the reducers make of the envelopes, in order.
Reconstructed(ordered) == FoldLeft(Reduced, NothingReduced, ordered)

\* result_fingerprint hashes state, failures and unknowns, the lists as they are; which
\* event of a cycle is named is left out.
Replay(envs, strict) ==
  IF TopologicalSort(envs) = <<>> /\ HasCausalCycle(envs)
  THEN [status |-> "invalid", level |-> 0, state |-> NothingReduced,
        failures |-> Append(Failures(envs), {<<0, "causal_cycle">>}), unknowns |-> Unknowns(envs)]
  ELSE [status |-> Status(envs, strict), level |-> Level(envs),
        state |-> Reconstructed(Ordered(envs)),
        failures |-> Failures(envs), unknowns |-> Unknowns(envs)]
=============================================================================
