# Aetheris in TLA+

A verification project for the Python backend of Aetheris (`src/src/aetheris/`, called
`aetheris/` below): TLA+ models of the parts that keep state, run concurrently or survive
a restart, the TLC runs that check them on small instances, and TLAPS proofs of what
matters most for every instance. Paths such as `controller/queue.py` are relative to
`aetheris/`.

## 1. The system

Aetheris takes tasks in prose, plans them, runs the steps of a plan one at a time through
a safety gate, measures itself, and learns. One process holds a FastAPI bridge whose
requests run in worker threads, a drain loop that runs on the event loop between them, and
optionally one supervised session in a worker thread. Nothing is kept in a database: every
component that must survive a restart appends JSON lines to a journal or writes one JSON
file. **No component takes a lock.**

### Inventory

| Component | State it keeps | Operations | Talks to |
| --- | --- | --- | --- |
| task queue `controller/queue.py`, `memory/jsonl.py` | `queue.jsonl`: one record per change of a task; the last one of an id counts | `enqueue`, `transition` (checked against `_ALLOWED`), `pending`, `next_queued` | submitted to by the API, driven by the executive |
| executive `controller/executive.py` | in memory: retry and idle counters, the plan in hand; on disk: plan files, queue records, lessons | `run_once` = pick, plan, review, one step, verdict, writes, lesson; idle improvement and promotion | queue, planner, plan store, reflection, review queue, experience |
| plan DAG `planner/plan.py` | plan file of each task | `next_ready`, `insert_repair_after`, `is_complete`, save / load / delete | executive, rollback |
| planner `planner/planner.py` | learned keywords, skills, a model if there is one | `plan`, `plan_multi`: a skill's rendering, a chain of fragments, a model's suggestion, the fallback | executive, evaluator, skills |
| reflection `reflection/` | none | verdict on a failed step, repair proposal | executive |
| plan review `learning/plan_review.py` | pending plans in memory | submit, approve, reject | executive, API |
| goal orchestrator `hierarchy/` | graph of subgoals, its journal and numbered snapshots, plans of this process | `run`, `step`, `cancel`, `rollback_subtree`, `resume` | queue and executive through `SpineRunner`, understanding |
| unattended supervisor `unattended/` | session snapshot, event journal, brake flags | `start`, `resume`, `run`, `brake`, `request_stop`, `request_pause` | executive, watchdog, outcome learning |
| keyword learning `learning/engine.py`, `memory/learned.py` | `learned.jsonl`, one copy of it in each engine and in the planner | `attempt`, `revert_last`, installing a planner | evaluator, planner, API, drain loop |
| autonomous loop, self-repair `learning/autonomous.py`, `self_repair.py`, `synthesis.py`, `model_patch.py` | counters, its own learning engine | `cycle`, `_apply_repair` | learning, skills |
| skills `skills/` | `skills.jsonl`; the candidates of an idle pass; the renderer's journal | register, retire, unretire, mine, compare, promote, match, render with facts of the repository | planner, executive, evaluator, experience, reasoning |
| session outcome learning `unattended/outcome_learning.py` | journal of outcomes, index of lessons with a version | `record`, `extract_lessons`, `apply_decay`, `retire_lesson`, `unretire`, `forecast`, `suggested_bounds` | supervisor |
| network perimeter and research `research/perimeter.py`, `engine.py`, `journal.py`, `model.py` | a session's counters, research journal, content cache | `fetch` and its checks, `research` | supervisor (denials), consumers |
| research reliability and consumers `research/reliability.py`, `consumers.py` | journal of outcomes, standing of each source and its snapshot | `record_outcome`, `apply_decay`, `retire_to_neutral`, `unretire`, rank, weigh | reasoning, learning |
| experience and lessons `memory/` | append-only stores; `lessons.jsonl`, rewritten in place | record, confirm, contradict, retire, decay, query, re-rank | executive, planner, learning |
| changeset, trace, recovery `changeset/`, `trace/`, `evaluation/recovery_*` | none (functions over recorded data) | project, correlate, validate, replay, classify, score | inspection and drill scripts |
| reasoning and models `reasoning/`, `model/` | journal of deliberations | deliberate: enumerate, score, enrich by a model, abstain or recommend | planner, reflection, learning, repo-aware skills |
| model patches `learning/model_patch.py` | none; live files through `edit_file` | parse a diff, gate it in a sandbox, propose edits | reflection, executive |
| understanding `understanding/` | symbol index | facts about the repository | orchestrator, repo-aware skills |
| safety and tools `safety/`, `tools/` | undo information | check, run, undo | controller |
| API bridge and shell `api/`, `shell/` | one `AppState` | endpoints, drain loop | everything |

What is hard here is not any one function but what happens around it: a crash between two
files that must agree; two runners (the drain loop and a session) over one executive; a
counter in memory that a restart forgets; positions in a plan that shift when a repair is
inserted; several copies of one journal. `PROJECT.json` lists the hazards at their lines.

### What makes each part correct

* **queue**: only moves of the table; every submission gets a task of its own; priority,
  then age.
* **executive**: a step runs only after what it depends on, is never lost or repeated, and
  a task is DONE only when every step ran; retries are bounded; every task settles.
* **orchestrator**: subgoals in order of dependency; failure is contained in its branch and
  strands nobody; what is completed is not run again; a rollback leaves nothing it could undo.
* **supervisor**: never beyond its bounds, whatever is paused, resumed or crashed; a fault
  stops it for good; a stop request is honoured at once; nothing logged is lost.
* **learning**: accepted only when strictly better without a regression; reverts take back
  exactly one keyword; what is learned, and only that, is in use.
* **planner**: a model fills gaps and changes nothing where the rules know what to do.
* **skills**: a mined skill does again what the plans it comes from did; one bad lesson
  retires nothing; experience reorders and never hides; a shape other than the default is
  chosen for a reason that can be shown.
* **lessons, of work and of sessions**: maintenance and restarts lose nothing that was
  there when they began; what the owner withdrew stays withdrawn.
* **perimeter and research**: whatever request is handed over was allowed, whatever is
  answered is counted and within the rate, an answer from off the list is on record;
  evidence can be traced to a journalled page of the allowlist; a withdrawn source is not
  preferred, nor silenced.
* **patches**: what is carried out is what was tested, on the file it was tested on.
* **audits**: what replay finds depends on what is recorded, not on the order of reading;
  a restoration is never confirmed on something unknown, nor a drill passed without
  equal digests.

## 2. Modules

| Module | Models | Uses |
| --- | --- | --- |
| `TaskQueue` | the queue as its clients see it: states, table, order | |
| `PlanDag` | plans and the operations on them | |
| `Executive` | `run_once`, one action per durable write | extends both |
| `JournalQueue` | the queue as it is written, read and append apart | instantiates `TaskQueue` |
| `GoalOrchestrator` | the hierarchy over a fixed graph | |
| `Supervisor` | sessions, watchdog, snapshot and journal | |
| `Learning` | keyword learning in several threads | |
| `Research` | perimeter, research engine and consumers, one session at a time | |
| `Reliability` | standing of sources: journal, snapshot, decay, withdrawal | |
| `Lessons` | the lesson store and its in-place rewrite | |
| `Skills` | library, mining, comparison, retirement, planner's choice | extends `Lessons` |
| `SessionLessons` | outcomes and lessons of supervised sessions | |
| `Patching` | a model's diff: parser, sandbox, edit | |
| `Planner` | rules, suggestion, chain, fallback | |
| `Reasoning` | one deliberation | |
| `RepoAware` | facts, advice and shape of a repo-aware skill | extends `Reasoning` |
| `Values` | the value `None` | extended by `Lessons`, `SessionLessons`, `Planner`, `Patching`, `Reasoning`, `Trace`, `Recovery` |
| `Sorting` | what `sorted()` returns, as a value that can be reasoned about | extended by `Skills`, `Reasoning`, `Trace` |
| `Trace` | adapters, replay order, reducers, status | extends `Sorting` |
| `ChangeSets` | change sets, receipts, both validators | extends `Trace` |
| `Recovery` | classification, metrics, verdict, the drill script | |
| `Audit` | inputs of the three audits, grown record by record | extends `ChangeSets` and `Recovery` |
| `ExecutiveProofs` | lemmas about plans, theorems about the executive | extends `Executive` |
| `SupervisorProofs`, `GoalProofs`, `JournalQueueProofs`, `LearningProofs` | theorems about the module they are named for | |
| `AdviceProofs` | theorems about `Lessons`, `Skills`, `SessionLessons`, `Planner`, `Reasoning`, `RepoAware` and `Patching` | extends all seven |
| `ResearchProofs` | theorems about `Research` and `Reliability` | extends both |
| `AuditProofs` | theorems about `Audit` with `Trace`, `ChangeSets` and `Recovery` | extends `Audit` |
| `MC...` | finite instances; `MCResearch` and `MCAdvice` put several modules side by side | |

**TaskQueue, JournalQueue.** `TaskQueue` has the current `state` of every task and
`arrival`, the order of `created_at`. `Allowed` is `_ALLOWED`; `ServedBefore` the sort key
of `pending()`. In `JournalQueue` each client first reads the whole file
(`ReadForEnqueue`, `ReadForTransition`: id, move and other columns are decided here) and
later appends one record (`AppendRecord`). An id is the number of the record to come with
the text: that is what `make_id` hashes. The refinement maps `state` to the last record
of an id and `arrival` to the ids by creation time.

**PlanDag, Executive.** A plan is a sequence of steps with `status` and the positions of
their dependencies (`deps`). Two fields are not in the code: `uid`, which an inserted
repair does not shift, and `needs`, the uids a step must wait for. The property
`DependencyOrder` compares the two views. `run_once` decides on an outcome and then makes
a list of durable writes, the list `todo`; `Write` makes the first, so that a crash can
come between any two. A tool call is one step that succeeds, fails transiently, is blocked
or needs repairs (reflection's verdicts). `RepairCounts` says how many steps a repair may
insert, `Reflection` and `PlanReview` select the paths.

**GoalOrchestrator.** `Transition` changes a node and appends the journal line, `Save`
writes the snapshot under the next number; a crash may come between them. `Ready`,
`ToBlock`, `Descendants` are the functions of `orchestrator.py`. Of a plan that
`SpineRunner` runs one sees whether it settled and what became of its plan file: the
executive deletes that of a task that ends DONE, which is what rollback would need
(`PlanKnown`). What a plan does to the workspace is abstracted to one thing: a plan of
`WritesFile` writes one file of its own, the others call tools that have no undo.
`effects` says whose plan has left something, `backups` what the file's backup would bring
back, `beyondUndo` and `cutOff` (both history) which files no undo restores any more and which
plans were cut off by the cap. Steps of one plan that write one file twice, whose backups
`rollback_subtree` would take in the order of the steps, are not told apart; two runs of
a plan are. The view `AllButOldSnapshots` of `GoalCore` leaves out snapshots that can never be
loaded again: a snapshot is loaded only if no name is greater, and names are never removed.

**Supervisor.** `pc` walks through one iteration of `run()`. `Session` is the saved part of
the session with the counters the watchdog reads. The snapshot and the journal line of a
checkpoint are two steps. Of the journal only what `_record_outcome` reads back is kept:
whether there is a resume line, the largest checkpoint before it, and whether one behind
it is smaller.

**Learning.** Every call (`improve`, autonomous `cycle`, `revert_last`) is a record of its
local variables in `call`; its reads and writes of shared state are separate actions:
three evaluations, the append, reading back, assigning what was read, installing the
planner; reading, rewriting, reading back and assigning for a revert (the rewrite itself is
one step here, `Lessons` takes it apart). An evaluation is the pure function `Passes` of the
keywords. `alone` holds the calls that nothing interferes with, `mixed` says that some
line came from another kind of call, `outread` the calls whose keyword came after a reading
that is still to be assigned.

**Research, Reliability.** `Fetch` is the whole of `NetworkPerimeter.fetch`: how a request
ends, the session afterwards and the page. `Denied` holds the rules on a request,
`BadResponse` the checks that can only be made on the answer. `FetchNext` is one request of
`research()`, with its journal line, cache and findings; `Answer` the end of the query,
`Abort` a transport that raises in the middle of it, `Probe` a direct call. A page is its type,
size, number of redirects, the domain that answered if it says so, a hash, its claims, and
`via`, the places the transport was sent to on the way (`_urllib_transport` follows redirects
of its own accord; no rule is asked about them). `calls` keeps all of it. `Reliability`
separates each operation's journal line (`Wrote`) from the snapshot (`Persist`); a crash
(`Restart`) may come between. Confidences are exact in ten-thousandths, time is in months.

**Lessons, Skills.** A rewrite reads (`Decide`), truncates (`Truncate`) and writes
(`WriteBack`); `Tear` is a crash in between. `Learn` appends at any of these moments, with any
confidence: a line that comes after the reading is gone, one that comes after the truncation
is written over, in whole lines or not (`Overlaid`, `garbled`), and `overrun` keeps its id.
One caller maintains and one adds: nothing in the program calls maintenance at all, so two
maintainers are not modelled. A task is a set of words, a plan a sequence of tools, dependencies
and argument maps, so that generalisation (`Template`, `Varies`), matching and binding are
modelled by what they do. `Mine` and `TryOne` are one idle pass; registration appends a
record, and the last of an id counts.

**SessionLessons.** The process's `records` (which lines of the journal it keeps), `advice`
and own bounds beside the files `journal` and `index`. The lines are what the supervisor
really records: a deferral, a pause, a completion, a stop. A shape is the frontier and the
profile of the bounds. `held` are the shapes whose lesson somebody withdrew, `forgotten` those
of them a restart found no lesson of in the index (both history).

**Patching.** A text is a sequence of characters (`Chars`, a constant that holds the line
break), cut at line breaks where the code does (`Split`): `Replay` works on lines, as the
sandbox does, `EditFile` on text, as the tool does, and `Drift` changes a file between the
two. The sandbox and the gates find a file from the workspace's root (`FromRoot`), the guard
and the tool from the directory the process was started in (`FromHere`, `Cwds`); `Resolve`
says what a path names from each. The field `drifted` of an edit is history: its file was
written since the test. The sandbox copies the live file for each section of a diff, so a
second section for one file is tested without the first, and the edit of the first outdates it
(`Outdated`); the default of one file allows no second section.

**Sorting.** `Sorted` and `SortedBy` put at each place the one with as many before it as the
place says; neither is recursive, so that theorems can be stated about them.

**Planner, Reasoning, RepoAware.** A task is a sequence of fragments, a fragment what the
rules look for in it: a shell prefix, verbs, a path, quoted content. `WholeTask` is the task
read as one fragment. A plan says by whom its steps are (`by`): a rule, the default echo for a
task without intent, which the code takes for confident as a rule's, a model, the fallback. A
deliberation is scored in hundredths and cut by a number of clock readings (`Clocks`); the
evidence is how much each source has to say. A skill is its facts and shapes; `Render` is one
call of the renderer with every combination of known facts.

**Trace, ChangeSets, Recovery, Audit.** Pure functions, translated one by one: adapters
into envelopes, edges, Kahn's algorithm as a fold, reducers as sets of
events, replay's failures and unknowns in the order of the envelopes, level and status;
projections, ids as tuples of the hashed fields, error sets in place of lists of messages.
Of an identity `Recovery` keeps what the code reads of it: its own state and value
(`own`, what `verify_identity_match` compares) and those of its `digest` (what `classify_outcome`
compares); a `TraceValue` has only the one, an `ObjectIdentity` only the other. `Audit` lets TLC
build every small input of the three, with identities that have one, the other or both.

History variables (runs, streaks, what succeeded) are marked in each module. Each module
holds mutants next to the definitions they corrupt: plausible bugs that show every
property can fail.

## 3. Runs

Every bound is a CONSTANT whose comment begins with BOUND.

| Run | Instance | Shows |
| --- | --- | --- |
| `ExecCore` | two tasks of equal priority, plans of one and two steps that repairs grow to four, reflection, review with one exempt task, one crash anywhere | legal writes, nothing in flight without a runner, dependencies and no wedge, no step lost or repeated, retry budget, DONE means done |
| `ExecLegacy` | no reflection, real retry ceiling, two priorities, a client that puts a stopped task back | every submitted task settles for good |
| `ExecRepairChain` | one task, two or three repairs at once | (violation) a chain of repairs loses a dependency |
| `GoalCore` | a chain of two subgoals and one beside it, the default retry budget of two, a plan that writes a file and two that cannot be undone, plans cut off by the cap, a symbol, fourteen snapshots, one crash anywhere, one command (cancel or rollback) | order and bounds on runs, DONE is achieved or cut off, rollback restores what an undo can, containment, nothing repeated after resume |
| `GoalEnds` | two subgoals joined in a third, plans that may stay unsettled, the goal run twice | it ends, and nobody waits for ever |
| `GoalRerun` | a chain of three, run twice | (violation) completed subgoals run again |
| `SessionCore` | three steps, failure limit two, tightened bounds and stall window, a deferral, a crash, a request | bounds, limit, review and stop requests, checkpoint and duplicate-work metric, termination |
| `QueueJournal` | two requests with two texts, which may be the same, one runner, five records | an id twice only for one text at one time, implements `TaskQueue` until two overlap |
| `LearnCore` | two threads, three keywords, six cases, a revert, a restart | a gain and no regression per line, exact revert, the planner gets it unless an older reading comes late |
| `FetchCore` | one session of three requests, two in each window of time, a cache of one page, redirects in plain text and off the list, a transport that raises before or behind one, two queries and three probes, dry or not; two sources, four journal lines, two months, two crashes | `EgressJustified`, `EvidenceIsJournaled`; `WithdrawnNotPreferred`, `LostOnlyByCrash` |
| `AdviceCore` | six plans of two shapes; two lessons of confidence 50 or 90, added at any moment of a rewrite, a tear of it, a day; sessions of one frontier under two profiles, four records, a restart; fifteen answers of a model over three files and four working directories; all tasks of one or two of nine fragments with four answers of a model or none; four repo-aware skills with six kinds of evidence | one or more properties of each of `Lessons`, `Skills`, `SessionLessons`, `Patching`, `Planner`, `RepoAware` |
| `AuditCore` | eleven kinds of records in journals of three (replay) or two with a change set and a receipt (changes); two verified scenarios (drill) of eight identities | what replay finds does not depend on the order of input; nothing unknown is confirmed; what a pass rests on |

`FetchCore`, `AdviceCore` and `AuditCore` hold modules that do not call one another: the
variable `focus` (`audit`) chooses at the start which one moves, so the state space is a
sum and not a product.

The bounds are the smallest that make the interesting case happen: a plan must grow by a
repair that is inserted *before* a dependent step (two steps, up to four); a younger task must
be able to overtake an older one (two tasks); a failed subgoal must have one below it and one
beside it (three subgoals); a session must be resumed between failing steps below its bound
(limit two of three steps); two threads and two copies suffice for every stale read of a
journal; a rate of two needs a third request in the window, a redirect a second domain; a
skill is mined from two plans and a third must differ; a patch must find its text at two
places; exchanging two records needs two, a tie or a cycle three. The mutants confirm it: each
property is violated within these bounds by a bug in the code it is about.

`CHECK_DEADLOCK FALSE` is stated where the system stops: a goal whose subgoals are settled
(`Goal*`), a queue whose bounded journal is full (`QueueJournal`), and bounded histories of
requests, records and answers (`FetchCore`, `AdviceCore`). Everywhere else a
deadlock would be an error.

**Fairness.** `Executive`: the drain loop calls `run_once` for ever and a tool call
returns, so the runner's steps are weakly fair; submissions, crashes and requeues are not.
A tool may fail for ever: settling is due to the retry ceiling. `GoalOrchestrator`: the
loop of `run()` goes on and a plan's run is bounded by 64 ticks. `Supervisor`: the loop
goes on once it is entered; nobody has to start, resume or brake a session. The other
modules have no liveness property: nothing in the code calls their operations regularly,
so there is no fairness to assume, and the checked properties are about what a step may do.

### Findings: where code and documents disagree

| Run | Disagreement |
| --- | --- |
| `ExecRepairChain` | a repair inserted into a chain of repairs lets the original step run before the later repairs |
| `GoalRerun` | run again, a goal repeats completed subgoals, because EXECUTING is journalled before the journal is asked |

`PROJECT.json` lists twenty-eight more, with the line of the document each contradicts. Many
were met because a property failed until it named the case, which is why a property's
comment may end in an exception; the exception is then exactly what is reported:

* executive and queue: tasks in flight after a crash, two runners of one queue, one id for
  two requests with one text at one time;
* orchestrator: plans cut off by the cap count as done; what a rollback does not undo;
  snapshot names are sorted as text (`hierarchy/journal.py:88`), so from the tenth on the ninth
  is loaded for the latest. States are repaired from the journal, attempts are not: with
  `GoalRerun`'s chain, a retry budget of two, one crash and no second run of the goal, TLC
  finds a plan that runs five times, where budget and crash should allow four.
  `OrderedByDependencies` therefore claims one run more per crash only while there are fewer
  than ten snapshots, and a whole budget more per crash beyond;
* learning: a reverted keyword still in use, an accepted one that an older reading of the
  journal keeps out of the planner, the variable of `self_repair.detect`, completed plans that
  are never found, skills promoted again after retirement, a comparison that compares nothing;
* lessons: one that is added during a rewrite is lost or leaves a file nobody can read;
  `unretire`; of sessions, deferrals counted as clean, a withdrawal that a restart forgets;
* planner: an echo that counts as confident stands in a chain for a fragment without intent;
* patches: tested below the root and carried out from the working directory; tested on whole
  lines and carried out on text;
* perimeter: redirects nobody is asked about, transports that raise and are counted nowhere,
  the budget's missing journal line;
* audits: a fingerprint that depends on the order of reading, the parent of a receipt, receipts
  that never validate, the drill that always says "hold", a classification that is never
  "exact" for a `TraceValue` and is for two unknown digests.

Other disagreements seen while modelling, without a run of their own:

* Two runners: `transition` reads, checks and later appends, so both may take one task and
  the journal holds a move the table forbids (`controller/queue.py:94`).
* Nothing carries an approval back to the task that waits for it (`learning/plan_review.py`).
* Repairs are not counted, so a step that fails again and again grows its plan without
  bound (`controller/executive.py:291`, against F10 "Repair budget bounded"); the model
  stops at `MaxSteps`.
* A subgoal that was EXECUTING at a crash is never resumed; a crash between FAILED and the
  propagation strands its dependents, and so does a rollback below a failed subgoal: the
  node is PENDING again, the failure is not propagated a second time, and it waits for ever
  (`GoalEnds` with one command violates `NothingStranded`). `FailureContained` speaks of runs
  without a crash and `NothingStranded` is checked without crashes and commands for that reason.
* Pausing or stopping a session that has ended ends it once more; a session paused for a
  stall is paused again at every resume; one id for all sessions of a frontier makes a
  later session count as duplicate work; `request_stop` outlives its session.
* `improve()` builds the new planner without the skill registry (`api/state.py:128`); the
  autonomous loop's engine has a copy of the keywords that nobody refreshes; the first
  failing case is proposed every time, so one that cannot be mended starves the rest;
  an append during a revert is lost; `/autonomous/repair` reads attributes of a boolean.
* Planner: a task of which one fragment is not understood is planned again as a whole, and
  may then be confident with the tool of one fragment and the path of another; that a
  fallback is not confident is dropped with `Plan.confident` (`planner/planner.py:154`). Turning
  a model on makes a fragment without intent unconfident, so that the whole task becomes one
  step and its other fragments are dropped, where without a model they were a chain.
* Reasoning: reflection journals a deliberation a second time (`reflection/engine.py:213`);
  the candidate a model adds is not validated and, on a tie, becomes the recommendation;
  equal scores in the learning seam recommend "adopt".
* Repo-aware: a shape with a step of no gated tool becomes the default, the journal keeps
  the advised one; the default itself with such a step recurses for ever.
* Skills: parameters are named after keys, so two steps with different values under one key
  share a slot (`skills/promoter.py:161`); the trigger's "half of the tasks" is `n // 2`;
  two candidates of one pass with the same tools get one name; `blocked` counts are taken
  from a memory nothing is logged to (`evaluation/compare.py:288`), retries and repairs
  decide nothing; lessons the executive records share no word with a skill's name.
* Session lessons: a stop at a bound or by the owner counts as needing review; a crash is
  never recorded; records are filed under the tightened bounds and looked up under the
  configured ones; nothing in the program calls extraction or decay.
* Reliability: unproven and retired sources keep full weight while proven ones are weighed
  down; decay is not idempotent, raises low confidences to its floor and is undone by the
  next outcome; the limit of contradictions for retirement has no effect.
* Research: an exhausted budget counts as an unsafe attempt; a transport error aborts the
  query; an answer from an allowlisted domain may come in plain text; a dry run journals
  "allowed"; two sentences of one page may contradict each other; the content cache is never
  read; `deliberate_with_research` does not use the engine it is given.
* Lessons: one confirmed once never expires (against `memory/lessons.py:83`); nothing in
  the program confirms, contradicts or decays.
* Patches: hunks of one file are concatenated; an insertion goes before the first empty line
  in the sandbox and to the top of the file in the tool; `regressed` is always false.
* Trace: adapters set neither parents nor causes, so replay orders by hashes; a parent
  outside the input keeps its child out of the order (`trace/replay.py:272`); two plan files
  read together get one id; the inspector gives no raw bytes, so all is "incomplete".
* Change sets: a success is confirmed despite required unknowns (`changeset/projector.py:352`);
  unknowns are dropped when records are read back; change sets of model patches never
  validate. Recovery: classification ignores receipt, evidence and safety, linkage compares
  a change set's id with the receipt's own, and evidence that was not preserved is not held
  against a drill.

## 4. Proofs

TLAPS proves the following for all values of the constants that satisfy the assumptions
in the module heads. Of these only `Reliability`'s asks for a finite set, that of the
sources, which it ranks.

* **`ExecutiveProofs`**, plans: lemmas on `SetStatus`, `InsertRepairAfter` and the rewiring: they
  yield plans, of the length they should, and an inserted repair is never DONE. `Wired`
  says of a plan that each dependency is an earlier step and the one `needs` names;
  one repair at a time keeps it (`WiredRepaired`), and a wired plan with a step left to run
  and none failed has a step ready (`NoWedge`: the first one that is not DONE).
  The executive: the inductive invariant `CInv == TypeOK /\ Control` (`ControlHolds`).
  None of the properties is inductive by itself: that a write is legal depends on the state
  the queue has given the task, which depends on which writes have been made. `Control`
  therefore says, for each `phase`, what state the task is in, where `at` points, and which
  lists `todo` may still hold (`PendingWrites`), each with the state it starts from. From
  it follow `TypeCorrect`, `NoIllegalTransition`, `OneInFlight`, `DoneOnlyComplete` (with
  a further invariant linking a DONE step to its success) and `RetryBounded` (which links
  `misfires` to the counter in memory and to the crashes).
  `ProgressOnDisk`: plan and success agree *somewhere* at every moment, on disk while the
  task can be picked, in memory from `load` until the tick has written. `PInv` says where,
  for each `phase`. It needs that uids tell the steps of a plan apart (`Numbered`), which
  insertion of repairs keeps: a repair takes the next uid.
  `RightOrder` (`DependencyOrder`) rests on every plan at hand being `Wired`, and assumes
  that reflection proposes no more than one repair at a time: with chains of them it fails
  (`ExecRepairChain`).
* **`SupervisorProofs`**: the inductive invariant `SInv` (`SessionInvariant`): the steps
  executed exceed those in the snapshot by at most one for each crash and the one not yet
  saved; the session in memory has as many as the snapshot wherever a step may be taken;
  neither is past the bound. `StepBudget` alone is not inductive: it says nothing of what a
  resume will read. From it `SupervisorTypes` and `StepsBounded`. Three more invariants rest
  on it. `FailuresCounted` does for failing steps in a row what `SInv` does for steps
  (`FailuresBounded`). `StaysUnfit`: a session stopped for review has counters, in memory
  and in the snapshot, with which the watchdog at least pauses it at every resume
  (`StoppedForGood`); the reason for the stop itself may be gone by then, since an
  exhausted budget is one only while there is work. `LoggedIsSaved`: what is logged has
  been saved before, and a first session logs less than before only if it has lost steps
  (`CheckpointsDurable`).
* **`GoalProofs`** (`GInv`): a subgoal that is not PENDING is in the journal as it is in
  memory, and what the journal says is DONE has been achieved or was cut off by the cap, which
  is `DoneIsAchieved` without a hypothesis. `RollbackIsClean` (`RollbackRestores`): what is in a
  file that an undo can still restore (`Restorable`) was written once, on top of nothing, by a
  plan in memory or with a file of its own, and its subgoal is past PENDING. The ways in which
  an undo is lost are `beyondUndo`; nothing else is excepted, and neither crashes nor commands
  are limited. `AchievedStaysDone` assumes that the goal is not decomposed a second time,
  because then it fails (`GoalRerun`); it does not limit crashes, cancellations or rollbacks.
  `RunsAfterDependencies` (with `WaitsForDone`) is the first part of `OrderedByDependencies`.
  `OrderAndBudget` is all of it, without a hypothesis: while there are fewer than ten snapshots
  (`RInv`, under `Early`) attempts in memory are never below those in the snapshot a resume
  loads, and bound the runs of a plan with one more for each crash; whatever is loaded, a life of
  the process uses no more than one budget (`LivesBounded`).
  `FailureStaysBelow` (`FailureContained`) has no hypothesis. Its invariant (`BlockedBelow`)
  says that as long as nothing has crashed a BLOCKED subgoal waits for one that failed, is
  blocked or was cancelled, or is itself in the branch a rollback is resetting. It needs that
  `Descendants` is closed under dependents, which induction along the graph would give, so
  the model defines it as the least closed set. `EveryoneSettles` (`NothingStranded`):
  before the propagation everything a failed subgoal blocks is still to be blocked, after it
  nothing is. It assumes neither crash nor command, and both are needed (section 3).
* **`JournalQueueProofs`** (`JInv`): the number in an id may be stale, but is never above
  the number of lines plus one, and two submissions under way with one text have been
  noticed (`Noticed`). `NoIdTwice` follows without a hypothesis: an id is given twice only for
  a text of which two submissions overlapped, which is a finding (section 3).
  `JournalIsQueue` proves the refinement step by step, under the assumption of the run that
  checks it (`OneRunner`: all but one client only submit). `RInv` says, until two submissions
  have overlapped: the task a submission under way will append has an id that is not in the
  file and is newer than all there (`Making`), the line the runner will append is a legal
  move from the state its task is still in (`Moving`), and no two tasks are equally old
  (`Dated`). The list of tasks is then the abstract queue's: `ByAge` takes as the k-th
  task the one with k - 1 older than it, so no sort has to be reasoned about, and a new
  task is the last (`YoungestLast`).
* **`LearningProofs`** (`LInv`): what a call that nobody has interfered with has read is
  still so, hence its verdict is about the engine it changes (`AloneNeverRegresses`); what
  was accepted stays, until someone reverts, in the journal, in what its call reads back, and
  in what any other call is about to assign, if none had read before (`AcceptedStays`,
  hence `AcceptedReachesPlanner`).
* **`AdviceProofs`**, `Lessons` and `Skills` (`LInv`): what a rewrite will write and what the
  file holds are each in the order in which lessons came; once the file is empty, only lessons
  younger than all the rewrite has read are appended to it (`Younger`), so writing over some
  of them keeps the order (`OverlaidInOrder`); and until a crash tears it every lesson not
  added during a rewrite is in the one or the other (`Kept`, hence `LessonsKept`). A lesson
  nobody confirmed is trusted no more than it was told with. One that was told with no more
  than the usual confidence weighs too little to bring a skill's bias down to the bound for
  retirement, so that takes two, or one that was confirmed or told with more (`TakesTwo`,
  hence `RetiredForCause`). `SkillsComeFromPlans` (`MinedReproduces`): in `MInv` every record
  of the library that was mined, and every candidate a pass has not tried yet, redoes the
  plans it names as its sources. It needs that an id is made of a number of records and a
  name, so that no later registration takes it. The proof shows what the template of a group
  of plans is filled with: the constants where all agree, and one value per parameter, unless
  steps share a parameter. `ExperienceOnlyRanks` (`BestOfTheMatching`): what `SortedBy`
  returns is a permutation in order of bias with equals as they were, so the planner's choice
  is one of the matching skills, and the best. It rests on `LInv` and `MInv`. `SessionLessons`
  (`AInv`): between operations the process has loaded exactly what the files say, cutting the
  history as it grows gives what cutting it once gives (`CutAsYouGo`), and whatever is held
  and not forgotten is flagged in its lesson or has no lesson. `HoldIsRespected` and
  `AdviceSurvives` follow. `Planner`: what becomes of one fragment with a model and without is
  compared (`OneFragment`): they differ only where the rules leave an echo, and an echo of a
  chain is of a fragment without intent. A plan is a chain of as many steps as fragments or
  one step (`TwoForms`), so the plan with a model and the plan without can be compared step by
  step (`ModelOrNot`, hence `ModelOnlyFillsGaps`). `RepoAware` with `Reasoning`: less than two
  observations and no clear failure leave a confidence of at most a half, because the scores
  of all candidates, a model's among them, then lie between 40 and 60 and no spread is counted
  (`BlindNotSure`). Sorting by rank puts no candidate in that was not there (`SomeoneAtEach`:
  ranks are a permutation). A shape that is rendered therefore has one of the three grounds
  `PlainFloor` names (`NeverWorseThanPlain`). The theorem assumes a confidence floor above a
  half; it is 0.60 (`reasoning/engine.py:33`), and at a half one observation would be enough.
  `Patching` (`PatchInv`): as long as its file, as the root names it, is not written, an edit
  that waits was tested on the text the file has. `AppliedAsTested` alone says nothing of
  edits that wait. What is left is that two algorithms agree on every text: the test splits
  the text, looks for lines, replaces and joins; the tool looks for characters and replaces.
  The lemmas on texts prove it. Joining is undone by splitting (`SplitText`, by a least
  counterexample along the text, through `ExtendedText`); lines put together are texts put
  together with a break between (`TextOfBoth`); so where lines are replaced, their text is
  replaced between the same two texts (`TextReplaced`); and a text whose first occurrence is
  where the lines begin is replaced there (`PutTogether`, `EditedFirst`). `AnswersAreDiffs`
  follows the parser through an answer of any length. Hence `RepairsAreAppliedAsTested`, for
  all files, texts, answers and whatever paths name from whatever directory.
* **`ResearchProofs`**, `Research`: in `EInv` the session counts exactly the calls that were
  answered, within the budget, its unsafe attempts are no fewer than the answers from off the
  list, and each moment in `times` has at most `RateBudget` in the window before it
  (`EgressAccounted`). Neither speaks of redirects under way or of calls that raised: the
  code keeps no count of them. The rate is checked before a
  request and the time noted after it; that both happen within one moment of the clock is
  the model's (one session at a time). `CitedInv` adds to `EvidenceIsJournaled` that a bundle of
  nothing has a confidence of a tenth, below what either consumer acts on, which says why
  no consumer does (`EvidenceTraced`).
  `Reliability` (`StandingInv`): memory and snapshot are equal between operations; a withdrawn
  source is retired in memory, in the snapshot and in what is about to be persisted; and a
  standing lacks no more of the outcomes in the tail of the journal than crashes have kept out
  (`OutcomesAreCounted`). A new line can push old ones out of the tail, so the claim is about
  how many of the tail are counted, and the step needs that a tail one longer holds at
  most one more. `WithdrawnStaysBehind` needs what `Rank` does with two sources, and the
  bounds on `Weight`.
* **`AuditProofs`**: for records, objects and observations of any kind and journals of any
  length. `RInv` says where a receipt comes from: it was correlated, with a record that is
  still in the journal, for a change set that was projected (`Traced`). Three lemmas make that
  useful. An adapter keeps a record's event and digest (`AdapterKeeps`), and a record has a
  digest because the adapter computes one, so the observation of a rollback is known; the id
  of a change set hashes the states before and after, so an id names one pair of them
  (`SameIdSameChange`); and `Correlated` uses one observation as the state before the rollback
  and after it. Together they give `ConfirmedWasRestored` (`NeverFalselyConfirmed`). The proof
  attempt showed the claim false as it was first written: of a mutation that cannot be rolled
  back the validator compares nothing (`changeset/validate.py:221`), which no journal of the
  run contained. The property now excludes such receipts, and the run has records that give
  rise to them. `PassedIsExact` (`PassMeansAllExact`) needs no more of the state than that it
  holds scenarios whose identities could be compared (`VInv`): one that is exact has a digest,
  and one that could be compared a value of its own (`ExactIsRestored`), so neither is a
  `TraceValue` or an `ObjectIdentity`. The rest are lemmas about the metrics: a count of all
  is a count of each (`PassNeedsAll`), a sum of nothing is nothing in each (`NothingGained`),
  and no run of the drill script passes (`DrillHolds`). `ReplayOrderFree`
  (`ReplayDeterministic`), from `RInv` and what adapters and projection make: with two
  envelopes exchanged (`Turned`), each event has as many parents and causes, and as many edges
  lie between any two (`SameInto`, `SameBetween`: `Recount` counts the same set of places
  through the exchange). The sorted nodes, and with them the topological order, are then equal
  (`SameTopology`), and so is what the lists of failures and unknowns hold (`SameFindings`),
  though not their order nor the fingerprint made of it. If no two envelopes have one id, each
  event of the order stands for the same envelope, and of those left over the sort by sequence
  number and event has no ties (`SameOrder`), so the reducers get one sequence.

Where a theorem has a hypothesis, it is one the run that checks the property shares, or
one without which a run or section 3's findings show it to fail.

The properties and the invariants were checked by TLC before their proof. Every
invariant and action property that a passing run checks is stated by a theorem, under the
hypotheses named above where there are some. Only model-checked is
liveness (`EveryTaskSettles`, `RunEnds`, `SessionEnds`): it depends on fairness. What
recursive functions compute is proved without an induction rule, which takes an operator
as a parameter that the provers cannot instantiate: a least counterexample is refuted
(`LeastNat`), and that the function exists is shown in the same way (`StepByStep`). Folds
over records (`Reconstructed`, `Status`) are only ever compared for equal arguments.

## 5. Not modelled, and the plan

Not modelled: what text becomes which plan, keyword or classification of a failure; the
content of files other than those a patch touches (what a tool's undo restores); torn
writes of plan files; wall-clock values; HTTP, model providers and the desktop shell;
parsing Python for the symbol index; self-repair's proposals, which regular expressions
make from log text; benchmarks and simulations (scripts that measure the rest).

What is left, in this order:

1. **Composition**: the executive under two runners (drain loop and session), whose
   counters and plans are shared; `SessionLessons` with `Supervisor`; two research sessions in two
   threads over one perimeter (each has counters of its own, the journal is shared).
2. **A torn plan file**, and a rollback with the contents of files, where one plan writes a
   file twice.
