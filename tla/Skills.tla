--------------------------------- MODULE Skills ---------------------------------
(* The skill library and what fills, thins and uses it (skills/registry.py,       *)
(* promoter.py, idle_promotion.py, evaluation/compare.py, learning/engine.py,     *)
(* experience_retire.py, planner/planner.py).  Completed plans of one shape are   *)
(* generalised to a candidate, the candidate is compared on a workflow suite and  *)
(* registered; lessons retire it and order what the planner chooses from.         *)
(* A plan is the words of its task, or None if it has no text, and per step a     *)
(* tool, the steps it waits for and its arguments: a function from keys to        *)
(* values, or None if not an object.                                              *)
EXTENDS Lessons, Sorting, SequencesExt, FiniteSetsExt, Functions

CONSTANTS
  PlanSet,        \* the plans that may complete: [task, text, repairs, steps]
  Histories,      \* what may have completed before
  Numbers,        \* the values that are not strings
  NameOf(_),      \* _make_name: the name for a set of tools
  Seeds,          \* skills written by hand: [name, trigger, params, steps]
  Suite,          \* the workflow suite: [case, skill]
  Baseline,       \* its cases that complete without a skill
  Tasks,          \* what is asked of the planner: [words, given]
  Tools,          \* the tools the planner knows
  MinRecurrence, MaxRepairs, Budget,
  MaxLog          \* BOUND: records in the registry

ASSUME SkillsAssumption ==
  /\ MinRecurrence \in Nat \ {0} /\ {MaxRepairs, Budget, MaxLog} \subseteq Nat
  /\ Baseline \subseteq Suite
  /\ \A h \in Histories :
       h \subseteq PlanSet /\ IsFiniteSet(h) /\ \A p, q \in h : p.task = q.task => p = q
  /\ \A p \in PlanSet :
       /\ IsFiniteSet(DOMAIN p.steps)
       /\ \A i \in DOMAIN p.steps :
            LET arg == p.steps[i].arg IN arg # None => arg = [key \in DOMAIN arg |-> arg[key]]
  /\ None \notin {"invalid_render", "bind_failed", "no_trigger_match"}

VARIABLES
  log,       \* skills.jsonl
  done,      \* the plans that have completed
  idlePass,  \* candidates of the idle pass under way and how many it tried, or None
  \* history, not in the code
  sources,   \* skill id -> the plans it was made from
  against    \* skill id -> the lessons it was retired for, by experience

skillVars == <<log, done, idlePass, sources, against>>
libraryVars == <<lessonVars, skillVars>>

-----------------------------------------------------------------------------
(* The registry: the last record of an id counts. *)

Records(id) == {i \in DOMAIN log : log[i].id = id}
Ids == {log[i].id : i \in DOMAIN log}
CurrentOf(id) == log[Max(Records(id))]
ActiveIds == {id \in Ids : CurrentOf(id).active}

\* register: the id is the count of records before, and the name.
Registered(skill) ==
  [id |-> <<Len(log) + 1, skill.name>>, name |-> skill.name, trigger |-> skill.trigger,
   params |-> skill.params, steps |-> skill.steps, version |-> 1, active |-> TRUE]

\* retire and unretire: one more record, whatever the last one says.
Flagged(id, active) == [CurrentOf(id) EXCEPT !.active = active, !.version = @ + 1]

-----------------------------------------------------------------------------
(* Mining *)

\* _repairs_of: repairs and replans of the plan's task.
Stable(plan) == plan.repairs <= MaxRepairs

ShapeOf(plan) == [i \in DOMAIN plan.steps |-> <<plan.steps[i].tool, plan.steps[i].deps>>]

\* _diff_args at one step: which keys vary from plan to plan.  Anything but objects of
\* strings with the same keys is ambiguous.
Clear(args) ==
  /\ None \notin args
  /\ \A a, b \in args : DOMAIN a = DOMAIN b
  /\ \A a \in args : \A key \in DOMAIN a : a[key] \notin Numbers

\* Mutant: a key that varies little is kept as in one of the plans.
VariesALot(args, key) == Cardinality({a[key] : a \in args}) > 2

Varies(args, key) == Cardinality({a[key] : a \in args}) > 1

\* A literal stands for itself, a parameter is named after its key.
Template(args) ==
  LET one == CHOOSE a \in args : TRUE
  IN  [key \in DOMAIN one |-> [param |-> Varies(args, key), value |-> one[key]]]

\* _derive_trigger: the words in at least half of the texts, rounded down; each text
\* must have one of them.  The texts of other tasks are never there to be looked at.
Trigger(texts, number) ==
  LET Often(w) == Cardinality({p \in texts : w \in p.text}) >= Max({1, number \div 2})
  IN  {w \in UNION {p.text : p \in texts} : Often(w)}

\* _generalize: the candidate of the plans of one shape, or None.
Generalized(plans) ==
  LET one == CHOOSE p \in plans : TRUE
      texts == {p \in plans : p.text # None}
      Args(i) == {p.steps[i].arg : p \in plans}
      trigger == Trigger(texts, Cardinality(texts))
      steps == [i \in DOMAIN one.steps |->
                  [tool |-> one.steps[i].tool, deps |-> one.steps[i].deps, template |-> Template(Args(i))]]
  IN  IF \/ texts = {}
         \/ \E i \in DOMAIN one.steps : ~Clear(Args(i))
         \/ \E p \in texts : p.text \cap trigger = {}
      THEN None
      ELSE [name |-> NameOf({one.steps[i].tool : i \in DOMAIN one.steps}), trigger |-> trigger,
            params |-> {key \in UNION {DOMAIN steps[i].template : i \in DOMAIN steps} :
                          \E i \in DOMAIN steps : key \in DOMAIN steps[i].template
                                                   /\ steps[i].template[key].param},
            steps |-> steps, sources |-> {p.task : p \in plans}]

\* SkillPromoter.candidates
Candidates ==
  LET stable == {p \in done : Stable(p)}
      groups == {{p \in stable : ShapeOf(p) = ShapeOf(q)} : q \in stable}
  IN  {Generalized(g) : g \in {h \in groups : Cardinality(h) >= MinRecurrence}} \ {None}

\* IdleSkillPromotion.mine: only the names of active skills are left out.
Mined == {c \in Candidates : \A id \in ActiveIds : CurrentOf(id).name # c.name}

\* valid_dag: no step waits for itself, directly or not, or for one that is not there.
ValidDag(steps) ==
  LET After(S) == S \cup {j \in DOMAIN steps : steps[j].deps \cap S # {}}
      Reach[n \in 0 .. Len(steps)] ==
        [i \in DOMAIN steps |->
           IF n = 0 THEN {j \in DOMAIN steps : i \in steps[j].deps} ELSE After(Reach[n - 1][i])]
  IN  \A i \in DOMAIN steps : steps[i].deps \subseteq DOMAIN steps /\ i \notin Reach[Len(steps)][i]

-----------------------------------------------------------------------------
(* Promotion *)

\* SkillComparison.run: the skill is there in the cases that name it only, so a case
\* that does not comes out as without it.
Runs(skill) ==
  {on \in SUBSET Suite : \A c \in Suite : c.skill # skill.name => (c \in on <=> c \in Baseline)}

\* accepted: as many cases complete and none is lost.  Blocked actions are counted in a
\* journal they are not written to; retries and repairs decide nothing.
Accepted(on) == Baseline \subseteq on

Register(skill, from) ==
  /\ Len(log) < MaxLog
  /\ log' = Append(log, Registered(skill))
  /\ sources' = [id \in DOMAIN sources \cup {Registered(skill).id} |->
                   IF id = Registered(skill).id THEN from ELSE sources[id]]

\* promote_skill by the owner: on workflow cases it is compared; evaluation cases are
\* run without the skill, so their anchors pass whatever it is; or there are no cases.
PromoteByHand(skill, cases) ==
  /\ cases = "workflow" => \E on \in Runs(skill) : Accepted(on)
  /\ Register(skill, {})
  /\ UNCHANGED <<lessonVars, done, idlePass, against>>

\* The executive is idle: the candidates of a pass are mined once.
Mine ==
  /\ idlePass = None
  /\ Mined # {}
  /\ idlePass' = [left |-> Mined, tried |-> 0]
  /\ UNCHANGED <<lessonVars, log, done, sources, against>>

\* try_one: promoted or rejected, and not remembered as either.
TryOne(c) ==
  /\ idlePass # None /\ c \in idlePass.left /\ idlePass.tried < Budget
  /\ idlePass' = [left |-> idlePass.left \ {c}, tried |-> idlePass.tried + 1]
  /\ \/ /\ ValidDag(c.steps)
        /\ \E on \in Runs(c) : Accepted(on)
        /\ Register(c, c.sources)
     \/ /\ ~ValidDag(c.steps) \/ \E on \in Runs(c) : ~Accepted(on)
        /\ UNCHANGED <<log, sources>>
  /\ UNCHANGED <<lessonVars, done, against>>

\* The budget is used up, nothing is left, or work has arrived.
PassEnds ==
  /\ idlePass # None
  /\ idlePass' = None
  /\ UNCHANGED <<lessonVars, log, done, sources, against>>

\* The plan store has one file for a task.
Complete(plan) ==
  /\ idlePass = None /\ \A p \in done : p.task # plan.task
  /\ done' = done \cup {plan}
  /\ UNCHANGED <<lessonVars, log, idlePass, sources, against>>

-----------------------------------------------------------------------------
(* Retirement *)

Flag(id, active) == Len(log) < MaxLog /\ log' = Append(log, Flagged(id, active))

\* demote_skill, restore_retired_skill
Demote(id) == Flag(id, FALSE) /\ UNCHANGED <<lessonVars, done, idlePass, sources, against>>
Restore(id) == Flag(id, TRUE) /\ UNCHANGED <<lessonVars, done, idlePass, sources, against>>

\* Mutant: one doubtful lesson is enough.
RetireBiasEager == -50
RetireBias == -60

\* retire_stale_skills: all active skills the lessons turn against, if they can be read.
Stale == {id \in ActiveIds : Bias(CurrentOf(id).name) <= RetireBias}

RetireStale ==
  LET order == SetToSeq(Stale)
  IN  /\ ~garbled /\ Stale # {} /\ Len(log) + Cardinality(Stale) <= MaxLog
      /\ log' = log \o [k \in DOMAIN order |-> Flagged(order[k], FALSE)]
      /\ against' = [id \in DOMAIN against \cup Stale |->
                       IF id \in Stale THEN {lessons[i] : i \in Evidence(CurrentOf(id).name, "avoid")}
                       ELSE against[id]]
      /\ UNCHANGED <<lessonVars, done, idlePass, sources>>

-----------------------------------------------------------------------------
(* Use *)

Matches(skill, task) == skill.trigger \cap task.words # {}
Binds(skill, task) == skill.params \subseteq task.given

\* Mutant: what failed before comes first.
RankedWorstFirst(skills) ==
  SortedBy(skills, {p \in (DOMAIN skills) \X (DOMAIN skills) :
                     \/ Bias(skills[p[1]].name) < Bias(skills[p[2]].name)
                     \/ (Bias(skills[p[1]].name) = Bias(skills[p[2]].name) /\ p[1] < p[2])})

\* experience_rerank: the better first, and else as they were.
Ranked(skills) ==
  SortedBy(skills, {p \in (DOMAIN skills) \X (DOMAIN skills) :
                     \/ Bias(skills[p[1]].name) > Bias(skills[p[2]].name)
                     \/ (Bias(skills[p[1]].name) = Bias(skills[p[2]].name) /\ p[1] < p[2])})

\* active_skills come in the order in which their ids first came.
Matching(task) ==
  LET fit == {id \in ActiveIds : Matches(CurrentOf(id), task) /\ Binds(CurrentOf(id), task)}
      First(id) == Min(Records(id))
      order == Sorted(fit, {p \in fit \X fit : First(p[1]) < First(p[2])})
  IN  [k \in DOMAIN order |-> CurrentOf(order[k])]

\* Planner.plan_multi: a skill that names a tool the planner does not have is given up.
\* (Lessons that cannot be read raise before, where they are consumed at all.)
PlanSource(task) ==
  LET ranked == Ranked(Matching(task))
      Fallback(why) == [id |-> None, why |-> why]
  IN  IF ranked # <<>>
      THEN IF \A i \in DOMAIN ranked[1].steps : ranked[1].steps[i].tool \in Tools
           THEN [id |-> ranked[1].id, why |-> None] ELSE Fallback("invalid_render")
      ELSE IF \E id \in ActiveIds : Matches(CurrentOf(id), task) THEN Fallback("bind_failed")
      ELSE Fallback("no_trigger_match")

-----------------------------------------------------------------------------
SkillsInit ==
  /\ LessonsInit
  /\ log = <<>> /\ done \in Histories /\ idlePass = None
  /\ sources = <<>> /\ against = <<>>

SkillsNext ==
  \/ LessonsNext /\ UNCHANGED skillVars
  \/ \E s \in Seeds, cases \in {"workflow", "evaluation", "none"} : PromoteByHand(s, cases)
  \/ \E p \in PlanSet : Complete(p)
  \/ Mine \/ PassEnds
  \/ idlePass # None /\ \E c \in idlePass.left : TryOne(c)
  \/ \E id \in Ids : Demote(id) \/ Restore(id)
  \/ RetireStale

SkillsSpec == SkillsInit /\ [][SkillsNext]_libraryVars

-----------------------------------------------------------------------------
(* Properties *)

\* What a template makes of one of its plans' own values.
Filled(step, values) ==
  [key \in DOMAIN step.template |->
     IF step.template[key].param THEN values[key] ELSE step.template[key].value]

\* The completed plans of these tasks.
From(ids) == {p \in done : p.task \in ids}

\* The skill is what these plans have in common.
Reproduces(skill, from) ==
  LET Values(key, p) == {p.steps[i].arg[key] :
                           i \in {j \in DOMAIN p.steps : key \in DOMAIN p.steps[j].arg
                                                         /\ skill.steps[j].template[key].param}}
  IN  /\ Cardinality(from) >= MinRecurrence
      /\ \A p \in from :
           /\ p.repairs <= MaxRepairs
           /\ p.text # None => Matches(skill, [words |-> p.text])
           /\ (\A key \in skill.params : Cardinality(Values(key, p)) = 1) =>
                LET values == [key \in skill.params |-> CHOOSE v \in Values(key, p) : TRUE]
                IN  \A i \in DOMAIN p.steps : Filled(skill.steps[i], values) = p.steps[i].arg

\* A mined skill is no luck, and is the plans it was made from: behind it are as many
\* completed plans as recurrence asks for, none repaired too often, whatever was retired,
\* restored or mined again since; with the values of any of them it does the steps of that
\* plan again, and its trigger knows the task.  Steps that share a parameter but not its
\* value are the exception: the template has one slot for both.
MinedReproduces ==
  \A id \in {i \in DOMAIN sources : sources[i] # {}} : Reproduces(CurrentOf(id), From(sources[id]))

\* A lone failure nobody confirmed, added with no more than the usual confidence, retires
\* no skill, however the lessons about it are judged, rewritten and read: what retires one
\* are two, or one that was confirmed or was told with confidence ("a lone low-confidence
\* failure does NOT retire, but sustained/confident avoidance does").
LoneFailureKeepsSkill ==
  \A id \in DOMAIN against :
    \/ Cardinality(against[id]) >= 2
    \/ \E l \in against[id] : l.confirmed > 0 \/ l.given > Usual

\* Experience reorders and never adds or hides: the planner gets the matching skill with
\* the best record, the oldest of equals, and nothing is different while consumption is off;
\* as long as the lessons can be read, if they are.
BestOfTheMatching ==
  ~(consume /\ garbled) => \A task \in Tasks :
    LET source == PlanSource(task)
        Better(i, j) == Bias(Matching(task)[i].name) > Bias(Matching(task)[j].name)
    IN  /\ Matching(task) = <<>> <=> source.why \in {"bind_failed", "no_trigger_match"}
        /\ source.why = None =>
             \E i \in DOMAIN Matching(task) :
               /\ Matching(task)[i].id = source.id
               /\ \A j \in DOMAIN Matching(task) : ~Better(j, i) /\ (j < i => Better(i, j))
               /\ ~consume => i = 1
=============================================================================
