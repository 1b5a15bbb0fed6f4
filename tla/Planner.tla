-------------------------------- MODULE Planner --------------------------------
(* How a task becomes a plan (src/aetheris/planner/planner.py): by a skill that   *)
(* fits, by rules applied to each of its fragments, or, where the rules have too  *)
(* little to go on, as one step that a language model may suggest.                *)
EXTENDS Values, Integers, Sequences, FiniteSets

CONSTANTS
  TaskSet,      \* tasks: sequences of fragments, as "then" splits them
  ToolNames,        \* the tools of the registry
  ModelAnswers,      \* what the model may answer; None: there is no model
  Renderings    \* what the skills may offer: None or a sequence of tools

VARIABLES
  request,      \* the task in hand, the model's answers and the skills' offer
  plan          \* the plan made of it

plannerVars == <<request, plan>>

Verbs == {"write", "list", "read"}

\* A fragment: its shell prefix (None, "empty" or "cmd"), the intents whose verbs it
\* contains, its first path= and whether it has a content=.
Fragment == [shell: {None, "empty", "cmd"}, verbs: SUBSET Verbs, path: {"a", "b", None}, content: BOOLEAN]

ASSUME PlannerAssumption == \A task \in TaskSet : task \in Seq(Fragment) /\ task # <<>>

\* The whole task read as one fragment: the prefix of the first, the verbs and the
\* contents of all, the first path.  A prefix followed by more text has a command.
WholeTask(task) ==
  LET named == {i \in DOMAIN task : task[i].path # None} IN
  [shell |-> IF task[1].shell = "empty" /\ Len(task) > 1 THEN "cmd" ELSE task[1].shell,
   verbs |-> UNION {task[i].verbs : i \in DOMAIN task},
   path |-> IF named = {} THEN None ELSE task[CHOOSE i \in named : \A j \in named : i <= j].path,
   content |-> \E i \in DOMAIN task : task[i].content]

\* What the planner is sure of includes the echo of a fragment that asks for no tool.
Single(tool, path, by) ==
  [tool |-> tool, path |-> path, by |-> by, confident |-> by \in {"rule", "default"}]

\* A suggestion counts when the model gave one (it did not abstain, fail or raise),
\* of a known tool, with an argument that is JSON.
Suggested(answer) == answer # None /\ answer.ok /\ answer.tool \in ToolNames /\ answer.json

Fallback(answer) ==
  IF Suggested(answer) THEN Single(answer.tool, None, "model") ELSE Single("echo", None, "fallback")

\* The first rule that fits decides; one that lacks its arguments does not pass on.
PlanOf(fragment, answer) ==
  LET Needs(tool, enough) == IF enough THEN Single(tool, fragment.path, "rule") ELSE Fallback(answer) IN
  IF fragment.shell # None THEN
    IF fragment.shell = "cmd" THEN Single("shell", None, "rule") ELSE Fallback(answer)
  ELSE IF "write" \in fragment.verbs THEN Needs("write_file", fragment.path # None /\ fragment.content)
  ELSE IF "list" \in fragment.verbs THEN Needs("list_dir", fragment.path # None)
  ELSE IF "read" \in fragment.verbs THEN Needs("read_file", fragment.path # None)
  ELSE IF answer # None THEN Fallback(answer) ELSE Single("echo", None, "default")

\* A single step for the whole task, planned afresh: the model is asked once more.
SingleStep(task, answers) ==
  LET single == PlanOf(WholeTask(task), answers[0]) IN
  [source |-> "decomposed",
   steps |-> <<[tool |-> single.tool, path |-> single.path, by |-> single.by, of |-> 0, deps |-> {}]>>]

\* Mutant: one fragment planned with confidence is enough.
DecomposedAnyway(task, answers) ==
  LET single == [i \in DOMAIN task |-> PlanOf(task[i], answers[i])] IN
  IF Len(task) > 1 /\ \E i \in DOMAIN task : single[i].confident
    THEN [source |-> "decomposed",
          steps |-> [i \in DOMAIN task |->
                       [tool |-> single[i].tool, path |-> single[i].path, by |-> single[i].by,
                        of |-> i, deps |-> IF i = 1 THEN {} ELSE {i - 1}]]]
    ELSE SingleStep(task, answers)

\* A chain of one step per fragment, each after the one before it; one fragment
\* that is not planned with confidence and the whole task becomes one step.
Decomposed(task, answers) ==
  LET single == [i \in DOMAIN task |-> PlanOf(task[i], answers[i])] IN
  IF Len(task) > 1 /\ \A i \in DOMAIN task : single[i].confident
    THEN [source |-> "decomposed",
          steps |-> [i \in DOMAIN task |->
                       [tool |-> single[i].tool, path |-> single[i].path, by |-> single[i].by,
                        of |-> i, deps |-> IF i = 1 THEN {} ELSE {i - 1}]]]
    ELSE SingleStep(task, answers)

\* Skills come first; one that names a tool nobody registered, as one that cannot be
\* rendered at all, is as good as none.
Rendered(offer) == offer # None /\ \A i \in DOMAIN offer : offer[i] \in ToolNames

PlanMulti(task, answers, offer) ==
  IF Rendered(offer)
    THEN [source |-> "skill",
          steps |-> [i \in DOMAIN offer |->
                       [tool |-> offer[i], path |-> None, by |-> "skill", of |-> 0, deps |-> {}]]]
    ELSE [Decomposed(task, answers) EXCEPT !.source = IF offer = None THEN @ ELSE "fallback"]

PlannerInit == request = None /\ plan = None

\* One call of plan_multi.  The model may answer each question differently.
Ask ==
  /\ request = None
  /\ \E task \in TaskSet, offer \in Renderings :
       \E answers \in [0..Len(task) -> ModelAnswers \ {None}] \cup {[i \in 0..Len(task) |-> None]} :
         /\ request' = [task |-> task, answers |-> answers, offer |-> offer]
         /\ plan' = PlanMulti(task, answers, offer)

PlannerSpec == PlannerInit /\ [][Ask]_plannerVars

-----------------------------------------------------------------------------
\* The steps of a plan that only echo, and a fragment that asks for no tool.
Echoes(steps) == {i \in DOMAIN steps : steps[i].tool = "echo"}
NoIntent(fragment) == fragment.shell = None /\ fragment.verbs = {}

\* The plan the same task would get if there were no model.
Bare == PlanMulti(request.task, [i \in 0..Len(request.task) |-> None], request.offer)

\* A model fills the gaps of the rules and changes nothing else: where the rules alone
\* leave no step that only echoes, the plan is the one they make, whatever the model
\* would have answered to the whole task or to a part of it; and where they do leave
\* one, a model that is asked makes the plan a single step, so that what it suggests,
\* which is of a registered tool, never runs between two steps the user wrote.  Without
\* a model an echo may stand in a chain, but only for a fragment that asks for no tool,
\* never for one whose arguments are missing.
ModelFillsGaps ==
  plan # None /\ plan.source # "skill" =>
    /\ Echoes(Bare.steps) = {} => plan = Bare
    /\ Echoes(Bare.steps) # {} /\ request.answers[0] # None => Len(plan.steps) = 1
    /\ Len(Bare.steps) > 1 => \A i \in Echoes(Bare.steps) : NoIntent(request.task[i])
    /\ \A i \in DOMAIN plan.steps : plan.steps[i].by = "model" => plan.steps[i].tool \in ToolNames
=============================================================================
