-------------------------------- MODULE RepoAware ------------------------------
(* Repo-aware skills (src/aetheris/skills/repo_aware.py): a skill declares which  *)
(* facts of the repository fill its blanks and which shapes its plan may have;    *)
(* the renderer asks Understanding, may ask the advisor of module Reasoning, and  *)
(* makes an ordinary plan.                                                        *)
EXTENDS Reasoning

CONSTANTS
  SkillSet,      \* the declared skills
  GatedTools     \* REPO_AWARE_TOOLS

VARIABLE renders   \* the renderer's journal

\* A declared fact: the blank it fills, the query, the task parameter it is about;
\* and a shape: its name, whether it is the default, the blank that must really be
\* known to prefer it, and its steps.
FactRequest == [binding: STRING, query: STRING, arg: STRING]
ShapeStep == [tool: STRING, deps: SUBSET Nat]
CandidateShape == [id: STRING, default: BOOLEAN, requires: {None} \cup STRING, steps: Seq(ShapeStep)]

ASSUME RepoAwareAssumption ==
  \A skill \in SkillSet :
    /\ skill.facts \subseteq FactRequest /\ skill.shapes \in Seq(CandidateShape)
    /\ \E n \in DOMAIN skill.shapes : skill.shapes[n].default
    /\ \A m, n \in DOMAIN skill.shapes : skill.shapes[m].id = skill.shapes[n].id => m = n

\* The queries that find something: a parameter that was given is its own answer,
\* Understanding answers about parameters that were given.
Resolves(fact, given, known) == fact.arg \in given /\ (fact.query = "param" \/ fact.query \in known)

\* Mutant: a default is taken for an answer.
DeclaredBindings(skill, given, known) == {fact.binding : fact \in skill.facts}

\* The blanks with a real answer; the others take the default the skill declares.
RealBindings(skill, given, known) ==
  {fact.binding : fact \in {f \in skill.facts : Resolves(f, given, known)}}

Positions(skill, Fits(_)) == {n \in DOMAIN skill.shapes : Fits(skill.shapes[n])}
FirstOf(skill, positions) == skill.shapes[CHOOSE n \in positions : \A m \in positions : n <= m]

DefaultShape(skill) == FirstOf(skill, Positions(skill, LAMBDA shape : shape.default))

Favoured(skill, real) == Positions(skill, LAMBDA shape : ~shape.default /\ shape.requires \in real)
Recommended(skill, advice) ==
  Positions(skill, LAMBDA shape : ~advice.abstained /\ shape.id = advice.approach)

\* The advisor is asked only where no fact decides and there is a choice.
Consults(skill, real, advisor) ==
  advisor /\ skill.consults /\ Len(skill.shapes) > 1 /\ Favoured(skill, real) = {}

ChosenShape(skill, real, consulted, advice) ==
  IF Favoured(skill, real) # {} THEN FirstOf(skill, Favoured(skill, real))
  ELSE IF consulted /\ Recommended(skill, advice) # {} THEN FirstOf(skill, Recommended(skill, advice))
  ELSE DefaultShape(skill)

\* A step of no gated tool sends the renderer back to the default shape; a default
\* shape with such a step would send it round for ever, and renders nothing.  Nor
\* does a shape whose steps wait for steps that are not there.
Gated(shape) == \A n \in DOMAIN shape.steps : shape.steps[n].tool \in GatedTools
StepsInOrder(shape) == \A n \in DOMAIN shape.steps : shape.steps[n].deps \subseteq 1..(n - 1)

Materialized(skill, shape) == IF Gated(shape) THEN shape ELSE DefaultShape(skill)

\* A call of render, given what it found and was advised, and the line it leaves: the
\* advice is said to have helped when the shape it named was chosen.
RenderWith(skill, given, known, consulted, advice) ==
  LET chosen == ChosenShape(skill, RealBindings(skill, given, known), consulted, advice)
      shape == Materialized(skill, chosen)
  IN /\ Gated(shape) /\ StepsInOrder(shape)
     /\ thoughts' = IF consulted THEN Journalled(advice) ELSE thoughts
     /\ renders' = Append(renders,
          [skill |-> skill, given |-> given, known |-> known, shape |-> shape.id,
           tools |-> {shape.steps[n].tool : n \in DOMAIN shape.steps},
           helped |-> consulted /\ Recommended(skill, advice) # {}])

Render ==
  /\ renders = <<>>
  /\ \E skill \in SkillSet, advisor \in BOOLEAN :
     \E given \in SUBSET {fact.arg : fact \in skill.facts},
        known \in SUBSET ({fact.query : fact \in skill.facts} \ {"param"}) :
       LET consulted == Consults(skill, RealBindings(skill, given, known), advisor)
       IN \E advice \in IF consulted THEN Advices("planner") ELSE {None} :
            RenderWith(skill, given, known, consulted, advice)

RendererInit == thoughts = <<>> /\ renders = <<>>

\* The advisor is shared: reflection and learning ask it in between.
Elsewhere == (\E seam \in Seams \ {"planner"} : Deliberate(seam)) /\ UNCHANGED renders

RendererNext == Render \/ Elsewhere
RendererSpec == RendererInit /\ [][RendererNext]_<<thoughts, renders>>

-----------------------------------------------------------------------------
ShapeNamed(skill, id) == FirstOf(skill, Positions(skill, LAMBDA shape : shape.id = id))

\* Why a line of the journal may have the shape it has, given what the advisor wrote.
Grounded(line, written) ==
  LET shape == ShapeNamed(line.skill, line.shape) IN
  /\ line.tools \subseteq GatedTools
  /\ \/ shape.default
     \/ \E fact \in line.skill.facts :
          /\ fact.binding = shape.requires /\ fact.arg \in line.given
          /\ fact.query \in line.known \cup {"param"}
     \/ \E t \in DOMAIN written :
          /\ written[t].seam = "planner" /\ written[t].approach = shape.id
          /\ written[t].observations >= 2 \/ written[t].clear

\* A repo-aware skill is never worse than its plain twin: a plan has another shape
\* than the skill's default only where a fact that shape needs was really found in
\* the repository, or where the advisor, on two observations or more or a clear
\* failure, named that very shape and wrote it down; and every step uses a gated
\* tool.
PlainFloor == \A r \in DOMAIN renders : Grounded(renders[r], thoughts)
=============================================================================
