-------------------------------- MODULE MCAdvice --------------------------------
(* Small instances of what learns from past work and what plans with it: Skills   *)
(* with Lessons, SessionLessons, Patching, Planner, RepoAware with Reasoning.     *)
(* None calls another here: one run checks all, and which one moves is chosen at  *)
(* the start.  To keep Skills small, lessons come either where plans have         *)
(* completed before, or not at all; and they expire where there are no skills.    *)
EXTENDS Skills, SessionLessons, Planner, RepoAware, Patching

VARIABLE
  focus   \* "plans", "lessons", "store", "sessions", "patches", "tasks" or "shapes"

-----------------------------------------------------------------------------
(* Skills *)

Step(tool, deps, arg) == [tool |-> tool, deps |-> deps, arg |-> arg]
Copy(task, text, repairs, from, to) ==
  [task |-> task, text |-> text, repairs |-> repairs,
   steps |-> <<Step("read", {}, [path |-> from]), Step("write", {1}, [path |-> to, mode |-> "w"])>>]
Read(task, text, arg) ==
  [task |-> task, text |-> text, repairs |-> 0, steps |-> <<Step("read", {}, arg)>>]

MCPlanSet ==
  {Copy(1, {"copy", "notes"}, 0, "a", "a"), Copy(2, {"copy"}, 0, "b", "b"),
   Copy(3, {"copy"}, 1, "c", "c"), Copy(4, None, 0, "a", "b"),
   Read(5, {"read"}, [path |-> "a"]), Read(6, {"read"}, [path |-> "one"])}
MCNameOf(tools) == IF tools = {"read", "write"} THEN "auto_copy" ELSE "auto_read"
MCSeeds ==
  {[name |-> "seed", trigger |-> {"copy"}, params |-> {"path"},
    steps |-> <<[tool |-> "read", deps |-> {}, template |-> [path |-> [param |-> TRUE, value |-> "a"]]]>>]}
MCSuite == {[case |-> 1, skill |-> "seed"], [case |-> 2, skill |-> None]}

MCSubjects == {{"auto_copy"}}
MCConfidences == {50, 90}
MCHistories == {{}, {p \in MCPlanSet : p.task \in {1, 2}}}
MCNumbers == {"one"}
MCBaseline == {c \in MCSuite : c.case = 2}
MCTasks == {[words |-> {"copy"}, given |-> {"path"}], [words |-> {"notes"}, given |-> {}]}
MCTools == {"read", "write"}

-----------------------------------------------------------------------------
(* Sessions *)

Within(clock, steps, failures, ticks) ==
  [clock |-> clock, steps |-> steps, failures |-> failures, ticks |-> ticks]

MCProfiles == [tight |-> Within(2, 2, 2, 2), tighter |-> Within(1, 1, 2, 1)]
MCConfigured == {Within(3, 3, 3, 3), Within(3, 3, 1, 3)}

-----------------------------------------------------------------------------
(* Patches *)

NL == "\n"
Header(path) == <<[kind |-> "---", path |-> path], [kind |-> "+++", path |-> path]>>
Hunk == <<[kind |-> "@@", numbers |-> TRUE]>>
Line(kind, text) == <<[kind |-> kind, text |-> text]>>
a1 == <<"a">>
b1 == <<"b">>

\* What one hunk says: a line replaced, taken away, put in, or replaced after another.
Bodies ==
  {Line("-", a1) \o Line("+", b1), Line("-", a1), Line("+", b1),
   Line(" ", b1) \o Line("-", a1) \o Line("+", b1)}

MCAnswers ==
  {Header("f") \o Hunk \o body : body \in Bodies}
  \cup {Header("f") \o Hunk \o Line("-", a1) \o Line("+", b1) \o Hunk \o Line("-", b1),
        Header("n/f") \o Hunk \o Line("-", a1), Header("../f") \o Hunk \o Line("-", a1),
        Header("f") \o Hunk \o Line("-", a1) \o Header("n/f") \o Hunk \o Line("-", a1),
        <<[kind |-> "+++", path |-> "f"], [kind |-> "@@", numbers |-> FALSE]>>,
        Hunk, Header(None), Header("f") \o Line("+", a1), Header("f") \o Hunk \o <<[kind |-> "blank"]>>,
        <<[kind |-> "blank"]>> \o Header("f") \o Hunk \o Line("-", b1) \o <<[kind |-> "\\"]>>,
        Header("f") \o Hunk \o <<[kind |-> "other"]>>}

\* The root has two directories; one has a file of the same name, the other has none.
MCRoot == "/w"
MCCwds == {"/w", "/w/n", "/w/m", "/"}
MCResolve(dir, path) ==
  CASE dir = "/" -> "/f"
    [] dir # "/" /\ path = "../f" -> IF dir = MCRoot THEN "/f" ELSE "f"
    [] dir = MCRoot /\ path # "../f" -> path
    [] dir = "/w/n" /\ path = "f" -> "n/f"
    [] OTHER -> "n/n/f"
MCFiles == {"f", "n/f", "/f"}
MCInRoot == {"f", "n/f", "n/n/f"}
MCFailing == "f"
MCChars == {"a", "b", NL}
MCContents == {<<>>, a1, <<"a", NL, "b">>, <<"b", "a">>, <<"b", NL, "a">>, <<"b", NL, "a", NL, "b">>}

-----------------------------------------------------------------------------
(* Tasks and shapes *)

Part(shell, verbs, path, content) == [shell |-> shell, verbs |-> verbs, path |-> path, content |-> content]
MCFragments ==
  {Part("cmd", {"read"}, None, FALSE), Part("empty", {}, None, FALSE),
   Part(None, {"write"}, "a", TRUE), Part(None, {"write", "read"}, "a", FALSE),
   Part(None, {"read"}, "b", FALSE), Part(None, {"read"}, None, FALSE),
   Part(None, {"list", "read"}, "a", FALSE), Part(None, {"list"}, None, TRUE),
   Part(None, {}, None, FALSE)}
Answer(ok, tool, json) == [ok |-> ok, tool |-> tool, json |-> json]

MCTaskSet == {<<f>> : f \in MCFragments} \cup (MCFragments \X MCFragments)
MCToolNames == {"echo", "shell", "list_dir", "read_file", "write_file"}
MCModelAnswers ==
  {None, Answer(FALSE, "echo", TRUE), Answer(TRUE, "fetch", TRUE),
   Answer(TRUE, "shell", FALSE), Answer(TRUE, "list_dir", TRUE)}
MCRenderings == {None, <<"read_file", "write_file">>, <<"read_file", "fetch">>}

Known(facts, failure, kinds, count, naming, clear) ==
  [facts |-> facts, failure |-> failure, kinds |-> kinds, skills |-> FALSE,
   lessons |-> count, naming |-> naming, clear |-> clear]
Fact(binding, query, arg) == [binding |-> binding, query |-> query, arg |-> arg]
Shape(id, default, requires, tools) ==
  [id |-> id, default |-> default, requires |-> requires,
   steps |-> [n \in DOMAIN tools |-> [tool |-> tools[n], deps |-> {n - 1} \ {0}]]]

MCEvidenceSet ==
  {Known(FALSE, None, 0, 0, None, FALSE), Known(FALSE, None, 0, 1, "adopt", TRUE),
   Known(TRUE, None, 0, 1, None, FALSE), Known(TRUE, None, 3, 4, "use_matching_skill", FALSE),
   Known(FALSE, "clear", 0, 0, None, FALSE), Known(FALSE, "plain", 3, 0, None, FALSE)}
MCExtras == {None, "safe_shape", "adopt", "repair_and_retry"}
MCGatedTools == {"edit_file", "echo"}
MCSkillSet ==
  {[facts |-> {Fact("path", "param", "path"), Fact("helper", "find_helper", "intent")}, consults |-> TRUE,
    shapes |-> <<Shape("fresh", TRUE, None, <<"edit_file">>), Shape("reuse", FALSE, "helper", <<"edit_file">>)>>],
   [facts |-> {}, consults |-> TRUE,
    shapes |-> <<Shape("plain", TRUE, None, <<"edit_file">>), Shape("safe_shape", FALSE, None, <<"echo", "edit_file">>)>>],
   [facts |-> {}, consults |-> TRUE,
    shapes |-> <<Shape("safe_shape", FALSE, None, <<"edit_file", "fetch">>), Shape("plain", TRUE, None, <<"edit_file">>)>>],
   [facts |-> {Fact("module", "exporting_module", "symbol")}, consults |-> FALSE,
    shapes |-> <<Shape("import", TRUE, None, <<"edit_file">>)>>]}

-----------------------------------------------------------------------------
planVars == <<request, plan, thoughts, renders>>
vars == <<libraryVars, sessionVars, patchVars, planVars, focus>>

\* What does not move starts in one state.
Init ==
  /\ SkillsInit /\ SessionsInit /\ PatchInit /\ PlannerInit /\ RendererInit
  /\ focus \in {"plans", "lessons", "store", "sessions", "patches", "tasks", "shapes"}
  /\ focus # "sessions" => own = Within(3, 3, 3, 3)
  /\ focus # "patches" => cwd = MCRoot /\ tree = [file \in MCFiles |-> <<>>] /\ ~retired
  /\ focus = "patches" => tree["n/f"] = tree["/f"]
  /\ done = {} <=> focus # "lessons"
  /\ focus \notin {"plans", "lessons"} => ~consume

Next ==
  /\ UNCHANGED focus
  /\ \/ focus = "plans" /\ SkillsNext /\ UNCHANGED <<lessonVars, sessionVars, patchVars, planVars>>
     \/ focus = "lessons" /\ SkillsNext /\ UNCHANGED <<done, day, sessionVars, patchVars, planVars>>
     \/ focus = "store" /\ LessonsNext /\ UNCHANGED <<skillVars, sessionVars, patchVars, planVars>>
     \/ focus = "sessions" /\ SessionsNext /\ UNCHANGED <<libraryVars, patchVars, planVars>>
     \/ focus = "patches" /\ PatchNext /\ UNCHANGED <<libraryVars, sessionVars, planVars>>
     \/ focus = "tasks" /\ Ask /\ UNCHANGED <<libraryVars, sessionVars, patchVars, thoughts, renders>>
     \/ focus = "shapes" /\ RendererNext /\ UNCHANGED <<libraryVars, sessionVars, patchVars, request, plan>>

Spec == Init /\ [][Next]_vars
=============================================================================
