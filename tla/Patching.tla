-------------------------------- MODULE Patching --------------------------------
(* Model-assisted repair (learning/model_patch.py, reflection/engine.py, the      *)
(* edit_file tool).  A text from the model is parsed as a unified diff, clears    *)
(* the gates in a sandbox or is dropped, and becomes an edit_file step.  What the *)
(* sandbox tested was made line by line; what the tool does is a replacement in   *)
(* the text of the file, later, when the executive comes to the step.  The test   *)
(* finds the file from the workspace's root, the tool from the process's working  *)
(* directory.                                                                     *)
(* A line and a file's text are sequences of characters.                          *)
EXTENDS Values, Integers, Sequences, FiniteSets, FiniteSetsExt

CONSTANTS
  Files,         \* the files there are
  Root, Cwds,    \* the workspace's root, and where the process may have been started
  Resolve(_, _), \* the file that a path names from a directory
  InRoot,        \* the files inside the workspace, such as are and such as are not
  Chars,         \* what texts are made of
  Contents,      \* what a file may hold
  Answers,       \* what the model may answer: lines of a diff
  Failing,       \* the path of the failing step, or None if it is not an edit
  MaxFiles,
  MaxProposals,  \* BOUND: proposals
  MaxDrift       \* BOUND: changes to files by others

\* What parse_diff tells apart in the lines of an answer.
DiffLine ==
  [kind: {"---", "+++"}, path: STRING \cup {None}] \cup [kind: {"@@"}, numbers: BOOLEAN]
    \cup [kind: {"-", "+", " "}, text: Seq(Chars)] \cup [kind: {"blank", "other", "\\"}]

ASSUME PatchingAssumption ==
  /\ {MaxFiles, MaxProposals, MaxDrift} \subseteq Nat
  /\ "\n" \in Chars
  /\ Contents \subseteq Seq(Chars) /\ Answers \subseteq Seq(DiffLine)

VARIABLES
  cwd,       \* the process's working directory
  tree,      \* file -> text, the live files
  retired,   \* do the retired lessons know words of the model's patches?
  repair,    \* the repair inserted in the plan, or None: its edits, and
             \*   (history) what was tested and whether its file has changed since
  enacted,   \* history: the last edit carried out, or None
  proposals, drift

patchVars == <<cwd, tree, retired, repair, enacted, proposals, drift>>

-----------------------------------------------------------------------------
(* parse_diff: a fold over the lines of the answer *)

\* "\n".join(lines) and text.split("\n"): no lines at all become one empty line.
Text(lines) ==
  LET joined[n \in 0 .. Len(lines)] ==
        IF n = 0 THEN <<>>
        ELSE IF n = 1 THEN lines[1]
        ELSE joined[n - 1] \o <<"\n">> \o lines[n]
  IN  joined[Len(lines)]

Extended(lines, char) ==
  IF char = "\n" THEN Append(lines, <<>>) ELSE [lines EXCEPT ![Len(lines)] = Append(@, char)]
Split(text) ==
  LET lines[n \in 0 .. Len(text)] ==
        IF n = 0 THEN <<(<<>>)>> ELSE Extended(lines[n - 1], text[n])
  IN  lines[Len(text)]

Parsing == [path |-> None, old |-> <<>>, new |-> <<>>, hunk |-> FALSE, diffs |-> <<>>, ok |-> TRUE]

Flushed(s) ==
  [Parsing EXCEPT !.diffs = IF s.path # None /\ s.hunk
                            THEN Append(s.diffs, [path |-> s.path, old |-> Text(s.old), new |-> Text(s.new)])
                            ELSE s.diffs]

\* Files that are made or deleted, hunks without a file, hunk headers without numbers,
\* and text that is no hunk's are refused; two hunks of a file become one.
ParsedLine(s, line) ==
  LET Refused == [s EXCEPT !.ok = FALSE]
      InHunk == s.path # None /\ s.hunk
  IN  IF ~s.ok THEN s
      ELSE CASE line.kind \in {"---", "+++"} ->
             IF line.path = None THEN Refused
             ELSE [IF line.kind = "---" THEN Flushed(s) ELSE s EXCEPT !.path = line.path]
        [] line.kind = "@@" -> IF s.path # None /\ line.numbers THEN [s EXCEPT !.hunk = TRUE] ELSE Refused
        [] line.kind = "blank" -> IF InHunk THEN Refused ELSE s
        [] line.kind = "other" -> Refused
        [] OTHER ->
             IF ~InHunk THEN Refused
             ELSE [s EXCEPT !.old = IF line.kind \in {"-", " "} THEN Append(@, line.text) ELSE @,
                            !.new = IF line.kind \in {"+", " "} THEN Append(@, line.text) ELSE @]

\* The diffs of an answer, none if it is refused.
ParseDiff(answer) ==
  LET after[n \in 0 .. Len(answer)] ==
        IF n = 0 THEN Parsing ELSE ParsedLine(after[n - 1], answer[n])
      end == after[Len(answer)]
  IN  IF end.ok THEN Flushed(end).diffs ELSE <<>>

-----------------------------------------------------------------------------
(* The sandbox and the tool *)

\* Mutant: what follows the old lines is cut off by one.
ReplayedShort(lines, old, at, new) ==
  SubSeq(lines, 1, at - 1) \o new \o SubSeq(lines, at + Len(old) + 1, Len(lines))

Replayed(lines, old, at, new) ==
  SubSeq(lines, 1, at - 1) \o new \o SubSeq(lines, at + Len(old), Len(lines))

\* _replay: at the first place where the old lines are, wherever the hunk's header says.
Places(seq, part) ==
  {at \in 1 .. (Len(seq) - Len(part) + 1) : SubSeq(seq, at, at + Len(part) - 1) = part}
Replay(text, diff) ==
  LET places == Places(Split(text), Split(diff.old))
  IN  IF places = {} THEN None
      ELSE Text(Replayed(Split(text), Split(diff.old), Min(places), Split(diff.new)))

\* _edit_file: the first occurrence in the text is replaced; without one it fails.
EditFile(text, find, replace) ==
  LET places == Places(text, find)
  IN  IF places = {} THEN None
      ELSE SubSeq(text, 1, Min(places) - 1) \o replace \o SubSeq(text, Min(places) + Len(find), Len(text))

-----------------------------------------------------------------------------
(* The gates *)

\* root / path, and Path(path) as a tool and the guard resolve it.
FromRoot(path) == Resolve(Root, path)
FromHere(path) == Resolve(cwd, path)

InScope(diff) == Failing = None \/ FromRoot(diff.path) = FromRoot(Failing)

\* _validate before the sandbox: too many files, one outside the root, one that is not
\* the failing step's.
Refused(diffs) ==
  \/ diffs = <<>> \/ Len(diffs) > MaxFiles
  \/ \E i \in DOMAIN diffs : FromRoot(diffs[i].path) \notin InRoot \/ ~InScope(diffs[i])

\* In the sandbox each file is copied from the live one, changed, and left alone.
Applies(diffs) ==
  \A i \in DOMAIN diffs :
    LET file == FromRoot(diffs[i].path)
    IN  file \in Files /\ Replay(tree[file], diffs[i]) # None

\* propose_repair: the steps, or None for the deterministic repair.
Validated(diffs, passed) == ~Refused(diffs) /\ ~retired /\ Applies(diffs) /\ passed

Edit(diff) ==
  [path |-> diff.path, find |-> diff.old, replace |-> diff.new,
   tested |-> Replay(tree[FromRoot(diff.path)], diff), drifted |-> FALSE]

\* _code_failure_repair: the model's patch if it is valid, or else the deterministic one,
\* which is not an edit of a file that exists.
Reflect(answer, passed) ==
  LET diffs == ParseDiff(answer)
  IN  /\ repair = None /\ proposals < MaxProposals
      /\ proposals' = proposals + 1
      /\ repair' = IF Validated(diffs, passed) THEN [i \in DOMAIN diffs |-> Edit(diffs[i])] ELSE None
      /\ UNCHANGED <<cwd, tree, retired, enacted, drift>>

\* History: those of the edits whose file was written since they were tested.
Outdated(edits, file) ==
  [i \in DOMAIN edits |-> [edits[i] EXCEPT !.drifted = @ \/ FromRoot(edits[i].path) = file]]

\* The executive comes to the next edit, and the guard lets it through; one that finds no
\* file or nothing in it fails, and the step after it is not reached.  Each section of an
\* answer was tested alone, so a second one for the file is outdated by the first.
Enact ==
  LET edit == Head(repair)
      file == FromHere(edit.path)
      text == IF file \in Files THEN EditFile(tree[file], edit.find, edit.replace) ELSE None
  IN  /\ repair # None /\ file \in InRoot
      /\ enacted' = IF file \in Files
                  THEN [before |-> tree[file], after |-> text, edit |-> edit] ELSE enacted
      /\ tree' = IF text = None THEN tree ELSE [tree EXCEPT ![file] = text]
      /\ repair' = IF text = None \/ Len(repair) = 1 THEN None
                 ELSE Outdated(Tail(repair), file)
      /\ UNCHANGED <<cwd, retired, proposals, drift>>

\* The guard or the owner stops the task before the edit.
Abandon ==
  /\ repair # None
  /\ repair' = None
  /\ UNCHANGED <<cwd, tree, retired, enacted, proposals, drift>>

\* Another step, or somebody, writes a file.
Drift(file, text) ==
  /\ drift < MaxDrift /\ tree[file] # text
  /\ drift' = drift + 1
  /\ tree' = [tree EXCEPT ![file] = text]
  /\ repair' = IF repair = None THEN None ELSE Outdated(repair, file)
  /\ UNCHANGED <<cwd, retired, enacted, proposals>>

-----------------------------------------------------------------------------
PatchInit ==
  /\ cwd \in Cwds
  /\ tree \in [Files -> Contents]
  /\ retired \in BOOLEAN
  /\ repair = None /\ enacted = None /\ proposals = 0 /\ drift = 0

PatchNext ==
  \/ \E answer \in Answers, passed \in BOOLEAN : Reflect(answer, passed)
  \/ Enact \/ Abandon
  \/ \E file \in Files, text \in Contents : Drift(file, text)

PatchSpec == PatchInit /\ [][PatchNext]_patchVars

-----------------------------------------------------------------------------
(* Properties *)

\* The first character of the lines that a test replaces.
TestedAt(text, diff) ==
  LET lines == Split(text)
      above == SubSeq(lines, 1, Min(Places(lines, Split(diff.old))) - 1)
  IN  IF above = <<>> THEN 1 ELSE Len(Text(above)) + 2

\* An edit does to the file it finds what the sandbox would do to it, although one replaces
\* lines and the other text, and although others may have written the file: unless the
\* sandbox would refuse it, or the old text comes earlier, as a part of other lines.  And
\* that is what was tested, if the file was not written since and is the one the test
\* found: where the process was not started in the root, it is another.
AppliedAsTested ==
  enacted # None =>
    LET edit == enacted.edit
        diff == [old |-> edit.find, new |-> edit.replace]
        now == Replay(enacted.before, diff)
    IN  /\ ~edit.drifted /\ FromHere(edit.path) = FromRoot(edit.path) => now = edit.tested
        /\ now # None /\ Min(Places(enacted.before, edit.find)) = TestedAt(enacted.before, diff)
             => enacted.after = now
=============================================================================
