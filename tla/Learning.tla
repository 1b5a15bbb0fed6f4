------------------------------- MODULE Learning -------------------------------
(***************************************************************************)
(* Keyword learning (src/aetheris/learning/engine.py) and what it acts on: *)
(* the journal of accepted keywords, a copy of it in each of two learning  *)
(* engines, and the live planner.  Improvement (the idle tick of the drain *)
(* loop, /learning/improve), the autonomous cycle and /learning/revert run *)
(* in different threads, and take no lock.                                 *)
(*                                                                         *)
(* An evaluation is a pure function of the keywords it is given: `Passes`. *)
(* The hold by experience lessons is left out: the engines of the          *)
(* application are made without lessons.                                   *)
(***************************************************************************)
EXTENDS Integers, FiniteSets, Sequences

CONSTANTS
  Callers,     \* threads of the API and the drain loop
  Keywords,    \* (intent, word) pairs that may be learned
  CaseCount,   \* number of cases in default_suite()
  Passes,      \* Passes[K]: the cases that pass when K is known
  KeywordOf,   \* what _TOOL_TO_INTENT and _keyword_from_task make of a case
  NoKeyword,   \* ... of a case they make nothing of
  MaxReverts,  \* BOUND: calls of /learning/revert
  MaxRestarts  \* BOUND: restarts of the process

Cases == 1 .. CaseCount

ASSUME LearningAssumption ==
  /\ CaseCount \in Nat
  /\ Passes \in [SUBSET Keywords -> SUBSET Cases]
  /\ KeywordOf \in [Cases -> Keywords \cup {NoKeyword}]
  /\ NoKeyword \notin Keywords
  /\ MaxReverts \in Nat /\ MaxRestarts \in Nat

VARIABLES
  journal,   \* learned.jsonl: the keyword of each line
  known,     \* extra_keywords of each engine
  planner,   \* the live planner: its keywords, and whether it recognises skills
  call,      \* the call each caller has under way, with its local variables
  \* history, not in the code
  reverts, restarts,
  alone,     \* callers that began when nobody else was under way and their engine
             \*   was up to date, with nobody beginning since
  mixed,     \* a line was appended, or removed, by a caller that was not alone
  outread    \* callers whose line came after somebody else's reading of the journal
             \*   that the live engine had still to be given

storeVars   == <<journal, known, planner>>
historyVars == <<reverts, restarts, alone, mixed, outread>>
vars == <<storeVars, call, historyVars>>

Engines == {"live", "auto"}

\* LearnedKeywordStore.as_keywords
Learned == {journal[i] : i \in DOMAIN journal}

\* The step it is at, the engine it drives, the cases that passed before, its
\* candidate, the keywords it tries, the lines revert_last has read, and the keywords it
\* has read back from the journal.
Idle ==
  [step |-> "none", engine |-> "live", baseline |-> {},
   keyword |-> NoKeyword, trial |-> {}, lines |-> << >>, fresh |-> {}]

At(c, place) == call[c].step = place

Init ==
  /\ journal = << >>
  /\ known = [e \in Engines |-> {}]
  /\ planner = [keywords |-> {}, skills |-> TRUE]
  /\ call = [c \in Callers |-> Idle]
  /\ reverts = 0 /\ restarts = 0
  /\ alone = {} /\ mixed = FALSE /\ outread = {}

GoTo(c, place) == call' = [call EXCEPT ![c].step = place]

\* The call returns, and its local variables are gone.
Return(c) ==
  /\ call' = [call EXCEPT ![c] = Idle]
  /\ alone' = alone \ {c}
  /\ outread' = outread \ {c}
  /\ UNCHANGED <<reverts, restarts, mixed>>

-----------------------------------------------------------------------------
(* Calls: improve() on the live engine, cycle() on the autonomous loop's,    *)
(* revert_last() on the live one.                                            *)

Call(c, e, place) ==
  /\ At(c, "none")
  /\ call' = [call EXCEPT ![c] = [Idle EXCEPT !.step = place, !.engine = e]]
  /\ alone' = IF known[e] = Learned /\ \A d \in Callers : At(d, "none") THEN {c} ELSE {}
  /\ UNCHANGED <<storeVars, restarts, mixed, outread>>

Improve(c) == Call(c, "live", "baseline") /\ UNCHANGED reverts

Cycle(c) == Call(c, "auto", "baseline") /\ UNCHANGED reverts

Revert(c) ==
  /\ reverts < MaxReverts
  /\ Call(c, "live", "read")
  /\ reverts' = reverts + 1

-----------------------------------------------------------------------------
(* attempt(): every evaluation starts from the engine's keywords of then.    *)

Baseline(e) == Passes[known[e]]

TakeBaseline(c) ==
  /\ At(c, "baseline")
  /\ call' = [call EXCEPT ![c].step = "propose", ![c].baseline = Baseline(call[c].engine)]
  /\ UNCHANGED <<storeVars, historyVars>>

Candidates(failing) == {x \in failing : KeywordOf[x] # NoKeyword}

\* The first failing case something can be made of is proposed, every time.
Propose(c) ==
  LET found == Candidates(Cases \ Passes[known[call[c].engine]])
      first == CHOOSE x \in found : \A y \in found : x <= y
  IN /\ At(c, "propose")
     /\ IF found = {}
        THEN Return(c)
        ELSE /\ call' = [call EXCEPT ![c].step = "try", ![c].keyword = KeywordOf[first]]
             /\ UNCHANGED historyVars
     /\ UNCHANGED storeVars

Try(c) ==
  /\ At(c, "try")
  /\ call' = [call EXCEPT ![c].step = "judge",
                          ![c].trial = known[call[c].engine] \cup {call[c].keyword}]
  /\ UNCHANGED <<storeVars, historyVars>>

Improved(old, new) == Cardinality(new) > Cardinality(old)

\* Mutant: a case lost does not matter.
RegressedNever(old, new) == FALSE

Regressed(old, new) == old \ new # {}

Clears(c) ==
  LET old == call[c].baseline
      new == Passes[call[c].trial]
  IN Improved(old, new) /\ ~Regressed(old, new)

Accept(c) ==
  /\ At(c, "judge")
  /\ Clears(c)
  /\ journal' = Append(journal, call[c].keyword)
  /\ mixed' = (mixed \/ c \notin alone)
  /\ outread' = IF \E d \in Callers : At(d, "assign") /\ call[d].engine = "live"
                THEN outread \cup {c} ELSE outread
  /\ GoTo(c, "reload")
  /\ UNCHANGED <<known, planner, reverts, restarts, alone>>

Reject(c) ==
  /\ At(c, "judge")
  /\ ~Clears(c)
  /\ Return(c)
  /\ UNCHANGED storeVars

\* The call reads the journal back, and gives its engine what it has read; the other
\* engine gets nothing.
ReadBack(c) ==
  /\ At(c, "reload")
  /\ call' = [call EXCEPT ![c].step = "assign", ![c].fresh = Learned]
  /\ UNCHANGED <<storeVars, historyVars>>

\* A call that learned on the live engine goes on to replace the planner; a revert, which
\* has no candidate, does not.
Assign(c) ==
  /\ At(c, "assign")
  /\ known' = [known EXCEPT ![call[c].engine] = call[c].fresh]
  /\ IF call[c].engine = "auto" \/ call[c].keyword = NoKeyword
     THEN Return(c)
     ELSE GoTo(c, "install") /\ UNCHANGED historyVars
  /\ UNCHANGED <<journal, planner>>

\* Mutant: the new planner is given what the old one had.
InstalledAgain == [keywords |-> planner.keywords, skills |-> FALSE]

\* The new planner is made without the skill registry.
Installed == [keywords |-> known["live"], skills |-> FALSE]

Install(c) ==
  /\ At(c, "install")
  /\ planner' = Installed
  /\ Return(c)
  /\ UNCHANGED <<journal, known>>

-----------------------------------------------------------------------------
(* revert_last(): the file is read and rewritten, in one step, and read back. *)

ReadLines(c) ==
  /\ At(c, "read")
  /\ call' = [call EXCEPT ![c].step = IF journal = << >> THEN "reload" ELSE "rewrite",
                          ![c].lines = journal]
  /\ UNCHANGED <<storeVars, historyVars>>

AllButLast(ls) == SubSeq(ls, 1, Len(ls) - 1)

Rewrite(c) ==
  /\ At(c, "rewrite")
  /\ journal' = AllButLast(call[c].lines)
  /\ mixed' = (mixed \/ c \notin alone)
  /\ GoTo(c, "reload")
  /\ UNCHANGED <<known, planner, reverts, restarts, alone, outread>>

-----------------------------------------------------------------------------

\* AppState.create: everything in memory is made anew from the journal.
Restart ==
  /\ restarts < MaxRestarts
  /\ restarts' = restarts + 1
  /\ known' = [e \in Engines |-> Learned]
  /\ planner' = [keywords |-> Learned, skills |-> TRUE]
  /\ call' = [c \in Callers |-> Idle]
  /\ alone' = {}
  /\ outread' = {}
  /\ UNCHANGED <<journal, reverts, mixed>>

Work(c) ==
  \/ TakeBaseline(c) \/ Propose(c) \/ Try(c) \/ Accept(c) \/ Reject(c)
  \/ ReadBack(c) \/ Assign(c) \/ Install(c)
  \/ ReadLines(c) \/ Rewrite(c)

Next ==
  \/ \E c \in Callers : Improve(c) \/ Cycle(c) \/ Revert(c) \/ Work(c)
  \/ Restart

Spec == Init /\ [][Next]_vars

-----------------------------------------------------------------------------
(* Properties *)

\* "Accept iff strictly better and no regressions": what is learned by a call nobody
\* interferes with gains a case and costs none that passed with the keywords in the
\* journal, although baseline, candidate and trial come from three evaluations; and what
\* such a call reverts is exactly the keyword accepted last
\* (test_revert_last_removes_most_recent_keyword).
NeverRegresses ==
  [][\A c \in alone :
       /\ Accept(c) => /\ Passes[Learned] \subseteq Passes[Learned']
                       /\ Passes[Learned] # Passes[Learned']
       /\ Rewrite(c) /\ ~mixed => Learned' = Learned \ {journal[Len(journal)]}]_vars

\* The planner improve() puts in place knows the keyword it has accepted, although other
\* calls replace the engine's keywords between reading the journal back and making the
\* planner.  Only two things keep the keyword out of it: a revert, and a call that had
\* read the journal back before the keyword was in it and gives the engine what it read
\* afterwards.  With nobody else under way the planner knows exactly what is learned,
\* whatever was reverted before.
ReachesPlanner ==
  [][\A c \in Callers : Install(c) =>
       /\ reverts = 0 /\ c \notin outread => call[c].keyword \in planner'.keywords
       /\ c \in alone => planner'.keywords = Learned]_vars

=============================================================================
