----------------------------- MODULE JournalQueue -----------------------------
(***************************************************************************)
(* The task queue as it is written (src/aetheris/controller/queue.py over  *)
(* memory/jsonl.py): an append-only journal without a lock.  Each          *)
(* operation first reads the whole journal and later appends one record,   *)
(* and other clients may append in between.  The clients are the threads   *)
(* that serve requests to submit a task, and the runners (the drain loop,  *)
(* a supervised session) that move tasks from state to state.              *)
(***************************************************************************)
EXTENDS Integers, Sequences, FiniteSets

CONSTANTS
  Submitters,   \* clients that enqueue
  Runners,      \* clients that transition
  Texts,        \* what tasks ask for
  SubmitsText,  \* the texts each submitter may send
  Urgency,      \* the priority that goes with a text
  MaxRecords    \* BOUND: journal lines

ASSUME JournalQueueAssumption ==
  /\ Submitters \cap Runners = {}
  /\ SubmitsText \in [Submitters -> SUBSET Texts]
  /\ Urgency \in [Texts -> Nat]
  /\ MaxRecords \in Nat

VARIABLES
  journal,   \* the records, oldest first
  writing,   \* the record each client is about to append, NoRecord if none
  clock,     \* time.time(), one tick for every enqueue
  \* history, not in the code
  given,     \* how many enqueue calls returned each id
  overlap,   \* two submissions have been under way at the same time
  together   \* the texts of which two submissions have been

vars == <<journal, writing, clock, given, overlap, together>>

Clients == Submitters \cup Runners

\* Mutants: the text alone makes the id; the number alone does.
MakeIdByText(count, text) == <<1, text>>
MakeIdByCount(count, text) == <<count, CHOOSE t \in Texts : TRUE>>

\* make_id: the number of the record to come, and a hash of the text.
MakeId(count, text) == <<count, text>>

Ids == (1 .. MaxRecords) \X Texts

\* _current: the last record of every id.
LinesOf(i) == {n \in DOMAIN journal : journal[n].id = i}

Known == {journal[n].id : n \in DOMAIN journal}

LastLine(i) == CHOOSE n \in LinesOf(i) : \A m \in LinesOf(i) : m <= n

Current(i) == journal[LastLine(i)]

\* The queue that clients see: the current states, and the tasks by created_at.
StateSeen == [i \in Ids |-> IF i \in Known THEN Current(i).state ELSE "absent"]

Older(i) == {j \in Known : Current(j).created < Current(i).created}

ByAge == [k \in 1 .. Cardinality(Known) |->
            CHOOSE i \in {j \in Known : Cardinality(Older(j)) = k - 1} : TRUE]

Queue == INSTANCE TaskQueue WITH
           Tasks    <- Ids,
           Priority <- [i \in Ids |-> Urgency[i[2]]],
           state    <- StateSeen,
           arrival  <- ByAge

Record == [id: Ids, state: Queue!TaskState, created: Nat]

NoRecord == [state |-> "none"]

Init ==
  /\ journal = << >>
  /\ writing = [c \in Clients |-> NoRecord]
  /\ clock = 0
  /\ given = [i \in Ids |-> 0]
  /\ overlap = FALSE
  /\ together = {}

-----------------------------------------------------------------------------

\* Another request with this text has been read and not yet appended.
InTheMaking(text) == \E d \in Submitters : writing[d] # NoRecord /\ writing[d].id[2] = text

ReadForEnqueue(c, text) ==
  /\ writing[c] = NoRecord
  /\ Len(journal) < MaxRecords
  /\ clock' = clock + 1
  /\ writing' = [writing EXCEPT ![c] =
       [id |-> MakeId(Len(journal) + 1, text), state |-> "queued", created |-> clock]]
  /\ overlap' = (overlap \/ \E d \in Submitters : writing[d] # NoRecord)
  /\ together' = IF InTheMaking(text) THEN together \cup {text} ELSE together
  /\ UNCHANGED <<journal, given>>

\* The row is looked up and the move checked against the table; the other columns
\* of the record are kept.  An illegal move raises and changes nothing.
ReadForTransition(c, i, s) ==
  /\ writing[c] = NoRecord
  /\ Len(journal) < MaxRecords
  /\ i \in Known
  /\ s \in Queue!Allowed(Current(i).state)
  /\ writing' = [writing EXCEPT ![c] = [Current(i) EXCEPT !.state = s]]
  /\ UNCHANGED <<journal, clock, given, overlap, together>>

AppendRecord(c) ==
  /\ writing[c] # NoRecord
  /\ Len(journal) < MaxRecords
  /\ journal' = Append(journal, writing[c])
  /\ writing' = [writing EXCEPT ![c] = NoRecord]
  /\ given' = IF c \in Submitters THEN [given EXCEPT ![writing[c].id] = @ + 1] ELSE given
  /\ UNCHANGED <<clock, overlap, together>>

Next ==
  \/ \E c \in Submitters : \E text \in SubmitsText[c] : ReadForEnqueue(c, text)
  \/ \E c \in Runners, i \in Ids, s \in Queue!TaskState : ReadForTransition(c, i, s)
  \/ \E c \in Clients : AppendRecord(c)

Spec == Init /\ [][Next]_vars

-----------------------------------------------------------------------------
(* Properties *)

\* Two enqueue calls return one id only if they asked for the same thing at the same
\* time: neither a number read before other records came, nor a text submitted before,
\* makes a task take the place of another one.
OwnTaskEach == \A i \in Ids : given[i] > 1 => i[2] \in together

\* Until two submissions overlap, the journal under one runner behaves like the queue
\* of TaskQueue: each operation takes effect at its append, and age is arrival.
ImplementsTaskQueue ==
  /\ Queue!QueueInit
  /\ [][overlap \/ Queue!QueueNext]_(Queue!queueVars)
=============================================================================
