-------------------------------- MODULE Research --------------------------------
(* The network perimeter and the research engine behind it                        *)
(* (research/perimeter.py, engine.py, journal.py, model.py, consumers.py).  Every *)
(* request of a query passes the perimeter's checks, is charged to the session    *)
(* when its answer is back, and is checked once more; what is allowed becomes     *)
(* cited findings, and the findings one bundle of evidence.  A page is its size,  *)
(* type and claims, where it came from and the redirects the transport followed   *)
(* to it, none of which the perimeter is asked about; or the transport raises.    *)
EXTENDS Integers, Sequences, FiniteSets, SequencesExt, FiniteSetsExt

CONSTANTS
  Domains,
  Allowlist, Primary,         \* domains one may ask; those fully trusted
  Queries, SearchMap,         \* questions, and the requests each one leads to
  Probes,                     \* requests made past the search
  Pages, Failures,            \* what the transport may answer; where it was when it raised
  RequestBudget, SizeBudget, RateBudget, RateWindow, RedirectCap, CacheCap,
  MaxTime, MaxActs,           \* bounds: ticks of the clock; sessions, queries and probes
  None

Request == [domain : Domains, https : BOOLEAN, robots : BOOLEAN, declared : Nat]
Claim == [subject : STRING, text : STRING]
Hop == [domain : Domains, https : BOOLEAN]
Page == [type : STRING, size : Nat, redirects : Nat, via : Seq(Hop),
         final : Domains \cup {None}, hash : STRING, claims : Seq(Claim)]
Failure == [via : Seq(Hop)]

ASSUME ResearchAssumption ==
  /\ Primary \subseteq Allowlist /\ Allowlist \subseteq Domains
  /\ SearchMap \in [Queries -> Seq(Request)] /\ Probes \subseteq Request
  /\ Pages \subseteq Page /\ Failures \subseteq Failure
  /\ None \notin Domains
  /\ {RequestBudget, SizeBudget, RateBudget, RateWindow, RedirectCap, CacheCap} \subseteq Nat \ {0}
  /\ {MaxTime, MaxActs} \subseteq Nat

VARIABLES
  clock,
  session,   \* the counters of the task's session, or None
  query,     \* the query under way, or None
  todo,      \* its requests not yet made
  findings,  \* what it found so far
  bundle,    \* the evidence of the last query answered, or None
  journal,   \* lines of the research journal
  cache,     \* contents kept, oldest first
  calls,     \* history: what this session handed to the transport, and what became of it
  acts       \* sessions opened, queries and probes so far

researchVars == <<clock, session, query, todo, findings, bundle, journal, cache, calls, acts>>

AllowedTypes == {"text"}

NewSession(dry) == [dry |-> dry, made |-> 0, bytes |-> 0, unsafe |-> 0, times |-> <<>>]
StillOpen(s) == s.made < RequestBudget

-----------------------------------------------------------------------------
(* The perimeter *)

\* Mutant: the window's end is not part of it.
RateExceededShort(s) ==
  Cardinality({i \in DOMAIN s.times : clock - s.times[i] < RateWindow}) >= RateBudget

RateExceeded(s) ==
  Cardinality({i \in DOMAIN s.times : clock - s.times[i] <= RateWindow}) >= RateBudget

\* _evaluate: a request that breaks a rule is denied before anything leaves.
Denied(req, s) ==
  \/ ~req.https
  \/ req.domain \notin Allowlist
  \/ req.robots
  \/ ~StillOpen(s)
  \/ RateExceeded(s)
  \/ req.declared > SizeBudget

\* Mutant: the domain of the last hop is not looked at.
BadResponseFirstHop(page) ==
  \/ page.type # "" /\ page.type \notin AllowedTypes
  \/ page.size > SizeBudget
  \/ page.redirects > RedirectCap

\* _validate_response: does the answer break a rule?  One that names no type, or no place
\* it came from, breaks none by that; nor does a redirect between the first and the last.
BadResponse(page) ==
  \/ page.type # "" /\ page.type \notin AllowedTypes
  \/ page.size > SizeBudget
  \/ page.redirects > RedirectCap
  \/ page.final # None /\ page.final \notin Allowlist

Unsafe(s) == [s EXCEPT !.unsafe = @ + 1]
Charged(s, page) ==
  [s EXCEPT !.made = @ + 1, !.bytes = @ + page.size, !.times = Append(@, clock)]

\* Does the request reach the transport?
Egress(req, s) == StillOpen(s) /\ ~Denied(req, s) /\ ~s.dry

\* The request, the hops that followed it, and where the answer came from, if one did.
Call(req, got) ==
  [req |-> req, via |-> got.via, answered |-> got \notin Failures,
   final |-> IF got \in Failures THEN None ELSE got.final]
Sent(req, got, s) == IF Egress(req, s) THEN Append(calls, Call(req, got)) ELSE calls

Empty(req) == [type |-> "text", size |-> 0, redirects |-> 0, via |-> <<>>, final |-> req.domain,
               hash |-> "empty", claims |-> <<>>]

\* NetworkPerimeter.fetch: how it ends, the session after it, and the page it returns.
\* A closed session is told first, so the budget rule above never decides; a transport
\* that raises is not charged; a page refused after the fact is.
Fetch(req, page, s) ==
  LET End(how, after, got) == [how |-> how, session |-> after, page |-> got]
  IN  IF ~StillOpen(s) THEN End("closed", Unsafe(s), None)
      ELSE IF Denied(req, s) THEN End("denied", Unsafe(s), None)
      ELSE IF s.dry THEN End("allowed", s, Empty(req))
      ELSE IF page \in Failures THEN End("raised", s, None)
      ELSE IF BadResponse(page) THEN End("denied", Unsafe(Charged(s, page)), None)
      ELSE End("allowed", Charged(s, page), page)

-----------------------------------------------------------------------------
(* The engine *)

Line(kind, req, hash) == [kind |-> kind, domain |-> req, hash |-> hash]

\* _search: of a query's requests, those whose domain is on the list.
Search(q) == SelectSeq(SearchMap[q], LAMBDA req : req.domain \in Allowlist)

Open(dry) ==
  /\ query = None /\ acts < MaxActs
  /\ session' = NewSession(dry)
  /\ acts' = acts + 1
  /\ calls' = <<>>
  /\ UNCHANGED <<clock, query, todo, findings, bundle, journal, cache>>

Ask(q) ==
  /\ session # None /\ query = None /\ acts < MaxActs
  /\ acts' = acts + 1
  /\ query' = q
  /\ todo' = Search(q)
  /\ findings' = <<>>
  /\ journal' = Append(journal, Line("query", None, None))
  /\ UNCHANGED <<clock, session, bundle, cache, calls>>

\* A page already kept stays where it is; a new one pushes the oldest out.
Cached(hash) ==
  IF hash \in Range(cache) THEN cache
  ELSE Append(IF Len(cache) >= CacheCap THEN Tail(cache) ELSE cache, hash)

\* _cite: trust goes by the domain that answered in the end, if it is known.
Trust(domain) == IF domain \in Primary THEN 10 ELSE 7
Cite(claim, page, req) ==
  LET domain == IF page.final = None THEN req.domain ELSE page.final
  IN  [claim |-> claim, domain |-> domain, hash |-> page.hash, confidence |-> Trust(domain)]

\* One request of the query under way: fetched, journalled, kept and read.
FetchNext(page) ==
  LET req == Head(todo)
      r == Fetch(req, page, session)
  IN  /\ query # None /\ todo # <<>>
      /\ session' = r.session
      /\ calls' = Sent(req, page, session)
      /\ todo' = Tail(todo)
      /\ \/ /\ r.how = "allowed"
            /\ journal' = Append(journal, Line("allowed", r.page.final, r.page.hash))
            /\ cache' = Cached(r.page.hash)
            /\ findings' = findings \o [i \in DOMAIN r.page.claims |-> Cite(r.page.claims[i], r.page, req)]
         \/ /\ r.how = "denied"
            /\ journal' = Append(journal, Line("denied", req.domain, None))
            /\ UNCHANGED <<cache, findings>>
         \/ /\ r.how = "closed"
            /\ UNCHANGED <<journal, cache, findings>>
      /\ UNCHANGED <<clock, query, bundle, acts>>

\* The transport raises: research() is left at once, without a bundle or a line.
Abort(failure) ==
  /\ query # None /\ todo # <<>>
  /\ Fetch(Head(todo), failure, session).how = "raised"
  /\ calls' = Append(calls, Call(Head(todo), failure))
  /\ query' = None /\ todo' = <<>> /\ findings' = <<>>
  /\ UNCHANGED <<clock, session, bundle, journal, cache, acts>>

\* Distinct claims about one subject are a contradiction, from one page or from two.
Contradictions(fs) ==
  LET claims == {fs[i].claim : i \in DOMAIN fs}
  IN  {c.subject : c \in {d \in claims : \E e \in claims : e # d /\ e.subject = d.subject}}

Total(fs) == FoldLeft(LAMBDA sum, f : sum + f.confidence, 0, fs)
AtLeastZero(n) == IF n < 0 THEN 0 ELSE n

\* bundle_from_parts, in hundredths.
Bundle(q, fs) ==
  LET against == Contradictions(fs)
  IN  [query |-> q, findings |-> fs, contradictions |-> against, unknown |-> fs = <<>>,
       confidence |-> IF fs = <<>> THEN 10
                      ELSE AtLeastZero((10 * Total(fs)) \div Len(fs) - 50 * Cardinality(against))]

Answer ==
  /\ query # None /\ todo = <<>>
  /\ bundle' = Bundle(query, findings)
  /\ journal' = Append(journal, Line("bundle", None, None))
  /\ query' = None
  /\ findings' = <<>>
  /\ UNCHANGED <<clock, session, todo, cache, calls, acts>>

\* A request made directly, as the benchmark's probe: the engine writes no line of it.
Probe(req, page) ==
  /\ session # None /\ query = None /\ acts < MaxActs
  /\ acts' = acts + 1
  /\ session' = Fetch(req, page, session).session
  /\ calls' = Sent(req, page, session)
  /\ UNCHANGED <<clock, query, todo, findings, bundle, journal, cache>>

Tick ==
  /\ clock < MaxTime
  /\ clock' = clock + 1
  /\ UNCHANGED <<session, query, todo, findings, bundle, journal, cache, calls, acts>>

-----------------------------------------------------------------------------
(* What consumers make of a bundle *)

Thin(b) == b = None \/ b.confidence < 60 \/ b.contradictions # {} \/ b.unknown

\* deliberate_with_research: the engine it is given is not asked.
Deliberate(b) == IF Thin(b) THEN "abstain" ELSE "prefer"

\* learn_with_research: no evidence holds nothing back.
LearnWithResearch(passes, b) ==
  passes /\ (b = None \/ (b.contradictions = {} /\ b.confidence >= 60))

-----------------------------------------------------------------------------
ResearchInit ==
  /\ clock = 0 /\ session = None /\ query = None
  /\ todo = <<>> /\ findings = <<>> /\ bundle = None
  /\ journal = <<>> /\ cache = <<>> /\ calls = <<>> /\ acts = 0

ResearchNext ==
  \/ \E dry \in BOOLEAN : Open(dry)
  \/ \E q \in Queries : Ask(q)
  \/ \E page \in Pages : FetchNext(page)
  \/ \E failure \in Failures : Abort(failure)
  \/ Answer \/ Tick
  \/ \E req \in Probes, page \in Pages \cup Failures : Probe(req, page)

ResearchSpec == ResearchInit /\ [][ResearchNext]_researchVars

-----------------------------------------------------------------------------
(* Properties *)

\* Did the answer come from a domain off the list?
LeftTheList(call) == call.answered /\ call.final # None /\ call.final \notin Allowlist

\* What the counters say is what left, as far as the perimeter sees it: each request it
\* handed to the transport was allowed by every rule, each answer was charged to the
\* session within its budget, and no window of time saw more answers than the rate
\* allows; each answer from off the allowlist, by whatever redirects it was reached, is
\* among the unsafe attempts that the adoption gate counts.  The redirects themselves
\* (via), and the calls that raised, no rule and no counter knows of.
EgressJustified ==
  session # None =>
    /\ session.made <= RequestBudget
    /\ session.made = Cardinality({i \in DOMAIN calls : calls[i].answered})
    /\ session.dry => calls = <<>>
    /\ \A i \in DOMAIN calls :
         LET req == calls[i].req
         IN  req.https /\ req.domain \in Allowlist /\ ~(req.robots \/ req.declared > SizeBudget)
    /\ Cardinality({i \in DOMAIN calls : LeftTheList(calls[i])}) <= session.unsafe
    /\ \A i \in DOMAIN session.times :
         Cardinality({j \in 1 .. i : session.times[i] - session.times[j] <= RateWindow}) <= RateBudget

\* Evidence can be traced: each finding of a bundle, and of the query under way, stands
\* in the journal with its content and with a domain of the allowlist, wherever the
\* request was sent to at first, or with none if the answer did not say where it came
\* from and the domain asked is cited; and a consumer that prefers an approach or adopts a
\* candidate because of a bundle has such a finding to show, and none against it.
EvidenceIsJournaled ==
  LET shown == findings \o (IF bundle = None THEN <<>> ELSE bundle.findings)
  IN  /\ \A i \in DOMAIN shown :
           /\ shown[i].domain \in Allowlist
           /\ \E from \in {shown[i].domain, None} :
                Line("allowed", from, shown[i].hash) \in Range(journal)
      /\ bundle # None /\ (Deliberate(bundle) = "prefer" \/ LearnWithResearch(TRUE, bundle)) =>
           bundle.findings # <<>> /\ bundle.contradictions = {}
=============================================================================
