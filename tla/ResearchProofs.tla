----------------------------- MODULE ResearchProofs -----------------------------
(* Theorems about the perimeter and the research engine (Research), and about the  *)
(* standing of sources (Reliability).                                              *)
EXTENDS Research, Reliability, FiniteSetTheorems, TLAPS

-----------------------------------------------------------------------------
(* Sequences of anything *)

IsSeq(s) == Len(s) \in Nat /\ s \in Seq({s[i] : i \in 1 .. Len(s)})

LEMMA EmptyIsSeq == IsSeq(<<>>) /\ Len(<<>>) = 0 /\ DOMAIN <<>> = {}
BY DEF IsSeq

LEMMA SeqIsSeq ==
  ASSUME NEW S, NEW s \in Seq(S)
  PROVE  IsSeq(s)
BY DEF IsSeq

LEMMA Appended ==
  ASSUME NEW s, NEW e, IsSeq(s)
  PROVE  /\ IsSeq(Append(s, e))
         /\ DOMAIN s = 1 .. Len(s) /\ DOMAIN Append(s, e) = 1 .. Len(s) + 1
         /\ Len(Append(s, e)) = Len(s) + 1
         /\ \A i \in 1 .. Len(s) : Append(s, e)[i] = s[i]
         /\ Append(s, e)[Len(s) + 1] = e
<1> DEFINE S == {s[i] : i \in 1 .. Len(s)} \cup {e}
<1>1. s \in Seq(S) /\ e \in S
  BY DEF IsSeq
<1> HIDE DEF S
<1>2. Append(s, e) \in Seq(S)
  BY <1>1
<1>3. IsSeq(Append(s, e))
  BY <1>2, SeqIsSeq
<1> QED BY <1>1, <1>3

LEMMA Joined ==
  ASSUME NEW s, NEW t, IsSeq(s), IsSeq(t)
  PROVE  /\ IsSeq(s \o t)
         /\ DOMAIN s = 1 .. Len(s) /\ DOMAIN t = 1 .. Len(t)
         /\ DOMAIN (s \o t) = 1 .. Len(s) + Len(t)
         /\ Len(s \o t) = Len(s) + Len(t)
         /\ \A i \in 1 .. Len(s) : (s \o t)[i] = s[i]
         /\ \A i \in 1 .. Len(t) : (s \o t)[Len(s) + i] = t[i]
<1> DEFINE S == {s[i] : i \in 1 .. Len(s)} \cup {t[i] : i \in 1 .. Len(t)}
<1>1. s \in Seq(S) /\ t \in Seq(S)
  BY DEF IsSeq
<1> HIDE DEF S
<1>2. s \o t \in Seq(S)
  BY <1>1
<1>3. IsSeq(s \o t)
  BY <1>2, SeqIsSeq
<1> QED BY <1>1, <1>3

\* Whatever holds of the elements of two sequences holds of those of their concatenation.
LEMMA JoinedElements ==
  ASSUME NEW s, NEW t, IsSeq(s), IsSeq(t), NEW i \in DOMAIN (s \o t)
  PROVE  \/ i \in DOMAIN s /\ (s \o t)[i] = s[i]
         \/ \E k \in DOMAIN t : (s \o t)[i] = t[k]
<1>1. CASE i <= Len(s)
  BY <1>1, Joined
<1>2. CASE i > Len(s)
  <2>1. i - Len(s) \in 1 .. Len(t) /\ Len(s) + (i - Len(s)) = i
    BY <1>2, Joined DEF IsSeq
  <2>2. (s \o t)[Len(s) + (i - Len(s))] = t[i - Len(s)]
    BY <2>1, Joined
  <2> QED BY <2>1, <2>2, Joined
<1> QED BY <1>1, <1>2, Joined DEF IsSeq

-----------------------------------------------------------------------------
(* Egress *)

Allowed(req) ==
  req.https /\ req.domain \in Allowlist /\ ~(req.robots \/ req.declared > SizeBudget)

AnsweredIn(sent) == {i \in DOMAIN sent : sent[i].answered}
LeftIn(sent) == {i \in DOMAIN sent : LeftTheList(sent[i])}

InWindow(times, i) == {j \in 1 .. i : times[i] - times[j] <= RateWindow}

IsSession(s) ==
  s = [f \in {"dry", "made", "bytes", "unsafe", "times"} |-> s[f]]

\* A session in use: what it counted left, and no more than its budgets.
Accounted(s, sent) ==
  /\ IsSession(s)
  /\ s.made \in Nat /\ s.made <= RequestBudget /\ s.made = Cardinality(AnsweredIn(sent))
  /\ s.unsafe \in Nat /\ Cardinality(LeftIn(sent)) <= s.unsafe
  /\ s.dry \in BOOLEAN /\ (s.dry => sent = <<>>)
  /\ IsSeq(s.times)
  /\ \A i \in DOMAIN s.times :
       s.times[i] \in Int /\ Cardinality(InWindow(s.times, i)) <= RateBudget

\* What EgressJustified rests on.
EInv ==
  /\ clock \in Int
  /\ IsSeq(calls) /\ \A i \in DOMAIN calls : Allowed(calls[i].req)
  /\ session # None \/ query # None => Accounted(session, calls)

\* A request that no rule denies is one of those allowed, and the rate has room.
LEMMA NoDenial ==
  ASSUME NEW req, NEW s, ~Denied(req, s)
  PROVE  Allowed(req) /\ StillOpen(s) /\ ~RateExceeded(s)
BY DEF Denied, Allowed

\* One more call adds itself, and nothing else, to what its kind counts.
LEMMA OneMoreCall ==
  ASSUME NEW sent, IsSeq(sent), NEW call, NEW after, after = Append(sent, call)
  PROVE  /\ IsSeq(after)
         /\ Cardinality(AnsweredIn(sent)) \in Nat /\ Cardinality(LeftIn(sent)) \in Nat
         /\ Cardinality(AnsweredIn(after)) =
              Cardinality(AnsweredIn(sent)) + IF call.answered THEN 1 ELSE 0
         /\ Cardinality(LeftIn(after)) =
              Cardinality(LeftIn(sent)) + IF LeftTheList(call) THEN 1 ELSE 0
<1> DEFINE n == Len(sent)
<1>1. /\ n \in Nat /\ DOMAIN sent = 1 .. n /\ DOMAIN after = 1 .. n + 1
      /\ \A i \in 1 .. n : after[i] = sent[i]
      /\ after[n + 1] = call /\ IsSeq(after)
  BY Appended DEF IsSeq
<1> HIDE DEF n
<1>2. IsFiniteSet(1 .. n)
  BY <1>1, FS_Interval
<1>3. /\ AnsweredIn(after) = IF call.answered THEN AnsweredIn(sent) \cup {n + 1} ELSE AnsweredIn(sent)
      /\ AnsweredIn(sent) \subseteq 1 .. n /\ n + 1 \notin AnsweredIn(sent)
  BY <1>1 DEF AnsweredIn
<1>4. /\ LeftIn(after) = IF LeftTheList(call) THEN LeftIn(sent) \cup {n + 1} ELSE LeftIn(sent)
      /\ LeftIn(sent) \subseteq 1 .. n /\ n + 1 \notin LeftIn(sent)
  BY <1>1 DEF LeftIn
<1>5. IsFiniteSet(AnsweredIn(sent)) /\ IsFiniteSet(LeftIn(sent))
  BY <1>2, <1>3, <1>4, FS_Subset
<1>6. Cardinality(AnsweredIn(sent)) \in Nat /\ Cardinality(LeftIn(sent)) \in Nat
  BY <1>5, FS_CardinalityType
<1>7. /\ Cardinality(AnsweredIn(sent) \cup {n + 1}) = Cardinality(AnsweredIn(sent)) + 1
      /\ Cardinality(LeftIn(sent) \cup {n + 1}) = Cardinality(LeftIn(sent)) + 1
  BY <1>3, <1>4, <1>5, FS_AddElement
<1> QED BY <1>1, <1>3, <1>4, <1>6, <1>7

\* One more answer at this moment, if there were fewer than the budget in its window.
LEMMA OneMoreInWindow ==
  ASSUME NEW times, IsSeq(times), clock \in Int, \A i \in DOMAIN times : times[i] \in Int,
         Cardinality({i \in DOMAIN times : clock - times[i] <= RateWindow}) < RateBudget,
         \A i \in DOMAIN times : Cardinality(InWindow(times, i)) <= RateBudget
  PROVE  LET after == Append(times, clock) IN
         /\ IsSeq(after)
         /\ \A i \in DOMAIN after :
              after[i] \in Int /\ Cardinality(InWindow(after, i)) <= RateBudget
<1> DEFINE after == Append(times, clock)
           n == Len(times)
           W == {i \in DOMAIN times : clock - times[i] <= RateWindow}
<1>1. /\ IsSeq(after) /\ DOMAIN times = 1 .. n /\ DOMAIN after = 1 .. n + 1
      /\ \A i \in 1 .. n : after[i] = times[i]
      /\ after[n + 1] = clock /\ n \in Nat
  BY Appended DEF IsSeq
<1> HIDE DEF after
<1>2. ASSUME NEW i \in 1 .. n
      PROVE  after[i] \in Int /\ InWindow(after, i) = InWindow(times, i)
  BY <1>1 DEF InWindow
<1>3. IsFiniteSet(W) /\ Cardinality(W) \in Nat /\ n + 1 \notin W
  <2>1. IsFiniteSet(1 .. n)
    BY <1>1, FS_Interval
  <2>2. W \subseteq 1 .. n
    BY <1>1
  <2>3. n + 1 \notin W
    BY <1>1
  <2> HIDE DEF W, n
  <2>4. IsFiniteSet(W)
    BY <2>1, <2>2, FS_Subset
  <2> QED BY <2>3, <2>4, FS_CardinalityType
<1>4. InWindow(after, n + 1) \subseteq W \cup {n + 1}
  BY <1>1 DEF InWindow
<1> HIDE DEF W
<1>5. Cardinality(InWindow(after, n + 1)) <= RateBudget
  <2>1. /\ IsFiniteSet(W \cup {n + 1}) /\ Cardinality(W \cup {n + 1}) = Cardinality(W) + 1
    BY <1>3, FS_AddElement
  <2>2. /\ IsFiniteSet(InWindow(after, n + 1))
        /\ Cardinality(InWindow(after, n + 1)) <= Cardinality(W) + 1
    BY <2>1, <1>4, FS_Subset
  <2>3. Cardinality(InWindow(after, n + 1)) \in Nat /\ Cardinality(W) < RateBudget
    BY <2>2, FS_CardinalityType DEF W
  <2> QED BY <2>2, <2>3, <1>3, ResearchAssumption
<1> QED BY <1>1, <1>2, <1>5 DEF after

\* How a fetch can end, and the session after it.
LEMMA FetchCases ==
  ASSUME NEW req, NEW page, NEW s
  PROVE  \/ /\ ~Egress(req, s) \/ page \in Failures
            /\ Fetch(req, page, s).session = s
         \/ ~Egress(req, s) /\ Fetch(req, page, s).session = Unsafe(s)
         \/ /\ Egress(req, s) /\ page \notin Failures
            /\ \/ ~BadResponse(page) /\ Fetch(req, page, s).session = Charged(s, page)
               \/ Fetch(req, page, s).session = Unsafe(Charged(s, page))
<1>1. CASE ~StillOpen(s)
  BY <1>1 DEF Fetch, Egress
<1>2. CASE StillOpen(s) /\ Denied(req, s)
  BY <1>2 DEF Fetch, Egress
<1>3. CASE StillOpen(s) /\ ~Denied(req, s) /\ s.dry
  BY <1>3 DEF Fetch, Egress
<1>4. CASE Egress(req, s) /\ page \in Failures
  BY <1>4 DEF Fetch, Egress
<1>5. CASE Egress(req, s) /\ page \notin Failures /\ BadResponse(page)
  BY <1>5 DEF Fetch, Egress
<1>6. CASE Egress(req, s) /\ page \notin Failures /\ ~BadResponse(page)
  BY <1>6 DEF Fetch, Egress
<1> QED BY <1>1, <1>2, <1>3, <1>4, <1>5, <1>6 DEF Egress

\* Only what reaches the transport can raise, and it is not charged.
LEMMA RaisedWasSent ==
  ASSUME NEW req, NEW failure \in Failures, NEW s, Fetch(req, failure, s).how = "raised"
  PROVE  Egress(req, s) /\ Fetch(req, failure, s).session = s
<1>1. CASE ~StillOpen(s)
  <2>1. Fetch(req, failure, s).how = "closed"
    BY <1>1 DEF Fetch
  <2> QED BY <2>1
<1>2. CASE StillOpen(s) /\ Denied(req, s)
  <2>1. Fetch(req, failure, s).how = "denied"
    BY <1>2 DEF Fetch
  <2> QED BY <2>1
<1>3. CASE StillOpen(s) /\ ~Denied(req, s) /\ s.dry
  <2>1. Fetch(req, failure, s).how = "allowed"
    BY <1>3 DEF Fetch
  <2> QED BY <2>1
<1>4. CASE StillOpen(s) /\ ~Denied(req, s) /\ ~s.dry
  BY <1>4 DEF Fetch, Egress
<1> QED BY <1>1, <1>2, <1>3, <1>4

\* A fetch leaves the session accounted for, the call counted if it was made.
LEMMA FetchAccounted ==
  ASSUME clock \in Int, IsSeq(calls), NEW req, NEW page, NEW s, Accounted(s, calls)
  PROVE  Accounted(Fetch(req, page, s).session, Sent(req, page, s))
<1> DEFINE sent == Sent(req, page, s)
           call == Call(req, page)
           u == Unsafe(s)
<1>1. ~Egress(req, s) => sent = calls
  BY DEF Sent
<1>2. Egress(req, s) => sent = Append(calls, call)
  BY DEF Sent
<1>3. /\ call.answered = (page \notin Failures)
      /\ page \notin Failures => call.final = page.final
  BY DEF Call
<1>4. /\ IsSession(u) /\ u.dry = s.dry /\ u.made = s.made /\ u.times = s.times
      /\ u.unsafe = s.unsafe + 1
  BY DEF Accounted, IsSession, Unsafe
<1> HIDE DEF sent, call, u
<1>5. Cardinality(LeftIn(calls)) \in Nat
  BY OneMoreCall
<1>6. Accounted(s, calls) /\ Accounted(u, calls)
  BY <1>4, <1>5 DEF Accounted
<1>7. ASSUME Egress(req, s), page \in Failures
      PROVE  Accounted(s, sent)
  <2>1. sent = Append(calls, call) /\ ~call.answered /\ ~LeftTheList(call) /\ ~s.dry
    BY <1>2, <1>3, <1>7 DEF LeftTheList, Egress
  <2>2. /\ Cardinality(AnsweredIn(sent)) = Cardinality(AnsweredIn(calls)) + 0
        /\ Cardinality(LeftIn(sent)) = Cardinality(LeftIn(calls)) + 0
        /\ Cardinality(AnsweredIn(calls)) \in Nat /\ Cardinality(LeftIn(calls)) \in Nat
    BY <2>1, OneMoreCall
  <2> QED BY <1>6, <2>1, <2>2 DEF Accounted
<1>8. ASSUME Egress(req, s), page \notin Failures
      PROVE  /\ ~BadResponse(page) => Accounted(Charged(s, page), sent)
             /\ Accounted(Unsafe(Charged(s, page)), sent)
  <2> DEFINE c == Charged(s, page)
             d == Unsafe(c)
  <2>1. IsSession(s) /\ s.made \in Nat /\ s.made < RequestBudget /\ ~s.dry /\ s.unsafe \in Nat
    BY <1>8 DEF Accounted, Egress, StillOpen
  <2>2. /\ IsSession(c) /\ c.dry = s.dry /\ c.made = s.made + 1
        /\ c.times = Append(s.times, clock) /\ c.unsafe = s.unsafe
    BY <2>1 DEF IsSession, Charged
  <2>3. /\ IsSession(d) /\ d.dry = c.dry
        /\ d.made = c.made /\ d.times = c.times /\ d.unsafe = c.unsafe + 1
    BY <2>2 DEF IsSession, Unsafe
  <2>4. sent = Append(calls, call) /\ call.answered
    BY <1>2, <1>3, <1>8
  <2>5. /\ Cardinality(AnsweredIn(sent)) = Cardinality(AnsweredIn(calls)) + 1
        /\ Cardinality(LeftIn(sent)) =
             Cardinality(LeftIn(calls)) + IF LeftTheList(call) THEN 1 ELSE 0
    BY <2>4, OneMoreCall
  <2>6. ~BadResponse(page) => ~LeftTheList(call)
    BY <1>3, <1>8 DEF BadResponse, LeftTheList
  <2> HIDE DEF c, d
  <2>7. c.made \in Nat /\ c.made <= RequestBudget /\ c.made = Cardinality(AnsweredIn(sent))
    BY <2>1, <2>2, <2>5, ResearchAssumption DEF Accounted
  <2>8. Cardinality({i \in DOMAIN s.times : clock - s.times[i] <= RateWindow}) < RateBudget
    <3>1. IsFiniteSet({i \in DOMAIN s.times : clock - s.times[i] <= RateWindow})
      <4>1. IsFiniteSet(1 .. Len(s.times)) /\ DOMAIN s.times = 1 .. Len(s.times)
        <5>1. Len(s.times) \in Nat /\ DOMAIN s.times = 1 .. Len(s.times)
          BY DEF Accounted, IsSeq
        <5> QED BY <5>1, FS_Interval
      <4> QED BY <4>1, FS_Subset
    <3>2. ~RateExceeded(s)
      BY <1>8, NoDenial DEF Egress
    <3> QED BY <3>1, <3>2, FS_CardinalityType, ResearchAssumption DEF RateExceeded
  <2>9. /\ IsSeq(c.times)
        /\ \A i \in DOMAIN c.times :
             c.times[i] \in Int /\ Cardinality(InWindow(c.times, i)) <= RateBudget
    BY <2>2, <2>8, OneMoreInWindow DEF Accounted
  <2>10. ~BadResponse(page) => Accounted(c, sent)
    <3>1. ~BadResponse(page) => Cardinality(LeftIn(sent)) = Cardinality(LeftIn(calls))
      BY <2>5, <2>6, <1>5
    <3> QED BY <2>1, <2>2, <2>7, <2>9, <3>1 DEF Accounted
  <2>11. Accounted(d, sent)
    <3>1. Cardinality(LeftIn(sent)) <= d.unsafe /\ d.unsafe \in Nat
      BY <2>1, <2>2, <2>3, <2>5, <1>5 DEF Accounted
    <3> QED BY <2>1, <2>2, <2>3, <2>7, <2>9, <3>1 DEF Accounted
  <2> QED BY <2>10, <2>11 DEF c, d
<1>9. Accounted(Fetch(req, page, s).session, sent)
  <2>1. CASE Egress(req, s) /\ page \in Failures
    BY <2>1, <1>7, FetchCases
  <2>2. CASE Egress(req, s) /\ page \notin Failures
    BY <2>2, <1>8, FetchCases
  <2>3. CASE ~Egress(req, s)
    BY <2>3, <1>1, <1>6, FetchCases DEF u
  <2> QED BY <2>1, <2>2, <2>3
<1> QED BY <1>9 DEF sent

LEMMA EgressStep == EInv /\ [ResearchNext]_researchVars => EInv'
<1> SUFFICES ASSUME EInv, [ResearchNext]_researchVars PROVE EInv'
  OBVIOUS
<1>0. /\ IsSeq(<<>>) /\ Len(<<>>) = 0 /\ DOMAIN <<>> = {}
      /\ clock \in Int
      /\ IsSeq(calls) /\ \A i \in DOMAIN calls : Allowed(calls[i].req)
  BY EmptyIsSeq DEF EInv
<1>1. ASSUME NEW req, NEW got, calls' = Sent(req, got, session)
      PROVE  IsSeq(calls') /\ \A i \in DOMAIN calls' : Allowed(calls'[i].req)
  <2>1. CASE ~Egress(req, session)
    BY <1>0, <1>1, <2>1 DEF Sent
  <2>2. CASE Egress(req, session)
    <3> DEFINE call == Call(req, got)
    <3>1. calls' = Append(calls, call) /\ call.req = req
      BY <1>1, <2>2 DEF Sent, Call
    <3>2. Allowed(req) /\ Len(calls) \in Nat
      BY <2>2, <1>0, NoDenial DEF Egress, IsSeq
    <3> HIDE DEF call
    <3>3. \A i \in DOMAIN calls' : (i \in DOMAIN calls /\ calls'[i] = calls[i]) \/ calls'[i] = call
      BY <3>1, <3>2, <1>0, Appended
    <3>4. IsSeq(calls')
      BY <3>1, <1>0, Appended
    <3>5. \A i \in DOMAIN calls' : Allowed(calls'[i].req)
      <4> SUFFICES ASSUME NEW i \in DOMAIN calls' PROVE Allowed(calls'[i].req)
        OBVIOUS
      <4>1. CASE i \in DOMAIN calls /\ calls'[i] = calls[i]
        BY <4>1, <1>0
      <4>2. CASE calls'[i] = call
        <5>1. calls'[i].req = req
          BY <4>2, <3>1
        <5> QED BY <5>1, <3>2
      <4> QED BY <4>1, <4>2, <3>3
    <3> QED BY <3>4, <3>5
  <2> QED BY <2>1, <2>2
<1>2. ASSUME NEW dry \in BOOLEAN, Open(dry)
      PROVE  EInv'
  <2>1. AnsweredIn(<<>>) = {} /\ LeftIn(<<>>) = {} /\ Cardinality({}) = 0
    <3>1. Cardinality({}) = 0
      BY FS_EmptySet
    <3> QED BY <1>0, <3>1 DEF AnsweredIn, LeftIn
  <2>2. Accounted(NewSession(dry), <<>>)
    <3> DEFINE s == NewSession(dry)
    <3>1. /\ IsSession(s) /\ s.made = 0 /\ s.unsafe = 0 /\ s.dry = dry /\ s.times = <<>>
      BY DEF IsSession, NewSession
    <3> HIDE DEF s
    <3>2. RequestBudget \in Nat /\ 0 <= RequestBudget
      BY ResearchAssumption
    <3>3. /\ s.made \in Nat /\ s.made <= RequestBudget /\ s.made = Cardinality(AnsweredIn(<<>>))
          /\ s.unsafe \in Nat /\ Cardinality(LeftIn(<<>>)) <= s.unsafe
      BY <2>1, <3>1, <3>2
    <3>4. s.dry \in BOOLEAN /\ IsSeq(s.times) /\ DOMAIN s.times = {}
      BY <1>0, <3>1
    <3>5. \A i \in DOMAIN s.times :
            s.times[i] \in Int /\ Cardinality(InWindow(s.times, i)) <= RateBudget
      BY <3>4
    <3> QED BY <3>1, <3>3, <3>4, <3>5 DEF Accounted, s
  <2> QED BY <1>0, <1>2, <2>2 DEF EInv, Open
<1>3. ASSUME NEW q \in Queries, Ask(q)
      PROVE  EInv'
  BY <1>3 DEF EInv, Ask
<1>4. ASSUME NEW page \in Pages, FetchNext(page)
      PROVE  EInv'
  <2> DEFINE req == Head(todo)
  <2>1. /\ session' = Fetch(req, page, session).session
        /\ calls' = Sent(req, page, session)
        /\ clock' = clock /\ query # None
    BY <1>4 DEF FetchNext
  <2>2. Accounted(session, calls)
    BY <2>1 DEF EInv
  <2> HIDE DEF req
  <2>3. Accounted(session', calls')
    BY <2>1, <2>2, <1>0, FetchAccounted
  <2> QED BY <2>1, <2>3, <1>0, <1>1 DEF EInv
<1>5. ASSUME NEW failure \in Failures, Abort(failure)
      PROVE  EInv'
  <2> DEFINE req == Head(todo)
  <2>1. /\ Fetch(req, failure, session).how = "raised"
        /\ calls' = Append(calls, Call(req, failure)) /\ session' = session /\ clock' = clock
        /\ query # None
    BY <1>5 DEF Abort
  <2> HIDE DEF req
  <2>2. Egress(req, session) /\ Fetch(req, failure, session).session = session
    BY <2>1, RaisedWasSent
  <2>3. calls' = Sent(req, failure, session)
    BY <2>1, <2>2 DEF Sent
  <2>4. Accounted(session', calls')
    BY <2>1, <2>2, <2>3, <1>0, FetchAccounted DEF EInv
  <2> QED BY <2>1, <2>3, <2>4, <1>0, <1>1 DEF EInv
<1>6. CASE Answer
  BY <1>6 DEF EInv, Answer
<1>7. ASSUME NEW req \in Probes, NEW page \in Pages \cup Failures, Probe(req, page)
      PROVE  EInv'
  <2>1. /\ session' = Fetch(req, page, session).session
        /\ calls' = Sent(req, page, session)
        /\ clock' = clock /\ session # None
    BY <1>7 DEF Probe
  <2>2. Accounted(session, calls)
    BY <2>1 DEF EInv
  <2>3. Accounted(session', calls')
    BY <2>1, <2>2, <1>0, FetchAccounted
  <2> QED BY <2>1, <2>3, <1>0, <1>1 DEF EInv
<1>8. CASE Tick
  BY <1>8 DEF EInv, Tick
<1>9. CASE UNCHANGED researchVars
  BY <1>9 DEF EInv, researchVars
<1> QED BY <1>2, <1>3, <1>4, <1>5, <1>6, <1>7, <1>8, <1>9 DEF ResearchNext

\* Whatever the perimeter hands over was allowed by every rule, each answer is counted and
\* within the rate, and one from off the list is on record as unsafe, for any list of
\* domains, any budgets, any answers and any redirects (NetworkPerimeter.fetch).
THEOREM EgressAccounted == ResearchSpec => []EgressJustified
<1>1. ResearchInit => EInv
  BY EmptyIsSeq DEF ResearchInit, EInv
<1>2. EInv => EgressJustified
  BY DEF EInv, EgressJustified, Accounted, Allowed, InWindow, AnsweredIn, LeftIn
<1> QED BY <1>1, <1>2, EgressStep, PTL DEF ResearchSpec

-----------------------------------------------------------------------------
(* Evidence *)

\* Each finding stands in the journal, with its content and a domain of the allowlist.
TracedTo(f, lines) ==
  /\ f.domain \in Allowlist
  /\ \E k \in DOMAIN lines, from \in {f.domain, None} : lines[k] = Line("allowed", from, f.hash)

Cited(fs, lines) == \A i \in DOMAIN fs : TracedTo(fs[i], lines)

\* What EvidenceIsJournaled rests on; a bundle of nothing carries next to no confidence.
CitedInv ==
  /\ IsSeq(journal) /\ IsSeq(findings) /\ Cited(findings, journal)
  /\ bundle # None =>
       /\ IsSeq(bundle.findings) /\ Cited(bundle.findings, journal)
       /\ bundle.findings = <<>> => bundle.confidence = 10

\* The journal only grows.
LEMMA StillCited ==
  ASSUME NEW fs, NEW lines, NEW line, IsSeq(lines), Cited(fs, lines)
  PROVE  Cited(fs, Append(lines, line))
<1>1. /\ Len(lines) \in Nat /\ DOMAIN lines = 1 .. Len(lines)
      /\ DOMAIN Append(lines, line) = 1 .. Len(lines) + 1
      /\ \A k \in DOMAIN lines : Append(lines, line)[k] = lines[k]
  BY Appended DEF IsSeq
<1>2. \A k \in DOMAIN lines : k \in DOMAIN Append(lines, line)
  BY <1>1
<1> QED BY <1>1, <1>2 DEF Cited, TracedTo

\* What a page says is cited by the line that is written of it.
LEMMA PageCited ==
  ASSUME NEW page, NEW req, page.final = None => req.domain \in Allowlist,
         page.final # None => page.final \in Allowlist,
         IsSeq(page.claims), NEW lines, IsSeq(lines),
         NEW line, line = Line("allowed", page.final, page.hash)
  PROVE  LET found == [i \in DOMAIN page.claims |-> Cite(page.claims[i], page, req)]
         IN  IsSeq(found) /\ Cited(found, Append(lines, line))
<1> DEFINE found == [i \in DOMAIN page.claims |-> Cite(page.claims[i], page, req)]
<1>1. IsSeq(found)
  <2>1. DOMAIN page.claims = 1 .. Len(page.claims) /\ Len(page.claims) \in Nat
    BY DEF IsSeq
  <2>2. found \in Seq({found[i] : i \in DOMAIN page.claims})
    BY <2>1
  <2> QED BY <2>2, SeqIsSeq
<1>2. /\ Len(lines) + 1 \in DOMAIN Append(lines, line)
      /\ Append(lines, line)[Len(lines) + 1] = line
  BY Appended DEF IsSeq
<1>3. \A i \in DOMAIN found : /\ found[i].domain \in Allowlist /\ found[i].hash = page.hash
                             /\ page.final \in {found[i].domain, None}
  BY DEF Cite
<1> QED BY <1>1, <1>2, <1>3 DEF Cited, TracedTo

\* A page that is let through has answered from the allowlist, or does not say from where.
LEMMA LetThrough ==
  ASSUME NEW req, NEW page \in Pages, NEW s, Fetch(req, page, s).how = "allowed"
  PROVE  LET got == Fetch(req, page, s).page
         IN  /\ got.final = None => req.domain \in Allowlist
             /\ got.final # None => got.final \in Allowlist
             /\ IsSeq(got.claims)
<1>1. CASE ~StillOpen(s)
  <2>1. Fetch(req, page, s).how = "closed"
    BY <1>1 DEF Fetch
  <2> QED BY <2>1
<1>2. CASE StillOpen(s) /\ Denied(req, s)
  <2>1. Fetch(req, page, s).how = "denied"
    BY <1>2 DEF Fetch
  <2> QED BY <2>1
<1>3. CASE StillOpen(s) /\ ~Denied(req, s) /\ s.dry
  <2>1. Fetch(req, page, s).page = Empty(req)
    BY <1>3 DEF Fetch
  <2> QED BY <1>3, <2>1, EmptyIsSeq DEF Empty, Denied
<1>4. CASE StillOpen(s) /\ ~Denied(req, s) /\ ~s.dry /\ page \in Failures
  <2>1. Fetch(req, page, s).how = "raised"
    BY <1>4 DEF Fetch
  <2> QED BY <2>1
<1>5. CASE StillOpen(s) /\ ~Denied(req, s) /\ ~s.dry /\ page \notin Failures /\ BadResponse(page)
  <2>1. Fetch(req, page, s).how = "denied"
    BY <1>5 DEF Fetch
  <2> QED BY <2>1
<1>6. CASE StillOpen(s) /\ ~Denied(req, s) /\ ~s.dry /\ page \notin Failures /\ ~BadResponse(page)
  <2>1. Fetch(req, page, s).page = page
    BY <1>6 DEF Fetch
  <2>2. (page.final # None => page.final \in Allowlist) /\ page.claims \in Seq(Claim)
    BY <1>6, ResearchAssumption DEF BadResponse, Page
  <2>3. req.domain \in Allowlist
    BY <1>6 DEF Denied
  <2> QED BY <2>1, <2>2, <2>3, SeqIsSeq
<1> QED BY <1>1, <1>2, <1>3, <1>4, <1>5, <1>6

LEMMA CitedStep == CitedInv /\ [ResearchNext]_researchVars => CitedInv'
<1> SUFFICES ASSUME CitedInv, [ResearchNext]_researchVars PROVE CitedInv'
  OBVIOUS
<1>0. /\ IsSeq(<<>>) /\ \A lines : Cited(<<>>, lines)
      /\ IsSeq(journal) /\ IsSeq(findings) /\ Cited(findings, journal)
  BY EmptyIsSeq DEF Cited, CitedInv
<1>1. ASSUME NEW line, journal' = Append(journal, line)
      PROVE  /\ IsSeq(journal') /\ Cited(findings, journal')
             /\ bundle # None => Cited(bundle.findings, journal')
  BY <1>1, <1>0, Appended, StillCited DEF CitedInv
<1>2. ASSUME NEW dry \in BOOLEAN, Open(dry)
      PROVE  CitedInv'
  BY <1>2 DEF CitedInv, Open
<1>3. ASSUME NEW q \in Queries, Ask(q)
      PROVE  CitedInv'
  <2>1. journal' = Append(journal, Line("query", None, None)) /\ findings' = <<>> /\ bundle' = bundle
    BY <1>3 DEF Ask
  <2> QED BY <2>1, <1>0, <1>1 DEF CitedInv
<1>4. ASSUME NEW page \in Pages, FetchNext(page)
      PROVE  CitedInv'
  <2> DEFINE req == Head(todo)
             r == Fetch(req, page, session)
             found == [i \in DOMAIN r.page.claims |-> Cite(r.page.claims[i], r.page, req)]
             line == Line("allowed", r.page.final, r.page.hash)
  <2>1. CASE /\ r.how = "allowed"
             /\ journal' = Append(journal, line) /\ findings' = findings \o found
             /\ bundle' = bundle
    <3>1. /\ r.page.final = None => req.domain \in Allowlist
          /\ r.page.final # None => r.page.final \in Allowlist
          /\ IsSeq(r.page.claims)
      BY <2>1, LetThrough
    <3>2. IsSeq(found) /\ Cited(found, journal')
      BY <3>1, <2>1, <1>0, PageCited
    <3>3. /\ IsSeq(journal') /\ Cited(findings, journal')
          /\ bundle # None => Cited(bundle.findings, journal')
      BY <2>1, <1>1
    <3> HIDE DEF found, line
    <3>4. IsSeq(findings')
      BY <2>1, <3>2, <1>0, Joined
    <3>5. Cited(findings', journal')
      <4> SUFFICES ASSUME NEW i \in DOMAIN findings' PROVE TracedTo(findings'[i], journal')
        BY DEF Cited
      <4>1. \/ i \in DOMAIN findings /\ findings'[i] = findings[i]
            \/ \E k \in DOMAIN found : findings'[i] = found[k]
        BY <2>1, <3>2, <1>0, JoinedElements
      <4> QED BY <4>1, <3>2, <3>3 DEF Cited
    <3> QED BY <2>1, <3>3, <3>4, <3>5 DEF CitedInv
  <2>2. CASE /\ journal' = Append(journal, Line("denied", req.domain, None))
             /\ UNCHANGED <<findings, bundle>>
    BY <2>2, <1>0, <1>1 DEF CitedInv
  <2>3. CASE UNCHANGED <<journal, findings, bundle>>
    BY <2>3 DEF CitedInv
  <2> QED BY <1>4, <2>1, <2>2, <2>3 DEF FetchNext
<1>5. ASSUME NEW failure \in Failures, Abort(failure)
      PROVE  CitedInv'
  BY <1>0, <1>5 DEF CitedInv, Abort
<1>6. CASE Answer
  <2>1. /\ bundle' = Bundle(query, findings) /\ findings' = <<>>
        /\ journal' = Append(journal, Line("bundle", None, None))
    BY <1>6 DEF Answer
  <2>2. /\ bundle'.findings = findings
        /\ findings = <<>> => bundle'.confidence = 10
    BY <2>1 DEF Bundle
  <2> QED BY <2>1, <2>2, <1>0, <1>1 DEF CitedInv
<1>7. ASSUME NEW req \in Probes, NEW page \in Pages \cup Failures, Probe(req, page)
      PROVE  CitedInv'
  BY <1>7 DEF CitedInv, Probe
<1>8. CASE Tick
  BY <1>8 DEF CitedInv, Tick
<1>9. CASE UNCHANGED researchVars
  BY <1>9 DEF CitedInv, researchVars
<1> QED BY <1>2, <1>3, <1>4, <1>5, <1>6, <1>7, <1>8, <1>9 DEF ResearchNext

\* All evidence, finished or under way, can be traced to a page that was journalled and
\* answered from the allowlist, and no consumer acts on a bundle that shows none
\* (ResearchEngine.research, deliberate_with_research, learn_with_research).
THEOREM EvidenceTraced == ResearchSpec => []EvidenceIsJournaled
<1>1. ResearchInit => CitedInv
  BY EmptyIsSeq DEF ResearchInit, CitedInv, Cited
<1>2. CitedInv => EvidenceIsJournaled
  <2> SUFFICES ASSUME CitedInv PROVE EvidenceIsJournaled
    OBVIOUS
  <2> DEFINE last == IF bundle = None THEN <<>> ELSE bundle.findings
             shown == findings \o last
  <2>1. IsSeq(last) /\ Cited(last, journal) /\ IsSeq(findings) /\ Cited(findings, journal)
    BY EmptyIsSeq DEF CitedInv, Cited
  <2>2. ASSUME NEW i \in DOMAIN shown
        PROVE  /\ shown[i].domain \in Allowlist
               /\ \E from \in {shown[i].domain, None} :
                    Line("allowed", from, shown[i].hash) \in Range(journal)
    <3>1. \/ i \in DOMAIN findings /\ shown[i] = findings[i]
          \/ \E k \in DOMAIN last : shown[i] = last[k]
      BY <2>1, JoinedElements
    <3> HIDE DEF last, shown
    <3>2. TracedTo(shown[i], journal)
      BY <2>1, <3>1 DEF Cited
    <3> QED BY <3>2 DEF TracedTo, Range
  <2>3. ASSUME bundle # None, Deliberate(bundle) = "prefer" \/ LearnWithResearch(TRUE, bundle)
        PROVE  bundle.findings # <<>> /\ bundle.contradictions = {}
    BY <2>3 DEF CitedInv, Deliberate, Thin, LearnWithResearch
  <2> QED BY <2>2, <2>3 DEF EvidenceIsJournaled
<1> QED BY <1>1, <1>2, CitedStep, PTL DEF ResearchSpec

-----------------------------------------------------------------------------
(* The standing of sources *)

RLines == [kind : {"outcome", "decay", "retire", "unretire"}, source : Sources,
           outcome : Outcomes \cup {Nil}]
Standings == [Sources -> Standing \cup {Nil}]

LEMMA ClipRange ==
  ASSUME NEW n, n \in Int
  PROVE  Clip(n) \in Confidences
BY DEF Clip, Confidences

LEMMA ConfidenceBounds ==
  ASSUME NEW x, x \in Confidences
  PROVE  x \in Int /\ 0 <= x /\ x <= 10000
BY DEF Confidences

LEMMA DividedRange ==
  ASSUME NEW z, z \in Nat, z <= 10000 * 10000
  PROVE  z \div 10000 \in Confidences
BY DEF Confidences

LEMMA ScaledRange ==
  ASSUME NEW x, NEW y, x \in Confidences, y \in Confidences
  PROVE  (x * y) \div 10000 \in Confidences
<1>1. x \in 0 .. 10000 /\ y \in 0 .. 10000
  BY DEF Confidences
<1>2. x * y \in Nat /\ x * y <= 10000 * x
  BY <1>1
<1>3. x * y <= 10000 * 10000
  <2> DEFINE z == x * y
  <2>1. z \in Nat /\ z <= 10000 * x
    BY <1>2
  <2> HIDE DEF z
  <2>2. z <= 10000 * 10000
    <3>1. x \in Int /\ x <= 10000
      BY <1>1
    <3> QED BY <2>1, <3>1
  <2> QED BY <2>2 DEF z
<1> QED BY <1>2, <1>3, DividedRange

LEMMA IdleRange ==
  ASSUME NEW c, c \in Confidences, NEW idles, idles \in BOOLEAN
  PROVE  (IF idles THEN IF c - 2 < Floor THEN Floor ELSE c - 2 ELSE c) \in Confidences
BY DEF Floor, Confidences

LEMMA ContradictedRange ==
  ASSUME NEW c, NEW n, c \in Confidences, n \in Nat
  PROVE  Clip(c - AtMost(250 * n, 5000)) \in Confidences
<1>1. c - AtMost(250 * n, 5000) \in Int
  BY DEF AtMost, Confidences
<1> QED BY <1>1, ClipRange

LEMMA ConfidenceRange ==
  ASSUME NEW supports, NEW against, NEW age,
         supports \in Nat, against \in Nat, age \in Nat
  PROVE  Confidence(supports, against, age) \in Confidences
<1> DEFINE total == supports + against
           share == (10000 * (2 * supports + 1)) \div (2 * (total + 1)) - (5000 * against) \div total
           base == IF total = 0 THEN 5000 ELSE Clip(share)
           recency == IF age >= 3 THEN 0 ELSE 10000 - (10000 * age) \div 3
           scale == IF recency < 3000 THEN 3000 ELSE recency
<1>1. base \in Confidences
  <2>1. ASSUME total # 0
        PROVE  share \in Int
    <3>1. total \in Nat \ {0} /\ 2 * (total + 1) \in Nat \ {0}
      BY <2>1
    <3>2. 10000 * (2 * supports + 1) \in Nat /\ 5000 * against \in Nat
      OBVIOUS
    <3> HIDE DEF total
    <3>3. ASSUME NEW a \in Nat, NEW b \in Nat \ {0} PROVE a \div b \in Int
      BY <3>3
    <3>4. /\ (10000 * (2 * supports + 1)) \div (2 * (total + 1)) \in Int
          /\ (5000 * against) \div total \in Int
      BY <3>1, <3>2, <3>3
    <3> QED BY <3>4
  <2> HIDE DEF share
  <2>2. CASE total = 0
    BY <2>2 DEF Confidences
  <2>3. CASE total # 0
    <3>1. Clip(share) \in Confidences
      BY <2>1, <2>3, ClipRange
    <3> QED BY <2>3, <3>1
  <2> QED BY <2>2, <2>3
<1>2. scale \in Confidences
  BY DEF recency, Confidences
<1>4. Confidence(supports, against, age) = (base * scale) \div 10000
  BY DEF Confidence
<1> HIDE DEF base, scale
<1>5. (base * scale) \div 10000 \in Confidences
  BY <1>1, <1>2, ScaledRange
<1> QED BY <1>4, <1>5

LEMMA NumberType ==
  ASSUME NEW lines \in Seq(RLines), NEW source, NEW outcome
  PROVE  /\ IsFiniteSet(Recent(lines, source)) /\ IsFiniteSet(OutcomesOf(lines, source))
         /\ Number(lines, source, outcome) \in Nat
<1>1. IsFiniteSet(1 .. Len(lines)) /\ DOMAIN lines = 1 .. Len(lines)
  BY FS_Interval
<1>2. /\ OutcomesOf(lines, source) \subseteq 1 .. Len(lines)
      /\ Recent(lines, source) \subseteq 1 .. Len(lines)
      /\ {i \in Recent(lines, source) : lines[i].outcome = outcome} \subseteq 1 .. Len(lines)
  BY <1>1 DEF OutcomesOf, Recent
<1> QED BY <1>1, <1>2, FS_Subset, FS_CardinalityType DEF Number

LEMMA RebuiltType ==
  ASSUME NEW lines \in Seq(RLines), NEW source \in Sources, month \in Nat, standing \in Standings
  PROVE  LET s == Rebuilt(lines, source) IN
         /\ s \in Standing /\ s.retired = RetiredFlag(source)
         /\ s.supports = Number(lines, source, "validated")
         /\ s.against = Number(lines, source, "contradicted")
<1>1. Number(lines, source, "validated") \in Nat /\ Number(lines, source, "contradicted") \in Nat
  BY NumberType
<1> DEFINE supports == Number(lines, source, "validated")
           against == Number(lines, source, "contradicted")
           confidence == Confidence(supports, against, 0)
           trend == Trend(supports, against, 0)
           retired == RetiredFlag(source)
<1>2. confidence \in Confidences
  BY <1>1, ConfidenceRange
<1>3. trend \in {"stale", "unreliable", "reliable", "mixed"}
  BY DEF Trend
<1>4. retired \in BOOLEAN
  BY DEF RetiredFlag, Standings, Standing
<1>5. Rebuilt(lines, source) =
        [supports |-> supports, against |-> against, at |-> month,
         confidence |-> confidence, trend |-> trend, retired |-> retired]
  BY DEF Rebuilt
<1> HIDE DEF supports, against, confidence, trend, retired
<1>6. /\ Rebuilt(lines, source) \in Standing /\ Rebuilt(lines, source).retired = retired
      /\ Rebuilt(lines, source).supports = supports /\ Rebuilt(lines, source).against = against
  BY <1>1, <1>2, <1>3, <1>4, <1>5 DEF Standing, supports, against
<1> QED BY <1>6 DEF supports, against, retired

LEMMA DecayedType ==
  ASSUME NEW s \in Standing, month \in Nat
  PROVE  /\ Decayed(s) \in Standing
         /\ Decayed(s).supports = s.supports /\ Decayed(s).against = s.against
         /\ s.retired => Decayed(s).retired
<1> DEFINE age == month - s.at
           idle == IF age > 0 /\ s.supports = 0 /\ s.against = 0
                   THEN IF s.confidence - 2 < Floor THEN Floor ELSE s.confidence - 2
                   ELSE s.confidence
           less == IF s.against > 0 /\ s.trend # "stale"
                   THEN Clip(idle - AtMost(250 * s.against, 5000)) ELSE idle
           trend == IF age > 1 THEN "stale" ELSE s.trend
<1>0. /\ s.supports \in Nat /\ s.against \in Nat /\ s.at \in Nat /\ s.confidence \in Confidences
      /\ s.trend \in {"stale", "unreliable", "reliable", "mixed"} /\ s.retired \in BOOLEAN
  BY DEF Standing
<1> DEFINE idles == age > 0 /\ s.supports = 0 /\ s.against = 0
<1>1. idle \in Confidences
  <2>1. idles \in BOOLEAN /\ idle = IF idles THEN IF s.confidence - 2 < Floor THEN Floor
                                                ELSE s.confidence - 2 ELSE s.confidence
    OBVIOUS
  <2> HIDE DEF idle, idles
  <2> QED BY <1>0, <2>1, IdleRange
<1> HIDE DEF idle
<1>3. less \in Confidences
  <2>1. Clip(idle - AtMost(250 * s.against, 5000)) \in Confidences
    BY <1>0, <1>1, ContradictedRange
  <2> DEFINE clipped == Clip(idle - AtMost(250 * s.against, 5000))
  <2>2. less = clipped \/ less = idle
    OBVIOUS
  <2> HIDE DEF less, clipped
  <2> QED BY <1>1, <2>1, <2>2 DEF clipped
<1>4. trend \in {"stale", "unreliable", "reliable", "mixed"}
  BY <1>0
<1>5. Decayed(s) = [s EXCEPT !.confidence = less, !.trend = trend, !.retired = @ \/ less < RetireFloor]
  BY DEF Decayed, idle, age
<1> HIDE DEF less, trend
<1>6. (s.retired \/ less < RetireFloor) \in BOOLEAN
  BY <1>0
<1> QED BY <1>0, <1>3, <1>4, <1>5, <1>6 DEF Standing

\* The outcomes counted for a source, and those its standing counts.
TotalOf(lines, s) == Number(lines, s, "validated") + Number(lines, s, "contradicted")
Counted(st) == IF st = Nil THEN 0 ELSE st.supports + st.against

LEMMA JoinedLines ==
  ASSUME NEW lines \in Seq(RLines), NEW more \in Seq(RLines)
  PROVE  /\ lines \o more \in Seq(RLines)
         /\ DOMAIN lines = 1 .. Len(lines) /\ DOMAIN (lines \o more) = 1 .. Len(lines) + Len(more)
         /\ \A i \in 1 .. Len(lines) : (lines \o more)[i] = lines[i]
         /\ \A i \in DOMAIN (lines \o more) :
              i \notin DOMAIN lines => \E k \in DOMAIN more : (lines \o more)[i] = more[k]
<1>1. IsSeq(lines) /\ IsSeq(more)
  BY SeqIsSeq
<1> QED BY <1>1, Joined, JoinedElements

\* Lines that record no outcome of a source change nothing of what is counted for it.
LEMMA OthersCountNothing ==
  ASSUME NEW lines \in Seq(RLines), NEW more \in Seq(RLines), NEW s,
         \A k \in DOMAIN more : more[k].kind # "outcome" \/ more[k].source # s
  PROVE  TotalOf(lines \o more, s) = TotalOf(lines, s)
<1> DEFINE all == lines \o more
<1>1. /\ DOMAIN lines = 1 .. Len(lines)
      /\ DOMAIN all = 1 .. Len(lines) + Len(more) /\ Len(more) \in Nat /\ Len(lines) \in Nat
      /\ \A i \in DOMAIN lines : all[i] = lines[i]
      /\ \A i \in DOMAIN all : i \notin DOMAIN lines => \E k \in DOMAIN more : all[i] = more[k]
  BY JoinedLines
<1> HIDE DEF all
<1>2. DOMAIN lines \subseteq DOMAIN all
  BY <1>1
<1>3. OutcomesOf(all, s) = OutcomesOf(lines, s)
  BY <1>1, <1>2 DEF OutcomesOf
<1>4. Recent(all, s) = Recent(lines, s) /\ Recent(lines, s) \subseteq DOMAIN lines
  BY <1>3 DEF Recent, OutcomesOf
<1>5. \A o : {i \in Recent(all, s) : all[i].outcome = o} = {i \in Recent(lines, s) : lines[i].outcome = o}
  BY <1>1, <1>4
<1>6. \A o : Number(all, s, o) = Number(lines, s, o)
  BY <1>5 DEF Number
<1> QED BY <1>6 DEF TotalOf, all

\* One more outcome adds one at most; the oldest may fall out of the tail.
LEMMA OneMoreOutcome ==
  ASSUME NEW lines \in Seq(RLines), NEW line \in RLines, NEW s
  PROVE  TotalOf(lines \o <<line>>, s) <= TotalOf(lines, s) + 1
<1> DEFINE all == lines \o <<line>>
           n == Len(lines)
           Of(ls, o) == {i \in Recent(ls, s) : ls[i].outcome = o}
<1>0. <<line>> \in Seq(RLines) /\ Len(<<line>>) = 1 /\ n \in Nat
  OBVIOUS
<1>1. /\ all \in Seq(RLines) /\ DOMAIN lines = 1 .. n /\ DOMAIN all = 1 .. n + 1
      /\ \A i \in 1 .. n : all[i] = lines[i]
  BY <1>0, JoinedLines
<1> HIDE DEF all, n
<1>2. ASSUME NEW i \in Recent(all, s), i # n + 1
      PROVE  i \in Recent(lines, s) /\ all[i] = lines[i]
  <2>1. i \in OutcomesOf(all, s) /\ Cardinality({j \in OutcomesOf(all, s) : j > i}) < HistoryCap
    BY <1>2 DEF Recent
  <2>2. i \in 1 .. n /\ all[i] = lines[i] /\ i \in OutcomesOf(lines, s)
    BY <1>0, <1>1, <1>2, <2>1 DEF OutcomesOf
  <2>3. {j \in OutcomesOf(lines, s) : j > i} \subseteq {j \in OutcomesOf(all, s) : j > i}
    BY <1>0, <1>1 DEF OutcomesOf
  <2>4. IsFiniteSet({j \in OutcomesOf(all, s) : j > i})
    BY <1>1, NumberType, FS_Subset
  <2>5. /\ Cardinality({j \in OutcomesOf(lines, s) : j > i}) \in Nat
        /\ Cardinality({j \in OutcomesOf(all, s) : j > i}) \in Nat
        /\ Cardinality({j \in OutcomesOf(lines, s) : j > i})
             <= Cardinality({j \in OutcomesOf(all, s) : j > i})
    BY <2>3, <2>4, FS_Subset, FS_CardinalityType
  <2>6. Cardinality({j \in OutcomesOf(lines, s) : j > i}) < HistoryCap
    BY <2>1, <2>5, ReliabilityAssumption
  <2> QED BY <2>2, <2>6 DEF Recent
<1>3. ASSUME NEW o
      PROVE  /\ IsFiniteSet(Of(lines, o)) /\ IsFiniteSet(Of(all, o))
             /\ Of(all, o) \subseteq Of(lines, o) \cup {n + 1}
             /\ o # all[n + 1].outcome => Of(all, o) \subseteq Of(lines, o)
             /\ Number(lines, s, o) = Cardinality(Of(lines, o))
             /\ Number(all, s, o) = Cardinality(Of(all, o))
  <2>1. IsFiniteSet(Of(lines, o)) /\ IsFiniteSet(Of(all, o))
    BY <1>1, NumberType, FS_Subset
  <2>2. ASSUME NEW i \in Of(all, o)
        PROVE  i \in Of(lines, o) \/ (i = n + 1 /\ o = all[n + 1].outcome)
    <3>1. i \in Recent(all, s) /\ all[i].outcome = o
      BY <2>2
    <3>2. CASE i = n + 1
      BY <3>1, <3>2
    <3>3. CASE i # n + 1
      <4>1. i \in Recent(lines, s) /\ all[i] = lines[i]
        BY <1>2, <3>1, <3>3
      <4> QED BY <3>1, <4>1
    <3> QED BY <3>2, <3>3
  <2> QED BY <2>1, <2>2 DEF Number
<1>4. ASSUME NEW o
      PROVE  /\ Number(lines, s, o) \in Nat /\ Number(all, s, o) \in Nat
             /\ Number(all, s, o) <= Number(lines, s, o) + 1
             /\ o # all[n + 1].outcome => Number(all, s, o) <= Number(lines, s, o)
  <2> DEFINE A == Of(lines, o)
             B == Of(all, o)
  <2>1. /\ IsFiniteSet(A) /\ IsFiniteSet(B) /\ B \subseteq A \cup {n + 1}
        /\ o # all[n + 1].outcome => B \subseteq A
        /\ Number(lines, s, o) = Cardinality(A) /\ Number(all, s, o) = Cardinality(B)
    BY <1>3
  <2> HIDE DEF A, B
  <2>2. /\ Cardinality(A) \in Nat /\ Cardinality(B) \in Nat
        /\ IsFiniteSet(A \cup {n + 1})
        /\ Cardinality(A \cup {n + 1}) \in Nat
        /\ Cardinality(A \cup {n + 1}) = Cardinality(A)
           \/ Cardinality(A \cup {n + 1}) = Cardinality(A) + 1
    <3>1. n + 1 \in A => A \cup {n + 1} = A
      OBVIOUS
    <3> QED BY <2>1, <3>1, FS_AddElement, FS_CardinalityType
  <2>3. Cardinality(B) <= Cardinality(A \cup {n + 1})
    BY <2>1, <2>2, FS_Subset
  <2>4. B \subseteq A => Cardinality(B) <= Cardinality(A)
    BY <2>1, FS_Subset
  <2> QED BY <2>1, <2>2, <2>3, <2>4
<1>5. "validated" # all[n + 1].outcome \/ "contradicted" # all[n + 1].outcome
  BY <1>4
<1>6. TotalOf(all, s) <= TotalOf(lines, s) + 1
  BY <1>4, <1>5 DEF TotalOf
<1> QED BY <1>6 DEF all

LEMMA TotalType ==
  ASSUME NEW lines \in Seq(RLines), NEW s
  PROVE  TotalOf(lines, s) \in Nat
BY NumberType DEF TotalOf

\* What the two properties rest on: standings in memory and in the file are the same,
\* those withdrawn are retired in what is there and in what is to come, and a standing
\* lacks no more of its source's outcomes than were lost since one was saved.
StandingInv ==
  /\ month \in Nat /\ rjournal \in Seq(RLines) /\ standing \in Standings
  /\ snapshot = standing /\ unsaved \in [Sources -> Nat] /\ withdrawn \subseteq Sources
  /\ \A s \in withdrawn : standing[s] # Nil /\ standing[s].retired
  /\ \A s \in Sources : TotalOf(rjournal, s) - Counted(standing[s]) <= unsaved[s]
  /\ pending # Nil =>
       /\ pending \in Standings /\ rjournal # <<>>
       /\ \A s \in withdrawn : pending[s] # Nil /\ pending[s].retired
       /\ LET last == Last(rjournal) IN
          \A s \in Sources :
            IF last.kind = "outcome" /\ last.source = s
            THEN Counted(pending[s]) = TotalOf(rjournal, s)
            ELSE Counted(pending[s]) = Counted(standing[s])

LEMMA CountedType ==
  ASSUME NEW st \in Standing \cup {Nil}
  PROVE  Counted(st) \in Nat
BY ReliabilityAssumption DEF Counted, Standing

LEMMA SetInSequence ==
  ASSUME NEW S, IsFiniteSet(S), S # {}
  PROVE  SetToSeq(S) \in Seq(S) /\ SetToSeq(S) # <<>>
<1> DEFINE n == Cardinality(S)
<1>1. n \in Nat /\ ExistsBijection(1 .. n, S) /\ n # 0
  BY FS_CardinalityType, FS_EmptySet
<1>2. \E f \in [1 .. n -> S] : IsInjective(f)
  BY <1>1 DEF ExistsBijection, Bijection, Injection
<1>3. SetToSeq(S) \in [1 .. n -> S]
  BY <1>2 DEF SetToSeq
<1> HIDE DEF n
<1>4. SetToSeq(S) \in Seq(S) /\ Len(SetToSeq(S)) = n
  BY <1>1, <1>3
<1> QED BY <1>1, <1>4

\* An operation that records no outcome and keeps what every standing counts.
LEMMA QuietWrite ==
  ASSUME StandingInv, NEW lines \in Seq(RLines), NEW after \in Standings,
         lines # <<>>, \A k \in DOMAIN lines : lines[k].kind # "outcome",
         Wrote(lines, after), withdrawn' \subseteq withdrawn, unsaved' = unsaved,
         \A s \in withdrawn' : after[s] # Nil /\ after[s].retired,
         \A s \in Sources : Counted(after[s]) = Counted(standing[s])
  PROVE  StandingInv'
<1>1. /\ rjournal' = rjournal \o lines /\ pending' = after
      /\ month' = month /\ standing' = standing /\ snapshot' = snapshot
  BY DEF Wrote
<1>2. /\ rjournal \in Seq(RLines) /\ Len(lines) \in Nat /\ Len(lines) > 0 /\ Len(rjournal) \in Nat
  BY DEF StandingInv
<1>3. rjournal' \in Seq(RLines) /\ rjournal' # <<>> /\ Len(rjournal') = Len(rjournal) + Len(lines)
  BY <1>1, <1>2
<1>4. \A s \in Sources : TotalOf(rjournal', s) = TotalOf(rjournal, s)
  BY <1>1, <1>2, OthersCountNothing
<1>5. Last(rjournal').kind # "outcome"
  <2>1. rjournal'[Len(rjournal) + Len(lines)] = lines[Len(lines)]
    BY <1>1, <1>2, Joined, SeqIsSeq
  <2> QED BY <1>2, <1>3, <2>1 DEF Last
<1> QED BY <1>1, <1>3, <1>4, <1>5 DEF StandingInv

LEMMA StandingStep == StandingInv /\ [ReliabilityNext]_reliabilityVars => StandingInv'
<1> SUFFICES ASSUME StandingInv, [ReliabilityNext]_reliabilityVars PROVE StandingInv'
  OBVIOUS
<1>0. /\ month \in Nat /\ rjournal \in Seq(RLines) /\ standing \in Standings
      /\ snapshot = standing /\ unsaved \in [Sources -> Nat] /\ withdrawn \subseteq Sources
      /\ \A s \in withdrawn : standing[s] # Nil /\ standing[s].retired
      /\ \A s \in Sources : TotalOf(rjournal, s) - Counted(standing[s]) <= unsaved[s]
  BY DEF StandingInv
<1>1. ASSUME NEW s \in Sources, NEW o \in Outcomes, RecordOutcome(s, o)
      PROVE  StandingInv'
  <2> DEFINE line == LineOf("outcome", s, o)
             made == Rebuilt(Append(rjournal, line), s)
             after == [standing EXCEPT ![s] = made]
  <2>1. /\ rjournal' = rjournal \o <<line>> /\ pending' = after
        /\ month' = month /\ standing' = standing /\ snapshot' = snapshot
        /\ unsaved' = [unsaved EXCEPT ![s] = @ + 1] /\ withdrawn' = withdrawn
    BY <1>1 DEF RecordOutcome, Wrote
  <2>2. line \in RLines /\ line.kind = "outcome" /\ line.source = s
    BY DEF RLines, LineOf
  <2>3. <<line>> \in Seq(RLines) /\ Append(rjournal, line) = rjournal'
    BY <2>1, <2>2, <1>0
  <2>4. /\ made \in Standing /\ made.retired = RetiredFlag(s)
        /\ Counted(made) = TotalOf(rjournal', s)
    <3>0. rjournal' \in Seq(RLines)
      BY <2>2, <2>3, <1>0
    <3>1. made = Rebuilt(rjournal', s)
      BY <2>3, Zenon
    <3> HIDE DEF made
    <3>2. /\ made \in Standing /\ made.retired = RetiredFlag(s)
          /\ made.supports = Number(rjournal', s, "validated")
          /\ made.against = Number(rjournal', s, "contradicted")
      BY <3>0, <3>1, <1>0, RebuiltType
    <3> QED BY <3>2, ReliabilityAssumption DEF Counted, TotalOf
  <2>5. /\ rjournal' \in Seq(RLines) /\ rjournal' # <<>> /\ Last(rjournal') = line
    <3>1. Len(rjournal') = Len(rjournal) + 1 /\ rjournal'[Len(rjournal) + 1] = line
          /\ rjournal' \in Seq(RLines)
      BY <2>2, <2>3, <1>0
    <3> QED BY <3>1, <1>0 DEF Last
  <2> HIDE DEF line, made
  <2>6. after \in Standings /\ \A x \in Sources : after[x] = IF x = s THEN made ELSE standing[x]
    BY <1>0, <2>4 DEF Standings
  <2>7. TotalOf(rjournal', s) <= TotalOf(rjournal, s) + 1
    BY <2>1, <2>2, <1>0, OneMoreOutcome
  <2>8. \A x \in Sources \ {s} : TotalOf(rjournal', x) = TotalOf(rjournal, x)
    <3> TAKE x \in Sources \ {s}
    <3>1. \A k \in DOMAIN <<line>> : <<line>>[k].source # x
      BY <2>2
    <3>2. TotalOf(rjournal \o <<line>>, x) = TotalOf(rjournal, x)
      BY <3>1, <2>3, <1>0, OthersCountNothing
    <3> QED BY <3>2, <2>1
  <2>9. ASSUME NEW x \in Sources
        PROVE  TotalOf(rjournal', x) - Counted(standing[x]) <= unsaved'[x]
    <3>1. /\ TotalOf(rjournal', x) \in Nat /\ TotalOf(rjournal, x) \in Nat
          /\ Counted(standing[x]) \in Nat /\ unsaved[x] \in Nat
          /\ TotalOf(rjournal, x) - Counted(standing[x]) <= unsaved[x]
      BY <2>5, <1>0, TotalType, CountedType DEF Standings
    <3>2. unsaved'[x] = IF x = s THEN unsaved[x] + 1 ELSE unsaved[x]
      BY <2>1, <1>0
    <3> QED BY <3>1, <3>2, <2>7, <2>8
  <2>10. \A x \in withdrawn : after[x] # Nil /\ after[x].retired
    BY <1>0, <2>4, <2>6, ReliabilityAssumption DEF RetiredFlag
  <2>11. unsaved' \in [Sources -> Nat]
    BY <2>1, <1>0
  <2>12. \A x \in Sources :
           IF line.kind = "outcome" /\ line.source = x
           THEN Counted(after[x]) = TotalOf(rjournal', x)
           ELSE Counted(after[x]) = Counted(standing[x])
    BY <2>2, <2>4, <2>6
  <2> HIDE DEF after
  <2> QED BY <1>0, <2>1, <2>5, <2>6, <2>9, <2>10, <2>11, <2>12 DEF StandingInv
<1>2. ASSUME NEW s \in Sources, NEW retired \in BOOLEAN, SetRetired(s, retired)
      PROVE  StandingInv'
  <2> DEFINE kind == IF retired THEN "retire" ELSE "unretire"
             line == LineOf(kind, s, Nil)
             after == [standing EXCEPT ![s].retired = retired]
  <2>1. /\ Wrote(<<line>>, after) /\ unsaved' = unsaved
        /\ withdrawn' = IF retired THEN withdrawn ELSE withdrawn \ {s}
        /\ standing[s] # Nil
    BY <1>2 DEF SetRetired
  <2>2. <<line>> \in Seq(RLines) /\ line.kind # "outcome"
    BY DEF RLines, LineOf
  <2>3. standing[s] \in Standing
    BY <1>0, <2>1 DEF Standings
  <2>4. /\ [standing[s] EXCEPT !.retired = retired] \in Standing
        /\ [standing[s] EXCEPT !.retired = retired].retired = retired
        /\ Counted([standing[s] EXCEPT !.retired = retired]) = Counted(standing[s])
    BY <2>3, ReliabilityAssumption DEF Standing, Counted
  <2>5. /\ after \in Standings
        /\ \A x \in Sources : after[x] = IF x = s THEN [standing[s] EXCEPT !.retired = retired]
                                         ELSE standing[x]
    BY <1>0, <2>4 DEF Standings
  <2> HIDE DEF after, line
  <2>6. \A x \in withdrawn' : after[x] # Nil /\ after[x].retired
    BY <1>0, <2>1, <2>4, <2>5, ReliabilityAssumption
  <2>7. \A x \in Sources : Counted(after[x]) = Counted(standing[x])
    BY <2>4, <2>5
  <2>8. withdrawn' \subseteq withdrawn /\ <<line>> # <<>> /\ \A k \in DOMAIN <<line>> : <<line>>[k].kind # "outcome"
    BY <2>1, <2>2
  <2> QED BY <2>1, <2>2, <2>5, <2>6, <2>7, <2>8, QuietWrite
<1>3. CASE ApplyDecay
  <2> DEFINE after == [s \in Sources |-> IF standing[s] = Nil THEN Nil ELSE Decayed(standing[s])]
             changed == {s \in Sources : after[s] # standing[s]}
             Kind(s) == IF after[s].retired # standing[s].retired THEN "retire" ELSE "decay"
             said == {LineOf(Kind(s), s, Nil) : s \in changed}
             lines == SetToSeq(said)
  <2>1. Wrote(lines, after) /\ UNCHANGED <<withdrawn, unsaved>> /\ changed # {}
    BY <1>3 DEF ApplyDecay
  <2>2. \A s \in Sources : standing[s] = Nil \/ standing[s] \in Standing
    BY <1>0 DEF Standings
  <2>3. /\ after \in Standings
        /\ \A s \in Sources : Counted(after[s]) = Counted(standing[s])
        /\ \A s \in withdrawn' : after[s] # Nil /\ after[s].retired
    <3>1. \A s \in Sources : standing[s] # Nil =>
            /\ Decayed(standing[s]) \in Standing /\ Decayed(standing[s]) # Nil
            /\ Counted(Decayed(standing[s])) = Counted(standing[s])
            /\ standing[s].retired => Decayed(standing[s]).retired
      BY <1>0, <2>2, DecayedType, ReliabilityAssumption DEF Counted
    <3> QED BY <3>1, <1>0, <2>1 DEF Standings
  <2>4. said \subseteq {l \in RLines : l.kind # "outcome"} /\ said # {} /\ IsFiniteSet(said)
    <3>1. IsFiniteSet(changed)
      BY ReliabilityAssumption, FS_Subset
    <3> DEFINE says == [s \in changed |-> LineOf(Kind(s), s, Nil)]
    <3>2. says \in Surjection(changed, said)
      BY DEF Surjection
    <3> HIDE DEF says
    <3>3. IsFiniteSet(said)
      BY <3>1, <3>2, FS_Surjection
    <3>4. ASSUME NEW s \in changed
          PROVE  LineOf(Kind(s), s, Nil) \in RLines /\ LineOf(Kind(s), s, Nil).kind # "outcome"
      BY DEF RLines, LineOf
    <3>5. said \subseteq {l \in RLines : l.kind # "outcome"}
      BY <3>4
    <3>6. said # {}
      BY <2>1
    <3> QED BY <3>3, <3>5, <3>6
  <2> HIDE DEF after, said
  <2>5. lines \in Seq(said) /\ lines # <<>>
    BY <2>4, SetInSequence
  <2> HIDE DEF lines
  <2>6. lines \in Seq(RLines) /\ \A k \in DOMAIN lines : lines[k].kind # "outcome"
    BY <2>4, <2>5
  <2> QED BY <2>1, <2>3, <2>5, <2>6, QuietWrite
<1>4. CASE Persist
  <2>1. /\ pending # Nil /\ standing' = pending /\ snapshot' = pending /\ pending' = Nil
        /\ withdrawn' = withdrawn \cup {s \in Sources : pending[s] # Nil /\ pending[s].retired}
        /\ unsaved' = IF Last(rjournal).kind = "outcome"
                      THEN [unsaved EXCEPT ![Last(rjournal).source] = 0] ELSE unsaved
        /\ month' = month /\ rjournal' = rjournal
    BY <1>4 DEF Persist
  <2>2. /\ pending \in Standings
        /\ \A s \in withdrawn : pending[s] # Nil /\ pending[s].retired
        /\ \A s \in Sources :
             IF Last(rjournal).kind = "outcome" /\ Last(rjournal).source = s
             THEN Counted(pending[s]) = TotalOf(rjournal, s)
             ELSE Counted(pending[s]) = Counted(standing[s])
    BY <2>1 DEF StandingInv
  <2>3. unsaved' \in [Sources -> Nat]
    BY <2>1, <1>0
  <2>4. ASSUME NEW s \in Sources
        PROVE  TotalOf(rjournal, s) - Counted(pending[s]) <= unsaved'[s]
    <3>1. /\ TotalOf(rjournal, s) \in Nat /\ unsaved'[s] \in Nat
          /\ TotalOf(rjournal, s) - Counted(standing[s]) <= unsaved[s]
      BY <1>0, <2>3, TotalType
    <3>2. CASE Last(rjournal).kind = "outcome" /\ Last(rjournal).source = s
      BY <3>1, <3>2, <2>2
    <3>3. CASE ~(Last(rjournal).kind = "outcome" /\ Last(rjournal).source = s)
      <4>1. unsaved'[s] = unsaved[s]
        BY <2>1, <3>3, <1>0
      <4> QED BY <4>1, <3>1, <3>3, <2>2
    <3> QED BY <3>2, <3>3
  <2> QED BY <1>0, <2>1, <2>2, <2>3, <2>4 DEF StandingInv
<1>5. CASE Restart
  BY <1>0, <1>5 DEF StandingInv, Restart
<1>6. CASE Month
  BY <1>6 DEF StandingInv, Month
<1>7. CASE UNCHANGED reliabilityVars
  BY <1>7 DEF StandingInv, reliabilityVars
<1> QED BY <1>1, <1>2, <1>3, <1>4, <1>5, <1>6, <1>7 DEF ReliabilityNext

LEMMA StandingAlways == ReliabilitySpec => []StandingInv
<1>1. ReliabilityInit => StandingInv
  <2> SUFFICES ASSUME ReliabilityInit PROVE StandingInv
    OBVIOUS
  <2>1. /\ month = 0 /\ rjournal = <<>> /\ standing = [s \in Sources |-> Nil]
        /\ snapshot = standing /\ pending = Nil /\ withdrawn = {}
        /\ unsaved = [s \in Sources |-> 0]
    BY DEF ReliabilityInit
  <2>2. \A s : TotalOf(<<>>, s) = 0
    <3>1. \A s, o : {i \in Recent(<<>>, s) : <<>>[i].outcome = o} = {}
      BY EmptyIsSeq DEF Recent, OutcomesOf
    <3> QED BY <3>1, FS_EmptySet DEF TotalOf, Number
  <2>3. rjournal \in Seq(RLines) /\ standing \in Standings
    BY <2>1 DEF Standings
  <2>4. \A s \in Sources : Counted(standing[s]) = 0
    BY <2>1 DEF Counted
  <2> QED BY <2>1, <2>2, <2>3, <2>4 DEF StandingInv
<1> QED BY <1>1, StandingStep, PTL DEF ReliabilitySpec

\* A standing counts every outcome in its tail of the journal but those that a crash kept
\* out of the snapshot (SourceReliability._rebuild, _load_snapshot), for any sources, any
\* length of the tail and any number of crashes.
THEOREM OutcomesAreCounted == ReliabilitySpec => []LostOnlyByCrash
<1>1. StandingInv => LostOnlyByCrash
  <2> SUFFICES ASSUME StandingInv, NEW s \in Sources
               PROVE  Number(rjournal, s, "validated") + Number(rjournal, s, "contradicted")
                        - Counted(standing[s]) <= unsaved[s]
    BY DEF LostOnlyByCrash, Counted
  <2>1. TotalOf(rjournal, s) - Counted(standing[s]) <= unsaved[s]
    BY DEF StandingInv
  <2>2. /\ Number(rjournal, s, "validated") \in Nat /\ Number(rjournal, s, "contradicted") \in Nat
        /\ Counted(standing[s]) \in Nat
    BY NumberType, CountedType DEF StandingInv, Standings
  <2> QED BY <2>1, <2>2 DEF TotalOf
<1> QED BY <1>1, StandingAlways, PTL

LEMMA WeightRange ==
  ASSUME standing \in Standings, NEW b \in Sources, NEW c \in {0, 5000, 10000}
  PROVE  2 * Weight(b, c) >= c /\ Weight(b, c) <= c
<1>1. CASE ~Preferred(b)
  BY <1>1 DEF Weight
<1>2. CASE Preferred(b)
  <2> DEFINE w == IF standing[b].confidence < 5000 THEN 5000 ELSE standing[b].confidence
  <2>1. standing[b].confidence \in Confidences
    BY <1>2 DEF Preferred, Standings, Standing
  <2>2. w \in Int /\ 5000 <= w /\ w <= 10000
    <3>1. /\ standing[b].confidence \in Int
          /\ 0 <= standing[b].confidence /\ standing[b].confidence <= 10000
      BY <2>1, ConfidenceBounds
    <3> QED BY <3>1
  <2>3. Weight(b, c) = (c * w) \div 10000
    BY <1>2 DEF Weight
  <2> HIDE DEF w
  <2>4. CASE c = 0
    BY <2>2, <2>3, <2>4
  <2>5. CASE c = 5000
    BY <2>2, <2>3, <2>5
  <2>6. CASE c = 10000
    BY <2>2, <2>3, <2>6
  <2> QED BY <2>4, <2>5, <2>6
<1> QED BY <1>1, <1>2

\* Of two findings the preferred one comes first, and neither is dropped.
LEMMA RankOfTwo ==
  ASSUME standing \in Standings, NEW a \in Sources, NEW b \in Sources
  PROVE  LET ranked == Rank(<<a, b>>) IN
         /\ Range(ranked) = {a, b} /\ Len(ranked) = 2
         /\ ~Preferred(a) /\ Preferred(b) => ranked[2] = a
<1> DEFINE fs == <<a, b>>
           Key(i) == IF Preferred(fs[i]) THEN standing[fs[i]].confidence ELSE -1
           Before(i, j) == Key(i) > Key(j) \/ (Key(i) = Key(j) /\ i < j)
           Place(i) == 1 + Cardinality({j \in DOMAIN fs : Before(j, i)})
           ranked == [k \in DOMAIN fs |-> fs[CHOOSE i \in DOMAIN fs : Place(i) = k]]
<1>1. Rank(fs) = ranked
  BY DEF Rank
<1>2. DOMAIN fs = {1, 2} /\ fs[1] = a /\ fs[2] = b
  OBVIOUS
<1>3. /\ Key(1) \in Int /\ Key(2) \in Int
      /\ ~Preferred(a) /\ Preferred(b) => Key(1) < Key(2)
  <2>1. \A s \in Sources : Preferred(s) => standing[s].confidence \in Int /\ standing[s].confidence >= 0
    <3>1. \A s \in Sources : Preferred(s) => standing[s].confidence \in Confidences
      BY DEF Preferred, Standings, Standing
    <3> QED BY <3>1, ConfidenceBounds
  <2> QED BY <1>2, <2>1
<1> HIDE DEF Key, fs
<1>4. /\ ~Before(1, 1) /\ ~Before(2, 2) /\ (Before(1, 2) <=> ~Before(2, 1))
      /\ ~Preferred(a) /\ Preferred(b) => Before(2, 1)
  BY <1>3
<1> HIDE DEF Before
<1>5. CASE Before(1, 2)
  <2>1. {j \in DOMAIN fs : Before(j, 1)} = {} /\ {j \in DOMAIN fs : Before(j, 2)} = {1}
    BY <1>2, <1>4, <1>5
  <2>2. Place(1) = 1 /\ Place(2) = 2
    BY <2>1, FS_EmptySet, FS_Singleton
  <2> HIDE DEF Place
  <2>3. ranked = <<a, b>>
    BY <1>2, <2>2
  <2> QED BY <1>1, <1>4, <1>5, <2>3 DEF Range, fs
<1>6. CASE Before(2, 1)
  <2>1. {j \in DOMAIN fs : Before(j, 1)} = {2} /\ {j \in DOMAIN fs : Before(j, 2)} = {}
    BY <1>2, <1>4, <1>6
  <2>2. Place(1) = 2 /\ Place(2) = 1
    <3>1. Cardinality({2}) = 1 /\ Cardinality({}) = 0
      BY FS_EmptySet, FS_Singleton
    <3> QED BY <2>1, <3>1
  <2> HIDE DEF Place
  <2>3. ranked = <<b, a>>
    BY <1>2, <2>2
  <2> QED BY <1>1, <1>4, <1>6, <2>3 DEF Range, fs
<1> QED BY <1>4, <1>5, <1>6

\* What was withdrawn is preferred to nothing and dropped nowhere, whatever is recorded
\* later, until it is brought back (retire_to_neutral, apply_decay, rank_findings).
THEOREM WithdrawnStaysBehind == ReliabilitySpec => []WithdrawnNotPreferred
<1>1. StandingInv => WithdrawnNotPreferred
  <2> SUFFICES ASSUME StandingInv PROVE WithdrawnNotPreferred
    OBVIOUS
  <2>1. standing \in Standings /\ withdrawn \subseteq Sources /\ \A a \in withdrawn : ~Preferred(a)
    BY DEF StandingInv, Preferred
  <2>2. ASSUME NEW a \in withdrawn, NEW b \in Sources
        PROVE  ComesAfter(a, b)
    <3>1. /\ Range(Rank(<<a, b>>)) = {a, b} /\ Len(Rank(<<a, b>>)) = 2
          /\ Preferred(b) => Rank(<<a, b>>)[2] = a
      BY <2>1, RankOfTwo
    <3> QED BY <3>1 DEF ComesAfter
  <2>3. ASSUME NEW b \in Sources, NEW c \in {0, 5000, 10000}
        PROVE  2 * Weight(b, c) >= c /\ Weight(b, c) <= c
    BY <2>1, WeightRange
  <2> QED BY <2>2, <2>3 DEF WithdrawnNotPreferred
<1> QED BY <1>1, StandingAlways, PTL

=============================================================================
