--------------------------- MODULE ExecutiveProofs ---------------------------
(* What the plan operators return and preserve, and what holds of the executive *)
(* for every number of tasks, plans and crashes.                                *)
EXTENDS Executive, WellFoundedInduction, TLAPS

-----------------------------------------------------------------------------
(* Sets of numbers have a least member, and bounded ones a greatest. *)

LEMMA LeastNat ==
  ASSUME NEW S \in SUBSET Nat, S # {}
  PROVE  \E x \in S : \A y \in S : x <= y
<1>1. PICK x \in S : \A y \in S : <<y, x>> \notin OpToRel(<, Nat)
  BY NatLessThanWellFounded, WFMin
<1>2. \A y \in S : ~(y < x)
  BY <1>1 DEF OpToRel
<1> QED BY <1>2

LEMMA GreatestNat ==
  ASSUME NEW S \in SUBSET Nat, S # {}, NEW n \in Nat, \A y \in S : y <= n
  PROVE  \E x \in S : \A y \in S : y <= x
<1> DEFINE Below == {n - y : y \in S}
<1>1. Below \in SUBSET Nat /\ Below # {}
  <2>1. \A y \in S : y \in Nat /\ n - y \in Nat
    OBVIOUS
  <2> QED BY <2>1
<1> HIDE DEF Below
<1>2. PICK b \in Below : \A c \in Below : b <= c
  BY <1>1, LeastNat
<1>3. PICK x \in S : b = n - x
  BY DEF Below
<1>4. \A y \in S : n - x <= n - y
  BY <1>2, <1>3 DEF Below
<1> QED BY <1>4

-----------------------------------------------------------------------------

\* Setting the status of a step keeps a plan a plan, of the same steps.
LEMMA SetStatusType ==
  ASSUME NEW plan \in Plan, NEW i \in DOMAIN plan, NEW s \in StepStatus
  PROVE  /\ SetStatus(plan, i, s) \in Plan
         /\ DOMAIN SetStatus(plan, i, s) = DOMAIN plan
         /\ Len(SetStatus(plan, i, s)) = Len(plan)
         /\ \A j \in DOMAIN plan :
              /\ SetStatus(plan, i, s)[j].uid = plan[j].uid
              /\ SetStatus(plan, i, s)[j].status = IF j = i THEN s ELSE plan[j].status
              /\ SetStatus(plan, i, s)[j].deps = plan[j].deps
              /\ SetStatus(plan, i, s)[j].needs = plan[j].needs
<1>1. Len(plan) \in Nat /\ DOMAIN plan = 1 .. Len(plan) /\ plan[i] \in Step
  BY DEF Plan
<1>2. [plan[i] EXCEPT !.status = s] \in Step
  BY <1>1 DEF Step
<1>3. SetStatus(plan, i, s) = [plan EXCEPT ![i] = [plan[i] EXCEPT !.status = s]]
  BY <1>1 DEF SetStatus
<1>4. LET new == [plan[i] EXCEPT !.status = s] IN
        /\ new.uid = plan[i].uid /\ new.status = s
        /\ new.deps = plan[i].deps /\ new.needs = plan[i].needs
  BY <1>1 DEF Step
<1>5. SetStatus(plan, i, s) \in Plan /\ Len(SetStatus(plan, i, s)) = Len(plan)
  BY <1>2, <1>3 DEF Plan
<1>6. QED
  BY <1>1, <1>3, <1>4, <1>5

\* Inserting n repairs behind step i of a plan yields a plan of n more steps: the
\* old steps in their old order, i at its place, and n PENDING ones.
LEMMA InsertRepairType ==
  ASSUME NEW plan \in Plan, NEW i \in DOMAIN plan, NEW n \in Nat
  PROVE  /\ InsertRepairAfter(plan, i, n) \in Plan
         /\ Len(InsertRepairAfter(plan, i, n)) = Len(plan) + n
         /\ DOMAIN InsertRepairAfter(plan, i, n) = 1 .. (Len(plan) + n)
         /\ \A j \in 1 .. i :
              /\ InsertRepairAfter(plan, i, n)[j] = plan[j]
         /\ \A j \in (i + 1) .. (i + n) :
              InsertRepairAfter(plan, i, n)[j].status = "pending"
         /\ \A j \in (i + n + 1) .. (Len(plan) + n) :
              /\ j - n \in DOMAIN plan
              /\ InsertRepairAfter(plan, i, n)[j].uid = plan[j - n].uid
              /\ InsertRepairAfter(plan, i, n)[j].status = plan[j - n].status
<1> DEFINE new == InsertRepairAfter(plan, i, n)
<1>1. Len(plan) \in Nat /\ DOMAIN plan = 1 .. Len(plan) /\ \A j \in 1 .. Len(plan) : plan[j] \in Step
  BY DEF Plan
<1>2. ASSUME NEW j \in 1 .. (Len(plan) + n)
      PROVE  /\ new[j] \in Step
             /\ j <= i => new[j] = plan[j]
             /\ j > i /\ j <= i + n => new[j].status = "pending"
             /\ j > i + n => /\ j - n \in DOMAIN plan
                             /\ new[j].uid = plan[j - n].uid
                             /\ new[j].status = plan[j - n].status
  <2>1. CASE j <= i
    <3>1. new[j] = plan[j]
      BY <2>1 DEF InsertRepairAfter
    <3>2. QED
      BY <1>1, <2>1, <3>1
  <2>2. CASE j > i /\ j <= i + n
    <3>1. new[j] = RepairStep(plan, i, j - i)
      BY <1>1, <2>2 DEF InsertRepairAfter
    <3>2. RepairStep(plan, i, j - i) \in Step /\ RepairStep(plan, i, j - i).status = "pending"
      BY <1>1, <2>2 DEF RepairStep, Step, StepStatus
    <3>3. QED
      BY <1>1, <2>2, <3>1, <3>2
  <2>3. CASE j > i + n
    <3>1. j - n \in 1 .. Len(plan)
      BY <1>1, <2>3
    <3>2. new[j] = [plan[j - n] EXCEPT !.deps = ShiftDeps(@, i, n)]
      BY <1>1, <2>3 DEF InsertRepairAfter
    <3>3. plan[j - n] \in Step
      BY <1>1, <3>1
    <3>4. ShiftDeps(plan[j - n].deps, i, n) \subseteq Nat
      BY <1>1, <3>3 DEF ShiftDeps, Step
    <3>5. QED
      BY <1>1, <2>3, <3>1, <3>2, <3>3, <3>4 DEF Step
  <2>4. QED
    BY <1>1, <2>1, <2>2, <2>3
<1>3. new = [j \in 1 .. (Len(plan) + n) |-> new[j]]
  BY DEF InsertRepairAfter
<1>4. new \in Plan /\ Len(new) = Len(plan) + n /\ DOMAIN new = 1 .. (Len(plan) + n)
  <2>1. new \in [1 .. (Len(plan) + n) -> Step]
    BY <1>2, <1>3
  <2>2. QED
    BY <1>1, <2>1 DEF Plan
<1>5. QED
  BY <1>1, <1>2, <1>4

\* The rewiring leaves every step but the failed one as it was inserted, and the
\* failed one PENDING.
LEMMA RewireType ==
  ASSUME NEW plan \in Plan, NEW i \in DOMAIN plan, NEW n \in Nat
  PROVE  /\ Repaired(plan, i, n) \in Plan
         /\ DOMAIN Repaired(plan, i, n) = 1 .. (Len(plan) + n)
         /\ Repaired(plan, i, n)[i].status = "pending"
         /\ \A j \in 1 .. (Len(plan) + n) :
              j # i => Repaired(plan, i, n)[j] = InsertRepairAfter(plan, i, n)[j]
<1> DEFINE mid == InsertRepairAfter(plan, i, n)
           new == Repaired(plan, i, n)
           failed == [mid[i] EXCEPT !.status = "pending", !.deps = {i + n},
                                    !.needs = @ \cup ((Len(mid) - n + 1) .. Len(mid))]
<1>1. Len(plan) \in Nat /\ DOMAIN plan = 1 .. Len(plan) /\ i \in 1 .. Len(plan)
  BY DEF Plan
<1>2. mid \in Plan /\ Len(mid) = Len(plan) + n /\ DOMAIN mid = 1 .. (Len(plan) + n)
  BY InsertRepairType
<1>3. i \in DOMAIN mid /\ mid[i] \in Step
  BY <1>1, <1>2 DEF Plan
<1>4. failed \in Step
  <2>1. {i + n} \subseteq Nat
    BY <1>1
  <2>2. mid[i].needs \cup ((Len(mid) - n + 1) .. Len(mid)) \subseteq Nat
    BY <1>1, <1>2, <1>3 DEF Step
  <2>3. QED
    BY <1>3, <2>1, <2>2 DEF Step, StepStatus
<1>5. new = [mid EXCEPT ![i] = failed]
  BY <1>2, <1>3 DEF Repaired, RewireFailed, Plan, Step
<1>6. QED
  BY <1>2, <1>3, <1>4, <1>5 DEF Plan, Step

\* Every DONE step of the plan a repair verdict saves is a DONE step of the plan it
\* was made from.
LEMMA RepairedDone ==
  ASSUME NEW plan \in Plan, NEW i \in DOMAIN plan, NEW n \in Nat
  PROVE  \A j \in DOMAIN Repaired(plan, i, n) :
           Repaired(plan, i, n)[j].status = "done" =>
             \E k \in DOMAIN plan :
               plan[k].status = "done" /\ plan[k].uid = Repaired(plan, i, n)[j].uid
<1> DEFINE mid == InsertRepairAfter(plan, i, n)
           new == Repaired(plan, i, n)
<1>1. Len(plan) \in Nat /\ DOMAIN plan = 1 .. Len(plan) /\ i \in 1 .. Len(plan)
  BY DEF Plan
<1>2. /\ \A j \in 1 .. i : mid[j] = plan[j]
      /\ \A j \in (i + 1) .. (i + n) : mid[j].status = "pending"
      /\ \A j \in (i + n + 1) .. (Len(plan) + n) :
           /\ j - n \in DOMAIN plan
           /\ mid[j].uid = plan[j - n].uid
           /\ mid[j].status = plan[j - n].status
  BY InsertRepairType
<1>3. /\ DOMAIN new = 1 .. (Len(plan) + n)
      /\ new[i].status = "pending"
      /\ \A j \in 1 .. (Len(plan) + n) : j # i => new[j] = mid[j]
  BY RewireType
<1>4. SUFFICES ASSUME NEW j \in DOMAIN new, new[j].status = "done"
               PROVE  \E k \in DOMAIN plan : plan[k].status = "done" /\ plan[k].uid = new[j].uid
  OBVIOUS
<1>5. j \in 1 .. (Len(plan) + n) /\ j # i /\ new[j] = mid[j]
  BY <1>3, <1>4
<1>6. CASE j <= i
  <2>1. mid[j] = plan[j] /\ j \in DOMAIN plan
    BY <1>1, <1>2, <1>5, <1>6
  <2>2. QED
    BY <1>4, <1>5, <2>1
<1>7. CASE j > i
  <2>1. j > i + n
    BY <1>1, <1>2, <1>4, <1>5, <1>7
  <2>2. j - n \in DOMAIN plan /\ mid[j].uid = plan[j - n].uid /\ mid[j].status = plan[j - n].status
    BY <1>1, <1>2, <1>5, <2>1
  <2>3. QED
    BY <1>4, <1>5, <2>2
<1>8. QED
  BY <1>1, <1>5, <1>6, <1>7

-----------------------------------------------------------------------------
(* A plan says what has succeeded. *)

\* The steps of a plan are told apart by their uids, none above its length.
Numbered(plan) ==
  /\ \A i \in DOMAIN plan : plan[i].uid \in 1 .. Len(plan)
  /\ \A i, j \in DOMAIN plan : plan[i].uid = plan[j].uid => i = j

\* A plan says of a task exactly what has succeeded.
Faithful(plan, done) ==
  /\ plan # << >>
  /\ Numbered(plan)
  /\ done \subseteq 1 .. Len(plan)
  /\ \A i \in DOMAIN plan : plan[i].status = "done" <=> plan[i].uid \in done

\* A step that has not succeeded and is not said to have goes on being so.
LEMMA FaithfulUndone ==
  ASSUME NEW plan \in Plan, NEW i \in DOMAIN plan, NEW s \in StepStatus \ {"done"}, NEW done,
         Faithful(plan, done), plan[i].status # "done"
  PROVE  Faithful(SetStatus(plan, i, s), done)
<1> DEFINE new == SetStatus(plan, i, s)
<1>1. /\ new \in Plan /\ DOMAIN new = DOMAIN plan /\ Len(new) = Len(plan)
      /\ \A j \in DOMAIN plan : /\ new[j].uid = plan[j].uid
                              /\ new[j].status = IF j = i THEN s ELSE plan[j].status
  BY SetStatusType
<1> HIDE DEF new
<1>2. Numbered(new)
  BY <1>1 DEF Faithful, Numbered
<1>3. new # << >>
  BY <1>1
<1> QED BY <1>1, <1>2, <1>3 DEF Faithful, new

\* A step that succeeds is marked, and no other one is.
LEMMA FaithfulDone ==
  ASSUME NEW plan \in Plan, NEW i \in DOMAIN plan, NEW done, Faithful(plan, done)
  PROVE  Faithful(SetStatus(plan, i, "done"), done \cup {plan[i].uid})
<1> DEFINE new == SetStatus(plan, i, "done")
<1>1. /\ new \in Plan /\ DOMAIN new = DOMAIN plan /\ Len(new) = Len(plan)
      /\ \A j \in DOMAIN plan : /\ new[j].uid = plan[j].uid
                              /\ new[j].status = IF j = i THEN "done" ELSE plan[j].status
  BY SetStatusType DEF StepStatus
<1> HIDE DEF new
<1>2. Numbered(new)
  BY <1>1 DEF Faithful, Numbered
<1>3. new # << >>
  BY <1>1
<1>4. \A j \in DOMAIN new : new[j].status = "done" <=> new[j].uid \in done \cup {plan[i].uid}
  BY <1>1 DEF Faithful, Numbered
<1>5. done \cup {plan[i].uid} \subseteq 1 .. Len(new)
  BY <1>1 DEF Faithful, Numbered
<1> QED BY <1>2, <1>3, <1>4, <1>5 DEF Faithful, new

\* The uid and the status of every step of a repaired plan.
LEMMA RepairedSteps ==
  ASSUME NEW plan \in Plan, NEW i \in DOMAIN plan, NEW n \in Nat, NEW j \in 1 .. (Len(plan) + n)
  PROVE  /\ j <= i => Repaired(plan, i, n)[j].uid = plan[j].uid
         /\ j < i => Repaired(plan, i, n)[j].status = plan[j].status
         /\ j > i /\ j <= i + n => /\ Repaired(plan, i, n)[j].uid = Len(plan) + (j - i)
                                   /\ Repaired(plan, i, n)[j].status = "pending"
         /\ j > i + n => /\ j - n \in DOMAIN plan
                         /\ Repaired(plan, i, n)[j].uid = plan[j - n].uid
                         /\ Repaired(plan, i, n)[j].status = plan[j - n].status
<1> DEFINE mid == InsertRepairAfter(plan, i, n)
           new == Repaired(plan, i, n)
<1>1. Len(plan) \in Nat /\ DOMAIN plan = 1 .. Len(plan) /\ i \in 1 .. Len(plan)
  BY DEF Plan
<1>2. /\ \A k \in 1 .. i : mid[k] = plan[k]
      /\ \A k \in (i + 1) .. (i + n) : mid[k].status = "pending"
      /\ \A k \in (i + n + 1) .. (Len(plan) + n) :
           /\ k - n \in DOMAIN plan
           /\ mid[k].uid = plan[k - n].uid
           /\ mid[k].status = plan[k - n].status
      /\ mid \in Plan /\ Len(mid) = Len(plan) + n /\ DOMAIN mid = 1 .. (Len(plan) + n)
  BY InsertRepairType
<1>3. \A k \in 1 .. (Len(plan) + n) : k # i => new[k] = mid[k]
  BY RewireType
<1>4. new[i].uid = mid[i].uid
  <2>1. i \in DOMAIN mid /\ mid[i] \in Step
    BY <1>1, <1>2 DEF Plan
  <2> HIDE DEF mid
  <2> QED BY <1>2, <2>1 DEF Repaired, RewireFailed, Step, Plan, mid
<1>5. ASSUME j > i, j <= i + n PROVE new[j].uid = Len(plan) + (j - i)
  <2>1. new[j] = mid[j]
    BY <1>1, <1>3, <1>5
  <2>2. mid[j] = RepairStep(plan, i, j - i)
    BY <1>1, <1>5 DEF InsertRepairAfter
  <2> QED BY <2>1, <2>2 DEF RepairStep
<1>6. j <= i => new[j].uid = plan[j].uid
  BY <1>1, <1>2, <1>3, <1>4
<1>7. j < i => new[j].status = plan[j].status
  BY <1>1, <1>2, <1>3
<1>8. j > i /\ j <= i + n => new[j].status = "pending"
  BY <1>1, <1>2, <1>3
<1>9. j > i + n => /\ j - n \in DOMAIN plan /\ new[j].uid = plan[j - n].uid
                   /\ new[j].status = plan[j - n].status
  BY <1>1, <1>2, <1>3
<1> QED BY <1>5, <1>6, <1>7, <1>8, <1>9

\* Repairs are new steps, and what was done stays done.
LEMMA FaithfulRepaired ==
  ASSUME NEW plan \in Plan, NEW i \in DOMAIN plan, NEW n \in Nat, NEW done,
         Faithful(plan, done), plan[i].status # "done"
  PROVE  Faithful(Repaired(plan, i, n), done)
<1> DEFINE new == Repaired(plan, i, n)
<1>1. Len(plan) \in Nat /\ DOMAIN plan = 1 .. Len(plan) /\ i \in 1 .. Len(plan)
  BY DEF Plan
<1>2. /\ new \in Plan /\ DOMAIN new = 1 .. (Len(plan) + n) /\ Len(new) = Len(plan) + n
      /\ new[i].status = "pending"
  <2>1. new \in Plan /\ DOMAIN new = 1 .. (Len(plan) + n) /\ new[i].status = "pending"
    BY RewireType
  <2> HIDE DEF new
  <2>2. Len(new) = Len(plan) + n
    BY <1>1, <2>1 DEF Plan
  <2> QED BY <2>1, <2>2
<1>3. \A j \in DOMAIN plan : plan[j].uid \in 1 .. Len(plan)
  BY DEF Faithful, Numbered
<1>4. \A j \in DOMAIN new :
        /\ j <= i => j \in DOMAIN plan /\ new[j].uid = plan[j].uid
        /\ j < i => new[j].status = plan[j].status
        /\ j > i /\ j <= i + n => new[j].uid = Len(plan) + (j - i) /\ new[j].status = "pending"
        /\ j > i + n => /\ j - n \in DOMAIN plan /\ new[j].uid = plan[j - n].uid
                        /\ new[j].status = plan[j - n].status
  <2> SUFFICES ASSUME NEW j \in 1 .. (Len(plan) + n)
               PROVE  /\ j <= i => j \in DOMAIN plan /\ new[j].uid = plan[j].uid
                      /\ j < i => new[j].status = plan[j].status
                      /\ j > i /\ j <= i + n => new[j].uid = Len(plan) + (j - i) /\ new[j].status = "pending"
                      /\ j > i + n => /\ j - n \in DOMAIN plan /\ new[j].uid = plan[j - n].uid
                                      /\ new[j].status = plan[j - n].status
    BY <1>2
  <2>1. j <= i => j \in DOMAIN plan
    BY <1>1
  <2> QED BY <2>1, RepairedSteps
<1> HIDE DEF new
<1>5. \A j \in DOMAIN new : new[j].uid \in 1 .. (Len(plan) + n)
  BY <1>1, <1>2, <1>3, <1>4
<1>6. ASSUME NEW j \in DOMAIN new, NEW k \in DOMAIN new, new[j].uid = new[k].uid
      PROVE  j = k
  <2> DEFINE old(m) == IF m <= i THEN m ELSE m - n
  <2>1. CASE (j <= i \/ j > i + n) /\ (k <= i \/ k > i + n)
    <3>1. old(j) \in DOMAIN plan /\ old(k) \in DOMAIN plan /\ plan[old(j)].uid = plan[old(k)].uid
      BY <1>1, <1>2, <1>4, <1>6, <2>1
    <3>2. old(j) = old(k)
      BY <3>1 DEF Faithful, Numbered
    <3> QED BY <1>1, <1>2, <2>1, <3>2
  <2>2. \A m \in DOMAIN new : m <= i \/ m > i + n => new[m].uid \in 1 .. Len(plan)
    BY <1>1, <1>2, <1>3, <1>4
  <2>3. \A m \in DOMAIN new : ~(m <= i \/ m > i + n) => new[m].uid = Len(plan) + (m - i) /\ m - i > 0
    BY <1>1, <1>2, <1>4
  <2>4. CASE ~(j <= i \/ j > i + n) /\ ~(k <= i \/ k > i + n)
    <3>1. Len(plan) + (j - i) = Len(plan) + (k - i)
      BY <1>6, <2>3, <2>4
    <3> QED BY <1>1, <1>2, <3>1
  <2>5. CASE (j <= i \/ j > i + n) # (k <= i \/ k > i + n)
    BY <1>1, <1>2, <1>6, <2>2, <2>3, <2>5
  <2> QED BY <2>1, <2>4, <2>5
<1>7. ASSUME NEW j \in DOMAIN new
      PROVE  new[j].status = "done" <=> new[j].uid \in done
  <2>1. CASE j < i \/ j > i + n
    BY <1>1, <1>2, <1>4, <2>1 DEF Faithful
  <2>2. CASE j = i
    BY <1>1, <1>2, <1>4, <2>2 DEF Faithful
  <2>3. CASE j > i /\ j <= i + n
    BY <1>1, <1>2, <1>4, <2>3 DEF Faithful
  <2> QED BY <1>1, <1>2, <2>1, <2>2, <2>3
<1>8. new # << >> /\ done \subseteq 1 .. Len(new)
  BY <1>1, <1>2 DEF Faithful
<1> QED BY <1>2, <1>5, <1>6, <1>7, <1>8 DEF Faithful, Numbered, new

-----------------------------------------------------------------------------
(* No step runs before what it needs, and a plan never waits for itself. *)

\* Every step waits for earlier steps, or for the repair right behind it, which waits
\* for nothing or for its own repair; and what it needs is done or waited for.
Wired(plan) ==
  \A i \in DOMAIN plan :
    /\ \/ plan[i].deps \subseteq 1 .. (i - 1)
       \/ /\ plan[i].deps = {i + 1}
          /\ i + 1 \in DOMAIN plan
          /\ plan[i + 1].deps \in {{}, {i + 2}}
    /\ \A u \in plan[i].needs :
         \E d \in DOMAIN plan : plan[d].uid = u /\ (plan[d].status = "done" \/ d \in plan[i].deps)

LEMMA WiredEmpty == Wired(<< >>)
BY DEF Wired

\* A step that is not done may become anything.
LEMMA WiredStatus ==
  ASSUME NEW plan \in Plan, NEW i \in DOMAIN plan, NEW s \in StepStatus,
         Wired(plan), plan[i].status # "done"
  PROVE  Wired(SetStatus(plan, i, s))
<1> DEFINE new == SetStatus(plan, i, s)
<1>1. /\ DOMAIN new = DOMAIN plan
      /\ \A j \in DOMAIN plan :
           /\ new[j].uid = plan[j].uid /\ new[j].deps = plan[j].deps /\ new[j].needs = plan[j].needs
           /\ plan[j].status = "done" => new[j].status = "done"
  BY SetStatusType
<1> HIDE DEF new
<1>2. SUFFICES Wired(new)
  BY DEF new
<1> QED BY <1>1 DEF Wired

\* What the failed step waits for and needs once it is rewired.
LEMMA RewiredLinks ==
  ASSUME NEW mid \in Plan, NEW i \in DOMAIN mid, NEW n \in Nat
  PROVE  /\ RewireFailed(mid, i, n)[i].deps = {i + n}
         /\ RewireFailed(mid, i, n)[i].needs = mid[i].needs \cup ((Len(mid) - n + 1) .. Len(mid))
<1>1. mid[i] \in Step
  BY DEF Plan
<1>2. RewireFailed(mid, i, n)[i] =
        [mid[i] EXCEPT !.status = "pending", !.deps = {i + n},
                       !.needs = @ \cup ((Len(mid) - n + 1) .. Len(mid))]
  BY <1>1 DEF RewireFailed, Step, Plan
<1> QED BY <1>1, <1>2 DEF Step

\* The steps of a plan one repair was put into.
LEMMA RepairedLinks ==
  ASSUME NEW plan \in Plan, NEW i \in DOMAIN plan
  PROVE  \A j \in 1 .. (Len(plan) + 1) :
           /\ j < i => Repaired(plan, i, 1)[j] = plan[j]
           /\ j = i => /\ Repaired(plan, i, 1)[j].deps = {i + 1}
                       /\ Repaired(plan, i, 1)[j].needs = plan[i].needs \cup {Len(plan) + 1}
           /\ j = i + 1 => /\ Repaired(plan, i, 1)[j].uid = Len(plan) + 1
                           /\ Repaired(plan, i, 1)[j].deps = {}
                           /\ Repaired(plan, i, 1)[j].needs = {}
           /\ j > i + 1 => /\ Repaired(plan, i, 1)[j].deps = ShiftDeps(plan[j - 1].deps, i, 1)
                           /\ Repaired(plan, i, 1)[j].needs = plan[j - 1].needs
<1> TAKE j \in 1 .. (Len(plan) + 1)
<1> DEFINE mid == InsertRepairAfter(plan, i, 1)
           new == Repaired(plan, i, 1)
<1>1. Len(plan) \in Nat /\ DOMAIN plan = 1 .. Len(plan) /\ i \in 1 .. Len(plan)
  BY DEF Plan
<1>2. /\ mid \in Plan /\ Len(mid) = Len(plan) + 1 /\ DOMAIN mid = 1 .. (Len(plan) + 1)
      /\ \A k \in 1 .. i : mid[k] = plan[k]
  BY InsertRepairType
<1>3. \A k \in 1 .. (Len(plan) + 1) : k # i => new[k] = mid[k]
  BY RewireType
<1>4. CASE j < i
  BY <1>1, <1>2, <1>3, <1>4
<1>5. CASE j = i
  <2>1. i \in DOMAIN mid /\ mid[i] = plan[i] /\ new = RewireFailed(mid, i, 1)
    BY <1>1, <1>2 DEF Repaired
  <2> HIDE DEF mid, new
  <2>2. /\ new[i].deps = {i + 1}
        /\ new[i].needs = plan[i].needs \cup ((Len(mid) - 1 + 1) .. Len(mid))
    <3>1. 1 \in Nat /\ mid \in Plan
      BY <1>2
    <3>2. /\ RewireFailed(mid, i, 1)[i].deps = {i + 1}
          /\ RewireFailed(mid, i, 1)[i].needs = mid[i].needs \cup ((Len(mid) - 1 + 1) .. Len(mid))
      BY <2>1, <3>1, RewiredLinks
    <3> QED BY <2>1, <3>2
  <2>3. (Len(mid) - 1 + 1) .. Len(mid) = {Len(plan) + 1}
    BY <1>1, <1>2
  <2> QED BY <1>5, <2>2, <2>3 DEF new
<1>6. CASE j = i + 1
  <2>1. mid[j] = RepairStep(plan, i, j - i)
    BY <1>1, <1>6 DEF InsertRepairAfter
  <2>2. new[j] = mid[j]
    BY <1>1, <1>3, <1>6
  <2>3. j - i = 1
    BY <1>1, <1>6
  <2> HIDE DEF mid, new
  <2>4. new[j] = RepairStep(plan, i, 1)
    BY <2>1, <2>2, <2>3
  <2> QED BY <1>1, <1>6, <2>4 DEF RepairStep, new
<1>7. CASE j > i + 1
  <2>0. mid[j] = [plan[j - 1] EXCEPT !.deps = ShiftDeps(@, i, 1)]
    BY <1>1, <1>7 DEF InsertRepairAfter
  <2>1. new[j] = [plan[j - 1] EXCEPT !.deps = ShiftDeps(@, i, 1)]
    BY <1>1, <1>3, <1>7, <2>0
  <2>2. plan[j - 1] \in Step
    BY <1>1, <1>7 DEF Plan
  <2>3. /\ new[j].deps = ShiftDeps(plan[j - 1].deps, i, 1)
        /\ new[j].needs = plan[j - 1].needs
    BY <2>1, <2>2 DEF Step
  <2> QED BY <1>1, <1>7, <2>3
<1> QED BY <1>1, <1>4, <1>5, <1>6, <1>7

\* A single repair of a step that was ready keeps a plan wired.
LEMMA WiredRepaired ==
  ASSUME NEW plan \in Plan, NEW i \in DOMAIN plan, i \in ReadySteps(plan), Wired(plan)
  PROVE  Wired(Repaired(plan, i, 1))
<1> DEFINE new == Repaired(plan, i, 1)
           pos(d) == IF d > i THEN d + 1 ELSE d
<1>1. /\ Len(plan) \in Nat /\ DOMAIN plan = 1 .. Len(plan) /\ i \in 1 .. Len(plan)
      /\ plan[i].status = "pending" /\ plan[i].deps \subseteq DoneAt(plan)
      /\ \A k \in DOMAIN plan : plan[k].deps \subseteq Nat
  <2>1. \A k \in DOMAIN plan : plan[k] \in Step
    BY DEF Plan
  <2> QED BY <2>1 DEF Plan, ReadySteps, Step
<1>2. DOMAIN new = 1 .. (Len(plan) + 1)
  BY RewireType
<1>0. i \in 1 .. (Len(plan) + 1) /\ i + 1 \in 1 .. (Len(plan) + 1)
  BY <1>1
<1>3. /\ \A j \in 1 .. (Len(plan) + 1) : j < i => new[j] = plan[j]
      /\ new[i].deps = {i + 1} /\ new[i].needs = plan[i].needs \cup {Len(plan) + 1}
      /\ new[i + 1].uid = Len(plan) + 1 /\ new[i + 1].deps = {} /\ new[i + 1].needs = {}
      /\ \A j \in 1 .. (Len(plan) + 1) :
           j > i + 1 => /\ new[j].deps = ShiftDeps(plan[j - 1].deps, i, 1)
                        /\ new[j].needs = plan[j - 1].needs
  <2> HIDE DEF new
  <2>1. \A j \in 1 .. (Len(plan) + 1) :
          /\ j < i => new[j] = plan[j]
          /\ j = i => new[j].deps = {i + 1} /\ new[j].needs = plan[i].needs \cup {Len(plan) + 1}
          /\ j = i + 1 => new[j].uid = Len(plan) + 1 /\ new[j].deps = {} /\ new[j].needs = {}
          /\ j > i + 1 => /\ new[j].deps = ShiftDeps(plan[j - 1].deps, i, 1)
                          /\ new[j].needs = plan[j - 1].needs
    BY RepairedLinks DEF new
  <2> QED BY <1>1, <1>0, <2>1
<1>4. \A d \in DOMAIN plan :
        /\ pos(d) \in DOMAIN new /\ new[pos(d)].uid = plan[d].uid
        /\ plan[d].status = "done" => new[pos(d)].status = "done"
  <2> SUFFICES ASSUME NEW d \in DOMAIN plan
               PROVE  /\ pos(d) \in DOMAIN new /\ new[pos(d)].uid = plan[d].uid
                      /\ plan[d].status = "done" => new[pos(d)].status = "done"
    OBVIOUS
  <2>1. pos(d) \in 1 .. (Len(plan) + 1) /\ d \in 1 .. Len(plan)
    BY <1>1
  <2>2. CASE d <= i
    <3>1. pos(d) = d /\ d \in 1 .. (Len(plan) + 1) /\ 1 \in Nat
      BY <1>1, <2>2
    <3>2. new[d].uid = plan[d].uid /\ (d < i => new[d].status = plan[d].status)
      BY <2>2, <3>1, RepairedSteps
    <3> QED BY <1>1, <1>2, <2>2, <3>1, <3>2
  <2>3. CASE d > i
    <3>1. pos(d) > i + 1 /\ pos(d) - 1 = d
      BY <1>1, <2>1, <2>3
    <3> HIDE DEF pos
    <3>2. new[pos(d)].uid = plan[pos(d) - 1].uid /\ new[pos(d)].status = plan[pos(d) - 1].status
      <4>1. 1 \in Nat
        OBVIOUS
      <4> QED BY <1>1, <2>1, <3>1, <4>1, RepairedSteps
    <3> QED BY <1>2, <2>1, <3>1, <3>2
  <2> QED BY <1>1, <2>1, <2>2, <2>3
<1> HIDE DEF new
\* Where what a step needs was done or waited for, it still is.
<1>5. ASSUME NEW k \in DOMAIN plan, NEW t \in 1 .. (Len(plan) + 1), NEW u \in plan[k].needs,
             \A d \in plan[k].deps : plan[d].status = "done" \/ pos(d) \in new[t].deps
      PROVE  \E d \in DOMAIN new :
               new[d].uid = u /\ (new[d].status = "done" \/ d \in new[t].deps)
  <2>1. PICK d \in DOMAIN plan : plan[d].uid = u /\ (plan[d].status = "done" \/ d \in plan[k].deps)
    BY <1>5 DEF Wired
  <2>2. pos(d) \in DOMAIN new /\ new[pos(d)].uid = u
        /\ (new[pos(d)].status = "done" \/ pos(d) \in new[t].deps)
    BY <1>4, <1>5, <2>1
  <2> HIDE DEF pos
  <2> QED BY <2>2
<1> SUFFICES ASSUME NEW j \in 1 .. (Len(plan) + 1)
             PROVE  /\ \/ new[j].deps \subseteq 1 .. (j - 1)
                       \/ /\ new[j].deps = {j + 1}
                          /\ j + 1 \in DOMAIN new
                          /\ new[j + 1].deps \in {{}, {j + 2}}
                    /\ \A u \in new[j].needs :
                         \E d \in DOMAIN new :
                           new[d].uid = u /\ (new[d].status = "done" \/ d \in new[j].deps)
  BY <1>2 DEF Wired, new
<1>6. CASE j < i
  <2>1. new[j] = plan[j] /\ j \in DOMAIN plan
    BY <1>1, <1>3, <1>6
  <2>2. \/ plan[j].deps \subseteq 1 .. (j - 1)
        \/ /\ plan[j].deps = {j + 1}
           /\ j + 1 \in DOMAIN plan
           /\ plan[j + 1].deps \in {{}, {j + 2}}
    BY <2>1 DEF Wired
  <2>3. j + 1 <= i /\ j + 1 \in DOMAIN new
    BY <1>1, <1>2, <1>6
  <2>4. \A d \in plan[j].deps : pos(d) = d
    BY <1>1, <2>1, <2>2, <2>3
  <2>5. \A u \in new[j].needs : \E d \in DOMAIN new :
          new[d].uid = u /\ (new[d].status = "done" \/ d \in new[j].deps)
    <3>1. \A d \in plan[j].deps : pos(d) \in new[j].deps
      BY <2>1, <2>4
    <3> HIDE DEF pos
    <3> QED BY <1>5, <2>1, <3>1
  <2>6. CASE j + 1 = i
    BY <1>1, <1>3, <2>1, <2>2, <2>3, <2>5, <2>6
  <2>7. CASE j + 1 < i
    BY <1>1, <1>3, <2>1, <2>2, <2>3, <2>5, <2>7
  <2> QED BY <1>1, <2>3, <2>6, <2>7
<1>7. CASE j = i
  <2>1. /\ new[j].deps = {j + 1} /\ j + 1 \in DOMAIN new /\ new[j + 1].deps = {}
        /\ new[j + 1].uid = Len(plan) + 1
    BY <1>1, <1>2, <1>3, <1>7
  <2>2. ASSUME NEW u \in plan[i].needs
        PROVE  \E d \in DOMAIN new : new[d].uid = u /\ (new[d].status = "done" \/ d \in new[j].deps)
    <3>1. \A d \in plan[i].deps : plan[d].status = "done"
      BY <1>1 DEF DoneAt
    <3> QED BY <1>1, <1>5, <2>2, <3>1
  <2> QED BY <1>3, <1>7, <2>1, <2>2
<1>8. CASE j = i + 1
  BY <1>1, <1>3, <1>8
<1>9. CASE j > i + 1
  <2> DEFINE k == j - 1
  <2>1. k \in DOMAIN plan /\ k > i /\ k + 1 = j
    BY <1>1, <1>9
  <2>2. /\ new[j].deps = {pos(d) : d \in plan[k].deps} /\ new[j].needs = plan[k].needs
    BY <1>3, <1>9 DEF ShiftDeps
  <2>3. \A u \in new[j].needs : \E d \in DOMAIN new :
          new[d].uid = u /\ (new[d].status = "done" \/ d \in new[j].deps)
    <3>1. \A d \in plan[k].deps : pos(d) \in new[j].deps
      BY <2>2
    <3> HIDE DEF pos, k
    <3> QED BY <1>5, <2>1, <2>2, <3>1
  <2>4. CASE plan[k].deps \subseteq 1 .. (k - 1)
    BY <1>1, <2>1, <2>2, <2>3, <2>4
  <2>5. CASE plan[k].deps = {j} /\ j \in DOMAIN plan /\ plan[j].deps \in {{}, {j + 1}}
    <3>1. j + 1 \in DOMAIN new /\ pos(j) = j + 1 /\ pos(j + 1) = j + 2
      BY <1>1, <1>2, <1>9, <2>5
    <3>2. new[j].deps = {j + 1}
      BY <2>2, <2>5, <3>1
    <3>3. new[j + 1].deps = {pos(d) : d \in plan[j].deps}
      <4>1. j + 1 \in 1 .. (Len(plan) + 1) /\ j + 1 > i + 1 /\ (j + 1) - 1 = j
        BY <1>1, <1>9, <2>5
      <4>2. new[j + 1].deps = ShiftDeps(plan[j].deps, i, 1)
        BY <1>3, <4>1
      <4> QED BY <4>2 DEF ShiftDeps
    <3>4. new[j + 1].deps \in {{}, {j + 2}}
      BY <2>5, <3>1, <3>3
    <3> QED BY <2>3, <3>1, <3>2, <3>4
  <2> QED BY <2>1, <2>4, <2>5 DEF Wired
<1> QED BY <1>1, <1>6, <1>7, <1>8, <1>9

\* A wired plan that nothing failed in is complete or has a step to run.
LEMMA NoWedge ==
  ASSUME NEW plan \in Plan, Wired(plan),
         \A i \in DOMAIN plan : plan[i].status \in {"pending", "done"}
  PROVE  IsComplete(plan) \/ ReadySteps(plan) # {}
<1> DEFINE P == {i \in DOMAIN plan : plan[i].status = "pending"}
<1>1. Len(plan) \in Nat /\ DOMAIN plan = 1 .. Len(plan)
  BY DEF Plan
<1>2. SUFFICES ASSUME P # {}, ReadySteps(plan) = {}
               PROVE  FALSE
  BY DEF IsComplete
<1>3. P \subseteq Nat /\ \A i \in P : i \in DOMAIN plan /\ i <= Len(plan)
  BY <1>1
<1>4. PICK m \in P : \A i \in P : m <= i
  <2> HIDE DEF P
  <2> QED BY <1>2, <1>3, LeastNat
<1> DEFINE K == {k \in P : plan[k].deps \in {{}, {k + 1}}}
<1>5. \A i \in P : ~(plan[i].deps \subseteq DoneAt(plan))
  BY <1>2 DEF ReadySteps
<1>6. m \in K
  <2>1. ~(plan[m].deps \subseteq 1 .. (m - 1))
    <3>1. \A d \in 1 .. (m - 1) : d \in DoneAt(plan)
      BY <1>1, <1>3, <1>4 DEF DoneAt
    <3> QED BY <1>4, <1>5, <3>1
  <2> QED BY <1>4, <2>1 DEF Wired
<1>7. PICK k \in K : \A i \in K : i <= k
  <2>1. K \in SUBSET Nat /\ K # {} /\ \A i \in K : i <= Len(plan)
    BY <1>3, <1>6
  <2> HIDE DEF K, P
  <2> QED BY <1>1, <2>1, GreatestNat
<1>8. plan[k].deps = {k + 1} /\ k + 1 \notin DoneAt(plan)
  BY <1>5, <1>7
<1>9. k + 1 \in DOMAIN plan /\ plan[k + 1].deps \in {{}, {k + 2}}
  BY <1>1, <1>7, <1>8 DEF Wired
<1>10. k + 1 \in K
  BY <1>1, <1>7, <1>8, <1>9 DEF DoneAt
<1> QED BY <1>1, <1>7, <1>10

-----------------------------------------------------------------------------
(* The lists of durable writes the code ends a tick with, and what is left  *)
(* of them after each write.                                                *)

FinishingWrites == {<<"save", "delete", "done">>, <<"delete", "done">>, <<"done">>}

PendingWrites ==
  FinishingWrites \cup
  {<<"failed">>, <<"waiting">>, <<"blocked">>, <<"queued">>,
   <<"save", "queued">>, <<"save", "failed">>, <<"save", "waiting">>, <<"save", "blocked">>,
   <<"save", "failed", "queued">>, <<"failed", "queued">>}

\* The lists that end with the task back in the queue.
RequeueWrites ==
  {<<"queued">>, <<"save", "queued">>, <<"save", "failed", "queued">>, <<"failed", "queued">>}

LastWrites == {"done", "failed", "waiting", "blocked", "queued"}

\* What the first write of a list is, and what it leaves to be written.
WriteStepOK(ws) ==
  /\ ws \in Seq(Writes)
  /\ ws # << >>
  /\ Tail(ws) \in Seq(Writes)
  /\ IF Len(ws) = 1
     THEN Head(ws) \in LastWrites /\ Tail(ws) = << >>
     ELSE /\ Tail(ws) \in PendingWrites
          /\ \/ Head(ws) \in StoreWrites /\ Tail(ws) # << >> /\ Head(ws) \notin TaskState
             \/ Head(ws) = "failed" /\ Tail(ws) = <<"queued">>
  /\ Len(ws) # 1 /\ Tail(ws) \in FinishingWrites => ws \in FinishingWrites
  /\ Head(ws) = "done" => ws \in FinishingWrites
  /\ ws = <<"queued">> => Head(ws) = "queued"
  /\ Head(ws) = "queued" \/ Tail(ws) \in RequeueWrites => ws \in RequeueWrites

\* Every list the code can be in the middle of satisfies it.
LEMMA PendingWritesStep ==
  ASSUME NEW ws \in PendingWrites
  PROVE  WriteStepOK(ws)
<1> USE DEF PendingWrites, FinishingWrites, RequeueWrites, LastWrites, WriteStepOK, Writes, StoreWrites, TaskState
<1>1. CASE ws = <<"done">>
  BY <1>1
<1>2. CASE ws = <<"failed">>
  BY <1>2
<1>3. CASE ws = <<"waiting">>
  BY <1>3
<1>4. CASE ws = <<"blocked">>
  BY <1>4
<1>5. CASE ws = <<"queued">>
  BY <1>5
<1>6. CASE ws = <<"save", "delete", "done">>
  BY <1>6
<1>7. CASE ws = <<"delete", "done">>
  BY <1>7
<1>8. CASE ws = <<"save", "queued">>
  BY <1>8
<1>9. CASE ws = <<"save", "failed">>
  BY <1>9
<1>10. CASE ws = <<"save", "waiting">>
  BY <1>10
<1>11. CASE ws = <<"save", "blocked">>
  BY <1>11
<1>12. CASE ws = <<"save", "failed", "queued">>
  BY <1>12
<1>13. CASE ws = <<"failed", "queued">>
  BY <1>13
<1>14. QED
  BY <1>1, <1>2, <1>3, <1>4, <1>5, <1>6, <1>7, <1>8, <1>9, <1>10, <1>11, <1>12, <1>13

-----------------------------------------------------------------------------
(* Where the runner is, and what that says of its task. *)

Control ==
  /\ cur = NoTask <=> phase \in {"idle", "improving", "promoting"}
  /\ phase = "picked" => state[cur] = "planning"
  /\ phase \in {"loading", "deciding", "calling"} => state[cur] = "executing"
  /\ phase = "calling" => at \in DOMAIN mem
  /\ phase = "writing" =>
       /\ todo \in PendingWrites
       /\ state[cur] = "executing" \/ (state[cur] = "failed" /\ todo = <<"queued">>)
  /\ phase # "writing" => todo = << >>
  /\ phase = "observing" => state[cur] \notin InFlight

\* Control is inductive together with the types.
CInv == TypeOK /\ Control

LEMMA InitCInv == Init => CInv
  BY PriorityAssumption, ExecutiveAssumption
  DEF Init, QueueInit, CInv, TypeOK, Control, Phases, Outcomes, NoPlan, Plan, ReviewStatus

\* A repair verdict leaves a plan in memory.
LEMMA RepairedPlan ==
  ASSUME CInv, phase = "calling", NEW n \in RepairCounts
  PROVE  Repaired(mem, at, n) \in Plan
<1>1. mem \in Plan /\ at \in DOMAIN mem /\ n \in Nat
  BY ExecutiveAssumption DEF CInv, TypeOK, Control
<1>2. QED
  BY <1>1, RewireType

\* Deciding an outcome leaves one of those lists to be written.
LEMMA FinishType ==
  ASSUME NEW ws \in PendingWrites, NEW o \in Outcomes, FinishWith(ws, o)
  PROVE  /\ todo' = ws /\ todo' \in PendingWrites /\ todo' \in Seq(Writes)
         /\ tick' = o /\ tick' \in Outcomes
         /\ phase' = "writing" /\ phase' \in Phases
  BY PendingWritesStep DEF FinishWith, WriteStepOK, Phases

\* The lists the actions name are among them.
LEMMA NamedWrites ==
  /\ {<<"save", "delete", "done">>, <<"delete", "done">>, <<"done">>, <<"failed">>, <<"waiting">>,
      <<"blocked">>, <<"queued">>, <<"save", "queued">>, <<"save", "failed">>, <<"save", "waiting">>,
      <<"save", "blocked">>, <<"save", "failed", "queued">>} \subseteq PendingWrites
  /\ {"none", "done", "step_done", "failed", "blocked", "waiting", "retrying",
      "repair_inserted", "plan_review"} \subseteq Outcomes
  BY DEF PendingWrites, FinishingWrites, Outcomes

\* Every verdict on a returned call decides one of them too, and keeps the types.
LEMMA VerdictType ==
  ASSUME CInv, phase = "calling", NEW s \in StepStatus,
         NEW ws \in PendingWrites, NEW o \in Outcomes, GiveUp(s, ws, o)
  PROVE  /\ mem' \in Plan
         /\ retries' \in [Tasks -> Nat]
         /\ FinishWith(ws, o)
<1>1. cur \in Tasks /\ mem \in Plan /\ at \in DOMAIN mem
  BY DEF CInv, TypeOK, Control
<1>2. mem' \in Plan
  BY <1>1, SetStatusType DEF GiveUp
<1>3. QED
  BY <1>2 DEF GiveUp, CInv, TypeOK

LEMMA TypeStep == CInv /\ [Next]_vars => TypeOK'
<1> SUFFICES ASSUME CInv, [Next]_vars
             PROVE  TypeOK'
  OBVIOUS
<1> USE ExecutiveAssumption DEF CInv
<1>1. ASSUME NEW t \in Tasks, Submit(t)
      PROVE  TypeOK'
  BY <1>1 DEF Submit, Enqueue, storeVars, runnerVars, historyVars, TypeOK, TaskState
<1>2. ASSUME NEW t \in Tasks, Requeue(t)
      PROVE  TypeOK'
  BY <1>2 DEF Requeue, Transition, storeVars, runnerVars, TypeOK, TaskState
<1>3. ASSUME NEW t \in Tasks, NEW v \in {"approved", "rejected"}, DecideReview(t, v)
      PROVE  TypeOK'
  BY <1>3 DEF DecideReview, queueVars, storeVars, historyVars, TypeOK, ReviewStatus
<1>4. ASSUME NEW t \in Tasks, Pick(t)
      PROVE  TypeOK'
  BY <1>4 DEF Pick, Transition, storeVars, historyVars, TypeOK, TaskState, Phases
<1>5. CASE HandOver
  BY <1>5 DEF HandOver, Transition, storeVars, historyVars, TypeOK, TaskState, Phases
<1>6. CASE LoadPlan
  <2>1. cur \in Tasks
    BY <1>6 DEF LoadPlan, TypeOK, Control
  <2>2. mem' \in Plan
    BY <1>6, <2>1 DEF LoadPlan, TypeOK
  <2>3. QED
    BY <1>6, <2>1, <2>2 DEF LoadPlan, queueVars, historyVars, TypeOK, Phases
<1>7. CASE SubmitForReview
  <2>1. FinishWith(<<"waiting">>, "plan_review") /\ cur \in Tasks
    BY <1>7 DEF SubmitForReview, TypeOK, Control
  <2>2. todo' \in Seq(Writes) /\ tick' \in Outcomes /\ phase' \in Phases
    BY <2>1, FinishType, NamedWrites
  <2>3. reviews' \in [Tasks -> ReviewStatus]
    BY <1>7, <2>1 DEF SubmitForReview, TypeOK, ReviewStatus
  <2>4. QED
    BY <1>7, <2>2, <2>3 DEF SubmitForReview, queueVars, storeVars, historyVars, TypeOK
<1>8. CASE CallTool
  <2>1. at' \in Nat
    BY <1>8 DEF CallTool, TypeOK, Plan
  <2>2. QED
    BY <1>8, <2>1 DEF CallTool, queueVars, storeVars, historyVars, TypeOK, Phases
<1>9. CASE NothingReady
  <2>1. \/ FinishWith(<<"delete", "done">>, "done")
        \/ FinishWith(<<"failed">>, "failed")
    BY <1>9 DEF NothingReady
  <2>2. todo' \in Seq(Writes) /\ tick' \in Outcomes /\ phase' \in Phases
    BY <2>1, FinishType, NamedWrites
  <2>3. QED
    BY <1>9, <2>2 DEF NothingReady, queueVars, storeVars, historyVars, TypeOK
<1>10. CASE StepSucceeds
  <2>1. cur \in Tasks /\ mem \in Plan /\ at \in DOMAIN mem
    BY <1>10 DEF StepSucceeds, TypeOK, Control
  <2>2. mem' \in Plan
    BY <1>10, <2>1, SetStatusType DEF StepSucceeds, StepStatus
  <2>3. \/ FinishWith(<<"save", "delete", "done">>, "done")
        \/ FinishWith(<<"save", "queued">>, "step_done")
    BY <1>10 DEF StepSucceeds
  <2>4. todo' \in Seq(Writes) /\ tick' \in Outcomes /\ phase' \in Phases
    BY <2>3, FinishType, NamedWrites
  <2>5. mem[at] \in Step
    BY <2>1 DEF Plan
  <2>6. Uid \in Nat
    BY <2>5 DEF Uid, Step
  <2>7. succeeded' \in [Tasks -> SUBSET Nat] /\ repeated' \in [Tasks -> SUBSET Nat]
    BY <1>10, <2>1, <2>6 DEF StepSucceeds, TypeOK
  <2>8. misfires' \in [Tasks -> Nat] /\ retries' \in [Tasks -> Nat]
    BY <1>10, <2>1 DEF StepSucceeds, TypeOK
  <2>9. QED
    BY <1>10, <2>2, <2>4, <2>7, <2>8 DEF StepSucceeds, queueVars, storeVars, TypeOK
<1>11. CASE StepFailsTransiently
  <2>1. cur \in Tasks /\ mem \in Plan /\ at \in DOMAIN mem /\ phase = "calling"
    BY <1>11 DEF StepFailsTransiently, TypeOK, Control
  <2>2. \/ GiveUp("failed", <<"save", "failed">>, "failed")
        \/ /\ mem' = SetStatus(mem, at, "pending")
           /\ retries' = [retries EXCEPT ![cur] = @ + 1]
           /\ FinishWith(<<"save", "failed", "queued">>, "retrying")
    BY <1>11 DEF StepFailsTransiently, RetryOrFail
  <2>3. mem' \in Plan /\ retries' \in [Tasks -> Nat] /\ todo' \in Seq(Writes)
        /\ tick' \in Outcomes /\ phase' \in Phases
    <3>1. CASE GiveUp("failed", <<"save", "failed">>, "failed")
      BY <2>1, <3>1, VerdictType, FinishType, NamedWrites DEF StepStatus
    <3>2. CASE /\ mem' = SetStatus(mem, at, "pending")
               /\ retries' = [retries EXCEPT ![cur] = @ + 1]
               /\ FinishWith(<<"save", "failed", "queued">>, "retrying")
      <4>1. mem' \in Plan
        BY <2>1, <3>2, SetStatusType DEF StepStatus
      <4>2. retries' \in [Tasks -> Nat]
        BY <2>1, <3>2 DEF TypeOK
      <4>3. QED
        BY <3>2, <4>1, <4>2, FinishType, NamedWrites
    <3>3. QED
      BY <2>2, <3>1, <3>2
  <2>4. misfires' \in [Tasks -> Nat]
    BY <1>11, <2>1 DEF StepFailsTransiently, TypeOK
  <2>5. QED
    BY <1>11, <2>3, <2>4 DEF StepFailsTransiently, queueVars, storeVars, TypeOK
<1>12. CASE StepIsBlocked
  <2>1. \/ GiveUp("blocked", <<"save", "waiting">>, "waiting")
        \/ GiveUp("blocked", <<"save", "blocked">>, "blocked")
    BY <1>12 DEF StepIsBlocked
  <2>2. mem' \in Plan /\ retries' \in [Tasks -> Nat] /\ todo' \in Seq(Writes)
        /\ tick' \in Outcomes /\ phase' \in Phases
    BY <1>12, <2>1, VerdictType, FinishType, NamedWrites DEF StepIsBlocked, StepStatus
  <2>3. QED
    BY <1>12, <2>2 DEF StepIsBlocked, queueVars, storeVars, historyVars, TypeOK
<1>14. ASSUME NEW n \in RepairCounts, StepNeedsRepair(n)
       PROVE  TypeOK'
  <2>1. phase = "calling"
    BY <1>14 DEF StepNeedsRepair
  <2>2. \/ GiveUp("failed", <<"save", "failed">>, "failed")
        \/ /\ mem' = Repaired(mem, at, n)
           /\ retries' = retries
           /\ FinishWith(<<"save", "queued">>, "repair_inserted")
    BY <1>14 DEF StepNeedsRepair
  <2>3. mem' \in Plan /\ retries' \in [Tasks -> Nat] /\ todo' \in Seq(Writes)
        /\ tick' \in Outcomes /\ phase' \in Phases
    <3>1. CASE GiveUp("failed", <<"save", "failed">>, "failed")
      BY <2>1, <3>1, VerdictType, FinishType, NamedWrites DEF StepStatus
    <3>2. CASE /\ mem' = Repaired(mem, at, n)
               /\ retries' = retries
               /\ FinishWith(<<"save", "queued">>, "repair_inserted")
      <4>1. mem' \in Plan /\ retries' \in [Tasks -> Nat]
        BY <2>1, <3>2, RepairedPlan DEF TypeOK
      <4>2. QED
        BY <3>2, <4>1, FinishType, NamedWrites
    <3>3. QED
      BY <2>2, <3>1, <3>2
  <2>4. QED
    BY <1>14, <2>3 DEF StepNeedsRepair, queueVars, storeVars, historyVars, TypeOK
<1>15. CASE Write
  <2>1. WriteStepOK(todo) /\ cur \in Tasks
    BY <1>15, PendingWritesStep DEF Write, TypeOK, Control
  <2>2. todo' \in Seq(Writes)
    BY <1>15, <2>1 DEF Write, WriteStepOK
  <2>3. \/ Transition(cur, Head(todo)) /\ Head(todo) \in TaskState /\ saved' = saved
        \/ saved' = [saved EXCEPT ![cur] = mem] /\ UNCHANGED queueVars
        \/ saved' = [saved EXCEPT ![cur] = NoPlan] /\ UNCHANGED queueVars
    BY <1>15 DEF Write
  <2>4. saved' \in [Tasks -> Plan]
    <3>1. saved \in [Tasks -> Plan] /\ mem \in Plan /\ NoPlan \in Plan
      BY DEF TypeOK, NoPlan, Plan
    <3>2. QED
      BY <2>1, <2>3, <3>1
  <2>5. state' \in [Tasks -> TaskState \cup {"absent"}] /\ arrival' \in Seq(Tasks)
    <3>1. state \in [Tasks -> TaskState \cup {"absent"}] /\ arrival \in Seq(Tasks)
      BY DEF TypeOK
    <3>2. CASE Transition(cur, Head(todo)) /\ Head(todo) \in TaskState
      BY <2>1, <3>1, <3>2 DEF Transition
    <3>3. CASE UNCHANGED queueVars
      BY <3>1, <3>3 DEF queueVars
    <3>4. QED
      BY <2>3, <3>2, <3>3
  <2>6. phase' \in Phases
    BY <1>15 DEF Write, Phases
  <2>7. UNCHANGED <<lessons, cur, mem, at, tick, retries, idle, tried, reviews, historyVars>>
    BY <1>15 DEF Write
  <2>8. QED
    BY <2>2, <2>4, <2>5, <2>6, <2>7 DEF historyVars, TypeOK
<1>16. CASE Observe
  <2>1. lessons' \in [Tasks -> SUBSET LessonTypes]
    BY <1>16 DEF Observe, LessonOf, LessonTypes, TypeOK
  <2>2. QED
    BY <1>16, <2>1 DEF Observe, queueVars, historyVars, TypeOK, Phases, Outcomes, NoPlan, Plan
<1>17. CASE IdleTick
  BY <1>17 DEF IdleTick, queueVars, storeVars, historyVars, TypeOK, Phases
<1>18. CASE ImproveDone
  BY <1>18 DEF ImproveDone, queueVars, storeVars, historyVars, TypeOK, Phases
<1>19. CASE TryCandidate
  BY <1>19 DEF TryCandidate, queueVars, storeVars, historyVars, TypeOK
<1>20. CASE PromotionEnds
  BY <1>20 DEF PromotionEnds, queueVars, storeVars, historyVars, TypeOK, Phases
<1>21. CASE Crash
  BY <1>21 DEF Crash, queueVars, storeVars, TypeOK, Phases, Outcomes, NoPlan, Plan, ReviewStatus
<1>22. CASE UNCHANGED vars
  BY <1>22 DEF vars, queueVars, storeVars, runnerVars, historyVars, TypeOK
<1>23. QED
  BY <1>1, <1>2, <1>3, <1>4, <1>5, <1>6, <1>7, <1>8, <1>9, <1>10, <1>11, <1>12, <1>14, <1>15,
     <1>16, <1>17, <1>18, <1>19, <1>20, <1>21, <1>22 DEF Next, Run

LEMMA ControlStep == CInv /\ [Next]_vars => Control'
<1> SUFFICES ASSUME CInv, [Next]_vars
             PROVE  Control'
  OBVIOUS
<1> USE ExecutiveAssumption DEF CInv
<1>1. ASSUME NEW t \in Tasks, Submit(t)
      PROVE  Control'
  BY <1>1 DEF Submit, Enqueue, runnerVars, TypeOK, Control, InFlight
<1>2. ASSUME NEW t \in Tasks, Requeue(t)
      PROVE  Control'
  BY <1>2 DEF Requeue, Transition, runnerVars, TypeOK, Control
<1>3. ASSUME NEW t \in Tasks, NEW v \in {"approved", "rejected"}, DecideReview(t, v)
      PROVE  Control'
  BY <1>3 DEF DecideReview, queueVars, Control
<1>4. ASSUME NEW t \in Tasks, Pick(t)
      PROVE  Control'
  BY <1>4 DEF Pick, Transition, TypeOK, Control
<1>5. CASE HandOver
  BY <1>5 DEF HandOver, Transition, TypeOK, Control
<1>6. CASE LoadPlan
  BY <1>6 DEF LoadPlan, queueVars, Control
<1>7. ASSUME NEW ws \in PendingWrites, NEW o \in Outcomes, FinishWith(ws, o),
             phase \in {"deciding", "calling"}, UNCHANGED <<queueVars, cur>>
      PROVE  Control'
  BY <1>7, FinishType DEF queueVars, Control
<1>8. CASE SubmitForReview
  BY <1>7, <1>8, NamedWrites DEF SubmitForReview
<1>9. CASE CallTool
  BY <1>9 DEF CallTool, queueVars, Control
<1>10. CASE NothingReady
  BY <1>7, <1>10, NamedWrites DEF NothingReady
<1>11. CASE StepSucceeds
  BY <1>7, <1>11, NamedWrites DEF StepSucceeds
<1>12. CASE StepFailsTransiently
  BY <1>7, <1>12, NamedWrites DEF StepFailsTransiently, RetryOrFail, GiveUp
<1>13. CASE StepIsBlocked
  BY <1>7, <1>13, NamedWrites DEF StepIsBlocked, GiveUp
<1>14. ASSUME NEW n \in RepairCounts, StepNeedsRepair(n)
       PROVE  Control'
  BY <1>7, <1>14, NamedWrites DEF StepNeedsRepair, GiveUp
<1>15. CASE Write
  <2>1. /\ WriteStepOK(todo) /\ cur \in Tasks /\ phase = "writing" /\ cur # NoTask
        /\ state[cur] = "executing" \/ (state[cur] = "failed" /\ todo = <<"queued">>)
    BY <1>15, PendingWritesStep DEF Write, TypeOK, Control
  <2>2. /\ todo' = Tail(todo) /\ cur' = cur
        /\ phase' = IF Len(todo) = 1 THEN "observing" ELSE "writing"
        /\ \/ Head(todo) \in TaskState /\ Transition(cur, Head(todo))
           \/ Head(todo) \in StoreWrites /\ UNCHANGED queueVars
    BY <1>15 DEF Write, StoreWrites
  <2>3. CASE Len(todo) = 1
    <3>1. Head(todo) \in LastWrites /\ Tail(todo) = << >>
      BY <2>1, <2>3 DEF WriteStepOK
    <3>2. Transition(cur, Head(todo))
      BY <2>2, <3>1 DEF LastWrites, StoreWrites
    <3>3. state'[cur] = Head(todo)
      BY <2>1, <3>2 DEF Transition, TypeOK
    <3>4. state'[cur] \notin InFlight
      BY <3>1, <3>3 DEF LastWrites, InFlight
    <3>5. QED
      BY <2>1, <2>2, <2>3, <3>1, <3>4 DEF Control
  <2>4. CASE Len(todo) # 1
    <3>1. /\ Tail(todo) \in PendingWrites
          /\ \/ Head(todo) \in StoreWrites /\ Tail(todo) # << >> /\ Head(todo) \notin TaskState
             \/ Head(todo) = "failed" /\ Tail(todo) = <<"queued">>
      BY <2>1, <2>4 DEF WriteStepOK
    <3>2. todo # <<"queued">>
      BY <2>4
    <3>3. CASE Head(todo) \notin TaskState
      BY <2>1, <2>2, <2>4, <3>1, <3>2, <3>3 DEF Control, queueVars
    <3>4. CASE Head(todo) = "failed" /\ Tail(todo) = <<"queued">>
      <4>1. Transition(cur, "failed")
        BY <2>2, <3>4 DEF StoreWrites
      <4>2. state'[cur] = "failed"
        BY <2>1, <4>1 DEF Transition, TypeOK
      <4>3. QED
        BY <2>1, <2>2, <2>4, <3>1, <3>4, <4>2 DEF Control
    <3>5. QED
      BY <3>1, <3>3, <3>4
  <2>5. QED
    BY <2>3, <2>4
<1>16. CASE Observe
  BY <1>16 DEF Observe, Control
<1>17. CASE IdleTick
  BY <1>17 DEF IdleTick, queueVars, Control
<1>18. CASE ImproveDone
  BY <1>18 DEF ImproveDone, queueVars, Control
<1>19. CASE TryCandidate
  BY <1>19 DEF TryCandidate, queueVars, Control
<1>20. CASE PromotionEnds
  BY <1>20 DEF PromotionEnds, queueVars, Control
<1>21. CASE Crash
  BY <1>21 DEF Crash, Control
<1>22. CASE UNCHANGED vars
  BY <1>22 DEF vars, queueVars, runnerVars, Control
<1>23. QED
  BY <1>1, <1>2, <1>3, <1>4, <1>5, <1>6, <1>8, <1>9, <1>10, <1>11, <1>12, <1>13, <1>14, <1>15,
     <1>16, <1>17, <1>18, <1>19, <1>20, <1>21, <1>22 DEF Next, Run

THEOREM ControlHolds == Spec => []CInv
<1>1. CInv /\ [Next]_vars => CInv'
  BY TypeStep, ControlStep DEF CInv
<1>2. QED
  BY InitCInv, <1>1, PTL DEF Spec

\* Every state the executive reaches has the types above.
THEOREM TypeCorrect == Spec => []TypeOK
  BY ControlHolds, PTL DEF CInv

\* The executive never attempts a transition the queue's table refuses.
THEOREM NoIllegalTransition == Spec => []WritesAllowed
<1>1. CInv => WritesAllowed
  <2> SUFFICES ASSUME CInv, phase = "writing", Head(todo) \in TaskState
               PROVE  Head(todo) \in Allowed(state[cur])
    BY DEF WritesAllowed
  <2>1. WriteStepOK(todo) /\ (state[cur] = "executing" \/ (state[cur] = "failed" /\ todo = <<"queued">>))
    BY PendingWritesStep DEF CInv, Control
  <2>2. Head(todo) \in LastWrites
    BY <2>1 DEF WriteStepOK, LastWrites
  <2>3. todo = <<"queued">> => Head(todo) = "queued"
    BY <2>1 DEF WriteStepOK
  <2>4. QED
    BY <2>1, <2>2, <2>3 DEF Allowed, LastWrites
<1>2. QED
  BY ControlHolds, <1>1, PTL

-----------------------------------------------------------------------------
(* Nothing is in flight that nobody works on.                                *)

LEMMA OwnedStep == CInv /\ InFlightOwned /\ [Next]_vars => InFlightOwned'
<1> SUFFICES ASSUME CInv, InFlightOwned, [Next]_vars
             PROVE  InFlightOwned'
  OBVIOUS
<1> USE ExecutiveAssumption DEF CInv, TypeOK, InFlightOwned
<1>1. ASSUME NEW t \in Tasks, Submit(t)
      PROVE  InFlightOwned'
  BY <1>1 DEF Submit, Enqueue, runnerVars, historyVars, InFlight
<1>2. ASSUME NEW t \in Tasks, Requeue(t)
      PROVE  InFlightOwned'
  BY <1>2 DEF Requeue, Transition, runnerVars, InFlight
<1>3. ASSUME NEW t \in Tasks, NEW v \in {"approved", "rejected"}, DecideReview(t, v)
      PROVE  InFlightOwned'
  BY <1>3 DEF DecideReview, queueVars, historyVars
<1>4. ASSUME NEW t \in Tasks, Pick(t)
      PROVE  InFlightOwned'
  BY <1>4 DEF Pick, Transition, historyVars, Control, InFlight
<1>5. CASE HandOver
  BY <1>5 DEF HandOver, Transition, historyVars, InFlight
<1>6. ASSUME UNCHANGED <<queueVars, cur, crashes>>
      PROVE  InFlightOwned'
  BY <1>6 DEF queueVars
<1>7. CASE Write
  <2>1. UNCHANGED <<cur, crashes>> /\ (UNCHANGED queueVars \/ Transition(cur, Head(todo)))
    BY <1>7 DEF Write, historyVars
  <2>2. CASE Transition(cur, Head(todo))
    <3>1. \A t \in Tasks \ {cur} : state'[t] = state[t]
      BY <2>2 DEF Transition
    <3>2. QED
      BY <2>1, <3>1
  <2>3. QED
    BY <1>6, <2>1, <2>2
<1>8. CASE Observe
  BY <1>8 DEF Observe, queueVars, historyVars, Control
<1>9. CASE Crash
  BY <1>9 DEF Crash
<1>10. CASE StepFailsTransiently
  BY <1>6, <1>10 DEF StepFailsTransiently
<1>11. CASE UNCHANGED vars
  BY <1>6, <1>11 DEF vars, runnerVars, historyVars
<1>12. ASSUME NEW n \in RepairCounts, StepNeedsRepair(n)
       PROVE  InFlightOwned'
  BY <1>6, <1>12 DEF StepNeedsRepair, historyVars
<1>13. CASE LoadPlan \/ SubmitForReview \/ CallTool \/ NothingReady \/ StepIsBlocked
  BY <1>6, <1>13 DEF LoadPlan, SubmitForReview, CallTool, NothingReady, StepIsBlocked, historyVars
<1>14. CASE StepSucceeds
  BY <1>6, <1>14 DEF StepSucceeds
<1>15. CASE IdleTick \/ ImproveDone \/ TryCandidate \/ PromotionEnds
  BY <1>6, <1>15 DEF IdleTick, ImproveDone, TryCandidate, PromotionEnds, historyVars
<1>16. QED
  BY <1>1, <1>2, <1>3, <1>4, <1>5, <1>7, <1>8, <1>9, <1>10, <1>11, <1>12, <1>13, <1>14, <1>15
  DEF Next, Run

\* Until the process crashes, a task in flight is the one the runner works on.
THEOREM OneInFlight == Spec => []InFlightOwned
<1>1. Init => InFlightOwned
  BY DEF Init, QueueInit, InFlightOwned, InFlight
<1>2. QED
  BY ControlHolds, OwnedStep, <1>1, PTL DEF Spec

-----------------------------------------------------------------------------
(* DONE means every step ran: a step marked DONE, on disk or in memory, is one *)
(* whose tool succeeded, and only a complete plan is finished.                 *)

Backed(plan, t) == \A i \in DOMAIN plan : plan[i].status = "done" => plan[i].uid \in succeeded[t]

ProgressBacked ==
  /\ \A t \in Tasks : Backed(saved[t], t)
  /\ phase \in {"deciding", "calling", "writing"} => Backed(mem, cur)
  /\ phase = "writing" /\ todo \in FinishingWrites => IsComplete(mem)

\* Lists other than the finishing ones finish nothing.
LEMMA OtherLists ==
  \A ws \in {<<"failed">>, <<"waiting">>, <<"save", "queued">>, <<"save", "failed">>,
             <<"save", "waiting">>, <<"save", "blocked">>, <<"save", "failed", "queued">>} :
    ws \notin FinishingWrites
  BY DEF FinishingWrites

\* Changing the status of a step to anything but DONE marks no step DONE.
LEMMA BackedSetStatus ==
  ASSUME NEW plan \in Plan, NEW i \in DOMAIN plan, NEW s \in StepStatus, NEW t \in Tasks,
         Backed(plan, t), s # "done"
  PROVE  Backed(SetStatus(plan, i, s), t)
<1> DEFINE new == SetStatus(plan, i, s)
<1>1. DOMAIN new = DOMAIN plan /\ \A j \in DOMAIN plan : /\ new[j].uid = plan[j].uid
                                                      /\ new[j].status = IF j = i THEN s ELSE plan[j].status
  BY SetStatusType
<1> HIDE DEF new
<1>2. Backed(new, t)
  BY <1>1 DEF Backed
<1> QED BY <1>2 DEF new

\* Nor does inserting repairs.
LEMMA BackedRepair ==
  ASSUME NEW plan \in Plan, NEW i \in DOMAIN plan, NEW n \in Nat, NEW t \in Tasks, Backed(plan, t)
  PROVE  Backed(Repaired(plan, i, n), t)
  BY RepairedDone DEF Backed

LEMMA BackedStep == CInv /\ ProgressBacked /\ [Next]_vars => ProgressBacked'
<1> SUFFICES ASSUME CInv, ProgressBacked, [Next]_vars
             PROVE  ProgressBacked'
  OBVIOUS
<1> USE ExecutiveAssumption
<1>0. /\ cur \in Tasks \cup {NoTask} /\ mem \in Plan /\ succeeded \in [Tasks -> SUBSET Nat]
      /\ saved \in [Tasks -> Plan]
      /\ phase \in {"loading", "deciding", "calling", "writing"} => cur \in Tasks
      /\ phase = "calling" => at \in DOMAIN mem
  BY DEF CInv, TypeOK, Control
<1>1. ASSUME UNCHANGED <<saved, succeeded>>,
             \/ phase' \notin {"deciding", "calling", "writing"}
             \/ UNCHANGED <<phase, cur, mem, todo>>
      PROVE  ProgressBacked'
  BY <1>1 DEF ProgressBacked, Backed
<1>2. ASSUME NEW t \in Tasks, NEW v \in {"approved", "rejected"},
             Submit(t) \/ Requeue(t) \/ DecideReview(t, v)
      PROVE  ProgressBacked'
  BY <1>1, <1>2 DEF Submit, Requeue, DecideReview, storeVars, runnerVars, historyVars
<1>3. ASSUME NEW t \in Tasks, Pick(t)
      PROVE  ProgressBacked'
  BY <1>1, <1>3 DEF Pick, storeVars, historyVars
<1>4. CASE HandOver
  BY <1>1, <1>4 DEF HandOver, storeVars, historyVars
<1>5. CASE LoadPlan
  <2>1. cur \in Tasks /\ cur' = cur /\ phase' = "deciding" /\ succeeded' = succeeded
        /\ saved' = [saved EXCEPT ![cur] = mem']
    BY <1>0, <1>5 DEF LoadPlan, historyVars
  <2>2. Backed(mem', cur)
    BY <1>0, <1>5, <2>1 DEF LoadPlan, ProgressBacked, Backed
  <2>3. QED
    BY <1>0, <2>1, <2>2 DEF ProgressBacked, Backed
<1>6. CASE CallTool
  BY <1>6 DEF CallTool, storeVars, historyVars, ProgressBacked, Backed
\* The tick ends with a list that finishes nothing and a plan in which no step is
\* newly DONE.
<1>7. ASSUME NEW ws, NEW o, FinishWith(ws, o), ws \notin FinishingWrites,
             Backed(mem', cur), UNCHANGED <<saved, cur, succeeded>>
      PROVE  ProgressBacked'
  BY <1>7 DEF FinishWith, ProgressBacked, Backed
<1>8. CASE SubmitForReview
  BY <1>7, <1>8, OtherLists DEF SubmitForReview, storeVars, historyVars, ProgressBacked
<1>9. CASE NothingReady
  <2>1. Backed(mem', cur) /\ UNCHANGED <<saved, cur, mem, succeeded>>
    BY <1>9 DEF NothingReady, storeVars, historyVars, ProgressBacked
  <2>2. CASE IsComplete(mem) /\ FinishWith(<<"delete", "done">>, "done")
    BY <2>1, <2>2 DEF FinishWith, ProgressBacked, Backed, IsComplete
  <2>3. CASE FinishWith(<<"failed">>, "failed")
    BY <1>7, <2>1, <2>3, OtherLists
  <2>4. QED
    BY <1>9, <2>2, <2>3 DEF NothingReady
<1>10. ASSUME phase = "calling", NEW s \in StepStatus, s # "done"
       PROVE  mem' = SetStatus(mem, at, s) /\ UNCHANGED <<cur, succeeded>> => Backed(mem', cur)
  <2>1. Backed(SetStatus(mem, at, s), cur)
    BY <1>0, <1>10, BackedSetStatus DEF ProgressBacked
  <2>2. QED
    BY <2>1 DEF Backed
<1>11. CASE StepSucceeds
  <2>1. /\ phase = "calling" /\ cur \in Tasks /\ at \in DOMAIN mem
        /\ mem' = SetStatus(mem, at, "done")
        /\ succeeded' = [succeeded EXCEPT ![cur] = @ \cup {Uid}]
        /\ UNCHANGED <<saved, cur>>
        /\ phase' = "writing"
        /\ todo' \in FinishingWrites => IsComplete(mem')
    BY <1>0, <1>11, OtherLists DEF StepSucceeds, FinishWith, storeVars
  <2>2. /\ DOMAIN mem' = DOMAIN mem
        /\ \A j \in DOMAIN mem : /\ mem'[j].uid = mem[j].uid
                                 /\ mem'[j].status = IF j = at THEN "done" ELSE mem[j].status
    <3>1. mem \in Plan /\ at \in DOMAIN mem /\ "done" \in StepStatus
      BY <1>0, <2>1 DEF StepStatus
    <3>2. QED
      BY <2>1, <3>1, SetStatusType
  <2>3. \A t \in Tasks : succeeded[t] \subseteq succeeded'[t]
    BY <1>0, <2>1
  <2>4. mem[at].uid \in succeeded'[cur]
    BY <1>0, <2>1 DEF Uid
  <2>5. \A i \in DOMAIN mem' : mem'[i].status = "done" => mem'[i].uid \in succeeded'[cur]
    BY <1>0, <2>1, <2>2, <2>3, <2>4 DEF ProgressBacked, Backed
  <2>6. QED
    BY <2>1, <2>3, <2>5 DEF ProgressBacked, Backed
<1>12. CASE StepFailsTransiently
  <2>1. phase = "calling" /\ UNCHANGED <<saved, cur, succeeded>>
    BY <1>12 DEF StepFailsTransiently, storeVars
  <2>2. \/ mem' = SetStatus(mem, at, "failed") /\ FinishWith(<<"save", "failed">>, "failed")
        \/ mem' = SetStatus(mem, at, "pending") /\ FinishWith(<<"save", "failed", "queued">>, "retrying")
    BY <1>12 DEF StepFailsTransiently, RetryOrFail, GiveUp
  <2>3. Backed(mem', cur)
    BY <1>10, <2>1, <2>2 DEF StepStatus
  <2>4. QED
    BY <1>7, <2>1, <2>2, <2>3, OtherLists
<1>13. CASE StepIsBlocked
  <2>1. phase = "calling" /\ UNCHANGED <<saved, cur, succeeded>> /\ mem' = SetStatus(mem, at, "blocked")
    BY <1>13 DEF StepIsBlocked, GiveUp, storeVars, historyVars
  <2>2. FinishWith(<<"save", "waiting">>, "waiting") \/ FinishWith(<<"save", "blocked">>, "blocked")
    BY <1>13 DEF StepIsBlocked, GiveUp
  <2>3. Backed(mem', cur)
    BY <1>10, <2>1 DEF StepStatus
  <2>4. QED
    BY <1>7, <2>1, <2>2, <2>3, OtherLists
<1>14. ASSUME NEW n \in RepairCounts, StepNeedsRepair(n)
       PROVE  ProgressBacked'
  <2>1. phase = "calling" /\ UNCHANGED <<saved, cur, succeeded>>
    BY <1>14 DEF StepNeedsRepair, storeVars, historyVars
  <2>2. \/ mem' = SetStatus(mem, at, "failed") /\ FinishWith(<<"save", "failed">>, "failed")
        \/ /\ mem' = Repaired(mem, at, n)
           /\ FinishWith(<<"save", "queued">>, "repair_inserted")
    BY <1>14 DEF StepNeedsRepair, GiveUp
  <2>3. Backed(mem', cur)
    <3>1. CASE mem' = SetStatus(mem, at, "failed")
      BY <1>10, <2>1, <3>1 DEF StepStatus
    <3>2. CASE mem' = Repaired(mem, at, n)
      <4>1. mem \in Plan /\ at \in DOMAIN mem /\ n \in Nat /\ cur \in Tasks /\ Backed(mem, cur)
        BY <1>0, <2>1 DEF ProgressBacked
      <4>2. Backed(Repaired(mem, at, n), cur)
        BY <4>1, BackedRepair
      <4>3. QED
        BY <2>1, <3>2, <4>2 DEF Backed
    <3>3. QED
      BY <2>2, <3>1, <3>2
  <2>4. QED
    BY <1>7, <2>1, <2>2, <2>3, OtherLists
<1>15. CASE Write
  <2>1. phase = "writing" /\ cur \in Tasks /\ WriteStepOK(todo) /\ UNCHANGED <<cur, mem, succeeded>>
    BY <1>0, <1>15, PendingWritesStep DEF Write, CInv, Control, historyVars
  <2>2. \/ saved' = saved
        \/ saved' = [saved EXCEPT ![cur] = mem]
        \/ saved' = [saved EXCEPT ![cur] = NoPlan]
    BY <1>15 DEF Write, TypeOK
  <2>3. \A t \in Tasks : saved'[t] \in {saved[t], NoPlan} \/ (t = cur /\ saved'[t] = mem)
    BY <1>0, <2>2
  <2>4. \A t \in Tasks : Backed(saved[t], t)' 
    BY <2>1, <2>3 DEF ProgressBacked, Backed, NoPlan
  <2>5. phase' = "writing" /\ todo' \in FinishingWrites => IsComplete(mem')
    BY <1>15, <2>1 DEF Write, WriteStepOK, ProgressBacked
  <2>6. Backed(mem, cur)'
    BY <2>1 DEF ProgressBacked, Backed
  <2>7. QED
    BY <2>4, <2>5, <2>6 DEF ProgressBacked
<1>16. CASE Observe
  BY <1>1, <1>16 DEF Observe, historyVars
<1>17. CASE IdleTick \/ ImproveDone \/ TryCandidate \/ PromotionEnds
  BY <1>1, <1>17 DEF IdleTick, ImproveDone, TryCandidate, PromotionEnds, storeVars, historyVars
<1>18. CASE Crash
  BY <1>1, <1>18 DEF Crash, storeVars
<1>19. CASE UNCHANGED vars
  BY <1>1, <1>19 DEF vars, storeVars, runnerVars, historyVars
<1>20. QED
  BY <1>2, <1>3, <1>4, <1>5, <1>6, <1>8, <1>9, <1>11, <1>12, <1>13, <1>14, <1>15, <1>16, <1>17,
     <1>18, <1>19 DEF Next, Run

\* A task becomes DONE only when the tool of every step of its plan has succeeded.
THEOREM DoneOnlyComplete == Spec => DoneOnlyWhenEveryStepRan
<1>1. Init => ProgressBacked
  BY DEF Init, ProgressBacked, Backed, NoPlan
<1>2. CInv /\ ProgressBacked /\ [Next]_vars =>
        [\A t \in Tasks : state[t] # "done" /\ state'[t] = "done"
            => \A i \in DOMAIN mem : mem[i].uid \in succeeded[t]]_vars
  <2> SUFFICES ASSUME CInv, ProgressBacked, Next, NEW t \in Tasks, state[t] # "done", state'[t] = "done"
               PROVE  \A i \in DOMAIN mem : mem[i].uid \in succeeded[t]
    BY DEF vars
  <2>1. Write
    BY DEF CInv, TypeOK, Next, Run, Submit, Enqueue, Requeue, DecideReview, Pick, HandOver, Transition,
      LoadPlan, SubmitForReview, CallTool, NothingReady, StepSucceeds, StepFailsTransiently,
      StepIsBlocked, StepNeedsRepair, Observe, IdleTick, ImproveDone, TryCandidate, PromotionEnds,
      Crash, queueVars
  <2>2. phase = "writing" /\ WriteStepOK(todo) /\ (Transition(cur, Head(todo)) \/ UNCHANGED queueVars)
    BY <2>1, PendingWritesStep DEF Write, CInv, Control
  <2>3. Transition(cur, Head(todo))
    BY <2>2 DEF queueVars
  <2>4. t = cur /\ Head(todo) = "done"
    BY <2>3 DEF Transition, CInv, TypeOK
  <2>5. todo \in FinishingWrites
    BY <2>2, <2>4 DEF WriteStepOK
  <2>6. QED
    BY <2>2, <2>4, <2>5 DEF ProgressBacked, Backed, IsComplete
<1>3. QED
  BY ControlHolds, BackedStep, <1>1, <1>2, PTL DEF Spec, DoneOnlyWhenEveryStepRan

-----------------------------------------------------------------------------
(* The retry budget.  A task that may still run has used, since its last       *)
(* success, what its counter says and whatever crashes and clients gave it     *)
(* back; a task that is settled may have used one more.                        *)

Extra == (crashes + requeues) * (MaxRetries + 1)

Resumable(t) ==
  \/ state[t] \in {"absent", "queued"}
  \/ t = cur /\ phase \in {"picked", "loading", "deciding", "calling"}
  \/ t = cur /\ phase = "writing" /\ todo \in RequeueWrites

BudgetInv ==
  \A t \in Tasks :
    /\ retries[t] <= MaxRetries
    /\ misfires[t] <= Extra + MaxRetries + 1
    /\ Resumable(t) => misfires[t] <= Extra + retries[t]

\* A crash, or a task put back, allows MaxRetries + 1 more.
LEMMA ExtraGrows ==
  ASSUME NEW c \in Nat, NEW m \in Nat
  PROVE  (c + 1) * (m + 1) = c * (m + 1) + (m + 1) /\ c * (m + 1) \in Nat
  OBVIOUS

LEMMA ListsThatEnd ==
  \A ws \in {<<"failed">>, <<"waiting">>, <<"delete", "done">>, <<"save", "delete", "done">>,
             <<"save", "failed">>, <<"save", "waiting">>, <<"save", "blocked">>} :
    ws \notin RequeueWrites
  BY DEF RequeueWrites

LEMMA BudgetStep == CInv /\ BudgetInv /\ [Next]_vars => BudgetInv'
<1> SUFFICES ASSUME CInv, BudgetInv, [Next]_vars
             PROVE  BudgetInv'
  OBVIOUS
<1>0. /\ state \in [Tasks -> TaskState \cup {"absent"}]
      /\ retries \in [Tasks -> Nat] /\ misfires \in [Tasks -> Nat]
      /\ crashes \in Nat /\ requeues \in Nat /\ MaxRetries \in Nat /\ Extra \in Nat
      /\ cur \in Tasks \cup {NoTask} /\ NoTask \notin Tasks
  <2>1. crashes \in Nat /\ requeues \in Nat /\ MaxRetries \in Nat /\ crashes + requeues \in Nat
    BY ExecutiveAssumption DEF CInv, TypeOK
  <2>2. Extra \in Nat
    BY <2>1, ExtraGrows DEF Extra
  <2>3. QED
    BY <2>1, <2>2, ExecutiveAssumption DEF CInv, TypeOK
\* A step that makes no task resumable and counts nothing.
<1>1. ASSUME UNCHANGED <<retries, crashes, requeues, misfires>>,
             \A t \in Tasks : Resumable(t)' => Resumable(t)
      PROVE  BudgetInv'
  BY <1>1 DEF BudgetInv, Extra
<1>2. ASSUME NEW t \in Tasks, Submit(t)
      PROVE  BudgetInv'
  <2>1. \A u \in Tasks : Resumable(u)' => Resumable(u)
    BY <1>0, <1>2 DEF Submit, Enqueue, runnerVars, Resumable
  <2>2. QED
    BY <1>1, <1>2, <2>1 DEF Submit, runnerVars, historyVars
<1>3. ASSUME NEW t \in Tasks, Requeue(t)
      PROVE  BudgetInv'
  <2>1. Extra' = Extra + MaxRetries + 1
    BY <1>0, <1>3, ExtraGrows DEF Requeue, Extra
  <2>2. UNCHANGED <<retries, misfires>>
    BY <1>3 DEF Requeue, runnerVars
  <2>3. QED
    BY <1>0, <2>1, <2>2 DEF BudgetInv
<1>4. ASSUME NEW t \in Tasks, NEW v \in {"approved", "rejected"}, DecideReview(t, v)
      PROVE  BudgetInv'
  BY <1>1, <1>4 DEF DecideReview, queueVars, historyVars, Resumable
<1>5. ASSUME NEW t \in Tasks, Pick(t)
      PROVE  BudgetInv'
  <2>1. \A u \in Tasks : Resumable(u)' => Resumable(u)
    BY <1>0, <1>5 DEF Pick, IsNextQueued, Queued, Transition, Resumable, CInv, Control
  <2>2. QED
    BY <1>1, <1>5, <2>1 DEF Pick, historyVars
<1>6. CASE HandOver
  <2>1. \A u \in Tasks : Resumable(u)' => Resumable(u)
    BY <1>0, <1>6 DEF HandOver, Transition, Resumable
  <2>2. QED
    BY <1>1, <1>6, <2>1 DEF HandOver, historyVars
<1>7. CASE LoadPlan \/ CallTool
  BY <1>1, <1>7 DEF LoadPlan, CallTool, queueVars, historyVars, Resumable
\* A tick that ends for good: the task is no longer resumable.
<1>8. ASSUME NEW ws, NEW o, FinishWith(ws, o), ws \notin RequeueWrites, cur' = cur, UNCHANGED queueVars,
             phase \in {"deciding", "calling"}
      PROVE  /\ ~Resumable(cur)' \/ cur = NoTask
             /\ \A t \in Tasks \ {cur} : Resumable(t)' => Resumable(t)
  BY <1>0, <1>8 DEF FinishWith, queueVars, Resumable, CInv, Control
<1>9. CASE SubmitForReview \/ NothingReady
  <2>1. UNCHANGED <<retries, crashes, requeues, misfires, cur, queueVars>> /\ phase = "deciding"
    BY <1>9 DEF SubmitForReview, NothingReady, historyVars
  <2>2. \/ FinishWith(<<"waiting">>, "plan_review")
        \/ FinishWith(<<"failed">>, "failed")
        \/ FinishWith(<<"delete", "done">>, "done")
    BY <1>9 DEF SubmitForReview, NothingReady
  <2>3. \A t \in Tasks : Resumable(t)' => Resumable(t)
    BY <1>0, <1>8, <2>1, <2>2, ListsThatEnd
  <2>4. QED
    BY <1>1, <2>1, <2>3
<1>10. ASSUME phase = "calling"
       PROVE  Resumable(cur) /\ cur \in Tasks
  BY <1>0, <1>10 DEF Resumable, CInv, Control
\* The counter and the failures of the current task start again from nothing.
<1>11. CASE StepSucceeds
  <2>1. /\ phase = "calling" /\ UNCHANGED <<crashes, requeues, cur, queueVars>>
        /\ retries' = [retries EXCEPT ![cur] = 0]
        /\ misfires' = [misfires EXCEPT ![cur] = 0]
        /\ \A t \in Tasks \ {cur} : Resumable(t)' => Resumable(t)
    BY <1>11 DEF StepSucceeds, FinishWith, queueVars, Resumable
  <2>2. Extra' = Extra
    BY <2>1 DEF Extra
  <2>3. QED
    BY <1>0, <1>10, <2>1, <2>2 DEF BudgetInv
<1>12. ASSUME phase = "calling", UNCHANGED <<crashes, requeues, cur, queueVars>>,
              NEW s, NEW ws, NEW o, GiveUp(s, ws, o), ws \notin RequeueWrites,
              \/ misfires' = misfires
              \/ misfires' = [misfires EXCEPT ![cur] = @ + 1]
       PROVE  BudgetInv'
  <2>1. retries' = [retries EXCEPT ![cur] = 0] /\ FinishWith(ws, o)
    BY <1>12 DEF GiveUp
  <2>2. ~Resumable(cur)' /\ \A t \in Tasks \ {cur} : Resumable(t)' => Resumable(t)
    BY <1>0, <1>8, <1>10, <1>12, <2>1
  <2>3. Extra' = Extra
    BY <1>12 DEF Extra
  <2>4. misfires[cur] <= Extra + MaxRetries
    BY <1>0, <1>10, <1>12 DEF BudgetInv
  <2>5. misfires'[cur] <= Extra + MaxRetries + 1 /\ retries'[cur] <= MaxRetries
    BY <1>0, <1>10, <1>12, <2>1, <2>4
  <2>6. \A t \in Tasks \ {cur} : misfires'[t] = misfires[t] /\ retries'[t] = retries[t]
    BY <1>0, <1>12, <2>1
  <2>7. QED
    BY <1>12, <2>2, <2>3, <2>5, <2>6 DEF BudgetInv
<1>13. CASE StepFailsTransiently
  <2>1. /\ phase = "calling" /\ UNCHANGED <<crashes, requeues, cur, queueVars>>
        /\ misfires' = [misfires EXCEPT ![cur] = @ + 1]
    BY <1>13 DEF StepFailsTransiently
  <2>2. CASE GiveUp("failed", <<"save", "failed">>, "failed")
    BY <1>12, <2>1, <2>2, ListsThatEnd
  <2>3. CASE /\ retries[cur] < MaxRetries
             /\ retries' = [retries EXCEPT ![cur] = @ + 1]
             /\ FinishWith(<<"save", "failed", "queued">>, "retrying")
    <3>1. Extra' = Extra
      BY <2>1 DEF Extra
    <3>2. \A t \in Tasks \ {cur} : Resumable(t)' => Resumable(t)
      BY <2>1 DEF queueVars, Resumable
    <3>3. QED
      BY <1>0, <1>10, <2>1, <2>3, <3>1, <3>2 DEF BudgetInv
  <2>4. QED
    BY <1>13, <2>2, <2>3 DEF StepFailsTransiently, RetryOrFail
<1>14. CASE StepIsBlocked
  <2>1. phase = "calling" /\ UNCHANGED <<crashes, requeues, cur, queueVars, misfires>>
    BY <1>14 DEF StepIsBlocked, historyVars
  <2>2. \/ GiveUp("blocked", <<"save", "waiting">>, "waiting")
        \/ GiveUp("blocked", <<"save", "blocked">>, "blocked")
    BY <1>14 DEF StepIsBlocked
  <2>3. QED
    BY <1>12, <2>1, <2>2, ListsThatEnd
<1>15. ASSUME NEW n \in RepairCounts, StepNeedsRepair(n)
       PROVE  BudgetInv'
  <2>1. phase = "calling" /\ UNCHANGED <<crashes, requeues, cur, queueVars, misfires>>
    BY <1>15 DEF StepNeedsRepair, historyVars
  <2>2. CASE retries' = retries
    <3>1. \A t \in Tasks : Resumable(t)' => Resumable(t)
      BY <1>10, <2>1 DEF queueVars, Resumable
    <3>2. QED
      BY <1>1, <2>1, <2>2, <3>1
  <2>3. CASE GiveUp("failed", <<"save", "failed">>, "failed")
    BY <1>12, <2>1, <2>3, ListsThatEnd
  <2>4. QED
    BY <1>15, <2>2, <2>3 DEF StepNeedsRepair
<1>16. CASE Write
  <2>1. /\ phase = "writing" /\ cur \in Tasks /\ WriteStepOK(todo) /\ todo' = Tail(todo)
        /\ UNCHANGED <<cur, retries, crashes, requeues, misfires>>
        /\ phase' = IF Len(todo) = 1 THEN "observing" ELSE "writing"
    BY <1>0, <1>16, PendingWritesStep DEF Write, CInv, Control, historyVars
  <2>2. Transition(cur, Head(todo)) \/ UNCHANGED queueVars
    BY <1>16 DEF Write
  <2>3. state[cur] \notin {"absent", "queued"}
    BY <2>1 DEF CInv, Control
  <2>4. \A t \in Tasks \ {cur} : state'[t] = state[t]
    BY <1>0, <2>2 DEF Transition, queueVars
  <2>5. state'[cur] \in {"absent", "queued"} => Head(todo) = "queued"
    BY <1>0, <2>1, <2>2, <2>3 DEF Transition, queueVars, Allowed
  <2>6. Resumable(cur)' => Resumable(cur)
    BY <2>1, <2>5 DEF WriteStepOK, Resumable
  <2>7. \A t \in Tasks : Resumable(t)' => Resumable(t)
    BY <2>1, <2>4, <2>6 DEF Resumable
  <2>8. QED
    BY <1>1, <2>1, <2>7
<1>17. CASE Observe
  BY <1>0, <1>1, <1>17 DEF Observe, queueVars, historyVars, Resumable
<1>18. CASE IdleTick \/ ImproveDone \/ TryCandidate \/ PromotionEnds
  BY <1>1, <1>18 DEF IdleTick, ImproveDone, TryCandidate, PromotionEnds, queueVars, historyVars, Resumable
<1>19. CASE Crash
  <2>1. Extra' = Extra + MaxRetries + 1
    BY <1>0, <1>19, ExtraGrows DEF Crash, Extra
  <2>2. misfires' = misfires /\ \A t \in Tasks : retries'[t] = 0
    BY <1>19 DEF Crash
  <2>3. QED
    BY <1>0, <2>1, <2>2 DEF BudgetInv
<1>20. CASE UNCHANGED vars
  BY <1>1, <1>20 DEF vars, queueVars, runnerVars, historyVars, Resumable
<1>21. QED
  BY <1>2, <1>3, <1>4, <1>5, <1>6, <1>7, <1>9, <1>11, <1>13, <1>14, <1>15, <1>16, <1>17, <1>18,
     <1>19, <1>20 DEF Next, Run

\* Between two successes a task fails transiently at most MaxRetries + 1 times, and
\* as often again for every crash and every time it is put back.
THEOREM RetryBounded == Spec => []RetryBudget
<1>1. Init => BudgetInv
  BY ExecutiveAssumption DEF Init, QueueInit, BudgetInv, Extra, Resumable
<1>2. CInv /\ BudgetInv => RetryBudget
  <2> SUFFICES ASSUME CInv, BudgetInv, NEW t \in Tasks
               PROVE  misfires[t] <= (crashes + requeues + 1) * (MaxRetries + 1)
    BY DEF RetryBudget
  <2>1. crashes + requeues \in Nat /\ MaxRetries \in Nat /\ misfires[t] \in Nat
    BY ExecutiveAssumption DEF CInv, TypeOK
  <2>2. misfires[t] <= (crashes + requeues) * (MaxRetries + 1) + MaxRetries + 1
    BY DEF BudgetInv, Extra
  <2>3. QED
    BY <2>1, <2>2, ExtraGrows
<1>3. QED
  BY ControlHolds, BudgetStep, <1>1, <1>2, PTL DEF Spec

-----------------------------------------------------------------------------
(* What is on disk for a task is its progress. *)

OnDisk(t) == IF saved[t] = NoPlan THEN succeeded[t] = {} ELSE Faithful(saved[t], succeeded[t])

\* Where progress is: on disk while a task can still be picked, in memory from then on
\* until the tick has written it.  A task a crash stops in between is not picked again.
PInv ==
  requeues = 0 =>
    /\ \A t \in Tasks : repeated[t] = {}
    /\ \A t \in Tasks : state[t] \in {"absent", "queued"} => OnDisk(t)
    /\ phase \in {"picked", "loading"} => OnDisk(cur)
    /\ phase \in {"deciding", "calling", "writing"} => Faithful(mem, succeeded[cur])
    /\ phase = "calling" => mem[at].status = "pending"
    /\ phase = "writing" /\ todo \in {<<"queued">>, <<"failed", "queued">>} => saved[cur] = mem

\* A plan the planner makes says that nothing has succeeded.
LEMMA InitialFaithful ==
  ASSUME NEW plan \in InitialPlans
  PROVE  Faithful(plan, {})
<1>1. plan \in Plan /\ plan # NoPlan /\ \A i \in DOMAIN plan : plan[i].status = "pending" /\ plan[i].uid = i
  BY ExecutiveAssumption DEF NoPlan
<1>2. DOMAIN plan = 1 .. Len(plan)
  BY <1>1 DEF Plan
<1> QED BY <1>1, <1>2 DEF Faithful, Numbered, NoPlan

\* The lists that put the task back after its plan has been saved.
AfterSave == {<<"queued">>, <<"failed", "queued">>}

\* What a write has to do with the plan on disk.
LEMMA SavedBefore ==
  ASSUME NEW ws \in PendingWrites
  PROVE  /\ Head(ws) = "queued" => ws \in AfterSave
         /\ Tail(ws) \in AfterSave => Head(ws) = "save" \/ (ws \in AfterSave /\ Head(ws) = "failed")
         /\ Head(ws) \in TaskState => Head(ws) # "absent"
<1> USE DEF PendingWrites, FinishingWrites, AfterSave, TaskState
<1>1. CASE ws = <<"done">>
  BY <1>1
<1>2. CASE ws = <<"failed">>
  BY <1>2
<1>3. CASE ws = <<"waiting">>
  BY <1>3
<1>4. CASE ws = <<"blocked">>
  BY <1>4
<1>5. CASE ws = <<"queued">>
  BY <1>5
<1>6. CASE ws = <<"delete", "done">>
  BY <1>6
<1>7. CASE ws = <<"save", "queued">>
  BY <1>7
<1>8. CASE ws = <<"save", "failed">>
  BY <1>8
<1>9. CASE ws = <<"save", "waiting">>
  BY <1>9
<1>10. CASE ws = <<"save", "blocked">>
  BY <1>10
<1>11. CASE ws = <<"failed", "queued">>
  BY <1>11
<1>12. CASE ws = <<"save", "delete", "done">>
  BY <1>12
<1>13. CASE ws = <<"save", "failed", "queued">>
  BY <1>13
<1> QED BY <1>1, <1>2, <1>3, <1>4, <1>5, <1>6, <1>7, <1>8, <1>9, <1>10, <1>11, <1>12, <1>13

\* No list a tick ends with is one of them: the plan is saved first.
LEMMA SavedFirst ==
  \A ws \in {<<"save", "delete", "done">>, <<"delete", "done">>, <<"failed">>, <<"waiting">>,
             <<"save", "queued">>, <<"save", "failed">>, <<"save", "waiting">>,
             <<"save", "blocked">>, <<"save", "failed", "queued">>} : ws \notin AfterSave
BY DEF AfterSave

LEMMA ProgressStep == CInv /\ PInv /\ [Next]_vars => PInv'
<1> SUFFICES ASSUME CInv, PInv, [Next]_vars, requeues' = 0
             PROVE  PInv'
  BY DEF PInv
<1>0. /\ requeues = 0
      /\ cur \in Tasks \cup {NoTask} /\ mem \in Plan
      /\ succeeded \in [Tasks -> SUBSET Nat] /\ repeated \in [Tasks -> SUBSET Nat]
      /\ saved \in [Tasks -> Plan] /\ state \in [Tasks -> TaskState \cup {"absent"}]
      /\ phase \in {"picked", "loading", "deciding", "calling", "writing"} => cur \in Tasks
      /\ phase = "calling" => at \in DOMAIN mem
  <2>1. requeues = 0
    BY DEF CInv, TypeOK, Next, Run, Submit, Requeue, DecideReview, Pick, HandOver, LoadPlan,
           SubmitForReview, CallTool, NothingReady, StepSucceeds, StepFailsTransiently,
           StepIsBlocked, StepNeedsRepair, Write, Observe, IdleTick, ImproveDone, TryCandidate,
           PromotionEnds, Crash, vars, historyVars
  <2> QED BY <2>1 DEF CInv, TypeOK, Control
<1>p. /\ \A t \in Tasks : repeated[t] = {}
      /\ \A t \in Tasks : state[t] \in {"absent", "queued"} => OnDisk(t)
      /\ phase \in {"picked", "loading"} => OnDisk(cur)
      /\ phase \in {"deciding", "calling", "writing"} => Faithful(mem, succeeded[cur])
      /\ phase = "calling" => mem[at].status = "pending"
      /\ phase = "writing" /\ todo \in AfterSave => saved[cur] = mem
  BY <1>0 DEF PInv, AfterSave
\* Nothing happens to plans.
<1>1. ASSUME UNCHANGED <<saved, succeeded, repeated>>,
             \A t \in Tasks : state'[t] \in {"absent", "queued"} => state[t] \in {"absent", "queued"},
             \/ phase' \notin {"picked", "loading", "deciding", "calling", "writing"}
             \/ UNCHANGED <<phase, cur, mem, at, todo>>
      PROVE  PInv'
  BY <1>1, <1>p DEF PInv, OnDisk, AfterSave
<1>2. ASSUME NEW t \in Tasks, NEW v \in {"approved", "rejected"},
             Submit(t) \/ Requeue(t) \/ DecideReview(t, v)
      PROVE  PInv'
  <2>1. CASE Submit(t)
    BY <1>0, <1>1, <2>1 DEF Submit, Enqueue, storeVars, runnerVars, historyVars
  <2>2. CASE Requeue(t)
    BY <1>0, <2>2 DEF Requeue
  <2>3. CASE DecideReview(t, v)
    BY <1>0, <1>1, <2>3 DEF DecideReview, queueVars, storeVars, historyVars
  <2> QED BY <1>2, <2>1, <2>2, <2>3
<1>3. ASSUME NEW t \in Tasks, Pick(t)
      PROVE  PInv'
  <2>1. /\ OnDisk(t) /\ phase' = "picked" /\ cur' = t
        /\ UNCHANGED <<saved, succeeded, repeated>>
        /\ state' = [state EXCEPT ![t] = "planning"]
    BY <1>3, <1>p DEF Pick, IsNextQueued, Queued, Transition, storeVars, historyVars
  <2> QED BY <1>0, <1>p, <2>1 DEF PInv, OnDisk
<1>4. CASE HandOver
  <2>1. /\ phase = "picked" /\ phase' = "loading" /\ cur' = cur
        /\ UNCHANGED <<saved, succeeded, repeated>>
        /\ state' = [state EXCEPT ![cur] = "executing"]
    BY <1>4 DEF HandOver, Transition, storeVars, historyVars
  <2> QED BY <1>0, <1>p, <2>1 DEF PInv, OnDisk
<1>5. CASE LoadPlan
  <2>1. /\ phase = "loading" /\ cur \in Tasks /\ cur' = cur /\ phase' = "deciding"
        /\ UNCHANGED <<state, succeeded, repeated>>
        /\ saved' = [saved EXCEPT ![cur] = mem'] /\ state[cur] = "executing"
    BY <1>0, <1>5 DEF LoadPlan, queueVars, historyVars, CInv, Control
  <2>2. Faithful(mem', succeeded[cur])
    <3>1. CASE saved[cur] # NoPlan /\ mem' = saved[cur]
      BY <1>p, <2>1, <3>1 DEF OnDisk
    <3>2. CASE saved[cur] = NoPlan /\ mem' \in InitialPlans
      BY <1>p, <2>1, <3>2, InitialFaithful DEF OnDisk
    <3> QED BY <1>5, <3>1, <3>2 DEF LoadPlan
  <2> QED BY <1>0, <1>p, <2>1, <2>2 DEF PInv, OnDisk
<1>6. CASE CallTool
  <2>1. /\ phase = "deciding" /\ phase' = "calling" /\ at' \in DOMAIN mem
        /\ mem[at'].status = "pending"
        /\ UNCHANGED <<state, saved, succeeded, repeated, cur, mem>>
    BY <1>6 DEF CallTool, IsNextReady, ReadySteps, queueVars, storeVars, historyVars
  <2> QED BY <1>p, <2>1 DEF PInv, OnDisk
\* A tick that is decided: the plan in memory is right, and what it writes first is that.
<1>7. ASSUME NEW ws, NEW o, FinishWith(ws, o), ws \notin AfterSave, cur \in Tasks,
             Faithful(mem', succeeded'[cur]), UNCHANGED <<state, saved, cur>>,
             \A t \in Tasks : repeated'[t] = {},
             \A t \in Tasks \ {cur} : succeeded'[t] = succeeded[t],
             state[cur] = "executing"
      PROVE  PInv'
  BY <1>7, <1>p DEF FinishWith, PInv, OnDisk, AfterSave
<1>8. CASE SubmitForReview
  <2>1. /\ phase = "deciding" /\ cur \in Tasks /\ state[cur] = "executing"
        /\ FinishWith(<<"waiting">>, "plan_review")
        /\ UNCHANGED <<state, saved, cur, mem, succeeded, repeated>>
    BY <1>0, <1>8 DEF SubmitForReview, queueVars, storeVars, historyVars, CInv, Control
  <2> QED BY <1>7, <1>p, <2>1, SavedFirst
<1>9. CASE NothingReady
  <2>1. /\ phase = "deciding" /\ cur \in Tasks /\ state[cur] = "executing"
        /\ UNCHANGED <<state, saved, cur, mem, succeeded, repeated>>
    BY <1>0, <1>9 DEF NothingReady, queueVars, storeVars, historyVars, CInv, Control
  <2>2. FinishWith(<<"delete", "done">>, "done") \/ FinishWith(<<"failed">>, "failed")
    BY <1>9 DEF NothingReady
  <2> QED BY <1>7, <1>p, <2>1, <2>2, SavedFirst
<1>10. CASE StepSucceeds
  <2>1. /\ phase = "calling" /\ cur \in Tasks /\ at \in DOMAIN mem /\ state[cur] = "executing"
        /\ mem' = SetStatus(mem, at, "done")
        /\ succeeded' = [succeeded EXCEPT ![cur] = @ \cup {mem[at].uid}]
        /\ repeated' = [repeated EXCEPT ![cur] = @ \cup ({mem[at].uid} \cap succeeded[cur])]
        /\ UNCHANGED <<state, saved, cur>>
    BY <1>0, <1>10 DEF StepSucceeds, Uid, queueVars, storeVars, CInv, Control
  <2>2. FinishWith(<<"save", "delete", "done">>, "done") \/ FinishWith(<<"save", "queued">>, "step_done")
    BY <1>10 DEF StepSucceeds
  <2>3. mem[at].uid \notin succeeded[cur]
    BY <1>p, <2>1 DEF Faithful
  <2>4. Faithful(mem', succeeded'[cur])
    BY <1>0, <1>p, <2>1, FaithfulDone
  <2>5. /\ \A t \in Tasks : repeated'[t] = {}
        /\ \A t \in Tasks \ {cur} : succeeded'[t] = succeeded[t]
    BY <1>0, <1>p, <2>1, <2>3
  <2> QED BY <1>7, <2>1, <2>2, <2>4, <2>5, SavedFirst
<1>11. ASSUME phase = "calling", NEW s \in {"pending", "failed", "blocked"},
              mem' = SetStatus(mem, at, s)
       PROVE  Faithful(mem', succeeded[cur])
  <2>1. s \in StepStatus \ {"done"} /\ mem[at].status # "done"
    BY <1>11, <1>p DEF StepStatus
  <2> QED BY <1>0, <1>p, <1>11, <2>1, FaithfulUndone
<1>12. CASE StepFailsTransiently \/ StepIsBlocked
  <2>1. /\ phase = "calling" /\ cur \in Tasks /\ state[cur] = "executing"
        /\ UNCHANGED <<state, saved, cur, succeeded, repeated>>
    BY <1>0, <1>12
    DEF StepFailsTransiently, StepIsBlocked, queueVars, storeVars, historyVars, CInv, Control
  <2>2. /\ \E s \in {"pending", "failed", "blocked"} : mem' = SetStatus(mem, at, s)
        /\ \E ws \in {<<"save", "failed">>, <<"save", "failed", "queued">>, <<"save", "waiting">>,
                       <<"save", "blocked">>}, o \in Outcomes : FinishWith(ws, o)
    BY <1>12 DEF StepFailsTransiently, RetryOrFail, StepIsBlocked, GiveUp, Outcomes
  <2> QED BY <1>7, <1>11, <1>p, <2>1, <2>2, SavedFirst
<1>13. ASSUME NEW n \in RepairCounts, StepNeedsRepair(n)
       PROVE  PInv'
  <2>1. /\ phase = "calling" /\ cur \in Tasks /\ state[cur] = "executing"
        /\ UNCHANGED <<state, saved, cur, succeeded, repeated>>
    BY <1>0, <1>13 DEF StepNeedsRepair, queueVars, storeVars, historyVars, CInv, Control
  <2>2. \/ mem' = SetStatus(mem, at, "failed") /\ FinishWith(<<"save", "failed">>, "failed")
        \/ mem' = Repaired(mem, at, n) /\ FinishWith(<<"save", "queued">>, "repair_inserted")
    BY <1>13 DEF StepNeedsRepair, GiveUp
  <2>3. Faithful(Repaired(mem, at, n), succeeded[cur])
    BY <1>0, <1>p, <2>1, ExecutiveAssumption, FaithfulRepaired
  <2> QED BY <1>7, <1>11, <1>p, <2>1, <2>2, <2>3, SavedFirst
<1>14. CASE Write
  <2>1. /\ phase = "writing" /\ cur \in Tasks /\ todo \in PendingWrites
        /\ UNCHANGED <<cur, mem, succeeded, repeated>> /\ todo' = Tail(todo)
        /\ phase' \in {"writing", "observing"}
        /\ state[cur] \notin {"absent", "queued"}
    BY <1>0, <1>14 DEF Write, CInv, Control, historyVars
  <2>2. \/ Head(todo) \in TaskState /\ state' = [state EXCEPT ![cur] = Head(todo)] /\ saved' = saved
        \/ Head(todo) = "save" /\ saved' = [saved EXCEPT ![cur] = mem] /\ state' = state
        \/ Head(todo) = "delete" /\ saved' = [saved EXCEPT ![cur] = NoPlan] /\ state' = state
    BY <1>14 DEF Write, Transition, queueVars
  <2>3. \A t \in Tasks \ {cur} : state'[t] = state[t] /\ saved'[t] = saved[t]
    BY <1>0, <2>2
  <2>4. state'[cur] \in {"absent", "queued"} => saved'[cur] = mem
    <3>1. CASE Head(todo) \in TaskState /\ state' = [state EXCEPT ![cur] = Head(todo)] /\ saved' = saved
      BY <1>0, <1>p, <2>1, <3>1, SavedBefore
    <3>2. CASE state' = state
      BY <2>1, <3>2
    <3> QED BY <2>2, <3>1, <3>2
  <2>5. phase' = "writing" /\ todo' \in AfterSave => saved'[cur] = mem
    BY <1>0, <1>p, <2>1, <2>2, SavedBefore DEF TaskState
  <2>6. mem # NoPlan /\ Faithful(mem, succeeded[cur])
    BY <1>p, <2>1 DEF Faithful, NoPlan
  <2> QED BY <1>p, <2>1, <2>3, <2>4, <2>5, <2>6 DEF PInv, OnDisk, AfterSave
<1>15. CASE Observe
  BY <1>1, <1>15 DEF Observe, queueVars, historyVars
<1>16. CASE IdleTick \/ ImproveDone \/ TryCandidate \/ PromotionEnds
  BY <1>1, <1>16 DEF IdleTick, ImproveDone, TryCandidate, PromotionEnds, queueVars, storeVars, historyVars
<1>17. CASE Crash
  BY <1>1, <1>17 DEF Crash, queueVars, storeVars
<1>18. CASE UNCHANGED vars
  BY <1>1, <1>18 DEF vars, queueVars, storeVars, runnerVars, historyVars
<1> QED
  BY <1>2, <1>3, <1>4, <1>5, <1>6, <1>8, <1>9, <1>10, <1>12, <1>13, <1>14, <1>15, <1>16, <1>17,
     <1>18 DEF Next, Run

\* What is on disk for a queued task is exactly what has succeeded, and no step's tool
\* succeeds twice, for any tasks, plans, repairs, retries and crashes, as long as nobody
\* puts back a task that was stopped.
THEOREM ProgressOnDisk == Spec => []NoDuplicateExecution
<1>1. Init => PInv
  BY ExecutiveAssumption DEF Init, QueueInit, PInv, OnDisk
<1>2. PInv => NoDuplicateExecution
  BY DEF PInv, OnDisk, Faithful, NoDuplicateExecution, Queued, NoPlan
<1> QED BY <1>1, <1>2, ControlHolds, ProgressStep, PTL DEF Spec

-----------------------------------------------------------------------------
(* What a tool call waits for. *)

LEMMA WiredInitial ==
  ASSUME NEW plan \in InitialPlans
  PROVE  Wired(plan)
<1>1. /\ plan \in Plan /\ IsForward(plan)
      /\ \A i \in DOMAIN plan : plan[i].uid = i /\ plan[i].needs = plan[i].deps
  BY ExecutiveAssumption
<1>2. DOMAIN plan = 1 .. Len(plan) /\ Len(plan) \in Nat
  BY <1>1 DEF Plan
<1>3. ASSUME NEW i \in DOMAIN plan, NEW u \in plan[i].needs
      PROVE  u \in DOMAIN plan /\ plan[u].uid = u /\ u \in plan[i].deps
  BY <1>1, <1>2, <1>3 DEF IsForward
<1> QED BY <1>1, <1>3 DEF IsForward, Wired

\* Every plan there is is wired, and the step being run was ready.
OInv ==
  /\ Wired(mem)
  /\ \A t \in Tasks : Wired(saved[t])
  /\ phase = "calling" => at \in ReadySteps(mem)

LEMMA WiredStep ==
  ASSUME RepairCounts \subseteq {0, 1}, CInv, OInv, [Next]_vars
  PROVE  OInv'
<1>0. /\ cur \in Tasks \cup {NoTask} /\ mem \in Plan /\ saved \in [Tasks -> Plan]
      /\ phase \in {"picked", "loading", "deciding", "calling", "writing"} => cur \in Tasks
      /\ phase = "calling" => at \in DOMAIN mem
  BY DEF CInv, TypeOK, Control
<1>1. /\ Wired(mem) /\ \A t \in Tasks : Wired(saved[t])
      /\ phase = "calling" => at \in ReadySteps(mem)
  BY DEF OInv
<1>2. ASSUME UNCHANGED saved, mem' = mem \/ mem' = NoPlan, phase' # "calling"
      PROVE  OInv'
  BY <1>1, <1>2, WiredEmpty DEF OInv, NoPlan
<1>3. ASSUME NEW t \in Tasks, NEW v \in {"approved", "rejected"},
             Submit(t) \/ Requeue(t) \/ DecideReview(t, v)
      PROVE  OInv'
  BY <1>1, <1>3 DEF Submit, Requeue, DecideReview, storeVars, runnerVars, OInv
<1>4. ASSUME NEW t \in Tasks, Pick(t)
      PROVE  OInv'
  BY <1>2, <1>4 DEF Pick, storeVars
<1>5. CASE HandOver
  BY <1>2, <1>5 DEF HandOver, storeVars
<1>6. CASE LoadPlan
  <2>1. /\ saved' = [saved EXCEPT ![cur] = mem'] /\ phase' = "deciding" /\ cur \in Tasks
        /\ mem' = saved[cur] \/ mem' \in InitialPlans
    BY <1>0, <1>6 DEF LoadPlan
  <2>2. Wired(mem')
    BY <1>1, <2>1, WiredInitial
  <2> QED BY <1>0, <1>1, <2>1, <2>2 DEF OInv
<1>7. CASE SubmitForReview \/ NothingReady
  BY <1>2, <1>7 DEF SubmitForReview, NothingReady, FinishWith, storeVars
<1>8. CASE CallTool
  <2>1. at' \in ReadySteps(mem) /\ UNCHANGED <<mem, saved>>
    BY <1>8 DEF CallTool, IsNextReady, storeVars
  <2> QED BY <1>1, <2>1 DEF OInv
\* The verdict on a step that was ready.
<1>9. ASSUME phase = "calling", UNCHANGED saved, phase' = "writing",
             \/ \E s \in StepStatus : mem' = SetStatus(mem, at, s)
             \/ mem' = Repaired(mem, at, 1)
      PROVE  OInv'
  <2>1. at \in DOMAIN mem /\ at \in ReadySteps(mem) /\ mem[at].status # "done"
    BY <1>0, <1>1, <1>9 DEF ReadySteps
  <2>2. Wired(mem')
    BY <1>0, <1>1, <1>9, <2>1, WiredStatus, WiredRepaired
  <2> QED BY <1>1, <1>9, <2>2 DEF OInv
<1>10. CASE StepSucceeds
  BY <1>9, <1>10 DEF StepSucceeds, FinishWith, storeVars, StepStatus
<1>11. CASE StepFailsTransiently
  BY <1>9, <1>11 DEF StepFailsTransiently, RetryOrFail, GiveUp, FinishWith, storeVars, StepStatus
<1>12. CASE StepIsBlocked
  BY <1>9, <1>12 DEF StepIsBlocked, GiveUp, FinishWith, storeVars, StepStatus
<1>13. ASSUME NEW n \in RepairCounts, StepNeedsRepair(n)
       PROVE  OInv'
  BY <1>9, <1>13 DEF StepNeedsRepair, GiveUp, FinishWith, storeVars, StepStatus
<1>14. CASE Write
  <2>1. /\ phase = "writing" /\ mem' = mem /\ phase' # "calling"
        /\ saved' = saved \/ saved' = [saved EXCEPT ![cur] = mem] \/ saved' = [saved EXCEPT ![cur] = NoPlan]
    BY <1>14 DEF Write
  <2> QED BY <1>0, <1>1, <2>1, WiredEmpty DEF OInv, NoPlan
<1>15. CASE Observe \/ Crash
  BY <1>2, <1>15 DEF Observe, Crash, storeVars
<1>16. CASE IdleTick \/ ImproveDone \/ TryCandidate \/ PromotionEnds
  BY <1>2, <1>16 DEF IdleTick, ImproveDone, TryCandidate, PromotionEnds, storeVars
<1>17. CASE UNCHANGED vars
  BY <1>1, <1>17 DEF vars, storeVars, runnerVars, OInv
<1> QED
  BY <1>3, <1>4, <1>5, <1>6, <1>7, <1>8, <1>10, <1>11, <1>12, <1>13, <1>14, <1>15, <1>16, <1>17
  DEF Next, Run

\* As long as reflection proposes at most one repair at a time, no tool is called before
\* what its step needs is done, and no plan waits for itself, for any tasks, plans,
\* retries, repairs of repairs and crashes.
THEOREM RightOrder ==
  ASSUME RepairCounts \subseteq {0, 1}
  PROVE  Spec => []DependencyOrder
<1>1. Init => OInv
  BY WiredEmpty DEF Init, OInv, NoPlan
<1>2. CInv /\ OInv => DependencyOrder
  <2> SUFFICES ASSUME CInv, OInv PROVE DependencyOrder
    OBVIOUS
  <2>1. ASSUME phase = "calling", NEW u \in mem[at].needs
        PROVE  \E i \in DOMAIN mem : mem[i].uid = u /\ mem[i].status = "done"
    <3>1. at \in DOMAIN mem /\ mem[at].deps \subseteq DoneAt(mem)
      BY <2>1 DEF OInv, ReadySteps
    <3> QED BY <2>1, <3>1 DEF OInv, Wired, DoneAt
  <2>2. (\A i \in DOMAIN mem : mem[i].status \in {"pending", "done"}) =>
          IsComplete(mem) \/ ReadySteps(mem) # {}
    BY NoWedge DEF CInv, TypeOK, OInv
  <2> QED BY <2>1, <2>2 DEF DependencyOrder
<1>3. CInv /\ OInv /\ [Next]_vars => OInv'
  BY WiredStep
<1> QED BY <1>1, <1>2, <1>3, ControlHolds, PTL DEF Spec
=============================================================================
