-------------------------------- MODULE Sorting --------------------------------
(* Sorting by a relation, as a value that can be reasoned about: what sorted()    *)
(* does where a key decides and equals keep their order.                          *)
EXTENDS Integers, FiniteSets

\* How many of S come before x; `before` is the set of the pairs in order.
Place(S, before, x) == Cardinality({y \in S : <<y, x>> \in before})

\* S as a sequence, if `before` is a strict total order on it.
Sorted(S, before) ==
  [n \in 1 .. Cardinality(S) |-> CHOOSE x \in S : Place(S, before, x) = n - 1]

\* What is in the sequence s, sorted, if `before` is one on its places.
SortedBy(s, before) ==
  [n \in DOMAIN s |-> CHOOSE x \in {s[i] : i \in DOMAIN s} :
                        \E i \in DOMAIN s : s[i] = x /\ Place(DOMAIN s, before, i) = n - 1]

\* A sequence of numbers, the least first.
Ascending(s) ==
  [n \in DOMAIN s |-> CHOOSE x \in {s[i] : i \in DOMAIN s} :
                        /\ Cardinality({i \in DOMAIN s : s[i] < x}) < n
                        /\ n <= Cardinality({i \in DOMAIN s : s[i] <= x})]
=============================================================================
