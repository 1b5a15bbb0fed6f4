------------------------------ MODULE MCLearning ------------------------------
(* A small instance of Learning for TLC: a suite like default_suite(). *)
EXTENDS Learning

CONSTANTS c1, c2, list, write, read

\* One case that `list` mends, one nothing mends, one for `read`, two for `write`, and
\* one that always passes.  The write intent is looked for first: with its keyword the
\* list case is lost.
Needs == <<{list}, {NoKeyword}, {read}, {write}, {write}, {}>>
Lost  == <<{write}, {}, {}, {}, {}, {}>>
Made  == <<list, NoKeyword, read, write, write, NoKeyword>>

Suite ==
  [K \in SUBSET Keywords |->
     {x \in 1 .. 6 : (Needs[x] = {} \/ Needs[x] \cap K # {}) /\ Lost[x] \cap K = {}}]

FirstWord == [x \in 1 .. 6 |-> Made[x]]
=============================================================================
