---------------------------- MODULE MCJournalQueue ----------------------------
(* Small sets of clients for JournalQueue. *)
EXTENDS JournalQueue, TLC

CONSTANTS s1, s2, r1, x, y

\* Both may send y, at the same time or one after the other.
SharedText == (s1 :> {x, y}) @@ (s2 :> {y})

NoUrgency == [t \in Texts |-> 0]
=============================================================================
