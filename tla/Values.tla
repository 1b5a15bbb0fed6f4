--------------------------------- MODULE Values ---------------------------------
(* What the modules about plans, records and what is learned from them share. *)

CONSTANT None   \* no value
=============================================================================
