------------------------- MODULE MCConnectionWorker -------------------------
(* A supervisor, the poll cycle of a group, and that of a group of no tags. *)
EXTENDS ConnectionWorker

CONSTANTS sup, poll, empty
=============================================================================
