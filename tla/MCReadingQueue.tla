--------------------------- MODULE MCReadingQueue ---------------------------
(* Three producers for TLC. *)
EXTENDS ReadingQueue

CONSTANTS a, b, c

ThreeItems == {a, b, c}
=============================================================================
