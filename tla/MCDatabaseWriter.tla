-------------------------- MODULE MCDatabaseWriter --------------------------
(* Instances of DatabaseWriter for TLC. *)
EXTENDS DatabaseWriter, TLC

CONSTANTS a, b, c, t1, t2

TwoItems == {a, b}
ThreeItems == {a, b, c}
OneThread == {t1}
TwoThreads == {t1, t2}
NoItems == {}
PoisonedItem == {a}

ThreadSymmetry == Permutations(Threads)
Symmetry == Permutations(Items) \cup ThreadSymmetry
=============================================================================
