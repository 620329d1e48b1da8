----------------------------- MODULE PollResults ----------------------------
(***************************************************************************)
(* The poll results (WorkerPollResult) that travel from the pollers to the *)
(* database.  execution_id is a fresh uuid4 for every poll, and every      *)
(* store keys its rows by it, so a poll result is named by it.             *)
(***************************************************************************)
EXTENDS FiniteSets

CONSTANT Items

ASSUME ItemsAssumption == IsFiniteSet(Items)
=============================================================================
