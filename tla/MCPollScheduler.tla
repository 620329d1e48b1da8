-------------------------- MODULE MCPollScheduler --------------------------
(* Two tag groups, the intervals of which differ and share a multiple.     *)
EXTENDS PollScheduler, TLC

CONSTANTS g1, g2

MCInterval == g1 :> 2 @@ g2 :> 3
=============================================================================
