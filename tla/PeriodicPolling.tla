--------------------------- MODULE PeriodicPolling ---------------------------
(***************************************************************************)
(* What the scheduler promises every tag group, without loop, sleep, tasks *)
(* and due times.  The points of a group are the multiples of its interval *)
(* that the clock has reached.  Whenever the scheduler takes a turn, every *)
(* point is accounted for: as the start of a cycle if none goes on, and as *)
(* missed otherwise or when a later point has the cycle.  A cycle that was *)
(* started ends, and the next can begin; only one that is cancelled before *)
(* it executes is lost, and takes its group with it.                       *)
(***************************************************************************)
EXTENDS Integers

CONSTANTS Groups, Interval

VARIABLES
    now,       \* the time
    cycle,     \* of each group: "idle", "fresh", "polling" or "lost"
    started,   \* the points that got a cycle
    missed     \* those that did not

pollingVars == <<now, cycle, started, missed>>

PollingInit ==
    /\ now = 0
    /\ cycle = [g \in Groups |-> "idle"]
    /\ started = [g \in Groups |-> 0]
    /\ missed = [g \in Groups |-> 0]

\* The points of g, from 0 on, that nobody has accounted for.
OpenPoints(g) == now \div Interval[g] + 1 - (started[g] + missed[g])

\* The groups for which a turn starts a cycle.
Starting == {g \in Groups : OpenPoints(g) > 0 /\ cycle[g] = "idle"}

Turn ==
    /\ cycle' = [g \in Groups |-> IF g \in Starting THEN "fresh" ELSE cycle[g]]
    /\ started' = [g \in Groups |-> started[g] + IF g \in Starting THEN 1 ELSE 0]
    /\ missed' = [g \in Groups |->
                    missed[g] + OpenPoints(g) - IF g \in Starting THEN 1 ELSE 0]
    /\ UNCHANGED now

Proceed(g) ==
    /\ \/ cycle[g] = "fresh" /\ cycle' = [cycle EXCEPT ![g] = "polling"]
       \/ cycle[g] = "polling" /\ cycle' = [cycle EXCEPT ![g] = "idle"]
    /\ UNCHANGED <<now, started, missed>>

\* Cancellation reaches the fresh cycles before their first step.
LoseFresh ==
    /\ cycle' = [g \in Groups |-> IF cycle[g] = "fresh" THEN "lost" ELSE cycle[g]]
    /\ UNCHANGED <<now, started, missed>>

Pass ==
    /\ now' = now + 1
    /\ UNCHANGED <<cycle, started, missed>>

PollingNext ==
    \/ Turn
    \/ \E g \in Groups : Proceed(g)
    \/ LoseFresh
    \/ Pass

PollingSpec == PollingInit /\ [][PollingNext]_pollingVars
=============================================================================
