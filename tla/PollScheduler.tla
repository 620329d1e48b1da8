---------------------------- MODULE PollScheduler ----------------------------
(***************************************************************************)
(* The scheduler that starts a poll cycle of every tag group at its fixed  *)
(* interval (runtime/scheduler.py).  Time is counted in ticks of the       *)
(* monotonic clock from the construction of the scheduler, and passes      *)
(* between any two steps, so the loop may also be late.                    *)
(*                                                                         *)
(* run() is one coroutine: loop is "off", "created" (its task exists and   *)
(* has not executed yet), "sleep" (in _sleep) or "cancelling" (waiting for *)
(* the cycles it cancelled).  Every cycle is a task of its own: fresh      *)
(* until its first step, then polling, and stopping once cancelled.        *)
(***************************************************************************)
EXTENDS Integers, FiniteSets

CONSTANTS
    Groups,       \* the enabled tag groups
    Interval,     \* interval_ms of each group, in ticks
    MaxTime,      \* bound: the time
    MaxCancels,   \* bound: cancellations of the run() task
    MaxCalls      \* bound: calls of cancel_active_cycles() by other code

ASSUME SchedulerAssumption ==
    /\ IsFiniteSet(Groups) /\ Groups # {}
    /\ Interval \in [Groups -> Nat \ {0}]
    /\ MaxTime \in Nat
    /\ MaxCancels \in Nat
    /\ MaxCalls \in Nat

VARIABLES
    now,        \* the clock
    loop,       \* where run() is
    wake,       \* when its sleep is over, 0 when it does not execute
    running,    \* _running
    stop,       \* _stop_requested
    awaited,    \* the groups whose cycles a cancelled run() waits for
    active,     \* active[g]: active_task of g is not None
    fresh, polling, stopping,   \* the cycles of g that exist, by their state
    nextDue,    \* next_due_at
    started,    \* started_cycles
    missed,     \* missed_cycles
    cancels,    \* cancellations of run() so far
    calls       \* calls of cancel_active_cycles() so far

loopVars == <<loop, wake, running, stop, awaited>>
cycleVars == <<active, fresh, polling, stopping>>
planVars == <<nextDue, started, missed>>
boundVars == <<cancels, calls>>
vars == <<now, loopVars, cycleVars, planVars, boundVars>>

Live(g) == fresh[g] + polling[g] + stopping[g]

Zero == [g \in Groups |-> 0]

Init ==
    /\ now = 0
    /\ loop = "off" /\ wake = 0 /\ running = FALSE /\ stop = FALSE
    /\ awaited = {}
    /\ active = [g \in Groups |-> FALSE]
    /\ fresh = Zero /\ polling = Zero /\ stopping = Zero
    /\ nextDue = Zero /\ started = Zero /\ missed = Zero
    /\ cancels = 0 /\ calls = 0

-----------------------------------------------------------------------------
(* _start_due_cycles(), _seconds_until_next_due().                         *)

Due == {g \in Groups : nextDue[g] <= now}

DueCount_Whole(g) ==          \* mutant: only the whole intervals that have passed
    (now - nextDue[g]) \div Interval[g]

\* The due times of g that have come.
DueCount(g) == (now - nextDue[g]) \div Interval[g] + 1

Begins_Overlapping == Due     \* mutant: the active cycle is not looked at

\* The due groups that get a new cycle.
Begins == {g \in Due : ~active[g]}

Misses_All(g) == DueCount(g)  \* mutant: the cycle that starts counts as missed

\* The due times of g without a cycle of their own.
Misses(g) == IF g \in Begins THEN DueCount(g) - 1 ELSE DueCount(g)

StartDueCycles ==
    /\ nextDue' = [g \in Groups |->
                     IF g \in Due THEN nextDue[g] + DueCount(g) * Interval[g]
                     ELSE nextDue[g]]
    /\ missed' = [g \in Groups |-> IF g \in Due THEN missed[g] + Misses(g) ELSE missed[g]]
    /\ started' = [g \in Groups |-> IF g \in Begins THEN started[g] + 1 ELSE started[g]]
    /\ fresh' = [g \in Groups |-> IF g \in Begins THEN fresh[g] + 1 ELSE fresh[g]]
    /\ active' = [g \in Groups |-> active[g] \/ g \in Begins]

SleepUntilNextDue_Last ==     \* mutant: sleeps until the last group is due
    /\ \E g \in Groups : wake' = nextDue'[g]
    /\ \A g \in Groups : wake' >= nextDue'[g]

SleepUntilNextDue ==
    /\ \E g \in Groups : wake' = nextDue'[g]
    /\ \A g \in Groups : wake' <= nextDue'[g]

-----------------------------------------------------------------------------
(* run() and stop().                                                       *)

CreateRun ==
    /\ loop = "off"
    /\ now < MaxTime
    /\ loop' = "created"
    /\ UNCHANGED <<now, wake, running, stop, awaited, cycleVars, planVars, boundVars>>

\* The first step of run(): it forgets earlier requests to stop.
Begin ==
    /\ loop = "created"
    /\ running' = TRUE
    /\ stop' = FALSE
    /\ StartDueCycles
    /\ SleepUntilNextDue
    /\ loop' = "sleep"
    /\ UNCHANGED <<now, awaited, polling, stopping, boundVars>>

\* The sleep is over, and another turn of the loop follows ...
Wake ==
    /\ loop = "sleep"
    /\ now >= wake
    /\ ~stop
    /\ StartDueCycles
    /\ SleepUntilNextDue
    /\ UNCHANGED <<now, loop, running, stop, awaited, polling, stopping, boundVars>>

Ended ==
    /\ loop' = "off"
    /\ running' = FALSE
    /\ wake' = 0
    /\ awaited' = {}
    /\ UNCHANGED stop

EndLoop_Raced ==              \* mutant: the request is only seen before the sleep
    /\ loop = "sleep"
    /\ now < wake
    /\ stop
    /\ Ended
    /\ UNCHANGED <<now, cycleVars, planVars, boundVars>>

\* ... or the end of run(), which leaves its cycles running.
EndLoop ==
    /\ loop = "sleep"
    /\ now >= wake
    /\ stop
    /\ Ended
    /\ UNCHANGED <<now, cycleVars, planVars, boundVars>>

Stop ==
    /\ ~stop
    /\ stop' = TRUE
    /\ UNCHANGED <<now, loop, wake, running, awaited, cycleVars, planVars, boundVars>>

-----------------------------------------------------------------------------
(* _run_cycle().                                                           *)

CycleStarts(g) ==
    /\ fresh[g] > 0
    /\ fresh' = [fresh EXCEPT ![g] = @ - 1]
    /\ polling' = [polling EXCEPT ![g] = @ + 1]
    /\ UNCHANGED <<now, loopVars, active, stopping, planVars, boundVars>>

CycleEnds_Cancelled(g) ==     \* mutant: active_task is only reset without cancellation
    /\ \/ /\ polling[g] > 0
          /\ polling' = [polling EXCEPT ![g] = @ - 1]
          /\ active' = [active EXCEPT ![g] = FALSE]
          /\ UNCHANGED stopping
       \/ /\ stopping[g] > 0
          /\ stopping' = [stopping EXCEPT ![g] = @ - 1]
          /\ UNCHANGED <<polling, active>>
    /\ UNCHANGED <<now, loopVars, fresh, planVars, boundVars>>

\* The handler returns, raises, or passes the cancellation on; the difference
\* is in failed_cycles and last_error, which are left out.
CycleEnds(g) ==
    /\ \/ /\ polling[g] > 0
          /\ polling' = [polling EXCEPT ![g] = @ - 1]
          /\ UNCHANGED stopping
       \/ /\ stopping[g] > 0
          /\ stopping' = [stopping EXCEPT ![g] = @ - 1]
          /\ UNCHANGED polling
    /\ active' = [active EXCEPT ![g] = FALSE]
    /\ UNCHANGED <<now, loopVars, fresh, planVars, boundVars>>

-----------------------------------------------------------------------------
(* Cancellation.  A cycle that has not made its first step ends without    *)
(* executing any of _run_cycle, and stays recorded as active_task.         *)

CancelCycles ==
    /\ fresh' = Zero
    /\ polling' = Zero
    /\ stopping' = [g \in Groups |-> stopping[g] + polling[g]]
    /\ UNCHANGED active

\* cancel_active_cycles() called by other code, while run() goes on or not.
CancelActiveCycles ==
    /\ calls < MaxCalls
    /\ calls' = calls + 1
    /\ CancelCycles
    /\ UNCHANGED <<now, loopVars, planVars, cancels>>

\* The task of run() is cancelled during its sleep.  The event loop gives the
\* cycles it has started their first step before run() sees that.
CancelRun ==
    /\ loop = "sleep"
    /\ \A g \in Groups : fresh[g] = 0
    /\ cancels < MaxCancels
    /\ cancels' = cancels + 1
    /\ CancelCycles
    /\ loop' = "cancelling"
    /\ awaited' = {g \in Groups : active[g]}
    /\ UNCHANGED <<now, wake, running, stop, planVars, calls>>

\* It is cancelled before its first step, or while it waits for its cycles.
CancelRunAgain ==
    /\ loop \in {"created", "cancelling"}
    /\ cancels < MaxCancels
    /\ cancels' = cancels + 1
    /\ Ended
    /\ UNCHANGED <<now, cycleVars, planVars, calls>>

RunCancelled_NoWait ==        \* mutant: the cancelled cycles are not awaited
    /\ loop = "cancelling"
    /\ Ended
    /\ UNCHANGED <<now, cycleVars, planVars, boundVars>>

RunCancelled ==
    /\ loop = "cancelling"
    /\ \A g \in awaited : Live(g) = 0
    /\ Ended
    /\ UNCHANGED <<now, cycleVars, planVars, boundVars>>

-----------------------------------------------------------------------------
\* Time passes; beyond the bound only until a last sleep is over.
Tick ==
    /\ now < MaxTime \/ (loop = "sleep" /\ stop /\ now < wake)
    /\ now' = now + 1
    /\ UNCHANGED <<loopVars, cycleVars, planVars, boundVars>>

LoopStep == Begin \/ Wake \/ EndLoop \/ RunCancelled

Next ==
    \/ CreateRun \/ LoopStep \/ Stop
    \/ \E g \in Groups : CycleStarts(g) \/ CycleEnds(g)
    \/ CancelActiveCycles \/ CancelRun \/ CancelRunAgain
    \/ Tick

Spec == Init /\ [][Next]_vars

(* The event loop runs what is ready, time passes, and a handler returns:  *)
(* its driver and the queue put have timeouts.                             *)
Fairness ==
    /\ WF_vars(LoopStep)
    /\ WF_vars(Tick)
    /\ \A g \in Groups : WF_vars(CycleStarts(g)) /\ WF_vars(CycleEnds(g))

FairSpec == Spec /\ Fairness

-----------------------------------------------------------------------------
(* Type invariant of the scheduler.                                        *)
TypeOK ==
    /\ now \in Nat /\ wake \in Nat /\ cancels \in Nat /\ calls \in Nat
    /\ awaited \subseteq Groups
    /\ loop \in {"off", "created", "sleep", "cancelling"}
    /\ running \in BOOLEAN /\ stop \in BOOLEAN
    /\ active \in [Groups -> BOOLEAN]
    /\ \A f \in {fresh, polling, stopping, nextDue, started, missed} :
          f \in [Groups -> Nat]

(* "without overlapping cycles" (scheduler.py:55): a group never has two   *)
(* cycles, whatever restarts, failures, late cycles and cancellations do.  *)
NoOverlap == \A g \in Groups : Live(g) <= 1

(* "brak driftu" (docs/tasks/05-scheduler.md:17): the next due time of a   *)
(* group is on its grid, and each earlier point of the grid has been       *)
(* counted exactly once, as started or as missed.                          *)
NoDrift ==
    \A g \in Groups : nextDue[g] = Interval[g] * (started[g] + missed[g])

(* _seconds_until_next_due(): the sleeping scheduler wakes for the first   *)
(* group that is due, and no due time is further ahead than one interval   *)
(* from the present.                                                       *)
NeverOversleeps ==
    loop = "sleep" => \A g \in Groups :
        wake <= nextDue[g] /\ nextDue[g] - Interval[g] <= now

(* run(): a cancelled run() ends when the cycles it cancelled have ended,  *)
(* unless it is cancelled once more.                                       *)
CancelledRunLeavesNoCycle ==
    [][loop = "cancelling" /\ loop' = "off" /\ cancels' = cancels
          => \A g \in Groups : Live(g)' = 0]_vars

(* The cycle of each group as PeriodicPolling sees it.                     *)
CycleOf(g) ==
    IF ~active[g] THEN "idle"
    ELSE IF fresh[g] > 0 THEN "fresh"
    ELSE IF polling[g] + stopping[g] > 0 THEN "polling"
    ELSE "lost"

Polling == INSTANCE PeriodicPolling WITH cycle <- [g \in Groups |-> CycleOf(g)]

(* _start_due_cycles(), _run_cycle(): however late the loop is and however *)
(* cycles and calls of it end, a point at which a group is idle is never   *)
(* passed over, no miss is counted but for a cycle that goes on, is lost   *)
(* before it executes, or belongs to a later point, and a group whose      *)
(* cycle has executed can start again.                                     *)
ImplementsPolling == Polling!PollingSpec

(* stop(): run() ends when its sleep is over, also while cycles go on.     *)
StopEndsRun == stop /\ loop = "sleep" ~> loop = "off"

(* snapshot(), "running is False" after cancel_active_cycles()             *)
(* (tests/test_scheduler.py:113): a group reported as running has a cycle, *)
(* so that none is passed over for a cycle that no longer exists.          *)
ActiveHasCycle == \A g \in Groups : active[g] => Live(g) > 0
=============================================================================
