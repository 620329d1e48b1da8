------------------------ MODULE PollSchedulerProofs ------------------------
(***************************************************************************)
(* That cycles of a group never overlap, that the due times stay on their  *)
(* grid with every point accounted for, and that the loop sleeps no longer *)
(* than it should, proved for any groups, intervals, lateness of the loop  *)
(* and number of cancellations.                                            *)
(***************************************************************************)
EXTENDS PollScheduler, TLAPS

(* A cycle that exists is the one recorded as active; the converse fails   *)
(* after cancel_active_cycles(), and the proof does not need it.           *)
OneIfActive == \A g \in Groups : Live(g) <= IF active[g] THEN 1 ELSE 0

(* No due time is further ahead than one interval, in any state. *)
DueWithinInterval == \A g \in Groups : nextDue[g] - Interval[g] <= now

SleepsToFirst == loop = "sleep" => \A g \in Groups : wake <= nextDue[g]

SchedulerInv ==
    /\ TypeOK
    /\ OneIfActive
    /\ NoDrift
    /\ DueWithinInterval
    /\ SleepsToFirst

-----------------------------------------------------------------------------
(* Integer division: the quotient is the number of whole intervals. *)
LEMMA WholeIntervals ==
    ASSUME NEW d \in Nat, NEW i \in Nat \ {0}
    PROVE  /\ d \div i \in Nat
           /\ i * (d \div i) <= d
           /\ d < i * (d \div i) + i
OBVIOUS

(* Multiplication distributes over the due times that are added. *)
LEMMA GridStep ==
    ASSUME NEW i \in Nat, NEW a \in Nat, NEW b \in Nat, NEW c \in Nat
    PROVE  i * (a + b) + c * i = i * (a + b + c)
OBVIOUS

(* The number of due times of a due group. *)
LEMMA DueCountBounds ==
    ASSUME TypeOK, NEW g \in Due
    PROVE  /\ DueCount(g) \in Nat \ {0}
           /\ nextDue[g] + DueCount(g) * Interval[g] \in Nat
           /\ (nextDue[g] + DueCount(g) * Interval[g]) - Interval[g] <= now
           /\ now < nextDue[g] + DueCount(g) * Interval[g]
<1> DEFINE d == now - nextDue[g]
           i == Interval[g]
           q == d \div i
<1>1. d \in Nat /\ i \in Nat \ {0} /\ nextDue[g] \in Nat /\ now \in Nat
  BY SchedulerAssumption DEF Due, TypeOK
<1>2. q \in Nat /\ i * q <= d /\ d < i * q + i
  BY <1>1, WholeIntervals
<1>3. DueCount(g) = q + 1
  BY DEF DueCount
<1>4. d = now - nextDue[g]
  OBVIOUS
<1> HIDE DEF d, q
<1>5. (q + 1) * i = i * q + i /\ i * q \in Nat
  BY <1>1, <1>2
<1> QED
  BY <1>1, <1>2, <1>3, <1>4, <1>5

(* A due group's points of the grid are all accounted for. *)
LEMMA MissesBounds ==
    ASSUME TypeOK, NEW g \in Due
    PROVE  /\ Misses(g) \in Nat
           /\ g \in Begins => 1 + Misses(g) = DueCount(g)
           /\ g \notin Begins => Misses(g) = DueCount(g)
BY DueCountBounds DEF Misses

(* The plan after _start_due_cycles(). *)
LEMMA StartKeepsPlan ==
    ASSUME TypeOK, NoDrift, DueWithinInterval, StartDueCycles, UNCHANGED now
    PROVE  /\ nextDue' \in [Groups -> Nat]
           /\ started' \in [Groups -> Nat]
           /\ missed' \in [Groups -> Nat]
           /\ NoDrift' /\ DueWithinInterval'
<1>1. /\ nextDue \in [Groups -> Nat] /\ started \in [Groups -> Nat]
      /\ missed \in [Groups -> Nat] /\ now \in Nat
      /\ Interval \in [Groups -> Nat \ {0}]
  BY SchedulerAssumption DEF TypeOK
<1>2. ASSUME NEW g \in Groups
      PROVE  /\ nextDue'[g] \in Nat /\ started'[g] \in Nat /\ missed'[g] \in Nat
             /\ nextDue'[g] = Interval[g] * (started'[g] + missed'[g])
             /\ nextDue'[g] - Interval[g] <= now
  <2>1. CASE g \notin Due
    <3>1. nextDue'[g] = nextDue[g] /\ started'[g] = started[g] /\ missed'[g] = missed[g]
      BY <2>1 DEF StartDueCycles, Begins
    <3> QED
      BY <1>1, <3>1 DEF NoDrift, DueWithinInterval
  <2>2. CASE g \in Due
    <3>1. /\ DueCount(g) \in Nat \ {0} /\ Misses(g) \in Nat
          /\ nextDue[g] + DueCount(g) * Interval[g] \in Nat
          /\ (nextDue[g] + DueCount(g) * Interval[g]) - Interval[g] <= now
      BY <2>2, DueCountBounds, MissesBounds
    <3>2. /\ nextDue'[g] = nextDue[g] + DueCount(g) * Interval[g]
          /\ missed'[g] = missed[g] + Misses(g)
          /\ started'[g] = IF g \in Begins THEN started[g] + 1 ELSE started[g]
      BY <2>2 DEF StartDueCycles
    <3>3. started'[g] + missed'[g] = started[g] + missed[g] + DueCount(g)
      BY <1>1, <2>2, <3>1, <3>2, MissesBounds
    <3>4. nextDue[g] = Interval[g] * (started[g] + missed[g])
      BY DEF NoDrift
    <3>5. nextDue'[g] = Interval[g] * (started[g] + missed[g] + DueCount(g))
      <4> DEFINE i == Interval[g]
                 a == started[g]
                 b == missed[g]
                 c == DueCount(g)
      <4>1. i \in Nat /\ a \in Nat /\ b \in Nat /\ c \in Nat
        BY <1>1, <3>1
      <4>2. nextDue'[g] = i * (a + b) + c * i
        BY <3>2, <3>4
      <4> HIDE DEF i, a, b, c
      <4>3. nextDue'[g] = i * (a + b + c)
        BY <4>1, <4>2, GridStep
      <4> QED
        BY <4>3 DEF i, a, b, c
    <3>6. started'[g] \in Nat /\ missed'[g] \in Nat
      BY <1>1, <3>1, <3>2
    <3>7. nextDue'[g] = Interval[g] * (started'[g] + missed'[g])
      BY <3>3, <3>5
    <3>8. nextDue'[g] \in Nat
      BY <3>1, <3>2
    <3>9. nextDue'[g] - Interval[g] <= now
      BY <3>1, <3>2
    <3> QED
      BY <3>6, <3>7, <3>8, <3>9
  <2> QED
    BY <2>1, <2>2
<1>3. /\ nextDue' \in [Groups -> Nat] /\ started' \in [Groups -> Nat]
      /\ missed' \in [Groups -> Nat]
  <2>1. /\ nextDue' = [g \in Groups |-> nextDue'[g]]
        /\ started' = [g \in Groups |-> started'[g]]
        /\ missed' = [g \in Groups |-> missed'[g]]
    BY DEF StartDueCycles
  <2> QED
    BY <1>2, <2>1
<1>4. NoDrift' /\ DueWithinInterval'
  BY <1>2 DEF NoDrift, DueWithinInterval
<1> QED
  BY <1>3, <1>4

(* The cycles after _start_due_cycles(): a group that gets one had none.   *)
LEMMA StartKeepsCycles ==
    ASSUME TypeOK, OneIfActive, StartDueCycles, UNCHANGED <<polling, stopping>>
    PROVE  /\ fresh' \in [Groups -> Nat] /\ active' \in [Groups -> BOOLEAN]
           /\ OneIfActive'
<1>1. /\ fresh \in [Groups -> Nat] /\ polling \in [Groups -> Nat]
      /\ stopping \in [Groups -> Nat] /\ active \in [Groups -> BOOLEAN]
  BY DEF TypeOK
<1>2. fresh' \in [Groups -> Nat] /\ active' \in [Groups -> BOOLEAN]
  BY <1>1 DEF StartDueCycles
<1>3. ASSUME NEW g \in Groups
      PROVE  fresh'[g] + polling'[g] + stopping'[g] <= IF active'[g] THEN 1 ELSE 0
  <2>1. fresh[g] + polling[g] + stopping[g] <= IF active[g] THEN 1 ELSE 0
    BY DEF OneIfActive, Live
  <2>2. CASE g \in Begins
    <3>1. fresh'[g] = fresh[g] + 1 /\ active'[g] /\ ~active[g]
      BY <2>2 DEF StartDueCycles, Begins
    <3> QED
      BY <1>1, <2>1, <3>1
  <2>3. CASE g \notin Begins
    <3>1. fresh'[g] = fresh[g] /\ (active'[g] <=> active[g])
      BY <2>3 DEF StartDueCycles
    <3> QED
      BY <1>1, <2>1, <3>1
  <2> QED
    BY <2>2, <2>3
<1> QED
  BY <1>2, <1>3 DEF OneIfActive, Live

(* A turn of the loop. *)
LEMMA TurnStep ==
    ASSUME SchedulerInv, Begin \/ Wake
    PROVE  SchedulerInv'
<1>1. /\ TypeOK /\ OneIfActive /\ NoDrift /\ DueWithinInterval
      /\ StartDueCycles /\ SleepUntilNextDue
      /\ UNCHANGED <<now, awaited, polling, stopping, boundVars>>
      /\ loop' = "sleep" /\ running' \in BOOLEAN /\ stop' \in BOOLEAN
  BY DEF SchedulerInv, Begin, Wake, TypeOK
<1>2. /\ nextDue' \in [Groups -> Nat] /\ started' \in [Groups -> Nat]
      /\ missed' \in [Groups -> Nat] /\ NoDrift' /\ DueWithinInterval'
  BY <1>1, StartKeepsPlan
<1>3. fresh' \in [Groups -> Nat] /\ active' \in [Groups -> BOOLEAN] /\ OneIfActive'
  BY <1>1, StartKeepsCycles
<1>4. wake' \in Nat /\ SleepsToFirst'
  BY <1>1, <1>2 DEF SleepUntilNextDue, SleepsToFirst
<1>5. TypeOK'
  BY <1>1, <1>2, <1>3, <1>4 DEF TypeOK, boundVars
<1> QED
  BY <1>2, <1>3, <1>4, <1>5 DEF SchedulerInv

(* A step that leaves the plan and the cycles alone. *)
LEMMA ControlStep ==
    ASSUME SchedulerInv, UNCHANGED <<cycleVars, planVars>>,
           now' \in Nat, now' >= now, wake' \in Nat, cancels' \in Nat, calls' \in Nat,
           awaited' \subseteq Groups,
           loop' \in {"off", "created", "sleep", "cancelling"},
           running' \in BOOLEAN, stop' \in BOOLEAN,
           loop' = "sleep" => loop = "sleep" /\ wake' = wake
    PROVE  SchedulerInv'
<1>1. UNCHANGED <<active, fresh, polling, stopping, nextDue, started, missed>>
  BY DEF cycleVars, planVars
<1>2. TypeOK'
  BY <1>1 DEF SchedulerInv, TypeOK
<1>3. OneIfActive' /\ NoDrift' /\ SleepsToFirst'
  BY <1>1 DEF SchedulerInv, OneIfActive, Live, NoDrift, SleepsToFirst
<1>4. DueWithinInterval'
  BY <1>1, SchedulerAssumption DEF SchedulerInv, TypeOK, DueWithinInterval
<1> QED
  BY <1>2, <1>3, <1>4 DEF SchedulerInv

(* A step that only moves or ends cycles: no group gets more of them, and  *)
(* one whose task is reset has none left.                                  *)
LEMMA CycleStep ==
    ASSUME SchedulerInv, UNCHANGED <<now, wake, running, stop, planVars>>,
           loop' \in {"off", "created", "sleep", "cancelling"},
           loop' = "sleep" => loop = "sleep",
           awaited' \subseteq Groups, cancels' \in Nat, calls' \in Nat,
           fresh' \in [Groups -> Nat], polling' \in [Groups -> Nat],
           stopping' \in [Groups -> Nat], active' \in [Groups -> BOOLEAN],
           \A g \in Groups : fresh'[g] + polling'[g] + stopping'[g]
                                <= IF active'[g] THEN 1 ELSE 0
    PROVE  SchedulerInv'
<1>1. UNCHANGED <<nextDue, started, missed>>
  BY DEF planVars
<1>2. TypeOK'
  BY <1>1 DEF SchedulerInv, TypeOK
<1>3. OneIfActive' /\ NoDrift' /\ SleepsToFirst' /\ DueWithinInterval'
  BY <1>1 DEF SchedulerInv, OneIfActive, Live, NoDrift, SleepsToFirst, DueWithinInterval
<1> QED
  BY <1>2, <1>3 DEF SchedulerInv

(* The first step and the end of a cycle. *)
LEMMA CycleMoves ==
    ASSUME SchedulerInv, NEW g \in Groups, CycleStarts(g) \/ CycleEnds(g)
    PROVE  SchedulerInv'
<1>1. /\ fresh \in [Groups -> Nat] /\ polling \in [Groups -> Nat]
      /\ stopping \in [Groups -> Nat] /\ active \in [Groups -> BOOLEAN]
      /\ awaited \subseteq Groups /\ cancels \in Nat /\ calls \in Nat
      /\ loop \in {"off", "created", "sleep", "cancelling"}
  BY DEF SchedulerInv, TypeOK
<1>2. UNCHANGED <<now, loopVars, planVars, boundVars>>
  BY DEF CycleStarts, CycleEnds
<1>3. ASSUME NEW h \in Groups
      PROVE  fresh[h] + polling[h] + stopping[h] <= IF active[h] THEN 1 ELSE 0
  BY DEF SchedulerInv, OneIfActive, Live
<1>4. CASE CycleStarts(g)
  <2>1. /\ fresh' \in [Groups -> Nat] /\ polling' \in [Groups -> Nat]
        /\ UNCHANGED <<stopping, active>>
    BY <1>1, <1>4 DEF CycleStarts
  <2>2. ASSUME NEW h \in Groups
        PROVE  fresh'[h] + polling'[h] + stopping'[h] <= IF active'[h] THEN 1 ELSE 0
    BY <1>1, <1>3, <1>4 DEF CycleStarts
  <2> QED
    BY <1>1, <1>2, <2>1, <2>2, CycleStep DEF loopVars, boundVars
<1>5. CASE CycleEnds(g)
  <2>1. /\ stopping' \in [Groups -> Nat] /\ polling' \in [Groups -> Nat]
        /\ active' \in [Groups -> BOOLEAN] /\ fresh' = fresh
    BY <1>1, <1>5 DEF CycleEnds
  <2>2. ASSUME NEW h \in Groups
        PROVE  fresh'[h] + polling'[h] + stopping'[h] <= IF active'[h] THEN 1 ELSE 0
    BY <1>1, <1>3, <1>5 DEF CycleEnds
  <2> QED
    BY <1>1, <1>2, <2>1, <2>2, CycleStep DEF loopVars, boundVars
<1> QED
  BY <1>4, <1>5

(* Cancellation of the cycles, by run() or by other code. *)
LEMMA CancelMoves ==
    ASSUME SchedulerInv, CancelActiveCycles \/ CancelRun
    PROVE  SchedulerInv'
<1>1. /\ fresh \in [Groups -> Nat] /\ polling \in [Groups -> Nat]
      /\ stopping \in [Groups -> Nat] /\ active \in [Groups -> BOOLEAN]
      /\ awaited \subseteq Groups /\ cancels \in Nat /\ calls \in Nat
      /\ loop \in {"off", "created", "sleep", "cancelling"}
  BY DEF SchedulerInv, TypeOK
<1>2. /\ fresh' = Zero /\ polling' = Zero /\ active' = active
      /\ stopping' = [g \in Groups |-> stopping[g] + polling[g]]
  BY DEF CancelActiveCycles, CancelRun, CancelCycles
<1>3. /\ fresh' \in [Groups -> Nat] /\ polling' \in [Groups -> Nat]
      /\ stopping' \in [Groups -> Nat] /\ active' \in [Groups -> BOOLEAN]
  BY <1>1, <1>2 DEF Zero
<1>4. ASSUME NEW h \in Groups
      PROVE  fresh'[h] + polling'[h] + stopping'[h] <= IF active'[h] THEN 1 ELSE 0
  <2>1. fresh[h] + polling[h] + stopping[h] <= IF active[h] THEN 1 ELSE 0
    BY DEF SchedulerInv, OneIfActive, Live
  <2>2. fresh'[h] = 0 /\ polling'[h] = 0 /\ stopping'[h] = stopping[h] + polling[h]
    BY <1>2 DEF Zero
  <2> QED
    BY <1>1, <1>2, <2>1, <2>2
<1>5. /\ UNCHANGED <<now, wake, running, stop, planVars>>
      /\ awaited' \subseteq Groups /\ cancels' \in Nat /\ calls' \in Nat
      /\ loop' \in {loop, "cancelling"}
  BY <1>1 DEF CancelActiveCycles, CancelRun, loopVars
<1> QED
  BY <1>1, <1>3, <1>4, <1>5, CycleStep

-----------------------------------------------------------------------------
(* The scheduler starts with every group due at time zero. *)
LEMMA InitScheduler == Init => SchedulerInv
<1> SUFFICES ASSUME Init PROVE SchedulerInv
  OBVIOUS
<1>1. Zero \in [Groups -> Nat] /\ \A g \in Groups : Zero[g] = 0
  BY DEF Zero
<1>2. TypeOK
  BY <1>1 DEF Init, TypeOK
<1>3. OneIfActive /\ SleepsToFirst
  BY <1>1 DEF Init, OneIfActive, Live, SleepsToFirst
<1>4. NoDrift /\ DueWithinInterval
  BY <1>1, SchedulerAssumption DEF Init, NoDrift, DueWithinInterval
<1> QED
  BY <1>2, <1>3, <1>4 DEF SchedulerInv

(* Every step keeps the invariant. *)
LEMMA NextScheduler == SchedulerInv /\ [Next]_vars => SchedulerInv'
<1> SUFFICES ASSUME SchedulerInv, [Next]_vars PROVE SchedulerInv'
  OBVIOUS
<1>1. /\ now \in Nat /\ wake \in Nat /\ cancels \in Nat /\ calls \in Nat
      /\ awaited \subseteq Groups /\ loop \in {"off", "created", "sleep", "cancelling"}
      /\ running \in BOOLEAN /\ stop \in BOOLEAN
  BY DEF SchedulerInv, TypeOK
<1>2. CASE CreateRun
  <2>1. /\ UNCHANGED <<cycleVars, planVars, now, wake, running, stop, awaited>>
        /\ loop' = "created" /\ UNCHANGED <<cancels, calls>>
    BY <1>2 DEF CreateRun, boundVars
  <2> QED
    BY <1>1, <2>1, ControlStep
<1>3. CASE Begin \/ Wake
  BY <1>3, TurnStep
<1>4. CASE EndLoop \/ RunCancelled \/ CancelRunAgain
  <2>1. /\ UNCHANGED <<cycleVars, planVars>> /\ now' = now /\ wake' = 0
        /\ awaited' = {} /\ loop' = "off" /\ running' \in BOOLEAN
        /\ stop' = stop /\ cancels' \in {cancels, cancels + 1} /\ calls' = calls
    BY <1>4 DEF EndLoop, RunCancelled, CancelRunAgain, Ended, boundVars
  <2> QED
    BY <1>1, <2>1, ControlStep
<1>5. CASE Stop
  <2>1. /\ UNCHANGED <<cycleVars, planVars, now, wake, loop, running, awaited>>
        /\ stop' \in BOOLEAN /\ UNCHANGED <<cancels, calls>>
    BY <1>5 DEF Stop, boundVars
  <2> QED
    BY <1>1, <2>1, ControlStep
<1>6. ASSUME NEW g \in Groups, CycleStarts(g) \/ CycleEnds(g) PROVE SchedulerInv'
  BY <1>6, CycleMoves
<1>7. CASE CancelActiveCycles \/ CancelRun
  BY <1>7, CancelMoves
<1>8. CASE Tick
  BY <1>1, <1>8, ControlStep DEF Tick, loopVars, boundVars
<1>9. CASE UNCHANGED vars
  BY <1>1, <1>9, ControlStep DEF vars, loopVars, boundVars
<1> QED
  BY <1>2, <1>3, <1>4, <1>5, <1>6, <1>7, <1>8, <1>9 DEF Next, LoopStep

(* The inductive invariant holds in every reachable state. *)
LEMMA SchedulerInvariant == Spec => []SchedulerInv
BY InitScheduler, NextScheduler, PTL DEF Spec

(* No group ever has two cycles, for any interleaving of late loops,       *)
(* restarts of run(), ends and cancellations.                              *)
THEOREM CyclesNeverOverlap == Spec => [](TypeOK /\ NoOverlap)
<1>1. SchedulerInv => TypeOK /\ NoOverlap
  <2> SUFFICES ASSUME SchedulerInv, NEW g \in Groups PROVE Live(g) <= 1
    BY DEF NoOverlap, SchedulerInv
  <2>1. Live(g) <= IF active[g] THEN 1 ELSE 0
    BY DEF SchedulerInv, OneIfActive
  <2>2. fresh[g] \in Nat /\ polling[g] \in Nat /\ stopping[g] \in Nat
    BY DEF SchedulerInv, TypeOK
  <2> QED
    BY <2>1, <2>2 DEF Live
<1> QED
  BY <1>1, SchedulerInvariant, PTL

(* The due times stay on the grid of the interval, each point of it is     *)
(* counted once, and the loop sleeps until the first of them.              *)
THEOREM DueTimesAreExact == Spec => [](NoDrift /\ NeverOversleeps)
<1>1. SchedulerInv => NoDrift /\ NeverOversleeps
  BY DEF SchedulerInv, NeverOversleeps, SleepsToFirst, DueWithinInterval
<1> QED
  BY <1>1, SchedulerInvariant, PTL

(* Each variable of the scheduler keeps its type: the accounting of due    *)
(* and missed cycles never leaves the natural numbers.                     *)
THEOREM SchedulerTypes == Spec => []TypeOK
BY CyclesNeverOverlap, PTL

(* The loop of run() is never asleep past the next due time of any group.  *)
THEOREM LoopSleepsToFirst == Spec => []NeverOversleeps
BY DueTimesAreExact, PTL

-----------------------------------------------------------------------------
(* The end of a cancelled run().                                           *)

(* A run() that is being cancelled waits for every group that has a cycle: *)
(* it starts no more of them, and had recorded each one as active.         *)
AwaitsLive == loop = "cancelling" => \A g \in Groups \ awaited : Live(g) = 0

(* A step of the cycles themselves brings no group a cycle. *)
LEMMA CyclesDwindle ==
    ASSUME SchedulerInv, NEW g \in Groups, Live(g) = 0,
           \/ \E h \in Groups : CycleStarts(h) \/ CycleEnds(h)
           \/ CancelActiveCycles \/ CancelRun
    PROVE  Live(g)' = 0
<1>1. /\ fresh \in [Groups -> Nat] /\ polling \in [Groups -> Nat]
      /\ stopping \in [Groups -> Nat]
  BY DEF SchedulerInv, TypeOK
<1>2. fresh[g] = 0 /\ polling[g] = 0 /\ stopping[g] = 0
  BY <1>1 DEF Live
<1>3. ASSUME NEW h \in Groups, CycleStarts(h) PROVE Live(g)' = 0
  BY <1>1, <1>2, <1>3 DEF CycleStarts, Live
<1>4. ASSUME NEW h \in Groups, CycleEnds(h) PROVE Live(g)' = 0
  BY <1>1, <1>2, <1>4 DEF CycleEnds, Live
<1>5. ASSUME CancelActiveCycles \/ CancelRun PROVE Live(g)' = 0
  BY <1>1, <1>2, <1>5 DEF CancelActiveCycles, CancelRun, CancelCycles, Zero, Live
<1> QED
  BY <1>3, <1>4, <1>5

LEMMA AwaitsStep ==
    ASSUME SchedulerInv, AwaitsLive, [Next]_vars
    PROVE  AwaitsLive'
<1> SUFFICES ASSUME loop' = "cancelling", NEW g \in Groups \ awaited' PROVE Live(g)' = 0
  BY DEF AwaitsLive
<1>1. CASE CancelRun
  <2>1. ~active[g] /\ active \in [Groups -> BOOLEAN]
    BY <1>1 DEF CancelRun, SchedulerInv, TypeOK
  <2>2. /\ fresh \in [Groups -> Nat] /\ polling \in [Groups -> Nat]
        /\ stopping \in [Groups -> Nat] /\ Live(g) <= 0
    BY <2>1 DEF SchedulerInv, TypeOK, OneIfActive
  <2>3. Live(g) = 0
    BY <2>2 DEF Live
  <2> QED
    BY <1>1, <2>3, CyclesDwindle
<1>2. ASSUME UNCHANGED loopVars,
             \/ \E h \in Groups : CycleStarts(h) \/ CycleEnds(h)
             \/ CancelActiveCycles
      PROVE  Live(g)' = 0
  BY <1>2, CyclesDwindle DEF AwaitsLive, loopVars
<1>3. ASSUME UNCHANGED <<loop, awaited, cycleVars>> PROVE Live(g)' = 0
  BY <1>3 DEF AwaitsLive, Live, cycleVars
<1>4. Stop \/ Tick \/ UNCHANGED vars => UNCHANGED <<loop, awaited, cycleVars>>
  BY DEF Stop, Tick, vars, loopVars
<1>5. ~(CreateRun \/ LoopStep \/ CancelRunAgain)
  BY DEF CreateRun, LoopStep, Begin, Wake, EndLoop, RunCancelled, CancelRunAgain, Ended
<1> QED
  BY <1>1, <1>2, <1>3, <1>4, <1>5 DEF Next, CycleStarts, CycleEnds, CancelActiveCycles

(* run(), except clause: unless it is cancelled once more, a cancelled     *)
(* run() ends with no cycle left, whichever of them take their time.       *)
THEOREM CancellationWaits == Spec => CancelledRunLeavesNoCycle
<1> DEFINE Leaves == loop = "cancelling" /\ loop' = "off" /\ cancels' = cancels
                        => \A g \in Groups : Live(g)' = 0
<1>1. Init => AwaitsLive
  BY DEF Init, AwaitsLive
<1>2. SchedulerInv /\ AwaitsLive /\ [Next]_vars => AwaitsLive'
  BY AwaitsStep
<1>3. SchedulerInv /\ AwaitsLive /\ [Next]_vars => [Leaves]_vars
  <2> SUFFICES ASSUME SchedulerInv, AwaitsLive, [Next]_vars, NEW g \in Groups,
                      loop = "cancelling", loop' = "off", cancels' = cancels
               PROVE  Live(g)' = 0
    OBVIOUS
  <2>1. RunCancelled
    <3>1. cancels \in Nat
      BY DEF SchedulerInv, TypeOK
    <3> QED
      BY <3>1 DEF Next, LoopStep, CreateRun, Begin, Wake, EndLoop, Stop, CycleStarts,
                  CycleEnds, CancelActiveCycles, CancelRun, CancelRunAgain, Tick,
                  vars, loopVars
  <2>2. Live(g) = 0
    BY <2>1 DEF RunCancelled, AwaitsLive
  <2> QED
    BY <2>1, <2>2 DEF RunCancelled, Live, cycleVars
<1> QED
  BY <1>1, <1>2, <1>3, SchedulerInvariant, PTL DEF Spec, CancelledRunLeavesNoCycle
-----------------------------------------------------------------------------
(* The implementation of PeriodicPolling.                                  *)

(* The quotient is the only number of whole intervals. *)
LEMMA IntervalsUnique ==
    ASSUME NEW d \in Nat, NEW i \in Nat \ {0}, NEW q \in Nat,
           i * q <= d, d < i * q + i
    PROVE  d \div i = q
<1> DEFINE p == d \div i
<1>1. p \in Nat /\ i * p <= d /\ d < i * p + i
  BY WholeIntervals
<1> HIDE DEF p
<1>2. ASSUME NEW a \in Nat, NEW b \in Nat, a < b PROVE i * a + i <= i * b
  <2>1. PICK c \in Nat : b = a + 1 + c
    <3>1. b - a - 1 \in Nat /\ b = a + 1 + (b - a - 1)
      BY <1>2
    <3> QED
      BY <3>1
  <2>2. i * (a + 1 + c) = i * a + i + i * c /\ i * c \in Nat
    OBVIOUS
  <2> QED
    BY <2>1, <2>2
<1>3. i * p \in Nat /\ i * q \in Nat
  BY <1>1
<1>4. ~(p < q)
  BY <1>1, <1>2, <1>3
<1>5. ~(q < p)
  BY <1>1, <1>2, <1>3
<1>6. p = q
  BY <1>1, <1>4, <1>5
<1> QED
  BY <1>6 DEF p

(* The points counted from the due time are those of the grid of the clock *)
(* that nobody has accounted for; before the due time there is none.       *)
LEMMA OpenPointsAreDue ==
    ASSUME SchedulerInv, NEW g \in Groups
    PROVE  /\ g \in Due => Polling!OpenPoints(g) = DueCount(g) /\ DueCount(g) \in Nat \ {0}
           /\ g \notin Due => Polling!OpenPoints(g) = 0
<1> DEFINE i == Interval[g]
           k == started[g] + missed[g]
           q == now \div i
<1>1. i \in Nat \ {0} /\ k \in Nat /\ now \in Nat /\ nextDue[g] \in Nat
  BY SchedulerAssumption DEF SchedulerInv, TypeOK
<1>2. nextDue[g] = i * k /\ i * k - i <= now
  BY DEF SchedulerInv, NoDrift, DueWithinInterval
<1>3. Polling!OpenPoints(g) = q + 1 - k
  BY DEF Polling!OpenPoints
<1>4. q \in Nat /\ i * q <= now /\ now < i * q + i
  BY <1>1, WholeIntervals
<1>5. CASE g \in Due
  <2> DEFINE d == now - i * k
             r == d \div i
  <2>1. d \in Nat
    BY <1>1, <1>2, <1>5 DEF Due
  <2>2. r \in Nat /\ i * r <= d /\ d < i * r + i
    BY <1>1, <2>1, WholeIntervals
  <2>3. DueCount(g) = r + 1
    BY <1>2 DEF DueCount
  <2>4. now = i * k + d
    BY <1>1, <1>2, <2>1
  <2> HIDE DEF d, r, i, k, q
  <2>5. i * (r + k) = i * r + i * k /\ i * r \in Nat /\ i * k \in Nat /\ r + k \in Nat
    BY <1>1, <2>2
  <2>6. i * (r + k) <= now /\ now < i * (r + k) + i
    BY <1>1, <2>1, <2>2, <2>4, <2>5
  <2>7. now \div i = r + k
    BY <1>1, <2>5, <2>6, IntervalsUnique
  <2>8. q = r + k
    BY <2>7 DEF q
  <2> QED
    BY <1>1, <1>3, <1>5, <2>2, <2>3, <2>8
<1>6. CASE g \notin Due
  <2>1. now < i * k
    BY <1>1, <1>2, <1>6 DEF Due
  <2>2. k # 0
    BY <1>1, <2>1
  <2>3. k - 1 \in Nat
    BY <1>1, <2>2
  <2>4. i * k = i * (k - 1) + i
    BY <1>1, <2>3
  <2>5. i * (k - 1) \in Nat
    BY <1>1, <2>3
  <2>6. i * (k - 1) <= now /\ now < i * (k - 1) + i
    BY <1>1, <1>2, <2>1, <2>4, <2>5
  <2>7. now \div i = k - 1
    BY <1>1, <2>3, <2>6, IntervalsUnique
  <2>8. q = k - 1
    BY <2>7
  <2> HIDE DEF i, k, q
  <2> QED
    BY <1>1, <1>3, <1>6, <2>8
<1> QED
  BY <1>5, <1>6

(* The group of a cycle is the group of the abstract one. *)
LEMMA CycleOfOne ==
    ASSUME SchedulerInv, NEW g \in Groups
    PROVE  /\ fresh[g] \in Nat /\ polling[g] \in Nat /\ stopping[g] \in Nat
           /\ active[g] \in BOOLEAN
           /\ fresh[g] > 0 => active[g] /\ fresh[g] = 1 /\ polling[g] = 0 /\ stopping[g] = 0
           /\ polling[g] > 0 => active[g] /\ polling[g] = 1 /\ fresh[g] = 0 /\ stopping[g] = 0
           /\ stopping[g] > 0 => active[g] /\ stopping[g] = 1 /\ fresh[g] = 0 /\ polling[g] = 0
<1>1. /\ fresh[g] \in Nat /\ polling[g] \in Nat /\ stopping[g] \in Nat
      /\ active[g] \in BOOLEAN
  BY DEF SchedulerInv, TypeOK
<1>2. fresh[g] + polling[g] + stopping[g] <= IF active[g] THEN 1 ELSE 0
  BY DEF SchedulerInv, OneIfActive, Live
<1>3. CASE active[g]
  BY <1>1, <1>2, <1>3
<1>4. CASE ~active[g]
  BY <1>1, <1>2, <1>4
<1> QED
  BY <1>1, <1>3, <1>4

(* A turn of the loop is a turn of the promise. *)
LEMMA TurnIsTurn ==
    ASSUME SchedulerInv, Begin \/ Wake
    PROVE  Polling!Turn
<1>1. StartDueCycles /\ UNCHANGED <<now, polling, stopping>>
  BY DEF Begin, Wake
<1>2. ASSUME NEW g \in Groups PROVE g \in Polling!Starting <=> g \in Begins
  <2>1. ([h \in Groups |-> CycleOf(h)])[g] = "idle" <=> ~active[g]
    BY DEF CycleOf
  <2>2. Polling!OpenPoints(g) > 0 <=> g \in Due
    BY OpenPointsAreDue
  <2> QED
    BY <2>1, <2>2 DEF Polling!Starting, Begins
<1>3. ASSUME NEW g \in Groups
      PROVE  CycleOf(g)' = IF g \in Polling!Starting THEN "fresh" ELSE CycleOf(g)
  <2>1. CASE g \in Begins
    <3>1. active'[g] /\ fresh'[g] = fresh[g] + 1 /\ fresh[g] \in Nat
      BY <1>1, <2>1, CycleOfOne DEF StartDueCycles
    <3>2. fresh'[g] > 0
      BY <3>1
    <3> QED
      BY <1>2, <2>1, <3>1, <3>2 DEF CycleOf
  <2>2. CASE g \notin Begins
    <3>1. (active'[g] <=> active[g]) /\ fresh'[g] = fresh[g]
      BY <1>1, <2>2 DEF StartDueCycles
    <3> QED
      BY <1>1, <1>2, <2>2, <3>1 DEF CycleOf
  <2> QED
    BY <2>1, <2>2
<1>4. [g \in Groups |-> CycleOf(g)]' =
        [g \in Groups |-> IF g \in Polling!Starting THEN "fresh"
                          ELSE [h \in Groups |-> CycleOf(h)][g]]
  BY <1>3
<1>5. ASSUME NEW g \in Groups
      PROVE  /\ started'[g] = started[g] + IF g \in Polling!Starting THEN 1 ELSE 0
             /\ missed'[g] = missed[g] + Polling!OpenPoints(g)
                               - IF g \in Polling!Starting THEN 1 ELSE 0
  <2>1. started[g] \in Nat /\ missed[g] \in Nat
    BY DEF SchedulerInv, TypeOK
  <2>2. CASE g \notin Due
    <3>1. g \notin Begins /\ started'[g] = started[g] /\ missed'[g] = missed[g]
      BY <1>1, <2>2 DEF StartDueCycles, Begins
    <3>2. Polling!OpenPoints(g) = 0 /\ g \notin Polling!Starting
      BY <1>2, <2>2, <3>1, OpenPointsAreDue
    <3> QED
      BY <2>1, <3>1, <3>2
  <2>3. CASE g \in Due
    <3>1. Polling!OpenPoints(g) = DueCount(g) /\ DueCount(g) \in Nat
      BY <2>3, OpenPointsAreDue
    <3>2. /\ missed'[g] = missed[g] + Misses(g)
          /\ started'[g] = IF g \in Begins THEN started[g] + 1 ELSE started[g]
      BY <1>1, <2>3 DEF StartDueCycles
    <3> QED
      BY <1>2, <2>1, <3>1, <3>2 DEF Misses
  <2> QED
    BY <2>2, <2>3
<1>6. /\ started' = [g \in Groups |-> started'[g]]
      /\ missed' = [g \in Groups |-> missed'[g]]
  BY <1>1 DEF StartDueCycles
<1>7. /\ started' = [g \in Groups |-> started[g] + IF g \in Polling!Starting THEN 1 ELSE 0]
      /\ missed' = [g \in Groups |-> missed[g] + Polling!OpenPoints(g)
                                       - IF g \in Polling!Starting THEN 1 ELSE 0]
  BY <1>5, <1>6
<1> QED
  BY <1>1, <1>4, <1>7 DEF Polling!Turn

(* The first step and the end of a cycle, also of a cancelled one. *)
LEMMA CycleProceeds ==
    ASSUME SchedulerInv, NEW g \in Groups, CycleStarts(g) \/ CycleEnds(g)
    PROVE  Polling!Proceed(g)
<1> DEFINE cycle == [h \in Groups |-> CycleOf(h)]
<1>1. UNCHANGED <<now, started, missed>>
  BY DEF CycleStarts, CycleEnds, planVars
<1>2. /\ fresh \in [Groups -> Nat] /\ polling \in [Groups -> Nat]
      /\ stopping \in [Groups -> Nat] /\ active \in [Groups -> BOOLEAN]
  BY DEF SchedulerInv, TypeOK
<1>3. ASSUME NEW h \in Groups, h # g PROVE CycleOf(h)' = CycleOf(h)
  BY <1>2, <1>3 DEF CycleStarts, CycleEnds, CycleOf
<1>4. CASE CycleStarts(g)
  <2>1. active[g] /\ fresh[g] = 1 /\ polling[g] = 0 /\ stopping[g] = 0
    BY <1>4, CycleOfOne DEF CycleStarts
  <2>2. active' = active /\ fresh'[g] = 0 /\ polling'[g] = 1 /\ stopping' = stopping
    BY <1>2, <1>4, <2>1 DEF CycleStarts
  <2>3. CycleOf(g) = "fresh" /\ CycleOf(g)' = "polling"
    BY <2>1, <2>2 DEF CycleOf
  <2>4. cycle' = [cycle EXCEPT ![g] = "polling"] /\ cycle[g] = "fresh"
    BY <1>3, <2>3
  <2> QED
    BY <1>1, <2>4 DEF Polling!Proceed
<1>5. CASE CycleEnds(g)
  <2>1. polling[g] > 0 \/ stopping[g] > 0
    BY <1>5 DEF CycleEnds
  <2>2. active[g] /\ fresh[g] = 0 /\ polling[g] + stopping[g] > 0
    BY <2>1, CycleOfOne
  <2>3. ~active'[g]
    BY <1>2, <1>5 DEF CycleEnds
  <2>4. CycleOf(g) = "polling" /\ CycleOf(g)' = "idle"
    BY <2>2, <2>3 DEF CycleOf
  <2>5. cycle' = [cycle EXCEPT ![g] = "idle"] /\ cycle[g] = "polling"
    BY <1>3, <2>4
  <2> QED
    BY <1>1, <2>5 DEF Polling!Proceed
<1> QED
  BY <1>4, <1>5

(* Cancellation loses what has not executed, and only that. *)
LEMMA CancelLosesFresh ==
    ASSUME SchedulerInv, CancelActiveCycles \/ CancelRun
    PROVE  Polling!LoseFresh
<1>1. CancelCycles /\ UNCHANGED <<now, started, missed>>
  BY DEF CancelActiveCycles, CancelRun, planVars
<1>2. ASSUME NEW g \in Groups
      PROVE  CycleOf(g)' = IF CycleOf(g) = "fresh" THEN "lost" ELSE CycleOf(g)
  <2>1. /\ active' = active /\ fresh'[g] = 0 /\ polling'[g] = 0
        /\ stopping'[g] = stopping[g] + polling[g]
    BY <1>1 DEF CancelCycles, Zero
  <2>2. /\ fresh[g] \in Nat /\ polling[g] \in Nat /\ stopping[g] \in Nat
        /\ fresh[g] > 0 => active[g] /\ polling[g] = 0 /\ stopping[g] = 0
    BY CycleOfOne
  <2> QED
    BY <2>1, <2>2 DEF CycleOf
<1> QED
  BY <1>1, <1>2 DEF Polling!LoseFresh

(* Every step is a step of the promise, or none of its business. *)
LEMMA PollingStep ==
    SchedulerInv /\ [Next]_vars => [Polling!PollingNext]_(Polling!pollingVars)
<1> SUFFICES ASSUME SchedulerInv, [Next]_vars
             PROVE  [Polling!PollingNext]_(Polling!pollingVars)
  OBVIOUS
<1>1. CASE Begin \/ Wake
  BY <1>1, TurnIsTurn DEF Polling!PollingNext
<1>2. ASSUME NEW g \in Groups, CycleStarts(g) \/ CycleEnds(g)
      PROVE  Polling!PollingNext
  BY <1>2, CycleProceeds DEF Polling!PollingNext
<1>3. CASE CancelActiveCycles \/ CancelRun
  BY <1>3, CancelLosesFresh DEF Polling!PollingNext
<1>4. CASE Tick
  <2>1. UNCHANGED <<cycleVars, started, missed>> /\ now' = now + 1
    BY <1>4 DEF Tick, planVars
  <2>2. [g \in Groups |-> CycleOf(g)]' = [g \in Groups |-> CycleOf(g)]
    BY <2>1 DEF CycleOf, cycleVars
  <2> QED
    BY <2>1, <2>2 DEF Polling!PollingNext, Polling!Pass
<1>5. CASE CreateRun \/ EndLoop \/ RunCancelled \/ CancelRunAgain \/ Stop \/ UNCHANGED vars
  <2>1. UNCHANGED <<now, cycleVars, planVars>>
    BY <1>5 DEF CreateRun, EndLoop, RunCancelled, CancelRunAgain, Stop, vars
  <2>2. [g \in Groups |-> CycleOf(g)]' = [g \in Groups |-> CycleOf(g)]
    BY <2>1 DEF CycleOf, cycleVars
  <2> QED
    BY <2>1, <2>2 DEF Polling!pollingVars, planVars
<1> QED
  BY <1>1, <1>2, <1>3, <1>4, <1>5 DEF Next, LoopStep

(* _start_due_cycles(), _run_cycle() and the cancellations keep the        *)
(* promise of PeriodicPolling to any groups with any intervals: a point at *)
(* which a group is idle gets a cycle, every other point is counted as     *)
(* missed, and only a cycle that never executed blocks its group.          *)
THEOREM SchedulerImplementsPolling == Spec => ImplementsPolling
<1>1. Init => Polling!PollingInit
  <2> SUFFICES ASSUME Init PROVE Polling!PollingInit
    OBVIOUS
  <2>1. \A g \in Groups : CycleOf(g) = "idle"
    BY DEF Init, CycleOf
  <2> QED
    BY <2>1 DEF Init, Zero, Polling!PollingInit
<1>2. SchedulerInv /\ [Next]_vars => [Polling!PollingNext]_(Polling!pollingVars)
  BY PollingStep
<1> QED
  BY <1>1, <1>2, SchedulerInvariant, PTL DEF Spec, ImplementsPolling, Polling!PollingSpec
=============================================================================
