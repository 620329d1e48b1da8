-------------------------- MODULE WriterStoresProofs --------------------------
(***************************************************************************)
(* What the stores and the counters of the writer hold, and how a run()    *)
(* ends: the spool is bounded, no row is doubled, each acknowledged result *)
(* was counted once, and a cancelled run() leaves no batch behind.         *)
(***************************************************************************)
EXTENDS DatabaseWriterProofs

-----------------------------------------------------------------------------
(* What a step may do to the stores and the counters.                      *)

RowsStep == UNCHANGED rows \/ \E S \in SUBSET Items : SaveRows(S)

AgeStep == UNCHANGED age \/ \E S \in SUBSET Items : AppendToSpool(S) \/ MarkReplayed(S)

InsertedStep ==
    \/ inserted' = 0 \/ inserted' = inserted
    \/ \E S \in SUBSET Items :
          SaveRows(S) /\ inserted' = inserted + Cardinality(NewReadings(S))

SettledStep ==
    \/ /\ InStage("done")' = InStage("done")
       /\ successful' = successful /\ failed' = failed
    \/ /\ InStage("done")' = InStage("done") \cup pending
       /\ successful' + failed' = successful + failed + Cardinality(pending)
    \/ InStage("done")' = {} /\ successful' = 0 /\ failed' = 0

StoresStep == RowsStep /\ AgeStep /\ InsertedStep

(* Of the steps only a late job and a store call that succeeds touch them. *)
LEMMA StoresOfStep ==
    ASSUME WriterInv, Next
    PROVE  StoresStep
<1>1. /\ pending \in SUBSET Items /\ replay \in SUBSET Items
      /\ \A t \in Threads : left[t].ids \in SUBSET Items
  BY DEF WriterInv, ControlTypeOK, Jobs
<1>2. ASSUME UNCHANGED <<rows, age, inserted>> PROVE StoresStep
  BY <1>2 DEF StoresStep, RowsStep, AgeStep, InsertedStep
<1>3. ASSUME Run \/ Stop \/ FetchEntries \/ FetchNothing \/ RetrySave \/ GetTaskTakes
             \/ WaitEndsWithItem \/ WaitEndsEmpty \/ OrphanTakes \/ Cancel
      PROVE  StoresStep
  BY <1>2, <1>3 DEF Run, Stop, FetchEntries, FetchNothing, RetrySave, GetTaskTakes,
                    WaitEndsWithItem, WaitEndsEmpty, OrphanTakes, Cancel, storeVars, counters
<1>4. ASSUME MarksReplayed \/ MarksFailed \/ MarkIsLost PROVE StoresStep
  BY <1>1, <1>4 DEF MarksReplayed, MarksFailed, MarkIsLost, MarkFailed, EndReplay,
                    spoolVars, StoresStep, RowsStep, AgeStep, InsertedStep
<1>5. CASE SaveSucceeds
  <2>1. Batch \in SUBSET Items
    BY <1>1 DEF Batch
  <2> QED
    BY <1>5, <2>1 DEF SaveSucceeds, spoolVars, StoresStep, RowsStep, AgeStep, InsertedStep
<1>6. CASE SaveGivenUp
  BY <1>2, <1>6 DEF SaveGivenUp, SettleAsFailed, storeVars, counters
<1>7. CASE SpoolAccepts \/ SpoolRefuses
  BY <1>1, <1>7 DEF SpoolAccepts, SpoolRefuses, SettleAsFailed, spoolVars, StoresStep,
                    RowsStep, AgeStep, InsertedStep
<1>8. ASSUME NEW t \in Threads, JobCompletes(t) \/ JobFails(t) PROVE StoresStep
  BY <1>1, <1>8 DEF JobCompletes, JobFails, MarkFailed, spoolVars, storeVars, counters,
                    StoresStep, RowsStep, AgeStep, InsertedStep
<1>9. CASE QueueStep \/ ClockStep
  BY <1>2, <1>9 DEF QueueStep, ClockStep, DelayElapses, writerVars, storeVars, counters
<1>10. CASE Crash
  BY <1>10 DEF Crash, storeVars, StoresStep, RowsStep, AgeStep, InsertedStep
<1> QED
  BY <1>3, <1>4, <1>5, <1>6, <1>7, <1>8, <1>9, <1>10 DEF Next, WriterStep, LeftoverStep

-----------------------------------------------------------------------------
(* However often save_poll_results is repeated by retries, late jobs and   *)
(* replays, in whichever order, a reading has one row.                     *)
THEOREM RowsAreUnique == Spec => []NoDuplicateRows
<1> DEFINE I == WriterInv /\ NoDuplicateRows
<1>1. Init => I
  <2>1. Init => NoDuplicateRows
    BY DEF Init, SpoolInit, NoDuplicateRows
  <2> QED
    BY <2>1, InitGood
<1>2. I /\ [Next]_vars => I'
  <2> SUFFICES ASSUME I, [Next]_vars PROVE NoDuplicateRows'
    BY NextGood DEF GoodStep
  <2>1. RowsStep
    BY StoresOfStep DEF StoresStep, vars, storeVars, RowsStep
  <2>2. \A i \in Items : rows'[i] = rows[i] \/ rows'[i] = 1
    BY <2>1 DEF RowsStep, SaveRows
  <2> QED
    BY <2>2 DEF NoDuplicateRows
<1> QED
  BY <1>1, <1>2, PTL DEF Spec

(* The spool keeps its limit also when appends that timed out run late and *)
(* compete with newer ones for the room.                                   *)
THEOREM SpoolStaysBounded == Spec => []SpoolIsBounded
<1> DEFINE I == WriterInv /\ SpoolIsBounded
<1>1. Init => I
  <2> SUFFICES ASSUME Init PROVE SpoolIsBounded
    BY InitGood
  <2>1. Stored = {}
    BY DEF Init, SpoolInit, Stored
  <2> QED
    BY <2>1, FS_EmptySet, SpoolMaxItemsAssumption DEF SpoolIsBounded
<1>2. I /\ [Next]_vars => I'
  <2> SUFFICES ASSUME I, [Next]_vars PROVE SpoolIsBounded'
    BY NextGood DEF GoodStep
  <2>1. age \in [Items -> Nat] /\ Stored \in SUBSET Items
    BY DEF WriterInv, SpoolTypeOK, Stored
  <2>2. CASE UNCHANGED age
    BY <2>2 DEF SpoolIsBounded, Stored
  <2>3. ASSUME NEW S \in SUBSET Items, AppendToSpool(S) PROVE SpoolIsBounded'
    <3> DEFINE new == NewToSpool(S)
    <3>1. \A i \in Items : age'[i] = IF i \in new THEN 1
                                     ELSE IF age[i] = 0 \/ new = {} THEN age[i]
                                     ELSE age[i] + 1
      BY <2>3 DEF AppendToSpool
    <3>2. Stored' = Stored \cup new
      BY <2>1, <3>1 DEF Stored, NewToSpool
    <3>3. /\ IsFiniteSet(Stored) /\ IsFiniteSet(new) /\ Stored \cap new = {}
          /\ Cardinality(Stored) \in Nat /\ Cardinality(new) \in Nat
      BY <2>1, BatchFinite DEF NewToSpool
    <3>4. Cardinality(Stored \cup new)
              = Cardinality(Stored) + Cardinality(new) - Cardinality(Stored \cap new)
      BY <3>3, FS_Union
    <3>5. Cardinality(Stored \cap new) = 0
      BY <3>3, FS_EmptySet
    <3>6. Cardinality(new) <= SpoolMaxItems - Cardinality(Stored)
      BY <2>3 DEF AppendToSpool, Fits
    <3> HIDE DEF new
    <3>7. Cardinality(Stored') <= SpoolMaxItems
      BY <3>2, <3>3, <3>4, <3>5, <3>6, SpoolMaxItemsAssumption
    <3> QED
      BY <3>7 DEF SpoolIsBounded
  <2>4. ASSUME NEW S \in SUBSET Items, MarkReplayed(S) PROVE SpoolIsBounded'
    <3>1. Stored' \subseteq Stored
      BY <2>1, <2>4 DEF MarkReplayed, Stored
    <3>2. Cardinality(Stored') <= Cardinality(Stored)
          /\ Cardinality(Stored') \in Nat /\ Cardinality(Stored) \in Nat
      BY <2>1, <3>1, BatchFinite, FS_Subset
    <3> QED
      BY <3>2, SpoolMaxItemsAssumption DEF SpoolIsBounded
  <2>5. AgeStep
    BY StoresOfStep DEF StoresStep, vars, storeVars, AgeStep
  <2> QED
    BY <2>2, <2>3, <2>4, <2>5 DEF AgeStep
<1> QED
  BY <1>1, <1>2, PTL DEF Spec

(* metrics() never reports more readings as inserted than the database has *)
(* of the process, however saves are repeated.                             *)
THEOREM InsertedIsHonest == Spec => []InsertedIsNotOverstated
<1> DEFINE I == WriterInv /\ InsertedIsNotOverstated
<1>1. Init => I
  <2> SUFFICES ASSUME Init PROVE InsertedIsNotOverstated
    BY InitGood
  <2>1. Saved \in SUBSET Items /\ inserted = 0
    BY DEF Init, Saved
  <2> QED
    BY <2>1, BatchFinite DEF InsertedIsNotOverstated
<1>2. I /\ [Next]_vars => I'
  <2> SUFFICES ASSUME I, [Next]_vars PROVE InsertedIsNotOverstated'
    BY NextGood DEF GoodStep
  <2>1. Saved \in SUBSET Items /\ Saved' \in SUBSET Items /\ Saved \subseteq Saved'
    BY NextGood DEF GoodStep, StoresGrow, Saved
  <2>2. /\ Cardinality(Saved) \in Nat /\ Cardinality(Saved') \in Nat
        /\ Cardinality(Saved) <= Cardinality(Saved')
    BY <2>1, BatchFinite, FS_Subset
  <2>3. inserted \in Nat /\ inserted <= Cardinality(Saved)
    BY DEF WriterInv, CounterTypeOK, InsertedIsNotOverstated
  <2>4. CASE inserted' = 0 \/ inserted' = inserted
    BY <2>2, <2>3, <2>4 DEF InsertedIsNotOverstated
  <2>5. ASSUME NEW S \in SUBSET Items, SaveRows(S),
               inserted' = inserted + Cardinality(NewReadings(S))
        PROVE  InsertedIsNotOverstated'
    <3> DEFINE new == NewReadings(S)
    <3>1. rows \in [Items -> Nat]
      BY DEF WriterInv, SpoolTypeOK
    <3>2. Saved' = Saved \cup new
      BY <2>5, <3>1 DEF SaveRows, Saved, NewReadings
    <3>3. /\ IsFiniteSet(Saved) /\ IsFiniteSet(new) /\ Saved \cap new = {}
          /\ Cardinality(new) \in Nat
      BY <2>1, <2>5, BatchFinite DEF NewReadings
    <3>4. Cardinality(Saved \cup new)
              = Cardinality(Saved) + Cardinality(new) - Cardinality(Saved \cap new)
      BY <3>3, FS_Union
    <3>5. Cardinality(Saved \cap new) = 0
      BY <3>3, FS_EmptySet
    <3>6. inserted' = inserted + Cardinality(new)
      BY <2>5
    <3> HIDE DEF new
    <3>7. inserted' <= Cardinality(Saved')
      BY <2>2, <2>3, <3>2, <3>3, <3>4, <3>5, <3>6
    <3> QED
      BY <3>7 DEF InsertedIsNotOverstated
  <2>6. InsertedStep
    BY StoresOfStep DEF StoresStep, vars, counters, InsertedStep
  <2> QED
    BY <2>4, <2>5, <2>6 DEF InsertedStep
<1> QED
  BY <1>1, <1>2, PTL DEF Spec

-----------------------------------------------------------------------------
(* The batches.                                                            *)

LEMMA SettlingIsCounted ==
    ASSUME WriterInv, SettleBatch, NEW n,
           \/ successful' = successful + n /\ failed' = failed
           \/ successful' = successful /\ failed' = failed + n,
           n = Cardinality(pending)
    PROVE  SettledStep
<1>1. pending \in SUBSET Items /\ successful \in Nat /\ failed \in Nat
  BY DEF WriterInv, ControlTypeOK, CounterTypeOK
<1>2. Cardinality(pending) \in Nat
  BY <1>1, BatchFinite
<1>3. InStage("done")' = InStage("done") \cup pending
  BY <1>1 DEF SettleBatch, TaskDone, MoveTo, InStage
<1> QED
  BY <1>1, <1>2, <1>3 DEF SettledStep

LEMMA SettledOfStep ==
    ASSUME WriterInv, [Next]_vars
    PROVE  SettledStep
<1>1. ASSUME UNCHANGED <<stage, successful, failed>> PROVE SettledStep
  BY <1>1 DEF SettledStep, InStage
<1>2. ASSUME Run \/ Stop \/ FetchEntries \/ FetchNothing \/ MarksReplayed \/ MarksFailed
             \/ MarkIsLost \/ RetrySave \/ WaitEndsWithItem \/ WaitEndsEmpty \/ Cancel
      PROVE  SettledStep
  BY <1>1, <1>2 DEF Run, Stop, FetchEntries, FetchNothing, MarksReplayed, MarksFailed,
                    MarkIsLost, EndReplay, RetrySave, WaitEndsWithItem, WaitEndsEmpty,
                    Cancel, queueVars, counters
<1>3. ASSUME GetTaskTakes \/ OrphanTakes PROVE SettledStep
  BY <1>3, GetKeepsDone DEF WriterInv, GetTaskTakes, OrphanTakes, counters, SettledStep
<1>4. CASE SaveSucceeds
  <2>1. CASE pc = "replaySave"
    BY <1>1, <1>4, <2>1 DEF SaveSucceeds, queueVars
  <2>2. CASE pc = "flushSave"
    BY <1>4, <2>2, SettlingIsCounted DEF SaveSucceeds
  <2> QED
    BY <1>4, <2>1, <2>2 DEF SaveSucceeds
<1>5. ASSUME NEW n, SettleAsFailed(n) PROVE SettledStep
  BY <1>5, SettlingIsCounted DEF SettleAsFailed
<1>6. CASE SaveGivenUp
  BY <1>1, <1>5, <1>6 DEF SaveGivenUp, queueVars, counters
<1>7. CASE SpoolAccepts \/ SpoolRefuses
  BY <1>5, <1>7 DEF SpoolAccepts, SpoolRefuses
<1>8. ASSUME NEW t \in Threads, JobCompletes(t) \/ JobFails(t) PROVE SettledStep
  BY <1>1, <1>8 DEF JobCompletes, JobFails, queueVars, counters
<1>9. CASE QueueStep
  <2>1. ASSUME NEW i \in Items, Produce(i) PROVE InStage("done")' = InStage("done")
    BY <2>1 DEF Produce, PutRefused, PutAtOnce, PutWaits, PutResumes, PutGivesUp,
                Enqueue, MoveTo, InStage
  <2>2. ASSUME Administer PROVE InStage("done")' = InStage("done")
    BY <2>2 DEF Administer, Close, DropPending, MoveTo, InStage
  <2> QED
    BY <1>9, <2>1, <2>2 DEF QueueStep, writerVars, counters, SettledStep
<1>10. CASE ClockStep
  BY <1>1, <1>10 DEF ClockStep, queueVars, counters
<1>11. CASE Crash
  BY <1>11 DEF Crash, SettledStep, InStage
<1>12. CASE UNCHANGED vars
  BY <1>1, <1>12 DEF vars, queueVars, counters
<1> QED
  BY <1>2, <1>3, <1>4, <1>6, <1>7, <1>8, <1>9, <1>10, <1>11, <1>12
     DEF Next, WriterStep, LeftoverStep

(* A result is acknowledged in one flush only, and counted there, however  *)
(* many flushes of its batch were begun and cancelled.                     *)
THEOREM SettlingIsExact == Spec => []SettledOnce
<1> DEFINE I == WriterInv /\ SettledOnce
<1>1. Init => I
  <2> SUFFICES ASSUME Init PROVE SettledOnce
    BY InitGood
  <2>1. InStage("done") = {} /\ successful = 0 /\ failed = 0
    BY DEF Init, QueueInit, InStage
  <2> QED
    BY <2>1, FS_EmptySet DEF SettledOnce
<1>2. I /\ [Next]_vars => I'
  <2> SUFFICES ASSUME I, [Next]_vars PROVE SettledOnce'
    BY NextGood DEF GoodStep
  <2>1. CASE InStage("done")' = {} /\ successful' = 0 /\ failed' = 0
    BY <2>1, FS_EmptySet DEF SettledOnce
  <2>2. CASE /\ InStage("done")' = InStage("done")
             /\ successful' = successful /\ failed' = failed
    BY <2>2 DEF SettledOnce
  <2>3. CASE /\ InStage("done")' = InStage("done") \cup pending
             /\ successful' + failed' = successful + failed + Cardinality(pending)
    <3>1. /\ InStage("done") \in SUBSET Items /\ pending \in SUBSET Items
          /\ InStage("done") \cap pending = {}
      BY DEF WriterInv, ControlTypeOK, HeldInv, InStage
    <3>2. /\ IsFiniteSet(InStage("done")) /\ IsFiniteSet(pending)
          /\ Cardinality(InStage("done")) \in Nat /\ Cardinality(pending) \in Nat
      BY <3>1, BatchFinite
    <3>3. /\ Cardinality(InStage("done") \cup pending) = Cardinality(InStage("done"))
                + Cardinality(pending) - Cardinality(InStage("done") \cap pending)
          /\ Cardinality(InStage("done") \cap pending) = 0
      BY <3>1, <3>2, FS_Union, FS_EmptySet
    <3>4. successful + failed = Cardinality(InStage("done"))
      BY DEF SettledOnce
    <3>5. successful' + failed' = Cardinality(InStage("done")')
      BY <2>3, <3>2, <3>3, <3>4
    <3> QED
      BY <3>5 DEF SettledOnce
  <2> QED
    BY <2>1, <2>2, <2>3, SettledOfStep DEF SettledStep
<1> QED
  BY <1>1, <1>2, PTL DEF Spec

-----------------------------------------------------------------------------
(* The end of run().                                                       *)

(* Each flush on the way out was begun by a cancellation of its own, and   *)
(* the replay of the spool has no batch pending.                           *)
EndedInv ==
    /\ phase = "except" => cancels >= 1
    /\ phase = "finally" => cancels >= 2
    /\ pc \in {"fetch", "replaySave", "markReplayed", "markFailed"} => pending = {}
    /\ pc \notin {"idle", "flushSave", "flushSpool"} => phase = "loop"
    /\ pc = "idle" => ~running /\ pending = {}

LEMMA LoopHeadEnds ==
    ASSUME NEW p, LoopHead(p)
    PROVE  /\ pc' = "idle" => ~running' /\ p = {}
           /\ pc' = "fetch" => p = {}
           /\ pc' \in {"idle", "fetch", "flushSave", "wait"}
BY DEF LoopHead, Return

LEMMA SettleEnds ==
    ASSUME EndedInv, SettleBatch, UNCHANGED <<phase, cancels>>
    PROVE  EndedInv'
<1>1. pending' = {}
  BY DEF SettleBatch
<1>2. CASE phase = "loop"
  BY <1>1, <1>2, LoopHeadEnds DEF SettleBatch, EndedInv
<1>3. CASE phase # "loop"
  BY <1>1, <1>3 DEF SettleBatch, Return, EndedInv
<1> QED
  BY <1>2, <1>3

LEMMA EndedStep ==
    ASSUME WriterInv, EndedInv, [Next]_vars, MaxCancels <= 2
    PROVE  EndedInv'
<1>1. ASSUME UNCHANGED <<pc, phase, running, pending, cancels>> PROVE EndedInv'
  BY <1>1 DEF EndedInv
<1>2. CASE Run
  BY <1>2, LoopHeadEnds DEF Run, EndedInv
<1>3. CASE FetchEntries \/ FetchNothing
  BY <1>3 DEF FetchEntries, FetchNothing, AfterReplayFoundNothing, Return, boundVars, EndedInv
<1>4. CASE MarksReplayed \/ MarksFailed \/ MarkIsLost
  BY <1>4, LoopHeadEnds DEF MarksReplayed, MarksFailed, MarkIsLost, EndReplay, boundVars,
                            EndedInv
<1>5. CASE SaveSucceeds
  BY <1>5, SettleEnds DEF SaveSucceeds, boundVars, EndedInv
<1>6. ASSUME NEW n, SettleAsFailed(n) PROVE EndedInv'
  BY <1>6, SettleEnds DEF SettleAsFailed, boundVars
<1>7. CASE SaveGivenUp
  BY <1>6, <1>7 DEF SaveGivenUp, AfterFailedSave, Saving, boundVars, EndedInv
<1>8. CASE SpoolAccepts \/ SpoolRefuses
  BY <1>6, <1>8 DEF SpoolAccepts, SpoolRefuses
<1>9. CASE WaitEndsWithItem \/ WaitEndsEmpty
  BY <1>9, LoopHeadEnds DEF WaitEndsWithItem, WaitEndsEmpty, boundVars, EndedInv
<1>10. CASE Cancel
  <2>1. /\ cancels < 2 /\ cancels' = cancels + 1 /\ pending' = pending /\ UnwindFrom
        /\ cancels \in Nat
    BY <1>10, WriterAssumption DEF Cancel, WriterInv, CounterTypeOK
  <2> QED
    BY <2>1 DEF UnwindFrom, Return, EndedInv
<1>11. CASE Crash
  BY <1>11 DEF Crash, EndedInv
<1>12. CASE Stop \/ RetrySave \/ GetTaskTakes \/ OrphanTakes
  BY <1>1, <1>12 DEF Stop, RetrySave, GetTaskTakes, OrphanTakes, boundVars
<1>13. ASSUME NEW t \in Threads, JobCompletes(t) \/ JobFails(t) PROVE EndedInv'
  BY <1>1, <1>13 DEF JobCompletes, JobFails, controlVars, boundVars
<1>14. CASE QueueStep \/ ClockStep \/ UNCHANGED vars
  BY <1>1, <1>14 DEF QueueStep, ClockStep, vars, writerVars, controlVars, boundVars
<1> QED
  BY <1>2, <1>3, <1>4, <1>5, <1>7, <1>8, <1>9, <1>10, <1>11, <1>12, <1>13, <1>14
     DEF Next, WriterStep, LeftoverStep

(* run() ends with _stopped set and its batch acknowledged, when it was    *)
(* cancelled at most twice: a third cancellation finds nothing to catch it.*)
THEOREM EndedRunIsSettled ==
    ASSUME MaxCancels <= 2
    PROVE  Spec => []EndedWriterIsSettled
<1>1. Init => EndedInv
  BY DEF Init, EndedInv
<1>2. EndedInv => EndedWriterIsSettled
  BY DEF EndedInv, EndedWriterIsSettled
<1>3. WriterInv /\ EndedInv /\ [Next]_vars => EndedInv'
  BY EndedStep
<1> QED
  BY <1>1, <1>2, <1>3, WriterInvariant, PTL DEF Spec

-----------------------------------------------------------------------------
(* What shutdown() reports.                                                *)

(* Without cancellations nobody but the writer takes from the queue. *)
DrainInv ==
    /\ getters = 0
    /\ InStage("taken") \subseteq pending \cup got
    /\ pc # "idle" => running

LEMMA SettleKeepsDrain ==
    ASSUME WriterInv, DrainInv, SettleBatch, UNCHANGED <<getters, got>>
    PROVE  DrainInv'
<1>1. pending \in SUBSET InStage("taken") /\ QueueInv
  BY DEF WriterInv, HeldInv
<1>2. InStage("taken")' = InStage("taken") \ pending
  BY <1>1, TaskDonePreserves DEF SettleBatch
<1>3. pc' # "idle" => running'
  BY DEF SettleBatch, LoopHead, Return
<1> QED
  BY <1>2, <1>3 DEF DrainInv

LEMMA DrainStep ==
    ASSUME WriterInv, DrainInv, [Next]_vars, MaxCancels = 0
    PROVE  DrainInv'
<1>1. ASSUME UNCHANGED <<stage, pending, got, getters>>, pc' # "idle" => running'
      PROVE  DrainInv'
  BY <1>1 DEF DrainInv, InStage
<1>2. ASSUME NEW p, LoopHead(p) PROVE pc' # "idle" => running'
  BY <1>2 DEF LoopHead, Return
<1>3. CASE Run
  BY <1>1, <1>2, <1>3 DEF Run, queueVars
<1>4. CASE FetchEntries \/ FetchNothing
  BY <1>1, <1>4 DEF FetchEntries, FetchNothing, AfterReplayFoundNothing, Return, queueVars,
                    DrainInv
<1>5. CASE MarksReplayed \/ MarksFailed \/ MarkIsLost
  BY <1>1, <1>2, <1>5 DEF MarksReplayed, MarksFailed, MarkIsLost, EndReplay, queueVars
<1>6. CASE SaveSucceeds
  BY <1>1, <1>6, SettleKeepsDrain DEF SaveSucceeds, queueVars, DrainInv
<1>7. ASSUME NEW n, SettleAsFailed(n) PROVE DrainInv'
  BY <1>7, SettleKeepsDrain DEF SettleAsFailed
<1>8. CASE SaveGivenUp
  BY <1>1, <1>7, <1>8 DEF SaveGivenUp, Saving, queueVars, DrainInv
<1>9. CASE SpoolAccepts \/ SpoolRefuses
  BY <1>7, <1>9 DEF SpoolAccepts, SpoolRefuses
<1>10. CASE GetTaskTakes
  <2>1. InStage("taken")' = InStage("taken") \cup {Head(queue)}
    BY <1>10, GetPreserves DEF GetTaskTakes, WriterInv
  <2> QED
    BY <1>10, <2>1 DEF GetTaskTakes, DrainInv
<1>11. CASE WaitEndsWithItem \/ WaitEndsEmpty
  <2>1. pc' # "idle" => running'
    BY <1>2, <1>11 DEF WaitEndsWithItem, WaitEndsEmpty, DrainInv
  <2>2. UNCHANGED <<stage, getters>> /\ pending' \cup got' = pending \cup got
    BY <1>11 DEF WaitEndsWithItem, WaitEndsEmpty, queueVars
  <2> QED
    BY <2>1, <2>2 DEF DrainInv, InStage
<1>12. CASE Stop \/ RetrySave
  BY <1>1, <1>12 DEF Stop, RetrySave, queueVars, DrainInv
<1>13. ~OrphanTakes /\ ~Cancel
  BY DEF OrphanTakes, Cancel, DrainInv, WriterInv, CounterTypeOK
<1>14. ASSUME NEW t \in Threads, JobCompletes(t) \/ JobFails(t) PROVE DrainInv'
  BY <1>1, <1>14 DEF JobCompletes, JobFails, controlVars, queueVars, DrainInv
<1>15. CASE QueueStep
  <2>1. InStage("taken")' \subseteq InStage("taken")
    <3>1. ASSUME NEW i \in Items, Produce(i) PROVE InStage("taken")' \subseteq InStage("taken")
      BY <3>1 DEF Produce, PutRefused, PutAtOnce, PutWaits, PutResumes, PutGivesUp,
                  Enqueue, MoveTo, InStage
    <3>2. ASSUME Administer PROVE InStage("taken")' \subseteq InStage("taken")
      BY <3>2 DEF Administer, Close, DropPending, MoveTo, InStage
    <3> QED
      BY <1>15, <3>1, <3>2 DEF QueueStep
  <2> QED
    BY <1>15, <2>1 DEF QueueStep, writerVars, controlVars, DrainInv
<1>16. CASE ClockStep \/ UNCHANGED vars
  BY <1>1, <1>16 DEF ClockStep, vars, controlVars, queueVars, DrainInv
<1>17. CASE Crash
  BY <1>17 DEF Crash, DrainInv, InStage
<1> QED
  BY <1>3, <1>4, <1>5, <1>6, <1>8, <1>9, <1>10, <1>11, <1>12, <1>13, <1>14, <1>15,
     <1>16, <1>17 DEF Next, WriterStep, LeftoverStep

(* When shutdown() reports stopped and drained, join() returns: what the   *)
(* queue handed out is acknowledged, unless a cancellation orphaned a      *)
(* get_task.                                                               *)
THEOREM DrainedIsSettled ==
    ASSUME MaxCancels = 0
    PROVE  Spec => []DrainedMeansSettled
<1>1. Init => DrainInv
  BY DEF Init, QueueInit, DrainInv, InStage
<1>2. WriterInv /\ DrainInv => DrainedMeansSettled
  <2> SUFFICES ASSUME WriterInv, DrainInv, ~running, queue = <<>>, pending = {}
               PROVE  unfinished = 0
    BY DEF DrainedMeansSettled
  <2>1. InStage("taken") = {}
    BY DEF DrainInv, WriterInv, HeldInv
  <2>2. QueueHoldsAccepted /\ UnfinishedIsExact
    BY DEF WriterInv, QueueInv
  <2>3. InStage("queued") = {}
    BY <2>2 DEF QueueHoldsAccepted
  <2> QED
    BY <2>1, <2>2, <2>3, FS_EmptySet DEF UnfinishedIsExact
<1>3. WriterInv /\ DrainInv /\ [Next]_vars => DrainInv'
  BY DrainStep
<1> QED
  BY <1>1, <1>2, <1>3, WriterInvariant, PTL DEF Spec
=============================================================================
