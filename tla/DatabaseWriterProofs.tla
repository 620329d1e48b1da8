------------------------ MODULE DatabaseWriterProofs ------------------------
(***************************************************************************)
(* Type correctness of the writer, that what is durable is never lost, and *)
(* that every loss is reported, proved for every number of poll results,   *)
(* every size of the queue, the batches and the spool, any number of       *)
(* executor threads, cancellations and crashes.                            *)
(***************************************************************************)
EXTENDS DatabaseWriter, ReadingQueueProofs

(* The batch and the item of the get_task are held by the writer, and a    *)
(* get_task has something to deliver only while the writer waits for it.   *)
HeldInv ==
    /\ pending \subseteq InStage("taken")
    /\ got \subseteq InStage("taken")
    /\ pc # "wait" => got = {}

(* Entries are deleted from the spool, now or by a thread that was left    *)
(* behind, only when the database has them.                                *)
ConfirmedInv ==
    /\ pc = "markReplayed" => replay \subseteq Saved
    /\ \A t \in Threads : left[t].op = "replayed" => left[t].ids \subseteq Saved

WriterInv ==
    /\ QueueInv
    /\ SpoolTypeOK
    /\ ControlTypeOK
    /\ left \in [Threads -> Jobs]
    /\ CounterTypeOK
    /\ HeldInv
    /\ ConfirmedInv

(* What a step does to the stores, as far as the theorems need it. *)
StoresGrow ==
    /\ SpoolTypeOK'
    /\ Saved \subseteq Saved'
    /\ Durable \subseteq Durable'

(* A step reports the losses it causes: of the results S it acknowledges,  *)
(* those that are nowhere are added to the failed and not spooled ones.    *)
Reports ==
    \/ /\ InStage("done")' = {}
       /\ failed' = 0 /\ spooled' = 0
    \/ \E S \in SUBSET Items :
          /\ InStage("done")' = InStage("done") \cup S
          /\ failed' - spooled' >= failed - spooled + Cardinality(S \ Durable')

(* What every step is shown to satisfy. *)
GoodStep == WriterInv' /\ StoresGrow /\ Reports

(* The jobs that may be found on a thread after a step. *)
LeftConfirmed ==
    /\ left' \in [Threads -> Jobs]
    /\ \A t \in Threads : left'[t] # left[t] /\ left'[t].op = "replayed"
                             => left'[t].ids \subseteq Saved'

-----------------------------------------------------------------------------
(* The operations of the stores. *)

(* save_poll_results() adds its batch to the database and nothing else. *)
LEMMA SaveRowsGrows ==
    ASSUME SpoolTypeOK, NEW S \in SUBSET Items, SaveRows(S), UNCHANGED spoolVars
    PROVE  StoresGrow /\ S \subseteq Saved'
<1>1. \A i \in Items : rows'[i] = IF i \in S /\ rows[i] = 0 THEN 1 ELSE rows[i]
  BY DEF SaveRows
<1>2. rows' \in [Items -> Nat]
  BY DEF SaveRows, SpoolTypeOK
<1>3. Saved \subseteq Saved' /\ S \subseteq Saved'
  BY <1>1 DEF Saved, SpoolTypeOK
<1>4. Stored' = Stored
  BY DEF Stored, spoolVars
<1> QED
  BY <1>2, <1>3, <1>4 DEF StoresGrow, SpoolTypeOK, Durable, spoolVars

(* append() stores the whole batch and keeps every older entry. *)
LEMMA AppendGrows ==
    ASSUME SpoolTypeOK, NEW S \in SUBSET Items, AppendToSpool(S), UNCHANGED rows
    PROVE  StoresGrow /\ S \subseteq Durable'
<1> DEFINE new == NewToSpool(S)
<1>1. \A i \in Items : age'[i] = IF i \in new THEN 1
                                 ELSE IF age[i] = 0 \/ new = {} THEN age[i]
                                 ELSE age[i] + 1
  BY DEF AppendToSpool
<1>2. age' \in [Items -> Nat]
  BY DEF AppendToSpool, SpoolTypeOK
<1>3. Stored' = Stored \cup S
  BY <1>1, <1>2 DEF Stored, NewToSpool, SpoolTypeOK
<1>4. Saved' = Saved
  BY DEF Saved
<1> QED
  BY <1>2, <1>3, <1>4 DEF StoresGrow, SpoolTypeOK, Durable, AppendToSpool, NewToSpool

(* mark_replayed() of entries that the database has loses nothing. *)
LEMMA MarkReplayedGrows ==
    ASSUME SpoolTypeOK, NEW S \in SUBSET Saved, MarkReplayed(S), UNCHANGED rows
    PROVE  StoresGrow
<1>1. age' \in [Items -> Nat] /\ Stored' = Stored \ S /\ Saved' = Saved
  BY DEF MarkReplayed, SpoolTypeOK, Stored, Saved
<1> QED
  BY <1>1 DEF StoresGrow, SpoolTypeOK, Durable, MarkReplayed

(* mark_failed() changes only when entries are due. *)
LEMMA MarkFailedGrows ==
    ASSUME SpoolTypeOK, NEW S, MarkFailed(S), UNCHANGED rows
    PROVE  StoresGrow
<1>1. age' = age /\ Stored' = Stored /\ Saved' = Saved
  BY DEF MarkFailed, Stored, Saved
<1> QED
  BY <1>1 DEF StoresGrow, SpoolTypeOK, Durable, MarkFailed

(* A step that leaves the stores alone. *)
LEMMA StoresUnchanged ==
    ASSUME SpoolTypeOK, UNCHANGED storeVars
    PROVE  StoresGrow /\ Saved' = Saved /\ Durable' = Durable
BY DEF storeVars, StoresGrow, SpoolTypeOK, Stored, Saved, Durable

-----------------------------------------------------------------------------
(* The rest of the state. *)

(* A step that leaves the queue alone. *)
LEMMA QueueUnchanged ==
    ASSUME QueueInv, UNCHANGED queueVars
    PROVE  /\ QueueInv'
           /\ InStage("taken")' = InStage("taken")
           /\ InStage("done")' = InStage("done")
<1>1. InStage("done")' = InStage("done")
  BY DEF queueVars, InStage
<1> QED
  BY <1>1, FramePreserves DEF queueVars, QueueInv, QueueTypeOK

(* Where the loop may be suspended next. *)
LEMMA LoopHeadTypes ==
    ASSUME NEW p, LoopHead(p)
    PROVE  pc' \in {"idle", "fetch", "wait", "flushSave"} /\ running' \in BOOLEAN
BY DEF LoopHead, Return

(* The job left behind, if any, is the one the caller was waiting for. *)
LEMMA LeaveBehindTypes ==
    ASSUME left \in [Threads -> Jobs], NEW job \in Jobs, LeaveBehind(job)
    PROVE  /\ left' \in [Threads -> Jobs]
           /\ \A t \in Threads : left'[t] = left[t] \/ left'[t] = job
BY DEF LeaveBehind, FreeThreads

(* Subsets of Items have a cardinality that is a number. *)
LEMMA BatchFinite ==
    ASSUME NEW S \in SUBSET Items
    PROVE  IsFiniteSet(S) /\ Cardinality(S) \in Nat
BY ItemsAssumption, FS_Subset, FS_CardinalityType

(* Acknowledging nothing needs no report. *)
LEMMA NothingSettled ==
    ASSUME CounterTypeOK, InStage("done")' = InStage("done"), UNCHANGED <<failed, spooled>>
    PROVE  Reports
<1>1. {} \in SUBSET Items /\ {} \ Durable' = {} /\ Cardinality({}) = 0
  BY FS_EmptySet
<1>2. failed' - spooled' >= failed - spooled + 0
  BY DEF CounterTypeOK
<1> QED
  BY <1>1, <1>2 DEF Reports

(* ConfirmedInv is kept by a step that leaves behind or deletes only what  *)
(* is confirmed, since the database keeps what it has.                     *)
LEMMA ConfirmedPreserved ==
    ASSUME ConfirmedInv, left \in [Threads -> Jobs], LeftConfirmed, StoresGrow,
           pc' = "markReplayed" => replay' \subseteq Saved'
    PROVE  ConfirmedInv'
<1> SUFFICES ASSUME NEW t \in Threads, left'[t].op = "replayed"
             PROVE  left'[t].ids \subseteq Saved'
  BY DEF ConfirmedInv
<1>1. CASE left'[t] = left[t]
  BY <1>1 DEF ConfirmedInv, StoresGrow
<1>2. CASE left'[t] # left[t]
  BY <1>2 DEF LeftConfirmed
<1> QED
  BY <1>1, <1>2

(* A step that leaves the queue alone is good if it keeps the types, the   *)
(* items the writer holds and the confirmations.                           *)
LEMMA QueueQuietStep ==
    ASSUME WriterInv, UNCHANGED queueVars, StoresGrow, UNCHANGED <<failed, spooled>>,
           ControlTypeOK', CounterTypeOK', LeftConfirmed,
           pending' \subseteq pending \cup got, got' \subseteq got,
           pc' # "wait" => got' = {},
           pc' = "markReplayed" => replay' \subseteq Saved'
    PROVE  GoodStep
<1>1. /\ QueueInv'
      /\ InStage("taken")' = InStage("taken") /\ InStage("done")' = InStage("done")
  BY QueueUnchanged DEF WriterInv
<1>2. Reports
  BY <1>1, NothingSettled DEF WriterInv
<1>3. HeldInv'
  BY <1>1 DEF WriterInv, HeldInv
<1>4. ConfirmedInv'
  BY ConfirmedPreserved DEF WriterInv
<1> QED
  BY <1>1, <1>2, <1>3, <1>4 DEF WriterInv, GoodStep, StoresGrow, LeftConfirmed

(* Settling the pending batch is good if the losses in it are counted.     *)
LEMMA SettleStep ==
    ASSUME WriterInv, pc # "wait", SettleBatch, StoresGrow,
           UNCHANGED <<phase, stop, got, getters, replay>>,
           CounterTypeOK', LeftConfirmed,
           failed' - spooled' >= failed - spooled + Cardinality(pending \ Durable')
    PROVE  GoodStep
<1>1. QueueInv /\ HeldInv /\ ControlTypeOK /\ ConfirmedInv /\ left \in [Threads -> Jobs]
  BY DEF WriterInv
<1>2. TaskDone(pending) /\ pending' = {} /\ attempt' = 1
  BY DEF SettleBatch
<1>3. got = {} /\ got' = {} /\ pending \in SUBSET InStage("taken") /\ pending \subseteq Items
  BY <1>1 DEF HeldInv, ControlTypeOK
<1>4. QueueInv' /\ InStage("taken")' = InStage("taken") \ pending
  BY <1>1, <1>2, <1>3, TaskDonePreserves
<1>5. InStage("done")' = InStage("done") \cup pending
  BY <1>2, <1>3 DEF TaskDone, MoveTo, InStage
<1>6. pc' \in {"idle", "fetch", "wait", "flushSave"} /\ running' \in BOOLEAN
  BY LoopHeadTypes DEF SettleBatch, Return
<1>7. ControlTypeOK'
  BY <1>1, <1>2, <1>3, <1>6, WriterAssumption DEF ControlTypeOK
<1>8. HeldInv'
  BY <1>2, <1>3 DEF HeldInv
<1>9. ConfirmedInv'
  BY <1>1, <1>6, ConfirmedPreserved
<1>10. Reports
  BY <1>3, <1>5 DEF Reports
<1> QED
  BY <1>4, <1>7, <1>8, <1>9, <1>10 DEF WriterInv, GoodStep, StoresGrow, LeftConfirmed

-----------------------------------------------------------------------------
(* The actions of the writer. *)

(* run() is called, or stop() is. *)
LEMMA RunStopStep ==
    ASSUME WriterInv, Run \/ Stop
    PROVE  GoodStep
<1>1. /\ StoresGrow /\ UNCHANGED <<queueVars, failed, spooled>>
      /\ LeftConfirmed /\ CounterTypeOK'
  BY StoresUnchanged DEF WriterInv, Run, Stop, LeftConfirmed, CounterTypeOK,
                         storeVars, counters, boundVars
<1>2. CASE Run
  <2>1. pc' \in {"idle", "fetch", "wait", "flushSave"} /\ running' \in BOOLEAN
    BY <1>2, LoopHeadTypes DEF Run
  <2>2. ControlTypeOK' /\ pending' = pending /\ got' = {} /\ got = {}
    BY <1>2, <2>1 DEF Run, WriterInv, ControlTypeOK, HeldInv
  <2> QED
    BY <1>1, <2>1, <2>2, QueueQuietStep
<1>3. CASE Stop
  <2>1. /\ ControlTypeOK' /\ pending' = pending /\ got' = got /\ pc' = pc
        /\ replay' = replay
    BY <1>3 DEF Stop, WriterInv, ControlTypeOK
  <2> QED
    BY <1>1, <2>1, QueueQuietStep DEF WriterInv, HeldInv, ConfirmedInv, StoresGrow
<1> QED
  BY <1>2, <1>3

(* The writer reads the spool. *)
LEMMA FetchStep ==
    ASSUME WriterInv, FetchEntries \/ FetchNothing
    PROVE  GoodStep
<1>1. /\ StoresGrow /\ UNCHANGED <<queueVars, failed, spooled>> /\ CounterTypeOK'
      /\ got = {} /\ got' = {} /\ pending' = pending
  BY StoresUnchanged DEF WriterInv, FetchEntries, FetchNothing, CounterTypeOK,
                         storeVars, counters, boundVars, HeldInv
<1>2. CASE FetchEntries
  <2>1. ControlTypeOK' /\ pc' = "replaySave"
    BY <1>2 DEF FetchEntries, WriterInv, ControlTypeOK, SpoolTypeOK, Stored
  <2>2. LeftConfirmed
    BY <1>2 DEF FetchEntries, WriterInv, LeftConfirmed
  <2> QED
    BY <1>1, <2>1, <2>2, QueueQuietStep
<1>3. CASE FetchNothing
  <2>1. ControlTypeOK' /\ pc' \in {"idle", "wait"}
    BY <1>3 DEF FetchNothing, AfterReplayFoundNothing, Return, WriterInv, ControlTypeOK
  <2>2. LeftConfirmed
    <3>1. Job("fetch", {}) \in Jobs /\ Job("fetch", {}).op # "replayed"
      BY DEF Job, Jobs
    <3> QED
      BY <1>3, <3>1, LeaveBehindTypes DEF FetchNothing, WriterInv, LeftConfirmed
  <2> QED
    BY <1>1, <2>1, <2>2, QueueQuietStep
<1> QED
  BY <1>2, <1>3

(* The writer tells the spool the outcome of a replay; a deletion that is  *)
(* left behind is of entries the database has.                             *)
LEMMA MarkStep ==
    ASSUME WriterInv, MarksReplayed \/ MarksFailed \/ MarkIsLost
    PROVE  GoodStep
<1>1. /\ EndReplay /\ UNCHANGED <<queueVars, rows, failed, spooled>>
      /\ replay \subseteq Items /\ SpoolTypeOK
      /\ pc = "markReplayed" => replay \subseteq Saved
  BY DEF WriterInv, MarksReplayed, MarksFailed, MarkIsLost, EndReplay, ControlTypeOK,
         ConfirmedInv
<1>2. StoresGrow
  <2>1. CASE MarksReplayed
    BY <1>1, <2>1, MarkReplayedGrows DEF MarksReplayed
  <2>2. CASE MarksFailed
    BY <1>1, <2>2, MarkFailedGrows DEF MarksFailed
  <2>3. CASE MarkIsLost
    BY <1>1, <2>3, StoresUnchanged DEF MarkIsLost, storeVars, spoolVars
  <2> QED
    BY <2>1, <2>2, <2>3
<1>3. LeftConfirmed
  <2>1. CASE MarksReplayed \/ MarksFailed
    BY <2>1 DEF MarksReplayed, MarksFailed, WriterInv, LeftConfirmed
  <2>2. CASE MarkIsLost
    <3> DEFINE job == Job(IF pc = "markReplayed" THEN "replayed" ELSE "failed", replay)
    <3>1. /\ job \in Jobs /\ job.ids = replay
          /\ job.op = "replayed" => pc = "markReplayed"
      BY <1>1 DEF Job, Jobs
    <3>2. LeaveBehind(job)
      BY <2>2 DEF MarkIsLost
    <3> HIDE DEF job
    <3>3. /\ left' \in [Threads -> Jobs]
          /\ \A t \in Threads : left'[t] = left[t] \/ left'[t] = job
      BY <3>1, <3>2, LeaveBehindTypes DEF WriterInv
    <3> QED
      BY <1>1, <1>2, <3>1, <3>3 DEF LeftConfirmed, StoresGrow
  <2> QED
    BY <2>1, <2>2
<1>4. pc' \in {"idle", "fetch", "wait", "flushSave"} /\ running' \in BOOLEAN
  BY <1>1, LoopHeadTypes DEF EndReplay
<1>5. /\ ControlTypeOK' /\ CounterTypeOK' /\ pending' = pending
      /\ got = {} /\ got' = {}
  <2>1. got = {}
    BY DEF WriterInv, HeldInv, MarksReplayed, MarksFailed, MarkIsLost
  <2> QED
    BY <1>1, <1>4, <2>1, WriterAssumption
       DEF EndReplay, WriterInv, ControlTypeOK, CounterTypeOK, boundVars
<1> QED
  BY <1>1, <1>2, <1>3, <1>4, <1>5, QueueQuietStep

(* A job left behind that is no deletion confirms nothing new. *)
LEMMA OtherJobLeft ==
    ASSUME WriterInv, NEW op \in {"fetch", "save", "append", "failed"},
           NEW S \in SUBSET Items, LeaveBehind(Job(op, S)) \/ UNCHANGED left
    PROVE  LeftConfirmed
<1>1. Job(op, S) \in Jobs /\ Job(op, S).op # "replayed"
  BY DEF Job, Jobs
<1>2. CASE LeaveBehind(Job(op, S))
  BY <1>1, <1>2, LeaveBehindTypes DEF WriterInv, LeftConfirmed
<1>3. CASE UNCHANGED left
  BY <1>3 DEF WriterInv, LeftConfirmed
<1> QED
  BY <1>2, <1>3

(* A save that the database confirms: a replayed batch may be deleted from *)
(* the spool, a flushed one is acknowledged and nothing of it is lost.     *)
LEMMA SaveSucceedsStep ==
    ASSUME WriterInv, SaveSucceeds
    PROVE  GoodStep
<1>1. /\ pc \in {"replaySave", "flushSave"} /\ SaveRows(Batch) /\ UNCHANGED spoolVars
      /\ UNCHANGED <<phase, stop, got, getters, replay, left, failed, spooled, boundVars>>
      /\ inserted' = inserted + Cardinality(NewReadings(Batch))
  BY DEF SaveSucceeds, Saving
<1>2. Batch \in SUBSET Items /\ pending \in SUBSET Items /\ got = {}
  BY <1>1 DEF Batch, WriterInv, ControlTypeOK, HeldInv
<1>3. StoresGrow /\ Batch \subseteq Saved'
  BY <1>1, <1>2, SaveRowsGrows DEF WriterInv
<1>4. /\ Cardinality(NewReadings(Batch)) \in Nat /\ Cardinality(pending) \in Nat
  BY <1>2, BatchFinite DEF NewReadings
<1>5. LeftConfirmed
  BY <1>1 DEF WriterInv, LeftConfirmed
<1>6. CASE pc = "replaySave"
  <2>1. /\ pc' = "markReplayed" /\ Batch = replay
        /\ UNCHANGED <<queueVars, running, pending, attempt, successful>>
    BY <1>6 DEF SaveSucceeds, Batch
  <2>2. ControlTypeOK' /\ CounterTypeOK'
    BY <1>1, <1>4, <2>1 DEF WriterInv, ControlTypeOK, CounterTypeOK, boundVars
  <2> QED
    BY <1>1, <1>2, <1>3, <1>5, <2>1, <2>2, QueueQuietStep
<1>7. CASE pc = "flushSave"
  <2>1. /\ SettleBatch /\ Batch = pending
        /\ successful' = successful + Cardinality(pending)
    BY <1>7 DEF SaveSucceeds, Batch
  <2>2. CounterTypeOK'
    BY <1>1, <1>4, <2>1 DEF WriterInv, CounterTypeOK, boundVars
  <2>3. pending \ Durable' = {}
    BY <1>3, <2>1 DEF Durable
  <2>4. failed' - spooled' >= failed - spooled + Cardinality(pending \ Durable')
    <3>1. Cardinality(pending \ Durable') = 0
      BY <2>3, FS_EmptySet
    <3> QED
      BY <1>1, <3>1 DEF WriterInv, CounterTypeOK
  <2> QED
    BY <1>1, <1>3, <1>5, <1>7, <2>1, <2>2, <2>4, SettleStep
<1> QED
  BY <1>1, <1>6, <1>7

(* An attempt to save fails and is made again. *)
LEMMA RetrySaveStep ==
    ASSUME WriterInv, RetrySave
    PROVE  GoodStep
<1>1. /\ StoresGrow /\ UNCHANGED <<queueVars, failed, spooled>> /\ CounterTypeOK'
      /\ pending' = pending /\ got' = {} /\ pc' = pc /\ pc # "markReplayed"
      /\ LeaveBehind(Job("save", Batch)) /\ Batch \in SUBSET Items
  BY StoresUnchanged DEF WriterInv, RetrySave, Saving, SaveAttemptFails, HeldInv, Batch,
                         ControlTypeOK, CounterTypeOK, storeVars, counters, boundVars
<1>2. ControlTypeOK'
  BY WriterAssumption DEF WriterInv, RetrySave, ControlTypeOK
<1>3. LeftConfirmed
  BY <1>1, OtherJobLeft
<1> QED
  BY <1>1, <1>2, <1>3, QueueQuietStep

(* A batch the writer gives up is counted as failed; n of it are stored.   *)
LEMMA SettleAsFailedStep ==
    ASSUME WriterInv, pc # "wait", NEW n \in Nat, SettleAsFailed(n), StoresGrow,
           LeftConfirmed, Cardinality(pending \ Durable') + n <= Cardinality(pending)
    PROVE  GoodStep
<1>1. pending \in SUBSET Items
  BY DEF WriterInv, ControlTypeOK
<1>2. Cardinality(pending) \in Nat /\ Cardinality(pending \ Durable') \in Nat
  BY <1>1, BatchFinite
<1>3. /\ failed' = failed + Cardinality(pending) /\ spooled' = spooled + n
      /\ SettleBatch
      /\ UNCHANGED <<phase, stop, got, getters, replay, successful, inserted, boundVars>>
  BY DEF SettleAsFailed
<1>4. CounterTypeOK'
  BY <1>2, <1>3 DEF WriterInv, CounterTypeOK, boundVars
<1>5. failed' - spooled' >= failed - spooled + Cardinality(pending \ Durable')
  BY <1>2, <1>3 DEF WriterInv, CounterTypeOK
<1> QED
  BY <1>3, <1>4, <1>5, SettleStep

(* The whole of a batch may be lost when none of it is counted as spooled. *)
LEMMA AllLostStep ==
    ASSUME WriterInv, pc # "wait", SettleAsFailed(0), StoresGrow, LeftConfirmed
    PROVE  GoodStep
<1>1. pending \in SUBSET Items
  BY DEF WriterInv, ControlTypeOK
<1>2. Cardinality(pending \ Durable') <= Cardinality(pending)
  BY <1>1, BatchFinite, FS_Subset
<1>3. Cardinality(pending) \in Nat /\ Cardinality(pending \ Durable') \in Nat
  BY <1>1, BatchFinite
<1> QED
  BY <1>2, <1>3, SettleAsFailedStep

(* The writer gives up saving a batch. *)
LEMMA SaveGivenUpStep ==
    ASSUME WriterInv, SaveGivenUp
    PROVE  GoodStep
<1>1. pc \in {"replaySave", "flushSave"} /\ StoresGrow /\ Batch \in SUBSET Items
  BY StoresUnchanged DEF SaveGivenUp, Saving, WriterInv, Batch, ControlTypeOK
<1>2. LeftConfirmed
  BY <1>1, OtherJobLeft DEF SaveGivenUp, SaveAttemptFails
<1>3. CASE pc = "flushSave" /\ SettleAsFailed(0)
  BY <1>1, <1>2, <1>3, AllLostStep
<1>4. CASE /\ pc' = AfterFailedSave /\ attempt' = 1
           /\ UNCHANGED <<queueVars, phase, running, stop, pending, got, getters,
                          replay, counters, boundVars>>
  <2>1. pc' \in {"markFailed", "flushSpool"}
    BY <1>4 DEF AfterFailedSave
  <2>2. ControlTypeOK' /\ CounterTypeOK'
    BY <1>4, <2>1, WriterAssumption
       DEF WriterInv, ControlTypeOK, CounterTypeOK, counters, boundVars
  <2>3. got = {} /\ got' = {} /\ pending' = pending /\ UNCHANGED <<failed, spooled>>
    BY <1>1, <1>4 DEF WriterInv, HeldInv, counters
  <2> QED
    BY <1>1, <1>2, <1>4, <2>1, <2>2, <2>3, QueueQuietStep
<1> QED
  BY <1>1, <1>3, <1>4 DEF SaveGivenUp

(* The spool takes the batch, or the writer does not learn that it did. *)
LEMMA SpoolStep ==
    ASSUME WriterInv, SpoolAccepts \/ SpoolRefuses
    PROVE  GoodStep
<1>1. pc = "flushSpool" /\ pending \in SUBSET Items /\ SpoolTypeOK
  BY DEF SpoolAccepts, SpoolRefuses, WriterInv, ControlTypeOK
<1>2. CASE SpoolAccepts
  <2>1. AppendToSpool(pending) /\ UNCHANGED <<rows, left>>
    BY <1>2 DEF SpoolAccepts, SettleAsFailed
  <2>2. StoresGrow /\ pending \ Durable' = {}
    BY <1>1, <2>1, AppendGrows
  <2>3. /\ Cardinality(NewToSpool(pending)) <= Cardinality(pending)
        /\ Cardinality(NewToSpool(pending)) \in Nat /\ Cardinality(pending) \in Nat
        /\ Cardinality(pending \ Durable') = 0
    BY <1>1, <2>2, BatchFinite, FS_Subset, FS_EmptySet DEF NewToSpool
  <2>4. LeftConfirmed
    BY <2>1 DEF WriterInv, LeftConfirmed
  <2> QED
    BY <1>1, <1>2, <2>2, <2>3, <2>4, SettleAsFailedStep DEF SpoolAccepts
<1>3. CASE SpoolRefuses
  <2>1. StoresGrow
    BY <1>1, <1>3, StoresUnchanged DEF SpoolRefuses, SettleAsFailed, storeVars, spoolVars
  <2>2. LeftConfirmed
    BY <1>1, <1>3, OtherJobLeft DEF SpoolRefuses
  <2> QED
    BY <1>1, <1>3, <2>1, <2>2, AllLostStep DEF SpoolRefuses
<1> QED
  BY <1>2, <1>3

(* A step that touches the queue, but acknowledges nothing and takes       *)
(* nothing away from the writer.                                           *)
LEMMA QueueOnlyStep ==
    ASSUME WriterInv, QueueInv', UNCHANGED <<storeVars, pc, pending, replay, left>>,
           UNCHANGED counters, CounterTypeOK', ControlTypeOK',
           InStage("taken") \subseteq InStage("taken")',
           InStage("done")' = InStage("done"),
           got' \subseteq InStage("taken")', pc # "wait" => got' = {}
    PROVE  GoodStep
<1>1. StoresGrow /\ Saved' = Saved
  BY StoresUnchanged DEF WriterInv
<1>2. Reports
  BY NothingSettled DEF WriterInv, counters
<1>3. HeldInv'
  BY DEF WriterInv, HeldInv
<1>4. ConfirmedInv'
  BY <1>1 DEF WriterInv, ConfirmedInv
<1> QED
  BY <1>1, <1>2, <1>3, <1>4 DEF WriterInv, GoodStep, StoresGrow

(* Taking an item acknowledges nothing. *)
LEMMA GetKeepsDone ==
    ASSUME QueueInv, Get
    PROVE  /\ InStage("done")' = InStage("done")
           /\ InStage("taken") \subseteq InStage("taken")'
           /\ {Head(queue)} \subseteq InStage("taken")'
           /\ {Head(queue)} \subseteq Items
<1>1. /\ Head(queue) \in InStage("queued")
      /\ InStage("taken")' = InStage("taken") \cup {Head(queue)}
  BY GetPreserves
<1>2. InStage("done")' = InStage("done")
  BY <1>1 DEF Get, MoveTo, InStage
<1>3. Head(queue) \in Items
  BY <1>1 DEF InStage
<1> QED
  BY <1>1, <1>2, <1>3

(* A get() takes an item, for the writer or for nobody. *)
LEMMA GetStep ==
    ASSUME WriterInv, GetTaskTakes \/ OrphanTakes
    PROVE  GoodStep
<1>1. /\ Get /\ QueueInv' /\ UNCHANGED <<storeVars, pc, pending, replay, left, counters>>
      /\ UNCHANGED <<phase, running, stop, attempt, boundVars>>
  BY GetPreserves DEF GetTaskTakes, OrphanTakes, WriterInv
<1>2. /\ InStage("done")' = InStage("done")
      /\ InStage("taken") \subseteq InStage("taken")'
      /\ {Head(queue)} \subseteq InStage("taken")'
      /\ {Head(queue)} \subseteq Items
  BY <1>1, GetKeepsDone DEF WriterInv
<1>3. CounterTypeOK'
  BY <1>1 DEF WriterInv, CounterTypeOK, counters, boundVars
<1>4. CASE GetTaskTakes
  <2>1. pc = "wait" /\ got' = {Head(queue)} /\ getters' = getters
    BY <1>4 DEF GetTaskTakes
  <2>2. ControlTypeOK'
    BY <1>1, <1>2, <2>1 DEF WriterInv, ControlTypeOK
  <2> QED
    BY <1>1, <1>2, <1>3, <2>1, <2>2, QueueOnlyStep
<1>5. CASE OrphanTakes
  <2>1. got' = got /\ getters' \in Nat
    BY <1>5 DEF OrphanTakes, WriterInv, ControlTypeOK
  <2>2. ControlTypeOK'
    BY <1>1, <2>1 DEF WriterInv, ControlTypeOK
  <2>3. got' \subseteq InStage("taken")' /\ (pc # "wait" => got' = {})
    BY <1>2, <2>1 DEF WriterInv, HeldInv
  <2> QED
    BY <1>1, <1>2, <1>3, <2>2, <2>3, QueueOnlyStep
<1> QED
  BY <1>4, <1>5

(* The wait of the writer ends, with an item or without. *)
LEMMA WaitEndsStep ==
    ASSUME WriterInv, WaitEndsWithItem \/ WaitEndsEmpty
    PROVE  GoodStep
<1>1. /\ StoresGrow /\ UNCHANGED <<queueVars, failed, spooled>> /\ CounterTypeOK'
      /\ LeftConfirmed /\ got' = {} /\ pending' \subseteq pending \cup got
  BY StoresUnchanged DEF WriterInv, WaitEndsWithItem, WaitEndsEmpty, LeftConfirmed,
                         CounterTypeOK, storeVars, counters, boundVars
<1>2. pc' \in {"idle", "fetch", "wait", "flushSave"} /\ running' \in BOOLEAN
  <2>1. ASSUME UNCHANGED running PROVE running' \in BOOLEAN
    BY <2>1 DEF WriterInv, ControlTypeOK
  <2> QED
    BY <2>1, LoopHeadTypes DEF WaitEndsWithItem, WaitEndsEmpty
<1>3. ControlTypeOK'
  BY <1>1, <1>2 DEF WriterInv, ControlTypeOK, WaitEndsWithItem, WaitEndsEmpty
<1> QED
  BY <1>1, <1>2, <1>3, QueueQuietStep

(* A job left behind ends: late appends, deletions and saves lose nothing. *)
LEMMA JobStep ==
    ASSUME WriterInv, NEW t \in Threads, JobCompletes(t) \/ JobFails(t)
    PROVE  GoodStep
<1>1. /\ UNCHANGED <<queueVars, controlVars, counters, boundVars>>
      /\ left' = [left EXCEPT ![t] = NoJob]
  BY DEF JobCompletes, JobFails
<1>2. /\ ControlTypeOK' /\ CounterTypeOK' /\ UNCHANGED <<failed, spooled>>
      /\ pending' = pending /\ got' = got /\ pc' = pc /\ replay' = replay
  BY <1>1 DEF WriterInv, ControlTypeOK, CounterTypeOK, controlVars, counters, boundVars
<1>3. LeftConfirmed
  BY <1>1 DEF WriterInv, LeftConfirmed, NoJob, Jobs
<1>4. /\ left[t] \in Jobs /\ left[t].ids \in SUBSET Items
      /\ left[t].op = "replayed" => left[t].ids \in SUBSET Saved
      /\ SpoolTypeOK
  BY DEF WriterInv, ConfirmedInv, Jobs
<1>5. StoresGrow
  <2>1. CASE UNCHANGED storeVars
    BY <1>4, <2>1, StoresUnchanged
  <2>2. CASE SaveRows(left[t].ids) /\ UNCHANGED spoolVars
    BY <1>4, <2>2, SaveRowsGrows
  <2>3. CASE AppendToSpool(left[t].ids) /\ UNCHANGED rows
    BY <1>4, <2>3, AppendGrows
  <2>4. CASE left[t].op = "replayed" /\ MarkReplayed(left[t].ids) /\ UNCHANGED rows
    BY <1>4, <2>4, MarkReplayedGrows
  <2>5. CASE MarkFailed(left[t].ids) /\ UNCHANGED rows
    BY <1>4, <2>5, MarkFailedGrows
  <2> QED
    BY <2>1, <2>2, <2>3, <2>4, <2>5 DEF JobCompletes, JobFails
<1>6. /\ pc' # "wait" => got' = {}
      /\ pc' = "markReplayed" => replay' \subseteq Saved'
  BY <1>2, <1>5 DEF WriterInv, HeldInv, ConfirmedInv, StoresGrow
<1> QED
  BY <1>1, <1>2, <1>3, <1>5, <1>6, QueueQuietStep

(* Producers and the shutdown calls leave the writer's batch alone. *)
LEMMA QueueSideStep ==
    ASSUME WriterInv, QueueStep
    PROVE  GoodStep
<1>1. /\ UNCHANGED <<storeVars, controlVars, left, counters, boundVars>>
      /\ (\E i \in Items : Produce(i)) \/ Administer
  BY DEF QueueStep, writerVars
<1>2. QueueInv' /\ QueueInv
  BY <1>1, ProducePreserves, AdministerPreserves DEF WriterInv
<1>3. /\ InStage("taken") \subseteq InStage("taken")'
      /\ InStage("done")' = InStage("done")
  <2>1. ASSUME NEW i \in Items, Produce(i)
        PROVE  /\ InStage("taken") \subseteq InStage("taken")'
               /\ InStage("done")' = InStage("done")
    BY <2>1 DEF Produce, PutRefused, PutAtOnce, PutWaits, PutResumes, PutGivesUp,
                Enqueue, MoveTo, InStage
  <2>2. CASE Administer
    BY <2>2 DEF Administer, Close, DropPending, MoveTo, InStage
  <2> QED
    BY <1>1, <2>1, <2>2
<1>4. /\ ControlTypeOK' /\ CounterTypeOK' /\ UNCHANGED <<pc, pending, replay, got>>
  BY <1>1 DEF WriterInv, ControlTypeOK, CounterTypeOK, controlVars, counters, boundVars
<1>5. got' \subseteq InStage("taken")' /\ (pc # "wait" => got' = {})
  BY <1>3, <1>4 DEF WriterInv, HeldInv
<1> QED
  BY <1>1, <1>2, <1>3, <1>4, <1>5, QueueOnlyStep

(* Time passes for the entries of the spool. *)
LEMMA ClockGoodStep ==
    ASSUME WriterInv, ClockStep
    PROVE  GoodStep
<1>1. PICK S \in SUBSET Items : DelayElapses(S)
  BY DEF ClockStep
<1>2. UNCHANGED <<queueVars, controlVars, left, counters, boundVars, age, rows>>
  BY <1>1 DEF ClockStep, DelayElapses
<1>3. StoresGrow
  <2>1. Stored' = Stored /\ Saved' = Saved
    BY <1>2 DEF Stored, Saved
  <2> QED
    BY <1>1, <1>2, <2>1 DEF WriterInv, StoresGrow, SpoolTypeOK, Durable, DelayElapses
<1>4. /\ ControlTypeOK' /\ CounterTypeOK' /\ UNCHANGED <<failed, spooled>>
      /\ UNCHANGED <<pending, got, pc, replay, left>>
  BY <1>2 DEF WriterInv, ControlTypeOK, CounterTypeOK, controlVars, counters, boundVars
<1>5. /\ LeftConfirmed
      /\ pc' # "wait" => got' = {}
      /\ pc' = "markReplayed" => replay' \subseteq Saved'
  BY <1>3, <1>4 DEF WriterInv, LeftConfirmed, HeldInv, ConfirmedInv, StoresGrow
<1> QED
  BY <1>2, <1>3, <1>4, <1>5, QueueQuietStep

(* A cancellation, wherever it finds the writer, leaves behind a deletion  *)
(* only of what the database has.                                          *)
LEMMA CancelStep ==
    ASSUME WriterInv, Cancel
    PROVE  GoodStep
<1>1. /\ UNCHANGED <<queueVars, storeVars, stop, pending, counters, crashes>>
      /\ replay' = {} /\ attempt' = 1 /\ cancels' = cancels + 1
      /\ UnwindFrom
  BY DEF Cancel
<1>2. StoresGrow /\ Saved' = Saved /\ CounterTypeOK' /\ UNCHANGED <<failed, spooled>>
  BY <1>1, StoresUnchanged DEF WriterInv, CounterTypeOK, counters
<1>3. /\ pc' \in {"idle", "flushSave"} /\ phase' \in {"loop", "except", "finally"}
      /\ running' \in BOOLEAN
  BY <1>1 DEF UnwindFrom, Return, WriterInv, ControlTypeOK
<1>4. got' = {} /\ getters' \in Nat
  BY DEF Cancel, CancelledWait, CancelledCall, WriterInv, ControlTypeOK, HeldInv
<1>5. ControlTypeOK'
  BY <1>1, <1>3, <1>4, WriterAssumption DEF WriterInv, ControlTypeOK
<1>6. LeftConfirmed
  <2>1. {} \in SUBSET Items /\ replay \in SUBSET Items /\ pending \in SUBSET Items
        /\ Batch \in SUBSET Items
    BY DEF WriterInv, ControlTypeOK, Batch
  <2>2. CASE pc = "markReplayed" /\ LeaveBehind(Job("replayed", replay))
    <3>1. Job("replayed", replay) \in Jobs /\ Job("replayed", replay).ids = replay
      BY <2>1 DEF Job, Jobs
    <3> QED
      BY <1>2, <2>2, <3>1, LeaveBehindTypes DEF WriterInv, LeftConfirmed, ConfirmedInv
  <2> QED
    BY <2>1, <2>2, OtherJobLeft DEF Cancel, CancelledWait, CancelledCall
<1> QED
  BY <1>1, <1>2, <1>3, <1>4, <1>5, <1>6, QueueQuietStep

(* A crash takes the memory of the process and leaves the stores.          *)
LEMMA CrashStep ==
    ASSUME WriterInv, Crash
    PROVE  GoodStep
<1>1. /\ queue' = <<>> /\ unfinished' = 0 /\ closed' = FALSE
      /\ stage' = [i \in Items |-> IF stage[i] = "new" THEN "new" ELSE "gone"]
      /\ UNCHANGED storeVars
  BY DEF Crash
<1>2. InStage("queued")' = {} /\ InStage("taken")' = {} /\ InStage("done")' = {}
  BY <1>1 DEF InStage
<1>3. QueueInv'
  <2>1. queue' \in Seq(Items) /\ Len(queue') = 0 /\ DOMAIN queue' = {}
    BY <1>1, EmptySeq
  <2>2. QueueTypeOK'
    BY <1>1, <2>1 DEF QueueTypeOK, Stages
  <2>3. NoItemTwice'
    BY <2>1 DEF NoItemTwice
  <2>4. Cardinality({}) = 0
    BY FS_EmptySet
  <2>5. QueueHoldsAccepted'
    BY <1>2, <2>1, <2>4, MaxSizeAssumption DEF QueueHoldsAccepted
  <2>6. UnfinishedIsExact'
    BY <1>1, <1>2, <2>4 DEF UnfinishedIsExact
  <2> QED
    BY <2>2, <2>3, <2>5, <2>6 DEF QueueInv
<1>4. StoresGrow
  BY <1>1, StoresUnchanged DEF WriterInv
<1>5. ControlTypeOK' /\ CounterTypeOK'
  <2>1. ControlTypeOK'
    <3>1. 1 \in 1 .. MaxAttempts
      BY WriterAssumption
    <3> QED
      BY <3>1 DEF Crash, ControlTypeOK
  <2>2. CounterTypeOK'
    BY DEF Crash, WriterInv, CounterTypeOK
  <2> QED
    BY <2>1, <2>2
<1>6. left' \in [Threads -> Jobs] /\ ConfirmedInv'
  BY DEF Crash, NoJob, Jobs, ConfirmedInv
<1>7. HeldInv' /\ Reports
  BY <1>2 DEF Crash, HeldInv, Reports
<1> QED
  BY <1>3, <1>4, <1>5, <1>6, <1>7 DEF WriterInv, GoodStep, StoresGrow

-----------------------------------------------------------------------------
(* The specification. *)

(* The writer starts with nothing held, stored or confirmed. *)
LEMMA InitGood == Init => WriterInv /\ LossIsReported
<1> SUFFICES ASSUME Init PROVE WriterInv /\ LossIsReported
  OBVIOUS
<1>1. QueueInv
  BY InitEstablishes DEF Init
<1>2. SpoolTypeOK
  BY DEF Init, SpoolInit, SpoolTypeOK
<1>3. ControlTypeOK
  <2>1. 1 \in 1 .. MaxAttempts
    BY WriterAssumption
  <2> QED
    BY <2>1 DEF Init, ControlTypeOK
<1>4. left \in [Threads -> Jobs] /\ CounterTypeOK /\ HeldInv /\ ConfirmedInv
  BY DEF Init, CounterTypeOK, HeldInv, ConfirmedInv, NoJob, Jobs
<1>5. LossIsReported
  <2>1. InStage("done") \ Durable = {}
    BY DEF Init, QueueInit, InStage
  <2>2. Cardinality(InStage("done") \ Durable) = 0
    BY <2>1, FS_EmptySet
  <2> QED
    BY <2>2 DEF Init, LossIsReported
<1> QED
  BY <1>1, <1>2, <1>3, <1>4, <1>5 DEF WriterInv

(* A step that changes nothing is good. *)
LEMMA StutterGood ==
    ASSUME WriterInv, UNCHANGED vars
    PROVE  GoodStep
<1>1. /\ UNCHANGED <<queueVars, storeVars, controlVars, left, counters, boundVars>>
  BY DEF vars
<1>2. StoresGrow /\ Saved' = Saved
  BY <1>1, StoresUnchanged DEF WriterInv
<1>3. /\ ControlTypeOK' /\ CounterTypeOK' /\ UNCHANGED <<failed, spooled>>
      /\ UNCHANGED <<pending, got, pc, replay, left>>
  BY <1>1 DEF WriterInv, ControlTypeOK, CounterTypeOK, controlVars, counters, boundVars
<1>4. /\ LeftConfirmed
      /\ pc' # "wait" => got' = {}
      /\ pc' = "markReplayed" => replay' \subseteq Saved'
  BY <1>2, <1>3 DEF WriterInv, LeftConfirmed, HeldInv, ConfirmedInv
<1> QED
  BY <1>1, <1>2, <1>3, <1>4, QueueQuietStep

(* Every step of the specification is good. *)
LEMMA NextGood == WriterInv /\ [Next]_vars => GoodStep
<1> SUFFICES ASSUME WriterInv, [Next]_vars PROVE GoodStep
  OBVIOUS
<1>1. CASE Run \/ Stop
  BY <1>1, RunStopStep
<1>2. CASE WriterStep
  BY <1>2, FetchStep, MarkStep, SaveSucceedsStep, RetrySaveStep, SaveGivenUpStep,
     SpoolStep, GetStep, WaitEndsStep DEF WriterStep
<1>3. CASE LeftoverStep
  BY <1>3, JobStep, GetStep DEF LeftoverStep
<1>4. CASE QueueStep
  BY <1>4, QueueSideStep
<1>5. CASE ClockStep
  BY <1>5, ClockGoodStep
<1>6. CASE Cancel
  BY <1>6, CancelStep
<1>7. CASE Crash
  BY <1>7, CrashStep
<1>8. CASE UNCHANGED vars
  BY <1>8, StutterGood
<1> QED
  BY <1>1, <1>2, <1>3, <1>4, <1>5, <1>6, <1>7, <1>8 DEF Next

(* When a step reports the losses it causes and the stores keep what they  *)
(* have, all losses stay reported.                                         *)
LEMMA LossStaysReported ==
    ASSUME CounterTypeOK, CounterTypeOK', StoresGrow, Reports, LossIsReported
    PROVE  LossIsReported'
<1> DEFINE lost == InStage("done") \ Durable
<1>1. InStage("done") \in SUBSET Items /\ InStage("done")' \in SUBSET Items
  BY DEF InStage
<1>2. CASE InStage("done")' = {} /\ failed' = 0 /\ spooled' = 0
  <2>1. (InStage("done") \ Durable)' = {}
    BY <1>2
  <2>2. Cardinality((InStage("done") \ Durable)') = 0
    BY <2>1, FS_EmptySet
  <2> QED
    BY <1>2, <2>2 DEF LossIsReported
<1>3. ASSUME NEW S \in SUBSET Items,
             InStage("done")' = InStage("done") \cup S,
             failed' - spooled' >= failed - spooled + Cardinality(S \ Durable')
      PROVE  LossIsReported'
  <2> DEFINE new == S \ Durable'
             next == (InStage("done") \ Durable)'
  <2>1. next \subseteq lost \cup new
    BY <1>3 DEF StoresGrow
  <2>2. IsFiniteSet(lost) /\ IsFiniteSet(new)
    BY <1>1, BatchFinite
  <2>3. /\ Cardinality(lost) \in Nat /\ Cardinality(new) \in Nat
        /\ Cardinality(lost \cap new) \in Nat
    BY <1>1, BatchFinite
  <2>4. /\ IsFiniteSet(lost \cup new)
        /\ Cardinality(lost \cup new)
             = Cardinality(lost) + Cardinality(new) - Cardinality(lost \cap new)
    BY <2>2, FS_Union
  <2>5. Cardinality(next) <= Cardinality(lost \cup new) /\ Cardinality(next) \in Nat
    BY <2>1, <2>4, FS_Subset, FS_CardinalityType
  <2>6. Cardinality(lost) <= failed - spooled
    BY DEF LossIsReported
  <2>7. failed' - spooled' >= failed - spooled + Cardinality(new)
    BY <1>3
  <2> HIDE DEF lost, new, next
  <2>8. Cardinality(next) <= failed' - spooled'
    BY <2>3, <2>4, <2>5, <2>6, <2>7 DEF CounterTypeOK
  <2> USE DEF next
  <2> QED
    BY <2>8 DEF LossIsReported
<1> QED
  BY <1>2, <1>3 DEF Reports

(* The inductive invariant holds in every reachable state. *)
LEMMA WriterInvariant == Spec => []WriterInv
BY InitGood, NextGood, PTL DEF Spec, GoodStep

(* Every variable of the writer, the queue and the stores has its type;    *)
(* only stored entries are due, and a job on a thread is a known one.      *)
THEOREM WriterTypeOK == Spec => []TypeOK
<1>1. WriterInv => TypeOK
  BY DEF WriterInv, TypeOK, QueueInv
<1> QED
  BY <1>1, WriterInvariant, PTL

(* The queue stays exact with the writer as its consumer: it holds the     *)
(* accepted items and join() waits for the unacknowledged ones.            *)
THEOREM WriterQueueIsExact == Spec => [](QueueHoldsAccepted /\ UnfinishedIsExact)
<1>1. WriterInv => QueueHoldsAccepted /\ UnfinishedIsExact
  BY DEF WriterInv, QueueInv
<1> QED
  BY <1>1, WriterInvariant, PTL

(* What the spool or the database has is in one of them ever after: the    *)
(* spool deletes only entries whose save was confirmed.                    *)
THEOREM DurableStays == Spec => DurableIsNeverLost
<1>1. WriterInv /\ [Next]_vars => [Durable \subseteq Durable']_vars
  BY NextGood DEF GoodStep, StoresGrow
<1> QED
  BY <1>1, WriterInvariant, PTL DEF Spec, DurableIsNeverLost

(* The acknowledged poll results that are nowhere are reported by the      *)
(* counters of metrics(), in every interleaving with late jobs.            *)
THEOREM LossesAreReported == Spec => []LossIsReported
<1> DEFINE I == WriterInv /\ LossIsReported
<1>1. Init => I
  BY InitGood
<1>2. I /\ [Next]_vars => I'
  BY NextGood, LossStaysReported DEF GoodStep, WriterInv
<1>3. I => LossIsReported
  OBVIOUS
<1> QED
  BY <1>1, <1>2, <1>3, PTL DEF Spec

(* join() waits for the accepted and unacknowledged items exactly, with    *)
(* task_done() called by the writer, drop_pending() and after crashes.     *)
THEOREM JoinCounterIsExact == Spec => []UnfinishedIsExact
BY WriterQueueIsExact, PTL
=============================================================================
