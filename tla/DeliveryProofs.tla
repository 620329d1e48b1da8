---------------------------- MODULE DeliveryProofs ----------------------------
(***************************************************************************)
(* Queue, writer, retries, threads and stores implement ResultDelivery for *)
(* every number of poll results, threads, cancellations and crashes: each  *)
(* step accepts a result, writes a store, settles a batch whose losses it  *)
(* reports, is a crash, or changes nothing a reader of the promise sees.   *)
(***************************************************************************)
EXTENDS DatabaseWriterProofs

Held == InStage("queued") \cup InStage("taken")
Dropped == InStage("dropped")
Done == InStage("done")
Counted == <<failed, spooled>>

(* What the writer does to the accepted results, told by their stages.     *)
Quiet == UNCHANGED <<Held, Done, Dropped, Counted>>

Accepts(i) ==
    /\ i \notin Held \cup Done \cup Dropped
    /\ Held' = Held \cup {i}
    /\ UNCHANGED <<Done, Dropped, Counted, Durable>>

Drops ==
    /\ Held' = Held \ InStage("queued")
    /\ Dropped' = Dropped \cup InStage("queued")
    /\ UNCHANGED <<Done, Counted>>

Settles ==
    /\ pending \subseteq Held
    /\ Held' = Held \ pending
    /\ Done' = Done \cup pending
    /\ Dropped' = Dropped
    /\ pending = {} => UNCHANGED Counted

Forgets ==
    /\ Held' = {} /\ Done' = {} /\ Dropped' = {}
    /\ failed' = 0 /\ spooled' = 0
    /\ UNCHANGED Durable

-----------------------------------------------------------------------------
(* What the operations of the queue do to the stages.                      *)

LEMMA StagesUnchanged ==
    ASSUME UNCHANGED <<stage, failed, spooled>>
    PROVE  Quiet
BY DEF Quiet, Held, Done, Dropped, InStage, Counted

LEMMA GetIsQuiet ==
    ASSUME QueueInv, Get, UNCHANGED Counted
    PROVE  Quiet
<1>1. Head(queue) \in InStage("queued")
  BY GetPreserves
<1>2. stage' = [i \in Items |-> IF i = Head(queue) THEN "taken" ELSE stage[i]]
  BY DEF Get, MoveTo
<1> QED
  BY <1>1, <1>2 DEF Quiet, Held, Done, Dropped, InStage

LEMMA ProduceAcceptsOrNot ==
    ASSUME NEW i \in Items, Produce(i), UNCHANGED <<Counted, Durable>>
    PROVE  Quiet \/ Accepts(i)
<1>1. CASE PutRefused(i) \/ PutWaits(i) \/ PutGivesUp(i)
  <2>1. /\ stage[i] \in {"new", "blocked"}
        /\ \/ stage' = [j \in Items |-> IF j = i THEN "rejected" ELSE stage[j]]
           \/ stage' = [j \in Items |-> IF j = i THEN "blocked" ELSE stage[j]]
    BY <1>1 DEF PutRefused, PutWaits, PutGivesUp, MoveTo
  <2> QED
    BY <2>1 DEF Quiet, Held, Done, Dropped, InStage
<1>2. CASE PutAtOnce(i) \/ PutResumes(i)
  <2>1. /\ stage[i] \in {"new", "blocked"}
        /\ stage' = [j \in Items |-> IF j = i THEN "queued" ELSE stage[j]]
    BY <1>2 DEF PutAtOnce, PutResumes, Enqueue, MoveTo
  <2> QED
    BY <2>1 DEF Accepts, Held, Done, Dropped, InStage
<1> QED
  BY <1>1, <1>2 DEF Produce

LEMMA AdministerDropsOrNot ==
    ASSUME Administer, UNCHANGED Counted
    PROVE  Quiet \/ Drops
<1>1. CASE Close
  BY <1>1, StagesUnchanged DEF Close, Counted
<1>2. CASE DropPending
  <2>1. stage' = [i \in Items |-> IF i \in InStage("queued") THEN "dropped" ELSE stage[i]]
    BY <1>2 DEF DropPending, MoveTo
  <2> QED
    BY <2>1 DEF Drops, Held, Done, Dropped, InStage
<1> QED
  BY <1>1, <1>2 DEF Administer

LEMMA BatchSettles ==
    ASSUME WriterInv, SettleBatch, pending = {} => UNCHANGED Counted
    PROVE  Settles
<1>1. pending \subseteq InStage("taken")
  BY DEF WriterInv, HeldInv
<1>2. stage' = [i \in Items |-> IF i \in pending THEN "done" ELSE stage[i]]
  BY DEF SettleBatch, TaskDone, MoveTo
<1> QED
  BY <1>1, <1>2 DEF Settles, Held, Done, Dropped, InStage

LEMMA FailedBatchSettles ==
    ASSUME WriterInv, NEW n \in Nat, SettleAsFailed(n), pending = {} => n = 0
    PROVE  Settles
<1>1. SettleBatch /\ failed' = failed + Cardinality(pending) /\ spooled' = spooled + n
  BY DEF SettleAsFailed
<1>2. pending = {} => Cardinality(pending) = 0 /\ failed \in Nat /\ spooled \in Nat
  BY FS_EmptySet DEF WriterInv, CounterTypeOK
<1> QED
  BY <1>1, <1>2, BatchSettles DEF Counted

-----------------------------------------------------------------------------
(* Every step of the writer is one of these.                               *)
LEMMA StepIsDelivery ==
    ASSUME WriterInv, [Next]_vars
    PROVE  Quiet \/ (\E i \in Items : Accepts(i)) \/ Drops \/ Settles \/ Forgets
<1>1. ASSUME Run \/ Stop \/ FetchEntries \/ FetchNothing \/ MarksReplayed \/ MarksFailed
             \/ MarkIsLost \/ RetrySave \/ WaitEndsWithItem \/ WaitEndsEmpty \/ Cancel
      PROVE  Quiet
  BY <1>1, StagesUnchanged
     DEF Run, Stop, FetchEntries, FetchNothing, MarksReplayed, MarksFailed, MarkIsLost,
         EndReplay, RetrySave, WaitEndsWithItem, WaitEndsEmpty, Cancel, queueVars, counters
<1>2. ASSUME GetTaskTakes \/ OrphanTakes PROVE Quiet
  BY <1>2, GetIsQuiet DEF WriterInv, GetTaskTakes, OrphanTakes, counters, Counted
<1>3. CASE SaveSucceeds
  <2>1. CASE pc = "replaySave"
    BY <1>3, <2>1, StagesUnchanged DEF SaveSucceeds, queueVars
  <2>2. CASE pc = "flushSave"
    BY <1>3, <2>2, BatchSettles DEF SaveSucceeds, Counted
  <2> QED
    BY <1>3, <2>1, <2>2 DEF SaveSucceeds
<1>4. CASE SaveGivenUp
  BY <1>4, FailedBatchSettles, StagesUnchanged DEF SaveGivenUp, queueVars, counters
<1>5. CASE SpoolRefuses
  BY <1>5, FailedBatchSettles DEF SpoolRefuses
<1>6. CASE SpoolAccepts
  <2>1. NewToSpool(pending) \in SUBSET Items /\ (pending = {} => NewToSpool(pending) = {})
    BY DEF NewToSpool, WriterInv, ControlTypeOK
  <2>2. Cardinality(NewToSpool(pending)) \in Nat
    BY <2>1, BatchFinite
  <2>3. pending = {} => Cardinality(NewToSpool(pending)) = 0
    BY <2>1, FS_EmptySet
  <2> QED
    BY <1>6, <2>2, <2>3, FailedBatchSettles DEF SpoolAccepts
<1>7. ASSUME NEW t \in Threads, JobCompletes(t) \/ JobFails(t) PROVE Quiet
  BY <1>7, StagesUnchanged DEF JobCompletes, JobFails, queueVars, counters
<1>8. CASE QueueStep
  <2>1. UNCHANGED <<Counted, Durable>>
    BY <1>8 DEF QueueStep, writerVars, counters, Counted, storeVars, Durable, Stored, Saved
  <2> QED
    BY <1>8, <2>1, ProduceAcceptsOrNot, AdministerDropsOrNot DEF QueueStep
<1>9. CASE ClockStep
  BY <1>9, StagesUnchanged DEF ClockStep, queueVars, counters
<1>10. CASE Crash
  BY <1>10 DEF Crash, Forgets, Held, Done, Dropped, InStage, storeVars, Durable, Stored, Saved
<1>11. CASE UNCHANGED vars
  BY <1>11, StagesUnchanged DEF vars, queueVars, counters
<1> QED
  BY <1>1, <1>2, <1>3, <1>4, <1>5, <1>6, <1>7, <1>8, <1>9, <1>10, <1>11
     DEF Next, WriterStep, LeftoverStep

-----------------------------------------------------------------------------
(* The steps of ResultDelivery.                                            *)

Lost == failed - spooled + Cardinality(Dropped)

LEMMA DeliveryTypes ==
    ASSUME WriterInv
    PROVE  /\ failed \in Nat /\ spooled \in Nat /\ Durable \subseteq Items
           /\ Cardinality(Dropped) \in Nat
           /\ Held \in SUBSET Items /\ Done \in SUBSET Items /\ Dropped \in SUBSET Items
           /\ InStage("queued") \in SUBSET Held
           /\ Dropped \cap InStage("queued") = {} /\ Done \cap pending = {}
           /\ pending \in SUBSET Items
<1>1. Held \in SUBSET Items /\ Done \in SUBSET Items /\ Dropped \in SUBSET Items
  BY DEF Held, Done, Dropped, InStage
<1>2. Cardinality(Dropped) \in Nat
  BY <1>1, BatchFinite
<1>3. Dropped \cap InStage("queued") = {} /\ Done \cap pending = {}
  BY DEF Dropped, Done, InStage, WriterInv, HeldInv
<1> QED
  BY <1>1, <1>2, <1>3
     DEF WriterInv, CounterTypeOK, ControlTypeOK, Held, Durable, Stored, Saved, SpoolTypeOK

(* The losses in a batch are in those Reports speaks of. *)
LEMMA SettledIsReported ==
    ASSUME WriterInv, WriterInv', Reports, Settles, pending # {}
    PROVE  Lost' >= Lost + Cardinality(pending \ Durable')
<1> USE DeliveryTypes
<1>1. PICK S \in SUBSET Items :
          /\ Done' = Done \cup S
          /\ failed' - spooled' >= failed - spooled + Cardinality(S \ Durable')
  BY DEF Reports, Settles, Done
<1>2. pending \subseteq S
  BY <1>1 DEF Settles
<1>3. /\ Cardinality(pending \ Durable') <= Cardinality(S \ Durable')
      /\ Cardinality(S \ Durable') \in Nat /\ Cardinality(pending \ Durable') \in Nat
  BY <1>2, BatchFinite, FS_Subset
<1>4. failed' \in Nat /\ spooled' \in Nat
  BY DEF WriterInv, CounterTypeOK
<1> QED
  BY <1>1, <1>3, <1>4 DEF Lost, Settles

(* drop_pending() reports every item it discards. *)
LEMMA DroppedIsReported ==
    ASSUME WriterInv, Drops
    PROVE  Lost' >= Lost + Cardinality(InStage("queued") \ Durable')
<1> DEFINE Q == InStage("queued")
<1>1. Q \in SUBSET Items /\ Dropped \in SUBSET Items /\ Dropped \cap Q = {}
      /\ failed \in Nat /\ spooled \in Nat
  BY DeliveryTypes
<1> HIDE DEF Q
<1>2. Cardinality(Dropped \cup Q) = Cardinality(Dropped) + Cardinality(Q)
  <2>1. IsFiniteSet(Dropped) /\ IsFiniteSet(Q)
        /\ Cardinality(Dropped) \in Nat /\ Cardinality(Q) \in Nat
    BY <1>1, BatchFinite
  <2>2. Cardinality(Dropped \cup Q)
          = Cardinality(Dropped) + Cardinality(Q) - Cardinality(Dropped \cap Q)
    BY <2>1, FS_Union
  <2>3. Cardinality(Dropped \cap Q) = 0
    BY <1>1, FS_EmptySet
  <2> QED
    BY <2>1, <2>2, <2>3
<1>3. Cardinality(Q \ Durable') <= Cardinality(Q)
  BY <1>1, BatchFinite, FS_Subset
<1>4. /\ Cardinality(Q) \in Nat /\ Cardinality(Dropped) \in Nat
      /\ Cardinality(Q \ Durable') \in Nat
  BY <1>1, BatchFinite
<1>5. Dropped' = Dropped \cup Q /\ failed' = failed /\ spooled' = spooled
  BY DEF Drops, Counted, Q
<1>6. Lost' = failed - spooled + Cardinality(Dropped \cup Q)
  BY <1>5 DEF Lost
<1>7. Lost' >= Lost + Cardinality(Q \ Durable')
  BY <1>1, <1>2, <1>3, <1>4, <1>6 DEF Lost
<1> QED
  BY <1>7 DEF Q

(* Batches of the writer and what drop_pending() discards are settled.     *)
LEMMA SettlesInSpec ==
    ASSUME WriterInv, Durable \subseteq Durable', Durable' \subseteq Items,
           NEW S \in SUBSET Items, S \subseteq Held, S # {},
           Held' = Held \ S, (Done \cup Dropped)' = Done \cup Dropped \cup S,
           Lost' >= Lost + Cardinality(S \ Durable')
    PROVE  Delivery!Settle(S)
<1>1. /\ (InStage("queued") \cup InStage("taken"))' = Held' /\ S \subseteq Held
      /\ (InStage("done") \cup InStage("dropped"))' = (Done \cup Dropped)'
      /\ (failed - spooled + Cardinality(InStage("dropped")))' = Lost'
  BY DEF Held, Done, Dropped, Lost
<1>2. /\ InStage("queued") \cup InStage("taken") = Held
      /\ InStage("done") \cup InStage("dropped") = Done \cup Dropped
      /\ failed - spooled + Cardinality(InStage("dropped")) = Lost
  BY DEF Held, Done, Dropped, Lost
<1>3. Delivery!Cardinality(S \ Durable') = Cardinality(S \ Durable')
  BY DEF Delivery!Cardinality, Cardinality
<1> QED
  BY <1>1, <1>2, <1>3 DEF Delivery!Settle

(* A step that changes nothing but the stores only adds to them.           *)
LEMMA StoresInSpec ==
    ASSUME Durable \subseteq Durable', Durable' \subseteq Items,
           Held' = Held, (Done \cup Dropped)' = Done \cup Dropped, Lost' = Lost
    PROVE  Delivery!Store
BY DEF Delivery!Store, Held, Done, Dropped, Lost

LEMMA DeliveryStep ==
    ASSUME WriterInv, [Next]_vars
    PROVE  Delivery!DeliveryNext
<1>1. WriterInv' /\ Reports /\ Durable \subseteq Durable'
  BY NextGood DEF GoodStep, StoresGrow
<1>2. Durable' \subseteq Items
  BY DEF Durable, Stored, Saved
<1>3. CASE Quiet
  <2>1. Held' = Held /\ (Done \cup Dropped)' = Done \cup Dropped /\ Lost' = Lost
    BY <1>3 DEF Quiet, Lost, Counted
  <2> QED
    BY <1>1, <1>2, <2>1, StoresInSpec DEF Delivery!DeliveryNext
<1>4. ASSUME NEW i \in Items, Accepts(i) PROVE Delivery!DeliveryNext
  <2>1. Lost' = Lost
    BY <1>4 DEF Accepts, Lost, Counted
  <2>2. Delivery!Accept(i)
    BY <1>4, <2>1 DEF Delivery!Accept, Accepts, Held, Done, Dropped, Lost
  <2> QED
    BY <2>2 DEF Delivery!DeliveryNext
<1>5. CASE Drops
  <2>1. CASE InStage("queued") = {}
    <3>1. Held' = Held /\ (Done \cup Dropped)' = Done \cup Dropped
      BY <1>5, <2>1 DEF Drops
    <3>2. Dropped' = Dropped /\ failed' = failed /\ spooled' = spooled
      BY <1>5, <2>1 DEF Drops, Counted
    <3> QED
      BY <1>1, <1>2, <3>1, <3>2, StoresInSpec DEF Delivery!DeliveryNext, Lost
  <2>2. CASE InStage("queued") # {}
    <3>1. /\ Held' = Held \ InStage("queued")
          /\ (Done \cup Dropped)' = Done \cup Dropped \cup InStage("queued")
      BY <1>5 DEF Drops
    <3>2. Lost' >= Lost + Cardinality(InStage("queued") \ Durable')
      BY <1>5, DroppedIsReported
    <3>3. InStage("queued") \in SUBSET Items /\ InStage("queued") \subseteq Held
      BY DEF InStage, Held
    <3>4. Delivery!Settle(InStage("queued"))
      BY <1>1, <1>2, <2>2, <3>1, <3>2, <3>3, SettlesInSpec
    <3> QED
      BY <3>3, <3>4 DEF Delivery!DeliveryNext
  <2> QED
    BY <2>1, <2>2
<1>6. CASE Settles
  <2>1. CASE pending = {}
    <3>1. Held' = Held /\ (Done \cup Dropped)' = Done \cup Dropped
      BY <1>6, <2>1 DEF Settles
    <3>2. Lost' = Lost
      BY <1>6, <2>1 DEF Settles, Lost, Counted
    <3> QED
      BY <1>1, <1>2, <3>1, <3>2, StoresInSpec DEF Delivery!DeliveryNext
  <2>2. CASE pending # {}
    <3>1. /\ Held' = Held \ pending /\ pending \subseteq Held
          /\ (Done \cup Dropped)' = Done \cup Dropped \cup pending
      BY <1>6 DEF Settles
    <3>2. Lost' >= Lost + Cardinality(pending \ Durable')
      BY <1>1, <1>6, <2>2, SettledIsReported
    <3>3. pending \in SUBSET Items
      BY DeliveryTypes
    <3>4. Delivery!Settle(pending)
      BY <1>1, <1>2, <2>2, <3>1, <3>2, <3>3, SettlesInSpec
    <3> QED
      BY <3>3, <3>4 DEF Delivery!DeliveryNext
  <2> QED
    BY <2>1, <2>2
<1>7. CASE Forgets
  <2>1. Cardinality(Dropped') = 0
    BY <1>7, FS_EmptySet DEF Forgets
  <2>2. Lost' = 0
    BY <1>7, <2>1 DEF Forgets, Lost
  <2>3. Delivery!Crash
    BY <1>7, <2>2 DEF Delivery!Crash, Forgets, Held, Done, Dropped, Lost
  <2> QED
    BY <2>3 DEF Delivery!DeliveryNext
<1> QED
  BY <1>3, <1>4, <1>5, <1>6, <1>7, StepIsDelivery

LEMMA DeliveryStarts == Init => Delivery!DeliveryInit
<1> SUFFICES ASSUME Init PROVE Delivery!DeliveryInit
  OBVIOUS
<1>1. /\ Held = {} /\ Done \cup Dropped = {} /\ Dropped = {}
      /\ failed = 0 /\ spooled = 0
  BY DEF Init, QueueInit, Held, Done, Dropped, InStage
<1>2. Durable = {}
  BY DEF Init, SpoolInit, Durable, Stored, Saved
<1>3. Lost = 0
  BY <1>1, FS_EmptySet DEF Lost
<1> QED
  BY <1>1, <1>2, <1>3 DEF Delivery!DeliveryInit, Held, Done, Dropped, Lost

(* The promise of ResultDelivery is kept by the queue, the writer, its     *)
(* retries and late threads, and the spool, through cancellations and      *)
(* crashes: what is accepted is settled as durable or as a reported loss.  *)
THEOREM WriterImplementsDelivery == Spec => ImplementsDelivery
<1>1. WriterInv /\ [Next]_vars => [Delivery!DeliveryNext]_(Delivery!deliveryVars)
  BY DeliveryStep
<1> QED
  BY <1>1, DeliveryStarts, WriterInvariant, PTL
     DEF Spec, ImplementsDelivery, Delivery!DeliverySpec
-----------------------------------------------------------------------------
(* What a producer was refused stays out of the writer.                    *)

LEMMA RejectedStays ==
    ASSUME WriterInv, [Next]_vars, ~Crash, NEW i \in Items, stage[i] = "rejected"
    PROVE  stage'[i] = "rejected"
<1>1. i \notin InStage("queued") \cup InStage("taken") \cup pending
  BY DEF InStage, WriterInv, HeldInv
<1>2. ASSUME NEW S, NEW s, i \notin S, MoveTo(S, s) PROVE stage'[i] = "rejected"
  BY <1>2 DEF MoveTo
<1>3. ASSUME SettleBatch PROVE stage'[i] = "rejected"
  BY <1>1, <1>2, <1>3 DEF SettleBatch, TaskDone
<1>4. ASSUME Get PROVE stage'[i] = "rejected"
  <2>1. Head(queue) \in InStage("queued")
    BY <1>4, GetPreserves DEF WriterInv
  <2> QED
    BY <1>1, <1>2, <1>4, <2>1 DEF Get
<1>5. CASE QueueStep
  <2>1. ASSUME NEW j \in Items, Produce(j) PROVE stage'[i] = "rejected"
    BY <1>2, <2>1 DEF Produce, PutRefused, PutAtOnce, PutWaits, PutResumes, PutGivesUp,
                      Enqueue
  <2>2. ASSUME Administer PROVE stage'[i] = "rejected"
    BY <1>1, <1>2, <2>2 DEF Administer, Close, DropPending
  <2> QED
    BY <1>5, <2>1, <2>2 DEF QueueStep
<1>6. CASE GetTaskTakes \/ OrphanTakes
  BY <1>4, <1>6 DEF GetTaskTakes, OrphanTakes
<1>7. CASE SaveSucceeds \/ SaveGivenUp \/ SpoolRefuses \/ SpoolAccepts
  BY <1>3, <1>7 DEF SaveSucceeds, SaveGivenUp, SpoolRefuses, SpoolAccepts,
                    SettleAsFailed, queueVars
<1>8. ASSUME UNCHANGED stage PROVE stage'[i] = "rejected"
  BY <1>8
<1>9. ASSUME Run \/ Stop \/ FetchEntries \/ FetchNothing \/ MarksReplayed \/ MarksFailed
             \/ MarkIsLost \/ RetrySave \/ WaitEndsWithItem \/ WaitEndsEmpty \/ Cancel
             \/ ClockStep \/ (\E t \in Threads : JobCompletes(t) \/ JobFails(t))
             \/ UNCHANGED vars
      PROVE  UNCHANGED stage
  BY <1>9 DEF Run, Stop, FetchEntries, FetchNothing, MarksReplayed, MarksFailed,
              MarkIsLost, EndReplay, RetrySave, WaitEndsWithItem, WaitEndsEmpty, Cancel,
              ClockStep, JobCompletes, JobFails, vars, queueVars
<1> QED
  BY <1>5, <1>6, <1>7, <1>8, <1>9 DEF Next, WriterStep, LeftoverStep

(* put() that has raised has no effect on a process that goes on: the item *)
(* its poller reported as not stored never enters the queue, whatever the  *)
(* writer, its cancellation and drop_pending() do meanwhile.               *)
THEOREM RejectedNeverWritten ==
    ASSUME MaxCrashes = 0
    PROVE  Spec => RejectedStaysOut
<1> DEFINE Out == \A i \in Items : stage[i] = "rejected" =>
                     stage'[i] = "rejected" /\ \A k \in DOMAIN queue' : queue'[k] # i
<1>1. WriterInv /\ [Next]_vars => [Out]_queueVars
  <2> SUFFICES ASSUME WriterInv, [Next]_vars, NEW i \in Items, stage[i] = "rejected"
               PROVE  stage'[i] = "rejected" /\ \A k \in DOMAIN queue' : queue'[k] # i
    OBVIOUS
  <2>1. ~Crash
    BY DEF Crash, WriterInv, CounterTypeOK
  <2>2. stage'[i] = "rejected"
    BY <2>1, RejectedStays
  <2>3. WriterInv'
    BY NextGood DEF GoodStep
  <2>4. \A k \in DOMAIN queue' : queue'[k] \in InStage("queued")'
    BY <2>3 DEF WriterInv, QueueInv, QueueHoldsAccepted
  <2> QED
    BY <2>2, <2>4 DEF InStage
<1> QED
  BY <1>1, WriterInvariant, PTL DEF Spec, RejectedStaysOut, Out
=============================================================================
