------------------------- MODULE ReadingQueueProofs -------------------------
(***************************************************************************)
(* The invariants of the queue, proved for every set of items and every    *)
(* max_size.  QueueInv is inductive; there is one lemma per operation of   *)
(* the queue, so that a module that embeds the queue can cite them.        *)
(***************************************************************************)
EXTENDS ReadingQueue, FiniteSetTheorems, SequenceTheorems, TLAPS

(* No item is in the queue twice. *)
NoItemTwice ==
    \A j, k \in 1 .. Len(queue) : queue[j] = queue[k] => j = k

(* The inductive invariant: the queue is an enumeration without repetition *)
(* of the queued items, and both counters count what they stand for.       *)
QueueInv ==
    /\ QueueTypeOK
    /\ NoItemTwice
    /\ QueueHoldsAccepted
    /\ UnfinishedIsExact

-----------------------------------------------------------------------------
(* Facts about stages. *)

(* Every set of items that are in a stage is finite. *)
LEMMA StagesFinite ==
    ASSUME NEW s
    PROVE  /\ IsFiniteSet(InStage(s))
           /\ InStage(s) \subseteq Items
           /\ Cardinality(InStage(s)) \in Nat
<1>1. InStage(s) \subseteq Items
  BY DEF InStage
<1>2. IsFiniteSet(InStage(s))
  BY <1>1, ItemsAssumption, FS_Subset
<1> QED
  BY <1>1, <1>2, FS_CardinalityType

(* The items a consumer or the queue holds are finitely many. *)
LEMMA HeldFinite ==
    /\ IsFiniteSet(InStage("queued") \cup InStage("taken"))
    /\ Cardinality(InStage("queued") \cup InStage("taken")) \in Nat
BY StagesFinite, FS_Union, FS_CardinalityType

(* What MoveTo(S, s) does to the stages and to the members of stage s. *)
LEMMA MoveToStages ==
    ASSUME QueueTypeOK, NEW S \in SUBSET Items, NEW s \in Stages, MoveTo(S, s)
    PROVE  /\ stage' \in [Items -> Stages]
           /\ InStage(s)' = InStage(s) \cup S
<1>1. stage' \in [Items -> Stages]
  BY DEF MoveTo, QueueTypeOK
<1>2. InStage(s)' = InStage(s) \cup S
  BY DEF InStage, MoveTo
<1> QED
  BY <1>1, <1>2

-----------------------------------------------------------------------------
(* The operations. *)

(* Enqueueing an item that is not in the queue, while there is room. *)
LEMMA EnqueuePreserves ==
    ASSUME QueueInv, HasRoom, NEW i \in Items, stage[i] \in {"new", "blocked"}, Enqueue(i)
    PROVE  QueueInv'
<1> USE DEF Stages
<1>1. /\ queue \in Seq(Items) /\ unfinished \in Nat /\ closed \in BOOLEAN
      /\ QueueTypeOK /\ NoItemTwice /\ QueueHoldsAccepted /\ UnfinishedIsExact
  BY DEF QueueInv, QueueTypeOK
<1>2. /\ stage' \in [Items -> Stages]
      /\ InStage("queued")' = InStage("queued") \cup {i}
      /\ InStage("taken")' = InStage("taken")
  <2>1. MoveTo({i}, "queued")
    BY DEF Enqueue
  <2>2. stage' \in [Items -> Stages] /\ InStage("queued")' = InStage("queued") \cup {i}
    BY <1>1, <2>1, MoveToStages
  <2>3. InStage("taken")' = InStage("taken")
    BY <2>1 DEF InStage, MoveTo
  <2> QED
    BY <2>2, <2>3
<1>3. i \notin InStage("queued") /\ i \notin InStage("taken")
  BY DEF InStage
<1>4. /\ queue' \in Seq(Items)
      /\ Len(queue') = Len(queue) + 1
      /\ \A k \in 1 .. Len(queue) : queue'[k] = queue[k]
      /\ queue'[Len(queue) + 1] = i
  BY <1>1, AppendProperties DEF Enqueue
<1>5. /\ Len(queue) \in Nat /\ Len(queue') \in Nat
      /\ DOMAIN queue = 1 .. Len(queue) /\ DOMAIN queue' = 1 .. Len(queue')
  BY <1>1, <1>4, LenProperties
<1>6. \A k \in 1 .. Len(queue) : queue[k] \in InStage("queued")
  BY <1>1, <1>5 DEF QueueHoldsAccepted
<1>7. NoItemTwice'
  <2> SUFFICES ASSUME NEW j \in 1 .. Len(queue'), NEW k \in 1 .. Len(queue'),
                      queue'[j] = queue'[k]
               PROVE  j = k
    BY DEF NoItemTwice
  <2>1. \A m \in 1 .. Len(queue) : queue'[m] # i
    BY <1>3, <1>4, <1>6
  <2> QED
    BY <1>1, <1>4, <1>5, <2>1 DEF NoItemTwice
<1>8. QueueHoldsAccepted'
  <2>1. {queue'[k] : k \in DOMAIN queue'} = InStage("queued")'
    <3>1. {queue'[k] : k \in DOMAIN queue'} = {queue[k] : k \in DOMAIN queue} \cup {i}
      BY <1>4, <1>5
    <3> QED
      BY <1>1, <1>2, <3>1 DEF QueueHoldsAccepted
  <2>2. Len(queue') = Cardinality(InStage("queued")')
    BY <1>1, <1>2, <1>3, <1>4, StagesFinite, FS_AddElement DEF QueueHoldsAccepted
  <2>3. Len(queue') <= MaxSize
    BY <1>4, <1>5, MaxSizeAssumption DEF HasRoom
  <2> QED
    BY <2>1, <2>2, <2>3 DEF QueueHoldsAccepted
<1>9. unfinished' \in Nat /\ UnfinishedIsExact'
  <2>1. (InStage("queued") \cup InStage("taken"))'
            = (InStage("queued") \cup InStage("taken")) \cup {i}
    BY <1>2
  <2>2. Cardinality((InStage("queued") \cup InStage("taken"))')
            = Cardinality(InStage("queued") \cup InStage("taken")) + 1
    BY <1>3, <2>1, HeldFinite, FS_AddElement
  <2> QED
    BY <1>1, <2>2 DEF UnfinishedIsExact, Enqueue
<1> QED
  BY <1>1, <1>2, <1>4, <1>7, <1>8, <1>9 DEF QueueInv, QueueTypeOK, Enqueue

(* A step that leaves the queue alone and moves no item in or out of the   *)
(* stages queued and taken, as a put() that fails or starts to wait.       *)
LEMMA OutsidePreserves ==
    ASSUME QueueInv, UNCHANGED <<queue, unfinished, closed>>,
           stage' \in [Items -> Stages],
           InStage("queued")' = InStage("queued"),
           InStage("taken")' = InStage("taken")
    PROVE  QueueInv'
BY DEF QueueInv, QueueTypeOK, NoItemTwice, QueueHoldsAccepted, UnfinishedIsExact

(* Every outcome of a put(). *)
LEMMA ProducePreserves ==
    ASSUME QueueInv, NEW i \in Items, Produce(i)
    PROVE  QueueInv'
<1>1. QueueTypeOK
  BY DEF QueueInv
<1>2. ASSUME NEW s \in {"blocked", "rejected"}, stage[i] \in {"new", "blocked"},
             MoveTo({i}, s), UNCHANGED <<queue, unfinished, closed>>
      PROVE  QueueInv'
  <2>1. stage' \in [Items -> Stages]
    BY <1>1, <1>2, MoveToStages DEF Stages
  <2>2. InStage("queued")' = InStage("queued") /\ InStage("taken")' = InStage("taken")
    BY <1>2 DEF InStage, MoveTo
  <2> QED
    BY <1>2, <2>1, <2>2, OutsidePreserves
<1>3. CASE PutRefused(i)
  BY <1>2, <1>3 DEF PutRefused
<1>4. CASE PutAtOnce(i)
  BY <1>4, EnqueuePreserves DEF PutAtOnce
<1>5. CASE PutWaits(i)
  BY <1>2, <1>5 DEF PutWaits
<1>6. CASE PutResumes(i)
  BY <1>6, EnqueuePreserves DEF PutResumes
<1>7. CASE PutGivesUp(i)
  BY <1>2, <1>7 DEF PutGivesUp
<1> QED
  BY <1>3, <1>4, <1>5, <1>6, <1>7 DEF Produce

(* get() hands out the oldest item. *)
LEMMA GetPreserves ==
    ASSUME QueueInv, Get
    PROVE  /\ QueueInv'
           /\ Head(queue) \in InStage("queued")
           /\ InStage("taken")' = InStage("taken") \cup {Head(queue)}
<1> DEFINE h == Head(queue)
<1>1. /\ queue \in Seq(Items) /\ queue # <<>> /\ queue' = Tail(queue)
      /\ QueueTypeOK /\ NoItemTwice /\ QueueHoldsAccepted /\ UnfinishedIsExact
  BY DEF QueueInv, QueueTypeOK, Get
<1>2. /\ h = queue[1] /\ h \in Items
      /\ queue' \in Seq(Items)
      /\ Len(queue') = Len(queue) - 1
      /\ \A k \in 1 .. Len(queue') : queue'[k] = queue[k + 1]
  BY <1>1, HeadTailProperties
<1>3. /\ Len(queue) \in Nat \ {0} /\ Len(queue') \in Nat
      /\ DOMAIN queue = 1 .. Len(queue) /\ DOMAIN queue' = 1 .. Len(queue')
  BY <1>1, <1>2, EmptySeq, LenProperties
<1>4. h \in InStage("queued")
  BY <1>1, <1>2, <1>3 DEF QueueHoldsAccepted
<1>5. /\ stage' \in [Items -> Stages]
      /\ InStage("queued")' = InStage("queued") \ {h}
      /\ InStage("taken")' = InStage("taken") \cup {h}
  <2>1. MoveTo({h}, "taken")
    BY DEF Get
  <2>2. stage' \in [Items -> Stages] /\ InStage("taken")' = InStage("taken") \cup {h}
    BY <1>1, <1>2, <2>1, MoveToStages DEF Stages
  <2>3. InStage("queued")' = InStage("queued") \ {h}
    BY <1>4, <2>1 DEF InStage, MoveTo
  <2> QED
    BY <2>2, <2>3
<1> HIDE DEF h
<1>6. NoItemTwice'
  BY <1>1, <1>2, <1>3 DEF NoItemTwice
<1>7. QueueHoldsAccepted'
  <2>1. {queue'[k] : k \in DOMAIN queue'} = {queue[k] : k \in DOMAIN queue} \ {h}
    <3>1. ASSUME NEW k \in DOMAIN queue'
          PROVE  queue'[k] \in {queue[m] : m \in DOMAIN queue} \ {h}
      BY <1>1, <1>2, <1>3 DEF NoItemTwice
    <3>2. ASSUME NEW m \in DOMAIN queue, queue[m] # h
          PROVE  \E k \in DOMAIN queue' : queue'[k] = queue[m]
      <4>1. m - 1 \in DOMAIN queue' /\ queue'[m - 1] = queue[m]
        BY <1>2, <1>3, <3>2
      <4> QED
        BY <4>1
    <3> QED
      BY <3>1, <3>2
  <2>2. {queue'[k] : k \in DOMAIN queue'} = InStage("queued")'
    BY <1>1, <1>5, <2>1 DEF QueueHoldsAccepted
  <2>3. Len(queue') = Cardinality(InStage("queued")')
    BY <1>1, <1>2, <1>4, <1>5, StagesFinite, FS_RemoveElement DEF QueueHoldsAccepted
  <2>4. Len(queue') <= MaxSize
    BY <1>1, <1>2, <1>3, MaxSizeAssumption DEF QueueHoldsAccepted
  <2> QED
    BY <2>2, <2>3, <2>4 DEF QueueHoldsAccepted
<1>8. UnfinishedIsExact'
  <2>1. (InStage("queued") \cup InStage("taken"))' = InStage("queued") \cup InStage("taken")
    BY <1>4, <1>5
  <2> QED
    BY <1>1, <2>1 DEF UnfinishedIsExact, Get
<1>9. QueueTypeOK'
  BY <1>1, <1>2, <1>5 DEF QueueTypeOK, Get
<1> QED
  BY <1>4, <1>5, <1>6, <1>7, <1>8, <1>9 DEF QueueInv, h

(* task_done() for a batch of items a consumer holds. *)
LEMMA TaskDonePreserves ==
    ASSUME QueueInv, NEW S \in SUBSET InStage("taken"), TaskDone(S)
    PROVE  QueueInv' /\ InStage("taken")' = InStage("taken") \ S
<1>1. /\ QueueTypeOK /\ NoItemTwice /\ QueueHoldsAccepted /\ UnfinishedIsExact
      /\ S \subseteq Items
  BY DEF QueueInv, InStage
<1>2. /\ stage' \in [Items -> Stages]
      /\ InStage("queued")' = InStage("queued")
      /\ InStage("taken")' = InStage("taken") \ S
  <2>1. MoveTo(S, "done")
    BY DEF TaskDone
  <2>2. stage' \in [Items -> Stages]
    BY <1>1, <2>1, MoveToStages DEF Stages
  <2>3. InStage("queued")' = InStage("queued") /\ InStage("taken")' = InStage("taken") \ S
    BY <2>1 DEF InStage, MoveTo
  <2> QED
    BY <2>2, <2>3
<1>3. unfinished' \in Nat /\ UnfinishedIsExact'
  <2> DEFINE held == InStage("queued") \cup InStage("taken")
  <2>1. (InStage("queued") \cup InStage("taken"))' = held \ S /\ held \cap S = S
    BY <1>2 DEF InStage
  <2>2. IsFiniteSet(held) /\ unfinished = Cardinality(held) /\ Cardinality(held) \in Nat
    BY <1>1, HeldFinite DEF UnfinishedIsExact
  <2>3. Cardinality(S) \in Nat /\ unfinished' = unfinished - Cardinality(S)
    BY <1>1, ItemsAssumption, FS_Subset, FS_CardinalityType DEF TaskDone
  <2> HIDE DEF held
  <2>4. /\ Cardinality(held \ S) = Cardinality(held) - Cardinality(S)
        /\ Cardinality(held \ S) \in Nat
    BY <2>1, <2>2, FS_Difference, FS_CardinalityType
  <2> QED
    BY <2>1, <2>2, <2>3, <2>4 DEF UnfinishedIsExact
<1>4. QueueTypeOK' /\ NoItemTwice' /\ QueueHoldsAccepted'
  BY <1>1, <1>2, <1>3 DEF QueueTypeOK, NoItemTwice, QueueHoldsAccepted, TaskDone
<1> QED
  BY <1>2, <1>3, <1>4 DEF QueueInv

(* What leaves the items alone keeps the invariant. *)
LEMMA FramePreserves ==
    ASSUME QueueInv, UNCHANGED <<queue, unfinished, stage>>, closed' \in BOOLEAN
    PROVE  QueueInv' /\ InStage("taken")' = InStage("taken")
<1>1. /\ InStage("queued")' = InStage("queued")
      /\ InStage("taken")' = InStage("taken")
  BY DEF InStage
<1>2. QueueTypeOK'
  BY DEF QueueInv, QueueTypeOK
<1>3. NoItemTwice'
  BY DEF QueueInv, NoItemTwice
<1>4. QueueHoldsAccepted'
  BY <1>1 DEF QueueInv, QueueHoldsAccepted
<1>5. UnfinishedIsExact'
  BY <1>1 DEF QueueInv, UnfinishedIsExact
<1> QED
  BY <1>1, <1>2, <1>3, <1>4, <1>5 DEF QueueInv

(* close() and drop_pending(): the latter empties the queue and takes the  *)
(* dropped items off the count that join() waits on.                       *)
LEMMA AdministerPreserves ==
    ASSUME QueueInv, Administer
    PROVE  QueueInv' /\ InStage("taken")' = InStage("taken")
<1>1. QueueTypeOK /\ NoItemTwice /\ QueueHoldsAccepted /\ UnfinishedIsExact
  BY DEF QueueInv
<1>2. CASE Close
  BY <1>2, FramePreserves DEF Close
<1>3. CASE DropPending
  <2>1. /\ stage' \in [Items -> Stages]
        /\ InStage("queued")' = {}
        /\ InStage("taken")' = InStage("taken")
    <3>1. MoveTo(InStage("queued"), "dropped")
      BY <1>3 DEF DropPending
    <3>2. stage' \in [Items -> Stages]
      BY <1>1, <3>1, StagesFinite, MoveToStages DEF Stages
    <3>3. InStage("queued")' = {} /\ InStage("taken")' = InStage("taken")
      BY <3>1 DEF InStage, MoveTo
    <3> QED
      BY <3>2, <3>3
  <2>2. queue' = <<>> /\ queue' \in Seq(Items) /\ Len(queue') = 0 /\ closed' = TRUE
    BY <1>3, EmptySeq DEF DropPending
  <2>3. NoItemTwice'
    BY <2>2 DEF NoItemTwice
  <2>4. QueueHoldsAccepted'
    BY <2>1, <2>2, FS_EmptySet, MaxSizeAssumption DEF QueueHoldsAccepted
  <2>5. unfinished' \in Nat /\ UnfinishedIsExact'
    <3>1. InStage("queued") \cap InStage("taken") = {}
      BY DEF InStage
    <3>2. Cardinality(InStage("queued") \cup InStage("taken"))
             = Cardinality(InStage("queued")) + Cardinality(InStage("taken"))
      <4> DEFINE Q == InStage("queued")
                 T == InStage("taken")
      <4>1. /\ IsFiniteSet(Q) /\ IsFiniteSet(T)
            /\ Cardinality(Q) \in Nat /\ Cardinality(T) \in Nat
            /\ Cardinality(Q \cap T) = 0
        BY <3>1, StagesFinite, FS_EmptySet
      <4> HIDE DEF Q, T
      <4>2. Cardinality(Q \cup T) = Cardinality(Q) + Cardinality(T) - Cardinality(Q \cap T)
        BY <4>1, FS_Union, Zenon
      <4>3. Cardinality(Q \cup T) = Cardinality(Q) + Cardinality(T)
        BY <4>1, <4>2
      <4> QED
        BY <4>3 DEF Q, T
    <3>3. unfinished' = Cardinality(InStage("taken"))
      BY <1>1, <1>3, <3>2, StagesFinite DEF DropPending, QueueHoldsAccepted, UnfinishedIsExact
    <3> QED
      BY <2>1, <3>3, StagesFinite DEF UnfinishedIsExact
  <2> QED
    BY <2>1, <2>2, <2>3, <2>4, <2>5 DEF QueueInv, QueueTypeOK
<1> QED
  BY <1>2, <1>3 DEF Administer

-----------------------------------------------------------------------------
(* The queue of a process that has just started satisfies the invariant.   *)
LEMMA InitEstablishes == QueueInit => QueueInv
<1> SUFFICES ASSUME QueueInit PROVE QueueInv
  OBVIOUS
<1>1. InStage("queued") = {} /\ InStage("taken") = {}
  BY DEF QueueInit, InStage
<1>2. queue = <<>> /\ queue \in Seq(Items) /\ Len(queue) = 0
  BY EmptySeq DEF QueueInit
<1>3. QueueTypeOK
  BY <1>2 DEF QueueInit, QueueTypeOK, Stages
<1>4. NoItemTwice
  BY <1>2 DEF NoItemTwice
<1>5. QueueHoldsAccepted
  BY <1>1, <1>2, FS_EmptySet, MaxSizeAssumption DEF QueueHoldsAccepted
<1>6. UnfinishedIsExact
  BY <1>1, FS_EmptySet DEF QueueInit, UnfinishedIsExact
<1> QED
  BY <1>3, <1>4, <1>5, <1>6 DEF QueueInv

(* Every step of the queue preserves the invariant. *)
LEMMA StepPreserves == QueueInv /\ [QueueNext]_queueVars => QueueInv'
<1> SUFFICES ASSUME QueueInv, [QueueNext]_queueVars PROVE QueueInv'
  OBVIOUS
<1>1. ASSUME NEW i \in Items, Produce(i) PROVE QueueInv'
  BY <1>1, ProducePreserves
<1>2. CASE Get
  BY <1>2, GetPreserves
<1>3. ASSUME NEW S \in SUBSET InStage("taken"), TaskDone(S) PROVE QueueInv'
  BY <1>3, TaskDonePreserves
<1>4. CASE Administer
  BY <1>4, AdministerPreserves
<1>5. CASE UNCHANGED queueVars
  BY <1>5, FramePreserves DEF queueVars, QueueInv, QueueTypeOK
<1> QED
  BY <1>1, <1>2, <1>3, <1>4, <1>5 DEF QueueNext, Consume

(* For every set of items and every max_size, the queue holds exactly the  *)
(* accepted items, once each and within its bound, and join() waits on an  *)
(* exact count: put(), get(), task_done(), close(), drop_pending().        *)
THEOREM QueueIsExact ==
    QueueSpec => [](QueueTypeOK /\ QueueHoldsAccepted /\ UnfinishedIsExact)
<1>1. QueueInv => QueueTypeOK /\ QueueHoldsAccepted /\ UnfinishedIsExact
  BY DEF QueueInv
<1> QED
  BY <1>1, InitEstablishes, StepPreserves, PTL DEF QueueSpec

(* A put() that has raised has no effect later: its item never enters the  *)
(* queue.                                                                  *)
THEOREM RejectedNeverQueued == QueueSpec => RejectedStaysOut
<1> DEFINE Out(i) == stage[i] = "rejected" =>
                        stage'[i] = "rejected" /\ \A k \in DOMAIN queue' : queue'[k] # i
<1>1. ASSUME QueueInv, QueueInv', [QueueNext]_queueVars, NEW i \in Items,
             stage[i] = "rejected"
      PROVE  stage'[i] = "rejected" /\ \A k \in DOMAIN queue' : queue'[k] # i
  <2>1. stage'[i] = "rejected"
    <3>1. i \notin InStage("queued") /\ i \notin InStage("taken")
      BY <1>1 DEF InStage
    <3>2. ASSUME NEW S, NEW s, i \notin S, MoveTo(S, s) PROVE stage'[i] = "rejected"
      BY <1>1, <3>2 DEF MoveTo
    <3>3. ASSUME NEW j \in Items, Produce(j) PROVE stage'[i] = "rejected"
      BY <1>1, <3>2, <3>3 DEF Produce, PutRefused, PutAtOnce, PutWaits, PutResumes,
                              PutGivesUp, Enqueue
    <3>4. ASSUME Get PROVE stage'[i] = "rejected"
      BY <1>1, <3>1, <3>2, <3>4, GetPreserves DEF Get
    <3>5. ASSUME NEW S \in SUBSET InStage("taken"), TaskDone(S)
          PROVE  stage'[i] = "rejected"
      BY <3>1, <3>2, <3>5 DEF TaskDone
    <3>6. ASSUME Administer PROVE stage'[i] = "rejected"
      BY <1>1, <3>1, <3>2, <3>6 DEF Administer, Close, DropPending
    <3>7. ASSUME UNCHANGED queueVars PROVE stage'[i] = "rejected"
      BY <1>1, <3>7 DEF queueVars
    <3> QED
      BY <1>1, <3>3, <3>4, <3>5, <3>6, <3>7 DEF QueueNext, Consume
  <2>2. \A k \in DOMAIN queue' : queue'[k] \in InStage("queued")'
    BY <1>1 DEF QueueInv, QueueHoldsAccepted
  <2> QED
    BY <2>1, <2>2 DEF InStage
<1>2. QueueInv /\ QueueInv' /\ [QueueNext]_queueVars
        => [\A i \in Items : Out(i)]_queueVars
  BY <1>1
<1> QED
  BY <1>2, InitEstablishes, StepPreserves, PTL DEF QueueSpec, RejectedStaysOut, Out
=============================================================================
