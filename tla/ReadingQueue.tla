---------------------------- MODULE ReadingQueue ----------------------------
(***************************************************************************)
(* The bounded queue between the pollers and the database writer           *)
(* (runtime/reading_queue.py).  An item is one poll result; the producer   *)
(* that puts it is identified with it, so stage[i] is both where the item  *)
(* is and what its producer has been told:                                 *)
(*                                                                         *)
(*   new       put() not called yet                                        *)
(*   blocked   put() awaits room in the queue                              *)
(*   queued    in the queue; put() has returned                            *)
(*   taken     handed to a consumer that has not acknowledged it           *)
(*   done      acknowledged with task_done()                               *)
(*   rejected  put() raised: queue closed, timeout or cancellation         *)
(*   dropped   discarded by drop_pending()                                 *)
(*   gone      held in memory by a process that crashed                    *)
(*                                                                         *)
(* The asyncio loop runs one coroutine at a time, so what the code does    *)
(* between two awaits is one action.                                       *)
(***************************************************************************)
EXTENDS PollResults, Integers, Sequences

CONSTANT MaxSize     \* ReadingQueue(max_size)

ASSUME MaxSizeAssumption == MaxSize \in Nat \ {0}

VARIABLES
    queue,       \* the asyncio.Queue, oldest item first
    unfinished,  \* its count of items put and not yet task_done
    closed,      \* ReadingQueue._closed
    stage        \* the stage of every item

queueVars == <<queue, unfinished, closed, stage>>

Stages == {"new", "blocked", "queued", "taken", "done", "rejected",
           "dropped", "gone"}

InStage(s) == {i \in Items : stage[i] = s}

MoveTo(S, s) == stage' = [i \in Items |-> IF i \in S THEN s ELSE stage[i]]

QueueInit ==
    /\ queue = <<>>
    /\ unfinished = 0
    /\ closed = FALSE
    /\ stage = [i \in Items |-> "new"]

-----------------------------------------------------------------------------
(* put().  The closed flag is read once, before the await; a producer that *)
(* waited for room looks only at the room when it is resumed.              *)

HasRoom == Len(queue) < MaxSize

Enqueue(i) ==
    /\ queue' = Append(queue, i)
    /\ unfinished' = unfinished + 1
    /\ MoveTo({i}, "queued")
    /\ UNCHANGED closed

PutRefused(i) ==
    /\ stage[i] = "new"
    /\ closed
    /\ MoveTo({i}, "rejected")
    /\ UNCHANGED <<queue, unfinished, closed>>

PutAtOnce(i) ==
    /\ stage[i] = "new"
    /\ ~closed
    /\ HasRoom
    /\ Enqueue(i)

PutWaits(i) ==
    /\ stage[i] = "new"
    /\ ~closed
    /\ ~HasRoom
    /\ MoveTo({i}, "blocked")
    /\ UNCHANGED <<queue, unfinished, closed>>

\* asyncio wakes the waiting producers in order, but a new put() may fill the
\* place before the woken one runs: any of them may be the next to find room.
PutResumes_Unchecked(i) ==    \* mutant: the room is not looked at again
    stage[i] = "blocked" /\ Enqueue(i)

PutResumes_AfterTimeout(i) == \* mutant: the timeout leaves the putter waiting
    stage[i] \in {"blocked", "rejected"} /\ HasRoom /\ Enqueue(i)

PutResumes(i) ==
    /\ stage[i] = "blocked"
    /\ HasRoom
    /\ Enqueue(i)

\* put_timeout_s expires, or the producing task is cancelled.
PutGivesUp_WhileOpen(i) ==    \* mutant: a closed queue forgets its waiters
    /\ stage[i] = "blocked" /\ ~closed
    /\ MoveTo({i}, "rejected")
    /\ UNCHANGED <<queue, unfinished, closed>>

PutGivesUp(i) ==
    /\ stage[i] = "blocked"
    /\ MoveTo({i}, "rejected")
    /\ UNCHANGED <<queue, unfinished, closed>>

-----------------------------------------------------------------------------
(* The consumer's side and the shutdown calls.                             *)

Get ==
    /\ queue # <<>>
    /\ queue' = Tail(queue)
    /\ MoveTo({Head(queue)}, "taken")
    /\ UNCHANGED <<unfinished, closed>>

\* one task_done() per item of a batch S the consumer holds
TaskDone(S) ==
    /\ MoveTo(S, "done")
    /\ unfinished' = unfinished - Cardinality(S)
    /\ UNCHANGED <<queue, closed>>

Close ==
    /\ closed' = TRUE
    /\ UNCHANGED <<queue, unfinished, stage>>

DropPending_KeepsCount ==     \* mutant: drops without task_done()
    /\ closed' = TRUE
    /\ queue' = <<>>
    /\ MoveTo(InStage("queued"), "dropped")
    /\ UNCHANGED unfinished

DropPending ==
    /\ closed' = TRUE
    /\ queue' = <<>>
    /\ MoveTo(InStage("queued"), "dropped")
    /\ unfinished' = unfinished - Len(queue)

-----------------------------------------------------------------------------
(* The queue alone, with a consumer that acknowledges any batch it holds.  *)

Produce(i) ==
    \/ PutRefused(i)
    \/ PutAtOnce(i)
    \/ PutWaits(i)
    \/ PutResumes(i)
    \/ PutGivesUp(i)

Consume == Get \/ \E S \in SUBSET InStage("taken") : S # {} /\ TaskDone(S)

Administer == Close \/ DropPending

QueueNext == (\E i \in Items : Produce(i)) \/ Consume \/ Administer

QueueSpec == QueueInit /\ [][QueueNext]_queueVars

-----------------------------------------------------------------------------
(* Type invariant of the queue: every variable has its type.               *)
QueueTypeOK ==
    /\ queue \in Seq(Items)
    /\ unfinished \in Nat
    /\ closed \in BOOLEAN
    /\ stage \in [Items -> Stages]

(* put() / get() / drop_pending(): the items the producers were told are   *)
(* accepted and no consumer has are exactly those in the queue, once each, *)
(* and the queue is bounded by max_size although a producer that waited    *)
(* enqueues long after its check of the room.                              *)
QueueHoldsAccepted ==
    /\ {queue[k] : k \in DOMAIN queue} = InStage("queued")
    /\ Len(queue) = Cardinality(InStage("queued"))
    /\ Len(queue) <= MaxSize

(* join(): the counter it waits on is the number of items accepted and     *)
(* neither acknowledged nor dropped, so that join() neither returns early  *)
(* nor hangs on items that were dropped.                                   *)
UnfinishedIsExact ==
    unfinished = Cardinality(InStage("queued") \cup InStage("taken"))

(* put(): when it has raised, the poller has reported the item as not      *)
(* stored; no later step may bring the item back into the queue.           *)
RejectedStaysOut ==
    [][\A i \in Items : stage[i] = "rejected" =>
          stage'[i] = "rejected" /\ \A k \in DOMAIN queue' : queue'[k] # i]_queueVars

(* put(): no poller is held longer than put_timeout_s, whatever consumers  *)
(* and close() do.                                                         *)
BlockedProducersReturn ==
    \A i \in Items : stage[i] = "blocked" ~> stage[i] # "blocked"

(* close() "Close the queue to producers without dropping pending items"   *)
(* (reading_queue.py:88): the accepted items do not grow once it is        *)
(* closed.                                                                 *)
ClosedAdmitsNothing ==
    [][closed => InStage("queued")' \subseteq InStage("queued")]_queueVars
=============================================================================
