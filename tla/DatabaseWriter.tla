--------------------------- MODULE DatabaseWriter ---------------------------
(***************************************************************************)
(* The coroutine that moves poll results from the queue to the database in *)
(* batches, spools a batch the database refuses, and replays the spool     *)
(* (persistence/writer.py), with the queue and the stores it works on.     *)
(*                                                                         *)
(* pc names the await at which the coroutine is suspended:                 *)
(*                                                                         *)
(*   idle        run() is not executing                                    *)
(*   fetch       fetch_due of _replay_spool_once                           *)
(*   replaySave  saving the fetched entries; markReplayed, markFailed:     *)
(*               telling the spool the outcome                             *)
(*   wait        _wait_for_item_or_stop                                    *)
(*   flushSave   saving the pending batch; flushSpool: spooling it         *)
(*                                                                         *)
(* The store calls run on executor threads under wait_for.  When wait_for  *)
(* times out, or the coroutine is cancelled, the thread is not stopped:    *)
(* the job is left behind on it and ends later, or never had a thread.     *)
(***************************************************************************)
EXTENDS ReadingQueue, DurableSpool

CONSTANTS
    BatchSize,     \* batch_size
    ReplayBatch,   \* spool_replay_batch_size
    MaxAttempts,   \* RetryPolicy.max_attempts
    HasSpool,      \* whether a spool is configured
    Unstorable,    \* items every save of which fails
    Threads,       \* the threads of the executor
    MaxCancels,    \* bound: cancellations of the run() task per process
    MaxCrashes     \* bound: crashes of the process

ASSUME WriterAssumption ==
    /\ BatchSize \in Nat \ {0}
    /\ ReplayBatch \in Nat \ {0}
    /\ MaxAttempts \in Nat \ {0}
    /\ HasSpool \in BOOLEAN
    /\ Unstorable \subseteq Items
    /\ MaxCancels \in Nat
    /\ MaxCrashes \in Nat

VARIABLES
    pc,          \* the await run() is suspended at
    phase,       \* the part of run(): "loop", "except" or "finally"
    running,     \* _running, the negation of _stopped
    stop,        \* _stop_requested
    pending,     \* _pending_batch
    got,         \* the item the get_task of the current wait has taken
    getters,     \* get_tasks a cancelled wait left behind
    replay,      \* the entries being replayed
    attempt,     \* attempt of the retry loop around the current save
    left,        \* the job left behind on each thread, or NoJob
    successful,  \* _successful_poll_results
    failed,      \* _failed_poll_results
    spooled,     \* _spooled_poll_results
    inserted,    \* _inserted_readings, one reading per poll result
    cancels,     \* cancellations so far
    crashes      \* crashes so far

counters == <<successful, failed, spooled, inserted>>
controlVars == <<pc, phase, running, stop, pending, got, getters, replay, attempt>>
boundVars == <<cancels, crashes>>
writerVars == <<storeVars, controlVars, left, counters, boundVars>>
vars == <<queueVars, storeVars, controlVars, left, counters, boundVars>>

NoJob == [op |-> "none", ids |-> {}]
Job(op, ids) == [op |-> op, ids |-> ids]
Jobs == [op : {"none", "fetch", "save", "append", "replayed", "failed"},
         ids : SUBSET Items]

FreeThreads == {t \in Threads : left[t] = NoJob}

Init ==
    /\ QueueInit
    /\ SpoolInit
    /\ pc = "idle"
    /\ phase = "loop"
    /\ running = FALSE
    /\ stop = FALSE
    /\ pending = {}
    /\ got = {}
    /\ getters = 0
    /\ replay = {}
    /\ attempt = 1
    /\ left = [t \in Threads |-> NoJob]
    /\ successful = 0 /\ failed = 0 /\ spooled = 0 /\ inserted = 0
    /\ cancels = 0
    /\ crashes = 0

-----------------------------------------------------------------------------
(* The code between two awaits.                                            *)

Return_Unsignalled ==         \* mutant: _stopped is not set
    pc' = "idle" /\ UNCHANGED running

(* run() ends: the finally clause has nothing (left) to flush.             *)
Return ==
    /\ pc' = "idle"
    /\ running' = FALSE

LoopHead_StopsAtOnce(p) ==    \* mutant: stop() is obeyed with items in the queue
    IF stop /\ p = {} THEN Return
    ELSE /\ running' = TRUE
         /\ pc' = IF p = {} /\ HasSpool THEN "fetch"
                  ELSE IF Cardinality(p) >= BatchSize \/ stop THEN "flushSave"
                  ELSE "wait"

(* The head of the loop of run() with the batch p, down to its next await. *)
LoopHead(p) ==
    IF stop /\ queue = <<>> /\ p = {} THEN Return
    ELSE /\ running' = TRUE
         /\ pc' = IF p = {} /\ HasSpool THEN "fetch"
                  ELSE IF Cardinality(p) >= BatchSize \/ (stop /\ queue = <<>>)
                  THEN "flushSave"
                  ELSE "wait"

(* _consume_or_flush after a replay that found nothing: pending is empty.  *)
AfterReplayFoundNothing ==
    IF stop /\ queue = <<>> THEN Return
    ELSE pc' = "wait" /\ UNCHANGED running

SettleBatch_Keeps ==          \* mutant: the batch is not cleared
    /\ TaskDone(pending)
    /\ UNCHANGED pending
    /\ attempt' = 1
    /\ IF phase = "loop" THEN LoopHead(pending) ELSE Return

(* _flush_pending has settled the batch: it is acknowledged, and run()     *)
(* goes on with its loop, or returns when it was flushing on the way out.  *)
SettleBatch ==
    /\ TaskDone(pending)
    /\ pending' = {}
    /\ attempt' = 1
    /\ IF phase = "loop" THEN LoopHead({}) ELSE Return

(* A job whose caller stops waiting stays on its thread, unless it had     *)
(* none or fails at that very moment.                                      *)
LeaveBehind(job) ==
    \/ UNCHANGED left
    \/ \E t \in FreeThreads : left' = [left EXCEPT ![t] = job]

-----------------------------------------------------------------------------
(* run() starts, in a process that is up.                                  *)
Run ==
    /\ pc = "idle"
    /\ ~running
    /\ LoopHead(pending)
    /\ phase' = "loop"
    /\ UNCHANGED <<queueVars, storeVars, stop, pending, got, getters, replay,
                   attempt, left, counters, boundVars>>

Stop ==
    /\ ~stop
    /\ stop' = TRUE
    /\ UNCHANGED <<queueVars, storeVars, pc, phase, running, pending, got,
                   getters, replay, attempt, left, counters, boundVars>>

-----------------------------------------------------------------------------
(* _replay_spool_once: fetch, save, tell the spool.                        *)

FetchEntries ==
    /\ pc = "fetch"
    /\ FreeThreads # {}
    /\ \E S \in SUBSET due :
          /\ S # {}
          /\ IsDueBatch(S, ReplayBatch)
          /\ replay' = S
    /\ pc' = "replaySave"
    /\ UNCHANGED <<queueVars, storeVars, phase, running, stop, pending, got,
                   getters, attempt, left, counters, boundVars>>

\* Nothing is due, the read fails, or it does not answer in time.
FetchNothing ==
    /\ pc = "fetch"
    /\ LeaveBehind(Job("fetch", {}))
    /\ AfterReplayFoundNothing
    /\ UNCHANGED <<queueVars, storeVars, phase, stop, pending, got, getters,
                   replay, attempt, counters, boundVars>>

\* _replay_spool_once returns True: run() goes through its loop again.
EndReplay ==
    /\ replay' = {}
    /\ attempt' = 1
    /\ LoopHead({})
    /\ UNCHANGED <<queueVars, rows, phase, stop, pending, got, getters,
                   successful, failed, spooled, inserted, boundVars>>

MarksReplayed ==
    /\ pc = "markReplayed"
    /\ FreeThreads # {}
    /\ MarkReplayed(replay)
    /\ EndReplay
    /\ UNCHANGED left

MarksFailed ==
    /\ pc = "markFailed"
    /\ FreeThreads # {}
    /\ MarkFailed(replay)
    /\ EndReplay
    /\ UNCHANGED left

\* The spool raises, or does not answer in time: logged in last_error only.
MarkIsLost ==
    /\ pc \in {"markReplayed", "markFailed"}
    /\ LeaveBehind(Job(IF pc = "markReplayed" THEN "replayed" ELSE "failed", replay))
    /\ EndReplay
    /\ UNCHANGED spoolVars

-----------------------------------------------------------------------------
(* _persist_batch: save_poll_results under the retry policy, for the batch *)
(* being replayed or the pending one.                                      *)

Saving == pc \in {"replaySave", "flushSave"}
Batch == IF pc = "replaySave" THEN replay ELSE pending

SaveSucceeds ==
    /\ Saving
    /\ FreeThreads # {}
    /\ Batch \cap Unstorable = {}
    /\ SaveRows(Batch)
    /\ inserted' = inserted + Cardinality(NewReadings(Batch))
    /\ \/ /\ pc = "replaySave"
          /\ pc' = "markReplayed"
          /\ UNCHANGED <<queueVars, running, pending, attempt, successful>>
       \/ /\ pc = "flushSave"
          /\ successful' = successful + Cardinality(pending)
          /\ SettleBatch
    /\ UNCHANGED <<spoolVars, phase, stop, got, getters, replay, left, failed,
                   spooled, boundVars>>

SettleAsFailed_AsSpooled(n) == \* mutant: a refused batch counts as spooled
    /\ failed' = failed + Cardinality(pending)
    /\ spooled' = spooled + Cardinality(pending)
    /\ SettleBatch
    /\ UNCHANGED <<rows, phase, stop, got, getters, replay, successful, inserted,
                   boundVars>>

\* The batch is acknowledged and counted as failed; n of its items are new
\* in the spool.
SettleAsFailed(n) ==
    /\ failed' = failed + Cardinality(pending)
    /\ spooled' = spooled + n
    /\ SettleBatch
    /\ UNCHANGED <<rows, phase, stop, got, getters, replay, successful, inserted,
                   boundVars>>

\* An attempt fails by an error of the database, or by the timeout.  Only the
\* errors classified as transient are retried; the timeout is one of them.
SaveAttemptFails(transient) ==
    IF transient THEN LeaveBehind(Job("save", Batch)) ELSE UNCHANGED left

RetrySave ==
    /\ Saving
    /\ attempt < MaxAttempts
    /\ SaveAttemptFails(TRUE)
    /\ attempt' = attempt + 1
    /\ UNCHANGED <<queueVars, storeVars, pc, phase, running, stop, pending, got,
                   getters, replay, counters, boundVars>>

AfterFailedSave_Drops ==      \* mutant: a failed replay is deleted all the same
    IF pc = "replaySave" THEN "markReplayed" ELSE "flushSpool"

AfterFailedSave == IF pc = "replaySave" THEN "markFailed" ELSE "flushSpool"

SaveGivenUp ==
    /\ Saving
    /\ \/ SaveAttemptFails(FALSE)
       \/ attempt = MaxAttempts /\ SaveAttemptFails(TRUE)
    /\ UNCHANGED storeVars
    /\ \/ /\ pc = "flushSave" /\ ~HasSpool
          /\ SettleAsFailed(0)
       \/ /\ pc = "replaySave" \/ HasSpool
          /\ pc' = AfterFailedSave
          /\ attempt' = 1
          /\ UNCHANGED <<queueVars, phase, running, stop, pending, got, getters,
                         replay, counters, boundVars>>

(* _spool_batch: what the database refused goes to the spool.              *)

SpoolAccepts ==
    /\ pc = "flushSpool"
    /\ FreeThreads # {}
    /\ AppendToSpool(pending)
    /\ SettleAsFailed(Cardinality(NewToSpool(pending)))
    /\ UNCHANGED left

\* The spool is full, raises, or does not answer in time: the batch is lost
\* as far as the writer knows.
SpoolRefuses ==
    /\ pc = "flushSpool"
    /\ LeaveBehind(Job("append", pending))
    /\ SettleAsFailed(0)
    /\ UNCHANGED spoolVars

-----------------------------------------------------------------------------
(* _wait_for_item_or_stop: a get() and a wait for stop, whichever is first,*)
(* at most flush_interval_s.                                               *)

GetTaskTakes ==
    /\ pc = "wait"
    /\ got = {}
    /\ Get
    /\ got' = {Head(queue)}
    /\ UNCHANGED <<storeVars, pc, phase, running, stop, pending, getters, replay,
                   attempt, left, counters, boundVars>>

WaitEndsWithItem ==
    /\ pc = "wait"
    /\ got # {}
    /\ pending' = pending \cup got
    /\ got' = {}
    /\ IF Cardinality(pending') >= BatchSize
       THEN pc' = "flushSave" /\ UNCHANGED running
       ELSE LoopHead(pending')
    /\ UNCHANGED <<queueVars, storeVars, phase, stop, getters, replay, attempt,
                   left, counters, boundVars>>

WaitEndsEmpty_Forgets ==      \* mutant: the result of the get_task is not read
    /\ pc = "wait"
    /\ got' = {}
    /\ IF pending = {} THEN LoopHead({}) ELSE pc' = "flushSave" /\ UNCHANGED running
    /\ UNCHANGED <<queueVars, storeVars, phase, stop, pending, getters, replay,
                   attempt, left, counters, boundVars>>

\* The interval is over or stop is set.  The get_task is cancelled, which
\* leaves an item put meanwhile in the queue.
WaitEndsEmpty ==
    /\ pc = "wait"
    /\ got = {}
    /\ IF pending = {} THEN LoopHead({}) ELSE pc' = "flushSave" /\ UNCHANGED running
    /\ UNCHANGED <<queueVars, storeVars, phase, stop, pending, got, getters,
                   replay, attempt, left, counters, boundVars>>

-----------------------------------------------------------------------------
(* Jobs left behind on executor threads, and get_tasks on the loop.        *)

JobCompletes(t) ==
    LET job == left[t] IN
    /\ \/ /\ job.op = "fetch"
          /\ UNCHANGED storeVars
       \/ /\ job.op = "save"
          /\ job.ids \cap Unstorable = {}
          /\ SaveRows(job.ids)
          /\ UNCHANGED spoolVars
       \/ /\ job.op = "append"
          /\ AppendToSpool(job.ids)
          /\ UNCHANGED rows
       \/ /\ job.op = "replayed"
          /\ MarkReplayed(job.ids)
          /\ UNCHANGED rows
       \/ /\ job.op = "failed"
          /\ MarkFailed(job.ids)
          /\ UNCHANGED rows
    /\ left' = [left EXCEPT ![t] = NoJob]
    /\ UNCHANGED <<queueVars, controlVars, counters, boundVars>>

JobFails(t) ==
    /\ left[t] # NoJob
    /\ left' = [left EXCEPT ![t] = NoJob]
    /\ UNCHANGED <<queueVars, storeVars, controlVars, counters, boundVars>>

\* A get_task nobody waits for any more takes an item, and nobody has it.
OrphanTakes ==
    /\ getters > 0
    /\ Get
    /\ getters' = getters - 1
    /\ UNCHANGED <<storeVars, pc, phase, running, stop, pending, got, replay,
                   attempt, left, counters, boundVars>>

-----------------------------------------------------------------------------
(* The task that executes run() is cancelled, at any of its awaits.  The   *)
(* except clause flushes the pending batch, the finally clause flushes it  *)
(* if that was cancelled too, and a third cancellation ends the task with  *)
(* _running still set.                                                     *)

CancelledWait ==
    /\ got' = {}
    /\ \/ got = {} /\ getters' = getters + 1
       \/ UNCHANGED getters
    /\ UNCHANGED left

CancelledCall ==
    /\ \/ pc = "fetch" /\ LeaveBehind(Job("fetch", {}))
       \/ Saving /\ LeaveBehind(Job("save", Batch))
       \/ pc = "markReplayed" /\ LeaveBehind(Job("replayed", replay))
       \/ pc = "markFailed" /\ LeaveBehind(Job("failed", replay))
       \/ pc = "flushSpool" /\ LeaveBehind(Job("append", pending))
    /\ UNCHANGED <<got, getters>>

UnwindFrom_NoFinally ==       \* mutant: only the except clause flushes
    \/ /\ phase = "loop" /\ pending # {}
       /\ phase' = "except"
       /\ pc' = "flushSave"
       /\ UNCHANGED running
    \/ /\ phase = "except" \/ pending = {}
       /\ Return
       /\ UNCHANGED phase

UnwindFrom ==
    \/ /\ phase = "loop" /\ pending = {}
       /\ Return
       /\ UNCHANGED phase
    \/ /\ phase = "loop" /\ pending # {}
       /\ phase' = "except"
       /\ pc' = "flushSave"
       /\ UNCHANGED running
    \/ /\ phase = "except"
       /\ phase' = "finally"
       /\ pc' = "flushSave"
       /\ UNCHANGED running
    \/ /\ phase = "finally"
       /\ pc' = "idle"
       /\ UNCHANGED <<phase, running>>

Cancel ==
    /\ pc # "idle"
    /\ cancels < MaxCancels
    /\ IF pc = "wait" THEN CancelledWait ELSE CancelledCall
    /\ UnwindFrom
    /\ replay' = {}
    /\ attempt' = 1
    /\ cancels' = cancels + 1
    /\ UNCHANGED <<queueVars, storeVars, stop, pending, counters, crashes>>

(* The process dies and another starts: the files and the database stay.   *)
Crash ==
    /\ crashes < MaxCrashes
    /\ crashes' = crashes + 1
    /\ queue' = <<>>
    /\ unfinished' = 0
    /\ closed' = FALSE
    /\ stage' = [i \in Items |-> IF stage[i] = "new" THEN "new" ELSE "gone"]
    /\ pc' = "idle" /\ phase' = "loop" /\ running' = FALSE /\ stop' = FALSE
    /\ pending' = {} /\ got' = {} /\ getters' = 0
    /\ replay' = {} /\ attempt' = 1
    /\ left' = [t \in Threads |-> NoJob]
    /\ successful' = 0 /\ failed' = 0 /\ spooled' = 0 /\ inserted' = 0
    /\ UNCHANGED <<storeVars, cancels>>

-----------------------------------------------------------------------------
WriterStep ==
    \/ FetchEntries \/ FetchNothing
    \/ MarksReplayed \/ MarksFailed \/ MarkIsLost
    \/ SaveSucceeds \/ RetrySave \/ SaveGivenUp
    \/ SpoolAccepts \/ SpoolRefuses
    \/ GetTaskTakes \/ WaitEndsWithItem \/ WaitEndsEmpty

LeftoverStep ==
    \/ \E t \in Threads : JobCompletes(t) \/ JobFails(t)
    \/ OrphanTakes

QueueStep ==
    /\ (\E i \in Items : Produce(i)) \/ Administer
    /\ UNCHANGED writerVars

ClockStep ==
    /\ \E S \in SUBSET Items : DelayElapses(S)
    /\ UNCHANGED <<queueVars, controlVars, left, counters, boundVars>>

Next ==
    \/ Run \/ Stop \/ WriterStep \/ LeftoverStep \/ QueueStep \/ ClockStep
    \/ Cancel \/ Crash

Spec == Init /\ [][Next]_vars

-----------------------------------------------------------------------------
(* Fairness.  The loop runs on: some outcome of the await happens, since   *)
(* every one has a timeout.  A get() on a queue that is not empty answers  *)
(* in the next turn of the loop, before the flush interval.  A thread that *)
(* was left behind ends its job.  What answers the calls is fair only in   *)
(* the sense that a call made again and again succeeds once.               *)

LoopFairness ==
    /\ WF_vars(WriterStep)
    /\ SF_vars(GetTaskTakes)
    /\ \A t \in Threads : WF_vars(JobCompletes(t) \/ JobFails(t))
    /\ WF_vars(ClockStep)

SpoolAnswers ==
    /\ SF_vars(FetchEntries)
    /\ SF_vars(MarksReplayed)
    /\ SF_vars(SpoolAccepts)

DatabaseAnswers == SF_vars(SaveSucceeds)

FairSpec == Spec /\ LoopFairness /\ SpoolAnswers /\ DatabaseAnswers

(* A blocked put() ends by the timeout of wait_for at the latest.          *)
ProducerFairness ==
    \A i \in Items :
        WF_vars((PutResumes(i) \/ PutGivesUp(i)) /\ UNCHANGED writerVars)

IntakeSpec == Spec /\ ProducerFairness

(* The database is down for good; the spool works. *)
OutageSpec == Spec /\ LoopFairness /\ SpoolAnswers

-----------------------------------------------------------------------------
(* Type invariant of the writer and what it works on.                      *)
ControlTypeOK ==
    /\ pc \in {"idle", "fetch", "replaySave", "markReplayed", "markFailed",
               "wait", "flushSave", "flushSpool"}
    /\ phase \in {"loop", "except", "finally"}
    /\ running \in BOOLEAN /\ stop \in BOOLEAN
    /\ pending \subseteq Items /\ got \subseteq Items /\ replay \subseteq Items
    /\ getters \in Nat /\ attempt \in 1 .. MaxAttempts

CounterTypeOK ==
    /\ successful \in Nat /\ failed \in Nat /\ spooled \in Nat /\ inserted \in Nat
    /\ cancels \in Nat /\ crashes \in Nat

TypeOK ==
    /\ QueueTypeOK
    /\ SpoolTypeOK
    /\ ControlTypeOK
    /\ left \in [Threads -> Jobs]
    /\ CounterTypeOK

(* _replay_spool_once, mark_replayed "Delete entries after confirmed       *)
(* database write" (spool.py:150): a poll result that reached the spool or *)
(* the database is never lost again, by any order of late jobs, lost       *)
(* answers, cancellations and crashes.                                     *)
DurableIsNeverLost == [][Durable \subseteq Durable']_vars

(* _flush_pending, _spool_batch: a batch is acknowledged once it is stored *)
(* or counted as lost, so the acknowledged items that are nowhere are at   *)
(* most those the metrics report as failed and not spooled.                *)
LossIsReported ==
    Cardinality(InStage("done") \ Durable) <= failed - spooled

(* _ack_batch: every acknowledged item was counted once, as successful or  *)
(* as failed, although one flush may be cancelled and done again.          *)
SettledOnce == successful + failed = Cardinality(InStage("done"))

(* save_poll_results, "retry nie duplikuje rekordow"                       *)
(* (docs/tasks/09-database-writer.md:28): however often a batch is saved   *)
(* again, by retries, late jobs and replays, each reading has one row.     *)
NoDuplicateRows == \A i \in Items : rows[i] <= 1

(* append(), "spool ma limit" (docs/tasks/13-disk-spool.md:25), with late  *)
(* appends competing with later ones.                                      *)
SpoolIsBounded == Cardinality(Stored) <= SpoolMaxItems

(* metrics(): inserted_readings counts no reading twice and none that is   *)
(* not in the database.                                                    *)
InsertedIsNotOverstated == inserted <= Cardinality(Saved)

(* run(): when the task has ended, by a return or by up to two             *)
(* cancellations, _stopped is set for shutdown() and no batch is left      *)
(* unacknowledged.                                                         *)
EndedWriterIsSettled == pc = "idle" => ~running /\ pending = {}

(* shutdown(): when it reports the writer stopped and drained, every item  *)
(* the queue ever handed out is acknowledged and a join() on it returns.   *)
DrainedMeansSettled ==
    ~running /\ stop /\ queue = <<>> /\ pending = {} => unfinished = 0

(* run(): an item that reaches the queue of a running writer is settled,   *)
(* also when stop() or replays of the spool come in between.               *)
AcceptedIsSettled ==
    \A i \in Items :
        running /\ stage[i] = "queued" ~> stage[i] \in {"done", "dropped"}

(* _replay_spool_once, "replay" (docs/tasks/13-disk-spool.md): a spooled   *)
(* poll result reaches the database once that answers, unless the writer   *)
(* is stopped first.                                                       *)
SpooledIsSaved ==
    \A i \in Items : i \in Stored ~> i \in Saved \/ ~running

(* stop(), shutdown(): the writer drains the queue and ends, although      *)
(* replays have precedence over the queue in every turn of its loop.       *)
ShutdownCompletes == stop ~> ~running

(* "Zapewnic przetrwanie odczytow podczas niedostepnosci glownej bazy"     *)
(* (docs/tasks/13-disk-spool.md:7): while the database is down and the     *)
(* spool works, the writer still takes what the queue has accepted.        *)
OutageDrainsQueue ==
    \A i \in Items : running /\ stage[i] = "queued" ~> stage[i] # "queued"

-----------------------------------------------------------------------------
(* The queue, the writer and the stores implement ResultDelivery: a poll   *)
(* result is settled by _ack_batch or drop_pending, and the losses         *)
(* reported are the failed and not spooled results and the dropped ones.   *)
Delivery == INSTANCE ResultDelivery WITH
    held <- InStage("queued") \cup InStage("taken"),
    settled <- InStage("done") \cup InStage("dropped"),
    durable <- Durable,
    lost <- failed - spooled + Cardinality(InStage("dropped"))

ImplementsDelivery == Delivery!DeliverySpec
=============================================================================
