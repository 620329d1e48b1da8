--------------------------- MODULE ConnectionWorker ---------------------------
(***************************************************************************)
(* The worker that owns a driver (runtime/connection_worker.py), called by *)
(* several tasks: a supervisor that connects and disconnects, and the poll *)
(* cycles and health checks that go on meanwhile.  Each call is suspended  *)
(* at the awaits of the driver and of its retry loop:                      *)
(*                                                                         *)
(*   connecting, connectPause   connect(), and the delay before a retry    *)
(*   reading, readPause         poll_group(), likewise                     *)
(*   checking                   health_check()                             *)
(*   disconnecting              disconnect()                               *)
(*   unwinding                  _disconnect_after_cancellation()           *)
(***************************************************************************)
EXTENDS OpcUaDriver

CONSTANTS
    Tasks,            \* the tasks that call the worker
    Supervisors,      \* those that call connect() and disconnect()
    Tagless,          \* those that poll a group without enabled tags
    DisconnectsFirst, \* no connect() on a worker that holds a connection
    ConnectAttempts,  \* max_attempts of the connect retry policy
    PollAttempts,     \* max_attempts of the poll retry policy
    MaxCancels        \* bound: cancellations of calls

ASSUME WorkerAssumption ==
    /\ IsFiniteSet(Tasks)
    /\ Supervisors \subseteq Tasks
    /\ Tagless \subseteq Tasks
    /\ DisconnectsFirst \in BOOLEAN
    /\ ConnectAttempts \in Nat \ {0}
    /\ PollAttempts \in Nat \ {0}
    /\ MaxCancels \in Nat

VARIABLES
    pc,        \* the await each task is suspended at, or "idle"
    held,      \* the session that await is about
    attempt,   \* attempts of the retry loop
    state,     \* the WorkerState
    cancels    \* cancellations so far

callVars == <<pc, held, attempt>>
vars == <<driverVars, callVars, state, cancels>>

Init ==
    /\ DriverInit
    /\ pc = [t \in Tasks |-> "idle"]
    /\ held = [t \in Tasks |-> NoSession]
    /\ attempt = [t \in Tasks |-> 1]
    /\ state = "STOPPED"
    /\ cancels = 0

Suspend(t, await, s) ==
    /\ pc' = [pc EXCEPT ![t] = await]
    /\ held' = [held EXCEPT ![t] = s]

Return(t) ==
    /\ Suspend(t, "idle", NoSession)
    /\ attempt' = [attempt EXCEPT ![t] = 1]

\* A name that stands for no client object any more may stand for a new one.
Unused == {s \in Sessions \ {client} : session[s] = "none" /\ \A t \in Tasks : held[t] # s}

-----------------------------------------------------------------------------
(* run_with_retry.                                                         *)

MayRetry_OneMore(t, limit) == \* mutant: counts the retries, not the attempts
    attempt[t] <= limit

MayRetry(t, limit) == attempt[t] < limit

RetryBegins_Uncounted(t) ==   \* mutant: the attempt is not counted
    UNCHANGED attempt

RetryBegins(t) == attempt' = [attempt EXCEPT ![t] = @ + 1]

-----------------------------------------------------------------------------
(* connect().                                                              *)

Connect(t) ==
    /\ t \in Supervisors
    /\ pc[t] = "idle"
    /\ DisconnectsFirst => client = NoSession
    /\ \E s \in Unused : ConnectBegins(s) /\ Suspend(t, "connecting", s)
    /\ state' = "STARTING"
    /\ UNCHANGED <<attempt, cancels>>

ConnectReturns(t) ==
    /\ pc[t] = "connecting"
    /\ ConnectSucceeds(held[t])
    /\ Return(t)
    /\ state' = "RUNNING"
    /\ UNCHANGED cancels

\* Only errors classified as transient are retried, which any may be.
ConnectPauses(t) ==
    /\ pc[t] = "connecting"
    /\ MayRetry(t, ConnectAttempts)
    /\ ConnectFails(held[t])
    /\ RetryBegins(t)
    /\ Suspend(t, "connectPause", NoSession)
    /\ UNCHANGED <<state, cancels>>

ConnectRaises(t) ==
    /\ pc[t] = "connecting"
    /\ ConnectFails(held[t])
    /\ Return(t)
    /\ state' = "FAILED"
    /\ UNCHANGED cancels

ConnectAgain(t) ==
    /\ pc[t] = "connectPause"
    /\ \E s \in Unused : ConnectBegins(s) /\ Suspend(t, "connecting", s)
    /\ UNCHANGED <<attempt, state, cancels>>

-----------------------------------------------------------------------------
(* disconnect(), at once when there is no handle.                          *)

DisconnectsAtOnce(t) ==
    /\ t \in Supervisors
    /\ pc[t] = "idle"
    /\ client = NoSession
    /\ CloseBegins
    /\ state' = "STOPPED"
    /\ UNCHANGED <<callVars, cancels>>

Disconnect(t) ==
    /\ t \in Supervisors
    /\ pc[t] = "idle"
    /\ client # NoSession
    /\ CloseBegins
    /\ Suspend(t, "disconnecting", client)
    /\ state' = "STOPPING"
    /\ UNCHANGED <<attempt, cancels>>

\* The end of disconnect(), or of the same call after a cancellation.
DisconnectReturns(t) ==
    /\ pc[t] \in {"disconnecting", "unwinding"}
    /\ CloseEnds(held[t])
    /\ Return(t)
    /\ state' \in {"STOPPED", "FAILED"}
    /\ UNCHANGED cancels

-----------------------------------------------------------------------------
(* poll_group().                                                           *)

\* read() on a handle; without requests it returns with no await.
ReadBegins(t) ==
    /\ IsConnected
    /\ \/ /\ t \notin Tagless
          /\ Suspend(t, "reading", client)
          /\ UNCHANGED <<attempt, state>>
       \/ /\ t \in Tagless
          /\ Return(t)
          /\ state' = "RUNNING"

\* read() raises as there is no connection.  The results are the failures of
\* all tags, and no failure at all when there is no tag.
ReadRaises(t) ==
    /\ ~IsConnected
    /\ \/ /\ MayRetry(t, PollAttempts)
          /\ RetryBegins(t)
          /\ Suspend(t, "readPause", NoSession)
          /\ UNCHANGED state
       \/ /\ ~MayRetry(t, PollAttempts)
          /\ Return(t)
          /\ state' = IF t \in Tagless THEN "RUNNING" ELSE "DEGRADED"

PollGroup(t) ==
    /\ t \notin Supervisors
    /\ pc[t] = "idle"
    /\ ReadBegins(t) \/ ReadRaises(t)
    /\ UNCHANGED <<driverVars, cancels>>

ReadAgain(t) ==
    /\ pc[t] = "readPause"
    /\ ReadBegins(t) \/ ReadRaises(t)
    /\ UNCHANGED <<driverVars, cancels>>

\* Every tag has its result, or one read raised what is no result.  The
\* answers may have come before the session was closed.
PollReturns(t) ==
    /\ pc[t] = "reading"
    /\ Return(t)
    /\ state' \in {"RUNNING", "DEGRADED"}
    /\ UNCHANGED <<driverVars, cancels>>

-----------------------------------------------------------------------------
(* health_check().                                                         *)

HealthCheckFailsAtOnce(t) ==
    /\ pc[t] = "idle"
    /\ ~IsConnected
    /\ state' = "DEGRADED"
    /\ UNCHANGED <<driverVars, callVars, cancels>>

HealthCheck(t) ==
    /\ pc[t] = "idle"
    /\ IsConnected
    /\ Suspend(t, "checking", client)
    /\ UNCHANGED <<driverVars, attempt, state, cancels>>

CheckReturns(t) ==
    /\ pc[t] = "checking"
    /\ Return(t)
    /\ \/ /\ CheckFails              \* a timeout or a UaError
          /\ state' = "DEGRADED"
       \/ /\ state' \in {"RUNNING", "DEGRADED"}  \* healthy, or any other error
          /\ UNCHANGED driverVars
    /\ UNCHANGED cancels

-----------------------------------------------------------------------------
(* Cancellation of a call: whatever it was doing, it disconnects.          *)

\* What the cancelled call of t leaves of its session, and of the handle's.
SessionsAfterCancel(t) ==
    [s \in Sessions |->
        IF s = client THEN "closing"
        ELSE IF s = held[t] /\ pc[t] \in {"connecting", "disconnecting"} THEN "none"
        ELSE session[s]]

Cancel(t) ==
    /\ pc[t] \notin {"idle", "unwinding"}
    /\ cancels < MaxCancels
    /\ cancels' = cancels + 1
    /\ TakeHandle
    /\ session' = SessionsAfterCancel(t)
    /\ \/ /\ client = NoSession
          /\ Return(t)
          /\ state' = "STOPPED"
       \/ /\ client # NoSession
          /\ Suspend(t, "unwinding", client)
          /\ state' = "STOPPING"
          /\ UNCHANGED attempt

\* Cancelled once more, it ends and leaves the state as it is.
CancelAgain(t) ==
    /\ pc[t] = "unwinding"
    /\ cancels < MaxCancels
    /\ cancels' = cancels + 1
    /\ CloseEnds(held[t])
    /\ Return(t)
    /\ UNCHANGED state

-----------------------------------------------------------------------------
Call(t) ==
    \/ Connect(t) \/ DisconnectsAtOnce(t) \/ Disconnect(t)
    \/ PollGroup(t)
    \/ HealthCheckFailsAtOnce(t) \/ HealthCheck(t)

Resume(t) ==
    \/ ConnectReturns(t) \/ ConnectPauses(t) \/ ConnectRaises(t) \/ ConnectAgain(t)
    \/ DisconnectReturns(t)
    \/ ReadAgain(t) \/ PollReturns(t)
    \/ CheckReturns(t)

Next == \E t \in Tasks : Call(t) \/ Resume(t) \/ Cancel(t) \/ CancelAgain(t)

Spec == Init /\ [][Next]_vars

\* Every await of the driver is under a timeout, and the delays are capped.
FairSpec == Spec /\ \A t \in Tasks : WF_vars(Resume(t))

-----------------------------------------------------------------------------
(* Type invariant of the worker and its driver.                            *)
TypeOK ==
    /\ DriverTypeOK
    /\ pc \in [Tasks -> {"idle", "connecting", "connectPause", "reading", "readPause",
                         "checking", "disconnecting", "unwinding"}]
    /\ held \in [Tasks -> Sessions \cup {NoSession}]
    /\ attempt \in [Tasks -> Nat]
    /\ \A t \in Tasks :
          attempt[t] \in 1 .. IF t \in Supervisors THEN ConnectAttempts ELSE PollAttempts
    /\ state \in {"STOPPED", "STARTING", "RUNNING", "DEGRADED", "STOPPING", "FAILED"}
    /\ cancels \in Nat

Closers(s) == {t \in Tasks : pc[t] \in {"disconnecting", "unwinding"} /\ held[t] = s}

(* _disconnect_after_cancellation(): when several calls are cancelled, or  *)
(* one is during a disconnect(), every client is closed, and by one call.  *)
ClosedByOne ==
    \A s \in Sessions :
        /\ Closers(s) # {} <=> session[s] = "closing"
        /\ \A t, u \in Closers(s) : t = u

(* Retries and cancelled calls end: no poll cycle and no supervisor stays  *)
(* in the worker for ever.                                                 *)
CallsReturn == \A t \in Tasks : pc[t] # "idle" ~> pc[t] = "idle"

(* "Disconnect the owned driver and mark the worker stopped."              *)
(* (connection_worker.py:214), "anulowanie konczy polaczenie"              *)
(* (docs/tasks/06-connection-worker.md:26): a worker reported as stopped,  *)
(* with no call going on, has no connection.                               *)
StoppedIsDisconnected ==
    (\A t \in Tasks : pc[t] = "idle") /\ state = "STOPPED" => client = NoSession
=============================================================================
