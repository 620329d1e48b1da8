----------------------- MODULE ConnectionWorkerProofs -----------------------
(***************************************************************************)
(* The handle of the driver and the clients being closed are right for any *)
(* number of tasks that call the worker in any order and are cancelled at  *)
(* any await.  That no session is forgotten is proved for a supervisor     *)
(* that disconnects before it connects again.                              *)
(***************************************************************************)
EXTENDS ConnectionWorker, TLAPS

(* Calls that connect or close a client. *)
Closing(t) == pc[t] \in {"disconnecting", "unwinding"}
Changing(t) == pc[t] = "connecting" \/ Closing(t)

(* Each of them has a session of its own, in the state it works on, and a  *)
(* session that is being closed has such a call.                           *)
ChangingInv ==
    /\ \A t \in Tasks : Changing(t) =>
          /\ held[t] \in Sessions
          /\ session[held[t]] = IF Closing(t) THEN "closing" ELSE "opening"
    /\ \A t, u \in Tasks : Changing(t) /\ Changing(u) /\ held[t] = held[u] => t = u
    /\ \A s \in Sessions : session[s] = "closing" =>
          \E t \in Tasks : Closing(t) /\ held[t] = s

(* Who retries what. *)
RoleInv ==
    \A t \in Tasks :
        /\ pc[t] \in {"connecting", "connectPause"} => t \in Supervisors
        /\ pc[t] \in {"reading", "readPause"} => t \notin Supervisors

WorkerInv == TypeOK /\ RoleInv /\ HandleIsOpen /\ ChangingInv

(* What the property says of closing clients is part of the invariant. *)
LEMMA InvGivesClosedByOne == WorkerInv => ClosedByOne
BY DEF WorkerInv, ChangingInv, ClosedByOne, Closers, Closing, Changing

-----------------------------------------------------------------------------
(* Type correctness. *)

Awaits == {"idle", "connecting", "connectPause", "reading", "readPause", "checking",
           "disconnecting", "unwinding"}

WorkerStates == {"STOPPED", "STARTING", "RUNNING", "DEGRADED", "STOPPING", "FAILED"}

Limit(t) == IF t \in Supervisors THEN ConnectAttempts ELSE PollAttempts

AttemptTypeOK ==
    /\ attempt \in [Tasks -> Nat]
    /\ \A t \in Tasks : attempt[t] \in 1 .. Limit(t)

LEMMA TypeParts ==
    TypeOK <=> /\ DriverTypeOK /\ AttemptTypeOK
               /\ pc \in [Tasks -> Awaits]
               /\ held \in [Tasks -> Sessions \cup {NoSession}]
               /\ state \in WorkerStates
               /\ cancels \in Nat
BY DEF TypeOK, AttemptTypeOK, Limit, Awaits, WorkerStates

LEMMA ReturnTypes ==
    ASSUME AttemptTypeOK, NEW t \in Tasks, Return(t)
    PROVE  AttemptTypeOK'
BY WorkerAssumption DEF Return, AttemptTypeOK, Limit

LEMMA RetryTypes ==
    ASSUME AttemptTypeOK, NEW t \in Tasks, RetryBegins(t), MayRetry(t, Limit(t))
    PROVE  AttemptTypeOK'
BY WorkerAssumption DEF RetryBegins, MayRetry, AttemptTypeOK, Limit

LEMMA AttemptsStay ==
    ASSUME AttemptTypeOK, UNCHANGED attempt
    PROVE  AttemptTypeOK'
BY DEF AttemptTypeOK, Limit

LEMMA InitEstablishes == Init => WorkerInv
<1> SUFFICES ASSUME Init PROVE WorkerInv
  OBVIOUS
<1>1. \A t \in Tasks : pc[t] = "idle"
  BY DEF Init
<1>2. TypeOK
  <2>1. DriverTypeOK
    BY DEF Init, DriverInit, DriverTypeOK
  <2>2. AttemptTypeOK
    BY WorkerAssumption DEF Init, AttemptTypeOK, Limit
  <2> QED
    BY <2>1, <2>2, TypeParts DEF Init, Awaits, WorkerStates
<1>3. RoleInv
  BY <1>1 DEF RoleInv
<1>4. HandleIsOpen
  BY DEF Init, DriverInit, HandleIsOpen
<1>5. ChangingInv
  BY <1>1 DEF Init, DriverInit, ChangingInv, Changing, Closing
<1> QED
  BY <1>2, <1>3, <1>4, <1>5 DEF WorkerInv

-----------------------------------------------------------------------------
(* One step of a call. *)

(* The call t goes on to the given await, about session s, and changes     *)
(* only its own sessions among those in use.                               *)
SessionsFollow(t, await, s) ==
    /\ await = "connecting" =>
          s \in Sessions /\ session[s] \in {"none", "open"} /\ session'[s] = "opening"
    /\ await \in {"disconnecting", "unwinding"} =>
          s \in Sessions /\ session[s] = "open" /\ session'[s] = "closing"
    /\ \A x \in Sessions :
          session[x] \in {"opening", "closing"} /\ ~(Changing(t) /\ x = held[t])
             => session'[x] = session[x]
    /\ \A x \in Sessions : session'[x] = "closing" =>
          \/ session[x] = "closing" /\ ~(Changing(t) /\ x = held[t])
          \/ await \in {"disconnecting", "unwinding"} /\ x = s

LEMMA CallStep ==
    ASSUME WorkerInv, NEW t \in Tasks, NEW await \in Awaits,
           NEW s \in Sessions \cup {NoSession},
           Suspend(t, await, s),
           await \in {"connecting", "connectPause"} => t \in Supervisors,
           await \in {"reading", "readPause"} => t \notin Supervisors,
           DriverTypeOK', AttemptTypeOK', state' \in WorkerStates, cancels' \in Nat,
           HandleIsOpen', SessionsFollow(t, await, s)
    PROVE  WorkerInv'
<1>1. /\ pc \in [Tasks -> Awaits]
      /\ held \in [Tasks -> Sessions \cup {NoSession}]
  BY TypeParts DEF WorkerInv
<1>2. /\ pc' \in [Tasks -> Awaits]
      /\ held' \in [Tasks -> Sessions \cup {NoSession}]
      /\ pc'[t] = await /\ held'[t] = s
      /\ \A u \in Tasks : u # t => pc'[u] = pc[u] /\ held'[u] = held[u]
  BY <1>1 DEF Suspend
<1>3. TypeOK'
  BY <1>2 DEF TypeOK, AttemptTypeOK, Limit, Awaits, WorkerStates
<1>4. RoleInv'
  BY <1>2 DEF WorkerInv, RoleInv
<1>5. ChangingInv'
  <2>1. ASSUME NEW u \in Tasks, Changing(u)'
        PROVE  /\ held'[u] \in Sessions
               /\ session'[held'[u]] = IF Closing(u)' THEN "closing" ELSE "opening"
    BY <1>2, <2>1 DEF WorkerInv, ChangingInv, Changing, Closing, SessionsFollow
  <2>2. ASSUME NEW u \in Tasks, NEW v \in Tasks,
               Changing(u)', Changing(v)', held'[u] = held'[v]
        PROVE  u = v
    BY <1>2, <2>2 DEF WorkerInv, ChangingInv, Changing, Closing, SessionsFollow
  <2>3. ASSUME NEW x \in Sessions, session'[x] = "closing"
        PROVE  \E u \in Tasks : Closing(u)' /\ held'[u] = x
    BY <1>2, <2>3 DEF WorkerInv, ChangingInv, Changing, Closing, SessionsFollow
  <2> QED
    BY <2>1, <2>2, <2>3 DEF ChangingInv
<1> QED
  BY <1>3, <1>4, <1>5 DEF WorkerInv

(* A step of which the driver sees nothing. *)
LEMMA DriverStays ==
    ASSUME WorkerInv, UNCHANGED driverVars, NEW t \in Tasks,
           NEW await \in Awaits \ {"connecting", "disconnecting", "unwinding"}, NEW s,
           ~Changing(t)
    PROVE  DriverTypeOK' /\ HandleIsOpen' /\ SessionsFollow(t, await, s)
BY DEF WorkerInv, TypeOK, DriverTypeOK, HandleIsOpen, driverVars, SessionsFollow

-----------------------------------------------------------------------------
(* connect().                                                              *)

LEMMA ConnectStep ==
    ASSUME WorkerInv, NEW t \in Tasks, Connect(t) \/ ConnectAgain(t)
    PROVE  WorkerInv'
<1>1. PICK s \in Unused : ConnectBegins(s) /\ Suspend(t, "connecting", s)
  BY DEF Connect, ConnectAgain
<1>2. /\ s \in Sessions /\ s # client /\ session[s] = "none"
      /\ pc[t] \in {"idle", "connectPause"} /\ t \in Supervisors
      /\ UNCHANGED <<attempt, cancels>> /\ state' \in {state, "STARTING"}
  BY <1>1 DEF Unused, Connect, ConnectAgain, WorkerInv, RoleInv
<1>3. DriverTypeOK' /\ HandleIsOpen' /\ SessionsFollow(t, "connecting", s)
  BY <1>1, <1>2 DEF ConnectBegins, WorkerInv, TypeOK, DriverTypeOK, HandleIsOpen,
                    SessionsFollow, Changing, Closing
<1>4. AttemptTypeOK' /\ state' \in WorkerStates /\ cancels' \in Nat
  BY <1>2, TypeParts, AttemptsStay DEF WorkerInv, WorkerStates
<1> QED
  BY <1>1, <1>2, <1>3, <1>4, CallStep DEF Awaits

LEMMA ConnectEndStep ==
    ASSUME WorkerInv, NEW t \in Tasks,
           ConnectReturns(t) \/ ConnectPauses(t) \/ ConnectRaises(t)
    PROVE  WorkerInv'
<1>1. /\ pc[t] = "connecting" /\ t \in Supervisors
      /\ held[t] \in Sessions /\ session[held[t]] = "opening" /\ Changing(t)
  BY DEF ConnectReturns, ConnectPauses, ConnectRaises, WorkerInv, RoleInv, ChangingInv,
         Changing, Closing
<1>2. PICK await \in {"idle", "connectPause"} : Suspend(t, await, NoSession)
  BY DEF ConnectReturns, ConnectPauses, ConnectRaises, Return
<1>3. DriverTypeOK' /\ HandleIsOpen' /\ SessionsFollow(t, await, NoSession)
  <2>1. CASE ConnectSucceeds(held[t])
    BY <1>1, <1>2, <2>1, SessionAssumption
    DEF ConnectSucceeds, WorkerInv, TypeOK, DriverTypeOK, HandleIsOpen, SessionsFollow
  <2>2. CASE ConnectFails(held[t])
    BY <1>1, <1>2, <2>2, SessionAssumption
    DEF ConnectFails, WorkerInv, TypeOK, DriverTypeOK, HandleIsOpen, SessionsFollow
  <2> QED
    BY <2>1, <2>2 DEF ConnectReturns, ConnectPauses, ConnectRaises
<1>4. AttemptTypeOK'
  BY <1>1, TypeParts, ReturnTypes, RetryTypes
  DEF ConnectReturns, ConnectPauses, ConnectRaises, WorkerInv, Limit
<1>5. state' \in WorkerStates /\ cancels' \in Nat
  BY TypeParts DEF ConnectReturns, ConnectPauses, ConnectRaises, WorkerInv, WorkerStates
<1> QED
  BY <1>1, <1>2, <1>3, <1>4, <1>5, CallStep DEF Awaits

-----------------------------------------------------------------------------
(* disconnect() and what follows a cancellation.                           *)

LEMMA DisconnectStep ==
    ASSUME WorkerInv, NEW t \in Tasks, Disconnect(t)
    PROVE  WorkerInv'
<1>1. /\ client \in Sessions /\ session[client] = "open" /\ ~Changing(t)
      /\ Suspend(t, "disconnecting", client)
  BY DEF Disconnect, WorkerInv, TypeOK, DriverTypeOK, HandleIsOpen, Changing, Closing
<1>2. DriverTypeOK' /\ HandleIsOpen' /\ SessionsFollow(t, "disconnecting", client)
  BY <1>1, SessionAssumption
  DEF Disconnect, CloseBegins, TakeHandle, WorkerInv, TypeOK, DriverTypeOK,
      HandleIsOpen, SessionsFollow
<1>3. AttemptTypeOK' /\ state' \in WorkerStates /\ cancels' \in Nat
  BY TypeParts, AttemptsStay DEF Disconnect, WorkerInv, WorkerStates
<1> QED
  BY <1>1, <1>2, <1>3, CallStep DEF Awaits

LEMMA DisconnectsAtOnceStep ==
    ASSUME WorkerInv, NEW t \in Tasks, DisconnectsAtOnce(t)
    PROVE  WorkerInv'
<1>1. /\ client = NoSession /\ UNCHANGED <<client, session, callVars, cancels>>
      /\ connected' = FALSE /\ state' = "STOPPED"
  <2>1. \A x \in Sessions : session'[x] = session[x]
    BY SessionAssumption DEF DisconnectsAtOnce, CloseBegins
  <2>2. session' \in [Sessions -> {"none", "opening", "open", "closing"}]
    BY SessionAssumption DEF DisconnectsAtOnce, CloseBegins, WorkerInv, TypeOK,
                             DriverTypeOK
  <2> QED
    BY <2>1, <2>2 DEF DisconnectsAtOnce, CloseBegins, TakeHandle, WorkerInv, TypeOK,
                      DriverTypeOK
<1>2. TypeOK'
  BY <1>1 DEF WorkerInv, TypeOK, DriverTypeOK, callVars
<1> QED
  BY <1>1, <1>2 DEF WorkerInv, RoleInv, HandleIsOpen, ChangingInv, Changing, Closing,
                    callVars

LEMMA DisconnectEndStep ==
    ASSUME WorkerInv, NEW t \in Tasks, DisconnectReturns(t) \/ CancelAgain(t)
    PROVE  WorkerInv'
<1>1. /\ Changing(t) /\ held[t] \in Sessions /\ session[held[t]] = "closing"
      /\ CloseEnds(held[t]) /\ Return(t)
  BY DEF DisconnectReturns, CancelAgain, WorkerInv, ChangingInv, Changing, Closing
<1>2. DriverTypeOK' /\ HandleIsOpen' /\ SessionsFollow(t, "idle", NoSession)
  BY <1>1, SessionAssumption
  DEF CloseEnds, WorkerInv, TypeOK, DriverTypeOK, HandleIsOpen, SessionsFollow
<1>3. AttemptTypeOK'
  BY <1>1, TypeParts, ReturnTypes DEF WorkerInv
<1>4. state' \in WorkerStates /\ cancels' \in Nat
  BY TypeParts DEF DisconnectReturns, CancelAgain, WorkerInv, WorkerStates
<1> QED
  BY <1>1, <1>2, <1>3, <1>4, CallStep DEF Awaits, Return

LEMMA CancelStep ==
    ASSUME WorkerInv, NEW t \in Tasks, Cancel(t)
    PROVE  WorkerInv'
<1>1. /\ DriverTypeOK' /\ AttemptTypeOK' /\ state' \in WorkerStates /\ cancels' \in Nat
      /\ client' = NoSession /\ connected' = FALSE
      /\ \A x \in Sessions : session'[x] = SessionsAfterCancel(t)[x]
  <2>1. client' = NoSession /\ connected' = FALSE /\ connected' \in BOOLEAN
        /\ state' \in WorkerStates /\ session' = SessionsAfterCancel(t)
    BY DEF Cancel, TakeHandle, WorkerStates
  <2>2. session' \in [Sessions -> {"none", "opening", "open", "closing"}]
    BY <2>1 DEF SessionsAfterCancel, WorkerInv, TypeOK, DriverTypeOK
  <2>3. AttemptTypeOK' /\ cancels' \in Nat
    BY TypeParts, ReturnTypes, AttemptsStay DEF Cancel, WorkerInv
  <2> QED
    BY <2>1, <2>2, <2>3 DEF DriverTypeOK
<1>2. \A x \in Sessions : x = client => session[x] = "open"
  BY SessionAssumption DEF WorkerInv, HandleIsOpen
<1>3. HandleIsOpen'
  BY <1>1 DEF HandleIsOpen
<1>4. pc[t] # "unwinding"
  BY DEF Cancel
<1>5. CASE client = NoSession
  <2>1. Suspend(t, "idle", NoSession)
    BY <1>5 DEF Cancel, Return
  <2>2. SessionsFollow(t, "idle", NoSession)
    BY <1>1, <1>4, <1>5, SessionAssumption
    DEF SessionsAfterCancel, SessionsFollow, WorkerInv, ChangingInv, Changing, Closing
  <2> QED
    BY <1>1, <1>3, <2>1, <2>2, CallStep DEF Awaits
<1>6. CASE client # NoSession
  <2>1. client \in Sessions /\ Suspend(t, "unwinding", client)
    BY <1>6 DEF Cancel, WorkerInv, TypeOK, DriverTypeOK
  <2>2. SessionsFollow(t, "unwinding", client)
    BY <1>1, <1>2, <1>4, <2>1
    DEF SessionsAfterCancel, SessionsFollow, WorkerInv, ChangingInv, Changing, Closing
  <2> QED
    BY <1>1, <1>3, <2>1, <2>2, CallStep DEF Awaits
<1> QED
  BY <1>5, <1>6

-----------------------------------------------------------------------------
(* poll_group() and health_check().                                        *)

LEMMA PollStep ==
    ASSUME WorkerInv, NEW t \in Tasks, PollGroup(t) \/ ReadAgain(t)
    PROVE  WorkerInv'
<1>1. /\ ReadBegins(t) \/ ReadRaises(t)
      /\ UNCHANGED <<driverVars, cancels>> /\ ~Changing(t) /\ t \notin Supervisors
  BY DEF PollGroup, ReadAgain, Changing, Closing, WorkerInv, RoleInv
<1>2. PICK await \in {"idle", "reading", "readPause"}, s \in Sessions \cup {NoSession} :
          Suspend(t, await, s)
  BY <1>1 DEF ReadBegins, ReadRaises, Return, WorkerInv, TypeOK, DriverTypeOK
<1>3. AttemptTypeOK'
  BY <1>1, TypeParts, ReturnTypes, RetryTypes, AttemptsStay
  DEF ReadBegins, ReadRaises, WorkerInv, Limit
<1>4. state' \in WorkerStates /\ cancels' \in Nat
  BY <1>1, TypeParts DEF ReadBegins, ReadRaises, WorkerInv, WorkerStates
<1> QED
  BY <1>1, <1>2, <1>3, <1>4, DriverStays, CallStep DEF Awaits

LEMMA PollEndStep ==
    ASSUME WorkerInv, NEW t \in Tasks, PollReturns(t)
    PROVE  WorkerInv'
<1>1. /\ Return(t) /\ UNCHANGED <<driverVars, cancels>> /\ ~Changing(t)
      /\ state' \in WorkerStates /\ cancels' \in Nat
  BY TypeParts DEF PollReturns, Changing, Closing, WorkerStates, WorkerInv
<1>2. AttemptTypeOK'
  BY <1>1, TypeParts, ReturnTypes DEF WorkerInv
<1> QED
  BY <1>1, <1>2, DriverStays, CallStep DEF Awaits, Return

LEMMA CheckStep ==
    ASSUME WorkerInv, NEW t \in Tasks, HealthCheck(t)
    PROVE  WorkerInv'
<1>1. /\ UNCHANGED <<driverVars, attempt, state, cancels>> /\ ~Changing(t)
      /\ client \in Sessions /\ Suspend(t, "checking", client)
  BY DEF HealthCheck, IsConnected, Changing, Closing, WorkerInv, TypeOK, DriverTypeOK
<1>2. AttemptTypeOK' /\ state' \in WorkerStates /\ cancels' \in Nat
  BY <1>1, TypeParts, AttemptsStay DEF WorkerInv
<1> QED
  BY <1>1, <1>2, DriverStays, CallStep DEF Awaits

LEMMA CheckFailsAtOnceStep ==
    ASSUME WorkerInv, NEW t \in Tasks, HealthCheckFailsAtOnce(t)
    PROVE  WorkerInv'
BY DEF HealthCheckFailsAtOnce, WorkerInv, TypeOK, DriverTypeOK, RoleInv, HandleIsOpen,
       ChangingInv, Changing, Closing, driverVars, callVars

LEMMA CheckEndStep ==
    ASSUME WorkerInv, NEW t \in Tasks, CheckReturns(t)
    PROVE  WorkerInv'
<1>1. /\ Return(t) /\ ~Changing(t) /\ UNCHANGED <<client, session>>
      /\ connected' \in {connected, FALSE}
      /\ state' \in WorkerStates /\ cancels' \in Nat
  BY TypeParts DEF CheckReturns, CheckFails, Changing, Closing, WorkerStates, WorkerInv,
                   driverVars
<1>2. connected' \in BOOLEAN /\ (connected' => connected)
  <2>1. connected \in BOOLEAN
    BY DEF WorkerInv, TypeOK, DriverTypeOK
  <2>2. CASE connected' = connected
    BY <2>1, <2>2
  <2>3. CASE connected' = FALSE
    BY <2>3
  <2> QED
    BY <1>1, <2>2, <2>3
<1>3. DriverTypeOK' /\ HandleIsOpen' /\ SessionsFollow(t, "idle", NoSession)
  BY <1>1, <1>2 DEF WorkerInv, TypeOK, DriverTypeOK, HandleIsOpen, SessionsFollow
<1>4. AttemptTypeOK'
  BY <1>1, TypeParts, ReturnTypes DEF WorkerInv
<1> QED
  BY <1>1, <1>3, <1>4, CallStep DEF Awaits, Return

-----------------------------------------------------------------------------
LEMMA StepPreserves == WorkerInv /\ [Next]_vars => WorkerInv'
<1> SUFFICES ASSUME WorkerInv, [Next]_vars PROVE WorkerInv'
  OBVIOUS
<1>1. ASSUME NEW t \in Tasks, Call(t) PROVE WorkerInv'
  BY <1>1, ConnectStep, DisconnectsAtOnceStep, DisconnectStep, PollStep,
     CheckFailsAtOnceStep, CheckStep DEF Call
<1>2. ASSUME NEW t \in Tasks, Resume(t) PROVE WorkerInv'
  BY <1>2, ConnectStep, ConnectEndStep, DisconnectEndStep, PollStep, PollEndStep,
     CheckEndStep DEF Resume
<1>3. ASSUME NEW t \in Tasks, Cancel(t) \/ CancelAgain(t) PROVE WorkerInv'
  BY <1>3, CancelStep, DisconnectEndStep
<1>4. CASE UNCHANGED vars
  <2>1. TypeOK' /\ RoleInv' /\ HandleIsOpen'
    BY <1>4 DEF vars, driverVars, callVars, WorkerInv, TypeOK, DriverTypeOK, RoleInv,
                HandleIsOpen
  <2>2. ChangingInv'
    BY <1>4 DEF vars, driverVars, callVars, WorkerInv, ChangingInv, Changing, Closing
  <2> QED
    BY <2>1, <2>2 DEF WorkerInv
<1> QED
  BY <1>1, <1>2, <1>3, <1>4 DEF Next

LEMMA WorkerInvHolds == Spec => []WorkerInv
<1> QED
  BY InitEstablishes, StepPreserves, PTL DEF Spec

(* connect(), disconnect() and _disconnect_after_cancellation(): whatever  *)
(* the order of the calls and of their cancellations, the handle is that   *)
(* of an open session, and every client is closed by one call.             *)
THEOREM HandleIsNeverStale == Spec => [](TypeOK /\ HandleIsOpen /\ ClosedByOne)
<1>1. WorkerInv => TypeOK /\ HandleIsOpen /\ ClosedByOne
  BY InvGivesClosedByOne DEF WorkerInv
<1> QED
  BY <1>1, WorkerInvHolds, PTL

-----------------------------------------------------------------------------
(* One supervisor, which disconnects before it connects again. *)
Careful == DisconnectsFirst /\ \A t, u \in Supervisors : t = u

(* While the supervisor connects there is no handle that could be replaced. *)
OwnedInv ==
    /\ OpenIsOwned
    /\ \A t \in Tasks : pc[t] \in {"connecting", "connectPause"} => client = NoSession

LEMMA OwnedInit == Init => OwnedInv
BY DEF Init, DriverInit, OwnedInv, OpenIsOwned

(* A step of t that opens no session and leaves or gives up the handle. *)
LEMMA OwnedStays ==
    ASSUME OwnedInv, NEW t \in Tasks,
           \A u \in Tasks : u # t => pc'[u] = pc[u],
           pc'[t] \notin {"connecting", "connectPause"} \/ pc[t] \in {"connecting", "connectPause"},
           client' \in {client, NoSession},
           \A s \in Sessions : session'[s] = "open" => session[s] = "open" /\ client' = client
    PROVE  OwnedInv'
BY DEF OwnedInv, OpenIsOwned

LEMMA OwnedStep ==
    ASSUME Careful, WorkerInv, OwnedInv, [Next]_vars
    PROVE  OwnedInv'
<1>1. /\ pc \in [Tasks -> Awaits] /\ NoSession \notin Sessions
      /\ session \in [Sessions -> {"none", "opening", "open", "closing"}]
  BY TypeParts, SessionAssumption DEF WorkerInv, DriverTypeOK
<1>2. ASSUME NEW t \in Tasks, Connect(t) \/ ConnectAgain(t) PROVE OwnedInv'
  <2>1. PICK s \in Sessions : /\ session' = [session EXCEPT ![s] = "opening"]
                              /\ pc' = [pc EXCEPT ![t] = "connecting"]
                              /\ UNCHANGED client
    BY <1>2 DEF Connect, ConnectAgain, ConnectBegins, Suspend, Unused
  <2>2. client = NoSession
    BY <1>2 DEF Connect, ConnectAgain, Careful, OwnedInv
  <2> QED
    BY <1>1, <2>1, <2>2 DEF OwnedInv, OpenIsOwned
<1>3. ASSUME NEW t \in Tasks, ConnectReturns(t) PROVE OwnedInv'
  <2>1. /\ pc[t] = "connecting" /\ held[t] \in Sessions
        /\ session' = [session EXCEPT ![held[t]] = "open"]
        /\ client' = held[t] /\ pc' = [pc EXCEPT ![t] = "idle"]
    BY <1>3 DEF ConnectReturns, ConnectSucceeds, Return, Suspend, WorkerInv, ChangingInv,
                Changing
  <2>2. \A u \in Tasks : pc[u] \in {"connecting", "connectPause"} => u = t
    BY <2>1 DEF Careful, WorkerInv, RoleInv
  <2>3. \A s \in Sessions : session[s] # "open"
    BY <1>1, <2>1 DEF OwnedInv, OpenIsOwned
  <2> QED
    BY <1>1, <2>1, <2>2, <2>3 DEF OwnedInv, OpenIsOwned
<1>4. ASSUME NEW t \in Tasks, ConnectPauses(t) \/ ConnectRaises(t) PROVE OwnedInv'
  <2>1. /\ pc[t] = "connecting" /\ UNCHANGED client
        /\ session' = [session EXCEPT ![held[t]] = "none"]
        /\ \E await \in {"idle", "connectPause"} : pc' = [pc EXCEPT ![t] = await]
    BY <1>4 DEF ConnectPauses, ConnectRaises, ConnectFails, Return, Suspend
  <2> QED
    BY <1>1, <2>1, OwnedStays
<1>5. ASSUME NEW t \in Tasks, Disconnect(t) \/ DisconnectsAtOnce(t) \/ Cancel(t)
      PROVE  OwnedInv'
  <2>1. /\ client' = NoSession
        /\ pc' = pc \/ \E await \in {"idle", "disconnecting", "unwinding"} :
                           pc' = [pc EXCEPT ![t] = await]
    BY <1>5 DEF Disconnect, DisconnectsAtOnce, Cancel, CloseBegins, TakeHandle, Return,
                Suspend, callVars
  <2>2. \A s \in Sessions : session'[s] # "open"
    BY <1>1, <1>5 DEF Disconnect, DisconnectsAtOnce, Cancel, CloseBegins,
                      SessionsAfterCancel, OwnedInv, OpenIsOwned
  <2> QED
    BY <1>1, <2>1, <2>2 DEF OwnedInv, OpenIsOwned
<1>6. ASSUME NEW t \in Tasks, DisconnectReturns(t) \/ CancelAgain(t) PROVE OwnedInv'
  <2>1. /\ UNCHANGED client /\ session' = [session EXCEPT ![held[t]] = "none"]
        /\ pc' = [pc EXCEPT ![t] = "idle"]
    BY <1>6 DEF DisconnectReturns, CancelAgain, CloseEnds, Return, Suspend
  <2> QED
    BY <1>1, <2>1, OwnedStays
<1>7. ASSUME NEW t \in Tasks,
             \/ PollGroup(t) \/ ReadAgain(t) \/ PollReturns(t)
             \/ HealthCheck(t) \/ HealthCheckFailsAtOnce(t) \/ CheckReturns(t)
      PROVE  OwnedInv'
  <2>1. /\ UNCHANGED <<client, session>>
        /\ pc' = pc \/ \E await \in {"idle", "reading", "readPause", "checking"} :
                           pc' = [pc EXCEPT ![t] = await]
    BY <1>7 DEF PollGroup, ReadAgain, PollReturns, HealthCheck, HealthCheckFailsAtOnce,
                CheckReturns, CheckFails, ReadBegins, ReadRaises, Return, Suspend,
                driverVars, callVars
  <2> QED
    BY <1>1, <2>1 DEF OwnedInv, OpenIsOwned
<1>8. CASE UNCHANGED vars
  BY <1>8 DEF vars, driverVars, callVars, OwnedInv, OpenIsOwned
<1> QED
  BY <1>2, <1>3, <1>4, <1>5, <1>6, <1>7, <1>8 DEF Next, Call, Resume

(* connect(): the driver forgets no open session, if connect() is only     *)
(* called by one task and on a worker without a connection, whatever polls,*)
(* health checks and cancellations go on meanwhile.                        *)
THEOREM NoSessionForgotten ==
    ASSUME Careful
    PROVE  Spec => []OpenIsOwned
<1>1. Init => OwnedInv
  BY OwnedInit
<1>2. WorkerInv /\ OwnedInv /\ [Next]_vars => OwnedInv'
  BY OwnedStep
<1>3. OwnedInv => OpenIsOwned
  BY DEF OwnedInv
<1> QED
  BY <1>1, <1>2, <1>3, WorkerInvHolds, PTL DEF Spec

(* Each variable of worker and driver keeps its type: no call makes more   *)
(* attempts than run_with_retry allows.                                    *)
THEOREM WorkerTypes == Spec => []TypeOK
BY HandleIsNeverStale, PTL

(* disconnect() takes the handle before it awaits, so a session is closed  *)
(* by one call, whatever polls are cancelled meanwhile.                    *)
THEOREM SessionsCloseOnce == Spec => []ClosedByOne
BY HandleIsNeverStale, PTL
=============================================================================
