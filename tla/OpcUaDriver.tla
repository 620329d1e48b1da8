----------------------------- MODULE OpcUaDriver -----------------------------
(***************************************************************************)
(* The driver of one OPC UA connection (protocols/opcua.py), as operators  *)
(* for the parts of its methods before and after their awaits.  A session  *)
(* stands for one asyncua client object and its connection to the PLC:     *)
(* none, opening (client.connect() is awaited), open, or closing           *)
(* (client.disconnect() is awaited).                                       *)
(*                                                                         *)
(* Of the asyncua library it is assumed that a connect() that fails or is  *)
(* cancelled leaves no session behind, and that a disconnect() closes the  *)
(* connection also when it fails or is cancelled.                          *)
(***************************************************************************)
EXTENDS Integers, FiniteSets

CONSTANTS
    Sessions,
    NoSession

ASSUME SessionAssumption == IsFiniteSet(Sessions) /\ NoSession \notin Sessions

VARIABLES
    client,      \* _client, NoSession for None
    connected,   \* _connected
    session      \* the state of every session

driverVars == <<client, connected, session>>

DriverInit ==
    /\ client = NoSession
    /\ connected = FALSE
    /\ session = [s \in Sessions |-> "none"]

-----------------------------------------------------------------------------
(* connect(): a new client object; the handle is set when it is connected, *)
(* and replaces the one that is there.                                     *)

ConnectBegins(s) ==
    /\ session' = [session EXCEPT ![s] = "opening"]
    /\ UNCHANGED <<client, connected>>

ConnectSucceeds_Forgets(s) == \* mutant: the handle is not set
    /\ session' = [session EXCEPT ![s] = "open"]
    /\ connected' = TRUE
    /\ UNCHANGED client

ConnectSucceeds(s) ==
    /\ session' = [session EXCEPT ![s] = "open"]
    /\ client' = s
    /\ connected' = TRUE

ConnectFails(s) ==
    /\ session' = [session EXCEPT ![s] = "none"]
    /\ UNCHANGED <<client, connected>>

(* disconnect(): the handle is given up before the client is closed.       *)

TakeHandle_Keeps ==           \* mutant: the handle is kept while it is closed
    /\ connected' = FALSE
    /\ UNCHANGED client

TakeHandle_KeepsFlag ==       \* mutant: the flag is not cleared
    /\ client' = NoSession
    /\ UNCHANGED connected

TakeHandle ==
    /\ client' = NoSession
    /\ connected' = FALSE

CloseBegins ==
    /\ TakeHandle
    /\ session' = [s \in Sessions |-> IF s = client THEN "closing" ELSE session[s]]

CloseEnds(s) ==
    /\ session' = [session EXCEPT ![s] = "none"]
    /\ UNCHANGED <<client, connected>>

(* read() and health_check() need a handle that counts as connected.       *)
IsConnected == client # NoSession /\ connected

(* health_check() had no answer, from whichever session it asked.          *)
CheckFails ==
    /\ connected' = FALSE
    /\ UNCHANGED <<client, session>>

-----------------------------------------------------------------------------
DriverTypeOK ==
    /\ client \in Sessions \cup {NoSession}
    /\ connected \in BOOLEAN
    /\ session \in [Sessions -> {"none", "opening", "open", "closing"}]

(* disconnect(), connect(): the handle never refers to a client that is    *)
(* being closed or is closed, so that no call starts on one, and the       *)
(* driver does not count as connected without a handle.                    *)
HandleIsOpen ==
    /\ client # NoSession => session[client] = "open"
    /\ connected => client # NoSession

(* "Implementations own exactly one protocol client/connection instance"   *)
(* (protocols/driver.py:35): no session stays open that the driver has no  *)
(* handle of and so cannot close.                                          *)
OpenIsOwned == \A s \in Sessions : session[s] = "open" => client = s
=============================================================================
