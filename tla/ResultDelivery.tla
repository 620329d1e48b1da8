--------------------------- MODULE ResultDelivery ---------------------------
(***************************************************************************)
(* What the queue, the writer and the spool promise together, without      *)
(* batches, retries or threads.  A poll result accepted from a poller is   *)
(* held in memory until it is settled; when it is settled it is durable,   *)
(* or a loss has been reported for it; what is durable stays so; only a    *)
(* crash may take away, unreported, what is held.                          *)
(***************************************************************************)
EXTENDS PollResults, Integers

VARIABLES
    held,      \* accepted and not yet settled
    settled,   \* acknowledged or discarded, in this life of the process
    durable,   \* in the database or the spool
    lost       \* the losses reported

deliveryVars == <<held, settled, durable, lost>>

DeliveryInit ==
    /\ held = {}
    /\ settled = {}
    /\ durable = {}
    /\ lost = 0

Accept(i) ==
    /\ i \notin held \cup settled
    /\ held' = held \cup {i}
    /\ UNCHANGED <<settled, durable, lost>>

\* A store may be written at any time, also again and also late.
Store ==
    /\ durable \subseteq durable'
    /\ durable' \subseteq Items
    /\ UNCHANGED <<held, settled, lost>>

Settle(S) ==
    /\ S # {} /\ S \subseteq held
    /\ held' = held \ S
    /\ settled' = settled \cup S
    /\ durable \subseteq durable'
    /\ durable' \subseteq Items
    /\ lost' >= lost + Cardinality(S \ durable')

Crash ==
    /\ held' = {}
    /\ settled' = {}
    /\ lost' = 0
    /\ UNCHANGED durable

DeliveryNext ==
    \/ \E i \in Items : Accept(i)
    \/ Store
    \/ \E S \in SUBSET Items : Settle(S)
    \/ Crash

DeliverySpec == DeliveryInit /\ [][DeliveryNext]_deliveryVars

(* The promise a reader of the metrics relies on: every settled result is  *)
(* durable or among the losses reported.                                   *)
EveryLossReported == Cardinality(settled \ durable) <= lost
=============================================================================
