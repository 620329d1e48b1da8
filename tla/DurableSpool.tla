---------------------------- MODULE DurableSpool ----------------------------
(***************************************************************************)
(* The SQLite spool that keeps poll results on disk while the database     *)
(* cannot take them (persistence/spool.py), and the part of the database   *)
(* that receives them (persistence/repositories.py, save_poll_results).    *)
(* Both outlive the process.                                               *)
(*                                                                         *)
(* Every method of the spool is one SQLite transaction run on an executor  *)
(* thread, so each is one atomic operator here.  created_at is kept as an  *)
(* age that counts appends: one append stamps all its items alike, and     *)
(* ties are broken by execution_id, of which the model knows nothing.      *)
(***************************************************************************)
EXTENDS PollResults, Integers

CONSTANTS
    SpoolMaxItems,  \* DurableSqliteSpool(max_items)
    RetryDelayed    \* whether retry_delay_s is greater than zero

ASSUME SpoolMaxItemsAssumption == SpoolMaxItems \in Nat \ {0}
ASSUME RetryDelayedAssumption == RetryDelayed \in BOOLEAN

VARIABLES
    age,       \* age[i]: appends since i's row was created, with its own;
               \* 0 when i has no row
    due,       \* the stored items whose next_retry_at has come
    rows       \* rows[i]: reading rows the database holds for i

spoolVars == <<age, due>>
storeVars == <<age, due, rows>>

Stored == {i \in Items : age[i] > 0}
Saved  == {i \in Items : rows[i] > 0}

(* What a loss of the process's memory cannot take away. *)
Durable == Stored \cup Saved

SpoolInit ==
    /\ age = [i \in Items |-> 0]
    /\ due = {}
    /\ rows = [i \in Items |-> 0]

-----------------------------------------------------------------------------
(* append() stores the items that are new to the spool, or none of them    *)
(* when they do not all fit.                                               *)

NewToSpool(S) == S \ Stored

Fits_EmptySpool(S) ==         \* mutant: counts the batch, not what is stored
    Cardinality(NewToSpool(S)) <= SpoolMaxItems

Fits(S) == Cardinality(NewToSpool(S)) <= SpoolMaxItems - Cardinality(Stored)

AppendToSpool_Truncates(S) == \* mutant: stores what fits and says it stored all
    \E T \in SUBSET NewToSpool(S) :
        /\ Fits(T)
        /\ age' = [i \in Items |-> IF i \in T THEN 1 ELSE age[i]]
        /\ due' = due \cup T

AppendToSpool(S) ==
    /\ Fits(S)
    /\ age' = [i \in Items |-> IF i \in NewToSpool(S) THEN 1
                             ELSE IF age[i] = 0 \/ NewToSpool(S) = {} THEN age[i]
                             ELSE age[i] + 1]
    /\ due' = due \cup NewToSpool(S)

(* fetch_due(limit): the oldest due entries, as many as limit allows.      *)
IsDueBatch_Short(S, limit) == \* mutant: off by one in the limit
    /\ S \subseteq due
    /\ Cardinality(S) < limit

IsDueBatch(S, limit) ==
    /\ S \subseteq due
    /\ Cardinality(S) <= limit
    /\ S = due \/ Cardinality(S) = limit
    /\ \A i \in S, j \in due \ S : age[i] >= age[j]

(* mark_replayed(): deletes the rows.                                      *)
MarkReplayed_KeepsDue(S) ==   \* mutant: the index still names deleted rows
    /\ age' = [i \in Items |-> IF i \in S THEN 0 ELSE age[i]]
    /\ UNCHANGED due

MarkReplayed(S) ==
    /\ age' = [i \in Items |-> IF i \in S THEN 0 ELSE age[i]]
    /\ due' = due \ S

(* mark_failed(): next_retry_at moves retry_delay_s into the future.       *)
MarkFailed(S) ==
    /\ due' = IF RetryDelayed THEN due \ S ELSE due \cup (S \cap Stored)
    /\ UNCHANGED age

(* The clock reaches the next_retry_at of some postponed entries.          *)
DelayElapses(S) ==
    /\ S # {}
    /\ S \subseteq Stored \ due
    /\ due' = due \cup S
    /\ UNCHANGED <<age, rows>>

-----------------------------------------------------------------------------
(* save_poll_results(): one transaction; event ids that are in the table   *)
(* already are skipped (on conflict do nothing).                           *)
SaveRows_Inserts(S) ==        \* mutant: no conflict clause
    rows' = [i \in Items |-> IF i \in S THEN rows[i] + 1 ELSE rows[i]]

SaveRows(S) ==
    rows' = [i \in Items |-> IF i \in S /\ rows[i] = 0 THEN 1 ELSE rows[i]]

NewReadings_All(S) == S       \* mutant: counts the batch, not the inserted rows

(* Its result: the readings for which the insert made a row.               *)
NewReadings(S) == S \ Saved

-----------------------------------------------------------------------------
(* Type invariant of the stores: only stored entries can be due.           *)
SpoolTypeOK ==
    /\ age \in [Items -> Nat]
    /\ due \subseteq Stored
    /\ rows \in [Items -> Nat]
=============================================================================
