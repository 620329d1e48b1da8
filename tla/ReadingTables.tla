----------------------------- MODULE ReadingTables -----------------------------
(***************************************************************************)
(* The tables (persistence/schema.py) and the repositories that write them *)
(* (persistence/repositories.py).  A table is a set of rows; a method is   *)
(* one transaction.  The configuration rows hold the configuration models  *)
(* as they are.  SQLite checks the foreign keys, refuses an integer wider  *)
(* than its own, and stores a not-a-number as NULL.                        *)
(***************************************************************************)
EXTENDS TagReadings

CONSTANT MaxInteger    \* the widest integer a column takes

VARIABLES connections, tag_groups, tags, poll_executions, tag_readings

configTables == <<connections, tag_groups, tags>>
readingTables == <<poll_executions, tag_readings>>
tableVars == <<configTables, readingTables>>

TablesInit ==
    /\ connections = {} /\ tag_groups = {} /\ tags = {}
    /\ poll_executions = {} /\ tag_readings = {}

Has(table, id) == \E row \in table : row.id = id

-----------------------------------------------------------------------------
(* ConfigurationRepository: insert, on conflict of the id update.          *)

Upserted_Replaces(table, rows) == \* mutant: the table is emptied first
    rows

Upserted(table, rows) == {old \in table : ~Has(rows, old.id)} \cup rows

RowsOf(models) == {models[i] : i \in DOMAIN models}

UpsertConnections(models) ==
    /\ connections' = Upserted(connections, RowsOf(models))
    /\ UNCHANGED <<tag_groups, tags, readingTables>>

GroupsAccepted(models) ==
    \A group \in RowsOf(models) : Has(connections, group.connection_id)

UpsertTagGroups(models) ==
    /\ GroupsAccepted(models)
    /\ tag_groups' = Upserted(tag_groups, RowsOf(models))
    /\ UNCHANGED <<connections, tags, readingTables>>

TagsAccepted(models) == \A tag \in RowsOf(models) : Has(tag_groups, tag.tag_group_id)

UpsertTags(models) ==
    /\ TagsAccepted(models)
    /\ tags' = Upserted(tags, RowsOf(models))
    /\ UNCHANGED <<connections, tag_groups, readingTables>>

-----------------------------------------------------------------------------
(* ReadingRepository.save_poll_results.                                    *)

ToIso(time) == IF time = None THEN None ELSE <<"iso", time[2]>>

\* A failed reading has no type of its own: that of its tag is looked up now.
ReadingValueType(r) ==
    IF r.value # None THEN r.value.value_type
    ELSE (CHOOSE tag \in tags : tag.id = r.tag_id).value_type

NoColumns == [c \in ValueTypes |-> None]

ColumnsOf_AsNumber(r) ==     \* mutant: an integer is stored as a number
    IF r.value = None THEN NoColumns
    ELSE [c \in ValueTypes |-> IF c = "numeric" THEN r.value.column[r.value.value_type]
                               ELSE None]

ColumnsOf(r) ==
    IF r.value = None THEN NoColumns
    ELSE [c \in ValueTypes |->
             IF r.value.column[c] = NotANumber THEN None ELSE r.value.column[c]]

ReadingRow(poll, i) ==
    LET r == poll.results[i]
    IN  [event_id |-> <<poll.execution.execution_id, i>>,
         connection_id |-> poll.execution.connection_id,
         tag_group_id |-> poll.execution.tag_group_id,
         tag_id |-> r.tag_id,
         source_timestamp |-> ToIso(r.source_timestamp), received_at |-> ToIso(r.received_at),
         quality |-> r.quality, value_type |-> ReadingValueType(r), column |-> ColumnsOf(r),
         error |-> r.error]

ReadingRows(poll) == {ReadingRow(poll, i) : i \in DOMAIN poll.results}

ExecutionRow(poll) ==
    [poll.execution EXCEPT !.started_at = ToIso(@), !.finished_at = ToIso(@)]

IsRepresentable(poll) ==
    \A i \in DOMAIN poll.results :
        LET value == poll.results[i].value
        IN  value # None /\ value.value_type = "integer" =>
                value.column["integer"][2] <= MaxInteger

\* The foreign keys, and the value type that a failed reading needs.
KeysKnown(poll) ==
    /\ Has(connections, poll.execution.connection_id)
    /\ Has(tag_groups, poll.execution.tag_group_id)
    /\ \A i \in DOMAIN poll.results : Has(tags, poll.results[i].tag_id)

IsAccepted(poll) == IsRepresentable(poll) /\ KeysKnown(poll)

\* On conflict the columns that name the poll and its start stay as they are.
Updated(old, e) ==
    [old EXCEPT !.status = e.status, !.finished_at = e.finished_at,
                !.requested_tags = e.requested_tags, !.successful_tags = e.successful_tags,
                !.failed_tags = e.failed_tags, !.error_message = e.error_message]

SameExecution(e, other) == e.execution_id = other.execution_id

UpsertedExecutions(rows) ==
    LET conflicts == {c \in poll_executions \X rows : SameExecution(c[1], c[2])}
    IN  {old \in poll_executions : \A e \in rows : ~SameExecution(e, old)}
        \cup {e \in rows : \A old \in poll_executions : ~SameExecution(e, old)}
        \cup {Updated(c[1], c[2]) : c \in conflicts}

\* One transaction: executions are updated on conflict, readings left alone.
SavePollResults_Unkeyed(polls) == \* mutant: the rows of known events are added
    /\ poll_executions' = poll_executions \cup {ExecutionRow(poll) : poll \in polls}
    /\ tag_readings' = tag_readings \cup UNION {ReadingRows(poll) : poll \in polls}
    /\ UNCHANGED configTables

SavePollResults_Replaces(polls) == \* mutant: readings are updated on conflict as well
    LET rows == UNION {ReadingRows(poll) : poll \in polls}
    IN  /\ poll_executions' = UpsertedExecutions({ExecutionRow(poll) : poll \in polls})
        /\ tag_readings' =
              {old \in tag_readings : \A row \in rows : row.event_id # old.event_id} \cup rows
        /\ UNCHANGED configTables

SavePollResults(polls) ==
    LET rows == UNION {ReadingRows(poll) : poll \in polls}
    IN  /\ poll_executions' = UpsertedExecutions({ExecutionRow(poll) : poll \in polls})
        /\ tag_readings' =
              tag_readings \cup {row \in rows :
                  \A old \in tag_readings : old.event_id # row.event_id}
        /\ UNCHANGED configTables
=============================================================================
