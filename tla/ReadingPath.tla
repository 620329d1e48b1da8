------------------------------ MODULE ReadingPath ------------------------------
(***************************************************************************)
(* The way of a reading from the answer of a PLC to the rows of the        *)
(* database: a process loads its configuration, polls tag groups under it, *)
(* and saves, spools and replays poll results in batches, while it enters  *)
(* the configuration into the tables; it may stop at any moment and start  *)
(* again with another configuration on the same tables and spool.          *)
(*                                                                         *)
(* Composes GatewayConfig, OpcUaReading, SpoolCodec and ReadingTables.     *)
(* Queue, retries and the order of writes are left to DatabaseWriter: here *)
(* any batch may be saved, spooled or replayed at any time.                *)
(***************************************************************************)
EXTENDS OpcUaReading, SpoolCodec, ReadingTables

CONSTANTS
    Malformed, Rejected,
    Polls,         \* execution ids
    Sources,       \* the configuration files with an environment: [file, env]
    Answers,       \* the answers of the PLC
    PollTimes,     \* what the wall clock reads at start, answer and end of a poll
    MaxStarts      \* bound: starts of the process

INSTANCE GatewayConfig

(* Files that have the fields they must have, and answers of the library. *)
ASSUME InputsAreWellFormed ==
    /\ \A s \in Sources :
          (s.file = Malformed \/ s.file \in Files) /\ s.env \in Seq(Overrides)
    /\ \A a \in Answers : IsAnswer(a)
    /\ \A times \in PollTimes : times \in Times \X Times \X Times

(* A constructor that raises can be told from what constructors build.     *)
TagResults ==
    [tag_id : Ids, quality : Qualities, received_at : Times,
     source_timestamp : Times \cup {None}, value : TagValues \cup {None},
     error : Errors \cup {None}]
PollExecutions ==
    [execution_id : Polls, connection_id : Ids, tag_group_id : Ids,
     status : {"success", "failed", "partial_failure"},
     started_at : Times, finished_at : Times, requested_tags : Nat,
     successful_tags : Nat, failed_tags : Nat,
     error_message : Seq(Errors) \cup {None}]
WorkerPollResults == [execution : PollExecutions, results : Seq(TagResults)]

ASSUME RaisedIsNoResult ==
    /\ None \notin Errors \cup Seq(Errors)
    /\ Raised \notin TagValues \cup TagResults \cup Seq(TagResults)
    /\ Raised \notin PollExecutions \cup WorkerPollResults

VARIABLES
    source,   \* file and environment the process was started with, or None
    config,   \* the GatewayConfig it loaded, None when it does not run
    seeding,  \* the table to enter next: 1 connections, 2 tag groups, 3 tags
    starts,
    memory,   \* poll results on their way to the database
    spool,    \* JSON payloads of spooled poll results
    asked,    \* history: what each poll asked, was answered, and when
    polled,   \* history: the result of each poll, or Raised
    seeded    \* history: the configurations whose tables were all entered

processVars == <<source, config, seeding, starts>>
pathVars == <<memory, spool>>
history == <<asked, polled, seeded>>
vars == <<processVars, pathVars, history, tableVars>>

Init ==
    /\ source = None /\ config = None /\ seeding = 1 /\ starts = 0
    /\ memory = {} /\ spool = {}
    /\ asked = [p \in Polls |-> None]
    /\ polled = <<>>
    /\ seeded = {}
    /\ TablesInit

-----------------------------------------------------------------------------
(* The process starts with the configuration it can load, and stops.       *)

Start(s) ==
    /\ config = None
    /\ starts < MaxStarts
    /\ starts' = starts + 1
    /\ LET loaded == LoadGatewayConfig(s.file, s.env)
       IN  /\ loaded # Rejected
           /\ source' = s
           /\ config' = loaded
    /\ seeding' = 1
    /\ UNCHANGED <<pathVars, history, tableVars>>

\* What is in memory is lost, unless it was saved or spooled before.
Stop ==
    /\ config # None
    /\ source' = None /\ config' = None
    /\ memory' = {}
    /\ UNCHANGED <<seeding, starts, spool, history, tableVars>>

Seed ==
    /\ config # None
    /\ \/ seeding = 1 /\ UpsertConnections(config.connections)
       \/ seeding = 2 /\ UpsertTagGroups(config.tag_groups)
       \/ seeding = 3 /\ UpsertTags(config.tags)
    /\ seeding' = seeding + 1
    /\ seeded' = IF seeding = 3 THEN seeded \cup {config} ELSE seeded
    /\ UNCHANGED <<source, config, starts, pathVars, asked, polled>>

-----------------------------------------------------------------------------
(* One poll of a tag group by the worker of its connection.                *)

EnabledTags(group) ==
    Selected(config.tags, {i \in DOMAIN config.tags :
                              /\ config.tags[i].enabled
                              /\ config.tags[i].tag_group_id = group.id})

\* The results: of the driver, or the failures of every tag when it raises.
Results(requests, answers, received) ==
    IF answers = None THEN FailedBatch(requests, "opcua_not_connected", received)
    ELSE LET read == ReadBatch(requests, answers, received)
         IN  IF read = Raised THEN FailedBatch(requests, "ConfigurationError", received)
             ELSE read

PollOf(p, group, requests, answers, times) ==
    LET results == Results(requests, answers, times[2])
    IN  IF results = Raised THEN Raised
        ELSE WorkerPollResult(p, group.connection_id, group.id, Len(requests), results,
                              times[1], times[3])

PollGroup(p, group, answers, times) ==
    LET requests == EnabledTags(group)
        result == PollOf(p, group, requests, answers, times)
    IN  /\ asked' = [asked EXCEPT ![p] =
                        [requests |-> requests, answers |-> answers, times |-> times]]
        /\ polled' = [d \in DOMAIN polled \cup {p} |-> IF d = p THEN result ELSE polled[d]]
        /\ memory' = IF result = Raised THEN memory ELSE memory \cup {result}
        /\ UNCHANGED <<processVars, spool, seeded, tableVars>>

Poll(p) ==
    /\ config # None
    /\ p \notin DOMAIN polled
    /\ \E group \in RowsOf(config.tag_groups), times \in PollTimes :
          /\ group.enabled
          /\ \E answers \in [DOMAIN EnabledTags(group) -> Answers] \cup {None} :
                PollGroup(p, group, answers, times)

-----------------------------------------------------------------------------
(* Batches are saved whole or not at all; the database may also be down.   *)

\* The batch is kept when the writer has given the call up, and its thread
\* commits late: it will be saved again or spooled.
Save(batch) ==
    /\ batch # {}
    /\ \A poll \in batch : IsAccepted(poll)
    /\ SavePollResults(batch)
    /\ memory' \in {memory, memory \ batch}
    /\ UNCHANGED <<processVars, spool, history>>

SpoolBatch(batch) ==
    /\ batch # {}
    /\ spool' = spool \cup {PollResultToJson(poll) : poll \in batch}
    /\ memory' = memory \ batch
    /\ UNCHANGED <<processVars, history, tableVars>>

\* The entries may stay in the spool when the call that deletes them fails.
Replay(entries) ==
    LET batch == {PollResultFromJson(json) : json \in entries}
    IN  /\ config # None
        /\ entries # {}
        /\ Raised \notin batch
        /\ \A poll \in batch : IsAccepted(poll)
        /\ SavePollResults(batch)
        /\ spool' \in {spool, spool \ entries}
        /\ UNCHANGED <<processVars, memory, history>>

-----------------------------------------------------------------------------
Next ==
    \/ \E s \in Sources : Start(s)
    \/ Stop
    \/ Seed
    \/ \E p \in Polls : Poll(p)
    \/ \E batch \in SUBSET memory : Save(batch) \/ SpoolBatch(batch)
    \/ \E entries \in SUBSET spool : Replay(entries)

Spec == Init /\ [][Next]_vars

-----------------------------------------------------------------------------
HasResult(p) == p \in DOMAIN polled /\ polled[p] # Raised

(* spool.append, fetch_due: an entry read back is the poll result that was *)
(* spooled, in every field, whichever types and failures it carries.       *)
SpoolHoldsPolled ==
    \A json \in spool :
        LET p == json.execution.execution_id
        IN  HasResult(p) /\ PollResultFromJson(json) = polled[p]

(* validate_references, upsert_*: a configuration that loads can be        *)
(* entered into the tables, whatever was entered before it and wherever    *)
(* the process stopped while it did so.                                    *)
LoadedIsPersistable ==
    config # None =>
        /\ seeding = 2 => GroupsAccepted(config.tag_groups)
        /\ seeding = 3 => TagsAccepted(config.tags)

(* upsert_*: once the configuration of a poll has been entered, no later   *)
(* one takes away the rows its readings refer to: the database accepts the *)
(* poll, now and after any time in the spool, but for an integer wider     *)
(* than its columns (which UInt64 values may be).                          *)
SeededIsStorable ==
    \A p \in Polls :
        HasResult(p) /\ IsRepresentable(polled[p]) =>
            \A c \in seeded :
                (\E g \in RowsOf(c.tag_groups) :
                    /\ g.id = polled[p].execution.tag_group_id
                    /\ g.connection_id = polled[p].execution.connection_id
                    /\ \A i \in DOMAIN polled[p].results :
                          Has(RowsOf(c.tags), polled[p].results[i].tag_id))
                => IsAccepted(polled[p])

(* save_poll_results: what the execution row says of its poll (requested,  *)
(* successful and failed tags, status, errors) is what the reading rows of *)
(* that poll say, and there is one row for each tag, also after a replay   *)
(* that was not marked and a configuration that was changed in between.    *)
ReadingsOf(e) == {row \in tag_readings : row.event_id[1] = e.execution_id}
ExecutionMatchesReadings ==
    \A e \in poll_executions :
        LET failures == {row \in ReadingsOf(e) : row.error # None}
        IN  /\ \A other \in poll_executions : other.execution_id = e.execution_id => other = e
            /\ Cardinality(ReadingsOf(e)) = e.requested_tags
            /\ Cardinality(failures) = e.failed_tags
            /\ e.successful_tags = e.requested_tags - e.failed_tags
            /\ e.status = IF failures = {} THEN "success"
                          ELSE IF failures = ReadingsOf(e) THEN "failed"
                          ELSE "partial_failure"
            /\ e.error_message # None <=> failures # {}

(* save_poll_results: what is stored is final.  Saving a poll result again,*)
(* by a thread left behind or from the spool, under whichever              *)
(* configuration, updates its execution to what it was and adds no reading.*)
StoredIsFinal ==
    [][/\ poll_executions \subseteq poll_executions'
       /\ tag_readings \subseteq tag_readings'
       /\ \A row \in tag_readings' \ tag_readings :
             \A e \in poll_executions : e.execution_id # row.event_id[1]]_vars

(* _reading_values, the spool codec: a stored reading is that of the poll, *)
(* whichever way it went: its times, its quality, and in the column of its *)
(* type, and no other, its value; a not-a-number alone leaves no trace.    *)
(* A failed reading has a type its tag was given by some configuration,    *)
(* though not always by the one it was polled under.                       *)
StoredAsPolled ==
    \A row \in tag_readings :
        LET r == polled[row.event_id[1]].results[row.event_id[2]]
        IN  /\ row.tag_id = r.tag_id /\ row.quality = r.quality /\ row.error = r.error
            /\ row.received_at[2] = r.received_at[2]
            /\ row.source_timestamp = None <=> r.source_timestamp = None
            /\ r.source_timestamp # None =>
                  row.source_timestamp[2] = r.source_timestamp[2]
            /\ r.value # None =>
                  /\ row.value_type = r.value.value_type
                  /\ row.column[row.value_type] =
                        IF r.value.column[row.value_type] = NotANumber THEN None
                        ELSE r.value.column[row.value_type]
            /\ r.value = None =>
                  \E c \in seeded : \E tag \in RowsOf(c.tags) :
                      tag.id = r.tag_id /\ tag.value_type = row.value_type
            /\ \A c \in ValueTypes : c # row.value_type \/ r.value = None => row.column[c] = None

(* _tag_result_from_data_value, read: a tag the PLC answers with a good or *)
(* uncertain value of its type has a successful reading of that value      *)
(* whatever its neighbours answer, unless there is no connection, or the   *)
(* reserved severity on a neighbour's value makes the whole read raise.    *)
Delivers(tag, answer) ==
    /\ answer.exception = None
    /\ answer.status \in {"good", "uncertain"}
    /\ answer.variant # NoVariant
    /\ answer.variant[1] \in VariantClass[tag.value_type]
NeighboursSurvive ==
    \A p \in Polls :
        HasResult(p) /\ asked[p].answers # None /\ DOMAIN asked[p].requests # {} =>
            LET answers == asked[p].answers
                raises == \E i \in DOMAIN answers :
                              /\ answers[i].exception = None
                              /\ answers[i].status = "reserved"
            IN  \A i \in DOMAIN answers :
                    /\ Delivers(asked[p].requests[i], answers[i]) /\ ~raises =>
                          /\ IsSuccess(polled[p].results[i])
                          /\ polled[p].results[i].quality = answers[i].status
                    /\ IsSuccess(polled[p].results[i]) =>
                          Delivers(asked[p].requests[i], answers[i])

(* The constructors of domain/models.py: none of their validations throws  *)
(* a poll away, except that its end may not be before its start, which the *)
(* wall clock may say when it is set back.                                 *)
OnlyClockLosesPolls ==
    \A p \in DOMAIN polled : polled[p] = Raised => asked[p].times[3][2] < asked[p].times[1][2]

(* _apply_environment_overrides: no override is without effect.  It either *)
(* refuses the whole configuration or, unless a later one names the same   *)
(* field, is what the process runs with: at the last of the connections    *)
(* whose id is its own in upper case, since ids are stripped only later.   *)
OverridesTakeEffect ==
    config # None =>
        LET loaded == config.connections
            SameId(j, o) == Upper(source.file.connections[j].id) = Upper(o.id)
        IN  \A k \in DOMAIN source.env :
                LET o == source.env[k]
                IN  \/ \E l \in DOMAIN source.env :
                          /\ l > k /\ source.env[l].field = o.field
                          /\ Upper(source.env[l].id) = Upper(o.id)
                    \/ \E j \in DOMAIN loaded :
                          /\ SameId(j, o)
                          /\ \A i \in DOMAIN loaded : i > j => ~SameId(i, o)
                          /\ loaded[j][o.field] = Coerced(o)
=============================================================================
