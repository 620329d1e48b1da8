------------------------------ MODULE SpoolCodec ------------------------------
(***************************************************************************)
(* The JSON text of a spooled poll result and what is read back from it    *)
(* (persistence/spool.py).  In JSON a datetime is its ISO string           *)
(* <<"iso", n>>, bytes are a string of base64, and the other payloads, the *)
(* not-a-number of json.dumps included, keep their class.  What reading    *)
(* back refuses is Raised.                                                 *)
(***************************************************************************)
EXTENDS TagReadings

DateTimeToJson(time) == IF time = None THEN None ELSE <<"iso", time[2]>>
DateTimeFromJson(text) == IF text = None THEN None ELSE <<"utc", text[2]>>

ValueToJson(value) ==
    [value_type |-> value.value_type,
     column |-> [value.column EXCEPT !["binary"] = IF @ = None THEN None ELSE <<"str", @[2]>>]]

\* The class each type is read back from; a JSON number may be int or float.
JsonClass == [PayloadClass EXCEPT !["binary"] = {"str"}]

ValueFromJson(json) ==
    LET t == json.value_type
        raw == json.column[t]
    IN  IF raw = None THEN Raised
        ELSE IF raw[1] \notin JsonClass[t] THEN Raised
        ELSE ValueOf(t, IF t = "binary" THEN <<"bytes", raw[2]>> ELSE raw)

ResultToJson_NoSource(r) ==   \* mutant: the source timestamp is not written
    [r EXCEPT !.received_at = DateTimeToJson(@),
              !.source_timestamp = None,
              !.value = IF @ = None THEN None ELSE ValueToJson(@)]

ResultToJson(r) ==
    [r EXCEPT !.received_at = DateTimeToJson(@),
              !.source_timestamp = DateTimeToJson(@),
              !.value = IF @ = None THEN None ELSE ValueToJson(@)]

ResultFromJson(json) ==
    LET value == IF json.value = None THEN None ELSE ValueFromJson(json.value)
    IN  IF value = Raised THEN Raised
        ELSE TagResult(json.tag_id, json.quality, DateTimeFromJson(json.received_at),
                       DateTimeFromJson(json.source_timestamp), value, json.error)

PollResultToJson(poll) ==
    [execution |-> [poll.execution EXCEPT !.started_at = DateTimeToJson(@),
                                          !.finished_at = DateTimeToJson(@)],
     results |-> [i \in DOMAIN poll.results |-> ResultToJson(poll.results[i])]]

PollResultFromJson(json) ==
    LET e == json.execution
        execution ==
            PollExecution(e.execution_id, e.connection_id, e.tag_group_id, e.status,
                          DateTimeFromJson(e.started_at), DateTimeFromJson(e.finished_at),
                          e.requested_tags, e.successful_tags, e.failed_tags, e.error_message)
        results == Gathered([i \in DOMAIN json.results |-> ResultFromJson(json.results[i])])
    IN  IF execution = Raised \/ results = Raised THEN Raised
        ELSE [execution |-> execution, results |-> results]
=============================================================================
