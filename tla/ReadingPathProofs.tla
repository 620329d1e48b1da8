--------------------------- MODULE ReadingPathProofs ---------------------------
(***************************************************************************)
(* For any configurations, answers and polls: a spooled poll result is     *)
(* read back as it was, what a configuration has put into the tables once  *)
(* keeps the polls made under it storable, and the rows stored are those   *)
(* of the polls.                                                           *)
(***************************************************************************)
EXTENDS ReadingPath, TLAPS

-----------------------------------------------------------------------------
(* What the constructors of domain/models.py let pass.                     *)

GoodValue(v) ==
    /\ v \in TagValues
    /\ v # Raised
    /\ v = TagValue(v.value_type, v.column)

GoodResult(r) ==
    /\ r = [tag_id |-> r.tag_id, quality |-> r.quality, received_at |-> r.received_at,
            source_timestamp |-> r.source_timestamp, value |-> r.value, error |-> r.error]
    /\ r # Raised
    /\ r.received_at \in Times
    /\ r.source_timestamp \in Times \cup {None}
    /\ r.value = None \/ GoodValue(r.value)
    /\ r = TagResult(r.tag_id, r.quality, r.received_at, r.source_timestamp, r.value, r.error)

GoodResults(results) ==
    /\ results = [i \in DOMAIN results |-> results[i]]
    /\ results # Raised
    /\ \A i \in DOMAIN results : GoodResult(results[i])

GoodExecution(e) ==
    /\ e = PollExecution(e.execution_id, e.connection_id, e.tag_group_id, e.status,
                         e.started_at, e.finished_at, e.requested_tags,
                         e.successful_tags, e.failed_tags, e.error_message)
    /\ e = [execution_id |-> e.execution_id, connection_id |-> e.connection_id,
            tag_group_id |-> e.tag_group_id, status |-> e.status,
            started_at |-> e.started_at, finished_at |-> e.finished_at,
            requested_tags |-> e.requested_tags, successful_tags |-> e.successful_tags,
            failed_tags |-> e.failed_tags, error_message |-> e.error_message]
    /\ e # Raised
    /\ e.started_at \in Times
    /\ e.finished_at \in Times

GoodPoll(poll) ==
    /\ poll = [execution |-> poll.execution, results |-> poll.results]
    /\ GoodExecution(poll.execution)
    /\ GoodResults(poll.results)

-----------------------------------------------------------------------------
(* The spool codec reads back what it wrote.                               *)

LEMMA PairIsValue ==
    ASSUME NEW class \in Classes, NEW n \in Int
    PROVE  <<class, n>> \in Values /\ <<class, n>> # None
<1>1. <<class, n>> \in Classes \X Int
  OBVIOUS
<1> QED
  BY <1>1, NoneIsNoValue DEF Values

LEMMA TimeRoundTrip ==
    ASSUME NEW time \in Times \cup {None}
    PROVE  DateTimeFromJson(DateTimeToJson(time)) = time
<1>1. CASE time = None
  BY <1>1 DEF DateTimeFromJson, DateTimeToJson
<1>2. CASE time \in Times
  <2>1. PICK n \in Int : time = <<"utc", n>>
    BY <1>2 DEF Times
  <2>2. time # None /\ <<"iso", n>> # None
    BY <2>1, PairIsValue DEF Classes
  <2> QED
    BY <2>1, <2>2 DEF DateTimeFromJson, DateTimeToJson
<1> QED
  BY <1>1, <1>2

LEMMA GoodValueParts ==
    ASSUME NEW v, GoodValue(v)
    PROVE  /\ v.column[v.value_type] # None
           /\ v.column[v.value_type] \in Values
           /\ v.column[v.value_type][1] \in PayloadClass[v.value_type]
           /\ \A c \in ValueTypes \ {v.value_type} : v.column[c] = None
BY DEF GoodValue, TagValue, TagValues

LEMMA ValueRoundTrip ==
    ASSUME NEW v, GoodValue(v)
    PROVE  ValueFromJson(ValueToJson(v)) = v
<1> DEFINE t == v.value_type
           raw == v.column[t]
           json == ValueToJson(v)
<1>1. /\ v = [value_type |-> t, column |-> v.column]
      /\ t \in ValueTypes
      /\ v.column \in [ValueTypes -> Values \cup {None}]
      /\ v = TagValue(t, v.column)
  BY DEF GoodValue, TagValues
<1>2. /\ raw # None /\ raw \in Values /\ raw[1] \in PayloadClass[t]
      /\ \A c \in ValueTypes \ {t} : v.column[c] = None
  BY GoodValueParts
<1>3. json.value_type = t
  BY DEF ValueToJson
<1>4. ValueOf(t, raw) = v
  <2>1. v.column = [c \in ValueTypes |-> IF c = t THEN raw ELSE None]
    BY <1>1, <1>2
  <2> QED
    BY <1>1, <2>1 DEF ValueOf
<1>5. CASE t = "binary"
  <2>1. PICK n \in Int : raw = <<"bytes", n>>
    BY <1>2, <1>5 DEF Values, PayloadClass
  <2>2. json.column[t] = <<"str", n>>
    BY <1>1, <1>2, <1>5, <2>1 DEF ValueToJson, ValueTypes
  <2>3. <<"str", n>> # None
    BY PairIsValue DEF Classes
  <2>4. json.column[t][1] \in JsonClass[t]
    BY <1>5, <2>2 DEF JsonClass, PayloadClass
  <2> QED
    BY <1>3, <1>4, <1>5, <2>1, <2>2, <2>3, <2>4 DEF ValueFromJson
<1>6. CASE t # "binary"
  <2>1. json.column[t] = raw
    BY <1>1, <1>6 DEF ValueToJson
  <2>2. raw[1] \in JsonClass[t]
    BY <1>1, <1>2, <1>6 DEF JsonClass, PayloadClass, ValueTypes
  <2> QED
    BY <1>2, <1>3, <1>4, <1>6, <2>1, <2>2 DEF ValueFromJson
<1> QED
  BY <1>5, <1>6

LEMMA ValueToJsonType ==
    ASSUME NEW v, GoodValue(v)
    PROVE  ValueToJson(v) \in TagValues
<1>1. v.value_type \in ValueTypes /\ v.column \in [ValueTypes -> Values \cup {None}]
  BY DEF GoodValue, TagValues
<1>2. v.column["binary"] # None => <<"str", v.column["binary"][2]>> \in Values
  <2> SUFFICES ASSUME v.column["binary"] # None
               PROVE  <<"str", v.column["binary"][2]>> \in Values
    OBVIOUS
  <2>1. v.column["binary"][2] \in Int
    BY <1>1 DEF Values, ValueTypes
  <2> QED
    BY <2>1, PairIsValue DEF Classes
<1> QED
  BY <1>1, <1>2 DEF ValueToJson, TagValues

LEMMA ResultRoundTrip ==
    ASSUME NEW r, GoodResult(r)
    PROVE  ResultFromJson(ResultToJson(r)) = r
<1> DEFINE json == ResultToJson(r)
<1>1. /\ json.tag_id = r.tag_id /\ json.quality = r.quality /\ json.error = r.error
      /\ json.received_at = DateTimeToJson(r.received_at)
      /\ json.source_timestamp = DateTimeToJson(r.source_timestamp)
      /\ json.value = IF r.value = None THEN None ELSE ValueToJson(r.value)
  BY DEF ResultToJson, GoodResult
<1>2. /\ DateTimeFromJson(json.received_at) = r.received_at
      /\ DateTimeFromJson(json.source_timestamp) = r.source_timestamp
  BY <1>1, TimeRoundTrip DEF GoodResult
<1>3. r = TagResult(r.tag_id, r.quality, r.received_at, r.source_timestamp, r.value, r.error)
  BY DEF GoodResult
<1>4. CASE r.value = None
  BY <1>1, <1>2, <1>3, <1>4, NoneIsNoValue DEF ResultFromJson
<1>5. CASE r.value # None
  <2>1. GoodValue(r.value) /\ r.value # Raised
    BY <1>5 DEF GoodResult, GoodValue
  <2>2. json.value # None
    BY <1>1, <1>5, <2>1, ValueToJsonType, NoneIsNoValue
  <2> QED
    BY <1>1, <1>2, <1>3, <1>5, <2>1, <2>2, ValueRoundTrip DEF ResultFromJson
<1> QED
  BY <1>4, <1>5

LEMMA PollRoundTrip ==
    ASSUME NEW poll, GoodPoll(poll)
    PROVE  PollResultFromJson(PollResultToJson(poll)) = poll
<1> DEFINE e == poll.execution
           json == PollResultToJson(poll)
           read == PollExecution(json.execution.execution_id, json.execution.connection_id,
                                 json.execution.tag_group_id, json.execution.status,
                                 DateTimeFromJson(json.execution.started_at),
                                 DateTimeFromJson(json.execution.finished_at),
                                 json.execution.requested_tags,
                                 json.execution.successful_tags,
                                 json.execution.failed_tags, json.execution.error_message)
           results == [i \in DOMAIN json.results |-> ResultFromJson(json.results[i])]
<1>1. json.execution = [e EXCEPT !.started_at = DateTimeToJson(@),
                                 !.finished_at = DateTimeToJson(@)]
  BY DEF PollResultToJson
<1>2. GoodExecution(e) /\ GoodResults(poll.results)
  BY DEF GoodPoll
<1>3. read = e /\ e # Raised
  <2>1. /\ DateTimeFromJson(DateTimeToJson(e.started_at)) = e.started_at
        /\ DateTimeFromJson(DateTimeToJson(e.finished_at)) = e.finished_at
    BY <1>2, TimeRoundTrip DEF GoodExecution
  <2>2. /\ json.execution.execution_id = e.execution_id
        /\ json.execution.connection_id = e.connection_id
        /\ json.execution.tag_group_id = e.tag_group_id
        /\ json.execution.status = e.status
        /\ json.execution.started_at = DateTimeToJson(e.started_at)
        /\ json.execution.finished_at = DateTimeToJson(e.finished_at)
        /\ json.execution.requested_tags = e.requested_tags
        /\ json.execution.successful_tags = e.successful_tags
        /\ json.execution.failed_tags = e.failed_tags
        /\ json.execution.error_message = e.error_message
    BY <1>1, <1>2 DEF GoodExecution
  <2> QED
    BY <1>2, <2>1, <2>2 DEF GoodExecution
<1>4. json.results = [i \in DOMAIN poll.results |-> ResultToJson(poll.results[i])]
  BY DEF PollResultToJson
<1>5. results = poll.results
  <2>1. \A i \in DOMAIN poll.results :
            ResultFromJson(ResultToJson(poll.results[i])) = poll.results[i]
    BY <1>2, ResultRoundTrip DEF GoodResults
  <2> QED
    BY <1>2, <1>4, <2>1 DEF GoodResults
<1>6. Gathered(results) = poll.results /\ poll.results # Raised
  BY <1>2, <1>5 DEF Gathered, GoodResults, GoodResult
<1>7. PollResultFromJson(json) =
          IF read = Raised \/ Gathered(results) = Raised THEN Raised
          ELSE [execution |-> read, results |-> Gathered(results)]
  BY DEF PollResultFromJson
<1>8. poll = [execution |-> poll.execution, results |-> poll.results]
  BY DEF GoodPoll
<1> QED
  BY <1>3, <1>6, <1>7, <1>8

-----------------------------------------------------------------------------
(* A poll that is not lost is a good one.                                  *)

LEMMA ValueOfIsGood ==
    ASSUME NEW t, NEW raw \in Values, ValueOf(t, raw) # Raised
    PROVE  GoodValue(ValueOf(t, raw))
<1> DEFINE column == [c \in ValueTypes |-> IF c = t THEN raw ELSE None]
           kept == [column EXCEPT ![t] = Normalised(t, @)]
           v == ValueOf(t, raw)
<1>1. v = TagValue(t, column)
  BY DEF ValueOf
<1>2. /\ t \in ValueTypes /\ raw # None /\ raw[1] \in PayloadClass[t]
      /\ v = [value_type |-> t, column |-> kept]
  BY <1>1 DEF TagValue
<1>3. /\ Normalised(t, raw) \in Values
      /\ Normalised(t, raw)[1] \in PayloadClass[t]
      /\ Normalised(t, Normalised(t, raw)) = Normalised(t, raw)
  <2>1. PICK class \in Classes, n \in Int : raw = <<class, n>>
    BY DEF Values
  <2>2. CASE t = "numeric"
    BY <2>1, <2>2, PairIsValue DEF Normalised, Float, PayloadClass, Classes
  <2>3. CASE t # "numeric"
    BY <1>2, <2>3 DEF Normalised
  <2> QED
    BY <2>2, <2>3
<1>4. Normalised(t, raw) # None
  BY <1>3, NoneIsNoValue
<1>5. kept \in [ValueTypes -> Values \cup {None}]
  BY <1>2, <1>3
<1>6. v \in TagValues
  BY <1>2, <1>5 DEF TagValues
<1>7. TagValue(t, kept) = [value_type |-> t, column |-> kept]
  <2>1. kept[t] = Normalised(t, raw) /\ \A c \in ValueTypes \ {t} : kept[c] = None
    BY <1>2
  <2>2. [kept EXCEPT ![t] = Normalised(t, @)] = kept
    BY <1>3, <1>5, <2>1
  <2> QED
    BY <1>2, <1>3, <1>4, <2>1, <2>2 DEF TagValue
<1> QED
  BY <1>2, <1>6, <1>7 DEF GoodValue

LEMMA TagResultIsGood ==
    ASSUME NEW tag, NEW quality, NEW error,
           NEW received \in Times, NEW sourced \in Times \cup {None},
           NEW value, value = None \/ GoodValue(value),
           TagResult(tag, quality, received, sourced, value, error) # Raised
    PROVE  GoodResult(TagResult(tag, quality, received, sourced, value, error))
<1> DEFINE r == TagResult(tag, quality, received, sourced, value, error)
<1>1. r = [tag_id |-> tag, quality |-> quality, received_at |-> received,
           source_timestamp |-> sourced, value |-> value, error |-> error]
  BY DEF TagResult
<1> QED
  BY <1>1 DEF GoodResult

LEMMA FaultsAreErrors == Faults \subseteq Errors /\ None \notin Faults
BY RaisedIsNoResult DEF Errors

LEMMA ReadTagIsGood ==
    ASSUME NEW tag, NEW t, NEW received \in Times, NEW a, IsAnswer(a),
           ReadTag(tag, t, a, received) # Raised
    PROVE  GoodResult(ReadTag(tag, t, a, received))
<1> DEFINE v == TagValueFromVariant(t, a.variant)
<1>1. CASE a.exception # None
  BY <1>1, TagResultIsGood DEF ReadTag, Failure
<1>2. CASE a.exception = None
  <2>1. a.variant \in Values \cup {NoVariant} /\ a.source \in Times \cup {None}
    BY <1>2, FaultsAreErrors DEF IsAnswer
  <2>2. ReadTag(tag, t, a, received) = TagResultFromDataValue(tag, t, a, received)
    BY <1>2 DEF ReadTag
  <2>3. \A error : Failure(tag, error, received, a.source) # Raised =>
                      GoodResult(Failure(tag, error, received, a.source))
    BY <2>1, TagResultIsGood DEF Failure
  <2>4. a.variant \in Values /\ v # Raised => GoodValue(v)
    <3> SUFFICES ASSUME a.variant \in Values, v # Raised PROVE GoodValue(v)
      OBVIOUS
    <3>1. PICK class \in Classes, n \in Int : a.variant = <<class, n>>
      BY DEF Values
    <3>2. <<"bytes", n>> \in Values
      BY PairIsValue DEF Classes
    <3> QED
      BY <3>1, <3>2, ValueOfIsGood DEF TagValueFromVariant
  <2>5. \A at \in Times \cup {None} : \A quality :
            /\ GoodValue(v)
            /\ Success(tag, v, at, received, quality) # Raised
            => GoodResult(Success(tag, v, at, received, quality))
    BY TagResultIsGood DEF Success
  <2>6. (IF a.source = None THEN received ELSE a.source) \in Times \cup {None}
    BY <2>1
  <2> QED
    BY <2>1, <2>2, <2>3, <2>4, <2>5, <2>6 DEF TagResultFromDataValue, ValueMismatch
<1> QED
  BY <1>1, <1>2

LEMMA ResultsAreGood ==
    ASSUME NEW requests, NEW received \in Times,
           NEW answers \in [DOMAIN requests -> Answers] \cup {None},
           Results(requests, answers, received) # Raised
    PROVE  GoodResults(Results(requests, answers, received))
<1>1. \A error : FailedBatch(requests, error, received) # Raised =>
                    GoodResults(FailedBatch(requests, error, received))
  <2> SUFFICES ASSUME NEW error, FailedBatch(requests, error, received) # Raised
               PROVE  GoodResults(FailedBatch(requests, error, received))
    OBVIOUS
  <2> DEFINE F(i) == Failure(requests[i].id, error, received, None)
  <2>1. \A i \in DOMAIN requests : F(i) # Raised => GoodResult(F(i))
    BY TagResultIsGood DEF Failure
  <2>2. FailedBatch(requests, error, received) =
            Gathered([i \in DOMAIN requests |-> F(i)])
    BY DEF FailedBatch
  <2> HIDE DEF F
  <2> QED
    BY <2>1, <2>2 DEF Gathered, GoodResults
<1>2. ASSUME answers # None, ReadBatch(requests, answers, received) # Raised
      PROVE  GoodResults(ReadBatch(requests, answers, received))
  <2> DEFINE F(i) == ReadTag(requests[i].id, requests[i].value_type, answers[i], received)
  <2>1. \A i \in DOMAIN requests : F(i) # Raised => GoodResult(F(i))
    BY <1>2, ReadTagIsGood, InputsAreWellFormed
  <2>2. ReadBatch(requests, answers, received) = Gathered([i \in DOMAIN requests |-> F(i)])
    BY DEF ReadBatch
  <2> HIDE DEF F
  <2> QED
    BY <1>2, <2>1, <2>2 DEF Gathered, GoodResults
<1> QED
  BY <1>1, <1>2 DEF Results

LEMMA PollIsGood ==
    ASSUME NEW p, NEW group, NEW requests, NEW times \in PollTimes,
           NEW answers \in [DOMAIN requests -> Answers] \cup {None},
           PollOf(p, group, requests, answers, times) # Raised
    PROVE  /\ GoodPoll(PollOf(p, group, requests, answers, times))
           /\ PollOf(p, group, requests, answers, times).execution.execution_id = p
<1> DEFINE results == Results(requests, answers, times[2])
           execution == PollExecution(p, group.connection_id, group.id,
                            PollStatus(results), times[1], times[3], Len(requests),
                            Cardinality(Succeeded(results)),
                            Cardinality(FailedOf(results)), PollErrors(results))
<1>1. times[1] \in Times /\ times[2] \in Times /\ times[3] \in Times
  BY InputsAreWellFormed
<1>2. results # Raised /\ execution # Raised
      /\ PollOf(p, group, requests, answers, times) =
            [execution |-> execution, results |-> results]
  BY DEF PollOf, WorkerPollResult
<1>3. GoodResults(results)
  BY <1>1, <1>2, ResultsAreGood
<1>4. GoodExecution(execution) /\ execution.execution_id = p
  <2> DEFINE status == PollStatus(results)
             requested == Len(requests)
             successful == Cardinality(Succeeded(results))
             failed == Cardinality(FailedOf(results))
             errors == PollErrors(results)
  <2> HIDE DEF results, status, requested, successful, failed, errors
  <2> QED
    BY <1>1, <1>2 DEF PollExecution, GoodExecution
<1> QED
  BY <1>2, <1>3, <1>4 DEF GoodPoll

-----------------------------------------------------------------------------
(* Memory and spool hold results of polls, the spool as JSON.              *)

PolledInv ==
    \A p \in Polls : HasResult(p) =>
        GoodPoll(polled[p]) /\ polled[p].execution.execution_id = p

OfAPoll(poll) == \E p \in Polls : HasResult(p) /\ poll = polled[p]
JsonOfAPoll(json) == \E p \in Polls : HasResult(p) /\ json = PollResultToJson(polled[p])

PathInv ==
    /\ PolledInv
    /\ \A poll \in memory : OfAPoll(poll)
    /\ \A json \in spool : JsonOfAPoll(json)

LEMMA PathInit == Init => PathInv
BY DEF Init, PathInv, PolledInv, HasResult

LEMMA PathPoll ==
    ASSUME PathInv, NEW p \in Polls, Poll(p)
    PROVE  PathInv'
<1>1. PICK group \in RowsOf(config.tag_groups), times \in PollTimes :
          \E answers \in [DOMAIN EnabledTags(group) -> Answers] \cup {None} :
              PollGroup(p, group, answers, times)
  BY DEF Poll
<1>2. PICK answers \in [DOMAIN EnabledTags(group) -> Answers] \cup {None} :
          PollGroup(p, group, answers, times)
  BY <1>1
<1> DEFINE result == PollOf(p, group, EnabledTags(group), answers, times)
<1>3. /\ p \notin DOMAIN polled
      /\ polled' = [d \in DOMAIN polled \cup {p} |->
                       IF d = p THEN result ELSE polled[d]]
      /\ memory' = IF result = Raised THEN memory ELSE memory \cup {result}
      /\ spool' = spool
  BY <1>2 DEF PollGroup, Poll
<1>4. result # Raised => GoodPoll(result) /\ result.execution.execution_id = p
  BY PollIsGood
<1> HIDE DEF result
<1>5. PolledInv'
  BY <1>3, <1>4 DEF PathInv, PolledInv, HasResult
<1>6. \A poll : OfAPoll(poll) => OfAPoll(poll)'
  BY <1>3 DEF OfAPoll, HasResult
<1>7. \A json : JsonOfAPoll(json) => JsonOfAPoll(json)'
  BY <1>3 DEF JsonOfAPoll, HasResult
<1>8. \A poll : poll = result /\ result # Raised => OfAPoll(poll)'
  BY <1>3 DEF OfAPoll, HasResult
<1>9. \A poll \in memory' : OfAPoll(poll)'
  BY <1>3, <1>6, <1>8 DEF PathInv
<1>10. \A json \in spool' : JsonOfAPoll(json)'
  BY <1>3, <1>7 DEF PathInv
<1> QED
  BY <1>5, <1>9, <1>10 DEF PathInv

LEMMA PathStep ==
    ASSUME PathInv, [Next]_vars
    PROVE  PathInv'
<1>1. ASSUME polled' = polled, memory' \subseteq memory, spool' \subseteq spool
      PROVE  PathInv'
  BY <1>1 DEF PathInv, PolledInv, OfAPoll, JsonOfAPoll, HasResult
<1>2. ASSUME NEW s \in Sources, Start(s) PROVE PathInv'
  BY <1>1, <1>2 DEF Start, pathVars, history
<1>3. CASE Stop
  BY <1>1, <1>3 DEF Stop, history
<1>4. CASE Seed
  BY <1>1, <1>4 DEF Seed, pathVars
<1>5. ASSUME NEW p \in Polls, Poll(p) PROVE PathInv'
  BY <1>5, PathPoll
<1>6. ASSUME NEW batch \in SUBSET memory, Save(batch) PROVE PathInv'
  BY <1>1, <1>6 DEF Save, history
<1>7. ASSUME NEW batch \in SUBSET memory, SpoolBatch(batch) PROVE PathInv'
  <2>1. /\ polled' = polled /\ memory' \subseteq memory
        /\ spool' = spool \cup {PollResultToJson(poll) : poll \in batch}
    BY <1>7 DEF SpoolBatch, history
  <2>2. \A poll \in batch : JsonOfAPoll(PollResultToJson(poll))
    BY <1>7 DEF PathInv, OfAPoll, JsonOfAPoll
  <2>3. \A json : JsonOfAPoll(json) => JsonOfAPoll(json)'
    BY <2>1 DEF JsonOfAPoll, HasResult
  <2>4. \A json \in spool' : JsonOfAPoll(json)
    BY <2>1, <2>2 DEF PathInv
  <2> QED
    BY <2>1, <2>3, <2>4 DEF PathInv, PolledInv, OfAPoll, HasResult
<1>8. ASSUME NEW entries \in SUBSET spool, Replay(entries) PROVE PathInv'
  BY <1>1, <1>8 DEF Replay, history
<1>9. CASE UNCHANGED vars
  BY <1>1, <1>9 DEF vars, pathVars, history
<1> QED
  BY <1>2, <1>3, <1>4, <1>5, <1>6, <1>7, <1>8, <1>9 DEF Next

(* An entry of the spool is the poll result it was made of, whatever its   *)
(* values, times, types and failures: encoding it and decoding it again is *)
(* the identity on everything the constructors let pass.                   *)
THEOREM SpoolIsFaithful == Spec => []SpoolHoldsPolled
<1>1. PathInv => SpoolHoldsPolled
  <2> SUFFICES ASSUME PathInv, NEW json \in spool
               PROVE  LET p == json.execution.execution_id
                      IN  HasResult(p) /\ PollResultFromJson(json) = polled[p]
    BY DEF SpoolHoldsPolled
  <2>1. PICK p \in Polls : HasResult(p) /\ json = PollResultToJson(polled[p])
    BY DEF PathInv, JsonOfAPoll
  <2>2. GoodPoll(polled[p]) /\ polled[p].execution.execution_id = p
    BY <2>1 DEF PathInv, PolledInv
  <2>3. json.execution.execution_id = p
    BY <2>1, <2>2 DEF PollResultToJson, GoodPoll, GoodExecution
  <2> QED
    BY <2>1, <2>2, <2>3, PollRoundTrip
<1> QED
  BY <1>1, PathInit, PathStep, PTL DEF Spec

-----------------------------------------------------------------------------
(* The configurations and the tables.                                      *)

LEMMA UpsertEnters ==
    ASSUME NEW table, NEW rows, NEW row \in rows
    PROVE  Has(Upserted(table, rows), row.id)
BY DEF Has, Upserted

LEMMA UpsertKeeps ==
    ASSUME NEW table, NEW rows, NEW id, Has(table, id)
    PROVE  Has(Upserted(table, rows), id)
BY DEF Has, Upserted

(* References that a loaded configuration has resolved. *)
Consistent(c) ==
    /\ \A group \in RowsOf(c.tag_groups) : Has(RowsOf(c.connections), group.connection_id)
    /\ \A tag \in RowsOf(c.tags) : Has(RowsOf(c.tag_groups), tag.tag_group_id)

LEMMA ElementOfSeq ==
    ASSUME NEW S, NEW seq \in Seq(S), NEW i \in DOMAIN seq
    PROVE  seq[i] \in S
OBVIOUS

LEMMA OverridesKeepIds ==
    ASSUME NEW file \in Files, NEW env
    PROVE  LET model == ApplyEnvironmentOverrides(file, env)
           IN  /\ model.tag_groups = file.tag_groups /\ model.tags = file.tags
               /\ DOMAIN model.connections = DOMAIN file.connections
               /\ \A j \in DOMAIN file.connections :
                     /\ model.connections[j].id = file.connections[j].id
                     /\ "id" \in DOMAIN model.connections[j]
<1>1. file \in [connections : Seq(ConnectionModels), tag_groups : Seq(TagGroupModels),
                tags : Seq(TagModels)]
  BY DEF Files
<1>2. \A j \in DOMAIN file.connections : file.connections[j] \in ConnectionModels
  BY <1>1, ElementOfSeq
<1> QED
  BY <1>1, <1>2 DEF ApplyEnvironmentOverrides, ConnectionModels

LEMMA LoadedIsConsistent ==
    ASSUME NEW s \in Sources, LoadGatewayConfig(s.file, s.env) # Rejected
    PROVE  Consistent(LoadGatewayConfig(s.file, s.env))
<1> DEFINE file == s.file
           model == ApplyEnvironmentOverrides(file, s.env)
           c == ToDomain(model)
<1>1. file \in Files /\ ValidReferences(model)
      /\ LoadGatewayConfig(s.file, s.env) = c
  BY InputsAreWellFormed DEF LoadGatewayConfig
<1>2. /\ model.tag_groups = file.tag_groups /\ model.tags = file.tags
      /\ DOMAIN model.connections = DOMAIN file.connections
      /\ \A j \in DOMAIN model.connections : "id" \in DOMAIN model.connections[j]
  BY <1>1, OverridesKeepIds
<1>3. \A i \in DOMAIN model.tag_groups :
          model.tag_groups[i] \in TagGroupModels
  BY <1>1, <1>2, ElementOfSeq DEF Files
<1>4. \A i \in DOMAIN model.tags :
          model.tags[i] \in TagModels
  BY <1>1, <1>2, ElementOfSeq DEF Files
<1> HIDE DEF model
<1>5. /\ DOMAIN c.connections = DOMAIN model.connections
      /\ \A j \in DOMAIN c.connections : c.connections[j].id = Strip(model.connections[j].id)
  BY <1>2 DEF ToDomain
<1>6. /\ DOMAIN c.tag_groups = DOMAIN model.tag_groups
      /\ \A i \in DOMAIN c.tag_groups :
            /\ c.tag_groups[i].id = Strip(model.tag_groups[i].id)
            /\ c.tag_groups[i].connection_id = Strip(model.tag_groups[i].connection_id)
  BY <1>3 DEF ToDomain, TagGroupModels
<1>7. /\ DOMAIN c.tags = DOMAIN model.tags
      /\ \A i \in DOMAIN c.tags :
            c.tags[i].tag_group_id = Strip(model.tags[i].tag_group_id)
  BY <1>4 DEF ToDomain, TagModels
<1> HIDE DEF c
<1>8. \A group \in RowsOf(c.tag_groups) : Has(RowsOf(c.connections), group.connection_id)
  BY <1>1, <1>5, <1>6 DEF ValidReferences, Refers, RowsOf, Has
<1>9. \A tag \in RowsOf(c.tags) : Has(RowsOf(c.tag_groups), tag.tag_group_id)
  BY <1>1, <1>6, <1>7 DEF ValidReferences, Refers, RowsOf, Has
<1> QED
  BY <1>1, <1>8, <1>9 DEF Consistent

(* What has been entered of a configuration stays in the tables. *)
ConnectionsKnown(c) == \A row \in RowsOf(c.connections) : Has(connections, row.id)
GroupsEntered(c) ==
    \A group \in RowsOf(c.tag_groups) :
        Has(tag_groups, group.id) /\ Has(connections, group.connection_id)
TagsEntered(c) == \A tag \in RowsOf(c.tags) : Has(tags, tag.id)

TablesInv ==
    /\ seeding \in 1 .. 4
    /\ config # None =>
          /\ Consistent(config)
          /\ seeding > 1 => ConnectionsKnown(config)
          /\ seeding > 2 => GroupsEntered(config)
    /\ \A c \in seeded : GroupsEntered(c) /\ TagsEntered(c)

TablesGrow ==
    \A id : /\ Has(connections, id) => Has(connections, id)'
            /\ Has(tag_groups, id) => Has(tag_groups, id)'
            /\ Has(tags, id) => Has(tags, id)'

LEMMA EnteredStays ==
    ASSUME TablesGrow, NEW c
    PROVE  /\ ConnectionsKnown(c) => ConnectionsKnown(c)'
           /\ GroupsEntered(c) => GroupsEntered(c)'
           /\ TagsEntered(c) => TagsEntered(c)'
BY DEF TablesGrow, ConnectionsKnown, GroupsEntered, TagsEntered

LEMMA SeedKeeps ==
    ASSUME TablesInv, Seed
    PROVE  TablesInv'
<1>1. CASE seeding = 1 /\ UpsertConnections(config.connections)
  <2>1. TablesGrow
    <3>1. \A id : Has(connections, id) => Has(connections', id)
      BY <1>1, UpsertKeeps DEF UpsertConnections
    <3> QED
      BY <1>1, <3>1 DEF TablesGrow, UpsertConnections, Has
  <2>2. ConnectionsKnown(config)'
    <3>1. \A row \in RowsOf(config.connections) :
              Has(Upserted(connections, RowsOf(config.connections)), row.id)
      BY UpsertEnters
    <3> QED
      BY <1>1, <3>1 DEF Seed, UpsertConnections, ConnectionsKnown, RowsOf, Has
  <2> QED
    BY <1>1, <2>1, <2>2, EnteredStays DEF TablesInv, Seed, RowsOf, Has, Consistent
<1>2. CASE seeding = 2 /\ UpsertTagGroups(config.tag_groups)
  <2>1. TablesGrow
    <3>1. \A id : Has(tag_groups, id) => Has(tag_groups', id)
      BY <1>2, UpsertKeeps DEF UpsertTagGroups
    <3> QED
      BY <1>2, <3>1 DEF TablesGrow, UpsertTagGroups, Has
  <2>2. GroupsEntered(config)'
    <3>1. \A row \in RowsOf(config.tag_groups) :
              Has(Upserted(tag_groups, RowsOf(config.tag_groups)), row.id)
      BY UpsertEnters
    <3> QED
      BY <1>2, <3>1 DEF Seed, UpsertTagGroups, GroupsAccepted, GroupsEntered, RowsOf, Has
  <2> QED
    BY <1>2, <2>1, <2>2, EnteredStays DEF TablesInv, Seed, RowsOf, Has, Consistent
<1>3. CASE seeding = 3 /\ UpsertTags(config.tags)
  <2>1. TablesGrow
    <3>1. \A id : Has(tags, id) => Has(tags', id)
      BY <1>3, UpsertKeeps DEF UpsertTags
    <3> QED
      BY <1>3, <3>1 DEF TablesGrow, UpsertTags, Has
  <2>2. TagsEntered(config)'
    <3>1. \A row \in RowsOf(config.tags) :
              Has(Upserted(tags, RowsOf(config.tags)), row.id)
      BY UpsertEnters
    <3> QED
      BY <1>3, <3>1 DEF Seed, UpsertTags, TagsEntered, RowsOf, Has
  <2>3. GroupsEntered(config)'
    BY <1>3, <2>1, EnteredStays DEF TablesInv, Seed
  <2> QED
    BY <1>3, <2>1, <2>2, <2>3, EnteredStays DEF TablesInv, Seed, RowsOf, Has, Consistent
<1> QED
  BY <1>1, <1>2, <1>3 DEF Seed

LEMMA TablesStep ==
    ASSUME TablesInv, [Next]_vars
    PROVE  TablesInv'
<1>1. ASSUME UNCHANGED <<config, seeding, seeded, configTables>>
      PROVE  TablesInv'
  BY <1>1 DEF TablesInv, configTables, Consistent, ConnectionsKnown, GroupsEntered,
              TagsEntered, RowsOf, Has
<1>2. ASSUME NEW s \in Sources, Start(s) PROVE TablesInv'
  <2>1. /\ seeding' = 1 /\ Consistent(config')
        /\ UNCHANGED <<seeded, configTables>>
    BY <1>2, LoadedIsConsistent DEF Start, history, tableVars
  <2>2. TablesGrow
    BY <2>1 DEF TablesGrow, configTables, Has
  <2> QED
    BY <2>1, <2>2, EnteredStays DEF TablesInv, Consistent, RowsOf, Has
<1>3. CASE Stop
  <2>1. config' = None /\ UNCHANGED <<seeding, seeded, configTables>>
    BY <1>3 DEF Stop, history, tableVars
  <2>2. TablesGrow
    BY <2>1 DEF TablesGrow, configTables, Has
  <2> QED
    BY <2>1, <2>2, EnteredStays DEF TablesInv
<1>4. CASE Seed
  BY <1>4, SeedKeeps
<1>5. ASSUME NEW p \in Polls, Poll(p) PROVE TablesInv'
  BY <1>1, <1>5 DEF Poll, PollGroup, processVars, tableVars
<1>6. ASSUME NEW batch \in SUBSET memory, Save(batch) \/ SpoolBatch(batch) PROVE TablesInv'
  BY <1>1, <1>6 DEF Save, SpoolBatch, SavePollResults, processVars, history, tableVars
<1>7. ASSUME NEW entries \in SUBSET spool, Replay(entries) PROVE TablesInv'
  BY <1>1, <1>7 DEF Replay, SavePollResults, processVars, history
<1>8. CASE UNCHANGED vars
  BY <1>1, <1>8 DEF vars, processVars, history, tableVars
<1> QED
  BY <1>2, <1>3, <1>4, <1>5, <1>6, <1>7, <1>8 DEF Next

LEMMA TablesInvariant == Spec => []TablesInv
<1>1. Init => TablesInv
  BY DEF Init, TablesInv, TablesInit
<1> QED
  BY <1>1, TablesStep, PTL DEF Spec

(* What a configuration has put into the tables once, no later one removes: *)
(* a poll made under it is accepted by save_poll_results at any later time, *)
(* unless it carries an integer too wide for its column.                    *)
THEOREM SeededStaysStorable == Spec => []SeededIsStorable
<1>1. TablesInv => SeededIsStorable
  BY DEF TablesInv, GroupsEntered, TagsEntered, SeededIsStorable, IsAccepted, KeysKnown, Has
<1> QED
  BY <1>1, TablesInvariant, PTL

(* No foreign key of the configuration tables refuses a configuration that  *)
(* validate_references let pass, wherever an earlier process stopped.       *)
THEOREM LoadedCanBeEntered == Spec => []LoadedIsPersistable
<1>1. TablesInv => LoadedIsPersistable
  BY DEF TablesInv, Consistent, ConnectionsKnown, GroupsEntered, LoadedIsPersistable,
         GroupsAccepted, TagsAccepted, Has
<1> QED
  BY <1>1, TablesInvariant, PTL

-----------------------------------------------------------------------------
(* The reading rows.                                                       *)

(* What StoredAsPolled says of a row and the result it is made of. *)
RowMatches(row, r) ==
    /\ row.tag_id = r.tag_id /\ row.quality = r.quality /\ row.error = r.error
    /\ row.received_at[2] = r.received_at[2]
    /\ row.source_timestamp = None <=> r.source_timestamp = None
    /\ r.source_timestamp # None =>
          row.source_timestamp[2] = r.source_timestamp[2]
    /\ r.value # None =>
          /\ row.value_type = r.value.value_type
          /\ row.column[row.value_type] =
                IF r.value.column[row.value_type] = NotANumber THEN None
                ELSE r.value.column[row.value_type]
    /\ r.value = None =>
          \E c \in seeded : \E tag \in RowsOf(c.tags) :
              tag.id = r.tag_id /\ tag.value_type = row.value_type
    /\ \A c \in ValueTypes : c # row.value_type \/ r.value = None => row.column[c] = None

RowIsOfAPoll(row) ==
    \E p \in Polls :
        /\ HasResult(p)
        /\ \E i \in DOMAIN polled[p].results :
              row.event_id = <<p, i>> /\ RowMatches(row, polled[p].results[i])

TagsInv == \A row \in tags : \E c \in seeded : row \in RowsOf(c.tags)

RowsInv == TagsInv /\ \A row \in tag_readings : RowIsOfAPoll(row)

LEMMA ToIsoKeeps ==
    ASSUME NEW time \in Times \cup {None}
    PROVE  /\ ToIso(time) = None <=> time = None
           /\ time # None => ToIso(time)[2] = time[2]
<1>1. CASE time = None
  BY <1>1 DEF ToIso
<1>2. CASE time # None
  <2>1. PICK n \in Int : time = <<"utc", n>>
    BY <1>2 DEF Times
  <2>2. <<"iso", n>> # None
    BY PairIsValue DEF Classes
  <2> QED
    BY <1>2, <2>1, <2>2 DEF ToIso
<1> QED
  BY <1>1, <1>2

LEMMA RowIsFaithful ==
    ASSUME TagsInv, NEW poll, GoodPoll(poll), KeysKnown(poll),
           NEW i \in DOMAIN poll.results
    PROVE  RowMatches(ReadingRow(poll, i), poll.results[i])
<1> DEFINE r == poll.results[i]
           row == ReadingRow(poll, i)
<1>1. GoodResult(r)
  BY DEF GoodPoll, GoodResults
<1>2. /\ row.tag_id = r.tag_id /\ row.quality = r.quality /\ row.error = r.error
      /\ row.received_at = ToIso(r.received_at)
      /\ row.source_timestamp = ToIso(r.source_timestamp)
      /\ row.value_type = ReadingValueType(r)
      /\ row.column = ColumnsOf(r)
  BY DEF ReadingRow
<1>3. /\ row.received_at[2] = r.received_at[2]
      /\ row.source_timestamp = None <=> r.source_timestamp = None
      /\ r.source_timestamp # None => row.source_timestamp[2] = r.source_timestamp[2]
  <2>1. r.received_at \in Times /\ r.source_timestamp \in Times \cup {None}
    BY <1>1 DEF GoodResult
  <2>2. r.received_at # None
    BY <2>1, NoneIsNoValue DEF Times, Values, Classes
  <2> QED
    BY <1>2, <2>1, <2>2, ToIsoKeeps
<1> SUFFICES RowMatches(row, r)
  OBVIOUS
<1> HIDE DEF row
<1>4. CASE r.value = None
  <2>1. PICK tag \in tags : tag.id = r.tag_id
    BY DEF KeysKnown, Has
  <2> DEFINE known == CHOOSE t \in tags : t.id = r.tag_id
  <2>2. known \in tags /\ known.id = r.tag_id
    BY <2>1
  <2>3. row.value_type = known.value_type
    BY <1>2, <1>4 DEF ReadingValueType
  <2> HIDE DEF known
  <2>4. \E c \in seeded : \E t \in RowsOf(c.tags) :
            t.id = r.tag_id /\ t.value_type = row.value_type
    BY <2>2, <2>3 DEF TagsInv
  <2>5. \A c \in ValueTypes : row.column[c] = None
    BY <1>2, <1>4 DEF ColumnsOf, NoColumns
  <2> QED
    BY <1>2, <1>3, <1>4, <2>4, <2>5 DEF RowMatches
<1>5. CASE r.value # None
  <2>1. GoodValue(r.value)
    BY <1>1, <1>5 DEF GoodResult
  <2>2. row.value_type = r.value.value_type /\ row.value_type \in ValueTypes
    BY <1>2, <1>5, <2>1 DEF ReadingValueType, GoodValue, TagValues
  <2>3. \A c \in ValueTypes : c # row.value_type => r.value.column[c] = None
    BY <2>1, <2>2, GoodValueParts
  <2>4. \A c \in ValueTypes :
            row.column[c] = IF r.value.column[c] = NotANumber THEN None
                            ELSE r.value.column[c]
    BY <1>2, <1>5 DEF ColumnsOf
  <2>5. \A c \in ValueTypes : c # row.value_type => row.column[c] = None
    BY <2>3, <2>4
  <2> QED
    BY <1>2, <1>3, <1>5, <2>2, <2>4, <2>5 DEF RowMatches
<1> QED
  BY <1>4, <1>5

(* A batch of poll results of polls adds rows of polls. *)
LEMMA SaveKeepsRows ==
    ASSUME PathInv, RowsInv, NEW batch, \A poll \in batch : OfAPoll(poll) /\ IsAccepted(poll),
           SavePollResults(batch)
    PROVE  /\ UNCHANGED tags
           /\ \A row \in tag_readings' : RowIsOfAPoll(row)
<1>1. UNCHANGED tags
  BY DEF SavePollResults, configTables
<1>2. ASSUME NEW poll \in batch, NEW row \in ReadingRows(poll)
      PROVE  RowIsOfAPoll(row)
  <2>1. PICK p \in Polls : HasResult(p) /\ poll = polled[p]
    BY DEF OfAPoll
  <2>2. GoodPoll(poll) /\ poll.execution.execution_id = p
    BY <2>1 DEF PathInv, PolledInv
  <2>3. PICK i \in DOMAIN poll.results : row = ReadingRow(poll, i)
    BY <1>2 DEF ReadingRows
  <2>4. row.event_id = <<p, i>>
    BY <2>2, <2>3 DEF ReadingRow
  <2>5. RowMatches(row, poll.results[i])
    BY <2>2, <2>3, RowIsFaithful DEF RowsInv, IsAccepted
  <2> QED
    BY <2>1, <2>3, <2>4, <2>5 DEF RowIsOfAPoll
<1>3. ASSUME NEW row \in tag_readings'
      PROVE  row \in tag_readings \/ \E poll \in batch : row \in ReadingRows(poll)
  BY DEF SavePollResults
<1> QED
  BY <1>1, <1>2, <1>3 DEF RowsInv

(* A row stays one of its poll: results of polls never change, and the      *)
(* configurations that were entered remain so.                              *)
LEMMA RowStays ==
    ASSUME PolledInv, NEW row, RowIsOfAPoll(row), seeded \subseteq seeded',
           \A p \in Polls : HasResult(p) => HasResult(p)' /\ polled'[p] = polled[p]
    PROVE  RowIsOfAPoll(row)'
<1>1. PICK p \in Polls :
          /\ HasResult(p)
          /\ \E i \in DOMAIN polled[p].results :
                row.event_id = <<p, i>> /\ RowMatches(row, polled[p].results[i])
  BY DEF RowIsOfAPoll
<1>2. PICK i \in DOMAIN polled[p].results :
          row.event_id = <<p, i>> /\ RowMatches(row, polled[p].results[i])
  BY <1>1
<1>3. HasResult(p)' /\ polled'[p] = polled[p]
  BY <1>1
<1>4. RowMatches(row, polled[p].results[i])'
  BY <1>2, <1>3 DEF RowMatches
<1> QED
  BY <1>2, <1>3, <1>4 DEF RowIsOfAPoll

LEMMA RowsStep ==
    ASSUME PathInv, RowsInv, [Next]_vars
    PROVE  RowsInv'
<1>1. ASSUME UNCHANGED <<polled, seeded, tags, tag_readings>> PROVE RowsInv'
  BY <1>1 DEF RowsInv, TagsInv, RowIsOfAPoll, RowMatches, HasResult
<1>2. ASSUME UNCHANGED <<polled, seeded, tags>>,
             \A row \in tag_readings' : RowIsOfAPoll(row)
      PROVE  RowsInv'
  BY <1>2 DEF RowsInv, TagsInv, RowIsOfAPoll, RowMatches, HasResult
<1>3. ASSUME NEW s \in Sources, Start(s) PROVE RowsInv'
  BY <1>1, <1>3 DEF Start, history, tableVars, configTables, readingTables
<1>4. CASE Stop
  BY <1>1, <1>4 DEF Stop, history, tableVars, configTables, readingTables
<1>5. CASE Seed
  <2>1. UNCHANGED <<polled, tag_readings>> /\ seeded \subseteq seeded'
    BY <1>5 DEF Seed, UpsertConnections, UpsertTagGroups, UpsertTags, readingTables
  <2>2. TagsInv'
    <3>1. CASE seeding = 3 /\ UpsertTags(config.tags)
      BY <1>5, <3>1 DEF Seed, UpsertTags, Upserted, RowsInv, TagsInv
    <3>2. CASE UNCHANGED tags
      BY <2>1, <3>2 DEF RowsInv, TagsInv
    <3> QED
      BY <1>5, <3>1, <3>2 DEF Seed, UpsertConnections, UpsertTagGroups
  <2>3. \A p \in Polls : HasResult(p) => HasResult(p)' /\ polled'[p] = polled[p]
    BY <2>1 DEF HasResult
  <2>4. \A row \in tag_readings' : RowIsOfAPoll(row)'
    BY <2>1, <2>3, RowStays DEF RowsInv, PathInv
  <2> QED
    BY <2>2, <2>4 DEF RowsInv
<1>6. ASSUME NEW p \in Polls, Poll(p) PROVE RowsInv'
  <2>1. UNCHANGED <<seeded, tags, tag_readings>>
    BY <1>6 DEF Poll, PollGroup, tableVars, configTables, readingTables
  <2>2. p \notin DOMAIN polled
        /\ \A d \in DOMAIN polled : d \in DOMAIN polled' /\ polled'[d] = polled[d]
    BY <1>6 DEF Poll, PollGroup
  <2>3. \A d \in Polls : HasResult(d) => HasResult(d)' /\ polled'[d] = polled[d]
    BY <2>2 DEF HasResult
  <2>4. \A row \in tag_readings' : RowIsOfAPoll(row)'
    BY <2>1, <2>3, RowStays DEF RowsInv, PathInv
  <2> QED
    BY <2>1, <2>4 DEF RowsInv, TagsInv
<1>7. ASSUME NEW batch \in SUBSET memory, Save(batch) PROVE RowsInv'
  <2>1. \A poll \in batch : OfAPoll(poll) /\ IsAccepted(poll)
    BY <1>7 DEF Save, PathInv
  <2>2. SavePollResults(batch) /\ UNCHANGED <<polled, seeded>>
    BY <1>7 DEF Save, history
  <2> QED
    BY <1>2, <2>1, <2>2, SaveKeepsRows
<1>8. ASSUME NEW batch \in SUBSET memory, SpoolBatch(batch) PROVE RowsInv'
  BY <1>1, <1>8 DEF SpoolBatch, history, tableVars, configTables, readingTables
<1>9. ASSUME NEW entries \in SUBSET spool, Replay(entries) PROVE RowsInv'
  <2> DEFINE batch == {PollResultFromJson(json) : json \in entries}
  <2>1. \A poll \in batch : OfAPoll(poll)
    <3> SUFFICES ASSUME NEW json \in entries PROVE OfAPoll(PollResultFromJson(json))
      OBVIOUS
    <3>1. PICK p \in Polls : HasResult(p) /\ json = PollResultToJson(polled[p])
      BY DEF PathInv, JsonOfAPoll
    <3> QED
      BY <3>1, PollRoundTrip DEF PathInv, PolledInv, OfAPoll
  <2>2. (\A poll \in batch : IsAccepted(poll)) /\ SavePollResults(batch)
        /\ UNCHANGED <<polled, seeded>>
    BY <1>9 DEF Replay, history
  <2> HIDE DEF batch
  <2> QED
    BY <1>2, <2>1, <2>2, SaveKeepsRows
<1>10. CASE UNCHANGED vars
  BY <1>1, <1>10 DEF vars, history, tableVars, configTables, readingTables
<1> QED
  BY <1>3, <1>4, <1>5, <1>6, <1>7, <1>8, <1>9, <1>10 DEF Next

(* A stored reading has the tag, quality, times, error and value of the    *)
(* result it was made of, saved or replayed from the spool, whichever      *)
(* configurations came in between: the columns of other types are empty.   *)
THEOREM RowsAreFaithful == Spec => []StoredAsPolled
<1>1. RowsInv => StoredAsPolled
  <2> SUFFICES ASSUME RowsInv, NEW row \in tag_readings
               PROVE  RowMatches(row, polled[row.event_id[1]].results[row.event_id[2]])
    BY DEF StoredAsPolled, RowMatches
  <2>1. PICK p \in Polls :
            \E i \in DOMAIN polled[p].results :
                row.event_id = <<p, i>> /\ RowMatches(row, polled[p].results[i])
    BY DEF RowsInv, RowIsOfAPoll
  <2> QED
    BY <2>1
<1>2. Init => PathInv /\ RowsInv
  BY PathInit DEF Init, TablesInit, RowsInv, TagsInv
<1>3. PathInv /\ RowsInv /\ [Next]_vars => (PathInv /\ RowsInv)'
  BY PathStep, RowsStep
<1> QED
  BY <1>1, <1>2, <1>3, PTL DEF Spec
=============================================================================
