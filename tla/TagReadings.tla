----------------------------- MODULE TagReadings -----------------------------
(***************************************************************************)
(* The values a poll carries (domain/models.py) and the poll result the    *)
(* worker makes of them (runtime/connection_worker.py).                    *)
(*                                                                         *)
(* A Python value is <<class, n>>: n tells the values of a class apart,    *)
(* and -1 is the float that is not a number.  A datetime is <<"utc", n>>   *)
(* once the model has normalised it.  A constructor whose validation       *)
(* raises returns Raised.                                                  *)
(***************************************************************************)
EXTENDS Integers, Sequences, FiniteSets

CONSTANTS None, Raised

NotANumber == <<"float", -1>>


ValueTypes == {"numeric", "integer", "boolean", "text", "binary"}
Classes == {"float", "int", "bool", "str", "bytes", "bytearray", "utc", "iso"}
Values == Classes \X Int
Times == {"utc"} \X Int
TagValues == [value_type : ValueTypes, column : [ValueTypes -> Values \cup {None}]]

(* What is missing can be told from what is not. *)
ASSUME NoneIsNoValue == None # Raised /\ None \notin Values /\ None \notin TagValues
Qualities == {"good", "uncertain", "bad"}

\* A bool is an int to isinstance and excluded everywhere by a test of its own.
PayloadClass ==
    [numeric |-> {"float", "int"}, integer |-> {"int"}, boolean |-> {"bool"},
     text |-> {"str"}, binary |-> {"bytes"}]

-----------------------------------------------------------------------------
(* TagValue: a value type and the five payload columns.                    *)

Float(raw) == <<"float", raw[2]>>

\* The conversion of the numeric factory, which the constructor repeats.
Normalised(t, raw) == IF t = "numeric" THEN Float(raw) ELSE raw

TagValue(t, column) ==
    IF /\ t \in ValueTypes
       /\ column[t] # None
       /\ \A c \in ValueTypes \ {t} : column[c] = None
       /\ column[t][1] \in PayloadClass[t]
    THEN [value_type |-> t, column |-> [column EXCEPT ![t] = Normalised(t, @)]]
    ELSE Raised

\* TagValue.numeric, .integer, .boolean, .text and .binary.
ValueOf(t, raw) == TagValue(t, [c \in ValueTypes |-> IF c = t THEN raw ELSE None])

-----------------------------------------------------------------------------
(* TagResult.  Code and message of an error are set together, so error is  *)
(* both of them, or None.                                                  *)

TagResult(tag, quality, received, source, value, error) ==
    IF \/ value # None /\ (quality = "bad" \/ error # None)
       \/ value = None /\ (quality # "bad" \/ error = None)
    THEN Raised
    ELSE [tag_id |-> tag, quality |-> quality, received_at |-> received,
          source_timestamp |-> source, value |-> value, error |-> error]

Success(tag, value, source, received, quality) ==
    TagResult(tag, quality, received, source, value, None)

Failure(tag, error, received, source) ==
    TagResult(tag, "bad", received, source, None, error)

IsSuccess(r) == r.value # None

\* The elements of a list at the positions in S, in the order of the list.
Selected(s, S) ==
    LET upto[n \in 0 .. Len(s)] ==
            IF n = 0 THEN <<>>
            ELSE IF n \in S THEN Append(upto[n - 1], s[n]) ELSE upto[n - 1]
    IN  upto[Len(s)]

\* A list of results is built whole, or building it raises.
Gathered(results) == IF \E i \in DOMAIN results : results[i] = Raised THEN Raised ELSE results

-----------------------------------------------------------------------------
(* PollExecution and the poll result of ConnectionWorker.poll_group.       *)

Succeeded(results) == {i \in DOMAIN results : IsSuccess(results[i])}
FailedOf(results) == DOMAIN results \ Succeeded(results)

PollStatus(results) ==
    IF FailedOf(results) = {} THEN "success"
    ELSE IF Succeeded(results) = {} THEN "failed"
    ELSE "partial_failure"

\* The messages of the failed tags, in the order of the tags.
PollErrors(results) ==
    LET errors == Selected([i \in DOMAIN results |-> results[i].error],
                           {i \in DOMAIN results : results[i].error # None})
    IN  IF errors = <<>> THEN None ELSE errors

PollExecution(id, connection, group, status, started, finished, requested, ok, failed, errors) ==
    IF finished[2] < started[2] \/ ok + failed > requested
    THEN Raised
    ELSE [execution_id |-> id, connection_id |-> connection, tag_group_id |-> group,
          status |-> status, started_at |-> started, finished_at |-> finished,
          requested_tags |-> requested, successful_tags |-> ok,
          failed_tags |-> failed, error_message |-> errors]

\* What poll_group returns for the results it got, or made of an exception.
WorkerPollResult(id, connection, group, requested, results, started, finished) ==
    LET execution ==
            PollExecution(id, connection, group, PollStatus(results), started, finished,
                          requested, Cardinality(Succeeded(results)),
                          Cardinality(FailedOf(results)), PollErrors(results))
    IN  IF execution = Raised THEN Raised
        ELSE [execution |-> execution, results |-> results]
=============================================================================
