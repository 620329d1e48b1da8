----------------------------- MODULE OpcUaReading -----------------------------
(***************************************************************************)
(* What the OPC UA driver makes of the answer to one read                  *)
(* (protocols/opcua.py).  An answer is an exception, or a data value: the  *)
(* severity of its status code ("reserved" is the fourth value of its two  *)
(* bits, neither good nor uncertain nor bad), the value of its variant,    *)
(* NoVariant when there is none, and its source timestamp or None.         *)
(***************************************************************************)
EXTENDS TagReadings

CONSTANT NoVariant

\* The answers of an exception that _read_tag turns into a failed result.
Faults == {"opcua_read_timeout", "opcua_read_failed", "opcua_socket_read_failed"}

\* The codes of all failures, with those of a whole batch.
Errors ==
    Faults \cup {"opcua_bad_status", "opcua_empty_value", "opcua_value_type_mismatch",
                "opcua_not_connected", "ConfigurationError"}

(* The answers the library gives, and no others. *)
IsAnswer(a) ==
    \/ a.exception \in Faults
    \/ /\ a.exception = None
       /\ a.status \in {"good", "uncertain", "bad", "reserved"}
       /\ a.variant \in Values \cup {NoVariant}
       /\ a.source \in Times \cup {None}

Fault(e) == [exception |-> e]
DataValue(status, variant, source) ==
    [exception |-> None, status |-> status, variant |-> variant, source |-> source]

QualityOf(status) == IF status \in {"good", "uncertain"} THEN status ELSE "bad"

\* The classes _tag_value_from_variant accepts; bytearrays become bytes.
VariantClass == [PayloadClass EXCEPT !["binary"] = {"bytes", "bytearray"}]

TagValueFromVariant(t, raw) ==
    IF raw[1] \notin VariantClass[t] THEN Raised
    ELSE ValueOf(t, IF t = "binary" THEN <<"bytes", raw[2]>> ELSE raw)

ValueMismatch_Unguarded(tag, d, received) == \* mutant: no except clause
    Raised

ValueMismatch(tag, d, received) ==
    Failure(tag, "opcua_value_type_mismatch", received, d.source)

TagResultFromDataValue(tag, t, d, received) ==
    IF d.status = "bad" THEN Failure(tag, "opcua_bad_status", received, d.source)
    ELSE IF d.variant = NoVariant THEN Failure(tag, "opcua_empty_value", received, d.source)
    ELSE IF TagValueFromVariant(t, d.variant) = Raised THEN ValueMismatch(tag, d, received)
    ELSE Success(tag, TagValueFromVariant(t, d.variant),
                 IF d.source = None THEN received ELSE d.source, received,
                 QualityOf(d.status))

ReadTag(tag, t, answer, received) ==
    IF answer.exception # None
    THEN Failure(tag, answer.exception, received, None)
    ELSE TagResultFromDataValue(tag, t, answer, received)

\* read() gathers the tags of a batch: what one of them raises, it raises, and
\* poll_group then makes a failure of every tag.
ReadBatch(requests, answers, received) ==
    Gathered([i \in DOMAIN requests |->
                 ReadTag(requests[i].id, requests[i].value_type, answers[i], received)])

FailedBatch_NoDetails(requests, error, received) == \* mutant: no error code
    Gathered([i \in DOMAIN requests |-> Failure(requests[i].id, None, received, None)])

FailedBatch(requests, error, received) ==
    Gathered([i \in DOMAIN requests |-> Failure(requests[i].id, error, received, None)])
=============================================================================
