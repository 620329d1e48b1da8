---------------------------- MODULE MCReadingPath ----------------------------
(* Two polls under two configurations for TLC: the second one has two       *)
(* connections whose ids differ in case only, gives a group to another      *)
(* connection, a tag another type and a second group; a third one refers to *)
(* a connection it does not have.                                           *)
EXTENDS ReadingPath, TLC

CONSTANTS p1, p2

At(n) == <<"utc", n>>
Id(name) == <<name, "lower", "bare">>
PaddedId(name) == <<name, "lower", "padded">>
UpperId(name) == <<name, "upper", "bare">>

Connection(id) == [id |-> id, endpoint |-> "opc.tcp://a", enabled |-> TRUE, timeout_ms |-> 3000]
Group(id, c) == [id |-> id, connection_id |-> c, interval_ms |-> 100, timeout_ms |-> 50,
                 enabled |-> TRUE]
Tag(id, g, t) == [id |-> id, tag_group_id |-> g, value_type |-> t, enabled |-> TRUE]

FirstFile ==
    [connections |-> <<Connection(PaddedId("plc"))>>,
     tag_groups |-> <<Group(Id("fast"), Id("plc"))>>,
     tags |-> <<Tag(Id("count"), PaddedId("fast"), "integer"),
                Tag(Id("level"), Id("fast"), "numeric")>>]

SecondFile ==
    [connections |-> <<Connection(Id("plc")), Connection(UpperId("plc"))>>,
     tag_groups |-> <<Group(Id("fast"), UpperId("plc")), Group(Id("slow"), Id("plc"))>>,
     tags |-> <<Tag(Id("count"), Id("fast"), "text"), Tag(Id("blob"), Id("slow"), "binary"),
                [Tag(Id("level"), Id("slow"), "numeric") EXCEPT !.enabled = FALSE]>>]

DanglingFile == [SecondFile EXCEPT !.connections = <<Connection(Id("other"))>>]

Text(string, integer, boolean, id, field) ==
    [id |-> id, field |-> field, string |-> string, integer |-> integer, boolean |-> boolean]
NewEndpoint == Text("opc.tcp://b", None, None, Id("plc"), "endpoint")
SwitchOff == Text("off", None, FALSE, UpperId("plc"), "enabled")
SwitchOn == Text("1", 1, TRUE, Id("plc"), "enabled")
NoTimeout == Text("0", 0, FALSE, Id("plc"), "timeout_ms")
Misspelt == Text("1", 1, TRUE, None, "enabled")

SomeSources ==
    {[file |-> FirstFile, env |-> <<>>],
     [file |-> FirstFile, env |-> <<NoTimeout>>],
     [file |-> FirstFile, env |-> <<Misspelt>>],
     [file |-> SecondFile, env |-> <<NewEndpoint, SwitchOn, SwitchOff>>],
     [file |-> DanglingFile, env |-> <<>>],
     [file |-> Malformed, env |-> <<>>]}

SomeAnswers ==
    {Fault("opcua_read_failed"),
     DataValue("bad", NoVariant, At(1)),
     DataValue("reserved", <<"int", 1>>, None),
     DataValue("uncertain", <<"int", 2>>, At(1)),
     DataValue("good", NotANumber, None),
     DataValue("good", <<"str", 1>>, At(1)),
     DataValue("good", <<"bytearray", 1>>, None)}

SomeTimes == {<<At(2), At(2), At(3)>>, <<At(3), At(3), At(2)>>}

Symmetry == Permutations(Polls)
=============================================================================
