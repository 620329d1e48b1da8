----------------------------- MODULE GatewayConfig -----------------------------
(***************************************************************************)
(* Loading a configuration file with overrides from the environment        *)
(* (app/config.py, the configuration models of domain/models.py).          *)
(*                                                                         *)
(* An id is <<name, case, padding>>, so that ids may differ in the case    *)
(* of their letters ("upper" or "lower") and in surrounding white space    *)
(* ("padded" or "bare"); the name "" is the empty string.  An override is  *)
(* a record of the id and the field its variable names and of what its     *)
(* text is as a string, as an integer and as a boolean, None where the     *)
(* conversion fails; id is None for a variable that has not three parts.   *)
(***************************************************************************)
EXTENDS Integers, Sequences, FiniteSets

CONSTANTS
    None,
    Malformed,     \* a file that is no JSON object
    Rejected       \* what loading returns when it raises

Ids == STRING \X {"lower", "upper"} \X {"bare", "padded"}

ConnectionModels ==
    [id : Ids, endpoint : STRING, enabled : BOOLEAN, timeout_ms : Int]
TagGroupModels ==
    [id : Ids, connection_id : Ids, interval_ms : Int, timeout_ms : Int, enabled : BOOLEAN]
TagModels ==
    [id : Ids, tag_group_id : Ids, enabled : BOOLEAN,
     value_type : {"numeric", "integer", "boolean", "text", "binary"}]

Files ==
    [connections : Seq(ConnectionModels), tag_groups : Seq(TagGroupModels),
     tags : Seq(TagModels)]

Overrides ==
    [id : Ids \cup {None}, field : STRING, string : STRING,
     integer : Int \cup {None}, boolean : BOOLEAN \cup {None}]

Strip(id) == <<id[1], id[2], "bare">>
Upper(id) == <<id[1], "upper", id[3]>>

Fields == {"endpoint", "enabled", "timeout_ms"}

-----------------------------------------------------------------------------
(* _apply_environment_overrides.                                           *)

\* by_id: of several connections with one upper-case id the last one is kept.
Matching(file, o) ==
    {j \in DOMAIN file.connections : Upper(file.connections[j].id) = Upper(o.id)}

Addressed(file, o) ==
    CHOOSE j \in Matching(file, o) : \A k \in Matching(file, o) : k <= j

Coerced(o) ==
    CASE o.field = "endpoint" -> o.string
      [] o.field = "enabled" -> o.boolean
      [] o.field = "timeout_ms" -> o.integer

IsOverride(file, o) ==
    /\ o.id # None
    /\ Matching(file, o) # {}
    /\ o.field \in Fields
    /\ Coerced(o) # None

Overriding_SpelledAlike(file, env, j, field) == \* mutant: the case of the id matters
    {k \in DOMAIN env : env[k].field = field /\ file.connections[j].id = env[k].id}

\* The overrides are applied in order, so the last one of a field stays.
Overriding(file, env, j, field) ==
    {k \in DOMAIN env : env[k].field = field /\ Addressed(file, env[k]) = j}

Override(file, env, j, field, value) ==
    LET ks == Overriding(file, env, j, field)
    IN  IF ks = {} THEN value
        ELSE Coerced(env[CHOOSE k \in ks : \A l \in ks : l <= k])

ApplyEnvironmentOverrides(file, env) ==
    LET overridden(j) ==
            LET c == file.connections[j]
                O(field) == Override(file, env, j, field, c[field])
            IN  [c EXCEPT !.endpoint = O("endpoint"), !.enabled = O("enabled"),
                          !.timeout_ms = O("timeout_ms")]
    IN  [file EXCEPT !.connections = [j \in DOMAIN file.connections |-> overridden(j)]]

-----------------------------------------------------------------------------
(* GatewayConfigModel: fields, ids and references, all of them stripped.   *)

UniqueIds(models) ==
    \A i, j \in DOMAIN models : Strip(models[i].id) = Strip(models[j].id) => i = j

Refers(id, models) == \E i \in DOMAIN models : Strip(models[i].id) = Strip(id)

ValidFields(file) ==
    /\ file.connections # <<>> /\ file.tag_groups # <<>> /\ file.tags # <<>>
    /\ \A s \in {"connections", "tag_groups", "tags"} :
          \A i \in DOMAIN file[s] : file[s][i].id[1] # ""
    /\ \A i \in DOMAIN file.connections :
          file.connections[i].endpoint # "" /\ file.connections[i].timeout_ms > 0
    /\ \A i \in DOMAIN file.tag_groups :
          file.tag_groups[i].interval_ms > 0 /\ file.tag_groups[i].timeout_ms > 0

ValidReferences_TagsOnly(file) == \* mutant: the connections of groups are not checked
    /\ UniqueIds(file.connections) /\ UniqueIds(file.tag_groups) /\ UniqueIds(file.tags)
    /\ \A i \in DOMAIN file.tags : Refers(file.tags[i].tag_group_id, file.tag_groups)

ValidReferences(file) ==
    /\ UniqueIds(file.connections) /\ UniqueIds(file.tag_groups) /\ UniqueIds(file.tags)
    /\ \A i \in DOMAIN file.tag_groups :
          Refers(file.tag_groups[i].connection_id, file.connections)
    /\ \A i \in DOMAIN file.tags : Refers(file.tags[i].tag_group_id, file.tag_groups)

\* The domain models strip the ids and references once more.
ToDomain(file) ==
    [connections |-> [i \in DOMAIN file.connections |->
                         [file.connections[i] EXCEPT !.id = Strip(@)]],
     tag_groups |-> [i \in DOMAIN file.tag_groups |->
                         [file.tag_groups[i] EXCEPT !.id = Strip(@),
                                                    !.connection_id = Strip(@)]],
     tags |-> [i \in DOMAIN file.tags |->
                         [file.tags[i] EXCEPT !.id = Strip(@), !.tag_group_id = Strip(@)]]]

LoadGatewayConfig(file, env) ==
    IF file = Malformed THEN Rejected
    ELSE IF \E k \in DOMAIN env : ~IsOverride(file, env[k]) THEN Rejected
    ELSE LET model == ApplyEnvironmentOverrides(file, env)
         IN  IF ValidFields(model) /\ ValidReferences(model) THEN ToDomain(model)
             ELSE Rejected
=============================================================================
