---------------------------- MODULE MessageToData ----------------------------
(* What a request message says about a field of a ModelProtoSerializer, and    *)
(* what validation makes of it.                                                *)
(*                                                                             *)
(* A value is "proto" (the default value of the protobuf type: 0, "", FALSE,   *)
(* the unspecified member of an enum), "ser" (the default of the serializer    *)
(* field), "model" (the default of the model field), Null (Python's None) or   *)
(* one a client has sent. Unset is the value of a field that is not there at   *)
(* all: no presence in the message, no key in the data.                        *)
CONSTANTS Null, Unset

Defaults == {"proto", "ser", "model"}

(* A field: rest_framework's options; whether the model has an attribute of    *)
(* its name (it has none when the field has another source) and a default for  *)
(* it; whether it is a choice annotated with an enum. rest_framework refuses a *)
(* default on a required field. A default that is None without allow_null is   *)
(* left out, as the documentation asks (proto-serializers.rst:213).            *)
FieldKinds ==
    {k \in [allow_null : BOOLEAN, required : BOOLEAN, default : {"empty", "None", "ser"},
            attribute : {"default", "plain", "none"}, enum : BOOLEAN] :
        /\ k.required => k.default = "empty"
        /\ k.default = "None" => k.allow_null}

(* ProtoField._get_cardinality: only an optional field has presence. *)
Optional(k) == k.allow_null \/ ~k.required \/ k.default = "ser"

is_field_accept_null_value(k) ==
    k.allow_null \/ (k.default \in {"empty", "None"} /\ k.required)

\* Mutant: the default of the model is not looked at.
get_default_field_value_serializer(k) == IF k.default = "ser" THEN "ser" ELSE Null

(* A default of None is a default; a model field without one yields None too, *)
(* and only a field the model does not know is left without any (Unset).      *)
get_default_field_value(k) ==
    CASE k.default = "ser" -> "ser"
      [] k.default = "None" -> Null
      [] k.default = "empty" /\ k.attribute = "default" -> "model"
      [] k.default = "empty" /\ k.attribute = "plain" -> Null
      [] k.default = "empty" /\ k.attribute = "none" -> Unset

(* updating: the message holds a primary key. *)
get_nullable_field_value(k, updating, force_default) ==
    LET accepted == is_field_accept_null_value(k)
        default == get_default_field_value(k)
    IN CASE ~accepted /\ ~force_default -> Unset
         [] (accepted \/ force_default) /\ (updating \/ k.default = "ser") -> Null
         [] OTHER -> IF default = Unset /\ accepted THEN Null ELSE default

get_partial_field_value(k) ==
    CASE k.allow_null -> Null
      [] ~k.allow_null /\ k.default = "ser" -> "ser"
      [] OTHER -> "proto"

(* An unspecified enum; the except clause around it takes the absence of a    *)
(* value for an unknown member.                                               *)
EnumProtoMismatchError == "EnumProtoMismatchError"
Unspecified(k, updating) ==
    LET value == get_nullable_field_value(k, updating, TRUE)
    IN IF value = Unset THEN EnumProtoMismatchError ELSE value

\* Mutant: a field is dropped from a partial update only if it has no presence.
get_cleaned_field_value_present(k, sent, partial, listed, updating) ==
    CASE sent # Unset -> sent
      [] sent = Unset /\ partial /\ ~listed -> Unset
      [] sent = Unset /\ listed -> get_partial_field_value(k)
      [] OTHER -> get_nullable_field_value(k, updating, FALSE)

(* sent: the value the message holds; listed: the field is named in           *)
(* _partial_update_fields.                                                    *)
get_cleaned_field_value(k, sent, partial, listed, updating) ==
    CASE partial /\ ~listed -> Unset
      [] (partial => listed) /\ sent = "proto" /\ k.enum -> Unspecified(k, updating)
      [] (partial => listed) /\ sent # Unset /\ ~(sent = "proto" /\ k.enum) -> sent
      [] sent = Unset /\ listed -> get_partial_field_value(k)
      [] OTHER -> get_nullable_field_value(k, updating, FALSE)

--------------------------------------------------------------------------------
(* rest_framework's Field.run_validation: the values a datum may become.       *)
Invalid == "Invalid"

\* Mutant: None is let through to the database.
validated_values_anyNull(k, datum, partial) ==
    CASE datum = Null -> {Null}
      [] datum = Unset -> IF partial THEN {Unset} ELSE IF k.required THEN {Invalid}
                          ELSE IF k.default = "ser" THEN {"ser"} ELSE {Unset}
      [] OTHER -> {datum}

(* The validators of a field may refuse any value that is not null, and an     *)
(* annotated choice refuses 0.                                                 *)
validated_values(k, datum, partial) ==
    CASE datum = Null -> {IF k.allow_null THEN Null ELSE Invalid}
      [] datum = Unset /\ partial -> {Unset}
      [] datum = Unset /\ ~partial /\ k.required -> {Invalid}
      [] datum = Unset /\ ~partial /\ ~k.required ->
            {CASE k.default = "ser" -> "ser" [] k.default = "None" -> Null
               [] k.default = "empty" -> Unset}
      [] datum = "proto" /\ k.enum -> {Invalid}
      [] OTHER -> {datum, Invalid}

(* What a new row gets in a column the data say nothing of. Blank is Django's *)
(* value for a column without a default: "" for a text, which the database    *)
(* stores, and NULL for the other types, which it refuses.                    *)
Blank == "blank"
column_default(k) ==
    CASE k.attribute = "default" -> "model"
      [] k.attribute # "default" /\ k.allow_null -> Null
      [] k.attribute # "default" /\ ~k.allow_null -> Blank

--------------------------------------------------------------------------------
(* What docs/features/proto-serializers.rst:218-233 says becomes of an         *)
(* optional field that is not set in the message, as the values that may be    *)
(* stored; Unset leaves the column (of a new row: to its default).             *)
Documented(k, operation, listed) ==
    CASE operation = "PartialUpdate" ->
            {CASE ~listed -> Unset
               [] listed /\ k.allow_null -> Null
               [] listed /\ ~k.allow_null /\ k.default = "ser" -> "ser"
               [] OTHER -> "proto"}
      [] operation = "Update" ->
            {CASE k.allow_null -> Null
               [] ~k.allow_null /\ k.default = "ser" -> "ser"
               [] OTHER -> Unset}
      [] operation = "Create" ->
            IF k.allow_null
            THEN LET defaults == {d \in {"model", "ser"} :
                                    IF d = "ser" THEN k.default = "ser"
                                    ELSE k.attribute = "default"}
                 IN IF defaults = {} THEN {Null} ELSE defaults
            ELSE {IF k.default = "ser" THEN "ser" ELSE Unset}
================================================================================
