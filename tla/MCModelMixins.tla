---------------------------- MODULE MCModelMixins ----------------------------
(* Instances of ModelMixins for TLC: the calls race over one row with two      *)
(* fields, or a call on its own meets a field of any kind.                     *)
EXTENDS ModelMixins

CONSTANTS c1, c2, c3, title, other

Methods == {"Create", "Retrieve", "Update", "PartialUpdate", "Destroy"}

(* A required text of the model, and a nullable one with a default. *)
Plain == [allow_null |-> FALSE, required |-> TRUE, default |-> "empty",
          attribute |-> "plain", enum |-> FALSE]
Nullable == [allow_null |-> TRUE, required |-> FALSE, default |-> "empty",
             attribute |-> "default", enum |-> FALSE]
PlainAndNullable == [f \in Fields |-> IF f = title THEN {Plain} ELSE {Nullable}]
AnyKind == [f \in Fields |-> FieldKinds]

AnyMethod == [c \in Calls |-> Methods]
(* A call of any method, one that writes and one that destroys. *)
AnyWriteDestroy ==
    [c \in Calls |-> CASE c = c1 -> Methods
                       [] c = c2 -> {"Update", "PartialUpdate"}
                       [] c = c3 -> {"Destroy"}]

AnyContents == [c \in Calls |-> {c, "proto", Unset}]
SetOrNot == [c \in Calls |-> {c, Unset}]
================================================================================
