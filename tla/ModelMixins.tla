----------------------------- MODULE ModelMixins -----------------------------
(* Create, Retrieve, Update, PartialUpdate and Destroy of the model mixins, on *)
(* the rows of one table. Each call goes from one query or one sync_to_async   *)
(* hop to the next, and anything may run in between: other threads of a        *)
(* synchronous server, other coroutines of an asynchronous one, other server   *)
(* processes. Queries commit as they run (autocommit).                         *)
EXTENDS MessageToData

CONSTANTS Calls, Fields, Pks,
          Operations,  \* Operations[c]: the methods call c may be for
          Contents,    \* Contents[c]: what a field of the message of c may be
          Kinds,       \* Kinds[f]: the kinds of field f may be declared of
          Async        \* the asynchronous mixins, whose calls can be cancelled

ASSUME KindsAssumption == \A f \in Fields : Kinds[f] \subseteq FieldKinds
ASSUME OperationsAssumption ==
    \A c \in Calls :
        Operations[c] \subseteq {"Create", "Retrieve", "Update", "PartialUpdate", "Destroy"}
ASSUME ContentsAssumption == \A c \in Calls : Contents[c] \subseteq {c, "proto", Unset}
ASSUME ValuesAssumption ==
    /\ Null # Unset /\ Null # Blank /\ Unset # Blank
    /\ \A v \in Defaults \cup {"old", Invalid, EnumProtoMismatchError} \cup Calls :
          v \notin {Null, Unset}

NoRow == Null
Values == Defaults \cup Calls \cup {Null, "old", Blank}
Rows == [Fields -> Values]
ASSUME RowsAssumption == NoRow \notin Rows

VARIABLES
    kind,       \* kind[f]: how field f is declared, the same in every state
    rows,       \* rows[p]: the row of primary key p, or NoRow
    used,       \* the primary keys given so far
    pc,         \* pc[c]: the step call c is about to take
    operation,  \* operation[c]: the method called
    pk,         \* pk[c]: the primary key the request names (Create: the one given)
    request,    \* request[c]: what it holds of the fields, see Requests
    instance,   \* instance[c]: the model instance of the call, or NoRow
    data,       \* data[c]: initial_data, then validated_data
    status,     \* status[c]: "none", or how the call ended
    seen,       \* history: what rows[pk[c]] has been since c looked it up
    wrote       \* history: call c has changed the table

vars == <<kind, rows, used, pc, operation, pk, request, instance, data, status, seen, wrote>>

(* sent: the values in the message; hasList: its type has a field              *)
(* _partial_update_fields; listed: what that field names; hasPk: a primary key *)
(* is set.                                                                     *)
RequestsOf(c) == [sent : [Fields -> Contents[c] \cup {Unset}], hasList : BOOLEAN,
                  listed : SUBSET Fields, hasPk : BOOLEAN]

NoFields == [sent |-> [f \in Fields |-> Unset], hasList |-> FALSE, listed |-> {},
             hasPk |-> TRUE]

Requests(c, op) ==
    IF op \in {"Retrieve", "Destroy"} THEN {NoFields}
    ELSE {r \in RequestsOf(c) :
            /\ \A f \in Fields : r.sent[f] \in Contents[c]
            /\ \A f \in Fields : r.sent[f] = Unset => Optional(kind[f])
            /\ op # "PartialUpdate" => ~r.hasList
            /\ ~r.hasList => r.listed = {}
            /\ op # "Create" => r.hasPk}

Init ==
    /\ kind \in {k \in [Fields -> UNION {Kinds[f] : f \in Fields}] :
                    \A f \in Fields : k[f] \in Kinds[f]}
    /\ used \in SUBSET Pks
    /\ rows = [p \in Pks |-> IF p \in used THEN [f \in Fields |-> "old"] ELSE NoRow]
    /\ pc = [c \in Calls |-> "new"]
    /\ operation = [c \in Calls |-> "none"]
    /\ pk = [c \in Calls |-> Null]
    /\ request = [c \in Calls |-> NoFields]
    /\ instance = [c \in Calls |-> NoRow]
    /\ data = [c \in Calls |-> [f \in Fields |-> Unset]]
    /\ status = [c \in Calls |-> "none"]
    /\ seen = [c \in Calls |-> {}]
    /\ wrote = [c \in Calls |-> FALSE]

Partial(c) == operation[c] = "PartialUpdate"
Updating(c) == request[c].hasPk
Goto(c, l) == pc' = [pc EXCEPT ![c] = l] /\ UNCHANGED status
End(c, s) == pc' = [pc EXCEPT ![c] = "done"] /\ status' = [status EXCEPT ![c] = s]
Looking(c) == pc[c] \notin {"new", "lookup", "done"}

(* Row p becomes row, by a query of c. *)
Store(c, p, row) ==
    /\ rows' = [rows EXCEPT ![p] = row]
    /\ wrote' = [wrote EXCEPT ![c] = @ \/ row # rows[p]]
    /\ seen' = [d \in Calls |-> IF pk'[d] = p /\ (Looking(d) \/ d = c)
                                THEN seen[d] \cup {row} ELSE seen[d]]
KeepTable == UNCHANGED <<rows, used, seen, wrote>>

--------------------------------------------------------------------------------
(* A request reaches the method of a mixin. *)
Receive(c) ==
    /\ pc[c] = "new"
    /\ \E op \in Operations[c] :
        /\ operation' = [operation EXCEPT ![c] = op]
        /\ \E r \in Requests(c, op) : request' = [request EXCEPT ![c] = r]
        /\ IF op = "Create"
           THEN UNCHANGED pk /\ Goto(c, "message")
           ELSE /\ \E p \in Pks : pk' = [pk EXCEPT ![c] = p]
                /\ Goto(c, "lookup")
    /\ UNCHANGED <<kind, instance, data>> /\ KeepTable

\* Mutant: get_or_create.
get_object_orNew(c) ==
    /\ pc[c] = "lookup"
    /\ instance' = [instance EXCEPT
                      ![c] = IF rows[pk[c]] = NoRow
                             THEN [f \in Fields |-> column_default(kind[f])] ELSE rows[pk[c]]]
    /\ Goto(c, "permissions")
    /\ seen' = [seen EXCEPT ![c] = {rows[pk[c]]}]
    /\ UNCHANGED <<kind, rows, used, operation, pk, request, data, wrote>>

(* get_object, as far as its query. *)
get_object(c) ==
    /\ pc[c] = "lookup"
    /\ IF rows[pk[c]] = NoRow
       THEN End(c, "NOT_FOUND") /\ UNCHANGED instance
       ELSE instance' = [instance EXCEPT ![c] = rows[pk[c]]] /\ Goto(c, "permissions")
    /\ seen' = [seen EXCEPT ![c] = {rows[pk[c]]}]
    /\ UNCHANGED <<kind, rows, used, operation, pk, request, data, wrote>>

(* What the method does with the object it got. *)
AfterObject(c) ==
    CASE operation[c] = "Retrieve" -> "answer"
      [] operation[c] = "Destroy" -> "delete"
      [] operation[c] \in {"Update", "PartialUpdate"} -> "message"

(* Every permission is asked about the object. *)
check_object_permissions(c) ==
    /\ pc[c] = "permissions"
    /\ Goto(c, AfterObject(c)) \/ End(c, "PERMISSION_DENIED")
    /\ UNCHANGED <<kind, operation, pk, request, instance, data>> /\ KeepTable

Cleaned(c, f) ==
    get_cleaned_field_value(kind[f], request[c].sent[f], Partial(c), f \in request[c].listed,
                            Updating(c))

(* get_serializer(message=request), which calls message_to_data. *)
get_serializer(c) ==
    /\ pc[c] = "message"
    /\ IF Partial(c) /\ ~request[c].hasList
       THEN End(c, "INVALID_ARGUMENT") /\ UNCHANGED data
       ELSE IF \E f \in Fields : Cleaned(c, f) = EnumProtoMismatchError
       THEN End(c, "UNKNOWN") /\ UNCHANGED data
       ELSE data' = [data EXCEPT ![c] = [f \in Fields |-> Cleaned(c, f)]] /\ Goto(c, "valid")
    /\ UNCHANGED <<kind, operation, pk, request, instance>> /\ KeepTable

NextAfterValid(c) == IF operation[c] = "Create" THEN "create" ELSE "update"

\* Mutant: is_valid() without raise_exception.
is_valid_noRaise(c) ==
    /\ pc[c] = "valid"
    /\ LET valid(f) == validated_values(kind[f], data[c][f], Partial(c))
       IN \E d \in [Fields -> UNION {valid(f) : f \in Fields}] :
            /\ \A f \in Fields : d[f] \in valid(f)
            /\ data' = [data EXCEPT ![c] = d]
            /\ Goto(c, NextAfterValid(c))
    /\ UNCHANGED <<kind, operation, pk, request, instance>> /\ KeepTable

(* is_valid(raise_exception=True) *)
is_valid(c) ==
    /\ pc[c] = "valid"
    /\ LET valid(f) == validated_values(kind[f], data[c][f], Partial(c))
       IN \/ /\ \E f \in Fields : Invalid \in valid(f)
             /\ End(c, "INVALID_ARGUMENT") /\ UNCHANGED data
          \/ \E d \in [Fields -> UNION {valid(f) : f \in Fields}] :
                /\ \A f \in Fields : d[f] \in valid(f) \ {Invalid}
                /\ data' = [data EXCEPT ![c] = d]
                /\ Goto(c, NextAfterValid(c))
    /\ UNCHANGED <<kind, operation, pk, request, instance>> /\ KeepTable

(* The instance with the validated data set on it. *)
Assigned(c) ==
    [f \in Fields |-> IF data[c][f] = Unset THEN instance[c][f] ELSE data[c][f]]

\* Mutant: relations are set after the INSERT, and that may fail.
perform_create_thenFails(c) ==
    /\ pc[c] = "create"
    /\ LET row == [f \in Fields |-> IF data[c][f] = Unset THEN column_default(kind[f])
                                    ELSE data[c][f]]
       IN \E p \in Pks \ used :
            /\ pk' = [pk EXCEPT ![c] = p]
            /\ used' = used \cup {p}
            /\ instance' = [instance EXCEPT ![c] = row]
            /\ Store(c, p, row)
            /\ Goto(c, "answer") \/ End(c, "UNKNOWN")
    /\ UNCHANGED <<kind, operation, request, data>>

(* serializer.save of a new object: INSERT with the next primary key. *)
perform_create(c) ==
    /\ pc[c] = "create"
    /\ LET row == [f \in Fields |-> IF data[c][f] = Unset THEN column_default(kind[f])
                                    ELSE data[c][f]]
       IN \/ \E p \in Pks \ used :
                /\ pk' = [pk EXCEPT ![c] = p]
                /\ used' = used \cup {p}
                /\ instance' = [instance EXCEPT ![c] = row]
                /\ Store(c, p, row)
                /\ Goto(c, "answer")
          \/ /\ \E f \in Fields : row[f] = Blank
             /\ End(c, "UNKNOWN")
             /\ UNCHANGED <<pk, instance>> /\ KeepTable
    /\ UNCHANGED <<kind, operation, request, data>>

\* Mutant: save(update_fields=...), while the instance still holds the rest.
perform_update_fields(c) ==
    /\ pc[c] = "update"
    /\ instance' = [instance EXCEPT ![c] = Assigned(c)]
    /\ IF rows[pk[c]] = NoRow
       THEN Goto(c, "insert") /\ UNCHANGED <<rows, seen, wrote, pk>>
       ELSE /\ UNCHANGED pk
            /\ Store(c, pk[c], [f \in Fields |-> IF data[c][f] = Unset THEN rows[pk[c]][f]
                                                 ELSE data[c][f]])
            /\ Goto(c, "answer")
    /\ UNCHANGED <<kind, used, operation, request, data>>

(* serializer.save of an instance: UPDATE of every column; Django goes on to  *)
(* INSERT when it matched no row.                                             *)
perform_update(c) ==
    /\ pc[c] = "update"
    /\ instance' = [instance EXCEPT ![c] = Assigned(c)]
    /\ IF rows[pk[c]] = NoRow
       THEN Goto(c, "insert") /\ UNCHANGED <<rows, seen, wrote, pk>>
       ELSE UNCHANGED pk /\ Store(c, pk[c], Assigned(c)) /\ Goto(c, "answer")
    /\ UNCHANGED <<kind, used, operation, request, data>>

(* IntegrityError if another call has inserted the row first. *)
Reinsert(c) ==
    /\ pc[c] = "insert"
    /\ IF rows[pk[c]] = NoRow
       THEN UNCHANGED pk /\ Store(c, pk[c], instance[c]) /\ Goto(c, "answer")
       ELSE End(c, "UNKNOWN") /\ UNCHANGED <<rows, seen, wrote, pk>>
    /\ UNCHANGED <<kind, used, operation, request, instance, data>>

(* instance.delete(): no error when there is no row any more. *)
perform_destroy(c) ==
    /\ pc[c] = "delete"
    /\ UNCHANGED pk /\ Store(c, pk[c], NoRow)
    /\ Goto(c, "answer")
    /\ UNCHANGED <<kind, used, operation, request, instance, data>>

(* What the row held before may be outside the enum a field is annotated with. *)
MayMismatch(c) ==
    operation[c] # "Destroy" /\ \E f \in Fields : kind[f].enum /\ instance[c][f] = "old"

(* serializer.message, made of the instance, or Empty; data_to_message raises *)
(* EnumProtoMismatchError for a value it has no member for.                   *)
Answer(c) ==
    /\ pc[c] = "answer"
    /\ End(c, "OK") \/ (MayMismatch(c) /\ End(c, "UNKNOWN"))
    /\ UNCHANGED <<kind, operation, pk, request, instance, data>> /\ KeepTable

(* CancelledError is raised at an await; the two queries of a save are in one *)
(* hop, which a thread runs to its end.                                       *)
Cancel(c) ==
    /\ Async /\ pc[c] \notin {"new", "insert", "done"}
    /\ End(c, "CANCELLED")
    /\ UNCHANGED <<kind, operation, pk, request, instance, data>> /\ KeepTable

CallStep(c) ==
    \/ Receive(c) \/ get_object(c) \/ check_object_permissions(c)
    \/ get_serializer(c) \/ is_valid(c)
    \/ perform_create(c) \/ perform_update(c) \/ Reinsert(c) \/ perform_destroy(c)
    \/ Answer(c) \/ Cancel(c)

Next == \E c \in Calls : CallStep(c)

Spec == Init /\ [][Next]_vars

--------------------------------------------------------------------------------
TypeOK ==
    /\ kind \in [Fields -> FieldKinds] /\ \A f \in Fields : kind[f] \in Kinds[f]
    /\ rows \in [Pks -> Rows \cup {NoRow}] /\ used \subseteq Pks
    /\ \A p \in Pks : rows[p] # NoRow => p \in used
    /\ pc \in [Calls -> {"new", "lookup", "permissions", "message", "valid", "create",
                         "update", "insert", "delete", "answer", "done"}]
    /\ operation \in [Calls -> {"none", "Create", "Retrieve", "Update", "PartialUpdate",
                                "Destroy"}]
    /\ pk \in [Calls -> Pks \cup {Null}]
    /\ request \in [Calls -> UNION {RequestsOf(c) : c \in Calls}]
    /\ \A c \in Calls : request[c] \in RequestsOf(c)
    /\ instance \in [Calls -> Rows \cup {NoRow}]
    /\ data \in [Calls -> [Fields -> Values \cup {Unset}]]
    /\ status \in [Calls -> {"none", "OK", "NOT_FOUND", "PERMISSION_DENIED",
                             "INVALID_ARGUMENT", "UNKNOWN", "CANCELLED"}]
    /\ seen \in [Calls -> SUBSET (Rows \cup {NoRow})]
    /\ wrote \in [Calls -> BOOLEAN]

(* None reaches a column only if its field allows null: message_to_data puts  *)
(* it in the data of fields that do not, and validation is what stops it.     *)
NullsOnlyWhereAllowed ==
    \A p \in Pks : rows[p] # NoRow =>
        \A f \in Fields : rows[p][f] = Null => kind[f].allow_null

(* What a call answers was true while it ran: the object it returns was the   *)
(* row at some moment since the lookup, the row it has destroyed or not found *)
(* was absent at one.                                                         *)
AnswersWereTrue ==
    \A c \in Calls :
        /\ status[c] = "OK" =>
             IF operation[c] = "Destroy" THEN NoRow \in seen[c] ELSE instance[c] \in seen[c]
        /\ status[c] = "NOT_FOUND" => NoRow \in seen[c]

(* A call that ends with an error has written nothing. A cancelled one may    *)
(* have, and one whose row has an enum column it did not set.                 *)
ErrorsWriteNothing ==
    \A c \in Calls :
        wrote[c] => status[c] \in {"none", "OK", "CANCELLED"} \/ MayMismatch(c)

(* "Performs a partial update on the given PARTIAL_UPDATE_FIELD_NAME": saving *)
(* writes every column, but a column that is not listed only gets a value it  *)
(* has had since the call looked the row up. With no concurrent write that is *)
(* the value it has.                                                          *)
UnlistedFieldsKept ==
    [][\A c \in Calls :
          Partial(c) /\ pc[c] = "update" /\ pc'[c] # "done" =>
              \A f \in Fields \ request[c].listed :
                  \E row \in seen[c] \ {NoRow} : instance'[c][f] = row[f]]_vars

(* A row appears by a Create, with a new key, or by an update that had found  *)
(* it and lost it to a Destroy.                                               *)
RowsAppearKnowingly ==
    [][\A p \in Pks : rows[p] = NoRow /\ rows'[p] # NoRow =>
          \/ p \notin used
          \/ \E c \in Calls : /\ pc[c] = "insert" /\ pk[c] = p
                              /\ NoRow \in seen[c] /\ seen[c] # {NoRow}]_vars

(* The call of c is about to store its data. *)
Storing(c) == pc[c] \in {"create", "update"}
Creates(c) == operation[c] = "Create"
DefaultedNull(f) == kind[f].allow_null /\ kind[f].default = "ser"
UnsetFields(c) == {f \in Fields : request[c].sent[f] = Unset /\ kind[f].default # "None"}

(* docs/features/proto-serializers.rst:218-233, for the fields that are not   *)
(* set: what is stored is what the documentation says. The two cases in which *)
(* it is not are left out: a nullable field with a default in the serializer, *)
(* and a creation whose message holds a primary key.                          *)
UnsetAsDocumented ==
    \A c \in Calls : Storing(c) /\ ~(Creates(c) /\ Updating(c)) =>
        \A f \in UnsetFields(c) :
            ~(Creates(c) /\ DefaultedNull(f)) =>
                data[c][f] \in Documented(kind[f], operation[c], f \in request[c].listed)
================================================================================
