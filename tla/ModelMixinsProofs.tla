-------------------------- MODULE ModelMixinsProofs --------------------------
(* Theorems about ModelMixins: for any calls, fields and declarations of them, *)
(* the table is well typed, None reaches no column that does not allow it, and *)
(* what a call answers or saves is what its row has been since the call looked *)
(* it up.                                                                      *)
EXTENDS ModelMixins, TLAPS

(* Where a call knows its object: the primary key was given to a row, and the *)
(* instance is one.                                                           *)
HasObject(c) ==
    \/ pc[c] \in {"permissions", "update", "insert", "delete"}
    \/ pc[c] \in {"message", "valid"} /\ operation[c] # "Create"

Located ==
    \A c \in Calls :
        /\ pc[c] \in {"lookup", "permissions"} =>
              operation[c] \in {"Retrieve", "Update", "PartialUpdate", "Destroy"}
        /\ pc[c] = "lookup" => pk[c] \in Pks
        /\ pc[c] \in {"message", "valid"} =>
              operation[c] \in {"Create", "Update", "PartialUpdate"}
        /\ HasObject(c) => pk[c] \in used /\ instance[c] \in Rows

NullsAllowed(row) == \A f \in Fields : row[f] = Null => kind[f].allow_null

(* Validated data and instances hold None only where rows may. *)
NullsGuarded ==
    /\ NullsOnlyWhereAllowed
    /\ \A c \in Calls : instance[c] # NoRow => NullsAllowed(instance[c])
    /\ \A c \in Calls : pc[c] \in {"create", "update"} => NullsAllowed(data[c])

GuardInv == TypeOK /\ Located /\ NullsGuarded

(* The history of the row of a call: it has seen what the row is now and what *)
(* its instance was read from or written to; and a partial update has no data *)
(* for what is not listed.                                                    *)
Honest(c) ==
    IF operation[c] = "Destroy" THEN NoRow \in seen[c] ELSE instance[c] \in seen[c]

TraceOf(c) ==
    /\ pc[c] = "create" => operation[c] = "Create"
    /\ pc[c] \in {"update", "insert"} => operation[c] \in {"Update", "PartialUpdate"}
    /\ pc[c] = "delete" => operation[c] = "Destroy"
    /\ HasObject(c) => rows[pk[c]] \in seen[c]
    /\ HasObject(c) /\ pc[c] # "insert" => instance[c] \in seen[c]
    /\ pc[c] = "insert" => seen[c] # {NoRow}
    /\ pc[c] = "answer" => Honest(c)
    /\ Partial(c) /\ pc[c] \in {"valid", "update"} =>
          \A f \in Fields \ request[c].listed : data[c][f] = Unset
    /\ status[c] # "none" => pc[c] = "done"
    /\ status[c] = "OK" => Honest(c)
    /\ status[c] = "NOT_FOUND" => NoRow \in seen[c]

TraceInv == \A c \in Calls : TraceOf(c)

--------------------------------------------------------------------------------
(* Lemmas about the values of a field. *)

LEMMA KindFacts ==
    ASSUME NEW k \in FieldKinds
    PROVE  /\ k.allow_null \in BOOLEAN /\ k.required \in BOOLEAN /\ k.enum \in BOOLEAN
           /\ k.default \in {"empty", "None", "ser"}
           /\ k.attribute \in {"default", "plain", "none"}
           /\ k.default = "None" => k.allow_null
BY DEF FieldKinds

LEMMA DefaultFacts ==
    ASSUME NEW k \in FieldKinds
    PROVE  /\ get_default_field_value(k) \in {"ser", "model", Null, Unset}
           /\ column_default(k) \in {"model", Null, Blank}
           /\ column_default(k) = Null => k.allow_null
<1>1. "model" # Null /\ Blank # Null
  BY ValuesAssumption DEF Defaults
<1> QED
  BY <1>1, KindFacts DEF get_default_field_value, column_default

LEMMA NullableFacts ==
    ASSUME NEW k \in FieldKinds, NEW updating \in BOOLEAN, NEW force \in BOOLEAN
    PROVE  get_nullable_field_value(k, updating, force) \in {"ser", "model", Null, Unset}
<1>1. is_field_accept_null_value(k) \in BOOLEAN
  BY KindFacts DEF is_field_accept_null_value
<1> QED
  BY <1>1, DefaultFacts DEF get_nullable_field_value

LEMMA CleanedFacts ==
    ASSUME NEW k \in FieldKinds, NEW sent, NEW partial \in BOOLEAN, NEW listed \in BOOLEAN,
           NEW updating \in BOOLEAN
    PROVE  get_cleaned_field_value(k, sent, partial, listed, updating)
              \in {sent, "proto", "ser", "model", Null, Unset, EnumProtoMismatchError}
<1>1. Unspecified(k, updating) \in {"ser", "model", Null, EnumProtoMismatchError}
  BY NullableFacts DEF Unspecified
<1>2. get_partial_field_value(k) \in {"proto", "ser", Null}
  BY KindFacts DEF get_partial_field_value
<1>3. get_nullable_field_value(k, updating, FALSE) \in {"ser", "model", Null, Unset}
  BY NullableFacts
<1> QED
  BY <1>1, <1>2, <1>3, KindFacts DEF get_cleaned_field_value

(* Validation lets None through only where the field allows it. *)
LEMMA ValidatedFacts ==
    ASSUME NEW k \in FieldKinds, NEW datum, NEW partial \in BOOLEAN,
           NEW v \in validated_values(k, datum, partial), v # Invalid
    PROVE  v \in {datum, "ser", Null, Unset} /\ (v = Null => k.allow_null)
<1>1. Null # Unset /\ "ser" # Null
  BY ValuesAssumption DEF Defaults
<1> QED
  BY <1>1, KindFacts DEF validated_values

--------------------------------------------------------------------------------
(* The invariant. *)

LEMMA InitGuard == Init => GuardInv
<1> SUFFICES ASSUME Init PROVE GuardInv
  OBVIOUS
<1>1. \A f \in Fields : kind[f] \in FieldKinds /\ kind[f] \in Kinds[f]
  BY KindsAssumption DEF Init
<1>2. kind \in [Fields -> FieldKinds]
  BY <1>1 DEF Init
<1>3. [f \in Fields |-> "old"] \in Rows
  BY DEF Rows, Values
<1>a. \A c \in Calls : NoFields \in RequestsOf(c)
  BY DEF RequestsOf, NoFields
<1>b. /\ request \in [Calls -> UNION {RequestsOf(c) : c \in Calls}]
      /\ \A c \in Calls : request[c] \in RequestsOf(c)
  BY <1>a DEF Init
<1>4. TypeOK
  BY <1>1, <1>2, <1>3, <1>b DEF Init, TypeOK, NoRow
<1>5. Located
  BY DEF Init, Located, HasObject
<1>6. "old" # Null
  BY ValuesAssumption
<1>7. NullsGuarded
  BY <1>6 DEF Init, NullsGuarded, NullsOnlyWhereAllowed, NoRow
<1> QED
  BY <1>4, <1>5, <1>7 DEF GuardInv

(* A query keeps the table typed and guarded if its row is. *)
LEMMA StoreFacts ==
    ASSUME TypeOK, NullsOnlyWhereAllowed, UNCHANGED kind,
           NEW c \in Calls, NEW p \in Pks, NEW row \in Rows \cup {NoRow},
           row = NoRow \/ NullsAllowed(row), Store(c, p, row)
    PROVE  /\ rows' \in [Pks -> Rows \cup {NoRow}]
           /\ rows' = [rows EXCEPT ![p] = row]
           /\ seen' \in [Calls -> SUBSET (Rows \cup {NoRow})]
           /\ wrote' \in [Calls -> BOOLEAN]
           /\ NullsOnlyWhereAllowed'
<1>1. rows' \in [Pks -> Rows \cup {NoRow}] /\ rows' = [rows EXCEPT ![p] = row]
  BY DEF Store, TypeOK
<1>2. seen' \in [Calls -> SUBSET (Rows \cup {NoRow})]
  BY DEF Store, TypeOK
<1>3. wrote' \in [Calls -> BOOLEAN]
  <2>1. (wrote[c] \/ row # rows[p]) \in BOOLEAN
    BY DEF TypeOK
  <2> QED
    BY <2>1 DEF Store, TypeOK
<1>4. NullsOnlyWhereAllowed'
  BY <1>1 DEF NullsOnlyWhereAllowed, NullsAllowed, TypeOK
<1> QED
  BY <1>1, <1>2, <1>3, <1>4

(* Steps that end a call or move it on and touch nothing else. *)
LEMMA MoveGuard ==
    ASSUME GuardInv, NEW c \in Calls,
           UNCHANGED <<kind, operation, pk, request, instance, data>>, KeepTable,
           \/ \E s \in {"OK", "UNKNOWN", "CANCELLED", "PERMISSION_DENIED",
                          "INVALID_ARGUMENT"} : End(c, s)
           \/ /\ pc[c] = "permissions"
              /\ Goto(c, AfterObject(c))
    PROVE  GuardInv'
<1>1. \/ pc' = [pc EXCEPT ![c] = "done"]
      \/ /\ pc[c] = "permissions"
         /\ \/ pc' = [pc EXCEPT ![c] = "answer"]
            \/ pc' = [pc EXCEPT ![c] = "delete"]
            \/ pc' = [pc EXCEPT ![c] = "message"]
               /\ operation[c] \in {"Update", "PartialUpdate"}
  BY DEF GuardInv, Located, AfterObject, Goto, End
<1>a. status' \in [Calls -> {"none", "OK", "NOT_FOUND", "PERMISSION_DENIED",
                             "INVALID_ARGUMENT", "UNKNOWN", "CANCELLED"}]
  BY DEF GuardInv, TypeOK, Goto, End
<1>2. TypeOK'
  BY <1>1, <1>a DEF GuardInv, TypeOK, KeepTable
<1>3. Located'
  BY <1>1 DEF GuardInv, Located, HasObject, TypeOK, KeepTable
<1>4. NullsGuarded'
  BY <1>1 DEF GuardInv, NullsGuarded, NullsAllowed, NullsOnlyWhereAllowed, TypeOK, KeepTable
<1> QED
  BY <1>2, <1>3, <1>4 DEF GuardInv

LEMMA ReceiveGuard ==
    ASSUME GuardInv, NEW c \in Calls, Receive(c) PROVE GuardInv'
<1>0. PICK op \in Operations[c] :
        /\ operation' = [operation EXCEPT ![c] = op]
        /\ \E r \in Requests(c, op) : request' = [request EXCEPT ![c] = r]
        /\ IF op = "Create"
           THEN UNCHANGED pk /\ Goto(c, "message")
           ELSE /\ \E p \in Pks : pk' = [pk EXCEPT ![c] = p]
                /\ Goto(c, "lookup")
  BY DEF Receive
<1>1. PICK r \in Requests(c, op) : request' = [request EXCEPT ![c] = r]
  BY <1>0
<1>2. op \in {"Create", "Retrieve", "Update", "PartialUpdate", "Destroy"}
  BY OperationsAssumption
<1>3. r \in RequestsOf(c)
  <2>1. NoFields \in RequestsOf(c)
    BY DEF RequestsOf, NoFields
  <2> QED
    BY <2>1 DEF Requests
<1>4. \/ op = "Create" /\ UNCHANGED pk /\ pc' = [pc EXCEPT ![c] = "message"]
      \/ /\ op # "Create" /\ pc' = [pc EXCEPT ![c] = "lookup"]
         /\ \E p \in Pks : pk' = [pk EXCEPT ![c] = p]
  BY <1>0, <1>2 DEF Goto
<1>a. UNCHANGED <<kind, rows, used, instance, data, status, seen, wrote>>
  BY <1>0 DEF Receive, KeepTable, Goto
<1>b. /\ request' \in [Calls -> UNION {RequestsOf(d) : d \in Calls}]
      /\ \A d \in Calls : request'[d] \in RequestsOf(d)
  BY <1>1, <1>3 DEF GuardInv, TypeOK
<1>c. /\ operation' \in [Calls -> {"none", "Create", "Retrieve", "Update",
                                  "PartialUpdate", "Destroy"}]
      /\ pk' \in [Calls -> Pks \cup {Null}]
  <2>1. operation \in [Calls -> {"none", "Create", "Retrieve", "Update", "PartialUpdate",
                                 "Destroy"}]
        /\ pk \in [Calls -> Pks \cup {Null}]
    BY DEF GuardInv, TypeOK
  <2>2. operation' = [operation EXCEPT ![c] = op]
    BY <1>0
  <2> QED
    BY <2>1, <2>2, <1>2, <1>4
<1>d. pc' \in [Calls -> {"new", "lookup", "permissions", "message", "valid", "create",
                         "update", "insert", "delete", "answer", "done"}]
  BY <1>4 DEF GuardInv, TypeOK
<1>5. TypeOK'
  BY <1>a, <1>b, <1>c, <1>d DEF GuardInv, TypeOK
<1>6. Located'
  BY <1>0, <1>2, <1>4 DEF Receive, GuardInv, Located, HasObject, TypeOK, KeepTable
<1>7. NullsGuarded'
  BY <1>4 DEF Receive, GuardInv, NullsGuarded, NullsAllowed, NullsOnlyWhereAllowed, TypeOK,
              KeepTable
<1> QED
  BY <1>5, <1>6, <1>7 DEF GuardInv

LEMMA get_objectGuard ==
    ASSUME GuardInv, NEW c \in Calls, get_object(c) PROVE GuardInv'
<1>1. pk[c] \in Pks
  BY DEF get_object, GuardInv, Located
<1>2. \/ pc' = [pc EXCEPT ![c] = "done"] /\ UNCHANGED instance
      \/ /\ pc' = [pc EXCEPT ![c] = "permissions"]
         /\ rows[pk[c]] \in Rows /\ pk[c] \in used
         /\ instance' = [instance EXCEPT ![c] = rows[pk[c]]]
  BY <1>1 DEF get_object, GuardInv, TypeOK, Goto, End
<1>a. status' \in [Calls -> {"none", "OK", "NOT_FOUND", "PERMISSION_DENIED",
                             "INVALID_ARGUMENT", "UNKNOWN", "CANCELLED"}]
  BY DEF get_object, GuardInv, TypeOK, Goto, End
<1>b. seen' \in [Calls -> SUBSET (Rows \cup {NoRow})]
  BY <1>1 DEF get_object, GuardInv, TypeOK
<1>3. TypeOK'
  BY <1>1, <1>2, <1>a, <1>b DEF get_object, GuardInv, TypeOK
<1>4. Located'
  BY <1>2 DEF get_object, GuardInv, Located, HasObject, TypeOK
<1>5. NullsGuarded'
  BY <1>1, <1>2 DEF get_object, GuardInv, NullsGuarded, NullsAllowed, NullsOnlyWhereAllowed,
                    TypeOK
<1> QED
  BY <1>3, <1>4, <1>5 DEF GuardInv

LEMMA get_serializerGuard ==
    ASSUME GuardInv, NEW c \in Calls, get_serializer(c), pc'[c] = "valid" PROVE GuardInv'
<1>1. /\ data' = [data EXCEPT ![c] = [f \in Fields |-> Cleaned(c, f)]]
      /\ pc' = [pc EXCEPT ![c] = "valid"]
      /\ \A f \in Fields : Cleaned(c, f) # EnumProtoMismatchError
  BY DEF get_serializer, Goto, End, GuardInv, TypeOK
<1>2. ASSUME NEW f \in Fields PROVE Cleaned(c, f) \in Values \cup {Unset}
  <2>1. kind[f] \in FieldKinds /\ request[c].sent[f] \in {c, "proto", Unset}
    <3>1. request[c].sent \in [Fields -> Contents[c] \cup {Unset}]
      BY DEF GuardInv, TypeOK, RequestsOf
    <3> QED
      BY <3>1, ContentsAssumption DEF GuardInv, TypeOK
  <2>2. Partial(c) \in BOOLEAN /\ Updating(c) \in BOOLEAN
    BY DEF Partial, Updating, GuardInv, TypeOK, RequestsOf
  <2>3. CASE f \in request[c].listed
    <3>1. Cleaned(c, f) = get_cleaned_field_value(kind[f], request[c].sent[f], Partial(c),
                                                  TRUE, Updating(c))
      <4>1. (f \in request[c].listed) = TRUE
        BY <2>3
      <4> QED
        BY <4>1 DEF Cleaned
    <3>2. Cleaned(c, f) \in {request[c].sent[f], "proto", "ser", "model", Null, Unset,
                             EnumProtoMismatchError}
      <4>1. get_cleaned_field_value(kind[f], request[c].sent[f], Partial(c), TRUE, Updating(c))
               \in {request[c].sent[f], "proto", "ser", "model", Null, Unset,
                    EnumProtoMismatchError}
        <5>1. TRUE \in BOOLEAN
          OBVIOUS
        <5> QED
          BY <2>1, <2>2, <5>1, CleanedFacts, Zenon
      <4> QED
        BY <3>1, <4>1
    <3> QED
      BY <3>2, <1>1, <2>1 DEF Values, Defaults
  <2>4. CASE f \notin request[c].listed
    <3>1. Cleaned(c, f) = get_cleaned_field_value(kind[f], request[c].sent[f], Partial(c),
                                                  FALSE, Updating(c))
      <4>1. (f \in request[c].listed) = FALSE
        BY <2>4
      <4> QED
        BY <4>1 DEF Cleaned
    <3>2. Cleaned(c, f) \in {request[c].sent[f], "proto", "ser", "model", Null, Unset,
                             EnumProtoMismatchError}
      <4>1. get_cleaned_field_value(kind[f], request[c].sent[f], Partial(c), FALSE, Updating(c))
               \in {request[c].sent[f], "proto", "ser", "model", Null, Unset,
                    EnumProtoMismatchError}
        <5>1. FALSE \in BOOLEAN
          OBVIOUS
        <5> QED
          BY <2>1, <2>2, <5>1, CleanedFacts, Zenon
      <4> QED
        BY <3>1, <4>1
    <3> QED
      BY <3>2, <1>1, <2>1 DEF Values, Defaults
  <2> QED
    BY <2>3, <2>4
<1>3. TypeOK'
  BY <1>1, <1>2 DEF get_serializer, GuardInv, TypeOK, Goto, End, KeepTable
<1>4. Located'
  BY <1>1 DEF get_serializer, GuardInv, Located, HasObject, TypeOK, KeepTable
<1>5. NullsGuarded'
  BY <1>1 DEF get_serializer, GuardInv, NullsGuarded, NullsAllowed, NullsOnlyWhereAllowed,
              TypeOK, KeepTable
<1> QED
  BY <1>3, <1>4, <1>5 DEF GuardInv

LEMMA is_validGuard ==
    ASSUME GuardInv, NEW c \in Calls, is_valid(c), pc'[c] # "done" PROVE GuardInv'
<1> DEFINE valid(f) == validated_values(kind[f], data[c][f], Partial(c))
<1>1. PICK d \in [Fields -> UNION {valid(f) : f \in Fields}] :
        /\ \A f \in Fields : d[f] \in valid(f) \ {Invalid}
        /\ data' = [data EXCEPT ![c] = d]
        /\ pc' = [pc EXCEPT ![c] = NextAfterValid(c)]
        /\ UNCHANGED status
  BY DEF is_valid, Goto, End, GuardInv, TypeOK
<1>2. ASSUME NEW f \in Fields
      PROVE  d[f] \in Values \cup {Unset} /\ (d[f] = Null => kind[f].allow_null)
  <2>1. kind[f] \in FieldKinds /\ data[c][f] \in Values \cup {Unset} /\ Partial(c) \in BOOLEAN
    BY DEF GuardInv, TypeOK, Partial
  <2>2. d[f] \in validated_values(kind[f], data[c][f], Partial(c)) /\ d[f] # Invalid
    BY <1>1
  <2>3. d[f] \in {data[c][f], "ser", Null, Unset} /\ (d[f] = Null => kind[f].allow_null)
    BY <2>1, <2>2, ValidatedFacts
  <2> QED
    BY <2>1, <2>3 DEF Values, Defaults
<1>3. d \in [Fields -> Values \cup {Unset}] /\ \A f \in Fields : d[f] = Null => kind[f].allow_null
  BY <1>1, <1>2
<1>4. \/ operation[c] = "Create" /\ pc' = [pc EXCEPT ![c] = "create"]
      \/ operation[c] # "Create" /\ pc' = [pc EXCEPT ![c] = "update"]
  BY <1>1 DEF NextAfterValid
<1>5. /\ pc[c] = "valid" /\ data' = [data EXCEPT ![c] = d]
      /\ UNCHANGED <<kind, rows, used, operation, pk, request, instance, status, seen, wrote>>
  BY <1>1 DEF is_valid, KeepTable
<1> HIDE DEF valid
<1>6. TypeOK'
  BY <1>3, <1>4, <1>5 DEF GuardInv, TypeOK
<1>7. Located'
  BY <1>4, <1>5 DEF GuardInv, Located, HasObject, TypeOK
<1>8. NullsGuarded'
  BY <1>3, <1>4, <1>5 DEF GuardInv, NullsGuarded, NullsAllowed, NullsOnlyWhereAllowed, TypeOK
<1> QED
  BY <1>6, <1>7, <1>8 DEF GuardInv

LEMMA perform_createGuard ==
    ASSUME GuardInv, NEW c \in Calls, perform_create(c), pc'[c] = "answer" PROVE GuardInv'
<1> DEFINE row == [f \in Fields |-> IF data[c][f] = Unset THEN column_default(kind[f])
                                   ELSE data[c][f]]
<1>1. PICK p \in Pks \ used :
        /\ pk' = [pk EXCEPT ![c] = p]
        /\ used' = used \cup {p}
        /\ instance' = [instance EXCEPT ![c] = row]
        /\ Store(c, p, row)
        /\ pc' = [pc EXCEPT ![c] = "answer"] /\ UNCHANGED status
  BY DEF perform_create, Goto, End, GuardInv, TypeOK
<1>2. pc[c] = "create" /\ UNCHANGED <<kind, operation, request, data>>
  BY DEF perform_create
<1>3. row \in Rows /\ NullsAllowed(row)
  <2> SUFFICES ASSUME NEW f \in Fields
               PROVE  row[f] \in Values /\ (row[f] = Null => kind[f].allow_null)
    BY DEF Rows, NullsAllowed
  <2>1. kind[f] \in FieldKinds /\ data[c][f] \in Values \cup {Unset}
        /\ (data[c][f] = Null => kind[f].allow_null)
    BY <1>2 DEF GuardInv, TypeOK, NullsGuarded, NullsAllowed
  <2> QED
    BY <2>1, DefaultFacts DEF Values, Defaults
<1> HIDE DEF row
<1>4. /\ rows' \in [Pks -> Rows \cup {NoRow}]
      /\ rows' = [rows EXCEPT ![p] = row]
      /\ seen' \in [Calls -> SUBSET (Rows \cup {NoRow})]
      /\ wrote' \in [Calls -> BOOLEAN]
      /\ NullsOnlyWhereAllowed'
  BY <1>1, <1>2, <1>3, StoreFacts DEF GuardInv, NullsGuarded
<1>5. TypeOK'
  BY <1>1, <1>2, <1>3, <1>4 DEF GuardInv, TypeOK
<1>6. Located'
  BY <1>1, <1>2 DEF GuardInv, Located, HasObject, TypeOK
<1>7. NullsGuarded'
  BY <1>1, <1>2, <1>3, <1>4 DEF GuardInv, NullsGuarded, NullsAllowed, TypeOK
<1> QED
  BY <1>5, <1>6, <1>7 DEF GuardInv

(* A save of an instance, and the INSERT it may end with. *)
LEMMA perform_updateGuard ==
    ASSUME GuardInv, NEW c \in Calls, perform_update(c) PROVE GuardInv'
<1>1. /\ pc[c] = "update" /\ pk[c] \in used /\ pk[c] \in Pks /\ instance[c] \in Rows
      /\ UNCHANGED <<kind, used, operation, request, data, pk, status>>
      /\ instance' = [instance EXCEPT ![c] = Assigned(c)]
  BY DEF perform_update, GuardInv, Located, HasObject, TypeOK, Goto
<1>2. Assigned(c) \in Rows
  BY <1>1 DEF Assigned, Rows, GuardInv, TypeOK
<1>3. NullsAllowed(Assigned(c))
  <2>1. NullsAllowed(data[c]) /\ (instance[c] # NoRow => NullsAllowed(instance[c]))
    BY <1>1 DEF GuardInv, NullsGuarded
  <2>2. instance[c] # NoRow
    BY <1>1, RowsAssumption
  <2> QED
    BY <2>1, <2>2 DEF Assigned, NullsAllowed
<1>4. CASE rows[pk[c]] = NoRow
  <2>1. pc' = [pc EXCEPT ![c] = "insert"] /\ UNCHANGED <<rows, seen, wrote>>
    BY <1>4 DEF perform_update, Goto
  <2>2. TypeOK'
    BY <1>1, <1>2, <2>1 DEF GuardInv, TypeOK
  <2>3. Located'
    BY <1>1, <1>2, <2>1 DEF GuardInv, Located, HasObject, TypeOK
  <2>4. NullsGuarded'
    BY <1>1, <1>3, <2>1 DEF GuardInv, NullsGuarded, NullsAllowed, NullsOnlyWhereAllowed, TypeOK
  <2> QED
    BY <2>2, <2>3, <2>4 DEF GuardInv
<1>5. CASE rows[pk[c]] # NoRow
  <2>1. pc' = [pc EXCEPT ![c] = "answer"] /\ Store(c, pk[c], Assigned(c))
    BY <1>5 DEF perform_update, Goto
  <2>2. /\ rows' \in [Pks -> Rows \cup {NoRow}]
        /\ rows' = [rows EXCEPT ![pk[c]] = Assigned(c)]
        /\ seen' \in [Calls -> SUBSET (Rows \cup {NoRow})]
        /\ wrote' \in [Calls -> BOOLEAN]
        /\ NullsOnlyWhereAllowed'
    BY <1>1, <1>2, <1>3, <2>1, StoreFacts DEF GuardInv, NullsGuarded
  <2>3. TypeOK'
    BY <1>1, <1>2, <2>1, <2>2 DEF GuardInv, TypeOK
  <2>4. Located'
    BY <1>1, <1>2, <2>1 DEF GuardInv, Located, HasObject, TypeOK
  <2>5. NullsGuarded'
    BY <1>1, <1>3, <2>1, <2>2 DEF GuardInv, NullsGuarded, NullsAllowed, TypeOK
  <2> QED
    BY <2>3, <2>4, <2>5 DEF GuardInv
<1> QED
  BY <1>4, <1>5

LEMMA ReinsertGuard ==
    ASSUME GuardInv, NEW c \in Calls, Reinsert(c), pc'[c] = "answer" PROVE GuardInv'
<1>1. /\ pc[c] = "insert" /\ pk[c] \in used /\ pk[c] \in Pks /\ instance[c] \in Rows
      /\ UNCHANGED <<kind, used, operation, request, instance, data, pk, status>>
      /\ pc' = [pc EXCEPT ![c] = "answer"] /\ Store(c, pk[c], instance[c])
  BY DEF Reinsert, GuardInv, Located, HasObject, TypeOK, Goto, End
<1>2. NullsAllowed(instance[c])
  BY <1>1, RowsAssumption DEF GuardInv, NullsGuarded
<1>3. /\ rows' \in [Pks -> Rows \cup {NoRow}]
      /\ rows' = [rows EXCEPT ![pk[c]] = instance[c]]
      /\ seen' \in [Calls -> SUBSET (Rows \cup {NoRow})]
      /\ wrote' \in [Calls -> BOOLEAN]
      /\ NullsOnlyWhereAllowed'
  BY <1>1, <1>2, StoreFacts DEF GuardInv, NullsGuarded
<1>4. TypeOK'
  BY <1>1, <1>3 DEF GuardInv, TypeOK
<1>5. Located'
  BY <1>1 DEF GuardInv, Located, HasObject, TypeOK
<1>6. NullsGuarded'
  BY <1>1, <1>3 DEF GuardInv, NullsGuarded, NullsAllowed, TypeOK
<1> QED
  BY <1>4, <1>5, <1>6 DEF GuardInv

LEMMA perform_destroyGuard ==
    ASSUME GuardInv, NEW c \in Calls, perform_destroy(c) PROVE GuardInv'
<1>1. /\ pc[c] = "delete" /\ pk[c] \in used /\ pk[c] \in Pks
      /\ UNCHANGED <<kind, used, operation, request, instance, data, pk, status>>
      /\ pc' = [pc EXCEPT ![c] = "answer"] /\ Store(c, pk[c], NoRow)
  BY DEF perform_destroy, GuardInv, Located, HasObject, TypeOK, Goto
<1>2. /\ rows' \in [Pks -> Rows \cup {NoRow}]
      /\ rows' = [rows EXCEPT ![pk[c]] = NoRow]
      /\ seen' \in [Calls -> SUBSET (Rows \cup {NoRow})]
      /\ wrote' \in [Calls -> BOOLEAN]
      /\ NullsOnlyWhereAllowed'
  BY <1>1, StoreFacts DEF GuardInv, NullsGuarded
<1>3. TypeOK'
  BY <1>1, <1>2 DEF GuardInv, TypeOK
<1>4. Located'
  BY <1>1 DEF GuardInv, Located, HasObject, TypeOK
<1>5. NullsGuarded'
  BY <1>1, <1>2 DEF GuardInv, NullsGuarded, NullsAllowed, TypeOK
<1> QED
  BY <1>3, <1>4, <1>5 DEF GuardInv

(* A step that ends a call with an error, wherever it is. *)
LEMMA FailureGuard ==
    ASSUME GuardInv, NEW c \in Calls, CallStep(c), pc'[c] = "done", ~get_object(c)
    PROVE  GuardInv'
<1>1. /\ UNCHANGED <<kind, operation, pk, request, instance, data>> /\ KeepTable
      /\ \E s \in {"OK", "UNKNOWN", "CANCELLED", "PERMISSION_DENIED",
                    "INVALID_ARGUMENT"} : End(c, s)
  <2>1. pc \in [Calls -> {"new", "lookup", "permissions", "message", "valid", "create",
                          "update", "insert", "delete", "answer", "done"}]
    BY DEF GuardInv, TypeOK
  <2>2. CASE Receive(c)
    <3>1. pc' = [pc EXCEPT ![c] = "message"] \/ pc' = [pc EXCEPT ![c] = "lookup"]
      BY <2>2 DEF Receive, Goto
    <3> QED
      BY <3>1, <2>1
  <2>3. CASE check_object_permissions(c)
    <3>1. ASSUME Goto(c, AfterObject(c)) PROVE FALSE
      BY <2>1, <2>3, <3>1 DEF Goto, AfterObject, check_object_permissions, GuardInv, Located
    <3> QED
      BY <2>3, <3>1 DEF check_object_permissions
  <2>4. CASE get_serializer(c)
    BY <2>1, <2>4 DEF get_serializer, Goto
  <2>5. CASE is_valid(c)
    <3>1. ASSUME Goto(c, NextAfterValid(c)) PROVE FALSE
      BY <2>1, <3>1 DEF Goto, NextAfterValid
    <3> QED
      BY <2>5, <3>1 DEF is_valid
  <2>6. CASE perform_create(c)
    <3>1. ASSUME Goto(c, "answer") PROVE FALSE
      BY <2>1, <3>1 DEF Goto
    <3> QED
      BY <2>6, <3>1 DEF perform_create
  <2>7. CASE perform_update(c)
    BY <2>1, <2>7 DEF perform_update, Goto
  <2>8. CASE Reinsert(c)
    BY <2>1, <2>8 DEF Reinsert, Goto, KeepTable
  <2>9. CASE perform_destroy(c)
    BY <2>1, <2>9 DEF perform_destroy, Goto
  <2>10. CASE Answer(c)
    BY <2>10 DEF Answer
  <2>11. CASE Cancel(c)
    BY <2>11 DEF Cancel
  <2> QED
    BY <2>2, <2>3, <2>4, <2>5, <2>6, <2>7, <2>8, <2>9, <2>10, <2>11 DEF CallStep
<1> QED
  BY <1>1, MoveGuard

LEMMA StepGuard == GuardInv /\ [Next]_vars => GuardInv'
<1> SUFFICES ASSUME GuardInv, [Next]_vars PROVE GuardInv'
  OBVIOUS
<1>1. CASE UNCHANGED vars
  BY <1>1 DEF vars, GuardInv, TypeOK, Located, HasObject, NullsGuarded, NullsAllowed,
              NullsOnlyWhereAllowed
<1>2. ASSUME NEW c \in Calls, CallStep(c) PROVE GuardInv'
  <2>1. CASE get_object(c)
    BY <2>1, get_objectGuard
  <2>2. CASE pc'[c] = "done" /\ ~get_object(c)
    BY <1>2, <2>2, FailureGuard
  <2>3. CASE pc'[c] # "done" /\ ~get_object(c)
    <3>0. pc \in [Calls -> {"new", "lookup", "permissions", "message", "valid", "create",
                            "update", "insert", "delete", "answer", "done"}]
      BY DEF GuardInv, TypeOK
    <3>1. CASE Receive(c)
      BY <3>1, ReceiveGuard
    <3>2. CASE check_object_permissions(c)
      BY <3>0, <3>2, <2>3, MoveGuard DEF check_object_permissions, End
    <3>3. CASE get_serializer(c)
      <4>1. pc'[c] = "valid"
        BY <3>0, <3>3, <2>3 DEF get_serializer, Goto, End
      <4> QED
        BY <4>1, <3>3, get_serializerGuard
    <3>4. CASE is_valid(c)
      BY <3>4, <2>3, is_validGuard
    <3>5. CASE perform_create(c)
      <4>1. pc'[c] = "answer"
        BY <3>0, <3>5, <2>3 DEF perform_create, Goto, End
      <4> QED
        BY <4>1, <3>5, perform_createGuard
    <3>6. CASE perform_update(c)
      BY <3>6, perform_updateGuard
    <3>7. CASE Reinsert(c)
      <4>1. pc'[c] = "answer"
        BY <3>0, <3>7, <2>3 DEF Reinsert, Goto, End
      <4> QED
        BY <4>1, <3>7, ReinsertGuard
    <3>8. CASE perform_destroy(c)
      BY <3>8, perform_destroyGuard
    <3>9. CASE Answer(c) \/ Cancel(c)
      BY <3>0, <3>9, <2>3 DEF Answer, Cancel, End
    <3> QED
      BY <1>2, <2>3, <3>1, <3>2, <3>3, <3>4, <3>5, <3>6, <3>7, <3>8, <3>9 DEF CallStep
  <2> QED
    BY <2>1, <2>2, <2>3
<1> QED
  BY <1>1, <1>2 DEF Next

--------------------------------------------------------------------------------
(* GuardInv is an invariant of the mixins. *)
THEOREM Guard == Spec => []GuardInv
BY InitGuard, StepGuard, PTL DEF Spec

(* TypeOK: rows, instances and data are what the declarations allow, and every *)
(* row has a primary key that was given to it.                                 *)
THEOREM Typed == Spec => []TypeOK
<1>1. GuardInv => TypeOK
  BY DEF GuardInv
<1> QED
  BY <1>1, Guard, PTL

(* NullsOnlyWhereAllowed, for any fields, messages and interleaving: the None  *)
(* that message_to_data invents for fields without presence never reaches a    *)
(* column whose field does not allow it.                                       *)
THEOREM NullsStopped == Spec => []NullsOnlyWhereAllowed
<1>1. GuardInv => NullsOnlyWhereAllowed
  BY DEF GuardInv, NullsGuarded
<1> QED
  BY <1>1, Guard, PTL

--------------------------------------------------------------------------------
(* What calls have seen of their rows. *)

LEMMA InitTrace == Init => TraceInv
BY DEF Init, TraceInv, TraceOf, HasObject, Partial

(* A step of c leaves the other calls where they are; they see what it does. *)
LEMMA OthersKept ==
    ASSUME GuardInv, NEW c \in Calls, CallStep(c), NEW d \in Calls, d # c
    PROVE  /\ pc'[d] = pc[d] /\ status'[d] = status[d] /\ operation'[d] = operation[d]
           /\ pk'[d] = pk[d] /\ request'[d] = request[d] /\ instance'[d] = instance[d]
           /\ data'[d] = data[d]
<1> USE DEF Goto, End, KeepTable, GuardInv, TypeOK
<1>1. CASE Receive(c)
  BY <1>1 DEF Receive
<1>2. CASE get_object(c)
  BY <1>2 DEF get_object
<1>3. CASE check_object_permissions(c)
  BY <1>3 DEF check_object_permissions
<1>4. CASE get_serializer(c)
  BY <1>4 DEF get_serializer
<1>5. CASE is_valid(c)
  BY <1>5 DEF is_valid
<1>6. CASE perform_create(c)
  BY <1>6 DEF perform_create
<1>7. CASE perform_update(c)
  BY <1>7 DEF perform_update
<1>8. CASE Reinsert(c)
  BY <1>8 DEF Reinsert
<1>9. CASE perform_destroy(c)
  BY <1>9 DEF perform_destroy
<1>10. CASE Answer(c) \/ Cancel(c)
  BY <1>10 DEF Answer, Cancel
<1> QED
  BY <1>1, <1>2, <1>3, <1>4, <1>5, <1>6, <1>7, <1>8, <1>9, <1>10 DEF CallStep

(* Either the table is as it was or the step is a query. *)
LEMMA TableSteps ==
    ASSUME GuardInv, NEW c \in Calls, CallStep(c)
    PROVE  \/ UNCHANGED rows /\ (UNCHANGED seen \/ get_object(c))
           \/ \E p \in Pks, row \in Rows \cup {NoRow} : Store(c, p, row)
<1>1. CASE perform_create(c)
  <2>1. CASE UNCHANGED <<rows, seen>>
    BY <2>1
  <2>2. CASE ~UNCHANGED <<rows, seen>>
    <3> DEFINE row == [f \in Fields |-> IF data[c][f] = Unset THEN column_default(kind[f])
                                       ELSE data[c][f]]
    <3>1. \E p \in Pks : Store(c, p, row)
      BY <1>1, <2>2 DEF perform_create, KeepTable
    <3>2. row \in Rows
      <4> SUFFICES ASSUME NEW f \in Fields PROVE row[f] \in Values
        BY DEF Rows
      <4>1. kind[f] \in FieldKinds /\ data[c][f] \in Values \cup {Unset}
        BY DEF GuardInv, TypeOK
      <4> QED
        BY <4>1, DefaultFacts DEF Values, Defaults
    <3> QED
      BY <3>1, <3>2
  <2> QED
    BY <2>1, <2>2
<1>2. CASE perform_update(c)
  <2>1. pk[c] \in Pks /\ instance[c] \in Rows
    BY <1>2 DEF perform_update, GuardInv, Located, HasObject, TypeOK
  <2>2. Assigned(c) \in Rows
    BY <2>1 DEF Assigned, Rows, GuardInv, TypeOK
  <2> QED
    BY <1>2, <2>1, <2>2 DEF perform_update
<1>3. CASE Reinsert(c)
  <2>1. pk[c] \in Pks /\ instance[c] \in Rows
    BY <1>3 DEF Reinsert, GuardInv, Located, HasObject, TypeOK
  <2> QED
    BY <1>3, <2>1 DEF Reinsert
<1>4. CASE perform_destroy(c)
  <2>1. pk[c] \in Pks
    BY <1>4 DEF perform_destroy, GuardInv, Located, HasObject, TypeOK
  <2> QED
    BY <1>4, <2>1 DEF perform_destroy
<1>5. CASE get_object(c)
  BY <1>5 DEF get_object
<1>6. CASE Receive(c) \/ check_object_permissions(c) \/ get_serializer(c) \/ is_valid(c)
           \/ Answer(c) \/ Cancel(c)
  BY <1>6 DEF Receive, check_object_permissions, get_serializer, is_valid, Answer, Cancel,
              KeepTable
<1> QED
  BY <1>1, <1>2, <1>3, <1>4, <1>5, <1>6 DEF CallStep

LEMMA OthersSee ==
    ASSUME GuardInv, NEW c \in Calls, CallStep(c), NEW d \in Calls, d # c
    PROVE  /\ seen[d] \subseteq seen'[d]
           /\ HasObject(d) /\ rows[pk[d]] \in seen[d] => rows'[pk[d]] \in seen'[d]
           /\ seen[d] # {NoRow} /\ seen[d] # {} => seen'[d] # {NoRow}
<1>1. CASE UNCHANGED rows /\ (UNCHANGED seen \/ get_object(c))
  BY <1>1 DEF get_object, GuardInv, TypeOK
<1>2. ASSUME NEW p \in Pks, NEW row \in Rows \cup {NoRow}, Store(c, p, row)
      PROVE  /\ seen[d] \subseteq seen'[d]
             /\ HasObject(d) /\ rows[pk[d]] \in seen[d] => rows'[pk[d]] \in seen'[d]
             /\ seen[d] # {NoRow} /\ seen[d] # {} => seen'[d] # {NoRow}
  <2>1. rows' = [rows EXCEPT ![p] = row] /\ pk'[d] = pk[d]
    BY <1>2, OthersKept DEF Store
  <2>2. seen'[d] = IF pk[d] = p /\ Looking(d) THEN seen[d] \cup {row} ELSE seen[d]
    BY <1>2, <2>1 DEF Store
  <2>3. HasObject(d) => Looking(d) /\ pk[d] \in Pks
    BY DEF HasObject, Looking, GuardInv, Located, TypeOK
  <2> QED
    BY <2>1, <2>2, <2>3 DEF GuardInv, TypeOK
<1> QED
  BY <1>1, <1>2, TableSteps

LEMMA OthersTrace ==
    ASSUME GuardInv, TraceInv, NEW c \in Calls, CallStep(c), NEW d \in Calls, d # c
    PROVE  TraceOf(d)'
<1>1. TraceOf(d)
  BY DEF TraceInv
<1>2. pc[d] = "insert" => seen[d] # {}
  BY <1>1 DEF TraceOf, HasObject
<1> QED
  BY <1>1, <1>2, OthersKept, OthersSee DEF TraceOf, HasObject, Honest, Partial

(* A query of c on its own row is seen by c. *)
LEMMA OwnStore ==
    ASSUME GuardInv, NEW c \in Calls, NEW p \in Pks, NEW row, Store(c, p, row), pk'[c] = p
    PROVE  seen'[c] = seen[c] \cup {row} /\ rows'[p] = row
BY DEF Store, GuardInv, TypeOK

LEMMA OwnTrace ==
    ASSUME GuardInv, TraceInv, NEW c \in Calls, CallStep(c)
    PROVE  TraceOf(c)'
<1>0. TraceOf(c)
  BY DEF TraceInv
<1>t. /\ pc \in [Calls -> {"new", "lookup", "permissions", "message", "valid", "create",
                            "update", "insert", "delete", "answer", "done"}]
      /\ status \in [Calls -> {"none", "OK", "NOT_FOUND", "PERMISSION_DENIED",
                               "INVALID_ARGUMENT", "UNKNOWN", "CANCELLED"}]
  BY DEF GuardInv, TypeOK
<1>n. pc[c] # "done" /\ status[c] = "none"
  <2>1. pc[c] # "done"
    BY DEF CallStep, Receive, get_object, check_object_permissions, get_serializer, is_valid,
           perform_create, perform_update, Reinsert, perform_destroy, Answer, Cancel
  <2> QED
    BY <2>1, <1>0 DEF TraceOf
<1>1. CASE Receive(c)
  <2>1. (pc'[c] = "message" /\ operation'[c] = "Create") \/ pc'[c] = "lookup"
    BY <1>1, <1>t DEF Receive, Goto, GuardInv, TypeOK
  <2>2. status' = status
    BY <1>1 DEF Receive, Goto
  <2> QED
    BY <2>1, <2>2, <1>n DEF TraceOf, HasObject
<1>2. CASE get_object(c)
  <2>1. pk[c] \in Pks /\ seen'[c] = {rows[pk[c]]} /\ UNCHANGED <<rows, pk>>
    BY <1>2 DEF get_object, GuardInv, Located, TypeOK
  <2>2. CASE rows[pk[c]] = NoRow
    <3>1. pc'[c] = "done" /\ status'[c] = "NOT_FOUND"
      BY <1>2, <2>2, <1>t DEF get_object, End
    <3> QED
      BY <2>1, <2>2, <3>1 DEF TraceOf, HasObject
  <2>3. CASE rows[pk[c]] # NoRow
    <3>1. pc'[c] = "permissions" /\ status'[c] = "none" /\ instance'[c] = rows[pk[c]]
      BY <1>2, <2>3, <1>t, <1>n DEF get_object, Goto, GuardInv, TypeOK
    <3> QED
      BY <2>1, <3>1 DEF TraceOf, HasObject
  <2> QED
    BY <2>2, <2>3
<1>3. CASE check_object_permissions(c)
  <2>1. UNCHANGED <<operation, pk, request, instance, data, rows, seen>>
    BY <1>3 DEF check_object_permissions, KeepTable
  <2>2. CASE End(c, "PERMISSION_DENIED")
    <3>1. pc'[c] = "done" /\ status'[c] = "PERMISSION_DENIED"
      BY <2>2, <1>t DEF End
    <3> QED
      BY <3>1, <2>1 DEF TraceOf, HasObject
  <2>3. CASE Goto(c, AfterObject(c))
    <3>1. /\ pc[c] = "permissions" /\ status'[c] = "none"
          /\ \/ pc'[c] = "answer" /\ operation[c] = "Retrieve"
             \/ pc'[c] = "delete" /\ operation[c] = "Destroy"
             \/ pc'[c] = "message"
      BY <2>3, <1>3, <1>t, <1>n
         DEF check_object_permissions, Goto, AfterObject, GuardInv, Located
    <3> QED
      BY <3>1, <2>1, <1>0 DEF TraceOf, HasObject, Honest
  <2> QED
    BY <1>3, <2>2, <2>3 DEF check_object_permissions
<1>4. CASE get_serializer(c)
  <2>1. UNCHANGED <<operation, pk, request, instance, rows, seen>> /\ pc[c] = "message"
    BY <1>4 DEF get_serializer, KeepTable
  <2>2. CASE pc'[c] = "done"
    <3>1. status'[c] \in {"INVALID_ARGUMENT", "UNKNOWN"}
      BY <2>2, <1>4, <1>t DEF get_serializer, Goto, End
    <3> QED
      BY <3>1, <2>1, <2>2 DEF TraceOf, HasObject
  <2>3. CASE pc'[c] # "done"
    <3>1. /\ pc'[c] = "valid" /\ status'[c] = "none"
          /\ data'[c] = [f \in Fields |-> Cleaned(c, f)]
      BY <2>3, <1>4, <1>t, <1>n DEF get_serializer, Goto, End, GuardInv, TypeOK
    <3>2. ASSUME Partial(c), NEW f \in Fields \ request[c].listed
          PROVE  Cleaned(c, f) = Unset
      BY <3>2 DEF Cleaned, get_cleaned_field_value
    <3>3. Partial(c)' = Partial(c)
      BY <2>1 DEF Partial
    <3> QED
      BY <3>1, <3>2, <3>3, <2>1, <1>0 DEF TraceOf, HasObject
  <2> QED
    BY <2>2, <2>3
<1>5. CASE is_valid(c)
  <2>1. UNCHANGED <<operation, pk, request, instance, rows, seen>> /\ pc[c] = "valid"
    BY <1>5 DEF is_valid, KeepTable
  <2>2. CASE End(c, "INVALID_ARGUMENT")
    <3>1. pc'[c] = "done" /\ status'[c] = "INVALID_ARGUMENT"
      BY <2>2, <1>t DEF End
    <3> QED
      BY <3>1, <2>1 DEF TraceOf, HasObject
  <2>3. CASE ~End(c, "INVALID_ARGUMENT")
    <3> DEFINE valid(f) == validated_values(kind[f], data[c][f], Partial(c))
    <3>1. PICK d \in [Fields -> UNION {valid(f) : f \in Fields}] :
            /\ \A f \in Fields : d[f] \in valid(f) \ {Invalid}
            /\ data' = [data EXCEPT ![c] = d]
            /\ Goto(c, NextAfterValid(c))
      BY <2>3, <1>5 DEF is_valid
    <3>2. /\ data'[c] = d /\ status'[c] = "none"
          /\ \/ pc'[c] = "create" /\ operation[c] = "Create"
             \/ pc'[c] = "update" /\ operation[c] \in {"Update", "PartialUpdate"}
      BY <3>1, <2>1, <1>t, <1>n DEF Goto, NextAfterValid, GuardInv, TypeOK, Located
    <3>3. ASSUME Partial(c), NEW f \in Fields \ request[c].listed
          PROVE  d[f] = Unset
      <4>1. data[c][f] = Unset
        BY <3>3, <2>1, <1>0 DEF TraceOf
      <4>2. valid(f) = {Unset}
        BY <4>1, <3>3, ValuesAssumption DEF validated_values, Defaults
      <4> QED
        BY <4>2, <3>1
    <3>4. Partial(c)' = Partial(c)
      BY <2>1 DEF Partial
    <3> HIDE DEF valid
    <3> QED
      BY <3>2, <3>3, <3>4, <2>1, <1>0 DEF TraceOf, HasObject
  <2> QED
    BY <2>2, <2>3
<1>6. CASE perform_create(c)
  <2>0. operation'[c] = operation[c] /\ pc[c] = "create"
    BY <1>6 DEF perform_create
  <2>1. CASE End(c, "UNKNOWN")
    <3>1. pc'[c] = "done" /\ status'[c] = "UNKNOWN"
      BY <2>1, <1>t DEF End
    <3> QED
      BY <3>1 DEF TraceOf, HasObject
  <2>2. CASE ~End(c, "UNKNOWN")
    <3> DEFINE row == [f \in Fields |-> IF data[c][f] = Unset THEN column_default(kind[f])
                                       ELSE data[c][f]]
    <3>1. PICK p \in Pks \ used :
            /\ pk' = [pk EXCEPT ![c] = p] /\ instance' = [instance EXCEPT ![c] = row]
            /\ Store(c, p, row) /\ Goto(c, "answer")
      BY <1>6, <2>2 DEF perform_create
    <3> HIDE DEF row
    <3>2. pk'[c] = p /\ instance'[c] = row /\ pc'[c] = "answer" /\ status'[c] = "none"
      BY <3>1, <1>t, <1>n DEF Goto, GuardInv, TypeOK
    <3>3. row \in seen'[c]
      BY <3>1, <3>2, OwnStore
    <3>4. operation[c] # "Destroy"
      BY <2>0, <1>0 DEF TraceOf
    <3> QED
      BY <3>2, <3>3, <3>4, <2>0 DEF TraceOf, HasObject, Honest
  <2> QED
    BY <2>1, <2>2
<1>7. CASE perform_update(c)
  <2>1. /\ pc[c] = "update" /\ operation[c] \in {"Update", "PartialUpdate"}
        /\ pk[c] \in Pks /\ rows[pk[c]] \in seen[c] /\ instance[c] \in seen[c]
        /\ instance[c] # NoRow /\ UNCHANGED <<operation, pk, request>>
    BY <1>7, <1>0, RowsAssumption
       DEF perform_update, TraceOf, HasObject, GuardInv, Located, TypeOK
  <2>2. CASE rows[pk[c]] = NoRow
    <3>1. pc'[c] = "insert" /\ status'[c] = "none" /\ UNCHANGED <<rows, seen>>
      BY <1>7, <2>2, <1>t, <1>n DEF perform_update, Goto
    <3> QED
      BY <3>1, <2>1 DEF TraceOf, HasObject
  <2>3. CASE rows[pk[c]] # NoRow
    <3>1. /\ pc'[c] = "answer" /\ status'[c] = "none" /\ instance'[c] = Assigned(c)
          /\ Store(c, pk[c], Assigned(c))
      BY <1>7, <2>3, <1>t, <1>n DEF perform_update, Goto, GuardInv, TypeOK
    <3>2. Assigned(c) \in seen'[c]
      BY <3>1, <2>1, OwnStore
    <3> QED
      BY <3>1, <3>2, <2>1 DEF TraceOf, HasObject, Honest
  <2> QED
    BY <2>2, <2>3
<1>8. CASE Reinsert(c)
  <2>1. /\ pc[c] = "insert" /\ operation[c] \in {"Update", "PartialUpdate"}
        /\ pk[c] \in Pks /\ UNCHANGED <<operation, pk, request, instance, data>>
    BY <1>8, <1>0 DEF Reinsert, TraceOf, HasObject, GuardInv, Located, TypeOK
  <2>2. CASE rows[pk[c]] # NoRow
    <3>1. pc'[c] = "done" /\ status'[c] = "UNKNOWN"
      BY <1>8, <2>2, <1>t DEF Reinsert, End
    <3> QED
      BY <3>1 DEF TraceOf, HasObject
  <2>3. CASE rows[pk[c]] = NoRow
    <3>1. pc'[c] = "answer" /\ status'[c] = "none" /\ Store(c, pk[c], instance[c])
      BY <1>8, <2>3, <1>t, <1>n DEF Reinsert, Goto
    <3>2. instance[c] \in seen'[c]
      BY <3>1, <2>1, OwnStore
    <3> QED
      BY <3>1, <3>2, <2>1 DEF TraceOf, HasObject, Honest
  <2> QED
    BY <2>2, <2>3
<1>9. CASE perform_destroy(c)
  <2>1. /\ pc[c] = "delete" /\ operation[c] = "Destroy"
        /\ pk[c] \in Pks /\ UNCHANGED <<operation, pk>>
        /\ pc'[c] = "answer" /\ status'[c] = "none" /\ Store(c, pk[c], NoRow)
    BY <1>9, <1>0, <1>t, <1>n
       DEF perform_destroy, Goto, TraceOf, HasObject, GuardInv, Located, TypeOK
  <2>2. NoRow \in seen'[c]
    BY <2>1, OwnStore
  <2> QED
    BY <2>1, <2>2 DEF TraceOf, HasObject, Honest
<1>10. CASE Answer(c) \/ Cancel(c)
  <2>1. /\ UNCHANGED <<operation, instance, seen>> /\ pc'[c] = "done"
        /\ \/ pc[c] = "answer" /\ status'[c] = "OK"
           \/ status'[c] \in {"UNKNOWN", "CANCELLED"}
    BY <1>10, <1>t DEF Answer, Cancel, End, KeepTable
  <2> QED
    BY <2>1, <1>0 DEF TraceOf, HasObject, Honest
<1> QED
  BY <1>1, <1>2, <1>3, <1>4, <1>5, <1>6, <1>7, <1>8, <1>9, <1>10 DEF CallStep

LEMMA StepTrace == GuardInv /\ TraceInv /\ [Next]_vars => TraceInv'
<1> SUFFICES ASSUME GuardInv, TraceInv, [Next]_vars PROVE TraceInv'
  OBVIOUS
<1>1. CASE UNCHANGED vars
  BY <1>1 DEF vars, TraceInv, TraceOf, HasObject, Honest, Partial
<1>2. ASSUME NEW c \in Calls, CallStep(c) PROVE TraceInv'
  BY <1>2, OwnTrace, OthersTrace DEF TraceInv
<1> QED
  BY <1>1, <1>2 DEF Next

(* TraceInv is an invariant of the mixins. *)
THEOREM Trace == Spec => []TraceInv
BY InitTrace, StepTrace, Guard, PTL DEF Spec

(* AnswersWereTrue, for any number of calls racing over any rows: OK means the *)
(* row was what the answer says, and NOT_FOUND that there was none.            *)
THEOREM AnswersTrue == Spec => []AnswersWereTrue
<1>1. TraceInv => AnswersWereTrue
  BY DEF TraceInv, TraceOf, Honest, AnswersWereTrue
<1> QED
  BY <1>1, Trace, PTL

LEMMA StepKeepsUnlisted ==
    ASSUME GuardInv, TraceInv, [Next]_vars,
           NEW c \in Calls, Partial(c), pc[c] = "update", pc'[c] # "done",
           NEW f \in Fields \ request[c].listed
    PROVE  \E row \in seen[c] \ {NoRow} : instance'[c][f] = row[f]
<1>1. /\ instance[c] \in seen[c] /\ instance[c] # NoRow /\ data[c][f] = Unset
      /\ instance \in [Calls -> Rows \cup {NoRow}]
  BY RowsAssumption DEF TraceInv, TraceOf, HasObject, GuardInv, TypeOK, Located
<1>2. CASE UNCHANGED vars
  BY <1>1, <1>2 DEF vars
<1>3. ASSUME NEW d \in Calls, CallStep(d), d # c
      PROVE  instance'[c] = instance[c]
  BY <1>3, OthersKept
<1>4. CASE CallStep(c)
  <2>1. pc \in [Calls -> {"new", "lookup", "permissions", "message", "valid", "create",
                          "update", "insert", "delete", "answer", "done"}]
    BY DEF GuardInv, TypeOK
  <2>2. perform_update(c)
    BY <1>4, <2>1 DEF CallStep, Receive, get_object, check_object_permissions, get_serializer,
                      is_valid, perform_create, Reinsert, perform_destroy, Answer, Cancel, End
  <2>3. instance'[c][f] = instance[c][f]
    BY <1>1, <2>2 DEF perform_update, Assigned
  <2> QED
    BY <1>1, <2>3
<1> QED
  BY <1>1, <1>2, <1>3, <1>4 DEF Next

(* UnlistedFieldsKept, for any message and race: PartialUpdate saves a column  *)
(* that is not listed with a value it has had since the look-up.               *)
THEOREM UnlistedKept == Spec => UnlistedFieldsKept
<1>1. GuardInv /\ TraceInv /\ [Next]_vars =>
        [\A c \in Calls :
            Partial(c) /\ pc[c] = "update" /\ pc'[c] # "done" =>
                \A f \in Fields \ request[c].listed :
                    \E row \in seen[c] \ {NoRow} : instance'[c][f] = row[f]]_vars
  BY StepKeepsUnlisted
<1> QED
  BY <1>1, Guard, Trace, PTL DEF Spec, UnlistedFieldsKept

LEMMA StepRowsKnown ==
    ASSUME GuardInv, TraceInv, NEW d \in Calls, CallStep(d),
           NEW p \in Pks, rows[p] = NoRow, rows'[p] # NoRow, p \in used
    PROVE  /\ pc[d] = "insert" /\ pk[d] = p
           /\ NoRow \in seen[d] /\ seen[d] # {NoRow}
<1>1. rows \in [Pks -> Rows \cup {NoRow}] /\ pk \in [Calls -> Pks \cup {Null}]
  BY DEF GuardInv, TypeOK
<1>2. ~perform_create(d)
  BY <1>1 DEF perform_create, Store, KeepTable
<1>3. ~perform_update(d)
  BY <1>1 DEF perform_update, Store
<1>4. ~perform_destroy(d)
  BY <1>1 DEF perform_destroy, Store
<1>5. ~get_object(d)
  BY DEF get_object
<1>6. Reinsert(d)
  BY <1>2, <1>3, <1>4, <1>5
     DEF CallStep, Receive, check_object_permissions, get_serializer, is_valid, Answer, Cancel,
         KeepTable
<1>7. pc[d] = "insert" /\ pk[d] = p
  BY <1>1, <1>6 DEF Reinsert, Store
<1> QED
  BY <1>7 DEF TraceInv, TraceOf, HasObject

(* RowsAppearKnowingly, for any calls: only an update that had found a row     *)
(* brings one back with its key.                                               *)
THEOREM RowsKnown == Spec => RowsAppearKnowingly
<1>1. GuardInv /\ TraceInv /\ [Next]_vars =>
        [\A p \in Pks : rows[p] = NoRow /\ rows'[p] # NoRow =>
            \/ p \notin used
            \/ \E c \in Calls : /\ pc[c] = "insert" /\ pk[c] = p
                                /\ NoRow \in seen[c] /\ seen[c] # {NoRow}]_vars
  BY StepRowsKnown DEF Next
<1> QED
  BY <1>1, Guard, Trace, PTL DEF Spec, RowsAppearKnowingly

--------------------------------------------------------------------------------
(* What the documentation says of a field that is not set, operation by        *)
(* operation.                                                                  *)
LEMMA PartialUpdateDocumented ==
    ASSUME NEW k \in FieldKinds, k.default # "None", NEW listed \in BOOLEAN,
           NEW updating \in BOOLEAN, NEW v, v # Invalid,
           v \in validated_values(k, get_cleaned_field_value(k, Unset, TRUE, listed, updating),
                                  TRUE)
    PROVE  v \in Documented(k, "PartialUpdate", listed)
<1> DEFINE datum == get_cleaned_field_value(k, Unset, TRUE, listed, updating)
<1>0. "proto" # Unset /\ "proto" # Null /\ "ser" # Null /\ "ser" # Unset /\ Null # Unset
  BY ValuesAssumption DEF Defaults
<1>1. datum = IF listed THEN get_partial_field_value(k) ELSE Unset
  BY <1>0 DEF get_cleaned_field_value
<1> HIDE DEF datum
<1>2. CASE ~listed
  <2>1. validated_values(k, datum, TRUE) = {Unset}
    BY <1>0, <1>1, <1>2 DEF validated_values
  <2> QED
    BY <1>2, <2>1 DEF Documented, datum
<1>3. CASE listed
  <2>1. v = datum
    BY <1>0, <1>1, <1>3, KindFacts DEF validated_values, get_partial_field_value, datum
  <2> QED
    BY <1>0, <1>1, <1>3, <2>1, KindFacts DEF Documented, get_partial_field_value
<1> QED
  BY <1>2, <1>3

LEMMA UnsetNotNullable ==
    ASSUME NEW k \in FieldKinds, Optional(k), ~k.allow_null, k.default # "None",
           NEW updating \in BOOLEAN, NEW v, v # Invalid,
           v \in validated_values(k, get_cleaned_field_value(k, Unset, FALSE, FALSE, updating),
                                  FALSE)
    PROVE  v = IF k.default = "ser" THEN "ser" ELSE Unset
<1>0. "proto" # Unset /\ "ser" # Unset /\ Null # Unset
  BY ValuesAssumption DEF Defaults
<1>1. ~k.required /\ k.required \in BOOLEAN /\ k.default \in {"empty", "ser"}
  BY KindFacts DEF Optional, FieldKinds
<1>2. ~is_field_accept_null_value(k)
  BY <1>1 DEF is_field_accept_null_value
<1>3. get_cleaned_field_value(k, Unset, FALSE, FALSE, updating) = Unset
  BY <1>0, <1>2 DEF get_cleaned_field_value, get_nullable_field_value
<1> QED
  BY <1>0, <1>1, <1>3 DEF validated_values

LEMMA UpdateDocumented ==
    ASSUME NEW k \in FieldKinds, Optional(k), k.default # "None", NEW v, v # Invalid,
           v \in validated_values(k, get_cleaned_field_value(k, Unset, FALSE, FALSE, TRUE),
                                  FALSE)
    PROVE  v \in Documented(k, "Update", FALSE)
<1>0. "proto" # Unset /\ Null # Unset
  BY ValuesAssumption DEF Defaults
<1>1. CASE k.allow_null
  <2>1. get_cleaned_field_value(k, Unset, FALSE, FALSE, TRUE) = Null
    BY <1>0, <1>1 DEF get_cleaned_field_value, get_nullable_field_value,
                      is_field_accept_null_value
  <2>2. v = Null
    BY <1>0, <1>1, <2>1 DEF validated_values
  <2> QED
    BY <1>1, <2>2 DEF Documented
<1>2. CASE ~k.allow_null
  BY <1>2, UnsetNotNullable DEF Documented
<1> QED
  BY <1>1, <1>2, KindFacts

LEMMA CreateDocumented ==
    ASSUME NEW k \in FieldKinds, Optional(k), k.default # "None", NEW v, v # Invalid,
           ~(k.allow_null /\ k.default = "ser"),
           v \in validated_values(k, get_cleaned_field_value(k, Unset, FALSE, FALSE, FALSE),
                                  FALSE)
    PROVE  v \in Documented(k, "Create", FALSE)
<1>0. /\ "proto" # Unset /\ Null # Unset /\ "model" # Null /\ "model" # Unset
      /\ k.attribute \in {"default", "plain", "none"}
  BY ValuesAssumption, KindFacts DEF Defaults
<1>1. CASE k.allow_null
  <2>1. k.default = "empty"
    BY <1>1, KindFacts
  <2>2. get_cleaned_field_value(k, Unset, FALSE, FALSE, FALSE)
            = get_nullable_field_value(k, FALSE, FALSE)
    BY <1>0 DEF get_cleaned_field_value
  <2>3. get_nullable_field_value(k, FALSE, FALSE)
            = IF k.attribute = "default" THEN "model" ELSE Null
    BY <1>0, <1>1, <2>1 DEF get_nullable_field_value, is_field_accept_null_value,
                            get_default_field_value
  <2>4. v = IF k.attribute = "default" THEN "model" ELSE Null
    BY <1>0, <1>1, <2>2, <2>3 DEF validated_values
  <2>5. {d \in {"model", "ser"} : IF d = "ser" THEN k.default = "ser"
                                  ELSE k.attribute = "default"}
            = IF k.attribute = "default" THEN {"model"} ELSE {}
    BY <2>1
  <2> QED
    BY <1>1, <2>4, <2>5 DEF Documented
<1>2. CASE ~k.allow_null
  BY <1>2, UnsetNotNullable DEF Documented
<1> QED
  BY <1>1, <1>2, KindFacts
--------------------------------------------------------------------------------
(* A call has written only where its answer is all that is left of it, and     *)
(* from there ends well, or is cancelled, or cannot show what is in the row.   *)
Written(c) ==
    /\ wrote[c] => pc[c] \in {"answer", "done"}
    /\ wrote[c] => status[c] \in {"none", "OK", "CANCELLED"} \/ MayMismatch(c)

(* Up to the table, data is made of the request as it was received. *)
Derived(c) ==
    /\ pc[c] \in {"lookup", "permissions", "message", "valid", "create", "update"} =>
          request[c] \in Requests(c, operation[c])
    /\ pc[c] = "valid" => \A f \in Fields : data[c][f] = Cleaned(c, f)
    /\ Storing(c) =>
          \A f \in Fields : /\ data[c][f] # Invalid
                            /\ data[c][f] \in validated_values(kind[f], Cleaned(c, f), Partial(c))

WrittenInv == \A c \in Calls : Written(c)
DerivedInv == \A c \in Calls : Derived(c)

LEMMA KindKept == ASSUME NEW c \in Calls, CallStep(c) PROVE kind' = kind
BY DEF CallStep, Receive, get_object, check_object_permissions, get_serializer, is_valid,
       perform_create, perform_update, Reinsert, perform_destroy, Answer, Cancel

LEMMA OthersWritten ==
    ASSUME GuardInv, WrittenInv, NEW c \in Calls, CallStep(c), NEW d \in Calls, d # c
    PROVE  Written(d)'
<1>1. wrote'[d] = wrote[d]
  BY DEF CallStep, Receive, get_object, check_object_permissions, get_serializer, is_valid,
         perform_create, perform_update, Reinsert, perform_destroy, Answer, Cancel,
         KeepTable, Store, GuardInv, TypeOK
<1>2. MayMismatch(d)' <=> MayMismatch(d)
  BY KindKept, OthersKept DEF MayMismatch
<1> QED
  BY <1>1, <1>2, OthersKept DEF WrittenInv, Written

LEMMA OwnWritten ==
    ASSUME GuardInv, TraceInv, WrittenInv, NEW c \in Calls, CallStep(c)
    PROVE  Written(c)'
<1>t. /\ pc \in [Calls -> {"new", "lookup", "permissions", "message", "valid", "create",
                            "update", "insert", "delete", "answer", "done"}]
      /\ status \in [Calls -> {"none", "OK", "NOT_FOUND", "PERMISSION_DENIED",
                               "INVALID_ARGUMENT", "UNKNOWN", "CANCELLED"}]
  BY DEF GuardInv, TypeOK
<1>n. pc[c] # "done" /\ status[c] = "none"
  <2>1. pc[c] # "done"
    BY DEF CallStep, Receive, get_object, check_object_permissions, get_serializer, is_valid,
           perform_create, perform_update, Reinsert, perform_destroy, Answer, Cancel
  <2> QED
    BY <2>1 DEF TraceInv, TraceOf
<1>0. Written(c)
  BY DEF WrittenInv
<1>1. CASE Receive(c) \/ get_object(c) \/ check_object_permissions(c) \/ get_serializer(c)
           \/ is_valid(c)
  <2>1. ~wrote[c]
    BY <1>0, <1>1
       DEF Written, Receive, get_object, check_object_permissions, get_serializer, is_valid
  <2>2. wrote' = wrote
    BY <1>1 DEF Receive, get_object, check_object_permissions, get_serializer, is_valid,
                KeepTable
  <2> QED
    BY <2>1, <2>2 DEF Written
(* A query that is the last but the answer, or one that changes nothing. *)
<1>2. CASE perform_create(c) \/ perform_update(c) \/ Reinsert(c) \/ perform_destroy(c)
  <2>1. ~wrote[c]
    BY <1>0, <1>2 DEF Written, perform_create, perform_update, Reinsert, perform_destroy
  <2>2. \/ wrote' = wrote
        \/ Goto(c, "answer")
    BY <1>2 DEF perform_create, perform_update, Reinsert, perform_destroy, KeepTable
  <2>3. CASE wrote' = wrote
    BY <2>1, <2>3 DEF Written
  <2>4. CASE Goto(c, "answer")
    <3>1. pc'[c] = "answer" /\ status'[c] = "none"
      BY <2>4, <1>t, <1>n DEF Goto
    <3> QED
      BY <3>1 DEF Written
  <2> QED
    BY <2>2, <2>3, <2>4
<1>3. CASE Answer(c)
  <2>1. /\ pc'[c] = "done"
        /\ status'[c] = "OK" \/ MayMismatch(c)
        /\ MayMismatch(c)' <=> MayMismatch(c)
    BY <1>3, <1>t DEF Answer, End, MayMismatch
  <2> QED
    BY <2>1 DEF Written
<1>4. CASE Cancel(c)
  <2>1. pc'[c] = "done" /\ status'[c] = "CANCELLED"
    BY <1>4, <1>t DEF Cancel, End
  <2> QED
    BY <2>1 DEF Written
<1> QED
  BY <1>1, <1>2, <1>3, <1>4 DEF CallStep

LEMMA StepWritten == GuardInv /\ TraceInv /\ WrittenInv /\ [Next]_vars => WrittenInv'
<1> SUFFICES ASSUME GuardInv, TraceInv, WrittenInv, [Next]_vars PROVE WrittenInv'
  OBVIOUS
<1>1. CASE UNCHANGED vars
  BY <1>1 DEF vars, WrittenInv, Written, MayMismatch
<1>2. ASSUME NEW c \in Calls, CallStep(c) PROVE WrittenInv'
  BY <1>2, OwnWritten, OthersWritten DEF WrittenInv
<1> QED
  BY <1>1, <1>2 DEF Next

(* ErrorsWriteNothing, for any calls and race: a call that ends with an error  *)
(* has not changed the table, unless it was cancelled or the row it wrote      *)
(* holds what its enum column cannot show.                                     *)
THEOREM NothingWritten == Spec => []ErrorsWriteNothing
<1>1. Init => WrittenInv
  BY DEF Init, WrittenInv, Written
<1>2. WrittenInv => ErrorsWriteNothing
  BY DEF WrittenInv, Written, ErrorsWriteNothing
<1> QED
  BY <1>1, <1>2, StepWritten, Guard, Trace, PTL DEF Spec

LEMMA OthersDerived ==
    ASSUME GuardInv, DerivedInv, NEW c \in Calls, CallStep(c), NEW d \in Calls, d # c
    PROVE  Derived(d)'
<1>1. Derived(d)
  BY DEF DerivedInv
<1>2. /\ kind' = kind /\ pc'[d] = pc[d] /\ operation'[d] = operation[d]
      /\ request'[d] = request[d] /\ data'[d] = data[d]
  BY KindKept, OthersKept
<1> QED
  BY <1>1, <1>2 DEF Derived, Storing, Cleaned, Partial, Updating, Requests

(* What a step that leaves the data of its call alone has to show. *)
LEMMA RequestKept ==
    ASSUME GuardInv, DerivedInv, NEW c \in Calls, UNCHANGED <<kind, operation, request>>,
           pc[c] \in {"lookup", "permissions", "message", "valid"},
           pc'[c] \in {"permissions", "message", "answer", "delete", "done"}
    PROVE  Derived(c)'
BY DEF DerivedInv, Derived, Storing, Requests

LEMMA OwnDerived ==
    ASSUME GuardInv, DerivedInv, NEW c \in Calls, CallStep(c)
    PROVE  Derived(c)'
<1>t. pc \in [Calls -> {"new", "lookup", "permissions", "message", "valid", "create",
                        "update", "insert", "delete", "answer", "done"}]
  BY DEF GuardInv, TypeOK
<1>0. Derived(c)
  BY DEF DerivedInv
<1>1. CASE Receive(c)
  <2>1. PICK op \in Operations[c] :
          /\ operation' = [operation EXCEPT ![c] = op]
          /\ \E r \in Requests(c, op) : request' = [request EXCEPT ![c] = r]
          /\ IF op = "Create"
             THEN UNCHANGED pk /\ Goto(c, "message")
             ELSE /\ \E p \in Pks : pk' = [pk EXCEPT ![c] = p]
                  /\ Goto(c, "lookup")
    BY <1>1 DEF Receive
  <2>2. /\ operation'[c] = op /\ request'[c] \in Requests(c, op)
        /\ pc'[c] \in {"message", "lookup"} /\ kind' = kind
    BY <1>1, <1>t, <2>1 DEF Receive, Goto, GuardInv, TypeOK
  <2> QED
    BY <2>2 DEF Derived, Storing, Requests
<1>2. CASE get_object(c) \/ check_object_permissions(c)
  <2>1. /\ UNCHANGED <<kind, operation, request>>
        /\ pc[c] \in {"lookup", "permissions"}
        /\ pc'[c] \in {"permissions", "message", "answer", "delete", "done"}
    BY <1>2, <1>t DEF get_object, check_object_permissions, AfterObject, Goto, End,
                      GuardInv, Located
  <2> QED
    BY <2>1, RequestKept
<1>3. CASE get_serializer(c)
  <2>1. UNCHANGED <<kind, operation, request>> /\ pc[c] = "message"
    BY <1>3 DEF get_serializer
  <2>2. \/ pc'[c] = "done"
        \/ pc'[c] = "valid" /\ data'[c] = [f \in Fields |-> Cleaned(c, f)]
    BY <1>3, <1>t DEF get_serializer, Goto, End, GuardInv, TypeOK
  <2>3. CASE pc'[c] = "done"
    BY <2>1, <2>3, RequestKept
  <2>4. CASE pc'[c] = "valid" /\ data'[c] = [f \in Fields |-> Cleaned(c, f)]
    <3>1. request[c] \in Requests(c, operation[c])
      BY <1>0, <2>1 DEF Derived
    <3> QED
      BY <2>1, <2>4, <3>1 DEF Derived, Storing, Cleaned, Partial, Updating, Requests
  <2> QED
    BY <2>2, <2>3, <2>4
<1>4. CASE is_valid(c)
  <2>1. /\ UNCHANGED <<kind, operation, request>> /\ pc[c] = "valid"
        /\ request[c] \in Requests(c, operation[c])
        /\ \A f \in Fields : data[c][f] = Cleaned(c, f)
    BY <1>0, <1>4 DEF is_valid, Derived
  <2>2. CASE End(c, "INVALID_ARGUMENT")
    <3>1. pc'[c] = "done"
      BY <2>2, <1>t DEF End
    <3> QED
      BY <2>1, <3>1, RequestKept
  <2>3. CASE ~End(c, "INVALID_ARGUMENT")
    <3> DEFINE valid(f) == validated_values(kind[f], data[c][f], Partial(c))
    <3>1. PICK d \in [Fields -> UNION {valid(f) : f \in Fields}] :
            /\ \A f \in Fields : d[f] \in valid(f) \ {Invalid}
            /\ data' = [data EXCEPT ![c] = d]
            /\ Goto(c, NextAfterValid(c))
      BY <1>4, <2>3 DEF is_valid
    <3>2. data'[c] = d /\ pc'[c] \in {"create", "update"}
      BY <3>1, <1>t DEF Goto, NextAfterValid, GuardInv, TypeOK
    <3>3. \A f \in Fields : d[f] # Invalid
                            /\ d[f] \in validated_values(kind[f], Cleaned(c, f), Partial(c))
      BY <3>1, <2>1
    <3> HIDE DEF valid
    <3> QED
      BY <2>1, <3>2, <3>3 DEF Derived, Storing, Cleaned, Partial, Updating, Requests
  <2> QED
    BY <2>2, <2>3
<1>5. CASE perform_create(c) \/ perform_update(c) \/ Reinsert(c) \/ perform_destroy(c)
           \/ Answer(c) \/ Cancel(c)
  <2>1. pc'[c] \in {"insert", "answer", "done"}
    BY <1>5, <1>t DEF perform_create, perform_update, Reinsert, perform_destroy, Answer, Cancel,
                      Goto, End
  <2> QED
    BY <2>1 DEF Derived, Storing
<1> QED
  BY <1>1, <1>2, <1>3, <1>4, <1>5 DEF CallStep

LEMMA StepDerived == GuardInv /\ DerivedInv /\ [Next]_vars => DerivedInv'
<1> SUFFICES ASSUME GuardInv, DerivedInv, [Next]_vars PROVE DerivedInv'
  OBVIOUS
<1>1. CASE UNCHANGED vars
  BY <1>1 DEF vars, DerivedInv, Derived, Storing, Cleaned, Partial, Updating, Requests
<1>2. ASSUME NEW c \in Calls, CallStep(c) PROVE DerivedInv'
  BY <1>2, OwnDerived, OthersDerived DEF DerivedInv
<1> QED
  BY <1>1, <1>2 DEF Next

LEMMA DerivedAsDocumented ==
    ASSUME GuardInv, TraceInv, DerivedInv PROVE UnsetAsDocumented
<1> SUFFICES ASSUME NEW c \in Calls, Storing(c), ~(Creates(c) /\ Updating(c)),
                    NEW f \in UnsetFields(c), ~(Creates(c) /\ DefaultedNull(f))
             PROVE  data[c][f] \in Documented(kind[f], operation[c], f \in request[c].listed)
  BY DEF UnsetAsDocumented
<1> DEFINE k == kind[f]
           r == request[c]
           v == data[c][f]
<1>1. /\ f \in Fields /\ r.sent[f] = Unset /\ k.default # "None" /\ k \in FieldKinds
      /\ v # Invalid /\ v \in validated_values(k, Cleaned(c, f), Partial(c))
      /\ r \in Requests(c, operation[c]) /\ r.hasPk \in BOOLEAN
  BY DEF UnsetFields, DerivedInv, Derived, Storing, GuardInv, TypeOK, RequestsOf
<1>2. /\ operation[c] \in {"Create", "Update", "PartialUpdate"}
      /\ Optional(k)
      /\ operation[c] # "PartialUpdate" => f \notin r.listed
      /\ operation[c] # "Create" => r.hasPk
  <2>1. operation[c] \in {"Create", "Update", "PartialUpdate"}
    BY DEF Storing, TraceInv, TraceOf
  <2> QED
    BY <1>1, <2>1 DEF Requests
<1>3. Cleaned(c, f) = get_cleaned_field_value(k, Unset, Partial(c), f \in r.listed, r.hasPk)
  BY <1>1 DEF Cleaned, Updating
<1> HIDE DEF k, r, v
<1>4. CASE operation[c] = "PartialUpdate"
  <2>1. Partial(c) = TRUE
    BY <1>4 DEF Partial
  <2>2. \A listed \in BOOLEAN :
          v \in validated_values(k, get_cleaned_field_value(k, Unset, TRUE, listed, r.hasPk), TRUE)
            => v \in Documented(k, "PartialUpdate", listed)
    BY <1>1, PartialUpdateDocumented
  <2>3. (f \in r.listed) \in BOOLEAN
    OBVIOUS
  <2> QED
    BY <1>1, <1>3, <1>4, <2>1, <2>2, <2>3 DEF k, r, v
<1>5. CASE operation[c] = "Update"
  <2>1. Partial(c) = FALSE /\ (f \in r.listed) = FALSE /\ r.hasPk = TRUE
    BY <1>1, <1>2, <1>5 DEF Partial
  <2> QED
    BY <1>1, <1>2, <1>3, <1>5, <2>1, UpdateDocumented DEF k, r, v
<1>6. CASE operation[c] = "Create"
  <2>1. Partial(c) = FALSE /\ (f \in r.listed) = FALSE /\ r.hasPk = FALSE
    BY <1>1, <1>2, <1>6 DEF Partial, Creates, Updating, r
  <2>2. ~(k.allow_null /\ k.default = "ser")
    BY <1>6 DEF Creates, DefaultedNull, k
  <2> QED
    BY <1>1, <1>2, <1>3, <1>6, <2>1, <2>2, CreateDocumented DEF k, r, v
<1> QED
  BY <1>2, <1>4, <1>5, <1>6

(* UnsetAsDocumented, for any field and race: what is stored for a field that  *)
(* is not set is what docs/features/proto-serializers.rst says, but for the    *)
(* two cases the property leaves out.                                          *)
THEOREM StoredAsDocumented == Spec => []UnsetAsDocumented
<1>1. Init => DerivedInv
  BY DEF Init, DerivedInv, Derived, Storing
<1> QED
  BY <1>1, StepDerived, DerivedAsDocumented, Guard, Trace, PTL DEF Spec

================================================================================
