---------------------------- MODULE ProtoMessages ----------------------------
(* From the declaration of an action to the messages of its RPC: introspection *)
(* of serializers, lists of field dictionaries, names, generation plugins, and *)
(* the collection of the messages of a service by their names.                 *)
EXTENDS Integers, FiniteSets, SequencesExt

CONSTANTS
    Serializers,   \* serializer classes
    FieldsOf,      \* FieldsOf[z]: the fields of serializer z, in order
    PkOf,          \* PkOf[z]: the name of the primary key of its model
    BaseOf,        \* BaseOf[z]: the words of its class name before "Serializer"
    NoSerializer

ASSUME SerializersAssumption ==
    /\ IsFiniteSet(Serializers)
    /\ \A z \in Serializers :
          /\ FieldsOf[z] \in Seq(Range(FieldsOf[z]))
          /\ \A f \in Range(FieldsOf[z]) : f.kind \in {"nested", "method"} => f.of \in Serializers
          /\ \A f, g \in Range(FieldsOf[z]) : f.name = g.name => f = g

(* A field of a serializer: how it is declared, and the serializer or enum of  *)
(* a nested, method or choice field.                                           *)
FieldKinds == {"simple", "hidden", "choice", "struct", "nested", "method"}

(* Names are sequences of words, so that suffixes are last words. A type is a  *)
(* scalar, an enum, a name to be found in the file, or a message: made, with   *)
(* below, the messages nested in it by name, or one of these, by its name.     *)
Text == [kind |-> "text"]
Enum(e) == [kind |-> "enum", name |-> <<e>>]
Named(name) == [kind |-> "name", name |-> name]
Ref(name) == [kind |-> "ref", name |-> name]
Made(m, below) == [kind |-> "message", message |-> m, below |-> below]
ProtoField(name, type) == [name |-> name, type |-> type]

Message(name, fields, serializer) ==
    [name |-> name, fields |-> fields, serializer |-> serializer, imported |-> FALSE]
Imported(name) ==
    [name |-> <<name>>, fields |-> <<>>, serializer |-> NoSerializer, imported |-> TRUE]
EmptyMessage == Made(Imported("google.protobuf.Empty"), <<>>)
StructMessage == Made(Imported("google.protobuf.Struct"), <<>>)

MapEach(seq, Op(_)) == [i \in DOMAIN seq |-> Op(seq[i])]

(* The elements of seq that are in S, in their order. *)
Select(seq, S) ==
    LET turn[i \in 0 .. Len(seq)] ==
            IF i = 0 THEN <<>>
            ELSE IF seq[i] \in S THEN Append(turn[i - 1], seq[i]) ELSE turn[i - 1]
    IN  turn[Len(seq)]

(* dict.update, one after the other: of a key, the last value stays. *)
UpdateAll(dicts) ==
    LET having(n) == {i \in DOMAIN dicts : n \in DOMAIN dicts[i]}
        last(n) == CHOOSE i \in having(n) : \A j \in having(n) : j <= i
    IN  [n \in UNION {DOMAIN dicts[i] : i \in DOMAIN dicts} |-> dicts[last(n)][n]]

(* get_all_messages: the message and those nested in it, by name. *)
MessagesOf(type) ==
    IF type.kind # "message" THEN <<>>
    ELSE UpdateAll(<<[n \in {type.message.name} |-> type.message], type.below>>)

(* A message of fields that have types of their own; get_all_messages visits   *)
(* these in order.                                                             *)
Flat(f) == IF f.type.kind = "message" THEN ProtoField(f.name, Ref(f.type.message.name)) ELSE f
NewMessage(name, fields, serializer) ==
    Made(Message(name, MapEach(fields, Flat), serializer),
         UpdateAll(MapEach(fields, LAMBDA f : MessagesOf(f.type))))

(* The suffix of the message classes, none of which is the plain ProtoMessage. *)
Suffix(class) == IF class = "Message" THEN <<>> ELSE <<class>>
(* Mutant: nested messages are named after their serializer alone. *)
DefaultName_bare(serializer, class) == BaseOf[serializer]

DefaultName(serializer, class) == BaseOf[serializer] \o Suffix(class)

(* Mutant: the primary key is not looked at, the direction is forgotten. *)
skip_field_hiddenOnly(class, f, pk) == f.kind = "hidden"

skip_field(class, f, pk) ==
    \/ f.kind = "hidden"
    \/ class = "Request" /\ f.name # pk /\ f.read_only
    \/ class = "Response" /\ f.name # pk /\ f.write_only

(* The fields a message class keeps of a serializer. *)
Kept(class, z) ==
    Select(FieldsOf[z], {f \in Range(FieldsOf[z]) : ~skip_field(class, f, PkOf[z])})

(* A method field is typed by what its method returns, a serializer here.      *)
MethodReturns(f) == IF f.kind = "method" THEN {<<"Response", f.of>>} ELSE {}

(* The message class and serializer a field is converted with, if it is with   *)
(* one: only a serializer nested directly in itself is not followed.           *)
Follows(class, z, f) ==
    MethodReturns(f) \cup (IF f.kind = "nested" /\ f.of # z THEN {<<class, f.of>>} ELSE {})

(* Introspection goes no deeper than there are classes with serializers, or    *)
(* does not end: Introspected[n] are those where it ends within n levels.      *)
Pairs == {"Message", "Request", "Response"} \X Serializers
Depth == Cardinality(Pairs)

Introspected[n \in 0 .. Depth] ==
    IF n = 0 THEN {}
    ELSE LET done == Introspected[n - 1]
         IN  {p \in Pairs : \A f \in Range(Kept(p[1], p[2])) : Follows(p[1], p[2], f) \subseteq done}

Endless(class, z) == <<class, z>> \notin Introspected[Depth]

(* Mutant: a serializer nested in itself refers to its default name. *)
RecursiveName_default(name, class, z) == DefaultName(z, class)

RecursiveName(name, class, z) == IF name # <<>> THEN name ELSE DefaultName(z, class)

(* The message of a serializer, with the name <<>> for none, when made has     *)
(* those of the serializers nested in it.                                      *)
SerializerMessage(class, z, name, made) ==
    LET field(f) ==
            ProtoField(f.name,
                CASE f.kind = "nested" /\ f.of = z -> Named(RecursiveName(name, class, z))
                  [] f.kind = "struct" -> StructMessage
                  [] \E next \in Follows(class, z, f) : TRUE ->
                        made[CHOOSE next \in Follows(class, z, f) : TRUE]
                  [] OTHER -> Text)
    IN  NewMessage(IF name = <<>> THEN DefaultName(z, class) ELSE name,
                   MapEach(Kept(class, z), field), z)

(* What is made of the nested serializers, which have no name of their own,    *)
(* down to n levels.                                                           *)
Converted[n \in 0 .. Depth] ==
    [p \in Pairs |-> IF n = 0 THEN EmptyMessage
                     ELSE SerializerMessage(p[1], p[2], <<>>, Converted[n - 1])]

from_serializer(class, z, name) == SerializerMessage(class, z, name, Converted[Depth])

(* PRIMITIVE_TYPES: two names stand for the messages of google. *)
OfString(name) ==
    CASE name = EmptyMessage.message.name -> EmptyMessage
      [] name = StructMessage.message.name -> StructMessage
      [] OTHER -> Named(name)

(* A field dictionary: a serializer there is named by its whole class name and *)
(* converted by the plain ProtoMessage, whatever the direction.                *)
from_field_dict(d) ==
    ProtoField(d.name,
        CASE d.kind = "nested" -> from_serializer("Message", d.of, BaseOf[d.of] \o <<"Serializer">>)
          [] d.kind = "choice" -> [kind |-> "class", name |-> <<d.of>>]
          [] d.kind = "name" -> OfString(d.of)
          [] OTHER -> Text)

(* The serializer of a declared value, already resolved for a service. *)
SerializersIn(value) ==
    CASE value.kind = "serializer" -> {value.serializer}
      [] value.kind = "dicts" -> {d.of : d \in {e \in Range(value.fields) : e.kind = "nested"}}
      [] OTHER -> {}

(* ProtoMessage.create: the type of the request or response. *)
create(class, value, name) ==
    CASE value.kind = "serializer" -> from_serializer(class, value.serializer, name)
      [] value.kind = "string" -> OfString(value.name)
      [] OTHER -> NewMessage(name, MapEach(value.fields, from_field_dict), NoSerializer)
--------------------------------------------------------------------------------
(* DefaultMessageNameConstructor. side is "Request" or "Response", given the   *)
(* explicit name or <<>>, before the word a list puts before the suffix.       *)
EndsWith(name, words) == words # <<>> /\ IsSuffix(words, name)

construct_base_name(value, serviceName, action) ==
    IF value.kind = "serializer" THEN BaseOf[value.serializer] ELSE serviceName \o <<action>>

Insert(stem, before) ==
    IF before = <<>> \/ EndsWith(stem, before) THEN stem ELSE stem \o before

WithSuffix(name, side) == IF EndsWith(name, <<side>>) THEN name ELSE name \o <<side>>

(* A name that ends with the suffix loses it and gets it back at the end; a    *)
(* name that was given without it does not get it.                             *)
NameFrom(side, name, given, before, separate) ==
    IF separate /\ (EndsWith(name, <<side>>) \/ ~given)
    THEN WithSuffix(Insert(IF EndsWith(name, <<side>>) THEN Front(name) ELSE name, before), side)
    ELSE Insert(name, before)

construct_name(side, given, base, before, separate) ==
    NameFrom(side, IF given # <<>> THEN given ELSE base, given # <<>>, before, separate)
--------------------------------------------------------------------------------
(* Generation plugins. A pair is <<request type, response type>>; service says *)
(* what the plugins ask of the service: filter_backends, pagination_class.     *)
AddField(type, name) ==
    Made([type.message EXCEPT !.fields = Append(@, Flat(ProtoField(name, StructMessage)))],
         UpdateAll(<<type.below, MessagesOf(StructMessage)>>))

AsList(type, name, service) ==
    NewMessage(name, <<ProtoField("results", type)>> \o
                     (IF service.paginated THEN <<ProtoField("count", Text)>> ELSE <<>>),
               NoSerializer)

(* The enum of a choice field of the serializer, by the name of the field. *)
EnumsOf(z) == [n \in {f.name : f \in {g \in Range(FieldsOf[z]) : g.kind = "choice"}} |->
                  (CHOOSE f \in Range(FieldsOf[z]) : f.name = n).of]

(* What handle_serializer does with the fields of one message. *)
EnumsSet(m) ==
    LET enums == IF m.serializer = NoSerializer THEN <<>> ELSE EnumsOf(m.serializer)
        converted(f) == IF f.name \in DOMAIN enums THEN ProtoField(f.name, Enum(enums[f.name])) ELSE f
    IN  [m EXCEPT !.fields = MapEach(@, converted)]

(* handle_serializer: the fields of this message and of those nested in it. *)
handle_serializer(type) ==
    Made(EnumsSet(type.message), [n \in DOMAIN type.below |-> EnumsSet(type.below[n])])

(* handle_field_dict: only the fields declared with an Enum class. *)
handle_field_dict(type) ==
    LET converted(f) ==
            IF f.type.kind = "class" THEN ProtoField(f.name, Enum(f.type.name[1])) ELSE f
    IN  [type EXCEPT !.message.fields = MapEach(@, converted)]

WithEnums(type) ==
    CASE type.kind # "message" -> type
      [] type.kind = "message" /\ type.message.serializer = NoSerializer -> handle_field_dict(type)
      [] OTHER -> handle_serializer(type)

(* What plugin makes of the pair. names[side] is the name of the list.         *)
Transform(plugin, pair, service, names) ==
    CASE plugin = "enum" -> <<WithEnums(pair[1]), WithEnums(pair[2])>>
      [] plugin = "request_list" -> <<AsList(pair[1], names["Request"], service), pair[2]>>
      [] plugin = "response_list" -> <<pair[1], AsList(pair[2], names["Response"], service)>>
      [] plugin = "filter" ->
            IF service.filtered THEN <<AddField(pair[1], "_filters"), pair[2]>> ELSE pair
      [] plugin = "pagination" ->
            IF service.paginated THEN <<AddField(pair[1], "_pagination"), pair[2]>> ELSE pair

(* Fields cannot be added to a request that is only a name. *)
AddsField(plugin, service) ==
    \/ plugin = "filter" /\ service.filtered
    \/ plugin = "pagination" /\ service.paginated

(* A message without fields, serializer and explicit name is google's Empty. *)
OrEmpty(type, given) ==
    IF /\ type.kind = "message" /\ type.message.fields = <<>>
       /\ type.message.serializer = NoSerializer /\ given = <<>>
    THEN EmptyMessage ELSE type
================================================================================
