--------------------------- MODULE ProtoGeneration ---------------------------
(* The generateproto command on what the handlers registered: the messages of  *)
(* each RPC, their collection by name, and one file per application, written   *)
(* or checked one application after the other.                                 *)
EXTENDS ActionRegistry, ProtoMessages

CONSTANTS
    ActionDecl,     \* ActionDecl[c][a]: what class c declares of its action a
    SerializerOf,   \* SerializerOf[s]: serializer_class of service s
    WordsOf,        \* WordsOf[s]: the words of its name before "Service"
    Configs,        \* Configs[d]: the configurations tried with declarations d
    AppOrder,       \* the applications, sorted
    NoFile,
    MaxCommands     \* MaxCommands[d]: bound on the runs of the command

(* The parts of a declared value or name that are resolved with the service.   *)
Self == [kind |-> "self"]
Placeholder == "{}"

(* A request or response is declared as the placeholder of the serializer, as  *)
(* a serializer, as the name of a message or as a list of field dictionaries.  *)
IsValue(v) ==
    \/ v = Self
    \/ v.kind = "serializer" /\ v.serializer \in Serializers
    \/ v.kind = "string"
    \/ /\ v.kind = "dicts" /\ v.fields \in Seq(Range(v.fields))
       /\ \A d \in Range(v.fields) : d.kind = "nested" => d.of \in Serializers
Plugins == {"enum", "request_list", "response_list", "filter", "pagination"}

ASSUME ConfigsAssumption ==
    \A d \in Declarations : Configs[d] \subseteq
        [separate : BOOLEAN, filtered : SUBSET Services, paginated : SUBSET Services]
ASSUME ActionsAssumption ==
    /\ \A s \in Services : SerializerOf[s] \in Serializers
    /\ \A c \in Classes, a \in Attributes :
          /\ IsValue(ActionDecl[c][a].request) /\ IsValue(ActionDecl[c][a].response)
          /\ ActionDecl[c][a].plugins \in Seq(Plugins)
ASSUME AppOrderAssumption == AppOrder \in Seq(Apps) /\ Range(AppOrder) = Apps

VARIABLES
    config,    \* settings and services: SEPARATE_READ_WRITE_MODEL, filters, paginations
    file,      \* file[a]: the proto file of application a, or NoFile
    job,       \* the command that runs: mode, applications to do, computed protos
    checked,   \* history: the protos of the last check that ended well, or <<>>
    commands   \* how many commands were started

gvars == <<config, file, job, checked, commands>>
vars == <<rvars, gvars>>

NoJob == [mode |-> "none", todo |-> <<>>, protos |-> <<>>]

GenerationInit ==
    /\ Init
    /\ config \in Configs[declares]
    /\ file = [a \in Apps |-> NoFile]
    /\ job = NoJob
    /\ checked = <<>>
    /\ commands = 0
--------------------------------------------------------------------------------
(* All that decides the messages of an RPC: its name and arguments, the        *)
(* service it is registered for and the settings that concern it.              *)
RpcKeys == [name : Names, class : Classes, attr : Attributes, resolved : Services,
            service : Services, separate : BOOLEAN, filtered : BOOLEAN, paginated : BOOLEAN]

Decl(k) == ActionDecl[k.class][k.attr]

(* The declared value and name, with the placeholders resolved. *)
ValueOf(value, k) ==
    IF value = Self THEN [kind |-> "serializer", serializer |-> SerializerOf[k.resolved]]
    ELSE value

NameOf(name, k) ==
    IF name # <<>> /\ name[1] = Placeholder
    THEN BaseOf[SerializerOf[k.resolved]] \o Tail(name) ELSE name

DeclaredValue(side, k) == ValueOf(IF side = "Request" THEN Decl(k).request ELSE Decl(k).response, k)
Given(side, k) ==
    NameOf(IF side = "Request" THEN Decl(k).request_name ELSE Decl(k).response_name, k)

(* The class a message is made with, from SEPARATE_READ_WRITE_MODEL. *)
ClassOf(side, k) == IF k.separate THEN side ELSE "Message"

MessageName(side, before, k) ==
    construct_name(side, Given(side, k),
                   construct_base_name(DeclaredValue(side, k), WordsOf[k.service], k.name),
                   before, k.separate)

(* make_proto_rpc: the pair <<request type, response type>> after i plugins. *)
PairAfter(i, k) ==
    LET made(side) == create(ClassOf(side, k), DeclaredValue(side, k), MessageName(side, <<>>, k))
        names == [side \in {"Request", "Response"} |-> MessageName(side, <<"List">>, k)]
        turn[j \in 0 .. Len(Decl(k).plugins)] ==
            IF j = 0 THEN <<made("Request"), made("Response")>>
            ELSE Transform(Decl(k).plugins[j], turn[j - 1], k, names)
    IN  turn[i]

(* Whether make_proto_rpc returns: introspection ends, and no plugin adds a    *)
(* field to a request that is a name.                                          *)
Buildable(k) ==
    /\ \A side \in {"Request", "Response"} :
          LET value == DeclaredValue(side, k)
              class == IF value.kind = "dicts" THEN "Message" ELSE ClassOf(side, k)
          IN  \A z \in SerializersIn(value) : ~Endless(class, z)
    /\ \A i \in DOMAIN Decl(k).plugins :
          AddsField(Decl(k).plugins[i], k) => PairAfter(i - 1, k)[1].kind = "message"

make_proto_rpc(k) ==
    LET pair == PairAfter(Len(Decl(k).plugins), k)
    IN  <<OrEmpty(pair[1], Given("Request", k)), OrEmpty(pair[2], Given("Response", k))>>

(* The RPCs that can be made, with the messages of each side. *)
ProtoRpcs ==
    LET withMessages(pair) ==
            [types |-> pair, messages |-> <<MessagesOf(pair[1]), MessagesOf(pair[2])>>]
    IN  [k \in {j \in RpcKeys : Buildable(j)} |-> withMessages(make_proto_rpc(k))]
--------------------------------------------------------------------------------
Key(rpc, s) ==
    [name |-> rpc.name, class |-> rpc.params.class, attr |-> rpc.params.attr,
     resolved |-> rpc.params.resolved, service |-> s, separate |-> config.separate,
     filtered |-> s \in config.filtered, paginated |-> s \in config.paginated]

(* get_all_messages of a service, in the order of registration, and of a       *)
(* handler; the response of an RPC is last.                                    *)
ServiceMessages(listing) ==
    UpdateAll(MapEach(listing.rpcs,
        LAMBDA rpc : UpdateAll(ProtoRpcs[Key(rpc, listing.service)].messages)))
AllMessages(h) == UpdateAll(MapEach(proto_services[h], ServiceMessages))

(* The name the file writes for a type. *)
TypeName(type) ==
    CASE type.kind = "message" -> type.message.name
      [] type.kind \in {"ref", "name", "enum"} -> type.name
      [] OTHER -> <<>>

RpcLine(name, types) ==
    [name |-> name, request |-> TypeName(types[1]), response |-> TypeName(types[2])]
MessageLines(m) ==
    [serializer |-> m.serializer,
     fields |-> MapEach(m.fields, LAMBDA f : [name |-> f.name, type |-> TypeName(f.type)])]

(* get_proto: the services with their RPCs, in the order of names; what is not *)
(* imported of all the messages, and the enums of its fields (global scope).   *)
FileOf(listings, all) ==
    LET own(names) == {n \in names : ~all[n].imported}
        lines(listing) == {RpcLine(rpc.name, ProtoRpcs[Key(rpc, listing.service)].types) :
                              rpc \in Range(listing.rpcs)}
    IN  [services |-> [s \in {l.service : l \in Range(listings)} |->
                          MapEach(Select(listings, {l \in Range(listings) : l.service = s}), lines)],
         messages |-> [n \in own(DOMAIN all) |-> MessageLines(all[n])],
         imports |-> {n \in DOMAIN all : all[n].imported},
         enums |-> {f.type.name : f \in {g \in UNION {Range(all[n].fields) : n \in own(DOMAIN all)} :
                                            g.type.kind = "enum"}}]
Proto(h) == FileOf(proto_services[h], AllMessages(h))

(* A field that no plugin gave an enum of its Enum class has a type without a  *)
(* name: writing its line raises.                                              *)
Writable(h) ==
    LET all == AllMessages(h)
    IN  \A n \in DOMAIN all : \A f \in Range(all[n].fields) : f.type.kind # "class"
--------------------------------------------------------------------------------
(* The command, after its handlers hook. All the protos are computed before    *)
(* the first file is looked at. Without a registered application, or with one  *)
(* whose file cannot be computed, it raises.                                   *)
StartCommand(mode) ==
    /\ job = NoJob /\ current = NoRegistration /\ ~server
    /\ commands < MaxCommands[declares]
    /\ commands' = commands + 1
    /\ checked' = <<>>
    /\ LET todo == Select(AppOrder, {a \in Apps : registered_apps[a] # Nobody})
       IN  job' = IF todo = <<>> \/ \E a \in Range(todo) : ~Writable(registered_apps[a])
                  THEN NoJob
                  ELSE [mode |-> mode, todo |-> todo,
                        protos |-> [a \in Range(todo) |-> Proto(registered_apps[a])]]
    /\ UNCHANGED <<rvars, config, file>>

(* Mutant: the check is decided by the first application. *)
CheckApp_first(raises) ==
    /\ job.mode = "check"
    /\ job' = NoJob
    /\ checked' = IF file[Head(job.todo)] = job.protos[Head(job.todo)] THEN job.protos ELSE <<>>
    /\ UNCHANGED <<rvars, config, file, commands>>

(* check_or_write with --check: the first difference raises. Then protoc may,  *)
(* without a BASE_DIR; what it answers is not looked at.                       *)
CheckApp(raises) ==
    /\ job.mode = "check"
    /\ LET a == Head(job.todo)
           ends == Tail(job.todo) = <<>>
           passes == file[a] = job.protos[a] /\ ~raises
       IN  /\ job' = IF passes /\ ~ends THEN [job EXCEPT !.todo = Tail(@)] ELSE NoJob
           /\ checked' = IF passes /\ ends THEN job.protos ELSE <<>>
    /\ UNCHANGED <<rvars, config, file, commands>>

(* Otherwise the file is written before protoc may raise. *)
WriteApp(raises) ==
    /\ job.mode = "write"
    /\ LET a == Head(job.todo)
       IN  /\ file' = [file EXCEPT ![a] = job.protos[a]]
           /\ job' = IF raises \/ Tail(job.todo) = <<>> THEN NoJob
                     ELSE [job EXCEPT !.todo = Tail(@)]
    /\ UNCHANGED <<rvars, config, checked, commands>>

(* The registration of ActionRegistry, with the messages of this module. *)
Next ==
    \/ /\ job = NoJob
       /\ RegistryNext(Lookup(current.service, Head(current.todo).attr) # Absent
                       /\ Key(NextAction, current.service) \in DOMAIN ProtoRpcs)
       /\ UNCHANGED gvars
    \/ \E mode \in {"check", "write"} : StartCommand(mode)
    \/ \E raises \in BOOLEAN : CheckApp(raises) \/ WriteApp(raises)

GenerationSpec == GenerationInit /\ [][Next]_vars
--------------------------------------------------------------------------------
(* The protos of a command are what it compares, and all it ever writes. *)
Protos == {job.protos[a] : a \in DOMAIN job.protos}

(* The names a file may use: those it declares or imports. *)
KnownNames(f) == DOMAIN f.messages \cup f.imports \cup f.enums

(* Names written by the developer, which may be declared anywhere. *)
DeclaredValues ==
    UNION {{ActionDecl[c][a].request, ActionDecl[c][a].response} : c \in Classes, a \in Attributes}
GivenNames ==
    {v.name : v \in {w \in DeclaredValues : w.kind = "string"}} \cup
    {d.of : d \in {e \in UNION {Range(v.fields) : v \in {w \in DeclaredValues : w.kind = "dicts"}} :
                      e.kind = "name"}}

FieldTypes(f) ==
    {field.type : field \in UNION {Range(f.messages[n].fields) : n \in DOMAIN f.messages}}
RpcTypes(f) ==
    UNION {{rpc.request, rpc.response} : rpc \in
        UNION UNION {Range(f.services[s]) : s \in DOMAIN f.services}}

(* from_serializer, name_if_recursive; get_all_messages. Every type a written  *)
(* file refers to is declared or imported there, unless the developer gave it  *)
(* as a string: a recursive serializer with a name of its own refers to that   *)
(* name, and a message lost to a namesake leaves its nested messages.          *)
ReferencesResolve ==
    \A f \in Protos :
        (FieldTypes(f) \cup RpcTypes(f)) \ (GivenNames \cup {<<>>}) \subseteq KnownNames(f)

(* The lines plugins add to a message, which depend on the service and not on  *)
(* what the message was declared with.                                         *)
AddedNames == {"_filters", "_pagination"}
PluginLines(z) ==
    [name : AddedNames, type : {StructMessage.message.name}] \cup
    (IF z = NoSerializer THEN {[name |-> "count", type |-> <<>>]} ELSE {})
OwnLines(m) == Range(m.fields) \ PluginLines(m.serializer)
EnumsIn(m) == {f.type.name : f \in {g \in Range(m.fields) : g.type.kind = "enum"}}

KeysOf(h) == UNION {{Key(rpc, listing.service) : rpc \in Range(listing.rpcs)} :
                       listing \in Range(proto_services[h])}

(* What file f says of message m, called n. *)
Agrees(f, n, m) ==
    IF m.imported THEN n \in f.imports
    ELSE /\ n \in DOMAIN f.messages
         /\ f.messages[n].serializer = m.serializer
         /\ OwnLines(f.messages[n]) = OwnLines(MessageLines(m))
         /\ EnumsIn(m) \subseteq f.enums

(* get_all_messages (proto_classes.py:519). Messages are collected by name and *)
(* the last one stays. With requests and responses apart, one of the same name *)
(* says the same of the same serializer, up to what the filter and pagination  *)
(* plugins add for their service: no RPC loses a field it was declared with.   *)
NamesakesAgree ==
    config.separate =>
        \A a \in DOMAIN job.protos : \A k \in KeysOf(registered_apps[a]), side \in {1, 2} :
            LET mine == ProtoRpcs[k].messages[side]
            IN  \A n \in DOMAIN mine : Agrees(job.protos[a], n, mine[n])

(* The names a file reaches from a type, field after field: no enum, scalar or *)
(* message of google leads further.                                            *)
Reached(f, type) ==
    LET ends == f.enums \cup {<<>>, StructMessage.message.name, EmptyMessage.message.name}
        next(names) == UNION {{field.type : field \in Range(f.messages[n].fields)} :
                                  n \in (names \ ends) \cap DOMAIN f.messages}
        within[i \in 0 .. Cardinality(DOMAIN f.messages)] ==
            IF i = 0 THEN {type}
            ELSE LET before == within[i - 1] IN before \cup next(before)
    IN  within[Cardinality(DOMAIN f.messages)] \ ends

(* What is shown there: the fields of serializers, but for those plugins add.  *)
Shown(f, type) ==
    UNION {{<<f.messages[n].serializer, line.name>> :
               line \in {l \in Range(f.messages[n].fields) : l.name \notin AddedNames}} :
           n \in Reached(f, type) \cap DOMAIN f.messages}

Sides == <<"Request", "Response">>

(* The fields of serializer z that the messages of a side leave out, but for   *)
(* its primary key.                                                            *)
LeftOut(side, d, z) ==
    /\ d.name # PkOf[z]
    /\ \/ side = "Response" /\ d.write_only
       \/ side = "Request" /\ d.read_only

(* RequestProtoMessage and ResponseProtoMessage. Whatever a written response   *)
(* nests, no message there shows a write-only field of its serializer, and no  *)
(* request asks for a read-only one, except primary keys: as long as the side  *)
(* is declared through serializers, since a field dictionary forgets it.       *)
SidesHold ==
    config.separate =>
        \A a \in DOMAIN job.protos : \A k \in KeysOf(registered_apps[a]), i \in {1, 2} :
            DeclaredValue(Sides[i], k).kind = "serializer" =>
                \A x \in Shown(job.protos[a], TypeName(ProtoRpcs[k].types[i])) :
                    x[1] # NoSerializer =>
                        \A d \in Range(FieldsOf[x[1]]) : d.name = x[2] => ~LeftOut(Sides[i], d, x[1])

(* generateproto.handle, check_or_write. A check that ends well has compared   *)
(* the file of every registered application: a write that was cut after some   *)
(* of them, or a service registered since, is seen.                            *)
CheckCoversAll ==
    [][checked' # checked /\ checked' # <<>> =>
         \A a \in Apps : registered_apps[a] # Nobody => file[a] = Proto(registered_apps[a])]_vars
================================================================================
