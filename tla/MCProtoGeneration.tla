------------------------- MODULE MCProtoGeneration -------------------------
(* A mixin with a list action, a second mixin that may override it, a service  *)
(* on the first, a child of that service and the second mixin, and another     *)
(* service on the first with the same serializer; two applications.            *)
EXTENDS ProtoGeneration

MCClasses == {"Mixin", "Side", "Foo", "Child", "Other"}
MCServices == {"Foo", "Child", "Other"}
MCMro == [Mixin |-> <<"Mixin">>, Side |-> <<"Side", "Mixin">>, Foo |-> <<"Foo", "Mixin">>,
          Child |-> <<"Child", "Foo", "Side", "Mixin">>, Other |-> <<"Other", "Mixin">>]
MCAttributeOrder == <<"List", "Create">>
MCNames == {"List", "Create", "wrapper"}
MCApps == {"app", "blog"}
MCAppOrder == <<"app", "blog">>
MCHandlers == {"h1", "h2", "h3"}
MCApp == [h1 |-> "app", h2 |-> "blog", h3 |-> "app"]
MCReload == {"h3"}
MCSilent == {"h2"}

Is(kind, name) == [kind |-> kind, name |-> name]
None == Is("none", "List")
Bodies(list, made) == {[List |-> l, Create |-> c] : l \in list, c \in made}
BodiesOf ==
    [Mixin |-> Bodies({Is("decorated", "List"), Is("both", "List")}, {None}),
     Side |-> Bodies({None, Is("decorated", "List")}, {None}),
     Foo |-> Bodies({None, Is("function", "List"), Is("dynamic", "List")},
                    {Is("decorated", "Create")}),
     Child |-> Bodies({None, Is("decorated", "List"), Is("both", "wrapper")}, {None}),
     Other |-> Bodies({None, Is("dynamic", "List")}, {Is("dynamic", "Create")})]
Usual ==
    [Mixin |-> [List |-> Is("decorated", "List"), Create |-> None],
     Side |-> [List |-> None, Create |-> None],
     Foo |-> [List |-> None, Create |-> Is("decorated", "Create")],
     Child |-> [List |-> Is("decorated", "List"), Create |-> None],
     Other |-> [List |-> None, Create |-> Is("dynamic", "Create")]]
(* Mixin and Child declare List in a dynamic registry, Mixin has the function. *)
Entries == [Usual EXCEPT !.Mixin.List = Is("both", "List"), !.Child.List = Is("dynamic", "List")]
(* Foo has a function called List under Create, and Child overrides it. *)
Alias ==
    [Mixin |-> [List |-> Is("both", "wrapper"), Create |-> None],
     Side |-> [List |-> None, Create |-> None],
     Foo |-> [List |-> None, Create |-> Is("decorated", "List")],
     Child |-> [List |-> None, Create |-> Is("decorated", "Create")],
     Other |-> [List |-> None, Create |-> None]]
(* Side declares Create with an Enum class that no plugin makes an enum of. *)
Bare == [Usual EXCEPT !.Side.Create = Is("decorated", "Create"), !.Foo.Create = None]
MCDeclarations ==
    {Alias, Entries, Bare} \cup
    {d \in [MCClasses -> UNION {BodiesOf[c] : c \in MCClasses}] :
        /\ \A c \in MCClasses : d[c] \in BodiesOf[c]
        /\ d.Side.List # None => d.Other.List = None}
Config(separate, filtered, paginated) ==
    [separate |-> separate, filtered |-> filtered, paginated |-> paginated]
MCConfigs ==
    [d \in MCDeclarations |->
        IF d = Usual THEN {Config(TRUE, f, p) : f \in {{}, {"Foo"}},
                                               p \in {{}, {"Foo"}}}
                          \cup {Config(FALSE, {}, {"Foo"})}
        ELSE {Config(TRUE, {"Foo", "Other"}, {"Foo"})}]
Odd == [Usual EXCEPT !.Mixin.List = Is("both", "List"), !.Foo.List = Is("dynamic", "List")]
MCMaxCommands ==
    [d \in MCDeclarations |-> CASE d = Usual -> 2 [] d \in {Odd, Bare} -> 1 [] OTHER -> 0]

(* FooSerializer nests Bar, itself and a method that returns Bar; Loop nests   *)
(* Knot and Knot nests Loop.                                                   *)
MCSerializers == {"FooZ", "BarZ", "LoopZ", "KnotZ"}
Field(name, kind, of, read, write) ==
    [name |-> name, kind |-> kind, of |-> of, read_only |-> read, write_only |-> write]
MCFieldsOf ==
    [FooZ |-> <<Field("id", "simple", "", TRUE, FALSE),
                Field("secret", "simple", "", FALSE, TRUE),
                Field("bar", "nested", "BarZ", FALSE, FALSE),
                Field("state", "choice", "State", FALSE, FALSE),
                Field("parent", "nested", "FooZ", FALSE, FALSE),
                Field("stats", "method", "BarZ", TRUE, FALSE),
                Field("user", "hidden", "", FALSE, TRUE)>>,
     BarZ |-> <<Field("uuid", "simple", "", TRUE, FALSE),
                Field("created", "simple", "", TRUE, FALSE),
                Field("token", "simple", "", FALSE, TRUE),
                Field("data", "struct", "", FALSE, FALSE)>>,
     LoopZ |-> <<Field("knot", "nested", "KnotZ", FALSE, FALSE)>>,
     KnotZ |-> <<Field("loop", "nested", "LoopZ", FALSE, FALSE)>>]
MCPkOf == [FooZ |-> "id", BarZ |-> "uuid", LoopZ |-> "id", KnotZ |-> "id"]
MCBaseOf == [FooZ |-> <<"Foo">>, BarZ |-> <<"Bar">>, LoopZ |-> <<"Loop">>, KnotZ |-> <<"Knot">>]

Dict(name, kind, of) == [name |-> name, kind |-> kind, of |-> of]
Dicts(fields) == [kind |-> "dicts", fields |-> fields]
String(name) == [kind |-> "string", name |-> name]
Declare(request, response, request_name, response_name, plugins) ==
    [request |-> request, response |-> response, request_name |-> request_name,
     response_name |-> response_name, plugins |-> plugins]
ListDecl == Declare(Dicts(<<>>), Self, <<Placeholder, "List", "Request">>, <<>>,
                    <<"enum", "response_list", "filter", "pagination">>)
CreateDecl == Declare(Self, Self, <<>>, <<>>, <<"enum">>)
MCActionDecl ==
    [Mixin |-> [List |-> ListDecl, Create |-> CreateDecl],
     Side |-> [List |-> Declare(Dicts(<<>>), Dicts(<<>>), <<>>, <<"Side">>, <<>>),
               Create |-> Declare(Dicts(<<Dict("state", "choice", "State")>>), Dicts(<<>>),
                                  <<>>, <<>>, <<>>)],
     Foo |-> [List |-> Declare(String(<<"google.protobuf.Empty">>), Self, <<>>,
                               <<"Foo", "Detail">>, <<"response_list">>),
              Create |-> CreateDecl],
     Child |-> [List |-> Declare(Dicts(<<Dict("bar", "nested", "BarZ"), Dict("data", "name", <<"google.protobuf.Struct">>),
                                         Dict("note", "name", <<"Note">>),
                                         Dict("state", "choice", "State")>>),
                                 [kind |-> "serializer", serializer |-> "FooZ"],
                                 <<>>, <<"Shown", "Response">>, <<"enum", "request_list">>),
                Create |-> CreateDecl],
     Other |-> [List |-> Declare(Dicts(<<>>), [kind |-> "serializer", serializer |-> "LoopZ"],
                                 <<>>, <<>>, <<>>),
                Create |-> Declare(String(<<"Given">>), Dicts(<<>>), <<>>, <<>>,
                                   <<"enum", "filter">>)]]
MCSerializerOf == [Foo |-> "FooZ", Child |-> "BarZ", Other |-> "FooZ"]
MCWordsOf == [Foo |-> <<"Foo">>, Child |-> <<"Child">>, Other |-> <<"Other">>]
=============================================================================
