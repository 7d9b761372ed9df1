--------------------------- MODULE ActionRegistry ---------------------------
(* How classes become services of an application: AppHandlerRegistry.register  *)
(* collects the actions a service and its parents declare and registers them   *)
(* one at a time, each on the class itself. Registering a service writes to    *)
(* its class, and classes inherit: what one registration leaves is what a      *)
(* later one finds.                                                            *)
EXTENDS Integers, SequencesExt

CONSTANTS
    Classes,
    Services,          \* the classes that can be registered, the others are mixins
    Mro,               \* Mro[c]: method resolution order, c first
    AttributeOrder,    \* the attributes actions may have, in class body order
    Names,             \* what a function may be called (__name__)
    Declarations,      \* what the bodies of the classes may declare
    Apps, Handlers,    \* names of applications, AppHandlerRegistry objects
    App,               \* App[h]: the application of handler h
    Reload,            \* the handlers created with reload_services
    Silent,            \* those created with disable_proto_generation
    Nobody, Absent,
    MaxRegistrations   \* bound on the calls of register

Attributes == Range(AttributeOrder)

(* What a class body does with an attribute: nothing, a function, a decorated  *)
(* action, an entry of _dynamic_grpc_action_registry, or a function with one.  *)
(* name is the __name__ of the function.                                       *)
Declared == [kind : {"none", "function", "decorated", "dynamic", "both"}, name : Names]

ASSUME ClassesAssumption ==
    /\ Services \subseteq Classes /\ Nobody \notin Services
    /\ \A c \in Classes : /\ Mro[c] \in Seq(Classes) /\ Len(Mro[c]) > 0
                          /\ Mro[c][1] = c
    /\ Declarations \subseteq [Classes -> [Attributes -> Declared]]
(* A resolution order lists each class once, and lists the classes of a parent  *)
(* in the order of that parent.                                                *)
ASSUME OrderAssumption ==
    \A c \in Classes :
        /\ \A i, j \in DOMAIN Mro[c] : Mro[c][i] = Mro[c][j] => i = j
        /\ \A d \in Range(Mro[c]) :
              /\ Range(Mro[d]) \subseteq Range(Mro[c])
              /\ \A i, j \in DOMAIN Mro[d], k, l \in DOMAIN Mro[c] :
                    Mro[d][i] = Mro[c][k] /\ Mro[d][j] = Mro[c][l] /\ i < j => k < l
ASSUME HandlersAssumption == App \in [Handlers -> Apps] /\ Nobody \notin Handlers
ASSUME NamesAssumption == AttributeOrder \in Seq(Names)
ASSUME BoundAssumption == MaxRegistrations \in Nat

(* The arguments of an action: where they were declared, and the service their *)
(* placeholders were resolved for.                                             *)
Params == [class : Classes, attr : Attributes, resolved : Services \cup {Nobody}]
(* What a class holds under a name: a function (params Absent) or a GRPCAction. *)
ASSUME AbsentAssumption ==
    Absent \notin Params /\ Absent \notin [name : Names, params : Params \cup {Absent}]
Held == [name : Names, params : Params \cup {Absent}]
Rpcs == [name : Names, params : Params]

VARIABLES
    declares,        \* declares[c]: the body of class c, the same in every state
    attribute,       \* attribute[c][n]: what c.__dict__ holds under n, or Absent
    registered_apps, \* registered_apps[a]: the handler of application a, or Nobody
    created,         \* the handlers whose constructor returned
    proto_services,  \* proto_services[h]: services listed by handler h, with their RPCs
    current,         \* the registration that is running
    server,          \* there is a gRPC server: the command is not generateproto
    served,          \* the services added to it
    begun            \* history: the services whose registration began, in order

rvars == <<declares, attribute, registered_apps, created, proto_services, current,
           server, served, begun>>

NoRegistration == [handler |-> Nobody, service |-> Nobody, todo |-> <<>>, rpcs |-> <<>>]

(* The class body, executed once: __set_name__ has run for decorated actions. *)
Body(c, n) ==
    CASE n \in Attributes /\ declares[c][n].kind = "decorated" ->
            [name |-> declares[c][n].name,
             params |-> [class |-> c, attr |-> n, resolved |-> Nobody]]
      [] n \in Attributes /\ declares[c][n].kind \in {"function", "both"} ->
            [name |-> declares[c][n].name, params |-> Absent]
      [] OTHER -> Absent

Init ==
    /\ declares \in Declarations
    /\ attribute = [c \in Classes |-> [n \in Names |-> Body(c, n)]]
    /\ registered_apps = [a \in Apps |-> Nobody]
    /\ created = {}
    /\ proto_services = [h \in Handlers |-> <<>>]
    /\ current = NoRegistration
    /\ server \in BOOLEAN
    /\ served = {}
    /\ begun = <<>>
--------------------------------------------------------------------------------
(* dict.update: a key keeps its place and takes the last value. *)
Update(registry, entry) ==
    IF \E i \in DOMAIN registry : registry[i].attr = entry.attr
    THEN [i \in DOMAIN registry |->
            IF registry[i].attr = entry.attr THEN entry ELSE registry[i]]
    ELSE Append(registry, entry)

(* The registry after the attributes that class c declares in one of these ways. *)
Collect(registry, c, kinds) ==
    LET turn[i \in 0 .. Len(AttributeOrder)] ==
            IF i = 0 THEN registry
            ELSE IF declares[c][AttributeOrder[i]].kind \in kinds
            THEN Update(turn[i - 1], [class |-> c, attr |-> AttributeOrder[i]])
            ELSE turn[i - 1]
    IN  turn[Len(AttributeOrder)]

(* With the registry of a class: its decorated actions, then its dynamic ones. *)
WithClass(registry, c) ==
    Collect(Collect(registry, c, {"decorated"}), c, {"dynamic", "both"})

(* Mutant: parents are visited in resolution order, so the base class wins. *)
ParentsRegistry_mro(s) ==
    LET turn[i \in 0 .. Len(Mro[s])] ==
            IF i = 0 THEN <<>> ELSE WithClass(turn[i - 1], Mro[s][i])
    IN  turn[Len(Mro[s])]

(* get_parents_action_registry: from the base class down to the service. *)
ParentsRegistry(s) ==
    LET turn[i \in 0 .. Len(Mro[s])] ==
            IF i = 0 THEN <<>>
            ELSE WithClass(turn[i - 1], Mro[s][Len(Mro[s]) + 1 - i])
    IN  turn[Len(Mro[s])]

(* getattr on the class: the first class of the order that holds the name. *)
Lookup(s, n) ==
    LET holders == {i \in DOMAIN Mro[s] : n \in Names /\ attribute[Mro[s][i]][n] # Absent}
        first == CHOOSE i \in holders : \A j \in holders : i <= j
    IN  IF holders = {} THEN Absent ELSE attribute[Mro[s][first]][n]

(* resolve_placeholders: only what is still a placeholder is resolved. *)
Resolve(params, s) ==
    IF params.resolved = Nobody THEN [params EXCEPT !.resolved = s] ELSE params
--------------------------------------------------------------------------------
(* AppHandlerRegistry(app_name, ...): reload_services forgets every other      *)
(* application first; a name another handler holds is refused.                 *)
CreateHandler(h) ==
    LET apps == IF h \in Reload THEN [a \in Apps |-> Nobody] ELSE registered_apps
    IN  /\ current = NoRegistration
        /\ h \notin created
        /\ IF apps[App[h]] = Nobody
           THEN /\ registered_apps' = [apps EXCEPT ![App[h]] = h]
                /\ created' = created \cup {h}
           ELSE registered_apps' = apps /\ UNCHANGED created
        /\ UNCHANGED <<declares, attribute, proto_services, current, server, served, begun>>

(* register: a new ProtoService and the list of what is to be registered. The  *)
(* module is reloaded with reload_services, but the class registered is the    *)
(* one that was passed. Without a server, a silent handler does nothing.       *)
BeginRegister(h, s) ==
    /\ current = NoRegistration /\ h \in created
    /\ server \/ h \notin Silent
    /\ Len(begun) < MaxRegistrations
    /\ begun' = Append(begun, s)
    /\ current' = [handler |-> h, service |-> s, todo |-> ParentsRegistry(s), rpcs |-> <<>>]
    /\ UNCHANGED <<declares, attribute, registered_apps, created, proto_services,
                   server, served>>

(* The GRPCAction register_action works on: the one the class has, whatever    *)
(* the registry says of it, or a new one around its function.                  *)
Action(s, entry) ==
    LET held == Lookup(s, entry.attr)
    IN  IF held.params # Absent THEN held
        ELSE [held EXCEPT !.params =
                [class |-> entry.class, attr |-> entry.attr, resolved |-> Nobody]]

(* Mutant: resolve_placeholders works on the action of the parent that         *)
(* declares it, as if __get__ did not clone.                                   *)
Written_shared(s, held) ==
    LET c == IF held.params.resolved = s THEN held.params.class ELSE s
    IN  [attribute EXCEPT ![c][held.params.attr] = held, ![s][held.name] = held]

(* Where GRPCAction.register leaves the action: on the class of its owner. *)
Written(s, held) == [attribute EXCEPT ![s][held.name] = held]

(* The action the loop of register_actions is about to register, resolved.     *)
NextAction ==
    LET action == Action(current.service, Head(current.todo))
    IN  [action EXCEPT !.params = Resolve(@, current.service)]

(* One turn of that loop. A registry entry without a function, messages that   *)
(* cannot be made, or a name the service has already, raise and end the        *)
(* registration; what earlier turns wrote stays.                               *)
RegisterAction(buildable) ==
    /\ current # NoRegistration /\ current.todo # <<>>
    /\ LET s == current.service
           refused == \/ Lookup(s, Head(current.todo).attr) = Absent
                      \/ ~buildable
                      \/ \E i \in DOMAIN current.rpcs : current.rpcs[i].name = NextAction.name
       IN  IF refused
           THEN current' = NoRegistration /\ UNCHANGED attribute
           ELSE /\ attribute' = Written(s, NextAction)
                /\ current' = [current EXCEPT !.todo = Tail(@), !.rpcs = Append(@, NextAction)]
    /\ UNCHANGED <<declares, registered_apps, created, proto_services, server, served, begun>>

(* Mutant: the service that is registered is not forgotten at the end. *)
EndRegister_kept(known) ==
    /\ current # NoRegistration /\ current.todo = <<>>
    /\ proto_services' = [proto_services EXCEPT ![current.handler] =
                            Append(@, [service |-> current.service, rpcs |-> current.rpcs])]
    /\ served' = IF server /\ known THEN served \cup {current.service} ELSE served
    /\ current' = [NoRegistration EXCEPT !.service = current.service]
    /\ UNCHANGED <<declares, attribute, registered_apps, created, server, begun>>

(* The end of register: the service is listed, and added to the server if      *)
(* there is one and its pb2_grpc module knows it; otherwise register raises.   *)
EndRegister(known) ==
    /\ current # NoRegistration /\ current.todo = <<>>
    /\ proto_services' = [proto_services EXCEPT ![current.handler] =
                            Append(@, [service |-> current.service, rpcs |-> current.rpcs])]
    /\ served' = IF server /\ known THEN served \cup {current.service} ELSE served
    /\ current' = NoRegistration
    /\ UNCHANGED <<declares, attribute, registered_apps, created, server, begun>>

(* Whether the messages of the next action can be made is left to whoever      *)
(* knows them.                                                                 *)
RegistryNext(buildable) ==
    \/ \E h \in Handlers : CreateHandler(h)
    \/ \E h \in Handlers, s \in Services : BeginRegister(h, s)
    \/ RegisterAction(buildable)
    \/ \E known \in BOOLEAN : EndRegister(known)

Spec == Init /\ [][\E buildable \in BOOLEAN : RegistryNext(buildable)]_rvars
--------------------------------------------------------------------------------
Listings(h) == {proto_services[h][i] : i \in DOMAIN proto_services[h]}
Ancestors(s) == Range(Mro[s]) \ {s}

TypeOK ==
    /\ declares \in [Classes -> [Attributes -> Declared]]
    /\ attribute \in [Classes -> [Names -> Held \cup {Absent}]]
    /\ registered_apps \in [Apps -> Handlers \cup {Nobody}]
    /\ created \subseteq Handlers
    /\ proto_services \in [Handlers -> Seq([service : Services, rpcs : Seq(Rpcs)])]
    /\ current = NoRegistration \/
       current \in [handler : Handlers, service : Services,
                    todo : Seq([class : Classes, attr : Attributes]), rpcs : Seq(Rpcs)]
    /\ server \in BOOLEAN
    /\ served \subseteq Services
    /\ begun \in Seq(Services)

(* resolve_placeholders, "resolved with the current service" (actions.py:258). *)
(* What a service lists was resolved for itself, or for a service it inherits  *)
(* from that was registered too: never for a sibling that shares the mixin.    *)
(* The second case is the limit: registered after its parent, a child takes    *)
(* over the messages of the parent.                                            *)
ResolvedInFamily ==
    \A h \in Handlers : \A listing \in Listings(h) : \A rpc \in Range(listing.rpcs) :
        LET r == rpc.params.resolved
        IN  r # listing.service => r \in Ancestors(listing.service) /\ r \in Range(begun)

(* Some class s inherits from has a function with the name of another          *)
(* attribute: once registered it is found under that attribute.                *)
Aliased(s) ==
    \E c \in Range(Mro[s]), a \in Attributes :
        /\ declares[c][a].kind \in {"function", "decorated", "both"}
        /\ declares[c][a].name \in Attributes \ {a}

(* The class at place j declares an action that the one at i < j does not take  *)
(* over: it declares nothing, a function only, or a dynamic entry nobody asks   *)
(* for, since getattr finds a decorated action. Or a parent registered before   *)
(* holds the action by now: what stands before it and has no function, or after *)
(* it without being its parent, is passed over.                                *)
PassedOver(order, i, j, attr) ==
    LET kind(k) == declares[order[k]][attr].kind
    IN  \/ kind(i) \in {"none", "function"}
        \/ kind(i) = "dynamic" /\ kind(j) = "decorated"
        \/ \E k \in 2 .. Len(order) :
              /\ order[k] \in Range(begun) /\ order[j] \in Range(Mro[order[k]])
              /\ \/ i < k /\ kind(i) = "dynamic"
                 \/ k < i /\ order[i] \notin Range(Mro[order[k]])

(* get_parents_action_registry, register_action. A listed service has an RPC   *)
(* for every action of its registry, each under a name of its own, with the    *)
(* arguments of the nearest class that declares it, up to the cases above: a    *)
(* parent that was registered hides even the override of a mixin that comes    *)
(* after it, because registering wrote the inherited action to the parent.     *)
NearestDeclares ==
    \A h \in Handlers : \A listing \in Listings(h) :
        LET order == Mro[listing.service]
        IN  /\ Len(listing.rpcs) = Len(ParentsRegistry(listing.service))
            /\ \A i, j \in DOMAIN listing.rpcs :
                  listing.rpcs[i].name = listing.rpcs[j].name => i = j
            /\ ~Aliased(listing.service) =>
                  \A rpc \in Range(listing.rpcs) : \A j \in DOMAIN order : \A i \in 1 .. j-1 :
                     order[j] = rpc.params.class => PassedOver(order, i, j, rpc.params.attr)
================================================================================
