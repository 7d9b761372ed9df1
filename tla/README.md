# A TLA+ model of django-socio-grpc

django-socio-grpc lets a Django project serve gRPC with the concepts of Django
REST framework: services with actions, permissions, serializers and model
mixins, middlewares, a generator of `.proto` files, and a cache of endpoints.
This directory holds TLA+ modules that model its parts, TLC configurations that
check them on small instances, and theorems about them checked by TLAPS.
Source paths below are relative to `src/django_socio_grpc/`; `doc:` is
`src/docs/`.

    tlasany RpcLifecycle.tla
    tlc -workers 2 -config LifecycleSync.cfg MCRpcLifecycle.tla
    tlapm RpcLifecycleProofs.tla

`PROJECT.json` is the index: components, runs, the lines each definition
models, the hazards and which property watches each, the findings, the theorems.

## 1. Inventory

For each part: its state, its operations, whom it talks to, what is hard about
it, what makes it correct.

**Servicer proxy and RPC handlers** (`services/servicer_proxy.py`,
`request_transformer/grpc_internal_container.py`). State: the service instance
of a call, `_ServicerCtx.service` (a context variable with thread-local
storage), the exception of the `try`. Operations: four handlers (unary or
streaming, synchronous or asynchronous), `_get_response`, `process_exception`,
`log_response`, `create_service`. Talks to the gRPC server, the middleware
chain, the service. Hard: threads are reused, tasks are cancelled at any await,
generators run after everything around them has returned. Correct: admission
before anything runs, no success that is not one, one record, one after_action,
own context.

**Service base class** (`services/base_service.py`) and **permissions**. State:
`_is_auth_performed`, the user. Operations: `before_action`, `after_action`,
`perform_authentication`, `check_permissions`, `check_object_permissions`.
Hard: authentication is asked for twice, by a middleware and by
`before_action`. Correct: once, and never skipped.

**Middlewares** (`middlewares.py`). State: the database connection and the
active language of a thread. Operations: log, close connections, locale,
authenticate, composed in the order of the setting. Hard: state of a thread
survives the call that set it; a stream is consumed after the chain is left.

**Exceptions** (`exceptions.py`) map to gRPC statuses and log levels.

**gRPC server and its queue** (`management/commands/grpcrunserver.py`,
`grpcrunaioserver.py`): pool or event loop, start, reload, graceful stop.
Correct: every accepted call ends; a stopping server drains.

**Proto generation** (`protobuf/generators.py`, `proto_classes.py`,
`management/commands/generateproto.py`). State: the registry's declarations,
the `.proto` file on disk, the index in each field object. Operations: collect
messages, keep the numbers of the old file, number the rest, write, `--check`,
`--override-fields-number`. Hard: long sequences of edits and generations;
numbers at the boundary. Correct: distinct, stable, never recycled.

**Proto messages and files** (the same files, `protobuf/generation_plugin.py`,
`message_name_constructor.py`). State: one file per application, the command
that runs over them. Operations: introspect serializers and field dictionaries,
name messages, apply plugins, collect by name, write or check application by
application. Hard: the parts are pure, their composition is not obvious: a
message lost to a namesake, a name nobody declares, a field shown on the wrong
side, a check that is satisfied too early. Correct: files are closed, lose no
field, keep read and write sides, and `--check` sees every application.

**Endpoint cache** (`decorators.py`, `signals.py`). State: cache entries
(a list of varying headers and pages), the layers of a decorated action, the
receivers of model signals. Operations: register, fill, hit, invalidate,
expire. Hard: a fill races with a save, several processes share one cache,
inheritance registers layers more than once. Correct: no answer older than a
save that had returned.

**Model services, mixins, serializers** (`generics.py`, `mixins.py`,
`proto_serializers.py`). State: the table, the instance and the data of each
call. Operations: Create, Retrieve, Update, PartialUpdate, Destroy, List,
Stream; `message_to_data`, validation, `data_to_message`. Hard: each method is
several queries or hops with nothing held between them; protobuf fields without
presence; the tables of nulls and defaults. Correct: answers that were true,
unlisted fields kept, nulls only where allowed, failures write nothing.

**Action and application registries** (`grpc_actions/`,
`services/app_handler_registry.py`, `protobuf/registry_singleton.py`). State:
each owner's `_decorated_grpc_action_registry`, the services of an application,
its messages. Hard: registering a service writes to its class and classes
inherit, so what one registration leaves is what a later one finds; placeholders
are resolved per owner; registration is repeated, reloaded, cut by an error.
Correct: an RPC has the arguments of its own service and of the nearest class.

**Request and response proxies** (`request_transformer/`). State: query
parameters and META built from metadata; three copies of the response headers
(trailing metadata, HTTP headers, a case-insensitive store). Hard: keeping the
copies in step, over several proxies and through a cached response; two ways to
read a header of the request; malformed metadata. Correct: what the client gets
is what the proxy says; an answer from the cache is the caller's own.

**Settings and start** (`settings.py`, the commands,
`servicer_proxy.py:129-180`): attributes cached at first access, reloaded by a
signal, assigned by the commands. Hard: the mode of the server is read again and
again, by each servicer when it builds its middlewares and by each call. Correct:
one mode from the command down to `before_action`.

**The rest**: the parser is a vendored grammar; the old generator is deprecated;
`utils/` prints, introspects and reads files; `log.py` formats records.

Interactions: gRPC server -> handler -> chain -> service hooks -> action
(a mixin, perhaps inside a cache layer) -> serializer -> database -> signals ->
cache. The registries feed the generator, and the proxies wrap each call.

## 2. Modules

| Module | Models | State and actions |
| --- | --- | --- |
| `RpcContract` | what a client may observe of its calls | abstract: opened, admitted, sent, status |
| `RpcLifecycle` | servicer proxy, service hooks, middlewares, exceptions, thread pool or event loop | below |
| `FieldNumbering` | numbers of fields and enum members over edits and generations | below |
| `EndpointCache` | `cache_endpoint_with_deleter` and the signal that invalidates | below |
| `MessageToData` | operators: one field of a message through `message_to_data` and validation, and what the docs say of it | none |
| `ModelMixins` | Create, Retrieve, Update, PartialUpdate, Destroy over one table | below |
| `ActionRegistry` | registration of services: handlers, action registries, placeholders | below |
| `ProtoMessages` | operators: introspection, names, plugins | none |
| `ProtoGeneration` | `generateproto` on what was registered (EXTENDS the two above) | below |
| `CallProxies` | the request made of metadata and message, the headers of responses | below |
| `ServerStart` | settings, both commands, `load_middleware` | below |
| `MC*` | values of the constants for TLC | |
| `RpcLifecycleProofs`, `FieldNumberingProofs`, `EndpointCacheProofs`, `ModelMixinsProofs`, `ProtoGenerationProofs`, `CallProxiesProofs`, `ServerStartProofs` | theorems | |
| `InductionLemmas` | lemmas: least numbers, induction up to a length | |

Operators whose comment starts with `Mutant:` are defective variants of the
definition they stand before. No specification uses them: each is substituted
for that definition to see that the properties notice.

### RpcLifecycle

`pc[c]` says which frame of the handler call `c` is in: `queued` (gRPC has it),
`chain` (at middleware `depth[c]` going in), `perms`, `action`, `after` (the
finally of `_get_response`), `unwind` (going out through the middlewares),
`stream` (the generator is iterated, outside the chain: servicer_proxy.py:261),
`log` (the handler's finally), `reply`, `done`. `exc[c]` is the exception being
propagated. `slot[c]` is the context: a pool thread, or a task. `servicer`,
`language` belong to contexts; `conn` to the thread that runs blocking code,
which is the pool thread, or the one shared thread of `sync_to_async`.

One action per step that something else can come between: `create_service`,
`RejectMetadata`, `EnterLog/Close/Locale/Auth`, `Authenticate`,
`CheckPermissions`, `RunAction`, `AfterAction`, `LeaveMiddleware`,
`StartStream`, `NextItem`, `process_exception`, `LeaveTry`, `log_response`,
`Reply`; cancellation by the client is `Withdraw`, `CancelClose`,
`CancelAuthentication`, `CancelAction`, `CancelStream`. `Chain` is a constant:
any sequence of the middlewares, repeated or missing.

Abstractions. What an action or a permission does is a choice among returning
and raising one exception of each class that statuses and log levels tell apart.
The connection is open or closed, and close closes it (`CONN_MAX_AGE` 0, the
default). When a synchronous unary call is cancelled its thread runs on, so the
cancellation is not a step. A status is what the server ended the call with.
After a cancelled await the handed-over work either did not run or ran at once.

`RpcLifecycle!ContractSpec` is `RpcContract` with `opened` = has a context and
`admitted` = permissions agreed: an abstract promise without threads,
middlewares or hooks. An unadmitted call sends nothing, a unary message comes
with OK, a status is final.

### FieldNumbering

`declared` is the sequence of names in the code, `file[n]` the number of `n` in
the proto file (0: none). `Edit` replaces the declaration, `Generate(override)`
writes what `set_indices` / `_get_enum_indices` compute from the declaration and
the old file, `Check` is `--check`. `kind` tells apart what numbers the names:
a message, an enum in a message of its own, or an enum whose old numbers the
generator does not find ("bare"). The loop over `curr_idx` is stated in closed
form (`NumberOf`), and also as the loop, a fold (`LoopNumbering`);
`ClosedFormIsLoop` compares the two in every reachable state.

### EndpointCache

Registration gives a service a prefix, a layer and a receiver, on top of the
layers the inherited action already has. A cached call goes layer by layer:
header lookup, page lookup, then the action's read, then the stores outwards;
`Commit` and `Saved` are a save. In between its receivers run, one service of
`todo` after the other: `DeleteHeaders` and `DeletePages` are the two commands a
cache with `delete_pattern` takes, `Clear` is what is done to any other. A save in a
transaction of the caller (`Atomic`) sends post_save before its row is committed:
`Write`, the receivers, then `CommitTransaction` and `Saved`, or `Rollback`; a call
of another process may then read the old row after the deletion and store it
(`decorators.py:347`). A process runs
these on its one synchronous thread, held from first to last step
(`decorators.py:199-207`, asgiref); processes interleave. A model is its number
of saves. `raced` is a history: a save was committed while another process was
between its read and its stores, or had read what an open transaction had already
invalidated (`overtaken`, remembered from the write to the commit). Django's cache middleware and `delete_pattern`
are external and modelled from how decorators.py uses them.

### MessageToData and ModelMixins

A value is one of: what the client sent, the protobuf default, the serializer's
default, the model's default, None, or absent. `MessageToData` has the decision
tables of `_MessageToData` one operator per method, what rest_framework's
`run_validation` may turn a datum into, and, apart, what
`doc:features/proto-serializers.rst:218-233` says (`Documented`).

`ModelMixins` walks each call through the queries and hops of its method:
`Receive`, `get_object`, `check_object_permissions`, `get_serializer`,
`is_valid`, `perform_create` / `perform_update` (+ `Reinsert`: Django's INSERT
when the UPDATE matched no row) / `perform_destroy`, `Answer`, and `Cancel` in
the asynchronous mixins. Between any two steps of a call other calls run.
Histories: `seen[c]` collects what the call's row has been since its look-up,
`wrote[c]` that it changed the table.

Abstractions. Queries commit as they run (no `ATOMIC_REQUESTS` outside HTTP).
The queryset is the whole table; a filtered-out row is a missing row.
Object permissions agree or refuse. Keys are never reused. Left out: relations,
List and Stream, a default of None without `allow_null` (the docs ask not to),
a missing lookup field (an assertion). A column without any default gets Django's
blank, which the database accepts or refuses.

### ActionRegistry

`attribute[c][n]` is what the `__dict__` of class `c` holds under `n`: nothing, a
function, or an action with the class that declared it and the service its
placeholders were resolved for. `declares` is what the class bodies say (a plain
function, a decorated action, an entry of the dynamic registry, or both).
`CreateHandler` is the constructor of `AppHandlerRegistry` (`reload_services`
forgets every other application, a name that is taken raises). `BeginRegister`
collects the actions of a service and its parents, `RegisterAction` is one turn
of the loop (it writes the clone of the action on the class, or raises and leaves
what earlier turns wrote), `EndRegister` lists the service and adds it to the
server. `Lookup` is Python's attribute look-up along `Mro`; `ParentsRegistry` is the
dictionary `get_parents_action_registry` fills, from the base class down. Of `Mro`
it is assumed, as of Python's resolution orders, that a class stands there once
and keeps the order of its parents (`OrderAssumption`).

### ProtoMessages and ProtoGeneration

`ProtoMessages` has one operator per function: `from_serializer`,
`from_field_dict`, `create`, `construct_name`, the plugins as `Transform`,
`handle_serializer`. The code recurses over nested serializers; here
`Converted[n]` has what is made down to n levels, and as many levels as there are
message classes with serializers are enough wherever introspection returns
(`Endless` says where it does not). `UpdateAll` is `dict.update`, one dictionary
after the other: of a name, the last message stays. Names are sequences of words (a
suffix is a last word), scalar types are one type, enums are those of the global
scope, a field has no cardinality and relations are left out.

`ProtoGeneration` lets any registration of ActionRegistry happen, with
`Buildable` deciding whether the messages of an action can be made, then runs
the command: `StartCommand` computes all the files, `CheckApp` and `WriteApp`
take one application each and may raise, which leaves the later ones. An enum class
that no plugin turned into an enum cannot be written (`Writable`). `PairAfter` is the
request and the response after so many plugins. Numbers are FieldNumbering's.

Three helpers serve the properties. `Agrees` compares a message of an RPC with the
one a file has under its name: the same serializer, the same lines but for those a
plugin adds for its service, its enums declared. `Reached` follows a file from a
type through any number of fields; enums, scalars and the messages of google lead
nowhere. `Shown` is what stands there: fields with the serializer they are of.

### CallProxies

A dictionary is a sequence of pairs in insertion order, so that "the later entry
wins" is what it is in Python. `MakeRequest` builds META and the query from
metadata and message under the settings. A response proxy keeps `http_response`
and `store`, the call keeps `trailing`; `Wrap`, `SetHeader`, `Setdefault`,
`Delete`, `ContextSet` are the operations, `Store`, `Restore` and `Attach` the
way of a response into the cache and out of it (`__getstate__`, `__setstate__`,
`set_current_context`). History: `blind[c]` are the headers a proxy was not told
of, `origin[c]` the entry a call was answered with.

Two things are left out. `CacheKey` is what the key is made of: that URL encoding
and digest keep different queries apart is taken for granted. And the exception
that every `Delete` ends with ends the call: a service that catches it goes on with
copies that disagree, of which `ViewsAgree`, which leaves failed calls out, says
nothing.

### ServerStart

`attrs` are the attributes of the settings object, `cached` those `__getattr__`
kept and a reload deletes. `ReadSetting`, `ChangeSettings` and `Reload` may come
between any two steps of a command: `Parse` (`add_arguments` reads the port),
`Handle` (assigns the mode, and the port in the asynchronous command),
`AddServicer` (the hook makes a proxy, which loads its middlewares), `Bind`,
`Start`, `Call`, `Exit`, `Restart`. `load_middleware` takes one
turn of `Load` per middleware of the reversed list, as the loop does. `early` and `reloads` are histories: what was
read before `Handle`, and how many reloads came before and after it.

## 3. Runs

| Run | Instance | Shows |
| --- | --- | --- |
| `lifecycle_sync` | 2 unary calls and a stream of up to 2 messages, **one** pool thread, all four middlewares, two languages | admission, own servicer and language on a reused thread, authentication once, no silent success, one record, no connection left by unary calls, termination |
| `lifecycle_async` | a unary call and a stream on the loop, cancelled at any await, all four middlewares | after_action once, one record, `RpcContract` implemented |
| `stream_connection` (violation) | one stream, one thread | a stream leaves its connection open |
| `field_numbering` | 3 names, 4 generations, all kinds | distinct, stable, enums do not recycle, `--check` is right |
| `recycled_fields` (violation) | 3 names, 2 generations | a removed field's number is given to a new one |
| `cache_shared` | 2 processes, a service and one that inherits it, 2 calls, 2 saves, one of them in a transaction, with and without `delete_pattern` | staleness only after a race between processes; other stale entries are about to be deleted |
| `inherited_cache` (violation) | 1 process, the child has its own model | the inherited layer is not invalidated |
| `mixins_races` | 3 asynchronous calls (any method; update or partial update; destroy) on one key, 2 fields | answers were true, unlisted fields kept, how rows reappear |
| `mixins_values` | 1 call, any method and message, 2 fields of every kind | nulls stopped, unset fields as documented, errors write nothing |
| `proto_generation` | a mixin, a second one that may override it, a service on the first, a child of that service and the second mixin, another service on the first; many ways their bodies may declare two attributes; 3 handlers (one silent, one reloading), 2 applications, 2 registrations; up to 2 commands | whose placeholders an RPC has, which declaration counts, closed files, no field lost to a namesake, sides kept as far as a file reaches, `--check` covers all |
| `call_proxies` | 2 calls to an endpoint whose answers are cached and vary on a header, asked for in 5 ways under 3 settings; 2 header operations and 2 proxies | the copies of the headers agree, a hit is the caller's own, `setdefault` keeps |
| `server_start` | both commands, 2 servicers, 2 ports, 5 lists of middlewares of every kind, a reload, an exit and a restart | one mode in the whole server, chains fit |

Bounds. One pool thread is the worst case for what calls leave behind: every
two calls meet on it. Three calls are two that may conflict and one whose
leftovers they find. Two messages are "in the middle" and "at the end" of a
stream. Three names and four generations hold keep, add and remove at once, and
what the next generation makes of it; distinctness, stability and the closed form
of the loop are proved for any number. Two processes are what a race needs. The
races of the mixins need a reader or writer, a writer and a destroyer of one row;
rows do not interact.
Fields do not interact either, so two of arbitrary kinds show every mixture of
a failing and a good field. Commands that write or check run for two of the
sets of declarations (`MCMaxCommands`), since what they do depends on the
declarations only through the messages; registration runs for all of them.
Two registrations are a parent and its child, or two siblings, in either order
and for one application or two, or one service twice; a longer history, and any
declarations, are proved (`RegistrationHolds` and the theorems after it). One entry
per call is kept in the cache, since the question is whose it is. After a restart the settings change no more (`Restart` sets the
bound), since a new process knows nothing of the old one's settings object.

`CHECK_DEADLOCK FALSE` everywhere: the calls, saves and generations of an
instance are finite and the system may stop when they are over.

Fairness (only `FairSpec` of RpcLifecycle, for `Terminates`): weak fairness of
`Step(c)` for each call, that is, threads and the event loop go on running the
code of a call they hold, and gRPC starts a queued call when a thread is free
continuously. With a pool of one thread that suffices because every serving
call finishes and a finished call is never queued again. Clients promise
nothing: arrival and cancellation are not fair. Streams are bounded by
`MaxItems`; an endless stream does not terminate, of course.

What a violation run shows is a disagreement between the code and its own
documentation, quoted in `findings`:

- `stream_connection`: the body of a stream runs after
  `close_old_connections_middleware` has closed for the second time
  (`servicer_proxy.py:261`, doc:features/middlewares.rst:22).
- `recycled_fields`: `set_indices` starts from the highest number still kept
  (`proto_classes.py:536`; the enum code uses the highest of the old file).
- `inherited_cache`: the inner layer of an inherited action has the parent's
  prefix, which no receiver of the child's model deletes (`decorators.py:369`,
  doc:features/cache.rst:63).

Met while reading, and not given a run:

Calls and records.
- Metadata that are not JSON raise before the handler's try
  (`socio_internal_request.py:127`): the call ends without `process_exception` and
  without a record (`RejectMetadata`; `AuditedOnce` speaks of calls that reach the
  handler).
- CancelledError is not an Exception, so the finally logs "OK"
  (`servicer_proxy.py:221`, doc:features/logging.rst:26); the level of errors
  (doc:features/logging.rst:23 against `servicer_proxy.py:316`).
- In a synchronous server a cached action cannot run: `decorators.py:224` passes
  one argument too many. A synchronous server whose `ROOT_HANDLERS_HOOK` is a
  coroutine never awaits it and starts without services (`StartedAsAsked` says so).
- `grpcrunserver` does not assign GRPC_CHANNEL_PORT, and `add_arguments` has
  cached the port by then, so that a reload forgets the assignment of the
  asynchronous command.

Serializers and mixins.
- None instead of the serializer's default for a nullable field
  (`proto_serializers.py:489`, doc:features/proto-serializers.rst:228); an
  unspecified enum is not "value not set" (`proto_serializers.py:288`, line 241
  of the same page).
- An answer is converted after the save, so that an enum column with a value outside
  of the enum fails a call whose row is written (`proto_serializers.py:107`):
  `ErrorsWriteNothing` leaves this out (`MayMismatch`).
- Concurrent updates overwrite each other, and an update can bring a destroyed
  row back (`mixins.py:445`): `UnlistedFieldsKept` and `RowsAppearKnowingly`
  state the limits.

Registration and generation.
- A child registered after its parent takes over the messages resolved for the
  parent (`actions.py:258-263`, doc:features/grpc-action.rst:446):
  `ResolvedInFamily` states how far this goes.
- With `class Child(Foo, Side)`, where `Side` overrides an action that `Foo` only
  inherits, `Child` has the override when it is registered first and the action
  of `Foo` when `Foo` is (`setattr`, `actions.py:246`): `NearestDeclares` states
  which classes are passed over.
- Of two messages of one name the last wins, which drops plugin fields of the
  other; without SEPARATE_READ_WRITE_MODEL a list request and a response may
  clash. A service registered twice is written twice.
- A cycle of two serializers or more does not end (`Endless`). A filter plugin on
  "google.protobuf.Empty" appends to the module's own EmptyMessage. An enum
  plugin after a list plugin does not reach a field dictionary that was nested.
  Field dictionaries forget the read and write sides
  (doc:features/proto-serializers.rst:252).
- A message of which no field is kept is numbered from 1 again
  (`proto_classes.py:535`): `NumbersKept` is about the names that are kept.
- Enums outside messages of the old file are renumbered at each generation
  (`generators.py:188`). `--dry-run` writes an OrderedDict, and what protoc
  returns is not looked at.

Proxies.
- `del response[header]` takes the header from two of the three copies and raises
  before the third (`grpc_internal_proxy.py:227`), where line 71 promises a
  dictionary of headers as Django's: the proxy still says that it has the header.
  The HTTP headers of a response are case-sensitive where the store is not.
  `setdefault` and `has_header` on a response from the cache do not see what the
  context had before (`blind`).
- A MAP_METADATA_KEYS of None is handled for headers, and raises for filters and
  pagination. Filters mapped to the key of the headers are lost. A header that is
  spelled in two ways is read differently by META and by `headers`: a service and
  the cache key may then disagree (`SpelledOnce`).

## 4. Theorems

All for arbitrary values of the constants, under the named ASSUMEs of the
modules: a chain of known middlewares, a finite set of names, resolution orders
that contain those of the classes in them, tokens that differ from each other.

**RpcLifecycleProofs.** `Typed`, `Admission`, `ActionsAreAdmitted`
(`ActionRunsAdmitted`), `ImplementsContract` (`ContractSpec`). The inductive
invariant is `TypeOK /\ AdmissionInv`: admission alone is not inductive, since
"the generator is being iterated" says nothing of how the call came there.
`AdmissionInv` reads off the location and exception of a call which hooks it
has passed, and ties an unwinding without an exception to granted permissions.
For the contract each action maps to Open, Admit, Send, Succeed, Fail or a
stutter, by the same invariant.

`OneAuthentication`, `OneAfterAction`, `SuccessIsReal`, `OneRecord`, `OwnServicer`,
`OwnLanguage` stand on `AdmissionInv`. `HookInv` reads the counters of a call off
its location: nothing counted before, once after, and "no exception past the
action" means produced. `ContextInv` adds that two served calls never share a
context, which is what makes the servicer and the language of a context one call's
own; `LanguageInv` carries the language from the middleware to the end of the
stream. `ConnectionsAreClosed` (`UnaryCallsLeaveNoConnection`) is for a synchronous
server whose chain has `close_old_connections_middleware` at some place with no
authentication outside of it; without such a place the property is false, and in
the asynchronous server connections belong to another thread. `ConnectionInv` says
of each thread that an open connection has a call inside of that place, or served a
stream.

**FieldNumberingProofs.** `Typed`, `Distinctness` (`NumbersDistinct`),
`Stability` (`NumbersKept`), `CheckSound` (`CheckIsSound`), `EnumsNotRecycled`
(`EnumNumbersNotRecycled`). A generation numbers new names above a base; the
base bounds every kept number, and the count of new names up to a position is
injective in the position. The invariant adds that some bound holds for all the
numbers of a file: that is what makes the highest one (a CHOOSE) exist, and
carrying it along takes the place of an induction over the finite set of names.
`--check` compares with what a generation would write: `CheckInv` says that a file
not edited since is what its generation makes of it again (`Idempotent`). An enum
in its own message takes as base the highest number of the whole old file, so a new
member is above every old one. `LoopAgrees` (`ClosedFormIsLoop`): the loop over
`curr_idx` of both functions gives each name the number of the closed form the other
proofs argue with.

**EndpointCacheProofs.** `CacheTyped` (`TypeOK`), `StaleAnswersRaced`
(`StaleOnlyAfterRace`), `StalePagesDoomed` (`StaleEntriesAreDoomed`),
`OneProcessIsFresh` (`FreshAnswers` with one process), `ClearedCache` (both
properties for a cache that can only be cleared). Staleness alone is not inductive:
`CacheInv` follows a value from where it is read to where it is answered. What a
call has read is current, or its model raced (`FillsCurrent`); a page is current,
raced, or about to be deleted (`PagesCurrent`); what a call found in the cache is no
older than the saves that had returned when it began (`AnswersCurrent`); a process
does one of these at a time (`ThreadsHeld`); some receiver deletes what a layer
stores (`Layered`); no save returned before it reached the database (`Versions`). The hypothesis `SharedModels`, that
a service which inherits a cached action shows its parent's model, is what
the run `inherited_cache` shows the code to rest on. `ClearedCache` does without it,
because `cache.clear()` asks for no prefix.

**ModelMixinsProofs.** `Typed`, `NullsStopped` (`NullsOnlyWhereAllowed`),
`AnswersTrue` (`AnswersWereTrue`), `UnlistedKept` (`UnlistedFieldsKept`),
`RowsKnown` (`RowsAppearKnowingly`) rest on two invariants, one on top of the other.
`GuardInv`: validated data, instances and rows hold None only where allowed, and
a call past its look-up has an instance and a key that was used. `TraceInv`: such
a call has seen what its row is now and its instance was one of the values it has
seen; other calls only extend what it has seen, because every query that changes
a row is seen by every call that looks at it.

`NothingWritten` (`ErrorsWriteNothing`) and `StoredAsDocumented`
(`UnsetAsDocumented`) add `WrittenInv`, that a call which has written can only
still succeed, be cancelled or fail to convert its answer, and `DerivedInv`, that
the data of a call is what `message_to_data` and validation make of its own request:
then the documented tables are a case analysis of two operators.

**ProtoGenerationProofs**, the registry. `OwnPlaceholders` (`ResolvedInFamily`). The invariant
says of every class what `__dict__` may hold: an action resolved in its family,
the registered services it inherits from. Families grow with registrations and
are inherited because resolution orders are.

`RegistryTyped` (`TypeOK`) and `NearestWins` (`NearestDeclares`) need to know what
is to be registered: `RegistryFacts` says of the two nested loops of
`ParentsRegistry` that each entry is declared by a class and by none nearer. The
invariant `HoldersInv` says of every class that an action under an attribute is one
its parents declare, that the classes in between were passed over (`Fit`), and that
the class only has it from a parent if it was registered itself. `FoundFits` is the
heart: what `getattr` finds in a parent fits the child, because the order of the
parent is part of that of the child (`Lifted`), and what is not part of it is hidden
by the registration of the parent. These three are about the
specification of `ActionRegistry`. `Registers` is the refinement that carries them
over: a step of `GenerationSpec` registers as the registry does, where an action whose
messages cannot be made is one of its failures, or leaves the registry alone.
`RegistrationHolds` states all three of the generator.

**ProtoGenerationProofs**, the files. `ChecksCoverAll` (`CheckCoversAll`):
`JobInv` says of a running command that its protos are those of every registered
application, because nothing is registered while it runs, and that each application
it no longer has to check has the file it computed. So the last comparison
completes them all.

`NoDanglingReference` (`ReferencesResolve`) needs no invariant of the files, which are
computed at once, but one of what is registered: `ListedMade`, that the messages of
every listed RPC could be made. The rest is about operators. A made message is
`Whole` when it and those nested in it refer only to names among them or chosen by
the developer, and a dictionary is a `Collection` when its messages do. `Converted` is
whole at each level by induction over levels (`ConvertedWhole`), the plugins keep it
so turn by turn (`TransformDeclarable`, `PairsDeclarable`), and `dict.update` joins
collections to collections (`CollectionUpdate`): whichever namesake wins, what it
refers to is there, because the names stay.

`RpcsKeepSides` and `FilesKeepSides` (`SidesHold`) are about requests and responses
apart. The messages of one RPC keep its side: along the same inductions, each is
`Apart`, that is, has no field its class leaves out and refers to names of the same RPC
only. This is where a method field must be read-only and no primary key
(`MethodsAreRead`, what rest_framework makes of `SerializerMethodField`): it is typed
by a message of responses, which would stand in a request otherwise. The property of
files follows from `NamesakesAgree`: where a file says of each message what the RPC
says, no more can be reached from its type than the RPC's own messages
(`ReachedWithin`, `FileKeepsSide`). Without that hypothesis it is false, since
messages are collected by name, and two that the developer calls alike may be of
different sides. `NamesakesAgree` itself therefore stays with TLC, for the default and
the given names of the instance.

**CallProxiesProofs.** `ViewsAlwaysAgree` (`ViewsAgree`), `DefaultsKeep`
(`SetdefaultKeeps`), for any names, values and order of operations. `HeadersInv`
says more than the property where a proxy waits for its context: what it was
restored from is in lower case, only the age may be written otherwise and then comes
last (`Pending`). That is what the merge of `set_current_context` needs, since the
later of two spellings of one header wins in the metadata. Merging is a loop of
updates, a recursive function here; what it returns (`MergeFacts`) is proved by
induction over its turns with `InductionUpTo`, which speaks of sets of numbers
because no lemma can take an operator.

`HitsAreOwn` (`HitIsOwn`) puts two invariants above it. `OriginInv`: a request is
made once and never changed, and every kept answer is under the cache key of the
call it was made for. From equal keys to equal questions there are two lemmas: a
query parameter is the first of the four places `populate_query_params` merges that
has it (`QueryIsAsked`), and two calls that spell the header once and under equal
keys have the same `headers` (`SpelledAlike`). `DeliveryInv`: the headers of a hit
wait in a proxy without a context until the metadata of the call has them. The
proof assumes of the client that what it sends under the keys of the settings is a
JSON object (`AskedAssumption`); anything else fails before the cache is asked.

**InductionLemmas.** `LeastIndex` from the library's theorem on well-founded
relations, `InductionUpTo` from it, and `LoopRuns`, that a loop of N turns which
stays in a set has a run: what a recursive function on `0 .. N` defines exists.
ProtoGenerationProofs uses the first for the nearest class of a resolution order;
the others carry the loops over dictionaries, middlewares, plugins and levels.

**ServerStartProofs.** `OneMode` (`StartedAsAsked`). The invariant follows the
two attributes `handle` assigns: a setting that was not read early is not among
those a reload forgets (`NotForgotten`), and so stays what the command made it.
`ChainsFit` (`MiddlewaresFit`) is about the loop of `load_middleware`: after each
turn the links are those of the used middlewares seen so far, in order
(`PrependedInOrder`), each fits what it wraps (`PrependedFits`), and the mode of the
handler built so far is the mode the first link runs in (`LoadTurn`); at the end
the chain is adapted to the mode of the server (`LoadFits`). The invariant only has
to add that what the settings list stays loadable.

Only model-checked: `Terminates`, because liveness is out of the prover's reach, and
`NamesakesAgree`, which depends on the names the developer chose. That `Depth` levels
are enough for `Converted` is an argument about the code (a longer chain of serializers
repeats one and does not end), which the proofs do not use.

## 5. Plan

1. List and Stream with pagination, added to ModelMixins, with rows that come and
   go between the pages and the items of a stream.
2. The old file in ProtoGeneration: what the parser gives back of it, for enums
   and messages together, composed with FieldNumbering.
3. The graceful stop of the asynchronous server and its signals, with liveness.

A theorem to add: `NamesakesAgree` for declarations that leave every name to the
default constructor, with a hypothesis on the words of class names.

## 6. Not modelled

The parser (vendored), the deprecated generator and the deprecated look-up of
services by name, the health servicer, SSL credentials, utilities, formatting of
records, relations and cardinalities of fields, enums inside messages, tests and
examples. Django, rest_framework, gRPC, asgiref and the cache backend appear only
as the code uses them, and are marked external in `PROJECT.json`.
