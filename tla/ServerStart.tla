----------------------------- MODULE ServerStart -----------------------------
(* How a server comes up: the settings object the whole package reads, the two *)
(* commands that write to it, and the middlewares each servicer is built with. *)
(* Whether calls run in threads or on the event loop is read again and again,  *)
(* by the servicer when it is made and by the service at each call.            *)
EXTENDS Integers, SequencesExt

CONSTANTS
    Services,
    Ports,
    Middlewares,      \* [can_sync, can_async: BOOLEAN, makes: "instance", "unused" or "None"]
    MiddlewareLists,  \* the GRPC_MIDDLEWARE tried
    Nothing,
    MaxReloads        \* bound on the changes of Django's settings

Names == {"GRPC_ASYNC", "GRPC_CHANNEL_PORT", "GRPC_MIDDLEWARE"}

ASSUME MiddlewaresAssumption ==
    /\ Middlewares \subseteq [name : STRING, can_sync : BOOLEAN, can_async : BOOLEAN,
                              makes : {"instance", "unused", "None"}]
    /\ MiddlewareLists \subseteq Seq(Middlewares)
ASSUME NothingAssumption ==
    Nothing \notin BOOLEAN /\ Nothing \notin Ports /\ Nothing \notin MiddlewareLists
ASSUME BoundAssumption == MaxReloads \in Nat

UserSettings == [GRPC_ASYNC : BOOLEAN, GRPC_CHANNEL_PORT : Ports,
                 GRPC_MIDDLEWARE : MiddlewareLists]

VARIABLES
    user,       \* settings.GRPC_FRAMEWORK over the defaults
    user_settings, \* grpc_settings._user_settings, or Nothing
    attrs,      \* the attributes of grpc_settings, Nothing where there is none
    cached,     \* grpc_settings._cached_attrs
    signal,     \* settings changed, setting_changed was not received yet
    command,    \* the command and its port, or Nothing
    hook,       \* ROOT_HANDLERS_HOOK: a function or a coroutine
    phase,      \* idle, parsed, hook, bound, started, exited
    servicers,  \* what each ServicerProxy on the server was built with
    calls,      \* what each call found
    early,      \* history: the settings read before handle assigned its own
    reloads     \* history: reloads before and since then

settings_vars == <<user, user_settings, attrs, cached, signal, early, reloads>>
server_vars == <<command, hook, phase, servicers, calls>>
vars == <<user, user_settings, attrs, cached, signal, early, reloads,
          command, hook, phase, servicers, calls>>

IsAio == command.name = "grpcrunaioserver"

Init ==
    /\ user \in UserSettings
    /\ user_settings = Nothing
    /\ attrs = [n \in Names |-> Nothing]
    /\ cached = {}
    /\ signal = FALSE
    /\ command = Nothing
    /\ hook \in {"function", "coroutine"}
    /\ phase = "idle"
    /\ servicers = [s \in Services |-> Nothing]
    /\ calls = {}
    /\ early = {}
    /\ reloads = [before |-> 0, since |-> 0]
--------------------------------------------------------------------------------
UserSettingsRead == IF user_settings = Nothing THEN user ELSE user_settings

(* grpc_settings.X: __getattr__ runs for what is no attribute yet, and keeps it. *)
Setting(n) == IF attrs[n] = Nothing THEN UserSettingsRead[n] ELSE attrs[n]

Read(names) ==
    LET new == {n \in names : attrs[n] = Nothing}
    IN  /\ attrs' = [n \in Names |-> IF n \in new THEN UserSettingsRead[n] ELSE attrs[n]]
        /\ cached' = cached \cup new
        /\ user_settings' = IF new = {} THEN user_settings ELSE UserSettingsRead
        /\ early' = IF phase \in {"idle", "parsed"} THEN early \cup names ELSE early
        /\ UNCHANGED <<user, signal, reloads>>

(* Any module of the project may read a setting, when it is imported or later. *)
ReadSetting(n) == Read({n}) /\ UNCHANGED server_vars

(* override_settings and the like change Django's settings, then send          *)
(* setting_changed; other threads run between the two.                         *)
ChangeSettings(new) ==
    /\ ~signal /\ reloads.before + reloads.since < MaxReloads
    /\ user' = new
    /\ signal' = TRUE
    /\ UNCHANGED <<user_settings, attrs, cached, early, reloads, server_vars>>

(* Mutant: reload forgets every attribute, those the commands assigned too. *)
Forgotten_all == Names

(* The attributes reload deletes: those __getattr__ kept.                      *)
Forgotten == cached

(* reload_grpc_settings, reload. *)
Reload ==
    /\ signal
    /\ signal' = FALSE
    /\ attrs' = [n \in Names |-> IF n \in Forgotten THEN Nothing ELSE attrs[n]]
    /\ cached' = {}
    /\ user_settings' = Nothing
    /\ reloads' = IF phase \in {"idle", "parsed"}
                  THEN [reloads EXCEPT !.before = @ + 1] ELSE [reloads EXCEPT !.since = @ + 1]
    /\ early' = IF phase \in {"idle", "parsed"} THEN {} ELSE early
    /\ UNCHANGED <<user, server_vars>>
--------------------------------------------------------------------------------
(* add_arguments reads the port for its default before anything is parsed. *)
Parse(name, port) ==
    /\ phase = "idle"
    /\ Read({"GRPC_CHANNEL_PORT"})
    /\ command' = [name |-> name,
                   port |-> IF port = Nothing THEN Setting("GRPC_CHANNEL_PORT") ELSE port]
    /\ phase' = "parsed"
    /\ UNCHANGED <<hook, servicers, calls>>

(* handle: plain attribute assignments, which _cached_attrs does not learn of. *)
(* The checks of development mode and the server object follow.                *)
Handle ==
    /\ phase = "parsed"
    /\ attrs' = [attrs EXCEPT !.GRPC_ASYNC = IsAio,
                              !.GRPC_CHANNEL_PORT = IF IsAio THEN command.port ELSE @]
    /\ phase' = "hook"
    /\ UNCHANGED <<user, user_settings, cached, signal, early, reloads,
                   command, hook, servicers, calls>>

(* BaseHandler.adapt_method_mode: wraps a method said to be of the other mode. *)
Adapted(is_async, handler, handler_is_async) ==
    IF is_async = handler_is_async THEN handler
    ELSE [handler EXCEPT !.is_async = is_async]

Refused(middleware) == ~middleware.can_sync /\ ~middleware.can_async

(* A middleware stays in the mode of what it wraps if it can.                  *)
MiddlewareIsAsync(middleware, handler_is_async) ==
    IF ~handler_is_async /\ middleware.can_sync THEN FALSE ELSE middleware.can_async

(* Mutant: a middleware that declares itself unused leaves the adapter around  *)
(* the handler it was offered.                                                 *)
AroundUnused_adapted(handler, adapted) == adapted

(* except MiddlewareNotUsed: continue, before handler is given the adapted one. *)
AroundUnused(handler, adapted) == handler

(* One turn of the loop of load_middleware. *)
Load(loaded, middleware) ==
    LET is_async == MiddlewareIsAsync(middleware, loaded.handler_is_async)
        adapted == Adapted(is_async, loaded.handler, loaded.handler_is_async)
    IN  CASE loaded.failed -> loaded
          [] ~loaded.failed /\ (Refused(middleware) \/ middleware.makes = "None") ->
                [loaded EXCEPT !.failed = TRUE]
          [] ~loaded.failed /\ ~Refused(middleware) /\ middleware.makes = "unused" ->
                [loaded EXCEPT !.handler = AroundUnused(@, adapted)]
          [] OTHER ->
                [loaded EXCEPT
                    !.handler = [is_async |-> is_async,
                                 links |-> <<[middleware |-> middleware, is_async |-> is_async,
                                              wraps |-> adapted.is_async]>> \o adapted.links],
                    !.handler_is_async = is_async]

(* load_middleware, from the last middleware of the settings to the first, then *)
(* the top of the stack.                                                       *)
load_middleware(is_async, middlewares) ==
    LET count == Len(middlewares)
        bare == [handler |-> [is_async |-> is_async, links |-> <<>>],
                 handler_is_async |-> is_async, failed |-> FALSE]
        turn[i \in 0 .. count] ==
            IF i = 0 THEN bare ELSE Load(turn[i - 1], middlewares[count - i + 1])
        loaded == turn[count]
    IN  [loaded EXCEPT !.handler = Adapted(is_async, @, loaded.handler_is_async)]

(* The hook makes a ServicerProxy, which loads its middlewares, and adds it to  *)
(* the server, which gets its handlers; both read the mode. A chain that cannot *)
(* be loaded ends the command.                                                 *)
AddServicer(s) ==
    /\ phase = "hook" /\ servicers[s] = Nothing
    /\ IsAio \/ hook = "function"
    /\ Read({"GRPC_ASYNC", "GRPC_MIDDLEWARE"})
    /\ LET mode == Setting("GRPC_ASYNC")
           loaded == load_middleware(mode, Setting("GRPC_MIDDLEWARE"))
       IN  IF loaded.failed
           THEN phase' = "exited" /\ UNCHANGED servicers
           ELSE /\ servicers' = [servicers EXCEPT ![s] =
                        [chain |-> loaded.handler, loaded_for |-> mode, handler |-> mode,
                         list |-> Setting("GRPC_MIDDLEWARE")]]
                /\ UNCHANGED phase
    /\ UNCHANGED <<command, hook, calls>>

(* The hook returned. A coroutine is awaited by the asynchronous server only:  *)
(* the synchronous one goes on with the coroutine object. Adding the port may  *)
(* raise, which ends the command.                                              *)
Bind ==
    /\ phase = "hook"
    /\ \/ \A s \in Services : servicers[s] # Nothing
       \/ ~IsAio /\ hook = "coroutine"
    /\ phase' \in {"bound", "exited"}
    /\ UNCHANGED <<settings_vars, command, hook, servicers, calls>>

Start ==
    /\ phase = "bound"
    /\ phase' = "started"
    /\ UNCHANGED <<settings_vars, command, hook, servicers, calls>>

(* A call: the handler was chosen when the servicer was added; before_action   *)
(* reads the mode again, and the request takes its SERVER_PORT from the settings. *)
Call(s) ==
    /\ phase = "started" /\ servicers[s] # Nothing
    /\ Read({"GRPC_ASYNC", "GRPC_CHANNEL_PORT"})
    /\ calls' = calls \cup {[service |-> s, before_action |-> Setting("GRPC_ASYNC"),
                             port |-> Setting("GRPC_CHANNEL_PORT")]}
    /\ UNCHANGED <<command, hook, phase, servicers>>

(* OSError, KeyboardInterrupt, or the autoreloader that saw a change: the       *)
(* process ends.                                                               *)
Exit ==
    /\ phase \in {"hook", "bound", "started"}
    /\ phase' = "exited"
    /\ UNCHANGED <<settings_vars, command, hook, servicers, calls>>

(* The next process, of the autoreloader or of whoever starts the command again. *)
Restart ==
    /\ phase = "exited"
    /\ user_settings' = Nothing
    /\ attrs' = [n \in Names |-> Nothing]
    /\ cached' = {} /\ signal' = FALSE /\ early' = {}
    /\ reloads' = [before |-> MaxReloads, since |-> 0]      \* bound: no change after
    /\ command' = Nothing
    /\ phase' = "idle"
    /\ servicers' = [s \in Services |-> Nothing]
    /\ calls' = {}
    /\ UNCHANGED <<user, hook>>

Next ==
    \/ \E n \in Names : ReadSetting(n)
    \/ \E new \in UserSettings : ChangeSettings(new)
    \/ Reload
    \/ \E name \in {"grpcrunserver", "grpcrunaioserver"}, port \in Ports \cup {Nothing} :
          Parse(name, port)
    \/ Handle
    \/ \E s \in Services : AddServicer(s) \/ Call(s)
    \/ Bind
    \/ Start
    \/ Exit
    \/ Restart

Spec == Init /\ [][Next]_vars
--------------------------------------------------------------------------------
Made(s) == servicers[s] # Nothing

(* "set GRPC_ASYNC to "true" in order to start server asynchronously"          *)
(* (grpcrunaioserver.py:57, grpcrunserver.py:66). What a command starts is in  *)
(* one mode from the server down to before_action: the chain of each servicer, *)
(* its handlers and what each call reads; and the port calls read is the one   *)
(* the asynchronous server was given. A reload of the settings breaks this for *)
(* the mode only if it was read before the command assigned it, and always for *)
(* the port, which add_arguments reads. A started server has all its servicers *)
(* unless it is synchronous with a coroutine for a hook, and then it has none. *)
StartedAsAsked ==
    /\ reloads.since = 0 \/ "GRPC_ASYNC" \notin early =>
          /\ \A s \in Services : Made(s) =>
                servicers[s].loaded_for = IsAio /\ servicers[s].handler = IsAio
          /\ \A call \in calls : call.before_action = IsAio
    /\ \A call \in calls : reloads.since = 0 /\ IsAio => call.port = command.port
    /\ phase = "started" =>
          IF ~IsAio /\ hook = "coroutine" THEN \A s \in Services : ~Made(s)
          ELSE \A s \in Services : Made(s)

(* The middlewares of the settings that end up in a chain. *)
Used(list) == {j \in DOMAIN list : list[j].makes = "instance"}

(* The chain of a servicer, and the middlewares of the settings in it.          *)
ChainFits(servicer) ==
    LET links == servicer.chain.links
        list == servicer.list
        inner(i) == IF i = Len(links) THEN servicer.loaded_for ELSE links[i + 1].is_async
    IN  /\ \E at \in [DOMAIN links -> DOMAIN list] :
              /\ Range(at) = Used(list)
              /\ \A i, j \in DOMAIN links : i < j => at[i] < at[j]
              /\ \A i \in DOMAIN links : links[i].middleware = list[at[i]]
        /\ \A i \in DOMAIN links :
              /\ links[i].wraps = links[i].is_async
              /\ IF links[i].is_async THEN links[i].middleware.can_async
                 ELSE links[i].middleware.can_sync
              /\ links[i].is_async # inner(i) =>
                    ~(links[i].middleware.can_sync /\ links[i].middleware.can_async)
        /\ servicer.chain.is_async = servicer.loaded_for

(* load_middleware. In the chain of a servicer the middlewares of the settings *)
(* that are used stand in their order, each in a mode it declares and around a *)
(* handler of that mode; the chain as a whole has the mode it was loaded for;  *)
(* and a middleware that can run in both modes is never a reason to change:    *)
(* it runs in the mode of what it wraps.                                       *)
MiddlewaresFit == \A s \in Services : Made(s) => ChainFits(servicers[s])
================================================================================
