----------------------------- MODULE RpcLifecycle -----------------------------
(* The life of an RPC inside django-socio-grpc: from the gRPC server's queue  *)
(* through ServicerProxy's handler, the GRPC_MIDDLEWARE chain,                *)
(* Service.before_action, the action, Service.after_action, the way back      *)
(* through the chain, the iteration of a streamed response, exception         *)
(* translation and response logging.                                          *)
(*                                                                            *)
(* Both server modes are covered. With Async = FALSE a call occupies a thread *)
(* of a pool that is reused by later calls, and that thread owns the          *)
(* thread-local data and a database connection. With Async = TRUE every call  *)
(* has a context of its own, but all blocking work, hence the database        *)
(* connection, lives on one shared thread, and a call can be cancelled at     *)
(* any await.                                                                 *)
EXTENDS Naturals, Sequences, FiniteSets

CONSTANTS Calls,            \* the RPCs of the run
          Streaming,        \* those whose action is a generator
          Workers,          \* threads of the synchronous server's pool
          SyncThread,       \* the thread asgiref runs blocking code on
          None,             \* "no call", "no thread"
          Async,            \* grpc_settings.GRPC_ASYNC
          LogOkResponse,    \* grpc_settings.LOG_OK_RESPONSE or settings.DEBUG
          Chain,            \* grpc_settings.GRPC_MIDDLEWARE, outermost first
          LanguageOf,       \* LanguageOf[c]: the language c's metadata asks for
          DefaultLanguage,  \* settings.LANGUAGE_CODE
          MaxItems          \* bound on the messages of a streamed response

MiddlewareNames == {"log", "close", "locale", "auth"}

ASSUME StreamingAssumption == Streaming \subseteq Calls
ASSUME ModeAssumption == Async \in BOOLEAN /\ LogOkResponse \in BOOLEAN
ASSUME ChainAssumption == Chain \in Seq(MiddlewareNames)
ASSUME NoneAssumption == None \notin Calls /\ None \notin Workers
ASSUME BoundAssumption == MaxItems \in Nat

VARIABLES
    pc,             \* pc[c]: where c's handler is
    depth,          \* depth[c]: index of the middleware c is entering or leaving
    exc,            \* exc[c]: the exception being propagated
    slot,           \* slot[c]: the context (pool thread or task) c runs in
    servicer,       \* servicer[s]: _ServicerCtx.service in context s
    language,       \* language[s]: the translation active in context s
    conn,           \* conn[t]: is thread t's database connection open
    authPerformed,  \* authPerformed[c]: service._is_auth_performed
    granted,        \* granted[c]: every permission of the action agreed
    sent,           \* sent[c]: messages handed to gRPC
    status,         \* status[c]: the status the client gets, "none" before
    logged,         \* logged[c]: levels of the records log_response wrote
    resolutions,    \* history: calls of resolve_user on behalf of c
    afters,         \* history: calls of after_action on behalf of c
    produced        \* history: the action ran to its end for c

vars == <<pc, depth, exc, slot, servicer, language, conn, authPerformed,
          granted, sent, status, logged, resolutions, afters, produced>>

--------------------------------------------------------------------------------
(* Exceptions, by what get_exception_status_code_and_details and             *)
(* log_exception tell apart.                                                  *)

Unauthenticated == "Unauthenticated"    \* GRPCException, WARNING
PermissionDenied == "PermissionDenied"  \* GRPCException, WARNING
ClientError == "APIException 4xx"       \* DRF exception below 500
ServerError == "APIException 500"       \* DRF's plain APIException
OtherError == "Exception"               \* anything else
Cancelled == "CancelledError"           \* a BaseException: not caught

ActionErrors == {PermissionDenied, ClientError, ServerError, OtherError}
Caught == ActionErrors \cup {Unauthenticated}

(* get_exception_status_code_and_details: the abort code of an exception. *)
StatusOf(e) ==
    CASE e = Unauthenticated -> "UNAUTHENTICATED"
      [] e = PermissionDenied -> "PERMISSION_DENIED"
      [] e = ClientError -> "INVALID_ARGUMENT"
      [] e = ServerError -> "INTERNAL"
      [] OTHER -> "UNKNOWN"

\* Mutant: a level the request logger does not have.
LevelOf_unknown(e) == IF e = ServerError THEN "FATAL" ELSE "WARNING"

(* log_exception: the level a caught exception is logged at. *)
LevelOf(e) == IF e \in {ServerError, OtherError} THEN "ERROR" ELSE "WARNING"

Levels == {"INFO", "WARNING", "ERROR"}
Failures == {"UNAUTHENTICATED", "PERMISSION_DENIED", "INVALID_ARGUMENT",
             "INTERNAL", "UNKNOWN", "CANCELLED"}

(* Contexts that hold thread-local data, threads that hold a connection. *)
Slots == IF Async THEN Calls ELSE Workers
DbThreads == IF Async THEN {SyncThread} ELSE Workers
DbThreadOf(s) == IF Async THEN SyncThread ELSE s

Languages == {LanguageOf[c] : c \in Calls} \cup {DefaultLanguage}

Locations == {"absent", "queued", "chain", "perms", "action", "after",
              "unwind", "stream", "log", "reply", "done"}

(* Locations in which c's handler is on the stack of its context. *)
Serving(c) == pc[c] \notin {"absent", "queued", "done"}

Init ==
    /\ pc = [c \in Calls |-> "absent"]
    /\ depth = [c \in Calls |-> 0]
    /\ exc = [c \in Calls |-> "none"]
    /\ slot = [c \in Calls |-> None]
    /\ servicer = [s \in Slots |-> None]
    /\ language = [s \in Slots |-> DefaultLanguage]
    /\ conn = [t \in DbThreads |-> "closed"]
    /\ authPerformed = [c \in Calls |-> FALSE]
    /\ granted = [c \in Calls |-> FALSE]
    /\ sent = [c \in Calls |-> 0]
    /\ status = [c \in Calls |-> "none"]
    /\ logged = [c \in Calls |-> << >>]
    /\ resolutions = [c \in Calls |-> 0]
    /\ afters = [c \in Calls |-> 0]
    /\ produced = [c \in Calls |-> FALSE]

Goto(c, l) == pc' = [pc EXCEPT ![c] = l]

(* An exception leaves the frame c is in: the frames that remain to be       *)
(* unwound are the middlewares 1..d.                                          *)
Raise(c, e, l, d) ==
    /\ exc' = [exc EXCEPT ![c] = e]
    /\ Goto(c, l)
    /\ depth' = [depth EXCEPT ![c] = d]

SetConn(c, v) == conn' = [conn EXCEPT ![DbThreadOf(slot[c])] = v]

--------------------------------------------------------------------------------
(* The gRPC server: arrival, dispatch, withdrawal of a queued call. *)

Arrive(c) ==
    /\ pc[c] = "absent"
    /\ Goto(c, "queued")
    /\ UNCHANGED <<depth, exc, slot, servicer, language, conn, authPerformed,
                   granted, sent, status, logged, resolutions, afters, produced>>

(* A context a new call may run in: an idle pool thread, or a fresh task. *)
Free(c, s) == IF Async THEN s = c
                       ELSE \A d \in Calls : Serving(d) => slot[d] # s

(* The client cancels before a thread or task takes the call. *)
Withdraw(c) ==
    /\ pc[c] = "queued"
    /\ Goto(c, "done")
    /\ status' = [status EXCEPT ![c] = "CANCELLED"]
    /\ UNCHANGED <<depth, exc, slot, servicer, language, conn, authPerformed,
                   granted, sent, logged, resolutions, afters, produced>>

\* Mutant: a service left by an earlier call is not replaced.
Publish_once(c, s) ==
    servicer' = IF servicer[s] = None THEN [servicer EXCEPT ![s] = c] ELSE servicer

(* servicer_ctx.service = service *)
Publish(c, s) == servicer' = [servicer EXCEPT ![s] = c]

(* handler() up to its try: the proxy context is built, create_service makes *)
(* a service instance and publishes it in _ServicerCtx.                       *)
create_service(c, s) ==
    /\ pc[c] = "queued" /\ Free(c, s)
    /\ slot' = [slot EXCEPT ![c] = s]
    /\ Publish(c, s)
    /\ depth' = [depth EXCEPT ![c] = 1]
    /\ Goto(c, "chain")
    /\ UNCHANGED <<exc, language, conn, authPerformed, granted, sent, status,
                   logged, resolutions, afters, produced>>

(* GRPCInternalProxyContext cannot be built (filter, pagination or header    *)
(* metadata that is not JSON): the exception leaves the handler before its   *)
(* try, gRPC answers UNKNOWN and writes a record in that context, which names *)
(* whatever service _ServicerCtx still holds there.                           *)
RejectMetadata(c, s) ==
    /\ pc[c] = "queued" /\ Free(c, s)
    /\ status' = [status EXCEPT ![c] = "UNKNOWN"]
    /\ Goto(c, "done")
    /\ UNCHANGED <<depth, exc, slot, servicer, language, conn, authPerformed,
                   granted, sent, logged, resolutions, afters, produced>>

--------------------------------------------------------------------------------
(* Down the middleware chain. *)

Entering(c, name) ==
    /\ pc[c] = "chain"
    /\ depth[c] \in 1 .. Len(Chain)
    /\ Chain[depth[c]] = name

Descend(c) == depth' = [depth EXCEPT ![c] = @ + 1]

EnterLog(c) ==
    /\ Entering(c, "log")
    /\ Descend(c)
    /\ UNCHANGED <<pc, exc, slot, servicer, language, conn, authPerformed,
                   granted, sent, status, logged, resolutions, afters, produced>>

EnterClose(c) ==
    /\ Entering(c, "close")
    /\ SetConn(c, "closed")
    /\ Descend(c)
    /\ UNCHANGED <<pc, exc, slot, servicer, language, authPerformed, granted,
                   sent, status, logged, resolutions, afters, produced>>

\* Mutant: the default language is taken to be active already.
Activate_ifOther(c) ==
    language' = IF LanguageOf[c] = DefaultLanguage THEN language
                ELSE [language EXCEPT ![slot[c]] = LanguageOf[c]]

(* translation.activate(get_language_from_request(...)) *)
Activate(c) == language' = [language EXCEPT ![slot[c]] = LanguageOf[c]]

EnterLocale(c) ==
    /\ Entering(c, "locale")
    /\ Activate(c)
    /\ Descend(c)
    /\ UNCHANGED <<pc, exc, slot, servicer, conn, authPerformed, granted, sent,
                   status, logged, resolutions, afters, produced>>

\* Mutant: the flag is not looked at.
perform_authentication_again(c, raised) ==
    /\ resolutions' = [resolutions EXCEPT ![c] = @ + 1]
    /\ authPerformed' = [authPerformed EXCEPT ![c] = ~raised]
    /\ SetConn(c, "open")

(* Service.perform_authentication: nothing once the flag is set, else the     *)
(* user is resolved (a database access) and the flag set unless that raised.  *)
perform_authentication(c, raised) ==
    IF authPerformed[c]
    THEN /\ ~raised
         /\ UNCHANGED <<authPerformed, resolutions, conn>>
    ELSE /\ resolutions' = [resolutions EXCEPT ![c] = @ + 1]
         /\ authPerformed' = [authPerformed EXCEPT ![c] = ~raised]
         /\ SetConn(c, "open")

EnterAuth(c) ==
    /\ Entering(c, "auth")
    /\ \/ /\ perform_authentication(c, FALSE)
          /\ Descend(c)
          /\ UNCHANGED <<pc, exc>>
       \/ /\ perform_authentication(c, TRUE)
          /\ Raise(c, Unauthenticated, "unwind", depth[c] - 1)
    /\ UNCHANGED <<slot, servicer, language, granted, sent, status, logged,
                   afters, produced>>

--------------------------------------------------------------------------------
(* ServicerProxy._get_response: before_action, the action, after_action. *)

(* before_action, first half. The try that calls after_action is entered. *)
Authenticate(c) ==
    /\ pc[c] = "chain" /\ depth[c] = Len(Chain) + 1
    /\ \/ /\ perform_authentication(c, FALSE)
          /\ Goto(c, "perms")
          /\ UNCHANGED <<depth, exc>>
       \/ /\ perform_authentication(c, TRUE)
          /\ Raise(c, Unauthenticated, "after", Len(Chain))
    /\ UNCHANGED <<slot, servicer, language, granted, sent, status, logged,
                   afters, produced>>

(* before_action, second half: a permission (which may query the database)    *)
(* refuses, or raises, or all agree.                                          *)
CheckPermissions(c) ==
    /\ pc[c] = "perms"
    /\ SetConn(c, "open")
    /\ \/ /\ granted' = [granted EXCEPT ![c] = TRUE]
          /\ Goto(c, "action")
          /\ UNCHANGED <<depth, exc>>
       \/ /\ \E e \in {PermissionDenied, OtherError} :
                Raise(c, e, "after", Len(Chain))
          /\ UNCHANGED granted
    /\ UNCHANGED <<slot, servicer, language, authPerformed, sent, status, logged,
                   resolutions, afters, produced>>

(* The action is called. A unary action runs; calling a generator function   *)
(* only makes the generator.                                                  *)
RunAction(c) ==
    /\ pc[c] = "action"
    /\ IF c \in Streaming
       THEN /\ Goto(c, "after")
            /\ UNCHANGED <<depth, exc, conn, produced>>
       ELSE /\ SetConn(c, "open")
            /\ \/ /\ produced' = [produced EXCEPT ![c] = TRUE]
                  /\ Goto(c, "after")
                  /\ UNCHANGED <<depth, exc>>
               \/ /\ \E e \in ActionErrors : Raise(c, e, "after", Len(Chain))
                  /\ UNCHANGED produced
    /\ UNCHANGED <<slot, servicer, language, authPerformed, granted, sent,
                   status, logged, resolutions, afters>>

(* The finally of _get_response. *)
AfterAction(c) ==
    /\ pc[c] = "after"
    /\ afters' = [afters EXCEPT ![c] = @ + 1]
    /\ Goto(c, "unwind")
    /\ depth' = [depth EXCEPT ![c] = Len(Chain)]
    /\ UNCHANGED <<exc, slot, servicer, language, conn, authPerformed, granted,
                   sent, status, logged, resolutions, produced>>

\* Mutant: the second close is not in a finally.
ClosesOnExit_noFinally(c) == Chain[depth[c]] = "close" /\ exc[c] = "none"

(* close_old_connections_middleware closes again, in a finally. *)
ClosesOnExit(c) == Chain[depth[c]] = "close"

Leaving(c) == pc[c] = "unwind" /\ depth[c] > 0

(* A middleware returns or propagates. *)
LeaveMiddleware(c) ==
    /\ Leaving(c)
    /\ IF ClosesOnExit(c) THEN SetConn(c, "closed") ELSE UNCHANGED conn
    /\ depth' = [depth EXCEPT ![c] = @ - 1]
    /\ UNCHANGED <<pc, exc, slot, servicer, language, authPerformed, granted,
                   sent, status, logged, resolutions, afters, produced>>

--------------------------------------------------------------------------------
(* Back in handler(). *)

Unwound(c) == pc[c] = "unwind" /\ depth[c] = 0

\* Mutant: the stream is iterated whatever the chain returned.
Iterable_always(c) == c \in Streaming

Iterable(c) == exc[c] = "none" /\ c \in Streaming

(* The streamed response starts to be iterated, outside every middleware. *)
StartStream(c) ==
    /\ Unwound(c) /\ Iterable(c)
    /\ Goto(c, "stream")
    /\ UNCHANGED <<depth, exc, slot, servicer, language, conn, authPerformed,
                   granted, sent, status, logged, resolutions, afters, produced>>

\* Mutant: an exception of the generator only ends the iteration.
StreamFails_quietly(c) == Goto(c, "log") /\ UNCHANGED <<depth, exc>>

StreamFails(c) == \E e \in ActionErrors : Raise(c, e, "unwind", 0)

(* The generator runs to its next yield, its end or an exception. *)
NextItem(c) ==
    /\ pc[c] = "stream"
    /\ SetConn(c, "open")
    /\ \/ /\ sent[c] < MaxItems
          /\ sent' = [sent EXCEPT ![c] = @ + 1]
          /\ UNCHANGED <<pc, depth, exc, produced>>
       \/ /\ produced' = [produced EXCEPT ![c] = TRUE]
          /\ Goto(c, "log")
          /\ UNCHANGED <<depth, exc, sent>>
       \/ /\ StreamFails(c)
          /\ UNCHANGED <<sent, produced>>
    /\ UNCHANGED <<slot, servicer, language, authPerformed, granted, status,
                   logged, resolutions, afters>>

\* Mutant: only the exceptions of gRPC and DRF are caught.
Excepted_apiOnly(c) == exc[c] \in Caught \ {OtherError}

(* except Exception *)
Excepted(c) == exc[c] \in Caught

(* The statuses the abort can come to: its own, or CANCELLED when the awaited *)
(* abort is itself overtaken by a cancellation.                               *)
AbortsWith(e) == {StatusOf(e)} \cup (IF Async THEN {"CANCELLED"} ELSE {})

(* process_exception aborts the call. *)
process_exception(c) ==
    /\ Unwound(c) /\ Excepted(c)
    /\ \E st \in AbortsWith(exc[c]) : status' = [status EXCEPT ![c] = st]
    /\ Goto(c, "log")
    /\ UNCHANGED <<depth, exc, slot, servicer, language, conn, authPerformed,
                   granted, sent, logged, resolutions, afters, produced>>

\* Mutant: a handler that only ends by an exception.
Uncaught_cancelled(c) == exc[c] = Cancelled

(* Nothing "except Exception" catches, and nothing left to iterate. *)
Uncaught(c) == exc[c] = Cancelled \/ (exc[c] = "none" /\ c \notin Streaming)

(* On to the finally of the handler. *)
LeaveTry(c) ==
    /\ Unwound(c) /\ Uncaught(c)
    /\ Goto(c, "log")
    /\ UNCHANGED <<depth, exc, slot, servicer, language, conn, authPerformed,
                   granted, sent, status, logged, resolutions, afters, produced>>

\* Mutant: a stream handler that forgets "exc = e".
Records_forgetful(c) ==
    IF exc[c] \in Caught /\ c \notin Streaming THEN <<LevelOf(exc[c])>>
    ELSE <<"INFO">>

\* Mutant: LOG_OK_RESPONSE is not looked at.
Records_always(c) ==
    IF exc[c] \in Caught THEN <<LevelOf(exc[c])>> ELSE <<"INFO">>

(* The records of log_response(exc), where exc is only set by the except. *)
Records(c) ==
    IF exc[c] \in Caught THEN <<LevelOf(exc[c])>>
    ELSE IF LogOkResponse THEN <<"INFO">> ELSE << >>

(* The finally of the handler. *)
log_response(c) ==
    /\ pc[c] = "log"
    /\ logged' = [logged EXCEPT ![c] = @ \o Records(c)]
    /\ Goto(c, "reply")
    /\ UNCHANGED <<depth, exc, slot, servicer, language, conn, authPerformed,
                   granted, sent, status, resolutions, afters, produced>>

\* Mutant: an aborted call is answered as well.
Answers_aborted(c) == c \notin Streaming

(* A unary handler returns its message unless it is left by an exception. *)
Answers(c) == exc[c] = "none" /\ c \notin Streaming

(* The handler is left: gRPC ends the call and the context is free again. *)
Reply(c) ==
    /\ pc[c] = "reply"
    /\ sent' = IF Answers(c) THEN [sent EXCEPT ![c] = 1] ELSE sent
    /\ status' = CASE exc[c] = "none" -> [status EXCEPT ![c] = "OK"]
                   [] exc[c] = Cancelled -> [status EXCEPT ![c] = "CANCELLED"]
                   [] OTHER -> status
    /\ Goto(c, "done")
    /\ UNCHANGED <<depth, exc, slot, servicer, language, conn, authPerformed,
                   granted, logged, resolutions, afters, produced>>

--------------------------------------------------------------------------------
(* Cancellation by the client. *)

\* Mutant: the cancellation of an action is not seen by its finally.
Interrupt_noFinally(c) == Raise(c, Cancelled, "unwind", Len(Chain))

(* The frames of _get_response are left through their finally. *)
Interrupt(c) == Raise(c, Cancelled, "after", Len(Chain))

(* A task is cancelled while it awaits work it handed to the shared thread:  *)
(* the work was withdrawn before it ran, or runs all the same.                *)

(* ... in close_old_connections_middleware, before or after the inner part. *)
CancelClose(c) ==
    /\ Async
    /\ Entering(c, "close") \/ (Leaving(c) /\ ClosesOnExit(c))
    /\ Raise(c, Cancelled, "unwind", depth[c] - 1)
    /\ SetConn(c, "closed") \/ UNCHANGED conn
    /\ UNCHANGED <<slot, servicer, language, authPerformed, granted, sent,
                   status, logged, resolutions, afters, produced>>

(* ... in the authentication, the middleware's or before_action's. *)
CancelAuthentication(c) ==
    /\ Async
    /\ \/ /\ Entering(c, "auth")
          /\ Raise(c, Cancelled, "unwind", depth[c] - 1)
       \/ /\ pc[c] = "chain" /\ depth[c] = Len(Chain) + 1
          /\ Interrupt(c)
    /\ \/ \E raised \in BOOLEAN : perform_authentication(c, raised)
       \/ UNCHANGED <<authPerformed, resolutions, conn>>
    /\ UNCHANGED <<slot, servicer, language, granted, sent, status, logged,
                   afters, produced>>

(* ... in a permission, or in the action of a unary call. *)
CancelAction(c) ==
    /\ Async
    /\ pc[c] = "perms" \/ (pc[c] = "action" /\ c \notin Streaming)
    /\ Interrupt(c)
    /\ SetConn(c, "open") \/ UNCHANGED conn
    /\ \/ pc[c] = "action" /\ produced' = [produced EXCEPT ![c] = TRUE]
       \/ UNCHANGED produced
    /\ UNCHANGED <<slot, servicer, language, authPerformed, granted, sent,
                   status, logged, resolutions, afters>>

(* The consumer of a stream goes away: the task is cancelled, or the thread   *)
(* drops the generator; either way its finally runs with no Exception.        *)
CancelStream(c) ==
    /\ pc[c] = "stream"
    /\ Raise(c, Cancelled, "log", 0)
    /\ UNCHANGED <<slot, servicer, language, conn, authPerformed, granted, sent,
                   status, logged, resolutions, afters, produced>>

--------------------------------------------------------------------------------
Dispatch(c) == \E s \in Slots : create_service(c, s) \/ RejectMetadata(c, s)

(* The steps the server takes by itself once a call is queued. *)
Step(c) ==
    \/ Dispatch(c)
    \/ EnterLog(c) \/ EnterClose(c) \/ EnterLocale(c) \/ EnterAuth(c)
    \/ Authenticate(c) \/ CheckPermissions(c) \/ RunAction(c) \/ AfterAction(c)
    \/ LeaveMiddleware(c) \/ StartStream(c) \/ NextItem(c)
    \/ process_exception(c) \/ LeaveTry(c) \/ log_response(c) \/ Reply(c)

(* The client goes away, or its deadline expires. *)
Cancel(c) == \/ Withdraw(c) \/ CancelStream(c)
             \/ CancelClose(c) \/ CancelAuthentication(c) \/ CancelAction(c)

Next == \E c \in Calls : Arrive(c) \/ Step(c) \/ Cancel(c)

Spec == Init /\ [][Next]_vars

(* Threads and the event loop keep running the code of the calls they hold;  *)
(* clients promise nothing.                                                   *)
Fairness == \A c \in Calls : WF_vars(Step(c))
FairSpec == Spec /\ Fairness

--------------------------------------------------------------------------------
TypeOK ==
    /\ pc \in [Calls -> Locations]
    /\ depth \in [Calls -> 0 .. Len(Chain) + 1]
    /\ exc \in [Calls -> Caught \cup {"none", Cancelled}]
    /\ slot \in [Calls -> Slots \cup {None}]
    /\ servicer \in [Slots -> Calls \cup {None}]
    /\ language \in [Slots -> Languages]
    /\ conn \in [DbThreads -> {"open", "closed"}]
    /\ authPerformed \in [Calls -> BOOLEAN]
    /\ granted \in [Calls -> BOOLEAN]
    /\ sent \in [Calls -> Nat]
    /\ status \in [Calls -> Failures \cup {"none", "OK"}]
    /\ logged \in [Calls -> Seq(Levels)]
    /\ resolutions \in [Calls -> Nat]
    /\ afters \in [Calls -> Nat]
    /\ produced \in [Calls -> BOOLEAN]

(* What TypeOK needs to carry the properties below through every step: how   *)
(* far a call has come, read off its location, its exception and its hooks.   *)
CallInv(c) ==
    /\ pc[c] \in {"absent", "queued"} => slot[c] = None
    /\ Serving(c) => slot[c] \in Slots
    /\ pc[c] \in {"absent", "queued", "chain", "perms"}
          => ~granted[c] /\ ~produced[c] /\ sent[c] = 0
    /\ pc[c] \in {"absent", "queued", "chain", "perms", "action", "stream"}
          => exc[c] = "none"
    /\ pc[c] = "perms" => authPerformed[c]
    /\ pc[c] \in {"action", "stream"} => granted[c]
    /\ pc[c] \in {"after", "unwind", "log", "reply"} /\ exc[c] = "none"
          => granted[c]
    /\ granted[c] => authPerformed[c]
    /\ produced[c] \/ sent[c] > 0 => granted[c]
    /\ pc[c] \notin {"log", "reply", "done"} => status[c] = "none"
    /\ pc[c] \in {"log", "reply"}
          => (IF exc[c] \in Caught THEN status[c] \in Failures
                                   ELSE status[c] = "none")
    /\ pc[c] = "stream" => c \in Streaming
    /\ pc[c] # "done" /\ c \notin Streaming => sent[c] = 0

AdmissionInv == \A c \in Calls : CallInv(c)

(* An action body never runs, and its messages are never sent, for a call    *)
(* whose user was not resolved or whose permissions did not all agree, even   *)
(* where the body is a generator that runs after before_action's frame and    *)
(* every middleware have returned.                                            *)
ActionRunsAdmitted ==
    \A c \in Calls :
        pc[c] \in {"action", "stream"} \/ produced[c] \/ sent[c] > 0
            => authPerformed[c] /\ granted[c]

(* resolve_user runs once per call although both the auth middleware and      *)
(* before_action ask for it.                                                  *)
AuthenticatedOnce ==
    \A c \in Calls : /\ resolutions[c] <= 1
                     /\ granted[c] => resolutions[c] = 1

(* While a call is served, _ServicerCtx in its context names that call's      *)
(* service, although pool threads are reused and the value is never cleared:  *)
(* log records are attributed to the right service.                           *)
ServicerIsOwn ==
    \A c \in Calls : Serving(c) => servicer[slot[c]] = c

(* Past locale_middleware a call, its streamed body included, runs in the     *)
(* language it asked for, never in the one an earlier request left on the     *)
(* thread.                                                                    *)
PastLocale(c) ==
    \/ pc[c] \in {"perms", "action", "stream"}
    \/ /\ pc[c] = "chain"
       /\ \E i \in 1 .. Len(Chain) : i < depth[c] /\ Chain[i] = "locale"

LanguageIsOwn ==
    (\E i \in 1 .. Len(Chain) : Chain[i] = "locale") =>
        \A c \in Calls : PastLocale(c) => language[slot[c]] = LanguageOf[c]

(* after_action runs exactly once for a call that passed before_action, and   *)
(* at most once for any other, whichever way the call ends.                   *)
AfterActionOnce ==
    \A c \in Calls :
        /\ afters[c] <= 1
        /\ granted[c] /\ pc[c] \in {"unwind", "stream", "log", "reply", "done"}
              => afters[c] = 1

(* A call that was served leaves exactly one record (successes only when they *)
(* are to be logged); its level is INFO when the client got OK and WARNING or *)
(* ERROR when the call was aborted.                                           *)
AuditedOnce ==
    \A c \in Calls :
        pc[c] = "done" /\ slot[c] # None =>
            CASE status[c] = "OK" ->
                    logged[c] = IF LogOkResponse THEN <<"INFO">> ELSE << >>
              [] status[c] = "CANCELLED" -> Len(logged[c]) <= 1
              [] OTHER -> logged[c] \in {<<"WARNING">>, <<"ERROR">>}

(* A call that ends with OK did run its action to the end: no exception, in   *)
(* the chain, in the hooks or in the middle of a stream, is turned into OK.   *)
SuccessIsComplete ==
    \A c \in Calls : status[c] = "OK" => produced[c] /\ exc[c] = "none"

(* close_old_connections: "closing old database connections at the beginning  *)
(* and end of a request/response cycle". Once no call is in a thread, its     *)
(* connection, unusable by then, is not left open.                            *)
Idle(t) == \A c \in Calls : Serving(c) => DbThreadOf(slot[c]) # t

IdleThreadsHoldNoConnection == \A t \in DbThreads : Idle(t) => conn[t] = "closed"

(* The same for the threads that served no stream: whichever way unary calls  *)
(* end (in the chain, in a hook, by an exception of the action), and whatever *)
(* calls wait for the thread, none leaves a connection behind on it.          *)
UnaryCallsLeaveNoConnection ==
    \A t \in DbThreads :
        /\ Idle(t)
        /\ \A c \in Calls : slot[c] # None /\ DbThreadOf(slot[c]) = t => c \notin Streaming
        => conn[t] = "closed"

(* Every call a client makes comes to an end. *)
Terminates == \A c \in Calls : (pc[c] = "queued") ~> (pc[c] = "done")

(* What the client sees is the contract of RpcContract. *)
Contract == INSTANCE RpcContract WITH opened <- [c \in Calls |-> slot[c] # None],
                                      admitted <- granted
ContractSpec == Contract!Spec
================================================================================
