---------------------------- MODULE EndpointCache ----------------------------
(* cache_endpoint_with_deleter: the registration of cached actions, the fill   *)
(* of the cache by cached calls and its invalidation by the signals of saves,  *)
(* in the asynchronous server (http_to_grpc does not support the synchronous   *)
(* one). Several server processes may share the database and the cache.        *)
(*                                                                             *)
(* Of a model only the version matters: the number of times it was saved.      *)
(* One action is cached, declared by a service and inherited by others; a key  *)
(* is the pair of the key prefix (the name of the service a cache layer was    *)
(* registered for) and of the service called, which is part of the URL.        *)
(*                                                                             *)
(* In a process, a cached call runs in sync_to_async(decorator(async_to_sync   *)
(* (...))) and a save runs in sync_to_async: both hold, from their first to    *)
(* their last step, the one thread asgiref runs synchronous code on.           *)
EXTENDS Naturals, Sequences

CONSTANTS Services,     \* services that have the cached action
          Parent,       \* Parent[s]: the service s inherits it from, or None
          ModelOf,      \* ModelOf[s]: the model of the queryset of s
          Processes,    \* server processes
          Calls,        \* calls of the cached action
          ServiceOf,    \* ServiceOf[c]: the service called
          Saves,        \* saves of a model
          SavedModel,   \* SavedModel[w]: the model saved
          Atomic,       \* the saves inside a transaction of the caller
          None

Models == {ModelOf[s] : s \in Services}
Jobs == Calls \cup Saves
Keys == Services \X Services      \* prefix, service called
Key(prefix, c) == <<prefix, ServiceOf[c]>>

ASSUME ParentAssumption == Parent \in [Services -> Services \cup {None}]
ASSUME ModelAssumption == \A w \in Saves : SavedModel[w] \in Models
ASSUME AtomicAssumption == Atomic \subseteq Saves
ASSUME CallAssumption == \A c \in Calls : ServiceOf[c] \in Services
ASSUME NoneAssumption == None \notin Jobs \cup Services \cup Processes
ASSUME DisjointAssumption == Calls \cap Saves = {}

VARIABLES
    hasPattern, \* the cache backend has delete_pattern, the same in every state
    layers,    \* layers[s]: prefixes of the cache_page layers, outermost first
    receivers, \* the prefixes with an invalidate_cache receiver, in order
    db,        \* db[m]: committed version of model m
    header,    \* the keys whose cache_header entry is present
    page,      \* page[k]: version in the cache_page entry, or None
    pc,        \* pc[j]: where job j is
    on,        \* on[j]: the process that runs job j
    thread,    \* thread[p]: the job that holds the synchronous thread of p
    level,     \* level[c]: the layer call c is in
    value,     \* value[j]: the version call j will answer, or save j committed
    todo,      \* todo[w]: the receivers the signal of save w has yet to run
    saved,     \* history: saved[m], highest version whose save has returned
    floor,     \* history: saved[m] when the call began
    overtaken, \* history: overtaken[w], another process filled the cache from
               \* the model of w, or began to, before w was committed
    raced      \* history: that was so for a save of the model that was committed

vars == <<hasPattern, layers, receivers, db, header, page, pc, on, thread, level, value,
          todo, saved, floor, overtaken, raced>>

registration == <<hasPattern, layers, receivers>>
cache == <<header, page>>
scheduling == <<on, thread>>
history == <<overtaken, raced>>

Init ==
    /\ hasPattern \in BOOLEAN
    /\ layers = [s \in Services |-> << >>]
    /\ receivers = << >>
    /\ db = [m \in Models |-> 0]
    /\ header = {}
    /\ page = [k \in Keys |-> None]
    /\ pc = [j \in Jobs |-> "new"]
    /\ on = [j \in Jobs |-> None]
    /\ thread = [p \in Processes |-> None]
    /\ level = [c \in Calls |-> 0]
    /\ value = [j \in Jobs |-> 0]
    /\ todo = [w \in Saves |-> << >>]
    /\ saved = [m \in Models |-> 0]
    /\ floor = [c \in Calls |-> 0]
    /\ overtaken = [w \in Saves |-> FALSE]
    /\ raced = [m \in Models |-> FALSE]

Goto(j, l) == pc' = [pc EXCEPT ![j] = l]
Model(c) == ModelOf[ServiceOf[c]]
Prefix(c) == layers[ServiceOf[c]][level[c]]

--------------------------------------------------------------------------------
(* Registration, before the server starts. *)

Registered(s) == layers[s] # << >>
Serving == \A s \in Services : Registered(s)

(* What getattr(owner, action) finds: the action of the parent, which already *)
(* has its layers if the parent was registered before.                        *)
Inherited(s) == IF Parent[s] = None THEN << >> ELSE layers[Parent[s]]

(* register_invalidate_cache_signal: the owner gets a receiver and a layer,   *)
(* both for the prefix "<owner>-<action>".                                    *)
Register(s) ==
    /\ ~Registered(s)
    /\ layers' = [layers EXCEPT ![s] = <<s>> \o Inherited(s)]
    /\ receivers' = Append(receivers, s)
    /\ UNCHANGED <<hasPattern, db, cache, pc, scheduling, level, value, todo, saved,
                   floor, history>>

--------------------------------------------------------------------------------
(* The synchronous thread of a process. *)

\* Mutant: support_async=True, the decorator runs on the event loop.
Acquire_loop(p, j) ==
    /\ thread' = IF j \in Saves THEN [thread EXCEPT ![p] = j] ELSE thread
    /\ j \in Saves => thread[p] = None
    /\ on' = [on EXCEPT ![j] = p]

Acquire(p, j) ==
    /\ thread[p] = None
    /\ thread' = [thread EXCEPT ![p] = j]
    /\ on' = [on EXCEPT ![j] = p]

Release(j) ==
    /\ thread' = [p \in Processes |-> IF thread[p] = j THEN None ELSE thread[p]]
    /\ UNCHANGED on

--------------------------------------------------------------------------------
(* A cached call: cache_page around cache_page ... around the action. *)

Begin(c, p) ==
    /\ Serving /\ pc[c] = "new"
    /\ Acquire(p, c)
    /\ level' = [level EXCEPT ![c] = 1]
    /\ floor' = [floor EXCEPT ![c] = saved[Model(c)]]
    /\ Goto(c, "header?")
    /\ UNCHANGED <<registration, db, cache, value, todo, saved, history>>

\* Mutant: one layer too deep.
Deeper_beyond(c) ==
    IF level[c] <= Len(layers[ServiceOf[c]])
    THEN level' = [level EXCEPT ![c] = @ + 1] /\ Goto(c, "header?")
    ELSE Goto(c, "action") /\ UNCHANGED level

(* On to the next layer, or to the action itself. *)
Deeper(c) ==
    IF level[c] < Len(layers[ServiceOf[c]])
    THEN level' = [level EXCEPT ![c] = @ + 1] /\ Goto(c, "header?")
    ELSE Goto(c, "action") /\ UNCHANGED level

(* get_cache_key: without a list of varying headers there is no page key. *)
LookupHeader(c) ==
    /\ pc[c] = "header?"
    /\ IF Key(Prefix(c), c) \in header
       THEN Goto(c, "page?") /\ UNCHANGED level
       ELSE Deeper(c)
    /\ UNCHANGED <<registration, db, cache, scheduling, value, todo, saved, floor,
                   history>>

(* A hit clears _cache_update_cache on the context all the layers share: none *)
(* of the outer layers will store the response.                               *)
LookupPage(c) ==
    /\ pc[c] = "page?"
    /\ LET hit == page[Key(Prefix(c), c)]
       IN IF hit # None
          THEN /\ value' = [value EXCEPT ![c] = hit]
               /\ Goto(c, "return") /\ UNCHANGED level
          ELSE Deeper(c) /\ UNCHANGED value
    /\ UNCHANGED <<registration, db, cache, scheduling, todo, saved, floor, history>>

(* Save w was written and is not committed: post_save has been sent, or is.    *)
Open(w) == w \in Atomic /\ pc[w] \in {"signal", "pages"}

(* The action reads the database; every layer missed, so every layer stores,  *)
(* the innermost first.                                                       *)
RunAction(c) ==
    /\ pc[c] = "action"
    /\ value' = [value EXCEPT ![c] = db[Model(c)]]
    /\ overtaken' = [w \in Saves |->
            overtaken[w] \/ (Open(w) /\ SavedModel[w] = Model(c) /\ on[w] # on[c])]
    /\ Goto(c, "header!")
    /\ UNCHANGED <<registration, db, cache, scheduling, level, todo, saved, floor, raced>>

(* learn_cache_key *)
StoreHeader(c) ==
    /\ pc[c] = "header!"
    /\ header' = header \cup {Key(Prefix(c), c)}
    /\ Goto(c, "page!")
    /\ UNCHANGED <<registration, db, page, scheduling, level, value, todo, saved,
                   floor, history>>

StorePage(c) ==
    /\ pc[c] = "page!"
    /\ page' = [page EXCEPT ![Key(Prefix(c), c)] = value[c]]
    /\ IF level[c] > 1
       THEN level' = [level EXCEPT ![c] = @ - 1] /\ Goto(c, "header!")
       ELSE Goto(c, "return") /\ UNCHANGED level
    /\ UNCHANGED <<registration, db, header, scheduling, value, todo, saved, floor,
                   history>>

Return(c) ==
    /\ pc[c] = "return"
    /\ Release(c)
    /\ Goto(c, "done")
    /\ UNCHANGED <<registration, db, cache, level, value, todo, saved, floor, history>>

--------------------------------------------------------------------------------
(* A save and its post_save signal. *)

\* Mutant: one receiver for all the services of a model, the last one kept.
Deleted_last(w, s) ==
    IF ModelOf[s] # SavedModel[w] \/ s # receivers[Len(receivers)] THEN {}
    ELSE IF hasPattern THEN {k \in Keys : k[1] = s}
    ELSE Keys

(* What the receiver of s deletes when w is saved: nothing when the sender is  *)
(* another model, else the keys of its prefix; without delete_pattern, the     *)
(* whole cache.                                                                *)
Deleted(w, s) ==
    IF ModelOf[s] # SavedModel[w] THEN {}
    ELSE IF hasPattern THEN {k \in Keys : k[1] = s}
    ELSE Keys

(* Calls that have read model m and have not stored it in every layer. *)
Filling(m) == {c \in Calls : pc[c] \in {"header!", "page!"} /\ Model(c) = m}

Overtaken(w, p) == \E c \in Filling(SavedModel[w]) : on[c] # p

(* The row is committed; save() then sends post_save. *)
Commit(w, p) ==
    /\ Serving /\ pc[w] = "new" /\ w \notin Atomic
    /\ Acquire(p, w)
    /\ db' = [db EXCEPT ![SavedModel[w]] = @ + 1]
    /\ value' = [value EXCEPT ![w] = db[SavedModel[w]] + 1]
    /\ todo' = [todo EXCEPT ![w] = receivers]
    /\ raced' = [raced EXCEPT ![SavedModel[w]] = @ \/ Overtaken(w, p)]
    /\ Goto(w, "signal")
    /\ UNCHANGED <<registration, cache, level, saved, floor, overtaken>>

(* In a transaction save() sends post_save before the row is committed; the    *)
(* transaction holds the thread of its process until it ends.                  *)
Write(w, p) ==
    /\ Serving /\ pc[w] = "new" /\ w \in Atomic
    /\ Acquire(p, w)
    /\ todo' = [todo EXCEPT ![w] = receivers]
    /\ overtaken' = [overtaken EXCEPT ![w] = Overtaken(w, p)]
    /\ Goto(w, "signal")
    /\ UNCHANGED <<registration, db, cache, level, value, saved, floor, raced>>

(* invalidate_cache of the next receiver, one command to the cache at a time:  *)
(* first the header keys,                                                      *)
DeleteHeaders(w) ==
    /\ pc[w] = "signal" /\ todo[w] # << >> /\ hasPattern
    /\ header' = header \ Deleted(w, Head(todo[w]))
    /\ Goto(w, "pages")
    /\ UNCHANGED <<registration, db, page, scheduling, level, value, todo, saved, floor,
                   history>>

Without(keys) == [k \in Keys |-> IF k \in keys THEN None ELSE page[k]]

(* then the page keys;                                                         *)
DeletePages(w) ==
    /\ pc[w] = "pages"
    /\ page' = Without(Deleted(w, Head(todo[w])))
    /\ todo' = [todo EXCEPT ![w] = Tail(@)]
    /\ Goto(w, "signal")
    /\ UNCHANGED <<registration, db, header, scheduling, level, value, saved, floor,
                   history>>

(* or both at once.                                                            *)
Clear(w) ==
    /\ pc[w] = "signal" /\ todo[w] # << >> /\ ~hasPattern
    /\ header' = header \ Deleted(w, Head(todo[w]))
    /\ page' = Without(Deleted(w, Head(todo[w])))
    /\ todo' = [todo EXCEPT ![w] = Tail(@)]
    /\ UNCHANGED <<registration, db, pc, scheduling, level, value, saved, floor,
                   history>>

(* The transaction is committed after its signals. *)
CommitTransaction(w) ==
    /\ Open(w) /\ pc[w] = "signal" /\ todo[w] = << >>
    /\ db' = [db EXCEPT ![SavedModel[w]] = @ + 1]
    /\ value' = [value EXCEPT ![w] = db[SavedModel[w]] + 1]
    /\ raced' = [raced EXCEPT ![SavedModel[w]] = @ \/ overtaken[w]]
    /\ Goto(w, "committed")
    /\ UNCHANGED <<registration, cache, scheduling, level, todo, saved, floor, overtaken>>

(* It is rolled back, whatever was deleted by then. *)
Rollback(w) ==
    /\ Open(w)
    /\ Release(w)
    /\ todo' = [todo EXCEPT ![w] = << >>]
    /\ Goto(w, "done")
    /\ UNCHANGED <<registration, db, cache, level, value, saved, floor, history>>

Saved(w) ==
    /\ IF w \in Atomic THEN pc[w] = "committed" ELSE pc[w] = "signal" /\ todo[w] = << >>
    /\ Release(w)
    /\ saved' = [saved EXCEPT ![SavedModel[w]] = IF @ < value[w] THEN value[w] ELSE @]
    /\ Goto(w, "done")
    /\ UNCHANGED <<registration, db, cache, level, value, todo, floor, history>>

--------------------------------------------------------------------------------
(* The timeout of an entry. *)
Expire(k) ==
    /\ \/ k \in header /\ header' = header \ {k} /\ UNCHANGED page
       \/ page[k] # None /\ page' = [page EXCEPT ![k] = None] /\ UNCHANGED header
    /\ UNCHANGED <<registration, db, pc, scheduling, level, value, todo, saved,
                   floor, history>>

CallStep(c) ==
    \/ \E p \in Processes : Begin(c, p)
    \/ LookupHeader(c) \/ LookupPage(c) \/ RunAction(c)
    \/ StoreHeader(c) \/ StorePage(c) \/ Return(c)

SaveStep(w) ==
    \/ \E p \in Processes : Commit(w, p) \/ Write(w, p)
    \/ DeleteHeaders(w) \/ DeletePages(w) \/ Clear(w)
    \/ CommitTransaction(w) \/ Rollback(w) \/ Saved(w)

Next ==
    \/ \E s \in Services : Register(s)
    \/ \E c \in Calls : CallStep(c)
    \/ \E w \in Saves : SaveStep(w)
    \/ \E k \in Keys : Expire(k)

Spec == Init /\ [][Next]_vars

--------------------------------------------------------------------------------
TypeOK ==
    /\ hasPattern \in BOOLEAN
    /\ layers \in [Services -> Seq(Services)]
    /\ receivers \in Seq(Services)
    /\ db \in [Models -> Nat] /\ saved \in [Models -> Nat]
    /\ header \subseteq Keys
    /\ page \in [Keys -> Nat \cup {None}]
    /\ pc \in [Jobs -> {"new", "header?", "page?", "action", "header!", "page!",
                        "return", "signal", "pages", "committed", "done"}]
    /\ on \in [Jobs -> Processes \cup {None}]
    /\ thread \in [Processes -> Jobs \cup {None}]
    /\ level \in [Calls -> Nat]
    /\ \A c \in Calls : level[c] <= Len(layers[ServiceOf[c]])
    /\ value \in [Jobs -> Nat] /\ floor \in [Calls -> Nat]
    /\ todo \in [Saves -> Seq(Services)]
    /\ overtaken \in [Saves -> BOOLEAN] /\ raced \in [Models -> BOOLEAN]

Answered(c) == pc[c] = "done"

(* "automatically delete the cache when a django signals is called from the   *)
(* models [...] used for the queryset": a call that begins after a save has   *)
(* returned answers what was saved or something later, never an older entry.  *)
FreshAnswers == \A c \in Calls : Answered(c) => value[c] >= floor[c]

(* The same with several processes, up to the one race no invalidation can    *)
(* close: a save committed while another process holds a value it has read    *)
(* and not stored yet, or, in a transaction, after another process has read   *)
(* what the signal had already deleted. Within one process the shared thread  *)
(* closes both: there this is FreshAnswers.                                   *)
StaleOnlyAfterRace ==
    \A c \in Calls : Answered(c) /\ value[c] < floor[c] => raced[Model(c)]

Stale(k) == page[k] # None /\ page[k] < db[ModelOf[k[2]]]

(* Save w has yet to send the command that deletes page k. *)
Deletes(w, k) == \E i \in 1 .. Len(todo[w]) : k \in Deleted(w, todo[w][i])

(* The invalidation of a save reaches every layer of every service that shows *)
(* its model, inherited ones included: as long as no fill raced with a save,  *)
(* an entry older than the database is one a running save is about to delete. *)
StaleEntriesAreDoomed ==
    \A k \in Keys : Stale(k) /\ ~raced[ModelOf[k[2]]] => \E w \in Saves : Deletes(w, k)
================================================================================
