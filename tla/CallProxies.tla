----------------------------- MODULE CallProxies -----------------------------
(* What stands for the HTTP request and response of a call: the request made   *)
(* of metadata and of the fields of the message, and the headers of responses, *)
(* kept in the trailing metadata of the call, in the HTTP response and in the  *)
(* proxy itself, through a cached response and back.                           *)
EXTENDS Integers, SequencesExt

CONSTANTS
    Calls,
    HeaderNames, Lower,   \* names of headers and parameters as written, and in lower case
    ResponseNames,        \* those the service and its decorators set
    Values,               \* the header values that are written
    Strings, StrOf,       \* what str makes of them
    Asked,                \* Asked[c]: the metadata and messages call c may come with
    Settings,             \* the settings tried
    Spellings,            \* the keys under which META finds the Vary header, in order
    Age,                  \* the header Django adds to what it takes from its cache
    Nothing,
    MaxOps, MaxProxies    \* bounds on the header operations and the proxies of each call

ResponseKeys == {Lower[n] : n \in ResponseNames \cup {Age}}
Numbers == {v \in Values : StrOf[v] # v}

ASSUME NamesAssumption ==
    /\ Lower \in [HeaderNames -> HeaderNames]
    /\ \A n \in HeaderNames : Lower[Lower[n]] = Lower[n]
    /\ Age \in HeaderNames /\ ResponseNames \subseteq HeaderNames
ASSUME ValuesAssumption ==
    StrOf \in [Values \cup Strings -> Strings] /\ \A v \in Strings : StrOf[v] = v
(* A Python dict: pairs in insertion order, an updated key keeps its place.    *)
IsDict(pairs) == \A i, j \in DOMAIN pairs : pairs[i][1] = pairs[j][1] => i = j

(* The JSON objects that metadata and messages carry. *)
Objects == {d \in Seq(HeaderNames \X Strings) : IsDict(d)}

(* What the settings take for JSON is JSON: anything else fails in json.loads. *)
ASSUME AskedAssumption == \A c \in Calls : \A a \in Asked[c] :
    /\ a.metadata \in Seq(HeaderNames \X (Strings \cup Objects))
    /\ \A i \in DOMAIN a.metadata, s \in Settings :
          Lower[a.metadata[i][1]] \in {s.keys.headers, s.keys.filters, s.keys.pagination}
          => a.metadata[i][2] \in Objects
    /\ a.message.filters \in Objects /\ a.message.pagination \in Objects
ASSUME SpellingsAssumption == Spellings \in Seq(HeaderNames) /\ Spellings # <<>>
ASSUME BoundsAssumption == MaxOps \in [Calls -> Nat] /\ MaxProxies \in [Calls -> Nat]

VARIABLES
    settings,   \* MAP_METADATA_KEYS, FILTER_BEHAVIOR, PAGINATION_BEHAVIOR
    asked,      \* asked[c]: metadata and request message of call c
    status,     \* status[c]: new, handling, failed, done
    request,    \* request[c]: META and query_params
    trailing,   \* trailing[c]: the trailing metadata of the gRPC context
    proxies,    \* proxies[c]: the response proxies made for call c, in order
    cache,      \* the responses cache_page holds, by key
    origin,     \* history: origin[c]: the entry call c was answered with, or Nothing
    blind,      \* history: blind[c]: <<i, n>>, proxy i was not told of header n
    ops         \* how many header operations call c did

vars == <<settings, asked, status, request, trailing, proxies, cache, origin, blind, ops>>

Keys(dict) == {dict[i][1] : i \in DOMAIN dict}
Put(dict, key, value) ==
    IF key \in Keys(dict)
    THEN [i \in DOMAIN dict |-> IF dict[i][1] = key THEN <<key, value>> ELSE dict[i]]
    ELSE Append(dict, <<key, value>>)
Merge(one, other) ==
    LET merged[i \in 0 .. Len(other)] ==
            IF i = 0 THEN one ELSE Put(merged[i - 1], other[i][1], other[i][2])
    IN  merged[Len(other)]
DictOf(pairs) == Merge(<<>>, pairs)
Without(dict, key) ==
    LET kept[i \in 0 .. Len(dict)] ==
            IF i = 0 THEN <<>>
            ELSE IF dict[i][1] = key THEN kept[i - 1] ELSE Append(kept[i - 1], dict[i])
    IN  kept[Len(dict)]
ValueIn(dict, key) ==
    LET i == CHOOSE j \in DOMAIN dict : dict[j][1] = key IN dict[i][2]

NoRequest == [META |-> <<>>, query |-> <<>>]

Init ==
    /\ settings \in Settings
    /\ asked \in [Calls -> UNION {Asked[c] : c \in Calls}]
    /\ \A c \in Calls : asked[c] \in Asked[c]
    /\ status = [c \in Calls |-> "new"]
    /\ request = [c \in Calls |-> NoRequest]
    /\ trailing = [c \in Calls |-> <<>>]
    /\ proxies = [c \in Calls |-> <<>>]
    /\ cache = {}
    /\ origin = [c \in Calls |-> Nothing]
    /\ blind = [c \in Calls |-> {}]
    /\ ops = [c \in Calls |-> 0]
--------------------------------------------------------------------------------
LowerKeys(dict) == DictOf([i \in DOMAIN dict |-> <<Lower[dict[i][1]], dict[i][2]>>])

(* convert_metadata_to_dict. *)
Metadata(c) == LowerKeys(asked[c].metadata)

HeadersKey == settings.keys.headers

(* get_from_metadata: the headers key is taken out of the metadata, and what   *)
(* it holds overrides the rest; without a key the metadata are left alone.     *)
META(metadata) ==
    IF HeadersKey \in Keys(metadata)
    THEN LowerKeys(Merge(Without(metadata, HeadersKey), ValueIn(metadata, HeadersKey)))
    ELSE LowerKeys(metadata)

Left(metadata) == Without(metadata, HeadersKey)

(* parse_specific_key_from_metadata: no key for it in the settings raises.     *)
Parsed(metadata, key) == IF key \in Keys(metadata) THEN ValueIn(metadata, key) ELSE <<>>

ReadsMetadata(behavior) == behavior # "REQUEST_STRUCT_STRICT"
ReadsStruct(behavior) == behavior # "METADATA_STRICT"

Part(metadata, key, struct, behavior) ==
    Merge(IF ReadsMetadata(behavior) THEN Parsed(metadata, key) ELSE <<>>,
          IF ReadsStruct(behavior) THEN struct ELSE <<>>)

(* get_query_params: filters, then pagination. *)
get_query_params(metadata, message) ==
    Merge(Part(metadata, settings.keys.filters, message.filters, settings.filter_behavior),
          Part(metadata, settings.keys.pagination, message.pagination,
               settings.pagination_behavior))

Unmapped ==
    \/ settings.keys.filters = Nothing /\ ReadsMetadata(settings.filter_behavior)
    \/ settings.keys.pagination = Nothing /\ ReadsMetadata(settings.pagination_behavior)

(* GRPCInternalProxyContext, InternalHttpRequest. *)
MakeRequest(c) ==
    /\ status[c] = "new"
    /\ IF Unmapped
       THEN status' = [status EXCEPT ![c] = "failed"] /\ UNCHANGED request
       ELSE /\ status' = [status EXCEPT ![c] = "handling"]
            /\ request' = [request EXCEPT ![c] =
                    [META |-> META(Metadata(c)),
                     query |-> get_query_params(Left(Metadata(c)), asked[c].message)]]
    /\ UNCHANGED <<settings, asked, trailing, proxies, cache, origin, blind, ops>>

(* Mutant: only the spelling with underscores is looked for. *)
Spelled_underscore(meta) ==
    IF Spellings[2] \in Keys(meta) THEN ValueIn(meta, Spellings[2]) ELSE Nothing

(* RequestMeta.__getitem__: HTTP_X_Y as such, then X_Y, then X-Y. *)
Spelled(meta) ==
    LET found == {i \in DOMAIN Spellings : Spellings[i] \in Keys(meta)}
    IN  IF found = {} THEN Nothing ELSE ValueIn(meta, Spellings[Min(found)])

(* InternalHttpRequest.headers: HttpHeaders renames x_y and x-y to X-Y, and the *)
(* later of two entries stays; HTTP_X_Y becomes another header.                *)
headers(meta) ==
    LET found == {i \in DOMAIN meta : meta[i][1] \in Range(Tail(Spellings))}
    IN  IF found = {} THEN Nothing ELSE meta[Max(found)][2]

(* The cache key of Django: the query string, and the headers the response     *)
(* varies on. The URL encoding and the digests tell apart what differs.        *)
CacheKey(c) == <<request[c].query, Spelled(request[c].META)>>
--------------------------------------------------------------------------------
Handling(c) == status[c] = "handling"
Settled(c) == \A i \in DOMAIN proxies[c] : proxies[c][i].attached

(* What the client makes of the trailing metadata: the last of a name counts. *)
Received(c) == DictOf(trailing[c])

Others(c, i) == DOMAIN proxies[c] \ {i}

Counted(c) == ops[c] < MaxOps[c] /\ ops' = [ops EXCEPT ![c] = @ + 1]

(* The service or a middleware appends to the trailing metadata of its context. *)
ContextSet(c, n, v) ==
    /\ Handling(c) /\ Settled(c) /\ Counted(c)
    /\ trailing' = [trailing EXCEPT ![c] = Append(@, <<Lower[n], StrOf[v]>>)]
    /\ blind' = [blind EXCEPT ![c] = @ \cup (Others(c, 0) \X {Lower[n]})]
    /\ UNCHANGED <<settings, asked, status, request, proxies, cache, origin>>

(* GRPCInternalProxyResponse(response, context): around the answer, by a        *)
(* decorator and by the servicer proxy, and around each item of a stream       *)
(* (__next__, __anext__). The copies are made of the trailing metadata.        *)
Wrap(c) ==
    /\ Handling(c) /\ Settled(c) /\ Len(proxies[c]) < MaxProxies[c]
    /\ proxies' = [proxies EXCEPT ![c] = Append(@,
            [attached |-> TRUE, http_response |-> Received(c), store |-> Received(c)])]
    /\ UNCHANGED <<settings, asked, status, request, trailing, cache, origin, blind, ops>>

(* __setitem__: the metadata take the name in lower case and str of the value, *)
(* the HTTP response the name as written, the store both. Before the context   *)
(* is set only Django writes, the age of what it found.                        *)
Setitem(c, i, n, v) ==
    /\ trailing' = IF proxies[c][i].attached
                   THEN [trailing EXCEPT ![c] = Append(@, <<Lower[n], StrOf[v]>>)]
                   ELSE trailing
    /\ proxies' = [proxies EXCEPT ![c][i].http_response = Put(@, n, v),
                                  ![c][i].store = Put(@, Lower[n], v)]
    /\ blind' = [blind EXCEPT ![c] =
            (@ \ {<<i, Lower[n]>>}) \cup
            (IF proxies[c][i].attached THEN Others(c, i) \X {Lower[n]} ELSE {})]
    /\ UNCHANGED <<settings, asked, status, request, cache, origin>>

SetHeader(c, i, n, v) ==
    /\ Handling(c) /\ Settled(c) /\ Counted(c)
    /\ Setitem(c, i, n, v)

SetAge(c, i, v) ==
    /\ Handling(c) /\ ~proxies[c][i].attached /\ Age \notin Keys(proxies[c][i].http_response)
    /\ Setitem(c, i, Age, v)
    /\ UNCHANGED ops

(* Mutant: the HTTP response is asked, which knows names as they were written. *)
Unset_written(proxy, n) == n \notin Keys(proxy.http_response)

(* key not in self: the store is asked, in lower case. *)
Unset(proxy, n) == Lower[n] \notin Keys(proxy.store)

(* setdefault. *)
Setdefault(c, i, n, v) ==
    /\ Handling(c) /\ Settled(c) /\ Counted(c)
    /\ IF Unset(proxies[c][i], n)
       THEN Setitem(c, i, n, v)
       ELSE UNCHANGED <<settings, asked, status, request, trailing, proxies, cache,
                        origin, blind>>

(* __delitem__: the metadata lose the header, then the HTTP response, if it    *)
(* knows the name as written. Either way the call raises: KeyError, or         *)
(* AttributeError for the __delitem__ that CaseInsensitiveMapping has not.     *)
(* The exception ends the call: a service that catches it is left out.         *)
Delete(c, i, n) ==
    /\ Handling(c) /\ Settled(c) /\ Counted(c)
    /\ trailing' = [trailing EXCEPT ![c] = Without(@, Lower[n])]
    /\ proxies' = [proxies EXCEPT ![c][i].http_response = Without(@, n)]
    /\ status' = [status EXCEPT ![c] = "failed"]
    /\ UNCHANGED <<settings, asked, request, cache, origin, blind>>

(* cache_page keeps a response: __getstate__ takes what the trailing metadata  *)
(* hold at that time.                                                          *)
Store(c) ==
    /\ Handling(c) /\ Settled(c) /\ proxies[c] # <<>>
    /\ \A e \in cache : e.by # c                  \* bound: one answer kept per call
    /\ cache' = {e \in cache : e.key # CacheKey(c)} \cup
                {[key |-> CacheKey(c), by |-> c, metadata |-> Received(c)]}
    /\ UNCHANGED <<settings, asked, status, request, trailing, proxies, origin, blind, ops>>

(* A hit: __setstate__ makes a response without context of a kept one. *)
Restore(c, entry) ==
    /\ Handling(c) /\ Settled(c) /\ origin[c] = Nothing /\ Len(proxies[c]) < MaxProxies[c]
    /\ entry.key = CacheKey(c)
    /\ proxies' = [proxies EXCEPT ![c] = Append(@,
            [attached |-> FALSE, http_response |-> entry.metadata, store |-> entry.metadata])]
    /\ origin' = [origin EXCEPT ![c] = entry]
    /\ UNCHANGED <<settings, asked, status, request, trailing, cache, blind, ops>>

(* Mutant: what the context has overrides what was kept. *)
Merged_existing(existing, kept) == Merge(kept, existing)

(* {**existing_metadata, **self.http_response.headers} *)
Merged(existing, kept) == Merge(existing, kept)

(* set_current_context, set_grpc_context. The store of the proxy is not told   *)
(* of what the context had, nor are the other proxies of what is merged in.    *)
Attach(c, i) ==
    /\ Handling(c) /\ ~proxies[c][i].attached
    /\ LET kept == proxies[c][i].http_response
           merged == Merged(Received(c), kept)
           known == {Lower[n] : n \in Keys(kept)}
       IN  /\ trailing' = [trailing EXCEPT ![c] =
                    [k \in DOMAIN merged |-> <<Lower[merged[k][1]], StrOf[merged[k][2]]>>]]
           /\ blind' = [blind EXCEPT ![c] = @ \cup
                    ({i} \X (Keys(Received(c)) \ known)) \cup (Others(c, i) \X known)]
    /\ proxies' = [proxies EXCEPT ![c][i].attached = TRUE]
    /\ UNCHANGED <<settings, asked, status, request, cache, origin, ops>>

(* The last wrapper returns grpc_response, the metadata go out with it. *)
Finish(c) ==
    /\ Handling(c) /\ Settled(c)
    /\ status' = [status EXCEPT ![c] = "done"]
    /\ UNCHANGED <<settings, asked, request, trailing, proxies, cache, origin, blind, ops>>

Next ==
    \E c \in Calls :
        \/ MakeRequest(c)
        \/ Wrap(c)
        \/ Store(c)
        \/ \E entry \in cache : Restore(c, entry)
        \/ Finish(c)
        \/ \E n \in ResponseNames, v \in Values \ Numbers : ContextSet(c, n, v)
        \/ \E i \in DOMAIN proxies[c] :
              \/ Attach(c, i)
              \/ \E v \in Numbers : SetAge(c, i, v)
              \/ \E n \in ResponseNames : Delete(c, i, n)
              \/ \E n \in ResponseNames, v \in Values :
                    SetHeader(c, i, n, v) \/ Setdefault(c, i, n, v)

Spec == Init /\ [][Next]_vars
--------------------------------------------------------------------------------
(* ResponseHeadersProxy keeps a header in the metadata of the call, in the HTTP *)
(* response and in itself "to keep compatibility with django system"           *)
(* (grpc_internal_proxy.py:169). A proxy that has its context, of a call that  *)
(* did not fail, has a header in its store exactly when the client will get it,*)
(* with the value the client will get, and the HTTP response has that value    *)
(* under some spelling; but for headers somebody else wrote since: another     *)
(* proxy, the context, or the context before a cached response was given it.   *)
ViewsAgree ==
    \A c \in Calls : \A i \in DOMAIN proxies[c] : \A n \in ResponseKeys :
        LET proxy == proxies[c][i]
            out == Received(c)
        IN  status[c] # "failed" /\ proxy.attached /\ <<i, n>> \notin blind[c] =>
                /\ n \in Keys(proxy.store) <=> n \in Keys(out)
                /\ n \in Keys(out) =>
                    /\ StrOf[ValueIn(proxy.store, n)] = ValueIn(out, n)
                    /\ \E k \in DOMAIN proxy.http_response :
                          /\ Lower[proxy.http_response[k][1]] = n
                          /\ StrOf[proxy.http_response[k][2]] = ValueIn(out, n)

(* What a client asks for a parameter: the message before the metadata and the *)
(* pagination before the filters, as the settings let them be read.            *)
AskedParam(c, p) ==
    LET struct(part, behavior) ==
            IF ReadsStruct(behavior) THEN asked[c].message[part] ELSE <<>>
        metadata(part, behavior) ==
            IF ReadsMetadata(behavior) /\ settings.keys[part] # HeadersKey
            THEN Parsed(Metadata(c), settings.keys[part]) ELSE <<>>
        dicts == <<struct("pagination", settings.pagination_behavior),
                   metadata("pagination", settings.pagination_behavior),
                   struct("filters", settings.filter_behavior),
                   metadata("filters", settings.filter_behavior)>>
        places == {i \in DOMAIN dicts : p \in Keys(dicts[i])}
    IN  IF places = {} THEN Nothing ELSE ValueIn(dicts[Min(places)], p)

(* The calls that spell the header the responses vary on in one way at most,   *)
(* and without the HTTP_ prefix: META and headers then read the same.          *)
SpelledOnce(c) ==
    LET names == Keys(request[c].META) \cap Range(Spellings)
    IN  Head(Spellings) \notin names /\ \A m, n \in names : m = n

(* cache_endpoint with vary_on_metadata. A call answered from the cache asked  *)
(* for the same filters and pagination as the call whose answer it is, and a   *)
(* service would have read the same value of the header the answer varies on,  *)
(* provided both calls spell it once; and every header kept with the answer    *)
(* reaches the client.                                                         *)
HitIsOwn ==
    \A c \in Calls : origin[c] # Nothing =>
        LET by == origin[c].by
        IN  /\ \A p \in Keys(request[c].query) \cup Keys(request[by].query) :
                  AskedParam(c, p) = AskedParam(by, p)
            /\ SpelledOnce(c) /\ SpelledOnce(by) =>
                  headers(request[c].META) = headers(request[by].META)
            /\ status[c] = "done" => Keys(origin[c].metadata) \subseteq Keys(Received(c))

(* "Set a header unless it has already been set" (grpc_internal_proxy.py:108): *)
(* setdefault leaves what the client gets for a header alone when it had one,  *)
(* however the name is written; but for headers somebody else wrote since.     *)
SetdefaultKeeps ==
    [][\A c \in {d \in Calls : trailing'[d] # trailing[d]} :
          \A i \in DOMAIN proxies[c], n \in ResponseNames :
             Lower[n] \in Keys(Received(c)) /\ <<i, Lower[n]>> \notin blind[c]
             => \A v \in Values : ~Setdefault(c, i, n, v)]_vars
================================================================================
