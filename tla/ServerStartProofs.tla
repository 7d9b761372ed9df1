-------------------------- MODULE ServerStartProofs --------------------------
(* A server runs in the mode of the command that started it, with the chains of *)
(* middlewares its settings ask for: any services, ports, middlewares, settings. *)
EXTENDS ServerStart, InductionLemmas

(* The phases in which handle has assigned the mode and the port.              *)
Handled == phase \in {"hook", "bound", "started", "exited"}

(* The settings object holds settings or nothing, and the histories count.     *)
SettingsOK ==
    /\ user \in UserSettings
    /\ user_settings \in UserSettings \cup {Nothing}
    /\ attrs = [n \in Names |-> attrs[n]]
    /\ attrs["GRPC_CHANNEL_PORT"] \in Ports \cup {Nothing}
    /\ reloads \in [before : Nat, since : Nat]

PhaseOK == phase \in {"idle", "parsed", "hook", "bound", "started", "exited"}

(* What was not read before handle is not among the attributes a reload would  *)
(* delete: by then it is a plain attribute, which __getattr__ is not asked for. *)
NotForgotten == "GRPC_ASYNC" \in cached => "GRPC_ASYNC" \in early

Undisturbed == reloads.since = 0 \/ "GRPC_ASYNC" \notin early

(* The assignments of handle hold until a reload that knows of them.           *)
Assigned ==
    Handled =>
        /\ command.port \in Ports
        /\ Undisturbed => attrs["GRPC_ASYNC"] = IsAio
        /\ reloads.since = 0 /\ IsAio => attrs["GRPC_CHANNEL_PORT"] = command.port

(* Before, nothing is on the server. *)
Fresh ==
    ~Handled => (\A s \in Services : ~Made(s)) /\ calls = {}

ParsedPort == phase = "parsed" => command.port \in Ports

(* The servicers: a table, and whole when the hook has been waited for.        *)
Whole ==
    /\ servicers = [s \in Services |-> servicers[s]]
    /\ Handled /\ ~IsAio /\ hook = "coroutine" => \A s \in Services : ~Made(s)
    /\ phase \in {"bound", "started"} =>
          IF ~IsAio /\ hook = "coroutine" THEN \A s \in Services : ~Made(s)
          ELSE \A s \in Services : Made(s)

InMode ==
    /\ Undisturbed =>
          /\ \A s \in Services : Made(s) =>
                servicers[s].loaded_for = IsAio /\ servicers[s].handler = IsAio
          /\ \A call \in calls : call.before_action = IsAio
    /\ \A call \in calls : reloads.since = 0 /\ IsAio => call.port = command.port

StartInv ==
    SettingsOK /\ PhaseOK /\ NotForgotten /\ Assigned /\ Fresh /\ ParsedPort /\ Whole /\ InMode
--------------------------------------------------------------------------------
LEMMA InitInv == Init => StartInv
  BY DEF Init, StartInv, SettingsOK, PhaseOK, NotForgotten, Assigned, Fresh, ParsedPort, Whole,
         InMode, Handled, Made, Names

LEMMA AioIsBoolean == IsAio \in BOOLEAN /\ IsAio # Nothing
  BY NothingAssumption DEF IsAio

(* An attribute that is there stays what it is when settings are read, and     *)
(* what is kept before handle is known to have been read early.                *)
LEMMA ReadSteps ==
    ASSUME SettingsOK, NotForgotten, NEW names \in SUBSET Names, Read(names)
    PROVE  /\ SettingsOK'
           /\ \A n \in Names : attrs[n] # Nothing => attrs'[n] = attrs[n]
           /\ reloads' = reloads
           /\ ~Handled /\ PhaseOK => NotForgotten'
           /\ Handled => early' = early
           /\ "GRPC_ASYNC" \in cached' => "GRPC_ASYNC" \in cached \/ attrs["GRPC_ASYNC"] = Nothing
<1>1. UserSettingsRead \in UserSettings
  BY DEF SettingsOK, UserSettingsRead
<1>2. UserSettingsRead["GRPC_CHANNEL_PORT"] \in Ports
  BY <1>1 DEF UserSettings
<1>3. \A n \in Names : attrs[n] # Nothing => attrs'[n] = attrs[n]
  BY DEF Read
<1>4. attrs'["GRPC_CHANNEL_PORT"] \in Ports \cup {Nothing}
  BY <1>2 DEF Read, SettingsOK, Names
<1>5. attrs' = [n \in Names |-> attrs'[n]]
  BY DEF Read
<1>6. SettingsOK'
  BY <1>1, <1>4, <1>5 DEF SettingsOK, Read
<1>7. ~Handled /\ PhaseOK => NotForgotten'
  BY DEF Handled, PhaseOK, NotForgotten, Read
<1>8. Handled => early' = early
  BY DEF Handled, Read
<1>9. "GRPC_ASYNC" \in cached' => "GRPC_ASYNC" \in cached \/ attrs["GRPC_ASYNC"] = Nothing
  BY DEF Read
<1> QED
  BY <1>3, <1>6, <1>7, <1>8, <1>9 DEF Read

(* So a read leaves everything the invariant says of the settings. *)
LEMMA ReadKeeps ==
    ASSUME StartInv, NEW names \in SUBSET Names, Read(names),
           UNCHANGED command, Handled' => Handled
    PROVE  SettingsOK' /\ (Handled \/ ~Handled') /\ NotForgotten' /\ Assigned'
<1>1. SettingsOK /\ NotForgotten /\ PhaseOK /\ Assigned
  BY DEF StartInv
<1>2. /\ SettingsOK'
      /\ \A n \in Names : attrs[n] # Nothing => attrs'[n] = attrs[n]
      /\ reloads' = reloads
      /\ ~Handled /\ PhaseOK => NotForgotten'
      /\ Handled => early' = early
      /\ "GRPC_ASYNC" \in cached' => "GRPC_ASYNC" \in cached \/ attrs["GRPC_ASYNC"] = Nothing
  BY <1>1, ReadSteps
<1>3. IsAio' = IsAio
  BY DEF IsAio
<1>4. Handled /\ Undisturbed => attrs["GRPC_ASYNC"] # Nothing
  BY <1>1, AioIsBoolean DEF Assigned
<1>5. Handled => NotForgotten'
  BY <1>1, <1>2, <1>4 DEF NotForgotten, Undisturbed
<1>6. Handled /\ reloads.since = 0 /\ IsAio => attrs["GRPC_CHANNEL_PORT"] # Nothing
  BY <1>1, NothingAssumption DEF Assigned
<1>7. Handled' => Assigned'
  BY <1>1, <1>2, <1>3, <1>4, <1>6 DEF Assigned, Undisturbed, Names
<1> QED
  BY <1>1, <1>2, <1>5, <1>7 DEF Assigned

--------------------------------------------------------------------------------
(* Every action. *)

LEMMA ReadSettingInv == \A n \in Names : StartInv /\ ReadSetting(n) => StartInv'
<1> SUFFICES ASSUME NEW n \in Names, StartInv, ReadSetting(n) PROVE StartInv'
  OBVIOUS
<1>1. /\ Read({n}) /\ UNCHANGED server_vars
      /\ Handled' = Handled /\ IsAio' = IsAio
  BY DEF ReadSetting, server_vars, Handled, IsAio
<1>2. SettingsOK' /\ NotForgotten' /\ Assigned'
  BY <1>1, ReadKeeps DEF server_vars
<1>3. reloads' = reloads /\ (Handled => early' = early)
  BY <1>1 DEF Read, Handled
<1>4. InMode'
  BY <1>1, <1>3 DEF StartInv, InMode, Undisturbed, Fresh, server_vars, Made
<1> QED
  BY <1>1, <1>2, <1>4 DEF StartInv, PhaseOK, Fresh, ParsedPort, Whole, server_vars, Made

LEMMA ChangeSettingsInv ==
    \A new \in UserSettings : StartInv /\ ChangeSettings(new) => StartInv'
  BY DEF ChangeSettings, server_vars, StartInv, SettingsOK, PhaseOK, NotForgotten, Assigned, Fresh,
         ParsedPort, Whole, InMode, Undisturbed, Handled, Made, IsAio

LEMMA ReloadInv == StartInv /\ Reload => StartInv'
<1> SUFFICES ASSUME StartInv, Reload PROVE StartInv'
  OBVIOUS
<1>1. /\ UNCHANGED <<user, server_vars>> /\ Handled' = Handled /\ IsAio' = IsAio
      /\ cached' = {} /\ user_settings' = Nothing
  BY DEF Reload, server_vars, Handled, IsAio
<1>2. /\ Handled => reloads'.since # 0 /\ early' = early
      /\ reloads' \in [before : Nat, since : Nat]
  BY DEF Reload, Handled, StartInv, SettingsOK
<1>3. SettingsOK'
  BY <1>1, <1>2 DEF Reload, StartInv, SettingsOK, Names
<1>4. Handled /\ "GRPC_ASYNC" \notin early => attrs'["GRPC_ASYNC"] = attrs["GRPC_ASYNC"]
  BY DEF Reload, StartInv, NotForgotten, Forgotten, Names
<1>5. Assigned'
  BY <1>1, <1>2, <1>4 DEF StartInv, Assigned, Undisturbed, server_vars
<1>6. InMode'
  BY <1>1, <1>2 DEF StartInv, InMode, Undisturbed, Fresh, server_vars, Made
<1> QED
  BY <1>1, <1>3, <1>5, <1>6
     DEF StartInv, PhaseOK, NotForgotten, Fresh, ParsedPort, Whole, server_vars, Made

LEMMA ParseInv ==
    \A name, port : port \in Ports \cup {Nothing} /\ StartInv /\ Parse(name, port) => StartInv'
<1> SUFFICES ASSUME NEW name, NEW port \in Ports \cup {Nothing}, StartInv, Parse(name, port)
             PROVE  StartInv'
  OBVIOUS
<1>1. Read({"GRPC_CHANNEL_PORT"}) /\ ~Handled /\ ~Handled'
  BY DEF Parse, Handled
<1>2. SettingsOK' /\ NotForgotten'
  BY <1>1, ReadSteps DEF StartInv, Names
<1>3. Setting("GRPC_CHANNEL_PORT") \in Ports
  BY DEF StartInv, SettingsOK, Setting, UserSettingsRead, UserSettings
<1>4. ParsedPort'
  BY <1>3 DEF Parse, ParsedPort
<1> QED
  BY <1>1, <1>2, <1>4
     DEF Parse, StartInv, PhaseOK, Assigned, Fresh, Whole, InMode, Made

LEMMA HandleInv == StartInv /\ Handle => StartInv'
<1> SUFFICES ASSUME StartInv, Handle PROVE StartInv'
  OBVIOUS
<1>1. /\ ~Handled /\ Handled' /\ IsAio' = IsAio /\ command.port \in Ports
      /\ \A s \in Services : ~Made(s)
      /\ calls = {}
  BY DEF Handle, Handled, StartInv, ParsedPort, Fresh, IsAio
<1>2. /\ attrs'["GRPC_ASYNC"] = IsAio
      /\ IsAio => attrs'["GRPC_CHANNEL_PORT"] = command.port
      /\ attrs'["GRPC_CHANNEL_PORT"] \in Ports \cup {Nothing}
      /\ attrs' = [n \in Names |-> attrs'[n]]
  BY <1>1 DEF Handle, StartInv, SettingsOK, Names
<1>3. SettingsOK' /\ NotForgotten'
  BY <1>2 DEF Handle, StartInv, SettingsOK, NotForgotten
<1>4. Assigned'
  BY <1>1, <1>2 DEF Handle, Assigned
<1> QED
  BY <1>1, <1>3, <1>4
     DEF Handle, StartInv, PhaseOK, Fresh, ParsedPort, Whole, InMode, Handled, Made

LEMMA AddServicerInv == \A s \in Services : StartInv /\ AddServicer(s) => StartInv'
<1> SUFFICES ASSUME NEW s \in Services, StartInv, AddServicer(s) PROVE StartInv'
  OBVIOUS
<1>1. /\ Read({"GRPC_ASYNC", "GRPC_MIDDLEWARE"})
      /\ UNCHANGED <<command, hook, calls>> /\ IsAio' = IsAio
      /\ Handled /\ Handled' /\ phase' \in {"hook", "exited"}
      /\ phase = "hook" /\ (IsAio \/ hook = "function")
  BY DEF AddServicer, Handled, IsAio
<1>2. SettingsOK' /\ NotForgotten' /\ Assigned'
  BY <1>1, ReadKeeps DEF Names
<1>3. UNCHANGED <<reloads, early>>
  BY <1>1 DEF Read
<1>4. Undisturbed => Setting("GRPC_ASYNC") = IsAio
  BY <1>1, AioIsBoolean DEF StartInv, Assigned, Setting
<1>5. /\ \A r \in Services \ {s} : servicers'[r] = servicers[r]
      /\ servicers' = [r \in Services |-> servicers'[r]]
      /\ \/ servicers'[s] = servicers[s]
         \/ servicers'[s].loaded_for = Setting("GRPC_ASYNC")
            /\ servicers'[s].handler = Setting("GRPC_ASYNC")
  BY DEF AddServicer, StartInv, Whole
<1>6. InMode'
  BY <1>1, <1>3, <1>4, <1>5 DEF StartInv, InMode, Undisturbed, Made
<1>7. Whole'
  BY <1>1, <1>5 DEF Whole
<1> QED
  BY <1>1, <1>2, <1>6, <1>7 DEF StartInv, PhaseOK, Fresh, ParsedPort

LEMMA CallInv == \A s \in Services : StartInv /\ Call(s) => StartInv'
<1> SUFFICES ASSUME NEW s \in Services, StartInv, Call(s) PROVE StartInv'
  OBVIOUS
<1>1. /\ Read({"GRPC_ASYNC", "GRPC_CHANNEL_PORT"})
      /\ UNCHANGED <<command, hook, phase, servicers>> /\ IsAio' = IsAio
      /\ Handled /\ Handled'
  BY DEF Call, Handled, IsAio
<1>2. SettingsOK' /\ NotForgotten' /\ Assigned'
  BY <1>1, ReadKeeps DEF Names
<1>3. UNCHANGED <<reloads, early>>
  BY <1>1 DEF Read, Handled
<1>4. Undisturbed => Setting("GRPC_ASYNC") = IsAio
  BY <1>1, AioIsBoolean DEF StartInv, Assigned, Setting
<1>5. reloads.since = 0 /\ IsAio => Setting("GRPC_CHANNEL_PORT") = command.port
  BY <1>1, NothingAssumption DEF StartInv, Assigned, Setting
<1>6. InMode'
  BY <1>1, <1>3, <1>4, <1>5 DEF StartInv, InMode, Undisturbed, Made, Call
<1> QED
  BY <1>1, <1>2, <1>6 DEF StartInv, PhaseOK, Fresh, ParsedPort, Whole, Made

LEMMA BindInv == StartInv /\ Bind => StartInv'
<1> SUFFICES ASSUME StartInv, Bind PROVE StartInv'
  OBVIOUS
<1>1. /\ UNCHANGED <<settings_vars, command, hook, servicers, calls>> /\ IsAio' = IsAio
      /\ Handled /\ Handled'
  BY DEF Bind, Handled, IsAio
<1>2. Whole'
  BY <1>1 DEF Bind, StartInv, Whole, Made
<1>3. SettingsOK' /\ NotForgotten' /\ Assigned' /\ InMode'
  BY <1>1 DEF StartInv, settings_vars, SettingsOK, NotForgotten, Assigned, InMode, Undisturbed, Made
<1> QED
  BY <1>1, <1>2, <1>3 DEF Bind, StartInv, PhaseOK, Fresh, ParsedPort

LEMMA StartStepInv == StartInv /\ Start => StartInv'
  BY DEF Start, settings_vars, StartInv, SettingsOK, PhaseOK, NotForgotten, Assigned, Fresh,
         ParsedPort, Whole, InMode, Undisturbed, Handled, Made, IsAio

LEMMA ExitInv == StartInv /\ Exit => StartInv'
  BY DEF Exit, settings_vars, StartInv, SettingsOK, PhaseOK, NotForgotten, Assigned, Fresh,
         ParsedPort, Whole, InMode, Undisturbed, Handled, Made, IsAio

LEMMA RestartInv == StartInv /\ Restart => StartInv'
  BY BoundAssumption
     DEF Restart, StartInv, SettingsOK, PhaseOK, NotForgotten, Assigned, Fresh, ParsedPort, Whole,
         InMode, Handled, Made, Names

LEMMA StutterInv == StartInv /\ UNCHANGED vars => StartInv'
  BY DEF vars, StartInv, SettingsOK, PhaseOK, NotForgotten, Assigned, Fresh, ParsedPort, Whole,
         InMode, Undisturbed, Handled, Made, IsAio

LEMMA NextInv == StartInv /\ [Next]_vars => StartInv'
<1> SUFFICES ASSUME StartInv, [Next]_vars PROVE StartInv'
  OBVIOUS
<1>1. CASE Next
  BY <1>1, ReadSettingInv, ChangeSettingsInv, ReloadInv, ParseInv, HandleInv, AddServicerInv,
     CallInv, BindInv, StartStepInv, ExitInv, RestartInv DEF Next
<1>2. CASE UNCHANGED vars
  BY <1>2, StutterInv
<1> QED
  BY <1>1, <1>2

(* The mode and port of a command are those of its whole server: grpcrunserver *)
(* and grpcrunaioserver, for any services, middlewares and order of reads and  *)
(* reloads.                                                                    *)
THEOREM OneMode == Spec => []StartedAsAsked
<1>1. StartInv => StartedAsAsked
  BY DEF StartInv, StartedAsAsked, Whole, InMode, Undisturbed
<1> QED
  BY <1>1, InitInv, NextInv, PTL DEF Spec

--------------------------------------------------------------------------------
(* load_middleware. A chain that holds what is used of the middlewares from    *)
(* position first on, loaded around a handler of the mode given.               *)

Links == [middleware : Middlewares, is_async : BOOLEAN, wraps : BOOLEAN]

Inner(links, i, mode) == IF i = Len(links) THEN mode ELSE links[i + 1].is_async

LinkFits(link, inner) ==
    /\ link.wraps = link.is_async
    /\ IF link.is_async THEN link.middleware.can_async ELSE link.middleware.can_sync
    /\ link.is_async # inner => ~(link.middleware.can_sync /\ link.middleware.can_async)

InOrder(at, links, list, first) ==
    /\ at \in [DOMAIN links -> DOMAIN list]
    /\ Range(at) = {j \in Used(list) : j >= first}
    /\ \A i, j \in DOMAIN links : i < j => at[i] < at[j]
    /\ \A i \in DOMAIN links : links[i].middleware = list[at[i]]

LinksFit(links, list, first, mode) ==
    /\ \E at : InOrder(at, links, list, first)
    /\ \A i \in DOMAIN links : LinkFits(links[i], Inner(links, i, mode))

(* The variables of the loop. *)
Loaded(links, is_async, failed) ==
    [handler |-> [is_async |-> is_async, links |-> links],
     handler_is_async |-> is_async, failed |-> failed]

LoadedFits(loaded, list, first, mode) ==
    \E links \in Seq(Links), is_async, failed \in BOOLEAN :
        /\ loaded = Loaded(links, is_async, failed)
        /\ ~failed => is_async = Inner(links, 0, mode) /\ LinksFit(links, list, first, mode)

(* A link is put in front of the chain. *)
LEMMA Prepended ==
    ASSUME NEW links \in Seq(Links), NEW link \in Links
    PROVE  LET longer == <<link>> \o links
           IN  /\ longer \in Seq(Links) /\ Len(longer) = Len(links) + 1
               /\ DOMAIN longer = 1 .. Len(links) + 1
               /\ longer[1] = link
               /\ \A i \in 1 .. Len(links) : longer[i + 1] = links[i]
  OBVIOUS

(* A middleware of the list that is used comes in front of those after it.     *)
LEMMA PrependedInOrder ==
    ASSUME NEW list \in Seq(Middlewares), NEW first \in 1 .. Len(list),
           NEW links \in Seq(Links), NEW link \in Links, NEW at,
           InOrder(at, links, list, first + 1), first \in Used(list),
           link.middleware = list[first]
    PROVE  \E to : InOrder(to, <<link>> \o links, list, first)
<1> DEFINE n == Len(links)
           longer == <<link>> \o links
           to == [i \in 1 .. n + 1 |-> IF i = 1 THEN first ELSE at[i - 1]]
<1>1. /\ n \in Nat /\ DOMAIN links = 1 .. n /\ DOMAIN list = 1 .. Len(list)
      /\ Len(list) \in Nat /\ first \in Nat
  OBVIOUS
<1>2. /\ DOMAIN longer = 1 .. n + 1 /\ longer[1] = link
      /\ \A i \in 1 .. n : longer[i + 1] = links[i]
  BY Prepended
<1>3. to[1] = first /\ \A i \in 1 .. n : to[i + 1] = at[i] /\ at[i] \in DOMAIN list
  BY <1>1 DEF InOrder
<1>4. \A i \in 1 .. n + 1 : i = 1 \/ (i - 1 \in 1 .. n /\ (i - 1) + 1 = i)
  BY <1>1
<1>5. to = [i \in 1 .. n + 1 |-> to[i]]
  OBVIOUS
<1> HIDE DEF to, longer, n
<1>6. \A i \in 1 .. n + 1 : to[i] \in DOMAIN list
  BY <1>1, <1>3, <1>4
<1>7. \A i \in 1 .. n : at[i] \in Used(list) /\ at[i] >= first + 1
  BY <1>1 DEF InOrder, Range
<1>8. Range(to) = {j \in Used(list) : j >= first}
  <2>1. ASSUME NEW i \in 1 .. n + 1 PROVE to[i] \in Used(list) /\ to[i] >= first
    <3>1. CASE i = 1
      BY <1>1, <1>3, <3>1
    <3>2. CASE i # 1
      <4>1. PICK l \in 1 .. n : i = l + 1
        BY <1>4, <3>2
      <4>2. to[i] = at[l]
        BY <1>3, <4>1
      <4>3. at[l] \in Used(list) /\ at[l] >= first + 1 /\ at[l] \in Nat
        BY <1>1, <1>7 DEF Used
      <4> QED
        BY <1>1, <4>2, <4>3
    <3> QED
      BY <3>1, <3>2
  <2>2. ASSUME NEW j \in Used(list), j >= first PROVE \E i \in 1 .. n + 1 : to[i] = j
    <3>1. CASE j = first
      BY <1>1, <1>3, <3>1
    <3>2. CASE j # first
      <4>1. j \in Nat /\ j >= first + 1
        BY <1>1, <2>2, <3>2 DEF Used
      <4>2. PICK l \in 1 .. n : at[l] = j
        BY <1>1, <4>1 DEF InOrder, Range
      <4>3. l + 1 \in 1 .. n + 1 /\ to[l + 1] = j
        BY <1>1, <1>3, <4>2
      <4> QED
        BY <4>3
    <3> QED
      BY <3>1, <3>2
  <2>3. Range(to) = {to[i] : i \in 1 .. n + 1}
    BY <1>5 DEF Range
  <2> QED
    BY <2>1, <2>2, <2>3
<1>9. ASSUME NEW i \in 1 .. n + 1, NEW j \in 1 .. n + 1, i < j PROVE to[i] < to[j]
  <2>1. PICK m \in 1 .. n : j = m + 1
    BY <1>1, <1>4, <1>9
  <2>2. CASE i = 1
    <3>1. to[i] = first /\ to[j] = at[m]
      BY <1>3, <2>1, <2>2
    <3>2. at[m] \in Nat /\ at[m] >= first + 1
      BY <1>1, <1>7 DEF Used
    <3> QED
      BY <1>1, <3>1, <3>2
  <2>3. CASE i # 1
    <3>1. PICK l \in 1 .. n : i = l + 1
      BY <1>4, <2>3
    <3>2. l < m
      BY <1>1, <1>9, <2>1, <3>1
    <3>3. to[i] = at[l] /\ to[j] = at[m]
      BY <1>3, <2>1, <3>1
    <3>4. at[l] < at[m]
      BY <1>1, <3>2 DEF InOrder
    <3> QED
      BY <3>3, <3>4
  <2> QED
    BY <2>2, <2>3
<1>10. ASSUME NEW i \in 1 .. n + 1 PROVE longer[i].middleware = list[to[i]]
  <2>1. CASE i = 1
    BY <1>2, <1>3, <2>1
  <2>2. CASE i # 1
    <3>1. PICK l \in 1 .. n : i = l + 1
      BY <1>4, <2>2
    <3>2. longer[i] = links[l] /\ to[i] = at[l]
      BY <1>2, <1>3, <3>1
    <3>3. links[l].middleware = list[at[l]]
      BY <1>1 DEF InOrder
    <3> QED
      BY <3>2, <3>3
  <2> QED
    BY <2>1, <2>2
<1>11. to \in [1 .. n + 1 -> DOMAIN list]
  BY <1>5, <1>6
<1>12. InOrder(to, longer, list, first)
  BY <1>2, <1>8, <1>9, <1>10, <1>11 DEF InOrder
<1> QED
  BY <1>12 DEF longer

LEMMA PrependedFits ==
    ASSUME NEW list \in Seq(Middlewares), NEW first \in 1 .. Len(list), NEW mode,
           NEW links \in Seq(Links), NEW link \in Links,
           LinksFit(links, list, first + 1, mode), first \in Used(list),
           link.middleware = list[first], LinkFits(link, Inner(links, 0, mode))
    PROVE  LinksFit(<<link>> \o links, list, first, mode)
<1> DEFINE n == Len(links)
           longer == <<link>> \o links
<1>1. n \in Nat /\ DOMAIN links = 1 .. n
  OBVIOUS
<1>2. /\ DOMAIN longer = 1 .. n + 1 /\ longer[1] = link /\ Len(longer) = n + 1
      /\ \A i \in 1 .. n : longer[i + 1] = links[i]
  BY Prepended
<1>3. \E to : InOrder(to, longer, list, first)
  BY PrependedInOrder DEF LinksFit
<1> HIDE DEF longer, n
<1>4. \A i \in 0 .. n : Inner(longer, i + 1, mode) = Inner(links, i, mode)
  <2> SUFFICES ASSUME NEW i \in 0 .. n
               PROVE  Inner(longer, i + 1, mode) = Inner(links, i, mode)
    OBVIOUS
  <2>1. CASE i = n
    BY <1>1, <1>2, <2>1 DEF Inner, n
  <2>2. CASE i # n
    <3>1. i + 1 \in 1 .. n /\ longer[(i + 1) + 1] = links[i + 1] /\ i + 1 # n + 1
      BY <1>1, <1>2, <2>2
    <3> QED
      BY <1>1, <1>2, <2>2, <3>1 DEF Inner, n
  <2> QED
    BY <2>1, <2>2
<1>5. ASSUME NEW i \in 1 .. n + 1 PROVE LinkFits(longer[i], Inner(longer, i, mode))
  <2>1. CASE i = 1
    <3>1. Inner(longer, 0 + 1, mode) = Inner(links, 0, mode)
      BY <1>1, <1>4
    <3> QED
      BY <1>2, <2>1, <3>1
  <2>2. CASE i # 1
    <3>1. PICK l \in 1 .. n : i = l + 1
      BY <1>1, <2>2
    <3>2. longer[i] = links[l] /\ Inner(longer, i, mode) = Inner(links, l, mode)
      BY <1>1, <1>2, <1>4, <3>1
    <3>3. LinkFits(links[l], Inner(links, l, mode))
      BY <1>1 DEF LinksFit
    <3> QED
      BY <3>2, <3>3
  <2> QED
    BY <2>1, <2>2
<1>6. LinksFit(longer, list, first, mode)
  BY <1>2, <1>3, <1>5 DEF LinksFit
<1> QED
  BY <1>6 DEF longer

(* A middleware that is not used changes nothing. *)
LEMMA SkippedFits ==
    ASSUME NEW list \in Seq(Middlewares), NEW first \in 1 .. Len(list), NEW mode,
           NEW links, LinksFit(links, list, first + 1, mode), first \notin Used(list)
    PROVE  LinksFit(links, list, first, mode)
<1>1. {j \in Used(list) : j >= first + 1} = {j \in Used(list) : j >= first}
  BY DEF Used
<1> QED
  BY <1>1, Zenon DEF LinksFit, InOrder

(* The modes of a middleware and of what it wraps. *)
LEMMA ModeFits ==
    ASSUME NEW middleware \in Middlewares, ~Refused(middleware),
           NEW handler_is_async \in BOOLEAN, NEW links,
           NEW mode, NEW wraps, mode = MiddlewareIsAsync(middleware, handler_is_async),
           wraps = mode
    PROVE  /\ [middleware |-> middleware, is_async |-> mode, wraps |-> wraps] \in Links
           /\ LinkFits([middleware |-> middleware, is_async |-> mode, wraps |-> wraps],
                       handler_is_async)
<1>1. middleware.can_sync \in BOOLEAN /\ middleware.can_async \in BOOLEAN
  BY MiddlewaresAssumption
<1>2. mode \in BOOLEAN
  BY <1>1 DEF MiddlewareIsAsync
<1>3. mode => middleware.can_async
  BY <1>1 DEF MiddlewareIsAsync
<1>4. ~mode => middleware.can_sync
  BY <1>1 DEF MiddlewareIsAsync, Refused
<1>5. mode # handler_is_async => ~(middleware.can_sync /\ middleware.can_async)
  BY <1>1, <1>2 DEF MiddlewareIsAsync
<1> QED
  BY <1>2, <1>3, <1>4, <1>5 DEF Links, LinkFits

LEMMA AdaptedHandler ==
    ASSUME NEW links, NEW is_async \in BOOLEAN, NEW mode \in BOOLEAN
    PROVE  Adapted(mode, [is_async |-> is_async, links |-> links], is_async)
           = [is_async |-> mode, links |-> links]
  BY DEF Adapted

(* One turn of the loop. *)
LEMMA LoadTurn ==
    ASSUME NEW list \in Seq(Middlewares), NEW first \in 1 .. Len(list), NEW mode,
           NEW loaded, LoadedFits(loaded, list, first + 1, mode)
    PROVE  LoadedFits(Load(loaded, list[first]), list, first, mode)
<1> DEFINE middleware == list[first]
<1>1. PICK links \in Seq(Links), is_async \in BOOLEAN, failed \in BOOLEAN :
         /\ loaded = Loaded(links, is_async, failed)
         /\ ~failed => is_async = Inner(links, 0, mode)
                       /\ LinksFit(links, list, first + 1, mode)
  BY Zenon DEF LoadedFits
<1>2. middleware \in Middlewares /\ middleware.makes \in {"instance", "unused", "None"}
  BY MiddlewaresAssumption
<1>3. first \in Used(list) <=> middleware.makes = "instance"
  BY DEF Used
<1>4. /\ loaded.failed = failed /\ loaded.handler_is_async = is_async
      /\ loaded.handler = [is_async |-> is_async, links |-> links]
  BY <1>1 DEF Loaded
<1> DEFINE to == MiddlewareIsAsync(middleware, is_async)
           adapted == Adapted(to, [is_async |-> is_async, links |-> links], is_async)
           link == [middleware |-> middleware, is_async |-> to, wraps |-> adapted.is_async]
<1> HIDE DEF middleware
<1>5. CASE failed
  <2>1. Load(loaded, middleware) = loaded
    BY <1>4, <1>5 DEF Load
  <2>2. loaded = Loaded(links, is_async, TRUE)
    BY <1>1, <1>5
  <2>3. LoadedFits(loaded, list, first, mode)
    BY <1>1, <2>2, Zenon DEF LoadedFits
  <2> QED
    BY <2>1, <2>3 DEF middleware
<1>6. CASE ~failed /\ (Refused(middleware) \/ middleware.makes = "None")
  <2>1. Load(loaded, middleware) = Loaded(links, is_async, TRUE)
    BY <1>1, <1>4, <1>6 DEF Load, Loaded
  <2>2. LoadedFits(Loaded(links, is_async, TRUE), list, first, mode)
    BY <1>1, Zenon DEF LoadedFits
  <2> QED
    BY <2>1, <2>2 DEF middleware
<1>7. CASE ~failed /\ ~Refused(middleware) /\ middleware.makes = "unused"
  <2>1. Load(loaded, middleware) = Loaded(links, is_async, failed)
    BY <1>1, <1>4, <1>7 DEF Load, Loaded, AroundUnused
  <2>2. LinksFit(links, list, first, mode)
    BY <1>1, <1>3, <1>7, SkippedFits
  <2>3. LoadedFits(Loaded(links, is_async, failed), list, first, mode)
    BY <1>1, <2>2, Zenon DEF LoadedFits
  <2> QED
    BY <2>1, <2>3 DEF middleware
<1>8. CASE ~failed /\ ~Refused(middleware) /\ middleware.makes = "instance"
  <2>1. to \in BOOLEAN
    BY <1>2, MiddlewaresAssumption DEF MiddlewareIsAsync
  <2>2. adapted = [is_async |-> to, links |-> links]
    BY <2>1, AdaptedHandler
  <2>3. adapted.is_async = to /\ adapted.links = links
    BY <2>2
  <2>4. Load(loaded, middleware) = Loaded(<<link>> \o links, to, FALSE)
    BY <1>1, <1>4, <1>8, <2>3 DEF Load, Loaded
  <2>5. link \in Links /\ LinkFits(link, is_async)
    BY <1>2, <1>8, <2>3, ModeFits
  <2>6. link.middleware = middleware /\ link.is_async = to
    OBVIOUS
  <2> HIDE DEF link, adapted, to
  <2>7. LinksFit(<<link>> \o links, list, first, mode)
    BY <1>1, <1>3, <1>8, <2>5, <2>6, PrependedFits DEF middleware
  <2>8. <<link>> \o links \in Seq(Links) /\ to = Inner(<<link>> \o links, 0, mode)
    <3>1. /\ <<link>> \o links \in Seq(Links) /\ Len(<<link>> \o links) = Len(links) + 1
          /\ (<<link>> \o links)[1] = link
      BY <2>5, Prepended
    <3> QED
      BY <2>6, <3>1 DEF Inner
  <2>9. LoadedFits(Loaded(<<link>> \o links, to, FALSE), list, first, mode)
    BY <2>1, <2>7, <2>8, Zenon DEF LoadedFits
  <2> QED
    BY <2>4, <2>9 DEF middleware
<1> QED
  BY <1>2, <1>5, <1>6, <1>7, <1>8

Bare(mode) == Loaded(<<>>, mode, FALSE)

LEMMA BareFits ==
    ASSUME NEW list \in Seq(Middlewares), NEW mode \in BOOLEAN
    PROVE  LoadedFits(Bare(mode), list, Len(list) + 1, mode)
<1>1. <<>> \in Seq(Links) /\ Len(<<>>) = 0 /\ DOMAIN <<>> = {}
  OBVIOUS
<1>2. {j \in Used(list) : j >= Len(list) + 1} = {}
  BY DEF Used
<1> DEFINE at == [i \in {} |-> 0]
<1>3. /\ at \in [{} -> DOMAIN list]
      /\ Range(at) = {}
  BY DEF Range
<1> HIDE DEF at
<1>4. InOrder(at, <<>>, list, Len(list) + 1)
  BY <1>1, <1>2, <1>3 DEF InOrder
<1>5. LinksFit(<<>>, list, Len(list) + 1, mode)
  BY <1>1, <1>4, Zenon DEF LinksFit
<1>6. mode = Inner(<<>>, 0, mode)
  BY <1>1 DEF Inner
<1> QED
  BY <1>1, <1>5, <1>6, Zenon DEF LoadedFits, Bare

(* The turns of the loop, of a list of n middlewares. *)
LoadTurns(turn, mode, list, m) ==
    turn = [i \in 0 .. m |->
               IF i = 0 THEN Bare(mode) ELSE Load(turn[i - 1], list[Len(list) - i + 1])]

LEMMA LoadTurnsExist ==
    ASSUME NEW mode, NEW list, NEW N \in Nat
    PROVE  \E turn : LoadTurns(turn, mode, list, N)
<1> DEFINE T == {m \in 0 .. N : \E turn : LoadTurns(turn, mode, list, m)}
           Step(x, i) == Load(x, list[Len(list) - i + 1])
<1>1. 0 \in T
  <2>1. LoadTurns([i \in 0 .. 0 |-> Bare(mode)], mode, list, 0)
    BY DEF LoadTurns
  <2> QED
    BY <2>1
<1>2. ASSUME NEW m \in 1 .. N, m - 1 \in T PROVE m \in T
  <2>1. PICK f : LoadTurns(f, mode, list, m - 1)
    BY <1>2
  <2> DEFINE g == [i \in 0 .. m |-> IF i = m THEN Step(f[m - 1], m) ELSE f[i]]
  <2> HIDE DEF Step
  <2>2. ASSUME NEW i \in 0 .. m
        PROVE  g[i] = IF i = 0 THEN Bare(mode) ELSE Step(g[i - 1], i)
    <3>1. CASE i = m
      <4>1. g[i - 1] = f[m - 1] /\ g[i] = Step(f[m - 1], m) /\ i # 0
        BY <3>1
      <4> QED
        BY <3>1, <4>1
    <3>2. CASE i # m
      <4>1. i \in 0 .. m - 1 /\ g[i] = f[i]
        BY <3>2
      <4>2. i # 0 => g[i - 1] = f[i - 1]
        BY <3>2
      <4>3. f[i] = IF i = 0 THEN Bare(mode) ELSE Step(f[i - 1], i)
        BY <2>1, <4>1 DEF LoadTurns, Step
      <4> HIDE DEF g
      <4> QED
        BY <4>1, <4>2, <4>3
    <3> QED
      BY <3>1, <3>2
  <2>3. g = [i \in 0 .. m |-> g[i]]
    OBVIOUS
  <2> HIDE DEF g
  <2>4. LoadTurns(g, mode, list, m)
    BY <2>2, <2>3 DEF LoadTurns, Step
  <2> QED
    BY <2>4
<1> HIDE DEF T
<1>3. N \in T
  BY <1>1, <1>2, InductionUpTo
<1> QED
  BY <1>3 DEF T

(* What the loop ends with, and load_middleware. *)
LEMMA LoopFits ==
    ASSUME NEW list \in Seq(Middlewares), NEW mode \in BOOLEAN, NEW turn,
           LoadTurns(turn, mode, list, Len(list))
    PROVE  LoadedFits(turn[Len(list)], list, 1, mode)
<1> DEFINE n == Len(list)
           T == {i \in 0 .. n : LoadedFits(turn[i], list, n - i + 1, mode)}
<1>1. n \in Nat
  OBVIOUS
<1>2. turn[0] = Bare(mode) /\ \A i \in 1 .. n : turn[i] = Load(turn[i - 1], list[n - i + 1])
  BY <1>1 DEF LoadTurns
<1>3. 0 \in T
  <2>1. n - 0 + 1 = n + 1
    BY <1>1
  <2> QED
    BY <1>1, <1>2, <2>1, BareFits
<1>4. ASSUME NEW i \in 1 .. n, i - 1 \in T PROVE i \in T
  <2>1. n - i + 1 \in 1 .. n /\ (n - i + 1) + 1 = n - (i - 1) + 1
    BY <1>1
  <2>2. LoadedFits(turn[i - 1], list, (n - i + 1) + 1, mode)
    BY <1>4, <2>1
  <2>3. LoadedFits(Load(turn[i - 1], list[n - i + 1]), list, n - i + 1, mode)
    BY <2>1, <2>2, LoadTurn
  <2> QED
    BY <1>2, <2>3
<1> HIDE DEF T, n
<1>5. n \in T
  BY <1>1, <1>3, <1>4, InductionUpTo
<1>6. n - n + 1 = 1
  BY <1>1
<1> QED
  BY <1>5, <1>6 DEF T, n

(* A servicer that is made of a chain which loaded without failing.             *)
LEMMA LoadFits ==
    ASSUME NEW list \in Seq(Middlewares), NEW mode \in BOOLEAN,
           ~load_middleware(mode, list).failed
    PROVE  ChainFits([chain |-> load_middleware(mode, list).handler,
                      loaded_for |-> mode, handler |-> mode, list |-> list])
<1> DEFINE h == CHOOSE turn : LoadTurns(turn, mode, list, Len(list))
           loaded == h[Len(list)]
<1>1. \E turn : LoadTurns(turn, mode, list, Len(list))
  <2>1. Len(list) \in Nat
    OBVIOUS
  <2> QED
    BY <2>1, LoadTurnsExist
<1>2. LoadTurns(h, mode, list, Len(list))
  BY <1>1, Zenon
<1>3. load_middleware(mode, list)
      = [loaded EXCEPT !.handler = Adapted(mode, @, loaded.handler_is_async)]
  BY Zenon DEF load_middleware, LoadTurns, Bare, Loaded
<1>4. LoadedFits(loaded, list, 1, mode)
  BY <1>2, LoopFits
<1> HIDE DEF h, loaded
<1>5. PICK links \in Seq(Links), is_async \in BOOLEAN, failed \in BOOLEAN :
         /\ loaded = Loaded(links, is_async, failed)
         /\ ~failed => is_async = Inner(links, 0, mode) /\ LinksFit(links, list, 1, mode)
  BY <1>4, Zenon DEF LoadedFits
<1>6. /\ load_middleware(mode, list).failed = failed
      /\ load_middleware(mode, list).handler
         = Adapted(mode, [is_async |-> is_async, links |-> links], is_async)
  BY <1>3, <1>5 DEF Loaded
<1>7. load_middleware(mode, list).handler = [is_async |-> mode, links |-> links]
  BY <1>6, AdaptedHandler
<1>8. LinksFit(links, list, 1, mode)
  BY <1>5, <1>6
<1> DEFINE servicer == [chain |-> [is_async |-> mode, links |-> links],
                        loaded_for |-> mode, handler |-> mode, list |-> list]
<1>9. /\ servicer.chain.links = links /\ servicer.chain.is_async = mode
      /\ servicer.loaded_for = mode /\ servicer.list = list
  OBVIOUS
<1> HIDE DEF servicer
<1>10. {j \in Used(list) : j >= 1} = Used(list)
  BY DEF Used
<1>11. ChainFits(servicer)
  BY <1>8, <1>9, <1>10 DEF ChainFits, LinksFit, InOrder, LinkFits, Inner
<1> QED
  BY <1>7, <1>11 DEF servicer

--------------------------------------------------------------------------------
(* The chains of every servicer. *)

(* What a servicer is loaded with: a mode and a list, whatever was assigned.   *)
LoadableOK ==
    /\ attrs["GRPC_ASYNC"] \in BOOLEAN \cup {Nothing}
    /\ attrs["GRPC_MIDDLEWARE"] \in MiddlewareLists \cup {Nothing}

LEMMA SettingsRead ==
    ASSUME SettingsOK, LoadableOK
    PROVE  /\ UserSettingsRead["GRPC_ASYNC"] \in BOOLEAN
           /\ UserSettingsRead["GRPC_MIDDLEWARE"] \in MiddlewareLists
           /\ Setting("GRPC_ASYNC") \in BOOLEAN
           /\ Setting("GRPC_MIDDLEWARE") \in MiddlewareLists
<1>1. UserSettingsRead \in UserSettings
  BY DEF SettingsOK, UserSettingsRead
<1>2. /\ UserSettingsRead["GRPC_ASYNC"] \in BOOLEAN
      /\ UserSettingsRead["GRPC_MIDDLEWARE"] \in MiddlewareLists
  BY <1>1 DEF UserSettings
<1> QED
  BY <1>2 DEF Setting, LoadableOK

LEMMA ReadLoadable ==
    ASSUME SettingsOK, LoadableOK, NEW names \in SUBSET Names, Read(names)
    PROVE  LoadableOK'
  BY SettingsRead DEF Read, LoadableOK, Names

ChainInv == LoadableOK /\ MiddlewaresFit

LEMMA ChainStep ==
    ASSUME StartInv, ChainInv, Next
    PROVE  ChainInv'
<1> USE DEF ChainInv
<1>1. SettingsOK /\ Whole
  BY DEF StartInv
<1>2. ASSUME UNCHANGED servicers PROVE MiddlewaresFit'
  BY <1>2 DEF MiddlewaresFit, Made
<1>3. ASSUME NEW n \in Names, ReadSetting(n) PROVE ChainInv'
  BY <1>1, <1>2, <1>3, ReadLoadable DEF ReadSetting, server_vars
<1>4. ASSUME NEW new \in UserSettings, ChangeSettings(new) PROVE ChainInv'
  BY <1>2, <1>4 DEF ChangeSettings, server_vars, LoadableOK
<1>5. ASSUME Reload PROVE ChainInv'
  BY <1>2, <1>5 DEF Reload, server_vars, LoadableOK, Names
<1>6. ASSUME NEW name, NEW port, Parse(name, port) PROVE ChainInv'
  <2>1. LoadableOK'
    BY <1>1, <1>6, ReadLoadable DEF Parse, Names
  <2> QED
    BY <1>2, <1>6, <2>1 DEF Parse
<1>7. ASSUME Handle PROVE ChainInv'
  <2>1. UNCHANGED servicers /\ IsAio \in BOOLEAN
    BY <1>7, AioIsBoolean DEF Handle
  <2>2. /\ attrs'["GRPC_ASYNC"] = IsAio
        /\ attrs'["GRPC_MIDDLEWARE"] = attrs["GRPC_MIDDLEWARE"]
    BY <1>1, <1>7 DEF Handle, SettingsOK, Names
  <2> QED
    BY <1>2, <2>1, <2>2 DEF LoadableOK
<1>8. ASSUME NEW s \in Services, AddServicer(s) PROVE ChainInv'
  <2> DEFINE mode == Setting("GRPC_ASYNC")
             list == Setting("GRPC_MIDDLEWARE")
             servicer == [chain |-> load_middleware(mode, list).handler,
                          loaded_for |-> mode, handler |-> mode, list |-> list]
  <2>1. Read({"GRPC_ASYNC", "GRPC_MIDDLEWARE"})
    BY <1>8 DEF AddServicer
  <2>2. LoadableOK'
    BY <1>1, <2>1, ReadLoadable DEF Names
  <2>3. mode \in BOOLEAN /\ list \in Seq(Middlewares)
    BY <1>1, SettingsRead, MiddlewaresAssumption
  <2>4. CASE load_middleware(mode, list).failed
    BY <1>2, <1>8, <2>2, <2>4, Zenon DEF AddServicer
  <2>5. CASE ~load_middleware(mode, list).failed
    <3>1. servicers' = [servicers EXCEPT ![s] = servicer]
      BY <1>8, <2>5, Zenon DEF AddServicer
    <3>2. ChainFits(servicer)
      BY <2>3, <2>5, LoadFits
    <3> HIDE DEF servicer
    <3>3. \A r \in Services : servicers'[r] = IF r = s THEN servicer ELSE servicers[r]
      BY <1>1, <3>1 DEF Whole
    <3>4. ASSUME NEW r \in Services, servicers'[r] # Nothing PROVE ChainFits(servicers'[r])
      BY <3>2, <3>3, <3>4 DEF MiddlewaresFit, Made
    <3>5. MiddlewaresFit'
      BY <3>4 DEF MiddlewaresFit, Made
    <3> QED
      BY <2>2, <3>5
  <2> QED
    BY <2>4, <2>5
<1>9. ASSUME NEW s \in Services, Call(s) PROVE ChainInv'
  <2>1. LoadableOK'
    BY <1>1, <1>9, ReadLoadable DEF Call, Names
  <2> QED
    BY <1>2, <1>9, <2>1 DEF Call
<1>10. ASSUME Bind \/ Start \/ Exit PROVE ChainInv'
  BY <1>2, <1>10 DEF Bind, Start, Exit, settings_vars, LoadableOK
<1>11. ASSUME Restart PROVE ChainInv'
  BY <1>11 DEF Restart, LoadableOK, MiddlewaresFit, Made, Names
<1> QED
  BY <1>3, <1>4, <1>5, <1>6, <1>7, <1>8, <1>9, <1>10, <1>11 DEF Next

(* load_middleware puts the middlewares of the settings that are used around   *)
(* the handler in their order, each in a mode it can run in and none changing  *)
(* the mode for nothing, for any middlewares and lists of them.                 *)
THEOREM ChainsFit == Spec => []MiddlewaresFit
<1>1. Init => ChainInv
  BY DEF Init, ChainInv, LoadableOK, MiddlewaresFit, Made, Names
<1>2. StartInv /\ ChainInv /\ [Next]_vars => ChainInv'
  <2>1. ASSUME ChainInv, UNCHANGED vars PROVE ChainInv'
    BY <2>1 DEF vars, ChainInv, LoadableOK, MiddlewaresFit, Made
  <2> QED
    BY <2>1, ChainStep
<1>3. ChainInv => MiddlewaresFit
  BY DEF ChainInv
<1> QED
  BY <1>1, <1>2, <1>3, InitInv, NextInv, PTL DEF Spec
================================================================================
