------------------------- MODULE ProtoGenerationProofs -------------------------
(* Theorems about ActionRegistry and ProtoGeneration, for any classes,         *)
(* declarations, serializers, handlers and order of registrations and          *)
(* commands. First the registration: for whom the placeholders of an RPC were  *)
(* resolved and which declaration it follows. Then the command: it registers   *)
(* nothing, what a successful check has compared, that the files refer to      *)
(* nothing that is not there, and that requests and responses stay apart.      *)
EXTENDS ProtoGeneration, FiniteSetTheorems, InductionLemmas

--------------------------------------------------------------------------------
(* Registration: resolved placeholders. *)
Shaped(x) == x = [name |-> x.name, params |-> x.params]
ParamsShaped(p) == p = [class |-> p.class, attr |-> p.attr, resolved |-> p.resolved]

(* The services a class may have got a resolved action from: itself and those  *)
(* it inherits from, once their registration began.                            *)
Family(c) == Range(Mro[c]) \cap Range(begun)

(* What a class holds under a name is nothing, a function, or an action        *)
(* resolved in the family of the class, if at all.                             *)
HeldBy(c, x) ==
    x # Absent =>
        /\ Shaped(x)
        /\ x.params # Absent =>
              ParamsShaped(x.params) /\ x.params.resolved \in Family(c) \cup {Nobody}

AttributesInv ==
    /\ attribute = [c \in Classes |-> [n \in Names |-> attribute[c][n]]]
    /\ \A c \in Classes, n \in Names : HeldBy(c, attribute[c][n])

Resolved(s, rpcs) ==
    /\ \E S : rpcs \in Seq(S)
    /\ \A i \in DOMAIN rpcs : rpcs[i].params.resolved \in Family(s)

CurrentInv ==
    current # NoRegistration =>
        /\ current = [handler |-> current.handler, service |-> current.service,
                      todo |-> current.todo, rpcs |-> current.rpcs]
        /\ current.service \in Services \cap Range(begun)
        /\ Resolved(current.service, current.rpcs)

ListingsInv ==
    /\ proto_services = [h \in Handlers |-> proto_services[h]]
    /\ \A h \in Handlers :
          /\ \E S : proto_services[h] \in Seq(S)
          /\ \A i \in DOMAIN proto_services[h] :
                Resolved(proto_services[h][i].service, proto_services[h][i].rpcs)

FamilyInv == begun \in Seq(Services) /\ AttributesInv /\ CurrentInv /\ ListingsInv
LEMMA EmptySeq == \E S : <<>> \in Seq(S)
  OBVIOUS

LEMMA AppendSeq ==
    ASSUME NEW q, \E S : q \in Seq(S), NEW x
    PROVE  /\ \E S : Append(q, x) \in Seq(S)
           /\ DOMAIN Append(q, x) = 1 .. Len(q) + 1
           /\ DOMAIN q = 1 .. Len(q) /\ Len(q) \in Nat
           /\ \A i \in DOMAIN q : Append(q, x)[i] = q[i]
           /\ Append(q, x)[Len(q) + 1] = x
<1>1. PICK S : q \in Seq(S)
  OBVIOUS
<1>2. q \in Seq(S \cup {x})
  BY <1>1
<1> QED
  BY <1>2

(* A service is in the family of itself, and a class inherits families.        *)
LEMMA FamilyGrows ==
    ASSUME NEW c \in Classes, NEW d \in Range(Mro[c])
    PROVE  d \in Classes /\ Family(d) \subseteq Family(c)
<1>1. Mro[c] \in Seq(Classes) /\ Range(Mro[d]) \subseteq Range(Mro[c])
  BY ClassesAssumption, OrderAssumption
<1>2. d \in Classes
  BY <1>1 DEF Range
<1> QED
  BY <1>1, <1>2 DEF Family

LEMMA OwnFamily ==
    ASSUME NEW s \in Services, s \in Range(begun)
    PROVE  s \in Classes /\ s \in Family(s)
<1>1. s \in Classes
  BY ClassesAssumption
<1>2. Mro[s] \in Seq(Classes) /\ Len(Mro[s]) > 0 /\ Mro[s][1] = s
  BY <1>1, ClassesAssumption
<1>3. 1 \in DOMAIN Mro[s]
  BY <1>2
<1> QED
  BY <1>1, <1>2, <1>3 DEF Family, Range

LEMMA LookupHeld ==
    ASSUME AttributesInv, NEW s \in Services, NEW n
    PROVE  HeldBy(s, Lookup(s, n))
<1> DEFINE holders == {i \in DOMAIN Mro[s] : n \in Names /\ attribute[Mro[s][i]][n] # Absent}
           first == CHOOSE i \in holders : \A j \in holders : i <= j
<1>1. CASE holders = {}
  BY <1>1 DEF Lookup, HeldBy
<1>2. CASE holders # {}
  <2>1. s \in Classes /\ Mro[s] \in Seq(Classes)
    BY ClassesAssumption
  <2>2. holders \subseteq Nat
    BY <2>1
  <2>3. first \in holders
    BY <1>2, <2>2, LeastIndex
  <2>4. n \in Names /\ Mro[s][first] \in Range(Mro[s])
    BY <2>3 DEF Range
  <2>5. Mro[s][first] \in Classes /\ Family(Mro[s][first]) \subseteq Family(s)
    BY <2>1, <2>4, FamilyGrows
  <2>6. HeldBy(Mro[s][first], attribute[Mro[s][first]][n])
    BY <2>4, <2>5 DEF AttributesInv
  <2>7. Lookup(s, n) = attribute[Mro[s][first]][n]
    BY <1>2 DEF Lookup
  <2> QED
    BY <2>5, <2>6, <2>7 DEF HeldBy
<1> QED
  BY <1>1, <1>2

(* What register_action leaves was resolved in the family of the service. *)
LEMMA NextActionResolved ==
    ASSUME AttributesInv, CurrentInv, current # NoRegistration,
           Lookup(current.service, Head(current.todo).attr) # Absent
    PROVE  /\ Shaped(NextAction) /\ ParamsShaped(NextAction.params)
           /\ NextAction.params.resolved \in Family(current.service)
<1> DEFINE s == current.service
           entry == Head(current.todo)
           held == Lookup(s, entry.attr)
           action == Action(s, entry)
<1>1. s \in Services /\ s \in Family(s)
  BY OwnFamily DEF CurrentInv
<1>2. HeldBy(s, held) /\ held # Absent
  BY <1>1, LookupHeld
<1> HIDE DEF s, entry, held
<1>3. /\ Shaped(action) /\ ParamsShaped(action.params)
      /\ action.params.resolved \in Family(s) \cup {Nobody}
  <2>1. CASE held.params # Absent
    <3>1. action = held
      BY <2>1 DEF Action, held
    <3> QED
      BY <1>2, <2>1, <3>1 DEF HeldBy
  <2>2. CASE held.params = Absent
    <3>1. action = [held EXCEPT !.params =
                        [class |-> entry.class, attr |-> entry.attr, resolved |-> Nobody]]
      BY <2>2 DEF Action, held
    <3>2. Shaped(held)
      BY <1>2 DEF HeldBy
    <3>3. action = [name |-> held.name, params |->
                        [class |-> entry.class, attr |-> entry.attr, resolved |-> Nobody]]
      BY <3>1, <3>2 DEF Shaped
    <3> QED
      BY <3>3 DEF Shaped, ParamsShaped
  <2> QED
    BY <2>1, <2>2
<1>4. NextAction = [action EXCEPT !.params = Resolve(@, s)]
  BY DEF NextAction, s, entry
<1> HIDE DEF action
<1>5. NextAction = [name |-> action.name, params |-> Resolve(action.params, s)]
  BY <1>3, <1>4 DEF Shaped
<1>6. /\ ParamsShaped(Resolve(action.params, s))
      /\ Resolve(action.params, s).resolved \in Family(s)
  BY <1>1, <1>3 DEF Resolve, ParamsShaped
<1> QED
  BY <1>5, <1>6 DEF Shaped, s
LEMMA InitFamily == Init => FamilyInv
<1> SUFFICES ASSUME Init PROVE FamilyInv
  OBVIOUS
<1>1. \A c \in Classes, n \in Names : HeldBy(c, Body(c, n))
  BY DEF HeldBy, Body, Shaped, ParamsShaped
<1>2. AttributesInv
  BY <1>1 DEF Init, AttributesInv
<1>3. CurrentInv
  BY DEF Init, CurrentInv
<1>4. ListingsInv
  BY EmptySeq DEF Init, ListingsInv
<1> QED
  BY <1>2, <1>3, <1>4 DEF FamilyInv, Init

LEMMA CreateFamily == \A h \in Handlers : FamilyInv /\ CreateHandler(h) => FamilyInv'
  BY DEF CreateHandler, FamilyInv, AttributesInv, CurrentInv, ListingsInv, Resolved, HeldBy, Family

(* When another registration begins, families only grow. *)
LEMMA BeginFamily ==
    \A h \in Handlers, s \in Services : FamilyInv /\ BeginRegister(h, s) => FamilyInv'
<1> SUFFICES ASSUME NEW h \in Handlers, NEW s \in Services, FamilyInv, BeginRegister(h, s)
             PROVE  FamilyInv'
  OBVIOUS
<1>1. begun \in Seq(Services) /\ begun' = Append(begun, s)
  BY DEF FamilyInv, BeginRegister
<1>2. Range(begun') = Range(begun) \cup {s}
  BY <1>1 DEF Range
<1>3. \A c : Family(c) \subseteq Family(c)'
  BY <1>2 DEF Family
<1>4. AttributesInv'
  BY <1>3 DEF FamilyInv, BeginRegister, AttributesInv, HeldBy
<1>5. ListingsInv'
  BY <1>3 DEF FamilyInv, BeginRegister, ListingsInv, Resolved
<1>6. CurrentInv'
  BY <1>2, EmptySeq DEF BeginRegister, CurrentInv, Resolved
<1> QED
  BY <1>1, <1>4, <1>5, <1>6 DEF FamilyInv

LEMMA RegisterFamily ==
    \A buildable : FamilyInv /\ RegisterAction(buildable) => FamilyInv'
<1> SUFFICES ASSUME NEW buildable, FamilyInv, RegisterAction(buildable) PROVE FamilyInv'
  OBVIOUS
<1>1. UNCHANGED <<proto_services, begun>> /\ \A c : Family(c)' = Family(c)
  BY DEF RegisterAction, Family
<1>2. ListingsInv'
  BY <1>1 DEF FamilyInv, ListingsInv, Resolved
<1>3. CASE current' = NoRegistration /\ UNCHANGED attribute
  BY <1>1, <1>2, <1>3 DEF FamilyInv, AttributesInv, HeldBy, CurrentInv
<1>4. CASE /\ Lookup(current.service, Head(current.todo).attr) # Absent
           /\ attribute' = Written(current.service, NextAction)
           /\ current' = [current EXCEPT !.todo = Tail(@), !.rpcs = Append(@, NextAction)]
  <2> DEFINE s == current.service
             a == NextAction
  <2>1. /\ current # NoRegistration
        /\ current = [handler |-> current.handler, service |-> s,
                       todo |-> current.todo, rpcs |-> current.rpcs]
        /\ s \in Services \cap Range(begun)
        /\ Resolved(s, current.rpcs)
    BY DEF RegisterAction, FamilyInv, CurrentInv
  <2>2. Shaped(a) /\ ParamsShaped(a.params) /\ a.params.resolved \in Family(s)
    BY <1>4, <2>1, NextActionResolved DEF FamilyInv
  <2> HIDE DEF a
  <2>3. HeldBy(s, a)
    BY <2>2 DEF HeldBy
  <2>4. attribute' = [attribute EXCEPT ![s][a.name] = a]
    BY <1>4 DEF Written, a
  <2>5. AttributesInv'
    <3>1. \A c \in Classes, n \in Names :
             attribute'[c][n] = attribute[c][n] \/ (c = s /\ attribute'[c][n] = a)
      BY <2>4 DEF FamilyInv, AttributesInv
    <3>2. attribute' = [c \in Classes |-> [n \in Names |-> attribute'[c][n]]]
      BY <2>4 DEF FamilyInv, AttributesInv
    <3>3. \A c \in Classes, n \in Names : HeldBy(c, attribute'[c][n])
      BY <2>3, <3>1 DEF FamilyInv, AttributesInv
    <3> QED
      BY <1>1, <3>2, <3>3 DEF AttributesInv, HeldBy
  <2>6. current' = [handler |-> current.handler, service |-> s,
                    todo |-> Tail(current.todo), rpcs |-> Append(current.rpcs, a)]
    BY <1>4, <2>1 DEF a
  <2>7. Resolved(s, Append(current.rpcs, a))
    <3>1. \E S : current.rpcs \in Seq(S)
      BY <2>1 DEF Resolved
    <3>2. /\ \E S : Append(current.rpcs, a) \in Seq(S)
          /\ DOMAIN Append(current.rpcs, a) = 1 .. Len(current.rpcs) + 1
          /\ DOMAIN current.rpcs = 1 .. Len(current.rpcs) /\ Len(current.rpcs) \in Nat
          /\ \A i \in DOMAIN current.rpcs : Append(current.rpcs, a)[i] = current.rpcs[i]
          /\ Append(current.rpcs, a)[Len(current.rpcs) + 1] = a
      BY <3>1, AppendSeq
    <3> QED
      BY <2>1, <2>2, <3>2 DEF Resolved
  <2>8. CurrentInv'
    BY <1>1, <2>1, <2>6, <2>7 DEF CurrentInv, Resolved
  <2> QED
    BY <1>1, <1>2, <2>5, <2>8 DEF FamilyInv
<1> QED
  BY <1>3, <1>4 DEF RegisterAction

LEMMA EndFamily == \A known : FamilyInv /\ EndRegister(known) => FamilyInv'
<1> SUFFICES ASSUME NEW known, FamilyInv, EndRegister(known) PROVE FamilyInv'
  OBVIOUS
<1> DEFINE listing == [service |-> current.service, rpcs |-> current.rpcs]
<1>1. /\ UNCHANGED <<attribute, begun>> /\ \A c : Family(c)' = Family(c)
      /\ current' = NoRegistration
      /\ proto_services' = [proto_services EXCEPT ![current.handler] = Append(@, listing)]
  BY DEF EndRegister, Family
<1>2. Resolved(listing.service, listing.rpcs)
  BY DEF EndRegister, FamilyInv, CurrentInv
<1> HIDE DEF listing
<1>3. AttributesInv' /\ CurrentInv'
  BY <1>1 DEF FamilyInv, AttributesInv, HeldBy, CurrentInv
<1>4. proto_services' = [h \in Handlers |-> proto_services'[h]]
  BY <1>1 DEF FamilyInv, ListingsInv
<1>5. ASSUME NEW h \in Handlers
      PROVE  /\ \E S : proto_services'[h] \in Seq(S)
             /\ \A i \in DOMAIN proto_services'[h] :
                   Resolved(proto_services'[h][i].service, proto_services'[h][i].rpcs)
  <2> DEFINE q == proto_services[h]
  <2>1. /\ \E S : q \in Seq(S)
        /\ \A i \in DOMAIN q : Resolved(q[i].service, q[i].rpcs)
    BY DEF FamilyInv, ListingsInv
  <2>2. proto_services'[h] = q \/ proto_services'[h] = Append(q, listing)
    BY <1>1 DEF FamilyInv, ListingsInv
  <2> HIDE DEF q
  <2>3. /\ \E S : Append(q, listing) \in Seq(S)
        /\ DOMAIN Append(q, listing) = 1 .. Len(q) + 1
        /\ DOMAIN q = 1 .. Len(q) /\ Len(q) \in Nat
        /\ \A i \in DOMAIN q : Append(q, listing)[i] = q[i]
        /\ Append(q, listing)[Len(q) + 1] = listing
    BY <2>1, AppendSeq
  <2>4. \A i \in DOMAIN Append(q, listing) :
           Resolved(Append(q, listing)[i].service, Append(q, listing)[i].rpcs)
    BY <1>2, <2>1, <2>3
  <2> QED
    BY <2>1, <2>2, <2>3, <2>4
<1>6. ListingsInv'
  BY <1>1, <1>4, <1>5 DEF ListingsInv, Resolved
<1> QED
  BY <1>1, <1>3, <1>6 DEF FamilyInv

LEMMA NextFamily ==
    FamilyInv /\ [\E buildable \in BOOLEAN : RegistryNext(buildable)]_rvars => FamilyInv'
<1> SUFFICES ASSUME FamilyInv, [\E buildable \in BOOLEAN : RegistryNext(buildable)]_rvars
             PROVE  FamilyInv'
  OBVIOUS
<1>1. CASE \E buildable \in BOOLEAN : RegistryNext(buildable)
  BY <1>1, CreateFamily, BeginFamily, RegisterFamily, EndFamily DEF RegistryNext
<1>2. CASE UNCHANGED rvars
  BY <1>2 DEF rvars, FamilyInv, AttributesInv, CurrentInv, ListingsInv, Resolved, HeldBy, Family
<1> QED
  BY <1>1, <1>2

(* What a service lists was resolved for itself or for a registered service it *)
(* inherits from (actions.py:258), whatever is declared, in any order.         *)
THEOREM OwnPlaceholders == Spec => []ResolvedInFamily
<1>1. FamilyInv => ResolvedInFamily
  <2> SUFFICES ASSUME FamilyInv, NEW h \in Handlers, NEW listing \in Listings(h),
                      NEW rpc \in Range(listing.rpcs)
               PROVE  rpc.params.resolved \in Family(listing.service)
    BY DEF ResolvedInFamily, Family, Ancestors
  <2>1. Resolved(listing.service, listing.rpcs)
    BY DEF FamilyInv, ListingsInv, Listings
  <2> QED
    BY <2>1 DEF Resolved, Range
<1> QED
  BY <1>1, InitFamily, NextFamily, PTL DEF Spec

--------------------------------------------------------------------------------
(* The registry of a service, the result of two nested loops of updates.       *)
Entries == [class : Classes, attr : Attributes]
KindOf(c, a) == declares[c][a].kind
Registering == {"decorated", "dynamic", "both"}
DeclaresOK == declares \in [Classes -> [Attributes -> Declared]]

LEMMA UpdateFacts ==
    ASSUME NEW S, NEW r \in Seq(S), NEW e \in S
    PROVE  /\ Update(r, e) \in Seq(S)
           /\ \A i \in DOMAIN Update(r, e) :
                 LET x == Update(r, e)[i]
                 IN  x = e \/ (x \in Range(r) /\ x.attr # e.attr)
<1>1. CASE \E i \in DOMAIN r : r[i].attr = e.attr
  <2> DEFINE u == [i \in DOMAIN r |-> IF r[i].attr = e.attr THEN e ELSE r[i]]
  <2>1. Update(r, e) = u
    BY <1>1 DEF Update
  <2>2. u \in Seq(S)
    OBVIOUS
  <2>3. \A i \in DOMAIN u : u[i] = e \/ (u[i] \in Range(r) /\ u[i].attr # e.attr)
    BY DEF Range
  <2> QED
    BY <2>1, <2>2, <2>3
<1>2. CASE ~\E i \in DOMAIN r : r[i].attr = e.attr
  <2>1. Update(r, e) = Append(r, e)
    BY <1>2 DEF Update
  <2>2. Append(r, e) \in Seq(S)
    OBVIOUS
  <2>3. ASSUME NEW i \in DOMAIN Append(r, e)
        PROVE  Append(r, e)[i] = e \/ (i \in DOMAIN r /\ Append(r, e)[i] = r[i])
    OBVIOUS
  <2>4. \A i \in DOMAIN r : r[i] \in Range(r) /\ r[i].attr # e.attr
    BY <1>2 DEF Range
  <2> QED
    BY <2>1, <2>2, <2>3, <2>4
<1> QED
  BY <1>1, <1>2

(* The turns of the loop of Collect. *)
CollectTurns(f, r, c, kinds) ==
    f = [i \in 0 .. Len(AttributeOrder) |->
            IF i = 0 THEN r
            ELSE IF declares[c][AttributeOrder[i]].kind \in kinds
            THEN Update(f[i - 1], [class |-> c, attr |-> AttributeOrder[i]])
            ELSE f[i - 1]]

LEMMA CollectRuns ==
    ASSUME NEW r \in Seq(Entries), NEW c \in Classes, NEW kinds
    PROVE  \E f : CollectTurns(f, r, c, kinds)
<1> DEFINE N == Len(AttributeOrder)
           S == Seq(Entries)
           entry(i) == [class |-> c, attr |-> AttributeOrder[i]]
           Turn(i, y) == IF declares[c][AttributeOrder[i]].kind \in kinds
                         THEN Update(y, entry(i)) ELSE y
           F == [i \in 1 .. N |-> [y \in S |-> Turn(i, y)]]
<1>1. N \in Nat
  BY NamesAssumption
<1>2. \A i \in 1 .. N : entry(i) \in Entries
  BY NamesAssumption DEF Attributes, Range, Entries
<1>3. \A i \in 1 .. N, y \in S : Turn(i, y) \in S
  BY <1>2, UpdateFacts
<1>4. F \in [1 .. N -> [S -> S]] /\ \A i \in 1 .. N, y \in S : F[i][y] = Turn(i, y)
  BY <1>3
<1> HIDE DEF N, F, entry, Turn, S
<1>5. PICK f : f \in [0 .. N -> S] /\ f[0] = r /\ \A i \in 1 .. N : f[i] = F[i][f[i - 1]]
  <2>1. r \in S
    BY DEF S
  <2>2. PICK f : LoopRun(f, N, S, r, F)
    BY <1>1, <1>4, <2>1, LoopRuns
  <2> QED
    BY <2>2, Zenon DEF LoopRun
<1>6. ASSUME NEW i \in 0 .. N PROVE f[i] = IF i = 0 THEN r ELSE Turn(i, f[i - 1])
  <2>1. i # 0 => i \in 1 .. N /\ i - 1 \in 0 .. N
    BY <1>1
  <2> QED
    BY <1>4, <1>5, <2>1
<1>7. f = [i \in 0 .. N |-> IF i = 0 THEN r ELSE Turn(i, f[i - 1])]
  <2>1. f = [i \in 0 .. N |-> f[i]]
    BY <1>5
  <2> QED
    BY <1>6, <2>1
<1>8. CollectTurns(f, r, c, kinds)
  BY <1>7, Zenon DEF CollectTurns, Turn, entry, N
<1> QED
  BY <1>8

(* What c registers in one of these ways is the class's, the rest is as before.*)
LEMMA CollectFacts ==
    ASSUME NEW r \in Seq(Entries), NEW c \in Classes, NEW kinds
    PROVE  /\ Collect(r, c, kinds) \in Seq(Entries)
           /\ \A x \in Range(Collect(r, c, kinds)) :
                 \/ x.class = c /\ KindOf(c, x.attr) \in kinds
                 \/ x \in Range(r) /\ KindOf(c, x.attr) \notin kinds
<1> DEFINE N == Len(AttributeOrder)
           h == CHOOSE f : CollectTurns(f, r, c, kinds)
           entry(i) == [class |-> c, attr |-> AttributeOrder[i]]
           Seen(x, i) == \/ x.class = c /\ KindOf(c, x.attr) \in kinds
                         \/ /\ x \in Range(r)
                            /\ KindOf(c, x.attr) \in kinds =>
                                  \A l \in 1 .. i : AttributeOrder[l] # x.attr
<1>1. CollectTurns(h, r, c, kinds)
  <2>1. \E f : CollectTurns(f, r, c, kinds)
    BY CollectRuns
  <2> QED
    BY <2>1, Zenon
<1>2. Collect(r, c, kinds) = h[N]
  BY Zenon DEF Collect, CollectTurns
<1> HIDE DEF h
<1>3. N \in Nat /\ \A i \in 1 .. N : entry(i) \in Entries
  BY NamesAssumption DEF Attributes, Range, Entries
<1>4. h[0] = r /\ \A i \in 1 .. N : h[i] = IF KindOf(c, AttributeOrder[i]) \in kinds
                                           THEN Update(h[i - 1], entry(i)) ELSE h[i - 1]
  <2>1. h = [i \in 0 .. N |-> IF i = 0 THEN r
                               ELSE IF declares[c][AttributeOrder[i]].kind \in kinds
                               THEN Update(h[i - 1], entry(i)) ELSE h[i - 1]]
    BY <1>1 DEF CollectTurns
  <2> HIDE DEF N, entry
  <2>2. h[0] = r
    BY <1>3, <2>1
  <2>3. ASSUME NEW i \in 1 .. N
        PROVE  h[i] = IF KindOf(c, AttributeOrder[i]) \in kinds
                      THEN Update(h[i - 1], entry(i)) ELSE h[i - 1]
    <3>1. i \in 0 .. N /\ i # 0
      BY <1>3
    <3> QED
      BY <2>1, <3>1 DEF KindOf
  <2> QED
    BY <2>2, <2>3
<1> HIDE DEF N
<1> DEFINE T == {i \in 0 .. N : h[i] \in Seq(Entries) /\ \A j \in DOMAIN h[i] : Seen(h[i][j], i)}
<1>5. 0 \in T
  <2>1. \A j \in DOMAIN r : Seen(r[j], 0)
    BY DEF Range
  <2> HIDE DEF Seen
  <2> QED
    BY <1>3, <1>4, <2>1
<1>6. ASSUME NEW i \in 1 .. N, i - 1 \in T PROVE i \in T
  <2> DEFINE q == h[i - 1]
  <2>1. q \in Seq(Entries) /\ \A j \in DOMAIN q : Seen(q[j], i - 1)
    BY <1>6
  <2> HIDE DEF q
  <2>2. \A x : Seen(x, i - 1) /\ x.attr # AttributeOrder[i] => Seen(x, i)
    BY <1>3
  <2>3. CASE KindOf(c, AttributeOrder[i]) \in kinds
    <3>1. h[i] = Update(q, entry(i))
      BY <1>4, <2>3 DEF q
    <3>2. Seen(entry(i), i)
      BY <2>3
    <3> HIDE DEF Seen
    <3>3. entry(i).attr = AttributeOrder[i] /\ entry(i) \in Entries
      BY <1>3
    <3> HIDE DEF entry
    <3>4. /\ Update(q, entry(i)) \in Seq(Entries)
          /\ \A j \in DOMAIN Update(q, entry(i)) :
                LET x == Update(q, entry(i))[j]
                IN  x = entry(i) \/ (x \in Range(q) /\ x.attr # entry(i).attr)
      BY <2>1, <3>3, UpdateFacts
    <3>5. \A x \in Range(q) : Seen(x, i - 1)
      BY <2>1 DEF Range
    <3> QED
      BY <1>3, <2>2, <3>1, <3>2, <3>3, <3>4, <3>5
  <2>4. CASE KindOf(c, AttributeOrder[i]) \notin kinds
    <3>1. h[i] = q
      BY <1>4, <2>4 DEF q
    <3>2. \A x : Seen(x, i - 1) => Seen(x, i)
      BY <1>3, <2>4
    <3> HIDE DEF Seen
    <3> QED
      BY <1>3, <2>1, <3>1, <3>2
  <2> QED
    BY <2>3, <2>4
<1> HIDE DEF T
<1>7. N \in T
  <2>1. N \in 0 .. N
    BY <1>3
  <2>2. \A i \in 0 .. N : i \in T
    BY <1>3, <1>5, <1>6, InductionUpTo, Zenon
  <2> QED
    BY <2>1, <2>2
<1>8. h[N] \in Seq(Entries) /\ \A j \in DOMAIN h[N] : Seen(h[N][j], N)
  BY <1>7 DEF T
<1>9. ASSUME NEW x \in Range(h[N])
      PROVE  \/ x.class = c /\ KindOf(c, x.attr) \in kinds
             \/ x \in Range(r) /\ KindOf(c, x.attr) \notin kinds
  <2>1. PICK j \in DOMAIN h[N] : x = h[N][j]
    BY DEF Range
  <2>2. Seen(x, N) /\ x \in Entries
    BY <1>8, <2>1
  <2>3. \E l \in 1 .. N : AttributeOrder[l] = x.attr
    BY <2>2, NamesAssumption DEF Entries, Attributes, Range, N
  <2> QED
    BY <2>2, <2>3
<1> QED
  BY <1>2, <1>8, <1>9 DEF N

(* The registry with what class c registers: a class only yields to one that   *)
(* declares nothing under the name, or a function.                             *)
LEMMA WithClassFacts ==
    ASSUME DeclaresOK, NEW r \in Seq(Entries), NEW c \in Classes
    PROVE  /\ WithClass(r, c) \in Seq(Entries)
           /\ \A x \in Range(WithClass(r, c)) :
                 \/ x.class = c /\ KindOf(c, x.attr) \in Registering
                 \/ x \in Range(r) /\ KindOf(c, x.attr) \in {"none", "function"}
<1> DEFINE q == Collect(r, c, {"decorated"})
           w == Collect(q, c, {"dynamic", "both"})
<1>1. /\ q \in Seq(Entries)
      /\ \A x \in Range(q) : \/ x.class = c /\ KindOf(c, x.attr) \in {"decorated"}
                             \/ x \in Range(r) /\ KindOf(c, x.attr) \notin {"decorated"}
  BY CollectFacts
<1> HIDE DEF q
<1>2. /\ w \in Seq(Entries)
      /\ \A x \in Range(w) : \/ x.class = c /\ KindOf(c, x.attr) \in {"dynamic", "both"}
                             \/ x \in Range(q) /\ KindOf(c, x.attr) \notin {"dynamic", "both"}
  BY <1>1, CollectFacts
<1>3. WithClass(r, c) = w
  BY DEF WithClass, q
<1> HIDE DEF w
<1>4. ASSUME NEW x \in Range(w)
      PROVE  KindOf(c, x.attr) \in {"none", "function", "decorated", "dynamic", "both"}
  <2>1. x \in Entries
    BY <1>2 DEF Range
  <2> QED
    BY <2>1 DEF DeclaresOK, KindOf, Entries, Declared
<1> QED
  BY <1>1, <1>2, <1>3, <1>4 DEF Registering

(* The turns of the loop of ParentsRegistry. *)
RegistryTurns(f, s) ==
    f = [i \in 0 .. Len(Mro[s]) |->
            IF i = 0 THEN <<>>
            ELSE WithClass(f[i - 1], Mro[s][Len(Mro[s]) + 1 - i])]

LEMMA RegistryRuns ==
    ASSUME DeclaresOK, NEW s \in Classes
    PROVE  \E f : RegistryTurns(f, s)
<1> DEFINE N == Len(Mro[s])
           S == Seq(Entries)
           Turn(i, y) == WithClass(y, Mro[s][N + 1 - i])
           F == [i \in 1 .. N |-> [y \in S |-> Turn(i, y)]]
<1>1. N \in Nat /\ Mro[s] \in Seq(Classes)
  BY ClassesAssumption
<1>2. \A i \in 1 .. N : Mro[s][N + 1 - i] \in Classes
  <2> SUFFICES ASSUME NEW i \in 1 .. N PROVE Mro[s][N + 1 - i] \in Classes
    OBVIOUS
  <2>1. N + 1 - i \in 1 .. N
    BY <1>1
  <2> QED
    BY <1>1, <2>1
<1>3. \A i \in 1 .. N, y \in S : Turn(i, y) \in S
  BY <1>2, WithClassFacts
<1>4. <<>> \in S
  OBVIOUS
<1> HIDE DEF N, S, Turn
<1>5. F \in [1 .. N -> [S -> S]] /\ \A i \in 1 .. N, y \in S : F[i][y] = Turn(i, y)
  BY <1>3
<1> HIDE DEF F
<1>6. PICK f : f \in [0 .. N -> S] /\ f[0] = <<>> /\ \A i \in 1 .. N : f[i] = F[i][f[i - 1]]
  <2>1. PICK f : LoopRun(f, N, S, <<>>, F)
    BY <1>1, <1>4, <1>5, LoopRuns
  <2> QED
    BY <2>1, Zenon DEF LoopRun
<1>7. ASSUME NEW i \in 0 .. N PROVE f[i] = IF i = 0 THEN <<>> ELSE Turn(i, f[i - 1])
  <2>1. i # 0 => i \in 1 .. N /\ i - 1 \in 0 .. N
    BY <1>1
  <2> QED
    BY <1>5, <1>6, <2>1
<1>8. f = [i \in 0 .. N |-> IF i = 0 THEN <<>> ELSE Turn(i, f[i - 1])]
  <2>1. f = [i \in 0 .. N |-> f[i]]
    BY <1>6
  <2> QED
    BY <1>7, <2>1
<1>9. RegistryTurns(f, s)
  BY <1>8, Zenon DEF RegistryTurns, Turn, N
<1> QED
  BY <1>9

(* An entry is declared by a class at place j, from place m on, and nothing    *)
(* between the two registers its name.                                         *)
NearestFrom(x, s, m) ==
    \E j \in m .. Len(Mro[s]) :
        /\ x.class = Mro[s][j] /\ KindOf(x.class, x.attr) \in Registering
        /\ \A i \in m .. j-1 : KindOf(Mro[s][i], x.attr) \in {"none", "function"}

LEMMA RegistryFacts ==
    ASSUME DeclaresOK, NEW s \in Classes
    PROVE  /\ ParentsRegistry(s) \in Seq(Entries)
           /\ \A x \in Range(ParentsRegistry(s)) : NearestFrom(x, s, 1)
<1> DEFINE N == Len(Mro[s])
           h == CHOOSE f : RegistryTurns(f, s)
<1>1. RegistryTurns(h, s)
  <2>1. \E f : RegistryTurns(f, s)
    BY RegistryRuns
  <2> QED
    BY <2>1, Zenon
<1>2. ParentsRegistry(s) = h[N]
  BY Zenon DEF ParentsRegistry, RegistryTurns
<1> HIDE DEF h
<1>3. N \in Nat /\ Mro[s] \in Seq(Classes)
  BY ClassesAssumption
<1>4. h[0] = <<>> /\ \A i \in 1 .. N : h[i] = WithClass(h[i - 1], Mro[s][N + 1 - i])
  <2>1. h = [i \in 0 .. N |-> IF i = 0 THEN <<>> ELSE WithClass(h[i - 1], Mro[s][N + 1 - i])]
    BY <1>1 DEF RegistryTurns
  <2> HIDE DEF N
  <2>2. h[0] = <<>>
    BY <1>3, <2>1
  <2>3. ASSUME NEW i \in 1 .. N PROVE h[i] = WithClass(h[i - 1], Mro[s][N + 1 - i])
    <3>1. i \in 0 .. N /\ i # 0
      BY <1>3
    <3> QED
      BY <2>1, <3>1
  <2> QED
    BY <2>2, <2>3
<1> DEFINE T == {i \in 0 .. N : /\ h[i] \in Seq(Entries)
                                /\ \A x \in Range(h[i]) : NearestFrom(x, s, N + 1 - i)}
<1>5. 0 \in T
  <2>1. h[0] \in Seq(Entries) /\ DOMAIN h[0] = {}
    BY <1>4
  <2>2. Range(h[0]) = {}
    BY <2>1, Zenon DEF Range
  <2> QED
    BY <1>3, <2>1, <2>2
<1>6. ASSUME NEW i \in 1 .. N, i - 1 \in T PROVE i \in T
  <2> DEFINE q == h[i - 1]
             m == N + 1 - i
             c == Mro[s][m]
  <2>1. m \in 1 .. N /\ N + 1 - (i - 1) = m + 1
    BY <1>3
  <2>2. q \in Seq(Entries) /\ \A x \in Range(q) : NearestFrom(x, s, m + 1)
    BY <1>6, <2>1
  <2>3. c \in Classes
    BY <1>3, <2>1
  <2>4. h[i] = WithClass(q, c)
    BY <1>4
  <2> HIDE DEF q
  <2>5. /\ WithClass(q, c) \in Seq(Entries)
        /\ \A x \in Range(WithClass(q, c)) :
                 \/ x.class = c /\ KindOf(c, x.attr) \in Registering
                 \/ x \in Range(q) /\ KindOf(c, x.attr) \in {"none", "function"}
    BY <2>2, <2>3, WithClassFacts
  <2>6. ASSUME NEW x, x.class = c, KindOf(c, x.attr) \in Registering
        PROVE  NearestFrom(x, s, m)
    <3>1. m \in m .. Len(Mro[s]) /\ m .. m-1 = {}
      BY <2>1
    <3> QED
      BY <2>6, <3>1 DEF NearestFrom
  <2>7. ASSUME NEW x, NearestFrom(x, s, m + 1), KindOf(c, x.attr) \in {"none", "function"}
        PROVE  NearestFrom(x, s, m)
    <3>1. PICK j \in m + 1 .. Len(Mro[s]) :
             /\ x.class = Mro[s][j] /\ KindOf(x.class, x.attr) \in Registering
             /\ \A k \in m + 1 .. j-1 : KindOf(Mro[s][k], x.attr) \in {"none", "function"}
      BY <2>7 DEF NearestFrom
    <3>2. j \in m .. Len(Mro[s])
      BY <2>1, <1>3
    <3>3. \A k \in m .. j-1 : k = m \/ k \in m + 1 .. j-1
      BY <2>1, <1>3
    <3>4. \A k \in m .. j-1 : KindOf(Mro[s][k], x.attr) \in {"none", "function"}
      BY <2>7, <3>1, <3>3
    <3> QED
      BY <3>1, <3>2, <3>4 DEF NearestFrom
  <2>8. \A x \in Range(h[i]) : NearestFrom(x, s, m)
    BY <2>2, <2>4, <2>5, <2>6, <2>7
  <2> QED
    BY <1>3, <2>4, <2>5, <2>8
<1> HIDE DEF T
<1>7. \A i \in 0 .. N : i \in T
  BY <1>3, <1>5, <1>6, InductionUpTo, Zenon
<1>8. N \in 0 .. N /\ N + 1 - N = 1
  BY <1>3
<1>9. h[N] \in Seq(Entries) /\ \A x \in Range(h[N]) : NearestFrom(x, s, 1)
  BY <1>7, <1>8 DEF T
<1> QED
  BY <1>2, <1>9

--------------------------------------------------------------------------------
(* Types. *)
RegisteredRpcs == Seq(Rpcs)
Running == [handler : Handlers, service : Services, todo : Seq(Entries), rpcs : RegisteredRpcs]
Listing == [service : Services, rpcs : RegisteredRpcs]

LEMMA TypedLookup ==
    ASSUME TypeOK, NEW s \in Services, NEW n
    PROVE  Lookup(s, n) \in Held \cup {Absent}
<1> DEFINE holders == {i \in DOMAIN Mro[s] : n \in Names /\ attribute[Mro[s][i]][n] # Absent}
           first == CHOOSE i \in holders : \A j \in holders : i <= j
<1>1. CASE holders = {}
  BY <1>1 DEF Lookup
<1>2. CASE holders # {}
  <2>1. s \in Classes /\ Mro[s] \in Seq(Classes)
    BY ClassesAssumption
  <2>2. holders \subseteq Nat
    BY <2>1
  <2>3. first \in holders
    BY <1>2, <2>2, LeastIndex
  <2>4. n \in Names /\ first \in DOMAIN Mro[s]
    BY <2>3
  <2>5. Lookup(s, n) = attribute[Mro[s][first]][n]
    BY <1>2 DEF Lookup
  <2> HIDE DEF first
  <2>6. Mro[s][first] \in Classes
    BY <2>1, <2>4
  <2> QED
    BY <2>4, <2>5, <2>6 DEF TypeOK
<1> QED
  BY <1>1, <1>2

(* The action of a turn of register_actions, once its placeholders are resolved. *)
LEMMA TypedAction ==
    ASSUME TypeOK, current # NoRegistration, current.todo # <<>>,
           Lookup(current.service, Head(current.todo).attr) # Absent
    PROVE  NextAction \in Rpcs
<1> DEFINE s == current.service
           entry == Head(current.todo)
           held == Lookup(s, entry.attr)
           action == Action(s, entry)
<1>1. current \in Running
  BY DEF TypeOK, Running, RegisteredRpcs, Entries
<1>2. s \in Services /\ entry \in Entries
  BY <1>1 DEF Running
<1>3. held \in Held
  BY <1>2, TypedLookup
<1> HIDE DEF s, entry, held
<1>4. action \in Rpcs
  <2>1. CASE held.params # Absent
    <3>1. action = held
      BY <2>1 DEF Action, held
    <3> QED
      BY <1>3, <2>1, <3>1 DEF Held, Rpcs
  <2>2. CASE held.params = Absent
    <3> DEFINE p == [class |-> entry.class, attr |-> entry.attr, resolved |-> Nobody]
    <3>1. action = [held EXCEPT !.params = p]
      BY <2>2 DEF Action, held
    <3>2. p \in Params
      BY <1>2 DEF Params, Entries
    <3> HIDE DEF p
    <3> QED
      BY <1>3, <3>1, <3>2 DEF Held, Rpcs
  <2> QED
    BY <2>1, <2>2
<1>5. NextAction = [action EXCEPT !.params = Resolve(@, s)]
  BY DEF NextAction, s, entry
<1> HIDE DEF action
<1>6. Resolve(action.params, s) \in Params
  BY <1>2, <1>4 DEF Resolve, Rpcs, Params
<1> QED
  BY <1>4, <1>5, <1>6 DEF Rpcs

LEMMA InitTyped == Init => TypeOK
<1> SUFFICES ASSUME Init PROVE TypeOK
  OBVIOUS
<1>1. declares \in [Classes -> [Attributes -> Declared]]
  BY ClassesAssumption DEF Init
<1>2. ASSUME NEW c \in Classes, NEW n \in Names PROVE Body(c, n) \in Held \cup {Absent}
  <2> DEFINE p == [class |-> c, attr |-> n, resolved |-> Nobody]
  <2>1. CASE n \in Attributes
    <3>1. declares[c][n].name \in Names /\ p \in Params
      BY <1>1, <2>1 DEF Declared, Params
    <3> QED
      BY <2>1, <3>1 DEF Body, Held
  <2>2. CASE n \notin Attributes
    BY <2>2 DEF Body
  <2> QED
    BY <2>1, <2>2
<1>3. attribute \in [Classes -> [Names -> Held \cup {Absent}]]
  BY <1>2 DEF Init
<1> QED
  BY <1>1, <1>3 DEF Init, TypeOK

LEMMA NextTyped ==
    TypeOK /\ [\E buildable \in BOOLEAN : RegistryNext(buildable)]_rvars => TypeOK'
<1> SUFFICES ASSUME TypeOK, [\E buildable \in BOOLEAN : RegistryNext(buildable)]_rvars
             PROVE  TypeOK'
  OBVIOUS
<1>1. ASSUME NEW h \in Handlers, CreateHandler(h) PROVE TypeOK'
  <2> DEFINE apps == IF h \in Reload THEN [a \in Apps |-> Nobody] ELSE registered_apps
  <2>1. apps \in [Apps -> Handlers \cup {Nobody}]
    BY DEF TypeOK
  <2>2. App[h] \in Apps
    BY HandlersAssumption
  <2>3. \/ registered_apps' = [apps EXCEPT ![App[h]] = h] /\ created' = created \cup {h}
        \/ registered_apps' = apps /\ UNCHANGED created
    BY <1>1 DEF CreateHandler
  <2> HIDE DEF apps
  <2>4. registered_apps' \in [Apps -> Handlers \cup {Nobody}] /\ created' \subseteq Handlers
    BY <2>1, <2>2, <2>3 DEF TypeOK
  <2> QED
    BY <1>1, <2>4 DEF CreateHandler, TypeOK
<1>2. ASSUME NEW h \in Handlers, NEW s \in Services, BeginRegister(h, s) PROVE TypeOK'
  <2>1. ParentsRegistry(s) \in Seq(Entries)
    BY ClassesAssumption, RegistryFacts DEF TypeOK, DeclaresOK
  <2>2. current' \in Running
    BY <1>2, <2>1 DEF BeginRegister, Running, RegisteredRpcs
  <2>3. begun' \in Seq(Services)
    BY <1>2 DEF BeginRegister, TypeOK
  <2> QED
    BY <1>2, <2>2, <2>3 DEF BeginRegister, TypeOK, Running, RegisteredRpcs, Entries
<1>3. ASSUME NEW buildable \in BOOLEAN, RegisterAction(buildable) PROVE TypeOK'
  <2>1. UNCHANGED <<declares, registered_apps, created, proto_services, server, served, begun>>
    BY <1>3 DEF RegisterAction
  <2>2. CASE current' = NoRegistration /\ UNCHANGED attribute
    BY <2>1, <2>2 DEF TypeOK
  <2>3. CASE /\ Lookup(current.service, Head(current.todo).attr) # Absent
             /\ attribute' = Written(current.service, NextAction)
             /\ current' = [current EXCEPT !.todo = Tail(@), !.rpcs = Append(@, NextAction)]
    <3> DEFINE a == NextAction
    <3>1. current # NoRegistration /\ current.todo # <<>>
      BY <1>3 DEF RegisterAction
    <3>2. a \in Rpcs
      BY <2>3, <3>1, TypedAction
    <3>3. current \in Running
      BY <3>1 DEF TypeOK, Running, RegisteredRpcs, Entries
    <3>4. attribute' = [attribute EXCEPT ![current.service][a.name] = a]
      BY <2>3 DEF Written
    <3>5. current' = [current EXCEPT !.todo = Tail(@), !.rpcs = Append(@, a)]
      BY <2>3
    <3> HIDE DEF a
    <3>6. a \in Held /\ a.name \in Names
      BY <3>2 DEF Rpcs, Held
    <3>7. current.service \in Classes
      BY <3>3, ClassesAssumption DEF Running
    <3>8. attribute' \in [Classes -> [Names -> Held \cup {Absent}]]
      BY <3>4, <3>6, <3>7 DEF TypeOK
    <3>9. Tail(current.todo) \in Seq(Entries) /\ Append(current.rpcs, a) \in RegisteredRpcs
      BY <3>1, <3>2, <3>3 DEF Running, RegisteredRpcs
    <3>10. current' \in Running
      BY <3>3, <3>5, <3>9 DEF Running
    <3> QED
      BY <2>1, <3>8, <3>10 DEF TypeOK, Running, RegisteredRpcs, Entries
  <2> QED
    BY <1>3, <2>2, <2>3 DEF RegisterAction
<1>4. ASSUME NEW known \in BOOLEAN, EndRegister(known) PROVE TypeOK'
  <2> DEFINE listing == [service |-> current.service, rpcs |-> current.rpcs]
  <2>1. current \in Running
    BY <1>4 DEF EndRegister, TypeOK, Running, RegisteredRpcs, Entries
  <2>2. listing \in Listing /\ current.handler \in Handlers /\ current.service \in Services
    BY <2>1 DEF Running, Listing
  <2>3. proto_services' = [proto_services EXCEPT ![current.handler] = Append(@, listing)]
    BY <1>4 DEF EndRegister
  <2> HIDE DEF listing
  <2>4. proto_services' \in [Handlers -> Seq(Listing)]
    <3>1. proto_services \in [Handlers -> Seq(Listing)]
      BY DEF TypeOK, Listing, RegisteredRpcs
    <3> QED
      BY <2>2, <2>3, <3>1
  <2>5. served' \subseteq Services
    BY <1>4, <2>2 DEF EndRegister, TypeOK
  <2> QED
    BY <1>4, <2>4, <2>5 DEF EndRegister, TypeOK, Listing, RegisteredRpcs
<1>5. CASE UNCHANGED rvars
  BY <1>5 DEF rvars, TypeOK
<1> QED
  BY <1>1, <1>2, <1>3, <1>4, <1>5 DEF RegistryNext

(* Classes, handlers, listings and what the classes hold keep their types, for *)
(* any declarations and order of registration.                                 *)
THEOREM RegistryTyped == Spec => []TypeOK
<1> QED
  BY InitTyped, NextTyped, PTL DEF Spec

--------------------------------------------------------------------------------
(* Which declaration counts. Every class between c and the class d it got an   *)
(* action from was passed over.                                                *)
Fit(c, d, a) ==
    \A j \in DOMAIN Mro[c] : \A i \in 1 .. j-1 : Mro[c][j] = d => PassedOver(Mro[c], i, j, a)

(* What class c holds under an attribute: what its body declares is never      *)
(* erased, and an action is one c may have inherited, and was inherited only   *)
(* if c was registered.                                                        *)
Holds(c, a, x) ==
    /\ Body(c, a) # Absent => x # Absent
    /\ x # Absent =>
          /\ x.name \in Attributes => x.name = a
          /\ x.params # Absent =>
                /\ x.params.attr = a
                /\ x.params.class \in Range(Mro[c]) /\ Fit(c, x.params.class, a)
                /\ \/ c \in Range(begun)
                   \/ x.params.class = c /\ KindOf(c, a) = "decorated"

HoldersInv ==
    \A c \in Classes : ~Aliased(c) => \A a \in Attributes : Holds(c, a, attribute[c][a])

RpcsFit(s, rpcs) ==
    /\ \A i, j \in DOMAIN rpcs : rpcs[i].name = rpcs[j].name => i = j
    /\ ~Aliased(s) => \A i \in DOMAIN rpcs : Fit(s, rpcs[i].params.class, rpcs[i].params.attr)

RunningInv ==
    current # NoRegistration =>
        /\ current.service \in Range(begun)
        /\ Len(current.rpcs) + Len(current.todo) = Len(ParentsRegistry(current.service))
        /\ RpcsFit(current.service, current.rpcs)
        /\ \A i \in DOMAIN current.todo : NearestFrom(current.todo[i], current.service, 1)

ListedInv ==
    \A h \in Handlers : \A i \in DOMAIN proto_services[h] :
        LET listing == proto_services[h][i]
        IN  /\ Len(listing.rpcs) = Len(ParentsRegistry(listing.service))
            /\ RpcsFit(listing.service, listing.rpcs)

NearestInv == TypeOK /\ HoldersInv /\ RunningInv /\ ListedInv

(* What a class body leaves under an attribute. *)
LEMMA BodyKinds ==
    ASSUME DeclaresOK, NEW c \in Classes, NEW a \in Attributes
    PROVE  /\ Body(c, a) = Absent <=> declares[c][a].kind \in {"none", "dynamic"}
           /\ Body(c, a) # Absent =>
                 /\ Body(c, a).name = declares[c][a].name
                 /\ Body(c, a).params # Absent =>
                       /\ declares[c][a].kind = "decorated"
                       /\ Body(c, a).params.class = c /\ Body(c, a).params.attr = a
<1> DEFINE e == declares[c][a]
           p == [class |-> c, attr |-> a, resolved |-> Nobody]
           action == [name |-> e.name, params |-> p]
           function == [name |-> e.name, params |-> Absent]
<1>1. e.kind \in {"none", "function", "decorated", "dynamic", "both"} /\ e.name \in Names
  BY DEF DeclaresOK, Declared
<1>2. Body(c, a) = CASE e.kind = "decorated" -> action
                     [] e.kind \in {"function", "both"} -> function
                     [] OTHER -> Absent
  BY DEF Body
<1> HIDE DEF e
<1>3. p \in Params
  BY DEF Params
<1>4. p # Absent /\ p.class = c /\ p.attr = a
  BY <1>3, AbsentAssumption
<1> HIDE DEF p
<1>5. action # Absent /\ function # Absent
  BY <1>1, <1>3, AbsentAssumption
<1>6. action.name = e.name /\ action.params = p /\ function.name = e.name /\ function.params = Absent
  OBVIOUS
<1> HIDE DEF action, function
<1>7. CASE e.kind = "decorated"
  BY <1>2, <1>4, <1>5, <1>6, <1>7 DEF e
<1>8. CASE e.kind \in {"function", "both"}
  BY <1>2, <1>5, <1>6, <1>8 DEF e
<1>9. CASE e.kind \in {"none", "dynamic"}
  BY <1>2, <1>9 DEF e
<1> QED
  BY <1>1, <1>7, <1>8, <1>9

(* A class in the order of c, its order and its names. *)
LEMMA InOrder ==
    ASSUME NEW c \in Classes, NEW k \in DOMAIN Mro[c]
    PROVE  /\ Mro[c] \in Seq(Classes) /\ Mro[c][k] \in Classes /\ Mro[c][k] \in Range(Mro[c])
           /\ Range(Mro[Mro[c][k]]) \subseteq Range(Mro[c])
           /\ Mro[Mro[c][k]][1] = Mro[c][k] /\ 1 \in DOMAIN Mro[Mro[c][k]]
           /\ ~Aliased(c) => ~Aliased(Mro[c][k])
<1>1. Mro[c] \in Seq(Classes) /\ Mro[c][k] \in Classes
  BY ClassesAssumption
<1>2. Mro[c][k] \in Range(Mro[c])
  BY DEF Range
<1>3. Range(Mro[Mro[c][k]]) \subseteq Range(Mro[c])
  BY <1>2, OrderAssumption
<1>4. Mro[Mro[c][k]][1] = Mro[c][k] /\ 1 \in DOMAIN Mro[Mro[c][k]]
  BY <1>1, ClassesAssumption
<1>5. ~Aliased(c) => ~Aliased(Mro[c][k])
  BY <1>3 DEF Aliased
<1> QED
  BY <1>1, <1>2, <1>3, <1>4, <1>5

(* What is passed over in the order of a parent is so in the order of c. *)
LEMMA Lifted ==
    ASSUME NEW c \in Classes, NEW k \in DOMAIN Mro[c], NEW a,
           NEW pi \in DOMAIN Mro[Mro[c][k]], NEW pj \in DOMAIN Mro[Mro[c][k]],
           PassedOver(Mro[Mro[c][k]], pi, pj, a),
           NEW i \in DOMAIN Mro[c], NEW j \in DOMAIN Mro[c],
           Mro[c][i] = Mro[Mro[c][k]][pi], Mro[c][j] = Mro[Mro[c][k]][pj]
    PROVE  PassedOver(Mro[c], i, j, a)
<1> DEFINE p == Mro[c][k]
           kind(m) == declares[Mro[p][m]][a].kind
           Hides(m) == /\ Mro[p][m] \in Range(begun) /\ Mro[p][pj] \in Range(Mro[Mro[p][m]])
                       /\ \/ pi < m /\ kind(pi) = "dynamic"
                          \/ m < pi /\ Mro[p][pi] \notin Range(Mro[Mro[p][m]])
<1>1. /\ Mro[c] \in Seq(Classes) /\ p \in Classes /\ p \in Range(Mro[c])
      /\ Range(Mro[p]) \subseteq Range(Mro[c])
      /\ Mro[p][1] = p /\ 1 \in DOMAIN Mro[p]
  BY InOrder
<1>2. Mro[p] \in Seq(Classes)
  BY <1>1, ClassesAssumption
<1>3. CASE \/ kind(pi) \in {"none", "function"}
           \/ kind(pi) = "dynamic" /\ kind(pj) = "decorated"
  BY <1>3 DEF PassedOver
<1>4. CASE \E m \in 2 .. Len(Mro[p]) : Hides(m)
  <2>1. PICK m \in 2 .. Len(Mro[p]) : Hides(m)
    BY <1>4
  <2>2. m \in DOMAIN Mro[p] /\ 1 < m
    BY <1>2
  <2>3. PICK l \in DOMAIN Mro[c] : Mro[c][l] = Mro[p][m]
    BY <1>1, <2>2 DEF Range
  <2>4. \A x, y \in DOMAIN Mro[p], u, v \in DOMAIN Mro[c] :
            Mro[p][x] = Mro[c][u] /\ Mro[p][y] = Mro[c][v] /\ x < y => u < v
    BY <1>1, OrderAssumption
  <2>5. k < l
    BY <1>1, <2>2, <2>3, <2>4
  <2>6. l \in 2 .. Len(Mro[c])
    BY <1>1, <2>5
  <2>7. (pi < m => i < l) /\ (m < pi => l < i)
    BY <2>2, <2>3, <2>4
  <2>8. /\ Mro[c][l] \in Range(begun) /\ Mro[c][j] \in Range(Mro[Mro[c][l]])
        /\ \/ i < l /\ declares[Mro[c][i]][a].kind = "dynamic"
           \/ l < i /\ Mro[c][i] \notin Range(Mro[Mro[c][l]])
    BY <2>1, <2>3, <2>7
  <2> QED
    BY <2>6, <2>8, Zenon DEF PassedOver
<1> QED
  BY <1>3, <1>4 DEF PassedOver

(* Nothing but functions between a service and the class of an entry. *)
LEMMA EntryFits ==
    ASSUME NEW s \in Classes, NEW x, NearestFrom(x, s, 1)
    PROVE  x.class \in Range(Mro[s]) /\ Fit(s, x.class, x.attr)
<1>1. Mro[s] \in Seq(Classes)
  BY ClassesAssumption
<1>2. PICK k \in 1 .. Len(Mro[s]) :
         /\ x.class = Mro[s][k]
         /\ \A i \in 1 .. k-1 : KindOf(Mro[s][i], x.attr) \in {"none", "function"}
  BY DEF NearestFrom
<1>3. k \in DOMAIN Mro[s]
  BY <1>1
<1>4. x.class \in Range(Mro[s])
  BY <1>2, <1>3 DEF Range
<1>5. ASSUME NEW j \in DOMAIN Mro[s], NEW i \in 1 .. j-1, Mro[s][j] = x.class
      PROVE  PassedOver(Mro[s], i, j, x.attr)
  <2>1. j = k
    BY <1>2, <1>3, <1>5, OrderAssumption
  <2> QED
    BY <1>2, <2>1 DEF PassedOver, KindOf
<1> QED
  BY <1>4, <1>5 DEF Fit

(* What getattr finds fits the service: the heart of the argument.             *)
LEMMA FoundFits ==
    ASSUME HoldersInv, DeclaresOK, NEW s \in Services, ~Aliased(s), NEW a \in Attributes,
           Lookup(s, a) # Absent
    PROVE  /\ Lookup(s, a).name \in Attributes => Lookup(s, a).name = a
           /\ Lookup(s, a).params # Absent =>
                 /\ Lookup(s, a).params.attr = a
                 /\ Lookup(s, a).params.class \in Range(Mro[s])
                 /\ Fit(s, Lookup(s, a).params.class, a)
<1> DEFINE holders == {i \in DOMAIN Mro[s] : a \in Names /\ attribute[Mro[s][i]][a] # Absent}
           k == CHOOSE i \in holders : \A j \in holders : i <= j
           p == Mro[s][k]
           x == attribute[p][a]
           d == x.params.class
<1>1. s \in Classes /\ Mro[s] \in Seq(Classes)
  BY ClassesAssumption
<1>2. k \in holders /\ \A j \in holders : k <= j
  <2>1. holders # {}
    <3> SUFFICES ASSUME holders = {} PROVE Lookup(s, a) = Absent
      OBVIOUS
    <3> QED
      BY DEF Lookup
  <2>2. holders \subseteq Nat
    BY <1>1
  <2> HIDE DEF holders
  <2> QED
    BY <2>1, <2>2, LeastIndex
<1>3. Lookup(s, a) = x
  BY <1>2 DEF Lookup
<1>4. k \in DOMAIN Mro[s] /\ x # Absent
  BY <1>2
<1>5. a \in Names
  BY NamesAssumption DEF Attributes, Range
<1>6. \A i \in DOMAIN Mro[s] : i < k => attribute[Mro[s][i]][a] = Absent
  <2> HIDE DEF k
  <2> SUFFICES ASSUME NEW i \in DOMAIN Mro[s], i < k, attribute[Mro[s][i]][a] # Absent PROVE FALSE
    OBVIOUS
  <2>1. i \in holders
    BY <1>5
  <2>2. k <= i /\ k \in Nat /\ i \in Nat
    BY <1>1, <1>2, <2>1
  <2> QED
    BY <2>2
<1> HIDE DEF k, holders
<1>7. /\ p \in Classes /\ p \in Range(Mro[s]) /\ ~Aliased(p)
      /\ Range(Mro[p]) \subseteq Range(Mro[s])
      /\ Mro[p][1] = p /\ 1 \in DOMAIN Mro[p] /\ Mro[p] \in Seq(Classes)
  BY <1>1, <1>4, InOrder, ClassesAssumption
<1>8. Holds(p, a, x)
  BY <1>7 DEF HoldersInv
<1>9. x.name \in Attributes => x.name = a
  BY <1>4, <1>8 DEF Holds
<1>10. ASSUME x.params # Absent
       PROVE  /\ x.params.attr = a /\ d \in Range(Mro[s]) /\ Fit(s, d, a)
  <2>1. /\ x.params.attr = a /\ d \in Range(Mro[p]) /\ Fit(p, d, a)
        /\ p \in Range(begun) \/ (d = p /\ KindOf(p, a) = "decorated")
    BY <1>4, <1>8, <1>10 DEF Holds
  <2> HIDE DEF x, d
  <2>2. ASSUME NEW j \in DOMAIN Mro[s], NEW i \in 1 .. j-1, Mro[s][j] = d
        PROVE  PassedOver(Mro[s], i, j, a)
    <3>1. i \in DOMAIN Mro[s] /\ i < j /\ k \in Nat /\ i \in Nat /\ j \in Nat
      BY <1>1, <1>4
    <3>2. PICK pj \in DOMAIN Mro[p] : Mro[p][pj] = d
      BY <2>1 DEF Range
    <3>3. CASE i < k
      <4>1. Body(Mro[s][i], a) = Absent
        <5>1. Mro[s][i] \in Classes /\ ~Aliased(Mro[s][i])
          BY <1>1, <3>1, InOrder
        <5>2. attribute[Mro[s][i]][a] = Absent
          BY <1>6, <3>1, <3>3
        <5> QED
          BY <5>1, <5>2 DEF HoldersInv, Holds
      <4>2. KindOf(Mro[s][i], a) \in {"none", "dynamic"}
        <5>1. Mro[s][i] \in Classes
          BY <1>1, <3>1
        <5> QED
          BY <4>1, <5>1, BodyKinds DEF KindOf
      <4>3. CASE p \in Range(begun)
        <5>1. k \in 2 .. Len(Mro[s])
          BY <1>1, <1>4, <3>1, <3>3
        <5> QED
          BY <2>1, <2>2, <3>3, <4>2, <4>3, <5>1 DEF PassedOver, KindOf
      <4>4. CASE d = p /\ KindOf(p, a) = "decorated"
        BY <2>2, <4>2, <4>4 DEF PassedOver, KindOf
      <4> QED
        BY <2>1, <4>3, <4>4
    <3>4. CASE i >= k /\ Mro[s][i] \in Range(Mro[p])
      <4>1. PICK pi \in DOMAIN Mro[p] : Mro[p][pi] = Mro[s][i]
        BY <3>4 DEF Range
      <4>2. pi < pj
        <5>1. pi # pj
          BY <1>1, <2>2, <3>1, <3>2, <4>1, OrderAssumption
        <5>2. ~(pj < pi)
          <6>1. \A u, v \in DOMAIN Mro[p], m, l \in DOMAIN Mro[s] :
                   Mro[p][u] = Mro[s][m] /\ Mro[p][v] = Mro[s][l] /\ u < v => m < l
            BY <1>1, <1>7, OrderAssumption
          <6> QED
            BY <2>2, <3>1, <3>2, <4>1, <6>1
        <5> QED
          BY <1>7, <5>1, <5>2
      <4>3. PassedOver(Mro[p], pi, pj, a)
        <5>1. pi \in 1 .. pj-1
          BY <1>7, <4>2
        <5> QED
          BY <2>1, <3>2, <5>1 DEF Fit
      <4> QED
        BY <1>1, <1>4, <2>2, <3>1, <3>2, <4>1, <4>3, Lifted
    <3>5. CASE i >= k /\ Mro[s][i] \notin Range(Mro[p])
      <4>1. i # k
        BY <1>7, <3>5 DEF Range
      <4>2. d # p
        BY <1>1, <1>4, <2>2, <3>1, <3>5, OrderAssumption
      <4>3. k # 1
        BY <1>1, <3>1, <3>5, ClassesAssumption DEF Range
      <4>4. k \in 2 .. Len(Mro[s]) /\ k < i
        BY <1>1, <1>4, <3>5, <3>1, <4>1, <4>3
      <4> QED
        BY <2>1, <2>2, <3>5, <4>2, <4>4 DEF PassedOver
    <3> QED
      BY <3>1, <3>3, <3>4, <3>5
  <2> QED
    BY <1>7, <2>1, <2>2 DEF Fit
<1> QED
  BY <1>3, <1>9, <1>10


(* What the next turn of register_actions registers fits its service.          *)
LEMMA NextActionFits ==
    ASSUME NearestInv, current # NoRegistration, current.todo # <<>>,
           Lookup(current.service, Head(current.todo).attr) # Absent, ~Aliased(current.service)
    PROVE  /\ Head(current.todo).attr \in Attributes
           /\ NextAction.name \in Attributes => NextAction.name = Head(current.todo).attr
           /\ NextAction.params.attr = Head(current.todo).attr
           /\ NextAction.params.class \in Range(Mro[current.service])
           /\ Fit(current.service, NextAction.params.class, NextAction.params.attr)
<1> DEFINE s == current.service
           entry == Head(current.todo)
           held == Lookup(s, entry.attr)
           action == Action(s, entry)
<1>1. TypeOK /\ DeclaresOK /\ HoldersInv /\ RunningInv
  BY DEF NearestInv, TypeOK, DeclaresOK
<1>2. current \in Running
  BY <1>1 DEF TypeOK, Running, RegisteredRpcs, Entries
<1>3. s \in Services /\ s \in Classes /\ entry \in Entries /\ entry = current.todo[1]
      /\ 1 \in DOMAIN current.todo
  BY <1>2, ClassesAssumption DEF Running
<1>4. NearestFrom(entry, s, 1)
  BY <1>1, <1>3 DEF RunningInv
<1>5. entry.class \in Range(Mro[s]) /\ Fit(s, entry.class, entry.attr)
  BY <1>3, <1>4, EntryFits
<1>6. entry.attr \in Attributes
  BY <1>3 DEF Entries
<1>7. held \in Held
  BY <1>1, <1>3, TypedLookup
<1>8. /\ held.name \in Attributes => held.name = entry.attr
      /\ held.params # Absent =>
            /\ held.params.attr = entry.attr
            /\ held.params.class \in Range(Mro[s])
            /\ Fit(s, held.params.class, entry.attr)
  BY <1>1, <1>3, <1>6, FoundFits
<1>9. NextAction = [action EXCEPT !.params = Resolve(@, s)]
  BY DEF NextAction
<1> HIDE DEF s, entry, held
<1>10. /\ action \in Rpcs /\ action.name = held.name
       /\ action.params.attr = entry.attr /\ action.params.class \in Range(Mro[s])
       /\ Fit(s, action.params.class, entry.attr)
  <2>1. CASE held.params # Absent
    <3>1. action = held
      BY <2>1 DEF Action, held
    <3>2. held \in Rpcs
      BY <1>7, <2>1 DEF Held, Rpcs
    <3> QED
      BY <1>8, <2>1, <3>1, <3>2
  <2>2. CASE held.params = Absent
    <3> DEFINE p == [class |-> entry.class, attr |-> entry.attr, resolved |-> Nobody]
    <3>1. action = [held EXCEPT !.params = p]
      BY <2>2 DEF Action, held
    <3>2. p \in Params /\ p.class = entry.class /\ p.attr = entry.attr
      BY <1>3 DEF Params, Entries
    <3> HIDE DEF p
    <3>3. action \in Rpcs /\ action.name = held.name /\ action.params = p
      BY <1>7, <3>1, <3>2 DEF Held, Rpcs
    <3> QED
      BY <1>5, <3>2, <3>3
  <2> QED
    BY <2>1, <2>2
<1> HIDE DEF action
<1>11. /\ Resolve(action.params, s).class = action.params.class
       /\ Resolve(action.params, s).attr = action.params.attr
  BY <1>10 DEF Resolve, Rpcs, Params
<1>12. NextAction.name = action.name /\ NextAction.params = Resolve(action.params, s)
  BY <1>9, <1>10 DEF Rpcs
<1> QED
  BY <1>6, <1>8, <1>10, <1>11, <1>12 DEF s, entry

(* What was passed over stays so: declarations never change, and the services  *)
(* whose registration began only grow.                                         *)
LEMMA RegistryStays == UNCHANGED declares => \A s : ParentsRegistry(s)' = ParentsRegistry(s)
  BY DEF ParentsRegistry, WithClass, Collect

LEMMA FitStays ==
    ASSUME UNCHANGED declares, Range(begun) \subseteq Range(begun')
    PROVE  /\ \A c : Aliased(c)' = Aliased(c)
           /\ \A x, s, m : NearestFrom(x, s, m)' = NearestFrom(x, s, m)
           /\ \A c, d, a : Fit(c, d, a) => Fit(c, d, a)'
           /\ \A c, a, x : Holds(c, a, x) => Holds(c, a, x)'
           /\ \A s, rpcs : RpcsFit(s, rpcs) => RpcsFit(s, rpcs)'
<1>1. \A c : Aliased(c)' = Aliased(c)
  BY DEF Aliased
<1>2. \A x, s, m : NearestFrom(x, s, m)' = NearestFrom(x, s, m)
  BY DEF NearestFrom, KindOf
<1>3. \A order, i, j, a : PassedOver(order, i, j, a) => PassedOver(order, i, j, a)'
  BY DEF PassedOver
<1>4. \A c, d, a : Fit(c, d, a) => Fit(c, d, a)'
  BY <1>3 DEF Fit
<1>5. \A c, a, x : Holds(c, a, x) => Holds(c, a, x)'
  <2>1. \A c, a : Body(c, a)' = Body(c, a) /\ KindOf(c, a)' = KindOf(c, a)
    BY DEF Body, KindOf
  <2> QED
    BY <1>4, <2>1 DEF Holds
<1>6. \A s, rpcs : RpcsFit(s, rpcs) => RpcsFit(s, rpcs)'
  BY <1>1, <1>4 DEF RpcsFit
<1> QED
  BY <1>1, <1>2, <1>4, <1>5, <1>6

LEMMA InitNearest == Init => NearestInv
<1> SUFFICES ASSUME Init PROVE NearestInv
  OBVIOUS
<1>1. TypeOK /\ DeclaresOK
  BY InitTyped DEF TypeOK, DeclaresOK
<1>2. ASSUME NEW c \in Classes, ~Aliased(c), NEW a \in Attributes
      PROVE  Holds(c, a, attribute[c][a])
  <2> DEFINE x == attribute[c][a]
  <2>1. x = Body(c, a)
    BY NamesAssumption DEF Init, Attributes, Range
  <2>2. /\ x = Absent <=> declares[c][a].kind \in {"none", "dynamic"}
        /\ x # Absent =>
              /\ x.name = declares[c][a].name
              /\ x.params # Absent =>
                    declares[c][a].kind = "decorated" /\ x.params.class = c /\ x.params.attr = a
    BY <1>1, <2>1, BodyKinds
  <2> HIDE DEF x
  <2>3. /\ Mro[c] \in Seq(Classes) /\ 1 \in DOMAIN Mro[c] /\ Mro[c][1] = c
    BY ClassesAssumption
  <2>4. c \in Range(Mro[c])
    BY <2>3 DEF Range
  <2>5. x # Absent /\ x.name \in Attributes => x.name = a
    <3>1. x # Absent => declares[c][a].kind \in {"function", "decorated", "both"}
      BY <1>1, <2>2 DEF DeclaresOK, Declared
    <3> QED
      BY <1>2, <2>2, <2>4, <3>1 DEF Aliased
  <2>6. Fit(c, c, a)
    <3>1. \A j \in DOMAIN Mro[c] : Mro[c][j] = c => j = 1
      BY <2>3, OrderAssumption
    <3> QED
      BY <3>1 DEF Fit
  <2> QED
    BY <2>1, <2>2, <2>4, <2>5, <2>6 DEF Holds, KindOf, x
<1>3. HoldersInv
  BY <1>2 DEF HoldersInv
<1>4. RunningInv /\ ListedInv
  BY DEF Init, RunningInv, ListedInv
<1> QED
  BY <1>1, <1>3, <1>4 DEF NearestInv

LEMMA CreateNearest == \A h \in Handlers : NearestInv /\ TypeOK' /\ CreateHandler(h) => NearestInv'
<1> SUFFICES ASSUME NEW h \in Handlers, NearestInv, TypeOK', CreateHandler(h) PROVE NearestInv'
  OBVIOUS
<1>1. UNCHANGED <<declares, attribute, proto_services, current, begun>>
  BY DEF CreateHandler
<1>2. \A s : ParentsRegistry(s)' = ParentsRegistry(s)
  BY <1>1, RegistryStays
<1>3. HoldersInv'
  BY <1>1, FitStays DEF NearestInv, HoldersInv
<1>4. RunningInv'
  BY <1>1, <1>2, FitStays DEF NearestInv, RunningInv
<1>5. ListedInv'
  BY <1>1, <1>2, FitStays DEF NearestInv, ListedInv
<1> QED
  BY <1>3, <1>4, <1>5 DEF NearestInv

LEMMA BeginNearest ==
    \A h \in Handlers, s \in Services :
        NearestInv /\ TypeOK' /\ BeginRegister(h, s) => NearestInv'
<1> SUFFICES ASSUME NEW h \in Handlers, NEW s \in Services, NearestInv, TypeOK',
                    BeginRegister(h, s)
             PROVE  NearestInv'
  OBVIOUS
<1>1. /\ UNCHANGED <<declares, attribute, proto_services>> /\ begun' = Append(begun, s)
      /\ current' = [handler |-> h, service |-> s, todo |-> ParentsRegistry(s), rpcs |-> <<>>]
  BY DEF BeginRegister
<1>2. begun \in Seq(Services) /\ DeclaresOK
  BY DEF NearestInv, TypeOK, DeclaresOK
<1>3. Range(begun') = Range(begun) \cup {s}
  BY <1>1, <1>2 DEF Range
<1>4. \A r : ParentsRegistry(r)' = ParentsRegistry(r)
  BY <1>1, RegistryStays
<1>5. HoldersInv'
  BY <1>1, <1>3, FitStays DEF NearestInv, HoldersInv
<1>6. ListedInv'
  BY <1>1, <1>3, <1>4, FitStays DEF NearestInv, ListedInv
<1>7. RunningInv'
  <2> PICK todo : todo = ParentsRegistry(s)
    OBVIOUS
  <2>1. todo \in Seq(Entries) /\ \A x \in Range(todo) : NearestFrom(x, s, 1)
    BY <1>2, ClassesAssumption, RegistryFacts
  <2>2. current'.service = s /\ current'.todo = todo /\ current'.rpcs = <<>>
    BY <1>1
  <2>3. ParentsRegistry(s)' = todo
    BY <1>4
  <2>4. Len(<<>>) + Len(todo) = Len(todo)
    BY <2>1
  <2>5. \A i \in DOMAIN todo : NearestFrom(todo[i], s, 1)'
    <3>1. \A i \in DOMAIN todo : NearestFrom(todo[i], s, 1)
      BY <2>1 DEF Range
    <3>2. \A x : NearestFrom(x, s, 1)' = NearestFrom(x, s, 1)
      BY <1>1, <1>3, FitStays
    <3> QED
      BY <3>1, <3>2
  <2>6. RpcsFit(s, <<>>)'
    BY DEF RpcsFit
  <2>7. s \in Range(begun')
    BY <1>3
  <2> QED
    BY <2>2, <2>3, <2>4, <2>5, <2>6, <2>7 DEF RunningInv
<1> QED
  BY <1>5, <1>6, <1>7 DEF NearestInv


LEMMA RegisterNearest ==
    \A buildable : NearestInv /\ TypeOK' /\ RegisterAction(buildable) => NearestInv'
<1> SUFFICES ASSUME NEW buildable, NearestInv, TypeOK', RegisterAction(buildable) PROVE NearestInv'
  OBVIOUS
<1>1. UNCHANGED <<declares, proto_services, begun>> /\ current # NoRegistration
      /\ current.todo # <<>>
  BY DEF RegisterAction
<1>2. \A r : ParentsRegistry(r)' = ParentsRegistry(r)
  BY <1>1, RegistryStays
<1>3. ListedInv'
  BY <1>1, <1>2, FitStays DEF NearestInv, ListedInv
<1>4. CASE current' = NoRegistration /\ UNCHANGED attribute
  <2>1. HoldersInv'
    BY <1>1, <1>4, FitStays DEF NearestInv, HoldersInv
  <2>2. RunningInv'
    BY <1>4 DEF RunningInv
  <2> QED
    BY <1>3, <2>1, <2>2 DEF NearestInv
<1>5. CASE /\ Lookup(current.service, Head(current.todo).attr) # Absent
           /\ ~\E i \in DOMAIN current.rpcs : current.rpcs[i].name = NextAction.name
           /\ attribute' = Written(current.service, NextAction)
           /\ current' = [current EXCEPT !.todo = Tail(@), !.rpcs = Append(@, NextAction)]
  <2> PICK s, x, todo, rpcs, attr, n :
         /\ s = current.service /\ x = NextAction /\ todo = current.todo /\ rpcs = current.rpcs
         /\ attr = Head(current.todo).attr
         /\ n = Len(ParentsRegistry(current.service))
    OBVIOUS
  <2>1. x \in Rpcs
    BY <1>1, <1>5, TypedAction DEF NearestInv
  <2>2. current \in Running
    BY <1>1 DEF NearestInv, TypeOK, Running, RegisteredRpcs, Entries
  <2>3. s \in Services /\ s \in Classes /\ todo \in Seq(Entries) /\ rpcs \in Seq(Rpcs) /\ todo # <<>>
    BY <1>1, <2>2, ClassesAssumption DEF Running, RegisteredRpcs
  <2>4. /\ current' = [handler |-> current.handler, service |-> s,
                       todo |-> Tail(todo), rpcs |-> Append(rpcs, x)]
        /\ attribute' = [attribute EXCEPT ![s][x.name] = x]
    BY <1>5, <2>2 DEF Running, Written
  <2>5. /\ s \in Range(begun) /\ Len(rpcs) + Len(todo) = n /\ RpcsFit(s, rpcs)
        /\ \A i \in DOMAIN todo : NearestFrom(todo[i], s, 1)
    BY <1>1 DEF NearestInv, RunningInv
  <2>6. ~Aliased(s) =>
           /\ x.name \in Attributes => x.name = attr
           /\ attr \in Attributes
           /\ x.params.attr = attr /\ x.params.class \in Range(Mro[s])
           /\ Fit(s, x.params.class, x.params.attr)
    BY <1>1, <1>5, NextActionFits
  <2>7. \A i \in DOMAIN rpcs : rpcs[i].name # x.name
    BY <1>5
  <2>8. x # Absent
    BY <2>1, AbsentAssumption DEF Rpcs
  <2>9. HoldersInv'
    <3>1. ASSUME NEW c \in Classes, ~Aliased(c), NEW a \in Attributes
          PROVE  Holds(c, a, attribute'[c][a])
      <4>1. a \in Names
        BY NamesAssumption DEF Attributes, Range
      <4>2. CASE c = s /\ a = x.name
        <5>1. attribute'[c][a] = x
          BY <2>3, <2>4, <4>1, <4>2 DEF NearestInv, TypeOK
        <5>2. x.params.attr = a /\ x.params.class \in Range(Mro[c]) /\ Fit(c, x.params.class, a)
          BY <2>6, <3>1, <4>2
        <5> QED
          BY <2>5, <2>8, <4>2, <5>1, <5>2 DEF Holds
      <4>3. CASE ~(c = s /\ a = x.name)
        <5>1. attribute'[c][a] = attribute[c][a]
          BY <2>3, <2>4, <4>1, <4>3 DEF NearestInv, TypeOK
        <5> QED
          BY <3>1, <5>1 DEF NearestInv, HoldersInv
      <4> QED
        BY <4>2, <4>3
    <3>2. ASSUME NEW c \in Classes, ~Aliased(c)', NEW a \in Attributes
          PROVE  Holds(c, a, attribute[c][a])'
      <4> PICK y : y = attribute'[c][a]
        OBVIOUS
      <4>1. Holds(c, a, y)
        BY <1>1, <3>1, <3>2, FitStays
      <4>2. Holds(c, a, y)'
        BY <1>1, <4>1, FitStays
      <4> QED
        BY <4>2
    <3> QED
      BY <3>2 DEF HoldersInv
  <2>10. RunningInv'
    <3>1. Len(Append(rpcs, x)) + Len(Tail(todo)) = n
      <4>1. Len(Append(rpcs, x)) = Len(rpcs) + 1 /\ Len(rpcs) \in Nat
        BY <2>3
      <4>2. Len(Tail(todo)) = Len(todo) - 1 /\ Len(todo) \in Nat
        BY <2>3
      <4>3. \A p, q \in Nat : (p + 1) + (q - 1) = p + q
        OBVIOUS
      <4>4. Len(Append(rpcs, x)) + Len(Tail(todo)) = Len(rpcs) + Len(todo)
        BY <4>1, <4>2, <4>3
      <4> QED
        BY <2>5, <4>4
    <3>2. RpcsFit(s, Append(rpcs, x))
      <4>1. \A i \in DOMAIN Append(rpcs, x) :
               \/ i \in DOMAIN rpcs /\ Append(rpcs, x)[i] = rpcs[i]
               \/ i = Len(rpcs) + 1 /\ Append(rpcs, x)[i] = x
        BY <2>3
      <4>2. \A i, j \in DOMAIN rpcs : rpcs[i].name = rpcs[j].name => i = j
        BY <2>5 DEF RpcsFit
      <4>3. \A i, j \in DOMAIN Append(rpcs, x) :
               Append(rpcs, x)[i].name = Append(rpcs, x)[j].name => i = j
        BY <2>7, <4>1, <4>2
      <4>4. ~Aliased(s) => \A i \in DOMAIN Append(rpcs, x) :
               Fit(s, Append(rpcs, x)[i].params.class, Append(rpcs, x)[i].params.attr)
        BY <2>5, <2>6, <4>1 DEF RpcsFit
      <4> QED
        BY <4>3, <4>4 DEF RpcsFit
    <3>3. RpcsFit(s, Append(rpcs, x))'
      BY <1>1, <3>2, FitStays
    <3>4. \A i \in DOMAIN Tail(todo) : NearestFrom(Tail(todo)[i], s, 1)
      <4>1. \A i \in DOMAIN Tail(todo) : i + 1 \in DOMAIN todo /\ Tail(todo)[i] = todo[i + 1]
        BY <2>3
      <4> QED
        BY <2>5, <4>1
    <3>5. \A i \in DOMAIN Tail(todo) : NearestFrom(Tail(todo)[i], s, 1)'
      BY <1>1, <3>4, FitStays
    <3>6. n = Len(ParentsRegistry(s)')
      BY <1>2
    <3>7. /\ current'.service = s /\ current'.todo = Tail(todo)
          /\ current'.rpcs = Append(rpcs, x)
      BY <2>4
    <3> QED
      BY <1>1, <2>5, <3>1, <3>3, <3>5, <3>6, <3>7 DEF RunningInv
  <2> QED
    BY <1>3, <2>9, <2>10 DEF NearestInv
<1> QED
  BY <1>4, <1>5 DEF RegisterAction

LEMMA EndNearest ==
    \A known : NearestInv /\ TypeOK' /\ EndRegister(known) => NearestInv'
<1> SUFFICES ASSUME NEW known, NearestInv, TypeOK', EndRegister(known) PROVE NearestInv'
  OBVIOUS
<1> PICK listing, handler :
       listing = [service |-> current.service, rpcs |-> current.rpcs] /\ handler = current.handler
  OBVIOUS
<1>1. /\ UNCHANGED <<declares, attribute, begun>> /\ current' = NoRegistration
      /\ proto_services' = [proto_services EXCEPT ![handler] = Append(@, listing)]
  BY DEF EndRegister
<1>2. \A r : ParentsRegistry(r)' = ParentsRegistry(r)
  BY <1>1, RegistryStays
<1>3. /\ Len(listing.rpcs) = Len(ParentsRegistry(listing.service))
      /\ RpcsFit(listing.service, listing.rpcs)
  <2>1. current # NoRegistration /\ current.todo = <<>>
    BY DEF EndRegister
  <2>2. current.rpcs \in Seq(Rpcs)
    BY <2>1 DEF NearestInv, TypeOK
  <2>3. Len(current.rpcs) + Len(<<>>) = Len(ParentsRegistry(current.service))
        /\ RpcsFit(current.service, current.rpcs)
    BY <2>1 DEF NearestInv, RunningInv
  <2>4. Len(current.rpcs) \in Nat /\ Len(<<>>) = 0
    BY <2>2
  <2> QED
    BY <2>3, <2>4
<1>4. HoldersInv'
  BY <1>1, FitStays DEF NearestInv, HoldersInv
<1>5. RunningInv'
  BY <1>1 DEF RunningInv
<1>6. ASSUME NEW h \in Handlers, NEW i \in DOMAIN proto_services'[h]
      PROVE  LET l == proto_services'[h][i]
             IN  Len(l.rpcs) = Len(ParentsRegistry(l.service)) /\ RpcsFit(l.service, l.rpcs)
  <2> DEFINE q == proto_services[h]
  <2>1. \E S : q \in Seq(S)
    BY DEF NearestInv, TypeOK
  <2>2. proto_services'[h] = q \/ proto_services'[h] = Append(q, listing)
    BY <1>1 DEF NearestInv, TypeOK
  <2>3. \A j \in DOMAIN q : /\ Len(q[j].rpcs) = Len(ParentsRegistry(q[j].service))
                            /\ RpcsFit(q[j].service, q[j].rpcs)
    BY DEF NearestInv, ListedInv
  <2> HIDE DEF q
  <2>4. \A j \in DOMAIN Append(q, listing) :
           (j \in DOMAIN q /\ Append(q, listing)[j] = q[j]) \/ Append(q, listing)[j] = listing
    BY <2>1, AppendSeq
  <2> QED
    BY <1>3, <2>2, <2>3, <2>4
<1>7. ListedInv'
  <2>1. \A l : /\ Len(l.rpcs) = Len(ParentsRegistry(l.service))
               /\ RpcsFit(l.service, l.rpcs)
               => /\ Len(l.rpcs) = Len(ParentsRegistry(l.service)')
                  /\ RpcsFit(l.service, l.rpcs)'
    BY <1>1, <1>2, FitStays
  <2>2. ASSUME NEW h \in Handlers, NEW i \in DOMAIN proto_services'[h]
        PROVE  (LET l == proto_services[h][i]
                IN  Len(l.rpcs) = Len(ParentsRegistry(l.service)) /\ RpcsFit(l.service, l.rpcs))'
    <3> PICK l : l = proto_services'[h][i]
      OBVIOUS
    <3>1. Len(l.rpcs) = Len(ParentsRegistry(l.service)') /\ RpcsFit(l.service, l.rpcs)'
      BY <1>6, <2>1
    <3> QED
      BY <3>1
  <2> QED
    BY <2>2 DEF ListedInv
<1> QED
  BY <1>4, <1>5, <1>7 DEF NearestInv

LEMMA NextNearest ==
    NearestInv /\ [\E buildable \in BOOLEAN : RegistryNext(buildable)]_rvars => NearestInv'
<1> SUFFICES ASSUME NearestInv, [\E buildable \in BOOLEAN : RegistryNext(buildable)]_rvars
             PROVE  NearestInv'
  OBVIOUS
<1>1. TypeOK'
  BY NextTyped DEF NearestInv
<1>2. CASE \E buildable \in BOOLEAN : RegistryNext(buildable)
  BY <1>1, <1>2, CreateNearest, BeginNearest, RegisterNearest, EndNearest DEF RegistryNext
<1>3. CASE UNCHANGED rvars
  <2>1. UNCHANGED <<declares, attribute, proto_services, current, begun>>
    BY <1>3 DEF rvars
  <2>2. \A s : ParentsRegistry(s)' = ParentsRegistry(s)
    BY <2>1, RegistryStays
  <2>3. HoldersInv'
    BY <2>1, FitStays DEF NearestInv, HoldersInv
  <2>4. RunningInv'
    BY <2>1, <2>2, FitStays DEF NearestInv, RunningInv
  <2>5. ListedInv'
    BY <2>1, <2>2, FitStays DEF NearestInv, ListedInv
  <2> QED
    BY <1>1, <2>3, <2>4, <2>5 DEF NearestInv
<1> QED
  BY <1>2, <1>3

(* A listed service has one RPC per action of its registry, under distinct     *)
(* names, each as the nearest class declares it: but where a function has the  *)
(* name of another attribute, or a parent registered before hides the override *)
(* of a class it does not inherit from (actions.py:247, 318-331).              *)
THEOREM NearestWins == Spec => []NearestDeclares
<1>1. NearestInv => NearestDeclares
  <2> SUFFICES ASSUME NearestInv, NEW h \in Handlers, NEW listing \in Listings(h)
               PROVE  /\ Len(listing.rpcs) = Len(ParentsRegistry(listing.service))
                      /\ RpcsFit(listing.service, listing.rpcs)
    BY DEF NearestDeclares, RpcsFit, Fit, Range
  <2> QED
    BY DEF NearestInv, ListedInv, Listings
<1> QED
  BY <1>1, InitNearest, NextNearest, PTL DEF Spec
--------------------------------------------------------------------------------
(* The command: a step of the generation is a step of the registration, or     *)
(* leaves it alone.                                                            *)

LEMMA RegisterEither ==
    ASSUME NEW b, RegisterAction(b) PROVE \E c \in BOOLEAN : RegisterAction(c)
<1>1. CASE b
  <2>1. RegisterAction(TRUE)
    BY <1>1 DEF RegisterAction
  <2> QED
    BY <2>1
<1>2. CASE ~b
  <2>1. RegisterAction(FALSE)
    BY <1>2 DEF RegisterAction
  <2> QED
    BY <2>1
<1> QED
  BY <1>1, <1>2

LEMMA CommandKeepsRegistry ==
    ASSUME \/ \E mode \in {"check", "write"} : StartCommand(mode)
           \/ \E raises \in BOOLEAN : CheckApp(raises) \/ WriteApp(raises)
    PROVE  UNCHANGED rvars /\ UNCHANGED config
  BY DEF StartCommand, CheckApp, WriteApp

LEMMA NextRegisters ==
    ASSUME [Next]_vars PROVE [\E buildable \in BOOLEAN : RegistryNext(buildable)]_rvars
<1>1. CASE UNCHANGED vars
  BY <1>1 DEF vars
<1>2. CASE Next
  <2>1. CASE RegistryNext(Lookup(current.service, Head(current.todo).attr) # Absent
                          /\ Key(NextAction, current.service) \in DOMAIN ProtoRpcs)
    <3>1. CASE \/ \E h \in Handlers : CreateHandler(h)
               \/ \E h \in Handlers, s \in Services : BeginRegister(h, s)
               \/ \E known \in BOOLEAN : EndRegister(known)
      <4>1. RegistryNext(TRUE)
        BY <3>1 DEF RegistryNext
      <4> QED
        BY <4>1
    <3>2. CASE RegisterAction(Lookup(current.service, Head(current.todo).attr) # Absent
                              /\ Key(NextAction, current.service) \in DOMAIN ProtoRpcs)
      <4>1. PICK c \in BOOLEAN : RegisterAction(c)
        BY <3>2, RegisterEither
      <4>2. RegistryNext(c)
        BY <4>1 DEF RegistryNext
      <4> QED
        BY <4>2
    <3> QED
      BY <2>1, <3>1, <3>2 DEF RegistryNext
  <2>2. CASE \/ \E mode \in {"check", "write"} : StartCommand(mode)
             \/ \E raises \in BOOLEAN : CheckApp(raises) \/ WriteApp(raises)
    BY <2>2, CommandKeepsRegistry
  <2> QED
    BY <1>2, <2>1, <2>2 DEF Next
<1> QED
  BY <1>1, <1>2

THEOREM Registers == GenerationSpec => Spec
<1>1. GenerationInit => Init
  BY DEF GenerationInit
<1>2. [Next]_vars => [\E buildable \in BOOLEAN : RegistryNext(buildable)]_rvars
  BY NextRegisters
<1> QED
  BY <1>1, <1>2, PTL DEF GenerationSpec, Spec

(* The command registers nothing, so what the runs check of the registration   *)
(* holds whatever commands run in between: types, RPCs resolved for their      *)
(* family, the nearest declaration.                                            *)
THEOREM RegistrationHolds ==
    GenerationSpec => [](TypeOK /\ ResolvedInFamily /\ NearestDeclares)
  BY Registers, RegistryTyped, OwnPlaceholders, NearestWins, PTL
--------------------------------------------------------------------------------
(* What Select keeps: a loop over the sequence. *)
SelectTurns(f, seq, S) ==
    f = [i \in 0 .. Len(seq) |->
            IF i = 0 THEN <<>>
            ELSE IF seq[i] \in S THEN Append(f[i - 1], seq[i]) ELSE f[i - 1]]

LEMMA SelectRuns ==
    ASSUME NEW T, NEW seq \in Seq(T), NEW S
    PROVE  \E f : SelectTurns(f, seq, S)
<1> DEFINE N == Len(seq)
           Q == Seq(T)
           Turn(i, y) == IF seq[i] \in S THEN Append(y, seq[i]) ELSE y
           F == [i \in 1 .. N |-> [y \in Q |-> Turn(i, y)]]
<1>1. N \in Nat /\ <<>> \in Q
  OBVIOUS
<1>2. \A i \in 1 .. N, y \in Q : Turn(i, y) \in Q
  OBVIOUS
<1>3. F \in [1 .. N -> [Q -> Q]] /\ \A i \in 1 .. N, y \in Q : F[i][y] = Turn(i, y)
  BY <1>2
<1> HIDE DEF N, F, Turn, Q
<1>4. PICK f : f \in [0 .. N -> Q] /\ f[0] = <<>> /\ \A i \in 1 .. N : f[i] = F[i][f[i - 1]]
  <2>1. PICK f : LoopRun(f, N, Q, <<>>, F)
    BY <1>1, <1>3, LoopRuns
  <2> QED
    BY <2>1, Zenon DEF LoopRun
<1>5. ASSUME NEW i \in 0 .. N PROVE f[i] = IF i = 0 THEN <<>> ELSE Turn(i, f[i - 1])
  <2>1. i # 0 => i \in 1 .. N /\ i - 1 \in 0 .. N
    BY <1>1
  <2> QED
    BY <1>3, <1>4, <2>1
<1>6. f = [i \in 0 .. N |-> IF i = 0 THEN <<>> ELSE Turn(i, f[i - 1])]
  <2>1. f = [i \in 0 .. N |-> f[i]]
    BY <1>4
  <2> QED
    BY <1>5, <2>1
<1>7. SelectTurns(f, seq, S)
  BY <1>6, Zenon DEF SelectTurns, Turn, N
<1> QED
  BY <1>7

LEMMA SelectFacts ==
    ASSUME NEW T, NEW seq \in Seq(T), NEW S
    PROVE  Select(seq, S) \in Seq(T) /\ Range(Select(seq, S)) = Range(seq) \cap S
<1> DEFINE N == Len(seq)
           turn == CHOOSE f : SelectTurns(f, seq, S)
           upTo(i) == {x \in S : \E j \in 1 .. i : seq[j] = x}
<1>1. N \in Nat /\ \A i \in 1 .. N : seq[i] \in T
  OBVIOUS
<1>2. SelectTurns(turn, seq, S)
  BY SelectRuns, Zenon
<1>3. Select(seq, S) = turn[N]
  BY DEF Select, SelectTurns
<1>4. /\ turn[0] = <<>>
      /\ \A i \in 1 .. N : turn[i] = IF seq[i] \in S THEN Append(turn[i - 1], seq[i]) ELSE turn[i - 1]
  <2>1. \A i \in 0 .. N : turn[i] = IF i = 0 THEN <<>>
                                    ELSE IF seq[i] \in S THEN Append(turn[i - 1], seq[i])
                                    ELSE turn[i - 1]
    <3> HIDE DEF turn
    <3> QED
      BY <1>2, Zenon DEF SelectTurns
  <2>2. 0 \in 0 .. N /\ \A i \in 1 .. N : i \in 0 .. N /\ i # 0
    BY <1>1
  <2> HIDE DEF turn
  <2> QED
    BY <2>1, <2>2, Zenon
<1> DEFINE U == {i \in 0 .. N : turn[i] \in Seq(T) /\ Range(turn[i]) = upTo(i)}
<1> HIDE DEF turn
<1>5. 0 \in U
  <2>1. Range(turn[0]) = upTo(0)
    BY <1>4 DEF Range
  <2>2. turn[0] \in Seq(T) /\ 0 \in 0 .. N
    BY <1>1, <1>4
  <2> QED
    BY <2>1, <2>2, Zenon
<1>6. ASSUME NEW i \in 1 .. N, i - 1 \in U PROVE i \in U
  <2>1. turn[i - 1] \in Seq(T) /\ Range(turn[i - 1]) = upTo(i - 1)
    BY <1>6
  <2>2. upTo(i) = IF seq[i] \in S THEN upTo(i - 1) \cup {seq[i]} ELSE upTo(i - 1)
    BY <1>1
  <2>3. \A q \in Seq(T), x \in T : Append(q, x) \in Seq(T) /\ Range(Append(q, x)) = Range(q) \cup {x}
    <3> TAKE q \in Seq(T), x \in T
    <3>1. DOMAIN q = 1 .. Len(q) /\ Len(q) \in Nat
      OBVIOUS
    <3>2. DOMAIN Append(q, x) = 1 .. Len(q) + 1 /\ Append(q, x)[Len(q) + 1] = x
          /\ \A j \in 1 .. Len(q) : Append(q, x)[j] = q[j]
      OBVIOUS
    <3> QED
      BY <3>1, <3>2 DEF Range
  <2>4. seq[i] \in T /\ i \in 0 .. N
    BY <1>1
  <2>5. turn[i] = IF seq[i] \in S THEN Append(turn[i - 1], seq[i]) ELSE turn[i - 1]
    BY <1>4
  <2> HIDE DEF upTo
  <2>6. turn[i] \in Seq(T) /\ Range(turn[i]) = upTo(i)
    BY <2>1, <2>2, <2>3, <2>4, <2>5
  <2> QED
    BY <2>4, <2>6, Zenon
<1> HIDE DEF U
<1>7. N \in U
  <2>1. \A i \in 0 .. N : i \in U
    BY <1>1, <1>5, <1>6, InductionUpTo
  <2> QED
    BY <1>1, <2>1
<1>8. upTo(N) = Range(seq) \cap S
  BY DEF Range
<1> QED
  BY <1>3, <1>7, <1>8 DEF U
--------------------------------------------------------------------------------
(* What a check covers. *)

(* What a running command knows: the protos of every registered application,   *)
(* and, when it checks, that the files it is done with are these protos.       *)
Registered == {a \in Apps : registered_apps[a] # Nobody}

JobInv ==
    job # NoJob =>
        /\ job = [mode |-> job.mode, todo |-> job.todo, protos |-> job.protos]
        /\ job.todo \in Seq(Apps) /\ job.todo # <<>>
        /\ DOMAIN job.protos = Registered
        /\ \A a \in Registered : job.protos[a] = Proto(registered_apps[a])
        /\ job.mode = "check" =>
              \A a \in Registered : a \in Range(job.todo) \/ file[a] = job.protos[a]

LEMMA ProtoStays ==
    UNCHANGED <<config, proto_services>> => \A h : Proto(h)' = Proto(h)
  BY DEF Proto, FileOf, AllMessages, ServiceMessages, Key, MapEach

LEMMA TailFacts ==
    ASSUME NEW T, NEW q \in Seq(T), q # <<>>
    PROVE  Tail(q) \in Seq(T) /\ Range(q) = Range(Tail(q)) \cup {Head(q)} /\ Head(q) \in T
<1>1. /\ DOMAIN q = 1 .. Len(q) /\ Len(q) \in Nat \ {0} /\ Head(q) = q[1] /\ Tail(q) \in Seq(T)
      /\ DOMAIN Tail(q) = 1 .. Len(q) - 1 /\ \A j \in 1 .. Len(q) - 1 : Tail(q)[j] = q[j + 1]
  OBVIOUS
<1>2. \A i \in 1 .. Len(q) : i = 1 \/ (i - 1 \in 1 .. Len(q) - 1 /\ q[i] = Tail(q)[i - 1])
  BY <1>1
<1>3. \A j \in 1 .. Len(q) - 1 : j + 1 \in 1 .. Len(q)
  BY <1>1
<1>4. 1 \in 1 .. Len(q)
  BY <1>1
<1> QED
  BY <1>1, <1>2, <1>3, <1>4 DEF Range

LEMMA StartJob == ASSUME NEW mode, StartCommand(mode) PROVE JobInv'
<1> DEFINE todo == Select(AppOrder, Registered)
<1>1. todo \in Seq(Apps) /\ Range(todo) = Registered
  BY AppOrderAssumption, SelectFacts DEF Registered
<1>2. UNCHANGED <<config, proto_services, registered_apps>>
  BY DEF StartCommand, rvars
<1>3. job' = NoJob \/
      (todo # <<>> /\
       job' = [mode |-> mode, todo |-> todo,
               protos |-> [a \in Range(todo) |-> Proto(registered_apps[a])]])
  BY Zenon DEF StartCommand, Registered
<1>4. Registered' = Registered
  BY <1>2 DEF Registered
<1> HIDE DEF todo
<1>5. CASE job' = NoJob
  BY <1>5 DEF JobInv, NoJob
<1>6. CASE todo # <<>> /\ job' = [mode |-> mode, todo |-> todo,
                                  protos |-> [a \in Range(todo) |-> Proto(registered_apps[a])]]
  <2>1. \A a \in Registered : job'.protos[a] = Proto(registered_apps[a])'
    BY <1>1, <1>2, <1>6, ProtoStays
  <2> QED
    BY <1>1, <1>4, <1>6, <2>1 DEF JobInv
<1> QED
  BY <1>3, <1>5, <1>6

LEMMA StepJob == JobInv /\ [Next]_vars => JobInv'
<1> SUFFICES ASSUME JobInv, [Next]_vars PROVE JobInv'
  OBVIOUS
<1>1. CASE UNCHANGED gvars /\ (job = NoJob \/ UNCHANGED rvars)
  <2>1. CASE job = NoJob
    BY <1>1, <2>1 DEF JobInv, gvars, NoJob
  <2>2. CASE UNCHANGED rvars
    <3>1. Registered' = Registered /\ UNCHANGED <<config, proto_services, registered_apps, job, file>>
      BY <1>1, <2>2 DEF rvars, gvars, Registered
    <3> QED
      BY <3>1, ProtoStays DEF JobInv, NoJob
  <2> QED
    BY <1>1, <2>1, <2>2
<1>2. ASSUME NEW raises \in BOOLEAN, CheckApp(raises) \/ WriteApp(raises), job # NoJob PROVE JobInv'
  <2>1. Registered' = Registered /\ UNCHANGED <<config, proto_services, registered_apps>>
    BY <1>2 DEF CheckApp, WriteApp, rvars, Registered
  <2>2. job' = NoJob \/ (job' = [job EXCEPT !.todo = Tail(@)] /\ Tail(job.todo) # <<>>)
    BY <1>2 DEF CheckApp, WriteApp
  <2>3. CASE job' = NoJob
    BY <2>3 DEF JobInv, NoJob
  <2>4. CASE job' = [job EXCEPT !.todo = Tail(@)] /\ Tail(job.todo) # <<>> /\ job' # NoJob
    <3>1. job' = [mode |-> job.mode, todo |-> Tail(job.todo), protos |-> job.protos]
      BY <1>2, <2>4 DEF JobInv
    <3>2. /\ Tail(job.todo) \in Seq(Apps)
          /\ Range(job.todo) = Range(Tail(job.todo)) \cup {Head(job.todo)}
      BY <1>2, TailFacts DEF JobInv
    <3>3. job.mode = "check" =>
             \A a \in Registered : a \in Range(Tail(job.todo)) \/ file'[a] = job.protos[a]
      <4>1. job.mode = "check" => file' = file /\ file[Head(job.todo)] = job.protos[Head(job.todo)]
        <5>1. ASSUME job.mode = "check" PROVE CheckApp(raises)
          BY <1>2, <5>1 DEF WriteApp
        <5> QED
          BY <2>4, <5>1 DEF CheckApp
      <4> QED
        BY <1>2, <3>2, <4>1 DEF JobInv
    <3> QED
      BY <1>2, <2>1, <2>4, <3>1, <3>2, <3>3, ProtoStays DEF JobInv
  <2> QED
    BY <2>2, <2>3, <2>4
<1>3. ASSUME NEW raises \in BOOLEAN, CheckApp(raises) \/ WriteApp(raises) PROVE job # NoJob
  BY <1>3 DEF CheckApp, WriteApp, NoJob
<1> QED
  BY <1>1, <1>2, <1>3, StartJob DEF Next, vars

(* A check that ends well was at its last application, with a file that is its *)
(* proto, and so were the files before it.                                     *)
LEMMA CheckedAll ==
    ASSUME JobInv, [Next]_vars, checked' # checked, checked' # <<>>,
           NEW a \in Apps, registered_apps[a] # Nobody
    PROVE  file[a] = Proto(registered_apps[a])
<1>1. PICK raises \in BOOLEAN : CheckApp(raises)
  BY DEF Next, vars, gvars, StartCommand, WriteApp
<1>2. /\ job # NoJob /\ job.mode = "check" /\ Tail(job.todo) = <<>>
      /\ file[Head(job.todo)] = job.protos[Head(job.todo)]
  BY <1>1 DEF CheckApp, NoJob
<1>3. job.todo \in Seq(Apps) /\ job.todo # <<>> /\ a \in Registered
  BY <1>2 DEF JobInv, Registered
<1>4. Range(job.todo) = Range(Tail(job.todo)) \cup {Head(job.todo)}
  BY <1>3, TailFacts
<1>5. Range(job.todo) = {Head(job.todo)}
  <2>1. \A i \in DOMAIN <<>> : FALSE
    OBVIOUS
  <2>2. Range(<<>>) = {}
    BY <2>1 DEF Range
  <2> QED
    BY <1>2, <1>4, <2>2
<1> QED
  BY <1>2, <1>3, <1>5 DEF JobInv

(* generateproto.handle, check_or_write. A check that ends well has compared   *)
(* the file of every registered application with its proto, for any            *)
(* applications, registrations, and commands that were cut before.             *)
THEOREM ChecksCoverAll == GenerationSpec => CheckCoversAll
<1>1. GenerationInit => JobInv
  BY DEF GenerationInit, JobInv
<1>2. JobInv /\ [Next]_vars => JobInv'
  BY StepJob
<1>3. JobInv /\ [Next]_vars =>
        [checked' # checked /\ checked' # <<>> =>
            \A a \in Apps : registered_apps[a] # Nobody => file[a] = Proto(registered_apps[a])]_vars
  BY CheckedAll
<1> QED
  BY <1>1, <1>2, <1>3, PTL DEF GenerationSpec, CheckCoversAll
--------------------------------------------------------------------------------
(* References. A field of a message refers to a message of the same collection *)
(* (names D), or has a name the developer chose.                               *)
FieldResolves(f, D) ==
    f.type.kind # "message" /\ (f.type.kind \in {"ref", "name"} => f.type.name \in D \cup GivenNames)

MessageResolves(m, D) ==
    /\ m = [name |-> m.name, fields |-> m.fields, serializer |-> m.serializer,
            imported |-> m.imported]
    /\ m.fields \in Seq(Range(m.fields))
    /\ \A f \in Range(m.fields) : FieldResolves(f, D)

Collection(all) ==
    IsFiniteSet(DOMAIN all) /\ \A n \in DOMAIN all : MessageResolves(all[n], DOMAIN all)

NamesOf(type) == {type.message.name} \cup DOMAIN type.below

(* A made message with those nested in it resolves what it refers to. *)
Whole(type) ==
    /\ type = Made(type.message, type.below)
    /\ MessageResolves(type.message, NamesOf(type))
    /\ IsFiniteSet(DOMAIN type.below)
    /\ \A n \in DOMAIN type.below : MessageResolves(type.below[n], NamesOf(type))

(* The types fields are made of, inside a message called self. *)
Usable(type, self) ==
    \/ type.kind \in {"text", "enum", "class"}
    \/ type.kind = "name" /\ type.name \in GivenNames \cup {self}
    \/ Whole(type)

(* The type of a request or response. *)
Declarable(type) == Whole(type) \/ (type.kind = "name" /\ type.name \in GivenNames)

LEMMA EmptyCollection == Collection(<<>>)
<1>1. DOMAIN <<>> = {}
  OBVIOUS
<1> QED
  BY <1>1, FS_EmptySet DEF Collection

LEMMA MoreNames ==
    ASSUME NEW m, NEW C, NEW D, C \subseteq D, MessageResolves(m, C)
    PROVE  MessageResolves(m, D)
  BY DEF MessageResolves, FieldResolves

(* What is put together of N dictionaries. *)
Assembled(all, dicts, N) ==
    /\ DOMAIN all = UNION {DOMAIN dicts[i] : i \in 1 .. N}
    /\ \A n \in DOMAIN all : \E i \in 1 .. N : n \in DOMAIN dicts[i] /\ all[n] = dicts[i][n]

LEMMA UpdateAllFacts ==
    ASSUME NEW N \in Nat, NEW dicts, DOMAIN dicts = 1 .. N
    PROVE  Assembled(UpdateAll(dicts), dicts, N)
<1> DEFINE having(n) == {i \in DOMAIN dicts : n \in DOMAIN dicts[i]}
           last(n) == CHOOSE i \in having(n) : \A j \in having(n) : j <= i
           D == UNION {DOMAIN dicts[i] : i \in DOMAIN dicts}
<1>1. UpdateAll(dicts) = [n \in D |-> dicts[last(n)][n]]
  BY DEF UpdateAll
<1>2. ASSUME NEW n \in D PROVE last(n) \in having(n)
  <2>1. having(n) \subseteq 1 .. N /\ having(n) # {}
    OBVIOUS
  <2> HIDE DEF having
  <2>2. \E i \in having(n) : \A j \in having(n) : j <= i
    BY <2>1, LastIndex
  <2> QED
    BY <2>2
<1> HIDE DEF last
<1> QED
  BY <1>1, <1>2 DEF Assembled

LEMMA FiniteUpdate ==
    ASSUME NEW N \in Nat, NEW dicts, NEW all, Assembled(all, dicts, N),
           \A i \in 1 .. N : IsFiniteSet(DOMAIN dicts[i])
    PROVE  IsFiniteSet(DOMAIN all)
<1> DEFINE upTo(m) == UNION {DOMAIN dicts[i] : i \in 1 .. m}
           T == {m \in 0 .. N : IsFiniteSet(upTo(m))}
<1>1. 0 \in T
  <2>1. upTo(0) = {} /\ 0 \in 0 .. N
    OBVIOUS
  <2> QED
    BY <2>1, FS_EmptySet
<1>2. ASSUME NEW m \in 1 .. N, m - 1 \in T PROVE m \in T
  <2>1. m \in 0 .. N /\ \A i : i \in 1 .. m <=> i \in 1 .. m - 1 \/ i = m
    OBVIOUS
  <2>2. upTo(m) = upTo(m - 1) \cup DOMAIN dicts[m]
    BY <2>1
  <2>3. IsFiniteSet(upTo(m - 1)) /\ IsFiniteSet(DOMAIN dicts[m])
    BY <1>2
  <2> HIDE DEF upTo
  <2> QED
    BY <2>1, <2>2, <2>3, FS_Union
<1> HIDE DEF T
<1>3. N \in T
  <2>1. \A m \in 0 .. N : m \in T
    BY <1>1, <1>2, InductionUpTo
  <2> QED
    BY <2>1
<1> QED
  BY <1>3 DEF T, Assembled

(* Collections that are put together stay collections. *)
LEMMA CollectionUpdate ==
    ASSUME NEW N \in Nat, NEW dicts, DOMAIN dicts = 1 .. N,
           \A i \in 1 .. N : Collection(dicts[i])
    PROVE  Collection(UpdateAll(dicts))
<1>1. Assembled(UpdateAll(dicts), dicts, N)
  BY UpdateAllFacts, Zenon
<1> SUFFICES ASSUME NEW all, Assembled(all, dicts, N), NEW n \in DOMAIN all
             PROVE  MessageResolves(all[n], DOMAIN all)
  <2>1. \A i \in 1 .. N : IsFiniteSet(DOMAIN dicts[i])
    BY DEF Collection
  <2>2. IsFiniteSet(DOMAIN UpdateAll(dicts))
    BY <1>1, <2>1, FiniteUpdate
  <2> QED
    BY <1>1, <2>2 DEF Collection
<1>2. PICK i \in 1 .. N : n \in DOMAIN dicts[i] /\ all[n] = dicts[i][n]
  BY DEF Assembled
<1>3. DOMAIN dicts[i] \subseteq DOMAIN all
  BY DEF Assembled
<1>4. MessageResolves(dicts[i][n], DOMAIN dicts[i])
  BY <1>2 DEF Collection
<1> QED
  BY <1>2, <1>3, <1>4, MoreNames

(* The same for two. *)
Joined(all, one, other) ==
    /\ DOMAIN all = DOMAIN one \cup DOMAIN other
    /\ \A n \in DOMAIN all : \/ n \in DOMAIN one /\ all[n] = one[n]
                             \/ n \in DOMAIN other /\ all[n] = other[n]

LEMMA UpdateTwo ==
    ASSUME NEW one, NEW other PROVE Joined(UpdateAll(<<one, other>>), one, other)
<1> DEFINE pair == <<one, other>>
<1>1. DOMAIN pair = 1 .. 2 /\ pair[1] = one /\ pair[2] = other /\ 2 \in Nat
  OBVIOUS
<1> HIDE DEF pair
<1>2. Assembled(UpdateAll(pair), pair, 2)
  BY <1>1, UpdateAllFacts, Zenon
<1>3. 1 .. 2 = {1, 2}
  OBVIOUS
<1>4. SUFFICES ASSUME NEW all, Assembled(all, pair, 2) PROVE Joined(all, one, other)
  BY <1>2 DEF pair
<1> QED
  BY <1>1, <1>3, <1>4 DEF Assembled, Joined

(* The messages of a whole type. *)
LEMMA MessagesOfWhole ==
    ASSUME NEW type, Whole(type)
    PROVE  /\ type.kind = "message" /\ DOMAIN MessagesOf(type) = NamesOf(type)
           /\ Collection(MessagesOf(type))
<1> DEFINE mine == [n \in {type.message.name} |-> type.message]
           all == UpdateAll(<<mine, type.below>>)
<1>1. type.kind = "message"
  BY DEF Whole, Made
<1>2. MessagesOf(type) = all
  BY <1>1 DEF MessagesOf
<1>3. DOMAIN mine = {type.message.name} /\ mine[type.message.name] = type.message
  OBVIOUS
<1> HIDE DEF mine
<1>4. Joined(all, mine, type.below)
  BY UpdateTwo, Zenon
<1> HIDE DEF all
<1>5. IsFiniteSet(DOMAIN all)
  <2>1. IsFiniteSet({type.message.name}) /\ IsFiniteSet(DOMAIN type.below)
    BY FS_Singleton DEF Whole
  <2>2. IsFiniteSet({type.message.name} \cup DOMAIN type.below)
    BY <2>1, FS_Union
  <2> QED
    BY <1>3, <1>4, <2>2 DEF Joined
<1> QED
  BY <1>1, <1>2, <1>3, <1>4, <1>5 DEF Collection, NamesOf, Whole, Joined

LEMMA SeqOfIndexed ==
    ASSUME NEW N \in Nat, NEW s, s = [i \in 1 .. N |-> s[i]]
    PROVE  s \in Seq(Range(s)) /\ DOMAIN s = 1 .. N
<1>1. DOMAIN s = 1 .. N
  BY Zenon
<1>2. \A i \in 1 .. N : s[i] \in Range(s)
  BY <1>1 DEF Range
<1>3. s \in [1 .. N -> Range(s)]
  BY <1>2
<1> QED
  BY <1>1, <1>3

LEMMA MadeWhole ==
    ASSUME NEW m, NEW below, MessageResolves(m, NamesOf(Made(m, below))),
           IsFiniteSet(DOMAIN below),
           \A n \in DOMAIN below : MessageResolves(below[n], NamesOf(Made(m, below)))
    PROVE  Whole(Made(m, below))
<1> DEFINE type == Made(m, below)
<1>1. type.message = m /\ type.below = below
  BY DEF Made
<1> HIDE DEF type
<1>2. type = Made(type.message, type.below)
  BY <1>1 DEF type
<1>3. Whole(type)
  BY <1>1, <1>2 DEF Whole, type
<1> QED
  BY <1>3 DEF type

(* A message made of usable fields is whole. *)
LEMMA NewMessageWhole ==
    ASSUME NEW name, NEW fields, NEW z, NEW N \in Nat, DOMAIN fields = 1 .. N,
           \A i \in 1 .. N : Usable(fields[i].type, name)
    PROVE  Whole(NewMessage(name, fields, z))
<1> DEFINE flat == [i \in 1 .. N |-> Flat(fields[i])]
           below == [i \in 1 .. N |-> MessagesOf(fields[i].type)]
           all == UpdateAll(below)
           m == [name |-> name, fields |-> flat, serializer |-> z, imported |-> FALSE]
           D == {name} \cup DOMAIN all
<1>1. NewMessage(name, fields, z) = Made(m, all)
  BY DEF NewMessage, Message, MapEach
<1>2. DOMAIN below = 1 .. N /\ \A i \in 1 .. N : below[i] = MessagesOf(fields[i].type)
  OBVIOUS
<1>3. \A i \in 1 .. N : IF Whole(fields[i].type)
                        THEN /\ fields[i].type.kind = "message" /\ Collection(below[i])
                             /\ DOMAIN below[i] = NamesOf(fields[i].type)
                        ELSE below[i] = <<>> /\ fields[i].type.kind # "message"
  <2> TAKE i \in 1 .. N
  <2>1. below[i] = MessagesOf(fields[i].type) /\ Usable(fields[i].type, name)
    BY <1>2
  <2>2. CASE Whole(fields[i].type)
    BY <2>1, <2>2, MessagesOfWhole
  <2>3. CASE ~Whole(fields[i].type)
    <3>1. fields[i].type.kind # "message"
      BY <2>1, <2>3 DEF Usable
    <3> HIDE DEF below
    <3> QED
      BY <2>1, <2>3, <3>1 DEF MessagesOf
  <2> QED
    BY <2>2, <2>3
<1> HIDE DEF below
<1>4. Assembled(all, below, N)
  BY <1>2, UpdateAllFacts, Zenon
<1>5. Collection(all)
  <2>1. Collection(<<>>)
    BY EmptyCollection
  <2>2. \A i \in 1 .. N : Collection(below[i])
    BY <1>3, <2>1
  <2> QED
    BY <1>2, <2>2, CollectionUpdate, Zenon
<1> HIDE DEF all
<1>6. \A n \in DOMAIN all : MessageResolves(all[n], D)
  BY <1>5, MoreNames DEF Collection
<1>7. MessageResolves(m, D)
  <2>1. flat \in Seq(Range(flat)) /\ DOMAIN flat = 1 .. N
    <3>1. flat = [i \in 1 .. N |-> flat[i]]
      OBVIOUS
    <3> HIDE DEF flat
    <3> QED
      BY <3>1, SeqOfIndexed
  <2>2. ASSUME NEW i \in 1 .. N PROVE FieldResolves(flat[i], D)
    <3>1. flat[i] = Flat(fields[i]) /\ Usable(fields[i].type, name)
      OBVIOUS
    <3> HIDE DEF flat
    <3>2. CASE Whole(fields[i].type)
      <4>1. fields[i].type.kind = "message" /\ fields[i].type.message.name \in D
        BY <1>3, <1>4, <3>2 DEF Assembled, NamesOf
      <4>2. flat[i] = [name |-> fields[i].name,
                       type |-> [kind |-> "ref", name |-> fields[i].type.message.name]]
        BY <3>1, <4>1 DEF Flat, ProtoField, Ref
      <4> QED
        BY <4>1, <4>2 DEF FieldResolves
    <3>3. CASE ~Whole(fields[i].type)
      <4>1. fields[i].type.kind # "message"
        BY <1>3, <3>3
      <4>2. flat[i] = fields[i]
        BY <3>1, <4>1 DEF Flat
      <4> QED
        BY <3>1, <3>3, <4>1, <4>2 DEF FieldResolves, Usable
    <3> QED
      BY <3>2, <3>3
  <2>3. \A f \in Range(flat) : FieldResolves(f, D)
    <3> HIDE DEF flat
    <3> QED
      BY <2>1, <2>2 DEF Range
  <2> HIDE DEF flat, D
  <2> QED
    BY <2>1, <2>3 DEF MessageResolves
<1>8. NamesOf(Made(m, all)) = D
  BY DEF NamesOf, Made
<1>9. Whole(Made(m, all))
  <2> HIDE DEF m, D
  <2>1. IsFiniteSet(DOMAIN all)
    BY <1>5 DEF Collection
  <2> QED
    BY <1>6, <1>7, <1>8, <2>1, MadeWhole
<1> QED
  BY <1>1, <1>9

LEMMA ImportedWhole == Whole(EmptyMessage) /\ Whole(StructMessage)
<1>1. ASSUME NEW name PROVE Whole(Made(Imported(name), <<>>))
  <2> DEFINE m == Imported(name)
  <2>1. m = [name |-> <<name>>, fields |-> <<>>, serializer |-> NoSerializer, imported |-> TRUE]
    BY DEF Imported
  <2>2. MessageResolves(m, NamesOf(Made(m, <<>>)))
    <3>1. Range(<<>>) = {} /\ <<>> \in Seq({})
      BY DEF Range
    <3> QED
      BY <2>1, <3>1 DEF MessageResolves
  <2> HIDE DEF m
  <2>3. (\A n : n \notin DOMAIN <<>>) /\ IsFiniteSet(DOMAIN <<>>)
    BY EmptyCollection DEF Collection
  <2>4. Whole(Made(m, <<>>))
    BY <2>2, <2>3, MadeWhole, Zenon
  <2> QED
    BY <2>4 DEF m
<1> QED
  BY <1>1 DEF EmptyMessage, StructMessage

LEMMA OfStringDeclarable ==
    ASSUME NEW name \in GivenNames PROVE Declarable(OfString(name))
  BY ImportedWhole DEF OfString, Declarable, Named

LEMMA KeptSeq ==
    ASSUME NEW class, NEW z \in Serializers
    PROVE  Kept(class, z) \in Seq(Range(FieldsOf[z])) /\ Range(Kept(class, z)) \subseteq Range(FieldsOf[z])
<1>1. FieldsOf[z] \in Seq(Range(FieldsOf[z]))
  BY SerializersAssumption
<1> QED
  BY <1>1, SelectFacts DEF Kept

(* The message of a serializer is whole if those made for it are. *)
LEMMA SerializerWhole ==
    ASSUME NEW class \in {"Message", "Request", "Response"}, NEW z \in Serializers, NEW name,
           NEW made, \A p \in Pairs : Whole(made[p])
    PROVE  Whole(SerializerMessage(class, z, name, made))
<1> DEFINE kept == Kept(class, z)
           N == Len(kept)
           type(f) == CASE f.kind = "nested" /\ f.of = z -> Named(RecursiveName(name, class, z))
                        [] f.kind = "struct" -> StructMessage
                        [] \E next \in Follows(class, z, f) : TRUE ->
                              made[CHOOSE next \in Follows(class, z, f) : TRUE]
                        [] OTHER -> Text
           field(f) == ProtoField(f.name, type(f))
           self == IF name = <<>> THEN DefaultName(z, class) ELSE name
           fields == [i \in 1 .. N |-> field(kept[i])]
<1>1. N \in Nat /\ DOMAIN kept = 1 .. N /\ \A i \in 1 .. N : kept[i] \in Range(FieldsOf[z])
  <2>1. kept \in Seq(Range(FieldsOf[z]))
    BY KeptSeq
  <2> HIDE DEF kept
  <2> QED
    BY <2>1
<1>2. SerializerMessage(class, z, name, made) = NewMessage(self, fields, z)
  BY <1>1 DEF SerializerMessage, MapEach
<1>3. ASSUME NEW f \in Range(FieldsOf[z]) PROVE Usable(type(f), self)
  <2>1. CASE f.kind = "nested" /\ f.of = z
    <3>1. type(f) = Named(RecursiveName(name, class, z))
      BY <2>1 DEF Follows, MethodReturns
    <3>2. RecursiveName(name, class, z) = self
      BY DEF RecursiveName
    <3> HIDE DEF type, self
    <3> QED
      BY <3>1, <3>2 DEF Usable, Named
  <2>2. CASE f.kind = "struct"
    <3>1. type(f) = StructMessage
      BY <2>2 DEF Follows, MethodReturns
    <3> HIDE DEF type
    <3> QED
      BY <3>1, ImportedWhole DEF Usable
  <2>3. CASE ~(f.kind = "nested" /\ f.of = z) /\ f.kind # "struct"
             /\ \E next \in Follows(class, z, f) : TRUE
    <3> DEFINE next == CHOOSE next \in Follows(class, z, f) : TRUE
    <3>1. next \in Follows(class, z, f)
      BY <2>3
    <3>2. type(f) = made[next]
      BY <2>3
    <3> HIDE DEF next, type
    <3>3. next \in Pairs
      BY <3>1, SerializersAssumption DEF Follows, MethodReturns, Pairs
    <3> QED
      BY <3>2, <3>3 DEF Usable
  <2>4. CASE ~(f.kind = "nested" /\ f.of = z) /\ f.kind # "struct"
             /\ ~\E next \in Follows(class, z, f) : TRUE
    <3>1. type(f) = Text
      BY <2>4
    <3> HIDE DEF type
    <3> QED
      BY <3>1 DEF Usable, Text
  <2> QED
    BY <2>1, <2>2, <2>3, <2>4
<1>4. DOMAIN fields = 1 .. N /\ \A i \in 1 .. N : fields[i].type = type(kept[i])
  BY DEF ProtoField
<1> HIDE DEF type, self, fields, N, kept
<1>5. \A i \in 1 .. N : Usable(fields[i].type, self)
  BY <1>1, <1>3, <1>4
<1>6. Whole(NewMessage(self, fields, z))
  BY <1>1, <1>4, <1>5, NewMessageWhole
<1> QED
  BY <1>2, <1>6
(* The levels of nested serializers are finitely many. *)
LEMMA DepthIsFinite == Depth \in Nat
<1>1. IsFiniteSet({"Message", "Request", "Response"})
  <2>1. /\ IsFiniteSet({"Message"})
        /\ {"Message", "Request"} = {"Message"} \cup {"Request"}
        /\ {"Message", "Request", "Response"} = {"Message", "Request"} \cup {"Response"}
    BY FS_Singleton
  <2>2. IsFiniteSet({"Message", "Request"})
    BY <2>1, FS_AddElement
  <2> QED
    BY <2>1, <2>2, FS_AddElement
<1>2. IsFiniteSet(Pairs)
  BY <1>1, SerializersAssumption, FS_Product DEF Pairs
<1> QED
  BY <1>2, FS_CardinalityType DEF Depth

(* Converted exists, level by level. *)
Levels(f, N) ==
    f = [n \in 0 .. N |->
            [p \in Pairs |-> IF n = 0 THEN EmptyMessage
                             ELSE SerializerMessage(p[1], p[2], <<>>, f[n - 1])]]

LEMMA LevelsExist == \E f : Levels(f, Depth)
<1> DEFINE T == {m \in 0 .. Depth : \E f : Levels(f, m)}
           Level(n, below) == [p \in Pairs |-> IF n = 0 THEN EmptyMessage
                                               ELSE SerializerMessage(p[1], p[2], <<>>, below)]
<1>1. 0 \in T
  <2> DEFINE f == [n \in 0 .. 0 |-> Level(0, <<>>)]
  <2>1. \A n \in 0 .. 0 : Level(0, <<>>) = Level(n, f[n - 1])
    <3>1. (\A x, y : Level(0, x) = Level(0, y)) /\ \A n \in 0 .. 0 : n = 0
      OBVIOUS
    <3> HIDE DEF Level, f
    <3> QED
      BY <3>1
  <2>2. f = [n \in 0 .. 0 |-> Level(n, f[n - 1])]
    <3> HIDE DEF Level
    <3> QED
      BY <2>1
  <2>3. Levels(f, 0)
    BY <2>2, Zenon DEF Levels
  <2>4. 0 \in 0 .. Depth
    BY DepthIsFinite
  <2> HIDE DEF f
  <2> QED
    BY <2>3, <2>4
<1>2. ASSUME NEW m \in 1 .. Depth, m - 1 \in T PROVE m \in T
  <2>1. PICK f : Levels(f, m - 1)
    BY <1>2
  <2> DEFINE g == [n \in 0 .. m |-> IF n = m THEN Level(m, f[m - 1]) ELSE f[n]]
  <2>2. \A n \in 0 .. m - 1 : f[n] = Level(n, f[n - 1])
    <3>1. f = [n \in 0 .. m - 1 |-> Level(n, f[n - 1])]
      BY <2>1, Zenon DEF Levels
    <3> HIDE DEF Level
    <3> QED
      BY <3>1, Zenon
  <2>3. ASSUME NEW n \in 0 .. m PROVE g[n] = Level(n, g[n - 1])
    <3>1. CASE n = 0
      <4>1. g[0] = f[0] /\ 0 \in 0 .. m - 1
        BY DepthIsFinite
      <4>2. f[0] = Level(0, f[-1])
        BY <2>2, <4>1
      <4>3. \A x, y : Level(0, x) = Level(0, y)
        OBVIOUS
      <4> HIDE DEF Level, g
      <4> QED
        BY <3>1, <4>1, <4>2, <4>3
    <3>2. CASE n # 0
      <4>1. g[n - 1] = f[n - 1] /\ (n # m => n \in 0 .. m - 1 /\ g[n] = f[n])
        BY <3>2
      <4>2. g[m] = Level(m, f[m - 1])
        BY DepthIsFinite
      <4> HIDE DEF Level, g
      <4> QED
        BY <2>2, <4>1, <4>2
    <3> QED
      BY <3>1, <3>2
  <2>4. g = [n \in 0 .. m |-> Level(n, g[n - 1])]
    <3>1. g = [n \in 0 .. m |-> g[n]]
      BY Zenon
    <3> HIDE DEF Level, g
    <3> QED
      BY <2>3, <3>1
  <2>5. Levels(g, m)
    <3> HIDE DEF g
    <3> QED
      BY <2>4, Zenon DEF Levels
  <2>6. m \in 0 .. Depth
    BY DepthIsFinite
  <2> HIDE DEF g
  <2> QED
    BY <2>5, <2>6
<1> HIDE DEF T
<1>3. Depth \in T
  <2>1. \A m \in 0 .. Depth : m \in T
    BY <1>1, <1>2, DepthIsFinite, InductionUpTo
  <2> QED
    BY <2>1, DepthIsFinite
<1> QED
  BY <1>3 DEF T

LEMMA ConvertedLevels ==
    ASSUME NEW n \in 0 .. Depth
    PROVE  Converted[n] = [p \in Pairs |->
               IF n = 0 THEN EmptyMessage
               ELSE SerializerMessage(p[1], p[2], <<>>, Converted[n - 1])]
<1> DEFINE made == Converted
           Level(i, below) == [p \in Pairs |-> IF i = 0 THEN EmptyMessage
                                               ELSE SerializerMessage(p[1], p[2], <<>>, below)]
<1>1. Levels(made, Depth)
  <2>1. Converted = CHOOSE f : Levels(f, Depth)
    BY DEF Converted, Levels
  <2> QED
    BY <2>1, LevelsExist, Zenon
<1> HIDE DEF made
<1>2. made = [i \in 0 .. Depth |-> Level(i, made[i - 1])]
  BY <1>1, Zenon DEF Levels
<1>3. made[n] = Level(n, made[n - 1])
  <2> HIDE DEF Level
  <2> QED
    BY <1>2, Zenon
<1> QED
  BY <1>3, Zenon DEF made

LEMMA ConvertedWhole == \A p \in Pairs : Whole(Converted[Depth][p])
<1> DEFINE T == {n \in 0 .. Depth : \A p \in Pairs : Whole(Converted[n][p])}
<1>1. 0 \in T
  <2>1. 0 \in 0 .. Depth
    BY DepthIsFinite
  <2>2. Converted[0] = [p \in Pairs |-> EmptyMessage]
    BY <2>1, ConvertedLevels
  <2> QED
    BY <2>1, <2>2, ImportedWhole
<1>2. ASSUME NEW n \in 1 .. Depth, n - 1 \in T PROVE n \in T
  <2>1. n \in 0 .. Depth /\ n # 0
    BY DepthIsFinite
  <2>2. Converted[n] = [p \in Pairs |-> SerializerMessage(p[1], p[2], <<>>, Converted[n - 1])]
    BY <2>1, ConvertedLevels
  <2>3. ASSUME NEW p \in Pairs PROVE Whole(Converted[n][p])
    <3>1. p[1] \in {"Message", "Request", "Response"} /\ p[2] \in Serializers
      BY DEF Pairs
    <3> QED
      BY <1>2, <2>2, <3>1, SerializerWhole
  <2> QED
    BY <2>1, <2>3
<1> HIDE DEF T
<1>3. Depth \in T
  <2>1. \A m \in 0 .. Depth : m \in T
    BY <1>1, <1>2, DepthIsFinite, InductionUpTo
  <2> QED
    BY <2>1, DepthIsFinite
<1> QED
  BY <1>3 DEF T

LEMMA FromSerializerWhole ==
    ASSUME NEW class \in {"Message", "Request", "Response"}, NEW z \in Serializers, NEW name
    PROVE  Whole(from_serializer(class, z, name))
<1> DEFINE made == Converted[Depth]
<1>1. \A p \in Pairs : Whole(made[p])
  BY ConvertedWhole, Zenon
<1> HIDE DEF made
<1>2. Whole(SerializerMessage(class, z, name, made))
  BY <1>1, SerializerWhole
<1> QED
  BY <1>2 DEF from_serializer, made

LEMMA FieldDictUsable ==
    ASSUME NEW d, NEW self, d.kind = "nested" => d.of \in Serializers,
           d.kind = "name" => d.of \in GivenNames
    PROVE  Usable(from_field_dict(d).type, self)
<1> DEFINE name == BaseOf[d.of] \o <<"Serializer">>
           type == CASE d.kind = "nested" -> from_serializer("Message", d.of, name)
                     [] d.kind = "choice" -> [kind |-> "class", name |-> <<d.of>>]
                     [] d.kind = "name" -> OfString(d.of)
                     [] OTHER -> Text
<1>1. from_field_dict(d).type = type
  BY DEF from_field_dict, ProtoField
<1>2. CASE d.kind = "nested"
  <2>1. type = from_serializer("Message", d.of, name)
    BY <1>2
  <2> HIDE DEF type, name
  <2> QED
    BY <1>1, <1>2, <2>1, FromSerializerWhole DEF Usable
<1>3. CASE d.kind = "choice"
  <2>1. type.kind = "class"
    BY <1>3
  <2> HIDE DEF type
  <2> QED
    BY <1>1, <2>1 DEF Usable
<1>4. CASE d.kind = "name"
  <2>1. type = OfString(d.of)
    BY <1>4
  <2> HIDE DEF type
  <2> QED
    BY <1>1, <1>4, <2>1, OfStringDeclarable DEF Usable, Declarable
<1>5. CASE d.kind \notin {"nested", "choice", "name"}
  <2>1. type = Text
    BY <1>5
  <2> HIDE DEF type
  <2> QED
    BY <1>1, <2>1 DEF Usable, Text
<1> QED
  BY <1>2, <1>3, <1>4, <1>5

(* What create is given: a value whose placeholder is resolved. *)
Creatable(v) ==
    \/ v.kind = "serializer" /\ v.serializer \in Serializers
    \/ v.kind = "string" /\ v.name \in GivenNames
    \/ /\ v.kind = "dicts" /\ v.fields \in Seq(Range(v.fields))
       /\ \A d \in Range(v.fields) : /\ d.kind = "nested" => d.of \in Serializers
                                     /\ d.kind = "name" => d.of \in GivenNames

LEMMA CreateDeclarable ==
    ASSUME NEW class \in {"Message", "Request", "Response"}, NEW v, Creatable(v), NEW name
    PROVE  Declarable(create(class, v, name))
<1>1. CASE v.kind = "serializer"
  <2>1. create(class, v, name) = from_serializer(class, v.serializer, name)
    BY <1>1 DEF create
  <2> QED
    BY <1>1, <2>1, FromSerializerWhole DEF Creatable, Declarable
<1>2. CASE v.kind = "string"
  <2>1. create(class, v, name) = OfString(v.name)
    BY <1>2 DEF create
  <2> QED
    BY <1>2, <2>1, OfStringDeclarable DEF Creatable
<1>3. CASE v.kind = "dicts"
  <2> DEFINE N == Len(v.fields)
             fields == [i \in 1 .. N |-> from_field_dict(v.fields[i])]
  <2>1. N \in Nat /\ DOMAIN v.fields = 1 .. N /\ \A i \in 1 .. N : v.fields[i] \in Range(v.fields)
    <3>1. v.fields \in Seq(Range(v.fields))
      BY <1>3 DEF Creatable
    <3> QED
      BY <3>1
  <2>2. create(class, v, name) = NewMessage(name, fields, NoSerializer)
    BY <1>3, <2>1 DEF create, MapEach
  <2>3. DOMAIN fields = 1 .. N /\ \A i \in 1 .. N : Usable(fields[i].type, name)
    <3>1. \A d \in Range(v.fields) : Usable(from_field_dict(d).type, name)
      BY <1>3, FieldDictUsable DEF Creatable
    <3> QED
      BY <2>1, <3>1
  <2> HIDE DEF fields, N
  <2>4. Whole(NewMessage(name, fields, NoSerializer))
    BY <2>1, <2>3, NewMessageWhole
  <2> QED
    BY <2>2, <2>4 DEF Declarable
<1> QED
  BY <1>1, <1>2, <1>3 DEF Creatable

LEMMA AsListWhole ==
    ASSUME NEW type, Declarable(type), NEW name, NEW service
    PROVE  Whole(AsList(type, name, service))
<1> DEFINE one == ProtoField("results", type)
           two == ProtoField("count", Text)
           fields == <<one>> \o (IF service.paginated THEN <<two>> ELSE <<>>)
<1>1. Usable(one.type, name) /\ Usable(two.type, name)
  BY DEF ProtoField, Usable, Declarable, Text
<1>2. AsList(type, name, service) = NewMessage(name, fields, NoSerializer)
  BY DEF AsList
<1> HIDE DEF one, two
<1>3. \E N \in Nat : DOMAIN fields = 1 .. N /\ \A i \in 1 .. N : Usable(fields[i].type, name)
  <2>1. fields \in Seq({one, two})
    <3> DEFINE rest == IF service.paginated THEN <<two>> ELSE <<>>
    <3>1. rest \in Seq({one, two})
      <4>1. <<two>> \in Seq({one, two}) /\ <<>> \in Seq({one, two})
        OBVIOUS
      <4> QED
        BY <4>1, Zenon
    <3> HIDE DEF rest
    <3>2. <<one>> \o rest \in Seq({one, two})
      BY <3>1
    <3> QED
      BY <3>2, Zenon DEF rest
  <2> HIDE DEF fields
  <2>2. Len(fields) \in Nat /\ DOMAIN fields = 1 .. Len(fields)
        /\ \A i \in 1 .. Len(fields) : fields[i] \in {one, two}
    BY <2>1
  <2> QED
    BY <1>1, <2>2
<1> HIDE DEF fields
<1>4. Whole(NewMessage(name, fields, NoSerializer))
  BY <1>3, NewMessageWhole
<1> QED
  BY <1>2, <1>4
(* A message whose fields are given enums resolves what it did before. *)
Retyped(m, n) ==
    /\ n = [m EXCEPT !.fields = n.fields]
    /\ DOMAIN n.fields = DOMAIN m.fields
    /\ n.fields \in Seq(Range(n.fields))
    /\ \A i \in DOMAIN m.fields : n.fields[i] = m.fields[i] \/ n.fields[i].type.kind = "enum"

LEMMA RetypedResolves ==
    ASSUME NEW m, NEW n, NEW D, MessageResolves(m, D), Retyped(m, n)
    PROVE  MessageResolves(n, D) /\ n.name = m.name
<1>1. n = [name |-> m.name, fields |-> n.fields, serializer |-> m.serializer,
           imported |-> m.imported]
  <2>1. m = [name |-> m.name, fields |-> m.fields, serializer |-> m.serializer,
             imported |-> m.imported]
    BY DEF MessageResolves
  <2>2. n = [m EXCEPT !.fields = n.fields]
    BY DEF Retyped
  <2> QED
    BY <2>1, <2>2
<1>2. n.name = m.name /\ n.serializer = m.serializer /\ n.imported = m.imported
  BY <1>1
<1>3. \A f \in Range(n.fields) : FieldResolves(f, D)
  BY DEF Range, MessageResolves, Retyped, FieldResolves
<1> QED
  BY <1>1, <1>2, <1>3 DEF MessageResolves, Retyped

LEMMA EnumsSetRetypes ==
    ASSUME NEW m, NEW D, MessageResolves(m, D)
    PROVE  Retyped(m, EnumsSet(m))
<1> DEFINE enums == IF m.serializer = NoSerializer THEN <<>> ELSE EnumsOf(m.serializer)
           converted(f) == IF f.name \in DOMAIN enums
                           THEN ProtoField(f.name, Enum(enums[f.name])) ELSE f
           N == Len(m.fields)
           fields == [i \in 1 .. N |-> converted(m.fields[i])]
           n == EnumsSet(m)
<1>1. N \in Nat /\ DOMAIN m.fields = 1 .. N
  BY DEF MessageResolves
<1>2. n = [m EXCEPT !.fields = fields]
  BY <1>1 DEF EnumsSet, MapEach
<1>3. \A f : converted(f) = f \/ converted(f).type.kind = "enum"
  BY DEF ProtoField, Enum
<1> HIDE DEF converted
<1>4. DOMAIN fields = 1 .. N /\ fields \in Seq(Range(fields))
      /\ \A i \in 1 .. N : fields[i] = m.fields[i] \/ fields[i].type.kind = "enum"
  <2>1. fields = [i \in 1 .. N |-> fields[i]]
    OBVIOUS
  <2>2. \A i \in 1 .. N : fields[i] = m.fields[i] \/ fields[i].type.kind = "enum"
    BY <1>3
  <2> HIDE DEF fields, N
  <2> QED
    BY <1>1, <2>1, <2>2, SeqOfIndexed
<1>5. n.fields = fields
  <2>1. m = [name |-> m.name, fields |-> m.fields, serializer |-> m.serializer,
             imported |-> m.imported]
    BY DEF MessageResolves
  <2> HIDE DEF n, fields
  <2> QED
    BY <1>2, <2>1
<1> HIDE DEF n, fields, N
<1>6. Retyped(m, n)
  BY <1>1, <1>2, <1>4, <1>5 DEF Retyped
<1> QED
  BY <1>6 DEF n

LEMMA SerializerEnumsWhole ==
    ASSUME NEW type, Whole(type) PROVE Whole(handle_serializer(type))
<1> DEFINE m == EnumsSet(type.message)
           below == [n \in DOMAIN type.below |-> EnumsSet(type.below[n])]
           D == NamesOf(type)
<1>1. handle_serializer(type) = Made(m, below)
  BY DEF handle_serializer
<1>2. MessageResolves(m, D) /\ m.name = type.message.name
  BY EnumsSetRetypes, RetypedResolves DEF Whole
<1>3. \A n \in DOMAIN type.below : MessageResolves(EnumsSet(type.below[n]), D)
  BY EnumsSetRetypes, RetypedResolves DEF Whole
<1>4. DOMAIN below = DOMAIN type.below /\ \A n \in DOMAIN below : MessageResolves(below[n], D)
  BY <1>3
<1> HIDE DEF m, below
<1>5. NamesOf(Made(m, below)) = D
  BY <1>2, <1>4 DEF NamesOf, Made
<1>6. Whole(Made(m, below))
  <2> HIDE DEF D
  <2>1. IsFiniteSet(DOMAIN below)
    BY <1>4 DEF Whole
  <2> QED
    BY <1>2, <1>4, <1>5, <2>1, MadeWhole
<1> QED
  BY <1>1, <1>6

LEMMA DictEnumsWhole ==
    ASSUME NEW type, Whole(type) PROVE Whole(handle_field_dict(type))
<1> DEFINE converted(f) == IF f.type.kind = "class"
                           THEN ProtoField(f.name, Enum(f.type.name[1])) ELSE f
           N == Len(type.message.fields)
           fields == [i \in 1 .. N |-> converted(type.message.fields[i])]
           n == [type.message EXCEPT !.fields = fields]
           D == NamesOf(type)
<1>0. MessageResolves(type.message, D) /\ type = [kind |-> "message", message |-> type.message,
                                                  below |-> type.below]
  BY DEF Whole, Made
<1>1. N \in Nat /\ DOMAIN type.message.fields = 1 .. N
  BY <1>0 DEF MessageResolves
<1>2. handle_field_dict(type) = Made(n, type.below)
  <2>1. handle_field_dict(type) = [type EXCEPT !.message.fields = fields]
    BY <1>1 DEF handle_field_dict, MapEach
  <2>2. [type EXCEPT !.message.fields = fields] = [type EXCEPT !.message = n]
    OBVIOUS
  <2> HIDE DEF fields, n
  <2> QED
    BY <1>0, <2>1, <2>2 DEF Made
<1>3. \A f : converted(f) = f \/ converted(f).type.kind = "enum"
  BY DEF ProtoField, Enum
<1> HIDE DEF converted
<1>4. DOMAIN fields = 1 .. N /\ fields \in Seq(Range(fields))
      /\ \A i \in 1 .. N : fields[i] = type.message.fields[i] \/ fields[i].type.kind = "enum"
  <2>1. fields = [i \in 1 .. N |-> fields[i]]
    OBVIOUS
  <2>2. \A i \in 1 .. N : fields[i] = type.message.fields[i] \/ fields[i].type.kind = "enum"
    BY <1>3
  <2> HIDE DEF fields, N
  <2> QED
    BY <1>1, <2>1, <2>2, SeqOfIndexed
<1>5. Retyped(type.message, n)
  <2>1. n.fields = fields
    BY <1>0 DEF MessageResolves
  <2> HIDE DEF fields, N
  <2> QED
    BY <1>1, <1>4, <2>1 DEF Retyped
<1> HIDE DEF n
<1>6. MessageResolves(n, D) /\ n.name = type.message.name
  BY <1>0, <1>5, RetypedResolves
<1>7. NamesOf(Made(n, type.below)) = D
  BY <1>6 DEF NamesOf, Made
<1>8. IsFiniteSet(DOMAIN type.below) /\ \A x \in DOMAIN type.below : MessageResolves(type.below[x], D)
  BY DEF Whole
<1>9. Whole(Made(n, type.below))
  <2> HIDE DEF D
  <2> QED
    BY <1>6, <1>7, <1>8, MadeWhole
<1> QED
  BY <1>2, <1>9

LEMMA WithEnumsDeclarable ==
    ASSUME NEW type, Declarable(type) PROVE Declarable(WithEnums(type))
<1>1. CASE type.kind # "message"
  <2>1. WithEnums(type) = type
    BY <1>1 DEF WithEnums
  <2> QED
    BY <2>1
<1>2. CASE type.kind = "message"
  <2>1. Whole(type)
    BY <1>2 DEF Declarable
  <2>2. WithEnums(type) \in {handle_field_dict(type), handle_serializer(type)}
    BY <1>2 DEF WithEnums
  <2> QED
    BY <2>1, <2>2, DictEnumsWhole, SerializerEnumsWhole DEF Declarable
<1> QED
  BY <1>1, <1>2

LEMMA AddFieldWhole ==
    ASSUME NEW type, Whole(type), NEW name PROVE Whole(AddField(type, name))
<1> DEFINE struct == MessagesOf(StructMessage)
           f == Flat(ProtoField(name, StructMessage))
           m == [type.message EXCEPT !.fields = Append(@, f)]
           below == UpdateAll(<<type.below, struct>>)
           D == NamesOf(type) \cup DOMAIN struct
           old == type.message
<1>1. AddField(type, name) = Made(m, below)
  BY DEF AddField
<1>2. StructMessage.kind = "message" /\ Collection(struct) /\ DOMAIN struct = NamesOf(StructMessage)
  BY ImportedWhole, MessagesOfWhole, Zenon
<1>3. f = [name |-> name, type |-> [kind |-> "ref", name |-> StructMessage.message.name]]
  BY <1>2 DEF Flat, ProtoField, Ref
<1>4. FieldResolves(f, D)
  <2>1. StructMessage.message.name \in DOMAIN struct
    BY <1>2 DEF NamesOf
  <2> HIDE DEF f, struct
  <2> QED
    BY <1>3, <2>1 DEF FieldResolves
<1> HIDE DEF f, struct
<1>5. MessageResolves(old, D)
  <2>1. MessageResolves(old, NamesOf(type))
    BY DEF Whole
  <2> HIDE DEF old
  <2> QED
    BY <2>1, MoreNames
<1>6. MessageResolves(m, D) /\ m.name = old.name
  <2>1. old.fields \in Seq(Range(old.fields))
    BY <1>5 DEF MessageResolves
  <2> DEFINE fields == Append(old.fields, f)
  <2>2. fields \in Seq(Range(fields)) /\ \A g \in Range(fields) : g \in Range(old.fields) \/ g = f
    <3>1. fields \in Seq(Range(old.fields) \cup {f})
      BY <2>1
    <3> HIDE DEF fields
    <3>2. fields = [i \in 1 .. Len(fields) |-> fields[i]] /\ Len(fields) \in Nat
      BY <3>1
    <3>3. \A i \in 1 .. Len(fields) : fields[i] \in Range(old.fields) \cup {f}
      BY <3>1
    <3>4. fields \in Seq(Range(fields)) /\ DOMAIN fields = 1 .. Len(fields)
      BY <3>2, SeqOfIndexed, Zenon
    <3> QED
      BY <3>3, <3>4 DEF Range
  <2>3. m = [name |-> old.name, fields |-> fields, serializer |-> old.serializer,
             imported |-> old.imported]
    <3>1. old = [name |-> old.name, fields |-> old.fields, serializer |-> old.serializer,
                 imported |-> old.imported]
      BY <1>5 DEF MessageResolves
    <3> HIDE DEF old, D
    <3> QED
      BY <3>1 DEF old
  <2> HIDE DEF m, fields, D, old
  <2> QED
    BY <1>4, <1>5, <2>2, <2>3 DEF MessageResolves
<1> HIDE DEF m
<1>7. Joined(below, type.below, struct)
  BY UpdateTwo, Zenon
<1> HIDE DEF below
<1>8. NamesOf(Made(m, below)) = D
  BY <1>6, <1>7 DEF NamesOf, Made, Joined
<1>9. \A n \in DOMAIN below : MessageResolves(below[n], D)
  <2>1. \A n \in DOMAIN struct : MessageResolves(struct[n], D)
    BY <1>2, MoreNames DEF Collection
  <2>2. \A n \in DOMAIN type.below : MessageResolves(type.below[n], D)
    BY MoreNames DEF Whole
  <2> HIDE DEF D
  <2> QED
    BY <1>7, <2>1, <2>2 DEF Joined
<1>10. Whole(Made(m, below))
  <2>1. IsFiniteSet(DOMAIN type.below) /\ IsFiniteSet(DOMAIN struct)
    BY <1>2 DEF Whole, Collection
  <2>2. IsFiniteSet(DOMAIN below)
    BY <1>7, <2>1, FS_Union DEF Joined
  <2> HIDE DEF D
  <2> QED
    BY <1>6, <1>8, <1>9, <2>2, MadeWhole
<1> QED
  BY <1>1, <1>10

Declarables(pair) == Declarable(pair[1]) /\ Declarable(pair[2])

LEMMA TransformDeclarable ==
    ASSUME NEW plugin \in Plugins, NEW pair, NEW service, NEW names, Declarables(pair),
           AddsField(plugin, service) => pair[1].kind = "message"
    PROVE  Declarables(Transform(plugin, pair, service, names))
<1> DEFINE after == Transform(plugin, pair, service, names)
<1>1. CASE plugin = "enum"
  <2>1. after = <<WithEnums(pair[1]), WithEnums(pair[2])>>
    BY <1>1 DEF Transform
  <2> QED
    BY <2>1, WithEnumsDeclarable DEF Declarables
<1>2. CASE plugin = "request_list"
  <2>1. after = <<AsList(pair[1], names["Request"], service), pair[2]>>
    BY <1>2 DEF Transform
  <2> QED
    BY <2>1, AsListWhole DEF Declarable, Declarables
<1>3. CASE plugin = "response_list"
  <2>1. after = <<pair[1], AsList(pair[2], names["Response"], service)>>
    BY <1>3 DEF Transform
  <2> QED
    BY <2>1, AsListWhole DEF Declarable, Declarables
<1>4. CASE plugin \in {"filter", "pagination"}
  <2>1. \/ after = pair
        \/ \E name : after = <<AddField(pair[1], name), pair[2]>> /\ AddsField(plugin, service)
    BY <1>4 DEF Transform, AddsField
  <2>2. ASSUME NEW name, after = <<AddField(pair[1], name), pair[2]>>, AddsField(plugin, service)
        PROVE  Declarables(after)
    BY <2>2, AddFieldWhole DEF Declarable, Declarables
  <2> QED
    BY <2>1, <2>2
<1> QED
  BY <1>1, <1>2, <1>3, <1>4 DEF Plugins

LEMMA ValuesCreatable ==
    ASSUME NEW k \in RpcKeys, NEW side PROVE Creatable(DeclaredValue(side, k))
<1> DEFINE v == IF side = "Request" THEN Decl(k).request ELSE Decl(k).response
<1>1. k.class \in Classes /\ k.attr \in Attributes /\ k.resolved \in Services
  BY DEF RpcKeys
<1>2. IsValue(v) /\ v \in DeclaredValues
  <2> DEFINE both(c, a) == {ActionDecl[c][a].request, ActionDecl[c][a].response}
  <2>1. IsValue(v) /\ v \in both(k.class, k.attr)
    BY <1>1, ActionsAssumption DEF Decl
  <2> HIDE DEF both, v
  <2>2. both(k.class, k.attr) \in {both(c, a) : c \in Classes, a \in Attributes}
    BY <1>1
  <2>3. v \in UNION {both(c, a) : c \in Classes, a \in Attributes}
    BY <2>1, <2>2
  <2>4. UNION {both(c, a) : c \in Classes, a \in Attributes} = DeclaredValues
    BY DEF DeclaredValues, both
  <2> QED
    BY <2>1, <2>3, <2>4
<1>3. DeclaredValue(side, k) = ValueOf(v, k)
  BY DEF DeclaredValue
<1>4. SerializerOf[k.resolved] \in Serializers
  BY <1>1, ActionsAssumption
<1> HIDE DEF v
<1>5. CASE v = Self
  BY <1>3, <1>4, <1>5 DEF ValueOf, Creatable
<1>6. CASE v # Self
  <2>1. DeclaredValue(side, k) = v
    BY <1>3, <1>6 DEF ValueOf
  <2>2. v.kind = "string" => v.name \in GivenNames
    BY <1>2 DEF GivenNames
  <2>3. ASSUME v.kind = "dicts", NEW d \in Range(v.fields), d.kind = "name"
        PROVE  d.of \in GivenNames
    BY <1>2, <2>3 DEF GivenNames
  <2> QED
    BY <1>2, <1>6, <2>1, <2>2, <2>3 DEF IsValue, Creatable
<1> QED
  BY <1>5, <1>6

(* PairAfter is a loop over the plugins. *)
Turns(f, N, first, k, names) ==
    f = [j \in 0 .. N |-> IF j = 0 THEN first
                          ELSE Transform(Decl(k).plugins[j], f[j - 1], k, names)]

LEMMA TurnsExist ==
    ASSUME NEW N \in Nat, NEW first, NEW k, NEW names
    PROVE  \E f : Turns(f, N, first, k, names)
<1> DEFINE T == {m \in 0 .. N : \E f : Turns(f, m, first, k, names)}
           Turn(j, pair) == IF j = 0 THEN first ELSE Transform(Decl(k).plugins[j], pair, k, names)
<1>0. \A x, y : Turn(0, x) = Turn(0, y)
  OBVIOUS
<1>1. 0 \in T
  <2> DEFINE f == [j \in 0 .. 0 |-> Turn(0, <<>>)]
  <2>1. f = [j \in 0 .. 0 |-> Turn(j, f[j - 1])]
    <3>1. \A j \in 0 .. 0 : j = 0
      OBVIOUS
    <3>2. \A j \in 0 .. 0 : Turn(0, <<>>) = Turn(j, f[j - 1])
      <4> HIDE DEF f, Turn
      <4> QED
        BY <1>0, <3>1
    <3> HIDE DEF Turn
    <3> QED
      BY <3>2
  <2>2. Turns(f, 0, first, k, names)
    <3> HIDE DEF f
    <3> QED
      BY <2>1, Zenon DEF Turns
  <2>3. 0 \in 0 .. N
    OBVIOUS
  <2> HIDE DEF f
  <2> QED
    BY <2>2, <2>3
<1>2. ASSUME NEW m \in 1 .. N, m - 1 \in T PROVE m \in T
  <2>1. PICK f : Turns(f, m - 1, first, k, names)
    BY <1>2
  <2> DEFINE g == [j \in 0 .. m |-> IF j = m THEN Turn(m, f[m - 1]) ELSE f[j]]
  <2>2. \A j \in 0 .. m - 1 : f[j] = Turn(j, f[j - 1])
    <3>1. f = [j \in 0 .. m - 1 |-> Turn(j, f[j - 1])]
      BY <2>1, Zenon DEF Turns
    <3> HIDE DEF Turn
    <3> QED
      BY <3>1, Zenon
  <2>3. ASSUME NEW j \in 0 .. m PROVE g[j] = Turn(j, g[j - 1])
    <3>1. CASE j = 0
      <4>1. g[0] = f[0] /\ 0 \in 0 .. m - 1
        OBVIOUS
      <4>2. f[0] = Turn(0, f[-1])
        BY <2>2, <4>1
      <4> HIDE DEF Turn, g
      <4> QED
        BY <1>0, <3>1, <4>1, <4>2
    <3>2. CASE j # 0
      <4>1. g[j - 1] = f[j - 1] /\ (j # m => j \in 0 .. m - 1 /\ g[j] = f[j])
        BY <3>2
      <4>2. g[m] = Turn(m, f[m - 1])
        OBVIOUS
      <4> HIDE DEF Turn, g
      <4> QED
        BY <2>2, <4>1, <4>2
    <3> QED
      BY <3>1, <3>2
  <2>4. g = [j \in 0 .. m |-> Turn(j, g[j - 1])]
    <3>1. g = [j \in 0 .. m |-> g[j]]
      BY Zenon
    <3> HIDE DEF Turn, g
    <3> QED
      BY <2>3, <3>1
  <2>5. Turns(g, m, first, k, names)
    <3> HIDE DEF g
    <3> QED
      BY <2>4, Zenon DEF Turns
  <2>6. m \in 0 .. N
    OBVIOUS
  <2> HIDE DEF g
  <2> QED
    BY <2>5, <2>6
<1> HIDE DEF T
<1>3. N \in T
  <2>1. \A m \in 0 .. N : m \in T
    BY <1>1, <1>2, InductionUpTo
  <2> QED
    BY <2>1
<1> QED
  BY <1>3 DEF T

LEMMA PairTurns ==
    ASSUME NEW k \in RpcKeys
    PROVE  /\ Len(Decl(k).plugins) \in Nat
           /\ DOMAIN Decl(k).plugins = 1 .. Len(Decl(k).plugins)
           /\ \A i \in 1 .. Len(Decl(k).plugins) : Decl(k).plugins[i] \in Plugins
           /\ \A side \in {1, 2} :
                 PairAfter(0, k)[side] =
                    LET name == <<"Request", "Response">>[side]
                    IN  create(ClassOf(name, k), DeclaredValue(name, k), MessageName(name, <<>>, k))
           /\ \A i \in 1 .. Len(Decl(k).plugins) : \E names :
                 PairAfter(i, k) = Transform(Decl(k).plugins[i], PairAfter(i - 1, k), k, names)
<1> DEFINE plugins == Decl(k).plugins
           N == Len(plugins)
           made(side) == create(ClassOf(side, k), DeclaredValue(side, k), MessageName(side, <<>>, k))
           first == <<made("Request"), made("Response")>>
           names == [side \in {"Request", "Response"} |-> MessageName(side, <<"List">>, k)]
           turn == CHOOSE f : Turns(f, N, first, k, names)
<1>1. N \in Nat /\ DOMAIN plugins = 1 .. N /\ \A i \in 1 .. N : plugins[i] \in Plugins
  <2>1. plugins \in Seq(Plugins)
    BY ActionsAssumption DEF Decl, RpcKeys
  <2> QED
    BY <2>1
<1>2. \A i : PairAfter(i, k) = turn[i]
  BY DEF PairAfter, Turns
<1>3. \A side \in {1, 2} : first[side] = made(<<"Request", "Response">>[side])
  OBVIOUS
<1> HIDE DEF first, names, made
<1>4. Turns(turn, N, first, k, names)
  <2> HIDE DEF N
  <2> QED
    BY <1>1, TurnsExist, Zenon
<1> HIDE DEF turn
<1>5. turn[0] = first /\ \A i \in 1 .. N : turn[i] = Transform(plugins[i], turn[i - 1], k, names)
  <2>1. \A i \in 0 .. N : turn[i] = IF i = 0 THEN first ELSE Transform(plugins[i], turn[i - 1], k, names)
    <3> HIDE DEF N
    <3> QED
      BY <1>4, Zenon DEF Turns
  <2>2. 0 \in 0 .. N /\ \A i \in 1 .. N : i \in 0 .. N /\ i # 0
    BY <1>1
  <2> HIDE DEF N, plugins
  <2> QED
    BY <2>1, <2>2, Zenon
<1>6. \A side \in {1, 2} : PairAfter(0, k)[side] = made(<<"Request", "Response">>[side])
  BY <1>2, <1>3, <1>5
<1>7. \A i \in 1 .. N : PairAfter(i, k) = Transform(plugins[i], PairAfter(i - 1, k), k, names)
  BY <1>2, <1>5
<1> QED
  BY <1>1, <1>6, <1>7, Zenon DEF made

LEMMA PairsDeclarable ==
    ASSUME NEW k \in RpcKeys, Buildable(k)
    PROVE  \A i \in 0 .. Len(Decl(k).plugins) : Declarables(PairAfter(i, k))
<1> DEFINE plugins == Decl(k).plugins
           N == Len(plugins)
           T == {i \in 0 .. N : Declarables(PairAfter(i, k))}
<1>1. N \in Nat /\ DOMAIN plugins = 1 .. N /\ \A i \in 1 .. N : plugins[i] \in Plugins
  BY PairTurns
<1>2. ASSUME NEW i \in 1 .. N PROVE \E names : PairAfter(i, k) = Transform(plugins[i], PairAfter(i - 1, k), k, names)
  BY PairTurns
<1>3. Declarables(PairAfter(0, k))
  <2>1. ASSUME NEW side \in {1, 2} PROVE Declarable(PairAfter(0, k)[side])
    <3> DEFINE name == <<"Request", "Response">>[side]
    <3>1. PairAfter(0, k)[side] =
             create(ClassOf(name, k), DeclaredValue(name, k), MessageName(name, <<>>, k))
      BY PairTurns
    <3>2. name \in {"Request", "Response"}
      OBVIOUS
    <3> HIDE DEF name
    <3>3. ClassOf(name, k) \in {"Message", "Request", "Response"}
      BY <3>2 DEF ClassOf
    <3>4. Creatable(DeclaredValue(name, k))
      BY ValuesCreatable
    <3> QED
      BY <3>1, <3>3, <3>4, CreateDeclarable
  <2> QED
    BY <2>1 DEF Declarables
<1>4. \A i \in 1 .. N : AddsField(plugins[i], k) => PairAfter(i - 1, k)[1].kind = "message"
  <2>1. \A i \in DOMAIN plugins : AddsField(plugins[i], k) => PairAfter(i - 1, k)[1].kind = "message"
    BY Zenon DEF Buildable
  <2> HIDE DEF plugins, N
  <2> QED
    BY <1>1, <2>1
<1> HIDE DEF N, plugins
<1>5. 0 \in T
  BY <1>1, <1>3
<1>6. ASSUME NEW i \in 1 .. N, i - 1 \in T PROVE i \in T
  <2>1. Declarables(PairAfter(i - 1, k)) /\ i \in 0 .. N
    BY <1>1, <1>6
  <2>2. PICK names : PairAfter(i, k) = Transform(plugins[i], PairAfter(i - 1, k), k, names)
    BY <1>2
  <2>3. Declarables(Transform(plugins[i], PairAfter(i - 1, k), k, names))
    BY <1>1, <1>4, <2>1, TransformDeclarable
  <2> QED
    BY <2>1, <2>2, <2>3
<1> HIDE DEF T
<1>7. \A i \in 0 .. N : i \in T
  BY <1>1, <1>5, <1>6, InductionUpTo
<1> QED
  BY <1>7 DEF T, N, plugins

LEMMA RpcsDeclarable ==
    ASSUME NEW k \in DOMAIN ProtoRpcs
    PROVE  /\ Declarables(ProtoRpcs[k].types)
           /\ ProtoRpcs[k].messages = <<MessagesOf(ProtoRpcs[k].types[1]),
                                        MessagesOf(ProtoRpcs[k].types[2])>>
<1> DEFINE pair == make_proto_rpc(k)
<1>1. k \in RpcKeys /\ Buildable(k)
  BY DEF ProtoRpcs
<1>2. ProtoRpcs[k] = [types |-> pair, messages |-> <<MessagesOf(pair[1]), MessagesOf(pair[2])>>]
  BY DEF ProtoRpcs
<1>3. \A type, given : Declarable(type) => Declarable(OrEmpty(type, given))
  BY ImportedWhole DEF OrEmpty, Declarable
<1> DEFINE made == PairAfter(Len(Decl(k).plugins), k)
<1>4. pair = <<OrEmpty(made[1], Given("Request", k)), OrEmpty(made[2], Given("Response", k))>>
  BY DEF make_proto_rpc
<1>5. Declarables(made)
  <2>1. Len(Decl(k).plugins) \in 0 .. Len(Decl(k).plugins)
    BY <1>1, PairTurns
  <2> QED
    BY <1>1, <2>1, PairsDeclarable
<1> HIDE DEF pair, made
<1>6. Declarables(pair)
  BY <1>3, <1>4, <1>5 DEF Declarables
<1> QED
  BY <1>2, <1>6
--------------------------------------------------------------------------------
(* What is listed, or about to be, has messages. *)
HasMessages(rpcs, s) == \A i \in DOMAIN rpcs : Key(rpcs[i], s) \in DOMAIN ProtoRpcs

ListedMade ==
    /\ \A h \in Handlers : \A i \in DOMAIN proto_services[h] :
          HasMessages(proto_services[h][i].rpcs, proto_services[h][i].service)
    /\ current # NoRegistration => HasMessages(current.rpcs, current.service)

LEMMA MadeStays ==
    ASSUME UNCHANGED config, NEW rpcs, NEW s, HasMessages(rpcs, s) PROVE HasMessages(rpcs, s)'
  BY DEF HasMessages, Key

LEMMA MadeAppend ==
    ASSUME NEW s, NEW rpcs \in Seq(Rpcs), HasMessages(rpcs, s), NEW rpc,
           Key(rpc, s) \in DOMAIN ProtoRpcs
    PROVE  HasMessages(Append(rpcs, rpc), s)
<1> DEFINE after == Append(rpcs, rpc)
<1>1. DOMAIN after = 1 .. Len(rpcs) + 1 /\ after[Len(rpcs) + 1] = rpc /\ Len(rpcs) \in Nat
      /\ DOMAIN rpcs = 1 .. Len(rpcs) /\ \A i \in 1 .. Len(rpcs) : after[i] = rpcs[i]
  OBVIOUS
<1>2. \A i \in 1 .. Len(rpcs) + 1 : i \in 1 .. Len(rpcs) \/ i = Len(rpcs) + 1
  BY <1>1
<1> HIDE DEF after
<1>3. \A i \in DOMAIN after : Key(after[i], s) \in DOMAIN ProtoRpcs
  BY <1>1, <1>2 DEF HasMessages
<1> QED
  BY <1>3, Zenon DEF HasMessages, after

LEMMA NextMade == ASSUME TypeOK, ListedMade, [Next]_vars PROVE ListedMade'
<1>1. CASE UNCHANGED <<config, proto_services, current>>
  <2>1. \A rpcs, s : HasMessages(rpcs, s) => HasMessages(rpcs, s)'
    BY <1>1, MadeStays
  <2> QED
    BY <1>1, <2>1 DEF ListedMade
<1>2. CASE UNCHANGED config /\ RegistryNext(Lookup(current.service, Head(current.todo).attr) # Absent
                            /\ Key(NextAction, current.service) \in DOMAIN ProtoRpcs)
  <2>0. \A rpcs, s : HasMessages(rpcs, s) => HasMessages(rpcs, s)'
    BY <1>2, MadeStays
  <2>1. CASE \E h \in Handlers : CreateHandler(h)
    BY <1>1, <1>2, <2>1 DEF CreateHandler
  <2>2. ASSUME NEW h \in Handlers, NEW s \in Services, BeginRegister(h, s) PROVE ListedMade'
    <3>1. proto_services' = proto_services /\ current'.rpcs = <<>>
      BY <2>2 DEF BeginRegister
    <3>2. HasMessages(<<>>, current'.service)
      BY DEF HasMessages
    <3> QED
      BY <2>0, <3>1, <3>2 DEF ListedMade
  <2>3. ASSUME RegisterAction(Lookup(current.service, Head(current.todo).attr) # Absent
                              /\ Key(NextAction, current.service) \in DOMAIN ProtoRpcs)
        PROVE  ListedMade'
    <3>1. proto_services' = proto_services
      BY <2>3 DEF RegisterAction
    <3>2. \/ current' = NoRegistration
          \/ /\ Key(NextAction, current.service) \in DOMAIN ProtoRpcs
             /\ current' = [current EXCEPT !.todo = Tail(@), !.rpcs = Append(@, NextAction)]
      BY <2>3, Zenon DEF RegisterAction
    <3>3. CASE current' = NoRegistration
      BY <2>0, <3>1, <3>3 DEF ListedMade
    <3>4. CASE /\ Key(NextAction, current.service) \in DOMAIN ProtoRpcs
               /\ current' = [current EXCEPT !.todo = Tail(@), !.rpcs = Append(@, NextAction)]
      <4>1. current # NoRegistration
        BY <2>3, Zenon DEF RegisterAction
      <4>2. current \in [handler : Handlers, service : Services,
                         todo : Seq([class : Classes, attr : Attributes]), rpcs : Seq(Rpcs)]
        BY <4>1 DEF TypeOK
      <4>3. current'.rpcs = Append(current.rpcs, NextAction) /\ current'.service = current.service
            /\ current.rpcs \in Seq(Rpcs)
        BY <3>4, <4>2
      <4>4. HasMessages(current'.rpcs, current'.service)
        BY <3>4, <4>1, <4>3, MadeAppend DEF ListedMade
      <4> QED
        BY <2>0, <3>1, <4>4 DEF ListedMade
    <3> QED
      BY <3>2, <3>3, <3>4
  <2>4. ASSUME NEW known \in BOOLEAN, EndRegister(known) PROVE ListedMade'
    <3>1. current # NoRegistration /\ current' = NoRegistration
      BY <2>4 DEF EndRegister
    <3> DEFINE h == current.handler
               old == proto_services[h]
               listing == [service |-> current.service, rpcs |-> current.rpcs]
    <3>2. proto_services' = [proto_services EXCEPT ![h] = Append(@, listing)]
      BY <2>4 DEF EndRegister
    <3>3. h \in Handlers /\ proto_services \in [Handlers -> Seq([service : Services, rpcs : Seq(Rpcs)])]
      BY <3>1 DEF TypeOK
    <3>4. HasMessages(listing.rpcs, listing.service)
      BY <3>1 DEF ListedMade
    <3> HIDE DEF listing
    <3>5. ASSUME NEW g \in Handlers, NEW i \in DOMAIN proto_services'[g]
          PROVE  HasMessages(proto_services'[g][i].rpcs, proto_services'[g][i].service)
      <4>1. CASE g # h
        <5>1. proto_services'[g] = proto_services[g]
          BY <3>2, <3>3, <4>1
        <5> QED
          BY <3>5, <5>1 DEF ListedMade
      <4>2. CASE g = h
        <5>1. proto_services'[g] = Append(old, listing)
          BY <3>2, <3>3, <4>2
        <5>2. \E S : old \in Seq(S)
          BY <3>3
        <5>3. (i \in DOMAIN old /\ proto_services'[g][i] = old[i]) \/ proto_services'[g][i] = listing
          <6> HIDE DEF old
          <6> QED
            BY <3>5, <5>1, <5>2
        <5> QED
          BY <3>3, <3>4, <5>3 DEF ListedMade
      <4> QED
        BY <4>1, <4>2
    <3> QED
      BY <2>0, <3>1, <3>5 DEF ListedMade
  <2> QED
    BY <1>2, <2>1, <2>2, <2>3, <2>4 DEF RegistryNext
<1> QED
  BY <1>1, <1>2 DEF Next, vars, rvars, gvars, StartCommand, CheckApp, WriteApp

LEMMA DeclarableCollection ==
    ASSUME NEW type, Declarable(type) PROVE Collection(MessagesOf(type))
<1>1. CASE Whole(type)
  BY <1>1, MessagesOfWhole
<1>2. CASE ~Whole(type)
  <2>1. MessagesOf(type) = <<>>
    BY <1>2 DEF Declarable, MessagesOf
  <2> QED
    BY <2>1, EmptyCollection
<1> QED
  BY <1>1, <1>2

LEMMA RpcCollection ==
    ASSUME NEW k \in DOMAIN ProtoRpcs
    PROVE  /\ Collection(UpdateAll(ProtoRpcs[k].messages))
           /\ \A side \in {1, 2} : DOMAIN MessagesOf(ProtoRpcs[k].types[side]) \subseteq
                                       DOMAIN UpdateAll(ProtoRpcs[k].messages)
<1> DEFINE one == MessagesOf(ProtoRpcs[k].types[1])
           other == MessagesOf(ProtoRpcs[k].types[2])
           pair == <<one, other>>
<1>1. ProtoRpcs[k].messages = pair /\ Declarables(ProtoRpcs[k].types)
  BY RpcsDeclarable
<1>2. Collection(one) /\ Collection(other)
  BY <1>1, DeclarableCollection DEF Declarables
<1>3. DOMAIN pair = 1 .. 2 /\ pair[1] = one /\ pair[2] = other /\ 2 \in Nat
  OBVIOUS
<1>4. Joined(UpdateAll(pair), one, other)
  BY UpdateTwo, Zenon
<1> HIDE DEF one, other, pair
<1>5. Collection(UpdateAll(pair))
  <2>1. \A i \in 1 .. 2 : Collection(pair[i])
    BY <1>2, <1>3
  <2> QED
    BY <1>3, <2>1, CollectionUpdate, Zenon
<1>6. DOMAIN one \subseteq DOMAIN UpdateAll(pair) /\ DOMAIN other \subseteq DOMAIN UpdateAll(pair)
  BY <1>4 DEF Joined
<1> QED
  BY <1>1, <1>5, <1>6 DEF one, other

LEMMA ServiceCollection ==
    ASSUME NEW listing, listing.rpcs \in Seq(Rpcs), HasMessages(listing.rpcs, listing.service)
    PROVE  /\ Collection(ServiceMessages(listing))
           /\ \A i \in DOMAIN listing.rpcs :
                 DOMAIN UpdateAll(ProtoRpcs[Key(listing.rpcs[i], listing.service)].messages)
                     \subseteq DOMAIN ServiceMessages(listing)
<1> DEFINE N == Len(listing.rpcs)
           of(rpc) == UpdateAll(ProtoRpcs[Key(rpc, listing.service)].messages)
           dicts == [i \in 1 .. N |-> of(listing.rpcs[i])]
<1>1. N \in Nat /\ DOMAIN listing.rpcs = 1 .. N
  OBVIOUS
<1>2. ServiceMessages(listing) = UpdateAll(dicts)
  BY <1>1 DEF ServiceMessages, MapEach
<1>3. \A i \in 1 .. N : Collection(of(listing.rpcs[i]))
  BY <1>1, RpcCollection DEF HasMessages
<1> HIDE DEF of
<1>4. DOMAIN dicts = 1 .. N /\ \A i \in 1 .. N : dicts[i] = of(listing.rpcs[i])
  OBVIOUS
<1> HIDE DEF dicts, N
<1>5. Collection(UpdateAll(dicts)) /\ Assembled(UpdateAll(dicts), dicts, N)
  <2>1. \A i \in 1 .. N : Collection(dicts[i])
    BY <1>3, <1>4
  <2> QED
    BY <1>1, <1>4, <2>1, CollectionUpdate, UpdateAllFacts, Zenon
<1>6. \A i \in 1 .. N : DOMAIN of(listing.rpcs[i]) \subseteq DOMAIN UpdateAll(dicts)
  BY <1>4, <1>5 DEF Assembled
<1> QED
  BY <1>1, <1>2, <1>5, <1>6 DEF of

(* All the messages of a handler resolve what they refer to, and have those of *)
(* each of its RPCs.                                                           *)
LEMMA AllCollection ==
    ASSUME TypeOK, ListedMade, NEW h \in Handlers
    PROVE  /\ Collection(AllMessages(h))
           /\ \A listing \in Range(proto_services[h]) : \A rpc \in Range(listing.rpcs) :
                 /\ Key(rpc, listing.service) \in DOMAIN ProtoRpcs
                 /\ \A side \in {1, 2} :
                       DOMAIN MessagesOf(ProtoRpcs[Key(rpc, listing.service)].types[side])
                           \subseteq DOMAIN AllMessages(h)
<1> DEFINE listings == proto_services[h]
           N == Len(listings)
           dicts == [i \in 1 .. N |-> ServiceMessages(listings[i])]
<1>1. N \in Nat /\ DOMAIN listings = 1 .. N
      /\ \A i \in 1 .. N : listings[i] \in [service : Services, rpcs : Seq(Rpcs)]
  <2> DEFINE S == [service : Services, rpcs : Seq(Rpcs)]
  <2>1. listings \in Seq(S)
    BY DEF TypeOK
  <2> HIDE DEF listings, S
  <2>2. N \in Nat /\ DOMAIN listings = 1 .. N /\ \A i \in 1 .. N : listings[i] \in S
    BY <2>1
  <2> QED
    BY <2>2 DEF S
<1>2. \A i \in 1 .. N : listings[i].rpcs \in Seq(Rpcs) /\ HasMessages(listings[i].rpcs, listings[i].service)
  BY <1>1 DEF ListedMade
<1>3. AllMessages(h) = UpdateAll(dicts)
  BY <1>1 DEF AllMessages, MapEach
<1>4. DOMAIN dicts = 1 .. N /\ \A i \in 1 .. N : dicts[i] = ServiceMessages(listings[i])
  OBVIOUS
<1> HIDE DEF dicts, N, listings
<1>5. Collection(UpdateAll(dicts)) /\ Assembled(UpdateAll(dicts), dicts, N)
  <2>1. \A i \in 1 .. N : Collection(dicts[i])
    BY <1>2, <1>4, ServiceCollection
  <2> QED
    BY <1>1, <1>4, <2>1, CollectionUpdate, UpdateAllFacts, Zenon
<1>6. \A i \in 1 .. N : DOMAIN ServiceMessages(listings[i]) \subseteq DOMAIN UpdateAll(dicts)
  BY <1>4, <1>5 DEF Assembled
<1>7. ASSUME NEW i \in 1 .. N, NEW j \in DOMAIN listings[i].rpcs
      PROVE  LET k == Key(listings[i].rpcs[j], listings[i].service)
             IN  /\ k \in DOMAIN ProtoRpcs
                 /\ \A side \in {1, 2} : DOMAIN MessagesOf(ProtoRpcs[k].types[side])
                                             \subseteq DOMAIN UpdateAll(dicts)
  <2> DEFINE k == Key(listings[i].rpcs[j], listings[i].service)
  <2>1. k \in DOMAIN ProtoRpcs
    BY <1>2 DEF HasMessages
  <2>2. DOMAIN UpdateAll(ProtoRpcs[k].messages) \subseteq DOMAIN ServiceMessages(listings[i])
    BY <1>2, ServiceCollection
  <2> HIDE DEF k
  <2>3. \A side \in {1, 2} : DOMAIN MessagesOf(ProtoRpcs[k].types[side]) \subseteq
                                 DOMAIN UpdateAll(ProtoRpcs[k].messages)
    BY <2>1, RpcCollection
  <2>4. DOMAIN ServiceMessages(listings[i]) \subseteq DOMAIN UpdateAll(dicts)
    BY <1>6
  <2>5. /\ k \in DOMAIN ProtoRpcs
        /\ \A side \in {1, 2} : DOMAIN MessagesOf(ProtoRpcs[k].types[side])
                                    \subseteq DOMAIN UpdateAll(dicts)
    BY <2>1, <2>2, <2>3, <2>4, Zenon
  <2> QED
    BY <2>5 DEF k
<1> QED
  BY <1>1, <1>3, <1>5, <1>7 DEF Range, listings

LEMMA ProtoResolves ==
    ASSUME TypeOK, ListedMade, NEW h \in Handlers
    PROVE  (FieldTypes(Proto(h)) \cup RpcTypes(Proto(h))) \ (GivenNames \cup {<<>>})
               \subseteq KnownNames(Proto(h))
<1> DEFINE f == Proto(h)
           all == AllMessages(h)
           listings == proto_services[h]
           own == {n \in DOMAIN all : ~all[n].imported}
           lines(listing) == {RpcLine(rpc.name, ProtoRpcs[Key(rpc, listing.service)].types) :
                                 rpc \in Range(listing.rpcs)}
           of(s) == Select(listings, {l \in Range(listings) : l.service = s})
<1>1. /\ DOMAIN f.messages = own
      /\ \A n \in own : f.messages[n] = MessageLines(all[n])
      /\ f.imports = {n \in DOMAIN all : all[n].imported}
      /\ f.enums = {g.type.name : g \in {x \in UNION {Range(all[n].fields) : n \in own} :
                                            x.type.kind = "enum"}}
      /\ f.services = [s \in {l.service : l \in Range(listings)} |-> MapEach(of(s), lines)]
  BY DEF Proto, FileOf
<1>2. Collection(all)
  BY AllCollection
<1> HIDE DEF f, all
<1>3. DOMAIN all \subseteq KnownNames(f)
  BY <1>1 DEF KnownNames
<1>4. ASSUME NEW t \in FieldTypes(f), t \notin GivenNames \cup {<<>>} PROVE t \in KnownNames(f)
  <2>1. PICK n \in own : \E line \in Range(f.messages[n].fields) : t = line.type
    <3>1. PICK line \in UNION {Range(f.messages[n].fields) : n \in DOMAIN f.messages} : t = line.type
      BY Zenon DEF FieldTypes
    <3>2. \E n \in DOMAIN f.messages : line \in Range(f.messages[n].fields)
      BY <3>1
    <3> HIDE DEF own
    <3> QED
      BY <1>1, <3>1, <3>2
  <2>2. PICK g \in Range(all[n].fields) : t = TypeName(g.type)
    <3> DEFINE fields == [i \in DOMAIN all[n].fields |->
                             [name |-> all[n].fields[i].name, type |-> TypeName(all[n].fields[i].type)]]
    <3>1. MessageLines(all[n]) = [serializer |-> all[n].serializer, fields |-> fields]
      BY DEF MessageLines, MapEach
    <3>2. f.messages[n].fields = fields
      <4>1. f.messages[n] = MessageLines(all[n])
        BY <1>1, <2>1, Zenon
      <4> HIDE DEF fields
      <4> QED
        BY <3>1, <4>1
    <3>3. \E i \in DOMAIN all[n].fields : t = TypeName(all[n].fields[i].type)
      BY <2>1, <3>2 DEF Range
    <3> QED
      BY <3>3 DEF Range
  <2>3. FieldResolves(g, DOMAIN all)
    BY <1>2 DEF Collection, MessageResolves
  <2>4. CASE g.type.kind \in {"ref", "name"}
    <3>1. t = g.type.name /\ g.type.name \in DOMAIN all \cup GivenNames
      BY <2>2, <2>3, <2>4 DEF FieldResolves, TypeName
    <3> QED
      BY <1>3, <1>4, <3>1
  <2>5. CASE g.type.kind = "enum"
    <3>1. t = g.type.name
      BY <2>2, <2>5 DEF TypeName
    <3>2. t \in f.enums
      <4>1. g \in UNION {Range(all[x].fields) : x \in own}
        BY <2>1, <2>2
      <4> QED
        BY <1>1, <2>5, <3>1, <4>1
    <3> QED
      BY <3>2 DEF KnownNames
  <2>6. CASE g.type.kind \notin {"ref", "name", "enum"}
    <3>1. t = <<>>
      BY <2>2, <2>3, <2>6 DEF FieldResolves, TypeName
    <3> QED
      BY <1>4, <3>1
  <2> QED
    BY <2>4, <2>5, <2>6
<1>5. ASSUME NEW t \in RpcTypes(f), t \notin GivenNames \cup {<<>>} PROVE t \in KnownNames(f)
  <2>1. PICK s \in DOMAIN f.services : \E set \in Range(f.services[s]) : \E line \in set :
           t \in {line.request, line.response}
    BY DEF RpcTypes
  <2>2. PICK listing \in Range(listings) : \E line \in lines(listing) :
           t \in {line.request, line.response}
    <3>1. f.services[s] = MapEach(of(s), lines)
      BY <1>1, <2>1
    <3>2. Range(of(s)) \subseteq Range(listings)
      <4>1. listings \in Seq([service : Services, rpcs : Seq(Rpcs)])
        BY DEF TypeOK
      <4> HIDE DEF listings
      <4> QED
        BY <4>1, SelectFacts
    <3> HIDE DEF of, lines
    <3>3. \E i \in DOMAIN of(s) : \E line \in lines(of(s)[i]) : t \in {line.request, line.response}
      BY <2>1, <3>1 DEF Range, MapEach
    <3> QED
      BY <3>2, <3>3 DEF Range
  <2>3. PICK rpc \in Range(listing.rpcs) :
           LET line == RpcLine(rpc.name, ProtoRpcs[Key(rpc, listing.service)].types)
           IN  t \in {line.request, line.response}
    BY <2>2
  <2> DEFINE types == ProtoRpcs[Key(rpc, listing.service)].types
  <2>4. Declarables(types) /\ \A side \in {1, 2} : DOMAIN MessagesOf(types[side]) \subseteq DOMAIN all
    BY <2>2, <2>3, AllCollection, RpcsDeclarable DEF all
  <2>5. PICK side \in {1, 2} : t = TypeName(types[side])
    BY <2>3 DEF RpcLine
  <2> HIDE DEF types
  <2>6. CASE Whole(types[side])
    <3>1. t = types[side].message.name /\ t \in DOMAIN MessagesOf(types[side])
      BY <2>5, <2>6, MessagesOfWhole DEF TypeName, NamesOf
    <3> QED
      BY <1>3, <2>4, <2>5, <3>1
  <2>7. CASE ~Whole(types[side])
    <3>1. t \in GivenNames
      BY <2>4, <2>5, <2>7 DEF Declarables, Declarable, TypeName
    <3> QED
      BY <1>5, <3>1
  <2> QED
    BY <2>6, <2>7
<1> QED
  BY <1>4, <1>5 DEF f

(* What is known of every state: the invariant the theorems on files rest on. *)
LEMMA GenerationKnown == GenerationSpec => [](TypeOK /\ JobInv /\ ListedMade)
<1>1. GenerationInit => JobInv /\ ListedMade
  <2> SUFFICES ASSUME GenerationInit PROVE JobInv /\ ListedMade
    OBVIOUS
  <2>1. JobInv
    BY DEF GenerationInit, JobInv
  <2>2. (\A h \in Handlers : proto_services[h] = <<>>) /\ current = NoRegistration
    BY DEF GenerationInit, Init
  <2>3. \A x : x \notin DOMAIN <<>>
    OBVIOUS
  <2>4. ListedMade
    BY <2>2, <2>3 DEF ListedMade
  <2> QED
    BY <2>1, <2>4
<1>2. TypeOK /\ JobInv /\ ListedMade /\ [Next]_vars => JobInv' /\ ListedMade'
  BY StepJob, NextMade
<1>3. GenerationSpec => []TypeOK
  BY RegistrationHolds, PTL
<1> QED
  BY <1>1, <1>2, <1>3, PTL DEF GenerationSpec

(* from_serializer, name_if_recursive; get_all_messages. Whatever is           *)
(* registered and however the developer names messages, every type a file      *)
(* refers to is declared or imported there, or is a name the developer gave.   *)
THEOREM NoDanglingReference == GenerationSpec => []ReferencesResolve
<1>1. ASSUME TypeOK, JobInv, ListedMade PROVE ReferencesResolve
  <2>1. CASE job = NoJob
    <3>1. Protos = {}
      BY <2>1 DEF Protos, NoJob
    <3> QED
      BY <3>1 DEF ReferencesResolve
  <2>2. CASE job # NoJob
    <3> SUFFICES ASSUME NEW f \in Protos
                 PROVE  (FieldTypes(f) \cup RpcTypes(f)) \ (GivenNames \cup {<<>>})
                            \subseteq KnownNames(f)
      BY DEF ReferencesResolve
    <3>1. PICK a \in Registered : f = Proto(registered_apps[a])
      BY <1>1, <2>2 DEF Protos, JobInv
    <3>2. registered_apps[a] \in Handlers
      BY <1>1 DEF Registered, TypeOK
    <3> QED
      BY <1>1, <3>1, <3>2, ProtoResolves
  <2> QED
    BY <2>1, <2>2
<1>2. TypeOK /\ JobInv /\ ListedMade => ReferencesResolve
  BY <1>1
<1> QED
  BY <1>2, GenerationKnown, PTL
--------------------------------------------------------------------------------
(* Requests and responses apart. A message shows nothing its class leaves out. *)
KeepsSide(m, class) ==
    m.serializer # NoSerializer =>
        \A f \in Range(m.fields) : f.name \notin AddedNames =>
            \A d \in Range(FieldsOf[m.serializer]) : d.name = f.name => ~LeftOut(class, d, m.serializer)

(* It refers to the names in D only, also where the developer chose some.      *)
Closed(m, D) == \A f \in Range(m.fields) : f.type.kind \in {"ref", "name"} => f.type.name \in D
Apart(m, class, D) == KeepsSide(m, class) /\ Closed(m, D)

(* So do a message and those nested in it, and the type of a field in message  *)
(* self.                                                                       *)
Sided(type, class) ==
    type.kind = "message" =>
        /\ Apart(type.message, class, NamesOf(type))
        /\ \A n \in DOMAIN type.below : Apart(type.below[n], class, NamesOf(type))
SidedIn(type, class, self) ==
    /\ Sided(type, class)
    /\ type.kind # "ref" /\ (type.kind = "name" => type.name = self)

(* A method field returns a message of responses: requests have none if these  *)
(* fields are read-only, as they are, and none is a primary key.               *)
MethodsAreRead ==
    \A z \in Serializers : \A f \in Range(FieldsOf[z]) :
        f.kind = "method" => f.read_only /\ f.name # PkOf[z]

LEMMA MessagesOfSided ==
    ASSUME NEW type, NEW class, Sided(type, class)
    PROVE  /\ type.kind = "message" => DOMAIN MessagesOf(type) = NamesOf(type)
           /\ \A n \in DOMAIN MessagesOf(type) :
                 Apart(MessagesOf(type)[n], class, DOMAIN MessagesOf(type))
<1>1. CASE type.kind # "message"
  BY <1>1 DEF MessagesOf
<1>2. CASE type.kind = "message"
  <2> DEFINE mine == [n \in {type.message.name} |-> type.message]
             all == UpdateAll(<<mine, type.below>>)
  <2>1. MessagesOf(type) = all
    BY <1>2 DEF MessagesOf
  <2>2. DOMAIN mine = {type.message.name} /\ \A n \in DOMAIN mine : mine[n] = type.message
    OBVIOUS
  <2> HIDE DEF mine
  <2>3. Joined(all, mine, type.below)
    BY UpdateTwo, Zenon
  <2> HIDE DEF all
  <2>4. DOMAIN all = NamesOf(type)
    BY <2>2, <2>3 DEF Joined, NamesOf
  <2> QED
    BY <1>2, <2>1, <2>2, <2>3, <2>4 DEF Joined, Sided
<1> QED
  BY <1>1, <1>2

LEMMA MoreApart ==
    ASSUME NEW m, NEW class, NEW C, NEW D, C \subseteq D, Apart(m, class, C)
    PROVE  Apart(m, class, D)
  BY DEF Apart, Closed

LEMMA NewMessageSided ==
    ASSUME NEW name, NEW fields, NEW z, NEW class, NEW N \in Nat, DOMAIN fields = 1 .. N,
           \A i \in 1 .. N : SidedIn(fields[i].type, class, name),
           z # NoSerializer => \A i \in 1 .. N : \A d \in Range(FieldsOf[z]) :
                                  d.name = fields[i].name => ~LeftOut(class, d, z)
    PROVE  /\ Sided(NewMessage(name, fields, z), class)
           /\ NewMessage(name, fields, z).kind = "message"
<1> DEFINE flat == [i \in 1 .. N |-> Flat(fields[i])]
           below == [i \in 1 .. N |-> MessagesOf(fields[i].type)]
           all == UpdateAll(below)
           m == [name |-> name, fields |-> flat, serializer |-> z, imported |-> FALSE]
           D == {name} \cup DOMAIN all
<1>1. NewMessage(name, fields, z) = Made(m, all)
  BY DEF NewMessage, Message, MapEach
<1>2. DOMAIN below = 1 .. N /\ \A i \in 1 .. N : below[i] = MessagesOf(fields[i].type)
  OBVIOUS
<1> HIDE DEF below
<1>3. Assembled(all, below, N)
  BY <1>2, UpdateAllFacts, Zenon
<1> HIDE DEF all
<1>4. \A n \in DOMAIN all : Apart(all[n], class, D)
  <2>1. \A i \in 1 .. N : \A n \in DOMAIN below[i] : Apart(below[i][n], class, DOMAIN below[i])
    BY <1>2, MessagesOfSided DEF SidedIn
  <2>2. \A i \in 1 .. N : DOMAIN below[i] \subseteq D
    BY <1>3 DEF Assembled
  <2> HIDE DEF D
  <2>3. \A i \in 1 .. N : \A n \in DOMAIN below[i] : Apart(below[i][n], class, D)
    BY <2>1, <2>2, MoreApart
  <2> QED
    BY <1>3, <2>3 DEF Assembled
<1>5. KeepsSide(m, class)
  <2>1. \A f \in Range(flat) : \E i \in 1 .. N : f.name = fields[i].name
    BY DEF Range, Flat, ProtoField
  <2> QED
    BY <2>1 DEF KeepsSide
<1>6. Closed(m, D)
  <2>1. ASSUME NEW i \in 1 .. N, flat[i].type.kind \in {"ref", "name"}
        PROVE  flat[i].type.name \in D
    <3>1. flat[i] = Flat(fields[i]) /\ SidedIn(fields[i].type, class, name)
      OBVIOUS
    <3>2. CASE fields[i].type.kind = "message"
      <4>1. flat[i].type.name = fields[i].type.message.name
        BY <3>1, <3>2 DEF Flat, ProtoField, Ref
      <4>2. fields[i].type.message.name \in DOMAIN below[i]
        BY <1>2, <3>1, <3>2, MessagesOfSided DEF SidedIn, NamesOf
      <4> QED
        BY <1>3, <4>1, <4>2 DEF Assembled
    <3>3. CASE fields[i].type.kind # "message"
      <4>1. flat[i] = fields[i]
        BY <3>1, <3>3 DEF Flat
      <4> HIDE DEF flat
      <4> QED
        BY <2>1, <3>1, <4>1 DEF SidedIn
    <3> QED
      BY <3>2, <3>3
  <2>2. DOMAIN flat = 1 .. N
    OBVIOUS
  <2> HIDE DEF flat, D
  <2> QED
    BY <2>1, <2>2 DEF Closed, Range
<1>7. NamesOf(Made(m, all)) = D
  BY DEF NamesOf, Made
<1> HIDE DEF m, D
<1>8. Sided(Made(m, all), class) /\ Made(m, all).kind = "message"
  BY <1>4, <1>5, <1>6, <1>7 DEF Sided, Apart, Made
<1> QED
  BY <1>1, <1>8

LEMMA ImportedSided ==
    ASSUME NEW class PROVE Sided(EmptyMessage, class) /\ Sided(StructMessage, class)
<1>1. DOMAIN <<>> = {} /\ Range(<<>>) = {}
  BY DEF Range
<1> QED
  BY <1>1 DEF Sided, Apart, Closed, EmptyMessage, StructMessage, Made, Imported, KeepsSide

LEMMA SerializerSided ==
    ASSUME NEW class \in {"Request", "Response"}, class = "Request" => MethodsAreRead,
           NEW z \in Serializers, NEW name,
           NEW made,
           \A y \in Serializers : Sided(made[<<class, y>>], class) /\ made[<<class, y>>].kind = "message"
    PROVE  /\ Sided(SerializerMessage(class, z, name, made), class)
           /\ SerializerMessage(class, z, name, made).kind = "message"
<1> DEFINE kept == Kept(class, z)
           N == Len(kept)
           type(f) == CASE f.kind = "nested" /\ f.of = z -> Named(RecursiveName(name, class, z))
                        [] f.kind = "struct" -> StructMessage
                        [] \E next \in Follows(class, z, f) : TRUE ->
                              made[CHOOSE next \in Follows(class, z, f) : TRUE]
                        [] OTHER -> Text
           field(f) == ProtoField(f.name, type(f))
           self == IF name = <<>> THEN DefaultName(z, class) ELSE name
           fields == [i \in 1 .. N |-> field(kept[i])]
<1>1. N \in Nat /\ DOMAIN kept = 1 .. N
      /\ \A i \in 1 .. N : kept[i] \in Range(FieldsOf[z]) /\ ~skip_field(class, kept[i], PkOf[z])
  <2>1. FieldsOf[z] \in Seq(Range(FieldsOf[z]))
    BY SerializersAssumption
  <2> DEFINE S == {f \in Range(FieldsOf[z]) : ~skip_field(class, f, PkOf[z])}
  <2>2. kept \in Seq(Range(FieldsOf[z])) /\ Range(kept) = Range(FieldsOf[z]) \cap S
    BY <2>1, SelectFacts DEF Kept
  <2>3. N \in Nat /\ DOMAIN kept = 1 .. N /\ \A i \in 1 .. N : kept[i] \in Range(kept)
    <3> HIDE DEF kept
    <3> QED
      BY <2>2 DEF Range
  <2> HIDE DEF kept, N
  <2> QED
    BY <2>2, <2>3
<1>2. SerializerMessage(class, z, name, made) = NewMessage(self, fields, z)
  BY <1>1 DEF SerializerMessage, MapEach
<1>3. ASSUME NEW f \in Range(FieldsOf[z]), ~skip_field(class, f, PkOf[z])
      PROVE  SidedIn(type(f), class, self)
  <2>1. CASE f.kind = "nested" /\ f.of = z
    <3>1. type(f) = Named(RecursiveName(name, class, z))
      BY <2>1 DEF Follows, MethodReturns
    <3>2. RecursiveName(name, class, z) = self
      BY DEF RecursiveName
    <3> HIDE DEF type, self
    <3> QED
      BY <3>1, <3>2 DEF SidedIn, Sided, Named
  <2>2. CASE f.kind = "struct"
    <3>1. type(f) = StructMessage
      BY <2>2 DEF Follows, MethodReturns
    <3> HIDE DEF type
    <3> QED
      BY <3>1, ImportedSided DEF SidedIn, StructMessage, Made
  <2>3. CASE ~(f.kind = "nested" /\ f.of = z) /\ f.kind # "struct"
             /\ \E next \in Follows(class, z, f) : TRUE
    <3> DEFINE next == CHOOSE next \in Follows(class, z, f) : TRUE
    <3>1. next \in Follows(class, z, f)
      BY <2>3
    <3>2. type(f) = made[next]
      BY <2>3
    <3>3. class = "Request" => f.kind # "method"
      BY <1>3 DEF skip_field, MethodsAreRead
    <3> HIDE DEF next, type
    <3>4. f.of \in Serializers /\ next = <<class, f.of>>
      BY <3>1, <3>3, SerializersAssumption DEF Follows, MethodReturns
    <3> QED
      BY <3>2, <3>4 DEF SidedIn
  <2>4. CASE ~(f.kind = "nested" /\ f.of = z) /\ f.kind # "struct"
             /\ ~\E next \in Follows(class, z, f) : TRUE
    <3>1. type(f) = Text
      BY <2>4
    <3> HIDE DEF type
    <3> QED
      BY <3>1 DEF SidedIn, Sided, Text
  <2> QED
    BY <2>1, <2>2, <2>3, <2>4
<1>4. DOMAIN fields = 1 .. N
      /\ \A i \in 1 .. N : fields[i].type = type(kept[i]) /\ fields[i].name = kept[i].name
  BY DEF ProtoField
<1> HIDE DEF type, self, fields, N, kept
<1>5. \A i \in 1 .. N : SidedIn(fields[i].type, class, self)
  BY <1>1, <1>3, <1>4
<1>6. ASSUME NEW i \in 1 .. N, NEW d \in Range(FieldsOf[z]), d.name = fields[i].name
      PROVE  ~LeftOut(class, d, z)
  <2>1. d = kept[i]
    BY <1>1, <1>4, <1>6, SerializersAssumption
  <2> QED
    BY <1>1, <2>1 DEF LeftOut, skip_field
<1>7. Sided(NewMessage(self, fields, z), class) /\ NewMessage(self, fields, z).kind = "message"
  BY <1>1, <1>4, <1>5, <1>6, NewMessageSided
<1> QED
  BY <1>2, <1>7

LEMMA FromSerializerSided ==
    ASSUME NEW class \in {"Request", "Response"}, class = "Request" => MethodsAreRead,
           NEW z \in Serializers, NEW name
    PROVE  /\ Sided(from_serializer(class, z, name), class)
           /\ from_serializer(class, z, name).kind = "message"
<1> DEFINE good(type) == Sided(type, class) /\ type.kind = "message"
           T == {n \in 0 .. Depth : \A y \in Serializers : good(Converted[n][<<class, y>>])}
<1>0. \A y \in Serializers : <<class, y>> \in Pairs
  BY DEF Pairs
<1>1. 0 \in T
  <2>1. 0 \in 0 .. Depth
    BY DepthIsFinite
  <2>2. Converted[0] = [p \in Pairs |-> EmptyMessage]
    BY <2>1, ConvertedLevels
  <2> QED
    BY <1>0, <2>1, <2>2, ImportedSided DEF EmptyMessage, Made
<1>2. ASSUME NEW n \in 1 .. Depth, n - 1 \in T PROVE n \in T
  <2>1. n \in 0 .. Depth /\ n # 0
    BY DepthIsFinite
  <2>2. Converted[n] = [p \in Pairs |-> SerializerMessage(p[1], p[2], <<>>, Converted[n - 1])]
    BY <2>1, ConvertedLevels
  <2>3. ASSUME NEW y \in Serializers PROVE good(Converted[n][<<class, y>>])
    <3>1. Converted[n][<<class, y>>] = SerializerMessage(class, y, <<>>, Converted[n - 1])
      BY <1>0, <2>2
    <3> QED
      BY <1>2, <3>1, SerializerSided
  <2> QED
    BY <2>1, <2>3
<1> HIDE DEF T
<1>3. Depth \in T
  <2>1. \A m \in 0 .. Depth : m \in T
    BY <1>1, <1>2, DepthIsFinite, InductionUpTo
  <2> QED
    BY <2>1, DepthIsFinite
<1> DEFINE made == Converted[Depth]
<1>4. \A y \in Serializers : good(made[<<class, y>>])
  BY <1>3 DEF T
<1> HIDE DEF made
<1>5. good(SerializerMessage(class, z, name, made))
  BY <1>4, SerializerSided
<1> QED
  BY <1>5 DEF from_serializer, made

LEMMA RetypedSided ==
    ASSUME NEW m, NEW n, NEW D, NEW class, MessageResolves(m, D), Retyped(m, n),
           \A i \in DOMAIN m.fields : n.fields[i].name = m.fields[i].name, Apart(m, class, D)
    PROVE  Apart(n, class, D) /\ n.name = m.name
<1>1. m = [name |-> m.name, fields |-> m.fields, serializer |-> m.serializer,
           imported |-> m.imported]
  BY DEF MessageResolves
<1>2. n = [m EXCEPT !.fields = n.fields] /\ DOMAIN n.fields = DOMAIN m.fields
  BY DEF Retyped
<1>3. n.serializer = m.serializer
  BY <1>1, <1>2
<1>4. \A f \in Range(n.fields) : \E g \in Range(m.fields) : g.name = f.name
  BY <1>2 DEF Range
<1>5. KeepsSide(n, class)
  BY <1>3, <1>4 DEF KeepsSide, Apart
<1>6. \A f \in Range(n.fields) : f \in Range(m.fields) \/ f.type.kind = "enum"
  BY <1>2 DEF Range, Retyped
<1>7. Closed(n, D)
  BY <1>6 DEF Closed, Apart
<1> QED
  BY <1>5, <1>7, RetypedResolves DEF Apart

LEMMA EnumsSetSided ==
    ASSUME NEW m, NEW D, NEW class, MessageResolves(m, D), Apart(m, class, D)
    PROVE  Apart(EnumsSet(m), class, D) /\ EnumsSet(m).name = m.name
<1> DEFINE enums == IF m.serializer = NoSerializer THEN <<>> ELSE EnumsOf(m.serializer)
           converted(f) == IF f.name \in DOMAIN enums
                           THEN ProtoField(f.name, Enum(enums[f.name])) ELSE f
           fields == [i \in DOMAIN m.fields |-> converted(m.fields[i])]
           n == EnumsSet(m)
<1>1. n = [m EXCEPT !.fields = fields]
  BY DEF EnumsSet, MapEach
<1>2. \A f : converted(f).name = f.name
  BY DEF ProtoField
<1> HIDE DEF converted
<1>3. n.fields = fields
  <2>1. m = [name |-> m.name, fields |-> m.fields, serializer |-> m.serializer,
             imported |-> m.imported]
    BY DEF MessageResolves
  <2> HIDE DEF n, fields
  <2> QED
    BY <1>1, <2>1
<1>4. \A i \in DOMAIN m.fields : n.fields[i].name = m.fields[i].name
  <2> HIDE DEF n
  <2> QED
    BY <1>2, <1>3
<1> QED
  BY <1>4, EnumsSetRetypes, RetypedSided

LEMMA SerializerEnumsSided ==
    ASSUME NEW type, NEW class, Whole(type), Sided(type, class)
    PROVE  Sided(handle_serializer(type), class) /\ handle_serializer(type).kind = "message"
<1> DEFINE m == EnumsSet(type.message)
           below == [n \in DOMAIN type.below |-> EnumsSet(type.below[n])]
           D == NamesOf(type)
<1>1. handle_serializer(type) = Made(m, below)
  BY DEF handle_serializer
<1>2. /\ Apart(type.message, class, D)
      /\ \A n \in DOMAIN type.below : Apart(type.below[n], class, D)
  BY DEF Sided, Whole, Made
<1>3. Apart(m, class, D) /\ m.name = type.message.name
      /\ \A n \in DOMAIN type.below : Apart(EnumsSet(type.below[n]), class, D)
  BY <1>2, EnumsSetSided DEF Whole
<1>4. DOMAIN below = DOMAIN type.below /\ \A n \in DOMAIN below : Apart(below[n], class, D)
  BY <1>3
<1> HIDE DEF m, below
<1>5. NamesOf(Made(m, below)) = D
  BY <1>3, <1>4 DEF NamesOf, Made
<1>6. Sided(Made(m, below), class) /\ Made(m, below).kind = "message"
  <2> HIDE DEF D
  <2> QED
    BY <1>3, <1>4, <1>5 DEF Sided, Made
<1> QED
  BY <1>1, <1>6

LEMMA DictEnumsSided ==
    ASSUME NEW type, NEW class, Whole(type), Sided(type, class)
    PROVE  Sided(handle_field_dict(type), class) /\ handle_field_dict(type).kind = "message"
<1> DEFINE converted(f) == IF f.type.kind = "class"
                           THEN ProtoField(f.name, Enum(f.type.name[1])) ELSE f
           old == type.message
           N == Len(old.fields)
           fields == [i \in 1 .. N |-> converted(old.fields[i])]
           n == [old EXCEPT !.fields = fields]
           D == NamesOf(type)
<1>1. /\ MessageResolves(old, D)
      /\ type = [kind |-> "message", message |-> old, below |-> type.below]
      /\ Apart(old, class, D) /\ \A x \in DOMAIN type.below : Apart(type.below[x], class, D)
  BY DEF Whole, Made, Sided
<1>2. N \in Nat /\ DOMAIN old.fields = 1 .. N
  BY <1>1 DEF MessageResolves
<1>3. handle_field_dict(type) = Made(n, type.below)
  <2>1. handle_field_dict(type) = [type EXCEPT !.message.fields = fields]
    BY <1>2 DEF handle_field_dict, MapEach
  <2>2. [type EXCEPT !.message.fields = fields] = [type EXCEPT !.message = n]
    OBVIOUS
  <2> HIDE DEF fields, n, old
  <2> QED
    BY <1>1, <2>1, <2>2 DEF Made
<1>4. \A f : converted(f).name = f.name /\ (converted(f) = f \/ converted(f).type.kind = "enum")
  BY DEF ProtoField, Enum
<1> HIDE DEF converted
<1>5. n.fields = fields
  BY <1>1 DEF MessageResolves
<1>6. DOMAIN fields = 1 .. N /\ fields \in Seq(Range(fields))
      /\ \A i \in 1 .. N : /\ fields[i] = old.fields[i] \/ fields[i].type.kind = "enum"
                           /\ fields[i].name = old.fields[i].name
  <2>1. fields = [i \in 1 .. N |-> fields[i]]
    OBVIOUS
  <2>2. \A i \in 1 .. N : /\ fields[i] = old.fields[i] \/ fields[i].type.kind = "enum"
                          /\ fields[i].name = old.fields[i].name
    BY <1>4
  <2> HIDE DEF fields, N, old
  <2> QED
    BY <1>2, <2>1, <2>2, SeqOfIndexed
<1>7. Retyped(old, n) /\ \A i \in DOMAIN old.fields : n.fields[i].name = old.fields[i].name
  <2> HIDE DEF fields, N, old
  <2> QED
    BY <1>2, <1>5, <1>6 DEF Retyped
<1> HIDE DEF n, old, fields, N
<1>8. Apart(n, class, D) /\ n.name = old.name
  <2> HIDE DEF D
  <2> QED
    BY <1>1, <1>7, RetypedSided
<1>9. NamesOf(Made(n, type.below)) = D
  BY <1>8 DEF NamesOf, Made, old
<1>10. Sided(Made(n, type.below), class) /\ Made(n, type.below).kind = "message"
  <2> HIDE DEF D
  <2> QED
    BY <1>1, <1>8, <1>9 DEF Sided, Made
<1> QED
  BY <1>3, <1>10

LEMMA WithEnumsSided ==
    ASSUME NEW type, NEW class, Declarable(type), Sided(type, class)
    PROVE  Sided(WithEnums(type), class) /\ (type.kind = "message" => WithEnums(type).kind = "message")
<1>1. CASE type.kind # "message"
  BY <1>1 DEF WithEnums
<1>2. CASE type.kind = "message"
  <2>1. Whole(type)
    BY <1>2 DEF Declarable
  <2>2. WithEnums(type) \in {handle_field_dict(type), handle_serializer(type)}
    BY <1>2 DEF WithEnums
  <2> QED
    BY <2>1, <2>2, DictEnumsSided, SerializerEnumsSided
<1> QED
  BY <1>1, <1>2

LEMMA AddFieldSided ==
    ASSUME NEW type, NEW class, NEW name \in AddedNames, Whole(type), Sided(type, class)
    PROVE  Sided(AddField(type, name), class) /\ AddField(type, name).kind = "message"
<1> DEFINE struct == MessagesOf(StructMessage)
           f == Flat(ProtoField(name, StructMessage))
           old == type.message
           m == [type.message EXCEPT !.fields = Append(@, f)]
           below == UpdateAll(<<type.below, struct>>)
           D == NamesOf(type) \cup DOMAIN struct
<1>1. AddField(type, name) = Made(m, below)
  BY DEF AddField
<1>2. /\ f.name = name /\ f.type.name \in D
      /\ \A n \in DOMAIN struct : Apart(struct[n], class, DOMAIN struct)
  <2>1. StructMessage.kind = "message"
    BY DEF StructMessage, Made
  <2>2. DOMAIN struct = NamesOf(StructMessage)
        /\ \A n \in DOMAIN struct : Apart(struct[n], class, DOMAIN struct)
    BY <2>1, ImportedSided, MessagesOfSided
  <2>3. f = [name |-> name, type |-> [kind |-> "ref", name |-> StructMessage.message.name]]
    BY <2>1 DEF Flat, ProtoField, Ref
  <2> HIDE DEF f, struct
  <2> QED
    BY <2>2, <2>3 DEF NamesOf
<1> HIDE DEF f, struct
<1>3. Apart(old, class, D) /\ \A n \in DOMAIN type.below : Apart(type.below[n], class, D)
  <2>1. /\ Apart(type.message, class, NamesOf(type))
        /\ \A n \in DOMAIN type.below : Apart(type.below[n], class, NamesOf(type))
    BY DEF Sided, Whole, Made
  <2> QED
    BY <2>1, MoreApart
<1>4. Apart(m, class, D) /\ m.name = old.name
  <2>1. /\ old = [name |-> old.name, fields |-> old.fields, serializer |-> old.serializer,
                  imported |-> old.imported]
        /\ old.fields \in Seq(Range(old.fields))
    BY DEF Whole, MessageResolves
  <2>2. m.serializer = old.serializer /\ m.fields = Append(old.fields, f) /\ m.name = old.name
    <3> HIDE DEF old
    <3> QED
      BY <2>1 DEF old
  <2>3. \A g \in Range(Append(old.fields, f)) : g \in Range(old.fields) \cup {f}
    <3> DEFINE fields == Append(old.fields, f)
    <3>1. fields \in Seq(Range(old.fields) \cup {f})
      BY <2>1
    <3> HIDE DEF fields
    <3>2. \A i \in DOMAIN fields : fields[i] \in Range(old.fields) \cup {f}
      BY <3>1
    <3> QED
      BY <3>2 DEF Range, fields
  <2> HIDE DEF m, old, D
  <2>4. KeepsSide(m, class)
    BY <1>2, <1>3, <2>2, <2>3 DEF KeepsSide, Apart
  <2>5. Closed(m, D)
    BY <1>2, <1>3, <2>2, <2>3 DEF Closed, Apart
  <2> QED
    BY <2>2, <2>4, <2>5 DEF Apart
<1>5. \A n \in DOMAIN struct : Apart(struct[n], class, D)
  BY <1>2, MoreApart
<1> HIDE DEF m
<1>6. Joined(below, type.below, struct)
  BY UpdateTwo, Zenon
<1> HIDE DEF below
<1>7. NamesOf(Made(m, below)) = D
  BY <1>4, <1>6 DEF NamesOf, Made, Joined
<1>8. \A n \in DOMAIN below : Apart(below[n], class, D)
  <2> HIDE DEF D
  <2> QED
    BY <1>3, <1>5, <1>6 DEF Joined
<1>9. Sided(Made(m, below), class) /\ Made(m, below).kind = "message"
  <2> HIDE DEF D
  <2> QED
    BY <1>4, <1>7, <1>8 DEF Sided, Made
<1> QED
  BY <1>1, <1>9

LEMMA AsListSided ==
    ASSUME NEW type, NEW class, Sided(type, class), type.kind = "message", NEW name, NEW service
    PROVE  Sided(AsList(type, name, service), class) /\ AsList(type, name, service).kind = "message"
<1> DEFINE one == ProtoField("results", type)
           two == ProtoField("count", Text)
           rest == IF service.paginated THEN <<two>> ELSE <<>>
           fields == <<one>> \o rest
<1>1. SidedIn(one.type, class, name) /\ SidedIn(two.type, class, name)
  BY DEF ProtoField, SidedIn, Sided, Text
<1>2. AsList(type, name, service) = NewMessage(name, fields, NoSerializer)
  BY DEF AsList
<1> HIDE DEF one, two
<1>3. fields \in Seq({one, two})
  <2>1. rest \in Seq({one, two})
    <3>1. <<two>> \in Seq({one, two}) /\ <<>> \in Seq({one, two})
      OBVIOUS
    <3> QED
      BY <3>1, Zenon
  <2> HIDE DEF rest
  <2> QED
    BY <2>1
<1> HIDE DEF fields
<1>4. Len(fields) \in Nat /\ DOMAIN fields = 1 .. Len(fields)
      /\ \A i \in 1 .. Len(fields) : fields[i] \in {one, two}
  BY <1>3
<1>5. \A i \in 1 .. Len(fields) : SidedIn(fields[i].type, class, name)
  BY <1>1, <1>4
<1>6. /\ Sided(NewMessage(name, fields, NoSerializer), class)
      /\ NewMessage(name, fields, NoSerializer).kind = "message"
  BY <1>4, <1>5, NewMessageSided
<1> QED
  BY <1>2, <1>6

LEMMA TransformSided ==
    ASSUME NEW plugin \in Plugins, NEW pair, NEW service, NEW names, Declarables(pair),
           AddsField(plugin, service) => pair[1].kind = "message",
           NEW side \in {1, 2}, Sided(pair[side], Sides[side]), pair[side].kind = "message"
    PROVE  /\ Sided(Transform(plugin, pair, service, names)[side], Sides[side])
           /\ Transform(plugin, pair, service, names)[side].kind = "message"
<1> DEFINE after == Transform(plugin, pair, service, names)
           class == Sides[side]
<1> HIDE DEF class
<1>0. Sided(pair[side], class) /\ Declarable(pair[side])
  BY DEF class, Declarables
<1>1. CASE plugin = "enum"
  <2>1. after = <<WithEnums(pair[1]), WithEnums(pair[2])>>
    BY <1>1 DEF Transform
  <2>2. after[side] = WithEnums(pair[side])
    BY <2>1
  <2> QED
    BY <1>0, <2>2, WithEnumsSided DEF class
<1>2. CASE plugin \in {"request_list", "response_list"}
  <2>1. after[side] = pair[side] \/ \E name : after[side] = AsList(pair[side], name, service)
    BY <1>2 DEF Transform
  <2> QED
    BY <1>0, <2>1, AsListSided DEF class
<1>3. CASE plugin \in {"filter", "pagination"}
  <2>1. \/ after[side] = pair[side]
        \/ /\ side = 1 /\ AddsField(plugin, service)
           /\ \E name \in AddedNames : after[side] = AddField(pair[side], name)
    BY <1>3 DEF Transform, AddsField, AddedNames
  <2>2. ASSUME side = 1, AddsField(plugin, service), NEW name \in AddedNames,
               after[side] = AddField(pair[side], name)
        PROVE  Sided(after[side], class) /\ after[side].kind = "message"
    <3>1. Whole(pair[side])
      BY <1>0, <2>2 DEF Declarable
    <3> QED
      BY <1>0, <2>2, <3>1, AddFieldSided
  <2> QED
    BY <1>0, <2>1, <2>2 DEF class
<1> QED
  BY <1>1, <1>2, <1>3 DEF Plugins

LEMMA PairsSided ==
    ASSUME NEW k \in RpcKeys, Buildable(k), k.separate, NEW side \in {1, 2},
           DeclaredValue(Sides[side], k).kind = "serializer", side = 1 => MethodsAreRead
    PROVE  /\ Sided(PairAfter(Len(Decl(k).plugins), k)[side], Sides[side])
           /\ PairAfter(Len(Decl(k).plugins), k)[side].kind = "message"
<1> DEFINE plugins == Decl(k).plugins
           N == Len(plugins)
           class == Sides[side]
           good(i) == Sided(PairAfter(i, k)[side], class) /\ PairAfter(i, k)[side].kind = "message"
           T == {i \in 0 .. N : good(i)}
<1>1. N \in Nat /\ DOMAIN plugins = 1 .. N /\ \A i \in 1 .. N : plugins[i] \in Plugins
  BY PairTurns
<1>2. ASSUME NEW i \in 1 .. N PROVE \E names : PairAfter(i, k) = Transform(plugins[i], PairAfter(i - 1, k), k, names)
  BY PairTurns
<1>3. class \in {"Request", "Response"} /\ (class = "Request" => MethodsAreRead)
  BY DEF Sides
<1>4. good(0)
  <2>1. PairAfter(0, k)[side] =
           create(ClassOf(class, k), DeclaredValue(class, k), MessageName(class, <<>>, k))
    BY PairTurns DEF Sides
  <2> HIDE DEF class
  <2>2. ClassOf(class, k) = class
    BY <1>3 DEF ClassOf
  <2>3. DeclaredValue(class, k).kind = "serializer"
    BY DEF class
  <2>4. DeclaredValue(class, k).serializer \in Serializers
    <3>1. Creatable(DeclaredValue(class, k))
      BY ValuesCreatable
    <3> QED
      BY <2>3, <3>1 DEF Creatable
  <2>5. PairAfter(0, k)[side] =
           from_serializer(class, DeclaredValue(class, k).serializer, MessageName(class, <<>>, k))
    BY <2>1, <2>2, <2>3 DEF create
  <2> QED
    BY <1>3, <2>4, <2>5, FromSerializerSided
<1>5. \A i \in 1 .. N : AddsField(plugins[i], k) => PairAfter(i - 1, k)[1].kind = "message"
  <2>1. \A i \in DOMAIN plugins : AddsField(plugins[i], k) => PairAfter(i - 1, k)[1].kind = "message"
    BY Zenon DEF Buildable
  <2> HIDE DEF plugins, N
  <2> QED
    BY <1>1, <2>1
<1>6. \A i \in 0 .. N : Declarables(PairAfter(i, k))
  BY PairsDeclarable
<1> HIDE DEF N, plugins
<1>7. 0 \in T
  BY <1>1, <1>4
<1>8. ASSUME NEW i \in 1 .. N, i - 1 \in T PROVE i \in T
  <2>1. /\ Sided(PairAfter(i - 1, k)[side], Sides[side]) /\ PairAfter(i - 1, k)[side].kind = "message"
        /\ i \in 0 .. N /\ i - 1 \in 0 .. N
    BY <1>1, <1>8
  <2>2. PICK names : PairAfter(i, k) = Transform(plugins[i], PairAfter(i - 1, k), k, names)
    BY <1>2
  <2>3. Declarables(PairAfter(i - 1, k)) /\ plugins[i] \in Plugins
    BY <1>1, <1>6, <2>1
  <2>4. LET after == Transform(plugins[i], PairAfter(i - 1, k), k, names)[side]
        IN  Sided(after, Sides[side]) /\ after.kind = "message"
    BY <1>5, <2>1, <2>3, TransformSided
  <2> QED
    BY <2>1, <2>2, <2>4
<1> HIDE DEF T
<1>9. N \in T
  <2>1. \A i \in 0 .. N : i \in T
    BY <1>1, <1>7, <1>8, InductionUpTo
  <2> QED
    BY <1>1, <2>1
<1> QED
  BY <1>9 DEF T, N, plugins, class

LEMMA RpcsApart ==
    ASSUME NEW k \in DOMAIN ProtoRpcs, k.separate, NEW side \in {1, 2},
           DeclaredValue(Sides[side], k).kind = "serializer", side = 1 => MethodsAreRead
    PROVE  LET mine == ProtoRpcs[k].messages[side]
           IN  /\ TypeName(ProtoRpcs[k].types[side]) \in DOMAIN mine
               /\ \A n \in DOMAIN mine : Apart(mine[n], Sides[side], DOMAIN mine)
<1> DEFINE made == PairAfter(Len(Decl(k).plugins), k)
           pair == make_proto_rpc(k)
<1>1. k \in RpcKeys /\ Buildable(k)
  BY DEF ProtoRpcs
<1>2. ProtoRpcs[k] = [types |-> pair, messages |-> <<MessagesOf(pair[1]), MessagesOf(pair[2])>>]
  BY DEF ProtoRpcs
<1>3. ProtoRpcs[k].types[side] = pair[side] /\ ProtoRpcs[k].messages[side] = MessagesOf(pair[side])
  <2> HIDE DEF pair
  <2> QED
    BY <1>2
<1>4. pair = <<OrEmpty(made[1], Given("Request", k)), OrEmpty(made[2], Given("Response", k))>>
  BY DEF make_proto_rpc
<1>5. Sided(made[side], Sides[side]) /\ made[side].kind = "message"
  BY <1>1, PairsSided
<1> HIDE DEF pair, made
<1>6. pair[side] \in {made[side], EmptyMessage}
  BY <1>4 DEF OrEmpty
<1>7. Sided(pair[side], Sides[side]) /\ pair[side].kind = "message"
  BY <1>5, <1>6, ImportedSided DEF EmptyMessage, Made
<1>8. TypeName(pair[side]) \in NamesOf(pair[side])
  BY <1>7 DEF TypeName, NamesOf
<1> QED
  BY <1>3, <1>7, <1>8, MessagesOfSided

(* RequestProtoMessage and ResponseProtoMessage, before messages of several    *)
(* RPCs are collected by name. Of any RPC whose side is declared through a     *)
(* serializer, whatever it nests and whatever its plugins do, no message of    *)
(* the response has a write-only field of its serializer, and no message of    *)
(* the request a read-only one, but for primary keys.                          *)
THEOREM RpcsKeepSides ==
    ASSUME NEW k \in DOMAIN ProtoRpcs, k.separate, NEW side \in {1, 2},
           DeclaredValue(Sides[side], k).kind = "serializer", side = 1 => MethodsAreRead
    PROVE  \A n \in DOMAIN ProtoRpcs[k].messages[side] :
              KeepsSide(ProtoRpcs[k].messages[side][n], Sides[side])
<1>1. \A n \in DOMAIN ProtoRpcs[k].messages[side] :
         Apart(ProtoRpcs[k].messages[side][n], Sides[side], DOMAIN ProtoRpcs[k].messages[side])
  BY RpcsApart
<1> QED
  BY <1>1 DEF Apart
--------------------------------------------------------------------------------
(* What a file reaches from a type: the names at each distance. *)
Ends(f) == f.enums \cup {<<>>, StructMessage.message.name, EmptyMessage.message.name}
NextNames(f, names) ==
    UNION {{field.type : field \in Range(f.messages[n].fields)} :
              n \in (names \ Ends(f)) \cap DOMAIN f.messages}
Distances(w, f, type) ==
    w = [i \in 0 .. Cardinality(DOMAIN f.messages) |->
            IF i = 0 THEN {type}
            ELSE LET before == w[i - 1] IN before \cup NextNames(f, before)]

LEMMA DistancesExist ==
    ASSUME NEW f, IsFiniteSet(DOMAIN f.messages), NEW type
    PROVE  \E w : Distances(w, f, type)
<1> DEFINE N == Cardinality(DOMAIN f.messages)
           Q == SUBSET ({type} \cup FieldTypes(f))
           Turn(names) == names \cup NextNames(f, names)
           F == [i \in 1 .. N |-> [names \in Q |-> Turn(names)]]
<1>1. N \in Nat /\ {type} \in Q
  BY FS_CardinalityType
<1>2. \A names \in Q : Turn(names) \in Q
  BY DEF NextNames, FieldTypes
<1>3. F \in [1 .. N -> [Q -> Q]] /\ \A i \in 1 .. N, names \in Q : F[i][names] = Turn(names)
  BY <1>2
<1> HIDE DEF N, F, Turn, Q
<1>4. PICK w : w \in [0 .. N -> Q] /\ w[0] = {type} /\ \A i \in 1 .. N : w[i] = F[i][w[i - 1]]
  <2>1. PICK w : LoopRun(w, N, Q, {type}, F)
    BY <1>1, <1>3, LoopRuns
  <2> QED
    BY <2>1, Zenon DEF LoopRun
<1>5. ASSUME NEW i \in 0 .. N PROVE w[i] = IF i = 0 THEN {type} ELSE Turn(w[i - 1])
  <2>1. i # 0 => i \in 1 .. N /\ i - 1 \in 0 .. N
    BY <1>1
  <2> QED
    BY <1>3, <1>4, <2>1
<1>6. w = [i \in 0 .. N |-> IF i = 0 THEN {type} ELSE Turn(w[i - 1])]
  <2>1. w = [i \in 0 .. N |-> w[i]]
    BY <1>4
  <2> QED
    BY <1>5, <2>1
<1>7. Distances(w, f, type)
  BY <1>6, Zenon DEF Distances, Turn, N
<1> QED
  BY <1>7

(* A set that holds the type and what its messages refer to holds all of it. *)
LEMMA ReachedWithin ==
    ASSUME NEW f, IsFiniteSet(DOMAIN f.messages), NEW type, NEW D, type \in D,
           NextNames(f, D) \subseteq D \cup Ends(f)
    PROVE  Reached(f, type) \subseteq D
<1> DEFINE N == Cardinality(DOMAIN f.messages)
           w == CHOOSE x : Distances(x, f, type)
           T == {i \in 0 .. N : w[i] \subseteq D \cup Ends(f)}
<1>1. N \in Nat
  BY FS_CardinalityType
<1>2. Distances(w, f, type)
  BY DistancesExist, Zenon
<1>3. Reached(f, type) = w[N] \ Ends(f)
  BY DEF Reached, Distances, NextNames, Ends
<1>4. \A i \in 0 .. N : w[i] = IF i = 0 THEN {type} ELSE w[i - 1] \cup NextNames(f, w[i - 1])
  <2> HIDE DEF w
  <2> QED
    BY <1>2, Zenon DEF Distances
<1> HIDE DEF w, N
<1>5. 0 \in T
  <2>1. 0 \in 0 .. N
    BY <1>1
  <2> QED
    BY <1>4, <2>1
<1>6. ASSUME NEW i \in 1 .. N, i - 1 \in T PROVE i \in T
  <2>1. i \in 0 .. N /\ i # 0 /\ w[i - 1] \subseteq D \cup Ends(f)
    BY <1>1, <1>6
  <2>2. NextNames(f, w[i - 1]) \subseteq NextNames(f, D)
    BY <2>1 DEF NextNames
  <2> QED
    BY <1>4, <2>1, <2>2
<1> HIDE DEF T
<1>7. N \in T
  <2>1. \A i \in 0 .. N : i \in T
    BY <1>1, <1>5, <1>6, InductionUpTo
  <2> QED
    BY <1>1, <2>1
<1> QED
  BY <1>3, <1>7 DEF T

(* A line of a message that agrees with m is one of m or one plugins add. *)
LEMMA LineOfAgreed ==
    ASSUME NEW f, NEW n, NEW m, Agrees(f, n, m), ~m.imported,
           NEW line \in Range(f.messages[n].fields)
    PROVE  \/ line \in PluginLines(m.serializer)
           \/ \E g \in Range(m.fields) : line = [name |-> g.name, type |-> TypeName(g.type)]
<1> DEFINE lines == [i \in DOMAIN m.fields |->
                        [name |-> m.fields[i].name, type |-> TypeName(m.fields[i].type)]]
<1>1. /\ f.messages[n].serializer = m.serializer
      /\ OwnLines(f.messages[n]) = OwnLines(MessageLines(m))
  BY DEF Agrees
<1>2. MessageLines(m) = [serializer |-> m.serializer, fields |-> lines]
  BY DEF MessageLines, MapEach
<1> HIDE DEF lines
<1>3. OwnLines(MessageLines(m)) \subseteq Range(lines)
  BY <1>2 DEF OwnLines
<1>4. line \notin PluginLines(m.serializer) => line \in Range(lines)
  BY <1>1, <1>3 DEF OwnLines
<1>5. \A x \in Range(lines) :
         \E g \in Range(m.fields) : x = [name |-> g.name, type |-> TypeName(g.type)]
  BY DEF Range, lines
<1> QED
  BY <1>4, <1>5

(* A file that agrees with all the messages of a side reaches no other from    *)
(* its type, and shows nothing the side leaves out.                            *)
LEMMA FileKeepsSide ==
    ASSUME TypeOK, ListedMade, NEW h \in Handlers, NEW k \in KeysOf(h), k.separate,
           NEW side \in {1, 2}, DeclaredValue(Sides[side], k).kind = "serializer",
           side = 1 => MethodsAreRead,
           \A n \in DOMAIN ProtoRpcs[k].messages[side] :
               Agrees(Proto(h), n, ProtoRpcs[k].messages[side][n])
    PROVE  \A x \in Shown(Proto(h), TypeName(ProtoRpcs[k].types[side])) :
              x[1] # NoSerializer =>
                  \A d \in Range(FieldsOf[x[1]]) :
                      d.name = x[2] => ~LeftOut(Sides[side], d, x[1])
<1> DEFINE f == Proto(h)
           all == AllMessages(h)
           type == TypeName(ProtoRpcs[k].types[side])
           mine == ProtoRpcs[k].messages[side]
           class == Sides[side]
<1>1. DOMAIN f.messages = {n \in DOMAIN all : ~all[n].imported}
      /\ f.imports = {n \in DOMAIN all : all[n].imported}
  BY DEF Proto, FileOf
<1>2. Collection(all) /\ k \in DOMAIN ProtoRpcs
  BY AllCollection DEF KeysOf
<1>3. type \in DOMAIN mine /\ \A n \in DOMAIN mine : Apart(mine[n], class, DOMAIN mine)
  BY <1>2, RpcsApart
<1>4. Collection(mine)
  <2>1. Declarables(ProtoRpcs[k].types) /\ mine = MessagesOf(ProtoRpcs[k].types[side])
    BY <1>2, RpcsDeclarable
  <2> QED
    BY <2>1, DeclarableCollection DEF Declarables
<1>5. IsFiniteSet(DOMAIN f.messages)
  <2>1. DOMAIN f.messages \subseteq DOMAIN all
    BY <1>1
  <2> HIDE DEF f, all
  <2> QED
    BY <1>2, <2>1, FS_Subset DEF Collection
<1>6. \A n \in DOMAIN mine : Agrees(f, n, mine[n])
  OBVIOUS
<1> HIDE DEF f, all, mine, type, class
<1>7. ASSUME NEW n \in DOMAIN mine \cap DOMAIN f.messages
      PROVE  ~mine[n].imported /\ f.messages[n].serializer = mine[n].serializer
             /\ EnumsIn(mine[n]) \subseteq f.enums
  BY <1>1, <1>6 DEF Agrees
<1>8. NextNames(f, DOMAIN mine) \subseteq DOMAIN mine \cup Ends(f)
  <2> SUFFICES ASSUME NEW n \in DOMAIN mine \cap DOMAIN f.messages,
                      NEW line \in Range(f.messages[n].fields)
               PROVE  line.type \in DOMAIN mine \cup Ends(f)
    BY DEF NextNames
  <2>1. CASE line \in PluginLines(mine[n].serializer)
    <3>1. line.type \in {StructMessage.message.name, <<>>}
      BY <2>1 DEF PluginLines
    <3> QED
      BY <3>1 DEF Ends
  <2>2. ASSUME NEW g \in Range(mine[n].fields), line = [name |-> g.name, type |-> TypeName(g.type)]
        PROVE  line.type \in DOMAIN mine \cup Ends(f)
    <3>1. line.type = TypeName(g.type) /\ g.type.kind # "message"
      BY <1>4, <2>2 DEF Collection, MessageResolves, FieldResolves
    <3>2. CASE g.type.kind \in {"ref", "name"}
      BY <1>3, <3>1, <3>2 DEF Apart, Closed, TypeName
    <3>3. CASE g.type.kind = "enum"
      <4>1. TypeName(g.type) = g.type.name /\ g.type.name \in EnumsIn(mine[n])
        BY <3>3 DEF TypeName, EnumsIn
      <4> QED
        BY <1>7, <3>1, <4>1 DEF Ends
    <3>4. CASE g.type.kind \notin {"ref", "name", "enum"}
      <4>1. TypeName(g.type) = <<>>
        BY <3>1, <3>4 DEF TypeName
      <4> QED
        BY <3>1, <4>1 DEF Ends
    <3> QED
      BY <3>2, <3>3, <3>4
  <2> QED
    BY <1>6, <1>7, <2>1, <2>2, LineOfAgreed
<1>9. Reached(f, type) \subseteq DOMAIN mine
  BY <1>3, <1>5, <1>8, ReachedWithin
<1>10. ASSUME NEW n \in DOMAIN mine \cap DOMAIN f.messages,
              NEW line \in Range(f.messages[n].fields), line.name \notin AddedNames,
              f.messages[n].serializer # NoSerializer,
              NEW d \in Range(FieldsOf[f.messages[n].serializer]), d.name = line.name
       PROVE  ~LeftOut(class, d, f.messages[n].serializer)
  <2>1. line \notin PluginLines(mine[n].serializer)
    BY <1>7, <1>10 DEF PluginLines
  <2>2. PICK g \in Range(mine[n].fields) : line = [name |-> g.name, type |-> TypeName(g.type)]
    BY <1>6, <1>7, <2>1, LineOfAgreed
  <2>3. KeepsSide(mine[n], class) /\ g.name = line.name
    BY <1>3, <2>2 DEF Apart
  <2> QED
    BY <1>7, <1>10, <2>3 DEF KeepsSide
<1>11. ASSUME NEW x \in Shown(f, type), x[1] # NoSerializer,
              NEW d \in Range(FieldsOf[x[1]]), d.name = x[2]
       PROVE  ~LeftOut(class, d, x[1])
  <2>1. PICK n \in Reached(f, type) \cap DOMAIN f.messages :
            \E line \in Range(f.messages[n].fields) :
                line.name \notin AddedNames /\ x = <<f.messages[n].serializer, line.name>>
    BY <1>11 DEF Shown
  <2>2. PICK line \in Range(f.messages[n].fields) :
            line.name \notin AddedNames /\ x = <<f.messages[n].serializer, line.name>>
    BY <2>1
  <2>3. n \in DOMAIN mine \cap DOMAIN f.messages
    BY <1>9, <2>1
  <2> QED
    BY <1>10, <1>11, <2>2, <2>3
<1> QED
  BY <1>11 DEF f, type, class

(* RequestProtoMessage and ResponseProtoMessage in a written file, where       *)
(* messages of all the RPCs are collected by name. As long as messages of the  *)
(* same name say the same, whatever is registered in whatever order: no        *)
(* message a response of a serializer reaches shows a write-only field of its  *)
(* serializer, and none a request reaches a read-only one, but for primary     *)
(* keys.                                                                       *)
THEOREM FilesKeepSides ==
    ASSUME MethodsAreRead PROVE GenerationSpec => [](NamesakesAgree => SidesHold)
<1>1. TypeOK /\ JobInv /\ ListedMade /\ NamesakesAgree => SidesHold
  <2> SUFFICES ASSUME TypeOK, JobInv, ListedMade, NamesakesAgree, config.separate,
                      NEW a \in DOMAIN job.protos, NEW k \in KeysOf(registered_apps[a]),
                      NEW i \in {1, 2}, DeclaredValue(Sides[i], k).kind = "serializer"
               PROVE  \A x \in Shown(job.protos[a], TypeName(ProtoRpcs[k].types[i])) :
                          x[1] # NoSerializer =>
                              \A d \in Range(FieldsOf[x[1]]) :
                                  d.name = x[2] => ~LeftOut(Sides[i], d, x[1])
    BY DEF SidesHold
  <2>1. job # NoJob
    BY DEF NoJob
  <2>2. a \in Registered /\ job.protos[a] = Proto(registered_apps[a])
    BY <2>1 DEF JobInv
  <2>3. registered_apps[a] \in Handlers
    BY <2>2 DEF Registered, TypeOK
  <2>4. k.separate
    BY DEF KeysOf, Key
  <2>5. \A n \in DOMAIN ProtoRpcs[k].messages[i] :
           Agrees(Proto(registered_apps[a]), n, ProtoRpcs[k].messages[i][n])
    BY <2>2 DEF NamesakesAgree
  <2> QED
    BY <2>2, <2>3, <2>4, <2>5, FileKeepsSide
<1>2. GenerationSpec => [](TypeOK /\ JobInv /\ ListedMade)
  BY GenerationKnown
<1> QED
  BY <1>1, <1>2, PTL
================================================================================
