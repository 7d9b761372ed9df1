------------------------- MODULE EndpointCacheProofs -------------------------
(* Theorems about EndpointCache: for any services, processes, calls and saves, *)
(* the state is well typed, a stale answer comes from a race between processes *)
(* only, and any other stale entry is one a running save is about to delete.   *)
EXTENDS EndpointCache, SequenceTheorems, TLAPS

(* What the invalidation rests on: a service that inherits the cached action   *)
(* shows the model of the service it inherits it from, or the cache can only   *)
(* be cleared as a whole.                                                      *)
SharedModels == \A s \in Services : Parent[s] # None => ModelOf[Parent[s]] = ModelOf[s]

CallPlaces == {"new", "header?", "page?", "action", "header!", "page!", "return", "done"}
SavePlaces == {"new", "signal", "pages", "committed", "done"}

Busy(j) == pc[j] \notin {"new", "done"}

(* A running job holds the thread of its process. *)
ThreadsHeld ==
    /\ \A c \in Calls : pc[c] \in CallPlaces
    /\ \A w \in Saves : pc[w] \in SavePlaces
    /\ \A j \in Jobs : Busy(j) => on[j] \in Processes /\ thread[on[j]] = j

(* Some receiver deletes what a layer of s with this prefix stores. *)
Covered(prefix, s) ==
    \E i \in 1 .. Len(receivers) :
        /\ ModelOf[receivers[i]] = ModelOf[s]
        /\ hasPattern => receivers[i] = prefix

(* Jobs run once every service is registered; a call is in one of the layers  *)
(* of its service, a signal in a receiver.                                     *)
Leveled ==
    /\ \A j \in Jobs : pc[j] # "new" => Serving
    /\ \A c \in Calls : Busy(c) => level[c] \in 1 .. Len(layers[ServiceOf[c]])
    /\ \A w \in Saves : pc[w] = "pages" => todo[w] # << >>

Layered ==
    /\ hasPattern => SharedModels
    /\ \A s \in Services : \A i \in 1 .. Len(layers[s]) : Covered(layers[s][i], s)
    /\ \A k \in Keys : page[k] # None => Covered(k[1], k[2])

(* The row of save w was committed, and save() has not returned. *)
Committed(w) ==
    pc[w] = "committed" \/ (w \notin Atomic /\ pc[w] \in {"signal", "pages"})

Versions ==
    /\ \A m \in Models : saved[m] <= db[m]
    /\ \A m \in Models : db[m] = saved[m]
          \/ \E w \in Saves : SavedModel[w] = m /\ Committed(w) /\ value[w] = db[m]
    /\ \A w \in Saves : Committed(w) => value[w] <= db[SavedModel[w]]
    /\ \A w \in Saves : pc[w] = "committed" => w \in Atomic /\ todo[w] = << >>
    /\ \A c \in Calls : floor[c] <= saved[Model(c)]

(* Without a race a fill stores what the database still has, and no call fills *)
(* while a transaction that was not overtaken has the model locked up.         *)
FillsCurrent ==
    /\ \A c \in Calls : c \in Filling(Model(c)) /\ ~raced[Model(c)] =>
          value[c] = db[Model(c)]
    /\ \A w \in Saves : Open(w) /\ ~overtaken[w] => Filling(SavedModel[w]) = {}

(* Without a race a page is as recent as every save that has returned, and a   *)
(* save that has not returned will delete it if it is older.                   *)
PagesCurrent ==
    \A k \in Keys : page[k] # None /\ ~raced[ModelOf[k[2]]] =>
        /\ saved[ModelOf[k[2]]] <= page[k]
        /\ \A w \in Saves : SavedModel[w] = ModelOf[k[2]] =>
              /\ Committed(w) /\ page[k] < value[w] => Deletes(w, k)
              /\ Open(w) /\ ~overtaken[w] => Deletes(w, k)

AnswersCurrent ==
    \A c \in Calls : pc[c] \in {"header!", "page!", "return", "done"} =>
        floor[c] <= value[c] \/ raced[Model(c)]

CacheInv ==
    TypeOK /\ ThreadsHeld /\ Leveled /\ Layered /\ Versions /\ FillsCurrent
    /\ PagesCurrent /\ AnswersCurrent

--------------------------------------------------------------------------------
(* Types. *)

LEMMA ServiceFacts ==
    /\ \A c \in Calls : ServiceOf[c] \in Services /\ Model(c) \in Models
    /\ \A w \in Saves : SavedModel[w] \in Models
    /\ \A s \in Services : ModelOf[s] \in Models
    /\ \A k \in Keys : k[1] \in Services /\ k[2] \in Services
    /\ \A c \in Calls : c \notin Saves /\ c # None
    /\ \A p \in Processes : p # None
BY CallAssumption, ModelAssumption, NoneAssumption, DisjointAssumption
   DEF Model, Models, Keys, Jobs

(* The prefix of a call in a layer is a service. *)
LEMMA PrefixFacts ==
    ASSUME TypeOK, NEW c \in Calls, level[c] \in 1 .. Len(layers[ServiceOf[c]])
    PROVE  /\ Prefix(c) = layers[ServiceOf[c]][level[c]]
           /\ Prefix(c) \in Services
           /\ Key(Prefix(c), c) \in Keys
           /\ Key(Prefix(c), c)[1] = Prefix(c)
           /\ Key(Prefix(c), c)[2] = ServiceOf[c]
<1>1. layers[ServiceOf[c]] \in Seq(Services) /\ ServiceOf[c] \in Services
  BY ServiceFacts DEF TypeOK
<1>2. layers[ServiceOf[c]][level[c]] \in Services
  BY <1>1, ElementOfSeq
<1> QED
  BY <1>1, <1>2 DEF Prefix, Key, Keys

LEMMA InitType == Init => TypeOK
<1> SUFFICES ASSUME Init PROVE TypeOK
  OBVIOUS
<1>1. \A c \in Calls : level[c] <= Len(layers[ServiceOf[c]])
  BY ServiceFacts DEF Init
<1> QED
  BY <1>1, EmptySeq DEF Init, TypeOK, Goto

LEMMA RegisterType ==
    ASSUME TypeOK, NEW s \in Services, Register(s)
    PROVE  /\ TypeOK'
           /\ layers' = [layers EXCEPT ![s] = <<s>> \o Inherited(s)]
           /\ Inherited(s) \in Seq(Services)
           /\ layers'[s] \in Seq(Services)
           /\ Len(layers'[s]) = 1 + Len(Inherited(s))
           /\ \A i \in 1 .. Len(layers'[s]) :
                 layers'[s][i] = IF i = 1 THEN s ELSE Inherited(s)[i - 1]
           /\ \A t \in Services \ {s} : layers'[t] = layers[t]
           /\ Len(receivers') = Len(receivers) + 1
           /\ \A i \in 1 .. Len(receivers) : receivers'[i] = receivers[i]
           /\ receivers'[Len(receivers) + 1] = s
<1>1. Inherited(s) \in Seq(Services)
  BY ParentAssumption, EmptySeq DEF TypeOK, Inherited
<1>2. <<s>> \in Seq(Services) /\ Len(<<s>>) = 1 /\ <<s>>[1] = s
  OBVIOUS
<1>3. /\ <<s>> \o Inherited(s) \in Seq(Services)
      /\ Len(<<s>> \o Inherited(s)) = 1 + Len(Inherited(s))
      /\ \A i \in 1 .. 1 + Len(Inherited(s)) :
            (<<s>> \o Inherited(s))[i] = IF i <= 1 THEN <<s>>[i] ELSE Inherited(s)[i - 1]
  BY <1>1, <1>2, ConcatProperties
<1>4. /\ layers' = [layers EXCEPT ![s] = <<s>> \o Inherited(s)]
      /\ layers'[s] = <<s>> \o Inherited(s)
      /\ \A t \in Services \ {s} : layers'[t] = layers[t]
      /\ layers' \in [Services -> Seq(Services)]
  BY <1>3 DEF Register, TypeOK
<1>5. /\ receivers' \in Seq(Services)
      /\ Len(receivers') = Len(receivers) + 1
      /\ \A i \in 1 .. Len(receivers) : receivers'[i] = receivers[i]
      /\ receivers'[Len(receivers) + 1] = s
  BY AppendProperties DEF Register, TypeOK
<1>6. Len(Inherited(s)) \in Nat
  BY <1>1, LenProperties
<1>7. \A c \in Calls : level'[c] <= Len(layers'[ServiceOf[c]])
  <2> SUFFICES ASSUME NEW c \in Calls PROVE level'[c] <= Len(layers'[ServiceOf[c]])
    OBVIOUS
  <2>1. level'[c] = level[c] /\ level[c] \in Nat /\ level[c] <= Len(layers[ServiceOf[c]])
    BY DEF Register, TypeOK
  <2>2. CASE ServiceOf[c] # s
    BY <1>4, <2>1, <2>2, ServiceFacts
  <2>3. CASE ServiceOf[c] = s
    <3>1. level[c] <= 0
      BY <2>1, <2>3 DEF Register, Registered
    <3> QED
      BY <1>3, <1>4, <1>6, <2>1, <2>3, <3>1
  <2> QED
    BY <2>2, <2>3
<1>8. TypeOK'
  BY <1>4, <1>5, <1>7 DEF Register, TypeOK, cache, scheduling, history
<1>9. \A i \in 1 .. Len(layers'[s]) :
        layers'[s][i] = IF i = 1 THEN s ELSE Inherited(s)[i - 1]
  BY <1>2, <1>3, <1>4, <1>6
<1> QED
  BY <1>1, <1>3, <1>4, <1>5, <1>8, <1>9

LEMMA DeeperType ==
    ASSUME TypeOK, NEW c \in Calls, Deeper(c)
    PROVE  /\ \/ pc' = [pc EXCEPT ![c] = "header?"] /\ level'[c] = level[c] + 1
              \/ pc' = [pc EXCEPT ![c] = "action"] /\ level'[c] = level[c]
           /\ level' \in [Calls -> Nat]
           /\ \A d \in Calls : level'[d] <= Len(layers[ServiceOf[d]])
           /\ \A d \in Calls \ {c} : level'[d] = level[d]
<1>1. Len(layers[ServiceOf[c]]) \in Nat
  BY ServiceFacts, LenProperties DEF TypeOK
<1>2. CASE level[c] < Len(layers[ServiceOf[c]])
  <2>1. level' = [level EXCEPT ![c] = level[c] + 1] /\ pc' = [pc EXCEPT ![c] = "header?"]
    BY <1>2 DEF Deeper, Goto
  <2> QED
    <3>1. level[c] \in Nat
      BY DEF TypeOK
    <3>2. level[c] + 1 \in Nat /\ level[c] + 1 <= Len(layers[ServiceOf[c]])
      BY <1>1, <1>2, <3>1
    <3>3. level' \in [Calls -> Nat] /\ level'[c] = level[c] + 1
      BY <2>1, <3>2 DEF TypeOK
    <3>4. \A d \in Calls \ {c} : level'[d] = level[d]
      BY <2>1 DEF TypeOK
    <3>5. \A d \in Calls : level'[d] <= Len(layers[ServiceOf[d]])
      BY <3>2, <3>3, <3>4 DEF TypeOK
    <3>6. pc' = [pc EXCEPT ![c] = "header?"]
      BY <2>1
    <3> QED
      BY <3>3, <3>4, <3>5, <3>6
<1>3. CASE ~(level[c] < Len(layers[ServiceOf[c]]))
  BY <1>3 DEF Deeper, Goto, TypeOK
<1> QED
  BY <1>2, <1>3

LEMMA CallType ==
    ASSUME TypeOK, Leveled, NEW c \in Calls, CallStep(c)
    PROVE  TypeOK'
<1> USE DEF registration, cache, scheduling, history
<1>1. ASSUME NEW p \in Processes, Begin(c, p) PROVE TypeOK'
  <2>1. c \in Jobs /\ ServiceOf[c] \in Services /\ Model(c) \in Models
    BY ServiceFacts DEF Jobs
  <2>2. layers[ServiceOf[c]] \in Seq(Services) /\ layers[ServiceOf[c]] # << >>
    BY <1>1, <2>1 DEF Begin, Serving, Registered, TypeOK
  <2>3. 1 <= Len(layers[ServiceOf[c]])
    BY <2>2, EmptySeq
  <2> QED
    BY <1>1, <2>1, <2>3 DEF Begin, Acquire, Goto, TypeOK
<1>2. CASE LookupHeader(c)
  <2>1. CASE Deeper(c)
    BY <1>2, <2>1, DeeperType DEF LookupHeader, TypeOK, Jobs
  <2>2. CASE Goto(c, "page?") /\ UNCHANGED level
    BY <1>2, <2>2 DEF LookupHeader, Goto, TypeOK, Jobs
  <2> QED
    BY <1>2, <2>1, <2>2 DEF LookupHeader
<1>3. CASE LookupPage(c)
  <2>1. CASE Deeper(c) /\ UNCHANGED value
    BY <1>3, <2>1, DeeperType DEF LookupPage, TypeOK, Jobs
  <2>2. CASE /\ page[Key(Prefix(c), c)] # None /\ Goto(c, "return") /\ UNCHANGED level
             /\ value' = [value EXCEPT ![c] = page[Key(Prefix(c), c)]]
    <3>1. level[c] \in 1 .. Len(layers[ServiceOf[c]])
      BY <1>3 DEF LookupPage, Leveled, Busy
    <3>2. page[Key(Prefix(c), c)] \in Nat
      BY <2>2, <3>1, PrefixFacts DEF TypeOK
    <3> QED
      BY <1>3, <2>2, <3>2 DEF LookupPage, Goto, TypeOK, Jobs
  <2> QED
    BY <1>3, <2>1, <2>2 DEF LookupPage
<1>4. CASE RunAction(c)
  BY <1>4, ServiceFacts DEF RunAction, Goto, TypeOK, Jobs, Open
<1>5. CASE StoreHeader(c)
  <2>1. Key(Prefix(c), c) \in Keys
    BY <1>5, PrefixFacts DEF StoreHeader, Leveled, Busy
  <2> QED
    BY <1>5, <2>1 DEF StoreHeader, Goto, TypeOK, Jobs
<1>6. CASE StorePage(c)
  <2>1. level[c] \in 1 .. Len(layers[ServiceOf[c]])
    BY <1>6 DEF StorePage, Leveled, Busy
  <2>2. value[c] \in Nat /\ level[c] \in Nat
    BY DEF TypeOK, Jobs
  <2>3. page' \in [Keys -> Nat \cup {None}]
    BY <1>6, <2>2 DEF StorePage, TypeOK
  <2>4. CASE level[c] > 1
    <3>1. level' = [level EXCEPT ![c] = level[c] - 1] /\ pc' = [pc EXCEPT ![c] = "header!"]
      BY <1>6, <2>4 DEF StorePage, Goto
    <3>2. Len(layers[ServiceOf[c]]) \in Nat
      BY ServiceFacts, LenProperties DEF TypeOK
    <3>3. level[c] - 1 \in Nat /\ level[c] - 1 <= Len(layers[ServiceOf[c]])
      BY <2>1, <2>2, <2>4, <3>2
    <3>4. level' \in [Calls -> Nat]
      BY <3>1, <3>3 DEF TypeOK
    <3>5. \A d \in Calls : level'[d] <= Len(layers[ServiceOf[d]])
      BY <3>1, <3>3 DEF TypeOK
    <3> QED
      BY <1>6, <2>3, <3>1, <3>4, <3>5 DEF StorePage, TypeOK, Jobs
  <2>5. CASE ~(level[c] > 1)
    BY <1>6, <2>3, <2>5 DEF StorePage, Goto, TypeOK, Jobs
  <2> QED
    BY <2>4, <2>5
<1>7. CASE Return(c)
  BY <1>7 DEF Return, Release, Goto, TypeOK, Jobs
<1> QED
  BY <1>1, <1>2, <1>3, <1>4, <1>5, <1>6, <1>7 DEF CallStep

LEMMA SaveType ==
    ASSUME TypeOK, Leveled, NEW w \in Saves, SaveStep(w)
    PROVE  TypeOK'
<1> USE DEF registration, cache, scheduling, history
<1>0. w \in Jobs /\ SavedModel[w] \in Models
  BY ServiceFacts DEF Jobs
<1>1. ASSUME NEW p \in Processes, Commit(w, p) PROVE TypeOK'
  <2>1. Overtaken(w, p) \in BOOLEAN
    BY DEF Overtaken
  <2> QED
    BY <1>0, <1>1, <2>1 DEF Commit, Acquire, Goto, TypeOK
<1>2. ASSUME NEW p \in Processes, Write(w, p) PROVE TypeOK'
  <2>1. Overtaken(w, p) \in BOOLEAN
    BY DEF Overtaken
  <2> QED
    BY <1>0, <1>2, <2>1 DEF Write, Acquire, Goto, TypeOK
<1>3. \A keys \in SUBSET Keys : Without(keys) \in [Keys -> Nat \cup {None}]
  BY DEF Without, TypeOK
<1>4. \A s \in Services : Deleted(w, s) \subseteq Keys
  BY DEF Deleted
<1>5. todo[w] \in Seq(Services)
  BY DEF TypeOK
<1>6. todo[w] # << >> => Head(todo[w]) \in Services /\ Tail(todo[w]) \in Seq(Services)
  BY <1>5, HeadTailProperties
<1>7. CASE DeleteHeaders(w)
  BY <1>0, <1>7 DEF DeleteHeaders, Goto, TypeOK
<1>8. CASE DeletePages(w)
  BY <1>0, <1>3, <1>4, <1>6, <1>8 DEF DeletePages, Leveled, Goto, TypeOK
<1>9. CASE Clear(w)
  BY <1>0, <1>3, <1>4, <1>6, <1>9 DEF Clear, TypeOK
<1>10. CASE CommitTransaction(w)
  BY <1>0, <1>10 DEF CommitTransaction, Goto, TypeOK
<1>11. CASE Rollback(w)
  BY <1>0, <1>11, EmptySeq DEF Rollback, Release, Goto, TypeOK
<1>12. CASE Saved(w)
  BY <1>0, <1>12 DEF Saved, Release, Goto, TypeOK
<1> QED
  BY <1>1, <1>2, <1>7, <1>8, <1>9, <1>10, <1>11, <1>12 DEF SaveStep

LEMMA ExpireType ==
    ASSUME TypeOK, NEW k \in Keys, Expire(k)
    PROVE  TypeOK'
BY DEF Expire, TypeOK, registration, scheduling, history

--------------------------------------------------------------------------------
(* The thread of a process. *)

LEMMA AcquireFacts ==
    ASSUME TypeOK, ThreadsHeld, NEW j \in Jobs, NEW p \in Processes, Acquire(p, j)
    PROVE  /\ on'[j] = p /\ thread'[p] = j
           /\ \A i \in Jobs : Busy(i) => on[i] # p
           /\ \A i \in Jobs \ {j} :
                 on'[i] = on[i] /\ (Busy(i) => thread'[on[i]] = thread[on[i]])
<1>1. \A i \in Jobs : Busy(i) => on[i] \in Processes /\ thread[on[i]] = i /\ i # None
  BY NoneAssumption DEF ThreadsHeld
<1>2. \A i \in Jobs : Busy(i) => on[i] # p
  BY <1>1 DEF Acquire
<1> QED
  BY <1>1, <1>2 DEF Acquire, TypeOK

LEMMA ReleaseFacts ==
    ASSUME TypeOK, ThreadsHeld, NEW j \in Jobs, Release(j)
    PROVE  \A i \in Jobs \ {j} :
              on'[i] = on[i] /\ (Busy(i) => thread'[on[i]] = thread[on[i]])
BY DEF Release, ThreadsHeld

(* What a step of a call changes of others, and where it is before and after.  *)
CallOnly(c) ==
    /\ UNCHANGED <<registration, db, todo, saved, raced>>
    /\ \A j \in Jobs \ {c} : pc'[j] = pc[j] /\ value'[j] = value[j]
    /\ \A d \in Calls \ {c} : level'[d] = level[d] /\ floor'[d] = floor[d]
    /\ Busy(c) \/ (pc[c] = "new" /\ Serving)
    /\ pc'[c] \in CallPlaces \ {"new"}

LEMMA CallFrame ==
    ASSUME TypeOK, NEW c \in Calls, CallStep(c)
    PROVE  CallOnly(c)
<1> USE DEF registration, history, CallOnly, CallPlaces, Busy
<1>0. c \in Jobs
  BY DEF Jobs
<1>1. ASSUME NEW p \in Processes, Begin(c, p) PROVE CallOnly(c)
  BY <1>0, <1>1 DEF Begin, Goto, TypeOK
<1>2. CASE LookupHeader(c)
  <2>1. CASE Deeper(c)
    BY <1>0, <1>2, <2>1, DeeperType DEF LookupHeader, TypeOK
  <2>2. CASE Goto(c, "page?") /\ UNCHANGED level
    BY <1>0, <1>2, <2>2 DEF LookupHeader, Goto, TypeOK
  <2> QED
    BY <1>2, <2>1, <2>2 DEF LookupHeader
<1>3. CASE LookupPage(c)
  <2>1. CASE Deeper(c) /\ UNCHANGED value
    BY <1>0, <1>3, <2>1, DeeperType DEF LookupPage, TypeOK
  <2>2. CASE /\ Goto(c, "return") /\ UNCHANGED level
             /\ value' = [value EXCEPT ![c] = page[Key(Prefix(c), c)]]
    BY <1>0, <1>3, <2>2 DEF LookupPage, Goto, TypeOK
  <2> QED
    BY <1>3, <2>1, <2>2 DEF LookupPage
<1>4. CASE RunAction(c)
  BY <1>0, <1>4 DEF RunAction, Goto, TypeOK
<1>5. CASE StoreHeader(c)
  BY <1>0, <1>5 DEF StoreHeader, Goto, TypeOK
<1>6. CASE StorePage(c)
  BY <1>0, <1>6 DEF StorePage, Goto, TypeOK
<1>7. CASE Return(c)
  BY <1>0, <1>7 DEF Return, Goto, TypeOK
<1> QED
  BY <1>1, <1>2, <1>3, <1>4, <1>5, <1>6, <1>7 DEF CallStep

(* The same for a save. *)
SaveOnly(w) ==
    /\ UNCHANGED <<registration, level, floor>>
    /\ \A j \in Jobs \ {w} : pc'[j] = pc[j] /\ value'[j] = value[j]
    /\ \A v \in Saves \ {w} : todo'[v] = todo[v] /\ overtaken'[v] = overtaken[v]
    /\ \A m \in Models \ {SavedModel[w]} : UNCHANGED <<db[m], saved[m], raced[m]>>
    /\ Busy(w) \/ (pc[w] = "new" /\ Serving)
    /\ pc'[w] \in SavePlaces \ {"new"}

LEMMA SaveFrame ==
    ASSUME TypeOK, NEW w \in Saves, SaveStep(w)
    PROVE  SaveOnly(w)
<1> USE DEF registration, cache, history, SaveOnly, SavePlaces, Busy, TypeOK, Goto
<1>0. w \in Jobs
  BY DEF Jobs
<1>1. ASSUME NEW p \in Processes, Commit(w, p) PROVE SaveOnly(w)
  BY <1>0, <1>1 DEF Commit
<1>2. ASSUME NEW p \in Processes, Write(w, p) PROVE SaveOnly(w)
  BY <1>0, <1>2 DEF Write
<1>3. CASE DeleteHeaders(w)
  BY <1>0, <1>3 DEF DeleteHeaders
<1>4. CASE DeletePages(w)
  BY <1>0, <1>4 DEF DeletePages
<1>5. CASE Clear(w)
  BY <1>0, <1>5 DEF Clear
<1>6. CASE CommitTransaction(w)
  BY <1>0, <1>6 DEF CommitTransaction, Open
<1>7. CASE Rollback(w)
  BY <1>0, <1>7 DEF Rollback, Open
<1>8. CASE Saved(w)
  BY <1>0, <1>8 DEF Saved
<1> QED
  BY <1>1, <1>2, <1>3, <1>4, <1>5, <1>6, <1>7, <1>8 DEF SaveStep

LEMMA ThreadsStep ==
    ASSUME TypeOK, ThreadsHeld, Next
    PROVE  ThreadsHeld'
<1> USE DEF Busy
<1>0. Calls \subseteq Jobs /\ Saves \subseteq Jobs
  BY DEF Jobs
<1>1. ASSUME NEW c \in Calls, CallStep(c) PROVE ThreadsHeld'
  <2>1. CallOnly(c)
    BY <1>1, CallFrame
  <2>2. \A d \in Calls : pc'[d] \in CallPlaces
    BY <1>0, <2>1 DEF CallOnly, ThreadsHeld
  <2>3. \A w \in Saves : pc'[w] \in SavePlaces
    BY <1>0, <2>1, ServiceFacts DEF CallOnly, ThreadsHeld
  <2>4. ASSUME NEW p \in Processes, Begin(c, p)
        PROVE  \A j \in Jobs : Busy(j)' => on'[j] \in Processes /\ thread'[on'[j]] = j
    <3>1. Acquire(p, c)
      BY <2>4 DEF Begin
    <3> QED
      BY <1>0, <2>1, <3>1, AcquireFacts DEF CallOnly, ThreadsHeld
  <2>5. CASE Return(c)
    <3>1. Release(c) /\ pc'[c] = "done"
      BY <1>0, <2>5 DEF Return, Goto, TypeOK
    <3> QED
      BY <1>0, <2>1, <2>2, <2>3, <3>1, ReleaseFacts DEF CallOnly, ThreadsHeld
  <2>6. CASE LookupHeader(c) \/ LookupPage(c) \/ RunAction(c) \/ StoreHeader(c) \/ StorePage(c)
    <3>1. UNCHANGED scheduling /\ Busy(c)
      BY <2>6 DEF LookupHeader, LookupPage, RunAction, StoreHeader, StorePage
    <3> QED
      BY <1>0, <2>1, <2>2, <2>3, <3>1 DEF CallOnly, ThreadsHeld, scheduling
  <2> QED
    BY <1>1, <2>2, <2>3, <2>4, <2>5, <2>6 DEF CallStep, ThreadsHeld
<1>2. ASSUME NEW w \in Saves, SaveStep(w) PROVE ThreadsHeld'
  <2>1. SaveOnly(w)
    BY <1>2, SaveFrame
  <2>2. \A v \in Saves : pc'[v] \in SavePlaces
    BY <1>0, <2>1 DEF SaveOnly, ThreadsHeld
  <2>3. \A c \in Calls : pc'[c] \in CallPlaces
    BY <1>0, <2>1, ServiceFacts DEF SaveOnly, ThreadsHeld
  <2>4. ASSUME NEW p \in Processes, Commit(w, p) \/ Write(w, p)
        PROVE  \A j \in Jobs : Busy(j)' => on'[j] \in Processes /\ thread'[on'[j]] = j
    <3>1. Acquire(p, w)
      BY <2>4 DEF Commit, Write
    <3> QED
      BY <1>0, <2>1, <3>1, AcquireFacts DEF SaveOnly, ThreadsHeld
  <2>5. CASE Rollback(w) \/ Saved(w)
    <3>1. Release(w) /\ pc'[w] = "done"
      BY <1>0, <2>5 DEF Rollback, Saved, Goto, TypeOK
    <3> QED
      BY <1>0, <2>1, <2>2, <2>3, <3>1, ReleaseFacts DEF SaveOnly, ThreadsHeld
  <2>6. CASE DeleteHeaders(w) \/ DeletePages(w) \/ Clear(w) \/ CommitTransaction(w)
    <3>1. UNCHANGED scheduling /\ Busy(w)
      BY <2>6 DEF DeleteHeaders, DeletePages, Clear, CommitTransaction, Open
    <3> QED
      BY <1>0, <2>1, <2>2, <2>3, <3>1 DEF SaveOnly, ThreadsHeld, scheduling
  <2> QED
    BY <1>2, <2>2, <2>3, <2>4, <2>5, <2>6 DEF SaveStep, ThreadsHeld
<1>3. ASSUME NEW s \in Services, Register(s) PROVE ThreadsHeld'
  BY <1>3 DEF Register, ThreadsHeld, scheduling
<1>4. ASSUME NEW k \in Keys, Expire(k) PROVE ThreadsHeld'
  BY <1>4 DEF Expire, ThreadsHeld, scheduling
<1> QED
  BY <1>1, <1>2, <1>3, <1>4 DEF Next

LEMMA LeveledStep ==
    ASSUME TypeOK, ThreadsHeld, Leveled, Next
    PROVE  Leveled'
<1> USE DEF Busy
<1>0. Calls \subseteq Jobs /\ Saves \subseteq Jobs
  BY DEF Jobs
<1>a. \A c \in Calls : level[c] \in Nat /\ Len(layers[ServiceOf[c]]) \in Nat
  BY ServiceFacts, LenProperties DEF TypeOK
<1>1. ASSUME NEW c \in Calls, CallStep(c) PROVE Leveled'
  <2>1. CallOnly(c)
    BY <1>1, CallFrame
  <2>2. layers' = layers /\ todo' = todo /\ \A w \in Saves : pc'[w] = pc[w]
    BY <1>0, <2>1, ServiceFacts DEF CallOnly, registration
  <2>4. \A j \in Jobs : pc'[j] # "new" => Serving'
    BY <1>0, <2>1, <2>2 DEF CallOnly, Leveled, Serving, Registered
  <2>3. level'[c] \in 1 .. Len(layers[ServiceOf[c]]) \/ pc'[c] = "done"
    <3>1. ASSUME NEW p \in Processes, Begin(c, p) PROVE level'[c] \in 1 .. Len(layers[ServiceOf[c]])
      <4>1. layers[ServiceOf[c]] \in Seq(Services) /\ layers[ServiceOf[c]] # << >>
        BY <3>1, ServiceFacts DEF Begin, Serving, Registered, TypeOK
      <4>2. Len(layers[ServiceOf[c]]) \in Nat \ {0}
        BY <4>1, EmptySeq
      <4> QED
        BY <3>1, <4>2 DEF Begin, TypeOK
    <3>2. CASE Deeper(c) /\ Busy(c)
      <4>1. level'[c] = level[c] + 1 \/ level'[c] = level[c]
        BY <3>2, DeeperType
      <4>2. level'[c] <= Len(layers[ServiceOf[c]])
        BY <3>2, DeeperType
      <4>3. level[c] \in 1 .. Len(layers[ServiceOf[c]])
        BY <3>2 DEF Leveled
      <4> QED
        BY <1>a, <4>1, <4>2, <4>3
    <3>3. CASE UNCHANGED level /\ Busy(c)
      BY <3>3 DEF Leveled
    <3>4. CASE StorePage(c)
      <4>1. level[c] \in 1 .. Len(layers[ServiceOf[c]])
        BY <3>4 DEF StorePage, Leveled
      <4>2. level[c] > 1 => level'[c] = level[c] - 1
        BY <3>4 DEF StorePage, TypeOK
      <4>3. ~(level[c] > 1) => level'[c] = level[c]
        BY <3>4 DEF StorePage, TypeOK
      <4> QED
        BY <1>a, <4>1, <4>2, <4>3
    <3>5. CASE Return(c)
      BY <1>0, <3>5 DEF Return, Goto, TypeOK
    <3> QED
      BY <1>1, <3>1, <3>2, <3>3, <3>4, <3>5
         DEF CallStep, LookupHeader, LookupPage, RunAction, StoreHeader
  <2> QED
    BY <1>0, <2>1, <2>2, <2>3, <2>4 DEF Leveled, CallOnly
<1>2. ASSUME NEW w \in Saves, SaveStep(w) PROVE Leveled'
  <2>1. SaveOnly(w)
    BY <1>2, SaveFrame
  <2>2. /\ layers' = layers /\ level' = level
        /\ \A c \in Calls : pc'[c] = pc[c]
        /\ \A v \in Saves \ {w} : pc'[v] = pc[v] /\ todo'[v] = todo[v]
    BY <1>0, <2>1, ServiceFacts DEF SaveOnly, registration
  <2>3. pc'[w] = "pages" => todo'[w] # << >>
    BY <1>0, <1>2
       DEF SaveStep, Commit, Write, DeleteHeaders, DeletePages, Clear, CommitTransaction,
           Rollback, Saved, Goto, TypeOK
  <2>4. \A j \in Jobs : pc'[j] # "new" => Serving'
    BY <1>0, <2>1, <2>2 DEF SaveOnly, Leveled, Serving, Registered
  <2> QED
    BY <2>2, <2>3, <2>4 DEF Leveled
<1>3. ASSUME NEW s \in Services, Register(s) PROVE Leveled'
  <2>1. UNCHANGED <<pc, level, todo>> /\ ~Serving
    BY <1>3 DEF Register, Serving
  <2>2. \A j \in Jobs : pc[j] = "new"
    BY <2>1 DEF Leveled
  <2> QED
    BY <1>0, <2>1, <2>2 DEF Leveled
<1>4. ASSUME NEW k \in Keys, Expire(k) PROVE Leveled'
  BY <1>4 DEF Expire, Leveled, Serving, Registered, registration
<1> QED
  BY <1>1, <1>2, <1>3, <1>4 DEF Next

--------------------------------------------------------------------------------
(* The layers and what is stored in them. *)

(* Only the store of a call adds a page. *)
LEMMA CallPages ==
    ASSUME NEW c \in Calls, CallStep(c)
    PROVE  StorePage(c) \/ UNCHANGED page
BY DEF CallStep, Begin, LookupHeader, LookupPage, RunAction, StoreHeader, Return, cache

LEMMA SavePages ==
    ASSUME TypeOK, NEW w \in Saves, SaveStep(w)
    PROVE  \A k \in Keys : page'[k] \in {page[k], None}
BY DEF SaveStep, Commit, Write, DeleteHeaders, DeletePages, Clear, CommitTransaction,
       Rollback, Saved, Without, cache

LEMMA StoredPage ==
    ASSUME TypeOK, Leveled, NEW c \in Calls, StorePage(c)
    PROVE  /\ level[c] \in 1 .. Len(layers[ServiceOf[c]])
           /\ Key(Prefix(c), c) \in Keys
           /\ page'[Key(Prefix(c), c)] = value[c]
           /\ \A k \in Keys : k # Key(Prefix(c), c) => page'[k] = page[k]
<1>1. level[c] \in 1 .. Len(layers[ServiceOf[c]])
  BY DEF StorePage, Leveled, Busy
<1>2. Key(Prefix(c), c) \in Keys
  BY <1>1, PrefixFacts
<1> QED
  BY <1>1, <1>2 DEF StorePage, TypeOK

LEMMA LayeredStep ==
    ASSUME TypeOK, ThreadsHeld, Leveled, Layered, Next
    PROVE  Layered'
<1> USE DEF Busy
<1>0. Calls \subseteq Jobs /\ Saves \subseteq Jobs
  BY DEF Jobs
<1>1. ASSUME NEW c \in Calls, CallStep(c) PROVE Layered'
  <2>1. CallOnly(c) /\ UNCHANGED registration /\ (Serving <=> Serving')
    BY <1>1, CallFrame DEF CallOnly, registration, Serving, Registered
  <2>2. \A s \in Services, prefix \in Services : Covered(prefix, s) <=> Covered(prefix, s)'
    BY <2>1 DEF Covered, registration
  <2>4. ASSUME NEW k \in Keys, page'[k] # None PROVE Covered(k[1], k[2])
    <3>1. CASE UNCHANGED page
      BY <2>4, <3>1 DEF Layered
    <3>2. CASE StorePage(c)
      <4>1. CASE k # Key(Prefix(c), c)
        BY <2>4, <3>2, <4>1, StoredPage DEF Layered
      <4>2. CASE k = Key(Prefix(c), c)
        BY <3>2, <4>2, StoredPage, PrefixFacts, ServiceFacts DEF Layered
      <4> QED
        BY <4>1, <4>2
    <3> QED
      BY <1>1, <3>1, <3>2, CallPages
  <2>5. \A s \in Services : \A i \in 1 .. Len(layers[s]) : Covered(layers[s][i], s)'
    <3> SUFFICES ASSUME NEW s \in Services, NEW i \in 1 .. Len(layers[s])
                 PROVE  Covered(layers[s][i], s)'
      OBVIOUS
    <3>1. layers[s][i] \in Services
      BY ElementOfSeq DEF TypeOK
    <3>2. layers' = layers
      BY <2>1 DEF registration
    <3> QED
      BY <2>1, <3>2 DEF Layered, Covered, registration
  <2> QED
    BY <2>1, <2>2, <2>4, <2>5, ServiceFacts DEF Layered, registration
<1>2. ASSUME NEW w \in Saves, SaveStep(w) PROVE Layered'
  <2>1. SaveOnly(w) /\ UNCHANGED registration /\ (Serving <=> Serving')
    BY <1>2, SaveFrame DEF SaveOnly, registration, Serving, Registered
  <2>2. \A s \in Services, prefix \in Services : Covered(prefix, s) <=> Covered(prefix, s)'
    BY <2>1 DEF Covered, registration
  <2>4. \A k \in Keys : page'[k] # None => Covered(k[1], k[2])
    BY <1>2, SavePages DEF Layered
  <2>5. \A s \in Services : \A i \in 1 .. Len(layers[s]) : Covered(layers[s][i], s)'
    BY <2>1 DEF Layered, Covered, registration
  <2> QED
    BY <2>1, <2>2, <2>4, <2>5, ServiceFacts DEF Layered, registration
<1>3. ASSUME NEW s \in Services, Register(s) PROVE Layered'
  <2>2. /\ hasPattern' = hasPattern /\ page' = page
        /\ Len(receivers) \in Nat
    BY <1>3, LenProperties DEF Register, cache, TypeOK
  <2>a. /\ Len(receivers') = Len(receivers) + 1
        /\ \A i \in 1 .. Len(receivers) : receivers'[i] = receivers[i]
        /\ receivers'[Len(receivers) + 1] = s
    BY <1>3, RegisterType
  <2>b. /\ Inherited(s) \in Seq(Services) /\ layers'[s] \in Seq(Services)
        /\ Len(layers'[s]) = 1 + Len(Inherited(s))
        /\ \A i \in 1 .. Len(layers'[s]) :
              layers'[s][i] = IF i = 1 THEN s ELSE Inherited(s)[i - 1]
        /\ \A t \in Services \ {s} : layers'[t] = layers[t]
    BY <1>3, RegisterType
  <2>3. \A t, prefix \in Services : Covered(prefix, t) => Covered(prefix, t)'
    <3> SUFFICES ASSUME NEW t \in Services, NEW prefix \in Services, Covered(prefix, t)
                 PROVE  Covered(prefix, t)'
      OBVIOUS
    <3>1. PICK i \in 1 .. Len(receivers) :
              ModelOf[receivers[i]] = ModelOf[t] /\ (hasPattern => receivers[i] = prefix)
      BY DEF Covered
    <3>2. i \in 1 .. Len(receivers') /\ receivers'[i] = receivers[i]
      BY <2>2, <2>a, <3>1
    <3> QED
      BY <2>2, <3>1, <3>2 DEF Covered
  <2>4. \A prefix \in Services : (hasPattern => prefix = s) => Covered(prefix, s)'
    <3>1. Len(receivers) + 1 \in 1 .. Len(receivers') /\ receivers'[Len(receivers) + 1] = s
      BY <2>2, <2>a
    <3> QED
      BY <2>2, <3>1 DEF Covered
  <2>5. ASSUME NEW i \in 1 .. Len(layers'[s]), NEW prefix \in Services, prefix = layers'[s][i]
        PROVE  Covered(prefix, s)'
    <3>1. prefix = IF i = 1 THEN s ELSE Inherited(s)[i - 1]
      BY <2>5, <2>b
    <3>2. CASE i = 1 \/ ~hasPattern
      BY <2>4, <3>1, <3>2
    <3>3. CASE i # 1 /\ hasPattern
      <4>1. i - 1 \in 1 .. Len(Inherited(s))
        <5>1. Len(Inherited(s)) \in Nat
          BY <2>b, LenProperties
        <5> QED
          BY <2>5, <2>b, <3>3, <5>1
      <4>2. Parent[s] \in Services /\ Inherited(s) = layers[Parent[s]]
        BY <4>1, ParentAssumption, EmptySeq DEF Inherited
      <4>3. ModelOf[Parent[s]] = ModelOf[s]
        BY <3>3, <4>2, NoneAssumption DEF Layered, SharedModels
      <4>4. Covered(Inherited(s)[i - 1], Parent[s])
        BY <4>1, <4>2 DEF Layered
      <4>5. Covered(prefix, s)
        BY <3>1, <3>3, <4>3, <4>4 DEF Covered
      <4> QED
        BY <2>3, <4>5
    <3> QED
      BY <3>2, <3>3
  <2>6. ASSUME NEW t \in Services, NEW i \in 1 .. Len(layers'[t])
        PROVE  Covered(layers[t][i], t)'
    <3>1. PICK prefix \in Services : prefix = layers'[t][i]
      <4>1. layers'[t] \in Seq(Services)
        BY <1>3, RegisterType DEF TypeOK
      <4> QED
        BY <4>1, ElementOfSeq
    <3>2. Covered(prefix, t)'
      <4>1. CASE t = s
        BY <2>5, <3>1, <4>1
      <4>2. CASE t # s
        <5>1. i \in 1 .. Len(layers[t]) /\ prefix = layers[t][i]
          BY <2>b, <3>1, <4>2
        <5>2. Covered(prefix, t)
          BY <5>1 DEF Layered
        <5> QED
          BY <2>3, <3>1, <5>2
      <4> QED
        BY <4>1, <4>2
    <3> QED
      BY <3>1, <3>2 DEF Covered
  <2> QED
    BY <2>2, <2>3, <2>6, ServiceFacts DEF Layered
<1>4. ASSUME NEW k \in Keys, Expire(k) PROVE Layered'
  <2>1. UNCHANGED registration /\ pc' = pc /\ \A l \in Keys : page'[l] \in {page[l], None}
    BY <1>4 DEF Expire, TypeOK
  <2>2. Serving <=> Serving'
    BY <2>1 DEF Serving, Registered, registration
  <2> QED
    BY <2>1, <2>2 DEF Layered, Covered, registration
<1> QED
  BY <1>1, <1>2, <1>3, <1>4 DEF Next

--------------------------------------------------------------------------------
(* Versions. *)

LEMMA TypesOfVersions ==
    ASSUME TypeOK
    PROVE  /\ \A m \in Models : db[m] \in Nat /\ saved[m] \in Nat
           /\ \A j \in Jobs : value[j] \in Nat
           /\ \A c \in Calls : value[c] \in Nat /\ floor[c] \in Nat
           /\ \A w \in Saves : value[w] \in Nat
           /\ \A k \in Keys : page[k] # None => page[k] \in Nat
BY DEF TypeOK, Jobs

(* Whether a save is committed or open depends on where it is only. *)
LEMMA SamePlace ==
    ASSUME NEW w \in Saves, pc'[w] = pc[w]
    PROVE  (Committed(w) <=> Committed(w)') /\ (Open(w) <=> Open(w)')
BY DEF Committed, Open

LEMMA VersionsStep ==
    ASSUME TypeOK, ThreadsHeld, Versions, Next
    PROVE  Versions'
<1>0. Calls \subseteq Jobs /\ Saves \subseteq Jobs
  BY DEF Jobs
<1>1. ASSUME NEW c \in Calls, CallStep(c) PROVE Versions'
  <2>1. CallOnly(c)
    BY <1>1, CallFrame
  <2>2. /\ db' = db /\ saved' = saved /\ todo' = todo
        /\ \A w \in Saves : pc'[w] = pc[w] /\ value'[w] = value[w]
    BY <1>0, <2>1, ServiceFacts DEF CallOnly
  <2>3. \A w \in Saves : Committed(w) <=> Committed(w)'
    BY <2>2, SamePlace
  <2>4. floor'[c] <= saved[Model(c)]
    <3>1. ASSUME NEW p \in Processes, Begin(c, p) PROVE floor'[c] = saved[Model(c)]
      BY <3>1 DEF Begin, TypeOK
    <3>2. CASE UNCHANGED floor
      BY <3>2 DEF Versions
    <3> QED
      BY <1>1, <3>1, <3>2, TypesOfVersions, ServiceFacts
         DEF CallStep, LookupHeader, LookupPage, RunAction, StoreHeader, StorePage, Return
  <2> QED
    BY <2>1, <2>2, <2>3, <2>4 DEF Versions, CallOnly, Model
<1>2. ASSUME NEW w \in Saves, SaveStep(w) PROVE Versions'
  <2> DEFINE m == SavedModel[w]
  <2>0. SaveOnly(w) /\ m \in Models /\ w \in Jobs /\ pc[w] \in SavePlaces
    BY <1>0, <1>2, SaveFrame, ServiceFacts DEF ThreadsHeld
  <2>1. /\ floor' = floor
        /\ \A v \in Saves \ {w} : pc'[v] = pc[v] /\ value'[v] = value[v] /\ todo'[v] = todo[v]
        /\ \A n \in Models \ {m} : db'[n] = db[n] /\ saved'[n] = saved[n]
    BY <1>0, <2>0 DEF SaveOnly
  <2>2. \A v \in Saves \ {w} : Committed(v) <=> Committed(v)'
    BY <2>1, SamePlace
  <2>3. CASE \/ \E p \in Processes : Commit(w, p)
             \/ CommitTransaction(w)
    <3>1. db'[m] = db[m] + 1 /\ value'[w] = db[m] + 1 /\ saved' = saved /\ Committed(w)'
      BY <2>0, <2>3 DEF Commit, CommitTransaction, Goto, TypeOK, Committed, Open
    <3>2. pc'[w] = "committed" => w \in Atomic /\ todo'[w] = << >>
      BY <2>0, <2>3 DEF Commit, CommitTransaction, Goto, TypeOK, Open
    <3> QED
      BY <2>0, <2>1, <2>2, <3>1, <3>2, TypesOfVersions, ServiceFacts DEF Versions
  <2>4. CASE \/ \E p \in Processes : Write(w, p)
             \/ DeleteHeaders(w) \/ DeletePages(w) \/ Clear(w) \/ Rollback(w)
    <3>1. db' = db /\ value' = value /\ saved' = saved
      BY <2>4 DEF Write, DeleteHeaders, DeletePages, Clear, Rollback
    <3>2. (Committed(w) <=> Committed(w)') /\ pc'[w] # "committed"
      BY <2>0, <2>4
         DEF Write, DeleteHeaders, DeletePages, Clear, Rollback, Goto, TypeOK, Committed, Open
    <3> QED
      BY <2>0, <2>1, <2>2, <3>1, <3>2, TypesOfVersions, ServiceFacts DEF Versions
  <2>5. CASE Saved(w)
    <3>1. db' = db /\ value' = value /\ Committed(w) /\ pc'[w] = "done"
      BY <2>0, <2>5 DEF Saved, Goto, TypeOK, Committed
    <3>2. saved'[m] = IF saved[m] < value[w] THEN value[w] ELSE saved[m]
      BY <2>0, <2>5 DEF Saved, TypeOK
    <3>3. value[w] <= db[m] /\ saved[m] <= db[m]
      BY <2>0, <3>1 DEF Versions
    <3>4. /\ saved'[m] \in Nat /\ saved[m] <= saved'[m] /\ saved'[m] <= db[m]
          /\ value[w] <= saved'[m]
      BY <2>0, <3>2, <3>3, TypesOfVersions
    <3>5. \A n \in Models : saved'[n] <= db'[n]
      BY <2>1, <3>1, <3>4 DEF Versions
    <3>6. ASSUME NEW n \in Models, db'[n] # saved'[n]
          PROVE  \E v \in Saves : SavedModel[v] = n /\ Committed(v)' /\ value'[v] = db'[n]
      <4>1. db[n] # saved[n]
        BY <2>0, <2>1, <3>1, <3>4, <3>6, TypesOfVersions
      <4>2. PICK v \in Saves : SavedModel[v] = n /\ Committed(v) /\ value[v] = db[n]
        BY <4>1 DEF Versions
      <4>3. v # w
        BY <2>0, <3>1, <3>4, <3>6, <4>2, TypesOfVersions
      <4> QED
        BY <2>2, <3>1, <4>2, <4>3
    <3>7. \A v \in Saves : Committed(v)' => value'[v] <= db'[SavedModel[v]]
      BY <2>2, <3>1 DEF Versions, Committed
    <3>8. \A c \in Calls : floor'[c] <= saved'[Model(c)]
      BY <2>1, <3>4, TypesOfVersions, ServiceFacts DEF Versions
    <3>9. \A v \in Saves : pc'[v] = "committed" => v \in Atomic /\ todo'[v] = << >>
      BY <2>1, <3>1 DEF Versions
    <3> QED
      BY <3>5, <3>6, <3>7, <3>8, <3>9 DEF Versions, Model
  <2> QED
    BY <1>2, <2>3, <2>4, <2>5 DEF SaveStep
<1>3. CASE (\E s \in Services : Register(s)) \/ (\E k \in Keys : Expire(k))
  <2>1. UNCHANGED <<db, saved, floor, pc, value, todo>>
    BY <1>3 DEF Register, Expire
  <2>2. \A w \in Saves : Committed(w) <=> Committed(w)'
    BY <2>1, SamePlace
  <2> QED
    BY <2>1, <2>2 DEF Versions, Model
<1> QED
  BY <1>1, <1>2, <1>3 DEF Next

--------------------------------------------------------------------------------
(* Fills. *)

(* Two running jobs are in two processes. *)
LEMMA Apart ==
    ASSUME ThreadsHeld, NEW i \in Jobs, NEW j \in Jobs, i # j, Busy(i), Busy(j)
    PROVE  on[i] # on[j]
BY DEF ThreadsHeld

(* A job that starts in p finds every fill of the model in another process. *)
LEMMA FillsElsewhere ==
    ASSUME TypeOK, ThreadsHeld, NEW w \in Saves, NEW p \in Processes, Acquire(p, w),
           ~Overtaken(w, p)
    PROVE  Filling(SavedModel[w]) = {}
<1> SUFFICES ASSUME NEW c \in Filling(SavedModel[w]) PROVE FALSE
  OBVIOUS
<1>1. c \in Jobs /\ Busy(c) /\ w \in Jobs
  BY DEF Filling, Busy, Jobs
<1>2. on[c] # p
  BY <1>1, AcquireFacts
<1> QED
  BY <1>2 DEF Overtaken

(* Only its action lets a call fill. *)
LEMMA CallFills ==
    ASSUME TypeOK, NEW c \in Calls, CallStep(c)
    PROVE  \/ RunAction(c)
           \/ UNCHANGED overtaken /\ (pc'[c] \in {"header!", "page!"} =>
                 pc[c] \in {"header!", "page!"} /\ value'[c] = value[c])
<1>0. c \in Jobs
  BY DEF Jobs
<1> USE DEF history, Goto, TypeOK
<1>1. ASSUME NEW p \in Processes, Begin(c, p)
      PROVE  UNCHANGED overtaken /\ pc'[c] \notin {"header!", "page!"}
  BY <1>0, <1>1 DEF Begin
<1>2. CASE LookupHeader(c) \/ LookupPage(c)
  BY <1>0, <1>2, DeeperType DEF LookupHeader, LookupPage
<1>3. CASE StoreHeader(c) \/ StorePage(c) \/ Return(c)
  BY <1>0, <1>3 DEF StoreHeader, StorePage, Return
<1> QED
  BY <1>1, <1>2, <1>3 DEF CallStep

LEMMA FillsStep ==
    ASSUME TypeOK, ThreadsHeld, FillsCurrent, Next
    PROVE  FillsCurrent'
<1>0. Calls \subseteq Jobs /\ Saves \subseteq Jobs
  BY DEF Jobs
<1>1. ASSUME NEW c \in Calls, CallStep(c) PROVE FillsCurrent'
  <2>1. CallOnly(c)
    BY <1>1, CallFrame
  <2>2. /\ db' = db /\ raced' = raced
        /\ \A w \in Saves : Open(w) <=> Open(w)'
        /\ \A d \in Calls \ {c} : pc'[d] = pc[d] /\ value'[d] = value[d]
    BY <1>0, <2>1, ServiceFacts, SamePlace DEF CallOnly
  <2>3. CASE /\ UNCHANGED overtaken
             /\ pc'[c] \in {"header!", "page!"} =>
                   pc[c] \in {"header!", "page!"} /\ value'[c] = value[c]
    <3>1. \A m : Filling(m)' \subseteq Filling(m)
      BY <2>2, <2>3 DEF Filling, Model
    <3>2. \A d \in Calls : d \in Filling(Model(d))' => value'[d] = value[d]
      BY <2>2, <2>3 DEF Filling, Model
    <3> QED
      BY <2>2, <2>3, <3>1, <3>2 DEF FillsCurrent, Model
  <2>4. CASE RunAction(c)
    <3>1. value'[c] = db[Model(c)] /\ Busy(c)
      BY <1>0, <2>4 DEF RunAction, TypeOK, Busy
    <3>2. ASSUME NEW w \in Saves, Open(w), ~overtaken'[w]
          PROVE  ~overtaken[w] /\ SavedModel[w] # Model(c)
      <4>1. Busy(w) /\ w # c
        BY <3>2, ServiceFacts DEF Open, Busy
      <4>2. on[w] # on[c]
        BY <1>0, <3>1, <4>1, Apart
      <4> QED
        BY <2>4, <3>2, <4>2 DEF RunAction
    <3>3. \A m : Filling(m)' \subseteq Filling(m) \cup {c}
      BY <2>2 DEF Filling, Model
    <3>4. \A m : m # Model(c) => c \notin Filling(m)'
      BY DEF Filling, Model
    <3>5. \A d \in Calls : d \in Filling(Model(d))' /\ ~raced'[Model(d)] => value'[d] = db'[Model(d)]
      BY <2>2, <3>1 DEF FillsCurrent, Filling, Model
    <3>6. \A w \in Saves : Open(w)' /\ ~overtaken'[w] => Filling(SavedModel[w])' = {}
      BY <2>2, <3>2, <3>3, <3>4 DEF FillsCurrent
    <3> QED
      BY <3>5, <3>6 DEF FillsCurrent, Model
  <2> QED
    BY <1>1, <2>3, <2>4, CallFills
<1>2. ASSUME NEW w \in Saves, SaveStep(w) PROVE FillsCurrent'
  <2> DEFINE m == SavedModel[w]
  <2>0. SaveOnly(w) /\ m \in Models /\ w \in Jobs
    BY <1>0, <1>2, SaveFrame, ServiceFacts
  <2>1. /\ \A c \in Calls : pc'[c] = pc[c] /\ value'[c] = value[c]
        /\ \A v \in Saves \ {w} : (Open(v) <=> Open(v)') /\ overtaken'[v] = overtaken[v]
        /\ \A n \in Models \ {m} : db'[n] = db[n] /\ raced'[n] = raced[n]
    BY <1>0, <2>0, ServiceFacts, SamePlace DEF SaveOnly
  <2>2. \A n : Filling(n)' = Filling(n)
    BY <2>1 DEF Filling, Model
  <2>3. CASE \E p \in Processes : Commit(w, p)
    <3>1. PICK p \in Processes : Commit(w, p)
      BY <2>3
    <3>2. Acquire(p, w) /\ raced'[m] = (raced[m] \/ Overtaken(w, p)) /\ ~Open(w)'
      BY <2>0, <3>1 DEF Commit, TypeOK, Open
    <3>3. ~raced'[m] => Filling(m) = {}
      BY <3>2, FillsElsewhere
    <3> QED
      BY <2>1, <2>2, <3>2, <3>3, ServiceFacts DEF FillsCurrent, Model, Filling
  <2>4. CASE \E p \in Processes : Write(w, p)
    <3>1. PICK p \in Processes : Write(w, p)
      BY <2>4
    <3>2. Acquire(p, w) /\ overtaken'[w] = Overtaken(w, p) /\ db' = db /\ raced' = raced
      BY <2>0, <3>1 DEF Write, TypeOK
    <3>3. ~overtaken'[w] => Filling(m) = {}
      BY <3>2, FillsElsewhere
    <3> QED
      BY <2>1, <2>2, <3>2, <3>3, ServiceFacts DEF FillsCurrent, Model
  <2>5. CASE CommitTransaction(w)
    <3>1. Open(w) /\ raced'[m] = (raced[m] \/ overtaken[w]) /\ ~Open(w)'
      BY <2>0, <2>5 DEF CommitTransaction, TypeOK, Open, Goto
    <3>2. ~raced'[m] => Filling(m) = {}
      BY <3>1 DEF FillsCurrent
    <3> QED
      BY <2>1, <2>2, <3>1, <3>2, ServiceFacts DEF FillsCurrent, Model, Filling
  <2>6. CASE DeleteHeaders(w) \/ DeletePages(w) \/ Clear(w) \/ Rollback(w) \/ Saved(w)
    <3>1. UNCHANGED <<db, raced, overtaken>> /\ (Open(w)' => Open(w))
      BY <2>0, <2>6
         DEF DeleteHeaders, DeletePages, Clear, Rollback, Saved, history, Goto, TypeOK, Open
    <3> QED
      BY <2>1, <2>2, <3>1, ServiceFacts DEF FillsCurrent, Model
  <2> QED
    BY <1>2, <2>3, <2>4, <2>5, <2>6 DEF SaveStep
<1>3. CASE (\E s \in Services : Register(s)) \/ (\E k \in Keys : Expire(k))
  <2>1. UNCHANGED <<db, pc, value, overtaken, raced>>
    BY <1>3 DEF Register, Expire, history
  <2> QED
    BY <2>1 DEF FillsCurrent, Filling, Model, Open
<1> QED
  BY <1>1, <1>2, <1>3 DEF Next

--------------------------------------------------------------------------------
(* Pages. *)

LEMMA SameDeletes ==
    ASSUME NEW w \in Saves, NEW k \in Keys, UNCHANGED hasPattern, todo'[w] = todo[w]
    PROVE  Deletes(w, k) <=> Deletes(w, k)'
BY DEF Deletes, Deleted

(* A signal that has all its receivers to run deletes every page of the model. *)
LEMMA AllReceivers ==
    ASSUME Layered, UNCHANGED hasPattern, NEW w \in Saves, todo'[w] = receivers,
           NEW k \in Keys, page[k] # None, SavedModel[w] = ModelOf[k[2]]
    PROVE  Deletes(w, k)'
<1>1. PICK i \in 1 .. Len(receivers) :
          ModelOf[receivers[i]] = ModelOf[k[2]] /\ (hasPattern => receivers[i] = k[1])
  BY DEF Layered, Covered
<1>2. k \in Deleted(w, todo[w][i])'
  BY <1>1 DEF Deleted, Keys
<1> QED
  BY <1>1, <1>2 DEF Deletes

(* A receiver that has run leaves the pages the others delete. *)
LEMMA NextReceiver ==
    ASSUME TypeOK, UNCHANGED hasPattern, NEW w \in Saves, todo[w] # << >>,
           todo'[w] = Tail(todo[w]),
           NEW k \in Keys, k \notin Deleted(w, Head(todo[w])), Deletes(w, k)
    PROVE  Deletes(w, k)'
<1>1. PICK i \in 1 .. Len(todo[w]) : k \in Deleted(w, todo[w][i])
  BY DEF Deletes
<1>2. todo[w] \in Seq(Services)
  BY DEF TypeOK
<1>3. i # 1 /\ Len(todo[w]) \in Nat
  BY <1>1, <1>2, LenProperties
<1>4. /\ i - 1 \in 1 .. Len(Tail(todo[w]))
      /\ Tail(todo[w])[i - 1] = todo[w][i]
  BY <1>1, <1>2, <1>3, HeadTailProperties
<1> QED
  BY <1>1, <1>4 DEF Deletes, Deleted

(* The claim of PagesCurrent about one page and one save. *)
Doomed(k, w) ==
    /\ Committed(w) /\ page[k] < value[w] => Deletes(w, k)
    /\ Open(w) /\ ~overtaken[w] => Deletes(w, k)

LEMMA PagesByKey ==
    PagesCurrent <=>
      \A k \in Keys : page[k] # None /\ ~raced[ModelOf[k[2]]] =>
         /\ saved[ModelOf[k[2]]] <= page[k]
         /\ \A w \in Saves : SavedModel[w] = ModelOf[k[2]] => Doomed(k, w)
BY DEF PagesCurrent, Doomed

LEMMA CallPagesStep ==
    ASSUME TypeOK, ThreadsHeld, Leveled, Versions, FillsCurrent, PagesCurrent,
           NEW c \in Calls, CallStep(c)
    PROVE  PagesCurrent'
<1>0. Saves \subseteq Jobs
  BY DEF Jobs
<1>1. CallOnly(c)
  BY CallFrame
<1>2. /\ hasPattern' = hasPattern /\ saved' = saved /\ raced' = raced
      /\ \A w \in Saves : /\ Open(w) <=> Open(w)'
                          /\ Committed(w) <=> Committed(w)'
                          /\ value'[w] = value[w]
                          /\ \A k \in Keys : Deletes(w, k) <=> Deletes(w, k)'
  BY <1>0, <1>1, ServiceFacts, SamePlace, SameDeletes DEF CallOnly, registration
<1>3. \A w \in Saves : ~overtaken'[w] => ~overtaken[w]
  <2>1. CASE RunAction(c)
    BY <2>1 DEF RunAction
  <2>2. CASE UNCHANGED overtaken
    BY <2>2
  <2> QED
    BY <2>1, <2>2, CallFills
<1>4. ASSUME NEW k \in Keys, page'[k] = page[k], page'[k] # None, ~raced'[ModelOf[k[2]]]
      PROVE  /\ saved'[ModelOf[k[2]]] <= page'[k]
             /\ \A w \in Saves : SavedModel[w] = ModelOf[k[2]] => Doomed(k, w)'
  BY <1>2, <1>3, <1>4 DEF PagesCurrent, Doomed
<1>5. ASSUME StorePage(c), NEW k \in Keys, k = Key(Prefix(c), c), ~raced'[ModelOf[k[2]]]
      PROVE  /\ saved'[ModelOf[k[2]]] <= page'[k]
             /\ \A w \in Saves : SavedModel[w] = ModelOf[k[2]] => Doomed(k, w)'
  <2> DEFINE m == Model(c)
  <2>1. page'[k] = value[c] /\ ModelOf[k[2]] = m /\ m \in Models
    BY <1>5, StoredPage, PrefixFacts, ServiceFacts DEF Model
  <2>2. c \in Filling(m)
    BY <1>5 DEF StorePage, Filling
  <2>3. value[c] = db[m]
    BY <1>2, <1>5, <2>1, <2>2 DEF FillsCurrent
  <2>4. saved'[m] <= page'[k]
    BY <1>2, <2>1, <2>3 DEF Versions
  <2>5. \A w \in Saves : SavedModel[w] = m /\ Committed(w)' => ~(page'[k] < value'[w])
    BY <1>2, <2>1, <2>3, TypesOfVersions DEF Versions
  <2>6. \A w \in Saves : SavedModel[w] = m => ~(Open(w)' /\ ~overtaken'[w])
    BY <1>2, <1>3, <2>2 DEF FillsCurrent
  <2> QED
    BY <2>1, <2>4, <2>5, <2>6 DEF Doomed
<1>6. ASSUME NEW k \in Keys, page'[k] # None, ~raced'[ModelOf[k[2]]]
      PROVE  /\ saved'[ModelOf[k[2]]] <= page'[k]
             /\ \A w \in Saves : SavedModel[w] = ModelOf[k[2]] => Doomed(k, w)'
  <2>1. CASE page'[k] = page[k]
    BY <1>4, <1>6, <2>1
  <2>2. CASE StorePage(c) /\ k = Key(Prefix(c), c)
    BY <1>5, <1>6, <2>2
  <2> QED
    BY <2>1, <2>2, CallPages, StoredPage
<1> QED
  BY <1>6 DEF PagesCurrent, Doomed

LEMMA SavePagesStep ==
    ASSUME TypeOK, ThreadsHeld, Leveled, Layered, Versions, FillsCurrent, PagesCurrent,
           NEW w \in Saves, SaveStep(w)
    PROVE  PagesCurrent'
<1> DEFINE m == SavedModel[w]
<1>0. SaveOnly(w) /\ m \in Models /\ w \in Jobs /\ pc[w] \in SavePlaces
  BY SaveFrame, ServiceFacts DEF ThreadsHeld, Jobs
<1>1. /\ hasPattern' = hasPattern
      /\ \A v \in Saves \ {w} : /\ Open(v) <=> Open(v)'
                                /\ Committed(v) <=> Committed(v)'
                                /\ value'[v] = value[v] /\ overtaken'[v] = overtaken[v]
                                /\ \A k \in Keys : Deletes(v, k) <=> Deletes(v, k)'
      /\ \A n \in Models \ {m} : saved'[n] = saved[n] /\ raced'[n] = raced[n]
      /\ \A k \in Keys : page'[k] \in {page[k], None}
  BY <1>0, SamePlace, SameDeletes, SavePages DEF SaveOnly, registration, Jobs
<1>2. raced[m] => raced'[m]
  BY <1>0 DEF SaveStep, Commit, Write, DeleteHeaders, DeletePages, Clear, CommitTransaction,
       Rollback, Saved, history, TypeOK
<1>3. ASSUME NEW k \in Keys, page'[k] # None, ~raced'[ModelOf[k[2]]]
      PROVE  /\ page'[k] = page[k] /\ page[k] # None /\ ~raced[ModelOf[k[2]]]
             /\ \A v \in Saves \ {w} : SavedModel[v] = ModelOf[k[2]] => Doomed(k, v)'
             /\ ModelOf[k[2]] # m => saved'[ModelOf[k[2]]] <= page'[k]
             /\ saved[ModelOf[k[2]]] <= page[k]
             /\ ModelOf[k[2]] = m => Doomed(k, w)
  <2>1. page'[k] = page[k] /\ page[k] # None /\ ~raced[ModelOf[k[2]]]
    BY <1>1, <1>2, <1>3, ServiceFacts
  <2> QED
    BY <1>1, <2>1, ServiceFacts DEF PagesCurrent, Doomed
(* What is left is a page of the model of w. *)
<1>4. SUFFICES ASSUME NEW k \in Keys, page'[k] # None, ~raced'[m], ModelOf[k[2]] = m
               PROVE  saved'[m] <= page'[k] /\ Doomed(k, w)'
  BY <1>1, <1>3 DEF PagesCurrent, Doomed
<1>5. /\ page'[k] = page[k] /\ page[k] # None /\ ~raced[m] /\ page[k] \in Nat
      /\ saved[m] <= page[k] /\ Doomed(k, w)
  BY <1>3, <1>4, TypesOfVersions
<1>6. CASE \E p \in Processes : Commit(w, p) \/ Write(w, p)
  <2>1. saved' = saved /\ todo'[w] = receivers
    BY <1>6 DEF Commit, Write, TypeOK
  <2>2. Deletes(w, k)'
    BY <1>1, <1>4, <1>5, <2>1, AllReceivers
  <2> QED
    BY <1>5, <2>1, <2>2 DEF Doomed
<1>7. CASE CommitTransaction(w)
  <2>1. Open(w) /\ todo[w] = << >> /\ ~overtaken[w]
    BY <1>0, <1>4, <1>7 DEF CommitTransaction, TypeOK
  <2>2. Deletes(w, k)
    BY <1>5, <2>1 DEF Doomed
  <2> QED
    BY <2>1, <2>2, EmptySeq DEF Deletes
<1>8. CASE DeleteHeaders(w)
  <2>1. UNCHANGED <<saved, value, overtaken>> /\ todo'[w] = todo[w] /\ pc'[w] = "pages"
    BY <1>0, <1>8 DEF DeleteHeaders, history, Goto, TypeOK
  <2>2. Committed(w)' => Committed(w)
    BY <1>8, <2>1 DEF DeleteHeaders, Committed
  <2>3. Open(w)' => Open(w)
    BY <1>8, <2>1 DEF DeleteHeaders, Open
  <2>4. Deletes(w, k) => Deletes(w, k)'
    BY <1>1, <2>1, SameDeletes
  <2> QED
    BY <1>5, <2>1, <2>2, <2>3, <2>4 DEF Doomed
<1>9. CASE DeletePages(w) \/ Clear(w)
  <2>1. /\ UNCHANGED <<saved, value, overtaken>>
        /\ pc[w] \in {"signal", "pages"} /\ pc'[w] = "signal"
        /\ todo[w] # << >> /\ todo'[w] = Tail(todo[w])
        /\ page' = Without(Deleted(w, Head(todo[w])))
    BY <1>0, <1>9 DEF DeletePages, Clear, Leveled, history, Goto, TypeOK
  <2>2. Committed(w)' => Committed(w)
    BY <2>1 DEF Committed
  <2>3. Open(w)' => Open(w)
    BY <2>1 DEF Open
  <2>4. k \notin Deleted(w, Head(todo[w]))
    BY <1>4, <2>1 DEF Without
  <2>5. Deletes(w, k) => Deletes(w, k)'
    BY <1>1, <2>1, <2>4, NextReceiver
  <2> QED
    BY <1>5, <2>1, <2>2, <2>3, <2>5 DEF Doomed
<1>10. CASE Rollback(w)
  <2>1. saved' = saved /\ pc'[w] = "done"
    BY <1>0, <1>10 DEF Rollback, Goto, TypeOK
  <2> QED
    BY <1>5, <2>1 DEF Doomed, Committed, Open
<1>11. CASE Saved(w)
  <2>1. /\ pc'[w] = "done" /\ Committed(w) /\ todo[w] = << >>
        /\ saved'[m] = IF saved[m] < value[w] THEN value[w] ELSE saved[m]
    BY <1>0, <1>11 DEF Saved, Committed, Goto, Versions, TypeOK
  <2>2. ~Deletes(w, k)
    BY <2>1, EmptySeq DEF Deletes
  <2>3. ~(page[k] < value[w])
    BY <1>5, <2>1, <2>2 DEF Doomed
  <2>4. saved'[m] <= page'[k]
    BY <1>0, <1>5, <2>1, <2>3, TypesOfVersions
  <2> QED
    BY <2>1, <2>4 DEF Doomed, Committed, Open
<1> QED
  BY <1>6, <1>7, <1>8, <1>9, <1>10, <1>11 DEF SaveStep

LEMMA PagesStep ==
    ASSUME TypeOK, ThreadsHeld, Leveled, Layered, Versions, FillsCurrent, PagesCurrent, Next
    PROVE  PagesCurrent'
<1>1. CASE \E s \in Services : Register(s)
  <2>1. UNCHANGED <<hasPattern, pc, page, saved, raced, overtaken, value, todo>>
    BY <1>1 DEF Register, cache, history
  <2> QED
    BY <2>1 DEF PagesCurrent, Committed, Open, Deletes, Deleted
<1>2. CASE \E k \in Keys : Expire(k)
  <2>1. UNCHANGED <<hasPattern, pc, saved, raced, overtaken, value, todo>>
    BY <1>2 DEF Expire, registration, history
  <2>2. \A k \in Keys : page'[k] \in {page[k], None}
    BY <1>2 DEF Expire, TypeOK
  <2> QED
    BY <2>1, <2>2 DEF PagesCurrent, Committed, Open, Deletes, Deleted
<1> QED
  BY <1>1, <1>2, CallPagesStep, SavePagesStep DEF Next

--------------------------------------------------------------------------------
(* Answers. *)

LEMMA AnswersStep ==
    ASSUME TypeOK, ThreadsHeld, Leveled, Versions, PagesCurrent, AnswersCurrent, Next
    PROVE  AnswersCurrent'
<1>0. Calls \subseteq Jobs
  BY DEF Jobs
<1> DEFINE Places == {"header!", "page!", "return", "done"}
<1>1. ASSUME NEW c \in Calls, CallStep(c) PROVE AnswersCurrent'
  <2>1. CallOnly(c) /\ raced' = raced
    BY <1>1, CallFrame DEF CallOnly
  <2>2. SUFFICES ASSUME pc'[c] \in Places
                 PROVE  floor'[c] <= value'[c] \/ raced'[Model(c)]
    BY <1>0, <2>1 DEF AnswersCurrent, CallOnly, Model
  <2>3. ASSUME NEW p \in Processes, Begin(c, p) PROVE FALSE
    BY <1>0, <2>2, <2>3 DEF Begin, Goto, TypeOK
  <2>4. CASE LookupHeader(c)
    BY <1>0, <2>2, <2>4, DeeperType DEF LookupHeader, Goto, TypeOK
  <2>5. CASE LookupPage(c)
    <3> DEFINE k == Key(Prefix(c), c)
    <3>1. k \in Keys /\ ModelOf[k[2]] = Model(c) /\ Model(c) \in Models
      BY <2>5, PrefixFacts, ServiceFacts DEF LookupPage, Leveled, Busy, Model
    <3>2. page[k] # None /\ value'[c] = page[k] /\ floor' = floor
      BY <1>0, <2>2, <2>5, DeeperType DEF LookupPage, TypeOK
    <3>3. raced[Model(c)] \/ saved[Model(c)] <= page[k]
      BY <3>1, <3>2 DEF PagesCurrent
    <3>4. floor[c] <= saved[Model(c)]
      BY DEF Versions
    <3> QED
      BY <2>1, <3>1, <3>2, <3>3, <3>4, TypesOfVersions
  <2>6. CASE RunAction(c)
    <3>1. value'[c] = db[Model(c)] /\ floor' = floor /\ Model(c) \in Models
      BY <1>0, <2>6, ServiceFacts DEF RunAction, TypeOK
    <3> QED
      BY <3>1, TypesOfVersions DEF Versions
  <2>7. CASE StoreHeader(c) \/ StorePage(c) \/ Return(c)
    <3>1. floor' = floor /\ value' = value /\ pc[c] \in Places
      BY <2>7 DEF StoreHeader, StorePage, Return
    <3> QED
      BY <2>1, <3>1 DEF AnswersCurrent
  <2> QED
    BY <1>1, <2>3, <2>4, <2>5, <2>6, <2>7 DEF CallStep
<1>2. ASSUME NEW w \in Saves, SaveStep(w) PROVE AnswersCurrent'
  <2>1. SaveOnly(w) /\ w \in Jobs
    BY <1>2, SaveFrame DEF Jobs
  <2>2. \A n \in Models : raced[n] => raced'[n]
    BY <1>2, ServiceFacts
       DEF SaveStep, Commit, Write, DeleteHeaders, DeletePages, Clear, CommitTransaction,
           Rollback, Saved, history, TypeOK
  <2> QED
    BY <1>0, <2>1, <2>2, ServiceFacts DEF AnswersCurrent, SaveOnly, Model
<1>3. CASE (\E s \in Services : Register(s)) \/ (\E k \in Keys : Expire(k))
  <2>1. UNCHANGED <<pc, value, floor, raced>>
    BY <1>3 DEF Register, Expire, history
  <2> QED
    BY <2>1 DEF AnswersCurrent, Model
<1> QED
  BY <1>1, <1>2, <1>3 DEF Next

--------------------------------------------------------------------------------
(* The inductive invariants. *)

PlacesInv == TypeOK /\ ThreadsHeld /\ Leveled

LEMMA InitPlaces == Init => PlacesInv
BY InitType DEF Init, PlacesInv, ThreadsHeld, Leveled, CallPlaces, SavePlaces, Busy, Jobs

LEMMA NextPlaces == PlacesInv /\ [Next]_vars => PlacesInv'
<1>1. ASSUME PlacesInv, Next PROVE PlacesInv'
  <2>1. TypeOK'
    BY <1>1, RegisterType, CallType, SaveType, ExpireType DEF PlacesInv, Next
  <2> QED
    BY <1>1, <2>1, ThreadsStep, LeveledStep DEF PlacesInv
<1>2. ASSUME PlacesInv, UNCHANGED vars PROVE PlacesInv'
  BY <1>2 DEF PlacesInv, vars, TypeOK, ThreadsHeld, Leveled, Busy, Serving, Registered
<1> QED
  BY <1>1, <1>2

LEMMA InitCache == Init /\ (hasPattern => SharedModels) => CacheInv
<1> SUFFICES ASSUME Init, hasPattern => SharedModels PROVE CacheInv
  OBVIOUS
<1>1. PlacesInv
  BY InitPlaces
<1>2. Layered
  BY EmptySeq DEF Init, Layered
<1>3. Versions /\ FillsCurrent /\ PagesCurrent /\ AnswersCurrent
  BY ServiceFacts
     DEF Init, Versions, FillsCurrent, PagesCurrent, AnswersCurrent, Filling, Open, Jobs
<1> QED
  BY <1>1, <1>2, <1>3 DEF CacheInv, PlacesInv

LEMMA NextCache == CacheInv /\ [Next]_vars => CacheInv'
<1>1. ASSUME CacheInv, Next PROVE CacheInv'
  <2>1. PlacesInv'
    BY <1>1, NextPlaces DEF CacheInv, PlacesInv
  <2> QED
    BY <1>1, <2>1, LayeredStep, VersionsStep, FillsStep, PagesStep, AnswersStep
       DEF CacheInv, PlacesInv
<1>2. ASSUME CacheInv, UNCHANGED vars PROVE CacheInv'
  <2>1. PlacesInv'
    BY <1>2, NextPlaces DEF CacheInv, PlacesInv
  <2>2. Layered' /\ Versions' /\ FillsCurrent' /\ PagesCurrent' /\ AnswersCurrent'
    BY <1>2
       DEF CacheInv, vars, Layered, Covered, Versions, FillsCurrent, PagesCurrent,
           AnswersCurrent, Committed, Filling, Open, Deletes, Deleted, Model
  <2> QED
    BY <2>1, <2>2 DEF CacheInv, PlacesInv
<1> QED
  BY <1>1, <1>2

LEMMA CacheInvImplies == CacheInv => StaleOnlyAfterRace /\ StaleEntriesAreDoomed
<1> SUFFICES ASSUME CacheInv PROVE StaleOnlyAfterRace /\ StaleEntriesAreDoomed
  OBVIOUS
<1> USE DEF CacheInv
<1>1. StaleOnlyAfterRace
  BY TypesOfVersions DEF AnswersCurrent, StaleOnlyAfterRace, Answered
<1>2. ASSUME NEW k \in Keys, Stale(k), ~raced[ModelOf[k[2]]]
      PROVE  \E w \in Saves : Deletes(w, k)
  <2> DEFINE m == ModelOf[k[2]]
  <2>1. m \in Models /\ page[k] # None /\ page[k] < db[m]
    BY <1>2, ServiceFacts DEF Stale
  <2>2. saved[m] <= page[k]
    BY <1>2, <2>1 DEF PagesCurrent
  <2>3. PICK w \in Saves : SavedModel[w] = m /\ Committed(w) /\ value[w] = db[m]
    BY <2>1, <2>2, TypesOfVersions DEF Versions
  <2> QED
    BY <1>2, <2>1, <2>3 DEF PagesCurrent
<1> QED
  BY <1>1, <1>2 DEF StaleEntriesAreDoomed

(* In a single process nothing is read while a save is running. *)
NoRaces == (\A m \in Models : ~raced[m]) /\ (\A w \in Saves : ~overtaken[w])

LEMMA OneProcess ==
    ASSUME \A p, q \in Processes : p = q, PlacesInv, NoRaces, [Next]_vars
    PROVE  NoRaces'
<1> USE DEF PlacesInv, NoRaces
<1>1. \A j \in Jobs, p \in Processes : Busy(j) => on[j] = p
  BY DEF ThreadsHeld
<1>2. ASSUME NEW c \in Calls, CallStep(c) PROVE NoRaces'
  <2>1. raced' = raced
    BY <1>2, CallFrame DEF CallOnly
  <2>2. CASE RunAction(c)
    <3>1. \A w \in Saves : Open(w) => on[w] = on[c]
      <4>1. Busy(c) /\ c \in Jobs /\ on[c] \in Processes
        BY <2>2 DEF RunAction, Busy, Jobs, ThreadsHeld
      <4> QED
        BY <1>1, <4>1 DEF Open, Busy, Jobs
    <3> QED
      BY <2>1, <2>2, <3>1 DEF RunAction
  <2> QED
    BY <1>2, <2>1, <2>2, CallFills
<1>3. ASSUME NEW w \in Saves, SaveStep(w) PROVE NoRaces'
  <2>1. \A p \in Processes : ~Overtaken(w, p)
    BY <1>1 DEF Overtaken, Filling, Busy, Jobs
  <2>2. UNCHANGED raced \/ raced' = [raced EXCEPT ![SavedModel[w]] = FALSE]
    BY <1>3, <2>1, ServiceFacts
       DEF SaveStep, Commit, Write, DeleteHeaders, DeletePages, Clear, CommitTransaction,
           Rollback, Saved, history
  <2>3. UNCHANGED overtaken \/ overtaken' = [overtaken EXCEPT ![w] = FALSE]
    BY <1>3, <2>1
       DEF SaveStep, Commit, Write, DeleteHeaders, DeletePages, Clear, CommitTransaction,
           Rollback, Saved, history
  <2> QED
    BY <2>2, <2>3 DEF TypeOK
<1>4. CASE UNCHANGED vars \/ (\E s \in Services : Register(s)) \/ (\E k \in Keys : Expire(k))
  BY <1>4 DEF vars, Register, Expire, history
<1> QED
  BY <1>2, <1>3, <1>4 DEF Next

--------------------------------------------------------------------------------
(* The theorems. *)

(* The state is well typed, whatever service inherits from whatever other. *)
THEOREM CacheTyped == Spec => []TypeOK
<1>1. PlacesInv => TypeOK
  BY DEF PlacesInv
<1> QED
  BY <1>1, InitPlaces, NextPlaces, PTL DEF Spec

(* cache_endpoint_with_deleter: a call that begins after a save has returned   *)
(* answers something older only if another process was filling the cache from  *)
(* the model when that save, or an earlier one, was committed.                 *)
THEOREM StaleAnswersRaced == ASSUME SharedModels PROVE Spec => []StaleOnlyAfterRace
<1>1. Init => CacheInv
  BY InitCache
<1> QED
  BY <1>1, NextCache, CacheInvImplies, PTL DEF Spec

(* Every other entry older than the database, in whatever layer of whatever    *)
(* service it is, is one that a running save is about to delete.               *)
THEOREM StalePagesDoomed == ASSUME SharedModels PROVE Spec => []StaleEntriesAreDoomed
<1>1. Init => CacheInv
  BY InitCache
<1> QED
  BY <1>1, NextCache, CacheInvImplies, PTL DEF Spec

(* A cache without delete_pattern is cleared as a whole, which asks nothing of *)
(* the models of the services that inherit a cached action.                    *)
THEOREM ClearedCache ==
    Spec /\ ~hasPattern => [](StaleOnlyAfterRace /\ StaleEntriesAreDoomed)
<1>1. Init /\ ~hasPattern => CacheInv
  BY InitCache
<1> QED
  BY <1>1, NextCache, CacheInvImplies, PTL DEF Spec

(* A single process never answers older than what was saved when the call      *)
(* began: the one synchronous thread keeps saves out of fills.                 *)
THEOREM OneProcessIsFresh ==
    ASSUME SharedModels, \A p, q \in Processes : p = q
    PROVE  Spec => []FreshAnswers
<1> DEFINE Inv == CacheInv /\ NoRaces
<1>1. Init => Inv
  BY InitCache DEF Init, NoRaces
<1>2. Inv /\ [Next]_vars => Inv'
  BY NextCache, OneProcess DEF CacheInv, PlacesInv
<1>3. Inv => FreshAnswers
  BY CacheInvImplies, TypesOfVersions, ServiceFacts
     DEF CacheInv, StaleOnlyAfterRace, FreshAnswers, NoRaces
<1> QED
  BY <1>1, <1>2, <1>3, PTL DEF Spec

================================================================================
