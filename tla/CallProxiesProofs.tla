--------------------------- MODULE CallProxiesProofs ---------------------------
(* The headers of a response, for any calls, names, values and order of        *)
(* operations: the copies a proxy keeps and what the client gets agree, and an  *)
(* answer from the cache is one to what the call asked for.                    *)
EXTENDS CallProxies, InductionLemmas

(* The last pair of p under key n holds v.                                     *)
LastIs(p, n, v) ==
    \E i \in DOMAIN p : p[i] = <<n, v>> /\ \A j \in DOMAIN p : j > i => p[j][1] # n

LEMMA LastExists ==
    ASSUME NEW K, NEW V, NEW p \in Seq(K \X V), NEW n \in Keys(p)
    PROVE  \E v \in V : LastIs(p, n, v)
<1> DEFINE T == {i \in Nat : \E j \in DOMAIN p : p[j][1] = n /\ i = Len(p) - j}
<1>1. T \subseteq Nat /\ T # {}
  <2>1. PICK j \in DOMAIN p : p[j][1] = n
    BY DEF Keys
  <2>2. Len(p) - j \in Nat
    BY <2>1
  <2> QED
    BY <2>1, <2>2
<1>2. PICK m \in T : \A j \in T : m <= j
  BY <1>1, LeastIndex
<1>3. PICK i \in DOMAIN p : p[i][1] = n /\ m = Len(p) - i
  BY <1>2
<1>4. ASSUME NEW j \in DOMAIN p, j > i PROVE p[j][1] # n
  <2> SUFFICES ASSUME p[j][1] = n PROVE FALSE
    OBVIOUS
  <2>1. Len(p) - j \in T
    OBVIOUS
  <2> HIDE DEF T
  <2> QED
    BY <1>2, <1>3, <1>4, <2>1
<1>5. p[i] \in K \X V /\ p[i] = <<n, p[i][2]>>
  BY <1>3
<1> QED
  BY <1>4, <1>5 DEF LastIs

LEMMA LastIsOne ==
    ASSUME NEW K, NEW V, NEW p \in Seq(K \X V), NEW n, NEW v, NEW w,
           LastIs(p, n, v), LastIs(p, n, w)
    PROVE  v = w
<1>1. PICK i \in DOMAIN p : p[i] = <<n, v>> /\ \A j \in DOMAIN p : j > i => p[j][1] # n
  BY DEF LastIs
<1>2. PICK k \in DOMAIN p : p[k] = <<n, w>> /\ \A j \in DOMAIN p : j > k => p[j][1] # n
  BY DEF LastIs
<1>3. ~(i > k) /\ ~(k > i)
  BY <1>1, <1>2
<1>4. i = k
  BY <1>3
<1> QED
  BY <1>1, <1>2, <1>4

LEMMA KeysOfNext ==
    ASSUME NEW p, NEW q, NEW m \in Nat, DOMAIN p = 1 .. m, DOMAIN q = 1 .. m + 1,
           \A i \in DOMAIN p : q[i] = p[i]
    PROVE  Keys(q) = Keys(p) \cup {q[m + 1][1]}
<1>1. ASSUME NEW x \in Keys(q) PROVE x \in Keys(p) \cup {q[m + 1][1]}
  <2>1. PICK i \in DOMAIN q : q[i][1] = x
    BY DEF Keys
  <2>2. CASE i = m + 1
    BY <2>1, <2>2
  <2>3. CASE i # m + 1
    <3>1. i \in DOMAIN p
      BY <2>3
    <3> QED
      BY <2>1, <3>1 DEF Keys
  <2> QED
    BY <2>2, <2>3
<1>2. ASSUME NEW x \in Keys(p) PROVE x \in Keys(q)
  <2>1. PICK i \in DOMAIN p : p[i][1] = x
    BY DEF Keys
  <2>2. i \in DOMAIN q /\ q[i][1] = x
    BY <2>1
  <2> QED
    BY <2>2 DEF Keys
<1>3. q[m + 1][1] \in Keys(q)
  <2>1. m + 1 \in DOMAIN q
    OBVIOUS
  <2> QED
    BY <2>1 DEF Keys
<1> QED
  BY <1>1, <1>2, <1>3

LEMMA KeysOfAppend ==
    ASSUME NEW S, NEW p \in Seq(S), NEW e \in S, NEW k, k = e[1]
    PROVE  Keys(Append(p, e)) = Keys(p) \cup {k}
<1> DEFINE q == Append(p, e)
<1>1. /\ DOMAIN q = 1 .. Len(p) + 1 /\ DOMAIN p = 1 .. Len(p)
      /\ Len(p) \in Nat /\ q[Len(p) + 1] = e /\ \A i \in DOMAIN p : q[i] = p[i]
  OBVIOUS
<1> HIDE DEF q
<1>2. Keys(q) = Keys(p) \cup {q[Len(p) + 1][1]}
  BY <1>1, KeysOfNext, Zenon
<1> QED
  BY <1>1, <1>2 DEF q

Extended(q, p, k, v) ==
    /\ Keys(q) = Keys(p) \cup {k}
    /\ LastIs(q, k, v)
    /\ \A n, w : n # k => (LastIs(q, n, w) <=> LastIs(p, n, w))

LEMMA LastOfAppend ==
    ASSUME NEW K, NEW V, NEW p \in Seq(K \X V), NEW k \in K, NEW v \in V
    PROVE  Append(p, <<k, v>>) \in Seq(K \X V) /\ Extended(Append(p, <<k, v>>), p, k, v)
<1> DEFINE q == Append(p, <<k, v>>)
<1>1. /\ q \in Seq(K \X V) /\ DOMAIN q = 1 .. Len(p) + 1 /\ DOMAIN p = 1 .. Len(p)
      /\ Len(p) \in Nat /\ q[Len(p) + 1] = <<k, v>> /\ \A i \in DOMAIN p : q[i] = p[i]
  OBVIOUS
<1> HIDE DEF q
<1>2. Keys(q) = Keys(p) \cup {k}
  <2>1. <<k, v>> \in K \X V
    OBVIOUS
  <2> QED
    BY <2>1, KeysOfAppend DEF q
<1>3. LastIs(q, k, v)
  BY <1>1 DEF LastIs
<1>4. ASSUME NEW n, NEW w, n # k PROVE LastIs(q, n, w) <=> LastIs(p, n, w)
  <2>1. ASSUME LastIs(q, n, w) PROVE LastIs(p, n, w)
    <3>1. PICK i \in DOMAIN q : q[i] = <<n, w>> /\ \A j \in DOMAIN q : j > i => q[j][1] # n
      BY <2>1 DEF LastIs
    <3>2. i # Len(p) + 1
      BY <1>1, <1>4, <3>1
    <3>3. i \in DOMAIN p /\ p[i] = <<n, w>>
      BY <1>1, <3>1, <3>2
    <3>4. \A j \in DOMAIN p : j > i => p[j][1] # n
      BY <1>1, <3>1
    <3> QED
      BY <3>3, <3>4 DEF LastIs
  <2>2. ASSUME LastIs(p, n, w) PROVE LastIs(q, n, w)
    <3>1. PICK i \in DOMAIN p : p[i] = <<n, w>> /\ \A j \in DOMAIN p : j > i => p[j][1] # n
      BY <2>2 DEF LastIs
    <3>2. i \in DOMAIN q /\ q[i] = <<n, w>>
      BY <1>1, <3>1
    <3>3. ASSUME NEW j \in DOMAIN q, j > i PROVE q[j][1] # n
      <4>1. CASE j = Len(p) + 1
        BY <1>1, <1>4, <4>1
      <4>2. CASE j # Len(p) + 1
        BY <1>1, <3>1, <3>3, <4>2
      <4> QED
        BY <4>1, <4>2
    <3> QED
      BY <3>2, <3>3 DEF LastIs
  <2> QED
    BY <2>1, <2>2
<1> QED
  BY <1>1, <1>2, <1>3, <1>4 DEF q, Extended

LEMMA DictValue ==
    ASSUME NEW d, IsDict(d), NEW i \in DOMAIN d
    PROVE  ValueIn(d, d[i][1]) = d[i][2]
BY DEF IsDict, ValueIn

(* What an update of a dictionary makes of it. *)
Updated(q, d, k, v) ==
    /\ IsDict(q)
    /\ Keys(q) = Keys(d) \cup {k}
    /\ ValueIn(q, k) = v
    /\ \A n \in Keys(d) : n # k => ValueIn(q, n) = ValueIn(d, n)
    /\ Len(d) <= Len(q) /\ Len(q) \in Nat
    /\ \A i \in DOMAIN d : q[i] = IF d[i][1] = k THEN <<k, v>> ELSE d[i]
    /\ k \notin Keys(d) => q = Append(d, <<k, v>>)
    /\ k \in Keys(d) => Len(q) = Len(d)

LEMMA PutUpdates ==
    ASSUME NEW K, NEW V, NEW d \in Seq(K \X V), IsDict(d), NEW k \in K, NEW v \in V,
           NEW q, q = Put(d, k, v)
    PROVE  q \in Seq(K \X V) /\ Updated(q, d, k, v)
<1>0. Len(d) \in Nat /\ DOMAIN d = 1 .. Len(d)
  OBVIOUS
<1>1. CASE k \in Keys(d)
  <2>1. q = [i \in DOMAIN d |-> IF d[i][1] = k THEN <<k, v>> ELSE d[i]]
    BY <1>1 DEF Put
  <2>2. q \in Seq(K \X V) /\ DOMAIN q = DOMAIN d /\ Len(q) = Len(d)
    BY <2>1
  <2>3. \A i \in DOMAIN d : q[i][1] = d[i][1]
    BY <2>1
  <2>4. IsDict(q) /\ Keys(q) = Keys(d)
    BY <2>2, <2>3 DEF IsDict, Keys
  <2>5. PICK i \in DOMAIN d : d[i][1] = k
    BY <1>1 DEF Keys
  <2>6. ValueIn(q, k) = v
    <3>1. q[i] = <<k, v>> /\ i \in DOMAIN q
      BY <2>1, <2>2, <2>5
    <3> QED
      BY <2>4, <3>1, DictValue
  <2>7. ASSUME NEW n \in Keys(d), n # k PROVE ValueIn(q, n) = ValueIn(d, n)
    <3>1. PICK j \in DOMAIN d : d[j][1] = n
      BY DEF Keys
    <3>2. q[j] = d[j] /\ j \in DOMAIN q
      BY <2>1, <2>2, <3>1, <2>7
    <3>3. ValueIn(q, q[j][1]) = q[j][2] /\ ValueIn(d, d[j][1]) = d[j][2]
      BY <2>4, <3>2, DictValue
    <3> QED
      BY <3>1, <3>2, <3>3
  <2> QED
    <3>1. Keys(q) = Keys(d) \cup {k}
      BY <1>1, <2>4
    <3>2. \A j \in DOMAIN d : q[j] = IF d[j][1] = k THEN <<k, v>> ELSE d[j]
      BY <2>1
    <3>3. Len(d) <= Len(q) /\ Len(q) \in Nat /\ Len(q) = Len(d)
      BY <1>0, <2>2
    <3> QED
      BY <1>1, <2>2, <2>4, <2>6, <2>7, <3>1, <3>2, <3>3, Zenon DEF Updated
<1>2. CASE k \notin Keys(d)
  <2>1. q = Append(d, <<k, v>>)
    BY <1>2 DEF Put
  <2>2. /\ q \in Seq(K \X V) /\ DOMAIN q = 1 .. Len(d) + 1 /\ Len(q) = Len(d) + 1
        /\ q[Len(d) + 1] = <<k, v>> /\ \A i \in DOMAIN d : q[i] = d[i]
    BY <2>1
  <2>3. \A i \in DOMAIN d : d[i][1] # k
    BY <1>2 DEF Keys
  <2>4. IsDict(q)
    BY <1>0, <2>2, <2>3 DEF IsDict
  <2>5. Keys(q) = Keys(d) \cup {k}
    <3>1. <<k, v>> \in K \X V
      OBVIOUS
    <3>2. Keys(Append(d, <<k, v>>)) = Keys(d) \cup {k}
      BY <3>1, KeysOfAppend
    <3> QED
      BY <2>1, <3>2
  <2>6. ValueIn(q, k) = v
    BY <1>0, <2>2, <2>4, DictValue
  <2>7. ASSUME NEW n \in Keys(d), n # k PROVE ValueIn(q, n) = ValueIn(d, n)
    <3>1. PICK j \in DOMAIN d : d[j][1] = n
      BY DEF Keys
    <3>2. q[j] = d[j] /\ j \in DOMAIN q
      BY <1>0, <2>2, <3>1
    <3>3. ValueIn(q, q[j][1]) = q[j][2] /\ ValueIn(d, d[j][1]) = d[j][2]
      BY <2>4, <3>2, DictValue
    <3> QED
      BY <3>1, <3>2, <3>3
  <2> QED
    <3>1. \A j \in DOMAIN d : q[j] = IF d[j][1] = k THEN <<k, v>> ELSE d[j]
      BY <2>2, <2>3
    <3>2. Len(d) <= Len(q) /\ Len(q) \in Nat
      BY <1>0, <2>2
    <3> QED
      BY <1>2, <2>1, <2>2, <2>4, <2>5, <2>6, <2>7, <3>1, <3>2, Zenon DEF Updated
<1> QED
  BY <1>1, <1>2

LEMMA PutFacts ==
    ASSUME NEW K, NEW V, NEW d \in Seq(K \X V), IsDict(d), NEW k \in K, NEW v \in V
    PROVE  Put(d, k, v) \in Seq(K \X V) /\ Updated(Put(d, k, v), d, k, v)
BY PutUpdates

--------------------------------------------------------------------------------
(* Merging. *)

(* One turn of the loop of Merge, of a table f of what the turns made. *)
Turns(f, one, other, m) ==
    f = [i \in 0 .. m |->
            IF i = 0 THEN one ELSE Put(f[i - 1], other[i][1], other[i][2])]

LEMMA TurnsExist ==
    ASSUME NEW one, NEW other, NEW N \in Nat
    PROVE  \E f : Turns(f, one, other, N)
<1> DEFINE T == {m \in 0 .. N : \E f : Turns(f, one, other, m)}
<1>1. 0 \in T
  <2>1. Turns([i \in 0 .. 0 |-> one], one, other, 0)
    BY DEF Turns
  <2> QED
    BY <2>1
<1>2. ASSUME NEW m \in 1 .. N, m - 1 \in T PROVE m \in T
  <2>1. PICK f : Turns(f, one, other, m - 1)
    BY <1>2
  <2> DEFINE g == [i \in 0 .. m |->
                      IF i = m THEN Put(f[m - 1], other[m][1], other[m][2]) ELSE f[i]]
  <2>2. \A i \in 0 .. m - 1 : g[i] = f[i]
    OBVIOUS
  <2>3. ASSUME NEW i \in 0 .. m
        PROVE  g[i] = IF i = 0 THEN one ELSE Put(g[i - 1], other[i][1], other[i][2])
    <3>1. CASE i = m
      <4>1. g[i - 1] = f[m - 1] /\ g[i] = Put(f[m - 1], other[m][1], other[m][2]) /\ i # 0
        BY <3>1
      <4> QED
        BY <3>1, <4>1
    <3>2. CASE i # m
      <4>1. i \in 0 .. m - 1 /\ g[i] = f[i]
        BY <3>2
      <4>2. i # 0 => g[i - 1] = f[i - 1]
        BY <3>2
      <4>3. f[i] = IF i = 0 THEN one ELSE Put(f[i - 1], other[i][1], other[i][2])
        BY <2>1, <4>1 DEF Turns
      <4> HIDE DEF g
      <4> QED
        BY <4>1, <4>2, <4>3
    <3> QED
      BY <3>1, <3>2
  <2>4. g = [i \in 0 .. m |-> g[i]]
    OBVIOUS
  <2> HIDE DEF g
  <2>5. Turns(g, one, other, m)
    BY <2>3, <2>4 DEF Turns
  <2> QED
    BY <2>5
<1> HIDE DEF T
<1>3. N \in T
  BY <1>1, <1>2, InductionUpTo
<1> QED
  BY <1>3 DEF T

LEMMA MergeTurns ==
    ASSUME NEW S, NEW one, NEW other \in Seq(S)
    PROVE  \E f : Turns(f, one, other, Len(other)) /\ Merge(one, other) = f[Len(other)]
<1> DEFINE h == CHOOSE f : Turns(f, one, other, Len(other))
<1>1. \E f : Turns(f, one, other, Len(other))
  <2>1. Len(other) \in Nat
    OBVIOUS
  <2> QED
    BY <2>1, TurnsExist
<1>2. Turns(h, one, other, Len(other))
  BY <1>1, Zenon
<1>3. Merge(one, other) = h[Len(other)]
  BY Zenon DEF Merge, Turns
<1> QED
  BY <1>2, <1>3, Zenon

(* The keys of the first m pairs. *)
FirstKeys(other, m) == {other[j][1] : j \in 1 .. m}

(* What m turns have made of one. *)
MergedUpTo(r, one, other, m) ==
    /\ IsDict(r)
    /\ Keys(r) = Keys(one) \cup FirstKeys(other, m)
    /\ \A n \in Keys(one) \ FirstKeys(other, m) : ValueIn(r, n) = ValueIn(one, n)
    /\ \A j \in 1 .. m :
          (\A l \in 1 .. m : l > j => other[l][1] # other[j][1])
          => ValueIn(r, other[j][1]) = other[j][2]
    /\ m > 0 /\ other[m][1] \notin Keys(one) \cup FirstKeys(other, m - 1)
          => r[Len(r)] = other[m] /\ Len(r) > 0

LEMMA MergeTurn ==
    ASSUME NEW K, NEW V, NEW one, NEW other \in Seq(K \X V), NEW m \in 1 .. Len(other),
           NEW r \in Seq(K \X V), MergedUpTo(r, one, other, m - 1),
           NEW q, q = Put(r, other[m][1], other[m][2])
    PROVE  q \in Seq(K \X V) /\ MergedUpTo(q, one, other, m)
<1> DEFINE k == other[m][1]
           v == other[m][2]
<1>1. k \in K /\ v \in V /\ other[m] = <<k, v>> /\ m - 1 \in Nat /\ m \in Nat
  OBVIOUS
<1> HIDE DEF k, v
<1>2. FirstKeys(other, m) = FirstKeys(other, m - 1) \cup {k}
  <2>1. 1 .. m = (1 .. m - 1) \cup {m}
    OBVIOUS
  <2> QED
    BY <2>1 DEF FirstKeys, k
<1>3. IsDict(r) /\ Keys(r) = Keys(one) \cup FirstKeys(other, m - 1)
  BY DEF MergedUpTo
<1>4. q = Put(r, k, v)
  BY DEF k, v
<1>5. /\ q \in Seq(K \X V) /\ IsDict(q) /\ Keys(q) = Keys(r) \cup {k} /\ ValueIn(q, k) = v
      /\ \A n \in Keys(r) : n # k => ValueIn(q, n) = ValueIn(r, n)
      /\ k \notin Keys(r) => q = Append(r, <<k, v>>)
  <2>1. Put(r, k, v) \in Seq(K \X V) /\ Updated(Put(r, k, v), r, k, v)
    BY <1>1, <1>3, PutFacts
  <2> QED
    BY <1>4, <2>1, Zenon DEF Updated
<1>6. ASSUME NEW n \in Keys(one) \ FirstKeys(other, m) PROVE ValueIn(q, n) = ValueIn(one, n)
  <2>1. n \in Keys(one) \ FirstKeys(other, m - 1) /\ n # k /\ n \in Keys(r)
    BY <1>2, <1>3
  <2> QED
    BY <1>5, <2>1 DEF MergedUpTo
<1>7. ASSUME NEW j \in 1 .. m, \A l \in 1 .. m : l > j => other[l][1] # other[j][1]
      PROVE  ValueIn(q, other[j][1]) = other[j][2]
  <2>1. CASE j = m
    BY <1>5, <2>1 DEF k, v
  <2>2. CASE j # m
    <3>1. j \in 1 .. m - 1 /\ m > j
      BY <2>2
    <3>2. other[j][1] # k
      BY <1>7, <3>1 DEF k
    <3>3. \A l \in 1 .. m - 1 : l > j => other[l][1] # other[j][1]
      BY <1>7
    <3>4. ValueIn(r, other[j][1]) = other[j][2]
      BY <3>1, <3>3 DEF MergedUpTo
    <3>5. other[j][1] \in Keys(r)
      BY <1>3, <3>1 DEF FirstKeys
    <3> QED
      BY <1>5, <3>2, <3>4, <3>5
  <2> QED
    BY <2>1, <2>2
<1>8. ASSUME k \notin Keys(one) \cup FirstKeys(other, m - 1)
      PROVE  q[Len(q)] = other[m] /\ Len(q) > 0
  <2>1. q = Append(r, <<k, v>>)
    BY <1>3, <1>5, <1>8
  <2>2. Len(q) = Len(r) + 1 /\ q[Len(r) + 1] = <<k, v>> /\ Len(r) \in Nat
    BY <1>1, <2>1
  <2> QED
    BY <1>1, <2>2
<1> QED
  BY <1>2, <1>3, <1>5, <1>6, <1>7, <1>8 DEF MergedUpTo, k

LEMMA MergeFacts ==
    ASSUME NEW K, NEW V, NEW one \in Seq(K \X V), IsDict(one), NEW other \in Seq(K \X V)
    PROVE  /\ Merge(one, other) \in Seq(K \X V)
           /\ MergedUpTo(Merge(one, other), one, other, Len(other))
<1>1. PICK f : Turns(f, one, other, Len(other)) /\ Merge(one, other) = f[Len(other)]
  BY MergeTurns
<1>2. PICK N \in Nat : N = Len(other)
  OBVIOUS
<1> DEFINE T == {m \in 0 .. N : f[m] \in Seq(K \X V) /\ MergedUpTo(f[m], one, other, m)}
<1>a. Turns(f, one, other, N)
  BY <1>1, <1>2
<1>3. 0 \in T
  <2>1. f[0] = one
    BY <1>2, <1>a DEF Turns
  <2>2. FirstKeys(other, 0) = {}
    BY DEF FirstKeys
  <2>3. MergedUpTo(one, one, other, 0)
    BY <2>2 DEF MergedUpTo
  <2> QED
    BY <1>2, <2>1, <2>3
<1>4. ASSUME NEW m \in 1 .. N, m - 1 \in T PROVE m \in T
  <2>1. f[m] = Put(f[m - 1], other[m][1], other[m][2])
    <3>1. f = [i \in 0 .. N |->
                 IF i = 0 THEN one ELSE Put(f[i - 1], other[i][1], other[i][2])]
      BY <1>a DEF Turns
    <3>2. m \in 0 .. N /\ m # 0
      BY <1>4
    <3> QED
      BY <3>1, <3>2
  <2>2. f[m - 1] \in Seq(K \X V) /\ MergedUpTo(f[m - 1], one, other, m - 1)
    BY <1>4
  <2>3. m \in 1 .. Len(other)
    BY <1>2
  <2>4. f[m] \in Seq(K \X V) /\ MergedUpTo(f[m], one, other, m)
    BY <2>1, <2>2, <2>3, MergeTurn
  <2> QED
    BY <1>2, <2>4
<1> HIDE DEF T
<1>5. N \in T
  <2>1. \A i \in 0 .. N : i \in T
    BY <1>3, <1>4, InductionUpTo, Zenon
  <2> QED
    BY <2>1
<1> QED
  BY <1>1, <1>2, <1>5 DEF T

(* The whole of a merge: the later of two values counts. *)
Combined(r, one, other) ==
    /\ IsDict(r)
    /\ Keys(r) = Keys(one) \cup Keys(other)
    /\ \A n \in Keys(one) \ Keys(other) : ValueIn(r, n) = ValueIn(one, n)
    /\ \A n, v : LastIs(other, n, v) => ValueIn(r, n) = v

LEMMA UpToAll ==
    ASSUME NEW S, NEW one, NEW other \in Seq(S), NEW r, MergedUpTo(r, one, other, Len(other))
    PROVE  Combined(r, one, other)
<1>2. FirstKeys(other, Len(other)) = Keys(other)
  <2>1. DOMAIN other = 1 .. Len(other)
    OBVIOUS
  <2> QED
    BY <2>1, Zenon DEF FirstKeys, Keys
<1>3. ASSUME NEW n, NEW v, LastIs(other, n, v) PROVE ValueIn(r, n) = v
  <2>1. PICK j \in DOMAIN other :
            other[j] = <<n, v>> /\ \A l \in DOMAIN other : l > j => other[l][1] # n
    BY <1>3 DEF LastIs
  <2>2. j \in 1 .. Len(other) /\ other[j][1] = n /\ other[j][2] = v
    BY <2>1
  <2>3. \A l \in 1 .. Len(other) : l > j => other[l][1] # other[j][1]
    BY <2>1, <2>2
  <2>4. ValueIn(r, other[j][1]) = other[j][2]
    BY <2>2, <2>3, Zenon DEF MergedUpTo
  <2> QED
    BY <2>2, <2>4
<1> QED
  BY <1>2, <1>3 DEF MergedUpTo, Combined

LEMMA MergeValues ==
    ASSUME NEW K, NEW V, NEW one \in Seq(K \X V), IsDict(one), NEW other \in Seq(K \X V)
    PROVE  Merge(one, other) \in Seq(K \X V) /\ Combined(Merge(one, other), one, other)
<1>1. /\ Merge(one, other) \in Seq(K \X V)
      /\ MergedUpTo(Merge(one, other), one, other, Len(other))
  BY MergeFacts
<1> QED
  BY <1>1, UpToAll

Collects(r, t) ==
    IsDict(r) /\ Keys(r) = Keys(t) /\ \A n, v : LastIs(t, n, v) => ValueIn(r, n) = v

LEMMA DictFacts ==
    ASSUME NEW K, NEW V, NEW t \in Seq(K \X V)
    PROVE  DictOf(t) \in Seq(K \X V) /\ Collects(DictOf(t), t)
<1> DEFINE empty == <<>>
<1>1. empty \in Seq(K \X V) /\ IsDict(empty) /\ Keys(empty) = {}
  BY DEF IsDict, Keys
<1>2. DictOf(t) = Merge(empty, t)
  BY DEF DictOf
<1> HIDE DEF empty
<1>3. Merge(empty, t) \in Seq(K \X V) /\ Combined(Merge(empty, t), empty, t)
  BY <1>1, MergeValues
<1> QED
  BY <1>1, <1>2, <1>3 DEF Combined, Collects

--------------------------------------------------------------------------------
(* Headers. *)

LowerNames == {n \in HeaderNames : Lower[n] = n}

(* What a proxy keeps, and what the trailing metadata hold: names in lower     *)
(* case and texts.                                                             *)
Headers == Seq(HeaderNames \X (Values \cup Strings))
Lowered == Seq(LowerNames \X Strings)

(* What a proxy has and the metadata t say the same of n. *)
AgreeOn(store, http, t, n) ==
    /\ n \in Keys(store) <=> n \in Keys(t)
    /\ n \in Keys(t) =>
          \E v \in Strings :
              /\ LastIs(t, n, v)
              /\ StrOf[ValueIn(store, n)] = v
              /\ \E k \in DOMAIN http : Lower[http[k][1]] = n /\ StrOf[http[k][2]] = v

(* The store holds, under n, what the last spelling of n in the response has.  *)
StoredAs(http, store, n) ==
    \E k \in DOMAIN http :
        /\ Lower[http[k][1]] = n
        /\ StrOf[ValueIn(store, n)] = StrOf[http[k][2]]
        /\ \A j \in DOMAIN http : j > k => Lower[http[j][1]] # n

(* A proxy that waits for its context: what it was restored from is in lower   *)
(* case, and only the age, which comes last, may be written otherwise.         *)
Pending(http, store) ==
    /\ \A k \in DOMAIN http :
          http[k][1] \in LowerNames \/ (k = Len(http) /\ http[k][1] = Age)
    /\ \A k \in DOMAIN http : Lower[http[k][1]] \in Keys(store)
    /\ \A n \in Keys(store) : StoredAs(http, store, n)

LEMMA NameFacts ==
    /\ LowerNames \subseteq HeaderNames
    /\ \A n \in HeaderNames : Lower[n] \in LowerNames
    /\ \A v \in Values \cup Strings : StrOf[v] \in Strings
    /\ \A v \in Strings : StrOf[v] = v
    /\ ResponseKeys \subseteq LowerNames
    /\ Age \in HeaderNames /\ ResponseNames \subseteq HeaderNames
    /\ \A n \in ResponseNames : Lower[n] \in ResponseKeys
BY NamesAssumption, ValuesAssumption DEF LowerNames, ResponseKeys

LEMMA LoweredAreHeaders == ASSUME NEW t \in Lowered PROVE t \in Headers
<1>1. \A i \in 1 .. Len(t) : t[i] \in LowerNames \X Strings
  BY DEF Lowered
<1>2. \A i \in 1 .. Len(t) : t[i] \in HeaderNames \X (Values \cup Strings)
  BY <1>1, NameFacts
<1>3. t = [i \in 1 .. Len(t) |-> t[i]] /\ Len(t) \in Nat
  BY DEF Lowered
<1> QED
  BY <1>2, <1>3 DEF Headers

(* __setitem__, on a proxy that has its context: it agrees on the header set,  *)
(* and on the others as before.                                                *)
LEMMA SetAgrees ==
    ASSUME NEW store \in Headers, IsDict(store), NEW http \in Headers, IsDict(http),
           NEW t \in Lowered, NEW n \in HeaderNames, NEW v \in Values,
           NEW m, m = Lower[n] \/ AgreeOn(store, http, t, m)
    PROVE  AgreeOn(Put(store, Lower[n], v), Put(http, n, v),
                   Append(t, <<Lower[n], StrOf[v]>>), m)
<1> DEFINE k == Lower[n]
           s2 == Put(store, k, v)
           h2 == Put(http, n, v)
           t2 == Append(t, <<k, StrOf[v]>>)
<1>1. k \in LowerNames /\ k \in HeaderNames /\ v \in Values \cup Strings /\ StrOf[v] \in Strings
  BY NameFacts
<1> HIDE DEF k
<1>2. Updated(s2, store, k, v)
  BY <1>1, PutFacts DEF Headers
<1>3. h2 \in Headers /\ Updated(h2, http, n, v)
  BY <1>1, PutFacts DEF Headers
<1>4. /\ Keys(t2) = Keys(t) \cup {k} /\ LastIs(t2, k, StrOf[v])
      /\ \A x, w : x # k => (LastIs(t2, x, w) <=> LastIs(t, x, w))
  <2>1. t \in Seq(LowerNames \X Strings)
    BY DEF Lowered
  <2>2. Extended(t2, t, k, StrOf[v])
    BY <1>1, <2>1, LastOfAppend
  <2> QED
    BY <2>2, Zenon DEF Extended
<1> HIDE DEF s2, h2, t2
<1>5. ASSUME m = k PROVE AgreeOn(s2, h2, t2, m)
  <2>1. m \in Keys(s2) /\ m \in Keys(t2) /\ ValueIn(s2, m) = v
    BY <1>2, <1>4, <1>5 DEF Updated
  <2>2. PICK i \in DOMAIN h2 : h2[i] = <<n, v>>
    <3>1. n \in Keys(h2) /\ IsDict(h2) /\ ValueIn(h2, n) = v
      BY <1>3 DEF Updated
    <3> QED
      <4>1. h2 \in Seq(HeaderNames \X (Values \cup Strings))
        BY <1>3 DEF Headers
      <4> QED
        <5>1. PICK i \in DOMAIN h2 : h2[i][1] = n
          BY <3>1 DEF Keys
        <5>2. h2[i][2] = v
          BY <3>1, <5>1, DictValue
        <5> QED
          BY <4>1, <5>1, <5>2
  <2>3. Lower[h2[i][1]] = m /\ StrOf[h2[i][2]] = StrOf[v]
    BY <1>5, <2>2 DEF k
  <2> QED
    <3>1. i \in DOMAIN h2 /\ LastIs(t2, m, StrOf[v]) /\ StrOf[v] \in Strings
      BY <1>1, <1>4, <1>5, <2>2
    <3> QED
      BY <2>1, <2>3, <3>1, Zenon DEF AgreeOn
<1>6. ASSUME m # k PROVE AgreeOn(s2, h2, t2, m)
  <2>1. AgreeOn(store, http, t, m)
    BY <1>6 DEF k
  <2>2. m \in Keys(s2) <=> m \in Keys(t2)
    BY <1>2, <1>4, <1>6, <2>1 DEF Updated, AgreeOn
  <2>3. ASSUME m \in Keys(t2)
        PROVE  \E w \in Strings :
                  /\ LastIs(t2, m, w)
                  /\ StrOf[ValueIn(s2, m)] = w
                  /\ \E i \in DOMAIN h2 : Lower[h2[i][1]] = m /\ StrOf[h2[i][2]] = w
    <3>1. m \in Keys(t) /\ m \in Keys(store)
      BY <1>4, <1>6, <2>1, <2>3 DEF AgreeOn
    <3>2. PICK w \in Strings :
              /\ LastIs(t, m, w)
              /\ StrOf[ValueIn(store, m)] = w
              /\ \E i \in DOMAIN http : Lower[http[i][1]] = m /\ StrOf[http[i][2]] = w
      BY <2>1, <3>1 DEF AgreeOn
    <3>3. PICK i \in DOMAIN http : Lower[http[i][1]] = m /\ StrOf[http[i][2]] = w
      BY <3>2
    <3>4. http[i][1] # n
      BY <1>6, <3>3 DEF k
    <3>5. i \in DOMAIN h2 /\ h2[i] = http[i]
      <4>1. i \in 1 .. Len(http) /\ Len(http) \in Nat /\ DOMAIN h2 = 1 .. Len(h2)
        BY <1>3 DEF Headers
      <4>2. Len(http) <= Len(h2) /\ Len(h2) \in Nat
        BY <1>3 DEF Updated
      <4>3. h2[i] = http[i]
        BY <1>3, <3>4 DEF Updated
      <4> QED
        BY <4>1, <4>2, <4>3
    <3>6. LastIs(t2, m, w) /\ ValueIn(s2, m) = ValueIn(store, m)
      BY <1>2, <1>4, <1>6, <3>1, <3>2 DEF Updated
    <3> QED
      BY <3>2, <3>3, <3>5, <3>6
  <2> QED
    BY <2>2, <2>3, Zenon DEF AgreeOn
<1> QED
  BY <1>5, <1>6 DEF k, s2, h2, t2

(* Another header in the metadata does not matter. *)
LEMMA OtherHeader ==
    ASSUME NEW store, NEW http, NEW t \in Lowered, NEW k \in LowerNames, NEW v \in Strings,
           NEW m, m # k, AgreeOn(store, http, t, m)
    PROVE  AgreeOn(store, http, Append(t, <<k, v>>), m)
<1>1. /\ Keys(Append(t, <<k, v>>)) = Keys(t) \cup {k}
      /\ \A w : LastIs(Append(t, <<k, v>>), m, w) <=> LastIs(t, m, w)
  <2>1. t \in Seq(LowerNames \X Strings)
    BY DEF Lowered
  <2>2. Extended(Append(t, <<k, v>>), t, k, v)
    BY <2>1, LastOfAppend
  <2> QED
    BY <2>2, Zenon DEF Extended
<1> QED
  BY <1>1 DEF AgreeOn

(* A proxy made of the metadata agrees with them on every header. *)
LEMMA CopyAgrees ==
    ASSUME NEW t \in Lowered, NEW n
    PROVE  AgreeOn(DictOf(t), DictOf(t), t, n)
<1> DEFINE d == DictOf(t)
<1>1. t \in Seq(LowerNames \X Strings)
  BY DEF Lowered
<1>2. d \in Seq(LowerNames \X Strings) /\ Collects(d, t)
  BY <1>1, DictFacts
<1> HIDE DEF d
<1>3. ASSUME n \in Keys(t)
      PROVE  \E v \in Strings :
                /\ LastIs(t, n, v)
                /\ StrOf[ValueIn(d, n)] = v
                /\ \E k \in DOMAIN d : Lower[d[k][1]] = n /\ StrOf[d[k][2]] = v
  <2>1. PICK v \in Strings : LastIs(t, n, v)
    BY <1>1, <1>3, LastExists
  <2>2. ValueIn(d, n) = v /\ IsDict(d) /\ n \in Keys(d)
    BY <1>2, <1>3, <2>1 DEF Collects
  <2>3. PICK k \in DOMAIN d : d[k][1] = n
    BY <2>2 DEF Keys
  <2>4. d[k][2] = v
    BY <2>2, <2>3, DictValue
  <2>5. n \in LowerNames
    BY <1>2, <2>3
  <2>6. Lower[n] = n /\ StrOf[v] = v
    BY <2>5, NameFacts DEF LowerNames
  <2> QED
    BY <2>1, <2>2, <2>3, <2>4, <2>6
<1>4. Keys(d) = Keys(t)
  BY <1>2 DEF Collects
<1>5. AgreeOn(d, d, t, n)
  BY <1>3, <1>4, Zenon DEF AgreeOn
<1> QED
  BY <1>5 DEF d

(* __setstate__: a response taken from the cache. *)
LEMMA RestoredPending ==
    ASSUME NEW d \in Lowered, IsDict(d)
    PROVE  Pending(d, d)
<1>1. \A k \in DOMAIN d : d[k][1] \in LowerNames /\ Lower[d[k][1]] = d[k][1]
  <2>1. \A k \in DOMAIN d : d[k][1] \in LowerNames
    BY DEF Lowered
  <2> QED
    BY <2>1 DEF LowerNames
<1>2. ASSUME NEW n \in Keys(d) PROVE StoredAs(d, d, n)
  <2>1. PICK k \in DOMAIN d : d[k][1] = n
    BY DEF Keys
  <2>2. ValueIn(d, n) = d[k][2]
    BY <2>1, DictValue
  <2>3. ASSUME NEW j \in DOMAIN d, j > k PROVE Lower[d[j][1]] # n
    <3>1. j # k /\ Lower[d[j][1]] = d[j][1]
      <4>1. j \in Nat /\ k \in Nat
        BY DEF Lowered
      <4> QED
        BY <1>1, <2>3, <4>1
    <3> QED
      BY <2>1, <3>1 DEF IsDict
  <2> QED
    BY <1>1, <2>1, <2>2, <2>3 DEF StoredAs
<1>3. \A k \in DOMAIN d : Lower[d[k][1]] \in Keys(d)
  BY <1>1 DEF Keys
<1> QED
  BY <1>1, <1>2, <1>3 DEF Pending

(* Django adds the age to what it took from the cache. *)
LEMMA AgedPending ==
    ASSUME NEW http \in Headers, IsDict(http), NEW store \in Headers, IsDict(store),
           Pending(http, store), Age \notin Keys(http), NEW v \in Values
    PROVE  Pending(Put(http, Age, v), Put(store, Lower[Age], v))
<1> DEFINE k == Lower[Age]
           s2 == Put(store, k, v)
           h2 == Put(http, Age, v)
           m == Len(http) + 1
<1>1. k \in HeaderNames /\ v \in Values \cup Strings /\ Age \in HeaderNames
  BY NameFacts
<1> HIDE DEF k
<1>2. Updated(s2, store, k, v)
  BY <1>1, PutFacts DEF Headers
<1>3. h2 = Append(http, <<Age, v>>)
  BY DEF Put
<1>4. /\ DOMAIN http = 1 .. Len(http) /\ Len(http) \in Nat /\ Len(h2) = m
      /\ DOMAIN h2 = 1 .. m /\ h2[m] = <<Age, v>> /\ \A i \in DOMAIN http : h2[i] = http[i]
  BY <1>3 DEF Headers
<1> HIDE DEF s2, h2
<1>5. ASSUME NEW i \in DOMAIN h2
      PROVE  i = m \/ (i # m /\ i \in DOMAIN http /\ h2[i] = http[i])
  BY <1>4
<1>6. ASSUME NEW i \in DOMAIN http PROVE http[i][1] \in LowerNames
  <2>1. http[i][1] # Age
    BY DEF Keys
  <2> QED
    BY <2>1 DEF Pending
<1>7. ASSUME NEW i \in DOMAIN h2
      PROVE  h2[i][1] \in LowerNames \/ (i = Len(h2) /\ h2[i][1] = Age)
  <2>1. CASE i = m
    BY <1>4, <2>1
  <2>2. CASE i # m
    BY <1>5, <1>6, <2>2
  <2> QED
    BY <2>1, <2>2
<1>8. ASSUME NEW i \in DOMAIN h2 PROVE Lower[h2[i][1]] \in Keys(s2)
  <2>1. CASE i = m
    BY <1>2, <1>4, <2>1 DEF Updated, k
  <2>2. CASE i # m
    <3>1. Lower[http[i][1]] \in Keys(store)
      BY <1>5, <2>2 DEF Pending
    <3> QED
      BY <1>2, <1>5, <2>2, <3>1 DEF Updated
  <2> QED
    BY <2>1, <2>2
<1>9. ASSUME NEW n \in Keys(s2) PROVE StoredAs(h2, s2, n)
  <2>1. CASE n = k
    <3>1. m \in DOMAIN h2 /\ Lower[h2[m][1]] = n /\ h2[m][2] = v
      BY <1>4, <2>1 DEF k
    <3>2. ValueIn(s2, n) = v
      BY <1>2, <2>1 DEF Updated
    <3>3. \A j \in DOMAIN h2 : ~(j > m)
      BY <1>4
    <3> QED
      BY <3>1, <3>2, <3>3 DEF StoredAs
  <2>2. CASE n # k
    <3>1. n \in Keys(store) /\ ValueIn(s2, n) = ValueIn(store, n)
      BY <1>2, <2>2 DEF Updated
    <3>2. PICK i \in DOMAIN http :
              /\ Lower[http[i][1]] = n
              /\ StrOf[ValueIn(store, n)] = StrOf[http[i][2]]
              /\ \A j \in DOMAIN http : j > i => Lower[http[j][1]] # n
      BY <3>1 DEF Pending, StoredAs
    <3>3. i \in DOMAIN h2 /\ h2[i] = http[i]
      BY <1>4
    <3>4. ASSUME NEW j \in DOMAIN h2, j > i PROVE Lower[h2[j][1]] # n
      <4>1. CASE j = m
        BY <1>4, <2>2, <4>1 DEF k
      <4>2. CASE j # m
        BY <1>5, <3>2, <3>4, <4>2
      <4> QED
        BY <4>1, <4>2
    <3> QED
      BY <3>1, <3>2, <3>3, <3>4 DEF StoredAs
  <2> QED
    BY <2>1, <2>2
<1>10. Pending(h2, s2)
  BY <1>7, <1>8, <1>9 DEF Pending
<1> QED
  BY <1>10 DEF s2, h2, k

(* set_current_context writes what it merged in lower case and as text. *)
Written(merged) == [k \in DOMAIN merged |-> <<Lower[merged[k][1]], StrOf[merged[k][2]]>>]

LEMMA WrittenFacts ==
    ASSUME NEW d \in Headers, IsDict(d)
    PROVE  /\ Written(d) \in Lowered
           /\ \A n : n \in Keys(Written(d)) <=> \E x \in Keys(d) : Lower[x] = n
           /\ \A n \in Keys(d) : Lower[n] = n /\ (\A x \in Keys(d) : Lower[x] = n => x = n)
                 => LastIs(Written(d), n, StrOf[ValueIn(d, n)])
<1> DEFINE t == Written(d)
<1>1. DOMAIN d = 1 .. Len(d) /\ Len(d) \in Nat
  BY DEF Headers
<1>2. \A k \in DOMAIN d : d[k][1] \in HeaderNames /\ d[k][2] \in Values \cup Strings
  BY DEF Headers
<1>3. DOMAIN t = DOMAIN d /\ \A k \in DOMAIN d : t[k] = <<Lower[d[k][1]], StrOf[d[k][2]]>>
  BY DEF Written
<1>4. t \in Lowered
  <2>1. ASSUME NEW k \in 1 .. Len(d) PROVE t[k] \in LowerNames \X Strings
    <3>1. t[k] = <<Lower[d[k][1]], StrOf[d[k][2]]>>
      BY <1>1, <1>3
    <3>2. Lower[d[k][1]] \in LowerNames /\ StrOf[d[k][2]] \in Strings
      BY <1>1, <1>2, NameFacts
    <3> HIDE DEF t
    <3> QED
      BY <3>1, <3>2
  <2>2. t = [k \in 1 .. Len(d) |-> t[k]]
    BY <1>1 DEF Written
  <2> QED
    BY <1>1, <2>1, <2>2 DEF Lowered
<1> HIDE DEF t
<1>5. ASSUME NEW n PROVE n \in Keys(t) <=> \E x \in Keys(d) : Lower[x] = n
  <2>1. ASSUME n \in Keys(t) PROVE \E x \in Keys(d) : Lower[x] = n
    <3>1. PICK k \in DOMAIN t : t[k][1] = n
      BY <2>1 DEF Keys
    <3>2. d[k][1] \in Keys(d) /\ Lower[d[k][1]] = n
      BY <1>3, <3>1 DEF Keys
    <3> QED
      BY <3>2
  <2>2. ASSUME NEW x \in Keys(d), Lower[x] = n PROVE n \in Keys(t)
    <3>1. PICK k \in DOMAIN d : d[k][1] = x
      BY DEF Keys
    <3>2. k \in DOMAIN t /\ t[k][1] = n
      BY <1>3, <2>2, <3>1
    <3> QED
      BY <3>2 DEF Keys
  <2> QED
    BY <2>1, <2>2
<1>6. ASSUME NEW n \in Keys(d), Lower[n] = n, \A x \in Keys(d) : Lower[x] = n => x = n
      PROVE  LastIs(t, n, StrOf[ValueIn(d, n)])
  <2>1. PICK k \in DOMAIN d : d[k][1] = n
    BY DEF Keys
  <2>2. ValueIn(d, n) = d[k][2]
    BY <2>1, DictValue
  <2>3. k \in DOMAIN t /\ t[k] = <<n, StrOf[ValueIn(d, n)]>>
    BY <1>3, <1>6, <2>1, <2>2
  <2>4. ASSUME NEW j \in DOMAIN t, j > k PROVE t[j][1] # n
    <3>1. j \in DOMAIN d /\ j # k /\ t[j][1] = Lower[d[j][1]]
      BY <1>1, <1>3, <2>4
    <3>2. d[j][1] \in Keys(d) /\ d[j][1] # n
      BY <2>1, <3>1 DEF Keys, IsDict
    <3> QED
      BY <1>6, <3>1, <3>2
  <2> QED
    BY <2>3, <2>4 DEF LastIs
<1> QED
  BY <1>4, <1>5, <1>6 DEF t

(* What attaching a response with the headers http makes of the metadata t. *)
Attached(t, http) == Written(Merge(DictOf(t), http))

LEMMA AttachedFacts ==
    ASSUME NEW t \in Lowered, NEW http \in Headers
    PROVE  /\ DictOf(t) \in Lowered /\ Collects(DictOf(t), t)
           /\ Merge(DictOf(t), http) \in Headers
           /\ MergedUpTo(Merge(DictOf(t), http), DictOf(t), http, Len(http))
           /\ Combined(Merge(DictOf(t), http), DictOf(t), http)
           /\ Attached(t, http) \in Lowered
           /\ \A x \in Keys(t) : Lower[x] = x
<1>1. DictOf(t) \in Lowered /\ Collects(DictOf(t), t)
  <2>1. t \in Seq(LowerNames \X Strings)
    BY DEF Lowered
  <2>2. DictOf(t) \in Seq(LowerNames \X Strings) /\ Collects(DictOf(t), t)
    BY <2>1, DictFacts
  <2> QED
    BY <2>2 DEF Lowered
<1>2. DictOf(t) \in Seq(HeaderNames \X (Values \cup Strings)) /\ IsDict(DictOf(t))
  BY <1>1, LoweredAreHeaders DEF Headers, Collects
<1>3. http \in Seq(HeaderNames \X (Values \cup Strings))
  BY DEF Headers
<1>4. /\ Merge(DictOf(t), http) \in Seq(HeaderNames \X (Values \cup Strings))
      /\ MergedUpTo(Merge(DictOf(t), http), DictOf(t), http, Len(http))
  BY <1>2, <1>3, MergeFacts
<1>5. Combined(Merge(DictOf(t), http), DictOf(t), http)
  BY <1>3, <1>4, UpToAll
<1>6. Merge(DictOf(t), http) \in Headers /\ IsDict(Merge(DictOf(t), http))
  BY <1>4 DEF Headers, MergedUpTo
<1>7. Attached(t, http) \in Lowered
  BY <1>6, WrittenFacts DEF Attached
<1>8. \A x \in Keys(t) : Lower[x] = x
  BY DEF Keys, Lowered, LowerNames
<1> QED
  BY <1>1, <1>4, <1>5, <1>6, <1>7, <1>8

(* The other proxies agree as before on the headers that were not merged in. *)
LEMMA AttachOthers ==
    ASSUME NEW t \in Lowered, NEW http \in Headers, NEW store, NEW other,
           NEW n \in LowerNames, \A x \in Keys(http) : Lower[x] # n,
           AgreeOn(store, other, t, n)
    PROVE  AgreeOn(store, other, Attached(t, http), n)
<1> DEFINE d == DictOf(t)
           merged == Merge(d, http)
           t2 == Attached(t, http)
<1>1. /\ Collects(d, t) /\ merged \in Headers /\ Combined(merged, d, http)
      /\ \A x \in Keys(t) : Lower[x] = x
  BY AttachedFacts
<1>2. Lower[n] = n
  BY DEF LowerNames
<1>3. IsDict(merged) /\ Keys(merged) = Keys(t) \cup Keys(http) /\ t2 = Written(merged)
  BY <1>1 DEF Combined, Collects, Attached
<1> HIDE DEF d, merged, t2
<1>4. \A x \in Keys(merged) : Lower[x] = n => x \in Keys(t) /\ x = n
  BY <1>1, <1>3
<1>5. n \in Keys(t2) <=> n \in Keys(t)
  <2>1. n \in Keys(t2) <=> \E x \in Keys(merged) : Lower[x] = n
    BY <1>1, <1>3, WrittenFacts
  <2> QED
    BY <1>2, <1>3, <1>4, <2>1
<1>6. ASSUME n \in Keys(t), NEW v \in Strings, LastIs(t, n, v) PROVE LastIs(t2, n, v)
  <2>1. ValueIn(d, n) = v /\ n \in Keys(d)
    BY <1>1, <1>6 DEF Collects
  <2>2. n \notin Keys(http)
    BY <1>2
  <2>3. ValueIn(merged, n) = v /\ n \in Keys(merged)
    BY <1>1, <1>3, <1>6, <2>1, <2>2 DEF Combined
  <2>4. LastIs(Written(merged), n, StrOf[ValueIn(merged, n)])
    BY <1>1, <1>2, <1>3, <1>4, <2>3, WrittenFacts
  <2> QED
    BY <1>3, <2>3, <2>4, NameFacts
<1>7. AgreeOn(store, other, t2, n)
  BY <1>5, <1>6 DEF AgreeOn
<1> QED
  BY <1>7 DEF t2

(* The proxy itself agrees on what it brought, and on what nobody has; what    *)
(* only the metadata had it was not told of.                                   *)
LEMMA AttachOwn ==
    ASSUME NEW t \in Lowered, NEW http \in Headers, IsDict(http), NEW store,
           Pending(http, store), NEW n \in LowerNames,
           n \in Keys(DictOf(t)) => \E x \in Keys(http) : Lower[x] = n
    PROVE  AgreeOn(store, http, Attached(t, http), n)
<1> DEFINE d == DictOf(t)
           merged == Merge(d, http)
           t2 == Attached(t, http)
<1>1. /\ Collects(d, t) /\ merged \in Headers /\ Combined(merged, d, http)
      /\ MergedUpTo(merged, d, http, Len(http)) /\ \A x \in Keys(t) : Lower[x] = x
      /\ t2 \in Lowered
  BY AttachedFacts
<1>2. Lower[n] = n
  BY DEF LowerNames
<1>3. /\ IsDict(merged) /\ Keys(d) = Keys(t) /\ Keys(merged) = Keys(t) \cup Keys(http)
      /\ t2 = Written(merged)
  BY <1>1 DEF Combined, Collects, Attached
<1>4. n \in Keys(d) => \E x \in Keys(http) : Lower[x] = n
  OBVIOUS
<1> HIDE DEF d, merged, t2
<1>5. DOMAIN http = 1 .. Len(http) /\ Len(http) \in Nat
  BY DEF Headers
<1>6. n \in Keys(store) <=> \E x \in Keys(http) : Lower[x] = n
  <2>1. ASSUME n \in Keys(store) PROVE \E x \in Keys(http) : Lower[x] = n
    <3>1. PICK k \in DOMAIN http : Lower[http[k][1]] = n
      BY <2>1 DEF Pending, StoredAs
    <3>2. http[k][1] \in Keys(http)
      BY DEF Keys
    <3> QED
      BY <3>1, <3>2
  <2>2. ASSUME NEW x \in Keys(http), Lower[x] = n PROVE n \in Keys(store)
    <3>1. PICK k \in DOMAIN http : http[k][1] = x
      BY DEF Keys
    <3> QED
      BY <2>2, <3>1 DEF Pending
  <2> QED
    BY <2>1, <2>2
<1>7. n \in Keys(t2) <=> \E x \in Keys(http) : Lower[x] = n
  <2>1. n \in Keys(t2) <=> \E x \in Keys(merged) : Lower[x] = n
    BY <1>1, <1>3, WrittenFacts
  <2> QED
    BY <1>1, <1>3, <1>4, <2>1
<1>8. ASSUME n \in Keys(t2)
      PROVE  \E v \in Strings :
                /\ LastIs(t2, n, v)
                /\ StrOf[ValueIn(store, n)] = v
                /\ \E k \in DOMAIN http : Lower[http[k][1]] = n /\ StrOf[http[k][2]] = v
  <2>1. PICK k \in DOMAIN http :
            /\ Lower[http[k][1]] = n
            /\ StrOf[ValueIn(store, n)] = StrOf[http[k][2]]
            /\ \A j \in DOMAIN http : j > k => Lower[http[j][1]] # n
    <3>1. n \in Keys(store)
      BY <1>6, <1>7, <1>8
    <3> QED
      BY <3>1 DEF Pending, StoredAs
  <2>2. http[k][2] \in Values \cup Strings /\ http[k] = <<http[k][1], http[k][2]>>
    BY DEF Headers
  <2>3. StrOf[http[k][2]] \in Strings
    BY <2>2, NameFacts
  <2>4. CASE http[k][1] \in LowerNames
    <3>1. http[k][1] = n
      BY <2>1, <2>4 DEF LowerNames
    <3>2. ASSUME NEW x \in Keys(http), Lower[x] = n PROVE x = n
      <4>1. PICK j \in DOMAIN http : http[j][1] = x
        BY DEF Keys
      <4>2. CASE x \in LowerNames
        BY <3>2, <4>2 DEF LowerNames
      <4>3. CASE x \notin LowerNames
        <5>1. j = Len(http)
          BY <4>1, <4>3 DEF Pending
        <5>2. ~(j > k)
          BY <2>1, <3>2, <4>1
        <5>3. j = k
          BY <1>5, <5>1, <5>2
        <5> QED
          BY <3>1, <4>1, <5>3
      <4> QED
        BY <4>2, <4>3
    <3>3. \A x \in Keys(merged) : Lower[x] = n => x = n
      BY <1>1, <1>3, <3>2
    <3>4. LastIs(http, n, http[k][2])
      <4>1. \A j \in DOMAIN http : j > k => http[j][1] # n
        BY <1>2, <2>1
      <4> QED
        BY <2>2, <3>1, <4>1 DEF LastIs
    <3>5. ValueIn(merged, n) = http[k][2]
      BY <1>1, <3>4 DEF Combined
    <3>6. n \in Keys(merged)
      BY <1>3, <3>1 DEF Keys
    <3>7. LastIs(Written(merged), n, StrOf[ValueIn(merged, n)])
      BY <1>1, <1>2, <1>3, <3>3, <3>6, WrittenFacts
    <3> QED
      BY <1>3, <2>1, <2>3, <3>5, <3>7
  <2>5. CASE http[k][1] \notin LowerNames
    <3>1. k = Len(http) /\ http[k][1] = Age
      BY <2>5 DEF Pending
    <3>2. http[k][1] \notin Keys(d)
      <4>1. ASSUME http[k][1] \in Keys(t) PROVE http[k][1] \in LowerNames
        <5>1. Lower[http[k][1]] = http[k][1]
          BY <1>1, <4>1
        <5>2. http[k][1] \in HeaderNames
          BY <3>1, NameFacts
        <5> QED
          BY <5>1, <5>2 DEF LowerNames
      <4> QED
        BY <1>3, <2>5, <4>1
    <3>3. http[k][1] \notin FirstKeys(http, Len(http) - 1)
      <4>1. ASSUME NEW j \in 1 .. Len(http) - 1 PROVE http[j][1] # http[k][1]
        <5>1. j \in DOMAIN http /\ j # k
          <6>1. \A m \in Nat : \A i \in 1 .. m - 1 : i \in 1 .. m /\ i # m
            OBVIOUS
          <6>2. j \in 1 .. Len(http) /\ j # Len(http)
            BY <1>5, <6>1, Zenon
          <6> QED
            BY <1>5, <3>1, <6>2
        <5> QED
          BY <5>1 DEF IsDict
      <4> QED
        BY <4>1 DEF FirstKeys
    <3>4. Len(http) > 0
      BY <1>5, <3>1
    <3>5. merged[Len(merged)] = http[k] /\ Len(merged) > 0
      BY <1>1, <3>1, <3>2, <3>3, <3>4 DEF MergedUpTo
    <3>6. /\ DOMAIN t2 = 1 .. Len(merged) /\ Len(merged) \in Nat
          /\ t2[Len(merged)] = <<n, StrOf[http[k][2]]>>
      <4>1. DOMAIN merged = 1 .. Len(merged) /\ Len(merged) \in Nat
        BY <1>1 DEF Headers
      <4>2. Len(merged) \in DOMAIN merged
        BY <3>5, <4>1
      <4> QED
        BY <1>3, <2>1, <3>5, <4>1, <4>2 DEF Written
    <3>7. LastIs(t2, n, StrOf[http[k][2]])
      <4>1. Len(merged) \in DOMAIN t2 /\ \A j \in DOMAIN t2 : ~(j > Len(merged))
        BY <3>5, <3>6
      <4> QED
        BY <3>6, <4>1 DEF LastIs
    <3> QED
      BY <2>1, <2>3, <3>7
  <2> QED
    BY <2>4, <2>5
<1>9. AgreeOn(store, http, t2, n)
  BY <1>6, <1>7, <1>8, Zenon DEF AgreeOn
<1> QED
  BY <1>9 DEF t2

--------------------------------------------------------------------------------
(* Calls. *)

Proxy == [attached : BOOLEAN, http_response : Headers, store : Headers]

(* Proxy p, the i-th of a call with the metadata t; unseen is what the proxies *)
(* were not told of.                                                           *)
Fits(p, i, t, unseen) ==
    /\ IsDict(p.http_response) /\ IsDict(p.store)
    /\ p.attached => \A n \in ResponseKeys :
                        <<i, n>> \notin unseen => AgreeOn(p.store, p.http_response, t, n)
    /\ ~p.attached => Pending(p.http_response, p.store)

CallFits(ps, t, unseen) ==
    /\ t \in Lowered /\ ps \in Seq(Proxy)
    /\ \A i \in DOMAIN ps : Fits(ps[i], i, t, unseen)

(* The metadata and the proxies of a call fit each other until it fails, and   *)
(* what is kept of a response is in lower case.                                *)
HeadersInv ==
    /\ DOMAIN status = Calls
    /\ trailing = [c \in Calls |-> trailing[c]]
    /\ proxies = [c \in Calls |-> proxies[c]]
    /\ blind = [c \in Calls |-> blind[c]]
    /\ \A e \in cache : e.metadata \in Lowered /\ IsDict(e.metadata)
    /\ \A c \in Calls : status[c] # "failed" => CallFits(proxies[c], trailing[c], blind[c])

(* A header told to the context only. *)
LEMMA ContextFits ==
    ASSUME NEW ps, NEW t, NEW u, CallFits(ps, t, u), NEW k \in LowerNames, NEW v \in Strings
    PROVE  CallFits(ps, Append(t, <<k, v>>), u \cup ((DOMAIN ps \ {0}) \X {k}))
<1> DEFINE u2 == u \cup ((DOMAIN ps \ {0}) \X {k})
           t2 == Append(t, <<k, v>>)
<1>1. t \in Lowered /\ ps \in Seq(Proxy) /\ t2 \in Lowered /\ 0 \notin DOMAIN ps
  BY DEF CallFits, Lowered
<1>2. ASSUME NEW i \in DOMAIN ps PROVE Fits(ps[i], i, t2, u2)
  <2>1. Fits(ps[i], i, t, u)
    BY DEF CallFits
  <2>2. ASSUME ps[i].attached, NEW n \in ResponseKeys, <<i, n>> \notin u2
        PROVE  AgreeOn(ps[i].store, ps[i].http_response, t2, n)
    <3>1. n # k /\ <<i, n>> \notin u
      BY <1>1, <2>2
    <3>2. AgreeOn(ps[i].store, ps[i].http_response, t, n)
      BY <2>1, <2>2, <3>1 DEF Fits
    <3> QED
      BY <1>1, <3>1, <3>2, OtherHeader
  <2> HIDE DEF t2, u2
  <2> QED
    BY <2>1, <2>2 DEF Fits
<1> HIDE DEF t2, u2
<1>3. CallFits(ps, t2, u2)
  BY <1>1, <1>2 DEF CallFits
<1> QED
  BY <1>3 DEF t2, u2

(* Another proxy. *)
LEMMA OneMoreFits ==
    ASSUME NEW ps, NEW t, NEW u, CallFits(ps, t, u),
           NEW p \in Proxy, \A i : Fits(p, i, t, u)
    PROVE  CallFits(Append(ps, p), t, u)
<1> DEFINE qs == Append(ps, p)
<1>1. /\ qs \in Seq(Proxy) /\ t \in Lowered
      /\ \A i \in DOMAIN qs : qs[i] = p \/ (i \in DOMAIN ps /\ qs[i] = ps[i])
  BY DEF CallFits
<1> HIDE DEF qs
<1>2. ASSUME NEW i \in DOMAIN qs PROVE Fits(qs[i], i, t, u)
  <2>1. CASE qs[i] = p
    BY <2>1
  <2>2. CASE i \in DOMAIN ps /\ qs[i] = ps[i]
    BY <2>2 DEF CallFits
  <2> QED
    BY <1>1, <2>1, <2>2
<1>3. CallFits(qs, t, u)
  BY <1>1, <1>2 DEF CallFits
<1> QED
  BY <1>3 DEF qs

(* A response wrapped, with its context or, out of the cache, without.         *)
LEMMA WrapFits ==
    ASSUME NEW ps, NEW t, NEW u, CallFits(ps, t, u)
    PROVE  CallFits(Append(ps, [attached |-> TRUE, http_response |-> DictOf(t),
                                store |-> DictOf(t)]), t, u)
<1> DEFINE d == DictOf(t)
           p == [attached |-> TRUE, http_response |-> d, store |-> d]
<1>1. t \in Lowered
  BY DEF CallFits
<1>2. d \in Lowered /\ IsDict(d) /\ \A n : AgreeOn(d, d, t, n)
  <2>1. d \in Lowered /\ Collects(d, t) /\ \A n : AgreeOn(d, d, t, n)
    <3>1. <<>> \in Headers
      BY DEF Headers
    <3> QED
      BY <1>1, <3>1, AttachedFacts, CopyAgrees
  <2> QED
    BY <2>1 DEF Collects
<1> HIDE DEF d
<1>3. d \in Headers
  BY <1>2, LoweredAreHeaders
<1>4. /\ p \in Proxy /\ p.attached = TRUE /\ p.http_response = d /\ p.store = d
  BY <1>3 DEF Proxy
<1> HIDE DEF p
<1>5. \A i : Fits(p, i, t, u)
  BY <1>2, <1>4 DEF Fits
<1>6. CallFits(Append(ps, p), t, u)
  BY <1>4, <1>5, OneMoreFits
<1> QED
  BY <1>6 DEF p, d

LEMMA RestoreFits ==
    ASSUME NEW ps, NEW t, NEW u, CallFits(ps, t, u), NEW d \in Lowered, IsDict(d)
    PROVE  CallFits(Append(ps, [attached |-> FALSE, http_response |-> d, store |-> d]), t, u)
<1> DEFINE p == [attached |-> FALSE, http_response |-> d, store |-> d]
<1>1. d \in Headers /\ Pending(d, d)
  BY LoweredAreHeaders, RestoredPending
<1>2. /\ p \in Proxy /\ p.attached = FALSE /\ p.http_response = d /\ p.store = d
  BY <1>1 DEF Proxy
<1> HIDE DEF p
<1>3. \A i : Fits(p, i, t, u)
  BY <1>1, <1>2 DEF Fits
<1>4. CallFits(Append(ps, p), t, u)
  BY <1>2, <1>3, OneMoreFits
<1> QED
  BY <1>4 DEF p

(* Proxy i of ps has become p. *)
Become(qs, ps, i, p) == qs = [j \in DOMAIN ps |-> IF j = i THEN p ELSE ps[j]]

LEMMA BecomeFits ==
    ASSUME NEW ps, NEW t, NEW u, CallFits(ps, t, u), NEW i \in DOMAIN ps, NEW p \in Proxy,
           NEW t2 \in Lowered, NEW u2, Fits(p, i, t2, u2),
           \A j \in DOMAIN ps : j # i => Fits(ps[j], j, t2, u2),
           NEW qs, Become(qs, ps, i, p)
    PROVE  CallFits(qs, t2, u2)
<1>1. ps \in Seq(Proxy)
  BY DEF CallFits
<1>2. /\ DOMAIN qs = DOMAIN ps /\ qs[i] = p
      /\ \A j \in DOMAIN ps : j # i => qs[j] = ps[j]
  BY DEF Become
<1>3. qs \in Seq(Proxy)
  <2>1. \A j \in 1 .. Len(ps) : ps[j] \in Proxy
    BY <1>1
  <2>2. qs = [j \in 1 .. Len(ps) |-> IF j = i THEN p ELSE ps[j]] /\ Len(ps) \in Nat
    BY <1>1 DEF Become
  <2> QED
    BY <2>1, <2>2
<1>4. \A j \in DOMAIN qs : Fits(qs[j], j, t2, u2)
  BY <1>2
<1> QED
  BY <1>3, <1>4 DEF CallFits

LEMMA OneFits ==
    ASSUME NEW ps, NEW t, NEW u, CallFits(ps, t, u), NEW i \in DOMAIN ps
    PROVE  /\ t \in Lowered /\ ps[i] \in Proxy /\ Fits(ps[i], i, t, u)
           /\ ps[i].http_response \in Headers /\ ps[i].store \in Headers
<1>1. t \in Lowered /\ ps \in Seq(Proxy) /\ Fits(ps[i], i, t, u)
  BY DEF CallFits
<1>2. ps[i] \in Proxy
  BY <1>1
<1> QED
  BY <1>1, <1>2 DEF Proxy

(* __setitem__ on a proxy that has its context. *)
LEMMA SetFits ==
    ASSUME NEW ps, NEW t, NEW u, CallFits(ps, t, u), NEW i \in DOMAIN ps, ps[i].attached,
           NEW n \in HeaderNames, NEW v \in Values, NEW p,
           p = [attached |-> ps[i].attached, http_response |-> Put(ps[i].http_response, n, v),
                store |-> Put(ps[i].store, Lower[n], v)],
           NEW qs, Become(qs, ps, i, p)
    PROVE  CallFits(qs, Append(t, <<Lower[n], StrOf[v]>>),
                    (u \ {<<i, Lower[n]>>}) \cup ((DOMAIN ps \ {i}) \X {Lower[n]}))
<1> DEFINE k == Lower[n]
           t2 == Append(t, <<k, StrOf[v]>>)
           u2 == (u \ {<<i, k>>}) \cup ((DOMAIN ps \ {i}) \X {k})
<1>1. k \in LowerNames /\ StrOf[v] \in Strings /\ v \in Values \cup Strings
  BY NameFacts
<1>2. /\ t \in Lowered /\ ps[i] \in Proxy /\ Fits(ps[i], i, t, u)
      /\ ps[i].http_response \in Headers /\ ps[i].store \in Headers
  BY OneFits
<1>3. t2 \in Lowered
  BY <1>1, <1>2 DEF Lowered
<1>4. /\ p.attached = TRUE /\ p.http_response = Put(ps[i].http_response, n, v)
      /\ p.store = Put(ps[i].store, k, v)
  BY <1>2 DEF Proxy
<1>5. IsDict(ps[i].http_response) /\ IsDict(ps[i].store)
  BY <1>2 DEF Fits
<1>6. /\ p.http_response \in Headers /\ IsDict(p.http_response)
      /\ p.store \in Headers /\ IsDict(p.store)
  <2>1. /\ Put(ps[i].http_response, n, v) \in Headers
        /\ Updated(Put(ps[i].http_response, n, v), ps[i].http_response, n, v)
    BY <1>1, <1>2, <1>5, PutFacts DEF Headers
  <2>2. /\ Put(ps[i].store, k, v) \in Headers
        /\ Updated(Put(ps[i].store, k, v), ps[i].store, k, v)
    <3>1. k \in HeaderNames
      BY <1>1, NameFacts
    <3> HIDE DEF k
    <3> QED
      BY <1>1, <1>2, <1>5, <3>1, PutFacts DEF Headers
  <2> QED
    BY <1>4, <2>1, <2>2 DEF Updated
<1>7. p \in Proxy
  BY <1>4, <1>6 DEF Proxy
<1>8. ASSUME NEW m \in ResponseKeys, <<i, m>> \notin u2
      PROVE  AgreeOn(p.store, p.http_response, t2, m)
  <2>1. m = Lower[n] \/ AgreeOn(ps[i].store, ps[i].http_response, t, m)
    BY <1>2, <1>8 DEF Fits
  <2> QED
    BY <1>2, <1>4, <1>5, <2>1, SetAgrees
<1>9. Fits(p, i, t2, u2)
  <2> HIDE DEF t2, u2
  <2> QED
    BY <1>4, <1>6, <1>8 DEF Fits
<1>10. ASSUME NEW j \in DOMAIN ps, j # i PROVE Fits(ps[j], j, t2, u2)
  <2>1. Fits(ps[j], j, t, u)
    BY DEF CallFits
  <2>2. ASSUME ps[j].attached, NEW m \in ResponseKeys, <<j, m>> \notin u2
        PROVE  AgreeOn(ps[j].store, ps[j].http_response, t2, m)
    <3>1. m # k /\ <<j, m>> \notin u
      BY <1>10, <2>2
    <3>2. AgreeOn(ps[j].store, ps[j].http_response, t, m)
      BY <2>1, <2>2, <3>1 DEF Fits
    <3> HIDE DEF k
    <3> QED
      BY <1>1, <1>2, <3>1, <3>2, OtherHeader
  <2> HIDE DEF t2, u2
  <2> QED
    BY <2>1, <2>2 DEF Fits
<1> HIDE DEF t2, u2, k
<1>11. CallFits(qs, t2, u2)
  BY <1>3, <1>7, <1>9, <1>10, BecomeFits
<1> QED
  BY <1>11 DEF t2, u2, k

(* The age, on a proxy that waits for its context. *)
LEMMA AgeFits ==
    ASSUME NEW ps, NEW t, NEW u, CallFits(ps, t, u), NEW i \in DOMAIN ps, ~ps[i].attached,
           Age \notin Keys(ps[i].http_response), NEW v \in Values, NEW p,
           p = [attached |-> ps[i].attached, http_response |-> Put(ps[i].http_response, Age, v),
                store |-> Put(ps[i].store, Lower[Age], v)],
           NEW qs, Become(qs, ps, i, p)
    PROVE  CallFits(qs, t, u \ {<<i, Lower[Age]>>})
<1> DEFINE k == Lower[Age]
           u2 == u \ {<<i, k>>}
<1>1. k \in HeaderNames /\ Age \in HeaderNames /\ v \in Values \cup Strings
  BY NameFacts
<1>2. /\ t \in Lowered /\ ps[i] \in Proxy /\ Fits(ps[i], i, t, u)
      /\ ps[i].http_response \in Headers /\ ps[i].store \in Headers
  BY OneFits
<1>3. /\ p.attached = FALSE /\ p.http_response = Put(ps[i].http_response, Age, v)
      /\ p.store = Put(ps[i].store, k, v)
  BY <1>2 DEF Proxy
<1>4. /\ IsDict(ps[i].http_response) /\ IsDict(ps[i].store)
      /\ Pending(ps[i].http_response, ps[i].store)
  BY <1>2 DEF Fits
<1>5. Pending(p.http_response, p.store)
  BY <1>2, <1>3, <1>4, AgedPending
<1> HIDE DEF k
<1>6. /\ p.http_response \in Headers /\ IsDict(p.http_response)
      /\ p.store \in Headers /\ IsDict(p.store)
  <2>1. /\ Put(ps[i].http_response, Age, v) \in Headers
        /\ Updated(Put(ps[i].http_response, Age, v), ps[i].http_response, Age, v)
    BY <1>1, <1>2, <1>4, PutFacts DEF Headers
  <2>2. /\ Put(ps[i].store, k, v) \in Headers
        /\ Updated(Put(ps[i].store, k, v), ps[i].store, k, v)
    BY <1>1, <1>2, <1>4, PutFacts DEF Headers
  <2> QED
    BY <1>3, <2>1, <2>2 DEF Updated
<1>7. p \in Proxy
  BY <1>3, <1>6 DEF Proxy
<1>8. Fits(p, i, t, u2)
  BY <1>3, <1>5, <1>6 DEF Fits
<1>9. ASSUME NEW j \in DOMAIN ps, j # i PROVE Fits(ps[j], j, t, u2)
  <2>1. Fits(ps[j], j, t, u)
    BY DEF CallFits
  <2>2. \A m : <<j, m>> \notin u2 => <<j, m>> \notin u
    BY <1>9
  <2> HIDE DEF u2
  <2> QED
    BY <2>1, <2>2 DEF Fits
<1> HIDE DEF u2
<1>10. CallFits(qs, t, u2)
  BY <1>2, <1>7, <1>8, <1>9, BecomeFits
<1> QED
  BY <1>10 DEF u2, k

(* set_current_context. *)
LEMMA AttachFits ==
    ASSUME NEW ps, NEW t, NEW u, CallFits(ps, t, u), NEW i \in DOMAIN ps, ~ps[i].attached,
           NEW http, http = ps[i].http_response,
           NEW known, known = {Lower[n] : n \in Keys(http)}, NEW p,
           p = [attached |-> TRUE, http_response |-> http, store |-> ps[i].store],
           NEW qs, Become(qs, ps, i, p)
    PROVE  CallFits(qs, Attached(t, http),
                    u \cup (({i} \X (Keys(DictOf(t)) \ known)) \cup
                            ((DOMAIN ps \ {i}) \X known)))
<1> DEFINE new == Keys(DictOf(t)) \ known
           t2 == Attached(t, http)
           u2 == u \cup (({i} \X new) \cup ((DOMAIN ps \ {i}) \X known))
<1>1. /\ t \in Lowered /\ ps[i] \in Proxy /\ Fits(ps[i], i, t, u)
      /\ http \in Headers /\ ps[i].store \in Headers
  BY OneFits
<1>2. t2 \in Lowered
  BY <1>1, AttachedFacts
<1>3. p.attached = TRUE /\ p.http_response = http /\ p.store = ps[i].store /\ p \in Proxy
  BY <1>1 DEF Proxy
<1>4. IsDict(http) /\ IsDict(ps[i].store) /\ Pending(http, ps[i].store)
  BY <1>1 DEF Fits
<1>5. ResponseKeys \subseteq LowerNames
  BY NameFacts
<1> HIDE DEF t2
<1>6. ASSUME NEW n \in ResponseKeys, <<i, n>> \notin u2
      PROVE  AgreeOn(p.store, p.http_response, t2, n)
  <2>1. n \in Keys(DictOf(t)) => \E x \in Keys(http) : Lower[x] = n
    BY <1>6
  <2> QED
    BY <1>1, <1>3, <1>4, <1>5, <2>1, AttachOwn DEF t2
<1>7. ASSUME NEW j \in DOMAIN ps, j # i PROVE Fits(ps[j], j, t2, u2)
  <2>1. Fits(ps[j], j, t, u)
    BY DEF CallFits
  <2>2. ASSUME ps[j].attached, NEW n \in ResponseKeys, <<j, n>> \notin u2
        PROVE  AgreeOn(ps[j].store, ps[j].http_response, t2, n)
    <3>1. n \notin known /\ <<j, n>> \notin u
      BY <1>7, <2>2
    <3>2. \A x \in Keys(http) : Lower[x] # n
      BY <3>1
    <3>3. AgreeOn(ps[j].store, ps[j].http_response, t, n)
      BY <2>1, <2>2, <3>1 DEF Fits
    <3> QED
      BY <1>1, <1>5, <3>2, <3>3, AttachOthers DEF t2
  <2> HIDE DEF u2
  <2> QED
    BY <2>1, <2>2 DEF Fits
<1> HIDE DEF u2
<1>8. Fits(p, i, t2, u2)
  BY <1>3, <1>4, <1>6 DEF Fits
<1>9. CallFits(qs, t2, u2)
  BY <1>2, <1>3, <1>7, <1>8, BecomeFits
<1> QED
  BY <1>9 DEF t2, u2

LEMMA InitHeaders == Init => HeadersInv
<1> SUFFICES ASSUME Init PROVE HeadersInv
  OBVIOUS
<1>1. CallFits(<<>>, <<>>, {})
  <2>1. <<>> \in Lowered /\ <<>> \in Seq(Proxy) /\ DOMAIN <<>> = {}
    BY DEF Lowered
  <2> QED
    BY <2>1 DEF CallFits
<1>2. \A c \in Calls : proxies[c] = <<>> /\ trailing[c] = <<>> /\ blind[c] = {}
  BY DEF Init
<1> QED
  BY <1>1, <1>2 DEF Init, HeadersInv

(* One call changes: what it leaves must fit. *)
LEMMA CallChanges ==
    ASSUME HeadersInv, NEW c \in Calls, NEW ps, NEW t, NEW u,
           proxies' = [proxies EXCEPT ![c] = ps], trailing' = [trailing EXCEPT ![c] = t],
           blind' = [blind EXCEPT ![c] = u],
           status' = status, cache' = cache,
           status[c] # "failed" => CallFits(ps, t, u)
    PROVE  HeadersInv'
<1>1. ASSUME NEW d \in Calls, status[d] # "failed"
      PROVE  CallFits(proxies'[d], trailing'[d], blind'[d])
  <2>1. CASE d = c
    <3>1. proxies'[d] = ps /\ trailing'[d] = t /\ blind'[d] = u
      BY <2>1 DEF HeadersInv
    <3> QED
      BY <1>1, <2>1, <3>1
  <2>2. CASE d # c
    <3>1. proxies'[d] = proxies[d] /\ trailing'[d] = trailing[d] /\ blind'[d] = blind[d]
      BY <2>2 DEF HeadersInv
    <3> QED
      BY <1>1, <3>1 DEF HeadersInv
  <2> QED
    BY <2>1, <2>2
<1>2. /\ DOMAIN status' = Calls
      /\ trailing' = [d \in Calls |-> trailing'[d]]
      /\ proxies' = [d \in Calls |-> proxies'[d]]
      /\ blind' = [d \in Calls |-> blind'[d]]
  BY DEF HeadersInv
<1>3. \A e \in cache' : e.metadata \in Lowered /\ IsDict(e.metadata)
  BY DEF HeadersInv
<1> QED
  BY <1>1, <1>2, <1>3 DEF HeadersInv

(* What is as it was. *)
LEMMA SameCall ==
    ASSUME HeadersInv, NEW c \in Calls
    PROVE  /\ trailing = [trailing EXCEPT ![c] = trailing[c]]
           /\ proxies = [proxies EXCEPT ![c] = proxies[c]]
           /\ blind = [blind EXCEPT ![c] = blind[c]]
BY DEF HeadersInv

LEMMA MoveHeaders ==
    ASSUME HeadersInv, NEW c \in Calls, MakeRequest(c) \/ Finish(c) PROVE HeadersInv'
<1>1. proxies' = proxies /\ trailing' = trailing /\ blind' = blind /\ cache' = cache
  BY DEF MakeRequest, Finish
<1>2. status[c] # "failed" /\ \E x : status' = [status EXCEPT ![c] = x]
  <2>1. CASE MakeRequest(c)
    BY <2>1 DEF MakeRequest
  <2>2. CASE Finish(c)
    BY <2>2 DEF Finish, Handling
  <2> QED
    BY <2>1, <2>2
<1>3. DOMAIN status' = Calls /\ \A d \in Calls : status'[d] # "failed" => status[d] # "failed"
  BY <1>2 DEF HeadersInv
<1> QED
  BY <1>1, <1>3 DEF HeadersInv

LEMMA WrapHeaders == ASSUME HeadersInv, NEW c \in Calls, Wrap(c) PROVE HeadersInv'
<1> DEFINE p == [attached |-> TRUE, http_response |-> DictOf(trailing[c]),
                 store |-> DictOf(trailing[c])]
<1>1. CallFits(proxies[c], trailing[c], blind[c])
  BY DEF Wrap, Handling, HeadersInv
<1>2. CallFits(Append(proxies[c], p), trailing[c], blind[c])
  BY <1>1, WrapFits
<1>3. /\ proxies' = [proxies EXCEPT ![c] = Append(proxies[c], p)]
      /\ status' = status /\ cache' = cache
  BY DEF Wrap, Received
<1> HIDE DEF p
<1>4. trailing' = [trailing EXCEPT ![c] = trailing[c]] /\ blind' = [blind EXCEPT ![c] = blind[c]]
  BY SameCall DEF Wrap
<1> QED
  BY <1>2, <1>3, <1>4, CallChanges

LEMMA RestoreHeaders ==
    ASSUME HeadersInv, NEW c \in Calls, NEW entry \in cache, Restore(c, entry) PROVE HeadersInv'
<1> DEFINE p == [attached |-> FALSE, http_response |-> entry.metadata,
                 store |-> entry.metadata]
<1>1. /\ CallFits(proxies[c], trailing[c], blind[c])
      /\ entry.metadata \in Lowered /\ IsDict(entry.metadata)
  BY DEF Restore, Handling, HeadersInv
<1>2. CallFits(Append(proxies[c], p), trailing[c], blind[c])
  BY <1>1, RestoreFits
<1>3. /\ proxies' = [proxies EXCEPT ![c] = Append(proxies[c], p)]
      /\ status' = status /\ cache' = cache
  BY DEF Restore
<1> HIDE DEF p
<1>4. trailing' = [trailing EXCEPT ![c] = trailing[c]] /\ blind' = [blind EXCEPT ![c] = blind[c]]
  BY SameCall DEF Restore
<1> QED
  BY <1>2, <1>3, <1>4, CallChanges

LEMMA StoreHeaders == ASSUME HeadersInv, NEW c \in Calls, Store(c) PROVE HeadersInv'
<1>1. /\ proxies' = proxies /\ trailing' = trailing /\ blind' = blind /\ status' = status
      /\ cache' = {e \in cache : e.key # CacheKey(c)} \cup
                  {[key |-> CacheKey(c), by |-> c, metadata |-> Received(c)]}
  BY DEF Store
<1>2. Received(c) \in Lowered /\ IsDict(Received(c))
  <2>1. trailing[c] \in Lowered
    BY DEF Store, Handling, HeadersInv, CallFits
  <2>2. <<>> \in Headers
    BY DEF Headers
  <2>3. DictOf(trailing[c]) \in Lowered /\ Collects(DictOf(trailing[c]), trailing[c])
    BY <2>1, <2>2, AttachedFacts
  <2> QED
    BY <2>3 DEF Received, Collects
<1>3. \A e \in cache' : e.metadata \in Lowered /\ IsDict(e.metadata)
  <2>1. ASSUME NEW e \in cache' PROVE e \in cache \/ e.metadata = Received(c)
    BY <1>1
  <2> QED
    BY <1>2, <2>1 DEF HeadersInv
<1> QED
  BY <1>1, <1>3 DEF HeadersInv

LEMMA ContextHeaders ==
    ASSUME HeadersInv, NEW c \in Calls, NEW n \in ResponseNames, NEW v \in Values,
           ContextSet(c, n, v)
    PROVE  HeadersInv'
<1> DEFINE t == Append(trailing[c], <<Lower[n], StrOf[v]>>)
           u == blind[c] \cup ((DOMAIN proxies[c] \ {0}) \X {Lower[n]})
<1>1. CallFits(proxies[c], trailing[c], blind[c])
  BY DEF ContextSet, Handling, HeadersInv
<1>2. Lower[n] \in LowerNames /\ StrOf[v] \in Strings
  BY NameFacts
<1>3. CallFits(proxies[c], t, u)
  BY <1>1, <1>2, ContextFits
<1>4. /\ trailing' = [trailing EXCEPT ![c] = t] /\ blind' = [blind EXCEPT ![c] = u]
      /\ status' = status /\ cache' = cache
  BY DEF ContextSet, Others
<1> HIDE DEF t, u
<1>5. proxies' = [proxies EXCEPT ![c] = proxies[c]]
  BY SameCall DEF ContextSet
<1> QED
  BY <1>3, <1>4, <1>5, CallChanges

LEMMA ProxyUpdates ==
    ASSUME NEW r \in Proxy, NEW h, NEW s
    PROVE  /\ [r EXCEPT !.attached = TRUE]
                = [attached |-> TRUE, http_response |-> r.http_response, store |-> r.store]
           /\ [[r EXCEPT !.http_response = h] EXCEPT !.store = s]
                = [attached |-> r.attached, http_response |-> h, store |-> s]
<1>1. r = [attached |-> r.attached, http_response |-> r.http_response, store |-> r.store]
  BY DEF Proxy
<1>2. PICK a, b, d : a = r.attached /\ b = r.http_response /\ d = r.store
  OBVIOUS
<1>3. r = [attached |-> a, http_response |-> b, store |-> d]
  BY <1>1, <1>2, Zenon
<1>4. [r EXCEPT !.attached = TRUE] = [attached |-> TRUE, http_response |-> b, store |-> d]
  <2>1. PICK z : z = TRUE
    OBVIOUS
  <2>2. [[attached |-> a, http_response |-> b, store |-> d] EXCEPT !.attached = z]
           = [attached |-> z, http_response |-> b, store |-> d]
    OBVIOUS
  <2>3. [r EXCEPT !.attached = z]
           = [[attached |-> a, http_response |-> b, store |-> d] EXCEPT !.attached = z]
    BY <1>3, Zenon
  <2> QED
    BY <2>1, <2>2, <2>3, Zenon
<1>5. [r EXCEPT !.http_response = h] = [attached |-> a, http_response |-> h, store |-> d]
  <2>1. [[attached |-> a, http_response |-> b, store |-> d] EXCEPT !.http_response = h]
           = [attached |-> a, http_response |-> h, store |-> d]
    OBVIOUS
  <2>2. [r EXCEPT !.http_response = h]
           = [[attached |-> a, http_response |-> b, store |-> d] EXCEPT !.http_response = h]
    BY <1>3, Zenon
  <2> QED
    BY <2>1, <2>2, Zenon
<1>6. [[attached |-> a, http_response |-> h, store |-> d] EXCEPT !.store = s]
         = [attached |-> a, http_response |-> h, store |-> s]
  OBVIOUS
<1>7. [[r EXCEPT !.http_response = h] EXCEPT !.store = s]
         = [attached |-> a, http_response |-> h, store |-> s]
  BY <1>5, <1>6, Zenon
<1> QED
  BY <1>2, <1>4, <1>7, Zenon

(* What __setitem__ makes of the proxies. *)
LEMMA SetitemBecomes ==
    ASSUME HeadersInv, NEW c \in Calls, CallFits(proxies[c], trailing[c], blind[c]),
           NEW i \in DOMAIN proxies[c], NEW n, NEW v, Setitem(c, i, n, v), NEW p,
           p = [attached |-> proxies[c][i].attached,
                http_response |-> Put(proxies[c][i].http_response, n, v),
                store |-> Put(proxies[c][i].store, Lower[n], v)]
    PROVE  /\ proxies' = [proxies EXCEPT ![c] = proxies'[c]]
           /\ Become(proxies'[c], proxies[c], i, p)
<1>1. proxies[c][i] \in Proxy /\ proxies[c] \in Seq(Proxy) /\ proxies = [d \in Calls |-> proxies[d]]
  BY OneFits DEF CallFits, HeadersInv
<1> DEFINE h2 == Put(proxies[c][i].http_response, n, v)
           s2 == Put(proxies[c][i].store, Lower[n], v)
<1>2. proxies' = [proxies EXCEPT ![c][i].http_response = h2, ![c][i].store = s2]
  BY DEF Setitem
<1>3. p = [attached |-> proxies[c][i].attached, http_response |-> h2, store |-> s2]
  OBVIOUS
<1> HIDE DEF h2, s2
<1>4. proxies' = [proxies EXCEPT ![c] = proxies'[c]]
  BY <1>1, <1>2
<1>5. proxies'[c] = [[proxies[c] EXCEPT ![i].http_response = h2] EXCEPT ![i].store = s2]
  BY <1>1, <1>2
<1>6. [[proxies[c][i] EXCEPT !.http_response = h2] EXCEPT !.store = s2] = p
  <2>1. PICK r : r = proxies[c][i]
    OBVIOUS
  <2>2. r \in Proxy
    BY <1>1, <2>1
  <2>3. [[r EXCEPT !.http_response = h2] EXCEPT !.store = s2]
           = [attached |-> r.attached, http_response |-> h2, store |-> s2]
    BY <2>2, ProxyUpdates
  <2> QED
    BY <1>3, <2>1, <2>3
<1>7. proxies'[c] = [proxies[c] EXCEPT ![i] = p]
  BY <1>1, <1>5, <1>6
<1>8. proxies'[c] = [j \in DOMAIN proxies[c] |-> IF j = i THEN p ELSE proxies[c][j]]
  BY <1>1, <1>7
<1> QED
  BY <1>4, <1>8 DEF Become

LEMMA SetitemHeaders ==
    ASSUME HeadersInv, NEW c \in Calls, Handling(c), NEW i \in DOMAIN proxies[c],
           NEW n \in HeaderNames, NEW v \in Values, Setitem(c, i, n, v),
           proxies[c][i].attached \/ (n = Age /\ Age \notin Keys(proxies[c][i].http_response))
    PROVE  HeadersInv'
<1> DEFINE p == [attached |-> proxies[c][i].attached,
                 http_response |-> Put(proxies[c][i].http_response, n, v),
                 store |-> Put(proxies[c][i].store, Lower[n], v)]
           t == Append(trailing[c], <<Lower[n], StrOf[v]>>)
           u == (blind[c] \ {<<i, Lower[n]>>}) \cup ((DOMAIN proxies[c] \ {i}) \X {Lower[n]})
           w == blind[c] \ {<<i, Lower[n]>>}
<1>1. CallFits(proxies[c], trailing[c], blind[c])
  BY DEF Handling, HeadersInv
<1>2. /\ proxies' = [proxies EXCEPT ![c] = proxies'[c]]
      /\ Become(proxies'[c], proxies[c], i, p)
  BY <1>1, SetitemBecomes
<1>3. status' = status /\ cache' = cache
  BY DEF Setitem
<1>4. CASE proxies[c][i].attached
  <2>1. CallFits(proxies'[c], t, u)
    <3>1. PICK q : q = p
      OBVIOUS
    <3>2. Become(proxies'[c], proxies[c], i, q)
      BY <1>2, <3>1
    <3>3. PICK qs, ps : qs = proxies'[c] /\ ps = proxies[c]
      OBVIOUS
    <3>4. Become(qs, ps, i, q) /\ CallFits(ps, trailing[c], blind[c]) /\ i \in DOMAIN ps
      BY <1>1, <3>2, <3>3
    <3>5. /\ ps[i].attached
          /\ q = [attached |-> ps[i].attached,
                  http_response |-> Put(ps[i].http_response, n, v),
                  store |-> Put(ps[i].store, Lower[n], v)]
      BY <1>4, <3>1, <3>3
    <3>6. CallFits(qs, Append(trailing[c], <<Lower[n], StrOf[v]>>),
                   (blind[c] \ {<<i, Lower[n]>>}) \cup ((DOMAIN ps \ {i}) \X {Lower[n]}))
      BY <3>4, <3>5, SetFits, Zenon
    <3> QED
      BY <3>3, <3>6
  <2>2. trailing' = [trailing EXCEPT ![c] = t] /\ blind' = [blind EXCEPT ![c] = u]
    BY <1>4 DEF Setitem, Others
  <2> HIDE DEF t, u
  <2> QED
    BY <1>2, <1>3, <2>1, <2>2, CallChanges
<1>5. CASE ~proxies[c][i].attached
  <2>1. CallFits(proxies'[c], trailing[c], w)
    BY <1>1, <1>2, <1>5, AgeFits
  <2>2. trailing' = [trailing EXCEPT ![c] = trailing[c]]
    BY <1>5, SameCall DEF Setitem
  <2>3. blind' = [blind EXCEPT ![c] = w]
    <3>1. blind' = [blind EXCEPT ![c] = w \cup {}]
      BY <1>5 DEF Setitem
    <3>2. w \cup {} = w
      OBVIOUS
    <3> HIDE DEF w
    <3> QED
      BY <3>1, <3>2
  <2> HIDE DEF w
  <2> QED
    BY <1>2, <1>3, <2>1, <2>2, <2>3, CallChanges
<1> QED
  BY <1>4, <1>5

LEMMA DeleteHeaders ==
    ASSUME HeadersInv, NEW c \in Calls, NEW i \in DOMAIN proxies[c], NEW n, Delete(c, i, n)
    PROVE  HeadersInv'
<1>1. /\ \E x : trailing' = [trailing EXCEPT ![c] = x]
      /\ status' = [status EXCEPT ![c] = "failed"] /\ cache' = cache /\ blind' = blind
  BY DEF Delete
<1>2. \E x : proxies' = [proxies EXCEPT ![c] = x]
  <2> DEFINE h == Without(proxies[c][i].http_response, n)
  <2>1. proxies' = [proxies EXCEPT ![c][i].http_response = h]
    BY DEF Delete
  <2> HIDE DEF h
  <2>2. proxies' = [proxies EXCEPT ![c] = [proxies[c] EXCEPT ![i].http_response = h]]
    BY <2>1 DEF HeadersInv
  <2> QED
    BY <2>2
<1>3. ASSUME NEW d \in Calls, status'[d] # "failed"
      PROVE  CallFits(proxies'[d], trailing'[d], blind'[d])
  <2>1. d # c
    BY <1>1, <1>3 DEF HeadersInv
  <2>2. /\ proxies'[d] = proxies[d] /\ trailing'[d] = trailing[d] /\ blind'[d] = blind[d]
        /\ status'[d] = status[d]
    BY <1>1, <1>2, <2>1 DEF HeadersInv
  <2> QED
    BY <1>3, <2>2 DEF HeadersInv
<1>4. /\ DOMAIN status' = Calls
      /\ trailing' = [d \in Calls |-> trailing'[d]]
      /\ proxies' = [d \in Calls |-> proxies'[d]]
      /\ blind' = [d \in Calls |-> blind'[d]]
  BY <1>1, <1>2 DEF HeadersInv
<1>5. \A e \in cache' : e.metadata \in Lowered /\ IsDict(e.metadata)
  BY <1>1 DEF HeadersInv
<1> QED
  BY <1>3, <1>4, <1>5 DEF HeadersInv

(* What attaching makes of the proxies. *)
LEMMA AttachBecomes ==
    ASSUME HeadersInv, NEW c \in Calls, CallFits(proxies[c], trailing[c], blind[c]),
           NEW i \in DOMAIN proxies[c], Attach(c, i), NEW p,
           p = [attached |-> TRUE, http_response |-> proxies[c][i].http_response,
                store |-> proxies[c][i].store]
    PROVE  /\ proxies' = [proxies EXCEPT ![c] = proxies'[c]]
           /\ Become(proxies'[c], proxies[c], i, p)
<1>1. proxies[c][i] \in Proxy /\ proxies[c] \in Seq(Proxy) /\ proxies = [d \in Calls |-> proxies[d]]
  BY OneFits DEF CallFits, HeadersInv
<1>2. proxies' = [proxies EXCEPT ![c][i].attached = TRUE]
  BY DEF Attach
<1>3. proxies' = [proxies EXCEPT ![c] = proxies'[c]]
  BY <1>1, <1>2
<1>4. proxies'[c] = [proxies[c] EXCEPT ![i].attached = TRUE]
  BY <1>1, <1>2
<1>5. [proxies[c][i] EXCEPT !.attached = TRUE] = p
  BY <1>1, ProxyUpdates
<1>6. proxies'[c] = [j \in DOMAIN proxies[c] |-> IF j = i THEN p ELSE proxies[c][j]]
  BY <1>1, <1>4, <1>5
<1> QED
  BY <1>3, <1>6 DEF Become

LEMMA AttachHeaders ==
    ASSUME HeadersInv, NEW c \in Calls, NEW i \in DOMAIN proxies[c], Attach(c, i)
    PROVE  HeadersInv'
<1> DEFINE http == proxies[c][i].http_response
           known == {Lower[n] : n \in Keys(http)}
           p == [attached |-> TRUE, http_response |-> http, store |-> proxies[c][i].store]
           t == Attached(trailing[c], http)
           u == blind[c] \cup (({i} \X (Keys(DictOf(trailing[c])) \ known)) \cup
                               ((DOMAIN proxies[c] \ {i}) \X known))
<1>1. CallFits(proxies[c], trailing[c], blind[c]) /\ ~proxies[c][i].attached
  BY DEF Attach, Handling, HeadersInv
<1>3. /\ proxies' = [proxies EXCEPT ![c] = proxies'[c]]
      /\ Become(proxies'[c], proxies[c], i, p)
  BY <1>1, AttachBecomes
<1>4. CallFits(proxies'[c], t, u)
  BY <1>1, <1>3, AttachFits
<1>5. /\ trailing' = [trailing EXCEPT ![c] = t] /\ blind' = [blind EXCEPT ![c] = u]
      /\ status' = status /\ cache' = cache
  BY Zenon DEF Attach, Attached, Written, Merged, Received, Others
<1> HIDE DEF t, u, p
<1> QED
  BY <1>3, <1>4, <1>5, CallChanges

LEMMA StepHeaders == HeadersInv /\ [Next]_vars => HeadersInv'
<1> SUFFICES ASSUME HeadersInv, [Next]_vars PROVE HeadersInv'
  OBVIOUS
<1>1. CASE UNCHANGED vars
  BY <1>1 DEF vars, HeadersInv
<1>2. ASSUME NEW c \in Calls, NEW n \in ResponseNames, NEW v \in Values \ Numbers,
             ContextSet(c, n, v)
      PROVE  HeadersInv'
  BY <1>2, ContextHeaders
<1>3. ASSUME NEW c \in Calls, NEW i \in DOMAIN proxies[c], NEW v \in Numbers, SetAge(c, i, v)
      PROVE  HeadersInv'
  <2>1. v \in Values /\ Age \in HeaderNames
    BY NameFacts DEF Numbers
  <2> QED
    BY <1>3, <2>1, SetitemHeaders DEF SetAge
<1>4. ASSUME NEW c \in Calls, NEW i \in DOMAIN proxies[c], NEW n \in ResponseNames,
             NEW v \in Values, SetHeader(c, i, n, v) \/ Setdefault(c, i, n, v)
      PROVE  HeadersInv'
  <2>1. n \in HeaderNames /\ Handling(c) /\ proxies[c][i].attached
    BY <1>4, NameFacts DEF SetHeader, Setdefault, Settled
  <2>2. CASE Setitem(c, i, n, v)
    BY <2>1, <2>2, SetitemHeaders
  <2>3. CASE UNCHANGED <<settings, asked, status, request, trailing, proxies, cache,
                         origin, blind>>
    BY <2>3 DEF HeadersInv
  <2> QED
    BY <1>4, <2>2, <2>3 DEF SetHeader, Setdefault
<1> QED
  BY <1>1, <1>2, <1>3, <1>4, MoveHeaders, WrapHeaders, StoreHeaders, RestoreHeaders,
     AttachHeaders, DeleteHeaders DEF Next

(* What the proxy, the response and the client have of a header. *)
LEMMA AgreementShows ==
    ASSUME HeadersInv, NEW c \in Calls, status[c] # "failed", NEW i \in DOMAIN proxies[c],
           proxies[c][i].attached, NEW n \in ResponseKeys, <<i, n>> \notin blind[c]
    PROVE  /\ n \in Keys(proxies[c][i].store) <=> n \in Keys(Received(c))
           /\ n \in Keys(Received(c)) =>
                /\ StrOf[ValueIn(proxies[c][i].store, n)] = ValueIn(Received(c), n)
                /\ \E k \in DOMAIN proxies[c][i].http_response :
                      /\ Lower[proxies[c][i].http_response[k][1]] = n
                      /\ StrOf[proxies[c][i].http_response[k][2]] = ValueIn(Received(c), n)
<1>1. trailing[c] \in Lowered /\ Fits(proxies[c][i], i, trailing[c], blind[c])
  BY DEF HeadersInv, CallFits
<1>2. AgreeOn(proxies[c][i].store, proxies[c][i].http_response, trailing[c], n)
  BY <1>1 DEF Fits
<1>3. Collects(Received(c), trailing[c])
  <2>1. <<>> \in Headers
    BY DEF Headers
  <2> QED
    BY <1>1, <2>1, AttachedFacts DEF Received
<1>4. Keys(Received(c)) = Keys(trailing[c])
  BY <1>3 DEF Collects
<1>5. ASSUME n \in Keys(trailing[c])
      PROVE  /\ StrOf[ValueIn(proxies[c][i].store, n)] = ValueIn(Received(c), n)
             /\ \E k \in DOMAIN proxies[c][i].http_response :
                   /\ Lower[proxies[c][i].http_response[k][1]] = n
                   /\ StrOf[proxies[c][i].http_response[k][2]] = ValueIn(Received(c), n)
  <2>1. PICK v \in Strings :
            /\ LastIs(trailing[c], n, v)
            /\ StrOf[ValueIn(proxies[c][i].store, n)] = v
            /\ \E k \in DOMAIN proxies[c][i].http_response :
                  /\ Lower[proxies[c][i].http_response[k][1]] = n
                  /\ StrOf[proxies[c][i].http_response[k][2]] = v
    BY <1>2, <1>5 DEF AgreeOn
  <2>2. ValueIn(Received(c), n) = v
    BY <1>3, <2>1 DEF Collects
  <2> QED
    BY <2>1, <2>2
<1> QED
  BY <1>2, <1>4, <1>5 DEF AgreeOn

(* Setdefault on a header the proxy knows changes nothing. *)
LEMMA StepKeeps ==
    ASSUME HeadersInv, NEW c \in Calls, trailing'[c] # trailing[c],
           NEW i \in DOMAIN proxies[c], NEW n \in ResponseNames, NEW v,
           Lower[n] \in Keys(Received(c)), <<i, Lower[n]>> \notin blind[c]
    PROVE  ~Setdefault(c, i, n, v)
<1> SUFFICES ASSUME Setdefault(c, i, n, v) PROVE FALSE
  OBVIOUS
<1>1. Lower[n] \in ResponseKeys
  BY NameFacts
<1>2. status[c] # "failed" /\ proxies[c][i].attached
  BY DEF Setdefault, Handling, Settled
<1>3. Lower[n] \in Keys(proxies[c][i].store)
  BY <1>1, <1>2, AgreementShows
<1>4. ~Unset(proxies[c][i], n)
  BY <1>3 DEF Unset
<1> QED
  BY <1>4 DEF Setdefault

--------------------------------------------------------------------------------
(* HeadersInv is an invariant of the calls. *)
THEOREM HeadersFit == Spec => []HeadersInv
BY InitHeaders, StepHeaders, PTL DEF Spec

(* ViewsAgree, for any calls, names, values and order of operations, through   *)
(* the cache and back: what a proxy that has its context says of a header it   *)
(* was told of is what the client gets.                                        *)
THEOREM ViewsAlwaysAgree == Spec => []ViewsAgree
<1>1. HeadersInv => ViewsAgree
  BY AgreementShows DEF ViewsAgree
<1> QED
  BY <1>1, HeadersFit, PTL

(* SetdefaultKeeps: setdefault never replaces what the client gets for a       *)
(* header the proxy was told of, however its name is written.                  *)
THEOREM DefaultsKeep == Spec => SetdefaultKeeps
<1>1. HeadersInv /\ [Next]_vars =>
        [\A c \in {d \in Calls : trailing'[d] # trailing[d]} :
            \A i \in DOMAIN proxies[c], n \in ResponseNames :
               Lower[n] \in Keys(Received(c)) /\ <<i, Lower[n]>> \notin blind[c]
               => \A v \in Values : ~Setdefault(c, i, n, v)]_vars
  BY StepKeeps
<1> QED
  BY <1>1, HeadersFit, PTL DEF Spec, SetdefaultKeeps
--------------------------------------------------------------------------------
(* The request a call is given, and the answer it is given from the cache.     *)

RequestOf(c) ==
    [META |-> META(Metadata(c)),
     query |-> get_query_params(Left(Metadata(c)), asked[c].message)]

(* Call c has its request, which nothing changes. *)
Asking(c) == status[c] # "new" /\ request[c] = RequestOf(c)

(* An answer is kept under the key of the call it was made for. *)
KeptFor(e) == e.by \in Calls /\ Asking(e.by) /\ e.key = CacheKey(e.by)

OriginInv ==
    /\ settings \in Settings
    /\ \A c \in Calls : asked[c] \in Asked[c]
    /\ status = [c \in Calls |-> status[c]]
    /\ request = [c \in Calls |-> request[c]]
    /\ origin = [c \in Calls |-> origin[c]]
    /\ \A c \in Calls : Handling(c) => Asking(c)
    /\ \A e \in cache : KeptFor(e)
    /\ \A c \in Calls : origin[c] # Nothing =>
          Asking(c) /\ KeptFor(origin[c]) /\ origin[c].key = CacheKey(c)

(* The headers kept with the answer a call was given wait in one of its        *)
(* proxies until the context has them; a call that is done waits for nothing.   *)
Waiting(p, names) == ~p.attached /\ names \subseteq {Lower[n] : n \in Keys(p.http_response)}

Delivered(c) == Keys(origin[c].metadata) \subseteq Keys(trailing[c])

Owed(c) ==
    \/ Delivered(c)
    \/ /\ status[c] # "done"
       /\ \E i \in DOMAIN proxies[c] : Waiting(proxies[c][i], Keys(origin[c].metadata))

DeliveryInv ==
    \A c \in Calls : origin[c] # Nothing /\ status[c] # "failed" => Owed(c)
--------------------------------------------------------------------------------
(* Taking a key out of a dictionary. *)

(* The turns of the loop of Without. *)
Kept(f, dict, key, m) ==
    f = [i \in 0 .. m |->
            IF i = 0 THEN <<>>
            ELSE IF dict[i][1] = key THEN f[i - 1] ELSE Append(f[i - 1], dict[i])]

LEMMA KeptExist ==
    ASSUME NEW dict, NEW key, NEW N \in Nat
    PROVE  \E f : Kept(f, dict, key, N)
<1> DEFINE T == {m \in 0 .. N : \E f : Kept(f, dict, key, m)}
           Turn(x, i) == IF dict[i][1] = key THEN x ELSE Append(x, dict[i])
<1>1. 0 \in T
  <2>1. Kept([i \in 0 .. 0 |-> <<>>], dict, key, 0)
    BY DEF Kept
  <2> QED
    BY <2>1
<1>2. ASSUME NEW m \in 1 .. N, m - 1 \in T PROVE m \in T
  <2>1. PICK f : Kept(f, dict, key, m - 1)
    BY <1>2
  <2> DEFINE g == [i \in 0 .. m |-> IF i = m THEN Turn(f[m - 1], m) ELSE f[i]]
  <2> HIDE DEF Turn
  <2>2. ASSUME NEW i \in 0 .. m PROVE g[i] = IF i = 0 THEN <<>> ELSE Turn(g[i - 1], i)
    <3>1. CASE i = m
      <4>1. g[i - 1] = f[m - 1] /\ g[i] = Turn(f[m - 1], m) /\ i # 0
        BY <3>1
      <4> QED
        BY <3>1, <4>1
    <3>2. CASE i # m
      <4>1. i \in 0 .. m - 1 /\ g[i] = f[i]
        BY <3>2
      <4>2. i # 0 => g[i - 1] = f[i - 1]
        BY <3>2
      <4>3. f[i] = IF i = 0 THEN <<>> ELSE Turn(f[i - 1], i)
        BY <2>1, <4>1 DEF Kept, Turn
      <4> HIDE DEF g
      <4> QED
        BY <4>1, <4>2, <4>3
    <3> QED
      BY <3>1, <3>2
  <2>3. g = [i \in 0 .. m |-> g[i]]
    OBVIOUS
  <2> HIDE DEF g
  <2>4. Kept(g, dict, key, m)
    BY <2>2, <2>3 DEF Kept, Turn
  <2> QED
    BY <2>4
<1> HIDE DEF T
<1>3. N \in T
  BY <1>1, <1>2, InductionUpTo
<1> QED
  BY <1>3 DEF T

(* The first m pairs of d without key. *)
Dropped(r, d, key, m) ==
    /\ IsDict(r)
    /\ Keys(r) = FirstKeys(d, m) \ {key}
    /\ \A n \in Keys(r) : ValueIn(r, n) = ValueIn(d, n)

LEMMA DropTurn ==
    ASSUME NEW K, NEW V, NEW d \in Seq(K \X V), IsDict(d), NEW key, NEW m \in 1 .. Len(d),
           NEW r \in Seq(K \X V), Dropped(r, d, key, m - 1),
           NEW q, q = IF d[m][1] = key THEN r ELSE Append(r, d[m])
    PROVE  q \in Seq(K \X V) /\ Dropped(q, d, key, m)
<1> DEFINE k == d[m][1]
           v == d[m][2]
<1>1. k \in K /\ v \in V /\ d[m] = <<k, v>> /\ m - 1 \in Nat /\ m \in Nat /\ m \in DOMAIN d
  OBVIOUS
<1>2. ValueIn(d, k) = v
  BY <1>1, DictValue
<1> HIDE DEF k, v
<1>3. FirstKeys(d, m) = FirstKeys(d, m - 1) \cup {k}
  <2>1. 1 .. m = (1 .. m - 1) \cup {m}
    BY <1>1
  <2> QED
    BY <2>1 DEF FirstKeys, k
<1>4. k \notin FirstKeys(d, m - 1)
  <2> SUFFICES ASSUME NEW j \in 1 .. m - 1, d[j][1] = k PROVE FALSE
    BY DEF FirstKeys
  <2>1. j \in DOMAIN d /\ j # m
    BY <1>1
  <2> QED
    BY <1>1, <2>1 DEF IsDict, k
<1>5. /\ IsDict(r) /\ Keys(r) = FirstKeys(d, m - 1) \ {key}
      /\ \A n \in Keys(r) : ValueIn(r, n) = ValueIn(d, n)
  BY DEF Dropped
<1>6. CASE k = key
  <2>1. q = r
    BY <1>6 DEF k
  <2> QED
    BY <1>3, <1>4, <1>5, <1>6, <2>1 DEF Dropped
<1>7. CASE k # key
  <2>1. k \notin Keys(r)
    BY <1>4, <1>5
  <2>2. q = Put(r, k, v)
    <3>1. q = Append(r, <<k, v>>)
      BY <1>1, <1>7 DEF k
    <3> QED
      BY <2>1, <3>1 DEF Put
  <2>3. q \in Seq(K \X V) /\ Updated(q, r, k, v)
    <3>1. Put(r, k, v) \in Seq(K \X V) /\ Updated(Put(r, k, v), r, k, v)
      BY <1>1, <1>5, PutFacts
    <3> QED
      BY <2>2, <3>1
  <2>4. /\ IsDict(q) /\ Keys(q) = Keys(r) \cup {k} /\ ValueIn(q, k) = v
        /\ \A n \in Keys(r) : n # k => ValueIn(q, n) = ValueIn(r, n)
    BY <2>3, Zenon DEF Updated
  <2>5. Keys(q) = FirstKeys(d, m) \ {key}
    BY <1>3, <1>5, <1>7, <2>4
  <2>6. \A n \in Keys(q) : ValueIn(q, n) = ValueIn(d, n)
    BY <1>2, <1>5, <2>1, <2>4
  <2> QED
    BY <2>3, <2>4, <2>5, <2>6 DEF Dropped
<1> QED
  BY <1>6, <1>7

(* A dictionary without a key has the other keys, with their values. *)
Lacks(r, d, key) ==
    /\ IsDict(r)
    /\ Keys(r) = Keys(d) \ {key}
    /\ \A n \in Keys(r) : ValueIn(r, n) = ValueIn(d, n)

LEMMA WithoutFacts ==
    ASSUME NEW K, NEW V, NEW d \in Seq(K \X V), IsDict(d), NEW key
    PROVE  Without(d, key) \in Seq(K \X V) /\ Lacks(Without(d, key), d, key)
<1>1. PICK N \in Nat : N = Len(d)
  OBVIOUS
<1> DEFINE h == CHOOSE f : Kept(f, d, key, Len(d))
<1>2. \E f : Kept(f, d, key, Len(d))
  BY <1>1, KeptExist
<1>3. Kept(h, d, key, Len(d))
  BY <1>2, Zenon
<1>4. Without(d, key) = h[Len(d)]
  BY Zenon DEF Without, Kept
<1> HIDE DEF h
<1> DEFINE T == {m \in 0 .. N : h[m] \in Seq(K \X V) /\ Dropped(h[m], d, key, m)}
<1>5. h = [i \in 0 .. N |->
             IF i = 0 THEN <<>>
             ELSE IF d[i][1] = key THEN h[i - 1] ELSE Append(h[i - 1], d[i])]
  BY <1>1, <1>3 DEF Kept
<1>6. 0 \in T
  <2>1. h[0] = <<>>
    BY <1>5
  <2>2. FirstKeys(d, 0) = {}
    BY DEF FirstKeys
  <2>3. <<>> \in Seq(K \X V) /\ Keys(<<>>) = {} /\ IsDict(<<>>)
    BY DEF Keys, IsDict
  <2>4. Dropped(<<>>, d, key, 0)
    BY <2>2, <2>3 DEF Dropped
  <2> QED
    <3>1. h[0] \in Seq(K \X V) /\ Dropped(h[0], d, key, 0)
      BY <2>1, <2>3, <2>4, Zenon
    <3> QED
      BY <1>1, <3>1
<1>7. ASSUME NEW m \in 1 .. N, m - 1 \in T PROVE m \in T
  <2>1. h[m] = IF d[m][1] = key THEN h[m - 1] ELSE Append(h[m - 1], d[m])
    <3>1. m \in 0 .. N /\ m # 0
      BY <1>7
    <3> QED
      BY <1>5, <3>1
  <2>2. h[m - 1] \in Seq(K \X V) /\ Dropped(h[m - 1], d, key, m - 1) /\ m \in 1 .. Len(d)
    BY <1>1, <1>7
  <2>3. h[m] \in Seq(K \X V) /\ Dropped(h[m], d, key, m)
    BY <2>1, <2>2, DropTurn
  <2> QED
    BY <1>7, <2>3
<1> HIDE DEF T
<1>8. N \in T
  <2>1. \A i \in 0 .. N : i \in T
    BY <1>6, <1>7, InductionUpTo, Zenon
  <2> QED
    BY <2>1
<1>9. Without(d, key) \in Seq(K \X V) /\ Dropped(Without(d, key), d, key, Len(d))
  BY <1>1, <1>4, <1>8 DEF T
<1>10. FirstKeys(d, Len(d)) = Keys(d)
  <2>1. DOMAIN d = 1 .. Len(d)
    OBVIOUS
  <2> QED
    BY <2>1, Zenon DEF FirstKeys, Keys
<1> QED
  BY <1>9, <1>10, Zenon DEF Dropped, Lacks

(* The later of two dictionaries counts. *)
Overrides(r, one, other) ==
    /\ IsDict(r)
    /\ Keys(r) = Keys(one) \cup Keys(other)
    /\ \A n \in Keys(other) : ValueIn(r, n) = ValueIn(other, n)
    /\ \A n \in Keys(one) \ Keys(other) : ValueIn(r, n) = ValueIn(one, n)

LEMMA MergeDicts ==
    ASSUME NEW K, NEW V, NEW one \in Seq(K \X V), IsDict(one),
           NEW other \in Seq(K \X V), IsDict(other)
    PROVE  Merge(one, other) \in Seq(K \X V) /\ Overrides(Merge(one, other), one, other)
<1>1. Merge(one, other) \in Seq(K \X V) /\ Combined(Merge(one, other), one, other)
  BY MergeValues
<1>2. ASSUME NEW n \in Keys(other) PROVE LastIs(other, n, ValueIn(other, n))
  <2>0. PICK i \in DOMAIN other : other[i][1] = n
    BY DEF Keys
  <2>1. other[i] = <<n, ValueIn(other, n)>>
    <3>1. ValueIn(other, n) = other[i][2] /\ other[i] \in K \X V
      BY <2>0, DictValue
    <3> QED
      BY <2>0, <3>1
  <2>2. \A j \in DOMAIN other : j > i => other[j][1] # n
    <3> SUFFICES ASSUME NEW j \in DOMAIN other, j > i, other[j][1] = n PROVE FALSE
      OBVIOUS
    <3>1. other[i][1] = n
      BY <2>1
    <3>2. j = i
      BY <3>1 DEF IsDict
    <3>3. j \in Nat /\ i \in Nat
      OBVIOUS
    <3> QED
      BY <3>2, <3>3
  <2> QED
    BY <2>1, <2>2 DEF LastIs
<1> QED
  BY <1>1, <1>2, Zenon DEF Combined, Overrides

--------------------------------------------------------------------------------
(* What a client asks for. *)

MetadataValues == Strings \cup Objects

LEMMA ObjectFacts ==
    /\ <<>> \in Objects /\ Keys(<<>>) = {}
    /\ \A d \in Objects : IsDict(d) /\ d \in Seq(HeaderNames \X Strings)
                          /\ d \in Seq(HeaderNames \X MetadataValues)
<1>1. <<>> \in Objects /\ Keys(<<>>) = {}
  BY DEF Objects, IsDict, Keys
<1>2. ASSUME NEW d \in Objects PROVE d \in Seq(HeaderNames \X MetadataValues)
  <2>1. d \in Seq(HeaderNames \X Strings)
    BY DEF Objects
  <2> QED
    BY <2>1 DEF MetadataValues
<1> QED
  BY <1>1, <1>2 DEF Objects

LEMMA MergeObjects ==
    ASSUME NEW one \in Objects, NEW other \in Objects
    PROVE  Merge(one, other) \in Objects /\ Overrides(Merge(one, other), one, other)
<1>1. /\ one \in Seq(HeaderNames \X Strings) /\ IsDict(one)
      /\ other \in Seq(HeaderNames \X Strings) /\ IsDict(other)
  BY ObjectFacts
<1>2. /\ Merge(one, other) \in Seq(HeaderNames \X Strings)
      /\ Overrides(Merge(one, other), one, other)
  BY <1>1, MergeDicts
<1>3. IsDict(Merge(one, other))
  BY <1>2, Zenon DEF Overrides
<1> QED
  BY <1>2, <1>3 DEF Objects

(* The value of p in the first of the dictionaries that has one. *)
FirstOf(dicts, p) ==
    LET places == {i \in DOMAIN dicts : p \in Keys(dicts[i])}
    IN  IF places = {} THEN Nothing ELSE ValueIn(dicts[Min(places)], p)

ParamOf(query, p) == IF p \in Keys(query) THEN ValueIn(query, p) ELSE Nothing

LEMMA LeastOf ==
    ASSUME NEW T, NEW m \in T, T \subseteq Nat, \A j \in T : m <= j
    PROVE  Min(T) = m
<1>1. Min(T) \in T /\ Min(T) <= m
  BY DEF Min
<1>2. m <= Min(T) /\ Min(T) \in Nat /\ m \in Nat
  BY <1>1
<1> QED
  BY <1>1, <1>2

LEMMA FirstOfFour ==
    ASSUME NEW a, NEW b, NEW c, NEW d, NEW p
    PROVE  FirstOf(<<a, b, c, d>>, p) =
               IF p \in Keys(a) THEN ValueIn(a, p)
               ELSE IF p \in Keys(b) THEN ValueIn(b, p)
               ELSE IF p \in Keys(c) THEN ValueIn(c, p)
               ELSE IF p \in Keys(d) THEN ValueIn(d, p) ELSE Nothing
<1> DEFINE dicts == <<a, b, c, d>>
           places == {i \in DOMAIN dicts : p \in Keys(dicts[i])}
<1>1. DOMAIN dicts = {1, 2, 3, 4} /\ dicts[1] = a /\ dicts[2] = b /\ dicts[3] = c /\ dicts[4] = d
  OBVIOUS
<1>2. FirstOf(dicts, p) = IF places = {} THEN Nothing ELSE ValueIn(dicts[Min(places)], p)
  BY DEF FirstOf
<1> HIDE DEF dicts
<1>3. places \subseteq {1, 2, 3, 4} /\ places \subseteq Nat
  BY <1>1
<1>4. /\ 1 \in places <=> p \in Keys(a)
      /\ 2 \in places <=> p \in Keys(b)
      /\ 3 \in places <=> p \in Keys(c)
      /\ 4 \in places <=> p \in Keys(d)
  BY <1>1
<1> HIDE DEF places
<1>5. CASE 1 \in places
  <2>1. Min(places) = 1
    <3>1. \A j \in places : 1 <= j
      BY <1>3, <1>5
    <3> QED
      BY <1>3, <1>5, <3>1, LeastOf
  <2> QED
    BY <1>1, <1>2, <1>4, <1>5, <2>1 DEF dicts
<1>6. CASE 1 \notin places /\ 2 \in places
  <2>1. Min(places) = 2
    <3>1. \A j \in places : 2 <= j
      BY <1>3, <1>6
    <3> QED
      BY <1>3, <1>6, <3>1, LeastOf
  <2> QED
    BY <1>1, <1>2, <1>4, <1>6, <2>1 DEF dicts
<1>7. CASE 1 \notin places /\ 2 \notin places /\ 3 \in places
  <2>1. Min(places) = 3
    <3>1. \A j \in places : 3 <= j
      BY <1>3, <1>7
    <3> QED
      BY <1>3, <1>7, <3>1, LeastOf
  <2> QED
    BY <1>1, <1>2, <1>4, <1>7, <2>1 DEF dicts
<1>8. CASE 1 \notin places /\ 2 \notin places /\ 3 \notin places /\ 4 \in places
  <2>1. Min(places) = 4
    <3>1. \A j \in places : 4 <= j
      BY <1>3, <1>8
    <3> QED
      BY <1>3, <1>8, <3>1, LeastOf
  <2> QED
    BY <1>1, <1>2, <1>4, <1>8, <2>1 DEF dicts
<1>9. CASE places = {}
  BY <1>2, <1>4, <1>9 DEF dicts
<1> QED
  BY <1>3, <1>5, <1>6, <1>7, <1>8, <1>9

LEMMA LayersMerge ==
    ASSUME NEW a \in Objects, NEW b \in Objects, NEW c \in Objects, NEW d \in Objects, NEW p
    PROVE  FirstOf(<<a, b, c, d>>, p) = ParamOf(Merge(Merge(d, c), Merge(b, a)), p)
<1>1. PICK x : x = Merge(b, a)
  OBVIOUS
<1>2. PICK y : y = Merge(d, c)
  OBVIOUS
<1>3. PICK q : q = Merge(y, x)
  OBVIOUS
<1>4. x \in Objects /\ Overrides(x, b, a)
  BY <1>1, MergeObjects
<1>5. y \in Objects /\ Overrides(y, d, c)
  BY <1>2, MergeObjects
<1>6. Overrides(q, y, x)
  BY <1>3, <1>4, <1>5, MergeObjects
<1>7. ParamOf(q, p) =
          IF p \in Keys(a) THEN ValueIn(a, p)
          ELSE IF p \in Keys(b) THEN ValueIn(b, p)
          ELSE IF p \in Keys(c) THEN ValueIn(c, p)
          ELSE IF p \in Keys(d) THEN ValueIn(d, p) ELSE Nothing
  BY <1>4, <1>5, <1>6 DEF ParamOf, Overrides
<1> QED
  BY <1>1, <1>2, <1>3, <1>7, FirstOfFour

(* Lower-case names: each with the value of an entry of that name. *)
LEMMA LowerKeysFacts ==
    ASSUME NEW V, NEW t \in Seq(HeaderNames \X V)
    PROVE  /\ LowerKeys(t) \in Seq(HeaderNames \X V) /\ IsDict(LowerKeys(t))
           /\ \A n \in Keys(LowerKeys(t)) : \E i \in DOMAIN t :
                 Lower[t[i][1]] = n /\ ValueIn(LowerKeys(t), n) = t[i][2]
<1> DEFINE u == [i \in DOMAIN t |-> <<Lower[t[i][1]], t[i][2]>>]
           r == LowerKeys(t)
<1>1. \A i \in DOMAIN t : t[i][1] \in HeaderNames /\ t[i][2] \in V
  OBVIOUS
<1>2. \A i \in DOMAIN t : u[i] = <<Lower[t[i][1]], t[i][2]>> /\ u[i] \in HeaderNames \X V
  BY <1>1, NamesAssumption
<1>3. u \in Seq(HeaderNames \X V) /\ DOMAIN u = DOMAIN t
  BY <1>2
<1>4. r = DictOf(u)
  BY DEF LowerKeys
<1> HIDE DEF u, r
<1>5. DictOf(u) \in Seq(HeaderNames \X V) /\ Collects(DictOf(u), u)
  BY <1>3, DictFacts
<1>6. /\ r \in Seq(HeaderNames \X V) /\ IsDict(r) /\ Keys(r) = Keys(u)
      /\ \A n, v : LastIs(u, n, v) => ValueIn(r, n) = v
  BY <1>4, <1>5, Zenon DEF Collects
<1>7. ASSUME NEW n \in Keys(r)
      PROVE  \E i \in DOMAIN t : Lower[t[i][1]] = n /\ ValueIn(r, n) = t[i][2]
  <2>1. n \in Keys(u)
    BY <1>6
  <2>2. PICK v \in V : LastIs(u, n, v)
    BY <1>3, <2>1, LastExists
  <2>3. ValueIn(r, n) = v
    BY <1>6, <2>2
  <2>4. PICK i \in DOMAIN u : u[i] = <<n, v>>
    BY <2>2 DEF LastIs
  <2>5. <<Lower[t[i][1]], t[i][2]>> = <<n, v>> /\ i \in DOMAIN t
    BY <1>2, <1>3, <2>4
  <2> QED
    BY <2>3, <2>5
<1> QED
  BY <1>6, <1>7 DEF r

(* convert_metadata_to_dict, of what a call may come with. *)
LEMMA MetadataFacts ==
    ASSUME NEW c \in Calls, asked[c] \in Asked[c], settings \in Settings
    PROVE  /\ Metadata(c) \in Seq(HeaderNames \X MetadataValues) /\ IsDict(Metadata(c))
           /\ \A k \in {HeadersKey, settings.keys.filters, settings.keys.pagination} :
                 k \in Keys(Metadata(c)) => ValueIn(Metadata(c), k) \in Objects
<1>1. PICK t : t = asked[c].metadata
  OBVIOUS
<1>2. t \in Seq(HeaderNames \X MetadataValues)
  BY <1>1, AskedAssumption DEF MetadataValues
<1>3. \A i \in DOMAIN t :
         Lower[t[i][1]] \in {HeadersKey, settings.keys.filters, settings.keys.pagination}
         => t[i][2] \in Objects
  BY <1>1, AskedAssumption DEF HeadersKey
<1>4. PICK r : r = LowerKeys(t)
  OBVIOUS
<1>5. /\ r \in Seq(HeaderNames \X MetadataValues) /\ IsDict(r)
      /\ \A n \in Keys(r) : \E i \in DOMAIN t : Lower[t[i][1]] = n /\ ValueIn(r, n) = t[i][2]
  BY <1>2, <1>4, LowerKeysFacts
<1>6. Metadata(c) = r
  BY <1>1, <1>4 DEF Metadata
<1> QED
  BY <1>3, <1>5, <1>6

(* What is left of the metadata without the headers key, and what a key of the *)
(* settings gives.                                                              *)
LEMMA ParsedFacts ==
    ASSUME NEW c \in Calls, asked[c] \in Asked[c], settings \in Settings,
           NEW k \in {settings.keys.filters, settings.keys.pagination}
    PROVE  /\ Parsed(Metadata(c), k) \in Objects
           /\ Parsed(Left(Metadata(c)), k)
              = IF k # HeadersKey THEN Parsed(Metadata(c), k) ELSE <<>>
<1>1. PICK r : r = Metadata(c)
  OBVIOUS
<1>2. /\ r \in Seq(HeaderNames \X MetadataValues) /\ IsDict(r)
      /\ k \in Keys(r) => ValueIn(r, k) \in Objects
  BY <1>1, MetadataFacts
<1>3. Parsed(r, k) \in Objects
  BY <1>2, ObjectFacts DEF Parsed
<1>4. Lacks(Without(r, HeadersKey), r, HeadersKey)
  BY <1>2, WithoutFacts
<1>5. Parsed(Left(r), k) = IF k # HeadersKey THEN Parsed(r, k) ELSE <<>>
  BY <1>4 DEF Parsed, Left, Lacks
<1> QED
  BY <1>1, <1>3, <1>5

(* get_query_params: the query of a call is what was asked, parameter by       *)
(* parameter.                                                                  *)
LEMMA QueryIsAsked ==
    ASSUME NEW c \in Calls, asked[c] \in Asked[c], settings \in Settings, NEW p
    PROVE  AskedParam(c, p) =
               ParamOf(get_query_params(Left(Metadata(c)), asked[c].message), p)
<1>1. PICK fk : fk = settings.keys["filters"]
  OBVIOUS
<1>2. PICK pk : pk = settings.keys["pagination"]
  OBVIOUS
<1>3. PICK a : a = IF ReadsStruct(settings.pagination_behavior)
                   THEN asked[c].message["pagination"] ELSE <<>>
  OBVIOUS
<1>4. PICK b : b = IF ReadsMetadata(settings.pagination_behavior) /\ pk # HeadersKey
                   THEN Parsed(Metadata(c), pk) ELSE <<>>
  OBVIOUS
<1>5. PICK e : e = IF ReadsStruct(settings.filter_behavior)
                   THEN asked[c].message["filters"] ELSE <<>>
  OBVIOUS
<1>6. PICK d : d = IF ReadsMetadata(settings.filter_behavior) /\ fk # HeadersKey
                   THEN Parsed(Metadata(c), fk) ELSE <<>>
  OBVIOUS
<1>7. a \in Objects /\ b \in Objects /\ e \in Objects /\ d \in Objects
  BY <1>1, <1>2, <1>3, <1>4, <1>5, <1>6, AskedAssumption, ObjectFacts, ParsedFacts
<1>8. AskedParam(c, p) = FirstOf(<<a, b, e, d>>, p)
  <2>1. AskedParam(c, p) = FirstOf(
            <<IF ReadsStruct(settings.pagination_behavior)
              THEN asked[c].message["pagination"] ELSE <<>>,
              IF ReadsMetadata(settings.pagination_behavior)
                 /\ settings.keys["pagination"] # HeadersKey
              THEN Parsed(Metadata(c), settings.keys["pagination"]) ELSE <<>>,
              IF ReadsStruct(settings.filter_behavior)
              THEN asked[c].message["filters"] ELSE <<>>,
              IF ReadsMetadata(settings.filter_behavior) /\ settings.keys["filters"] # HeadersKey
              THEN Parsed(Metadata(c), settings.keys["filters"]) ELSE <<>>>>, p)
    BY Zenon DEF AskedParam, FirstOf
  <2> QED
    BY <1>1, <1>2, <1>3, <1>4, <1>5, <1>6, <2>1, Zenon
<1>9. /\ b = IF ReadsMetadata(settings.pagination_behavior)
             THEN Parsed(Left(Metadata(c)), pk) ELSE <<>>
      /\ d = IF ReadsMetadata(settings.filter_behavior)
             THEN Parsed(Left(Metadata(c)), fk) ELSE <<>>
  BY <1>1, <1>2, <1>4, <1>6, ParsedFacts
<1>10. get_query_params(Left(Metadata(c)), asked[c].message) = Merge(Merge(d, e), Merge(b, a))
  BY <1>1, <1>2, <1>3, <1>5, <1>9 DEF get_query_params, Part
<1> QED
  BY <1>7, <1>8, <1>10, LayersMerge

(* get_from_metadata: META is a dictionary. *)
LEMMA MetaFacts ==
    ASSUME NEW c \in Calls, asked[c] \in Asked[c], settings \in Settings
    PROVE  META(Metadata(c)) \in Seq(HeaderNames \X MetadataValues)
           /\ IsDict(META(Metadata(c)))
<1>1. PICK r : r = Metadata(c)
  OBVIOUS
<1>2. /\ r \in Seq(HeaderNames \X MetadataValues) /\ IsDict(r)
      /\ HeadersKey \in Keys(r) => ValueIn(r, HeadersKey) \in Objects
  BY <1>1, MetadataFacts
<1>3. CASE HeadersKey \in Keys(r)
  <2>1. PICK own : own = ValueIn(r, HeadersKey)
    OBVIOUS
  <2>2. own \in Seq(HeaderNames \X MetadataValues) /\ IsDict(own)
    BY <1>2, <1>3, <2>1, ObjectFacts
  <2>3. PICK rest : rest = Without(r, HeadersKey)
    OBVIOUS
  <2>4. rest \in Seq(HeaderNames \X MetadataValues) /\ IsDict(rest)
    BY <1>2, <2>3, WithoutFacts DEF Lacks
  <2>5. Merge(rest, own) \in Seq(HeaderNames \X MetadataValues)
    BY <2>2, <2>4, MergeDicts
  <2>6. META(r) = LowerKeys(Merge(rest, own))
    BY <1>3, <2>1, <2>3 DEF META
  <2>7. LowerKeys(Merge(rest, own)) \in Seq(HeaderNames \X MetadataValues)
        /\ IsDict(LowerKeys(Merge(rest, own)))
    BY <2>5, LowerKeysFacts
  <2> QED
    BY <1>1, <2>6, <2>7
<1>4. CASE HeadersKey \notin Keys(r)
  <2>1. META(r) = LowerKeys(r)
    BY <1>4 DEF META
  <2>2. LowerKeys(r) \in Seq(HeaderNames \X MetadataValues) /\ IsDict(LowerKeys(r))
    BY <1>2, LowerKeysFacts
  <2> QED
    BY <1>1, <2>1, <2>2
<1> QED
  BY <1>3, <1>4

(* With one spelling of a header, and not the one with the prefix, META and    *)
(* headers find the same.                                                      *)
LEMMA SpelledAlike ==
    ASSUME NEW V, NEW meta \in Seq(HeaderNames \X V), IsDict(meta),
           Head(Spellings) \notin Keys(meta),
           \A m, n \in Keys(meta) \cap Range(Spellings) : m = n
    PROVE  headers(meta) = Spelled(meta)
<1> DEFINE found == {i \in DOMAIN meta : meta[i][1] \in Range(Tail(Spellings))}
           spelled == {i \in DOMAIN Spellings : Spellings[i] \in Keys(meta)}
<1>1. /\ Spellings \in Seq(HeaderNames) /\ Len(Spellings) \in Nat /\ Len(Spellings) > 0
      /\ DOMAIN Spellings = 1 .. Len(Spellings) /\ Head(Spellings) = Spellings[1]
      /\ DOMAIN Tail(Spellings) = 1 .. Len(Spellings) - 1
      /\ \A i \in 1 .. Len(Spellings) - 1 : Tail(Spellings)[i] = Spellings[i + 1]
  BY SpellingsAssumption
<1>2. Range(Tail(Spellings)) = {Spellings[i] : i \in 2 .. Len(Spellings)}
  <2>1. ASSUME NEW x \in Range(Tail(Spellings)) PROVE \E i \in 2 .. Len(Spellings) : x = Spellings[i]
    <3>1. PICK j \in 1 .. Len(Spellings) - 1 : Tail(Spellings)[j] = x
      BY <1>1 DEF Range
    <3>2. j + 1 \in 2 .. Len(Spellings) /\ Spellings[j + 1] = x
      BY <1>1, <3>1
    <3> QED
      BY <3>2
  <2>2. ASSUME NEW i \in 2 .. Len(Spellings) PROVE Spellings[i] \in Range(Tail(Spellings))
    <3>1. i - 1 \in 1 .. Len(Spellings) - 1 /\ (i - 1) + 1 = i
      BY <1>1
    <3>2. Tail(Spellings)[i - 1] = Spellings[i]
      BY <1>1, <3>1
    <3> QED
      BY <1>1, <3>1, <3>2 DEF Range
  <2> QED
    BY <2>1, <2>2
<1>3. Range(Tail(Spellings)) \subseteq Range(Spellings)
  BY <1>1, <1>2 DEF Range
<1>4. headers(meta) = IF found = {} THEN Nothing ELSE meta[Max(found)][2]
  BY DEF headers
<1>5. Spelled(meta) = IF spelled = {} THEN Nothing ELSE ValueIn(meta, Spellings[Min(spelled)])
  BY DEF Spelled
<1>6. \A i \in found : i \in DOMAIN meta /\ meta[i][1] \in Range(Tail(Spellings))
                       /\ meta[i][1] \in Keys(meta)
  BY DEF Keys
<1>7. \A j \in spelled : j \in DOMAIN Spellings /\ Spellings[j] \in Keys(meta)
                         /\ Spellings[j] \in Range(Spellings)
  BY DEF Range
<1>8. ASSUME NEW j \in spelled PROVE \E i \in found : meta[i][1] = Spellings[j]
  <2>1. j # 1 /\ j \in 2 .. Len(Spellings)
    BY <1>1, <1>7
  <2>2. PICK i \in DOMAIN meta : meta[i][1] = Spellings[j]
    BY <1>7 DEF Keys
  <2> QED
    BY <1>2, <2>1, <2>2
<1>9. ASSUME NEW i \in found PROVE \E j \in spelled : Spellings[j] = meta[i][1]
  <2>1. PICK j \in 2 .. Len(Spellings) : Spellings[j] = meta[i][1]
    BY <1>2
  <2>2. j \in DOMAIN Spellings
    BY <1>1
  <2> QED
    BY <1>6, <2>1, <2>2
<1>10. found \subseteq Nat /\ spelled \subseteq Nat
  BY <1>1
<1> HIDE DEF found, spelled
<1>11. CASE spelled = {}
  BY <1>4, <1>5, <1>9, <1>11
<1>12. CASE spelled # {}
  <2>1. PICK m \in spelled : \A j \in spelled : m <= j
    BY <1>10, <1>12, LeastIndex
  <2>2. Min(spelled) = m
    BY <1>10, <2>1, LeastOf
  <2>3. PICK i \in found : meta[i][1] = Spellings[m]
    BY <1>8
  <2>4. \A l \in found : l = i
    BY <1>3, <1>6, <1>7, <2>3 DEF IsDict
  <2>5. Max(found) = i
    <3>1. Max(found) \in found
      <4>1. i \in Nat /\ \A l \in found : l <= i
        BY <1>10, <2>4
      <4> QED
        BY <4>1 DEF Max
    <3> QED
      BY <2>4, <3>1
  <2>6. ValueIn(meta, Spellings[m]) = meta[i][2]
    BY <1>6, <2>3, DictValue
  <2> QED
    BY <1>4, <1>5, <1>12, <2>2, <2>3, <2>5, <2>6
<1> QED
  BY <1>11, <1>12

--------------------------------------------------------------------------------
(* OriginInv, through every action. *)

(* The request of a call stays what it is. *)
LEMMA OriginMoves ==
    ASSUME OriginInv, UNCHANGED <<settings, asked, request>>,
           status' = [d \in Calls |-> status'[d]],
           \A d \in Calls : /\ status[d] # "new" => status'[d] # "new"
                            /\ status'[d] = "handling" => status[d] = "handling",
           \A e \in cache' : KeptFor(e),
           origin' = [d \in Calls |-> origin'[d]],
           \A d \in Calls : origin'[d] # Nothing =>
              Asking(d) /\ KeptFor(origin'[d]) /\ origin'[d].key = CacheKey(d)
    PROVE  OriginInv'
<1>1. ASSUME NEW d \in Calls
      PROVE  RequestOf(d)' = RequestOf(d) /\ CacheKey(d)' = CacheKey(d)
  BY DEF RequestOf, CacheKey, META, Metadata, HeadersKey, get_query_params, Part, Left
<1>2. ASSUME NEW d \in Calls PROVE Asking(d) => Asking(d)'
  BY <1>1 DEF Asking
<1>3. ASSUME NEW e, KeptFor(e) PROVE KeptFor(e)'
  BY <1>1, <1>2, <1>3 DEF KeptFor
<1>4. \A e \in cache' : KeptFor(e)'
  BY <1>3
<1>5. ASSUME NEW d \in Calls, origin'[d] # Nothing
      PROVE  Asking(d)' /\ KeptFor(origin[d])' /\ (origin[d].key = CacheKey(d))'
  <2>1. PICK e : e = origin'[d]
    OBVIOUS
  <2>2. Asking(d) /\ KeptFor(e) /\ e.key = CacheKey(d)
    BY <1>5, <2>1
  <2>3. Asking(d)' /\ KeptFor(e)' /\ e.key = CacheKey(d)'
    BY <1>1, <1>2, <1>3, <2>2
  <2> QED
    BY <2>1, <2>3 DEF KeptFor
<1>6. \A d \in Calls : Handling(d)' => Asking(d)'
  BY <1>2 DEF OriginInv, Handling
<1> QED
  BY <1>4, <1>5, <1>6 DEF OriginInv

LEMMA MakeRequestOrigin ==
    ASSUME OriginInv, NEW c \in Calls, MakeRequest(c) PROVE OriginInv'
<1>1. /\ UNCHANGED <<settings, asked, cache, origin>> /\ status[c] = "new"
      /\ request' = [d \in Calls |-> request'[d]] /\ status' = [d \in Calls |-> status'[d]]
      /\ \A d \in Calls : d # c => request'[d] = request[d] /\ status'[d] = status[d]
  BY DEF MakeRequest, OriginInv
<1>2. status'[c] = "failed" \/ (status'[c] = "handling" /\ request'[c] = RequestOf(c))
  BY DEF MakeRequest, OriginInv, RequestOf
<1>3. ASSUME NEW d \in Calls PROVE RequestOf(d)' = RequestOf(d)
  BY <1>1 DEF RequestOf, META, Metadata, HeadersKey, get_query_params, Part, Left
<1>4. ASSUME NEW d \in Calls, Asking(d) PROVE Asking(d)' /\ CacheKey(d)' = CacheKey(d)
  <2>1. d # c
    BY <1>1, <1>4 DEF Asking
  <2> QED
    BY <1>1, <1>3, <1>4, <2>1 DEF Asking, CacheKey
<1>5. ASSUME NEW e, KeptFor(e) PROVE KeptFor(e)'
  BY <1>4, <1>5 DEF KeptFor
<1>6. ASSUME NEW d \in Calls, Handling(d)' PROVE Asking(d)'
  <2>1. CASE d = c
    BY <1>2, <1>3, <1>6, <2>1 DEF Handling, Asking
  <2>2. CASE d # c
    BY <1>1, <1>4, <1>6, <2>2 DEF Handling, OriginInv
  <2> QED
    BY <2>1, <2>2
<1>7. ASSUME NEW d \in Calls, origin'[d] # Nothing
      PROVE  Asking(d)' /\ KeptFor(origin[d])' /\ (origin[d].key = CacheKey(d))'
  <2>1. PICK e : e = origin[d]
    OBVIOUS
  <2>2. Asking(d) /\ KeptFor(e) /\ e.key = CacheKey(d)
    BY <1>1, <1>7, <2>1 DEF OriginInv
  <2>3. Asking(d)' /\ KeptFor(e)' /\ e.key = CacheKey(d)'
    BY <1>4, <1>5, <2>2
  <2> QED
    BY <1>1, <2>1, <2>3 DEF KeptFor
<1>8. \A e \in cache' : KeptFor(e)'
  BY <1>1, <1>5 DEF OriginInv
<1> QED
  BY <1>1, <1>6, <1>7, <1>8 DEF OriginInv

(* The other actions keep the requests, most of them the cache and the origins. *)
LEMMA StepOrigin == OriginInv /\ [Next]_vars => OriginInv'
<1> SUFFICES ASSUME OriginInv, [Next]_vars PROVE OriginInv'
  OBVIOUS
<1>1. ASSUME UNCHANGED <<settings, asked, request, cache, origin>>,
             status' = status \/ \E c \in Calls, x \in {"failed", "done"} :
                Handling(c) /\ status' = [status EXCEPT ![c] = x]
      PROVE  OriginInv'
  <2>1. /\ status' = [d \in Calls |-> status'[d]]
        /\ \A d \in Calls : /\ status[d] # "new" => status'[d] # "new"
                            /\ status'[d] = "handling" => status[d] = "handling"
    BY <1>1 DEF OriginInv, Handling
  <2> QED
    BY <1>1, <2>1, OriginMoves DEF OriginInv
<1>2. CASE UNCHANGED vars
  BY <1>1, <1>2 DEF vars
<1>3. ASSUME NEW c \in Calls, Wrap(c) PROVE OriginInv'
  BY <1>1, <1>3 DEF Wrap
<1>4. ASSUME NEW c \in Calls, Finish(c) PROVE OriginInv'
  BY <1>1, <1>4 DEF Finish
<1>5. ASSUME NEW c \in Calls, NEW n, NEW v, ContextSet(c, n, v) PROVE OriginInv'
  BY <1>1, <1>5 DEF ContextSet
<1>6. ASSUME NEW c \in Calls, NEW i, Attach(c, i) PROVE OriginInv'
  BY <1>1, <1>6, Zenon DEF Attach
<1>7. ASSUME NEW c \in Calls, NEW i, NEW n, Delete(c, i, n) PROVE OriginInv'
  BY <1>1, <1>7 DEF Delete
<1>8. ASSUME NEW c \in Calls, NEW i, NEW n, NEW v,
             SetAge(c, i, v) \/ SetHeader(c, i, n, v) \/ Setdefault(c, i, n, v)
      PROVE  OriginInv'
  <2>1. UNCHANGED <<settings, asked, request, cache, origin, status>>
    BY <1>8, Zenon DEF SetAge, SetHeader, Setdefault, Setitem
  <2> QED
    BY <1>1, <2>1
<1>9. ASSUME NEW c \in Calls, Store(c) PROVE OriginInv'
  <2>1. /\ UNCHANGED <<settings, asked, request, status, origin>> /\ Handling(c)
        /\ cache' = {e \in cache : e.key # CacheKey(c)} \cup
                    {[key |-> CacheKey(c), by |-> c, metadata |-> Received(c)]}
    BY <1>9 DEF Store
  <2>2. KeptFor([key |-> CacheKey(c), by |-> c, metadata |-> Received(c)])
    BY <2>1 DEF KeptFor, OriginInv
  <2>3. \A e \in cache' : KeptFor(e)
    BY <2>1, <2>2 DEF OriginInv
  <2> QED
    BY <2>1, <2>3, OriginMoves DEF OriginInv
<1>10. ASSUME NEW c \in Calls, NEW entry \in cache, Restore(c, entry) PROVE OriginInv'
  <2>1. /\ UNCHANGED <<settings, asked, request, status, cache>> /\ Handling(c)
        /\ origin' = [origin EXCEPT ![c] = entry] /\ entry.key = CacheKey(c)
    BY <1>10 DEF Restore
  <2>2. KeptFor(entry) /\ Asking(c)
    BY <2>1 DEF OriginInv
  <2>3. \A d \in Calls : origin'[d] # Nothing =>
           Asking(d) /\ KeptFor(origin'[d]) /\ origin'[d].key = CacheKey(d)
    BY <2>1, <2>2 DEF OriginInv
  <2> QED
    BY <2>1, <2>3, OriginMoves DEF OriginInv
<1> QED
  BY <1>2, <1>3, <1>4, <1>5, <1>6, <1>7, <1>8, <1>9, <1>10, MakeRequestOrigin DEF Next

--------------------------------------------------------------------------------
(* DeliveryInv, through every action. *)

LEMMA KeysGrow ==
    ASSUME NEW t \in Lowered, NEW k \in LowerNames, NEW v \in Strings
    PROVE  Keys(t) \subseteq Keys(Append(t, <<k, v>>))
<1>1. t \in Seq(LowerNames \X Strings)
  BY DEF Lowered
<1>2. Extended(Append(t, <<k, v>>), t, k, v)
  BY <1>1, LastOfAppend
<1> QED
  BY <1>2, Zenon DEF Extended

(* What waits in the proxy that is given the context, and what was there, is   *)
(* there afterwards.                                                           *)
LEMMA AttachedKeys ==
    ASSUME NEW t \in Lowered, NEW http \in Headers
    PROVE  /\ Keys(t) \subseteq Keys(Attached(t, http))
           /\ {Lower[n] : n \in Keys(http)} \subseteq Keys(Attached(t, http))
<1>1. PICK m : m = Merge(DictOf(t), http)
  OBVIOUS
<1>2. /\ Combined(m, DictOf(t), http) /\ Collects(DictOf(t), t)
      /\ \A x \in Keys(t) : Lower[x] = x
  BY <1>1, AttachedFacts
<1>3. Keys(m) = Keys(t) \cup Keys(http)
  BY <1>2 DEF Combined, Collects
<1>4. Attached(t, http) = Written(m)
  BY <1>1 DEF Attached
<1>5. ASSUME NEW x \in Keys(m) PROVE Lower[x] \in Keys(Written(m))
  <2>1. PICK k \in DOMAIN m : m[k][1] = x
    BY DEF Keys
  <2>2. k \in DOMAIN Written(m) /\ Written(m)[k][1] = Lower[x]
    BY <2>1 DEF Written
  <2> QED
    BY <2>2 DEF Keys
<1> QED
  BY <1>2, <1>3, <1>4, <1>5

(* One call changes: what it is owed must be on its way. *)
LEMMA DeliveryChanges ==
    ASSUME DeliveryInv, NEW c \in Calls,
           \A d \in Calls \ {c} : /\ trailing'[d] = trailing[d] /\ proxies'[d] = proxies[d]
                                  /\ status'[d] = status[d] /\ origin'[d] = origin[d],
           origin'[c] # Nothing /\ status'[c] # "failed" => Owed(c)'
    PROVE  DeliveryInv'
<1>1. ASSUME NEW d \in Calls \ {c}, Owed(d) PROVE Owed(d)'
  BY <1>1 DEF Owed, Delivered
<1> QED
  BY <1>1 DEF DeliveryInv

(* A call whose proxies have the context is owed nothing more. *)
LEMMA SettledDelivered ==
    ASSUME DeliveryInv, NEW c \in Calls, Handling(c), Settled(c), origin[c] # Nothing
    PROVE  Delivered(c)
  BY DEF DeliveryInv, Owed, Waiting, Handling, Settled

LEMMA QuietDelivery ==
    ASSUME HeadersInv, OriginInv, DeliveryInv, NEW c \in Calls,
           MakeRequest(c) \/ Finish(c) \/ Store(c)
    PROVE  DeliveryInv'
<1>1. UNCHANGED <<trailing, proxies, origin>>
  BY DEF MakeRequest, Finish, Store
<1>2. \A d \in Calls \ {c} : status'[d] = status[d]
  BY DEF MakeRequest, Finish, Store, OriginInv
<1>3. ASSUME origin'[c] # Nothing, status'[c] # "failed" PROVE Owed(c)'
  <2>1. CASE MakeRequest(c)
    <3>1. status[c] = "new" /\ status'[c] = "handling"
      BY <1>3, <2>1 DEF MakeRequest, OriginInv
    <3>2. Owed(c)
      BY <1>1, <1>3, <3>1 DEF DeliveryInv
    <3> QED
      BY <1>1, <3>1, <3>2 DEF Owed, Delivered
  <2>2. CASE Finish(c)
    <3>1. Delivered(c)
      BY <1>1, <1>3, <2>2, SettledDelivered DEF Finish
    <3> QED
      BY <1>1, <3>1 DEF Owed, Delivered
  <2>3. CASE Store(c)
    <3>1. status' = status
      BY <2>3 DEF Store
    <3>2. Owed(c)
      BY <1>1, <1>3, <3>1 DEF DeliveryInv
    <3> QED
      BY <1>1, <3>1, <3>2 DEF Owed, Delivered
  <2> QED
    BY <2>1, <2>2, <2>3
<1> QED
  BY <1>1, <1>2, <1>3, DeliveryChanges

(* Another proxy, the last of which a restored response is. *)
LEMMA WrapDelivery ==
    ASSUME HeadersInv, OriginInv, DeliveryInv, NEW c \in Calls, Wrap(c)
    PROVE  DeliveryInv'
<1>1. /\ UNCHANGED <<trailing, origin, status>> /\ Handling(c) /\ Settled(c)
      /\ \A d \in Calls \ {c} : proxies'[d] = proxies[d]
  BY DEF Wrap, HeadersInv
<1>2. ASSUME origin'[c] # Nothing PROVE Owed(c)'
  <2>1. Delivered(c)
    BY <1>1, <1>2, SettledDelivered
  <2> QED
    BY <1>1, <2>1 DEF Owed, Delivered
<1> QED
  BY <1>1, <1>2, DeliveryChanges

LEMMA RestoreDelivery ==
    ASSUME HeadersInv, OriginInv, DeliveryInv, NEW c \in Calls, NEW entry \in cache,
           Restore(c, entry)
    PROVE  DeliveryInv'
<1> DEFINE p == [attached |-> FALSE, http_response |-> entry.metadata,
                 store |-> entry.metadata]
<1>1. /\ UNCHANGED <<trailing, status>> /\ Handling(c)
      /\ origin' = [origin EXCEPT ![c] = entry]
      /\ proxies' = [proxies EXCEPT ![c] = Append(proxies[c], p)]
  BY DEF Restore
<1>2. proxies[c] \in Seq(Proxy) /\ entry.metadata \in Lowered
  BY <1>1 DEF HeadersInv, CallFits, Handling
<1>3. Waiting(p, Keys(entry.metadata))
  <2>1. PICK e : e = entry.metadata
    OBVIOUS
  <2>2. \A n \in Keys(e) : Lower[n] = n
    BY <1>2, <2>1 DEF Keys, Lowered, LowerNames
  <2>3. ~p.attached /\ p.http_response = e
    BY <2>1
  <2> HIDE DEF p
  <2> QED
    BY <2>1, <2>2, <2>3 DEF Waiting
<1> HIDE DEF p
<1>4. /\ proxies'[c] = Append(proxies[c], p) /\ origin'[c] = entry
      /\ \A d \in Calls \ {c} : proxies'[d] = proxies[d] /\ origin'[d] = origin[d]
  BY <1>1 DEF HeadersInv, OriginInv
<1>5. \E i \in DOMAIN proxies'[c] : proxies'[c][i] = p
  <2>1. PICK ps : ps = proxies[c]
    OBVIOUS
  <2>2. Len(ps) + 1 \in DOMAIN Append(ps, p) /\ Append(ps, p)[Len(ps) + 1] = p
    BY <1>2, <2>1
  <2> QED
    BY <1>4, <2>1, <2>2
<1>6. Owed(c)'
  BY <1>1, <1>3, <1>4, <1>5 DEF Owed, Handling
<1> QED
  BY <1>1, <1>4, <1>6, DeliveryChanges

LEMMA ContextDelivery ==
    ASSUME HeadersInv, OriginInv, DeliveryInv, NEW c \in Calls, NEW n \in ResponseNames,
           NEW v \in Values, ContextSet(c, n, v)
    PROVE  DeliveryInv'
<1>1. /\ UNCHANGED <<proxies, origin, status>> /\ Handling(c) /\ Settled(c)
      /\ trailing'[c] = Append(trailing[c], <<Lower[n], StrOf[v]>>)
      /\ \A d \in Calls \ {c} : trailing'[d] = trailing[d]
  BY DEF ContextSet, HeadersInv
<1>2. trailing[c] \in Lowered
  BY <1>1 DEF HeadersInv, CallFits, Handling
<1>3. Keys(trailing[c]) \subseteq Keys(trailing'[c])
  BY <1>1, <1>2, NameFacts, KeysGrow
<1>4. ASSUME origin'[c] # Nothing PROVE Owed(c)'
  <2>1. Delivered(c)
    BY <1>1, <1>4, SettledDelivered
  <2> QED
    BY <1>1, <1>3, <2>1 DEF Owed, Delivered
<1> QED
  BY <1>1, <1>4, DeliveryChanges

(* One proxy changes. *)
LEMMA ProxyDelivery ==
    ASSUME HeadersInv, OriginInv, DeliveryInv, NEW c \in Calls, Handling(c),
           UNCHANGED <<origin, status>>, NEW i \in DOMAIN proxies[c], NEW p,
           Become(proxies'[c], proxies[c], i, p),
           \A d \in Calls \ {c} : trailing'[d] = trailing[d] /\ proxies'[d] = proxies[d],
           Keys(trailing[c]) \subseteq Keys(trailing'[c]),
           \A names : Waiting(proxies[c][i], names) =>
              Waiting(p, names) \/ names \subseteq Keys(trailing'[c])
    PROVE  DeliveryInv'
<1>1. /\ DOMAIN proxies'[c] = DOMAIN proxies[c] /\ proxies'[c][i] = p
      /\ \A j \in DOMAIN proxies[c] : j # i => proxies'[c][j] = proxies[c][j]
  BY DEF Become
<1>2. ASSUME origin'[c] # Nothing, Owed(c) PROVE Owed(c)'
  <2>1. CASE Delivered(c)
    BY <2>1 DEF Owed, Delivered
  <2>2. CASE ~Delivered(c)
    <3>1. PICK j \in DOMAIN proxies[c] : Waiting(proxies[c][j], Keys(origin[c].metadata))
      BY <1>2, <2>2 DEF Owed
    <3>2. CASE j = i
      BY <1>1, <3>1, <3>2 DEF Owed, Delivered, Handling
    <3>3. CASE j # i
      BY <1>1, <3>1, <3>3 DEF Owed, Handling
    <3> QED
      BY <3>2, <3>3
  <2> QED
    BY <2>1, <2>2
<1>3. origin'[c] # Nothing => Owed(c)
  BY DEF DeliveryInv, Handling
<1> QED
  BY <1>2, <1>3, DeliveryChanges

LEMMA AttachDelivery ==
    ASSUME HeadersInv, OriginInv, DeliveryInv, NEW c \in Calls, NEW i \in DOMAIN proxies[c],
           Attach(c, i)
    PROVE  DeliveryInv'
<1> DEFINE p == [attached |-> TRUE, http_response |-> proxies[c][i].http_response,
                 store |-> proxies[c][i].store]
           t == Attached(trailing[c], proxies[c][i].http_response)
<1>1. CallFits(proxies[c], trailing[c], blind[c]) /\ Handling(c)
  BY DEF Attach, Handling, HeadersInv
<1>2. /\ proxies' = [proxies EXCEPT ![c] = proxies'[c]]
      /\ Become(proxies'[c], proxies[c], i, p)
  BY <1>1, AttachBecomes
<1>3. UNCHANGED <<origin, status>> /\ trailing' = [trailing EXCEPT ![c] = t]
  BY Zenon DEF Attach, Attached, Written, Merged, Received
<1>4. trailing[c] \in Lowered /\ proxies[c][i].http_response \in Headers
  BY <1>1, OneFits
<1>5. /\ Keys(trailing[c]) \subseteq Keys(t)
      /\ {Lower[n] : n \in Keys(proxies[c][i].http_response)} \subseteq Keys(t)
  BY <1>4, AttachedKeys
<1> HIDE DEF p, t
<1>6. /\ trailing'[c] = t
      /\ \A d \in Calls \ {c} : trailing'[d] = trailing[d] /\ proxies'[d] = proxies[d]
  BY <1>2, <1>3 DEF HeadersInv
<1>7. \A names : Waiting(proxies[c][i], names) => names \subseteq Keys(trailing'[c])
  BY <1>5, <1>6 DEF Waiting
<1> QED
  BY <1>1, <1>2, <1>3, <1>5, <1>6, <1>7, ProxyDelivery

LEMMA SetitemDelivery ==
    ASSUME HeadersInv, OriginInv, DeliveryInv, NEW c \in Calls, Handling(c),
           NEW i \in DOMAIN proxies[c], NEW n \in HeaderNames, NEW v \in Values,
           Setitem(c, i, n, v)
    PROVE  DeliveryInv'
<1> DEFINE http == proxies[c][i].http_response
           p == [attached |-> proxies[c][i].attached, http_response |-> Put(http, n, v),
                 store |-> Put(proxies[c][i].store, Lower[n], v)]
<1>1. CallFits(proxies[c], trailing[c], blind[c])
  BY DEF Handling, HeadersInv
<1>2. /\ proxies' = [proxies EXCEPT ![c] = proxies'[c]]
      /\ Become(proxies'[c], proxies[c], i, p)
  BY <1>1, SetitemBecomes
<1>3. /\ trailing[c] \in Lowered /\ http \in Seq(HeaderNames \X (Values \cup Strings))
      /\ IsDict(http)
  BY <1>1, OneFits DEF Headers, Fits
<1>4. Updated(Put(http, n, v), http, n, v)
  <2>1. v \in Values \cup Strings
    OBVIOUS
  <2>2. /\ Put(http, n, v) \in Seq(HeaderNames \X (Values \cup Strings))
        /\ Updated(Put(http, n, v), http, n, v)
    BY <1>3, <2>1, PutFacts
  <2> QED
    BY <2>2
<1>5. Keys(http) \subseteq Keys(Put(http, n, v))
  BY <1>4, Zenon DEF Updated
<1>6. p.attached = proxies[c][i].attached /\ p.http_response = Put(http, n, v)
  OBVIOUS
<1> HIDE DEF p
<1>7. \A names : Waiting(proxies[c][i], names) => Waiting(p, names)
  BY <1>5, <1>6 DEF Waiting
<1>8. /\ UNCHANGED <<origin, status>>
      /\ trailing' = trailing
         \/ trailing' = [trailing EXCEPT ![c] = Append(trailing[c], <<Lower[n], StrOf[v]>>)]
  BY DEF Setitem
<1>9. /\ Keys(trailing[c]) \subseteq Keys(trailing'[c])
      /\ \A d \in Calls \ {c} : trailing'[d] = trailing[d] /\ proxies'[d] = proxies[d]
  <2>1. Keys(trailing[c]) \subseteq Keys(Append(trailing[c], <<Lower[n], StrOf[v]>>))
    BY <1>3, NameFacts, KeysGrow
  <2> QED
    BY <1>2, <1>8, <2>1 DEF HeadersInv
<1> QED
  BY <1>2, <1>7, <1>8, <1>9, ProxyDelivery

LEMMA StepDelivery == HeadersInv /\ OriginInv /\ DeliveryInv /\ [Next]_vars => DeliveryInv'
<1> SUFFICES ASSUME HeadersInv, OriginInv, DeliveryInv, [Next]_vars PROVE DeliveryInv'
  OBVIOUS
<1>1. ASSUME UNCHANGED <<status, trailing, proxies, origin>> PROVE DeliveryInv'
  BY <1>1 DEF DeliveryInv, Owed, Delivered
<1>2. ASSUME NEW c \in Calls, NEW i, NEW n, Delete(c, i, n) PROVE DeliveryInv'
  <2>1. /\ status' = [status EXCEPT ![c] = "failed"] /\ origin' = origin
        /\ \A d \in Calls \ {c} : trailing'[d] = trailing[d] /\ proxies'[d] = proxies[d]
    BY <1>2 DEF Delete, HeadersInv
  <2> QED
    BY <2>1, DeliveryChanges DEF OriginInv
<1>3. ASSUME NEW c \in Calls, NEW n \in ResponseNames, NEW v \in Values \ Numbers,
             ContextSet(c, n, v)
      PROVE  DeliveryInv'
  BY <1>3, ContextDelivery
<1>4. ASSUME NEW c \in Calls, NEW i \in DOMAIN proxies[c], NEW v \in Numbers, SetAge(c, i, v)
      PROVE  DeliveryInv'
  BY <1>4, NameFacts, SetitemDelivery DEF SetAge, Numbers
<1>5. ASSUME NEW c \in Calls, NEW i \in DOMAIN proxies[c], NEW n \in ResponseNames,
             NEW v \in Values, SetHeader(c, i, n, v) \/ Setdefault(c, i, n, v)
      PROVE  DeliveryInv'
  <2>1. CASE Setitem(c, i, n, v)
    BY <1>5, <2>1, NameFacts, SetitemDelivery DEF SetHeader, Setdefault
  <2>2. CASE UNCHANGED <<settings, asked, status, request, trailing, proxies, cache,
                         origin, blind>>
    BY <1>1, <2>2
  <2> QED
    BY <1>5, <2>1, <2>2 DEF SetHeader, Setdefault
<1>6. CASE UNCHANGED vars
  BY <1>1, <1>6 DEF vars
<1> QED
  BY <1>2, <1>3, <1>4, <1>5, <1>6, QuietDelivery, WrapDelivery, RestoreDelivery,
     AttachDelivery DEF Next

--------------------------------------------------------------------------------
(* A call and the answer it is given. *)

LEMMA InitOrigins == Init => OriginInv /\ DeliveryInv
  BY DEF Init, OriginInv, DeliveryInv, Handling

LEMMA OwnAnswer ==
    ASSUME HeadersInv, OriginInv, DeliveryInv, NEW c \in Calls, origin[c] # Nothing
    PROVE  LET by == origin[c].by
           IN  /\ \A p \in Keys(request[c].query) \cup Keys(request[by].query) :
                     AskedParam(c, p) = AskedParam(by, p)
               /\ SpelledOnce(c) /\ SpelledOnce(by) =>
                     headers(request[c].META) = headers(request[by].META)
               /\ status[c] = "done" => Keys(origin[c].metadata) \subseteq Keys(Received(c))
<1>1. PICK by : by = origin[c].by
  OBVIOUS
<1>2. /\ Asking(c) /\ by \in Calls /\ Asking(by) /\ CacheKey(c) = CacheKey(by)
      /\ asked[c] \in Asked[c] /\ asked[by] \in Asked[by] /\ settings \in Settings
  BY <1>1 DEF OriginInv, KeptFor
<1>3. /\ request[c].query = request[by].query
      /\ Spelled(request[c].META) = Spelled(request[by].META)
  BY <1>2 DEF CacheKey
<1>4. ASSUME NEW d \in Calls, Asking(d), asked[d] \in Asked[d]
      PROVE  /\ \A p : AskedParam(d, p) = ParamOf(request[d].query, p)
             /\ SpelledOnce(d) => headers(request[d].META) = Spelled(request[d].META)
  <2>1. /\ request[d].META = META(Metadata(d))
        /\ request[d].query = get_query_params(Left(Metadata(d)), asked[d].message)
    BY <1>4 DEF Asking, RequestOf
  <2>2. PICK meta : meta = request[d].META
    OBVIOUS
  <2>3. meta \in Seq(HeaderNames \X MetadataValues) /\ IsDict(meta)
    BY <1>2, <1>4, <2>1, <2>2, MetaFacts
  <2>4. SpelledOnce(d) => headers(meta) = Spelled(meta)
    <3> SUFFICES ASSUME SpelledOnce(d) PROVE headers(meta) = Spelled(meta)
      OBVIOUS
    <3>1. /\ Head(Spellings) \notin Keys(meta) \cap Range(Spellings)
          /\ \A m, n \in Keys(meta) \cap Range(Spellings) : m = n
      BY <2>2 DEF SpelledOnce
    <3>2. Head(Spellings) \in Range(Spellings)
      BY SpellingsAssumption DEF Range
    <3> QED
      BY <2>3, <3>1, <3>2, SpelledAlike
  <2>5. \A p : AskedParam(d, p) = ParamOf(request[d].query, p)
    BY <1>2, <1>4, <2>1, QueryIsAsked
  <2> QED
    BY <2>2, <2>4, <2>5
<1>5. \A p : AskedParam(c, p) = AskedParam(by, p)
  BY <1>2, <1>3, <1>4
<1>6. SpelledOnce(c) /\ SpelledOnce(by) => headers(request[c].META) = headers(request[by].META)
  BY <1>2, <1>3, <1>4
<1>7. ASSUME status[c] = "done" PROVE Keys(origin[c].metadata) \subseteq Keys(Received(c))
  <2>1. Delivered(c)
    BY <1>7 DEF DeliveryInv, Owed
  <2>2. trailing[c] \in Lowered
    BY <1>7 DEF HeadersInv, CallFits
  <2>3. <<>> \in Headers
    BY DEF Headers
  <2>4. Collects(DictOf(trailing[c]), trailing[c])
    BY <2>2, <2>3, AttachedFacts
  <2> QED
    BY <2>1, <2>4 DEF Delivered, Received, Collects
<1> QED
  BY <1>1, <1>5, <1>6, <1>7

(* HitIsOwn, for any calls, settings, metadata and messages: an answer from    *)
(* the cache is one to what the call asked for, and comes with its headers.     *)
THEOREM HitsAreOwn == Spec => []HitIsOwn
<1>1. HeadersInv /\ OriginInv /\ DeliveryInv => HitIsOwn
  BY OwnAnswer DEF HitIsOwn
<1> QED
  BY <1>1, InitHeaders, StepHeaders, InitOrigins, StepOrigin, StepDelivery, PTL DEF Spec
================================================================================
