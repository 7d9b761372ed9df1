------------------------- MODULE FieldNumberingProofs -------------------------
(* Theorems about FieldNumbering: for any names and any history of edits and  *)
(* generations, the numbers in the proto file are those of the declared names *)
(* and no two names share one.                                                *)
EXTENDS FieldNumbering, FiniteSetTheorems, InductionLemmas

--------------------------------------------------------------------------------
(* Lemmas about declarations. *)

LEMMA DeclarationFacts ==
    ASSUME NEW d \in Declarations
    PROVE  /\ Len(d) \in Nat
           /\ d \in [1 .. Len(d) -> Names]
           /\ \A i, j \in 1 .. Len(d) : d[i] = d[j] => i = j
<1>1. PICK m \in 0 .. Cardinality(Names) : d \in [1 .. m -> Names]
  BY DEF Declarations, SeqOf
<1>2. m \in Nat /\ d \in Seq(Names)
  BY <1>1, FS_CardinalityType, NamesAssumption
<1>3. Len(d) = m
  BY <1>1, <1>2
<1>4. IsInjective(d)
  BY DEF Declarations
<1> QED
  BY <1>1, <1>2, <1>3, <1>4 DEF IsInjective

LEMMA PositionFacts ==
    ASSUME NEW d \in Declarations, NEW n \in ToSet(d)
    PROVE  PositionOf(d, n) \in 1 .. Len(d) /\ d[PositionOf(d, n)] = n
<1>1. \E i \in 1 .. Len(d) : d[i] = n
  BY DeclarationFacts DEF ToSet
<1> QED
  BY <1>1 DEF PositionOf

LEMMA DeclaredNames == ASSUME NEW d \in Declarations PROVE ToSet(d) \subseteq Names
  BY DeclarationFacts DEF ToSet

(* The fresh names up to a position are finitely many, and one more at every  *)
(* position that holds a fresh name.                                          *)
LEMMA FreshFacts ==
    ASSUME NEW d, NEW prev, NEW i \in Nat
    PROVE  /\ IsFiniteSet(FreshUpTo(d, prev, i))
           /\ Cardinality(FreshUpTo(d, prev, i)) \in 0 .. i
<1>1. IsFiniteSet(1 .. i) /\ Cardinality(1 .. i) = i
  BY FS_Interval
<1>2. FreshUpTo(d, prev, i) \subseteq 1 .. i
  BY DEF FreshUpTo
<1> QED
  BY <1>1, <1>2, FS_Subset, FS_CardinalityType

LEMMA FreshGrows ==
    ASSUME NEW d, NEW prev, NEW i \in Nat, NEW j \in Nat,
           i < j, d[j] \notin Kept(d, prev)
    PROVE  Cardinality(FreshUpTo(d, prev, i)) < Cardinality(FreshUpTo(d, prev, j))
<1> DEFINE A == FreshUpTo(d, prev, i)
           B == FreshUpTo(d, prev, j)
<1>1. A \subseteq B /\ j \in B /\ j \notin A
  BY DEF FreshUpTo
<1>2. IsFiniteSet(B)
  BY FreshFacts
<1>3. A # B
  BY <1>1
<1> QED
  BY <1>1, <1>2, <1>3, FS_Subset, FS_CardinalityType

--------------------------------------------------------------------------------
(* Lemmas about the highest number. *)

LEMMA HighestFacts ==
    ASSUME NEW S \in SUBSET Nat, S # {}, NEW b \in Nat, \A x \in S : x <= b
    PROVE  IsMaxOf(Highest(S), S)
<1> DEFINE U == {u \in Nat : \A x \in S : x <= u}
<1>1. PICK u \in U : \A v \in U : ~(v < u)
  <2>1. U \subseteq Nat /\ U # {}
    OBVIOUS
  <2>2. \E u \in U : \A v \in U : <<v, u>> \notin OpToRel(<, Nat)
    BY <2>1, NatLessThanWellFounded, WFMin
  <2> QED
    BY <2>2 DEF OpToRel
<1>2. u \in S
  <2> SUFFICES ASSUME u \notin S PROVE FALSE
    OBVIOUS
  <2>1. \A x \in S : x <= u - 1 /\ u - 1 \in Nat
    OBVIOUS
  <2>2. u - 1 \in U
    BY <2>1
  <2> QED
    BY <1>1, <2>2
<1>3. \E m \in S : IsMaxOf(m, S)
  BY <1>1, <1>2 DEF IsMaxOf
<1> QED
  BY <1>3, Zenon DEF Highest

(* What set_indices and _get_enum_indices start from. *)
AtMost(prev, b) == \A n \in Names : prev[n] <= b

LEMMA BaseFacts ==
    ASSUME NEW d \in Declarations, NEW prev \in Numbering, NEW b \in Nat,
           AtMost(prev, b)
    PROVE  /\ Base(d, prev) \in 0 .. b
           /\ \A n \in Kept(d, prev) : prev[n] <= Base(d, prev)
<1> DEFINE X == IF kind = "message" THEN Kept(d, prev) ELSE Names
           S == {prev[n] : n \in X}
<1>1. CASE Kept(d, prev) = {}
  BY <1>1 DEF Base
<1>2. CASE Kept(d, prev) # {}
  <2>1. Kept(d, prev) \subseteq X /\ X \subseteq Names
    BY DeclaredNames DEF Kept
  <2>2. S \in SUBSET Nat /\ S # {} /\ \A x \in S : x <= b
    BY <1>2, <2>1 DEF AtMost, Numbering
  <2>3. IsMaxOf(Highest(S), S)
    BY <2>2, HighestFacts
  <2>4. Base(d, prev) = Highest(S)
    BY <1>2 DEF Base
  <2> QED
    BY <2>1, <2>2, <2>3, <2>4 DEF IsMaxOf
<1> QED
  BY <1>1, <1>2

--------------------------------------------------------------------------------
(* One numbering. *)

Distinct(f) == \A m, n \in Names : m # n /\ f[m] > 0 => f[m] # f[n]

(* A new name is numbered above the base. *)
LEMMA FreshNumber ==
    ASSUME NEW d \in Declarations, NEW prev \in Numbering, NEW b \in Nat,
           AtMost(prev, b), NEW n \in ToSet(d), n \notin Kept(d, prev)
    PROVE  /\ NumberOf(d, prev, n) =
                  Base(d, prev) + Cardinality(FreshUpTo(d, prev, PositionOf(d, n)))
           /\ NumberOf(d, prev, n) \in (Base(d, prev) + 1) .. (b + Len(d))
<1> DEFINE i == PositionOf(d, n)
<1>1. i \in 1 .. Len(d) /\ d[i] = n /\ Len(d) \in Nat
  BY PositionFacts, DeclarationFacts
<1>2. Cardinality(FreshUpTo(d, prev, 0)) < Cardinality(FreshUpTo(d, prev, i))
  BY <1>1, FreshGrows
<1>3. /\ Cardinality(FreshUpTo(d, prev, 0)) \in 0 .. 0
      /\ Cardinality(FreshUpTo(d, prev, i)) \in 0 .. i
  BY <1>1, FreshFacts
<1>4. Base(d, prev) \in 0 .. b
  BY BaseFacts
<1>5. NumberOf(d, prev, n) = Base(d, prev) + Cardinality(FreshUpTo(d, prev, i))
  BY DEF NumberOf
<1> QED
  BY <1>1, <1>2, <1>3, <1>4, <1>5

(* The numbers of one generation: positive exactly for the declared names,    *)
(* bounded, kept where the old file had them, and distinct.                   *)
LEMMA NumberingFacts ==
    ASSUME NEW d \in Declarations, NEW prev \in Numbering, NEW b \in Nat,
           AtMost(prev, b), Distinct(prev)
    PROVE  LET f == [n \in Names |-> NumberOf(d, prev, n)] IN
           /\ f \in Numbering
           /\ AtMost(f, b + Len(d))
           /\ {n \in Names : f[n] > 0} = ToSet(d)
           /\ \A n \in Kept(d, prev) : f[n] = prev[n]
           /\ Distinct(f)
<1> DEFINE f == [n \in Names |-> NumberOf(d, prev, n)]
<1> USE DeclaredNames
<1>1. ASSUME NEW n \in Names, n \notin ToSet(d) PROVE f[n] = 0
  BY <1>1 DEF NumberOf
<1>2. ASSUME NEW n \in Kept(d, prev)
      PROVE  f[n] = prev[n] /\ f[n] \in 1 .. b /\ f[n] <= Base(d, prev)
  <2>1. n \in ToSet(d) /\ n \in Names /\ prev[n] > 0
    BY <1>2 DEF Kept
  <2> QED
    BY <2>1, BaseFacts DEF NumberOf, Numbering, AtMost
<1>3. ASSUME NEW n \in ToSet(d), n \notin Kept(d, prev)
      PROVE  f[n] \in (Base(d, prev) + 1) .. (b + Len(d))
  BY <1>3, FreshNumber
<1>4. Base(d, prev) \in 0 .. b /\ Len(d) \in Nat
  BY BaseFacts, DeclarationFacts
<1>5. ASSUME NEW n \in Names
      PROVE  /\ f[n] \in 0 .. (b + Len(d))
             /\ f[n] > 0 <=> n \in ToSet(d)
  <2>1. CASE n \notin ToSet(d)
    BY <1>1, <1>4, <2>1
  <2>2. CASE n \in Kept(d, prev)
    <3>1. f[n] \in 1 .. b /\ n \in ToSet(d)
      BY <1>2, <2>2 DEF Kept
    <3> HIDE DEF f
    <3> QED
      BY <1>4, <3>1
  <2>3. CASE n \in ToSet(d) /\ n \notin Kept(d, prev)
    <3>1. f[n] \in (Base(d, prev) + 1) .. (b + Len(d))
      BY <1>3, <2>3
    <3> HIDE DEF f
    <3> QED
      BY <1>4, <2>3, <3>1
  <2> QED
    BY <2>1, <2>2, <2>3
<1>6. /\ f \in Numbering /\ AtMost(f, b + Len(d))
      /\ {n \in Names : f[n] > 0} = ToSet(d)
  <2> HIDE DEF f
  <2>1. f = [n \in Names |-> f[n]]
    BY DEF f
  <2> QED
    BY <1>4, <1>5, <2>1 DEF Numbering, AtMost
<1>7. ASSUME NEW m \in Names, NEW n \in Names, m # n, f[m] > 0 PROVE f[m] # f[n]
  <2>1. m \in ToSet(d)
    BY <1>1, <1>7
  <2>2. CASE n \notin ToSet(d)
    BY <1>1, <1>7, <2>2
  <2>3. CASE m \in Kept(d, prev) /\ n \in Kept(d, prev)
    BY <1>2, <1>7, <2>3 DEF Distinct
  <2>4. CASE m \in Kept(d, prev) /\ n \in ToSet(d) /\ n \notin Kept(d, prev)
    <3>1. f[m] <= Base(d, prev) /\ f[m] \in 1 .. b
      BY <1>2, <2>4
    <3>2. f[n] \in (Base(d, prev) + 1) .. (b + Len(d))
      BY <1>3, <2>4
    <3> HIDE DEF f
    <3> QED
      BY <1>4, <3>1, <3>2
  <2>5. CASE m \notin Kept(d, prev) /\ n \in Kept(d, prev)
    <3>1. f[n] <= Base(d, prev) /\ f[n] \in 1 .. b
      BY <1>2, <2>5
    <3>2. f[m] \in (Base(d, prev) + 1) .. (b + Len(d))
      BY <1>3, <2>1, <2>5
    <3> HIDE DEF f
    <3> QED
      BY <1>4, <3>1, <3>2
  <2>6. CASE m \notin Kept(d, prev) /\ n \in ToSet(d) /\ n \notin Kept(d, prev)
    <3> DEFINE i == PositionOf(d, m)
               j == PositionOf(d, n)
    <3>1. /\ i \in 1 .. Len(d) /\ d[i] = m
          /\ j \in 1 .. Len(d) /\ d[j] = n
      BY <2>1, <2>6, PositionFacts
    <3>2. i < j \/ j < i
      BY <1>4, <1>7, <3>1
    <3>3. Cardinality(FreshUpTo(d, prev, i)) # Cardinality(FreshUpTo(d, prev, j))
      BY <1>4, <2>6, <3>1, <3>2, FreshGrows, FreshFacts
    <3>4. /\ f[m] = Base(d, prev) + Cardinality(FreshUpTo(d, prev, i))
          /\ f[n] = Base(d, prev) + Cardinality(FreshUpTo(d, prev, j))
      BY <2>1, <2>6, FreshNumber
    <3> QED
      BY <1>4, <3>1, <3>3, <3>4, FreshFacts
  <2> QED
    BY <2>1, <2>2, <2>3, <2>4, <2>5, <2>6
<1> QED
  BY <1>2, <1>6, <1>7 DEF Distinct

--------------------------------------------------------------------------------
(* The inductive invariant: the file is bounded and its numbers are distinct. *)
(* The bound is existential, since every generation may raise it.             *)

IInv ==
    /\ TypeOK
    /\ NumbersDistinct
    /\ \E b \in Nat : AtMost(file, b)

LEMMA EmptyFile ==
    /\ Unnumbered \in Numbering
    /\ Distinct(Unnumbered)
    /\ \A b \in Nat : AtMost(Unnumbered, b)
BY DEF Unnumbered, Numbering, Distinct, AtMost

LEMMA InitIInv == Init => IInv
<1> SUFFICES ASSUME Init PROVE IInv
  OBVIOUS
<1>1. NumbersDistinct /\ AtMost(file, 0)
  BY EmptyFile DEF Init, NumbersDistinct, Distinct
<1>2. file \in Numbering /\ generations \in 0 .. MaxGenerations
  BY EmptyFile, GenerationsAssumption DEF Init
<1>3. TypeOK
  BY <1>2 DEF Init, TypeOK
<1> QED
  BY <1>1, <1>3 DEF IInv

(* What a generation finds of the old file is a numbering like any other. *)
LEMMA PreviousFacts ==
    ASSUME IInv, NEW override \in BOOLEAN
    PROVE  /\ Previous(override) \in Numbering
           /\ Distinct(Previous(override))
           /\ \E b \in Nat : AtMost(Previous(override), b)
<1>1. Previous(override) \in {Unnumbered, file}
  BY DEF Previous
<1> QED
  BY <1>1, EmptyFile DEF IInv, TypeOK, NumbersDistinct, Distinct

(* What a generation writes: the declared names, all numbered, kept names     *)
(* with the number they had.                                                  *)
LEMMA GeneratedFacts ==
    ASSUME IInv, NEW override \in BOOLEAN
    PROVE  LET f == Generated(override) IN
           /\ f \in Numbering
           /\ Distinct(f)
           /\ \E b \in Nat : AtMost(f, b)
           /\ {n \in Names : f[n] > 0} = ToSet(declared)
           /\ \A n \in Kept(declared, Previous(override)) :
                 f[n] = Previous(override)[n]
<1>1. PICK b \in Nat : AtMost(Previous(override), b)
  BY PreviousFacts
<1>2. declared \in Declarations /\ b + Len(declared) \in Nat
  BY DeclarationFacts DEF IInv, TypeOK
<1> QED
  BY <1>1, <1>2, PreviousFacts, NumberingFacts DEF Generated

LEMMA StepIInv == IInv /\ [Next]_vars => IInv'
<1> SUFFICES ASSUME IInv, [Next]_vars PROVE IInv'
  OBVIOUS
<1> USE DEF IInv
<1>1. ASSUME NEW d \in Declarations, Edit(d) PROVE IInv'
  BY <1>1 DEF Edit, TypeOK, NumbersDistinct, AtMost
<1>2. ASSUME NEW override \in BOOLEAN, Generate(override) PROVE IInv'
  <2> HIDE DEF IInv
  <2>1. /\ file' \in Numbering /\ Distinct(file')
        /\ \E b \in Nat : AtMost(file', b)
        /\ {n \in Names : file'[n] > 0} = ToSet(declared')
    BY <1>2, GeneratedFacts DEF Generate
  <2>2. TypeOK'
    <3>1. generations' \in 0 .. MaxGenerations
      BY <1>2, GenerationsAssumption DEF Generate, IInv, TypeOK
    <3> QED
      BY <1>2, <2>1, <3>1 DEF Generate, IInv, TypeOK
  <2>3. NumbersDistinct'
    BY <2>1 DEF NumbersDistinct, Distinct
  <2>4. (\E b \in Nat : AtMost(file, b))'
    BY <2>1 DEF AtMost
  <2> QED
    BY <2>2, <2>3, <2>4 DEF IInv
<1>3. CASE Check
  BY <1>3 DEF Check, TypeOK, NumbersDistinct, AtMost
<1>4. CASE UNCHANGED vars
  BY <1>4 DEF vars, TypeOK, NumbersDistinct, AtMost
<1> QED
  BY <1>1, <1>2, <1>3, <1>4 DEF Next

LEMMA Inductive == Spec => []IInv
BY InitIInv, StepIInv, PTL DEF Spec

--------------------------------------------------------------------------------
(* The file always numbers exactly the names it was generated from. *)
THEOREM Typed == Spec => []TypeOK
<1>1. IInv => TypeOK
  BY DEF IInv
<1> QED
  BY <1>1, Inductive, PTL

(* No edit or sequence of generations, with or without the override, writes  *)
(* a file that gives one number to two names.                                 *)
THEOREM Distinctness == Spec => []NumbersDistinct
<1>1. IInv => NumbersDistinct
  BY DEF IInv
<1> QED
  BY <1>1, Inductive, PTL

(* A name present before and after a generation keeps its number, unless the *)
(* override was asked for or the enum is not wrapped.                         *)
THEOREM Stability == Spec => NumbersKept
<1>1. ASSUME IInv, [Next]_vars
      PROVE  [Regenerates /\ kind # "bare" => KeepsNumbers]_vars
  <2> SUFFICES ASSUME Regenerates, kind # "bare", NEW n \in Names,
                      file[n] > 0, file'[n] > 0
               PROVE  file'[n] = file[n]
    BY DEF KeepsNumbers
  <2>1. Previous(FALSE) = file /\ file' = Generated(FALSE)
    BY DEF Regenerates, Previous
  <2>2. n \in ToSet(declared)
    BY <1>1, <2>1, GeneratedFacts
  <2>3. n \in Kept(declared, file)
    BY <2>2 DEF Kept
  <2> QED
    BY <1>1, <2>1, <2>3, GeneratedFacts
<1> QED
  BY <1>1, Inductive, PTL DEF Spec, NumbersKept

--------------------------------------------------------------------------------
(* What --check reports. While the code is as it was at the last generation,   *)
(* generating again writes the same file: every name is kept, with the number  *)
(* it has, or, for a bare enum, nothing is kept either time.                   *)
Unedited == ~edited => onDisk /\ Generated(FALSE) = file

CheckInv == IInv /\ CheckIsSound /\ Unedited

LEMMA Idempotent ==
    ASSUME IInv, NEW override \in BOOLEAN, Generate(override)
    PROVE  Generated(FALSE)' = file'
<1>1. /\ file' = Generated(override) /\ onDisk' = TRUE /\ kind' = kind
      /\ declared' = declared /\ declared \in Declarations
  BY DEF Generate, IInv, TypeOK
<1>2. CASE kind = "bare"
  <2>1. Previous(override) = Unnumbered /\ Previous(FALSE)' = Unnumbered
    BY <1>1, <1>2 DEF Previous, Unnumbered
  <2>2. \A n \in Names : NumberOf(declared, Unnumbered, n)' = NumberOf(declared, Unnumbered, n)
    BY <1>1 DEF NumberOf, Base, Kept, FreshUpTo, PositionOf, Unnumbered
  <2> QED
    BY <1>1, <2>1, <2>2 DEF Generated
<1>3. CASE kind # "bare"
  <2>1. Previous(FALSE)' = file'
    BY <1>1, <1>3 DEF Previous
  <2>2. file' \in Numbering /\ {n \in Names : file'[n] > 0} = ToSet(declared)
    BY <1>1, GeneratedFacts
  <2>3. ASSUME NEW n \in Names PROVE NumberOf(declared, file, n)' = file'[n]
    BY <1>1, <2>2 DEF NumberOf, Kept, Numbering
  <2>4. Generated(FALSE)' = [n \in Names |-> NumberOf(declared, file, n)']
    BY <2>1 DEF Generated
  <2> QED
    BY <2>2, <2>3, <2>4 DEF Numbering
<1> QED
  BY <1>2, <1>3

LEMMA InitCheck == Init => CheckInv
BY InitIInv DEF Init, CheckInv, CheckIsSound, Unedited

LEMMA StepCheck == CheckInv /\ [Next]_vars => CheckInv'
<1> SUFFICES ASSUME CheckInv, [Next]_vars PROVE CheckInv'
  OBVIOUS
<1>1. IInv'
  BY StepIInv DEF CheckInv
<1>2. ASSUME NEW d \in Declarations, Edit(d) PROVE CheckInv'
  BY <1>1, <1>2 DEF Edit, CheckInv, CheckIsSound, Unedited
<1>3. ASSUME NEW override \in BOOLEAN, Generate(override) PROVE CheckInv'
  <2>1. Generated(FALSE)' = file'
    BY <1>3, Idempotent DEF CheckInv
  <2> QED
    BY <1>1, <1>3, <2>1 DEF Generate, CheckInv, CheckIsSound, Unedited
<1>4. CASE Check
  <2>1. Generated(FALSE)' = Generated(FALSE)
    BY <1>4 DEF Check, Generated, Previous, NumberOf, Base, Kept, FreshUpTo, PositionOf
  <2>2. Unedited'
    BY <1>4, <2>1 DEF Check, CheckInv, Unedited
  <2>3. Agrees => {n \in Names : file[n] > 0} = ToSet(declared)
    BY GeneratedFacts DEF CheckInv, Agrees
  <2>4. CheckIsSound'
    BY <1>4, <2>3 DEF Check, CheckInv, CheckIsSound, Unedited, Agrees
  <2> QED
    BY <1>1, <2>2, <2>4 DEF CheckInv
<1>5. CASE UNCHANGED vars
  <2>1. Generated(FALSE)' = Generated(FALSE)
    BY <1>5 DEF vars, Generated, Previous, NumberOf, Base, Kept, FreshUpTo, PositionOf
  <2> QED
    BY <1>1, <1>5, <2>1 DEF vars, CheckInv, CheckIsSound, Unedited
<1> QED
  BY <1>2, <1>3, <1>4, <1>5 DEF Next

(* generateproto --check reports success right after a generation, whatever    *)
(* its options and history, and never passes a file that does not hold exactly *)
(* the names of the code.                                                      *)
THEOREM CheckSound == Spec => []CheckIsSound
<1>1. CheckInv => CheckIsSound
  BY DEF CheckInv
<1> QED
  BY <1>1, InitCheck, StepCheck, PTL DEF Spec

--------------------------------------------------------------------------------
(* New members of a wrapped enum count on from the highest number of the old  *)
(* enum, as long as one of its members is still there.                        *)
LEMMA WrappedBase ==
    ASSUME NEW d \in Declarations, NEW prev \in Numbering, NEW b \in Nat,
           AtMost(prev, b), kind = "wrapped", Kept(d, prev) # {}, NEW m \in Names
    PROVE  prev[m] <= Base(d, prev)
<1> DEFINE S == {prev[n] : n \in Names}
<1>1. S \in SUBSET Nat /\ S # {} /\ (\A x \in S : x <= b)
  BY DEF AtMost, Numbering
<1>2. IsMaxOf(Highest(S), S)
  BY <1>1, HighestFacts
<1>3. Base(d, prev) = Highest(S)
  BY DEF Base
<1> QED
  BY <1>2, <1>3 DEF IsMaxOf

(* In an enum of its own message, the number of a member that is gone never    *)
(* comes to denote a new one at the next generation, as long as another member *)
(* of the old enum is kept.                                                    *)
THEOREM EnumsNotRecycled == Spec => EnumNumbersNotRecycled
<1>1. ASSUME IInv, [Next]_vars
      PROVE  [Regenerates /\ kind = "wrapped" => ~Recycles]_vars
  <2> SUFFICES ASSUME Regenerates, kind = "wrapped",
                      NEW k \in Names, file[k] > 0, file'[k] > 0,
                      NEW m \in Names, NEW n \in Names,
                      file[m] > 0, file[n] = 0, file'[n] = file[m]
               PROVE  FALSE
    BY DEF Recycles
  <2>1. Previous(FALSE) = file /\ file' = Generated(FALSE)
    BY DEF Regenerates, Previous
  <2>2. /\ declared \in Declarations /\ file \in Numbering
        /\ {x \in Names : file'[x] > 0} = ToSet(declared)
    BY <1>1, <2>1, GeneratedFacts DEF IInv, TypeOK
  <2>3. PICK b \in Nat : AtMost(file, b)
    BY <1>1 DEF IInv
  <2>4. /\ k \in Kept(declared, file)
        /\ n \in ToSet(declared) /\ n \notin Kept(declared, file)
    BY <2>2 DEF Kept
  <2>5. file[m] <= Base(declared, file) /\ Base(declared, file) \in 0 .. b
    BY <2>2, <2>3, <2>4, WrappedBase, BaseFacts
  <2>6. NumberOf(declared, file, n) \in (Base(declared, file) + 1) .. (b + Len(declared))
    BY <2>2, <2>3, <2>4, FreshNumber
  <2>7. file'[n] = NumberOf(declared, file, n)
    BY <2>1 DEF Generated
  <2> QED
    BY <2>2, <2>5, <2>6, <2>7, DeclarationFacts DEF Numbering
<1> QED
  BY <1>1, Inductive, PTL DEF Spec, EnumNumbersNotRecycled

--------------------------------------------------------------------------------
(* What the loop of the code has after turn i, in closed form. *)
FreshCount(d, prev, i) == Cardinality(FreshUpTo(d, prev, i))
GivenUpTo(d, prev, i) ==
    [n \in Names |->
        IF n \in Kept(d, prev) THEN prev[n]
        ELSE IF \E j \in 1 .. i : d[j] = n THEN Base(d, prev) + FreshCount(d, prev, PositionOf(d, n))
        ELSE 0]
ClosedTurn(d, prev, i) == <<Base(d, prev) + FreshCount(d, prev, i), GivenUpTo(d, prev, i)>>

(* One turn of the loop, on curr_idx and the numbers given so far. *)
LoopTurn(d, i, t) ==
    IF t[2][d[i]] > 0 THEN t ELSE <<t[1] + 1, [t[2] EXCEPT ![d[i]] = t[1] + 1]>>

LEMMA FreshCounts ==
    ASSUME NEW d \in Declarations, NEW prev \in Numbering, NEW i \in 1 .. Len(d)
    PROVE  /\ FreshCount(d, prev, i - 1) \in Nat
           /\ FreshCount(d, prev, i) =
                 IF d[i] \in Kept(d, prev) THEN FreshCount(d, prev, i - 1)
                 ELSE FreshCount(d, prev, i - 1) + 1
<1>1. Len(d) \in Nat
  BY DeclarationFacts
<1>2. IsFiniteSet(FreshUpTo(d, prev, i - 1)) /\ FreshCount(d, prev, i - 1) \in Nat
  <2>1. i - 1 \in Nat
    BY <1>1
  <2>2. FreshCount(d, prev, i - 1) \in 0 .. i - 1
    BY <2>1, FreshFacts DEF FreshCount
  <2> QED
    BY <2>1, <2>2, FreshFacts
<1>3. CASE d[i] \in Kept(d, prev)
  <2>1. FreshUpTo(d, prev, i) = FreshUpTo(d, prev, i - 1)
    BY <1>1, <1>3 DEF FreshUpTo
  <2> QED
    BY <1>2, <1>3, <2>1 DEF FreshCount
<1>4. CASE d[i] \notin Kept(d, prev)
  <2>1. FreshUpTo(d, prev, i) = FreshUpTo(d, prev, i - 1) \cup {i}
    BY <1>1, <1>4 DEF FreshUpTo
  <2>2. i \notin FreshUpTo(d, prev, i - 1)
    BY <1>1 DEF FreshUpTo
  <2> QED
    BY <1>2, <1>4, <2>1, <2>2, FS_AddElement DEF FreshCount
<1> QED
  BY <1>3, <1>4

(* A turn of the loop takes the closed form of a turn to that of the next. *)
LEMMA ClosedTurns ==
    ASSUME NEW d \in Declarations, NEW prev \in Numbering, Base(d, prev) \in Nat,
           NEW i \in 1 .. Len(d)
    PROVE  ClosedTurn(d, prev, i) = LoopTurn(d, i, ClosedTurn(d, prev, i - 1))
<1> DEFINE before == GivenUpTo(d, prev, i - 1)
           after == GivenUpTo(d, prev, i)
<1>1. /\ Len(d) \in Nat /\ d[i] \in Names /\ d[i] \in ToSet(d)
      /\ \A j \in 1 .. Len(d) : d[j] = d[i] => j = i
  BY DeclarationFacts DEF ToSet
<1>2. ClosedTurn(d, prev, i - 1)[1] = Base(d, prev) + FreshCount(d, prev, i - 1)
      /\ ClosedTurn(d, prev, i - 1)[2] = before
  BY DEF ClosedTurn
<1>3. \A n \in Names : n # d[i] => after[n] = before[n]
  <2>1. \A n \in Names : n # d[i] =>
           ((\E j \in 1 .. i : d[j] = n) <=> (\E j \in 1 .. i - 1 : d[j] = n))
    BY <1>1
  <2> QED
    BY <2>1 DEF GivenUpTo
<1>4. CASE d[i] \in Kept(d, prev)
  <2>1. before[d[i]] = prev[d[i]] /\ after[d[i]] = prev[d[i]] /\ prev[d[i]] > 0
    BY <1>1, <1>4 DEF GivenUpTo, Kept
  <2>2. after = before
    BY <1>3, <2>1 DEF GivenUpTo
  <2>3. FreshCount(d, prev, i) = FreshCount(d, prev, i - 1)
    BY <1>4, FreshCounts
  <2> HIDE DEF before, after
  <2>4. LoopTurn(d, i, ClosedTurn(d, prev, i - 1)) = ClosedTurn(d, prev, i - 1)
    BY <1>2, <2>1 DEF LoopTurn
  <2> QED
    BY <2>2, <2>3, <2>4 DEF ClosedTurn, before, after
<1>5. CASE d[i] \notin Kept(d, prev)
  <2>1. before[d[i]] = 0
    BY <1>1, <1>5 DEF GivenUpTo
  <2>2. PositionOf(d, d[i]) = i
    BY <1>1, PositionFacts
  <2>3. after[d[i]] = Base(d, prev) + FreshCount(d, prev, i)
    BY <1>1, <1>5, <2>2 DEF GivenUpTo
  <2>4. FreshCount(d, prev, i) = FreshCount(d, prev, i - 1) + 1 /\ FreshCount(d, prev, i - 1) \in Nat
    BY <1>5, FreshCounts
  <2>5. after = [before EXCEPT ![d[i]] = Base(d, prev) + FreshCount(d, prev, i - 1) + 1]
    <3>1. before = [n \in Names |-> before[n]] /\ after = [n \in Names |-> after[n]]
      BY DEF GivenUpTo
    <3>2. after[d[i]] = Base(d, prev) + FreshCount(d, prev, i - 1) + 1
      BY <2>3, <2>4
    <3> HIDE DEF before, after
    <3> QED
      BY <1>1, <1>3, <3>1, <3>2
  <2> HIDE DEF before, after
  <2>6. LoopTurn(d, i, ClosedTurn(d, prev, i - 1)) =
           <<Base(d, prev) + FreshCount(d, prev, i - 1) + 1, after>>
    <3>1. ~(ClosedTurn(d, prev, i - 1)[2][d[i]] > 0)
      BY <1>2, <2>1
    <3> QED
      BY <1>2, <2>5, <3>1, Zenon DEF LoopTurn
  <2> QED
    BY <2>4, <2>6 DEF ClosedTurn, after
<1> QED
  BY <1>4, <1>5

LEMMA LoopIsClosed ==
    ASSUME NEW d \in Declarations, NEW prev \in Numbering, Base(d, prev) \in Nat
    PROVE  LoopNumbering(d, prev) = [n \in Names |-> NumberOf(d, prev, n)]
<1> DEFINE N == Len(d)
           kept == [n \in Names |-> IF n \in Kept(d, prev) THEN prev[n] ELSE 0]
           Loop(f) == f = [i \in 0 .. N |-> IF i = 0 THEN <<Base(d, prev), kept>>
                                            ELSE LoopTurn(d, i, f[i - 1])]
           turn == CHOOSE f : Loop(f)
           closed == [i \in 0 .. N |-> ClosedTurn(d, prev, i)]
<1>1. N \in Nat
  BY DeclarationFacts
<1>2. closed[0] = <<Base(d, prev), kept>>
  <2>1. FreshUpTo(d, prev, 0) = {}
    BY DEF FreshUpTo
  <2>2. FreshCount(d, prev, 0) = 0
    BY <2>1, FS_EmptySet DEF FreshCount
  <2>3. GivenUpTo(d, prev, 0) = kept
    BY DEF GivenUpTo
  <2>4. closed[0] = ClosedTurn(d, prev, 0)
    BY <1>1
  <2> HIDE DEF kept, closed
  <2> QED
    BY <2>2, <2>3, <2>4 DEF ClosedTurn
<1>3. \A i \in 1 .. N : closed[i] = LoopTurn(d, i, closed[i - 1])
  <2>1. \A i \in 1 .. N : closed[i] = ClosedTurn(d, prev, i)
                          /\ closed[i - 1] = ClosedTurn(d, prev, i - 1)
    BY <1>1
  <2> HIDE DEF closed
  <2> QED
    BY <2>1, ClosedTurns
<1>4. Loop(closed)
  <2>1. DOMAIN closed = 0 .. N /\ closed = [i \in 0 .. N |-> closed[i]]
    OBVIOUS
  <2>2. \A i \in 0 .. N : closed[i] = IF i = 0 THEN <<Base(d, prev), kept>>
                                      ELSE LoopTurn(d, i, closed[i - 1])
    <3> TAKE i \in 0 .. N
    <3> HIDE DEF closed, kept
    <3>1. i = 0 \/ i \in 1 .. N
      BY <1>1
    <3> QED
      BY <1>2, <1>3, <3>1
  <2> HIDE DEF closed, kept
  <2> QED
    BY <2>1, <2>2, Zenon
<1>5. Loop(turn)
  <2> HIDE DEF Loop, closed
  <2> QED
    BY <1>4
<1>6. turn[0] = closed[0] /\ \A i \in 1 .. N : turn[i] = LoopTurn(d, i, turn[i - 1])
  <2>1. \A i \in 0 .. N : turn[i] = IF i = 0 THEN <<Base(d, prev), kept>>
                                    ELSE LoopTurn(d, i, turn[i - 1])
    <3> HIDE DEF turn, kept
    <3> QED
      BY <1>5, Zenon
  <2>2. 0 \in 0 .. N /\ \A i \in 1 .. N : i \in 0 .. N /\ i # 0
    BY <1>1
  <2> HIDE DEF turn, closed, kept
  <2> QED
    BY <1>2, <2>1, <2>2, Zenon
<1>7. turn[N] = closed[N]
  <2> DEFINE T == {i \in 0 .. N : turn[i] = closed[i]}
  <2> HIDE DEF turn, closed
  <2>1. 0 \in T
    BY <1>1, <1>6
  <2>2. \A i \in 1 .. N : i - 1 \in T => i \in T
    BY <1>3, <1>6
  <2> HIDE DEF T
  <2>3. \A i \in 0 .. N : i \in T
    BY <1>1, <2>1, <2>2, InductionUpTo
  <2> QED
    BY <1>1, <2>3 DEF T
<1>8. GivenUpTo(d, prev, N) = [n \in Names |-> NumberOf(d, prev, n)]
  <2>1. \A n \in Names : n \in ToSet(d) <=> \E j \in 1 .. N : d[j] = n
    BY DeclarationFacts DEF ToSet
  <2>2. \A n \in Kept(d, prev) : n \in ToSet(d)
    BY DEF Kept
  <2> QED
    BY <2>1, <2>2 DEF GivenUpTo, NumberOf, FreshCount
<1>9. LoopNumbering(d, prev) = turn[N][2]
  BY DEF LoopNumbering, LoopTurn
<1>10. closed[N][2] = GivenUpTo(d, prev, N)
  BY <1>1 DEF ClosedTurn
<1> HIDE DEF turn, closed
<1> QED
  BY <1>7, <1>8, <1>9, <1>10

(* set_indices, _get_enum_indices: the closed form the other theorems are      *)
(* about is what the loop of the code computes, for any names, any declaration *)
(* and any old file that edits and generations lead to.                        *)
THEOREM LoopAgrees == Spec => []ClosedFormIsLoop
<1>1. IInv => ClosedFormIsLoop
  <2> SUFFICES ASSUME IInv, NEW override \in BOOLEAN
               PROVE  Generated(override) = LoopNumbering(declared, Previous(override))
    BY DEF ClosedFormIsLoop
  <2>1. declared \in Declarations
    BY DEF IInv, TypeOK
  <2>2. PICK b \in Nat : AtMost(Previous(override), b)
    BY PreviousFacts
  <2>3. Previous(override) \in Numbering
    BY PreviousFacts
  <2>4. Base(declared, Previous(override)) \in Nat
    BY <2>1, <2>2, <2>3, BaseFacts
  <2> QED
    BY <2>1, <2>3, <2>4, LoopIsClosed DEF Generated
<1> QED
  BY <1>1, Inductive, PTL
================================================================================
