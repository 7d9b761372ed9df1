---------------------------- MODULE FieldNumbering ----------------------------
(* The numbers generateproto gives to the fields of a message, or the members *)
(* of an enum, across successive edits of the code and generations of the     *)
(* same proto file.                                                           *)
(*                                                                            *)
(* A name is paired with its number in the file, 0 when the file does not     *)
(* have it. Three kinds of declaration are numbered, each by the code that    *)
(* numbers it:                                                                *)
(*   message - ProtoMessage.set_indices, from the fields of the old message;  *)
(*   wrapped - an enum in a top-level message of its own, the default plugin: *)
(*             _get_enum_indices, from the members of the old enum;           *)
(*   bare    - an enum that is not wrapped, or that lives in a message:       *)
(*             _generate_enum_and_indices does not find it among the top-level *)
(*             messages of the old file, so there is nothing to keep.         *)
EXTENDS Naturals, Sequences, FiniteSets, SequencesExt

CONSTANTS Names,           \* names of fields and members
          MaxGenerations   \* bound on the number of files written

ASSUME NamesAssumption == IsFiniteSet(Names)
ASSUME GenerationsAssumption == MaxGenerations \in Nat

Kinds == {"message", "wrapped", "bare"}
Numbering == [Names -> Nat]
Unnumbered == [n \in Names |-> 0]

VARIABLES kind,         \* what is declared, the same in every state
          declared,     \* the names in the code, in order
          file,         \* the numbers in the proto file
          onDisk,       \* the proto file exists
          verdict,      \* what the last --check reported
          edited,       \* the code changed since the file was written
          generations   \* number of files written so far

vars == <<kind, declared, file, onDisk, verdict, edited, generations>>

Declarations == {d \in SeqOf(Names, Cardinality(Names)) : IsInjective(d)}

--------------------------------------------------------------------------------
(* Numbering. *)

(* The declared names the old file already numbers. *)
Kept(d, prev) == {n \in ToSet(d) : prev[n] > 0}

IsMaxOf(m, S) == m \in S /\ \A x \in S : x <= m
Highest(S) == CHOOSE m \in S : IsMaxOf(m, S)

\* Mutant: new names are numbered from 1 whatever is kept.
Base_zero(d, prev) == 0

\* Mutant: enums forget, as messages do, the numbers of removed members.
Base_forgetful(d, prev) ==
    IF Kept(d, prev) = {} THEN 0 ELSE Highest({prev[n] : n \in Kept(d, prev)})

(* curr_idx before new names are numbered. It starts again from 0 when no     *)
(* name is kept; else messages take the highest number kept, enums the highest *)
(* number of the old file.                                                    *)
Base(d, prev) ==
    IF Kept(d, prev) = {} THEN 0
    ELSE Highest({prev[n] : n \in IF kind = "message" THEN Kept(d, prev) ELSE Names})

\* Mutant: the count is read before it is incremented.
FreshUpTo_before(d, prev, i) == {j \in 1 .. i : j # i /\ d[j] \notin Kept(d, prev)}

(* The new names of d up to position i. *)
FreshUpTo(d, prev, i) == {j \in 1 .. i : d[j] \notin Kept(d, prev)}

PositionOf(d, n) == CHOOSE i \in 1 .. Len(d) : d[i] = n

\* Mutant: numbers follow the declaration order, so they move with it.
NumberOf_position(d, prev, n) == IF n \in ToSet(d) THEN PositionOf(d, n) ELSE 0

(* set_indices and _get_enum_indices: kept names keep their number, the       *)
(* others count on from the base in declaration order.                        *)
NumberOf(d, prev, n) ==
    IF n \notin ToSet(d) THEN 0
    ELSE IF n \in Kept(d, prev) THEN prev[n]
    ELSE Base(d, prev) + Cardinality(FreshUpTo(d, prev, PositionOf(d, n)))

(* The same as the code has it, "for field in self.fields: if not field.index: *)
(* curr_idx += 1 ...": a turn has curr_idx and the numbers given so far.       *)
LoopNumbering(d, prev) ==
    LET kept == [n \in Names |-> IF n \in Kept(d, prev) THEN prev[n] ELSE 0]
        turn[i \in 0 .. Len(d)] ==
            IF i = 0 THEN <<Base(d, prev), kept>>
            ELSE IF turn[i - 1][2][d[i]] > 0 THEN turn[i - 1]
            ELSE <<turn[i - 1][1] + 1, [turn[i - 1][2] EXCEPT ![d[i]] = turn[i - 1][1] + 1]>>
    IN  turn[Len(d)][2]

(* What the generator finds of the old file. *)
Previous(override) ==
    IF override \/ ~onDisk \/ kind = "bare" THEN Unnumbered ELSE file

Generated(override) == [n \in Names |-> NumberOf(declared, Previous(override), n)]

--------------------------------------------------------------------------------
Init ==
    /\ kind \in Kinds
    /\ declared \in Declarations
    /\ file = Unnumbered
    /\ onDisk = FALSE
    /\ verdict = "none"
    /\ edited = TRUE
    /\ generations = 0

(* A developer adds, removes, renames or reorders. *)
Edit(d) ==
    /\ generations < MaxGenerations
    /\ d # declared
    /\ declared' = d
    /\ edited' = TRUE
    /\ verdict' = "none"
    /\ UNCHANGED <<kind, file, onDisk, generations>>

(* generateproto, with or without --override-fields-number. *)
Generate(override) ==
    /\ generations < MaxGenerations
    /\ file' = Generated(override)
    /\ onDisk' = TRUE
    /\ edited' = FALSE
    /\ verdict' = "none"
    /\ generations' = generations + 1
    /\ UNCHANGED <<kind, declared>>

\* Mutant: --check counts the names instead of comparing the files.
Agrees_size == Cardinality({n \in Names : file[n] > 0}) = Len(declared)

(* generateproto --check compares what it would write with the file. *)
Agrees == Generated(FALSE) = file

Check ==
    /\ verdict = "none"
    /\ verdict' = IF onDisk /\ Agrees THEN "success" ELSE "fail"
    /\ UNCHANGED <<kind, declared, file, onDisk, edited, generations>>

Next ==
    \/ \E d \in Declarations : Edit(d)
    \/ \E override \in BOOLEAN : Generate(override)
    \/ Check

Spec == Init /\ [][Next]_vars

--------------------------------------------------------------------------------
TypeOK ==
    /\ kind \in Kinds
    /\ declared \in Declarations
    /\ file \in Numbering
    /\ onDisk \in BOOLEAN /\ edited \in BOOLEAN
    /\ verdict \in {"none", "success", "fail"}
    /\ generations \in 0 .. MaxGenerations
    /\ ~edited => {n \in Names : file[n] > 0} = ToSet(declared)

(* protoc accepts the file: no number is given twice in a message or an enum, *)
(* whatever mixture of kept and new names the generator met.                  *)
NumbersDistinct ==
    \A m, n \in Names : m # n /\ file[m] > 0 => file[m] # file[n]

(* generateproto --check: right after a generation, with any option, it       *)
(* reports success; a file that disagrees with the code never passes.         *)
CheckIsSound ==
    /\ verdict = "fail" => edited
    /\ verdict = "success" => {n \in Names : file[n] > 0} = ToSet(declared)

Regenerates == file' = Generated(FALSE) /\ onDisk

(* set_indices, _get_enum_indices: the closed form the other properties are    *)
(* about is what the loop of the code computes, for every declaration and      *)
(* every old file.                                                             *)
ClosedFormIsLoop ==
    \A override \in BOOLEAN :
        Generated(override) = LoopNumbering(declared, Previous(override))

(* "indices is used to keep the same field number between two proto           *)
(* generation to avoid breaking changes": a name present before and after a   *)
(* generation that does not override keeps its number.                        *)
KeepsNumbers == \A n \in Names : file[n] > 0 /\ file'[n] > 0 => file'[n] = file[n]

NumbersKept == [][Regenerates /\ kind # "bare" => KeepsNumbers]_vars

(* "start at the current maximum indice when adding new fields to avoid       *)
(* conflicts": in one generation, a number of the old file is never given to  *)
(* a new name as long as one of the old names is still there.                 *)
Recycles ==
    /\ \E n \in Names : file[n] > 0 /\ file'[n] > 0
    /\ \E m, n \in Names : /\ file[m] > 0 /\ file'[m] = 0
                           /\ file[n] = 0 /\ file'[n] = file[m]

EnumNumbersNotRecycled == [][Regenerates /\ kind = "wrapped" => ~Recycles]_vars

(* The same for the fields of a message: the number of a field that is gone   *)
(* does not come to denote another one at the next generation.                *)
FieldNumbersNotRecycled == [][Regenerates /\ kind = "message" => ~Recycles]_vars
================================================================================
