------------------------------- MODULE Input -------------------------------
(***************************************************************************)
(* The string a search reads, as src/src/utils.c handles it: the slice     *)
(* that the arguments start and end select, and who owns the letters.      *)
(*                                                                         *)
(* A Python string is stored with one, two or four bytes per character, as *)
(* its widest character needs.  struct Input holds letters of four bytes:  *)
(* those of a four-byte string are read in place, under a reference to the *)
(* string, those of any other string are copied.  Strings are numbered in  *)
(* the order they are handed over, and the ledger has, for each, the       *)
(* copies made and the references taken that were not given back; below    *)
(* zero, something was given back that had not been taken.                 *)
(***************************************************************************)
EXTENDS Integers, Sequences, SequencesExt

CONSTANTS Wide,      \* the letters that take four bytes
          MaxSets    \* bound: the strings given to set(), after the first one

ASSUME InputAssumption == MaxSets \in Nat

Nothing == [copies |-> [k \in 0..MaxSets |-> 0], references |-> [k \in 0..MaxSets |-> 0]]

PyUnicode_4BYTE_KIND(text) == ToSet(text) \cap Wide # {}

\* pymod_get_string: the struct Input of the k-th string, and what it takes.
pymod_get_string(text, k) == [word |-> k, is_copy |-> ~PyUnicode_4BYTE_KIND(text)]

prepare_input(ledger, input) ==
    IF input.is_copy THEN [ledger EXCEPT !.copies[input.word] = @ + 1]
    ELSE [ledger EXCEPT !.references[input.word] = @ + 1]

destroy_input(ledger, input) ==
    IF input.is_copy THEN [ledger EXCEPT !.copies[input.word] = @ - 1]
    ELSE [ledger EXCEPT !.references[input.word] = @ - 1]

\* word and py_word are copied, is_copy is not.
assign_input(dst, src) == [dst EXCEPT !.word = src.word]

Py_INCREF(ledger, k) == [ledger EXCEPT !.references[k] = @ + 1]
Py_DECREF(ledger, k) == [ledger EXCEPT !.references[k] = @ - 1]

(***************************************************************************)
(* The ledger after set() has replaced the input `old' by `new'.           *)
(***************************************************************************)
Replaced_new_destroyed(ledger, old, new) ==                        \* mutant
    destroy_input(prepare_input(ledger, new), assign_input(old, new))

Replaced(ledger, old, new) == destroy_input(prepare_input(ledger, new), old)

(***************************************************************************)
(* pymod_parse_start_end with min = 0: the optional arguments start and    *)
(* end for a string of length max.                                         *)
(***************************************************************************)
IndexError == [exc |-> "IndexError"]
Bounds(start, end) == [exc |-> "none", start |-> start, end |-> end]

StartIndex_from_end(value, max) == IF value < 0 THEN max - 1 + value ELSE value \* mutant
StartIndex(value, max) == IF value < 0 THEN max + value ELSE value
EndIndex(value, max) == IF value < 0 THEN max - 1 + value ELSE value

pymod_parse_start_end(args, max) ==
    LET start == StartIndex(args[1], max)
        end == EndIndex(args[2], max)
    IN  IF Len(args) = 0 THEN Bounds(0, max)
        ELSE IF start < 0 \/ start >= max THEN IndexError
        ELSE IF Len(args) = 1 THEN Bounds(start, max)
        ELSE IF end < 0 \/ end > max THEN IndexError
        ELSE Bounds(start, end)

(***************************************************************************)
(* Reference: the bounds of string[start:end] in Python, which moves an    *)
(* index that is out of range to the nearest end of the string.            *)
(***************************************************************************)
Clamped(value, max) ==
    IF value < 0 THEN (IF max + value < 0 THEN 0 ELSE max + value)
    ELSE IF value > max THEN max ELSE value

PythonSlice(args, max) ==
    [start |-> IF Len(args) > 0 THEN Clamped(args[1], max) ELSE 0,
     end   |-> IF Len(args) > 1 THEN Clamped(args[2], max) ELSE max]

\* The arguments tried on a string of length max: none, one or two, past both ends.
Arguments(max) ==
    LET values == (-max - 2)..(max + 1) IN {<<>>} \cup {<<v>> : v \in values} \cup (values \X values)

\* The arguments are refused, or select what string[start:end] does.
SelectsAsPython(args, max) ==
    LET parsed == pymod_parse_start_end(args, max)
        python == PythonSlice(args, max)
    IN  parsed.exc = "none" => parsed.start = python.start /\ parsed.end = python.end

\* Not so if end is negative: max - 1 + end is one less than in Python.
NegativeEnd(args) == Len(args) = 2 /\ args[2] < 0

SelectsOneLess(args, max) ==
    LET parsed == pymod_parse_start_end(args, max)
        python == PythonSlice(args, max)
    IN  parsed.exc = "none" => parsed.start = python.start /\ parsed.end = python.end - 1
=============================================================================
