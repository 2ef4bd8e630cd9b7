----------------------------- MODULE Dictionary -----------------------------
(***************************************************************************)
(* What an Automaton promises as a container, whatever is inside it: a     *)
(* finite map from words to values ("can be used like a dict").  `ret' is  *)
(* what the last call that may change the automaton gave its caller: an    *)
(* exception, or a value (False and None are 0, True is 1).                *)
(***************************************************************************)
EXTENDS Integers, Functions

CONSTANTS Words,     \* the non-empty words that may be keys
          Values     \* the values that may be stored

VARIABLES dict, ret

vars == <<dict, ret>>

Result(op, v) == [op |-> op, exc |-> "none", val |-> v]
Raise(op, e)  == [op |-> op, exc |-> e, val |-> 0]

Empty == [w \in {} |-> 0]

Init == dict = Empty /\ ret = Result("new", 0)

\* The word gets some value; the other words keep theirs.
Add(w) ==
    /\ dict' \in [DOMAIN dict \cup {w} -> Values]
    /\ \A x \in DOMAIN dict \ {w} : dict'[x] = dict[x]
    /\ ret' = Result("add_word", IF w \in DOMAIN dict THEN 0 ELSE 1)

\* The empty word is accepted and ignored.
AddEmpty == UNCHANGED dict /\ ret' = Result("add_word", 0)

Delete(w) == w \in DOMAIN dict /\ dict' = Restrict(dict, DOMAIN dict \ {w})

RemoveWord(w) == Delete(w) /\ ret' = Result("remove_word", 1)
RemoveAbsent(w) ==
    w \notin DOMAIN dict /\ ret' = Result("remove_word", 0) /\ UNCHANGED dict

Pop(w) == Delete(w) /\ ret' = Result("pop", dict[w])
PopAbsent(w) == w \notin DOMAIN dict /\ ret' = Raise("pop", "KeyError") /\ UNCHANGED dict

Clear == dict' = Empty /\ ret' = Result("clear", 0)

\* make_automaton and get_stats are about the representation, not the map.
MakeAutomaton == UNCHANGED dict /\ ret' = Result("make_automaton", 0)
GetStats == UNCHANGED dict /\ ret'.op = "get_stats" /\ ret'.exc = "none"

\* A call that runs out of memory leaves the map as it was.
OutOfMemory ==
    /\ UNCHANGED dict
    /\ \E op \in {"add_word", "remove_word", "pop", "make_automaton"} :
            ret' = Raise(op, "MemoryError")

Next ==
    \/ \E w \in Words : Add(w) \/ RemoveWord(w) \/ Pop(w)
    \/ \E w \in Words \cup {<<>>} : RemoveAbsent(w) \/ PopAbsent(w)
    \/ AddEmpty \/ Clear \/ MakeAutomaton \/ GetStats \/ OutOfMemory

Spec == Init /\ [][Next]_vars
=============================================================================
