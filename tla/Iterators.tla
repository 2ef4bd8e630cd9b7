----------------------------- MODULE Iterators -----------------------------
(***************************************************************************)
(* An automaton with the code that keeps pointers into it across calls: a  *)
(* search iterator, an items iterator, and a find_all() whose callback may *)
(* call any method.  An iterator compares versions once, when next() is    *)
(* called; find_all() never does.  What the iterators yield is the subject *)
(* of SearchIter and ItemsIter; here it is whether they touch only nodes   *)
(* that still exist.                                                       *)
(***************************************************************************)
EXTENDS Automaton, Search

CONSTANTS Text,       \* the string searched
          MaxFrames   \* bound: how many of the iterators and find_all exist at once

ASSUME TextAssumption == Len(Text) \in Nat

VARIABLES search,     \* the search iterator, or NoIterator
          items,      \* the items iterator, or NoIterator
          find        \* the running find_all, or NoIterator

frames == <<search, items, find>>
iterVars == <<vars, frames>>

NoIterator == [version |-> -1]
Exists(it) == it # NoIterator
Valid(it) == Exists(it) /\ it.version = version

Room(it) == Exists(it) \/ Cardinality({f \in {1, 2, 3} : Exists(frames[f])}) < MaxFrames

root == IF HasRoot THEN Root ELSE NULL

InitIterators == Init /\ search = NoIterator /\ items = NoIterator /\ find = NoIterator

(***************************************************************************)
(* A step of the automaton.  The pointers the others keep to a node that   *)
(* it frees are FREED from now on.                                         *)
(***************************************************************************)
AutomatonStep ==
    /\ Next
    /\ LET freed == DOMAIN nodes \ DOMAIN nodes'
           Keep(it) == [it EXCEPT !.state = Dangle(@, freed), !.output = Dangle(@, freed)]
       IN  /\ search' = IF Exists(search) THEN Keep(search) ELSE search
           /\ find' = IF Exists(find) THEN Keep(find) ELSE find
           /\ items' = IF Exists(items)
                       THEN [items EXCEPT !.stack =
                                [k \in DOMAIN @ |-> Dangle(@[k], freed)]]
                       ELSE items

-----------------------------------------------------------------------------
(***************************************************************************)
(* iter().  `keys' is history: the words when the iterator was made.       *)
(***************************************************************************)
automaton_iter ==
    /\ pc = "idle" /\ kind = "AHOCORASICK" /\ Room(search)
    /\ search' = [version |-> version, state |-> root, output |-> NULL, index |-> -1,
                  keys |-> Keys(nodes)]
    /\ UNCHANGED <<vars, items, find>>

\* set(): the iterator starts over, but its version stays.
automaton_search_iter_set ==
    /\ pc = "idle" /\ Exists(search)
    /\ \/ search' = [search EXCEPT !.index = -1]
       \/ search' = [search EXCEPT !.index = -1, !.state = root, !.output = NULL]
    /\ UNCHANGED <<vars, items, find>>

\* next() begins with the only check of the version it makes.
BeginNext_unchecked(it, running) ==                                \* mutant
    /\ pc = "idle" /\ Exists(it)
    /\ pc' = running
    /\ UNCHANGED <<object, locals, ret, frames>>

BeginNext(it, running) ==
    /\ pc = "idle" /\ Exists(it)
    /\ IF it.version # version
       THEN ret' = Raise("next", "ValueError") /\ UNCHANGED pc
       ELSE pc' = running /\ UNCHANGED ret
    /\ UNCHANGED <<object, locals, frames>>

automaton_search_iter_next == BeginNext(search, "search")

\* The loop shared by next() and find_all: an output, else another letter, else the end.
Output(it) == NextOutput(nodes, it.output)
AtEnd(it) == it.index + 1 >= Len(Text)
NextState(it) == ahocorasick_next(nodes, it.state, Text[it.index + 2])

Found(it) == Output(it) \in DOMAIN nodes
NeedsLetter(it) == Output(it) = NULL /\ ~AtEnd(it)
Crashes(it) == Output(it) = FREED \/ (NeedsLetter(it) /\ NextState(it) \notin DOMAIN nodes)

Read(it) ==
    [it EXCEPT !.index = @ + 1, !.state = NextState(it), !.output = NextState(it)]

Crash ==
    /\ pc \in {"search", "find"}
    /\ Crashes(IF pc = "search" THEN search ELSE find)
    /\ pc' = "crash"
    /\ UNCHANGED <<object, locals, ret, frames>>

SearchReport ==
    /\ pc = "search" /\ Found(search)
    /\ search' = [search EXCEPT !.output = nodes[Output(search)].fail]
    /\ ret' = Result("next", nodes[Output(search)].output)
    /\ pc' = "idle"
    /\ UNCHANGED <<object, locals, items, find>>

SearchRead ==
    /\ pc = "search" /\ NeedsLetter(search) /\ ~Crashes(search)
    /\ search' = Read(search)
    /\ UNCHANGED <<vars, items, find>>

SearchStop ==
    /\ pc = "search" /\ Output(search) = NULL /\ AtEnd(search)
    /\ search' = [search EXCEPT !.index = Len(Text), !.output = NULL]
    /\ ret' = Raise("next", "StopIteration")
    /\ pc' = "idle"
    /\ UNCHANGED <<object, locals, items, find>>

-----------------------------------------------------------------------------
(***************************************************************************)
(* keys(), values() and items() without a pattern; `size' is the length of *)
(* the buffer the keys are spelled in.                                     *)
(***************************************************************************)
automaton_items_create ==
    /\ pc = "idle" /\ Room(items)
    /\ items' = [version |-> version, stack |-> <<root>>, size |-> longest_word + 1,
                 keys |-> Keys(nodes)]
    /\ UNCHANGED <<vars, search, find>>

automaton_items_iter_next == BeginNext(items, "items")

ItemsStop ==
    /\ pc = "items" /\ items.stack \in {<<>>, <<NULL>>}
    /\ items' = [items EXCEPT !.stack = <<>>]
    /\ ret' = Raise("next", "StopIteration")
    /\ pc' = "idle"
    /\ UNCHANGED <<object, locals, search, find>>

ItemsVisit ==
    LET top == Head(items.stack)
    IN  /\ pc = "items" /\ items.stack \notin {<<>>, <<NULL>>}
        /\ IF top \notin DOMAIN nodes \/ Len(top) >= items.size
           THEN pc' = "crash" /\ UNCHANGED <<items, ret>>
           ELSE /\ items' = [items EXCEPT !.stack =
                        Reverse([k \in DOMAIN nodes[top].next |->
                                    Append(top, nodes[top].next[k])]) \o Tail(@)]
                /\ IF nodes[top].eow
                   THEN pc' = "idle" /\ ret' = Result("next", nodes[top].output)
                   ELSE UNCHANGED <<pc, ret>>
        /\ UNCHANGED <<object, locals, search, find>>

-----------------------------------------------------------------------------
(***************************************************************************)
(* find_all().  While its callback runs, pc is "idle" and any call may be  *)
(* made; `version' is history here, the code does not keep it.             *)
(***************************************************************************)
automaton_find_all ==
    /\ pc = "idle" /\ kind = "AHOCORASICK" /\ ~Exists(find) /\ Room(find)
    /\ find' = [version |-> version, state |-> root, output |-> NULL, index |-> -1]
    /\ pc' = "find"
    /\ UNCHANGED <<object, locals, ret, search, items>>

FindRead ==
    /\ pc = "find" /\ NeedsLetter(find) /\ ~Crashes(find)
    /\ find' = Read(find)
    /\ UNCHANGED <<vars, search, items>>

\* The callback is called; tmp stays at the node whose word is reported.
FindReport ==
    /\ pc = "find" /\ Found(find)
    /\ find' = [find EXCEPT !.output = Output(find)]
    /\ pc' = "idle"
    /\ UNCHANGED <<object, locals, ret, search, items>>

\* The callback returns: tmp = tmp->fail; or it raises, which ends find_all.
CallbackReturns ==
    /\ pc = "idle" /\ Exists(find)
    /\ IF find.output \in DOMAIN nodes
       THEN pc' = "find" /\ find' = [find EXCEPT !.output = nodes[find.output].fail]
       ELSE pc' = "crash" /\ UNCHANGED find
    /\ UNCHANGED <<object, locals, ret, search, items>>

CallbackRaises ==
    /\ pc = "idle" /\ Exists(find)
    /\ find' = NoIterator
    /\ UNCHANGED <<vars, search, items>>

FindDone ==
    /\ pc = "find" /\ Output(find) = NULL /\ AtEnd(find)
    /\ find' = NoIterator /\ pc' = "idle" /\ ret' = Result("find_all", 0)
    /\ UNCHANGED <<object, locals, search, items>>

NextIterators ==
    \/ AutomatonStep
    \/ automaton_iter \/ automaton_search_iter_set \/ automaton_search_iter_next
    \/ SearchReport \/ SearchRead \/ SearchStop
    \/ automaton_items_create \/ automaton_items_iter_next \/ ItemsStop \/ ItemsVisit
    \/ automaton_find_all \/ FindRead \/ FindReport \/ CallbackReturns \/ CallbackRaises
    \/ FindDone
    \/ Crash

SpecIterators == InitIterators /\ [][NextIterators]_iterVars

-----------------------------------------------------------------------------
(***************************************************************************)
(* The version check is enough: an iterator that passes it holds pointers  *)
(* to live nodes only, and, on the items iterator's way, no node deeper    *)
(* than its buffer, sized when it was made, can be met.                    *)
(***************************************************************************)
ValidIsSafe ==
    /\ Valid(search) =>
        search.state \in DOMAIN nodes /\ search.output \in DOMAIN nodes \cup {NULL}
    /\ Valid(items) =>
        /\ ToSet(items.stack) \subseteq DOMAIN nodes \cup {NULL}
        /\ \A p \in DOMAIN nodes : Len(p) < items.size

(***************************************************************************)
(* An iterator that passes the check iterates over the words there were    *)
(* when it was made, and a search iterator still follows the right fail    *)
(* links, although its automaton may be of kind TRIE again, after add_word *)
(* of a word it has (trie.c:60).                                           *)
(***************************************************************************)
ValidIsCurrent ==
    /\ Valid(search) =>
        /\ search.keys = Keys(nodes)
        /\ \A p \in DOMAIN nodes \ {Root} : nodes[p].fail = LongestSuffix(nodes, p)
    /\ Valid(items) => items.keys = Keys(nodes)

(***************************************************************************)
(* find_all is safe as long as its callback does not change the set of     *)
(* words.  Where it does, a loop on iter(), to which the documentation     *)
(* calls find_all equivalent (docs/automaton_find_all.rst:15), would raise *)
(* ValueError.                                                             *)
(***************************************************************************)
SafeUnlessChanged == pc = "crash" => Exists(find) /\ find.version # version
=============================================================================
