----------------------------- MODULE ItemsIter -----------------------------
(***************************************************************************)
(* The iterator behind keys(), values() and items()                        *)
(* (src/src/AutomatonItemsIter.c) over a trie that does not change: a      *)
(* depth-first walk with an explicit stack, guided by a pattern, that      *)
(* spells the current path into a buffer shared by all the keys.           *)
(***************************************************************************)
EXTENDS Search, SList

CONSTANTS Dictionaries,  \* the sets of words in the trie
          Patterns,      \* the patterns given to keys()
          Wildcards,     \* the letters given as wildcard, with NULL for none
          MemoryFails    \* whether allocating a stack item may fail

\* add_word refuses the empty word; an automaton holds finitely many words.
ASSUME DictionaryAssumption ==
    \A D \in Dictionaries : IsFiniteSet(D) /\ D \subseteq Seq(Letters) \ {<<>>}
ASSUME PatternAssumption == Patterns \subseteq Seq(Letters \cup Wildcards)
\* The address of a stack item is not the null pointer.
ASSUME ItemAssumption == nil \notin [node : Seq(Letters) \cup {NULL}]

VARIABLES
    words, nodes,        \* the trie
    pattern, wildcard, matchtype, type,  \* the arguments
    list, buffer,        \* the iterator: its stack and the letters of the current path
    stack,               \* history: the nodes on the stack, the top first
    pc,                  \* "idle" between calls, "next" inside next(), "deleted"
    found,               \* history: the <<key, node>> yielded
    ended, failed        \* history: next() stopped; next() raised MemoryError

args == <<words, nodes, pattern, wildcard, matchtype, type>>
vars == <<args, stack, list, buffer, pc, found, ended, failed>>

\* Items for the given nodes are pushed, one after the other.
Item(p) == [node |-> p]
PushItems(l, children) ==
    LET pushed[k \in 0..Len(children)] ==
            IF k = 0 THEN l ELSE list_push_front(pushed[k - 1], Item(children[k]))
    IN  pushed[Len(children)]

longest_word == Max({0} \cup {Len(w) : w \in words})

(***************************************************************************)
(* automaton_items_create and automaton_items_iter_new.  A trie that never *)
(* had a word has no root; one that lost all its words has.                *)
(***************************************************************************)
Init ==
    /\ words \in Dictionaries /\ nodes = Built(words)
    /\ pattern \in Patterns /\ wildcard \in Wildcards
    /\ matchtype \in {"EXACT_LENGTH", "AT_MOST_PREFIX", "AT_LEAST_PREFIX"}
    /\ type \in {"KEYS", "VALUES"}
    /\ stack \in {<<Root>>} \cup (IF words = {} THEN {<<NULL>>} ELSE {})
    /\ list = PushItems(list_init, stack)
    /\ buffer = [k \in 0..longest_word |-> NULL]
    /\ pc = "idle" /\ found = <<>> /\ ended = FALSE /\ failed = FALSE

CallNext ==
    /\ pc = "idle" /\ ~ended
    /\ pc' = "next"
    /\ UNCHANGED <<args, stack, list, buffer, found, ended, failed>>

Stop ==
    /\ pc = "next" /\ stack \in {<<>>, <<NULL>>}
    /\ stack' = <<>> /\ list' = list_pop_first(list)
    /\ pc' = "idle" /\ ended' = TRUE
    /\ UNCHANGED <<args, buffer, found, failed>>

\* The node on top of the stack; its depth and letter are those of its path.
Top == Head(stack)
depth == Len(Top)
pattern_length == Len(pattern)
Turn == pc = "next" /\ stack \notin {<<>>, <<NULL>>}

Rest_keeps_top == stack                                            \* mutant
Rest == Tail(stack)

TooDeep == matchtype # "AT_LEAST_PREFIX" /\ depth > pattern_length

Skip ==
    /\ Turn /\ TooDeep
    /\ stack' = Rest /\ list' = list_pop_first(list)
    /\ UNCHANGED <<args, buffer, pc, found, ended, failed>>

Output ==
    CASE matchtype = "EXACT_LENGTH"    -> depth = pattern_length
      [] matchtype = "AT_MOST_PREFIX"  -> depth <= pattern_length
      [] matchtype = "AT_LEAST_PREFIX" -> depth >= pattern_length

\* The children to visit: those that the next letter of the pattern lets through.
Children ==
    LET all == [k \in DOMAIN nodes[Top].next |-> Append(Top, nodes[Top].next[k])]
    IN  IF depth >= pattern_length \/ pattern[depth + 1] = wildcard THEN all
        ELSE IF trienode_get_next(nodes, Top, pattern[depth + 1]) = NULL THEN <<>>
        ELSE <<Append(Top, pattern[depth + 1])>>

\* list_push_front for each child in turn.
Push_back(s, children) == s \o children                            \* mutant
Push(s, children) == Reverse(children) \o s

\* buffer[depth] = letter; the letter of the root's stack item is not initialized.
Spelled(b, p) == [b EXCEPT ![Len(p)] = IF p = Root THEN NULL ELSE Last(p)]

Key == [k \in 1..depth |-> buffer'[k]]

Visit ==
    /\ Turn /\ ~TooDeep
    /\ stack' = Push(Rest, Children)
    /\ list' = PushItems(list_pop_first(list), Children)
    /\ buffer' = IF type = "VALUES" THEN buffer ELSE Spelled(buffer, Top)
    /\ IF Output /\ nodes[Top].eow
       THEN /\ found' = Append(found, <<IF type = "VALUES" THEN Top ELSE Key, Top>>)
            /\ pc' = "idle"
       ELSE UNCHANGED <<found, pc>>
    /\ UNCHANGED <<args, ended, failed>>

\* An item cannot be allocated: the node is lost, some of its children are not.
NoMemory ==
    /\ MemoryFails
    /\ Turn /\ ~TooDeep
    /\ \E m \in 0..(Len(Children) - 1) :
        /\ stack' = Push(Rest, At(Children, m))
        /\ list' = PushItems(list_pop_first(list), At(Children, m))
    /\ pc' = "idle" /\ failed' = TRUE
    /\ UNCHANGED <<args, buffer, found, ended>>

automaton_items_iter_del ==
    /\ pc = "idle"
    /\ list' = list_delete(list) /\ stack' = <<>>
    /\ pc' = "deleted"
    /\ UNCHANGED <<args, buffer, found, ended, failed>>

Next == CallNext \/ Stop \/ Skip \/ Visit \/ NoMemory \/ automaton_items_iter_del

Spec == Init /\ [][Next]_vars

-----------------------------------------------------------------------------
Agrees(w) ==
    \A k \in 1..Len(w) : k <= pattern_length => pattern[k] \in {w[k], wildcard}

\* The keys to yield, by the documentation of the pattern (docs/automaton_keys.rst).
Expected ==
    {w \in words :
        /\ Agrees(w)
        /\ CASE matchtype = "EXACT_LENGTH"    -> Len(w) = pattern_length
             [] matchtype = "AT_MOST_PREFIX"  -> Len(w) <= pattern_length
             [] matchtype = "AT_LEAST_PREFIX" -> Len(w) >= pattern_length}

Yielded == {m[2] : m \in ToSet(found)}

(***************************************************************************)
(* keys() yields exactly the keys that match, each spelled right though    *)
(* all are cut from one buffer that is never cleared                       *)
(* (AutomatonItemsIter.c:213), as long as no call of next() ran out of     *)
(* memory.                                                                 *)
(***************************************************************************)
KeysOK ==
    ~failed =>
        /\ Yielded \subseteq Expected
        /\ \A m \in ToSet(found) : m[1] = m[2]
        /\ ended => Yielded = Expected

(***************************************************************************)
(* No node waits on the stack twice, or waits after its word was yielded:  *)
(* no key comes twice, even from an iterator used on after a MemoryError.  *)
(***************************************************************************)
NoKeyTwice ==
    /\ IsInjective(stack)
    /\ \A j, k \in DOMAIN found : found[j][2] = found[k][2] => j = k
    /\ ToSet(stack) \cap Yielded = {}

(***************************************************************************)
(* The linked list is the stack of the walk, whatever pushes and pops and  *)
(* failed allocations went before: both its pointers and every link are    *)
(* right, also when it has been empty in between (slist.c:96-113), and the *)
(* items allocated are those on it, so that deleting the iterator leaks    *)
(* none.                                                                   *)
(***************************************************************************)
ListOK == IsList(list, [k \in DOMAIN stack |-> Item(stack[k])])
=============================================================================
