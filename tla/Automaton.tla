------------------------------ MODULE Automaton ------------------------------
(***************************************************************************)
(* The Automaton object of src/src/Automaton.c: a trie that add_word,      *)
(* remove_word, pop and clear maintain and that make_automaton turns into  *)
(* an Aho-Corasick automaton by giving every node a fail link.             *)
(*                                                                         *)
(* Calls run one at a time (the interpreter lock), so the short ones are   *)
(* one action each; make_automaton, whose loop is the heart of the module, *)
(* is stepped: its local variables are the variables pc, queue, node, i    *)
(* and state, and no other call starts until pc is "idle" again.           *)
(* An allocation may fail where the code allocates (MemoryFails).          *)
(***************************************************************************)
EXTENDS Trie, TLC

CONSTANTS Words,        \* the non-empty words callers use as keys
          Stores,       \* the store kinds an automaton is created with
          Objects,      \* Python objects to store (addresses: positive)
          Ints,         \* integers passed to add_word under STORE_INTS
          MemoryFails,  \* whether an allocation may fail
          MaxVersion    \* bound: calls that would bump `version' past it are not made

ASSUME ConstantAssumption ==
    /\ Words \subseteq Seq(Letters) \ {<<>>}
    /\ Stores \subseteq {"ANY", "INTS", "LENGTH"}
    /\ Objects \subseteq Nat \ {0}
    /\ Ints \subseteq Int
    /\ MemoryFails \in BOOLEAN
    /\ MaxVersion \in Nat

VARIABLES
    nodes,        \* the heap of trie nodes; automaton->root is Root, or NULL if absent
    kind,         \* EMPTY, TRIE or AHOCORASICK
    store,        \* what values are: set by the constructor
    count,        \* number of words
    longest_word, \* length of the longest word ever added since clear
    version,      \* what iterators compare to notice a change
    stats,        \* the statistics get_stats caches, with the version they are of
    refs,         \* references to each object that the trie owns
    pc, queue, node, i, state,   \* make_automaton's control and locals
    ret           \* what the last call gave its caller

object == <<nodes, kind, store, count, longest_word, version, stats, refs>>
locals == <<queue, node, i, state>>
vars == <<object, pc, locals, ret>>

Result(op, v) == [op |-> op, exc |-> "none", val |-> v]
Raise(op, e)  == [op |-> op, exc |-> e, val |-> 0]
Bool(b) == IF b THEN 1 ELSE 0

EmptyHeap == [p \in {} |-> trienode_new]

HasRoot == Root \in DOMAIN nodes

NoStats == [version |-> -1, nodes_count |-> 0, words_count |-> 0, links_count |-> 0,
            longest_word |-> 0]

Init ==
    /\ nodes = EmptyHeap
    /\ kind = "EMPTY"
    /\ store \in Stores
    /\ count = 0 /\ longest_word = 0
    /\ version = 0 /\ stats = NoStats
    /\ refs = [o \in Objects |-> 0]
    /\ pc = "idle" /\ queue = <<>> /\ node = Root /\ i = 1 /\ state = Root
    /\ ret = Result("new", 0)

-----------------------------------------------------------------------------
(***************************************************************************)
(* add_word.  The value stored is an object, an integer (by default        *)
(* count + 1) or the length of the word.                                   *)
(***************************************************************************)
ValuesFor(w) ==
    CASE store = "ANY"    -> Objects
      [] store = "INTS"   -> Ints \cup {count + 1}
      [] store = "LENGTH" -> {Len(w)}

\* The object counts after the trie takes a reference to one value in place of others.
Retain(counts, v) == IF store = "ANY" THEN [counts EXCEPT ![v] = @ + 1] ELSE counts
Release_nothing(counts, v) == counts                              \* mutant
Release(counts, v) == IF store = "ANY" THEN [counts EXCEPT ![v] = @ - 1] ELSE counts

NewLongest_last(w) == Len(w)                                       \* mutant
NewLongest(w) == IF Len(w) > longest_word THEN Len(w) ELSE longest_word

\* A word replaced does not invalidate the iterators, a new one does.
NewVersion_stays(new_word) == version                              \* mutant
NewVersion(new_word) == version + Bool(new_word)

automaton_add_word(w, v) ==
    LET grown == Grow(nodes, w, Len(w))
        new_word == ~grown[w].eow
    IN  /\ pc = "idle"
        /\ kind = "EMPTY" => ~HasRoot
        /\ version < MaxVersion
        /\ nodes' = [grown EXCEPT ![w].eow = TRUE, ![w].output = v]
        /\ refs' = Retain(IF new_word THEN refs ELSE Release(refs, grown[w].output), v)
        /\ count' = count + Bool(new_word)
        /\ version' = NewVersion(new_word)
        /\ longest_word' = IF new_word THEN NewLongest(w) ELSE longest_word
        /\ kind' = "TRIE"
        /\ ret' = Result("add_word", Bool(new_word))
        /\ UNCHANGED <<store, stats, pc, locals>>

automaton_add_empty_word ==
    /\ pc = "idle"
    /\ ret' = Result("add_word", 0)
    /\ UNCHANGED <<object, pc, locals>>

\* A node of w cannot be allocated: those above it stay in the trie.
automaton_add_word_no_memory(w, depth) ==
    /\ pc = "idle" /\ MemoryFails
    /\ kind = "EMPTY" => ~HasRoot
    /\ At(w, depth) \notin DOMAIN nodes
    /\ nodes' = IF depth = 0 THEN nodes ELSE Grow(nodes, w, depth - 1)
    /\ ret' = Raise("add_word", "MemoryError")
    /\ UNCHANGED <<kind, store, count, longest_word, version, stats, refs, pc, locals>>

\* ASSERT(automaton->root == NULL) of an EMPTY automaton fails: exit(1).
automaton_add_word_aborts ==
    /\ pc = "idle" /\ kind = "EMPTY" /\ HasRoot
    /\ pc' = "exit"
    /\ UNCHANGED <<object, locals, ret>>

-----------------------------------------------------------------------------
(***************************************************************************)
(* remove_word and pop share automaton_remove_word_aux, which tells a      *)
(* removed word from an absent one by its value being non-NULL.            *)
(***************************************************************************)
Present(w) == trie_find(nodes, w) # NULL /\ nodes[w].eow

automaton_remove_word_aux(w, success, absent) ==
    LET value == nodes[w].output
    IN  /\ pc = "idle" /\ Present(w)
        /\ version < MaxVersion
        /\ nodes' = Unlink(nodes, w)
        /\ kind' = "TRIE"
        /\ IF value # 0
           THEN /\ version' = version + 1 /\ count' = count - 1
                /\ refs' = Release(refs, value)
                /\ ret' = success
           ELSE ret' = absent /\ UNCHANGED <<version, count, refs>>
        /\ UNCHANGED <<store, longest_word, stats, pc, locals>>

automaton_remove_word(w) ==
    automaton_remove_word_aux(w, Result("remove_word", 1), Result("remove_word", 0))

\* pop gives the reference the trie had to the caller.
automaton_pop(w) ==
    /\ Present(w)
    /\ store = "ANY" \/ nodes[w].output = 0
    /\ automaton_remove_word_aux(w, Result("pop", nodes[w].output), Raise("pop", "KeyError"))

\* An integer is handed to the interpreter as the address of an object.
automaton_pop_crashes(w) ==
    /\ pc = "idle" /\ Present(w)
    /\ store # "ANY" /\ nodes[w].output # 0
    /\ pc' = "exit"
    /\ UNCHANGED <<object, locals, ret>>

automaton_remove_absent_counts(w) ==                               \* mutant
    /\ pc = "idle"
    /\ w = <<>> \/ ~Present(w)
    /\ version < MaxVersion /\ version' = version + 1 /\ count' = count - 1
    /\ ret' = Result("remove_word", 1)
    /\ UNCHANGED <<nodes, kind, store, longest_word, stats, refs, pc, locals>>

automaton_remove_absent(w) ==
    /\ pc = "idle"
    /\ w = <<>> \/ ~Present(w)
    /\ ret' \in {Result("remove_word", 0), Raise("pop", "KeyError")}
    /\ UNCHANGED <<object, pc, locals>>

\* Unlinking from a node with other children allocates its shorter child array.
automaton_remove_no_memory(w) ==
    /\ pc = "idle" /\ MemoryFails
    /\ Present(w) /\ trienode_is_leaf(nodes, w)
    /\ Len(nodes[At(w, last_multiway_index(nodes, w))].next) > 1
    /\ \E op \in {"remove_word", "pop"} : ret' = Raise(op, "MemoryError")
    /\ UNCHANGED <<object, pc, locals>>

ReleaseAll ==
    IF store = "ANY"
    THEN [o \in Objects |-> refs[o] - Cardinality({p \in Keys(nodes) : nodes[p].output = o})]
    ELSE refs

automaton_clear_silent ==                                          \* mutant
    /\ pc = "idle" /\ version < MaxVersion
    /\ nodes' = EmptyHeap /\ refs' = ReleaseAll
    /\ count' = 0 /\ longest_word' = 0 /\ kind' = "EMPTY"
    /\ ret' = Result("clear", 0)
    /\ UNCHANGED <<version, store, stats, pc, locals>>

automaton_clear_keeps_kind ==                                      \* mutant
    /\ pc = "idle" /\ version < MaxVersion
    /\ nodes' = EmptyHeap /\ refs' = ReleaseAll
    /\ count' = 0 /\ longest_word' = 0
    /\ version' = version + 1
    /\ ret' = Result("clear", 0)
    /\ UNCHANGED <<kind, store, stats, pc, locals>>

automaton_clear ==
    /\ pc = "idle" /\ version < MaxVersion
    /\ nodes' = EmptyHeap /\ refs' = ReleaseAll
    /\ count' = 0 /\ longest_word' = 0 /\ kind' = "EMPTY"
    /\ version' = version + 1
    /\ ret' = Result("clear", 0)
    /\ UNCHANGED <<store, stats, pc, locals>>

-----------------------------------------------------------------------------
(***************************************************************************)
(* get_stats recounts the trie only when the version has changed.          *)
(***************************************************************************)
links_count == MapThenSumSet(LAMBDA p : Len(nodes[p].next), DOMAIN nodes)

get_stats ==
    IF kind = "EMPTY" THEN [NoStats EXCEPT !.version = version]
    ELSE [version      |-> version,
          nodes_count  |-> Cardinality(DOMAIN nodes),
          words_count  |-> Cardinality(Keys(nodes)),
          links_count  |-> links_count,
          longest_word |-> Max({Len(p) : p \in DOMAIN nodes})]

automaton_get_stats ==
    /\ pc = "idle"
    /\ stats' = IF stats.version # version THEN get_stats ELSE stats
    /\ ret' = Result("get_stats", stats'.words_count)
    /\ UNCHANGED <<nodes, kind, store, count, longest_word, version, refs, pc, locals>>

(***************************************************************************)
(* The calls that only read.  ABORT is ASSERT(node) failing: exit(1).  Of  *)
(* get, only whether it finds the word is modelled.  Left out are the      *)
(* value, which is cut to the width of a C int (Automaton.c:528), and the  *)
(* default that may be given for a word that is missing.                   *)
(***************************************************************************)
ABORT == -1

automaton_len == count

automaton_contains_any_node(w) == trie_find(nodes, w) # NULL       \* mutant
automaton_contains(w) == trie_find(nodes, w) # NULL /\ nodes[w].eow

automaton_match(w) == trie_find(nodes, w) # NULL

automaton_get(w) ==
    IF trie_find(nodes, w) # NULL /\ nodes[w].eow THEN "found" ELSE "KeyError"

\* trie_longest, unlike trie_find, does not ask whether there is a root.
automaton_longest_prefix(w) ==
    IF ~HasRoot /\ w # <<>> THEN ABORT ELSE trie_longest(nodes, w)

-----------------------------------------------------------------------------
(***************************************************************************)
(* make_automaton.  Level by level, breadth first.                         *)
(***************************************************************************)
Return(r) ==
    /\ pc' = "idle"
    /\ queue' = <<>> /\ node' = Root /\ i' = 1 /\ state' = Root
    /\ ret' = r

NoMemory == Return(Raise("make_automaton", "MemoryError"))

automaton_make_automaton ==
    /\ pc = "idle"
    /\ IF kind # "TRIE"
       THEN ret' = Result("make_automaton", 0) /\ UNCHANGED pc
       ELSE version < MaxVersion /\ pc' = "level1" /\ UNCHANGED ret
    /\ UNCHANGED <<object, locals>>

Child == Append(node, nodes[node].next[i])
letter == nodes[node].next[i]

\* Step 1: the children of the root fail back to the root.
SetupFirstLevel ==
    /\ pc = "level1" /\ i <= Len(nodes[Root].next)
    /\ nodes' = [nodes EXCEPT ![Child].fail = Root]
    /\ \/ /\ queue' = Append(queue, Child)
          /\ i' = i + 1
          /\ UNCHANGED <<pc, node, state, ret>>
       \/ MemoryFails /\ NoMemory
    /\ UNCHANGED <<kind, store, count, longest_word, version, stats, refs>>

FirstLevelDone ==
    /\ pc = "level1" /\ i > Len(nodes[Root].next)
    /\ pc' = "pop"
    /\ UNCHANGED <<object, locals, ret>>

\* Step 2: the next node in breadth-first order; its children are linked in turn.
PopNode_last ==                                                    \* mutant
    /\ pc = "pop" /\ queue # <<>>
    /\ node' = Last(queue) /\ queue' = Front(queue)
    /\ i' = 1
    /\ pc' = "child"
    /\ UNCHANGED <<object, state, ret>>

PopNode ==
    /\ pc = "pop" /\ queue # <<>>
    /\ node' = Head(queue) /\ queue' = Tail(queue)
    /\ i' = 1
    /\ pc' = "child"
    /\ UNCHANGED <<object, state, ret>>

\* state = p->fail; ASSERT(state).  Following NULL or a freed node ends the process.
Follow(p) ==
    /\ state' = nodes[p].fail
    /\ pc' = IF state' \in DOMAIN nodes THEN "walk" ELSE "crash"

EnqueueChild ==
    /\ pc = "child" /\ i <= Len(nodes[node].next)
    /\ \/ /\ queue' = Append(queue, Child)
          /\ Follow(node)
          /\ UNCHANGED <<node, i, ret>>
       \/ MemoryFails /\ NoMemory
    /\ UNCHANGED object

ChildrenDone ==
    /\ pc = "child" /\ i > Len(nodes[node].next)
    /\ pc' = "pop"
    /\ UNCHANGED <<object, locals, ret>>

\* The fail links of `node' are followed until one has a child over the letter.
FollowFail_stays ==                                                \* mutant
    /\ pc = "walk"
    /\ state # Root /\ trienode_get_next(nodes, state, letter) = NULL
    /\ UNCHANGED <<object, pc, queue, node, i, state, ret>>

FollowFail ==
    /\ pc = "walk"
    /\ state # Root /\ trienode_get_next(nodes, state, letter) = NULL
    /\ Follow(state)
    /\ UNCHANGED <<object, queue, node, i, ret>>

FailTarget_root(p, l) == Root                                      \* mutant
FailTarget(p, l) ==
    LET next == trienode_get_next(nodes, p, l) IN IF next # NULL THEN next ELSE Root

SetFail ==
    /\ pc = "walk"
    /\ state = Root \/ trienode_get_next(nodes, state, letter) # NULL
    /\ nodes' = [nodes EXCEPT ![Child].fail = FailTarget(state, letter)]
    /\ i' = i + 1
    /\ pc' = "child"
    /\ UNCHANGED <<kind, store, count, longest_word, version, stats, refs, queue, node, state,
                   ret>>

BuildDone ==
    /\ pc = "pop" /\ queue = <<>>
    /\ kind' = "AHOCORASICK"
    /\ version' = version + 1
    /\ Return(Result("make_automaton", 0))
    /\ UNCHANGED <<nodes, store, count, longest_word, stats, refs>>

MakeStep ==
    \/ SetupFirstLevel \/ FirstLevelDone \/ PopNode \/ EnqueueChild
    \/ ChildrenDone \/ FollowFail \/ SetFail \/ BuildDone

-----------------------------------------------------------------------------
Next ==
    \/ \E w \in Words :
        \/ \E v \in ValuesFor(w) : automaton_add_word(w, v)
        \/ \E depth \in 0..Len(w) : automaton_add_word_no_memory(w, depth)
        \/ automaton_remove_word(w)
        \/ automaton_pop(w)
        \/ automaton_pop_crashes(w)
        \/ automaton_remove_no_memory(w)
    \/ \E w \in Words \cup {<<>>} : automaton_remove_absent(w)
    \/ automaton_add_empty_word
    \/ automaton_add_word_aborts
    \/ automaton_clear
    \/ automaton_get_stats
    \/ automaton_make_automaton
    \/ MakeStep

Spec == Init /\ [][Next]_vars

\* A call that has started runs to its end.
FairSpec == Spec /\ WF_vars(MakeStep)

-----------------------------------------------------------------------------
(***************************************************************************)
(* Properties.                                                             *)
(***************************************************************************)
\* The object and the locals of make_automaton have their types; the heap maps paths to TrieNodes.
ObjectOK ==
    /\ Heap(nodes)
    /\ kind \in {"EMPTY", "TRIE", "AHOCORASICK"} /\ store \in Stores
    /\ count \in Nat /\ longest_word \in Nat /\ version \in 0..MaxVersion
    /\ stats.version \in -1..MaxVersion
    /\ refs \in [Objects -> Int]
    /\ queue \in Seq(Seq(Letters)) /\ node \in Seq(Letters)
    /\ i \in Nat \ {0} /\ state \in Pointer

\* Every variable has its type.
TypeOK == ObjectOK /\ pc \in {"idle", "level1", "pop", "child", "walk", "exit", "crash"}

(***************************************************************************)
(* The heap is a tree: every node can be reached from the root, letter by  *)
(* letter, and every link leads to a live node, one per letter.  A tail    *)
(* freed but still linked, or unlinked but not freed, breaks it            *)
(* (trie.c:106-127).                                                       *)
(***************************************************************************)
TreeOK == Tree(nodes)

(***************************************************************************)
(* remove_word takes away every node that only the removed word needed:    *)
(* each leaf spells a key, so match() never says True for a string that no *)
(* key starts with.  Rests on the choice of last_multiway (trie.c:94).     *)
(***************************************************************************)
NoDeadBranch == \A p \in DOMAIN nodes \ {Root} : trienode_is_leaf(nodes, p) => nodes[p].eow

\* len() is the number of words that can be found.
CountOK == automaton_len = Cardinality(Keys(nodes))

(***************************************************************************)
(* longest_word bounds the depth of the trie: the items iterator writes    *)
(* buffer[depth] into a buffer of longest_word + 1 letters.                *)
(***************************************************************************)
LongestWordOK == \A p \in DOMAIN nodes : Len(p) <= longest_word

(***************************************************************************)
(* The trie owns one reference per word that stores the object, through    *)
(* replacement, re-adding a word whose node was only unmarked, removal and *)
(* clear: no object is released twice or leaked.                           *)
(***************************************************************************)
RefsOK ==
    store = "ANY" =>
        \A o \in Objects : refs[o] = Cardinality({p \in Keys(nodes) : nodes[p].output = o})

(***************************************************************************)
(* An automaton of kind AHOCORASICK has the fail links of the textbook:    *)
(* each node's is its longest proper suffix in the trie, the root has none.*)
(***************************************************************************)
FailsOK ==
    kind = "AHOCORASICK" =>
        \A p \in DOMAIN nodes :
            nodes[p].fail = IF p = Root THEN NULL ELSE LongestSuffix(nodes, p)

(***************************************************************************)
(* While make_automaton runs over a trie that was an automaton before and  *)
(* lost nodes since, it follows only links made in this run: it never      *)
(* reaches NULL (ASSERT(state), Automaton.c:622 and 628) or a freed node,  *)
(* and `state' is never deeper than the node whose child is linked.        *)
(***************************************************************************)
WalkOK == pc # "crash" /\ (pc = "walk" => Len(state) < Len(node))

(***************************************************************************)
(* The statistics get_stats would answer from its cache are those of the   *)
(* trie as it is now.                                                      *)
(***************************************************************************)
StatsOK == stats.version = version => stats = get_stats

\* kind is EMPTY exactly when there is no root (ASSERTs of trie.c:22, Automaton.c:580).
EmptyOK == kind = "EMPTY" <=> ~HasRoot

(***************************************************************************)
(* The calls that read by walking links give the answers of a set of keys, *)
(* also while there is none: `in' is membership, get finds the members,    *)
(* match is being a prefix of a key, longest_prefix is the longest prefix  *)
(* that matches.  The exception is an automaton without a root: there      *)
(* longest_prefix of a word ends the process, since trie.c:166 hands NULL  *)
(* to the ASSERT of trienode.c:48, although a length is promised           *)
(* (docs/automaton_longest_prefix.rst:4).                                  *)
(***************************************************************************)
QueriesOK ==
    \A w \in Words :
        /\ automaton_contains(w) <=> w \in Keys(nodes)
        /\ automaton_get(w) = "found" <=> w \in Keys(nodes)
        /\ automaton_match(w) <=> \E k \in Keys(nodes) : IsPrefix(w, k)
        /\ automaton_longest_prefix(w) =
                IF HasRoot THEN Max({0} \cup {j \in 1..Len(w) : automaton_match(At(w, j))})
                ELSE ABORT

(***************************************************************************)
(* A step that frees a node changes the version, so that no iterator still *)
(* believes itself valid.                                                  *)
(***************************************************************************)
FreeingBumpsVersion ==
    [][(\E p \in DOMAIN nodes : p \notin DOMAIN nodes') => version' # version]_vars

(***************************************************************************)
(* make_automaton ends, whatever links an earlier run left (no cycle in    *)
(* the fail links it follows).                                             *)
(***************************************************************************)
MakeAutomatonReturns == pc = "level1" ~> pc = "idle"

(***************************************************************************)
(* The map the trie stands for, and that Automaton implements Dictionary:  *)
(* what add_word, remove_word, pop and clear return and leave is what a    *)
(* map would, and a call that fails changes nothing (Automaton.c:202-424). *)
(***************************************************************************)
Contents == [w \in Keys(nodes) |-> nodes[w].output]

Dict == INSTANCE Dictionary WITH Values <- Int, dict <- Contents

Dictionary == Dict!Spec
=============================================================================
