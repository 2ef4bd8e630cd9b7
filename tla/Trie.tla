-------------------------------- MODULE Trie --------------------------------
(***************************************************************************)
(* The trie of src/src/trienode.c and src/src/trie.c as a heap: a function *)
(* from the nodes allocated now to their fields.  A node is named by its   *)
(* path, the word spelled from the root down to it: every child pointer is *)
(* owned by one parent, so the path of a node never changes while the node *)
(* lives, and <<>> is the root.  A pointer is a node, NULL, or FREED: once *)
(* a node is freed, every copy of its address left anywhere is FREED, even *)
(* if a later node has the same path.                                      *)
(*                                                                         *)
(* The C union `output' holds an integer or a PyObject pointer; an object  *)
(* is a positive integer here, its address, so that 0 is both the integer  *)
(* 0 and the NULL pointer, as in the union.                                *)
(***************************************************************************)
EXTENDS Integers, Sequences, FiniteSets, SequencesExt

CONSTANTS Letters,   \* the alphabet, TRIE_LETTER_TYPE
          NULL,      \* the null pointer
          FREED      \* a pointer to a node that was freed

ASSUME PointerAssumption ==
    NULL \notin Seq(Letters) /\ FREED \notin Seq(Letters) /\ NULL # FREED

Root == <<>>

Pointer == Seq(Letters) \cup {NULL, FREED}

TrieNode == [next : Seq(Letters), eow : BOOLEAN, output : Int, fail : Pointer]

trienode_new == [next |-> <<>>, eow |-> FALSE, output |-> 0, fail |-> NULL]

\* The child of node p over `letter', or NULL.
trienode_get_next(nodes, p, letter) ==
    IF letter \in ToSet(nodes[p].next) THEN Append(p, letter) ELSE NULL

trienode_is_leaf(nodes, p) == nodes[p].next = <<>>

\* The first i letters of w: the node at depth i on the way to w.
At(w, i) == SubSeq(w, 1, i)

(***************************************************************************)
(* The loop of trie_find and trie_longest: following the links over the    *)
(* letters of w from the root, it gets as far as depth k.                  *)
(***************************************************************************)
Reaches(nodes, w, k) ==
    \A i \in 0..(k - 1) :
        At(w, i) \in DOMAIN nodes /\ trienode_get_next(nodes, At(w, i), w[i + 1]) # NULL

trie_find(nodes, w) ==
    IF Root \in DOMAIN nodes /\ Reaches(nodes, w, Len(w)) THEN w ELSE NULL

trie_longest(nodes, w) == Max({k \in 0..Len(w) : Reaches(nodes, w, k)})

(***************************************************************************)
(* The loop of trie_add_word down to depth k of w: each missing node is    *)
(* allocated and linked at the end of its parent's `next'.                 *)
(***************************************************************************)
Grow(nodes, w, k) ==
    LET node(p) == IF p \in DOMAIN nodes THEN nodes[p] ELSE trienode_new
        linked(p) == /\ Len(p) < k
                     /\ p = At(w, Len(p))
                     /\ At(w, Len(p) + 1) \notin DOMAIN nodes
    IN  [p \in DOMAIN nodes \cup {At(w, i) : i \in 0..k} |->
            IF linked(p) THEN [node(p) EXCEPT !.next = Append(@, w[Len(p) + 1])]
                         ELSE node(p)]

(***************************************************************************)
(* trie_remove_word keeps the nodes of w down to the last one that has     *)
(* another child or is a key itself (last_multiway_index), else the root.  *)
(***************************************************************************)
Multiway_not_keys(n) == Len(n.next) > 1                           \* mutant
Multiway_of_three(n) == Len(n.next) > 2 \/ (Len(n.next) = 1 /\ n.eow) \* mutant
Multiway(n) == Len(n.next) > 1 \/ (Len(n.next) = 1 /\ n.eow)

last_multiway_index(nodes, w) ==
    Max({0} \cup {i \in 1..Len(w) : Multiway(nodes[At(w, i)])})

\* The linear tail of w that trie_remove_word frees when w ends in a leaf.
FreedTail(nodes, w) == {At(w, i) : i \in (last_multiway_index(nodes, w) + 1)..Len(w)}

\* trienode_unset_next_pointer: the pair of one letter cut out of the array.
Unset(next, letter) == RemoveAt(next, CHOOSE j \in DOMAIN next : next[j] = letter)

\* What a pointer is worth once the nodes of `freed' are gone.
Dangle(ptr, freed) == IF ptr \in freed THEN FREED ELSE ptr

(***************************************************************************)
(* The heap after trie_remove_word: the tail unlinked from its parent and  *)
(* freed if w is a leaf, else only the end-of-word mark dropped.           *)
(***************************************************************************)
Unlink_keeps_tail(nodes, w) == [nodes EXCEPT ![w].eow = FALSE]       \* mutant

Unlink(nodes, w) ==
    LET cut == last_multiway_index(nodes, w)
        freed == FreedTail(nodes, w)
    IN  IF trienode_is_leaf(nodes, w)
        THEN [p \in DOMAIN nodes \ freed |->
                [nodes[p] EXCEPT !.next = IF p = At(w, cut) THEN Unset(@, w[cut + 1]) ELSE @,
                                 !.fail = Dangle(@, freed)]]
        ELSE [nodes EXCEPT ![w].eow = FALSE]

(***************************************************************************)
(* What every operation keeps true of the heap.  PrefixClosed: a node can  *)
(* be reached from the root, letter by letter.  LinksLive: a link leads to *)
(* a node that exists.  OneLinkPerLetter: and is the only one over its     *)
(* letter.                                                                 *)
(***************************************************************************)
Heap(nodes) == DOMAIN nodes \subseteq Seq(Letters) /\ nodes \in [DOMAIN nodes -> TrieNode]

PrefixClosed(nodes) ==
    \A p \in DOMAIN nodes : \A k \in 0..(Len(p) - 1) :
        At(p, k) \in DOMAIN nodes /\ p[k + 1] \in ToSet(nodes[At(p, k)].next)

LinksLive(nodes) ==
    \A p \in DOMAIN nodes : \A l \in ToSet(nodes[p].next) : Append(p, l) \in DOMAIN nodes

OneLinkPerLetter(nodes) == \A p \in DOMAIN nodes : IsInjective(nodes[p].next)

Tree(nodes) == PrefixClosed(nodes) /\ LinksLive(nodes) /\ OneLinkPerLetter(nodes)

Keys(nodes) == {p \in DOMAIN nodes : nodes[p].eow}

(***************************************************************************)
(* Reference definition, not code: the node a fail link must point to, the *)
(* longest proper suffix of p that is a node.                              *)
(***************************************************************************)
Suffix(p, i) == SubSeq(p, Len(p) - i + 1, Len(p))

LongestSuffix(nodes, p) ==
    Suffix(p, Max({i \in 0..(Len(p) - 1) : Suffix(p, i) \in DOMAIN nodes}))
=============================================================================
