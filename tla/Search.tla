------------------------------- MODULE Search -------------------------------
(***************************************************************************)
(* What the search iterators and find_all do with a finished automaton:    *)
(* follow letters and fail links.  Also the reference definition of the    *)
(* occurrences of a set of words in a text.                                *)
(***************************************************************************)
EXTENDS Trie

(***************************************************************************)
(* The nodes met from p back through the fail links: Back(nodes, p)[k] is  *)
(* the k-th, or where the chain ends (NULL) or leaves the heap (FREED).  A *)
(* fail link always leads to a shorter node, so Len(p) + 1 steps reach the *)
(* end.                                                                    *)
(***************************************************************************)
Back(nodes, p) ==
    LET back[k \in 0..(Len(p) + 1)] ==
            IF k = 0 THEN p
            ELSE IF back[k - 1] \in DOMAIN nodes THEN nodes[back[k - 1]].fail
            ELSE back[k - 1]
    IN  back

\* The first node of that chain where Test holds; else what ends the chain.
FirstBack(nodes, p, Test(_)) ==
    IF p \notin DOMAIN nodes THEN p
    ELSE LET back == Back(nodes, p)
             hits == {k \in DOMAIN back : back[k] \in DOMAIN nodes /\ Test(back[k])}
         IN  back[IF hits = {} THEN Len(p) + 1 ELSE Min(hits)]

ahocorasick_next_no_fail(nodes, p, letter) ==                      \* mutant
    IF letter \in ToSet(nodes[p].next) THEN Append(p, letter) ELSE Root

\* The next state over a letter; FREED if the loop reads a freed node.
ahocorasick_next(nodes, p, letter) ==
    LET from == FirstBack(nodes, p, LAMBDA q : letter \in ToSet(nodes[q].next))
    IN  IF from = NULL THEN Root
        ELSE IF from = FREED THEN FREED
        ELSE trienode_get_next(nodes, from, letter)

\* The next output after and including p: a node that ends a word, NULL, or FREED.
NextOutput(nodes, p) == FirstBack(nodes, p, LAMBDA q : nodes[q].eow)

(***************************************************************************)
(* The heap that add_word and make_automaton leave for a set of words: the *)
(* order of the children is not observable in a search.                    *)
(***************************************************************************)
PathsOf(words) == {<<>>} \cup UNION {Prefixes(w) : w \in words}

Built(words) ==
    LET paths == PathsOf(words)
        unlinked == [p \in paths |->
                        [trienode_new EXCEPT
                            !.next = SetToSeq({l \in Letters : Append(p, l) \in paths}),
                            !.eow = p \in words]]
    IN  [p \in paths |-> [unlinked[p] EXCEPT
                            !.fail = IF p = Root THEN NULL ELSE LongestSuffix(unlinked, p)]]

(***************************************************************************)
(* Reference: the occurrences <<end, w>> of words in a text, `end' being   *)
(* the index (from 0) of the last letter of the occurrence.                *)
(***************************************************************************)
Occurs(w, text, end) ==
    /\ Len(w) <= end + 1
    /\ SubSeq(text, end + 2 - Len(w), end + 1) = w

Occurrences(words, text) ==
    {m \in (0..(Len(text) - 1)) \X words : Occurs(m[2], text, m[1])}
=============================================================================
