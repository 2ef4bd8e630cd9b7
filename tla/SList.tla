------------------------------- MODULE SList -------------------------------
(***************************************************************************)
(* The singly linked list of src/src/slist.c, which make_automaton uses as *)
(* a queue and the items iterator as a stack: two pointers, to the first   *)
(* and the last item, and in every allocated item one to the item behind   *)
(* it.  Allocating an item is part of adding it, freeing it part of        *)
(* popping it, as in the code that calls these functions.                  *)
(***************************************************************************)
EXTENDS Integers, Sequences, FiniteSets, SequencesExt, Functions

CONSTANT nil     \* the null pointer in a list

list_init == [head |-> nil, last |-> nil, next |-> [item \in {} |-> nil]]

\* The links once a new item has been allocated.
list_item_new(next, item) ==
    [x \in DOMAIN next \cup {item} |-> IF x = item THEN nil ELSE next[x]]

list_append(list, item) ==
    LET next == list_item_new(list.next, item)
    IN  IF list.last # nil
        THEN [head |-> list.head, last |-> item, next |-> [next EXCEPT ![list.last] = item]]
        ELSE [head |-> item, last |-> item, next |-> next]

list_push_front(list, item) ==
    LET next == list_item_new(list.next, item)
    IN  IF list.head # nil
        THEN [head |-> item, last |-> list.last, next |-> [next EXCEPT ![item] = list.head]]
        ELSE [head |-> item, last |-> item, next |-> next]

list_pop_first_keeps_last(list) ==                                 \* mutant
    IF list.head = nil THEN list
    ELSE [list EXCEPT !.head = list.next[list.head],
                      !.next = Restrict(@, DOMAIN @ \ {list.head})]

list_pop_first(list) ==
    IF list.head = nil THEN list
    ELSE LET behind == list.next[list.head]
         IN  [head |-> behind,
              last |-> IF behind = nil THEN nil ELSE list.last,
              next |-> Restrict(list.next, DOMAIN list.next \ {list.head})]

\* The items met from the head on.
Chain(list) ==
    LET item[k \in 0..Cardinality(DOMAIN list.next)] ==
            IF k = 0 THEN list.head
            ELSE IF item[k - 1] \in DOMAIN list.next THEN list.next[item[k - 1]] ELSE nil
    IN  {item[k] : k \in DOMAIN item} \ {nil}

list_delete(list) ==
    [list_init EXCEPT !.next = Restrict(list.next, DOMAIN list.next \ Chain(list))]

(***************************************************************************)
(* What a list stands for: the sequence of its items.  The items allocated *)
(* are those of the sequence, each once, and the pointers lead through     *)
(* them in order.                                                          *)
(***************************************************************************)
IsList(list, s) ==
    /\ IsInjective(s) /\ DOMAIN list.next = {s[k] : k \in DOMAIN s} /\ nil \notin DOMAIN list.next
    /\ list.head = IF s = <<>> THEN nil ELSE s[1]
    /\ list.last = IF s = <<>> THEN nil ELSE s[Len(s)]
    /\ \A k \in DOMAIN s : list.next[s[k]] = IF k = Len(s) THEN nil ELSE s[k + 1]
=============================================================================
