------------------------------- MODULE Pickle -------------------------------
(***************************************************************************)
(* pickle.dumps and pickle.loads of an automaton: __reduce__ of            *)
(* src/src/Automaton_pickle.c with the buffers of src/src/pickle/, and the *)
(* constructor called with what __reduce__ returned.                       *)
(*                                                                         *)
(* __reduce__ works in place.  It overwrites the fail link of every node   *)
(* with the address of a NodeID (NODEID), which holds the original link    *)
(* and the node's number, writes the nodes with numbers for pointers, and  *)
(* puts the links back.  Every allocation on the way may fail, there and   *)
(* in the constructor.  A pickle may also be damaged where it is kept.     *)
(*                                                                         *)
(* Sizes are in units of four bytes: 2 for the counter of an array, 6 for  *)
(* a node without its last field, 3 for a packed Pair.  Python's reference *)
(* counts of the lists made here are left out, except for the list that is *)
(* released twice.                                                         *)
(***************************************************************************)
EXTENDS Automaton

CONSTANTS ArraySize,  \* array_size, 16 MB in the code: the longest byte array
          NODEID      \* the address of a NodeID

CounterSize == 2
NodeSize == 6
PairSize == 3

ASSUME PickleAssumption ==
    /\ ArraySize \in Nat
    /\ ArraySize >= CounterSize + NodeSize + PairSize * Cardinality(Letters)
    /\ NODEID \notin Seq(Letters) \cup {NULL, FREED}

VARIABLES dump,     \* what a running __reduce__ works on, or NoDump
          pickled,  \* the arguments of the constructor that __reduce__ returned
          load      \* what a running constructor works on, then its result

pickleVars == <<vars, dump, pickled, load>>
others == <<kind, store, count, longest_word, version, stats, refs, locals>>
untouched == <<nodes, others>>

NoDump == [visited |-> 0]
NotPickled == [args |-> -1]
NoLoad == [result |-> "none"]

InitPickle == Init /\ dump = NoDump /\ pickled = NotPickled /\ load = NoLoad

-----------------------------------------------------------------------------
(***************************************************************************)
(* trie_traverse: a node, then its children in the order of `next'.        *)
(***************************************************************************)
Position(next, l) == CHOOSE j \in DOMAIN next : next[j] = l

Before(q, p) ==
    \/ IsStrictPrefix(q, p)
    \/ \E k \in 0..(Min({Len(p), Len(q)}) - 1) :
        /\ At(p, k) = At(q, k)
        /\ Position(nodes[At(p, k)].next, q[k + 1]) < Position(nodes[At(p, k)].next, p[k + 1])

Rank(p) == Cardinality({q \in DOMAIN nodes : Before(q, p)}) + 1

trie_traverse ==
    [j \in 1..Cardinality(DOMAIN nodes) |-> CHOOSE p \in DOMAIN nodes : Rank(p) = j]

\* The node the running traversal calls back with, while there is one.
Traversed == dump.visited > Cardinality(DOMAIN nodes)
Visited == trie_traverse[dump.visited]

get_pickled_size(next) == NodeSize + PairSize * Len(next)

-----------------------------------------------------------------------------
(***************************************************************************)
(* __reduce__, step 1: number the nodes.                                   *)
(***************************************************************************)
NewDump == [visited |-> 1, before |-> nodes, node_ids |-> [p \in {} |-> NULL],
            total_size |-> 0, failed_on |-> NULL, bytes_list |-> NULL, size |-> 0, top |-> 0,
            values |-> NULL, tuple |-> NotPickled]

automaton___reduce__ ==
    /\ pc = "idle" /\ dump = NoDump /\ pickled = NotPickled
    /\ IF count = 0
       THEN pickled' = [args |-> 0] /\ UNCHANGED <<pc, dump>>
       ELSE pc' = "number" /\ dump' = NewDump /\ UNCHANGED pickled
    /\ ret' = Result("__reduce__", 0)
    /\ UNCHANGED <<untouched, load>>

NewNodeID(p) == [id |-> dump.visited, fail |-> nodes[p].fail]

pickle_dump_replace_fail_with_id ==
    /\ pc = "number" /\ ~Traversed
    /\ \/ /\ nodes' = [nodes EXCEPT ![Visited].fail = NODEID]
          /\ dump' = [dump EXCEPT !.visited = @ + 1,
                                  !.node_ids = [p \in DOMAIN @ \cup {Visited} |->
                                      IF p = Visited THEN NewNodeID(p) ELSE @[p]],
                                  !.total_size = @ + get_pickled_size(nodes[Visited].next)]
          /\ UNCHANGED pc
       \/ /\ MemoryFails
          /\ dump' = [dump EXCEPT !.failed_on = Visited, !.visited = 1]
          /\ pc' = "revert"
          /\ UNCHANGED nodes
    /\ UNCHANGED <<others, ret, pickled, load>>

(***************************************************************************)
(* Step 2: write the nodes.  A node that does not fit in the rest of the   *)
(* current array opens another.                                            *)
(***************************************************************************)
pickle_data__add_next_buffer_no_counter(d) ==                      \* mutant
    [d EXCEPT !.bytes_list = Append(@, [length |-> d.size, count |-> 0, nodes |-> <<>>]),
              !.top = 0]

pickle_data__add_next_buffer(d) ==
    [d EXCEPT !.bytes_list = Append(@, [length |-> d.size, count |-> 0, nodes |-> <<>>]),
              !.top = CounterSize]

Exception(d) == pc' = "exception" /\ dump' = [d EXCEPT !.visited = 1]

\* When the list of values cannot be made, bytes_list is released but not reset.
pickle_data__init ==
    /\ pc = "number" /\ Traversed
    /\ \/ /\ pc' = "save"
          /\ dump' = pickle_data__add_next_buffer(
                [dump EXCEPT !.visited = 1, !.bytes_list = <<>>,
                             !.values = IF store = "ANY" THEN <<>> ELSE NULL,
                             !.size = IF dump.total_size <= ArraySize
                                      THEN dump.total_size + CounterSize ELSE ArraySize])
       \/ /\ MemoryFails
          /\ \E list \in {NULL, <<>>} \cup (IF store = "ANY" THEN {FREED} ELSE {}) :
                Exception([dump EXCEPT !.bytes_list = list])
    /\ UNCHANGED <<nodes, others, ret, pickled, load>>

HasValue == nodes[Visited].eow /\ dump.values # NULL
Overflows == dump.top + get_pickled_size(nodes[Visited].next) > dump.size
OriginalFail == dump.node_ids[Visited].fail
NumberOf(p) == dump.node_ids[p].id

Dumped(p) ==
    [output |-> IF dump.values = NULL THEN nodes[p].output ELSE 0,
     eow    |-> nodes[p].eow,
     fail   |-> IF OriginalFail = NULL THEN 0 ELSE NumberOf(OriginalFail),
     next   |-> [j \in DOMAIN nodes[p].next |->
                    [letter |-> nodes[p].next[j],
                     child  |-> NumberOf(Append(p, nodes[p].next[j]))]]]

pickle_dump_save ==
    LET d == IF Overflows THEN pickle_data__add_next_buffer(dump) ELSE dump
        last == Len(d.bytes_list)
    IN  /\ pc = "save" /\ ~Traversed
        /\ OriginalFail \in DOMAIN nodes \cup {NULL}
        /\ dump' = [d EXCEPT !.bytes_list[last].nodes = Append(@, Dumped(Visited)),
                             !.bytes_list[last].count = @ + 1,
                             !.values = IF HasValue THEN Append(@, nodes[Visited].output) ELSE @,
                             !.top = @ + get_pickled_size(nodes[Visited].next),
                             !.visited = @ + 1]
        /\ UNCHANGED <<untouched, pc, ret, pickled, load>>

pickle_dump_save_no_memory ==
    /\ pc = "save" /\ ~Traversed /\ MemoryFails
    /\ Overflows \/ HasValue
    /\ Exception(dump)
    /\ UNCHANGED <<untouched, ret, pickled, load>>

\* The number of the node that `fail' leads to is read from a node that was freed.
pickle_dump_save_crashes ==
    /\ pc = "save" /\ ~Traversed
    /\ OriginalFail \notin DOMAIN nodes \cup {NULL}
    /\ pc' = "crash"
    /\ UNCHANGED <<untouched, ret, dump, pickled, load>>

(***************************************************************************)
(* Step 3: the last array is cut to what it holds and the tuple made.      *)
(***************************************************************************)
pickle_data__shrink_last_buffer(list) ==
    IF dump.top >= dump.size THEN list ELSE [list EXCEPT ![Len(list)].length = dump.top]

BuildTuple ==
    /\ pc = "save" /\ Traversed
    /\ \/ /\ pc' = "undo"
          /\ dump' = [dump EXCEPT !.visited = 1, !.tuple =
                [args |-> 7, damaged |-> FALSE,
                 bytes_list |-> pickle_data__shrink_last_buffer(dump.bytes_list),
                 kind |-> kind, store |-> store, count |-> count, longest_word |-> longest_word,
                 values |-> dump.values]]
       \/ MemoryFails /\ Exception(dump)
    /\ UNCHANGED <<untouched, ret, pickled, load>>

\* The fail links are put back; after a failure in step 1, up to the node it failed on.
pickle_dump_undo_replace ==
    /\ pc \in {"revert", "undo", "exception"} /\ ~Traversed
    /\ Visited # dump.failed_on
    /\ nodes' = [nodes EXCEPT ![Visited].fail = OriginalFail]
    /\ dump' = [dump EXCEPT !.visited = @ + 1,
                            !.node_ids = [p \in DOMAIN @ \ {Visited} |-> @[p]]]
    /\ UNCHANGED <<others, pc, ret, pickled, load>>

ReturnError ==
    pc' = "idle" /\ dump' = NoDump /\ ret' = Raise("__reduce__", "MemoryError")

RevertDone_at_once ==                                              \* mutant
    /\ pc = "revert"
    /\ ReturnError
    /\ UNCHANGED <<untouched, pickled, load>>

RevertDone ==
    /\ pc = "revert" /\ Visited = dump.failed_on
    /\ ReturnError
    /\ UNCHANGED <<untouched, pickled, load>>

UndoDone ==
    /\ pc = "undo" /\ Traversed
    /\ pc' = "idle" /\ dump' = NoDump /\ pickled' = dump.tuple
    /\ UNCHANGED <<untouched, ret, load>>

\* pickle_data__cleanup releases bytes_list.
ExceptionDone ==
    /\ pc = "exception" /\ Traversed
    /\ IF dump.bytes_list = FREED THEN pc' = "crash" /\ UNCHANGED <<dump, ret>> ELSE ReturnError
    /\ UNCHANGED <<untouched, pickled, load>>

-----------------------------------------------------------------------------
(***************************************************************************)
(* What can happen to a pickle on its way: an array is cut, the last array *)
(* or the last value is lost.                                              *)
(***************************************************************************)
Damage ==
    /\ pc = "idle" /\ load = NoLoad /\ pickled.args = 7 /\ ~pickled.damaged
    /\ \/ \E k \in DOMAIN pickled.bytes_list :
            \E cut \in CounterSize..(pickled.bytes_list[k].length - 1) :
                pickled' = [pickled EXCEPT !.damaged = TRUE, !.bytes_list[k].length = cut]
       \/ /\ Len(pickled.bytes_list) > 1
          /\ pickled' = [pickled EXCEPT !.damaged = TRUE, !.bytes_list = Front(@)]
       \/ /\ pickled.values \notin {NULL, <<>>}
          /\ pickled' = [pickled EXCEPT !.damaged = TRUE, !.values = Front(@)]
    /\ UNCHANGED <<vars, dump, load>>

-----------------------------------------------------------------------------
(***************************************************************************)
(* The constructor.  <<j>> is the address of the j-th node made, `live'    *)
(* the number of nodes allocated, `refs' the references taken.  Bound: it  *)
(* is called once.                                                         *)
(***************************************************************************)
NewLoad == [result |-> "running", chunk |-> 1, item |-> 1, offset |-> CounterSize,
            id2node |-> <<>>, live |-> 0, restored |-> 0, object_idx |-> 0,
            refs |-> [o \in Objects |-> 0]]

NewAutomaton(tuple) ==
    [result |-> "automaton", id2node |-> <<>>, live |-> 0, refs |-> [o \in Objects |-> 0],
     kind |-> "EMPTY", store |-> "ANY", count |-> 0, longest_word |-> 0]

NodesCount == MapThenSumSet(LAMBDA k : pickled.bytes_list[k].count, DOMAIN pickled.bytes_list)

\* The references to the first n values are given up.
Released_none(held, n) == held                                     \* mutant
Released(held, n) ==
    [o \in Objects |-> held[o] - Cardinality({j \in 1..n : pickled.values[j] = o})]

\* exception: the nodes in id2node are freed and the values taken released.
Refuse(l, exc) ==
    /\ load' = [result |-> exc, live |-> l.live - Len(l.id2node),
                refs |-> IF pickled.values = NULL THEN l.refs ELSE Released(l.refs, l.object_idx)]
    /\ pc' = "idle"
    /\ ret' = Raise("new", exc)

automaton_new ==
    /\ pc = "idle" /\ dump = NoDump /\ pickled # NotPickled /\ load = NoLoad
    /\ IF pickled.args = 0 \/ pickled.kind = "EMPTY"
       THEN load' = NewAutomaton(pickled) /\ ret' = Result("new", 0) /\ UNCHANGED pc
       ELSE IF \E k \in DOMAIN pickled.bytes_list : pickled.bytes_list[k].count <= 0
       THEN Refuse(NewLoad, "ValueError")
       ELSE \/ load' = NewLoad /\ pc' = "make_nodes" /\ UNCHANGED ret
            \/ MemoryFails /\ Refuse(NewLoad, "MemoryError")
    /\ UNCHANGED <<untouched, dump, pickled>>

\* Unpickling, step 1: make the nodes, with numbers for pointers.
Chunk == pickled.bytes_list[load.chunk]
Raw == Chunk.nodes[load.item]

Allocated == [load EXCEPT !.live = @ + 1, !.id2node = Append(@, Raw)]

MakeNode ==
    /\ pc = "make_nodes" /\ load.chunk <= Len(pickled.bytes_list)
    /\ IF load.offset + NodeSize > Chunk.length THEN Refuse(load, "ValueError")
       ELSE \/ IF load.offset + get_pickled_size(Raw.next) > Chunk.length
               THEN Refuse(Allocated, "ValueError")
               ELSE /\ load' = IF load.item < Chunk.count
                               THEN [Allocated EXCEPT !.item = @ + 1,
                                        !.offset = @ + get_pickled_size(Raw.next)]
                               ELSE [Allocated EXCEPT !.item = 1, !.chunk = @ + 1,
                                        !.offset = CounterSize]
                    /\ UNCHANGED <<pc, ret>>
            \/ MemoryFails /\ Refuse(load, "MemoryError")
            \/ MemoryFails /\ Raw.next # <<>>
               /\ load.offset + get_pickled_size(Raw.next) <= Chunk.length
               /\ Refuse(Allocated, "MemoryError")
    /\ UNCHANGED <<untouched, dump, pickled>>

NodesMade ==
    /\ pc = "make_nodes" /\ load.chunk > Len(pickled.bytes_list)
    /\ pc' = "restore"
    /\ UNCHANGED <<untouched, ret, dump, pickled, load>>

\* Step 2: numbers become pointers, and the values come back in the order they left.
InRange_unchecked(number) == TRUE                                  \* mutant
InRange(number) == number < NodesCount + 1

RestoreNode ==
    LET j == load.restored + 1
        raw == load.id2node[j]
        valued == pickled.values # NULL /\ raw.eow
        value == pickled.values[load.object_idx + 1]
        l == IF valued THEN [load EXCEPT !.object_idx = @ + 1, !.refs[value] = @ + 1] ELSE load
        numbers == {raw.fail} \cup {pair.child : pair \in ToSet(raw.next)}
    IN  /\ pc = "restore" /\ j <= Len(load.id2node)
        /\ IF valued /\ load.object_idx >= Len(pickled.values) THEN Refuse(load, "IndexError")
           ELSE IF \E number \in numbers : ~InRange(number) THEN Refuse(l, "ValueError")
           ELSE /\ load' = [l EXCEPT !.restored = j, !.id2node[j] =
                    [output |-> IF valued THEN value ELSE raw.output,
                     eow    |-> raw.eow,
                     fail   |-> IF raw.fail = 0 THEN NULL ELSE <<raw.fail>>,
                     next   |-> [k \in DOMAIN raw.next |->
                                    [letter |-> raw.next[k].letter,
                                     child  |-> <<raw.next[k].child>>]]]]
                /\ UNCHANGED <<pc, ret>>
        /\ UNCHANGED <<untouched, dump, pickled>>

Restored ==
    /\ pc = "restore" /\ load.restored = Len(load.id2node)
    /\ load' = [NewAutomaton(pickled) EXCEPT
                    !.id2node = load.id2node, !.live = load.live, !.refs = load.refs,
                    !.kind = pickled.kind, !.store = pickled.store, !.count = pickled.count,
                    !.longest_word = pickled.longest_word]
    /\ pc' = "idle" /\ ret' = Result("new", 0)
    /\ UNCHANGED <<untouched, dump, pickled>>

-----------------------------------------------------------------------------
PickleStep ==
    \/ automaton___reduce__
    \/ pickle_dump_replace_fail_with_id \/ pickle_data__init
    \/ pickle_dump_save \/ pickle_dump_save_no_memory \/ pickle_dump_save_crashes
    \/ BuildTuple
    \/ pickle_dump_undo_replace \/ RevertDone \/ UndoDone \/ ExceptionDone
    \/ Damage
    \/ automaton_new \/ MakeNode \/ NodesMade \/ RestoreNode \/ Restored

-----------------------------------------------------------------------------
(***************************************************************************)
(* Whatever __reduce__ returned or raised, every fail link it overwrote is *)
(* back, wherever it failed.                                               *)
(***************************************************************************)
ReduceRestores ==
    [][dump # NoDump /\ pc' = "idle" => nodes' = dump.before]_pickleVars

(***************************************************************************)
(* Every array holds at least one node, so that unpickling accepts it, and *)
(* the nodes written to it, after its counter, do not run over its end.    *)
(***************************************************************************)
Used(chunk) ==
    CounterSize + MapThenSumSet(LAMBDA j : get_pickled_size(chunk.nodes[j].next),
                                DOMAIN chunk.nodes)

ChunksOK ==
    pickled.args = 7 /\ ~pickled.damaged =>
        \A k \in DOMAIN pickled.bytes_list :
            LET chunk == pickled.bytes_list[k]
            IN  /\ chunk.count = Len(chunk.nodes) /\ chunk.count > 0
                /\ Used(chunk) <= chunk.length
                /\ k = Len(pickled.bytes_list) => Used(chunk) = chunk.length

(***************************************************************************)
(* An automaton that comes out of a pickle, damaged or not, is the one     *)
(* that went in: the same shape with the same letters, keys, values and    *)
(* fail links, one reference taken per key.  Only one without words comes  *)
(* back with the default store (automaton___reduce__ drops it).            *)
(***************************************************************************)
SameNodes ==
    LET order == trie_traverse
        address(p) == IF p = NULL THEN NULL ELSE <<Position(order, p)>>
    IN  /\ Len(load.id2node) = Len(order)
        /\ \A j \in DOMAIN order :
            LET p == order[j]
                copy == load.id2node[j]
            IN  /\ copy.eow = nodes[p].eow
                /\ copy.eow => copy.output = nodes[p].output
                /\ copy.fail = address(nodes[p].fail)
                /\ copy.next = [k \in DOMAIN nodes[p].next |->
                                    [letter |-> nodes[p].next[k],
                                     child  |-> address(Append(p, nodes[p].next[k]))]]

RoundTrip ==
    load.result = "automaton" =>
        /\ load.count = count
        /\ load.refs = refs
        /\ IF count = 0 THEN load.id2node = <<>> /\ Keys(nodes) = {}
           ELSE /\ load.kind = kind /\ load.store = store /\ load.longest_word = longest_word
                /\ SameNodes

(***************************************************************************)
(* A constructor that raises leaves nothing behind: the nodes made so far  *)
(* are freed, also the one whose array of links could not be allocated,    *)
(* and each value taken is released once.                                  *)
(***************************************************************************)
NothingLeft ==
    load.result \notin {"none", "running", "automaton"} =>
        load.live = 0 /\ load.refs = [o \in Objects |-> 0]

(***************************************************************************)
(* __reduce__ follows a link to a freed node only where remove_word left   *)
(* one and make_automaton has not been called since: an automaton that can *)
(* search can be pickled.  The other crash is the list released twice when *)
(* the list of values cannot be made.                                      *)
(***************************************************************************)
SafeUnlessStale ==
    pc = "crash" =>
        \/ dump.bytes_list = FREED
        \/ kind = "TRIE" /\ \E p \in DOMAIN nodes : dump.before[p].fail = FREED
=============================================================================
