--------------------------- MODULE AutomatonProofs ---------------------------
(***************************************************************************)
(* Theorems about the Automaton, for every alphabet, set of words, kind of *)
(* store, object and integer.                                              *)
(*                                                                         *)
(* First what holds with or without memory failures: the heap is a tree,   *)
(* the words and the references are counted, and a map is implemented.     *)
(*                                                                         *)
(* Then what the trie answers, and what its callers build on.  As long as  *)
(* every allocation succeeds: an automaton has a root unless it is EMPTY,  *)
(* no node is deeper than longest_word, every leaf is a key, and therefore *)
(* the calls that read by walking links answer like a set of keys.  A      *)
(* failed add_word breaks the first three, hence the assumption.           *)
(*                                                                         *)
(* Then make_automaton: whatever it is run on, it follows only links that  *)
(* it has made itself, and the links it leaves are those of the textbook.  *)
(* Then the version: a step that keeps it keeps the trie, and so the       *)
(* statistics that get_stats caches.                                       *)
(***************************************************************************)
EXTENDS Automaton, TrieProofs

-----------------------------------------------------------------------------
(***************************************************************************)
(* The inductive invariant.  ObjectOK and TreeOK are not inductive alone:  *)
(* make_automaton's locals must name nodes that exist (FrameOK), which     *)
(* needs a root (RootOK), and count stays a natural number because it is   *)
(* at least the number of words (EnoughCount).                             *)
(***************************************************************************)
Building == pc \in {"level1", "pop", "child", "walk"}

FrameOK ==
    /\ pc \in {"idle", "level1"} => node = Root
    /\ pc = "idle" => queue = <<>>
    /\ Building => kind = "TRIE" /\ version < MaxVersion /\ queue \in Seq(DOMAIN nodes)
    /\ pc \in {"child", "walk"} => node \in DOMAIN nodes
    /\ pc = "walk" => state \in DOMAIN nodes /\ i <= Len(nodes[node].next)

RootOK == kind # "EMPTY" => HasRoot

EnoughCount == IsFiniteSet(DOMAIN nodes) /\ Cardinality(Keys(nodes)) <= count

IInv == ObjectOK /\ TreeOK /\ RootOK /\ EnoughCount /\ FrameOK

-----------------------------------------------------------------------------
(* The heap after each operation that changes it. *)

\* Storing a value in a node and marking it as the end of a word.
LEMMA MarkTree ==
    ASSUME NEW h, Heap(h), Tree(h), NEW w \in DOMAIN h, NEW v \in Int
    PROVE  LET g == [h EXCEPT ![w].eow = TRUE, ![w].output = v]
           IN  /\ Heap(g) /\ Tree(g) /\ DOMAIN g = DOMAIN h
               /\ Keys(g) = Keys(h) \cup {w}
               /\ \A p \in DOMAIN h : g[p].output = IF p = w THEN v ELSE h[p].output
<1> DEFINE g == [h EXCEPT ![w].eow = TRUE, ![w].output = v]
<1>1. /\ DOMAIN g = DOMAIN h
      /\ \A p \in DOMAIN h : /\ g[p] \in TrieNode /\ g[p].next = h[p].next
                             /\ g[p].eow = (h[p].eow \/ p = w)
                             /\ g[p].output = IF p = w THEN v ELSE h[p].output
    BY DEF Heap, TrieNode
<1>2. g = [p \in DOMAIN g |-> g[p]]
    OBVIOUS
<1> HIDE DEF g
<1>3. Heap(g)
    BY <1>1, <1>2 DEF Heap
<1>4. Tree(g)
    BY <1>1 DEF Tree, PrefixClosed, LinksLive, OneLinkPerLetter
<1>5. Keys(g) = Keys(h) \cup {w}
    BY <1>1 DEF Keys
<1> QED
    BY <1>1, <1>3, <1>4, <1>5 DEF g

\* A heap that differs from h at most in its values and fail links.
SameLinks(h, g) ==
    /\ DOMAIN g = DOMAIN h /\ g \in [DOMAIN h -> TrieNode]
    /\ \A p \in DOMAIN h : g[p].next = h[p].next /\ g[p].eow = h[p].eow

LEMMA FailTree ==
    ASSUME NEW h, Heap(h), Tree(h), NEW g, SameLinks(h, g)
    PROVE  Heap(g) /\ Tree(g) /\ Keys(g) = Keys(h)
<1>1. Heap(g)
    BY DEF SameLinks, Heap
<1>2. Tree(g)
    BY DEF SameLinks, Tree, PrefixClosed, LinksLive, OneLinkPerLetter
<1>3. Keys(g) = Keys(h)
    BY DEF SameLinks, Keys
<1> QED
    BY <1>1, <1>2, <1>3

\* The nodes that Grow makes end no word.
LEMMA GrowKeys ==
    ASSUME NEW h, Heap(h), Tree(h), NEW w \in Seq(Letters), NEW k \in 0..Len(w)
    PROVE  /\ Heap(Grow(h, w, k)) /\ DOMAIN h \subseteq DOMAIN Grow(h, w, k)
           /\ Keys(Grow(h, w, k)) = Keys(h)
           /\ \A p \in DOMAIN h : Grow(h, w, k)[p].output = h[p].output
                                  /\ Grow(h, w, k)[p].eow = h[p].eow
<1> DEFINE g == Grow(h, w, k)
<1>1. Grown(h, w, k, g)
    BY GrowShape
<1> HIDE DEF g
<1>2. /\ Heap(g) /\ DOMAIN h \subseteq DOMAIN g
      /\ \A p \in DOMAIN h : g[p].output = h[p].output /\ g[p].eow = h[p].eow
      /\ \A p \in DOMAIN g \ DOMAIN h : ~g[p].eow
    BY <1>1 DEF Grown
<1>3. Keys(g) = Keys(h)
    BY <1>2 DEF Keys
<1> QED
    BY <1>2, <1>3 DEF g

\* The empty heap.
LEMMA EmptyTree == Heap(EmptyHeap) /\ Tree(EmptyHeap) /\ DOMAIN EmptyHeap = {} /\ Keys(EmptyHeap) = {}
<1>1. DOMAIN EmptyHeap = {}
    BY DEF EmptyHeap
<1>2. Heap(EmptyHeap)
    BY DEF EmptyHeap, Heap
<1> QED
    BY <1>1, <1>2 DEF Tree, PrefixClosed, LinksLive, OneLinkPerLetter, Keys

-----------------------------------------------------------------------------
(* Initially, and step by step. *)

\* The invariant holds of a new automaton.
LEMMA InitInvariant == Init => IInv
<1> SUFFICES ASSUME Init PROVE IInv
    OBVIOUS
<1> USE DEF Init
<1>1. Heap(nodes) /\ Tree(nodes) /\ DOMAIN nodes = {} /\ Keys(nodes) = {}
    BY EmptyTree
<1>2. <<>> \in Seq(Letters) /\ <<>> \in Seq(Seq(Letters))
    BY EmptySeq
<1>3. stats.version = -1 /\ MaxVersion \in Nat
    BY ConstantAssumption DEF NoStats
<1>4. ObjectOK
    BY <1>1, <1>2, <1>3 DEF ObjectOK, Root, Pointer
<1>5. EnoughCount
    BY <1>1, FS_EmptySet DEF EnoughCount
<1> QED
    BY <1>1, <1>4, <1>5 DEF IInv, TreeOK, RootOK, FrameOK, Building

\* Every word is a path, every value a number.
LEMMA ValueType ==
    ASSUME ObjectOK, NEW w \in Words
    PROVE  /\ w \in Seq(Letters) /\ w # <<>> /\ Len(w) \in Nat \ {0} /\ Len(w) \in 0..Len(w)
           /\ At(w, Len(w)) = w
           /\ ValuesFor(w) \subseteq Int
<1>1. w \in Seq(Letters) /\ w # <<>>
    BY ConstantAssumption
<1>2. Len(w) \in Nat \ {0}
    BY <1>1, EmptySeq
<1>3. At(w, Len(w)) = w
    BY <1>1, <1>2, AtAt
<1>4. store \in {"ANY", "INTS", "LENGTH"} /\ count + 1 \in Int
    BY ConstantAssumption DEF ObjectOK
<1>5. ValuesFor(w) \subseteq Int
    BY <1>2, <1>4, ConstantAssumption DEF ValuesFor
<1> QED
    BY <1>1, <1>2, <1>3, <1>5

\* Taking and giving references keeps them counted.
LEMMA RefsType ==
    ASSUME NEW counts \in [Objects -> Int], NEW v
    PROVE  Retain(counts, v) \in [Objects -> Int] /\ Release(counts, v) \in [Objects -> Int]
<1>1. [counts EXCEPT ![v] = @ + 1] \in [Objects -> Int]
  <2>1. v \in Objects => counts[v] + 1 \in Int
    OBVIOUS
  <2> QED
    BY <2>1
<1>2. [counts EXCEPT ![v] = @ - 1] \in [Objects -> Int]
  <2>1. v \in Objects => counts[v] - 1 \in Int
    OBVIOUS
  <2> QED
    BY <2>1
<1> QED
  BY <1>1, <1>2 DEF Retain, Release

\* add_word.
LEMMA AddWordInvariant ==
    ASSUME IInv, NEW w \in Words, NEW v \in ValuesFor(w), automaton_add_word(w, v)
    PROVE  IInv'
<1> DEFINE grown == Grow(nodes, w, Len(w))
           new_word == ~grown[w].eow
<1>1. /\ w \in Seq(Letters) /\ Len(w) \in Nat \ {0} /\ Len(w) \in 0..Len(w)
      /\ At(w, Len(w)) = w /\ v \in Int
    BY ValueType DEF IInv
<1>2. Heap(nodes) /\ Tree(nodes) /\ IsFiniteSet(DOMAIN nodes)
    BY DEF IInv, ObjectOK, TreeOK, EnoughCount
<1>3. /\ Heap(grown) /\ Tree(grown) /\ w \in DOMAIN grown /\ <<>> \in DOMAIN grown
      /\ Keys(grown) = Keys(nodes) /\ IsFiniteSet(DOMAIN grown)
    BY <1>1, <1>2, GrowTree, GrowKeys, GrowFinite
<1>4. /\ pc = "idle" /\ version < MaxVersion
      /\ nodes' = [grown EXCEPT ![w].eow = TRUE, ![w].output = v]
      /\ refs' = Retain(IF new_word THEN refs ELSE Release(refs, grown[w].output), v)
      /\ count' = count + Bool(new_word) /\ version' = version + Bool(new_word)
      /\ longest_word' = (IF new_word THEN NewLongest(w) ELSE longest_word)
      /\ kind' = "TRIE"
      /\ UNCHANGED <<store, stats, pc, queue, node, i, state>>
    BY DEF automaton_add_word, NewVersion, locals
<1>5. new_word <=> w \notin Keys(nodes)
    BY <1>3 DEF Keys
<1> HIDE DEF grown, new_word
<1>6. /\ Heap(nodes') /\ Tree(nodes') /\ DOMAIN nodes' = DOMAIN grown
      /\ Keys(nodes') = Keys(nodes) \cup {w}
  <2> DEFINE marked == [grown EXCEPT ![w].eow = TRUE, ![w].output = v]
  <2>1. /\ Heap(marked) /\ Tree(marked) /\ DOMAIN marked = DOMAIN grown
        /\ Keys(marked) = Keys(grown) \cup {w}
    BY <1>1, <1>3, MarkTree
  <2> HIDE DEF marked
  <2>2. nodes' = marked
    BY <1>4 DEF marked
  <2> QED
    BY <1>3, <2>1, <2>2
<1>7. EnoughCount'
  <2>1. IsFiniteSet(Keys(nodes))
    BY <1>2, FS_Subset DEF Keys
  <2>2. Cardinality(Keys(nodes) \cup {w}) =
            IF w \in Keys(nodes) THEN Cardinality(Keys(nodes)) ELSE Cardinality(Keys(nodes)) + 1
    BY <2>1, FS_AddElement
  <2>3. Cardinality(Keys(nodes)) \in Nat /\ Cardinality(Keys(nodes)) <= count /\ count \in Nat
    BY <2>1, FS_CardinalityType DEF IInv, EnoughCount, ObjectOK
  <2>4. Cardinality(Keys(nodes')) <= count'
    <3>1. CASE w \in Keys(nodes)
      <4>1. count' = count + 0
        BY <1>4, <1>5, <3>1 DEF Bool
      <4> QED
        BY <1>6, <2>2, <2>3, <3>1, <4>1
    <3>2. CASE w \notin Keys(nodes)
      <4>1. count' = count + 1
        BY <1>4, <1>5, <3>2 DEF Bool
      <4> QED
        BY <1>6, <2>2, <2>3, <3>2, <4>1
    <3> QED
      BY <3>1, <3>2
  <2> QED
    BY <1>3, <1>6, <2>4 DEF EnoughCount
<1>8. ObjectOK'
  <2>1. refs' \in [Objects -> Int]
    BY <1>4, RefsType DEF IInv, ObjectOK
  <2>2. count' \in Nat /\ version' \in 0..MaxVersion
    <3>1. count \in Nat /\ version \in 0..MaxVersion
      BY DEF IInv, ObjectOK
    <3>2. Bool(new_word) \in {0, 1}
      BY DEF Bool
    <3> QED
      BY <1>4, <3>1, <3>2, ConstantAssumption
  <2>3. longest_word' \in Nat
    BY <1>1, <1>4 DEF IInv, ObjectOK, NewLongest
  <2> QED
    BY <1>4, <1>6, <2>1, <2>2, <2>3 DEF IInv, ObjectOK
<1>9. RootOK' /\ FrameOK'
    BY <1>3, <1>4, <1>6 DEF RootOK, HasRoot, Root, FrameOK, Building, IInv
<1> QED
    BY <1>6, <1>7, <1>8, <1>9 DEF IInv, TreeOK

\* add_word that runs out of memory.
LEMMA AddWordNoMemoryInvariant ==
    ASSUME IInv, NEW w \in Words, NEW depth \in 0..Len(w),
           automaton_add_word_no_memory(w, depth)
    PROVE  IInv'
<1>1. w \in Seq(Letters) /\ Len(w) \in Nat
    BY ValueType DEF IInv
<1>2. Heap(nodes) /\ Tree(nodes) /\ IsFiniteSet(DOMAIN nodes)
    BY DEF IInv, ObjectOK, TreeOK, EnoughCount
<1>3. /\ pc = "idle"
      /\ nodes' = IF depth = 0 THEN nodes ELSE Grow(nodes, w, depth - 1)
      /\ UNCHANGED <<kind, store, count, longest_word, version, stats, refs, pc,
                      queue, node, i, state>>
    BY DEF automaton_add_word_no_memory, locals
<1>4. /\ Heap(nodes') /\ Tree(nodes') /\ IsFiniteSet(DOMAIN nodes')
      /\ Keys(nodes') = Keys(nodes) /\ DOMAIN nodes \subseteq DOMAIN nodes'
  <2>1. CASE depth = 0
    BY <1>2, <1>3, <2>1
  <2>2. CASE depth # 0
    <3>1. depth - 1 \in 0..Len(w)
      BY <1>1, <2>2
    <3> QED
      BY <1>1, <1>2, <1>3, <2>2, <3>1, GrowTree, GrowKeys, GrowFinite
  <2> QED
    BY <2>1, <2>2
<1>5. ObjectOK'
    BY <1>3, <1>4 DEF IInv, ObjectOK
<1>6. EnoughCount' /\ RootOK' /\ FrameOK'
    BY <1>3, <1>4 DEF IInv, EnoughCount, RootOK, HasRoot, FrameOK, Building
<1> QED
    BY <1>4, <1>5, <1>6 DEF IInv, TreeOK

\* remove_word and pop, of a word that is there.
LEMMA RemoveInvariant ==
    ASSUME IInv, NEW w \in Words, NEW success, NEW absent,
           automaton_remove_word_aux(w, success, absent)
    PROVE  IInv'
<1> DEFINE value == nodes[w].output
<1>1. w \in Seq(Letters) /\ w # <<>> /\ w \in Keys(nodes)
  <2>1. w \in Seq(Letters) /\ Len(w) \in 0..Len(w) /\ w # <<>> /\ Len(w) \in Nat \ {0}
        /\ At(w, Len(w)) = w
    BY ValueType DEF IInv
  <2>2. Reaches(nodes, w, Len(w)) /\ nodes[w].eow
    BY DEF automaton_remove_word_aux, Present, trie_find
  <2>3. Len(w) - 1 \in 0..(Len(w) - 1) /\ Len(w) - 1 + 1 = Len(w)
    BY <2>1
  <2>4. /\ At(w, Len(w) - 1) \in DOMAIN nodes
        /\ w[Len(w)] \in ToSet(nodes[At(w, Len(w) - 1)].next)
    BY <2>2, <2>3 DEF Reaches, trienode_get_next
  <2>5. Append(At(w, Len(w) - 1), w[Len(w)]) = w
    BY <2>1, <2>3, AppendAt
  <2>6. w \in DOMAIN nodes
    BY <2>4, <2>5 DEF IInv, TreeOK, Tree, LinksLive
  <2> QED
    BY <2>1, <2>2, <2>6 DEF Keys
<1>2. /\ Heap(nodes) /\ Tree(nodes) /\ IsFiniteSet(DOMAIN nodes)
      /\ Cardinality(Keys(nodes)) <= count
    BY DEF IInv, ObjectOK, TreeOK, EnoughCount
<1>3. /\ pc = "idle" /\ version < MaxVersion
      /\ nodes' = Unlink(nodes, w) /\ kind' = "TRIE"
      /\ IF value # 0
         THEN /\ version' = version + 1 /\ count' = count - 1
              /\ refs' = Release(refs, value)
         ELSE UNCHANGED <<version, count, refs>>
      /\ UNCHANGED <<store, longest_word, stats, pc, queue, node, i, state>>
    BY DEF automaton_remove_word_aux, locals
<1>4. /\ Heap(nodes') /\ Tree(nodes') /\ DOMAIN nodes' \subseteq DOMAIN nodes
      /\ <<>> \in DOMAIN nodes' /\ Keys(nodes') = Keys(nodes) \ {w}
    BY <1>1, <1>2, <1>3, UnlinkTree
<1>5. /\ IsFiniteSet(DOMAIN nodes')
      /\ Cardinality(Keys(nodes')) = Cardinality(Keys(nodes)) - 1
      /\ Cardinality(Keys(nodes')) \in Nat /\ Cardinality(Keys(nodes)) \in Nat
  <2>1. IsFiniteSet(Keys(nodes))
    BY <1>2, FS_Subset DEF Keys
  <2> QED
    BY <1>1, <1>2, <1>4, <2>1, FS_Subset, FS_RemoveElement, FS_CardinalityType
<1>6. EnoughCount' /\ count' \in Nat
    BY <1>2, <1>3, <1>5 DEF IInv, ObjectOK, EnoughCount
<1>7. ObjectOK'
  <2>1. refs' \in [Objects -> Int]
    BY <1>3, RefsType DEF IInv, ObjectOK
  <2>2. version' \in 0..MaxVersion
    BY <1>3, ConstantAssumption DEF IInv, ObjectOK
  <2> QED
    BY <1>3, <1>4, <1>6, <2>1, <2>2 DEF IInv, ObjectOK
<1>8. RootOK' /\ FrameOK'
    BY <1>3, <1>4 DEF IInv, RootOK, HasRoot, Root, FrameOK, Building
<1> QED
    BY <1>4, <1>6, <1>7, <1>8 DEF IInv, TreeOK

\* clear.
LEMMA ClearInvariant ==
    ASSUME IInv, automaton_clear
    PROVE  IInv'
<1>1. /\ pc = "idle" /\ version < MaxVersion
      /\ nodes' = EmptyHeap /\ refs' = ReleaseAll
      /\ count' = 0 /\ longest_word' = 0 /\ kind' = "EMPTY" /\ version' = version + 1
      /\ UNCHANGED <<store, stats, pc, queue, node, i, state>>
    BY DEF automaton_clear, locals
<1>2. Heap(nodes') /\ Tree(nodes') /\ DOMAIN nodes' = {} /\ Keys(nodes') = {}
    BY <1>1, EmptyTree
<1>3. refs' \in [Objects -> Int]
  <2>1. ASSUME NEW o \in Objects
        PROVE  Cardinality({p \in Keys(nodes) : nodes[p].output = o}) \in Int
    <3>1. IsFiniteSet(DOMAIN nodes)
      BY DEF IInv, EnoughCount
    <3>2. IsFiniteSet({p \in Keys(nodes) : nodes[p].output = o})
      BY <3>1, FS_Subset DEF Keys
    <3> QED
      BY <3>2, FS_CardinalityType
  <2> DEFINE owned(o) == Cardinality({p \in Keys(nodes) : nodes[p].output = o})
  <2>2. refs' = IF store = "ANY" THEN [o \in Objects |-> refs[o] - owned(o)] ELSE refs
    BY <1>1 DEF ReleaseAll
  <2>3. \A o \in Objects : owned(o) \in Int
    BY <2>1
  <2> HIDE DEF owned
  <2> QED
    BY <2>2, <2>3 DEF IInv, ObjectOK
<1>4. ObjectOK'
    BY <1>1, <1>2, <1>3, ConstantAssumption DEF IInv, ObjectOK
<1>5. EnoughCount'
    BY <1>1, <1>2, FS_EmptySet DEF EnoughCount
<1> QED
    BY <1>1, <1>2, <1>4, <1>5 DEF IInv, TreeOK, RootOK, FrameOK, Building

-----------------------------------------------------------------------------
(* make_automaton, step by step. *)

\* The child that a step links is a node, and so is the target of its fail link.
LEMMA ChildType ==
    ASSUME IInv, node \in DOMAIN nodes, i <= Len(nodes[node].next)
    PROVE  /\ Child \in DOMAIN nodes /\ letter \in Letters
           /\ \A p \in DOMAIN nodes : FailTarget(p, letter) \in Pointer
<1>1. /\ nodes[node].next \in Seq(Letters) /\ i \in 1..Len(nodes[node].next)
      /\ DOMAIN nodes \subseteq Seq(Letters)
    BY DEF IInv, ObjectOK, Heap, TrieNode
<1>2. letter \in Letters /\ letter \in ToSet(nodes[node].next)
    BY <1>1 DEF letter, ToSet
<1>3. Child \in DOMAIN nodes
    BY <1>2 DEF Child, letter, IInv, TreeOK, Tree, LinksLive
<1>4. ASSUME NEW p \in DOMAIN nodes PROVE FailTarget(p, letter) \in Pointer
  <2>1. p \in Seq(Letters) /\ <<>> \in Seq(Letters)
    BY <1>1, EmptySeq
  <2>2. Append(p, letter) \in Seq(Letters)
    BY <1>2, <2>1, AppendProperties
  <2> QED
    BY <2>1, <2>2 DEF FailTarget, trienode_get_next, Root, Pointer
<1> QED
    BY <1>2, <1>3, <1>4

\* Leaving make_automaton, whatever it returns.
LEMMA ReturnInvariant ==
    ASSUME IInv, NEW r, Return(r),
           Heap(nodes'), Tree(nodes'), DOMAIN nodes' = DOMAIN nodes, Keys(nodes') = Keys(nodes),
           kind = "TRIE", kind' \in {"TRIE", "AHOCORASICK"}, version' \in 0..MaxVersion,
           UNCHANGED <<store, count, longest_word, stats, refs>>
    PROVE  IInv'
<1>1. pc' = "idle" /\ queue' = <<>> /\ node' = Root /\ i' = 1 /\ state' = Root
    BY DEF Return
<1>2. Root \in Seq(Letters) /\ <<>> \in Seq(Seq(Letters))
    BY EmptySeq DEF Root
<1>3. ObjectOK'
    BY <1>1, <1>2 DEF IInv, ObjectOK, Pointer
<1>4. EnoughCount' /\ RootOK' /\ FrameOK'
    BY <1>1 DEF IInv, EnoughCount, RootOK, HasRoot, FrameOK, Building
<1> QED
    BY <1>3, <1>4 DEF IInv, TreeOK

\* A step that moves the locals to nodes of the trie, and at most sets a fail link.
LEMMA FrameInvariant ==
    ASSUME IInv, Building,
           Heap(nodes'), Tree(nodes'), DOMAIN nodes' = DOMAIN nodes, Keys(nodes') = Keys(nodes),
           \A p \in DOMAIN nodes : nodes'[p].next = nodes[p].next,
           UNCHANGED <<kind, store, count, longest_word, version, stats, refs>>,
           queue' \in Seq(DOMAIN nodes), node' \in Seq(Letters),
           pc' \in {"child", "walk"} => node' \in DOMAIN nodes, i' \in Nat \ {0}, state' \in Pointer,
           pc' \in {"level1", "pop", "child", "walk", "crash"},
           pc' = "level1" => node' = Root,
           pc' = "walk" => state' \in DOMAIN nodes /\ i' <= Len(nodes[node'].next)
    PROVE  IInv'
<1>1. DOMAIN nodes \subseteq Seq(Letters)
    BY DEF IInv, ObjectOK, Heap
<1>2. queue' \in Seq(Seq(Letters))
    BY <1>1, SeqMonotonic
<1>3. ObjectOK'
    BY <1>2 DEF IInv, ObjectOK
<1>4. EnoughCount' /\ RootOK'
    BY DEF IInv, EnoughCount, RootOK, HasRoot
<1>5. FrameOK'
    BY DEF IInv, FrameOK, Building
<1> QED
    BY <1>3, <1>4, <1>5 DEF IInv, TreeOK

\* Every step of make_automaton.
LEMMA MakeStepInvariant == ASSUME IInv, MakeStep PROVE IInv'
<1> USE DEF locals, object
<1>1. Heap(nodes) /\ Tree(nodes) /\ DOMAIN nodes \subseteq Seq(Letters)
    BY DEF IInv, ObjectOK, TreeOK, Heap
<1>2. /\ node \in Seq(Letters) /\ i \in Nat \ {0} /\ i + 1 \in Nat \ {0} /\ 1 \in Nat \ {0}
      /\ state \in Pointer
      /\ version \in 0..MaxVersion /\ MaxVersion \in Nat
    BY ConstantAssumption DEF IInv, ObjectOK
<1>3. pc \in {"level1", "pop", "child", "walk"} =>
        Building /\ kind = "TRIE" /\ version < MaxVersion /\ queue \in Seq(DOMAIN nodes)
        /\ Root \in DOMAIN nodes
    BY DEF IInv, FrameOK, Building, RootOK, HasRoot
<1>4. \A c \in DOMAIN nodes : Append(queue, c) \in Seq(DOMAIN nodes)
      \/ pc \notin {"level1", "pop", "child", "walk"}
    BY <1>3, AppendProperties
<1>5. \A p \in DOMAIN nodes : nodes[p].fail \in Pointer
    BY <1>1 DEF Heap, TrieNode
<1>6. ASSUME NEW c \in DOMAIN nodes, NEW f \in Pointer, nodes' = [nodes EXCEPT ![c].fail = f]
      PROVE  /\ Heap(nodes') /\ Tree(nodes') /\ DOMAIN nodes' = DOMAIN nodes
             /\ Keys(nodes') = Keys(nodes)
             /\ \A p \in DOMAIN nodes : nodes'[p].next = nodes[p].next
  <2>1. SameLinks(nodes, nodes')
    BY <1>1, <1>6 DEF SameLinks, Heap, TrieNode
  <2> QED
    BY <1>1, <2>1, FailTree DEF SameLinks
<1>7. CASE SetupFirstLevel
  <2>1. node = Root /\ node \in DOMAIN nodes /\ Root \in Pointer
    BY <1>1, <1>3, <1>7 DEF SetupFirstLevel, IInv, FrameOK, Pointer
  <2>2. Child \in DOMAIN nodes
    BY <1>7, <2>1, ChildType DEF SetupFirstLevel
  <2>3. /\ Heap(nodes') /\ Tree(nodes') /\ DOMAIN nodes' = DOMAIN nodes
        /\ Keys(nodes') = Keys(nodes) /\ \A p \in DOMAIN nodes : nodes'[p].next = nodes[p].next
    BY <1>6, <1>7, <2>1, <2>2 DEF SetupFirstLevel
  <2>4. CASE NoMemory
    BY <1>2, <1>3, <1>7, <2>3, <2>4, ReturnInvariant DEF SetupFirstLevel, NoMemory
  <2>5. CASE queue' = Append(queue, Child) /\ i' = i + 1 /\ UNCHANGED <<pc, node, state, ret>>
    <3>1. queue' \in Seq(DOMAIN nodes)
      BY <1>3, <1>4, <1>7, <2>2, <2>5 DEF SetupFirstLevel
    <3> QED
      BY <1>2, <1>3, <1>7, <2>1, <2>3, <2>5, <3>1, FrameInvariant DEF SetupFirstLevel
  <2> QED
    BY <1>7, <2>4, <2>5 DEF SetupFirstLevel
<1>8. CASE FirstLevelDone
    BY <1>1, <1>2, <1>3, <1>8, FrameInvariant DEF FirstLevelDone
<1>9. CASE PopNode
  <2>1. Head(queue) \in DOMAIN nodes /\ Tail(queue) \in Seq(DOMAIN nodes)
    BY <1>3, <1>9, HeadTailProperties DEF PopNode
  <2> QED
    BY <1>1, <1>2, <1>3, <1>9, <2>1, FrameInvariant DEF PopNode
<1>10. CASE EnqueueChild
  <2>1. node \in DOMAIN nodes
    BY <1>10 DEF EnqueueChild, IInv, FrameOK
  <2>2. Child \in DOMAIN nodes
    BY <1>10, <2>1, ChildType DEF EnqueueChild
  <2>3. CASE NoMemory
    BY <1>1, <1>2, <1>3, <1>10, <2>3, ReturnInvariant DEF EnqueueChild, NoMemory
  <2>4. CASE queue' = Append(queue, Child) /\ Follow(node) /\ UNCHANGED <<node, i, ret>>
    <3>1. queue' \in Seq(DOMAIN nodes)
      BY <1>3, <1>4, <1>10, <2>2, <2>4 DEF EnqueueChild
    <3>2. state' \in Pointer /\ pc' \in {"walk", "crash"} /\ (pc' = "walk" => state' \in DOMAIN nodes)
      BY <1>5, <2>1, <2>4 DEF Follow
    <3> QED
      BY <1>1, <1>2, <1>3, <1>10, <2>1, <2>4, <3>1, <3>2, FrameInvariant DEF EnqueueChild
  <2> QED
    BY <1>10, <2>3, <2>4 DEF EnqueueChild
<1>11. CASE ChildrenDone
    BY <1>1, <1>2, <1>3, <1>11, FrameInvariant DEF ChildrenDone
<1>12. CASE FollowFail
  <2>1. /\ node \in DOMAIN nodes /\ state \in DOMAIN nodes /\ i <= Len(nodes[node].next)
        /\ pc = "walk" /\ Follow(state) /\ UNCHANGED <<object, queue, node, i, ret>>
    BY <1>12 DEF FollowFail, IInv, FrameOK
  <2>2. state' \in Pointer /\ pc' \in {"walk", "crash"} /\ (pc' = "walk" => state' \in DOMAIN nodes)
    BY <1>5, <2>1 DEF Follow
  <2> QED
    BY <1>1, <1>2, <1>3, <2>1, <2>2, FrameInvariant
<1>13. CASE SetFail
  <2>1. /\ node \in DOMAIN nodes /\ state \in DOMAIN nodes /\ i <= Len(nodes[node].next)
    BY <1>13 DEF SetFail, IInv, FrameOK
  <2>2. FailTarget(state, letter) \in Pointer /\ Child \in DOMAIN nodes
    BY <2>1, ChildType
  <2>3. /\ Heap(nodes') /\ Tree(nodes') /\ DOMAIN nodes' = DOMAIN nodes
        /\ Keys(nodes') = Keys(nodes) /\ \A p \in DOMAIN nodes : nodes'[p].next = nodes[p].next
    BY <1>6, <1>13, <2>2 DEF SetFail
  <2> QED
    BY <1>2, <1>3, <1>13, <2>1, <2>3, FrameInvariant DEF SetFail
<1>14. CASE BuildDone
    BY <1>1, <1>2, <1>3, <1>14, ReturnInvariant DEF BuildDone
<1> QED
    BY <1>7, <1>8, <1>9, <1>10, <1>11, <1>12, <1>13, <1>14 DEF MakeStep

-----------------------------------------------------------------------------
(* The calls that change nothing in the trie. *)

\* An operation that leaves the object alone, idle or gone.
LEMMA SameObjectInvariant ==
    ASSUME IInv, pc = "idle", pc' \in {"idle", "exit"},
           UNCHANGED <<nodes, kind, store, count, longest_word, version, refs,
                       queue, node, i, state>>,
           stats'.version \in -1..MaxVersion
    PROVE  IInv'
<1>1. ObjectOK'
    BY DEF IInv, ObjectOK
<1>2. EnoughCount' /\ RootOK' /\ FrameOK' /\ TreeOK'
    BY DEF IInv, EnoughCount, RootOK, HasRoot, FrameOK, Building, TreeOK
<1> QED
    BY <1>1, <1>2 DEF IInv

\* get_stats, whose answer carries the version it is of.
LEMMA GetStatsInvariant == ASSUME IInv, automaton_get_stats PROVE IInv'
<1>1. get_stats.version = version
    BY DEF get_stats, NoStats
<1>2. stats'.version \in -1..MaxVersion
    BY <1>1, ConstantAssumption DEF automaton_get_stats, IInv, ObjectOK
<1> QED
    BY <1>2, SameObjectInvariant DEF automaton_get_stats, locals

\* The start of make_automaton.
LEMMA MakeAutomatonInvariant == ASSUME IInv, automaton_make_automaton PROVE IInv'
<1>1. ObjectOK'
    BY DEF automaton_make_automaton, object, locals, IInv, ObjectOK
<1>2. <<>> \in Seq(DOMAIN nodes)
    BY EmptySeq
<1>3. EnoughCount' /\ RootOK' /\ FrameOK' /\ TreeOK'
    BY <1>2 DEF automaton_make_automaton, object, locals, IInv, EnoughCount, RootOK, HasRoot,
                FrameOK, Building, TreeOK
<1> QED
    BY <1>1, <1>3 DEF IInv

\* Every step.
LEMMA NextInvariant == IInv /\ [Next]_vars => IInv'
<1> SUFFICES ASSUME IInv, [Next]_vars PROVE IInv'
    OBVIOUS
<1>1. stats.version \in -1..MaxVersion
    BY DEF IInv, ObjectOK
<1>2. CASE UNCHANGED vars
  <2>1. UNCHANGED <<nodes, kind, store, count, longest_word, version, stats, refs, pc,
                    queue, node, i, state>>
    BY <1>2 DEF vars, object, locals
  <2>2. ObjectOK'
    BY <2>1 DEF IInv, ObjectOK
  <2>3. EnoughCount' /\ RootOK' /\ FrameOK' /\ TreeOK'
    BY <2>1 DEF IInv, EnoughCount, RootOK, HasRoot, FrameOK, Building, TreeOK
  <2> QED
    BY <2>2, <2>3 DEF IInv
<1>3. ASSUME NEW w \in Words, NEW v \in ValuesFor(w), automaton_add_word(w, v)
      PROVE  IInv'
    BY <1>3, AddWordInvariant
<1>4. ASSUME NEW w \in Words, NEW depth \in 0..Len(w), automaton_add_word_no_memory(w, depth)
      PROVE  IInv'
    BY <1>4, AddWordNoMemoryInvariant
<1>5. ASSUME NEW w \in Words, automaton_remove_word(w) \/ automaton_pop(w)
      PROVE  IInv'
    BY <1>5, RemoveInvariant DEF automaton_remove_word, automaton_pop
<1>6. ASSUME NEW w \in Words, automaton_pop_crashes(w) \/ automaton_remove_no_memory(w)
      PROVE  IInv'
    BY <1>1, <1>6, SameObjectInvariant
       DEF automaton_pop_crashes, automaton_remove_no_memory, object, locals
<1>7. ASSUME NEW w, automaton_remove_absent(w)
      PROVE  IInv'
    BY <1>1, <1>7, SameObjectInvariant DEF automaton_remove_absent, object, locals
<1>8. CASE automaton_add_empty_word \/ automaton_add_word_aborts
    BY <1>1, <1>8, SameObjectInvariant
       DEF automaton_add_empty_word, automaton_add_word_aborts, object, locals
<1>9. CASE automaton_clear
    BY <1>9, ClearInvariant
<1>10. CASE automaton_get_stats
    BY <1>10, GetStatsInvariant
<1>11. CASE automaton_make_automaton
    BY <1>11, MakeAutomatonInvariant
<1>12. CASE MakeStep
    BY <1>12, MakeStepInvariant
<1> QED
    BY <1>2, <1>3, <1>4, <1>5, <1>6, <1>7, <1>8, <1>9, <1>10, <1>11, <1>12 DEF Next

-----------------------------------------------------------------------------
(***************************************************************************)
(* The variables keep their types whatever calls are made, so the count of *)
(* words never goes below zero (Automaton.c:273, 321) and the locals of    *)
(* make_automaton stay paths.                                              *)
(***************************************************************************)
THEOREM TypeCorrect == Spec => []TypeOK
<1> DEFINE Pc == {"idle", "level1", "pop", "child", "walk", "exit", "crash"}
<1>1. Init => pc \in Pc
    BY DEF Init
<1>2. pc \in Pc /\ [Next]_vars => (pc \in Pc)'
  <2>1. pc \in Pc /\ MakeStep => (pc \in Pc)'
    BY DEF MakeStep, SetupFirstLevel, FirstLevelDone, PopNode, EnqueueChild, ChildrenDone,
           FollowFail, SetFail, BuildDone, Follow, Return, NoMemory
  <2>2. ASSUME NEW w \in Words, NEW v \in ValuesFor(w), automaton_add_word(w, v)
        PROVE  pc' = pc
    BY <2>2 DEF automaton_add_word
  <2>3. ASSUME NEW w \in Words, NEW depth \in 0..Len(w), automaton_add_word_no_memory(w, depth)
        PROVE  pc' = pc
    BY <2>3 DEF automaton_add_word_no_memory, NoMemory
  <2>4. ASSUME NEW w \in Words,
               \/ automaton_remove_word(w) \/ automaton_pop(w) \/ automaton_pop_crashes(w)
               \/ automaton_remove_no_memory(w)
        PROVE  pc' \in {pc, "exit"}
    BY <2>4 DEF automaton_remove_word, automaton_pop, automaton_remove_word_aux,
                automaton_pop_crashes, automaton_remove_no_memory, NoMemory
  <2>5. ASSUME NEW w \in Words \cup {<<>>}, automaton_remove_absent(w)
        PROVE  pc' = pc
    BY <2>5 DEF automaton_remove_absent
  <2>6. ASSUME \/ automaton_add_empty_word \/ automaton_add_word_aborts \/ automaton_clear
               \/ automaton_get_stats \/ automaton_make_automaton \/ UNCHANGED vars
        PROVE  pc' \in {pc, "exit", "level1"}
    BY <2>6 DEF automaton_add_empty_word, automaton_add_word_aborts, automaton_clear,
                automaton_get_stats, automaton_make_automaton, vars, Return
  <2> QED
    BY <2>1, <2>2, <2>3, <2>4, <2>5, <2>6 DEF Next
<1>3. IInv /\ pc \in Pc => TypeOK
    BY DEF IInv, TypeOK
<1> HIDE DEF Pc
<1> QED
    BY <1>1, <1>2, <1>3, InitInvariant, NextInvariant, PTL DEF Spec

(***************************************************************************)
(* The heap is always a tree: no sequence of additions, removals, clears,  *)
(* builds and memory failures leaves a link to a freed node, a node that   *)
(* cannot be reached, or two links over one letter (trie.c:34-56, 106-127).*)
(***************************************************************************)
THEOREM TreeCorrect == Spec => []TreeOK
<1>1. IInv => TreeOK
    BY DEF IInv
<1> QED
    BY <1>1, InitInvariant, NextInvariant, PTL DEF Spec

-----------------------------------------------------------------------------
(***************************************************************************)
(* What holds of every Automaton into which no caller stores the integer   *)
(* 0, the value automaton_remove_word_aux takes for an absent word         *)
(* (Automaton.c:319): len() is the number of words, a step that frees a    *)
(* node changes the version, and the automaton implements Dictionary.  The *)
(* assumption 0 \notin Ints is needed: with 0 all three fail.  The         *)
(* references to the objects stored are counted right without it.          *)
(***************************************************************************)
(***************************************************************************)
(* The inductive invariant: CountOK is not inductive alone, since it is    *)
(* the value stored that decides whether remove_word counts.               *)
(***************************************************************************)
ValuesOK == \A p \in Keys(nodes) : nodes[p].output # 0

CountInv == IInv /\ ValuesOK /\ CountOK

\* A word cannot be given the value 0.
LEMMA NonZeroValues ==
    ASSUME 0 \notin Ints, ObjectOK, NEW w \in Words
    PROVE  0 \notin ValuesFor(w)
<1>1. Len(w) # 0
    BY ValueType
<1>2. store \in {"ANY", "INTS", "LENGTH"} /\ count + 1 # 0 /\ 0 \notin Objects
    BY ConstantAssumption DEF ObjectOK
<1> QED
    BY <1>1, <1>2 DEF ValuesFor

\* add_word adds one key, with its value, and keeps every node.
LEMMA AddWordKeys ==
    ASSUME IInv, NEW w \in Words, NEW v \in ValuesFor(w), automaton_add_word(w, v)
    PROVE  /\ DOMAIN nodes \subseteq DOMAIN nodes'
           /\ Keys(nodes') = Keys(nodes) \cup {w}
           /\ nodes'[w].output = v
           /\ \A p \in Keys(nodes) \ {w} : nodes'[p].output = nodes[p].output
           /\ count' = count + Bool(w \notin Keys(nodes))
           /\ ret' = Result("add_word", Bool(w \notin Keys(nodes)))
<1> DEFINE grown == Grow(nodes, w, Len(w))
           marked == [grown EXCEPT ![w].eow = TRUE, ![w].output = v]
<1>1. w \in Seq(Letters) /\ Len(w) \in 0..Len(w) /\ At(w, Len(w)) = w /\ v \in Int
    BY ValueType DEF IInv
<1>2. Heap(nodes) /\ Tree(nodes)
    BY DEF IInv, ObjectOK, TreeOK
<1>3. /\ Heap(grown) /\ Tree(grown) /\ w \in DOMAIN grown
      /\ Keys(grown) = Keys(nodes) /\ DOMAIN nodes \subseteq DOMAIN grown
      /\ \A p \in DOMAIN nodes : grown[p].output = nodes[p].output
  <2>1. Tree(grown) /\ w \in DOMAIN grown
    BY <1>1, <1>2, GrowTree
  <2>2. /\ Heap(grown) /\ Keys(grown) = Keys(nodes) /\ DOMAIN nodes \subseteq DOMAIN grown
        /\ \A p \in DOMAIN nodes : grown[p].output = nodes[p].output
                                   /\ grown[p].eow = nodes[p].eow
    BY <1>1, <1>2, GrowKeys
  <2> QED
    BY <2>1, <2>2
<1>4. /\ nodes' = marked /\ count' = count + Bool(~grown[w].eow)
      /\ ret' = Result("add_word", Bool(~grown[w].eow))
    BY DEF automaton_add_word
<1>5. (~grown[w].eow) <=> w \notin Keys(nodes)
    BY <1>3 DEF Keys
<1> HIDE DEF grown
<1>6. /\ DOMAIN marked = DOMAIN grown /\ Keys(marked) = Keys(grown) \cup {w}
      /\ \A p \in DOMAIN grown : marked[p].output = IF p = w THEN v ELSE grown[p].output
    BY <1>1, <1>3, MarkTree, ZenonT(40)
<1> HIDE DEF marked
<1>7. \A p \in Keys(nodes) \ {w} : nodes'[p].output = nodes[p].output
    BY <1>3, <1>4, <1>6 DEF Keys
<1>8. /\ count' = count + Bool(w \notin Keys(nodes))
      /\ ret' = Result("add_word", Bool(w \notin Keys(nodes)))
    BY <1>4, <1>5 DEF Bool
<1> QED
    BY <1>3, <1>4, <1>6, <1>7, <1>8

\* A word that trie_find finds is one of the keys.
LEMMA PresentKey ==
    ASSUME IInv, NEW w \in Words, Present(w)
    PROVE  w \in Keys(nodes) /\ w # <<>>
<1>1. w \in Seq(Letters) /\ w # <<>> /\ Len(w) \in Nat \ {0} /\ Len(w) \in 0..Len(w)
      /\ At(w, Len(w)) = w
    BY ValueType DEF IInv
<1>2. Reaches(nodes, w, Len(w)) /\ nodes[w].eow
    BY DEF Present, trie_find
<1>3. Len(w) - 1 \in 0..(Len(w) - 1) /\ Len(w) - 1 + 1 = Len(w)
    BY <1>1
<1>4. /\ At(w, Len(w) - 1) \in DOMAIN nodes
      /\ w[Len(w)] \in ToSet(nodes[At(w, Len(w) - 1)].next)
    BY <1>2, <1>3 DEF Reaches, trienode_get_next
<1>5. Append(At(w, Len(w) - 1), w[Len(w)]) = w
    BY <1>1, <1>3, AppendAt
<1>6. w \in DOMAIN nodes
    BY <1>4, <1>5 DEF IInv, TreeOK, Tree, LinksLive
<1> QED
    BY <1>1, <1>2, <1>6 DEF Keys

\* remove_word takes one key away and keeps the values of the others.
LEMMA RemoveKeys ==
    ASSUME IInv, NEW w \in Words, NEW success, NEW absent,
           automaton_remove_word_aux(w, success, absent)
    PROVE  /\ w \in Keys(nodes)
           /\ Keys(nodes') = Keys(nodes) \ {w}
           /\ \A p \in Keys(nodes') : nodes'[p].output = nodes[p].output
           /\ nodes[w].output # 0 => count' = count - 1 /\ version' = version + 1
<1>1. w \in Keys(nodes) /\ w # <<>>
    BY PresentKey DEF automaton_remove_word_aux
<1>2. Heap(nodes) /\ Tree(nodes)
    BY DEF IInv, ObjectOK, TreeOK
<1>3. /\ nodes' = Unlink(nodes, w)
      /\ nodes[w].output # 0 => count' = count - 1 /\ version' = version + 1
    BY DEF automaton_remove_word_aux
<1> QED
    BY <1>1, <1>2, <1>3, UnlinkTree

\* The steps of make_automaton leave every key and value alone.
LEMMA MakeStepKeys ==
    ASSUME IInv, MakeStep
    PROVE  /\ DOMAIN nodes' = DOMAIN nodes /\ Keys(nodes') = Keys(nodes)
           /\ \A p \in DOMAIN nodes : nodes'[p].output = nodes[p].output
           /\ count' = count
<1>1. Heap(nodes)
    BY DEF IInv, ObjectOK
<1>2. CASE UNCHANGED <<nodes, count>>
    BY <1>2
<1>3. ASSUME NEW c, NEW f, nodes' = [nodes EXCEPT ![c].fail = f], count' = count
      PROVE  /\ DOMAIN nodes' = DOMAIN nodes
             /\ \A p \in DOMAIN nodes : /\ nodes'[p].output = nodes[p].output
                                        /\ nodes'[p].eow = nodes[p].eow
    BY <1>1, <1>3 DEF Heap, TrieNode
<1>4. CASE SetupFirstLevel \/ SetFail
    BY <1>3, <1>4 DEF SetupFirstLevel, SetFail, Keys
<1> QED
    BY <1>2, <1>4 DEF MakeStep, FirstLevelDone, PopNode, EnqueueChild, ChildrenDone, FollowFail,
                      BuildDone, object

\* Initially the automaton is empty.
LEMMA CountInit == Init => CountInv
<1> SUFFICES ASSUME Init PROVE CountInv
    OBVIOUS
<1>1. Keys(nodes) = {}
    BY EmptyTree DEF Init
<1> QED
    BY <1>1, InitInvariant, FS_EmptySet DEF CountInv, ValuesOK, CountOK, automaton_len, Init

\* Every step keeps the count right and every stored value non-zero, and one
\* that frees a node changes the version.
LEMMA CountNext ==
    ASSUME 0 \notin Ints, CountInv, [Next]_vars
    PROVE  /\ CountInv'
           /\ (\E p \in DOMAIN nodes : p \notin DOMAIN nodes') => version' # version
<1> DEFINE Frees == \E p \in DOMAIN nodes : p \notin DOMAIN nodes'
           Goal == ValuesOK' /\ CountOK' /\ (Frees => version' # version)
<1>1. IInv /\ IInv'
    BY NextInvariant DEF CountInv
<1>2. /\ count = Cardinality(Keys(nodes)) /\ count \in Nat /\ version \in Nat
      /\ IsFiniteSet(Keys(nodes))
  <2>1. IsFiniteSet(DOMAIN nodes) /\ Keys(nodes) \subseteq DOMAIN nodes
    BY <1>1 DEF IInv, EnoughCount, Keys
  <2>2. IsFiniteSet(Keys(nodes))
    BY <2>1, FS_Subset
  <2> QED
    BY <1>1, <2>2, ConstantAssumption DEF CountInv, CountOK, automaton_len, IInv, ObjectOK
<1>3. ASSUME DOMAIN nodes \subseteq DOMAIN nodes', Keys(nodes') = Keys(nodes), count' = count,
             \A p \in Keys(nodes) : nodes'[p].output = nodes[p].output
      PROVE  Goal
    BY <1>3 DEF CountInv, ValuesOK, CountOK, automaton_len
<1> HIDE DEF Goal
<1>4. ASSUME UNCHANGED <<nodes, count>> PROVE Goal
    BY <1>3, <1>4
<1>5. ASSUME NEW w \in Words, NEW v \in ValuesFor(w), automaton_add_word(w, v)
      PROVE  Goal
  <2>1. v # 0
    BY <1>1, NonZeroValues DEF IInv
  <2>2. /\ DOMAIN nodes \subseteq DOMAIN nodes' /\ Keys(nodes') = Keys(nodes) \cup {w}
        /\ nodes'[w].output = v
        /\ \A p \in Keys(nodes) \ {w} : nodes'[p].output = nodes[p].output
        /\ count' = count + Bool(w \notin Keys(nodes))
    BY <1>1, <1>5, AddWordKeys
  <2>3. ValuesOK'
    BY <2>1, <2>2 DEF CountInv, ValuesOK
  <2>4. CountOK'
    <3>1. Cardinality(Keys(nodes) \cup {w}) =
              IF w \in Keys(nodes) THEN count ELSE count + 1
      BY <1>2, FS_AddElement
    <3>2. count' = IF w \in Keys(nodes) THEN count ELSE count + 1
      BY <1>2, <2>2 DEF Bool
    <3> QED
      BY <2>2, <3>1, <3>2 DEF CountOK, automaton_len
  <2> QED
    BY <2>2, <2>3, <2>4 DEF Goal
<1>6. ASSUME NEW w \in Words, NEW depth \in 0..Len(w), automaton_add_word_no_memory(w, depth)
      PROVE  Goal
  <2>1. w \in Seq(Letters) /\ Len(w) \in Nat /\ Heap(nodes) /\ Tree(nodes)
    BY <1>1, ValueType DEF IInv, ObjectOK, TreeOK
  <2>2. count' = count /\ nodes' = IF depth = 0 THEN nodes ELSE Grow(nodes, w, depth - 1)
    BY <1>6 DEF automaton_add_word_no_memory
  <2>3. depth = 0 \/ depth - 1 \in 0..Len(w)
    BY <2>1
  <2>4. /\ DOMAIN nodes \subseteq DOMAIN nodes' /\ Keys(nodes') = Keys(nodes)
        /\ \A p \in DOMAIN nodes : nodes'[p].output = nodes[p].output
    BY <2>1, <2>2, <2>3, GrowKeys
  <2> QED
    BY <1>3, <2>2, <2>4 DEF Keys
<1>7. ASSUME NEW w \in Words, automaton_remove_word(w) \/ automaton_pop(w)
      PROVE  Goal
  <2>1. /\ w \in Keys(nodes) /\ Keys(nodes') = Keys(nodes) \ {w}
        /\ \A p \in Keys(nodes') : nodes'[p].output = nodes[p].output
        /\ nodes[w].output # 0 => count' = count - 1 /\ version' = version + 1
    BY <1>1, <1>7, RemoveKeys DEF automaton_remove_word, automaton_pop
  <2>2. count' = count - 1 /\ version' = version + 1
    BY <2>1 DEF CountInv, ValuesOK
  <2>3. Cardinality(Keys(nodes')) = count - 1
    BY <1>2, <2>1, FS_RemoveElement
  <2>4. ValuesOK'
    BY <2>1 DEF CountInv, ValuesOK
  <2>5. CountOK' /\ version' # version
    BY <1>2, <2>2, <2>3 DEF CountOK, automaton_len
  <2> QED
    BY <2>4, <2>5 DEF Goal
<1>8. ASSUME automaton_clear PROVE Goal
  <2>1. nodes' = EmptyHeap /\ count' = 0 /\ version' = version + 1
    BY <1>8 DEF automaton_clear
  <2>2. Keys(nodes') = {}
    BY <2>1, EmptyTree
  <2>3. ValuesOK' /\ CountOK'
    BY <2>1, <2>2, FS_EmptySet DEF ValuesOK, CountOK, automaton_len
  <2>4. version' # version
    BY <1>2, <2>1
  <2> QED
    BY <2>3, <2>4 DEF Goal
<1>9. ASSUME MakeStep PROVE Goal
  <2>1. /\ DOMAIN nodes' = DOMAIN nodes /\ Keys(nodes') = Keys(nodes) /\ count' = count
        /\ \A p \in DOMAIN nodes : nodes'[p].output = nodes[p].output
    BY <1>1, <1>9, MakeStepKeys
  <2> QED
    BY <1>3, <2>1 DEF Keys
<1>10. ASSUME NEW w, \/ automaton_pop_crashes(w) \/ automaton_remove_no_memory(w)
                     \/ automaton_remove_absent(w) \/ automaton_add_empty_word
                     \/ automaton_add_word_aborts \/ automaton_get_stats
                     \/ automaton_make_automaton
       PROVE  Goal
    BY <1>4, <1>10 DEF automaton_pop_crashes, automaton_remove_no_memory, automaton_remove_absent,
                 automaton_add_empty_word, automaton_add_word_aborts, automaton_get_stats,
                 automaton_make_automaton, object
<1>11. ASSUME UNCHANGED vars PROVE Goal
    BY <1>4, <1>11 DEF vars, object
<1>12. Goal
    BY <1>4, <1>5, <1>6, <1>7, <1>8, <1>9, <1>10, <1>11 DEF Next
<1> QED
    BY <1>1, <1>12 DEF Goal, CountInv

-----------------------------------------------------------------------------
(***************************************************************************)
(* len() is the number of words that can be found, after any sequence of   *)
(* additions, replacements, removals, clears and memory failures           *)
(* (Automaton.c:283, 320, 410), if no caller stores 0.                     *)
(***************************************************************************)
THEOREM CountCorrect == ASSUME 0 \notin Ints PROVE Spec => []CountOK
<1>1. CountInv /\ [Next]_vars => CountInv'
    BY CountNext
<1>2. CountInv => CountOK
    BY DEF CountInv
<1> QED
    BY <1>1, <1>2, CountInit, PTL DEF Spec

(***************************************************************************)
(* A step that frees a node changes the version that the iterators         *)
(* compare, if no caller stores 0: remove_word and clear are the only ones *)
(* that free, and both change it (Automaton.c:321, 414).                   *)
(***************************************************************************)
THEOREM FreeingCorrect == ASSUME 0 \notin Ints PROVE Spec => FreeingBumpsVersion
<1> DEFINE A == (\E p \in DOMAIN nodes : p \notin DOMAIN nodes') => version' # version
<1>1. CountInv /\ [Next]_vars => CountInv' /\ [A]_vars
    BY CountNext
<1>2. FreeingBumpsVersion <=> [][A]_vars
    BY PTL DEF FreeingBumpsVersion
<1> HIDE DEF A
<1> QED
    BY <1>1, <1>2, CountInit, PTL DEF Spec

-----------------------------------------------------------------------------
(***************************************************************************)
(* References.  The words that hold an object are counted by refs; the     *)
(* invariant adds that under STORE_ANY the value of every word is one of   *)
(* the objects, so that Release is never given anything else.              *)
(***************************************************************************)
Holders(h, o) == {p \in Keys(h) : h[p].output = o}

ObjectsOK == store = "ANY" => \A p \in Keys(nodes) : nodes[p].output \in Objects

RefsInv == IInv /\ ObjectsOK /\ RefsOK

\* The reference counts that add_word leaves.
LEMMA AddWordRefs ==
    ASSUME IInv, NEW w \in Words, NEW v \in ValuesFor(w), automaton_add_word(w, v)
    PROVE  /\ w \in Keys(nodes) => refs' = Retain(Release(refs, nodes[w].output), v)
           /\ w \notin Keys(nodes) => refs' = Retain(refs, v)
           /\ store' = store
<1> DEFINE grown == Grow(nodes, w, Len(w))
<1>1. /\ w \in Seq(Letters) /\ Len(w) \in 0..Len(w) /\ At(w, Len(w)) = w
      /\ Heap(nodes) /\ Tree(nodes)
    BY ValueType DEF IInv, ObjectOK, TreeOK
<1>2. w \in DOMAIN grown
    BY <1>1, GrowTree
<1>3. /\ Keys(grown) = Keys(nodes)
      /\ \A p \in DOMAIN nodes : grown[p].output = nodes[p].output
    BY <1>1, GrowKeys
<1>4. /\ refs' = Retain(IF ~grown[w].eow THEN refs ELSE Release(refs, grown[w].output), v)
      /\ store' = store
    BY DEF automaton_add_word
<1> HIDE DEF grown
<1>5. grown[w].eow <=> w \in Keys(nodes)
    BY <1>2, <1>3 DEF Keys
<1>6. w \in Keys(nodes) => grown[w].output = nodes[w].output
    BY <1>3 DEF Keys
<1> QED
    BY <1>4, <1>5, <1>6

\* One count of references changed.
LEMMA RefsChange ==
    ASSUME NEW counts \in [Objects -> Int], store = "ANY", NEW v \in Objects, NEW o \in Objects
    PROVE  /\ Retain(counts, v)[o] = counts[o] + IF o = v THEN 1 ELSE 0
           /\ Release(counts, v)[o] = counts[o] - IF o = v THEN 1 ELSE 0
BY DEF Retain, Release

\* Finitely many words hold an object.
LEMMA HoldersFinite ==
    ASSUME IInv, NEW o
    PROVE  IsFiniteSet(Holders(nodes, o)) /\ Cardinality(Holders(nodes, o)) \in Nat
<1>1. IsFiniteSet(DOMAIN nodes) /\ Holders(nodes, o) \subseteq DOMAIN nodes
    BY DEF IInv, EnoughCount, Holders, Keys
<1> QED
    BY <1>1, FS_Subset, FS_CardinalityType

\* add_word keeps one reference per word: the value replaced loses one, the new one gains one.
LEMMA AddWordRefsOK ==
    ASSUME RefsInv, store = "ANY", NEW w \in Words, NEW v \in ValuesFor(w),
           automaton_add_word(w, v), NEW o \in Objects
    PROVE  refs'[o] = Cardinality(Holders(nodes', o))
<1> DEFINE H == Holders(nodes, o)
           one(b) == IF b THEN 1 ELSE 0
<1>1. /\ Keys(nodes') = Keys(nodes) \cup {w} /\ nodes'[w].output = v
      /\ \A p \in Keys(nodes) \ {w} : nodes'[p].output = nodes[p].output
    BY AddWordKeys DEF RefsInv
<1>2. v \in Objects /\ refs \in [Objects -> Int]
    BY DEF ValuesFor, RefsInv, IInv, ObjectOK
<1>3. refs[o] = Cardinality(H) /\ IsFiniteSet(H) /\ Cardinality(H) \in Nat
    BY HoldersFinite DEF RefsInv, RefsOK, Holders
<1>4. Holders(nodes', o) = (H \ {w}) \cup (IF v = o THEN {w} ELSE {})
    BY <1>1 DEF Holders
<1>5. /\ IsFiniteSet(H \ {w})
      /\ Cardinality(H \ {w}) = Cardinality(H) - IF w \in H THEN 1 ELSE 0
    BY <1>3, FS_RemoveElement
<1>6. Cardinality(Holders(nodes', o)) = Cardinality(H \ {w}) + IF v = o THEN 1 ELSE 0
  <2>1. CASE v = o
    <3>1. Cardinality((H \ {w}) \cup {w}) = Cardinality(H \ {w}) + 1
      BY <1>5, FS_AddElement
    <3> QED
      BY <2>1, <3>1, <1>4
  <2>2. CASE v # o
    <3>1. Holders(nodes', o) = H \ {w} /\ Cardinality(H \ {w}) \in Nat
      BY <2>2, <1>4, <1>5, FS_CardinalityType
    <3> QED
      BY <2>2, <3>1
  <2> QED
    BY <2>1, <2>2
<1>7. CASE w \in Keys(nodes)
  <2> DEFINE old == nodes[w].output
  <2>1. old \in Objects /\ (w \in H <=> old = o)
    BY <1>7 DEF RefsInv, ObjectsOK, Holders
  <2>2. refs' = Retain(Release(refs, old), v)
    BY <1>7, AddWordRefs DEF RefsInv
  <2> HIDE DEF old, H
  <2>3. Release(refs, old) \in [Objects -> Int]
    BY <1>2, RefsType
  <2>4. Release(refs, old)[o] = refs[o] - IF o = old THEN 1 ELSE 0
    BY <1>2, <2>1, RefsChange
  <2>5. refs'[o] = Release(refs, old)[o] + IF o = v THEN 1 ELSE 0
    BY <1>2, <2>2, <2>3, RefsChange
  <2> QED
    BY <1>3, <1>5, <1>6, <2>1, <2>4, <2>5
<1>8. CASE w \notin Keys(nodes)
  <2>1. w \notin H
    BY <1>8 DEF Holders
  <2>2. refs' = Retain(refs, v)
    BY <1>8, AddWordRefs DEF RefsInv
  <2>3. refs'[o] = refs[o] + IF o = v THEN 1 ELSE 0
    BY <1>2, <2>2, RefsChange
  <2> HIDE DEF H
  <2> QED
    BY <1>3, <1>5, <1>6, <2>1, <2>3
<1> QED
    BY <1>7, <1>8

\* remove_word and pop give back the reference of the word removed.
LEMMA RemoveRefsOK ==
    ASSUME RefsInv, store = "ANY", NEW w \in Words, NEW success, NEW absent,
           automaton_remove_word_aux(w, success, absent), NEW o \in Objects
    PROVE  refs'[o] = Cardinality(Holders(nodes', o))
<1> DEFINE H == Holders(nodes, o)
           old == nodes[w].output
<1>1. /\ w \in Keys(nodes) /\ Keys(nodes') = Keys(nodes) \ {w}
      /\ \A p \in Keys(nodes') : nodes'[p].output = nodes[p].output
    BY RemoveKeys DEF RefsInv
<1>2. old \in Objects /\ old # 0 /\ refs \in [Objects -> Int]
    BY <1>1, ConstantAssumption DEF RefsInv, ObjectsOK, IInv, ObjectOK
<1>3. refs' = Release(refs, old)
    BY <1>2 DEF automaton_remove_word_aux
<1>4. refs[o] = Cardinality(H) /\ IsFiniteSet(H) /\ Cardinality(H) \in Nat
    BY HoldersFinite DEF RefsInv, RefsOK, Holders
<1>5. Holders(nodes', o) = H \ {w} /\ (w \in H <=> old = o)
    BY <1>1 DEF Holders
<1> HIDE DEF H, old
<1>6. Cardinality(H \ {w}) = Cardinality(H) - IF w \in H THEN 1 ELSE 0
  <2>1. IsFiniteSet(H)
    BY <1>4
  <2>2. Cardinality(H \ {w}) = IF w \in H THEN Cardinality(H) - 1 ELSE Cardinality(H)
    BY <2>1, FS_RemoveElement
  <2> QED
    BY <2>2, <1>4
<1>7. refs'[o] = refs[o] - IF o = old THEN 1 ELSE 0
    BY <1>2, <1>3, RefsChange
<1> QED
    BY <1>4, <1>5, <1>6, <1>7

\* Initially there is no word and no reference.
LEMMA RefsInit == Init => RefsInv
<1> SUFFICES ASSUME Init PROVE RefsInv
    OBVIOUS
<1>1. Keys(nodes) = {} /\ refs = [o \in Objects |-> 0]
    BY EmptyTree DEF Init
<1>2. \A o \in Objects : {p \in Keys(nodes) : nodes[p].output = o} = {}
    BY <1>1
<1> QED
    BY <1>1, <1>2, InitInvariant, FS_EmptySet DEF RefsInv, ObjectsOK, RefsOK

\* Every step keeps the references counted.
LEMMA RefsNext == RefsInv /\ [Next]_vars => RefsInv'
<1> SUFFICES ASSUME RefsInv, [Next]_vars PROVE RefsInv'
    OBVIOUS
<1> DEFINE Goal == ObjectsOK' /\ RefsOK'
<1>1. IInv /\ IInv'
    BY NextInvariant DEF RefsInv
<1>2. ASSUME store' = store, refs' = refs, Keys(nodes') = Keys(nodes),
             \A p \in Keys(nodes) : nodes'[p].output = nodes[p].output
      PROVE  Goal
  <2>1. \A o \in Objects : {p \in Keys(nodes') : nodes'[p].output = o} =
                           {p \in Keys(nodes) : nodes[p].output = o}
    BY <1>2
  <2> QED
    BY <1>2, <2>1 DEF RefsInv, ObjectsOK, RefsOK
<1>3. ASSUME store' = store,
             store = "ANY" => /\ \A p \in Keys(nodes') : nodes'[p].output \in Objects
                              /\ \A o \in Objects : refs'[o] = Cardinality(Holders(nodes', o))
      PROVE  Goal
    BY <1>3 DEF ObjectsOK, RefsOK, Holders
<1> HIDE DEF Goal
<1>4. ASSUME UNCHANGED <<nodes, store, refs>> PROVE Goal
    BY <1>2, <1>4
<1>5. ASSUME NEW w \in Words, NEW v \in ValuesFor(w), automaton_add_word(w, v)
      PROVE  Goal
  <2>1. store' = store
    BY <1>5 DEF automaton_add_word
  <2>2. store = "ANY" => \A o \in Objects : refs'[o] = Cardinality(Holders(nodes', o))
    BY <1>5, AddWordRefsOK
  <2>3. store = "ANY" => \A p \in Keys(nodes') : nodes'[p].output \in Objects
    BY <1>1, <1>5, AddWordKeys DEF ValuesFor, RefsInv, ObjectsOK
  <2> QED
    BY <1>3, <2>1, <2>2, <2>3
<1>6. ASSUME NEW w \in Words, NEW depth \in 0..Len(w), automaton_add_word_no_memory(w, depth)
      PROVE  Goal
  <2>1. w \in Seq(Letters) /\ Len(w) \in Nat /\ Heap(nodes) /\ Tree(nodes)
    BY <1>1, ValueType DEF IInv, ObjectOK, TreeOK
  <2>2. /\ store' = store /\ refs' = refs
        /\ nodes' = IF depth = 0 THEN nodes ELSE Grow(nodes, w, depth - 1)
    BY <1>6 DEF automaton_add_word_no_memory
  <2>3. depth = 0 \/ depth - 1 \in 0..Len(w)
    BY <2>1
  <2>4. /\ Keys(nodes') = Keys(nodes)
        /\ \A p \in DOMAIN nodes : nodes'[p].output = nodes[p].output
    BY <2>1, <2>2, <2>3, GrowKeys
  <2> QED
    BY <1>2, <2>2, <2>4 DEF Keys
<1>7. ASSUME NEW w \in Words, NEW success, NEW absent,
             automaton_remove_word_aux(w, success, absent)
      PROVE  Goal
  <2>1. store' = store
    BY <1>7 DEF automaton_remove_word_aux
  <2>2. store = "ANY" => \A o \in Objects : refs'[o] = Cardinality(Holders(nodes', o))
    BY <1>7, RemoveRefsOK
  <2>3. store = "ANY" => \A p \in Keys(nodes') : nodes'[p].output \in Objects
    BY <1>1, <1>7, RemoveKeys DEF RefsInv, ObjectsOK
  <2> QED
    BY <1>3, <2>1, <2>2, <2>3
<1>8. ASSUME automaton_clear PROVE Goal
  <2>1. nodes' = EmptyHeap /\ store' = store /\ refs' = ReleaseAll
    BY <1>8 DEF automaton_clear
  <2>2. Keys(nodes') = {}
    BY <2>1, EmptyTree
  <2>3. ASSUME store = "ANY", NEW o \in Objects
        PROVE  refs'[o] = Cardinality(Holders(nodes', o))
    <3>1. refs'[o] = refs[o] - Cardinality({p \in Keys(nodes) : nodes[p].output = o})
      BY <2>1, <2>3 DEF ReleaseAll
    <3>2. /\ refs[o] = Cardinality({p \in Keys(nodes) : nodes[p].output = o})
          /\ Cardinality({p \in Keys(nodes) : nodes[p].output = o}) \in Nat
      BY <1>1, <2>3, HoldersFinite DEF RefsInv, RefsOK, Holders
    <3>3. Holders(nodes', o) = {}
      BY <2>2 DEF Holders
    <3> QED
      BY <3>1, <3>2, <3>3, FS_EmptySet
  <2> QED
    BY <1>3, <2>1, <2>2, <2>3
<1>9. ASSUME MakeStep PROVE Goal
  <2>1. /\ DOMAIN nodes' = DOMAIN nodes /\ Keys(nodes') = Keys(nodes)
        /\ \A p \in DOMAIN nodes : nodes'[p].output = nodes[p].output
    BY <1>1, <1>9, MakeStepKeys
  <2>2. UNCHANGED <<store, refs>>
    BY <1>9 DEF MakeStep, SetupFirstLevel, FirstLevelDone, PopNode, EnqueueChild, ChildrenDone,
                FollowFail, SetFail, BuildDone, object
  <2> QED
    BY <1>2, <2>1, <2>2 DEF Keys
<1>10. ASSUME NEW w, \/ automaton_pop_crashes(w) \/ automaton_remove_no_memory(w)
                     \/ automaton_remove_absent(w) \/ automaton_add_empty_word
                     \/ automaton_add_word_aborts \/ automaton_get_stats
                     \/ automaton_make_automaton
       PROVE  Goal
    BY <1>4, <1>10 DEF automaton_pop_crashes, automaton_remove_no_memory, automaton_remove_absent,
                 automaton_add_empty_word, automaton_add_word_aborts, automaton_get_stats,
                 automaton_make_automaton, object
<1>11. ASSUME UNCHANGED vars PROVE Goal
    BY <1>4, <1>11 DEF vars, object
<1>12. Goal
    BY <1>4, <1>5, <1>6, <1>7, <1>8, <1>9, <1>10, <1>11
       DEF Next, automaton_remove_word, automaton_pop
<1> QED
    BY <1>1, <1>12 DEF Goal, RefsInv

(***************************************************************************)
(* The trie owns one reference to an object per word that stores it: none  *)
(* is leaked or dropped twice, whatever is added, replaced, removed,       *)
(* popped, cleared or fails (Automaton.c:273, 337, 366, 390).              *)
(***************************************************************************)
THEOREM RefsCorrect == Spec => []RefsOK
<1>1. RefsInv => RefsOK
    BY DEF RefsInv
<1> QED
    BY <1>1, RefsInit, RefsNext, PTL DEF Spec

-----------------------------------------------------------------------------
(***************************************************************************)
(* The refinement.  Every key is one of the words callers use, so that the *)
(* empty word is none; and a key is found, so that a word reported absent  *)
(* is none of the map.                                                     *)
(***************************************************************************)
DictInv == CountInv /\ Keys(nodes) \subseteq Words

\* Every key is present.
LEMMA KeyPresent == ASSUME IInv, NEW w \in Keys(nodes) PROVE Present(w)
<1>1. Heap(nodes) /\ Tree(nodes) /\ w \in DOMAIN nodes /\ w \in Seq(Letters) /\ nodes[w].eow
    BY DEF IInv, ObjectOK, TreeOK, Heap, Keys
<1>2. Root \in DOMAIN nodes
  <2>1. Len(w) \in Nat /\ At(w, 0) = Root /\ At(w, Len(w)) = w
    BY <1>1, LenProperties, AtAt DEF Root
  <2>2. CASE Len(w) = 0
    BY <1>1, <2>1, <2>2
  <2>3. CASE Len(w) # 0
    <3>1. 0 \in 0..(Len(w) - 1)
      BY <2>1, <2>3
    <3> QED
      BY <1>1, <2>1, <3>1 DEF Tree, PrefixClosed
  <2> QED
    BY <2>2, <2>3
<1> QED
    BY <1>1, <1>2, FindsNode DEF Present

\* Initially the map is empty.
LEMMA DictInit == Init => DictInv /\ Dict!Init
<1> SUFFICES ASSUME Init PROVE DictInv /\ Dict!Init
    OBVIOUS
<1>1. Keys(nodes) = {} /\ ret = Result("new", 0)
    BY EmptyTree DEF Init
<1>2. Contents = Dict!Empty
    BY <1>1 DEF Contents, Dict!Empty
<1> QED
    BY <1>1, <1>2, CountInit DEF DictInv, Dict!Init, Result, Dict!Result

\* A step that leaves the keys and their values leaves the map.
LEMMA SameContents ==
    ASSUME Keys(nodes') = Keys(nodes), \A p \in Keys(nodes) : nodes'[p].output = nodes[p].output
    PROVE  Contents' = Contents
BY DEF Contents

\* add_word adds to the map.
LEMMA AddWordDict ==
    ASSUME DictInv, DictInv', NEW w \in Words, NEW v \in ValuesFor(w), automaton_add_word(w, v)
    PROVE  Dict!Add(w)
<1>1. /\ Keys(nodes') = Keys(nodes) \cup {w}
      /\ \A p \in Keys(nodes) \ {w} : nodes'[p].output = nodes[p].output
      /\ ret' = Result("add_word", Bool(w \notin Keys(nodes)))
    BY AddWordKeys DEF DictInv, CountInv
<1>2. \A p \in Keys(nodes') : nodes'[p].output \in Int
    BY DEF DictInv, CountInv, IInv, ObjectOK, Heap, TrieNode, Keys
<1>3. /\ DOMAIN Contents = Keys(nodes)
      /\ \A p \in Keys(nodes) : Contents[p] = nodes[p].output
    BY DEF Contents
<1>4. /\ Contents' = [p \in Keys(nodes') |-> nodes'[p].output]
      /\ \A p \in Keys(nodes') : Contents'[p] = nodes'[p].output
    BY DEF Contents
<1>5. Contents' \in [DOMAIN Contents \cup {w} -> Int]
    BY <1>1, <1>2, <1>3, <1>4
<1>6. \A x \in DOMAIN Contents \ {w} : Contents'[x] = Contents[x]
    BY <1>1, <1>3, <1>4
<1>7. ret' = Dict!Result("add_word", IF w \in DOMAIN Contents THEN 0 ELSE 1)
    BY <1>1, <1>3 DEF Bool, Result, Dict!Result
<1> QED
    BY <1>5, <1>6, <1>7 DEF Dict!Add

\* remove_word and pop delete from the map.
LEMMA RemoveDict ==
    ASSUME DictInv, NEW w \in Words, NEW success, NEW absent,
           automaton_remove_word_aux(w, success, absent)
    PROVE  Dict!Delete(w) /\ ret' = success
<1>1. /\ w \in Keys(nodes) /\ Keys(nodes') = Keys(nodes) \ {w}
      /\ \A p \in Keys(nodes') : nodes'[p].output = nodes[p].output
    BY RemoveKeys DEF DictInv, CountInv
<1>2. ret' = success
    BY <1>1 DEF automaton_remove_word_aux, DictInv, CountInv, ValuesOK
<1>3. Contents' = [x \in Keys(nodes) \ {w} |-> Contents[x]]
    BY <1>1 DEF Contents
<1>4. DOMAIN Contents = Keys(nodes)
    BY DEF Contents
<1> QED
    BY <1>1, <1>2, <1>3, <1>4 DEF Dict!Delete, Dict!Restrict

\* Every step is a step of Dictionary, or leaves the map and the last answer alone.
LEMMA DictNext ==
    ASSUME 0 \notin Ints, DictInv, [Next]_vars
    PROVE  DictInv' /\ [Dict!Next]_(Dict!vars)
<1> DEFINE Goal == Keys(nodes') \subseteq Words /\ (Dict!Next \/ UNCHANGED <<Contents, ret>>)
<1>1. IInv /\ CountInv /\ CountInv'
    BY CountNext DEF DictInv, CountInv
<1>2. ASSUME UNCHANGED nodes PROVE Keys(nodes') \subseteq Words /\ UNCHANGED Contents
    BY <1>2 DEF DictInv, Contents
<1>3. ASSUME NEW w \in Words, NEW v \in ValuesFor(w), automaton_add_word(w, v)
      PROVE  Goal
  <2>1. Keys(nodes') \subseteq Words
    BY <1>1, <1>3, AddWordKeys DEF DictInv
  <2>2. Dict!Add(w)
    BY <1>1, <1>3, <2>1, AddWordDict DEF DictInv
  <2> QED
    BY <2>1, <2>2 DEF Dict!Next
<1>4. ASSUME NEW w \in Words, NEW depth \in 0..Len(w), automaton_add_word_no_memory(w, depth)
      PROVE  Goal
  <2>1. w \in Seq(Letters) /\ Len(w) \in Nat /\ Heap(nodes) /\ Tree(nodes)
    BY <1>1, ValueType DEF IInv, ObjectOK, TreeOK
  <2>2. /\ ret' = Raise("add_word", "MemoryError")
        /\ nodes' = IF depth = 0 THEN nodes ELSE Grow(nodes, w, depth - 1)
    BY <1>4 DEF automaton_add_word_no_memory
  <2>3. depth = 0 \/ depth - 1 \in 0..Len(w)
    BY <2>1
  <2>4. /\ Keys(nodes') = Keys(nodes)
        /\ \A p \in DOMAIN nodes : nodes'[p].output = nodes[p].output
    BY <2>1, <2>2, <2>3, GrowKeys
  <2>5. Contents' = Contents
    BY <2>4, SameContents DEF Keys
  <2>6. Dict!OutOfMemory
    BY <2>2, <2>5 DEF Dict!OutOfMemory, Raise, Dict!Raise
  <2> QED
    BY <2>4, <2>6 DEF Dict!Next, DictInv
<1>5. ASSUME NEW w \in Words, automaton_remove_word(w) PROVE Goal
  <2>1. Dict!Delete(w) /\ ret' = Result("remove_word", 1)
    BY <1>5, RemoveDict DEF automaton_remove_word
  <2>2. Keys(nodes') \subseteq Words
    BY <1>1, <1>5, RemoveKeys DEF automaton_remove_word, DictInv
  <2> QED
    BY <2>1, <2>2 DEF Dict!Next, Dict!RemoveWord, Result, Dict!Result
<1>6. ASSUME NEW w \in Words, automaton_pop(w) PROVE Goal
  <2>1. Dict!Delete(w) /\ ret' = Result("pop", nodes[w].output)
    BY <1>6, RemoveDict DEF automaton_pop
  <2>2. w \in Keys(nodes) /\ Keys(nodes') \subseteq Words
    BY <1>1, <1>6, RemoveKeys DEF automaton_pop, DictInv
  <2>3. Contents[w] = nodes[w].output
    BY <2>2 DEF Contents
  <2>4. Dict!Pop(w)
    BY <2>1, <2>3 DEF Dict!Pop, Result, Dict!Result
  <2> QED
    BY <2>2, <2>4 DEF Dict!Next
<1>7. ASSUME NEW w \in Words, automaton_remove_no_memory(w) PROVE Goal
  <2>1. UNCHANGED nodes /\ \E op \in {"remove_word", "pop"} : ret' = Raise(op, "MemoryError")
    BY <1>7 DEF automaton_remove_no_memory, object
  <2>2. Dict!OutOfMemory
    BY <1>2, <2>1 DEF Dict!OutOfMemory, Raise, Dict!Raise
  <2> QED
    BY <1>2, <2>1, <2>2 DEF Dict!Next
<1>8. ASSUME NEW w \in Words \cup {<<>>}, automaton_remove_absent(w) PROVE Goal
  <2>1. UNCHANGED nodes /\ ret' \in {Result("remove_word", 0), Raise("pop", "KeyError")}
    BY <1>8 DEF automaton_remove_absent, object
  <2>2. w \notin DOMAIN Contents
    <3>1. <<>> \notin Words
      BY ConstantAssumption
    <3> QED
      BY <1>1, <1>8, <3>1, KeyPresent DEF automaton_remove_absent, DictInv, Contents
  <2>3. Dict!RemoveAbsent(w) \/ Dict!PopAbsent(w)
    BY <1>2, <2>1, <2>2
       DEF Dict!RemoveAbsent, Dict!PopAbsent, Result, Dict!Result, Raise, Dict!Raise
  <2> QED
    BY <1>2, <2>1, <2>3 DEF Dict!Next
<1>9. ASSUME automaton_clear PROVE Goal
  <2>1. nodes' = EmptyHeap /\ ret' = Result("clear", 0)
    BY <1>9 DEF automaton_clear
  <2>2. Keys(nodes') = {}
    BY <2>1, EmptyTree
  <2>3. Contents' = Dict!Empty
    BY <2>2 DEF Contents, Dict!Empty
  <2>4. Dict!Clear
    BY <2>1, <2>3 DEF Dict!Clear, Result, Dict!Result
  <2> QED
    BY <2>2, <2>4 DEF Dict!Next
<1>10. ASSUME automaton_add_empty_word PROVE Goal
  <2>1. UNCHANGED nodes /\ ret' = Result("add_word", 0)
    BY <1>10 DEF automaton_add_empty_word, object
  <2> QED
    BY <1>2, <2>1 DEF Dict!Next, Dict!AddEmpty, Result, Dict!Result
<1>11. ASSUME automaton_get_stats PROVE Goal
  <2>1. UNCHANGED nodes /\ ret' = Result("get_stats", stats'.words_count)
    BY <1>11 DEF automaton_get_stats
  <2> QED
    BY <1>2, <2>1 DEF Dict!Next, Dict!GetStats, Result
<1>12. ASSUME automaton_make_automaton PROVE Goal
  <2>1. UNCHANGED nodes /\ (ret' = Result("make_automaton", 0) \/ UNCHANGED ret)
    BY <1>12 DEF automaton_make_automaton, object
  <2> QED
    BY <1>2, <2>1 DEF Dict!Next, Dict!MakeAutomaton, Result, Dict!Result
<1>13. ASSUME MakeStep PROVE Goal
  <2>1. /\ DOMAIN nodes' = DOMAIN nodes /\ Keys(nodes') = Keys(nodes)
        /\ \A p \in DOMAIN nodes : nodes'[p].output = nodes[p].output
    BY <1>1, <1>13, MakeStepKeys
  <2>2. Contents' = Contents
    BY <2>1, SameContents DEF Keys
  <2>3. \/ UNCHANGED ret
        \/ ret' = Raise("make_automaton", "MemoryError")
        \/ ret' = Result("make_automaton", 0)
    BY <1>13 DEF MakeStep, SetupFirstLevel, FirstLevelDone, PopNode, EnqueueChild, ChildrenDone,
                 FollowFail, SetFail, BuildDone, NoMemory, Return
  <2>4. \/ UNCHANGED ret
        \/ Dict!OutOfMemory
        \/ Dict!MakeAutomaton
    BY <2>2, <2>3 DEF Dict!OutOfMemory, Dict!MakeAutomaton, Raise, Dict!Raise, Result, Dict!Result
  <2> QED
    BY <2>1, <2>2, <2>4 DEF Dict!Next, DictInv
<1>14. ASSUME NEW w, automaton_pop_crashes(w) \/ automaton_add_word_aborts PROVE Goal
  <2>1. UNCHANGED <<nodes, ret>>
    BY <1>14 DEF automaton_pop_crashes, automaton_add_word_aborts, object
  <2> QED
    BY <1>2, <2>1
<1>15. ASSUME UNCHANGED vars PROVE Goal
  <2>1. UNCHANGED <<nodes, ret>>
    BY <1>15 DEF vars, object
  <2> QED
    BY <1>2, <2>1
<1> HIDE DEF Goal
<1>16. Goal
    BY <1>3, <1>4, <1>5, <1>6, <1>7, <1>8, <1>9, <1>10, <1>11, <1>12, <1>13, <1>14, <1>15
       DEF Next
<1> QED
    BY <1>1, <1>16 DEF Goal, DictInv, Dict!vars

(***************************************************************************)
(* Automaton implements Dictionary, if no caller stores 0: whatever is     *)
(* called, and whatever fails for lack of memory, what it answers and      *)
(* leaves is what a map would (Automaton.c:202-424).                       *)
(***************************************************************************)
THEOREM Refinement == ASSUME 0 \notin Ints PROVE Spec => Dictionary
<1>1. DictInv /\ [Next]_vars => DictInv' /\ [Dict!Next]_(Dict!vars)
    BY DictNext
<1> QED
    BY <1>1, DictInit, PTL DEF Spec, Dictionary, Dict!Spec

-----------------------------------------------------------------------------
(* Leaves. *)

LeavesAreKeys(h) == \A p \in DOMAIN h \ {Root} : trienode_is_leaf(h, p) => h[p].eow

\* A node whose array holds no letter is a leaf.
LEMMA EmptyArray ==
    ASSUME NEW h, Heap(h), NEW p \in DOMAIN h
    PROVE  trienode_is_leaf(h, p) <=> ToSet(h[p].next) = {}
<1>1. h[p].next \in Seq(Letters)
    BY DEF Heap, TrieNode
<1>2. DOMAIN h[p].next = 1..Len(h[p].next) /\ Len(h[p].next) \in Nat
    BY <1>1, LenProperties
<1> DEFINE next == h[p].next
<1> HIDE DEF next
<1>3. next = <<>> <=> Len(next) = 0
    BY <1>1, EmptySeq DEF next
<1>4. CASE Len(next) = 0
  <2>1. 1..0 = {}
    OBVIOUS
  <2>2. DOMAIN next = {}
    BY <1>2, <1>4, <2>1 DEF next
  <2>3. ToSet(next) = {}
    BY <2>2 DEF ToSet
  <2> QED
    BY <1>3, <1>4, <2>3 DEF trienode_is_leaf, next
<1>5. CASE Len(next) # 0
  <2>1. 1 \in DOMAIN next
    BY <1>2, <1>5 DEF next
  <2>2. next[1] \in ToSet(next)
    BY <2>1 DEF ToSet
  <2> QED
    BY <1>3, <1>5, <2>2 DEF trienode_is_leaf, next
<1> QED
    BY <1>4, <1>5

\* Adding the path of a word leaves at most its last node a leaf that is no key.
LEMMA GrowLeaves ==
    ASSUME NEW h, Heap(h), Tree(h), LeavesAreKeys(h), NEW w \in Seq(Letters)
    PROVE  LET g == Grow(h, w, Len(w))
           IN  \A p \in DOMAIN g \ {Root} : trienode_is_leaf(g, p) => p = w \/ g[p].eow
<1> DEFINE g == Grow(h, w, Len(w))
<1>1. Len(w) \in Nat /\ Len(w) \in 0..Len(w) /\ At(w, Len(w)) = w
    BY LenProperties, AtAt
<1>2. Grown(h, w, Len(w), g) /\ Tree(g) /\ w \in DOMAIN g
    BY <1>1, GrowShape, GrowTree
<1> HIDE DEF g
<1>3. /\ DOMAIN g = DOMAIN h \cup Path(w, Len(w)) /\ Heap(g)
      /\ \A p \in DOMAIN h : g[p].eow = h[p].eow /\ ToSet(h[p].next) \subseteq ToSet(g[p].next)
    BY <1>2 DEF Grown
<1>4. ASSUME NEW p \in DOMAIN g \ {Root}, trienode_is_leaf(g, p), p # w
      PROVE  g[p].eow
  <2>1. ToSet(g[p].next) = {}
    BY <1>3, <1>4, EmptyArray
  <2>2. CASE p \in DOMAIN h
    <3>1. trienode_is_leaf(h, p)
      BY <1>3, <2>1, <2>2, EmptyArray
    <3> QED
      BY <1>3, <2>2, <3>1 DEF LeavesAreKeys
  <2>3. CASE p \notin DOMAIN h
    <3>1. PICK k \in 0..Len(w) : p = At(w, k)
      BY <1>3, <2>3 DEF Path
    <3>2. k \in 0..(Len(w) - 1)
      BY <1>1, <1>4, <3>1
    <3>3. w[k + 1] \in ToSet(g[At(w, k)].next)
      BY <1>2, <3>2 DEF Tree, PrefixClosed
    <3> QED
      BY <2>1, <3>1, <3>3
  <2> QED
    BY <2>2, <2>3
<1> QED
    BY <1>4 DEF g

\* Removing a word leaves no branch behind that led only to it.
LEMMA UnlinkLeaves ==
    ASSUME NEW h, Heap(h), Tree(h), LeavesAreKeys(h), NEW w \in Keys(h), w # <<>>
    PROVE  LeavesAreKeys(Unlink(h, w))
<1> DEFINE g == Unlink(h, w)
           cut == last_multiway_index(h, w)
<1>1. w \in DOMAIN h /\ w \in Seq(Letters) /\ Len(w) \in Nat
    BY LenProperties DEF Heap, Keys
<1>2. CASE ~trienode_is_leaf(h, w)
  <2>1. g = [h EXCEPT ![w].eow = FALSE]
    BY <1>2 DEF Unlink
  <2> HIDE DEF g
  <2>2. /\ DOMAIN g = DOMAIN h
        /\ \A p \in DOMAIN h : g[p].next = h[p].next /\ g[p].eow = (h[p].eow /\ p # w)
    BY <1>1, <2>1 DEF Heap, TrieNode
  <2>3. LeavesAreKeys(g)
    BY <1>2, <2>2 DEF LeavesAreKeys, trienode_is_leaf
  <2> QED
    BY <2>3 DEF g
<1>3. CASE trienode_is_leaf(h, w)
  <2>1. Cut(h, w, g)
    BY <1>1, <1>3, UnlinkShape
  <2> DEFINE T == {0} \cup {k \in 1..Len(w) : Multiway(h[At(w, k)])}
  <2>2. cut = Max(T) /\ T \subseteq 0..Len(w) /\ T # {}
    BY <1>1 DEF last_multiway_index
  <2>3. cut = 0 \/ Multiway(h[At(w, cut)])
    <3> HIDE DEF T, cut
    <3>1. cut \in T
      BY <1>1, <2>2, MaxExists
    <3> QED
      BY <3>1 DEF T
  <2>4. At(w, 0) = Root
    BY <1>1, AtAt DEF Root
  <2> HIDE DEF g, cut
  <2>5. /\ Heap(g) /\ DOMAIN g \subseteq DOMAIN h
        /\ \A p \in DOMAIN g : /\ g[p].eow = h[p].eow
                               /\ ToSet(g[p].next) = ToSet(h[p].next) \
                                    (IF p = At(w, cut) THEN {w[cut + 1]} ELSE {})
    BY <2>1 DEF Cut, cut
  <2>6. ASSUME NEW p \in DOMAIN g \ {Root}, trienode_is_leaf(g, p)
        PROVE  g[p].eow
    <3>1. ToSet(g[p].next) = {} /\ p \in DOMAIN h
      BY <2>5, <2>6, EmptyArray
    <3>2. CASE p # At(w, cut)
      <4>1. trienode_is_leaf(h, p)
        BY <2>5, <3>1, <3>2, EmptyArray
      <4> QED
        BY <2>5, <3>1, <4>1 DEF LeavesAreKeys
    <3>3. CASE p = At(w, cut)
      <4> DEFINE next == h[p].next
      <4>1. Multiway(h[p])
        BY <2>3, <2>4, <3>3
      <4>2. ToSet(next) \subseteq {w[cut + 1]}
        BY <2>5, <3>1, <3>3
      <4>3. next \in Seq(Letters) /\ IsInjective(next)
        BY <3>1 DEF Heap, TrieNode, Tree, OneLinkPerLetter
      <4>4. DOMAIN next = 1..Len(next) /\ Len(next) \in Nat
        BY <4>3, LenProperties
      <4>5. Len(next) > 1 => FALSE
        <5> HIDE DEF next
        <5> SUFFICES ASSUME Len(next) > 1 PROVE FALSE
          OBVIOUS
        <5>1. 1 \in DOMAIN next /\ 2 \in DOMAIN next
          BY <4>4
        <5>2. next[1] = next[2]
          BY <4>2, <5>1 DEF ToSet
        <5> QED
          BY <4>3, <5>1, <5>2 DEF IsInjective
      <4> QED
        BY <2>5, <4>1, <4>5 DEF Multiway
    <3> QED
      BY <3>2, <3>3
  <2> QED
    BY <2>6 DEF LeavesAreKeys, g
<1> QED
    BY <1>2, <1>3

-----------------------------------------------------------------------------
(* The invariant, step by step. *)

ShapeInv == IInv /\ EmptyOK /\ LongestWordOK /\ NoDeadBranch

\* NoDeadBranch speaks of the current heap.
LEMMA Leaves == NoDeadBranch <=> LeavesAreKeys(nodes)
BY DEF NoDeadBranch, LeavesAreKeys

\* Initially there is no node.
LEMMA ShapeInit == Init => ShapeInv
<1> SUFFICES ASSUME Init PROVE ShapeInv
    OBVIOUS
<1>1. DOMAIN nodes = {} /\ kind = "EMPTY"
    BY EmptyTree DEF Init
<1> QED
    BY <1>1, InitInvariant DEF ShapeInv, EmptyOK, HasRoot, LongestWordOK, NoDeadBranch

\* add_word: its nodes are no deeper than the word, and only the word's own may be a leaf.
LEMMA AddWordShape ==
    ASSUME ShapeInv, NEW w \in Words, NEW v \in ValuesFor(w), automaton_add_word(w, v)
    PROVE  EmptyOK' /\ LongestWordOK' /\ NoDeadBranch'
<1> DEFINE grown == Grow(nodes, w, Len(w))
           marked == [grown EXCEPT ![w].eow = TRUE, ![w].output = v]
<1>1. /\ w \in Seq(Letters) /\ Len(w) \in Nat /\ Len(w) \in 0..Len(w)
      /\ At(w, Len(w)) = w /\ v \in Int
    BY ValueType DEF ShapeInv, IInv
<1>2. Heap(nodes) /\ Tree(nodes) /\ LeavesAreKeys(nodes) /\ longest_word \in Nat
    BY Leaves DEF ShapeInv, IInv, ObjectOK, TreeOK
<1>3. /\ nodes' = marked /\ kind' = "TRIE"
      /\ longest_word' = IF ~grown[w].eow THEN NewLongest(w) ELSE longest_word
    BY DEF automaton_add_word
<1>4. /\ Grown(nodes, w, Len(w), grown) /\ w \in DOMAIN grown /\ Root \in DOMAIN grown
      /\ Keys(grown) = Keys(nodes)
      /\ \A p \in DOMAIN grown \ {Root} : trienode_is_leaf(grown, p) => p = w \/ grown[p].eow
    BY <1>1, <1>2, GrowShape, GrowTree, GrowKeys, GrowLeaves DEF Root
<1> HIDE DEF grown
<1>5. DOMAIN grown = DOMAIN nodes \cup Path(w, Len(w)) /\ Heap(grown)
    BY <1>4 DEF Grown
<1>6. /\ DOMAIN marked = DOMAIN grown
      /\ \A p \in DOMAIN grown : /\ marked[p].next = grown[p].next
                                 /\ marked[p].eow = (grown[p].eow \/ p = w)
    BY <1>5 DEF Heap, TrieNode
<1>7. NoDeadBranch'
    BY <1>3, <1>4, <1>6 DEF NoDeadBranch, trienode_is_leaf
<1>8. EmptyOK'
    BY <1>3, <1>4, <1>6 DEF EmptyOK, HasRoot
<1>9. Len(w) <= longest_word' /\ longest_word <= longest_word'
  <2>1. CASE grown[w].eow
    <3>1. w \in DOMAIN nodes
      BY <1>4, <2>1 DEF Keys
    <3> QED
      BY <1>2, <1>3, <2>1, <3>1 DEF ShapeInv, LongestWordOK
  <2>2. CASE ~grown[w].eow
    BY <1>1, <1>2, <1>3, <2>2 DEF NewLongest
  <2> QED
    BY <2>1, <2>2
<1>10. ASSUME NEW p \in DOMAIN grown
       PROVE  Len(p) <= longest_word'
  <2>1. longest_word' \in Nat
    BY <1>1, <1>2, <1>3 DEF NewLongest
  <2>2. CASE p \in DOMAIN nodes
    <3>1. Len(p) <= longest_word /\ Len(p) \in Nat
      BY <1>2, <2>2, LenProperties DEF ShapeInv, LongestWordOK, Heap
    <3> QED
      BY <1>2, <1>9, <2>1, <3>1
  <2>3. CASE p \in Path(w, Len(w))
    <3>1. PICK k \in 0..Len(w) : p = At(w, k)
      BY <2>3 DEF Path
    <3>2. Len(p) = k
      BY <1>1, <3>1, AtType
    <3> QED
      BY <1>1, <1>9, <2>1, <3>1, <3>2
  <2> QED
    BY <1>5, <2>2, <2>3
<1>11. LongestWordOK'
    BY <1>3, <1>6, <1>10 DEF LongestWordOK
<1> QED
    BY <1>7, <1>8, <1>11

\* remove_word and pop only take nodes away, never the root.
LEMMA RemoveShape ==
    ASSUME ShapeInv, NEW w \in Words, NEW success, NEW absent,
           automaton_remove_word_aux(w, success, absent)
    PROVE  EmptyOK' /\ LongestWordOK' /\ NoDeadBranch'
<1>1. w \in Keys(nodes) /\ w # <<>>
    BY PresentKey DEF automaton_remove_word_aux, ShapeInv
<1>2. Heap(nodes) /\ Tree(nodes) /\ LeavesAreKeys(nodes)
    BY Leaves DEF ShapeInv, IInv, ObjectOK, TreeOK
<1>3. nodes' = Unlink(nodes, w) /\ kind' = "TRIE" /\ longest_word' = longest_word
    BY DEF automaton_remove_word_aux
<1>4. DOMAIN nodes' \subseteq DOMAIN nodes /\ Root \in DOMAIN nodes'
    BY <1>1, <1>2, <1>3, UnlinkTree DEF Root
<1>5. LeavesAreKeys(nodes')
    BY <1>1, <1>2, <1>3, UnlinkLeaves
<1> QED
    BY <1>3, <1>4, <1>5 DEF EmptyOK, HasRoot, LongestWordOK, NoDeadBranch, LeavesAreKeys, ShapeInv

\* Every step keeps the invariant, if no allocation fails.
LEMMA ShapeNext == ASSUME ~MemoryFails, ShapeInv, [Next]_vars PROVE ShapeInv'
<1> DEFINE Goal == EmptyOK' /\ LongestWordOK' /\ NoDeadBranch'
<1>1. IInv /\ IInv' /\ Heap(nodes)
    BY NextInvariant DEF ShapeInv, IInv, ObjectOK
<1>2. ASSUME DOMAIN nodes' = DOMAIN nodes, longest_word' = longest_word,
             kind' = "EMPTY" <=> kind = "EMPTY",
             \A p \in DOMAIN nodes : nodes'[p].next = nodes[p].next /\ nodes'[p].eow = nodes[p].eow
      PROVE  Goal
    BY <1>2 DEF ShapeInv, EmptyOK, HasRoot, LongestWordOK, NoDeadBranch, trienode_is_leaf
<1>3. ASSUME UNCHANGED <<nodes, longest_word, kind>> PROVE Goal
    BY <1>2, <1>3
<1>4. ASSUME NEW w \in Words, NEW v \in ValuesFor(w), automaton_add_word(w, v)
      PROVE  Goal
    BY <1>4, AddWordShape
<1>5. ASSUME NEW w \in Words, NEW depth, automaton_add_word_no_memory(w, depth)
      PROVE  Goal
    BY <1>5 DEF automaton_add_word_no_memory
<1>6. ASSUME NEW w \in Words, NEW success, NEW absent,
             automaton_remove_word_aux(w, success, absent)
      PROVE  Goal
    BY <1>6, RemoveShape
<1>7. ASSUME automaton_clear PROVE Goal
  <2>1. DOMAIN nodes' = {} /\ kind' = "EMPTY"
    BY <1>7, EmptyTree DEF automaton_clear
  <2> QED
    BY <2>1 DEF EmptyOK, HasRoot, LongestWordOK, NoDeadBranch
<1>8. ASSUME MakeStep PROVE Goal
  <2>1. ASSUME NEW c, NEW f, nodes' = [nodes EXCEPT ![c].fail = f]
        PROVE  /\ DOMAIN nodes' = DOMAIN nodes
               /\ \A p \in DOMAIN nodes : /\ nodes'[p].next = nodes[p].next
                                          /\ nodes'[p].eow = nodes[p].eow
    BY <1>1, <2>1 DEF Heap, TrieNode
  <2>2. ASSUME SetupFirstLevel \/ SetFail PROVE Goal
    BY <1>2, <2>1, <2>2 DEF SetupFirstLevel, SetFail
  <2>3. ASSUME BuildDone PROVE Goal
    <3>1. kind = "TRIE" /\ kind' = "AHOCORASICK" /\ UNCHANGED <<nodes, longest_word>>
      BY <1>1, <2>3 DEF BuildDone, IInv, FrameOK, Building
    <3> QED
      BY <1>2, <3>1
  <2> QED
    BY <1>3, <1>8, <2>2, <2>3 DEF MakeStep, FirstLevelDone, PopNode, EnqueueChild, ChildrenDone,
                                  FollowFail, object
<1>9. ASSUME NEW w, \/ automaton_pop_crashes(w) \/ automaton_remove_no_memory(w)
                    \/ automaton_remove_absent(w) \/ automaton_add_empty_word
                    \/ automaton_add_word_aborts \/ automaton_get_stats
                    \/ automaton_make_automaton
      PROVE  Goal
    BY <1>3, <1>9 DEF automaton_pop_crashes, automaton_remove_no_memory, automaton_remove_absent,
                automaton_add_empty_word, automaton_add_word_aborts, automaton_get_stats,
                automaton_make_automaton, object
<1>10. ASSUME UNCHANGED vars PROVE Goal
    BY <1>3, <1>10 DEF vars, object
<1> HIDE DEF Goal
<1>11. Goal
    BY <1>4, <1>5, <1>6, <1>7, <1>8, <1>9, <1>10
       DEF Next, automaton_remove_word, automaton_pop
<1> QED
    BY <1>1, <1>11 DEF Goal, ShapeInv

-----------------------------------------------------------------------------
(***************************************************************************)
(* An automaton of kind EMPTY has no root and every other one has one:     *)
(* the ASSERTs of trie.c:22 and Automaton.c:580 hold.  Not so once an      *)
(* add_word has failed for lack of memory.                                 *)
(***************************************************************************)
THEOREM EmptyCorrect == ASSUME ~MemoryFails PROVE Spec => []EmptyOK
<1>1. ShapeInv /\ [Next]_vars => ShapeInv'
    BY ShapeNext
<1>2. ShapeInv => EmptyOK
    BY DEF ShapeInv
<1> QED
    BY <1>1, <1>2, ShapeInit, PTL DEF Spec

(***************************************************************************)
(* No path of the trie is longer than longest_word, so the buffer of the   *)
(* items iterator holds every one (AutomatonItemsIter.c:58, 213).          *)
(***************************************************************************)
THEOREM LongestWordCorrect == ASSUME ~MemoryFails PROVE Spec => []LongestWordOK
<1>1. ShapeInv /\ [Next]_vars => ShapeInv'
    BY ShapeNext
<1>2. ShapeInv => LongestWordOK
    BY DEF ShapeInv
<1> QED
    BY <1>1, <1>2, ShapeInit, PTL DEF Spec

(***************************************************************************)
(* remove_word and pop leave no branch that leads to no word               *)
(* (trie.c:84-127, the choice of last_multiway).                           *)
(***************************************************************************)
THEOREM NoDeadBranchCorrect == ASSUME ~MemoryFails PROVE Spec => []NoDeadBranch
<1>1. ShapeInv /\ [Next]_vars => ShapeInv'
    BY ShapeNext
<1>2. ShapeInv => NoDeadBranch
    BY DEF ShapeInv
<1> QED
    BY <1>1, <1>2, ShapeInit, PTL DEF Spec

-----------------------------------------------------------------------------
(* Reading. *)

\* A node is the beginning of a key, since no branch is dead: the deepest node below it is a leaf.
LEMMA NodeBeginsKey ==
    ASSUME ShapeInv, NEW w \in Seq(Letters), w # <<>>
    PROVE  w \in DOMAIN nodes <=> \E k \in Keys(nodes) : IsPrefix(w, k)
<1>1. Heap(nodes) /\ Tree(nodes) /\ longest_word \in Nat /\ LeavesAreKeys(nodes)
    BY Leaves DEF ShapeInv, IInv, ObjectOK, TreeOK
<1>2. Len(w) \in Nat \ {0} /\ At(w, Len(w)) = w /\ Len(w) \in 0..Len(w)
    BY EmptySeq, LenProperties, AtAt
<1>3. ASSUME NEW k \in Keys(nodes), IsPrefix(w, k)
      PROVE  w \in DOMAIN nodes
  <2>1. k \in DOMAIN nodes /\ k \in Seq(Letters) /\ Len(k) \in Nat
    BY <1>1, LenProperties DEF Keys, Heap
  <2>2. Len(w) <= Len(k) /\ At(k, Len(w)) = w
    BY <1>2, <1>3 DEF IsPrefix, At
  <2>3. CASE Len(w) = Len(k)
    <3>1. At(k, Len(k)) = k
      BY <2>1, AtAt
    <3> QED
      BY <2>1, <2>2, <2>3, <3>1
  <2>4. CASE Len(w) # Len(k)
    <3>1. Len(w) \in 0..(Len(k) - 1)
      BY <1>2, <2>1, <2>2, <2>4
    <3> QED
      BY <1>1, <2>1, <2>2, <3>1 DEF Tree, PrefixClosed
  <2> QED
    BY <2>3, <2>4
<1>4. ASSUME w \in DOMAIN nodes
      PROVE  \E k \in Keys(nodes) : IsPrefix(w, k)
  <2> DEFINE below == {p \in DOMAIN nodes : IsPrefix(w, p)}
             T == {Len(p) : p \in below}
  <2>1. w \in below
    BY <1>2, <1>4 DEF IsPrefix
  <2>2. \A p \in DOMAIN nodes : Len(p) \in 0..longest_word
    BY <1>1, LenProperties DEF ShapeInv, LongestWordOK, Heap
  <2>3. T \subseteq 0..longest_word /\ T # {}
    BY <2>1, <2>2
  <2>4. Max(T) \in T /\ \A n \in T : Max(T) >= n
    <3> HIDE DEF T
    <3> QED
      BY <1>1, <2>3, MaxExists
  <2>5. PICK p \in below : \A q \in below : Len(p) >= Len(q)
    BY <2>4
  <2>6. /\ p \in DOMAIN nodes /\ p \in Seq(Letters) /\ Len(p) \in Nat
        /\ Len(w) <= Len(p) /\ At(w, Len(w)) = At(p, Len(w))
    BY <1>1, LenProperties DEF Heap, IsPrefix, At
  <2> HIDE DEF T
  <2>7. trienode_is_leaf(nodes, p)
    <3> SUFFICES ASSUME ~trienode_is_leaf(nodes, p) PROVE FALSE
      OBVIOUS
    <3>1. PICK l \in ToSet(nodes[p].next) : TRUE
      BY <1>1, <2>6, EmptyArray
    <3>2. l \in Letters
      <4>1. nodes[p].next \in Seq(Letters)
        BY <1>1, <2>6 DEF Heap, TrieNode
      <4> QED
        BY <3>1, <4>1, ElementOfSeq DEF ToSet
    <3> DEFINE q == Append(p, l)
    <3>3. q \in DOMAIN nodes
      BY <1>1, <2>6, <3>1 DEF Tree, LinksLive
    <3>4. q \in Seq(Letters) /\ Len(q) = Len(p) + 1 /\ At(q, Len(p)) = p
      BY <2>6, <3>2, AppendAbove
    <3> HIDE DEF q
    <3>5. At(q, Len(w)) = At(p, Len(w))
      <4>1. Len(p) \in 0..Len(q) /\ Len(w) \in 0..Len(p)
        <5>1. Len(p) \in Nat /\ Len(w) \in Nat /\ Len(q) = Len(p) + 1 /\ Len(w) <= Len(p)
          BY <1>2, <2>6, <3>4
        <5> QED
          BY <5>1
      <4>2. At(At(q, Len(p)), Len(w)) = At(q, Len(w))
        BY <3>4, <4>1, AtAt
      <4> QED
        BY <3>4, <4>2
    <3>6. q \in below
      BY <1>2, <2>6, <3>3, <3>4, <3>5 DEF IsPrefix, At
    <3>7. Len(p) >= Len(q)
      BY <2>5, <3>6
    <3> QED
      BY <2>6, <3>4, <3>7
  <2>8. p # Root
    <3>1. Len(Root) = 0
      BY EmptySeq DEF Root
    <3>2. Len(w) \in Nat /\ Len(w) # 0 /\ Len(p) \in Nat /\ Len(w) <= Len(p)
      BY <1>2, <2>6
    <3>3. Len(p) # 0
      BY <3>2
    <3> QED
      BY <3>1, <3>3
  <2>9. p \in Keys(nodes)
    BY <1>1, <2>6, <2>7, <2>8 DEF LeavesAreKeys, Keys
  <2> QED
    BY <2>5, <2>9
<1> QED
    BY <1>3, <1>4

\* A tree with a node has a root.
LEMMA RootOfTree ==
    ASSUME NEW h, Heap(h), Tree(h), NEW p \in DOMAIN h
    PROVE  Root \in DOMAIN h
<1>1. p \in Seq(Letters) /\ Len(p) \in Nat
    BY LenProperties DEF Heap
<1>2. CASE Len(p) = 0
    BY <1>1, <1>2, EmptySeq DEF Root
<1>3. CASE Len(p) # 0
  <2>1. 0 \in 0..(Len(p) - 1) /\ 0 \in 0..Len(p)
    BY <1>1, <1>3
  <2>2. At(p, 0) \in DOMAIN h
    BY <2>1 DEF Tree, PrefixClosed
  <2>3. At(p, 0) = Root
    BY <1>1, <2>1, AtType, EmptySeq DEF Root
  <2> QED
    BY <2>2, <2>3
<1> QED
    BY <1>2, <1>3

\* longest_prefix stops at the deepest prefix that match() would find.
LEMMA LongestMatches ==
    ASSUME ShapeInv, HasRoot, NEW w \in Seq(Letters)
    PROVE  automaton_longest_prefix(w) =
                Max({0} \cup {j \in 1..Len(w) : automaton_match(At(w, j))})
<1>1. Heap(nodes) /\ Tree(nodes) /\ Root \in DOMAIN nodes
    BY DEF ShapeInv, IInv, ObjectOK, TreeOK, HasRoot
<1>2. Len(w) \in Nat
    BY LenProperties
<1>3. Reaches(nodes, w, 0)
  <2>1. 0 \in 0..Len(w) /\ At(w, 0) = Root
    BY <1>2, AtAt DEF Root
  <2> QED
    BY <1>1, <2>1, ReachesNode
<1>4. ASSUME NEW j \in 1..Len(w)
      PROVE  automaton_match(At(w, j)) <=> Reaches(nodes, w, j)
  <2>1. j \in 0..Len(w) /\ At(w, j) \in Seq(Letters)
    BY <1>2, AtType
  <2>2. Reaches(nodes, w, j) <=> At(w, j) \in DOMAIN nodes
    BY <1>1, <2>1, ReachesNode
  <2>3. trie_find(nodes, At(w, j)) # NULL <=> At(w, j) \in DOMAIN nodes
    BY <1>1, <2>1, FindsNode
  <2> QED
    BY <2>2, <2>3 DEF automaton_match
<1>5. {k \in 0..Len(w) : Reaches(nodes, w, k)} =
          {0} \cup {j \in 1..Len(w) : automaton_match(At(w, j))}
  <2>1. 0..Len(w) = {0} \cup 1..Len(w)
    BY <1>2
  <2> QED
    BY <1>3, <1>4, <2>1
<1>6. automaton_longest_prefix(w) = trie_longest(nodes, w)
    BY DEF automaton_longest_prefix
<1> QED
    BY <1>5, <1>6 DEF trie_longest

(***************************************************************************)
(* The calls that walk links answer like a set of keys: `in', get, match   *)
(* and longest_prefix (Automaton.c:427-540, trie.c:139-174), over every    *)
(* alphabet and every sequence of calls in which no allocation fails, with *)
(* the exception of longest_prefix while there is no root.                 *)
(***************************************************************************)
THEOREM QueriesCorrect == ASSUME ~MemoryFails PROVE Spec => []QueriesOK
<1>1. ShapeInv /\ [Next]_vars => ShapeInv'
    BY ShapeNext
<1>2. ShapeInv => QueriesOK
  <2> SUFFICES ASSUME ShapeInv, NEW w \in Words
               PROVE  /\ automaton_contains(w) <=> w \in Keys(nodes)
                      /\ automaton_get(w) = "found" <=> w \in Keys(nodes)
                      /\ automaton_match(w) <=> \E k \in Keys(nodes) : IsPrefix(w, k)
                      /\ automaton_longest_prefix(w) =
                            IF HasRoot
                            THEN Max({0} \cup {j \in 1..Len(w) : automaton_match(At(w, j))})
                            ELSE ABORT
    BY DEF QueriesOK
  <2>1. w \in Seq(Letters) /\ w # <<>>
    BY ConstantAssumption
  <2>2. Heap(nodes) /\ Tree(nodes)
    BY DEF ShapeInv, IInv, ObjectOK, TreeOK
  <2>3. trie_find(nodes, w) # NULL <=> w \in DOMAIN nodes
    <3>1. CASE HasRoot
      BY <2>1, <2>2, <3>1, FindsNode DEF HasRoot
    <3>2. CASE ~HasRoot
      <4>1. trie_find(nodes, w) = NULL
        BY <3>2 DEF trie_find, HasRoot
      <4>2. w \notin DOMAIN nodes
        BY <2>1, <2>2, <3>2, RootOfTree DEF HasRoot
      <4> QED
        BY <4>1, <4>2
    <3> QED
      BY <3>1, <3>2
  <2>4. automaton_contains(w) <=> w \in Keys(nodes)
    BY <2>3 DEF automaton_contains, Keys
  <2>5. automaton_get(w) = "found" <=> w \in Keys(nodes)
    BY <2>3 DEF automaton_get, Keys
  <2>6. automaton_match(w) <=> \E k \in Keys(nodes) : IsPrefix(w, k)
    BY <2>1, <2>3, NodeBeginsKey DEF automaton_match
  <2>7. CASE HasRoot
    <3>1. automaton_longest_prefix(w) =
              Max({0} \cup {j \in 1..Len(w) : automaton_match(At(w, j))})
      BY <2>1, <2>7, LongestMatches
    <3> QED
      BY <2>4, <2>5, <2>6, <2>7, <3>1
  <2>8. CASE ~HasRoot
    <3>1. automaton_longest_prefix(w) = ABORT
      BY <2>1, <2>8 DEF automaton_longest_prefix
    <3> QED
      BY <2>4, <2>5, <2>6, <2>8, <3>1
  <2> QED
    BY <2>7, <2>8
<1> QED
    BY <1>1, <1>2, ShapeInit, PTL DEF Spec

-----------------------------------------------------------------------------
(* The walk that finds a fail link. *)

\* The walk of make_automaton from node n for its child over l has come to s: no suffix
\* of n that is longer than s has a child over l.
WalkedTo(h, n, l, s) ==
    \E k \in 0..(Len(n) - 1) :
        /\ s = Suffix(n, k)
        /\ \A m \in (k + 1)..(Len(n) - 1) : Suffix(Append(n, l), m + 1) \notin DOMAIN h

\* It starts at the fail link of n.
LEMMA WalkStarts ==
    ASSUME NEW h, Heap(h), Tree(h), NEW n \in Seq(Letters), NEW l \in Letters, NEW s,
           FailNode(h, n, s)
    PROVE  WalkedTo(h, n, l, s)
<1>1. PICK k \in 0..(Len(n) - 1) :
            /\ s = Suffix(n, k) /\ s \in DOMAIN h
            /\ \A m \in (k + 1)..(Len(n) - 1) : Suffix(n, m) \notin DOMAIN h
    BY DEF FailNode
<1>2. ASSUME NEW m \in (k + 1)..(Len(n) - 1) PROVE Suffix(Append(n, l), m + 1) \notin DOMAIN h
  <2>1. m \in 0..Len(n)
    BY LenProperties
  <2> QED
    BY <1>1, <2>1, SuffixHangs
<1> QED
    BY <1>1, <1>2 DEF WalkedTo

\* It goes on from s to the fail link of s, if s has no child over l.
LEMMA WalkGoesOn ==
    ASSUME NEW h, Heap(h), Tree(h), NEW n \in Seq(Letters), NEW l \in Letters,
           NEW s \in DOMAIN h, WalkedTo(h, n, l, s), l \notin ToSet(h[s].next),
           NEW f, FailNode(h, s, f)
    PROVE  WalkedTo(h, n, l, f)
<1>1. Len(n) \in Nat
    BY LenProperties
<1>2. PICK k \in 0..(Len(n) - 1) :
            /\ s = Suffix(n, k)
            /\ \A m \in (k + 1)..(Len(n) - 1) : Suffix(Append(n, l), m + 1) \notin DOMAIN h
    BY DEF WalkedTo
<1>3. k \in 0..Len(n) /\ Len(s) = k
  <2>1. k \in 0..Len(n)
    BY <1>1
  <2> QED
    BY <1>2, <2>1, SuffixType
<1>4. PICK j \in 0..(k - 1) :
            /\ f = Suffix(s, j) /\ f \in DOMAIN h
            /\ \A m \in (j + 1)..(k - 1) : Suffix(s, m) \notin DOMAIN h
    BY <1>3 DEF FailNode
<1>5. \A m \in 0..k : Suffix(s, m) = Suffix(n, m)
    BY <1>2, <1>3, SuffixSuffix
<1>6. f = Suffix(n, j) /\ j \in 0..(Len(n) - 1)
    BY <1>1, <1>4, <1>5
<1>7. ASSUME NEW m \in (j + 1)..(Len(n) - 1) PROVE Suffix(Append(n, l), m + 1) \notin DOMAIN h
  <2>1. m \in 0..Len(n)
    BY <1>1, <1>4
  <2>2. CASE m \in (k + 1)..(Len(n) - 1)
    BY <1>2, <2>2
  <2>3. CASE m = k
    BY <1>2, <2>1, <2>3, SuffixHangs
  <2>4. CASE m \in (j + 1)..(k - 1)
    <3>1. Suffix(n, m) \notin DOMAIN h
      BY <1>4, <1>5, <2>4
    <3> QED
      BY <2>1, <3>1, SuffixHangs
  <2> QED
    BY <1>1, <2>2, <2>3, <2>4
<1> QED
    BY <1>6, <1>7 DEF WalkedTo

\* Where it ends, the child of s, or the root if there is none, is the fail link of the child.
LEMMA WalkEnds ==
    ASSUME NEW h, Heap(h), Tree(h), NEW n \in Seq(Letters), NEW l \in Letters,
           NEW s \in DOMAIN h, WalkedTo(h, n, l, s), Root \in DOMAIN h
    PROVE  /\ l \in ToSet(h[s].next) => FailNode(h, Append(n, l), Append(s, l))
           /\ s = Root /\ l \notin ToSet(h[s].next) => FailNode(h, Append(n, l), Root)
<1> DEFINE c == Append(n, l)
<1>1. Len(n) \in Nat /\ c \in Seq(Letters) /\ Len(c) = Len(n) + 1
    BY LenProperties, AppendAbove
<1>2. PICK k \in 0..(Len(n) - 1) :
            /\ s = Suffix(n, k)
            /\ \A m \in (k + 1)..(Len(n) - 1) : Suffix(c, m + 1) \notin DOMAIN h
    BY DEF WalkedTo
<1>3. k \in 0..Len(n) /\ Len(s) = k
  <2>1. k \in 0..Len(n)
    BY <1>1
  <2> QED
    BY <1>2, <2>1, SuffixType
<1>4. Suffix(c, k + 1) = Append(s, l)
    BY <1>2, <1>3, SuffixAppend
<1>5. Suffix(c, 0) = Root
  <2>1. 0 \in 0..Len(c)
    BY <1>1
  <2> QED
    BY <1>1, <2>1, SuffixSuffix DEF Root
<1>6. Suffix(c, k + 1) \in DOMAIN h <=> l \in ToSet(h[s].next)
    BY <1>2, <1>3, <1>4, SuffixHangs DEF Tree, LinksLive
<1> HIDE DEF c
<1>7. \A m \in (k + 2)..(Len(c) - 1) : Suffix(c, m) \notin DOMAIN h
  <2> TAKE m \in (k + 2)..(Len(c) - 1)
  <2>1. m - 1 \in (k + 1)..(Len(n) - 1) /\ m - 1 + 1 = m
    BY <1>1
  <2> QED
    BY <1>2, <2>1
<1>8. ASSUME l \in ToSet(h[s].next) PROVE FailNode(h, c, Append(s, l))
  <2>1. k + 1 \in 0..(Len(c) - 1) /\ k + 1 + 1 = k + 2
    BY <1>1
  <2> QED
    BY <1>4, <1>6, <1>7, <1>8, <2>1 DEF FailNode
<1>9. ASSUME s = Root, l \notin ToSet(h[s].next) PROVE FailNode(h, c, Root)
  <2>1. k = 0
    BY <1>3, <1>9, EmptySeq DEF Root
  <2>2. 0 \in 0..(Len(c) - 1)
    BY <1>1
  <2>3. ASSUME NEW m \in (0 + 1)..(Len(c) - 1) PROVE Suffix(c, m) \notin DOMAIN h
    <3>1. CASE m = 1
      BY <1>6, <1>9, <2>1, <3>1
    <3>2. CASE m # 1
      <4>1. m \in (k + 2)..(Len(c) - 1)
        BY <2>1, <3>2
      <4> QED
        BY <1>7, <4>1
    <3> QED
      BY <3>1, <3>2
  <2> QED
    BY <1>5, <2>2, <2>3 DEF FailNode
<1> QED
    BY <1>8, <1>9 DEF c

-----------------------------------------------------------------------------
(* The queue. *)

\* Nodes leave the queue level by level, and it never holds the root.
LevelOrder(q) ==
    \A j, k \in DOMAIN q :
        j <= k => 1 <= Len(q[j]) /\ Len(q[j]) <= Len(q[k]) /\ Len(q[k]) <= Len(q[j]) + 1

\* What is in the queue while the children of n are linked: its level and the next one.
LevelOf(q, n) == \A j \in DOMAIN q : Len(n) <= Len(q[j]) /\ Len(q[j]) <= Len(n) + 1

InQueue(q, c) == \E j \in DOMAIN q : q[j] = c

\* A child enters the queue.
LEMMA QueueAppend ==
    ASSUME NEW q \in Seq(Seq(Letters)), NEW n \in Seq(Letters), NEW c \in Seq(Letters),
           LevelOrder(q), LevelOf(q, n), Len(c) = Len(n) + 1
    PROVE  LevelOrder(Append(q, c)) /\ LevelOf(Append(q, c), n)
<1> DEFINE r == Append(q, c)
<1>1. /\ r \in Seq(Seq(Letters)) /\ Len(r) = Len(q) + 1 /\ r[Len(q) + 1] = c
      /\ \A j \in 1..Len(q) : r[j] = q[j]
    BY AppendProperties
<1>2. /\ Len(q) \in Nat /\ Len(n) \in Nat /\ DOMAIN q = 1..Len(q)
      /\ DOMAIN r = 1..(Len(q) + 1)
    BY <1>1, LenProperties
<1> HIDE DEF r
<1>3. \A j \in 1..Len(q) : /\ q[j] \in Seq(Letters) /\ Len(q[j]) \in Nat
                           /\ 1 <= Len(q[j]) /\ Len(n) <= Len(q[j]) /\ Len(q[j]) <= Len(n) + 1
  <2> TAKE j \in 1..Len(q)
  <2>1. q[j] \in Seq(Letters)
    BY ElementOfSeq
  <2>2. Len(q[j]) \in Nat
    BY <2>1, LenProperties
  <2>3. j \in DOMAIN q /\ j <= j
    BY <1>2
  <2>4. 1 <= Len(q[j])
    BY <2>3 DEF LevelOrder
  <2>5. Len(n) <= Len(q[j]) /\ Len(q[j]) <= Len(n) + 1
    BY <2>3 DEF LevelOf
  <2> QED
    BY <2>1, <2>2, <2>4, <2>5
<1>4. \A j \in 1..(Len(q) + 1) : j \in 1..Len(q) \/ j = Len(q) + 1
    BY <1>2
<1>5. LevelOf(r, n)
  <2>1. ASSUME NEW j \in 1..(Len(q) + 1)
        PROVE  Len(n) <= Len(r[j]) /\ Len(r[j]) <= Len(n) + 1
    <3>1. CASE j \in 1..Len(q)
      <4>1. r[j] = q[j]
        BY <1>1, <3>1
      <4> QED
        BY <1>3, <3>1, <4>1
    <3>2. CASE j = Len(q) + 1
      BY <1>1, <1>2, <3>2
    <3> QED
      BY <1>4, <3>1, <3>2
  <2> QED
    BY <1>2, <2>1 DEF LevelOf
<1>6. ASSUME NEW j \in 1..(Len(q) + 1), NEW k \in 1..(Len(q) + 1), j <= k
      PROVE  1 <= Len(r[j]) /\ Len(r[j]) <= Len(r[k]) /\ Len(r[k]) <= Len(r[j]) + 1
  <2>1. CASE k \in 1..Len(q)
    <3>1. j \in 1..Len(q)
      BY <1>2, <1>6, <2>1
    <3> QED
      BY <1>1, <1>2, <1>6, <2>1, <3>1 DEF LevelOrder
  <2>2. CASE k = Len(q) + 1 /\ j \in 1..Len(q)
    BY <1>1, <1>2, <1>3, <2>2
  <2>3. CASE k = Len(q) + 1 /\ j = Len(q) + 1
    BY <1>1, <1>2, <2>3
  <2> QED
    BY <1>4, <2>1, <2>2, <2>3
<1>7. LevelOrder(r)
    BY <1>2, <1>6 DEF LevelOrder
<1> QED
    BY <1>5, <1>7 DEF r

\* The first node leaves it.
LEMMA QueuePop ==
    ASSUME NEW q \in Seq(Seq(Letters)), LevelOrder(q), q # <<>>
    PROVE  Head(q) # Root /\ LevelOrder(Tail(q)) /\ LevelOf(Tail(q), Head(q))
<1> DEFINE r == Tail(q)
<1>1. /\ r \in Seq(Seq(Letters)) /\ Len(r) = Len(q) - 1 /\ Head(q) = q[1]
      /\ \A j \in 1..Len(r) : r[j] = q[j + 1]
    BY HeadTailProperties
<1>2. Len(q) \in Nat /\ Len(q) # 0 /\ DOMAIN q = 1..Len(q) /\ DOMAIN r = 1..(Len(q) - 1)
    BY <1>1, LenProperties, EmptySeq
<1> HIDE DEF r
<1>3. 1 \in DOMAIN q /\ \A j \in DOMAIN r : j + 1 \in DOMAIN q /\ 1 <= j + 1 /\ r[j] = q[j + 1]
  <2>1. 1 \in DOMAIN q
    BY <1>2
  <2>2. \A j \in 1..(Len(q) - 1) : j + 1 \in 1..Len(q) /\ 1 <= j + 1
    BY <1>2
  <2>3. \A j \in 1..(Len(q) - 1) : r[j] = q[j + 1]
    BY <1>1
  <2> QED
    BY <1>2, <2>1, <2>2, <2>3
<1>4. Head(q) # Root
  <2>1. Len(Root) = 0
    BY EmptySeq DEF Root
  <2>2. 1 <= Len(q[1])
    BY <1>3 DEF LevelOrder
  <2> QED
    BY <1>1, <2>1, <2>2
<1>5. LevelOf(r, Head(q))
    BY <1>1, <1>3 DEF LevelOrder, LevelOf
<1>6. \A j, k \in DOMAIN r : j <= k => j + 1 <= k + 1
    BY <1>2
<1>7. LevelOrder(r)
    BY <1>3, <1>6 DEF LevelOrder
<1> QED
    BY <1>4, <1>5, <1>7 DEF r

-----------------------------------------------------------------------------
(* What is linked and what is still to be linked. *)

\* p lies below a node in the queue.
Waits(q, p) == \E j \in DOMAIN q : \E k \in 1..(Len(p) - 1) : At(p, k) = q[j]

\* p is, or lies below, a child of n that make_automaton has not come to yet.
Pends(h, n, j, p) ==
    \E m \in j..Len(h[n].next) :
        Len(n) < Len(p) /\ At(p, Len(n) + 1) = Append(n, h[n].next[m])

\* Every node has its fail link, or make_automaton will still come to it.
Covered(h, q, n, j) ==
    \A p \in DOMAIN h \ {Root} :
        FailNode(h, p, h[p].fail) \/ Waits(q, p) \/ Pends(h, n, j, p)

\* At first make_automaton will come to all of them.
LEMMA CoveredFirst ==
    ASSUME NEW h, Heap(h), Tree(h), Root \in DOMAIN h
    PROVE  Covered(h, <<>>, Root, 1)
<1> SUFFICES ASSUME NEW p \in DOMAIN h \ {Root} PROVE Pends(h, Root, 1, p)
    BY DEF Covered
<1>1. p \in Seq(Letters) /\ Len(p) \in Nat /\ Len(p) # 0 /\ Len(Root) = 0
    BY LenProperties, EmptySeq DEF Heap, Root
<1>2. 0 \in 0..(Len(p) - 1) /\ 0 \in 0..Len(p)
    BY <1>1
<1>3. At(p, 0) = Root /\ Append(At(p, 0), p[0 + 1]) = At(p, 0 + 1)
    BY <1>1, <1>2, AtAt, AppendAt DEF Root
<1>4. p[0 + 1] \in ToSet(h[Root].next)
    BY <1>2, <1>3 DEF Tree, PrefixClosed
<1>5. DOMAIN h[Root].next = 1..Len(h[Root].next)
  <2>1. h[Root].next \in Seq(Letters)
    BY DEF Heap, TrieNode
  <2> QED
    BY <2>1, LenProperties
<1>6. PICK m \in 1..Len(h[Root].next) : p[0 + 1] = h[Root].next[m]
    BY <1>4, <1>5 DEF ToSet
<1>7. Len(Root) < Len(p) /\ Len(Root) + 1 = 0 + 1
    BY <1>1
<1>8. At(p, 0 + 1) = Append(Root, h[Root].next[m])
    BY <1>3, <1>6
<1> QED
    BY <1>6, <1>7, <1>8 DEF Pends

\* While the children of n are linked, the nodes no deeper than n have their fail link.
LEMMA CoveredAbove ==
    ASSUME NEW h, Heap(h), NEW q \in Seq(Seq(Letters)), NEW n \in Seq(Letters), NEW j,
           LevelOf(q, n), Covered(h, q, n, j),
           NEW p \in DOMAIN h \ {Root}, Len(p) <= Len(n)
    PROVE  FailNode(h, p, h[p].fail)
<1>1. p \in Seq(Letters) /\ Len(p) \in Nat /\ Len(n) \in Nat
    BY LenProperties DEF Heap
<1>2. ~Pends(h, n, j, p)
    BY <1>1 DEF Pends
<1>3. ~Waits(q, p)
  <2> SUFFICES ASSUME NEW m \in DOMAIN q, NEW k \in 1..(Len(p) - 1), At(p, k) = q[m]
               PROVE  FALSE
    BY DEF Waits
  <2>1. k \in 0..Len(p)
    BY <1>1
  <2>2. Len(q[m]) = k
    BY <1>1, <2>1, AtType
  <2>3. Len(n) <= Len(q[m])
    BY DEF LevelOf
  <2> QED
    BY <1>1, <2>2, <2>3
<1> QED
    BY <1>2, <1>3 DEF Covered

\* A node more in the queue.
LEMMA CoveredAppend ==
    ASSUME NEW h, NEW q \in Seq(Seq(Letters)), NEW n, NEW j, NEW c \in Seq(Letters),
           Covered(h, q, n, j)
    PROVE  Covered(h, Append(q, c), n, j) /\ InQueue(Append(q, c), c)
<1>1. /\ Append(q, c) \in Seq(Seq(Letters)) /\ Len(Append(q, c)) = Len(q) + 1
      /\ Append(q, c)[Len(q) + 1] = c
      /\ \A k \in 1..Len(q) : Append(q, c)[k] = q[k]
    BY AppendProperties
<1>2. Len(q) \in Nat /\ DOMAIN q = 1..Len(q) /\ DOMAIN Append(q, c) = 1..(Len(q) + 1)
    BY <1>1, LenProperties
<1>3. Len(q) + 1 \in 1..(Len(q) + 1) /\ 1..Len(q) \subseteq 1..(Len(q) + 1)
    BY <1>2
<1>4. \A p : Waits(q, p) => Waits(Append(q, c), p)
    BY <1>1, <1>2, <1>3 DEF Waits
<1> QED
    BY <1>1, <1>2, <1>3, <1>4 DEF Covered, InQueue

\* When the children of n are linked, what waits under the first node of the queue pends.
LEMMA CoveredPop ==
    ASSUME NEW h, Heap(h), Tree(h), NEW q \in Seq(DOMAIN h), q # <<>>, NEW n, NEW j \in Int,
           Len(h[n].next) \in Int, j > Len(h[n].next), Covered(h, q, n, j)
    PROVE  Covered(h, Tail(q), Head(q), 1)
<1> SUFFICES ASSUME NEW p \in DOMAIN h \ {Root}
             PROVE  \/ FailNode(h, p, h[p].fail) \/ Waits(Tail(q), p)
                    \/ Pends(h, Head(q), 1, p)
    BY DEF Covered
<1>1. /\ Tail(q) \in Seq(DOMAIN h) /\ Len(Tail(q)) = Len(q) - 1 /\ Head(q) = q[1]
      /\ \A m \in 1..Len(Tail(q)) : Tail(q)[m] = q[m + 1]
      /\ Head(q) \in DOMAIN h
    BY HeadTailProperties
<1>2. Len(q) \in Nat /\ DOMAIN q = 1..Len(q) /\ DOMAIN Tail(q) = 1..(Len(q) - 1)
    BY <1>1, LenProperties
<1>3. ~Pends(h, n, j, p)
    BY DEF Pends
<1>4. ASSUME NEW m \in DOMAIN q, NEW k \in 1..(Len(p) - 1), At(p, k) = q[m]
      PROVE  Waits(Tail(q), p) \/ Pends(h, Head(q), 1, p)
  <2>1. CASE m # 1
    <3>1. m - 1 \in 1..(Len(q) - 1) /\ m - 1 + 1 = m
      BY <1>2, <2>1
    <3>2. Tail(q)[m - 1] = q[m]
      BY <1>1, <3>1
    <3> QED
      BY <1>2, <1>4, <3>1, <3>2 DEF Waits
  <2>2. CASE m = 1
    <3>1. p \in Seq(Letters) /\ Len(p) \in Nat
      BY LenProperties DEF Heap
    <3>2. k \in 0..(Len(p) - 1) /\ k \in 0..Len(p) /\ k < Len(p)
      BY <3>1
    <3>3. Len(Head(q)) = k /\ At(p, k) = Head(q)
      BY <1>1, <1>4, <2>2, <3>1, <3>2, AtType
    <3>4. /\ Append(Head(q), p[k + 1]) = At(p, k + 1)
          /\ p[k + 1] \in ToSet(h[Head(q)].next)
      BY <3>1, <3>2, <3>3, AppendAt DEF Tree, PrefixClosed
    <3>5. DOMAIN h[Head(q)].next = 1..Len(h[Head(q)].next)
      <4>1. h[Head(q)].next \in Seq(Letters)
        BY <1>1 DEF Heap, TrieNode
      <4> QED
        BY <4>1, LenProperties
    <3>6. PICK x \in 1..Len(h[Head(q)].next) : p[k + 1] = h[Head(q)].next[x]
      BY <3>4, <3>5 DEF ToSet
    <3>7. Pends(h, Head(q), 1, p)
      BY <3>2, <3>3, <3>4, <3>6 DEF Pends
    <3> QED
      BY <3>7
  <2> QED
    BY <2>1, <2>2
<1> QED
    BY <1>3, <1>4 DEF Covered, Waits

\* The j-th child of n, in the queue, gets its fail link.
LEMMA CoveredLink ==
    ASSUME NEW h, Heap(h), NEW q, NEW n \in Seq(Letters), NEW j \in Int,
           Len(h[n].next) \in Int, j <= Len(h[n].next), Covered(h, q, n, j),
           NEW c \in DOMAIN h, c = Append(n, h[n].next[j]), Len(c) = Len(n) + 1,
           InQueue(q, c),
           NEW f, FailNode(h, c, f), NEW g, SameLinks(h, g), n \in DOMAIN h,
           \A p \in DOMAIN h : g[p].fail = IF p = c THEN f ELSE h[p].fail
    PROVE  Covered(g, q, n, j + 1)
<1>1. DOMAIN g = DOMAIN h /\ g[n].next = h[n].next
    BY DEF SameLinks
<1> SUFFICES ASSUME NEW p \in DOMAIN h \ {Root}
             PROVE  FailNode(g, p, g[p].fail) \/ Waits(q, p) \/ Pends(g, n, j + 1, p)
    BY <1>1 DEF Covered
<1>2. \A x : FailNode(h, p, x) => FailNode(g, p, x)
    BY <1>1 DEF FailNode
<1>3. CASE p = c \/ FailNode(h, p, h[p].fail) \/ Waits(q, p)
    BY <1>2, <1>3
<1>4. ASSUME p # c, Pends(h, n, j, p) PROVE Waits(q, p) \/ Pends(g, n, j + 1, p)
  <2>1. PICK m \in j..Len(h[n].next) :
            Len(n) < Len(p) /\ At(p, Len(n) + 1) = Append(n, h[n].next[m])
    BY <1>4 DEF Pends
  <2>2. CASE m # j
    <3>1. m \in (j + 1)..Len(g[n].next)
      BY <1>1, <2>1, <2>2
    <3> QED
      BY <1>1, <2>1, <3>1 DEF Pends
  <2>3. CASE m = j
    <3>1. p \in Seq(Letters) /\ Len(p) \in Nat /\ Len(n) \in Nat
      BY LenProperties DEF Heap
    <3>2. Len(n) + 1 # Len(p)
      <4> SUFFICES ASSUME Len(n) + 1 = Len(p) PROVE FALSE
        OBVIOUS
      <4>1. 0 \in 0..Len(p)
        BY <3>1
      <4>2. At(p, Len(p)) = p
        BY <3>1, <4>1, AtAt
      <4> QED
        BY <1>4, <2>1, <2>3, <4>2
    <3>3. Len(n) + 1 \in 1..(Len(p) - 1)
      BY <2>1, <3>1, <3>2
    <3> QED
      BY <2>1, <2>3, <3>3 DEF Waits, InQueue
  <2> QED
    BY <2>2, <2>3
<1> QED
    BY <1>3, <1>4 DEF Covered

\* In the end every node has its fail link.
LEMMA CoveredLast ==
    ASSUME NEW h, NEW n, NEW j \in Int, Len(h[n].next) \in Int, j > Len(h[n].next),
           Covered(h, <<>>, n, j)
    PROVE  \A p \in DOMAIN h \ {Root} : FailNode(h, p, h[p].fail)
<1>1. DOMAIN <<>> = {}
    OBVIOUS
<1>2. \A p : ~Waits(<<>>, p)
    BY <1>1 DEF Waits
<1>3. \A p : ~Pends(h, n, j, p)
    BY DEF Pends
<1> QED
    BY <1>2, <1>3 DEF Covered

-----------------------------------------------------------------------------
(* The invariant of make_automaton, step by step. *)

\* The root has no fail link.
RootFail == HasRoot => nodes[Root].fail = NULL

\* How far make_automaton has come.
BuildOK ==
    /\ node \in DOMAIN nodes
    /\ LevelOrder(queue) /\ LevelOf(queue, node) /\ Covered(nodes, queue, node, i)
    /\ pc = "pop" => i > Len(nodes[node].next)
    /\ pc \in {"child", "walk"} => node # Root
    /\ pc = "walk" => /\ InQueue(queue, Child)
                      /\ WalkedTo(nodes, node, letter, state)

FailsInv ==
    /\ IInv /\ RootFail /\ pc # "crash"
    /\ pc = "idle" => i = 1
    /\ Building => BuildOK

FailsStep == RootFail' /\ pc' # "crash" /\ (pc' = "idle" => i' = 1) /\ (Building' => BuildOK')

\* Initially there is no node.
LEMMA FailsInit == Init => FailsInv
<1> SUFFICES ASSUME Init PROVE FailsInv
    OBVIOUS
<1>1. DOMAIN nodes = {}
    BY EmptyTree DEF Init
<1> QED
    BY <1>1, InitInvariant DEF Init, FailsInv, RootFail, HasRoot, Building

\* The nodes of a word added have no fail link.
LEMMA GrowRootFail ==
    ASSUME IInv, RootFail, NEW w \in Seq(Letters), NEW k \in 0..Len(w)
    PROVE  LET g == Grow(nodes, w, k)
           IN  /\ Heap(g)
               /\ Root \in DOMAIN g => g[Root].fail = NULL
<1> DEFINE g == Grow(nodes, w, k)
<1>1. Grown(nodes, w, k, g)
    BY GrowShape DEF IInv, ObjectOK, TreeOK
<1> HIDE DEF g
<1>2. Heap(g) /\ (Root \in DOMAIN g => g[Root].fail = NULL)
    BY <1>1 DEF Grown, RootFail, HasRoot
<1> QED
    BY <1>2 DEF g

\* A word added changes nothing else of this, for make_automaton is not running.
LEMMA AddWordFails ==
    ASSUME FailsInv, NEW w \in Words, NEW v, automaton_add_word(w, v)
    PROVE  FailsStep
<1> DEFINE g == Grow(nodes, w, Len(w))
<1>1. w \in Seq(Letters) /\ Len(w) \in 0..Len(w)
    BY ValueType DEF FailsInv, IInv
<1>2. Heap(g) /\ (Root \in DOMAIN g => g[Root].fail = NULL)
    BY <1>1, GrowRootFail DEF FailsInv
<1>3. nodes' = [g EXCEPT ![w].eow = TRUE, ![w].output = v]
    BY DEF automaton_add_word
<1> HIDE DEF g
<1>4. RootFail'
    BY <1>2, <1>3 DEF RootFail, HasRoot, Heap, TrieNode
<1> QED
    BY <1>4 DEF automaton_add_word, locals, FailsStep, FailsInv, Building

\* Nor does a word added in part.
LEMMA AddWordNoMemoryFails ==
    ASSUME FailsInv, NEW w \in Words, NEW depth \in 0..Len(w),
           automaton_add_word_no_memory(w, depth)
    PROVE  FailsStep
<1>1. w \in Seq(Letters) /\ Len(w) \in Nat
    BY ValueType DEF FailsInv, IInv
<1>2. CASE depth = 0
    BY <1>2 DEF automaton_add_word_no_memory, RootFail, HasRoot, locals, FailsStep, FailsInv,
                Building
<1>3. CASE depth # 0
  <2>1. depth - 1 \in 0..Len(w)
    BY <1>1, <1>3
  <2>2. nodes' = Grow(nodes, w, depth - 1)
    BY <1>3 DEF automaton_add_word_no_memory
  <2>3. RootFail'
    BY <1>1, <2>1, <2>2, GrowRootFail DEF RootFail, HasRoot, FailsInv
  <2> QED
    BY <2>3 DEF automaton_add_word_no_memory, locals, FailsStep, FailsInv, Building
<1> QED
    BY <1>2, <1>3

\* A word removed: a null link stays null.
LEMMA RemoveFails ==
    ASSUME FailsInv, NEW w \in Words, NEW success, NEW absent,
           automaton_remove_word_aux(w, success, absent)
    PROVE  FailsStep
<1>1. w \in Keys(nodes) /\ w \in DOMAIN nodes /\ w # <<>> /\ w \in Seq(Letters) /\ Len(w) \in Nat
    BY PresentKey, LenProperties DEF automaton_remove_word_aux, FailsInv, Keys, IInv, ObjectOK, Heap
<1>2. Heap(nodes) /\ Tree(nodes)
    BY DEF FailsInv, IInv, ObjectOK, TreeOK
<1>3. nodes' = Unlink(nodes, w)
    BY DEF automaton_remove_word_aux
<1>4. CASE trienode_is_leaf(nodes, w)
  <2> DEFINE freed == FreedTail(nodes, w)
             cut == last_multiway_index(nodes, w)
  <2>1. Cut(nodes, w, nodes')
    BY <1>1, <1>2, <1>3, <1>4, UnlinkShape
  <2>2. NULL \notin freed
    <3>1. cut \in 0..(Len(w) - 1)
      BY <1>1, <1>2, <1>4, TailShape
    <3> HIDE DEF cut
    <3>2. freed = {At(w, k) : k \in (cut + 1)..Len(w)}
      BY DEF FreedTail, cut
    <3>3. \A k \in (cut + 1)..Len(w) : k \in 0..Len(w)
      BY <1>1, <3>1
    <3>4. \A k \in (cut + 1)..Len(w) : At(w, k) \in Seq(Letters)
      BY <1>1, <3>3, AtType
    <3> QED
      BY <3>2, <3>4, PointerAssumption
  <2>3. /\ DOMAIN nodes' \subseteq DOMAIN nodes
        /\ \A p \in DOMAIN nodes' : nodes'[p].fail = Dangle(nodes[p].fail, freed)
    BY <2>1 DEF Cut
  <2> HIDE DEF freed
  <2> QED
    BY <2>2, <2>3 DEF FailsInv, RootFail, HasRoot, Dangle, automaton_remove_word_aux, locals,
                      FailsStep, Building
<1>5. CASE ~trienode_is_leaf(nodes, w)
  <2>1. nodes' = [nodes EXCEPT ![w].eow = FALSE]
    BY <1>3, <1>5 DEF Unlink
  <2>2. RootFail'
    BY <1>2, <2>1 DEF FailsInv, RootFail, HasRoot, Heap, TrieNode
  <2> QED
    BY <2>2 DEF FailsInv, automaton_remove_word_aux, locals, FailsStep, Building
<1> QED
    BY <1>4, <1>5

\* make_automaton starts.
LEMMA StartFails == ASSUME FailsInv, automaton_make_automaton PROVE FailsStep
<1> USE DEF object, locals
<1>1. pc = "idle" /\ i = 1 /\ queue = <<>> /\ node = Root /\ UNCHANGED <<nodes, queue, node, i>>
    BY DEF automaton_make_automaton, FailsInv, IInv, FrameOK
<1>2. CASE pc' # "level1"
    BY <1>1, <1>2 DEF automaton_make_automaton, FailsInv, FailsStep, RootFail, HasRoot, Building
<1>3. CASE pc' = "level1"
  <2>1. Root \in DOMAIN nodes /\ Heap(nodes) /\ Tree(nodes)
    BY <1>1, <1>3 DEF automaton_make_automaton, FailsInv, IInv, RootOK, HasRoot, ObjectOK, TreeOK
  <2>2. Covered(nodes, <<>>, Root, 1)
    BY <2>1, CoveredFirst
  <2>3. LevelOrder(<<>>) /\ LevelOf(<<>>, Root)
    <3>1. DOMAIN <<>> = {}
      OBVIOUS
    <3> QED
      BY <3>1 DEF LevelOrder, LevelOf
  <2>4. BuildOK'
    BY <1>1, <1>3, <2>1, <2>2, <2>3 DEF BuildOK
  <2> QED
    BY <1>1, <1>3, <2>4 DEF FailsInv, FailsStep, RootFail, HasRoot
<1> QED
    BY <1>2, <1>3

\* The child that make_automaton is at.
LEMMA ChildBelow ==
    ASSUME IInv, node \in DOMAIN nodes, i <= Len(nodes[node].next)
    PROVE  /\ Child \in DOMAIN nodes /\ Child \in Seq(Letters) /\ Child # Root
           /\ Len(Child) = Len(node) + 1
           /\ letter \in Letters /\ Child = Append(node, letter) /\ letter = nodes[node].next[i]
           /\ Len(nodes[node].next) \in Int
<1>1. Child \in DOMAIN nodes /\ letter \in Letters
    BY ChildType
<1>2. node \in Seq(Letters) /\ nodes[node].next \in Seq(Letters)
    BY DEF IInv, ObjectOK, Heap, TrieNode
<1>3. Child = Append(node, letter)
    BY DEF Child, letter
<1>4. Child \in Seq(Letters) /\ Child # <<>> /\ Len(Child) = Len(node) + 1
    BY <1>1, <1>2, <1>3, AppendAbove
<1>5. Len(nodes[node].next) \in Int
    BY <1>2, LenProperties
<1> QED
    BY <1>1, <1>3, <1>4, <1>5 DEF letter, Root

\* While it runs.
LEMMA BuildingFrame ==
    ASSUME FailsInv, Building
    PROVE  /\ Heap(nodes) /\ Tree(nodes) /\ Root \in DOMAIN nodes
           /\ queue \in Seq(DOMAIN nodes) /\ queue \in Seq(Seq(Letters))
           /\ node \in DOMAIN nodes /\ node \in Seq(Letters) /\ i \in Nat \ {0}
           /\ Len(nodes[node].next) \in Int
           /\ BuildOK /\ IInv
<1>1. nodes[node].next \in Seq(Letters)
    BY DEF FailsInv, BuildOK, IInv, ObjectOK, Heap, TrieNode
<1>2. Len(nodes[node].next) \in Int
    BY <1>1, LenProperties
<1> QED
    BY <1>2 DEF FailsInv, BuildOK, IInv, ObjectOK, TreeOK, FrameOK, RootOK, HasRoot

\* A fail link set.
LEMMA SetOne ==
    ASSUME Heap(nodes), NEW c \in DOMAIN nodes, NEW f \in Pointer,
           nodes' = [nodes EXCEPT ![c].fail = f]
    PROVE  /\ SameLinks(nodes, nodes')
           /\ \A p \in DOMAIN nodes : nodes'[p].fail = IF p = c THEN f ELSE nodes[p].fail
BY DEF SameLinks, Heap, TrieNode

\* make_automaton gives up.
LEMMA NoMemoryFails ==
    ASSUME FailsInv, NoMemory, RootFail'
    PROVE  FailsStep
BY DEF NoMemory, Return, FailsStep, Building

\* A link that make_automaton sets is the one the child must have.
LinkSet(f) ==
    /\ Child \in DOMAIN nodes \ {Root} /\ FailNode(nodes, Child, f)
    /\ SameLinks(nodes, nodes')
    /\ \A p \in DOMAIN nodes : nodes'[p].fail = IF p = Child THEN f ELSE nodes[p].fail

\* So it is for the children of the root.
LEMMA FirstLevelLink == ASSUME FailsInv, SetupFirstLevel PROVE LinkSet(Root)
<1>1. pc = "level1" /\ i <= Len(nodes[Root].next) /\ nodes' = [nodes EXCEPT ![Child].fail = Root]
    BY DEF SetupFirstLevel
<1>2. Building
    BY <1>1 DEF Building
<1>3. Heap(nodes) /\ Root \in DOMAIN nodes /\ BuildOK /\ IInv
    BY <1>2, BuildingFrame
<1>4. node = Root
    BY <1>1, <1>3 DEF IInv, FrameOK
<1>5. /\ Child \in DOMAIN nodes /\ Child \in Seq(Letters) /\ Child # Root
      /\ Len(Child) = Len(node) + 1
    BY <1>1, <1>3, <1>4, ChildBelow
<1>6. /\ SameLinks(nodes, nodes')
      /\ \A p \in DOMAIN nodes : nodes'[p].fail = IF p = Child THEN Root ELSE nodes[p].fail
  <2>1. Root \in Pointer
    BY EmptySeq DEF Root, Pointer
  <2> QED
    BY <1>1, <1>3, <1>5, <2>1, SetOne
<1>7. FailNode(nodes, Child, Root)
  <2>1. Len(node) = 0 /\ Len(Child) = 1
    BY <1>4, <1>5, EmptySeq DEF Root
  <2>2. 0 \in 0..(Len(Child) - 1) /\ (0 + 1)..(Len(Child) - 1) = {} /\ 0 \in 0..Len(Child)
    BY <2>1
  <2>3. Suffix(Child, 0) = Root
    BY <1>5, <2>2, SuffixSuffix DEF Root
  <2> QED
    BY <1>3, <2>2, <2>3 DEF FailNode
<1> QED
    BY <1>5, <1>6, <1>7 DEF LinkSet

\* The children of the root enter the queue.
LEMMA FirstLevelFails == ASSUME FailsInv, SetupFirstLevel PROVE FailsStep
<1>1. pc = "level1" /\ i <= Len(nodes[Root].next)
    BY DEF SetupFirstLevel
<1>2. Building
    BY <1>1 DEF Building
<1>3. /\ Heap(nodes) /\ Tree(nodes) /\ Root \in DOMAIN nodes /\ queue \in Seq(Seq(Letters))
      /\ node \in DOMAIN nodes /\ node \in Seq(Letters) /\ i \in Nat \ {0}
      /\ Len(nodes[node].next) \in Int /\ BuildOK /\ IInv
    BY <1>2, BuildingFrame
<1>4. node = Root
    BY <1>1, <1>3 DEF IInv, FrameOK
<1>5. /\ Child \in DOMAIN nodes /\ Child \in Seq(Letters) /\ Child # Root
      /\ Len(Child) = Len(node) + 1
      /\ letter \in Letters /\ Child = Append(node, letter) /\ letter = nodes[node].next[i]
    BY <1>1, <1>3, <1>4, ChildBelow
<1>6. /\ SameLinks(nodes, nodes') /\ FailNode(nodes, Child, Root)
      /\ \A p \in DOMAIN nodes : nodes'[p].fail = IF p = Child THEN Root ELSE nodes[p].fail
    BY FirstLevelLink DEF LinkSet
<1>7. RootFail'
    BY <1>3, <1>5, <1>6 DEF FailsInv, RootFail, HasRoot, SameLinks
<1>8. CASE NoMemory
    BY <1>7, <1>8, NoMemoryFails
<1>9. CASE queue' = Append(queue, Child) /\ i' = i + 1 /\ UNCHANGED <<pc, node, state, ret>>
  <2>1. LevelOrder(queue') /\ LevelOf(queue', node)
    BY <1>3, <1>5, <1>9, QueueAppend DEF BuildOK
  <2>2. Covered(nodes, queue', node, i) /\ InQueue(queue', Child)
    <3>1. Covered(nodes, queue, node, i)
      BY <1>3 DEF BuildOK
    <3>2. Covered(nodes, Append(queue, Child), node, i) /\ InQueue(Append(queue, Child), Child)
      <4>1. queue \in Seq(Seq(Letters)) /\ Child \in Seq(Letters)
        BY <1>3, <1>5
      <4> QED
        BY ONLY <3>1, <4>1, CoveredAppend
    <3> QED
      BY <1>9, <3>2
  <2>3. i \in Int /\ i <= Len(nodes[node].next)
    BY <1>1, <1>3, <1>4
  <2>4. Covered(nodes', queue', node, i + 1)
    BY <1>3, <1>5, <1>6, <2>2, <2>3, CoveredLink
  <2>5. BuildOK'
    BY <1>1, <1>3, <1>6, <1>9, <2>1, <2>4 DEF BuildOK, SameLinks
  <2> QED
    BY <1>1, <1>7, <1>9, <2>5 DEF FailsStep
<1> QED
    BY <1>8, <1>9 DEF SetupFirstLevel

\* The steps that leave the trie, the queue and the node as they are.
LEMMA DoneFails == ASSUME FailsInv, FirstLevelDone \/ ChildrenDone PROVE FailsStep
<1>1. /\ pc \in {"level1", "child"} /\ pc' = "pop" /\ UNCHANGED <<nodes, queue, node, i>>
      /\ pc = "level1" => i > Len(nodes[Root].next)
      /\ pc = "child" => i > Len(nodes[node].next)
    BY DEF FirstLevelDone, ChildrenDone, object, locals
<1>2. BuildOK /\ (pc = "level1" => node = Root)
    BY <1>1 DEF FailsInv, Building, IInv, FrameOK
<1>3. BuildOK'
    BY <1>1, <1>2 DEF BuildOK
<1> QED
    BY <1>1, <1>3 DEF FailsInv, FailsStep, RootFail, HasRoot

\* The next node of the queue.
LEMMA PopFails == ASSUME FailsInv, PopNode PROVE FailsStep
<1>1. /\ pc = "pop" /\ queue # <<>> /\ node' = Head(queue) /\ queue' = Tail(queue)
      /\ i' = 1 /\ pc' = "child" /\ nodes' = nodes
    BY DEF PopNode, object
<1>2. Building
    BY <1>1 DEF Building
<1>3. /\ Heap(nodes) /\ Tree(nodes) /\ queue \in Seq(Seq(Letters)) /\ queue \in Seq(DOMAIN nodes)
      /\ i \in Nat \ {0} /\ Len(nodes[node].next) \in Int /\ BuildOK
    BY <1>2, BuildingFrame
<1>4. Head(queue) # Root /\ LevelOrder(Tail(queue)) /\ LevelOf(Tail(queue), Head(queue))
    BY <1>1, <1>3, QueuePop DEF BuildOK
<1>5. Head(queue) \in DOMAIN nodes
    BY <1>1, <1>3, HeadTailProperties
<1>6. i \in Int /\ i > Len(nodes[node].next) /\ Covered(nodes, queue, node, i)
    BY <1>1, <1>3 DEF BuildOK
<1>7. Covered(nodes, Tail(queue), Head(queue), 1)
    BY <1>1, <1>3, <1>6, CoveredPop
<1>8. BuildOK'
    BY <1>1, <1>4, <1>5, <1>7 DEF BuildOK
<1> QED
    BY <1>1, <1>8 DEF FailsInv, FailsStep, RootFail, HasRoot

\* A node no deeper than the current one, and not the root, has its fail link, to a node.
LEMMA LinkMade ==
    ASSUME FailsInv, Building, NEW p \in DOMAIN nodes \ {Root}, Len(p) <= Len(node)
    PROVE  FailNode(nodes, p, nodes[p].fail) /\ nodes[p].fail \in DOMAIN nodes
<1>1. /\ Heap(nodes) /\ queue \in Seq(Seq(Letters)) /\ node \in Seq(Letters)
      /\ LevelOf(queue, node) /\ Covered(nodes, queue, node, i)
    BY BuildingFrame DEF BuildOK
<1>2. FailNode(nodes, p, nodes[p].fail)
    BY <1>1, CoveredAbove
<1> QED
    BY <1>2 DEF FailNode

\* A child enters the queue, and the walk starts.
LEMMA EnqueueFails == ASSUME FailsInv, EnqueueChild PROVE FailsStep
<1>1. pc = "child" /\ i <= Len(nodes[node].next) /\ nodes' = nodes
    BY DEF EnqueueChild, object
<1>2. Building
    BY <1>1 DEF Building
<1>3. /\ Heap(nodes) /\ Tree(nodes) /\ queue \in Seq(Seq(Letters))
      /\ node \in DOMAIN nodes /\ node \in Seq(Letters) /\ BuildOK /\ IInv
    BY <1>2, BuildingFrame
<1>4. /\ Child \in DOMAIN nodes /\ Child \in Seq(Letters)
      /\ Len(Child) = Len(node) + 1 /\ letter \in Letters
    BY <1>1, <1>3, ChildBelow
<1>5. RootFail'
    BY <1>1 DEF FailsInv, RootFail, HasRoot
<1>6. CASE NoMemory
    BY <1>5, <1>6, NoMemoryFails
<1>7. CASE queue' = Append(queue, Child) /\ Follow(node) /\ UNCHANGED <<node, i, ret>>
  <2>1. node # Root /\ Len(node) <= Len(node)
    BY <1>1, <1>3, LenProperties DEF BuildOK
  <2>2. FailNode(nodes, node, nodes[node].fail) /\ nodes[node].fail \in DOMAIN nodes
    BY <1>2, <1>3, <2>1, LinkMade
  <2>3. WalkedTo(nodes, node, letter, nodes[node].fail)
    BY <1>3, <1>4, <2>2, WalkStarts
  <2>4. state' = nodes[node].fail /\ pc' = "walk"
    BY <1>7, <2>2 DEF Follow
  <2>5. LevelOrder(queue') /\ LevelOf(queue', node)
    BY <1>3, <1>4, <1>7, QueueAppend DEF BuildOK
  <2>6. Covered(nodes, queue', node, i) /\ InQueue(queue', Child)
    <3>1. Covered(nodes, queue, node, i)
      BY <1>3 DEF BuildOK
    <3>2. Covered(nodes, Append(queue, Child), node, i) /\ InQueue(Append(queue, Child), Child)
      <4>1. queue \in Seq(Seq(Letters)) /\ Child \in Seq(Letters)
        BY <1>3, <1>4
      <4> QED
        BY ONLY <3>1, <4>1, CoveredAppend
    <3> QED
      BY <1>7, <3>2
  <2>7. Child' = Child /\ letter' = letter
    BY <1>1, <1>7 DEF Child, letter
  <2>8. BuildOK'
    BY <1>1, <1>3, <1>7, <2>1, <2>3, <2>4, <2>5, <2>6, <2>7 DEF BuildOK
  <2> QED
    BY <1>5, <2>4, <2>8 DEF FailsStep
<1> QED
    BY <1>6, <1>7 DEF EnqueueChild

\* What the walk knows of the trie at node s.
LEMMA GetNext ==
    ASSUME Heap(nodes), NEW s \in DOMAIN nodes, NEW l \in Letters
    PROVE  /\ l \in ToSet(nodes[s].next) => trienode_get_next(nodes, s, l) = Append(s, l)
           /\ l \notin ToSet(nodes[s].next) => trienode_get_next(nodes, s, l) = NULL
           /\ Append(s, l) # NULL
<1>1. s \in Seq(Letters)
    BY DEF Heap
<1>2. Append(s, l) \in Seq(Letters)
    BY <1>1, AppendProperties
<1> QED
    BY <1>2, PointerAssumption DEF trienode_get_next

\* While the walk goes on.
LEMMA WalkFrame ==
    ASSUME FailsInv, pc = "walk"
    PROVE  /\ Building /\ state \in DOMAIN nodes /\ i <= Len(nodes[node].next)
           /\ WalkedTo(nodes, node, letter, state) /\ Len(state) < Len(node)
<1>1. Building
    BY DEF Building
<1>2. node \in Seq(Letters) /\ BuildOK /\ IInv
    BY <1>1, BuildingFrame
<1>3. WalkedTo(nodes, node, letter, state)
    BY <1>2 DEF BuildOK
<1>4. Len(state) < Len(node)
  <2>1. PICK k \in 0..(Len(node) - 1) : state = Suffix(node, k)
    BY <1>3 DEF WalkedTo
  <2>2. Len(node) \in Nat
    BY <1>2, LenProperties
  <2>3. k \in 0..Len(node)
    BY <2>2
  <2>4. Len(state) = k
    BY <1>2, <2>1, <2>3, SuffixType
  <2> QED
    BY <2>2, <2>4
<1> QED
    BY <1>1, <1>2, <1>3, <1>4 DEF IInv, FrameOK

\* The walk goes on.
LEMMA FollowFails == ASSUME FailsInv, FollowFail PROVE FailsStep
<1>1. /\ pc = "walk" /\ state # Root /\ trienode_get_next(nodes, state, letter) = NULL
      /\ Follow(state) /\ UNCHANGED <<nodes, queue, node, i>>
    BY DEF FollowFail, object
<1>2. /\ Building /\ state \in DOMAIN nodes /\ i <= Len(nodes[node].next)
      /\ WalkedTo(nodes, node, letter, state) /\ Len(state) < Len(node)
    BY <1>1, WalkFrame
<1>3. /\ Heap(nodes) /\ Tree(nodes) /\ queue \in Seq(Seq(Letters))
      /\ node \in DOMAIN nodes /\ node \in Seq(Letters) /\ BuildOK /\ IInv
    BY <1>2, BuildingFrame
<1>4. letter \in Letters
    BY <1>2, <1>3, ChildBelow
<1>5. letter \notin ToSet(nodes[state].next)
    BY <1>1, <1>2, <1>3, <1>4, GetNext
<1>6. Len(state) <= Len(node)
  <2>1. state \in Seq(Letters)
    BY <1>2, <1>3 DEF Heap
  <2> QED
    BY <1>2, <1>3, <2>1, LenProperties
<1>7. FailNode(nodes, state, nodes[state].fail) /\ nodes[state].fail \in DOMAIN nodes
    BY <1>1, <1>2, <1>6, LinkMade
<1>8. WalkedTo(nodes, node, letter, nodes[state].fail)
    BY <1>2, <1>3, <1>4, <1>5, <1>7, WalkGoesOn
<1>9. state' = nodes[state].fail /\ pc' = "walk"
    BY <1>1, <1>7 DEF Follow
<1>10. Child' = Child /\ letter' = letter
    BY <1>1 DEF Child, letter
<1>11. BuildOK'
    BY <1>1, <1>3, <1>8, <1>9, <1>10 DEF BuildOK
<1> QED
    BY <1>1, <1>9, <1>11 DEF FailsInv, FailsStep, RootFail, HasRoot

\* And where the walk ends.
LEMMA SetFailLink == ASSUME FailsInv, SetFail PROVE LinkSet(FailTarget(state, letter))
<1>1. /\ pc = "walk" /\ (state = Root \/ trienode_get_next(nodes, state, letter) # NULL)
      /\ nodes' = [nodes EXCEPT ![Child].fail = FailTarget(state, letter)]
      /\ i' = i + 1 /\ pc' = "child" /\ UNCHANGED <<queue, node>>
    BY DEF SetFail
<1>2. /\ Building /\ state \in DOMAIN nodes /\ i <= Len(nodes[node].next)
      /\ WalkedTo(nodes, node, letter, state)
    BY <1>1, WalkFrame
<1>3. /\ Heap(nodes) /\ Tree(nodes) /\ Root \in DOMAIN nodes /\ queue \in Seq(Seq(Letters))
      /\ node \in DOMAIN nodes /\ node \in Seq(Letters) /\ i \in Int
      /\ Len(nodes[node].next) \in Int /\ BuildOK /\ IInv
    BY <1>2, BuildingFrame
<1>4. /\ Child \in DOMAIN nodes /\ Child \in Seq(Letters) /\ Child # Root
      /\ Len(Child) = Len(node) + 1
      /\ letter \in Letters /\ Child = Append(node, letter) /\ letter = nodes[node].next[i]
    BY <1>2, <1>3, ChildBelow
<1> DEFINE f == FailTarget(state, letter)
<1>5. FailNode(nodes, Child, f) /\ f \in Pointer
  <2>1. /\ letter \in ToSet(nodes[state].next) =>
                FailNode(nodes, Child, Append(state, letter))
        /\ state = Root /\ letter \notin ToSet(nodes[state].next) => FailNode(nodes, Child, Root)
    BY <1>2, <1>3, <1>4, WalkEnds
  <2>2. f = IF letter \in ToSet(nodes[state].next) THEN Append(state, letter) ELSE Root
    BY <1>2, <1>3, <1>4, GetNext, ZenonT(40) DEF FailTarget
  <2>3. letter \notin ToSet(nodes[state].next) => state = Root
    BY <1>1, <1>2, <1>3, <1>4, GetNext
  <2>4. FailNode(nodes, Child, f)
    BY <2>1, <2>2, <2>3
  <2>5. f \in Pointer
    BY <1>2, <1>3, ChildType
  <2> QED
    BY <2>4, <2>5
<1> HIDE DEF f
<1>6. /\ SameLinks(nodes, nodes')
      /\ \A p \in DOMAIN nodes : nodes'[p].fail = IF p = Child THEN f ELSE nodes[p].fail
  <2>1. nodes' = [nodes EXCEPT ![Child].fail = f]
    BY <1>1 DEF f
  <2> QED
    BY <1>3, <1>4, <1>5, <2>1, SetOne
<1> QED
    BY <1>4, <1>5, <1>6 DEF f, LinkSet

\* The walk ends, and the child has its fail link.
LEMMA SetFails == ASSUME FailsInv, SetFail PROVE FailsStep
<1>1. /\ pc = "walk" /\ (state = Root \/ trienode_get_next(nodes, state, letter) # NULL)
      /\ nodes' = [nodes EXCEPT ![Child].fail = FailTarget(state, letter)]
      /\ i' = i + 1 /\ pc' = "child" /\ UNCHANGED <<queue, node>>
    BY DEF SetFail
<1>2. /\ Building /\ state \in DOMAIN nodes /\ i <= Len(nodes[node].next)
      /\ WalkedTo(nodes, node, letter, state)
    BY <1>1, WalkFrame
<1>3. /\ Heap(nodes) /\ Tree(nodes) /\ Root \in DOMAIN nodes /\ queue \in Seq(Seq(Letters))
      /\ node \in DOMAIN nodes /\ node \in Seq(Letters) /\ i \in Int
      /\ Len(nodes[node].next) \in Int /\ BuildOK /\ IInv
    BY <1>2, BuildingFrame
<1>4. /\ Child \in DOMAIN nodes /\ Child \in Seq(Letters) /\ Child # Root
      /\ Len(Child) = Len(node) + 1
      /\ letter \in Letters /\ Child = Append(node, letter) /\ letter = nodes[node].next[i]
    BY <1>2, <1>3, ChildBelow
<1> DEFINE f == FailTarget(state, letter)
<1>5. /\ SameLinks(nodes, nodes') /\ FailNode(nodes, Child, f)
      /\ \A p \in DOMAIN nodes : nodes'[p].fail = IF p = Child THEN f ELSE nodes[p].fail
    BY SetFailLink DEF LinkSet
<1> HIDE DEF f
<1>6. RootFail'
    BY <1>3, <1>4, <1>5 DEF FailsInv, RootFail, HasRoot, SameLinks
<1>7. InQueue(queue, Child)
    BY <1>1, <1>3 DEF BuildOK
<1>8. Covered(nodes, queue, node, i) /\ node # Root
    BY <1>1, <1>3 DEF BuildOK
<1>9. Covered(nodes', queue, node, i + 1)
    BY <1>2, <1>3, <1>4, <1>5, <1>7, <1>8, CoveredLink
<1>10. BuildOK'
    BY <1>1, <1>3, <1>5, <1>8, <1>9 DEF BuildOK, SameLinks
<1> QED
    BY <1>1, <1>6, <1>10 DEF FailsStep

\* Every step keeps the invariant.
LEMMA FailsNext == FailsInv /\ [Next]_vars => FailsInv'
<1> SUFFICES ASSUME FailsInv, [Next]_vars PROVE FailsInv'
    OBVIOUS
<1>1. IInv'
    BY NextInvariant DEF FailsInv
<1>2. ASSUME UNCHANGED <<nodes, queue, node, i, state>>,
             pc' = pc \/ (pc = "idle" /\ pc' = "exit")
      PROVE  FailsStep
  <2>1. RootFail' /\ pc' # "crash" /\ (pc' = "idle" => i' = 1)
    BY <1>2 DEF FailsInv, RootFail, HasRoot
  <2>2. Building' => pc' = pc /\ BuildOK
    BY <1>2 DEF FailsInv, Building
  <2>3. Child' = Child /\ letter' = letter
    BY <1>2 DEF Child, letter
  <2>4. Building' => BuildOK'
    BY <1>2, <2>2, <2>3 DEF BuildOK
  <2> QED
    BY <2>1, <2>4 DEF FailsStep
<1>3. ASSUME NEW w \in Words, NEW v, automaton_add_word(w, v) PROVE FailsStep
    BY <1>3, AddWordFails
<1>4. ASSUME NEW w \in Words, NEW depth \in 0..Len(w), automaton_add_word_no_memory(w, depth)
      PROVE  FailsStep
    BY <1>4, AddWordNoMemoryFails
<1>5. ASSUME NEW w \in Words, automaton_remove_word(w) \/ automaton_pop(w) PROVE FailsStep
    BY <1>5, RemoveFails DEF automaton_remove_word, automaton_pop
<1>6. ASSUME automaton_clear PROVE FailsStep
    BY <1>6, EmptyTree DEF automaton_clear, FailsInv, FailsStep, RootFail, HasRoot, Building, locals
<1>7. ASSUME automaton_make_automaton PROVE FailsStep
    BY <1>7, StartFails
<1>8. ASSUME BuildDone PROVE FailsStep
    BY <1>8 DEF BuildDone, Return, FailsInv, FailsStep, RootFail, HasRoot, Building
<1>9. ASSUME MakeStep PROVE FailsStep
    BY <1>8, <1>9, FirstLevelFails, DoneFails, PopFails, EnqueueFails, FollowFails, SetFails
       DEF MakeStep
<1>10. ASSUME NEW w, \/ automaton_pop_crashes(w) \/ automaton_remove_no_memory(w)
                     \/ automaton_remove_absent(w) \/ automaton_add_empty_word
                     \/ automaton_add_word_aborts \/ automaton_get_stats
       PROVE  FailsStep
    BY <1>2, <1>10 DEF automaton_pop_crashes, automaton_remove_no_memory, automaton_remove_absent,
                automaton_add_empty_word, automaton_add_word_aborts, automaton_get_stats,
                object, locals
<1>11. ASSUME UNCHANGED vars PROVE FailsStep
    BY <1>2, <1>11 DEF vars, object, locals
<1>12. FailsStep
    BY <1>3, <1>4, <1>5, <1>6, <1>7, <1>9, <1>10, <1>11 DEF Next
<1> QED
    BY <1>1, <1>12 DEF FailsInv, FailsStep

-----------------------------------------------------------------------------
(* What it comes to. *)

(***************************************************************************)
(* make_automaton follows only links made in the same run, whatever was    *)
(* added, removed or built before and whatever allocation failed: it never *)
(* reaches NULL (ASSERT(state), Automaton.c:622, 628) or a freed node, and *)
(* is always above the node whose child it links.                          *)
(***************************************************************************)
THEOREM WalkCorrect == Spec => []WalkOK
<1>1. FailsInv => WalkOK
    BY WalkFrame DEF WalkOK, FailsInv
<1> QED
    BY <1>1, FailsInit, FailsNext, PTL DEF Spec

\* What an automaton of kind AHOCORASICK is stays so until it is changed.
LEMMA LinksNext == ASSUME ~MemoryFails, FailsInv, FailsOK, [Next]_vars PROVE FailsOK'
<1>1. ASSUME UNCHANGED <<nodes, kind>> PROVE FailsOK'
    BY <1>1 DEF FailsOK
<1>2. ASSUME kind' # "AHOCORASICK" PROVE FailsOK'
    BY <1>2 DEF FailsOK
<1>3. ASSUME Building, kind' = kind PROVE FailsOK'
    BY <1>2, <1>3 DEF FailsInv, IInv, FrameOK
<1>4. ASSUME BuildDone PROVE FailsOK'
  <2>1. pc = "pop" /\ queue = <<>> /\ nodes' = nodes /\ Building
    BY <1>4 DEF BuildDone, Building
  <2>2. /\ Heap(nodes) /\ Root \in DOMAIN nodes /\ i \in Nat \ {0}
        /\ Len(nodes[node].next) \in Int /\ BuildOK
    BY <2>1, BuildingFrame
  <2>3. i \in Int /\ i > Len(nodes[node].next) /\ Covered(nodes, <<>>, node, i)
    BY <2>1, <2>2 DEF BuildOK
  <2>4. \A p \in DOMAIN nodes \ {Root} : FailNode(nodes, p, nodes[p].fail)
    BY <2>2, <2>3, CoveredLast
  <2>5. \A p \in DOMAIN nodes \ {Root} : nodes[p].fail = LongestSuffix(nodes, p)
    BY <2>2, <2>4, FailNodeLongest DEF Heap
  <2>6. nodes[Root].fail = NULL
    BY <2>2 DEF FailsInv, RootFail, HasRoot
  <2> QED
    BY <2>1, <2>5, <2>6 DEF FailsOK
<1>5. ASSUME MakeStep PROVE FailsOK'
    BY <1>3, <1>4, <1>5 DEF MakeStep, SetupFirstLevel, FirstLevelDone, PopNode, EnqueueChild,
                            ChildrenDone, FollowFail, SetFail, Building, object
<1>6. ASSUME NEW w \in Words, NEW v, automaton_add_word(w, v) PROVE FailsOK'
    BY <1>2, <1>6 DEF automaton_add_word
<1>7. ASSUME NEW w, NEW depth, automaton_add_word_no_memory(w, depth) PROVE FailsOK'
    BY <1>7 DEF automaton_add_word_no_memory
<1>8. ASSUME NEW w, automaton_remove_word(w) \/ automaton_pop(w) PROVE FailsOK'
    BY <1>2, <1>8 DEF automaton_remove_word, automaton_pop, automaton_remove_word_aux
<1>9. ASSUME automaton_clear PROVE FailsOK'
    BY <1>2, <1>9 DEF automaton_clear
<1>10. ASSUME NEW w, \/ automaton_pop_crashes(w) \/ automaton_remove_no_memory(w)
                     \/ automaton_remove_absent(w) \/ automaton_add_empty_word
                     \/ automaton_add_word_aborts \/ automaton_get_stats
                     \/ automaton_make_automaton
       PROVE  FailsOK'
    BY <1>1, <1>10 DEF automaton_pop_crashes, automaton_remove_no_memory, automaton_remove_absent,
                automaton_add_empty_word, automaton_add_word_aborts, automaton_get_stats,
                automaton_make_automaton, object
<1>11. ASSUME UNCHANGED vars PROVE FailsOK'
    BY <1>1, <1>11 DEF vars, object
<1> QED
    BY <1>5, <1>6, <1>7, <1>8, <1>9, <1>10, <1>11 DEF Next

(***************************************************************************)
(* make_automaton gives every node the fail link of the textbook, its      *)
(* longest proper suffix in the trie, and the root none, also over a trie  *)
(* that carries the links of an earlier run (Automaton.c:561-650), as long *)
(* as no allocation fails: a failed add_word leaves nodes without a link   *)
(* in an automaton.                                                        *)
(***************************************************************************)
THEOREM FailsCorrect == ASSUME ~MemoryFails PROVE Spec => []FailsOK
<1>1. Init => FailsOK
    BY DEF Init, FailsOK
<1>2. FailsInv /\ FailsOK /\ [Next]_vars => FailsInv' /\ FailsOK'
    BY FailsNext, LinksNext
<1> QED
    BY <1>1, <1>2, FailsInit, PTL DEF Spec

(***************************************************************************)
(* So what make_automaton leaves, and every call keeps that leaves the     *)
(* kind AHOCORASICK, is an automaton as the search step needs it           *)
(* (NextStateCorrect and NextOutputCorrect of module TrieProofs).          *)
(***************************************************************************)
THEOREM AutomatonMade ==
    ASSUME ~MemoryFails PROVE Spec => [](kind = "AHOCORASICK" => IsAutomaton(nodes))
<1>1. FailsInv /\ FailsOK /\ EmptyOK => (kind = "AHOCORASICK" => IsAutomaton(nodes))
  <2> SUFFICES ASSUME FailsInv, FailsOK, EmptyOK, kind = "AHOCORASICK" PROVE IsAutomaton(nodes)
    OBVIOUS
  <2>1. Heap(nodes) /\ Tree(nodes)
    BY DEF FailsInv, IInv, ObjectOK, TreeOK
  <2>2. Root \in DOMAIN nodes
    BY DEF EmptyOK, HasRoot
  <2>3. FailLinks(nodes)
    BY DEF FailsOK, FailLinks
  <2> QED
    BY <2>1, <2>2, <2>3 DEF IsAutomaton
<1>2. Spec => []FailsInv
    BY FailsInit, FailsNext, PTL DEF Spec
<1> QED
    BY <1>1, <1>2, FailsCorrect, EmptyCorrect, PTL

-----------------------------------------------------------------------------
(***************************************************************************)
(* What the version is good for.  A call that does not change it leaves    *)
(* the nodes, their links and the words alone, and an automaton's fail     *)
(* links too, although the kind may drop to TRIE.                          *)
(***************************************************************************)
SameVersion ==
    /\ version' = version
    /\ SameLinks(nodes, nodes')
    /\ kind' = kind \/ (kind' = "TRIE" /\ kind # "EMPTY")
    /\ FailLinks(nodes) => FailLinks(nodes')

\* Growing the path of a word whose node exists does nothing.
LEMMA GrowPresent ==
    ASSUME NEW h, Heap(h), Tree(h), NEW w \in DOMAIN h
    PROVE  Grow(h, w, Len(w)) = h
<1>1. w \in Seq(Letters) /\ Len(w) \in Nat
    BY LenProperties DEF Heap
<1>2. \A k \in 0..Len(w) : At(w, k) \in DOMAIN h
  <2>1. At(w, Len(w)) = w
    BY <1>1, AtType
  <2>2. \A k \in 0..Len(w) : k = Len(w) \/ k \in 0..(Len(w) - 1)
    BY <1>1
  <2> QED
    BY <2>1, <2>2 DEF Tree, PrefixClosed
<1>3. Path(w, Len(w)) \subseteq DOMAIN h
    BY <1>2 DEF Path
<1>4. \A p \in DOMAIN h : ~NewLink(h, w, Len(w), p)
  <2> SUFFICES ASSUME NEW p \in DOMAIN h, NewLink(h, w, Len(w), p) PROVE FALSE
    OBVIOUS
  <2>1. Len(p) \in Nat
    BY LenProperties DEF Heap
  <2>2. Len(p) + 1 \in 0..Len(w)
    BY <1>1, <2>1 DEF NewLink
  <2> QED
    BY <1>2, <2>2 DEF NewLink
<1> DEFINE blank(p) == IF p \in DOMAIN h THEN h[p] ELSE trienode_new
<1>5. Grow(h, w, Len(w)) =
        [p \in DOMAIN h \cup Path(w, Len(w)) |->
            IF NewLink(h, w, Len(w), p) THEN [blank(p) EXCEPT !.next = Append(@, w[Len(p) + 1])]
                                       ELSE blank(p)]
    BY DEF Grow, Path, NewLink
<1>6. Grow(h, w, Len(w)) = [p \in DOMAIN h |-> h[p]]
    BY <1>3, <1>4, <1>5
<1> QED
    BY <1>6 DEF Heap

\* Two heaps with the same nodes and the same links have the same longest suffixes.
LEMMA SameFails ==
    ASSUME NEW h, NEW g, DOMAIN g = DOMAIN h, \A p \in DOMAIN h : g[p].fail = h[p].fail,
           FailLinks(h)
    PROVE  FailLinks(g)
<1>1. \A p : LongestSuffix(g, p) = LongestSuffix(h, p)
    BY DEF LongestSuffix
<1> QED
    BY <1>1 DEF FailLinks

\* A link that make_automaton sets in an automaton is the one that is there already.
LEMMA LinkSetFails ==
    ASSUME Heap(nodes), NEW f, LinkSet(f), FailLinks(nodes)
    PROVE  FailLinks(nodes')
<1>1. f = LongestSuffix(nodes, Child) /\ Child # Root /\ Child \in DOMAIN nodes
    BY FailNodeLongest DEF LinkSet, Heap
<1>2. \A p \in DOMAIN nodes : nodes'[p].fail = nodes[p].fail
    BY <1>1 DEF LinkSet, FailLinks
<1> QED
    BY <1>2, SameFails DEF LinkSet, SameLinks

\* add_word of a word that is there replaces its value.
LEMMA ReplaceVersion ==
    ASSUME IInv, EmptyOK, NEW w \in Words, NEW v \in ValuesFor(w), automaton_add_word(w, v)
    PROVE  version' = version + 1 \/ SameVersion
<1> DEFINE grown == Grow(nodes, w, Len(w))
<1>1. w \in Seq(Letters) /\ Len(w) \in 0..Len(w) /\ v \in Int /\ At(w, Len(w)) = w
    BY ValueType DEF IInv
<1>2. Heap(nodes) /\ Tree(nodes) /\ version \in Int
    BY ConstantAssumption DEF IInv, ObjectOK, TreeOK
<1>3. /\ nodes' = [grown EXCEPT ![w].eow = TRUE, ![w].output = v]
      /\ version' = version + Bool(~grown[w].eow) /\ kind' = "TRIE"
    BY DEF automaton_add_word, NewVersion
<1>4. Keys(grown) = Keys(nodes) /\ w \in DOMAIN grown
  <2>1. w \in DOMAIN grown
    BY <1>1, <1>2, GrowTree
  <2>2. Keys(grown) = Keys(nodes)
    BY <1>1, <1>2, GrowKeys
  <2> QED
    BY <2>1, <2>2
<1>5. CASE ~grown[w].eow
    BY <1>3, <1>5 DEF Bool
<1>6. CASE grown[w].eow
  <2>1. w \in DOMAIN nodes
    BY <1>4, <1>6 DEF Keys
  <2>2. grown = nodes
    BY <1>2, <2>1, GrowPresent
  <2> HIDE DEF grown
  <2>3. nodes' = [nodes EXCEPT ![w].eow = TRUE, ![w].output = v] /\ nodes[w].eow = TRUE
    <3>1. nodes[w].eow \in BOOLEAN
      BY <1>2, <2>1 DEF Heap, TrieNode
    <3> QED
      BY <1>3, <1>6, <2>2, <3>1
  <2>4. version' = version /\ kind' = "TRIE"
    BY <1>2, <1>3, <1>6 DEF Bool
  <2>5. /\ SameLinks(nodes, nodes')
        /\ \A p \in DOMAIN nodes : nodes'[p].fail = nodes[p].fail
    BY <1>1, <1>2, <2>1, <2>3 DEF SameLinks, Heap, TrieNode
  <2>6. kind # "EMPTY"
    <3>1. Root \in DOMAIN nodes
      BY <1>2, <2>1, RootOfTree
    <3> QED
      BY <3>1 DEF EmptyOK, HasRoot
  <2>7. FailLinks(nodes) => FailLinks(nodes')
    BY <2>5, SameFails DEF SameLinks
  <2> QED
    BY <2>4, <2>5, <2>6, <2>7 DEF SameVersion
<1> QED
    BY <1>5, <1>6

\* Every step either counts the version up or leaves the trie as it is.
LEMMA VersionStep ==
    ASSUME ~MemoryFails, CountInv, EmptyOK, FailsInv, [Next]_vars
    PROVE  version' = version + 1 \/ SameVersion
<1> DEFINE Goal == version' = version + 1 \/ SameVersion
<1>1. IInv /\ Heap(nodes)
    BY DEF CountInv, IInv, ObjectOK
<1>2. SameLinks(nodes, nodes)
    BY <1>1 DEF SameLinks, Heap
<1>3. ASSUME UNCHANGED <<nodes, kind, version>> PROVE Goal
    BY <1>2, <1>3 DEF SameVersion
<1>4. ASSUME NEW w \in Words, NEW v \in ValuesFor(w), automaton_add_word(w, v)
      PROVE  Goal
    BY <1>1, <1>4, ReplaceVersion
<1>5. ASSUME NEW w \in Words, NEW depth, automaton_add_word_no_memory(w, depth)
      PROVE  Goal
    BY <1>5 DEF automaton_add_word_no_memory
<1>6. ASSUME NEW w \in Words, NEW success, NEW absent,
             automaton_remove_word_aux(w, success, absent)
      PROVE  Goal
  <2>1. w \in Keys(nodes) /\ (nodes[w].output # 0 => version' = version + 1)
    BY <1>1, <1>6, RemoveKeys
  <2> QED
    BY <2>1 DEF CountInv, ValuesOK
<1>7. ASSUME automaton_clear PROVE Goal
    BY <1>7 DEF automaton_clear
<1>8. ASSUME MakeStep PROVE Goal
  <2>1. CASE SetupFirstLevel
    <3>1. LinkSet(Root)
      BY <2>1, FirstLevelLink
    <3>2. UNCHANGED <<kind, version>>
      BY <2>1 DEF SetupFirstLevel
    <3> QED
      BY <1>1, <3>1, <3>2, LinkSetFails DEF SameVersion, LinkSet
  <2>2. CASE SetFail
    <3>1. LinkSet(FailTarget(state, letter))
      BY <2>2, SetFailLink
    <3>2. UNCHANGED <<kind, version>>
      BY <2>2 DEF SetFail
    <3> QED
      BY <1>1, <3>1, <3>2, LinkSetFails DEF SameVersion, LinkSet
  <2>3. CASE BuildDone
    BY <2>3 DEF BuildDone
  <2> QED
    BY <1>3, <1>8, <2>1, <2>2, <2>3
       DEF MakeStep, FirstLevelDone, PopNode, EnqueueChild, ChildrenDone, FollowFail, object
<1>9. ASSUME NEW w, \/ automaton_pop_crashes(w) \/ automaton_remove_no_memory(w)
                    \/ automaton_remove_absent(w) \/ automaton_add_empty_word
                    \/ automaton_add_word_aborts \/ automaton_get_stats
                    \/ automaton_make_automaton
      PROVE  Goal
    BY <1>3, <1>9 DEF automaton_pop_crashes, automaton_remove_no_memory, automaton_remove_absent,
                automaton_add_empty_word, automaton_add_word_aborts, automaton_get_stats,
                automaton_make_automaton, object
<1>10. ASSUME UNCHANGED vars PROVE Goal
    BY <1>3, <1>10 DEF vars, object
<1> HIDE DEF Goal
<1>11. Goal
    BY <1>4, <1>5, <1>6, <1>7, <1>8, <1>9, <1>10
       DEF Next, automaton_remove_word, automaton_pop
<1> QED
    BY <1>11 DEF Goal

-----------------------------------------------------------------------------
(* The statistics. *)

\* get_stats counts only what a step that keeps the version keeps.
LEMMA SameLinksCount ==
    ASSUME SameLinks(nodes, nodes')
    PROVE  links_count' = links_count
<1> DEFINE S == DOMAIN nodes
           Sum(it) == [s \in SUBSET S |->
                        IF s = {} THEN 0
                        ELSE Len(nodes[CHOOSE x \in s : TRUE].next)
                                + it[s \ {CHOOSE x \in s : TRUE}]]
           SumPrimed(it) == [s \in SUBSET S |->
                        IF s = {} THEN 0
                        ELSE Len(nodes'[CHOOSE x \in s : TRUE].next)
                                + it[s \ {CHOOSE x \in s : TRUE}]]
<1>1. /\ DOMAIN nodes' = S
      /\ \A p \in S : nodes'[p].next = nodes[p].next
    BY DEF SameLinks
<1>2. links_count = (CHOOSE it : it = Sum(it))[S]
    BY DEF links_count, MapThenSumSet, MapThenFoldSet
<1>3. links_count' = (CHOOSE it : it = SumPrimed(it))[S]
    BY <1>1 DEF links_count, MapThenSumSet, MapThenFoldSet
<1>4. \A it : Sum(it) = SumPrimed(it)
    BY <1>1
<1>5. (CHOOSE it : it = Sum(it)) = (CHOOSE it : it = SumPrimed(it))
  <2> HIDE DEF Sum, SumPrimed
  <2> QED
    BY <1>4
<1> QED
    BY <1>2, <1>3, <1>5

LEMMA SameStats ==
    ASSUME Heap(nodes), Tree(nodes), SameVersion
    PROVE  get_stats' = get_stats
<1>1. /\ DOMAIN nodes' = DOMAIN nodes /\ Keys(nodes') = Keys(nodes)
      /\ version' = version /\ (kind' = "EMPTY" <=> kind = "EMPTY")
    BY FailTree DEF SameVersion, SameLinks
<1>2. links_count' = links_count
    BY SameLinksCount DEF SameVersion
<1> HIDE DEF links_count
<1> QED
    BY <1>1, <1>2 DEF get_stats

\* The cached statistics are never of a version to come.
StatsInv == CountInv /\ ShapeInv /\ FailsInv /\ stats.version <= version /\ StatsOK

LEMMA StatsNext ==
    ASSUME ~MemoryFails, 0 \notin Ints, StatsInv, [Next]_vars
    PROVE  stats'.version <= version' /\ StatsOK'
<1>1. version \in Nat /\ stats.version \in Int /\ Heap(nodes) /\ Tree(nodes)
    BY ConstantAssumption DEF StatsInv, CountInv, IInv, ObjectOK, TreeOK
<1>2. version' = version + 1 \/ SameVersion
    BY VersionStep DEF StatsInv, ShapeInv
<1>3. CASE automaton_get_stats
  <2>1. /\ stats' = IF stats.version # version THEN get_stats ELSE stats
        /\ version' = version /\ SameVersion
    BY <1>1, <1>2, <1>3 DEF automaton_get_stats
  <2>2. get_stats' = get_stats
    BY <1>1, <2>1, SameStats
  <2>3. get_stats.version = version
    BY DEF get_stats, NoStats
  <2> QED
    BY <1>1, <2>1, <2>2, <2>3 DEF StatsInv, StatsOK
<1>4. CASE ~automaton_get_stats
  <2>1. stats' = stats
    BY <1>4 DEF Next, vars, object, automaton_add_word, automaton_add_word_no_memory,
            automaton_remove_word, automaton_pop, automaton_remove_word_aux,
            automaton_pop_crashes, automaton_remove_no_memory, automaton_remove_absent,
            automaton_add_empty_word, automaton_add_word_aborts, automaton_clear,
            automaton_make_automaton, MakeStep, SetupFirstLevel, FirstLevelDone, PopNode,
            EnqueueChild, ChildrenDone, FollowFail, SetFail, BuildDone
  <2>2. CASE version' = version + 1
    BY <1>1, <2>1, <2>2 DEF StatsInv, StatsOK
  <2>3. CASE SameVersion
    <3>1. get_stats' = get_stats /\ version' = version
      BY <1>1, <2>3, SameStats DEF SameVersion
    <3> QED
      BY <2>1, <3>1 DEF StatsInv, StatsOK
  <2> QED
    BY <1>2, <2>2, <2>3
<1> QED
    BY <1>3, <1>4

(***************************************************************************)
(* get_stats answers from its cache only what it would count now           *)
(* (Automaton.c:1083), after any additions, removals, replacements,        *)
(* clears and runs of make_automaton, if no caller stores 0 and no         *)
(* allocation fails.                                                       *)
(***************************************************************************)
THEOREM StatsCorrect == ASSUME ~MemoryFails, 0 \notin Ints PROVE Spec => []StatsOK
<1>1. Init => StatsInv
  <2> SUFFICES ASSUME Init PROVE StatsInv
    OBVIOUS
  <2>1. stats.version <= version /\ StatsOK
    BY DEF Init, NoStats, StatsOK
  <2> QED
    BY <2>1, CountInit, ShapeInit, FailsInit DEF StatsInv
<1>2. StatsInv /\ [Next]_vars => StatsInv'
    BY CountNext, ShapeNext, FailsNext, StatsNext DEF StatsInv
<1>3. StatsInv => StatsOK
    BY DEF StatsInv
<1> QED
    BY <1>1, <1>2, <1>3, PTL DEF Spec

-----------------------------------------------------------------------------
(* Control. *)

Pc == {"idle", "level1", "pop", "child", "walk", "exit", "crash"}

\* No method runs while code that is not among them does, or after a crash.
LEMMA NextRuns == Next => pc \in {"idle", "level1", "pop", "child", "walk"} /\ pc' \in Pc
<1> SUFFICES ASSUME Next PROVE pc \in {"idle", "level1", "pop", "child", "walk"} /\ pc' \in Pc
    OBVIOUS
<1> QED
    BY DEF Pc, Next, automaton_add_word, automaton_add_word_no_memory,
           automaton_remove_word, automaton_pop, automaton_remove_word_aux, automaton_pop_crashes,
           automaton_remove_no_memory, automaton_remove_absent, automaton_add_empty_word,
           automaton_add_word_aborts, automaton_clear, automaton_get_stats,
           automaton_make_automaton, MakeStep, SetupFirstLevel, FirstLevelDone, PopNode,
           EnqueueChild, ChildrenDone, FollowFail, SetFail, BuildDone, Follow, Return, NoMemory
=============================================================================
