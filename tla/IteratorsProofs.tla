--------------------------- MODULE IteratorsProofs ---------------------------
(***************************************************************************)
(* The version check is enough: whatever calls are made between two calls  *)
(* of next(), an iterator that passes it touches only live nodes, iterates *)
(* over the words there were when it was made, and never crashes; the only *)
(* crash left is find_all()'s, whose callback changed the words.  For      *)
(* every alphabet, set of words, text and number of calls, as long as no   *)
(* allocation fails and no caller stores 0.                                *)
(***************************************************************************)
EXTENDS Iterators, AutomatonProofs

-----------------------------------------------------------------------------
(***************************************************************************)
(* The inductive invariant.  The properties are not inductive alone: the   *)
(* version of an iterator is never ahead of the automaton's, so that it    *)
(* cannot become valid again; a valid one searches an automaton (Live) or  *)
(* has only nodes on its stack; while a find_all's callback runs, the node *)
(* it reports from exists if the words have not changed.                   *)
(***************************************************************************)
SearchIterator == [version : Nat, state : Pointer, output : Pointer, index : Int,
                   keys : SUBSET Seq(Letters)]
ItemsIterator  == [version : Nat, stack : Seq(Pointer), size : Nat, keys : SUBSET Seq(Letters)]
FindFrame      == [version : Nat, state : Pointer, output : Pointer, index : Int]

Live(it) ==
    /\ Root \in DOMAIN nodes /\ FailLinks(nodes)
    /\ it.state \in DOMAIN nodes /\ it.output \in DOMAIN nodes \cup {NULL}

SearchOK ==
    Exists(search) =>
        /\ search \in SearchIterator /\ search.version <= version
        /\ Valid(search) => Live(search) /\ search.keys = Keys(nodes)

ItemsOK ==
    Exists(items) =>
        /\ items \in ItemsIterator /\ items.version <= version
        /\ Valid(items) =>
            /\ items.keys = Keys(nodes)
            /\ items.stack = <<NULL>> \/ items.stack \in Seq(DOMAIN nodes)
            /\ \A p \in DOMAIN nodes : Len(p) < items.size

FindOK ==
    Exists(find) =>
        /\ find \in FindFrame /\ find.version <= version
        /\ Valid(find) => Live(find) /\ (pc # "find" => find.output \in DOMAIN nodes)

RunningOK ==
    /\ pc \in {"search", "items", "find"} => node = Root /\ queue = <<>> /\ i = 1
    /\ pc = "search" => Valid(search)
    /\ pc = "items" => Valid(items)
    /\ pc = "find" => Exists(find)

AutomatonInv == CountInv /\ ShapeInv /\ FailsOK /\ (pc # "crash" => FailsInv)

IterInv ==
    /\ AutomatonInv /\ RunningOK
    /\ SearchOK /\ ItemsOK /\ FindOK
    /\ SafeUnlessChanged

-----------------------------------------------------------------------------
(* The automaton's own steps. *)

\* What a method leaves of the version and of the trie.
LEMMA NextAutomaton ==
    ASSUME ~MemoryFails, 0 \notin Ints, AutomatonInv, Next
    PROVE  /\ AutomatonInv'
           /\ version' = version + 1 \/ SameVersion
           /\ pc' \in Pc \ {"crash"}
<1>1. FailsInv
    BY NextRuns DEF AutomatonInv
<1>2. CountInv' /\ ShapeInv' /\ FailsInv' /\ FailsOK'
    BY <1>1, CountNext, ShapeNext, FailsNext, LinksNext DEF AutomatonInv
<1>3. version' = version + 1 \/ SameVersion
    BY <1>1, VersionStep DEF AutomatonInv, ShapeInv
<1>4. pc' \in Pc /\ pc' # "crash"
    BY <1>2, NextRuns DEF FailsInv
<1> QED
    BY <1>2, <1>3, <1>4 DEF AutomatonInv

\* Where a version stays, the nodes, the words and the fail links stay.
LEMMA SameVersionKeeps ==
    ASSUME Heap(nodes), Tree(nodes), SameVersion
    PROVE  /\ DOMAIN nodes' = DOMAIN nodes /\ Keys(nodes') = Keys(nodes) /\ version' = version
           /\ FailLinks(nodes) => FailLinks(nodes')
           /\ \A ptr : Dangle(ptr, DOMAIN nodes \ DOMAIN nodes') = ptr
<1>1. DOMAIN nodes' = DOMAIN nodes /\ Keys(nodes') = Keys(nodes)
    BY FailTree DEF SameVersion, SameLinks
<1> QED
    BY <1>1 DEF SameVersion, Dangle

\* A pointer kept is a pointer.
LEMMA DangleType == ASSUME NEW ptr \in Pointer, NEW freed PROVE Dangle(ptr, freed) \in Pointer
BY DEF Dangle, Pointer

\* A step of the automaton keeps what is known of the iterators: they are
\* valid no longer, or nothing they look at has changed.
LEMMA AutomatonStepInv ==
    ASSUME ~MemoryFails, 0 \notin Ints, IterInv, AutomatonStep
    PROVE  IterInv'
<1> DEFINE freed == DOMAIN nodes \ DOMAIN nodes'
           Keep(it) == [it EXCEPT !.state = Dangle(@, freed), !.output = Dangle(@, freed)]
           KeepStack(it) == [it EXCEPT !.stack = [k \in DOMAIN @ |-> Dangle(@[k], freed)]]
<1>1. /\ Next
      /\ search' = IF Exists(search) THEN Keep(search) ELSE search
      /\ find' = IF Exists(find) THEN Keep(find) ELSE find
      /\ items' = IF Exists(items) THEN KeepStack(items) ELSE items
    BY DEF AutomatonStep
<1>2. /\ AutomatonInv' /\ pc' \in Pc \ {"crash"} /\ pc # "find"
      /\ version' = version + 1 \/ SameVersion
    BY <1>1, NextAutomaton, NextRuns DEF IterInv
<1>3. Heap(nodes) /\ Tree(nodes) /\ version \in Nat
    BY ConstantAssumption DEF IterInv, AutomatonInv, CountInv, IInv, ObjectOK, TreeOK
<1>4. SameVersion =>
        /\ DOMAIN nodes' = DOMAIN nodes /\ Keys(nodes') = Keys(nodes) /\ version' = version
        /\ FailLinks(nodes) => FailLinks(nodes')
        /\ \A ptr : Dangle(ptr, freed) = ptr
    BY <1>3, SameVersionKeeps
<1>5. \A ptr \in Pointer : Dangle(ptr, freed) \in Pointer
    BY DangleType
<1> HIDE DEF freed
<1>6. SearchOK'
  <2>1. CASE ~Exists(search)
    BY <1>1, <2>1 DEF SearchOK, Exists
  <2>2. CASE Exists(search)
    <3>1. search \in SearchIterator /\ search.version <= version
      BY <2>2 DEF IterInv, SearchOK
    <3>2. /\ search' \in SearchIterator /\ search'.version = search.version
          /\ search'.keys = search.keys
          /\ search'.state = Dangle(search.state, freed)
          /\ search'.output = Dangle(search.output, freed)
      BY <1>1, <1>5, <2>2, <3>1 DEF SearchIterator
    <3>3. CASE version' = version + 1
      BY <1>3, <3>1, <3>2, <3>3 DEF SearchOK, Valid, SearchIterator
    <3>4. CASE SameVersion
      BY <1>4, <2>2, <3>1, <3>2, <3>4 DEF IterInv, SearchOK, Valid, Live
    <3> QED
      BY <1>2, <3>3, <3>4
  <2> QED
    BY <2>1, <2>2
<1>7. FindOK'
  <2>1. CASE ~Exists(find)
    BY <1>1, <2>1 DEF FindOK, Exists
  <2>2. CASE Exists(find)
    <3>1. find \in FindFrame /\ find.version <= version
      BY <2>2 DEF IterInv, FindOK
    <3>2. /\ find' \in FindFrame /\ find'.version = find.version
          /\ find'.state = Dangle(find.state, freed)
          /\ find'.output = Dangle(find.output, freed)
      BY <1>1, <1>5, <2>2, <3>1 DEF FindFrame
    <3>3. CASE version' = version + 1
      BY <1>3, <3>1, <3>2, <3>3 DEF FindOK, Valid, FindFrame
    <3>4. CASE SameVersion
      BY <1>2, <1>4, <2>2, <3>1, <3>2, <3>4 DEF IterInv, FindOK, Valid, Live
    <3> QED
      BY <1>2, <3>3, <3>4
  <2> QED
    BY <2>1, <2>2
<1>8. ItemsOK'
  <2>1. CASE ~Exists(items)
    BY <1>1, <2>1 DEF ItemsOK, Exists
  <2>2. CASE Exists(items)
    <3>1. items \in ItemsIterator /\ items.version <= version
      BY <2>2 DEF IterInv, ItemsOK
    <3> DEFINE kept == [k \in DOMAIN items.stack |-> Dangle(items.stack[k], freed)]
    <3>2. kept \in Seq(Pointer) /\ (SameVersion => kept = items.stack)
      <4>1. items.stack \in Seq(Pointer)
        BY <3>1 DEF ItemsIterator
      <4>2. kept \in Seq(Pointer)
        BY <1>5, <4>1
      <4>3. SameVersion => kept = items.stack
        BY <1>4, <4>1
      <4> QED
        BY <4>2, <4>3
    <3>3. items' = [items EXCEPT !.stack = kept]
      BY <1>1, <2>2, <3>1 DEF ItemsIterator
    <3> HIDE DEF kept
    <3>4. /\ items' \in ItemsIterator /\ items'.version = items.version
          /\ items'.keys = items.keys /\ items'.size = items.size /\ items'.stack = kept
      BY <3>1, <3>2, <3>3 DEF ItemsIterator
    <3>5. CASE version' = version + 1
      BY <1>3, <3>1, <3>4, <3>5 DEF ItemsOK, Valid, ItemsIterator
    <3>6. CASE SameVersion
      BY <1>4, <2>2, <3>1, <3>2, <3>4, <3>6 DEF IterInv, ItemsOK, Valid
    <3> QED
      BY <1>2, <3>5, <3>6
  <2> QED
    BY <2>1, <2>2
<1> QED
    BY <1>2, <1>6, <1>7, <1>8 DEF IterInv, RunningOK, SafeUnlessChanged, Pc

-----------------------------------------------------------------------------
(* The iterators' steps. *)

\* A fail link of an automaton leads to a node, or is NULL.
LEMMA LinkLive ==
    ASSUME Heap(nodes), Tree(nodes), Root \in DOMAIN nodes, FailLinks(nodes), NEW p \in DOMAIN nodes
    PROVE  nodes[p].fail \in DOMAIN nodes \cup {NULL}
<1>1. CASE p = Root
    BY <1>1 DEF FailLinks
<1>2. CASE p # Root
  <2>1. FailNode(nodes, p, nodes[p].fail)
    BY <1>2, LongestFailNode DEF IsAutomaton
  <2> QED
    BY <2>1 DEF FailNode
<1> QED
    BY <1>1, <1>2

\* A live iterator's next output and next state exist or are NULL, and the same
\* goes for the link it follows after a report.
LEMMA LiveSteps ==
    ASSUME Heap(nodes), Tree(nodes), NEW it, Live(it)
    PROVE  /\ Output(it) \in DOMAIN nodes \cup {NULL}
           /\ NextState(it) \in DOMAIN nodes
           /\ ~Crashes(it)
           /\ Found(it) => nodes[Output(it)].fail \in DOMAIN nodes \cup {NULL}
<1>1. IsAutomaton(nodes) /\ DOMAIN nodes \subseteq Seq(Letters) /\ NULL \notin DOMAIN nodes
    BY PointerAssumption DEF Live, IsAutomaton, Heap
<1>2. Output(it) \in DOMAIN nodes \cup {NULL}
  <2>1. CASE it.output = NULL
    BY <1>1, <2>1 DEF Output, NextOutput, FirstBack
  <2>2. CASE it.output \in DOMAIN nodes
    <3>1. LongestGood(it.output, Keys(nodes), Output(it))
      BY <1>1, <2>2, NextOutputCorrect DEF Output
    <3> QED
      BY <3>1 DEF LongestGood, Keys
  <2> QED
    BY <2>1, <2>2 DEF Live
<1>3. NextState(it) \in DOMAIN nodes
  <2> DEFINE p == it.state
             l == Text[it.index + 2]
             S == Letters \cup {l}
  <2>1. p \in DOMAIN nodes /\ p \in Seq(Letters) /\ Len(p) \in Nat
    BY <1>1, LenProperties DEF Live
  <2>2. p \in Seq(S) /\ l \in S /\ Letters \subseteq S
    BY <2>1
  <2>3. IsState(nodes, p, p)
    <3>1. Len(p) \in 0..Len(p) /\ (Len(p) + 1)..Len(p) = {}
      BY <2>1
    <3>2. Suffix(p, Len(p)) = p
      BY <2>1, SuffixWhole
    <3> QED
      BY <2>1, <3>1, <3>2 DEF IsState
  <2> HIDE DEF p, l, S
  <2>4. IsState(nodes, Append(p, l), ahocorasick_next(nodes, p, l))
    BY <1>1, <2>2, <2>3, NextStateCorrect
  <2>5. ahocorasick_next(nodes, p, l) \in DOMAIN nodes
    BY <2>4 DEF IsState
  <2> QED
    BY <2>5 DEF NextState, p, l
<1>4. ~Crashes(it)
  <2>1. Output(it) # FREED
    BY <1>1, <1>2, PointerAssumption
  <2> QED
    BY <1>3, <2>1 DEF Crashes
<1>5. Found(it) => nodes[Output(it)].fail \in DOMAIN nodes \cup {NULL}
    BY LinkLive DEF Found, Live
<1> QED
    BY <1>2, <1>3, <1>4, <1>5

\* A step of an iterator leaves the automaton alone but for pc.
LEMMA FrameKept ==
    ASSUME AutomatonInv, UNCHANGED <<object, locals>>,
           pc \in {"idle", "search", "items", "find"},
           pc' \in {"idle", "search", "items", "find", "crash"},
           pc # "idle" => node = Root /\ queue = <<>> /\ i = 1
    PROVE  /\ AutomatonInv' /\ node' = Root /\ queue' = <<>> /\ i' = 1
           /\ nodes' = nodes /\ version' = version
<1> USE DEF object, locals
<1>1. node = Root /\ queue = <<>> /\ i = 1
    BY DEF AutomatonInv, FailsInv, IInv, FrameOK
<1>2. CountInv' /\ ShapeInv' /\ FailsOK'
  <2>1. IInv'
    BY <1>1 DEF AutomatonInv, CountInv, IInv, ObjectOK, TreeOK, RootOK, HasRoot, EnoughCount,
                FrameOK, Building
  <2>2. ValuesOK' /\ CountOK' /\ FailsOK'
    BY DEF AutomatonInv, CountInv, ValuesOK, CountOK, automaton_len, FailsOK
  <2>3. EmptyOK' /\ LongestWordOK' /\ NoDeadBranch'
    BY DEF AutomatonInv, ShapeInv, EmptyOK, HasRoot, LongestWordOK, NoDeadBranch
  <2> QED
    BY <2>1, <2>2, <2>3 DEF CountInv, ShapeInv
<1>3. RootFail'
    BY DEF AutomatonInv, FailsInv, RootFail, HasRoot
<1> QED
    BY <1>1, <1>2, <1>3 DEF AutomatonInv, FailsInv, Building, CountInv

\* Nothing of it changes in a step that changes no variable.
LEMMA Unchanged == ASSUME AutomatonInv, UNCHANGED vars PROVE AutomatonInv'
<1> USE DEF vars, object, locals
<1>1. IInv'
    BY DEF AutomatonInv, CountInv, IInv, ObjectOK, TreeOK, RootOK, HasRoot, EnoughCount,
           FrameOK, Building
<1>2. ValuesOK' /\ CountOK' /\ FailsOK'
    BY DEF AutomatonInv, CountInv, ValuesOK, CountOK, automaton_len, FailsOK
<1>3. EmptyOK' /\ LongestWordOK' /\ NoDeadBranch'
    BY DEF AutomatonInv, ShapeInv, EmptyOK, HasRoot, LongestWordOK, NoDeadBranch
<1>4. pc' # "crash" => FailsInv'
    BY FailsNext DEF AutomatonInv, FailsInv
<1> QED
    BY <1>1, <1>2, <1>3, <1>4 DEF AutomatonInv, CountInv, ShapeInv

\* So the others keep what is known of them.
LEMMA OthersKept ==
    ASSUME nodes' = nodes, version' = version
    PROVE  /\ search' = search /\ SearchOK => SearchOK'
           /\ items' = items /\ ItemsOK => ItemsOK'
           /\ find' = find /\ FindOK /\ (pc' = "find" \/ pc # "find") => FindOK'
<1>1. search' = search /\ SearchOK => SearchOK'
    BY DEF SearchOK, Exists, Valid, Live
<1>2. items' = items /\ ItemsOK => ItemsOK'
    BY DEF ItemsOK, Exists, Valid
<1>3. find' = find /\ FindOK /\ (pc' = "find" \/ pc # "find") => FindOK'
    BY DEF FindOK, Exists, Valid, Live
<1> QED
    BY <1>1, <1>2, <1>3

\* iter() over an automaton, and set(): the search starts at the root, which exists.
LEMMA SearchStarts ==
    ASSUME IterInv, automaton_iter \/ automaton_search_iter_set
    PROVE  IterInv'
<1>1. pc = "idle" /\ UNCHANGED <<vars, items, find>>
    BY DEF automaton_iter, automaton_search_iter_set
<1>2. /\ AutomatonInv' /\ RunningOK' /\ SafeUnlessChanged'
      /\ nodes' = nodes /\ version' = version /\ pc' = pc
    BY <1>1, FrameKept DEF IterInv, RunningOK, SafeUnlessChanged, vars, object, locals
<1>3. ItemsOK' /\ FindOK'
    BY <1>1, <1>2, OthersKept DEF IterInv
<1>4. root \in Pointer /\ version \in Nat /\ Keys(nodes) \in SUBSET Seq(Letters)
  <2>1. Heap(nodes) /\ version \in Nat
    BY ConstantAssumption DEF IterInv, AutomatonInv, CountInv, IInv, ObjectOK
  <2> QED
    BY <2>1, EmptySeq DEF root, Root, Pointer, Heap, Keys
<1>5. NULL \in Pointer
    BY DEF Pointer
<1>6. SearchOK'
  <2>1. CASE automaton_iter
    <3>1. Root \in DOMAIN nodes /\ FailLinks(nodes) /\ root = Root
      BY <2>1 DEF automaton_iter, IterInv, AutomatonInv, ShapeInv, EmptyOK, FailsOK, FailLinks,
                  HasRoot, root
    <3>2. search' = [version |-> version, state |-> root, output |-> NULL, index |-> -1,
                     keys |-> Keys(nodes)]
      BY <2>1 DEF automaton_iter
    <3>3. search' \in SearchIterator
      BY <1>4, <1>5, <3>2 DEF SearchIterator
    <3> QED
      BY <1>2, <1>4, <3>1, <3>2, <3>3 DEF SearchOK, Live
  <2>2. CASE automaton_search_iter_set
    <3>1. search \in SearchIterator /\ search.version <= version
      BY <2>2 DEF automaton_search_iter_set, IterInv, SearchOK
    <3>2. /\ search' \in SearchIterator /\ search'.version = search.version
          /\ search'.keys = search.keys
          /\ \/ search'.state = search.state /\ search'.output = search.output
             \/ search'.state = root /\ search'.output = NULL
      <4> DEFINE n == -1
      <4>1. /\ \/ search' = [search EXCEPT !.index = n]
               \/ search' = [search EXCEPT !.index = n, !.state = root, !.output = NULL]
            /\ n \in Int
        BY <2>2 DEF automaton_search_iter_set
      <4> HIDE DEF n
      <4>2. CASE search' = [search EXCEPT !.index = n]
        BY <3>1, <4>1, <4>2 DEF SearchIterator
      <4>3. CASE search' = [search EXCEPT !.index = n, !.state = root, !.output = NULL]
        BY <1>4, <1>5, <3>1, <4>1, <4>3 DEF SearchIterator
      <4> QED
        BY <4>1, <4>2, <4>3
    <3>3. Valid(search) => Live(search) /\ root = Root /\ search.keys = Keys(nodes)
      BY <2>2 DEF automaton_search_iter_set, IterInv, SearchOK, Live, root, HasRoot
    <3> QED
      BY <1>2, <2>2, <3>1, <3>2, <3>3
         DEF automaton_search_iter_set, SearchOK, Valid, Live
  <2> QED
    BY <2>1, <2>2
<1> QED
    BY <1>2, <1>3, <1>6 DEF IterInv

\* next() starts only if the version is the automaton's.
LEMMA NextStarts ==
    ASSUME IterInv, automaton_search_iter_next \/ automaton_items_iter_next
    PROVE  IterInv'
<1>1. /\ pc = "idle" /\ UNCHANGED <<object, locals, search, items, find>>
      /\ pc' \in {"idle", "search", "items"}
      /\ pc' = "search" => Valid(search)
      /\ pc' = "items" => Valid(items)
    BY DEF automaton_search_iter_next, automaton_items_iter_next, BeginNext, frames, Valid
<1>2. /\ AutomatonInv' /\ nodes' = nodes /\ version' = version
      /\ node' = Root /\ queue' = <<>> /\ i' = 1
    BY <1>1, FrameKept
       DEF IterInv
<1>3. SearchOK' /\ ItemsOK' /\ FindOK'
    BY <1>1, <1>2, OthersKept DEF IterInv
<1>4. RunningOK' /\ SafeUnlessChanged'
    BY <1>1, <1>2 DEF RunningOK, SafeUnlessChanged, Valid, Exists
<1> QED
    BY <1>2, <1>3, <1>4 DEF IterInv

\* What a live search iterator does in next() leaves it live.
LEMMA SearchRuns ==
    ASSUME IterInv, SearchReport \/ SearchRead \/ SearchStop
    PROVE  IterInv'
<1>1. /\ pc = "search" /\ pc' \in {"search", "idle"} /\ UNCHANGED <<object, locals, items, find>>
    BY DEF SearchReport, SearchRead, SearchStop, vars
<1>2. Valid(search) /\ Exists(search) /\ node = Root /\ queue = <<>> /\ i = 1
    BY <1>1 DEF IterInv, RunningOK, Valid
<1>3. /\ AutomatonInv' /\ nodes' = nodes /\ version' = version
      /\ node' = Root /\ queue' = <<>> /\ i' = 1
    BY <1>1, <1>2, FrameKept DEF IterInv
<1>4. ItemsOK' /\ FindOK'
    BY <1>1, <1>3, OthersKept DEF IterInv
<1>5. /\ search \in SearchIterator /\ search.version = version /\ version \in Nat
      /\ Live(search) /\ search.keys = Keys(nodes)
    BY <1>2 DEF IterInv, SearchOK, Valid, SearchIterator
<1>6. Heap(nodes) /\ Tree(nodes) /\ DOMAIN nodes \cup {NULL} \subseteq Pointer
    BY DEF IterInv, AutomatonInv, CountInv, IInv, ObjectOK, TreeOK, Heap, Pointer
<1>7. /\ NextState(search) \in DOMAIN nodes
      /\ Found(search) => nodes[Output(search)].fail \in DOMAIN nodes \cup {NULL}
    BY <1>5, <1>6, LiveSteps
<1>8. /\ search' \in SearchIterator /\ search'.version = search.version
      /\ search'.keys = search.keys
      /\ search'.state \in DOMAIN nodes /\ search'.output \in DOMAIN nodes \cup {NULL}
  <2>1. CASE SearchReport
    <3>1. PICK f \in DOMAIN nodes \cup {NULL} : search' = [search EXCEPT !.output = f]
      BY <1>7, <2>1 DEF SearchReport
    <3>2. f \in Pointer
      BY <1>6
    <3> QED
      BY <1>5, <3>1, <3>2 DEF SearchIterator, Live
  <2>2. CASE SearchRead
    <3> DEFINE n == search.index + 1
    <3>1. PICK s \in DOMAIN nodes :
              search' = [search EXCEPT !.index = n, !.state = s, !.output = s]
      BY <1>5, <1>7, <2>2 DEF SearchRead, Read, SearchIterator
    <3>2. s \in Pointer /\ n \in Int
      BY <1>5, <1>6 DEF SearchIterator
    <3> HIDE DEF n
    <3>3. search' \in SearchIterator
      BY <1>5, <3>1, <3>2 DEF SearchIterator
    <3> QED
      BY <1>5, <3>1, <3>3 DEF SearchIterator
  <2>3. CASE SearchStop
    <3> DEFINE n == Len(Text)
    <3>1. search' = [search EXCEPT !.index = n, !.output = NULL]
      BY <2>3 DEF SearchStop
    <3>2. n \in Int /\ NULL \in Pointer
      BY TextAssumption DEF Pointer
    <3> HIDE DEF n
    <3>3. search' \in SearchIterator
      BY <1>5, <3>1, <3>2 DEF SearchIterator
    <3> QED
      BY <1>5, <3>1, <3>3 DEF SearchIterator, Live
  <2> QED
    BY <2>1, <2>2, <2>3
<1>9. Exists(search') /\ Valid(search)' /\ Live(search)' /\ SearchOK'
    BY <1>3, <1>5, <1>8 DEF SearchOK, Valid, Live, Exists, NoIterator, SearchIterator
<1>10. RunningOK' /\ SafeUnlessChanged'
    BY <1>1, <1>3, <1>9 DEF RunningOK, SafeUnlessChanged
<1> QED
    BY <1>3, <1>4, <1>9, <1>10 DEF IterInv

\* The children of a node pushed on the stack are nodes.
LEMMA Pushed ==
    ASSUME Heap(nodes), Tree(nodes), NEW top \in DOMAIN nodes, NEW rest \in Seq(DOMAIN nodes)
    PROVE  Reverse([k \in DOMAIN nodes[top].next |-> Append(top, nodes[top].next[k])]) \o rest
                \in Seq(DOMAIN nodes)
<1> DEFINE next == nodes[top].next
           pushed == [k \in DOMAIN next |-> Append(top, next[k])]
<1>1. next \in Seq(Letters) /\ Len(next) \in Nat /\ DOMAIN next = 1..Len(next)
    BY LenProperties DEF Heap, TrieNode
<1>2. \A k \in 1..Len(next) : Append(top, next[k]) \in DOMAIN nodes
  <2>1. \A k \in 1..Len(next) : next[k] \in ToSet(next)
    BY <1>1 DEF ToSet
  <2> QED
    BY <2>1 DEF Tree, LinksLive
<1> HIDE DEF next
<1>3. pushed \in Seq(DOMAIN nodes) /\ Len(pushed) = Len(next)
    BY <1>1, <1>2
<1> HIDE DEF pushed
<1>4. Reverse(pushed) \in Seq(DOMAIN nodes)
  <2>1. \A k \in 1..Len(pushed) : pushed[Len(pushed) - k + 1] \in DOMAIN nodes
    <3>1. \A k \in 1..Len(pushed) : Len(pushed) - k + 1 \in 1..Len(pushed)
      BY <1>1, <1>3
    <3> QED
      BY <1>3, <3>1, ElementOfSeq
  <2> QED
    BY <1>1, <1>3, <2>1 DEF Reverse
<1> QED
    BY <1>4, ConcatProperties DEF pushed, next

\* The fields that the items iterator's steps set.
LEMMA ItemsSet ==
    ASSUME items \in ItemsIterator, NEW s \in Seq(Pointer), items' = [items EXCEPT !.stack = s]
    PROVE  /\ items' \in ItemsIterator /\ items'.version = items.version
           /\ items'.keys = items.keys /\ items'.size = items.size /\ items'.stack = s
BY DEF ItemsIterator

\* keys(), values() and items(), and their next(): the stack holds nodes that
\* the buffer is long enough for.
LEMMA ItemsRun ==
    ASSUME IterInv, automaton_items_create \/ ItemsStop \/ ItemsVisit
    PROVE  IterInv'
<1>1. /\ pc \in {"items", "idle"} /\ pc' \in {"items", "idle", "crash"}
      /\ UNCHANGED <<object, locals, search, find>>
    BY DEF automaton_items_create, ItemsStop, ItemsVisit, vars
<1>2. /\ AutomatonInv' /\ nodes' = nodes /\ version' = version
      /\ node' = Root /\ queue' = <<>> /\ i' = 1
    BY <1>1, FrameKept DEF IterInv, RunningOK
<1>3. SearchOK' /\ FindOK'
    BY <1>1, <1>2, OthersKept DEF IterInv
<1>4. /\ Heap(nodes) /\ Tree(nodes) /\ version \in Nat /\ longest_word \in Nat
      /\ LongestWordOK
      /\ DOMAIN nodes \subseteq Pointer /\ DOMAIN nodes \subseteq Seq(Letters)
      /\ root \in Pointer /\ Keys(nodes) \in SUBSET Seq(Letters)
  <2>1. /\ Heap(nodes) /\ Tree(nodes) /\ version \in Nat /\ longest_word \in Nat
        /\ LongestWordOK
    BY ConstantAssumption DEF IterInv, AutomatonInv, CountInv, ShapeInv, IInv, ObjectOK, TreeOK
  <2> QED
    BY <2>1, EmptySeq DEF Heap, Pointer, root, Root, Keys
<1>5. /\ ItemsOK' /\ pc' # "crash"
      /\ pc' = "items" => Valid(items)'
  <2>1. CASE automaton_items_create
    <3>1. /\ items' = [version |-> version, stack |-> <<root>>, size |-> longest_word + 1,
                       keys |-> Keys(nodes)]
          /\ pc' = "idle"
      BY <1>1, <2>1 DEF automaton_items_create, vars
    <3>2. <<root>> = <<NULL>> \/ <<root>> \in Seq(DOMAIN nodes)
      BY DEF root, HasRoot
    <3>3. longest_word + 1 \in Nat /\ <<root>> \in Seq(Pointer)
      BY <1>4
    <3>4. \A p \in DOMAIN nodes : Len(p) < longest_word + 1
      <4>1. \A p \in DOMAIN nodes : Len(p) \in Nat /\ Len(p) <= longest_word
        BY <1>4, LenProperties DEF LongestWordOK
      <4> QED
        BY <1>4, <4>1
    <3> DEFINE size == longest_word + 1
               stack == <<root>>
    <3>5. /\ items' = [version |-> version, stack |-> stack, size |-> size, keys |-> Keys(nodes)]
          /\ size \in Nat /\ stack \in Seq(Pointer)
          /\ stack = <<NULL>> \/ stack \in Seq(DOMAIN nodes)
          /\ \A p \in DOMAIN nodes : Len(p) < size
      BY <3>1, <3>2, <3>3, <3>4
    <3> HIDE DEF size, stack
    <3>6. items' \in ItemsIterator
      BY <1>4, <3>5 DEF ItemsIterator
    <3>7. ItemsOK'
      BY <1>2, <1>4, <3>5, <3>6 DEF ItemsOK
    <3> QED
      BY <3>1, <3>7
  <2>2. CASE ItemsStop \/ ItemsVisit
    <3>1. /\ items \in ItemsIterator /\ items.version = version /\ items.keys = Keys(nodes)
          /\ items.stack = <<NULL>> \/ items.stack \in Seq(DOMAIN nodes)
          /\ \A p \in DOMAIN nodes : Len(p) < items.size
          /\ Exists(items)
      BY <2>2 DEF ItemsStop, ItemsVisit, IterInv, RunningOK, ItemsOK, Valid
    <3>2. ASSUME NEW s \in Seq(Pointer), s \in Seq(DOMAIN nodes),
                 items' = [items EXCEPT !.stack = s]
          PROVE  ItemsOK' /\ Valid(items)'
      <4>1. /\ items' \in ItemsIterator /\ items'.version = items.version
            /\ items'.keys = items.keys /\ items'.size = items.size /\ items'.stack = s
        BY <3>1, <3>2, ItemsSet
      <4>2. version # -1
        BY <1>4
      <4> QED
        BY <1>2, <1>4, <3>1, <3>2, <4>1, <4>2 DEF ItemsOK, Valid, Exists, NoIterator
    <3>3. CASE ItemsStop
      <4>1. items' = [items EXCEPT !.stack = <<>>] /\ pc' = "idle"
        BY <3>3 DEF ItemsStop
      <4>2. <<>> \in Seq(Pointer) /\ <<>> \in Seq(DOMAIN nodes)
        OBVIOUS
      <4>3. ItemsOK'
        BY <3>2, <4>1, <4>2
      <4> QED
        BY <4>1, <4>3
    <3>4. CASE ItemsVisit
      <4> DEFINE top == Head(items.stack)
                 children == Reverse([k \in DOMAIN nodes[top].next |->
                                        Append(top, nodes[top].next[k])])
      <4>1. items.stack \in Seq(DOMAIN nodes) /\ items.stack # <<>>
        BY <3>1, <3>4 DEF ItemsVisit
      <4>2. top \in DOMAIN nodes /\ Tail(items.stack) \in Seq(DOMAIN nodes)
        BY <4>1, HeadTailProperties
      <4>3. children \o Tail(items.stack) \in Seq(DOMAIN nodes)
        BY <1>4, <4>2, Pushed
      <4>4. Len(top) \in Nat /\ items.size \in Nat /\ Len(top) < items.size
        BY <1>4, <3>1, <4>2, LenProperties DEF ItemsIterator
      <4>5. /\ items' = [items EXCEPT !.stack = children \o Tail(@)]
            /\ pc' \in {"idle", "items"}
        <5>1. ~(top \notin DOMAIN nodes \/ Len(top) >= items.size)
          BY <4>2, <4>4
        <5>2. /\ pc = "items"
              /\ IF top \notin DOMAIN nodes \/ Len(top) >= items.size
                 THEN pc' = "crash"
                 ELSE /\ items' = [items EXCEPT !.stack = children \o Tail(@)]
                      /\ IF nodes[top].eow THEN pc' = "idle" ELSE pc' = pc
          BY <3>4, Zenon DEF ItemsVisit
        <5> HIDE DEF top, children
        <5> QED
          BY <5>1, <5>2
      <4> DEFINE s == children \o Tail(items.stack)
      <4>6. items' = [items EXCEPT !.stack = s]
        BY <3>1, <4>5 DEF ItemsIterator
      <4>7. s \in Seq(DOMAIN nodes) /\ s \in Seq(Pointer)
        <5>1. s \in Seq(DOMAIN nodes)
          BY <4>3
        <5> HIDE DEF s
        <5> QED
          BY <1>4, <5>1
      <4> HIDE DEF s
      <4> QED
        BY <3>2, <4>5, <4>6, <4>7
    <3> QED
      BY <2>2, <3>3, <3>4
  <2> QED
    BY <2>1, <2>2
<1>6. RunningOK' /\ SafeUnlessChanged'
    BY <1>1, <1>2, <1>5 DEF RunningOK, SafeUnlessChanged
<1> QED
    BY <1>2, <1>3, <1>5, <1>6 DEF IterInv

\* find_all()'s loop over a live frame leaves it live, and calls the callback at a node.
LEMMA FindRuns ==
    ASSUME IterInv,
           automaton_find_all \/ FindRead \/ FindReport \/ CallbackReturns
    PROVE  IterInv'
<1>1. /\ pc \in {"find", "idle"} /\ pc' \in {"find", "idle", "crash"}
      /\ UNCHANGED <<object, locals, search, items>>
    BY DEF automaton_find_all, FindRead, FindReport, CallbackReturns, vars
<1>2. /\ AutomatonInv' /\ nodes' = nodes /\ version' = version
      /\ node' = Root /\ queue' = <<>> /\ i' = 1
    BY <1>1, FrameKept DEF IterInv, RunningOK
<1>3. SearchOK' /\ ItemsOK'
    BY <1>1, <1>2, OthersKept DEF IterInv
<1>4. /\ Heap(nodes) /\ Tree(nodes) /\ version \in Nat
      /\ DOMAIN nodes \subseteq Pointer /\ NULL \in Pointer
      /\ \A p \in DOMAIN nodes : nodes[p].fail \in Pointer
      /\ root \in Pointer
  <2>1. Heap(nodes) /\ Tree(nodes) /\ version \in Nat
    BY ConstantAssumption DEF IterInv, AutomatonInv, CountInv, IInv, ObjectOK, TreeOK
  <2> QED
    BY <2>1, EmptySeq DEF Heap, TrieNode, Pointer, root, Root
<1>5. /\ find' \in FindFrame /\ find'.version <= version
      /\ find'.version = version => Live(find)' /\ (pc' # "find" => find'.output \in DOMAIN nodes)
      /\ pc' = "crash" => find'.version # version
  <2>1. CASE automaton_find_all
    <3>1. Root \in DOMAIN nodes /\ FailLinks(nodes) /\ root = Root
      BY <2>1 DEF automaton_find_all, IterInv, AutomatonInv, ShapeInv, EmptyOK, FailsOK, FailLinks,
                  HasRoot, root
    <3> DEFINE n == -1
    <3>2. /\ find' = [version |-> version, state |-> root, output |-> NULL, index |-> n]
          /\ pc' = "find" /\ n \in Int
      BY <2>1 DEF automaton_find_all
    <3> HIDE DEF n
    <3>3. find' \in FindFrame
      BY <1>4, <3>2 DEF FindFrame
    <3> QED
      BY <1>2, <1>4, <3>1, <3>2, <3>3 DEF Live
  <2>2. ASSUME FindRead \/ FindReport \/ CallbackReturns
        PROVE  /\ find \in FindFrame /\ find.version <= version
               /\ find.version = version =>
                    Live(find) /\ (pc # "find" => find.output \in DOMAIN nodes)
    <3>1. Exists(find)
      BY <2>2 DEF FindRead, FindReport, CallbackReturns, IterInv, RunningOK
    <3> QED
      BY <3>1 DEF IterInv, FindOK, Valid
  <2>3. CASE FindRead
    <3> DEFINE n == find.index + 1
               s == NextState(find)
    <3>1. find' = [find EXCEPT !.index = n, !.state = s, !.output = s] /\ pc' = "find" /\ n \in Int
      BY <2>2, <2>3 DEF FindRead, Read, vars, FindFrame
    <3>2. s \in DOMAIN nodes
      BY <2>3 DEF FindRead, Crashes
    <3> HIDE DEF n, s
    <3>3. find' \in FindFrame /\ find'.version = find.version /\ find'.state = s /\ find'.output = s
      BY <1>4, <2>2, <2>3, <3>1, <3>2 DEF FindFrame
    <3> QED
      BY <1>2, <2>2, <2>3, <3>1, <3>2, <3>3 DEF Live
  <2>4. CASE FindReport
    <3> DEFINE f == Output(find)
    <3>1. find' = [find EXCEPT !.output = f] /\ pc' = "idle" /\ f \in DOMAIN nodes
      BY <2>4 DEF FindReport, Found
    <3> HIDE DEF f
    <3>2. /\ find' \in FindFrame /\ find'.version = find.version
          /\ find'.state = find.state /\ find'.output = f
      BY <1>4, <2>2, <2>4, <3>1 DEF FindFrame
    <3> QED
      BY <1>2, <2>2, <2>4, <3>1, <3>2 DEF Live
  <2>5. CASE CallbackReturns
    <3>1. CASE find.output \in DOMAIN nodes
      <4> DEFINE f == nodes[find.output].fail
      <4>1. find' = [find EXCEPT !.output = f] /\ pc' = "find" /\ f \in Pointer
        BY <1>4, <2>5, <3>1 DEF CallbackReturns
      <4>2. Live(find) => f \in DOMAIN nodes \cup {NULL}
        BY <1>4, <3>1, LinkLive DEF Live
      <4> HIDE DEF f
      <4>3. /\ find' \in FindFrame /\ find'.version = find.version
            /\ find'.state = find.state /\ find'.output = f
        BY <2>2, <2>5, <4>1 DEF FindFrame
      <4> QED
        BY <1>2, <2>2, <2>5, <4>1, <4>2, <4>3 DEF Live
    <3>2. CASE find.output \notin DOMAIN nodes
      <4>1. find' = find /\ pc' = "crash" /\ pc # "find"
        BY <2>5, <3>2 DEF CallbackReturns
      <4> QED
        BY <2>2, <2>5, <3>2, <4>1
    <3> QED
      BY <3>1, <3>2
  <2> QED
    BY <2>1, <2>3, <2>4, <2>5
<1>6. Exists(find)'
  <2>1. find'.version # -1
    BY <1>5 DEF FindFrame
  <2> QED
    BY <2>1 DEF Exists, NoIterator
<1>7. FindOK'
    BY <1>2, <1>5 DEF FindOK, Valid
<1>8. RunningOK' /\ SafeUnlessChanged'
    BY <1>1, <1>2, <1>5, <1>6 DEF RunningOK, SafeUnlessChanged
<1> QED
    BY <1>2, <1>3, <1>7, <1>8 DEF IterInv

\* find_all() ends.
LEMMA FindEnds == ASSUME IterInv, CallbackRaises \/ FindDone PROVE IterInv'
<1>1. /\ pc \in {"find", "idle"} /\ pc' = "idle" /\ UNCHANGED <<object, locals, search, items>>
      /\ find' = NoIterator
    BY DEF CallbackRaises, FindDone, vars
<1>2. /\ AutomatonInv' /\ nodes' = nodes /\ version' = version
    BY <1>1, FrameKept DEF IterInv, RunningOK
<1>3. SearchOK' /\ ItemsOK'
    BY <1>1, <1>2, OthersKept DEF IterInv
<1> QED
    BY <1>1, <1>2, <1>3 DEF IterInv, FindOK, Exists, RunningOK, SafeUnlessChanged

\* Only find_all() can crash, and only if the words have changed under it.
LEMMA CrashCause == ASSUME IterInv, Crash PROVE IterInv'
<1>1. /\ pc \in {"search", "find"} /\ pc' = "crash" /\ UNCHANGED <<object, locals, search, items, find>>
      /\ Crashes(IF pc = "search" THEN search ELSE find)
    BY DEF Crash, frames
<1>2. /\ AutomatonInv' /\ nodes' = nodes /\ version' = version
    BY <1>1, FrameKept DEF IterInv, RunningOK
<1>3. Heap(nodes) /\ Tree(nodes)
    BY DEF IterInv, AutomatonInv, CountInv, IInv, ObjectOK, TreeOK
<1>4. pc = "find" /\ Exists(find)
  <2>1. pc = "search" => Live(search)
    BY DEF IterInv, RunningOK, SearchOK, Valid
  <2> QED
    BY <1>1, <1>3, <2>1, LiveSteps DEF IterInv, RunningOK
<1>5. ~Valid(find)
  <2>1. Valid(find) => Live(find)
    BY <1>4 DEF IterInv, FindOK
  <2> QED
    BY <1>1, <1>3, <1>4, <2>1, LiveSteps
<1>6. SearchOK' /\ ItemsOK'
    BY <1>1, <1>2, OthersKept DEF IterInv
<1>7. FindOK'
    BY <1>1, <1>2, <1>4, <1>5 DEF IterInv, FindOK, Exists, Valid
<1> QED
    BY <1>1, <1>2, <1>4, <1>5, <1>6, <1>7
       DEF IterInv, RunningOK, SafeUnlessChanged, Exists, Valid

-----------------------------------------------------------------------------
(* What it comes to. *)

\* At first there is no iterator.
LEMMA IterInit == InitIterators => IterInv
<1> SUFFICES ASSUME InitIterators PROVE IterInv
    OBVIOUS
<1>1. Init /\ pc = "idle" /\ ~Exists(search) /\ ~Exists(items) /\ ~Exists(find)
    BY DEF InitIterators, Init, Exists
<1>2. CountInv /\ ShapeInv /\ FailsInv /\ FailsOK
    BY <1>1, CountInit, ShapeInit, FailsInit DEF Init, FailsOK
<1> QED
    BY <1>1, <1>2
       DEF IterInv, AutomatonInv, RunningOK, SearchOK, ItemsOK, FindOK, SafeUnlessChanged

\* Every step keeps the invariant.
LEMMA IterNext ==
    ASSUME ~MemoryFails, 0 \notin Ints
    PROVE  IterInv /\ [NextIterators]_iterVars => IterInv'
<1> SUFFICES ASSUME IterInv, [NextIterators]_iterVars PROVE IterInv'
    OBVIOUS
<1>1. CASE AutomatonStep
    BY <1>1, AutomatonStepInv
<1>2. CASE automaton_iter \/ automaton_search_iter_set
    BY <1>2, SearchStarts
<1>3. CASE automaton_search_iter_next \/ automaton_items_iter_next
    BY <1>3, NextStarts
<1>4. CASE SearchReport \/ SearchRead \/ SearchStop
    BY <1>4, SearchRuns
<1>5. CASE automaton_items_create \/ ItemsStop \/ ItemsVisit
    BY <1>5, ItemsRun
<1>6. CASE automaton_find_all \/ FindRead \/ FindReport \/ CallbackReturns
    BY <1>6, FindRuns
<1>7. CASE CallbackRaises \/ FindDone
    BY <1>7, FindEnds
<1>8. CASE Crash
    BY <1>8, CrashCause
<1>9. CASE UNCHANGED iterVars
  <2>1. UNCHANGED <<vars, search, items, find>>
    BY <1>9 DEF iterVars, frames
  <2>2. AutomatonInv'
    BY <2>1, Unchanged DEF IterInv
  <2>3. nodes' = nodes /\ version' = version /\ pc' = pc /\ UNCHANGED locals
    BY <2>1 DEF vars, object
  <2>4. SearchOK' /\ ItemsOK' /\ FindOK'
    BY <2>1, <2>3, OthersKept DEF IterInv
  <2> QED
    BY <2>1, <2>2, <2>3, <2>4 DEF IterInv, RunningOK, SafeUnlessChanged, locals, Exists, Valid
<1> QED
    BY <1>1, <1>2, <1>3, <1>4, <1>5, <1>6, <1>7, <1>8, <1>9 DEF NextIterators

\* So it always holds.
LEMMA IterInvariant == ASSUME ~MemoryFails, 0 \notin Ints PROVE SpecIterators => []IterInv
BY IterInit, IterNext, PTL DEF SpecIterators

(***************************************************************************)
(* An iterator that passes the version check of next()                     *)
(* (AutomatonSearchIter.c:247, AutomatonItemsIter.c:133) holds pointers to *)
(* live nodes only, and the items iterator's buffer, sized when it was     *)
(* made, is longer than every path it can meet (AutomatonItemsIter.c:213). *)
(***************************************************************************)
THEOREM ValidSafe ==
    ASSUME ~MemoryFails, 0 \notin Ints PROVE SpecIterators => []ValidIsSafe
<1>1. IterInv => ValidIsSafe
  <2> SUFFICES ASSUME IterInv PROVE ValidIsSafe
    OBVIOUS
  <2>1. Valid(items) => ToSet(items.stack) \subseteq DOMAIN nodes \cup {NULL}
    <3>1. ASSUME NEW S, NEW s \in Seq(S) PROVE ToSet(s) \subseteq S
      BY ElementOfSeq DEF ToSet
    <3>2. <<NULL>> \in Seq({NULL})
      OBVIOUS
    <3> QED
      BY <3>1, <3>2 DEF IterInv, ItemsOK, Valid
  <2> QED
    BY <2>1 DEF ValidIsSafe, IterInv, SearchOK, ItemsOK, Valid, Live
<1> QED
    BY <1>1, IterInvariant, PTL

(***************************************************************************)
(* It iterates over the words there were when it was made, and the search  *)
(* iterator's automaton still has the right fail links, although its kind  *)
(* may be TRIE again.                                                      *)
(***************************************************************************)
THEOREM ValidCurrent ==
    ASSUME ~MemoryFails, 0 \notin Ints PROVE SpecIterators => []ValidIsCurrent
<1>1. IterInv => ValidIsCurrent
    BY DEF IterInv, ValidIsCurrent, SearchOK, ItemsOK, Valid, Live, FailLinks
<1> QED
    BY <1>1, IterInvariant, PTL

(***************************************************************************)
(* next() never follows a freed or a null pointer, and make_automaton      *)
(* never does; find_all() does so only if its callback changed the words   *)
(* (Automaton.c:653-717 keeps no version).                                 *)
(***************************************************************************)
THEOREM FindSafe ==
    ASSUME ~MemoryFails, 0 \notin Ints PROVE SpecIterators => []SafeUnlessChanged
<1>1. IterInv => SafeUnlessChanged
    BY DEF IterInv
<1> QED
    BY <1>1, IterInvariant, PTL
=============================================================================
