# pyahocorasick in TLA+

A model, in TLA+, of the C extension in `src/src/`: a trie that callers fill like a dictionary, the
Aho-Corasick automaton that `make_automaton()` turns it into, the iterators that walk it, and the two
ways to keep it, `pickle` and `save`/`load`. TLC checks the model on small instances; TLAPS proves the
properties that matter most for every alphabet and every set of words.

## 1. The system

| Component | Source | State it keeps | Operations | What makes it correct |
|---|---|---|---|---|
| trie | `trie.c`, `trienode.c` | nodes: output, `eow`, `fail`, array of (letter, child) | add, remove, find, longest prefix, next state | it stays a tree; removal frees just the nodes only the removed word needed |
| Automaton | `Automaton.c` | `root`, `kind`, `store`, `count`, `longest_word`, `version`, cached `stats` | `add_word`, `remove_word`, `pop`, `clear`, `make_automaton`, `get_stats`, `in`, `get`, `match`, `longest_prefix`, `find_all` | it behaves as a map; fail links are right; references are kept; caches and iterators notice changes |
| search iterator | `AutomatonSearchIter.c` | `state`, `output`, `index`, `shift`, `end`, `version`, input | `next`, `set`, deletion | all occurrences, once, in order, also across chunks |
| longest-match iterator | `AutomatonSearchIterLong.c` | the same, with `last_node`, `last_index` | `next`, `set`, deletion | longest matches that do not overlap |
| items iterator | `AutomatonItemsIter.c` | stack of nodes, key buffer, pattern, `version` | `next`, deletion | the keys that match the pattern, each once |
| list | `slist.c` | head, last, links | append, push, pop, delete | it is a queue or a stack |
| input | `utils.c` | letters of an argument, who owns them | parse a string, start and end | the slice documented; the letters outlive their use and are freed once |
| pickling | `Automaton_pickle.c`, `pickle/` | numbers put in place of fail links, byte arrays of nodes, list of values | `__reduce__`, the constructor with its result | reading back gives the same automaton or an error; the original is as before; nothing is left behind |
| save and load | `custompickle/` | buffered file, address map | `save`, `load` | as above, through a file |

The parts interact by calls and shared memory. An iterator holds raw pointers into the trie of its
automaton, and the automaton does not know its iterators: what protects them is the number `version`,
raised by each call that changes the set of words or the fail links, and compared once at the start
of each `next()`. `find_all()` holds such pointers across its callback, and `save()` across its
serializer, and they compare nothing. Calls run one at a time under the interpreter lock, so a step of
one actor is a whole call, except where the code calls back into Python.

What is hard here: *long histories* (which nodes a removal frees depends on every word ever added and
removed; `make_automaton` may run again over the links of earlier builds), *interleaving* of an
iterator or of `save()` with calls that free nodes, *failures* of allocations, of the disk and of
callbacks in the middle of an operation, *damage* to what was kept, and *continuation* of a search over
chunks, where positions, pending outputs and the ownership of letters cross calls of `set()`.
`PROJECT.json` lists each hazard at its line, with the properties that would catch it.

## 2. The modules

| Module | Extends | Models |
|---|---|---|
| `Trie` | | the heap of nodes, `trie.c`, `trienode.c`, and what keeps it a tree |
| `Automaton` | `Trie` | the Automaton object; `make_automaton` one loop turn at a time; the refinement of `Dictionary` |
| `Dictionary` | | the abstract specification: a map from words to values, and what each call returns |
| `Search` | `Trie` | the next state, the next output, and the reference definition of occurrences |
| `Input` | | the struct Input of a string, a ledger of what is held of it; `start` and `end`, and Python's slice |
| `SearchIter` | `Search`, `Input` | `iter()`: `next()`, `set()`, deletion |
| `SearchIterLong` | `Search`, `Input` | `iter_long()`: `next()`, `set()`, deletion |
| `SList` | | `slist.c`, and the sequence a list stands for |
| `ItemsIter` | `Search`, `SList` | `keys()`, `values()`, `items()` |
| `Iterators` | `Automaton`, `Search` | the composition: an automaton, a search iterator, an items iterator and `find_all` with its callback |
| `Pickle` | `Automaton` | `__reduce__` and the constructor, a node at a time |
| `SaveLoad` | `Automaton` | `save()` and `load()`, a node at a time, with the buffer, the file, the serializer and the address map |
| `Persistence` | `Pickle`, `SaveLoad` | the composition: one object that is pickled, or saved, loaded and pickled; the refinement of `StoredDictionary` |
| `StoredDictionary` | `Dictionary` | the abstract specification of a map that can be put aside and brought back |
| `MCAutomaton`, `MCSearch`, `MCSearchLong`, `MCItems`, `MCIterators`, `MCPersistence` | | small instances |
| `TrieProofs` | `Search`, `Input` | growing, cutting and reading a trie; suffixes; the search step; the automaton of a set of words (`Built`); the ledger of letters and the slice |
| `AutomatonProofs` | `Automaton`, `TrieProofs` | the inductive invariant, the types, the tree; `len()`, the version, references, the refinement of `Dictionary`; what holds while memory suffices: the root, the depth, the leaves, the queries; the fail links and the walk of `make_automaton`; the statistics |
| `IteratorsProofs` | `Iterators`, `AutomatonProofs` | what passes the version check is safe and current |
| `ItemsProofs` | `ItemsIter`, `TrieProofs` | the list is a sequence; the walk yields the keys that match, each once |
| `SearchProofs` | `SearchIter`, `TrieProofs` | ownership of the letters; what `iter()` reports |
| `SearchLongProofs` | `SearchIterLong`, `TrieProofs` | ownership, what `iter_long()` reports, the slice |
| `PersistenceLemmas` | `Persistence`, `AutomatonProofs` | the buffer, the file item by item, the stack of frames of `save()`; the parts of the invariant below, and the steps of the automaton, of `__reduce__`, of the constructor and of `save()` |
| `PersistenceProofs` | `PersistenceLemmas` | what happens to the file, and the steps of `load()`; the inductive invariant of an automaton that is pickled, saved and loaded, what follows from it, and the refinement |

How the code became state:

- *Nodes.* A node is named by its path, the word spelled from the root to it. Each child has one
  parent, so the path of a node never changes and names it as well as its address does. `nodes` maps
  the paths of the nodes allocated now to their fields. A pointer is a path, `NULL`, or `FREED`: when a
  node is freed, the fail links to it become `FREED`, and stay so even if a later node gets the same path.
  Nothing in the model needs two nodes with one path; that `next` has one link per letter is checked.
- *Values.* The union `output` holds integers and object pointers. Objects are positive integers
  (addresses), so that 0 is both the integer and `NULL`, as in the C code.
- *References.* `refs[o]` counts the references the trie owns. An iterator's `ledger` counts, for each
  string it was given, copies of the letters and references taken and not given back.
- *`make_automaton`.* `pc` is where the function is, `queue`, `node`, `i`, `state` are its locals. It
  is stepped because its loops are where the order of assignments matters: a fail link must be
  rewritten before it is followed. No other call starts while it runs.
- *The stack of the items iterator* is kept twice: as the linked list of the code (`list`), and as the
  sequence the properties speak of (`stack`); `ListOK` says that they agree.
- *Pickling.* `__reduce__` overwrites each fail field with the address of a `NodeID`; the model does the
  same (`NODEID`), and `dump` holds the `NodeID`s and the arrays. Positions in an array are kept as sizes,
  in units of four bytes, and its contents as records of nodes with numbers for pointers. The constructor
  makes new nodes, whose addresses are `<<j>>` for the j-th.
- *Save and load.* The file is the sequence of the items written to it (header, address, node, links,
  value, footer), each with its size; what is in the buffer and not in the file yet is `output.held`.
  The traversal is a stack of frames, since the serializer may change the trie under it: a frame whose
  node it frees becomes `FREED`. A node is loaded under the path it was saved from; a fail link that
  `load()` does not turn into a pointer of its own process becomes `FREED`. What is loaded takes the place of the automaton.
- *Allocation.* Where `MemoryFails` is true, each allocation of `add_word`, `remove_word`, `pop`,
  `make_automaton`, pickling, saving, loading and the items iterator may fail, with the state the code leaves then.
- *`ASSERT`* fails by ending the process: `pc = "exit"`. A pointer followed to a freed node or `NULL`
  is `pc = "crash"`.
- *History variables* (`found`, `prior`, `regular`, `from`, `alike`, ... in the iterators) record what was
  reported and what text was searched; no action reads them to decide what the code does.

Operators named `X_something` and marked `mutant` are plausible bugs of `X`, kept beside it: with `X`
replaced by its mutant, TLC must find the property it is listed with violated.

## 3. The runs

| Run | Checks | Instance |
|---|---|---|
| `core` | types, tree, dead branches, count, `longest_word`, fail links, the walk of `make_automaton`, statistics, kind and root, queries; nodes freed only under a new version; `make_automaton` returns; the automaton implements `Dictionary` | words b, ab, bb, babb; five versions; `STORE_LENGTH` |
| `memory` | references and `Dictionary` under failing allocations | words a, ab, b; `STORE_ANY` with two objects, `STORE_INTS` |
| `search` | occurrences complete, in order and in place; the state is the longest suffix; letters owned and given back; `next()` returns | 18 sets of words, 4 texts, two calls of `set()` |
| `search_long` | matches do not overlap and are occurrences; leftmost-longest when no word lies inside another, and then all those in the slice `string[start:end]` unless `end` is negative; letters owned and given back; `next()` returns | 31 sets of words, 4 texts, one call of `set()` |
| `items` | the right keys, once, spelled right; the linked list is the stack | the 32 sets of the words a, ab, aab, ba, bab, 7 patterns, 3 wildcards, 3 ways to match |
| `iterators` | what passes the version check is safe and current | words b, ab; four versions; two of the three walkers at a time |
| `persistence` | what comes back from a pickle or a file is the map that was kept, or an exception; failures undo and release everything; arrays and file are well formed and nothing is written behind the buffer; `load()` gives back the automaton node for node; what alone can end the process | words b, ab; `STORE_ANY` with three objects, `STORE_INTS` without 0; arrays of 20 units, a buffer of 14; objects that serialize to 1, 16 and 0 units; one damage |

The bounds. The four words of `core` give a node with two children, a word that is a prefix of another,
a tail of two nodes to free, and fail links that lead to words. A life of five versions is enough to add three words, build,
remove one and build again over links to freed nodes. `MaxVersion` bounds the calls that raise
the version; calls that do not are unbounded. A search that has ended is asked again once (`search`), or until
`index` is behind the string (`search_long`). In `search` a text of at most three letters joins with
two further chunks to nine, longer than every word, so that a word can span three chunks; w is white
space; only the first call of `set()` is refused. The words of `items` make a trie that branches below its root, so
that an allocation may fail when some children of a node are on the stack and others not. Strings with an a are stored with four bytes per
letter, the others are copied. In `search_long` the arguments of `iter_long` run from two below minus the
length to one above it. In `iterators` a removal of ab frees two nodes, one of which the state of a search may be, and
its fail link leads to the other word.

In `persistence` the same words give four nodes of two sizes: the largest has 12 units, so an array of
20 holds the counter and one or two of them, and a smaller trie takes a single array. The buffer of 14
units holds the header and nothing more, or an address and a node, or is passed by a value of 16; every
way to meet its end happens within one trie. The automaton is pickled once or saved once, in any state
that calls can leave, including after failed ones; the serializer makes one call that adds or removes
nodes; the pickle is cut at any place after the counter of an array, or loses its last array or value;
the file is cut between any two items, or has one address altered to one of no node. A disk that is full refuses a write
at once, or loses it at `fclose`. What was loaded may be changed up to version 1 and is pickled as it came.
Deadlock is not checked in any run: an exhausted iterator whose
calls of `set()` are used up, a crashed process, and a version at its bound really stop.

Fairness. `core` assumes weak fairness of `MakeStep`, `search` and `search_long` of the steps inside
`next()`: a call that has started is a C function that runs on, with no other call in between. Nothing
is assumed of callers.

Five more runs have a property that the documentation, an assertion or a comment states, and that the
code does not keep; the findings in `PROJECT.json` quote both.

| Run | What it shows |
|---|---|
| `remove_zero` | a word whose value is the integer 0 is removed, but `remove_word` answers False and `len()` still counts it |
| `first_word_no_memory` | `add_word` that runs out of memory on the first word leaves a root under `kind` EMPTY, and the next one aborts |
| `longest` | `iter_long` of the words b and aba over aba reports b only |
| `slice` | `iter_long` with a negative `end` leaves out the last letter of `string[start:end]`: b is not found in ba with an `end` of -1 |
| `set_mixed` | after `set()` from a string that was copied to one read in place, or back, the letters of one are released by the rule of the other |

The first is why `core` stores lengths, `memory` and `persistence` no zero, and why some theorems assume `0 \notin Ints`.
`LongestIfNotNested` is what remains true of `iter_long`: no word inside another, other than as its
prefix or suffix, and it is leftmost-longest. `ReleasedUnlessMixed` is what remains of `InputReleased`, and
`SliceUnlessNegative` of `SliceOK`: the slice is the documented one for every `start` and every `end` that is not negative, or not given.

Other properties name their exceptions, each a place where the code gives way:

- `SafeUnlessChanged`: a callback of `find_all` that changes the set of words makes it go on with freed
  nodes, where a loop on `iter()` would raise ValueError.
- `SafeUnlessMisused`: `__reduce__` reads the number of a node through fail links
  (`Automaton_pickle.c:171`), which lead to freed nodes after `make_automaton` and `remove_word`, and into
  another process in a TRIE that `load()` made (`module_automaton_load.c:233`); if the list of values cannot
  be made, `bytes_list` is released twice; and a serializer that changes the automaton pulls the nodes from under `save()`.
- `StoredDictionary`: a save that succeeds may still have lost the map if the disk was full and only
  `fclose` knew, if the serializer changed the map, or if it made an empty value, which `load()` refuses.
- `RoundTrip`: an automaton without words comes back as a new one, since `__reduce__` drops its store.
- `Dictionary`: `pop()` of an integer other than 0 hands it to the interpreter as the address of an object (`Automaton.c:366`; `remove_word` has
  the test of `store` that `pop` lacks, `Automaton.c:337`), against `docs/automaton_pop.rst:4`. It is the action `automaton_pop_crashes`,
  which ends the process; the map is as before.
- `QueriesOK`: `longest_prefix` of an automaton without a root (nothing was ever added, or after `clear`) ends the process. `trie_longest`
  hands the root that is NULL to `trienode_get_next` (`trie.c:166`), whose `ASSERT` (`trienode.c:48`) fails, as `DEBUG` is defined
  (`common.h:21`); `docs/automaton_longest_prefix.rst:4` promises a length. The other queries answer in that state too. The property says so for every word.

## 4. The proofs

The assumptions on constants, all evaluated by the runs: NULL and FREED are not paths (`PointerAssumption`); words
are non-empty and objects positive (`ConstantAssumption`); the sets of words searched are finite, without the empty
word (`DictionaryAssumption`); texts and patterns are sequences of letters, white space or wildcards
(`TextsAssumption`, `TextAssumption`, `PatternAssumption`); `set()` is called a finite number of times
(`InputAssumption`); the address of an item is not that of nothing (`ItemAssumption`);
an array of a pickle holds its counter and the largest node there can be, and a `NodeID` is not a node (`PickleAssumption`: the code has 16 MB
against nodes of at most 2^32 links, so the assumption leaves out alphabets that do not fit); the buffer of `save()` holds more than the header,
the serializer makes a value of some size of each object (`SaveAssumption`), and what a lost file
stands for is not a map (`LostAssumption`). What else a theorem needs is its hypothesis.

| Theorem | States | If |
|---|---|---|
| `TypeCorrect`, `TreeCorrect` | `Spec => []TypeOK`, `[]TreeOK` | |
| `RefsCorrect` | `Spec => []RefsOK` | |
| `CountCorrect`, `FreeingCorrect` | `Spec => []CountOK`, `FreeingBumpsVersion` | `0 \notin Ints` |
| `Refinement` | `Spec => Dictionary` | `0 \notin Ints` |
| `EmptyCorrect`, `LongestWordCorrect`, `NoDeadBranchCorrect`, `QueriesCorrect` | `Spec => []EmptyOK`, ... | `~MemoryFails` |
| `WalkCorrect` | `Spec => []WalkOK` | |
| `FailsCorrect`, `AutomatonMade` | `Spec => []FailsOK`; an automaton of that kind satisfies `IsAutomaton` | `~MemoryFails` |
| `StatsCorrect` | `Spec => []StatsOK` | `~MemoryFails`, `0 \notin Ints` |
| `ValidSafe`, `ValidCurrent`, `FindSafe` | `SpecIterators => []ValidIsSafe`, `[]ValidIsCurrent`, `[]SafeUnlessChanged` | `~MemoryFails`, `0 \notin Ints` |
| `NextStateCorrect`, `NextOutputCorrect` | one search step, and the search for an output, are the textbook's | `IsAutomaton` |
| `FoundCorrect`, `StateCorrect` | `Spec => []FoundOK`, `[]StateOK` of `iter()` | |
| `MatchesCorrect`, `LongestCorrect` | `Spec => []MatchesOK`, `[]LongestIfNotNested` of `iter_long()` | |
| `InputsReleased`, `LongInputsReleased` | `Spec => []ReleasedUnlessMixed` of either search iterator | |
| `SliceSearched` | `Spec => []SliceUnlessNegative` of `iter_long()` | |
| `SliceCorrect` | for all integers `start` and `end`: what they select | |
| `KeysCorrect`, `OnceCorrect`, `ListCorrect` | `Spec => []KeysOK`, `[]NoKeyTwice`, `[]ListOK` of the items iterator, also when memory fails | |
| `PersistentRefs`, `SafeUnlessMisusedCorrect` | `SpecPersistence => []RefsOK`, `[]SafeUnlessMisused` | |
| `ReduceRestored`, `NothingIsLeft` | `SpecPersistence => ReduceRestores`, `[]NothingLeft` | |
| `FileCorrect`, `LoadCorrect`, `LoadLeaves` | `SpecPersistence => []FileOK`, `LoadRestores`, `[]LoadLeavesNothing` | |
| `StoredRefinement` | `SpecPersistence => StoredDictionary` | `0 \notin Ints` |
| `AppendCorrect`, `PushFrontCorrect`, `PopFirstCorrect`, `DeleteCorrect` | the list operations are those of sequences | |

*The trie.* `TrieProofs` first replaces the definitions by their shape: `GrowShape` says that
`trie_add_word` adds exactly the missing nodes on the path and one link to each, and `UnlinkShape`
that `trie_remove_word` takes away exactly the tail and the one link to it. From the shapes,
`GrowTree` and `UnlinkTree` derive that a tree stays a tree. The heart is `TailClosed`: every node of
the freed tail has no link but to the next one of the tail, because a node with another child, or a
key, would have been the last multiway node. `ReachesNode` and `FindsNode` say that in a tree the walk
over links finds just the nodes there are.

*The invariant.* `IInv` adds to `TypeOK` and `TreeOK` what they need to be inductive: the locals of
`make_automaton` name nodes that exist (`FrameOK`), any kind but EMPTY has a root (`RootOK`; the
converse fails without memory, see `first_word_no_memory`), and `count` is at least the number of keys
(`EnoughCount`), so that it is not decremented below zero. It is *at least* because a removed 0 is not
counted down. `NextInvariant` has one lemma per operation; all steps of `make_automaton` that stay in it
go through `FrameInvariant`.

*Count, references, map.* `CountInv` adds to `IInv` that no stored value is 0: it is the value that
decides whether `remove_word` counts and raises the version. One step then gives `CountCorrect` and
`FreeingCorrect` (`CountNext`). `RefsInv` adds that a key of a STORE_ANY trie holds an object
(`ObjectsOK`), so that each release and retain is one of a set of keys that changes by one member.
`DictInv` adds to `CountInv` that every key is one of the words; `DictNext` has one case per operation,
each mapped to a step of `Dictionary`, a failed call to `OutOfMemory` or to no change.

*Shape.* `ShapeInv` is `IInv` with `EmptyOK`, `LongestWordOK` and `NoDeadBranch`: the leaves that cutting
a tail leaves behind are keys because the last multiway node is one or has another child. `QueriesOK`
follows from it without another induction, in the states without a root as well, where `longest_prefix` is the exception it names.

*Fail links.* While `make_automaton` runs, the queue is in level order: two levels at most, the deeper
after the shallower (`LevelOrder`). Every node either has its link (`FailNode`: to its longest proper
suffix that is a node), or hangs from a node that is queued or from the one at hand over a letter not yet
done (`Covered`); so every node shallower than the one at hand has its link. The state of the inner
walk is a suffix of the node, and no longer suffix goes on over the letter, so where the walk
stops is the link of the child (`WalkEnds`), and where it goes on it follows a link of this run
(`WalkGoesOn`), never one to `NULL` or a freed node. That is `FailsInv`; it needs no assumption. It gives
`WalkCorrect`, and when the queue is empty nothing is left but nodes that have their links.
After that, `FailsOK` is kept by what leaves the kind alone, unless an `add_word` that
fails leaves nodes behind: hence `~MemoryFails`.

*Statistics.* `get_stats` reads nothing but what a step that keeps the version keeps: the nodes, their links and
which of them are keys (`SameLinks`, `SameVersion`). So the cache, which is never of a version to come, stays right
until the version moves (`StatsInv`). A removed 0 frees nodes under the old version, and so does a failed `add_word`
add some: hence both hypotheses.

*Iterators.* `VersionStep` says the same of a step of the automaton: the version never falls, and while it stays,
the nodes, keys and fail links stay. `IterInv` says of each walker that its version is not ahead of the automaton's,
so that one that is out of date never becomes valid again; and that a valid one stands on live nodes of a linked automaton, over the
words it was made for. While a callback of `find_all` runs, the node it reports from exists if the version is still that of the call.

*The search.* Over such an automaton the chain of fail links from a node visits, longest first, exactly the
suffixes of its path that are nodes, and ends at `NULL` (`VisitedAll`; `Back` is such a chain by
`BackChain`, an induction by the least counterexample over the length). The first one that has a given
property is therefore the longest (`FirstHit`). With the property of going on over a letter this is
`NextStateCorrect`; with the property of being a key it is `NextOutputCorrect`. `BuiltAutomaton` says that `Built(words)`, which the
iterators search, is such an automaton of these words.

*What `iter()` finds.* `SearchInv`: the state is the longest suffix of the letters read; what was reported are exactly the
occurrences that end in a letter read, except, at the last letter, those not longer than the output to go on from
(`Reported`); and they are in order. Reading a letter adds the occurrences that end in it, all of them outputs of the new state; reporting
an output moves on to the next shorter one, and between two outputs of a chain no other word ends
(`NextOutputCorrect`). White space is skipped in the text as in the reference.

*What `iter_long()` finds.* `LongInv`: the state and the saved word are what was last read, and neither begins
before the end of the last match; so every report is an occurrence behind the one before, whatever the words.
For `LongestCorrect` no word may lie inside another, other than as its prefix or suffix: then no fail link of a node
that is not a word leads to a word (`NoSuffix`), so that the early report of `OutputSuffix` never happens, and a
word that begins where the search has passed cannot lie on the path (`NothingInside`). `GreedyInv`: what was
reported, followed by the reference from the place behind the last match, is the reference; nothing begins between that
place and the path of the state (`Skipped`); and the saved word is the longest on the path (`Best`). Going down
keeps it (`BestDown`); at a fail link the places left behind begin no word, since such a word would make its
beginning, a longer suffix of the path, a node (`BackSkips`); where the search stops at a saved word it is the next match
of the reference (`BestMatches`). `ScanSteps` unfolds the reference, a recursive function over the places of the text, which it constructs
by induction from the end.

*The slice.* As long as `set()` was not called, no text was read before the string given to `iter_long`, of which the letters from `from` to `end` are searched,
or none if `from` is behind `end` (`FirstInv`).
If arguments without a negative `end` give these bounds, they are those of `string[start:end]` (`AskedBounds`, from `SliceCorrect`). So what `LongestCorrect` says
was found by the end is what there is in that slice (`LongestInSlice`): `SliceSearched`.

*The items.* `ItemsInv`: the nodes on the stack lie side by side in the trie, the deeper first; so no key is under
two of them and none of them is under a key that was yielded. Every key still to come is under one of them, unless memory
failed. The key buffer spells the path to the parent of each node waiting: the node on top is at
least as deep as all others, and what it overwrites is deeper than their parents.

*Ownership.* `OwnInv` says which strings are held, and by how many copies and references; it needs that
while strings are stored alike the flag `is_copy` is the one each of them requires (`FlagFits`), that the
string being searched was not refused, and that nothing is held of strings still to come.

*Pickling.* `__reduce__` keeps its numbers in the fail links, so the automaton's own invariants fail while it runs. `CoreOK` says them of
`heap`, the nodes as callers know them: `nodes` when nothing is pickled, else the nodes there were before. `DumpOK` says that the two differ in the nodes that have a
`NodeID` and nowhere else, that the `NodeID` holds the old link, and (`NumberedOK`) that those are the nodes between two places of the traversal, which are the same
two that the running loop counts by; so a loop that puts links back ends with none overwritten (`ReduceRestored`), wherever the failure came. `ConstructorOK` counts nodes and
values taken by the constructor (`Taken`), of which the path for errors releases as many. The only links to a freed node are those that
`CoreOK` allows to a TRIE: that is `SafeUnlessMisused`.

*Saving.* `SaveOK` says of the file and the buffer together (`Written`) that they are a sequence of blocks, each the address of a node, its fields, its links and its value
(`WrittenOK`), whole but for one that the serializer interrupts (`OpenOK`); that the stack of frames is a path from the root (`StackOK`); and that the blocks
written are those of all nodes but the ones `Waiting` below the frames. So when the stack is empty there is a block of every node, and the parents
come before their children. That is said only while the serializer leaves the automaton alone. What must hold even if it does not is
`FramesOK`: frames stand on live or freed nodes, and what is in the buffer fits, since each piece is flushed, or goes past the buffer, if it does not.

*Loading.* `LoadingOK` says that the entries made are the blocks read so far, that as many nodes and values are held as there are entries, and that the position is at the
beginning of a block. An address in the file that was altered (the model has only those altered to addresses of no node) is of no block (`NodeToken`, `LinksToken`), so it is found when the pointers are set, and
otherwise each node is loaded as it was written: `Becomes` puts this together with `WrittenOK` to give `LoadCorrect`.

*The map that is stored.* `StoredRefinement` maps `saved` to the map that the file stands for, or to `Lost` if the file is not whole, was damaged, or has
an empty value. Calls on the automaton go over from `Refinement`, since they leave the file alone or overwrite it. What the rest needs is in `MapInv`: a file with a footer lost nothing on
the way, and if it was damaged since then it has an address that is of no node (`ShapeOK`); an error was met wherever a write was lost before the end (`WritingOK`);
what `load()` has passed is in its table (`ReadOK`). The two sides of `load()` follow. If it returns, it has met every block up to the
footer (`AllMet`), so an empty value would have been refused and an altered address found unknown; hence the file was whole and the map is the one saved
(`LoadCorrect`). If it raises because of the file, it met the end too early, an empty value or an unknown address, and each of them is a
reason for which the map was lost already. Without `0 \notin Ints` a removed 0 is not counted, as in `Refinement`.

What only TLC checks: liveness (`MakeAutomatonReturns`, `NextReturns`), which is beyond the provers; and `ChunksOK` and `RoundTrip`, which add up sizes and numbers of nodes over the
arrays of a pickle with the folds of the library, recursive definitions that need induction over data.

## 5. Not modelled

- Keys that are sequences of numbers, arguments of the wrong type, and a copy of a string's letters that cannot be allocated
  (`PyUnicode_AsUCS4Copy`, unchecked at `utils.c:164`). `iter()` takes `start` and `end` unchecked; its model starts from slices within the string.
- Pickling: numbers altered inside a node, and the reference counts of the lists that `__reduce__` makes.
- Saving: a write of which a part reaches the disk is a write that was lost and a file that is cut. `load()` of a file whose node has a wrong
  number of links, or whose values have a wrong size. An address in the file that is altered to the one of another node: there is no checksum,
  and `load()` would take it, so what `LoadRestores` and `StoredDictionary` say of damage is said of addresses of no node. A file that
  cannot be opened or read: `load()` raises before it has made anything. The Automaton object that a failed `load()` leaks
  (`module_automaton_load.c:35`) owns nothing.
- The value that `get` returns, which under `STORE_INTS` and `STORE_LENGTH` goes through a C `int` (`Automaton.c:528`) and loses what does not fit; only whether
  a word is found is modelled.
- A destructor of a stored object that calls the automaton while `add_word` or `clear` runs.
- `dump()`, `__sizeof__`, `loadbuffer_dump`, the bytes and UCS-2 builds: formatting or data, no control.
- `src/etc/py`: a separate implementation in Python. `pycallfault`: the test instrument whose effect is `MemoryFails`.

## 6. What could follow

1. Destructors as a second actor inside `add_word` and `clear`.
2. More kinds of damage to a pickle and to a file (section 5): numbers altered inside a node, values of a wrong size.
