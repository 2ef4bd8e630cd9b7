--------------------------- MODULE SearchIterLong ---------------------------
(***************************************************************************)
(* The iterator returned by Automaton.iter_long                            *)
(* (src/src/AutomatonSearchIterLong.c), over an automaton that does not    *)
(* change: a search that starts over after each match it reports.          *)
(***************************************************************************)
EXTENDS Search, Input

CONSTANTS Dictionaries,  \* the sets of words searched for
          Texts          \* the strings given to iter_long() and to set()

\* add_word refuses the empty word; an automaton holds finitely many words.
ASSUME DictionaryAssumption ==
    \A D \in Dictionaries : IsFiniteSet(D) /\ D \subseteq Seq(Letters) \ {<<>>}
ASSUME TextsAssumption == Texts \subseteq Seq(Letters)

VARIABLES
    words, nodes,        \* the automaton
    input, index, end, shift, state, last_node, last_index,  \* the iterator
    buffer,              \* iter->input: whose letters are read, and by which rule released
    ledger,              \* what the iterator holds of the strings it was given
    pc,                  \* "idle", "next" in next(), "back" in its inner loop, "deleted"
    from, prior,         \* history: where the whole text is searched from, its earlier chunks
    found,               \* history: what next() reported since the last reset
    regular,             \* history: set() was only called after a full search
    alike,               \* history: the strings so far are stored as the first one
    refused,             \* history: the strings that set() did not accept
    sets                 \* number of set() calls so far

owned == <<buffer, ledger, alike, refused>>
iter == <<input, index, end, shift, state, last_node, last_index>>
history == <<from, prior, found, regular, sets>>
vars == <<words, nodes, iter, owned, pc, history>>

(***************************************************************************)
(* automaton_iter_long(text, ...) searches the slice that its optional     *)
(* arguments select, if they are not refused.  A start behind the end is   *)
(* accepted: nothing is searched then.                                     *)
(***************************************************************************)
automaton_iter_long(text, start, finish) ==
    \E args \in Arguments(Len(text)) :
        pymod_parse_start_end(args, Len(text)) = Bounds(start, finish)

Init ==
    /\ words \in Dictionaries /\ nodes = Built(words)
    /\ input \in Texts
    /\ from \in 0..Len(input) /\ end \in 0..Len(input)
    /\ automaton_iter_long(input, from, end)
    /\ index = from - 1 /\ shift = 0
    /\ state = Root /\ last_node = NULL /\ last_index = -1
    /\ buffer = pymod_get_string(input, 0)
    /\ ledger = prepare_input(Py_INCREF(Nothing, 0), buffer)
    /\ pc = "idle" /\ alike = TRUE /\ refused = {}
    /\ prior = <<>> /\ found = <<>> /\ regular = TRUE /\ sets = 0

Letter == input[index + 1]
Linked(p) == trienode_get_next(nodes, p, Letter)

\* A match is reported, and the search starts over behind it.
StartOver_keeps_state == UNCHANGED state                           \* mutant
StartOver == state' = Root

Report(last, p) ==
    /\ found' = IF regular THEN Append(found, <<shift + last, p>>) ELSE found
    /\ StartOver /\ index' = last
    /\ last_node' = NULL /\ last_index' = -1
    /\ pc' = "idle"
    /\ UNCHANGED <<words, nodes, input, end, shift, owned, from, prior, regular, sets>>

Output == Report(last_index, last_node)

\* Bound: a search that has ended is asked again until index is behind the string.
CallNext ==
    /\ pc = "idle" /\ index <= Len(input)
    /\ IF last_node # NULL THEN Output
       ELSE /\ index' = index + 1 /\ pc' = "next"
            /\ UNCHANGED <<words, nodes, input, end, shift, state, last_node, last_index,
                           owned, history>>

(***************************************************************************)
(* One turn of the main loop.  A word on the path is saved; a word that    *)
(* only ends here (through the fail link) is reported at once.             *)
(***************************************************************************)
EndsHere(p) ==
    LET f == nodes[p].fail IN f # NULL /\ f # Root /\ nodes[f].eow

Step ==
    /\ pc = "next" /\ index < end /\ Linked(state) # NULL
    /\ state' = Linked(state) /\ index' = index + 1
    /\ IF nodes[state'].eow
       THEN last_node' = state' /\ last_index' = index
       ELSE ~EndsHere(state') /\ UNCHANGED <<last_node, last_index>>
    /\ UNCHANGED <<words, nodes, input, end, shift, owned, pc, history>>

OutputSuffix ==
    /\ pc = "next" /\ index < end /\ Linked(state) # NULL
    /\ LET p == Linked(state)
       IN  ~nodes[p].eow /\ EndsHere(p) /\ Report(index, nodes[p].fail)

\* No link: the saved word is reported, or fail links are followed.
Mismatch ==
    /\ pc = "next" /\ index < end /\ Linked(state) = NULL
    /\ IF last_node # NULL THEN Output
       ELSE pc' = "back" /\ UNCHANGED <<words, nodes, iter, owned, history>>

GoBack_stays_on_letter ==                                          \* mutant
    LET f == nodes[state].fail
    IN  /\ pc = "back"
        /\ IF f = NULL THEN state' = Root /\ index' = index ELSE state' = f /\ index' = index
        /\ pc' = IF f = NULL \/ Linked(f) # NULL THEN "next" ELSE "back"
        /\ UNCHANGED <<words, nodes, input, end, shift, last_node, last_index, owned, history>>

GoBack_to_root ==                                                  \* mutant
    /\ pc = "back"
    /\ state' = Root /\ index' = index + 1
    /\ pc' = "next"
    /\ UNCHANGED <<words, nodes, input, end, shift, last_node, last_index, owned, history>>

GoBack ==
    LET f == nodes[state].fail
    IN  /\ pc = "back"
        /\ IF f = NULL THEN state' = Root /\ index' = index + 1 ELSE state' = f /\ index' = index
        /\ pc' = IF f = NULL \/ Linked(f) # NULL THEN "next" ELSE "back"
        /\ UNCHANGED <<words, nodes, input, end, shift, last_node, last_index, owned, history>>

EndOfString ==
    /\ pc = "next" /\ index >= end
    /\ IF last_node # NULL THEN Output
       ELSE pc' = "idle" /\ UNCHANGED <<words, nodes, iter, owned, history>>

(***************************************************************************)
(* set(string, reset).  Without reset the state is kept, so that a word    *)
(* may begin in one string and end in the next.                            *)
(***************************************************************************)
Chunk == SubSeq(input, 1, end)
Drained == index = end /\ from <= end

Forget == from' = 0 /\ prior' = <<>> /\ found' = <<>>

\* iter->object gives up the old string and keeps the new one, besides the input.
Set(text) ==
    LET new_input == pymod_get_string(text, sets + 1)
    IN  /\ pc = "idle" /\ sets < MaxSets /\ sets' = sets + 1
        /\ ledger' = Replaced(Py_INCREF(Py_DECREF(ledger, buffer.word), sets + 1),
                              buffer, new_input)
        /\ buffer' = assign_input(buffer, new_input)
        /\ alike' = (alike /\ new_input.is_copy = buffer.is_copy)
        /\ input' = text /\ end' = Len(text) /\ index' = -1
        /\ UNCHANGED <<words, nodes, refused, pc>>

Shifted == shift + (IF index >= 0 THEN index ELSE 0)

automaton_search_iter_long_set(text) ==
    /\ Set(text)
    /\ shift' = Shifted
    /\ UNCHANGED <<state, last_node, last_index>>
    /\ IF regular /\ Drained
       THEN prior' = prior \o Chunk /\ UNCHANGED <<from, found, regular>>
       ELSE Forget /\ regular' = FALSE

automaton_search_iter_long_set_reset(text) ==
    /\ Set(text)
    /\ state' = Root /\ shift' = 0 /\ last_node' = NULL /\ last_index' = -1
    /\ Forget /\ regular' = TRUE

\* The argument `reset' has no truth value: set() raises and forgets the new input.
automaton_search_iter_long_set_refused(text) ==
    /\ pc = "idle" /\ sets < MaxSets /\ sets' = sets + 1
    /\ ledger' = prepare_input(ledger, pymod_get_string(text, sets + 1))
    /\ refused' = refused \cup {sets + 1}
    /\ UNCHANGED <<words, nodes, iter, buffer, alike, pc, from, prior, found, regular>>

automaton_search_iter_long_del ==
    /\ pc = "idle"
    /\ ledger' = destroy_input(Py_DECREF(ledger, buffer.word), buffer)
    /\ pc' = "deleted"
    /\ input' = <<>> /\ index' = -1 /\ end' = 0 /\ shift' = 0 /\ state' = Root
    /\ last_node' = NULL /\ last_index' = -1
    /\ Forget /\ regular' = FALSE
    /\ UNCHANGED <<words, nodes, buffer, alike, refused, sets>>

Run == Step \/ OutputSuffix \/ Mismatch \/ GoBack \/ EndOfString

Next ==
    \/ CallNext \/ Run
    \/ \E text \in Texts :
        \/ automaton_search_iter_long_set(text) \/ automaton_search_iter_long_set_reset(text)
        \/ automaton_search_iter_long_set_refused(text)
    \/ automaton_search_iter_long_del

Spec == Init /\ [][Next]_vars /\ WF_vars(Run)

-----------------------------------------------------------------------------
WholeText == prior \o Chunk

First(m) == m[1] + 1 - Len(m[2])   \* where a match begins

(***************************************************************************)
(* Each report is an occurrence of a word in the text, at its position in  *)
(* the whole text, and no two overlap, also when a text is searched in     *)
(* chunks ("longest, non-overlapping matches", docs/index.rst:122).        *)
(***************************************************************************)
MatchesOK ==
    regular =>
        /\ ToSet(found) \subseteq Occurrences(words, WholeText)
        /\ \A j \in DOMAIN found :
                First(found[j]) >= IF j = 1 THEN from ELSE found[j - 1][1] + 1

(***************************************************************************)
(* Reference: the leftmost matches, each the longest that begins there,    *)
(* each looked for behind the one before.                                  *)
(***************************************************************************)
Beginning(dictionary, text, s) ==
    {w \in dictionary : <<s + Len(w) - 1, w>> \in Occurrences(dictionary, text)}

Longest(dictionary, text, s) ==
    LET B == Beginning(dictionary, text, s) IN CHOOSE w \in B : \A v \in B : Len(v) <= Len(w)

Leftmost(dictionary, text) ==
    LET scan[s \in 0..Len(text)] ==
            IF s = Len(text) THEN <<>>
            ELSE IF Beginning(dictionary, text, s) = {} THEN scan[s + 1]
            ELSE LET w == Longest(dictionary, text, s)
                 IN  <<<<s + Len(w) - 1, w>>>> \o scan[s + Len(w)]
    IN  scan

LeftmostLongest ==
    IF from > Len(WholeText) THEN <<>> ELSE Leftmost(words, WholeText)[from]

\* The reports in one string are the leftmost longest matches.
LongestOK ==
    regular /\ prior = <<>> =>
        /\ IsPrefix(found, LeftmostLongest)
        /\ pc = "idle" /\ Drained => found = LeftmostLongest

\* A word occurs inside another, neither as its prefix nor as its suffix.
Nested(dictionary) ==
    \E v, w \in dictionary : \E j \in Len(v)..(Len(w) - 2) : Occurs(v, w, j)

(***************************************************************************)
(* What iter_long does give of the longest matches its documentation       *)
(* promises: all of them, provided that no word occurs inside another.     *)
(***************************************************************************)
LongestIfNotNested == Nested(words) \/ LongestOK

(***************************************************************************)
(* As for iter(): a living iterator owns the letters of its string, and a  *)
(* reference to the string besides; a string it has left, or an iterator   *)
(* deleted, owns nothing.  It holds for strings that are stored alike.     *)
(***************************************************************************)
InputReleased ==
    LET owed == IF pc = "deleted" THEN Nothing
                ELSE prepare_input(Py_INCREF(Nothing, buffer.word),
                                   pymod_get_string(input, buffer.word))
    IN  \A k \in (0..sets) \ refused :
            ledger.copies[k] = owed.copies[k] /\ ledger.references[k] = owed.references[k]

ReleasedUnlessMixed == alike => InputReleased

(***************************************************************************)
(* Reference for the optional arguments: the leftmost longest matches that *)
(* begin and end in string[start:end].  The search that runs now may have  *)
(* been asked for with any arguments that give its `from' and `end'.       *)
(***************************************************************************)
MatchesInSlice(args) ==
    LET slice == PythonSlice(args, Len(input))
    IN  IF slice.start > slice.end THEN <<>>
        ELSE Leftmost(words, SubSeq(input, 1, slice.end))[slice.start]

Asked(args) == pymod_parse_start_end(args, Len(input)) = Bounds(from, end)

\* next() has come to the end of the slice of the string given to iter_long().
FirstDrained == sets = 0 /\ pc = "idle" /\ (Drained \/ (from > end /\ index >= from))

(***************************************************************************)
(* iter_long(string, start, end) finds what there is to find in the slice  *)
(* string[start:end] ("to limit the search to an input string slice as in  *)
(* string[start:end]", docs/automaton_iter_long.rst:14), at its positions  *)
(* in the whole string.  Not so where end is negative: the letter before   *)
(* the end is not searched (utils.c:348).                                  *)
(***************************************************************************)
SliceOK ==
    FirstDrained /\ ~Nested(words) =>
        \A args \in Arguments(Len(input)) : Asked(args) => found = MatchesInSlice(args)

(***************************************************************************)
(* What is true of it: the slice is the one documented, and the search     *)
(* neither begins before nor goes on behind it, for every start, also a    *)
(* negative one, and every end that is given and not negative, or not      *)
(* given.  As in LongestIfNotNested no word occurs inside another.         *)
(***************************************************************************)
SliceUnlessNegative ==
    FirstDrained /\ ~Nested(words) =>
        \A args \in Arguments(Len(input)) :
            Asked(args) /\ ~NegativeEnd(args) => found = MatchesInSlice(args)

\* Every call of next() returns.
NextReturns == pc = "next" ~> pc = "idle"
=============================================================================
