----------------------------- MODULE SearchIter -----------------------------
(***************************************************************************)
(* The iterator returned by Automaton.iter (src/src/AutomatonSearchIter.c) *)
(* over an automaton that does not change: next() reports the occurrences  *)
(* of the words one by one, set() gives it another string, to go on with   *)
(* (a text searched in chunks) or to start over with, until the iterator   *)
(* itself is deleted.  What happens when the automaton changes under the   *)
(* iterator is in module Iterators.                                        *)
(***************************************************************************)
EXTENDS Search, Input

CONSTANTS Dictionaries,  \* the sets of words searched for
          Texts,         \* the strings given to iter() and to set()
          White          \* the white-space letter

\* add_word refuses the empty word; an automaton holds finitely many words.
ASSUME DictionaryAssumption ==
    \A D \in Dictionaries : IsFiniteSet(D) /\ D \subseteq Seq(Letters) \ {<<>>}
ASSUME TextsAssumption == Texts \subseteq Seq(Letters \cup {White})

VARIABLES
    words, nodes,        \* the automaton
    input, index, end, shift, ignore_white_space, state, output,  \* the iterator
    buffer,              \* iter->input: whose letters are read, and by which rule released
    ledger,              \* what the iterator holds of the strings it was given
    pc,                  \* "idle" between calls, "next" inside next(), "deleted"
    start,               \* history: where the current string is searched from
    prior, base,         \* history: the <<position, letter>>s of earlier chunks, their length
    found,               \* history: what next() reported since the last reset
    regular,             \* history: set() was only called before or right after a full search
    alike,               \* history: the strings so far are stored as the first one
    refused,             \* history: the strings that set() did not accept
    sets                 \* number of set() calls so far

owned == <<buffer, ledger, alike, refused>>
iter == <<input, index, end, shift, state, output>>
history == <<start, prior, base, found, regular, sets>>
vars == <<words, nodes, ignore_white_space, iter, owned, pc, history>>

(***************************************************************************)
(* automaton_iter and automaton_search_iter_new.  index is that of the     *)
(* last letter read, so it starts one before `start'.                      *)
(***************************************************************************)
Init ==
    /\ words \in Dictionaries /\ nodes = Built(words)
    /\ input \in Texts
    /\ end \in 0..Len(input) /\ start \in 0..end
    /\ index = start - 1
    /\ ignore_white_space \in BOOLEAN
    /\ state = Root /\ output = NULL /\ shift = 0
    /\ buffer = pymod_get_string(input, 0) /\ ledger = prepare_input(Nothing, buffer)
    /\ pc = "idle" /\ alike = TRUE /\ refused = {}
    /\ prior = <<>> /\ base = 0 /\ found = <<>> /\ regular = TRUE /\ sets = 0

CallNext ==
    /\ pc = "idle" /\ index <= end
    /\ pc' = "next"
    /\ UNCHANGED <<words, nodes, ignore_white_space, iter, owned, history>>

(***************************************************************************)
(* automaton_build_output found a word: next() returns it.                 *)
(***************************************************************************)
ReportIndex_no_shift == index                                      \* mutant
ReportIndex == index + shift

AfterOutput(p) == nodes[p].fail

Report ==
    LET p == NextOutput(nodes, output)
    IN  /\ pc = "next" /\ p # NULL
        /\ found' = IF regular THEN Append(found, <<ReportIndex, p>>) ELSE found
        /\ output' = AfterOutput(p)
        /\ pc' = "idle"
        /\ UNCHANGED <<words, nodes, ignore_white_space, input, index, end, shift, state, owned,
                       start, prior, base, regular, sets>>

(***************************************************************************)
(* Otherwise next() reads a letter, after skipping white space if asked    *)
(* to, and looks for outputs again; past `end' it stops.                   *)
(***************************************************************************)
NextIndex_stays == IF index < 0 THEN 0 ELSE index                  \* mutant
NextIndex ==
    IF ignore_white_space /\ index + 1 < end
    THEN Min({end} \cup {j \in (index + 1)..(end - 1) : input[j + 1] # White})
    ELSE index + 1

Advance ==
    /\ pc = "next" /\ NextOutput(nodes, output) = NULL /\ NextIndex < end
    /\ index' = NextIndex
    /\ state' = ahocorasick_next(nodes, state, input[NextIndex + 1])
    /\ output' = state'
    /\ UNCHANGED <<words, nodes, ignore_white_space, input, end, shift, owned, pc, history>>

Stop ==
    /\ pc = "next" /\ NextOutput(nodes, output) = NULL /\ NextIndex >= end
    /\ index' = NextIndex
    /\ output' = NULL
    /\ pc' = "idle"
    /\ UNCHANGED <<words, nodes, ignore_white_space, input, end, shift, state, owned, history>>

(***************************************************************************)
(* The letters searched in a string up to each position, with their places *)
(* in the whole text: those from position `from' on, `before' letters of   *)
(* other chunks coming before the string, without white space if `skip'.   *)
(***************************************************************************)
Kept(text, from, before, skip) ==
    LET kept[k \in 0..Len(text)] ==
            IF k = 0 THEN <<>>
            ELSE IF k <= from \/ (skip /\ text[k] = White) THEN kept[k - 1]
            ELSE Append(kept[k - 1], <<before + k - 1, text[k]>>)
    IN  kept

\* Of the current string: all that is searched, and what was read of it so far.
Passed == IF index >= end THEN end ELSE index + 1
Current == Kept(input, start, base, ignore_white_space)[end]
CurrentRead == Kept(input, start, base, ignore_white_space)[Passed]

\* The current string was not read at all, or was read to its end and no further.
Fresh == index = -1 /\ start = 0
Drained == index = end /\ NextOutput(nodes, output) = NULL

Forget == prior' = <<>> /\ base' = 0 /\ found' = <<>>

(***************************************************************************)
(* set(string, reset): the position reached is added to shift, unless the  *)
(* search is to start over.                                                *)
(***************************************************************************)
Set(text) ==
    LET new_input == pymod_get_string(text, sets + 1)
    IN  /\ pc = "idle" /\ sets < MaxSets /\ sets' = sets + 1
        /\ ledger' = Replaced(ledger, buffer, new_input)
        /\ buffer' = assign_input(buffer, new_input)
        /\ alike' = (alike /\ new_input.is_copy = buffer.is_copy)
        /\ input' = text /\ end' = Len(text) /\ index' = -1 /\ start' = 0
        /\ UNCHANGED <<words, nodes, ignore_white_space, refused, pc>>

Shifted == shift + (IF index >= 0 THEN index ELSE 0)

automaton_search_iter_set(text) ==
    /\ Set(text)
    /\ shift' = Shifted
    /\ UNCHANGED <<state, output>>
    /\ \/ regular /\ Fresh
          /\ UNCHANGED <<prior, base, found, regular>>
       \/ regular /\ Drained
          /\ prior' = prior \o Current /\ base' = base + end
          /\ UNCHANGED <<found, regular>>
       \/ ~(regular /\ (Fresh \/ Drained))
          /\ Forget /\ regular' = FALSE

automaton_search_iter_set_reset(text) ==
    /\ Set(text)
    /\ state' = Root /\ shift' = 0 /\ output' = NULL
    /\ Forget /\ regular' = TRUE

\* The argument `reset' has no truth value: set() raises and forgets the new input.
\* Bound: only the first call is refused.
automaton_search_iter_set_refused(text) ==
    /\ pc = "idle" /\ sets = 0 /\ sets < MaxSets /\ sets' = sets + 1
    /\ ledger' = prepare_input(ledger, pymod_get_string(text, sets + 1))
    /\ refused' = refused \cup {sets + 1}
    /\ UNCHANGED <<words, nodes, ignore_white_space, iter, buffer, alike, pc, start, prior, base,
                   found, regular>>

automaton_search_iter_del ==
    /\ pc = "idle"
    /\ ledger' = destroy_input(ledger, buffer)
    /\ pc' = "deleted"
    /\ input' = <<>> /\ index' = -1 /\ end' = 0 /\ shift' = 0 /\ state' = Root /\ output' = NULL
    /\ start' = 0 /\ Forget /\ regular' = FALSE
    /\ UNCHANGED <<words, nodes, ignore_white_space, buffer, alike, refused, sets>>

Next ==
    \/ CallNext \/ Report \/ Advance \/ Stop
    \/ \E text \in Texts :
        \/ automaton_search_iter_set(text) \/ automaton_search_iter_set_reset(text)
        \/ automaton_search_iter_set_refused(text)
    \/ automaton_search_iter_del

Spec == Init /\ [][Next]_vars /\ WF_vars(Report \/ Advance \/ Stop)

-----------------------------------------------------------------------------
\* All the letters searched since the last reset, and those of them read so far.
Whole == prior \o Current
Read == prior \o CurrentRead

TextOf(letters) == [k \in DOMAIN letters |-> letters[k][2]]

Expected == {<<Whole[m[1] + 1][1], m[2]>> : m \in Occurrences(words, TextOf(Whole))}

\* The order of reports: by end position, the longer word first.
Earlier(m, n) == m[1] < n[1] \/ (m[1] = n[1] /\ Len(m[2]) > Len(n[2]))

(***************************************************************************)
(* However the text is cut into chunks, wherever the first one starts and  *)
(* ends, and whatever was abandoned before a reset, the search reports     *)
(* every occurrence of every word in the text once, by end position and    *)
(* then longest first, at its position in the whole text.                  *)
(***************************************************************************)
FoundOK ==
    regular =>
        /\ ToSet(found) \subseteq Expected
        /\ \A j, k \in DOMAIN found : j < k => Earlier(found[j], found[k])
        /\ \A m \in Expected \ ToSet(found) : \A k \in DOMAIN found : Earlier(found[k], m)
        /\ Drained => ToSet(found) = Expected

(***************************************************************************)
(* The state is the longest suffix of the letters read that begins a word: *)
(* following fail links loses no partial match, also across chunks.        *)
(***************************************************************************)
StateOK ==
    LET read == TextOf(Read)
    IN  regular => state = Suffix(read, Max({k \in 0..Len(read) : Suffix(read, k) \in DOMAIN nodes}))

(***************************************************************************)
(* As long as it lives the iterator owns the letters it reads, a copy or a *)
(* reference to the string, and of the strings before nothing; when it is  *)
(* deleted nothing is left.  Nothing is given back that was not taken: a   *)
(* reference, where the letters are a copy ("No INCREF - we have our copy",*)
(* utils.c:167), or the letters of a string as if they were a copy.  Left  *)
(* aside are strings that set() refused: they are never given back.        *)
(***************************************************************************)
InputReleased ==
    LET owed == IF pc = "deleted" THEN Nothing
                ELSE prepare_input(Nothing, pymod_get_string(input, buffer.word))
    IN  \A k \in (0..sets) \ refused :
            ledger.copies[k] = owed.copies[k] /\ ledger.references[k] = owed.references[k]

\* Strings that are stored alike are owned as they should be.
ReleasedUnlessMixed == alike => InputReleased

\* Every call of next() returns.
NextReturns == pc = "next" ~> pc = "idle"
=============================================================================
