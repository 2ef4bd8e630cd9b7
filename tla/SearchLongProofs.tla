-------------------------- MODULE SearchLongProofs --------------------------
(***************************************************************************)
(* The longest-match iterator, for all words, strings and numbers of set() *)
(* calls: the strings it is given are given back; its arguments select the *)
(* slice they should; what it reports are occurrences, one behind the      *)
(* other; and, where no word lies inside another, the leftmost longest.    *)
(***************************************************************************)
EXTENDS SearchIterLong, TrieProofs

\* The references due to a string: one for the iterator, one for the letters unless copied.
Due(copy) == IF copy THEN 1 ELSE 2

Wants(k) == pc # "deleted" /\ k = buffer.word   \* the string k is being searched

(***************************************************************************)
(* The inductive invariant: InputReleased says of the flag is_copy only    *)
(* what the strings require of it, so the invariant adds that, while the   *)
(* strings are stored alike, the flag is the one each of them requires;    *)
(* that the string being searched was not refused; and that nothing is     *)
(* held of the strings still to come.                                      *)
(***************************************************************************)
OwnType ==
    /\ sets \in 0..MaxSets /\ refused \subseteq 1..sets
    /\ buffer \in StructInput /\ buffer.word \in (0..sets) \ refused
    /\ ledger \in Ledger

NothingAhead == \A k \in (sets + 1)..MaxSets : ledger.copies[k] = 0 /\ ledger.references[k] = 0

FlagFits == alike /\ pc # "deleted" => buffer.is_copy = ~PyUnicode_4BYTE_KIND(input)

Balanced ==
    alike => \A k \in (0..sets) \ refused :
                /\ ledger.copies[k] = IF Wants(k) /\ buffer.is_copy THEN 1 ELSE 0
                /\ ledger.references[k] = IF Wants(k) THEN Due(buffer.is_copy) ELSE 0

OwnInv == OwnType /\ NothingAhead /\ FlagFits /\ Balanced

\* The iterator starts out owning its first string.
LEMMA OwnInit == Init => OwnInv
<1> SUFFICES ASSUME Init PROVE OwnInv
    OBVIOUS
<1>1. /\ buffer \in StructInput /\ buffer.word = 0
      /\ buffer.is_copy = ~PyUnicode_4BYTE_KIND(input)
    BY InputAssumption, GetString DEF Init
<1>2. /\ ledger \in Ledger
      /\ \A k \in 0..MaxSets :
            /\ ledger.copies[k] = 0 + IF k = 0 /\ buffer.is_copy THEN 1 ELSE 0
            /\ ledger.references[k] = IF k = 0 THEN Due(buffer.is_copy) ELSE 0
  <2> DEFINE first == Py_INCREF(Nothing, 0)
  <2>1. 0 \in 0..MaxSets /\ Nothing \in Ledger
    BY NothingEmpty, InputAssumption
  <2>2. /\ first \in Ledger /\ first.copies = Nothing.copies
        /\ \A k \in 0..MaxSets :
            first.references[k] = Nothing.references[k] + IF k = 0 THEN 1 ELSE 0
    BY <2>1, Counted
  <2>3. ledger = prepare_input(first, buffer)
    BY DEF Init
  <2> HIDE DEF first
  <2>4. /\ ledger \in Ledger
        /\ \A k \in 0..MaxSets :
            /\ ledger.copies[k] =
                    first.copies[k] + IF k = buffer.word /\ buffer.is_copy THEN 1 ELSE 0
            /\ ledger.references[k] =
                    first.references[k] + IF k = buffer.word /\ ~buffer.is_copy THEN 1 ELSE 0
    BY <2>2, <2>3, <1>1, Prepared
  <2> QED
    BY <2>2, <2>4, <1>1, NothingEmpty DEF Due
<1>3. sets = 0 /\ refused = {} /\ pc = "idle"
    BY DEF Init
<1>4. OwnType
    BY <1>1, <1>2, <1>3, InputAssumption DEF OwnType
<1>5. NothingAhead
    BY <1>2, <1>3, InputAssumption DEF NothingAhead
<1>6. FlagFits
    BY <1>1 DEF FlagFits
<1>7. Balanced
    BY <1>1, <1>2, <1>3, InputAssumption DEF Balanced, Wants, Due
<1> QED
    BY <1>4, <1>5, <1>6, <1>7 DEF OwnInv

\* set(): the new string is taken, the one before given back.
LEMMA SetKeepsOwn ==
    ASSUME OwnInv, NEW text, Set(text)
    PROVE  OwnInv'
<1> DEFINE new == pymod_get_string(text, sets + 1)
<1>1. /\ sets \in Nat /\ sets + 1 \in 0..MaxSets /\ sets' = sets + 1
      /\ pc = "idle" /\ pc' = "idle" /\ refused' = refused /\ input' = text
    BY InputAssumption DEF OwnInv, OwnType, Set
<1>2. /\ new \in StructInput /\ new.word = sets + 1
      /\ new.is_copy = ~PyUnicode_4BYTE_KIND(text)
    BY <1>1, GetString
<1> DEFINE less == Py_DECREF(ledger, buffer.word)
           moved == Py_INCREF(less, sets + 1)
<1>3. /\ ledger' = Replaced(moved, buffer, new)
      /\ buffer' = [buffer EXCEPT !.word = new.word]
      /\ alike' = (alike /\ new.is_copy = buffer.is_copy)
    BY DEF Set, assign_input
<1> HIDE DEF new
<1>4. /\ ledger' \in Ledger
      /\ \A k \in 0..MaxSets :
            /\ ledger'.copies[k] = ledger.copies[k] +
                    (IF k = new.word /\ new.is_copy THEN 1 ELSE 0) -
                    (IF k = buffer.word /\ buffer.is_copy THEN 1 ELSE 0)
            /\ ledger'.references[k] = ledger.references[k] +
                    (IF k = new.word THEN Due(new.is_copy) ELSE 0) -
                    (IF k = buffer.word THEN Due(buffer.is_copy) ELSE 0)
  <2>1. ledger \in Ledger /\ buffer \in StructInput /\ buffer.word \in 0..MaxSets
    BY DEF OwnInv, OwnType, StructInput
  <2>2. /\ less \in Ledger /\ less.copies = ledger.copies
        /\ \A k \in 0..MaxSets :
            less.references[k] = ledger.references[k] - IF k = buffer.word THEN 1 ELSE 0
    BY <2>1, Counted
  <2> HIDE DEF less
  <2>3. /\ moved \in Ledger /\ moved.copies = ledger.copies
        /\ \A k \in 0..MaxSets :
            moved.references[k] = less.references[k] + IF k = sets + 1 THEN 1 ELSE 0
    <3>1. less \in Ledger /\ sets + 1 \in 0..MaxSets
      BY <2>2, <1>1
    <3> DEFINE j == sets + 1
    <3> HIDE DEF moved, j
    <3>2. /\ Py_INCREF(less, j) \in Ledger /\ Py_INCREF(less, j).copies = less.copies
          /\ \A k \in 0..MaxSets :
                Py_INCREF(less, j).references[k] = less.references[k] + IF k = j THEN 1 ELSE 0
      <4>1. j \in 0..MaxSets
        BY <3>1 DEF j
      <4> QED
        BY ONLY <3>1, <4>1, Counted
    <3> QED
      BY <2>2, <3>2 DEF moved, j
  <2>4. ledger' = Replaced(moved, buffer, new) /\ new \in StructInput
    BY <1>2, <1>3
  <2> HIDE DEF moved
  <2>5. /\ ledger' \in Ledger
        /\ \A k \in 0..MaxSets :
            /\ ledger'.copies[k] = moved.copies[k] +
                    (IF k = new.word /\ new.is_copy THEN 1 ELSE 0) -
                    (IF k = buffer.word /\ buffer.is_copy THEN 1 ELSE 0)
            /\ ledger'.references[k] = moved.references[k] +
                    (IF k = new.word /\ ~new.is_copy THEN 1 ELSE 0) -
                    (IF k = buffer.word /\ ~buffer.is_copy THEN 1 ELSE 0)
    <3> DEFINE after == Replaced(moved, buffer, new)
    <3>1. /\ after \in Ledger
          /\ \A k \in 0..MaxSets :
                /\ after.copies[k] = moved.copies[k] +
                        (IF k = new.word /\ new.is_copy THEN 1 ELSE 0) -
                        (IF k = buffer.word /\ buffer.is_copy THEN 1 ELSE 0)
                /\ after.references[k] = moved.references[k] +
                        (IF k = new.word /\ ~new.is_copy THEN 1 ELSE 0) -
                        (IF k = buffer.word /\ ~buffer.is_copy THEN 1 ELSE 0)
      <4>1. moved \in Ledger /\ buffer \in StructInput /\ new \in StructInput
        BY <2>1, <2>3, <2>4
      <4> QED
        BY ONLY <4>1, ReplacedBoth
    <3> HIDE DEF after
    <3>2. ledger' = after
      BY ONLY <2>4 DEF after
    <3> QED
      BY ONLY <3>1, <3>2
  <2>6. \A k \in 0..MaxSets : ledger.references[k] \in Int
    BY <2>1, Entries
  <2>7. new.is_copy \in BOOLEAN /\ buffer.is_copy \in BOOLEAN
    BY <2>1, <1>2 DEF StructInput
  <2> QED
    BY <2>2, <2>3, <2>5, <2>6, <2>7, <1>2 DEF Due
<1> HIDE DEF moved
<1>5. /\ buffer' \in StructInput /\ buffer'.word = sets + 1
      /\ buffer'.is_copy = buffer.is_copy
    BY <1>1, <1>2, <1>3 DEF OwnInv, OwnType, StructInput
<1>6. OwnType'
    BY <1>1, <1>4, <1>5 DEF OwnInv, OwnType
<1>7. /\ buffer.word \in 0..sets /\ refused \subseteq 1..sets /\ buffer.word \notin refused
      /\ \A k \in (sets + 1)..MaxSets : ledger.copies[k] = 0 /\ ledger.references[k] = 0
    BY DEF OwnInv, OwnType, NothingAhead
<1>8. NothingAhead'
  <2>1. ASSUME NEW k \in (sets' + 1)..MaxSets
        PROVE  k \in (sets + 1)..MaxSets /\ k \in 0..MaxSets /\ k # new.word /\ k # buffer.word
    BY <1>1, <1>2, <1>7
  <2> QED
    BY <2>1, <1>4, <1>7 DEF NothingAhead
<1>9. FlagFits'
    BY <1>1, <1>2, <1>3, <1>5 DEF FlagFits
<1>10. ASSUME alike', NEW k \in (0..sets') \ refused'
       PROVE  /\ ledger'.copies[k] = IF Wants(k)' /\ buffer'.is_copy THEN 1 ELSE 0
              /\ ledger'.references[k] = IF Wants(k)' THEN Due(buffer'.is_copy) ELSE 0
  <2>1. alike /\ new.is_copy = buffer.is_copy /\ buffer'.is_copy = buffer.is_copy
    BY <1>3, <1>5, <1>10
  <2>2. k \in 0..MaxSets /\ (Wants(k)' <=> k = sets + 1)
    BY <1>1, <1>5, InputAssumption DEF Wants
  <2>3. CASE k = sets + 1
    <3>1. ledger.copies[k] = 0 /\ ledger.references[k] = 0 /\ k # buffer.word /\ k = new.word
      BY <2>3, <1>1, <1>2, <1>7
    <3> QED
      BY <3>1, <2>1, <2>2, <2>3, <1>4 DEF Due
  <2>4. CASE k # sets + 1
    <3>1. k \in (0..sets) \ refused /\ k # new.word
      BY <2>4, <1>1, <1>2
    <3>2. /\ ledger.copies[k] = IF k = buffer.word /\ buffer.is_copy THEN 1 ELSE 0
          /\ ledger.references[k] = IF k = buffer.word THEN Due(buffer.is_copy) ELSE 0
      BY <3>1, <2>1, <1>1 DEF OwnInv, Balanced, Wants
    <3> QED
      BY <3>1, <3>2, <2>1, <2>2, <2>4, <1>4 DEF Due
  <2> QED
    BY <2>3, <2>4
<1>11. Balanced'
    BY <1>10 DEF Balanced
<1> QED
    BY <1>6, <1>8, <1>9, <1>11 DEF OwnInv

\* A refused set() takes the string it was given and changes nothing else.
LEMMA RefusedKeepsOwn ==
    ASSUME OwnInv, NEW text, automaton_search_iter_long_set_refused(text)
    PROVE  OwnInv'
<1> DEFINE new == pymod_get_string(text, sets + 1)
<1>1. /\ sets \in Nat /\ sets + 1 \in 0..MaxSets /\ sets' = sets + 1
      /\ pc' = pc /\ refused' = refused \cup {sets + 1}
      /\ input' = input /\ buffer' = buffer /\ alike' = alike
      /\ ledger' = prepare_input(ledger, new)
    BY InputAssumption DEF OwnInv, OwnType, automaton_search_iter_long_set_refused, iter
<1>2. new \in StructInput /\ new.word = sets + 1
    BY <1>1, GetString
<1> HIDE DEF new
<1>3. /\ ledger' \in Ledger
      /\ \A k \in 0..MaxSets : k # sets + 1 =>
            ledger'.copies[k] = ledger.copies[k] /\ ledger'.references[k] = ledger.references[k]
  <2>1. /\ ledger \in Ledger
        /\ \A k \in 0..MaxSets : ledger.copies[k] \in Int /\ ledger.references[k] \in Int
    BY Entries DEF OwnInv, OwnType
  <2>2. /\ ledger' \in Ledger
        /\ \A k \in 0..MaxSets :
            /\ ledger'.copies[k] = ledger.copies[k] + IF k = new.word /\ new.is_copy THEN 1 ELSE 0
            /\ ledger'.references[k] =
                    ledger.references[k] + IF k = new.word /\ ~new.is_copy THEN 1 ELSE 0
    BY <2>1, <1>1, <1>2, Prepared
  <2> QED
    BY <2>1, <2>2, <1>2
<1>4. OwnType'
  <2>1. /\ buffer \in StructInput /\ buffer.word \in 0..sets /\ buffer.word \notin refused
        /\ refused \subseteq 1..sets
    BY DEF OwnInv, OwnType
  <2>2. refused' \subseteq 1..sets' /\ buffer'.word \in (0..sets') \ refused'
    BY <2>1, <1>1
  <2> QED
    BY <2>1, <2>2, <1>1, <1>3 DEF OwnType
<1>5. NothingAhead'
    BY <1>1, <1>3 DEF OwnInv, NothingAhead
<1>6. FlagFits'
    BY <1>1 DEF OwnInv, FlagFits
<1>7. Balanced'
  <2>1. \A k \in (0..sets') \ refused' :
            k \in (0..sets) \ refused /\ k \in 0..MaxSets /\ k # sets + 1
    BY <1>1, InputAssumption
  <2>2. \A k : Wants(k)' <=> Wants(k)
    BY <1>1 DEF Wants
  <2> QED
    BY <2>1, <2>2, <1>1, <1>3 DEF OwnInv, Balanced
<1> QED
    BY <1>4, <1>5, <1>6, <1>7 DEF OwnInv

\* The deleted iterator gives its last string back.
LEMMA DelKeepsOwn ==
    ASSUME OwnInv, automaton_search_iter_long_del
    PROVE  OwnInv'
<1>1. /\ pc = "idle" /\ pc' = "deleted" /\ sets' = sets /\ refused' = refused
      /\ buffer' = buffer /\ alike' = alike
      /\ ledger' = destroy_input(Py_DECREF(ledger, buffer.word), buffer)
    BY DEF automaton_search_iter_long_del
<1>2. /\ ledger' \in Ledger
      /\ \A k \in 0..MaxSets :
            /\ ledger'.copies[k] = ledger.copies[k] -
                    IF k = buffer.word /\ buffer.is_copy THEN 1 ELSE 0
            /\ ledger'.references[k] = ledger.references[k] -
                    IF k = buffer.word THEN Due(buffer.is_copy) ELSE 0
  <2> DEFINE less == Py_DECREF(ledger, buffer.word)
  <2>1. ledger \in Ledger /\ buffer \in StructInput /\ buffer.word \in 0..MaxSets
    BY DEF OwnInv, OwnType, StructInput
  <2>2. /\ less \in Ledger /\ less.copies = ledger.copies
        /\ \A k \in 0..MaxSets :
            less.references[k] = ledger.references[k] - IF k = buffer.word THEN 1 ELSE 0
    BY <2>1, Counted
  <2>3. ledger' = destroy_input(less, buffer)
    BY <1>1
  <2> HIDE DEF less
  <2>4. /\ ledger' \in Ledger
        /\ \A k \in 0..MaxSets :
            /\ ledger'.copies[k] = less.copies[k] -
                    IF k = buffer.word /\ buffer.is_copy THEN 1 ELSE 0
            /\ ledger'.references[k] = less.references[k] -
                    IF k = buffer.word /\ ~buffer.is_copy THEN 1 ELSE 0
    BY <2>1, <2>2, <2>3, Destroyed
  <2>5. \A k \in 0..MaxSets : ledger.references[k] \in Int
    BY <2>1, Entries
  <2>6. buffer.is_copy \in BOOLEAN
    BY <2>1 DEF StructInput
  <2> QED
    BY <2>2, <2>4, <2>5, <2>6 DEF Due
<1>3. sets \in 0..MaxSets /\ buffer.word \in 0..sets
    BY DEF OwnInv, OwnType
<1>4. OwnType'
    BY <1>1, <1>2 DEF OwnInv, OwnType
<1>5. NothingAhead'
  <2>1. ASSUME NEW k \in (sets + 1)..MaxSets
        PROVE  k \in 0..MaxSets /\ k # buffer.word
    BY <1>3
  <2> QED
    BY <2>1, <1>1, <1>2 DEF OwnInv, NothingAhead
<1>6. FlagFits'
    BY <1>1 DEF FlagFits
<1>7. ASSUME alike, NEW k \in (0..sets) \ refused
      PROVE  ledger'.copies[k] = 0 /\ ledger'.references[k] = 0
  <2>1. k \in 0..MaxSets
    BY <1>3, InputAssumption
  <2>2. /\ ledger.copies[k] = IF k = buffer.word /\ buffer.is_copy THEN 1 ELSE 0
        /\ ledger.references[k] = IF k = buffer.word THEN Due(buffer.is_copy) ELSE 0
    BY <1>1, <1>7 DEF OwnInv, Balanced, Wants
  <2> QED
    BY <2>1, <2>2, <1>2 DEF Due
<1>8. Balanced'
    BY <1>1, <1>7 DEF Balanced, Wants
<1> QED
    BY <1>4, <1>5, <1>6, <1>8 DEF OwnInv

\* Inside next() nothing changes hands.
LEMMA OwnStable ==
    ASSUME OwnInv, UNCHANGED <<owned, sets, input>>, pc # "deleted" <=> pc' # "deleted"
    PROVE  OwnInv'
BY DEF OwnInv, OwnType, NothingAhead, FlagFits, Balanced, Wants, owned

\* Every step keeps the invariant.
LEMMA OwnNext == OwnInv /\ [Next]_vars => OwnInv'
<1> SUFFICES ASSUME OwnInv, [Next]_vars PROVE OwnInv'
    OBVIOUS
<1>1. CASE CallNext
    BY <1>1, OwnStable DEF CallNext, Output, Report, history
<1>2. CASE Step
    BY <1>2, OwnStable DEF Step, history
<1>3. CASE OutputSuffix
    BY <1>3, OwnStable DEF OutputSuffix, Report
<1>4. CASE Mismatch
    BY <1>4, OwnStable DEF Mismatch, Output, Report, iter, history
<1>5. CASE GoBack
    BY <1>5, OwnStable DEF GoBack, history
<1>6. CASE EndOfString
    BY <1>6, OwnStable DEF EndOfString, Output, Report, iter, history
<1>7. ASSUME NEW text \in Texts, automaton_search_iter_long_set(text)
      PROVE  OwnInv'
    BY <1>7, SetKeepsOwn DEF automaton_search_iter_long_set
<1>8. ASSUME NEW text \in Texts, automaton_search_iter_long_set_reset(text)
      PROVE  OwnInv'
    BY <1>8, SetKeepsOwn DEF automaton_search_iter_long_set_reset
<1>9. ASSUME NEW text \in Texts, automaton_search_iter_long_set_refused(text)
      PROVE  OwnInv'
    BY <1>9, RefusedKeepsOwn
<1>10. CASE automaton_search_iter_long_del
    BY <1>10, DelKeepsOwn
<1>11. CASE UNCHANGED vars
    BY <1>11, OwnStable DEF vars, iter, history
<1> QED
    BY <1>1, <1>2, <1>3, <1>4, <1>5, <1>6, <1>7, <1>8, <1>9,
       <1>10, <1>11 DEF Next, Run

\* The invariant says of the ledger what InputReleased asks for.
LEMMA OwnReleases == OwnInv => ReleasedUnlessMixed
<1> SUFFICES ASSUME OwnInv, alike PROVE InputReleased
    BY DEF ReleasedUnlessMixed
<1> DEFINE own == pymod_get_string(input, buffer.word)
           first == Py_INCREF(Nothing, buffer.word)
           owed == prepare_input(first, own)
<1>1. sets \in 0..MaxSets /\ buffer.word \in 0..MaxSets /\ buffer.is_copy \in BOOLEAN
    BY InputAssumption DEF OwnInv, OwnType, StructInput
<1>2. own \in StructInput /\ own.word = buffer.word /\ own.is_copy = ~PyUnicode_4BYTE_KIND(input)
    BY <1>1, GetString
<1>3. \A k \in 0..MaxSets :
        /\ owed.copies[k] = 0 + IF k = buffer.word /\ own.is_copy THEN 1 ELSE 0
        /\ owed.references[k] = IF k = buffer.word THEN Due(own.is_copy) ELSE 0
  <2>1. /\ first \in Ledger /\ first.copies = Nothing.copies
        /\ \A k \in 0..MaxSets :
            first.references[k] = Nothing.references[k] + IF k = buffer.word THEN 1 ELSE 0
    BY <1>1, NothingEmpty, Counted
  <2> HIDE DEF first, own
  <2>2. \A k \in 0..MaxSets :
            /\ owed.copies[k] = first.copies[k] + IF k = own.word /\ own.is_copy THEN 1 ELSE 0
            /\ owed.references[k] =
                    first.references[k] + IF k = own.word /\ ~own.is_copy THEN 1 ELSE 0
    BY <2>1, <1>2, Prepared
  <2>3. own.is_copy \in BOOLEAN
    BY <1>2
  <2> HIDE DEF owed
  <2> QED
    BY <2>1, <2>2, <2>3, <1>2, NothingEmpty DEF Due
<1> HIDE DEF own, owed
<1>4. \A k \in (0..sets) \ refused :
        /\ k \in 0..MaxSets
        /\ ledger.copies[k] = IF Wants(k) /\ buffer.is_copy THEN 1 ELSE 0
        /\ ledger.references[k] = IF Wants(k) THEN Due(buffer.is_copy) ELSE 0
    BY <1>1, InputAssumption DEF OwnInv, Balanced
<1>5. CASE pc = "deleted"
    BY <1>4, <1>5, NothingEmpty DEF InputReleased, Wants
<1>6. CASE pc # "deleted"
  <2>1. own.is_copy = buffer.is_copy
    BY <1>2, <1>6 DEF OwnInv, FlagFits
  <2>2. \A k \in (0..sets) \ refused :
            ledger.copies[k] = owed.copies[k] /\ ledger.references[k] = owed.references[k]
    BY <2>1, <1>3, <1>4, <1>6 DEF Wants
  <2> QED
    BY <2>2, <1>6 DEF InputReleased, own, owed, first
<1> QED
    BY <1>5, <1>6

(***************************************************************************)
(* However many strings set() is given, as long as they are stored alike a *)
(* living iterator owns exactly the letters of the last one that it took   *)
(* and one reference to that string besides; a deleted one owns nothing.   *)
(***************************************************************************)
THEOREM LongInputsReleased == Spec => []ReleasedUnlessMixed
<1>1. Spec => []OwnInv
    BY OwnInit, OwnNext, PTL DEF Spec
<1> QED
    BY <1>1, OwnReleases, PTL

-----------------------------------------------------------------------------
(* Words in a text. *)

\* The first n letters of the text t end with p.
EndsAt(p, t, n) == Len(p) <= n /\ \A i \in 1..Len(p) : t[n - Len(p) + i] = p[i]

\* q lies in p behind the first d letters.
HoldsAt(p, q, d) == d + Len(q) <= Len(p) /\ \A i \in 1..Len(q) : p[d + i] = q[i]

\* That is an occurrence.
LEMMA EndsOccurs ==
    ASSUME NEW t \in Seq(Letters), NEW p \in Seq(Letters), NEW n \in 1..Len(t)
    PROVE  EndsAt(p, t, n) <=> Occurs(p, t, n - 1)
<1> DEFINE k == Len(p)
           m == n + 1 - k
           s == SubSeq(t, m, n)
<1>1. Len(t) \in Nat /\ k \in Nat /\ n \in Nat /\ m \in Int
    BY LenProperties
<1>2. Occurs(p, t, n - 1) <=> k <= n /\ s = p
  <2>1. n - 1 + 2 - Len(p) = m /\ n - 1 + 1 = n
    BY <1>1
  <2> QED
    BY <2>1 DEF Occurs
<1>3. ASSUME k <= n
      PROVE  s \in Seq(Letters) /\ Len(s) = k /\ \A i \in 1..k : s[i] = t[n - k + i]
  <2>1. \A i \in m..n : t[i] \in Letters
    <3>1. \A i \in m..n : i \in 1..Len(t)
      BY <1>1, <1>3
    <3> QED
      BY <3>1, ElementOfSeq
  <2>2. n - m + 1 = k /\ (m <= n \/ k = 0)
    BY <1>1
  <2>3. \A i \in 1..k : m + i - 1 = n - k + i
    BY <1>1
  <2> HIDE DEF m
  <2>4. s \in Seq(Letters) /\ Len(s) = (IF m <= n THEN n - m + 1 ELSE 0)
        /\ \A i \in 1..(n - m + 1) : s[i] = t[m + i - 1]
    BY <1>1, <2>1, SubSeqProperties
  <2> HIDE DEF s, k
  <2> QED
    BY <1>1, <2>2, <2>3, <2>4
<1> HIDE DEF s
<1>4. ASSUME k <= n, s = p PROVE EndsAt(p, t, n)
    BY <1>3, <1>4 DEF EndsAt
<1>5. ASSUME EndsAt(p, t, n) PROVE k <= n /\ s = p
  <2>1. k <= n /\ \A i \in 1..k : t[n - k + i] = p[i]
    BY <1>5 DEF EndsAt
  <2>2. \A i \in 1..Len(s) : s[i] = p[i]
    BY <1>3, <2>1
  <2> QED
    BY <1>3, <2>1, <2>2, SeqEqual
<1> QED
    BY <1>2, <1>4, <1>5

\* One more letter.
LEMMA EndsStep ==
    ASSUME NEW t \in Seq(Letters), NEW p \in Seq(Letters), NEW n \in 0..(Len(t) - 1),
           EndsAt(p, t, n)
    PROVE  EndsAt(Append(p, t[n + 1]), t, n + 1) /\ t[n + 1] \in Letters
<1> DEFINE q == Append(p, t[n + 1])
<1>1. Len(t) \in Nat /\ Len(p) \in Nat /\ n + 1 \in 1..Len(t)
    BY LenProperties
<1>2. t[n + 1] \in Letters
    BY <1>1, ElementOfSeq
<1>3. /\ Len(q) = Len(p) + 1 /\ q[Len(p) + 1] = t[n + 1]
      /\ \A i \in 1..Len(p) : q[i] = p[i]
    BY <1>2, AppendProperties
<1> HIDE DEF q
<1>4. Len(p) <= n /\ \A i \in 1..Len(p) : t[n - Len(p) + i] = p[i]
    BY DEF EndsAt
<1>5. ASSUME NEW i \in 1..Len(q) PROVE t[n + 1 - Len(q) + i] = q[i]
  <2>1. n + 1 - Len(q) + i = n - Len(p) + i
    BY <1>1, <1>3
  <2>2. CASE i = Len(p) + 1
    <3>1. n - Len(p) + i = n + 1
      BY <1>1, <2>2
    <3> QED
      BY <1>3, <2>1, <2>2, <3>1
  <2>3. CASE i # Len(p) + 1
    <3>1. i \in 1..Len(p)
      BY <1>1, <1>3, <2>3
    <3> QED
      BY <1>3, <1>4, <2>1, <3>1
  <2> QED
    BY <2>2, <2>3
<1>6. Len(q) <= n + 1
    BY <1>1, <1>3, <1>4
<1>7. EndsAt(q, t, n + 1)
    BY <1>5, <1>6 DEF EndsAt
<1> QED
    BY <1>2, <1>7 DEF q

\* Suffixes end there too, and prefixes end before.
LEMMA EndsPart ==
    ASSUME NEW t, NEW p \in Seq(Letters), NEW n \in Nat, EndsAt(p, t, n), NEW k \in 0..Len(p)
    PROVE  EndsAt(Suffix(p, k), t, n) /\ EndsAt(At(p, k), t, n - Len(p) + k)
<1>1. Len(p) \in Nat
    BY LenProperties
<1>2. Len(p) <= n /\ \A i \in 1..Len(p) : t[n - Len(p) + i] = p[i]
    BY DEF EndsAt
<1>3. EndsAt(Suffix(p, k), t, n)
  <2> DEFINE s == Suffix(p, k)
  <2>1. Len(s) = k /\ \A j \in 1..k : s[j] = p[Len(p) - k + j]
    BY SuffixType
  <2> HIDE DEF s
  <2>2. ASSUME NEW i \in 1..k PROVE t[n - k + i] = s[i]
    <3>1. Len(p) - k + i \in 1..Len(p) /\ n - Len(p) + (Len(p) - k + i) = n - k + i
      BY <1>1
    <3>2. t[n - Len(p) + (Len(p) - k + i)] = p[Len(p) - k + i]
      BY <1>2, <3>1
    <3> QED
      BY <2>1, <3>1, <3>2
  <2>3. k <= n
    BY <1>1, <1>2
  <2>4. EndsAt(s, t, n)
    BY <2>1, <2>2, <2>3 DEF EndsAt
  <2> QED
    BY <2>4 DEF s
<1>4. EndsAt(At(p, k), t, n - Len(p) + k)
  <2> DEFINE s == At(p, k)
             m == n - Len(p) + k
  <2>1. Len(s) = k /\ \A j \in 1..k : s[j] = p[j]
    BY AtType
  <2> HIDE DEF s
  <2>2. ASSUME NEW i \in 1..k PROVE t[m - k + i] = s[i]
    <3>1. i \in 1..Len(p) /\ m - k + i = n - Len(p) + i
      BY <1>1
    <3> QED
      BY <1>2, <2>1, <3>1
  <2>3. k <= m
    BY <1>1, <1>2
  <2> HIDE DEF m
  <2>4. EndsAt(s, t, m)
    BY <2>1, <2>2, <2>3 DEF EndsAt
  <2> QED
    BY <2>4 DEF s, m
<1> QED
    BY <1>3, <1>4

\* Words of one length that end there are the same.
LEMMA EndsSame ==
    ASSUME NEW t, NEW p \in Seq(Letters), NEW q \in Seq(Letters), NEW n \in Nat,
           EndsAt(p, t, n), EndsAt(q, t, n), Len(p) = Len(q)
    PROVE  p = q
<1>1. \A i \in 1..Len(p) : p[i] = q[i]
    BY DEF EndsAt
<1> QED
    BY <1>1, SeqEqual

\* Of two stretches of the text one holds the other.
LEMMA EndsWithin ==
    ASSUME NEW t, NEW p \in Seq(Letters), NEW q \in Seq(Letters), NEW n \in Nat, NEW m \in Nat,
           EndsAt(p, t, n), EndsAt(q, t, m), NEW d \in Nat, d = (m - Len(q)) - (n - Len(p)), m <= n
    PROVE  HoldsAt(p, q, d)
<1>1. Len(p) \in Nat /\ Len(q) \in Nat
    BY LenProperties
<1>2. /\ Len(p) <= n /\ \A i \in 1..Len(p) : t[n - Len(p) + i] = p[i]
      /\ Len(q) <= m /\ \A i \in 1..Len(q) : t[m - Len(q) + i] = q[i]
    BY DEF EndsAt
<1>3. d + Len(q) <= Len(p)
    BY <1>1
<1>4. ASSUME NEW i \in 1..Len(q) PROVE p[d + i] = q[i]
  <2>1. d + i \in 1..Len(p) /\ n - Len(p) + (d + i) = m - Len(q) + i
    BY <1>1, <1>3
  <2>2. t[n - Len(p) + (d + i)] = p[d + i]
    BY <1>2, <2>1
  <2> QED
    BY <1>2, <2>1, <2>2
<1> QED
    BY <1>3, <1>4 DEF HoldsAt

-----------------------------------------------------------------------------
(* The words and their automaton. *)

DictOK == words \in Dictionaries /\ nodes = Built(words)

\* Its nodes are the beginnings of the words.
LEMMA DictNodes ==
    ASSUME DictOK
    PROVE  /\ IsAutomaton(nodes) /\ Keys(nodes) = words
           /\ words \subseteq Seq(Letters) /\ <<>> \notin words
           /\ DOMAIN nodes \subseteq Seq(Letters) /\ words \subseteq DOMAIN nodes
           /\ \A p \in DOMAIN nodes : nodes[p].eow <=> p \in words
           /\ \A w \in words : \A k \in 0..Len(w) : At(w, k) \in DOMAIN nodes
           /\ \A p \in DOMAIN nodes :
                p # <<>> /\ p \notin words => \E w \in words : Len(p) < Len(w) /\ At(w, Len(p)) = p
<1>1. IsFiniteSet(words) /\ words \subseteq Seq(Letters) \ {<<>>}
    BY DictionaryAssumption DEF DictOK
<1>2. IsAutomaton(nodes) /\ Keys(nodes) = words
    BY <1>1, BuiltAutomaton DEF DictOK
<1>3. DOMAIN nodes = PathsOf(words)
    BY BuiltFields DEF DictOK
<1>4. /\ DOMAIN nodes \subseteq Seq(Letters) /\ words \subseteq DOMAIN nodes
      /\ \A p \in DOMAIN nodes : \A k \in 0..Len(p) : At(p, k) \in DOMAIN nodes
    BY <1>1, <1>3, PathsClosed
<1>5. \A p \in DOMAIN nodes : nodes[p].eow <=> p \in words
    BY <1>2 DEF Keys
<1>6. ASSUME NEW p \in DOMAIN nodes, p # <<>>, p \notin words
      PROVE  \E w \in words : Len(p) < Len(w) /\ At(w, Len(p)) = p
  <2>1. PICK w \in words : p \in Prefixes(w)
    BY <1>3, <1>6 DEF PathsOf
  <2>2. w \in Seq(Letters) /\ Len(w) \in Nat
    BY <1>1, LenProperties
  <2>3. PICK k \in 0..Len(w) : p = At(w, k)
    BY <2>1 DEF Prefixes, At
  <2>4. Len(p) = k
    BY <2>2, <2>3, AtType
  <2>5. k # Len(w)
    BY <2>2, <2>3, <1>6, AtAt
  <2> QED
    BY <2>2, <2>3, <2>4, <2>5
<1> QED
    BY <1>1, <1>2, <1>4, <1>5, <1>6

\* Where no word lies inside another, none lies inside the beginning of one either.
LEMMA NothingInside ==
    ASSUME DictOK, ~Nested(words), NEW p \in DOMAIN nodes, p \notin words,
           NEW v \in words, NEW d \in Nat, d >= 1, HoldsAt(p, v, d)
    PROVE  FALSE
<1>1. /\ words \subseteq Seq(Letters) /\ <<>> \notin words /\ p \in Seq(Letters)
      /\ v \in Seq(Letters) /\ Len(p) \in Nat /\ Len(v) \in Nat /\ Len(v) # 0
    BY DictNodes, LenProperties, EmptySeq
<1>2. d + Len(v) <= Len(p) /\ \A i \in 1..Len(v) : p[d + i] = v[i]
    BY DEF HoldsAt
<1>3. Len(p) # 0 /\ p # <<>>
  <2>1. d + Len(v) <= Len(p) /\ Len(p) \in Nat /\ Len(v) \in Nat /\ d \in Nat /\ d >= 1
    BY <1>1, <1>2
  <2>2. Len(p) # 0
    BY ONLY <2>1
  <2> QED
    BY <1>1, <2>2, EmptySeq
<1>4. PICK w \in words : Len(p) < Len(w) /\ At(w, Len(p)) = p
    BY <1>3, DictNodes
<1>5. w \in Seq(Letters) /\ Len(w) \in Nat
    BY <1>1, LenProperties
<1>6. \A j \in 1..Len(p) : p[j] = w[j]
  <2>1. Len(p) \in 0..Len(w)
    BY <1>1, <1>4, <1>5
  <2>2. \A j \in 1..Len(p) : At(w, Len(p))[j] = w[j]
    BY <1>5, <2>1, AtType
  <2> QED
    BY <1>4, <2>2
<1> DEFINE n == d + Len(v)
<1>7. n \in 1..Len(w) /\ n - Len(v) = d /\ Len(v) <= n /\ n - 1 \in Len(v)..(Len(w) - 2)
    BY <1>1, <1>2, <1>4, <1>5
<1>8. \A i \in 1..Len(v) : w[d + i] = v[i]
  <2>1. \A i \in 1..Len(v) : d + i \in 1..Len(p)
    BY <1>1, <1>2
  <2> QED
    BY <1>2, <1>6, <2>1
<1> HIDE DEF n
<1>9. EndsAt(v, w, n)
    BY <1>7, <1>8 DEF EndsAt
<1>10. Occurs(v, w, n - 1)
    BY <1>1, <1>5, <1>7, <1>9, EndsOccurs
<1> QED
    BY <1>7, <1>10 DEF Nested

\* Following a letter: there is a link just where there is a child.
LEMMA LinkFacts ==
    ASSUME DictOK, NEW p \in DOMAIN nodes, NEW l \in Letters, NEW q,
           q = trienode_get_next(nodes, p, l)
    PROVE  /\ q = NULL => Append(p, l) \notin DOMAIN nodes
           /\ q # NULL => q = Append(p, l) /\ q \in DOMAIN nodes
<1>1. IsAutomaton(nodes) /\ p \in Seq(Letters)
    BY DictNodes
<1>2. CASE l \in ToSet(nodes[p].next)
  <2>1. q = Append(p, l) /\ q \in DOMAIN nodes
    BY <1>1, <1>2 DEF trienode_get_next, IsAutomaton, Tree, LinksLive
  <2>2. q # NULL
    BY <2>1, DictNodes, PointerAssumption
  <2> QED
    BY <2>1, <2>2
<1>3. CASE l \notin ToSet(nodes[p].next)
  <2>1. q = NULL
    BY <1>3 DEF trienode_get_next
  <2>2. Append(p, l) \notin DOMAIN nodes
    BY <1>1, <1>3, HangsFromParent DEF IsAutomaton
  <2> QED
    BY <2>1, <2>2
<1> QED
    BY <1>2, <1>3

\* The node p is what was read last of the first r letters, none of it before place b.
OnPath(t, r, b, p) == p \in DOMAIN nodes /\ EndsAt(p, t, r) /\ b + Len(p) <= r

\* The word q, or NULL, was read up to the m-th letter, none of it before place b.
Saved(t, r, b, q, m) ==
    q = NULL \/ (q \in words /\ m \in 1..r /\ EndsAt(q, t, m) /\ b + Len(q) <= m)

\* Down to a child.
LEMMA PathDown ==
    ASSUME DictOK, NEW t \in Seq(Letters), NEW r \in 0..(Len(t) - 1), NEW b \in Nat,
           NEW p, OnPath(t, r, b, p), Append(p, t[r + 1]) \in DOMAIN nodes
    PROVE  OnPath(t, r + 1, b, Append(p, t[r + 1]))
<1> DEFINE q == Append(p, t[r + 1])
<1>1. p \in Seq(Letters) /\ Len(p) \in Nat /\ b + Len(p) <= r /\ EndsAt(p, t, r)
    BY DictNodes, LenProperties DEF OnPath
<1>2. EndsAt(q, t, r + 1) /\ t[r + 1] \in Letters
    BY <1>1, EndsStep
<1>3. Len(q) = Len(p) + 1
    BY <1>1, <1>2, AppendProperties
<1>4. q \in DOMAIN nodes
    OBVIOUS
<1> HIDE DEF q
<1>5. OnPath(t, r + 1, b, q)
    BY <1>1, <1>2, <1>3, <1>4 DEF OnPath
<1> QED
    BY <1>5 DEF q

\* Back over a fail link.
LEMMA PathBack ==
    ASSUME DictOK, NEW t, NEW r \in Nat, NEW b \in Nat, NEW p, OnPath(t, r, b, p),
           NEW f, f = nodes[p].fail
    PROVE  /\ f = NULL <=> p = Root
           /\ f # NULL => /\ OnPath(t, r, b, f) /\ Len(f) < Len(p)
                          /\ FailNode(nodes, p, f)
<1>1. IsAutomaton(nodes) /\ p \in DOMAIN nodes /\ p \in Seq(Letters) /\ Len(p) \in Nat
    BY DictNodes, LenProperties DEF OnPath
<1>2. CASE p = Root
    BY <1>1, <1>2 DEF IsAutomaton, FailLinks
<1>3. CASE p # Root
  <2>1. FailNode(nodes, p, f)
    BY <1>1, <1>3, LongestFailNode
  <2>2. PICK k \in 0..(Len(p) - 1) : f = Suffix(p, k) /\ f \in DOMAIN nodes
    BY <2>1 DEF FailNode
  <2>3. k \in 0..Len(p) /\ k < Len(p)
    BY <1>1
  <2>4. Len(f) = k /\ EndsAt(f, t, r)
    BY <1>1, <2>2, <2>3, SuffixType, EndsPart DEF OnPath
  <2>5. f # NULL
    BY <2>2, DictNodes, PointerAssumption
  <2>6. b + Len(p) <= r
    BY DEF OnPath
  <2>7. OnPath(t, r, b, f)
    BY <1>1, <2>2, <2>3, <2>4, <2>6 DEF OnPath
  <2> QED
    BY <1>3, <2>1, <2>3, <2>4, <2>5, <2>7
<1> QED
    BY <1>2, <1>3

\* Starting over.
LEMMA PathTop ==
    ASSUME DictOK, NEW t, NEW r \in Nat, NEW b \in Nat, b <= r
    PROVE  OnPath(t, r, b, Root)
<1>1. Root \in DOMAIN nodes
    BY DictNodes DEF IsAutomaton
<1>2. Len(Root) = 0 /\ 1..0 = {}
    BY DEF Root
<1> QED
    BY <1>1, <1>2 DEF OnPath, EndsAt

-----------------------------------------------------------------------------
(* What the search knows. *)

\* How many letters of the string were read.
Passed ==
    LET n == IF pc = "idle" THEN index + 1 ELSE index
    IN  IF n <= end THEN n ELSE end

\* The place from which the next match is looked for.
Behind == IF found = <<>> THEN from ELSE found[Len(found)][1] + 1

PlaceOK ==
    /\ input \in Seq(Letters) /\ end \in 0..Len(input) /\ index \in Int /\ index >= -1
    /\ shift \in Nat /\ last_index \in Int /\ last_index >= -1
    /\ pc \in {"idle", "next", "back", "deleted"}
    /\ pc \in {"next", "back"} => index >= 0
    /\ pc = "back" => index < end

\* A start behind the end was accepted: nothing is searched.
Stuck == from > end /\ index >= end /\ found = <<>> /\ last_node = NULL /\ pc # "back"

Searching ==
    /\ OnPath(WholeText, shift + Passed, Behind, state)
    /\ Saved(WholeText, shift + Passed, Behind, last_node, shift + last_index + 1)
    /\ pc = "idle" => last_node = NULL
    /\ last_node # NULL => last_index \in 0..(end - 1)

Reports ==
    /\ found \in Seq(Nat \X words)
    /\ \A j \in 1..Len(found) :
        /\ found[j][1] < Len(WholeText) /\ EndsAt(found[j][2], WholeText, found[j][1] + 1)
        /\ (IF j = 1 THEN from ELSE found[j - 1][1] + 1) + Len(found[j][2]) <= found[j][1] + 1

RegularOK ==
    /\ pc # "deleted" /\ prior \in Seq(Letters) /\ shift = Len(prior) /\ from \in Nat
    /\ Reports /\ (Stuck \/ Searching)

LongInv == DictOK /\ PlaceOK /\ (regular => RegularOK)

\* One text behind another, as far as it is searched.
LEMMA JoinFacts ==
    ASSUME NEW p \in Seq(Letters), NEW s \in Seq(Letters), NEW e \in 0..Len(s),
           NEW t, t = p \o SubSeq(s, 1, e), NEW k, k = Len(p)
    PROVE  /\ t \in Seq(Letters) /\ Len(t) = k + e /\ k \in Nat /\ e \in Nat
           /\ \A i \in 1..e : t[k + i] = s[i]
           /\ \A i \in 1..k : t[i] = p[i]
<1> DEFINE c == SubSeq(s, 1, e)
<1>1. Len(s) \in Nat /\ k \in Nat /\ e \in Nat
    BY LenProperties
<1>2. c \in Seq(Letters) /\ Len(c) = e /\ \A i \in 1..e : c[i] = s[i]
    BY <1>1, AtType DEF At
<1>3. t = p \o c
    OBVIOUS
<1> HIDE DEF c
<1>4. /\ t \in Seq(Letters) /\ Len(t) = k + e
      /\ \A i \in 1..(k + e) : t[i] = IF i <= k THEN p[i] ELSE c[i - k]
    BY <1>1, <1>2, <1>3, ConcatProperties
<1>5. ASSUME NEW i \in 1..e PROVE t[k + i] = s[i]
  <2>1. k + i \in 1..(k + e) /\ ~(k + i <= k) /\ k + i - k = i
    BY <1>1
  <2> QED
    BY <1>2, <1>4, <2>1
<1>6. \A i \in 1..k : t[i] = p[i]
  <2>1. \A i \in 1..k : i \in 1..(k + e) /\ i <= k
    BY <1>1
  <2> QED
    BY <1>4, <2>1
<1> QED
    BY <1>1, <1>4, <1>5, <1>6

\* The text so far ends with the string being searched.
LEMMA WholeFacts ==
    ASSUME PlaceOK, prior \in Seq(Letters), shift = Len(prior)
    PROVE  /\ WholeText \in Seq(Letters) /\ Len(WholeText) = shift + end /\ end \in Nat
           /\ \A i \in 1..end : WholeText[shift + i] = input[i]
           /\ \A i \in 1..shift : WholeText[i] = prior[i]
           /\ pc # "deleted" => Passed \in 0..end
<1>1. input \in Seq(Letters) /\ end \in 0..Len(input) /\ end \in Nat
    BY LenProperties DEF PlaceOK
<1>2. WholeText = prior \o SubSeq(input, 1, end)
    BY DEF WholeText, Chunk
<1>3. pc # "deleted" => Passed \in 0..end
    BY <1>1 DEF PlaceOK, Passed
<1> HIDE DEF WholeText
<1> QED
    BY <1>1, <1>2, <1>3, JoinFacts

\* Where the next match is looked for is a place.
LEMMA BehindType ==
    ASSUME from \in Nat, found \in Seq(Nat \X words)
    PROVE  Behind \in Nat
<1>1. CASE found = <<>>
    BY <1>1 DEF Behind
<1>2. CASE found # <<>>
  <2>1. Len(found) \in 1..Len(found)
    BY <1>2, LenProperties, EmptySeq
  <2>2. found[Len(found)] \in Nat \X words
    BY <2>1, ElementOfSeq
  <2>3. found[Len(found)][1] \in Nat
    BY <2>2
  <2> QED
    BY <1>2, <2>3 DEF Behind
<1> QED
    BY <1>1, <1>2

-----------------------------------------------------------------------------
(* The steps of the search. *)

\* While the string and the reports stay the invariant needs only what follows.
LEMMA FrameKeeps ==
    ASSUME LongInv, UNCHANGED <<words, nodes, input, end, shift, from, prior, found, regular>>,
           PlaceOK', pc' # "deleted", regular => Stuck' \/ Searching'
    PROVE  LongInv'
<1>1. DictOK'
    BY DEF LongInv, DictOK
<1>2. WholeText' = WholeText
    BY DEF WholeText, Chunk
<1>3. regular => Reports'
    BY <1>2 DEF LongInv, RegularOK, Reports
<1> QED
    BY <1>1, <1>3 DEF LongInv, RegularOK

\* What the steps of next() start from.
LEMMA Going ==
    ASSUME LongInv, regular, pc # "deleted"
    PROVE  /\ WholeText \in Seq(Letters) /\ Len(WholeText) = shift + end /\ end \in Nat
           /\ shift \in Nat /\ index \in Int /\ Passed \in 0..end /\ Behind \in Nat
           /\ (Stuck \/ Searching)
           /\ \A i \in 1..end : WholeText[shift + i] = input[i]
BY WholeFacts, BehindType DEF LongInv, RegularOK, Reports, PlaceOK

\* The letter at hand, and the link over it.
LEMMA AtHand ==
    ASSUME LongInv, regular, pc \in {"next", "back"}, index < end
    PROVE  /\ Searching /\ Passed = index /\ index \in Nat
           /\ shift + index \in 0..(Len(WholeText) - 1)
           /\ Letter = WholeText[shift + index + 1] /\ Letter \in Letters
           /\ state \in DOMAIN nodes
           /\ \A p \in DOMAIN nodes :
                /\ Linked(p) = NULL => Append(p, Letter) \notin DOMAIN nodes
                /\ Linked(p) # NULL => Linked(p) = Append(p, Letter) /\ Linked(p) \in DOMAIN nodes
<1>1. /\ WholeText \in Seq(Letters) /\ Len(WholeText) = shift + end /\ end \in Nat
      /\ shift \in Nat /\ index \in Int /\ (Stuck \/ Searching)
      /\ \A i \in 1..end : WholeText[shift + i] = input[i]
    BY Going
<1>2. index \in Nat /\ Passed = index
    BY <1>1 DEF LongInv, PlaceOK, Passed
<1>3. ~Stuck
  <2>1. ~(index >= end)
    BY <1>1
  <2> QED
    BY <2>1 DEF Stuck
<1>4. /\ shift + index \in 0..(Len(WholeText) - 1) /\ index + 1 \in 1..end
      /\ shift + (index + 1) = shift + index + 1
    BY <1>1, <1>2
<1>5. Letter = WholeText[shift + index + 1]
    BY <1>1, <1>4 DEF Letter
<1>6. Letter \in Letters
    BY <1>1, <1>4, <1>5, ElementOfSeq
<1>7. state \in DOMAIN nodes
    BY <1>1, <1>3 DEF Searching, OnPath
<1>8. DictOK
    BY DEF LongInv
<1> QED
    BY <1>1, <1>2, <1>3, <1>4, <1>5, <1>6, <1>7, <1>8, LinkFacts DEF Linked

\* CallNext, before the loop.
LEMMA EnterKeeps == LongInv /\ CallNext /\ pc' = "next" => LongInv'
<1> SUFFICES ASSUME LongInv, CallNext, pc' = "next" PROVE LongInv'
    OBVIOUS
<1>1. /\ pc = "idle" /\ last_node = NULL /\ index' = index + 1
      /\ UNCHANGED <<words, nodes, input, end, shift, state, last_node, last_index>>
      /\ UNCHANGED <<from, prior, found, regular>>
    BY DEF CallNext, Output, Report, history
<1>2. PlaceOK'
    BY <1>1 DEF LongInv, PlaceOK
<1>3. ASSUME regular PROVE Stuck' \/ Searching'
  <2>1. /\ end \in Nat /\ index \in Int /\ (Stuck \/ Searching)
    BY <1>1, <1>3, Going
  <2>2. WholeText' = WholeText /\ Behind' = Behind /\ Passed' = Passed /\ nodes' = nodes
    BY <1>1, <2>1 DEF WholeText, Chunk, Behind, Passed
  <2>3. CASE Stuck
    <3>1. index >= end /\ from > end /\ found = <<>>
      BY <2>3 DEF Stuck
    <3>2. index' >= end'
      BY <2>1, <3>1, <1>1
    <3>3. from' > end' /\ found' = <<>> /\ last_node' = NULL /\ pc' # "back"
      BY <3>1, <1>1
    <3> QED
      BY <3>2, <3>3 DEF Stuck
  <2>4. CASE Searching
    BY <2>2, <2>4, <1>1 DEF Searching, OnPath, Saved
  <2> QED
    BY <2>1, <2>3, <2>4
<1> QED
    BY <1>1, <1>2, <1>3, FrameKeeps

\* Step.
LEMMA StepKeeps == LongInv /\ Step => LongInv'
<1> SUFFICES ASSUME LongInv, Step PROVE LongInv'
    OBVIOUS
<1>1. /\ pc = "next" /\ index < end /\ Linked(state) # NULL
      /\ state' = Linked(state) /\ index' = index + 1 /\ pc' = pc
      /\ UNCHANGED <<words, nodes, input, end, shift>>
      /\ UNCHANGED <<from, prior, found, regular>>
      /\ IF nodes[state'].eow THEN last_node' = state' /\ last_index' = index
         ELSE last_node' = last_node /\ last_index' = last_index
    BY DEF Step, history
<1>2. PlaceOK'
    BY <1>1 DEF LongInv, PlaceOK
<1>3. ASSUME regular PROVE Searching'
  <2> DEFINE t == WholeText
             r == shift + index
             b == Behind
             q == Append(state, Letter)
  <2>1. /\ Searching /\ Passed = index /\ index \in Nat /\ r \in 0..(Len(t) - 1)
        /\ Letter = t[r + 1] /\ Linked(state) = q /\ q \in DOMAIN nodes
    BY <1>1, <1>3, AtHand
  <2>2. t \in Seq(Letters) /\ end \in Nat /\ shift \in Nat /\ b \in Nat
    BY <1>1, <1>3, Going
  <2>3. WholeText' = t /\ Behind' = b /\ nodes' = nodes /\ Passed' = index + 1
        /\ shift' + Passed' = r + 1
    BY <1>1, <2>1, <2>2 DEF WholeText, Chunk, Behind, Passed
  <2>4. DictOK
    BY DEF LongInv
  <2> HIDE DEF t, r, b, q
  <2>5. OnPath(t, r, b, state) /\ Saved(t, r, b, last_node, shift + last_index + 1)
        /\ (last_node # NULL => last_index \in 0..(end - 1))
    BY <2>1 DEF Searching, t, r, b
  <2>6. OnPath(t, r + 1, b, Append(state, t[r + 1]))
    <3>1. Append(state, t[r + 1]) \in DOMAIN nodes
      BY <2>1 DEF q
    <3> QED
      BY <2>1, <2>2, <2>4, <2>5, <3>1, PathDown
  <2>7. OnPath(t, r + 1, b, q)
    BY <2>1, <2>6 DEF q
  <2>8. Saved(t, r + 1, b, last_node', shift + last_index' + 1)
        /\ (last_node' # NULL => last_index' \in 0..(end - 1))
    <3>1. CASE nodes[q].eow
      <4>1. last_node' = q /\ last_index' = index /\ q \in words
        BY <1>1, <2>1, <2>4, <3>1, DictNodes
      <4>2. shift + index + 1 = r + 1 /\ r + 1 \in 1..(r + 1) /\ index \in 0..(end - 1)
        BY <1>1, <2>1, <2>2 DEF r
      <4> QED
        BY <2>7, <4>1, <4>2 DEF Saved, OnPath
    <3>2. CASE ~nodes[q].eow
      <4>1. last_node' = last_node /\ last_index' = last_index
        BY <1>1, <2>1, <3>2
      <4>2. 1..r \subseteq 1..(r + 1)
        BY <2>1
      <4> QED
        BY <2>5, <4>1, <4>2 DEF Saved
    <3> QED
      BY <3>1, <3>2
  <2> QED
    BY <1>1, <2>1, <2>3, <2>7, <2>8 DEF Searching, OnPath, Saved
<1> QED
    BY <1>1, <1>2, <1>3, FrameKeeps

\* Report: the search starts over behind the match.
LEMMA ReportKeeps ==
    ASSUME LongInv, NEW last \in Int, last >= -1, NEW p, Report(last, p), pc # "deleted",
           regular => /\ last \in 0..(end - 1) /\ p \in words
                      /\ EndsAt(p, WholeText, shift + last + 1)
                      /\ Behind + Len(p) <= shift + last + 1
    PROVE  LongInv'
<1>1. /\ found' = IF regular THEN Append(found, <<shift + last, p>>) ELSE found
      /\ state' = Root /\ index' = last /\ last_node' = NULL /\ last_index' = -1
      /\ pc' = "idle" /\ UNCHANGED <<words, nodes, input, end, shift, from, prior, regular>>
    BY DEF Report, StartOver
<1>2. PlaceOK'
    BY <1>1 DEF LongInv, PlaceOK
<1>3. DictOK'
    BY <1>1 DEF LongInv, DictOK
<1>4. ASSUME regular PROVE RegularOK'
  <2> DEFINE t == WholeText
             n == Len(found)
             e == <<shift + last, p>>
  <2>1. /\ t \in Seq(Letters) /\ Len(t) = shift + end /\ end \in Nat /\ shift \in Nat
        /\ Behind \in Nat
    BY <1>4, Going
  <2>2. /\ last \in 0..(end - 1) /\ p \in words /\ EndsAt(p, t, shift + last + 1)
        /\ Behind + Len(p) <= shift + last + 1
    BY <1>4
  <2>3. /\ found \in Seq(Nat \X words) /\ prior \in Seq(Letters) /\ shift = Len(prior)
        /\ from \in Nat /\ Reports /\ n \in Nat
    BY <1>4, LenProperties DEF LongInv, RegularOK, Reports
  <2>4. WholeText' = t
    BY <1>1 DEF WholeText, Chunk
  <2>5. shift + last \in Nat /\ e \in Nat \X words
    BY <2>1, <2>2
  <2>6. /\ found' \in Seq(Nat \X words) /\ Len(found') = n + 1 /\ found'[n + 1] = e
        /\ \A j \in 1..n : found'[j] = found[j]
    BY <1>1, <1>4, <2>3, <2>5, AppendProperties
  <2>7. Behind = IF n = 0 THEN from ELSE found[n][1] + 1
    BY <2>3, EmptySeq DEF Behind
  <2>8. Behind' = shift + last + 1
    <3>1. found' # <<>>
      BY <2>3, <2>6, EmptySeq
    <3>2. e[1] = shift + last
      OBVIOUS
    <3>3. found'[Len(found')][1] = shift + last
      BY <2>6, <3>2
    <3> QED
      BY <3>1, <3>3 DEF Behind
  <2> HIDE DEF t
  <2>9. ASSUME NEW j \in 1..Len(found')
        PROVE  /\ found'[j][1] < Len(t) /\ EndsAt(found'[j][2], t, found'[j][1] + 1)
               /\ (IF j = 1 THEN from ELSE found'[j - 1][1] + 1) + Len(found'[j][2])
                    <= found'[j][1] + 1
    <3>1. CASE j \in 1..n
      <4>1. found'[j] = found[j] /\ (j # 1 => found'[j - 1] = found[j - 1])
        <5>1. j # 1 => j - 1 \in 1..n
          BY <2>3, <3>1
        <5> QED
          BY <2>6, <3>1, <5>1
      <4> QED
        BY <2>3, <3>1, <4>1 DEF Reports, t
    <3>2. CASE j = n + 1
      <4>1. found'[j] = e /\ e[1] = shift + last /\ e[2] = p
        BY <2>6, <3>2
      <4>2. (IF j = 1 THEN from ELSE found'[j - 1][1] + 1) = Behind
        <5>1. CASE n = 0
          BY <2>7, <3>2, <5>1
        <5>2. CASE n # 0
          <6>1. j # 1 /\ j - 1 = n /\ n \in 1..n
            BY <2>3, <3>2, <5>2
          <6> QED
            BY <2>6, <2>7, <5>2, <6>1
        <5> QED
          BY <5>1, <5>2
      <4>3. shift + last < Len(t)
        BY <2>1, <2>2
      <4> QED
        BY <2>2, <4>1, <4>2, <4>3
    <3> QED
      BY <2>3, <2>6, <3>1, <3>2
  <2>10. Reports'
    BY <1>1, <2>4, <2>6, <2>9 DEF Reports
  <2>11. Passed' = last + 1 /\ shift' + Passed' = shift + last + 1
    BY <1>1, <2>1, <2>2 DEF Passed
  <2>12. OnPath(t, shift + last + 1, shift + last + 1, Root)
    <3>1. shift + last + 1 \in Nat
      BY <2>5
    <3> QED
      BY <3>1, PathTop DEF LongInv
  <2>13. Searching'
    BY <1>1, <2>4, <2>8, <2>11, <2>12 DEF Searching, OnPath, Saved
  <2> QED
    BY <1>1, <2>3, <2>10, <2>13 DEF RegularOK
<1> QED
    BY <1>1, <1>2, <1>3, <1>4 DEF LongInv

\* The saved word is reported.
LEMMA OutputKeeps ==
    ASSUME LongInv, Output, pc # "deleted", last_node # NULL
    PROVE  LongInv'
<1>1. last_index \in Int /\ last_index >= -1 /\ Report(last_index, last_node)
    BY DEF LongInv, PlaceOK, Output
<1>2. ASSUME regular
      PROVE  /\ last_index \in 0..(end - 1) /\ last_node \in words
             /\ EndsAt(last_node, WholeText, shift + last_index + 1)
             /\ Behind + Len(last_node) <= shift + last_index + 1
  <2>1. Searching
    BY <1>2, Going DEF Stuck
  <2> QED
    BY <2>1 DEF Searching, Saved
<1> QED
    BY <1>1, <1>2, ReportKeeps

\* OutputSuffix.
LEMMA SuffixKeeps == LongInv /\ OutputSuffix => LongInv'
<1> SUFFICES ASSUME LongInv, OutputSuffix PROVE LongInv'
    OBVIOUS
<1> DEFINE q == Linked(state)
           f == nodes[q].fail
<1>1. /\ pc = "next" /\ index < end /\ q # NULL /\ f # NULL /\ f # Root /\ nodes[f].eow
      /\ Report(index, f)
    BY DEF OutputSuffix, EndsHere
<1>2. index \in Int /\ index >= -1
    BY DEF LongInv, PlaceOK
<1>3. ASSUME regular
      PROVE  /\ index \in 0..(end - 1) /\ f \in words
             /\ EndsAt(f, WholeText, shift + index + 1)
             /\ Behind + Len(f) <= shift + index + 1
  <2> DEFINE t == WholeText
             r == shift + index
             b == Behind
  <2>1. /\ Searching /\ Passed = index /\ index \in Nat /\ r \in 0..(Len(t) - 1)
        /\ Letter = t[r + 1] /\ q = Append(state, Letter) /\ q \in DOMAIN nodes
    BY <1>1, <1>3, AtHand
  <2>2. t \in Seq(Letters) /\ b \in Nat /\ end \in Nat
    BY <1>1, <1>3, Going
  <2>3. DictOK
    BY DEF LongInv
  <2> HIDE DEF t, r, b, q
  <2>4. OnPath(t, r, b, state)
    BY <2>1 DEF Searching, t, r, b
  <2>5. OnPath(t, r + 1, b, q)
    <3>1. Append(state, t[r + 1]) \in DOMAIN nodes
      BY <2>1
    <3> QED
      BY <2>1, <2>2, <2>3, <2>4, <3>1, PathDown
  <2>6. r + 1 \in Nat
    BY <2>1
  <2>7. OnPath(t, r + 1, b, f)
    BY <1>1, <2>2, <2>3, <2>5, <2>6, PathBack
  <2>8. f \in words
    BY <1>1, <2>3, <2>7, DictNodes DEF OnPath
  <2>9. index \in 0..(end - 1)
    BY <1>1, <2>1, <2>2
  <2> QED
    BY <2>7, <2>8, <2>9 DEF OnPath, t, r, b
<1> HIDE DEF f
<1> QED
    BY <1>1, <1>2, <1>3, ReportKeeps

\* CallNext.
LEMMA CallKeeps == LongInv /\ CallNext => LongInv'
<1> SUFFICES ASSUME LongInv, CallNext PROVE LongInv'
    OBVIOUS
<1>1. CASE last_node # NULL
    BY <1>1, OutputKeeps DEF CallNext
<1>2. CASE last_node = NULL
  <2>1. pc' = "next"
    BY <1>2 DEF CallNext
  <2> QED
    BY <2>1, EnterKeeps
<1> QED
    BY <1>1, <1>2

\* Mismatch.
LEMMA MismatchKeeps == LongInv /\ Mismatch => LongInv'
<1> SUFFICES ASSUME LongInv, Mismatch PROVE LongInv'
    OBVIOUS
<1>1. CASE last_node # NULL
    BY <1>1, OutputKeeps DEF Mismatch
<1>2. CASE last_node = NULL
  <2>1. /\ pc = "next" /\ index < end /\ pc' = "back"
        /\ UNCHANGED <<words, nodes, input, index, end, shift, state, last_node, last_index>>
        /\ UNCHANGED <<from, prior, found, regular>>
    BY <1>2 DEF Mismatch, iter, history
  <2>2. PlaceOK'
    BY <2>1 DEF LongInv, PlaceOK
  <2>3. ASSUME regular PROVE Searching'
    <3>1. Searching
      BY <2>1, <2>3, AtHand
    <3>2. WholeText' = WholeText /\ Behind' = Behind /\ Passed' = Passed
      BY <2>1 DEF WholeText, Chunk, Behind, Passed
    <3> QED
      BY <2>1, <3>1, <3>2 DEF Searching, OnPath, Saved
  <2> QED
    BY <2>1, <2>2, <2>3, FrameKeeps
<1> QED
    BY <1>1, <1>2

\* GoBack.
LEMMA BackKeeps == LongInv /\ GoBack => LongInv'
<1> SUFFICES ASSUME LongInv, GoBack PROVE LongInv'
    OBVIOUS
<1> DEFINE f == nodes[state].fail
<1>1. /\ pc = "back" /\ UNCHANGED <<words, nodes, input, end, shift, last_node, last_index>>
      /\ UNCHANGED <<from, prior, found, regular>>
      /\ f = NULL => state' = Root /\ index' = index + 1 /\ pc' = "next"
      /\ f # NULL => state' = f /\ index' = index /\ pc' \in {"next", "back"}
    BY DEF GoBack, history
<1> HIDE DEF f
<1>2. PlaceOK'
    BY <1>1 DEF LongInv, PlaceOK
<1>3. index < end
    BY <1>1 DEF LongInv, PlaceOK
<1>4. ASSUME regular PROVE Searching'
  <2> DEFINE t == WholeText
             r == shift + index
             b == Behind
  <2>1. Searching /\ Passed = index /\ index \in Nat /\ r \in 0..(Len(t) - 1)
    BY <1>1, <1>3, <1>4, AtHand
  <2>2. t \in Seq(Letters) /\ b \in Nat /\ end \in Nat /\ shift \in Nat
    BY <1>1, <1>4, Going
  <2>3. DictOK
    BY DEF LongInv
  <2>4. WholeText' = t /\ Behind' = b
    BY <1>1 DEF WholeText, Chunk, Behind
  <2>5. pc' # "idle"
    BY <1>1
  <2> HIDE DEF t, r, b
  <2>6. OnPath(t, r, b, state) /\ Saved(t, r, b, last_node, shift + last_index + 1)
        /\ (last_node # NULL => last_index \in 0..(end - 1))
    BY <2>1 DEF Searching, t, r, b
  <2>7. r \in Nat
    BY <2>1
  <2>8. CASE f = NULL
    <3>1. Passed' = index + 1 /\ shift' + Passed' = r + 1
      BY <1>1, <1>3, <2>1, <2>2, <2>8 DEF Passed, r
    <3>2. b <= r + 1
      BY <2>2, <2>3, <2>6, <2>7, DictNodes, LenProperties DEF OnPath
    <3>3. OnPath(t, r + 1, b, Root)
      BY <2>2, <2>3, <2>7, <3>2, PathTop
    <3>4. 1..r \subseteq 1..(r + 1)
      BY <2>7
    <3>5. Saved(t, r + 1, b, last_node, shift + last_index + 1)
      BY <2>6, <3>4 DEF Saved
    <3> QED
      BY <1>1, <2>4, <2>5, <2>6, <2>8, <3>1, <3>3, <3>5 DEF Searching, OnPath, Saved
  <2>9. CASE f # NULL
    <3>1. Passed' = index /\ shift' + Passed' = r
      BY <1>1, <1>3, <2>1, <2>2, <2>9 DEF Passed, r
    <3>2. OnPath(t, r, b, f)
      BY <2>2, <2>3, <2>6, <2>7, <2>9, PathBack DEF f
    <3> QED
      BY <1>1, <2>4, <2>5, <2>6, <2>9, <3>1, <3>2 DEF Searching, OnPath, Saved
  <2> QED
    BY <2>8, <2>9
<1> QED
    BY <1>1, <1>2, <1>4, FrameKeeps

\* EndOfString.
LEMMA EndKeeps == LongInv /\ EndOfString => LongInv'
<1> SUFFICES ASSUME LongInv, EndOfString PROVE LongInv'
    OBVIOUS
<1>1. CASE last_node # NULL
    BY <1>1, OutputKeeps DEF EndOfString
<1>2. CASE last_node = NULL
  <2>1. /\ pc = "next" /\ index >= end /\ pc' = "idle"
        /\ UNCHANGED <<words, nodes, input, index, end, shift, state, last_node, last_index>>
        /\ UNCHANGED <<from, prior, found, regular>>
    BY <1>2 DEF EndOfString, iter, history
  <2>2. PlaceOK'
    BY <2>1 DEF LongInv, PlaceOK
  <2>3. ASSUME regular PROVE Stuck' \/ Searching'
    <3>1. /\ (Stuck \/ Searching) /\ end \in Nat /\ index \in Int
      BY <2>1, <2>3, Going
    <3>2. WholeText' = WholeText /\ Behind' = Behind
      BY <2>1 DEF WholeText, Chunk, Behind
    <3>3. Passed' = Passed
      BY <2>1, <3>1 DEF Passed
    <3>4. CASE Stuck
      BY <2>1, <3>4 DEF Stuck
    <3>5. CASE Searching
      BY <1>2, <2>1, <3>2, <3>3, <3>5 DEF Searching, OnPath, Saved
    <3> QED
      BY <3>1, <3>4, <3>5
  <2> QED
    BY <2>1, <2>2, <2>3, FrameKeeps
<1> QED
    BY <1>1, <1>2

-----------------------------------------------------------------------------
(* set(), and the end. *)

\* Of a longer text the same letters are read.
LEMMA EndsMore ==
    ASSUME NEW t, NEW u, NEW p \in Seq(Letters), NEW n \in Nat, NEW r \in Nat, n <= r,
           \A i \in 1..r : u[i] = t[i], EndsAt(p, t, n)
    PROVE  EndsAt(p, u, n)
<1>1. Len(p) \in Nat /\ Len(p) <= n /\ \A i \in 1..Len(p) : t[n - Len(p) + i] = p[i]
    BY LenProperties DEF EndsAt
<1>2. \A i \in 1..Len(p) : n - Len(p) + i \in 1..r
    BY <1>1
<1> QED
    BY <1>1, <1>2 DEF EndsAt

\* What every set() does.
LEMMA SetFacts ==
    ASSUME LongInv, NEW text \in Texts, Set(text)
    PROVE  /\ pc = "idle" /\ pc' = pc /\ input' \in Seq(Letters) /\ end' = Len(input')
           /\ end' \in Nat /\ index' = -1 /\ DictOK' /\ UNCHANGED <<words, nodes>>
<1>1. text \in Seq(Letters) /\ Len(text) \in Nat
    BY TextsAssumption, LenProperties
<1> QED
    BY <1>1 DEF Set, LongInv, DictOK

\* set() without reset: the text goes on after a full search.
LEMMA SetKeeps ==
    ASSUME NEW text \in Texts, LongInv, automaton_search_iter_long_set(text)
    PROVE  LongInv'
<1>1. /\ pc = "idle" /\ pc' = pc /\ input' \in Seq(Letters) /\ end' = Len(input')
      /\ end' \in Nat /\ index' = -1 /\ DictOK' /\ UNCHANGED <<words, nodes>>
    BY SetFacts DEF automaton_search_iter_long_set
<1>2. /\ shift' = (shift + IF index >= 0 THEN index ELSE 0)
      /\ UNCHANGED <<state, last_node, last_index>>
    BY DEF automaton_search_iter_long_set, Shifted
<1>3. PlaceOK'
    BY <1>1, <1>2 DEF LongInv, PlaceOK
<1>4. CASE ~(regular /\ Drained)
  <2>1. ~regular'
    BY <1>4 DEF automaton_search_iter_long_set
  <2> QED
    BY <1>1, <1>3, <2>1 DEF LongInv
<1>5. CASE regular /\ Drained
  <2> DEFINE t == WholeText
             u == WholeText'
             b == Behind
             r == Len(t)
  <2>1. /\ prior' = WholeText /\ UNCHANGED <<from, found, regular>>
        /\ index = end /\ from <= end
    BY <1>5 DEF automaton_search_iter_long_set, Drained, WholeText
  <2>2. /\ t \in Seq(Letters) /\ r = shift + end /\ end \in Nat /\ shift \in Nat
        /\ b \in Nat /\ (Stuck \/ Searching) /\ r \in Nat
    BY <1>1, <1>5, Going, LenProperties
  <2>3. RegularOK /\ found \in Seq(Nat \X words) /\ from \in Nat
    BY <1>5 DEF LongInv, RegularOK, Reports
  <2>4. Searching /\ Passed = end
    <3>1. ~Stuck
      BY <2>1, <2>2, <2>3 DEF Stuck
    <3>2. Passed = end
      BY <1>1, <2>1, <2>2 DEF Passed
    <3> QED
      BY <2>2, <3>1, <3>2
  <2>5. shift' = r /\ prior' = t
    BY <1>2, <2>1, <2>2
  <2>6. /\ u \in Seq(Letters) /\ Len(u) = r + end' /\ \A i \in 1..r : u[i] = t[i]
    <3>1. u = t \o SubSeq(input', 1, end')
      BY <2>5 DEF u, WholeText, Chunk
    <3>2. end' \in 0..Len(input')
      BY <1>1
    <3> QED
      BY <1>1, <2>2, <3>1, <3>2, JoinFacts DEF r
  <2>7. Behind' = b /\ Passed' = 0 /\ shift' + Passed' = r
    BY <1>1, <2>1, <2>2, <2>5 DEF Behind, Passed
  <2> HIDE DEF t, u, b, r
  <2>8. OnPath(t, r, b, state) /\ last_node = NULL
    BY <1>1, <2>2, <2>4 DEF Searching, t, b, r
  <2>9. OnPath(u, r, b, state)
    <3>1. state \in Seq(Letters)
      BY <2>8, DictNodes DEF OnPath, LongInv
    <3> QED
      BY <2>2, <2>6, <2>8, <3>1, EndsMore DEF OnPath
  <2>10. Searching'
    <3>1. nodes' = nodes /\ state' = state /\ last_node' = NULL
      BY <1>1, <1>2, <2>8
    <3> QED
      BY <2>7, <2>9, <3>1 DEF Searching, OnPath, Saved, u, b
  <2>11. Reports'
    <3>1. ASSUME NEW j \in 1..Len(found)
          PROVE  /\ found[j][1] < Len(u) /\ EndsAt(found[j][2], u, found[j][1] + 1)
                 /\ (IF j = 1 THEN from ELSE found[j - 1][1] + 1) + Len(found[j][2])
                      <= found[j][1] + 1
      <4>1. /\ found[j][1] < r /\ EndsAt(found[j][2], t, found[j][1] + 1)
            /\ (IF j = 1 THEN from ELSE found[j - 1][1] + 1) + Len(found[j][2])
                      <= found[j][1] + 1
        BY <2>3 DEF RegularOK, Reports, t, r
      <4>2. found[j] \in Nat \X words
        BY <2>3, ElementOfSeq
      <4>3. found[j][1] + 1 \in Nat /\ found[j][1] \in Nat /\ found[j][2] \in Seq(Letters)
        BY <4>2, DictNodes DEF LongInv
      <4>4. found[j][1] < Len(u) /\ found[j][1] + 1 <= r
        <5>1. found[j][1] \in Nat /\ r \in Nat /\ end' \in Nat /\ Len(u) = r + end'
          BY <1>1, <2>2, <2>6, <4>3
        <5>2. found[j][1] < r
          BY <4>1
        <5> QED
          BY ONLY <5>1, <5>2
      <4>5. EndsAt(found[j][2], u, found[j][1] + 1)
        BY <2>2, <2>6, <4>1, <4>3, <4>4, EndsMore
      <4> QED
        BY <4>1, <4>4, <4>5
    <3> QED
      BY <1>1, <2>1, <2>3, <3>1 DEF Reports, u
  <2>12. pc' # "deleted" /\ prior' \in Seq(Letters) /\ shift' = Len(prior') /\ from' \in Nat
    BY <1>1, <2>1, <2>2, <2>3, <2>5 DEF t, r
  <2> QED
    BY <1>1, <1>3, <2>10, <2>11, <2>12 DEF LongInv, RegularOK
<1> QED
    BY <1>4, <1>5

\* set() with reset: another text.
LEMMA ResetKeeps ==
    ASSUME NEW text \in Texts, LongInv, automaton_search_iter_long_set_reset(text)
    PROVE  LongInv'
<1>1. /\ pc = "idle" /\ pc' = pc /\ input' \in Seq(Letters) /\ end' = Len(input')
      /\ end' \in Nat /\ index' = -1 /\ DictOK' /\ UNCHANGED <<words, nodes>>
    BY SetFacts DEF automaton_search_iter_long_set_reset
<1>2. /\ state' = Root /\ shift' = 0 /\ last_node' = NULL /\ last_index' = -1
      /\ from' = 0 /\ prior' = <<>> /\ found' = <<>>
    BY DEF automaton_search_iter_long_set_reset, Forget
<1>3. PlaceOK'
    BY <1>1, <1>2 DEF LongInv, PlaceOK
<1>4. Behind' = 0 /\ Passed' = 0 /\ shift' + Passed' = 0
    BY <1>1, <1>2 DEF Behind, Passed
<1>5. OnPath(WholeText', 0, 0, Root)
    BY PathTop DEF LongInv
<1>6. Searching'
    BY <1>1, <1>2, <1>4, <1>5 DEF Searching, OnPath, Saved
<1>7. Len(found') = 0 /\ found' \in Seq(Nat \X words') /\ 1..0 = {}
    BY <1>2
<1>8. Reports'
    BY <1>7 DEF Reports
<1> QED
    BY <1>1, <1>2, <1>3, <1>6, <1>8 DEF LongInv, RegularOK

\* LongInv holds when the iterator is created.
LEMMA LongInit == Init => LongInv
<1> SUFFICES ASSUME Init PROVE LongInv
    OBVIOUS
<1>1. /\ words \in Dictionaries /\ nodes = Built(words) /\ input \in Texts
      /\ from \in 0..Len(input) /\ end \in 0..Len(input) /\ index = from - 1 /\ shift = 0
      /\ state = Root /\ last_node = NULL /\ last_index = -1
      /\ pc = "idle" /\ prior = <<>> /\ found = <<>>
    BY DEF Init
<1>2. DictOK /\ input \in Seq(Letters) /\ Len(input) \in Nat
    BY <1>1, TextsAssumption, LenProperties DEF DictOK
<1>3. PlaceOK
    BY <1>1, <1>2 DEF PlaceOK
<1>4. Len(found) = 0 /\ found \in Seq(Nat \X words) /\ 1..0 = {} /\ Len(prior) = 0
    BY <1>1
<1>5. Reports
    BY <1>4 DEF Reports
<1>6. CASE from > end
  <2>1. index >= end
    BY <1>1, <1>2, <1>6
  <2> QED
    BY <1>1, <1>2, <1>3, <1>4, <1>5, <1>6, <2>1 DEF LongInv, RegularOK, Stuck
<1>7. CASE from <= end
  <2>1. Behind = from /\ Passed = from /\ shift + Passed = from /\ from \in Nat
    BY <1>1, <1>2, <1>7 DEF Behind, Passed
  <2>2. OnPath(WholeText, from, from, Root)
    BY <1>2, <2>1, PathTop
  <2>3. Searching
    BY <1>1, <2>1, <2>2 DEF Searching, Saved
  <2> QED
    BY <1>1, <1>2, <1>3, <1>4, <1>5, <2>1, <2>3 DEF LongInv, RegularOK
<1> QED
    BY <1>1, <1>2, <1>6, <1>7

\* Every step keeps LongInv.
LEMMA LongNext == LongInv /\ [Next]_vars => LongInv'
<1> SUFFICES ASSUME LongInv, [Next]_vars PROVE LongInv'
    OBVIOUS
<1>1. CASE CallNext
    BY <1>1, CallKeeps
<1>2. CASE Step
    BY <1>2, StepKeeps
<1>3. CASE OutputSuffix
    BY <1>3, SuffixKeeps
<1>4. CASE Mismatch
    BY <1>4, MismatchKeeps
<1>5. CASE GoBack
    BY <1>5, BackKeeps
<1>6. CASE EndOfString
    BY <1>6, EndKeeps
<1>7. ASSUME NEW text \in Texts, automaton_search_iter_long_set(text) PROVE LongInv'
    BY <1>7, SetKeeps
<1>8. ASSUME NEW text \in Texts, automaton_search_iter_long_set_reset(text) PROVE LongInv'
    BY <1>8, ResetKeeps
<1>9. ASSUME NEW text \in Texts, automaton_search_iter_long_set_refused(text) PROVE LongInv'
  <2>1. UNCHANGED <<words, nodes, input, index, end, shift, state, last_node, last_index>>
        /\ UNCHANGED <<pc, from, prior, found, regular>>
    BY <1>9 DEF automaton_search_iter_long_set_refused, iter
  <2> QED
    BY <2>1 DEF LongInv, DictOK, PlaceOK, RegularOK, Reports, Stuck, Searching, Saved, OnPath,
                WholeText, Chunk, Behind, Passed
<1>10. CASE automaton_search_iter_long_del
  <2>1. /\ UNCHANGED <<words, nodes>> /\ input' = <<>> /\ end' = 0 /\ index' = -1 /\ shift' = 0
        /\ last_index' = -1 /\ pc' = "deleted" /\ ~regular'
    BY <1>10 DEF automaton_search_iter_long_del
  <2>2. input' \in Seq(Letters) /\ Len(input') = 0
    BY <2>1
  <2> QED
    BY <2>1, <2>2 DEF LongInv, DictOK, PlaceOK
<1>11. CASE UNCHANGED vars
  <2>1. UNCHANGED <<words, nodes, input, index, end, shift, state, last_node, last_index>>
        /\ UNCHANGED <<pc, from, prior, found, regular>>
    BY <1>11 DEF vars, iter, history
  <2> QED
    BY <2>1 DEF LongInv, DictOK, PlaceOK, RegularOK, Reports, Stuck, Searching, Saved, OnPath,
                WholeText, Chunk, Behind, Passed
<1> QED
    BY <1>1, <1>2, <1>3, <1>4, <1>5, <1>6, <1>7, <1>8, <1>9, <1>10, <1>11 DEF Next, Run

\* LongInv says that the matches are occurrences, one behind the other.
LEMMA LongMatches == LongInv => MatchesOK
<1> SUFFICES ASSUME LongInv, regular
             PROVE  /\ ToSet(found) \subseteq Occurrences(words, WholeText)
                    /\ \A j \in DOMAIN found :
                        First(found[j]) >= IF j = 1 THEN from ELSE found[j - 1][1] + 1
    BY DEF MatchesOK
<1>1. RegularOK /\ DictOK /\ PlaceOK
    BY DEF LongInv
<1>2. /\ WholeText \in Seq(Letters) /\ found \in Seq(Nat \X words) /\ from \in Nat
      /\ Len(WholeText) \in Nat
    BY <1>1, WholeFacts, LenProperties DEF RegularOK, Reports
<1>3. ASSUME NEW j \in DOMAIN found
      PROVE  /\ found[j] \in Occurrences(words, WholeText)
             /\ First(found[j]) >= IF j = 1 THEN from ELSE found[j - 1][1] + 1
  <2> DEFINE n == found[j][1]
             w == found[j][2]
             k == IF j = 1 THEN from ELSE found[j - 1][1] + 1
  <2>1. j \in 1..Len(found) /\ found[j] \in Nat \X words
    BY <1>2, LenProperties, ElementOfSeq
  <2>2. found[j] = <<n, w>> /\ n \in Nat /\ w \in words
    BY <2>1
  <2>3. w \in Seq(Letters) /\ Len(w) \in Nat /\ w # <<>>
    BY <1>1, <2>2, DictNodes, LenProperties
  <2>4. n < Len(WholeText) /\ EndsAt(w, WholeText, n + 1) /\ k + Len(w) <= n + 1
    BY <1>1, <2>1 DEF RegularOK, Reports
  <2>5. k \in Nat
    <3>1. CASE j = 1
      BY <1>2, <3>1
    <3>2. CASE j # 1
      <4>1. j - 1 \in 1..Len(found)
        BY <1>2, <2>1, <3>2, LenProperties
      <4>2. found[j - 1] \in Nat \X words
        BY <1>2, <4>1, ElementOfSeq
      <4>3. found[j - 1][1] \in Nat
        BY <4>2
      <4> QED
        BY <3>2, <4>3
    <3> QED
      BY <3>1, <3>2
  <2>6. Occurs(w, WholeText, n) /\ n \in 0..(Len(WholeText) - 1)
    <3>1. n + 1 \in 1..Len(WholeText) /\ (n + 1) - 1 = n
      <4>1. n \in Nat /\ n < Len(WholeText) /\ Len(WholeText) \in Nat
        BY <1>2, <2>2, <2>4
      <4> HIDE DEF n
      <4> QED
        BY ONLY <4>1
    <3> QED
      BY <1>2, <2>2, <2>3, <2>4, <3>1, EndsOccurs
  <2>7. found[j] \in Occurrences(words, WholeText)
    BY <2>2, <2>6 DEF Occurrences
  <2> HIDE DEF k
  <2>8. First(found[j]) >= k
    BY <2>2, <2>3, <2>4, <2>5 DEF First
  <2> QED
    BY <2>7, <2>8 DEF k
<1>4. ToSet(found) \subseteq Occurrences(words, WholeText)
    BY <1>3 DEF ToSet
<1> QED
    BY <1>3, <1>4

(***************************************************************************)
(* iter_long(): every match reported is an occurrence of a word, and each  *)
(* begins behind the end of the one before, also over several strings.     *)
(***************************************************************************)
THEOREM MatchesCorrect == Spec => []MatchesOK
<1>1. Init => LongInv
    BY LongInit
<1>2. LongInv /\ [Next]_vars => LongInv'
    BY LongNext
<1>3. LongInv => MatchesOK
    BY LongMatches
<1> QED
    BY <1>1, <1>2, <1>3, PTL DEF Spec

-----------------------------------------------------------------------------
(* The reference: the leftmost matches, each the longest that begins there. *)

\* The words that begin behind the first s letters.
LEMMA BeginningIs ==
    ASSUME DictOK, NEW t \in Seq(Letters), NEW s \in Nat, NEW w
    PROVE  w \in Beginning(words, t, s) <=> /\ w \in words /\ Len(w) \in Nat /\ Len(w) >= 1
                                     /\ s + Len(w) <= Len(t) /\ EndsAt(w, t, s + Len(w))
<1>1. CASE w \notin words
    BY <1>1 DEF Beginning
<1>2. CASE w \in words
  <2> DEFINE n == s + Len(w)
  <2>1. w \in Seq(Letters) /\ Len(w) \in Nat /\ Len(w) >= 1 /\ Len(t) \in Nat
    <3>1. w \in Seq(Letters) /\ w # <<>>
      BY <1>2, DictNodes
    <3>2. Len(w) \in Nat /\ Len(w) # 0 /\ Len(t) \in Nat
      BY <3>1, LenProperties, EmptySeq
    <3> QED
      BY <3>1, <3>2
  <2>2. s + Len(w) - 1 = n - 1
    OBVIOUS
  <2>3. w \in Beginning(words, t, s) <=> n - 1 \in 0..(Len(t) - 1) /\ Occurs(w, t, n - 1)
    BY <1>2, <2>2 DEF Beginning, Occurrences
  <2>4. n - 1 \in 0..(Len(t) - 1) <=> n <= Len(t)
    BY <2>1
  <2>5. n <= Len(t) => n \in 1..Len(t)
    BY <2>1
  <2> HIDE DEF n
  <2>6. n <= Len(t) => (EndsAt(w, t, n) <=> Occurs(w, t, n - 1))
    BY <2>1, <2>5, EndsOccurs
  <2>7. w \in Beginning(words, t, s) <=> n <= Len(t) /\ EndsAt(w, t, n)
    BY <2>3, <2>4, <2>6
  <2> QED
    BY <1>2, <2>1, <2>7 DEF n
<1> QED
    BY <1>1, <1>2

\* There is a longest of them.
LEMMA LongestIs ==
    ASSUME DictOK, NEW t \in Seq(Letters), NEW s \in Nat, Beginning(words, t, s) # {}
    PROVE  /\ Longest(words, t, s) \in Beginning(words, t, s)
           /\ \A v \in Beginning(words, t, s) : Len(v) <= Len(Longest(words, t, s))
<1> DEFINE B == Beginning(words, t, s)
           T == {Len(v) : v \in B}
<1>1. \A v \in B : Len(v) \in 0..Len(t)
  <2>1. Len(t) \in Nat
    BY LenProperties
  <2> TAKE v \in B
  <2>2. Len(v) \in Nat /\ s + Len(v) <= Len(t)
    BY BeginningIs
  <2> QED
    BY <2>1, <2>2
<1>2. T \subseteq 0..Len(t) /\ T # {} /\ Len(t) \in Nat
  <2>1. B # {} /\ Len(t) \in Nat
    BY LenProperties
  <2> HIDE DEF B
  <2> QED
    BY <1>1, <2>1
<1> HIDE DEF B
<1>3. Max(T) \in T /\ \A y \in T : Max(T) >= y
  <2> HIDE DEF T
  <2> QED
    BY <1>2, MaxExists
<1>4. PICK w \in B : Len(w) = Max(T)
    BY <1>3
<1>5. \A v \in B : Len(v) <= Len(w)
  <2> TAKE v \in B
  <2>1. Len(v) \in T /\ Len(v) \in Nat /\ Len(w) \in Nat
    BY <1>1
  <2>2. Max(T) >= Len(v)
    BY <1>3, <2>1
  <2> HIDE DEF T
  <2> QED
    BY <1>4, <2>1, <2>2
<1>6. Longest(words, t, s) = CHOOSE x \in B : \A v \in B : Len(v) <= Len(x)
    BY DEF Longest, B
<1>7. Longest(words, t, s) \in B /\ \A v \in B : Len(v) <= Len(Longest(words, t, s))
    BY <1>4, <1>5, <1>6
<1> QED
    BY <1>7 DEF B

\* And only one.
LEMMA LongestOnly ==
    ASSUME DictOK, NEW t \in Seq(Letters), NEW s \in Nat, NEW w \in Beginning(words, t, s),
           \A v \in Beginning(words, t, s) : Len(v) <= Len(w)
    PROVE  Longest(words, t, s) = w
<1> DEFINE x == Longest(words, t, s)
<1>1. x \in Beginning(words, t, s) /\ Len(w) <= Len(x)
    BY LongestIs
<1> HIDE DEF x
<1>2. /\ w \in words /\ Len(w) \in Nat /\ EndsAt(w, t, s + Len(w))
      /\ x \in words /\ Len(x) \in Nat /\ EndsAt(x, t, s + Len(x))
    BY <1>1, BeginningIs
<1>3. Len(x) <= Len(w)
    BY <1>1
<1>4. Len(x) = Len(w)
    BY <1>1, <1>2, <1>3
<1>5. x \in Seq(Letters) /\ w \in Seq(Letters) /\ s + Len(w) \in Nat
    BY <1>2, DictNodes
<1>6. x = w
    BY <1>2, <1>4, <1>5, EndsSame
<1> QED
    BY <1>6 DEF x

\* The matches from place s, given those from later places.
ScanAt(t, f, s) ==
    IF s = Len(t) THEN <<>>
    ELSE IF Beginning(words, t, s) = {} THEN f[s + 1]
    ELSE LET w == Longest(words, t, s) IN <<<<s + Len(w) - 1, w>>>> \o f[s + Len(w)]

\* It looks at later places only.
LEMMA ScanLater ==
    ASSUME DictOK, NEW t \in Seq(Letters), NEW s \in 0..Len(t), NEW f
    PROVE  /\ (\A x \in (s + 1)..Len(t) : f[x] \in Seq(Nat \X words)) =>
                    ScanAt(t, f, s) \in Seq(Nat \X words)
           /\ \A g : (\A x \in (s + 1)..Len(t) : f[x] = g[x]) => ScanAt(t, f, s) = ScanAt(t, g, s)
<1>1. Len(t) \in Nat /\ s \in Nat
    BY LenProperties
<1>2. CASE s = Len(t)
    BY <1>2 DEF ScanAt
<1>3. CASE s # Len(t) /\ Beginning(words, t, s) = {}
  <2>1. s + 1 \in (s + 1)..Len(t)
    BY <1>1, <1>3
  <2> QED
    BY <1>3, <2>1 DEF ScanAt
<1>4. CASE s # Len(t) /\ Beginning(words, t, s) # {}
  <2> DEFINE w == Longest(words, t, s)
             e == <<s + Len(w) - 1, w>>
             n == s + Len(w)
  <2>1. w \in words /\ Len(w) \in Nat /\ Len(w) >= 1 /\ s + Len(w) <= Len(t)
    <3>1. w \in Beginning(words, t, s)
      BY <1>1, <1>4, LongestIs
    <3> HIDE DEF w
    <3> QED
      BY <1>1, <3>1, BeginningIs
  <2>2. \A g : ScanAt(t, g, s) = <<e>> \o g[n]
    BY <1>4 DEF ScanAt
  <2> HIDE DEF w
  <2>3. e \in Nat \X words
    BY <1>1, <2>1
  <2>4. n \in (s + 1)..Len(t)
    BY <1>1, <2>1
  <2> HIDE DEF e, n
  <2>5. <<e>> \in Seq(Nat \X words)
    BY <2>3
  <2>6. ASSUME f[n] \in Seq(Nat \X words) PROVE <<e>> \o f[n] \in Seq(Nat \X words)
    BY <2>5, <2>6, ConcatProperties
  <2> QED
    BY <2>2, <2>4, <2>6
<1> QED
    BY <1>2, <1>3, <1>4

\* Leftmost goes through the text from its end.
LEMMA ScanSteps ==
    ASSUME DictOK, NEW t \in Seq(Letters), NEW F, F = Leftmost(words, t)
    PROVE  /\ F \in [0..Len(t) -> Seq(Nat \X words)]
           /\ \A s \in 0..Len(t) : F[s] = ScanAt(t, F, s)
<1> DEFINE n == Len(t)
           V == Seq(Nat \X words)
           Good(m, f) == f \in [m..n -> V] /\ \A s \in m..n : f[s] = ScanAt(t, f, s)
           B(f) == [s \in 0..n |-> ScanAt(t, f, s)]
<1>1. n \in Nat
    BY LenProperties
<1>2. \E f : Good(0, f)
  <2> DEFINE T == {k \in 0..n : \E f : Good(n - k, f)}
  <2>1. 0 \in T
    <3> DEFINE f == [s \in n..n |-> <<>>]
    <3>1. f \in [n..n -> V] /\ \A s \in n..n : f[s] = <<>> /\ s = n
      BY <1>1
    <3>2. \A s \in n..n : ScanAt(t, f, s) = <<>>
      BY <3>1 DEF ScanAt
    <3>3. n - 0 = n /\ 0 \in 0..n
      BY <1>1
    <3> HIDE DEF f
    <3>4. Good(n, f)
      BY <3>1, <3>2
    <3> HIDE DEF Good, n
    <3> QED
      BY <3>3, <3>4
  <2>2. ASSUME NEW k \in 1..n, k - 1 \in T PROVE k \in T
    <3> DEFINE m == n - k
    <3>1. m \in 0..n /\ m # n /\ m \in Nat /\ n - (k - 1) = m + 1
      BY <1>1
    <3>2. PICK f : Good(m + 1, f)
      <4>1. PICK f : Good(n - (k - 1), f)
        BY <2>2
      <4> QED
        BY <3>1, <4>1
    <3> HIDE DEF m
    <3> DEFINE g == [s \in m..n |-> IF s = m THEN ScanAt(t, f, m) ELSE f[s]]
    <3>3. \A s \in m..n : s = m \/ s \in (m + 1)..n
      BY <1>1, <3>1
    <3>4. \A s \in (m + 1)..n : s \in m..n /\ s # m /\ s \in 0..n
      BY <1>1, <3>1
    <3>5. m \in m..n
      BY <1>1, <3>1
    <3>6. f \in [(m + 1)..n -> V] /\ \A s \in (m + 1)..n : f[s] = ScanAt(t, f, s)
      BY <3>2
    <3>7. ScanAt(t, f, m) \in V
      BY <3>1, <3>6, ScanLater
    <3>8. g[m] = ScanAt(t, f, m) /\ \A s \in (m + 1)..n : g[s] = f[s]
      BY <3>4, <3>5
    <3>9. g \in [m..n -> V]
      <4> HIDE DEF n, V
      <4> QED
        BY <3>3, <3>6, <3>7
    <3> HIDE DEF g
    <3>10. ASSUME NEW s \in m..n PROVE g[s] = ScanAt(t, g, s)
      <4>1. s \in 0..n
        BY <3>1, <3>3, <3>4
      <4>2. \A x \in (s + 1)..n : x \in (m + 1)..n
        BY <1>1, <3>1
      <4>3. ScanAt(t, f, s) = ScanAt(t, g, s)
        BY <3>8, <4>1, <4>2, ScanLater
      <4> QED
        BY <3>3, <3>6, <3>8, <4>3
    <3>11. Good(m, g)
      BY <3>9, <3>10
    <3> HIDE DEF Good
    <3> QED
      BY <3>11, <1>1 DEF m
  <2> HIDE DEF T
  <2>3. 0..n \subseteq T
    BY <1>1, <2>1, <2>2, UpTo
  <2>4. n \in 0..n /\ n - n = 0
    BY <1>1
  <2>5. n \in T
    BY <2>3, <2>4
  <2> HIDE DEF Good, n
  <2> QED
    BY <2>4, <2>5 DEF T
<1>3. PICK f : Good(0, f)
    BY <1>2
<1>4. f = B(f)
  <2>1. f = [s \in 0..n |-> f[s]]
    BY <1>3
  <2>2. \A s \in 0..n : f[s] = B(f)[s]
    BY <1>3
  <2> QED
    BY <2>1, <2>2
<1>5. F = CHOOSE g : g = B(g)
    BY DEF Leftmost, ScanAt
<1>6. F = B(F)
  <2> HIDE DEF B
  <2> QED
    BY <1>4, <1>5
<1>7. F = [s \in 0..n |-> F[s]] /\ \A s \in 0..n : F[s] = ScanAt(t, F, s)
    BY <1>6
<1> HIDE DEF B
<1> DEFINE T == {k \in 0..n : \A x \in (n - k)..n : F[x] \in V}
<1>8. 0 \in T
  <2>1. n \in 0..n /\ \A x \in (n - 0)..n : x = n
    BY <1>1
  <2>2. F[n] = <<>>
    BY <1>7, <2>1 DEF ScanAt
  <2>3. <<>> \in V /\ 0 \in 0..n
    BY <1>1
  <2> QED
    BY <2>1, <2>2, <2>3
<1>9. ASSUME NEW k \in 1..n, k - 1 \in T PROVE k \in T
  <2> DEFINE m == n - k
  <2>1. m \in 0..n /\ n - (k - 1) = m + 1 /\ k \in 0..n
    BY <1>1
  <2>2. \A x \in (m + 1)..n : F[x] \in V
    BY <1>9, <2>1
  <2>3. \A x \in m..n : x = m \/ x \in (m + 1)..n
    BY <1>1, <2>1
  <2> HIDE DEF m
  <2>4. F[m] \in V
    <3>1. ScanAt(t, F, m) \in V
      BY <2>1, <2>2, ScanLater
    <3> QED
      BY <1>7, <2>1, <3>1
  <2>5. \A x \in m..n : F[x] \in V
    BY <2>2, <2>3, <2>4
  <2> QED
    BY <2>1, <2>5 DEF m
<1> HIDE DEF T
<1>10. 0..n \subseteq T
    BY <1>1, <1>8, <1>9, UpTo
<1>11. \A s \in 0..n : F[s] \in V
  <2>1. n \in 0..n /\ n - n = 0
    BY <1>1
  <2>2. n \in T
    BY <1>10, <2>1
  <2>3. \A x \in (n - n)..n : F[x] \in V
    BY <2>2 DEF T
  <2> QED
    BY <2>1, <2>3
<1>12. F \in [0..n -> V]
  <2> HIDE DEF n, V
  <2> QED
    BY <1>7, <1>11
<1> QED
    BY <1>7, <1>12

\* No word begins behind the first b letters and not behind the first a.
Skipped(t, b, a) == \A s \in b..(a - 1) : Beginning(words, t, s) = {}

\* Places where nothing begins are passed over.
LEMMA ScanSkips ==
    ASSUME DictOK, NEW t \in Seq(Letters), NEW F, F = Leftmost(words, t),
           NEW b \in Nat, NEW a \in b..Len(t), Skipped(t, b, a)
    PROVE  F[b] = F[a]
<1> DEFINE n == a - b
           T == {k \in 0..n : F[b] = F[b + k]}
<1>1. Len(t) \in Nat /\ n \in Nat /\ a <= Len(t) /\ a \in Nat
    BY LenProperties
<1>2. 0 \in T
    BY <1>1
<1>3. ASSUME NEW k \in 1..n, k - 1 \in T PROVE k \in T
  <2> DEFINE s == b + (k - 1)
  <2>1. F[b] = F[s]
    BY <1>3
  <2>2. s \in 0..Len(t) /\ s # Len(t) /\ s \in b..(a - 1) /\ s + 1 = b + k /\ k \in 0..n
    BY <1>1
  <2> HIDE DEF s
  <2>3. F[s] = ScanAt(t, F, s) /\ Beginning(words, t, s) = {}
    BY <2>2, ScanSteps DEF Skipped
  <2>4. F[s] = F[s + 1]
    BY <2>2, <2>3 DEF ScanAt
  <2> QED
    BY <2>1, <2>2, <2>4
<1>4. 0..n \subseteq T
  <2> HIDE DEF T, n
  <2> QED
    BY <1>1, <1>2, <1>3, UpTo
<1>5. n \in T /\ b + n = a
  <2>1. n \in 0..n /\ b + n = a
    BY <1>1
  <2> HIDE DEF T, n
  <2> QED
    BY <1>4, <2>1
<1> HIDE DEF n
<1> QED
    BY <1>5

\* At the end there is nothing.
LEMMA ScanEnds ==
    ASSUME DictOK, NEW t \in Seq(Letters), NEW b \in 0..Len(t), Skipped(t, b, Len(t))
    PROVE  Leftmost(words, t)[b] = <<>>
<1> DEFINE F == Leftmost(words, t)
<1>1. Len(t) \in b..Len(t) /\ Len(t) \in 0..Len(t) /\ b \in Nat
    BY LenProperties
<1> HIDE DEF F
<1>2. F[b] = F[Len(t)]
    BY <1>1, ScanSkips DEF F
<1>3. F[Len(t)] = ScanAt(t, F, Len(t))
    BY <1>1, ScanSteps DEF F
<1>4. F[Len(t)] = <<>>
    BY <1>3 DEF ScanAt
<1> QED
    BY <1>2, <1>4 DEF F

\* The first match, and those behind it.
LEMMA ScanMatch ==
    ASSUME DictOK, NEW t \in Seq(Letters), NEW b \in Nat, NEW s \in b..(Len(t) - 1),
           Skipped(t, b, s), NEW w \in Beginning(words, t, s),
           \A v \in Beginning(words, t, s) : Len(v) <= Len(w)
    PROVE  Leftmost(words, t)[b] = <<<<s + Len(w) - 1, w>>>> \o Leftmost(words, t)[s + Len(w)]
<1> DEFINE F == Leftmost(words, t)
<1>1. s \in b..Len(t) /\ s \in 0..Len(t) /\ s \in Nat /\ s # Len(t)
    BY LenProperties
<1> HIDE DEF F
<1>2. F[b] = F[s]
    BY <1>1, ScanSkips DEF F
<1>3. F[s] = ScanAt(t, F, s)
    BY <1>1, ScanSteps DEF F
<1>4. Longest(words, t, s) = w
    BY <1>1, LongestOnly
<1>5. F[s] = <<<<s + Len(w) - 1, w>>>> \o F[s + Len(w)]
    BY <1>1, <1>3, <1>4 DEF ScanAt
<1> QED
    BY <1>2, <1>5 DEF F

-----------------------------------------------------------------------------
(* Where no word lies inside another the search finds these matches. *)

\* A word that begins on the path of p lies on it, or its beginning ends it.
LEMMA WordOnPath ==
    ASSUME DictOK, NEW t \in Seq(Letters), NEW r \in 0..Len(t), NEW b \in Nat, NEW p,
           OnPath(t, r, b, p), NEW s \in (r - Len(p))..r, s \in Nat,
           NEW v \in Beginning(words, t, s)
    PROVE  /\ s + Len(v) <= r => HoldsAt(p, v, s - (r - Len(p)))
           /\ s + Len(v) > r => Suffix(p, r - s) \in DOMAIN nodes
           /\ s + Len(v) > r /\ s = r - Len(p) =>
                r < Len(t) /\ Append(p, t[r + 1]) \in DOMAIN nodes
<1>1. /\ p \in DOMAIN nodes /\ p \in Seq(Letters) /\ Len(p) \in Nat /\ Len(p) <= r
      /\ EndsAt(p, t, r) /\ Len(t) \in Nat /\ r \in Nat
  <2>1. p \in DOMAIN nodes /\ EndsAt(p, t, r) /\ b + Len(p) <= r
    BY DEF OnPath
  <2>2. p \in Seq(Letters)
    BY <2>1, DictNodes
  <2>3. Len(p) \in Nat /\ Len(t) \in Nat
    BY <2>2, LenProperties
  <2> QED
    BY <2>1, <2>2, <2>3
<1> DEFINE m == s + Len(v)
<1>2. /\ v \in words /\ v \in Seq(Letters) /\ Len(v) \in Nat /\ Len(v) >= 1
      /\ m <= Len(t) /\ EndsAt(v, t, m)
    BY BeginningIs, DictNodes
<1>3. m \in Nat /\ m - Len(v) = s
    BY <1>2
<1> HIDE DEF m
<1>4. ASSUME m <= r PROVE HoldsAt(p, v, s - (r - Len(p)))
  <2> DEFINE d == s - (r - Len(p))
  <2>1. d \in Nat /\ d = (m - Len(v)) - (r - Len(p))
    BY <1>1, <1>3
  <2> HIDE DEF d
  <2>2. HoldsAt(p, v, d)
    BY <1>1, <1>2, <1>3, <1>4, <2>1, EndsWithin
  <2> QED
    BY <2>2 DEF d
<1>5. ASSUME m > r PROVE Suffix(p, r - s) \in DOMAIN nodes
  <2> DEFINE k == r - s
  <2>1. k \in 0..Len(v) /\ k \in 0..Len(p) /\ m - Len(v) + k = r
    BY <1>1, <1>2, <1>3, <1>5 DEF m
  <2> HIDE DEF k
  <2>2. EndsAt(At(v, k), t, r)
    BY <1>2, <1>3, <2>1, EndsPart
  <2>3. EndsAt(Suffix(p, k), t, r)
    BY <1>1, <2>1, EndsPart
  <2>4. At(v, k) \in Seq(Letters) /\ Len(At(v, k)) = k
    BY <1>2, <2>1, AtType
  <2>5. Suffix(p, k) \in Seq(Letters) /\ Len(Suffix(p, k)) = k
    BY <1>1, <2>1, SuffixType
  <2>6. At(v, k) = Suffix(p, k)
    BY <1>1, <2>2, <2>3, <2>4, <2>5, EndsSame
  <2>7. At(v, k) \in DOMAIN nodes
    BY <1>2, <2>1, DictNodes
  <2> QED
    BY <2>6, <2>7 DEF k
<1>6. ASSUME m > r, s = r - Len(p) PROVE r < Len(t) /\ Append(p, t[r + 1]) \in DOMAIN nodes
  <2> DEFINE k == Len(p) + 1
             q == Append(p, t[r + 1])
  <2>1. k \in 0..Len(v) /\ m - Len(v) + k = r + 1 /\ r \in 0..(Len(t) - 1) /\ r < Len(t)
    BY <1>1, <1>2, <1>3, <1>6 DEF m
  <2>2. EndsAt(q, t, r + 1) /\ t[r + 1] \in Letters
    BY <1>1, <2>1, EndsStep
  <2>3. q \in Seq(Letters) /\ Len(q) = k
    BY <1>1, <2>2, AppendProperties
  <2> HIDE DEF k, q
  <2>4. EndsAt(At(v, k), t, r + 1)
    BY <1>2, <1>3, <2>1, EndsPart
  <2>5. At(v, k) \in Seq(Letters) /\ Len(At(v, k)) = k
    BY <1>2, <2>1, AtType
  <2>6. r + 1 \in Nat
    BY <1>1
  <2>7. At(v, k) = q
    BY <2>2, <2>3, <2>4, <2>5, <2>6, EndsSame
  <2>8. At(v, k) \in DOMAIN nodes
    BY <1>2, <2>1, DictNodes
  <2> QED
    BY <2>1, <2>7, <2>8 DEF q
<1> QED
    BY <1>4, <1>5, <1>6 DEF m

\* What p holds at its beginning are the first letters of p.
LEMMA HoldsFirst ==
    ASSUME NEW p \in Seq(Letters), NEW v \in Seq(Letters), HoldsAt(p, v, 0)
    PROVE  Len(v) \in 0..Len(p) /\ v = At(p, Len(v))
<1>1. Len(v) \in Nat /\ Len(p) \in Nat
    BY LenProperties
<1>2. 0 + Len(v) <= Len(p) /\ \A i \in 1..Len(v) : p[0 + i] = v[i]
    BY DEF HoldsAt
<1>3. Len(v) \in 0..Len(p)
    BY <1>1, <1>2
<1>4. \A i \in 1..Len(v) : 0 + i = i
    BY <1>1
<1>5. \A i \in 1..Len(v) : At(p, Len(v))[i] = v[i]
    BY <1>2, <1>3, <1>4, AtType
<1>6. At(p, Len(v)) \in Seq(Letters) /\ Len(At(p, Len(v))) = Len(v)
    BY <1>3, AtType
<1>7. At(p, Len(v)) = v
    BY <1>5, <1>6, SeqEqual
<1> QED
    BY <1>3, <1>7

\* The word saved is the longest on the path of p, which ends at letter r;
\* without one there is none.
Best(p, r, q, m) ==
    IF q = NULL THEN \A k \in 1..Len(p) : At(p, k) \notin words
    ELSE /\ q \in words /\ Len(q) \in 1..Len(p) /\ q = At(p, Len(q))
         /\ m = r - Len(p) + Len(q)
         /\ \A k \in (Len(q) + 1)..Len(p) : At(p, k) \notin words

\* Down to a child: it is the longest if it is a word, or the longest stays.
LEMMA BestDown ==
    ASSUME DictOK, NEW p \in Seq(Letters), NEW r \in Nat, NEW last, NEW m, Best(p, r, last, m),
           NEW l \in Letters, NEW q, q = Append(p, l), NEW new, NEW n,
           IF q \in words THEN new = q /\ n = r + 1 ELSE new = last /\ n = m
    PROVE  Best(q, r + 1, new, n)
<1>1. /\ Len(p) \in Nat /\ q \in Seq(Letters) /\ Len(q) = Len(p) + 1
      /\ \A i \in 1..Len(p) : q[i] = p[i]
    BY LenProperties, AppendProperties
<1>2. ASSUME NEW k \in 0..Len(p) PROVE At(q, k) = At(p, k)
  <2>1. k \in 0..Len(q) /\ \A i \in 1..k : i \in 1..Len(p)
    BY <1>1
  <2>2. /\ At(q, k) \in Seq(Letters) /\ Len(At(q, k)) = k /\ \A i \in 1..k : At(q, k)[i] = q[i]
        /\ At(p, k) \in Seq(Letters) /\ Len(At(p, k)) = k /\ \A i \in 1..k : At(p, k)[i] = p[i]
    BY <1>1, <2>1, AtType
  <2>3. \A i \in 1..k : At(q, k)[i] = At(p, k)[i]
    BY <1>1, <2>1, <2>2
  <2> QED
    BY <2>2, <2>3, SeqEqual
<1>3. At(q, Len(q)) = q /\ q # NULL
  <2>1. Len(q) \in 0..Len(q)
    BY <1>1
  <2> QED
    BY <1>1, <2>1, AtAt, PointerAssumption
<1>4. CASE q \in words
  <2>1. Len(q) \in 1..Len(q) /\ (Len(q) + 1)..Len(q) = {} /\ r + 1 = r + 1 - Len(q) + Len(q)
    BY <1>1
  <2>2. Best(q, r + 1, q, r + 1)
    BY <1>3, <1>4, <2>1 DEF Best
  <2>3. new = q /\ n = r + 1
    BY <1>4
  <2> QED
    BY <2>2, <2>3
<1>5. CASE q \notin words
  <2>1. new = last /\ n = m
    BY <1>5
  <2>2. \A k \in 1..Len(q) : k = Len(q) \/ (k \in 1..Len(p) /\ k \in 0..Len(p))
    BY <1>1
  <2>3. \A k \in 1..Len(q) : At(q, k) \in words => k \in 1..Len(p) /\ At(p, k) \in words
    BY <1>2, <1>3, <1>5, <2>2
  <2>4. CASE last = NULL
    <3>1. \A k \in 1..Len(p) : At(p, k) \notin words
      BY <2>4 DEF Best
    <3> QED
      BY <2>1, <2>3, <2>4, <3>1 DEF Best
  <2>5. CASE last # NULL
    <3>1. /\ last \in words /\ Len(last) \in 1..Len(p) /\ last = At(p, Len(last))
          /\ m = r - Len(p) + Len(last)
          /\ \A k \in (Len(last) + 1)..Len(p) : At(p, k) \notin words
      BY <2>5 DEF Best
    <3>2. Len(last) \in 0..Len(p) /\ Len(last) \in 1..Len(q)
      BY <1>1, <3>1
    <3>3. m = r + 1 - Len(q) + Len(last)
      BY <1>1, <3>1
    <3>4. last = At(q, Len(last))
      BY <1>2, <3>1, <3>2
    <3>5. \A k \in (Len(last) + 1)..Len(q) : At(q, k) \notin words
      <4>1. \A k \in (Len(last) + 1)..Len(q) :
                k \in 1..Len(q) /\ (k \in 1..Len(p) => k \in (Len(last) + 1)..Len(p))
        BY <1>1, <3>1
      <4> QED
        BY <2>3, <3>1, <4>1
    <3> QED
      BY <2>1, <2>5, <3>1, <3>2, <3>3, <3>4, <3>5 DEF Best
  <2> QED
    BY <2>4, <2>5
<1> QED
    BY <1>4, <1>5

\* With no word saved, none lies on the path.
LEMMA NoneOnPath ==
    ASSUME DictOK, ~Nested(words), NEW p \in DOMAIN nodes, NEW r, NEW m, Best(p, r, NULL, m),
           NEW v \in words, NEW d \in Nat, HoldsAt(p, v, d)
    PROVE  FALSE
<1>1. /\ p \in Seq(Letters) /\ v \in Seq(Letters) /\ v # <<>> /\ Len(p) \in Nat
      /\ Len(v) \in Nat /\ Len(v) # 0
    BY DictNodes, LenProperties, EmptySeq
<1>2. \A k \in 1..Len(p) : At(p, k) \notin words
    BY DEF Best
<1>3. d + Len(v) <= Len(p)
    BY DEF HoldsAt
<1>4. p \notin words
  <2>1. Len(p) \in 1..Len(p) /\ Len(p) \in 0..Len(p)
    BY <1>1, <1>3
  <2> QED
    BY <1>1, <1>2, <2>1, AtAt
<1>5. CASE d = 0
  <2>1. v = At(p, Len(v))
    BY <1>1, <1>5, HoldsFirst
  <2>2. Len(v) \in 1..Len(p)
    BY <1>1, <1>3
  <2> QED
    BY <1>2, <2>1, <2>2
<1>6. CASE d # 0
  <2>1. d >= 1
    BY <1>6
  <2> QED
    BY <1>4, <2>1, NothingInside
<1> QED
    BY <1>5, <1>6

\* What a suffix holds the whole holds, further back.
LEMMA HoldsBehind ==
    ASSUME NEW p \in Seq(Letters), NEW k \in 0..Len(p), NEW v \in Seq(Letters), NEW d \in Nat,
           HoldsAt(Suffix(p, k), v, d)
    PROVE  HoldsAt(p, v, Len(p) - k + d)
<1> DEFINE f == Suffix(p, k)
           e == Len(p) - k + d
<1>1. Len(f) = k /\ (\A j \in 1..k : f[j] = p[Len(p) - k + j])
    BY SuffixType
<1> HIDE DEF f
<1>2. Len(p) \in Nat /\ Len(v) \in Nat /\ k \in Nat
    BY LenProperties
<1>3. d + Len(v) <= k /\ \A i \in 1..Len(v) : f[d + i] = v[i]
    BY <1>1 DEF HoldsAt, f
<1>4. \A i \in 1..Len(v) : d + i \in 1..k /\ Len(p) - k + (d + i) = e + i
    BY <1>2, <1>3
<1>5. \A i \in 1..Len(v) : p[e + i] = v[i]
    BY <1>1, <1>3, <1>4
<1>6. e + Len(v) <= Len(p)
    BY <1>2, <1>3
<1> HIDE DEF e
<1>7. HoldsAt(p, v, e)
    BY <1>5, <1>6 DEF HoldsAt
<1> QED
    BY <1>7 DEF e

\* Back over a fail link: with no word saved nothing begins at the places left behind.
LEMMA BackSkips ==
    ASSUME DictOK, ~Nested(words), NEW t \in Seq(Letters), NEW r \in 0..(Len(t) - 1),
           NEW b \in Nat, NEW p, OnPath(t, r, b, p), Append(p, t[r + 1]) \notin DOMAIN nodes,
           NEW m, Best(p, r, NULL, m), Skipped(t, b, r - Len(p)),
           NEW f, f = nodes[p].fail, f # NULL
    PROVE  Skipped(t, b, r - Len(f)) /\ Best(f, r, NULL, m)
<1>1. p \in DOMAIN nodes /\ p \in Seq(Letters) /\ Len(p) \in Nat /\ b + Len(p) <= r /\ r \in Nat
    BY DictNodes, LenProperties DEF OnPath
<1>2. FailNode(nodes, p, f)
    BY <1>1, PathBack
<1>3. PICK k \in 0..(Len(p) - 1) :
            /\ f = Suffix(p, k) /\ f \in DOMAIN nodes
            /\ \A j \in (k + 1)..(Len(p) - 1) : Suffix(p, j) \notin DOMAIN nodes
    BY <1>2 DEF FailNode
<1>4. k \in 0..Len(p) /\ Len(f) = k /\ r \in 0..Len(t) /\ Len(t) \in Nat
  <2>1. k \in 0..Len(p) /\ r \in 0..Len(t) /\ Len(t) \in Nat
    BY <1>1, LenProperties
  <2> QED
    BY <1>1, <1>3, <2>1, SuffixType
<1>5. ASSUME NEW s \in b..(r - k - 1) PROVE Beginning(words, t, s) = {}
  <2>1. CASE s \in b..(r - Len(p) - 1)
    BY <2>1 DEF Skipped
  <2>2. CASE s \notin b..(r - Len(p) - 1)
    <3> SUFFICES ASSUME NEW v \in Beginning(words, t, s) PROVE FALSE
      OBVIOUS
    <3> DEFINE d == s - (r - Len(p))
    <3>1. /\ s \in (r - Len(p))..r /\ s \in Nat /\ d \in Nat
          /\ r - s \in (k + 1)..Len(p) /\ (r - s = Len(p) <=> s = r - Len(p))
      BY <1>1, <1>3, <2>2
    <3> HIDE DEF d
    <3>2. v \in words /\ Len(v) \in Nat
      BY <3>1, BeginningIs
    <3>3. CASE s + Len(v) <= r
      <4>1. HoldsAt(p, v, d)
        BY <1>4, <3>1, <3>3, WordOnPath DEF d
      <4> QED
        BY <1>1, <3>1, <3>2, <4>1, NoneOnPath
    <3>4. CASE s + Len(v) > r /\ s = r - Len(p)
      BY <1>4, <3>1, <3>4, WordOnPath
    <3>5. CASE s + Len(v) > r /\ s # r - Len(p)
      <4>1. Suffix(p, r - s) \in DOMAIN nodes
        BY <1>4, <3>1, <3>5, WordOnPath
      <4>2. r - s \in (k + 1)..(Len(p) - 1)
        BY <1>1, <1>4, <3>1, <3>5
      <4> QED
        BY <1>3, <4>1, <4>2
    <3>6. s + Len(v) <= r \/ s + Len(v) > r
      BY <1>1, <3>1, <3>2
    <3> QED
      BY <3>3, <3>4, <3>5, <3>6
  <2> QED
    BY <2>1, <2>2
<1>6. ASSUME NEW j \in 1..Len(f), At(f, j) \in words PROVE FALSE
  <2> DEFINE v == At(f, j)
  <2>1. f \in Seq(Letters) /\ j \in 0..Len(f) /\ j \in Nat
    BY <1>3, <1>4, DictNodes
  <2>2. v \in Seq(Letters) /\ Len(v) = j /\ \A i \in 1..j : v[i] = f[i]
    BY <2>1, AtType
  <2> HIDE DEF v
  <2>3. HoldsAt(f, v, 0)
    <3>1. 0 + Len(v) <= Len(f) /\ \A i \in 1..j : 0 + i = i
      BY <1>4, <2>1, <2>2
    <3> QED
      BY <2>2, <3>1 DEF HoldsAt
  <2>4. HoldsAt(p, v, Len(p) - k + 0)
    BY <1>1, <1>3, <1>4, <2>2, <2>3, HoldsBehind
  <2>5. Len(p) - k + 0 \in Nat
    BY <1>1, <1>3
  <2> QED
    BY <1>1, <1>6, <2>4, <2>5, NoneOnPath DEF v
<1> QED
    BY <1>4, <1>5, <1>6 DEF Skipped, Best

\* At the root: nothing begins with the letter at hand.
LEMMA RootSkips ==
    ASSUME DictOK, NEW t \in Seq(Letters), NEW r \in 0..(Len(t) - 1), NEW b \in Nat,
           OnPath(t, r, b, Root), Append(Root, t[r + 1]) \notin DOMAIN nodes,
           Skipped(t, b, r - Len(Root))
    PROVE  Skipped(t, b, r + 1 - Len(Root)) /\ Len(Root) = 0
<1>1. Len(Root) = 0 /\ r \in 0..Len(t) /\ r \in Nat /\ Len(t) \in Nat /\ r - 0 = r
    BY LenProperties DEF Root
<1>2. ASSUME NEW s \in b..r PROVE Beginning(words, t, s) = {}
  <2>1. CASE s \in b..(r - 1)
    BY <1>1, <2>1 DEF Skipped
  <2>2. CASE s \notin b..(r - 1)
    <3> SUFFICES ASSUME NEW v \in Beginning(words, t, s) PROVE FALSE
      OBVIOUS
    <3>1. s = r /\ s \in (r - Len(Root))..r /\ s = r - Len(Root)
      BY <1>1, <2>2
    <3>2. s + Len(v) > r
      <4>1. Len(v) \in Nat /\ Len(v) >= 1
        BY <1>1, <3>1, BeginningIs
      <4> QED
        BY <1>1, <3>1, <4>1
    <3> QED
      BY <1>1, <3>1, <3>2, WordOnPath
  <2> QED
    BY <2>1, <2>2
<1>3. r + 1 - Len(Root) - 1 = r
    BY <1>1
<1> QED
    BY <1>1, <1>2, <1>3 DEF Skipped

\* The end of the text: with no word saved there is no match left.
LEMMA EndSkips ==
    ASSUME DictOK, ~Nested(words), NEW t \in Seq(Letters), NEW b \in Nat, NEW p,
           OnPath(t, Len(t), b, p), NEW m, Best(p, Len(t), NULL, m), Skipped(t, b, Len(t) - Len(p))
    PROVE  Leftmost(words, t)[b] = <<>>
<1> DEFINE r == Len(t)
<1>1. /\ p \in DOMAIN nodes /\ Len(p) \in Nat /\ b + Len(p) <= r /\ r \in Nat /\ r \in 0..r
    BY DictNodes, LenProperties DEF OnPath
<1>2. ASSUME NEW s \in b..(r - 1) PROVE Beginning(words, t, s) = {}
  <2>1. CASE s \in b..(r - Len(p) - 1)
    BY <2>1 DEF Skipped
  <2>2. CASE s \notin b..(r - Len(p) - 1)
    <3> SUFFICES ASSUME NEW v \in Beginning(words, t, s) PROVE FALSE
      OBVIOUS
    <3> DEFINE d == s - (r - Len(p))
    <3>1. s \in (r - Len(p))..r /\ s \in Nat /\ d \in Nat
      BY <1>1, <2>2
    <3> HIDE DEF d, r
    <3>2. v \in words /\ s + Len(v) <= r
      BY <3>1, BeginningIs DEF r
    <3>3. HoldsAt(p, v, d)
      BY <1>1, <3>1, <3>2, WordOnPath DEF d, r
    <3> QED
      BY <1>1, <3>1, <3>2, <3>3, NoneOnPath DEF r
  <2> QED
    BY <2>1, <2>2
<1>3. b \in 0..Len(t) /\ Skipped(t, b, Len(t))
    BY <1>1, <1>2 DEF Skipped
<1> QED
    BY <1>3, ScanEnds

\* The first match behind place b is e, and those behind place m follow.
NextMatch(t, b, e, m) == Leftmost(words, t)[b] = <<e>> \o Leftmost(words, t)[m]

\* The word saved is the next match, at the end or where there is no link.
LEMMA BestMatches ==
    ASSUME DictOK, NEW t \in Seq(Letters), NEW r \in 0..Len(t), NEW b \in Nat, NEW p,
           OnPath(t, r, b, p), r < Len(t) => Append(p, t[r + 1]) \notin DOMAIN nodes,
           NEW w, w # NULL, NEW m, Best(p, r, w, m), Skipped(t, b, r - Len(p)),
           NEW e, e = <<m - 1, w>>
    PROVE  NextMatch(t, b, e, m)
<1> DEFINE s == r - Len(p)
<1>1. /\ p \in DOMAIN nodes /\ p \in Seq(Letters) /\ Len(p) \in Nat /\ b + Len(p) <= r
      /\ EndsAt(p, t, r) /\ r \in Nat /\ Len(t) \in Nat
    BY DictNodes, LenProperties DEF OnPath
<1>2. /\ w \in words /\ Len(w) \in 1..Len(p) /\ w = At(p, Len(w))
      /\ m = s + Len(w)
      /\ \A k \in (Len(w) + 1)..Len(p) : At(p, k) \notin words
    BY DEF Best
<1>3. s \in b..(Len(t) - 1) /\ s \in (r - Len(p))..r /\ s \in Nat /\ s + Len(p) = r
    BY <1>1, <1>2
<1>4. w \in Beginning(words, t, s)
  <2>1. Len(w) \in 0..Len(p) /\ s + Len(w) <= Len(t) /\ Len(w) \in Nat /\ Len(w) >= 1
    BY <1>1, <1>2
  <2>2. EndsAt(w, t, r - Len(p) + Len(w))
    BY <1>1, <1>2, <2>1, EndsPart
  <2>3. EndsAt(w, t, s + Len(w))
    BY <2>2
  <2> HIDE DEF s
  <2> QED
    BY <1>2, <1>3, <2>1, <2>3, BeginningIs
<1>5. ASSUME NEW v \in Beginning(words, t, s) PROVE Len(v) <= Len(w)
  <2>1. v \in words /\ Len(v) \in Nat /\ Len(v) >= 1 /\ s + Len(v) <= Len(t)
    BY <1>3, BeginningIs
  <2>2. CASE s + Len(v) > r
    <3>1. r < Len(t) /\ Append(p, t[r + 1]) \in DOMAIN nodes
      BY <1>3, <2>2, WordOnPath
    <3> QED
      BY <3>1
  <2>3. CASE s + Len(v) <= r
    <3>1. HoldsAt(p, v, s - (r - Len(p)))
      BY <1>3, <2>3, WordOnPath
    <3>2. s - (r - Len(p)) = 0 /\ v \in Seq(Letters)
      BY <1>1, <2>1, DictNodes
    <3>3. Len(v) \in 0..Len(p) /\ v = At(p, Len(v))
      BY <1>1, <3>1, <3>2, HoldsFirst
    <3>4. ~(Len(v) <= Len(w)) => Len(v) \in (Len(w) + 1)..Len(p)
      BY <1>1, <1>2, <2>1, <3>3
    <3> QED
      BY <1>2, <2>1, <3>3, <3>4
  <2>4. s + Len(v) > r \/ s + Len(v) <= r
    BY <1>1, <1>3, <2>1
  <2> QED
    BY <2>2, <2>3, <2>4
<1>6. Skipped(t, b, s)
    OBVIOUS
<1> HIDE DEF s
<1>7. Leftmost(words, t)[b] = <<<<s + Len(w) - 1, w>>>> \o Leftmost(words, t)[s + Len(w)]
    BY <1>3, <1>4, <1>5, <1>6, ScanMatch
<1>8. s \in Int /\ Len(w) \in Int /\ m = s + Len(w)
    BY <1>1, <1>2, <1>3
<1>9. e = <<s + Len(w) - 1, w>>
    BY ONLY <1>8, e = <<m - 1, w>>
<1> QED
    BY ONLY <1>7, <1>8, <1>9 DEF NextMatch

-----------------------------------------------------------------------------
(***************************************************************************)
(* The search in one text: what was reported are the matches before place  *)
(* Behind, nothing begins between there and the path of the state, and the *)
(* word saved is the longest on that path.                                 *)
(***************************************************************************)
Greedy ==
    /\ from <= end
    /\ Leftmost(words, WholeText)[from] = found \o Leftmost(words, WholeText)[Behind]
    /\ Skipped(WholeText, Behind, Passed - Len(state))
    /\ Best(state, Passed, last_node, last_index + 1)
    /\ pc = "back" => last_node = NULL /\ Linked(state) = NULL

GreedyInv == regular /\ prior = <<>> /\ ~Nested(words) => Stuck \/ Greedy

\* What the steps start from.
LEMMA GreedyFacts ==
    ASSUME LongInv, regular, prior = <<>>, Greedy
    PROVE  /\ DictOK /\ Searching /\ shift = 0 /\ end \in Nat /\ from \in 0..end /\ index \in Int
           /\ WholeText \in Seq(Letters) /\ Len(WholeText) = end
           /\ Passed \in 0..end /\ Behind \in Nat
           /\ OnPath(WholeText, Passed, Behind, state)
           /\ pc = "idle" => last_node = NULL
           /\ found \in Seq(Nat \X words) /\ last_index \in Int
           /\ state \in DOMAIN nodes /\ state \in Seq(Letters) /\ Len(state) \in Nat
<1>1. DictOK /\ PlaceOK /\ RegularOK
    BY DEF LongInv
<1>2. pc # "deleted" /\ from \in Nat /\ found \in Seq(Nat \X words) /\ last_index \in Int
    BY <1>1 DEF RegularOK, Reports, PlaceOK
<1>3. /\ WholeText \in Seq(Letters) /\ Len(WholeText) = shift + end /\ end \in Nat
      /\ shift \in Nat /\ index \in Int /\ Passed \in 0..end /\ Behind \in Nat
      /\ (Stuck \/ Searching)
    BY <1>2, Going
<1>4. shift = 0
    BY <1>1 DEF RegularOK
<1>5. from <= end
    BY DEF Greedy
<1>6. ~(from > end)
    BY <1>2, <1>3, <1>5
<1>7. Searching
    BY <1>3, <1>6 DEF Stuck
<1>8. shift + Passed = Passed /\ Len(WholeText) = end /\ from \in 0..end
    BY <1>2, <1>3, <1>4, <1>5
<1>9. OnPath(WholeText, Passed, Behind, state) /\ (pc = "idle" => last_node = NULL)
    BY <1>7, <1>8 DEF Searching
<1>10. state \in DOMAIN nodes /\ state \in Seq(Letters)
    BY <1>1, <1>9, DictNodes DEF OnPath
<1>11. Len(state) \in Nat
    BY <1>10, LenProperties
<1> QED
    BY <1>1, <1>2, <1>3, <1>4, <1>7, <1>8, <1>9, <1>10, <1>11

\* Nothing between two places that are the same.
LEMMA SkippedNone ==
    ASSUME NEW t, NEW b \in Int
    PROVE  Skipped(t, b, b)
<1>1. b..(b - 1) = {}
    OBVIOUS
<1> QED
    BY <1>1 DEF Skipped

\* At the root no word is saved.
LEMMA BestRoot ==
    ASSUME NEW r, NEW m
    PROVE  Best(Root, r, NULL, m)
<1>1. 1..Len(Root) = {}
    BY DEF Root
<1> QED
    BY <1>1 DEF Best

\* The steps of next() that report nothing.
LEMMA GreedyFrame ==
    ASSUME Greedy, UNCHANGED <<words, nodes, input, end, shift, from, prior, found, regular>>,
           NEW p, p = state', NEW r, r = Passed',
           Skipped(WholeText, Behind, r - Len(p)), Best(p, r, last_node', last_index' + 1),
           pc' = "back" => last_node' = NULL /\ Linked(state)' = NULL
    PROVE  Greedy'
<1>1. WholeText' = WholeText /\ Behind' = Behind
    BY DEF WholeText, Chunk, Behind
<1>2. (from <= end)' /\ Skipped(WholeText, Behind, Passed - Len(state))'
    BY <1>1 DEF Greedy, Skipped
<1>3. Best(state, Passed, last_node, last_index + 1)'
    BY DEF Best
<1>4. (Leftmost(words, WholeText)[from] = found \o Leftmost(words, WholeText)[Behind])'
    BY <1>1 DEF Greedy
<1> QED
    BY <1>2, <1>3, <1>4 DEF Greedy

\* CallNext.
LEMMA GreedyEnter ==
    ASSUME LongInv, regular, prior = <<>>, Greedy, CallNext
    PROVE  Greedy'
<1>1. /\ pc = "idle" /\ last_node = NULL
    BY GreedyFacts DEF CallNext
<1>2. /\ index' = index + 1 /\ pc' = "next"
      /\ UNCHANGED <<words, nodes, input, end, shift, state, last_node, last_index>>
      /\ UNCHANGED <<from, prior, found, regular>>
    BY <1>1 DEF CallNext, history
<1>3. Passed' = Passed
    BY <1>1, <1>2, GreedyFacts DEF Passed
<1>4. /\ Skipped(WholeText, Behind, Passed - Len(state))
      /\ Best(state, Passed, last_node, last_index + 1)
    BY DEF Greedy
<1> QED
    BY <1>2, <1>3, <1>4, GreedyFrame

\* Step.
LEMMA GreedyStep ==
    ASSUME LongInv, regular, prior = <<>>, Greedy, Step
    PROVE  Greedy'
<1> DEFINE q == Append(state, Letter)
<1>1. /\ pc = "next" /\ index < end /\ Linked(state) # NULL
      /\ state' = Linked(state) /\ index' = index + 1 /\ pc' = pc
      /\ UNCHANGED <<words, nodes, input, end, shift>>
      /\ UNCHANGED <<from, prior, found, regular>>
      /\ IF nodes[state'].eow THEN last_node' = state' /\ last_index' = index
         ELSE last_node' = last_node /\ last_index' = last_index
    BY DEF Step, history
<1>2. /\ Passed = index /\ index \in Nat /\ Letter \in Letters
      /\ Linked(state) = q /\ q \in DOMAIN nodes
    BY <1>1, AtHand
<1>3. /\ DictOK /\ end \in Nat /\ state \in Seq(Letters) /\ Len(state) \in Nat /\ last_index \in Int
    BY GreedyFacts
<1>4. Passed' = index + 1
    BY <1>1, <1>2, <1>3 DEF Passed
<1>5. /\ Skipped(WholeText, Behind, index - Len(state))
      /\ Best(state, index, last_node, last_index + 1)
    BY <1>2 DEF Greedy
<1> HIDE DEF q
<1>6. q \in Seq(Letters) /\ Len(q) = Len(state) + 1 /\ index + 1 - Len(q) = index - Len(state)
  <2>1. Len(q) = Len(state) + 1 /\ q \in Seq(Letters)
    BY <1>2, <1>3, AppendProperties DEF q
  <2> QED
    BY <1>2, <1>3, <2>1
<1>7. Skipped(WholeText, Behind, index + 1 - Len(q))
    BY <1>5, <1>6
<1>8. Best(q, index + 1, last_node', last_index' + 1)
  <2>1. nodes[q].eow <=> q \in words
    BY <1>2, <1>3, DictNodes
  <2>2. IF q \in words THEN last_node' = q /\ last_index' + 1 = index + 1
        ELSE last_node' = last_node /\ last_index' + 1 = last_index + 1
    BY <1>1, <1>2, <2>1
  <2>3. q = Append(state, Letter)
    BY DEF q
  <2> QED
    BY <1>2, <1>3, <1>5, <2>2, <2>3, BestDown
<1>9. q = state' /\ index + 1 = Passed'
    BY <1>1, <1>2, <1>4
<1>10. /\ Skipped(WholeText, Behind, Passed' - Len(state'))
       /\ Best(state', Passed', last_node', last_index' + 1)
  <2>1. Passed' - Len(state') = index + 1 - Len(q)
    <3>1. Len(q) \in Nat /\ index \in Nat
      BY <1>2, <1>3, <1>6
    <3>2. Len(state') = Len(q) /\ Passed' = index + 1
      BY <1>9
    <3> QED
      BY ONLY <3>1, <3>2
  <2>2. Skipped(WholeText, Behind, Passed' - Len(state'))
    BY ONLY <1>7, <2>1
  <2>3. Best(state', Passed', last_node', last_index' + 1)
    BY ONLY <1>8, <1>9
  <2> QED
    BY <2>2, <2>3
<1>11. UNCHANGED <<words, nodes, input, end, shift, from, prior, found, regular>>
    BY <1>1
<1>12. pc' # "back"
    BY <1>1
<1> QED
    BY ONLY Greedy, <1>10, <1>11, <1>12, GreedyFrame

\* OutputSuffix does not happen: a word would lie inside another.
LEMMA NoSuffix ==
    ASSUME LongInv, regular, ~Nested(words), OutputSuffix
    PROVE  FALSE
<1> DEFINE q == Linked(state)
           f == nodes[q].fail
<1>1. /\ pc = "next" /\ index < end /\ q # NULL /\ ~nodes[q].eow
      /\ f # NULL /\ f # Root /\ nodes[f].eow
    BY DEF OutputSuffix, EndsHere
<1>2. q \in DOMAIN nodes /\ state \in DOMAIN nodes
    BY <1>1, AtHand
<1>3. DictOK /\ IsAutomaton(nodes) /\ q \in Seq(Letters) /\ q \notin words
    BY <1>1, <1>2, DictNodes DEF LongInv
<1> HIDE DEF q
<1>4. q # Root
    BY <1>1, <1>3 DEF IsAutomaton, FailLinks
<1>5. FailNode(nodes, q, f)
    BY <1>2, <1>3, <1>4, LongestFailNode
<1> HIDE DEF f
<1>6. PICK k \in 0..(Len(q) - 1) : f = Suffix(q, k) /\ f \in DOMAIN nodes
    BY <1>5 DEF FailNode
<1>7. f \in words /\ f \in Seq(Letters)
    BY <1>1, <1>3, <1>6, DictNodes
<1>8. Len(q) \in Nat /\ k \in 0..Len(q) /\ Len(f) \in Nat /\ Len(f) = k
  <2>1. Len(q) \in Nat /\ k \in 0..Len(q) /\ Len(f) \in Nat
    BY <1>3, <1>7, LenProperties
  <2> QED
    BY <1>3, <1>6, <2>1, SuffixType
<1>9. HoldsAt(Suffix(q, k), f, 0)
  <2>1. 0 + Len(f) <= Len(f) /\ \A i \in 1..Len(f) : 0 + i = i
    BY <1>8
  <2>2. HoldsAt(f, f, 0)
    BY <2>1 DEF HoldsAt
  <2> QED
    BY <1>6, <2>2
<1>10. HoldsAt(q, f, Len(q) - k + 0)
    BY <1>3, <1>7, <1>8, <1>9, HoldsBehind
<1>11. Len(q) - k + 0 \in Nat /\ Len(q) - k + 0 >= 1
    BY <1>6, <1>8
<1> QED
    BY <1>2, <1>3, <1>7, <1>10, <1>11, NothingInside
\* The saved word is the next of the matches.
LEMMA GreedyReport ==
    ASSUME LongInv, regular, prior = <<>>, Greedy, Output, last_node # NULL,
           Passed < end => Append(state, WholeText[Passed + 1]) \notin DOMAIN nodes
    PROVE  Greedy'
<1> DEFINE F == Leftmost(words, WholeText)
           V == Nat \X words
           e == <<last_index, last_node>>
           m == last_index + 1
<1>1. /\ found' = Append(found, <<shift + last_index, last_node>>)
      /\ state' = Root /\ index' = last_index /\ last_node' = NULL /\ pc' = "idle"
      /\ UNCHANGED <<words, nodes, input, end, shift, from, prior>>
    BY DEF Output, Report, StartOver
<1>2. /\ DictOK /\ Searching /\ shift = 0 /\ end \in Nat /\ from \in 0..end
      /\ WholeText \in Seq(Letters) /\ Len(WholeText) = end /\ Passed \in 0..end /\ Behind \in Nat
      /\ OnPath(WholeText, Passed, Behind, state) /\ found \in Seq(V)
    BY GreedyFacts
<1>3. /\ last_index \in 0..(end - 1) /\ last_index \in Nat /\ last_node \in words
      /\ m \in 0..end /\ m - 1 = last_index /\ m \in Nat
  <2>1. last_index \in 0..(end - 1) /\ last_node \in words
    BY <1>2 DEF Searching, Saved
  <2> QED
    BY <1>2, <2>1
<1>4. WholeText' = WholeText
    BY <1>1 DEF WholeText, Chunk
<1>5. found' = Append(found, e) /\ e \in V
  <2>1. shift + last_index = last_index
    BY <1>2, <1>3
  <2> QED
    BY <1>1, <1>3, <2>1
<1>6. Behind' = m /\ Passed' = m
  <2>1. found' # <<>> /\ found'[Len(found')] = e
    <3>1. found \in Seq(V) /\ e \in V /\ found' = Append(found, e)
      BY <1>2, <1>5
    <3> HIDE DEF V, e, m
    <3> QED
      BY ONLY <3>1, AppendProperties
  <2>2. e[1] = last_index
    OBVIOUS
  <2>3. Behind' = m
    BY <2>1, <2>2 DEF Behind
  <2>4. Passed' = m
    BY <1>1, <1>2, <1>3 DEF Passed
  <2> QED
    BY <2>3, <2>4
<1> HIDE DEF F, V
<1>7. F[Behind] = <<e>> \o F[m]
  <2>1. /\ Best(state, Passed, last_node, m) /\ Skipped(WholeText, Behind, Passed - Len(state))
        /\ Passed \in 0..Len(WholeText)
        /\ Passed < Len(WholeText) => Append(state, WholeText[Passed + 1]) \notin DOMAIN nodes
        /\ DictOK /\ WholeText \in Seq(Letters) /\ Behind \in Nat
        /\ OnPath(WholeText, Passed, Behind, state) /\ last_node # NULL
    BY <1>2 DEF Greedy
  <2>2. e = <<m - 1, last_node>>
    BY <1>3
  <2> HIDE DEF m, e
  <2>3. NextMatch(WholeText, Behind, e, m)
    BY ONLY <2>1, <2>2, BestMatches
  <2> QED
    BY ONLY <2>3 DEF NextMatch, F
<1>8. F[from] = found' \o F[m]
  <2>1. F[m] \in Seq(V) /\ <<e>> \in Seq(V)
    <3>1. F \in [0..Len(WholeText) -> Seq(V)]
      BY <1>2, ScanSteps DEF F, V
    <3> QED
      BY <1>2, <1>3, <1>5, <3>1
  <2>2. F[from] = found \o F[Behind]
    BY DEF Greedy, F
  <2>3. found' = found \o <<e>>
    BY <1>2, <1>5, AppendIsConcat
  <2> DEFINE g == <<e>>
             h == F[m]
  <2> HIDE DEF e, m
  <2>4. (found \o g) \o h = found \o (g \o h)
    <3>1. found \in Seq(V) /\ g \in Seq(V) /\ h \in Seq(V)
      BY <1>2, <2>1
    <3> HIDE DEF g, h
    <3> QED
      BY ONLY <3>1, ConcatAssociative
  <2> QED
    BY ONLY <1>7, <2>2, <2>3, <2>4
<1>9. (Leftmost(words, WholeText)[from] = found \o Leftmost(words, WholeText)[Behind])'
    BY <1>1, <1>4, <1>6, <1>8 DEF F
<1>10. Skipped(WholeText, Behind, Passed - Len(state))'
  <2>1. Len(state') = 0
    BY <1>1 DEF Root
  <2>2. Passed' - Len(state') = m
    BY <1>3, <1>6, <2>1
  <2>3. Skipped(WholeText, m, m)
    BY <1>3, SkippedNone
  <2> HIDE DEF m
  <2> QED
    BY <1>1, <1>4, <1>6, <2>2, <2>3 DEF Skipped
<1>11. Best(state, Passed, last_node, last_index + 1)'
  <2>1. Best(Root, Passed', NULL, last_index' + 1)
    BY BestRoot
  <2> QED
    BY <1>1, <2>1 DEF Best
<1>12. (from <= end)' /\ pc' # "back"
    BY <1>1 DEF Greedy
<1> QED
    BY <1>9, <1>10, <1>11, <1>12 DEF Greedy

\* Mismatch.
LEMMA GreedyMismatch ==
    ASSUME LongInv, regular, prior = <<>>, Greedy, Mismatch
    PROVE  Greedy'
<1>1. pc = "next" /\ index < end /\ Linked(state) = NULL
    BY DEF Mismatch
<1>2. /\ Passed = index /\ index \in Nat /\ Letter = WholeText[shift + index + 1]
      /\ Append(state, Letter) \notin DOMAIN nodes
    BY <1>1, AtHand
<1>3. CASE last_node # NULL
  <2>1. Letter = WholeText[Passed + 1]
    <3>1. shift + index + 1 = Passed + 1
      BY <1>2, GreedyFacts
    <3> QED
      BY <1>2, <3>1
  <2> QED
    BY <1>2, <1>3, <2>1, GreedyReport DEF Mismatch
<1>4. CASE last_node = NULL
  <2>1. /\ pc' = "back"
        /\ UNCHANGED <<words, nodes, input, index, end, shift, state, last_node, last_index>>
        /\ UNCHANGED <<from, prior, found, regular>>
    BY <1>4 DEF Mismatch, iter, history
  <2>2. Passed' = Passed /\ Linked(state)' = Linked(state)
    BY <1>1, <2>1 DEF Passed, Linked, Letter, trienode_get_next
  <2>3. /\ Skipped(WholeText, Behind, Passed' - Len(state'))
        /\ Best(state', Passed', last_node', last_index' + 1)
    BY <2>1, <2>2 DEF Greedy
  <2>4. UNCHANGED <<words, nodes, input, end, shift, from, prior, found, regular>>
    BY <2>1
  <2>5. last_node' = NULL /\ Linked(state)' = NULL
    BY <1>1, <1>4, <2>1, <2>2
  <2> QED
    BY ONLY Greedy, <2>3, <2>4, <2>5, GreedyFrame
<1> QED
    BY <1>3, <1>4

\* EndOfString.
LEMMA GreedyEnd ==
    ASSUME LongInv, regular, prior = <<>>, Greedy, EndOfString
    PROVE  Greedy'
<1>1. pc = "next" /\ index >= end /\ index \in Int /\ end \in Nat
    BY GreedyFacts DEF EndOfString
<1>2. Passed = end
    BY <1>1 DEF Passed
<1>3. CASE last_node # NULL
  <2>1. ~(Passed < end)
    BY <1>1, <1>2
  <2> QED
    BY <1>3, <2>1, GreedyReport DEF EndOfString
<1>4. CASE last_node = NULL
  <2>1. /\ pc' = "idle"
        /\ UNCHANGED <<words, nodes, input, index, end, shift, state, last_node, last_index>>
        /\ UNCHANGED <<from, prior, found, regular>>
    BY <1>4 DEF EndOfString, iter, history
  <2>2. Passed' = Passed
    BY <1>1, <2>1 DEF Passed
  <2>3. /\ Skipped(WholeText, Behind, Passed' - Len(state'))
        /\ Best(state', Passed', last_node', last_index' + 1)
    BY <2>1, <2>2 DEF Greedy
  <2>4. UNCHANGED <<words, nodes, input, end, shift, from, prior, found, regular>>
    BY <2>1
  <2>5. pc' # "back"
    BY <2>1
  <2> QED
    BY ONLY Greedy, <2>3, <2>4, <2>5, GreedyFrame
<1> QED
    BY <1>3, <1>4
\* GoBack.
LEMMA GreedyBack ==
    ASSUME LongInv, regular, prior = <<>>, ~Nested(words), Greedy, GoBack
    PROVE  Greedy'
<1> DEFINE f == nodes[state].fail
           m == last_index + 1
<1>1. /\ pc = "back" /\ UNCHANGED <<words, nodes, input, end, shift, last_node, last_index>>
      /\ UNCHANGED <<from, prior, found, regular>>
      /\ f = NULL => state' = Root /\ index' = index + 1 /\ pc' = "next"
      /\ f # NULL => /\ state' = f /\ index' = index
                     /\ pc' = IF Linked(f) # NULL THEN "next" ELSE "back"
    BY DEF GoBack, history
<1> HIDE DEF f
<1>2. index < end /\ last_node = NULL /\ Linked(state) = NULL
    BY <1>1 DEF LongInv, PlaceOK, Greedy
<1>3. /\ Passed = index /\ index \in Nat /\ Letter = WholeText[shift + index + 1]
      /\ Append(state, Letter) \notin DOMAIN nodes /\ state \in DOMAIN nodes
    BY <1>1, <1>2, AtHand
<1>4. /\ DictOK /\ shift = 0 /\ end \in Nat /\ WholeText \in Seq(Letters)
      /\ Len(WholeText) = end /\ Behind \in Nat
      /\ OnPath(WholeText, Passed, Behind, state)
    BY GreedyFacts
<1>5. /\ OnPath(WholeText, index, Behind, state) /\ index \in 0..(Len(WholeText) - 1)
      /\ Append(state, WholeText[index + 1]) \notin DOMAIN nodes
      /\ Best(state, index, NULL, m) /\ Skipped(WholeText, Behind, index - Len(state))
  <2>1. shift + index + 1 = index + 1 /\ index \in 0..(Len(WholeText) - 1)
    BY <1>2, <1>3, <1>4
  <2> QED
    BY <1>2, <1>3, <1>4, <2>1 DEF Greedy
<1>6. UNCHANGED <<words, nodes, input, end, shift, from, prior, found, regular>>
    BY <1>1
<1> HIDE DEF m
<1>7. CASE f = NULL
  <2>1. state = Root /\ state' = Root /\ Passed' = index + 1 /\ pc' = "next"
    <3>1. state = Root
      BY <1>3, <1>4, <1>5, <1>7, PathBack DEF f
    <3> QED
      BY <1>1, <1>2, <1>3, <1>4, <1>7, <3>1 DEF Passed
  <2>2. Skipped(WholeText, Behind, index + 1 - Len(Root))
    BY <1>4, <1>5, <2>1, RootSkips
  <2>3. Skipped(WholeText, Behind, Passed' - Len(state'))
    BY ONLY <2>1, <2>2, <1>3
  <2>4. Best(Root, Passed', NULL, last_index' + 1)
    BY BestRoot
  <2>5. Best(state', Passed', last_node', last_index' + 1)
    BY <1>1, <1>2, <2>1, <2>4
  <2>6. pc' # "back"
    BY <2>1
  <2> QED
    BY ONLY Greedy, <1>6, <2>3, <2>5, <2>6, GreedyFrame
<1>8. CASE f # NULL
  <2>1. Skipped(WholeText, Behind, index - Len(f)) /\ Best(f, index, NULL, m)
    BY <1>4, <1>5, <1>8, BackSkips DEF f
  <2>2. state' = f /\ Passed' = index /\ last_node' = NULL /\ last_index' + 1 = m
    BY <1>1, <1>2, <1>3, <1>4, <1>8 DEF Passed, m
  <2>3. /\ Skipped(WholeText, Behind, Passed' - Len(state'))
        /\ Best(state', Passed', last_node', last_index' + 1)
    BY <2>1, <2>2
  <2>4. pc' = "back" => Linked(state)' = NULL
    <3>1. Linked(state)' = Linked(f)
      BY <1>1, <1>8 DEF Linked, Letter, trienode_get_next
    <3> QED
      BY <1>1, <1>8, <3>1
  <2>5. pc' = "back" => last_node' = NULL /\ Linked(state)' = NULL
    BY <2>2, <2>4
  <2> QED
    BY ONLY Greedy, <1>6, <2>3, <2>5, GreedyFrame
<1> QED
    BY <1>7, <1>8

\* A start behind the end: nothing is searched.
LEMMA StuckKeeps ==
    ASSUME LongInv, regular, Stuck, CallNext \/ Run
    PROVE  Stuck'
<1>1. /\ from > end /\ index >= end /\ found = <<>> /\ last_node = NULL /\ pc # "back"
      /\ index \in Int /\ end \in Nat
    BY LenProperties DEF Stuck, LongInv, PlaceOK
<1>2. ~(index < end)
    BY <1>1
<1>3. CASE CallNext
  <2>1. index' = index + 1 /\ pc' = "next" /\ UNCHANGED <<end, last_node, from, found>>
    BY <1>1, <1>3 DEF CallNext, history
  <2>2. index' >= end'
    BY <1>1, <2>1
  <2> QED
    BY <1>1, <2>1, <2>2 DEF Stuck
<1>4. CASE EndOfString
  <2>1. pc' = "idle" /\ UNCHANGED <<index, end, last_node, from, found>>
    BY <1>1, <1>4 DEF EndOfString, iter, history
  <2> QED
    BY <1>1, <2>1 DEF Stuck
<1>5. ~Step /\ ~OutputSuffix /\ ~Mismatch /\ ~GoBack
    BY <1>1, <1>2 DEF Step, OutputSuffix, Mismatch, GoBack
<1> QED
    BY <1>3, <1>4, <1>5 DEF Run
\* A search at its first letter.
Fresh ==
    /\ found = <<>> /\ state = Root /\ last_node = NULL /\ pc = "idle"
    /\ from <= end /\ Passed = from

LEMMA FreshGreedy == LongInv /\ regular /\ prior = <<>> /\ Fresh => Greedy
<1> SUFFICES ASSUME LongInv, regular, prior = <<>>, Fresh PROVE Greedy
    OBVIOUS
<1>1. /\ found = <<>> /\ state = Root /\ last_node = NULL /\ pc = "idle"
      /\ from <= end /\ Passed = from
    BY DEF Fresh
<1>2. DictOK /\ from \in Nat
    BY DEF LongInv, RegularOK
<1>3. WholeText \in Seq(Letters) /\ Len(WholeText) = end /\ end \in Nat
  <2>1. /\ WholeText \in Seq(Letters) /\ Len(WholeText) = shift + end /\ end \in Nat
    BY <1>1, Going
  <2>2. shift = 0
    BY DEF LongInv, RegularOK
  <2> QED
    BY <2>1, <2>2
<1>4. Behind = from
    BY <1>1 DEF Behind
<1> DEFINE h == Leftmost(words, WholeText)[from]
<1>5. h = found \o h
  <2>1. Leftmost(words, WholeText) \in [0..Len(WholeText) -> Seq(Nat \X words)]
    BY <1>2, <1>3, ScanSteps
  <2>2. from \in 0..Len(WholeText)
    BY <1>1, <1>2, <1>3
  <2>3. h \in Seq(Nat \X words)
    BY <2>1, <2>2
  <2> HIDE DEF h
  <2> QED
    BY <1>1, <2>3, ConcatEmptySeq
<1>6. Skipped(WholeText, Behind, Passed - Len(state))
  <2>1. Passed - Len(state) = from
    BY <1>1, <1>2 DEF Root
  <2>2. Skipped(WholeText, from, from)
    BY <1>2, SkippedNone
  <2> QED
    BY <1>4, <2>1, <2>2
<1>7. Best(state, Passed, last_node, last_index + 1)
    BY <1>1, BestRoot
<1> QED
    BY <1>1, <1>4, <1>5, <1>6, <1>7 DEF Greedy

\* The search begins like that, or with a start behind the end.
LEMMA GreedyInit == Init => GreedyInv
<1> SUFFICES ASSUME Init, regular, prior = <<>> PROVE Stuck \/ Greedy
    BY DEF GreedyInv
<1>1. /\ from \in 0..Len(input) /\ end \in 0..Len(input) /\ index = from - 1
      /\ state = Root /\ last_node = NULL /\ pc = "idle" /\ found = <<>>
    BY DEF Init
<1>2. from \in Nat /\ end \in Nat
    BY <1>1
<1>3. CASE from > end
  <2>1. index >= end
    BY <1>1, <1>2, <1>3
  <2> QED
    BY <1>1, <1>3, <2>1 DEF Stuck
<1>4. CASE from <= end
  <2>1. Passed = from
    BY <1>1, <1>2, <1>4 DEF Passed
  <2>2. Fresh
    BY <1>1, <1>4, <2>1 DEF Fresh
  <2> QED
    BY <2>2, LongInit, FreshGreedy
<1> QED
    BY <1>2, <1>3, <1>4

\* set() with reset begins another search.
LEMMA GreedyReset ==
    ASSUME NEW text \in Texts, LongInv, automaton_search_iter_long_set_reset(text)
    PROVE  Greedy'
<1>1. /\ pc = "idle" /\ pc' = pc /\ end' \in Nat /\ index' = -1
    BY SetFacts DEF automaton_search_iter_long_set_reset
<1>2. /\ state' = Root /\ last_node' = NULL /\ from' = 0 /\ prior' = <<>> /\ found' = <<>>
      /\ regular'
    BY DEF automaton_search_iter_long_set_reset, Forget
<1>3. Passed' = 0 /\ (from <= end)'
    BY <1>1, <1>2 DEF Passed
<1>4. Fresh'
    BY <1>1, <1>2, <1>3 DEF Fresh
<1>5. LongInv' /\ regular' /\ (prior = <<>>)'
    BY <1>2, ResetKeeps
<1> QED
    BY <1>4, <1>5, FreshGreedy, PTL

\* set() without reset does so only behind an empty string.
LEMMA GreedySet ==
    ASSUME NEW text \in Texts, LongInv, automaton_search_iter_long_set(text),
           regular', prior' = <<>>
    PROVE  Greedy'
<1>1. /\ pc = "idle" /\ pc' = pc /\ end' \in Nat /\ index' = -1
    BY SetFacts DEF automaton_search_iter_long_set
<1>2. regular /\ Drained
    BY DEF automaton_search_iter_long_set
<1>3. /\ prior' = WholeText /\ UNCHANGED <<from, found, state, last_node>>
      /\ index = end /\ from <= end
    BY <1>2 DEF automaton_search_iter_long_set, Drained, WholeText
<1>4. /\ WholeText \in Seq(Letters) /\ Len(WholeText) = shift + end /\ end \in Nat /\ shift \in Nat
      /\ Behind \in Nat /\ (Stuck \/ Searching) /\ Passed \in 0..end
    BY <1>1, <1>2, Going
<1>5. from \in Nat /\ found \in Seq(Nat \X words) /\ shift = Len(prior) /\ DictOK
    BY <1>2 DEF LongInv, RegularOK, Reports
<1>6. end = 0 /\ shift = 0 /\ Passed = 0
  <2>1. Len(WholeText) = 0
    BY <1>3
  <2> QED
    BY <1>4, <2>1
<1>7. Searching
    BY <1>3, <1>4, <1>5 DEF Stuck
<1>8. last_node = NULL /\ OnPath(WholeText, shift + Passed, Behind, state)
    BY <1>1, <1>7 DEF Searching
<1>9. state = Root /\ Behind = 0
  <2>1. state \in Seq(Letters) /\ Len(state) \in Nat /\ Behind + Len(state) <= shift + Passed
    BY <1>5, <1>8, DictNodes, LenProperties DEF OnPath
  <2>2. Len(state) = 0 /\ Behind = 0
    BY <1>4, <1>6, <2>1
  <2> QED
    BY <2>1, <2>2, EmptySeq DEF Root
<1>10. found = <<>>
  <2> SUFFICES ASSUME found # <<>> PROVE FALSE
    OBVIOUS
  <2>1. Len(found) \in 1..Len(found)
    BY <1>5, LenProperties, EmptySeq
  <2>2. found[Len(found)] \in Nat \X words
    BY <1>5, <2>1, ElementOfSeq
  <2>3. found[Len(found)][1] \in Nat
    BY <2>2
  <2> QED
    BY <1>9, <2>3 DEF Behind
<1>11. from' = 0 /\ Passed' = 0 /\ (from <= end)'
    BY <1>1, <1>3, <1>5, <1>6 DEF Passed
<1>12. Fresh'
    BY <1>1, <1>3, <1>8, <1>9, <1>10, <1>11 DEF Fresh
<1>13. LongInv' /\ regular' /\ (prior = <<>>)'
    BY SetKeeps
<1> QED
    BY <1>12, <1>13, FreshGreedy, PTL
\* Every step keeps GreedyInv.
LEMMA GreedyNext == LongInv /\ GreedyInv /\ [Next]_vars => GreedyInv'
<1> SUFFICES ASSUME LongInv, GreedyInv, [Next]_vars, regular', prior' = <<>>, ~Nested(words')
             PROVE  Stuck' \/ Greedy'
    BY DEF GreedyInv
<1>1. CASE CallNext \/ Run
  <2>1. words' = words /\ prior' = prior /\ regular' = regular
    BY <1>1 DEF CallNext, Run, Step, OutputSuffix, Mismatch, GoBack, EndOfString, Output, Report,
                iter, history
  <2>2. regular /\ prior = <<>> /\ ~Nested(words) /\ (Stuck \/ Greedy)
    BY <2>1 DEF GreedyInv
  <2>3. CASE Stuck
    BY <1>1, <2>2, <2>3, StuckKeeps
  <2>4. CASE Greedy
    <3>1. CASE CallNext
      BY <2>2, <2>4, <3>1, GreedyEnter
    <3>2. CASE Step
      BY <2>2, <2>4, <3>2, GreedyStep
    <3>3. CASE OutputSuffix
      BY <2>2, <3>3, NoSuffix
    <3>4. CASE Mismatch
      BY <2>2, <2>4, <3>4, GreedyMismatch
    <3>5. CASE GoBack
      BY <2>2, <2>4, <3>5, GreedyBack
    <3>6. CASE EndOfString
      BY <2>2, <2>4, <3>6, GreedyEnd
    <3> QED
      BY <1>1, <3>1, <3>2, <3>3, <3>4, <3>5, <3>6 DEF Run
  <2> QED
    BY <2>2, <2>3, <2>4
<1>2. ASSUME NEW text \in Texts, automaton_search_iter_long_set(text) PROVE Greedy'
    BY <1>2, GreedySet
<1>3. ASSUME NEW text \in Texts, automaton_search_iter_long_set_reset(text) PROVE Greedy'
    BY <1>3, GreedyReset
<1>4. ASSUME UNCHANGED <<words, nodes, input, index, end, shift, state, last_node, last_index>>,
             UNCHANGED <<pc, from, prior, found, regular>>
      PROVE  Stuck' \/ Greedy'
  <2>1. Stuck \/ Greedy
    BY <1>4 DEF GreedyInv
  <2>2. Stuck => Stuck'
    BY <1>4 DEF Stuck
  <2>3. /\ WholeText' = WholeText /\ Behind' = Behind /\ Passed' = Passed
        /\ Linked(state)' = Linked(state)
    BY <1>4 DEF WholeText, Chunk, Behind, Passed, Linked, Letter, trienode_get_next
  <2>4. /\ Skipped(WholeText, Behind, Passed - Len(state)) =>
                Skipped(WholeText, Behind, Passed - Len(state))'
        /\ Best(state, Passed, last_node, last_index + 1) =>
                Best(state, Passed, last_node, last_index + 1)'
    BY <1>4, <2>3 DEF Skipped, Best
  <2>5. Greedy => Greedy'
    BY <1>4, <2>3, <2>4 DEF Greedy
  <2> QED
    BY <2>1, <2>2, <2>5
<1>5. ASSUME NEW text \in Texts, automaton_search_iter_long_set_refused(text)
      PROVE  Stuck' \/ Greedy'
    BY <1>4, <1>5 DEF automaton_search_iter_long_set_refused, iter
<1>6. ~automaton_search_iter_long_del
    BY DEF automaton_search_iter_long_del
<1>7. CASE UNCHANGED vars
    BY <1>4, <1>7 DEF vars, iter, history
<1> QED
    BY <1>1, <1>2, <1>3, <1>5, <1>6, <1>7 DEF Next

\* The first of two sequences put together is a prefix.
LEMMA PrefixOfJoin ==
    ASSUME NEW S, NEW s \in Seq(S), NEW t \in Seq(S)
    PROVE  IsPrefix(s, s \o t)
<1> DEFINE u == s \o t
           k == Len(s)
<1>1. /\ u \in Seq(S) /\ Len(u) = k + Len(t) /\ k \in Nat /\ Len(t) \in Nat
      /\ \A i \in 1..k : u[i] = s[i]
    BY ConcatProperties, LenProperties
<1> HIDE DEF u
<1>2. k \in 0..Len(u) /\ k \in 0..Len(s) /\ k <= Len(u)
    BY <1>1
<1>3. At(u, k) = At(s, k)
  <2>1. /\ At(u, k) \in Seq(S) /\ Len(At(u, k)) = k /\ (\A j \in 1..k : At(u, k)[j] = u[j])
        /\ At(s, k) \in Seq(S) /\ Len(At(s, k)) = k /\ (\A j \in 1..k : At(s, k)[j] = s[j])
    BY <1>1, <1>2, AtType
  <2>2. \A j \in 1..k : At(u, k)[j] = At(s, k)[j]
    BY <1>1, <2>1
  <2> QED
    BY <2>1, <2>2, SeqEqual
<1> QED
    BY <1>2, <1>3 DEF IsPrefix, At, u

\* GreedyInv says that these are the matches.
LEMMA GreedyLongest == LongInv /\ GreedyInv => LongestIfNotNested
<1> SUFFICES ASSUME LongInv, GreedyInv, ~Nested(words), regular, prior = <<>>
             PROVE  /\ IsPrefix(found, LeftmostLongest)
                    /\ pc = "idle" /\ Drained => found = LeftmostLongest
    BY DEF LongestIfNotNested, LongestOK
<1>1. /\ pc # "deleted" /\ shift = 0 /\ from \in Nat
    BY DEF LongInv, RegularOK
<1>2. /\ WholeText \in Seq(Letters) /\ Len(WholeText) = end /\ end \in Nat
  <2>1. Len(WholeText) = shift + end /\ WholeText \in Seq(Letters) /\ end \in Nat
    BY <1>1, Going
  <2> QED
    BY <1>1, <2>1
<1>3. CASE Stuck
  <2>1. from > end /\ found = <<>>
    BY <1>3 DEF Stuck
  <2>2. LeftmostLongest = <<>>
    BY <1>2, <2>1 DEF LeftmostLongest
  <2>3. ~Drained
    BY <1>1, <1>2, <2>1 DEF Drained
  <2>4. IsPrefix(<<>>, <<>>)
    BY DEF IsPrefix
  <2> QED
    BY <2>1, <2>2, <2>3, <2>4
<1>4. CASE Greedy
  <2> DEFINE F == Leftmost(words, WholeText)
             V == Nat \X words
  <2>1. /\ DictOK /\ from \in 0..end /\ index \in Int /\ Passed \in 0..end /\ Behind \in Nat
        /\ OnPath(WholeText, Passed, Behind, state) /\ (pc = "idle" => last_node = NULL)
        /\ found \in Seq(V) /\ state \in DOMAIN nodes /\ Len(state) \in Nat
    BY <1>4, GreedyFacts
  <2>2. Behind \in 0..Len(WholeText) /\ ~(from > end)
    <3>1. Behind + Len(state) <= Passed
      BY <2>1 DEF OnPath
    <3> QED
      BY <1>2, <2>1, <3>1
  <2>3. F[from] = found \o F[Behind] /\ LeftmostLongest = F[from]
    <3>1. LeftmostLongest = F[from]
      BY <1>2, <2>2 DEF LeftmostLongest
    <3> QED
      BY <1>4, <3>1 DEF Greedy
  <2>4. F[Behind] \in Seq(V)
    <3>1. F \in [0..Len(WholeText) -> Seq(V)]
      BY <1>2, <2>1, ScanSteps
    <3> HIDE DEF F, V
    <3> QED
      BY <2>2, <3>1
  <2>5. ASSUME pc = "idle", Drained PROVE F[Behind] = <<>>
    <3>1. Passed = Len(WholeText) /\ last_node = NULL
      BY <1>2, <2>1, <2>5 DEF Drained, Passed
    <3>2. /\ Best(state, Len(WholeText), NULL, last_index + 1)
          /\ Skipped(WholeText, Behind, Len(WholeText) - Len(state))
          /\ OnPath(WholeText, Len(WholeText), Behind, state)
      BY <1>4, <2>1, <3>1 DEF Greedy
    <3> QED
      BY <1>2, <2>1, <3>2, EndSkips
  <2> HIDE DEF F, V
  <2> DEFINE h == F[Behind]
  <2>6. IsPrefix(found, found \o h)
    <3>1. h \in Seq(V)
      BY <2>4
    <3> HIDE DEF h
    <3> QED
      BY <2>1, <3>1, PrefixOfJoin
  <2>7. found \o <<>> = found
    BY <2>1, ConcatEmptySeq
  <2> QED
    BY <2>3, <2>5, <2>6, <2>7
<1> QED
    BY <1>3, <1>4 DEF GreedyInv

(***************************************************************************)
(* iter_long(): where no word occurs inside another, what was reported of  *)
(* one text are the first of its leftmost longest matches, and all of them *)
(* when next() has come to the end.                                        *)
(***************************************************************************)
THEOREM LongestCorrect == Spec => []LongestIfNotNested
<1>1. Init => LongInv /\ GreedyInv
    BY LongInit, GreedyInit
<1>2. LongInv /\ GreedyInv /\ [Next]_vars => (LongInv /\ GreedyInv)'
    BY LongNext, GreedyNext
<1>3. LongInv /\ GreedyInv => LongestIfNotNested
    BY GreedyLongest
<1> QED
    BY <1>1, <1>2, <1>3, PTL DEF Spec

-----------------------------------------------------------------------------
(* The slice. *)

\* Before any set(), the text is the string given to iter_long().
FirstInv ==
    /\ sets \in Nat
    /\ sets = 0 /\ pc # "deleted" => regular /\ prior = <<>> /\ (from > end => Stuck)

LEMMA FirstInit == Init => FirstInv
<1> SUFFICES ASSUME Init PROVE FirstInv
    OBVIOUS
<1>1. /\ from \in 0..Len(input) /\ end \in 0..Len(input) /\ index = from - 1
      /\ found = <<>> /\ last_node = NULL /\ pc = "idle"
      /\ sets = 0 /\ regular /\ prior = <<>>
    BY DEF Init
<1>2. from \in Int /\ end \in Int
    BY <1>1
<1>3. from > end => index >= end
    BY <1>1, <1>2
<1> QED
    BY <1>1, <1>3 DEF FirstInv, Stuck

LEMMA FirstNext == LongInv /\ FirstInv /\ [Next]_vars => FirstInv'
<1> SUFFICES ASSUME LongInv, FirstInv, [Next]_vars PROVE FirstInv'
    OBVIOUS
<1>1. ASSUME NEW text \in Texts,
             \/ automaton_search_iter_long_set(text)
             \/ automaton_search_iter_long_set_reset(text)
             \/ automaton_search_iter_long_set_refused(text)
      PROVE  FirstInv'
  <2>1. sets' = sets + 1
    BY <1>1 DEF automaton_search_iter_long_set, automaton_search_iter_long_set_reset,
                automaton_search_iter_long_set_refused, Set
  <2> QED
    BY <2>1 DEF FirstInv
<1>2. CASE automaton_search_iter_long_del
  <2>1. pc' = "deleted" /\ sets' = sets
    BY <1>2 DEF automaton_search_iter_long_del
  <2> QED
    BY <2>1 DEF FirstInv
<1>3. CASE CallNext \/ Run \/ UNCHANGED vars
  <2>1. UNCHANGED <<sets, regular, prior, from, end>>
    BY <1>3 DEF CallNext, Run, Step, OutputSuffix, Mismatch, GoBack, EndOfString, Output, Report,
                iter, history, vars
  <2>2. pc = "deleted" => pc' = "deleted"
    BY <1>3 DEF CallNext, Run, Step, OutputSuffix, Mismatch, GoBack, EndOfString, vars
  <2>3. ASSUME regular, Stuck PROVE Stuck'
    <3>1. CASE CallNext \/ Run
      BY <2>3, <3>1, StuckKeeps
    <3>2. CASE UNCHANGED vars
      BY <2>3, <3>2 DEF Stuck, vars, iter, history
    <3> QED
      BY <1>3, <3>1, <3>2
  <2> QED
    BY <2>1, <2>2, <2>3 DEF FirstInv
<1> QED
    BY <1>1, <1>2, <1>3 DEF Next

\* Arguments that are not refused give the bounds searched, and those of Python.
LEMMA AskedBounds ==
    ASSUME input \in Seq(Letters), NEW args \in Arguments(Len(input)), Asked(args),
           ~NegativeEnd(args)
    PROVE  LET slice == PythonSlice(args, Len(input)) IN slice.start = from /\ slice.end = end
<1> DEFINE parsed == pymod_parse_start_end(args, Len(input))
           slice == PythonSlice(args, Len(input))
<1>1. Len(input) \in Nat
    BY LenProperties
<1>2. SelectsAsPython(args, Len(input))
    BY <1>1, ArgumentsAre, SliceCorrect
<1>3. parsed.exc = "none" /\ parsed.start = from /\ parsed.end = end
    BY DEF Asked, Bounds
<1>4. parsed.start = slice.start /\ parsed.end = slice.end
    BY <1>2, <1>3 DEF SelectsAsPython
<1> QED
    BY <1>3, <1>4

\* The matches found in one text, LeftmostLongest, are then those in the slice.
LEMMA LongestInSlice ==
    ASSUME LongInv, FirstInv, LongestIfNotNested
    PROVE  SliceUnlessNegative
<1> SUFFICES ASSUME FirstDrained, ~Nested(words), NEW args \in Arguments(Len(input)),
                    Asked(args), ~NegativeEnd(args)
             PROVE  found = MatchesInSlice(args)
    BY DEF SliceUnlessNegative
<1>1. sets = 0 /\ pc = "idle" /\ (from > end \/ (Drained /\ from <= end))
    BY DEF FirstDrained, Drained
<1>2. regular /\ prior = <<>> /\ (from > end => Stuck)
    BY <1>1 DEF FirstInv
<1>3. input \in Seq(Letters) /\ end \in 0..Len(input) /\ Len(input) \in Nat
    BY LenProperties DEF LongInv, PlaceOK
<1>4. from \in Nat /\ shift = 0
    BY <1>1, <1>2 DEF LongInv, RegularOK
<1>5. PythonSlice(args, Len(input)).start = from /\ PythonSlice(args, Len(input)).end = end
    BY <1>3, AskedBounds
<1>6. CASE from > end
  <2>1. found = <<>>
    BY <1>2, <1>6 DEF Stuck
  <2> QED
    BY <1>5, <1>6, <2>1 DEF MatchesInSlice
<1>7. CASE Drained /\ from <= end
  <2>1. found = LeftmostLongest
    BY <1>1, <1>2, <1>7 DEF LongestIfNotNested, LongestOK
  <2>2. WholeText = SubSeq(input, 1, end)
    <3>1. Chunk \in Seq(Letters)
      BY <1>3, AtType DEF Chunk, At
    <3> QED
      BY <1>2, <3>1, ConcatEmptySeq DEF WholeText, Chunk
  <2>3. Len(WholeText) = end
    BY <1>3, <2>2, AtType DEF At
  <2>4. LeftmostLongest = Leftmost(words, SubSeq(input, 1, end))[from]
    BY <1>3, <1>4, <1>7, <2>2, <2>3 DEF LeftmostLongest
  <2>5. ~(from > end)
    BY <1>3, <1>4, <1>7
  <2>6. MatchesInSlice(args) = Leftmost(words, SubSeq(input, 1, end))[from]
    BY <1>5, <2>5 DEF MatchesInSlice
  <2> QED
    BY <2>1, <2>4, <2>6
<1> QED
    BY <1>1, <1>6, <1>7

(***************************************************************************)
(* iter_long(string, start, end), read to the end, has found the leftmost  *)
(* longest matches in string[start:end], for every set of words of which   *)
(* none occurs inside another, every string, and all arguments that are    *)
(* not refused and among which no end is negative (utils.c:300,            *)
(* AutomatonSearchIterLong.c:96).                                          *)
(***************************************************************************)
THEOREM SliceSearched == Spec => []SliceUnlessNegative
<1>1. Init => LongInv /\ FirstInv
    BY LongInit, FirstInit
<1>2. LongInv /\ FirstInv /\ [Next]_vars => (LongInv /\ FirstInv)'
    BY LongNext, FirstNext
<1>3. LongInv /\ FirstInv /\ LongestIfNotNested => SliceUnlessNegative
    BY LongestInSlice
<1> QED
    BY <1>1, <1>2, <1>3, LongestCorrect, PTL DEF Spec
=============================================================================
