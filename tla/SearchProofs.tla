---------------------------- MODULE SearchProofs ----------------------------
(***************************************************************************)
(* The search iterator.  First the strings it is given: for all words, all *)
(* strings and any number of set() calls, what is taken is given back.     *)
(* Then what it finds: for all words and texts, in whatever chunks, it     *)
(* reports the occurrences of the words, each once and in order.           *)
(***************************************************************************)
EXTENDS SearchIter, TrieProofs

Wants(k) == pc # "deleted" /\ k = buffer.word   \* the string k is being searched

(***************************************************************************)
(* The inductive invariant: InputReleased says of the flag is_copy only    *)
(* what the strings require of it, so the invariant adds that, while the   *)
(* strings are stored alike, the flag is the one each of them requires;    *)
(* that the string being searched was not refused; and that nothing is     *)
(* held of the strings still to come.                                      *)
(***************************************************************************)
OwnType ==
    /\ sets \in 0..MaxSets /\ refused \subseteq 1..sets
    /\ buffer \in StructInput /\ buffer.word \in (0..sets) \ refused
    /\ ledger \in Ledger

NothingAhead == \A k \in (sets + 1)..MaxSets : ledger.copies[k] = 0 /\ ledger.references[k] = 0

FlagFits == alike /\ pc # "deleted" => buffer.is_copy = ~PyUnicode_4BYTE_KIND(input)

Balanced ==
    alike => \A k \in (0..sets) \ refused :
                /\ ledger.copies[k] = IF Wants(k) /\ buffer.is_copy THEN 1 ELSE 0
                /\ ledger.references[k] = IF Wants(k) /\ ~buffer.is_copy THEN 1 ELSE 0

OwnInv == OwnType /\ NothingAhead /\ FlagFits /\ Balanced

\* The iterator starts out owning its first string.
LEMMA OwnInit == Init => OwnInv
<1> SUFFICES ASSUME Init PROVE OwnInv
    OBVIOUS
<1>1. /\ buffer \in StructInput /\ buffer.word = 0
      /\ buffer.is_copy = ~PyUnicode_4BYTE_KIND(input)
    BY InputAssumption, GetString DEF Init
<1>2. /\ ledger \in Ledger
      /\ \A k \in 0..MaxSets :
            /\ ledger.copies[k] = 0 + IF k = 0 /\ buffer.is_copy THEN 1 ELSE 0
            /\ ledger.references[k] = 0 + IF k = 0 /\ ~buffer.is_copy THEN 1 ELSE 0
    BY <1>1, NothingEmpty, Prepared DEF Init
<1>3. sets = 0 /\ refused = {} /\ pc = "idle"
    BY DEF Init
<1>4. OwnType
    BY <1>1, <1>2, <1>3, InputAssumption DEF OwnType
<1>5. NothingAhead
    BY <1>2, <1>3, InputAssumption DEF NothingAhead
<1>6. FlagFits
    BY <1>1 DEF FlagFits
<1>7. Balanced
    BY <1>1, <1>2, <1>3, InputAssumption DEF Balanced, Wants
<1> QED
    BY <1>4, <1>5, <1>6, <1>7 DEF OwnInv

\* set(): the new string is taken, the one before given back.
LEMMA SetKeepsOwn ==
    ASSUME OwnInv, NEW text, Set(text)
    PROVE  OwnInv'
<1> DEFINE new == pymod_get_string(text, sets + 1)
<1>1. /\ sets \in Nat /\ sets + 1 \in 0..MaxSets /\ sets' = sets + 1
      /\ pc = "idle" /\ pc' = "idle" /\ refused' = refused /\ input' = text
    BY InputAssumption DEF OwnInv, OwnType, Set
<1>2. /\ new \in StructInput /\ new.word = sets + 1
      /\ new.is_copy = ~PyUnicode_4BYTE_KIND(text)
    BY <1>1, GetString
<1>3. /\ ledger' = Replaced(ledger, buffer, new)
      /\ buffer' = [buffer EXCEPT !.word = new.word]
      /\ alike' = (alike /\ new.is_copy = buffer.is_copy)
    BY DEF Set, assign_input
<1> HIDE DEF new
<1>4. /\ ledger' \in Ledger
      /\ \A k \in 0..MaxSets :
            /\ ledger'.copies[k] = ledger.copies[k] +
                    (IF k = new.word /\ new.is_copy THEN 1 ELSE 0) -
                    (IF k = buffer.word /\ buffer.is_copy THEN 1 ELSE 0)
            /\ ledger'.references[k] = ledger.references[k] +
                    (IF k = new.word /\ ~new.is_copy THEN 1 ELSE 0) -
                    (IF k = buffer.word /\ ~buffer.is_copy THEN 1 ELSE 0)
  <2>1. ledger \in Ledger /\ buffer \in StructInput
    BY DEF OwnInv, OwnType
  <2> QED
    BY <2>1, <1>2, <1>3, ReplacedBoth
<1>5. /\ buffer' \in StructInput /\ buffer'.word = sets + 1
      /\ buffer'.is_copy = buffer.is_copy
    BY <1>1, <1>2, <1>3 DEF OwnInv, OwnType, StructInput
<1>6. OwnType'
    BY <1>1, <1>4, <1>5 DEF OwnInv, OwnType
<1>7. /\ buffer.word \in 0..sets /\ refused \subseteq 1..sets /\ buffer.word \notin refused
      /\ \A k \in (sets + 1)..MaxSets : ledger.copies[k] = 0 /\ ledger.references[k] = 0
    BY DEF OwnInv, OwnType, NothingAhead
<1>8. NothingAhead'
  <2>1. ASSUME NEW k \in (sets' + 1)..MaxSets
        PROVE  k \in (sets + 1)..MaxSets /\ k \in 0..MaxSets /\ k # new.word /\ k # buffer.word
    BY <1>1, <1>2, <1>7
  <2> QED
    BY <2>1, <1>4, <1>7 DEF NothingAhead
<1>9. FlagFits'
    BY <1>1, <1>2, <1>3, <1>5 DEF FlagFits
<1>10. ASSUME alike', NEW k \in (0..sets') \ refused'
       PROVE  /\ ledger'.copies[k] = IF Wants(k)' /\ buffer'.is_copy THEN 1 ELSE 0
              /\ ledger'.references[k] = IF Wants(k)' /\ ~buffer'.is_copy THEN 1 ELSE 0
  <2>1. alike /\ new.is_copy = buffer.is_copy /\ buffer'.is_copy = buffer.is_copy
    BY <1>3, <1>5, <1>10
  <2>2. k \in 0..MaxSets /\ (Wants(k)' <=> k = sets + 1)
    BY <1>1, <1>5, InputAssumption DEF Wants
  <2>3. CASE k = sets + 1
    <3>1. ledger.copies[k] = 0 /\ ledger.references[k] = 0 /\ k # buffer.word /\ k = new.word
      BY <2>3, <1>1, <1>2, <1>7
    <3> QED
      BY <3>1, <2>1, <2>2, <2>3, <1>4
  <2>4. CASE k # sets + 1
    <3>1. k \in (0..sets) \ refused /\ k # new.word
      BY <2>4, <1>1, <1>2
    <3>2. /\ ledger.copies[k] = IF k = buffer.word /\ buffer.is_copy THEN 1 ELSE 0
          /\ ledger.references[k] = IF k = buffer.word /\ ~buffer.is_copy THEN 1 ELSE 0
      BY <3>1, <2>1, <1>1 DEF OwnInv, Balanced, Wants
    <3> QED
      BY <3>1, <3>2, <2>1, <2>2, <2>4, <1>4
  <2> QED
    BY <2>3, <2>4
<1>11. Balanced'
    BY <1>10 DEF Balanced
<1> QED
    BY <1>6, <1>8, <1>9, <1>11 DEF OwnInv

\* A refused set() takes the string it was given and changes nothing else.
LEMMA RefusedKeepsOwn ==
    ASSUME OwnInv, NEW text, automaton_search_iter_set_refused(text)
    PROVE  OwnInv'
<1> DEFINE new == pymod_get_string(text, sets + 1)
<1>1. /\ sets \in Nat /\ sets + 1 \in 0..MaxSets /\ sets' = sets + 1
      /\ pc' = pc /\ refused' = refused \cup {sets + 1}
      /\ input' = input /\ buffer' = buffer /\ alike' = alike
      /\ ledger' = prepare_input(ledger, new)
    BY InputAssumption DEF OwnInv, OwnType, automaton_search_iter_set_refused, iter
<1>2. new \in StructInput /\ new.word = sets + 1
    BY <1>1, GetString
<1> HIDE DEF new
<1>3. /\ ledger' \in Ledger
      /\ \A k \in 0..MaxSets : k # sets + 1 =>
            ledger'.copies[k] = ledger.copies[k] /\ ledger'.references[k] = ledger.references[k]
  <2>1. ledger \in Ledger /\ \A k \in 0..MaxSets : ledger.copies[k] \in Int /\ ledger.references[k] \in Int
    BY Entries DEF OwnInv, OwnType
  <2>2. /\ ledger' \in Ledger
        /\ \A k \in 0..MaxSets :
            /\ ledger'.copies[k] = ledger.copies[k] + IF k = new.word /\ new.is_copy THEN 1 ELSE 0
            /\ ledger'.references[k] =
                    ledger.references[k] + IF k = new.word /\ ~new.is_copy THEN 1 ELSE 0
    BY <2>1, <1>1, <1>2, Prepared
  <2> QED
    BY <2>1, <2>2, <1>2
<1>4. OwnType'
  <2>1. /\ buffer \in StructInput /\ buffer.word \in 0..sets /\ buffer.word \notin refused
        /\ refused \subseteq 1..sets
    BY DEF OwnInv, OwnType
  <2>2. refused' \subseteq 1..sets' /\ buffer'.word \in (0..sets') \ refused'
    BY <2>1, <1>1
  <2> QED
    BY <2>1, <2>2, <1>1, <1>3 DEF OwnType
<1>5. NothingAhead'
    BY <1>1, <1>3 DEF OwnInv, NothingAhead
<1>6. FlagFits'
    BY <1>1 DEF OwnInv, FlagFits
<1>7. Balanced'
  <2>1. \A k \in (0..sets') \ refused' : k \in (0..sets) \ refused /\ k \in 0..MaxSets /\ k # sets + 1
    BY <1>1, InputAssumption
  <2>2. \A k : Wants(k)' <=> Wants(k)
    BY <1>1 DEF Wants
  <2> QED
    BY <2>1, <2>2, <1>1, <1>3 DEF OwnInv, Balanced
<1> QED
    BY <1>4, <1>5, <1>6, <1>7 DEF OwnInv

\* The deleted iterator gives its last string back.
LEMMA DelKeepsOwn ==
    ASSUME OwnInv, automaton_search_iter_del
    PROVE  OwnInv'
<1>1. /\ pc = "idle" /\ pc' = "deleted" /\ sets' = sets /\ refused' = refused
      /\ buffer' = buffer /\ alike' = alike
      /\ ledger' = destroy_input(ledger, buffer)
    BY DEF automaton_search_iter_del
<1>2. /\ ledger' \in Ledger
      /\ \A k \in 0..MaxSets :
            /\ ledger'.copies[k] = ledger.copies[k] -
                    IF k = buffer.word /\ buffer.is_copy THEN 1 ELSE 0
            /\ ledger'.references[k] = ledger.references[k] -
                    IF k = buffer.word /\ ~buffer.is_copy THEN 1 ELSE 0
    BY <1>1, Destroyed DEF OwnInv, OwnType
<1>3. sets \in 0..MaxSets /\ buffer.word \in 0..sets
    BY DEF OwnInv, OwnType
<1>4. OwnType'
    BY <1>1, <1>2 DEF OwnInv, OwnType
<1>5. NothingAhead'
  <2>1. ASSUME NEW k \in (sets + 1)..MaxSets
        PROVE  k \in 0..MaxSets /\ k # buffer.word
    BY <1>3
  <2> QED
    BY <2>1, <1>1, <1>2 DEF OwnInv, NothingAhead
<1>6. FlagFits'
    BY <1>1 DEF FlagFits
<1>7. ASSUME alike, NEW k \in (0..sets) \ refused
      PROVE  ledger'.copies[k] = 0 /\ ledger'.references[k] = 0
  <2>1. k \in 0..MaxSets
    BY <1>3, InputAssumption
  <2>2. /\ ledger.copies[k] = IF k = buffer.word /\ buffer.is_copy THEN 1 ELSE 0
        /\ ledger.references[k] = IF k = buffer.word /\ ~buffer.is_copy THEN 1 ELSE 0
    BY <1>1, <1>7 DEF OwnInv, Balanced, Wants
  <2> QED
    BY <2>1, <2>2, <1>2
<1>8. Balanced'
    BY <1>1, <1>7 DEF Balanced, Wants
<1> QED
    BY <1>4, <1>5, <1>6, <1>8 DEF OwnInv

\* Inside next() nothing changes hands.
LEMMA OwnStable ==
    ASSUME OwnInv, UNCHANGED <<owned, sets, input>>, pc # "deleted" <=> pc' # "deleted"
    PROVE  OwnInv'
BY DEF OwnInv, OwnType, NothingAhead, FlagFits, Balanced, Wants, owned

\* Every step keeps the invariant.
LEMMA OwnNext == OwnInv /\ [Next]_vars => OwnInv'
<1> SUFFICES ASSUME OwnInv, [Next]_vars PROVE OwnInv'
    OBVIOUS
<1>1. CASE CallNext
    BY <1>1, OwnStable DEF CallNext, iter, history
<1>2. CASE Report
    BY <1>2, OwnStable DEF Report
<1>3. CASE Advance
    BY <1>3, OwnStable DEF Advance, history
<1>4. CASE Stop
    BY <1>4, OwnStable DEF Stop, history
<1>5. ASSUME NEW text \in Texts, automaton_search_iter_set(text)
      PROVE  OwnInv'
    BY <1>5, SetKeepsOwn DEF automaton_search_iter_set
<1>6. ASSUME NEW text \in Texts, automaton_search_iter_set_reset(text)
      PROVE  OwnInv'
    BY <1>6, SetKeepsOwn DEF automaton_search_iter_set_reset
<1>7. ASSUME NEW text \in Texts, automaton_search_iter_set_refused(text)
      PROVE  OwnInv'
    BY <1>7, RefusedKeepsOwn
<1>8. CASE automaton_search_iter_del
    BY <1>8, DelKeepsOwn
<1>9. CASE UNCHANGED vars
    BY <1>9, OwnStable DEF vars, iter, history
<1> QED
    BY <1>1, <1>2, <1>3, <1>4, <1>5, <1>6, <1>7, <1>8, <1>9 DEF Next

\* The invariant says of the ledger what InputReleased asks for.
LEMMA OwnReleases == OwnInv => ReleasedUnlessMixed
<1> SUFFICES ASSUME OwnInv, alike PROVE InputReleased
    BY DEF ReleasedUnlessMixed
<1> DEFINE own == pymod_get_string(input, buffer.word)
           owed == prepare_input(Nothing, own)
<1>1. sets \in 0..MaxSets /\ buffer.word \in 0..MaxSets
    BY InputAssumption DEF OwnInv, OwnType
<1>2. own \in StructInput /\ own.word = buffer.word /\ own.is_copy = ~PyUnicode_4BYTE_KIND(input)
    BY <1>1, GetString
<1>3. \A k \in 0..MaxSets :
        /\ owed.copies[k] = 0 + IF k = buffer.word /\ own.is_copy THEN 1 ELSE 0
        /\ owed.references[k] = 0 + IF k = buffer.word /\ ~own.is_copy THEN 1 ELSE 0
    BY <1>2, NothingEmpty, Prepared
<1> HIDE DEF own, owed
<1>4. \A k \in (0..sets) \ refused :
        /\ k \in 0..MaxSets
        /\ ledger.copies[k] = IF Wants(k) /\ buffer.is_copy THEN 1 ELSE 0
        /\ ledger.references[k] = IF Wants(k) /\ ~buffer.is_copy THEN 1 ELSE 0
    BY <1>1, InputAssumption DEF OwnInv, Balanced
<1>5. CASE pc = "deleted"
    BY <1>4, <1>5, NothingEmpty DEF InputReleased, Wants
<1>6. CASE pc # "deleted"
  <2>1. own.is_copy = buffer.is_copy
    BY <1>2, <1>6 DEF OwnInv, FlagFits
  <2>2. \A k \in (0..sets) \ refused :
            ledger.copies[k] = owed.copies[k] /\ ledger.references[k] = owed.references[k]
    BY <2>1, <1>3, <1>4, <1>6 DEF Wants
  <2> QED
    BY <2>2, <1>6 DEF InputReleased, own, owed
<1> QED
    BY <1>5, <1>6

(***************************************************************************)
(* However many strings set() is given, as long as they are stored alike a *)
(* living iterator owns exactly the letters of the last one that it took,  *)
(* and a deleted one owns nothing.                                         *)
(***************************************************************************)
THEOREM InputsReleased == Spec => []ReleasedUnlessMixed
<1>1. Spec => []OwnInv
    BY OwnInit, OwnNext, PTL DEF Spec
<1> QED
    BY <1>1, OwnReleases, PTL

-----------------------------------------------------------------------------
(* The letters of a string that are searched. *)

\* The letters of texts, and letters with their places.
Symbols == Letters \cup {White}
Placed == Nat \X Symbols

PassedOver(text, from, skip, k) == k <= from \/ (skip /\ text[k] = White)

KeptBy(text, from, before, skip, K) ==
    /\ K \in [0..Len(text) -> Seq(Placed)] /\ K[0] = <<>>
    /\ \A k \in 1..Len(text) :
            K[k] = IF PassedOver(text, from, skip, k) THEN K[k - 1]
                   ELSE Append(K[k - 1], <<before + k - 1, text[k]>>)

\* Kept goes through the string letter by letter.
LEMMA KeptSteps ==
    ASSUME NEW text \in Seq(Symbols), NEW from, NEW before \in Nat, NEW skip,
           NEW K, K = Kept(text, from, before, skip)
    PROVE  KeptBy(text, from, before, skip, K)
<1> DEFINE n == Len(text)
           V == Seq(Placed)
           step == [k \in 1..n |-> [s \in V |->
                        IF PassedOver(text, from, skip, k) THEN s
                        ELSE Append(s, <<before + k - 1, text[k]>>)]]
           B(f) == [k \in 0..n |->
                        IF k = 0 THEN <<>>
                        ELSE IF k <= from \/ (skip /\ text[k] = White) THEN f[k - 1]
                        ELSE Append(f[k - 1], <<before + k - 1, text[k]>>)]
<1>1. n \in Nat /\ <<>> \in V
    BY LenProperties, EmptySeq
<1>2. step \in [1..n -> [V -> V]]
  <2>1. ASSUME NEW k \in 1..n, NEW s \in V
        PROVE  Append(s, <<before + k - 1, text[k]>>) \in V
    <3>1. before + k - 1 \in Nat /\ text[k] \in Symbols
      BY ElementOfSeq
    <3>2. <<before + k - 1, text[k]>> \in Placed
      BY <3>1 DEF Placed
    <3> QED
      BY <3>2, AppendProperties
  <2> HIDE DEF n, V
  <2> QED
    BY <2>1
<1>3. PICK f \in [0..n -> V] : f[0] = <<>> /\ \A k \in 1..n : f[k] = step[k][f[k - 1]]
  <2> HIDE DEF n, V, step
  <2>1. \E f : Chained(V, <<>>, n, step, f)
    BY <1>1, <1>2, Iterated
  <2> QED
    BY <2>1 DEF Chained
<1>4. \A k \in 1..n :
        f[k] = IF PassedOver(text, from, skip, k) THEN f[k - 1]
               ELSE Append(f[k - 1], <<before + k - 1, text[k]>>)
  <2> TAKE k \in 1..n
  <2>1. k - 1 \in 0..n
    BY <1>1
  <2>2. f[k - 1] \in V /\ f[k] = step[k][f[k - 1]]
    BY <1>3, <2>1
  <2> HIDE DEF n, V
  <2> QED
    BY <2>2
<1> HIDE DEF step
<1>5. f = B(f)
  <2>1. f = [k \in 0..n |-> f[k]]
    BY <1>3
  <2>2. \A k \in 0..n : f[k] = B(f)[k]
    <3> TAKE k \in 0..n
    <3>1. CASE k = 0
      BY <1>3, <3>1
    <3>2. CASE k # 0
      <4>1. k \in 1..n
        BY <1>1, <3>2
      <4> QED
        BY <1>4, <3>2, <4>1 DEF PassedOver
    <3> QED
      BY <3>1, <3>2
  <2> QED
    BY <2>1, <2>2
<1>6. K = CHOOSE g : g = B(g)
    BY DEF Kept
<1>7. K = B(K)
  <2> HIDE DEF B
  <2> QED
    BY <1>5, <1>6
<1>8. DOMAIN K = 0..n /\ K = [k \in 0..n |-> K[k]] /\ K[0] = <<>>
    BY <1>1, <1>7
<1>9. ASSUME NEW k \in 1..n
      PROVE  K[k] = IF PassedOver(text, from, skip, k) THEN K[k - 1]
                    ELSE Append(K[k - 1], <<before + k - 1, text[k]>>)
  <2>1. k \in 0..n /\ k # 0
    BY <1>1
  <2>2. B(K)[k] = IF PassedOver(text, from, skip, k) THEN K[k - 1]
                  ELSE Append(K[k - 1], <<before + k - 1, text[k]>>)
    BY <2>1 DEF PassedOver
  <2> QED
    BY <1>7, <2>2
<1> HIDE DEF B
<1>10. 0..n \subseteq {k \in 0..n : K[k] = f[k]}
  <2> DEFINE T == {k \in 0..n : K[k] = f[k]}
  <2>1. 0 \in T
    BY <1>1, <1>3, <1>8
  <2>2. ASSUME NEW k \in 1..n, k - 1 \in T PROVE k \in T
    <3>1. k \in 0..n /\ K[k - 1] = f[k - 1]
      BY <2>2, <1>1
    <3> HIDE DEF n
    <3> QED
      BY <1>4, <1>9, <3>1
  <2> HIDE DEF T, n
  <2>3. 0..n \subseteq T
    BY <1>1, <2>1, <2>2, UpTo
  <2> QED
    BY <2>3 DEF T
<1>11. K \in [0..n -> V]
  <2> HIDE DEF n, V
  <2> QED
    BY <1>3, <1>8, <1>10
<1> QED
    BY <1>8, <1>9, <1>11 DEF KeptBy

\* Letters in the order of their places, all of them before m.
Rising(r, m) ==
    /\ r \in Seq(Placed)
    /\ \A k \in 1..Len(r) : r[k][1] < m
    /\ \A j, k \in 1..Len(r) : j < k => r[j][1] < r[k][1]

\* The sequence s, and perhaps more.
Extends(s, t) == Len(s) <= Len(t) /\ \A i \in 1..Len(s) : t[i] = s[i]

\* One more letter, at a later place.
LEMMA RisingAppend ==
    ASSUME NEW r, NEW m \in Nat, Rising(r, m), NEW x \in Placed, m <= x[1],
           NEW n \in Nat, x[1] < n
    PROVE  Rising(Append(r, x), n) /\ Extends(r, Append(r, x))
<1> DEFINE t == Append(r, x)
<1>1. r \in Seq(Placed) /\ Len(r) \in Nat /\ x[1] \in Nat
    BY LenProperties DEF Rising, Placed
<1>2. /\ t \in Seq(Placed) /\ Len(t) = Len(r) + 1 /\ t[Len(r) + 1] = x
      /\ \A i \in 1..Len(r) : t[i] = r[i]
    BY <1>1, AppendProperties
<1> HIDE DEF t
<1>3. \A i \in 1..Len(t) : i \in 1..Len(r) \/ i = Len(r) + 1
    BY <1>1, <1>2
<1>4. \A i \in 1..Len(r) : r[i][1] \in Nat /\ r[i][1] < m
  <2>1. \A i \in 1..Len(r) : r[i] \in Placed
    BY <1>1, ElementOfSeq
  <2> QED
    BY <2>1 DEF Rising, Placed
<1>5. ASSUME NEW i \in 1..Len(t) PROVE t[i][1] < n
    BY <1>1, <1>2, <1>3, <1>4
<1>6. ASSUME NEW i \in 1..Len(t), NEW k \in 1..Len(t), i < k PROVE t[i][1] < t[k][1]
  <2>1. i \in 1..Len(r)
    BY <1>1, <1>2, <1>6
  <2>2. CASE k = Len(r) + 1
    BY <1>1, <1>2, <1>4, <2>1, <2>2
  <2>3. CASE k \in 1..Len(r)
    BY <1>2, <1>6, <2>1, <2>3 DEF Rising
  <2> QED
    BY <1>3, <2>2, <2>3
<1>7. Rising(t, n)
    BY <1>2, <1>5, <1>6 DEF Rising
<1>8. Extends(r, t)
    BY <1>1, <1>2 DEF Extends
<1> QED
    BY <1>7, <1>8 DEF t

\* The letters of the chunks before, and those of a chunk.
LEMMA RisingConcat ==
    ASSUME NEW r, NEW m \in Nat, Rising(r, m), NEW s, NEW n \in Nat, Rising(s, n), m <= n,
           \A i \in 1..Len(s) : m <= s[i][1]
    PROVE  Rising(r \o s, n)
<1> DEFINE t == r \o s
<1>1. r \in Seq(Placed) /\ s \in Seq(Placed) /\ Len(r) \in Nat /\ Len(s) \in Nat
    BY LenProperties DEF Rising
<1>2. /\ t \in Seq(Placed) /\ Len(t) = Len(r) + Len(s)
      /\ \A i \in 1..Len(t) : t[i] = IF i <= Len(r) THEN r[i] ELSE s[i - Len(r)]
    BY <1>1, ConcatProperties
<1> HIDE DEF t
<1>3. /\ \A i \in 1..Len(r) : r[i][1] \in Nat /\ r[i][1] < m
      /\ \A i \in 1..Len(s) : s[i][1] \in Nat /\ s[i][1] < n /\ m <= s[i][1]
  <2>1. \A i \in 1..Len(r) : r[i] \in Placed
    BY <1>1, ElementOfSeq
  <2>2. \A i \in 1..Len(s) : s[i] \in Placed
    BY <1>1, ElementOfSeq
  <2> QED
    BY <2>1, <2>2 DEF Rising, Placed
<1>4. \A i \in 1..Len(t) :
        \/ i \in 1..Len(r) /\ t[i] = r[i]
        \/ i - Len(r) \in 1..Len(s) /\ t[i] = s[i - Len(r)]
    BY <1>1, <1>2
<1>5. ASSUME NEW i \in 1..Len(t) PROVE t[i][1] < n
    BY <1>3, <1>4
<1>6. ASSUME NEW i \in 1..Len(t), NEW k \in 1..Len(t), i < k PROVE t[i][1] < t[k][1]
  <2>1. CASE k \in 1..Len(r) /\ t[k] = r[k]
    <3>1. i \in 1..Len(r) /\ t[i] = r[i]
      BY <1>1, <1>2, <1>6, <2>1
    <3> QED
      BY <1>6, <2>1, <3>1 DEF Rising
  <2>2. CASE k - Len(r) \in 1..Len(s) /\ t[k] = s[k - Len(r)]
    <3>1. CASE i \in 1..Len(r) /\ t[i] = r[i]
      BY <1>3, <2>2, <3>1
    <3>2. CASE i - Len(r) \in 1..Len(s) /\ t[i] = s[i - Len(r)]
      <4>1. i - Len(r) < k - Len(r)
        BY <1>1, <1>6
      <4> QED
        BY <2>2, <3>2, <4>1 DEF Rising
    <3> QED
      BY <1>4, <3>1, <3>2
  <2> QED
    BY <1>4, <2>1, <2>2
<1> QED
    BY <1>2, <1>5, <1>6 DEF Rising, t

\* What Kept holds after k letters.
LEMMA KeptRising ==
    ASSUME NEW text \in Seq(Symbols), NEW from \in Nat, NEW before \in Nat, NEW skip,
           NEW K, K = Kept(text, from, before, skip), NEW k \in 0..Len(text)
    PROVE  /\ Rising(K[k], before + k)
           /\ \A i \in 1..Len(K[k]) : before <= K[k][i][1]
           /\ k <= from => K[k] = <<>>
<1> DEFINE n == Len(text)
           Good(j) == /\ Rising(K[j], before + j)
                      /\ \A i \in 1..Len(K[j]) : before <= K[j][i][1]
                      /\ j <= from => K[j] = <<>>
           T == {j \in 0..n : Good(j)}
<1>1. /\ n \in Nat /\ K[0] = <<>>
      /\ \A j \in 1..n : K[j] = IF PassedOver(text, from, skip, j) THEN K[j - 1]
                                ELSE Append(K[j - 1], <<before + j - 1, text[j]>>)
  <2>1. KeptBy(text, from, before, skip, K)
    BY KeptSteps
  <2> QED
    BY <2>1, LenProperties DEF KeptBy
<1>2. 0 \in T
  <2>1. <<>> \in Seq(Placed) /\ Len(<<>>) = 0
    BY EmptySeq
  <2>2. Rising(<<>>, before + 0) /\ \A i \in 1..Len(<<>>) : before <= <<>>[i][1]
    BY <2>1 DEF Rising
  <2> QED
    BY <1>1, <2>2
<1>3. ASSUME NEW j \in 1..n, j - 1 \in T PROVE j \in T
  <2> DEFINE s == K[j - 1]
             t == K[j]
  <2>1. /\ j \in 0..n /\ j \in Nat /\ j - 1 \in Nat
        /\ before + j \in Nat /\ before + (j - 1) \in Nat /\ before + j - 1 \in Nat
        /\ before + (j - 1) = before + j - 1
    BY <1>1
  <2>2. /\ Rising(s, before + (j - 1)) /\ (j - 1 <= from => s = <<>>)
        /\ \A i \in 1..Len(s) : before <= s[i][1]
    BY <1>3
  <2>3. t = IF PassedOver(text, from, skip, j) THEN s
            ELSE Append(s, <<before + j - 1, text[j]>>)
    BY <1>1
  <2> HIDE DEF s, t, n
  <2>4. Rising(t, before + j) /\ (j <= from => t = <<>>) /\ \A i \in 1..Len(t) : before <= t[i][1]
    <3>1. s \in Seq(Placed) /\ \A i \in 1..Len(s) : s[i][1] \in Nat
      <4>1. s \in Seq(Placed)
        BY <2>2 DEF Rising
      <4>2. \A i \in 1..Len(s) : s[i] \in Placed
        BY <4>1, ElementOfSeq
      <4> QED
        BY <4>1, <4>2 DEF Placed
    <3>2. CASE PassedOver(text, from, skip, j)
      <4>1. t = s
        BY <2>3, <3>2
      <4>2. Rising(s, before + j)
        BY <2>1, <2>2, <3>1 DEF Rising
      <4>3. j <= from => j - 1 <= from
        BY <2>1
      <4> QED
        BY <2>2, <4>1, <4>2, <4>3
    <3>3. CASE ~PassedOver(text, from, skip, j)
      <4> DEFINE x == <<before + j - 1, text[j]>>
      <4>1. x \in Placed /\ x[1] = before + j - 1
        <5>1. text[j] \in Symbols
          BY <1>3, ElementOfSeq DEF n
        <5> QED
          BY <2>1, <5>1 DEF Placed
      <4>2. t = Append(s, x)
        BY <2>3, <3>3
      <4> HIDE DEF x
      <4>3. before + (j - 1) <= x[1] /\ x[1] < before + j /\ before <= x[1]
        BY <2>1, <4>1
      <4>4. Rising(t, before + j)
        BY <2>1, <2>2, <4>1, <4>2, <4>3, RisingAppend
      <4>5. ~(j <= from)
        BY <3>3 DEF PassedOver
      <4>6. \A i \in 1..Len(t) : t[i] = x \/ (i \in 1..Len(s) /\ t[i] = s[i])
        <5>1. Len(s) \in Nat /\ Len(t) = Len(s) + 1 /\ t[Len(s) + 1] = x
              /\ \A i \in 1..Len(s) : t[i] = s[i]
          BY <3>1, <4>1, <4>2, AppendProperties, LenProperties
        <5>2. \A i \in 1..Len(t) : i = Len(s) + 1 \/ i \in 1..Len(s)
          BY <5>1
        <5> QED
          BY <5>1, <5>2
      <4>7. \A i \in 1..Len(t) : before <= t[i][1]
        BY <2>2, <4>3, <4>6
      <4> QED
        BY <4>4, <4>5, <4>7
    <3> QED
      BY <3>2, <3>3
  <2>5. Good(j)
    BY <2>4 DEF t
  <2> HIDE DEF Good
  <2> QED
    BY <2>1, <2>5
<1>4. 0..n \subseteq T
  <2> HIDE DEF T, n
  <2> QED
    BY <1>1, <1>2, <1>3, UpTo
<1>5. Good(k)
    BY <1>4
<1> QED
    BY <1>5

\* What was kept stays; over letters that are passed over nothing is added.
LEMMA KeptGrows ==
    ASSUME NEW text \in Seq(Symbols), NEW from \in Nat, NEW before \in Nat, NEW skip,
           NEW K, K = Kept(text, from, before, skip),
           NEW j \in 0..Len(text), NEW k \in 0..Len(text), j <= k
    PROVE  /\ Extends(K[j], K[k])
           /\ (\A i \in (j + 1)..k : PassedOver(text, from, skip, i)) => K[k] = K[j]
<1> DEFINE n == Len(text)
           Good(i) == /\ Extends(K[j], K[i])
                      /\ (\A h \in (j + 1)..i : PassedOver(text, from, skip, h)) => K[i] = K[j]
           T == {i \in 0..n : j <= i => Good(i)}
<1>1. /\ n \in Nat /\ K \in [0..n -> Seq(Placed)]
      /\ \A i \in 1..n : K[i] = IF PassedOver(text, from, skip, i) THEN K[i - 1]
                                ELSE Append(K[i - 1], <<before + i - 1, text[i]>>)
  <2>1. KeptBy(text, from, before, skip, K)
    BY KeptSteps
  <2> QED
    BY <2>1, LenProperties DEF KeptBy
<1>2. Good(j)
  <2>1. Len(K[j]) \in Nat
    BY <1>1, LenProperties
  <2> QED
    BY <2>1 DEF Extends
<1>3. 0 \in T
  <2>1. j <= 0 => j = 0
    OBVIOUS
  <2> HIDE DEF Good
  <2> QED
    BY <1>1, <1>2, <2>1
<1>4. ASSUME NEW i \in 1..n, i - 1 \in T PROVE i \in T
  <2>1. i \in 0..n /\ i - 1 \in 0..n /\ (j <= i => j = i \/ j <= i - 1)
    BY <1>1
  <2>2. ASSUME j <= i - 1 PROVE Good(i)
    <3>1. Good(i - 1)
      <4> HIDE DEF Good
      <4> QED
        BY <1>4, <2>2
    <3> DEFINE s == K[i - 1]
               t == K[i]
               x == <<before + i - 1, text[i]>>
    <3>2. s \in Seq(Placed) /\ K[j] \in Seq(Placed)
      BY <1>1, <2>1
    <3>3. t = IF PassedOver(text, from, skip, i) THEN s ELSE Append(s, x)
      BY <1>1
    <3>4. x \in Placed
      <4>1. text[i] \in Symbols /\ before + i - 1 \in Nat
        BY <1>4, ElementOfSeq
      <4> QED
        BY <4>1 DEF Placed
    <3>5. Extends(K[j], s) /\ ((\A h \in (j + 1)..(i - 1) : PassedOver(text, from, skip, h)) => s = K[j])
      BY <3>1
    <3> HIDE DEF s, t, x
    <3>6. Extends(K[j], t)
      <4>1. CASE PassedOver(text, from, skip, i)
        BY <3>3, <3>5, <4>1
      <4>2. CASE ~PassedOver(text, from, skip, i)
        <5>1. Len(s) \in Nat /\ Len(K[j]) \in Nat /\ Len(t) = Len(s) + 1
              /\ \A h \in 1..Len(s) : t[h] = s[h]
          BY <3>2, <3>3, <3>4, <4>2, AppendProperties, LenProperties
        <5> QED
          BY <3>5, <5>1 DEF Extends
      <4> QED
        BY <4>1, <4>2
    <3>7. ASSUME \A h \in (j + 1)..i : PassedOver(text, from, skip, h)
          PROVE  t = K[j]
      <4>1. i \in (j + 1)..i /\ \A h \in (j + 1)..(i - 1) : h \in (j + 1)..i
        BY <2>1, <2>2
      <4> QED
        BY <3>3, <3>5, <3>7, <4>1
    <3> QED
      BY <3>6, <3>7 DEF t
  <2> HIDE DEF Good
  <2> QED
    BY <1>2, <2>1, <2>2
<1>5. 0..n \subseteq T
  <2> HIDE DEF T, n
  <2> QED
    BY <1>1, <1>3, <1>4, UpTo
<1>6. Good(k)
  <2> HIDE DEF Good
  <2> QED
    BY <1>5
<1> QED
    BY <1>6

-----------------------------------------------------------------------------
(* Words that occur in the letters read. *)

\* The word w ends at the e-th letter of the text t.
Ends(t, e, w) == Len(w) <= e /\ Suffix(At(t, e), Len(w)) = w

\* That is the reference definition, which counts letters from 0.
LEMMA OccursEnds ==
    ASSUME NEW S, NEW t \in Seq(S), NEW e \in 1..Len(t), NEW w \in Seq(S)
    PROVE  Occurs(w, t, e - 1) <=> Ends(t, e, w)
<1> DEFINE u == At(t, e)
           k == Len(w)
<1>1. Len(t) \in Nat /\ k \in Nat /\ e \in 0..Len(t) /\ e \in Nat
    BY LenProperties
<1>2. u \in Seq(S) /\ Len(u) = e /\ \A j \in 1..e : u[j] = t[j]
    BY <1>1, AtType
<1>3. ASSUME k <= e PROVE SubSeq(t, e - 1 + 2 - k, e - 1 + 1) = Suffix(u, k)
  <2> DEFINE m == e + 1 - k
             s == SubSeq(t, m, e)
  <2>1. m \in Int /\ e \in Int /\ e - 1 + 2 - k = m /\ e - 1 + 1 = e /\ e - m + 1 = k
        /\ (m <= e \/ k = 0)
    BY <1>1
  <2>2. \A i \in m..e : t[i] \in S
    <3>1. \A i \in m..e : i \in 1..Len(t)
      BY <1>1, <1>3
    <3> QED
      BY <3>1, ElementOfSeq
  <2> HIDE DEF m
  <2>3. s \in Seq(S) /\ Len(s) = (IF m <= e THEN e - m + 1 ELSE 0)
        /\ \A i \in 1..(e - m + 1) : s[i] = t[m + i - 1]
    BY <2>1, <2>2, SubSeqProperties, SMTT(30)
  <2>4. s \in Seq(S) /\ Len(s) = k /\ \A i \in 1..k : s[i] = t[m + i - 1]
    BY <1>1, <2>1, <2>3
  <2>5. k \in 0..Len(u)
    BY <1>1, <1>2, <1>3
  <2>6. /\ Suffix(u, k) \in Seq(S) /\ Len(Suffix(u, k)) = k
        /\ \A i \in 1..k : Suffix(u, k)[i] = u[Len(u) - k + i]
    <3> HIDE DEF u, k
    <3> QED
      BY <1>2, <2>5, SuffixType
  <2>7. \A i \in 1..k : e - k + i \in 1..e /\ m + i - 1 = e - k + i
    BY <1>1, <1>3 DEF m
  <2> HIDE DEF u, k, s
  <2>8. \A i \in 1..k : s[i] = Suffix(u, k)[i]
    BY <1>2, <2>4, <2>6, <2>7
  <2>9. s = Suffix(u, k)
    BY <2>4, <2>6, <2>8, SeqEqual
  <2> QED
    BY <2>1, <2>9 DEF s
<1>4. k <= e - 1 + 1 <=> k <= e
    BY <1>1
<1> HIDE DEF u, k
<1>5. Occurs(w, t, e - 1) <=> k <= e - 1 + 1 /\ SubSeq(t, e - 1 + 2 - k, e - 1 + 1) = w
    BY DEF Occurs, k
<1>6. Ends(t, e, w) <=> k <= e /\ Suffix(u, k) = w
    BY DEF Ends, k, u
<1> QED
    BY <1>3, <1>4, <1>5, <1>6

\* The letters without their places.
LEMMA TextOfType ==
    ASSUME NEW r \in Seq(Placed)
    PROVE  /\ TextOf(r) \in Seq(Symbols) /\ Len(TextOf(r)) = Len(r) /\ Len(r) \in Nat
           /\ \A i \in 1..Len(r) : TextOf(r)[i] = r[i][2] /\ r[i][1] \in Nat
<1>1. Len(r) \in Nat /\ DOMAIN r = 1..Len(r)
    BY LenProperties
<1>2. \A i \in 1..Len(r) : r[i] \in Placed
    BY ElementOfSeq
<1>3. \A i \in 1..Len(r) : r[i][1] \in Nat /\ r[i][2] \in Symbols
    BY <1>2 DEF Placed
<1>4. TextOf(r) = [i \in 1..Len(r) |-> r[i][2]]
    BY <1>1 DEF TextOf
<1>5. TextOf(r) \in [1..Len(r) -> Symbols]
    BY <1>3, <1>4
<1>6. TextOf(r) \in Seq(Symbols) /\ Len(TextOf(r)) = Len(r)
    BY <1>1, <1>5
<1> QED
    BY <1>1, <1>3, <1>4, <1>6

\* The text that one more letter makes.
LEMMA TextOfAppend ==
    ASSUME NEW r \in Seq(Placed), NEW x \in Placed
    PROVE  TextOf(Append(r, x)) = Append(TextOf(r), x[2])
<1> DEFINE q == Append(r, x)
           t == TextOf(r)
           u == TextOf(q)
           v == Append(t, x[2])
<1>1. x[2] \in Symbols
    BY DEF Placed
<1>2. /\ q \in Seq(Placed) /\ Len(q) = Len(r) + 1 /\ q[Len(r) + 1] = x
      /\ \A i \in 1..Len(r) : q[i] = r[i]
    BY AppendProperties
<1>3. /\ t \in Seq(Symbols) /\ Len(t) = Len(r) /\ Len(r) \in Nat
      /\ \A i \in 1..Len(r) : t[i] = r[i][2]
    BY TextOfType
<1> HIDE DEF q, t
<1>4. u \in Seq(Symbols) /\ Len(u) = Len(q) /\ \A i \in 1..Len(q) : u[i] = q[i][2]
    BY <1>2, TextOfType
<1>5. /\ v \in Seq(Symbols) /\ Len(v) = Len(t) + 1 /\ v[Len(t) + 1] = x[2]
      /\ \A i \in 1..Len(t) : v[i] = t[i]
    BY <1>1, <1>3, AppendProperties
<1> HIDE DEF u, v
<1>6. ASSUME NEW i \in 1..Len(u) PROVE u[i] = v[i]
  <2>1. i = Len(r) + 1 \/ i \in 1..Len(r)
    BY <1>2, <1>3, <1>4
  <2>2. CASE i = Len(r) + 1
    BY <1>2, <1>3, <1>4, <1>5, <2>2
  <2>3. CASE i \in 1..Len(r)
    BY <1>2, <1>3, <1>4, <1>5, <2>3
  <2> QED
    BY <2>1, <2>2, <2>3
<1>7. Len(u) = Len(v)
    BY <1>2, <1>3, <1>4, <1>5
<1>8. u = v
    BY <1>4, <1>5, <1>6, <1>7, SeqEqual
<1> QED
    BY <1>8 DEF u, v, q, t

\* What more is read does not change what ended before.
LEMMA EndsBefore ==
    ASSUME NEW r \in Seq(Placed), NEW s \in Seq(Placed), Extends(r, s), NEW e \in 1..Len(r), NEW w
    PROVE  /\ e \in 1..Len(s) /\ s[e] = r[e]
           /\ Ends(TextOf(r), e, w) <=> Ends(TextOf(s), e, w)
<1> DEFINE t == TextOf(r)
           u == TextOf(s)
<1>1. /\ t \in Seq(Symbols) /\ Len(t) = Len(r) /\ Len(r) \in Nat
      /\ \A i \in 1..Len(r) : t[i] = r[i][2]
    BY TextOfType
<1>2. /\ u \in Seq(Symbols) /\ Len(u) = Len(s) /\ Len(s) \in Nat
      /\ \A i \in 1..Len(s) : u[i] = s[i][2]
    BY TextOfType
<1>3. Len(r) <= Len(s) /\ \A i \in 1..Len(r) : s[i] = r[i]
    BY DEF Extends
<1> HIDE DEF t, u
<1>4. /\ e \in 0..Len(t) /\ e \in 0..Len(u) /\ e \in 1..Len(s)
      /\ \A i \in 1..e : i \in 1..Len(r) /\ i \in 1..Len(s)
    BY <1>1, <1>2, <1>3
<1>5. At(t, e) \in Seq(Symbols) /\ Len(At(t, e)) = e /\ \A i \in 1..e : At(t, e)[i] = t[i]
    BY <1>1, <1>4, AtType
<1>6. At(u, e) \in Seq(Symbols) /\ Len(At(u, e)) = e /\ \A i \in 1..e : At(u, e)[i] = u[i]
    BY <1>2, <1>4, AtType
<1>7. \A i \in 1..e : At(t, e)[i] = At(u, e)[i]
    BY <1>1, <1>2, <1>3, <1>4, <1>5, <1>6
<1>8. At(t, e) = At(u, e)
    BY <1>5, <1>6, <1>7, SeqEqual
<1> QED
    BY <1>3, <1>4, <1>8 DEF Ends, t, u

\* The words that end at the last letter are the suffixes of the text.
LEMMA EndsLast ==
    ASSUME NEW S, NEW t \in Seq(S), NEW w
    PROVE  Ends(t, Len(t), w) <=> Len(w) <= Len(t) /\ Suffix(t, Len(w)) = w
<1>1. Len(t) \in 0..Len(t)
    BY LenProperties
<1>2. At(t, Len(t)) = t
    BY <1>1, AtAt
<1> QED
    BY <1>2 DEF Ends

(***************************************************************************)
(* What was reported once the letters r are read and the outputs from the  *)
(* node `out' on are still to come: the words D that end before the last   *)
(* letter, and of those that end there the ones longer than `out'.         *)
(***************************************************************************)
Reported(D, r, out, m) ==
    \E e \in 1..Len(r) :
        /\ m[1] = r[e][1] /\ m[2] \in D /\ Ends(TextOf(r), e, m[2])
        /\ out = NULL \/ e < Len(r) \/ Len(m[2]) > Len(out)

\* out is a node that the text read ends with.
IsOutput(h, t, out) == out \in DOMAIN h /\ Len(out) <= Len(t) /\ Suffix(t, Len(out)) = out

\* A node of an automaton is a word of letters.
LEMMA NodeType ==
    ASSUME NEW h, IsAutomaton(h), NEW p \in DOMAIN h
    PROVE  p \in Seq(Letters) /\ p \in Seq(Symbols) /\ Len(p) \in Nat /\ p # NULL
<1>1. p \in Seq(Letters)
    BY DEF IsAutomaton, Heap
<1>2. Letters \subseteq Symbols
    BY DEF Symbols
<1>3. p \in Seq(Symbols)
    BY <1>1, <1>2
<1>4. Len(p) \in Nat
    BY <1>1, LenProperties
<1> QED
    BY <1>1, <1>3, <1>4, PointerAssumption

\* The state is an output, and no longer node is.
LEMMA StateIsOutput ==
    ASSUME NEW h, IsAutomaton(h), NEW t \in Seq(Symbols), NEW p, IsState(h, t, p)
    PROVE  /\ IsOutput(h, t, p)
           /\ \A w : IsOutput(h, t, w) => Len(w) <= Len(p)
<1>1. PICK k \in 0..Len(t) :
        /\ p = Suffix(t, k) /\ p \in DOMAIN h
        /\ \A m \in (k + 1)..Len(t) : Suffix(t, m) \notin DOMAIN h
    BY DEF IsState
<1>2. Len(t) \in Nat /\ Len(p) = k
    BY <1>1, LenProperties, SuffixType
<1>3. IsOutput(h, t, p)
    BY <1>1, <1>2 DEF IsOutput
<1>4. ASSUME NEW w, IsOutput(h, t, w) PROVE Len(w) <= Len(p)
  <2>1. w \in DOMAIN h /\ Len(w) <= Len(t) /\ Suffix(t, Len(w)) = w
    BY <1>4 DEF IsOutput
  <2>2. Len(w) \in Nat
    BY <2>1, NodeType
  <2>3. ~(Len(w) \in (k + 1)..Len(t))
    BY <1>1, <2>1
  <2> QED
    BY <1>2, <2>1, <2>2, <2>3
<1> QED
    BY <1>3, <1>4

\* An output of the text is a suffix of any longer output of it.
LEMMA OutputOfOutput ==
    ASSUME NEW h, IsAutomaton(h), NEW t \in Seq(Symbols), NEW q, IsOutput(h, t, q),
           NEW k \in 0..Len(q)
    PROVE  Suffix(q, k) = Suffix(t, k)
<1>1. q \in Seq(Symbols) /\ Len(q) \in Nat /\ Len(t) \in Nat
    BY NodeType, LenProperties DEF IsOutput
<1>2. Len(q) \in 0..Len(t) /\ Suffix(t, Len(q)) = q
    BY <1>1 DEF IsOutput
<1>3. \A j \in 0..Len(q) : Suffix(Suffix(t, Len(q)), j) = Suffix(t, j)
    BY <1>2, SuffixSuffix
<1> QED
    BY <1>2, <1>3

\* Reading a letter: all that ended before it was reported, nothing that ends there was.
LEMMA ReportedAdvance ==
    ASSUME NEW h, IsAutomaton(h), NEW r \in Seq(Placed), NEW x \in Placed,
           NEW s, s = Append(r, x), NEW p, IsState(h, TextOf(s), p), NEW m
    PROVE  Reported(Keys(h), s, p, m) <=> Reported(Keys(h), r, NULL, m)
<1>1. s \in Seq(Placed) /\ Len(s) = Len(r) + 1 /\ Len(r) \in Nat /\ Extends(r, s)
  <2>1. /\ s \in Seq(Placed) /\ Len(s) = Len(r) + 1
        /\ \A i \in 1..Len(r) : s[i] = r[i]
    BY AppendProperties
  <2> QED
    BY <2>1, LenProperties DEF Extends
<1>2. TextOf(s) \in Seq(Symbols) /\ Len(TextOf(s)) = Len(s)
    BY <1>1, TextOfType
<1>3. IsOutput(h, TextOf(s), p) /\ \A w : IsOutput(h, TextOf(s), w) => Len(w) <= Len(p)
    BY <1>2, StateIsOutput
<1>4. p \in DOMAIN h /\ p # NULL /\ Len(p) \in Nat
    BY <1>3, NodeType DEF IsOutput
<1>5. ASSUME Reported(Keys(h), s, p, m) PROVE Reported(Keys(h), r, NULL, m)
  <2>1. PICK e \in 1..Len(s) :
            /\ m[1] = s[e][1] /\ m[2] \in Keys(h) /\ Ends(TextOf(s), e, m[2])
            /\ p = NULL \/ e < Len(s) \/ Len(m[2]) > Len(p)
    BY <1>5 DEF Reported
  <2>2. e # Len(s)
    <3> SUFFICES ASSUME e = Len(s) PROVE FALSE
      OBVIOUS
    <3>1. Len(m[2]) > Len(p)
      BY <1>1, <1>4, <2>1
    <3>2. Ends(TextOf(s), Len(TextOf(s)), m[2])
      BY <1>2, <2>1
    <3>3. m[2] \in DOMAIN h
      BY <2>1 DEF Keys
    <3>4. IsOutput(h, TextOf(s), m[2])
      BY <1>2, <3>2, <3>3, EndsLast DEF IsOutput
    <3>5. Len(m[2]) \in Nat
      BY <3>3, NodeType
    <3> QED
      BY <1>3, <1>4, <3>1, <3>4, <3>5
  <2>3. e \in 1..Len(r)
    BY <1>1, <2>2
  <2>4. s[e] = r[e] /\ \A w : Ends(TextOf(r), e, w) <=> Ends(TextOf(s), e, w)
    BY <1>1, <2>3, EndsBefore
  <2> QED
    BY <2>1, <2>3, <2>4 DEF Reported
<1>6. ASSUME Reported(Keys(h), r, NULL, m) PROVE Reported(Keys(h), s, p, m)
  <2>1. PICK e \in 1..Len(r) :
            m[1] = r[e][1] /\ m[2] \in Keys(h) /\ Ends(TextOf(r), e, m[2])
    BY <1>6 DEF Reported
  <2>2. /\ e \in 1..Len(s) /\ s[e] = r[e]
        /\ \A w : Ends(TextOf(r), e, w) <=> Ends(TextOf(s), e, w)
    BY <1>1, EndsBefore
  <2>3. e < Len(s)
    BY <1>1
  <2> QED
    BY <2>1, <2>2, <2>3 DEF Reported
<1> QED
    BY <1>5, <1>6

\* No output is left: all that ends in the letters read was reported.
LEMMA ReportedAll ==
    ASSUME NEW h, IsAutomaton(h), NEW r \in Seq(Placed), NEW q, IsOutput(h, TextOf(r), q),
           NextOutput(h, q) = NULL, NEW m
    PROVE  Reported(Keys(h), r, q, m) <=> Reported(Keys(h), r, NULL, m)
<1> DEFINE t == TextOf(r)
<1>1. t \in Seq(Symbols) /\ Len(t) = Len(r) /\ Len(r) \in Nat
    BY TextOfType
<1>2. q \in DOMAIN h /\ q # NULL /\ Len(q) \in Nat
    BY NodeType DEF IsOutput
<1>3. \A k \in 0..Len(q) : Suffix(q, k) \notin Keys(h)
  <2>1. LongestGood(q, Keys(h), NULL)
    BY <1>2, NextOutputCorrect
  <2>2. NULL \notin Keys(h)
    BY NodeType DEF Keys
  <2> QED
    BY <2>1, <2>2 DEF LongestGood
<1> HIDE DEF t
<1>4. ASSUME Reported(Keys(h), r, NULL, m) PROVE Reported(Keys(h), r, q, m)
  <2>1. PICK e \in 1..Len(r) : m[1] = r[e][1] /\ m[2] \in Keys(h) /\ Ends(t, e, m[2])
    BY <1>4 DEF Reported, t
  <2>2. Len(m[2]) \in Nat
    BY <2>1, NodeType DEF Keys
  <2>3. ASSUME e = Len(r) PROVE Len(m[2]) > Len(q)
    <3> SUFFICES ASSUME ~(Len(m[2]) > Len(q)) PROVE FALSE
      OBVIOUS
    <3>1. Len(m[2]) \in 0..Len(q)
      BY <1>2, <2>2
    <3>2. Suffix(t, Len(m[2])) = m[2]
      BY <1>1, <2>1, <2>3, EndsLast
    <3>3. Suffix(q, Len(m[2])) = Suffix(t, Len(m[2]))
      BY <1>1, <3>1, OutputOfOutput DEF t
    <3> QED
      BY <1>3, <2>1, <3>1, <3>2, <3>3
  <2>4. e < Len(r) \/ Len(m[2]) > Len(q)
    BY <1>1, <2>3
  <2> QED
    BY <2>1, <2>4 DEF Reported, t
<1>5. Reported(Keys(h), r, q, m) => Reported(Keys(h), r, NULL, m)
    BY DEF Reported
<1> QED
    BY <1>4, <1>5

\* An output is found: it is the longest one left, and its fail link leads to the others.
LEMMA ReportedOutput ==
    ASSUME NEW h, IsAutomaton(h), NEW r \in Seq(Placed), NEW q, IsOutput(h, TextOf(r), q),
           NEW p, p = NextOutput(h, q), p # NULL, <<>> \notin Keys(h),
           NEW f, f = h[p].fail
    PROVE  /\ p \in Keys(h) /\ Len(p) <= Len(q) /\ Len(p) \in 1..Len(r)
           /\ IsOutput(h, TextOf(r), p) /\ IsOutput(h, TextOf(r), f)
           /\ \A n, w :
                Reported(Keys(h), r, f, <<n, w>>) <=>
                    \/ Reported(Keys(h), r, q, <<n, w>>)
                    \/ n = r[Len(r)][1] /\ w = p
<1> DEFINE t == TextOf(r)
<1>1. t \in Seq(Symbols) /\ Len(t) = Len(r) /\ Len(r) \in Nat
    BY TextOfType
<1>2. /\ q \in DOMAIN h /\ q # NULL /\ Len(q) \in Nat /\ Len(q) <= Len(t) /\ q \in Seq(Symbols)
      /\ \A k \in 0..Len(q) : Suffix(q, k) = Suffix(t, k)
    BY <1>1, NodeType, OutputOfOutput DEF IsOutput
<1> HIDE DEF t
<1>3. PICK j \in 0..Len(q) :
        /\ p = Suffix(q, j) /\ p \in Keys(h)
        /\ \A k \in (j + 1)..Len(q) : Suffix(q, k) \notin Keys(h)
  <2>1. LongestGood(q, Keys(h), p)
    BY <1>2, NextOutputCorrect
  <2> QED
    BY <2>1 DEF LongestGood
<1>4. Len(p) = j /\ p \in DOMAIN h /\ p # Root
    BY <1>2, <1>3, SuffixType DEF Keys, Root
<1>5. p \in Seq(Letters) /\ j > 0
    BY <1>4, NodeType, EmptySeq DEF Root
<1>6. IsOutput(h, t, p)
    BY <1>1, <1>2, <1>3, <1>4 DEF IsOutput
<1>7. PICK i \in 0..(Len(p) - 1) :
        /\ f = Suffix(p, i) /\ f \in DOMAIN h
        /\ \A k \in (i + 1)..(Len(p) - 1) : Suffix(p, k) \notin DOMAIN h
    BY <1>4, LongestFailNode DEF FailNode
<1>8. \A k \in 0..Len(p) : Suffix(p, k) = Suffix(t, k)
    BY <1>1, <1>6, OutputOfOutput
<1>9. i \in 0..Len(p) /\ Len(f) = i
    BY <1>4, <1>5, <1>7, SuffixType
<1>10. IsOutput(h, t, f) /\ f # NULL
  <2>1. Suffix(t, i) = f /\ i <= Len(t)
    BY <1>1, <1>2, <1>4, <1>7, <1>8, <1>9
  <2> QED
    BY <1>7, <1>9, <2>1, NodeType DEF IsOutput
<1>11. ASSUME NEW n, NEW w, Reported(Keys(h), r, f, <<n, w>>)
       PROVE  Reported(Keys(h), r, q, <<n, w>>) \/ (n = r[Len(r)][1] /\ w = p)
  <2>1. PICK e \in 1..Len(r) :
            /\ n = r[e][1] /\ w \in Keys(h) /\ Ends(t, e, w)
            /\ f = NULL \/ e < Len(r) \/ Len(w) > Len(f)
    BY <1>11 DEF Reported, t
  <2>2. Len(w) \in Nat /\ w \in DOMAIN h
    BY <2>1, NodeType DEF Keys
  <2>3. ASSUME e = Len(r), ~(Len(w) > Len(q)) PROVE w = p
    <3>1. Suffix(t, Len(w)) = w
      BY <1>1, <2>1, <2>3, EndsLast
    <3>2. Len(w) > i
      BY <1>1, <1>9, <1>10, <2>1, <2>3
    <3>3. Len(w) \in 0..Len(q) /\ Suffix(q, Len(w)) = w
      BY <1>2, <2>2, <2>3, <3>1
    <3>4. ~(Len(w) \in (j + 1)..Len(q))
      BY <1>3, <2>1, <3>3
    <3>5. Len(w) \in 0..Len(p) /\ Suffix(p, Len(w)) = w
      BY <1>4, <1>8, <2>2, <3>1, <3>3, <3>4
    <3>6. ~(Len(w) \in (i + 1)..(Len(p) - 1))
      BY <1>7, <2>2, <3>5
    <3>7. Len(w) = j
      BY <1>4, <2>2, <3>2, <3>5, <3>6
    <3> QED
      BY <1>3, <3>3, <3>7
  <2>4. CASE e = Len(r) /\ ~(Len(w) > Len(q))
    BY <2>1, <2>3, <2>4
  <2>5. CASE ~(e = Len(r) /\ ~(Len(w) > Len(q)))
    <3>1. e < Len(r) \/ Len(w) > Len(q)
      BY <1>1, <2>5
    <3> QED
      BY <2>1, <3>1 DEF Reported, t
  <2> QED
    BY <2>4, <2>5
<1>12. ASSUME NEW n, NEW w, Reported(Keys(h), r, q, <<n, w>>)
       PROVE  Reported(Keys(h), r, f, <<n, w>>)
  <2>1. PICK e \in 1..Len(r) :
            /\ n = r[e][1] /\ w \in Keys(h) /\ Ends(t, e, w)
            /\ e < Len(r) \/ Len(w) > Len(q)
    BY <1>2, <1>12 DEF Reported, t
  <2>2. Len(w) \in Nat
    BY <2>1, NodeType DEF Keys
  <2>3. e < Len(r) \/ Len(w) > Len(f)
    BY <1>2, <1>3, <1>4, <1>9, <2>1, <2>2
  <2> QED
    BY <2>1, <2>3 DEF Reported, t
<1>13. Len(r) \in 1..Len(r) /\ Len(p) \in 1..Len(r)
    BY <1>1, <1>2, <1>4, <1>5
<1>14. Reported(Keys(h), r, f, <<r[Len(r)][1], p>>)
  <2>1. Ends(t, Len(r), p)
    BY <1>1, <1>6, EndsLast DEF IsOutput
  <2>2. Len(p) > Len(f)
    BY <1>4, <1>9, <1>7
  <2> QED
    BY <1>3, <1>13, <2>1, <2>2 DEF Reported, t
<1>15. Len(p) <= Len(q)
    BY <1>4
<1> QED
    BY <1>3, <1>6, <1>10, <1>11, <1>12, <1>13, <1>14, <1>15 DEF t

\* The outputs already reported come before it.
LEMMA ReportedBefore ==
    ASSUME NEW D, NEW k, NEW r, Rising(r, k), NEW q, q # NULL, NEW p, Len(p) \in Nat,
           Len(p) <= Len(q), Len(q) \in Nat,
           NEW n, NEW w, Len(w) \in Nat, Reported(D, r, q, <<n, w>>)
    PROVE  Earlier(<<n, w>>, <<r[Len(r)][1], p>>)
<1>1. PICK e \in 1..Len(r) : n = r[e][1] /\ (e < Len(r) \/ Len(w) > Len(q))
    BY DEF Reported
<1>2. r \in Seq(Placed) /\ Len(r) \in Nat
    BY LenProperties DEF Rising
<1>3. CASE e < Len(r)
  <2>1. Len(r) \in 1..Len(r)
    BY <1>1, <1>2
  <2>2. n < r[Len(r)][1]
    BY <1>1, <1>3, <2>1 DEF Rising
  <2> QED
    BY <2>2 DEF Earlier
<1>4. CASE ~(e < Len(r))
  <2>1. e = Len(r) /\ Len(w) > Len(q)
    BY <1>1, <1>2, <1>4
  <2>2. n = r[Len(r)][1] /\ Len(w) > Len(p)
    BY <1>1, <2>1
  <2> QED
    BY <2>2 DEF Earlier
<1> QED
    BY <1>3, <1>4

-----------------------------------------------------------------------------
(* The search reports what it should. *)

DictOK == words \in Dictionaries /\ nodes = Built(words)

PlaceOK ==
    /\ input \in Seq(Symbols) /\ end \in 0..Len(input) /\ start \in 0..end
    /\ index \in (start - 1)..(end + 1)
    /\ base \in Nat /\ Rising(prior, base)
    /\ pc \in {"idle", "next", "deleted"} /\ (pc = "next" => index <= end)

\* The output to go on from is one of the letters read, the last of which is input[index + 1].
OutputOK ==
    /\ index >= end => output = NULL
    /\ output # NULL =>
        /\ IsOutput(nodes, TextOf(Read), output)
        /\ start <= index /\ Len(Read) > 0 /\ Read[Len(Read)][1] = base + index

FoundIs ==
    /\ found \in Seq(Nat \X words)
    /\ \A n, w : <<n, w>> \in ToSet(found) <=> Reported(words, Read, output, <<n, w>>)

FoundSorted == \A j, k \in 1..Len(found) : j < k => Earlier(found[j], found[k])

RegularOK ==
    /\ shift = base /\ IsState(nodes, TextOf(Read), state)
    /\ OutputOK /\ FoundIs /\ FoundSorted

SearchInv == DictOK /\ PlaceOK /\ (regular => RegularOK)

\* The automaton of the words.
LEMMA DictAutomaton ==
    ASSUME DictOK
    PROVE  /\ IsAutomaton(nodes) /\ Keys(nodes) = words /\ <<>> \notin words
           /\ words \subseteq Seq(Letters) /\ words \subseteq Seq(Symbols)
<1>1. IsFiniteSet(words) /\ words \subseteq Seq(Letters) \ {<<>>}
    BY DictionaryAssumption DEF DictOK
<1>2. IsAutomaton(nodes) /\ Keys(nodes) = words
    BY <1>1, BuiltAutomaton DEF DictOK
<1>3. words \subseteq Seq(Symbols)
  <2>1. \A w \in words : w \in DOMAIN nodes
    BY <1>2 DEF Keys
  <2> QED
    BY <1>2, <2>1, NodeType
<1> QED
    BY <1>1, <1>2, <1>3

\* Sequences that extend the same one after the same start.
LEMMA ExtendsConcat ==
    ASSUME NEW S, NEW r \in Seq(S), NEW s \in Seq(S), NEW t \in Seq(S), Extends(s, t)
    PROVE  Extends(r \o s, r \o t)
<1>1. /\ Len(r) \in Nat /\ Len(s) \in Nat /\ Len(t) \in Nat
      /\ Len(r \o s) = Len(r) + Len(s) /\ Len(r \o t) = Len(r) + Len(t)
      /\ \A i \in 1..(Len(r) + Len(s)) :
            (r \o s)[i] = IF i <= Len(r) THEN r[i] ELSE s[i - Len(r)]
      /\ \A i \in 1..(Len(r) + Len(t)) :
            (r \o t)[i] = IF i <= Len(r) THEN r[i] ELSE t[i - Len(r)]
    BY LenProperties, ConcatProperties
<1>2. Len(s) <= Len(t) /\ \A i \in 1..Len(s) : t[i] = s[i]
    BY DEF Extends
<1>3. ASSUME NEW i \in 1..(Len(r) + Len(s)) PROVE (r \o t)[i] = (r \o s)[i]
  <2>1. i \in 1..(Len(r) + Len(t)) /\ (i <= Len(r) \/ i - Len(r) \in 1..Len(s))
    BY <1>1, <1>2
  <2> QED
    BY <1>1, <1>2, <2>1
<1> QED
    BY <1>1, <1>2, <1>3 DEF Extends

\* The letters up to position k of a string, after those of earlier chunks.
LEMMA ReadUpTo ==
    ASSUME NEW r, NEW before \in Nat, Rising(r, before),
           NEW text \in Seq(Symbols), NEW from \in Nat, NEW skip,
           NEW K, K = Kept(text, from, before, skip), NEW k \in 0..Len(text)
    PROVE  /\ Rising(r \o K[k], before + k) /\ r \o K[k] \in Seq(Placed)
           /\ k <= from => r \o K[k] = r
<1>1. /\ Rising(K[k], before + k) /\ \A i \in 1..Len(K[k]) : before <= K[k][i][1]
      /\ k <= from => K[k] = <<>>
    BY KeptRising
<1>2. r \in Seq(Placed)
    BY DEF Rising
<1>3. before + k \in Nat /\ before <= before + k
    OBVIOUS
<1>4. Rising(r \o K[k], before + k)
    BY <1>1, <1>3, RisingConcat
<1>5. k <= from => r \o K[k] = r
    BY <1>1, <1>2, ConcatEmptySeq
<1> QED
    BY <1>4, <1>5 DEF Rising

\* Up to a later position it is the same and more.
LEMMA ReadGrows ==
    ASSUME NEW r \in Seq(Placed), NEW before \in Nat,
           NEW text \in Seq(Symbols), NEW from \in Nat, NEW skip,
           NEW K, K = Kept(text, from, before, skip),
           NEW j \in 0..Len(text), NEW k \in 0..Len(text), j <= k
    PROVE  Extends(r \o K[j], r \o K[k])
<1>1. Rising(K[k], before + k)
    BY KeptRising
<1>2. Rising(K[j], before + j)
    BY KeptRising
<1>3. K[k] \in Seq(Placed) /\ K[j] \in Seq(Placed)
    BY <1>1, <1>2 DEF Rising
<1>4. Extends(K[j], K[k])
    BY KeptGrows
<1> QED
    BY <1>3, <1>4, ExtendsConcat

\* What was read, and what will be.
LEMMA ReadFacts ==
    ASSUME PlaceOK
    PROVE  /\ Passed \in 0..end /\ end \in Nat /\ start \in Nat /\ index \in Int
           /\ Read \in Seq(Placed) /\ Whole \in Seq(Placed) /\ Extends(Read, Whole)
           /\ Rising(Read, base + Passed) /\ Rising(Whole, base + end)
           /\ index < start => Read = prior
           /\ index >= end => Read = Whole
<1>1. /\ end \in Nat /\ start \in Nat /\ index \in Int /\ start <= end /\ Len(input) \in Nat
      /\ end \in 0..Len(input) /\ end <= Len(input) /\ index + 1 >= start /\ index <= end + 1
    BY LenProperties DEF PlaceOK
<1>2. /\ Passed \in 0..end /\ Passed \in 0..Len(input) /\ Passed <= end
      /\ index < start => Passed <= start
      /\ index >= end => Passed = end
    BY <1>1 DEF Passed
<1> DEFINE K == Kept(input, start, base, ignore_white_space)
<1>3. Read = prior \o K[Passed] /\ Whole = prior \o K[end]
    BY DEF Read, Whole, Current, CurrentRead
<1>4. K = Kept(input, start, base, ignore_white_space)
    OBVIOUS
<1> HIDE DEF K
<1>5. input \in Seq(Symbols) /\ base \in Nat /\ Rising(prior, base)
    BY DEF PlaceOK
<1>6. Rising(prior \o K[end], base + end) /\ prior \o K[end] \in Seq(Placed)
    BY <1>1, <1>4, <1>5, ReadUpTo
<1>7. /\ Rising(prior \o K[Passed], base + Passed) /\ prior \o K[Passed] \in Seq(Placed)
      /\ Passed <= start => prior \o K[Passed] = prior
  <2>1. base \in Nat /\ start \in Nat /\ Passed \in 0..Len(input)
    BY <1>1, <1>2, <1>5
  <2> HIDE DEF Passed
  <2>2. /\ Rising(prior \o K[Passed], base + Passed) /\ prior \o K[Passed] \in Seq(Placed)
        /\ Passed <= start => prior \o K[Passed] = prior
    BY <1>4, <1>5, <2>1, ReadUpTo
  <2> QED
    BY <2>2
<1>8. Extends(prior \o K[Passed], prior \o K[end])
  <2>1. prior \in Seq(Placed)
    BY <1>5 DEF Rising
  <2> QED
    BY <1>1, <1>2, <1>4, <1>5, <2>1, ReadGrows
<1> QED
    BY <1>1, <1>2, <1>3, <1>6, <1>7, <1>8

\* next() reads the next letter that is not to be passed over.
LEMMA NextIndexFacts ==
    ASSUME PlaceOK, index <= end
    PROVE  /\ NextIndex \in Nat /\ index + 1 <= NextIndex /\ NextIndex <= end + 1
           /\ NextIndex < end => ~(ignore_white_space /\ input[NextIndex + 1] = White)
           /\ \A i \in (index + 2)..Len(input) :
                i <= NextIndex /\ i <= end => ignore_white_space /\ input[i] = White
<1>1. /\ end \in Nat /\ start \in Nat /\ index \in Int /\ index + 1 \in Nat /\ Len(input) \in Nat
      /\ end <= Len(input)
    BY LenProperties DEF PlaceOK
<1>2. CASE ignore_white_space /\ index + 1 < end
  <2> DEFINE T == {end} \cup {j \in (index + 1)..(end - 1) : input[j + 1] # White}
             m == Min(T)
  <2>1. m \in T /\ \A y \in T : m <= y
    <3>1. T \subseteq Nat /\ T # {}
      BY <1>1
    <3> HIDE DEF T
    <3> QED
      BY <3>1, MinExists
  <2>2. NextIndex = m
    BY <1>2 DEF NextIndex
  <2> HIDE DEF m
  <2>3. /\ m \in Nat /\ index + 1 <= m /\ m <= end
        /\ m < end => input[m + 1] # White
    BY <1>1, <1>2, <2>1
  <2>4. ASSUME NEW i \in (index + 2)..Len(input), i <= m, i <= end
        PROVE  input[i] = White
    <3>1. i \in Int /\ i - 1 \in (index + 1)..(end - 1) /\ i - 1 + 1 = i /\ ~(m <= i - 1)
      BY <1>1, <2>3, <2>4
    <3>2. i - 1 \notin T
      BY <2>1, <3>1
    <3> QED
      BY <3>1, <3>2
  <2> QED
    BY <1>1, <1>2, <2>2, <2>3, <2>4
<1>3. CASE ~(ignore_white_space /\ index + 1 < end)
  <2>1. NextIndex = index + 1
    BY <1>3 DEF NextIndex
  <2>2. NextIndex < end => ~ignore_white_space
    BY <1>3, <2>1
  <2>3. \A i \in (index + 2)..Len(input) : ~(i <= NextIndex)
    BY <1>1, <2>1
  <2> QED
    BY <1>1, <2>1, <2>2, <2>3
<1> QED
    BY <1>2, <1>3

\* The letter that next() reads is added to what was read.
LEMMA ReadAdvance ==
    ASSUME PlaceOK, index <= end, NextIndex < end, index' = NextIndex,
           UNCHANGED <<input, start, end, base, prior, ignore_white_space>>
    PROVE  /\ start <= NextIndex
           /\ <<base + NextIndex, input[NextIndex + 1]>> \in Placed
           /\ Read' = Append(Read, <<base + NextIndex, input[NextIndex + 1]>>)
<1> DEFINE K == Kept(input, start, base, ignore_white_space)
           n == NextIndex
           x == <<base + n, input[n + 1]>>
<1>1. /\ n \in Nat /\ index + 1 <= n
      /\ ~(ignore_white_space /\ input[n + 1] = White)
      /\ \A i \in (index + 2)..Len(input) :
            i <= n /\ i <= end => ignore_white_space /\ input[i] = White
    BY NextIndexFacts
<1> HIDE DEF n
<1>2. n < end /\ index' = n
    BY DEF n
<1>3. /\ end \in Nat /\ start \in Nat /\ index \in Int /\ index + 1 \in Nat /\ Len(input) \in Nat
      /\ end <= Len(input) /\ start <= index + 1 /\ base \in Nat /\ input \in Seq(Symbols)
    BY LenProperties DEF PlaceOK
<1>4. Passed = index + 1 /\ Passed' = n + 1
    BY <1>1, <1>2, <1>3 DEF Passed
<1>5. Read = prior \o K[index + 1] /\ Read' = prior \o K[n + 1]
    BY <1>4 DEF Read, CurrentRead
<1>6. K = Kept(input, start, base, ignore_white_space)
    OBVIOUS
<1> HIDE DEF K
<1>7. KeptBy(input, start, base, ignore_white_space, K)
    BY <1>3, <1>6, KeptSteps
<1>8. n + 1 \in 1..Len(input) /\ n + 1 - 1 = n /\ base + (n + 1) - 1 = base + n
    BY <1>1, <1>2, <1>3
<1>9. K[n + 1] = Append(K[n], x)
  <2>1. ~PassedOver(input, start, ignore_white_space, n + 1)
    BY <1>1, <1>3 DEF PassedOver
  <2>2. \A k \in 1..Len(input) :
            K[k] = IF PassedOver(input, start, ignore_white_space, k) THEN K[k - 1]
                   ELSE Append(K[k - 1], <<base + k - 1, input[k]>>)
    BY <1>7 DEF KeptBy
  <2> DEFINE m == n + 1
  <2>3. /\ m \in 1..Len(input) /\ m - 1 = n /\ base + m - 1 = base + n
        /\ ~PassedOver(input, start, ignore_white_space, m)
    BY <1>1, <1>3, <1>8, <2>1
  <2>4. x = <<base + n, input[m]>>
    OBVIOUS
  <2> HIDE DEF m, x
  <2>5. K[m] = Append(K[n], x)
    BY <2>2, <2>3, <2>4
  <2> QED
    BY <2>5 DEF m
<1>10. K[n] = K[index + 1]
  <2>1. index + 1 \in 0..Len(input) /\ n \in 0..Len(input) /\ index + 1 + 1 = index + 2
    BY <1>1, <1>2, <1>3
  <2>2. \A i \in (index + 1 + 1)..n : PassedOver(input, start, ignore_white_space, i)
    <3> TAKE i \in (index + 1 + 1)..n
    <3>1. i \in (index + 2)..Len(input) /\ i <= n /\ i <= end
      BY <1>1, <1>2, <1>3
    <3> QED
      BY <1>1, <3>1 DEF PassedOver
  <2> QED
    BY <1>1, <1>3, <1>6, <2>1, <2>2, KeptGrows
<1>11. x \in Placed
  <2>1. input[n + 1] \in Symbols /\ base + n \in Nat
    BY <1>1, <1>3, <1>8, ElementOfSeq
  <2> QED
    BY <2>1 DEF Placed
<1>12. prior \in Seq(Placed) /\ K[index + 1] \in Seq(Placed)
  <2>1. index + 1 \in 0..Len(input)
    BY <1>1, <1>2, <1>3
  <2> QED
    BY <1>7, <2>1 DEF KeptBy, PlaceOK, Rising
<1> HIDE DEF x
<1>13. prior \o Append(K[index + 1], x) = Append(prior \o K[index + 1], x)
  <2> DEFINE s == K[index + 1]
  <2>1. s \in Seq(Placed)
    BY <1>12
  <2> HIDE DEF s
  <2>2. Append(s, x) = s \o <<x>> /\ prior \o s \in Seq(Placed) /\ <<x>> \in Seq(Placed)
    BY <1>11, <1>12, <2>1, AppendIsConcat, ConcatProperties
  <2>3. Append(prior \o s, x) = (prior \o s) \o <<x>>
    BY <1>11, <2>2, AppendIsConcat
  <2>4. (prior \o s) \o <<x>> = prior \o (s \o <<x>>)
    BY <1>12, <2>1, <2>2, ConcatAssociative
  <2> QED
    BY <2>2, <2>3, <2>4 DEF s
<1>14. Read' = Append(Read, x)
    BY <1>5, <1>9, <1>10, <1>13
<1>15. start <= n
    BY <1>1, <1>3
<1> QED
    BY <1>11, <1>14, <1>15 DEF x, n

\* Past the last of them nothing is added.
LEMMA ReadStop ==
    ASSUME PlaceOK, index <= end, NextIndex >= end, index' = NextIndex,
           UNCHANGED <<input, start, end, base, prior, ignore_white_space>>
    PROVE  Read' = Read
<1> DEFINE K == Kept(input, start, base, ignore_white_space)
<1>1. /\ NextIndex \in Nat /\ index + 1 <= NextIndex /\ NextIndex <= end + 1
      /\ \A i \in (index + 2)..Len(input) :
            i <= NextIndex /\ i <= end => ignore_white_space /\ input[i] = White
    BY NextIndexFacts
<1>2. /\ end \in Nat /\ start \in Nat /\ index \in Int /\ index + 1 \in Nat /\ Len(input) \in Nat
      /\ end <= Len(input) /\ base \in Nat /\ input \in Seq(Symbols)
    BY LenProperties DEF PlaceOK
<1>3. Passed' = end
    BY <1>1, <1>2 DEF Passed
<1>4. Read = prior \o K[Passed] /\ Read' = prior \o K[end]
    BY <1>3 DEF Read, CurrentRead
<1>5. K = Kept(input, start, base, ignore_white_space)
    OBVIOUS
<1> HIDE DEF K
<1>6. CASE index >= end
    BY <1>4, <1>6 DEF Passed
<1>7. CASE ~(index >= end)
  <2>1. Passed = index + 1 /\ index + 1 \in 0..Len(input) /\ end \in 0..Len(input)
        /\ index + 1 <= end
    BY <1>2, <1>7 DEF Passed
  <2>2. \A i \in (index + 1 + 1)..end : PassedOver(input, start, ignore_white_space, i)
    <3> TAKE i \in (index + 1 + 1)..end
    <3>1. i \in (index + 2)..Len(input) /\ i <= NextIndex /\ i <= end
      BY <1>1, <1>2
    <3> QED
      BY <1>1, <3>1 DEF PassedOver
  <2>3. K[end] = K[index + 1]
    BY <1>2, <1>5, <2>1, <2>2, KeptGrows
  <2> QED
    BY <1>4, <2>1, <2>3
<1> QED
    BY <1>6, <1>7

\* Nothing read.
LEMMA EmptyRead ==
    ASSUME NEW h, IsAutomaton(h)
    PROVE  /\ <<>> \in Seq(Placed) /\ \A m : Rising(<<>>, m)
           /\ IsState(h, TextOf(<<>>), Root)
           /\ \A D, q, m : ~Reported(D, <<>>, q, m)
<1>1. <<>> \in Seq(Placed) /\ Len(<<>>) = 0 /\ 1..0 = {}
    BY EmptySeq
<1>2. \A m : Rising(<<>>, m)
    BY <1>1 DEF Rising
<1>3. TextOf(<<>>) \in Seq(Symbols) /\ Len(TextOf(<<>>)) = 0
    BY <1>1, TextOfType
<1>4. Suffix(TextOf(<<>>), 0) = <<>>
  <2>1. 0 \in 0..Len(TextOf(<<>>))
    BY <1>3
  <2> QED
    BY <1>3, <2>1, SuffixSuffix
<1>5. IsState(h, TextOf(<<>>), Root)
  <2>1. Root \in DOMAIN h /\ 0 \in 0..0 /\ (0 + 1)..0 = {}
    BY DEF IsAutomaton
  <2> QED
    BY <1>3, <1>4, <2>1 DEF IsState, Root
<1>6. \A D, q, m : ~Reported(D, <<>>, q, m)
    BY <1>1 DEF Reported
<1> QED
    BY <1>1, <1>2, <1>5, <1>6

\* A search that starts over: nothing read, nothing found.
LEMMA StartsOver ==
    ASSUME NEW h, IsAutomaton(h), NEW D, NEW r, r = <<>>, NEW f, f = <<>>
    PROVE  /\ IsState(h, TextOf(r), Root) /\ f \in Seq(Nat \X D)
           /\ \A n, w : <<n, w>> \in ToSet(f) <=> Reported(D, r, NULL, <<n, w>>)
           /\ \A j, k \in 1..Len(f) : j < k => Earlier(f[j], f[k])
<1>1. f \in Seq(Nat \X D) /\ Len(f) = 0 /\ 1..0 = {} /\ DOMAIN f = 1..Len(f)
    BY EmptySeq
<1>2. ToSet(f) = {}
    BY <1>1 DEF ToSet
<1> QED
    BY <1>1, <1>2, EmptyRead

\* The search starts out right.
LEMMA SearchInit == Init => SearchInv
<1> SUFFICES ASSUME Init PROVE SearchInv
    OBVIOUS
<1>1. DictOK
    BY DEF Init, DictOK
<1>2. IsAutomaton(nodes)
    BY <1>1, DictAutomaton
<1>3. PlaceOK
  <2>1. input \in Seq(Symbols)
    BY TextsAssumption DEF Init, Symbols
  <2>2. Len(input) \in Nat /\ end \in 0..Len(input) /\ start \in 0..end /\ index = start - 1
    BY <2>1, LenProperties DEF Init
  <2>3. index \in (start - 1)..(end + 1)
    BY <2>2
  <2>4. base = 0 /\ Rising(prior, base) /\ pc = "idle"
    BY <1>2, EmptyRead DEF Init
  <2> QED
    BY <2>1, <2>2, <2>3, <2>4 DEF PlaceOK
<1>4. Read = <<>>
  <2>1. start \in Int /\ index = start - 1 /\ prior = <<>>
    BY <1>3, ReadFacts DEF Init
  <2>2. index < start
    BY <2>1
  <2> QED
    BY <1>3, <2>1, <2>2, ReadFacts
<1>5. shift = base /\ state = Root /\ output = NULL /\ found = <<>>
    BY DEF Init
<1>6. IsState(nodes, TextOf(Read), state) /\ FoundIs /\ FoundSorted
    BY <1>2, <1>4, <1>5, StartsOver DEF FoundIs, FoundSorted
<1>7. OutputOK
    BY <1>5 DEF OutputOK
<1> QED
    BY <1>1, <1>3, <1>5, <1>6, <1>7 DEF SearchInv, RegularOK

\* A step that leaves the search alone.
LEMMA SearchStable ==
    ASSUME SearchInv, UNCHANGED <<words, nodes, ignore_white_space, iter, history>>
                      \/ UNCHANGED <<words, nodes, ignore_white_space, iter, start, prior, base,
                                     found, regular>>,
           pc' = pc \/ (pc' = "next" /\ index <= end)
    PROVE  SearchInv'
<1>1. UNCHANGED <<words, nodes, ignore_white_space, input, index, end, shift, state, output,
                  start, prior, base, found, regular>>
    BY DEF iter, history
<1>2. DictOK' /\ PlaceOK'
    BY <1>1 DEF SearchInv, DictOK, PlaceOK
<1>3. Read' = Read
    BY <1>1 DEF Read, CurrentRead, Passed
<1>4. regular => RegularOK'
    BY <1>1, <1>3 DEF SearchInv, RegularOK, OutputOK, FoundIs, FoundSorted
<1> QED
    BY <1>1, <1>2, <1>4 DEF SearchInv

\* Past the end of the chain no output is found.
LEMMA NoOutputFromNull ==
    ASSUME NEW h, IsAutomaton(h)
    PROVE  NextOutput(h, NULL) = NULL
<1>1. NULL \notin DOMAIN h
    BY NodeType
<1> QED
    BY <1>1 DEF NextOutput, FirstBack

\* g is f and one more occurrence x.
FoundMore(D, f, x, g) ==
    /\ g \in Seq(Nat \X D) /\ ToSet(g) = ToSet(f) \cup {x}
    /\ Len(f) \in Nat /\ Len(g) = Len(f) + 1 /\ g[Len(f) + 1] = x
    /\ \A j \in 1..Len(f) : g[j] = f[j] /\ f[j] \in ToSet(f) /\ f[j] \in Nat \X D

\* That is what Append makes of them.
LEMMA FoundAppend ==
    ASSUME NEW D, NEW f \in Seq(Nat \X D), NEW x \in Nat \X D
    PROVE  FoundMore(D, f, x, Append(f, x))
<1>1. Len(f) \in Nat /\ DOMAIN f = 1..Len(f)
    BY LenProperties
<1>2. \A j \in 1..Len(f) : f[j] \in Nat \X D
    BY ElementOfSeq
<1>3. \A j \in 1..Len(f) : f[j] \in ToSet(f)
    BY <1>1 DEF ToSet
<1> QED
    BY <1>1, <1>2, <1>3, AppendNext, AppendProperties DEF FoundMore

\* next() returns an output.
LEMMA ReportKeeps == SearchInv /\ Report => SearchInv'
<1> SUFFICES ASSUME SearchInv, Report PROVE SearchInv'
    OBVIOUS
<1> DEFINE p == NextOutput(nodes, output)
           f == nodes[p].fail
           x == <<index + shift, p>>
<1>1. /\ p # NULL /\ found' = (IF regular THEN Append(found, x) ELSE found)
      /\ output' = f /\ pc' = "idle"
      /\ UNCHANGED <<words, nodes, ignore_white_space, input, index, end, shift, state,
                     start, prior, base, regular>>
    BY DEF Report, ReportIndex, AfterOutput
<1> HIDE DEF p, x, f
<1>2. DictOK' /\ PlaceOK' /\ Read' = Read
    BY <1>1 DEF SearchInv, DictOK, PlaceOK, Read, CurrentRead, Passed
<1>3. ASSUME regular PROVE RegularOK'
  <2>1. /\ RegularOK /\ PlaceOK /\ IsAutomaton(nodes) /\ Keys(nodes) = words /\ <<>> \notin words
        /\ words \subseteq Seq(Symbols)
    BY <1>3, DictAutomaton DEF SearchInv
  <2>2. output # NULL
    BY <1>1, <2>1, NoOutputFromNull DEF p
  <2>3. /\ Read \in Seq(Placed) /\ Rising(Read, base + Passed) /\ index \in Int /\ start \in Nat
    BY <2>1, ReadFacts
  <2>4. /\ IsOutput(nodes, TextOf(Read), output) /\ start <= index /\ Len(Read) > 0
        /\ Read[Len(Read)][1] = base + index /\ ~(index >= end)
    BY <2>1, <2>2 DEF RegularOK, OutputOK
  <2>5. /\ p \in words /\ Len(p) <= Len(output)
        /\ IsOutput(nodes, TextOf(Read), f)
        /\ \A n, w :
            Reported(words, Read, f, <<n, w>>) <=>
                Reported(words, Read, output, <<n, w>>) \/ (n = Read[Len(Read)][1] /\ w = p)
    <3>1. p = NextOutput(nodes, output) /\ f = nodes[p].fail
      BY DEF p, f
    <3>2. <<>> \notin Keys(nodes)
      BY <2>1
    <3>3. /\ p \in Keys(nodes) /\ Len(p) <= Len(output)
          /\ IsOutput(nodes, TextOf(Read), f)
          /\ \A n, w :
                Reported(Keys(nodes), Read, f, <<n, w>>) <=>
                    \/ Reported(Keys(nodes), Read, output, <<n, w>>)
                    \/ n = Read[Len(Read)][1] /\ w = p
      BY <1>1, <2>1, <2>3, <2>4, <3>1, <3>2, ReportedOutput
    <3> QED
      BY <2>1, <3>3
  <2>6. /\ base \in Nat /\ shift = base /\ index + shift \in Nat
        /\ Read[Len(Read)][1] = index + shift
    BY <2>1, <2>3, <2>4 DEF RegularOK, PlaceOK
  <2>7. x \in Nat \X words /\ x = <<Read[Len(Read)][1], p>>
    BY <2>5, <2>6 DEF x
  <2>8. found \in Seq(Nat \X words) /\ found' = Append(found, x)
    BY <1>1, <1>3, <2>1 DEF RegularOK, FoundIs
  <2>9. /\ found' \in Seq(Nat \X words) /\ ToSet(found') = ToSet(found) \cup {x}
        /\ Len(found) \in Nat /\ Len(found') = Len(found) + 1 /\ found'[Len(found) + 1] = x
        /\ \A j \in 1..Len(found) :
            found'[j] = found[j] /\ found[j] \in ToSet(found) /\ found[j] \in Nat \X words
    <3>1. FoundMore(words, found, x, found')
      BY <2>7, <2>8, FoundAppend
    <3> QED
      BY <3>1 DEF FoundMore
  <2>10. \A n, w : <<n, w>> \in ToSet(found) <=> Reported(words, Read, output, <<n, w>>)
    BY <2>1 DEF RegularOK, FoundIs
  <2>11. FoundIs'
    <3>1. \A n, w : <<n, w>> \in ToSet(found') <=> Reported(words, Read, f, <<n, w>>)
      <4>1. \A n, w : <<n, w>> = x <=> n = Read[Len(Read)][1] /\ w = p
        BY <2>7
      <4> QED
        BY <2>5, <2>9, <2>10, <4>1
    <3> QED
      BY <1>1, <1>2, <2>9, <3>1 DEF FoundIs
  <2>12. FoundSorted'
    <3>1. ASSUME NEW j \in 1..Len(found) PROVE Earlier(found[j], x)
      <4>1. PICK n \in Nat, w \in words : found[j] = <<n, w>>
        <5>1. found[j] \in Nat \X words
          BY <2>9
        <5>2. \A y \in Nat \X words : \E n \in Nat, w \in words : y = <<n, w>>
          OBVIOUS
        <5> QED
          BY <5>1, <5>2
      <4>2. Reported(words, Read, output, <<n, w>>)
        BY <2>9, <2>10, <4>1
      <4>3. Len(w) \in Nat /\ Len(p) \in Nat /\ Len(output) \in Nat
        BY <2>1, <2>4, <2>5, LenProperties, NodeType DEF IsOutput
      <4>4. Earlier(<<n, w>>, <<Read[Len(Read)][1], p>>)
        BY <2>2, <2>3, <2>5, <4>2, <4>3, ReportedBefore
      <4> QED
        BY <2>7, <4>1, <4>4
    <3>2. ASSUME NEW j \in 1..Len(found'), NEW k \in 1..Len(found'), j < k
          PROVE  Earlier(found'[j], found'[k])
      <4>1. j \in 1..Len(found) /\ (k \in 1..Len(found) \/ k = Len(found) + 1)
        BY <2>9, <3>2
      <4>2. CASE k \in 1..Len(found)
        <5>1. Earlier(found[j], found[k])
          BY <2>1, <3>2, <4>1, <4>2 DEF RegularOK, FoundSorted
        <5> QED
          BY <2>9, <4>1, <4>2, <5>1
      <4>3. CASE k = Len(found) + 1
        BY <2>9, <3>1, <4>1, <4>3
      <4> QED
        BY <4>1, <4>2, <4>3
    <3> QED
      BY <3>2 DEF FoundSorted
  <2>13. OutputOK'
    BY <1>1, <1>2, <2>4, <2>5 DEF OutputOK
  <2>14. (shift = base)' /\ IsState(nodes, TextOf(Read), state)'
    BY <1>1, <1>2, <2>1 DEF RegularOK
  <2> QED
    BY <2>11, <2>12, <2>13, <2>14 DEF RegularOK
<1> QED
    BY <1>1, <1>2, <1>3 DEF SearchInv

\* next() has found no output: everything that ends in the letters read was reported.
LEMMA AllReported ==
    ASSUME RegularOK, PlaceOK, DictOK, NextOutput(nodes, output) = NULL
    PROVE  \A n, w : <<n, w>> \in ToSet(found) <=> Reported(words, Read, NULL, <<n, w>>)
<1>1. \A n, w : <<n, w>> \in ToSet(found) <=> Reported(words, Read, output, <<n, w>>)
    BY DEF RegularOK, FoundIs
<1>2. CASE output = NULL
    BY <1>1, <1>2
<1>3. CASE output # NULL
  <2>1. IsAutomaton(nodes) /\ Keys(nodes) = words /\ Read \in Seq(Placed)
    BY DictAutomaton, ReadFacts
  <2>2. IsOutput(nodes, TextOf(Read), output)
    BY <1>3 DEF RegularOK, OutputOK
  <2>3. \A m : Reported(Keys(nodes), Read, output, m) <=> Reported(Keys(nodes), Read, NULL, m)
    BY <2>1, <2>2, ReportedAll
  <2> QED
    BY <1>1, <2>1, <2>3
<1> QED
    BY <1>2, <1>3

\* next() reads a letter.
LEMMA AdvanceKeeps == SearchInv /\ Advance => SearchInv'
<1> SUFFICES ASSUME SearchInv, Advance PROVE SearchInv'
    OBVIOUS
<1> DEFINE n == NextIndex
           l == input[n + 1]
           x == <<base + n, l>>
<1>1. /\ pc = "next" /\ NextOutput(nodes, output) = NULL /\ n < end /\ index' = n
      /\ state' = ahocorasick_next(nodes, state, l) /\ output' = state'
      /\ UNCHANGED <<words, nodes, ignore_white_space, input, end, shift, start, prior, base,
                     found, regular, pc>>
    BY DEF Advance, history
<1>2. DictOK /\ PlaceOK /\ index <= end
    BY <1>1 DEF SearchInv, PlaceOK
<1>3. start <= n /\ x \in Placed /\ Read' = Append(Read, x)
    BY <1>1, <1>2, ReadAdvance
<1>4. n \in Nat /\ index + 1 <= n /\ n <= end + 1
    BY <1>2, NextIndexFacts
<1> HIDE DEF n, l
<1>5. IsAutomaton(nodes) /\ Keys(nodes) = words
    BY <1>2, DictAutomaton
<1>6. Read \in Seq(Placed) /\ end \in Nat /\ start \in Nat /\ index \in Int
    BY <1>2, ReadFacts
<1>7. DictOK' /\ PlaceOK'
  <2>1. index' \in (start - 1)..(end + 1) /\ index' <= end
    BY <1>1, <1>3, <1>4, <1>6
  <2> QED
    BY <1>1, <1>2, <2>1 DEF DictOK, PlaceOK
<1>8. ASSUME regular PROVE RegularOK'
  <2>1. RegularOK
    BY <1>8 DEF SearchInv
  <2>2. /\ Read' \in Seq(Placed) /\ Len(Read') = Len(Read) + 1 /\ Len(Read) \in Nat
        /\ Read'[Len(Read) + 1] = x
    <3> DEFINE s == Append(Read, x)
    <3>1. s \in Seq(Placed) /\ Len(s) = Len(Read) + 1 /\ Len(Read) \in Nat /\ s[Len(Read) + 1] = x
      BY <1>3, <1>6, AppendProperties, LenProperties
    <3>2. Read' = s
      BY <1>3
    <3> HIDE DEF s
    <3> QED
      BY <3>1, <3>2
  <2>3. l \in Symbols /\ x[1] = base + n /\ x[2] = l
    BY <1>3 DEF Placed
  <2>4. TextOf(Read') = Append(TextOf(Read), l)
    <3>1. TextOf(Append(Read, x)) = Append(TextOf(Read), x[2])
      BY <1>3, <1>6, TextOfAppend
    <3> QED
      BY <1>3, <2>3, <3>1
  <2>5. IsState(nodes, TextOf(Read'), state')
    <3>1. TextOf(Read) \in Seq(Symbols) /\ Letters \subseteq Symbols
      BY <1>6, TextOfType DEF Symbols
    <3>2. IsState(nodes, TextOf(Read), state)
      BY <2>1 DEF RegularOK
    <3>3. IsState(nodes, Append(TextOf(Read), l), ahocorasick_next(nodes, state, l))
      BY <1>5, <2>3, <3>1, <3>2, NextStateCorrect
    <3> QED
      BY <1>1, <2>4, <3>3
  <2>6. IsOutput(nodes, TextOf(Read'), state')
    <3>1. TextOf(Read') \in Seq(Symbols)
      BY <2>2, TextOfType
    <3> QED
      BY <1>5, <2>5, <3>1, StateIsOutput
  <2>7. OutputOK'
    <3>1. ~(index' >= end')
      BY <1>1, <1>4, <1>6
    <3>2. start' <= index' /\ Len(Read') > 0 /\ Read'[Len(Read')][1] = base' + index'
      BY <1>1, <1>3, <2>2, <2>3
    <3>3. IsOutput(nodes', TextOf(Read'), output')
      BY <1>1, <2>6
    <3> QED
      BY <3>1, <3>2, <3>3 DEF OutputOK
  <2>8. FoundIs'
    <3>1. \A k, w : <<k, w>> \in ToSet(found) <=> Reported(words, Read, NULL, <<k, w>>)
      BY <1>1, <1>2, <2>1, AllReported
    <3>2. \A m : Reported(words, Read', state', m) <=> Reported(words, Read, NULL, m)
      <4> DEFINE s == Read'
                 q == state'
      <4>1. s = Append(Read, x) /\ IsState(nodes, TextOf(s), q)
        BY <1>3, <2>5
      <4> HIDE DEF s, q, x
      <4>2. \A m : Reported(Keys(nodes), s, q, m) <=> Reported(Keys(nodes), Read, NULL, m)
        BY <1>3, <1>5, <1>6, <4>1, ReportedAdvance
      <4> QED
        BY <1>5, <4>2 DEF s, q
    <3>3. found \in Seq(Nat \X words)
      BY <2>1 DEF RegularOK, FoundIs
    <3> QED
      BY <1>1, <3>1, <3>2, <3>3 DEF FoundIs
  <2>9. FoundSorted' /\ (shift = base)'
    BY <1>1, <2>1 DEF RegularOK, FoundSorted
  <2>10. IsState(nodes, TextOf(Read), state)'
    BY <1>1, <2>5
  <2> QED
    BY <2>7, <2>8, <2>9, <2>10 DEF RegularOK
<1> QED
    BY <1>1, <1>7, <1>8 DEF SearchInv

\* next() stops.
LEMMA StopKeeps == SearchInv /\ Stop => SearchInv'
<1> SUFFICES ASSUME SearchInv, Stop PROVE SearchInv'
    OBVIOUS
<1>1. /\ pc = "next" /\ NextOutput(nodes, output) = NULL /\ NextIndex >= end
      /\ index' = NextIndex /\ output' = NULL /\ pc' = "idle"
      /\ UNCHANGED <<words, nodes, ignore_white_space, input, end, shift, state, start, prior,
                     base, found, regular>>
    BY DEF Stop, history
<1>2. DictOK /\ PlaceOK /\ index <= end
    BY <1>1 DEF SearchInv, PlaceOK
<1>3. Read' = Read
    BY <1>1, <1>2, ReadStop
<1>4. NextIndex \in Nat /\ index + 1 <= NextIndex /\ NextIndex <= end + 1
    BY <1>2, NextIndexFacts
<1>5. DictOK' /\ PlaceOK'
  <2>1. index' \in (start - 1)..(end + 1)
    BY <1>1, <1>2, <1>4, ReadFacts DEF PlaceOK
  <2> QED
    BY <1>1, <1>2, <2>1 DEF DictOK, PlaceOK
<1>6. ASSUME regular PROVE RegularOK'
  <2>1. RegularOK
    BY <1>6 DEF SearchInv
  <2>2. \A k, w : <<k, w>> \in ToSet(found) <=> Reported(words, Read, NULL, <<k, w>>)
    BY <1>1, <1>2, <2>1, AllReported
  <2>3. FoundIs'
    BY <1>1, <1>3, <2>1, <2>2 DEF RegularOK, FoundIs
  <2> QED
    BY <1>1, <1>3, <2>1, <2>3 DEF RegularOK, FoundSorted, OutputOK
<1> QED
    BY <1>1, <1>5, <1>6 DEF SearchInv

\* set() puts the iterator before the first letter of the new string.
LEMMA SetPlace ==
    ASSUME NEW text \in Texts, Set(text), base' \in Nat, Rising(prior', base'), PlaceOK
    PROVE  PlaceOK' /\ Read' = prior'
<1>1. /\ input' = text /\ end' = Len(text) /\ index' = -1 /\ start' = 0 /\ pc' = "idle"
      /\ ignore_white_space' = ignore_white_space
    BY DEF Set
<1>2. text \in Seq(Symbols) /\ Len(text) \in Nat
  <2>1. text \in Seq(Symbols)
    BY TextsAssumption DEF Symbols
  <2> QED
    BY <2>1, LenProperties
<1>3. PlaceOK'
  <2>1. /\ input' \in Seq(Symbols) /\ end' \in 0..Len(input') /\ start' \in 0..end'
        /\ index' \in (start' - 1)..(end' + 1)
    BY <1>1, <1>2
  <2> QED
    BY <1>1, <2>1 DEF PlaceOK
<1>4. Passed' = 0
    BY <1>1, <1>2 DEF Passed
<1> DEFINE K == Kept(text, 0, base', ignore_white_space)
<1>5. Read' = prior' \o K[0]
    BY <1>1, <1>4 DEF Read, CurrentRead
<1>6. prior' \o K[0] = prior'
  <2> DEFINE r == prior'
             b == base'
  <2>1. K = Kept(text, 0, b, ignore_white_space) /\ b \in Nat /\ Rising(r, b)
    OBVIOUS
  <2> HIDE DEF K, r, b
  <2>2. 0 \in 0..Len(text) /\ 0 \in Nat /\ 0 <= 0
    BY <1>2
  <2>3. r \o K[0] = r
    BY <1>2, <2>1, <2>2, ReadUpTo
  <2> QED
    BY <2>3 DEF r
<1> QED
    BY <1>3, <1>5, <1>6

\* What set() leaves of a search that forgets the text before.
LEMMA ForgetPlace ==
    ASSUME SearchInv, NEW text \in Texts, Set(text), Forget
    PROVE  DictOK' /\ PlaceOK' /\ Read' = <<>>
<1>1. DictOK /\ PlaceOK /\ IsAutomaton(nodes)
    BY DictAutomaton DEF SearchInv
<1>2. prior' = <<>> /\ base' = 0 /\ Rising(prior', base')
    BY <1>1, EmptyRead DEF Forget
<1>3. PlaceOK' /\ Read' = <<>>
    BY <1>1, <1>2, SetPlace
<1>4. DictOK'
    BY <1>1 DEF DictOK, Set
<1> QED
    BY <1>3, <1>4

\* set(string): the search goes on with another chunk.
LEMMA SetKeeps ==
    ASSUME SearchInv, NEW text \in Texts, automaton_search_iter_set(text)
    PROVE  SearchInv'
<1>1. /\ Set(text) /\ shift' = Shifted /\ state' = state /\ output' = output
      /\ words' = words /\ nodes' = nodes /\ index' = -1 /\ end' \in Nat
  <2>1. text \in Seq(Symbols)
    BY TextsAssumption DEF Symbols
  <2> QED
    BY <2>1, LenProperties DEF automaton_search_iter_set, Set
<1>2. DictOK /\ PlaceOK /\ DictOK'
    BY <1>1 DEF SearchInv, DictOK
<1>3. /\ Read \in Seq(Placed) /\ end \in Nat /\ start \in Nat /\ index \in Int
      /\ Rising(Whole, base + end)
      /\ index < start => Read = prior
      /\ index >= end => Read = Whole
    BY <1>2, ReadFacts
<1>4. base \in Nat /\ Rising(prior, base)
    BY <1>2 DEF PlaceOK
<1>5. ASSUME RegularOK, PlaceOK', Read' = Read, found' = found, shift' = base', output = NULL
      PROVE  RegularOK'
  <2>1. OutputOK'
    BY <1>1, <1>5 DEF OutputOK
  <2>2. FoundIs' /\ FoundSorted' /\ IsState(nodes, TextOf(Read), state)'
    BY <1>1, <1>5 DEF RegularOK, FoundIs, FoundSorted
  <2> QED
    BY <1>5, <2>1, <2>2 DEF RegularOK
<1>6. CASE regular /\ Fresh /\ UNCHANGED <<prior, base, found, regular>>
  <2>1. RegularOK /\ index = -1 /\ start = 0
    BY <1>6 DEF SearchInv, Fresh
  <2>2. ~(start <= index)
    BY <2>1
  <2>3. output = NULL /\ shift = base
    BY <2>1, <2>2 DEF RegularOK, OutputOK
  <2>4. Shifted = base
    BY <1>4, <2>1, <2>3 DEF Shifted
  <2>5. base' \in Nat /\ Rising(prior', base')
    BY <1>4, <1>6
  <2>6. PlaceOK' /\ Read' = Read
    BY <1>1, <1>2, <1>3, <1>6, <2>1, <2>2, <2>5, SetPlace
  <2>7. RegularOK'
    BY <1>1, <1>5, <1>6, <2>1, <2>3, <2>4, <2>6
  <2> QED
    BY <1>2, <2>6, <2>7 DEF SearchInv
<1>7. CASE regular /\ Drained /\ prior' = prior \o Current /\ base' = base + end
           /\ UNCHANGED <<found, regular>>
  <2>1. RegularOK /\ index = end /\ index >= end
    BY <1>3, <1>7 DEF SearchInv, Drained
  <2>2. output = NULL /\ shift = base
    BY <2>1 DEF RegularOK, OutputOK
  <2>3. Shifted = base + end
    BY <1>3, <1>4, <2>1, <2>2 DEF Shifted
  <2>4. base' \in Nat /\ Rising(prior', base') /\ prior' = Read
    BY <1>3, <1>4, <1>7, <2>1 DEF Whole
  <2>5. PlaceOK' /\ Read' = Read
    BY <1>1, <1>2, <2>4, SetPlace
  <2>6. RegularOK'
    BY <1>1, <1>5, <1>7, <2>1, <2>2, <2>3, <2>5
  <2> QED
    BY <1>2, <2>5, <2>6 DEF SearchInv
<1>8. CASE Forget /\ regular' = FALSE
  <2>1. PlaceOK'
    BY <1>1, <1>8, ForgetPlace
  <2> QED
    BY <1>2, <1>8, <2>1 DEF SearchInv
<1> QED
    BY <1>6, <1>7, <1>8 DEF automaton_search_iter_set

\* set(string, True): the search starts over.
LEMMA ResetKeeps ==
    ASSUME SearchInv, NEW text \in Texts, automaton_search_iter_set_reset(text)
    PROVE  SearchInv'
<1>1. Set(text) /\ Forget /\ state' = Root /\ shift' = 0 /\ output' = NULL
    BY DEF automaton_search_iter_set_reset
<1>2. DictOK' /\ PlaceOK' /\ Read' = <<>>
    BY <1>1, ForgetPlace
<1>3. IsAutomaton(nodes) /\ nodes' = nodes /\ words' = words
    BY <1>1, DictAutomaton DEF SearchInv, Set
<1>4. found' = <<>> /\ base' = 0
    BY <1>1 DEF Forget
<1>5. IsState(nodes, TextOf(Read), state)' /\ FoundIs' /\ FoundSorted'
  <2> DEFINE r == Read'
             f == found'
  <2>1. r = <<>> /\ f = <<>>
    BY <1>2, <1>4
  <2> HIDE DEF r, f
  <2>2. /\ IsState(nodes, TextOf(r), Root) /\ f \in Seq(Nat \X words)
        /\ \A n, w : <<n, w>> \in ToSet(f) <=> Reported(words, r, NULL, <<n, w>>)
        /\ \A j, k \in 1..Len(f) : j < k => Earlier(f[j], f[k])
    BY <1>3, <2>1, StartsOver
  <2> QED
    BY <1>1, <1>3, <2>2 DEF FoundIs, FoundSorted, r, f
<1>6. OutputOK'
    BY <1>1 DEF OutputOK
<1>7. (shift = base)'
    BY <1>1, <1>4
<1> QED
    BY <1>2, <1>5, <1>6, <1>7 DEF SearchInv, RegularOK

\* The iterator is deleted.
LEMMA DelKeeps == SearchInv /\ automaton_search_iter_del => SearchInv'
<1> SUFFICES ASSUME SearchInv, automaton_search_iter_del PROVE SearchInv'
    OBVIOUS
<1>1. /\ input' = <<>> /\ index' = -1 /\ end' = 0 /\ start' = 0 /\ pc' = "deleted"
      /\ prior' = <<>> /\ base' = 0 /\ regular' = FALSE /\ words' = words /\ nodes' = nodes
    BY DEF automaton_search_iter_del, Forget
<1>2. DictOK' /\ IsAutomaton(nodes)
    BY <1>1, DictAutomaton DEF SearchInv, DictOK
<1>3. input' \in Seq(Symbols) /\ Len(input') = 0
    BY <1>1, EmptySeq
<1>4. Rising(prior', base')
    BY <1>1, <1>2, EmptyRead
<1>5. /\ end' \in 0..Len(input') /\ start' \in 0..end' /\ base' \in Nat
      /\ index' \in (start' - 1)..(end' + 1)
    BY <1>1, <1>3
<1>6. PlaceOK'
    BY <1>1, <1>3, <1>4, <1>5 DEF PlaceOK
<1> QED
    BY <1>1, <1>2, <1>6 DEF SearchInv

\* Every step keeps the invariant.
LEMMA SearchNext == SearchInv /\ [Next]_vars => SearchInv'
<1> SUFFICES ASSUME SearchInv, [Next]_vars PROVE SearchInv'
    OBVIOUS
<1>1. CASE CallNext
    BY <1>1, SearchStable DEF CallNext
<1>2. CASE Report
    BY <1>2, ReportKeeps
<1>3. CASE Advance
    BY <1>3, AdvanceKeeps
<1>4. CASE Stop
    BY <1>4, StopKeeps
<1>5. ASSUME NEW text \in Texts, automaton_search_iter_set(text)
      PROVE  SearchInv'
    BY <1>5, SetKeeps
<1>6. ASSUME NEW text \in Texts, automaton_search_iter_set_reset(text)
      PROVE  SearchInv'
    BY <1>6, ResetKeeps
<1>7. ASSUME NEW text \in Texts, automaton_search_iter_set_refused(text)
      PROVE  SearchInv'
    BY <1>7, SearchStable DEF automaton_search_iter_set_refused
<1>8. CASE automaton_search_iter_del
    BY <1>8, DelKeeps
<1>9. CASE UNCHANGED vars
    BY <1>9, SearchStable DEF vars
<1> QED
    BY <1>1, <1>2, <1>3, <1>4, <1>5, <1>6, <1>7, <1>8, <1>9 DEF Next

\* A word is expected where it ends in the whole text.
LEMMA ExpectedIs ==
    ASSUME SearchInv
    PROVE  /\ \A n, w : <<n, w>> \in Expected <=> Reported(words, Whole, NULL, <<n, w>>)
           /\ \A m \in Expected : \E n, w : m = <<n, w>>
<1> DEFINE t == TextOf(Whole)
           all == Occurrences(words, t)
<1>1. Whole \in Seq(Placed) /\ words \subseteq Seq(Symbols)
    BY ReadFacts, DictAutomaton DEF SearchInv
<1>2. t \in Seq(Symbols) /\ Len(t) = Len(Whole) /\ Len(Whole) \in Nat
    BY <1>1, TextOfType
<1>3. Expected = {<<Whole[m[1] + 1][1], m[2]>> : m \in all}
    BY DEF Expected
<1> HIDE DEF t
<1>4. \A m : m \in all <=> /\ m \in (0..(Len(Whole) - 1)) \X words
                          /\ Occurs(m[2], t, m[1])
    BY <1>2 DEF Occurrences
<1> HIDE DEF all
<1>5. ASSUME NEW n, NEW w, <<n, w>> \in Expected
      PROVE  Reported(words, Whole, NULL, <<n, w>>)
  <2>1. PICK m \in all : <<n, w>> = <<Whole[m[1] + 1][1], m[2]>>
    BY <1>3, <1>5
  <2>2. PICK e \in 0..(Len(Whole) - 1), v \in words : m = <<e, v>>
    BY <1>4
  <2>3. n = Whole[e + 1][1] /\ w = v /\ Occurs(w, t, e)
    BY <1>4, <2>1, <2>2
  <2>4. e + 1 \in 1..Len(Whole) /\ e + 1 - 1 = e
    BY <1>2
  <2>5. Ends(t, e + 1, w)
    <3> DEFINE d == e + 1
    <3>1. d \in 1..Len(t) /\ Occurs(w, t, d - 1) /\ w \in Seq(Symbols)
      BY <1>1, <1>2, <2>2, <2>3, <2>4
    <3> HIDE DEF d
    <3>2. Ends(t, d, w)
      BY <1>2, <3>1, OccursEnds
    <3> QED
      BY <3>2 DEF d
  <2> QED
    BY <2>2, <2>3, <2>4, <2>5 DEF Reported, t
<1>6. ASSUME NEW n, NEW w, Reported(words, Whole, NULL, <<n, w>>)
      PROVE  <<n, w>> \in Expected
  <2>1. PICK e \in 1..Len(Whole) : n = Whole[e][1] /\ w \in words /\ Ends(t, e, w)
    BY <1>6 DEF Reported, t
  <2>2. w \in Seq(Symbols) /\ e \in 1..Len(t) /\ e - 1 \in 0..(Len(Whole) - 1) /\ e - 1 + 1 = e
    BY <1>1, <1>2, <2>1
  <2>3. Occurs(w, t, e - 1)
    BY <1>2, <2>1, <2>2, OccursEnds
  <2>4. <<e - 1, w>> \in all
    BY <1>4, <2>1, <2>2, <2>3
  <2>5. <<n, w>> = <<Whole[<<e - 1, w>>[1] + 1][1], <<e - 1, w>>[2]>>
    BY <2>1, <2>2
  <2> QED
    BY <1>3, <2>4, <2>5
<1> QED
    BY <1>3, <1>5, <1>6

\* What was found by now is a beginning of what is expected.
LEMMA FoundFollows == SearchInv => FoundOK
<1> SUFFICES ASSUME SearchInv, regular PROVE FoundOK
    BY DEF FoundOK
<1>1. RegularOK /\ PlaceOK /\ DictOK
    BY DEF SearchInv
<1>2. /\ Read \in Seq(Placed) /\ Whole \in Seq(Placed) /\ Extends(Read, Whole)
      /\ Rising(Whole, base + end) /\ end \in Nat /\ index \in Int
      /\ index >= end => Read = Whole
    BY <1>1, ReadFacts
<1>3. /\ found \in Seq(Nat \X words)
      /\ \A n, w : <<n, w>> \in ToSet(found) <=> Reported(words, Read, output, <<n, w>>)
    BY <1>1 DEF RegularOK, FoundIs
<1>4. /\ \A n, w : <<n, w>> \in Expected <=> Reported(words, Whole, NULL, <<n, w>>)
      /\ \A m \in Expected : \E n, w : m = <<n, w>>
    BY ExpectedIs
<1>5. DOMAIN found = 1..Len(found) /\ Len(found) \in Nat
    BY <1>3, LenProperties
<1>6. \A m \in ToSet(found) : \E n, w : m = <<n, w>> /\ Reported(words, Read, output, <<n, w>>)
  <2>1. \A k \in 1..Len(found) : found[k] \in Nat \X words
    BY <1>3, ElementOfSeq
  <2>2. \A m \in ToSet(found) : m \in Nat \X words
    BY <1>5, <2>1 DEF ToSet
  <2>3. \A y \in Nat \X words : \E n, w : y = <<n, w>>
    OBVIOUS
  <2> SUFFICES ASSUME NEW m \in ToSet(found)
               PROVE  \E n, w : m = <<n, w>> /\ Reported(words, Read, output, <<n, w>>)
    OBVIOUS
  <2>4. PICK n, w : m = <<n, w>>
    BY <2>2, <2>3
  <2>5. Reported(words, Read, output, <<n, w>>)
    BY <1>3, <2>4
  <2> QED
    BY <2>4, <2>5
<1>7. Len(Read) \in Nat /\ Len(Whole) \in Nat /\ Len(Read) <= Len(Whole)
    BY <1>2, LenProperties DEF Extends
<1>8. ToSet(found) \subseteq Expected
  <2>1. ASSUME NEW n, NEW w, Reported(words, Read, output, <<n, w>>)
        PROVE  <<n, w>> \in Expected
    <3>1. PICK e \in 1..Len(Read) : n = Read[e][1] /\ w \in words /\ Ends(TextOf(Read), e, w)
      BY <2>1 DEF Reported
    <3>2. e \in 1..Len(Whole) /\ Whole[e] = Read[e] /\ Ends(TextOf(Whole), e, w)
      BY <1>2, <3>1, EndsBefore
    <3> QED
      BY <1>4, <3>1, <3>2 DEF Reported
  <2> SUFFICES ASSUME NEW m \in ToSet(found) PROVE m \in Expected
    OBVIOUS
  <2>2. PICK n, w : m = <<n, w>> /\ Reported(words, Read, output, <<n, w>>)
    BY <1>6
  <2> QED
    BY <2>1, <2>2
<1>9. \A j, k \in DOMAIN found : j < k => Earlier(found[j], found[k])
    BY <1>1, <1>5 DEF RegularOK, FoundSorted
<1>10. ASSUME NEW m \in Expected \ ToSet(found), NEW i \in DOMAIN found
       PROVE  Earlier(found[i], m)
  <2>1. PICK n, w : m = <<n, w>> /\ Reported(words, Whole, NULL, <<n, w>>)
    BY <1>4
  <2>2. PICK e \in 1..Len(Whole) : n = Whole[e][1] /\ w \in words /\ Ends(TextOf(Whole), e, w)
    BY <2>1 DEF Reported
  <2>3. found[i] \in ToSet(found)
    BY DEF ToSet
  <2>4. PICK n2, w2 : found[i] = <<n2, w2>> /\ Reported(words, Read, output, <<n2, w2>>)
    BY <1>6, <2>3
  <2>5. PICK d \in 1..Len(Read) :
            /\ n2 = Read[d][1] /\ w2 \in words
            /\ output = NULL \/ d < Len(Read) \/ Len(w2) > Len(output)
    BY <2>4 DEF Reported
  <2>6. ~Reported(words, Read, output, <<n, w>>)
    BY <1>3, <2>1
  <2>7. d \in 1..Len(Whole) /\ n2 = Whole[d][1]
    BY <1>2, <1>7, <2>5 DEF Extends
  <2>8. ASSUME e \in 1..Len(Read)
        PROVE  e = Len(Read) /\ output # NULL /\ ~(Len(w) > Len(output))
    <3>1. Whole[e] = Read[e] /\ Ends(TextOf(Read), e, w)
      BY <1>2, <2>2, <2>8, EndsBefore
    <3>2. ~(output = NULL \/ e < Len(Read) \/ Len(w) > Len(output))
      BY <2>2, <2>6, <2>8, <3>1 DEF Reported
    <3> QED
      BY <1>7, <2>8, <3>2
  <2>9. CASE d < e
    <3>1. Whole[d][1] < Whole[e][1]
      BY <1>2, <2>7, <2>9 DEF Rising
    <3> QED
      BY <2>1, <2>2, <2>4, <2>7, <3>1 DEF Earlier
  <2>10. CASE ~(d < e)
    <3>1. e \in 1..Len(Read) /\ e <= d
      BY <1>7, <2>10
    <3>2. e = Len(Read) /\ output # NULL /\ ~(Len(w) > Len(output)) /\ d = e
      BY <1>7, <2>8, <3>1
    <3>3. Len(w2) > Len(output)
      BY <1>7, <2>5, <3>2
    <3>4. Len(w) \in Nat /\ Len(w2) \in Nat /\ Len(output) \in Nat
      <4>1. w \in Seq(Letters) /\ w2 \in Seq(Letters)
        BY <1>1, <2>2, <2>5, DictAutomaton
      <4>2. Len(output) \in Nat
        BY <1>1, <3>2, DictAutomaton, NodeType DEF RegularOK, OutputOK, IsOutput
      <4> QED
        BY <4>1, <4>2, LenProperties
    <3>5. Len(w2) > Len(w)
      BY <3>2, <3>3, <3>4
    <3> QED
      BY <2>1, <2>2, <2>4, <2>7, <3>2, <3>5 DEF Earlier
  <2> QED
    BY <2>9, <2>10
<1>11. ASSUME Drained PROVE ToSet(found) = Expected
  <2>1. Read = Whole /\ output = NULL
    BY <1>1, <1>2, <1>11 DEF Drained, RegularOK, OutputOK
  <2>2. \A n, w : <<n, w>> \in ToSet(found) <=> <<n, w>> \in Expected
    BY <1>3, <1>4, <2>1
  <2> QED
    BY <1>4, <1>8, <2>2
<1> QED
    BY <1>8, <1>9, <1>10, <1>11 DEF FoundOK

\* The state is the one StateOK asks for.
LEMMA StateFollows == SearchInv => StateOK
<1> SUFFICES ASSUME SearchInv, regular PROVE StateOK
    BY DEF StateOK
<1>1. IsState(nodes, TextOf(Read), state) /\ Read \in Seq(Placed)
    BY ReadFacts DEF SearchInv, RegularOK
<1>2. TextOf(Read) \in Seq(Symbols)
    BY <1>1, TextOfType
<1> DEFINE read == TextOf(Read)
<1>3. state = Suffix(read, Max({k \in 0..Len(read) : Suffix(read, k) \in DOMAIN nodes}))
  <2>1. read \in Seq(Symbols) /\ IsState(nodes, read, state)
    BY <1>1, <1>2
  <2> HIDE DEF read
  <2> QED
    BY <2>1, StateIsLongest
<1> QED
    BY <1>3 DEF StateOK

(***************************************************************************)
(* Whatever the words and the strings are: wherever the first string is    *)
(* searched from and to, however the text is cut into chunks and whatever  *)
(* was abandoned before a reset, next() reports every occurrence of every  *)
(* word once, by end position and then longest first, at its position in   *)
(* the whole text.                                                         *)
(***************************************************************************)
THEOREM FoundCorrect == Spec => []FoundOK
<1>1. Spec => []SearchInv
    BY SearchInit, SearchNext, PTL DEF Spec
<1> QED
    BY <1>1, FoundFollows, PTL

(***************************************************************************)
(* And the state is, whenever the search can be looked at, the longest     *)
(* suffix of the letters read that begins a word.                          *)
(***************************************************************************)
THEOREM StateCorrect == Spec => []StateOK
<1>1. Spec => []SearchInv
    BY SearchInit, SearchNext, PTL DEF Spec
<1> QED
    BY <1>1, StateFollows, PTL
=============================================================================
