----------------------------- MODULE TrieProofs -----------------------------
(***************************************************************************)
(* Lemmas about the operators of modules Trie, Search and Input, for every *)
(* alphabet, heap, word and string: what adding and removing a word do to  *)
(* a well-formed heap, that the search step is right over any automaton    *)
(* that is linked as the textbook says, that the automaton of a set of     *)
(* words is linked so, and what is taken and selected of a string to be    *)
(* searched.                                                               *)
(***************************************************************************)
EXTENDS Search, Input, SequenceTheorems, FiniteSetTheorems, FunctionTheorems,
        WellFoundedInduction, TLAPS

-----------------------------------------------------------------------------
(* Paths. *)

\* The first k letters of a word are a word of length k.
LEMMA AtType ==
    ASSUME NEW S, NEW w \in Seq(S), NEW k \in 0..Len(w)
    PROVE  /\ At(w, k) \in Seq(S)
           /\ Len(At(w, k)) = k
           /\ \A j \in 1..k : At(w, k)[j] = w[j]
<1>1. Len(w) \in Nat /\ k \in Int /\ k >= 0 /\ 1 \in Int
    BY LenProperties
<1>2. \A j \in 1..k : w[j] \in S
    BY LenProperties, ElementOfSeq
<1> QED
    BY <1>1, <1>2, SubSeqProperties DEF At

\* The node at depth k + 1 is the child over the next letter of the node at depth k.
LEMMA AppendAt ==
    ASSUME NEW S, NEW w \in Seq(S), NEW k \in 0..(Len(w) - 1)
    PROVE  Append(At(w, k), w[k + 1]) = At(w, k + 1)
<1>1. Len(w) \in Nat /\ k + 1 \in 1..Len(w) /\ k \in Nat /\ k + 1 - 1 = k
    BY LenProperties
<1>2. SubSeq(w, 1, k + 1) = SubSeq(w, 1, k + 1 - 1) \o <<w[k + 1]>>
    BY <1>1, SubSeqRecursiveSecond
<1>3. SubSeq(w, 1, k + 1) = SubSeq(w, 1, k) \o <<w[k + 1]>>
    BY <1>1, <1>2
<1>4. At(w, k) \in Seq(S) /\ w[k + 1] \in S
    BY <1>1, AtType, ElementOfSeq
<1> QED
    BY <1>3, <1>4, AppendIsConcat DEF At

\* A word is its own prefix of full length; a prefix of a prefix is a prefix.
LEMMA AtAt ==
    ASSUME NEW S, NEW w \in Seq(S), NEW k \in 0..Len(w)
    PROVE  /\ At(w, Len(w)) = w
           /\ At(w, 0) = <<>>
           /\ \A j \in 0..k : At(At(w, k), j) = At(w, j)
<1>1. Len(w) \in Nat
    BY LenProperties
<1>2. At(w, Len(w)) = w /\ At(w, 0) = <<>>
    BY SubSeqFull, SubSeqEmpty, <1>1 DEF At
<1>3. ASSUME NEW j \in 0..k
      PROVE  At(At(w, k), j) = At(w, j)
  <2>1. At(w, k) \in Seq(S) /\ Len(At(w, k)) = k /\ \A m \in 1..k : At(w, k)[m] = w[m]
    BY AtType
  <2>2. j \in 0..Len(w) /\ j \in 0..Len(At(w, k))
    BY <1>1, <2>1
  <2>3. /\ At(w, j) \in Seq(S) /\ Len(At(w, j)) = j
        /\ \A m \in 1..j : At(w, j)[m] = w[m]
    BY <2>2, AtType
  <2>4. /\ At(At(w, k), j) \in Seq(S) /\ Len(At(At(w, k), j)) = j
        /\ \A m \in 1..j : At(At(w, k), j)[m] = At(w, k)[m]
    BY <2>1, <2>2, AtType
  <2>5. \A m \in 1..j : At(At(w, k), j)[m] = At(w, j)[m]
    BY <1>1, <2>1, <2>3, <2>4
  <2> QED
    BY <2>3, <2>4, <2>5, SeqEqual
<1> QED
    BY <1>2, <1>3

\* If the child of p over l lies on the way to w, so does p, and l is w's next letter.
LEMMA AppendOnPath ==
    ASSUME NEW S, NEW w \in Seq(S), NEW p \in Seq(S), NEW l \in S, NEW k \in 1..Len(w),
           Append(p, l) = At(w, k)
    PROVE  p = At(w, k - 1) /\ l = w[k] /\ Len(p) = k - 1
<1>1. Len(w) \in Nat /\ k - 1 \in 0..(Len(w) - 1) /\ k - 1 \in 0..Len(w) /\ k - 1 + 1 = k
    BY LenProperties
<1>2. Append(At(w, k - 1), w[k]) = At(w, k)
    BY <1>1, AppendAt
<1>3. At(w, k - 1) \in Seq(S) /\ Len(At(w, k - 1)) = k - 1 /\ w[k] \in S
    BY <1>1, AtType, ElementOfSeq
<1> QED
    BY <1>2, <1>3, AppendInjective

\* A non-empty set of naturals has a minimum.
LEMMA MinExists ==
    ASSUME NEW T, T \subseteq Nat, T # {}
    PROVE  Min(T) \in T /\ \A y \in T : Min(T) <= y
<1>1. PICK x \in T : \A y \in T : ~ (<<y, x>> \in OpToRel(<, Nat))
    BY WFMin, NatLessThanWellFounded
<1>2. \A y \in T : ~(y < x)
    BY <1>1 DEF OpToRel
<1>3. \A y \in T : x <= y
    BY <1>2
<1> QED
    BY <1>3 DEF Min

\* A non-empty set of naturals with a bound has a maximum.
LEMMA MaxExists ==
    ASSUME NEW n \in Nat, NEW T, T \subseteq 0..n, T # {}
    PROVE  Max(T) \in T /\ \A y \in T : Max(T) >= y
<1> DEFINE U == {n - x : x \in T}
<1>1. U \subseteq Nat /\ U # {}
  <2>1. \A x \in T : n - x \in Nat
    OBVIOUS
  <2> QED
    BY <2>1
<1> HIDE DEF U
<1>2. PICK u \in U : \A y \in U : ~ (<<y, u>> \in OpToRel(<, Nat))
    BY <1>1, WFMin, NatLessThanWellFounded
<1>3. \A y \in U : ~ (y < u)
    BY <1>1, <1>2 DEF OpToRel
<1>4. PICK x \in T : u = n - x
    BY DEF U
<1>5. \A y \in T : x >= y
  <2> SUFFICES ASSUME NEW y \in T PROVE x >= y
    OBVIOUS
  <2>1. n - y \in U
    BY DEF U
  <2>2. ~ (n - y < n - x)
    BY <1>3, <1>4, <2>1
  <2>3. x \in Int /\ y \in Int
    OBVIOUS
  <2> QED
    BY <2>2, <2>3
<1> QED
    BY <1>5 DEF Max

-----------------------------------------------------------------------------
(* The array of children. *)

\* Cutting one letter out of an array of distinct letters.
LEMMA UnsetProperties ==
    ASSUME NEW S, NEW s \in Seq(S), IsInjective(s), NEW l \in ToSet(s)
    PROVE  /\ Unset(s, l) \in Seq(S)
           /\ ToSet(Unset(s, l)) = ToSet(s) \ {l}
           /\ IsInjective(Unset(s, l))
           /\ Len(Unset(s, l)) = Len(s) - 1
<1> DEFINE j == CHOOSE m \in DOMAIN s : s[m] = l
<1>1. Len(s) \in Nat /\ DOMAIN s = 1..Len(s) /\ j \in 1..Len(s) /\ s[j] = l
    BY LenProperties DEF ToSet
<1> DEFINE before == SubSeq(s, 1, j - 1)
           after == SubSeq(s, j + 1, Len(s))
           t == Unset(s, l)
<1>2. t = before \o after
    BY DEF Unset, RemoveAt
<1>3. \A m \in 1..Len(s) : s[m] \in S
    BY ElementOfSeq
<1> HIDE DEF j
<1>4. /\ before \in Seq(S) /\ Len(before) = j - 1
      /\ \A m \in 1..(j - 1) : before[m] = s[m]
  <2>1. 1 \in Int /\ j - 1 \in Int /\ \A m \in 1..(j - 1) : s[m] \in S
    BY <1>1, <1>3
  <2> QED
    BY <1>1, <2>1, SubSeqProperties
<1>5. /\ after \in Seq(S) /\ Len(after) = Len(s) - j
      /\ \A m \in 1..(Len(s) - j) : after[m] = s[j + m]
  <2>1. j + 1 \in Int /\ Len(s) \in Int /\ \A m \in (j + 1)..Len(s) : s[m] \in S
    BY <1>1, <1>3
  <2>2. /\ after \in Seq(S) /\ Len(after) = IF j + 1 <= Len(s) THEN Len(s) - (j + 1) + 1 ELSE 0
        /\ \A m \in 1..(Len(s) - (j + 1) + 1) : after[m] = s[j + 1 + m - 1]
    BY <2>1, SubSeqProperties
  <2> HIDE DEF after
  <2>3. Len(s) - (j + 1) + 1 = Len(s) - j /\ (~(j + 1 <= Len(s)) => Len(s) - j = 0)
    <3>1. Len(s) \in Int /\ j \in Int /\ j <= Len(s)
      BY <1>1
    <3> QED
      BY <3>1
  <2>4. \A m \in 1..(Len(s) - j) : j + 1 + m - 1 = j + m
    BY <1>1
  <2> QED
    BY <2>2, <2>3, <2>4
<1> HIDE DEF before, after, t
<1>6. /\ t \in Seq(S) /\ Len(t) = Len(s) - 1 /\ DOMAIN t = 1..(Len(s) - 1)
      /\ \A m \in 1..(Len(s) - 1) : t[m] = IF m < j THEN s[m] ELSE s[m + 1]
  <2>1. /\ t \in Seq(S) /\ Len(t) = Len(before) + Len(after)
        /\ \A m \in 1..(Len(before) + Len(after)) :
              t[m] = IF m <= Len(before) THEN before[m] ELSE after[m - Len(before)]
    BY <1>2, <1>4, <1>5, ConcatProperties
  <2>2. Len(t) = Len(s) - 1 /\ Len(t) \in Nat /\ DOMAIN t = 1..Len(t)
    BY <1>1, <1>4, <1>5, <2>1, LenProperties
  <2>3. ASSUME NEW m \in 1..(Len(s) - 1)
        PROVE  t[m] = IF m < j THEN s[m] ELSE s[m + 1]
    <3>1. CASE m < j
      <4>1. m \in 1..(j - 1) /\ m <= Len(before)
        BY <1>1, <1>4, <3>1
      <4>2. m \in 1..(Len(before) + Len(after))
        BY <1>1, <1>4, <1>5
      <4>3. t[m] = before[m]
        BY <2>1, <4>1, <4>2
      <4> QED
        BY <1>4, <3>1, <4>1, <4>3
    <3>2. CASE ~(m < j)
      <4>1. m - (j - 1) \in 1..(Len(s) - j) /\ ~(m <= Len(before)) /\ j + (m - (j - 1)) = m + 1
        BY <1>1, <1>4, <3>2
      <4>2. after[m - (j - 1)] = s[m + 1]
        BY <1>5, <4>1
      <4>3. m \in 1..(Len(before) + Len(after)) /\ m - Len(before) = m - (j - 1)
        BY <1>1, <1>4, <1>5
      <4>4. t[m] = after[m - Len(before)]
        BY <2>1, <4>1, <4>3
      <4> QED
        BY <3>2, <4>2, <4>3, <4>4
    <3> QED
      BY <3>1, <3>2
  <2> QED
    BY <2>1, <2>2, <2>3
<1>7. \A m, n \in 1..Len(s) : s[m] = s[n] => m = n
    BY <1>1 DEF IsInjective
<1>8. IsInjective(t)
    BY <1>1, <1>6, <1>7 DEF IsInjective
<1>9. ToSet(t) \subseteq ToSet(s) \ {l}
  <2> SUFFICES ASSUME NEW m \in 1..(Len(s) - 1) PROVE t[m] \in ToSet(s) /\ t[m] # l
    BY <1>6 DEF ToSet
  <2> QED
    BY <1>1, <1>6, <1>7 DEF ToSet
<1>10. ToSet(s) \ {l} \subseteq ToSet(t)
  <2> SUFFICES ASSUME NEW x \in ToSet(s) \ {l} PROVE x \in ToSet(t)
    OBVIOUS
  <2> PICK m \in 1..Len(s) : s[m] = x
    BY <1>1 DEF ToSet
  <2> SUFFICES \E n \in 1..(Len(s) - 1) : t[n] = x
    BY <1>6 DEF ToSet
  <2>1. CASE m < j
    BY <1>1, <1>6, <2>1
  <2>2. CASE m > j
    <3>1. m - 1 \in 1..(Len(s) - 1) /\ ~(m - 1 < j) /\ m - 1 + 1 = m
      BY <1>1, <2>2
    <3> QED
      BY <1>6, <3>1
  <2> QED
    BY <1>1, <2>1, <2>2
<1> QED
    BY <1>6, <1>8, <1>9, <1>10 DEF t

\* Appending a letter to an array.
LEMMA AppendNext ==
    ASSUME NEW S, NEW s \in Seq(S), NEW l \in S
    PROVE  /\ Append(s, l) \in Seq(S)
           /\ ToSet(Append(s, l)) = ToSet(s) \cup {l}
           /\ IsInjective(s) /\ l \notin ToSet(s) => IsInjective(Append(s, l))
<1> DEFINE t == Append(s, l)
<1>1. Len(s) \in Nat /\ DOMAIN s = 1..Len(s)
    BY LenProperties
<1>2. /\ t \in Seq(S) /\ Len(t) = Len(s) + 1
      /\ \A m \in 1..Len(s) : t[m] = s[m]
      /\ t[Len(s) + 1] = l
    BY AppendProperties
<1>3. DOMAIN t = 1..(Len(s) + 1)
    BY <1>2, LenProperties
<1> HIDE DEF t
<1>4. ToSet(t) = ToSet(s) \cup {l}
  <2>1. \A m \in 1..(Len(s) + 1) : m \in 1..Len(s) \/ m = Len(s) + 1
    BY <1>1
  <2>2. 1..Len(s) \subseteq 1..(Len(s) + 1) /\ Len(s) + 1 \in 1..(Len(s) + 1)
    BY <1>1
  <2> QED
    BY <1>1, <1>2, <1>3, <2>1, <2>2 DEF ToSet
<1>5. ASSUME IsInjective(s), l \notin ToSet(s)
      PROVE  IsInjective(t)
  <2>1. \A m \in 1..(Len(s) + 1) : m \in 1..Len(s) \/ m = Len(s) + 1
    BY <1>1
  <2>2. \A m \in 1..Len(s) : t[m] \in ToSet(s)
    BY <1>1, <1>2 DEF ToSet
  <2> QED
    BY <1>1, <1>2, <1>3, <1>5, <2>1, <2>2 DEF IsInjective
<1> QED
    BY <1>2, <1>4, <1>5 DEF t

-----------------------------------------------------------------------------
(* Adding a word. *)

\* The nodes that Grow gives a new child, over the next letter of w.
NewLink(h, w, k, p) ==
    Len(p) < k /\ p = At(w, Len(p)) /\ At(w, Len(p) + 1) \notin DOMAIN h

Path(w, k) == {At(w, i) : i \in 0..k}

\* g is h with the path of w down to depth k: the new nodes are blank but for their links.
Grown(h, w, k, g) ==
    /\ DOMAIN g = DOMAIN h \cup Path(w, k)
    /\ Heap(g)
    /\ \A p \in DOMAIN h :
            g[p].eow = h[p].eow /\ g[p].output = h[p].output /\ g[p].fail = h[p].fail
    /\ \A p \in Path(w, k) \ DOMAIN h : ~g[p].eow /\ g[p].output = 0 /\ g[p].fail = NULL
    /\ \A p \in DOMAIN g :
            ToSet(g[p].next) = (IF p \in DOMAIN h THEN ToSet(h[p].next) ELSE {}) \cup
                               (IF NewLink(h, w, k, p) THEN {w[Len(p) + 1]} ELSE {})
    /\ OneLinkPerLetter(g)

\* trie_add_word does just that.
LEMMA GrowShape ==
    ASSUME NEW h, Heap(h), Tree(h), NEW w \in Seq(Letters), NEW k \in 0..Len(w)
    PROVE  Grown(h, w, k, Grow(h, w, k))
<1> DEFINE g == Grow(h, w, k)
           path == Path(w, k)
           blank(p) == IF p \in DOMAIN h THEN h[p] ELSE trienode_new
           linked(p) == NewLink(h, w, k, p)
<1>1. g = [p \in DOMAIN h \cup path |->
            IF linked(p) THEN [blank(p) EXCEPT !.next = Append(@, w[Len(p) + 1])]
                         ELSE blank(p)]
    BY DEF Grow, Path, NewLink
<1>2. Len(w) \in Nat /\ k \in 0..Len(w)
    BY LenProperties
<1>3. \A i \in 0..k : At(w, i) \in Seq(Letters) /\ Len(At(w, i)) = i
    BY <1>2, AtType
<1>4. DOMAIN h \cup path \subseteq Seq(Letters)
    BY <1>3 DEF Heap, Path
<1>5. trienode_new \in TrieNode /\ ToSet(trienode_new.next) = {} /\ IsInjective(trienode_new.next)
  <2>1. <<>> \in Seq(Letters) /\ DOMAIN <<>> = {}
    BY EmptySeq, LenProperties
  <2>2. trienode_new.next = <<>>
    BY DEF trienode_new
  <2>3. trienode_new \in TrieNode
    BY <2>1 DEF trienode_new, TrieNode, Pointer
  <2> QED
    BY <2>1, <2>2, <2>3 DEF ToSet, IsInjective
<1>6. \A p \in DOMAIN h \cup path : blank(p) \in TrieNode /\ blank(p).next \in Seq(Letters)
    BY <1>5 DEF Heap, TrieNode
<1>7. ASSUME NEW p \in DOMAIN h \cup path, linked(p)
      PROVE  /\ w[Len(p) + 1] \in Letters
             /\ w[Len(p) + 1] \notin ToSet(blank(p).next)
  <2>1. Len(p) \in Nat /\ Len(p) \in 0..(Len(w) - 1) /\ Len(p) + 1 \in 1..Len(w)
    BY <1>2, <1>4, <1>7, LenProperties DEF NewLink
  <2>2. w[Len(p) + 1] \in Letters
    BY <2>1, ElementOfSeq
  <2>3. Append(p, w[Len(p) + 1]) = At(w, Len(p) + 1)
    BY <1>7, <2>1, AppendAt DEF NewLink
  <2>4. Append(p, w[Len(p) + 1]) \notin DOMAIN h
    BY <1>7, <2>3 DEF NewLink
  <2>5. p \in DOMAIN h => w[Len(p) + 1] \notin ToSet(h[p].next)
    BY <2>4 DEF Tree, LinksLive
  <2> QED
    BY <1>5, <2>2, <2>5
<1> HIDE DEF linked, blank
<1>8. ASSUME NEW p \in DOMAIN h \cup path
      PROVE  /\ g[p] \in TrieNode
             /\ g[p].eow = blank(p).eow /\ g[p].output = blank(p).output
             /\ g[p].fail = blank(p).fail
             /\ ToSet(g[p].next) = ToSet(blank(p).next) \cup
                                        (IF linked(p) THEN {w[Len(p) + 1]} ELSE {})
             /\ IsInjective(blank(p).next) => IsInjective(g[p].next)
  <2> DEFINE l == w[Len(p) + 1]
             s == blank(p).next
  <2>1. CASE linked(p)
    <3>1. l \in Letters /\ s \in Seq(Letters) /\ l \notin ToSet(s)
      BY <1>6, <1>7, <2>1
    <3>2. /\ Append(s, l) \in Seq(Letters) /\ ToSet(Append(s, l)) = ToSet(s) \cup {l}
          /\ IsInjective(s) => IsInjective(Append(s, l))
      BY <3>1, AppendNext
    <3>3. g[p] = [blank(p) EXCEPT !.next = Append(s, l)]
      BY <1>1, <2>1
    <3>4. blank(p) \in TrieNode
      BY <1>6
    <3>5. /\ g[p] \in TrieNode /\ g[p].next = Append(s, l)
          /\ g[p].eow = blank(p).eow /\ g[p].output = blank(p).output
          /\ g[p].fail = blank(p).fail
      <4> HIDE DEF l, s, g
      <4> QED
        BY <3>2, <3>3, <3>4 DEF TrieNode
    <3> HIDE DEF g
    <3> QED
      BY <2>1, <3>2, <3>5
  <2>2. CASE ~linked(p)
    BY <1>1, <1>6, <2>2
  <2> QED
    BY <2>1, <2>2
<1>9. DOMAIN g = DOMAIN h \cup path
    BY <1>1
<1> HIDE DEF g
<1>10. Heap(g)
  <2>1. g = [p \in DOMAIN g |-> g[p]]
    BY <1>1
  <2> QED
    BY <1>4, <1>8, <1>9, <2>1 DEF Heap
<1>11. \A p \in DOMAIN h :
          g[p].eow = h[p].eow /\ g[p].output = h[p].output /\ g[p].fail = h[p].fail
    BY <1>8 DEF blank
<1>12. \A p \in path \ DOMAIN h : ~g[p].eow /\ g[p].output = 0 /\ g[p].fail = NULL
  <2>1. ~trienode_new.eow /\ trienode_new.output = 0 /\ trienode_new.fail = NULL
    BY DEF trienode_new
  <2> HIDE DEF path
  <2> QED
    BY <1>8, <2>1 DEF blank
<1>13. \A p \in DOMAIN g :
          ToSet(g[p].next) = (IF p \in DOMAIN h THEN ToSet(h[p].next) ELSE {}) \cup
                             (IF NewLink(h, w, k, p) THEN {w[Len(p) + 1]} ELSE {})
  <2> TAKE p \in DOMAIN g
  <2>1. ToSet(blank(p).next) = IF p \in DOMAIN h THEN ToSet(h[p].next) ELSE {}
    BY <1>5 DEF blank
  <2>2. ToSet(g[p].next) = ToSet(blank(p).next) \cup (IF linked(p) THEN {w[Len(p) + 1]} ELSE {})
    BY <1>8, <1>9
  <2> QED
    BY <2>1, <2>2 DEF linked
<1>14. OneLinkPerLetter(g)
  <2>1. \A p \in DOMAIN g : IsInjective(blank(p).next)
    BY <1>5 DEF blank, Tree, OneLinkPerLetter
  <2> QED
    BY <1>8, <1>9, <2>1 DEF OneLinkPerLetter
<1> QED
    BY <1>9, <1>10, <1>11, <1>12, <1>13, <1>14 DEF g, Grown

\* trie_add_word, also when it stops half way, keeps the heap a tree, with w's path in it.
LEMMA GrowTree ==
    ASSUME NEW h, Heap(h), Tree(h), NEW w \in Seq(Letters), NEW k \in 0..Len(w)
    PROVE  Tree(Grow(h, w, k)) /\ At(w, k) \in DOMAIN Grow(h, w, k)
                               /\ <<>> \in DOMAIN Grow(h, w, k)
<1> DEFINE g == Grow(h, w, k)
<1>0. Grown(h, w, k, g)
    BY GrowShape
<1> HIDE DEF g
<1>1. /\ DOMAIN g = DOMAIN h \cup Path(w, k)
      /\ Heap(g)
      /\ \A p \in DOMAIN g :
            ToSet(g[p].next) =
                (IF p \in DOMAIN h THEN ToSet(h[p].next) ELSE {}) \cup
                (IF NewLink(h, w, k, p) THEN {w[Len(p) + 1]} ELSE {})
      /\ OneLinkPerLetter(g)
    BY <1>0 DEF Grown
<1>2. Len(w) \in Nat /\ k \in Nat /\ k <= Len(w)
    BY LenProperties
<1>3. \A i \in 0..k : /\ At(w, i) \in Seq(Letters) /\ Len(At(w, i)) = i
                      /\ \A j \in 1..i : At(w, i)[j] = w[j]
                      /\ \A j \in 0..i : At(At(w, i), j) = At(w, j)
    BY <1>2, AtType, AtAt
<1>4. LinksLive(g)
  <2> SUFFICES ASSUME NEW p \in DOMAIN g, NEW l \in ToSet(g[p].next)
               PROVE  Append(p, l) \in DOMAIN g
    BY DEF LinksLive
  <2>1. CASE p \in DOMAIN h /\ l \in ToSet(h[p].next)
    BY <1>1, <2>1 DEF Tree, LinksLive
  <2>2. CASE NewLink(h, w, k, p) /\ l = w[Len(p) + 1]
    <3>1. Len(p) \in Nat
      BY <1>1, LenProperties DEF Heap
    <3>2. Append(p, l) = At(w, Len(p) + 1)
      BY <1>2, <2>2, <3>1, AppendAt DEF NewLink
    <3>3. Len(p) + 1 \in 0..k
      BY <1>2, <2>2, <3>1 DEF NewLink
    <3> QED
      BY <1>1, <3>2, <3>3 DEF Path
  <2> QED
    BY <1>1, <2>1, <2>2
<1>5. PrefixClosed(g)
  <2> SUFFICES ASSUME NEW p \in DOMAIN g, NEW j \in 0..(Len(p) - 1)
               PROVE  At(p, j) \in DOMAIN g /\ p[j + 1] \in ToSet(g[At(p, j)].next)
    BY DEF PrefixClosed
  <2>1. CASE p \in DOMAIN h
    <3>1. At(p, j) \in DOMAIN h /\ p[j + 1] \in ToSet(h[At(p, j)].next)
      BY <2>1 DEF Tree, PrefixClosed
    <3> QED
      BY <1>1, <3>1
  <2>2. CASE p \notin DOMAIN h
    <3>1. PICK i \in 0..k : p = At(w, i)
      BY <1>1, <2>2 DEF Path
    <3>2. j \in 0..(i - 1) /\ j \in 0..k /\ j + 1 \in 0..k /\ j + 1 \in 1..i /\ j < k /\ j \in 0..i
      BY <1>2, <1>3, <3>1
    <3>3. At(p, j) = At(w, j) /\ p[j + 1] = w[j + 1]
      BY <1>3, <3>1, <3>2
    <3>4. At(w, j) \in DOMAIN g /\ Len(At(w, j)) = j
      BY <1>1, <1>3, <3>2 DEF Path
    <3>5. CASE At(w, j + 1) \notin DOMAIN h
      <4>1. NewLink(h, w, k, At(w, j))
        BY <3>2, <3>4, <3>5 DEF NewLink
      <4> QED
        BY <1>1, <3>3, <3>4, <4>1
    <3>6. CASE At(w, j + 1) \in DOMAIN h
      <4>1. /\ Len(At(w, j + 1)) = j + 1 /\ At(At(w, j + 1), j) = At(w, j)
            /\ At(w, j + 1)[j + 1] = w[j + 1]
        BY <1>3, <3>2
      <4>2. j \in 0..(Len(At(w, j + 1)) - 1)
        BY <3>2, <4>1
      <4>3. At(w, j) \in DOMAIN h /\ w[j + 1] \in ToSet(h[At(w, j)].next)
        BY <3>6, <4>1, <4>2 DEF Tree, PrefixClosed
      <4> QED
        BY <1>1, <3>3, <3>4, <4>3
    <3> QED
      BY <3>5, <3>6
  <2> QED
    BY <2>1, <2>2
<1>6. At(w, k) \in DOMAIN g /\ <<>> \in DOMAIN g
  <2>1. At(w, 0) = <<>> /\ 0 \in 0..k /\ k \in 0..k
    BY <1>2, AtAt
  <2> QED
    BY <1>1, <2>1 DEF Path
<1> QED
    BY <1>1, <1>4, <1>5, <1>6 DEF Tree, g

\* It allocates finitely many nodes.
LEMMA GrowFinite ==
    ASSUME NEW h, Heap(h), Tree(h), IsFiniteSet(DOMAIN h),
           NEW w \in Seq(Letters), NEW k \in 0..Len(w)
    PROVE  IsFiniteSet(DOMAIN Grow(h, w, k))
<1> DEFINE path == Path(w, k)
           f == [i \in 0..k |-> At(w, i)]
<1>1. Len(w) \in Nat /\ k \in Int
    BY LenProperties
<1>2. IsFiniteSet(0..k)
    BY <1>1, FS_Interval
<1>3. f \in Surjection(0..k, path)
    BY DEF Surjection, Path
<1>4. IsFiniteSet(path)
    BY <1>2, <1>3, FS_Surjection
<1>5. IsFiniteSet(DOMAIN h \cup path)
    BY <1>4, FS_Union
<1> QED
    BY <1>5, GrowShape DEF Grown

-----------------------------------------------------------------------------
(* Removing a word. *)

\* Below last_multiway the nodes on the way to a leaf have one child and end no word.
LEMMA TailShape ==
    ASSUME NEW h, Heap(h), Tree(h), NEW w \in DOMAIN h, w # <<>>, trienode_is_leaf(h, w)
    PROVE  LET cut == last_multiway_index(h, w)
           IN  /\ cut \in 0..(Len(w) - 1)
               /\ \A i \in (cut + 1)..(Len(w) - 1) :
                    /\ At(w, i) \in DOMAIN h
                    /\ ToSet(h[At(w, i)].next) = {w[i + 1]}
                    /\ ~h[At(w, i)].eow
<1> DEFINE T == {0} \cup {i \in 1..Len(w) : Multiway(h[At(w, i)])}
           cut == last_multiway_index(h, w)
<1>1. w \in Seq(Letters) /\ Len(w) \in Nat /\ Len(w) # 0
    BY EmptySeq, LenProperties DEF Heap
<1>2. cut = Max(T) /\ T \subseteq 0..Len(w) /\ T # {}
    BY <1>1 DEF last_multiway_index
<1>3. cut \in T /\ \A y \in T : cut >= y
  <2> HIDE DEF T, cut
  <2> QED
    BY <1>1, <1>2, MaxExists
<1>4. ~Multiway(h[At(w, Len(w))])
  <2>1. At(w, Len(w)) = w /\ h[w].next = <<>>
    BY <1>1, AtAt DEF trienode_is_leaf
  <2>2. Len(h[w].next) = 0
    BY <2>1, EmptySeq
  <2> QED
    BY <2>1, <2>2 DEF Multiway
<1>5. cut \in 0..(Len(w) - 1)
    BY <1>1, <1>3, <1>4
<1>6. ASSUME NEW i \in (cut + 1)..(Len(w) - 1)
      PROVE  /\ At(w, i) \in DOMAIN h
             /\ ToSet(h[At(w, i)].next) = {w[i + 1]}
             /\ ~h[At(w, i)].eow
  <2> DEFINE next == h[At(w, i)].next
  <2>1. i \in 0..(Len(w) - 1) /\ i \in 1..Len(w) /\ ~(cut >= i)
    BY <1>1, <1>5
  <2>2. At(w, i) \in DOMAIN h /\ w[i + 1] \in ToSet(next)
    BY <2>1 DEF Tree, PrefixClosed
  <2>3. ~Multiway(h[At(w, i)])
    BY <1>3, <2>1
  <2>4. next \in Seq(Letters) /\ Len(next) \in Nat /\ DOMAIN next = 1..Len(next)
        /\ h[At(w, i)].eow \in BOOLEAN
    BY <2>2, LenProperties DEF Heap, TrieNode
  <2>5. Len(next) = 1 /\ ~h[At(w, i)].eow
    <3>1. ~(Len(next) > 1) /\ ~(Len(next) = 1 /\ h[At(w, i)].eow)
      BY <2>3 DEF Multiway
    <3> HIDE DEF next
    <3>2. Len(next) # 0
      BY <2>2, <2>4 DEF ToSet
    <3> QED
      BY <2>4, <3>1, <3>2
  <2>6. ToSet(next) = {next[1]}
    BY <2>4, <2>5 DEF ToSet
  <2> QED
    BY <2>2, <2>5, <2>6
<1> QED
    BY <1>5, <1>6

\* A node that stays shares no more of its path with w than the part that stays.
LEMMA TailClosed ==
    ASSUME NEW h, Heap(h), Tree(h), NEW w \in DOMAIN h, w # <<>>, trienode_is_leaf(h, w),
           NEW p \in DOMAIN h \ FreedTail(h, w),
           NEW i \in (last_multiway_index(h, w) + 1)..Len(w), i <= Len(p)
    PROVE  At(p, i) # At(w, i)
<1> DEFINE cut == last_multiway_index(h, w)
           T == {j \in (cut + 1)..Len(w) : j <= Len(p) /\ At(p, j) = At(w, j)}
<1>1. /\ cut \in 0..(Len(w) - 1)
      /\ \A j \in (cut + 1)..(Len(w) - 1) : ToSet(h[At(w, j)].next) = {w[j + 1]}
    BY TailShape
<1>2. FreedTail(h, w) = {At(w, j) : j \in (cut + 1)..Len(w)}
    BY DEF FreedTail
<1>3. /\ w \in Seq(Letters) /\ Len(w) \in Nat /\ p \in Seq(Letters) /\ Len(p) \in Nat
    BY LenProperties DEF Heap
<1> HIDE DEF cut
<1> SUFFICES ASSUME At(p, i) = At(w, i) PROVE FALSE
    OBVIOUS
<1>4. T \subseteq 0..Len(w) /\ i \in T
    BY <1>1, <1>3 DEF cut
<1>5. PICK m \in T : \A j \in T : m >= j
  <2> HIDE DEF T
  <2> QED
    BY <1>3, <1>4, MaxExists
<1>6. m \in (cut + 1)..Len(w) /\ m \in 0..Len(p) /\ At(p, m) = At(w, m)
    BY <1>1, <1>3, <1>5
<1>7. m # Len(p)
  <2> SUFFICES ASSUME m = Len(p) PROVE FALSE
    OBVIOUS
  <2>1. p = At(w, m)
    BY <1>3, <1>6, AtAt
  <2> QED
    BY <1>2, <1>6, <2>1
<1>8. m \in 0..(Len(p) - 1) /\ p[m + 1] \in ToSet(h[At(w, m)].next)
  <2>1. m \in 0..(Len(p) - 1)
    BY <1>3, <1>6, <1>7
  <2> QED
    BY <1>6, <2>1 DEF Tree, PrefixClosed
<1>9. CASE m = Len(w)
  <2>1. At(w, m) = w
    BY <1>3, <1>9, AtAt
  <2>2. ToSet(h[w].next) = {}
    BY EmptySeq, LenProperties DEF trienode_is_leaf, ToSet
  <2> QED
    BY <1>8, <2>1, <2>2
<1>10. CASE m # Len(w)
  <2>1. m \in (cut + 1)..(Len(w) - 1) /\ m \in 0..(Len(w) - 1) /\ m + 1 \in (cut + 1)..Len(w)
        /\ m + 1 <= Len(p)
    BY <1>1, <1>3, <1>6, <1>8, <1>10
  <2>2. p[m + 1] = w[m + 1]
    BY <1>1, <1>8, <2>1
  <2>3. At(p, m + 1) = At(w, m + 1)
    BY <1>3, <1>6, <1>8, <2>1, <2>2, AppendAt
  <2>4. m + 1 \in T
    BY <2>1, <2>3
  <2>5. ~(m >= m + 1)
    BY <1>6
  <2> QED
    BY <1>5, <2>4, <2>5
<1> QED
    BY <1>9, <1>10

\* g is h without the word w, a leaf, and the nodes that only led to it.
Cut(h, w, g) ==
    LET cut == last_multiway_index(h, w)
        freed == FreedTail(h, w)
    IN  /\ DOMAIN g = DOMAIN h \ freed
        /\ Heap(g)
        /\ \A p \in DOMAIN g :
                /\ g[p].eow = h[p].eow /\ g[p].output = h[p].output
                /\ g[p].fail = Dangle(h[p].fail, freed)
                /\ ToSet(g[p].next) = ToSet(h[p].next) \
                                        (IF p = At(w, cut) THEN {w[cut + 1]} ELSE {})
        /\ OneLinkPerLetter(g)

\* trie_remove_word of a leaf does just that.
LEMMA UnlinkShape ==
    ASSUME NEW h, Heap(h), Tree(h), NEW w \in DOMAIN h, w # <<>>, trienode_is_leaf(h, w)
    PROVE  Cut(h, w, Unlink(h, w))
<1> DEFINE cut == last_multiway_index(h, w)
           freed == FreedTail(h, w)
           g == Unlink(h, w)
           next(p) == IF p = At(w, cut) THEN Unset(h[p].next, w[cut + 1]) ELSE h[p].next
<1>1. cut \in 0..(Len(w) - 1)
    BY TailShape
<1>2. w[cut + 1] \in ToSet(h[At(w, cut)].next)
    BY <1>1 DEF Tree, PrefixClosed
<1>3. g = [p \in DOMAIN h \ freed |->
            [h[p] EXCEPT !.next = next(p), !.fail = Dangle(h[p].fail, freed)]]
    BY DEF Unlink
<1>4. DOMAIN g = DOMAIN h \ freed
    BY <1>3
<1> HIDE DEF cut, freed
<1>5. ASSUME NEW p \in DOMAIN h
      PROVE  /\ next(p) \in Seq(Letters)
             /\ IsInjective(next(p))
             /\ ToSet(next(p)) = ToSet(h[p].next) \
                                    (IF p = At(w, cut) THEN {w[cut + 1]} ELSE {})
  <2>1. h[p].next \in Seq(Letters) /\ IsInjective(h[p].next)
    BY DEF Heap, TrieNode, Tree, OneLinkPerLetter
  <2>2. CASE p = At(w, cut)
    BY <1>2, <2>1, <2>2, UnsetProperties
  <2>3. CASE p # At(w, cut)
    BY <2>1, <2>3
  <2> QED
    BY <2>2, <2>3
<1> HIDE DEF next
<1>6. ASSUME NEW p \in DOMAIN g
      PROVE  /\ g[p] \in TrieNode
             /\ g[p].eow = h[p].eow /\ g[p].output = h[p].output
             /\ g[p].fail = Dangle(h[p].fail, freed)
             /\ g[p].next = next(p)
  <2>1. h[p] \in TrieNode /\ p \in DOMAIN h
    BY <1>4 DEF Heap
  <2>2. Dangle(h[p].fail, freed) \in Pointer
    BY <2>1 DEF Dangle, TrieNode, Pointer
  <2>3. g[p] = [h[p] EXCEPT !.next = next(p), !.fail = Dangle(h[p].fail, freed)]
    BY <1>3, <1>4
  <2> HIDE DEF g
  <2> QED
    BY <1>5, <2>1, <2>2, <2>3 DEF TrieNode
<1>7. Heap(g)
  <2>1. g = [p \in DOMAIN g |-> g[p]]
    BY <1>3
  <2> HIDE DEF g
  <2> QED
    BY <1>4, <1>6, <2>1 DEF Heap
<1> HIDE DEF g
<1>8. OneLinkPerLetter(g)
    BY <1>4, <1>5, <1>6 DEF OneLinkPerLetter
<1> QED
    BY <1>4, <1>5, <1>6, <1>7, <1>8 DEF Cut, g, cut, freed

\* trie_remove_word keeps the heap a tree, and takes away one key and nothing else.
LEMMA UnlinkTree ==
    ASSUME NEW h, Heap(h), Tree(h), NEW w \in Keys(h), w # <<>>
    PROVE  LET g == Unlink(h, w)
           IN  /\ Heap(g) /\ Tree(g)
               /\ DOMAIN g \subseteq DOMAIN h
               /\ <<>> \in DOMAIN g
               /\ Keys(g) = Keys(h) \ {w}
               /\ \A p \in Keys(g) : g[p].output = h[p].output
<1> DEFINE g == Unlink(h, w)
           cut == last_multiway_index(h, w)
           freed == FreedTail(h, w)
<1>1. w \in DOMAIN h /\ w \in Seq(Letters) /\ Len(w) \in Nat /\ Len(w) # 0 /\ h[w].eow
    BY EmptySeq, LenProperties DEF Heap, Keys
<1>2. <<>> \in DOMAIN h
  <2>1. 0 \in 0..(Len(w) - 1) /\ At(w, 0) = <<>>
    BY <1>1, AtAt
  <2> QED
    BY <1>1, <2>1 DEF Tree, PrefixClosed
<1>3. CASE ~trienode_is_leaf(h, w)
  <2>1. g = [h EXCEPT ![w].eow = FALSE]
    BY <1>3 DEF Unlink
  <2> HIDE DEF g
  <2>2. /\ DOMAIN g = DOMAIN h
        /\ \A p \in DOMAIN h : /\ g[p].next = h[p].next /\ g[p].output = h[p].output
                               /\ g[p].eow = (h[p].eow /\ p # w)
                               /\ g[p] \in TrieNode
    BY <1>1, <2>1 DEF Heap, TrieNode
  <2>3. Heap(g)
    BY <2>1, <2>2 DEF Heap
  <2>4. Tree(g)
    BY <2>2 DEF Tree, PrefixClosed, LinksLive, OneLinkPerLetter
  <2>5. Keys(g) = Keys(h) \ {w}
    BY <2>2 DEF Keys
  <2>6. \A p \in Keys(g) : g[p].output = h[p].output
    BY <2>2 DEF Keys
  <2> QED
    BY <1>2, <2>2, <2>3, <2>4, <2>5, <2>6 DEF g
<1>4. CASE trienode_is_leaf(h, w)
  <2>1. Cut(h, w, g)
    BY <1>1, <1>4, UnlinkShape
  <2>2. /\ cut \in 0..(Len(w) - 1)
        /\ \A i \in (cut + 1)..(Len(w) - 1) : ~h[At(w, i)].eow
    BY <1>1, <1>4, TailShape
  <2>3. ASSUME NEW p \in DOMAIN h \ freed, NEW i \in (cut + 1)..Len(w), i <= Len(p)
        PROVE  At(p, i) # At(w, i)
    BY <1>1, <1>4, <2>3, TailClosed
  <2> HIDE DEF g
  <2>4. /\ DOMAIN g = DOMAIN h \ freed
        /\ Heap(g) /\ OneLinkPerLetter(g)
        /\ \A p \in DOMAIN g :
              /\ g[p].eow = h[p].eow /\ g[p].output = h[p].output
              /\ ToSet(g[p].next) = ToSet(h[p].next) \
                                      (IF p = At(w, cut) THEN {w[cut + 1]} ELSE {})
    BY <2>1 DEF Cut
  <2>5. freed = {At(w, i) : i \in (cut + 1)..Len(w)}
    BY DEF FreedTail
  <2> HIDE DEF cut, freed
  <2>6. \A i \in 0..Len(w) : At(w, i) \in Seq(Letters) /\ Len(At(w, i)) = i
    BY <1>1, AtType
  <2>7. ASSUME NEW p \in DOMAIN g, NEW j \in 0..(Len(p) - 1)
        PROVE  At(p, j) \in DOMAIN g /\ p[j + 1] \in ToSet(g[At(p, j)].next)
    <3>1. p \in DOMAIN h \ freed /\ p \in Seq(Letters) /\ Len(p) \in Nat
      BY <2>4, LenProperties DEF Heap
    <3>2. /\ At(p, j) \in DOMAIN h /\ p[j + 1] \in ToSet(h[At(p, j)].next)
          /\ Len(At(p, j)) = j
      <4>1. j \in 0..Len(p)
        BY <3>1
      <4>2. Len(At(p, j)) = j
        BY <3>1, <4>1, AtType
      <4> QED
        BY <3>1, <4>2 DEF Tree, PrefixClosed
    <3>3. At(p, j) \notin freed
      <4> SUFFICES ASSUME NEW i \in (cut + 1)..Len(w), At(p, j) = At(w, i) PROVE FALSE
        BY <2>5
      <4>1. i \in 0..Len(w)
        BY <1>1, <2>2
      <4>2. i = j
        BY <2>6, <3>2, <4>1
      <4> QED
        BY <2>3, <3>1, <4>2
    <3>4. ASSUME At(p, j) = At(w, cut) PROVE p[j + 1] # w[cut + 1]
      <4>1. cut \in 0..Len(w) /\ cut + 1 \in (cut + 1)..Len(w)
        BY <1>1, <2>2
      <4>2. j = cut
        BY <2>6, <3>2, <3>4, <4>1
      <4>3. At(p, j + 1) # At(w, cut + 1)
        BY <2>3, <3>1, <4>1, <4>2
      <4> QED
        BY <1>1, <2>2, <3>1, <3>4, <4>3, AppendAt
    <3> QED
      BY <2>4, <3>2, <3>3, <3>4
  <2>8. PrefixClosed(g)
    BY <2>7 DEF PrefixClosed
  <2>9. ASSUME NEW p \in DOMAIN g, NEW l \in ToSet(g[p].next)
        PROVE  Append(p, l) \in DOMAIN g
    <3>1. /\ p \in DOMAIN h \ freed /\ l \in ToSet(h[p].next)
          /\ p = At(w, cut) => l # w[cut + 1]
      BY <2>4
    <3>2. Append(p, l) \in DOMAIN h
      BY <3>1 DEF Tree, LinksLive
    <3>3. p \in Seq(Letters) /\ l \in Letters
      <4>1. h[p].next \in Seq(Letters)
        BY <3>1 DEF Heap, TrieNode
      <4> QED
        BY <3>1, <4>1, LenProperties DEF Heap, ToSet
    <3>4. Append(p, l) \notin freed
      <4> SUFFICES ASSUME NEW i \in (cut + 1)..Len(w), Append(p, l) = At(w, i) PROVE FALSE
        BY <2>5
      <4>1. i \in 1..Len(w)
        BY <1>1, <2>2
      <4>2. p = At(w, i - 1) /\ l = w[i]
        BY <1>1, <3>3, <4>1, AppendOnPath
      <4>3. i - 1 = cut \/ i - 1 \in (cut + 1)..Len(w)
        BY <1>1, <2>2
      <4>4. CASE i - 1 = cut
        <5>1. i = cut + 1
          BY <2>2, <4>4
        <5> QED
          BY <3>1, <4>2, <4>4, <5>1
      <4>5. CASE i - 1 \in (cut + 1)..Len(w)
        BY <2>5, <3>1, <4>2, <4>5
      <4> QED
        BY <4>3, <4>4, <4>5
    <3> QED
      BY <2>4, <3>2, <3>4
  <2>10. Tree(g)
    BY <2>4, <2>8, <2>9 DEF Tree, LinksLive
  <2>11. w \in freed /\ \A p \in freed : p = w \/ ~h[p].eow
    <3>1. At(w, Len(w)) = w /\ Len(w) \in (cut + 1)..Len(w)
      BY <1>1, <2>2, AtAt
    <3>2. \A i \in (cut + 1)..Len(w) : i = Len(w) \/ i \in (cut + 1)..(Len(w) - 1)
      BY <1>1, <2>2
    <3> QED
      BY <2>2, <2>5, <3>1, <3>2
  <2>12. Keys(g) = Keys(h) \ {w}
    BY <2>4, <2>11 DEF Keys
  <2>13. <<>> \notin freed
    <3> SUFFICES ASSUME NEW i \in (cut + 1)..Len(w), <<>> = At(w, i) PROVE FALSE
      BY <2>5
    <3>1. i \in 0..Len(w) /\ i # 0
      BY <1>1, <2>2
    <3> QED
      BY <2>6, <3>1, EmptySeq
  <2> QED
    BY <1>2, <2>4, <2>10, <2>12, <2>13 DEF Keys, g
<1> QED
    BY <1>3, <1>4

-----------------------------------------------------------------------------
(* Walking links. *)

\* Walking the links over a word gets as deep as its prefixes are nodes.
LEMMA ReachesNode ==
    ASSUME NEW h, Heap(h), Tree(h), Root \in DOMAIN h,
           NEW w \in Seq(Letters), NEW k \in 0..Len(w)
    PROVE  Reaches(h, w, k) <=> At(w, k) \in DOMAIN h
<1>1. Len(w) \in Nat /\ k \in Int
    BY LenProperties
<1>2. ASSUME Reaches(h, w, k), k # 0
      PROVE  At(w, k) \in DOMAIN h
  <2> DEFINE p == At(w, k - 1)
  <2>1. k - 1 \in 0..(k - 1) /\ k - 1 + 1 = k /\ k - 1 \in 0..(Len(w) - 1)
    BY <1>1, <1>2
  <2>2. p \in DOMAIN h /\ w[k] \in ToSet(h[p].next)
    BY <1>2, <2>1 DEF Reaches, trienode_get_next
  <2>3. Append(p, w[k]) = At(w, k)
    BY <2>1, AppendAt
  <2> QED
    BY <2>2, <2>3 DEF Tree, LinksLive
<1>3. k = 0 => At(w, k) \in DOMAIN h
    BY <1>1, AtAt DEF Root
<1>4. ASSUME At(w, k) \in DOMAIN h
      PROVE  Reaches(h, w, k)
  <2> SUFFICES ASSUME NEW j \in 0..(k - 1)
               PROVE  /\ At(w, j) \in DOMAIN h
                      /\ trienode_get_next(h, At(w, j), w[j + 1]) # NULL
    BY DEF Reaches
  <2> DEFINE p == At(w, k)
  <2>1. /\ Len(p) = k /\ \A m \in 1..k : p[m] = w[m]
        /\ \A m \in 0..k : At(p, m) = At(w, m)
    BY AtType, AtAt
  <2>2. j \in 0..(Len(p) - 1) /\ j \in 0..k /\ j + 1 \in 1..k /\ j \in 0..(Len(w) - 1)
    BY <1>1, <2>1
  <2>3. At(p, j) \in DOMAIN h /\ p[j + 1] \in ToSet(h[At(p, j)].next)
    BY <1>4, <2>2 DEF Tree, PrefixClosed
  <2>4. At(w, j) \in DOMAIN h /\ w[j + 1] \in ToSet(h[At(w, j)].next)
    BY <2>1, <2>2, <2>3
  <2>5. Append(At(w, j), w[j + 1]) # NULL
    <3>1. At(w, j) \in Seq(Letters) /\ w[j + 1] \in Letters
      BY <1>1, <2>2, AtType, ElementOfSeq
    <3>2. Append(At(w, j), w[j + 1]) \in Seq(Letters)
      BY <3>1, AppendProperties
    <3> QED
      BY <3>2, PointerAssumption
  <2> QED
    BY <2>4, <2>5 DEF trienode_get_next
<1> QED
    BY <1>2, <1>3, <1>4

\* trie_find finds exactly the nodes.
LEMMA FindsNode ==
    ASSUME NEW h, Heap(h), Tree(h), Root \in DOMAIN h, NEW w \in Seq(Letters)
    PROVE  trie_find(h, w) # NULL <=> w \in DOMAIN h
<1>1. Len(w) \in Nat /\ Len(w) \in 0..Len(w) /\ At(w, Len(w)) = w /\ w # NULL
    BY LenProperties, AtAt, PointerAssumption
<1>2. Reaches(h, w, Len(w)) <=> w \in DOMAIN h
    BY <1>1, ReachesNode
<1> QED
    BY <1>1, <1>2 DEF trie_find

-----------------------------------------------------------------------------
(* Suffixes, and parents. *)

\* The last k letters of a word are a word of length k.
LEMMA SuffixType ==
    ASSUME NEW S, NEW p \in Seq(S), NEW k \in 0..Len(p)
    PROVE  /\ Suffix(p, k) \in Seq(S) /\ Len(Suffix(p, k)) = k
           /\ \A j \in 1..k : Suffix(p, k)[j] = p[Len(p) - k + j]
<1> DEFINE m == Len(p) - k + 1
<1>1. Len(p) \in Nat /\ k \in Int /\ m \in Int
    BY LenProperties
<1>2. \A j \in m..Len(p) : p[j] \in S
    BY <1>1, ElementOfSeq
<1>3. /\ SubSeq(p, m, Len(p)) \in Seq(S)
      /\ Len(SubSeq(p, m, Len(p))) = IF m <= Len(p) THEN Len(p) - m + 1 ELSE 0
      /\ \A j \in 1..(Len(p) - m + 1) : SubSeq(p, m, Len(p))[j] = p[m + j - 1]
  <2> HIDE DEF m
  <2> QED
    BY <1>1, <1>2, SubSeqProperties
<1>4. Suffix(p, k) = SubSeq(p, m, Len(p))
    BY DEF Suffix
<1>5. Len(p) - m + 1 = k /\ (~(m <= Len(p)) => k = 0)
    BY <1>1
<1>6. \A j \in 1..k : m + j - 1 = Len(p) - k + j
    BY <1>1
<1> HIDE DEF m
<1> QED
    BY <1>3, <1>4, <1>5, <1>6

\* All the letters of a word are the word.
LEMMA SuffixWhole == ASSUME NEW S, NEW p \in Seq(S) PROVE Suffix(p, Len(p)) = p
<1>1. Len(p) \in Nat /\ Len(p) \in 0..Len(p)
    BY LenProperties
<1>2. /\ Suffix(p, Len(p)) \in Seq(S) /\ Len(Suffix(p, Len(p))) = Len(p)
      /\ \A j \in 1..Len(p) : Suffix(p, Len(p))[j] = p[Len(p) - Len(p) + j]
    BY <1>1, SuffixType
<1>3. \A j \in 1..Len(p) : Len(p) - Len(p) + j = j
    BY <1>1
<1> QED
    BY <1>1, <1>2, <1>3, SeqEqual

\* The empty suffix; a suffix of a suffix is a suffix.
LEMMA SuffixSuffix ==
    ASSUME NEW S, NEW p \in Seq(S), NEW k \in 0..Len(p)
    PROVE  /\ Suffix(p, 0) = <<>>
           /\ \A j \in 0..k : Suffix(Suffix(p, k), j) = Suffix(p, j)
<1> DEFINE q == Suffix(p, k)
<1>1. Len(p) \in Nat
    BY LenProperties
<1>2. q \in Seq(S) /\ Len(q) = k /\ \A m \in 1..k : q[m] = p[Len(p) - k + m]
    BY SuffixType
<1> HIDE DEF q
<1>3. Suffix(p, 0) = <<>>
  <2>1. Suffix(p, 0) \in Seq(S) /\ Len(Suffix(p, 0)) = 0
    BY <1>1, SuffixType
  <2> QED
    BY <2>1, EmptySeq
<1>4. ASSUME NEW j \in 0..k PROVE Suffix(q, j) = Suffix(p, j)
  <2>1. j \in 0..Len(q) /\ j \in 0..Len(p)
    BY <1>1, <1>2
  <2>2. /\ Suffix(q, j) \in Seq(S) /\ Len(Suffix(q, j)) = j
        /\ \A m \in 1..j : Suffix(q, j)[m] = q[k - j + m]
    <3>1. q \in Seq(S) /\ j \in 0..Len(q) /\ Len(q) = k
      BY <1>2, <2>1
    <3>2. /\ Suffix(q, j) \in Seq(S) /\ Len(Suffix(q, j)) = j
          /\ \A m \in 1..j : Suffix(q, j)[m] = q[Len(q) - j + m]
      BY ONLY <3>1, SuffixType
    <3> QED
      BY <3>1, <3>2
  <2>3. /\ Suffix(p, j) \in Seq(S) /\ Len(Suffix(p, j)) = j
        /\ \A m \in 1..j : Suffix(p, j)[m] = p[Len(p) - j + m]
    BY <2>1, SuffixType
  <2>4. ASSUME NEW m \in 1..j PROVE Suffix(q, j)[m] = Suffix(p, j)[m]
    <3>1. k - j + m \in 1..k /\ Len(p) - k + (k - j + m) = Len(p) - j + m
      BY <1>1
    <3> QED
      BY <1>2, <2>2, <2>3, <3>1
  <2> QED
    BY <2>2, <2>3, <2>4, SeqEqual
<1> QED
    BY <1>3, <1>4 DEF q

\* A suffix and one more letter is a suffix of the word and that letter.
LEMMA SuffixAppend ==
    ASSUME NEW S, NEW p \in Seq(S), NEW l \in S, NEW k \in 0..Len(p)
    PROVE  Suffix(Append(p, l), k + 1) = Append(Suffix(p, k), l)
<1> DEFINE q == Append(p, l)
           s == Suffix(p, k)
           t == Append(s, l)
<1>1. Len(p) \in Nat
    BY LenProperties
<1>2. /\ q \in Seq(S) /\ Len(q) = Len(p) + 1
      /\ \A m \in 1..Len(p) : q[m] = p[m]
      /\ q[Len(p) + 1] = l
    BY AppendProperties
<1>3. s \in Seq(S) /\ Len(s) = k /\ \A m \in 1..k : s[m] = p[Len(p) - k + m]
    BY SuffixType
<1> HIDE DEF q, s
<1>4. /\ t \in Seq(S) /\ Len(t) = k + 1
      /\ \A m \in 1..k : t[m] = s[m]
      /\ t[k + 1] = l
    BY <1>3, AppendProperties
<1> HIDE DEF t
<1>5. k + 1 \in 0..Len(q)
    BY <1>1, <1>2
<1>6. /\ Suffix(q, k + 1) \in Seq(S) /\ Len(Suffix(q, k + 1)) = k + 1
      /\ \A m \in 1..(k + 1) : Suffix(q, k + 1)[m] = q[Len(q) - (k + 1) + m]
    BY <1>2, <1>5, SuffixType
<1>7. ASSUME NEW m \in 1..(k + 1) PROVE Suffix(q, k + 1)[m] = t[m]
  <2>1. Len(q) - (k + 1) + m = Len(p) - k + m
    BY <1>1, <1>2
  <2>2. CASE m = k + 1
    <3>1. Len(p) - k + m = Len(p) + 1
      BY <1>1, <2>2
    <3> QED
      BY <1>2, <1>4, <1>6, <2>1, <2>2, <3>1
  <2>3. CASE m # k + 1
    <3>1. m \in 1..k /\ Len(p) - k + m \in 1..Len(p)
      BY <1>1, <2>3
    <3>2. t[m] = p[Len(p) - k + m]
      BY <1>3, <1>4, <3>1
    <3>3. q[Len(p) - k + m] = p[Len(p) - k + m]
      BY <1>2, <3>1
    <3>4. Suffix(q, k + 1)[m] = q[Len(p) - k + m]
      BY <1>6, <2>1
    <3> QED
      BY <3>2, <3>3, <3>4
  <2> QED
    BY <2>2, <2>3
<1>8. Suffix(q, k + 1) = t
    BY <1>4, <1>6, <1>7, SeqEqual
<1> QED
    BY <1>8 DEF q, s, t

\* The way to a child leads over its parent.
LEMMA AppendAbove ==
    ASSUME NEW S, NEW p \in Seq(S), NEW l \in S
    PROVE  LET q == Append(p, l)
           IN  /\ q \in Seq(S) /\ q # <<>> /\ Len(q) = Len(p) + 1 /\ q[Len(p) + 1] = l
               /\ At(q, Len(p)) = p
<1> DEFINE q == Append(p, l)
           k == Len(q)
<1>1. q \in Seq(S) /\ q # <<>> /\ Len(q) = Len(p) + 1 /\ q[Len(p) + 1] = l
    BY AppendProperties
<1>2. Len(p) \in Nat
    BY LenProperties
<1>3. k \in 1..Len(q) /\ 0 \in 0..Len(q) /\ k - 1 = Len(p)
    BY <1>1, <1>2
<1>4. Append(p, l) = At(q, k)
  <2>1. q = Append(p, l)
    OBVIOUS
  <2> HIDE DEF q
  <2> QED
    BY <1>1, <1>3, <2>1, AtAt
<1>5. p = At(q, k - 1)
  <2> HIDE DEF q, k
  <2> QED
    BY <1>1, <1>3, <1>4, AppendOnPath
<1>6. At(q, Len(p)) = p
    BY <1>3, <1>5
<1> QED
    BY <1>1, <1>6

\* A node that is a child hangs from its parent.
LEMMA HangsFromParent ==
    ASSUME NEW S, NEW h, Heap(h), Tree(h), NEW p \in Seq(S), NEW l \in S,
           Append(p, l) \in DOMAIN h
    PROVE  p \in DOMAIN h /\ l \in ToSet(h[p].next)
<1> DEFINE q == Append(p, l)
<1>1. q \in Seq(S) /\ Len(q) = Len(p) + 1 /\ q[Len(p) + 1] = l /\ At(q, Len(p)) = p
    BY AppendAbove
<1> HIDE DEF q
<1>2. Len(p) \in 0..(Len(q) - 1)
    BY <1>1, LenProperties
<1>3. q \in DOMAIN h
    BY DEF q
<1> QED
    BY <1>1, <1>2, <1>3 DEF Tree, PrefixClosed

-----------------------------------------------------------------------------
(* Fail links. *)

\* f is the node that the fail link of p must point to.
FailNode(h, p, f) ==
    \E k \in 0..(Len(p) - 1) :
        /\ f = Suffix(p, k) /\ f \in DOMAIN h
        /\ \A m \in (k + 1)..(Len(p) - 1) : Suffix(p, m) \notin DOMAIN h

\* It is the longest proper suffix of p that is a node.
LEMMA FailNodeLongest ==
    ASSUME NEW h, NEW p \in Seq(Letters), NEW f, FailNode(h, p, f)
    PROVE  f = LongestSuffix(h, p)
<1> DEFINE T == {m \in 0..(Len(p) - 1) : Suffix(p, m) \in DOMAIN h}
<1>1. PICK k \in 0..(Len(p) - 1) :
            /\ f = Suffix(p, k) /\ f \in DOMAIN h
            /\ \A m \in (k + 1)..(Len(p) - 1) : Suffix(p, m) \notin DOMAIN h
    BY DEF FailNode
<1>2. Len(p) \in Nat
    BY LenProperties
<1>3. T \subseteq 0..Len(p) /\ k \in T
    BY <1>1, <1>2
<1>4. Max(T) \in T /\ Max(T) >= k
  <2> HIDE DEF T
  <2> QED
    BY <1>2, <1>3, MaxExists
<1> DEFINE n == Max(T)
<1>5. n \in 0..(Len(p) - 1) /\ Suffix(p, n) \in DOMAIN h
    BY <1>4
<1>6. n >= k
    BY <1>4
<1>7. LongestSuffix(h, p) = Suffix(p, n)
    BY DEF LongestSuffix
<1> HIDE DEF n
<1>8. ~(n \in (k + 1)..(Len(p) - 1))
    BY <1>1, <1>5
<1>9. n = k
    BY <1>2, <1>5, <1>6, <1>8
<1> QED
    BY <1>1, <1>7, <1>9

\* Of a node, its child, and the suffixes of both: those of the child that are nodes
\* continue one of the node.
LEMMA SuffixHangs ==
    ASSUME NEW S, NEW h, Heap(h), Tree(h), NEW p \in Seq(S), NEW l \in S,
           NEW k \in 0..Len(p), Suffix(Append(p, l), k + 1) \in DOMAIN h
    PROVE  Suffix(p, k) \in DOMAIN h /\ l \in ToSet(h[Suffix(p, k)].next)
<1>1. Suffix(p, k) \in Seq(S)
    BY SuffixType
<1>2. Append(Suffix(p, k), l) \in DOMAIN h
    BY SuffixAppend
<1> QED
    BY <1>1, <1>2, HangsFromParent

\* The fail links are those of the textbook (FailsOK of module Automaton).
FailLinks(h) == \A p \in DOMAIN h : h[p].fail = IF p = Root THEN NULL ELSE LongestSuffix(h, p)

\* A heap that make_automaton has linked.
IsAutomaton(h) == Heap(h) /\ Tree(h) /\ Root \in DOMAIN h /\ FailLinks(h)

-----------------------------------------------------------------------------
(* The search step. *)

\* A longest proper suffix exists, since the root is one.
LEMMA LongestFailNode ==
    ASSUME NEW h, IsAutomaton(h), NEW p \in DOMAIN h, p # Root
    PROVE  FailNode(h, p, h[p].fail)
<1> DEFINE T == {m \in 0..(Len(p) - 1) : Suffix(p, m) \in DOMAIN h}
           n == Max(T)
<1>1. p \in Seq(Letters) /\ Len(p) \in Nat /\ Len(p) # 0
    BY LenProperties, EmptySeq DEF IsAutomaton, Heap, Root
<1>2. 0 \in T /\ T \subseteq 0..Len(p)
  <2>1. 0 \in 0..Len(p) /\ 0 \in 0..(Len(p) - 1)
    BY <1>1
  <2>2. Suffix(p, 0) = Root
    BY <1>1, <2>1, SuffixSuffix DEF Root
  <2> QED
    BY <1>1, <2>1, <2>2 DEF IsAutomaton
<1>3. n \in T /\ \A y \in T : n >= y
  <2> HIDE DEF T
  <2> QED
    BY <1>1, <1>2, MaxExists
<1>4. h[p].fail = Suffix(p, n)
    BY DEF IsAutomaton, FailLinks, LongestSuffix
<1> HIDE DEF n
<1>5. n \in 0..(Len(p) - 1) /\ Suffix(p, n) \in DOMAIN h
    BY <1>3
<1>6. \A m \in (n + 1)..(Len(p) - 1) : Suffix(p, m) \notin DOMAIN h
  <2> SUFFICES ASSUME NEW m \in (n + 1)..(Len(p) - 1), Suffix(p, m) \in DOMAIN h PROVE FALSE
    OBVIOUS
  <2>1. m \in T /\ ~(n >= m)
    BY <1>5
  <2> QED
    BY <1>3, <2>1
<1> QED
    BY <1>4, <1>5, <1>6 DEF FailNode

-----------------------------------------------------------------------------
(* The chain of fail links. *)

\* One link.
Link(h, ptr) == IF ptr \in DOMAIN h THEN h[ptr].fail ELSE ptr

\* f is the chain of fail links from p, n links long.
LinkChain(h, p, f, n) ==
    /\ f = [k \in 0..n |-> f[k]] /\ f[0] = p
    /\ \A k \in 1..n : f[k] = Link(h, f[k - 1])

\* There is a chain of every length.
LEMMA LinkChainExists ==
    ASSUME NEW h, NEW p, NEW n \in Nat
    PROVE  \E f : LinkChain(h, p, f, n)
<1> DEFINE T == {m \in Nat : ~ \E f : LinkChain(h, p, f, m)}
<1> SUFFICES ASSUME T # {} PROVE FALSE
    OBVIOUS
<1> DEFINE m == Min(T)
<1>1. m \in T /\ \A y \in T : m <= y
  <2>1. T \subseteq Nat
    OBVIOUS
  <2> HIDE DEF T
  <2> QED
    BY <2>1, MinExists
<1> HIDE DEF m
<1>2. m \in Nat /\ ~ \E f : LinkChain(h, p, f, m)
    BY <1>1
<1>3. CASE m = 0
  <2> DEFINE f == [k \in 0..0 |-> p]
  <2>1. f = [k \in 0..0 |-> f[k]] /\ f[0] = p /\ 1..0 = {}
    OBVIOUS
  <2>2. LinkChain(h, p, f, 0)
    BY <2>1 DEF LinkChain
  <2> QED
    BY <1>2, <1>3, <2>2
<1>4. CASE m # 0
  <2>1. m - 1 \in Nat /\ ~(m <= m - 1)
    BY <1>2, <1>4
  <2>2. m - 1 \notin T
    BY <1>1, <2>1
  <2>3. PICK f : LinkChain(h, p, f, m - 1)
    BY <2>1, <2>2
  <2> DEFINE g == [k \in 0..m |-> IF k = m THEN Link(h, f[m - 1]) ELSE f[k]]
  <2>4. g = [k \in 0..m |-> g[k]] /\ g[0] = p
    BY <1>2, <1>4, <2>3 DEF LinkChain
  <2>5. ASSUME NEW k \in 1..m PROVE g[k] = Link(h, g[k - 1])
    <3>1. k \in 0..m /\ k - 1 \in 0..m /\ k - 1 # m
      BY <1>2
    <3>2. g[k - 1] = f[k - 1]
      BY <3>1
    <3>3. CASE k = m
      BY <3>1, <3>2, <3>3
    <3>4. CASE k # m
      <4>1. k \in 1..(m - 1)
        BY <1>2, <3>4
      <4>2. g[k] = f[k]
        BY <3>1, <3>4
      <4> QED
        BY <2>3, <3>2, <4>1, <4>2 DEF LinkChain
    <3> QED
      BY <3>3, <3>4
  <2> HIDE DEF g
  <2>6. LinkChain(h, p, g, m)
    BY <2>4, <2>5 DEF LinkChain
  <2> QED
    BY <1>2, <2>6
<1> QED
    BY <1>3, <1>4

\* Back is one.
LEMMA BackChain ==
    ASSUME NEW h, NEW p, Len(p) \in Nat
    PROVE  LinkChain(h, p, Back(h, p), Len(p) + 1)
<1> DEFINE n == Len(p) + 1
           B(f) == [k \in 0..n |->
                        IF k = 0 THEN p
                        ELSE IF f[k - 1] \in DOMAIN h THEN h[f[k - 1]].fail
                        ELSE f[k - 1]]
<1>1. n \in Nat
    OBVIOUS
<1>2. PICK f : LinkChain(h, p, f, n)
    BY <1>1, LinkChainExists
<1>3. f = B(f)
  <2>1. f = [k \in 0..n |-> f[k]]
    BY <1>2 DEF LinkChain
  <2>2. \A k \in 0..n : f[k] = B(f)[k]
    <3> TAKE k \in 0..n
    <3>1. CASE k = 0
      BY <1>2, <3>1 DEF LinkChain
    <3>2. CASE k # 0
      <4>1. k \in 1..n
        BY <1>1, <3>2
      <4>2. f[k] = Link(h, f[k - 1])
        BY <1>2, <4>1 DEF LinkChain
      <4> QED
        BY <3>2, <4>2 DEF Link
    <3> QED
      BY <3>1, <3>2
  <2> QED
    BY <2>1, <2>2
<1>4. Back(h, p) = CHOOSE g : g = B(g)
    BY DEF Back
<1>5. Back(h, p) = B(Back(h, p))
  <2> HIDE DEF B
  <2> QED
    BY <1>3, <1>4
<1> DEFINE b == Back(h, p)
<1> HIDE DEF b
<1>6. b = B(b)
    BY <1>5 DEF b
<1>7. b = [k \in 0..n |-> b[k]] /\ b[0] = p
    BY <1>1, <1>6
<1>8. ASSUME NEW k \in 1..n PROVE b[k] = Link(h, b[k - 1])
  <2>1. k \in 0..n /\ k # 0
    BY <1>1
  <2>2. B(b)[k] = Link(h, b[k - 1])
    BY <2>1 DEF Link
  <2> QED
    BY <1>6, <2>2
<1>9. LinkChain(h, p, b, n)
  <2> HIDE DEF n
  <2> QED
    BY <1>7, <1>8 DEF LinkChain
<1> QED
    BY <1>9 DEF b

\* Of the suffixes of p that are nodes, the longer ones come before k, and k is one or the end.
VisitedUpTo(h, p, f, k) ==
    \/ \E j \in 0..Len(p) :
        /\ f[k] = Suffix(p, j) /\ f[k] \in DOMAIN h /\ j + k <= Len(p)
        /\ \A m \in (j + 1)..Len(p) :
                Suffix(p, m) \in DOMAIN h => \E x \in 0..(k - 1) : f[x] = Suffix(p, m)
    \/ /\ f[k] = NULL
       /\ \A m \in 0..Len(p) :
                Suffix(p, m) \in DOMAIN h => \E x \in 0..(k - 1) : f[x] = Suffix(p, m)

\* The chain visits them in order.
LEMMA VisitedFirst ==
    ASSUME NEW h, IsAutomaton(h), NEW p \in DOMAIN h, NEW n \in Nat, NEW f, LinkChain(h, p, f, n)
    PROVE  VisitedUpTo(h, p, f, 0)
<1>1. p \in Seq(Letters) /\ Len(p) \in Nat
    BY LenProperties DEF IsAutomaton, Heap
<1>2. f[0] = p
    BY DEF LinkChain
<1>3. Suffix(p, Len(p)) = p
    BY <1>1, SuffixWhole
<1>4. Len(p) \in 0..Len(p) /\ Len(p) + 0 <= Len(p) /\ (Len(p) + 1)..Len(p) = {}
    BY <1>1
<1> QED
    BY <1>2, <1>3, <1>4 DEF VisitedUpTo

\* One link further: the link goes to the next longest of them, or ends the chain at the root.
LEMMA VisitedNext ==
    ASSUME NEW h, IsAutomaton(h), NEW p \in DOMAIN h, NEW n \in Nat, NEW f, LinkChain(h, p, f, n),
           NEW k \in 0..(n - 1), VisitedUpTo(h, p, f, k)
    PROVE  VisitedUpTo(h, p, f, k + 1)
<1>1. p \in Seq(Letters) /\ Len(p) \in Nat /\ NULL \notin DOMAIN h
    BY LenProperties, PointerAssumption DEF IsAutomaton, Heap
<1>2. f[k + 1] = Link(h, f[k])
  <2> DEFINE x == k + 1
  <2>1. x \in 1..n /\ x - 1 = k
    OBVIOUS
  <2> HIDE DEF x
  <2>2. f[x] = Link(h, f[x - 1])
    BY <2>1 DEF LinkChain
  <2>3. f[x] = Link(h, f[k])
    BY <2>1, <2>2
  <2> QED
    BY <2>3 DEF x
<1>3. 0..(k - 1) \subseteq 0..(k + 1 - 1) /\ k \in 0..(k + 1 - 1)
    OBVIOUS
<1>4. CASE f[k] = NULL
  <2>1. ~ \E j \in 0..Len(p) : f[k] = Suffix(p, j) /\ f[k] \in DOMAIN h
    BY <1>1, <1>4
  <2>2. \A m \in 0..Len(p) :
            Suffix(p, m) \in DOMAIN h => \E x \in 0..(k - 1) : f[x] = Suffix(p, m)
    BY <2>1 DEF VisitedUpTo
  <2>3. f[k + 1] = NULL
    BY <1>1, <1>2, <1>4 DEF Link
  <2> QED
    BY <1>3, <2>2, <2>3 DEF VisitedUpTo
<1>5. CASE f[k] # NULL
  <2>1. PICK j \in 0..Len(p) :
            /\ f[k] = Suffix(p, j) /\ f[k] \in DOMAIN h /\ j + k <= Len(p)
            /\ \A m \in (j + 1)..Len(p) :
                    Suffix(p, m) \in DOMAIN h => \E x \in 0..(k - 1) : f[x] = Suffix(p, m)
    BY <1>5 DEF VisitedUpTo
  <2> DEFINE q == f[k]
  <2>2. q \in DOMAIN h /\ q = Suffix(p, j) /\ Len(q) = j /\ f[k + 1] = h[q].fail
    BY <1>1, <1>2, <2>1, SuffixType DEF Link
  <2>3. \A m \in 0..j : Suffix(q, m) = Suffix(p, m)
    BY <1>1, <2>2, SuffixSuffix
  <2>4. \A m \in (j + 1)..Len(p) :
            Suffix(p, m) \in DOMAIN h => \E x \in 0..(k + 1 - 1) : f[x] = Suffix(p, m)
    BY <1>3, <2>1
  <2>5. \E x \in 0..(k + 1 - 1) : f[x] = Suffix(p, j)
    BY <1>3, <2>1
  <2>6. CASE q = Root
    <3>1. f[k + 1] = NULL
      BY <2>2, <2>6 DEF IsAutomaton, FailLinks
    <3>2. j = 0
      BY <2>2, <2>6, EmptySeq DEF Root
    <3>3. \A m \in 0..Len(p) : m = j \/ m \in (j + 1)..Len(p)
      BY <1>1, <3>2
    <3> HIDE DEF q
    <3> QED
      BY <2>4, <2>5, <3>1, <3>3 DEF VisitedUpTo
  <2>7. CASE q # Root
    <3>1. FailNode(h, q, h[q].fail)
      BY <2>2, <2>7, LongestFailNode
    <3>2. PICK y \in 0..(j - 1) :
            /\ f[k + 1] = Suffix(q, y) /\ f[k + 1] \in DOMAIN h
            /\ \A m \in (y + 1)..(j - 1) : Suffix(q, m) \notin DOMAIN h
      BY <2>2, <3>1 DEF FailNode
    <3> HIDE DEF q
    <3>3. f[k + 1] = Suffix(p, y) /\ y \in 0..Len(p) /\ y + (k + 1) <= Len(p)
      BY <1>1, <2>1, <2>3, <3>2
    <3>4. ASSUME NEW m \in (y + 1)..Len(p), Suffix(p, m) \in DOMAIN h
          PROVE  \E x \in 0..(k + 1 - 1) : f[x] = Suffix(p, m)
      <4>1. CASE m \in (j + 1)..Len(p)
        BY <2>4, <3>4, <4>1
      <4>2. CASE m = j
        BY <2>5, <4>2
      <4>3. CASE m \in (y + 1)..(j - 1)
        <5>1. m \in 0..j
          BY <3>2, <4>3
        <5>2. Suffix(q, m) \notin DOMAIN h
          BY <3>2, <4>3
        <5>3. Suffix(q, m) = Suffix(p, m)
          BY <2>3, <5>1
        <5> QED
          BY <3>4, <5>2, <5>3
      <4>4. m \in (j + 1)..Len(p) \/ m = j \/ m \in (y + 1)..(j - 1)
        BY <1>1, <3>2
      <4> QED
        BY <4>1, <4>2, <4>3, <4>4
    <3> QED
      BY <3>2, <3>3, <3>4 DEF VisitedUpTo
  <2> QED
    BY <2>6, <2>7
<1> QED
    BY <1>4, <1>5

\* So do all the links of the chain.
LEMMA VisitedAll ==
    ASSUME NEW h, IsAutomaton(h), NEW p \in DOMAIN h, NEW n \in Nat, NEW f, LinkChain(h, p, f, n),
           NEW k \in 0..n
    PROVE  VisitedUpTo(h, p, f, k)
<1> DEFINE T == {m \in 0..n : ~VisitedUpTo(h, p, f, m)}
<1> SUFFICES ASSUME T # {} PROVE FALSE
    OBVIOUS
<1> DEFINE m == Min(T)
<1>1. m \in T /\ \A y \in T : m <= y
  <2>1. T \subseteq Nat
    OBVIOUS
  <2> HIDE DEF T
  <2> QED
    BY <2>1, MinExists
<1> HIDE DEF m
<1>2. m \in 0..n /\ ~VisitedUpTo(h, p, f, m)
    BY <1>1
<1>3. m # 0
    BY <1>2, VisitedFirst
<1>4. m - 1 \in 0..(n - 1) /\ m - 1 \in 0..n /\ ~(m <= m - 1) /\ m - 1 + 1 = m
    BY <1>2, <1>3
<1>5. VisitedUpTo(h, p, f, m - 1)
    BY <1>1, <1>4
<1>6. VisitedUpTo(h, p, f, m - 1 + 1)
    BY <1>4, <1>5, VisitedNext
<1> QED
    BY <1>2, <1>4, <1>6

\* r is the longest suffix of p in `good', or NULL if none is.
LongestGood(p, good, r) ==
    \/ r = NULL /\ \A m \in 0..Len(p) : Suffix(p, m) \notin good
    \/ \E j \in 0..Len(p) :
        /\ r = Suffix(p, j) /\ r \in good
        /\ \A m \in (j + 1)..Len(p) : Suffix(p, m) \notin good

\* Where FirstBack ends: hits are the links of the chain that lead to nodes of `good'.
LEMMA FirstHit ==
    ASSUME NEW h, IsAutomaton(h), NEW p \in DOMAIN h, NEW good, good \subseteq DOMAIN h,
           NEW hits, hits = {k \in DOMAIN Back(h, p) : Back(h, p)[k] \in good},
           NEW r, r = Back(h, p)[IF hits = {} THEN Len(p) + 1 ELSE Min(hits)]
    PROVE  LongestGood(p, good, r)
<1> DEFINE b == Back(h, p)
           n == Len(p) + 1
<1>1. p \in Seq(Letters) /\ Len(p) \in Nat /\ n \in Nat /\ NULL \notin DOMAIN h
    BY LenProperties, PointerAssumption DEF IsAutomaton, Heap
<1>2. LinkChain(h, p, b, n)
    BY <1>1, BackChain
<1>3. DOMAIN b = 0..n
    BY <1>2 DEF LinkChain
<1>4. \A k \in 0..n : VisitedUpTo(h, p, b, k)
    BY <1>1, <1>2, VisitedAll
<1> HIDE DEF b
<1>5. hits = {k \in 0..n : b[k] \in good} /\ r = b[IF hits = {} THEN n ELSE Min(hits)]
    BY <1>3 DEF b
<1>6. CASE hits = {}
  <2>1. n \in 0..n /\ \A j \in 0..Len(p) : ~(j + n <= Len(p))
    BY <1>1
  <2>2. VisitedUpTo(h, p, b, n)
    BY <1>4, <2>1
  <2>3. /\ b[n] = NULL
        /\ \A m \in 0..Len(p) :
                Suffix(p, m) \in DOMAIN h => \E x \in 0..(n - 1) : b[x] = Suffix(p, m)
    BY <2>1, <2>2 DEF VisitedUpTo
  <2>4. 0..(n - 1) \subseteq 0..n
    BY <1>1
  <2>5. \A m \in 0..Len(p) : Suffix(p, m) \notin good
    <3> HIDE DEF n
    <3> QED
      BY <1>5, <1>6, <2>3, <2>4
  <2>6. r = b[n]
    BY <1>5, <1>6
  <2> QED
    BY <2>3, <2>5, <2>6 DEF LongestGood
<1>7. CASE hits # {}
  <2> DEFINE k == Min(hits)
  <2>1. k \in hits /\ \A y \in hits : k <= y
    <3>1. hits \subseteq Nat
      BY <1>1, <1>5
    <3> QED
      BY <1>7, <3>1, MinExists
  <2> HIDE DEF k
  <2>2. k \in 0..n /\ b[k] \in DOMAIN h /\ b[k] \in good
    BY <1>5, <2>1
  <2>3. VisitedUpTo(h, p, b, k)
    BY <1>4, <2>2
  <2>4. PICK j \in 0..Len(p) :
            /\ b[k] = Suffix(p, j)
            /\ \A m \in (j + 1)..Len(p) :
                    Suffix(p, m) \in DOMAIN h => \E x \in 0..(k - 1) : b[x] = Suffix(p, m)
    BY <1>1, <2>2, <2>3 DEF VisitedUpTo
  <2>5. ASSUME NEW m \in (j + 1)..Len(p), Suffix(p, m) \in good
        PROVE  FALSE
    <3>1. PICK x \in 0..(k - 1) : b[x] = Suffix(p, m)
      BY <2>4, <2>5
    <3>2. x \in 0..n /\ ~(k <= x)
      BY <1>1, <2>2
    <3>3. x \in hits
      BY <1>5, <2>5, <3>1, <3>2
    <3> QED
      BY <2>1, <3>2, <3>3
  <2>6. r = b[k]
    BY <1>5, <1>7 DEF k
  <2> QED
    BY <2>2, <2>4, <2>5, <2>6 DEF LongestGood
<1> QED
    BY <1>6, <1>7

-----------------------------------------------------------------------------
(***************************************************************************)
(* automaton_build_output: the output found from a node is the longest key *)
(* that its path ends with, the node itself included, or none if no key    *)
(* does.  Going on from its fail link, next() reports the keys in order.   *)
(***************************************************************************)
THEOREM NextOutputCorrect ==
    ASSUME NEW h, IsAutomaton(h), NEW p \in DOMAIN h
    PROVE  LongestGood(p, Keys(h), NextOutput(h, p))
<1> DEFINE hits == {k \in DOMAIN Back(h, p) : Back(h, p)[k] \in Keys(h)}
           back == Back(h, p)
           hits2 == {k \in DOMAIN back : back[k] \in DOMAIN h /\ h[back[k]].eow}
<1>1. hits2 = hits
    BY DEF Keys
<1>2. LongestGood(p, Keys(h), back[IF hits = {} THEN Len(p) + 1 ELSE Min(hits)])
  <2>1. Keys(h) \subseteq DOMAIN h
    BY DEF Keys
  <2> DEFINE r == back[IF hits = {} THEN Len(p) + 1 ELSE Min(hits)]
  <2>2. hits = {k \in DOMAIN Back(h, p) : Back(h, p)[k] \in Keys(h)}
    OBVIOUS
  <2> HIDE DEF hits
  <2>3. r = Back(h, p)[IF hits = {} THEN Len(p) + 1 ELSE Min(hits)]
    OBVIOUS
  <2> HIDE DEF r
  <2>4. LongestGood(p, Keys(h), r)
    BY ONLY IsAutomaton(h), p \in DOMAIN h, <2>1, <2>2, <2>3, FirstHit
  <2> QED
    BY <2>4 DEF r
<1>3. NextOutput(h, p) = back[IF hits2 = {} THEN Len(p) + 1 ELSE Min(hits2)]
    BY DEF NextOutput, FirstBack
<1> HIDE DEF hits, hits2, back
<1> QED
    BY <1>1, <1>2, <1>3

\* The state after the letters of `read': the longest suffix of them that is a node.
IsState(h, read, p) ==
    \E k \in 0..Len(read) :
        /\ p = Suffix(read, k) /\ p \in DOMAIN h
        /\ \A m \in (k + 1)..Len(read) : Suffix(read, m) \notin DOMAIN h

(***************************************************************************)
(* The search step, ahocorasick_next over fail links: from the state after *)
(* the letters of `read', reading one more letter leads to the state after *)
(* them and that letter, whatever was read and whatever the words are.     *)
(***************************************************************************)
THEOREM NextStateCorrect ==
    ASSUME NEW S, Letters \subseteq S, NEW h, IsAutomaton(h), NEW read \in Seq(S), NEW l \in S,
           NEW p, IsState(h, read, p)
    PROVE  IsState(h, Append(read, l), ahocorasick_next(h, p, l))
<1> DEFINE good == {q \in DOMAIN h : l \in ToSet(h[q].next)}
           back == Back(h, p)
           hits == {x \in DOMAIN Back(h, p) : Back(h, p)[x] \in good}
           hits2 == {x \in DOMAIN back : back[x] \in DOMAIN h /\ l \in ToSet(h[back[x]].next)}
           r == back[IF hits = {} THEN Len(p) + 1 ELSE Min(hits)]
           t == Append(read, l)
<1>1. PICK k \in 0..Len(read) :
        /\ p = Suffix(read, k) /\ p \in DOMAIN h
        /\ \A m \in (k + 1)..Len(read) : Suffix(read, m) \notin DOMAIN h
    BY DEF IsState
<1>2. Heap(h) /\ Tree(h) /\ Len(read) \in Nat /\ Root \in DOMAIN h
      /\ DOMAIN h \subseteq Seq(Letters)
    BY LenProperties DEF IsAutomaton, Heap
<1>3. Len(p) = k /\ p \in Seq(S) /\ \A m \in 0..k : Suffix(p, m) = Suffix(read, m)
    BY <1>1, SuffixType, SuffixSuffix
<1>4. LongestGood(p, good, r)
  <2>1. good \subseteq DOMAIN h
    OBVIOUS
  <2>2. hits = {x \in DOMAIN Back(h, p) : Back(h, p)[x] \in good}
    OBVIOUS
  <2> HIDE DEF hits, good
  <2>3. r = Back(h, p)[IF hits = {} THEN Len(p) + 1 ELSE Min(hits)]
    OBVIOUS
  <2> HIDE DEF r
  <2> QED
    BY <1>1, <2>1, <2>2, <2>3, FirstHit
<1>5. ahocorasick_next(h, p, l) =
        IF r = NULL THEN Root ELSE IF r = FREED THEN FREED ELSE trienode_get_next(h, r, l)
  <2>1. hits2 = hits
    OBVIOUS
  <2>2. FirstBack(h, p, LAMBDA q : l \in ToSet(h[q].next))
            = back[IF hits2 = {} THEN Len(p) + 1 ELSE Min(hits2)]
    BY <1>1 DEF FirstBack
  <2> HIDE DEF hits, hits2, back
  <2>3. FirstBack(h, p, LAMBDA q : l \in ToSet(h[q].next)) = r
    BY <2>1, <2>2
  <2> HIDE DEF r
  <2> QED
    BY <2>3 DEF ahocorasick_next
<1> HIDE DEF r
<1>6. t \in Seq(S) /\ Len(t) = Len(read) + 1
    BY AppendProperties
<1>7. \A m \in 0..Len(read) : Suffix(t, m + 1) = Append(Suffix(read, m), l)
    BY SuffixAppend
<1>8. \A m \in 0..Len(read) : Suffix(t, m + 1) \in DOMAIN h => m <= k /\ Suffix(p, m) \in good
  <2> SUFFICES ASSUME NEW m \in 0..Len(read), Suffix(t, m + 1) \in DOMAIN h
               PROVE  m <= k /\ Suffix(p, m) \in good
    OBVIOUS
  <2>1. Suffix(read, m) \in DOMAIN h /\ l \in ToSet(h[Suffix(read, m)].next)
    BY <1>2, SuffixHangs
  <2>2. m <= k
    <3>1. m \in (k + 1)..Len(read) \/ m <= k
      BY <1>2
    <3> QED
      BY <1>1, <2>1, <3>1
  <2>3. m \in 0..k
    BY <2>2
  <2> QED
    BY <1>3, <2>1, <2>2, <2>3
<1> HIDE DEF t
<1>9. CASE r = NULL /\ \A m \in 0..Len(p) : Suffix(p, m) \notin good
  <2>1. ahocorasick_next(h, p, l) = Root
    BY <1>5, <1>9
  <2>2. Suffix(t, 0) = Root /\ 0 \in 0..Len(t)
    <3>1. 0 \in 0..Len(t)
      BY <1>2, <1>6
    <3> QED
      BY <1>6, <3>1, SuffixSuffix DEF Root
  <2>3. ASSUME NEW m \in (0 + 1)..Len(t), Suffix(t, m) \in DOMAIN h PROVE FALSE
    <3>1. m - 1 \in 0..Len(read) /\ m - 1 + 1 = m
      BY <1>2, <1>6
    <3>2. m - 1 <= k /\ Suffix(p, m - 1) \in good
      BY <1>8, <2>3, <3>1
    <3>3. m - 1 \in 0..Len(p)
      BY <1>3, <3>1, <3>2
    <3> HIDE DEF good
    <3> QED
      BY <1>9, <3>2, <3>3
  <2> HIDE DEF good
  <2>4. Root \in DOMAIN h
    BY <1>2
  <2>5. IsState(h, t, Root)
    BY <2>2, <2>3, <2>4 DEF IsState
  <2> QED
    BY <2>1, <2>5 DEF t
<1>10. ASSUME NEW j \in 0..Len(p), r = Suffix(p, j), r \in good,
              \A m \in (j + 1)..Len(p) : Suffix(p, m) \notin good
       PROVE  IsState(h, Append(read, l), ahocorasick_next(h, p, l))
  <2>1. r \in DOMAIN h /\ l \in ToSet(h[r].next) /\ r # NULL /\ r # FREED
    BY <1>2, <1>10, PointerAssumption
  <2>2. ahocorasick_next(h, p, l) = Append(r, l)
    BY <1>5, <2>1 DEF trienode_get_next
  <2>3. Append(r, l) \in DOMAIN h
    BY <1>2, <2>1 DEF Tree, LinksLive
  <2>4. j \in 0..k /\ j \in 0..Len(read) /\ j + 1 \in 0..Len(t)
    BY <1>2, <1>3, <1>6, <1>10
  <2>5. Append(r, l) = Suffix(t, j + 1)
    BY <1>3, <1>7, <1>10, <2>4
  <2>6. ASSUME NEW m \in (j + 1 + 1)..Len(t), Suffix(t, m) \in DOMAIN h PROVE FALSE
    <3>1. m - 1 \in 0..Len(read) /\ m - 1 + 1 = m /\ m - 1 \in (j + 1)..Len(read)
      BY <1>2, <1>6, <2>4
    <3>2. m - 1 <= k /\ Suffix(p, m - 1) \in good
      BY <1>8, <2>6, <3>1
    <3>3. m - 1 \in (j + 1)..Len(p)
      BY <1>3, <3>1, <3>2
    <3> HIDE DEF good
    <3> QED
      BY <1>10, <3>2, <3>3
  <2> HIDE DEF good
  <2>7. IsState(h, t, Append(r, l))
    BY <2>3, <2>4, <2>5, <2>6 DEF IsState
  <2> QED
    BY <2>2, <2>7 DEF t
<1> HIDE DEF good
<1> QED
    BY <1>4, <1>9, <1>10 DEF LongestGood

\* It is the state that SearchIter's StateOK speaks of: there is only one.
LEMMA StateIsLongest ==
    ASSUME NEW S, NEW h, NEW read \in Seq(S), NEW p, IsState(h, read, p)
    PROVE  p = Suffix(read, Max({j \in 0..Len(read) : Suffix(read, j) \in DOMAIN h}))
<1> DEFINE T == {j \in 0..Len(read) : Suffix(read, j) \in DOMAIN h}
           n == Max(T)
<1>1. PICK k \in 0..Len(read) :
        /\ p = Suffix(read, k) /\ p \in DOMAIN h
        /\ \A m \in (k + 1)..Len(read) : Suffix(read, m) \notin DOMAIN h
    BY DEF IsState
<1>2. Len(read) \in Nat /\ T \subseteq 0..Len(read) /\ k \in T
    BY <1>1, LenProperties
<1>3. n \in T /\ \A y \in T : n >= y
  <2> HIDE DEF T
  <2> QED
    BY <1>2, MaxExists
<1> HIDE DEF n
<1>4. n \in 0..Len(read) /\ Suffix(read, n) \in DOMAIN h /\ n >= k
    BY <1>2, <1>3
<1>5. n = k
  <2> SUFFICES ASSUME n # k PROVE FALSE
    OBVIOUS
  <2>1. n \in (k + 1)..Len(read)
    BY <1>2, <1>4
  <2> QED
    BY <1>1, <1>4, <2>1
<1> QED
    BY <1>1, <1>5 DEF n

-----------------------------------------------------------------------------
(* Induction over an interval, and functions defined along one. *)

\* A set that holds 0 and with each number the next one up to n holds all of them.
LEMMA UpTo ==
    ASSUME NEW n \in Nat, NEW T, 0 \in T, \A k \in 1..n : k - 1 \in T => k \in T
    PROVE  0..n \subseteq T
<1> DEFINE U == (0..n) \ T
<1> SUFFICES ASSUME U # {} PROVE FALSE
    OBVIOUS
<1> DEFINE m == Min(U)
<1>1. m \in U /\ \A y \in U : m <= y
  <2>1. U \subseteq Nat
    OBVIOUS
  <2> HIDE DEF U
  <2> QED
    BY <2>1, MinExists
<1> HIDE DEF m
<1>2. m \in 0..n /\ m \notin T
    BY <1>1
<1>3. m \in 1..n /\ m - 1 \in 0..n /\ ~(m <= m - 1)
    BY <1>2
<1>4. m - 1 \in T
    BY <1>1, <1>3
<1> QED
    BY <1>2, <1>3, <1>4

\* A finite set of naturals has a bound.
LEMMA FiniteBounded ==
    ASSUME NEW S, IsFiniteSet(S), S \subseteq Nat
    PROVE  \E m \in Nat : \A y \in S : y <= m
<1> DEFINE n == Cardinality(S)
<1>1. n \in Nat /\ ExistsBijection(1..n, S)
    BY FS_CardinalityType
<1>2. PICK f : f \in Bijection(1..n, S)
    BY <1>1 DEF ExistsBijection
<1>3. f \in [1..n -> S] /\ \A y \in S : \E k \in 1..n : f[k] = y
    BY <1>2 DEF Bijection, Injection, Surjection
<1>4. \A j \in 1..n : f[j] \in Nat
    BY <1>3
<1> HIDE DEF n
<1> DEFINE Bounded(k) == \E m \in Nat : \A j \in 1..k : f[j] <= m
           T == {k \in 0..n : Bounded(k)}
<1>5. 0 \in T
    BY <1>1
<1>6. ASSUME NEW k \in 1..n, k - 1 \in T PROVE k \in T
  <2>1. PICK m \in Nat : \A j \in 1..(k - 1) : f[j] <= m
    BY <1>6
  <2>2. \A j \in 1..k : j \in 1..n /\ (j = k \/ j \in 1..(k - 1))
    BY <1>1
  <2>3. f[k] \in Nat /\ \A j \in 1..k : f[j] \in Nat
    BY <1>4, <2>2
  <2>4. \A j \in 1..k : f[j] <= m + f[k]
    BY <2>1, <2>2, <2>3
  <2>5. m + f[k] \in Nat /\ k \in 0..n
    BY <2>3, <1>1
  <2> QED
    BY <2>4, <2>5
<1>7. n \in T
  <2> HIDE DEF T
  <2>1. 0..n \subseteq T
    BY <1>1, <1>5, <1>6, UpTo
  <2>2. n \in 0..n
    BY <1>1
  <2> QED
    BY <2>1, <2>2
<1>8. PICK m \in Nat : \A j \in 1..n : f[j] <= m
    BY <1>7
<1> QED
    BY <1>3, <1>8

\* f goes from v by the steps of `step'.
Chained(V, v, n, step, f) ==
    f \in [0..n -> V] /\ f[0] = v /\ \A k \in 1..n : f[k] = step[k][f[k - 1]]

\* A value to start with and a step for each number make a function.
LEMMA Iterated ==
    ASSUME NEW V, NEW v \in V, NEW n \in Nat, NEW step \in [1..n -> [V -> V]]
    PROVE  \E f : Chained(V, v, n, step, f)
<1> DEFINE Good(m) == \E f \in [0..m -> V] : f[0] = v /\ \A k \in 1..m : f[k] = step[k][f[k - 1]]
           T == {m \in 0..n : Good(m)}
<1>1. 0 \in T
  <2> DEFINE f == [k \in 0..0 |-> v]
  <2>1. f \in [0..0 -> V] /\ f[0] = v /\ \A k \in 1..0 : f[k] = step[k][f[k - 1]]
    OBVIOUS
  <2> HIDE DEF f
  <2>2. Good(0)
    BY <2>1
  <2> HIDE DEF Good
  <2> QED
    BY <2>2
<1>2. ASSUME NEW m \in 1..n, m - 1 \in T PROVE m \in T
  <2>1. PICK f \in [0..(m - 1) -> V] :
            f[0] = v /\ \A k \in 1..(m - 1) : f[k] = step[k][f[k - 1]]
    BY <1>2
  <2> DEFINE last == step[m][f[m - 1]]
             g == [k \in 0..m |-> IF k = m THEN last ELSE f[k]]
  <2>2. last \in V
    <3>1. m - 1 \in 0..(m - 1)
      OBVIOUS
    <3> QED
      BY <2>1, <3>1
  <2>3. g[m] = last /\ \A k \in 0..(m - 1) : g[k] = f[k]
    OBVIOUS
  <2>4. g \in [0..m -> V]
    <3> HIDE DEF last
    <3>1. \A k \in 0..m : k = m \/ k \in 0..(m - 1)
      OBVIOUS
    <3> QED
      BY <2>1, <2>2, <3>1
  <2> HIDE DEF g
  <2>5. g[0] = v
    BY <2>1, <2>3
  <2>6. ASSUME NEW k \in 1..m PROVE g[k] = step[k][g[k - 1]]
    <3>1. k - 1 \in 0..(m - 1) /\ (k = m \/ (k \in 1..(m - 1) /\ k \in 0..(m - 1)))
      OBVIOUS
    <3> QED
      BY <2>1, <2>3, <3>1
  <2>7. Good(m)
    BY <2>4, <2>5, <2>6
  <2> HIDE DEF Good
  <2> QED
    BY <2>7
<1> HIDE DEF T
<1>3. 0..n \subseteq T
    BY <1>1, <1>2, UpTo
<1>4. n \in T
    BY <1>3
<1> QED
    BY <1>4 DEF T, Chained

-----------------------------------------------------------------------------
(* The automaton of a set of words. *)

\* SetToSeq lists a finite set.
LEMMA SetListed ==
    ASSUME NEW T, IsFiniteSet(T)
    PROVE  SetToSeq(T) \in Seq(T) /\ ToSet(SetToSeq(T)) = T /\ IsInjective(SetToSeq(T))
<1> DEFINE n == Cardinality(T)
           s == SetToSeq(T)
<1>1. n \in Nat /\ ExistsBijection(1..n, T)
    BY FS_CardinalityType
<1>2. PICK f : f \in Bijection(1..n, T)
    BY <1>1 DEF ExistsBijection
<1>3. f \in [1..n -> T] /\ IsInjective(f)
    BY <1>2 DEF Bijection, Injection, IsInjective
<1>4. s = CHOOSE g \in [1..n -> T] : IsInjective(g)
    BY DEF SetToSeq
<1>5. s \in [1..n -> T] /\ IsInjective(s)
  <2> HIDE DEF s
  <2> QED
    BY <1>3, <1>4
<1> HIDE DEF s
<1>6. s \in Injection(1..n, T)
    BY <1>5 DEF Injection, IsInjective
<1>7. Cardinality(1..n) = n
    BY <1>1, FS_Interval
<1>8. s \in Surjection(1..n, T)
    BY <1>6, <1>7, FS_Injection
<1>9. ToSet(s) = T
    BY <1>5, <1>8 DEF Surjection, ToSet
<1>10. s \in Seq(T)
    BY <1>1, <1>5
<1> QED
    BY <1>5, <1>9, <1>10 DEF s

\* Of finitely many words there are finitely many prefixes; they are closed under prefixes.
LEMMA PathsClosed ==
    ASSUME NEW D, IsFiniteSet(D), D \subseteq Seq(Letters)
    PROVE  /\ PathsOf(D) \subseteq Seq(Letters) /\ IsFiniteSet(PathsOf(D))
           /\ D \subseteq PathsOf(D) /\ Root \in PathsOf(D)
           /\ \A p \in PathsOf(D) : \A k \in 0..Len(p) : At(p, k) \in PathsOf(D)
<1> DEFINE paths == PathsOf(D)
           all == {Prefixes(w) : w \in D}
<1>1. paths = {<<>>} \cup UNION all
    BY DEF PathsOf
<1>2. \A w \in D : Prefixes(w) = {At(w, k) : k \in 0..Len(w)}
    BY DEF Prefixes, At
<1>3. \A p \in paths : p = <<>> \/ \E w \in D : \E k \in 0..Len(w) : p = At(w, k)
    BY <1>1, <1>2
<1>4. \A w \in D : \A k \in 0..Len(w) : At(w, k) \in paths
    BY <1>1, <1>2
<1>5. IsFiniteSet(paths)
  <2>1. IsFiniteSet(all)
    <3> DEFINE f == [w \in D |-> Prefixes(w)]
    <3>1. f \in Surjection(D, all)
      BY DEF Surjection
    <3> HIDE DEF f
    <3> QED
      BY <3>1, FS_Surjection
  <2>2. ASSUME NEW T \in all PROVE IsFiniteSet(T)
    <3>1. PICK w \in D : T = Prefixes(w)
      OBVIOUS
    <3> DEFINE f == [k \in 0..Len(w) |-> At(w, k)]
    <3>2. f \in Surjection(0..Len(w), T)
      BY <3>1, <1>2 DEF Surjection
    <3>3. IsFiniteSet(0..Len(w))
      BY LenProperties, FS_Interval
    <3> HIDE DEF f
    <3> QED
      BY <3>2, <3>3, FS_Surjection
  <2>3. IsFiniteSet(UNION all)
    <3> HIDE DEF all
    <3> QED
      BY <2>1, <2>2, FS_UNION
  <2>4. paths = (UNION all) \cup {<<>>}
    BY <1>1
  <2> HIDE DEF all, paths
  <2> QED
    BY <2>3, <2>4, FS_AddElement
<1> HIDE DEF paths, all
<1>6. ASSUME NEW p \in paths
      PROVE  p \in Seq(Letters) /\ \A k \in 0..Len(p) : At(p, k) \in paths
  <2>1. CASE p = <<>>
    <3>1. p \in Seq(Letters) /\ Len(p) = 0 /\ 0 \in 0..Len(p)
      BY <2>1
    <3>2. At(p, 0) = <<>>
      BY <3>1, AtAt
    <3>3. \A k \in 0..Len(p) : k = 0
      BY <3>1
    <3> QED
      BY <2>1, <3>1, <3>2, <3>3
  <2>2. ASSUME NEW w \in D, NEW k \in 0..Len(w), p = At(w, k)
        PROVE  p \in Seq(Letters) /\ \A j \in 0..Len(p) : At(p, j) \in paths
    <3>1. w \in Seq(Letters) /\ Len(w) \in Nat
      BY LenProperties
    <3>2. p \in Seq(Letters) /\ Len(p) = k
      BY <2>2, <3>1, AtType
    <3>3. \A j \in 0..k : At(p, j) = At(w, j) /\ j \in 0..Len(w)
      BY <2>2, <3>1, AtAt
    <3> QED
      BY <1>4, <3>2, <3>3
  <2> QED
    BY <1>3, <2>1, <2>2
<1>7. <<>> \in paths
    BY <1>1
<1>8. ASSUME NEW w \in D PROVE w \in paths
  <2>1. w \in Seq(Letters) /\ Len(w) \in 0..Len(w) /\ At(w, Len(w)) = w
    BY LenProperties, AtAt
  <2> QED
    BY <1>4, <2>1
<1> QED
    BY <1>5, <1>6, <1>7, <1>8 DEF paths, Root

\* The children of a node.
Kids(D, p) == {l \in Letters : Append(p, l) \in PathsOf(D)}

\* They are finitely many.
LEMMA KidsFinite ==
    ASSUME NEW D, IsFiniteSet(D), D \subseteq Seq(Letters), NEW p \in PathsOf(D)
    PROVE  IsFiniteSet(Kids(D, p))
<1> DEFINE f == [l \in Kids(D, p) |-> Append(p, l)]
<1>1. IsFiniteSet(PathsOf(D)) /\ p \in Seq(Letters)
    BY PathsClosed
<1>2. f \in [Kids(D, p) -> PathsOf(D)]
    BY DEF Kids
<1>3. \A l, m \in Kids(D, p) : Append(p, l) = Append(p, m) => l = m
    BY <1>1, AppendProperties DEF Kids
<1>4. f \in Injection(Kids(D, p), PathsOf(D))
    BY <1>2, <1>3 DEF Injection, IsInjective
<1> HIDE DEF f
<1> QED
    BY <1>1, <1>4, FS_Injection

\* The fields of the nodes.
LEMMA BuiltFields ==
    ASSUME NEW D
    PROVE  /\ DOMAIN Built(D) = PathsOf(D)
           /\ Built(D) = [p \in PathsOf(D) |-> Built(D)[p]]
           /\ \A p \in PathsOf(D) :
                Built(D)[p] = [next |-> SetToSeq(Kids(D, p)), eow |-> p \in D, output |-> 0,
                               fail |-> IF p = Root THEN NULL ELSE LongestSuffix(Built(D), p)]
<1> DEFINE paths == PathsOf(D)
           unlinked == [p \in paths |->
                            [trienode_new EXCEPT
                                !.next = SetToSeq({l \in Letters : Append(p, l) \in paths}),
                                !.eow = p \in D]]
           h == Built(D)
<1>1. h = [p \in paths |-> [unlinked[p] EXCEPT
                            !.fail = IF p = Root THEN NULL ELSE LongestSuffix(unlinked, p)]]
    BY DEF Built
<1>2. \A p \in paths :
        unlinked[p] = [next |-> SetToSeq(Kids(D, p)), eow |-> p \in D, output |-> 0, fail |-> NULL]
    BY DEF Kids, trienode_new
<1>3. DOMAIN unlinked = paths /\ DOMAIN h = paths
    BY <1>1
<1>4. h = [p \in paths |-> h[p]]
    BY <1>1
<1> HIDE DEF unlinked, h
<1>5. \A p : LongestSuffix(unlinked, p) = LongestSuffix(h, p)
    BY <1>3 DEF LongestSuffix
<1> HIDE DEF paths
<1>6. ASSUME NEW p \in paths
      PROVE  h[p] = [next |-> SetToSeq(Kids(D, p)), eow |-> p \in D, output |-> 0,
                     fail |-> IF p = Root THEN NULL ELSE LongestSuffix(h, p)]
  <2> DEFINE fail == IF p = Root THEN NULL ELSE LongestSuffix(h, p)
             kids == SetToSeq(Kids(D, p))
  <2>1. h[p] = [unlinked[p] EXCEPT !.fail = fail]
    BY <1>1, <1>5
  <2> HIDE DEF fail, kids
  <2>2. unlinked[p] = [next |-> kids, eow |-> p \in D, output |-> 0, fail |-> NULL]
    BY <1>2 DEF kids
  <2>3. h[p] = [next |-> kids, eow |-> p \in D, output |-> 0, fail |-> fail]
    BY <2>1, <2>2
  <2> QED
    BY <2>3 DEF fail, kids
<1> QED
    BY <1>3, <1>4, <1>6 DEF h, paths

(***************************************************************************)
(* The heap built for a set of words is an automaton whose keys are these  *)
(* words.                                                                  *)
(***************************************************************************)
LEMMA BuiltAutomaton ==
    ASSUME NEW D, IsFiniteSet(D), D \subseteq Seq(Letters)
    PROVE  IsAutomaton(Built(D)) /\ Keys(Built(D)) = D
<1> DEFINE h == Built(D)
           paths == PathsOf(D)
<1>1. /\ DOMAIN h = paths /\ h = [p \in paths |-> h[p]]
      /\ \A p \in paths :
            /\ h[p].next = SetToSeq(Kids(D, p)) /\ h[p].eow = (p \in D) /\ h[p].output = 0
            /\ h[p].fail = IF p = Root THEN NULL ELSE LongestSuffix(h, p)
            /\ h[p] = [next |-> h[p].next, eow |-> h[p].eow, output |-> h[p].output,
                       fail |-> h[p].fail]
  <2>1. /\ DOMAIN h = paths /\ h = [p \in paths |-> h[p]]
        /\ \A p \in paths :
            h[p] = [next |-> SetToSeq(Kids(D, p)), eow |-> p \in D, output |-> 0,
                    fail |-> IF p = Root THEN NULL ELSE LongestSuffix(h, p)]
    BY BuiltFields
  <2> HIDE DEF h, paths
  <2>2. ASSUME NEW p \in paths
        PROVE  /\ h[p].next = SetToSeq(Kids(D, p)) /\ h[p].eow = (p \in D) /\ h[p].output = 0
               /\ h[p].fail = IF p = Root THEN NULL ELSE LongestSuffix(h, p)
               /\ h[p] = [next |-> h[p].next, eow |-> h[p].eow, output |-> h[p].output,
                          fail |-> h[p].fail]
    <3> DEFINE fail == IF p = Root THEN NULL ELSE LongestSuffix(h, p)
               kids == SetToSeq(Kids(D, p))
               key == p \in D
    <3>1. h[p] = [next |-> kids, eow |-> key, output |-> 0, fail |-> fail]
      BY <2>1
    <3> HIDE DEF fail, kids, key
    <3>2. /\ h[p].next = kids /\ h[p].eow = key /\ h[p].output = 0 /\ h[p].fail = fail
          /\ h[p] = [next |-> h[p].next, eow |-> h[p].eow, output |-> h[p].output,
                     fail |-> h[p].fail]
      BY <3>1
    <3> QED
      BY <3>2 DEF fail, kids, key
  <2> QED
    BY <2>1, <2>2
<1>2. /\ paths \subseteq Seq(Letters) /\ D \subseteq paths /\ Root \in paths
      /\ \A p \in paths : \A k \in 0..Len(p) : At(p, k) \in paths
    BY PathsClosed
<1>3. \A p \in paths :
        /\ h[p].next \in Seq(Letters) /\ ToSet(h[p].next) = Kids(D, p) /\ IsInjective(h[p].next)
  <2> TAKE p \in paths
  <2>1. IsFiniteSet(Kids(D, p)) /\ Kids(D, p) \subseteq Letters
    BY KidsFinite DEF Kids
  <2>2. /\ h[p].next \in Seq(Kids(D, p)) /\ ToSet(h[p].next) = Kids(D, p)
        /\ IsInjective(h[p].next)
    BY <1>1, <2>1, SetListed
  <2> QED
    BY <2>1, <2>2
<1> HIDE DEF h
<1>4. FailLinks(h)
    BY <1>1 DEF FailLinks
<1>5. ASSUME NEW p \in paths PROVE h[p].fail \in Pointer
  <2>1. CASE p = Root
    BY <1>1, <2>1 DEF Pointer
  <2>2. CASE p # Root
    <3> DEFINE T == {i \in 0..(Len(p) - 1) : Suffix(p, i) \in DOMAIN h}
    <3>1. p \in Seq(Letters) /\ Len(p) \in Nat /\ Len(p) # 0
      BY <1>2, <2>2, EmptySeq, LenProperties DEF Root
    <3>2. Suffix(p, 0) = <<>> /\ <<>> \in DOMAIN h
      BY <1>1, <1>2, <3>1, SuffixSuffix DEF Root
    <3>3. T \subseteq 0..Len(p) /\ 0 \in T
      BY <3>1, <3>2
    <3>4. Max(T) \in T
      <4> HIDE DEF T
      <4> QED
        BY <3>1, <3>3, MaxExists
    <3>5. LongestSuffix(h, p) = Suffix(p, Max(T))
      BY DEF LongestSuffix
    <3>6. Suffix(p, Max(T)) \in DOMAIN h
      BY <3>4
    <3> QED
      BY <1>1, <1>2, <2>2, <3>5, <3>6 DEF Pointer
  <2> QED
    BY <2>1, <2>2
<1>6. Heap(h)
  <2>1. ASSUME NEW p \in paths PROVE h[p] \in TrieNode
    <3>1. h[p].eow \in BOOLEAN /\ h[p].output \in Int
      <4> DEFINE e == h[p].eow
      <4>1. e = (p \in D) /\ h[p].output = 0
        BY <1>1
      <4> HIDE DEF e
      <4>2. e \in BOOLEAN
        BY <4>1
      <4> QED
        BY <4>1, <4>2 DEF e
    <3>2. h[p].next \in Seq(Letters) /\ h[p].fail \in Pointer
      BY <1>3, <1>5
    <3>3. h[p] = [next |-> h[p].next, eow |-> h[p].eow, output |-> h[p].output,
                 fail |-> h[p].fail]
      BY <1>1
    <3> DEFINE n == h[p].next
               e == h[p].eow
               o == h[p].output
               f == h[p].fail
    <3> HIDE DEF n, e, o, f
    <3>4. n \in Seq(Letters) /\ f \in Pointer /\ e \in BOOLEAN /\ o \in Int
      BY <3>1, <3>2 DEF n, e, o, f
    <3>5. [next |-> n, eow |-> e, output |-> o, fail |-> f] \in TrieNode
      BY <3>4 DEF TrieNode
    <3> QED
      BY <3>3, <3>5 DEF n, e, o, f
  <2> QED
    BY <1>1, <1>2, <2>1 DEF Heap
<1>7. ASSUME NEW p \in paths, NEW k \in 0..(Len(p) - 1)
      PROVE  At(p, k) \in paths /\ p[k + 1] \in ToSet(h[At(p, k)].next)
  <2>1. p \in Seq(Letters) /\ Len(p) \in Nat
    BY <1>2, LenProperties
  <2>2. k \in 0..Len(p) /\ k + 1 \in 0..Len(p) /\ k + 1 \in 1..Len(p)
    BY <2>1
  <2>3. At(p, k) \in paths /\ At(p, k + 1) \in paths /\ p[k + 1] \in Letters
    BY <1>2, <2>1, <2>2, ElementOfSeq
  <2>4. Append(At(p, k), p[k + 1]) = At(p, k + 1)
    BY <2>1, AppendAt
  <2>5. p[k + 1] \in Kids(D, At(p, k))
    BY <2>3, <2>4 DEF Kids
  <2> QED
    BY <1>3, <2>3, <2>5
<1>8. Tree(h)
    BY <1>1, <1>3, <1>7 DEF Tree, PrefixClosed, LinksLive, OneLinkPerLetter, Kids
<1>9. Keys(h) = D
    BY <1>1, <1>2 DEF Keys
<1> QED
    BY <1>1, <1>2, <1>4, <1>6, <1>8, <1>9 DEF IsAutomaton, h

-----------------------------------------------------------------------------
(* The strings to be searched: the ledger entry by entry, and the slice. *)

Ledger == [copies : [0..MaxSets -> Int], references : [0..MaxSets -> Int]]

StructInput == [word : 0..MaxSets, is_copy : BOOLEAN]

\* An empty ledger.
LEMMA NothingEmpty ==
    /\ Nothing \in Ledger
    /\ \A k \in 0..MaxSets : Nothing.copies[k] = 0 /\ Nothing.references[k] = 0
BY DEF Nothing, Ledger

\* The struct Input of a string.
LEMMA GetString ==
    ASSUME NEW text, NEW k \in 0..MaxSets
    PROVE  /\ pymod_get_string(text, k) \in StructInput
           /\ pymod_get_string(text, k).word = k
           /\ pymod_get_string(text, k).is_copy = ~PyUnicode_4BYTE_KIND(text)
BY DEF pymod_get_string, StructInput

\* One entry of a ledger changed.
LEMMA Entry ==
    ASSUME NEW f \in [0..MaxSets -> Int], NEW j \in 0..MaxSets, NEW x \in Int
    PROVE  /\ [f EXCEPT ![j] = x] \in [0..MaxSets -> Int]
           /\ \A k \in 0..MaxSets : f[k] \in Int /\ [f EXCEPT ![j] = x][k] = IF k = j THEN x ELSE f[k]
OBVIOUS

\* The entries of a ledger are integers.
LEMMA Entries ==
    ASSUME NEW ledger \in Ledger
    PROVE  /\ ledger.copies \in [0..MaxSets -> Int] /\ ledger.references \in [0..MaxSets -> Int]
           /\ \A k \in 0..MaxSets : ledger.copies[k] \in Int /\ ledger.references[k] \in Int
BY DEF Ledger

\* Preparing an input takes a copy or a reference to its string, and no more.
LEMMA Prepared ==
    ASSUME NEW ledger \in Ledger, NEW input \in StructInput
    PROVE  LET after == prepare_input(ledger, input)
           IN  /\ after \in Ledger
               /\ \A k \in 0..MaxSets :
                    /\ after.copies[k] = ledger.copies[k] +
                            IF k = input.word /\ input.is_copy THEN 1 ELSE 0
                    /\ after.references[k] = ledger.references[k] +
                            IF k = input.word /\ ~input.is_copy THEN 1 ELSE 0
<1>1. /\ ledger.copies \in [0..MaxSets -> Int] /\ ledger.references \in [0..MaxSets -> Int]
      /\ \A k \in 0..MaxSets : ledger.copies[k] \in Int /\ ledger.references[k] \in Int
      /\ input.word \in 0..MaxSets /\ input.is_copy \in BOOLEAN
    BY Entries DEF StructInput
<1>2. CASE input.is_copy
  <2> DEFINE x == ledger.copies[input.word] + 1
             f == [ledger.copies EXCEPT ![input.word] = x]
  <2>1. prepare_input(ledger, input) = [copies |-> f, references |-> ledger.references]
    BY <1>2 DEF prepare_input, Ledger
  <2>2. /\ f \in [0..MaxSets -> Int]
        /\ \A k \in 0..MaxSets : f[k] = IF k = input.word THEN x ELSE ledger.copies[k]
    BY <1>1, Entry
  <2>3. x \in Int
    BY <1>1
  <2> HIDE DEF f
  <2> QED
    BY <1>1, <1>2, <2>1, <2>2, <2>3 DEF Ledger
<1>3. CASE ~input.is_copy
  <2> DEFINE x == ledger.references[input.word] + 1
             f == [ledger.references EXCEPT ![input.word] = x]
  <2>1. prepare_input(ledger, input) = [copies |-> ledger.copies, references |-> f]
    BY <1>3 DEF prepare_input, Ledger
  <2>2. /\ f \in [0..MaxSets -> Int]
        /\ \A k \in 0..MaxSets : f[k] = IF k = input.word THEN x ELSE ledger.references[k]
    BY <1>1, Entry
  <2>3. x \in Int
    BY <1>1
  <2> HIDE DEF f
  <2> QED
    BY <1>1, <1>3, <2>1, <2>2, <2>3 DEF Ledger
<1> QED
    BY <1>2, <1>3

\* Destroying it gives back the one or the other, as the flag says.
LEMMA Destroyed ==
    ASSUME NEW ledger \in Ledger, NEW input \in StructInput
    PROVE  LET after == destroy_input(ledger, input)
           IN  /\ after \in Ledger
               /\ \A k \in 0..MaxSets :
                    /\ after.copies[k] = ledger.copies[k] -
                            IF k = input.word /\ input.is_copy THEN 1 ELSE 0
                    /\ after.references[k] = ledger.references[k] -
                            IF k = input.word /\ ~input.is_copy THEN 1 ELSE 0
<1>1. /\ ledger.copies \in [0..MaxSets -> Int] /\ ledger.references \in [0..MaxSets -> Int]
      /\ \A k \in 0..MaxSets : ledger.copies[k] \in Int /\ ledger.references[k] \in Int
      /\ input.word \in 0..MaxSets /\ input.is_copy \in BOOLEAN
    BY Entries DEF StructInput
<1>2. CASE input.is_copy
  <2> DEFINE x == ledger.copies[input.word] - 1
             f == [ledger.copies EXCEPT ![input.word] = x]
  <2>1. destroy_input(ledger, input) = [copies |-> f, references |-> ledger.references]
    BY <1>2 DEF destroy_input, Ledger
  <2>2. /\ f \in [0..MaxSets -> Int]
        /\ \A k \in 0..MaxSets : f[k] = IF k = input.word THEN x ELSE ledger.copies[k]
    BY <1>1, Entry
  <2>3. x \in Int
    BY <1>1
  <2> HIDE DEF f
  <2> QED
    BY <1>1, <1>2, <2>1, <2>2, <2>3 DEF Ledger
<1>3. CASE ~input.is_copy
  <2> DEFINE x == ledger.references[input.word] - 1
             f == [ledger.references EXCEPT ![input.word] = x]
  <2>1. destroy_input(ledger, input) = [copies |-> ledger.copies, references |-> f]
    BY <1>3 DEF destroy_input, Ledger
  <2>2. /\ f \in [0..MaxSets -> Int]
        /\ \A k \in 0..MaxSets : f[k] = IF k = input.word THEN x ELSE ledger.references[k]
    BY <1>1, Entry
  <2>3. x \in Int
    BY <1>1
  <2> HIDE DEF f
  <2> QED
    BY <1>1, <1>3, <2>1, <2>2, <2>3 DEF Ledger
<1> QED
    BY <1>2, <1>3

\* A reference more, a reference less.
LEMMA Counted ==
    ASSUME NEW ledger \in Ledger, NEW j \in 0..MaxSets
    PROVE  /\ Py_INCREF(ledger, j) \in Ledger /\ Py_DECREF(ledger, j) \in Ledger
           /\ Py_INCREF(ledger, j).copies = ledger.copies
           /\ Py_DECREF(ledger, j).copies = ledger.copies
           /\ \A k \in 0..MaxSets :
                /\ Py_INCREF(ledger, j).references[k] =
                        ledger.references[k] + IF k = j THEN 1 ELSE 0
                /\ Py_DECREF(ledger, j).references[k] =
                        ledger.references[k] - IF k = j THEN 1 ELSE 0
<1>1. /\ ledger.copies \in [0..MaxSets -> Int] /\ ledger.references \in [0..MaxSets -> Int]
      /\ \A k \in 0..MaxSets : ledger.copies[k] \in Int /\ ledger.references[k] \in Int
    BY Entries
<1> DEFINE more == [ledger.references EXCEPT ![j] = ledger.references[j] + 1]
           less == [ledger.references EXCEPT ![j] = ledger.references[j] - 1]
<1>2. /\ Py_INCREF(ledger, j) = [copies |-> ledger.copies, references |-> more]
      /\ Py_DECREF(ledger, j) = [copies |-> ledger.copies, references |-> less]
    BY DEF Py_INCREF, Py_DECREF, Ledger
<1>3. ledger.references[j] + 1 \in Int /\ ledger.references[j] - 1 \in Int
    BY <1>1
<1>4. /\ more \in [0..MaxSets -> Int] /\ less \in [0..MaxSets -> Int]
      /\ \A k \in 0..MaxSets :
            /\ more[k] = IF k = j THEN ledger.references[j] + 1 ELSE ledger.references[k]
            /\ less[k] = IF k = j THEN ledger.references[j] - 1 ELSE ledger.references[k]
    BY <1>1, <1>3, Entry
<1> HIDE DEF more, less
<1> QED
    BY <1>1, <1>2, <1>4 DEF Ledger

\* Replacing an input takes the new one and gives back the old one.
LEMMA ReplacedBoth ==
    ASSUME NEW ledger \in Ledger, NEW old \in StructInput, NEW new \in StructInput
    PROVE  LET after == Replaced(ledger, old, new)
           IN  /\ after \in Ledger
               /\ \A k \in 0..MaxSets :
                    /\ after.copies[k] = ledger.copies[k] +
                            (IF k = new.word /\ new.is_copy THEN 1 ELSE 0) -
                            (IF k = old.word /\ old.is_copy THEN 1 ELSE 0)
                    /\ after.references[k] = ledger.references[k] +
                            (IF k = new.word /\ ~new.is_copy THEN 1 ELSE 0) -
                            (IF k = old.word /\ ~old.is_copy THEN 1 ELSE 0)
<1> DEFINE middle == prepare_input(ledger, new)
           after == destroy_input(middle, old)
<1>1. /\ middle \in Ledger
      /\ \A k \in 0..MaxSets :
            /\ middle.copies[k] = ledger.copies[k] +
                    IF k = new.word /\ new.is_copy THEN 1 ELSE 0
            /\ middle.references[k] = ledger.references[k] +
                    IF k = new.word /\ ~new.is_copy THEN 1 ELSE 0
    BY Prepared
<1> HIDE DEF middle
<1>2. /\ after \in Ledger
      /\ \A k \in 0..MaxSets :
            /\ after.copies[k] = middle.copies[k] -
                    IF k = old.word /\ old.is_copy THEN 1 ELSE 0
            /\ after.references[k] = middle.references[k] -
                    IF k = old.word /\ ~old.is_copy THEN 1 ELSE 0
    BY <1>1, Destroyed
<1> HIDE DEF after
<1>3. Replaced(ledger, old, new) = after
    BY DEF Replaced, after, middle
<1>4. /\ after \in Ledger
      /\ \A k \in 0..MaxSets :
            /\ after.copies[k] = ledger.copies[k] +
                    (IF k = new.word /\ new.is_copy THEN 1 ELSE 0) -
                    (IF k = old.word /\ old.is_copy THEN 1 ELSE 0)
            /\ after.references[k] = ledger.references[k] +
                    (IF k = new.word /\ ~new.is_copy THEN 1 ELSE 0) -
                    (IF k = old.word /\ ~old.is_copy THEN 1 ELSE 0)
    BY <1>1, <1>2, Entries, SMTT(30)
<1> QED
    BY <1>3, <1>4

-----------------------------------------------------------------------------
(***************************************************************************)
(* Whatever integers start and end are, pymod_parse_start_end refuses them *)
(* or selects the slice string[start:end] of Python, as documented         *)
(* (docs/automaton_iter_long.rst:14); if end is negative, it selects one   *)
(* letter less instead (utils.c:348).                                      *)
(***************************************************************************)
THEOREM SliceCorrect ==
    ASSUME NEW max \in Nat, NEW args,
           args = <<>> \/ (\E v \in Int : args = <<v>>) \/ (\E v, w \in Int : args = <<v, w>>)
    PROVE  /\ ~NegativeEnd(args) => SelectsAsPython(args, max)
           /\ NegativeEnd(args) => SelectsOneLess(args, max)
<1>1. CASE args = <<>>
    BY <1>1 DEF SelectsAsPython, pymod_parse_start_end, PythonSlice, Bounds, NegativeEnd
<1>2. CASE \E v \in Int : args = <<v>>
  <2>1. PICK v \in Int : args = <<v>>
    BY <1>2
  <2>2. Len(args) = 1 /\ args[1] = v
    BY <2>1
  <2> QED
    BY <2>1, <2>2 DEF SelectsAsPython, pymod_parse_start_end, PythonSlice, Bounds, IndexError,
                      StartIndex, Clamped, NegativeEnd
<1>3. CASE \E v, w \in Int : args = <<v, w>>
  <2>1. PICK v \in Int, w \in Int : args = <<v, w>>
    BY <1>3
  <2>2. Len(args) = 2 /\ args[1] = v /\ args[2] = w
    BY <2>1
  <2>3. ASSUME w >= 0 PROVE SelectsAsPython(args, max)
    BY <2>1, <2>2, <2>3 DEF SelectsAsPython, pymod_parse_start_end, PythonSlice, Bounds,
                            IndexError, StartIndex, EndIndex, Clamped
  <2>4. ASSUME w < 0 PROVE SelectsOneLess(args, max)
    BY <2>1, <2>2, <2>4 DEF SelectsOneLess, pymod_parse_start_end, PythonSlice, Bounds,
                            IndexError, StartIndex, EndIndex, Clamped
  <2> QED
    BY <2>1, <2>2, <2>3, <2>4 DEF NegativeEnd
<1> QED
    BY <1>1, <1>2, <1>3

\* The arguments that the runs try are such integers.
LEMMA ArgumentsAre ==
    ASSUME NEW max \in Nat, NEW args \in Arguments(max)
    PROVE  \/ args = <<>>
           \/ \E v \in Int : args = <<v>>
           \/ \E v, w \in Int : args = <<v, w>>
BY DEF Arguments
=============================================================================
