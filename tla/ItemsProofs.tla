----------------------------- MODULE ItemsProofs -----------------------------
(***************************************************************************)
(* The items iterator and the linked list that is its stack.               *)
(*                                                                         *)
(* The list is a sequence: each function of slist.c does to the pointers   *)
(* what its name says of the sequence, for every list, however long.       *)
(*                                                                         *)
(* The walk: the nodes waiting lie side by side in the trie, the deeper    *)
(* ones first.  So no word is under two of them, none of them is under a   *)
(* word that was yielded, and what the buffer spells down to the node on   *)
(* top is right for the parents of all the others.  ItemsInv says this     *)
(* and that every word still to come is under a node waiting.              *)
(***************************************************************************)
EXTENDS ItemsIter, TrieProofs

\* IsList over positions 1..n, the form the steps below use.
Strung(l, s, n) ==
    /\ \A i, j \in 1..n : s[i] = s[j] => i = j
    /\ DOMAIN l.next = {s[k] : k \in 1..n} /\ nil \notin DOMAIN l.next
    /\ l.head = IF n = 0 THEN nil ELSE s[1]
    /\ l.last = IF n = 0 THEN nil ELSE s[n]
    /\ \A k \in 1..n : l.next[s[k]] = IF k = n THEN nil ELSE s[k + 1]

\* Positions range over the domain of the sequence.
LEMMA Positions ==
    ASSUME NEW Items, NEW l, NEW s \in Seq(Items)
    PROVE  IsList(l, s) <=> Strung(l, s, Len(s))
<1>1. DOMAIN s = 1..Len(s) /\ Len(s) \in Nat
    OBVIOUS
<1>2. s = <<>> <=> Len(s) = 0
    BY EmptySeq
<1> QED
    BY <1>1, <1>2 DEF IsList, IsInjective, Strung

\* A list that was just initialized is empty.
THEOREM InitEmpty == IsList(list_init, <<>>)
BY DEF IsList, list_init, IsInjective

\* An item that is not on the list yet is put behind the others.
THEOREM AppendCorrect ==
    ASSUME NEW Items, NEW l, NEW s \in Seq(Items), IsList(l, s),
           NEW item \in Items, item \notin DOMAIN l.next, item # nil
    PROVE  IsList(list_append(l, item), Append(s, item))
<1> DEFINE n == Len(s)
           t == Append(s, item)
           r == list_append(l, item)
<1>1. n \in Nat /\ t \in Seq(Items) /\ Len(t) = n + 1
    BY AppendProperties, LenProperties
<1>2. (\A k \in 1..n : t[k] = s[k]) /\ t[n + 1] = item
    BY AppendProperties
<1>3. /\ \A i, j \in 1..n : s[i] = s[j] => i = j
      /\ DOMAIN l.next = {s[k] : k \in 1..n} /\ nil \notin DOMAIN l.next
      /\ l.head = IF n = 0 THEN nil ELSE s[1]
      /\ l.last = IF n = 0 THEN nil ELSE s[n]
      /\ \A k \in 1..n : l.next[s[k]] = IF k = n THEN nil ELSE s[k + 1]
    BY <1>1, Positions DEF Strung
<1>4. /\ DOMAIN r.next = DOMAIN l.next \cup {item}
      /\ r.last = item /\ r.head = IF l.last = nil THEN item ELSE l.head
      /\ r.next[item] = nil
      /\ \A x \in DOMAIN l.next : r.next[x] = IF x = l.last THEN item ELSE l.next[x]
    BY <1>3 DEF list_append, list_item_new
<1> HIDE DEF n, t, r
<1>5. \A k \in 1..n : s[k] \in DOMAIN l.next /\ s[k] # item /\ s[k] # nil
    BY <1>3
<1>6. \A i, j \in 1..(n + 1) : t[i] = t[j] => i = j
  <2>1. \A i \in 1..n : t[i] # t[n + 1]
    BY <1>2, <1>5
  <2>2. \A i, j \in 1..n : t[i] = t[j] => i = j
    BY <1>2, <1>3
  <2>3. \A i \in 1..(n + 1) : i \in 1..n \/ i = n + 1
    BY <1>1
  <2> QED
    BY <2>1, <2>2, <2>3
<1>7. DOMAIN r.next = {t[k] : k \in 1..(n + 1)}
    BY <1>1, <1>2, <1>3, <1>4
<1>8. r.head = t[1] /\ r.last = t[n + 1] /\ nil \notin DOMAIN r.next
  <2>1. CASE n = 0
    BY <2>1, <1>1, <1>2, <1>3, <1>4
  <2>2. CASE n # 0
    BY <2>2, <1>1, <1>2, <1>3, <1>4, <1>5
  <2> QED
    BY <2>1, <2>2
<1>9. ASSUME NEW k \in 1..(n + 1)
      PROVE  r.next[t[k]] = IF k = n + 1 THEN nil ELSE t[k + 1]
  <2>1. CASE k = n + 1
    BY <2>1, <1>1, <1>2, <1>4
  <2>2. CASE k = n
    BY <2>2, <1>1, <1>2, <1>3, <1>4, <1>5
  <2>3. CASE k < n
    <3>1. k \in 1..n /\ k + 1 \in 1..n /\ n \in 1..n /\ s[k] # s[n]
      BY <2>3, <1>1, <1>3
    <3>2. t[k] = s[k] /\ t[k + 1] = s[k + 1] /\ l.last = s[n]
      BY <3>1, <1>1, <1>2, <1>3
    <3>3. r.next[t[k]] = l.next[s[k]]
      BY <3>1, <3>2, <1>4, <1>5
    <3>4. l.next[s[k]] = s[k + 1]
      BY <2>3, <3>1, <1>1, <1>3
    <3> QED
      BY <2>3, <3>2, <3>3, <3>4, <1>1
  <2> QED
    BY <2>1, <2>2, <2>3, <1>1
<1>10. Strung(r, t, n + 1)
    BY <1>1, <1>6, <1>7, <1>8, <1>9 DEF Strung
<1>11. IsList(r, t)
    BY <1>1, <1>10, Positions
<1> QED
    BY <1>11 DEF r, t

\* An item that is not on the list yet is put before the others.
THEOREM PushFrontCorrect ==
    ASSUME NEW Items, NEW l, NEW s \in Seq(Items), IsList(l, s),
           NEW item \in Items, item \notin DOMAIN l.next, item # nil
    PROVE  IsList(list_push_front(l, item), <<item>> \o s)
<1> DEFINE n == Len(s)
           t == <<item>> \o s
           r == list_push_front(l, item)
<1>1. n \in Nat /\ t \in Seq(Items) /\ Len(t) = n + 1
    BY LenProperties, ConcatProperties
<1>2. t[1] = item /\ \A k \in 1..n : t[k + 1] = s[k]
    OBVIOUS
<1>3. /\ \A i, j \in 1..n : s[i] = s[j] => i = j
      /\ DOMAIN l.next = {s[k] : k \in 1..n} /\ nil \notin DOMAIN l.next
      /\ l.head = IF n = 0 THEN nil ELSE s[1]
      /\ l.last = IF n = 0 THEN nil ELSE s[n]
      /\ \A k \in 1..n : l.next[s[k]] = IF k = n THEN nil ELSE s[k + 1]
    BY <1>1, Positions DEF Strung
<1>4. /\ DOMAIN r.next = DOMAIN l.next \cup {item}
      /\ r.head = item /\ r.last = IF l.head = nil THEN item ELSE l.last
      /\ r.next[item] = IF l.head = nil THEN nil ELSE l.head
      /\ \A x \in DOMAIN l.next : r.next[x] = l.next[x]
    BY DEF list_push_front, list_item_new
<1> HIDE DEF n, t, r
<1>5. \A k \in 1..n : s[k] \in DOMAIN l.next /\ s[k] # item /\ s[k] # nil
    BY <1>3
<1>6. \A k \in 1..(n + 1) : k = 1 \/ (k - 1 \in 1..n /\ t[k] = s[k - 1])
    BY <1>1, <1>2
<1>7. \A i, j \in 1..(n + 1) : t[i] = t[j] => i = j
    BY <1>1, <1>2, <1>3, <1>5, <1>6
<1>8. DOMAIN r.next = {t[k] : k \in 1..(n + 1)}
  <2>1. \A k \in 1..(n + 1) : t[k] \in DOMAIN r.next
    BY <1>1, <1>2, <1>4, <1>5, <1>6
  <2>2. item = t[1] /\ 1 \in 1..(n + 1)
    BY <1>1, <1>2
  <2>3. \A k \in 1..n : s[k] = t[k + 1] /\ k + 1 \in 1..(n + 1)
    BY <1>1, <1>2
  <2> QED
    BY <2>1, <2>2, <2>3, <1>3, <1>4
<1>9. r.head = t[1] /\ r.last = t[n + 1] /\ nil \notin DOMAIN r.next
  <2>1. CASE n = 0
    BY <2>1, <1>1, <1>2, <1>3, <1>4
  <2>2. CASE n # 0
    BY <2>2, <1>1, <1>2, <1>3, <1>4, <1>5
  <2> QED
    BY <2>1, <2>2
<1>10. ASSUME NEW k \in 1..(n + 1)
       PROVE  r.next[t[k]] = IF k = n + 1 THEN nil ELSE t[k + 1]
  <2>1. CASE k = 1 /\ n = 0
    BY <2>1, <1>1, <1>2, <1>3, <1>4
  <2>2. CASE k = 1 /\ n # 0
    BY <2>2, <1>1, <1>2, <1>3, <1>4, <1>5
  <2>3. CASE k # 1
    <3>1. PICK i \in 1..n : k = i + 1 /\ t[k] = s[i]
      BY <2>3, <1>1, <1>6
    <3>2. i # n => i + 1 \in 1..n /\ t[k + 1] = s[i + 1]
      BY <3>1, <1>1, <1>2
    <3>3. r.next[t[k]] = l.next[s[i]]
      BY <3>1, <1>4, <1>5
    <3>4. l.next[s[i]] = IF i = n THEN nil ELSE s[i + 1]
      BY <1>3
    <3> QED
      BY <3>1, <3>2, <3>3, <3>4, <1>1
  <2> QED
    BY <2>1, <2>2, <2>3
<1>11. Strung(r, t, n + 1)
    BY <1>1, <1>7, <1>8, <1>9, <1>10 DEF Strung
<1>12. IsList(r, t)
    BY <1>1, <1>11, Positions
<1> QED
    BY <1>12 DEF r, t

\* The first item is taken off; the last pointer is reset with the last item.
THEOREM PopFirstCorrect ==
    ASSUME NEW Items, NEW l, NEW s \in Seq(Items), IsList(l, s), s # <<>>
    PROVE  l.head = Head(s) /\ IsList(list_pop_first(l), Tail(s))
<1> DEFINE n == Len(s)
           t == Tail(s)
           r == list_pop_first(l)
<1>1. n \in Nat /\ n > 0 /\ s[1] = Head(s) /\ Len(t) = n - 1 /\ n - 1 \in Nat
    BY HeadTailProperties, LenProperties, EmptySeq
<1>2. t \in Seq(Items) /\ \A k \in 1..(n - 1) : t[k] = s[k + 1]
    BY HeadTailProperties
<1>3. /\ \A i, j \in 1..n : s[i] = s[j] => i = j
      /\ DOMAIN l.next = {s[k] : k \in 1..n} /\ nil \notin DOMAIN l.next
      /\ l.head = s[1] /\ l.last = s[n]
      /\ \A k \in 1..n : l.next[s[k]] = IF k = n THEN nil ELSE s[k + 1]
  <2>1. Strung(l, s, n)
    BY Positions
  <2>2. n # 0
    BY <1>1
  <2> HIDE DEF n
  <2> QED
    BY <2>1, <2>2 DEF Strung
<1>4. \A k \in 1..n : s[k] \in DOMAIN l.next /\ s[k] # nil
    BY <1>3
<1>5. /\ r.head = l.next[s[1]]
      /\ r.last = IF l.next[s[1]] = nil THEN nil ELSE l.last
      /\ DOMAIN r.next = DOMAIN l.next \ {s[1]}
      /\ \A x \in DOMAIN r.next : r.next[x] = l.next[x]
    BY <1>1, <1>3, <1>4 DEF list_pop_first, Restrict
<1> HIDE DEF n, t, r
<1>6. \A k \in 1..(n - 1) : k + 1 \in 1..n /\ t[k] = s[k + 1]
    BY <1>1, <1>2
<1>7. \A i, j \in 1..(n - 1) : t[i] = t[j] => i = j
    BY <1>1, <1>3, <1>6
<1>8. ASSUME NEW k \in 1..(n - 1) PROVE t[k] \in DOMAIN r.next
  <2>1. k + 1 \in 1..n /\ 1 \in 1..n /\ k + 1 # 1 /\ t[k] = s[k + 1]
    BY <1>1, <1>6
  <2>2. s[k + 1] # s[1]
    BY <2>1, <1>3
  <2> QED
    BY <2>1, <2>2, <1>4, <1>5
<1>9. DOMAIN r.next = {t[k] : k \in 1..(n - 1)}
  <2>1. ASSUME NEW x \in DOMAIN r.next
        PROVE  \E k \in 1..(n - 1) : x = t[k]
    <3>1. PICK i \in 1..n : x = s[i] /\ i # 1
      BY <1>1, <1>3, <1>5
    <3>2. i - 1 \in 1..(n - 1) /\ t[i - 1] = s[i]
      BY <3>1, <1>1, <1>6
    <3> QED
      BY <3>1, <3>2
  <2> QED
    BY <2>1, <1>8
<1>10. /\ r.head = IF n - 1 = 0 THEN nil ELSE t[1]
       /\ r.last = IF n - 1 = 0 THEN nil ELSE t[n - 1]
       /\ nil \notin DOMAIN r.next
  <2>1. CASE n = 1
    BY <2>1, <1>1, <1>3, <1>5
  <2>2. CASE n # 1
    <3>1. 1 \in 1..(n - 1) /\ n - 1 \in 1..(n - 1) /\ 1 + 1 \in 1..n /\ (n - 1) + 1 = n
      BY <2>2, <1>1
    <3>2. t[1] = s[1 + 1] /\ t[n - 1] = s[n]
      BY <3>1, <1>6
    <3> QED
      BY <2>2, <3>1, <3>2, <1>1, <1>3, <1>4, <1>5
  <2> QED
    BY <2>1, <2>2
<1>11. ASSUME NEW k \in 1..(n - 1)
       PROVE  r.next[t[k]] = IF k = n - 1 THEN nil ELSE t[k + 1]
  <2>1. r.next[t[k]] = l.next[s[k + 1]] /\ k + 1 \in 1..n
    BY <1>5, <1>6, <1>8
  <2>2. CASE k = n - 1
    BY <2>1, <2>2, <1>1, <1>3
  <2>3. CASE k # n - 1
    <3>1. k + 1 \in 1..(n - 1)
      BY <2>3, <1>1
    <3> QED
      BY <2>1, <2>3, <3>1, <1>1, <1>3, <1>6
  <2> QED
    BY <2>2, <2>3
<1>12. Strung(r, t, n - 1)
    BY <1>1, <1>7, <1>9, <1>10, <1>11 DEF Strung
<1>13. IsList(r, t)
    BY <1>1, <1>2, <1>12, Positions
<1> QED
    BY <1>1, <1>3, <1>13 DEF r, t

\* Deleting a list frees every item on it.
THEOREM DeleteCorrect ==
    ASSUME NEW Items, NEW l, NEW s \in Seq(Items), IsList(l, s)
    PROVE  IsList(list_delete(l), <<>>)
<1> DEFINE n == Len(s)
           D == DOMAIN l.next
           B(f) == [k \in 0..Cardinality(D) |->
                        IF k = 0 THEN l.head
                        ELSE IF f[k - 1] \in D THEN l.next[f[k - 1]] ELSE nil]
           item == CHOOSE g : g = B(g)
           f == [k \in 0..n |-> IF k < n THEN s[k + 1] ELSE nil]
<1>1. n \in Nat /\ Strung(l, s, n)
    BY LenProperties, Positions
<1>2. Cardinality(D) = n
  <2> DEFINE b == [k \in 1..n |-> s[k]]
  <2>1. b \in Bijection(1..n, D)
    <3>1. b \in [1..n -> D] /\ \A y \in D : \E k \in 1..n : b[k] = y
      BY <1>1 DEF Strung
    <3>2. \A i, j \in 1..n : b[i] = b[j] => i = j
      BY <1>1 DEF Strung
    <3> HIDE DEF b, n, D
    <3> QED
      BY <3>1, <3>2 DEF Bijection, Injection, Surjection, IsInjective
  <2>2. ExistsBijection(1..n, D)
    BY <2>1 DEF ExistsBijection
  <2> HIDE DEF n, D
  <2> QED
    BY <1>1, <2>2, FS_CountingElements
<1>3. /\ l.head = IF n = 0 THEN nil ELSE s[1]
      /\ \A k \in 1..n : s[k] \in D /\ l.next[s[k]] = IF k = n THEN nil ELSE s[k + 1]
      /\ D = {s[k] : k \in 1..n} /\ nil \notin D
    BY <1>1 DEF Strung
<1> HIDE DEF n, D
<1>4. f = B(f)
  <2>1. ASSUME NEW k \in 0..n PROVE f[k] = B(f)[k]
    <3>1. CASE k = 0
      BY <3>1, <1>1, <1>2, <1>3
    <3>2. CASE k # 0
      <4>1. k \in 1..n /\ k - 1 \in 0..n /\ k - 1 < n /\ k - 1 + 1 = k /\ (k < n <=> k # n)
        BY <3>2, <1>1
      <4>2. f[k - 1] = s[k]
        BY <4>1
      <4>3. s[k] \in D /\ l.next[s[k]] = f[k]
        BY <4>1, <1>3
      <4> HIDE DEF f
      <4> QED
        BY <4>2, <4>3, <3>2, <1>2
    <3> QED
      BY <3>1, <3>2
  <2> QED
    BY <2>1, <1>2
<1>5. item = B(item)
  <2> HIDE DEF B, f
  <2> QED
    BY <1>4
<1> HIDE DEF item
<1>6. /\ item[0] = l.head
      /\ \A k \in 1..n : item[k] = IF item[k - 1] \in D THEN l.next[item[k - 1]] ELSE nil
      /\ DOMAIN item = 0..n
    BY <1>1, <1>2, <1>5
<1> HIDE DEF B
<1>7. \A k \in 0..n : item[k] = IF k < n THEN s[k + 1] ELSE nil
  <2> DEFINE T == {k \in 0..n : item[k] = IF k < n THEN s[k + 1] ELSE nil}
  <2>1. 0 \in T
    BY <1>1, <1>3, <1>6
  <2>2. ASSUME NEW k \in 1..n, k - 1 \in T PROVE k \in T
    <3>1. item[k - 1] = s[k] /\ (k < n <=> k # n) /\ k \in 0..n
      BY <2>2, <1>1
    <3>2. item[k] = IF k = n THEN nil ELSE s[k + 1]
      BY <3>1, <1>3, <1>6
    <3> QED
      BY <3>1, <3>2
  <2> HIDE DEF T
  <2>3. 0..n \subseteq T
    BY <1>1, <2>1, <2>2, UpTo
  <2> QED
    BY <2>3 DEF T
<1>8. Chain(l) = {item[k] : k \in DOMAIN item} \ {nil}
    BY DEF Chain, item, B, D
<1>9. ASSUME NEW x \in D PROVE x \in Chain(l)
  <2>1. PICK k \in 1..n : x = s[k]
    BY <1>3
  <2>2. k - 1 \in 0..n /\ k - 1 < n /\ k - 1 + 1 = k
    BY <1>1
  <2>3. item[k - 1] = x
    BY <2>1, <2>2, <1>7
  <2> QED
    BY <2>2, <2>3, <1>3, <1>6, <1>8
<1> QED
  <2>1. D \ Chain(l) = {}
    BY <1>9
  <2> QED
    BY <2>1 DEF list_delete, Restrict, list_init, IsList, IsInjective, D

-----------------------------------------------------------------------------
(* What the walk knows. *)

\* The node or word w lies at p or under it.
Below(w, p) == Len(p) <= Len(w) /\ At(w, Len(p)) = p

ArgsOK ==
    /\ words \in Dictionaries /\ nodes = Built(words)
    /\ pattern \in Patterns /\ wildcard \in Wildcards
    /\ matchtype \in {"EXACT_LENGTH", "AT_MOST_PREFIX", "AT_LEAST_PREFIX"}
    /\ type \in {"KEYS", "VALUES"}

\* The nodes waiting lie side by side, the deeper ones first, and agree with the pattern.
Walk(s) ==
    /\ s \in Seq(DOMAIN nodes)
    /\ \A i, j \in 1..Len(s) : Below(s[i], s[j]) => i = j
    /\ \A i, j \in 1..Len(s) : i < j => Len(s[i]) >= Len(s[j])
    /\ \A i \in 1..Len(s) : Agrees(s[i])

\* What was yielded is right, and no node waiting leads to it again.
YieldedOK(s) ==
    /\ \A j \in 1..Len(found) :
        found[j][2] \in Expected /\ \A i \in 1..Len(s) : ~Below(found[j][2], s[i])
    /\ \A j, k \in 1..Len(found) : found[j][2] = found[k][2] => j = k

\* What is still to be yielded lies under a node waiting.
Covered(s) ==
    \A w \in Expected :
        (\E j \in 1..Len(found) : found[j][2] = w) \/ \E i \in 1..Len(s) : Below(w, s[i])

\* The keys are spelled right, and the buffer spells the way to the parent of a node waiting.
SpelledOK(s) ==
    /\ \A j \in 1..Len(found) : found[j][1] = found[j][2]
    /\ type = "KEYS" => \A i \in 1..Len(s) : \A k \in 1..(Len(s[i]) - 1) : buffer[k] = s[i][k]

EndOK ==
    /\ pc \in {"idle", "next", "deleted"}
    /\ (pc = "deleted" \/ ended) => stack = <<>>
    /\ ended => pc # "next"

\* After a MemoryError keys may be missing and be spelled wrong, but none comes twice.
WalkOK ==
    \/ stack = <<NULL>> /\ words = {} /\ found = <<>>
    \/ /\ Walk(stack) /\ YieldedOK(stack)
       /\ ~failed => SpelledOK(stack) /\ ((pc # "deleted" \/ ended) => Covered(stack))

ItemsInv ==
    /\ ArgsOK /\ EndOK /\ WalkOK /\ ListOK
    /\ found \in Seq(ToSet(found)) /\ DOMAIN buffer = 0..longest_word

-----------------------------------------------------------------------------
(* The trie that is walked. *)

\* Its nodes are the ways to its words, linked to one another.
LEMMA NodesLinked ==
    ASSUME ArgsOK
    PROVE  /\ DOMAIN nodes \subseteq Seq(Letters) /\ words \subseteq DOMAIN nodes
           /\ \A p \in DOMAIN nodes :
                /\ nodes[p].eow = (p \in words)
                /\ nodes[p].next \in Seq(Letters) /\ IsInjective(nodes[p].next)
                /\ ToSet(nodes[p].next) = {l \in Letters : Append(p, l) \in DOMAIN nodes}
                /\ \A k \in 0..Len(p) : At(p, k) \in DOMAIN nodes
<1>1. IsFiniteSet(words) /\ words \subseteq Seq(Letters)
    BY DictionaryAssumption DEF ArgsOK
<1>2. /\ DOMAIN nodes = PathsOf(words)
      /\ \A p \in DOMAIN nodes :
            nodes[p] = [next |-> SetToSeq(Kids(words, p)), eow |-> p \in words, output |-> 0,
                        fail |-> IF p = Root THEN NULL ELSE LongestSuffix(nodes, p)]
    BY BuiltFields DEF ArgsOK
<1>3. /\ PathsOf(words) \subseteq Seq(Letters) /\ words \subseteq PathsOf(words)
      /\ \A p \in PathsOf(words) : \A k \in 0..Len(p) : At(p, k) \in PathsOf(words)
    BY <1>1, PathsClosed
<1>4. ASSUME NEW p \in DOMAIN nodes
      PROVE  /\ nodes[p].eow = (p \in words)
             /\ nodes[p].next \in Seq(Letters) /\ IsInjective(nodes[p].next)
             /\ ToSet(nodes[p].next) = {l \in Letters : Append(p, l) \in DOMAIN nodes}
  <2>1. IsFiniteSet(Kids(words, p)) /\ Kids(words, p) \subseteq Letters
    BY <1>1, <1>2, KidsFinite DEF Kids
  <2> DEFINE kids == SetToSeq(Kids(words, p))
             key == p \in words
             fail == IF p = Root THEN NULL ELSE LongestSuffix(nodes, p)
  <2>2. kids \in Seq(Kids(words, p)) /\ ToSet(kids) = Kids(words, p) /\ IsInjective(kids)
    BY <2>1, SetListed
  <2>3. nodes[p] = [next |-> kids, eow |-> key, output |-> 0, fail |-> fail]
    BY <1>2
  <2> HIDE DEF kids, key, fail
  <2>4. nodes[p].next = kids /\ nodes[p].eow = key
    BY <2>3
  <2>5. kids \in Seq(Letters)
    BY <2>1, <2>2
  <2> QED
    BY <2>2, <2>4, <2>5, <1>2 DEF key, Kids
<1> QED
    BY <1>2, <1>3, <1>4

\* No node lies deeper than the longest word.
LEMMA NodesFit ==
    ASSUME ArgsOK
    PROVE  longest_word \in Nat /\ \A p \in DOMAIN nodes : Len(p) <= longest_word
<1>1. IsFiniteSet(words) /\ words \subseteq Seq(Letters)
    BY DictionaryAssumption DEF ArgsOK
<1> DEFINE lengths == {Len(w) : w \in words}
           T == {0} \cup lengths
<1>2. IsFiniteSet(T) /\ T \subseteq Nat
  <2>1. lengths \subseteq Nat
    BY <1>1, LenProperties
  <2> DEFINE f == [w \in words |-> Len(w)]
  <2>2. f \in Surjection(words, lengths)
    BY DEF Surjection
  <2> HIDE DEF f, lengths
  <2>3. IsFiniteSet(lengths)
    BY <1>1, <2>2, FS_Surjection
  <2>4. T = lengths \cup {0}
    OBVIOUS
  <2> HIDE DEF T
  <2> QED
    BY <2>1, <2>3, <2>4, FS_AddElement
<1>3. longest_word = Max(T)
    BY DEF longest_word
<1>4. 0 \in T /\ \A w \in words : Len(w) \in T
    OBVIOUS
<1> HIDE DEF T
<1>5. longest_word \in T /\ \A y \in T : longest_word >= y
  <2>1. PICK n \in Nat : \A y \in T : y <= n
    BY <1>2, FiniteBounded
  <2>2. T \subseteq 0..n
    BY <1>2, <2>1
  <2> QED
    BY <1>3, <1>4, <2>2, MaxExists
<1>6. ASSUME NEW p \in DOMAIN nodes PROVE Len(p) <= longest_word
  <2>1. p \in PathsOf(words)
    BY BuiltFields DEF ArgsOK
  <2>2. CASE p = <<>>
    BY <2>2, <1>2, <1>4, <1>5
  <2>3. ASSUME NEW w \in words, p \in Prefixes(w) PROVE Len(p) <= longest_word
    <3>1. w \in Seq(Letters) /\ Len(w) \in Nat
      BY <1>1, LenProperties
    <3>2. PICK k \in 0..Len(w) : p = At(w, k)
      BY <2>3 DEF Prefixes, At
    <3>3. Len(p) = k
      BY <3>1, <3>2, AtType
    <3> QED
      BY <3>1, <3>3, <1>2, <1>4, <1>5
  <2> QED
    BY <2>1, <2>2, <2>3 DEF PathsOf
<1> QED
    BY <1>2, <1>5, <1>6

-----------------------------------------------------------------------------
(* The nodes waiting. *)

\* Words lie at or under nodes as their letters begin.
LEMMA BelowFacts ==
    ASSUME NEW S, NEW w \in Seq(S), NEW q \in Seq(S), NEW p \in Seq(S)
    PROVE  /\ Below(p, p)
           /\ Below(w, q) /\ Below(q, p) => Below(w, p)
           /\ Below(w, q) /\ Below(w, p) /\ Len(p) <= Len(q) => Below(q, p)
<1>1. Len(w) \in Nat /\ Len(q) \in Nat /\ Len(p) \in Nat
    BY LenProperties
<1>2. Below(p, p)
  <2>1. Len(p) \in 0..Len(p)
    BY <1>1
  <2> QED
    BY <1>1, <2>1, AtAt DEF Below
<1>3. ASSUME Below(w, q), Len(p) <= Len(q)
      PROVE  At(q, Len(p)) = At(w, Len(p)) /\ Len(p) <= Len(w)
  <2>1. Len(q) \in 0..Len(w) /\ Len(p) \in 0..Len(q) /\ At(w, Len(q)) = q
    BY <1>1, <1>3 DEF Below
  <2>2. At(At(w, Len(q)), Len(p)) = At(w, Len(p))
    BY <2>1, AtAt
  <2> QED
    BY <1>1, <2>1, <2>2
<1>4. Below(w, q) /\ Below(q, p) => Below(w, p)
    BY <1>3 DEF Below
<1>5. Below(w, q) /\ Below(w, p) /\ Len(p) <= Len(q) => Below(q, p)
    BY <1>3 DEF Below
<1> QED
    BY <1>2, <1>4, <1>5

\* A child lies under its parent.
LEMMA ChildBelow ==
    ASSUME NEW S, NEW p \in Seq(S), NEW l \in S
    PROVE  Below(Append(p, l), p)
<1> DEFINE c == Append(p, l)
           n == Len(p)
<1>1. n \in Nat /\ c \in Seq(S) /\ Len(c) = n + 1 /\ \A k \in 1..n : c[k] = p[k]
    BY LenProperties, AppendProperties
<1> HIDE DEF c
<1>2. n \in 0..Len(c) /\ n <= Len(c)
    BY <1>1
<1>3. At(c, n) \in Seq(S) /\ Len(At(c, n)) = n /\ \A k \in 1..n : At(c, n)[k] = c[k]
    BY <1>1, <1>2, AtType
<1>4. At(c, n) = p
    BY <1>1, <1>3, SeqEqual
<1> QED
    BY <1>2, <1>4 DEF Below, c

\* The nodes r with the children c pushed one by one on them: the last one lies on top.
Stacked(s, r, c) ==
    /\ Len(s) = Len(c) + Len(r)
    /\ \A i \in 1..Len(c) : s[i] = c[Len(c) - i + 1]
    /\ \A i \in 1..Len(r) : s[Len(c) + i] = r[i]

\* That is what pushing does.
LEMMA PushElements ==
    ASSUME NEW S, NEW c \in Seq(S), NEW r \in Seq(S)
    PROVE  Push(r, c) \in Seq(S) /\ Stacked(Push(r, c), r, c)
<1> DEFINE s == Push(r, c)
           b == Reverse(c)
<1>1. Len(c) \in Nat /\ Len(r) \in Nat
    BY LenProperties
<1>2. b = [i \in 1..Len(c) |-> c[Len(c) - i + 1]]
    BY DEF Reverse
<1>3. b \in Seq(S) /\ Len(b) = Len(c) /\ \A i \in 1..Len(c) : b[i] = c[Len(c) - i + 1]
  <2>1. \A i \in 1..Len(c) : Len(c) - i + 1 \in 1..Len(c)
    BY <1>1
  <2>2. \A i \in 1..Len(c) : c[Len(c) - i + 1] \in S
    BY <2>1, ElementOfSeq
  <2> HIDE DEF b
  <2>3. b \in [1..Len(c) -> S]
    BY <1>2, <2>2
  <2>4. b \in Seq(S) /\ Len(b) = Len(c)
    BY <1>1, <2>3, LenProperties, SeqDef
  <2> QED
    BY <1>2, <2>4
<1>4. s = b \o r
    BY DEF Push
<1> HIDE DEF b, s
<1>5. /\ b \o r \in Seq(S) /\ Len(b \o r) = Len(b) + Len(r)
      /\ \A i \in 1..(Len(b) + Len(r)) :
            (b \o r)[i] = IF i <= Len(b) THEN b[i] ELSE r[i - Len(b)]
  <2>1. b \in Seq(S) /\ r \in Seq(S)
    BY <1>3
  <2> QED
    BY ONLY <2>1, ConcatProperties
<1>6. \A i \in 1..Len(c) : s[i] = b[i]
    BY <1>1, <1>3, <1>4, <1>5
<1>7. ASSUME NEW i \in 1..Len(r) PROVE s[Len(c) + i] = r[i]
  <2> DEFINE j == Len(c) + i
  <2>1. j \in 1..(Len(b) + Len(r)) /\ ~(j <= Len(b)) /\ j - Len(b) = i
    BY <1>1, <1>3
  <2> HIDE DEF j
  <2>2. s[j] = r[i]
    BY <1>4, <1>5, <2>1
  <2> QED
    BY <2>2 DEF j
<1> QED
    BY <1>3, <1>4, <1>5, <1>6, <1>7 DEF Stacked, s

\* Children of the node on top, in the order in which they are pushed.
KidsOK(c) ==
    /\ c \in Seq(DOMAIN nodes) /\ IsInjective(c)
    /\ \A k \in 1..Len(c) : Len(c[k]) = depth + 1 /\ Below(c[k], Top) /\ Agrees(c[k])

\* The stack s holds the nodes c and those of the stack but the top.
Replaces(s, c) ==
    /\ \A i \in 1..Len(s) :
        (\E k \in 1..Len(c) : s[i] = c[k]) \/ (\E k \in 2..Len(stack) : s[i] = stack[k])
    /\ \A k \in 1..Len(c) : \E i \in 1..Len(s) : s[i] = c[k]
    /\ \A k \in 2..Len(stack) : \E i \in 1..Len(s) : s[i] = stack[k]

\* The children that an allocation failure leaves are children still.
LEMMA KidsPart ==
    ASSUME NEW c, KidsOK(c), NEW m \in 0..Len(c)
    PROVE  KidsOK(At(c, m)) /\ Len(At(c, m)) = m
<1>1. c \in Seq(DOMAIN nodes) /\ Len(c) \in Nat /\ DOMAIN c = 1..Len(c)
    BY LenProperties DEF KidsOK
<1>2. /\ At(c, m) \in Seq(DOMAIN nodes) /\ Len(At(c, m)) = m
      /\ \A j \in 1..m : At(c, m)[j] = c[j] /\ j \in 1..Len(c)
    BY <1>1, AtType
<1>3. DOMAIN At(c, m) = 1..m
    BY <1>2, LenProperties
<1>4. IsInjective(At(c, m))
    BY <1>1, <1>2, <1>3 DEF KidsOK, IsInjective
<1> QED
    BY <1>2, <1>4 DEF KidsOK

\* Putting children in the place of the node on top keeps the nodes side by side.
LEMMA WalkDown ==
    ASSUME ArgsOK, Walk(stack), stack # <<>>, NEW c, KidsOK(c), NEW s, s = Push(Rest, c)
    PROVE  Walk(s) /\ Replaces(s, c)
<1> DEFINE n == Len(c)
           m == Len(stack)
<1>1. /\ stack \in Seq(DOMAIN nodes) /\ m \in Nat /\ m >= 1 /\ Top = stack[1]
      /\ Rest \in Seq(DOMAIN nodes) /\ Len(Rest) = m - 1
      /\ \A i \in 1..(m - 1) : Rest[i] = stack[i + 1]
    BY HeadTailProperties, LenProperties, EmptySeq DEF Walk, Top, Rest
<1>2. c \in Seq(DOMAIN nodes) /\ n \in Nat /\ DOMAIN c = 1..n
    BY LenProperties DEF KidsOK
<1>3. /\ s \in Seq(DOMAIN nodes) /\ Len(s) = n + m - 1
      /\ \A i \in 1..n : s[i] = c[n - i + 1]
      /\ \A i \in 1..(m - 1) : s[n + i] = Rest[i]
  <2>1. /\ s \in Seq(DOMAIN nodes) /\ Len(s) = Len(c) + Len(Rest)
        /\ \A i \in 1..Len(c) : s[i] = c[Len(c) - i + 1]
        /\ \A i \in 1..Len(Rest) : s[Len(c) + i] = Rest[i]
    <3>1. c \in Seq(DOMAIN nodes) /\ Rest \in Seq(DOMAIN nodes)
      BY <1>1, <1>2
    <3>2. Push(Rest, c) \in Seq(DOMAIN nodes) /\ Stacked(Push(Rest, c), Rest, c)
      BY ONLY <3>1, PushElements
    <3> QED
      BY <3>2 DEF Stacked
  <2> QED
    BY <2>1, <1>1, <1>2
<1> HIDE DEF n, m
<1> DEFINE InKids(i, k) == k \in 1..n /\ i + k = n + 1 /\ s[i] = c[k]
           InRest(i, k) == k \in 2..m /\ i + 1 = n + k /\ s[i] = stack[k]
<1>4. \A i \in 1..Len(s) : \E k \in 1..(n + m) : InKids(i, k) \/ InRest(i, k)
  <2> TAKE i \in 1..Len(s)
  <2>1. CASE i <= n
    <3>1. n - i + 1 \in 1..n /\ n - i + 1 \in 1..(n + m) /\ i + (n - i + 1) = n + 1 /\ i \in 1..n
      BY <2>1, <1>1, <1>2, <1>3
    <3>2. InKids(i, n - i + 1)
      BY <3>1, <1>3
    <3> HIDE DEF InKids
    <3> QED
      BY <3>1, <3>2
  <2>2. CASE i > n
    <3> DEFINE k == i - n + 1
    <3>1. /\ i - n \in 1..(m - 1) /\ n + (i - n) = i /\ (i - n) + 1 = k
          /\ k \in 2..m /\ k \in 1..(n + m) /\ i + 1 = n + k
      BY <2>2, <1>1, <1>2, <1>3
    <3> HIDE DEF k
    <3>2. s[i] = Rest[i - n] /\ Rest[i - n] = stack[k]
      BY <3>1, <1>1, <1>3
    <3>3. InRest(i, k)
      BY <3>1, <3>2
    <3> HIDE DEF InRest
    <3> QED
      BY <3>1, <3>3
  <2> QED
    BY <2>1, <2>2, <1>2, <1>3
<1>5. Replaces(s, c)
  <2>1. ASSUME NEW k \in 1..n PROVE \E i \in 1..Len(s) : s[i] = c[k]
    <3>1. n - k + 1 \in 1..n /\ n - (n - k + 1) + 1 = k /\ n - k + 1 \in 1..Len(s)
      BY <1>1, <1>2, <1>3
    <3>2. s[n - k + 1] = c[k]
      BY <3>1, <1>3
    <3> QED
      BY <3>1, <3>2
  <2>2. ASSUME NEW k \in 2..m PROVE \E i \in 1..Len(s) : s[i] = stack[k]
    <3>1. k - 1 \in 1..(m - 1) /\ n + (k - 1) \in 1..Len(s) /\ (k - 1) + 1 = k
      BY <1>1, <1>2, <1>3
    <3>2. s[n + (k - 1)] = stack[k]
      BY <3>1, <1>1, <1>3
    <3> QED
      BY <3>1, <3>2
  <2> QED
    BY <2>1, <2>2, <1>4 DEF Replaces, n, m
<1>6. /\ \A k \in 1..n : Len(c[k]) = Len(Top) + 1 /\ Below(c[k], Top) /\ Agrees(c[k])
      /\ \A j, k \in 1..n : c[j] = c[k] => j = k
    BY <1>2 DEF KidsOK, depth, IsInjective, n
<1>7. /\ \A j, k \in 1..m : Below(stack[j], stack[k]) => j = k
      /\ \A j, k \in 1..m : j < k => Len(stack[j]) >= Len(stack[k])
      /\ \A k \in 1..m : Agrees(stack[k])
    BY DEF Walk, m
<1>8. /\ DOMAIN nodes \subseteq Seq(Letters)
      /\ \A k \in 1..m : stack[k] \in DOMAIN nodes /\ Len(stack[k]) \in Nat
      /\ \A k \in 1..n : c[k] \in DOMAIN nodes
      /\ 1 \in 1..m /\ \A k \in 2..m : k \in 1..m /\ 1 < k /\ k # 1
  <2>1. DOMAIN nodes \subseteq Seq(Letters)
    BY NodesLinked
  <2>2. \A k \in 1..m : stack[k] \in DOMAIN nodes
    BY <1>1, ElementOfSeq DEF m
  <2>3. \A k \in 1..n : c[k] \in DOMAIN nodes
    BY <1>2, ElementOfSeq DEF n
  <2>4. \A k \in 1..m : Len(stack[k]) \in Nat
    BY <2>1, <2>2, LenProperties
  <2> QED
    BY <2>1, <2>2, <2>3, <2>4, <1>1
<1>9. ASSUME NEW j \in 1..n, NEW k \in 2..m
      PROVE  /\ ~Below(c[j], stack[k]) /\ ~Below(stack[k], c[j])
             /\ Len(c[j]) >= Len(stack[k])
  <2>1. Len(stack[k]) <= Len(Top) /\ Len(Top) \in Nat /\ Len(stack[k]) \in Nat
    BY <1>1, <1>7, <1>8
  <2>2. ~Below(Top, stack[k]) /\ ~Below(stack[k], Top)
    BY <1>1, <1>7, <1>8
  <2>3. Top \in Seq(Letters) /\ c[j] \in Seq(Letters) /\ stack[k] \in Seq(Letters)
    BY <1>1, <1>8
  <2>4. Below(c[j], Top) /\ Len(c[j]) = Len(Top) + 1
    BY <1>6
  <2>5. ~Below(stack[k], c[j])
    BY <2>2, <2>3, <2>4, BelowFacts
  <2>6. ~Below(c[j], stack[k])
    BY <2>1, <2>2, <2>3, <2>4, BelowFacts
  <2> QED
    BY <2>1, <2>4, <2>5, <2>6
<1>10. ASSUME NEW j \in 1..n, NEW k \in 1..n, Below(c[j], c[k]) PROVE j = k
  <2>1. Len(c[j]) = Len(c[k]) /\ c[j] \in Seq(Letters)
    BY <1>6, <1>8
  <2>2. At(c[j], Len(c[j])) = c[j]
    BY <2>1, BelowFacts DEF Below
  <2>3. c[j] = c[k]
    BY <2>1, <2>2, <1>10 DEF Below
  <2> QED
    BY <2>3, <1>6
<1>11. ASSUME NEW i \in 1..Len(s), NEW j \in 1..Len(s)
       PROVE  /\ Below(s[i], s[j]) => i = j
              /\ i < j => Len(s[i]) >= Len(s[j])
  <2>1. PICK x \in 1..(n + m) : InKids(i, x) \/ InRest(i, x)
    BY <1>4
  <2>2. PICK y \in 1..(n + m) : InKids(j, y) \/ InRest(j, y)
    BY <1>4
  <2>3. i \in Int /\ j \in Int /\ x \in Int /\ y \in Int /\ n \in Int /\ Len(Top) \in Int
    BY <1>1, <1>2, <1>8
  <2>4. CASE InKids(i, x) /\ InKids(j, y)
    <3>1. Below(s[i], s[j]) => x = y
      BY <2>4, <1>10
    <3>2. Len(s[i]) = Len(Top) + 1 /\ Len(s[j]) = Len(Top) + 1
      BY <2>4, <1>6
    <3> QED
      BY <3>1, <3>2, <2>3, <2>4
  <2>5. CASE InRest(i, x) /\ InRest(j, y)
    <3>1. /\ x \in 1..m /\ y \in 1..m /\ s[i] = stack[x] /\ s[j] = stack[y]
          /\ (x = y => i = j) /\ (i < j => x < y)
      BY <2>3, <2>5, <1>8
    <3> QED
      BY <3>1, <1>7
  <2>6. CASE InKids(i, x) /\ InRest(j, y)
    BY <2>6, <1>9
  <2>7. CASE InRest(i, x) /\ InKids(j, y)
    <3>1. ~(i < j) /\ x \in 2..m /\ y \in 1..n /\ s[i] = stack[x] /\ s[j] = c[y]
      BY <2>3, <2>7
    <3> QED
      BY <3>1, <1>9
  <2> QED
    BY <2>1, <2>2, <2>4, <2>5, <2>6, <2>7
<1>12. \A i \in 1..Len(s) : Agrees(s[i])
    BY <1>4, <1>6, <1>7, <1>8
<1> QED
    BY <1>3, <1>5, <1>11, <1>12 DEF Walk

\* The loop over the children lets through those that lead to keys that agree.
LEMMA ChildrenKids ==
    ASSUME ArgsOK, Walk(stack), stack # <<>>
    PROVE  /\ KidsOK(Children)
           /\ \A w \in words :
                Agrees(w) /\ Below(w, Top) /\ w # Top =>
                    \E k \in 1..Len(Children) : Below(w, Children[k])
<1> DEFINE next == nodes[Top].next
           child(l) == Append(Top, l)
           all == [k \in DOMAIN next |-> child(next[k])]
           any == depth >= pattern_length \/ pattern[depth + 1] = wildcard
           only == pattern[depth + 1]
<1>1. Top \in DOMAIN nodes /\ Top \in Seq(Letters) /\ Agrees(Top)
  <2>1. stack \in Seq(DOMAIN nodes) /\ Len(stack) \in Nat /\ 1 \in 1..Len(stack) /\ Top = stack[1]
    BY HeadTailProperties, LenProperties, EmptySeq DEF Walk, Top
  <2>2. stack[1] \in DOMAIN nodes
    BY <2>1, ElementOfSeq
  <2> QED
    BY <2>1, <2>2, NodesLinked DEF Walk
<1>2. /\ DOMAIN nodes \subseteq Seq(Letters) /\ words \subseteq DOMAIN nodes
      /\ next \in Seq(Letters) /\ IsInjective(next)
      /\ ToSet(next) = {l \in Letters : child(l) \in DOMAIN nodes}
  <2>1. /\ next \in Seq(Letters) /\ IsInjective(next)
        /\ ToSet(next) = {l \in Letters : Append(Top, l) \in DOMAIN nodes}
    BY <1>1, NodesLinked
  <2> QED
    BY <2>1, NodesLinked
<1>3. depth \in Nat /\ pattern_length \in Nat /\ depth = Len(Top)
  <2>1. pattern \in Seq(Letters \cup Wildcards)
    BY PatternAssumption DEF ArgsOK
  <2> QED
    BY <1>1, <2>1, LenProperties DEF depth, pattern_length
<1>4. DOMAIN next = 1..Len(next) /\ Len(next) \in Nat
    BY <1>2, LenProperties
<1> HIDE DEF next
<1>5. ASSUME NEW l \in ToSet(next), any \/ l = only
      PROVE  /\ child(l) \in DOMAIN nodes /\ Len(child(l)) = depth + 1
             /\ Below(child(l), Top) /\ Agrees(child(l))
  <2>1. child(l) \in DOMAIN nodes /\ l \in Letters
    BY <1>2
  <2>2. /\ Len(child(l)) = depth + 1 /\ child(l)[depth + 1] = l
        /\ \A k \in 1..depth : child(l)[k] = Top[k]
    BY <1>1, <1>3, <2>1, AppendProperties
  <2>3. Below(child(l), Top)
    BY <1>1, <2>1, ChildBelow
  <2>4. ASSUME NEW k \in 1..Len(child(l)), k <= pattern_length
        PROVE  pattern[k] \in {child(l)[k], wildcard}
    <3>1. CASE k = depth + 1
      BY <3>1, <2>2, <2>4, <1>3, <1>5
    <3>2. CASE k # depth + 1
      <4>1. k \in 1..Len(Top) /\ child(l)[k] = Top[k]
        BY <3>2, <2>2, <1>3
      <4> QED
        BY <4>1, <2>4, <1>1 DEF Agrees
    <3> QED
      BY <3>1, <3>2
  <2> HIDE DEF child
  <2> QED
    BY <2>1, <2>2, <2>3, <2>4 DEF Agrees
<1>6. ASSUME NEW w \in words, Agrees(w), Below(w, Top), w # Top
      PROVE  \E l \in ToSet(next) : (any \/ l = only) /\ Below(w, child(l))
  <2>1. w \in Seq(Letters) /\ Len(w) \in Nat /\ At(w, depth) = Top /\ depth <= Len(w)
    BY <1>2, <1>3, <1>6, LenProperties DEF Below
  <2>2. depth # Len(w)
    BY <2>1, <1>6, AtAt
  <2>3. depth \in 0..(Len(w) - 1) /\ depth + 1 \in 0..Len(w) /\ depth + 1 \in 1..Len(w)
    BY <1>3, <2>1, <2>2
  <2> DEFINE l == w[depth + 1]
  <2>4. l \in Letters /\ child(l) = At(w, depth + 1)
    BY <2>1, <2>3, ElementOfSeq, AppendAt
  <2>5. At(w, depth + 1) \in DOMAIN nodes
    BY <1>2, <2>3, NodesLinked
  <2>6. Below(w, child(l))
    BY <2>1, <2>3, <2>4, AtType DEF Below
  <2>7. any \/ l = only
    <3> SUFFICES ASSUME ~any PROVE l = only
      OBVIOUS
    <3>1. depth + 1 <= pattern_length /\ only # wildcard
      BY <1>3
    <3>2. pattern[depth + 1] \in {w[depth + 1], wildcard}
      BY <3>1, <2>3, <1>6 DEF Agrees
    <3> QED
      BY <3>1, <3>2
  <2>8. l \in ToSet(next)
    BY <1>2, <2>4, <2>5
  <2> HIDE DEF l, child, any, only
  <2> QED
    BY <2>6, <2>7, <2>8
<1>7. Children = IF any THEN all
                 ELSE IF trienode_get_next(nodes, Top, only) = NULL THEN <<>>
                 ELSE <<child(only)>>
    BY DEF Children, next
<1>8. CASE any
  <2>1. \A k \in 1..Len(next) : next[k] \in ToSet(next) /\ next[k] \in Letters
    BY <1>2, <1>4, ElementOfSeq DEF ToSet
  <2>2. /\ all \in Seq(DOMAIN nodes) /\ Len(all) = Len(next)
        /\ \A k \in 1..Len(next) : all[k] = child(next[k])
    <3>1. all \in [1..Len(next) -> DOMAIN nodes]
      <4> HIDE DEF child, any
      <4> QED
        BY <1>4, <1>5, <1>8, <2>1
    <3>2. \A k \in 1..Len(next) : all[k] = child(next[k])
      BY <1>4
    <3> HIDE DEF all
    <3> QED
      BY <3>1, <3>2, <1>4, SeqDef, LenProperties
  <2>3. IsInjective(all)
    <3>1. ASSUME NEW i \in 1..Len(next), NEW j \in 1..Len(next), child(next[i]) = child(next[j])
          PROVE  i = j
      <4>1. next[i] = next[j]
        BY <3>1, <2>1, <1>1, AppendInjective
      <4> QED
        BY <4>1, <1>2, <1>4 DEF IsInjective
    <3> HIDE DEF child
    <3>2. DOMAIN all = 1..Len(next)
      BY <1>4
    <3> HIDE DEF all
    <3> QED
      BY <3>1, <3>2, <2>2 DEF IsInjective
  <2>4. Children = all
    BY <1>7, <1>8
  <2> HIDE DEF all, child, any, only
  <2>5. KidsOK(Children)
    BY <2>1, <2>2, <2>3, <2>4, <1>5, <1>8 DEF KidsOK
  <2>6. ASSUME NEW l \in ToSet(next) PROVE \E k \in 1..Len(Children) : Children[k] = child(l)
    <3>1. PICK k \in 1..Len(next) : next[k] = l
      BY <1>4 DEF ToSet
    <3> QED
      BY <3>1, <2>2, <2>4
  <2> QED
    BY <2>5, <2>6, <1>6
<1>9. CASE ~any /\ only \notin ToSet(next)
  <2>1. trienode_get_next(nodes, Top, only) = NULL
    BY <1>9 DEF trienode_get_next, next
  <2>2. Children = <<>>
    BY <2>1, <1>7, <1>9
  <2>3. KidsOK(<<>>)
    BY DEF KidsOK, IsInjective
  <2> HIDE DEF any, only
  <2> QED
    BY <2>2, <2>3, <1>6, <1>9
<1>10. CASE ~any /\ only \in ToSet(next)
  <2>1. trienode_get_next(nodes, Top, only) = child(only)
    BY <1>10 DEF trienode_get_next, next
  <2>2. child(only) \in DOMAIN nodes /\ child(only) \in Seq(Letters)
    BY <1>2, <1>10
  <2>3. Children = <<child(only)>>
    <3>1. child(only) # NULL
      BY <2>2, PointerAssumption
    <3> QED
      BY <2>1, <3>1, <1>7, <1>10
  <2> HIDE DEF any, only, child
  <2>4. KidsOK(<<child(only)>>)
    BY <1>5, <1>10, <2>2 DEF KidsOK, IsInjective
  <2> QED
    BY <2>3, <2>4, <1>6, <1>10
<1> QED
    BY <1>8, <1>9, <1>10

-----------------------------------------------------------------------------
(* The stack as a linked list. *)

\* The stack items of some nodes.
Place == Seq(Letters) \cup {NULL}
OnList(s) == [k \in DOMAIN s |-> Item(s[k])]

\* One for each of them.
LEMMA OnListType ==
    ASSUME NEW s \in Seq(Place)
    PROVE  /\ OnList(s) \in Seq([node : Place]) /\ Len(OnList(s)) = Len(s)
           /\ \A k \in 1..Len(s) : OnList(s)[k] = Item(s[k]) /\ s[k] \in Place
<1>1. Len(s) \in Nat /\ DOMAIN s = 1..Len(s) /\ \A k \in 1..Len(s) : s[k] \in Place
    BY LenProperties, ElementOfSeq
<1>2. OnList(s) = [k \in 1..Len(s) |-> Item(s[k])]
    BY <1>1 DEF OnList
<1>3. \A k \in 1..Len(s) : Item(s[k]) \in [node : Place]
    BY <1>1 DEF Item
<1>4. OnList(s) \in [1..Len(s) -> [node : Place]]
    BY <1>2, <1>3
<1>5. OnList(s) \in Seq([node : Place]) /\ Len(OnList(s)) = Len(s)
  <2> DEFINE o == OnList(s)
             I == [node : Place]
  <2>1. o \in [1..Len(s) -> I]
    BY <1>4
  <2> HIDE DEF o, I
  <2>2. o \in Seq(I) /\ Len(o) = Len(s)
    BY <1>1, <2>1, SeqDef, LenProperties
  <2> QED
    BY <2>2 DEF o, I
<1> QED
    BY <1>1, <1>2, <1>5

\* Pushing nothing.
LEMMA PushNone == ASSUME NEW S, NEW r \in Seq(S) PROVE Push(r, <<>>) = r
<1> DEFINE p == Push(r, <<>>)
<1>1. <<>> \in Seq(S) /\ Len(<<>>) = 0 /\ Len(r) \in Nat
    BY LenProperties
<1>2. p \in Seq(S) /\ Stacked(p, r, <<>>)
    BY <1>1, PushElements
<1> HIDE DEF p
<1>3. Len(p) = 0 + Len(r) /\ \A i \in 1..Len(r) : p[0 + i] = r[i]
    BY <1>1, <1>2 DEF Stacked
<1>4. Len(p) = Len(r) /\ \A i \in 1..Len(p) : p[i] = r[i]
    BY <1>1, <1>3
<1>5. p = r
    BY <1>2, <1>4, SeqEqual
<1> QED
    BY <1>5 DEF p

\* Pushing one more node.
LEMMA PushOne ==
    ASSUME NEW S, NEW r \in Seq(S), NEW c \in Seq(S), NEW k \in 1..Len(c)
    PROVE  Push(r, At(c, k)) = <<c[k]>> \o Push(r, At(c, k - 1))
<1> DEFINE s == Push(r, At(c, k))
           t == Push(r, At(c, k - 1))
           u == <<c[k]>> \o t
           m == Len(r)
<1>1. Len(c) \in Nat /\ m \in Nat /\ k \in 0..Len(c) /\ k - 1 \in 0..Len(c) /\ c[k] \in S
    BY LenProperties, ElementOfSeq
<1>2. /\ At(c, k) \in Seq(S) /\ Len(At(c, k)) = k
      /\ \A j \in 1..k : At(c, k)[j] = c[j]
      /\ At(c, k - 1) \in Seq(S) /\ Len(At(c, k - 1)) = k - 1
      /\ \A j \in 1..(k - 1) : At(c, k - 1)[j] = c[j]
    BY <1>1, AtType
<1>3. s \in Seq(S) /\ Stacked(s, r, At(c, k)) /\ t \in Seq(S) /\ Stacked(t, r, At(c, k - 1))
    BY <1>2, PushElements
<1> HIDE DEF s, t, m
<1>4. /\ Len(s) = k + m /\ Len(t) = k - 1 + m
      /\ \A i \in 1..k : s[i] = At(c, k)[k - i + 1]
      /\ \A i \in 1..m : s[k + i] = r[i]
      /\ \A i \in 1..(k - 1) : t[i] = At(c, k - 1)[(k - 1) - i + 1]
      /\ \A i \in 1..m : t[(k - 1) + i] = r[i]
    BY <1>2, <1>3 DEF Stacked, m
<1>5. /\ u \in Seq(S) /\ Len(u) = 1 + Len(t) /\ u[1] = c[k]
      /\ \A i \in 1..Len(t) : u[i + 1] = t[i]
    BY <1>1, <1>3, LenProperties
<1> HIDE DEF u
<1>6. ASSUME NEW i \in 1..Len(s) PROVE s[i] = u[i]
  <2>1. CASE i = 1
    <3>1. k - i + 1 = k /\ 1 \in 1..k /\ k \in 1..k
      BY <2>1, <1>1
    <3>2. s[i] = At(c, k)[k] /\ At(c, k)[k] = c[k]
      BY <2>1, <3>1, <1>2, <1>4
    <3> QED
      BY <2>1, <3>2, <1>5
  <2>2. CASE i # 1 /\ i <= k
    <3>1. /\ i - 1 \in 1..(k - 1) /\ (k - 1) - (i - 1) + 1 = k - i + 1 /\ i \in 1..k
          /\ k - i + 1 \in 1..(k - 1) /\ k - i + 1 \in 1..k /\ i - 1 \in 1..Len(t)
          /\ (i - 1) + 1 = i
      BY <2>2, <1>1, <1>4
    <3>2. s[i] = c[k - i + 1]
      BY <3>1, <1>2, <1>4
    <3>3. t[i - 1] = c[k - i + 1]
      <4>1. t[i - 1] = At(c, k - 1)[(k - 1) - (i - 1) + 1]
        BY <3>1, <1>4
      <4> QED
        BY <4>1, <3>1, <1>2
    <3>4. u[i] = t[i - 1]
      BY <3>1, <1>5
    <3> QED
      BY <3>2, <3>3, <3>4
  <2>3. CASE i > k
    <3> DEFINE j == i - k
    <3>1. /\ j \in 1..m /\ k + j = i /\ (k - 1) + j \in 1..Len(t) /\ ((k - 1) + j) + 1 = i
      BY <2>3, <1>1, <1>4
    <3> HIDE DEF j
    <3>2. s[i] = r[j] /\ t[(k - 1) + j] = r[j]
      BY <3>1, <1>4
    <3>3. u[i] = t[(k - 1) + j]
      BY <3>1, <1>5
    <3> QED
      BY <3>2, <3>3
  <2> QED
    BY <2>1, <2>2, <2>3, <1>1
<1>7. Len(u) = Len(s)
    BY <1>1, <1>4, <1>5
<1>8. s = u
    BY <1>3, <1>5, <1>6, <1>7, SeqEqual
<1> QED
    BY <1>8 DEF s, t, u

\* The lists P on the way from l as the nodes c are pushed.
Pushes(P, l, c) ==
    /\ PushItems(l, c) = P[Len(c)] /\ P[0] = l
    /\ \A k \in 1..Len(c) : P[k] = list_push_front(P[k - 1], Item(c[k]))

\* PushItems pushes one item after the other.
LEMMA PushedItems ==
    ASSUME NEW S, NEW c \in Seq(S), NEW l
    PROVE  \E P : Pushes(P, l, c)
<1> DEFINE n == Len(c)
           B(f, m) == [k \in 0..m |-> IF k = 0 THEN l ELSE list_push_front(f[k - 1], Item(c[k]))]
           P == CHOOSE g : g = B(g, n)
           T == {m \in 0..n : \E f : f = B(f, m)}
<1>1. n \in Nat
    BY LenProperties
<1>2. 0 \in T
  <2> DEFINE f == [k \in 0..0 |-> l]
  <2>1. f = B(f, 0)
    OBVIOUS
  <2> HIDE DEF B, f
  <2> QED
    BY <2>1, <1>1
<1>3. ASSUME NEW m \in 1..n, m - 1 \in T PROVE m \in T
  <2> HIDE DEF B
  <2>1. PICK f : f = B(f, m - 1)
    BY <1>3
  <2> DEFINE g == [k \in 0..m |-> IF k = m THEN list_push_front(f[m - 1], Item(c[m])) ELSE f[k]]
  <2>2. \A k \in 0..(m - 1) :
            f[k] = IF k = 0 THEN l ELSE list_push_front(f[k - 1], Item(c[k]))
    BY <2>1 DEF B
  <2>3. ASSUME NEW k \in 0..m
        PROVE  g[k] = IF k = 0 THEN l ELSE list_push_front(g[k - 1], Item(c[k]))
    <3>1. CASE k = m
      <4>1. m - 1 \in 0..m /\ m - 1 # m /\ k # 0
        BY <3>1
      <4>2. g[m - 1] = f[m - 1] /\ g[k] = list_push_front(f[m - 1], Item(c[m]))
        BY <3>1, <4>1
      <4> HIDE DEF g
      <4> QED
        BY <4>1, <4>2, <3>1
    <3>2. CASE k # m /\ k # 0
      <4>1. k - 1 \in 0..m /\ k - 1 # m /\ k \in 0..(m - 1)
        BY <3>2
      <4>2. g[k - 1] = f[k - 1] /\ g[k] = f[k]
        BY <3>2, <4>1
      <4> HIDE DEF g
      <4> QED
        BY <4>1, <4>2, <3>2, <2>2
    <3>3. CASE k # m /\ k = 0
      <4>1. k \in 0..(m - 1)
        BY <3>3
      <4>2. g[k] = f[k]
        BY <3>3
      <4> HIDE DEF g
      <4> QED
        BY <4>1, <4>2, <3>3, <2>2
    <3> QED
      BY <3>1, <3>2, <3>3
  <2>4. DOMAIN g = 0..m /\ g = [k \in 0..m |-> g[k]]
    OBVIOUS
  <2> HIDE DEF g
  <2>5. g = B(g, m)
    BY <2>3, <2>4 DEF B
  <2>6. m \in 0..n
    BY <1>1
  <2> QED
    BY <2>5, <2>6
<1>4. \E f : f = B(f, n)
  <2> HIDE DEF T
  <2>1. 0..n \subseteq T
    BY <1>1, <1>2, <1>3, UpTo
  <2>2. n \in T
    BY <2>1, <1>1
  <2> HIDE DEF B
  <2> QED
    BY <2>2 DEF T
<1>5. P = B(P, n)
  <2> HIDE DEF B
  <2> QED
    BY <1>4
<1>6. PushItems(l, c) = P[n]
    BY DEF PushItems
<1> HIDE DEF P
<1>7. P[0] = l /\ \A k \in 1..n : P[k] = list_push_front(P[k - 1], Item(c[k]))
    BY <1>1, <1>5
<1> QED
    BY <1>6, <1>7 DEF Pushes

\* It pushes nothing if there is nothing to push.
LEMMA PushedNothing == ASSUME NEW l PROVE PushItems(l, <<>>) = l
<1> DEFINE c == <<>>
<1>1. c \in Seq(Place) /\ Len(c) = 0
    OBVIOUS
<1> HIDE DEF c
<1>2. PICK P : Pushes(P, l, c)
    BY <1>1, PushedItems
<1> QED
    BY <1>1, <1>2 DEF c, Pushes

\* The list of the nodes waiting stays the list of the nodes waiting.
LEMMA PushListed ==
    ASSUME NEW r \in Seq(Place), NEW c \in Seq(Place), NEW l, IsList(l, OnList(r)),
           IsInjective(c), \A i \in 1..Len(c), j \in 1..Len(r) : c[i] # r[j]
    PROVE  IsList(PushItems(l, c), OnList(Push(r, c)))
<1> DEFINE n == Len(c)
           m == Len(r)
<1>1. n \in Nat /\ m \in Nat /\ DOMAIN c = 1..n
    BY LenProperties
<1>2. PICK P : /\ PushItems(l, c) = P[n] /\ P[0] = l
               /\ \A k \in 1..n : P[k] = list_push_front(P[k - 1], Item(c[k]))
    BY PushedItems DEF Pushes
<1> HIDE DEF n
<1> DEFINE T == {k \in 0..n : IsList(P[k], OnList(Push(r, At(c, k))))}
<1>3. 0 \in T
  <2>1. At(c, 0) = <<>>
    <3>1. 0 \in 0..Len(c)
      BY <1>1 DEF n
    <3> QED
      BY <3>1, AtAt
  <2>2. Push(r, <<>>) = r
    BY PushNone
  <2> QED
    BY <2>1, <2>2, <1>1, <1>2
<1>4. ASSUME NEW k \in 1..n, k - 1 \in T PROVE k \in T
  <2> DEFINE d == At(c, k - 1)
             s == Push(r, d)
             o == OnList(s)
             x == Item(c[k])
             q == P[k - 1]
  <2>1. k - 1 \in 0..Len(c) /\ k \in 1..Len(c) /\ k \in 0..n /\ c[k] \in Place
    BY <1>1, ElementOfSeq DEF n
  <2>2. d \in Seq(Place) /\ Len(d) = k - 1 /\ \A j \in 1..(k - 1) : d[j] = c[j]
    BY <2>1, AtType
  <2>3. s \in Seq(Place) /\ Stacked(s, r, d)
    BY <2>2, PushElements
  <2>4. IsList(q, o)
    BY <1>4
  <2> HIDE DEF s, o, q, d
  <2>5. /\ o \in Seq([node : Place]) /\ Len(o) = Len(s) /\ Len(s) = k - 1 + m
        /\ \A i \in 1..Len(s) : o[i] = Item(s[i])
    <3>1. Len(s) = Len(d) + Len(r)
      BY <2>3 DEF Stacked
    <3> QED
      BY <2>2, <2>3, <3>1, OnListType DEF o
  <2>6. \A i \in 1..Len(s) : s[i] # c[k]
    <3> SUFFICES ASSUME NEW i \in 1..Len(s) PROVE s[i] # c[k]
      OBVIOUS
    <3>1. CASE i <= k - 1
      <4> DEFINE j == (k - 1) - i + 1
      <4>1. j \in 1..(k - 1) /\ j \in 1..n /\ j # k /\ i \in 1..Len(d)
        BY <3>1, <1>1, <2>2
      <4>2. s[i] = d[Len(d) - i + 1]
        BY <4>1, <2>3 DEF Stacked
      <4>3. s[i] = d[j]
        BY <4>2, <2>2
      <4> HIDE DEF j
      <4>4. s[i] = c[j] /\ c[j] # c[k]
        BY <4>1, <4>3, <2>2, <1>1 DEF IsInjective
      <4> QED
        BY <4>4
    <3>2. CASE i > k - 1
      <4> DEFINE j == i - (k - 1)
      <4>1. j \in 1..m /\ Len(d) + j = i
        <5>1. k - 1 \in Nat /\ Len(d) = k - 1 /\ i \in 1..(k - 1 + m) /\ m \in Nat
          BY <1>1, <2>1, <2>2, <2>5
        <5> QED
          BY <3>2, <5>1
      <4> HIDE DEF j
      <4>2. s[i] = r[j]
        BY <4>1, <2>3 DEF Stacked
      <4> QED
        BY <4>1, <4>2, <2>1
    <3> QED
      BY <3>1, <3>2, <1>1
  <2>7. x \notin DOMAIN q.next /\ x # nil /\ x \in [node : Place]
    <3>1. DOMAIN q.next = {o[i] : i \in DOMAIN o} /\ DOMAIN o = 1..Len(s)
      BY <2>4, <2>5, LenProperties DEF IsList
    <3>2. \A i \in 1..Len(s) : Item(s[i]) # x
      BY <2>6 DEF Item
    <3>3. x \notin DOMAIN q.next
      BY <3>1, <3>2, <2>5
    <3>4. x \in [node : Place]
      BY <2>1 DEF Item
    <3> QED
      BY <3>3, <3>4, ItemAssumption DEF Place
  <2>8. IsList(list_push_front(q, x), <<x>> \o o)
    BY <2>4, <2>5, <2>7, PushFrontCorrect
  <2>9. OnList(<<c[k]>> \o s) = <<x>> \o o
    <3> DEFINE u == <<c[k]>> \o s
               v == <<x>> \o o
    <3>1. /\ u \in Seq(Place) /\ Len(u) = Len(s) + 1 /\ u[1] = c[k] /\ Len(s) \in Nat
          /\ \A i \in 1..Len(s) : u[i + 1] = s[i]
      BY <2>1, <2>3, LenProperties
    <3>2. /\ v \in Seq([node : Place]) /\ Len(v) = Len(o) + 1 /\ v[1] = x
          /\ \A i \in 1..Len(o) : v[i + 1] = o[i]
      <4> DEFINE I == [node : Place]
      <4>1. x \in I /\ o \in Seq(I)
        BY <2>5, <2>7
      <4> HIDE DEF I, x
      <4>2. /\ v \in Seq(I) /\ Len(v) = Len(o) + 1 /\ v[1] = x
            /\ \A i \in 1..Len(o) : v[i + 1] = o[i]
        BY <4>1, LenProperties
      <4> QED
        BY <4>2 DEF I
    <3> HIDE DEF u, v, x
    <3>3. /\ OnList(u) \in Seq([node : Place]) /\ Len(OnList(u)) = Len(u)
          /\ \A i \in 1..Len(u) : OnList(u)[i] = Item(u[i])
      BY <3>1, OnListType
    <3>4. ASSUME NEW i \in 1..Len(u) PROVE OnList(u)[i] = v[i]
      <4>1. CASE i = 1
        BY <4>1, <3>1, <3>2, <3>3 DEF x
      <4>2. CASE i # 1
        <5>1. i - 1 \in 1..Len(s) /\ (i - 1) + 1 = i
          BY <4>2, <3>1
        <5>2. u[i] = s[i - 1] /\ v[i] = o[i - 1] /\ o[i - 1] = Item(s[i - 1])
          BY <5>1, <3>1, <3>2, <2>5
        <5> QED
          BY <5>2, <3>3
      <4> QED
        BY <4>1, <4>2
    <3>5. OnList(u) = v
      <4> DEFINE w == OnList(u)
                 I == [node : Place]
      <4>1. w \in Seq(I) /\ v \in Seq(I) /\ Len(w) = Len(v) /\ \A i \in 1..Len(w) : w[i] = v[i]
        BY <3>1, <3>2, <3>3, <3>4, <2>5
      <4> HIDE DEF w, I
      <4>2. w = v
        BY <4>1, SeqEqual
      <4> QED
        BY <4>2 DEF w
    <3> QED
      BY <3>5 DEF u, v
  <2>10. Push(r, At(c, k)) = <<c[k]>> \o s
    BY <2>1, PushOne DEF s, d
  <2>11. P[k] = list_push_front(q, x)
    BY <1>2 DEF q
  <2> QED
    BY <2>1, <2>8, <2>9, <2>10, <2>11
<1>5. n \in T
  <2> HIDE DEF T
  <2>1. 0..n \subseteq T
    BY <1>1, <1>3, <1>4, UpTo
  <2> QED
    BY <2>1, <1>1
<1>6. At(c, n) = c
  <2>1. 0 \in 0..Len(c)
    BY <1>1 DEF n
  <2> QED
    BY <2>1, AtAt DEF n
<1> QED
  <2>1. IsList(P[n], OnList(Push(r, At(c, n))))
    BY <1>5
  <2> QED
    BY <2>1, <1>2, <1>6

\* The list without its first item is that of the nodes below it on the stack.
LEMMA PopListed ==
    ASSUME NEW s \in Seq(Place), s # <<>>, NEW l, IsList(l, OnList(s))
    PROVE  IsList(list_pop_first(l), OnList(Tail(s)))
<1> DEFINE o == OnList(s)
           t == Tail(s)
           n == Len(s)
           I == [node : Place]
<1>1. /\ n \in Nat /\ n >= 1 /\ t \in Seq(Place) /\ Len(t) = n - 1
      /\ \A i \in 1..(n - 1) : t[i] = s[i + 1]
    BY LenProperties, EmptySeq, HeadTailProperties
<1>2. o \in Seq(I) /\ Len(o) = n /\ \A k \in 1..n : o[k] = Item(s[k])
    BY OnListType
<1>3. /\ OnList(t) \in Seq(I) /\ Len(OnList(t)) = n - 1
      /\ \A k \in 1..(n - 1) : OnList(t)[k] = Item(t[k])
    BY <1>1, OnListType
<1>4. IsList(l, o)
    OBVIOUS
<1> HIDE DEF o, t, n, I
<1>5. o # <<>>
    BY <1>1, <1>2
<1>6. IsList(list_pop_first(l), Tail(o))
    BY <1>2, <1>4, <1>5, PopFirstCorrect
<1>7. Tail(o) \in Seq(I) /\ Len(Tail(o)) = n - 1 /\ \A k \in 1..(n - 1) : Tail(o)[k] = o[k + 1]
    BY <1>2, <1>5, HeadTailProperties
<1>8. \A k \in 1..(n - 1) : Tail(o)[k] = OnList(t)[k]
  <2> TAKE k \in 1..(n - 1)
  <2>1. k + 1 \in 1..n
    BY <1>1
  <2> QED
    BY <2>1, <1>1, <1>2, <1>3, <1>7
<1>9. Tail(o) = OnList(t)
  <2> DEFINE u == OnList(t)
             v == Tail(o)
  <2>1. u \in Seq(I) /\ v \in Seq(I) /\ Len(v) = Len(u) /\ \A k \in 1..Len(v) : v[k] = u[k]
    BY <1>3, <1>7, <1>8
  <2> HIDE DEF u, v
  <2>2. v = u
    BY <2>1, SeqEqual
  <2> QED
    BY <2>2 DEF u, v
<1> QED
    BY <1>6, <1>9 DEF t

-----------------------------------------------------------------------------
(* The steps of the walk. *)

\* What is known when next() takes up a node.
LEMMA Waiting ==
    ASSUME ItemsInv, Turn
    PROVE  /\ ArgsOK /\ Walk(stack) /\ YieldedOK(stack) /\ stack # <<>> /\ pc = "next" /\ ~ended
           /\ ~failed => SpelledOK(stack) /\ Covered(stack)
           /\ Top = stack[1] /\ Top \in DOMAIN nodes /\ Top \in Seq(Letters)
           /\ depth = Len(Top) /\ depth \in Nat /\ depth <= longest_word
           /\ Len(stack) \in Nat /\ 1 \in 1..Len(stack)
           /\ Rest \in Seq(DOMAIN nodes)
           /\ \A k \in 2..Len(stack) : k \in 1..Len(stack) /\ 1 < k
<1>1. ArgsOK /\ pc = "next" /\ ~ended /\ stack # <<>> /\ stack # <<NULL>>
    BY DEF ItemsInv, EndOK, Turn
<1>2. /\ Walk(stack) /\ YieldedOK(stack)
      /\ ~failed => SpelledOK(stack) /\ Covered(stack)
    BY <1>1 DEF ItemsInv, WalkOK
<1>3. /\ stack \in Seq(DOMAIN nodes) /\ Len(stack) \in Nat /\ Len(stack) # 0 /\ Top = stack[1]
      /\ Rest \in Seq(DOMAIN nodes)
    BY <1>1, <1>2, HeadTailProperties, LenProperties, EmptySeq DEF Walk, Top, Rest
<1>4. Top \in DOMAIN nodes
    BY <1>3, ElementOfSeq
<1>5. Top \in Seq(Letters) /\ Len(Top) \in Nat /\ Len(Top) <= longest_word
    BY <1>1, <1>4, NodesLinked, NodesFit, LenProperties
<1> QED
    BY <1>1, <1>2, <1>3, <1>4, <1>5 DEF depth

\* Putting children in the place of the top node: what was yielded stays behind.
LEMMA Descends ==
    ASSUME ItemsInv, Turn, NEW c, KidsOK(c), NEW s, s = Push(Rest, c)
    PROVE  /\ Walk(s) /\ Replaces(s, c) /\ YieldedOK(s)
           /\ \A i \in 1..Len(s) : ~Below(Top, s[i])
           /\ \A j \in 1..Len(found) : found[j][2] # Top
           /\ IsList(PushItems(list_pop_first(list), c), OnList(s))
<1>1. /\ ArgsOK /\ Walk(stack) /\ YieldedOK(stack) /\ stack # <<>> /\ pc = "next"
      /\ Top = stack[1] /\ Top \in Seq(Letters) /\ depth = Len(Top) /\ depth \in Nat
      /\ Len(stack) \in Nat /\ 1 \in 1..Len(stack) /\ Rest \in Seq(DOMAIN nodes)
      /\ \A k \in 2..Len(stack) : k \in 1..Len(stack) /\ 1 < k
    BY Waiting
<1>2. Walk(s) /\ Replaces(s, c)
    BY <1>1, WalkDown
<1>3. /\ DOMAIN nodes \subseteq Seq(Letters) /\ words \subseteq DOMAIN nodes
      /\ stack \in Seq(DOMAIN nodes) /\ c \in Seq(DOMAIN nodes)
    BY <1>1, NodesLinked DEF Walk, KidsOK
<1>4. /\ \A k \in 1..Len(stack) : stack[k] \in Seq(Letters)
      /\ \A k \in 1..Len(c) : c[k] \in Seq(Letters)
    BY <1>3, ElementOfSeq
<1>5. \A k \in 1..Len(c) : Below(c[k], Top) /\ Len(c[k]) = depth + 1
    BY DEF KidsOK
<1>6. ASSUME NEW w \in Seq(Letters), NEW i \in 1..Len(s), Below(w, s[i])
      PROVE  \E k \in 1..Len(stack) :
                /\ Below(w, stack[k])
                /\ k = 1 => \E j \in 1..Len(c) : s[i] = c[j]
  <2>1. CASE \E j \in 1..Len(c) : s[i] = c[j]
    <3>1. PICK j \in 1..Len(c) : s[i] = c[j]
      BY <2>1
    <3>2. Below(w, Top)
      BY <3>1, <1>1, <1>4, <1>5, <1>6, BelowFacts
    <3> QED
      BY <3>2, <2>1, <1>1
  <2>2. CASE \E k \in 2..Len(stack) : s[i] = stack[k]
    BY <2>2, <1>1, <1>6
  <2> QED
    BY <2>1, <2>2, <1>2 DEF Replaces
<1>7. \A j \in 1..Len(found) : found[j][2] \in Seq(Letters)
    BY <1>1, <1>3 DEF YieldedOK, Expected
<1>8. YieldedOK(s)
    BY <1>1, <1>6, <1>7 DEF YieldedOK
<1>9. Below(Top, Top)
    BY <1>1, BelowFacts
<1>10. \A j \in 1..Len(found) : found[j][2] # Top
    BY <1>1, <1>9 DEF YieldedOK
<1>11. ASSUME NEW i \in 1..Len(s), Below(Top, s[i]) PROVE FALSE
  <2>1. PICK k \in 1..Len(stack) :
            Below(Top, stack[k]) /\ (k = 1 => \E j \in 1..Len(c) : s[i] = c[j])
    BY <1>1, <1>6, <1>11
  <2>2. k = 1
    BY <2>1, <1>1 DEF Walk
  <2>3. Len(s[i]) = depth + 1
    BY <2>1, <2>2, <1>5
  <2> QED
    BY <2>3, <1>1, <1>11 DEF Below
<1>12. IsList(PushItems(list_pop_first(list), c), OnList(s))
  <2>1. stack \in Seq(Place) /\ Rest \in Seq(Place) /\ c \in Seq(Place)
    <3>1. DOMAIN nodes \subseteq Place
      BY <1>3 DEF Place
    <3> QED
      BY <3>1, <1>1, <1>3
  <2>2. IsList(list, OnList(stack))
    BY DEF ItemsInv, ListOK, OnList
  <2>3. IsList(list_pop_first(list), OnList(Rest))
    BY <2>1, <2>2, <1>1, PopListed DEF Rest
  <2>4. ASSUME NEW i \in 1..Len(c), NEW j \in 1..Len(Rest) PROVE c[i] # Rest[j]
    <3>1. j + 1 \in 2..Len(stack) /\ Rest[j] = stack[j + 1]
      BY <1>1, <1>3, HeadTailProperties DEF Rest
    <3>2. ~Below(stack[j + 1], Top)
      BY <3>1, <1>1 DEF Walk
    <3> QED
      BY <3>1, <3>2, <1>5
  <2>5. IsInjective(c)
    BY DEF KidsOK
  <2> QED
    BY <2>1, <2>3, <2>4, <2>5, PushListed
<1> QED
    BY <1>2, <1>8, <1>10, <1>11, <1>12

\* The arguments stay what they are, and so does what is expected.
LEMMA ArgsStable ==
    ASSUME UNCHANGED args, NEW s, s = stack'
    PROVE  /\ ArgsOK => ArgsOK'
           /\ Walk(s) => Walk(stack)'
           /\ Expected' = Expected /\ longest_word' = longest_word /\ type' = type
<1>1. /\ words' = words /\ nodes' = nodes /\ pattern' = pattern /\ wildcard' = wildcard
      /\ matchtype' = matchtype /\ type' = type
    BY DEF args
<1>2. ArgsOK => ArgsOK'
    BY <1>1 DEF ArgsOK
<1>3. Walk(s) => Walk(stack)'
    BY <1>1 DEF Walk, Agrees, pattern_length
<1>4. Expected' = Expected
    BY <1>1 DEF Expected, Agrees, pattern_length
<1>5. longest_word' = longest_word
    BY <1>1 DEF longest_word
<1> QED
    BY <1>1, <1>2, <1>3, <1>4, <1>5

\* The invariant holds of the stack s when next() has not yielded anything.
LEMMA NothingYielded ==
    ASSUME UNCHANGED args, found' = found, NEW s, s = stack', UNCHANGED buffer
    PROVE  /\ YieldedOK(s) => YieldedOK(stack)'
           /\ SpelledOK(s) => SpelledOK(stack)'
           /\ Covered(s) => Covered(stack)'
<1>1. Expected' = Expected /\ type' = type
    BY ArgsStable
<1>2. YieldedOK(s) => YieldedOK(stack)'
    BY <1>1 DEF YieldedOK
<1>3. SpelledOK(s) => SpelledOK(stack)'
    BY <1>1 DEF SpelledOK
<1>4. Covered(s) => Covered(stack)'
    BY <1>1 DEF Covered
<1> QED
    BY <1>2, <1>3, <1>4

\* No nodes are waiting.
LEMMA NoneWait == Walk(<<>>) /\ OnList(<<>>) = <<>> /\ (SpelledOK(stack) => SpelledOK(<<>>))
<1>1. Len(<<>>) = 0 /\ <<>> \in Seq(DOMAIN nodes) /\ 1..0 = {} /\ DOMAIN <<>> = {}
    OBVIOUS
<1>2. OnList(<<>>) = <<>>
    BY DEF OnList
<1> QED
    BY <1>1, <1>2 DEF Walk, SpelledOK

\* Stop.
LEMMA StopKeeps == ItemsInv /\ Stop => ItemsInv'
<1> SUFFICES ASSUME ItemsInv, Stop PROVE ItemsInv'
    OBVIOUS
<1>1. /\ UNCHANGED args /\ buffer' = buffer /\ found' = found /\ failed' = failed /\ <<>> = stack'
      /\ pc' = "idle" /\ ended' = TRUE /\ list' = list_pop_first(list) /\ pc = "next"
      /\ stack = <<>> \/ stack = <<NULL>>
    BY DEF Stop
<1>2. /\ ArgsOK' /\ Walk(stack)' /\ longest_word' = longest_word /\ Expected' = Expected
    BY <1>1, ArgsStable, NoneWait DEF ItemsInv
<1>3. ListOK'
  <2>1. IsList(list, OnList(stack))
    BY DEF ItemsInv, ListOK, OnList
  <2>2. CASE stack = <<>>
    <3>1. IsList(list, <<>>)
      BY <2>1, <2>2, NoneWait
    <3>2. list_pop_first(list) = list
      BY <3>1 DEF IsList, list_pop_first
    <3> QED
      BY <2>1, <2>2, <3>2, <1>1 DEF ListOK, OnList
  <2>3. CASE stack = <<NULL>>
    <3>1. stack \in Seq(Place) /\ stack # <<>> /\ Tail(stack) = <<>>
      BY <2>3 DEF Place
    <3>2. IsList(list_pop_first(list), OnList(Tail(stack)))
      BY <2>1, <3>1, PopListed
    <3> QED
      BY <3>1, <3>2, <1>1 DEF ListOK, OnList
  <2> QED
    BY <2>2, <2>3, <1>1
<1>4. YieldedOK(<<>>) /\ (~failed => SpelledOK(<<>>) /\ Covered(<<>>))
  <2>1. CASE stack = <<NULL>>
    <3>1. (words = {} /\ found = <<>>) \/ Walk(<<NULL>>)
      BY <2>1 DEF ItemsInv, WalkOK
    <3>2. words = {} /\ found = <<>>
      <4> SUFFICES ASSUME Walk(<<NULL>>) PROVE FALSE
        BY <3>1
      <4>1. <<NULL>> \in Seq(DOMAIN nodes) /\ 1 \in 1..Len(<<NULL>>) /\ <<NULL>>[1] = NULL
        BY DEF Walk
      <4>2. NULL \in DOMAIN nodes
        BY <4>1, ElementOfSeq
      <4> QED
        BY <4>2, NodesLinked, PointerAssumption DEF ItemsInv
    <3>3. Len(found) = 0 /\ Len(<<>>) = 0 /\ 1..0 = {} /\ Expected = {}
      BY <3>2 DEF Expected
    <3> QED
      BY <3>3 DEF YieldedOK, SpelledOK, Covered
  <2>2. CASE stack = <<>>
    <3>1. stack # <<NULL>>
      BY <2>2
    <3>2. YieldedOK(<<>>) /\ (~failed => SpelledOK(<<>>) /\ Covered(<<>>))
      BY <2>2, <3>1, <1>1 DEF ItemsInv, WalkOK
    <3> QED
      BY <3>2
  <2> QED
    BY <2>1, <2>2, <1>1
<1>5. WalkOK'
    BY <1>1, <1>2, <1>4, NothingYielded DEF WalkOK
<1>6. EndOK'
    BY <1>1 DEF EndOK
<1> QED
    BY <1>1, <1>2, <1>3, <1>5, <1>6 DEF ItemsInv

\* Skip.
LEMMA SkipKeeps == ItemsInv /\ Skip => ItemsInv'
<1> SUFFICES ASSUME ItemsInv, Skip PROVE ItemsInv'
    OBVIOUS
<1>1. /\ Turn /\ TooDeep /\ stack' = Rest /\ list' = list_pop_first(list)
      /\ UNCHANGED args /\ buffer' = buffer /\ pc' = pc /\ found' = found
      /\ ended' = ended /\ failed' = failed
    BY DEF Skip
<1>2. /\ ArgsOK /\ Walk(stack) /\ YieldedOK(stack) /\ pc = "next" /\ ~ended
      /\ ~failed => SpelledOK(stack) /\ Covered(stack)
      /\ Top = stack[1] /\ depth = Len(Top) /\ Rest \in Seq(DOMAIN nodes)
      /\ 1 \in 1..Len(stack) /\ depth \in Nat
      /\ \A k \in 2..Len(stack) : k \in 1..Len(stack) /\ 1 < k /\ Len(stack) \in Nat
    BY <1>1, Waiting
<1>3. KidsOK(<<>>) /\ Push(Rest, <<>>) = Rest
    BY <1>2, PushNone DEF KidsOK, IsInjective
<1>4. /\ Walk(Rest) /\ Replaces(Rest, <<>>) /\ YieldedOK(Rest)
      /\ IsList(PushItems(list_pop_first(list), <<>>), OnList(Rest))
    BY <1>1, <1>3, Descends
<1>5. PushItems(list_pop_first(list), <<>>) = list_pop_first(list)
    BY PushedNothing
<1>6. \A i \in 1..Len(Rest) : \E k \in 2..Len(stack) : Rest[i] = stack[k]
  <2> HIDE DEF Rest
  <2>1. Len(<<>>) = 0 /\ 1..0 = {}
    OBVIOUS
  <2>2. ASSUME NEW i \in 1..Len(Rest) PROVE \E k \in 2..Len(stack) : Rest[i] = stack[k]
    BY <1>4, <2>1, <2>2 DEF Replaces
  <2> QED
    BY <2>2
<1>7. ASSUME ~failed PROVE SpelledOK(Rest) /\ Covered(Rest)
  <2>1. SpelledOK(stack) /\ Covered(stack)
    BY <1>2, <1>7
  <2>2. SpelledOK(Rest)
    BY <2>1, <1>2, <1>6 DEF SpelledOK
  <2>3. ASSUME NEW w \in Expected, NEW i \in 1..Len(stack), Below(w, stack[i])
        PROVE  \E j \in 1..Len(Rest) : Below(w, Rest[j])
    <3>1. CASE i = 1
      <4>1. depth <= Len(w) /\ matchtype # "AT_LEAST_PREFIX" /\ depth > pattern_length
        BY <2>3, <3>1, <1>1, <1>2 DEF Below, TooDeep
      <4>2. Len(w) = pattern_length \/ Len(w) <= pattern_length
        BY <4>1, <1>2 DEF Expected, ArgsOK
      <4>3. Len(w) \in Nat /\ pattern_length \in Nat
        <5>1. w \in Seq(Letters) /\ pattern \in Seq(Letters \cup Wildcards)
          BY <1>2, NodesLinked, PatternAssumption DEF ArgsOK, Expected
        <5> QED
          BY <5>1, LenProperties DEF pattern_length
      <4> QED
        BY <4>1, <4>2, <4>3, <1>2
    <3>2. CASE i # 1
      <4>1. i \in 2..Len(stack)
        BY <3>2
      <4>2. PICK j \in 1..Len(Rest) : Rest[j] = stack[i]
        BY <4>1, <1>4 DEF Replaces
      <4> QED
        BY <4>2, <2>3
    <3> QED
      BY <3>1, <3>2
  <2> QED
    BY <2>1, <2>2, <2>3 DEF Covered
<1>8. ArgsOK' /\ Walk(stack)' /\ longest_word' = longest_word
    BY <1>1, <1>2, <1>4, ArgsStable
<1>9. WalkOK'
    BY <1>1, <1>2, <1>4, <1>7, <1>8, NothingYielded DEF WalkOK
<1>10. ListOK'
    BY <1>1, <1>4, <1>5 DEF ListOK, OnList
<1>11. EndOK'
    BY <1>1, <1>2 DEF EndOK
<1> QED
    BY <1>1, <1>8, <1>9, <1>10, <1>11 DEF ItemsInv

\* A sequence with one more element is a sequence of its elements.
LEMMA OneMore ==
    ASSUME NEW f, f \in Seq(ToSet(f)), NEW y, NEW g, g = Append(f, y)
    PROVE  /\ g \in Seq(ToSet(g)) /\ Len(g) = Len(f) + 1 /\ Len(f) \in Nat /\ g[Len(f) + 1] = y
           /\ \A k \in 1..Len(f) : g[k] = f[k]
<1> DEFINE S == ToSet(f) \cup {y}
<1>1. f \in Seq(S) /\ y \in S
    OBVIOUS
<1> HIDE DEF S
<1>2. /\ g \in Seq(S) /\ Len(g) = Len(f) + 1 /\ Len(f) \in Nat /\ g[Len(f) + 1] = y
      /\ \A k \in 1..Len(f) : g[k] = f[k]
    BY <1>1, AppendProperties, LenProperties
<1>3. g \in Seq(ToSet(g))
  <2>1. Len(g) \in Nat /\ DOMAIN g = 1..Len(g) /\ g = [k \in 1..Len(g) |-> g[k]]
    BY <1>2, LenProperties
  <2>2. \A k \in 1..Len(g) : g[k] \in ToSet(g)
    BY <2>1 DEF ToSet
  <2>3. g \in [1..Len(g) -> ToSet(g)]
    BY <2>1, <2>2
  <2> QED
    BY <2>1, <2>3, SeqDef
<1> QED
    BY <1>2, <1>3

\* Below the top node nothing is spelled that was not spelled before.
LEMMA SpellsTop ==
    ASSUME ItemsInv, Turn, ~failed, type = "KEYS", NEW b, b = Spelled(buffer, Top)
    PROVE  /\ \A k \in 1..depth : b[k] = Top[k]
           /\ \A k \in 1..(depth - 1) : b[k] = buffer[k]
<1>1. /\ SpelledOK(stack) /\ Top = stack[1] /\ Top \in Seq(Letters) /\ depth = Len(Top)
      /\ depth \in Nat /\ depth <= longest_word /\ 1 \in 1..Len(stack) /\ ArgsOK
    BY Waiting
<1>2. DOMAIN buffer = 0..longest_word /\ longest_word \in Nat
    BY <1>1, NodesFit DEF ItemsInv
<1>3. \A k \in 1..(depth - 1) : buffer[k] = Top[k]
    BY <1>1 DEF SpelledOK
<1>4. ASSUME NEW k \in 1..depth
      PROVE  b[k] = IF k = depth THEN Top[k] ELSE buffer[k]
  <2>1. k \in 0..longest_word /\ Top # Root
    BY <1>1, <1>2 DEF Root
  <2>2. b = [buffer EXCEPT ![depth] = Last(Top)]
    BY <2>1, <1>1 DEF Spelled
  <2>3. Last(Top) = Top[depth]
    BY <1>1 DEF Last
  <2> QED
    BY <2>1, <2>2, <2>3, <1>2
<1> QED
    BY <1>1, <1>3, <1>4

\* Visit: what the key is, and that it is expected.
LEMMA VisitYields ==
    ASSUME ItemsInv, Visit
    PROVE  /\ Output /\ nodes[Top].eow => Top \in Expected
           /\ Top \in Expected => Output /\ nodes[Top].eow
           /\ ~failed /\ type = "KEYS" => Key = Top
<1>1. /\ Turn /\ ArgsOK /\ Walk(stack) /\ Top = stack[1] /\ 1 \in 1..Len(stack)
      /\ Top \in DOMAIN nodes /\ Top \in Seq(Letters) /\ depth = Len(Top) /\ depth \in Nat
    BY Waiting DEF Visit
<1>2. nodes[Top].eow = (Top \in words) /\ Agrees(Top)
    BY <1>1, NodesLinked DEF Walk
<1>3. Top \in Expected <=> Top \in words /\ Output
    BY <1>1, <1>2 DEF Expected, Output, ArgsOK
<1>4. ASSUME ~failed, type = "KEYS" PROVE Key = Top
  <2>1. buffer' = Spelled(buffer, Top)
    BY <1>4 DEF Visit
  <2>2. \A k \in 1..depth : buffer'[k] = Top[k]
    BY <2>1, <1>1, <1>4, SpellsTop
  <2>3. Key = [k \in 1..depth |-> Top[k]]
    BY <2>2 DEF Key
  <2>4. Top = [k \in 1..depth |-> Top[k]]
    BY <1>1, LenProperties
  <2> QED
    BY <2>3, <2>4
<1> QED
    BY <1>2, <1>3, <1>4

\* Visit: the spelling.
LEMMA VisitSpells ==
    ASSUME ItemsInv, Visit, ~failed, type = "KEYS", NEW s, s = stack',
           NEW i \in 1..Len(s), NEW k \in 1..(Len(s[i]) - 1)
    PROVE  buffer'[k] = s[i][k]
<1>1. /\ Turn /\ ArgsOK /\ Walk(stack) /\ SpelledOK(stack) /\ Top = stack[1]
      /\ 1 \in 1..Len(stack) /\ Top \in Seq(Letters) /\ depth = Len(Top) /\ depth \in Nat
      /\ \A j \in 2..Len(stack) : j \in 1..Len(stack) /\ 1 < j
      /\ stack # <<>>
    BY Waiting DEF Visit
<1>2. s = Push(Rest, Children) /\ buffer' = Spelled(buffer, Top)
    BY DEF Visit
<1>3. KidsOK(Children)
    BY <1>1, ChildrenKids
<1>4. Replaces(s, Children)
    BY <1>1, <1>2, <1>3, WalkDown
<1>5. /\ \A j \in 1..depth : buffer'[j] = Top[j]
      /\ \A j \in 1..(depth - 1) : buffer'[j] = buffer[j]
    BY <1>1, <1>2, SpellsTop
<1>6. CASE \E j \in 1..Len(Children) : s[i] = Children[j]
  <2>1. PICK j \in 1..Len(Children) : s[i] = Children[j]
    BY <1>6
  <2>2. Below(s[i], Top) /\ Len(s[i]) = depth + 1 /\ Children \in Seq(DOMAIN nodes)
    BY <2>1, <1>3 DEF KidsOK
  <2>3. s[i] \in Seq(Letters)
    <3>1. Children[j] \in DOMAIN nodes
      BY <2>2, ElementOfSeq
    <3> QED
      BY <2>1, <3>1, <1>1, NodesLinked
  <2>4. k \in 1..depth /\ depth \in 0..Len(s[i]) /\ At(s[i], depth) = Top
    BY <2>2, <1>1 DEF Below
  <2>5. At(s[i], depth)[k] = s[i][k]
    BY <2>3, <2>4, AtType
  <2> QED
    BY <2>4, <2>5, <1>5
<1>7. CASE \E j \in 2..Len(stack) : s[i] = stack[j]
  <2>1. PICK j \in 2..Len(stack) : s[i] = stack[j]
    BY <1>7
  <2>2. Len(s[i]) <= depth /\ j \in 1..Len(stack)
    BY <2>1, <1>1 DEF Walk
  <2>3. Len(s[i]) \in Nat
    <3>1. stack[j] \in DOMAIN nodes
      BY <2>2, <1>1, ElementOfSeq DEF Walk
    <3> QED
      BY <2>1, <3>1, <1>1, NodesLinked, LenProperties
  <2>4. k \in 1..(depth - 1)
    BY <2>2, <2>3, <1>1
  <2>5. buffer[k] = stack[j][k]
    BY <2>1, <2>2, <1>1 DEF SpelledOK
  <2> QED
    BY <2>1, <2>4, <2>5, <1>5
<1> QED
    BY <1>4, <1>6, <1>7 DEF Replaces

\* Visit: what is to be yielded lies under a node waiting still, unless it was yielded now.
LEMMA VisitCovers ==
    ASSUME ItemsInv, Visit, ~failed, NEW s, s = stack', NEW w \in Expected
    PROVE  \/ \E j \in 1..Len(found) : found[j][2] = w
           \/ w = Top
           \/ \E i \in 1..Len(s) : Below(w, s[i])
<1>1. /\ Turn /\ ArgsOK /\ Walk(stack) /\ Covered(stack) /\ Top = stack[1] /\ stack # <<>>
    BY Waiting DEF Visit
<1>2. s = Push(Rest, Children)
    BY DEF Visit
<1>3. /\ KidsOK(Children)
      /\ \A v \in words :
            Agrees(v) /\ Below(v, Top) /\ v # Top =>
                \E k \in 1..Len(Children) : Below(v, Children[k])
    BY <1>1, ChildrenKids
<1>4. Replaces(s, Children)
    BY <1>1, <1>2, <1>3, WalkDown
<1>5. CASE \E j \in 1..Len(found) : found[j][2] = w
    BY <1>5
<1>6. ASSUME NEW i \in 1..Len(stack), Below(w, stack[i])
      PROVE  w = Top \/ \E j \in 1..Len(s) : Below(w, s[j])
  <2>1. CASE i = 1 /\ w # Top
    <3>1. PICK k \in 1..Len(Children) : Below(w, Children[k])
      BY <2>1, <1>1, <1>3, <1>6 DEF Expected
    <3>2. PICK j \in 1..Len(s) : s[j] = Children[k]
      BY <1>4 DEF Replaces
    <3> QED
      BY <3>1, <3>2
  <2>2. CASE i # 1
    <3>1. i \in 2..Len(stack)
      BY <2>2
    <3>2. PICK j \in 1..Len(s) : s[j] = stack[i]
      BY <3>1, <1>4 DEF Replaces
    <3> QED
      BY <3>2, <1>6
  <2> QED
    BY <2>1, <2>2
<1> QED
    BY <1>1, <1>5, <1>6 DEF Covered

\* Visit.
LEMMA VisitKeeps == ItemsInv /\ Visit => ItemsInv'
<1> SUFFICES ASSUME ItemsInv, Visit PROVE ItemsInv'
    OBVIOUS
<1> DEFINE s == stack'
           new == Output /\ nodes[Top].eow
           key == IF type = "VALUES" THEN Top ELSE Key
           n == Len(found)
           f == found'
<1>1. /\ Turn /\ UNCHANGED args /\ ended' = ended /\ failed' = failed
      /\ s = Push(Rest, Children) /\ list' = PushItems(list_pop_first(list), Children)
      /\ buffer' = IF type = "VALUES" THEN buffer ELSE Spelled(buffer, Top)
    BY DEF Visit
<1>2. IF new THEN f = Append(found, <<key, Top>>) /\ pc' = "idle" ELSE f = found /\ pc' = pc
    BY DEF Visit
<1>3. /\ ArgsOK /\ Walk(stack) /\ YieldedOK(stack) /\ stack # <<>> /\ pc = "next" /\ ~ended
      /\ ~failed => SpelledOK(stack) /\ Covered(stack)
    BY <1>1, Waiting
<1>4. KidsOK(Children)
    BY <1>3, ChildrenKids
<1>5. /\ Walk(s) /\ YieldedOK(s)
      /\ \A i \in 1..Len(s) : ~Below(Top, s[i])
      /\ \A j \in 1..Len(found) : found[j][2] # Top
      /\ IsList(PushItems(list_pop_first(list), Children), OnList(s))
    BY <1>1, <1>4, Descends
<1>6. /\ new => Top \in Expected
      /\ Top \in Expected => new
      /\ ~failed /\ type = "KEYS" => Key = Top
    BY VisitYields
<1>7. f \in Seq(ToSet(f)) /\ \A j \in 1..n : f[j] = found[j]
  <2>1. CASE new
    BY <2>1, <1>2, OneMore DEF ItemsInv
  <2>2. CASE ~new
    BY <2>2, <1>2 DEF ItemsInv
  <2> QED
    BY <2>1, <2>2
<1>8. /\ n \in Nat
      /\ new => Len(f) = n + 1 /\ f[n + 1] = <<key, Top>>
      /\ ~new => Len(f) = n
  <2>1. n \in Nat
    BY LenProperties DEF ItemsInv
  <2>2. CASE new
    BY <2>1, <2>2, <1>2, OneMore DEF ItemsInv
  <2>3. CASE ~new
    BY <2>1, <2>3, <1>2
  <2> QED
    BY <2>1, <2>2, <2>3
<1>9. ArgsOK' /\ Walk(stack)' /\ Expected' = Expected /\ longest_word' = longest_word
      /\ type' = type
    BY <1>1, <1>3, <1>5, ArgsStable
<1> HIDE DEF s, f, n, new, key
<1>10. \A j \in 1..Len(f) : (j \in 1..n /\ f[j] = found[j]) \/ (new /\ j = n + 1)
    BY <1>7, <1>8
<1>11. YieldedOK(stack)'
  <2>1. ASSUME NEW j \in 1..Len(f)
        PROVE  f[j][2] \in Expected /\ \A i \in 1..Len(s) : ~Below(f[j][2], s[i])
    <3>1. CASE j \in 1..n /\ f[j] = found[j]
      BY <3>1, <1>5 DEF YieldedOK, n
    <3>2. CASE new /\ j = n + 1
      BY <3>2, <1>5, <1>6, <1>8
    <3> QED
      BY <3>1, <3>2, <1>10
  <2>2. ASSUME NEW j \in 1..Len(f), NEW k \in 1..Len(f), f[j][2] = f[k][2] PROVE j = k
    <3>1. CASE j \in 1..n /\ f[j] = found[j] /\ k \in 1..n /\ f[k] = found[k]
      BY <3>1, <2>2, <1>5 DEF YieldedOK, n
    <3>2. CASE j \in 1..n /\ f[j] = found[j] /\ new /\ k = n + 1
      <4>1. found[j][2] # Top /\ f[k][2] = Top
        BY <3>2, <1>5, <1>8 DEF n
      <4> QED
        BY <4>1, <3>2, <2>2
    <3>3. CASE k \in 1..n /\ f[k] = found[k] /\ new /\ j = n + 1
      <4>1. found[k][2] # Top /\ f[j][2] = Top
        BY <3>3, <1>5, <1>8 DEF n
      <4> QED
        BY <4>1, <3>3, <2>2
    <3>4. CASE j = n + 1 /\ k = n + 1
      BY <3>4
    <3> QED
      BY <3>1, <3>2, <3>3, <3>4, <1>10
  <2> QED
    BY <2>1, <2>2, <1>9 DEF YieldedOK, s, f
<1>12. ASSUME ~failed PROVE SpelledOK(stack)'
  <2>1. SpelledOK(stack)
    BY <1>3, <1>12
  <2>2. ASSUME NEW j \in 1..Len(f) PROVE f[j][1] = f[j][2]
    <3>1. CASE j \in 1..n /\ f[j] = found[j]
      BY <3>1, <2>1 DEF SpelledOK, n
    <3>2. CASE new /\ j = n + 1
      <4>1. key = Top
        BY <1>3, <1>6, <1>12 DEF key, ArgsOK
      <4> QED
        BY <3>2, <4>1, <1>8
    <3> QED
      BY <3>1, <3>2, <1>10
  <2>3. ASSUME type = "KEYS", NEW i \in 1..Len(s), NEW k \in 1..(Len(s[i]) - 1)
        PROVE  buffer'[k] = s[i][k]
    BY <2>3, <1>12, VisitSpells DEF s
  <2> QED
    BY <2>2, <2>3, <1>9 DEF SpelledOK, s, f
<1>13. ASSUME ~failed PROVE Covered(stack)'
  <2>1. ASSUME NEW w \in Expected
        PROVE  (\E j \in 1..Len(f) : f[j][2] = w) \/ \E i \in 1..Len(s) : Below(w, s[i])
    <3>1. \/ \E j \in 1..Len(found) : found[j][2] = w
          \/ w = Top
          \/ \E i \in 1..Len(s) : Below(w, s[i])
      BY <1>13, VisitCovers DEF s
    <3>2. ASSUME NEW j \in 1..Len(found), found[j][2] = w
          PROVE  \E k \in 1..Len(f) : f[k][2] = w
      <4>1. j \in 1..n /\ j \in 1..Len(f)
        BY <1>8 DEF n
      <4> QED
        BY <4>1, <3>2, <1>7
    <3>3. CASE w = Top
      <4>1. new
        BY <3>3, <1>6
      <4>2. n + 1 \in 1..Len(f) /\ f[n + 1][2] = w
        BY <4>1, <3>3, <1>8
      <4> QED
        BY <4>2
    <3> QED
      BY <3>1, <3>2, <3>3
  <2> QED
    BY <2>1, <1>9 DEF Covered, s, f
<1>14. WalkOK'
    BY <1>1, <1>9, <1>11, <1>12, <1>13 DEF WalkOK
<1>15. ListOK'
    BY <1>1, <1>5 DEF ListOK, OnList, s
<1>16. EndOK'
    BY <1>1, <1>2, <1>3 DEF EndOK
<1>17. (DOMAIN buffer = 0..longest_word)'
  <2>1. DOMAIN buffer' = DOMAIN buffer
    BY <1>1 DEF Spelled
  <2> QED
    BY <2>1, <1>9 DEF ItemsInv
<1> QED
    BY <1>7, <1>9, <1>14, <1>15, <1>16, <1>17 DEF ItemsInv, f

\* NoMemory: some of the children are not pushed.
LEMMA NoMemoryKeeps == ItemsInv /\ NoMemory => ItemsInv'
<1> SUFFICES ASSUME ItemsInv, NoMemory PROVE ItemsInv'
    OBVIOUS
<1>1. /\ Turn /\ UNCHANGED args /\ buffer' = buffer /\ found' = found /\ ended' = ended
      /\ pc' = "idle" /\ failed' = TRUE
    BY DEF NoMemory
<1>2. PICK m \in 0..(Len(Children) - 1) :
            /\ stack' = Push(Rest, At(Children, m))
            /\ list' = PushItems(list_pop_first(list), At(Children, m))
    BY DEF NoMemory
<1>3. ArgsOK /\ Walk(stack) /\ stack # <<>> /\ pc = "next" /\ ~ended
    BY <1>1, Waiting
<1> DEFINE c == At(Children, m)
           s == Push(Rest, c)
<1>4. KidsOK(c)
  <2>1. KidsOK(Children)
    BY <1>3, ChildrenKids
  <2>2. Len(Children) \in Nat
    BY <2>1, LenProperties DEF KidsOK
  <2>3. m \in 0..Len(Children)
    BY <2>2
  <2> QED
    BY <2>1, <2>3, KidsPart
<1> HIDE DEF c
<1>5. Walk(s) /\ YieldedOK(s) /\ IsList(PushItems(list_pop_first(list), c), OnList(s))
    BY <1>1, <1>4, Descends
<1>6. stack' = s /\ list' = PushItems(list_pop_first(list), c)
    BY <1>2 DEF c
<1> HIDE DEF s
<1>7. ArgsOK' /\ Walk(stack)' /\ longest_word' = longest_word
    BY <1>1, <1>3, <1>5, <1>6, ArgsStable
<1>8. YieldedOK(stack)'
    BY <1>1, <1>5, <1>6, NothingYielded
<1>9. WalkOK'
    BY <1>1, <1>7, <1>8 DEF WalkOK
<1>10. ListOK'
    BY <1>5, <1>6 DEF ListOK, OnList
<1>11. EndOK'
    BY <1>1, <1>3 DEF EndOK
<1> QED
    BY <1>1, <1>7, <1>9, <1>10, <1>11 DEF ItemsInv

\* CallNext.
LEMMA CallNextKeeps == ItemsInv /\ CallNext => ItemsInv'
<1> SUFFICES ASSUME ItemsInv, CallNext PROVE ItemsInv'
    OBVIOUS
<1>1. /\ UNCHANGED args /\ stack' = stack /\ list' = list /\ buffer' = buffer /\ found' = found
      /\ ended' = ended /\ failed' = failed /\ pc = "idle" /\ pc' = "next" /\ ~ended
    BY DEF CallNext
<1>2. ArgsOK' /\ words' = words /\ longest_word' = longest_word /\ (Walk(stack) => Walk(stack)')
    BY <1>1, ArgsStable DEF ItemsInv, args
<1>3. /\ YieldedOK(stack) => YieldedOK(stack)'
      /\ SpelledOK(stack) => SpelledOK(stack)'
      /\ Covered(stack) => Covered(stack)'
    BY <1>1, NothingYielded
<1>4. WalkOK'
  <2>1. WalkOK
    BY DEF ItemsInv
  <2>2. CASE stack = <<NULL>> /\ words = {} /\ found = <<>>
    BY <2>2, <1>1, <1>2 DEF WalkOK
  <2>3. CASE /\ Walk(stack) /\ YieldedOK(stack)
             /\ ~failed => SpelledOK(stack) /\ ((pc # "deleted" \/ ended) => Covered(stack))
    BY <2>3, <1>1, <1>2, <1>3 DEF WalkOK
  <2> QED
    BY <2>1, <2>2, <2>3 DEF WalkOK
<1>5. ListOK'
    BY <1>1 DEF ItemsInv, ListOK
<1>6. EndOK'
    BY <1>1 DEF ItemsInv, EndOK
<1> QED
    BY <1>1, <1>2, <1>4, <1>5, <1>6 DEF ItemsInv

\* A stack without a root does not hold the nodes of a trie.
LEMMA NoRoot == ASSUME ArgsOK PROVE ~Walk(<<NULL>>)
<1> SUFFICES ASSUME Walk(<<NULL>>) PROVE FALSE
    OBVIOUS
<1>1. <<NULL>> \in Seq(DOMAIN nodes) /\ 1 \in 1..Len(<<NULL>>) /\ <<NULL>>[1] = NULL
    BY DEF Walk
<1>2. NULL \in DOMAIN nodes
    BY <1>1, ElementOfSeq
<1> QED
    BY <1>2, NodesLinked, PointerAssumption

\* automaton_items_iter_del.
LEMMA DelKeeps == ItemsInv /\ automaton_items_iter_del => ItemsInv'
<1> SUFFICES ASSUME ItemsInv, automaton_items_iter_del PROVE ItemsInv'
    OBVIOUS
<1>1. /\ UNCHANGED args /\ <<>> = stack' /\ list' = list_delete(list) /\ buffer' = buffer
      /\ found' = found /\ ended' = ended /\ failed' = failed /\ pc' = "deleted"
    BY DEF automaton_items_iter_del
<1>2. ArgsOK' /\ longest_word' = longest_word /\ Walk(stack)'
    BY <1>1, ArgsStable, NoneWait DEF ItemsInv
<1>3. stack \in Seq(Place)
  <2>1. CASE stack = <<NULL>>
    BY <2>1 DEF Place
  <2>2. CASE Walk(stack)
    BY <2>2, NodesLinked DEF Walk, ItemsInv, Place
  <2> QED
    BY <2>1, <2>2 DEF ItemsInv, WalkOK
<1>4. IsList(list', <<>>)
  <2>1. IsList(list, OnList(stack))
    BY DEF ItemsInv, ListOK, OnList
  <2>2. OnList(stack) \in Seq([node : Place])
    BY <1>3, OnListType
  <2> QED
    BY <2>1, <2>2, <1>1, DeleteCorrect
<1>5. ListOK'
    BY <1>1, <1>4, NoneWait DEF ListOK, OnList
<1>6. YieldedOK(<<>>) /\ (~failed => SpelledOK(<<>>) /\ (ended => Covered(<<>>)))
  <2>1. CASE stack = <<NULL>> /\ words = {} /\ found = <<>>
    <3>1. Len(found) = 0 /\ Len(<<>>) = 0 /\ 1..0 = {} /\ Expected = {}
      BY <2>1 DEF Expected
    <3> QED
      BY <3>1 DEF YieldedOK, SpelledOK, Covered
  <2>2. CASE /\ Walk(stack) /\ YieldedOK(stack)
             /\ ~failed => SpelledOK(stack) /\ ((pc # "deleted" \/ ended) => Covered(stack))
    <3>1. YieldedOK(<<>>) /\ (SpelledOK(stack) => SpelledOK(<<>>))
      <4>1. Len(<<>>) = 0 /\ 1..0 = {}
        OBVIOUS
      <4> QED
        BY <2>2, <4>1, NoneWait DEF YieldedOK
    <3>2. ended => stack = <<>>
      BY DEF ItemsInv, EndOK
    <3> QED
      BY <2>2, <3>1, <3>2
  <2> QED
    BY <2>1, <2>2 DEF ItemsInv, WalkOK
<1>7. WalkOK'
    BY <1>1, <1>2, <1>6, NothingYielded DEF WalkOK
<1>8. EndOK'
    BY <1>1 DEF EndOK
<1> QED
    BY <1>1, <1>2, <1>5, <1>7, <1>8 DEF ItemsInv

-----------------------------------------------------------------------------
(* The start of the walk, and the theorems. *)

\* A list of one item for the node x, made by automaton_items_create.
LEMMA FirstListed ==
    ASSUME NEW x \in Place
    PROVE  IsList(PushItems(list_init, <<x>>), OnList(<<x>>))
<1> DEFINE one == <<x>>
<1>1. /\ one \in Seq(Place) /\ <<>> \in Seq(Place) /\ Len(one) = 1 /\ Len(<<>>) = 0
      /\ one[1] = x /\ DOMAIN one = 1..1
    OBVIOUS
<1>2. IsInjective(one)
    BY <1>1 DEF IsInjective
<1> HIDE DEF one
<1>3. IsList(list_init, OnList(<<>>))
    BY InitEmpty, NoneWait
<1>4. IsList(PushItems(list_init, one), OnList(Push(<<>>, one)))
  <2> DEFINE none == <<>>
  <2>1. none \in Seq(Place) /\ IsList(list_init, OnList(none))
    BY <1>1, <1>3
  <2>2. \A i \in 1..Len(one), j \in 1..Len(none) : one[i] # none[j]
    BY <1>1
  <2> HIDE DEF none
  <2>3. IsList(PushItems(list_init, one), OnList(Push(none, one)))
    BY <1>1, <1>2, <2>1, <2>2, PushListed
  <2> QED
    BY <2>3 DEF none
<1>5. Push(<<>>, one) = one
  <2> DEFINE s == Push(<<>>, one)
  <2>1. s \in Seq(Place) /\ Stacked(s, <<>>, one)
    BY <1>1, PushElements
  <2> HIDE DEF s
  <2>2. Len(s) = 1 /\ s[1] = one[1]
    BY <1>1, <2>1 DEF Stacked
  <2>3. s = one
    BY <1>1, <2>1, <2>2, SeqEqual
  <2> QED
    BY <2>3 DEF s
<1> QED
    BY <1>4, <1>5 DEF one

\* At the start every word is under the root.
LEMMA ItemsInit == Init => ItemsInv
<1> SUFFICES ASSUME Init PROVE ItemsInv
    OBVIOUS
<1>1. /\ ArgsOK /\ pc = "idle" /\ found = <<>> /\ ended = FALSE /\ failed = FALSE
      /\ stack = <<Root>> \/ (words = {} /\ stack = <<NULL>>)
      /\ list = PushItems(list_init, stack) /\ buffer = [k \in 0..longest_word |-> NULL]
    BY DEF Init, ArgsOK
<1>2. EndOK
    BY <1>1 DEF EndOK
<1>3. ListOK
  <2>1. Root \in Place /\ NULL \in Place
    BY DEF Place, Root
  <2> QED
    BY <2>1, <1>1, FirstListed DEF ListOK, OnList
<1>4. Len(found) = 0 /\ 1..0 = {} /\ found \in Seq(ToSet(found))
    BY <1>1
<1>5. CASE stack = <<Root>>
  <2>1. /\ Root \in Seq(Letters) /\ Len(Root) = 0 /\ 1..1 = {1}
        /\ Len(stack) = 1 /\ stack[1] = Root
    BY <1>5 DEF Root
  <2>2. Root \in DOMAIN nodes
    <3>1. IsFiniteSet(words) /\ words \subseteq Seq(Letters)
      BY <1>1, DictionaryAssumption DEF ArgsOK
    <3> QED
      BY <3>1, <1>1, PathsClosed, BuiltFields DEF ArgsOK
  <2>3. Walk(stack)
    <3>1. stack \in Seq(DOMAIN nodes)
      BY <1>5, <2>2
    <3>2. Agrees(Root)
      BY <2>1, <1>4 DEF Agrees
    <3>3. \A i \in 1..Len(stack) : i = 1 /\ stack[i] = Root
      BY <2>1
    <3> QED
      BY <3>1, <3>2, <3>3, <2>1 DEF Walk
  <2>4. YieldedOK(stack)
    BY <1>4 DEF YieldedOK
  <2>5. SpelledOK(stack)
    <3>1. \A i \in 1..Len(stack) : 1..(Len(stack[i]) - 1) = {}
      BY <2>1
    <3> QED
      BY <3>1, <1>4 DEF SpelledOK
  <2>6. Covered(stack)
    <3>1. ASSUME NEW w \in Expected PROVE Below(w, Root)
      <4>1. w \in Seq(Letters) /\ Len(w) \in Nat
        BY <1>1, NodesLinked, LenProperties DEF Expected
      <4>2. 0 \in 0..Len(w)
        BY <4>1
      <4>3. At(w, 0) \in Seq(Letters) /\ Len(At(w, 0)) = 0
        BY <4>1, <4>2, AtType
      <4>4. At(w, 0) = Root
        BY <4>3, EmptySeq DEF Root
      <4> QED
        BY <4>1, <4>4, <2>1 DEF Below
    <3> QED
      BY <3>1, <2>1 DEF Covered
  <2>7. WalkOK
    BY <2>3, <2>4, <2>5, <2>6 DEF WalkOK
  <2> QED
    BY <2>7, <1>1, <1>2, <1>3, <1>4 DEF ItemsInv
<1>6. CASE words = {} /\ stack = <<NULL>>
    BY <1>6, <1>1, <1>2, <1>3, <1>4 DEF ItemsInv, WalkOK
<1> QED
    BY <1>1, <1>5, <1>6

\* Each step keeps the invariant.
LEMMA ItemsNext == ItemsInv /\ [Next]_vars => ItemsInv'
<1> SUFFICES ASSUME ItemsInv, [Next]_vars PROVE ItemsInv'
    OBVIOUS
<1>1. CASE CallNext
    BY <1>1, CallNextKeeps
<1>2. CASE Stop
    BY <1>2, StopKeeps
<1>3. CASE Skip
    BY <1>3, SkipKeeps
<1>4. CASE Visit
    BY <1>4, VisitKeeps
<1>5. CASE NoMemory
    BY <1>5, NoMemoryKeeps
<1>6. CASE automaton_items_iter_del
    BY <1>6, DelKeeps
<1>7. CASE UNCHANGED vars
  <2>1. /\ UNCHANGED args /\ stack' = stack /\ list' = list /\ buffer' = buffer
        /\ found' = found /\ pc' = pc /\ ended' = ended /\ failed' = failed
    BY <1>7 DEF vars
  <2>2. /\ ArgsOK' /\ words' = words /\ longest_word' = longest_word
        /\ Walk(stack) => Walk(stack)'
    BY <2>1, ArgsStable DEF ItemsInv, args
  <2>3. /\ YieldedOK(stack) => YieldedOK(stack)'
        /\ SpelledOK(stack) => SpelledOK(stack)'
        /\ Covered(stack) => Covered(stack)'
    BY <2>1, NothingYielded
  <2>4. WalkOK'
    <3>1. CASE stack = <<NULL>> /\ words = {} /\ found = <<>>
      BY <3>1, <2>1, <2>2 DEF WalkOK
    <3>2. CASE /\ Walk(stack) /\ YieldedOK(stack)
               /\ ~failed => SpelledOK(stack) /\ ((pc # "deleted" \/ ended) => Covered(stack))
      BY <3>2, <2>1, <2>2, <2>3 DEF WalkOK
    <3> QED
      BY <3>1, <3>2 DEF ItemsInv, WalkOK
  <2>5. ListOK' /\ EndOK'
    BY <2>1 DEF ItemsInv, ListOK, EndOK
  <2> QED
    BY <2>1, <2>2, <2>4, <2>5 DEF ItemsInv
<1> QED
    BY <1>1, <1>2, <1>3, <1>4, <1>5, <1>6, <1>7 DEF Next

\* The invariant of the items iterator.
THEOREM ItemsInvariant == Spec => []ItemsInv
<1> QED
    BY ItemsInit, ItemsNext, PTL DEF Spec

\* What is known of the keys by their positions, as sets.
LEMMA ByPosition ==
    ASSUME ItemsInv
    PROVE  /\ \A m \in ToSet(found) : \E j \in 1..Len(found) : m = found[j]
           /\ \A j \in 1..Len(found) : found[j][2] \in Yielded
           /\ \A w \in Yielded : \E j \in 1..Len(found) : w = found[j][2]
           /\ DOMAIN found = 1..Len(found)
<1>1. found \in Seq(ToSet(found))
    BY DEF ItemsInv
<1>2. DOMAIN found = 1..Len(found)
    BY <1>1, LenProperties
<1>3. \A m \in ToSet(found) : \E j \in 1..Len(found) : m = found[j]
    BY <1>2 DEF ToSet
<1>4. \A j \in 1..Len(found) : found[j] \in ToSet(found)
    BY <1>2 DEF ToSet
<1> QED
    BY <1>2, <1>3, <1>4 DEF Yielded

\* keys() yields the keys that match the pattern, all of them when it stops, and spells each
\* right although all are cut from one buffer (unless an allocation failed).
THEOREM KeysCorrect == Spec => []KeysOK
<1>1. ASSUME ItemsInv PROVE KeysOK
  <2> SUFFICES ASSUME ~failed
               PROVE  /\ Yielded \subseteq Expected
                      /\ \A m \in ToSet(found) : m[1] = m[2]
                      /\ ended => Yielded = Expected
      BY DEF KeysOK
  <2>1. CASE stack = <<NULL>> /\ words = {} /\ found = <<>>
    <3>1. Expected = {} /\ ToSet(found) = {}
      BY <2>1 DEF Expected, ToSet
    <3> QED
      BY <3>1 DEF Yielded
  <2>2. CASE Walk(stack) /\ YieldedOK(stack)
             /\ (~failed => SpelledOK(stack) /\ ((pc # "deleted" \/ ended) => Covered(stack)))
    <3>1. Yielded \subseteq Expected
      BY <1>1, <2>2, ByPosition DEF YieldedOK
    <3>2. \A m \in ToSet(found) : m[1] = m[2]
      BY <1>1, <2>2, ByPosition DEF SpelledOK
    <3>3. ASSUME ended PROVE Expected \subseteq Yielded
      <4>1. Covered(stack) /\ stack = <<>>
        BY <3>3, <1>1, <2>2 DEF ItemsInv, EndOK
      <4>2. Len(stack) = 0 /\ 1..0 = {}
        BY <4>1
      <4>3. \A w \in Expected : \E j \in 1..Len(found) : found[j][2] = w
        BY <4>1, <4>2 DEF Covered
      <4> QED
        BY <1>1, <4>3, ByPosition
    <3> QED
      BY <3>1, <3>2, <3>3
  <2> QED
    BY <1>1, <2>1, <2>2 DEF ItemsInv, WalkOK
<1> QED
    BY <1>1, ItemsInvariant, PTL

\* No node waits on the stack twice or after its word was yielded, so that no key comes twice,
\* even from an iterator used on after a MemoryError.
THEOREM OnceCorrect == Spec => []NoKeyTwice
<1>1. ASSUME ItemsInv PROVE NoKeyTwice
  <2>1. CASE stack = <<NULL>> /\ words = {} /\ found = <<>>
    <3>1. IsInjective(stack)
      BY <2>1 DEF IsInjective
    <3>2. ToSet(found) = {} /\ DOMAIN found = {}
      BY <2>1 DEF ToSet
    <3> QED
      BY <3>1, <3>2 DEF NoKeyTwice, Yielded
  <2>2. CASE Walk(stack) /\ YieldedOK(stack)
    <3>1. stack \in Seq(DOMAIN nodes) /\ DOMAIN nodes \subseteq Seq(Letters)
      BY <1>1, <2>2, NodesLinked DEF Walk, ItemsInv
    <3>2. /\ DOMAIN stack = 1..Len(stack)
          /\ \A i \in 1..Len(stack) : stack[i] \in Seq(Letters)
      BY <3>1, ElementOfSeq, LenProperties
    <3>3. \A i \in 1..Len(stack) : Below(stack[i], stack[i])
      BY <3>2, BelowFacts
    <3>4. IsInjective(stack)
      BY <3>2, <3>3, <2>2 DEF IsInjective, Walk
    <3>5. \A j, k \in DOMAIN found : found[j][2] = found[k][2] => j = k
      BY <1>1, <2>2, ByPosition DEF YieldedOK
    <3>6. ASSUME NEW w \in ToSet(stack), w \in Yielded PROVE FALSE
      <4>1. PICK i \in 1..Len(stack) : w = stack[i]
        BY <3>6, <3>2 DEF ToSet
      <4>2. PICK j \in 1..Len(found) : w = found[j][2]
        BY <3>6, <1>1, ByPosition
      <4> QED
        BY <4>1, <4>2, <3>3, <2>2 DEF YieldedOK
    <3> QED
      BY <3>4, <3>5, <3>6 DEF NoKeyTwice
  <2> QED
    BY <1>1, <2>1, <2>2 DEF ItemsInv, WalkOK
<1> QED
    BY <1>1, ItemsInvariant, PTL

\* The linked list is the stack of the walk, whatever was pushed, popped or could not be
\* allocated before, and deleting the iterator frees every item of it.
THEOREM ListCorrect == Spec => []ListOK
<1>1. ItemsInv => ListOK
    BY DEF ItemsInv
<1> QED
    BY <1>1, ItemsInvariant, PTL
=============================================================================
