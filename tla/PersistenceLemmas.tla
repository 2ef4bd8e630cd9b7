-------------------------- MODULE PersistenceLemmas --------------------------
(***************************************************************************)
(* What PersistenceProofs is made of.  First the file of save(), for every *)
(* trie, any sizes of what the serializer makes of the objects, and        *)
(* wherever the writes fall on the boundary of the buffer: what the buffer *)
(* and the stack of frames hold between two nodes, and that writing a      *)
(* node, its links and its value leaves the file in order.  Then the parts *)
(* of the inductive invariant, and the steps of the automaton, of          *)
(* __reduce__, of the constructor and of save().                           *)
(***************************************************************************)
EXTENDS Persistence, AutomatonProofs

\* save(): the stack, which leads from the root to the node of its last frame.
StackOK(stack) ==
    LET D == Len(stack)
        path == stack[D].node
        next(d) == nodes[stack[d].node].next
    IN  stack # <<>> =>
        /\ stack[1] = [node |-> NULL, i |-> IF D = 1 THEN 1 ELSE 2]
        /\ D > 1 => path \in DOMAIN nodes /\ Len(path) = D - 2
        /\ \A d \in 2..D :
            /\ stack[d] = [node |-> At(path, d - 2), i |-> stack[d].i]
            /\ stack[d].i \in 1..(Len(next(d)) + 1)
            /\ d < D => stack[d].i > 1 /\ next(d)[stack[d].i - 1] = path[d - 1]

\* Whether q is in the subtree of the j-th child of p; the nodes not visited yet.
Below(p, j, q) ==
    LET c == Append(p, nodes[p].next[j]) IN Len(c) <= Len(q) /\ At(q, Len(c)) = c

Waiting(stack) ==
    {q \in DOMAIN nodes : \E d \in DOMAIN stack :
        IF stack[d].node = NULL THEN stack[d].i = 1
        ELSE \E j \in stack[d].i..Len(nodes[stack[d].node].next) : Below(stack[d].node, j, q)}

\* Sequences, one after the other.
Cat(s, t) == s \o t
PrefixOf(s, t) == \E k \in 0..Len(t) : s = At(t, k)

\* What is in a buffer: in the file already, or held.
Items(o) == Cat(o.tokens, IF ~o.full THEN o.held ELSE <<>>)

IsBuffer(o, S) == DOMAIN o = DOMAIN NewBuffer /\ o.tokens \in Seq(S) /\ o.held \in Seq(S)

\* The file.
Addresses(w) == {w[k].node : k \in {k \in DOMAIN w : w[k].type = "address"}}

NodeFields == {"type", "size", "n", "eow", "fail", "output"}
PairsFields == {"type", "size", "next"}

NodeToken(t, p) ==
    /\ t.type = "node" /\ DOMAIN t = NodeFields
    /\ t.n = SavedNode(p).n /\ t.eow = SavedNode(p).eow /\ t.output = SavedNode(p).output
    /\ \/ t.fail = nodes[p].fail
       \/ output.damaged /\ kind = "AHOCORASICK" /\ nodes[p].fail # NULL /\ t.fail = FREED

LinksToken(next, p) ==
    /\ DOMAIN next = DOMAIN nodes[p].next
    /\ next = [j \in DOMAIN nodes[p].next |-> next[j]]
    /\ \A j \in DOMAIN nodes[p].next :
        /\ next[j] = [letter |-> nodes[p].next[j], child |-> next[j].child]
        /\ \/ next[j].child = Append(p, nodes[p].next[j])
           \/ output.damaged /\ next[j].child = FREED

PairsToken(t, p) == t.type = "pairs" /\ DOMAIN t = PairsFields /\ LinksToken(t.next, p)

Linked(p) == Bool(nodes[p].next # <<>>)
Valued(p) == Bool(nodes[p].eow /\ store = "ANY")

BlockOK(w, k) ==
    LET p == w[k].node
        n == k + 1 + Linked(p) + Valued(p)
    IN  /\ p \in DOMAIN nodes
        /\ k + 1 <= Len(w) => NodeToken(w[k + 1], p)
        /\ Linked(p) = 1 /\ k + 2 <= Len(w) => PairsToken(w[k + 2], p)
        /\ Valued(p) = 1 /\ n <= Len(w) => w[n] = Bytes(nodes[p].output)
        /\ n < Len(w) => w[n + 1].type \in {"address", "footer"}
        /\ p # Root => \E j \in 1..(k - 1) : w[j].type = "address" /\ w[j].node = Front(p)

WrittenOK(w) ==
    /\ w # <<>> => w[1] = Header
    /\ Len(w) > 1 => w[2].type \in {"address", "footer"}
    /\ \A k \in DOMAIN w :
        /\ w[k].type = "address" => BlockOK(w, k)
        /\ w[k].type = "node" => k > 1 /\ w[k - 1].type = "address"
        /\ w[k].type = "pairs" => DOMAIN w[k] = PairsFields
    /\ \A j, k \in DOMAIN w :
        w[j].type = "address" /\ w[k].type = "address" /\ w[j].node = w[k].node => j = k
    /\ \A k \in DOMAIN w :
        w[k].type = "footer" => k = Len(w) /\ (kind # "EMPTY" => Addresses(w) = DOMAIN nodes)

\* Where the block at k ends, and whether it is whole.
End(w, k) == k + 1 + Linked(w[k].node) + Valued(w[k].node)
Closed(w, k) == End(w, k) <= Len(w)

OpenOK(w) ==
    \A k \in DOMAIN w : w[k].type = "address" =>
        IF save.at = "serializer" /\ w[k].node = Last(save.stack).node
        THEN k + 1 = Len(w) ELSE Closed(w, k)

\* Nothing before save() ends comes after everything.
Unfinished(w) == \A k \in DOMAIN w : w[k].type # "footer"

SavingOK ==
    /\ \E S : save.stack \in Seq(S)
    /\ StackOK(save.stack)
    /\ kind = "EMPTY" => save.stack = <<>>
    /\ output.size \in Nat
    /\ save.at = "serializer" =>
        LET p == Last(save.stack).node
        IN  /\ output.size > 0 /\ Len(save.stack) > 1
            /\ nodes[p].eow /\ store = "ANY" /\ save.bytes = <<Bytes(nodes[p].output)>>
    /\ ~output.full =>
        /\ Written # <<>> /\ Unfinished(Written) /\ OpenOK(Written)
        /\ IF kind = "EMPTY" THEN Len(Written) = 1
           ELSE Addresses(Written) = DOMAIN nodes \ Waiting(save.stack)

SaveOK ==
    /\ save = NoSave => output = NoFile
    /\ save # NoSave =>
        /\ IF Running THEN DOMAIN save = DOMAIN NewSave /\ \E S : IsBuffer(output, S)
           ELSE DOMAIN output = DOMAIN NoFile /\ \E S : output.tokens \in Seq(S)
        /\ ~save.called /\ loading.result # "automaton" =>
            /\ WrittenOK(Written)
            /\ save.at \in {"next", "serializer"} => SavingOK

\* What the frames and the sizes are also after the serializer changed the trie.
FramesOK ==
    Running =>
        /\ output.size \in 0..Capacity
        /\ \E S : save.stack \in Seq(S)
        /\ \A k \in DOMAIN save.stack :
            LET f == save.stack[k]
            IN  /\ f = [node |-> f.node, i |-> f.i]
                /\ f.i \in Nat \ {0} /\ f.node \in DOMAIN nodes \cup {NULL, FREED}
                /\ f.node = NULL => k = 1
                /\ f.node = NULL /\ f.i = 1 => Len(save.stack) = 1 /\ Root \in DOMAIN nodes
        /\ save.at = "serializer" => Len(save.stack) > 1
        /\ save.bytes # <<>> => save.bytes = <<save.bytes[1]>> /\ save.bytes[1].size \in Nat

\* load()
EntryOK(entry) ==
    LET p == entry.original
    IN  /\ p \in DOMAIN nodes
        /\ NodeToken(entry.fields, p)
        /\ IF Linked(p) = 1 THEN LinksToken(entry.links, p)
           ELSE entry.links = <<>>
        /\ entry.value = IF Valued(p) = 1 THEN nodes[p].output ELSE NULL

ValuesTaken(lookup) ==
    [o \in Objects |-> Cardinality({j \in DOMAIN lookup : lookup[j].value = o})]

AddressesTo(w, n) == {w[k].node : k \in {k \in 1..n : w[k].type = "address"}}

LoadingOK ==
    /\ loading.result = "running" =>
        LET lookup == loading.lookup
        IN  /\ DOMAIN loading = DOMAIN NewLoading
            /\ Complete(output.tokens) /\ ~save.called /\ kind # "EMPTY"
            /\ \E S : lookup \in Seq(S)
            /\ loading.live = Len(lookup)
            /\ loading.refs = ValuesTaken(lookup)
            /\ loading.pos \in 2..Len(output.tokens)
            /\ output.tokens[loading.pos].type \in {"address", "footer"}
            /\ \A j \in DOMAIN lookup : EntryOK(lookup[j])
            /\ \A j, k \in DOMAIN lookup : lookup[j].original = lookup[k].original => j = k
            /\ Known = AddressesTo(output.tokens, loading.pos - 1)
    /\ LoadLeavesNothing

-----------------------------------------------------------------------------
(* The buffer of save(). *)

LEMMA CatProperties ==
    ASSUME NEW S, NEW s \in Seq(S), NEW t \in Seq(S)
    PROVE  /\ Cat(s, t) \in Seq(S) /\ Len(Cat(s, t)) = Len(s) + Len(t)
           /\ \A j \in 1..Len(s) : Cat(s, t)[j] = s[j]
           /\ \A j \in 1..Len(t) : Cat(s, t)[Len(s) + j] = t[j]
           /\ Cat(s, <<>>) = s /\ Cat(<<>>, s) = s
<1>1. Len(s) \in Nat /\ Len(t) \in Nat
    BY LenProperties
<1>2. /\ Cat(s, t) \in Seq(S) /\ Len(Cat(s, t)) = Len(s) + Len(t)
      /\ \A j \in 1..(Len(s) + Len(t)) : Cat(s, t)[j] = IF j <= Len(s) THEN s[j] ELSE t[j - Len(s)]
    BY ConcatProperties DEF Cat
<1>3. \A j \in 1..Len(s) : j \in 1..(Len(s) + Len(t)) /\ j <= Len(s)
    BY <1>1
<1>4. \A j \in 1..Len(t) : /\ Len(s) + j \in 1..(Len(s) + Len(t)) /\ ~(Len(s) + j <= Len(s))
                           /\ Len(s) + j - Len(s) = j
    BY <1>1
<1>5. Cat(s, <<>>) = s /\ Cat(<<>>, s) = s
    BY ConcatEmptySeq DEF Cat
<1> QED
    BY <1>2, <1>3, <1>4, <1>5

LEMMA CatAssociative ==
    ASSUME NEW S, NEW s \in Seq(S), NEW t \in Seq(S), NEW u \in Seq(S)
    PROVE  Cat(Cat(s, t), u) = Cat(s, Cat(t, u))
BY ConcatAssociative DEF Cat

LEMMA PrefixProperties ==
    ASSUME NEW S, NEW s \in Seq(S), NEW t \in Seq(S)
    PROVE  /\ PrefixOf(s, s) /\ PrefixOf(<<>>, s) /\ PrefixOf(s, Cat(s, t))
           /\ \A r : PrefixOf(r, s) =>
                /\ r \in Seq(S) /\ Len(r) <= Len(s) /\ \A j \in 1..Len(r) : r[j] = s[j]
                /\ Len(r) = Len(s) => r = s
                /\ PrefixOf(r, Cat(s, t))
           /\ \A q, r : PrefixOf(q, r) /\ PrefixOf(r, s) => PrefixOf(q, s)
<1>1. Len(s) \in Nat /\ Len(t) \in Nat /\ 0 \in 0..Len(s) /\ Len(s) \in 0..Len(s)
    BY LenProperties
<1>2. At(s, Len(s)) = s /\ At(s, 0) = <<>>
    BY <1>1, AtAt
<1>3. PrefixOf(s, s) /\ PrefixOf(<<>>, s)
    BY <1>1, <1>2 DEF PrefixOf
<1>4. ASSUME NEW k \in 0..Len(s) PROVE At(Cat(s, t), k) = At(s, k) /\ k \in 0..Len(Cat(s, t))
  <2>0. Cat(s, t) \in Seq(S) /\ Len(Cat(s, t)) = Len(s) + Len(t)
        /\ \A j \in 1..Len(s) : Cat(s, t)[j] = s[j]
    BY CatProperties
  <2>1. k \in 0..Len(Cat(s, t))
    BY <1>1, <2>0
  <2>2. /\ At(Cat(s, t), k) \in Seq(S) /\ Len(At(Cat(s, t), k)) = k
        /\ \A j \in 1..k : At(Cat(s, t), k)[j] = Cat(s, t)[j]
    BY <2>0, <2>1, AtType
  <2>3. At(s, k) \in Seq(S) /\ Len(At(s, k)) = k /\ \A j \in 1..k : At(s, k)[j] = s[j]
    BY AtType
  <2>4. \A j \in 1..k : At(Cat(s, t), k)[j] = At(s, k)[j]
    BY <1>1, <2>0, <2>2, <2>3
  <2> QED
    BY <2>1, <2>2, <2>3, <2>4, SeqEqual
<1>5. PrefixOf(s, Cat(s, t))
    BY <1>1, <1>2, <1>4 DEF PrefixOf
<1>6. ASSUME NEW r, PrefixOf(r, s)
      PROVE  /\ r \in Seq(S) /\ Len(r) <= Len(s) /\ \A j \in 1..Len(r) : r[j] = s[j]
             /\ Len(r) = Len(s) => r = s
             /\ PrefixOf(r, Cat(s, t))
  <2>1. PICK k \in 0..Len(s) : r = At(s, k)
    BY <1>6 DEF PrefixOf
  <2>2. At(s, k) \in Seq(S) /\ Len(At(s, k)) = k /\ \A j \in 1..k : At(s, k)[j] = s[j]
    BY AtType
  <2>3. PrefixOf(r, Cat(s, t))
    BY <1>4, <2>1 DEF PrefixOf
  <2> QED
    BY <1>1, <1>2, <2>1, <2>2, <2>3
<1>7. ASSUME NEW q, NEW r, PrefixOf(q, r), PrefixOf(r, s) PROVE PrefixOf(q, s)
  <2>1. PICK k \in 0..Len(s) : r = At(s, k)
    BY <1>7 DEF PrefixOf
  <2>2. Len(r) = k
    BY <2>1, AtType
  <2>3. PICK j \in 0..k : q = At(r, j)
    BY <1>7, <2>2 DEF PrefixOf
  <2>4. q = At(s, j) /\ j \in 0..Len(s)
    BY <1>1, <2>1, <2>3, AtAt
  <2> QED
    BY <2>4 DEF PrefixOf
<1> QED
    BY <1>3, <1>5, <1>6, <1>7

\* Writing `items' to a buffer: everything goes in, in order, until a write fails, and
\* what is in the file then is the beginning of it.
Extends(o, items, r, S) ==
    /\ IsBuffer(r, S) /\ r.damaged = o.damaged
    /\ o.full => r.full /\ r.tokens = o.tokens
    /\ r.full /\ ~o.full => PrefixOf(Items(r), Cat(Items(o), items))
    /\ ~r.full => Items(r) = Cat(Items(o), items)

LEMMA ItemsType ==
    ASSUME NEW S, NEW o, IsBuffer(o, S)
    PROVE  /\ Items(o) \in Seq(S) /\ (o.full => Items(o) = o.tokens)
           /\ (~o.full => Items(o) = Cat(o.tokens, o.held))
           /\ PrefixOf(o.tokens, Items(o))
<1>1. <<>> \in Seq(S) /\ o.tokens \in Seq(S) /\ o.held \in Seq(S)
    BY EmptySeq DEF IsBuffer
<1>2. CASE o.full
  <2>1. Items(o) = Cat(o.tokens, <<>>)
    BY <1>2 DEF Items
  <2>2. Items(o) = o.tokens
    BY <1>1, <2>1, CatProperties
  <2> QED
    BY <1>1, <1>2, <2>2, PrefixProperties
<1>3. CASE ~o.full
  <2>1. Items(o) = Cat(o.tokens, o.held)
    BY <1>3 DEF Items
  <2> QED
    <3>1. Cat(o.tokens, o.held) \in Seq(S)
      BY <1>1, CatProperties
    <3>2. PrefixOf(o.tokens, Cat(o.tokens, o.held))
      BY <1>1, PrefixProperties
    <3> QED
      BY <1>3, <2>1, <3>1, <3>2
<1> QED
    BY <1>2, <1>3

LEMMA ExtendsTwice ==
    ASSUME NEW S, NEW o, NEW r, NEW s, NEW a \in Seq(S), NEW b \in Seq(S), IsBuffer(o, S),
           Extends(o, a, r, S), Extends(r, b, s, S)
    PROVE  Extends(o, Cat(a, b), s, S)
<1>1. IsBuffer(r, S) /\ IsBuffer(s, S)
    BY DEF Extends
<1>2. Items(o) \in Seq(S) /\ Items(r) \in Seq(S) /\ Items(s) \in Seq(S) /\ Cat(a, b) \in Seq(S)
    BY <1>1, ItemsType, CatProperties
<1>3. Cat(Cat(Items(o), a), b) = Cat(Items(o), Cat(a, b)) /\ Cat(Items(o), a) \in Seq(S)
    BY <1>2, CatProperties, CatAssociative
<1>4. ASSUME s.full, ~o.full PROVE PrefixOf(Items(s), Cat(Items(o), Cat(a, b)))
  <2>1. CASE r.full
    <3>1. Items(s) = Items(r)
      BY <1>1, <1>4, <2>1, ItemsType DEF Extends
    <3>2. PrefixOf(Items(r), Cat(Items(o), a))
      BY <1>4, <2>1 DEF Extends
    <3> QED
      BY <1>3, <3>1, <3>2, PrefixProperties
  <2>2. CASE ~r.full
    BY <1>3, <1>4, <2>2 DEF Extends
  <2> QED
    BY <2>1, <2>2
<1>5. ASSUME ~s.full PROVE Items(s) = Cat(Items(o), Cat(a, b))
    BY <1>3, <1>5 DEF Extends
<1> QED
    BY <1>1, <1>4, <1>5 DEF Extends

LEMMA FwriteIs ==
    ASSUME NEW S, NEW o, IsBuffer(o, S), NEW items \in Seq(S), NEW outcome \in Outcomes
    PROVE  LET r == fwrite(o, items, outcome) IN
           /\ IsBuffer(r, S) /\ r.damaged = o.damaged /\ r.held = o.held
           /\ o.full => r.full
           /\ r.full => r.tokens = o.tokens
           /\ ~r.full => r.tokens = Cat(o.tokens, items)
<1> DEFINE r == fwrite(o, items, outcome)
<1>1. CASE outcome = "written" /\ ~o.full
  <2>1. r = [o EXCEPT !.tokens = Cat(o.tokens, items)]
    BY <1>1 DEF fwrite, Cat
  <2>2. Cat(o.tokens, items) \in Seq(S)
    BY CatProperties DEF IsBuffer
  <2> QED
    BY <1>1, <2>1, <2>2 DEF IsBuffer, NewBuffer
<1>2. CASE ~(outcome = "written" /\ ~o.full)
  <2>1. PICK e : r = [o EXCEPT !.full = TRUE, !.error = e]
    BY <1>2, Zenon DEF fwrite
  <2> QED
    BY <2>1 DEF IsBuffer, NewBuffer
<1> QED
    BY <1>1, <1>2

LEMMA FlushExtends ==
    ASSUME NEW S, NEW o, IsBuffer(o, S), NEW outcome \in Outcomes
    PROVE  /\ Extends(o, <<>>, savebuffer_flush(o, outcome), S)
           /\ PrefixOf(savebuffer_flush(o, outcome).tokens, Items(o))
<1> DEFINE r == savebuffer_flush(o, outcome)
           f == fwrite(o, o.held, outcome)
<1>1. <<>> \in Seq(S) /\ Items(o) \in Seq(S) /\ Cat(Items(o), <<>>) = Items(o)
    BY EmptySeq, ItemsType, CatProperties
<1>2. CASE o.size = 0
  <2>1. r = o
    BY <1>2 DEF savebuffer_flush
  <2> QED
    BY <1>1, <2>1, ItemsType DEF Extends
<1>3. CASE o.size # 0
  <2>1. r = [f EXCEPT !.held = <<>>, !.size = 0]
    BY <1>3 DEF savebuffer_flush
  <2>2. /\ IsBuffer(f, S) /\ f.damaged = o.damaged /\ f.held = o.held
        /\ o.full => f.full
        /\ f.full => f.tokens = o.tokens
        /\ ~f.full => f.tokens = Cat(o.tokens, o.held)
    BY FwriteIs DEF IsBuffer
  <2> HIDE DEF f
  <2>3. /\ IsBuffer(r, S) /\ r.damaged = o.damaged /\ r.held = <<>> /\ r.tokens = f.tokens
        /\ r.full <=> f.full
    BY <1>1, <2>1, <2>2 DEF IsBuffer, NewBuffer
  <2> HIDE DEF r
  <2>4. CASE r.full
    <3>1. Items(r) = o.tokens /\ r.tokens = o.tokens
      BY <2>2, <2>3, <2>4, ItemsType
    <3>2. PrefixOf(o.tokens, Items(o))
      BY ItemsType
    <3>3. Extends(o, <<>>, r, S) /\ PrefixOf(r.tokens, Items(o))
      BY <1>1, <2>2, <2>3, <2>4, <3>1, <3>2 DEF Extends
    <3> QED
      BY <3>3 DEF r
  <2>5. CASE ~r.full
    <3>1. r.tokens = Items(o)
      BY <2>2, <2>3, <2>5, ItemsType
    <3>2. Items(r) = Cat(r.tokens, <<>>)
      BY <2>3, <2>5, ItemsType
    <3>3. Items(r) = Items(o)
      BY <1>1, <3>1, <3>2
    <3>4. PrefixOf(Items(o), Items(o))
      BY <1>1, PrefixProperties
    <3>5. Extends(o, <<>>, r, S) /\ PrefixOf(r.tokens, Items(o))
      BY <1>1, <2>2, <2>3, <2>5, <3>1, <3>3, <3>4 DEF Extends
    <3> QED
      BY <3>5 DEF r
  <2> QED
    BY <2>4, <2>5
<1> QED
    BY <1>2, <1>3

LEMMA HoldExtends ==
    ASSUME NEW S, NEW o, IsBuffer(o, S), NEW token \in S
    PROVE  Extends(o, <<token>>, Hold(o, token), S)
<1> DEFINE r == Hold(o, token)
<1>1. <<token>> \in Seq(S)
    BY CatProperties
<1>2. Append(o.held, token) = Cat(o.held, <<token>>) /\ Cat(o.held, <<token>>) \in Seq(S)
    BY <1>1, AppendIsConcat, CatProperties DEF Cat, IsBuffer
<1>3. /\ IsBuffer(r, S) /\ r.damaged = o.damaged /\ r.tokens = o.tokens
      /\ r.held = Cat(o.held, <<token>>) /\ (r.full <=> o.full)
    BY <1>2 DEF Hold, IsBuffer, NewBuffer
<1> HIDE DEF r
<1>4. ASSUME ~r.full PROVE Items(r) = Cat(Items(o), <<token>>)
  <2>1. Items(r) = Cat(o.tokens, Cat(o.held, <<token>>)) /\ Items(o) = Cat(o.tokens, o.held)
    BY <1>3, <1>4, ItemsType
  <2>2. o.tokens \in Seq(S) /\ o.held \in Seq(S)
    BY DEF IsBuffer
  <2>3. Cat(Cat(o.tokens, o.held), <<token>>) = Cat(o.tokens, Cat(o.held, <<token>>))
    <3>1. \A u \in Seq(S) : Cat(Cat(o.tokens, o.held), u) = Cat(o.tokens, Cat(o.held, u))
      BY <2>2, CatAssociative
    <3> QED
      BY <1>1, <3>1
  <2> QED
    BY <2>1, <2>3
<1>5. Extends(o, <<token>>, r, S)
    BY <1>3, <1>4 DEF Extends
<1> QED
    BY <1>5 DEF r

LEMMA HoldSize ==
    ASSUME NEW o, DOMAIN o = DOMAIN NewBuffer, NEW token
    PROVE  Hold(o, token).size = o.size + token.size
BY DEF Hold, NewBuffer

\* Room is made first, if need be.
LEMMA RoomExtends ==
    ASSUME NEW S, NEW o, IsBuffer(o, S), NEW token \in S, NEW outcome \in Outcomes
    PROVE  Extends(o, <<token>>, Hold(savebuffer_flush(o, outcome), token), S)
<1> DEFINE f == savebuffer_flush(o, outcome)
<1>1. Extends(o, <<>>, f, S) /\ IsBuffer(f, S)
    BY FlushExtends DEF Extends
<1> HIDE DEF f
<1>2. Extends(f, <<token>>, Hold(f, token), S)
    BY <1>1, HoldExtends
<1>5. <<>> \in Seq(S) /\ <<token>> \in Seq(S)
    BY EmptySeq
<1>3. Cat(<<>>, <<token>>) = <<token>>
    BY <1>5, CatProperties
<1>4. Extends(o, <<token>>, Hold(f, token), S)
    BY <1>1, <1>2, <1>3, <1>5, ExtendsTwice
<1> QED
    BY <1>4 DEF f

\* No item waits in a buffer of size 0, unless it is of size 0 itself.
Sound(o) == o.size \in Nat /\ (o.size = 0 => o.held = <<>>)

LEMMA FlushSize ==
    ASSUME NEW S, NEW o, IsBuffer(o, S), o.size \in Nat, NEW outcome \in Outcomes
    PROVE  /\ savebuffer_flush(o, outcome).size = 0
           /\ Sound(o) => savebuffer_flush(o, outcome).held = <<>>
<1> DEFINE f == fwrite(o, o.held, outcome)
<1>1. DOMAIN f = DOMAIN NewBuffer
    BY FwriteIs DEF IsBuffer
<1> HIDE DEF f
<1>2. o.size # 0 => savebuffer_flush(o, outcome) = [f EXCEPT !.held = <<>>, !.size = 0]
    BY DEF savebuffer_flush, f
<1>3. o.size = 0 => savebuffer_flush(o, outcome) = o
    BY DEF savebuffer_flush
<1> QED
    BY <1>1, <1>2, <1>3 DEF NewBuffer, Sound

LEMMA AcquireExtends ==
    ASSUME NEW S, NEW o, IsBuffer(o, S), NEW token \in S, NEW outcome \in Outcomes
    PROVE  LET r == savebuffer_acquire(o, token, outcome) IN
           /\ Extends(o, <<token>>, r, S)
           /\ o.size \in Nat /\ token.size \in Nat \ {0} => r.size \in Nat \ {0} /\ Sound(r)
<1> DEFINE r == savebuffer_acquire(o, token, outcome)
           f == savebuffer_flush(o, outcome)
<1>1. r = Hold(o, token) \/ r = Hold(f, token)
    BY DEF savebuffer_acquire
<1>2. Extends(o, <<token>>, r, S)
    BY <1>1, HoldExtends, RoomExtends
<1>3. DOMAIN f = DOMAIN NewBuffer /\ DOMAIN o = DOMAIN NewBuffer
    BY FlushExtends DEF Extends, IsBuffer
<1>4. ASSUME o.size \in Nat, token.size \in Nat \ {0} PROVE r.size \in Nat \ {0}
  <2>1. f.size = 0
    BY <1>4, FlushSize
  <2>2. Hold(o, token).size = o.size + token.size /\ Hold(f, token).size = f.size + token.size
    BY <1>3, HoldSize
  <2> HIDE DEF f, r
  <2>3. r.size = o.size + token.size \/ r.size = token.size
    BY <1>1, <1>4, <2>1, <2>2
  <2> QED
    BY <1>4, <2>3
<1> HIDE DEF r
<1>5. ASSUME r.size \in Nat \ {0} PROVE Sound(r)
    BY <1>5 DEF Sound
<1> QED
    BY <1>2, <1>4, <1>5 DEF r

LEMMA StoreExtends ==
    ASSUME NEW S, NEW o, IsBuffer(o, S), NEW token \in S, token.size \in Nat,
           NEW outcome \in Outcomes
    PROVE  LET r == savebuffer_store(o, token, outcome) IN
           /\ IsBuffer(r, S) /\ r.damaged = o.damaged
           /\ Sound(o) \/ token.size <= Capacity => Extends(o, <<token>>, r, S)
           /\ o.size \in Nat => r.size \in Nat
           /\ Sound(o) /\ token.size # 0 => Sound(r)
<1> DEFINE f == savebuffer_flush(o, outcome)
           r == savebuffer_store(o, token, outcome)
<1>1. Extends(o, <<>>, f, S) /\ IsBuffer(f, S)
    BY FlushExtends DEF Extends
<1>2. <<>> \in Seq(S) /\ <<token>> \in Seq(S)
    BY EmptySeq
<1>3. Cat(<<>>, <<token>>) = <<token>>
    BY <1>2, CatProperties
<1>4. o.size \in Nat => f.size = 0 /\ (Sound(o) => f.held = <<>>)
    BY FlushSize
<1>5. CASE token.size > Capacity
  <2> DEFINE g == fwrite(f, <<token>>, outcome)
  <2>1. r = g
    BY <1>5 DEF savebuffer_store
  <2> HIDE DEF f, r
  <2>8. /\ IsBuffer(g, S) /\ g.damaged = f.damaged /\ g.held = f.held
        /\ f.full => g.full
        /\ g.full => g.tokens = f.tokens
        /\ ~g.full => g.tokens = Cat(f.tokens, <<token>>)
    BY <1>1, <1>2, FwriteIs
  <2> HIDE DEF g
  <2>2. /\ IsBuffer(r, S) /\ r.damaged = f.damaged /\ r.held = f.held
        /\ f.full => r.full
        /\ r.full => r.tokens = f.tokens
        /\ ~r.full => r.tokens = Cat(f.tokens, <<token>>)
    BY <2>1, <2>8
  <2>3. r.size = f.size
    <3>1. r = [f EXCEPT !.tokens = f.tokens \o <<token>>]
          \/ \E e : r = [f EXCEPT !.full = TRUE, !.error = e]
      BY <2>1, Zenon DEF fwrite, g
    <3> QED
      BY <1>1, <3>1, Zenon DEF IsBuffer, NewBuffer
  <2>4. ASSUME Sound(o) PROVE Extends(o, <<token>>, r, S) /\ Sound(r)
    <3>1. r.held = <<>> /\ f.held = <<>> /\ r.size = 0
      BY <1>4, <2>2, <2>3, <2>4 DEF Sound
    <3>2. Items(f) = f.tokens /\ Items(r) = r.tokens
      <4>1. Items(f) = Cat(f.tokens, <<>>) /\ Items(r) = Cat(r.tokens, <<>>)
        BY <3>1 DEF Items
      <4> QED
        BY <1>1, <1>2, <2>2, <4>1, CatProperties DEF IsBuffer
    <3>3. f.tokens \in Seq(S)
      BY <1>1 DEF IsBuffer
    <3>4. PrefixOf(f.tokens, Cat(f.tokens, <<token>>))
      BY <1>2, <3>3, PrefixProperties
    <3>5. Extends(f, <<token>>, r, S)
      BY <2>2, <3>2, <3>4 DEF Extends
    <3>6. Extends(o, <<token>>, r, S)
      BY <1>1, <1>2, <1>3, <3>5, ExtendsTwice
    <3> QED
      BY <3>1, <3>6 DEF Sound
  <2>5. ASSUME o.size \in Nat PROVE r.size \in Nat
    BY <1>4, <2>3, <2>5
  <2>6. ~(token.size <= Capacity)
    BY <1>5, SaveAssumption
  <2>7. f.damaged = o.damaged
    BY <1>1 DEF Extends
  <2> QED
    BY <2>2, <2>4, <2>5, <2>6, <2>7 DEF r
<1>6. CASE ~(token.size > Capacity)
  <2>1. r = Hold(o, token) \/ r = Hold(f, token)
    BY <1>6 DEF savebuffer_store
  <2>2. Extends(o, <<token>>, r, S) /\ IsBuffer(r, S) /\ r.damaged = o.damaged
    BY <2>1, HoldExtends, RoomExtends DEF Extends
  <2>3. DOMAIN f = DOMAIN NewBuffer /\ DOMAIN o = DOMAIN NewBuffer
    BY <1>1 DEF IsBuffer
  <2> HIDE DEF f, r
  <2>4. ASSUME o.size \in Nat
        PROVE  r.size \in Nat /\ (token.size # 0 => r.size # 0)
    <3>1. f.size = 0
      BY <1>4, <2>4
    <3>2. Hold(o, token).size = o.size + token.size /\ Hold(f, token).size = f.size + token.size
      BY <2>3, HoldSize
    <3>3. r.size = o.size + token.size \/ r.size = token.size
      BY <2>1, <2>4, <3>1, <3>2
    <3> QED
      BY <2>4, <3>3
  <2> QED
    BY <2>2, <2>4 DEF r, Sound
<1> QED
    BY <1>5, <1>6

LEMMA Widen ==
    ASSUME NEW S, NEW T, NEW o, IsBuffer(o, S)
    PROVE  IsBuffer(o, S \cup T)
BY DEF IsBuffer

\* What save() writes of a node, before its value is serialized and after.
HeadItems(p) == Cat(<<Address(p)>>, <<SavedNode(p)>>)

TailItems(p, bytes) == Cat(IF nodes[p].next = <<>> THEN <<>> ELSE <<Pairs(p)>>, bytes)

LEMMA HeadExtends ==
    ASSUME NEW S, NEW o, IsBuffer(o, S), o.size \in Nat, NEW p, NEW outcome \in Outcomes,
           Address(p) \in S, SavedNode(p) \in S
    PROVE  LET r == SaveHead(o, p, outcome) IN
           Extends(o, HeadItems(p), r, S) /\ r.size \in Nat \ {0} /\ Sound(r)
<1> DEFINE a == savebuffer_acquire(o, Address(p), outcome)
           r == savebuffer_acquire(a, SavedNode(p), outcome)
<1>1. Address(p).size \in Nat \ {0} /\ SavedNode(p).size \in Nat \ {0}
    BY DEF Address, SavedNode, sizeof_pointer, PICKLE_TRIENODE_SIZE
<1>2. Extends(o, <<Address(p)>>, a, S) /\ a.size \in Nat
    BY <1>1, AcquireExtends
<1> HIDE DEF a
<1>3. Extends(a, <<SavedNode(p)>>, r, S) /\ r.size \in Nat \ {0} /\ Sound(r)
  <2>1. IsBuffer(a, S)
    BY <1>2 DEF Extends
  <2> QED
    BY <1>1, <1>2, <2>1, AcquireExtends
<1>4. SaveHead(o, p, outcome) = r
    BY DEF SaveHead, a
<1> HIDE DEF r
<1>5. <<Address(p)>> \in Seq(S) /\ <<SavedNode(p)>> \in Seq(S)
    OBVIOUS
<1>6. Extends(o, Cat(<<Address(p)>>, <<SavedNode(p)>>), r, S)
    BY <1>2, <1>3, <1>5, ExtendsTwice
<1> QED
    BY <1>3, <1>4, <1>6 DEF HeadItems

LEMMA TailExtends ==
    ASSUME NEW S, NEW o, IsBuffer(o, S), NEW p, NEW bytes, NEW outcome \in Outcomes,
           Len(nodes[p].next) \in Nat, nodes[p].next # <<>> => Len(nodes[p].next) # 0,
           Pairs(p) \in S,
           bytes # <<>> => bytes = <<bytes[1]>> /\ bytes[1] \in S /\ bytes[1].size \in Nat
    PROVE  LET r == SaveTail(o, p, bytes, outcome) IN
           /\ IsBuffer(r, S)
           /\ Sound(o) => Extends(o, TailItems(p, bytes), r, S) /\ r.size \in Nat
<1> DEFINE linked == IF nodes[p].next = <<>> THEN o ELSE savebuffer_store(o, Pairs(p), outcome)
           valued == IF bytes = <<>> THEN linked ELSE savebuffer_store(linked, bytes[1], outcome)
           links == IF nodes[p].next = <<>> THEN <<>> ELSE <<Pairs(p)>>
           r == SaveTail(o, p, bytes, outcome)
<1>1. r = [valued EXCEPT !.nodes_count = @ + 1]
    BY DEF SaveTail
<1>2. <<>> \in Seq(S) /\ links \in Seq(S) /\ bytes \in Seq(S)
  <2>1. \A x \in S : <<x>> \in Seq(S)
    OBVIOUS
  <2>2. CASE bytes = <<>>
    BY <2>1, <2>2, EmptySeq
  <2>3. CASE bytes # <<>>
    BY <2>1, <2>3, EmptySeq
  <2> QED
    BY <2>2, <2>3
<1>3. ASSUME NEW b, IsBuffer(b, S)
      PROVE  Extends(b, <<>>, b, S)
  <2>1. Items(b) = Cat(Items(b), <<>>)
    BY <1>3, ItemsType, CatProperties
  <2> QED
    BY <1>3, <2>1 DEF Extends
<1> HIDE DEF r
<1>4. IsBuffer(linked, S) /\ (Sound(o) => Extends(o, links, linked, S) /\ Sound(linked))
  <2>1. CASE nodes[p].next = <<>>
    BY <1>3, <2>1
  <2>2. CASE nodes[p].next # <<>>
    <3>1. Pairs(p).size \in Nat \ {0}
      BY <2>2 DEF Pairs, sizeof_Pair
    <3>2. linked = savebuffer_store(o, Pairs(p), outcome) /\ links = <<Pairs(p)>>
      BY <2>2
    <3> QED
      BY <3>1, <3>2, StoreExtends
  <2> QED
    BY <2>1, <2>2
<1> HIDE DEF linked
<1>5. /\ IsBuffer(valued, S)
      /\ Sound(linked) => Extends(linked, bytes, valued, S) /\ valued.size \in Nat
  <2>1. CASE bytes = <<>>
    BY <1>3, <1>4, <2>1 DEF Sound
  <2>2. CASE bytes # <<>>
    <3>1. valued = savebuffer_store(linked, bytes[1], outcome) /\ bytes = <<bytes[1]>>
          /\ bytes[1].size \in Nat /\ bytes[1] \in S
      BY <2>2
    <3> HIDE DEF valued
    <3> DEFINE v == bytes[1]
    <3>2. valued = savebuffer_store(linked, v, outcome) /\ bytes = <<v>> /\ v.size \in Nat /\ v \in S
      BY <3>1
    <3> HIDE DEF v
    <3>3. /\ IsBuffer(savebuffer_store(linked, v, outcome), S)
          /\ Sound(linked) =>
                /\ Extends(linked, <<v>>, savebuffer_store(linked, v, outcome), S)
                /\ savebuffer_store(linked, v, outcome).size \in Nat
      BY <1>4, <3>2, StoreExtends DEF Sound
    <3> QED
      BY <3>2, <3>3
  <2> QED
    BY <2>1, <2>2
<1> HIDE DEF valued
<1>6. ASSUME Sound(o) PROVE Extends(o, Cat(links, bytes), valued, S) /\ valued.size \in Nat
  <2>1. Extends(o, links, linked, S) /\ Extends(linked, bytes, valued, S) /\ valued.size \in Nat
    BY <1>4, <1>5, <1>6
  <2> HIDE DEF links
  <2> QED
    BY <1>2, <2>1, ExtendsTwice
<1>7. /\ r.tokens = valued.tokens /\ r.held = valued.held /\ r.full = valued.full
      /\ r.size = valued.size /\ r.damaged = valued.damaged /\ DOMAIN r = DOMAIN valued
    BY <1>1, <1>5 DEF IsBuffer, NewBuffer
<1>8. IsBuffer(r, S) /\ Items(r) = Items(valued)
    BY <1>5, <1>7 DEF IsBuffer, Items
<1>9. ASSUME Sound(o) PROVE Extends(o, TailItems(p, bytes), r, S) /\ r.size \in Nat
  <2>1. TailItems(p, bytes) = Cat(links, bytes)
    BY DEF TailItems
  <2> HIDE DEF links
  <2> QED
    BY <1>6, <1>7, <1>8, <1>9, <2>1 DEF Extends
<1> QED
    BY <1>8, <1>9 DEF r

-----------------------------------------------------------------------------
(* The file, item by item. *)

LEMMA LinkedValued ==
    ASSUME NEW p
    PROVE  Linked(p) \in {0, 1} /\ Valued(p) \in {0, 1}
BY DEF Linked, Valued, Bool

LEMMA AddressesAre ==
    ASSUME NEW w, NEW p
    PROVE  p \in Addresses(w) <=> \E k \in DOMAIN w : w[k].type = "address" /\ w[k].node = p
BY DEF Addresses

\* Indices as numbers: what sequences and their prefixes and concatenations hold where.
LEMMA PrefixElements ==
    ASSUME NEW S, NEW s \in Seq(S), NEW r, PrefixOf(r, s)
    PROVE  /\ Len(r) \in Nat /\ Len(s) \in Nat /\ Len(r) <= Len(s)
           /\ DOMAIN r = 1..Len(r) /\ DOMAIN s = 1..Len(s) /\ (Len(r) = 0 <=> r = <<>>)
           /\ \A j \in Nat \ {0} : j <= Len(r) => j <= Len(s) /\ r[j] = s[j]
           /\ Len(r) = Len(s) => r = s
<1>1. /\ r \in Seq(S) /\ Len(r) <= Len(s) /\ \A j \in 1..Len(r) : r[j] = s[j]
      /\ Len(r) = Len(s) => r = s
    BY PrefixProperties, EmptySeq
<1>2. /\ Len(r) \in Nat /\ Len(s) \in Nat /\ DOMAIN r = 1..Len(r) /\ DOMAIN s = 1..Len(s)
      /\ Len(r) = 0 <=> r = <<>>
    BY <1>1, LenProperties, EmptySeq
<1>3. ASSUME NEW j \in Nat \ {0}, j <= Len(r) PROVE j <= Len(s) /\ r[j] = s[j]
  <2>1. j \in 1..Len(r)
    BY <1>2, <1>3
  <2>2. Len(r) <= Len(s)
    BY <1>1
  <2>3. j <= Len(s)
    BY <1>2, <1>3, <2>2
  <2>4. r[j] = s[j]
    BY <1>1, <2>1
  <2> QED
    BY <2>3, <2>4
<1> QED
    BY <1>1, <1>2, <1>3, Zenon

LEMMA CatDomain ==
    ASSUME NEW S, NEW w \in Seq(S), NEW t \in Seq(S)
    PROVE  /\ Len(w) \in Nat /\ Len(t) \in Nat /\ Len(Cat(w, t)) = Len(w) + Len(t)
           /\ DOMAIN w = 1..Len(w) /\ DOMAIN Cat(w, t) = 1..(Len(w) + Len(t))
<1>1. Cat(w, t) \in Seq(S) /\ Len(Cat(w, t)) = Len(w) + Len(t)
    BY CatProperties
<1>2. Len(w) \in Nat /\ DOMAIN w = 1..Len(w) /\ Len(t) \in Nat
    BY LenProperties
<1>3. DOMAIN Cat(w, t) = 1..Len(Cat(w, t))
    BY <1>1, LenProperties
<1> QED
    BY <1>1, <1>2, <1>3

LEMMA CatLeft ==
    ASSUME NEW S, NEW w \in Seq(S), NEW t \in Seq(S), NEW j \in Nat \ {0}, j <= Len(w)
    PROVE  Cat(w, t)[j] = w[j]
<1>1. \A k \in 1..Len(w) : Cat(w, t)[k] = w[k]
    BY CatProperties
<1>2. Len(w) \in Nat
    BY LenProperties
<1>3. j \in 1..Len(w)
    BY <1>2
<1> QED
    BY <1>1, <1>3

LEMMA CatRight ==
    ASSUME NEW S, NEW w \in Seq(S), NEW t \in Seq(S), NEW j \in Nat \ {0}, j <= Len(t)
    PROVE  Cat(w, t)[Len(w) + j] = t[j]
<1>1. \A k \in 1..Len(t) : Cat(w, t)[Len(w) + k] = t[k]
    BY CatProperties
<1>2. Len(t) \in Nat
    BY LenProperties
<1>3. j \in 1..Len(t)
    BY <1>2
<1> QED
    BY <1>1, <1>3

LEMMA LenZero ==
    ASSUME NEW S, NEW s \in Seq(S)
    PROVE  Len(s) = 0 <=> s = <<>>
BY EmptySeq

\* A file cut short.
LEMMA PrefixWritten ==
    ASSUME NEW S, NEW s \in Seq(S), WrittenOK(s), NEW r, PrefixOf(r, s)
    PROVE  WrittenOK(r)
<1>0. (Len(r) = 0 <=> r = <<>>) /\ (Len(r) = Len(s) => r = s)
    BY PrefixElements
<1>1. \A j \in Nat \ {0} : j <= Len(r) => j <= Len(s) /\ r[j] = s[j]
    BY PrefixElements
<1>2. /\ Len(r) \in Nat /\ Len(s) \in Nat /\ Len(r) <= Len(s)
      /\ DOMAIN r = 1..Len(r) /\ DOMAIN s = 1..Len(s)
    BY PrefixElements
<1>3. \A k \in DOMAIN r : k \in DOMAIN s /\ r[k] = s[k]
    BY <1>1, <1>2
<1>4. (r # <<>> => r[1] = Header) /\ (Len(r) > 1 => r[2].type \in {"address", "footer"})
  <2>1. s # <<>> => s[1] = Header
    BY DEF WrittenOK
  <2>2. Len(s) > 1 => s[2].type \in {"address", "footer"}
    BY DEF WrittenOK
  <2>3. r # <<>> => r[1] = s[1] /\ s # <<>>
    <3>1. r # <<>> => 1 <= Len(r)
      <4>1. r # <<>> => Len(r) # 0
        BY <1>0
      <4>2. Len(r) # 0 => 1 <= Len(r)
        BY <1>2
      <4> QED
        BY <4>1, <4>2
    <3>2. 1 <= Len(r) => r[1] = s[1] /\ 1 <= Len(s)
      BY <1>1
    <3>3. 1 <= Len(s) => s # <<>>
      BY EmptySeq
    <3> QED
      BY <3>1, <3>2, <3>3
  <2>4. Len(r) > 1 => r[2] = s[2] /\ Len(s) > 1
    BY <1>1, <1>2
  <2> QED
    BY <2>1, <2>2, <2>3, <2>4
<1>5. ASSUME NEW k \in DOMAIN r, r[k].type = "address" PROVE BlockOK(r, k)
  <2> DEFINE p == s[k].node
             n == k + 1 + Linked(p) + Valued(p)
  <2>1. BlockOK(s, k) /\ r[k].node = p
    BY <1>3, <1>5 DEF WrittenOK
  <2>2. Linked(p) \in {0, 1} /\ Valued(p) \in {0, 1} /\ k \in Nat \ {0} /\ n \in Nat
    BY <1>2, LinkedValued
  <2>3. \A j \in Nat \ {0} : j <= Len(r) => j <= Len(s) /\ r[j] = s[j]
    BY <1>1
  <2>4. p \in DOMAIN nodes
    BY <2>1 DEF BlockOK
  <2>5. k + 1 <= Len(r) => NodeToken(r[k + 1], p)
    BY <2>1, <2>2, <2>3 DEF BlockOK
  <2>6. Linked(p) = 1 /\ k + 2 <= Len(r) => PairsToken(r[k + 2], p)
    BY <2>1, <2>2, <2>3 DEF BlockOK
  <2>7. Valued(p) = 1 /\ n <= Len(r) => r[n] = Bytes(nodes[p].output)
    <3>1. Valued(p) = 1 /\ n <= Len(s) => s[n] = Bytes(nodes[p].output)
      BY <2>1 DEF BlockOK
    <3>2. n <= Len(r) => n <= Len(s) /\ r[n] = s[n]
      BY <2>2, <2>3
    <3> QED
      BY <3>1, <3>2
  <2>8. n < Len(r) => r[n + 1].type \in {"address", "footer"}
    <3>1. n < Len(s) => s[n + 1].type \in {"address", "footer"}
      BY <2>1 DEF BlockOK
    <3>2. n < Len(r) => n < Len(s) /\ r[n + 1] = s[n + 1]
      <4>1. n + 1 \in Nat \ {0} /\ (n < Len(r) => n + 1 <= Len(r)) /\ (n + 1 <= Len(s) => n < Len(s))
        BY <1>2, <2>2
      <4> QED
        BY <2>3, <4>1
    <3> QED
      BY <3>1, <3>2
  <2>9. p # Root => \E j \in 1..(k - 1) : r[j].type = "address" /\ r[j].node = Front(p)
    <3>1. p # Root => \E j \in 1..(k - 1) : s[j].type = "address" /\ s[j].node = Front(p)
      BY <2>1 DEF BlockOK
    <3>2. \A j \in 1..(k - 1) : r[j] = s[j]
      <4>1. \A j \in 1..(k - 1) : j \in Nat \ {0} /\ j <= Len(r)
        BY <1>2
      <4> QED
        BY <1>1, <4>1
    <3> QED
      BY <3>1, <3>2
  <2> HIDE DEF n
  <2> QED
    BY <2>1, <2>4, <2>5, <2>6, <2>7, <2>8, <2>9 DEF BlockOK, n
<1>6. ASSUME NEW k \in DOMAIN r, r[k].type = "node" PROVE k > 1 /\ r[k - 1].type = "address"
  <2>1. k > 1 /\ s[k - 1].type = "address"
    BY <1>3, <1>6 DEF WrittenOK
  <2>2. r[k - 1] = s[k - 1]
    BY <1>1, <1>2, <2>1
  <2> QED
    BY <2>1, <2>2
<1>7. \A j, k \in DOMAIN r :
        r[j].type = "address" /\ r[k].type = "address" /\ r[j].node = r[k].node => j = k
    BY <1>3 DEF WrittenOK
<1>8. ASSUME NEW k \in DOMAIN r, r[k].type = "footer"
      PROVE  k = Len(r) /\ (kind # "EMPTY" => Addresses(r) = DOMAIN nodes)
  <2>1. k = Len(s) /\ (kind # "EMPTY" => Addresses(s) = DOMAIN nodes)
    BY <1>3, <1>8 DEF WrittenOK
  <2>2. Len(r) = Len(s)
    <3>1. k \in 1..Len(r) /\ k = Len(s)
      BY <1>2, <2>1
    <3>2. Len(r) \in Nat /\ Len(s) \in Nat /\ Len(r) <= Len(s)
      BY <1>2
    <3> QED
      BY <3>1, <3>2
  <2>3. r = s
    BY <1>0, <2>2
  <2> QED
    BY <2>1, <2>3
<1>9. \A k \in DOMAIN r : r[k].type = "pairs" => DOMAIN r[k] = PairsFields
    BY <1>3 DEF WrittenOK
<1> QED
    BY <1>4, <1>5, <1>6, <1>7, <1>8, <1>9 DEF WrittenOK

\* What is written behind a whole block leaves it whole.
LEMMA BlockStays ==
    ASSUME NEW S, NEW w \in Seq(S), NEW t \in Seq(S), NEW k \in DOMAIN w, BlockOK(w, k),
           Closed(w, k), End(w, k) = Len(w) /\ t # <<>> => t[1].type \in {"address", "footer"}
    PROVE  BlockOK(Cat(w, t), k) /\ Closed(Cat(w, t), k)
<1> DEFINE u == Cat(w, t)
           p == w[k].node
           n == k + 1 + Linked(p) + Valued(p)
<1>12. Len(t) = 0 <=> t = <<>>
    BY LenZero
<1>2. Len(w) \in Nat /\ Len(t) \in Nat /\ DOMAIN w = 1..Len(w) /\ Len(u) = Len(w) + Len(t)
    BY CatDomain
<1>1. \A j \in Nat \ {0} : j <= Len(w) => u[j] = w[j]
    BY CatLeft
<1>13. \A j \in Nat \ {0} : j <= Len(t) => u[Len(w) + j] = t[j]
    BY CatRight
<1>3. /\ Linked(p) \in {0, 1} /\ Valued(p) \in {0, 1} /\ k \in Nat \ {0} /\ n \in Nat \ {0}
      /\ n <= Len(w)
    BY <1>2, LinkedValued DEF Closed, End
<1> HIDE DEF u
<1>4. u[k].node = p /\ p \in DOMAIN nodes
    BY <1>1, <1>2 DEF BlockOK
<1>5. NodeToken(u[k + 1], p)
  <2>1. k + 1 \in Nat \ {0} /\ k + 1 <= Len(w)
    BY <1>2, <1>3
  <2> QED
    BY <1>1, <2>1 DEF BlockOK
<1>6. Linked(p) = 1 => PairsToken(u[k + 2], p)
  <2>1. k + 2 \in Nat \ {0} /\ (Linked(p) = 1 => k + 2 <= Len(w))
    BY <1>2, <1>3
  <2> QED
    BY <1>1, <2>1 DEF BlockOK
<1>7. Valued(p) = 1 => u[n] = Bytes(nodes[p].output)
    BY <1>1, <1>3 DEF BlockOK
<1>8. n < Len(u) => u[n + 1].type \in {"address", "footer"}
  <2>1. CASE n < Len(w)
    <3>1. n + 1 \in Nat \ {0} /\ n + 1 <= Len(w)
      BY <1>2, <1>3, <2>1
    <3>2. w[n + 1].type \in {"address", "footer"}
      BY <2>1 DEF BlockOK
    <3> QED
      BY <1>1, <3>1, <3>2
  <2>2. CASE ~(n < Len(w))
    <3>1. n = Len(w)
      BY <1>2, <1>3, <2>2
    <3>2. n < Len(u) => 1 \in Nat \ {0} /\ 1 <= Len(t) /\ t # <<>>
      BY <1>2, <1>12, <3>1
    <3>3. n < Len(u) => u[n + 1] = t[1]
      BY <1>13, <3>1, <3>2
    <3>4. End(w, k) = Len(w)
      BY <3>1 DEF End
    <3> QED
      BY <3>2, <3>3, <3>4
  <2> QED
    BY <2>1, <2>2
<1>9. p # Root => \E j \in 1..(k - 1) : u[j].type = "address" /\ u[j].node = Front(p)
  <2>1. p # Root => \E j \in 1..(k - 1) : w[j].type = "address" /\ w[j].node = Front(p)
    BY DEF BlockOK
  <2>2. \A j \in 1..(k - 1) : u[j] = w[j]
    <3>1. \A j \in 1..(k - 1) : j \in Nat \ {0} /\ j <= Len(w)
      BY <1>2
    <3> QED
      BY <1>1, <3>1
  <2> QED
    BY <2>1, <2>2
<1>10. Closed(u, k)
  <2>1. n <= Len(u)
    BY <1>1, <1>2, <1>3
  <2> QED
    BY <1>4, <2>1 DEF Closed, End
<1>11. BlockOK(u, k)
  <2> HIDE DEF n
  <2> QED
    BY <1>4, <1>5, <1>6, <1>7, <1>8, <1>9 DEF BlockOK, n
<1> QED
    BY <1>10, <1>11 DEF u

LEMMA HeadIs ==
    ASSUME NEW S, NEW p, Address(p) \in S, SavedNode(p) \in S
    PROVE  /\ HeadItems(p) \in Seq(S) /\ Len(HeadItems(p)) = 2
           /\ HeadItems(p)[1] = Address(p) /\ HeadItems(p)[2] = SavedNode(p)
           /\ Address(p).type = "address" /\ Address(p).node = p
           /\ SavedNode(p).type = "node" /\ NodeToken(SavedNode(p), p)
<1> DEFINE a == <<Address(p)>>
           b == <<SavedNode(p)>>
<1>1. a \in Seq(S) /\ b \in Seq(S) /\ Len(a) = 1 /\ Len(b) = 1
      /\ a[1] = Address(p) /\ b[1] = SavedNode(p)
    OBVIOUS
<1> HIDE DEF a, b
<1>2. Cat(a, b) \in Seq(S) /\ Len(Cat(a, b)) = Len(a) + Len(b)
    BY <1>1, CatProperties
<1>3. \A j \in Nat \ {0} : j <= Len(a) => Cat(a, b)[j] = a[j]
    BY <1>1, CatLeft
<1>4. \A j \in Nat \ {0} : j <= Len(b) => Cat(a, b)[Len(a) + j] = b[j]
    BY <1>1, CatRight
<1>5. Cat(a, b)[1] = a[1] /\ Cat(a, b)[2] = b[1]
  <2>1. 1 <= Len(a) /\ 1 <= Len(b) /\ Len(a) + 1 = 2
    BY <1>1
  <2> QED
    BY <1>3, <1>4, <2>1
<1>6. HeadItems(p) = Cat(a, b)
    BY DEF HeadItems, a, b
<1>7. Address(p).type = "address" /\ Address(p).node = p
    BY DEF Address
<1>8. SavedNode(p).type = "node" /\ NodeToken(SavedNode(p), p)
    BY DEF SavedNode, NodeToken, NodeFields
<1> QED
    BY <1>1, <1>2, <1>5, <1>6, <1>7, <1>8

\* All blocks are whole.
Whole(w) == \A k \in DOMAIN w : w[k].type = "address" => Closed(w, k)

\* A file that more can be written to.
Open(w, S) == w \in Seq(S) /\ w # <<>> /\ WrittenOK(w) /\ Unfinished(w)

LEMMA HeadAdded ==
    ASSUME NEW S, NEW w, Open(w, S), Whole(w), NEW p \in DOMAIN nodes, p \notin Addresses(w),
           p # Root => Front(p) \in Addresses(w), Address(p) \in S, SavedNode(p) \in S
    PROVE  LET u == Cat(w, HeadItems(p)) IN
           /\ Open(u, S) /\ Addresses(u) = Addresses(w) \cup {p}
           /\ Len(u) = Len(w) + 2 /\ Len(w) \in Nat \ {0} /\ DOMAIN u = 1..(Len(w) + 2)
           /\ u[Len(w) + 1].node = p
           /\ \A k \in DOMAIN u : u[k].type = "address" /\ k # Len(w) + 1 => Closed(u, k)
<1> DEFINE t == HeadItems(p)
           u == Cat(w, t)
           n == Len(w)
<1>1. t \in Seq(S) /\ Len(t) = 2 /\ t[1] = Address(p) /\ t[2] = SavedNode(p)
    BY HeadIs
<1>2. /\ Address(p).type = "address" /\ Address(p).node = p
      /\ SavedNode(p).type = "node" /\ NodeToken(SavedNode(p), p)
    BY HeadIs
<1> HIDE DEF t
<1>3. w \in Seq(S) /\ WrittenOK(w) /\ Unfinished(w) /\ w # <<>>
    BY DEF Open
<1>4. u \in Seq(S) /\ Len(u) = n + Len(t)
    BY <1>1, <1>3, CatProperties
<1>5. n \in Nat /\ DOMAIN w = 1..n /\ DOMAIN u = 1..(n + Len(t))
    BY <1>1, <1>3, CatDomain
<1>6. n # 0
    BY <1>3, EmptySeq
<1>7. \A j \in Nat \ {0} : j <= n => u[j] = w[j]
    BY <1>1, <1>3, CatLeft
<1>8. ASSUME NEW j \in Nat \ {0}, j <= Len(t) PROVE u[n + j] = t[j]
  <2>1. w \in Seq(S) /\ t \in Seq(S)
    BY <1>1, <1>3
  <2> QED
    BY <1>8, <2>1, CatRight, Zenon
<1>9. u[n + 1] = Address(p) /\ u[n + 2] = SavedNode(p)
    BY <1>1, <1>8
<1> HIDE DEF u, n
<1>10. DOMAIN u = 1..(n + 2) /\ Len(u) = n + 2 /\ n \in Nat \ {0}
    BY <1>1, <1>4, <1>5, <1>6
<1>11. \A k \in DOMAIN u : (k \in DOMAIN w /\ u[k] = w[k]) \/ k = n + 1 \/ k = n + 2
    BY <1>5, <1>7, <1>10
<1>12. \A k \in DOMAIN w : k \in DOMAIN u /\ u[k] = w[k] /\ k # n + 1 /\ k # n + 2
    BY <1>5, <1>7, <1>10
<1>13. n + 1 \in DOMAIN u /\ n + 2 \in DOMAIN u
    BY <1>10
<1>14. ASSUME NEW k \in DOMAIN w, w[k].type = "address" PROVE BlockOK(u, k) /\ Closed(u, k)
  <2>1. BlockOK(w, k) /\ Closed(w, k)
    BY <1>3, <1>14 DEF WrittenOK, Whole
  <2>2. t # <<>> => t[1].type \in {"address", "footer"}
    BY <1>1, <1>2
  <2> QED
    BY <1>1, <1>3, <2>1, <2>2, BlockStays DEF u
<1>15. BlockOK(u, n + 1)
  <2>1. Linked(p) \in {0, 1} /\ Valued(p) \in {0, 1}
    BY LinkedValued
  <2>4. p # Root => \E j \in 1..n : u[j].type = "address" /\ u[j].node = Front(p)
    <3>1. p # Root => \E j \in DOMAIN w : w[j].type = "address" /\ w[j].node = Front(p)
      BY AddressesAre
    <3> QED
      BY <1>5, <1>12, <3>1
  <2>5. PICK k \in Nat : k = n + 1
    BY <1>10
  <2>6. /\ u[k].node = p /\ NodeToken(u[k + 1], p)
        /\ p # Root => \E j \in 1..(k - 1) : u[j].type = "address" /\ u[j].node = Front(p)
    <3>1. k + 1 = n + 2 /\ k - 1 = n
      BY <1>10, <2>5
    <3> QED
      BY <1>2, <1>9, <2>4, <2>5, <3>1
  <2>7. /\ ~(k + 2 <= Len(u)) /\ ~(k + 1 + Linked(p) + Valued(p) < Len(u))
        /\ Valued(p) = 1 => ~(k + 1 + Linked(p) + Valued(p) <= Len(u))
    BY <1>10, <2>1, <2>5
  <2>8. BlockOK(u, k)
    BY <2>6, <2>7 DEF BlockOK
  <2> QED
    BY <2>5, <2>8
<1>16. Unfinished(u)
    BY <1>2, <1>3, <1>9, <1>11 DEF Unfinished
<1>17. Addresses(u) = Addresses(w) \cup {p}
  <2>1. \A q \in Addresses(w) : q \in Addresses(u)
    BY <1>12, AddressesAre
  <2>2. p \in Addresses(u)
    BY <1>2, <1>9, <1>13, AddressesAre
  <2>3. ASSUME NEW q \in Addresses(u) PROVE q \in Addresses(w) \cup {p}
    <3>1. PICK k \in DOMAIN u : u[k].type = "address" /\ u[k].node = q
      BY AddressesAre
    <3> QED
      BY <1>2, <1>9, <1>11, <3>1, AddressesAre
  <2> QED
    BY <2>1, <2>2, <2>3
<1>18. WrittenOK(u)
  <2>1. u[1] = Header
    <3>1. 1 \in DOMAIN w
      BY <1>5, <1>10
    <3> QED
      BY <1>3, <1>12, <3>1 DEF WrittenOK
  <2>2. u[2].type \in {"address", "footer"}
    <3>1. CASE n = 1
      BY <1>2, <1>9, <3>1
    <3>2. CASE n # 1
      <4>1. n > 1 /\ 2 \in DOMAIN w
        BY <1>5, <1>10, <3>2
      <4>2. w[2].type \in {"address", "footer"}
        BY <1>3, <4>1 DEF WrittenOK, n
      <4> QED
        BY <1>12, <4>1, <4>2
    <3> QED
      BY <3>1, <3>2
  <2>3. ASSUME NEW k \in DOMAIN u, u[k].type = "address" PROVE BlockOK(u, k)
    BY <1>2, <1>9, <1>11, <1>14, <1>15, <2>3
  <2>4. ASSUME NEW k \in DOMAIN u, u[k].type = "node" PROVE k > 1 /\ u[k - 1].type = "address"
    <3>1. CASE k \in DOMAIN w /\ u[k] = w[k]
      <4>1. k > 1 /\ w[k - 1].type = "address"
        BY <1>3, <2>4, <3>1 DEF WrittenOK
      <4>2. k - 1 \in DOMAIN w
        BY <1>5, <3>1, <4>1
      <4> QED
        BY <1>12, <4>1, <4>2
    <3>2. CASE k = n + 2
      <4>1. k > 1 /\ k - 1 = n + 1
        BY <1>10, <3>2
      <4> QED
        BY <1>2, <1>9, <4>1
    <3> QED
      BY <1>2, <1>9, <1>11, <2>4, <3>1, <3>2
  <2>5. ASSUME NEW j \in DOMAIN u, NEW k \in DOMAIN u, u[j].type = "address",
               u[k].type = "address", u[j].node = u[k].node
        PROVE  j = k
    <3>1. \A l \in DOMAIN w : w[l].type = "address" => w[l].node # p
      BY AddressesAre
    <3>2. \A l, m \in DOMAIN w :
            w[l].type = "address" /\ w[m].type = "address" /\ w[l].node = w[m].node => l = m
      BY <1>3 DEF WrittenOK
    <3> QED
      BY <1>2, <1>9, <1>11, <2>5, <3>1, <3>2
  <2>6. ASSUME NEW k \in DOMAIN u, u[k].type = "pairs" PROVE DOMAIN u[k] = PairsFields
    <3>1. k \in DOMAIN w /\ u[k] = w[k]
      BY <1>2, <1>9, <1>11, <2>6
    <3> QED
      BY <1>3, <2>6, <3>1 DEF WrittenOK
  <2> QED
    BY <1>10, <1>16, <2>1, <2>2, <2>3, <2>4, <2>5, <2>6 DEF WrittenOK, Unfinished
<1>19. u # <<>>
    BY <1>10, EmptySeq
<1>20. \A k \in DOMAIN u : u[k].type = "address" /\ k # n + 1 => Closed(u, k)
    BY <1>2, <1>9, <1>11, <1>14
<1> QED
    BY <1>2, <1>4, <1>9, <1>10, <1>16, <1>17, <1>18, <1>19, <1>20 DEF Open, u, n, t

LEMMA TailIs ==
    ASSUME NEW S, NEW p \in DOMAIN nodes, Pairs(p) \in S, NEW bytes,
           bytes = IF Valued(p) = 1 THEN <<Bytes(nodes[p].output)>> ELSE <<>>,
           Valued(p) = 1 => Bytes(nodes[p].output) \in S
    PROVE  LET t == TailItems(p, bytes) IN
           /\ t \in Seq(S) /\ Len(t) = Linked(p) + Valued(p)
           /\ Linked(p) = 1 => t[1] = Pairs(p)
           /\ Valued(p) = 1 => t[Linked(p) + 1] = Bytes(nodes[p].output)
           /\ \A j \in DOMAIN t : /\ t[j].type \in {"pairs", "bytes"}
                                  /\ t[j].type = "pairs" => DOMAIN t[j] = PairsFields
           /\ PairsToken(Pairs(p), p)
<1> DEFINE a == IF nodes[p].next = <<>> THEN <<>> ELSE <<Pairs(p)>>
           v == Bytes(nodes[p].output)
           t == Cat(a, bytes)
<1>1. Pairs(p).type = "pairs" /\ PairsToken(Pairs(p), p)
  <2>1. Pairs(p).type = "pairs" /\ DOMAIN Pairs(p) = PairsFields
    BY DEF Pairs, PairsFields
  <2>2. LinksToken(Pairs(p).next, p)
    BY DEF Pairs, LinksToken
  <2> QED
    BY <2>1, <2>2 DEF PairsToken
<1>2. v.type = "bytes"
    BY DEF Bytes
<1>3. Linked(p) \in {0, 1} /\ Valued(p) \in {0, 1}
    BY LinkedValued
<1> HIDE DEF v
<1>4. /\ a \in Seq(S) /\ Len(a) = Linked(p) /\ (Linked(p) = 1 => a[1] = Pairs(p))
  <2>1. CASE nodes[p].next = <<>>
    <3>1. Linked(p) = 0 /\ a = <<>>
      BY <2>1 DEF Linked, Bool
    <3> QED
      BY <3>1, EmptySeq
  <2>2. CASE nodes[p].next # <<>>
    <3>1. Linked(p) = 1 /\ a = <<Pairs(p)>>
      BY <2>2 DEF Linked, Bool
    <3> HIDE DEF a
    <3>2. \A x \in S : <<x>> \in Seq(S) /\ Len(<<x>>) = 1 /\ <<x>>[1] = x
      OBVIOUS
    <3> QED
      BY <3>1, <3>2
  <2> QED
    BY <2>1, <2>2
<1> HIDE DEF a
<1>5. bytes \in Seq(S) /\ Len(bytes) = Valued(p) /\ (Valued(p) = 1 => bytes[1] = v)
  <2>1. CASE Valued(p) = 1
    <3>1. \A x \in S : <<x>> \in Seq(S) /\ Len(<<x>>) = 1 /\ <<x>>[1] = x
      OBVIOUS
    <3>2. bytes = <<v>> /\ v \in S
      BY <2>1 DEF v
    <3> QED
      BY <2>1, <3>1, <3>2
  <2>2. CASE Valued(p) # 1
    <3>1. Valued(p) = 0 /\ bytes = <<>>
      BY <1>3, <2>2
    <3> QED
      BY <3>1, EmptySeq
  <2> QED
    BY <2>1, <2>2
<1>6. t \in Seq(S) /\ Len(t) = Len(a) + Len(bytes)
    BY <1>4, <1>5, CatProperties
<1>7. DOMAIN t = 1..(Len(a) + Len(bytes))
    BY <1>4, <1>5, CatDomain
<1>8. ASSUME Linked(p) = 1 PROVE t[1] = Pairs(p)
  <2>1. 1 <= Len(a)
    BY <1>4, <1>8
  <2>2. \A j \in Nat \ {0} : j <= Len(a) => t[j] = a[j]
    BY <1>4, <1>5, CatLeft
  <2> QED
    BY <1>4, <1>8, <2>1, <2>2
<1>9. ASSUME Valued(p) = 1 PROVE t[Linked(p) + 1] = v
  <2>1. 1 <= Len(bytes) /\ 1 \in Nat \ {0} /\ a \in Seq(S) /\ bytes \in Seq(S)
    BY <1>4, <1>5, <1>9
  <2>2. ASSUME NEW j \in Nat \ {0}, j <= Len(bytes) PROVE t[Len(a) + j] = bytes[j]
    <3>1. a \in Seq(S) /\ bytes \in Seq(S)
      BY <2>1
    <3> QED
      BY <2>2, <3>1, CatRight, Zenon
  <2> QED
    BY <1>4, <1>5, <1>9, <2>1, <2>2
<1>10. TailItems(p, bytes) = t
    BY DEF TailItems, a
<1> HIDE DEF t
<1>11. ASSUME NEW j \in DOMAIN t
       PROVE  /\ t[j].type \in {"pairs", "bytes"}
              /\ t[j].type = "pairs" => DOMAIN t[j] = PairsFields
  <2>1. j \in 1..(Linked(p) + Valued(p))
    BY <1>4, <1>5, <1>7
  <2>2. (j = 1 /\ Linked(p) = 1) \/ (j = Linked(p) + 1 /\ Valued(p) = 1)
    BY <1>3, <2>1
  <2>3. DOMAIN Pairs(p) = PairsFields
    BY <1>1 DEF PairsToken
  <2> QED
    BY <1>1, <1>2, <1>8, <1>9, <2>2, <2>3
<1> QED
    BY <1>1, <1>4, <1>5, <1>6, <1>8, <1>9, <1>10, <1>11 DEF v

\* The block of the last node in a file that is at its head.
LEMMA TailAdded ==
    ASSUME NEW S, NEW h, Open(h, S), NEW k0 \in Nat \ {0}, Len(h) = k0 + 1,
           h[k0].type = "address", NEW p, h[k0].node = p,
           \A k \in DOMAIN h : h[k].type = "address" /\ k # k0 => Closed(h, k),
           Pairs(p) \in S, NEW bytes,
           bytes = IF Valued(p) = 1 THEN <<Bytes(nodes[p].output)>> ELSE <<>>,
           Valued(p) = 1 => Bytes(nodes[p].output) \in S
    PROVE  LET u == Cat(h, TailItems(p, bytes)) IN
           Open(u, S) /\ Addresses(u) = Addresses(h) /\ Whole(u)
<1> DEFINE t == TailItems(p, bytes)
           u == Cat(h, t)
           m == k0 + 1
           L == Linked(p)
           V == Valued(p)
<1>1. h \in Seq(S) /\ WrittenOK(h) /\ Unfinished(h) /\ h # <<>> /\ DOMAIN h = 1..m /\ Len(h) = m
    BY LenProperties DEF Open
<1>2. k0 \in DOMAIN h /\ m \in DOMAIN h /\ 1 \in DOMAIN h /\ 2 \in DOMAIN h
    BY <1>1
<1>3. BlockOK(h, k0) /\ p \in DOMAIN nodes /\ NodeToken(h[m], p)
  <2>1. BlockOK(h, k0)
    BY <1>1, <1>2 DEF WrittenOK
  <2>2. k0 + 1 <= Len(h)
    BY <1>1
  <2> QED
    BY <2>1, <2>2 DEF BlockOK
<1>4. /\ t \in Seq(S) /\ Len(t) = L + V
      /\ L = 1 => t[1] = Pairs(p)
      /\ V = 1 => t[L + 1] = Bytes(nodes[p].output)
      /\ \A j \in DOMAIN t : t[j].type \in {"pairs", "bytes"}
      /\ \A j \in DOMAIN t : t[j].type = "pairs" => DOMAIN t[j] = PairsFields
      /\ PairsToken(Pairs(p), p)
    BY <1>3, TailIs
<1>5. L \in {0, 1} /\ V \in {0, 1}
    BY LinkedValued
<1> HIDE DEF t, L, V
<1>6. u \in Seq(S) /\ Len(u) = Len(h) + Len(t)
  <2>1. h \in Seq(S) /\ t \in Seq(S)
    BY <1>1, <1>4
  <2> QED
    BY <2>1, CatProperties
<1>7. DOMAIN u = 1..(m + L + V) /\ Len(u) = m + L + V
  <2>1. DOMAIN u = 1..(Len(h) + Len(t))
    BY <1>1, <1>4, CatDomain
  <2> QED
    BY <1>1, <1>4, <1>5, <1>6, <2>1
<1>8. \A j \in Nat \ {0} : j <= Len(h) => u[j] = h[j]
    BY <1>1, <1>4, CatLeft
<1>9. \A k \in DOMAIN h : k \in DOMAIN u /\ u[k] = h[k]
    BY <1>1, <1>5, <1>7, <1>8
<1>10. ASSUME NEW j \in Nat \ {0}, j <= Len(t) PROVE u[m + j] = t[j]
  <2>1. h \in Seq(S) /\ t \in Seq(S)
    BY <1>1, <1>4
  <2>2. u[Len(h) + j] = t[j]
    BY <1>10, <2>1, CatRight, Zenon
  <2> QED
    BY <1>1, <2>2
<1>11. DOMAIN t = 1..Len(t)
    BY <1>4, LenProperties
<1> HIDE DEF u
<1>12. ASSUME NEW k \in DOMAIN u, k \notin DOMAIN h
       PROVE  /\ u[k].type \in {"pairs", "bytes"}
              /\ u[k].type = "pairs" => DOMAIN u[k] = PairsFields
  <2>1. PICK j \in 1..(L + V) : k = m + j
    <3>1. k - m \in 1..(L + V) /\ k = m + (k - m)
      BY <1>1, <1>5, <1>7, <1>12
    <3> QED
      BY <3>1
  <2>2. j \in Nat \ {0} /\ j <= Len(t) /\ j \in DOMAIN t
    BY <1>4, <1>5, <1>11
  <2> QED
    BY <1>4, <1>10, <2>1, <2>2
<1>13. ASSUME NEW k \in DOMAIN h, h[k].type = "address", k # k0 PROVE BlockOK(u, k) /\ Closed(u, k)
  <2> DEFINE q == h[k].node
  <2>1. BlockOK(h, k) /\ Closed(h, k)
    BY <1>1, <1>13 DEF WrittenOK
  <2>2. Linked(q) \in {0, 1} /\ Valued(q) \in {0, 1}
    BY LinkedValued
  <2>3. h[m].type = "node"
    BY <1>3 DEF NodeToken
  <2>4. End(h, k) # Len(h)
    <3>1. SUFFICES ASSUME k + 1 + Linked(q) + Valued(q) = Len(h) PROVE FALSE
      BY DEF End
    <3>2. Valued(q) = 1 => h[m] = Bytes(nodes[q].output)
      BY <1>1, <2>1, <3>1 DEF BlockOK
    <3>3. Valued(q) # 1 => Linked(q) = 1 /\ k + 2 = m
      BY <1>1, <1>13, <2>2, <3>1
    <3>4. Linked(q) = 1 /\ k + 2 = m => PairsToken(h[m], q)
      BY <1>1, <2>1 DEF BlockOK
    <3> QED
      BY <2>3, <3>2, <3>3, <3>4 DEF Bytes, PairsToken
  <2> QED
    BY <1>1, <1>4, <2>1, <2>4, BlockStays DEF u
<1>14. BlockOK(u, k0) /\ Closed(u, k0)
  <2>1. u[k0] = h[k0] /\ u[k0 + 1] = h[m]
    BY <1>2, <1>9
  <2>2. L = 1 => PairsToken(u[k0 + 2], p)
    <3>1. L = 1 => u[m + 1] = t[1]
      BY <1>4, <1>5, <1>10
    <3>2. m + 1 = k0 + 2
      OBVIOUS
    <3> QED
      BY <1>4, <3>1, <3>2
  <2>3. V = 1 => u[m + L + V] = Bytes(nodes[p].output)
    <3>1. V = 1 => u[m + (L + 1)] = t[L + 1]
      BY <1>4, <1>5, <1>10
    <3>2. V = 1 => m + (L + 1) = m + L + V
      BY <1>5
    <3> QED
      BY <1>4, <3>1, <3>2
  <2>4. p # Root => \E j \in 1..(k0 - 1) : u[j].type = "address" /\ u[j].node = Front(p)
    <3>1. p # Root => \E j \in 1..(k0 - 1) : h[j].type = "address" /\ h[j].node = Front(p)
      BY <1>3 DEF BlockOK
    <3>2. \A j \in 1..(k0 - 1) : j \in DOMAIN h
      BY <1>1
    <3> QED
      BY <1>9, <3>1, <3>2
  <2>5. Closed(u, k0)
    BY <1>7, <2>1 DEF Closed, End, L, V
  <2>6. ~(m + L + V < Len(u))
    BY <1>5, <1>7
  <2> QED
    BY <1>3, <2>1, <2>2, <2>3, <2>4, <2>5, <2>6 DEF BlockOK, L, V
<1>15. ASSUME NEW k \in DOMAIN u, u[k].type \in {"address", "node", "footer"}
       PROVE  k \in DOMAIN h /\ u[k] = h[k]
    BY <1>9, <1>12, <1>15
<1>16. Unfinished(u)
    BY <1>1, <1>15 DEF Unfinished
<1>17. Addresses(u) = Addresses(h)
  <2>1. \A q \in Addresses(h) : q \in Addresses(u)
    BY <1>9, AddressesAre
  <2>2. \A q \in Addresses(u) : q \in Addresses(h)
    BY <1>15, AddressesAre
  <2> QED
    BY <2>1, <2>2
<1>18. Whole(u)
    BY <1>13, <1>14, <1>15 DEF Whole
<1>19. WrittenOK(u)
  <2>1. u[1] = Header /\ u[2].type \in {"address", "footer"}
    <3>1. h[1] = Header /\ h[2].type \in {"address", "footer"}
      <4>1. Len(h) > 1
        BY <1>1
      <4> QED
        BY <1>1, <4>1 DEF WrittenOK
    <3> QED
      BY <1>2, <1>9, <3>1
  <2>2. \A k \in DOMAIN u : u[k].type = "address" => BlockOK(u, k)
    BY <1>13, <1>14, <1>15
  <2>3. ASSUME NEW k \in DOMAIN u, u[k].type = "node" PROVE k > 1 /\ u[k - 1].type = "address"
    <3>1. k > 1 /\ h[k - 1].type = "address" /\ k \in DOMAIN h
      BY <1>1, <1>15, <2>3 DEF WrittenOK
    <3>2. k - 1 \in DOMAIN h
      BY <1>1, <3>1
    <3> QED
      BY <1>9, <3>1, <3>2
  <2>4. \A j, k \in DOMAIN u :
            u[j].type = "address" /\ u[k].type = "address" /\ u[j].node = u[k].node => j = k
    BY <1>1, <1>15 DEF WrittenOK
  <2>5. \A k \in DOMAIN u : u[k].type = "pairs" => DOMAIN u[k] = PairsFields
    BY <1>1, <1>9, <1>12 DEF WrittenOK
  <2> QED
    BY <1>16, <2>1, <2>2, <2>3, <2>4, <2>5 DEF WrittenOK, Unfinished
<1>20. u # <<>>
  <2>1. Len(u) # 0
    BY <1>5, <1>7
  <2> QED
    BY <2>1, EmptySeq
<1> QED
    BY <1>6, <1>16, <1>17, <1>18, <1>19, <1>20 DEF Open, u, t

LEMMA FooterAdded ==
    ASSUME NEW S, NEW w, Open(w, S), Whole(w),
           kind # "EMPTY" => Addresses(w) = DOMAIN nodes,
           NEW token \in S, token.type = "footer"
    PROVE  WrittenOK(Cat(w, <<token>>))
<1> DEFINE t == <<token>>
           u == Cat(w, t)
           n == Len(w)
<1>1. t \in Seq(S) /\ Len(t) = 1 /\ t[1] = token
    OBVIOUS
<1> HIDE DEF t
<1>3. w \in Seq(S) /\ WrittenOK(w) /\ Unfinished(w) /\ w # <<>>
    BY DEF Open
<1>4. u \in Seq(S) /\ Len(u) = n + Len(t)
    BY <1>1, <1>3, CatProperties
<1>5. n \in Nat /\ DOMAIN w = 1..n /\ DOMAIN u = 1..(n + Len(t))
  <2>1. w \in Seq(S) /\ t \in Seq(S)
    BY <1>1, <1>3
  <2> QED
    BY <2>1, CatDomain
<1>6. n # 0
    BY <1>3, EmptySeq
<1>7. \A j \in Nat \ {0} : j <= n => u[j] = w[j]
    BY <1>1, <1>3, CatLeft
<1>8. ASSUME NEW j \in Nat \ {0}, j <= Len(t) PROVE u[n + j] = t[j]
  <2>1. w \in Seq(S) /\ t \in Seq(S)
    BY <1>1, <1>3
  <2> QED
    BY <1>8, <2>1, CatRight, Zenon
<1>9. u[n + 1] = token
    BY <1>1, <1>8
<1> HIDE DEF u, n
<1>10. DOMAIN u = 1..(n + 1) /\ Len(u) = n + 1 /\ n \in Nat \ {0}
    BY <1>1, <1>4, <1>5, <1>6
<1>11. \A k \in DOMAIN u : (k \in DOMAIN w /\ u[k] = w[k]) \/ k = n + 1
    BY <1>5, <1>7, <1>10
<1>12. \A k \in DOMAIN w : k \in DOMAIN u /\ u[k] = w[k] /\ k # n + 1
    BY <1>5, <1>7, <1>10
<1>14. ASSUME NEW k \in DOMAIN w, w[k].type = "address" PROVE BlockOK(u, k)
  <2>1. BlockOK(w, k) /\ Closed(w, k)
    BY <1>3, <1>14 DEF WrittenOK, Whole
  <2>2. t # <<>> => t[1].type \in {"address", "footer"}
    BY <1>1
  <2> QED
    BY <1>1, <1>3, <2>1, <2>2, BlockStays DEF u
<1>15. Addresses(u) = Addresses(w)
  <2>1. \A q \in Addresses(w) : q \in Addresses(u)
    BY <1>12, AddressesAre
  <2>2. ASSUME NEW q \in Addresses(u) PROVE q \in Addresses(w)
    <3>1. PICK k \in DOMAIN u : u[k].type = "address" /\ u[k].node = q
      BY AddressesAre
    <3> QED
      BY <1>9, <1>11, <3>1, AddressesAre
  <2> QED
    BY <2>1, <2>2
<1>16. u[1] = Header
  <2>1. 1 \in DOMAIN w
    BY <1>5, <1>10
  <2> QED
    BY <1>3, <1>12, <2>1 DEF WrittenOK
<1>17. u[2].type \in {"address", "footer"}
  <2>1. CASE n = 1
    BY <1>9, <2>1
  <2>2. CASE n # 1
    <3>1. n > 1 /\ 2 \in DOMAIN w
      BY <1>5, <1>10, <2>2
    <3>2. w[2].type \in {"address", "footer"}
      BY <1>3, <3>1 DEF WrittenOK, n
    <3> QED
      BY <1>12, <3>1, <3>2
  <2> QED
    BY <2>1, <2>2
<1>18. ASSUME NEW k \in DOMAIN u, u[k].type = "address" PROVE BlockOK(u, k)
    BY <1>9, <1>11, <1>14, <1>18
<1>19. ASSUME NEW k \in DOMAIN u, u[k].type = "node" PROVE k > 1 /\ u[k - 1].type = "address"
  <2>1. k \in DOMAIN w /\ u[k] = w[k]
    BY <1>9, <1>11, <1>19
  <2>2. k > 1 /\ w[k - 1].type = "address"
    BY <1>3, <1>19, <2>1 DEF WrittenOK
  <2>3. k - 1 \in DOMAIN w
    BY <1>5, <2>1, <2>2
  <2> QED
    BY <1>12, <2>2, <2>3
<1>20. ASSUME NEW j \in DOMAIN u, NEW k \in DOMAIN u, u[j].type = "address",
               u[k].type = "address", u[j].node = u[k].node
       PROVE  j = k
  <2>1. j \in DOMAIN w /\ u[j] = w[j] /\ k \in DOMAIN w /\ u[k] = w[k]
    BY <1>9, <1>11, <1>20
  <2> QED
    BY <1>3, <1>20, <2>1 DEF WrittenOK
<1>21. ASSUME NEW k \in DOMAIN u, u[k].type = "footer" PROVE k = Len(u)
  <2>1. k \in DOMAIN w => w[k].type # "footer"
    BY <1>3 DEF Unfinished
  <2> QED
    BY <1>10, <1>11, <1>21, <2>1
<1>22. ASSUME NEW k \in DOMAIN u, u[k].type = "pairs" PROVE DOMAIN u[k] = PairsFields
  <2>1. k \in DOMAIN w /\ u[k] = w[k]
    BY <1>9, <1>11, <1>22
  <2> QED
    BY <1>3, <1>22, <2>1 DEF WrittenOK
<1>23. WrittenOK(u)
    BY <1>15, <1>16, <1>17, <1>18, <1>19, <1>20, <1>21, <1>22 DEF WrittenOK
<1> QED
    BY <1>23 DEF u, t

\* What is written does not depend on the state of the save().
LEMMA SameWritten ==
    ASSUME UNCHANGED <<nodes, kind, store, count, longest_word>>,
           output'.damaged = output.damaged, NEW w
    PROVE  /\ WrittenOK(w)' <=> WrittenOK(w)
           /\ Whole(w)' <=> Whole(w)
           /\ Unfinished(w)' <=> Unfinished(w) /\ Addresses(w)' = Addresses(w)
<1>1. Header' = Header
    BY DEF Header
<1>2. \A p : Linked(p)' = Linked(p) /\ Valued(p)' = Valued(p)
    BY DEF Linked, Valued
<1>3. \A t, p : NodeToken(t, p)' <=> NodeToken(t, p)
    BY DEF NodeToken, SavedNode
<1>4. \A t, p : PairsToken(t, p)' <=> PairsToken(t, p)
    BY DEF PairsToken, LinksToken
<1>5. \A k : BlockOK(w, k)' <=> BlockOK(w, k)
    BY <1>2, <1>3, <1>4 DEF BlockOK, Bytes
<1>6. Addresses(w)' = Addresses(w)
    BY DEF Addresses
<1>7. WrittenOK(w)' <=> WrittenOK(w)
    BY <1>1, <1>5, <1>6 DEF WrittenOK
<1>8. Whole(w)' <=> Whole(w)
    BY <1>2 DEF Whole, Closed, End
<1> QED
    BY <1>6, <1>7, <1>8 DEF Unfinished

-----------------------------------------------------------------------------
(* The stack of save(). *)

LEMMA NodeIs ==
    ASSUME Heap(nodes), Tree(nodes), NEW p \in DOMAIN nodes
    PROVE  /\ p \in Seq(Letters) /\ Len(p) \in Nat /\ p # NULL /\ p # FREED
           /\ nodes[p].next \in Seq(Letters) /\ Len(nodes[p].next) \in Nat
           /\ DOMAIN nodes[p].next = 1..Len(nodes[p].next)
           /\ \A j, k \in DOMAIN nodes[p].next : nodes[p].next[j] = nodes[p].next[k] => j = k
<1>1. p \in Seq(Letters) /\ nodes[p].next \in Seq(Letters)
    BY DEF Heap, TrieNode
<1>2. IsInjective(nodes[p].next)
    BY DEF Tree, OneLinkPerLetter
<1>3. \A j, k \in DOMAIN nodes[p].next : nodes[p].next[j] = nodes[p].next[k] => j = k
    BY <1>2 DEF IsInjective
<1> QED
    BY <1>1, <1>3, LenProperties, PointerAssumption

LEMMA ParentIs ==
    ASSUME Heap(nodes), Tree(nodes), NEW p \in DOMAIN nodes, NEW k \in 0..Len(p)
    PROVE  At(p, k) \in DOMAIN nodes
<1>1. p \in Seq(Letters) /\ Len(p) \in Nat
    BY NodeIs
<1>2. CASE k = Len(p)
    BY <1>1, <1>2, AtAt
<1>3. CASE k # Len(p)
  <2>1. k \in 0..(Len(p) - 1)
    BY <1>1, <1>3
  <2> QED
    BY <2>1 DEF Tree, PrefixClosed
<1> QED
    BY <1>2, <1>3

LEMMA BelowIs ==
    ASSUME Heap(nodes), Tree(nodes), NEW p \in DOMAIN nodes, NEW q \in DOMAIN nodes,
           NEW j \in DOMAIN nodes[p].next
    PROVE  Below(p, j, q) <=>
             Len(p) < Len(q) /\ At(q, Len(p)) = p /\ q[Len(p) + 1] = nodes[p].next[j]
<1> DEFINE l == nodes[p].next[j]
           c == Append(p, l)
           k == Len(p) + 1
<1>1. p \in Seq(Letters) /\ q \in Seq(Letters) /\ Len(p) \in Nat /\ Len(q) \in Nat /\ l \in Letters
    BY NodeIs
<1> HIDE DEF l
<1>2. Len(c) = k
    BY <1>1, AppendAbove
<1>3. ASSUME Len(c) <= Len(q), At(q, Len(c)) = c
      PROVE  Len(p) < Len(q) /\ At(q, Len(p)) = p /\ q[k] = l
  <2>1. k \in 1..Len(q) /\ c = At(q, k) /\ k - 1 = Len(p)
    BY <1>1, <1>2, <1>3
  <2>2. p = At(q, k - 1) /\ l = q[k]
    BY <1>1, <2>1, AppendOnPath
  <2> QED
    BY <1>1, <2>1, <2>2
<1>4. ASSUME Len(p) < Len(q), At(q, Len(p)) = p, q[k] = l
      PROVE  Len(c) <= Len(q) /\ At(q, Len(c)) = c
  <2>1. Len(p) \in 0..(Len(q) - 1)
    BY <1>1, <1>4
  <2>2. Append(At(q, Len(p)), q[Len(p) + 1]) = At(q, Len(p) + 1)
    BY <1>1, <2>1, AppendAt
  <2> QED
    BY <1>1, <1>2, <1>4, <2>2
<1>5. Below(p, j, q) <=> Len(c) <= Len(q) /\ At(q, Len(c)) = c
    BY DEF Below, l
<1> QED
    BY <1>3, <1>4, <1>5 DEF l

LEMMA BelowSome ==
    ASSUME Heap(nodes), Tree(nodes), NEW p \in DOMAIN nodes, NEW q \in DOMAIN nodes,
           Len(p) < Len(q), At(q, Len(p)) = p
    PROVE  \E j \in 1..Len(nodes[p].next) : Below(p, j, q)
<1>1. Len(p) \in Nat /\ Len(q) \in Nat /\ DOMAIN nodes[p].next = 1..Len(nodes[p].next)
    BY NodeIs
<1>2. Len(p) \in 0..(Len(q) - 1)
    BY <1>1
<1>3. q[Len(p) + 1] \in ToSet(nodes[p].next)
    BY <1>2 DEF Tree, PrefixClosed
<1>4. PICK j \in DOMAIN nodes[p].next : nodes[p].next[j] = q[Len(p) + 1]
    BY <1>3 DEF ToSet
<1> QED
    BY <1>1, <1>4, BelowIs

\* The node of the last frame; what is known of the frames from the second on.
Trail(stack) == stack[Len(stack)].node

FrameIs(stack, d) ==
    LET p == At(Trail(stack), d - 2)
    IN  /\ p \in DOMAIN nodes /\ p \in Seq(Letters) /\ Len(p) = d - 2
        /\ stack[d] = [node |-> p, i |-> stack[d].i] /\ stack[d].node = p
        /\ stack[d].i \in 1..(Len(nodes[p].next) + 1)
        /\ d < Len(stack) => /\ stack[d].i > 1 /\ stack[d].i - 1 \in DOMAIN nodes[p].next
                             /\ nodes[p].next[stack[d].i - 1] = Trail(stack)[d - 1]

LEMMA TrailIs ==
    ASSUME Heap(nodes), Tree(nodes), NEW S, NEW stack \in Seq(S), StackOK(stack),
           Len(stack) > 1
    PROVE  /\ Len(stack) \in Nat /\ stack # <<>> /\ Trail(stack) \in DOMAIN nodes
           /\ Trail(stack) \in Seq(Letters) /\ Len(Trail(stack)) = Len(stack) - 2
<1>1. Len(stack) \in Nat /\ stack # <<>>
    BY LenProperties, EmptySeq
<1>2. Trail(stack) \in DOMAIN nodes /\ Len(Trail(stack)) = Len(stack) - 2
    BY <1>1 DEF StackOK, Trail
<1> QED
    BY <1>1, <1>2, NodeIs

LEMMA StackFrames ==
    ASSUME Heap(nodes), Tree(nodes), NEW S, NEW stack \in Seq(S), StackOK(stack),
           NEW d \in 2..Len(stack)
    PROVE  FrameIs(stack, d)
<1> DEFINE D == Len(stack)
           path == Trail(stack)
           p == At(path, d - 2)
<1>1. D \in Nat /\ D > 1
    BY LenProperties
<1>2. stack # <<>> /\ path \in DOMAIN nodes /\ path \in Seq(Letters) /\ Len(path) = D - 2
    BY <1>1, TrailIs
<1>4. stack[d] = [node |-> p, i |-> stack[d].i]
    BY <1>2 DEF StackOK, Trail
<1>5. stack[d].node = p
    BY <1>4
<1>6. stack[d].i \in 1..(Len(nodes[p].next) + 1)
    BY <1>2, <1>5 DEF StackOK
<1>7. d < D => stack[d].i > 1 /\ nodes[p].next[stack[d].i - 1] = path[d - 1]
    BY <1>2, <1>5 DEF StackOK, Trail
<1> HIDE DEF p, path, D
<1>8. d - 2 \in 0..Len(path)
    BY <1>1, <1>2 DEF D
<1>9. p \in DOMAIN nodes
    BY <1>2, <1>8, ParentIs DEF p
<1>10. p \in Seq(Letters) /\ Len(p) = d - 2
    BY <1>2, <1>8, AtType DEF p
<1>11. DOMAIN nodes[p].next = 1..Len(nodes[p].next) /\ Len(nodes[p].next) \in Nat
    BY <1>9, NodeIs
<1>12. d < D => stack[d].i - 1 \in DOMAIN nodes[p].next
    BY <1>6, <1>7, <1>11
<1> QED
    BY <1>4, <1>5, <1>6, <1>7, <1>9, <1>10, <1>12 DEF FrameIs, p, path, D

\* Everything waits at first, then what is below a child to come.
LEMMA WaitingFirst ==
    ASSUME NEW S, NEW stack \in Seq(S), StackOK(stack), Len(stack) = 1
    PROVE  Waiting(stack) = DOMAIN nodes
<1>1. stack # <<>> /\ 1 \in DOMAIN stack
  <2>1. DOMAIN stack = 1..Len(stack)
    BY LenProperties
  <2>2. Len(<<>>) = 0
    BY EmptySeq
  <2>3. 1 \in 1..1
    OBVIOUS
  <2>4. 1 \in DOMAIN stack
    BY <2>1, <2>3
  <2>5. stack # <<>>
    <3>1. ASSUME stack = <<>> PROVE FALSE
      BY <2>2, <3>1
    <3> QED
      BY <3>1
  <2> QED
    BY <2>4, <2>5
<1>2. stack[1].node = NULL /\ stack[1].i = 1
    BY <1>1 DEF StackOK
<1> QED
    BY <1>1, <1>2 DEF Waiting

LEMMA WaitingIs ==
    ASSUME Heap(nodes), Tree(nodes), NEW S, NEW stack \in Seq(S), StackOK(stack),
           Len(stack) > 1, NEW q \in DOMAIN nodes
    PROVE  q \in Waiting(stack) <=>
             \E d \in 2..Len(stack) : \E j \in stack[d].i..Len(nodes[stack[d].node].next) :
                Below(stack[d].node, j, q)
<1> DEFINE W(d) == \E j \in stack[d].i..Len(nodes[stack[d].node].next) : Below(stack[d].node, j, q)
<1>1. stack # <<>> /\ DOMAIN stack = 1..Len(stack) /\ Len(stack) \in Nat
    BY LenProperties, EmptySeq
<1>2. stack[1].node = NULL /\ stack[1].i # 1
  <2>1. stack[1] = [node |-> NULL, i |-> IF Len(stack) = 1 THEN 1 ELSE 2]
    BY <1>1, Zenon DEF StackOK
  <2>2. Len(stack) # 1
    <3>1. \A n \in Nat : n > 1 => n # 1
      OBVIOUS
    <3> QED
      BY <1>1, <3>1
  <2> QED
    BY <2>1, <2>2
<1>3. \A d \in 2..Len(stack) : stack[d].node # NULL
  <2>1. \A d \in 2..Len(stack) : FrameIs(stack, d)
    BY StackFrames
  <2>2. \A d \in 2..Len(stack) : stack[d].node \in DOMAIN nodes
    BY <2>1 DEF FrameIs
  <2> QED
    BY <2>2, NodeIs
<1>4. \A d \in DOMAIN stack : d = 1 \/ d \in 2..Len(stack)
    BY <1>1
<1>5. \A d \in 2..Len(stack) : d \in DOMAIN stack
    BY <1>1
<1>6. q \in Waiting(stack) <=> \E d \in DOMAIN stack :
            IF stack[d].node = NULL THEN stack[d].i = 1 ELSE W(d)
    BY DEF Waiting
<1> HIDE DEF W
<1>7. q \in Waiting(stack) <=> \E d \in 2..Len(stack) : W(d)
    BY <1>2, <1>3, <1>4, <1>5, <1>6
<1> QED
    BY <1>7 DEF W

\* The nodes on the way to the last one are visited.
LEMMA NotWaiting ==
    ASSUME Heap(nodes), Tree(nodes), NEW S, NEW stack \in Seq(S), StackOK(stack),
           Len(stack) > 1, NEW k \in 0..(Len(stack) - 2)
    PROVE  At(Trail(stack), k) \in DOMAIN nodes \ Waiting(stack)
<1> DEFINE path == Trail(stack)
           q == At(path, k)
           D == Len(stack)
<1>1. D \in Nat /\ path \in DOMAIN nodes /\ path \in Seq(Letters) /\ Len(path) = D - 2
    BY TrailIs
<1>2. q \in DOMAIN nodes
    BY <1>1, ParentIs
<1>3. Len(q) = k /\ \A j \in 1..k : q[j] = path[j]
    BY <1>1, AtType
<1> HIDE DEF q, D
<1>4. ASSUME NEW d \in 2..D, NEW j \in stack[d].i..Len(nodes[stack[d].node].next),
             Below(stack[d].node, j, q)
      PROVE  FALSE
  <2>1. PICK p : p = stack[d].node
    OBVIOUS
  <2>2. FrameIs(stack, d)
    BY StackFrames DEF D
  <2>3. /\ p \in DOMAIN nodes /\ Len(p) = d - 2 /\ stack[d].i \in 1..(Len(nodes[p].next) + 1)
        /\ d < D => /\ stack[d].i > 1 /\ stack[d].i - 1 \in DOMAIN nodes[p].next
                    /\ nodes[p].next[stack[d].i - 1] = path[d - 1]
    BY <2>1, <2>2 DEF FrameIs, D
  <2>4. j \in DOMAIN nodes[p].next
    <3>1. DOMAIN nodes[p].next = 1..Len(nodes[p].next) /\ Len(nodes[p].next) \in Nat
      BY <2>3, NodeIs
    <3>2. j \in stack[d].i..Len(nodes[p].next)
      BY <1>4, <2>1
    <3> QED
      BY <2>3, <3>1, <3>2
  <2>5. Len(p) < Len(q) /\ q[Len(p) + 1] = nodes[p].next[j]
    <3>1. Below(p, j, q)
      BY <1>4, <2>1
    <3> QED
      BY <1>2, <2>3, <2>4, <3>1, BelowIs
  <2>6. d < D /\ d - 1 \in 1..k /\ Len(p) + 1 = d - 1
    BY <1>1, <1>3, <2>3, <2>5 DEF D
  <2>7. nodes[p].next[j] = nodes[p].next[stack[d].i - 1] /\ stack[d].i - 1 \in DOMAIN nodes[p].next
    BY <1>3, <2>3, <2>5, <2>6
  <2>8. j = stack[d].i - 1
    BY <2>3, <2>4, <2>7, NodeIs
  <2>9. j >= stack[d].i /\ stack[d].i \in Int
    BY <1>4, <2>3
  <2> QED
    BY <2>8, <2>9
<1>5. q \notin Waiting(stack)
    BY <1>2, <1>4, WaitingIs DEF D
<1> QED
    BY <1>2, <1>5 DEF q

\* The frame whose loop goes on: those above it are left.
LEMMA DepthIs ==
    ASSUME NEW S, save.stack \in Seq(S)
    PROVE  /\ Depth \in 0..Len(save.stack)
           /\ Depth > 0 => GoesOn(save.stack[Depth])
           /\ \A d \in 1..Len(save.stack) : d > Depth => ~GoesOn(save.stack[d])
<1> DEFINE n == Len(save.stack)
           T == {0} \cup {k \in DOMAIN save.stack : GoesOn(save.stack[k])}
<1>1. n \in Nat /\ DOMAIN save.stack = 1..n
    BY LenProperties
<1> HIDE DEF n
<1>2. T \subseteq 0..n /\ T # {}
    BY <1>1
<1>3. Depth = Max(T)
    BY DEF Depth
<1> HIDE DEF T
<1>4. Max(T) \in T /\ \A y \in T : Max(T) >= y
    BY <1>1, <1>2, MaxExists
<1>5. Depth \in 0..n
    BY <1>2, <1>3, <1>4
<1>6. Depth > 0 => GoesOn(save.stack[Depth])
    BY <1>3, <1>4 DEF T
<1>7. ASSUME NEW d \in 1..n, d > Depth, GoesOn(save.stack[d]) PROVE FALSE
  <2>1. d \in T
    BY <1>1, <1>7 DEF T
  <2>2. Depth >= d
    BY <1>3, <1>4, <2>1
  <2> QED
    BY <1>1, <1>5, <1>7, <2>2
<1> QED
    BY <1>5, <1>6, <1>7 DEF n

LEMMA EnteredIs ==
    ASSUME NEW S, save.stack \in Seq(S), NEW K, K = Depth, K > 0
    PROVE  /\ \E T : Entered \in Seq(T)
           /\ Len(Entered) = K + 1 /\ K \in 1..Len(save.stack)
           /\ \A d \in 1..(K - 1) : Entered[d] = save.stack[d]
           /\ Entered[K] = [save.stack[K] EXCEPT !.i = @ + 1]
           /\ Entered[K + 1] = [node |-> Visiting, i |-> 1]
           /\ Trail(Entered) = Visiting
<1> DEFINE s == SubSeq(save.stack, 1, K)
           f == [save.stack[K] EXCEPT !.i = @ + 1]
           g == [node |-> Visiting, i |-> 1]
           T == S \cup {f, g}
           t == [s EXCEPT ![K].i = @ + 1]
<1>1. K \in 1..Len(save.stack) /\ K \in Nat /\ Len(save.stack) \in Nat /\ K \in 0..Len(save.stack)
  <2>1. K \in 0..Len(save.stack) /\ Len(save.stack) \in Nat
    BY DepthIs, LenProperties
  <2> QED
    BY <2>1
<1>2. s \in Seq(S) /\ Len(s) = K /\ \A d \in 1..K : s[d] = save.stack[d]
  <2>1. s = At(save.stack, K)
    BY DEF At
  <2> QED
    BY <1>1, <2>1, AtType
<1> HIDE DEF s
<1>3. t = [s EXCEPT ![K] = f]
  <2>1. s[K] = save.stack[K]
    BY <1>1, <1>2
  <2> QED
    BY <2>1
<1> HIDE DEF t, f, g
<1>4. s \in Seq(T)
    BY <1>2
<1>5. /\ t \in Seq(T) /\ Len(t) = K /\ t[K] = f
      /\ \A d \in 1..(K - 1) : t[d] = save.stack[d]
  <2>1. f \in T /\ K \in 1..Len(s)
    BY <1>1, <1>2
  <2> HIDE DEF T
  <2>2. /\ [s EXCEPT ![K] = f] \in Seq(T) /\ Len([s EXCEPT ![K] = f]) = Len(s)
        /\ \A j \in 1..Len(s) : [s EXCEPT ![K] = f][j] = IF j = K THEN f ELSE s[j]
    BY <1>4, <2>1, ExceptSeq
  <2>3. \A d \in 1..(K - 1) : d \in 1..Len(s) /\ d # K
    BY <1>1, <1>2
  <2> QED
    BY <1>1, <1>2, <1>3, <2>1, <2>2, <2>3
<1>6. Entered = Append(t, g)
    BY DEF Entered, s, t, g
<1>7. g \in T
    OBVIOUS
<1> HIDE DEF T
<1>8. /\ Append(t, g) \in Seq(T) /\ Len(Append(t, g)) = K + 1
      /\ \A d \in 1..K : Append(t, g)[d] = t[d]
      /\ Append(t, g)[K + 1] = g
    BY <1>5, <1>7, AppendProperties
<1>9. \A d \in 1..(K - 1) : Entered[d] = save.stack[d]
  <2>1. \A d \in 1..(K - 1) : d \in 1..K
    BY <1>1
  <2> QED
    BY <1>5, <1>6, <1>8, <2>1
<1>10. Entered[K] = f
  <2>1. K \in 1..K
    BY <1>1
  <2> QED
    BY <1>5, <1>6, <1>8, <2>1
<1>11. Entered[K + 1] = g /\ Len(Entered) = K + 1 /\ Entered \in Seq(T)
    BY <1>6, <1>8
<1>12. Trail(Entered) = Visiting
    BY <1>11 DEF Trail, g
<1> QED
    BY <1>1, <1>9, <1>10, <1>11, <1>12 DEF f, g

\* A descent begins with the root.
LEMMA EntersFirst ==
    ASSUME Heap(nodes), Tree(nodes), Root \in DOMAIN nodes, NEW S, save.stack \in Seq(S),
           StackOK(save.stack), Depth = 1
    PROVE  /\ StackOK(Entered) /\ Visiting = Root /\ Len(Entered) = 2
           /\ Waiting(save.stack) = DOMAIN nodes
           /\ Waiting(Entered) = Waiting(save.stack) \ {Root}
<1> DEFINE stack == save.stack
<1>1. PICK T : /\ Entered \in Seq(T)
               /\ Len(Entered) = 2 /\ 1 \in 1..Len(stack)
               /\ Entered[1] = [stack[1] EXCEPT !.i = @ + 1]
               /\ Entered[2] = [node |-> Visiting, i |-> 1]
               /\ Trail(Entered) = Visiting
  <2>1. PICK K : K = 1
    OBVIOUS
  <2>2. K = Depth /\ K > 0
    BY <2>1
  <2>3. /\ \E T : Entered \in Seq(T)
        /\ Len(Entered) = K + 1 /\ K \in 1..Len(stack)
        /\ Entered[K] = [stack[K] EXCEPT !.i = @ + 1]
        /\ Entered[K + 1] = [node |-> Visiting, i |-> 1]
        /\ Trail(Entered) = Visiting
    BY <2>2, EnteredIs
  <2>4. K + 1 = 2
    BY <2>1
  <2> QED
    BY <2>1, <2>3, <2>4
<1>2. stack # <<>>
  <2>1. ASSUME stack = <<>> PROVE Len(stack) = 0
    BY <2>1, EmptySeq
  <2> QED
    BY <1>1, <2>1
<1>3. stack[1] = [node |-> NULL, i |-> IF Len(stack) = 1 THEN 1 ELSE 2]
    BY <1>2 DEF StackOK
<1>4. GoesOn(stack[1])
    BY DepthIs
<1>5. stack[1].i = 1 /\ Len(stack) = 1 /\ stack[1].node = NULL
  <2>1. stack[1].node = NULL /\ (Len(stack) # 1 => stack[1].i = 2)
    BY <1>3
  <2>2. stack[1].i = 1
    BY <1>4, <2>1, PointerAssumption DEF GoesOn
  <2>3. 1 # 2
    OBVIOUS
  <2> QED
    BY <2>1, <2>2, <2>3
<1>6. Entered[1] = [node |-> NULL, i |-> 2]
    BY <1>1, <1>3, <1>5
<1>7. Visiting = Root
    BY <1>5 DEF Visiting, Frame
<1>8. Entered # <<>>
  <2>1. ASSUME Entered = <<>> PROVE Len(Entered) = 0
    BY <2>1, EmptySeq
  <2> QED
    BY <1>1, <2>1
<1>9. At(Root, 0) = Root /\ Len(Root) = 0 /\ Root \in Seq(Letters)
    BY EmptySeq, AtAt DEF Root
<1>10. Len(nodes[Root].next) \in Nat
    BY NodeIs
<1>11. StackOK(Entered)
  <2>1. Entered[1] = [node |-> NULL, i |-> IF 2 = 1 THEN 1 ELSE 2]
    BY <1>6
  <2>2. Entered[2].node = Root /\ Entered[2].i = 1
    BY <1>1, <1>7
  <2>3. 1 \in 1..(Len(nodes[Root].next) + 1)
    BY <1>10
  <2>4. \A d \in 2..2 : d = 2 /\ d - 2 = 0
    OBVIOUS
  <2>5. Entered[2] = [node |-> At(Root, 0), i |-> Entered[2].i]
    BY <1>1, <1>7, <1>9, <2>2
  <2> QED
    BY <1>1, <1>9, <2>1, <2>2, <2>3, <2>4, <2>5 DEF StackOK
<1>12. Waiting(stack) = DOMAIN nodes
    BY <1>5, WaitingFirst
<1>13. \A q \in DOMAIN nodes : q \in Waiting(Entered) <=>
            \E j \in 1..Len(nodes[Root].next) : Below(Root, j, q)
  <2>1. Entered[2].node = Root /\ Entered[2].i = 1
    BY <1>1, <1>7
  <2>2. \A q \in DOMAIN nodes : q \in Waiting(Entered) <=>
             \E d \in 2..Len(Entered) : \E j \in Entered[d].i..Len(nodes[Entered[d].node].next) :
                Below(Entered[d].node, j, q)
    <3>1. Len(Entered) > 1
      BY <1>1
    <3> QED
      BY <1>1, <1>11, <3>1, WaitingIs
  <2>3. \A d \in 2..2 : d = 2
    OBVIOUS
  <2> QED
    BY <1>1, <2>1, <2>2, <2>3
<1>14. ASSUME NEW q \in DOMAIN nodes PROVE q \in Waiting(Entered) <=> q # Root
  <2>1. q \in Seq(Letters) /\ Len(q) \in Nat
    BY NodeIs
  <2>2. CASE q = Root
    <3>1. ASSUME NEW j \in 1..Len(nodes[Root].next), Below(Root, j, q) PROVE FALSE
      <4>1. j \in DOMAIN nodes[Root].next
        BY NodeIs
      <4>2. Len(Root) < Len(q)
        BY <3>1, <4>1, BelowIs
      <4> QED
        BY <1>9, <2>2, <4>2
    <3> QED
      BY <1>13, <2>2, <3>1
  <2>3. CASE q # Root
    <3>1. Len(q) # 0
      BY <2>1, <2>3, LenZero DEF Root
    <3>2. At(q, 0) = Root /\ 0 < Len(q)
      BY <2>1, <3>1, AtAt DEF Root
    <3> QED
      BY <1>9, <1>13, <2>3, <3>2, BelowSome
  <2> QED
    BY <2>2, <2>3
<1>15. Waiting(Entered) = Waiting(stack) \ {Root}
  <2>1. Waiting(Entered) \subseteq DOMAIN nodes
    BY DEF Waiting
  <2> QED
    BY <1>12, <1>14, <2>1
<1> QED
    BY <1>1, <1>7, <1>11, <1>12, <1>15
\* What a descent from frame K visits: a child to come of its node.
VisitIs(stack, K, v) ==
    LET path == Trail(stack)
        p == At(v, K - 2)
        i0 == stack[K].i
    IN  /\ K \in 2..Len(stack) /\ Len(stack) \in Nat
        /\ v \in DOMAIN nodes /\ v \in Seq(Letters) /\ Len(v) = K - 1
        /\ p \in DOMAIN nodes /\ Front(v) = p /\ p = At(path, K - 2)
        /\ i0 \in DOMAIN nodes[p].next /\ nodes[p].next[i0] = v[K - 1]
        /\ stack[K] = [node |-> p, i |-> i0]
        /\ \A d \in 2..(K - 1) : At(v, d - 2) = At(path, d - 2) /\ v[d - 1] = path[d - 1]

\* It goes on with a child that waits.
LEMMA VisitingIs ==
    ASSUME Heap(nodes), Tree(nodes), NEW S, save.stack \in Seq(S), StackOK(save.stack),
           NEW K, K = Depth, K > 1, NEW v, v = Visiting
    PROVE  VisitIs(save.stack, K, v) /\ Frame.node = At(v, K - 2)
<1> DEFINE stack == save.stack
           D == Len(stack)
           path == Trail(stack)
<1>2. PICK p : p = stack[K].node
    OBVIOUS
<1>3. PICK i0 : i0 = stack[K].i
    OBVIOUS
<1>4. K \in 2..D /\ D \in Nat /\ D > 1
  <2>1. Depth \in 0..D /\ D \in Nat
    BY DepthIs, LenProperties
  <2> QED
    BY <2>1
<1>5. GoesOn(stack[K])
    BY <1>4, DepthIs
<1>6. FrameIs(stack, K)
    BY <1>4, StackFrames
<1>7. path \in DOMAIN nodes /\ path \in Seq(Letters) /\ Len(path) = D - 2
    BY <1>4, TrailIs
<1>8. /\ p = At(path, K - 2) /\ p \in DOMAIN nodes /\ Len(p) = K - 2
      /\ stack[K] = [node |-> p, i |-> i0] /\ i0 \in 1..(Len(nodes[p].next) + 1)
    BY <1>2, <1>3, <1>6 DEF FrameIs
<1> HIDE DEF path, D
<1>9. /\ p \in Seq(Letters) /\ p # NULL /\ p # FREED
      /\ nodes[p].next \in Seq(Letters) /\ Len(nodes[p].next) \in Nat
      /\ DOMAIN nodes[p].next = 1..Len(nodes[p].next)
    BY <1>8, NodeIs
<1>10. i0 \in DOMAIN nodes[p].next
  <2>1. i0 <= Len(nodes[p].next)
    BY <1>2, <1>3, <1>5, <1>9 DEF GoesOn
  <2> QED
    BY <1>8, <1>9, <2>1
<1>11. PICK l \in Letters : l = nodes[p].next[i0]
    BY <1>9, <1>10
<1>13. v = Append(p, l) /\ Frame.node = p
    BY <1>2, <1>3, <1>9, <1>11, Zenon DEF Visiting, Frame
<1>14. v \in DOMAIN nodes
    BY <1>8, <1>9, <1>10, <1>11, <1>13 DEF Tree, LinksLive, ToSet
<1>15. /\ v \in Seq(Letters) /\ v # <<>> /\ Len(v) = K - 1 /\ v[K - 1] = l /\ At(v, K - 2) = p
  <2>1. /\ v \in Seq(Letters) /\ v # <<>> /\ Len(v) = Len(p) + 1 /\ v[Len(p) + 1] = l
        /\ At(v, Len(p)) = p
    BY <1>9, <1>13, AppendAbove
  <2>2. Len(p) + 1 = K - 1 /\ Len(p) = K - 2
    BY <1>4, <1>8
  <2> QED
    BY <2>1, <2>2
<1>16. Front(v) = p
  <2>1. Len(v) - 1 = K - 2
    BY <1>4, <1>15
  <2>2. Front(v) = At(v, K - 2)
    BY <2>1 DEF Front, At
  <2> QED
    BY <1>15, <2>2
<1>17. ASSUME NEW d \in 2..(K - 1)
       PROVE  At(v, d - 2) = At(path, d - 2) /\ v[d - 1] = path[d - 1]
  <2>1. K - 2 \in 0..Len(v) /\ K - 2 \in 0..Len(path) /\ d - 2 \in 0..(K - 2)
    BY <1>4, <1>7, <1>15 DEF D
  <2>2. At(At(v, K - 2), d - 2) = At(v, d - 2)
    BY <1>15, <2>1, AtAt
  <2>3. At(At(path, K - 2), d - 2) = At(path, d - 2)
    BY <1>7, <2>1, AtAt
  <2>4. d - 1 \in 1..(K - 2)
    BY <1>4
  <2>5. At(v, K - 2)[d - 1] = v[d - 1]
    BY <1>15, <2>1, <2>4, AtType
  <2>6. At(path, K - 2)[d - 1] = path[d - 1]
    BY <1>7, <2>1, <2>4, AtType
  <2> QED
    BY <1>8, <1>15, <2>2, <2>3, <2>5, <2>6
<1> QED
    BY <1>3, <1>4, <1>8, <1>10, <1>11, <1>13, <1>14, <1>15, <1>16, <1>17, Zenon DEF VisitIs, path, D
\* The stack leads to what is visited.
LEMMA StackEntered ==
    ASSUME Heap(nodes), Tree(nodes), NEW S, save.stack \in Seq(S), StackOK(save.stack), Depth > 1
    PROVE  /\ StackOK(Entered) /\ \E T : Entered \in Seq(T)
           /\ Len(Entered) = Depth + 1 /\ Len(Entered) > 1 /\ Trail(Entered) = Visiting
<1> DEFINE stack == save.stack
           path == Trail(stack)
<1>1. PICK K \in Nat : K = Depth
  <2>1. Depth \in 0..Len(save.stack)
    BY DepthIs
  <2> QED
    BY <2>1
<1>2. PICK v : v = Visiting
    OBVIOUS
<1>3. PICK e : e = Entered
    OBVIOUS
<1>4. PICK i0 : i0 = stack[K].i
    OBVIOUS
<1>5. PICK p : p = At(v, K - 2)
    OBVIOUS
<1>6. /\ K \in 2..Len(stack) /\ Len(stack) \in Nat
      /\ v \in DOMAIN nodes /\ v \in Seq(Letters) /\ Len(v) = K - 1
      /\ p \in DOMAIN nodes /\ p = At(path, K - 2)
      /\ i0 \in DOMAIN nodes[p].next /\ nodes[p].next[i0] = v[K - 1]
      /\ stack[K] = [node |-> p, i |-> i0]
      /\ \A d \in 2..(K - 1) : At(v, d - 2) = At(path, d - 2) /\ v[d - 1] = path[d - 1]
  <2>1. K > 1
    BY <1>1
  <2>2. VisitIs(stack, K, v)
    BY <1>1, <1>2, <2>1, VisitingIs
  <2> QED
    BY <1>4, <1>5, <2>2 DEF VisitIs
<1>7. /\ \E T : e \in Seq(T)
      /\ Len(e) = K + 1
      /\ \A d \in 1..(K - 1) : e[d] = stack[d]
      /\ e[K] = [stack[K] EXCEPT !.i = @ + 1]
      /\ e[K + 1] = [node |-> v, i |-> 1]
      /\ Trail(e) = v
  <2>1. K = Depth /\ K > 0
    BY <1>1
  <2> QED
    BY <1>2, <1>3, <2>1, EnteredIs
<1>8. /\ Len(nodes[p].next) \in Nat /\ Len(nodes[v].next) \in Nat
      /\ DOMAIN nodes[p].next = 1..Len(nodes[p].next)
    BY <1>6, NodeIs
<1>9. e[1] = [node |-> NULL, i |-> IF Len(e) = 1 THEN 1 ELSE 2]
  <2>1. 1 \in 1..(K - 1) /\ Len(e) # 1 /\ Len(stack) # 1 /\ Len(stack) # 0
    BY <1>6, <1>7
  <2>2. stack # <<>>
    <3>1. ASSUME stack = <<>> PROVE Len(stack) = 0
      BY <3>1, EmptySeq
    <3> QED
      BY <2>1, <3>1
  <2>3. stack[1] = [node |-> NULL, i |-> IF Len(stack) = 1 THEN 1 ELSE 2]
    BY <2>2 DEF StackOK
  <2> QED
    BY <1>7, <2>1, <2>3
<1>10. ASSUME NEW d \in 2..(K - 1)
       PROVE  /\ e[d] = [node |-> At(v, d - 2), i |-> e[d].i]
              /\ e[d].i \in 1..(Len(nodes[e[d].node].next) + 1)
              /\ e[d].i > 1 /\ nodes[e[d].node].next[e[d].i - 1] = v[d - 1]
  <2>1. d \in 2..Len(stack) /\ d < Len(stack) /\ d \in 1..(K - 1)
    BY <1>6
  <2>2. FrameIs(stack, d)
    BY <2>1, StackFrames
  <2>3. e[d] = stack[d] /\ At(v, d - 2) = At(path, d - 2) /\ v[d - 1] = path[d - 1]
    BY <1>6, <1>7, <2>1
  <2> QED
    BY <2>1, <2>2, <2>3 DEF FrameIs
<1>11. /\ e[K] = [node |-> At(v, K - 2), i |-> e[K].i]
       /\ e[K].i \in 1..(Len(nodes[e[K].node].next) + 1)
       /\ e[K].i > 1 /\ nodes[e[K].node].next[e[K].i - 1] = v[K - 1]
  <2>1. e[K] = [node |-> p, i |-> i0 + 1]
    BY <1>6, <1>7
  <2>2. i0 \in 1..Len(nodes[p].next)
    BY <1>6, <1>8
  <2>3. i0 + 1 > 1 /\ i0 + 1 \in 1..(Len(nodes[p].next) + 1) /\ i0 + 1 - 1 = i0
    BY <1>8, <2>2
  <2>4. e[K].i = i0 + 1 /\ e[K].node = p
    BY <2>1
  <2>5. e[K].i > 1 /\ nodes[e[K].node].next[e[K].i - 1] = v[K - 1]
    <3>1. e[K].i - 1 = i0 /\ e[K].i > 1
      <4>1. PICK n : n = e[K].i
        OBVIOUS
      <4>2. n = i0 + 1
        BY <2>4, <4>1
      <4>3. n - 1 = i0 /\ n > 1
        BY <1>8, <2>2, <4>2
      <4> QED
        BY <4>1, <4>3
    <3> QED
      BY <1>6, <2>4, <3>1
  <2>6. e[K].i \in 1..(Len(nodes[e[K].node].next) + 1)
    BY <2>3, <2>4
  <2>7. e[K] = [node |-> At(v, K - 2), i |-> e[K].i]
    BY <1>5, <2>1, <2>4
  <2> QED
    BY <2>5, <2>6, <2>7
<1>12. /\ e[K + 1] = [node |-> At(v, K + 1 - 2), i |-> e[K + 1].i]
       /\ e[K + 1].i \in 1..(Len(nodes[e[K + 1].node].next) + 1)
  <2>1. K + 1 - 2 = Len(v)
    BY <1>6
  <2>2. At(v, K + 1 - 2) = v
    <3>1. 0 \in 0..Len(v)
      BY <1>6
    <3> QED
      BY <1>6, <2>1, <3>1, AtAt
  <2>3. 1 \in 1..(Len(nodes[v].next) + 1)
    BY <1>8
  <2> QED
    BY <1>7, <2>2, <2>3
<1>13. ASSUME NEW d \in 2..(K + 1)
       PROVE  /\ e[d] = [node |-> At(v, d - 2), i |-> e[d].i]
              /\ e[d].i \in 1..(Len(nodes[e[d].node].next) + 1)
              /\ d < K + 1 => e[d].i > 1 /\ nodes[e[d].node].next[e[d].i - 1] = v[d - 1]
  <2>1. d \in 2..(K - 1) \/ d = K \/ d = K + 1
    BY <1>6
  <2>2. ~(K + 1 < K + 1)
    BY <1>6
  <2>3. CASE d \in 2..(K - 1)
    BY <1>10, <2>3
  <2>4. CASE d = K
    BY <1>11, <2>4
  <2>5. CASE d = K + 1
    BY <1>12, <2>2, <2>5
  <2> QED
    BY <2>1, <2>3, <2>4, <2>5
<1>14. v \in DOMAIN nodes /\ Len(v) = K + 1 - 2
    BY <1>6
<1>15. Trail(e) = e[Len(e)].node
    BY DEF Trail
<1>16. StackOK(e)
  <2>1. PICK n : n = K + 1
    OBVIOUS
  <2>2. e[n].node = v /\ Len(e) = n /\ Len(v) = n - 2
    BY <1>7, <1>14, <1>15, <2>1
  <2>3. \A d \in 2..n :
            /\ e[d] = [node |-> At(v, d - 2), i |-> e[d].i]
            /\ e[d].i \in 1..(Len(nodes[e[d].node].next) + 1)
            /\ d < n => e[d].i > 1 /\ nodes[e[d].node].next[e[d].i - 1] = v[d - 1]
    BY <1>13, <2>1
  <2> QED
    BY <1>9, <1>14, <2>2, <2>3 DEF StackOK
<1> QED
  <2>1. K + 1 > 1
    BY <1>6
  <2> QED
    BY <1>1, <1>2, <1>3, <1>7, <1>16, <2>1
\* Below a child is the child itself and what is below its children.
LEMMA BelowChild ==
    ASSUME Heap(nodes), Tree(nodes), NEW p \in DOMAIN nodes, NEW v \in DOMAIN nodes,
           NEW j0 \in DOMAIN nodes[p].next, Len(v) = Len(p) + 1, At(v, Len(p)) = p,
           v[Len(v)] = nodes[p].next[j0], NEW q \in DOMAIN nodes
    PROVE  Below(p, j0, q) <=> q = v \/ \E j \in 1..Len(nodes[v].next) : Below(v, j, q)
<1>1. PICK n \in Nat : n = Len(p)
  <2>1. Len(p) \in Nat
    BY NodeIs
  <2> QED
    BY <2>1
<1>2. PICK m \in Nat : m = n + 1 /\ m = Len(v) /\ m - 1 = n /\ n < m /\ m # 0
  <2>1. n + 1 \in Nat /\ n + 1 = Len(v) /\ n + 1 - 1 = n /\ n < n + 1 /\ n + 1 # 0
    BY <1>1
  <2> QED
    BY <2>1
<1>3. v \in Seq(Letters) /\ q \in Seq(Letters) /\ Len(q) \in Nat
    BY NodeIs
<1>4. PICK l : l = nodes[p].next[j0]
    OBVIOUS
<1>5. At(v, n) = p /\ v[m] = l /\ At(v, m) = v
  <2>1. 0 \in 0..Len(v)
    BY <1>2
  <2> QED
    BY <1>1, <1>2, <1>3, <1>4, <2>1, AtAt
<1>6. Below(p, j0, q) <=> n < Len(q) /\ At(q, n) = p /\ q[m] = l
    BY <1>1, <1>2, <1>4, BelowIs
<1>7. (\E j \in 1..Len(nodes[v].next) : Below(v, j, q)) <=> m < Len(q) /\ At(q, m) = v
  <2>1. ASSUME NEW j \in 1..Len(nodes[v].next), Below(v, j, q)
        PROVE  m < Len(q) /\ At(q, m) = v
    <3>1. j \in DOMAIN nodes[v].next
      BY NodeIs
    <3> QED
      BY <1>2, <2>1, <3>1, BelowIs
  <2>2. ASSUME m < Len(q), At(q, m) = v
        PROVE  \E j \in 1..Len(nodes[v].next) : Below(v, j, q)
    BY <1>2, <2>2, BelowSome
  <2> QED
    BY <2>1, <2>2
<1>8. ASSUME Below(p, j0, q), q # v PROVE m < Len(q) /\ At(q, m) = v
  <2>1. n < Len(q) /\ At(q, n) = p /\ q[m] = l
    BY <1>6, <1>8
  <2>2. n \in 0..(Len(q) - 1) /\ n \in 0..(Len(v) - 1) /\ m <= Len(q)
    BY <1>2, <1>3, <2>1
  <2>3. Append(At(q, n), q[n + 1]) = At(q, n + 1)
    BY <1>3, <2>2, AppendAt
  <2>4. Append(At(v, n), v[n + 1]) = At(v, n + 1)
    BY <1>3, <2>2, AppendAt
  <2>5. At(q, m) = v
    BY <1>2, <1>5, <2>1, <2>3, <2>4
  <2>6. ASSUME Len(q) = m PROVE FALSE
    <3>1. 0 \in 0..Len(q)
      BY <1>3
    <3>2. At(q, Len(q)) = q
      BY <1>3, <3>1, AtAt
    <3> QED
      BY <1>8, <2>5, <2>6, <3>2
  <2> QED
    BY <1>2, <1>3, <2>2, <2>5, <2>6
<1>9. ASSUME m < Len(q), At(q, m) = v PROVE Below(p, j0, q)
  <2>1. m \in 0..Len(q) /\ n \in 0..m /\ m \in 1..m /\ n < Len(q)
    BY <1>2, <1>3, <1>9
  <2>2. At(At(q, m), n) = At(q, n)
    BY <1>3, <2>1, AtAt
  <2>3. At(q, m)[m] = q[m]
    BY <1>3, <2>1, AtType
  <2> QED
    BY <1>5, <1>6, <1>9, <2>1, <2>2, <2>3
<1>10. ASSUME q = v PROVE Below(p, j0, q)
    BY <1>2, <1>5, <1>6, <1>10
<1> QED
    BY <1>7, <1>8, <1>9, <1>10

\* A frame that does not go on has nothing left to visit.
LEMMA FrameDone ==
    ASSUME Heap(nodes), Tree(nodes), NEW f, f.node \in DOMAIN nodes, ~GoesOn(f),
           NEW j \in f.i..Len(nodes[f.node].next)
    PROVE  f.i \notin Int
<1>1. f.node # NULL /\ f.node # FREED /\ Len(nodes[f.node].next) \in Nat
    BY NodeIs
<1>2. ~(f.i <= Len(nodes[f.node].next))
    BY <1>1 DEF GoesOn
<1> QED
    BY <1>1, <1>2

\* Nothing else than what is visited waits no longer.
LEMMA WaitingEntered ==
    ASSUME Heap(nodes), Tree(nodes), NEW S, save.stack \in Seq(S), StackOK(save.stack), Depth > 1,
           NEW q \in DOMAIN nodes
    PROVE  /\ Visiting \in Waiting(save.stack)
           /\ q \in Waiting(Entered) <=> q \in Waiting(save.stack) /\ q # Visiting
<1> DEFINE stack == save.stack
           path == Trail(stack)
           Some(s, d, r) == \E j \in s[d].i..Len(nodes[s[d].node].next) : Below(s[d].node, j, r)
<1>1. PICK K \in Nat : K = Depth
  <2>1. Depth \in 0..Len(save.stack)
    BY DepthIs
  <2> QED
    BY <2>1
<1>2. PICK v : v = Visiting
    OBVIOUS
<1>3. PICK e : e = Entered
    OBVIOUS
<1>4. PICK i0 : i0 = stack[K].i
    OBVIOUS
<1>5. PICK p : p = At(v, K - 2)
    OBVIOUS
<1>6. /\ K \in 2..Len(stack) /\ Len(stack) \in Nat
      /\ v \in DOMAIN nodes /\ v \in Seq(Letters) /\ Len(v) = K - 1
      /\ p \in DOMAIN nodes
      /\ i0 \in DOMAIN nodes[p].next /\ nodes[p].next[i0] = v[K - 1]
      /\ stack[K] = [node |-> p, i |-> i0]
  <2>1. K > 1
    BY <1>1
  <2>2. VisitIs(stack, K, v)
    BY <1>1, <1>2, <2>1, VisitingIs
  <2> QED
    BY <1>4, <1>5, <2>2 DEF VisitIs
<1>7. /\ Len(e) = K + 1
      /\ \A d \in 1..(K - 1) : e[d] = stack[d]
      /\ e[K] = [stack[K] EXCEPT !.i = @ + 1]
      /\ e[K + 1] = [node |-> v, i |-> 1]
  <2>1. K = Depth /\ K > 0
    BY <1>1
  <2> QED
    BY <1>2, <1>3, <2>1, EnteredIs
<1>8. /\ Len(nodes[p].next) \in Nat /\ Len(nodes[v].next) \in Nat /\ Len(p) \in Nat
      /\ DOMAIN nodes[p].next = 1..Len(nodes[p].next)
    BY <1>6, NodeIs
<1>9. ASSUME NEW r \in DOMAIN nodes
      PROVE  r \in Waiting(stack) <=> \E d \in 2..Len(stack) : Some(stack, d, r)
  <2>1. Len(stack) > 1
    BY <1>6
  <2> QED
    BY <2>1, WaitingIs
<1>10. ASSUME NEW r \in DOMAIN nodes
       PROVE  /\ r \in Waiting(e) <=> \E d \in 2..(K + 1) : Some(e, d, r)
              /\ v \notin Waiting(e)
  <2>1. StackOK(e) /\ (\E T : e \in Seq(T)) /\ Len(e) > 1 /\ Trail(e) = v
    BY <1>2, <1>3, StackEntered
  <2>2. r \in Waiting(e) <=> \E d \in 2..Len(e) : Some(e, d, r)
    BY <2>1, WaitingIs
  <2>3. K - 1 \in 0..(Len(e) - 2)
    BY <1>6, <1>7
  <2>4. At(v, K - 1) \notin Waiting(e)
    BY <2>1, <2>3, NotWaiting
  <2>5. At(v, K - 1) = v
    <3>1. 0 \in 0..Len(v)
      BY <1>6
    <3> QED
      BY <1>6, <3>1, AtAt
  <2> QED
    BY <1>7, <2>2, <2>4, <2>5
<1> HIDE DEF Some
<1>11. \A d \in 2..(K - 1) : \A r : Some(e, d, r) <=> Some(stack, d, r)
  <2>1. \A d \in 2..(K - 1) : e[d] = stack[d]
    BY <1>6, <1>7
  <2> QED
    BY <2>1 DEF Some
<1>12. \A r : Some(stack, K, r) <=> \E j \in i0..Len(nodes[p].next) : Below(p, j, r)
    BY <1>6 DEF Some
<1>13. \A r : Some(e, K, r) <=> \E j \in (i0 + 1)..Len(nodes[p].next) : Below(p, j, r)
  <2>1. e[K].node = p /\ e[K].i = i0 + 1
    BY <1>6, <1>7
  <2> QED
    BY <2>1 DEF Some
<1>14. \A r : Some(e, K + 1, r) <=> \E j \in 1..Len(nodes[v].next) : Below(v, j, r)
  <2>1. e[K + 1].node = v /\ e[K + 1].i = 1
    BY <1>7
  <2> QED
    BY <2>1 DEF Some
<1>15. \A r \in DOMAIN nodes :
          Below(p, i0, r) <=> r = v \/ \E j \in 1..Len(nodes[v].next) : Below(v, j, r)
  <2>1. Len(p) = K - 2
    <3>1. K - 2 \in 0..Len(v)
      BY <1>6
    <3> QED
      BY <1>5, <1>6, <3>1, AtType
  <2>2. Len(v) = Len(p) + 1 /\ At(v, Len(p)) = p /\ v[Len(v)] = nodes[p].next[i0]
    BY <1>5, <1>6, <2>1
  <2> QED
    BY <1>6, <2>2, BelowChild
<1>16. ASSUME NEW d \in (K + 1)..Len(stack), NEW r PROVE ~Some(stack, d, r)
  <2>1. d \in 2..Len(stack) /\ d \in 1..Len(stack) /\ d > K
    BY <1>6
  <2>2. FrameIs(stack, d)
    BY <2>1, StackFrames
  <2>3. stack[d].node \in DOMAIN nodes /\ stack[d].i \in 1..(Len(nodes[stack[d].node].next) + 1)
    BY <2>2 DEF FrameIs
  <2>4. ~GoesOn(stack[d])
    BY <1>1, <2>1, DepthIs
  <2>5. stack[d].i \in Int
    BY <2>3
  <2>6. \A j \in stack[d].i..Len(nodes[stack[d].node].next) : FALSE
    BY <2>3, <2>4, <2>5, FrameDone
  <2> QED
    BY <2>6 DEF Some
<1>17. ASSUME NEW r \in DOMAIN nodes
       PROVE  Some(stack, K, r) <=> Some(e, K, r) \/ Some(e, K + 1, r) \/ r = v
  <2>1. i0 \in Int /\ i0 <= Len(nodes[p].next)
    BY <1>6, <1>8
  <2>2. \A j : j \in i0..Len(nodes[p].next) <=> j = i0 \/ j \in (i0 + 1)..Len(nodes[p].next)
    BY <1>8, <2>1
  <2>3. Some(stack, K, r) <=> Below(p, i0, r) \/ Some(e, K, r)
    BY <1>12, <1>13, <2>2
  <2>4. Below(p, i0, r) <=> r = v \/ Some(e, K + 1, r)
    BY <1>14, <1>15
  <2> QED
    BY <2>3, <2>4
<1>18. \A d : d \in 2..Len(stack) <=> d \in 2..(K - 1) \/ d = K \/ d \in (K + 1)..Len(stack)
    BY <1>6
<1>19. \A d : d \in 2..(K + 1) <=> d \in 2..(K - 1) \/ d = K \/ d = K + 1
    BY <1>6
<1>20. ASSUME NEW r \in DOMAIN nodes
       PROVE  (\E d \in 2..Len(stack) : Some(stack, d, r)) <=>
                 (\E d \in 2..(K - 1) : Some(stack, d, r)) \/ Some(stack, K, r)
    BY <1>16, <1>18
<1>21. ASSUME NEW r \in DOMAIN nodes
       PROVE  (\E d \in 2..(K + 1) : Some(e, d, r)) <=>
                 (\E d \in 2..(K - 1) : Some(stack, d, r)) \/ Some(e, K, r) \/ Some(e, K + 1, r)
    BY <1>11, <1>19
<1>22. v \in Waiting(stack)
    BY <1>6, <1>9, <1>17, <1>20
<1>23. q \in Waiting(e) <=> q \in Waiting(stack) /\ q # v
    BY <1>9, <1>10, <1>17, <1>20, <1>21
<1> QED
    BY <1>2, <1>3, <1>22, <1>23

-----------------------------------------------------------------------------
(* What save() writes of a node leaves the file in order. *)

\* A descent goes on from the root or from a node visited already.
LEMMA Enters ==
    ASSUME Heap(nodes), Tree(nodes), Root \in DOMAIN nodes, NEW S, save.stack \in Seq(S),
           StackOK(save.stack), Depth > 0
    PROVE  /\ StackOK(Entered) /\ Len(Entered) > 1 /\ Trail(Entered) = Visiting
           /\ \E T : Entered \in Seq(T)
           /\ Visiting \in Waiting(save.stack)
           /\ Waiting(Entered) = Waiting(save.stack) \ {Visiting}
           /\ Visiting # Root => Front(Visiting) \in DOMAIN nodes \ Waiting(save.stack)
<1>1. PICK K \in Nat : K = Depth
  <2>1. Depth \in 0..Len(save.stack) /\ Len(save.stack) \in Nat
    BY DepthIs, LenProperties
  <2> QED
    BY <2>1
<1>2. CASE K = 1
  <2>1. /\ StackOK(Entered) /\ Visiting = Root /\ Len(Entered) = 2
        /\ Waiting(save.stack) = DOMAIN nodes
        /\ Waiting(Entered) = Waiting(save.stack) \ {Root}
    BY <1>1, <1>2, EntersFirst
  <2>2. K = Depth /\ K > 0
    BY <1>1, <1>2
  <2>3. (\E T : Entered \in Seq(T)) /\ Trail(Entered) = Visiting
    BY <2>2, EnteredIs
  <2>4. \A n : n = 2 => n > 1
    OBVIOUS
  <2> QED
    BY <2>1, <2>3, <2>4
<1>3. CASE K # 1
  <2>1. K > 1
    BY <1>1, <1>3
  <2>2. VisitIs(save.stack, K, Visiting)
    BY <1>1, <2>1, VisitingIs
  <2>3. StackOK(Entered) /\ Len(Entered) > 1 /\ (\E T : Entered \in Seq(T)) /\ Trail(Entered) = Visiting
    BY <1>1, <2>1, StackEntered
  <2>4. \A q \in DOMAIN nodes :
            q \in Waiting(Entered) <=> q \in Waiting(save.stack) /\ q # Visiting
    BY <1>1, <2>1, WaitingEntered
  <2>5. Waiting(Entered) \subseteq DOMAIN nodes /\ Waiting(save.stack) \subseteq DOMAIN nodes
    BY DEF Waiting
  <2>6. Visiting \in DOMAIN nodes
    BY <2>2 DEF VisitIs
  <2>7. Visiting \in Waiting(save.stack)
    BY <1>1, <2>1, <2>6, WaitingEntered
  <2>8. Waiting(Entered) = Waiting(save.stack) \ {Visiting}
    BY <2>4, <2>5
  <2>9. Front(Visiting) \in DOMAIN nodes \ Waiting(save.stack)
    <3>1. Front(Visiting) = At(Trail(save.stack), K - 2) /\ K \in 2..Len(save.stack)
      BY <2>2 DEF VisitIs
    <3>2. K - 2 \in 0..(Len(save.stack) - 2) /\ Len(save.stack) > 1
      <4>1. Len(save.stack) \in Nat
        BY LenProperties
      <4> QED
        BY <3>1, <4>1
    <3> QED
      BY <3>1, <3>2, NotWaiting
  <2> QED
    BY <2>3, <2>7, <2>8, <2>9
<1> QED
  BY <1>2, <1>3

\* A traversal that is over has visited every node.
LEMMA AllVisited ==
    ASSUME Heap(nodes), Tree(nodes), NEW S, save.stack \in Seq(S), StackOK(save.stack), ~(Depth > 0),
           save.stack # <<>>
    PROVE  Waiting(save.stack) = {}
<1> DEFINE stack == save.stack
<1>1. Len(stack) \in Nat /\ Len(stack) # 0
  <2>1. Len(stack) = 0 => stack = <<>>
    BY LenZero
  <2> QED
    BY <2>1, LenProperties
<1>2. \A d \in 1..Len(stack) : ~GoesOn(stack[d])
  <2>1. PICK K \in Nat : K = Depth
    <3>1. Depth \in 0..Len(stack)
      BY DepthIs
    <3> QED
      BY <1>1, <3>1
  <2>2. K = 0
    BY <2>1
  <2>3. \A d \in 1..Len(stack) : d > K
    BY <1>1, <2>2
  <2> QED
    BY <2>1, <2>3, DepthIs
<1>3. Len(stack) > 1
  <2>1. ASSUME Len(stack) = 1 PROVE FALSE
    <3>1. stack[1] = [node |-> NULL, i |-> IF Len(stack) = 1 THEN 1 ELSE 2]
      BY DEF StackOK
    <3>2. stack[1].node = NULL /\ stack[1].i = 1
      BY <2>1, <3>1
    <3>3. GoesOn(stack[1])
      BY <3>2 DEF GoesOn
    <3>4. 1 \in 1..Len(stack)
      BY <1>1
    <3> QED
      BY <1>2, <3>3, <3>4
  <2>2. \A n \in Nat : n # 0 /\ n # 1 => n > 1
    OBVIOUS
  <2> QED
    BY <1>1, <2>1, <2>2
<1>4. ASSUME NEW d \in 2..Len(stack), NEW j \in stack[d].i..Len(nodes[stack[d].node].next)
      PROVE  FALSE
  <2>1. FrameIs(stack, d)
    BY StackFrames
  <2>2. stack[d].node \in DOMAIN nodes /\ stack[d].i \in 1..(Len(nodes[stack[d].node].next) + 1)
    BY <2>1 DEF FrameIs
  <2>3. d \in 1..Len(stack)
    BY <1>1
  <2>4. ~GoesOn(stack[d])
    BY <1>2, <2>3
  <2>5. stack[d].i \in Int
    BY <2>2
  <2> QED
    BY <2>2, <2>4, <2>5, FrameDone
<1>5. ASSUME NEW q \in Waiting(stack) PROVE FALSE
  <2>1. q \in DOMAIN nodes
    BY DEF Waiting
  <2> QED
    BY <1>3, <1>4, <2>1, WaitingIs
<1> QED
  BY <1>5

\* While the automaton does not change no frame is at a freed node.
LEMMA FramesLive ==
    ASSUME Heap(nodes), Tree(nodes), NEW S, save.stack \in Seq(S), StackOK(save.stack),
           NEW d \in 1..Len(save.stack)
    PROVE  save.stack[d].node # FREED
<1>1. Len(save.stack) \in Nat /\ save.stack # <<>>
  <2>1. save.stack = <<>> => Len(save.stack) = 0
    BY EmptySeq
  <2>2. Len(save.stack) # 0
    BY LenProperties
  <2> QED
    BY <2>1, <2>2, LenProperties
<1>2. CASE d = 1
  <2>1. save.stack[1] = [node |-> NULL, i |-> IF Len(save.stack) = 1 THEN 1 ELSE 2]
    BY <1>1 DEF StackOK
  <2>2. save.stack[1].node = NULL
    BY <2>1
  <2> QED
    BY <1>2, <2>2, PointerAssumption
<1>3. CASE d # 1
  <2>1. d \in 2..Len(save.stack)
    BY <1>1, <1>3
  <2>2. FrameIs(save.stack, d)
    BY <2>1, StackFrames
  <2>3. save.stack[d].node \in DOMAIN nodes
    BY <2>2 DEF FrameIs
  <2> QED
    BY <2>3, NodeIs
<1> QED
  BY <1>2, <1>3

\* A file at the head of the block of p; a buffer whose file is in order.
AtHead(w, p) ==
    \E k0 \in Nat \ {0} :
        /\ Len(w) = k0 + 1 /\ w[k0].type = "address" /\ w[k0].node = p
        /\ \A k \in DOMAIN w : w[k].type = "address" /\ k # k0 => Closed(w, k)

Good(o, S) ==
    /\ IsBuffer(o, S) /\ WrittenOK(Items(o))
    /\ ~o.full => Items(o) # <<>> /\ Unfinished(Items(o))

LEMMA HeadWritten ==
    ASSUME NEW S, NEW o, Good(o, S), o.size \in Nat, NEW outcome \in Outcomes,
           NEW p \in DOMAIN nodes, Address(p) \in S, SavedNode(p) \in S,
           ~o.full => /\ Whole(Items(o)) /\ p \notin Addresses(Items(o))
                      /\ p # Root => Front(p) \in Addresses(Items(o))
    PROVE  LET r == SaveHead(o, p, outcome) IN
           /\ Good(r, S) /\ Sound(r) /\ r.size \in Nat \ {0} /\ r.damaged = o.damaged
           /\ o.full => r.full
           /\ ~r.full => Addresses(Items(r)) = Addresses(Items(o)) \cup {p} /\ AtHead(Items(r), p)
<1>1. PICK r : r = SaveHead(o, p, outcome)
    OBVIOUS
<1>2. PICK w : w = Items(o)
    OBVIOUS
<1>3. PICK t : t = HeadItems(p)
    OBVIOUS
<1>4. PICK u : u = Cat(w, t)
    OBVIOUS
<1>5. IsBuffer(o, S) /\ WrittenOK(w) /\ (~o.full => w # <<>> /\ Unfinished(w))
    BY <1>2 DEF Good
<1>6. Extends(o, t, r, S) /\ r.size \in Nat \ {0} /\ Sound(r)
    BY <1>1, <1>3, <1>5, HeadExtends
<1>7. w \in Seq(S) /\ t \in Seq(S)
    BY <1>2, <1>3, <1>5, ItemsType, HeadIs
<1>8. /\ IsBuffer(r, S) /\ r.damaged = o.damaged
      /\ o.full => r.full /\ r.tokens = o.tokens
      /\ r.full /\ ~o.full => PrefixOf(Items(r), u)
      /\ ~r.full => Items(r) = u
    BY <1>2, <1>4, <1>6 DEF Extends
<1>9. CASE o.full
  <2>1. Items(r) = r.tokens /\ w = o.tokens
    BY <1>2, <1>5, <1>8, <1>9, ItemsType
  <2>2. Items(r) = w
    BY <1>8, <1>9, <2>1
  <2> QED
    BY <1>1, <1>5, <1>6, <1>8, <1>9, <2>2 DEF Good
<1>10. CASE ~o.full
  <2>1. Open(w, S)
    BY <1>5, <1>7, <1>10 DEF Open
  <2>2. Whole(w) /\ p \notin Addresses(w) /\ (p # Root => Front(p) \in Addresses(w))
    BY <1>2, <1>10
  <2>3. /\ Open(u, S) /\ Addresses(u) = Addresses(w) \cup {p}
        /\ Len(u) = Len(w) + 2 /\ Len(w) \in Nat \ {0} /\ DOMAIN u = 1..(Len(w) + 2)
        /\ u[Len(w) + 1].node = p
        /\ \A k \in DOMAIN u : u[k].type = "address" /\ k # Len(w) + 1 => Closed(u, k)
    BY <1>3, <1>4, <2>1, <2>2, HeadAdded
  <2>4. AtHead(u, p)
    <3>1. PICK k0 : k0 = Len(w) + 1
      OBVIOUS
    <3>2. k0 \in Nat \ {0} /\ Len(u) = k0 + 1 /\ k0 = Len(w) + 1
      BY <2>3, <3>1
    <3>3. t[1] = Address(p) /\ Len(t) = 2
      BY <1>3, HeadIs
    <3>4. u[Len(w) + 1] = t[1]
      <4>1. 1 \in Nat \ {0} /\ 1 <= Len(t)
        BY <3>3
      <4>2. Cat(w, t)[Len(w) + 1] = t[1]
        BY <1>7, <4>1, CatRight, Zenon
      <4> QED
        BY <1>4, <4>2
    <3>5. u[k0].type = "address"
      BY <3>2, <3>3, <3>4 DEF Address
    <3> QED
      BY <2>3, <3>2, <3>5 DEF AtHead
  <2>5. u \in Seq(S) /\ WrittenOK(u) /\ u # <<>> /\ Unfinished(u)
    BY <2>3 DEF Open
  <2>6. WrittenOK(Items(r))
    <3>1. CASE r.full
      <4>1. PrefixOf(Items(r), u)
        BY <1>8, <1>10, <3>1
      <4> QED
        BY <2>5, <4>1, PrefixWritten
    <3>2. CASE ~r.full
      BY <1>8, <2>5, <3>2
    <3> QED
      BY <3>1, <3>2
  <2>7. Good(r, S)
    BY <1>8, <2>5, <2>6 DEF Good
  <2>8. ~r.full => Addresses(Items(r)) = Addresses(w) \cup {p} /\ AtHead(Items(r), p)
    BY <1>8, <2>3, <2>4
  <2> QED
    BY <1>1, <1>2, <1>6, <1>8, <1>10, <2>7, <2>8
<1> QED
  BY <1>9, <1>10

\* The bytes that belong to a node.
BytesOf(p) == IF Valued(p) = 1 THEN <<Bytes(nodes[p].output)>> ELSE <<>>

LEMMA TailWritten ==
    ASSUME Heap(nodes), Tree(nodes), NEW S, NEW o, Good(o, S), Sound(o), NEW outcome \in Outcomes,
           NEW p \in DOMAIN nodes, Pairs(p) \in S, Valued(p) = 1 => Bytes(nodes[p].output) \in S,
           Valued(p) = 1 => Bytes(nodes[p].output).size \in Nat, ~o.full => AtHead(Items(o), p)
    PROVE  LET r == SaveTail(o, p, BytesOf(p), outcome) IN
           /\ Good(r, S) /\ r.size \in Nat /\ r.damaged = o.damaged
           /\ o.full => r.full
           /\ ~r.full => Addresses(Items(r)) = Addresses(Items(o)) /\ Whole(Items(r))
<1>0. PICK b : b = BytesOf(p)
    OBVIOUS
<1>1. PICK r : r = SaveTail(o, p, b, outcome)
    OBVIOUS
<1>2. PICK w : w = Items(o)
    OBVIOUS
<1>3. PICK t : t = TailItems(p, b)
    OBVIOUS
<1>4. PICK u : u = Cat(w, t)
    OBVIOUS
<1>5. IsBuffer(o, S) /\ WrittenOK(w) /\ (~o.full => w # <<>> /\ Unfinished(w))
    BY <1>2 DEF Good
<1>6. Extends(o, t, r, S) /\ r.size \in Nat
  <2>1. Len(nodes[p].next) \in Nat /\ (nodes[p].next # <<>> => Len(nodes[p].next) # 0)
    <3>1. nodes[p].next \in Seq(Letters)
      BY NodeIs
    <3> QED
      BY <3>1, LenZero, NodeIs
  <2>2. ASSUME b # <<>> PROVE b = <<b[1]>> /\ b[1] \in S /\ b[1].size \in Nat
    <3>1. Valued(p) = 1
      BY <1>0, <2>2 DEF BytesOf
    <3>2. b = <<Bytes(nodes[p].output)>>
      BY <1>0, <3>1 DEF BytesOf
    <3>3. b[1] = Bytes(nodes[p].output)
      BY <3>2
    <3> QED
      BY <3>1, <3>2, <3>3
  <2> QED
    BY <1>1, <1>3, <1>5, <2>1, <2>2, TailExtends
<1>7. b = IF Valued(p) = 1 THEN <<Bytes(nodes[p].output)>> ELSE <<>>
    BY <1>0 DEF BytesOf
<1>8. w \in Seq(S) /\ t \in Seq(S)
    BY <1>2, <1>3, <1>5, <1>7, ItemsType, TailIs
<1>9. /\ IsBuffer(r, S) /\ r.damaged = o.damaged
      /\ o.full => r.full /\ r.tokens = o.tokens
      /\ r.full /\ ~o.full => PrefixOf(Items(r), u)
      /\ ~r.full => Items(r) = u
    BY <1>2, <1>4, <1>6 DEF Extends
<1>10. CASE o.full
  <2>1. Items(r) = r.tokens /\ w = o.tokens
    BY <1>2, <1>5, <1>9, <1>10, ItemsType
  <2>2. Items(r) = w
    BY <1>9, <1>10, <2>1
  <2> QED
    BY <1>0, <1>1, <1>5, <1>6, <1>9, <1>10, <2>2 DEF Good
<1>11. CASE ~o.full
  <2>1. Open(w, S)
    BY <1>5, <1>8, <1>11 DEF Open
  <2>2. PICK k0 \in Nat \ {0} :
            /\ Len(w) = k0 + 1 /\ w[k0].type = "address" /\ w[k0].node = p
            /\ \A k \in DOMAIN w : w[k].type = "address" /\ k # k0 => Closed(w, k)
    BY <1>2, <1>11 DEF AtHead
  <2>3. Open(u, S) /\ Addresses(u) = Addresses(w) /\ Whole(u)
    <3>1. PICK v : v = Cat(w, TailItems(p, b))
      OBVIOUS
    <3>2. Open(v, S) /\ Addresses(v) = Addresses(w) /\ Whole(v)
      BY <1>7, <2>1, <2>2, <3>1, TailAdded
    <3> QED
      BY <1>3, <1>4, <3>1, <3>2
  <2>4. u \in Seq(S) /\ WrittenOK(u) /\ u # <<>> /\ Unfinished(u)
    BY <2>3 DEF Open
  <2>5. WrittenOK(Items(r))
    <3>1. CASE r.full
      <4>1. PrefixOf(Items(r), u)
        BY <1>9, <1>11, <3>1
      <4> QED
        BY <2>4, <4>1, PrefixWritten
    <3>2. CASE ~r.full
      BY <1>9, <2>4, <3>2
    <3> QED
      BY <3>1, <3>2
  <2>6. Good(r, S)
    BY <1>9, <2>4, <2>5 DEF Good
  <2>7. ~r.full => Addresses(Items(r)) = Addresses(w) /\ Whole(Items(r))
    BY <1>9, <2>3
  <2> QED
    BY <1>0, <1>1, <1>2, <1>6, <1>9, <1>11, <2>6, <2>7
<1> QED
  BY <1>10, <1>11

\* The buffer stays one whatever is written.
LEMMA StoreType ==
    ASSUME NEW S, NEW o, IsBuffer(o, S), NEW token \in S, NEW outcome \in Outcomes
    PROVE  IsBuffer(savebuffer_store(o, token, outcome), S)
<1>1. IsBuffer(savebuffer_flush(o, outcome), S)
    BY FlushExtends DEF Extends
<1>2. <<token>> \in Seq(S)
    OBVIOUS
<1>3. IsBuffer(fwrite(savebuffer_flush(o, outcome), <<token>>, outcome), S)
    BY <1>1, <1>2, FwriteIs
<1>4. IsBuffer(Hold(savebuffer_flush(o, outcome), token), S) /\ IsBuffer(Hold(o, token), S)
    BY <1>1, HoldExtends DEF Extends
<1> QED
    BY <1>3, <1>4 DEF savebuffer_store

LEMMA HeadType ==
    ASSUME NEW S, NEW o, IsBuffer(o, S), NEW p, NEW outcome \in Outcomes,
           Address(p) \in S, SavedNode(p) \in S
    PROVE  IsBuffer(SaveHead(o, p, outcome), S)
<1>1. IsBuffer(savebuffer_acquire(o, Address(p), outcome), S)
    BY AcquireExtends DEF Extends
<1>2. IsBuffer(savebuffer_acquire(savebuffer_acquire(o, Address(p), outcome),
                                  SavedNode(p), outcome), S)
    BY <1>1, AcquireExtends DEF Extends
<1> QED
    BY <1>2 DEF SaveHead

LEMMA TailType ==
    ASSUME NEW S, NEW o, IsBuffer(o, S), NEW p, NEW bytes, NEW outcome \in Outcomes,
           Pairs(p) \in S, bytes # <<>> => bytes[1] \in S
    PROVE  IsBuffer(SaveTail(o, p, bytes, outcome), S)
<1> DEFINE linked == IF nodes[p].next = <<>> THEN o ELSE savebuffer_store(o, Pairs(p), outcome)
           valued == IF bytes = <<>> THEN linked ELSE savebuffer_store(linked, bytes[1], outcome)
<1>1. IsBuffer(linked, S)
    BY StoreType
<1> HIDE DEF linked
<1>2. IsBuffer(valued, S)
    BY <1>1, StoreType
<1> HIDE DEF valued
<1>3. IsBuffer([valued EXCEPT !.nodes_count = @ + 1], S)
    BY <1>2 DEF IsBuffer
<1> QED
    BY <1>3 DEF SaveTail, valued, linked


-----------------------------------------------------------------------------
(* The room in the buffer, whatever the serializer does. *)

LEMMA AcquireRoom ==
    ASSUME NEW S, NEW o, IsBuffer(o, S), o.size \in 0..Capacity, NEW token,
           token.size \in 0..Capacity, NEW outcome \in Outcomes
    PROVE  savebuffer_acquire(o, token, outcome).size \in 0..Capacity
<1> DEFINE f == savebuffer_flush(o, outcome)
<1>1. Capacity \in Nat
    BY SaveAssumption
<1>2. o.size \in Nat /\ token.size \in Nat /\ token.size <= Capacity
    BY <1>1
<1>3. f.size = 0
    BY <1>2, FlushSize
<1>4. DOMAIN f = DOMAIN NewBuffer /\ DOMAIN o = DOMAIN NewBuffer
    BY FlushExtends DEF Extends, IsBuffer
<1> HIDE DEF f
<1>5. Hold(o, token).size = o.size + token.size /\ Hold(f, token).size = token.size
    BY <1>2, <1>3, <1>4, HoldSize
<1>6. savebuffer_acquire(o, token, outcome) =
        IF o.size + token.size > Capacity THEN Hold(f, token) ELSE Hold(o, token)
    BY DEF savebuffer_acquire, f
<1> QED
    BY <1>1, <1>2, <1>5, <1>6

LEMMA StoreRoom ==
    ASSUME NEW S, NEW o, IsBuffer(o, S), o.size \in 0..Capacity, NEW token,
           token.size \in Nat, NEW outcome \in Outcomes
    PROVE  savebuffer_store(o, token, outcome).size \in 0..Capacity
<1> DEFINE f == savebuffer_flush(o, outcome)
           r == savebuffer_store(o, token, outcome)
<1>1. Capacity \in Nat /\ o.size \in Nat
    BY SaveAssumption
<1>2. f.size = 0
    BY <1>1, FlushSize
<1>3. DOMAIN f = DOMAIN NewBuffer /\ DOMAIN o = DOMAIN NewBuffer
    BY FlushExtends DEF Extends, IsBuffer
<1>4. CASE token.size > Capacity
  <2>1. r = fwrite(f, <<token>>, outcome)
    BY <1>4 DEF savebuffer_store
  <2> HIDE DEF f, r
  <2>2. r = [f EXCEPT !.tokens = f.tokens \o <<token>>] \/ \E e : r = [f EXCEPT !.full = TRUE, !.error = e]
    BY <2>1, Zenon DEF fwrite
  <2>3. r.size = f.size
    BY <1>3, <2>2, Zenon DEF NewBuffer
  <2> QED
    BY <1>1, <1>2, <2>3 DEF r
<1>5. CASE ~(token.size > Capacity)
  <2>1. r = IF o.size + token.size >= Capacity THEN Hold(f, token) ELSE Hold(o, token)
    BY <1>5 DEF savebuffer_store
  <2> HIDE DEF f, r
  <2>2. Hold(o, token).size = o.size + token.size /\ Hold(f, token).size = token.size
    BY <1>2, <1>3, HoldSize
  <2>3. r.size \in 0..Capacity
    BY <1>1, <1>5, <2>1, <2>2
  <2> QED
    BY <2>3 DEF r
<1> QED
    BY <1>4, <1>5

LEMMA HeadRoom ==
    ASSUME NEW S, NEW o, IsBuffer(o, S), o.size \in 0..Capacity, NEW p, NEW outcome \in Outcomes,
           Address(p) \in S, SavedNode(p) \in S
    PROVE  SaveHead(o, p, outcome).size \in 0..Capacity
<1> DEFINE a == savebuffer_acquire(o, Address(p), outcome)
<1>1. Address(p).size \in 0..Capacity /\ SavedNode(p).size \in 0..Capacity
    BY SaveAssumption DEF Address, SavedNode, sizeof_pointer, PICKLE_TRIENODE_SIZE, sizeof_Header
<1>2. IsBuffer(a, S)
    BY AcquireExtends DEF Extends
<1>3. a.size \in 0..Capacity
    BY <1>1, AcquireRoom
<1>4. SaveHead(o, p, outcome) = savebuffer_acquire(a, SavedNode(p), outcome)
    BY DEF SaveHead
<1> HIDE DEF a
<1> QED
    BY <1>1, <1>2, <1>3, <1>4, AcquireRoom

LEMMA TailRoom ==
    ASSUME NEW S, NEW o, IsBuffer(o, S), o.size \in 0..Capacity, NEW p, NEW bytes,
           NEW outcome \in Outcomes, Len(nodes[p].next) \in Nat, Pairs(p) \in S,
           bytes # <<>> => bytes[1] \in S /\ bytes[1].size \in Nat
    PROVE  SaveTail(o, p, bytes, outcome).size \in 0..Capacity
<1> DEFINE linked == IF nodes[p].next = <<>> THEN o ELSE savebuffer_store(o, Pairs(p), outcome)
           valued == IF bytes = <<>> THEN linked ELSE savebuffer_store(linked, bytes[1], outcome)
<1>1. Pairs(p).size \in Nat
    BY DEF Pairs, sizeof_Pair
<1>2. IsBuffer(linked, S) /\ linked.size \in 0..Capacity
    BY <1>1, StoreExtends, StoreRoom
<1> HIDE DEF linked
<1>3. IsBuffer(valued, S) /\ valued.size \in 0..Capacity
    BY <1>2, StoreExtends, StoreRoom
<1>4. SaveTail(o, p, bytes, outcome) = [valued EXCEPT !.nodes_count = @ + 1]
    BY DEF SaveTail, linked
<1> HIDE DEF valued
<1> QED
    BY <1>3, <1>4 DEF IsBuffer, NewBuffer

\* The header and the footer fit.
LEMMA HeaderRoom ==
    ASSUME NEW r, r = savebuffer_store(NewBuffer, Header, "written")
    PROVE  r.size \in 0..Capacity
<1>1. NewBuffer.tokens = <<>> /\ NewBuffer.held = <<>> /\ NewBuffer.size = 0
    BY DEF NewBuffer
<1>2. IsBuffer(NewBuffer, {Header}) /\ NewBuffer.size \in 0..Capacity
    BY <1>1, SaveAssumption, EmptySeq DEF IsBuffer
<1>3. Header.size \in Nat /\ "written" \in Outcomes
    BY DEF Header, sizeof_Header, Outcomes
<1> QED
    BY <1>2, <1>3, StoreRoom

LEMMA SameFrames ==
    ASSUME FramesOK, save' = save, output' = output, UNCHANGED nodes \/ ~Running
    PROVE  FramesOK'
<1>1. Running' <=> Running
    BY DEF Running
<1> QED
    BY <1>1 DEF FramesOK

LEMMA FramesBegin ==
    ASSUME automaton_save, kind # "EMPTY" => Root \in DOMAIN nodes PROVE FramesOK'
<1>1. PICK r : r = output'
    OBVIOUS
<1>2. PICK f : f = [node |-> NULL, i |-> 1]
    OBVIOUS
<1>3. r.size \in 0..Capacity
    BY <1>1, HeaderRoom DEF automaton_save
<1>4. /\ save' = IF kind = "EMPTY" THEN [NewSave EXCEPT !.stack = <<>>] ELSE NewSave
      /\ nodes' = nodes
    BY DEF automaton_save, unsaved, object
<1>5. /\ save'.stack = (IF kind = "EMPTY" THEN <<>> ELSE <<f>>)
      /\ save'.at = "next" /\ save'.bytes = <<>>
    BY <1>2, <1>4 DEF NewSave
<1>6. <<f>> \in Seq({f}) /\ Len(<<f>>) = 1 /\ DOMAIN <<f>> = {1} /\ <<f>>[1] = f
      /\ <<>> \in Seq({f}) /\ DOMAIN <<>> = {}
    OBVIOUS
<1>7. save'.stack \in Seq({f})
    BY <1>5, <1>6
<1>8. ASSUME NEW k \in DOMAIN save'.stack
      PROVE  /\ kind # "EMPTY" /\ k = 1 /\ save'.stack[k] = f /\ Len(save'.stack) = 1
             /\ Root \in DOMAIN nodes'
    BY <1>4, <1>5, <1>6, <1>8
<1>9. f = [node |-> f.node, i |-> f.i] /\ f.node = NULL /\ f.i = 1
    BY <1>2
<1> QED
    BY <1>1, <1>3, <1>5, <1>7, <1>8, <1>9 DEF FramesOK

\* A node is entered: a child of the frame's node, or the root.
LEMMA FramesEnter ==
    ASSUME FramesOK, Heap(nodes), Tree(nodes), DOMAIN save = DOMAIN NewSave,
           store = "ANY" => \A p \in DOMAIN nodes : nodes[p].eow => nodes[p].output \in Objects,
           NEW S0, IsBuffer(output, S0), automaton_save_node
    PROVE  FramesOK'
<1>1. PICK v : v = Visiting
    OBVIOUS
<1>2. PICK e : e = Entered
    OBVIOUS
<1>3. PICK s : s = save.stack
    OBVIOUS
<1>4. save.at = "next" /\ Running /\ Depth > 0 /\ Frame.node # FREED /\ nodes' = nodes
    BY DEF automaton_save_node, Running, unsaved, object
<1>5. /\ output.size \in 0..Capacity /\ \E T : s \in Seq(T)
      /\ save.bytes # <<>> => save.bytes = <<save.bytes[1]>> /\ save.bytes[1].size \in Nat
      /\ \A k \in DOMAIN s :
            /\ s[k] = [node |-> s[k].node, i |-> s[k].i]
            /\ s[k].i \in Nat \ {0} /\ s[k].node \in DOMAIN nodes \cup {NULL, FREED}
            /\ s[k].node = NULL => k = 1
            /\ s[k].node = NULL /\ s[k].i = 1 => Len(s) = 1 /\ Root \in DOMAIN nodes
    BY <1>3, <1>4 DEF FramesOK
<1>6. PICK T : s \in Seq(T)
    BY <1>5
<1>7. PICK K : K = Depth
    OBVIOUS
<1>8. PICK D \in Nat : D = Len(s)
    BY <1>6, LenProperties
<1>9. DOMAIN s = 1..D
    BY <1>6, <1>8, LenProperties
<1>10. K \in 1..D /\ GoesOn(s[K])
  <2>1. Depth \in 0..Len(save.stack) /\ (Depth > 0 => GoesOn(save.stack[Depth]))
    BY <1>3, <1>6, DepthIs
  <2> QED
    BY <1>3, <1>4, <1>7, <1>8, <2>1
<1>11. s[K].node # FREED
    BY <1>3, <1>4, <1>7 DEF Frame
<1>12. v \in DOMAIN nodes
  <2>1. CASE s[K].node = NULL
    <3>1. s[K].i = 1
      BY <1>10, <2>1, PointerAssumption DEF GoesOn
    <3>2. v = Root
      BY <1>1, <1>3, <1>7, <2>1 DEF Visiting, Frame
    <3> QED
      BY <1>5, <1>9, <1>10, <2>1, <3>1, <3>2
  <2>2. CASE s[K].node # NULL
    <3>1. PICK p : p = s[K].node
      OBVIOUS
    <3>2. PICK j \in Nat \ {0} : j = s[K].i
      BY <1>5, <1>9, <1>10
    <3>3. p \in DOMAIN nodes /\ p # NULL /\ p # FREED
      BY <1>5, <1>9, <1>10, <1>11, <2>2, <3>1
    <3>4. j <= Len(nodes[p].next)
      BY <1>10, <3>1, <3>2, <3>3 DEF GoesOn
    <3>5. v = Append(p, nodes[p].next[j])
      BY <1>1, <1>3, <1>7, <2>2, <3>1, <3>2 DEF Visiting, Frame
    <3>6. nodes[p].next \in Seq(Letters)
      BY <3>3 DEF Heap, TrieNode
    <3>7. j \in DOMAIN nodes[p].next
      <4>1. Len(nodes[p].next) \in Nat /\ DOMAIN nodes[p].next = 1..Len(nodes[p].next)
        BY <3>6, LenProperties
      <4> QED
        BY <3>2, <3>4, <4>1
    <3> QED
      BY <3>3, <3>5, <3>7 DEF Tree, LinksLive, ToSet
  <2> QED
    BY <2>1, <2>2
<1>13. /\ Len(e) = K + 1
       /\ \A d \in 1..(K - 1) : e[d] = s[d]
       /\ e[K] = [s[K] EXCEPT !.i = @ + 1]
       /\ e[K + 1] = [node |-> v, i |-> 1]
       /\ \E U : e \in Seq(U)
  <2>1. K > 0
    BY <1>10
  <2> QED
    BY <1>1, <1>2, <1>3, <1>6, <1>7, <2>1, EnteredIs
<1>14. DOMAIN e = 1..(K + 1)
    BY <1>13, LenProperties
<1>15. ASSUME NEW k \in DOMAIN e
       PROVE  /\ e[k] = [node |-> e[k].node, i |-> e[k].i]
              /\ e[k].i \in Nat \ {0} /\ e[k].node \in DOMAIN nodes \cup {NULL, FREED}
              /\ e[k].node = NULL => k = 1
              /\ ~(e[k].node = NULL /\ e[k].i = 1)
  <2>1. CASE k = K + 1
    <3>1. v # NULL
      BY <1>12, PointerAssumption DEF Heap
    <3> QED
      BY <1>12, <1>13, <2>1, <3>1
  <2>2. CASE k = K
    <3>1. PICK f : f = s[K]
      OBVIOUS
    <3>2. PICK n \in Nat \ {0} : n = f.i
      BY <1>5, <1>9, <1>10, <3>1
    <3>3. f = [node |-> f.node, i |-> n]
      BY <1>5, <1>9, <1>10, <3>1, <3>2
    <3>4. e[k] = [node |-> f.node, i |-> n + 1]
      BY <1>13, <2>2, <3>1, <3>3
    <3>5. n + 1 \in Nat \ {0} /\ n + 1 # 1
      BY <3>2
    <3> QED
      BY <1>5, <1>9, <1>10, <2>2, <3>1, <3>4, <3>5
  <2>3. CASE k \in 1..(K - 1)
    <3>1. e[k] = s[k] /\ k \in DOMAIN s /\ D # 1
      BY <1>8, <1>9, <1>10, <1>13, <2>3
    <3>2. ~(s[k].node = NULL /\ s[k].i = 1)
      BY <1>5, <1>8, <3>1
    <3> QED
      BY <1>5, <3>1, <3>2
  <2> QED
    BY <1>10, <1>14, <2>1, <2>2, <2>3
<1>16. PICK r : r = output'
    OBVIOUS
<1>17. PICK outcome \in Outcomes :
        LET head == SaveHead(output, v, outcome)
        IN  IF nodes[v].eow /\ store = "ANY"
            THEN /\ r = head
                 /\ save' = [save EXCEPT !.at = "serializer", !.stack = e,
                                         !.bytes = <<Bytes(nodes[v].output)>>]
            ELSE /\ r = SaveTail(head, v, <<>>, outcome)
                 /\ save' = [save EXCEPT !.stack = e]
    BY <1>1, <1>2, <1>16 DEF automaton_save_node
<1>18. r.size \in 0..Capacity
  <2>1. PICK h : h = SaveHead(output, v, outcome)
    OBVIOUS
  <2>2. PICK S : S = S0 \cup {Address(v), SavedNode(v), Pairs(v)}
    OBVIOUS
  <2>3. IsBuffer(output, S) /\ Address(v) \in S /\ SavedNode(v) \in S /\ Pairs(v) \in S
    BY <2>2, Widen
  <2>4. IsBuffer(h, S) /\ h.size \in 0..Capacity
    BY <1>5, <2>1, <2>3, HeadType, HeadRoom
  <2>5. Len(nodes[v].next) \in Nat
    BY <1>12, LenProperties DEF Heap, TrieNode
  <2>6. SaveTail(h, v, <<>>, outcome).size \in 0..Capacity
    BY <2>3, <2>4, <2>5, TailRoom
  <2> QED
    BY <1>17, <2>1, <2>4, <2>6
<1>19. ASSUME nodes[v].eow, store = "ANY"
       PROVE  Bytes(nodes[v].output).size \in Nat
    BY <1>12, <1>19, SaveAssumption DEF Bytes
<1>20. DOMAIN save = {"at", "stack", "bytes", "called"}
    BY DEF NewSave
<1>21. /\ save'.stack = e
       /\ save'.bytes = save.bytes \/ \E b : save'.bytes = <<b>> /\ b.size \in Nat
    BY <1>17, <1>19, <1>20
<1>22. save'.bytes # <<>> => save'.bytes = <<save'.bytes[1]>> /\ save'.bytes[1].size \in Nat
    BY <1>5, <1>21
<1>23. Len(e) > 1
    BY <1>10, <1>13
<1> QED
    BY <1>4, <1>13, <1>15, <1>16, <1>18, <1>21, <1>22, <1>23 DEF FramesOK

\* Its serializer returns: the value is written, from a node that is still there.
LEMMA FramesReturn ==
    ASSUME FramesOK, Heap(nodes), DOMAIN save = DOMAIN NewSave, NEW S0, IsBuffer(output, S0),
           SerializerReturns
    PROVE  FramesOK'
<1>1. PICK p : p = Last(save.stack).node
    OBVIOUS
<1>2. PICK b : b = save.bytes
    OBVIOUS
<1>3. PICK r : r = output'
    OBVIOUS
<1>4. PICK s : s = save.stack
    OBVIOUS
<1>5. /\ save.at = "serializer" /\ Running /\ p # FREED /\ nodes' = nodes
      /\ save' = [save EXCEPT !.at = "next", !.bytes = <<>>]
    BY <1>1 DEF SerializerReturns, Running, unsaved, object
<1>6. PICK outcome \in Outcomes : r = SaveTail(output, p, b, outcome)
    BY <1>1, <1>2, <1>3 DEF SerializerReturns
<1>7. /\ output.size \in 0..Capacity /\ Len(s) > 1
      /\ b # <<>> => b = <<b[1]>> /\ b[1].size \in Nat
      /\ \A k \in DOMAIN s :
            /\ s[k] = [node |-> s[k].node, i |-> s[k].i]
            /\ s[k].i \in Nat \ {0} /\ s[k].node \in DOMAIN nodes \cup {NULL, FREED}
            /\ s[k].node = NULL => k = 1
            /\ s[k].node = NULL /\ s[k].i = 1 => Len(s) = 1 /\ Root \in DOMAIN nodes
    BY <1>2, <1>4, <1>5 DEF FramesOK
<1>8. PICK T : s \in Seq(T)
    BY <1>4, <1>5 DEF FramesOK
<1>9. p \in DOMAIN nodes
  <2>1. PICK D \in Nat : D = Len(s)
    BY <1>8, LenProperties
  <2>2. DOMAIN s = 1..D /\ D \in 1..D /\ D # 1
    BY <1>7, <1>8, <2>1, LenProperties
  <2>3. p = s[D].node
    BY <1>1, <1>4, <2>1 DEF Last
  <2> QED
    BY <1>5, <1>7, <2>2, <2>3
<1>10. r.size \in 0..Capacity
  <2>1. PICK S : S = S0 \cup {Pairs(p), b[1]}
    OBVIOUS
  <2>2. IsBuffer(output, S) /\ Pairs(p) \in S /\ b[1] \in S
    BY <2>1, Widen
  <2>3. Len(nodes[p].next) \in Nat
    BY <1>9, LenProperties DEF Heap, TrieNode
  <2> QED
    BY <1>6, <1>7, <2>2, <2>3, TailRoom
<1>11. DOMAIN save = {"at", "stack", "bytes", "called"}
    BY DEF NewSave
<1>12. save'.at = "next" /\ save'.stack = s /\ save'.bytes = <<>>
    BY <1>4, <1>5, <1>11
<1> QED
    BY <1>3, <1>5, <1>7, <1>8, <1>10, <1>12 DEF FramesOK

\* It raises.
LEMMA FramesRaise ==
    ASSUME FramesOK, DOMAIN save = DOMAIN NewSave, NEW S, IsBuffer(output, S), SerializerRaises
    PROVE  FramesOK'
<1>1. /\ Running /\ nodes' = nodes
      /\ output' = [output EXCEPT !.error = "SerializerError"]
      /\ save' = [save EXCEPT !.at = "exception"]
    BY DEF SerializerRaises, Running, unsaved, object
<1>2. DOMAIN save = {"at", "stack", "bytes", "called"} /\ DOMAIN output = DOMAIN NewBuffer
    BY DEF NewSave, IsBuffer
<1>3. /\ save'.at = "exception" /\ save'.stack = save.stack /\ save'.bytes = save.bytes
      /\ output'.size = output.size
    BY <1>1, <1>2 DEF NewBuffer
<1> QED
    BY <1>1, <1>3 DEF FramesOK

\* It adds nodes or frees some: their frames are freed.
LEMMA FramesCall ==
    ASSUME FramesOK, DOMAIN save = DOMAIN NewSave, NULL \notin DOMAIN nodes, SerializerCalls
    PROVE  FramesOK'
<1> DEFINE s == save.stack
           gone == DOMAIN nodes \ DOMAIN nodes'
<1>1. s = save.stack
    OBVIOUS
<1>2. PICK e : e = save'.stack
    OBVIOUS
<1>3. gone = DOMAIN nodes \ DOMAIN nodes'
    OBVIOUS
<1>4. /\ save.at = "serializer" /\ Running /\ output' = output
      /\ save' = [save EXCEPT !.called = TRUE,
                              !.stack = Dangling(s, gone)]
  <2>1. /\ save.at = "serializer" /\ output' = output
        /\ save' = [save EXCEPT !.called = TRUE,
                                !.stack = Dangling(s, gone)]
    BY DEF SerializerCalls
  <2> QED
    BY <2>1 DEF Running
<1> HIDE DEF s, gone
<1>5. /\ output.size \in 0..Capacity /\ Len(s) > 1
      /\ save.bytes # <<>> => save.bytes = <<save.bytes[1]>> /\ save.bytes[1].size \in Nat
      /\ \A k \in DOMAIN s :
            /\ s[k] = [node |-> s[k].node, i |-> s[k].i]
            /\ s[k].i \in Nat \ {0} /\ s[k].node \in DOMAIN nodes \cup {NULL, FREED}
            /\ s[k].node = NULL => k = 1
            /\ s[k].node = NULL /\ s[k].i = 1 => Len(s) = 1
    BY <1>1, <1>4 DEF FramesOK
<1>6. PICK T : s \in Seq(T)
    BY <1>1, <1>4 DEF FramesOK
<1>7. DOMAIN save = {"at", "stack", "bytes", "called"}
    BY DEF NewSave
<1>8. /\ save'.at = "serializer" /\ save'.bytes = save.bytes
      /\ e = [k \in DOMAIN s |-> [s[k] EXCEPT !.node = Dangle(@, gone)]]
  <2>1. save'.at = "serializer" /\ save'.bytes = save.bytes /\ e = Dangling(s, gone)
    BY <1>2, <1>4, <1>7
  <2> QED
    BY <2>1 DEF Dangling
<1>9. PICK D \in Nat : D = Len(s) /\ DOMAIN s = 1..D
    BY <1>6, LenProperties
<1>10. ASSUME NEW k \in DOMAIN s
       PROVE  /\ e[k] = [node |-> Dangle(s[k].node, gone), i |-> s[k].i]
              /\ Dangle(s[k].node, gone) \in DOMAIN nodes' \cup {NULL, FREED}
              /\ Dangle(s[k].node, gone) = NULL => s[k].node = NULL
  <2>1. PICK f : f = s[k]
    OBVIOUS
  <2>2. f = [node |-> f.node, i |-> f.i] /\ f.node \in DOMAIN nodes \cup {NULL, FREED}
    BY <1>5, <2>1
  <2>3. e[k] = [f EXCEPT !.node = Dangle(f.node, gone)]
    BY <1>8, <2>1
  <2>4. e[k] = [node |-> Dangle(f.node, gone), i |-> f.i]
    BY <2>2, <2>3
  <2>5. /\ Dangle(f.node, gone) \in DOMAIN nodes' \cup {NULL, FREED}
        /\ Dangle(f.node, gone) = NULL => f.node = NULL
    BY <1>3, <2>2, PointerAssumption DEF Dangle
  <2> QED
    BY <2>1, <2>4, <2>5
<1>11. PICK U : U = {e[k] : k \in DOMAIN s}
    OBVIOUS
<1>12. DOMAIN e = DOMAIN s /\ \A k \in DOMAIN s : e[k] \in U
    BY <1>8, <1>11
<1>13. e \in Seq(U) /\ Len(e) = D
  <2>1. e = [k \in 1..D |-> e[k]] /\ \A k \in 1..D : e[k] \in U
    BY <1>8, <1>9, <1>12
  <2> QED
    BY <2>1, LenProperties
<1>14. ASSUME NEW k \in DOMAIN e
       PROVE  /\ e[k] = [node |-> e[k].node, i |-> e[k].i]
              /\ e[k].i \in Nat \ {0} /\ e[k].node \in DOMAIN nodes' \cup {NULL, FREED}
              /\ e[k].node = NULL => k = 1
              /\ ~(e[k].node = NULL /\ e[k].i = 1)
  <2>1. k \in DOMAIN s
    BY <1>12
  <2>2. PICK n, j : n = Dangle(s[k].node, gone) /\ j = s[k].i
    OBVIOUS
  <2>3. e[k] = [node |-> n, i |-> j] /\ n \in DOMAIN nodes' \cup {NULL, FREED}
        /\ (n = NULL => s[k].node = NULL)
    BY <1>10, <2>1, <2>2
  <2>4. Len(s) # 1
    <3>1. Len(s) > 1
      BY <1>5
    <3>2. D > 1
      BY <1>9, <3>1
    <3> QED
      BY <1>9, <3>2
  <2> QED
    BY <1>5, <2>1, <2>2, <2>3, <2>4
<1>15. Len(e) > 1
    BY <1>5, <1>9, <1>13
<1> QED
    BY <1>2, <1>4, <1>5, <1>8, <1>13, <1>14, <1>15 DEF FramesOK

\* It ends, or the error is looked at.
LEMMA FramesEnd ==
    ASSUME FramesOK, DOMAIN save = DOMAIN NewSave, TraversalDone \/ ExceptionRaised
    PROVE  FramesOK'
<1>1. CASE save' = [save EXCEPT !.at = "exception"] /\ output' = output /\ nodes' = nodes
           /\ save.at = "next"
  <2>1. DOMAIN save = {"at", "stack", "bytes", "called"} /\ Running
    BY <1>1 DEF NewSave, Running
  <2>2. save'.at = "exception" /\ save'.stack = save.stack /\ save'.bytes = save.bytes
    BY <1>1, <2>1
  <2> QED
    BY <1>1, <2>1, <2>2 DEF FramesOK
<1>2. CASE save' = [at |-> "done", called |-> save.called]
    BY <1>2 DEF FramesOK, Running
<1> QED
    BY <1>1, <1>2 DEF TraversalDone, ExceptionRaised, Finalize, unsaved, object

-----------------------------------------------------------------------------
(* What is reported of a write, and what a finished file holds. *)

\* A write that fails is reported now, or later, or never; the disk is full then.
Reported(o, r) ==
    /\ r.error = o.error \/ (r.error = "IOError" /\ r.full)
    /\ o.full => r.full
    /\ r.damaged = o.damaged
    /\ DOMAIN r = DOMAIN NewBuffer

LEMMA ReportedTwice ==
    ASSUME NEW o, NEW r, NEW s, Reported(o, r), Reported(r, s)
    PROVE  Reported(o, s)
BY DEF Reported

LEMMA FwriteReports ==
    ASSUME NEW o, DOMAIN o = DOMAIN NewBuffer, NEW items, NEW outcome
    PROVE  Reported(o, fwrite(o, items, outcome))
<1> DEFINE r == fwrite(o, items, outcome)
<1>1. CASE outcome = "written" /\ ~o.full
  <2>1. r = [o EXCEPT !.tokens = o.tokens \o items]
    BY <1>1 DEF fwrite
  <2> QED
    BY <2>1 DEF Reported, NewBuffer
<1>2. CASE ~(outcome = "written" /\ ~o.full)
  <2>1. r = [o EXCEPT !.full = TRUE, !.error = IF outcome = "error" THEN "IOError" ELSE o.error]
    BY <1>2 DEF fwrite
  <2> QED
    BY <2>1 DEF Reported, NewBuffer
<1> QED
    BY <1>1, <1>2

LEMMA FlushReports ==
    ASSUME NEW o, DOMAIN o = DOMAIN NewBuffer, NEW outcome
    PROVE  Reported(o, savebuffer_flush(o, outcome))
<1> DEFINE r == savebuffer_flush(o, outcome)
           f == fwrite(o, o.held, outcome)
<1>1. CASE o.size = 0
    BY <1>1 DEF savebuffer_flush, Reported
<1>2. CASE o.size # 0
  <2>1. r = [f EXCEPT !.held = <<>>, !.size = 0]
    BY <1>2 DEF savebuffer_flush
  <2>2. Reported(o, f)
    BY FwriteReports
  <2> HIDE DEF f
  <2> QED
    BY <2>1, <2>2 DEF Reported, NewBuffer
<1> QED
    BY <1>1, <1>2

LEMMA HoldReports ==
    ASSUME NEW o, DOMAIN o = DOMAIN NewBuffer, NEW token
    PROVE  Reported(o, Hold(o, token))
BY DEF Hold, Reported, NewBuffer

LEMMA StoreReports ==
    ASSUME NEW o, DOMAIN o = DOMAIN NewBuffer, NEW token, NEW outcome
    PROVE  /\ Reported(o, savebuffer_acquire(o, token, outcome))
           /\ Reported(o, savebuffer_store(o, token, outcome))
<1> DEFINE f == savebuffer_flush(o, outcome)
<1>1. Reported(o, f) /\ DOMAIN f = DOMAIN NewBuffer
    BY FlushReports DEF Reported
<1> HIDE DEF f
<1>2. Reported(o, Hold(o, token)) /\ Reported(f, Hold(f, token))
      /\ Reported(f, fwrite(f, <<token>>, outcome))
    BY <1>1, HoldReports, FwriteReports
<1>3. Reported(o, Hold(f, token)) /\ Reported(o, fwrite(f, <<token>>, outcome))
    BY <1>1, <1>2, ReportedTwice
<1>4. /\ savebuffer_acquire(o, token, outcome) \in {Hold(f, token), Hold(o, token)}
      /\ savebuffer_store(o, token, outcome) \in
            {Hold(f, token), Hold(o, token), fwrite(f, <<token>>, outcome)}
    BY DEF savebuffer_acquire, savebuffer_store, f
<1> QED
    BY <1>2, <1>3, <1>4

LEMMA HeadReports ==
    ASSUME NEW o, DOMAIN o = DOMAIN NewBuffer, NEW p, NEW outcome
    PROVE  Reported(o, SaveHead(o, p, outcome))
<1> DEFINE a == savebuffer_acquire(o, Address(p), outcome)
<1>1. Reported(o, a) /\ DOMAIN a = DOMAIN NewBuffer
    BY StoreReports DEF Reported
<1>2. SaveHead(o, p, outcome) = savebuffer_acquire(a, SavedNode(p), outcome)
    BY DEF SaveHead
<1> HIDE DEF a
<1> QED
    BY <1>1, <1>2, StoreReports, ReportedTwice

LEMMA TailReports ==
    ASSUME NEW o, DOMAIN o = DOMAIN NewBuffer, NEW p, NEW bytes, NEW outcome
    PROVE  Reported(o, SaveTail(o, p, bytes, outcome))
<1> DEFINE linked == IF nodes[p].next = <<>> THEN o ELSE savebuffer_store(o, Pairs(p), outcome)
           valued == IF bytes = <<>> THEN linked ELSE savebuffer_store(linked, bytes[1], outcome)
<1>1. Reported(o, o)
    BY DEF Reported
<1>2. Reported(o, linked) /\ DOMAIN linked = DOMAIN NewBuffer
    BY <1>1, StoreReports DEF Reported
<1>3. SaveTail(o, p, bytes, outcome) = [valued EXCEPT !.nodes_count = @ + 1]
    BY DEF SaveTail
<1> HIDE DEF linked
<1>4. Reported(linked, linked) /\ Reported(linked, savebuffer_store(linked, bytes[1], outcome))
    BY <1>2, StoreReports DEF Reported
<1>5. Reported(o, valued)
    BY <1>2, <1>4, ReportedTwice
<1> HIDE DEF valued
<1> QED
    BY <1>3, <1>5 DEF Reported, NewBuffer

\* The form of what is written, whatever the serializer does.
TokenOK(t) ==
    /\ t.type = "node" => DOMAIN t = NodeFields
    /\ t.type = "pairs" =>
        DOMAIN t = PairsFields /\ \A j \in DOMAIN t.next : DOMAIN t.next[j] = {"letter", "child"}

Inner(S) == \A t \in S : TokenOK(t) /\ t.type # "footer"

LEMMA TokensAre ==
    ASSUME NEW p, NEW v
    PROVE  /\ Inner({Header, Address(p), SavedNode(p), Pairs(p), Bytes(v)})
           /\ TokenOK(Footer) /\ Footer.type = "footer" /\ Bytes(v).type = "bytes"
<1>1. TokenOK(Header) /\ Header.type # "footer"
    BY DEF TokenOK, Header
<1>2. TokenOK(Address(p)) /\ Address(p).type # "footer"
    BY DEF TokenOK, Address
<1>3. TokenOK(SavedNode(p)) /\ SavedNode(p).type # "footer"
    BY DEF TokenOK, SavedNode, NodeFields
<1>4. TokenOK(Pairs(p)) /\ Pairs(p).type # "footer"
  <2>1. PICK next : next = [j \in DOMAIN nodes[p].next |->
                [letter |-> nodes[p].next[j], child |-> Append(p, nodes[p].next[j])]]
    OBVIOUS
  <2>2. \A j \in DOMAIN next : DOMAIN next[j] = {"letter", "child"}
    BY <2>1
  <2>3. Pairs(p) = [type |-> "pairs", size |-> sizeof_Pair * Len(nodes[p].next), next |-> next]
    BY <2>1 DEF Pairs
  <2> QED
    BY <2>2, <2>3 DEF TokenOK, PairsFields
<1>5. TokenOK(Bytes(v)) /\ Bytes(v).type = "bytes"
    BY DEF TokenOK, Bytes
<1>6. TokenOK(Footer) /\ Footer.type = "footer"
    BY DEF TokenOK, Footer
<1> QED
    BY <1>1, <1>2, <1>3, <1>4, <1>5, <1>6 DEF Inner

\* A running save() has reported every error it knows of, and written no footer yet.
WritingOK ==
    Running =>
        /\ output.damaged = FALSE
        /\ \E S : IsBuffer(output, S) /\ Inner(S)
        /\ save.bytes # <<>> => save.bytes[1].type = "bytes"
        /\ output.error = "IOError" => output.full
        /\ IF save.at = "exception" THEN output.error \in {"IOError", "SerializerError"}
           ELSE output.error \in {"none", "IOError"}

\* A step that writes more.
LEMMA WritesOn ==
    ASSUME WritingOK, Running, save.at # "exception", save'.at \in {"next", "serializer"},
           NEW r, r = output', NEW S, IsBuffer(r, S), Inner(S), Reported(output, r),
           save'.bytes # <<>> => save'.bytes[1].type = "bytes"
    PROVE  WritingOK'
<1>1. /\ output.damaged = FALSE /\ output.error \in {"none", "IOError"}
      /\ output.error = "IOError" => output.full
    BY DEF WritingOK
<1>2. /\ r.damaged = FALSE /\ r.error \in {"none", "IOError"}
      /\ r.error = "IOError" => r.full
    BY <1>1 DEF Reported
<1>3. (\E T : IsBuffer(output, T) /\ Inner(T))'
  <2>1. \E T : IsBuffer(r, T) /\ \A t \in T : TokenOK(t) /\ t.type # "footer"
    BY DEF Inner
  <2> QED
    BY <2>1 DEF IsBuffer, Inner, TokenOK
<1> QED
    BY <1>2, <1>3 DEF WritingOK

LEMMA WritingBegins ==
    ASSUME automaton_save PROVE WritingOK'
<1>1. PICK r : r = output' /\ r = savebuffer_store(NewBuffer, Header, "written")
    BY DEF automaton_save
<1>2. NewBuffer.tokens = <<>> /\ NewBuffer.held = <<>> /\ NewBuffer.error = "none"
      /\ NewBuffer.damaged = FALSE
    BY DEF NewBuffer
<1>3. IsBuffer(NewBuffer, {Header})
    BY <1>2, EmptySeq DEF IsBuffer
<1>4. "written" \in Outcomes
    BY DEF Outcomes
<1>5. IsBuffer(r, {Header})
    BY <1>1, <1>3, <1>4, StoreType
<1>6. Reported(NewBuffer, r)
    BY <1>1, StoreReports
<1>7. r.damaged = FALSE /\ r.error \in {"none", "IOError"} /\ (r.error = "IOError" => r.full)
    BY <1>2, <1>6 DEF Reported
<1>8. Inner({Header})
    BY TokensAre DEF Inner
<1>9. save' = IF kind = "EMPTY" THEN [NewSave EXCEPT !.stack = <<>>] ELSE NewSave
    BY DEF automaton_save
<1>10. save'.at = "next" /\ save'.bytes = <<>>
    BY <1>9 DEF NewSave
<1>11. PICK S : IsBuffer(r, S) /\ Inner(S)
    BY <1>5, <1>8
<1>12. (\E T : IsBuffer(output, T) /\ Inner(T))'
    BY <1>1, <1>11 DEF IsBuffer, Inner, TokenOK
<1> QED
    BY <1>1, <1>7, <1>10, <1>12 DEF WritingOK

LEMMA WritingEnters ==
    ASSUME WritingOK, DOMAIN save = DOMAIN NewSave, automaton_save_node
    PROVE  WritingOK'
<1>1. PICK v : v = Visiting
    OBVIOUS
<1>2. PICK r : r = output'
    OBVIOUS
<1>3. PICK b : b = Bytes(nodes[v].output)
    OBVIOUS
<1>4. PICK e : e = Entered
    OBVIOUS
<1>5. save.at = "next" /\ Running
    BY DEF automaton_save_node, Running
<1>6. PICK outcome \in Outcomes :
        LET head == SaveHead(output, v, outcome)
        IN  IF nodes[v].eow /\ store = "ANY"
            THEN /\ r = head
                 /\ save' = [save EXCEPT !.at = "serializer", !.stack = e, !.bytes = <<b>>]
            ELSE /\ r = SaveTail(head, v, <<>>, outcome)
                 /\ save' = [save EXCEPT !.stack = e]
    BY <1>1, <1>2, <1>3, <1>4 DEF automaton_save_node
<1>7. PICK S0 : IsBuffer(output, S0) /\ Inner(S0)
    BY <1>5 DEF WritingOK
<1>8. PICK S : S = S0 \cup {Header, Address(v), SavedNode(v), Pairs(v), b}
    OBVIOUS
<1>9. IsBuffer(output, S) /\ Address(v) \in S /\ SavedNode(v) \in S /\ Pairs(v) \in S
    BY <1>7, <1>8, Widen
<1>10. Inner(S) /\ b.type = "bytes"
  <2>1. Inner({Header, Address(v), SavedNode(v), Pairs(v), b}) /\ b.type = "bytes"
    BY <1>3, TokensAre
  <2> QED
    BY <1>7, <1>8, <2>1 DEF Inner
<1>11. PICK h : h = SaveHead(output, v, outcome)
    OBVIOUS
<1>12. DOMAIN output = DOMAIN NewBuffer
    BY <1>7 DEF IsBuffer
<1>13. IsBuffer(h, S) /\ Reported(output, h) /\ DOMAIN h = DOMAIN NewBuffer
    BY <1>9, <1>11, <1>12, HeadType, HeadReports DEF Reported
<1>14. IsBuffer(SaveTail(h, v, <<>>, outcome), S) /\ Reported(output, SaveTail(h, v, <<>>, outcome))
    BY <1>9, <1>13, TailType, TailReports, ReportedTwice
<1>15. IsBuffer(r, S) /\ Reported(output, r)
    BY <1>6, <1>11, <1>13, <1>14
<1>16. DOMAIN save = {"at", "stack", "bytes", "called"}
    BY DEF NewSave
<1>17. save'.at \in {"next", "serializer"} /\ (save'.bytes = save.bytes \/ save'.bytes = <<b>>)
    BY <1>5, <1>6, <1>16
<1>18. save'.bytes # <<>> => save'.bytes[1].type = "bytes"
    BY <1>5, <1>10, <1>17 DEF WritingOK
<1> QED
    BY <1>2, <1>5, <1>10, <1>15, <1>17, <1>18, WritesOn

LEMMA WritingReturns ==
    ASSUME WritingOK, DOMAIN save = DOMAIN NewSave, SerializerReturns
    PROVE  WritingOK'
<1>1. PICK p : p = Last(save.stack).node
    OBVIOUS
<1>2. PICK b : b = save.bytes
    OBVIOUS
<1>3. PICK r : r = output'
    OBVIOUS
<1>4. /\ save.at = "serializer" /\ Running
      /\ save' = [save EXCEPT !.at = "next", !.bytes = <<>>]
    BY DEF SerializerReturns, Running
<1>5. PICK outcome \in Outcomes : r = SaveTail(output, p, b, outcome)
    BY <1>1, <1>2, <1>3 DEF SerializerReturns
<1>6. PICK S0 : IsBuffer(output, S0) /\ Inner(S0)
    BY <1>4 DEF WritingOK
<1>7. PICK S : S = S0 \cup ({Pairs(p)} \cup {t \in {b[1]} : b # <<>>})
    OBVIOUS
<1>8. IsBuffer(output, S) /\ Pairs(p) \in S /\ (b # <<>> => b[1] \in S)
    BY <1>6, <1>7, Widen
<1>9. Inner(S)
  <2>1. TokenOK(Pairs(p)) /\ Pairs(p).type # "footer"
    BY TokensAre DEF Inner
  <2>2. b # <<>> => b[1].type = "bytes"
    BY <1>2, <1>4 DEF WritingOK
  <2> QED
    BY <1>6, <1>7, <2>1, <2>2 DEF Inner, TokenOK
<1>10. IsBuffer(r, S)
    BY <1>5, <1>8, TailType
<1>11. Reported(output, r)
    BY <1>5, <1>6, TailReports DEF IsBuffer
<1>12. DOMAIN save = {"at", "stack", "bytes", "called"}
    BY DEF NewSave
<1>13. save'.at = "next" /\ save'.bytes = <<>>
    BY <1>4, <1>12
<1> QED
    BY <1>3, <1>4, <1>9, <1>10, <1>11, <1>13, WritesOn

LEMMA SameWriting ==
    ASSUME WritingOK, output' = output, save'.at = save.at, save'.bytes = save.bytes
    PROVE  WritingOK'
<1>1. Running' <=> Running
    BY DEF Running
<1>2. \A S : (IsBuffer(output, S) /\ Inner(S))' <=> IsBuffer(output, S) /\ Inner(S)
    BY DEF IsBuffer, Inner, TokenOK
<1> QED
    BY <1>1, <1>2 DEF WritingOK

LEMMA WritingRaises ==
    ASSUME WritingOK, DOMAIN save = DOMAIN NewSave,
           \/ SerializerRaises
           \/ /\ save.at = "next" /\ output.error # "none"
              /\ save' = [save EXCEPT !.at = "exception"] /\ output' = output
    PROVE  WritingOK'
<1>1. /\ Running /\ save.at \in {"serializer", "next"}
      /\ save' = [save EXCEPT !.at = "exception"]
      /\ \/ output' = [output EXCEPT !.error = "SerializerError"]
         \/ output' = output /\ output.error # "none"
    BY DEF SerializerRaises, Running
<1>2. PICK S : IsBuffer(output, S) /\ Inner(S)
    BY <1>1 DEF WritingOK
<1>3. PICK r : r = output'
    OBVIOUS
<1>4. DOMAIN save = {"at", "stack", "bytes", "called"} /\ DOMAIN output = DOMAIN NewBuffer
    BY <1>2 DEF NewSave, IsBuffer
<1>5. /\ save'.at = "exception" /\ save'.bytes = save.bytes /\ IsBuffer(r, S)
      /\ r.damaged = output.damaged
      /\ r.error = "SerializerError" \/ (r = output /\ r.error # "none")
    BY <1>1, <1>2, <1>3, <1>4 DEF IsBuffer, NewBuffer
<1>6. (\E T : IsBuffer(output, T) /\ Inner(T))'
    BY <1>2, <1>3, <1>5 DEF IsBuffer, Inner, TokenOK
<1> QED
    BY <1>1, <1>3, <1>5, <1>6 DEF WritingOK

\* The end of the file, from a buffer without a footer.
LEMMA FlushedIs ==
    ASSUME NEW S, NEW o, IsBuffer(o, S), NEW outcome \in Outcomes,
           NEW f, f = savebuffer_flush(o, outcome)
    PROVE  f.tokens \in Seq(S) /\ (f.full => f.tokens = o.tokens)
<1>1. CASE o.size = 0
    BY <1>1 DEF savebuffer_flush, IsBuffer
<1>2. CASE o.size # 0
  <2>1. PICK g : g = fwrite(o, o.held, outcome)
    OBVIOUS
  <2>2. f = [g EXCEPT !.held = <<>>, !.size = 0]
    BY <1>2, <2>1 DEF savebuffer_flush
  <2>3. IsBuffer(g, S) /\ (g.full => g.tokens = o.tokens)
    <3>1. o.held \in Seq(S)
      BY DEF IsBuffer
    <3> QED
      BY <2>1, <3>1, FwriteIs
  <2> QED
    BY <2>2, <2>3 DEF IsBuffer, NewBuffer
<1> QED
    BY <1>1, <1>2

LEMMA InnerFile ==
    ASSUME NEW S, Inner(S), NEW w \in Seq(S)
    PROVE  /\ \A k \in DOMAIN w : TokenOK(w[k]) /\ w[k].type # "footer"
           /\ ~Complete(w)
<1>1. PICK N \in Nat : N = Len(w) /\ DOMAIN w = 1..N /\ (N = 0 <=> w = <<>>)
    BY LenProperties, LenZero
<1>2. \A k \in 1..N : w[k] \in S
    BY <1>1, ElementOfSeq
<1>3. \A k \in 1..N : TokenOK(w[k]) /\ w[k].type # "footer"
    BY <1>2 DEF Inner
<1>4. w # <<>> => N \in 1..N
    BY <1>1
<1> QED
    BY <1>1, <1>3, <1>4 DEF Complete, Last

LEMMA FooterWritten ==
    ASSUME NEW S, IsBuffer(output, S), Inner(S), output.size \in Nat,
           NEW first \in Outcomes, NEW second \in Outcomes,
           NEW o, o = savebuffer_store(output, Footer, first),
           NEW f, f = savebuffer_flush(o, second)
    PROVE  /\ \A k \in DOMAIN f.tokens : TokenOK(f.tokens[k])
           /\ f.full => ~Complete(f.tokens)
           /\ ~f.full => ~output.full /\ f.tokens = Cat(Items(output), <<Footer>>)
                         /\ Complete(f.tokens)
           /\ Reported(output, f)
<1>1. PICK token : token = Footer
    OBVIOUS
<1>2. token.type = "footer" /\ token.size = 6 /\ TokenOK(token)
    BY <1>1, TokensAre DEF Footer, sizeof_Footer
<1>3. Capacity \in Nat /\ Capacity > 12 /\ token.size \in Nat /\ token.size <= Capacity
    BY <1>2, SaveAssumption DEF sizeof_Header
<1>4. PICK T : T = S \cup {token}
    OBVIOUS
<1>5. IsBuffer(output, T) /\ token \in T
    BY <1>4, Widen
<1>6. PICK g : /\ g = output \/ g = savebuffer_flush(output, first)
               /\ o = Hold(g, token)
  <2>1. ~(token.size > Capacity)
    BY <1>2, <1>3
  <2> QED
    BY <1>1, <2>1 DEF savebuffer_store
<1>7. IsBuffer(g, S) /\ g.size \in Nat /\ Reported(output, g)
  <2>1. IsBuffer(savebuffer_flush(output, first), S) /\ savebuffer_flush(output, first).size = 0
        /\ Reported(output, savebuffer_flush(output, first))
    BY FlushExtends, FlushSize, FlushReports DEF Extends, IsBuffer
  <2>2. Reported(output, output)
    BY DEF Reported, IsBuffer
  <2> QED
    BY <1>6, <2>1, <2>2
<1>8. o.tokens = g.tokens /\ o.size = g.size + token.size /\ o.size \in Nat /\ o.size # 0
  <2>1. o.tokens = g.tokens /\ o.size = g.size + token.size
    BY <1>6, <1>7 DEF Hold, IsBuffer, NewBuffer
  <2> QED
    BY <1>2, <1>7, <2>1
<1>9. Reported(output, f)
  <2>1. Reported(g, o)
    BY <1>6, <1>7, HoldReports DEF IsBuffer
  <2>2. Reported(o, f)
    BY <2>1, FlushReports DEF Reported
  <2> QED
    BY <1>7, <2>1, <2>2, ReportedTwice
<1>10. IsBuffer(o, T) /\ Extends(output, <<token>>, o, T)
    BY <1>1, <1>3, <1>5, StoreExtends
<1>11. Extends(o, <<>>, f, T) /\ f.tokens \in Seq(T) /\ (f.full => f.tokens = g.tokens)
    BY <1>8, <1>10, FlushExtends, FlushedIs
<1>12. f.held = <<>>
    BY <1>8, <1>10, FlushSize DEF Sound
<1>13. f.full => ~Complete(f.tokens)
    BY <1>7, <1>11, InnerFile DEF IsBuffer
<1>14. \A k \in DOMAIN f.tokens : TokenOK(f.tokens[k])
  <2>1. PICK u : u = f.tokens /\ u \in Seq(T)
    BY <1>11
  <2>2. \A k \in 1..Len(u) : u[k] \in T
    BY <2>1, ElementOfSeq
  <2>3. DOMAIN u = 1..Len(u)
    BY <2>1, LenProperties
  <2>4. \A t \in T : TokenOK(t)
    BY <1>2, <1>4 DEF Inner
  <2> QED
    BY <2>1, <2>2, <2>3, <2>4
<1>15. ASSUME ~f.full
       PROVE  ~output.full /\ f.tokens = Cat(Items(output), <<token>>) /\ Complete(f.tokens)
  <2>1. ~o.full /\ ~output.full
    BY <1>10, <1>11, <1>15 DEF Extends
  <2>2. PICK w : w = Items(output) /\ w \in Seq(T)
    BY <1>5, ItemsType
  <2>3. PICK u : u = Cat(w, <<token>>)
    OBVIOUS
  <2>4. u \in Seq(T) /\ u # <<>> /\ Last(u) = token
    <3>1. PICK t : t = <<token>>
      OBVIOUS
    <3>2. t \in Seq(T) /\ Len(t) = 1 /\ t[1] = token
      BY <1>5, <3>1
    <3>3. PICK N \in Nat : N = Len(w)
      BY <2>2, CatDomain, EmptySeq
    <3>4. u = Cat(w, t)
      BY <2>3, <3>1
    <3>5. u \in Seq(T)
      BY <2>2, <3>2, <3>4, CatProperties
    <3>6. Len(u) = N + 1
      BY <2>2, <3>2, <3>3, <3>4, CatDomain
    <3>7. u[N + 1] = token
      <4>1. PICK j \in Nat \ {0} : j = 1
        OBVIOUS
      <4>2. Cat(w, t)[Len(w) + j] = t[j]
        BY <2>2, <3>2, <4>1, CatRight
      <4> QED
        BY <3>2, <3>3, <3>4, <4>1, <4>2
    <3>8. u # <<>>
      BY <3>3, <3>5, <3>6, LenZero
    <3> QED
      BY <3>5, <3>6, <3>7, <3>8 DEF Last
  <2>5. Items(o) = u
    BY <1>10, <2>1, <2>2, <2>3 DEF Extends
  <2>6. Items(f) = Cat(u, <<>>) /\ Cat(u, <<>>) = u
    <3>1. Items(f) = Cat(Items(o), <<>>)
      BY <1>11, <1>15 DEF Extends
    <3> QED
      BY <2>4, <2>5, <3>1, CatProperties, EmptySeq
  <2>7. Items(f) = f.tokens
    <3>1. Items(f) = Cat(f.tokens, <<>>)
      BY <1>12, <1>15 DEF Items
    <3> QED
      BY <1>11, <3>1, CatProperties, EmptySeq
  <2> QED
    BY <1>2, <2>1, <2>2, <2>3, <2>4, <2>6, <2>7 DEF Complete
<1> QED
    BY <1>1, <1>9, <1>13, <1>14, <1>15

-----------------------------------------------------------------------------
(* The parts of the invariant. *)

\* The heap as callers know it, also while __reduce__ keeps its NodeIDs in the links.
heap == IF dump = NoDump THEN nodes ELSE dump.before

Resting == queue = <<>> /\ node = Root /\ i = 1

ScalarsOK ==
    /\ kind \in {"EMPTY", "TRIE", "AHOCORASICK"} /\ store \in Stores
    /\ count \in Nat /\ longest_word \in Nat /\ version \in 0..MaxVersion
    /\ stats.version \in -1..MaxVersion
    /\ refs \in [Objects -> Int]
    /\ queue \in Seq(Seq(Letters)) /\ node \in Seq(Letters)
    /\ i \in Nat \ {0} /\ state \in Pointer

PointersLive(h) == \A p \in DOMAIN h : h[p].fail \in DOMAIN h \cup {NULL, FREED}
NoneFreed(h) == \A p \in DOMAIN h : h[p].fail # FREED

LinksOK(h) ==
    /\ PointersLive(h)
    /\ kind = "AHOCORASICK" => NoneFreed(h)
    /\ kind = "EMPTY" => count = 0

HeapOK(h) ==
    /\ Heap(h) /\ Tree(h) /\ IsFiniteSet(DOMAIN h)
    /\ kind # "EMPTY" => Root \in DOMAIN h
    /\ Root \in DOMAIN h => h[Root].fail = NULL
    /\ Cardinality(Keys(h)) <= count
    /\ LinksOK(h)
    /\ store = "ANY" =>
        /\ \A p \in Keys(h) : h[p].output \in Objects
        /\ \A o \in Objects : refs[o] = Cardinality(Holders(h, o))

DumpPc == {"number", "revert", "save", "undo", "exception"}

CoreOK ==
    /\ ScalarsOK /\ HeapOK(heap)
    /\ dump = NoDump /\ pc # "crash" => FailsInv
    /\ pc \notin Pc => Resting

\* Control.
ControlOK ==
    /\ pc \in Pc \cup DumpPc \cup {"make_nodes", "restore", "load"}
    /\ dump # NoDump =>
        /\ pc \in DumpPc \cup {"crash"}
        /\ pickled = NotPickled /\ load = NoLoad
    /\ dump = NoDump /\ pc \in DumpPc => pc = "save" /\ save.at \in {"next", "exception"}
    /\ pickled # NotPickled => dump = NoDump
    /\ load # NoLoad => pickled # NotPickled
    /\ pc \in {"make_nodes", "restore"} <=> load.result = "running"
    /\ dump # NoDump \/ pickled # NotPickled => save = NoSave \/ loading.result = "automaton"
    /\ save.at \in {"none", "next", "serializer", "exception", "done"}
    /\ save.at = "none" <=> save = NoSave
    /\ save.at \in {"next", "exception"} => pc \in {"save", "crash"}
    /\ save.at = "serializer" => pc \in {"idle", "crash"}
    /\ loading # NoLoading => save.at = "done"
    /\ pc = "load" <=> loading.result = "running"

\* __reduce__
Overwritten(h, ids) ==
    [p \in DOMAIN h |-> IF p \in ids THEN [h[p] EXCEPT !.fail = NODEID] ELSE h[p]]

NodesNumber == Cardinality(DOMAIN nodes)
Between(a, b) == {trie_traverse[j] : j \in a..b}

NumberedOK ==
    LET numbered == DOMAIN dump.node_ids
    IN  /\ dump.visited \in 1..(NodesNumber + 1)
        /\ pc = "number" => numbered = Between(1, dump.visited - 1)
        /\ pc = "save" => numbered = Between(1, NodesNumber)
        /\ pc \in {"undo", "exception"} => numbered = Between(dump.visited, NodesNumber)
        /\ pc = "revert" =>
            \E m \in dump.visited..NodesNumber :
                dump.failed_on = trie_traverse[m] /\ numbered = Between(dump.visited, m - 1)
        /\ pc # "revert" => dump.failed_on = NULL

DumpOK ==
    dump # NoDump =>
        /\ DOMAIN dump = DOMAIN NewDump
        /\ kind # "EMPTY"
        /\ nodes = Overwritten(dump.before, DOMAIN dump.node_ids)
        /\ \A p \in DOMAIN dump.node_ids : dump.node_ids[p].fail = dump.before[p].fail
        /\ pc # "crash" => NumberedOK
        /\ pc = "undo" => dump.tuple.args = 7

\* The constructor.
Taken(values, n) ==
    [o \in Objects |-> IF values = NULL THEN 0
                       ELSE Cardinality({j \in 1..n : values[j] = o})]

ConstructorOK ==
    /\ load.result = "running" =>
        /\ DOMAIN load = DOMAIN NewLoad
        /\ \E S : load.id2node \in Seq(S)
        /\ load.live = Len(load.id2node)
        /\ load.object_idx \in Nat
        /\ load.refs = Taken(pickled.values, load.object_idx)
    /\ NothingLeft

PersistInv ==
    /\ CoreOK /\ ControlOK /\ DumpOK /\ ConstructorOK /\ SaveOK /\ LoadingOK
    /\ FramesOK /\ SafeUnlessMisused /\ OrderOK

-----------------------------------------------------------------------------
(* The automaton's own steps. *)

\* What the automaton's own invariants say when no method of it runs.
LEMMA AtRest ==
    ScalarsOK /\ HeapOK(nodes) /\ Resting /\ ~Building /\ pc # "crash" => FailsInv /\ RefsInv
<1> SUFFICES ASSUME ScalarsOK, HeapOK(nodes), Resting, ~Building, pc # "crash"
             PROVE  FailsInv /\ RefsInv
    OBVIOUS
<1>1. IInv
    BY DEF ScalarsOK, HeapOK, Resting, Building, IInv, ObjectOK, TreeOK, RootOK, HasRoot,
           EnoughCount, FrameOK
<1>2. RootFail
    BY DEF HeapOK, RootFail, HasRoot
<1>3. ObjectsOK /\ RefsOK
    BY DEF HeapOK, ObjectsOK, RefsOK, Holders
<1> QED
    BY <1>1, <1>2, <1>3 DEF FailsInv, RefsInv, Resting

\* And back.
LEMMA FromAutomaton ==
    FailsInv /\ RefsInv /\ LinksOK(nodes) => ScalarsOK /\ HeapOK(nodes)
<1> SUFFICES ASSUME FailsInv, RefsInv, LinksOK(nodes)
             PROVE  ScalarsOK /\ HeapOK(nodes)
    OBVIOUS
<1>1. ScalarsOK
    BY DEF FailsInv, IInv, ObjectOK, ScalarsOK
<1>2. /\ Heap(nodes) /\ Tree(nodes) /\ IsFiniteSet(DOMAIN nodes)
      /\ kind # "EMPTY" => Root \in DOMAIN nodes
      /\ Root \in DOMAIN nodes => nodes[Root].fail = NULL
      /\ Cardinality(Keys(nodes)) <= count
    BY DEF FailsInv, IInv, ObjectOK, TreeOK, RootOK, HasRoot, EnoughCount, RootFail
<1>3. store = "ANY" =>
        /\ \A p \in Keys(nodes) : nodes[p].output \in Objects
        /\ \A o \in Objects : refs[o] = Cardinality(Holders(nodes, o))
    BY DEF RefsInv, ObjectsOK, RefsOK, Holders
<1> QED
    BY <1>1, <1>2, <1>3 DEF HeapOK

\* The nodes that add_word makes have no fail link, the others keep theirs.
LEMMA GrowLinks ==
    ASSUME Heap(nodes), Tree(nodes), PointersLive(nodes), NEW w \in Seq(Letters),
           NEW k \in 0..Len(w)
    PROVE  /\ Heap(Grow(nodes, w, k)) /\ PointersLive(Grow(nodes, w, k))
           /\ NoneFreed(nodes) => NoneFreed(Grow(nodes, w, k))
<1> DEFINE g == Grow(nodes, w, k)
<1>1. Grown(nodes, w, k, g)
    BY GrowShape
<1> HIDE DEF g
<1> QED
  <2>1. /\ DOMAIN g = DOMAIN nodes \cup Path(w, k) /\ Heap(g)
        /\ \A p \in DOMAIN nodes : g[p].fail = nodes[p].fail
        /\ \A p \in Path(w, k) \ DOMAIN nodes : g[p].fail = NULL
    BY <1>1 DEF Grown
  <2>2. PointersLive(g) /\ (NoneFreed(nodes) => NoneFreed(g))
    BY <2>1, PointerAssumption DEF PointersLive, NoneFreed
  <2> QED
    BY <2>1, <2>2 DEF g

\* A word removed leaves the links live or FREED.
LEMMA UnlinkLinks ==
    ASSUME Heap(nodes), Tree(nodes), PointersLive(nodes), NEW w \in DOMAIN nodes, w # <<>>
    PROVE  PointersLive(Unlink(nodes, w))
<1>1. CASE trienode_is_leaf(nodes, w)
  <2> DEFINE g == Unlink(nodes, w)
             freed == FreedTail(nodes, w)
  <2>1. Cut(nodes, w, g)
    BY <1>1, UnlinkShape
  <2> HIDE DEF g
  <2>2. /\ DOMAIN g = DOMAIN nodes \ freed
        /\ \A p \in DOMAIN g : g[p].fail = Dangle(nodes[p].fail, freed)
    BY <2>1 DEF Cut
  <2> HIDE DEF freed
  <2>3. PointersLive(g)
    BY <2>2 DEF PointersLive, Dangle
  <2> QED
    BY <2>3 DEF g
<1>2. CASE ~trienode_is_leaf(nodes, w)
  <2>1. Unlink(nodes, w) = [nodes EXCEPT ![w].eow = FALSE]
    BY <1>2 DEF Unlink
  <2> QED
    BY <2>1 DEF PointersLive, Heap, TrieNode
<1> QED
    BY <1>1, <1>2

\* Every step of the automaton leads its fail links to live nodes, or leaves them
\* FREED in a TRIE only.
LEMMA NextLinks ==
    ASSUME FailsInv, LinksOK(nodes), Next
    PROVE  LinksOK(nodes)'
<1> USE DEF LinksOK
<1>1. Heap(nodes) /\ Tree(nodes) /\ IInv
    BY DEF FailsInv, IInv, ObjectOK, TreeOK
<1>2. ASSUME UNCHANGED <<nodes, kind, count>> PROVE LinksOK(nodes)'
    BY <1>2 DEF PointersLive, NoneFreed
<1>3. ASSUME kind' = "TRIE", PointersLive(nodes') PROVE LinksOK(nodes)'
    BY <1>3
<1>4. ASSUME NEW w \in Words, NEW v, automaton_add_word(w, v) PROVE LinksOK(nodes)'
  <2> DEFINE g == Grow(nodes, w, Len(w))
  <2>1. w \in Seq(Letters) /\ Len(w) \in 0..Len(w)
    BY ConstantAssumption, LenProperties
  <2>2. Heap(g) /\ PointersLive(g)
    BY <1>1, <2>1, GrowLinks
  <2>3. nodes' = [g EXCEPT ![w].eow = TRUE, ![w].output = v] /\ kind' = "TRIE"
    BY <1>4 DEF automaton_add_word
  <2> HIDE DEF g
  <2>4. PointersLive(nodes')
    BY <2>2, <2>3 DEF PointersLive, Heap, TrieNode
  <2> QED
    BY <1>3, <2>3, <2>4
<1>5. ASSUME NEW w \in Words, NEW depth \in 0..Len(w), automaton_add_word_no_memory(w, depth)
      PROVE  LinksOK(nodes)'
  <2>1. w \in Seq(Letters) /\ Len(w) \in Nat
    BY ConstantAssumption, LenProperties
  <2>2. UNCHANGED <<kind, count>>
    BY <1>5 DEF automaton_add_word_no_memory
  <2>3. CASE depth = 0
    BY <1>2, <1>5, <2>2, <2>3 DEF automaton_add_word_no_memory
  <2>4. CASE depth # 0
    <3>1. depth - 1 \in 0..Len(w)
      BY <2>1, <2>4
    <3>2. nodes' = Grow(nodes, w, depth - 1)
      BY <1>5, <2>4 DEF automaton_add_word_no_memory
    <3>3. PointersLive(nodes') /\ (NoneFreed(nodes) => NoneFreed(nodes'))
      BY <1>1, <2>1, <3>1, <3>2, GrowLinks
    <3> QED
      BY <2>2, <3>3
  <2> QED
    BY <2>3, <2>4
<1>6. ASSUME NEW w \in Words, automaton_remove_word(w) \/ automaton_pop(w)
      PROVE  LinksOK(nodes)'
  <2>1. Present(w) /\ nodes' = Unlink(nodes, w) /\ kind' = "TRIE"
    BY <1>6 DEF automaton_remove_word, automaton_pop, automaton_remove_word_aux
  <2>2. w \in DOMAIN nodes /\ w # <<>>
    BY <1>1, <2>1, PresentKey DEF Keys
  <2>3. PointersLive(nodes')
    BY <1>1, <2>1, <2>2, UnlinkLinks
  <2> QED
    BY <1>3, <2>1, <2>3
<1>7. ASSUME automaton_clear PROVE LinksOK(nodes)'
    BY <1>7, EmptyTree DEF automaton_clear, PointersLive, NoneFreed
<1>8. ASSUME NEW f, LinkSet(f), f # FREED, kind = "TRIE", kind' = kind PROVE LinksOK(nodes)'
  <2>1. f \in DOMAIN nodes
    BY <1>8 DEF LinkSet, FailNode
  <2>2. DOMAIN nodes' = DOMAIN nodes
    BY <1>8 DEF LinkSet, SameLinks
  <2>3. PointersLive(nodes')
    BY <1>8, <2>1, <2>2 DEF LinkSet, PointersLive
  <2> QED
    BY <1>3, <1>8, <2>3
<1>9. ASSUME SetupFirstLevel PROVE LinksOK(nodes)'
  <2>1. kind = "TRIE" /\ kind' = kind /\ Root # FREED
    BY <1>1, <1>9, PointerAssumption, EmptySeq
       DEF SetupFirstLevel, IInv, FrameOK, Building, Root
  <2> QED
    BY <1>8, <1>9, <2>1, FirstLevelLink
<1>10. ASSUME SetFail PROVE LinksOK(nodes)'
  <2>1. kind = "TRIE" /\ kind' = kind
    BY <1>1, <1>10 DEF SetFail, IInv, FrameOK, Building
  <2>2. LinkSet(FailTarget(state, letter))
    BY <1>10, SetFailLink
  <2>3. FailTarget(state, letter) # FREED
    BY <1>1, <2>2, PointerAssumption DEF LinkSet, FailNode, Heap
  <2> QED
    BY <1>8, <2>1, <2>2, <2>3
<1>11. ASSUME BuildDone PROVE LinksOK(nodes)'
  <2>1. pc = "pop" /\ queue = <<>> /\ nodes' = nodes /\ Building /\ kind' = "AHOCORASICK"
    BY <1>11 DEF BuildDone, Building
  <2>2. /\ Heap(nodes) /\ Root \in DOMAIN nodes /\ i \in Nat \ {0}
        /\ Len(nodes[node].next) \in Int /\ BuildOK
    BY <2>1, BuildingFrame
  <2>3. i \in Int /\ i > Len(nodes[node].next) /\ Covered(nodes, <<>>, node, i)
    BY <2>1, <2>2 DEF BuildOK
  <2>4. \A p \in DOMAIN nodes \ {Root} : FailNode(nodes, p, nodes[p].fail)
    BY <2>2, <2>3, CoveredLast
  <2>5. \A p \in DOMAIN nodes \ {Root} : nodes[p].fail \in DOMAIN nodes
    BY <2>4 DEF FailNode
  <2>6. nodes[Root].fail = NULL
    BY <2>2 DEF FailsInv, RootFail, HasRoot
  <2>7. FREED \notin DOMAIN nodes /\ NULL # FREED
    BY <2>2, PointerAssumption DEF Heap
  <2>8. NoneFreed(nodes')
    BY <2>1, <2>5, <2>6, <2>7 DEF NoneFreed
  <2>9. PointersLive(nodes')
    BY <2>1 DEF PointersLive
  <2> QED
    BY <2>1, <2>8, <2>9
<1>12. ASSUME MakeStep PROVE LinksOK(nodes)'
    BY <1>2, <1>9, <1>10, <1>11, <1>12
       DEF MakeStep, FirstLevelDone, PopNode, EnqueueChild, ChildrenDone, FollowFail, object
<1>13. ASSUME NEW w, \/ automaton_pop_crashes(w) \/ automaton_remove_no_memory(w)
                     \/ automaton_remove_absent(w) \/ automaton_add_empty_word
                     \/ automaton_add_word_aborts \/ automaton_get_stats
                     \/ automaton_make_automaton
       PROVE  LinksOK(nodes)'
    BY <1>2, <1>13 DEF automaton_pop_crashes, automaton_remove_no_memory, automaton_remove_absent,
                automaton_add_empty_word, automaton_add_word_aborts, automaton_get_stats,
                automaton_make_automaton, object
<1> HIDE DEF LinksOK
<1> QED
    BY <1>4, <1>5, <1>6, <1>7, <1>12, <1>13 DEF Next

\* What is known when a method of the automaton starts.
LEMMA CoreAutomaton ==
    ASSUME CoreOK, dump = NoDump, pc # "crash"
    PROVE  FailsInv /\ RefsInv /\ LinksOK(nodes) /\ HeapOK(nodes)
<1>1. FailsInv /\ HeapOK(nodes)
    BY DEF CoreOK, heap
<1>2. RefsInv
    BY <1>1 DEF FailsInv, HeapOK, RefsInv, ObjectsOK, RefsOK, Holders
<1> QED
    BY <1>1, <1>2 DEF HeapOK

\* A step of the automaton.
LEMMA NextCore ==
    ASSUME CoreOK, dump = NoDump, dump' = NoDump, Next
    PROVE  CoreOK' /\ pc' \in Pc \ {"crash"}
<1>1. pc # "crash" /\ pc' \in Pc
    BY NextRuns
<1>2. FailsInv /\ RefsInv /\ LinksOK(nodes)
    BY <1>1, CoreAutomaton
<1>3. FailsInv' /\ RefsInv'
    BY <1>2, FailsNext, RefsNext
<1>4. LinksOK(nodes)'
    BY <1>2, NextLinks
<1>5. ScalarsOK' /\ HeapOK(nodes)'
    BY <1>3, <1>4, FromAutomaton, PTL
<1>6. HeapOK(heap)'
    BY <1>5 DEF heap, HeapOK, LinksOK
<1>7. pc' # "crash"
    BY <1>3 DEF FailsInv
<1> QED
    BY <1>1, <1>3, <1>5, <1>6, <1>7 DEF CoreOK

\* A step of the code around it, which leaves the automaton as callers know it.
LEMMA SameCore ==
    ASSUME CoreOK, UNCHANGED <<kind, store, count, longest_word, version, stats, refs, locals>>,
           heap' = heap,
           pc = "idle" => dump = NoDump, pc = "idle" \/ pc \notin Pc,
           pc' \in {"idle", "crash"} \/ pc' \notin Pc
    PROVE  CoreOK'
<1>1. Resting
  <2>1. CASE pc = "idle"
    <3>1. FailsInv
      BY <2>1 DEF CoreOK
    <3> QED
      BY <2>1, <3>1 DEF FailsInv, IInv, FrameOK, Resting
  <2>2. CASE pc # "idle"
    BY <2>2 DEF CoreOK
  <2> QED
    BY <2>1, <2>2
<1>2. Resting' /\ ScalarsOK'
    BY <1>1 DEF Resting, CoreOK, ScalarsOK, locals
<1>3. HeapOK(heap)'
    BY DEF CoreOK, HeapOK, LinksOK
<1>4. ASSUME dump' = NoDump, pc' # "crash" PROVE FailsInv'
  <2>1. HeapOK(nodes)'
    BY <1>3, <1>4 DEF heap, HeapOK, LinksOK
  <2>2. ~Building'
    BY <1>4 DEF Building, Pc
  <2>3. (pc # "crash")'
    BY <1>4
  <2>4. (FailsInv /\ RefsInv)'
    BY <1>2, <2>1, <2>2, <2>3, AtRest, PTL
  <2> QED
    BY <2>4
<1> QED
    BY <1>2, <1>3, <1>4 DEF CoreOK

-----------------------------------------------------------------------------
(* The order of the traversal. *)

Traversable ==
    /\ DOMAIN nodes \subseteq Seq(Letters) /\ IsFiniteSet(DOMAIN nodes)
    /\ \A p \in DOMAIN nodes : nodes[p].next \in Seq(Letters)
    /\ Tree(nodes)

\* The place, among its siblings, of the node of p at depth k + 1.
Slot(p, k) == Position(nodes[At(p, k)].next, p[k + 1])

Precedes(q, p) ==
    \/ Len(q) < Len(p) /\ At(p, Len(q)) = q
    \/ \E k \in Nat : k < Len(p) /\ k < Len(q) /\ At(p, k) = At(q, k) /\ Slot(q, k) < Slot(p, k)

LEMMA SlotOf ==
    ASSUME Traversable, NEW p \in DOMAIN nodes, NEW k \in Nat, k < Len(p)
    PROVE  /\ At(p, k) \in DOMAIN nodes
           /\ Slot(p, k) \in Nat /\ nodes[At(p, k)].next[Slot(p, k)] = p[k + 1]
<1>1. p \in Seq(Letters) /\ Len(p) \in Nat
    BY LenProperties DEF Traversable
<1>2. k \in 0..(Len(p) - 1)
    BY <1>1
<1>3. At(p, k) \in DOMAIN nodes /\ p[k + 1] \in ToSet(nodes[At(p, k)].next)
    BY <1>2 DEF Traversable, Tree, PrefixClosed
<1>4. /\ Slot(p, k) \in DOMAIN nodes[At(p, k)].next
      /\ nodes[At(p, k)].next[Slot(p, k)] = p[k + 1]
    BY <1>3 DEF Slot, Position, ToSet
<1>5. nodes[At(p, k)].next \in Seq(Letters)
    BY <1>3 DEF Traversable
<1>6. DOMAIN nodes[At(p, k)].next = 1..Len(nodes[At(p, k)].next)
    BY <1>5, LenProperties
<1> QED
    BY <1>3, <1>4, <1>6

LEMMA BeforeIs ==
    ASSUME Traversable, NEW p \in DOMAIN nodes, NEW q \in DOMAIN nodes
    PROVE  Before(q, p) <=> Precedes(q, p)
<1>1. p \in Seq(Letters) /\ Len(p) \in Nat /\ q \in Seq(Letters) /\ Len(q) \in Nat
    BY LenProperties DEF Traversable
<1>2. IsStrictPrefix(q, p) <=> Len(q) < Len(p) /\ At(p, Len(q)) = q
  <2>1. SubSeq(q, 1, Len(q)) = q /\ SubSeq(p, 1, Len(p)) = p
    BY <1>1, SubSeqFull
  <2>2. IsStrictPrefix(q, p) <=> Len(q) <= Len(p) /\ At(p, Len(q)) = q /\ q # p
    BY <2>1 DEF IsStrictPrefix, IsPrefix, At
  <2>3. Len(q) = Len(p) => (At(p, Len(q)) = q => q = p)
    BY <2>1 DEF At
  <2> QED
    BY <1>1, <2>2, <2>3
<1>3. \A k : k \in 0..(Min({Len(p), Len(q)}) - 1) <=> k \in Nat /\ k < Len(p) /\ k < Len(q)
  <2> DEFINE m == Min({Len(p), Len(q)})
  <2>1. {Len(p), Len(q)} \subseteq Nat /\ {Len(p), Len(q)} # {}
    BY <1>1
  <2>2. m \in {Len(p), Len(q)} /\ \A y \in {Len(p), Len(q)} : m <= y
    BY <2>1, MinExists
  <2> HIDE DEF m
  <2>3. m \in Nat /\ (m = Len(p) \/ m = Len(q)) /\ m <= Len(p) /\ m <= Len(q)
    BY <1>1, <2>2
  <2>4. \A k : k \in 0..(m - 1) <=> k \in Nat /\ k < Len(p) /\ k < Len(q)
    BY <1>1, <2>3
  <2> QED
    BY <2>4 DEF m
<1>4. ASSUME NEW k \in Nat, k < Len(p), k < Len(q), At(p, k) = At(q, k)
      PROVE  Position(nodes[At(p, k)].next, q[k + 1]) = Slot(q, k)
             /\ Position(nodes[At(p, k)].next, p[k + 1]) = Slot(p, k)
    BY <1>4 DEF Slot
<1>5. ASSUME Before(q, p) PROVE Precedes(q, p)
  <2>1. CASE IsStrictPrefix(q, p)
    BY <1>2, <2>1 DEF Precedes
  <2>2. CASE ~IsStrictPrefix(q, p)
    <3>1. PICK k \in 0..(Min({Len(p), Len(q)}) - 1) :
            /\ At(p, k) = At(q, k)
            /\ Position(nodes[At(p, k)].next, q[k + 1]) < Position(nodes[At(p, k)].next, p[k + 1])
      BY <1>5, <2>2 DEF Before
    <3>2. k \in Nat /\ k < Len(p) /\ k < Len(q)
      BY <1>3
    <3> QED
      BY <1>4, <3>1, <3>2 DEF Precedes
  <2> QED
    BY <2>1, <2>2
<1>6. ASSUME Precedes(q, p) PROVE Before(q, p)
  <2>1. CASE Len(q) < Len(p) /\ At(p, Len(q)) = q
    BY <1>2, <2>1 DEF Before
  <2>2. CASE ~(Len(q) < Len(p) /\ At(p, Len(q)) = q)
    <3>1. PICK k \in Nat : k < Len(p) /\ k < Len(q) /\ At(p, k) = At(q, k)
                           /\ Slot(q, k) < Slot(p, k)
      BY <1>6, <2>2 DEF Precedes
    <3>2. k \in 0..(Min({Len(p), Len(q)}) - 1)
      BY <1>3, <3>1
    <3> QED
      BY <1>4, <3>1, <3>2 DEF Before
  <2> QED
    BY <2>1, <2>2
<1> QED
    BY <1>5, <1>6

\* Two paths that agree down to depth k agree above it.
LEMMA AgreeAbove ==
    ASSUME NEW p \in Seq(Letters), NEW q \in Seq(Letters), NEW k \in Nat,
           k <= Len(p), k <= Len(q), At(p, k) = At(q, k)
    PROVE  \A j \in Nat : /\ j <= k => At(p, j) = At(q, j)
                          /\ j < k => p[j + 1] = q[j + 1] /\ Slot(p, j) = Slot(q, j)
<1>1. Len(p) \in Nat /\ Len(q) \in Nat
    BY LenProperties
<1>2. k \in 0..Len(p) /\ k \in 0..Len(q)
    BY <1>1
<1>3. \A j \in 0..k : At(At(p, k), j) = At(p, j) /\ At(At(q, k), j) = At(q, j)
    BY <1>2, AtAt
<1>4. \A j \in 1..k : At(p, k)[j] = p[j] /\ At(q, k)[j] = q[j]
    BY <1>2, AtType
<1>5. ASSUME NEW j \in Nat, j <= k PROVE At(p, j) = At(q, j)
    BY <1>3, <1>5
<1>6. ASSUME NEW j \in Nat, j < k PROVE p[j + 1] = q[j + 1]
  <2>1. j + 1 \in 1..k
    BY <1>6
  <2> QED
    BY <1>4, <2>1
<1>7. ASSUME NEW j \in Nat, j < k PROVE Slot(p, j) = Slot(q, j)
  <2>1. At(p, j) = At(q, j) /\ p[j + 1] = q[j + 1]
    BY <1>5, <1>6, <1>7
  <2> QED
    BY <2>1 DEF Slot
<1> QED
    BY <1>5, <1>6, <1>7

LEMMA PrecedesIrreflexive ==
    ASSUME Traversable, NEW p \in DOMAIN nodes
    PROVE  ~Precedes(p, p)
<1>1. p \in Seq(Letters) /\ Len(p) \in Nat
    BY LenProperties DEF Traversable
<1>2. \A k \in Nat : k < Len(p) => Slot(p, k) \in Nat
    BY SlotOf
<1>3. ~(Len(p) < Len(p)) /\ \A k \in Nat : k < Len(p) => ~(Slot(p, k) < Slot(p, k))
    BY <1>1, <1>2
<1> QED
    BY <1>3 DEF Precedes

LEMMA PrecedesTransitive ==
    ASSUME Traversable, NEW a \in DOMAIN nodes, NEW b \in DOMAIN nodes, NEW c \in DOMAIN nodes,
           Precedes(a, b), Precedes(b, c)
    PROVE  Precedes(a, c)
<1>1. /\ a \in Seq(Letters) /\ Len(a) \in Nat
      /\ b \in Seq(Letters) /\ Len(b) \in Nat
      /\ c \in Seq(Letters) /\ Len(c) \in Nat
    BY LenProperties DEF Traversable
<1>2. At(a, Len(a)) = a /\ At(b, Len(b)) = b
  <2>1. Len(a) \in 0..Len(a) /\ Len(b) \in 0..Len(b)
    BY <1>1
  <2> QED
    BY <1>1, <2>1, AtAt
<1>3. CASE Len(a) < Len(b) /\ At(b, Len(a)) = a
  <2>1. CASE Len(b) < Len(c) /\ At(c, Len(b)) = b
    <3>1. At(c, Len(a)) = At(b, Len(a))
      BY <1>1, <1>2, <1>3, <2>1, AgreeAbove
    <3> QED
      BY <1>1, <1>3, <2>1, <3>1 DEF Precedes
  <2>2. ASSUME NEW k \in Nat, k < Len(c), k < Len(b), At(c, k) = At(b, k), Slot(b, k) < Slot(c, k)
        PROVE  Precedes(a, c)
    <3>1. CASE Len(a) <= k
      <4>1. At(c, Len(a)) = At(b, Len(a))
        BY <1>1, <2>2, <3>1, AgreeAbove
      <4> QED
        BY <1>1, <1>3, <2>2, <3>1, <4>1 DEF Precedes
    <3>2. CASE k < Len(a)
      <4>1. At(a, k) = At(b, k) /\ Slot(a, k) = Slot(b, k)
        BY <1>1, <1>2, <1>3, <3>2, AgreeAbove
      <4> QED
        BY <2>2, <3>2, <4>1 DEF Precedes
    <3> QED
      BY <1>1, <3>1, <3>2
  <2> QED
    BY <2>1, <2>2 DEF Precedes
<1>4. ASSUME NEW k \in Nat, k < Len(b), k < Len(a), At(b, k) = At(a, k), Slot(a, k) < Slot(b, k)
      PROVE  Precedes(a, c)
  <2>1. CASE Len(b) < Len(c) /\ At(c, Len(b)) = b
    <3>1. At(c, k) = At(b, k) /\ Slot(c, k) = Slot(b, k)
      BY <1>1, <1>2, <1>4, <2>1, AgreeAbove
    <3>2. k < Len(c)
      BY <1>1, <1>4, <2>1
    <3> QED
      BY <1>4, <3>1, <3>2 DEF Precedes
  <2>2. ASSUME NEW m \in Nat, m < Len(c), m < Len(b), At(c, m) = At(b, m), Slot(b, m) < Slot(c, m)
        PROVE  Precedes(a, c)
    <3>1. CASE k < m
      <4>1. At(c, k) = At(b, k) /\ Slot(c, k) = Slot(b, k)
        BY <1>1, <2>2, <3>1, AgreeAbove
      <4>2. k < Len(c)
        BY <1>1, <2>2, <3>1
      <4> QED
        BY <1>4, <4>1, <4>2 DEF Precedes
    <3>2. CASE k = m
      <4>1. Slot(a, k) \in Nat /\ Slot(b, k) \in Nat /\ Slot(c, k) \in Nat
        BY <1>4, <2>2, <3>2, SlotOf
      <4>2. Slot(a, k) < Slot(c, k)
        BY <1>4, <2>2, <3>2, <4>1
      <4> QED
        BY <1>4, <2>2, <3>2, <4>2 DEF Precedes
    <3>3. CASE m < k
      <4>1. At(a, m) = At(b, m) /\ Slot(a, m) = Slot(b, m)
        BY <1>1, <1>4, <3>3, AgreeAbove
      <4>2. m < Len(a)
        BY <1>1, <1>4, <3>3
      <4> QED
        BY <2>2, <4>1, <4>2 DEF Precedes
    <3> QED
      BY <3>1, <3>2, <3>3
  <2> QED
    BY <2>1, <2>2 DEF Precedes
<1> QED
    BY <1>3, <1>4 DEF Precedes

\* Of two nodes, one comes first: look at the depth down to which they agree.
LEMMA PrecedesTotal ==
    ASSUME Traversable, NEW p \in DOMAIN nodes, NEW q \in DOMAIN nodes, p # q
    PROVE  Precedes(q, p) \/ Precedes(p, q)
<1>1. p \in Seq(Letters) /\ Len(p) \in Nat /\ q \in Seq(Letters) /\ Len(q) \in Nat
    BY LenProperties DEF Traversable
<1> DEFINE agreed == {k \in 0..Len(p) : k <= Len(q) /\ At(p, k) = At(q, k)}
           k == Max(agreed)
<1>2. /\ 0 \in 0..Len(p) /\ 0 \in 0..Len(q) /\ Len(p) \in 0..Len(p) /\ Len(q) \in 0..Len(q)
    BY <1>1
<1>3. At(p, 0) = <<>> /\ At(q, 0) = <<>> /\ At(p, Len(p)) = p /\ At(q, Len(q)) = q
    BY <1>1, <1>2, AtAt
<1>4. k \in agreed /\ \A j \in agreed : k >= j
  <2>1. 0 \in agreed
    BY <1>1, <1>2, <1>3
  <2>2. agreed \subseteq 0..Len(p) /\ agreed # {}
    BY <2>1
  <2> HIDE DEF agreed
  <2> QED
    BY <1>1, <2>2, MaxExists
<1> HIDE DEF k
<1>5. k \in Nat /\ k <= Len(p) /\ k <= Len(q) /\ At(p, k) = At(q, k)
    BY <1>1, <1>4
<1>6. CASE k = Len(p)
  <2>1. At(q, Len(p)) = p
    BY <1>3, <1>5, <1>6, Zenon
  <2>2. Len(p) # Len(q)
    BY <1>3, <2>1
  <2>3. Len(p) < Len(q)
    BY <1>1, <1>5, <1>6, <2>2
  <2> QED
    BY <2>1, <2>3 DEF Precedes
<1>7. CASE k = Len(q)
  <2>1. At(p, Len(q)) = q
    BY <1>3, <1>5, <1>7
  <2>2. Len(p) # Len(q)
    BY <1>3, <2>1
  <2>3. Len(q) < Len(p)
    BY <1>1, <1>5, <1>7, <2>2
  <2> QED
    BY <2>1, <2>3 DEF Precedes
<1>8. CASE k < Len(p) /\ k < Len(q)
  <2>1. /\ Slot(p, k) \in Nat /\ nodes[At(p, k)].next[Slot(p, k)] = p[k + 1]
        /\ Slot(q, k) \in Nat /\ nodes[At(q, k)].next[Slot(q, k)] = q[k + 1]
    BY <1>5, <1>8, SlotOf
  <2>2. Slot(p, k) # Slot(q, k)
    <3> SUFFICES ASSUME Slot(p, k) = Slot(q, k) PROVE FALSE
      OBVIOUS
    <3>1. p[k + 1] = q[k + 1]
      BY <1>5, <2>1
    <3>2. k \in 0..(Len(p) - 1) /\ k \in 0..(Len(q) - 1)
      BY <1>1, <1>5, <1>8
    <3>3. At(p, k + 1) = At(q, k + 1)
      BY <1>1, <1>5, <3>1, <3>2, AppendAt
    <3>4. k + 1 \in agreed
      BY <1>1, <1>5, <1>8, <3>3
    <3> HIDE DEF agreed
    <3> QED
      BY <1>4, <1>5, <3>4
  <2>3. Slot(p, k) < Slot(q, k) \/ Slot(q, k) < Slot(p, k)
    BY <2>1, <2>2
  <2> QED
    BY <1>5, <1>8, <2>3 DEF Precedes
<1> QED
    BY <1>1, <1>5, <1>6, <1>7, <1>8

\* Rank numbers the nodes 1, 2, ... without a gap or a repetition.
LEMMA RankBijects ==
    ASSUME Traversable
    PROVE  LET N == Cardinality(DOMAIN nodes) IN
           /\ N \in Nat
           /\ \A p \in DOMAIN nodes : Rank(p) \in 1..N
           /\ \A p, q \in DOMAIN nodes : Rank(p) = Rank(q) => p = q
           /\ \A j \in 1..N : \E p \in DOMAIN nodes : Rank(p) = j
<1> DEFINE N == Cardinality(DOMAIN nodes)
           first(p) == {q \in DOMAIN nodes : Before(q, p)}
           rank == [p \in DOMAIN nodes |-> Rank(p)]
<1>1. IsFiniteSet(DOMAIN nodes) /\ N \in Nat
    BY FS_CardinalityType DEF Traversable
<1>2. ASSUME NEW p \in DOMAIN nodes
      PROVE  /\ IsFiniteSet(first(p)) /\ Cardinality(first(p)) \in Nat
             /\ Cardinality(first(p)) + 1 <= N
             /\ Rank(p) = Cardinality(first(p)) + 1
  <2>1. p \notin first(p)
    BY BeforeIs, PrecedesIrreflexive
  <2>2. first(p) \in SUBSET (DOMAIN nodes \ {p})
    BY <2>1
  <2>3. IsFiniteSet(DOMAIN nodes \ {p}) /\ Cardinality(DOMAIN nodes \ {p}) = N - 1
    BY <1>1, FS_RemoveElement
  <2>4. IsFiniteSet(first(p)) /\ Cardinality(first(p)) <= N - 1
    BY <2>2, <2>3, FS_Subset
  <2>5. Cardinality(first(p)) \in Nat
    BY <2>4, FS_CardinalityType
  <2>6. Rank(p) = Cardinality(first(p)) + 1
    BY DEF Rank
  <2> HIDE DEF first, N
  <2> QED
    BY <1>1, <2>4, <2>5, <2>6
<1>3. ASSUME NEW p \in DOMAIN nodes, NEW q \in DOMAIN nodes, Precedes(q, p)
      PROVE  Rank(q) < Rank(p)
  <2>1. first(q) \subseteq first(p)
    BY <1>3, BeforeIs, PrecedesTransitive
  <2>2. q \in first(p) /\ q \notin first(q)
    BY <1>3, BeforeIs, PrecedesIrreflexive
  <2>3. first(q) \in SUBSET first(p) /\ first(q) # first(p)
    BY <2>1, <2>2
  <2> HIDE DEF first
  <2>4. Cardinality(first(q)) <= Cardinality(first(p))
        /\ Cardinality(first(q)) # Cardinality(first(p))
    BY <1>2, <2>3, FS_Subset
  <2> QED
    BY <1>2, <2>4
<1>4. \A p \in DOMAIN nodes : Rank(p) \in 1..N
  <2> HIDE DEF first, N
  <2> QED
    BY <1>1, <1>2
<1>5. \A p, q \in DOMAIN nodes : Rank(p) = Rank(q) => p = q
  <2> SUFFICES ASSUME NEW p \in DOMAIN nodes, NEW q \in DOMAIN nodes, p # q
               PROVE  Rank(p) # Rank(q)
    OBVIOUS
  <2>1. Rank(p) \in 1..N /\ Rank(q) \in 1..N
    BY <1>4
  <2>2. Rank(p) < Rank(q) \/ Rank(q) < Rank(p)
    BY <1>3, PrecedesTotal
  <2> QED
    BY <1>1, <2>1, <2>2
<1>6. \A j \in 1..N : \E p \in DOMAIN nodes : Rank(p) = j
  <2>1. rank \in Injection(DOMAIN nodes, 1..N)
    BY <1>4, <1>5 DEF Injection, IsInjective
  <2>2. IsFiniteSet(1..N) /\ Cardinality(1..N) = N
    BY <1>1, FS_Interval
  <2>3. rank \in Surjection(DOMAIN nodes, 1..N)
    BY <2>1, <2>2, FS_Injection
  <2> HIDE DEF N
  <2> QED
    BY <2>3 DEF Surjection
<1> QED
    BY <1>1, <1>4, <1>5, <1>6

\* trie_traverse visits every node once.
LEMMA TraversesAll ==
    ASSUME Traversable
    PROVE  /\ NodesNumber \in Nat
           /\ \A j \in 1..NodesNumber : trie_traverse[j] \in DOMAIN nodes
           /\ \A j, k \in 1..NodesNumber : trie_traverse[j] = trie_traverse[k] => j = k
           /\ Between(1, NodesNumber) = DOMAIN nodes
<1>1. /\ NodesNumber \in Nat
      /\ \A p \in DOMAIN nodes : Rank(p) \in 1..NodesNumber
      /\ \A p, q \in DOMAIN nodes : Rank(p) = Rank(q) => p = q
      /\ \A j \in 1..NodesNumber : \E p \in DOMAIN nodes : Rank(p) = j
    BY RankBijects DEF NodesNumber
<1>2. \A j \in 1..NodesNumber :
        trie_traverse[j] \in DOMAIN nodes /\ Rank(trie_traverse[j]) = j
  <2> TAKE j \in 1..NodesNumber
  <2>1. trie_traverse[j] = CHOOSE p \in DOMAIN nodes : Rank(p) = j
    BY DEF trie_traverse, NodesNumber
  <2> QED
    BY <1>1, <2>1
<1>3. \A j, k \in 1..NodesNumber : trie_traverse[j] = trie_traverse[k] => j = k
    BY <1>2
<1>4. \A p \in DOMAIN nodes : trie_traverse[Rank(p)] = p
    BY <1>1, <1>2
<1>5. Between(1, NodesNumber) = DOMAIN nodes
    BY <1>1, <1>2, <1>4 DEF Between
<1> QED
    BY <1>1, <1>2, <1>3, <1>5

\* The order does not depend on the fail links.
LEMMA SameTraversal ==
    ASSUME DOMAIN nodes' = DOMAIN nodes, \A p \in DOMAIN nodes : nodes'[p].next = nodes[p].next,
           Traversable
    PROVE  Traversable' /\ trie_traverse' = trie_traverse /\ NodesNumber' = NodesNumber
<1>1. Traversable'
  <2>1. Tree(nodes')
    BY DEF Traversable, Tree, PrefixClosed, LinksLive, OneLinkPerLetter
  <2> QED
    BY <2>1 DEF Traversable
<1>2. ASSUME NEW p \in DOMAIN nodes, NEW q \in DOMAIN nodes
      PROVE  Precedes(q, p)' <=> Precedes(q, p)
  <2>1. \A k \in Nat : k < Len(p) => (Slot(p, k))' = Slot(p, k)
    BY SlotOf DEF Slot
  <2>2. \A k \in Nat : k < Len(q) => (Slot(q, k))' = Slot(q, k)
    BY SlotOf DEF Slot
  <2> QED
    BY <2>1, <2>2 DEF Precedes
<1>3. ASSUME NEW p \in DOMAIN nodes, NEW q \in DOMAIN nodes
      PROVE  Before(q, p)' <=> Before(q, p)
  <2>1. Before(q, p) <=> Precedes(q, p)
    BY BeforeIs
  <2>2. (Traversable => (p \in DOMAIN nodes /\ q \in DOMAIN nodes
                        => (Before(q, p) <=> Precedes(q, p))))'
    BY BeforeIs, PTL
  <2> QED
    BY <1>1, <1>2, <2>1, <2>2
<1>4. \A p \in DOMAIN nodes : (Rank(p))' = Rank(p)
  <2> TAKE p \in DOMAIN nodes
  <2>1. {q \in DOMAIN nodes' : Before(q, p)'} = {q \in DOMAIN nodes : Before(q, p)}
    BY <1>3
  <2> QED
    BY <2>1 DEF Rank
<1>5. NodesNumber' = NodesNumber
    BY DEF NodesNumber
<1>6. trie_traverse' = trie_traverse
  <2>1. \A j : (CHOOSE p \in DOMAIN nodes' : (Rank(p))' = j) = (CHOOSE p \in DOMAIN nodes : Rank(p) = j)
    BY <1>4
  <2> QED
    BY <2>1 DEF trie_traverse
<1> QED
    BY <1>1, <1>5, <1>6

-----------------------------------------------------------------------------
(* __reduce__ *)

\* The nodes, with NodeIDs in some of the links.
LEMMA DumpFrame ==
    ASSUME CoreOK, DumpOK, dump # NoDump
    PROVE  /\ HeapOK(dump.before) /\ dump.before \in [DOMAIN dump.before -> TrieNode]
           /\ DOMAIN nodes = DOMAIN dump.before
           /\ \A p \in DOMAIN nodes :
                /\ nodes[p].next = dump.before[p].next
                /\ p \notin DOMAIN dump.node_ids => nodes[p] = dump.before[p]
           /\ Traversable
<1>1. HeapOK(dump.before)
    BY DEF CoreOK, heap
<1>2. Heap(dump.before) /\ Tree(dump.before) /\ IsFiniteSet(DOMAIN dump.before)
    BY <1>1 DEF HeapOK
<1>3. /\ DOMAIN nodes = DOMAIN dump.before
      /\ \A p \in DOMAIN nodes :
            nodes[p] = IF p \in DOMAIN dump.node_ids
                       THEN [dump.before[p] EXCEPT !.fail = NODEID] ELSE dump.before[p]
    BY DEF DumpOK, Overwritten
<1>4. \A p \in DOMAIN nodes : dump.before[p] \in TrieNode
    BY <1>2, <1>3 DEF Heap
<1>5. \A p \in DOMAIN nodes : nodes[p].next = dump.before[p].next
    BY <1>3, <1>4 DEF TrieNode
<1>6. \A p \in DOMAIN nodes : nodes[p].next \in Seq(Letters)
    BY <1>4, <1>5 DEF TrieNode
<1>7. Tree(nodes)
    BY <1>2, <1>3, <1>5 DEF Tree, PrefixClosed, LinksLive, OneLinkPerLetter
<1>8. Traversable
    BY <1>2, <1>3, <1>6, <1>7 DEF Traversable, Heap
<1> QED
    BY <1>1, <1>2, <1>3, <1>5, <1>8 DEF Heap

\* Once no link is overwritten, the nodes are what they were.
LEMMA NoneOverwritten ==
    ASSUME CoreOK, DumpOK, dump # NoDump, DOMAIN dump.node_ids = {}
    PROVE  nodes = dump.before
<1>1. dump.before = [p \in DOMAIN dump.before |-> dump.before[p]]
    BY DumpFrame
<1>2. nodes = [p \in DOMAIN dump.before |-> dump.before[p]]
    BY DEF DumpOK, Overwritten
<1> QED
    BY <1>1, <1>2

\* Steps that keep the nodes keep the numbers of the traversal.
LEMMA SameNodesOrder ==
    ASSUME UNCHANGED nodes
    PROVE  /\ trie_traverse' = trie_traverse /\ NodesNumber' = NodesNumber
           /\ \A a, b : (Between(a, b))' = Between(a, b)
    BY DEF trie_traverse, NodesNumber, Between, Rank, Before

\* Between() is an interval of a traversal that visits every node once.
LEMMA BetweenGrows ==
    ASSUME Traversable, NEW a \in 1..(NodesNumber + 1), NEW b \in 0..NodesNumber
    PROVE  /\ Between(a, b) \subseteq DOMAIN nodes
           /\ a > b => Between(a, b) = {}
           /\ a <= b => /\ trie_traverse[a] \in Between(a, b)
                        /\ Between(a, b) \ {trie_traverse[a]} = Between(a + 1, b)
           /\ b < NodesNumber /\ a <= b + 1 =>
                /\ trie_traverse[b + 1] \in DOMAIN nodes
                /\ trie_traverse[b + 1] \notin Between(a, b)
                /\ Between(a, b) \cup {trie_traverse[b + 1]} = Between(a, b + 1)
<1>1. /\ NodesNumber \in Nat
      /\ \A j \in 1..NodesNumber : trie_traverse[j] \in DOMAIN nodes
      /\ \A j, k \in 1..NodesNumber : trie_traverse[j] = trie_traverse[k] => j = k
    BY TraversesAll
<1>2. Between(a, b) \subseteq DOMAIN nodes
    BY <1>1 DEF Between
<1>3. a > b => Between(a, b) = {}
    BY <1>1 DEF Between
<1>4. ASSUME a <= b
      PROVE  /\ trie_traverse[a] \in Between(a, b)
             /\ Between(a, b) \ {trie_traverse[a]} = Between(a + 1, b)
  <2>1. a \in a..b /\ \A j : j \in (a + 1)..b <=> j \in a..b /\ j # a
    BY <1>1, <1>4
  <2>2. \A j \in a..b : trie_traverse[j] = trie_traverse[a] => j = a
    BY <1>1, <1>4
  <2> QED
    BY <2>1, <2>2 DEF Between
<1>5. ASSUME b < NodesNumber, a <= b + 1
      PROVE  /\ trie_traverse[b + 1] \in DOMAIN nodes
             /\ trie_traverse[b + 1] \notin Between(a, b)
             /\ Between(a, b) \cup {trie_traverse[b + 1]} = Between(a, b + 1)
  <2>1. \A j : j \in a..(b + 1) <=> j \in a..b \/ j = b + 1
    BY <1>1, <1>5
  <2>2. \A j \in a..b : trie_traverse[j] # trie_traverse[b + 1]
    BY <1>1, <1>5
  <2> QED
    BY <1>1, <1>5, <2>1, <2>2 DEF Between
<1> QED
    BY <1>2, <1>3, <1>4, <1>5

Quiet == save = NoSave \/ loading.result = "automaton"

PickleInv ==
    CoreOK /\ ControlOK /\ DumpOK /\ ConstructorOK /\ Quiet

\* What every step of a running __reduce__ has in common.
LEMMA DumpStep ==
    ASSUME PickleInv, dump # NoDump, pc \in DumpPc, UNCHANGED <<others, load, saveVars>>,
           heap' = heap, DumpOK',
           \/ dump' # NoDump /\ pc' \in DumpPc \cup {"crash"} /\ UNCHANGED pickled
           \/ dump' = NoDump /\ pc' = "idle"
    PROVE  PickleInv'
<1>1. CoreOK'
  <2>1. UNCHANGED <<kind, store, count, longest_word, version, stats, refs, locals>>
    BY DEF others
  <2>2. pc # "idle" /\ pc \notin Pc /\ (pc' \in {"idle", "crash"} \/ pc' \notin Pc)
    BY DEF DumpPc, Pc
  <2> QED
    BY <2>1, <2>2, SameCore DEF PickleInv
<1>2. pickled = NotPickled /\ load = NoLoad
    BY DEF PickleInv, ControlOK
<1>3. ControlOK'
    BY <1>2 DEF PickleInv, ControlOK, Quiet, saveVars, DumpPc, Pc, NoSave, NoLoading, NoLoad
<1>4. ConstructorOK'
    BY <1>2 DEF ConstructorOK, NothingLeft, NoLoad
<1> QED
    BY <1>1, <1>3, <1>4 DEF PickleInv, Quiet, saveVars

\* Steps that change neither the nodes nor which of their links are overwritten.
LEMMA DumpKeepsNodes ==
    ASSUME PickleInv, dump # NoDump, pc \in DumpPc, UNCHANGED <<untouched, load, saveVars>>,
           UNCHANGED pickled, pc' \in DumpPc \cup {"crash"},
           DOMAIN dump' = DOMAIN NewDump, dump'.before = dump.before,
           dump'.node_ids = dump.node_ids,
           pc' # "crash" => NumberedOK', pc' = "undo" => dump'.tuple.args = 7
    PROVE  PickleInv'
<1>1. dump' # NoDump
    BY DEF NewDump, NoDump
<1>2. heap' = heap
    BY <1>1 DEF heap
<1>3. DumpOK'
    BY DEF PickleInv, DumpOK, untouched, others, Overwritten, NewDump
<1> QED
    BY <1>1, <1>2, <1>3, DumpStep DEF untouched

LEMMA ReduceStarts ==
    ASSUME PickleInv, automaton___reduce__, UNCHANGED saveVars PROVE PickleInv'
<1>1. pc = "idle" /\ dump = NoDump /\ pickled = NotPickled /\ load = NoLoad
      /\ UNCHANGED <<nodes, others, load>>
  <2>1. load = NoLoad
    BY DEF PickleInv, ControlOK, automaton___reduce__
  <2> QED
    BY <2>1 DEF automaton___reduce__, untouched
<1>2. ConstructorOK'
    BY <1>1 DEF ConstructorOK, NothingLeft, NoLoad
<1>3. HeapOK(nodes)
    BY <1>1, CoreAutomaton DEF PickleInv
<1>4. heap' = heap
  <2>1. dump' = NoDump \/ dump' = NewDump
    BY <1>1 DEF automaton___reduce__
  <2> QED
    BY <1>1, <2>1 DEF heap, NewDump, NoDump
<1>5. CoreOK'
  <2>1. UNCHANGED <<kind, store, count, longest_word, version, stats, refs, locals>>
    BY <1>1 DEF others
  <2>2. pc' = "idle" \/ pc' = "number"
    BY <1>1 DEF automaton___reduce__
  <2>3. "number" \notin Pc
    BY DEF Pc
  <2> QED
    BY <1>1, <1>4, <2>1, <2>2, <2>3, SameCore DEF PickleInv
<1>6. CASE count = 0
  <2>1. pc' = pc /\ dump' = NoDump /\ pickled' = [args |-> 0]
    BY <1>1, <1>6 DEF automaton___reduce__
  <2>2. ControlOK'
    BY <1>1, <2>1 DEF PickleInv, ControlOK, Quiet, saveVars, DumpPc, Pc, NoLoad
  <2>3. DumpOK'
    BY <2>1 DEF DumpOK
  <2> QED
    BY <1>2, <1>5, <2>2, <2>3 DEF PickleInv, Quiet, saveVars
<1>7. CASE count # 0
  <2>1. pc' = "number" /\ dump' = NewDump /\ pickled' = NotPickled
    BY <1>1, <1>7 DEF automaton___reduce__
  <2>8. dump' # NoDump
    BY <2>1 DEF NewDump, NoDump
  <2>2. ControlOK'
    BY <1>1, <2>1, <2>8
       DEF PickleInv, ControlOK, Quiet, saveVars, DumpPc, Pc, NoLoad, NoSave, NoLoading
  <2>3. /\ dump'.visited = 1 /\ dump'.before = nodes /\ DOMAIN dump'.node_ids = {}
        /\ dump'.failed_on = NULL
    BY <2>1 DEF NewDump
  <2>4. nodes' = Overwritten(nodes, {})
    <3>1. nodes = [p \in DOMAIN nodes |-> nodes[p]]
      BY <1>3 DEF HeapOK, Heap
    <3> QED
      BY <1>1, <3>1 DEF Overwritten
  <2>5. kind # "EMPTY"
    BY <1>3, <1>7 DEF HeapOK, LinksOK
  <2>6. NumberedOK'
    <3>1. NodesNumber' \in Nat
      BY <1>1, <1>3, FS_CardinalityType DEF HeapOK, NodesNumber
    <3>2. (Between(1, dump.visited - 1))' = {}
      BY <2>3 DEF Between
    <3>3. (dump.visited \in 1..(NodesNumber + 1))'
      <4>1. PICK N \in Nat : N = NodesNumber'
        BY <3>1
      <4>2. 1 \in 1..(N + 1)
        OBVIOUS
      <4> QED
        BY <2>3, <4>1, <4>2
    <3>4. (pc = "number")' /\ (DOMAIN dump.node_ids = {})' /\ (dump.failed_on = NULL)'
      BY <2>1, <2>3
    <3> QED
      BY <3>2, <3>3, <3>4 DEF NumberedOK
  <2>7. DumpOK'
    <3>1. DOMAIN dump' = DOMAIN NewDump
      BY <2>1 DEF NewDump
    <3>2. nodes' = Overwritten(dump'.before, DOMAIN dump'.node_ids)
      BY <2>3, <2>4
    <3>3. kind' # "EMPTY"
      BY <1>1, <2>5 DEF others
    <3>4. \A p \in DOMAIN dump'.node_ids : dump'.node_ids[p].fail = dump'.before[p].fail
      BY <2>3
    <3> QED
      BY <2>1, <2>6, <3>1, <3>2, <3>3, <3>4 DEF DumpOK, Overwritten, NewDump
  <2> QED
    BY <1>2, <1>5, <2>2, <2>7 DEF PickleInv, Quiet, saveVars
<1> QED
    BY <1>6, <1>7

LEMMA NodeNumbered ==
    ASSUME PickleInv, pickle_dump_replace_fail_with_id, UNCHANGED saveVars PROVE PickleInv'
<1>0. PICK v : v = dump.visited
    OBVIOUS
<1>1. pc = "number" /\ ~Traversed /\ dump # NoDump /\ UNCHANGED <<others, pickled, load>>
  <2>1. pc = "number" /\ ~Traversed /\ UNCHANGED <<others, pickled, load>>
    BY DEF pickle_dump_replace_fail_with_id
  <2> QED
    BY <2>1 DEF PickleInv, ControlOK, DumpPc
<1>2. /\ HeapOK(dump.before) /\ dump.before \in [DOMAIN dump.before -> TrieNode]
      /\ DOMAIN nodes = DOMAIN dump.before
      /\ \A p \in DOMAIN nodes :
            /\ nodes[p].next = dump.before[p].next
            /\ p \notin DOMAIN dump.node_ids => nodes[p] = dump.before[p]
      /\ Traversable
    BY <1>1, DumpFrame DEF PickleInv
<1>3. /\ DOMAIN dump = DOMAIN NewDump /\ kind # "EMPTY"
      /\ nodes = Overwritten(dump.before, DOMAIN dump.node_ids)
      /\ \A p \in DOMAIN dump.node_ids : dump.node_ids[p].fail = dump.before[p].fail
      /\ v \in 1..(NodesNumber + 1)
      /\ DOMAIN dump.node_ids = Between(1, v - 1)
      /\ dump.failed_on = NULL
    BY <1>0, <1>1 DEF PickleInv, DumpOK, NumberedOK
<1>4. v \in 1..NodesNumber /\ NodesNumber \in Nat /\ Visited = trie_traverse[v]
    BY <1>0, <1>1, <1>2, <1>3, TraversesAll DEF Traversed, NodesNumber, Visited
<1>5. /\ Visited \in DOMAIN nodes /\ Visited \notin DOMAIN dump.node_ids
      /\ DOMAIN dump.node_ids \cup {Visited} = Between(1, v)
  <2>1. v - 1 \in 0..NodesNumber /\ v - 1 < NodesNumber /\ v - 1 + 1 = v /\ 1 \in 1..(NodesNumber + 1)
        /\ 1 <= v
    BY <1>4
  <2> QED
    BY <1>2, <1>3, <1>4, <2>1, BetweenGrows
<1>6. ASSUME /\ nodes' = [nodes EXCEPT ![Visited].fail = NODEID]
             /\ dump' = [dump EXCEPT !.visited = @ + 1,
                                  !.node_ids = [p \in DOMAIN @ \cup {Visited} |->
                                      IF p = Visited THEN NewNodeID(p) ELSE @[p]],
                                  !.total_size = @ + get_pickled_size(nodes[Visited].next)]
             /\ UNCHANGED pc
      PROVE  PickleInv'
  <2>1. /\ DOMAIN dump' = DOMAIN NewDump
        /\ dump'.visited = v + 1 /\ dump'.before = dump.before /\ dump'.failed_on = NULL
        /\ DOMAIN dump'.node_ids = DOMAIN dump.node_ids \cup {Visited}
        /\ \A p \in DOMAIN dump'.node_ids :
            dump'.node_ids[p] = IF p = Visited THEN NewNodeID(p) ELSE dump.node_ids[p]
    BY <1>0, <1>3, <1>6 DEF NewDump
  <2>2. dump' # NoDump
    BY <2>1 DEF NewDump, NoDump
  <2>3. heap' = heap
    BY <1>1, <2>1, <2>2 DEF heap
  <2>4. nodes' = Overwritten(dump.before, DOMAIN dump.node_ids \cup {Visited})
    <3>1. nodes[Visited] = dump.before[Visited] /\ dump.before[Visited] \in TrieNode
      BY <1>2, <1>5
    <3>2. [nodes[Visited] EXCEPT !.fail = NODEID] = [dump.before[Visited] EXCEPT !.fail = NODEID]
      BY <3>1
    <3>3. nodes' = [p \in DOMAIN nodes |-> IF p = Visited THEN [nodes[p] EXCEPT !.fail = NODEID]
                                           ELSE nodes[p]]
      BY <1>5, <1>6
    <3>4. \A p \in DOMAIN nodes : nodes[p] = IF p \in DOMAIN dump.node_ids
                                         THEN [dump.before[p] EXCEPT !.fail = NODEID]
                                         ELSE dump.before[p]
      BY <1>2, <1>3 DEF Overwritten
    <3> QED
      BY <1>2, <3>2, <3>3, <3>4 DEF Overwritten
  <2>5. \A p \in DOMAIN dump'.node_ids : dump'.node_ids[p].fail = dump.before[p].fail
    <3>1. NewNodeID(Visited).fail = dump.before[Visited].fail
      BY <1>2, <1>5 DEF NewNodeID
    <3> QED
      BY <1>3, <2>1, <3>1
  <2>6. trie_traverse' = trie_traverse /\ NodesNumber' = NodesNumber
    <3>1. DOMAIN nodes' = DOMAIN nodes
      BY <1>6
    <3>2. \A p \in DOMAIN nodes : nodes[p].next \in Seq(Letters)
      BY <1>2 DEF Traversable
    <3>3. \A p \in DOMAIN nodes : nodes'[p].next = nodes[p].next
      BY <1>6
    <3> QED
      BY <1>2, <3>1, <3>3, SameTraversal
  <2>7. NumberedOK'
    <3>1. (Between(1, dump.visited - 1))' = Between(1, v)
      BY <1>4, <2>1, <2>6 DEF Between
    <3>2. dump'.visited \in 1..(NodesNumber' + 1)
      BY <1>4, <2>1, <2>6
    <3>3. pc' = "number"
      BY <1>1, <1>6
    <3>4. DOMAIN dump'.node_ids = Between(1, v)
      BY <1>5, <2>1
    <3> QED
      BY <2>1, <3>1, <3>2, <3>3, <3>4 DEF NumberedOK
  <2>8. DumpOK'
    <3>1. DOMAIN dump' = DOMAIN NewDump'
      BY <2>1 DEF NewDump
    <3>2. (nodes = Overwritten(dump.before, DOMAIN dump.node_ids))'
      BY <2>1, <2>4 DEF Overwritten
    <3>3. kind' # "EMPTY" /\ pc' = "number"
      BY <1>1, <1>3, <1>6 DEF others
    <3>4. \A p \in DOMAIN dump'.node_ids : dump'.node_ids[p].fail = dump'.before[p].fail
      BY <2>1, <2>5
    <3> QED
      BY <2>7, <3>1, <3>2, <3>3, <3>4 DEF DumpOK
  <2>9. pc \in DumpPc /\ pc' \in DumpPc
    BY <1>1, <1>6 DEF DumpPc
  <2> QED
    BY <1>1, <2>2, <2>3, <2>8, <2>9, DumpStep
<1>7. ASSUME /\ dump' = [dump EXCEPT !.failed_on = Visited, !.visited = 1]
             /\ pc' = "revert"
             /\ UNCHANGED nodes
      PROVE  PickleInv'
  <2>1. /\ DOMAIN dump' = DOMAIN NewDump
        /\ dump'.visited = 1 /\ dump'.before = dump.before /\ dump'.failed_on = Visited
        /\ dump'.node_ids = dump.node_ids
    BY <1>3, <1>7 DEF NewDump
  <2>2. trie_traverse' = trie_traverse /\ NodesNumber' = NodesNumber
        /\ \A a, b : (Between(a, b))' = Between(a, b)
    BY <1>7, SameNodesOrder
  <2>3. NumberedOK'
    <3>1. dump'.visited \in 1..(NodesNumber' + 1) /\ v \in dump'.visited..NodesNumber'
      BY <1>4, <2>1, <2>2
    <3>2. dump'.failed_on = trie_traverse'[v]
          /\ DOMAIN dump'.node_ids = (Between(1, v - 1))'
      BY <1>3, <1>4, <2>1, <2>2
    <3> QED
      BY <1>7, <2>1, <3>1, <3>2 DEF NumberedOK, Between
  <2>4. pc \in DumpPc /\ pc' \in DumpPc /\ pc' # "undo"
    BY <1>1, <1>7 DEF DumpPc
  <2> QED
    BY <1>1, <1>7, <2>1, <2>3, <2>4, DumpKeepsNodes DEF untouched
<1> QED
  <2>1. \/ /\ nodes' = [nodes EXCEPT ![Visited].fail = NODEID]
           /\ dump' = [dump EXCEPT !.visited = @ + 1,
                                  !.node_ids = [p \in DOMAIN @ \cup {Visited} |->
                                      IF p = Visited THEN NewNodeID(p) ELSE @[p]],
                                  !.total_size = @ + get_pickled_size(nodes[Visited].next)]
           /\ UNCHANGED pc
        \/ /\ dump' = [dump EXCEPT !.failed_on = Visited, !.visited = 1]
           /\ pc' = "revert"
           /\ UNCHANGED nodes
    BY DEF pickle_dump_replace_fail_with_id
  <2> QED
    BY <1>6, <1>7, <2>1

\* A step of the running __reduce__ finds its records and counters as they should be.
LEMMA DumpRuns ==
    ASSUME PickleInv, pc \in DumpPc, dump # NoDump
    PROVE  /\ DOMAIN dump = DOMAIN NewDump /\ NumberedOK /\ NodesNumber \in Nat
           /\ Traversable /\ dump.visited \in 1..(NodesNumber + 1)
           /\ kind # "EMPTY"
<1>1. pc # "crash"
    BY DEF DumpPc
<1>2. Traversable
    BY DumpFrame DEF PickleInv
<1>3. NodesNumber \in Nat
    BY <1>2, TraversesAll
<1> QED
    BY <1>1, <1>2, <1>3 DEF PickleInv, DumpOK, NumberedOK

\* When all nodes are overwritten, the traversal may start again for whatever comes next.
LEMMA ExceptionStarts ==
    ASSUME PickleInv, dump # NoDump, pc \in DumpPc, NEW d, Exception(d),
           DOMAIN d = DOMAIN NewDump, d.before = dump.before, d.node_ids = dump.node_ids,
           d.failed_on = NULL, DOMAIN dump.node_ids = Between(1, NodesNumber),
           UNCHANGED <<untouched, pickled, load, saveVars>>
    PROVE  PickleInv'
<1>1. pc' = "exception" /\ dump' = [d EXCEPT !.visited = 1]
    BY DEF Exception
<1>2. /\ DOMAIN dump' = DOMAIN NewDump /\ dump'.visited = 1 /\ dump'.before = dump.before
      /\ dump'.node_ids = dump.node_ids /\ dump'.failed_on = NULL
    BY <1>1 DEF NewDump
<1>3. trie_traverse' = trie_traverse /\ NodesNumber' = NodesNumber
    BY SameNodesOrder DEF untouched
<1>4. NodesNumber \in Nat
    BY DumpRuns
<1>5. NumberedOK'
    BY <1>1, <1>2, <1>3, <1>4 DEF NumberedOK, Between
<1> QED
    BY <1>1, <1>2, <1>5, DumpKeepsNodes DEF DumpPc

LEMMA DataInit ==
    ASSUME PickleInv, pickle_data__init, UNCHANGED saveVars PROVE PickleInv'
<1>1. /\ pc = "number" /\ Traversed /\ dump # NoDump /\ pc \in DumpPc
      /\ UNCHANGED <<untouched, pickled, load>>
  <2>1. pc = "number" /\ Traversed /\ UNCHANGED <<untouched, pickled, load>>
    BY DEF pickle_data__init, untouched
  <2> QED
    BY <2>1 DEF PickleInv, ControlOK, DumpPc
<1>2. /\ DOMAIN dump = DOMAIN NewDump /\ NumberedOK /\ NodesNumber \in Nat
      /\ dump.visited \in 1..(NodesNumber + 1)
    BY <1>1, DumpRuns
<1>3. dump.visited = NodesNumber + 1
    BY <1>1, <1>2 DEF Traversed, NodesNumber
<1>4. DOMAIN dump.node_ids = Between(1, NodesNumber) /\ dump.failed_on = NULL
  <2>1. NodesNumber + 1 - 1 = NodesNumber
    BY <1>2
  <2> QED
    BY <1>1, <1>2, <1>3, <2>1 DEF NumberedOK
<1>5. ASSUME NEW l, Exception([dump EXCEPT !.bytes_list = l]) PROVE PickleInv'
  <2> DEFINE d == [dump EXCEPT !.bytes_list = l]
  <2>1. /\ DOMAIN d = DOMAIN NewDump /\ d.before = dump.before /\ d.node_ids = dump.node_ids
        /\ d.failed_on = NULL
    BY <1>2, <1>4 DEF NewDump
  <2> HIDE DEF d
  <2>2. Exception(d)
    BY <1>5 DEF d
  <2> QED
    BY <1>1, <1>4, <2>1, <2>2, ExceptionStarts
<1>6. ASSUME pc' = "save",
             dump' = pickle_data__add_next_buffer(
                [dump EXCEPT !.visited = 1, !.bytes_list = <<>>,
                             !.values = IF store = "ANY" THEN <<>> ELSE NULL,
                             !.size = IF dump.total_size <= ArraySize
                                      THEN dump.total_size + CounterSize ELSE ArraySize])
      PROVE  PickleInv'
  <2>1. /\ DOMAIN dump' = DOMAIN NewDump /\ dump'.visited = 1 /\ dump'.before = dump.before
        /\ dump'.node_ids = dump.node_ids /\ dump'.failed_on = NULL
    BY <1>2, <1>4, <1>6 DEF NewDump, pickle_data__add_next_buffer
  <2>2. trie_traverse' = trie_traverse /\ NodesNumber' = NodesNumber
    BY <1>1, SameNodesOrder DEF untouched
  <2>3. NumberedOK'
    BY <1>2, <1>4, <1>6, <2>1, <2>2 DEF NumberedOK, Between
  <2> QED
    BY <1>1, <1>6, <2>1, <2>3, DumpKeepsNodes DEF DumpPc
<1> QED
    BY <1>5, <1>6 DEF pickle_data__init

LEMMA NodeSaved ==
    ASSUME PickleInv, pickle_dump_save, UNCHANGED saveVars, dump # NoDump PROVE PickleInv'
<1>1. /\ pc = "save" /\ ~Traversed /\ pc \in DumpPc
      /\ UNCHANGED <<untouched, pc, pickled, load>>
    BY DEF pickle_dump_save, DumpPc
<1>2. /\ DOMAIN dump = DOMAIN NewDump /\ NumberedOK /\ NodesNumber \in Nat
      /\ dump.visited \in 1..(NodesNumber + 1)
    BY <1>1, DumpRuns
<1>3. dump.visited \in 1..NodesNumber
    BY <1>1, <1>2 DEF Traversed, NodesNumber
<1>4. DOMAIN dump.node_ids = Between(1, NodesNumber) /\ dump.failed_on = NULL
    BY <1>1, <1>2 DEF NumberedOK
<1> DEFINE d == IF Overflows THEN pickle_data__add_next_buffer(dump) ELSE dump
<1>5. /\ DOMAIN d = DOMAIN NewDump /\ d.visited = dump.visited /\ d.before = dump.before
      /\ d.node_ids = dump.node_ids /\ d.failed_on = NULL
    BY <1>2, <1>4 DEF pickle_data__add_next_buffer, NewDump
<1>6. PICK last, n : dump' = [d EXCEPT !.bytes_list[last].nodes = Append(@, n),
                             !.bytes_list[last].count = @ + 1,
                             !.values = IF HasValue THEN Append(@, nodes[Visited].output) ELSE @,
                             !.top = @ + get_pickled_size(nodes[Visited].next),
                             !.visited = @ + 1]
    BY Zenon DEF pickle_dump_save
<1> HIDE DEF d
<1>7. /\ DOMAIN dump' = DOMAIN NewDump /\ dump'.visited = dump.visited + 1
      /\ dump'.before = dump.before
      /\ dump'.node_ids = dump.node_ids /\ dump'.failed_on = NULL
    BY <1>5, <1>6 DEF NewDump
<1>8. trie_traverse' = trie_traverse /\ NodesNumber' = NodesNumber
    BY <1>1, SameNodesOrder DEF untouched
<1>9. NumberedOK'
  <2>1. dump'.visited \in 1..(NodesNumber' + 1)
    BY <1>2, <1>3, <1>7, <1>8
  <2>2. DOMAIN dump'.node_ids = (Between(1, NodesNumber))'
    BY <1>4, <1>7, <1>8 DEF Between
  <2> QED
    BY <1>1, <1>7, <2>1, <2>2 DEF NumberedOK
<1> QED
    BY <1>1, <1>7, <1>9, DumpKeepsNodes DEF DumpPc

LEMMA NodeNotSaved ==
    ASSUME PickleInv, pickle_dump_save_no_memory, UNCHANGED saveVars, dump # NoDump
    PROVE  PickleInv'
<1>1. pc = "save" /\ pc \in DumpPc /\ Exception(dump) /\ UNCHANGED <<untouched, pickled, load>>
    BY DEF pickle_dump_save_no_memory, DumpPc
<1>2. DOMAIN dump = DOMAIN NewDump /\ NumberedOK
    BY <1>1, DumpRuns
<1> QED
    BY <1>1, <1>2, ExceptionStarts DEF NumberedOK

LEMMA TupleBuilt ==
    ASSUME PickleInv, BuildTuple, UNCHANGED saveVars, dump # NoDump PROVE PickleInv'
<1>1. pc = "save" /\ pc \in DumpPc /\ UNCHANGED <<untouched, pickled, load>>
    BY DEF BuildTuple, DumpPc
<1>2. /\ DOMAIN dump = DOMAIN NewDump /\ NumberedOK /\ NodesNumber \in Nat
      /\ dump.visited \in 1..(NodesNumber + 1)
    BY <1>1, DumpRuns
<1>3. DOMAIN dump.node_ids = Between(1, NodesNumber) /\ dump.failed_on = NULL
    BY <1>1, <1>2 DEF NumberedOK
<1>4. CASE Exception(dump)
    BY <1>1, <1>2, <1>3, <1>4, ExceptionStarts
<1>5. CASE ~Exception(dump)
  <2>1. PICK list : /\ pc' = "undo"
                    /\ dump' = [dump EXCEPT !.visited = 1, !.tuple =
                        [args |-> 7, damaged |-> FALSE, bytes_list |-> list,
                         kind |-> kind, store |-> store, count |-> count,
                         longest_word |-> longest_word, values |-> dump.values]]
    BY <1>5, Zenon DEF BuildTuple
  <2>2. /\ DOMAIN dump' = DOMAIN NewDump /\ dump'.visited = 1 /\ dump'.before = dump.before
        /\ dump'.node_ids = dump.node_ids /\ dump'.failed_on = NULL /\ dump'.tuple.args = 7
    BY <1>2, <1>3, <2>1 DEF NewDump
  <2>3. trie_traverse' = trie_traverse /\ NodesNumber' = NodesNumber
    BY <1>1, SameNodesOrder DEF untouched
  <2>4. NumberedOK'
    BY <1>2, <1>3, <2>1, <2>2, <2>3 DEF NumberedOK, Between
  <2> QED
    BY <1>1, <2>1, <2>2, <2>4, DumpKeepsNodes DEF DumpPc
<1> QED
    BY <1>4, <1>5

LEMMA LinkRestored ==
    ASSUME PickleInv, pickle_dump_undo_replace, UNCHANGED saveVars PROVE PickleInv'
<1>0. PICK v : v = dump.visited
    OBVIOUS
<1>1. /\ pc \in {"revert", "undo", "exception"} /\ pc \in DumpPc /\ ~Traversed /\ dump # NoDump
      /\ UNCHANGED <<others, pc, pickled, load>> /\ Visited # dump.failed_on
  <2>1. /\ pc \in {"revert", "undo", "exception"} /\ ~Traversed
        /\ UNCHANGED <<others, pc, pickled, load>> /\ Visited # dump.failed_on
    BY DEF pickle_dump_undo_replace
  <2> QED
    BY <2>1 DEF PickleInv, ControlOK, DumpPc
<1>2. /\ HeapOK(dump.before) /\ dump.before \in [DOMAIN dump.before -> TrieNode]
      /\ DOMAIN nodes = DOMAIN dump.before
      /\ Traversable
    BY <1>1, DumpFrame DEF PickleInv
<1>3. /\ DOMAIN dump = DOMAIN NewDump /\ kind # "EMPTY"
      /\ nodes = Overwritten(dump.before, DOMAIN dump.node_ids)
      /\ \A p \in DOMAIN dump.node_ids : dump.node_ids[p].fail = dump.before[p].fail
      /\ NumberedOK /\ NodesNumber \in Nat /\ v \in 1..(NodesNumber + 1)
      /\ pc = "undo" => dump.tuple.args = 7
    BY <1>0, <1>1, DumpRuns DEF PickleInv, DumpOK
<1>4. v \in 1..NodesNumber /\ Visited = trie_traverse[v]
    BY <1>0, <1>1, <1>3 DEF Traversed, NodesNumber, Visited
\* The nodes overwritten are those from v to m, of which v is not the last to go.
<1>5. PICK m \in v..NodesNumber :
        /\ DOMAIN dump.node_ids = Between(v, m)
        /\ pc = "revert" => m < NodesNumber /\ dump.failed_on = trie_traverse[m + 1]
        /\ pc # "revert" => m = NodesNumber /\ dump.failed_on = NULL
  <2>1. CASE pc = "revert"
    <3>1. PICK n \in v..NodesNumber :
            dump.failed_on = trie_traverse[n] /\ DOMAIN dump.node_ids = Between(v, n - 1)
      BY <1>0, <1>3, <2>1 DEF NumberedOK
    <3>2. n # v
      BY <1>1, <1>4, <3>1
    <3>3. n - 1 \in v..NodesNumber /\ n - 1 < NodesNumber /\ n - 1 + 1 = n
      BY <1>3, <1>4, <3>2
    <3> QED
      BY <2>1, <3>1, <3>3
  <2>2. CASE pc # "revert"
    <3>1. pc \in {"undo", "exception"} /\ NodesNumber \in v..NodesNumber
      BY <1>1, <1>3, <1>4, <2>2
    <3> QED
      BY <1>0, <1>3, <2>2, <3>1 DEF NumberedOK
  <2> QED
    BY <2>1, <2>2
<1>6. /\ Visited \in DOMAIN nodes /\ Visited \in DOMAIN dump.node_ids
      /\ DOMAIN dump.node_ids \ {Visited} = Between(v + 1, m)
  <2>1. v \in 1..(NodesNumber + 1) /\ m \in 0..NodesNumber /\ v <= m
    BY <1>3, <1>4
  <2> QED
    BY <1>2, <1>4, <1>5, <2>1, BetweenGrows
<1>7. /\ nodes' = [nodes EXCEPT ![Visited].fail = OriginalFail]
      /\ dump' = [dump EXCEPT !.visited = @ + 1,
                              !.node_ids = [p \in DOMAIN @ \ {Visited} |-> @[p]]]
    BY DEF pickle_dump_undo_replace
<1>8. /\ DOMAIN dump' = DOMAIN NewDump
      /\ dump'.visited = v + 1 /\ dump'.before = dump.before /\ dump'.tuple = dump.tuple
      /\ dump'.failed_on = dump.failed_on
      /\ DOMAIN dump'.node_ids = DOMAIN dump.node_ids \ {Visited}
      /\ \A p \in DOMAIN dump'.node_ids : dump'.node_ids[p] = dump.node_ids[p]
    BY <1>0, <1>3, <1>7 DEF NewDump
<1>9. dump' # NoDump
    BY <1>8 DEF NewDump, NoDump
<1>10. heap' = heap
    BY <1>1, <1>8, <1>9 DEF heap
<1>11. nodes' = Overwritten(dump.before, DOMAIN dump.node_ids \ {Visited})
  <2>1. dump.before[Visited] \in TrieNode /\ OriginalFail = dump.before[Visited].fail
    BY <1>2, <1>3, <1>6 DEF OriginalFail
  <2>2. nodes[Visited] = [dump.before[Visited] EXCEPT !.fail = NODEID]
    BY <1>2, <1>3, <1>6 DEF Overwritten
  <2>3. [nodes[Visited] EXCEPT !.fail = OriginalFail] = dump.before[Visited]
    BY <2>1, <2>2 DEF TrieNode
  <2>4. nodes' = [p \in DOMAIN nodes |-> IF p = Visited THEN dump.before[p] ELSE nodes[p]]
    BY <1>6, <1>7, <2>3
  <2>5. \A p \in DOMAIN nodes : nodes[p] = IF p \in DOMAIN dump.node_ids
                                         THEN [dump.before[p] EXCEPT !.fail = NODEID]
                                         ELSE dump.before[p]
    BY <1>2, <1>3 DEF Overwritten
  <2> QED
    BY <1>2, <2>4, <2>5 DEF Overwritten
<1>12. trie_traverse' = trie_traverse /\ NodesNumber' = NodesNumber
  <2>1. DOMAIN nodes' = DOMAIN nodes
    BY <1>7
  <2>2. \A p \in DOMAIN nodes : nodes'[p].next = nodes[p].next
    BY <1>7
  <2> QED
    BY <1>2, <2>1, <2>2, SameTraversal
<1>13. NumberedOK'
  <2>1. (Between(dump.visited, m))' = Between(v + 1, m)
    BY <1>8, <1>12 DEF Between
  <2>2. dump'.visited \in 1..(NodesNumber' + 1)
    BY <1>3, <1>4, <1>8, <1>12
  <2>3. DOMAIN dump'.node_ids = (Between(dump.visited, m))'
    BY <1>6, <1>8, <2>1
  <2>4. CASE pc = "revert"
    <3>1. m + 1 \in dump'.visited..NodesNumber' /\ m + 1 - 1 = m
      BY <1>3, <1>4, <1>5, <1>8, <1>12, <2>4
    <3>2. dump'.failed_on = trie_traverse'[m + 1]
      BY <1>5, <1>8, <1>12, <2>4
    <3> QED
      BY <1>1, <2>2, <2>3, <2>4, <3>1, <3>2 DEF NumberedOK
  <2>5. CASE pc # "revert"
    <3>1. pc' \in {"undo", "exception"} /\ m = NodesNumber' /\ dump'.failed_on = NULL
      BY <1>1, <1>5, <1>8, <1>12, <2>5
    <3> QED
      BY <2>2, <2>3, <3>1 DEF NumberedOK
  <2> QED
    BY <2>4, <2>5
<1>14. DumpOK'
  <2>1. DOMAIN dump' = DOMAIN NewDump'
    BY <1>8 DEF NewDump
  <2>2. (nodes = Overwritten(dump.before, DOMAIN dump.node_ids))'
    BY <1>8, <1>11 DEF Overwritten
  <2>3. kind' # "EMPTY" /\ (pc' = "undo" => dump'.tuple.args = 7)
    BY <1>1, <1>3, <1>8 DEF others
  <2>4. \A p \in DOMAIN dump'.node_ids : dump'.node_ids[p].fail = dump'.before[p].fail
    BY <1>3, <1>8
  <2> QED
    BY <1>13, <2>1, <2>2, <2>3, <2>4 DEF DumpOK
<1> QED
    BY <1>1, <1>9, <1>10, <1>14, DumpStep

\* __reduce__ returns when no link is overwritten any more.
LEMMA DumpEnds ==
    ASSUME PickleInv, dump # NoDump, pc \in DumpPc, DOMAIN dump.node_ids = {},
           dump' = NoDump, pc' = "idle", UNCHANGED <<untouched, load, saveVars>>
    PROVE  PickleInv' /\ nodes' = dump.before
<1>1. nodes = dump.before
    BY NoneOverwritten DEF PickleInv
<1>2. heap' = heap
    BY <1>1 DEF heap, untouched
<1>3. DumpOK'
    BY DEF DumpOK
<1> QED
    BY <1>1, <1>2, <1>3, DumpStep DEF untouched

\* A step with which __reduce__ raises or returns.
DumpDone == RevertDone \/ UndoDone \/ ExceptionDone

LEMMA DumpFinishes ==
    ASSUME PickleInv, DumpDone, UNCHANGED saveVars, dump # NoDump
    PROVE  PickleInv' /\ (pc' = "idle" => nodes' = dump.before)
<1>1. pc \in {"revert", "undo", "exception"} /\ pc \in DumpPc /\ UNCHANGED <<untouched, load>>
    BY DEF DumpDone, RevertDone, UndoDone, ExceptionDone, DumpPc
<1>2. /\ DOMAIN dump = DOMAIN NewDump /\ NumberedOK /\ NodesNumber \in Nat
      /\ Traversable /\ dump.visited \in 1..(NodesNumber + 1)
    BY <1>1, DumpRuns
<1>3. CASE RevertDone
  <2>1. pc = "revert" /\ Visited = dump.failed_on /\ pc' = "idle" /\ dump' = NoDump
    BY <1>3 DEF RevertDone, ReturnError
  <2>2. PICK m \in dump.visited..NodesNumber :
            /\ dump.failed_on = trie_traverse[m]
            /\ DOMAIN dump.node_ids = Between(dump.visited, m - 1)
    BY <1>2, <2>1 DEF NumberedOK
  <2>3. m = dump.visited
    BY <1>2, <2>1, <2>2, TraversesAll DEF Visited
  <2>4. DOMAIN dump.node_ids = {}
    BY <1>2, <2>2, <2>3 DEF Between
  <2> QED
    BY <1>1, <2>1, <2>4, DumpEnds
<1>4. ASSUME pc \in {"undo", "exception"}, Traversed PROVE DOMAIN dump.node_ids = {}
  <2>1. dump.visited > NodesNumber
    BY <1>4 DEF Traversed, NodesNumber
  <2> QED
    BY <1>2, <1>4, <2>1 DEF NumberedOK, Between
<1>5. CASE UndoDone
  <2>1. pc = "undo" /\ Traversed /\ pc' = "idle" /\ dump' = NoDump
    BY <1>5 DEF UndoDone
  <2> QED
    BY <1>1, <1>4, <2>1, DumpEnds
<1>6. CASE ExceptionDone /\ dump.bytes_list # FREED
  <2>1. pc = "exception" /\ Traversed /\ pc' = "idle" /\ dump' = NoDump
    BY <1>6 DEF ExceptionDone, ReturnError
  <2> QED
    BY <1>1, <1>4, <2>1, DumpEnds
<1>7. CASE ExceptionDone /\ dump.bytes_list = FREED
  <2>1. pc' = "crash" /\ UNCHANGED <<dump, pickled>>
    BY <1>7 DEF ExceptionDone
  <2> QED
    BY <1>1, <1>2, <2>1, DumpKeepsNodes
<1> QED
    BY <1>3, <1>5, <1>6, <1>7 DEF DumpDone

\* The first crash: the link read is FREED, which only a TRIE may have.
LEMMA DumpCrashes ==
    ASSUME PickleInv, pickle_dump_save_crashes, UNCHANGED saveVars, dump # NoDump
    PROVE  PickleInv' /\ SafeUnlessStale'
<1>1. /\ pc = "save" /\ pc \in DumpPc /\ ~Traversed /\ pc' = "crash"
      /\ OriginalFail \notin DOMAIN nodes \cup {NULL}
      /\ UNCHANGED <<untouched, dump, pickled, load>>
    BY DEF pickle_dump_save_crashes, DumpPc
<1>2. /\ DOMAIN dump = DOMAIN NewDump /\ NumberedOK /\ NodesNumber \in Nat
      /\ dump.visited \in 1..(NodesNumber + 1) /\ Traversable /\ kind # "EMPTY"
    BY <1>1, DumpRuns
<1>3. PickleInv'
    BY <1>1, <1>2, DumpKeepsNodes
<1>4. Visited \in DOMAIN dump.node_ids /\ Visited \in DOMAIN nodes
  <2>1. dump.visited \in 1..NodesNumber
    BY <1>1, <1>2 DEF Traversed, NodesNumber
  <2>2. DOMAIN dump.node_ids = Between(1, NodesNumber)
    BY <1>1, <1>2 DEF NumberedOK
  <2> QED
    BY <1>2, <2>1, <2>2, TraversesAll DEF Visited, Between
<1>5. OriginalFail = dump.before[Visited].fail
    BY <1>4 DEF PickleInv, DumpOK, OriginalFail
<1>6. HeapOK(dump.before) /\ DOMAIN nodes = DOMAIN dump.before
    BY DumpFrame DEF PickleInv
<1>7. dump.before[Visited].fail = FREED
    BY <1>1, <1>4, <1>5, <1>6 DEF HeapOK, LinksOK, PointersLive
<1>8. kind = "TRIE"
  <2>1. kind \in {"EMPTY", "TRIE", "AHOCORASICK"}
    BY DEF PickleInv, CoreOK, ScalarsOK
  <2>2. kind # "AHOCORASICK"
    BY <1>4, <1>6, <1>7 DEF HeapOK, LinksOK, NoneFreed
  <2> QED
    BY <1>2, <2>1, <2>2
<1>9. SafeUnlessStale'
    BY <1>1, <1>4, <1>7, <1>8 DEF SafeUnlessStale, untouched, others
<1> QED
    BY <1>3, <1>9

LEMMA PickleDamaged ==
    ASSUME PickleInv, Damage, UNCHANGED saveVars PROVE PickleInv'
<1>1. /\ pc = "idle" /\ load = NoLoad /\ pickled.args = 7 /\ UNCHANGED <<vars, dump, load>>
    BY Zenon DEF Damage
<1>2. pickled # NotPickled /\ dump = NoDump
    BY <1>1 DEF PickleInv, ControlOK, NotPickled
<1>3. heap' = heap
    BY <1>1, <1>2 DEF heap, vars, object
<1>4. CoreOK'
    BY <1>1, <1>2, <1>3, SameCore DEF PickleInv, vars, object
<1>5. ControlOK'
    BY <1>1, <1>2 DEF PickleInv, ControlOK, Quiet, saveVars, vars, NoLoad
<1>6. ConstructorOK' /\ DumpOK'
    BY <1>1, <1>2 DEF ConstructorOK, NothingLeft, NoLoad, DumpOK
<1> QED
    BY <1>4, <1>5, <1>6 DEF PickleInv, Quiet, saveVars

-----------------------------------------------------------------------------
(* The constructor. *)

\* What every step of the constructor has in common.
LEMMA LoadStepFrame ==
    ASSUME PickleInv, pickled # NotPickled, UNCHANGED <<untouched, dump, pickled, saveVars>>,
           pc \in {"idle", "make_nodes", "restore"}, ConstructorOK',
           \/ pc' \in {"make_nodes", "restore"} /\ load'.result = "running"
           \/ pc' = "idle" /\ load'.result # "running"
    PROVE  PickleInv'
<1>1. dump = NoDump
    BY DEF PickleInv, ControlOK
<1>2. heap' = heap
    BY <1>1 DEF heap, untouched
<1>3. UNCHANGED <<kind, store, count, longest_word, version, stats, refs, locals>>
    BY DEF untouched, others
<1>4. CoreOK'
  <2>1. (pc = "idle" \/ pc \notin Pc) /\ (pc' \in {"idle", "crash"} \/ pc' \notin Pc)
    BY DEF Pc
  <2> QED
    BY <1>1, <1>2, <1>3, <2>1, SameCore DEF PickleInv
<1>5. ControlOK'
    BY <1>1 DEF PickleInv, ControlOK, Quiet, saveVars, DumpPc, Pc, NoLoad, NoSave, NoLoading
<1>6. DumpOK'
    BY <1>1 DEF DumpOK
<1> QED
    BY <1>4, <1>5, <1>6 DEF PickleInv, Quiet, saveVars

\* The places among the first n where `values' holds o; each is counted once.
TakenAt(values, n, o) == {j \in 1..n : values[j] = o}

LEMMA TakenCount ==
    ASSUME NEW values, NEW n \in Nat, NEW o
    PROVE  /\ Cardinality(TakenAt(values, n, o)) \in Nat
           /\ Cardinality(TakenAt(values, n + 1, o))
                = Cardinality(TakenAt(values, n, o)) + Bool(values[n + 1] = o)
<1> USE DEF TakenAt
<1> DEFINE T(m) == TakenAt(values, m, o)
<1>1. IsFiniteSet(1..n)
    BY FS_Interval
<1>2. T(n) \in SUBSET (1..n)
    OBVIOUS
<1>3. IsFiniteSet(T(n))
    BY <1>1, <1>2, FS_Subset
<1>4. n + 1 \notin T(n)
    OBVIOUS
<1>5. T(n + 1) = IF values[n + 1] = o THEN T(n) \cup {n + 1} ELSE T(n)
  <2>1. \A j : j \in 1..(n + 1) <=> j \in 1..n \/ j = n + 1
    OBVIOUS
  <2> QED
    BY <2>1
<1> HIDE DEF T, TakenAt
<1>6. Cardinality(T(n)) \in Nat
    BY <1>3, FS_CardinalityType
<1>7. Cardinality(T(n) \cup {n + 1}) = Cardinality(T(n)) + 1
    BY <1>3, <1>4, FS_AddElement
<1>8. Cardinality(T(n + 1)) = Cardinality(T(n)) + Bool(values[n + 1] = o)
    BY <1>5, <1>6, <1>7 DEF Bool
<1> QED
    BY <1>6, <1>8 DEF T

\* A constructor that refuses frees what is in id2node and releases the values it took.
LEMMA Refuses ==
    ASSUME PickleInv, pickled # NotPickled, UNCHANGED <<untouched, dump, pickled, saveVars>>,
           pc \in {"idle", "make_nodes", "restore"}, NEW l, NEW exc, NEW S,
           Refuse(l, exc), exc \notin {"none", "running", "automaton"},
           l.id2node \in Seq(S), l.live = Len(l.id2node), l.object_idx \in Nat,
           l.refs = Taken(pickled.values, l.object_idx)
    PROVE  PickleInv'
<1>1. /\ load' = [result |-> exc, live |-> l.live - Len(l.id2node),
                  refs |-> IF pickled.values = NULL THEN l.refs ELSE Released(l.refs, l.object_idx)]
      /\ pc' = "idle"
    BY DEF Refuse
<1>2. load'.live = 0
    BY <1>1, LenProperties
<1>3. load'.refs = [o \in Objects |-> 0]
  <2>1. CASE pickled.values = NULL
    BY <1>1, <2>1 DEF Taken
  <2>2. CASE pickled.values # NULL
    <3> DEFINE c(o) == Cardinality({j \in 1..l.object_idx : pickled.values[j] = o})
    <3>1. \A o \in Objects : l.refs[o] = c(o)
      BY <2>2 DEF Taken
    <3>2. \A o \in Objects : c(o) = Cardinality(TakenAt(pickled.values, l.object_idx, o))
      BY DEF TakenAt
    <3>3. load'.refs = [o \in Objects |-> l.refs[o] - c(o)]
      BY <1>1, <2>2 DEF Released
    <3> HIDE DEF c
    <3>6. \A o \in Objects : Cardinality(TakenAt(pickled.values, l.object_idx, o)) \in Nat
      BY TakenCount
    <3>5. \A o \in Objects : c(o) \in Nat
      BY <3>2, <3>6
    <3>4. \A o \in Objects : l.refs[o] - c(o) = 0
      BY <3>1, <3>5
    <3> QED
      BY <3>3, <3>4
  <2> QED
    BY <2>1, <2>2
<1>4. ConstructorOK'
    BY <1>1, <1>2, <1>3 DEF ConstructorOK, NothingLeft
<1> QED
    BY <1>1, <1>4, LoadStepFrame

LEMMA NewLoadFields ==
    /\ DOMAIN NewLoad = {"result", "chunk", "item", "offset", "id2node", "live", "restored",
                         "object_idx", "refs"}
    /\ NewLoad.result = "running"
    /\ NewLoad.id2node = <<>> /\ NewLoad.live = 0 /\ NewLoad.object_idx = 0
    /\ NewLoad.refs = Taken(pickled.values, 0)
<1>1. Cardinality({}) = 0
    BY FS_EmptySet
<1>2. \A o : {j \in 1..0 : pickled.values[j] = o} = {}
    OBVIOUS
<1>3. Taken(pickled.values, 0) = [o \in Objects |-> 0]
    BY <1>1, <1>2 DEF Taken
<1> QED
    BY <1>3 DEF NewLoad

LEMMA ConstructorStarts ==
    ASSUME PickleInv, automaton_new, UNCHANGED saveVars PROVE PickleInv'
<1>1. /\ pc = "idle" /\ dump = NoDump /\ pickled # NotPickled /\ load = NoLoad
      /\ UNCHANGED <<untouched, dump, pickled>>
    BY DEF automaton_new
<1>2. <<>> \in Seq({}) /\ Len(<<>>) = 0
    BY EmptySeq
<1>3. ASSUME NEW exc \in {"ValueError", "MemoryError"}, Refuse(NewLoad, exc) PROVE PickleInv'
  <2>1. exc \notin {"none", "running", "automaton"} /\ pc \in {"idle", "make_nodes", "restore"}
    BY <1>1, <1>3
  <2>2. /\ NewLoad.id2node \in Seq({}) /\ NewLoad.live = Len(NewLoad.id2node)
        /\ NewLoad.object_idx \in Nat
        /\ NewLoad.refs = Taken(pickled.values, NewLoad.object_idx)
    BY <1>2, NewLoadFields
  <2> QED
    BY <1>1, <1>3, <2>1, <2>2, Refuses
<1>4. ASSUME load' = NewAutomaton(pickled), UNCHANGED pc PROVE PickleInv'
  <2>1. load'.result = "automaton"
    BY <1>4 DEF NewAutomaton
  <2>2. ConstructorOK'
    BY <2>1 DEF ConstructorOK, NothingLeft
  <2> QED
    BY <1>1, <1>4, <2>1, <2>2, LoadStepFrame
<1>5. ASSUME load' = NewLoad, pc' = "make_nodes" PROVE PickleInv'
  <2>1. load'.result = "running" /\ DOMAIN load' = DOMAIN NewLoad
    BY <1>5, NewLoadFields
  <2>2. load'.live = Len(load'.id2node) /\ \E S : load'.id2node \in Seq(S)
    BY <1>2, <1>5, NewLoadFields
  <2>3. load'.object_idx \in Nat /\ load'.refs = Taken(pickled.values, load'.object_idx)
    BY <1>5, NewLoadFields
  <2>4. ConstructorOK'
    BY <1>1, <2>1, <2>2, <2>3 DEF ConstructorOK, NothingLeft, NewLoad, Taken
  <2> QED
    BY <1>1, <1>5, <2>1, <2>4, LoadStepFrame
<1> QED
    BY <1>3, <1>4, <1>5 DEF automaton_new

LEMMA NodeMade ==
    ASSUME PickleInv, MakeNode, UNCHANGED saveVars PROVE PickleInv'
<1>1. /\ pc = "make_nodes" /\ UNCHANGED <<untouched, dump, pickled>>
    BY DEF MakeNode
<1>2. load.result = "running" /\ pickled # NotPickled
    BY <1>1 DEF PickleInv, ControlOK, NoLoad
<1>3. /\ DOMAIN load = DOMAIN NewLoad /\ load.live = Len(load.id2node)
      /\ load.object_idx \in Nat /\ load.refs = Taken(pickled.values, load.object_idx)
    BY <1>2 DEF PickleInv, ConstructorOK
<1>4. PICK S : load.id2node \in Seq(S)
    BY <1>2 DEF PickleInv, ConstructorOK
<1>5. /\ Allocated.id2node \in Seq(S \cup {Raw}) /\ Allocated.live = Len(Allocated.id2node)
      /\ Allocated.object_idx = load.object_idx /\ Allocated.refs = load.refs
      /\ DOMAIN Allocated = DOMAIN NewLoad /\ Allocated.result = "running"
  <2>1. /\ Allocated.live = load.live + 1 /\ Allocated.id2node = Append(load.id2node, Raw)
        /\ Allocated.object_idx = load.object_idx /\ Allocated.refs = load.refs
        /\ DOMAIN Allocated = DOMAIN NewLoad /\ Allocated.result = "running"
    BY <1>2, <1>3 DEF Allocated, NewLoad
  <2>2. load.id2node \in Seq(S \cup {Raw}) /\ Raw \in S \cup {Raw}
    BY <1>4, SeqMonotonic
  <2>3. Append(load.id2node, Raw) \in Seq(S \cup {Raw})
        /\ Len(Append(load.id2node, Raw)) = Len(load.id2node) + 1
    BY <2>2, AppendProperties
  <2> QED
    BY <1>3, <2>1, <2>3
<1> HIDE DEF Allocated
<1>6. ASSUME NEW exc \in {"ValueError", "MemoryError"}, Refuse(load, exc) PROVE PickleInv'
  <2>1. exc \notin {"none", "running", "automaton"} /\ pc \in {"idle", "make_nodes", "restore"}
    BY <1>1, <1>6
  <2> QED
    BY <1>1, <1>2, <1>3, <1>4, <1>6, <2>1, Refuses
<1>7. ASSUME NEW exc \in {"ValueError", "MemoryError"}, Refuse(Allocated, exc) PROVE PickleInv'
  <2>1. exc \notin {"none", "running", "automaton"} /\ pc \in {"idle", "make_nodes", "restore"}
    BY <1>1, <1>7
  <2> QED
    BY <1>1, <1>2, <1>3, <1>5, <1>7, <2>1, Refuses
<1>8. ASSUME NEW f, NEW g, NEW h,
             \/ load' = [Allocated EXCEPT !.item = f, !.offset = g]
             \/ load' = [Allocated EXCEPT !.item = f, !.chunk = h, !.offset = g],
             UNCHANGED pc
      PROVE  PickleInv'
  <2>1. /\ load'.id2node = Allocated.id2node /\ load'.live = Allocated.live
        /\ load'.object_idx = load.object_idx /\ load'.refs = load.refs
        /\ DOMAIN load' = DOMAIN NewLoad /\ load'.result = "running"
    BY <1>5, <1>8 DEF NewLoad
  <2>2. \E T : load'.id2node \in Seq(T)
    BY <1>5, <2>1
  <2>3. ConstructorOK'
    BY <1>1, <1>3, <1>5, <2>1, <2>2 DEF ConstructorOK, NothingLeft, Taken, NewLoad
  <2> QED
    BY <1>1, <1>2, <1>8, <2>1, <2>3, LoadStepFrame
<1> QED
    BY <1>6, <1>7, <1>8, Zenon DEF MakeNode

LEMMA NodeRestored ==
    ASSUME PickleInv, RestoreNode, UNCHANGED saveVars PROVE PickleInv'
<1> DEFINE j == load.restored + 1
           raw == load.id2node[j]
           n == load.object_idx
           valued == pickled.values # NULL /\ raw.eow
           value == pickled.values[n + 1]
           l == IF valued THEN [load EXCEPT !.object_idx = @ + 1, !.refs[value] = @ + 1] ELSE load
<1>1. /\ pc = "restore" /\ UNCHANGED <<untouched, dump, pickled>>
    BY DEF RestoreNode
<1>2. load.result = "running" /\ pickled # NotPickled
    BY <1>1 DEF PickleInv, ControlOK, NoLoad
<1>3. /\ DOMAIN load = DOMAIN NewLoad /\ load.live = Len(load.id2node)
      /\ n \in Nat /\ load.refs = Taken(pickled.values, n)
    BY <1>2 DEF PickleInv, ConstructorOK
<1>4. PICK S : load.id2node \in Seq(S)
    BY <1>2 DEF PickleInv, ConstructorOK
<1>5. /\ l.id2node = load.id2node /\ l.live = load.live /\ l.object_idx \in Nat
      /\ l.refs = Taken(pickled.values, l.object_idx)
      /\ DOMAIN l = DOMAIN NewLoad /\ l.result = "running"
  <2> HIDE DEF raw
  <2>1. CASE ~valued
    BY <1>2, <1>3, <2>1
  <2>2. CASE valued
    <3> HIDE DEF n, value
    <3>0. n \in Nat
      BY <1>3 DEF n
    <3>1. /\ l.id2node = load.id2node /\ l.live = load.live
          /\ l.object_idx = n + 1
          /\ l.refs = [load.refs EXCEPT ![value] = @ + 1]
          /\ DOMAIN l = DOMAIN NewLoad /\ l.result = "running"
      BY <1>2, <1>3, <2>2 DEF NewLoad, n
    <3>2. pickled.values # NULL
      BY <2>2
    <3>3. ASSUME NEW o \in Objects
          PROVE  Taken(pickled.values, n + 1)[o] = Taken(pickled.values, n)[o] + Bool(value = o)
                 /\ Taken(pickled.values, n)[o] \in Nat
      <4>1. /\ Cardinality(TakenAt(pickled.values, n, o)) \in Nat
            /\ Cardinality(TakenAt(pickled.values, n + 1, o))
                = Cardinality(TakenAt(pickled.values, n, o)) + Bool(pickled.values[n + 1] = o)
        BY <3>0, TakenCount
      <4>2. Taken(pickled.values, n)[o] = Cardinality(TakenAt(pickled.values, n, o))
            /\ Taken(pickled.values, n + 1)[o] = Cardinality(TakenAt(pickled.values, n + 1, o))
        BY <3>2 DEF Taken, TakenAt
      <4> QED
        BY <4>1, <4>2 DEF value
    <3>4. DOMAIN Taken(pickled.values, n) = Objects
      BY DEF Taken
    <3>5. Taken(pickled.values, n + 1) = [o \in Objects |-> Taken(pickled.values, n + 1)[o]]
      BY DEF Taken
    <3>6. l.refs = [o \in Objects |-> IF o = value THEN Taken(pickled.values, n)[o] + 1
                                      ELSE Taken(pickled.values, n)[o]]
      BY <1>3, <3>1, <3>4
    <3>7. \A o \in Objects : Taken(pickled.values, n + 1)[o]
            = IF o = value THEN Taken(pickled.values, n)[o] + 1 ELSE Taken(pickled.values, n)[o]
      BY <3>3 DEF Bool
    <3>8. l.refs = Taken(pickled.values, n + 1)
      BY <3>5, <3>6, <3>7
    <3> QED
      BY <1>3, <3>1, <3>8
  <2> QED
    BY <2>1, <2>2
<1>6. ASSUME Refuse(load, "IndexError") PROVE PickleInv'
  <2>1. "IndexError" \notin {"none", "running", "automaton"}
        /\ pc \in {"idle", "make_nodes", "restore"}
    BY <1>1
  <2> QED
    BY <1>1, <1>2, <1>3, <1>4, <1>6, <2>1, Refuses
<1>7. ASSUME Refuse(l, "ValueError") PROVE PickleInv'
  <2> HIDE DEF l
  <2>1. "ValueError" \notin {"none", "running", "automaton"}
        /\ pc \in {"idle", "make_nodes", "restore"}
    BY <1>1
  <2>2. l.id2node \in Seq(S) /\ l.live = Len(l.id2node)
    BY <1>3, <1>4, <1>5
  <2> QED
    BY <1>1, <1>2, <1>5, <1>7, <2>1, <2>2, Refuses
<1>8. ASSUME NEW copy, load' = [l EXCEPT !.restored = j, !.id2node[j] = copy], UNCHANGED pc
      PROVE  PickleInv'
  <2> HIDE DEF l
  <2>1. /\ load'.id2node = [load.id2node EXCEPT ![j] = copy] /\ load'.live = load.live
        /\ load'.object_idx = l.object_idx /\ load'.refs = l.refs
        /\ DOMAIN load' = DOMAIN NewLoad /\ load'.result = "running"
    BY <1>5, <1>8 DEF NewLoad
  <2>2. /\ load'.id2node \in Seq(S \cup {copy}) /\ Len(load'.id2node) = Len(load.id2node)
    <3> HIDE DEF j
    <3>1. load.id2node \in Seq(S \cup {copy}) /\ copy \in S \cup {copy}
      BY <1>4, SeqMonotonic
    <3>2. [load.id2node EXCEPT ![j] = copy] \in Seq(S \cup {copy})
          /\ Len([load.id2node EXCEPT ![j] = copy]) = Len(load.id2node)
      <4>1. CASE j \in 1..Len(load.id2node)
        BY <3>1, <4>1, ExceptSeq
      <4>2. CASE j \notin 1..Len(load.id2node)
        <5>1. DOMAIN load.id2node = 1..Len(load.id2node)
              /\ load.id2node = [k \in DOMAIN load.id2node |-> load.id2node[k]]
          BY <3>1, LenProperties
        <5>2. [load.id2node EXCEPT ![j] = copy] = load.id2node
          BY <4>2, <5>1
        <5> QED
          BY <3>1, <5>2
      <4> QED
        BY <4>1, <4>2
    <3> QED
      BY <2>1, <3>2
  <2>3. ConstructorOK'
    BY <1>1, <1>3, <1>5, <2>1, <2>2 DEF ConstructorOK, NothingLeft, NewLoad, Taken
  <2> QED
    BY <1>1, <1>2, <1>8, <2>1, <2>3, LoadStepFrame
<1> QED
    BY <1>6, <1>7, <1>8, Zenon DEF RestoreNode

LEMMA ConstructorEnds ==
    ASSUME PickleInv, NodesMade \/ Restored, UNCHANGED saveVars PROVE PickleInv'
<1>1. /\ pc \in {"make_nodes", "restore"} /\ UNCHANGED <<untouched, dump, pickled>>
    BY DEF NodesMade, Restored
<1>2. load.result = "running" /\ pickled # NotPickled
    BY <1>1 DEF PickleInv, ControlOK, NoLoad
<1>3. CASE NodesMade
  <2>1. pc' = "restore" /\ UNCHANGED load
    BY <1>3 DEF NodesMade
  <2>2. ConstructorOK'
    BY <1>1, <2>1 DEF PickleInv, ConstructorOK, NothingLeft, Taken, NewLoad
  <2> QED
    BY <1>1, <1>2, <2>1, <2>2, LoadStepFrame
<1>4. CASE Restored
  <2>1. pc' = "idle" /\ load'.result = "automaton"
    BY <1>4 DEF Restored, NewAutomaton
  <2>2. ConstructorOK'
    BY <2>1 DEF ConstructorOK, NothingLeft
  <2> QED
    BY <1>1, <1>2, <2>1, <2>2, LoadStepFrame
<1> QED
    BY <1>3, <1>4

\* Pickling.
LEMMA PickleStepInvariant ==
    ASSUME PickleInv, PickleStep, UNCHANGED saveVars, pc # "crash"
    PROVE  /\ PickleInv'
           /\ pc' = "crash" => dump' # NoDump /\ SafeUnlessStale'
           /\ dump # NoDump /\ pc' = "idle" => nodes' = dump.before
<1>1. ASSUME dump # NoDump PROVE pc \in DumpPc
    BY <1>1 DEF PickleInv, ControlOK
<1>2. ASSUME dump = NoDump, pc \in {"number", "save", "revert", "undo", "exception"} PROVE save.at \in {"next", "exception"} /\ pc = "save"
    BY <1>2 DEF PickleInv, ControlOK, DumpPc
<1>3. ASSUME save.at \in {"next", "exception"} PROVE FALSE
    BY <1>3 DEF PickleInv, ControlOK, Quiet, NoSave, NoLoading
<1>4. ASSUME pc \in {"number", "save", "revert", "undo", "exception"} PROVE dump # NoDump
    BY <1>2, <1>3, <1>4
<1>5. CASE automaton___reduce__
  <2>1. dump = NoDump /\ pc' # "crash"
    BY <1>5 DEF automaton___reduce__
  <2> QED
    BY <1>5, <2>1, ReduceStarts
<1>6. CASE pickle_dump_replace_fail_with_id
  <2>1. pc' \notin {"crash", "idle"}
    BY <1>6 DEF pickle_dump_replace_fail_with_id
  <2> QED
    BY <1>6, <2>1, NodeNumbered
<1>7. CASE pickle_data__init
  <2>1. pc' \notin {"crash", "idle"}
    BY <1>7, Zenon DEF pickle_data__init, Exception
  <2> QED
    BY <1>7, <2>1, DataInit
<1>8. CASE pickle_dump_save
  <2>1. pc' \notin {"crash", "idle"} /\ dump # NoDump
    BY <1>4, <1>8 DEF pickle_dump_save
  <2> QED
    BY <1>8, <2>1, NodeSaved
<1>9. CASE pickle_dump_save_no_memory
  <2>1. pc' \notin {"crash", "idle"} /\ dump # NoDump
    BY <1>4, <1>9 DEF pickle_dump_save_no_memory, Exception
  <2> QED
    BY <1>9, <2>1, NodeNotSaved
<1>10. CASE pickle_dump_save_crashes
  <2>1. pc' = "crash" /\ dump # NoDump /\ dump' = dump
    BY <1>4, <1>10 DEF pickle_dump_save_crashes
  <2> QED
    BY <1>10, <2>1, DumpCrashes
<1>11. CASE BuildTuple
  <2>1. pc' \notin {"crash", "idle"} /\ dump # NoDump
    BY <1>4, <1>11 DEF BuildTuple, Exception
  <2> QED
    BY <1>11, <2>1, TupleBuilt
<1>12. CASE pickle_dump_undo_replace
  <2>1. pc' \notin {"crash", "idle"}
    BY <1>12 DEF pickle_dump_undo_replace
  <2> QED
    BY <1>12, <2>1, LinkRestored
<1>13. CASE DumpDone
  <2>1. dump # NoDump
    BY <1>4, <1>13 DEF DumpDone, RevertDone, UndoDone, ExceptionDone
  <2>2. pc' = "crash" => dump' = dump /\ dump.bytes_list = FREED
    BY <1>13 DEF DumpDone, RevertDone, UndoDone, ExceptionDone, ReturnError
  <2>3. pc' = "crash" => dump' # NoDump /\ SafeUnlessStale'
    BY <2>1, <2>2 DEF SafeUnlessStale
  <2> QED
    BY <1>13, <2>1, <2>3, DumpFinishes
<1>14. CASE Damage
  <2>1. pc' = "idle" /\ dump = NoDump
    BY <1>14, <1>1, Zenon DEF Damage, vars, DumpPc
  <2> QED
    BY <1>14, <2>1, PickleDamaged
<1>15. CASE automaton_new
  <2>1. pc' # "crash" /\ dump = NoDump
    BY <1>15 DEF automaton_new, Refuse
  <2> QED
    BY <1>15, <2>1, ConstructorStarts
<1>16. CASE MakeNode \/ RestoreNode \/ NodesMade \/ Restored
  <2>1. pc' # "crash" /\ dump = NoDump
    BY <1>1, <1>16, Zenon DEF MakeNode, RestoreNode, NodesMade, Restored, Refuse, DumpPc
  <2> QED
    BY <1>16, <2>1, NodeMade, NodeRestored, ConstructorEnds
<1> QED
    BY <1>5, <1>6, <1>7, <1>8, <1>9, <1>10, <1>11, <1>12, <1>13, <1>14, <1>15, <1>16
       DEF PickleStep, DumpDone

-----------------------------------------------------------------------------
(* The steps of save(). *)

\* What was written: what is in the buffer, then what is in the file.
LEMMA WrittenIs ==
    ASSUME NEW S
    PROVE  /\ Running => Written = Items(output)
           /\ ~Running /\ output.tokens \in Seq(S) => Written = output.tokens
<1>1. Running => Written = Items(output)
    BY DEF Written, Items, Cat
<1>2. ASSUME ~Running, output.tokens \in Seq(S) PROVE Written = output.tokens
  <2>1. Written = Cat(output.tokens, <<>>)
    BY <1>2 DEF Written, Cat
  <2>2. <<>> \in Seq(S)
    BY EmptySeq
  <2> QED
    BY <1>2, <2>1, <2>2, CatProperties
<1> QED
    BY <1>1, <1>2

LEMMA SameStack ==
    ASSUME nodes' = nodes, NEW e
    PROVE  (StackOK(e)' <=> StackOK(e)) /\ Waiting(e)' = Waiting(e)
<1>1. StackOK(e)' <=> StackOK(e)
    BY DEF StackOK
<1>2. \A p, j, q : Below(p, j, q)' <=> Below(p, j, q)
    BY DEF Below
<1>3. Waiting(e)' = Waiting(e)
    BY <1>2 DEF Waiting
<1> QED
    BY <1>1, <1>3

\* A save() that goes on, in the terms of its stack and its buffer.
Going(e, r, S) ==
    /\ Good(r, S) /\ r.size \in Nat /\ StackOK(e)
    /\ kind = "EMPTY" => e = <<>>
    /\ ~r.full => IF kind = "EMPTY" THEN Len(Items(r)) = 1
                  ELSE Addresses(Items(r)) = DOMAIN nodes \ Waiting(e)

LEMMA GoingOn ==
    ASSUME NEW S, NEW T, NEW e, NEW r, NEW p, e = save'.stack, r = output', e \in Seq(T), p = Last(e).node,
           UNCHANGED <<nodes, kind, store, count, longest_word>>, r.damaged = output.damaged,
           DOMAIN save' = DOMAIN NewSave, save'.at \in {"next", "serializer"}, Going(e, r, S),
           save'.at = "next" /\ ~r.full => Whole(Items(r)),
           save'.at = "serializer" =>
                /\ r.size > 0 /\ Len(e) > 1 /\ (~r.full => AtHead(Items(r), p))
                /\ nodes[p].eow /\ store = "ANY" /\ save'.bytes = <<Bytes(nodes[p].output)>>
    PROVE  SaveOK'
<1>1. PICK w : w = Items(r)
    OBVIOUS
<1>2. /\ IsBuffer(r, S) /\ WrittenOK(w) /\ (~r.full => w # <<>> /\ Unfinished(w))
      /\ r.size \in Nat /\ StackOK(e) /\ (kind = "EMPTY" => e = <<>>)
      /\ ~r.full => IF kind = "EMPTY" THEN Len(w) = 1 ELSE Addresses(w) = DOMAIN nodes \ Waiting(e)
    BY <1>1 DEF Going, Good
<1>3. Running' /\ Written' = w
  <2>1. Running'
    BY DEF Running
  <2>2. Written' = Items(r)
    BY <2>1, WrittenIs DEF Written, Items, Cat
  <2> QED
    BY <1>1, <2>1, <2>2
<1>4. /\ WrittenOK(w)' <=> WrittenOK(w)
      /\ Unfinished(w)' <=> Unfinished(w)
      /\ Addresses(w)' = Addresses(w)
    BY SameWritten
<1>5. (StackOK(e)' <=> StackOK(e)) /\ Waiting(e)' = Waiting(e)
    BY SameStack
<1>6. WrittenOK(Written)'
    BY <1>2, <1>3, <1>4
<1>7. StackOK(save.stack)'
    BY <1>2, <1>5
<1>8. ~r.full => OpenOK(w)'
  <2> SUFFICES ASSUME ~r.full PROVE OpenOK(w)'
    OBVIOUS
  <2>1. \A k : Closed(w, k)' <=> Closed(w, k)
    BY DEF Closed, End, Linked, Valued, Bool
  <2>2. CASE save'.at = "next"
    <3>1. \A k \in DOMAIN w : w[k].type = "address" => Closed(w, k)
      BY <1>1, <2>2 DEF Whole
    <3> QED
      BY <2>1, <2>2, <3>1 DEF OpenOK
  <2>3. CASE save'.at = "serializer"
    <3>1. PICK k0 \in Nat \ {0} :
            /\ Len(w) = k0 + 1 /\ w[k0].type = "address" /\ w[k0].node = p
            /\ \A k \in DOMAIN w : w[k].type = "address" /\ k # k0 => Closed(w, k)
      BY <1>1, <2>3 DEF AtHead
    <3>2. w \in Seq(S)
      BY <1>1, <1>2, ItemsType
    <3>3. DOMAIN w = 1..Len(w)
      BY <3>2, LenProperties
    <3>4. k0 \in DOMAIN w
      BY <3>1, <3>3
    <3>5. \A k \in DOMAIN w : w[k].type = "address" /\ w[k].node = p => k = k0
      BY <1>2, <3>1, <3>4 DEF WrittenOK
    <3>6. \A k \in DOMAIN w : w[k].type = "address" =>
              IF w[k].node = p THEN k + 1 = Len(w) ELSE Closed(w, k)
      BY <3>1, <3>5
    <3> QED
      BY <2>1, <2>3, <3>6 DEF OpenOK
  <2> QED
    BY <2>2, <2>3
<1>9. ~r.full => (Written # <<>> /\ Unfinished(Written) /\ OpenOK(Written))'
    BY <1>2, <1>3, <1>4, <1>8
<1>10. ~r.full => (IF kind = "EMPTY" THEN Len(Written) = 1
                   ELSE Addresses(Written) = DOMAIN nodes \ Waiting(save.stack))'
  <2>1. Addresses(Written)' = Addresses(w)'
    BY <1>3
  <2>2. Waiting(save.stack)' = Waiting(e)'
    OBVIOUS
  <2> QED
    BY <1>2, <1>3, <1>4, <1>5, <2>1, <2>2
<1>11. (save.at = "serializer" =>
        LET q == Last(save.stack).node
        IN  /\ output.size > 0 /\ Len(save.stack) > 1
            /\ nodes[q].eow /\ store = "ANY" /\ save.bytes = <<Bytes(nodes[q].output)>>)'
    BY DEF Bytes
<1>12. (\E U : save.stack \in Seq(U))' /\ (kind = "EMPTY" => save.stack = <<>>)' /\ (output.size \in Nat)'
    BY <1>2
<1>13. SavingOK'
    BY <1>7, <1>9, <1>10, <1>11, <1>12 DEF SavingOK
<1>14. (\E U : IsBuffer(output, U))'
    BY <1>2 DEF IsBuffer
<1>15. save' # NoSave'
    BY DEF NoSave
<1> QED
    BY <1>3, <1>6, <1>13, <1>14, <1>15 DEF SaveOK

\* save() begins with the header.
LEMMA HeaderWritten ==
    ASSUME NEW r, r = savebuffer_store(NewBuffer, Header, "written")
    PROVE  /\ Good(r, {Header}) /\ r.size \in Nat /\ r.full = FALSE /\ r.damaged = FALSE
           /\ Items(r) = <<Header>> /\ Addresses(Items(r)) = {} /\ Whole(Items(r))
<1> DEFINE S == {Header}
           w == <<Header>>
<1>1. Capacity \in Nat /\ 12 < Capacity
    BY SaveAssumption DEF sizeof_Header
<1>2. Header.size = 12 /\ Header.type = "header"
    BY DEF Header, sizeof_Header
<1>3. r = Hold(NewBuffer, Header)
  <2>1. savebuffer_flush(NewBuffer, "written") = NewBuffer
    BY DEF savebuffer_flush, NewBuffer
  <2>2. ~(Header.size > Capacity)
    BY <1>1, <1>2
  <2> QED
    BY <2>1, <2>2 DEF savebuffer_store
<1>4. /\ DOMAIN NewBuffer = {"tokens", "full", "damaged", "held", "size", "error", "nodes_count"}
      /\ NewBuffer.tokens = <<>> /\ NewBuffer.held = <<>> /\ NewBuffer.size = 0
      /\ NewBuffer.full = FALSE /\ NewBuffer.damaged = FALSE
    BY DEF NewBuffer
<1>5. /\ DOMAIN r = DOMAIN NewBuffer
      /\ r.tokens = <<>> /\ r.held = Append(<<>>, Header) /\ r.size = 12
      /\ r.full = FALSE /\ r.damaged = FALSE
  <2>1. PICK h : h = Header
    OBVIOUS
  <2>2. PICK b : b = NewBuffer
    OBVIOUS
  <2>3. r = [b EXCEPT !.held = Append(@, h), !.size = @ + h.size]
    BY <1>3, <2>1, <2>2 DEF Hold
  <2>4. h.size = 12 /\ 0 + 12 = 12
    BY <1>2, <2>1
  <2>5. /\ DOMAIN b = {"tokens", "full", "damaged", "held", "size", "error", "nodes_count"}
        /\ b.tokens = <<>> /\ b.held = <<>> /\ b.size = 0
        /\ b.full = FALSE /\ b.damaged = FALSE
    BY <1>4, <2>2
  <2>6. DOMAIN r = DOMAIN b /\ r.tokens = <<>> /\ r.full = FALSE /\ r.damaged = FALSE
    BY <2>3, <2>5
  <2>7. r.held = Append(<<>>, h)
    BY <2>3, <2>5
  <2>8. r.size = 12
    BY <2>3, <2>4, <2>5
  <2> QED
    BY <2>1, <2>2, <2>6, <2>7, <2>8
<1>6. r.held = w /\ r.held \in Seq(S) /\ r.tokens \in Seq(S)
  <2>1. \A h : Append(<<>>, h) = <<h>> /\ <<h>> \in Seq({h}) /\ <<>> \in Seq({h})
    OBVIOUS
  <2> QED
    BY <1>5, <2>1
<1>7. IsBuffer(r, S)
    BY <1>5, <1>6 DEF IsBuffer
<1>8. Items(r) = w
  <2>1. Items(r) = Cat(<<>>, w)
    BY <1>5, <1>6 DEF Items
  <2>2. w \in Seq(S)
    BY <1>6
  <2> QED
    BY <2>1, <2>2, CatProperties
<1>9. Len(w) = 1 /\ w[1] = Header /\ DOMAIN w = 1..1 /\ w # <<>>
    OBVIOUS
<1> HIDE DEF w
<1>10. \A k \in DOMAIN w : k = 1 /\ w[k].type = "header"
    BY <1>2, <1>9
<1>11. WrittenOK(w)
    BY <1>9, <1>10 DEF WrittenOK
<1>12. Unfinished(w) /\ Whole(w)
    BY <1>10 DEF Unfinished, Whole
<1>13. Addresses(w) = {}
    BY <1>10 DEF Addresses
<1> QED
  <2>1. Good(r, S)
    BY <1>7, <1>8, <1>9, <1>11, <1>12 DEF Good
  <2>2. r.size \in Nat
    BY <1>5
  <2> QED
    BY <1>5, <1>8, <1>12, <1>13, <2>1, <2>2 DEF w

LEMMA SaveBegins ==
    ASSUME SaveOK, automaton_save PROVE SaveOK'
<1>1. PICK r : r = output'
    OBVIOUS
<1>2. PICK e : e = save'.stack
    OBVIOUS
<1>3. /\ r = savebuffer_store(NewBuffer, Header, "written")
      /\ save' = IF kind = "EMPTY" THEN [NewSave EXCEPT !.stack = <<>>] ELSE NewSave
      /\ UNCHANGED <<nodes, kind, store, count, longest_word>>
    BY <1>1 DEF automaton_save, unsaved, object
<1>4. PICK S : S = {Header}
    OBVIOUS
<1>5. /\ Good(r, S) /\ r.size \in Nat /\ r.full = FALSE /\ r.damaged = FALSE
      /\ Items(r) = <<Header>> /\ Addresses(Items(r)) = {} /\ Whole(Items(r))
    BY <1>3, <1>4, HeaderWritten
<1>6. PICK f : f = [node |-> NULL, i |-> 1]
    OBVIOUS
<1>7. /\ DOMAIN save' = DOMAIN NewSave /\ save'.at = "next"
      /\ e = IF kind = "EMPTY" THEN <<>> ELSE <<f>>
    BY <1>2, <1>3, <1>6 DEF NewSave
<1>8. e \in Seq({f})
  <2>1. <<f>> \in Seq({f}) /\ <<>> \in Seq({f})
    OBVIOUS
  <2> QED
    BY <1>7, <2>1
<1>9. Going(e, r, S)
  <2>1. CASE kind = "EMPTY"
    <3>1. StackOK(e)
      BY <1>7, <2>1 DEF StackOK
    <3>2. Len(<<Header>>) = 1
      OBVIOUS
    <3> QED
      BY <1>5, <1>7, <2>1, <3>1, <3>2 DEF Going
  <2>2. CASE kind # "EMPTY"
    <3>1. Len(e) = 1 /\ e[1] = f
      BY <1>7, <2>2
    <3>2. \A d \in 2..1 : FALSE
      OBVIOUS
    <3>3. StackOK(e)
      BY <1>6, <3>1, <3>2 DEF StackOK
    <3>4. Waiting(e) = DOMAIN nodes
      BY <1>8, <3>1, <3>3, WaitingFirst
    <3> QED
      BY <1>5, <2>2, <3>3, <3>4 DEF Going
  <2> QED
    BY <2>1, <2>2
<1>10. r.damaged = output.damaged
  <2>1. output = NoFile
    BY DEF SaveOK, automaton_save
  <2> QED
    BY <1>5, <2>1 DEF NoFile
<1>11. PICK p : p = Last(e).node
    OBVIOUS
<1>12. Whole(Items(r)) /\ save'.at = "next"
    BY <1>5, <1>7
<1> QED
    BY <1>1, <1>2, <1>3, <1>7, <1>8, <1>9, <1>10, <1>11, <1>12, GoingOn

\* The parts of the invariant a step of save() relies on.
LEMMA SaveRuns ==
    ASSUME SaveOK, ControlOK, Running
    PROVE  /\ save # NoSave /\ loading.result # "automaton" /\ DOMAIN save = DOMAIN NewSave
           /\ \E S : IsBuffer(output, S)
           /\ save.at \in {"next", "serializer", "exception"}
           /\ Written = Items(output)
           /\ ~save.called => WrittenOK(Items(output))
           /\ ~save.called /\ save.at \in {"next", "serializer"} => SavingOK
<1>1. save # NoSave
    BY DEF Running, NoSave
<1>2. loading.result # "automaton" /\ save.at \in {"next", "serializer", "exception"}
    BY DEF Running, ControlOK, NoLoading
<1>3. Written = Items(output)
    BY WrittenIs
<1> QED
    BY <1>1, <1>2, <1>3 DEF SaveOK

LEMMA CoreIs ==
    ASSUME CoreOK, dump = NoDump
    PROVE  /\ Heap(nodes) /\ Tree(nodes) /\ (kind # "EMPTY" => Root \in DOMAIN nodes)
           /\ store = "ANY" => \A p \in DOMAIN nodes : nodes[p].eow => nodes[p].output \in Objects
    BY DEF CoreOK, heap, HeapOK, Keys

\* The sizes of what is written.
LEMMA BytesIs ==
    ASSUME CoreOK, dump = NoDump, NEW p \in DOMAIN nodes, Valued(p) = 1
    PROVE  Bytes(nodes[p].output).size \in Nat
<1>1. nodes[p].eow /\ store = "ANY"
    BY DEF Valued, Bool
<1>2. nodes[p].output \in Objects
    BY <1>1, CoreIs
<1> QED
    BY <1>2, SaveAssumption DEF Bytes

\* A step whose save() already had the automaton changed under it.
LEMMA CalledBefore ==
    ASSUME save'.called, save'.at \in {"next", "serializer", "exception"},
           DOMAIN save' = DOMAIN NewSave, NEW S, IsBuffer(output, S)'
    PROVE  SaveOK'
<1>1. Running' /\ save' # NoSave'
    BY DEF Running, NoSave
<1>2. (\E T : IsBuffer(output, T))'
    BY DEF IsBuffer
<1> QED
    BY <1>1, <1>2 DEF SaveOK

\* A node is written, with its value later if it has one.
LEMMA NodeWritten ==
    ASSUME SaveOK, CoreOK, ControlOK, dump = NoDump, automaton_save_node
    PROVE  SaveOK'
<1>1. PICK v : v = Visiting
    OBVIOUS
<1>2. PICK e : e = Entered
    OBVIOUS
<1>3. PICK r : r = output'
    OBVIOUS
<1>4. /\ save.at = "next" /\ Depth > 0 /\ UNCHANGED <<nodes, kind, store, count, longest_word>>
      /\ loading' = loading
    BY DEF automaton_save_node, unsaved, object
<1>5. PICK outcome \in Outcomes :
        LET head == SaveHead(output, v, outcome)
        IN  IF nodes[v].eow /\ store = "ANY"
            THEN /\ r = head
                 /\ save' = [save EXCEPT !.at = "serializer", !.stack = e,
                                         !.bytes = <<Bytes(nodes[v].output)>>]
            ELSE /\ r = SaveTail(head, v, <<>>, outcome)
                 /\ save' = [save EXCEPT !.stack = e]
    BY <1>1, <1>2, <1>3 DEF automaton_save_node
<1>6. PICK h : h = SaveHead(output, v, outcome)
    OBVIOUS
<1>7. Running
    BY <1>4 DEF Running
<1>8. /\ DOMAIN save = DOMAIN NewSave /\ loading.result # "automaton"
      /\ ~save.called => WrittenOK(Items(output)) /\ SavingOK
    BY <1>4, <1>7, SaveRuns
<1>9. PICK S0 : IsBuffer(output, S0)
    BY <1>7, SaveRuns
<1>10. PICK S : S = S0 \cup {Address(v), SavedNode(v), Pairs(v), Bytes(nodes[v].output)}
    OBVIOUS
<1>11. /\ IsBuffer(output, S) /\ Address(v) \in S /\ SavedNode(v) \in S /\ Pairs(v) \in S
       /\ Bytes(nodes[v].output) \in S
    BY <1>9, <1>10, Widen
<1>12. DOMAIN NewSave = {"at", "stack", "bytes", "called"}
    BY DEF NewSave
<1>13. /\ DOMAIN save' = DOMAIN NewSave /\ save'.stack = e /\ save'.called = save.called
       /\ save'.at = IF nodes[v].eow /\ store = "ANY" THEN "serializer" ELSE "next"
       /\ nodes[v].eow /\ store = "ANY" => save'.bytes = <<Bytes(nodes[v].output)>>
    BY <1>5, <1>8, <1>12, <1>4
<1>14. CASE save.called
  <2>1. IsBuffer(h, S)
    BY <1>6, <1>11, HeadType
  <2>2. IsBuffer(SaveTail(h, v, <<>>, outcome), S)
    BY <1>11, <2>1, TailType
  <2>3. IsBuffer(r, S)
    BY <1>5, <1>6, <2>1, <2>2
  <2>4. IsBuffer(output, S)'
    BY <1>3, <2>3 DEF IsBuffer
  <2> QED
    BY <1>13, <1>14, <2>4, CalledBefore
<1>15. CASE ~save.called
  <2>1. Heap(nodes) /\ Tree(nodes) /\ (kind # "EMPTY" => Root \in DOMAIN nodes)
    BY CoreIs
  <2>2. /\ WrittenOK(Items(output)) /\ output.size \in Nat /\ StackOK(save.stack)
        /\ kind = "EMPTY" => save.stack = <<>>
        /\ ~output.full => /\ Items(output) # <<>> /\ Unfinished(Items(output))
                           /\ OpenOK(Items(output))
                           /\ kind # "EMPTY" =>
                                Addresses(Items(output)) = DOMAIN nodes \ Waiting(save.stack)
    <3>1. Written = Items(output)
      BY <1>7, SaveRuns
    <3> QED
      BY <1>8, <1>15, <3>1 DEF SavingOK
  <2>3. PICK T0 : save.stack \in Seq(T0)
    BY <1>8, <1>15 DEF SavingOK
  <2>4. kind # "EMPTY" /\ Root \in DOMAIN nodes
    <3>1. ASSUME kind = "EMPTY" PROVE FALSE
      <4>1. save.stack = <<>> /\ Depth \in 0..Len(save.stack)
        BY <2>2, <2>3, <3>1, DepthIs
      <4>2. Len(save.stack) = 0
        BY <4>1, EmptySeq
      <4> QED
        BY <1>4, <4>1, <4>2
    <3> QED
      BY <2>1, <3>1
  <2>5. /\ StackOK(e) /\ Len(e) > 1 /\ Trail(e) = v
        /\ v \in Waiting(save.stack) /\ Waiting(e) = Waiting(save.stack) \ {v}
        /\ v # Root => Front(v) \in DOMAIN nodes \ Waiting(save.stack)
    BY <1>1, <1>2, <1>4, <2>1, <2>2, <2>3, <2>4, Enters
  <2>6. PICK T : e \in Seq(T)
    BY <1>1, <1>2, <1>4, <2>1, <2>2, <2>3, <2>4, Enters
  <2>7. v \in DOMAIN nodes
    BY <2>5 DEF Waiting
  <2>8. PICK w : w = Items(output)
    OBVIOUS
  <2>9. Good(output, S)
    BY <1>11, <2>2 DEF Good
  <2>10. ~output.full => /\ Whole(w) /\ v \notin Addresses(w)
                         /\ v # Root => Front(v) \in Addresses(w)
                         /\ Addresses(w) = DOMAIN nodes \ Waiting(save.stack)
    <3> SUFFICES ASSUME ~output.full
                 PROVE  /\ Whole(w) /\ v \notin Addresses(w)
                        /\ v # Root => Front(v) \in Addresses(w)
                        /\ Addresses(w) = DOMAIN nodes \ Waiting(save.stack)
      OBVIOUS
    <3>1. Whole(w)
      BY <1>4, <2>2, <2>8 DEF OpenOK, Whole
    <3>2. Addresses(w) = DOMAIN nodes \ Waiting(save.stack)
      BY <2>2, <2>4, <2>8
    <3> QED
      BY <2>5, <3>1, <3>2
  <2>11. /\ Good(h, S) /\ Sound(h) /\ h.size \in Nat \ {0} /\ h.damaged = output.damaged
         /\ output.full => h.full
         /\ ~h.full => Addresses(Items(h)) = Addresses(w) \cup {v} /\ AtHead(Items(h), v)
    BY <1>6, <1>11, <2>2, <2>7, <2>8, <2>9, <2>10, HeadWritten
  <2>12. ~h.full => Addresses(Items(h)) = DOMAIN nodes \ Waiting(e)
    BY <2>5, <2>7, <2>10, <2>11
  <2>13. Last(e).node = v
    BY <2>5 DEF Trail, Last
  <2>14. CASE nodes[v].eow /\ store = "ANY"
    <3>1. r = h /\ save'.at = "serializer" /\ save'.bytes = <<Bytes(nodes[v].output)>>
      BY <1>5, <1>6, <1>13, <2>14
    <3>2. Going(e, r, S)
      BY <2>4, <2>5, <2>11, <2>12, <3>1 DEF Going
    <3>3. r.size > 0 /\ Len(e) > 1 /\ (~r.full => AtHead(Items(r), v)) /\ r.damaged = output.damaged
      BY <2>5, <2>11, <3>1
    <3> QED
      BY <1>3, <1>4, <1>13, <2>6, <2>13, <2>14, <3>1, <3>2, <3>3, GoingOn
  <2>15. CASE ~(nodes[v].eow /\ store = "ANY")
    <3>1. r = SaveTail(h, v, <<>>, outcome) /\ save'.at = "next"
      BY <1>5, <1>6, <1>13, <2>15
    <3>2. Valued(v) # 1 /\ BytesOf(v) = <<>>
      <4>1. Valued(v) = 0
        BY <2>15 DEF Valued, Bool
      <4> QED
        BY <4>1 DEF BytesOf
    <3>3. /\ Good(r, S) /\ r.size \in Nat /\ r.damaged = h.damaged
          /\ h.full => r.full
          /\ ~r.full => Addresses(Items(r)) = Addresses(Items(h)) /\ Whole(Items(r))
      BY <1>11, <2>1, <2>7, <2>11, <3>1, <3>2, TailWritten
    <3>4. Going(e, r, S)
      BY <2>4, <2>5, <2>12, <3>3 DEF Going
    <3>5. r.damaged = output.damaged
      BY <2>11, <3>3
    <3> QED
      BY <1>3, <1>4, <1>13, <2>6, <2>13, <3>1, <3>3, <3>4, <3>5, GoingOn
  <2> QED
    BY <2>14, <2>15
<1> QED
    BY <1>14, <1>15

\* The automaton is changed from the serializer.
LEMMA SerializerChanges ==
    ASSUME SaveOK, ControlOK, SerializerCalls PROVE SaveOK'
<1>1. Running /\ save.at = "serializer" /\ output' = output
    BY DEF Running, SerializerCalls
<1>2. DOMAIN save = DOMAIN NewSave
    BY <1>1, SaveRuns
<1>3. PICK S : IsBuffer(output, S)
    BY <1>1, SaveRuns
<1>4. DOMAIN NewSave = {"at", "stack", "bytes", "called"}
    BY DEF NewSave
<1>5. DOMAIN save' = DOMAIN NewSave /\ save'.called /\ save'.at = "serializer"
    BY <1>1, <1>2, <1>4 DEF SerializerCalls
<1>6. IsBuffer(output, S)'
    BY <1>1, <1>3 DEF IsBuffer
<1> QED
    BY <1>5, <1>6, CalledBefore

\* What follows the bytes is written when they are there.
LEMMA SerializerWrites ==
    ASSUME SaveOK, CoreOK, ControlOK, dump = NoDump, SerializerReturns
    PROVE  SaveOK'
<1>1. PICK p : p = Last(save.stack).node
    OBVIOUS
<1>2. PICK r : r = output'
    OBVIOUS
<1>3. PICK b : b = save.bytes
    OBVIOUS
<1>4. /\ save.at = "serializer" /\ UNCHANGED <<nodes, kind, store, count, longest_word>>
      /\ loading' = loading /\ save' = [save EXCEPT !.at = "next", !.bytes = <<>>]
    BY DEF SerializerReturns, unsaved, object
<1>5. PICK outcome \in Outcomes : r = SaveTail(output, p, b, outcome)
    BY <1>1, <1>2, <1>3 DEF SerializerReturns
<1>6. Running
    BY <1>4 DEF Running
<1>7. /\ DOMAIN save = DOMAIN NewSave /\ loading.result # "automaton"
      /\ ~save.called => WrittenOK(Items(output)) /\ SavingOK
    BY <1>4, <1>6, SaveRuns
<1>8. PICK S0 : IsBuffer(output, S0)
    BY <1>6, SaveRuns
<1>9. PICK S : S = S0 \cup {Pairs(p), b[1]}
    OBVIOUS
<1>10. IsBuffer(output, S) /\ Pairs(p) \in S /\ b[1] \in S
    BY <1>8, <1>9, Widen
<1>11. DOMAIN NewSave = {"at", "stack", "bytes", "called"}
    BY DEF NewSave
<1>12. /\ DOMAIN save' = DOMAIN NewSave /\ save'.stack = save.stack /\ save'.called = save.called
       /\ save'.at = "next"
    BY <1>4, <1>7, <1>11
<1>13. CASE save.called
  <2>1. IsBuffer(r, S)
    BY <1>5, <1>10, TailType
  <2>2. IsBuffer(output, S)'
    BY <1>2, <2>1 DEF IsBuffer
  <2> QED
    BY <1>12, <1>13, <2>2, CalledBefore
<1>14. CASE ~save.called
  <2>1. Heap(nodes) /\ Tree(nodes)
    BY CoreIs
  <2>2. PICK w : w = Items(output)
    OBVIOUS
  <2>3. PICK e : e = save.stack
    OBVIOUS
  <2>4. /\ WrittenOK(w) /\ output.size \in Nat /\ StackOK(e)
        /\ kind = "EMPTY" => e = <<>>
        /\ output.size > 0 /\ Len(e) > 1
        /\ nodes[p].eow /\ store = "ANY" /\ b = <<Bytes(nodes[p].output)>>
        /\ ~output.full => /\ w # <<>> /\ Unfinished(w) /\ OpenOK(w)
                           /\ kind # "EMPTY" => Addresses(w) = DOMAIN nodes \ Waiting(e)
    <3>1. Written = w
      BY <1>6, <2>2, SaveRuns
    <3> QED
      BY <1>1, <1>3, <1>4, <1>7, <1>14, <2>2, <2>3, <3>1 DEF SavingOK
  <2>5. PICK T : e \in Seq(T)
    BY <1>7, <1>14, <2>3 DEF SavingOK
  <2>6. p = Trail(e) /\ p = Last(e).node
    BY <1>1, <2>3 DEF Trail, Last
  <2>7. p \in DOMAIN nodes
    BY <2>1, <2>4, <2>5, <2>6, TrailIs
  <2>8. Valued(p) = 1 /\ BytesOf(p) = b
    <3>1. Valued(p) = 1
      BY <2>4 DEF Valued, Bool
    <3> QED
      BY <2>4, <3>1 DEF BytesOf
  <2>9. Good(output, S)
    BY <1>10, <2>2, <2>4 DEF Good
  <2>10. Sound(output)
    <3>1. \A n \in Nat : n > 0 => n # 0
      OBVIOUS
    <3> QED
      BY <2>4, <3>1 DEF Sound
  <2>11. kind # "EMPTY"
    <3>1. ASSUME e = <<>> PROVE Len(e) = 0
      BY <3>1, EmptySeq
    <3> QED
      BY <2>4, <3>1
  <2>12. ~output.full => AtHead(w, p)
    <3> SUFFICES ASSUME ~output.full PROVE AtHead(w, p)
      OBVIOUS
    <3>1. p \in Addresses(w)
      <4>1. Len(e) - 2 \in 0..(Len(e) - 2)
        <5>1. Len(e) \in Nat
          BY <2>5, LenProperties
        <5> QED
          BY <2>4, <5>1
      <4>2. At(Trail(e), Len(e) - 2) \notin Waiting(e)
        BY <2>1, <2>4, <2>5, <4>1, NotWaiting
      <4>3. At(p, Len(e) - 2) = p
        <5>1. p \in Seq(Letters) /\ Len(p) = Len(e) - 2
          BY <2>1, <2>4, <2>5, <2>6, TrailIs
        <5>2. Len(p) \in 0..Len(p)
          BY <5>1, LenProperties
        <5> QED
          BY <5>1, <5>2, AtAt
      <4>4. Addresses(w) = DOMAIN nodes \ Waiting(e)
        BY <2>4, <2>11
      <4> QED
        BY <2>6, <2>7, <4>2, <4>3, <4>4
    <3>2. PICK k0 \in DOMAIN w : w[k0].type = "address" /\ w[k0].node = p
      BY <3>1, AddressesAre
    <3>3. OpenOK(w)
      BY <2>4
    <3>4. k0 + 1 = Len(w)
      BY <1>1, <1>4, <3>2, <3>3 DEF OpenOK
    <3>5. w \in Seq(S)
      BY <1>10, <2>2, ItemsType
    <3>6. k0 \in Nat \ {0}
      BY <3>2, <3>5, LenProperties
    <3>7. \A k \in DOMAIN w : w[k].type = "address" /\ k # k0 => w[k].node # p
      BY <2>4, <3>2 DEF WrittenOK
    <3>8. \A k \in DOMAIN w : w[k].type = "address" /\ k # k0 => Closed(w, k)
      BY <1>1, <1>4, <3>3, <3>7 DEF OpenOK
    <3> QED
      BY <3>2, <3>4, <3>6, <3>8 DEF AtHead
  <2>13. Bytes(nodes[p].output) \in S /\ Bytes(nodes[p].output).size \in Nat
    <3>1. b[1] = Bytes(nodes[p].output)
      BY <2>4
    <3>2. Bytes(nodes[p].output).size \in Nat
      BY <2>7, <2>8, BytesIs
    <3> QED
      BY <1>10, <3>1, <3>2
  <2>14. /\ Good(r, S) /\ r.size \in Nat /\ r.damaged = output.damaged
         /\ output.full => r.full
         /\ ~r.full => Addresses(Items(r)) = Addresses(w) /\ Whole(Items(r))
    BY <1>5, <1>10, <2>1, <2>2, <2>7, <2>8, <2>9, <2>10, <2>12, <2>13, TailWritten
  <2>15. Going(e, r, S)
    BY <2>4, <2>11, <2>14 DEF Going
  <2>16. e = save'.stack
    BY <1>12, <2>3
  <2> QED
    BY <1>2, <1>4, <1>12, <2>5, <2>6, <2>14, <2>15, <2>16, GoingOn
<1> QED
    BY <1>13, <1>14

\* An exception: what was written is not looked at any more.
LEMMA SerializerFails ==
    ASSUME SaveOK, ControlOK, SerializerRaises PROVE SaveOK'
<1>1. /\ save.at = "serializer" /\ UNCHANGED <<nodes, kind, store, count, longest_word>>
      /\ output' = [output EXCEPT !.error = "SerializerError"]
      /\ save' = [save EXCEPT !.at = "exception"]
    BY DEF SerializerRaises, unsaved, object
<1>2. Running
    BY <1>1 DEF Running
<1>3. /\ DOMAIN save = DOMAIN NewSave /\ loading.result # "automaton"
      /\ ~save.called => WrittenOK(Items(output))
    BY <1>2, SaveRuns
<1>4. PICK S : IsBuffer(output, S)
    BY <1>2, SaveRuns
<1>5. DOMAIN NewSave = {"at", "stack", "bytes", "called"}
    BY DEF NewSave
<1>6. DOMAIN save' = DOMAIN NewSave /\ save'.called = save.called /\ save'.at = "exception"
    BY <1>1, <1>3, <1>5
<1>7. /\ DOMAIN output' = DOMAIN output /\ output'.tokens = output.tokens
      /\ output'.held = output.held /\ output'.full = output.full /\ output'.damaged = output.damaged
  <2>1. DOMAIN output = DOMAIN NewBuffer
    BY <1>4 DEF IsBuffer
  <2>2. DOMAIN NewBuffer = {"tokens", "full", "damaged", "held", "size", "error", "nodes_count"}
    BY DEF NewBuffer
  <2> QED
    BY <1>1, <2>1, <2>2
<1>8. IsBuffer(output, S)'
    BY <1>4, <1>7 DEF IsBuffer
<1>9. Running' /\ save' # NoSave'
    BY <1>6 DEF Running, NoSave
<1>10. PICK w : w = Items(output)
    OBVIOUS
<1>11. Written' = w
    BY <1>7, <1>9, <1>10 DEF Written, Items, Cat
<1>12. WrittenOK(w)' <=> WrittenOK(w)
    BY <1>1, <1>7, SameWritten
<1>13. ~save'.called => WrittenOK(Written)'
    BY <1>3, <1>6, <1>10, <1>11, <1>12
<1>14. (\E T : IsBuffer(output, T))'
    BY <1>8 DEF IsBuffer
<1>15. ~(save'.at \in {"next", "serializer"})
    BY <1>6
<1> QED
    BY <1>6, <1>9, <1>13, <1>14, <1>15 DEF SaveOK

\* The file holds the beginning of what was written, or all of it.
LEMMA Finalized ==
    ASSUME NEW S, NEW o, IsBuffer(o, S), NEW outcome \in Outcomes, Finalize(o, outcome),
           UNCHANGED <<nodes, kind, store, count, longest_word>>, o.damaged = output.damaged,
           ~save.called => WrittenOK(Items(o))
    PROVE  SaveOK'
<1>1. PICK r : r = savebuffer_flush(o, outcome)
    OBVIOUS
<1>2. PICK w : w = r.tokens
    OBVIOUS
<1>3. /\ output' = [field \in DOMAIN NoFile |-> r[field]]
      /\ save' = [at |-> "done", called |-> save.called]
    BY <1>1 DEF Finalize
<1>4. DOMAIN NoFile = {"tokens", "full", "damaged"}
    BY DEF NoFile
<1>5. /\ DOMAIN output' = DOMAIN NoFile /\ output'.tokens = w /\ output'.damaged = r.damaged
      /\ save'.at = "done" /\ save'.called = save.called
    BY <1>2, <1>3, <1>4
<1>6. Extends(o, <<>>, r, S) /\ PrefixOf(w, Items(o))
    BY <1>1, <1>2, FlushExtends
<1>7. w \in Seq(S) /\ output'.damaged = output.damaged
    BY <1>2, <1>5, <1>6 DEF Extends, IsBuffer
<1>8. save' # NoSave' /\ ~Running'
    BY <1>5 DEF NoSave, Running
<1>9. Written' = w
  <2>1. Written' = Cat(w, <<>>)
    BY <1>5, <1>8 DEF Written, Cat
  <2>2. <<>> \in Seq(S)
    BY EmptySeq
  <2> QED
    BY <1>7, <2>1, <2>2, CatProperties
<1>10. WrittenOK(w)' <=> WrittenOK(w)
    BY <1>7, SameWritten
<1>11. ~save.called => WrittenOK(w)
  <2>1. Items(o) \in Seq(S)
    BY ItemsType
  <2> QED
    BY <1>6, <2>1, PrefixWritten
<1>12. ~save'.called => WrittenOK(Written)'
    BY <1>5, <1>9, <1>10, <1>11
<1>13. (\E T : output.tokens \in Seq(T))'
    BY <1>5, <1>7
<1>14. (DOMAIN output = DOMAIN NoFile)'
    BY <1>5 DEF NoFile
<1> QED
    BY <1>5, <1>8, <1>12, <1>13, <1>14 DEF SaveOK

LEMMA SaveEnds ==
    ASSUME SaveOK, CoreOK, ControlOK, dump = NoDump, TraversalDone PROVE SaveOK'
<1>1. /\ save.at = "next" /\ ~(Depth > 0) /\ UNCHANGED <<nodes, kind, store, count, longest_word>>
      /\ loading' = loading
  <2>1. Depth = 0
    BY DEF TraversalDone
  <2>2. \A n : n = 0 => ~(n > 0)
    OBVIOUS
  <2> QED
    BY <2>1, <2>2 DEF TraversalDone, unsaved, object
<1>2. Running
    BY <1>1 DEF Running
<1>3. /\ DOMAIN save = DOMAIN NewSave /\ loading.result # "automaton" /\ save # NoSave
      /\ Written = Items(output)
      /\ ~save.called => WrittenOK(Items(output)) /\ SavingOK
    BY <1>1, <1>2, SaveRuns
<1>4. PICK S0 : IsBuffer(output, S0)
    BY <1>2, SaveRuns
<1>5. CASE save' = [save EXCEPT !.at = "exception"] /\ output' = output
  <2>1. DOMAIN NewSave = {"at", "stack", "bytes", "called"}
    BY DEF NewSave
  <2>2. DOMAIN save' = DOMAIN NewSave /\ save'.called = save.called /\ save'.at = "exception"
    BY <1>3, <1>5, <2>1
  <2>3. Running' /\ save' # NoSave'
    BY <2>2 DEF Running, NoSave
  <2>4. PICK w : w = Items(output)
    OBVIOUS
  <2>5. Written' = w
    BY <1>5, <2>3, <2>4 DEF Written, Items, Cat
  <2>6. WrittenOK(w)' <=> WrittenOK(w)
    BY <1>1, <1>5, SameWritten
  <2>7. ~save'.called => WrittenOK(Written)'
    BY <1>3, <2>2, <2>4, <2>5, <2>6
  <2>8. (\E T : IsBuffer(output, T))'
    BY <1>4, <1>5 DEF IsBuffer
  <2>9. ~(save'.at \in {"next", "serializer"}) /\ (DOMAIN save = DOMAIN NewSave)'
    BY <2>2 DEF NewSave
  <2> QED
    BY <2>3, <2>7, <2>8, <2>9 DEF SaveOK
<1>6. CASE \E first, second \in Outcomes : Finalize(savebuffer_store(output, Footer, first), second)
  <2>1. PICK first \in Outcomes, second \in Outcomes :
            Finalize(savebuffer_store(output, Footer, first), second)
    BY <1>6
  <2>2. PICK token : token = Footer
    OBVIOUS
  <2>3. PICK o : o = savebuffer_store(output, Footer, first)
    OBVIOUS
  <2>4. PICK S : S = S0 \cup {token}
    OBVIOUS
  <2>5. IsBuffer(output, S) /\ token \in S
    BY <1>4, <2>4, Widen
  <2>6. token.type = "footer" /\ token.size = 6
    BY <2>2 DEF Footer, sizeof_Footer
  <2>7. token.size \in Nat /\ token.size <= Capacity
    BY <2>6, SaveAssumption DEF sizeof_Header
  <2>8. IsBuffer(o, S) /\ o.damaged = output.damaged /\ Extends(output, <<token>>, o, S)
    BY <2>2, <2>3, <2>5, <2>7, StoreExtends
  <2>9. ASSUME ~save.called PROVE WrittenOK(Items(o))
    <3>1. PICK w : w = Items(output)
      OBVIOUS
    <3>2. WrittenOK(w) /\ SavingOK /\ w \in Seq(S)
      BY <1>3, <2>5, <2>9, <3>1, ItemsType
    <3>3. CASE output.full
      <4>1. o.full /\ o.tokens = output.tokens
        BY <2>8, <3>3 DEF Extends
      <4>2. Items(o) = o.tokens /\ Items(output) = output.tokens
        BY <2>5, <2>8, <3>3, <4>1, ItemsType
      <4> QED
        BY <3>1, <3>2, <4>1, <4>2
    <3>4. CASE ~output.full
      <4>1. /\ w # <<>> /\ Unfinished(w) /\ OpenOK(w) /\ StackOK(save.stack)
            /\ kind # "EMPTY" => Addresses(w) = DOMAIN nodes \ Waiting(save.stack)
        BY <1>3, <3>1, <3>2, <3>4 DEF SavingOK
      <4>2. PICK T : save.stack \in Seq(T)
        BY <3>2 DEF SavingOK
      <4>3. Waiting(save.stack) = {}
        <5>1. CASE save.stack = <<>>
          BY <5>1 DEF Waiting
        <5>2. CASE save.stack # <<>>
          BY <1>1, <4>1, <4>2, <5>2, CoreIs, AllVisited
        <5> QED
          BY <5>1, <5>2
      <4>4. Open(w, S) /\ Whole(w)
        BY <1>1, <3>2, <4>1 DEF Open, OpenOK, Whole
      <4>5. kind # "EMPTY" => Addresses(w) = DOMAIN nodes
        BY <4>1, <4>3
      <4>6. PICK u : u = Cat(w, <<token>>)
        OBVIOUS
      <4>7. WrittenOK(u)
        BY <2>5, <2>6, <4>4, <4>5, <4>6, FooterAdded
      <4>8. u \in Seq(S)
        <5>1. <<token>> \in Seq(S)
          BY <2>5
        <5> QED
          BY <3>2, <4>6, <5>1, CatProperties
      <4>9. (o.full => PrefixOf(Items(o), u)) /\ (~o.full => Items(o) = u)
        BY <2>8, <3>1, <3>4, <4>6 DEF Extends
      <4>10. o.full => WrittenOK(Items(o))
        BY <4>7, <4>8, <4>9, PrefixWritten
      <4> QED
        BY <4>7, <4>9, <4>10
    <3> QED
      BY <3>3, <3>4
  <2> QED
    BY <1>1, <2>1, <2>3, <2>8, <2>9, Finalized
<1> QED
    BY <1>5, <1>6 DEF TraversalDone

LEMMA SaveFails ==
    ASSUME SaveOK, ControlOK, ExceptionRaised PROVE SaveOK'
<1>1. save.at = "exception" /\ UNCHANGED <<nodes, kind, store, count, longest_word>>
    BY DEF ExceptionRaised, unsaved, object
<1>2. Running
    BY <1>1 DEF Running
<1>3. ~save.called => WrittenOK(Items(output))
    BY <1>2, SaveRuns
<1>4. PICK S : IsBuffer(output, S)
    BY <1>2, SaveRuns
<1>5. PICK outcome \in Outcomes : Finalize(output, outcome)
    BY DEF ExceptionRaised
<1> QED
    BY <1>1, <1>3, <1>4, <1>5, Finalized

\* The traversal reads a freed node only if the serializer changed the automaton.
LEMMA SaveCrashesIf ==
    ASSUME SaveOK, CoreOK, ControlOK, dump = NoDump, SaveCrashes PROVE SaveOK' /\ save.called
<1>1. Running /\ save.at \in {"next", "serializer"}
    BY DEF Running, SaveCrashes
<1>2. DOMAIN save = DOMAIN NewSave /\ (~save.called => SavingOK)
    BY <1>1, SaveRuns
<1>3. ASSUME ~save.called PROVE FALSE
  <2>1. StackOK(save.stack)
    BY <1>2, <1>3 DEF SavingOK
  <2>2. PICK T : save.stack \in Seq(T)
    BY <1>2, <1>3 DEF SavingOK
  <2>3. \A d \in 1..Len(save.stack) : save.stack[d].node # FREED
    BY <2>1, <2>2, CoreIs, FramesLive
  <2>4. CASE save.at = "serializer" /\ Last(save.stack).node = FREED
    <3>1. Len(save.stack) > 1
      BY <1>2, <1>3, <2>4 DEF SavingOK
    <3>2. Len(save.stack) \in 1..Len(save.stack)
      <4>1. Len(save.stack) \in Nat
        BY <2>2, LenProperties
      <4> QED
        BY <3>1, <4>1
    <3> QED
      BY <2>3, <2>4, <3>2 DEF Last
  <2>5. CASE save.at = "next" /\ Depth > 0 /\ Frame.node = FREED
    <3>1. PICK K : K = Depth
      OBVIOUS
    <3>2. K \in 0..Len(save.stack) /\ K > 0
      BY <2>2, <2>5, <3>1, DepthIs
    <3>3. K \in 1..Len(save.stack)
      <4>1. Len(save.stack) \in Nat
        BY <2>2, LenProperties
      <4> QED
        BY <3>2, <4>1
    <3> QED
      BY <2>3, <2>5, <3>1, <3>3 DEF Frame
  <2> QED
    BY <2>4, <2>5 DEF SaveCrashes
<1>4. /\ save' = save /\ output' = output
    BY DEF SaveCrashes, saveVars
<1>5. PICK S : IsBuffer(output, S)
    BY <1>1, SaveRuns
<1>6. IsBuffer(output, S)'
    BY <1>4, <1>5 DEF IsBuffer
<1>7. save'.called /\ save'.at \in {"next", "serializer", "exception"}
    BY <1>1, <1>3, <1>4
<1>8. DOMAIN save' = DOMAIN NewSave
    BY <1>2, <1>4
<1> QED
    BY <1>3, <1>6, <1>7, <1>8, CalledBefore
=============================================================================
