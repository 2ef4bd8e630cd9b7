-------------------------- MODULE PersistenceProofs --------------------------
(***************************************************************************)
(* An automaton that is pickled, saved and loaded, in any order with the   *)
(* calls that change it, and wherever memory, the disk, the serializer or  *)
(* the data fail.                                                          *)
(*                                                                         *)
(* The inductive invariant PersistInv says, part by part:                  *)
(*   CoreOK         the tree, its words, its links and the references to   *)
(*                  its objects are in order; while __reduce__ has its     *)
(*                  NodeIDs in the links, this is said of the tree as it   *)
(*                  was before (`heap');                                   *)
(*   ControlOK      which of the operations can be under way together;     *)
(*   DumpOK         the tree differs from the one before in the nodes that *)
(*                  have a NodeID, and nowhere else, and those are the     *)
(*                  nodes from one place of the traversal to another;      *)
(*   ConstructorOK  what the constructor has allocated and retained is     *)
(*                  what its table and its index say;                      *)
(*   SaveOK         the file is a sequence of whole blocks, one for each   *)
(*                  node that the stack of frames has left behind;         *)
(*   LoadingOK      the entries made are the blocks read so far;           *)
(*   FramesOK       the frames of save(), and the room in its buffer, also *)
(*                  after the serializer has changed the tree.             *)
(* For the refinement of StoredDictionary, MapInv adds:                    *)
(*   MapOK          len() counts the words, and no value is 0;             *)
(*   WritingOK      no footer is in the buffer before the end, and an      *)
(*                  error was met where a write was lost;                  *)
(*   ShapeOK        a file with a footer lost nothing on the way, and one  *)
(*                  that was damaged since has an address of no node;      *)
(*   ReadOK         what load() has passed has come into its table.        *)
(***************************************************************************)
EXTENDS PersistenceLemmas

-----------------------------------------------------------------------------
(* What happens to the file. *)

\* A file that was in order still is, but for what was altered in it.
LEMMA WrittenAltered ==
    ASSUME UNCHANGED <<nodes, kind, store, count, longest_word>>,
           NEW S, NEW T, NEW w \in Seq(S), NEW u \in Seq(T), Len(u) = Len(w), WrittenOK(w),
           \A m \in DOMAIN w :
              /\ u[m].type = w[m].type
              /\ w[m].type \notin {"node", "pairs"} => u[m] = w[m]
              /\ w[m].type = "pairs" => DOMAIN u[m] = DOMAIN w[m]
              /\ \A p : /\ NodeToken(w[m], p) => NodeToken(u[m], p)'
                        /\ PairsToken(w[m], p) => PairsToken(u[m], p)'
    PROVE  WrittenOK(u)'
<1>1. PICK n \in Nat : n = Len(w) /\ n = Len(u) /\ DOMAIN w = 1..n /\ DOMAIN u = 1..n
  <2>1. Len(w) \in Nat /\ DOMAIN w = 1..Len(w) /\ DOMAIN u = 1..Len(u)
    BY LenProperties
  <2> QED
    BY <2>1
<1>2. Header' = Header /\ \A p : Linked(p)' = Linked(p) /\ Valued(p)' = Valued(p)
    BY DEF Header, Linked, Valued, Bool
<1>3. Header.type = "header"
    BY DEF Header
<1>4. u # <<>> => u[1] = Header
  <2> SUFFICES ASSUME u # <<>> PROVE u[1] = Header
    OBVIOUS
  <2>1. n # 0
    BY <1>1, LenZero
  <2>2. 1 \in DOMAIN w /\ w # <<>>
    <3>1. w = <<>> => Len(w) = 0
      BY EmptySeq
    <3> QED
      BY <1>1, <2>1, <3>1
  <2>3. w[1] = Header
    BY <2>2 DEF WrittenOK
  <2> QED
    BY <1>3, <2>2, <2>3
<1>5. Len(u) > 1 => u[2].type \in {"address", "footer"}
  <2> SUFFICES ASSUME Len(u) > 1 PROVE u[2].type \in {"address", "footer"}
    OBVIOUS
  <2>1. 2 \in DOMAIN w /\ Len(w) > 1
    BY <1>1
  <2>2. w[2].type \in {"address", "footer"}
    BY <2>1 DEF WrittenOK
  <2> QED
    BY <2>1, <2>2
<1>6. ASSUME NEW k \in DOMAIN u, u[k].type = "address" PROVE BlockOK(u, k)'
  <2>1. k \in Nat \ {0} /\ k <= n /\ k \in DOMAIN w
    BY <1>1
  <2>2. u[k] = w[k] /\ w[k].type = "address"
    BY <1>6, <2>1
  <2>3. PICK p : p = w[k].node
    OBVIOUS
  <2>4. PICK L \in {0, 1}, V \in {0, 1} : L = Linked(p) /\ V = Valued(p)
    BY LinkedValued
  <2>5. PICK e \in Nat \ {0} : e = k + 1 + L + V
    BY <2>1, <2>4
  <2>6. BlockOK(w, k)
    BY <2>1, <2>2 DEF WrittenOK
  <2>7. /\ p \in DOMAIN nodes
        /\ k + 1 <= n => NodeToken(w[k + 1], p)
        /\ L = 1 /\ k + 2 <= n => PairsToken(w[k + 2], p)
        /\ V = 1 /\ e <= n => w[e] = Bytes(nodes[p].output)
        /\ e < n => w[e + 1].type \in {"address", "footer"}
        /\ p # Root => \E j \in 1..(k - 1) : w[j].type = "address" /\ w[j].node = Front(p)
    BY <1>1, <2>3, <2>4, <2>5, <2>6 DEF BlockOK
  <2>8. k + 1 <= n => NodeToken(u[k + 1], p)'
    <3>1. k + 1 <= n => k + 1 \in DOMAIN w
      BY <1>1, <2>1
    <3> QED
      BY <2>7, <3>1
  <2>9. L = 1 /\ k + 2 <= n => PairsToken(u[k + 2], p)'
    <3>1. k + 2 <= n => k + 2 \in DOMAIN w
      BY <1>1, <2>1
    <3> QED
      BY <2>7, <3>1
  <2>10. V = 1 /\ e <= n => u[e] = Bytes(nodes[p].output)
    <3>1. e <= n => e \in DOMAIN w
      BY <1>1
    <3>2. Bytes(nodes[p].output).type = "bytes"
      BY DEF Bytes
    <3> QED
      BY <2>7, <3>1, <3>2
  <2>11. e < n => u[e + 1].type \in {"address", "footer"}
    <3>1. e < n => e + 1 \in DOMAIN w
      BY <1>1
    <3> QED
      BY <2>7, <3>1
  <2>12. p # Root => \E j \in 1..(k - 1) : u[j].type = "address" /\ u[j].node = Front(p)
    <3>1. \A j \in 1..(k - 1) : j \in DOMAIN w
      BY <1>1, <2>1
    <3> QED
      BY <2>7, <3>1
  <2>13. Bytes(nodes[p].output)' = Bytes(nodes[p].output)
    BY DEF Bytes
  <2>14. u[k].node = p /\ Linked(p)' = L /\ Valued(p)' = V
    BY <1>2, <2>2, <2>3, <2>4
  <2> QED
    BY <1>1, <2>5, <2>7, <2>8, <2>9, <2>10, <2>11, <2>12, <2>13, <2>14 DEF BlockOK
<1>7. ASSUME NEW k \in DOMAIN u, u[k].type = "node" PROVE k > 1 /\ u[k - 1].type = "address"
  <2>1. k \in DOMAIN w /\ w[k].type = "node"
    BY <1>1, <1>7
  <2>2. k > 1 /\ w[k - 1].type = "address"
    BY <2>1 DEF WrittenOK
  <2>3. k - 1 \in DOMAIN w
    BY <1>1, <2>1, <2>2
  <2> QED
    BY <2>2, <2>3
<1>8. \A k \in DOMAIN u : u[k].type = "pairs" => DOMAIN u[k] = PairsFields
    BY <1>1 DEF WrittenOK
<1>9. \A j, k \in DOMAIN u :
        u[j].type = "address" /\ u[k].type = "address" /\ u[j].node = u[k].node => j = k
  <2>1. \A m \in DOMAIN u : u[m].type = "address" => m \in DOMAIN w /\ u[m] = w[m]
    BY <1>1
  <2> QED
    BY <2>1 DEF WrittenOK
<1>10. \A p : p \in Addresses(u) <=> p \in Addresses(w)
  <2>1. \A m : m \in DOMAIN u /\ u[m].type = "address" <=> m \in DOMAIN w /\ w[m].type = "address"
    BY <1>1
  <2>2. \A m \in DOMAIN w : w[m].type = "address" => u[m] = w[m]
    OBVIOUS
  <2> QED
    BY <2>1, <2>2, AddressesAre
<1>11. Addresses(u)' = Addresses(w)
  <2>1. Addresses(u) = Addresses(w)
    BY <1>10
  <2>2. Addresses(u)' = Addresses(u)
    BY DEF Addresses
  <2> QED
    BY <2>1, <2>2
<1>12. \A k \in DOMAIN u :
        u[k].type = "footer" => k = Len(u) /\ (kind # "EMPTY" => Addresses(w) = DOMAIN nodes)
    BY <1>1 DEF WrittenOK
<1>13. (u # <<>> => u[1] = Header)'
    BY <1>2, <1>4
<1> QED
    BY <1>5, <1>6, <1>7, <1>8, <1>9, <1>11, <1>12, <1>13 DEF WrittenOK

\* Damage to one token is told from what was written.
LEMMA TokensDamaged ==
    ASSUME UNCHANGED <<nodes, kind, store, count, longest_word>>, output'.damaged = TRUE, NEW t, NEW p
    PROVE  /\ NodeToken(t, p) => NodeToken(t, p)'
           /\ PairsToken(t, p) => PairsToken(t, p)'
<1>1. NodeToken(t, p) => NodeToken(t, p)'
    BY DEF NodeToken, SavedNode
<1>2. PairsToken(t, p) => PairsToken(t, p)'
    BY DEF PairsToken, LinksToken
<1> QED
    BY <1>1, <1>2

LEMMA PairsDamaged ==
    ASSUME UNCHANGED <<nodes, kind, store, count, longest_word>>, output'.damaged = TRUE,
           NEW t, NEW p, PairsToken(t, p), NEW j \in DOMAIN t.next
    PROVE  PairsToken([t EXCEPT !.next[j].child = FREED], p)'
<1>1. PICK n : n = t.next
    OBVIOUS
<1>2. PICK m : m = [n EXCEPT ![j] = [@ EXCEPT !.child = FREED]]
    OBVIOUS
<1>3. PICK u : u = [t EXCEPT !.next[j].child = FREED]
    OBVIOUS
<1>4. t.type = "pairs" /\ DOMAIN t = PairsFields /\ LinksToken(n, p)
    BY <1>1 DEF PairsToken
<1>5. u = [t EXCEPT !.next = m]
    BY <1>1, <1>2, <1>3
<1>6. u.type = "pairs" /\ DOMAIN u = PairsFields /\ u.next = m
    BY <1>4, <1>5 DEF PairsFields
<1>7. /\ DOMAIN n = DOMAIN nodes[p].next
      /\ \A l \in DOMAIN nodes[p].next :
            /\ n[l] = [letter |-> nodes[p].next[l], child |-> n[l].child]
            /\ \/ n[l].child = Append(p, nodes[p].next[l])
               \/ output.damaged /\ n[l].child = FREED
    BY <1>4 DEF LinksToken
<1>8. DOMAIN m = DOMAIN n /\ m[j] = [n[j] EXCEPT !.child = FREED]
      /\ \A l \in DOMAIN n : l # j => m[l] = n[l]
    BY <1>1, <1>2
<1>9. m[j] = [letter |-> nodes[p].next[j], child |-> FREED]
  <2>1. PICK a : a = nodes[p].next[j]
    OBVIOUS
  <2>2. PICK b : b = n[j].child
    OBVIOUS
  <2>3. n[j] = [letter |-> a, child |-> b]
    BY <1>1, <1>7, <2>1, <2>2
  <2>4. [[letter |-> a, child |-> b] EXCEPT !.child = FREED] = [letter |-> a, child |-> FREED]
    OBVIOUS
  <2> QED
    BY <1>8, <2>1, <2>3, <2>4
<1>10. LinksToken(m, p)'
  <2>1. PICK d : d = nodes[p].next
    OBVIOUS
  <2>2. n = [l \in DOMAIN d |-> n[l]]
    BY <1>4, <2>1 DEF LinksToken
  <2>3. m = [l \in DOMAIN d |-> m[l]]
    BY <1>2, <2>2
  <2> QED
    BY <1>7, <1>8, <1>9, <2>1, <2>3 DEF LinksToken
<1>11. PairsToken(u, p)'
    BY <1>6, <1>10 DEF PairsToken
<1> QED
    BY <1>3, <1>11

LEMMA NodeDamaged ==
    ASSUME UNCHANGED <<nodes, kind, store, count, longest_word>>, output'.damaged = TRUE,
           ~output.damaged, kind = "AHOCORASICK",
           NEW t, NEW p, NodeToken(t, p), t.fail # NULL
    PROVE  NodeToken([t EXCEPT !.fail = FREED], p)'
<1>1. PICK u : u = [t EXCEPT !.fail = FREED]
    OBVIOUS
<1>2. PICK s : s = SavedNode(p)
    OBVIOUS
<1>3. /\ t.type = "node" /\ DOMAIN t = NodeFields /\ t.n = s.n /\ t.eow = s.eow
      /\ t.output = s.output /\ t.fail = nodes[p].fail
    BY <1>2 DEF NodeToken
<1>4. /\ u.type = "node" /\ DOMAIN u = NodeFields /\ u.n = s.n /\ u.eow = s.eow
      /\ u.output = s.output /\ u.fail = FREED
    BY <1>1, <1>3 DEF NodeFields
<1>5. SavedNode(p)' = s
    BY <1>2 DEF SavedNode
<1>6. NodeToken(u, p)'
    BY <1>3, <1>4, <1>5 DEF NodeToken
<1> QED
    BY <1>1, <1>6

\* One token of a file is altered.
LEMMA TokenAltered ==
    ASSUME UNCHANGED <<nodes, kind, store, count, longest_word>>, output'.damaged = TRUE,
           NEW S, NEW w \in Seq(S), WrittenOK(w), NEW k \in DOMAIN w, NEW t,
           NEW u, u = [w EXCEPT ![k] = t],
           w[k].type \in {"node", "pairs"}, t.type = w[k].type, DOMAIN t = DOMAIN w[k],
           \A p : /\ NodeToken(w[k], p) => NodeToken(t, p)'
                  /\ PairsToken(w[k], p) => PairsToken(t, p)'
    PROVE  WrittenOK(u)'
<1>2. Len(w) \in Nat /\ DOMAIN w = 1..Len(w)
    BY LenProperties
<1>3. w \in Seq(S \cup {t})
    <2>1. \A j \in 1..Len(w) : w[j] \in S \cup {t}
      BY ElementOfSeq
    <2> QED
      BY <2>1, SeqDef, LenProperties
<1>4. /\ u \in Seq(S \cup {t}) /\ Len(u) = Len(w)
      /\ \A m \in DOMAIN w : u[m] = IF m = k THEN t ELSE w[m]
  <2>1. t \in S \cup {t} /\ k \in 1..Len(w)
    BY <1>2
  <2>2. u \in Seq(S \cup {t}) /\ Len(u) = Len(w)
    BY <1>3, <2>1, ExceptSeq
  <2> QED
    BY <2>2
<1>5. \A p, m : /\ NodeToken(w[m], p) => NodeToken(w[m], p)'
                /\ PairsToken(w[m], p) => PairsToken(w[m], p)'
    BY TokensDamaged
<1>6. ASSUME NEW m \in DOMAIN w
      PROVE  /\ u[m].type = w[m].type
             /\ w[m].type \notin {"node", "pairs"} => u[m] = w[m]
             /\ w[m].type = "pairs" => DOMAIN u[m] = DOMAIN w[m]
             /\ \A p : /\ NodeToken(w[m], p) => NodeToken(u[m], p)'
                       /\ PairsToken(w[m], p) => PairsToken(u[m], p)'
  <2>1. CASE m = k
    <3>1. u[m] = t
      BY <1>4, <2>1
    <3> QED
      BY <2>1, <3>1
  <2>2. CASE m # k
    <3>1. u[m] = w[m]
      BY <1>4, <2>2
    <3> QED
      BY <1>5, <3>1
  <2> QED
    BY <2>1, <2>2
<1> QED
    BY <1>4, <1>6, WrittenAltered

\* The file, cut or altered.
LEMMA FileAltered ==
    ASSUME SaveOK, FileDamaged PROVE SaveOK'
<1>1. /\ save.at = "done" /\ loading = NoLoading /\ loading' = loading /\ save' = save
      /\ UNCHANGED <<nodes, kind, store, count, longest_word>> /\ ~output.damaged
    BY Zenon DEF FileDamaged, vars, object
<1>2. /\ ~Running /\ ~Running' /\ save # NoSave /\ save' # NoSave' /\ loading.result # "automaton"
    BY <1>1 DEF Running, NoSave, NoLoading
<1>3. DOMAIN output = DOMAIN NoFile /\ DOMAIN NoFile = {"tokens", "full", "damaged"}
    BY <1>2 DEF SaveOK, NoFile
<1>4. PICK S : output.tokens \in Seq(S)
    BY <1>2 DEF SaveOK
<1>5. PICK w : w = output.tokens
    OBVIOUS
<1>6. w \in Seq(S) /\ (~save.called => WrittenOK(w))
  <2>1. Written = w
    BY <1>2, <1>4, <1>5, WrittenIs
  <2> QED
    BY <1>2, <1>4, <1>5, <2>1 DEF SaveOK
<1>7. SUFFICES ASSUME output'.damaged = TRUE, DOMAIN output' = DOMAIN NoFile, NEW T,
                      output'.tokens \in Seq(T), ~save.called => WrittenOK(output.tokens)'
               PROVE  SaveOK'
  <2>1. ASSUME NEW u, NEW T, output' = [output EXCEPT !.damaged = TRUE, !.tokens = u],
               u \in Seq(T), output'.damaged = TRUE /\ ~save.called => WrittenOK(u)'
        PROVE  /\ output'.damaged = TRUE /\ DOMAIN output' = DOMAIN NoFile
               /\ output'.tokens \in Seq(T) /\ (~save.called => WrittenOK(output.tokens)')
    <3>1. output'.damaged = TRUE /\ DOMAIN output' = DOMAIN NoFile /\ output'.tokens = u
      BY <1>3, <2>1
    <3> QED
      BY <2>1, <3>1
  <2>2. CASE \E k \in 0..(Len(w) - 1) :
                output' = [output EXCEPT !.damaged = TRUE, !.tokens = SubSeq(@, 1, k)]
    <3>1. PICK k \in 0..(Len(w) - 1) :
              output' = [output EXCEPT !.damaged = TRUE, !.tokens = SubSeq(@, 1, k)]
      BY <2>2, Zenon
    <3>2. PICK u : u = At(w, k)
      OBVIOUS
    <3>3. output' = [output EXCEPT !.damaged = TRUE, !.tokens = u]
      BY <1>5, <3>1, <3>2 DEF At
    <3>4. k \in 0..Len(w)
      <4>1. Len(w) \in Nat
        BY <1>6, LenProperties
      <4> QED
        BY <4>1
    <3>5. u \in Seq(S) /\ PrefixOf(u, w)
      BY <1>6, <3>2, <3>4, AtType DEF PrefixOf
    <3>6. ASSUME output'.damaged = TRUE /\ ~save.called PROVE WrittenOK(u)'
      <4>1. WrittenOK(u)
        BY <1>6, <3>5, <3>6, PrefixWritten
      <4>2. \A p, m : /\ NodeToken(u[m], p) => NodeToken(u[m], p)'
                      /\ PairsToken(u[m], p) => PairsToken(u[m], p)'
        BY <1>1, <3>6, TokensDamaged
      <4> QED
        BY <1>1, <3>5, <4>1, <4>2, WrittenAltered
    <3> QED
      BY <1>7, <2>1, <3>3, <3>5, <3>6, Zenon
  <2>3. ASSUME NEW k \in DOMAIN w, NEW t, NEW u, u = [w EXCEPT ![k] = t],
               output' = [output EXCEPT !.damaged = TRUE, !.tokens = u],
               ~save.called => WrittenOK(u)'
        PROVE  SaveOK'
    <3>2. PICK T : T = S \cup {t}
      OBVIOUS
    <3>3. u \in Seq(T)
      <4>1. Len(w) \in Nat /\ DOMAIN w = 1..Len(w) /\ w \in Seq(T)
        <5>1. \A j \in 1..Len(w) : w[j] \in T
          BY <1>6, <3>2, ElementOfSeq
        <5>2. w \in Seq(T)
          BY <1>6, <5>1, SeqDef, LenProperties
        <5> QED
          BY <1>6, <5>2, LenProperties
      <4> QED
        BY <2>3, <3>2, <4>1, ExceptSeq
    <3> QED
      BY <1>7, <2>1, <2>3, <3>3, Zenon
  <2>4. CASE \E k \in DOMAIN w :
                /\ w[k].type = "pairs"
                /\ \E j \in DOMAIN w[k].next :
                      output' = [output EXCEPT !.damaged = TRUE, !.tokens[k].next[j].child = FREED]
    <3>0. PICK k \in DOMAIN w :
              /\ w[k].type = "pairs"
              /\ \E j \in DOMAIN w[k].next :
                    output' = [output EXCEPT !.damaged = TRUE, !.tokens[k].next[j].child = FREED]
      BY <2>4, Zenon
    <3>1. PICK j \in DOMAIN w[k].next :
              /\ w[k].type = "pairs"
              /\ output' = [output EXCEPT !.damaged = TRUE, !.tokens[k].next[j].child = FREED]
      BY <3>0, Zenon
    <3>2. PICK t : t = [w[k] EXCEPT !.next[j].child = FREED]
      OBVIOUS
    <3>3. PICK u : u = [w EXCEPT ![k] = t]
      OBVIOUS
    <3>5. output' = [output EXCEPT !.damaged = TRUE, !.tokens = u]
      BY <1>3, <1>5, <3>1, <3>2, <3>3
    <3>4. ASSUME output'.damaged = TRUE, ~save.called
          PROVE  /\ t.type = w[k].type /\ DOMAIN t = DOMAIN w[k]
                 /\ \A p : /\ NodeToken(w[k], p) => NodeToken(t, p)'
                           /\ PairsToken(w[k], p) => PairsToken(t, p)'
      <4>1. DOMAIN w[k] = PairsFields
        BY <1>6, <3>1, <3>4 DEF WrittenOK
      <4>2. t.type = w[k].type /\ DOMAIN t = DOMAIN w[k]
        BY <3>2, <4>1 DEF PairsFields
      <4>3. \A p : ~NodeToken(w[k], p)
        BY <3>1 DEF NodeToken
      <4>4. ASSUME NEW p, PairsToken(w[k], p) PROVE PairsToken(t, p)'
        BY <1>1, <3>1, <3>2, <3>4, <4>4, PairsDamaged
      <4> QED
        BY <4>2, <4>3, <4>4
    <3>6. ASSUME ~save.called PROVE WrittenOK(u)'
      <4>1. output'.damaged = TRUE
        BY <1>3, <3>5
      <4>2. /\ t.type = w[k].type /\ DOMAIN t = DOMAIN w[k]
            /\ \A p : /\ NodeToken(w[k], p) => NodeToken(t, p)'
                      /\ PairsToken(w[k], p) => PairsToken(t, p)'
        BY <3>4, <3>6, <4>1
      <4>3. w[k].type \in {"node", "pairs"} /\ WrittenOK(w)
        BY <1>6, <3>1, <3>6
      <4> QED
        BY <1>1, <1>6, <3>3, <4>1, <4>2, <4>3, TokenAltered
    <3> QED
      BY <2>3, <3>3, <3>5, <3>6, Zenon
  <2>5. CASE \E k \in DOMAIN w :
                /\ w[k].type = "node" /\ w[k].fail # NULL
                /\ w[1].kind = "AHOCORASICK"
                /\ output' = [output EXCEPT !.damaged = TRUE, !.tokens[k].fail = FREED]
    <3>1. PICK k \in DOMAIN w :
              /\ w[k].type = "node" /\ w[k].fail # NULL
              /\ w[1].kind = "AHOCORASICK"
              /\ output' = [output EXCEPT !.damaged = TRUE, !.tokens[k].fail = FREED]
      BY <2>5, Zenon
    <3>2. PICK t : t = [w[k] EXCEPT !.fail = FREED]
      OBVIOUS
    <3>3. PICK u : u = [w EXCEPT ![k] = t]
      OBVIOUS
    <3>5. output' = [output EXCEPT !.damaged = TRUE, !.tokens = u]
      BY <1>3, <1>5, <3>1, <3>2, <3>3
    <3>4. ASSUME output'.damaged = TRUE, ~save.called
          PROVE  /\ t.type = w[k].type /\ DOMAIN t = DOMAIN w[k]
                 /\ \A p : /\ NodeToken(w[k], p) => NodeToken(t, p)'
                           /\ PairsToken(w[k], p) => PairsToken(t, p)'
      <4>1. kind = "AHOCORASICK"
        <5>1. w # <<>>
          BY <3>1, EmptySeq
        <5>2. w[1] = Header
          BY <1>6, <3>4, <5>1 DEF WrittenOK
        <5> QED
          BY <3>1, <5>2 DEF Header
      <4>2. DOMAIN w[k] = NodeFields
        <5>1. k > 1 /\ w[k - 1].type = "address"
          BY <1>6, <3>1, <3>4 DEF WrittenOK
        <5>2. PICK m \in DOMAIN w : m = k - 1 /\ m + 1 = k /\ k <= Len(w)
          <6>1. DOMAIN w = 1..Len(w) /\ Len(w) \in Nat
            BY <1>6, LenProperties
          <6>2. k - 1 \in DOMAIN w /\ k - 1 + 1 = k /\ k <= Len(w)
            BY <5>1, <6>1
          <6> QED
            BY <6>2
        <5>3. BlockOK(w, m)
          BY <1>6, <3>4, <5>1, <5>2 DEF WrittenOK
        <5>4. NodeToken(w[k], w[m].node)
          BY <5>2, <5>3 DEF BlockOK
        <5> QED
          BY <5>4 DEF NodeToken
      <4>3. t.type = w[k].type /\ DOMAIN t = DOMAIN w[k]
        BY <3>2, <4>2 DEF NodeFields
      <4>4. \A p : ~PairsToken(w[k], p)
        BY <3>1 DEF PairsToken
      <4>5. ASSUME NEW p, NodeToken(w[k], p) PROVE NodeToken(t, p)'
        BY <1>1, <3>1, <3>2, <3>4, <4>1, <4>5, NodeDamaged
      <4> QED
        BY <4>3, <4>4, <4>5
    <3>6. ASSUME ~save.called PROVE WrittenOK(u)'
      <4>1. output'.damaged = TRUE
        BY <1>3, <3>5
      <4>2. /\ t.type = w[k].type /\ DOMAIN t = DOMAIN w[k]
            /\ \A p : /\ NodeToken(w[k], p) => NodeToken(t, p)'
                      /\ PairsToken(w[k], p) => PairsToken(t, p)'
        BY <3>4, <3>6, <4>1
      <4>3. w[k].type \in {"node", "pairs"} /\ WrittenOK(w)
        BY <1>6, <3>1, <3>6
      <4> QED
        BY <1>1, <1>6, <3>3, <4>1, <4>2, <4>3, TokenAltered
    <3> QED
      BY <2>3, <3>3, <3>5, <3>6, Zenon
  <2> QED
    BY <1>5, <2>2, <2>4, <2>5, Zenon DEF FileDamaged
<1>8. Written' = output'.tokens
  <2>1. Written' = Cat(output'.tokens, <<>>)
    BY <1>2 DEF Written, Cat
  <2>2. <<>> \in Seq(T)
    BY EmptySeq
  <2> QED
    BY <1>7, <2>1, <2>2, CatProperties
<1>9. ~save'.called => WrittenOK(Written)'
    BY <1>1, <1>7, <1>8
<1>10. (\E U : output.tokens \in Seq(U))'
    BY <1>7
<1>11. (DOMAIN output = DOMAIN NoFile)'
    BY <1>7 DEF NoFile
<1>12. ~(save'.at \in {"next", "serializer"})
    BY <1>1
<1> QED
    BY <1>2, <1>9, <1>10, <1>11, <1>12 DEF SaveOK

-----------------------------------------------------------------------------
(* The steps of save() and load() together. *)

\* A step that does not write.
LEMMA SameSave ==
    ASSUME SaveOK, UNCHANGED <<save, output>>, ~Running,
           loading'.result # "automaton" =>
                loading.result # "automaton" /\ UNCHANGED <<nodes, kind, store, count, longest_word>>
    PROVE  SaveOK'
<1>1. ~Running' /\ Written' = Written
    BY DEF Running, Written
<1>2. CASE save = NoSave
    BY <1>2 DEF SaveOK, NoSave, NoFile
<1>3. CASE save # NoSave
  <2>1. (save # NoSave)' /\ (DOMAIN output = DOMAIN NoFile /\ \E S : output.tokens \in Seq(S))'
    BY <1>3 DEF SaveOK, NoSave, NoFile
  <2>2. ASSUME ~save'.called, loading'.result # "automaton"
        PROVE  WrittenOK(Written)'
    <3>1. PICK w : w = Written /\ w = Written'
      BY <1>1
    <3>2. WrittenOK(w)
      BY <1>3, <2>2, <3>1 DEF SaveOK
    <3>3. WrittenOK(w)'
      BY <2>2, <3>2, SameWritten
    <3> QED
      BY <3>1, <3>3
  <2>3. save'.at \notin {"next", "serializer"}
    BY DEF Running
  <2> QED
    BY <1>1, <2>1, <2>2, <2>3 DEF SaveOK
<1> QED
    BY <1>2, <1>3

LEMMA SameLoading ==
    ASSUME LoadingOK, loading' = loading, loading.result # "running"
    PROVE  LoadingOK'
    BY DEF LoadingOK, LoadLeavesNothing

\* A call that adds or frees nodes has returned.
LEMMA CallReturns ==
    ASSUME Next, pc = "idle", DOMAIN nodes' # DOMAIN nodes
    PROVE  pc' = "idle"
BY DEF Next, automaton_add_word, automaton_add_word_no_memory, automaton_remove_word,
       automaton_pop, automaton_remove_word_aux, automaton_pop_crashes,
       automaton_remove_no_memory, automaton_remove_absent, automaton_add_empty_word,
       automaton_add_word_aborts, automaton_clear, automaton_get_stats,
       automaton_make_automaton, MakeStep, SetupFirstLevel, FirstLevelDone, PopNode,
       EnqueueChild, ChildrenDone, FollowFail, SetFail, BuildDone, object

\* Where save() and load() are, while nothing is pickled.
SaveControl ==
    /\ pc \in Pc \cup {"save", "load"}
    /\ pc = "save" => save.at \in {"next", "exception"}
    /\ save.at \in {"none", "next", "serializer", "exception", "done"}
    /\ save.at = "none" <=> save = NoSave
    /\ save.at \in {"next", "exception"} => pc \in {"save", "crash"}
    /\ save.at = "serializer" => pc \in {"idle", "crash"}
    /\ loading # NoLoading => save.at = "done"
    /\ pc = "load" <=> loading.result = "running"

LEMMA ControlIs ==
    ASSUME Unpickled, UNCHANGED pickleOnly, ControlOK
    PROVE  /\ SaveControl
           /\ SaveControl' => ControlOK'
           /\ load = NoLoad
<1>1. load = NoLoad
    BY DEF Unpickled, ControlOK
<1>2. SaveControl
    BY <1>1 DEF ControlOK, SaveControl, DumpPc, Pc, NoLoad, Unpickled
<1>3. ASSUME SaveControl' PROVE ControlOK'
  <2>1. dump' = NoDump /\ pickled' = NotPickled /\ load' = NoLoad
    BY <1>1 DEF Unpickled, pickleOnly
  <2> QED
    BY <1>3, <2>1 DEF ControlOK, SaveControl, DumpPc, Pc, NoLoad
<1> QED
    BY <1>1, <1>2, <1>3

\* The automaton, in a step around it.
LEMMA CoreAround ==
    ASSUME CoreOK, Unpickled, UNCHANGED pickleOnly, UNCHANGED unsaved,
           pc \in {"idle", "save", "load"}, pc' \in {"idle", "save", "load", "crash"}
    PROVE  CoreOK'
<1>1. heap' = heap
    BY DEF heap, unsaved, object, Unpickled, pickleOnly
<1>2. UNCHANGED <<kind, store, count, longest_word, version, stats, refs, locals>>
    BY DEF unsaved, object
<1>3. (pc = "idle" \/ pc \notin Pc) /\ (pc' \in {"idle", "crash"} \/ pc' \notin Pc)
    BY DEF Pc
<1> QED
    BY <1>1, <1>2, <1>3, SameCore DEF Unpickled

\* Every step of save().
LEMMA SaveStepInvariant ==
    ASSUME CoreOK, ControlOK, SaveOK, LoadingOK, Unpickled, UNCHANGED pickleOnly, SaveStep
    PROVE  /\ CoreOK' /\ SaveControl' /\ SaveOK' /\ LoadingOK'
           /\ pc' = "crash" => save'.called
<1>1. SaveControl /\ dump = NoDump
    BY ControlIs DEF Unpickled
<1>2. loading' = loading /\ UNCHANGED unsaved /\ pc \in {"idle", "save"}
      /\ pc' \in {"idle", "save", "crash"} /\ save.at # "done" /\ (save = NoSave \/ Running)
    BY DEF SaveStep, automaton_save, automaton_save_fails, automaton_save_node,
           SerializerReturns, SerializerRaises, SaveCrashes, TraversalDone, ExceptionRaised,
           Finalize, saveVars, Running, NoSave
<1>3. CoreOK'
    BY <1>2, CoreAround
<1>4. loading = NoLoading /\ loading.result = "none"
    BY <1>1, <1>2 DEF SaveControl, NoLoading
<1>5. LoadingOK'
    BY <1>2, <1>4, SameLoading
<1>6. ASSUME pc' \in {"idle", "save", "crash"},
             save'.at \in {"none", "next", "serializer", "exception", "done"},
             save'.at = "none" <=> save' = NoSave, pc' = "save" => save'.at \in {"next", "exception"},
             save'.at \in {"next", "exception"} => pc' \in {"save", "crash"},
             save'.at = "serializer" => pc' \in {"idle", "crash"}
      PROVE  SaveControl'
    BY <1>2, <1>4, <1>6 DEF SaveControl, Pc
<1>7. DOMAIN NewSave = {"at", "stack", "bytes", "called"}
    BY DEF NewSave
<1>8. ASSUME Running PROVE DOMAIN save = DOMAIN NewSave /\ save # NoSave
    BY <1>8, SaveRuns
<1>9. CASE automaton_save
  <2>1. SaveOK' /\ pc' = "save"
    BY <1>9, SaveBegins DEF automaton_save
  <2>2. save'.at = "next" /\ save' # NoSave
    BY <1>9 DEF automaton_save, NewSave, NoSave
  <2>3. SaveControl'
    BY <1>6, <2>1, <2>2
  <2> QED
    BY <1>3, <1>5, <2>1, <2>3
<1>10. CASE automaton_save_fails
  <2>1. UNCHANGED <<save, output, loading, nodes, kind, store, count, longest_word>>
        /\ pc' = "idle" /\ save = NoSave
    BY <1>10 DEF automaton_save_fails, saveVars, unsaved, object
  <2>2. ~Running
    BY <2>1 DEF Running, NoSave
  <2>3. SaveOK'
    BY <1>4, <2>1, <2>2, SameSave
  <2>4. SaveControl'
    BY <1>6, <2>1 DEF NoSave
  <2> QED
    BY <1>3, <1>5, <2>1, <2>3, <2>4
<1>11. CASE automaton_save_node
  <2>1. SaveOK'
    BY <1>1, <1>11, NodeWritten
  <2>2. Running
    BY <1>11 DEF automaton_save_node, Running
  <2>3. \/ save'.at = "serializer" /\ pc' = "idle"
        \/ save'.at = "next" /\ pc' = "save"
    BY <1>7, <1>8, <1>11, <2>2 DEF automaton_save_node
  <2>4. SaveControl'
    BY <1>6, <2>3 DEF NoSave
  <2> QED
    BY <1>3, <1>5, <2>1, <2>3, <2>4
<1>12. CASE SerializerReturns
  <2>1. SaveOK'
    BY <1>1, <1>12, SerializerWrites
  <2>2. Running
    BY <1>12 DEF SerializerReturns, Running
  <2>3. save'.at = "next" /\ pc' = "save"
    BY <1>7, <1>8, <1>12, <2>2 DEF SerializerReturns
  <2>4. SaveControl'
    BY <1>6, <2>3 DEF NoSave
  <2> QED
    BY <1>3, <1>5, <2>1, <2>3, <2>4
<1>13. CASE SerializerRaises
  <2>1. SaveOK'
    BY <1>13, SerializerFails
  <2>2. Running
    BY <1>13 DEF SerializerRaises, Running
  <2>3. save'.at = "exception" /\ pc' = "save"
    BY <1>7, <1>8, <1>13, <2>2 DEF SerializerRaises
  <2>4. SaveControl'
    BY <1>6, <2>3 DEF NoSave
  <2> QED
    BY <1>3, <1>5, <2>1, <2>3, <2>4
<1>14. CASE SaveCrashes
  <2>1. SaveOK' /\ save.called
    BY <1>1, <1>14, SaveCrashesIf
  <2>2. save' = save /\ pc' = "crash" /\ save.at \in {"serializer", "next"}
    BY <1>14 DEF SaveCrashes, saveVars
  <2>3. SaveControl'
    BY <1>6, <2>2 DEF NoSave
  <2> QED
    BY <1>3, <1>5, <2>1, <2>2, <2>3
<1>15. CASE TraversalDone
  <2>1. SaveOK'
    BY <1>1, <1>15, SaveEnds
  <2>2. Running
    BY <1>15 DEF TraversalDone, Running
  <2>3. \/ save'.at = "exception" /\ pc' = "save"
        \/ save'.at = "done" /\ pc' = "idle"
    <3>1. CASE save' = [save EXCEPT !.at = "exception"] /\ UNCHANGED <<output, ret, pc>>
      <4>1. save'.at = "exception"
        BY <1>7, <1>8, <2>2, <3>1
      <4> QED
        BY <1>15, <3>1, <4>1 DEF TraversalDone
    <3>2. CASE \E first, second \in Outcomes : Finalize(savebuffer_store(output, Footer, first), second)
      BY <3>2 DEF Finalize
    <3> QED
      BY <1>15, <3>1, <3>2 DEF TraversalDone
  <2>4. SaveControl'
    BY <1>6, <2>3 DEF NoSave
  <2> QED
    BY <1>3, <1>5, <2>1, <2>3, <2>4
<1>16. CASE ExceptionRaised
  <2>1. SaveOK'
    BY <1>16, SaveFails
  <2>2. save'.at = "done" /\ pc' = "idle"
    BY <1>16 DEF ExceptionRaised, Finalize
  <2>3. SaveControl'
    BY <1>6, <2>2 DEF NoSave
  <2> QED
    BY <1>3, <1>5, <2>1, <2>2, <2>3
<1> QED
    BY <1>9, <1>10, <1>11, <1>12, <1>13, <1>14, <1>15, <1>16 DEF SaveStep

\* The automaton's own steps, and what happens to the file.
LEMMA LifeInvariant ==
    ASSUME CoreOK, ControlOK, SaveOK, LoadingOK, Unpickled, UNCHANGED pickleOnly,
           LifeGoesOn \/ SerializerCalls \/ FileDamaged
    PROVE  /\ CoreOK' /\ SaveControl' /\ SaveOK' /\ LoadingOK'
           /\ pc' # "crash"
<1>1. SaveControl /\ dump = NoDump /\ dump' = NoDump
    BY ControlIs DEF Unpickled, pickleOnly
<1>2. CASE LifeGoesOn
  <2>1. /\ UNCHANGED <<save, output, loading>> /\ Next
        /\ save = NoSave \/ loading.result = "automaton"
    BY <1>2 DEF LifeGoesOn, saveVars
  <2>2. CoreOK' /\ pc' \in Pc \ {"crash"}
    BY <1>1, <2>1, NextCore
  <2>3. save.at \in {"none", "done"} /\ loading.result # "running"
    <3>1. save = NoSave => loading = NoLoading
      BY <1>1 DEF SaveControl, NoSave
    <3>2. loading.result = "automaton" => save.at = "done"
      BY <1>1 DEF SaveControl, NoLoading
    <3> QED
      BY <2>1, <3>1, <3>2 DEF NoSave, NoLoading
  <2>4. SaveOK'
    <3>1. CASE save = NoSave
      <4>1. (save = NoSave)' /\ (output = NoFile)'
        BY <2>1, <3>1 DEF SaveOK, NoSave, NoFile
      <4> QED
        BY <4>1 DEF SaveOK
    <3>2. CASE loading.result = "automaton"
      BY <2>1, <2>3, <3>2, SameSave DEF Running
    <3> QED
      BY <2>1, <3>1, <3>2
  <2>5. LoadingOK'
    BY <2>1, <2>3, SameLoading
  <2>6. SaveControl'
    BY <1>1, <2>1, <2>2, <2>3 DEF SaveControl, Pc, NoSave, NoLoading
  <2> QED
    BY <2>2, <2>4, <2>5, <2>6
<1>3. CASE SerializerCalls
  <2>1. /\ save.at = "serializer" /\ pc = "idle" /\ Next /\ DOMAIN nodes' # DOMAIN nodes
        /\ UNCHANGED <<output, loading>>
    BY <1>3 DEF SerializerCalls
  <2>2. CoreOK' /\ pc' = "idle"
    BY <1>1, <2>1, NextCore, CallReturns
  <2>3. SaveOK'
    BY <1>3, SerializerChanges
  <2>4. save'.at = "serializer"
    <3>1. DOMAIN save = DOMAIN NewSave
      BY <2>1, SaveRuns DEF Running
    <3>2. DOMAIN NewSave = {"at", "stack", "bytes", "called"}
      BY DEF NewSave
    <3> QED
      BY <1>3, <2>1, <3>1, <3>2 DEF SerializerCalls
  <2>5. loading = NoLoading /\ loading.result # "running"
    BY <1>1, <2>1 DEF SaveControl, NoLoading
  <2>6. SaveControl'
    BY <2>1, <2>2, <2>4, <2>5 DEF SaveControl, Pc, NoSave, NoLoading
  <2> QED
    BY <2>1, <2>2, <2>3, <2>5, <2>6, SameLoading
<1>4. CASE FileDamaged
  <2>1. /\ pc = "idle" /\ pc' = "idle" /\ save.at = "done" /\ UNCHANGED <<save, loading>>
        /\ UNCHANGED unsaved /\ loading = NoLoading
    BY <1>4, Zenon DEF FileDamaged, vars, unsaved
  <2>2. CoreOK'
    BY <2>1, CoreAround
  <2>3. SaveOK'
    BY <1>4, FileAltered
  <2>4. SaveControl'
    BY <1>1, <2>1 DEF SaveControl, NoLoading, NoSave
  <2>5. LoadingOK'
    BY <2>1, SameLoading DEF NoLoading
  <2> QED
    BY <2>1, <2>2, <2>3, <2>4, <2>5
<1> QED
    BY <1>2, <1>3, <1>4

-----------------------------------------------------------------------------
(* load() reads the file that save() wrote. *)

\* The references taken for the entries of `lookup'.
LEMMA ValuesTakenIs ==
    ASSUME NEW S, NEW lookup \in Seq(S), NEW o \in Objects
    PROVE  /\ ValuesTaken(lookup)[o] \in Nat
           /\ \A e : ValuesTaken(Append(lookup, e))[o] = ValuesTaken(lookup)[o] + Bool(e.value = o)
<1>1. PICK n \in Nat : n = Len(lookup) /\ DOMAIN lookup = 1..n
  <2>1. Len(lookup) \in Nat /\ DOMAIN lookup = 1..Len(lookup)
    BY LenProperties
  <2> QED
    BY <2>1, Zenon
<1>2. PICK v : v = [j \in 1..n |-> lookup[j].value]
    OBVIOUS
<1>3. {j \in DOMAIN lookup : lookup[j].value = o} = TakenAt(v, n, o)
    BY <1>1, <1>2 DEF TakenAt
<1>4. ValuesTaken(lookup)[o] = Cardinality(TakenAt(v, n, o))
    BY <1>3 DEF ValuesTaken
<1>5. ASSUME NEW e PROVE ValuesTaken(Append(lookup, e))[o] = ValuesTaken(lookup)[o] + Bool(e.value = o)
  <2>1. PICK T : T = S \cup {e}
    OBVIOUS
  <2>2. lookup \in Seq(T) /\ e \in T
    <3>1. \A j \in 1..Len(lookup) : lookup[j] \in T
      BY <2>1, ElementOfSeq
    <3> QED
      BY <2>1, <3>1, SeqDef, LenProperties
  <2>3. PICK u : u = Append(lookup, e)
    OBVIOUS
  <2>4. /\ DOMAIN u = 1..(n + 1) /\ u[n + 1] = e
        /\ \A j \in 1..n : u[j] = lookup[j]
    <3>1. /\ u \in Seq(T) /\ Len(u) = n + 1 /\ u[n + 1] = e
          /\ \A j \in 1..n : u[j] = lookup[j]
      BY <1>1, <2>2, <2>3, AppendProperties
    <3> QED
      BY <3>1, LenProperties
  <2>5. PICK x : x = [j \in 1..(n + 1) |-> u[j].value]
    OBVIOUS
  <2>6. TakenAt(x, n, o) = TakenAt(v, n, o) /\ x[n + 1] = e.value
    <3>1. \A j \in 1..n : x[j] = v[j]
      BY <1>2, <2>4, <2>5
    <3>2. x[n + 1] = e.value
      BY <2>4, <2>5
    <3> QED
      BY <3>1, <3>2 DEF TakenAt
  <2>7. {j \in DOMAIN u : u[j].value = o} = TakenAt(x, n + 1, o)
    BY <2>4, <2>5 DEF TakenAt
  <2>8. ValuesTaken(u)[o] = Cardinality(TakenAt(x, n + 1, o))
    BY <2>7 DEF ValuesTaken
  <2>9. Cardinality(TakenAt(x, n + 1, o)) = Cardinality(TakenAt(x, n, o)) + Bool(x[n + 1] = o)
    BY TakenCount
  <2> QED
    BY <1>4, <2>3, <2>6, <2>8, <2>9
<1>6. Cardinality(TakenAt(v, n, o)) \in Nat
    BY TakenCount
<1> QED
    BY <1>4, <1>5, <1>6

\* What loadbuffer_close leaves of a load that owns its entries, and nothing else.
LEMMA ClosesAll ==
    ASSUME NEW S, NEW lookup \in Seq(S), NEW refs0, refs0 = ValuesTaken(lookup)
    PROVE  ReleasedEntries(refs0, lookup) = [o \in Objects |-> 0]
<1>1. \A o \in Objects : ValuesTaken(lookup)[o] \in Nat
    BY ValuesTakenIs
<1>2. \A o \in Objects : ReleasedEntries(refs0, lookup)[o] = ValuesTaken(lookup)[o] - ValuesTaken(lookup)[o]
    BY DEF ReleasedEntries, ValuesTaken
<1>3. \A o \in Objects : ReleasedEntries(refs0, lookup)[o] = 0
    BY <1>1, <1>2
<1>4. PICK r : r = ReleasedEntries(refs0, lookup)
    OBVIOUS
<1>5. r = [o \in Objects |-> r[o]]
    BY <1>4 DEF ReleasedEntries
<1> QED
    BY <1>3, <1>4, <1>5

\* Nothing is taken at first, and nothing given back for no entries.
LEMMA NoneTaken ==
    /\ ValuesTaken(<<>>) = [o \in Objects |-> 0]
    /\ \A r \in [Objects -> Int] : ReleasedEntries(r, <<>>) = r
<1>1. \A o : {j \in DOMAIN <<>> : <<>>[j].value = o} = {}
    OBVIOUS
<1>2. \A o : Cardinality({j \in DOMAIN <<>> : <<>>[j].value = o}) = 0
    BY <1>1, FS_EmptySet
<1>3. ValuesTaken(<<>>) = [o \in Objects |-> 0]
    BY <1>2 DEF ValuesTaken
<1>4. ASSUME NEW r \in [Objects -> Int] PROVE ReleasedEntries(r, <<>>) = r
  <2>1. ReleasedEntries(r, <<>>) = [o \in Objects |-> r[o] - 0]
    BY <1>2 DEF ReleasedEntries
  <2>2. \A o \in Objects : r[o] - 0 = r[o]
    OBVIOUS
  <2> QED
    BY <2>1, <2>2
<1> QED
    BY <1>3, <1>4

\* A load that fails.
LEMMA LoadCloses ==
    ASSUME CoreOK, ControlOK, SaveOK, Unpickled, UNCHANGED pickleOnly, pc \in {"idle", "load"},
           save.at = "done", loading.result # "automaton",
           NEW S, NEW l, l.lookup \in Seq(S), l.live = Len(l.lookup),
           l.refs = ValuesTaken(l.lookup),
           NEW exc, exc \notin {"none", "running", "automaton"}, loadbuffer_close(l, exc)
    PROVE  CoreOK' /\ SaveControl' /\ SaveOK' /\ LoadingOK' /\ pc' # "crash"
<1>1. SaveControl
    BY ControlIs
<1>2. /\ loading' = [result |-> exc, live |-> l.live - Len(l.lookup),
                     refs |-> ReleasedEntries(l.refs, l.lookup)]
      /\ pc' = "idle" /\ UNCHANGED <<unsaved, save, output>>
    BY DEF loadbuffer_close
<1>3. loading'.result = exc /\ loading'.live = 0 /\ loading'.refs = [o \in Objects |-> 0]
  <2>1. ReleasedEntries(l.refs, l.lookup) = [o \in Objects |-> 0]
    BY ClosesAll
  <2>2. Len(l.lookup) \in Nat
    BY LenProperties
  <2> QED
    BY <1>2, <2>1, <2>2
<1>4. LoadingOK'
    BY <1>3 DEF LoadingOK, LoadLeavesNothing
<1>5. SaveOK'
    BY <1>2, SameSave DEF Running, unsaved, object
<1>6. CoreOK'
    BY <1>2, CoreAround
<1>7. SaveControl'
    BY <1>1, <1>2, <1>3 DEF SaveControl, Pc, NoSave
<1> QED
    BY <1>2, <1>4, <1>5, <1>6, <1>7

\* The file that a load reads.
LEMMA FileRead ==
    ASSUME SaveOK, save.at = "done", ~save.called, loading.result # "automaton"
    PROVE  WrittenOK(output.tokens) /\ \E S : output.tokens \in Seq(S)
<1>1. ~Running /\ save # NoSave
    BY DEF Running, NoSave
<1>2. PICK S : output.tokens \in Seq(S)
    BY <1>1 DEF SaveOK
<1>3. Written = output.tokens
    BY <1>1, <1>2, WrittenIs
<1> QED
    BY <1>1, <1>2, <1>3 DEF SaveOK

\* A file that ends with its footer.
LEMMA CompleteIs ==
    ASSUME NEW S, NEW w \in Seq(S), WrittenOK(w), Complete(w)
    PROVE  /\ Len(w) \in Nat /\ Len(w) > 1 /\ DOMAIN w = 1..Len(w)
           /\ w[1] = Header /\ w[1].type = "header" /\ w[Len(w)].type = "footer"
           /\ \A k \in 1..Len(w) : w[k].type = "footer" => k = Len(w)
           /\ kind # "EMPTY" => Addresses(w) = DOMAIN nodes
           /\ w[2].type \in {"address", "footer"}
<1>1. Len(w) \in Nat /\ DOMAIN w = 1..Len(w) /\ w # <<>>
    BY LenProperties DEF Complete
<1>2. Len(w) # 0
    BY <1>1, LenZero
<1>3. w[Len(w)].type = "footer" /\ Len(w) \in DOMAIN w
    BY <1>1, <1>2 DEF Complete, Last
<1>4. w[1] = Header /\ w[1].type = "header"
    BY <1>1 DEF WrittenOK, Header
<1>5. Len(w) # 1
    BY <1>3, <1>4
<1>6. Len(w) > 1
    BY <1>1, <1>2, <1>5
<1>7. \A k \in 1..Len(w) : w[k].type = "footer" => k = Len(w)
    BY <1>1, Zenon DEF WrittenOK
<1>8. kind # "EMPTY" => Addresses(w) = DOMAIN nodes
    BY <1>3 DEF WrittenOK
<1> QED
    BY <1>1, <1>3, <1>4, <1>6, <1>7, <1>8, Zenon DEF WrittenOK

\* What the block of p at k is, up to n, and that another item follows.
BlockIs(w, k, p, n) ==
    /\ p \in DOMAIN nodes /\ n \in Nat /\ n < Len(w)
    /\ NodeToken(w[k + 1], p)
    /\ Linked(p) = 1 => PairsToken(w[k + 2], p)
    /\ Valued(p) = 1 => w[n] = Bytes(nodes[p].output)
    /\ w[n + 1].type \in {"address", "footer"}
    /\ \A j \in (k + 1)..n :
        /\ w[j].type \in {"node", "pairs", "bytes"}
        /\ w[j].type = "node" => j = k + 1
        /\ w[j].type = "pairs" => j = k + 2 /\ Linked(p) = 1

LEMMA BlockRead ==
    ASSUME NEW S, NEW w \in Seq(S), WrittenOK(w), Complete(w), NEW k \in 1..Len(w),
           w[k].type = "address", NEW p, p = w[k].node,
           NEW L \in {0, 1}, L = Linked(p), NEW V \in {0, 1}, V = Valued(p),
           NEW n, n = k + 1 + L + V
    PROVE  BlockIs(w, k, p, n)
<1>1. PICK N \in Nat : N = Len(w) /\ DOMAIN w = 1..N /\ w[N].type = "footer"
  <2>1. Len(w) \in Nat /\ DOMAIN w = 1..Len(w) /\ w[Len(w)].type = "footer"
    BY CompleteIs
  <2> QED
    BY <2>1
<1>2. BlockOK(w, k)
    BY <1>1 DEF WrittenOK
<1>3. p \in DOMAIN nodes /\ n \in Nat /\ k \in Nat /\ k <= N
    BY <1>1, <1>2 DEF BlockOK
<1>4. k < N
  <2>1. k # N
    BY <1>1
  <2> QED
    BY <1>3, <2>1
<1>5. NodeToken(w[k + 1], p) /\ w[k + 1].type = "node"
  <2>1. k + 1 <= Len(w)
    BY <1>1, <1>3, <1>4
  <2> QED
    BY <1>2, <2>1 DEF BlockOK, NodeToken
<1>6. k + 1 < N
  <2>1. k + 1 # N
    BY <1>1, <1>5
  <2> QED
    BY <1>3, <1>4, <2>1
<1>7. ASSUME L = 1 PROVE PairsToken(w[k + 2], p) /\ w[k + 2].type = "pairs" /\ k + 2 < N
  <2>1. k + 2 <= Len(w)
    BY <1>1, <1>3, <1>6
  <2>2. PairsToken(w[k + 2], p) /\ w[k + 2].type = "pairs"
    BY <1>2, <1>7, <2>1 DEF BlockOK, PairsToken
  <2>3. k + 2 # N
    BY <1>1, <2>2
  <2> QED
    BY <1>1, <1>3, <2>1, <2>2, <2>3
<1>8. k + 1 + L < N
    BY <1>3, <1>6, <1>7
<1>9. ASSUME V = 1 PROVE w[n] = Bytes(nodes[p].output) /\ w[n].type = "bytes" /\ n < N
  <2>1. n <= Len(w)
    BY <1>1, <1>3, <1>8, <1>9
  <2>2. w[n] = Bytes(nodes[p].output) /\ w[n].type = "bytes"
    BY <1>2, <1>9, <2>1 DEF BlockOK, Bytes
  <2>3. n # N
    BY <1>1, <2>2
  <2> QED
    BY <1>1, <1>3, <2>1, <2>2, <2>3
<1>10. n < N
    BY <1>3, <1>8, <1>9
<1>11. w[n + 1].type \in {"address", "footer"}
  <2>1. n < Len(w)
    BY <1>1, <1>10
  <2> QED
    BY <1>2, <2>1 DEF BlockOK
<1>12. ASSUME NEW j \in (k + 1)..n
       PROVE  /\ w[j].type \in {"node", "pairs", "bytes"}
              /\ w[j].type = "node" => j = k + 1
              /\ w[j].type = "pairs" => j = k + 2 /\ L = 1
  <2>1. CASE j = k + 1
    BY <1>5, <2>1
  <2>2. CASE j = k + 2 /\ L = 1
    BY <1>7, <2>2
  <2>3. CASE j = n /\ V = 1
    BY <1>9, <2>3
  <2>4. j \in Int /\ k + 1 <= j /\ j <= k + 1 + L + V
    BY <1>3, <1>12
  <2>5. j = k + 1 \/ (j = k + 2 /\ L = 1) \/ (j = n /\ V = 1)
    BY <1>3, <2>4
  <2> QED
    BY <2>1, <2>2, <2>3, <2>5
<1> QED
    BY <1>1, <1>3, <1>5, <1>7, <1>9, <1>10, <1>11, <1>12 DEF BlockIs

\* What load() reads of the node at hand is what the automaton has, if not damaged.
EntryRead == [original |-> Original, fields |-> SavedFields, links |-> SavedLinks,
              value |-> IF EntryHasValue THEN SavedValue ELSE NULL]

LEMMA EntryIs ==
    ASSUME CoreOK, dump = NoDump, SaveOK, LoadingOK, loading.result = "running", save.at = "done",
           output.tokens[loading.pos].type = "address",
           NEW w, w = output.tokens, NEW q, q = loading.pos, NEW p, p = w[q].node,
           NEW n, n = q + 1 + Bool(HasLinks) + Bool(EntryHasValue)
    PROVE  /\ EntryOK(EntryRead) /\ EntryRead.original = p
           /\ EntryHasValue => Valued(p) = 1 /\ SavedValue = nodes[p].output
           /\ EntryRead.value = IF EntryHasValue THEN SavedValue ELSE NULL
           /\ q \in Nat /\ q > 1 /\ n \in Nat /\ q < n /\ n < Len(w)
           /\ w[n + 1].type \in {"address", "footer"}
           /\ \A j \in (q + 1)..n :
                /\ w[j].type \in {"node", "pairs", "bytes"}
                /\ w[j].type = "node" => w[j] = SavedFields
                /\ w[j].type = "pairs" => w[j].next = SavedLinks
           /\ SavedHeader = Header
<1>1. Complete(w) /\ ~save.called /\ q \in 2..Len(w) /\ w[q].type = "address"
    BY DEF LoadingOK
<1>2. WrittenOK(w) /\ \E S : w \in Seq(S)
    BY <1>1, FileRead
<1>3. PICK S : w \in Seq(S)
    BY <1>2
<1>4. PICK L \in {0, 1}, V \in {0, 1} : L = Linked(p) /\ V = Valued(p)
    BY LinkedValued
<1>5. PICK m : m = q + 1 + L + V
    OBVIOUS
<1>6. Len(w) \in Nat /\ Len(w) > 1 /\ w[1] = Header
    BY <1>1, <1>2, <1>3, CompleteIs
<1>7. q \in Nat /\ q > 1 /\ q \in 1..Len(w)
    BY <1>1, <1>6
<1>8. /\ p \in DOMAIN nodes /\ m \in Nat /\ m < Len(w)
      /\ NodeToken(w[q + 1], p)
      /\ L = 1 => PairsToken(w[q + 2], p)
      /\ V = 1 => w[m] = Bytes(nodes[p].output)
      /\ w[m + 1].type \in {"address", "footer"}
      /\ \A j \in (q + 1)..m :
            /\ w[j].type \in {"node", "pairs", "bytes"}
            /\ w[j].type = "node" => j = q + 1
            /\ w[j].type = "pairs" => j = q + 2 /\ L = 1
  <2>1. BlockIs(w, q, p, m)
    BY <1>1, <1>2, <1>3, <1>4, <1>5, <1>7, BlockRead
  <2> QED
    BY <1>4, <2>1 DEF BlockIs
<1>9. SavedFields = w[q + 1] /\ Original = p /\ SavedHeader = Header
    BY <1>6 DEF SavedFields, Original, SavedHeader
<1>10. SavedFields.n = Len(nodes[p].next) /\ SavedFields.eow = nodes[p].eow
    BY <1>8, <1>9 DEF NodeToken, SavedNode
<1>11. HasLinks <=> L = 1
  <2>1. PICK next : next = nodes[p].next
    OBVIOUS
  <2>2. HasLinks <=> Len(next) > 0
    BY <1>10, <2>1 DEF HasLinks
  <2>3. L = 1 <=> next # <<>>
    BY <1>4, <2>1 DEF Linked, Bool
  <2>4. next = <<>> => ~(Len(next) > 0)
    BY EmptySeq
  <2>5. next # <<>> => Len(next) > 0
    <3>1. next \in Seq(Letters)
      BY <1>8, <2>1, CoreIs DEF Heap, TrieNode
    <3>2. Len(next) \in Nat /\ (next # <<>> => Len(next) # 0)
      BY <3>1, LenZero, LenProperties
    <3> QED
      BY <3>2
  <2> QED
    BY <2>2, <2>3, <2>4, <2>5
<1>12. EntryHasValue <=> V = 1
  <2>1. SavedHeader.store = store
    BY <1>9 DEF Header
  <2> QED
    BY <1>4, <1>10, <2>1 DEF EntryHasValue, Valued, Bool
<1>13. Bool(HasLinks) = L /\ Bool(EntryHasValue) = V
    BY <1>11, <1>12 DEF Bool
<1>14. n = m
    BY <1>5, <1>13
<1>15. ASSUME EntryHasValue PROVE SavedValue = nodes[p].output
  <2>1. q + 2 + Bool(HasLinks) = m
    BY <1>5, <1>7, <1>12, <1>13, <1>15
  <2>2. SavedValue = w[m].value
    BY <2>1 DEF SavedValue
  <2> QED
    BY <1>8, <1>12, <1>15, <2>2 DEF Bytes
<1>16. IF Linked(p) = 1 THEN LinksToken(SavedLinks, p) ELSE SavedLinks = <<>>
  <2>1. SavedLinks = IF L = 1 THEN w[q + 2].next ELSE <<>>
    BY <1>11 DEF SavedLinks
  <2> QED
    BY <1>4, <1>8, <2>1 DEF PairsToken
<1>17. /\ EntryRead.original = p /\ EntryRead.fields = SavedFields /\ EntryRead.links = SavedLinks
       /\ EntryRead.value = IF EntryHasValue THEN SavedValue ELSE NULL
    BY <1>9 DEF EntryRead
<1>18. EntryOK(EntryRead)
  <2>1. NodeToken(EntryRead.fields, p)
    BY <1>8, <1>9, <1>17
  <2>2. EntryRead.value = IF Valued(p) = 1 THEN nodes[p].output ELSE NULL
    BY <1>4, <1>12, <1>15, <1>17
  <2> QED
    BY <1>8, <1>16, <1>17, <2>1, <2>2 DEF EntryOK
<1>19. q < n
    BY <1>4, <1>5, <1>7, <1>14
<1>20. L = 1 => SavedLinks = w[q + 2].next
    BY <1>11 DEF SavedLinks
<1>21. \A j \in (q + 1)..n :
            /\ w[j].type \in {"node", "pairs", "bytes"}
            /\ w[j].type = "node" => w[j] = SavedFields
            /\ w[j].type = "pairs" => w[j].next = SavedLinks
    BY <1>8, <1>9, <1>14, <1>20
<1> QED
    BY <1>4, <1>7, <1>8, <1>9, <1>12, <1>14, <1>15, <1>17, <1>18, <1>19, <1>21

LEMMA SameEntry ==
    ASSUME UNCHANGED <<nodes, kind, store, output>>, NEW e, EntryOK(e)
    PROVE  EntryOK(e)'
<1>1. \A p : Linked(p)' = Linked(p) /\ Valued(p)' = Valued(p)
    BY DEF Linked, Valued
<1>2. \A t, p : NodeToken(t, p)' <=> NodeToken(t, p)
    BY DEF NodeToken, SavedNode
<1>3. \A t, p : LinksToken(t, p)' <=> LinksToken(t, p)
    BY DEF LinksToken
<1> QED
    BY <1>1, <1>2, <1>3 DEF EntryOK

\* The addresses up to n, of which the one at q is the last.
LEMMA AddressesUpTo ==
    ASSUME NEW w, NEW q \in Nat \ {0}, NEW n \in Nat, q <= n, w[q].type = "address",
           \A j \in (q + 1)..n : w[j].type \in {"node", "pairs", "bytes"}
    PROVE  AddressesTo(w, n) = AddressesTo(w, q - 1) \cup {w[q].node}
<1>1. ASSUME NEW a
      PROVE  (\E j \in 1..n : w[j].type = "address" /\ w[j].node = a)
             <=> (\E j \in 1..(q - 1) : w[j].type = "address" /\ w[j].node = a) \/ a = w[q].node
  <2>1. \A j : j \in 1..n <=> j \in 1..(q - 1) \/ j = q \/ j \in (q + 1)..n
    OBVIOUS
  <2> QED
    BY <2>1
<1>2. \A m, a : a \in AddressesTo(w, m) <=> \E j \in 1..m : w[j].type = "address" /\ w[j].node = a
    BY DEF AddressesTo
<1> QED
    BY <1>1, <1>2

\* An entry is added to `lookup'.
LEMMA LookupGrows ==
    ASSUME NEW S, NEW lookup \in Seq(S), NEW e, NEW u, u = Append(lookup, e)
    PROVE  /\ \E T : u \in Seq(T)
           /\ Len(lookup) \in Nat /\ Len(u) = Len(lookup) + 1
           /\ DOMAIN lookup = 1..Len(lookup)
           /\ DOMAIN u = 1..(Len(lookup) + 1) /\ u[Len(lookup) + 1] = e
           /\ \A j \in 1..Len(lookup) : u[j] = lookup[j]
<1>1. PICK T : T = S \cup {e}
    OBVIOUS
<1>2. lookup \in Seq(T) /\ e \in T
  <2>1. \A j \in 1..Len(lookup) : lookup[j] \in T
    BY <1>1, ElementOfSeq
  <2> QED
    BY <1>1, <2>1, SeqDef, LenProperties
<1>3. /\ u \in Seq(T) /\ Len(u) = Len(lookup) + 1 /\ u[Len(lookup) + 1] = e
      /\ \A j \in 1..Len(lookup) : u[j] = lookup[j]
    BY <1>2, AppendProperties
<1> QED
    BY <1>3, LenProperties

\* A node is read, or the load fails at it.
LEMMA NodeLoaded ==
    ASSUME CoreOK, ControlOK, SaveOK, LoadingOK, Unpickled, UNCHANGED pickleOnly,
           automaton_load_node
    PROVE  CoreOK' /\ SaveControl' /\ SaveOK' /\ LoadingOK' /\ pc' # "crash"
<1>1. SaveControl /\ dump = NoDump
    BY ControlIs DEF Unpickled
<1>2. /\ pc = "load" /\ loading.result = "running" /\ save.at = "done"
      /\ output.tokens[loading.pos].type = "address"
    BY <1>1 DEF automaton_load_node, SaveControl, NoLoading
<1>3. PICK S : loading.lookup \in Seq(S)
    BY <1>2 DEF LoadingOK
<1>4. PICK lookup : lookup = loading.lookup /\ lookup \in Seq(S)
    BY <1>3
<1>5. /\ DOMAIN loading = DOMAIN NewLoading /\ loading.live = Len(lookup) /\ Len(lookup) \in Nat
      /\ loading.refs = ValuesTaken(lookup) /\ DOMAIN lookup = 1..Len(lookup)
    BY <1>2, <1>4, LenProperties DEF LoadingOK
<1>6. DOMAIN NewLoading = {"result", "pos", "lookup", "live", "refs"}
    BY DEF NewLoading
<1>7. PICK a : a = Allocate(loading)
    OBVIOUS
<1>8. /\ DOMAIN a = {"result", "pos", "lookup", "live", "refs"} /\ a.live = Len(lookup) + 1
      /\ a.lookup = lookup /\ a.refs = loading.refs /\ a.pos = loading.pos /\ a.result = "running"
    BY <1>2, <1>4, <1>5, <1>6, <1>7 DEF Allocate
<1>9. PICK f : f = FreeNode(a)
    OBVIOUS
<1>10. f.live = Len(lookup) /\ f.lookup = lookup /\ f.refs = ValuesTaken(lookup)
    BY <1>5, <1>8, <1>9 DEF FreeNode
<1>11. ASSUME NEW exc \in {"MemoryError", "DeserializerError", "ValueError"},
              loadbuffer_close(loading, exc) \/ loadbuffer_close(f, exc)
       PROVE  CoreOK' /\ SaveControl' /\ SaveOK' /\ LoadingOK' /\ pc' # "crash"
  <2>1. exc \notin {"none", "running", "automaton"}
    OBVIOUS
  <2>2. CASE loadbuffer_close(loading, exc)
    <3>1. /\ loading.lookup \in Seq(S) /\ loading.live = Len(loading.lookup)
          /\ loading.refs = ValuesTaken(loading.lookup)
      BY <1>4, <1>5
    <3> QED
      BY <1>2, <2>1, <2>2, <3>1, LoadCloses
  <2>3. CASE loadbuffer_close(f, exc)
    <3>1. f.lookup \in Seq(S) /\ f.live = Len(f.lookup) /\ f.refs = ValuesTaken(f.lookup)
      BY <1>4, <1>10
    <3> QED
      BY <1>2, <2>1, <2>3, <3>1, LoadCloses
  <2> QED
    BY <1>11, <2>2, <2>3
<1>12. CASE /\ loading' = [Allocate(loading) EXCEPT
                  !.pos = @ + 2 + Bool(HasLinks) + Bool(EntryHasValue),
                  !.lookup = Append(@, EntryRead),
                  !.refs = IF EntryHasValue THEN Retain(@, SavedValue) ELSE @]
            /\ UNCHANGED <<unsaved, pc, ret, save, output>>
  <2>1. PICK w : w = output.tokens
    OBVIOUS
  <2>2. PICK q : q = loading.pos
    OBVIOUS
  <2>3. PICK p : p = w[q].node
    OBVIOUS
  <2>4. PICK n : n = q + 1 + Bool(HasLinks) + Bool(EntryHasValue)
    OBVIOUS
  <2>5. /\ EntryOK(EntryRead) /\ EntryRead.original = p
        /\ EntryHasValue => Valued(p) = 1 /\ SavedValue = nodes[p].output
        /\ EntryRead.value = IF EntryHasValue THEN SavedValue ELSE NULL
        /\ q \in Nat /\ q > 1 /\ n \in Nat /\ q < n /\ n < Len(w)
        /\ w[n + 1].type \in {"address", "footer"}
        /\ \A j \in (q + 1)..n : w[j].type \in {"node", "pairs", "bytes"}
    BY <1>1, <1>2, <2>1, <2>2, <2>3, <2>4, EntryIs
  <2>6. PICK e : e = EntryRead
    OBVIOUS
  <2>7. PICK u : u = Append(lookup, e)
    OBVIOUS
  <2>8. PICK N \in Nat : N = Len(lookup)
    BY <1>5, Zenon
  <2>9. /\ \E T : u \in Seq(T)
        /\ Len(u) = N + 1 /\ DOMAIN u = 1..(N + 1) /\ u[N + 1] = e
        /\ DOMAIN lookup = 1..N /\ \A j \in 1..N : u[j] = lookup[j]
    <3>1. /\ \E T : u \in Seq(T)
          /\ Len(u) = Len(lookup) + 1 /\ DOMAIN lookup = 1..Len(lookup)
          /\ DOMAIN u = 1..(Len(lookup) + 1) /\ u[Len(lookup) + 1] = e
          /\ \A j \in 1..Len(lookup) : u[j] = lookup[j]
      BY <1>4, <2>7, LookupGrows
    <3> QED
      BY <2>8, <3>1
  <2>10. q + 2 + Bool(HasLinks) + Bool(EntryHasValue) = n + 1
    BY <2>4, <2>5 DEF Bool
  <2>11. /\ DOMAIN loading' = DOMAIN NewLoading /\ loading'.result = "running"
         /\ loading'.pos = n + 1 /\ loading'.lookup = u /\ loading'.live = N + 1
         /\ loading'.refs = IF EntryHasValue THEN Retain(loading.refs, SavedValue) ELSE loading.refs
    BY <1>6, <1>7, <1>8, <1>12, <2>2, <2>6, <2>7, <2>8, <2>10
  <2>12. loading'.refs = ValuesTaken(u)
    <3>1. \A o \in Objects : ValuesTaken(u)[o] = ValuesTaken(lookup)[o] + Bool(e.value = o)
                             /\ ValuesTaken(lookup)[o] \in Nat
      BY <1>4, <2>7, ValuesTakenIs
    <3>2. \A x : ValuesTaken(x) = [o \in Objects |-> ValuesTaken(x)[o]]
      BY DEF ValuesTaken
    <3>3. CASE EntryHasValue
      <4>1. store = "ANY" /\ nodes[p].eow /\ p \in DOMAIN nodes
        BY <2>5, <3>3 DEF Valued, Bool, EntryOK
      <4>2. e.value \in Objects /\ e.value = SavedValue
        BY <1>1, <2>5, <2>6, <3>3, <4>1, CoreIs
      <4>3. loading'.refs = [loading.refs EXCEPT ![e.value] = @ + 1]
        BY <2>11, <3>3, <4>1, <4>2 DEF Retain
      <4>4. PICK r : r = ValuesTaken(lookup)
        OBVIOUS
      <4>5. loading.refs = r /\ r = [o \in Objects |-> r[o]]
        BY <1>5, <3>2, <4>4
      <4>6. PICK v : v = e.value
        OBVIOUS
      <4>7. loading'.refs = [o \in Objects |-> IF o = v THEN r[o] + 1 ELSE r[o]]
        BY <4>2, <4>3, <4>5, <4>6
      <4>8. \A o \in Objects : ValuesTaken(u)[o] = IF o = v THEN r[o] + 1 ELSE r[o]
        BY <3>1, <4>4, <4>6 DEF Bool
      <4> QED
        BY <3>2, <4>7, <4>8
    <3>4. CASE ~EntryHasValue
      <4>1. e.value = NULL
        BY <2>5, <2>6, <3>4
      <4>2. \A o \in Objects : ValuesTaken(u)[o] = ValuesTaken(lookup)[o]
        BY <3>1, <4>1, SaveAssumption DEF Bool
      <4>3. ValuesTaken(u) = ValuesTaken(lookup)
        BY <3>2, <4>2
      <4> QED
        BY <1>5, <2>11, <3>4, <4>3
    <3> QED
      BY <3>3, <3>4
  <2>13. WrittenOK(w) /\ \E T : w \in Seq(T)
    BY <1>2, <2>1, FileRead DEF LoadingOK
  <2>14. DOMAIN w = 1..Len(w) /\ Len(w) \in Nat
    BY <2>13, LenProperties
  <2>15. Known = AddressesTo(w, q - 1)
    BY <1>2, <2>1, <2>2 DEF LoadingOK
  <2>16. p \notin Known
    <3>1. ASSUME NEW j \in 1..(q - 1), w[j].type = "address", w[j].node = p
          PROVE  FALSE
      <4>1. j \in DOMAIN w /\ q \in DOMAIN w /\ j # q
        BY <2>5, <2>14
      <4> QED
        BY <1>2, <2>1, <2>2, <2>3, <2>13, <3>1, <4>1 DEF WrittenOK
    <3> QED
      BY <2>15, <3>1 DEF AddressesTo
  <2>17. \A j \in 1..N : lookup[j].original # p
    BY <1>4, <2>9, <2>16 DEF Known
  <2>18. \A j, k \in DOMAIN u : u[j].original = u[k].original => j = k
    <3>1. \A j, k \in 1..N : lookup[j].original = lookup[k].original => j = k
      BY <1>2, <1>4, <2>9 DEF LoadingOK
    <3>2. u[N + 1].original = p
      BY <2>5, <2>6, <2>9
    <3>3. \A j \in DOMAIN u : j \in 1..N \/ j = N + 1
      BY <2>9
    <3> QED
      BY <2>9, <2>17, <3>1, <3>2, <3>3
  <2>19. UNCHANGED <<nodes, kind, store, count, longest_word, output, save>>
    BY <1>12 DEF unsaved, object
  <2>20. ASSUME NEW j \in DOMAIN u PROVE EntryOK(u[j])'
    <3>1. EntryOK(u[j])
      <4>1. CASE j \in 1..N
        BY <1>2, <1>4, <2>9, <4>1 DEF LoadingOK
      <4>2. CASE j = N + 1
        BY <2>5, <2>6, <2>9, <4>2
      <4> QED
        BY <2>9, <4>1, <4>2
    <3>2. PICK x : x = u[j]
      OBVIOUS
    <3> QED
      BY <2>19, <3>1, <3>2, SameEntry
  <2>21. Known' = AddressesTo(w, n)
    <3>1. AddressesTo(w, n) = AddressesTo(w, q - 1) \cup {p}
      <4>1. q \in Nat \ {0} /\ q <= n /\ w[q].type = "address" /\ p = w[q].node
        BY <1>2, <2>1, <2>2, <2>3, <2>5
      <4> QED
        BY <2>5, <4>1, AddressesUpTo
    <3>2. Known' = {u[j].original : j \in DOMAIN u}
      BY <2>11 DEF Known
    <3>3. Known = {lookup[j].original : j \in 1..N}
      BY <1>4, <2>9 DEF Known
    <3>4. \A j \in 1..N : j \in DOMAIN u /\ u[j].original = lookup[j].original
      BY <2>9
    <3>5. N + 1 \in DOMAIN u /\ u[N + 1].original = p
      BY <2>5, <2>6, <2>9
    <3>6. \A j \in DOMAIN u : j \in 1..N \/ j = N + 1
      BY <2>9
    <3> QED
      BY <2>15, <3>1, <3>2, <3>3, <3>4, <3>5, <3>6
  <2>22. /\ n + 1 \in 2..Len(w) /\ w[n + 1].type \in {"address", "footer"}
         /\ n + 1 - 1 = n
    BY <2>5, <2>14
  <2>23. Complete(w) /\ ~save.called /\ kind # "EMPTY"
    BY <1>2, <2>1 DEF LoadingOK
  <2>24. /\ output'.tokens = w /\ Complete(output.tokens)' /\ ~save'.called /\ kind' # "EMPTY"
    BY <2>1, <2>19, <2>23 DEF Complete
  <2>25. AddressesTo(output'.tokens, loading'.pos - 1) = AddressesTo(w, n)
    <3>1. loading'.pos - 1 = n
      <4>1. PICK m \in Nat : m = n
        BY <2>5
      <4>2. loading'.pos = m + 1
        BY <2>11, <4>1
      <4> QED
        BY <4>1, <4>2
    <3> QED
      BY <2>24, <3>1 DEF AddressesTo
  <2>26. \A j \in DOMAIN loading'.lookup : EntryOK(loading.lookup[j])'
    <3> SUFFICES ASSUME NEW j \in DOMAIN loading'.lookup PROVE EntryOK(loading.lookup[j])'
      OBVIOUS
    <3>1. PICK x : x = u[j] /\ x = loading'.lookup[j]
      BY <2>11
    <3>2. PICK k \in DOMAIN u : k = j
      BY <2>11
    <3>3. EntryOK(u[k])'
      BY <2>20
    <3>4. x = u[k]
      BY <3>1, <3>2
    <3>5. EntryOK(x)'
      BY <3>3, <3>4
    <3> QED
      BY <3>1, <3>5
  <2>27. LoadingOK'
    <3>1. LoadLeavesNothing'
      BY <2>11 DEF LoadLeavesNothing
    <3>2. ValuesTaken(loading.lookup)' = ValuesTaken(u)
      BY <2>11 DEF ValuesTaken
    <3>3. AddressesTo(output.tokens, loading.pos - 1)' = AddressesTo(w, n)
      BY <2>25 DEF AddressesTo
    <3>4. (DOMAIN NewLoading)' = DOMAIN NewLoading
      BY DEF NewLoading
    <3>5. (\E T : loading.lookup \in Seq(T))' /\ loading'.live = Len(loading'.lookup)
      BY <2>9, <2>11
    <3>6. loading'.pos \in 2..Len(output'.tokens)
          /\ output'.tokens[loading'.pos].type \in {"address", "footer"}
      BY <2>11, <2>22, <2>24
    <3>7. \A j, k \in DOMAIN loading'.lookup :
            loading'.lookup[j].original = loading'.lookup[k].original => j = k
      BY <2>11, <2>18
    <3>8. loading'.refs = ValuesTaken(loading.lookup)'
      BY <2>12, <3>2
    <3>9. Known' = AddressesTo(output.tokens, loading.pos - 1)'
      BY <2>21, <3>3
    <3> QED
      BY <2>11, <2>24, <2>26, <3>1, <3>4, <3>5, <3>6, <3>7, <3>8, <3>9 DEF LoadingOK
  <2>28. SaveOK'
    BY <1>2, <2>11, <2>19, SameSave DEF Running
  <2>29. CoreOK' /\ pc' = "load"
    BY <1>2, <1>12, CoreAround
  <2>30. SaveControl'
    BY <1>1, <1>2, <1>12, <2>11, <2>29 DEF SaveControl
  <2> QED
    BY <2>27, <2>28, <2>29, <2>30
<1> QED
    BY <1>7, <1>9, <1>11, <1>12 DEF automaton_load_node, EntryRead

\* A node is loaded as it was, but that a TRIE loses the targets of its fail links.
Reloaded(t, p) ==
    /\ t.next = nodes[p].next /\ t.eow = nodes[p].eow
    /\ store # "ANY" \/ t.eow => t.output = nodes[p].output
    /\ t.fail = nodes[p].fail \/ (kind # "AHOCORASICK" /\ nodes[p].fail # NULL /\ t.fail = FREED)
    /\ t \in TrieNode

LEMMA NodeReloaded ==
    ASSUME CoreOK, dump = NoDump, SavedHeader = Header, Known = DOMAIN nodes,
           NEW e, EntryOK(e), ~Unknown(e), NEW p, p = e.original
    PROVE  Reloaded(LoadedNode(e), p)
<1>1. /\ p \in DOMAIN nodes /\ nodes[p] \in TrieNode /\ DOMAIN nodes \subseteq Seq(Letters)
    BY CoreIs DEF EntryOK, Heap
<1>2. PICK t : t = LoadedNode(e)
    OBVIOUS
<1>3. /\ DOMAIN t = {"next", "eow", "output", "fail"}
      /\ t.next = [j \in DOMAIN e.links |-> e.links[j].letter] /\ t.eow = e.fields.eow
      /\ t.output = IF e.value = NULL THEN e.fields.output ELSE e.value
      /\ t.fail = CurrentFail(e)
      /\ t = [next |-> t.next, eow |-> t.eow, output |-> t.output, fail |-> t.fail]
    BY <1>2 DEF LoadedNode
<1>4. NodeToken(e.fields, p)
    BY DEF EntryOK
<1>5. PICK next \in Seq(Letters) : next = nodes[p].next
    BY <1>1 DEF TrieNode
<1>6. t.next = next
  <2>1. CASE Linked(p) = 1
    <3>1. LinksToken(e.links, p)
      BY <2>1 DEF EntryOK
    <3>2. /\ DOMAIN e.links = DOMAIN next
          /\ \A j \in DOMAIN next : e.links[j].letter = next[j]
      <4>1. DOMAIN e.links = DOMAIN next
        BY <1>5, <3>1 DEF LinksToken
      <4>2. ASSUME NEW j \in DOMAIN next PROVE e.links[j].letter = next[j]
        <5>1. PICK c, l : c = e.links[j].child /\ l = next[j]
          OBVIOUS
        <5>2. e.links[j] = [letter |-> l, child |-> c]
          BY <1>5, <3>1, <5>1 DEF LinksToken
        <5> QED
          BY <5>1, <5>2
      <4> QED
        BY <4>1, <4>2
    <3>3. t.next = [j \in DOMAIN next |-> next[j]]
      BY <1>3, <3>2
    <3>4. next = [j \in DOMAIN next |-> next[j]]
      BY <1>5, LenProperties
    <3> QED
      BY <3>3, <3>4
  <2>2. CASE Linked(p) # 1
    <3>1. next = <<>>
      BY <1>5, <2>2 DEF Linked, Bool
    <3>2. e.links = <<>>
      BY <2>2 DEF EntryOK
    <3>3. DOMAIN e.links = {}
      BY <3>2
    <3>4. t.next = [j \in {} |-> e.links[j].letter]
      BY <1>3, <3>3
    <3>5. \A f : [j \in {} |-> f[j].letter] = <<>>
      OBVIOUS
    <3> QED
      BY <3>1, <3>4, <3>5
  <2> QED
    BY <2>1, <2>2
<1>7. t.eow = nodes[p].eow
    BY <1>3, <1>4 DEF NodeToken, SavedNode
<1>8. (store # "ANY" \/ t.eow => t.output = nodes[p].output) /\ t.output \in Int
  <2>1. e.fields.output = SavedNode(p).output
    BY <1>4 DEF NodeToken
  <2>2. CASE Valued(p) = 1
    <3>1. store = "ANY" /\ nodes[p].eow
      BY <2>2 DEF Valued, Bool
    <3>2. e.value = nodes[p].output /\ e.value \in Objects
      BY <1>1, <2>2, <3>1, CoreIs DEF EntryOK
    <3>3. e.value # NULL
      BY <3>2, SaveAssumption
    <3> QED
      BY <1>1, <1>3, <3>2, <3>3 DEF TrieNode
  <2>3. CASE Valued(p) # 1
    <3>1. store # "ANY" \/ ~nodes[p].eow
      BY <2>3 DEF Valued, Bool
    <3>2. e.value = NULL
      BY <2>3 DEF EntryOK
    <3>3. t.output = IF store # "ANY" THEN nodes[p].output ELSE 0
      BY <1>3, <2>1, <3>1, <3>2 DEF SavedNode
    <3> QED
      BY <1>1, <1>7, <3>1, <3>3 DEF TrieNode
  <2> QED
    BY <2>2, <2>3
<1>9. /\ t.fail = nodes[p].fail \/ (kind # "AHOCORASICK" /\ nodes[p].fail # NULL /\ t.fail = FREED)
      /\ t.fail \in Pointer
  <2>1. SavedHeader.kind = kind
    BY DEF Header
  <2>2. nodes[p].fail \in Pointer
    BY <1>1 DEF TrieNode
  <2>3. CASE kind = "AHOCORASICK"
    <3>1. e.fields.fail \in DOMAIN nodes \cup {NULL}
      BY <2>1, <2>3 DEF Unknown
    <3>2. e.fields.fail # FREED
      BY <1>1, <3>1, PointerAssumption
    <3>3. e.fields.fail = nodes[p].fail
      BY <1>4, <3>2 DEF NodeToken
    <3> QED
      BY <1>3, <2>1, <2>2, <2>3, <3>3 DEF CurrentFail
  <2>4. CASE kind # "AHOCORASICK"
    <3>1. e.fields.fail = nodes[p].fail
      BY <1>4, <2>4 DEF NodeToken
    <3>2. t.fail = IF nodes[p].fail = NULL THEN nodes[p].fail ELSE FREED
      BY <1>3, <2>1, <2>4, <3>1 DEF CurrentFail
    <3> QED
      BY <2>2, <2>4, <3>2 DEF Pointer
  <2> QED
    BY <2>3, <2>4
<1>10. t \in TrieNode
    BY <1>1, <1>3, <1>5, <1>6, <1>7, <1>8, <1>9 DEF TrieNode
<1> QED
    BY <1>2, <1>5, <1>6, <1>7, <1>8, <1>9, <1>10 DEF Reloaded

\* The references taken are those that the nodes hold, one for each entry with a value.
LEMMA HoldersTaken ==
    ASSUME CoreOK, dump = NoDump, store = "ANY", NEW S, NEW lookup \in Seq(S),
           \A j \in DOMAIN lookup : EntryOK(lookup[j]),
           \A j, k \in DOMAIN lookup : lookup[j].original = lookup[k].original => j = k,
           \A p \in DOMAIN nodes : \E j \in DOMAIN lookup : lookup[j].original = p,
           NEW o \in Objects
    PROVE  ValuesTaken(lookup)[o] = Cardinality(Holders(nodes, o))
<1>1. PICK J : J = {j \in DOMAIN lookup : lookup[j].value = o}
    OBVIOUS
<1>2. PICK H : H = Holders(nodes, o)
    OBVIOUS
<1>3. ValuesTaken(lookup)[o] = Cardinality(J)
    BY <1>1 DEF ValuesTaken
<1>4. o # NULL
    BY SaveAssumption
<1>5. \A j \in DOMAIN lookup : /\ lookup[j].original \in DOMAIN nodes
                               /\ lookup[j].value = o <=> lookup[j].original \in H
  <2> SUFFICES ASSUME NEW j \in DOMAIN lookup
               PROVE  /\ lookup[j].original \in DOMAIN nodes
                      /\ lookup[j].value = o <=> lookup[j].original \in H
    OBVIOUS
  <2>1. PICK p : p = lookup[j].original
    OBVIOUS
  <2>2. p \in DOMAIN nodes /\ lookup[j].value = IF Valued(p) = 1 THEN nodes[p].output ELSE NULL
    BY <2>1 DEF EntryOK
  <2>3. Valued(p) = 1 <=> nodes[p].eow
    BY DEF Valued, Bool
  <2>4. p \in H <=> nodes[p].eow /\ nodes[p].output = o
    BY <1>2, <2>2 DEF Holders, Keys
  <2> QED
    BY <1>4, <2>1, <2>2, <2>3, <2>4
<1>6. PICK f : f = [j \in J |-> lookup[j].original]
    OBVIOUS
<1>7. f \in [J -> H]
    BY <1>1, <1>5, <1>6
<1>8. f \in Injection(J, H)
    BY <1>1, <1>6, <1>7 DEF Injection, IsInjective
<1>9. f \in Surjection(J, H)
  <2>1. \A p \in H : \E j \in J : f[j] = p
    <3> SUFFICES ASSUME NEW p \in H PROVE \E j \in J : f[j] = p
      OBVIOUS
    <3>1. p \in DOMAIN nodes
      BY <1>2 DEF Holders, Keys
    <3>2. PICK j \in DOMAIN lookup : lookup[j].original = p
      BY <3>1
    <3>3. j \in J
      BY <1>1, <1>5, <3>2
    <3> QED
      BY <1>6, <3>2, <3>3
  <2> QED
    BY <1>7, <2>1 DEF Surjection
<1>10. IsFiniteSet(H)
  <2>1. IsFiniteSet(DOMAIN nodes)
    BY DEF CoreOK, HeapOK, heap
  <2>2. H \subseteq DOMAIN nodes
    BY <1>2 DEF Holders, Keys
  <2> QED
    BY <2>1, <2>2, FS_Subset
<1>11. Cardinality(J) = Cardinality(H)
    BY <1>8, <1>9, <1>10, FS_Injection
<1> QED
    BY <1>2, <1>3, <1>11

\* An automaton that takes the place of the other.
LEMMA Installs ==
    ASSUME CoreOK, ControlOK, SaveOK, Unpickled, UNCHANGED pickleOnly, pc \in {"idle", "load"},
           save.at = "done", SavedHeader = Header, NEW h, NEW l, Install(h, l),
           Heap(h), Tree(h), IsFiniteSet(DOMAIN h),
           kind # "EMPTY" => Root \in DOMAIN h, Root \in DOMAIN h => h[Root].fail = NULL,
           Keys(h) \subseteq Keys(nodes), PointersLive(h), kind = "AHOCORASICK" => NoneFreed(h),
           ReleasedEntries(l.refs, l.lookup) \in [Objects -> Int],
           store = "ANY" =>
                /\ \A p \in Keys(h) : h[p].output \in Objects
                /\ \A o \in Objects : ReleasedEntries(l.refs, l.lookup)[o]
                                      = Cardinality(Holders(h, o))
    PROVE  CoreOK' /\ SaveControl' /\ SaveOK' /\ LoadingOK' /\ pc' # "crash"
<1>1. SaveControl /\ dump = NoDump /\ dump' = NoDump
    BY ControlIs DEF Unpickled, pickleOnly
<1>2. PICK r : r = ReleasedEntries(l.refs, l.lookup)
    OBVIOUS
<1>3. /\ nodes' = h /\ version' = 0 /\ stats' = NoStats /\ refs' = r
      /\ loading' = [result |-> "automaton"] /\ pc' = "idle"
      /\ UNCHANGED <<locals, save, output>>
    BY <1>2 DEF Install
<1>4. UNCHANGED <<kind, store, count, longest_word>>
    BY DEF Install, Header
<1>5. ScalarsOK'
  <2>1. MaxVersion \in Nat
    BY ConstantAssumption
  <2> QED
    BY <1>2, <1>3, <1>4, <2>1 DEF CoreOK, ScalarsOK, NoStats, locals
<1>6. HeapOK(nodes)
    BY <1>1 DEF CoreOK, heap
<1>7. Cardinality(Keys(h)) <= count
  <2>1. IsFiniteSet(Keys(nodes)) /\ Keys(nodes) \subseteq DOMAIN nodes
    <3>1. IsFiniteSet(DOMAIN nodes) /\ Keys(nodes) \subseteq DOMAIN nodes
      BY <1>6 DEF HeapOK, Keys
    <3> QED
      BY <3>1, FS_Subset
  <2>2. IsFiniteSet(Keys(h)) /\ Cardinality(Keys(h)) <= Cardinality(Keys(nodes))
    BY <2>1, FS_Subset
  <2>3. Cardinality(Keys(nodes)) <= count /\ count \in Nat
    BY <1>6 DEF HeapOK, CoreOK, ScalarsOK
  <2>4. Cardinality(Keys(h)) \in Nat /\ Cardinality(Keys(nodes)) \in Nat
    BY <2>1, <2>2, FS_CardinalityType
  <2> QED
    BY <2>2, <2>3, <2>4
<1>8. HeapOK(nodes)'
  <2>1. LinksOK(nodes)'
    BY <1>3, <1>4, <1>6 DEF LinksOK, PointersLive, NoneFreed, HeapOK
  <2> QED
    BY <1>2, <1>3, <1>4, <1>7, <2>1 DEF HeapOK
<1>9. Resting'
  <2>1. Resting
    <3>1. CASE pc = "idle"
      <4>1. FailsInv
        BY <1>1, <3>1 DEF CoreOK
      <4> QED
        BY <3>1, <4>1 DEF FailsInv, IInv, FrameOK, Resting
    <3>2. CASE pc = "load"
      BY <3>2 DEF CoreOK, Pc
    <3> QED
      BY <3>1, <3>2
  <2> QED
    BY <1>3, <2>1 DEF Resting, locals
<1>10. ~Building' /\ (pc # "crash")'
    BY <1>3 DEF Building
<1>11. FailsInv'
  <2>1. (FailsInv /\ RefsInv)'
    BY <1>5, <1>8, <1>9, <1>10, AtRest, PTL
  <2> QED
    BY <2>1
<1>12. CoreOK'
  <2>1. HeapOK(heap)'
    BY <1>1, <1>8 DEF heap, HeapOK, LinksOK
  <2> QED
    BY <1>5, <1>9, <1>11, <2>1 DEF CoreOK
<1>13. LoadingOK'
    BY <1>3 DEF LoadingOK, LoadLeavesNothing
<1>14. SaveOK'
    BY <1>3, SameSave DEF Running
<1>15. SaveControl'
    BY <1>1, <1>3 DEF SaveControl, NoSave, Pc
<1> QED
    BY <1>3, <1>12, <1>13, <1>14, <1>15

\* load() starts, or fails, or returns an empty automaton.
LEMMA LoadBegins ==
    ASSUME CoreOK, ControlOK, SaveOK, LoadingOK, Unpickled, UNCHANGED pickleOnly,
           module_automaton_load
    PROVE  CoreOK' /\ SaveControl' /\ SaveOK' /\ LoadingOK' /\ pc' # "crash"
<1>1. SaveControl /\ dump = NoDump
    BY ControlIs DEF Unpickled
<1>2. /\ pc = "idle" /\ save.at = "done" /\ ~save.called /\ loading = NoLoading
      /\ loading.result # "automaton" /\ loading.result # "running"
    BY DEF module_automaton_load, NoLoading
<1>3. /\ NewLoading.lookup = <<>> /\ NewLoading.live = 0 /\ NewLoading.result = "running"
      /\ NewLoading.refs = [o \in Objects |-> 0] /\ NewLoading.pos = 2
    BY DEF NewLoading
<1>4. /\ NewLoading.lookup \in Seq({}) /\ NewLoading.live = Len(NewLoading.lookup)
      /\ NewLoading.refs = ValuesTaken(NewLoading.lookup)
  <2>1. NewLoading.lookup \in Seq({}) /\ Len(<<>>) = 0
    BY <1>3, EmptySeq
  <2>2. ValuesTaken(NewLoading.lookup) = ValuesTaken(<<>>)
    BY <1>3
  <2> QED
    BY <1>3, <2>1, <2>2, NoneTaken
<1>5. ASSUME NEW exc \in {"IOError", "ValueError", "MemoryError"},
             loadbuffer_close(NewLoading, exc)
      PROVE  CoreOK' /\ SaveControl' /\ SaveOK' /\ LoadingOK' /\ pc' # "crash"
  <2>1. exc \notin {"none", "running", "automaton"}
    OBVIOUS
  <2> QED
    BY <1>2, <1>4, <1>5, <2>1, LoadCloses
<1>6. PICK w : w = output.tokens
    OBVIOUS
<1>7. WrittenOK(w) /\ \E S : w \in Seq(S)
    BY <1>2, <1>6, FileRead
<1>8. ASSUME Complete(w)
      PROVE  /\ SavedHeader = Header /\ 2 \in 2..Len(w) /\ w[2].type \in {"address", "footer"}
  <2>1. Len(w) \in Nat /\ Len(w) > 1 /\ w[1] = Header /\ w[2].type \in {"address", "footer"}
    BY <1>7, <1>8, CompleteIs
  <2> QED
    BY <1>6, <2>1 DEF SavedHeader
<1>9. CASE Complete(w) /\ SavedHeader.kind = "EMPTY" /\ Install(EmptyHeap, NewLoading)
  <2>1. SavedHeader = Header /\ kind = "EMPTY"
    BY <1>8, <1>9 DEF Header
  <2>2. PICK h : h = EmptyHeap
    OBVIOUS
  <2>3. Heap(h) /\ Tree(h) /\ DOMAIN h = {} /\ Keys(h) = {}
    BY <2>2, EmptyTree
  <2>4. IsFiniteSet(DOMAIN h)
    BY <2>3, FS_EmptySet
  <2>5. PointersLive(h) /\ Keys(h) \subseteq Keys(nodes) /\ Root \notin DOMAIN h
    BY <2>3 DEF PointersLive
  <2>6. ReleasedEntries(NewLoading.refs, NewLoading.lookup) = [o \in Objects |-> 0]
    BY <1>4, ClosesAll
  <2>7. \A o \in Objects : Cardinality(Holders(h, o)) = 0
    <3>1. \A o \in Objects : Holders(h, o) = {}
      BY <2>3 DEF Holders
    <3> QED
      BY <3>1, FS_EmptySet
  <2>8. /\ ReleasedEntries(NewLoading.refs, NewLoading.lookup) \in [Objects -> Int]
        /\ \A o \in Objects : ReleasedEntries(NewLoading.refs, NewLoading.lookup)[o]
                              = Cardinality(Holders(h, o))
    BY <2>6, <2>7
  <2>9. Install(h, NewLoading) /\ \A p \in Keys(h) : h[p].output \in Objects
    BY <1>9, <2>2, <2>3
  <2> QED
    BY <1>2, <2>1, <2>3, <2>4, <2>5, <2>8, <2>9, Installs
<1>10. CASE /\ Complete(w) /\ SavedHeader.kind # "EMPTY"
            /\ loading' = NewLoading /\ pc' = "load" /\ UNCHANGED <<unsaved, ret, save, output>>
  <2>1. SavedHeader = Header /\ kind # "EMPTY"
    BY <1>8, <1>10 DEF Header
  <2>2. UNCHANGED <<nodes, kind, store, count, longest_word, save, output>>
    BY <1>10 DEF unsaved, object
  <2>3. SaveOK'
    BY <1>2, <2>2, SameSave DEF Running
  <2>4. CoreOK'
    BY <1>2, <1>10, CoreAround
  <2>5. SaveControl'
    BY <1>1, <1>2, <1>3, <1>10 DEF SaveControl, NoSave
  <2>6. /\ DOMAIN loading' = DOMAIN NewLoading /\ loading'.lookup = <<>> /\ loading'.live = 0
        /\ loading'.pos = 2 /\ loading'.result = "running"
        /\ loading'.refs = [o \in Objects |-> 0]
    BY <1>3, <1>10
  <2>7. /\ (\E S : loading.lookup \in Seq(S))' /\ loading'.live = Len(loading'.lookup)
    BY <1>3, <1>4, <1>10
  <2>8. loading'.refs = ValuesTaken(loading.lookup)'
    <3>1. ValuesTaken(loading.lookup)' = ValuesTaken(<<>>)
      BY <2>6 DEF ValuesTaken
    <3> QED
      BY <2>6, <3>1, NoneTaken
  <2>9. Known' = {} /\ AddressesTo(output.tokens, loading.pos - 1)' = {}
    <3>1. Known' = {}
      BY <2>6 DEF Known
    <3>2. AddressesTo(output.tokens, loading.pos - 1)' = AddressesTo(w, 1)
      <4>1. loading'.pos - 1 = 1
        BY <2>6
      <4> QED
        BY <1>6, <2>2, <4>1 DEF AddressesTo
    <3>3. w[1].type # "address"
      BY <1>7, <1>10, CompleteIs
    <3>4. AddressesTo(w, 1) = {}
      <4>1. \A k \in 1..1 : k = 1
        OBVIOUS
      <4> QED
        BY <3>3, <4>1 DEF AddressesTo
    <3> QED
      BY <3>1, <3>2, <3>4
  <2>10. Complete(output.tokens)' /\ ~save'.called /\ kind' # "EMPTY"
    BY <1>2, <1>6, <1>10, <2>1, <2>2 DEF Complete
  <2>11. loading'.pos \in 2..Len(output'.tokens)
         /\ output'.tokens[loading'.pos].type \in {"address", "footer"}
    BY <1>6, <1>8, <1>10, <2>2, <2>6
  <2>12. LoadLeavesNothing'
    BY <2>6 DEF LoadLeavesNothing
  <2>13. (DOMAIN NewLoading)' = DOMAIN NewLoading /\ DOMAIN loading'.lookup = {}
    BY <2>6 DEF NewLoading
  <2>14. LoadingOK'
    BY <2>6, <2>7, <2>8, <2>9, <2>10, <2>11, <2>12, <2>13 DEF LoadingOK
  <2> QED
    BY <1>10, <2>3, <2>4, <2>5, <2>14
<1> QED
    BY <1>5, <1>6, <1>9, <1>10 DEF module_automaton_load

\* At the footer, every node of the automaton has been met.
LEMMA KnownIs ==
    ASSUME SaveOK, LoadingOK, save.at = "done", loading.result = "running",
           output.tokens[loading.pos].type = "footer"
    PROVE  /\ SavedHeader = Header /\ kind # "EMPTY" /\ Known = DOMAIN nodes
           /\ loading.pos = Len(output.tokens) /\ Len(output.tokens) \in Nat
           /\ DOMAIN output.tokens = 1..Len(output.tokens)
           /\ output.tokens[1] = Header
<1>1. PICK w : w = output.tokens
    OBVIOUS
<1>2. WrittenOK(w) /\ (\E T : w \in Seq(T)) /\ Complete(w) /\ kind # "EMPTY"
    BY <1>1, FileRead DEF LoadingOK
<1>3. /\ Len(w) \in Nat /\ Len(w) > 1 /\ DOMAIN w = 1..Len(w)
      /\ w[1] = Header /\ w[Len(w)].type = "footer"
      /\ \A k \in 1..Len(w) : w[k].type = "footer" => k = Len(w)
      /\ Addresses(w) = DOMAIN nodes
    BY <1>2, CompleteIs
<1>4. SavedHeader = Header
    BY <1>1, <1>3 DEF SavedHeader
<1>5. loading.pos = Len(w) /\ Known = AddressesTo(w, loading.pos - 1)
    BY <1>1, <1>3 DEF LoadingOK
<1>6. Known = DOMAIN nodes
  <2>1. PICK N \in Nat : N = Len(w) /\ N > 1
    BY <1>3, Zenon
  <2>2. \A k : k \in 1..(N - 1) \/ k = N <=> k \in 1..N
    BY <2>1
  <2>3. AddressesTo(w, N - 1) = Addresses(w)
    BY <1>3, <2>1, <2>2, Zenon DEF AddressesTo, Addresses
  <2> QED
    BY <1>3, <1>5, <2>1, <2>3
<1> QED
    BY <1>1, <1>2, <1>3, <1>4, <1>5, <1>6

\* Every entry is the node it was made from, and there is one for every node.
LEMMA HeapReloaded ==
    ASSUME CoreOK, SaveOK, LoadingOK, dump = NoDump, save.at = "done",
           loading.result = "running", output.tokens[loading.pos].type = "footer",
           NEW S, NEW lookup, lookup = loading.lookup, lookup \in Seq(S),
           ~(\E j \in DOMAIN lookup : Unknown(lookup[j])),
           NEW h, h = [p \in Known |-> LoadedNode(
                        CHOOSE entry \in ToSet(loading.lookup) : entry.original = p)]
    PROVE  /\ SavedHeader = Header /\ kind # "EMPTY"
           /\ DOMAIN h = DOMAIN nodes /\ \A p \in DOMAIN nodes : Reloaded(h[p], p)
           /\ \A j \in DOMAIN lookup : EntryOK(lookup[j])
           /\ \A j, k \in DOMAIN lookup : lookup[j].original = lookup[k].original => j = k
           /\ \A p \in DOMAIN nodes : \E j \in DOMAIN lookup : lookup[j].original = p
<1>1. SavedHeader = Header /\ kind # "EMPTY" /\ Known = DOMAIN nodes
    BY KnownIs
<1>2. /\ \A j \in DOMAIN lookup : EntryOK(lookup[j])
      /\ \A j, k \in DOMAIN lookup : lookup[j].original = lookup[k].original => j = k
    BY DEF LoadingOK
<1>3. \A p \in DOMAIN nodes : \E j \in DOMAIN lookup : lookup[j].original = p
    BY <1>1 DEF Known
<1>4. DOMAIN h = DOMAIN nodes /\ \A p \in DOMAIN nodes : Reloaded(h[p], p)
  <2>1. DOMAIN h = DOMAIN nodes
    BY <1>1
  <2>2. ASSUME NEW p \in DOMAIN nodes PROVE Reloaded(h[p], p)
    <3>1. PICK e : e = CHOOSE entry \in ToSet(loading.lookup) : entry.original = p
      OBVIOUS
    <3>2. \E entry \in ToSet(loading.lookup) : entry.original = p
      BY <1>3 DEF ToSet
    <3>3. e \in ToSet(loading.lookup) /\ p = e.original
      BY <3>1, <3>2
    <3>4. PICK j \in DOMAIN lookup : e = lookup[j]
      BY <3>3 DEF ToSet
    <3>5. EntryOK(e) /\ ~Unknown(e)
      BY <1>2, <3>4
    <3>6. h[p] = LoadedNode(e)
      BY <1>1, <3>1
    <3>7. Reloaded(LoadedNode(e), p)
      BY <1>1, <3>3, <3>5, NodeReloaded
    <3> QED
      BY <3>6, <3>7
  <2> QED
    BY <2>1, <2>2
<1> QED
    BY <1>1, <1>2, <1>3, <1>4

\* The addresses are looked up and the automaton is there, or the load fails.
LEMMA PointersFixed ==
    ASSUME CoreOK, ControlOK, SaveOK, LoadingOK, Unpickled, UNCHANGED pickleOnly,
           automaton_load_fixup_pointers
    PROVE  CoreOK' /\ SaveControl' /\ SaveOK' /\ LoadingOK' /\ pc' # "crash"
<1>1. SaveControl /\ dump = NoDump
    BY ControlIs DEF Unpickled
<1>2. /\ pc = "load" /\ loading.result = "running" /\ save.at = "done"
      /\ output.tokens[loading.pos].type = "footer"
    BY <1>1 DEF automaton_load_fixup_pointers, SaveControl, NoLoading
<1>3. PICK S : loading.lookup \in Seq(S)
    BY <1>2 DEF LoadingOK
<1>4. PICK lookup : lookup = loading.lookup /\ lookup \in Seq(S)
    BY <1>3
<1>5. /\ DOMAIN loading = DOMAIN NewLoading /\ loading.live = Len(lookup)
      /\ loading.refs = ValuesTaken(lookup)
    BY <1>2, <1>4 DEF LoadingOK
<1>6. CASE loadbuffer_close(loading, "ValueError")
  <2>1. /\ loading.lookup \in Seq(S) /\ loading.live = Len(loading.lookup)
        /\ loading.refs = ValuesTaken(loading.lookup)
    BY <1>4, <1>5
  <2> QED
    BY <1>2, <1>6, <2>1, LoadCloses
<1>7. PICK l : l = loadbuffer_invalidate(loading)
    OBVIOUS
<1>8. PICK h : h = [p \in Known |-> LoadedNode(
                        CHOOSE entry \in ToSet(loading.lookup) : entry.original = p)]
    OBVIOUS
<1>9. CASE ~(\E j \in DOMAIN lookup : Unknown(lookup[j])) /\ Install(h, l)
  <2>1. ~(\E j \in DOMAIN lookup : Unknown(lookup[j])) /\ Install(h, l)
    BY <1>9
  <2>2. /\ SavedHeader = Header /\ kind # "EMPTY"
        /\ DOMAIN h = DOMAIN nodes /\ \A p \in DOMAIN nodes : Reloaded(h[p], p)
        /\ \A j \in DOMAIN lookup : EntryOK(lookup[j])
        /\ \A j, k \in DOMAIN lookup : lookup[j].original = lookup[k].original => j = k
        /\ \A p \in DOMAIN nodes : \E j \in DOMAIN lookup : lookup[j].original = p
    BY <1>1, <1>2, <1>4, <1>8, <2>1, HeapReloaded
  <2>3. HeapOK(nodes)
    BY <1>1 DEF CoreOK, heap
  <2>4. SameLinks(nodes, h)
    <3>1. h = [p \in DOMAIN h |-> h[p]]
      BY <1>8
    <3>2. \A p \in DOMAIN nodes : h[p] \in TrieNode /\ h[p].next = nodes[p].next /\ h[p].eow = nodes[p].eow
      BY <2>2 DEF Reloaded
    <3> QED
      BY <2>2, <3>1, <3>2 DEF SameLinks
  <2>5. Heap(h) /\ Tree(h) /\ Keys(h) = Keys(nodes)
    BY <2>3, <2>4, FailTree DEF HeapOK
  <2>6. IsFiniteSet(DOMAIN h) /\ Root \in DOMAIN h
    BY <2>2, <2>3 DEF HeapOK
  <2>7. h[Root].fail = NULL
    BY <2>2, <2>3, <2>6 DEF HeapOK, Reloaded
  <2>8. PointersLive(h)
    <3> SUFFICES ASSUME NEW p \in DOMAIN h PROVE h[p].fail \in DOMAIN h \cup {NULL, FREED}
      BY DEF PointersLive
    <3>1. nodes[p].fail \in DOMAIN nodes \cup {NULL, FREED}
      BY <2>2, <2>3 DEF HeapOK, LinksOK, PointersLive
    <3> QED
      BY <2>2, <3>1 DEF Reloaded
  <2>9. kind = "AHOCORASICK" => NoneFreed(h)
    BY <2>2, <2>3 DEF HeapOK, LinksOK, NoneFreed, Reloaded
  <2>10. l.refs = ValuesTaken(lookup) /\ l.lookup = <<>>
    <3>1. DOMAIN loading = {"result", "pos", "lookup", "live", "refs"}
      BY <1>5 DEF NewLoading
    <3> QED
      BY <1>5, <1>7, <3>1 DEF loadbuffer_invalidate
  <2>11. ReleasedEntries(l.refs, l.lookup) = ValuesTaken(lookup)
         /\ ValuesTaken(lookup) \in [Objects -> Int]
    <3>1. PICK r : r = ValuesTaken(lookup)
      OBVIOUS
    <3>2. \A o \in Objects : r[o] \in Nat
      BY <1>4, <3>1, ValuesTakenIs
    <3>3. r = [o \in Objects |-> r[o]]
      BY <3>1 DEF ValuesTaken
    <3>4. r \in [Objects -> Int]
      BY <3>2, <3>3
    <3>5. ReleasedEntries(r, <<>>) = r
      BY <3>4, NoneTaken
    <3> QED
      BY <2>10, <3>1, <3>4, <3>5
  <2>12. ASSUME store = "ANY"
         PROVE  /\ \A p \in Keys(h) : h[p].output \in Objects
                /\ \A o \in Objects : ReleasedEntries(l.refs, l.lookup)[o]
                                      = Cardinality(Holders(h, o))
    <3>1. \A p \in Keys(h) : h[p].output = nodes[p].output
      BY <2>2, <2>12 DEF Reloaded, Keys
    <3>2. \A p \in Keys(h) : h[p].output \in Objects
      BY <2>3, <2>5, <2>12, <3>1 DEF HeapOK
    <3>3. \A o : Holders(h, o) = Holders(nodes, o)
      BY <2>5, <3>1 DEF Holders
    <3>4. \A o \in Objects : ValuesTaken(lookup)[o] = Cardinality(Holders(nodes, o))
      BY <1>1, <1>4, <2>2, <2>12, HoldersTaken
    <3> QED
      BY <2>11, <3>2, <3>3, <3>4
  <2> QED
    BY <1>2, <1>9, <2>2, <2>5, <2>6, <2>7, <2>8, <2>9, <2>11, <2>12, Installs
<1> QED
    BY <1>4, <1>6, <1>7, <1>8, <1>9 DEF automaton_load_fixup_pointers

-----------------------------------------------------------------------------
(* What is in the file. *)

\* A node in the file is followed by its links and its value.
LEMMA NodeFrom ==
    ASSUME Heap(nodes), NEW w, NEW S, w \in Seq(S), w = Written, WrittenOK(w), ~output.damaged,
           NEW k \in DOMAIN w, w[k].type = "node"
    PROVE  NodeOK(k)
<1>1. PICK K \in Nat, N \in Nat : K = k /\ N = Len(w) /\ K \in 1..N
  <2>1. PICK n \in Nat : n = Len(w) /\ DOMAIN w = 1..n
    BY LenProperties
  <2>2. k \in 1..n /\ k \in Nat
    BY <2>1
  <2> QED
    BY <2>1, <2>2
<1>2. K > 1 /\ w[K - 1].type = "address"
  <2>1. k > 1 /\ w[k - 1].type = "address"
    BY DEF WrittenOK
  <2> QED
    BY <1>1, <2>1
<1>3. PICK m \in Nat : m + 1 = K /\ m \in 1..N /\ w[m].type = "address"
  <2>1. K - 1 \in Nat /\ K - 1 + 1 = K /\ K - 1 \in 1..N
    BY <1>1, <1>2
  <2> QED
    BY <1>2, <2>1
<1>4. m \in DOMAIN w
  <2>1. DOMAIN w = 1..N
    BY <1>1, LenProperties
  <2> QED
    BY <1>3, <2>1
<1>5. BlockOK(w, m)
  <2>1. \A j \in DOMAIN w : w[j].type = "address" => BlockOK(w, j)
    BY DEF WrittenOK
  <2> QED
    BY <1>3, <1>4, <2>1
<1>6. PICK p : p = w[m].node
    OBVIOUS
<1>7. PICK t : t = w[K]
    OBVIOUS
<1>8. PICK L \in {0, 1}, V \in {0, 1} : L = Linked(p) /\ V = Valued(p)
    BY LinkedValued
<1>9. /\ p \in DOMAIN nodes /\ NodeToken(t, p)
      /\ L = 1 /\ K + 1 <= N => PairsToken(w[K + 1], p)
      /\ V = 1 /\ K + L + 1 <= N => w[K + L + 1] = Bytes(nodes[p].output)
      /\ V = 0 /\ K + L + 1 <= N => w[K + L + 1].type \in {"address", "footer"}
      /\ p # Root => \E j \in 1..(K - 2) : w[j].type = "address" /\ w[j].node = Front(p)
  <2>1. /\ m + 1 = K /\ m + 2 = K + 1 /\ m + 1 + L + V = K + L + V /\ m - 1 = K - 2
        /\ m + 1 <= N
    BY <1>1, <1>3
  <2>2. /\ p \in DOMAIN nodes
        /\ m + 1 <= N => NodeToken(w[m + 1], p)
        /\ L = 1 /\ m + 2 <= N => PairsToken(w[m + 2], p)
        /\ V = 1 /\ m + 1 + L + V <= N => w[m + 1 + L + V] = Bytes(nodes[p].output)
        /\ m + 1 + L + V < N => w[m + 1 + L + V + 1].type \in {"address", "footer"}
        /\ p # Root => \E j \in 1..(m - 1) : w[j].type = "address" /\ w[j].node = Front(p)
    BY <1>1, <1>5, <1>6, <1>8 DEF BlockOK
  <2>3. /\ p \in DOMAIN nodes /\ NodeToken(w[K], p)
        /\ L = 1 /\ K + 1 <= N => PairsToken(w[K + 1], p)
        /\ p # Root => \E j \in 1..(K - 2) : w[j].type = "address" /\ w[j].node = Front(p)
    BY <2>1, <2>2
  <2>4. ASSUME V = 1, K + L + 1 <= N PROVE w[K + L + 1] = Bytes(nodes[p].output)
    <3>1. m + 1 + L + V = K + L + 1
      BY <2>1, <2>4
    <3> QED
      BY <2>2, <2>4, <3>1
  <2>5. ASSUME V = 0, K + L + 1 <= N PROVE w[K + L + 1].type \in {"address", "footer"}
    <3>1. m + 1 + L + V + 1 = K + L + 1 /\ m + 1 + L + V < N
      BY <2>1, <2>5
    <3> QED
      BY <2>2, <2>5, <3>1
  <2> QED
    BY <1>7, <2>3, <2>4, <2>5
<1>10. PICK next \in Seq(Letters) : next = nodes[p].next
    BY <1>9 DEF Heap, TrieNode
<1>11. /\ t.n = Len(next) /\ t.eow = nodes[p].eow
       /\ t.output = IF store # "ANY" THEN nodes[p].output
                     ELSE IF nodes[p].eow THEN SerializedSize[nodes[p].output] ELSE 0
    BY <1>9, <1>10 DEF NodeToken, SavedNode
<1>12. (t.n > 0 <=> L = 1) /\ (IF t.n > 0 THEN 1 ELSE 0) = L
  <2>1. Len(next) \in Nat /\ (Len(next) = 0 <=> next = <<>>)
    BY EmptySeq, LenProperties
  <2>2. L = 1 <=> next # <<>>
    BY <1>8, <1>10 DEF Linked, Bool
  <2> QED
    BY <1>8, <1>11, <2>1, <2>2
<1>13. (V = 1) <=> (t.eow /\ store = "ANY")
    BY <1>8, <1>11 DEF Valued, Bool
<1>14. ASSUME L = 1, K < N
       PROVE  /\ w[K + 1].type = "pairs" /\ Len(w[K + 1].next) = t.n
              /\ \A j \in 1..t.n : w[K + 1].next[j].child = Append(p, w[K + 1].next[j].letter)
  <2>1. PICK u : u = w[K + 1].next
    OBVIOUS
  <2>2. w[K + 1].type = "pairs" /\ LinksToken(u, p)
    BY <1>1, <1>9, <1>14, <2>1 DEF PairsToken
  <2>3. u = [j \in DOMAIN next |-> u[j]] /\ DOMAIN next = 1..Len(next) /\ Len(next) \in Nat
    BY <1>10, <2>2, LenProperties DEF LinksToken
  <2>4. Len(u) = Len(next)
    <3>1. PICK n \in Nat : n = Len(next)
      BY <2>3
    <3>2. u = [j \in 1..n |-> u[j]]
      BY <2>3, <3>1
    <3>3. u \in Seq({u[j] : j \in 1..n})
      BY <3>2
    <3> QED
      BY <3>1, <3>2, <3>3, LenProperties
  <2>5. ASSUME NEW j \in 1..t.n PROVE u[j].child = Append(p, u[j].letter)
    <3>1. j \in DOMAIN nodes[p].next
      BY <1>10, <1>11, <2>3
    <3>2. PICK l, c : l = nodes[p].next[j] /\ c = u[j].child
      OBVIOUS
    <3>3. u[j] = [letter |-> l, child |-> c] /\ c = Append(p, l)
      BY <2>2, <3>1, <3>2 DEF LinksToken
    <3> QED
      BY <3>2, <3>3
  <2> QED
    BY <1>11, <2>1, <2>2, <2>4, <2>5
<1>15. ASSUME K + L < N
       PROVE  /\ w[K + L + 1].type = "bytes" <=> store = "ANY" /\ t.eow
              /\ w[K + L + 1].type = "bytes" => w[K + L + 1].size = t.output
  <2>1. CASE V = 1
    <3>1. w[K + L + 1] = Bytes(nodes[p].output)
      BY <1>1, <1>8, <1>9, <1>15, <2>1
    <3>2. w[K + L + 1].type = "bytes" /\ w[K + L + 1].size = SerializedSize[nodes[p].output]
      BY <3>1 DEF Bytes
    <3> QED
      BY <1>11, <1>13, <2>1, <3>2
  <2>2. CASE V = 0
    BY <1>1, <1>8, <1>9, <1>13, <1>15, <2>2
  <2> QED
    BY <1>8, <2>1, <2>2
<1>16. PICK q : q = w[K - 1]
    OBVIOUS
<1>17. q.type = "address" /\ q.node = p
    BY <1>1, <1>2, <1>3, <1>6, <1>16
<1> QED
    BY <1>1, <1>7, <1>9, <1>12, <1>14, <1>15, <1>16, <1>17 DEF NodeOK

LEMMA FileFrom ==
    ASSUME CoreOK, ControlOK, SaveOK, loading.result # "automaton"
    PROVE  OrderOK
<1> SUFFICES ASSUME save # NoSave, ~save.called, ~output.damaged
             PROVE  \A k \in DOMAIN Written : Written[k].type = "node" => NodeOK(k)
    BY DEF OrderOK
<1>1. dump = NoDump
    BY DEF ControlOK
<1>2. Heap(nodes)
    BY <1>1, CoreIs
<1>3. WrittenOK(Written)
    BY DEF SaveOK
<1>4. \E S : Written \in Seq(S)
  <2>1. CASE Running
    <3>1. PICK S : IsBuffer(output, S)
      BY <2>1 DEF SaveOK
    <3>2. output.tokens \in Seq(S) /\ output.held \in Seq(S)
      BY <3>1 DEF IsBuffer
    <3> QED
      BY <3>2 DEF Written
  <2>2. CASE ~Running
    <3>1. PICK S : output.tokens \in Seq(S)
      BY <2>2 DEF SaveOK
    <3>2. <<>> \in Seq(S)
      OBVIOUS
    <3>3. Written \in Seq(S)
      BY <2>2, <3>1, <3>2 DEF Written
    <3> QED
      BY <3>3
  <2> QED
    BY <2>1, <2>2
<1>5. PICK w : w = Written
    OBVIOUS
<1>6. PICK S : w \in Seq(S)
    BY <1>4, <1>5
<1>7. WrittenOK(w)
    BY <1>3, <1>5
<1> QED
    BY <1>2, <1>5, <1>6, <1>7, NodeFrom

LEMMA FilePreserved ==
    ASSUME OrderOK, UNCHANGED <<save, output, store>>
    PROVE  OrderOK'
<1>1. Written' = Written
    BY DEF Written, Running
<1>2. \A k : NodeOK(k)' <=> NodeOK(k)
    BY <1>1 DEF NodeOK
<1> QED
    BY <1>1, <1>2 DEF OrderOK

-----------------------------------------------------------------------------
(* What is loaded. *)

\* The automaton is, node for node, what it was before.
AsSaved ==
    /\ UNCHANGED <<kind, store, count, longest_word>>
    /\ kind # "EMPTY" => DOMAIN nodes' = DOMAIN nodes
    /\ kind # "EMPTY" => \A p \in DOMAIN nodes :
        /\ nodes'[p].next = nodes[p].next /\ nodes'[p].eow = nodes[p].eow
        /\ store # "ANY" \/ nodes[p].eow => nodes'[p].output = nodes[p].output
        /\ \/ nodes'[p].fail = nodes[p].fail
           \/ kind # "AHOCORASICK" /\ nodes[p].fail # NULL /\ nodes'[p].fail = FREED

\* The header says what the automaton is.
LEMMA HeaderInstalled ==
    ASSUME SavedHeader = Header, NEW h, NEW l, Install(h, l)
    PROVE  UNCHANGED <<kind, store, count, longest_word>> /\ nodes' = h
BY DEF Install, Header

LEMMA EmptyRestored ==
    ASSUME SaveOK, LoadingOK, module_automaton_load, loading'.result = "automaton"
    PROVE  AsSaved
<1>1. /\ save.at = "done" /\ ~save.called /\ loading = NoLoading
      /\ loading.result # "automaton"
    BY DEF module_automaton_load, NoLoading
<1>2. PICK w : w = output.tokens
    OBVIOUS
<1>3. WrittenOK(w) /\ \E S : w \in Seq(S)
    BY <1>1, <1>2, FileRead
<1>4. \A exc \in {"IOError", "ValueError", "MemoryError"} : ~loadbuffer_close(NewLoading, exc)
    BY DEF loadbuffer_close
<1>5. loading' # NewLoading
    BY DEF NewLoading
<1>6. Complete(w) /\ SavedHeader.kind = "EMPTY" /\ Install(EmptyHeap, NewLoading)
    BY <1>2, <1>4, <1>5 DEF module_automaton_load
<1>7. SavedHeader = Header
    BY <1>2, <1>3, <1>6, CompleteIs DEF SavedHeader
<1>8. UNCHANGED <<kind, store, count, longest_word>>
    BY <1>6, <1>7, HeaderInstalled
<1>9. kind = "EMPTY"
    BY <1>6, <1>7 DEF Header
<1> QED
    BY <1>8, <1>9 DEF AsSaved

LEMMA NodesRestored ==
    ASSUME CoreOK, ControlOK, SaveOK, LoadingOK, Unpickled, UNCHANGED pickleOnly,
           automaton_load_fixup_pointers, loading'.result = "automaton"
    PROVE  AsSaved
<1>1. SaveControl /\ dump = NoDump
    BY ControlIs DEF Unpickled
<1>2. /\ pc = "load" /\ loading.result = "running" /\ save.at = "done"
      /\ output.tokens[loading.pos].type = "footer"
    BY <1>1 DEF automaton_load_fixup_pointers, SaveControl, NoLoading
<1>3. PICK S : loading.lookup \in Seq(S)
    BY <1>2 DEF LoadingOK
<1>4. PICK lookup : lookup = loading.lookup /\ lookup \in Seq(S)
    BY <1>3
<1>5. ~loadbuffer_close(loading, "ValueError")
    BY DEF loadbuffer_close
<1>6. PICK l : l = loadbuffer_invalidate(loading)
    OBVIOUS
<1>7. PICK h : h = [p \in Known |-> LoadedNode(
                        CHOOSE entry \in ToSet(loading.lookup) : entry.original = p)]
    OBVIOUS
<1>8. ~(\E j \in DOMAIN lookup : Unknown(lookup[j])) /\ Install(h, l)
    BY <1>4, <1>5, <1>6, <1>7 DEF automaton_load_fixup_pointers
<1>9. SavedHeader = Header /\ DOMAIN h = DOMAIN nodes /\ \A p \in DOMAIN nodes : Reloaded(h[p], p)
    BY <1>1, <1>2, <1>4, <1>7, <1>8, HeapReloaded
<1>10. UNCHANGED <<kind, store, count, longest_word>> /\ nodes' = h
    BY <1>8, <1>9, HeaderInstalled
<1>11. ASSUME NEW p \in DOMAIN nodes
       PROVE  /\ nodes'[p].next = nodes[p].next /\ nodes'[p].eow = nodes[p].eow
              /\ store # "ANY" \/ nodes[p].eow => nodes'[p].output = nodes[p].output
              /\ \/ nodes'[p].fail = nodes[p].fail
                 \/ kind # "AHOCORASICK" /\ nodes[p].fail # NULL /\ nodes'[p].fail = FREED
  <2>1. Reloaded(h[p], p)
    BY <1>9
  <2> QED
    BY <1>10, <2>1 DEF Reloaded
<1> QED
    BY <1>9, <1>10, <1>11 DEF AsSaved

LEMMA StoreKept ==
    ASSUME Next
    PROVE  store' = store
BY Zenon DEF Next, automaton_add_word, automaton_add_word_no_memory, automaton_remove_word,
       automaton_pop, automaton_remove_word_aux, automaton_pop_crashes,
       automaton_remove_no_memory, automaton_remove_absent, automaton_add_empty_word,
       automaton_add_word_aborts, automaton_clear, automaton_get_stats,
       automaton_make_automaton, MakeStep, SetupFirstLevel, FirstLevelDone, PopNode,
       EnqueueChild, ChildrenDone, FollowFail, SetFail, BuildDone, object

LEMMA StoreWhilePickled ==
    ASSUME PickleStep
    PROVE  store' = store
BY Zenon DEF PickleStep, automaton___reduce__, pickle_dump_replace_fail_with_id, pickle_data__init,
       pickle_dump_save, pickle_dump_save_no_memory, pickle_dump_save_crashes, BuildTuple,
       pickle_dump_undo_replace, RevertDone, UndoDone, ExceptionDone, Damage, automaton_new,
       MakeNode, NodesMade, RestoreNode, Restored, untouched, others, vars, object

-----------------------------------------------------------------------------
(* Every step. *)

\* A step of the automaton, or of save() or load(), while nothing is pickled.
LEMMA SaveKeeps ==
    ASSUME CoreOK, ControlOK, SaveOK, LoadingOK, Unpickled, UNCHANGED pickleOnly, NextSave
    PROVE  /\ CoreOK' /\ SaveControl' /\ SaveOK' /\ LoadingOK'
           /\ pc' = "crash" => save'.called
<1>1. CASE SaveStep
    BY <1>1, SaveStepInvariant
<1>2. CASE LifeGoesOn \/ SerializerCalls \/ FileDamaged
    BY <1>2, LifeInvariant
<1>3. CASE module_automaton_load
    BY <1>3, LoadBegins
<1>4. CASE automaton_load_node
    BY <1>4, NodeLoaded
<1>5. CASE automaton_load_fixup_pointers
    BY <1>5, PointersFixed
<1> QED
    BY <1>1, <1>2, <1>3, <1>4, <1>5 DEF NextSave, LoadStep

\* An automaton that was loaded stays so; one that is loaded is what was saved.
LEMMA Becomes ==
    ASSUME CoreOK, ControlOK, SaveOK, LoadingOK, Unpickled, UNCHANGED pickleOnly, NextSave,
           loading'.result = "automaton"
    PROVE  /\ UNCHANGED <<save, output, store>>
           /\ loading.result # "automaton" => AsSaved
<1>1. SaveControl /\ dump = NoDump
    BY ControlIs DEF Unpickled
<1>2. ASSUME NEW exc, exc \in {"IOError", "ValueError", "MemoryError", "DeserializerError"}, NEW l
      PROVE  ~loadbuffer_close(l, exc)
  <2>1. exc # "automaton"
    BY <1>2
  <2> QED
    BY <2>1 DEF loadbuffer_close
<1>3. loading.result = "automaton" => loading # NoLoading /\ save.at = "done"
    BY <1>1 DEF SaveControl, NoLoading
<1>4. save = NoSave => loading = NoLoading
    BY <1>1 DEF SaveControl, NoSave
<1>5. NoSave.at = "none" /\ NoLoading.result = "none"
    BY DEF NoSave, NoLoading
<1>6. CASE LifeGoesOn
  <2>1. Next /\ UNCHANGED <<save, output, loading>>
    BY <1>6 DEF LifeGoesOn, saveVars
  <2> QED
    BY <2>1, StoreKept
<1>7. CASE SaveStep
  <2>1. loading' = loading
    BY <1>7 DEF SaveStep, automaton_save, automaton_save_fails, automaton_save_node,
                SerializerReturns, SerializerRaises, SaveCrashes, TraversalDone,
                ExceptionRaised, saveVars
  <2>2. save.at # "done" /\ loading.result # "automaton"
    BY <1>3, <1>7, <2>1, <1>4, <1>5
       DEF SaveStep, automaton_save, automaton_save_fails, automaton_save_node,
           SerializerReturns, SerializerRaises, SaveCrashes, TraversalDone,
           ExceptionRaised, saveVars
  <2> QED
    BY <2>1, <2>2
<1>8. CASE SerializerCalls
    BY <1>3, <1>8 DEF SerializerCalls
<1>9. CASE FileDamaged
    BY <1>5, <1>9, Zenon DEF FileDamaged
<1>10. CASE module_automaton_load
  <2>1. UNCHANGED <<save, output>>
    BY <1>10 DEF module_automaton_load, loadbuffer_close, Install
  <2>2. AsSaved
    BY <1>10, EmptyRestored
  <2> QED
    BY <2>1, <2>2 DEF AsSaved
<1>11. CASE automaton_load_node
  <2>1. loading.result = "running" /\ DOMAIN loading = DOMAIN NewLoading
    BY <1>1, <1>11 DEF automaton_load_node, SaveControl, LoadingOK
  <2>2. loading'.result = "running"
    <3>1. DOMAIN loading = {"result", "pos", "lookup", "live", "refs"}
      BY <2>1 DEF NewLoading
    <3> QED
      BY <1>2, <1>11, <2>1, <3>1 DEF automaton_load_node, Allocate
  <2> QED
    BY <2>2
<1>12. CASE automaton_load_fixup_pointers
  <2>1. UNCHANGED <<save, output>>
    BY <1>12 DEF automaton_load_fixup_pointers, loadbuffer_close, Install
  <2>2. AsSaved
    BY <1>12, NodesRestored
  <2> QED
    BY <2>1, <2>2 DEF AsSaved
<1> QED
    BY <1>6, <1>7, <1>8, <1>9, <1>10, <1>11, <1>12 DEF NextSave, LoadStep

LEMMA FileKept ==
    ASSUME OrderOK, CoreOK, ControlOK, SaveOK, LoadingOK, Unpickled, UNCHANGED pickleOnly, NextSave
    PROVE  OrderOK'
<1>1. CASE loading'.result = "automaton"
    BY <1>1, Becomes, FilePreserved
<1>2. CASE loading'.result # "automaton"
  <2>1. CoreOK' /\ SaveOK'
    BY SaveKeeps
  <2>2. ControlOK'
    BY SaveKeeps, ControlIs
  <2>3. (loading.result # "automaton")'
    BY <1>2
  <2> QED
    BY <2>1, <2>2, <2>3, FileFrom, PTL
<1> QED
    BY <1>1, <1>2

\* The room in the buffer, and the frames, in every step.
LEMMA FramesNext ==
    ASSUME FramesOK, CoreOK, ControlOK, SaveOK, Unpickled, NextSave
    PROVE  FramesOK'
<1>1. ASSUME ~Running' PROVE FramesOK'
    BY <1>1 DEF FramesOK
<1>2. NoSave.at = "none" /\ NoLoading.result = "none"
    BY DEF NoSave, NoLoading
<1>3. dump = NoDump /\ (loading # NoLoading => save.at = "done")
    BY DEF Unpickled, ControlOK
<1>4. /\ Heap(nodes) /\ Tree(nodes) /\ (kind # "EMPTY" => Root \in DOMAIN nodes)
      /\ store = "ANY" => \A p \in DOMAIN nodes : nodes[p].eow => nodes[p].output \in Objects
    BY <1>3, CoreIs
<1>5. ASSUME Running
      PROVE  DOMAIN save = DOMAIN NewSave /\ \E S : IsBuffer(output, S)
    BY <1>5, SaveRuns
<1>6. CASE LifeGoesOn
  <2>1. save' = save /\ ~Running
    BY <1>2, <1>3, <1>6 DEF LifeGoesOn, saveVars, Running
  <2> QED
    BY <1>1, <2>1 DEF Running
<1>7. CASE SaveStep
  <2>1. CASE automaton_save
    BY <1>4, <2>1, FramesBegin
  <2>2. CASE automaton_save_fails
    BY <1>1, <1>2, <2>2 DEF automaton_save_fails, saveVars, Running
  <2>3. CASE automaton_save_node
    <3>1. Running
      BY <2>3 DEF automaton_save_node, Running
    <3> QED
      BY <1>4, <1>5, <2>3, <3>1, FramesEnter
  <2>4. CASE SerializerReturns
    <3>1. Running
      BY <2>4 DEF SerializerReturns, Running
    <3> QED
      BY <1>4, <1>5, <2>4, <3>1, FramesReturn
  <2>5. CASE SerializerRaises
    <3>1. Running
      BY <2>5 DEF SerializerRaises, Running
    <3> QED
      BY <1>5, <2>5, <3>1, FramesRaise
  <2>6. CASE SaveCrashes
    <3>1. save' = save /\ output' = output /\ UNCHANGED nodes
      BY <2>6 DEF SaveCrashes, saveVars, unsaved, object
    <3> QED
      BY <3>1, SameFrames
  <2>7. CASE TraversalDone \/ ExceptionRaised
    <3>1. Running
      BY <2>7 DEF TraversalDone, ExceptionRaised, Running
    <3> QED
      BY <1>5, <2>7, <3>1, FramesEnd
  <2> QED
    BY <1>7, <2>1, <2>2, <2>3, <2>4, <2>5, <2>6, <2>7 DEF SaveStep
<1>8. CASE SerializerCalls
  <2>1. Running
    BY <1>8 DEF SerializerCalls, Running
  <2>2. NULL \notin DOMAIN nodes
    BY <1>4, PointerAssumption DEF Heap
  <2> QED
    BY <1>5, <1>8, <2>1, <2>2, FramesCall
<1>9. CASE FileDamaged \/ LoadStep
  <2>1. save' = save
    BY Zenon, <1>9 DEF FileDamaged, LoadStep, module_automaton_load, automaton_load_node,
                automaton_load_fixup_pointers, loadbuffer_close, Install
  <2>2. save.at = "done"
    <3>1. CASE FileDamaged \/ module_automaton_load
      BY <3>1, Zenon DEF FileDamaged, module_automaton_load
    <3>2. CASE automaton_load_node \/ automaton_load_fixup_pointers
      <4>1. loading.result = "running"
        BY <3>2 DEF automaton_load_node, automaton_load_fixup_pointers, ControlOK
      <4> QED
        BY <1>2, <1>3, <4>1
    <3> QED
      BY <1>9, <3>1, <3>2 DEF LoadStep
  <2> QED
    BY <1>1, <2>1, <2>2 DEF Running
<1> QED
  BY <1>6, <1>7, <1>8, <1>9 DEF NextSave

-----------------------------------------------------------------------------
(* The invariant. *)

LEMMA PersistInit == InitPersistence => PersistInv
<1> SUFFICES ASSUME InitPersistence PROVE PersistInv
    OBVIOUS
<1>1. /\ Init /\ dump = NoDump /\ pickled = NotPickled /\ load = NoLoad
      /\ save = NoSave /\ output = NoFile /\ loading = NoLoading
    BY DEF InitPersistence, InitPickle, InitSave
<1>2. NoSave.at = "none" /\ NoLoading.result = "none" /\ NoLoad.result = "none"
    BY DEF NoSave, NoLoading, NoLoad
<1>3. FailsInv
    BY <1>1, FailsInit
<1>4. ScalarsOK
  <2>1. version \in 0..MaxVersion /\ stats.version \in -1..MaxVersion
    BY <1>1, ConstantAssumption DEF Init, NoStats
  <2>2. Root \in Seq(Letters) /\ queue \in Seq(Seq(Letters))
    BY <1>1 DEF Init, Root
  <2> QED
    BY <1>1, <2>1, <2>2 DEF Init, ScalarsOK, Pointer
<1>5. HeapOK(nodes)
  <2>1. PICK h : h = EmptyHeap
    OBVIOUS
  <2>2. Heap(h) /\ Tree(h) /\ DOMAIN h = {} /\ Keys(h) = {}
    BY <2>1, EmptyTree
  <2>3. IsFiniteSet(DOMAIN h) /\ Cardinality(Keys(h)) = 0
    BY <2>2, FS_EmptySet
  <2>4. nodes = h /\ kind = "EMPTY" /\ count = 0 /\ refs = [o \in Objects |-> 0]
    BY <1>1, <2>1 DEF Init
  <2>5. LinksOK(h)
    BY <2>2, <2>4 DEF LinksOK, PointersLive
  <2>6. \A o \in Objects : refs[o] = Cardinality(Holders(h, o))
    <3>1. \A o : Holders(h, o) = {}
      BY <2>2 DEF Holders
    <3> QED
      BY <2>4, <3>1, FS_EmptySet
  <2>7. Keys(h) = {} /\ Cardinality(Keys(h)) <= count /\ Root \notin DOMAIN h
    BY <2>2, <2>3, <2>4
  <2>8. HeapOK(h)
    BY <2>2, <2>3, <2>4, <2>5, <2>6, <2>7 DEF HeapOK
  <2> QED
    BY <2>4, <2>8
<1>6. CoreOK
    BY <1>1, <1>3, <1>4, <1>5 DEF CoreOK, heap, Resting, Init
<1>7. ControlOK
    BY <1>1, <1>2 DEF ControlOK, Init, Pc, DumpPc
<1>8. /\ DumpOK /\ ConstructorOK /\ SaveOK /\ LoadingOK /\ FramesOK
      /\ SafeUnlessMisused /\ OrderOK
    BY <1>1, <1>2 DEF DumpOK, ConstructorOK, NothingLeft, SaveOK, LoadingOK, LoadLeavesNothing,
                      FramesOK, Running, SafeUnlessMisused, OrderOK, Init
<1> QED
    BY <1>6, <1>7, <1>8 DEF PersistInv

LEMMA SaveNext ==
    ASSUME PersistInv, Unpickled, NextSave, UNCHANGED pickleOnly
    PROVE  PersistInv'
<1>1. CoreOK /\ ControlOK /\ SaveOK /\ LoadingOK /\ FramesOK /\ OrderOK
    BY DEF PersistInv
<1>2. /\ CoreOK' /\ SaveControl' /\ SaveOK' /\ LoadingOK'
      /\ pc' = "crash" => save'.called
    BY <1>1, SaveKeeps
<1>3. ControlOK' /\ load' = NoLoad /\ dump' = NoDump
    BY <1>1, <1>2, ControlIs DEF pickleOnly, Unpickled
<1>4. DumpOK' /\ ConstructorOK'
    BY <1>3 DEF DumpOK, ConstructorOK, NothingLeft, NoLoad
<1>5. SafeUnlessMisused'
    BY <1>2, <1>3 DEF SafeUnlessMisused
<1>6. OrderOK'
    BY <1>1, FileKept
<1>7. FramesOK'
    BY <1>1, FramesNext
<1> QED
    BY <1>2, <1>3, <1>4, <1>5, <1>6, <1>7 DEF PersistInv

\* A process that crashed does nothing any more.
LEMMA PickleRuns ==
    ASSUME PickleStep
    PROVE  pc # "crash"
BY Zenon DEF PickleStep, automaton___reduce__, pickle_dump_replace_fail_with_id, pickle_data__init,
       pickle_dump_save, pickle_dump_save_no_memory, pickle_dump_save_crashes, BuildTuple,
       pickle_dump_undo_replace, RevertDone, UndoDone, ExceptionDone, Damage, automaton_new,
       MakeNode, NodesMade, RestoreNode, Restored

\* Where pickling is while there is a file.
LEMMA QuietIs ==
    ASSUME PersistInv, Quiet
    PROVE  /\ save.at \in {"none", "done"} /\ loading.result # "running" /\ ~Running
           /\ save = NoSave => loading = NoLoading
<1>1. ControlOK /\ NoSave.at = "none" /\ NoLoading.result = "none"
    BY DEF PersistInv, NoSave, NoLoading
<1>2. save = NoSave => loading = NoLoading
    BY <1>1 DEF ControlOK
<1>3. loading.result = "automaton" => save.at = "done"
    BY <1>1 DEF ControlOK
<1> QED
    BY <1>1, <1>2, <1>3 DEF Quiet, Running

LEMMA PickleNext ==
    ASSUME PersistInv, Quiet, PickleStep, UNCHANGED saveVars
    PROVE  /\ PersistInv'
           /\ dump # NoDump /\ pc' = "idle" => nodes' = dump.before
<1>1. pc # "crash" /\ PickleInv
    BY PickleRuns DEF PersistInv, PickleInv
<1>2. /\ PickleInv'
      /\ pc' = "crash" => dump' # NoDump /\ SafeUnlessStale'
      /\ dump # NoDump /\ pc' = "idle" => nodes' = dump.before
    BY <1>1, PickleStepInvariant
<1>3. /\ save.at \in {"none", "done"} /\ loading.result # "running" /\ ~Running
      /\ save = NoSave => loading = NoLoading
    BY QuietIs
<1>4. UNCHANGED <<save, output, loading>> /\ SaveOK /\ LoadingOK /\ OrderOK
    BY DEF saveVars, PersistInv
<1>5. SaveOK'
  <2>1. CASE save = NoSave
    <3>1. (save = NoSave)' /\ (output = NoFile)'
      BY <1>4, <2>1 DEF SaveOK, NoSave, NoFile
    <3> QED
      BY <3>1 DEF SaveOK
  <2>2. CASE loading.result = "automaton"
    BY <1>3, <1>4, <2>2, SameSave
  <2> QED
    BY <2>1, <2>2 DEF Quiet
<1>6. LoadingOK'
    BY <1>3, <1>4, SameLoading
<1>7. OrderOK'
    BY <1>4, StoreWhilePickled, FilePreserved
<1>8. SafeUnlessMisused'
    BY <1>2 DEF SafeUnlessMisused
<1>9. CoreOK' /\ ControlOK' /\ DumpOK' /\ ConstructorOK'
    BY <1>2 DEF PickleInv
<1>10. FramesOK'
    BY <1>3, <1>4, SameFrames DEF PersistInv
<1> QED
    BY <1>2, <1>5, <1>6, <1>7, <1>8, <1>9, <1>10 DEF PersistInv

\* Nothing changes.
LEMMA Stutters ==
    ASSUME CoreOK, ControlOK, DumpOK, ConstructorOK, SaveOK, LoadingOK,
           UNCHANGED <<vars, object, locals, nodes, kind, store, count, longest_word, version,
                       stats, refs, pc, queue, node, i, state, dump, pickled, load, save, output,
                       loading>>
    PROVE  CoreOK' /\ ControlOK' /\ DumpOK' /\ ConstructorOK' /\ SaveOK' /\ LoadingOK'
<1>1. heap' = heap
    BY DEF heap
<1>2. CoreOK'
  <2>1. ScalarsOK' /\ (Resting' <=> Resting)
    BY DEF CoreOK, ScalarsOK, Resting
  <2>2. HeapOK(heap)'
    BY <1>1 DEF CoreOK, HeapOK, LinksOK
  <2>3. FailsInv => FailsInv'
    BY FailsNext
  <2> QED
    BY <2>1, <2>2, <2>3 DEF CoreOK
<1>3. ControlOK'
    BY DEF ControlOK
<1>4. DumpOK'
  <2>1. /\ trie_traverse' = trie_traverse /\ NodesNumber' = NodesNumber
        /\ \A a, b : (Between(a, b))' = Between(a, b)
    BY SameNodesOrder
  <2>2. NumberedOK' <=> NumberedOK
    BY <2>1 DEF NumberedOK
  <2>3. DOMAIN NewDump = DOMAIN NewDump'
    BY DEF NewDump
  <2> QED
    BY <2>2, <2>3 DEF DumpOK, Overwritten
<1>5. ConstructorOK'
    BY DEF ConstructorOK, NothingLeft, Taken
<1>6. Written' = Written /\ Running' = Running
    BY DEF Written, Running
<1>7. SaveOK'
  <2>1. \A w : (WrittenOK(w)' <=> WrittenOK(w)) /\ (Unfinished(w)' <=> Unfinished(w))
               /\ Addresses(w)' = Addresses(w)
    BY SameWritten
  <2>2. WrittenOK(Written)' <=> WrittenOK(Written)
    BY <1>6, <2>1
  <2>3. SavingOK' <=> SavingOK
    <3>1. /\ StackOK(save.stack)' <=> StackOK(save.stack)
          /\ Waiting(save.stack)' = Waiting(save.stack)
      BY SameStack
    <3>2. \A w : OpenOK(w)' <=> OpenOK(w)
      BY DEF OpenOK, Closed, End, Linked, Valued
    <3> QED
      BY <1>6, <2>1, <3>1, <3>2 DEF SavingOK, Bytes
  <2> QED
    BY <1>6, <2>2, <2>3 DEF SaveOK, IsBuffer
<1>8. LoadingOK'
  <2>1. CASE loading.result = "running"
    <3>1. \A e : EntryOK(e) => EntryOK(e)'
      BY SameEntry
    <3>2. Known' = Known /\ (LoadLeavesNothing' <=> LoadLeavesNothing)
      BY DEF Known, LoadLeavesNothing
    <3> QED
      BY <2>1, <3>1, <3>2 DEF LoadingOK, ValuesTaken, AddressesTo, Complete
  <2> QED
    BY <2>1, SameLoading
<1> QED
    BY <1>2, <1>3, <1>4, <1>5, <1>7, <1>8

LEMMA PersistNext ==
    ASSUME PersistInv, [NextPersistence]_<<pickleVars, saveVars>>
    PROVE  PersistInv'
<1>1. CASE Unpickled /\ NextSave /\ UNCHANGED pickleOnly
    BY <1>1, SaveNext
<1>2. CASE /\ save = NoSave \/ (loading.result = "automaton" /\ version = 0)
           /\ PickleStep /\ UNCHANGED saveVars
    BY <1>2, PickleNext DEF Quiet
<1>3. CASE UNCHANGED <<pickleVars, saveVars>>
  <2>1. UNCHANGED <<vars, object, locals, nodes, kind, store, count, longest_word, version, stats,
                    refs, pc, queue, node, i, state, dump, pickled, load, save, output, loading>>
    BY <1>3 DEF pickleVars, saveVars, vars, object, locals
  <2>2. CoreOK' /\ ControlOK' /\ DumpOK' /\ ConstructorOK' /\ SaveOK' /\ LoadingOK'
    BY <2>1, Stutters DEF PersistInv
  <2>3. SafeUnlessMisused' /\ OrderOK'
    BY <2>1, FilePreserved DEF PersistInv, SafeUnlessMisused, SafeUnlessStale
  <2>4. FramesOK'
    BY <2>1, SameFrames DEF PersistInv
  <2> QED
    BY <2>2, <2>3, <2>4 DEF PersistInv
<1> QED
    BY <1>1, <1>2, <1>3 DEF NextPersistence

THEOREM PersistInvariant == SpecPersistence => []PersistInv
BY PersistInit, PersistNext, PTL DEF SpecPersistence

LEMMA RefsFrom == PersistInv => RefsOK
<1> SUFFICES ASSUME PersistInv, store = "ANY", NEW o \in Objects
             PROVE  refs[o] = Cardinality({p \in Keys(nodes) : nodes[p].output = o})
    BY DEF RefsOK
<1>1. refs[o] = Cardinality(Holders(heap, o))
    BY DEF PersistInv, CoreOK, HeapOK
<1>2. Holders(nodes, o) = Holders(heap, o)
  <2>1. CASE dump = NoDump
    BY <2>1 DEF heap
  <2>2. CASE dump # NoDump
    <3>1. PICK h, ids : h = dump.before /\ nodes = Overwritten(h, ids)
      BY <2>2 DEF PersistInv, DumpOK
    <3>2. heap = h /\ Heap(h)
      BY <2>2, <3>1 DEF PersistInv, CoreOK, HeapOK, heap
    <3>3. DOMAIN nodes = DOMAIN h
      BY <3>1 DEF Overwritten
    <3>4. \A p \in DOMAIN h : nodes[p].eow = h[p].eow /\ nodes[p].output = h[p].output
      <4> SUFFICES ASSUME NEW p \in DOMAIN h
                   PROVE  nodes[p].eow = h[p].eow /\ nodes[p].output = h[p].output
        OBVIOUS
      <4>1. h[p] \in TrieNode
        BY <3>2 DEF Heap
      <4>2. nodes[p] = h[p] \/ nodes[p] = [h[p] EXCEPT !.fail = NODEID]
        BY <3>1 DEF Overwritten
      <4> QED
        BY <4>1, <4>2 DEF TrieNode
    <3> QED
      BY <3>2, <3>3, <3>4 DEF Holders, Keys
  <2> QED
    BY <2>1, <2>2
<1> QED
    BY <1>1, <1>2 DEF Holders

(***************************************************************************)
(* Every reference to a stored object is held by a word: also while        *)
(* __reduce__ or save() runs, after either has failed, and in an automaton *)
(* that load() made, whose values the deserializer returned                *)
(* (module_automaton_load.c:131).                                          *)
(***************************************************************************)
THEOREM PersistentRefs == SpecPersistence => []RefsOK
BY PersistInvariant, RefsFrom, PTL

(***************************************************************************)
(* However many nodes there are and wherever it runs out of memory,        *)
(* __reduce__ leaves every fail link as it found it                        *)
(* (Automaton_pickle.c:273, 279).                                          *)
(***************************************************************************)
THEOREM ReduceRestored == SpecPersistence => ReduceRestores
<1> DEFINE A == dump # NoDump /\ pc' = "idle" => nodes' = dump.before
<1>1. PersistInv /\ [NextPersistence]_<<pickleVars, saveVars>> => [A]_pickleVars
  <2> SUFFICES ASSUME PersistInv, [NextPersistence]_<<pickleVars, saveVars>>,
                      ~UNCHANGED pickleVars
               PROVE  A
    OBVIOUS
  <2>1. CASE Unpickled /\ NextSave /\ UNCHANGED pickleOnly
    BY <2>1 DEF Unpickled
  <2>2. CASE /\ save = NoSave \/ (loading.result = "automaton" /\ version = 0)
             /\ PickleStep /\ UNCHANGED saveVars
    BY <2>2, PickleNext DEF Quiet
  <2> QED
    BY <2>1, <2>2 DEF NextPersistence
<1>2. ReduceRestores <=> [][A]_pickleVars
    BY PTL DEF ReduceRestores
<1> HIDE DEF A
<1> QED
    BY <1>1, <1>2, PersistInvariant, PTL DEF SpecPersistence

(***************************************************************************)
(* A constructor that raises, for a damaged pickle or for want of memory,  *)
(* has freed every node and released every value, once                     *)
(* (Automaton.c:140, Automaton_pickle.c:469).                              *)
(***************************************************************************)
THEOREM NothingIsLeft == SpecPersistence => []NothingLeft
<1>1. PersistInv => NothingLeft
    BY DEF PersistInv, ConstructorOK
<1> QED
    BY <1>1, PersistInvariant, PTL

(***************************************************************************)
(* A load() that raises has freed every node and released every value,     *)
(* once (loadbuffer.c:127), for files and buffers of every size.           *)
(***************************************************************************)
THEOREM LoadLeaves == SpecPersistence => []LoadLeavesNothing
<1>1. PersistInv => LoadLeavesNothing
    BY DEF PersistInv, LoadingOK
<1> QED
    BY <1>1, PersistInvariant, PTL

(***************************************************************************)
(* Pickling, saving and loading end the process only where the property    *)
(* says: they never follow a freed link of an automaton that can search,   *)
(* nor of one that the serializer left as it was.                          *)
(***************************************************************************)
THEOREM SafeUnlessMisusedCorrect == SpecPersistence => []SafeUnlessMisused
<1>1. PersistInv => SafeUnlessMisused
    BY DEF PersistInv
<1> QED
    BY <1>1, PersistInvariant, PTL

(***************************************************************************)
(* Wherever the writes fall on the boundary of the buffer, nothing is      *)
(* written behind its end, also after the serializer has changed the       *)
(* automaton; and while it has not, every node in the file is followed by  *)
(* its links and its value (savebuffer.c:84, automaton_save.c:119).        *)
(***************************************************************************)
THEOREM FileCorrect == SpecPersistence => []FileOK
<1>1. PersistInv => FileOK
    BY SaveAssumption DEF PersistInv, FileOK, BufferOK, FramesOK
<1> QED
    BY <1>1, PersistInvariant, PTL

(***************************************************************************)
(* load() returns the automaton that was saved, but for the targets of the *)
(* fail links of a TRIE; a file in which an address was altered to one of  *)
(* no node gives none (module_automaton_load.c:233).                       *)
(***************************************************************************)
THEOREM LoadCorrect == SpecPersistence => LoadRestores
<1>1. PersistInv /\ [NextPersistence]_<<pickleVars, saveVars>> =>
        [loading.result # "automaton" /\ loading'.result = "automaton" => AsSaved]_saveVars
  <2> SUFFICES ASSUME PersistInv, [NextPersistence]_<<pickleVars, saveVars>>,
                      ~UNCHANGED saveVars,
                      loading.result # "automaton", loading'.result = "automaton"
               PROVE  AsSaved
    OBVIOUS
  <2>1. Unpickled /\ NextSave /\ UNCHANGED pickleOnly
    BY DEF NextPersistence
  <2> QED
    BY <2>1, Becomes DEF PersistInv
<1>2. LoadRestores <=>
        [][loading.result # "automaton" /\ loading'.result = "automaton" => AsSaved]_saveVars
    BY PTL DEF LoadRestores, AsSaved
<1> QED
    BY <1>1, <1>2, PersistInvariant, PTL DEF SpecPersistence

(***************************************************************************)
(* What the refinement of StoredDictionary needs besides PersistInv: how   *)
(* the keys are counted, that no value is 0, how a file can be lost, and   *)
(* that load() has met everything that is behind it.                       *)
(***************************************************************************)
MapOK ==
    /\ DOMAIN Contents \subseteq Words
    /\ \A w \in DOMAIN Contents : Contents[w] # 0
    /\ count = Cardinality(DOMAIN Contents)

\* The file is of this automaton and was written while it did not change.
Loadable == save.at = "done" /\ ~save.called /\ loading.result # "automaton"

Altered(w) ==
    \E k \in DOMAIN w :
        \/ w[k].type = "node" /\ w[k].fail = FREED /\ w[1].kind = "AHOCORASICK"
        \/ w[k].type = "pairs" /\ \E j \in DOMAIN w[k].next : w[k].next[j].child = FREED

ShapeOK ==
    Loadable =>
        LET w == output.tokens
        IN  /\ ~output.damaged => \A k \in DOMAIN w : TokenOK(w[k])
            /\ Complete(w) =>
                /\ ~output.full
                /\ kind = "EMPTY" => Len(w) = 2
                /\ output.damaged => Altered(w)

MetNode(t, lookup) ==
    /\ ~(t.eow /\ store = "ANY" /\ t.output = 0)
    /\ \E j \in DOMAIN lookup : lookup[j].fields = t
MetPairs(t, lookup) == \E j \in DOMAIN lookup : lookup[j].links = t.next

ReadOK ==
    loading.result = "running" =>
        \A k \in 1..(loading.pos - 1) :
            LET t == output.tokens[k]
            IN  /\ t.type = "node" => MetNode(t, loading.lookup)
                /\ t.type = "pairs" => MetPairs(t, loading.lookup)

MapInv == PersistInv /\ MapOK /\ WritingOK /\ ShapeOK /\ ReadOK

\* The map, from the automaton's own invariant and back.
LEMMA MapIs == ASSUME MapOK, CoreOK, dump = NoDump, pc # "crash" PROVE DictInv
<1>1. IInv
  <2>1. FailsInv
    BY CoreAutomaton
  <2> QED
    BY <2>1 DEF FailsInv
<1>2. DOMAIN Contents = Keys(nodes) /\ \A w \in Keys(nodes) : Contents[w] = nodes[w].output
  BY DEF Contents
<1> QED
  BY <1>1, <1>2 DEF MapOK, DictInv, CountInv, ValuesOK, CountOK, automaton_len

LEMMA MapFrom == DictInv => MapOK
<1>1. DOMAIN Contents = Keys(nodes) /\ \A w \in Keys(nodes) : Contents[w] = nodes[w].output
  BY DEF Contents
<1> QED
  BY <1>1 DEF MapOK, DictInv, CountInv, ValuesOK, CountOK, automaton_len

LEMMA SameMap == ASSUME MapOK, Contents' = Contents, count' = count PROVE MapOK'
BY DEF MapOK

\* What a file is that was not saved to the end, or cannot be loaded.
LEMMA LostIs ==
    ASSUME save.at # "done" \/ ~Complete(output.tokens) \/ Trouble \/ output.damaged
    PROVE  Saved(Lost) = Lost
BY DEF Saved

LEMMA SameSaved ==
    ASSUME UNCHANGED <<save, output, store>>
    PROVE  Saved(Lost)' = Saved(Lost) /\ Trouble' = Trouble
<1>1. Trouble' = Trouble
  BY DEF Trouble, EmptyValue
<1>2. SavedContents' = SavedContents
  BY DEF SavedContents
<1> QED
  BY <1>1, <1>2 DEF Saved, Complete

LEMMA TroubleIs == Trouble \in BOOLEAN /\ Trouble' \in BOOLEAN
BY DEF Trouble

\* The calls of Dictionary are among those of StoredDictionary.
LEMMA DictStored == Dict!Next => Stored!Next
<1>1. \A S : Dict!Restrict(Contents, S) = Stored!Restrict(Contents, S)
  BY DEF Dict!Restrict, Stored!Restrict
<1> QED
  BY <1>1 DEF Dict!Next, Stored!Next, Dict!Add, Stored!Add, Dict!Delete, Stored!Delete,
         Dict!RemoveWord, Stored!RemoveWord, Dict!RemoveAbsent, Stored!RemoveAbsent,
         Dict!Pop, Stored!Pop, Dict!PopAbsent, Stored!PopAbsent,
         Dict!AddEmpty, Stored!AddEmpty, Dict!Clear, Stored!Clear,
         Dict!MakeAutomaton, Stored!MakeAutomaton, Dict!GetStats, Stored!GetStats,
         Dict!OutOfMemory, Stored!OutOfMemory, Dict!Result, Stored!Result,
         Dict!Raise, Stored!Raise, Dict!Empty, Stored!Empty

-----------------------------------------------------------------------------
(* The steps of StoredDictionary. *)

Mapped == [Stored!NextStored]_(Stored!storedVars)

LEMMA MapsSame ==
    ASSUME Contents' = Contents, ret' = ret, Saved(Lost)' = Saved(Lost), Trouble' = Trouble
    PROVE  Mapped
BY DEF Mapped, Stored!storedVars, Stored!vars

LEMMA MapsMemory ==
    ASSUME [Dict!Next]_(Dict!vars), Saved(Lost)' = Saved(Lost), Trouble' = Trouble
    PROVE  Mapped
<1>1. CASE Dict!Next
  BY <1>1, DictStored, TroubleIs DEF Mapped, Stored!NextStored, Stored!InMemory
<1>2. CASE UNCHANGED Dict!vars
  BY <1>2, MapsSame DEF Dict!vars
<1> QED
  BY <1>1, <1>2

\* Whatever the call was, when there is no map in the file.
LEMMA MapsMemoryLost ==
    ASSUME [Dict!Next]_(Dict!vars), Saved(Lost) = Lost, Saved(Lost)' = Lost
    PROVE  Mapped
<1>1. CASE Dict!Next
  BY <1>1, DictStored, TroubleIs DEF Mapped, Stored!NextStored, Stored!InMemory
<1>2. CASE UNCHANGED Dict!vars
  BY <1>2, TroubleIs DEF Mapped, Stored!NextStored, Stored!Lose, Stored!vars, Dict!vars
<1> QED
  BY <1>1, <1>2

LEMMA MapsLose ==
    ASSUME Contents' = Contents, ret' = ret, Saved(Lost)' = Lost
    PROVE  Mapped
<1>1. Trouble' \in BOOLEAN
  BY TroubleIs
<1> QED
  BY <1>1 DEF Mapped, Stored!NextStored, Stored!Lose, Stored!vars

LEMMA MapsSave ==
    ASSUME Contents' = Contents, ret' = Result("save", 0),
           Saved(Lost)' = IF Trouble' THEN Lost ELSE Contents
    PROVE  Mapped
<1>1. Trouble' \in BOOLEAN
  BY TroubleIs
<1> QED
  BY <1>1 DEF Mapped, Stored!NextStored, Stored!Save, Stored!Result, Result

LEMMA MapsSaveFails ==
    ASSUME Contents' = Contents, Saved(Lost)' \in {Saved(Lost), Lost},
           NEW e \in {"MemoryError", "IOError", "SystemError", "SerializerError"},
           ret' = Raise("save", e)
    PROVE  Mapped
<1>1. Trouble' \in BOOLEAN
  BY TroubleIs
<1> QED
  BY <1>1 DEF Mapped, Stored!NextStored, Stored!SaveFails, Stored!Raise, Raise

LEMMA MapsLoad ==
    ASSUME Saved(Lost) # Lost, Contents' = Saved(Lost), ret' = Result("load", 0),
           Saved(Lost)' = Saved(Lost)
    PROVE  Mapped
<1>1. Trouble' \in BOOLEAN
  BY TroubleIs
<1> QED
  BY <1>1 DEF Mapped, Stored!NextStored, Stored!Load, Stored!Result, Result

LEMMA MapsLoadFails ==
    ASSUME Contents' = Contents, Saved(Lost)' = Saved(Lost), NEW e, ret' = Raise("load", e),
           \/ e \in {"MemoryError", "DeserializerError"}
           \/ e \in {"IOError", "ValueError"} /\ Saved(Lost) = Lost
    PROVE  Mapped
<1>1. Trouble' \in BOOLEAN
  BY TroubleIs
<1>2. e \in {"MemoryError", "DeserializerError"} \cup
            (IF Saved(Lost) = Lost THEN {"IOError", "ValueError"} ELSE {})
  OBVIOUS
<1> QED
  BY <1>1, <1>2 DEF Mapped, Stored!NextStored, Stored!LoadFails, Stored!Raise, Raise

LEMMA MapsPickling ==
    ASSUME Contents' = Contents, Saved(Lost)' = Saved(Lost), Trouble' = Trouble,
           ret' = ret \/ ret'.op \in {"__reduce__", "new"}
    PROVE  Mapped
<1>1. Trouble' \in BOOLEAN
  BY TroubleIs
<1>2. CASE ret' = ret
  BY <1>2, MapsSame
<1>3. CASE ret'.op \in {"__reduce__", "new"}
  BY <1>1, <1>3 DEF Mapped, Stored!NextStored, Stored!Pickling
<1> QED
  BY <1>2, <1>3

-----------------------------------------------------------------------------
(* What is in the file, as a map. *)

\* The value that load() will find behind the node at k.
ValueAt(k) ==
    IF store # "ANY" THEN output.tokens[k].output
    ELSE output.tokens[IF output.tokens[k].n > 0 THEN k + 2 ELSE k + 1].value

LEMMA KeyWritten ==
    ASSUME CoreOK, dump = NoDump, NEW S, NEW w, w = output.tokens, w \in Seq(S), WrittenOK(w),
           Complete(w), ~output.damaged, NEW k \in 1..Len(w), w[k].type = "node", w[k].eow
    PROVE  w[k - 1].node \in Keys(nodes) /\ ValueAt(k) = nodes[w[k - 1].node].output
<1>1. Len(w) \in Nat /\ DOMAIN w = 1..Len(w)
    BY CompleteIs
<1>2. k > 1 /\ w[k - 1].type = "address"
    BY <1>1 DEF WrittenOK
<1>3. PICK a : a = k - 1
    OBVIOUS
<1>4. a \in 1..Len(w) /\ w[a].type = "address" /\ k = a + 1
    BY <1>1, <1>2, <1>3
<1>5. PICK p : p = w[a].node
    OBVIOUS
<1>6. PICK L \in {0, 1}, V \in {0, 1} : L = Linked(p) /\ V = Valued(p)
    BY LinkedValued
<1>7. PICK n : n = a + 1 + L + V
    OBVIOUS
<1>8. BlockIs(w, a, p, n)
    BY <1>4, <1>5, <1>6, <1>7, BlockRead
<1>9. /\ p \in DOMAIN nodes
      /\ w[k].eow = nodes[p].eow /\ w[k].n = Len(nodes[p].next)
      /\ store # "ANY" => w[k].output = nodes[p].output
  <2>1. p \in DOMAIN nodes /\ NodeToken(w[k], p)
    BY <1>4, <1>8 DEF BlockIs
  <2> QED
    BY <2>1 DEF NodeToken, SavedNode
<1>10. p \in Keys(nodes)
    BY <1>9 DEF Keys
<1>11. CASE store = "ANY"
  <2>1. V = 1
    BY <1>6, <1>9, <1>11 DEF Valued, Bool
  <2>2. w[n].value = nodes[p].output
    BY <1>6, <1>8, <2>1 DEF BlockIs, Bytes
  <2>3. PICK next : next = nodes[p].next
    OBVIOUS
  <2>4. next \in Seq(Letters)
    BY <1>9, <2>3, CoreIs DEF Heap, TrieNode
  <2>5. Len(next) \in Nat /\ (next = <<>> <=> Len(next) = 0)
    BY <2>4, LenZero, LenProperties, EmptySeq
  <2>6. L = 1 <=> w[k].n > 0
    BY <1>6, <1>9, <2>3, <2>5 DEF Linked, Bool
  <2>7. n = IF w[k].n > 0 THEN k + 2 ELSE k + 1
    BY <1>4, <1>6, <1>7, <2>1, <2>6
  <2> QED
    BY <1>3, <1>5, <1>10, <1>11, <2>2, <2>7 DEF ValueAt
<1>12. CASE store # "ANY"
    BY <1>3, <1>5, <1>9, <1>10, <1>12 DEF ValueAt
<1> QED
    BY <1>11, <1>12

LEMMA WordWritten ==
    ASSUME CoreOK, dump = NoDump, NEW S, NEW w \in Seq(S), WrittenOK(w), Complete(w),
           kind # "EMPTY", NEW p \in Keys(nodes)
    PROVE  \E k \in 1..Len(w) : w[k].type = "node" /\ w[k].eow /\ w[k - 1].node = p
<1>1. Len(w) \in Nat /\ DOMAIN w = 1..Len(w) /\ Addresses(w) = DOMAIN nodes
    BY CompleteIs
<1>2. p \in DOMAIN nodes /\ nodes[p].eow
    BY DEF Keys
<1>3. PICK a \in 1..Len(w) : w[a].type = "address" /\ w[a].node = p
    BY <1>1, <1>2 DEF Addresses
<1>4. PICK L \in {0, 1}, V \in {0, 1} : L = Linked(p) /\ V = Valued(p)
    BY LinkedValued
<1>5. PICK n : n = a + 1 + L + V
    OBVIOUS
<1>6. BlockIs(w, a, p, n)
    BY <1>3, <1>4, <1>5, BlockRead
<1>7. NodeToken(w[a + 1], p) /\ n < Len(w)
    BY <1>6 DEF BlockIs
<1>8. w[a + 1].type = "node" /\ w[a + 1].eow
    BY <1>2, <1>7 DEF NodeToken, SavedNode
<1>9. a + 1 \in 1..Len(w) /\ (a + 1) - 1 = a
    BY <1>1, <1>4, <1>5, <1>7
<1> QED
    BY <1>3, <1>8, <1>9

\* An automaton that is EMPTY has no words.
LEMMA NoWords == ASSUME CoreOK, dump = NoDump, kind = "EMPTY" PROVE Keys(nodes) = {}
<1>1. IsFiniteSet(DOMAIN nodes) /\ Cardinality(Keys(nodes)) <= 0
    BY DEF CoreOK, HeapOK, LinksOK, heap
<1>2. IsFiniteSet(Keys(nodes))
    BY <1>1, FS_Subset DEF Keys
<1>3. Cardinality(Keys(nodes)) = 0
    BY <1>1, <1>2, FS_CardinalityType
<1> QED
    BY <1>2, <1>3, FS_EmptySet

\* The map in a file that is whole is the one of the automaton.
LEMMA SavedIs ==
    ASSUME CoreOK, dump = NoDump, SaveOK, Loadable, ShapeOK, Complete(output.tokens),
           ~output.damaged
    PROVE  SavedContents = Contents
<1>1. PICK w : w = output.tokens
    OBVIOUS
<1>2. WrittenOK(w) /\ \E S : w \in Seq(S)
    BY <1>1, FileRead DEF Loadable
<1>3. PICK S : w \in Seq(S)
    BY <1>2
<1>4. /\ Len(w) \in Nat /\ DOMAIN w = 1..Len(w) /\ w[1].type = "header"
      /\ w[2].type \in {"address", "footer"}
    BY <1>1, <1>2, <1>3, CompleteIs
<1>5. PICK keys : keys = {k \in DOMAIN output.tokens :
                            output.tokens[k].type = "node" /\ output.tokens[k].eow}
    OBVIOUS
<1>6. \A k \in keys : w[k - 1].node \in Keys(nodes) /\ ValueAt(k) = nodes[w[k - 1].node].output
    BY <1>1, <1>2, <1>3, <1>4, <1>5, KeyWritten
<1>7. \A p \in Keys(nodes) : \E k \in keys : w[k - 1].node = p
  <2>1. CASE kind # "EMPTY"
    BY <1>1, <1>2, <1>3, <1>4, <1>5, <2>1, WordWritten
  <2>2. CASE kind = "EMPTY"
    BY <2>2, NoWords
  <2> QED
    BY <2>1, <2>2
<1>8. PICK words : words = {output.tokens[k - 1].node : k \in keys}
    OBVIOUS
<1>9. words = Keys(nodes)
    BY <1>1, <1>6, <1>7, <1>8
<1>10. SavedContents = [x \in words |-> ValueAt(CHOOSE k \in keys : output.tokens[k - 1].node = x)]
    BY <1>5, <1>8 DEF SavedContents, ValueAt
<1>11. ASSUME NEW x \in words
       PROVE  ValueAt(CHOOSE k \in keys : output.tokens[k - 1].node = x) = nodes[x].output
  <2>1. PICK c : c = CHOOSE k \in keys : output.tokens[k - 1].node = x
    OBVIOUS
  <2>2. c \in keys /\ output.tokens[c - 1].node = x
    BY <1>8, <2>1
  <2>3. ValueAt(c) = nodes[x].output
    BY <1>1, <1>6, <2>2
  <2> QED
    BY <2>1, <2>3
<1> QED
    BY <1>9, <1>10, <1>11 DEF Contents

-----------------------------------------------------------------------------
(* How a file ends. *)

\* The buffer of a running save(), and what Finalize keeps of it.
LEMMA BufferIs ==
    ASSUME WritingOK, FramesOK, Running
    PROVE  /\ \E S : IsBuffer(output, S) /\ Inner(S)
           /\ output.size \in Nat /\ output.damaged = FALSE
<1>1. Capacity \in Nat /\ output.size \in 0..Capacity
    BY SaveAssumption DEF FramesOK
<1> QED
    BY <1>1 DEF WritingOK

LEMMA FinalizeIs ==
    ASSUME NEW o, NEW outcome, Finalize(o, outcome), NEW f, f = savebuffer_flush(o, outcome),
           NEW v, v = output'
    PROVE  /\ v.tokens = f.tokens /\ v.full = f.full /\ v.damaged = f.damaged
           /\ save'.at = "done" /\ save'.called = save.called
<1>1. v = [field \in {"tokens", "full", "damaged"} |-> f[field]]
    BY DEF Finalize, NoFile
<1> QED
    BY <1>1 DEF Finalize

\* save() returns, or raises because it noticed that something was not written.
LEMMA FileEnds ==
    ASSUME WritingOK, FramesOK, ControlOK, SaveOK, TraversalDone, save'.at = "done",
           NEW v, v = output', NEW w, w = v.tokens
    PROVE  /\ v.damaged = FALSE /\ save'.called = save.called
           /\ \A k \in DOMAIN w : TokenOK(w[k])
           /\ v.full => ~Complete(w)
           /\ ~v.full => Complete(w) /\ (~save.called /\ kind = "EMPTY" => Len(w) = 2)
           /\ ret' = Result("save", 0) \/ (ret' = Raise("save", "SystemError") /\ v.full)
<1>1. save.at = "next" /\ Running
    BY DEF TraversalDone, Running
<1>2. DOMAIN save = DOMAIN NewSave /\ Written = Items(output) /\ (~save.called => SavingOK)
    BY <1>1, SaveRuns
<1>3. PICK S : IsBuffer(output, S) /\ Inner(S)
    BY <1>1, BufferIs
<1>4. output.size \in Nat /\ output.damaged = FALSE
    BY <1>1, BufferIs
<1>5. save' # [save EXCEPT !.at = "exception"]
  <2>1. DOMAIN save = {"at", "stack", "bytes", "called"}
    BY <1>2 DEF NewSave
  <2> QED
    BY <2>1
<1>6. ~(save.stack # <<>> /\ output.error # "none")
    BY <1>5 DEF TraversalDone
<1>7. PICK first \in Outcomes, second \in Outcomes :
        LET o == savebuffer_store(output, Footer, first)
        IN  /\ Finalize(o, second)
            /\ ret' = IF savebuffer_flush(o, second).error = "none" THEN Result("save", 0)
                      ELSE Raise("save", "SystemError")
    BY <1>6 DEF TraversalDone
<1>8. PICK o : o = savebuffer_store(output, Footer, first)
    OBVIOUS
<1>9. PICK f : f = savebuffer_flush(o, second)
    OBVIOUS
<1>10. /\ \A k \in DOMAIN f.tokens : TokenOK(f.tokens[k])
       /\ f.full => ~Complete(f.tokens)
       /\ ~f.full => ~output.full /\ f.tokens = Cat(Items(output), <<Footer>>)
                     /\ Complete(f.tokens)
       /\ Reported(output, f)
    BY <1>3, <1>4, <1>8, <1>9, FooterWritten
<1>11. /\ v.tokens = f.tokens /\ v.full = f.full /\ v.damaged = f.damaged
       /\ save'.called = save.called
    BY <1>7, <1>8, <1>9, FinalizeIs
<1>12. ASSUME ~f.full, ~save.called, kind = "EMPTY" PROVE Len(f.tokens) = 2
  <2>1. PICK T : T = S \cup {Footer}
    OBVIOUS
  <2>2. PICK t : t = <<Footer>>
    OBVIOUS
  <2>3. t \in Seq(T) /\ Len(t) = 1
    BY <2>1, <2>2
  <2>4. PICK u : u = Items(output)
    OBVIOUS
  <2>5. u \in Seq(T)
    BY <1>3, <2>1, <2>4, Widen, ItemsType
  <2>6. Len(u) = 1
    BY <1>2, <1>10, <1>12, <2>4 DEF SavingOK
  <2>7. f.tokens = Cat(u, t)
    BY <1>10, <1>12, <2>2, <2>4
  <2>8. Len(f.tokens) = Len(u) + Len(t)
    BY <2>3, <2>5, <2>7, CatDomain
  <2> QED
    BY <2>3, <2>6, <2>8
<1>13. ret' = Result("save", 0) \/ (ret' = Raise("save", "SystemError") /\ f.full)
  <2>1. CASE f.error = "none"
    BY <1>7, <1>8, <1>9, <2>1
  <2>2. CASE f.error # "none"
    <3>1. ret' = Raise("save", "SystemError")
      BY <1>7, <1>8, <1>9, <2>2
    <3>2. output.error \in {"none", "IOError"} /\ (output.error = "IOError" => output.full)
      BY <1>1 DEF WritingOK
    <3> QED
      BY <1>10, <2>2, <3>1, <3>2 DEF Reported
  <2> QED
    BY <2>1, <2>2
<1> QED
    BY <1>4, <1>10, <1>11, <1>12, <1>13 DEF Reported

\* An exception that ended the walk is raised, and the file has no footer.
LEMMA FileBreaks ==
    ASSUME WritingOK, FramesOK, ControlOK, SaveOK, ExceptionRaised,
           NEW v, v = output', NEW w, w = v.tokens
    PROVE  /\ v.damaged = FALSE /\ save'.at = "done"
           /\ \A k \in DOMAIN w : TokenOK(w[k])
           /\ ~Complete(w)
           /\ \E e \in {"IOError", "SerializerError"} : ret' = Raise("save", e)
<1>1. save.at = "exception" /\ Running
    BY DEF ExceptionRaised, Running
<1>2. PICK S : IsBuffer(output, S) /\ Inner(S)
    BY <1>1, BufferIs
<1>3. PICK outcome \in Outcomes :
        /\ Finalize(output, outcome)
        /\ ret' = Raise("save", savebuffer_flush(output, outcome).error)
    BY DEF ExceptionRaised
<1>4. PICK f : f = savebuffer_flush(output, outcome)
    OBVIOUS
<1>5. f.tokens \in Seq(S) /\ Reported(output, f)
    BY <1>2, <1>4, FlushedIs, FlushReports DEF IsBuffer
<1>6. (\A k \in DOMAIN f.tokens : TokenOK(f.tokens[k])) /\ ~Complete(f.tokens)
    BY <1>2, <1>5, InnerFile
<1>7. v.tokens = f.tokens /\ v.damaged = f.damaged /\ save'.at = "done"
    BY <1>3, <1>4, FinalizeIs
<1>8. f.error \in {"IOError", "SerializerError"} /\ f.damaged = FALSE
    BY <1>1, <1>5 DEF WritingOK, Reported
<1> QED
    BY <1>3, <1>4, <1>6, <1>7, <1>8

LEMMA ShapeEnds ==
    ASSUME WritingOK, FramesOK, ControlOK, SaveOK, TraversalDone \/ ExceptionRaised
    PROVE  ShapeOK'
<1>1. PICK v, w : v = output' /\ w = v.tokens
    OBVIOUS
<1>2. kind' = kind
    BY DEF TraversalDone, ExceptionRaised, unsaved, object
<1>3. SUFFICES ASSUME Loadable' PROVE ShapeOK'
    BY DEF ShapeOK
<1>4. save'.at = "done" /\ ~save'.called
    BY <1>3 DEF Loadable
<1>5. /\ v.damaged = FALSE /\ \A k \in DOMAIN w : TokenOK(w[k])
      /\ Complete(w) => ~v.full /\ (kind = "EMPTY" => Len(w) = 2)
  <2>1. CASE TraversalDone
    BY <1>1, <1>4, <2>1, FileEnds
  <2>2. CASE ExceptionRaised
    BY <1>1, <2>2, FileBreaks
  <2> QED
    BY <2>1, <2>2
<1> QED
    BY <1>1, <1>2, <1>5 DEF ShapeOK, Complete, TokenOK

\* A file cut short has no footer; one with an altered token is as long as before.
LEMMA CutShort ==
    ASSUME NEW S, NEW w \in Seq(S), WrittenOK(w), NEW k \in 0..(Len(w) - 1), NEW u, u = At(w, k)
    PROVE  ~Complete(u)
<1>1. PICK N \in Nat : N = Len(w) /\ DOMAIN w = 1..N
    BY LenProperties
<1>2. k \in 0..Len(w) /\ k < N
    BY <1>1
<1>3. PrefixOf(u, w)
    BY <1>2 DEF PrefixOf
<1>4. Len(u) = k
    BY <1>2, AtType
<1>5. ASSUME Complete(u) PROVE FALSE
  <2>1. u # <<>> /\ u[k].type = "footer"
    BY <1>4, <1>5 DEF Complete, Last
  <2>2. k \in Nat \ {0} /\ u[k] = w[k]
    BY <1>2, <1>3, <1>4, <2>1, PrefixElements
  <2>3. k \in DOMAIN w
    BY <1>1, <1>2, <2>2
  <2>4. k = N
    BY <1>1, <2>1, <2>2, <2>3 DEF WrittenOK
  <2> QED
    BY <1>2, <2>4
<1> QED
    BY <1>5

LEMMA OneAltered ==
    ASSUME NEW S, NEW w \in Seq(S), NEW k \in DOMAIN w, k # 1, NEW t, NEW u, u = [w EXCEPT ![k] = t],
           \/ t.type = "node" /\ t.fail = FREED /\ w[1].kind = "AHOCORASICK"
           \/ t.type = "pairs" /\ \E j \in DOMAIN t.next : t.next[j].child = FREED
    PROVE  /\ Altered(u) /\ Len(u) = Len(w)
           /\ Complete(u) => Complete(w)
<1>1. PICK N \in Nat : N = Len(w) /\ DOMAIN w = 1..N /\ (N = 0 <=> w = <<>>)
    BY LenProperties, LenZero
<1>2. DOMAIN u = 1..N /\ u[k] = t /\ u[1] = w[1]
    BY <1>1
<1>3. Altered(u)
    BY <1>1, <1>2 DEF Altered
<1>4. PICK T : T = S \cup {t}
    OBVIOUS
<1>5. w \in Seq(T) /\ t \in T
  <2>1. \A j \in 1..Len(w) : w[j] \in T
    BY <1>4, ElementOfSeq
  <2> QED
    BY <1>1, <1>4, <2>1, SeqDef
<1>6. u \in Seq(T)
    BY <1>1, <1>5, ExceptSeq
<1>7. Len(u) = N
    BY <1>2, <1>6, LenProperties
<1>8. ASSUME Complete(u) PROVE Complete(w)
  <2>1. u # <<>> /\ u[N].type = "footer"
    BY <1>7, <1>8 DEF Complete, Last
  <2>2. k # N
    BY <1>1, <1>2, <2>1
  <2>3. u[N] = w[N] /\ N # 0
    BY <1>1, <1>2, <2>2
  <2> QED
    BY <1>1, <2>1, <2>3 DEF Complete, Last
<1> QED
    BY <1>1, <1>3, <1>7, <1>8

LEMMA ShapeDamaged ==
    ASSUME SaveOK, ShapeOK, FileDamaged
    PROVE  ShapeOK' /\ output'.damaged = TRUE
<1>1. /\ save.at = "done" /\ loading = NoLoading /\ loading' = loading /\ save' = save
      /\ kind' = kind /\ ~output.damaged
    BY Zenon DEF FileDamaged, vars, object
<1>2. save # NoSave /\ ~Running
    BY <1>1 DEF NoSave, Running
<1>3. DOMAIN output = {"tokens", "full", "damaged"}
    BY <1>2 DEF SaveOK, NoFile
<1>4. PICK w : w = output.tokens
    OBVIOUS
<1>5. Loadable' <=> Loadable
    BY <1>1 DEF Loadable
<1>6. PICK v, u : v = output' /\ u = v.tokens
    OBVIOUS
<1>7. SUFFICES /\ v.damaged = TRUE
               /\ Loadable /\ Complete(u) => ~v.full /\ Altered(u) /\ (kind = "EMPTY" => Len(u) = 2)
  BY <1>1, <1>5, <1>6 DEF ShapeOK, Complete, Altered
<1>8. CASE \E k \in 0..(Len(w) - 1) :
                v = [output EXCEPT !.damaged = TRUE, !.tokens = SubSeq(@, 1, k)]
  <2>1. PICK k \in 0..(Len(w) - 1) :
            v = [output EXCEPT !.damaged = TRUE, !.tokens = SubSeq(@, 1, k)]
    BY <1>8, Zenon
  <2>2. v = [output EXCEPT !.damaged = TRUE, !.tokens = At(w, k)]
    BY <1>4, <2>1 DEF At
  <2>3. v.damaged = TRUE /\ u = At(w, k)
    BY <1>3, <1>6, <2>2
  <2>4. ASSUME Loadable PROVE ~Complete(u)
    <3>1. WrittenOK(w) /\ \E S : w \in Seq(S)
      BY <1>4, <2>4, FileRead DEF Loadable
    <3> QED
      BY <2>3, <3>1, CutShort
  <2> QED
    BY <2>3, <2>4
<1>9. ASSUME NEW k \in DOMAIN w, NEW t, v = [output EXCEPT !.damaged = TRUE, !.tokens[k] = t],
             w[k].type \in {"node", "pairs"},
             Loadable =>
                \/ t.type = "node" /\ t.fail = FREED /\ w[1].kind = "AHOCORASICK"
                \/ t.type = "pairs" /\ \E j \in DOMAIN t.next : t.next[j].child = FREED
      PROVE  /\ v.damaged = TRUE
             /\ Loadable /\ Complete(u) => ~v.full /\ Altered(u) /\ (kind = "EMPTY" => Len(u) = 2)
  <2>1. v.damaged = TRUE /\ v.full = output.full /\ u = [w EXCEPT ![k] = t]
    BY <1>3, <1>4, <1>6, <1>9
  <2>2. ASSUME Loadable, Complete(u)
        PROVE  ~v.full /\ Altered(u) /\ (kind = "EMPTY" => Len(u) = 2)
    <3>1. WrittenOK(w) /\ \E S : w \in Seq(S)
      BY <1>4, <2>2, FileRead DEF Loadable
    <3>2. PICK S : w \in Seq(S)
      BY <3>1
    <3>3. k # 1
      <4>1. w # <<>>
        BY <1>9, EmptySeq
      <4>2. w[1].type = "header"
        BY <3>1, <4>1 DEF WrittenOK, Header
      <4> QED
        BY <1>9, <4>2
    <3>4. Altered(u) /\ Len(u) = Len(w) /\ Complete(w)
      BY <1>9, <2>1, <2>2, <3>2, <3>3, OneAltered
    <3> QED
      BY <1>4, <2>1, <2>2, <3>4 DEF ShapeOK
  <2> QED
    BY <2>1, <2>2
<1>10. ASSUME NEW k \in DOMAIN w, Loadable PROVE TokenOK(w[k])
    BY <1>1, <1>4, <1>10 DEF ShapeOK
<1>11. CASE \E k \in DOMAIN w :
                /\ w[k].type = "pairs"
                /\ \E j \in DOMAIN w[k].next :
                      v = [output EXCEPT !.damaged = TRUE, !.tokens[k].next[j].child = FREED]
  <2>0. PICK k \in DOMAIN w :
            /\ w[k].type = "pairs"
            /\ \E j \in DOMAIN w[k].next :
                  v = [output EXCEPT !.damaged = TRUE, !.tokens[k].next[j].child = FREED]
    BY <1>11, Zenon
  <2>1. PICK j \in DOMAIN w[k].next :
            v = [output EXCEPT !.damaged = TRUE, !.tokens[k].next[j].child = FREED]
    BY <2>0, Zenon
  <2>2. PICK t : t = [w[k] EXCEPT !.next[j].child = FREED]
    OBVIOUS
  <2>3. v = [output EXCEPT !.damaged = TRUE, !.tokens[k] = t]
    BY <1>3, <1>4, <2>1, <2>2
  <2>4. Loadable => t.type = "pairs" /\ j \in DOMAIN t.next /\ t.next[j].child = FREED
    BY <1>10, <2>0, <2>2 DEF TokenOK, PairsFields
  <2> QED
    BY <1>9, <2>0, <2>3, <2>4, Zenon
<1>12. CASE \E k \in DOMAIN w :
                /\ w[k].type = "node" /\ w[1].kind = "AHOCORASICK"
                /\ v = [output EXCEPT !.damaged = TRUE, !.tokens[k].fail = FREED]
  <2>1. PICK k \in DOMAIN w :
            /\ w[k].type = "node" /\ w[1].kind = "AHOCORASICK"
            /\ v = [output EXCEPT !.damaged = TRUE, !.tokens[k].fail = FREED]
    BY <1>12, Zenon
  <2>2. PICK t : t = [w[k] EXCEPT !.fail = FREED]
    OBVIOUS
  <2>3. v = [output EXCEPT !.damaged = TRUE, !.tokens[k] = t]
    BY <1>3, <1>4, <2>1, <2>2
  <2>4. Loadable => t.type = "node" /\ t.fail = FREED
    BY <1>10, <2>1, <2>2 DEF TokenOK, NodeFields
  <2> QED
    BY <1>9, <2>1, <2>3, <2>4, Zenon
<1>13. \/ \E k \in 0..(Len(output.tokens) - 1) :
              output' = [output EXCEPT !.damaged = TRUE, !.tokens = SubSeq(@, 1, k)]
       \/ \E k \in DOMAIN output.tokens :
              \/ /\ output.tokens[k].type = "pairs"
                 /\ \E j \in DOMAIN output.tokens[k].next :
                      output' = [output EXCEPT !.damaged = TRUE,
                                               !.tokens[k].next[j].child = FREED]
              \/ /\ output.tokens[k].type = "node" /\ output.tokens[1].kind = "AHOCORASICK"
                 /\ output' = [output EXCEPT !.damaged = TRUE, !.tokens[k].fail = FREED]
    BY Zenon DEF FileDamaged
<1>14. CASE \E k \in 0..(Len(output.tokens) - 1) :
               output' = [output EXCEPT !.damaged = TRUE, !.tokens = SubSeq(@, 1, k)]
    BY <1>4, <1>6, <1>8, <1>14, Zenon
<1>15. CASE \E k \in DOMAIN output.tokens :
              /\ output.tokens[k].type = "pairs"
              /\ \E j \in DOMAIN output.tokens[k].next :
                      output' = [output EXCEPT !.damaged = TRUE,
                                               !.tokens[k].next[j].child = FREED]
    BY <1>4, <1>6, <1>11, <1>15, Zenon
<1>16. CASE \E k \in DOMAIN output.tokens :
              /\ output.tokens[k].type = "node" /\ output.tokens[1].kind = "AHOCORASICK"
              /\ output' = [output EXCEPT !.damaged = TRUE, !.tokens[k].fail = FREED]
    BY <1>4, <1>6, <1>12, <1>16, Zenon
<1> QED
    BY <1>13, <1>14, <1>15, <1>16

\* The nodes met so far have entries, and the one at hand gets one.
LEMMA NodeMet ==
    ASSUME CoreOK, dump = NoDump, SaveOK, LoadingOK, ReadOK, save.at = "done",
           loading.result = "running", automaton_load_node, loading'.result = "running"
    PROVE  ReadOK'
<1>1. output.tokens[loading.pos].type = "address"
    BY DEF automaton_load_node
<1>2. PICK lookup : lookup = loading.lookup
    OBVIOUS
<1>3. PICK S : lookup \in Seq(S)
    BY <1>2 DEF LoadingOK
<1>4. /\ DOMAIN loading = {"result", "pos", "lookup", "live", "refs"}
    BY DEF LoadingOK, NewLoading
<1>5. \A l, exc : exc # "running" => ~loadbuffer_close(l, exc)
    BY DEF loadbuffer_close
<1>6. /\ EntryHasValue => SavedFields.output > 0
      /\ loading' = [Allocate(loading) EXCEPT
                  !.pos = @ + 2 + Bool(HasLinks) + Bool(EntryHasValue),
                  !.lookup = Append(@, EntryRead),
                  !.refs = IF EntryHasValue THEN Retain(@, SavedValue) ELSE @]
      /\ UNCHANGED <<unsaved, pc, ret, save, output>>
    BY <1>5 DEF automaton_load_node, EntryRead
<1>7. PICK a : a = Allocate(loading)
    OBVIOUS
<1>8. /\ DOMAIN a = {"result", "pos", "lookup", "live", "refs"}
      /\ a.lookup = lookup /\ a.pos = loading.pos
    BY <1>2, <1>4, <1>7 DEF Allocate
<1>9. PICK w : w = output.tokens
    OBVIOUS
<1>10. PICK q : q = loading.pos
    OBVIOUS
<1>11. PICK n : n = q + 1 + Bool(HasLinks) + Bool(EntryHasValue)
    OBVIOUS
<1>12. /\ q \in Nat /\ q > 1 /\ n \in Nat /\ q < n /\ n < Len(w)
       /\ \A j \in (q + 1)..n :
            /\ w[j].type \in {"node", "pairs", "bytes"}
            /\ w[j].type = "node" => w[j] = SavedFields
            /\ w[j].type = "pairs" => w[j].next = SavedLinks
       /\ SavedHeader = Header
    BY <1>1, <1>9, <1>10, <1>11, EntryIs
<1>13. PICK e : e = EntryRead
    OBVIOUS
<1>14. e.fields = SavedFields /\ e.links = SavedLinks
    BY <1>13 DEF EntryRead
<1>15. PICK u : u = Append(lookup, e)
    OBVIOUS
<1>16. PICK N \in Nat : N = Len(lookup)
    BY <1>3, LenProperties
<1>17. /\ DOMAIN u = 1..(N + 1) /\ u[N + 1] = e
       /\ DOMAIN lookup = 1..N /\ \A j \in 1..N : u[j] = lookup[j]
  <2>1. /\ DOMAIN lookup = 1..Len(lookup)
        /\ DOMAIN u = 1..(Len(lookup) + 1) /\ u[Len(lookup) + 1] = e
        /\ \A j \in 1..Len(lookup) : u[j] = lookup[j]
    BY <1>3, <1>15, LookupGrows
  <2> QED
    BY <1>16, <2>1
<1>18. q + 2 + Bool(HasLinks) + Bool(EntryHasValue) = n + 1
    BY <1>11, <1>12 DEF Bool
<1>19. loading'.pos = n + 1 /\ loading'.lookup = u
    BY <1>6, <1>7, <1>8, <1>10, <1>13, <1>15, <1>18
<1>20. UNCHANGED <<store, output>>
    BY <1>6 DEF unsaved, object
<1>21. ASSUME NEW t, MetNode(t, lookup) PROVE MetNode(t, u)
    BY <1>17, <1>21 DEF MetNode
<1>22. ASSUME NEW t, MetPairs(t, lookup) PROVE MetPairs(t, u)
    BY <1>17, <1>22 DEF MetPairs
<1>23. ASSUME NEW k \in 1..n
       PROVE  /\ w[k].type = "node" => MetNode(w[k], u)
              /\ w[k].type = "pairs" => MetPairs(w[k], u)
  <2>1. CASE k \in 1..(q - 1)
    <3>1. /\ w[k].type = "node" => MetNode(w[k], lookup)
          /\ w[k].type = "pairs" => MetPairs(w[k], lookup)
      BY <1>2, <1>9, <1>10, <2>1 DEF ReadOK
    <3> QED
      BY <1>21, <1>22, <3>1
  <2>2. CASE k = q
    BY <1>1, <1>9, <1>10, <2>2
  <2>3. CASE k \in (q + 1)..n
    <3>1. /\ w[k].type = "node" => w[k] = SavedFields
          /\ w[k].type = "pairs" => w[k].next = SavedLinks
      BY <1>12, <2>3
    <3>2. u[N + 1].fields = SavedFields /\ u[N + 1].links = SavedLinks /\ N + 1 \in DOMAIN u
      BY <1>14, <1>17
    <3>3. ASSUME w[k].type = "node" PROVE ~(w[k].eow /\ store = "ANY" /\ w[k].output = 0)
      <4>1. SavedHeader.store = store
        BY <1>12 DEF Header
      <4> QED
        BY <1>6, <3>1, <3>3, <4>1 DEF EntryHasValue
    <3> QED
      BY <3>1, <3>2, <3>3 DEF MetNode, MetPairs
  <2> QED
    BY <1>12, <2>1, <2>2, <2>3
<1>24. loading'.pos - 1 = n
    BY <1>12, <1>19
<1>25. ASSUME NEW k \in 1..(loading'.pos - 1)
       PROVE  /\ (output.tokens[k].type = "node" => MetNode(output.tokens[k], loading.lookup))'
              /\ (output.tokens[k].type = "pairs" => MetPairs(output.tokens[k], loading.lookup))'
  <2>1. k \in 1..n /\ output'.tokens[k] = w[k]
    BY <1>9, <1>20, <1>24, <1>25
  <2> QED
    BY <1>19, <1>20, <1>23, <2>1 DEF MetNode, MetPairs
<1> QED
    BY <1>25 DEF ReadOK

\* Which step a running load() can take.
LEMMA ReadStep ==
    ASSUME CoreOK, ControlOK, SaveOK, LoadingOK, ReadOK, NextPersistence
    PROVE  ReadOK'
<1>1. NoSave.at = "none" /\ NoLoading.result = "none" /\ NewLoading.result = "running"
    BY DEF NoSave, NoLoading, NewLoading
<1>2. \A l, exc : exc # "running" => ~(loadbuffer_close(l, exc) /\ loading'.result = "running")
    BY DEF loadbuffer_close
<1>3. \A h, l : ~(Install(h, l) /\ loading'.result = "running")
    BY DEF Install
<1>4. loading.result = "running" => save.at = "done" /\ save # NoSave /\ pc = "load"
    BY <1>1 DEF ControlOK
<1>5. SUFFICES ASSUME loading'.result = "running" PROVE ReadOK'
    BY DEF ReadOK
<1>6. CASE Unpickled /\ NextSave /\ UNCHANGED pickleOnly
  <2>1. CASE LifeGoesOn
    BY <1>4, <1>5, <2>1 DEF LifeGoesOn, saveVars
  <2>2. CASE SaveStep
    <3>1. loading' = loading
      BY <2>2 DEF SaveStep, automaton_save, automaton_save_fails, automaton_save_node,
                SerializerReturns, SerializerRaises, SaveCrashes, TraversalDone,
                ExceptionRaised, saveVars
    <3>2. save.at = "done" /\ save # NoSave /\ pc = "load"
      BY <1>4, <1>5, <3>1
    <3> QED
      BY <2>2, <3>2 DEF SaveStep, automaton_save, automaton_save_fails, automaton_save_node,
                SerializerReturns, SerializerRaises, SaveCrashes, TraversalDone,
                ExceptionRaised, saveVars
  <2>3. CASE SerializerCalls
    BY <1>4, <1>5, <2>3 DEF SerializerCalls
  <2>4. CASE FileDamaged
    BY <1>1, <1>5, <2>4, Zenon DEF FileDamaged
  <2>5. CASE module_automaton_load
    <3>1. /\ save.at = "done" /\ ~save.called /\ loading = NoLoading
          /\ Complete(output.tokens) /\ loading' = NewLoading /\ output' = output
      BY <1>2, <1>3, <1>5, <2>5 DEF module_automaton_load
    <3>2. PICK w : w = output.tokens
      OBVIOUS
    <3>3. WrittenOK(w) /\ \E S : w \in Seq(S)
      BY <1>1, <3>1, <3>2, FileRead
    <3>4. w[1].type = "header"
      BY <3>1, <3>2, <3>3, CompleteIs
    <3>5. loading'.pos - 1 = 1 /\ output'.tokens[1].type = "header"
      BY <3>1, <3>2, <3>4 DEF NewLoading
    <3>6. \A k \in 1..1 : k = 1
      OBVIOUS
    <3> QED
      BY <3>5, <3>6 DEF ReadOK
  <2>6. CASE automaton_load_node
    <3>1. loading.result = "running" /\ save.at = "done" /\ dump = NoDump
      BY <1>4, <1>6, <2>6 DEF automaton_load_node, ControlOK, Unpickled
    <3> QED
      BY <1>5, <2>6, <3>1, NodeMet
  <2>7. CASE automaton_load_fixup_pointers
    BY <1>2, <1>3, <1>5, <2>7 DEF automaton_load_fixup_pointers
  <2> QED
    BY <1>6, <2>1, <2>2, <2>3, <2>4, <2>5, <2>6, <2>7 DEF NextSave, LoadStep
<1>7. CASE (save = NoSave \/ (loading.result = "automaton" /\ version = 0)) /\ UNCHANGED saveVars
    BY <1>4, <1>5, <1>7 DEF saveVars
<1> QED
    BY <1>6, <1>7 DEF NextPersistence

\* A file that was not damaged has no unknown address.
LEMMA NoneUnknown ==
    ASSUME CoreOK, dump = NoDump, pc # "crash", Known = DOMAIN nodes, SavedHeader = Header,
           ~output.damaged, NEW entry, EntryOK(entry)
    PROVE  ~Unknown(entry)
<1>1. PICK p \in DOMAIN nodes : p = entry.original
    BY DEF EntryOK
<1>2. SavedHeader.kind = kind
    BY DEF Header
<1>3. ASSUME kind = "AHOCORASICK" PROVE entry.fields.fail \in Known \cup {NULL}
  <2>1. entry.fields.fail = nodes[p].fail
    BY <1>1 DEF EntryOK, NodeToken
  <2>2. LinksOK(nodes)
    BY CoreAutomaton
  <2>3. nodes[p].fail \in DOMAIN nodes \cup {NULL, FREED} /\ nodes[p].fail # FREED
    BY <1>3, <2>2 DEF LinksOK, PointersLive, NoneFreed
  <2> QED
    BY <2>1, <2>3
<1>4. ASSUME NEW j \in DOMAIN entry.links PROVE entry.links[j].child \in Known
  <2>1. CASE Linked(p) = 1
    <3>1. LinksToken(entry.links, p)
      BY <1>1, <2>1 DEF EntryOK
    <3>2. j \in DOMAIN nodes[p].next /\ entry.links[j].child = Append(p, nodes[p].next[j])
      BY <1>4, <3>1 DEF LinksToken
    <3>3. LinksLive(nodes)
      BY CoreIs DEF Tree
    <3> QED
      BY <3>2, <3>3 DEF LinksLive, ToSet
  <2>2. CASE Linked(p) # 1
    <3>1. entry.links = <<>>
      BY <1>1, <2>2 DEF EntryOK
    <3> QED
      BY <1>4, <3>1
  <2> QED
    BY <2>1, <2>2
<1> QED
    BY <1>2, <1>3, <1>4 DEF Unknown

\* At the footer: the values were not empty, and damage would have been met.
LEMMA AllMet ==
    ASSUME CoreOK, dump = NoDump, pc # "crash", SaveOK, LoadingOK, ShapeOK, ReadOK,
           save.at = "done", loading.result = "running",
           output.tokens[loading.pos].type = "footer"
    PROVE  /\ ~EmptyValue /\ Loadable
           /\ (\E j \in DOMAIN loading.lookup : Unknown(loading.lookup[j])) <=> output.damaged
<1>1. /\ SavedHeader = Header /\ kind # "EMPTY" /\ Known = DOMAIN nodes
      /\ loading.pos = Len(output.tokens) /\ Len(output.tokens) \in Nat
      /\ DOMAIN output.tokens = 1..Len(output.tokens)
      /\ output.tokens[1] = Header
    BY KnownIs
<1>2. Loadable /\ Complete(output.tokens)
    BY DEF LoadingOK, Loadable
<1>3. ASSUME NEW k \in DOMAIN output.tokens,
             output.tokens[k].type \in {"node", "pairs"}
      PROVE  /\ output.tokens[k].type = "node" => MetNode(output.tokens[k], loading.lookup)
             /\ output.tokens[k].type = "pairs" => MetPairs(output.tokens[k], loading.lookup)
  <2>1. PICK N \in Nat : N = Len(output.tokens)
    BY <1>1
  <2>2. k # N
    BY <1>1, <1>3, <2>1
  <2>3. k \in 1..(loading.pos - 1)
    BY <1>1, <2>1, <2>2
  <2> QED
    BY <2>3 DEF ReadOK
<1>4. ~EmptyValue
    BY <1>3 DEF EmptyValue, MetNode
<1>5. FREED \notin Known \cup {NULL}
  <2>1. DOMAIN nodes \subseteq Seq(Letters)
    BY CoreIs DEF Heap
  <2> QED
    BY <1>1, <2>1, PointerAssumption
<1>6. ASSUME output.damaged PROVE \E j \in DOMAIN loading.lookup : Unknown(loading.lookup[j])
  <2>1. PICK k \in DOMAIN output.tokens :
            \/ /\ output.tokens[k].type = "node" /\ output.tokens[k].fail = FREED
               /\ output.tokens[1].kind = "AHOCORASICK"
            \/ /\ output.tokens[k].type = "pairs"
               /\ \E j \in DOMAIN output.tokens[k].next : output.tokens[k].next[j].child = FREED
    BY <1>2, <1>6 DEF ShapeOK, Altered
  <2>2. CASE /\ output.tokens[k].type = "node" /\ output.tokens[k].fail = FREED
             /\ output.tokens[1].kind = "AHOCORASICK"
    <3>1. PICK j \in DOMAIN loading.lookup : loading.lookup[j].fields = output.tokens[k]
      BY <1>3, <2>2 DEF MetNode
    <3> QED
      BY <1>5, <2>2, <3>1 DEF Unknown, SavedHeader
  <2>3. CASE /\ output.tokens[k].type = "pairs"
             /\ \E j \in DOMAIN output.tokens[k].next : output.tokens[k].next[j].child = FREED
    <3>1. PICK j \in DOMAIN loading.lookup : loading.lookup[j].links = output.tokens[k].next
      BY <1>3, <2>3 DEF MetPairs
    <3> QED
      BY <1>5, <2>3, <3>1 DEF Unknown
  <2> QED
    BY <2>1, <2>2, <2>3
<1>7. ASSUME ~output.damaged, NEW j \in DOMAIN loading.lookup PROVE ~Unknown(loading.lookup[j])
  <2>1. EntryOK(loading.lookup[j])
    BY DEF LoadingOK
  <2> QED
    BY <1>1, <1>7, <2>1, NoneUnknown
<1> QED
    BY <1>2, <1>4, <1>6, <1>7

-----------------------------------------------------------------------------
(* The invariant of the refinement, step by step. *)

LEMMA WritingKept ==
    ASSUME PersistInv, WritingOK, Unpickled, NextSave
    PROVE  WritingOK'
<1>1. ASSUME ~Running' PROVE WritingOK'
    BY <1>1 DEF WritingOK
<1>2. NoSave.at = "none" /\ NoLoading.result = "none"
    BY DEF NoSave, NoLoading
<1>3. SaveOK /\ ControlOK /\ (loading # NoLoading => save.at = "done")
    BY DEF PersistInv, ControlOK
<1>4. ASSUME Running PROVE DOMAIN save = DOMAIN NewSave
    BY <1>3, <1>4, SaveRuns
<1>5. DOMAIN NewSave = {"at", "stack", "bytes", "called"}
    BY DEF NewSave
<1>6. CASE LifeGoesOn
  <2>1. save' = save /\ ~Running
    BY <1>2, <1>3, <1>6 DEF LifeGoesOn, saveVars, Running
  <2> QED
    BY <1>1, <2>1 DEF Running
<1>7. CASE automaton_save
    BY <1>7, WritingBegins
<1>8. CASE automaton_save_fails
    BY <1>1, <1>2, <1>8 DEF automaton_save_fails, saveVars, Running
<1>9. CASE automaton_save_node
  <2>1. Running
    BY <1>9 DEF automaton_save_node, Running
  <2> QED
    BY <1>4, <1>9, <2>1, WritingEnters
<1>10. CASE SerializerReturns
  <2>1. Running
    BY <1>10 DEF SerializerReturns, Running
  <2> QED
    BY <1>4, <1>10, <2>1, WritingReturns
<1>11. CASE SerializerRaises
  <2>1. Running
    BY <1>11 DEF SerializerRaises, Running
  <2> QED
    BY <1>4, <1>11, <2>1, WritingRaises
<1>12. CASE SaveCrashes
  <2>1. save' = save /\ output' = output
    BY <1>12 DEF SaveCrashes, saveVars
  <2> QED
    BY <2>1, SameWriting
<1>13. CASE TraversalDone
  <2>1. save.at = "next" /\ Running
    BY <1>13 DEF TraversalDone, Running
  <2>2. CASE /\ output.error # "none"
             /\ save' = [save EXCEPT !.at = "exception"] /\ output' = output
    BY <1>4, <2>1, <2>2, WritingRaises
  <2>3. CASE \E o, outcome : Finalize(o, outcome)
    BY <1>1, <2>3 DEF Finalize, Running
  <2> QED
    BY <1>13, <2>2, <2>3 DEF TraversalDone
<1>14. CASE ExceptionRaised
    BY <1>1, <1>14 DEF ExceptionRaised, Finalize, Running
<1>15. CASE SerializerCalls
  <2>1. Running /\ output' = output
    BY <1>15 DEF SerializerCalls, Running
  <2>2. DOMAIN save = {"at", "stack", "bytes", "called"}
    BY <1>4, <1>5, <2>1
  <2>3. save'.at = save.at /\ save'.bytes = save.bytes
    BY <1>15, <2>2 DEF SerializerCalls
  <2> QED
    BY <2>1, <2>3, SameWriting
<1>16. CASE FileDamaged \/ LoadStep
  <2>1. save' = save
    BY Zenon, <1>16 DEF FileDamaged, LoadStep, module_automaton_load, automaton_load_node,
                 automaton_load_fixup_pointers, loadbuffer_close, Install
  <2>2. save.at = "done"
    <3>1. CASE FileDamaged \/ module_automaton_load
      BY <3>1, Zenon DEF FileDamaged, module_automaton_load
    <3>2. CASE automaton_load_node \/ automaton_load_fixup_pointers
      <4>1. loading.result = "running"
        BY <1>3, <3>2 DEF automaton_load_node, automaton_load_fixup_pointers, ControlOK
      <4> QED
        BY <1>2, <1>3, <4>1
    <3> QED
      BY <1>16, <3>1, <3>2 DEF LoadStep
  <2> QED
    BY <1>1, <2>1, <2>2 DEF Running
<1> QED
  BY <1>6, <1>7, <1>8, <1>9, <1>10, <1>11, <1>12, <1>13, <1>14, <1>15, <1>16
     DEF NextSave, SaveStep

\* The file is written at the end of save(), and damaged by nothing else.
LEMMA ShapeKept ==
    ASSUME PersistInv, WritingOK, ShapeOK, NextPersistence
    PROVE  ShapeOK'
<1>1. NoSave.at = "none" /\ NoLoading.result = "none"
    BY DEF NoSave, NoLoading
<1>2. SaveOK /\ ControlOK /\ FramesOK /\ (loading # NoLoading => save.at = "done")
    BY DEF PersistInv, ControlOK
<1>3. ASSUME ~Loadable' PROVE ShapeOK'
    BY <1>3 DEF ShapeOK
<1>4. ASSUME Loadable' => Loadable, output' = output, kind' = kind PROVE ShapeOK'
    BY <1>4 DEF ShapeOK, Complete, Altered
<1>5. CASE UNCHANGED saveVars /\ (save = NoSave \/ loading.result = "automaton")
    BY <1>1, <1>3, <1>5 DEF Loadable, saveVars
<1>6. CASE LifeGoesOn
    BY <1>5, <1>6 DEF LifeGoesOn
<1>7. ASSUME Running PROVE DOMAIN save = {"at", "stack", "bytes", "called"}
  <2>1. DOMAIN save = DOMAIN NewSave
    BY <1>2, <1>7, SaveRuns
  <2> QED
    BY <2>1 DEF NewSave
<1>8. CASE automaton_save
  <2>1. save'.at = "next"
    BY <1>8 DEF automaton_save, NewSave
  <2> QED
    BY <1>3, <2>1 DEF Loadable
<1>9. CASE automaton_save_fails
    BY <1>1, <1>3, <1>9 DEF automaton_save_fails, Loadable, saveVars
<1>10. CASE automaton_save_node \/ SerializerReturns \/ SerializerRaises \/ SerializerCalls
  <2>1. Running
    BY <1>10 DEF automaton_save_node, SerializerReturns, SerializerRaises, SerializerCalls,
                 Running
  <2>2. DOMAIN save = {"at", "stack", "bytes", "called"}
    BY <1>7, <2>1
  <2>3. save'.at # "done"
    BY <1>10, <2>2 DEF automaton_save_node, SerializerReturns, SerializerRaises, SerializerCalls
  <2> QED
    BY <1>3, <2>3 DEF Loadable
<1>11. CASE SaveCrashes
  <2>1. save'.at # "done"
    BY <1>11 DEF SaveCrashes, saveVars
  <2> QED
    BY <1>3, <2>1 DEF Loadable
<1>12. CASE TraversalDone \/ ExceptionRaised
    BY <1>2, <1>12, ShapeEnds DEF PersistInv
<1>13. CASE FileDamaged
    BY <1>2, <1>13, ShapeDamaged
<1>14. CASE LoadStep
  <2>1. save' = save /\ output' = output
    BY <1>14 DEF LoadStep, module_automaton_load, automaton_load_node,
                 automaton_load_fixup_pointers, loadbuffer_close, Install
  <2>2. loading = NoLoading \/ loading.result = "running"
    BY <1>2, <1>14 DEF LoadStep, module_automaton_load, automaton_load_node,
                 automaton_load_fixup_pointers, ControlOK
  <2>3. CASE kind' = kind
    BY <1>1, <1>4, <2>1, <2>2, <2>3 DEF Loadable
  <2>4. CASE \E h, l : Install(h, l)
    <3>1. loading'.result = "automaton"
      BY <2>4 DEF Install
    <3> QED
      BY <1>3, <3>1 DEF Loadable
  <2>5. \/ \E h, l : Install(h, l)
        \/ UNCHANGED unsaved
    BY <1>14 DEF LoadStep, module_automaton_load, automaton_load_node,
                 automaton_load_fixup_pointers, loadbuffer_close
  <2> QED
    BY <2>3, <2>4, <2>5 DEF unsaved, object
<1> QED
  BY <1>5, <1>6, <1>8, <1>9, <1>10, <1>11, <1>12, <1>13, <1>14
     DEF NextPersistence, NextSave, SaveStep

\* Pickling leaves the map alone.
LEMMA Relinked ==
    ASSUME NEW q, NEW x, nodes' = [nodes EXCEPT ![q].fail = x],
           \A p \in DOMAIN nodes : DOMAIN nodes[p] = {"next", "eow", "output", "fail"}
    PROVE  Contents' = Contents
<1>1. DOMAIN nodes' = DOMAIN nodes
    OBVIOUS
<1>2. \A p \in DOMAIN nodes : nodes'[p].eow = nodes[p].eow /\ nodes'[p].output = nodes[p].output
  <2> SUFFICES ASSUME NEW p \in DOMAIN nodes
               PROVE  nodes'[p].eow = nodes[p].eow /\ nodes'[p].output = nodes[p].output
    OBVIOUS
  <2>1. nodes'[p] = nodes[p] \/ nodes'[p] = [nodes[p] EXCEPT !.fail = x]
    OBVIOUS
  <2>2. DOMAIN nodes[p] = {"next", "eow", "output", "fail"}
    OBVIOUS
  <2> QED
    BY <2>1, <2>2
<1>3. Keys(nodes') = Keys(nodes)
    BY <1>1, <1>2 DEF Keys
<1> QED
    BY <1>2, <1>3, SameContents DEF Keys

LEMMA MapWhilePickled ==
    ASSUME PersistInv, PickleStep, Quiet
    PROVE  Contents' = Contents /\ count' = count
<1>1. \A p \in DOMAIN nodes : DOMAIN nodes[p] = {"next", "eow", "output", "fail"}
  <2> SUFFICES ASSUME NEW p \in DOMAIN nodes
               PROVE  DOMAIN nodes[p] = {"next", "eow", "output", "fail"}
    OBVIOUS
  <2>1. Heap(heap)
    BY DEF PersistInv, CoreOK, HeapOK
  <2>2. CASE dump = NoDump
    BY <2>1, <2>2 DEF heap, Heap, TrieNode
  <2>3. CASE dump # NoDump
    <3>1. PICK h, ids : h = dump.before /\ nodes = Overwritten(h, ids)
      BY <2>3 DEF PersistInv, DumpOK
    <3>2. p \in DOMAIN h /\ h[p] \in TrieNode
      BY <2>1, <2>3, <3>1 DEF heap, Heap, Overwritten
    <3>3. nodes[p] = h[p] \/ nodes[p] = [h[p] EXCEPT !.fail = NODEID]
      BY <3>1, <3>2 DEF Overwritten
    <3> QED
      BY <3>2, <3>3 DEF TrieNode
  <2> QED
    BY <2>2, <2>3
<1>2. count' = count
    BY DEF PickleStep, automaton___reduce__, pickle_dump_replace_fail_with_id, pickle_data__init,
       pickle_dump_save, pickle_dump_save_no_memory, pickle_dump_save_crashes, BuildTuple,
       pickle_dump_undo_replace, RevertDone, UndoDone, ExceptionDone, Damage, automaton_new,
       MakeNode, NodesMade, RestoreNode, Restored, untouched, others, vars, object
<1>3. \/ nodes' = nodes
      \/ pickle_dump_replace_fail_with_id \/ pickle_dump_undo_replace
    BY Zenon DEF PickleStep, automaton___reduce__, pickle_data__init,
       pickle_dump_save, pickle_dump_save_no_memory, pickle_dump_save_crashes, BuildTuple,
       RevertDone, UndoDone, ExceptionDone, Damage, automaton_new,
       MakeNode, NodesMade, RestoreNode, Restored, untouched, vars, object
<1>4. CASE nodes' = nodes
    BY <1>2, <1>4 DEF Contents
<1>5. CASE \E q, x : nodes' = [nodes EXCEPT ![q].fail = x]
    BY <1>1, <1>2, <1>5, Relinked
<1>6. CASE pickle_dump_replace_fail_with_id
    BY <1>4, <1>5, <1>6 DEF pickle_dump_replace_fail_with_id
<1>7. CASE pickle_dump_undo_replace
    BY <1>5, <1>7 DEF pickle_dump_undo_replace
<1> QED
    BY <1>2, <1>3, <1>4, <1>6, <1>7

\* An automaton that was loaded has the words and the values of the one that was saved.
LEMMA LoadedMap ==
    ASSUME PersistInv, Unpickled, NextSave, UNCHANGED pickleOnly,
           loading.result # "automaton", loading'.result = "automaton"
    PROVE  Contents' = Contents /\ count' = count
<1>1. /\ AsSaved /\ CoreOK /\ CoreOK' /\ dump = NoDump
    BY Becomes, SaveKeeps DEF PersistInv, Unpickled
<1>2. dump' = NoDump
    BY <1>1 DEF pickleOnly, NoDump
<1>3. CASE kind = "EMPTY"
  <2>1. Keys(nodes) = {}
    BY <1>1, <1>3, NoWords
  <2>2. CoreOK' /\ (dump = NoDump)' /\ (kind = "EMPTY")'
    BY <1>1, <1>2, <1>3 DEF AsSaved, NoDump
  <2>3. (Keys(nodes) = {})'
    BY <2>2, NoWords, PTL
  <2> QED
    BY <1>1, <2>1, <2>3, SameContents DEF AsSaved
<1>4. CASE kind # "EMPTY"
  <2>1. /\ DOMAIN nodes' = DOMAIN nodes
        /\ \A p \in DOMAIN nodes :
            /\ nodes'[p].eow = nodes[p].eow
            /\ nodes[p].eow => nodes'[p].output = nodes[p].output
    BY <1>1, <1>4 DEF AsSaved
  <2>2. Keys(nodes') = Keys(nodes) /\ \A p \in Keys(nodes) : nodes'[p].output = nodes[p].output
    BY <2>1 DEF Keys
  <2> QED
    BY <1>1, <2>2, SameContents DEF AsSaved
<1> QED
    BY <1>3, <1>4

\* A call, between the files or from the serializer.
LEMMA CallKeepsMap ==
    ASSUME 0 \notin Ints, PersistInv, MapOK, Unpickled, Next
    PROVE  MapOK' /\ [Dict!Next]_(Dict!vars)
<1>1. DictInv
  <2>1. pc # "crash"
    BY NextRuns
  <2> QED
    BY <2>1, MapIs DEF PersistInv, Unpickled
<1>2. DictInv' /\ [Dict!Next]_(Dict!vars)
    BY <1>1, DictNext
<1> QED
    BY <1>2, MapFrom, PTL

\* What a load that does not end leaves.
LEMMA LoadsOn ==
    ASSUME LoadStep, loading'.result # "automaton"
    PROVE  UNCHANGED <<unsaved, save, output>>
<1>1. \A h, l : ~Install(h, l)
    BY DEF Install
<1> QED
    BY <1>1 DEF LoadStep, module_automaton_load, automaton_load_node,
                automaton_load_fixup_pointers, loadbuffer_close

LEMMA MapKept ==
    ASSUME 0 \notin Ints, PersistInv, MapOK, NextPersistence
    PROVE  MapOK'
<1>1. CASE PickleStep /\ Quiet
    BY <1>1, MapWhilePickled, SameMap
<1>2. CASE Unpickled /\ NextSave /\ UNCHANGED pickleOnly
  <2>1. CASE LifeGoesOn \/ SerializerCalls
    BY <1>2, <2>1, CallKeepsMap DEF LifeGoesOn, SerializerCalls
  <2>2. CASE nodes' = nodes /\ count' = count
    BY <2>2, SameMap DEF Contents
  <2>3. CASE SaveStep \/ FileDamaged
    BY Zenon, <2>2, <2>3 DEF SaveStep, automaton_save, automaton_save_fails, automaton_save_node,
                SerializerReturns, SerializerRaises, SaveCrashes, TraversalDone,
                ExceptionRaised, FileDamaged, unsaved, vars, object
  <2>4. CASE LoadStep
    <3>1. CASE loading'.result # "automaton"
      BY <2>2, <2>4, <3>1, LoadsOn DEF unsaved, object
    <3>2. CASE loading'.result = "automaton"
      <4>1. loading = NoLoading \/ loading.result = "running"
        BY <2>4 DEF LoadStep, module_automaton_load, automaton_load_node,
                    automaton_load_fixup_pointers, PersistInv, ControlOK
      <4>2. loading.result # "automaton"
        BY <4>1 DEF NoLoading
      <4> QED
        BY <1>2, <3>2, <4>2, LoadedMap, SameMap
    <3> QED
      BY <3>1, <3>2
  <2> QED
    BY <1>2, <2>1, <2>3, <2>4 DEF NextSave
<1> QED
    BY <1>1, <1>2 DEF NextPersistence, Quiet

-----------------------------------------------------------------------------
(* Every step is a step of StoredDictionary. *)

LEMMA PickleMapped ==
    ASSUME PersistInv, PickleStep, Quiet, UNCHANGED saveVars
    PROVE  Mapped
<1>1. Contents' = Contents
    BY MapWhilePickled
<1>2. Saved(Lost)' = Saved(Lost) /\ Trouble' = Trouble
    BY StoreWhilePickled, SameSaved DEF saveVars
<1>3. \A exc : Raise("new", exc).op = "new"
    BY DEF Raise
<1>4. ASSUME NEW l, NEW exc, Refuse(l, exc) PROVE ret'.op = "new"
    BY <1>3, <1>4 DEF Refuse
<1>5. ret' = ret \/ ret'.op \in {"__reduce__", "new"}
  <2>1. CASE automaton___reduce__ \/ RevertDone \/ ExceptionDone
    BY <2>1 DEF automaton___reduce__, RevertDone, ExceptionDone, ReturnError, Result, Raise
  <2>2. CASE automaton_new \/ MakeNode \/ NodesMade \/ RestoreNode \/ Restored
    <3>1. Result("new", 0).op = "new"
      BY DEF Result
    <3> QED
      BY <1>4, <2>2, <3>1 DEF automaton_new, MakeNode, NodesMade, RestoreNode, Restored
  <2>3. CASE \/ pickle_dump_replace_fail_with_id \/ pickle_data__init \/ pickle_dump_save
            \/ pickle_dump_save_no_memory \/ pickle_dump_save_crashes \/ BuildTuple
            \/ pickle_dump_undo_replace \/ UndoDone \/ Damage
    BY Zenon, <2>3 DEF pickle_dump_replace_fail_with_id, pickle_data__init, pickle_dump_save,
       pickle_dump_save_no_memory, pickle_dump_save_crashes, BuildTuple,
       pickle_dump_undo_replace, UndoDone, Damage, vars
  <2> QED
    BY <2>1, <2>2, <2>3 DEF PickleStep
<1> QED
    BY <1>1, <1>2, <1>5, MapsPickling

LEMMA CallMapped ==
    ASSUME 0 \notin Ints, PersistInv, MapOK, Unpickled, LifeGoesOn \/ SerializerCalls
    PROVE  Mapped
<1>1. CASE LifeGoesOn
  <2>1. Next /\ UNCHANGED <<save, output>>
    BY <1>1 DEF LifeGoesOn, saveVars
  <2>2. Saved(Lost)' = Saved(Lost) /\ Trouble' = Trouble
    BY <2>1, StoreKept, SameSaved
  <2> QED
    BY <2>1, <2>2, CallKeepsMap, MapsMemory
<1>2. CASE SerializerCalls
  <2>1. Next /\ save.at = "serializer" /\ Running
    BY <1>2 DEF SerializerCalls, Running
  <2>2. DOMAIN save = {"at", "stack", "bytes", "called"}
    BY <2>1, SaveRuns DEF PersistInv, NewSave
  <2>3. (save.at # "done")'
    BY <1>2, <2>1, <2>2 DEF SerializerCalls
  <2>4. (Saved(Lost) = Lost)'
    BY <2>3, LostIs, PTL
  <2>5. Saved(Lost) = Lost
    BY <2>1, LostIs
  <2> QED
    BY <2>1, <2>4, <2>5, CallKeepsMap, MapsMemoryLost
<1> QED
    BY <1>1, <1>2

\* The same of the file after a step.
LEMMA LostThen ==
    ASSUME \/ save'.at # "done" \/ ~Complete(output.tokens)'
           \/ Trouble' \/ output'.damaged
    PROVE  Saved(Lost)' = Lost
BY DEF Saved

\* A file that is whole, and that load() will not refuse.
LEMMA WholeIs ==
    ASSUME CoreOK, dump = NoDump, SaveOK, MapOK, ShapeOK, Loadable, Complete(output.tokens),
           ~EmptyValue, ~output.damaged
    PROVE  Saved(Lost) = Contents /\ Saved(Lost) # Lost
<1>1. SavedContents = Contents
    BY SavedIs
<1>2. ~output.full /\ ~save.called /\ save.at = "done"
    BY DEF ShapeOK, Loadable
<1>3. Saved(Lost) = Contents
    BY <1>1, <1>2 DEF Saved, Trouble
<1>4. DOMAIN Contents = Keys(nodes) /\ Contents \in [Keys(nodes) -> Int]
  <2>1. Heap(nodes)
    BY CoreIs
  <2>2. \A p \in Keys(nodes) : nodes[p].output \in Int
    BY <2>1 DEF Heap, TrieNode, Keys
  <2> QED
    BY <2>2 DEF Contents
<1>5. Keys(nodes) \in SUBSET Words
    BY <1>4 DEF MapOK
<1> QED
    BY <1>3, <1>4, <1>5, LostAssumption

\* save() returns or raises.
LEMMA TraversalMapped ==
    ASSUME PersistInv, PersistInv', MapOK, WritingOK, ShapeOK', Unpickled, UNCHANGED pickleOnly,
           TraversalDone
    PROVE  Mapped
<1>1. /\ save.at = "next" /\ UNCHANGED unsaved /\ loading' = loading
    BY DEF TraversalDone
<1>2. Contents' = Contents
    BY <1>1 DEF Contents, unsaved, object
<1>3. loading.result # "automaton"
    BY <1>1 DEF PersistInv, ControlOK, NoLoading
<1>4. CASE save'.at # "done"
  <2>1. ret' = ret
    BY <1>4 DEF TraversalDone, Finalize
  <2> QED
    BY <1>2, <1>4, <2>1, LostThen, MapsLose
<1>5. CASE save'.at = "done"
  <2>1. PICK v, w : v = output' /\ w = v.tokens
    OBVIOUS
  <2>2. /\ v.damaged = FALSE /\ save'.called = save.called
        /\ v.full => ~Complete(w)
        /\ ~v.full => Complete(w)
        /\ ret' = Result("save", 0) \/ (ret' = Raise("save", "SystemError") /\ v.full)
    BY <1>5, <2>1, FileEnds DEF PersistInv
  <2>3. save' # NoSave'
    BY <1>5 DEF NoSave
  <2>4. CASE ret' = Raise("save", "SystemError") /\ v.full
    <3>1. Trouble'
      BY <2>1, <2>3, <2>4 DEF Trouble
    <3>2. Saved(Lost)' = Lost
      BY <3>1, LostThen
    <3> QED
      BY <1>2, <2>4, <3>2, MapsSaveFails
  <2>5. CASE ret' = Result("save", 0)
    <3>1. CASE Trouble'
      <4>1. Saved(Lost)' = Lost
        BY <3>1, LostThen
      <4> QED
        BY <1>2, <2>5, <3>1, <4>1, MapsSave
    <3>2. CASE ~Trouble'
      <4>1. ~save'.called /\ ~v.full /\ (~EmptyValue)'
        BY <2>1, <2>3, <3>2 DEF Trouble
      <4>2. Complete(output.tokens)' /\ (~output.damaged)'
        BY <2>1, <2>2, <4>1 DEF Complete
      <4>3. Loadable'
        BY <1>1, <1>3, <1>5, <4>1 DEF Loadable
      <4>4. CoreOK' /\ (dump = NoDump)' /\ SaveOK' /\ MapOK'
        <5>1. count' = count
          BY <1>1 DEF unsaved, object
        <5> QED
          BY <1>2, <5>1, SameMap DEF PersistInv, Unpickled, pickleOnly, NoDump
      <4>5. (Saved(Lost) = Contents)'
        BY <4>1, <4>2, <4>3, <4>4, WholeIs, PTL
      <4> QED
        BY <1>2, <2>5, <3>2, <4>5, MapsSave
    <3> QED
      BY <3>1, <3>2
  <2> QED
    BY <2>2, <2>4, <2>5
<1> QED
    BY <1>4, <1>5

LEMMA SaveMapped ==
    ASSUME PersistInv, PersistInv', MapOK, WritingOK, ShapeOK', Unpickled, UNCHANGED pickleOnly,
           SaveStep
    PROVE  Mapped
<1>1. /\ UNCHANGED <<nodes, store>>
    BY DEF SaveStep, automaton_save, automaton_save_fails, automaton_save_node,
           SerializerReturns, SerializerRaises, SaveCrashes, TraversalDone, ExceptionRaised,
           unsaved, object
<1>2. Contents' = Contents
    BY <1>1 DEF Contents
<1>3. ASSUME Running PROVE DOMAIN save = {"at", "stack", "bytes", "called"}
    BY <1>3, SaveRuns DEF PersistInv, NewSave
<1>4. CASE automaton_save
  <2>1. save'.at # "done" /\ ret' = ret
    BY <1>4 DEF automaton_save, NewSave
  <2> QED
    BY <1>2, <2>1, LostThen, MapsLose
<1>5. CASE automaton_save_fails
  <2>1. Saved(Lost)' = Saved(Lost)
    BY <1>1, <1>5, SameSaved DEF automaton_save_fails, saveVars
  <2> QED
    BY <1>2, <1>5, <2>1, MapsSaveFails DEF automaton_save_fails
<1>6. CASE automaton_save_node \/ SerializerReturns \/ SerializerRaises
  <2>1. Running
    BY <1>6 DEF automaton_save_node, SerializerReturns, SerializerRaises, Running
  <2>2. DOMAIN save = {"at", "stack", "bytes", "called"}
    BY <1>3, <2>1
  <2>3. save'.at # "done"
    BY <1>6, <2>2 DEF automaton_save_node, SerializerReturns, SerializerRaises
  <2>4. ret' = ret
    BY <1>6 DEF automaton_save_node, SerializerReturns, SerializerRaises
  <2> QED
    BY <1>2, <2>3, <2>4, LostThen, MapsLose
<1>7. CASE SaveCrashes
  <2>1. save'.at # "done" /\ ret' = ret
    BY <1>7 DEF SaveCrashes, saveVars
  <2> QED
    BY <1>2, <2>1, LostThen, MapsLose
<1>8. CASE TraversalDone
    BY <1>8, TraversalMapped
<1>9. CASE ExceptionRaised
  <2>1. PICK v, w : v = output' /\ w = v.tokens
    OBVIOUS
  <2>2. ~Complete(w) /\ \E e \in {"IOError", "SerializerError"} : ret' = Raise("save", e)
    BY <1>9, <2>1, FileBreaks DEF PersistInv
  <2>3. ~Complete(output.tokens)'
    BY <2>1, <2>2 DEF Complete
  <2>4. Saved(Lost)' = Lost
    BY <2>3, LostThen
  <2> QED
    BY <1>2, <2>2, <2>4, MapsSaveFails
<1> QED
    BY <1>4, <1>5, <1>6, <1>7, <1>8, <1>9 DEF SaveStep

LEMMA DamageMapped ==
    ASSUME PersistInv, ShapeOK, FileDamaged
    PROVE  Mapped
<1>1. output'.damaged = TRUE
    BY ShapeDamaged DEF PersistInv
<1>2. Saved(Lost)' = Lost
    BY <1>1, LostThen
<1>3. Contents' = Contents /\ ret' = ret
    BY Zenon DEF FileDamaged, vars, object, Contents
<1> QED
    BY <1>2, <1>3, MapsLose

\* load() begins, on a file that may be of an EMPTY automaton.
LEMMA LoadBeginsMapped ==
    ASSUME PersistInv, MapOK, ShapeOK, Unpickled, UNCHANGED pickleOnly, module_automaton_load
    PROVE  Mapped
<1>1. /\ save.at = "done" /\ ~save.called /\ loading = NoLoading
      /\ loading.result # "automaton"
    BY DEF module_automaton_load, NoLoading
<1>2. Loadable /\ CoreOK /\ SaveOK /\ LoadingOK /\ dump = NoDump
    BY <1>1 DEF Loadable, PersistInv, Unpickled
<1>3. ASSUME UNCHANGED <<unsaved, save, output>>
      PROVE  Contents' = Contents /\ Saved(Lost)' = Saved(Lost) /\ Trouble' = Trouble
    BY <1>3, SameSaved DEF Contents, unsaved, object
<1>4. ASSUME NEW exc, loadbuffer_close(NewLoading, exc),
             exc = "MemoryError" \/ (exc \in {"IOError", "ValueError"} /\ ~Complete(output.tokens))
      PROVE  Mapped
  <2>1. ret' = Raise("load", exc) /\ UNCHANGED <<unsaved, save, output>>
    BY <1>4 DEF loadbuffer_close
  <2>2. ~Complete(output.tokens) => Saved(Lost) = Lost
    BY LostIs
  <2> QED
    BY <1>3, <1>4, <2>1, <2>2, MapsLoadFails
<1>5. CASE UNCHANGED <<unsaved, ret, save, output>>
    BY <1>3, <1>5, MapsSame
<1>6. CASE Complete(output.tokens) /\ SavedHeader.kind = "EMPTY" /\ Install(EmptyHeap, NewLoading)
  <2>1. PICK w : w = output.tokens
    OBVIOUS
  <2>2. WrittenOK(w) /\ \E S : w \in Seq(S)
    BY <1>1, <1>2, <2>1, FileRead
  <2>3. /\ Len(w) \in Nat /\ DOMAIN w = 1..Len(w) /\ w[1] = Header
        /\ w[1].type = "header" /\ w[Len(w)].type = "footer"
    BY <1>6, <2>1, <2>2, CompleteIs
  <2>4. kind = "EMPTY"
    BY <1>6, <2>1, <2>3 DEF SavedHeader, Header
  <2>5. Len(w) = 2 /\ (output.damaged => Altered(w))
    BY <1>2, <1>6, <2>1, <2>4 DEF ShapeOK
  <2>6. \A k \in DOMAIN w : w[k].type \in {"header", "footer"}
    BY <2>3, <2>5
  <2>7. ~EmptyValue /\ ~output.damaged
    BY <2>1, <2>5, <2>6 DEF EmptyValue, Altered
  <2>8. Saved(Lost) = Contents /\ Saved(Lost) # Lost
    BY <1>2, <1>6, <2>7, WholeIs
  <2>9. loading'.result = "automaton" /\ ret' = Result("load", 0)
    BY <1>6 DEF Install
  <2>10. NextSave
    BY DEF NextSave, LoadStep
  <2>11. Contents' = Contents
    BY <1>1, <2>9, <2>10, LoadedMap
  <2>12. UNCHANGED <<save, output, store>>
    BY <2>9, <2>10, Becomes DEF PersistInv
  <2> QED
    BY <2>8, <2>9, <2>11, <2>12, SameSaved, MapsLoad
<1>7. output.tokens = <<>> => ~Complete(output.tokens)
    BY DEF Complete
<1> QED
    BY <1>4, <1>5, <1>6, <1>7 DEF module_automaton_load

\* A node is read, or the load fails at it.
LEMMA NodeMapped ==
    ASSUME PersistInv, Unpickled, automaton_load_node
    PROVE  Mapped
<1>1. /\ loading.result = "running" /\ save.at = "done" /\ save # NoSave
      /\ CoreOK /\ SaveOK /\ LoadingOK /\ dump = NoDump
    BY DEF automaton_load_node, PersistInv, ControlOK, Unpickled, NoLoading, NoSave
<1>2. ASSUME UNCHANGED <<unsaved, save, output>>
      PROVE  Contents' = Contents /\ Saved(Lost)' = Saved(Lost) /\ Trouble' = Trouble
    BY <1>2, SameSaved DEF Contents, unsaved, object
<1>3. ASSUME NEW exc, NEW l, loadbuffer_close(l, exc),
             exc \in {"MemoryError", "DeserializerError"} \/ (exc = "ValueError" /\ EmptyValue)
      PROVE  Mapped
  <2>1. ret' = Raise("load", exc) /\ UNCHANGED <<unsaved, save, output>>
    BY <1>3 DEF loadbuffer_close
  <2>2. EmptyValue => Saved(Lost) = Lost
    BY <1>1, LostIs DEF Trouble
  <2> QED
    BY <1>2, <1>3, <2>1, <2>2, MapsLoadFails
<1>4. ASSUME EntryHasValue, SavedFields.output = 0 PROVE EmptyValue
  <2>1. PICK w, q, n : /\ w = output.tokens /\ q = loading.pos
                       /\ n = q + 1 + Bool(HasLinks) + Bool(EntryHasValue)
    OBVIOUS
  <2>2. /\ EntryOK(EntryRead)
        /\ q \in Nat /\ n \in Nat /\ q < n /\ n < Len(w)
        /\ SavedHeader = Header
    BY <1>1, <2>1, EntryIs DEF automaton_load_node
  <2>3. SavedFields.type = "node"
    BY <2>2 DEF EntryOK, EntryRead, NodeToken
  <2>4. \E S : w \in Seq(S)
    BY <1>1, <2>1, FileRead DEF LoadingOK
  <2>5. q + 1 \in DOMAIN w
    BY <2>2, <2>4, LenProperties
  <2>6. SavedFields = w[q + 1] /\ store = "ANY" /\ SavedFields.eow
    BY <1>4, <2>1, <2>2 DEF SavedFields, EntryHasValue, Header
  <2> QED
    BY <1>4, <2>1, <2>3, <2>5, <2>6 DEF EmptyValue
<1>5. CASE UNCHANGED <<unsaved, ret, save, output>>
    BY <1>2, <1>5, MapsSame
<1> QED
    BY <1>3, <1>4, <1>5 DEF automaton_load_node

\* The addresses are those of nodes, or the file was damaged.
LEMMA FixupMapped ==
    ASSUME PersistInv, MapOK, ShapeOK, ReadOK, Unpickled, UNCHANGED pickleOnly,
           automaton_load_fixup_pointers
    PROVE  Mapped
<1>1. /\ loading.result = "running" /\ save.at = "done" /\ pc # "crash"
      /\ output.tokens[loading.pos].type = "footer"
      /\ CoreOK /\ SaveOK /\ LoadingOK /\ dump = NoDump
    BY DEF automaton_load_fixup_pointers, PersistInv, ControlOK, Unpickled, NoLoading
<1>2. /\ ~EmptyValue /\ Loadable
      /\ (\E j \in DOMAIN loading.lookup : Unknown(loading.lookup[j])) <=> output.damaged
    BY <1>1, AllMet
<1>3. CASE output.damaged
  <2>1. loadbuffer_close(loading, "ValueError")
    BY <1>2, <1>3 DEF automaton_load_fixup_pointers
  <2>2. ret' = Raise("load", "ValueError") /\ UNCHANGED <<unsaved, save, output>>
    BY <2>1 DEF loadbuffer_close
  <2>3. Contents' = Contents /\ Saved(Lost)' = Saved(Lost)
    BY <2>2, SameSaved DEF Contents, unsaved, object
  <2>4. Saved(Lost) = Lost
    BY <1>3, LostIs
  <2> QED
    BY <2>2, <2>3, <2>4, MapsLoadFails
<1>4. CASE ~output.damaged
  <2>1. \E h, l : Install(h, l)
    BY <1>2, <1>4 DEF automaton_load_fixup_pointers
  <2>2. loading'.result = "automaton" /\ ret' = Result("load", 0)
    BY <2>1 DEF Install
  <2>3. Complete(output.tokens)
    BY <1>1 DEF LoadingOK
  <2>4. Saved(Lost) = Contents /\ Saved(Lost) # Lost
    BY <1>1, <1>2, <1>4, <2>3, WholeIs
  <2>5. NextSave
    BY DEF NextSave, LoadStep
  <2>6. Contents' = Contents
    BY <1>1, <2>2, <2>5, LoadedMap
  <2>7. UNCHANGED <<save, output, store>>
    BY <2>2, <2>5, Becomes DEF PersistInv
  <2> QED
    BY <2>2, <2>4, <2>6, <2>7, SameSaved, MapsLoad
<1> QED
    BY <1>3, <1>4

\* Every step.
LEMMA MapNext ==
    ASSUME 0 \notin Ints, MapInv, [NextPersistence]_<<pickleVars, saveVars>>
    PROVE  MapInv' /\ Mapped
<1>1. PersistInv'
    BY PersistNext DEF MapInv
<1>2. CASE Unpickled /\ NextSave /\ UNCHANGED pickleOnly
  <2>1. NextPersistence
    BY <1>2 DEF NextPersistence
  <2>2. MapOK' /\ WritingOK' /\ ShapeOK' /\ ReadOK'
    BY <1>2, <2>1, MapKept, WritingKept, ShapeKept, ReadStep DEF MapInv, PersistInv
  <2>3. ASSUME LifeGoesOn \/ SerializerCalls PROVE Mapped
    BY <1>2, <2>3, CallMapped DEF MapInv
  <2>4. ASSUME SaveStep PROVE Mapped
    BY <1>1, <1>2, <2>2, <2>4, SaveMapped DEF MapInv
  <2>5. ASSUME FileDamaged PROVE Mapped
    BY <2>5, DamageMapped DEF MapInv
  <2>6. ASSUME LoadStep PROVE Mapped
    BY <1>2, <2>6, LoadBeginsMapped, NodeMapped, FixupMapped DEF MapInv, LoadStep
  <2>7. Mapped
    BY <1>2, <2>3, <2>4, <2>5, <2>6 DEF NextSave
  <2> QED
    BY <1>1, <2>2, <2>7 DEF MapInv
<1>3. CASE /\ save = NoSave \/ (loading.result = "automaton" /\ version = 0)
           /\ PickleStep /\ UNCHANGED saveVars
  <2>1. NextPersistence /\ Quiet
    BY <1>3 DEF NextPersistence, Quiet
  <2>2. MapOK' /\ ShapeOK' /\ ReadOK'
    BY <2>1, MapKept, ShapeKept, ReadStep DEF MapInv, PersistInv
  <2>3. WritingOK'
    BY <1>3, SameWriting DEF MapInv, saveVars
  <2>4. Mapped
    BY <1>3, <2>1, PickleMapped DEF MapInv
  <2> QED
    BY <1>1, <2>2, <2>3, <2>4 DEF MapInv
<1>4. CASE UNCHANGED <<pickleVars, saveVars>>
  <2>1. UNCHANGED <<nodes, kind, store, count, ret, save, output, loading>>
    BY <1>4 DEF pickleVars, saveVars, vars, object
  <2>2. Contents' = Contents
    BY <2>1 DEF Contents
  <2>3. MapOK'
    BY <2>1, <2>2, SameMap DEF MapInv
  <2>4. WritingOK'
    BY <2>1, SameWriting DEF MapInv
  <2>5. ShapeOK' /\ ReadOK'
    BY <2>1 DEF MapInv, ShapeOK, ReadOK, Loadable, Complete, Altered, MetNode, MetPairs
  <2>6. Mapped
    BY <2>1, <2>2, SameSaved, MapsSame
  <2> QED
    BY <1>1, <2>3, <2>4, <2>5, <2>6 DEF MapInv
<1> QED
    BY <1>2, <1>3, <1>4 DEF NextPersistence

LEMMA MapInit == InitPersistence => MapInv /\ Stored!InitStored
<1> SUFFICES ASSUME InitPersistence PROVE MapInv /\ Stored!InitStored
    OBVIOUS
<1>1. PersistInv /\ Init /\ InitSave
    BY PersistInit DEF InitPersistence, InitPickle
<1>2. save = NoSave /\ loading = NoLoading
    BY <1>1 DEF InitSave
<1>3. MapOK /\ Dict!Init
    BY <1>1, DictInit, MapFrom
<1>4. WritingOK /\ ShapeOK /\ ReadOK
    BY <1>2 DEF WritingOK, ShapeOK, ReadOK, Loadable, Running, NoSave, NoLoading
<1>5. Saved(Lost) = Lost /\ Trouble = FALSE
    BY <1>2 DEF Saved, Trouble, NoSave
<1>6. Stored!InitStored
    BY <1>3, <1>5 DEF Stored!InitStored, Stored!Init, Dict!Init, Stored!Empty, Dict!Empty,
                      Stored!Result, Dict!Result
<1> QED
    BY <1>1, <1>3, <1>4, <1>6 DEF MapInv

(***************************************************************************)
(* Through calls, pickles and files, also those that fail, an Automaton    *)
(* into which no caller stores 0 is a map that can be stored: no call but  *)
(* those that remove loses a word; save() loses the map in silence only    *)
(* when the disk was full or the serializer is to blame; load() brings     *)
(* back the map that was saved or raises, and it refuses as damaged no     *)
(* file that still holds the map (automaton_save.c:98,                     *)
(* module_automaton_load.c:60).                                            *)
(***************************************************************************)
THEOREM StoredRefinement == ASSUME 0 \notin Ints PROVE SpecPersistence => StoredDictionary
<1>1. InitPersistence => MapInv /\ Stored!InitStored
    BY MapInit
<1>2. MapInv /\ [NextPersistence]_<<pickleVars, saveVars>> => MapInv' /\ Mapped
    BY MapNext
<1>3. Mapped <=> [Stored!NextStored]_(Stored!storedVars)
    BY DEF Mapped
<1> QED
    BY <1>1, <1>2, <1>3, PTL DEF SpecPersistence, StoredDictionary, Stored!SpecStored
=============================================================================
