------------------------------ MODULE SaveLoad ------------------------------
(***************************************************************************)
(* Automaton.save and ahocorasick.load: src/src/custompickle/.             *)
(*                                                                         *)
(* save() walks the trie and writes each node as it is in memory, with its *)
(* address and the addresses in its links, through a buffer of its own     *)
(* (SaveBuffer).  The serializer it calls for every stored object runs     *)
(* Python code, which may call the automaton or raise; the disk may be     *)
(* full.  load() reads the nodes one by one, with a deserializer that may  *)
(* raise, and turns old addresses into new ones at the end.                *)
(*                                                                         *)
(* The file is a sequence of the items written to it, with their sizes in  *)
(* units of four bytes.  A node keeps its path for an address, in the file *)
(* too; any other address of another process is FREED.                     *)
(***************************************************************************)
EXTENDS Automaton

CONSTANTS Capacity,        \* SAVEBUFFER_DEFAULT_SIZE, 32 KB in the code
          SerializedSize,  \* the size of what the serializer makes of an object
          DiskFails,       \* whether the disk may be full
          LaterVersions    \* bound: the version up to which a loaded automaton is changed

sizeof_Header == 12
sizeof_Footer == 6
sizeof_pointer == 2
sizeof_Pair == 3
PICKLE_TRIENODE_SIZE == 6

ASSUME SaveAssumption ==
    /\ Capacity \in Nat /\ Capacity > sizeof_Header
    /\ SerializedSize \in [Objects -> Nat]
    /\ DiskFails \in BOOLEAN /\ LaterVersions \in Nat
    /\ NULL \notin Objects

VARIABLES save,     \* a running save(), or NoSave
          output,   \* its SaveBuffer with the file, later the file alone
          loading   \* a running load(), then its result, or NoLoading

saveVars == <<save, output, loading>>
unsaved == <<object, locals>>

NoSave == [at |-> "none"]
NoFile == [tokens |-> <<>>, full |-> FALSE, damaged |-> FALSE]
NoLoading == [result |-> "none"]

InitSave == save = NoSave /\ output = NoFile /\ loading = NoLoading

-----------------------------------------------------------------------------
(***************************************************************************)
(* The buffer.  A write to a full disk is reported by fwrite (`error'), or *)
(* waits in stdio's buffer until fclose, whose result is not looked at     *)
(* (`lost').  A disk that is full stays so until the file is closed.       *)
(***************************************************************************)
Outcomes == IF DiskFails THEN {"written", "error", "lost"} ELSE {"written"}

fwrite(o, tokens, outcome) ==
    IF outcome = "written" /\ ~o.full THEN [o EXCEPT !.tokens = @ \o tokens]
    ELSE [o EXCEPT !.full = TRUE, !.error = IF outcome = "error" THEN "IOError" ELSE @]

savebuffer_flush(o, outcome) ==
    IF o.size = 0 THEN o
    ELSE [fwrite(o, o.held, outcome) EXCEPT !.held = <<>>, !.size = 0]

Hold(o, token) == [o EXCEPT !.held = Append(@, token), !.size = @ + token.size]

savebuffer_acquire_no_flush(o, token, outcome) == Hold(o, token)   \* mutant
savebuffer_acquire(o, token, outcome) ==
    Hold(IF o.size + token.size > Capacity THEN savebuffer_flush(o, outcome) ELSE o, token)

savebuffer_store_no_flush(o, token, outcome) ==                    \* mutant
    IF token.size > Capacity THEN fwrite(o, <<token>>, outcome)
    ELSE Hold(IF o.size + token.size >= Capacity THEN savebuffer_flush(o, outcome) ELSE o, token)

savebuffer_store(o, token, outcome) ==
    IF token.size > Capacity
    THEN fwrite(savebuffer_flush(o, outcome), <<token>>, outcome)
    ELSE Hold(IF o.size + token.size >= Capacity THEN savebuffer_flush(o, outcome) ELSE o, token)

-----------------------------------------------------------------------------
(***************************************************************************)
(* What is written.  `bytes' stands for the value it is made of.           *)
(***************************************************************************)
Header == [type |-> "header", size |-> sizeof_Header, kind |-> kind, store |-> store,
           words_count |-> count, longest_word |-> longest_word]

Address(p) == [type |-> "address", size |-> sizeof_pointer, node |-> p]

SavedNode(p) ==
    [type |-> "node", size |-> PICKLE_TRIENODE_SIZE, n |-> Len(nodes[p].next),
     eow |-> nodes[p].eow, fail |-> nodes[p].fail,
     output |-> IF store # "ANY" THEN nodes[p].output
                ELSE IF nodes[p].eow THEN SerializedSize[nodes[p].output] ELSE 0]

Pairs(p) ==
    [type |-> "pairs", size |-> sizeof_Pair * Len(nodes[p].next),
     next |-> [j \in DOMAIN nodes[p].next |->
                [letter |-> nodes[p].next[j], child |-> Append(p, nodes[p].next[j])]]]

Bytes(v) == [type |-> "bytes", size |-> SerializedSize[v], value |-> v]

Footer == [type |-> "footer", size |-> sizeof_Footer, nodes_count |-> output.nodes_count]

\* The node with its address, before its value is serialized.
SaveHead(o, p, outcome) ==
    savebuffer_acquire(savebuffer_acquire(o, Address(p), outcome), SavedNode(p), outcome)

\* Its links, and its value in `bytes', if it has any.
SaveTail(o, p, bytes, outcome) ==
    LET linked == IF nodes[p].next = <<>> THEN o ELSE savebuffer_store(o, Pairs(p), outcome)
        valued == IF bytes = <<>> THEN linked ELSE savebuffer_store(linked, bytes[1], outcome)
    IN  [valued EXCEPT !.nodes_count = @ + 1]

-----------------------------------------------------------------------------
(***************************************************************************)
(* save().  Bound: it writes one file.                                     *)
(***************************************************************************)
NewBuffer == [tokens |-> <<>>, full |-> FALSE, damaged |-> FALSE,
              held |-> <<>>, size |-> 0, error |-> "none", nodes_count |-> 0]

\* The frames of trie_traverse_aux: a node with the next child to visit.  The
\* first frame stands for its caller, with the root for a child.
NewSave == [at |-> "next", stack |-> <<[node |-> NULL, i |-> 1]>>, bytes |-> <<>>,
            called |-> FALSE]

automaton_save ==
    /\ pc = "idle" /\ save = NoSave
    /\ output' = savebuffer_store(NewBuffer, Header, "written")
    /\ save' = IF kind = "EMPTY" THEN [NewSave EXCEPT !.stack = <<>>] ELSE NewSave
    /\ pc' = "save"
    /\ UNCHANGED <<unsaved, ret, loading>>

\* The buffer cannot be allocated, or the file not opened.
automaton_save_fails ==
    /\ pc = "idle" /\ save = NoSave
    /\ \/ MemoryFails /\ ret' = Raise("save", "MemoryError")
       \/ DiskFails /\ ret' = Raise("save", "IOError")
    /\ UNCHANGED <<unsaved, pc, saveVars>>

\* Whether the loop of a frame goes on: its node is read again at every turn.
GoesOn(f) ==
    CASE f.node = NULL  -> f.i = 1
      [] f.node = FREED -> TRUE
      [] OTHER          -> f.i <= Len(nodes[f.node].next)

Depth == Max({0} \cup {k \in DOMAIN save.stack : GoesOn(save.stack[k])})
Frame == save.stack[Depth]
Visiting == IF Frame.node = NULL THEN Root ELSE Append(Frame.node, nodes[Frame.node].next[Frame.i])
Entered ==
    Append([SubSeq(save.stack, 1, Depth) EXCEPT ![Depth].i = @ + 1], [node |-> Visiting, i |-> 1])

automaton_save_node ==
    /\ pc = "save" /\ save.at = "next" /\ Depth > 0 /\ Frame.node # FREED
    /\ \E outcome \in Outcomes :
        LET head == SaveHead(output, Visiting, outcome)
        IN  IF nodes[Visiting].eow /\ store = "ANY"
            THEN /\ output' = head
                 /\ save' = [save EXCEPT !.at = "serializer", !.stack = Entered,
                                         !.bytes = <<Bytes(nodes[Visiting].output)>>]
                 /\ pc' = "idle"
            ELSE /\ output' = SaveTail(head, Visiting, <<>>, outcome)
                 /\ save' = [save EXCEPT !.stack = Entered]
                 /\ UNCHANGED pc
    /\ UNCHANGED <<unsaved, ret, loading>>

\* The frames of a stack, some of them of nodes that were freed.
Dangling(stack, freed) ==
    [k \in DOMAIN stack |-> [stack[k] EXCEPT !.node = Dangle(@, freed)]]

(***************************************************************************)
(* While the serializer runs, pc is "idle".  Bound: one call that frees or *)
(* adds nodes is made from it.                                             *)
(***************************************************************************)
SerializerCalls ==
    /\ save.at = "serializer" /\ ~save.called /\ output.error = "none"
    /\ pc = "idle" /\ Next /\ DOMAIN nodes' # DOMAIN nodes
    /\ save' = [save EXCEPT !.called = TRUE,
                            !.stack = Dangling(@, DOMAIN nodes \ DOMAIN nodes')]
    /\ UNCHANGED <<output, loading>>

\* The rest of the node is written from the node as it is then.
SerializerReturns ==
    LET p == Last(save.stack).node
    IN  /\ save.at = "serializer" /\ pc = "idle" /\ output.error = "none"
        /\ p # FREED
        /\ \E outcome \in Outcomes : output' = SaveTail(output, p, save.bytes, outcome)
        /\ save' = [save EXCEPT !.at = "next", !.bytes = <<>>]
        /\ pc' = "save"
        /\ UNCHANGED <<unsaved, ret, loading>>

\* It raises, or returns no bytes; it also fails when a write has failed before.
SerializerRaises ==
    /\ save.at = "serializer" /\ pc = "idle"
    /\ output' = [output EXCEPT !.error = "SerializerError"]
    /\ save' = [save EXCEPT !.at = "exception"]
    /\ pc' = "save"
    /\ UNCHANGED <<unsaved, ret, loading>>

\* The traversal reads a node that was freed.
SaveCrashes ==
    /\ \/ pc = "idle" /\ save.at = "serializer" /\ output.error = "none"
          /\ Last(save.stack).node = FREED
       \/ pc = "save" /\ save.at = "next" /\ Depth > 0 /\ Frame.node = FREED
    /\ pc' = "crash"
    /\ UNCHANGED <<unsaved, ret, saveVars>>

\* savebuffer_finalize.  An error of its flush comes after the code looked for errors.
Finalize(o, outcome) ==
    /\ output' = [field \in DOMAIN NoFile |-> savebuffer_flush(o, outcome)[field]]
    /\ save' = [at |-> "done", called |-> save.called] /\ pc' = "idle"

TraversalDone ==
    /\ pc = "save" /\ save.at = "next" /\ Depth = 0
    /\ IF save.stack # <<>> /\ output.error # "none"
       THEN save' = [save EXCEPT !.at = "exception"] /\ UNCHANGED <<output, ret, pc>>
       ELSE \E first, second \in Outcomes :
               LET o == savebuffer_store(output, Footer, first)
               IN  /\ Finalize(o, second)
                   /\ ret' = IF savebuffer_flush(o, second).error = "none" THEN Result("save", 0)
                             ELSE Raise("save", "SystemError")
    /\ UNCHANGED <<unsaved, loading>>

ExceptionRaised ==
    /\ pc = "save" /\ save.at = "exception"
    /\ \E outcome \in Outcomes :
        /\ Finalize(output, outcome)
        /\ ret' = Raise("save", savebuffer_flush(output, outcome).error)
    /\ UNCHANGED <<unsaved, loading>>

-----------------------------------------------------------------------------
(***************************************************************************)
(* What can happen to the file: it is cut, by a process that died while it *)
(* wrote or later, or an address in it is altered, to one that is of no    *)
(* node.  (load() could not tell an address that was altered to that of    *)
(* another node: the file has no checksum.)                                *)
(***************************************************************************)
FileDamaged ==
    /\ pc = "idle" /\ save.at = "done" /\ ~output.damaged /\ loading = NoLoading
    /\ \/ \E k \in 0..(Len(output.tokens) - 1) :
            output' = [output EXCEPT !.damaged = TRUE, !.tokens = SubSeq(@, 1, k)]
       \/ \E k \in DOMAIN output.tokens :
            LET token == output.tokens[k]
            IN  \/ /\ token.type = "pairs"
                   /\ \E j \in DOMAIN token.next :
                        output' = [output EXCEPT !.damaged = TRUE,
                                                 !.tokens[k].next[j].child = FREED]
                \/ /\ token.type = "node" /\ token.fail # NULL
                   /\ output.tokens[1].kind = "AHOCORASICK"
                   /\ output' = [output EXCEPT !.damaged = TRUE, !.tokens[k].fail = FREED]
    /\ UNCHANGED <<vars, save, loading>>

-----------------------------------------------------------------------------
(***************************************************************************)
(* load().  `lookup' pairs the addresses in the file with the nodes made,  *)
(* of which `live' are allocated; `refs' are the references taken to what  *)
(* the deserializer returned.  Bound: it is called once, on a file saved   *)
(* while the automaton did not change, and the automaton it returns takes  *)
(* the place of the other.                                                 *)
(***************************************************************************)
NewLoading == [result |-> "running", pos |-> 2, lookup |-> <<>>, live |-> 0,
               refs |-> [o \in Objects |-> 0]]

SavedHeader == output.tokens[1]

Complete(tokens) == tokens # <<>> /\ Last(tokens).type = "footer"

\* loadbuffer_close: the nodes in `lookup' are freed and their values released.
ReleasedEntries(held, entries) ==
    [o \in Objects |-> held[o] - Cardinality({j \in DOMAIN entries : entries[j].value = o})]

loadbuffer_close(l, exc) ==
    /\ loading' = [result |-> exc, live |-> l.live - Len(l.lookup),
                   refs |-> ReleasedEntries(l.refs, l.lookup)]
    /\ pc' = "idle" /\ ret' = Raise("load", exc)
    /\ UNCHANGED <<unsaved, save, output>>

\* The nodes are the automaton's from now on; what is left of `lookup' is closed.
Install(heap, l) ==
    /\ nodes' = heap
    /\ kind' = SavedHeader.kind /\ store' = SavedHeader.store
    /\ count' = SavedHeader.words_count /\ longest_word' = SavedHeader.longest_word
    /\ version' = 0 /\ stats' = NoStats /\ refs' = ReleasedEntries(l.refs, l.lookup)
    /\ loading' = [result |-> "automaton"]
    /\ pc' = "idle" /\ ret' = Result("load", 0)
    /\ UNCHANGED <<locals, save, output>>

\* Whether the file can be opened and read is left out: nothing is made before.
module_automaton_load ==
    /\ pc = "idle" /\ save.at = "done" /\ ~save.called /\ loading = NoLoading
    /\ IF output.tokens = <<>> THEN loadbuffer_close(NewLoading, "IOError")
       ELSE IF ~Complete(output.tokens) THEN loadbuffer_close(NewLoading, "ValueError")
       ELSE \/ MemoryFails /\ loadbuffer_close(NewLoading, "MemoryError")
            \/ SavedHeader.kind = "EMPTY" /\ Install(EmptyHeap, NewLoading)
            \/ /\ SavedHeader.kind # "EMPTY"
               /\ loading' = NewLoading /\ pc' = "load"
               /\ UNCHANGED <<unsaved, ret, save, output>>

Original == output.tokens[loading.pos].node
SavedFields == output.tokens[loading.pos + 1]
HasLinks == SavedFields.n > 0
EntryHasValue == SavedFields.eow /\ SavedHeader.store = "ANY"
SavedLinks == IF HasLinks THEN output.tokens[loading.pos + 2].next ELSE <<>>
SavedValue == output.tokens[loading.pos + 2 + Bool(HasLinks)].value

Allocate(l) == [l EXCEPT !.live = @ + 1]

\* The exception path frees the node at hand, which is not in `lookup' yet.
FreeNode_none(l) == l                                              \* mutant
FreeNode(l) == [l EXCEPT !.live = @ - 1]

automaton_load_node ==
    /\ pc = "load" /\ output.tokens[loading.pos].type = "address"
    /\ \/ MemoryFails /\ loadbuffer_close(loading, "MemoryError")
       \/ /\ MemoryFails
          /\ HasLinks \/ EntryHasValue
          /\ loadbuffer_close(FreeNode(Allocate(loading)), "MemoryError")
       \/ /\ EntryHasValue /\ SavedFields.output > 0
          /\ loadbuffer_close(FreeNode(Allocate(loading)), "DeserializerError")
       \/ /\ EntryHasValue /\ SavedFields.output = 0
          /\ loadbuffer_close(FreeNode(Allocate(loading)), "ValueError")
       \/ /\ EntryHasValue => SavedFields.output > 0
          /\ loading' = [Allocate(loading) EXCEPT
                !.pos = @ + 2 + Bool(HasLinks) + Bool(EntryHasValue),
                !.lookup = Append(@, [original |-> Original, fields |-> SavedFields,
                                      links |-> SavedLinks,
                                      value |-> IF EntryHasValue THEN SavedValue ELSE NULL]),
                !.refs = IF EntryHasValue THEN Retain(@, SavedValue) ELSE @]
          /\ UNCHANGED <<unsaved, pc, ret, save, output>>

\* automaton_load_fixup_pointers.  Fail links are only looked up for AHOCORASICK.
Known == {loading.lookup[j].original : j \in DOMAIN loading.lookup}

Unknown_links_only(entry) ==                                       \* mutant
    \E j \in DOMAIN entry.links : entry.links[j].child \notin Known
Unknown(entry) ==
    \/ SavedHeader.kind = "AHOCORASICK" /\ entry.fields.fail \notin Known \cup {NULL}
    \/ \E j \in DOMAIN entry.links : entry.links[j].child \notin Known

CurrentFail_not_looked_up(entry) ==                                \* mutant
    IF entry.fields.fail = NULL THEN NULL ELSE FREED
CurrentFail(entry) ==
    IF SavedHeader.kind = "AHOCORASICK" \/ entry.fields.fail = NULL THEN entry.fields.fail
    ELSE FREED

LoadedNode_size_for_value(entry) ==                                \* mutant
    [next   |-> [j \in DOMAIN entry.links |-> entry.links[j].letter],
     eow    |-> entry.fields.eow,
     output |-> entry.fields.output,
     fail   |-> CurrentFail(entry)]
LoadedNode(entry) ==
    [next   |-> [j \in DOMAIN entry.links |-> entry.links[j].letter],
     eow    |-> entry.fields.eow,
     output |-> IF entry.value = NULL THEN entry.fields.output ELSE entry.value,
     fail   |-> CurrentFail(entry)]

loadbuffer_invalidate_forgotten(l) == l                            \* mutant
loadbuffer_invalidate(l) == [l EXCEPT !.lookup = <<>>]

automaton_load_fixup_pointers ==
    /\ pc = "load" /\ output.tokens[loading.pos].type = "footer"
    /\ IF \E j \in DOMAIN loading.lookup : Unknown(loading.lookup[j])
       THEN loadbuffer_close(loading, "ValueError")
       ELSE Install([p \in Known |-> LoadedNode(
                        CHOOSE entry \in ToSet(loading.lookup) : entry.original = p)],
                    loadbuffer_invalidate(loading))

-----------------------------------------------------------------------------
SaveStep ==
    \/ automaton_save \/ automaton_save_fails \/ automaton_save_node
    \/ SerializerReturns \/ SerializerRaises \/ SaveCrashes
    \/ TraversalDone \/ ExceptionRaised

LoadStep ==
    module_automaton_load \/ automaton_load_node \/ automaton_load_fixup_pointers

\* Bounds: no call between save and load, few after load, and none that only
\* answers or fails.
LifeGoesOn ==
    /\ save = NoSave \/ loading.result = "automaton"
    /\ Next /\ stats' = stats
    /\ (pc = "idle" /\ pc' = "idle") => object' # object
    /\ (pc = "idle" /\ save # NoSave) => version' <= LaterVersions
    /\ UNCHANGED saveVars

NextSave == LifeGoesOn \/ SaveStep \/ SerializerCalls \/ FileDamaged \/ LoadStep

SpecSave == Init /\ InitSave /\ [][NextSave]_<<vars, saveVars>>

-----------------------------------------------------------------------------
Running == save.at \notin {"none", "done"}

\* What was written, in the file or not yet.
Written == output.tokens \o (IF Running /\ ~output.full THEN output.held ELSE <<>>)

NodeOK(k) ==
    LET token == Written[k]
        p == Written[k - 1].node
        links == IF token.n > 0 THEN 1 ELSE 0
    IN  /\ Written[k - 1].type = "address"
        /\ links = 1 /\ k < Len(Written) =>
            /\ Written[k + 1].type = "pairs" /\ Len(Written[k + 1].next) = token.n
            /\ \A j \in 1..token.n :
                    Written[k + 1].next[j].child = Append(p, Written[k + 1].next[j].letter)
        /\ k + links < Len(Written) =>
            (Written[k + links + 1].type = "bytes" <=> store = "ANY" /\ token.eow)
        /\ k + links < Len(Written) /\ Written[k + links + 1].type = "bytes" =>
            Written[k + links + 1].size = token.output
        /\ p # Root => \E j \in 1..(k - 2) :
            Written[j].type = "address" /\ Written[j].node = Front(p)

BufferOK == Running => output.size <= Capacity

OrderOK ==
    save # NoSave /\ ~save.called /\ ~output.damaged =>
        \A k \in DOMAIN Written : Written[k].type = "node" => NodeOK(k)

(***************************************************************************)
(* However the writes fall on the boundary of the buffer, also those that  *)
(* go past it because they are longer, nothing is written behind its end,  *)
(* and everything comes out in the order it was written: each node behind  *)
(* its address, with the number of links and the size of the value that    *)
(* follow it, each child after its parent.  The size is written into a     *)
(* piece of the buffer acquired before the serializer ran                  *)
(* (automaton_save.c:119).                                                 *)
(***************************************************************************)
FileOK == BufferOK /\ OrderOK

(***************************************************************************)
(* The automaton that load() returns is, node for node and link for link,  *)
(* the one that was saved; the only loss are the targets of the fail links *)
(* of a TRIE.  A file in which an address was altered to one of no node    *)
(* never gives an automaton.                                               *)
(***************************************************************************)
LoadRestores ==
    [][loading.result # "automaton" /\ loading'.result = "automaton" =>
        /\ UNCHANGED <<kind, store, count, longest_word>>
        /\ kind # "EMPTY" => DOMAIN nodes' = DOMAIN nodes
        /\ kind # "EMPTY" => \A p \in DOMAIN nodes :
            /\ nodes'[p].next = nodes[p].next /\ nodes'[p].eow = nodes[p].eow
            /\ store # "ANY" \/ nodes[p].eow => nodes'[p].output = nodes[p].output
            /\ \/ nodes'[p].fail = nodes[p].fail
               \/ kind # "AHOCORASICK" /\ nodes[p].fail # NULL /\ nodes'[p].fail = FREED
      ]_saveVars

(***************************************************************************)
(* A load that raises has freed every node it made and released every      *)
(* value it took, once, wherever it stopped: in the middle of a node, for  *)
(* want of memory, in the deserializer, or at an address that is not in    *)
(* the file.  (The Automaton object made at the start is not released,     *)
(* module_automaton_load.c:35; it owns nothing.)                           *)
(***************************************************************************)
LoadLeavesNothing ==
    loading.result \notin {"none", "running", "automaton"} =>
        loading.live = 0 /\ loading.refs = [o \in Objects |-> 0]

(***************************************************************************)
(* The map a file holds, or `lost', and the reasons for which a save that  *)
(* succeeded may have lost it: the end of the file did not fit on the disk *)
(* and only fclose knew; the serializer changed the automaton, or made an  *)
(* empty value, which load refuses (loadbuffer.c:33).                      *)
(***************************************************************************)
EmptyValue ==
    \E k \in DOMAIN output.tokens :
        /\ output.tokens[k].type = "node"
        /\ output.tokens[k].eow /\ store = "ANY" /\ output.tokens[k].output = 0

Trouble == save # NoSave /\ (save.called \/ output.full \/ EmptyValue)

SavedContents ==
    LET keys == {k \in DOMAIN output.tokens :
                    output.tokens[k].type = "node" /\ output.tokens[k].eow}
        value(k) ==
            IF store # "ANY" THEN output.tokens[k].output
            ELSE output.tokens[IF output.tokens[k].n > 0 THEN k + 2 ELSE k + 1].value
        word(k) == output.tokens[k - 1].node
    IN  [w \in {word(k) : k \in keys} |-> value(CHOOSE k \in keys : word(k) = w)]

Saved(lost) ==
    IF save.at = "done" /\ Complete(output.tokens) /\ ~Trouble /\ ~output.damaged
    THEN SavedContents ELSE lost
=============================================================================
