----------------------------- MODULE Persistence -----------------------------
(***************************************************************************)
(* An automaton that is pickled, or saved and loaded, in a life of calls   *)
(* that change it: modules Pickle and SaveLoad over the same object.  What *)
(* load() returns goes on living, so that it may be pickled in turn.       *)
(***************************************************************************)
EXTENDS Pickle, SaveLoad

CONSTANT Lost      \* what a file stands for that cannot be loaded: no map

ASSUME LostAssumption == \A keys \in SUBSET Words : Lost \notin [keys -> Int]

pickleOnly == <<dump, pickled, load>>

InitPersistence == InitPickle /\ InitSave

Unpickled == dump = NoDump /\ pickled = NotPickled

\* Bound: an automaton is pickled before it is saved, or as it was loaded.
NextPersistence ==
    \/ Unpickled /\ NextSave /\ UNCHANGED pickleOnly
    \/ /\ save = NoSave \/ (loading.result = "automaton" /\ version = 0)
       /\ PickleStep
       /\ UNCHANGED saveVars

SpecPersistence == InitPersistence /\ [][NextPersistence]_<<pickleVars, saveVars>>

-----------------------------------------------------------------------------
(***************************************************************************)
(* What may end the process while an automaton is kept: what               *)
(* SafeUnlessStale names, where the stale links of a TRIE may also be those*)
(* that load() left as they were in another process                        *)
(* (module_automaton_load.c:233); and a serializer that changed the        *)
(* automaton under the running save().                                     *)
(***************************************************************************)
SafeUnlessMisused ==
    pc = "crash" => IF dump = NoDump THEN save.called ELSE SafeUnlessStale

(***************************************************************************)
(* Through pickling, saving and loading, failed or not, the automaton stays*)
(* the map that it was, and what is loaded is what was saved: save() loses *)
(* the map without a word only when there was trouble, and load() refuses  *)
(* a file as such only when the map in it is lost.                         *)
(***************************************************************************)
Stored == INSTANCE StoredDictionary WITH
    Values <- Int, dict <- Contents, saved <- Saved(Lost), trouble <- Trouble

StoredDictionary == Stored!SpecStored
=============================================================================
