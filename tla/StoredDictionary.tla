-------------------------- MODULE StoredDictionary --------------------------
(***************************************************************************)
(* What an Automaton promises as a map that can be stored: save() puts the *)
(* map aside, load() brings it back or raises.  `trouble' says that        *)
(* something outside went wrong during a save (a full disk that nobody     *)
(* noticed, a serializer that changed the map or gave an empty value); only *)
(* then may a save that returned have lost the map.  Pickling leaves the   *)
(* map alone.                                                              *)
(***************************************************************************)
EXTENDS Dictionary

CONSTANT Lost      \* no map that can be loaded

VARIABLES saved,   \* the map in the file, or Lost
          trouble

storedVars == <<vars, saved, trouble>>

InitStored == Init /\ saved = Lost /\ trouble = FALSE

InMemory == Next /\ UNCHANGED saved

Save ==
    /\ ret' = Result("save", 0)
    /\ saved' = IF trouble' THEN Lost ELSE dict
    /\ UNCHANGED dict

SaveFails ==
    /\ \E e \in {"MemoryError", "IOError", "SystemError", "SerializerError"} :
            ret' = Raise("save", e)
    /\ saved' \in {saved, Lost}
    /\ UNCHANGED dict

\* The file is overwritten or damaged; nobody is told.
Lose == saved' = Lost /\ UNCHANGED vars

Load ==
    /\ saved # Lost /\ dict' = saved
    /\ ret' = Result("load", 0)
    /\ UNCHANGED saved

LoadFails ==
    /\ \E e \in {"MemoryError", "DeserializerError"} \cup
                 (IF saved = Lost THEN {"IOError", "ValueError"} ELSE {}) :
            ret' = Raise("load", e)
    /\ UNCHANGED <<dict, saved>>

Pickling == ret'.op \in {"__reduce__", "new"} /\ UNCHANGED <<dict, saved>>

NextStored ==
    /\ InMemory \/ Save \/ SaveFails \/ Lose \/ Load \/ LoadFails \/ Pickling
    /\ trouble' \in BOOLEAN

SpecStored == InitStored /\ [][NextStored]_storedVars
=============================================================================
