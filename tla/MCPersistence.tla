---------------------------- MODULE MCPersistence ----------------------------
(***************************************************************************)
(* Persistence on a small instance: four nodes, of which one has two       *)
(* children and one a fail link that removing a word leaves dangling.  One *)
(* object is serialized to more than the buffer holds.                     *)
(***************************************************************************)
EXTENDS Persistence

CONSTANTS a, b

MCLetters == {a, b}
MCWords == {<<b>>, <<a, b>>}
MCSizes == <<1, 16, 0>>
=============================================================================
