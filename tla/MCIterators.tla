----------------------------- MODULE MCIterators -----------------------------
(***************************************************************************)
(* Iterators on a small instance: one word ends with the other, so that    *)
(* a search goes through a fail link, and removing one frees two nodes.    *)
(***************************************************************************)
EXTENDS Iterators

CONSTANTS a, b

MCLetters == {a, b}
MCWords == {<<b>>, <<a, b>>}
MCText == <<a, b>>
=============================================================================
