----------------------------- MODULE MCAutomaton -----------------------------
(***************************************************************************)
(* Automaton on small instances.  The words give a node with two children, *)
(* a key that is a prefix of another, a linear tail of two nodes, and fail *)
(* links that lead to words.                                               *)
(***************************************************************************)
EXTENDS Automaton

CONSTANTS a, b

MCLetters == {a, b}

MCWords == {<<b>>, <<a, b>>, <<b, b>>, <<b, a, b, b>>}

MCFewWords == {<<a>>, <<a, b>>, <<b>>}
=============================================================================
