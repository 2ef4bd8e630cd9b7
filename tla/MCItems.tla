------------------------------- MODULE MCItems -------------------------------
(***************************************************************************)
(* ItemsIter on small instances: branches of different depths, keys that   *)
(* are prefixes of keys, and patterns with and without wildcards.          *)
(***************************************************************************)
EXTENDS ItemsIter

CONSTANTS a, b, q

MCLetters == {a, b}
MCDictionaries == SUBSET {<<a>>, <<a, b>>, <<a, a, b>>, <<b, a>>, <<b, a, b>>}
MCPatterns == {<<>>, <<a>>, <<q>>, <<a, q>>, <<q, b>>, <<b, a>>, <<a, b, q>>}
MCWildcards == {NULL, a, q}
=============================================================================
