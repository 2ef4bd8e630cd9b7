---------------------------- MODULE MCSearchLong ----------------------------
(***************************************************************************)
(* SearchIterLong on small instances: sets of words that overlap, begin,   *)
(* end or contain one another.                                             *)
(***************************************************************************)
EXTENDS SearchIterLong

CONSTANTS a, b

MCLetters == {a, b}
MCDictionaries == SUBSET {<<b>>, <<a, b>>, <<b, a>>, <<a, b, a>>, <<b, a, a, b>>} \ {{}}
MCTexts == {<<>>, <<b, a>>, <<a, b, a, b>>, <<a, b, a, a, b, b>>}
=============================================================================
