------------------------------ MODULE MCSearch ------------------------------
(***************************************************************************)
(* SearchIter on small instances: sets of words with common suffixes,      *)
(* prefixes and infixes, and short texts that also join into longer ones.  *)
(***************************************************************************)
EXTENDS SearchIter

CONSTANTS a, b, w

MCLetters == {a, b}
MCDictionaries == (SUBSET {<<b>>, <<a, b>>, <<b, a>>, <<a, b, a>>} \ {{}}) \cup
                  {
                   {<<a, b, a>>, <<b, b>>},
                   {<<b>>, <<a, b, a, b>>},
                   {<<a>>, <<a, b>>}}
MCTexts == {<<>>, <<b, a>>, <<a, w, b>>, <<a, b, a>>}

\* Strings with and without a character of four bytes.
MCMixedTexts == {<<b>>, <<a, b>>}
=============================================================================
