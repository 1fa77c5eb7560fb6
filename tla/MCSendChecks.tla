---------------------------- MODULE MCSendChecks ----------------------------
(***************************************************************************)
(* Instance of SendChecks for TLC.                                         *)
(***************************************************************************)
EXTENDS SendChecks, TLC

CONSTANTS u1, u2

TwoUsers == {u1, u2}
Symmetry == Permutations(TwoUsers)

Alphabet == {"a", "b", "A", "B", "wideA", "wideB", "aAcute", "AAcute",
             "acute", "abLigature", "zw", " ", "#"}

Letters == {"a", "b"}
Strings(lengths) == UNION {[1..n -> Letters] : n \in lengths}

\* A word of three letters that begins with "a", and a shorter one or one that
\* begins with "b": the other may be a prefix, a suffix or the inside of it, or
\* overlap with it.
Pairs == {{<<"a">> \o v, w} : v \in Strings({2}),
                              w \in Strings({1, 2}) \cup {<<"b", "a", "b">>, <<"b", "b", "a">>}}

\* A word in capitals and spaces, one with an accent, a comment, and a line of
\* which nothing remains.
Lines == <<<<" ", "B", "zw", "a", "wideB", "zw", " ", "zw">>, <<"b", "wideA", "acute">>,
           <<" ", "#", "a">>, <<"zw", " ">>>>

\* No file, one that is read to its end, and one of which only the first line is.
Files == {{}, Range(Lines), {Lines[1]}}

\* Every text of four letters, and some with characters that
\* normalisation composes, takes apart, folds or drops.
Texts == Strings({4}) \cup
         {<<"A", "zw", "a", "B">>, <<"zw", " ", "b", "wideA", "b">>, <<"a", " ", "b", "b">>,
          <<"abLigature", "A", "acute">>, <<"b", "A", "zw", "acute">>, <<>>}

\* A listed word with an accent, and contents that differ from it in where a
\* zero-width character stands.
Accents      == {{<<"b", "aAcute">>}}
NoFile       == {{}}
AccentTexts  == {<<"b", "a", "acute">>, <<"b", "zw", "A", "acute">>, <<"b", "a", "zw", "acute">>}

=============================================================================
