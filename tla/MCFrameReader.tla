---------------------------- MODULE MCFrameReader ----------------------------
(***************************************************************************)
(* Instances of FrameReader for TLC.  The byte "x" is read as a digit, so  *)
(* that the values below are JSON and the junk is not.                     *)
(***************************************************************************)
EXTENDS FrameReader

Q == "quote"
B == "backslash"
N == "newline"

Empty      == <<"{", "}">>                        \* {}
Pretty     == <<"[", N, "space", "x", N, "]">>    \* an array over three lines
Nested     == <<"[", "{", "}", "]">>              \* [{}]
BracketIn  == <<"[", Q, "]", Q, "]">>             \* ["]"]
EscQuote   == <<"[", Q, B, Q, "]", Q, "]">>       \* ["\"]"]
EscEsc     == <<"[", Q, B, B, Q, "]">>            \* ["\\"]
Scalar     == <<"x", N>>                          \* a bare number on its line
BraceOpen  == <<"[", Q, "{", Q, "]">>             \* ["{"]

Balanced   == <<"{", "x", "}">>                   \* {1}
Mismatched == <<"[", "}">>                        \* [}
StrayClose == <<"}", N>>                          \* }
WordLine   == <<"x", "{", "x", N>>                \* a line that opens a bracket late

Unclosed   == <<"{", "x", N>>                     \* a line that never closes

Deep       == [i \in 1..15 |-> "["]               \* more brackets than the buffer holds

AllDocs  == {Empty, Pretty, Nested, BracketIn, EscQuote, EscEsc, BraceOpen, Scalar}
FewDocs  == {Empty, Nested}
AllJunk  == {Balanced, Mismatched, StrayClose, WordLine, Deep}
Unclosing == {Unclosed}
Gaps     == {<<>>, <<N>>, <<"space", "vtab", N>>}
Lines    == {<<N>>}
=============================================================================
