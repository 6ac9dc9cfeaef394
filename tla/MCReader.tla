------------------------------ MODULE MCReader ------------------------------
(* Values of Reader's constants that are sequences.                        *)
EXTENDS Reader

\* Eight chunks, the second line a wide character too many for the width: one
\* full page and one line more.  And nothing at all.
MCTexts == {<< <<1, 1>>, <<1, 2, 1, 2>>, <<>>, <<2, 2, 2>>, <<1>> >>, <<>>}

\* Both the hint of many pages and the lines of the dialog take two rows.
MCShortHint == <<1, 2>>
MCLongHint == <<1, 1, 2, 1>>
MCBox == [k \in 1 .. 6 |-> IF k = 1 THEN <<1, 1, 1, 1>> ELSE <<1, 2, 1>>]

\* Single keys, an arrow, and keys that arrive in one read.
MCBursts ==
  {<<k>> : k \in {"space", "p", "q", "esc", "bs", "newline"}}
    \cup {<<"esc", "[", "D">>, <<"q", "p">>, <<"high", "p", "newline">>}
=============================================================================
