--------------------------- MODULE MCTextWidgets ---------------------------
(***************************************************************************)
(* Model checking of the two text widgets.                                 *)
(***************************************************************************)
EXTENDS TextWidgets, TLC

MCRunes == {"a", "j", "H", Blank}

MCTexts == { << <<"a", "a", "a">>, <<"a">> >> }
MCWidths == {2, 4}

(* A status line with a blank at its end, and a text with a body that has  *)
(* a blank line and a string longer than a row.                            *)
MCViewTexts ==
    { EmptyText,
      << <<"H", Blank, Blank, "a", Blank>> >>,
      << <<"a">>, <<>>, <<"a", "j", "j", "j">>, <<>>, <<"a">> >> }
MCSizes == {4, 5, 7}

None == [i \in Inputs |-> 0]
With(some) == some @@ None

(* What the behaviours of the run are made of: each takes a few inputs of  *)
(* some kinds, in any order.                                               *)
MCSessions ==
    { With([type |-> 2, move |-> 2, shift |-> 2]),
      With([type |-> 1, point |-> 4]),
      With([move |-> 1, type |-> 1, select |-> 1, clip |-> 2, undo |-> 1]),
      With([type |-> 3, undo |-> 3]),
      With([type |-> 1, move |-> 1, scroll |-> 1, tab |-> 2]),
      With([point |-> 3, scroll |-> 1, undo |-> 1, shift |-> 1]),
      With([show |-> 3, layout |-> 3]),
      With([show |-> 1, layout |-> 2, press |-> 3, copy |-> 1]),
      With([show |-> 2, layout |-> 1, mark |-> 2, copy |-> 1, wheel |-> 1, clip |-> 1]) }
=============================================================================
