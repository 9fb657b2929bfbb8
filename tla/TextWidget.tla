----------------------------- MODULE TextWidget -----------------------------
(***************************************************************************)
(* What the editor (TextViewEntry) and the viewer (TextView) compute on a  *)
(* text: positions, wrapping, the selected piece, removal and insertion.   *)
(*                                                                         *)
(* A text is a non-empty sequence of lines, a line a sequence of           *)
(* characters, a position a pair <<line, column>>: lines count from 1 and  *)
(* columns from 0, a column being the number of characters before it.      *)
(* "" is the text of one empty line.  Rows are the visual lines.           *)
(***************************************************************************)
EXTENDS UserInput, SequencesExt

CONSTANTS
    Runes,      \* the characters of texts
    Height      \* whole rows on the screen

VARIABLE
    clipboard   \* the clipboard of the window, a text

Inputs == {"type", "move", "point", "scroll", "shift", "select", "clip", "undo", "tab",
           "show", "layout", "press", "mark", "copy", "wheel"}

Blank == " "
EmptyText == << <<>> >>
AllTexts == Seq(Seq(Runes)) \ {<<>>}

ASSUME WidgetAssumption ==
    Height \in Nat \ {0} /\ Blank \in Runes /\ Sessions \subseteq [Inputs -> Nat]

IsWordRune(ch) == ch # Blank

Size(text) == FoldSeq(LAMBDA line, n : n + Len(line), Len(text) - 1, text)

-----------------------------------------------------------------------------
(* Positions.                                                              *)

Positions(text) == UNION {{l} \X (0 .. Len(text[l])) : l \in DOMAIN text}

EndOfText(text) == <<Len(text), Len(Last(text))>>

Before(p, q) == p[1] < q[1] \/ (p[1] = q[1] /\ p[2] < q[2])

(* normaliseSelection: the ends of a selection in reading order.           *)
Earlier(p, q) == IF Before(q, p) THEN q ELSE p
Later(p, q) == IF Before(q, p) THEN p ELSE q

(* One step to the left, one to the right, across line ends.               *)
Previous(text, p) ==
    CASE p[2] > 0              -> <<p[1], p[2] - 1>>
      [] p[2] = 0 /\ p[1] > 1  -> <<p[1] - 1, Len(text[p[1] - 1])>>
      [] OTHER                 -> p

Following(text, p) ==
    CASE p[2] < Len(text[p[1]])                      -> <<p[1], p[2] + 1>>
      [] p[2] = Len(text[p[1]]) /\ p[1] < Len(text)  -> <<p[1] + 1, 0>>
      [] OTHER                                       -> p

(* The same column of another line, or that line's end.                    *)
OnLine(text, p, l) == <<l, Min({p[2], Len(text[l])})>>

-----------------------------------------------------------------------------
(* Pieces of a text, themselves texts.                                     *)

(* selectedText: what lies between p and q.                                *)
Piece(text, p, q) ==
    IF p[1] = q[1]
    THEN << SubSeq(text[p[1]], p[2] + 1, q[2]) >>
    ELSE << SubSeq(text[p[1]], p[2] + 1, Len(text[p[1]])) >>
         \o SubSeq(text, p[1] + 1, q[1] - 1)
         \o << SubSeq(text[q[1]], 1, q[2]) >>

(* deleteSelection: the text without what lies between p and q.            *)
CutOut(text, p, q) ==
    SubSeq(text, 1, p[1] - 1)
    \o << SubSeq(text[p[1]], 1, p[2])
          \o SubSeq(text[q[1]], q[2] + 1, Len(text[q[1]])) >>
    \o SubSeq(text, q[1] + 1, Len(text))

(* A rune, a line break, an indent or the clipboard put in at p.           *)
Inserted(text, p, piece) ==
    LET head == SubSeq(text[p[1]], 1, p[2])
        tail == SubSeq(text[p[1]], p[2] + 1, Len(text[p[1]]))
        middle == IF Len(piece) = 1
                  THEN << head \o piece[1] \o tail >>
                  ELSE << head \o piece[1] >>
                       \o SubSeq(piece, 2, Len(piece) - 1)
                       \o << Last(piece) \o tail >>
    IN  SubSeq(text, 1, p[1] - 1) \o middle \o SubSeq(text, p[1] + 1, Len(text))

(* Where the cursor stands after a piece was put in at p.                  *)
EndOf(p, piece) ==
    IF Len(piece) = 1 THEN <<p[1], p[2] + Len(piece[1])>>
    ELSE <<p[1] + Len(piece) - 1, Len(Last(piece))>>

(* DoubleTapped: the columns of the word around column c of a line.        *)
Word(line, c) ==
    << Min({s \in 0 .. c : \A i \in s + 1 .. c : IsWordRune(line[i])}),
       Max({e \in c .. Len(line) : \A i \in c + 1 .. e : IsWordRune(line[i])}) >>

-----------------------------------------------------------------------------
(* Wrapping.  A row is a chunk of at most width characters of one line.    *)

RowsOfLine(text, l, width) ==
    LET n == Len(text[l])
    IN  [i \in 1 .. Max({1, (n + width - 1) \div width}) |->
           [line |-> l, off |-> (i - 1) * width,
            len |-> Min({width, n - (i - 1) * width})]]

(* buildVisualLines *)
Rows(text, width) ==
    FlattenSeq([l \in DOMAIN text |-> RowsOfLine(text, l, width)])

(* logicalToVisual: the row that shows a position, and the column in it.   *)
(* The end of a line belongs to its last row.                              *)
RowOf(rows, p) ==
    LET own == {v \in DOMAIN rows : rows[v].line = p[1]}
        holding == {v \in own : p[2] \in rows[v].off .. rows[v].off + rows[v].len - 1}
    IN  IF holding # {} THEN Max(holding)
        ELSE IF own # {} THEN Max(own) ELSE 1

ColOf(rows, p) == LET row == rows[RowOf(rows, p)]
                  IN  Min({p[2] - row.off, row.len})

(* posFromPoint: the position under the y-th row of the screen, x          *)
(* characters from the left, when scroll rows are above the screen.        *)
PositionAt(rows, scroll, y, x) ==
    LET row == rows[Max({1, Min({scroll + y + 1, Len(rows)})})]
    IN  <<row.line, row.off + Min({x, row.len})>>

(* The offset that is left when only n rows fit on the screen.             *)
ScrollLimit(rows, n) == Max({0, Len(rows) - n})
=============================================================================
