--------------------------- MODULE TextViewEntry ---------------------------
(***************************************************************************)
(* The request editor (internal/ui/widgets/textviewentry.go).              *)
(*                                                                         *)
(* All handlers run on the UI main goroutine, one after the other; what is *)
(* hard is the sequence: every edit has to agree with the cursor, the      *)
(* selection, the undo stack and the wrapped rows that the edits before it *)
(* left.  Each action is one input event with the Refresh at its end.      *)
(*                                                                         *)
(* The raw text is modelled by its lines (splitRaw, commitLines).  The     *)
(* cache of rows is checked against the raw text and the width whenever it *)
(* is read, so the rows are always Rows(lines, width).  Colours are left   *)
(* out.                                                                    *)
(***************************************************************************)
EXTENDS TextWidget

CONSTANTS
    Chars,      \* characters the user types
    Texts,      \* texts the tab puts into the editor
    TabWidth,   \* tveTabWidth (4)
    MaxUndo,    \* length of the undo stack (100)
    Widths,     \* characters per row the window's sizes give (10 or more)
    MaxSize     \* bound on the size of the text

ASSUME EditorAssumption ==
    /\ {TabWidth, MaxUndo} \subseteq Nat \ {0}
    /\ Chars \subseteq Runes /\ Texts \subseteq AllTexts
    /\ Widths \subseteq Nat \ {0} /\ Widths # {}
    /\ MaxSize \in Nat

VARIABLES
    lines,          \* rawFull, as lines
    cursor,         \* cursorLine, cursorCol
    anchor, head,   \* selAnchorLine, selAnchorCol; selLine, selCol
    hasSelection,
    shiftHeld, shiftSelecting,
    undo,           \* undoStack
    scroll,         \* scrollOffset
    width,          \* charsPerLine
    mouse           \* what the pressed button does, "up" when it is not pressed

selVars == <<anchor, head, hasSelection, shiftHeld, shiftSelecting>>
editorVars == <<lines, cursor, selVars, undo, scroll, width, mouse>>

EditorInit ==
    /\ lines \in Texts /\ cursor = <<1, 0>>
    /\ anchor = <<1, 0>> /\ head = <<1, 0>> /\ hasSelection = FALSE
    /\ shiftHeld = FALSE /\ shiftSelecting = FALSE
    /\ undo = <<>> /\ scroll = 0 /\ width = Min(Widths)
    /\ mouse = "up"

-----------------------------------------------------------------------------
(* What the handlers have in common.                                       *)

visual == Rows(lines, width)

(* A row that fits on the screen in part counts.                           *)
visible == Height + 1

From == Earlier(anchor, head)
To == Later(anchor, head)

(* layoutContent pulls the offset back when rows went away.                *)
Settled(offset, text, w) == Min({offset, ScrollLimit(Rows(text, w), visible)})

(* ensureCursorVisible, and the Refresh after it.                          *)
Followed(text, p) ==
    LET v == RowOf(Rows(text, width), p) - 1
    IN  Settled(IF v < scroll THEN v
                ELSE IF v >= scroll + visible THEN v - visible + 1 ELSE scroll,
                text, width)

(* Mistake: pushUndo after commitLines.  EditsAreRecorded.                 *)
CommitFirst(text, p) ==
    /\ Size(text) <= MaxSize
    /\ undo' = Append(IF Len(undo) >= MaxUndo THEN Tail(undo) ELSE undo,
                      [lines |-> text, cursor |-> p])
    /\ lines' = text /\ cursor' = p /\ scroll' = Followed(text, p)

(* pushUndo, commitLines and the new cursor.                               *)
Commit(text, p) ==
    /\ Size(text) <= MaxSize
    /\ undo' = Append(IF Len(undo) >= MaxUndo THEN Tail(undo) ELSE undo,
                      [lines |-> lines, cursor |-> cursor])
    /\ lines' = text /\ cursor' = p /\ scroll' = Followed(text, p)

CancelShift ==
    /\ hasSelection' = FALSE /\ shiftSelecting' = FALSE /\ shiftHeld' = FALSE
    /\ UNCHANGED <<anchor, head>>

(* Put a piece in the place of the selection, or at the cursor.            *)
Replace(piece) ==
    LET text == IF hasSelection THEN CutOut(lines, From, To) ELSE lines
        p == IF hasSelection THEN From ELSE cursor
    IN  Commit(Inserted(text, p, piece), EndOf(p, piece))

(* deleteSelection ends a selection, and the shift-selecting with it.      *)
SelectionReplaced ==
    /\ hasSelection' = FALSE /\ shiftSelecting' = (shiftSelecting /\ ~hasSelection)
    /\ UNCHANGED <<anchor, head, shiftHeld>>

(* A press on the scrollbar beside the thumb leaves the anchor where it    *)
(* was, and text may be typed while the button is down.  A drag into the   *)
(* text then selects from an anchor that may lie outside the text.  So may *)
(* a selection with shift that outlives the drag in which it began         *)
(* (FocusLost), when a text is pasted in front of its anchor.  The model   *)
(* follows such a selection until it is used, or the button is released.   *)
Stray == hasSelection /\ anchor \notin Positions(lines)

-----------------------------------------------------------------------------
(* Typing (TypedRune, TypedKey).                                           *)

TypedRune(ch) ==
    /\ Replace(<< <<ch>> >>) /\ SelectionReplaced
    /\ UNCHANGED <<width, mouse, clipboard>>

KeyReturn ==
    /\ Replace(<< <<>>, <<>> >>) /\ CancelShift
    /\ UNCHANGED <<width, mouse, clipboard>>

(* Backspace and Delete take the selection, or one character, or a line's  *)
(* end; at the end of the text they only cancel the selection.             *)
Erase(p, q) ==
    /\ IF hasSelection THEN Commit(CutOut(lines, From, To), From)
       ELSE IF p # q THEN Commit(CutOut(lines, p, q), p)
       ELSE /\ scroll' = Followed(lines, cursor)
            /\ UNCHANGED <<lines, cursor, undo>>
    /\ CancelShift
    /\ UNCHANGED <<width, mouse, clipboard>>

KeyBackspace == Erase(Previous(lines, cursor), cursor)
KeyDelete == Erase(cursor, Following(lines, cursor))

indent == [i \in 1 .. TabWidth |-> Blank]
Shifted(p) == <<p[1], p[2] + TabWidth>>

(* Tab indents every line the selection touches, and keeps it selected.    *)
IndentSelection ==
    /\ hasSelection
    /\ Commit([l \in DOMAIN lines |->
                 IF l \in From[1] .. To[1] THEN indent \o lines[l] ELSE lines[l]],
              IF cursor[1] = From[1] THEN Shifted(cursor) ELSE Shifted(To))
    /\ anchor' = IF From[2] > 0 THEN Shifted(From) ELSE From
    /\ head' = Shifted(To)
    /\ UNCHANGED <<hasSelection, shiftHeld, shiftSelecting>>

KeyTab ==
    /\ \/ IndentSelection
       \/ ~hasSelection /\ Replace(<< indent >>) /\ UNCHANGED selVars
    /\ UNCHANGED <<width, mouse, clipboard>>

-----------------------------------------------------------------------------
(* Moving the cursor; with shift held the selection moves along.           *)

GoTo(p) ==
    /\ cursor' = p /\ scroll' = Followed(lines, p)
    /\ UNCHANGED <<lines, undo, width, mouse, clipboard>>

Extend(p) ==
    /\ shiftHeld
    /\ anchor' = IF shiftSelecting THEN anchor ELSE cursor
    /\ shiftSelecting' = TRUE /\ head' = p /\ hasSelection' = (anchor' # p)
    /\ GoTo(p) /\ UNCHANGED shiftHeld

(* Left and Right leave a selection at its end.                            *)
Sideways(p, end) ==
    \/ Extend(p)
    \/ ~shiftHeld /\ hasSelection /\ GoTo(end) /\ CancelShift
    \/ ~shiftHeld /\ ~hasSelection /\ GoTo(p) /\ UNCHANGED selVars

KeyLeft == Sideways(Previous(lines, cursor), From)
KeyRight == Sideways(Following(lines, cursor), To)

MoveTo(p) == Extend(p) \/ (~shiftHeld /\ GoTo(p) /\ CancelShift)

KeyUp ==
    MoveTo(IF cursor[1] > 1 THEN OnLine(lines, cursor, cursor[1] - 1) ELSE cursor)
KeyDown ==
    MoveTo(IF cursor[1] < Len(lines) THEN OnLine(lines, cursor, cursor[1] + 1) ELSE cursor)
KeyHome == MoveTo(<<cursor[1], 0>>)
KeyEnd == MoveTo(<<cursor[1], Len(lines[cursor[1]])>>)

(* A page is a number of rows, and ends at the start of a row.             *)
Page(by) ==
    LET v == Max({1, Min({RowOf(visual, cursor) + by, Len(visual)})})
    IN  GoTo(<<visual[v].line, visual[v].off>>) /\ CancelShift

KeyPageUp == Page(-visible)
KeyPageDown == Page(visible)

ShiftDown ==
    /\ shiftHeld' = TRUE
    /\ UNCHANGED <<lines, cursor, anchor, head, hasSelection, shiftSelecting>>
    /\ UNCHANGED <<undo, scroll, width, mouse, clipboard>>

ShiftUp ==
    /\ shiftHeld' = FALSE /\ shiftSelecting' = FALSE
    /\ UNCHANGED <<lines, cursor, anchor, head, hasSelection>>
    /\ UNCHANGED <<undo, scroll, width, mouse, clipboard>>

(* A drag that leaves the window takes the focus away and goes on.         *)
FocusLost ==
    /\ shiftHeld' = FALSE
    /\ shiftSelecting' = (shiftSelecting /\ mouse = "drag")
    /\ UNCHANGED <<lines, cursor, anchor, head, hasSelection>>
    /\ UNCHANGED <<undo, scroll, width, mouse, clipboard>>

-----------------------------------------------------------------------------
(* Shortcuts (TypedShortcut).                                              *)

(* Mistake: Undo restores the text only.  CursorInText.                    *)
UndoText ==
    /\ undo # <<>>
    /\ lines' = Last(undo).lines /\ undo' = Front(undo)
    /\ hasSelection' = FALSE /\ shiftSelecting' = FALSE /\ shiftHeld' = FALSE
    /\ scroll' = Settled(scroll, lines', width)
    /\ UNCHANGED <<cursor, anchor, head, width, mouse, clipboard>>

(* Undo does not scroll to the cursor it restores.                         *)
Undo ==
    /\ undo # <<>>
    /\ lines' = Last(undo).lines /\ cursor' = Last(undo).cursor
    /\ undo' = Front(undo)
    /\ hasSelection' = FALSE /\ shiftSelecting' = FALSE /\ shiftHeld' = FALSE
    /\ scroll' = Settled(scroll, lines', width)
    /\ UNCHANGED <<anchor, head, width, mouse, clipboard>>

SelectAll ==
    /\ anchor' = <<1, 0>> /\ head' = EndOfText(lines) /\ hasSelection' = TRUE
    /\ UNCHANGED <<lines, cursor, shiftHeld, shiftSelecting>>
    /\ UNCHANGED <<undo, scroll, width, mouse, clipboard>>

Copy ==
    /\ hasSelection /\ clipboard' = Piece(lines, From, To)
    /\ UNCHANGED <<lines, cursor, selVars, undo, scroll, width, mouse>>

Cut ==
    /\ hasSelection /\ clipboard' = Piece(lines, From, To)
    /\ Commit(CutOut(lines, From, To), From) /\ SelectionReplaced
    /\ UNCHANGED <<width, mouse>>

Paste ==
    /\ clipboard # EmptyText
    /\ Replace(clipboard) /\ SelectionReplaced
    /\ UNCHANGED <<width, mouse, clipboard>>

-----------------------------------------------------------------------------
(* The mouse (tveInputLayer), the tab and the window.                      *)

(* What posFromPoint gives on the screen, and for a drag just outside.     *)
Pointed(ys) ==
    LET rows == visual
    IN  {PositionAt(rows, scroll, y, x) : y \in ys, x \in 0 .. width}
OnScreen == Pointed(0 .. Height)
NearScreen == Pointed(-1 .. Height + 1)

(* thumbBounds: there is a thumb when not all rows fit.                    *)
HasThumb == Len(visual) > Height

PressText(p) ==
    /\ mouse = "up" /\ mouse' = "text"
    /\ anchor' = p /\ head' = p /\ cursor' = p
    /\ hasSelection' = FALSE /\ shiftSelecting' = FALSE /\ shiftHeld' = FALSE
    /\ scroll' = Settled(scroll, lines, width)
    /\ UNCHANGED <<lines, undo, width, clipboard>>

PressScrollbar ==
    /\ mouse = "up"
    /\ mouse' \in IF HasThumb THEN {"track", "thumb"} ELSE {"track"}
    /\ UNCHANGED <<lines, cursor, selVars, undo, scroll, width, clipboard>>

EditorDragged(p) ==
    /\ mouse \in {"text", "track", "drag"} /\ mouse' = "drag"
    /\ head' = p /\ cursor' = p /\ hasSelection' = (anchor # p)
    /\ UNCHANGED <<anchor, shiftHeld, shiftSelecting>>
    /\ UNCHANGED <<lines, undo, scroll, width, clipboard>>

(* dragScrollbar reaches any offset; layoutContent cuts it down.           *)
EditorDragThumb(offset) ==
    /\ mouse = "thumb" /\ HasThumb
    /\ scroll' = Settled(offset, lines, width)
    /\ UNCHANGED <<lines, cursor, selVars, undo, width, mouse, clipboard>>

(* DragEnd and MouseUp *)
Release ==
    /\ mouse # "up" /\ mouse' = "up"
    /\ UNCHANGED <<lines, cursor, selVars, undo, scroll, width, clipboard>>

DoubleTapped(p) ==
    LET line == lines[p[1]]
        word == Word(line, Min({p[2], Len(line) - 1}))
    IN  /\ mouse = "up" /\ line # <<>>
        /\ anchor' = <<p[1], word[1]>> /\ head' = <<p[1], word[2]>>
        /\ cursor' = <<p[1], word[2]>> /\ hasSelection' = (word[1] # word[2])
        /\ UNCHANGED <<shiftHeld, shiftSelecting>>
        /\ UNCHANGED <<lines, undo, scroll, width, mouse, clipboard>>

EditorScrolled(by) ==
    /\ scroll' = Max({0, Min({scroll + by, ScrollLimit(visual, visible)})})
    /\ UNCHANGED <<lines, cursor, selVars, undo, width, mouse, clipboard>>

Resize(w) ==
    /\ width' = w /\ scroll' = Settled(scroll, lines, w)
    /\ UNCHANGED <<lines, cursor, selVars, undo, mouse, clipboard>>

SetText(text) ==
    /\ lines' = text /\ cursor' = <<1, 0>> /\ undo' = <<>> /\ scroll' = 0
    /\ hasSelection' = FALSE /\ shiftSelecting' = FALSE /\ shiftHeld' = FALSE
    /\ UNCHANGED <<anchor, head, width, mouse, clipboard>>

-----------------------------------------------------------------------------
(* layoutContent: the characters of a row that are drawn selected.  The    *)
(* selection is made of positions, the screen of rows.                     *)

(* Mistake: the rows after the first of a wrapped line are taken for lines *)
(* of their own.  RowsMatchPositions.                                      *)
HighlightedByLine(row, p, q) ==
    {c \in row.off .. row.off + row.len - 1 :
       /\ row.line \in p[1] .. q[1]
       /\ row.line = p[1] => c - row.off >= p[2]
       /\ row.line = q[1] => c - row.off < q[2]}

Highlighted(row, p, q) ==
    LET past == row.off + row.len
    IN  CASE p[1] < row.line /\ row.line < q[1] -> row.off .. past - 1
          [] p[1] = row.line /\ row.line = q[1] ->
               IF p[2] < past /\ q[2] > row.off
               THEN Max({p[2], row.off}) .. Min({q[2], past}) - 1 ELSE {}
          [] p[1] = row.line /\ row.line < q[1] -> Max({p[2], row.off}) .. past - 1
          [] p[1] < row.line /\ row.line = q[1] -> row.off .. Min({q[2], past}) - 1
          [] OTHER -> {}

-----------------------------------------------------------------------------
Typing ==
    /\ ~Stray
    /\ \/ \E ch \in Chars : TypedRune(ch)
       \/ KeyReturn \/ KeyBackspace \/ KeyDelete \/ KeyTab

Moving ==
    /\ ~Stray
    /\ \/ KeyLeft \/ KeyRight \/ KeyUp \/ KeyDown \/ KeyHome \/ KeyEnd
       \/ KeyPageUp \/ KeyPageDown

Clipping == ~Stray /\ (Copy \/ Cut \/ Paste)

Pointing ==
    \/ \E p \in OnScreen : PressText(p)
    \/ \E p \in NearScreen : EditorDragged(p)
    \/ PressScrollbar
    \/ ~Stray /\ Release

Scrolling ==
    \/ \E offset \in 0 .. Len(visual) - Height : EditorDragThumb(offset)
    \/ \E by \in {-1, 1} : EditorScrolled(by)

Shifting == ShiftDown \/ ShiftUp \/ FocusLost

Selecting == SelectAll \/ \E p \in OnScreen : DoubleTapped(p)

Tab ==
    \/ \E w \in Widths : Resize(w)
    \/ \E text \in Texts : SetText(text)

EditorNext ==
    \/ Typing /\ Comes("type")
    \/ Moving /\ Comes("move")
    \/ Clipping /\ Comes("clip")
    \/ Pointing /\ Comes("point")
    \/ Scrolling /\ Comes("scroll")
    \/ Shifting /\ Comes("shift")
    \/ Selecting /\ Comes("select")
    \/ Undo /\ Comes("undo")
    \/ Tab /\ Comes("tab")

-----------------------------------------------------------------------------
(* Properties.                                                             *)

(* The variables hold lines, positions, and a bounded stack of texts with  *)
(* a cursor inside each.                                                   *)
EditorTypeOK ==
    /\ lines \in AllTexts
    /\ {hasSelection, shiftHeld, shiftSelecting} \subseteq BOOLEAN
    /\ Len(undo) <= MaxUndo
    /\ \A i \in DOMAIN undo :
         undo[i].lines \in AllTexts /\ undo[i].cursor \in Positions(undo[i].lines)
    /\ scroll \in 0 .. ScrollLimit(visual, visible)
    /\ width \in Widths
    /\ mouse \in {"up", "text", "track", "thumb", "drag"}
    /\ clipboard \in AllTexts

(* After any sequence of edits, moves, clicks and undos the cursor and the *)
(* moving end of the selection are in the text, so that the next handler   *)
(* slices inside its lines; the anchor may be left behind, but except in a *)
(* drag its line is there, and selectedText only cuts down columns.        *)
CursorInText ==
    /\ cursor \in Positions(lines)
    /\ hasSelection => head \in Positions(lines)
    /\ hasSelection /\ mouse # "drag" => anchor[1] \in DOMAIN lines

(* What one edit does, one Undo takes back: the text only changes by       *)
(* putting the old one on the undo stack, or by taking the last one off    *)
(* it, or by SetText, which clears the stack.                              *)
EditsAreRecorded ==
    [][lines' # lines =>
         \/ undo' = <<>> /\ cursor' = <<1, 0>>
         \/ undo # <<>> /\ undo' = Front(undo) /\ lines' = Last(undo).lines
         \/ undo' # <<>> /\ Last(undo').lines = lines /\ Last(undo').cursor = cursor
      ]_editorVars

(* The rows cover the text without gap or overlap: every position is drawn *)
(* in one place, and a click there finds it again.                         *)
ClickFindsPosition ==
    LET rows == visual
    IN  \A p \in Positions(lines) :
          /\ rows[RowOf(rows, p)].line = p[1]
          /\ PositionAt(rows, RowOf(rows, p) - 1, 0, ColOf(rows, p)) = p

(* What is drawn as selected is what Copy, Cut and typing will take: on    *)
(* every row exactly the characters between the ends of the selection.     *)
HighlightIsSelection ==
    hasSelection /\ ~Stray =>
      LET rows == visual
      IN  \A v \in DOMAIN rows :
            Highlighted(rows[v], From, To)
              = {c \in rows[v].off .. rows[v].off + rows[v].len - 1 :
                   ~Before(<<rows[v].line, c>>, From) /\ Before(<<rows[v].line, c>>, To)}

(* What is on the screen and what is in the text stay in step, at the ends *)
(* of rows and lines too, whatever the width and wherever the edits were.  *)
RowsMatchPositions == ClickFindsPosition /\ HighlightIsSelection
=============================================================================
