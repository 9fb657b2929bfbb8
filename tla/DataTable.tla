----------------------------- MODULE DataTable -----------------------------
(***************************************************************************)
(* ui/widgets/datatable.go: a table that draws the rows its owner has now  *)
(* (RowCount, CellValue and RowID ask the owner each time), with a         *)
(* highlight, a scroll offset and columns that can be resized.             *)
(*                                                                         *)
(* A row index counts from 0, as in the code; row i is rows[i + 1].  A     *)
(* click selects by index and highlights by id, and the two part when the  *)
(* owner replaces its rows.  An owner adds to Tapped what its OnSelect     *)
(* does.  OnNearBottom belongs to the history (HistoryTab.LoadNextPage).   *)
(***************************************************************************)
EXTENDS UserInput, SequencesExt

CONSTANTS
    BodyRows,       \* whole rows that fit below the header
    TableWidth,     \* width of the table less its scrollbar
    ColumnWidths,   \* the widths the columns begin with
    ColumnMin       \* the width of each column's header

VARIABLES
    rows,           \* the owner's rows, records with a field id
    selectedID,     \* the highlighted row, 0 for none
    selectedRow,    \* the index it had when it was selected
    scrollOffset,   \* the first row drawn
    draggingThumb,  \* the button went down on the scrollbar's thumb
    colWidths

tableVars == <<rows, selectedID, selectedRow, scrollOffset, draggingThumb, colWidths>>

Columns == DOMAIN ColumnWidths

ASSUME TableAssumption ==
    /\ BodyRows \in Nat /\ TableWidth \in Nat
    /\ ColumnWidths \in Seq(Nat) /\ ColumnMin \in [Columns -> Nat]
    /\ \A c \in Columns : ColumnMin[c] <= ColumnWidths[c]

Least(a, b) == IF a < b THEN a ELSE b
Greatest(a, b) == IF a < b THEN b ELSE a

TableInit(initial) ==
    /\ rows = initial /\ selectedID = 0 /\ selectedRow = 0 /\ scrollOffset = 0
    /\ draggingThumb = FALSE /\ colWidths = ColumnWidths

-----------------------------------------------------------------------------
(* Rows.                                                                   *)

(* One row may be cut at the end, and one more is drawn below it.          *)
VisibleSlots == BodyRows + 2

(* rowAtY of the places a row is drawn at.                                 *)
RowsAtY == {row \in scrollOffset .. scrollOffset + VisibleSlots - 1 : row < Len(rows)}

(* tappedRow, less OnSelect.                                               *)
Tapped(row) ==
    /\ selectedID' = rows[row + 1].id /\ selectedRow' = row
    /\ UNCHANGED <<rows, draggingThumb, colWidths>>

(* Tapped: a click on a row. *)
TapRow(row) ==
    /\ Comes("tap")
    /\ row \in RowsAtY
    /\ Tapped(row) /\ UNCHANGED scrollOffset

(* ScrollToRow. *)
OffsetFor(row) ==
    Greatest(0, CASE row < scrollOffset                  -> row
                  [] row >= scrollOffset + VisibleSlots  -> row - VisibleSlots + 1
                  [] OTHER                               -> scrollOffset)

(* TypedKey: an arrow key goes on from the index, not from the highlight.  *)
ArrowKey(row) ==
    /\ Comes("arrow")
    /\ selectedID # 0 /\ rows # <<>>
    /\ \E step \in {-1, 1} :
          row = Least(Greatest(selectedRow + step, 0), Len(rows) - 1)
    /\ row # selectedRow
    /\ scrollOffset' = OffsetFor(row)
    /\ Tapped(row)

(* Scrolled: the wheel, by one row or several.                             *)
Scrolled ==
    /\ Comes("wheel")
    /\ \E step \in {-2, -1, 1, 2} :
          scrollOffset' = Least(Greatest(scrollOffset + step, 0),
                                Greatest(Len(rows) - VisibleSlots, 0))
    /\ UNCHANGED <<rows, selectedID, selectedRow, draggingThumb, colWidths>>

(* MouseDown on the thumb, which is there when the rows do not fit.        *)
PressThumb ==
    /\ Comes("thumb")
    /\ Len(rows) > BodyRows
    /\ draggingThumb' = TRUE
    /\ UNCHANGED <<rows, selectedID, selectedRow, scrollOffset, colWidths>>

(* Dragged: any offset there is by now, the last rows at the top included. *)
DragThumb ==
    /\ draggingThumb /\ Len(rows) > BodyRows
    /\ scrollOffset' \in 0 .. Len(rows) - BodyRows
    /\ UNCHANGED <<rows, selectedID, selectedRow, draggingThumb, colWidths, left>>

(* MouseUp, DragEnd. *)
ReleaseThumb ==
    /\ draggingThumb /\ draggingThumb' = FALSE
    /\ UNCHANGED <<rows, selectedID, selectedRow, scrollOffset, colWidths, left>>

-----------------------------------------------------------------------------
(* Columns.                                                                *)

Total(widths) ==
    LET sum[i \in 0 .. Len(widths)] == IF i = 0 THEN 0 ELSE sum[i - 1] + widths[i]
    IN  sum[Len(widths)]

(* Mistake: the neighbour gives what is asked of it. ColumnsFit            *)
Widened_NoLimit(c, delta) ==
    LET free  == Greatest(0, TableWidth - Total(colWidths))
        taken == IF delta > free THEN delta - free ELSE Least(delta, 0)
    IN  [colWidths EXCEPT ![c] = @ + delta, ![c + 1] = @ - taken]

(* colDivider.Dragged to the right by delta, once it is limited to what    *)
(* column c may do.  The width comes from what is free behind the last     *)
(* column, then from the neighbour down to its header; to the left, all of *)
(* it goes to the neighbour.                                               *)
Widened(c, delta) ==
    LET free  == Greatest(0, TableWidth - Total(colWidths))
        taken == IF delta > free
                 THEN Least(delta - free, colWidths[c + 1] - ColumnMin[c + 1])
                 ELSE Least(delta, 0)
    IN  [colWidths EXCEPT ![c] = @ + (IF delta > free THEN free + taken ELSE delta),
                          ![c + 1] = @ - taken]

DragDivider ==
    /\ Comes("divider")
    /\ \E c \in Columns \ {Len(ColumnWidths)}, move \in -TableWidth .. TableWidth :
          LET delta == Greatest(move, ColumnMin[c] - colWidths[c])
          IN  delta # 0 /\ colWidths' = Widened(c, delta)
    /\ UNCHANGED <<rows, selectedID, selectedRow, scrollOffset, draggingThumb>>

(* What a table does that its owner does not hear of. *)
TableNext == Scrolled \/ PressThumb \/ DragThumb \/ ReleaseThumb \/ DragDivider

(* No sequence of drags makes a column narrower than its header, or the    *)
(* table wider than it was and than the window: the divider that would     *)
(* bring a column back is never out of reach.                              *)
ColumnsFit ==
    /\ \A c \in Columns : colWidths[c] >= ColumnMin[c]
    /\ Total(colWidths) <= Greatest(TableWidth, Total(ColumnWidths))
=============================================================================
