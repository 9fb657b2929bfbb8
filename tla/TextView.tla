------------------------------ MODULE TextView ------------------------------
(***************************************************************************)
(* The read-only viewer of requests and responses                          *)
(* (internal/ui/widgets/textview.go, parseAndWrap and wrapTokens of        *)
(* tokeniser.go).                                                          *)
(*                                                                         *)
(* SetText does not wrap the text itself: a goroutine does, and its result *)
(* comes back as a fyne.Do callback.  Until then the rows on the screen,   *)
(* and the selection, which is made in rows, belong to an older text or an *)
(* older width.  SetText starts no second goroutine while one is under     *)
(* way; a change of the width does, and outdates the first by view.gen.    *)
(*                                                                         *)
(* rawFull and pendingText are set together and are one variable here.     *)
(* Str is a character of a JSON string; the strings of a line are          *)
(* separated by other characters.  Http begins a word with HTTP/ in front. *)
(***************************************************************************)
EXTENDS TextWidget, FiniteSets

CONSTANTS
    ViewTexts,  \* texts the tabs show; "" is one of them
    Sizes,      \* widths of the text area, in pixels
    CharWidth,  \* pixels per character
    Slack       \* a change of the width up to this (4) does not wrap anew

ASSUME ViewAssumption ==
    /\ EmptyText \in ViewTexts /\ ViewTexts \subseteq AllTexts
    /\ CharWidth \in Nat \ {0} /\ Slack \in Nat
    /\ Sizes \subseteq Nat /\ \A px \in Sizes : px >= CharWidth

VARIABLES
    full,       \* rawFull and pendingText
    drawn,      \* lines: the rows on the screen, a sequence of lines
    wrapWidth,  \* lastWrapWidth, 0 before the first layout
    gen, processing,
    parses,     \* the goroutines of startProcessing not yet landed
    asked,      \* history: the width given to the last of them
    offset,     \* scrollOffset
    start, end, \* selAnchorLine, selAnchorCol; selLine, selCol
    selected,   \* hasSelection
    pressed,    \* the mouse button is down
    crashed     \* an index out of range ended the program

viewSel == <<start, end, selected>>
parseVars == <<drawn, gen, processing, parses, asked>>
viewVars == <<full, wrapWidth, parseVars, offset, viewSel, pressed, crashed>>

ViewInit ==
    /\ full = EmptyText /\ drawn = <<>> /\ wrapWidth = 0
    /\ gen = 0 /\ processing = FALSE /\ parses = {} /\ asked = 0
    /\ offset = 0 /\ start = <<1, 0>> /\ end = <<1, 0>> /\ selected = FALSE
    /\ pressed = FALSE /\ crashed = FALSE

-----------------------------------------------------------------------------
(* Wrapping.                                                               *)

Str == "j"
Http == "H"

(* Where the row ends that begins after the first off characters: a string *)
(* is not split, it begins a new row and makes that row longer if it must. *)
RowEnd(line, off, width) ==
    LET cut == Min({off + width, Len(line)})
        inString == cut < Len(line) /\ line[cut] = Str /\ line[cut + 1] = Str
        begin == Min({s \in 0 .. cut : \A i \in s + 1 .. cut : line[i] = Str})
        fin == Max({e \in cut .. Len(line) : \A i \in cut + 1 .. e : line[i] = Str})
    IN  IF ~inString THEN cut ELSE IF begin > off THEN begin ELSE fin

(* wrapTokens: an empty line has no row at all.                            *)
WrappedLine(line, width) ==
    LET from[off \in 0 .. Len(line)] ==
          IF off = Len(line) THEN <<>>
          ELSE << SubSeq(line, off + 1, RowEnd(line, off, width)) >>
               \o from[RowEnd(line, off, width)]
    IN  from[0]

(* tokeniseFirstLine: a request line, of three words or more, and a status *)
(* line, of HTTP/ and one word or more, are put together anew, with single *)
(* blanks and none at the ends.                                            *)
Squeezed(line) ==
    FlattenSeq([i \in DOMAIN line |->
      IF \/ line[i] # Blank
         \/ i > 1 /\ line[i - 1] # Blank /\ \E k \in i .. Len(line) : line[k] # Blank
      THEN << line[i] >> ELSE <<>>])

FirstLine(line) ==
    LET words == {i \in DOMAIN line : line[i] # Blank /\ (i = 1 \/ line[i - 1] = Blank)}
    IN  IF \/ Cardinality(words) > 2
           \/ Cardinality(words) = 2 /\ line[Min(words)] = Http
        THEN Squeezed(line) ELSE line

(* tokeniseHTTPMeta and tokeniseBody: what the tokens of a line hold of it. *)
Tokenised(text, l) == IF l = 1 THEN FirstLine(text[1]) ELSE text[l]

(* The line that ends the headers: the first blank one but the first line. *)
IsBlank(line) == \A i \in DOMAIN line : line[i] = Blank
EndsHeaders(text, l) ==
    /\ l > 1 /\ IsBlank(text[l])
    /\ \A k \in 2 .. l - 1 : ~IsBlank(text[k])

(* parseAndWrap *)
Wrapped(text, px) ==
    IF text = EmptyText THEN <<>>
    ELSE FlattenSeq([l \in DOMAIN text |->
           IF EndsHeaders(text, l) THEN << <<>> >>
           ELSE WrappedLine(Tokenised(text, l), px \div CharWidth)])

-----------------------------------------------------------------------------
(* Texts, widths and results.                                              *)

startProcessing(text, px, landed) ==
    /\ gen' = gen + 1 /\ processing' = TRUE /\ asked' = px
    /\ parses' = (parses \ landed) \cup {[gen |-> gen + 1, text |-> text, px |-> px]}

ViewSetText(text) ==
    /\ full' = text /\ offset' = 0 /\ selected' = FALSE
    /\ IF processing \/ wrapWidth = 0 THEN UNCHANGED <<gen, processing, parses, asked>>
       ELSE startProcessing(text, wrapWidth, {})
    /\ UNCHANGED <<drawn, wrapWidth, start, end, pressed, crashed, clipboard>>

(* Layout and checkWrapWidth: the width is remembered even when the text   *)
(* is not wrapped anew.                                                    *)
Layout(px) ==
    LET far == wrapWidth - px > Slack \/ px - wrapWidth > Slack \/ wrapWidth = 0
    IN  /\ px # wrapWidth /\ wrapWidth' = px
        /\ IF full # EmptyText /\ far THEN startProcessing(full, px, {})
           ELSE UNCHANGED <<gen, processing, parses, asked>>
        /\ UNCHANGED <<full, drawn, offset, viewSel, pressed, crashed, clipboard>>

(* Mistake: the generation is not looked at.  ShownIsText.                 *)
LandAnyway(p) ==
    /\ p \in parses
    /\ drawn' = Wrapped(p.text, p.px)
    /\ IF full # p.text /\ full # EmptyText
       THEN startProcessing(full, wrapWidth, {p})
       ELSE /\ processing' = FALSE /\ parses' = parses \ {p}
            /\ UNCHANGED <<gen, asked>>
    /\ UNCHANGED <<full, wrapWidth, offset, viewSel, pressed, crashed, clipboard, left>>

(* Mistake: what was set meanwhile is forgotten.  LastTextLands.           *)
LandLast(p) ==
    /\ p \in parses /\ parses' = parses \ {p}
    /\ drawn' = IF p.gen = gen THEN Wrapped(p.text, p.px) ELSE drawn
    /\ processing' = (processing /\ p.gen # gen)
    /\ UNCHANGED <<gen, asked, full, wrapWidth, offset, viewSel, pressed, crashed,
                   clipboard, left>>

(* The callback of a goroutine.  An outdated one does nothing; else what   *)
(* was set meanwhile is wrapped next, unless it is "".                     *)
Land(p) ==
    /\ p \in parses
    /\ IF p.gen # gen
       THEN /\ parses' = parses \ {p} /\ UNCHANGED <<drawn, gen, processing, asked>>
       ELSE /\ drawn' = Wrapped(p.text, p.px)
            /\ IF full # p.text /\ full # EmptyText
               THEN startProcessing(full, wrapWidth, {p})
               ELSE /\ processing' = FALSE /\ parses' = parses \ {p}
                    /\ UNCHANGED <<gen, asked>>
    /\ UNCHANGED <<full, wrapWidth, offset, viewSel, pressed, crashed, clipboard, left>>

-----------------------------------------------------------------------------
(* The mouse, the keys and the scrollbar.                                  *)

(* posFromPoint: the ends of the rows on the screen, and just outside.     *)
RowAt(y) == Max({1, Min({offset + y + 1, Len(drawn)})})
PointAt(y, x) == IF drawn = <<>> THEN <<1, 0>>
                 ELSE <<RowAt(y), Min({x, Len(drawn[RowAt(y)])})>>
Points == {PointAt(y, x) : y \in -1 .. Height, x \in 0 .. wrapWidth \div CharWidth}

viewRest == <<full, wrapWidth, parseVars, crashed>>

ViewPressText(p) ==
    /\ ~pressed /\ pressed' = TRUE
    /\ start' = p /\ end' = p /\ selected' = FALSE
    /\ UNCHANGED <<viewRest, offset, clipboard>>

ViewPressScrollbar ==
    /\ ~pressed /\ pressed' = TRUE
    /\ UNCHANGED <<viewRest, offset, viewSel, clipboard>>

ViewDragged(p) ==
    /\ pressed /\ end' = p /\ selected' = (start # p)
    /\ UNCHANGED <<viewRest, offset, start, pressed, clipboard>>

ViewRelease ==
    /\ pressed /\ pressed' = FALSE
    /\ UNCHANGED <<viewRest, offset, viewSel, clipboard>>

ViewDoubleTapped(p) ==
    LET line == drawn[p[1]]
        word == Word(line, Min({p[2], Len(line) - 1}))
    IN  /\ ~pressed /\ drawn # <<>> /\ line # <<>>
        /\ start' = <<p[1], word[1]>> /\ end' = <<p[1], word[2]>>
        /\ selected' = (word[1] # word[2])
        /\ UNCHANGED <<viewRest, offset, pressed, clipboard>>

ViewSelectAll ==
    /\ start' = <<1, 0>> /\ selected' = TRUE
    /\ end' = IF drawn = <<>> THEN <<1, 0>> ELSE EndOfText(drawn)
    /\ UNCHANGED <<viewRest, offset, pressed, clipboard>>

ViewFocusLost ==
    /\ selected' = FALSE
    /\ UNCHANGED <<viewRest, offset, start, end, pressed, clipboard>>

(* selectedText on rows that may have become fewer since the selection was *)
(* made: a selection within one row is not checked against them.           *)
OutOfRange(p, q) == p[1] = q[1] /\ p[1] > Len(drawn)

CopiedRows(p, q) ==
    IF p[1] > Len(drawn) THEN EmptyText
    ELSE IF q[1] > Len(drawn) THEN Piece(Append(drawn, <<>>), p, <<Len(drawn) + 1, 0>>)
    ELSE Piece(drawn, p, OnLine(drawn, q, q[1]))

ViewCopy ==
    LET p == Earlier(start, end)
        q == Later(start, end)
    IN  /\ selected
        /\ IF OutOfRange(p, q) THEN crashed' = TRUE /\ UNCHANGED clipboard
           ELSE clipboard' = CopiedRows(p, q) /\ UNCHANGED crashed
        /\ UNCHANGED <<full, wrapWidth, parseVars, offset, viewSel, pressed>>

ViewScrolled(by) ==
    /\ offset' = Max({0, Min({offset + by, ScrollLimit(drawn, Height)})})
    /\ UNCHANGED <<viewRest, viewSel, pressed, clipboard>>

ViewDragThumb(to) ==
    /\ Len(drawn) > Height /\ offset' = to
    /\ UNCHANGED <<viewRest, viewSel, pressed, clipboard>>

-----------------------------------------------------------------------------
ViewInput ==
    \/ \E text \in ViewTexts : ViewSetText(text) /\ Comes("show")
    \/ \E px \in Sizes : Layout(px) /\ Comes("layout")
    \/ /\ \/ \E p \in Points : ViewPressText(p) \/ ViewDragged(p)
          \/ ViewPressScrollbar \/ ViewRelease
       /\ Comes("press")
    \/ /\ \/ \E p \in Points : ViewDoubleTapped(p)
          \/ ViewSelectAll \/ ViewFocusLost
       /\ Comes("mark")
    \/ ViewCopy /\ Comes("copy")
    \/ /\ \/ \E by \in {-1, 1} : ViewScrolled(by)
          \/ \E to \in 0 .. Len(drawn) - Height : ViewDragThumb(to)
       /\ Comes("wheel")

ViewLand == ~crashed /\ \E p \in parses : Land(p)

ViewNext == ViewLand \/ (~crashed /\ ViewInput)

-----------------------------------------------------------------------------
(* Properties.                                                             *)

(* The variables have the types of the fields; no goroutine is newer than  *)
(* view.gen.                                                               *)
ViewTypeOK ==
    /\ full \in ViewTexts /\ wrapWidth \in Sizes \cup {0}
    /\ {processing, selected, pressed, crashed} \subseteq BOOLEAN
    /\ \A p \in parses : p.gen \in 1 .. gen /\ p.text \in ViewTexts /\ p.px \in Sizes
    /\ offset \in Nat

AtRest == ~processing /\ wrapWidth > 0 /\ full # EmptyText

(* Wrapping loses no character of the text but the superfluous blanks of   *)
(* its first line and the line that ends the headers, and a row is longer  *)
(* than the width only for one JSON string.                                *)
RowsHoldText ==
    AtRest =>
      /\ FlattenSeq(drawn) = FlattenSeq([l \in DOMAIN full |->
                               IF EndsHeaders(full, l) THEN <<>> ELSE Tokenised(full, l)])
      /\ \A i \in DOMAIN drawn :
           \/ Len(drawn[i]) <= asked \div CharWidth
           \/ \A c \in DOMAIN drawn[i] : drawn[i][c] = Str

(* When nothing is under way, the screen shows the last text, tokenised    *)
(* and wrapped for the last width that asked for it, with all of its rows, *)
(* whatever order texts, widths and results came in.                       *)
ShownIsText == (AtRest => drawn = Wrapped(full, asked)) /\ RowsHoldText

(* The last text set on a laid out viewer is shown in the end, unless it   *)
(* is "" or another one follows.                                           *)
LastTextLands ==
    \A text \in ViewTexts \ {EmptyText} :
      full = text /\ wrapWidth > 0 ~>
        full # text \/ crashed \/ (asked > 0 /\ drawn = Wrapped(text, asked))
=============================================================================
