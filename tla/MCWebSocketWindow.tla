------------------------- MODULE MCWebSocketWindow -------------------------
(***************************************************************************)
(* Model checking of WebSocketWindow.  The project already has a           *)
(* connection of an earlier session.  Four cases: two frames each way on   *)
(* one connection, of which one is large; two connections at a time; a     *)
(* frame while the window is used, closed and opened again; two            *)
(* connections that come while it loads and refreshes its list.            *)
(***************************************************************************)
EXTENDS WebSocketWindow

CONSTANTS c1, c2

Sends(ofC1, ofC2) == [c \in Conns |-> IF c = c1 THEN ofC1 ELSE ofC2]
Frames(b, s)      == [side \in Sides |-> IF side = "browser" THEN b ELSE s]

SomeBudgets ==
    {[asks |-> {c1}, limit |-> Sends(Frames(2, 2), Frames(0, 0)),
      large |-> {<<c1, "browser", 1>>}, leave |-> Sides, opens |-> 0],
     [asks |-> {c1, c2}, limit |-> Sends(Frames(1, 0), Frames(0, 0)), large |-> {},
      leave |-> Sides, opens |-> 0],
     [asks |-> {c1}, limit |-> Sends(Frames(1, 0), Frames(0, 0)), large |-> {},
      leave |-> {}, opens |-> 2],
     [asks |-> {c1, c2}, limit |-> Sends(Frames(0, 0), Frames(0, 0)), large |-> {},
      leave |-> {}, opens |-> 1]}
=============================================================================
