---------------------------- MODULE MCWorkbench ----------------------------
(***************************************************************************)
(* Model checking of the Loot tab and the Repeater in one window.          *)
(***************************************************************************)
EXTENDS Workbench

Inputs == {"plugin", "forget", "tap", "arrow", "wheel", "thumb", "divider", "delete", "menu", "add",
           "view", "tab", "close", "reopen", "edit", "send", "arrows", "socket", "connect", "frame",
           "peer"}

Only(some) == some @@ [i \in Inputs |-> 0]

MCWidths == <<3, 2, 1>>
MCMin == <<1, 1, 1>>

MCStored ==
    { [id |-> 1, severity |-> 1, transaction |-> 1, raw |-> FALSE],
      [id |-> 2, severity |-> 2, transaction |-> 0, raw |-> TRUE] }

MCSessions ==
    { Only([plugin |-> 2, tap |-> 1, delete |-> 1]),
      Only([plugin |-> 2, menu |-> 1]),
      Only([plugin |-> 1, add |-> 1, tap |-> 1, delete |-> 1]),
      Only([add |-> 1, tap |-> 1, view |-> 1, forget |-> 1]),
      Only([add |-> 1, menu |-> 2, forget |-> 1]),
      Only([plugin |-> 2, wheel |-> 1, arrow |-> 1, tap |-> 1]),
      Only([plugin |-> 2, thumb |-> 1, tap |-> 1]),
      Only([divider |-> 4]),
      Only([tab |-> 3, close |-> 2, reopen |-> 1]),
      Only([tab |-> 1, edit |-> 2, send |-> 3, arrows |-> 2]),
      Only([tab |-> 2, edit |-> 1, send |-> 2, close |-> 1]),
      Only([tab |-> 1, socket |-> 1, connect |-> 3, peer |-> 2, frame |-> 1]),
      Only([socket |-> 2, connect |-> 2, frame |-> 1, peer |-> 1, close |-> 1, reopen |-> 1]),
      Only([socket |-> 1, connect |-> 1, frame |-> 3, peer |-> 2]) }
=============================================================================
