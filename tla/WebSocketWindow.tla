-------------------------- MODULE WebSocketWindow --------------------------
(***************************************************************************)
(* The WebSocket window (internal/ui/websocket.go) over the relays that    *)
(* fill the store: a table of connections, the newest first, and the       *)
(* frames of the selected one.  A row is its connection's ID, and frames   *)
(* are known by the connection they are of.                                *)
(*                                                                         *)
(* Everything below but the queries runs on the main goroutine.  A query   *)
(* runs in a goroutine of its own, reads at one moment and lands at a      *)
(* later one, in any order with the others.  A watcher's callback is taken *)
(* together with its receive: in between, the notice would only wait in    *)
(* one more queue.                                                         *)
(*                                                                         *)
(* Opening the window again builds a new content with two new watchers;    *)
(* those of the contents before it stay, and take notices from the same    *)
(* channels.                                                               *)
(***************************************************************************)
EXTENDS WebSocketRelay

CONSTANTS
    Queries,        \* bound: the queries under way at one time
    NoQuery

ASSUME WindowAssumption == NoQuery \notin Queries

VARIABLES
    opened,     \* how often the window has been opened
    open,       \* wsWin # nil
    allConns,   \* the rows of the connection table
    selected,   \* selectedConnID
    shown,      \* the connection that allFrames are of
    query       \* the goroutines of the window that load something

windowVars == <<opened, open, allConns, selected, shown, query>>
vars       == <<relayVars, windowVars>>

(* What a query loads and, once it has read the tables, how many rows      *)
(* there were.                                                             *)
Asks(kind, conn) == [kind |-> kind, conn |-> conn, rows |-> 0, read |-> FALSE]

Init ==
    /\ RelayInit
    /\ opened = 0 /\ open = FALSE
    /\ allConns = <<>> /\ selected = 0 /\ shown = 0
    /\ query = [q \in Queries |-> NoQuery]

Go(kind, conn) ==
    \E q \in Queries : query[q] = NoQuery /\ query' = [query EXCEPT ![q] = Asks(kind, conn)]

(* The table of that many rows, the newest first. *)
AllWebSocketConnections(n) == [i \in 1 .. n |-> n + 1 - i]

Listed(id) == \E i \in 1 .. Len(allConns) : allConns[i] = id

-----------------------------------------------------------------------------
(* ListInOrder: the row of a notice may be there already. *)
ConnNoticePrepending ==
    /\ open /\ newConns # <<>>
    /\ newConns' = Tail(newConns)
    /\ allConns' = <<Head(newConns)>> \o allConns
    /\ UNCHANGED <<peerVars, handlerVars, pumpVars, rows, frames, newFrames, posted, opened, open,
                   selected, shown, query>>

-----------------------------------------------------------------------------
(* The window.                                                             *)

(* showWebSocketWindow: the variables are new, and the list is loaded.     *)
Open ==
    /\ ~open /\ opened < budget.opens
    /\ open' = TRUE /\ opened' = opened + 1
    /\ Go("initial", 0)
    /\ UNCHANGED <<relayVars, allConns, selected, shown>>

(* SetOnClosed.  What lands from now on lands in a content nobody sees, so *)
(* that the model forgets it.                                              *)
Close ==
    /\ open
    /\ open' = FALSE
    /\ allConns' = <<>> /\ selected' = 0 /\ shown' = 0
    /\ query' = [q \in Queries |-> NoQuery]
    /\ UNCHANGED <<relayVars, opened>>

Select(i) ==
    /\ open /\ i \in 1 .. Len(allConns)
    /\ selected' = allConns[i]
    /\ Go("frames", selected')
    /\ UNCHANGED <<relayVars, opened, open, allConns, shown>>

Refresh ==
    /\ open
    /\ Go("refresh", 0)
    /\ UNCHANGED <<relayVars, opened, open, allConns, selected, shown>>

-----------------------------------------------------------------------------
(* The queries.                                                            *)

(* It reads the tables, or fails, and that is only logged. *)
Query(q) ==
    /\ query[q] # NoQuery /\ ~query[q].read
    /\ \/ query' = [query EXCEPT ![q].read = TRUE, ![q].rows = Len(rows)]
       \/ query' = [query EXCEPT ![q] = NoQuery]
    /\ UNCHANGED <<relayVars, opened, open, allConns, selected, shown>>

LandConns(q) ==
    /\ query[q] # NoQuery /\ query[q].read /\ query[q].kind # "frames"
    /\ allConns' = AllWebSocketConnections(query[q].rows)
    /\ query' = [query EXCEPT ![q] =
                   IF query[q].kind = "refresh" /\ selected > 0 THEN Asks("frames", selected)
                   ELSE NoQuery]
    /\ UNCHANGED <<relayVars, opened, open, selected, shown>>

(* Whatever is selected by now. *)
LandFrames(q) ==
    /\ query[q] # NoQuery /\ query[q].read /\ query[q].kind = "frames"
    /\ shown' = query[q].conn
    /\ query' = [query EXCEPT ![q] = NoQuery]
    /\ UNCHANGED <<relayVars, opened, open, allConns, selected>>

-----------------------------------------------------------------------------
(* The watchers.                                                           *)

ConnNotice ==
    /\ open /\ newConns # <<>>
    /\ newConns' = Tail(newConns)
    /\ allConns' = IF Listed(Head(newConns)) THEN allConns
                   ELSE <<Head(newConns)>> \o allConns
    /\ UNCHANGED <<peerVars, handlerVars, pumpVars, rows, frames, newFrames, posted, opened, open,
                   selected, shown, query>>

FrameNotice ==
    /\ open /\ newFrames # <<>>
    /\ newFrames' = Tail(newFrames)
    /\ IF Head(newFrames) = selected THEN Go("frames", selected) ELSE UNCHANGED query
    /\ UNCHANGED <<peerVars, handlerVars, pumpVars, rows, frames, newConns, posted, opened, open,
                   allConns, selected, shown>>

(* A watcher of a content that is closed takes the notice. *)
TakenByOld ==
    /\ opened > IF open THEN 1 ELSE 0
    /\ \/ newConns # <<>> /\ newConns' = Tail(newConns) /\ UNCHANGED newFrames
       \/ newFrames # <<>> /\ newFrames' = Tail(newFrames) /\ UNCHANGED newConns
    /\ UNCHANGED <<peerVars, handlerVars, pumpVars, rows, frames, posted, windowVars>>

Watch == ConnNotice \/ FrameNotice \/ TakenByOld

WindowNext ==
    \/ Open \/ Close \/ Refresh
    \/ \E i \in 1 .. Len(allConns) : Select(i)
    \/ \E q \in Queries : Query(q) \/ LandConns(q) \/ LandFrames(q)
    \/ Watch

Next ==
    \/ RelayNext /\ UNCHANGED windowVars
    \/ WindowNext

Spec == Init /\ [][Next]_vars

(* The relays run; of the window nothing is needed. *)
FairSpec == Spec /\ RelayFairness

-----------------------------------------------------------------------------
(* Properties.                                                             *)

(* A row of the window is a row of the table. *)
TypeOK ==
    /\ RelayTypeOK
    /\ opened \in 0 .. budget.opens /\ open \in BOOLEAN
    /\ allConns \in Seq(1 .. Len(rows))
    /\ selected \in 0 .. Len(rows)
    /\ shown \in 0 .. Len(rows)
    /\ \A q \in Queries : query[q] # NoQuery =>
         /\ query[q].kind \in {"initial", "refresh", "frames"}
         /\ query[q].conn \in 0 .. Len(rows) /\ query[q].rows \in 0 .. Len(rows)

(* The handler of row a told the window before that of row b did. *)
PostedBefore(a, b) == \E i, j \in 1 .. Len(posted) : i < j /\ posted[i] = a /\ posted[j] = b

(* Connections are listed once and the newest first, in whichever order    *)
(* their notices, the initial load and the answers of Refresh arrive, and  *)
(* although a late answer may take rows away again.  The exception is a    *)
(* row whose handler was overtaken between its write and its notice by the *)
(* handler of a newer row: it goes above that one.                         *)
ListInOrder ==
    \A i, j \in 1 .. Len(allConns) : i < j =>
      \/ allConns[i] > allConns[j]
      \/ allConns[i] < allConns[j] /\ PostedBefore(allConns[j], allConns[i])
=============================================================================
