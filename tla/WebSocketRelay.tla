--------------------------- MODULE WebSocketRelay ---------------------------
(***************************************************************************)
(* A WebSocket connection through the proxy (internal/proxy/websocket.go)  *)
(* and its log (internal/store/websocket.go).                              *)
(*                                                                         *)
(* The handler dials the server, upgrades the browser's connection, has    *)
(* the store log the connection, and starts two pumps: each reads the      *)
(* frames of one side, passes every frame through the bus, and writes what *)
(* the bus returned to the other side.  On the bus the store comes before  *)
(* the plugin engine (main.go).  A write to the store and the notice of it *)
(* to the window are two steps of the goroutine that logs.                 *)
(*                                                                         *)
(* A frame is its number among those of its side, and its payload is as it *)
(* came or as a plugin rewrote it, and whole or cut.  The peers, browser   *)
(* and server, are external: they send their frames whenever they like (a  *)
(* frame that is read late may have come early), and they go away.         *)
(***************************************************************************)
EXTENDS Naturals, Sequences

CONSTANTS
    Conns,      \* the WebSocket upgrades browsers ask for
    Budgets,    \* bounds: which upgrades are asked for, how many frames their
                \*   sides have to send, which of these are longer than
                \*   wsFrameSizeLimit, which peers leave, how often the window
                \*   is opened
    NoticeCap,  \* capacity of the store's channels (project.go: 256)
    Earlier,    \* stands for the connections of earlier sessions of the project,
    OldRows     \* of which the table has that many

Sides    == {"browser", "server"}
Payloads == {"original", "altered"}
Other(s) == IF s = "browser" THEN "server" ELSE "browser"

ASSUME RelayAssumption ==
    /\ Budgets \subseteq [asks : SUBSET Conns, limit : [Conns -> [Sides -> Nat]],
                            large : SUBSET (Conns \X Sides \X Nat), leave : SUBSET Sides,
                            opens : Nat]
    /\ NoticeCap \in Nat \ {0}
    /\ Earlier \notin Conns /\ OldRows \in Nat

VARIABLES
    budget,     \* the budget of this behaviour
    stage,      \* how far the handler of each connection is
    connID,     \* what EmitWebSocketConnection returned; 0: not tracked
    gone,       \* whether the peer of each side is gone,
    closed,     \*   whether the proxy has closed its end,
    taken,      \*   and how many of its frames ReadMessage has returned
    pump,       \* where the goroutine that reads each side is,
    carries,    \*   and the payload it has in hand
    out,        \* what it has written to the other side
    rows,       \* table websocket_connections; an ID is a position
    frames,     \* table websocket_frames
    newConns,   \* s.WebSocketConnections
    newFrames,  \* s.WebSocketFrames
    posted      \* history: the rows in the order of their notices

peerVars    == <<budget, gone>>
handlerVars == <<stage, connID, closed>>
pumpVars    == <<taken, pump, carries, out>>
storeVars   == <<rows, frames, newConns, newFrames, posted>>
relayVars   == <<peerVars, handlerVars, pumpVars, storeVars>>

At(f, c, s, v) == [f EXCEPT ![c][s] = v]
Everywhere(v)  == [c \in Conns |-> [s \in Sides |-> v]]

RelayInit ==
    /\ budget \in Budgets
    /\ stage = [c \in Conns |-> IF c \in budget.asks THEN "asked" ELSE "none"]
    /\ connID = [c \in Conns |-> 0]
    /\ gone = Everywhere(FALSE) /\ closed = Everywhere(FALSE) /\ taken = Everywhere(0)
    /\ pump = Everywhere("idle") /\ carries = Everywhere("original")
    /\ out = Everywhere(<<>>)
    /\ rows = [i \in 1 .. OldRows |-> Earlier]
    /\ frames = <<>> /\ newConns = <<>> /\ newFrames = <<>> /\ posted = <<>>

(* A select with a default: a full channel loses the notice.               *)
Notify(queue, notice) == IF Len(queue) < NoticeCap THEN Append(queue, notice) ELSE queue

(* The deferred Close calls, and those of handleConnect around them. *)
Leave(c, how) ==
    /\ stage' = [stage EXCEPT ![c] = how]
    /\ closed' = [closed EXCEPT ![c] = [s \in Sides |-> TRUE]]

-----------------------------------------------------------------------------
(* Mistakes, one per property.                                             *)

(* FramesKept: a new bufio.Reader over the connection loses what the old*)
(* one has read ahead.                                                     *)
UpgradeDiscarding(c) ==
    /\ stage[c] = "dialled"
    /\ \/ /\ stage' = [stage EXCEPT ![c] = "upgraded"]
          /\ \E n \in 0 .. budget.limit[c]["browser"] : taken' = At(taken, c, "browser", n)
          /\ UNCHANGED closed
       \/ Leave(c, "refused") /\ UNCHANGED taken
    /\ UNCHANGED <<connID, peerVars, pump, carries, out, storeVars>>

(* SessionEnds: a pump that cannot read leaves the other side open. *)
ReadFailsSilently(c, s) ==
    /\ pump[c][s] = "read"
    /\ gone[c][s] \/ closed[c][s] \/ taken[c][s] < budget.limit[c][s]
    /\ pump' = At(pump, c, s, "done")
    /\ UNCHANGED <<peerVars, handlerVars, taken, carries, out, storeVars>>

-----------------------------------------------------------------------------
(* The peers.                                                              *)

(* A close frame, a broken connection, or the deadline that closeAllConns  *)
(* sets on the browser's connection.                                       *)
GoAway(c, s) ==
    /\ stage[c] \notin {"none", "over", "refused"} /\ (s = "server" => stage[c] # "asked")
    /\ ~gone[c][s] /\ s \in budget.leave
    /\ gone' = At(gone, c, s, TRUE)
    /\ UNCHANGED <<budget, handlerVars, pumpVars, storeVars>>

-----------------------------------------------------------------------------
(* handleWebSocketTLS.                                                     *)

Dial(c) ==
    /\ stage[c] = "asked"
    /\ \/ stage' = [stage EXCEPT ![c] = "dialled"] /\ UNCHANGED closed
       \/ Leave(c, "refused")       \* writeWSError
    /\ UNCHANGED <<connID, peerVars, pumpVars, storeVars>>

(* Hijack hands the reader over with the bytes it has read ahead. *)
Upgrade(c) ==
    /\ stage[c] = "dialled"
    /\ \/ stage' = [stage EXCEPT ![c] = "upgraded"] /\ UNCHANGED closed
       \/ Leave(c, "refused")
    /\ UNCHANGED <<connID, peerVars, pumpVars, storeVars>>

StartPumps(c) ==
    /\ stage' = [stage EXCEPT ![c] = "relay"]
    /\ pump' = [pump EXCEPT ![c] = [s \in Sides |-> "read"]]

(* The row; or an error, with the row (LastInsertId) or without it: then   *)
(* the connection is relayed without being tracked.                        *)
LogWebSocketConnection(c) ==
    /\ stage[c] = "upgraded"
    /\ \/ /\ rows' = Append(rows, c)
          /\ connID' = [connID EXCEPT ![c] = Len(rows')]
          /\ stage' = [stage EXCEPT ![c] = "logged"]
          /\ UNCHANGED pump
       \/ /\ rows' \in {rows, Append(rows, c)}
          /\ StartPumps(c)
          /\ UNCHANGED connID
    /\ UNCHANGED <<closed, peerVars, taken, carries, out, frames, newConns, newFrames, posted>>

(* The write has returned to the handler, which tells the window.          *)
NotifyConnection(c) ==
    /\ stage[c] = "logged"
    /\ newConns' = Notify(newConns, connID[c])
    /\ posted' = Append(posted, connID[c])
    /\ StartPumps(c)
    /\ UNCHANGED <<connID, closed, peerVars, taken, carries, out, rows, frames, newFrames>>

(* <-done, twice. *)
Finish(c) ==
    /\ stage[c] = "relay" /\ \A s \in Sides : pump[c][s] = "done"
    /\ Leave(c, "over")
    /\ UNCHANGED <<connID, peerVars, pumpVars, storeVars>>

-----------------------------------------------------------------------------
(* A pump.                                                                 *)

ReadMessage(c, s) ==
    /\ pump[c][s] = "read" /\ taken[c][s] < budget.limit[c][s]
    /\ taken' = At(taken, c, s, taken[c][s] + 1)
    /\ pump' = At(pump, c, s, "log")
    /\ UNCHANGED <<peerVars, handlerVars, carries, out, storeVars>>

(* The peer is gone, the connection is closed, or the next message is      *)
(* larger than the read limit: the pump closes the other connection.       *)
ReadFails(c, s) ==
    /\ pump[c][s] = "read"
    /\ gone[c][s] \/ closed[c][s] \/ taken[c][s] < budget.limit[c][s]
    /\ closed' = At(closed, c, Other(s), TRUE)
    /\ pump' = At(pump, c, s, "done")
    /\ UNCHANGED <<peerVars, stage, connID, taken, carries, out, storeVars>>

(* Of a large frame the first wsFrameSizeLimit bytes are logged.           *)
Large(c, s, n) == <<c, s, n>> \in budget.large

LoggedFrame(c, s) ==
    [conn |-> connID[c], from |-> s, n |-> taken[c][s], payload |-> carries[c][s],
     whole |-> ~Large(c, s, taken[c][s])]

(* The store's turn in EmitWebSocketFrame: a write that fails is only      *)
(* written to the log file.                                                *)
ObserveWebSocketFrame(c, s) ==
    /\ pump[c][s] = "log"
    /\ \/ /\ connID[c] # 0
          /\ frames' = Append(frames, LoggedFrame(c, s))
          /\ pump' = At(pump, c, s, "notify")
       \/ UNCHANGED frames /\ pump' = At(pump, c, s, "hooks")
    /\ UNCHANGED <<peerVars, handlerVars, taken, carries, out, rows, newConns, newFrames, posted>>

NotifyFrame(c, s) ==
    /\ pump[c][s] = "notify"
    /\ newFrames' = Notify(newFrames, connID[c])
    /\ pump' = At(pump, c, s, "hooks")
    /\ UNCHANGED <<peerVars, handlerVars, taken, carries, out, rows, frames, newConns, posted>>

(* The engine's turn, whose plugins may rewrite the payload. *)
Hooks(c, s) ==
    /\ pump[c][s] = "hooks"
    /\ \E p \in {carries[c][s], "altered"} : carries' = At(carries, c, s, p)
    /\ pump' = At(pump, c, s, "write")
    /\ UNCHANGED <<peerVars, handlerVars, taken, out, storeVars>>

(* WriteMessage to the other side.  It fails when that is closed, or its   *)
(* peer gone; then the pump returns and closes nothing.                    *)
WriteMessage(c, s) ==
    /\ pump[c][s] = "write"
    /\ \/ /\ ~closed[c][Other(s)]
          /\ out' = At(out, c, s, Append(out[c][s], taken[c][s]))
          /\ pump' = At(pump, c, s, "read")
       \/ /\ closed[c][Other(s)] \/ gone[c][Other(s)]
          /\ pump' = At(pump, c, s, "done")
          /\ UNCHANGED out
    /\ carries' = At(carries, c, s, "original")
    /\ UNCHANGED <<peerVars, handlerVars, taken, storeVars>>

Handle(c) ==
    Dial(c) \/ Upgrade(c) \/ LogWebSocketConnection(c) \/ NotifyConnection(c) \/ Finish(c)

Pump(c, s) ==
    ReadMessage(c, s) \/ ReadFails(c, s) \/ ObserveWebSocketFrame(c, s)
    \/ NotifyFrame(c, s) \/ Hooks(c, s) \/ WriteMessage(c, s)

RelayNext ==
    \E c \in Conns : Handle(c)
                     \/ \E s \in Sides : GoAway(c, s) \/ Pump(c, s)

RelaySpec == RelayInit /\ [][RelayNext]_relayVars

(* Goroutines run, a dial and an upgrade end by their timeouts, a query    *)
(* returns; a peer reads what is written to it or goes away.  That a       *)
(* peer sends or leaves is up to it.                                       *)
RelayFairness ==
    \A c \in Conns : WF_relayVars(Handle(c)) /\ \A s \in Sides : WF_relayVars(Pump(c, s))

-----------------------------------------------------------------------------
(* Properties.                                                             *)

Stages == {"none", "asked", "dialled", "upgraded", "logged", "relay", "over", "refused"}

(* A pump runs only between the start of the relay and its end, which waits*)
(* for both; an ID is that of the connection's own row.                    *)
RelayTypeOK ==
    /\ budget \in Budgets
    /\ stage \in [Conns -> Stages]
    /\ connID \in [Conns -> Nat]
    /\ \A c \in Conns : connID[c] # 0 => connID[c] \in 1 .. Len(rows) /\ rows[connID[c]] = c
    /\ taken \in [Conns -> [Sides -> Nat]]
    /\ gone \in [Conns -> [Sides -> BOOLEAN]] /\ closed \in [Conns -> [Sides -> BOOLEAN]]
    /\ pump \in [Conns -> [Sides -> {"idle", "read", "log", "notify", "hooks", "write", "done"}]]
    /\ \A c \in Conns, s \in Sides : 
         /\ stage[c] \notin {"relay", "over"} => pump[c][s] = "idle"
         /\ stage[c] = "over" => pump[c][s] = "done"
    /\ carries \in [Conns -> [Sides -> Payloads]]
    /\ out \in [Conns -> [Sides -> Seq(Nat)]]
    /\ rows \in Seq(Conns \cup {Earlier})
    /\ frames \in Seq([conn : Nat \ {0}, from : Sides, n : Nat \ {0}, payload : Payloads,
                       whole : BOOLEAN])
    /\ newConns \in Seq(Nat) /\ newFrames \in Seq(Nat) /\ posted \in Seq(Nat)
    /\ Len(newConns) <= NoticeCap /\ Len(newFrames) <= NoticeCap

InHand(c, s) == pump[c][s] \in {"log", "notify", "hooks", "write"}

(* What one peer has been sent is, frame by frame, what the other one sent *)
(* from the first byte behind its upgrade: none is lost, repeated or       *)
(* overtaken, as long as there is a relay.                                 *)
FramesInOrder ==
    \A c \in Conns, s \in Sides :
      /\ \A i \in 1 .. Len(out[c][s]) : out[c][s][i] = i
      /\ pump[c][s] # "done" => taken[c][s] = Len(out[c][s]) + (IF InHand(c, s) THEN 1 ELSE 0)

(* The log keeps frames as they were received, before any plugin and cut   *)
(* only when they are longer than wsFrameSizeLimit, in the order of their  *)
(* side, at most once, under the row of their connection.                  *)
LoggedAsReceived ==
    \A i \in 1 .. Len(frames) :
      /\ frames[i].conn \in OldRows + 1 .. Len(rows)
      /\ frames[i].payload = "original"
      /\ frames[i].whole \/ Large(rows[frames[i].conn], frames[i].from, frames[i].n)
      /\ frames[i].n <= taken[rows[frames[i].conn]][frames[i].from]
      /\ \A j \in 1 .. i - 1 :
           frames[j].conn = frames[i].conn /\ frames[j].from = frames[i].from => frames[j].n < frames[i].n

(* What is relayed and what is logged, each in its order and, but for      *)
(* plugins and for the size limit of the log, as it came.                  *)
FramesKept == FramesInOrder /\ LoggedAsReceived

(* When one peer is gone the session ends and both connections are closed, *)
(* although a pump that cannot write closes neither.                       *)
SessionEnds ==
    \A c \in Conns :
      stage[c] = "relay" /\ (\E s \in Sides : gone[c][s]) ~> stage[c] = "over" /\ \A s \in Sides : closed[c][s]
=============================================================================
