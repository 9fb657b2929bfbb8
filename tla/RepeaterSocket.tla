--------------------------- MODULE RepeaterSocket ---------------------------
(***************************************************************************)
(* The Repeater's tabs for WebSockets (ui/repeater_ws.go).                 *)
(*                                                                         *)
(* Dialling, reading and every send of a frame are goroutines; what they   *)
(* find out reaches the tab through callbacks, in the order they are       *)
(* posted.  The tab may have been disconnected, connected anew or closed   *)
(* by then.  Closing a tab does not touch its connection.                  *)
(***************************************************************************)
EXTENDS RepeaterTabs

CONSTANT MaxConns   \* bound: connections made

VARIABLES
    sockets,        \* tab -> what a WebSocket tab holds, closed tabs included
    conns,          \* connections dialled, in order
    dialing,        \* tabs whose dial has not ended
    writing,        \* goroutines that send a frame: the connection and its number
    posted          \* callbacks, in order

socketVars == <<sockets, conns, dialing, writing, posted>>

NewSocket == [state |-> "off", conn |-> 0, frames |-> <<>>]

SocketInit ==
    sockets = <<>> /\ conns = <<>> /\ dialing = {} /\ writing = {} /\ posted = <<>>

OpenTabs == {t \in DOMAIN sockets : t \in ToSet(tabs)}

With(t, new) == sockets' = [sockets EXCEPT ![t] = new]
Shown(socket, frame) == [socket EXCEPT !.frames = Append(@, frame)]
Post(callback) == posted' = Append(posted, callback)

(* AddWSTab, from the WebSocket tab: no tab without its row. *)
AddWSTab ==
    /\ Comes("socket")
    /\ \/ /\ SaveRepeaterTab("websocket", NoText)
          /\ tabs' = Append(tabs, lastTab + 1)
          /\ sockets' = Extended(sockets, lastTab + 1, NewSocket)
          /\ UNCHANGED orphans
       \/ SaveFails("websocket", NoText) /\ UNCHANGED <<tabs, sockets>>
    /\ UNCHANGED <<http, sends, conns, dialing, writing, posted>>

(* The other project's window; the old connections end with nobody to see. *)
ReopenSockets ==
    /\ Reopen
    /\ sockets' = [t \in {u \in ToSet(tabs') : ~IsHTTP(u)} |-> NewSocket]
    /\ conns' = <<>> /\ dialing' = {} /\ writing' = {} /\ posted' = <<>>

-----------------------------------------------------------------------------
(* The buttons.                                                            *)

(* The Connect button of a tab that is off; it is disabled while dialling. *)
Connect(t) ==
    /\ Comes("connect")
    /\ sockets[t].state = "off"
    /\ With(t, [sockets[t] EXCEPT !.state = "connecting"])
    /\ dialing' = dialing \cup {t}
    /\ UpdateRepeaterTab(t, NoText, NoAnswer)
    /\ UNCHANGED <<tabs, http, sends, conns, writing, posted>>

(* disconnect. *)
Disconnect(t) ==
    /\ Comes("connect")
    /\ sockets[t].state = "on"
    /\ With(t, [sockets[t] EXCEPT !.state = "off", !.conn = 0])
    /\ conns' = [conns EXCEPT ![sockets[t].conn].open = FALSE]
    /\ UNCHANGED <<tabVars, dialing, writing, posted>>

(* Send: the goroutine keeps the connection of this moment.                *)
SendFrame(t) ==
    /\ Comes("frame")
    /\ sockets[t].state = "on"
    /\ writing' = writing \cup {[conn |-> sockets[t].conn, number |-> left["frame"]]}
    /\ UNCHANGED <<tabVars, sockets, conns, dialing, posted>>

Clear(t) ==
    /\ sockets[t].frames # <<>>
    /\ Comes("frame")
    /\ With(t, [sockets[t] EXCEPT !.frames = <<>>])
    /\ UNCHANGED <<tabVars, conns, dialing, writing, posted>>

-----------------------------------------------------------------------------
(* Goroutines and the peer.                                                *)

(* The dial ends within its timeouts. *)
Dialed(t) ==
    /\ t \in dialing /\ dialing' = dialing \ {t}
    /\ \/ Post([kind |-> "refused", tab |-> t, conn |-> 0]) /\ UNCHANGED conns
       \/ /\ Len(conns) < MaxConns
          /\ conns' = Append(conns, [tab |-> t, open |-> TRUE, peer |-> TRUE, reader |-> "none"])
          /\ Post([kind |-> "dialed", tab |-> t, conn |-> Len(conns) + 1])
    /\ UNCHANGED <<tabVars, left, sockets, writing>>

PeerCloses(c) ==
    /\ Comes("peer")
    /\ conns[c].peer /\ conns' = [conns EXCEPT ![c].peer = FALSE]
    /\ UNCHANGED <<tabVars, sockets, dialing, writing, posted>>

(* ReadMessage returns a frame, which plugins see before it is posted.     *)
ReadFrame(c) ==
    /\ Comes("peer")
    /\ conns[c].reader = "reading" /\ conns[c].open /\ conns[c].peer
    /\ conns' = [conns EXCEPT ![c].reader = "holds"]
    /\ UNCHANGED <<tabVars, sockets, dialing, writing, posted>>

PostFrame(c) ==
    /\ conns[c].reader = "holds" /\ conns' = [conns EXCEPT ![c].reader = "reading"]
    /\ Post([kind |-> "recv", tab |-> conns[c].tab, conn |-> c])
    /\ UNCHANGED <<tabVars, left, sockets, dialing, writing>>

(* ReadMessage fails on a connection that either side has closed.          *)
ReadEnds(c) ==
    /\ conns[c].reader = "reading" /\ ~(conns[c].open /\ conns[c].peer)
    /\ conns' = [conns EXCEPT ![c].reader = "done"]
    /\ Post([kind |-> "ended", tab |-> conns[c].tab, conn |-> c])
    /\ UNCHANGED <<tabVars, left, sockets, dialing, writing>>

(* ReadMessage fails on a frame that breaks the protocol: the loop is over *)
(* and nobody closes the connection.                                       *)
ReadFails(c) ==
    /\ Comes("peer")
    /\ conns[c].reader = "reading" /\ conns[c].open /\ conns[c].peer
    /\ conns' = [conns EXCEPT ![c].reader = "failed"]
    /\ Post([kind |-> "ended", tab |-> conns[c].tab, conn |-> c])
    /\ UNCHANGED <<tabVars, sockets, dialing, writing>>

(* WriteMessage; the peer may be gone without it failing yet.              *)
Written(w) ==
    /\ w \in writing /\ writing' = writing \ {w}
    /\ \/ conns[w.conn].open /\ Post([kind |-> "sent", tab |-> conns[w.conn].tab, conn |-> w.conn])
       \/ /\ ~(conns[w.conn].open /\ conns[w.conn].peer)
          /\ Post([kind |-> "unsent", tab |-> conns[w.conn].tab, conn |-> w.conn])
    /\ UNCHANGED <<tabVars, left, sockets, conns, dialing>>

-----------------------------------------------------------------------------
(* The callbacks.                                                          *)

(* Mistake: the end of any connection disconnects the tab. LiveIsHeld      *)
Ended_Unchecked(socket, c) == Shown([socket EXCEPT !.state = "off", !.conn = 0], "closed")

(* The end of a connection that the tab no longer holds is not its concern.*)
Ended(socket, c) ==
    IF socket.conn = c THEN Shown([socket EXCEPT !.state = "off", !.conn = 0], "closed")
    ELSE socket

Callback ==
    /\ posted # <<>> /\ posted' = Tail(posted)
    /\ LET m == Head(posted)
           socket == sockets[m.tab]
       IN  /\ With(m.tab,
                CASE m.kind = "refused" -> Shown([socket EXCEPT !.state = "off"], "error")
                  [] m.kind = "dialed"  -> Shown([socket EXCEPT !.state = "on", !.conn = m.conn],
                                                 "connected")
                  [] m.kind = "ended"   -> Ended(socket, m.conn)
                  [] OTHER              -> Shown(socket, m.kind))
           /\ conns' = IF m.kind = "dialed" THEN [conns EXCEPT ![m.conn].reader = "reading"]
                       ELSE conns
    /\ UNCHANGED <<tabVars, left, dialing, writing>>

SocketNext ==
    \/ AddWSTab
    \/ \E t \in OpenTabs : Connect(t) \/ Disconnect(t) \/ SendFrame(t) \/ Clear(t)
    \/ \E t \in dialing : Dialed(t)
    \/ \E c \in DOMAIN conns :
          PeerCloses(c) \/ ReadFrame(c) \/ PostFrame(c) \/ ReadEnds(c) \/ ReadFails(c)
    \/ \E w \in writing : Written(w)
    \/ Callback

(* Of the connections of an open tab, only the one its buttons act on is   *)
(* alive once its dial is through, however late the goroutines of earlier  *)
(* connections report.  The exception is a connection whose read loop an   *)
(* error has ended: it is left open behind a Connect button.               *)
LiveIsHeld ==
    \A c \in DOMAIN conns :
        LET conn == conns[c]
        IN  conn.tab \in OpenTabs /\ conn.open /\ conn.peer /\ conn.reader \notin {"none", "failed"}
              => sockets[conn.tab].conn = c /\ sockets[conn.tab].state = "on"
=============================================================================
