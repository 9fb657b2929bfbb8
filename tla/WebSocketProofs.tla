--------------------------- MODULE WebSocketProofs ---------------------------
(***************************************************************************)
(* Proofs about WebSocketWindow and the relays it extends: whatever is     *)
(* relayed and logged is so in order and, but for the size limit of the    *)
(* log, as it came, and the window lists connections in order, for any     *)
(* connections, frames, queries and openings of the window, and channels   *)
(* of any capacity.                                                        *)
(***************************************************************************)
EXTENDS WebSocketWindow, SequenceTheorems, TLAPS

-----------------------------------------------------------------------------
(* The invariant of the relays.                                            *)

(* A connection is logged once, before its relay starts; if it knows its   *)
(* row that is a row of this session, and frames are logged under no other.*)
RowsInv ==
    /\ Len(rows) >= OldRows
    /\ \A i \in OldRows + 1 .. Len(rows) : rows[i] \in Conns
    /\ \A c \in Conns :
         connID[c] # 0 => /\ connID[c] \in OldRows + 1 .. Len(rows)
                          /\ stage[c] \in {"logged", "relay", "over"}
    /\ \A i \in 1 .. Len(frames) : connID[rows[frames[i].conn]] = frames[i].conn

(* A frame is as it came until the plugins have it, and then only until it *)
(* is written.                                                             *)
CarriesInv ==
    \A c \in Conns, s \in Sides : pump[c][s] # "write" => carries[c][s] = "original"

(* The frame a pump is about to log is not in the log yet. *)
LogInv ==
    \A i \in 1 .. Len(frames) :
      pump[rows[frames[i].conn]][frames[i].from] = "log"
        => frames[i].n < taken[rows[frames[i].conn]][frames[i].from]

(* FramesInOrder, by the places of the pump. *)
RelayedInv ==
    \A c \in Conns, s \in Sides :
      /\ \A i \in 1 .. Len(out[c][s]) : out[c][s][i] = i
      /\ pump[c][s] \in {"idle", "read"} => taken[c][s] = Len(out[c][s])
      /\ pump[c][s] \in {"log", "notify", "hooks", "write"} => taken[c][s] = Len(out[c][s]) + 1

RelayInv == RelayTypeOK /\ RowsInv /\ CarriesInv /\ RelayedInv /\ LoggedAsReceived /\ LogInv

(* The invariant of the window.                                            *)

Loads(n) == [kind : {"initial", "refresh", "frames"}, conn : 0 .. n, rows : 0 .. n, read : BOOLEAN]

Posted(id) == \E i \in 1 .. Len(posted) : posted[i] = id

(* The rows that are in the table and whose handler has not told so yet. *)
Unannounced == {connID[c] : c \in {d \in Conns : stage[d] = "logged"}}

(* id may go on top of a: it is newer, or it was announced later.          *)
Below(a, id) == id > a \/ (id < a /\ PostedBefore(a, id))

(* Notices are in the channel in the order they were posted in, and one    *)
(* that is not listed yet may go on top of the list: lists start with the  *)
(* newest row there was, so what is listed above it came as a notice, and  *)
(* earlier.  The same will hold of a row that is announced next.           *)
NoticesInv ==
    /\ \A i \in 1 .. Len(newConns) : newConns[i] \in 1 .. Len(rows) /\ Posted(newConns[i])
    /\ \A i, j \in 1 .. Len(newConns) : i < j => PostedBefore(newConns[i], newConns[j])
    /\ \A i \in 1 .. Len(newConns), j \in 1 .. Len(allConns) :
         Listed(newConns[i]) \/ Below(allConns[j], newConns[i])
    /\ \A id \in Unannounced : id \in 1 .. Len(rows)
    /\ \A id \in Unannounced, j \in 1 .. Len(allConns) :
         Listed(id) \/ id > allConns[j] \/ Posted(allConns[j])

WindowInv ==
    /\ TypeOK /\ query \in [Queries -> Loads(Len(rows)) \cup {NoQuery}]
    /\ NoticesInv /\ ListInOrder

-----------------------------------------------------------------------------
(* Lemmas about the operators of the models.                               *)

(* The other side is a side. *)
LEMMA OtherSide == \A s \in Sides : Other(s) \in Sides
BY DEF Sides, Other

(* Notify keeps what the channel holds, in its place, and puts the notice  *)
(* behind it or loses it.                                                  *)
LEMMA NotifyKeeps ==
  ASSUME NEW S, NEW queue \in Seq(S), NEW x \in S, Len(queue) <= NoticeCap
  PROVE  /\ Notify(queue, x) \in Seq(S)
         /\ Len(Notify(queue, x)) \in Len(queue) .. Len(queue) + 1
         /\ Len(Notify(queue, x)) <= NoticeCap
         /\ \A i \in 1 .. Len(queue) : Notify(queue, x)[i] = queue[i]
         /\ \A i \in Len(queue) + 1 .. Len(Notify(queue, x)) : Notify(queue, x)[i] = x
<1>1. /\ Append(queue, x) \in Seq(S) /\ Len(Append(queue, x)) = Len(queue) + 1
      /\ \A i \in 1 .. Len(queue) : Append(queue, x)[i] = queue[i]
      /\ Append(queue, x)[Len(queue) + 1] = x
      /\ Len(queue) \in Nat
  BY AppendProperties, LenProperties
<1>2. CASE Len(queue) < NoticeCap
  <2>1. Notify(queue, x) = Append(queue, x)
    BY <1>2 DEF Notify
  <2>. QED  BY <1>1, <1>2, <2>1, RelayAssumption
<1>3. CASE ~(Len(queue) < NoticeCap)
  <2>1. Notify(queue, x) = queue
    BY <1>3 DEF Notify
  <2>. QED  BY <1>1, <2>1
<1>. QED  BY <1>2, <1>3

-----------------------------------------------------------------------------
(* The relays.                                                             *)

Pumps == {"idle", "read", "log", "notify", "hooks", "write", "done"}
FrameRows == [conn : Nat \ {0}, from : Sides, n : Nat \ {0}, payload : Payloads, whole : BOOLEAN]

(* What the log holds are frames of connections of this session. *)
LEMMA FrameTypes ==
  ASSUME RelayTypeOK
  PROVE  \A i \in 1 .. Len(frames) : frames[i] \in FrameRows /\ frames[i].from \in Sides
<1>1. frames \in Seq(FrameRows)
  BY DEF RelayTypeOK, FrameRows
<1>2. \A i \in 1 .. Len(frames) : frames[i] \in FrameRows
  BY <1>1, ElementOfSeq
<1>. QED  BY <1>2 DEF FrameRows

LEMMA RelayInvInit == RelayInit => RelayInv
<1>. SUFFICES ASSUME RelayInit PROVE RelayInv
  OBVIOUS
<1>1. /\ gone \in [Conns -> [Sides -> BOOLEAN]] /\ closed \in [Conns -> [Sides -> BOOLEAN]]
      /\ taken \in [Conns -> [Sides -> Nat]] /\ \A c \in Conns, s \in Sides : taken[c][s] = 0
      /\ pump \in [Conns -> [Sides -> Pumps]]
      /\ \A c \in Conns, s \in Sides : pump[c][s] = "idle"
      /\ carries \in [Conns -> [Sides -> Payloads]]
      /\ \A c \in Conns, s \in Sides : carries[c][s] = "original"
  BY DEF RelayInit, Everywhere, Pumps, Payloads
<1>2. /\ out \in [Conns -> [Sides -> Seq(Nat)]]
      /\ \A c \in Conns, s \in Sides : out[c][s] = <<>> /\ Len(out[c][s]) = 0
  BY EmptySeq DEF RelayInit, Everywhere
<1>3. /\ rows \in Seq(Conns \cup {Earlier}) /\ Len(rows) = OldRows
      /\ frames \in Seq(FrameRows) /\ Len(frames) = 0
      /\ newConns \in Seq(Nat) /\ Len(newConns) = 0
      /\ newFrames \in Seq(Nat) /\ Len(newFrames) = 0 /\ posted \in Seq(Nat)
  BY EmptySeq, RelayAssumption DEF RelayInit
<1>4. /\ budget \in Budgets /\ connID \in [Conns -> Nat] /\ \A c \in Conns : connID[c] = 0
      /\ stage \in [Conns -> Stages]
      /\ \A c \in Conns : stage[c] \in {"none", "asked"}
  BY DEF RelayInit, Stages
<1>5. RelayTypeOK
  <2>1. \A c \in Conns, s \in Sides :
          /\ stage[c] \notin {"relay", "over"} => pump[c][s] = "idle"
          /\ stage[c] = "over" => pump[c][s] = "done"
    BY <1>1, <1>4
  <2>2. /\ Len(newConns) <= NoticeCap /\ Len(newFrames) <= NoticeCap
        /\ \A c \in Conns : connID[c] # 0 => connID[c] \in 1 .. Len(rows) /\ rows[connID[c]] = c
    BY <1>3, <1>4, RelayAssumption
  <2>. QED  BY <1>1, <1>2, <1>3, <1>4, <2>1, <2>2 DEF RelayTypeOK, Pumps, FrameRows
<1>6. RowsInv /\ CarriesInv /\ LogInv /\ LoggedAsReceived
  BY <1>1, <1>3, <1>4, RelayAssumption DEF RowsInv, CarriesInv, LogInv, LoggedAsReceived
<1>7. RelayedInv
  <2>1. \A c \in Conns, s \in Sides :
          Len(out[c][s]) = 0 /\ taken[c][s] = 0 /\ pump[c][s] = "idle"
    BY <1>1, <1>2
  <2>. QED  BY <2>1 DEF RelayedInv
<1>. QED  BY <1>5, <1>6, <1>7 DEF RelayInv

(* The steps of the window and of the peers change nothing of this but the *)
(* notices.                                                                *)
LEMMA RelayInvNotices ==
  ASSUME RelayInv, budget' = budget, gone' \in [Conns -> [Sides -> BOOLEAN]],
         UNCHANGED <<handlerVars, pumpVars, rows, frames, posted>>,
         newConns' \in Seq(Nat), newFrames' \in Seq(Nat),
         Len(newConns') <= NoticeCap, Len(newFrames') <= NoticeCap
  PROVE  RelayInv'
<1>1. UNCHANGED <<stage, connID, closed, taken, pump, carries, out, rows, frames, posted>>
  BY DEF handlerVars, pumpVars
<1>2. RelayTypeOK'
  BY <1>1 DEF RelayInv, RelayTypeOK
<1>3. RowsInv' /\ CarriesInv' /\ LogInv' /\ LoggedAsReceived'
  BY <1>1 DEF RelayInv, RowsInv, CarriesInv, LogInv, LoggedAsReceived, Large
<1>4. RelayedInv'
  BY <1>1 DEF RelayInv, RelayedInv
<1>. QED  BY <1>2, <1>3, <1>4 DEF RelayInv

(* Dial, Upgrade and Finish move the handler on; a relay ends only when    *)
(* both its pumps have.                                                    *)
LEMMA RelayInvHandler ==
  ASSUME RelayInv, NEW c \in Conns, NEW how \in {"dialled", "upgraded", "over", "refused"},
         stage' = [stage EXCEPT ![c] = how], closed' \in [Conns -> [Sides -> BOOLEAN]],
         UNCHANGED <<connID, peerVars, pumpVars, storeVars>>,
         \/ stage[c] \in {"asked", "dialled"} /\ how # "over"
         \/ how = "over" /\ stage[c] = "relay" /\ \A s \in Sides : pump[c][s] = "done"
  PROVE  RelayInv'
<1>1. UNCHANGED <<budget, gone, connID, taken, pump, carries, out, rows, frames, newConns,
                newFrames, posted>>
  BY DEF peerVars, pumpVars, storeVars
<1>2. /\ stage' \in [Conns -> Stages]
      /\ \A d \in Conns : stage'[d] = IF d = c THEN how ELSE stage[d]
  BY DEF RelayInv, RelayTypeOK, Stages
<1>3. RelayTypeOK'
  <2>1. \A d \in Conns, s \in Sides : 
          /\ stage'[d] \notin {"relay", "over"} => pump'[d][s] = "idle"
          /\ stage'[d] = "over" => pump'[d][s] = "done"
    BY <1>1, <1>2 DEF RelayInv, RelayTypeOK
  <2>. QED  BY <1>1, <1>2, <2>1 DEF RelayInv, RelayTypeOK
<1>4. RowsInv'
  BY <1>1, <1>2 DEF RelayInv, RowsInv
<1>5. CarriesInv' /\ LogInv' /\ LoggedAsReceived'
  BY <1>1 DEF RelayInv, CarriesInv, LogInv, LoggedAsReceived, Large
<1>6. RelayedInv'
  BY <1>1 DEF RelayInv, RelayedInv
<1>. QED  BY <1>3, <1>4, <1>5, <1>6 DEF RelayInv

(* The connection is logged, or its relay starts, with its row or without. *)
LEMMA RelayInvConnection ==
  ASSUME RelayInv, NEW c \in Conns, NEW how \in {"logged", "relay"},
         stage[c] \in {"upgraded", "logged"}, stage' = [stage EXCEPT ![c] = how],
         pump' = IF how = "relay" THEN [pump EXCEPT ![c] = [s \in Sides |-> "read"]] ELSE pump,
         rows' \in {rows, Append(rows, c)},
         \/ connID' = connID
         \/ /\ stage[c] = "upgraded" /\ rows' = Append(rows, c)
            /\ connID' = [connID EXCEPT ![c] = Len(rows')],
         newConns' \in Seq(Nat), Len(newConns') <= NoticeCap, posted' \in Seq(Nat),
         UNCHANGED <<budget, gone, closed, taken, carries, out, frames, newFrames>>
  PROVE  RelayInv'
<1>1. /\ stage \in [Conns -> Stages] /\ connID \in [Conns -> Nat] /\ pump \in [Conns -> [Sides -> Pumps]]
      /\ rows \in Seq(Conns \cup {Earlier}) /\ Len(rows) \in Nat
      /\ OldRows \in Nat /\ OldRows <= Len(rows)
  BY RelayAssumption DEF RelayInv, RelayTypeOK, RowsInv, Pumps
<1>2. /\ stage' \in [Conns -> Stages] /\ \A d \in Conns : stage'[d] = IF d = c THEN how ELSE stage[d]
  BY <1>1 DEF Stages
<1>3. /\ pump' \in [Conns -> [Sides -> Pumps]]
      /\ \A d \in Conns, s \in Sides :
           pump'[d][s] = IF d = c /\ how = "relay" THEN "read" ELSE pump[d][s]
      /\ \A s \in Sides : pump[c][s] = "idle"
  <2>1. [s \in Sides |-> "read"] \in [Sides -> Pumps]
    BY DEF Pumps
  <2>2. \A s \in Sides : pump[c][s] = "idle"
    BY DEF RelayInv, RelayTypeOK
  <2>. QED  BY <1>1, <2>1, <2>2
<1>4. /\ rows' \in Seq(Conns \cup {Earlier}) /\ Len(rows') \in Len(rows) .. Len(rows) + 1
      /\ \A i \in 1 .. Len(rows) : rows'[i] = rows[i]
      /\ \A i \in 1 .. Len(rows') : i \in 1 .. Len(rows) \/ i = Len(rows) + 1
      /\ rows' # rows => Len(rows') = Len(rows) + 1 /\ rows'[Len(rows) + 1] = c
  <2>1. /\ Append(rows, c) \in Seq(Conns \cup {Earlier}) /\ Len(Append(rows, c)) = Len(rows) + 1
        /\ \A i \in 1 .. Len(rows) : Append(rows, c)[i] = rows[i]
        /\ Append(rows, c)[Len(rows) + 1] = c
    BY <1>1, AppendProperties
  <2>2. CASE rows' = rows
    BY <1>1, <2>2
  <2>3. CASE rows' = Append(rows, c)
    BY <1>1, <2>1, <2>3
  <2>. QED  BY <2>2, <2>3
<1>5. /\ connID' \in [Conns -> Nat]
      /\ \A d \in Conns \ {c} : connID'[d] = connID[d]
      /\ \/ connID'[c] = connID[c]
         \/ /\ connID[c] = 0 /\ connID'[c] = Len(rows) + 1
            /\ Len(rows') = Len(rows) + 1 /\ rows'[Len(rows) + 1] = c
  <2>1. CASE connID' = connID
    BY <1>1, <2>1
  <2>2. CASE /\ stage[c] = "upgraded" /\ rows' = Append(rows, c)
             /\ connID' = [connID EXCEPT ![c] = Len(rows')]
    <3>1. connID[c] = 0
      BY <2>2 DEF RelayInv, RowsInv
    <3>2. Len(rows') = Len(rows) + 1 /\ rows' # rows
      BY <1>1, <2>2, AppendProperties
    <3>. QED  BY <1>1, <1>4, <2>2, <3>1, <3>2
  <2>. QED  BY <2>1, <2>2
<1>6. \A d \in Conns : connID'[d] # 0 => /\ connID'[d] \in OldRows + 1 .. Len(rows')
                                        /\ rows'[connID'[d]] = d
                                        /\ stage'[d] \in {"logged", "relay", "over"}
  <2>. SUFFICES ASSUME NEW d \in Conns, connID'[d] # 0
       PROVE  /\ connID'[d] \in OldRows + 1 .. Len(rows') /\ rows'[connID'[d]] = d
              /\ stage'[d] \in {"logged", "relay", "over"}
    OBVIOUS
  <2>1. CASE connID'[d] = connID[d]
    <3>1. /\ connID[d] \in OldRows + 1 .. Len(rows) /\ stage[d] \in {"logged", "relay", "over"}
          /\ rows[connID[d]] = d
      BY <2>1 DEF RelayInv, RelayTypeOK, RowsInv
    <3>2. connID[d] \in 1 .. Len(rows) /\ connID[d] \in OldRows + 1 .. Len(rows')
      BY <1>1, <1>4, <3>1
    <3>. QED  BY <1>2, <1>4, <2>1, <3>1, <3>2
  <2>2. CASE connID'[d] # connID[d]
    BY <1>1, <1>2, <1>5, <2>2
  <2>. QED  BY <2>1, <2>2
<1>7. RelayTypeOK'
  <2>1. \A d \in Conns, s \in Sides :
          /\ stage'[d] \notin {"relay", "over"} => pump'[d][s] = "idle"
          /\ stage'[d] = "over" => pump'[d][s] = "done"
    <3>1. \A d \in Conns, s \in Sides : /\ stage[d] \notin {"relay", "over"} => pump[d][s] = "idle"
                                        /\ stage[d] = "over" => pump[d][s] = "done"
      BY DEF RelayInv, RelayTypeOK
    <3>. QED  BY <1>2, <1>3, <3>1
  <2>2. \A d \in Conns : connID'[d] # 0 => connID'[d] \in 1 .. Len(rows') /\ rows'[connID'[d]] = d
    BY <1>1, <1>4, <1>6
  <2>. QED  BY <1>2, <1>3, <1>4, <1>5, <2>1, <2>2 DEF RelayInv, RelayTypeOK, Pumps
<1>8. ASSUME NEW i \in 1 .. Len(frames)
      PROVE  /\ frames[i].conn \in OldRows + 1 .. Len(rows) /\ frames[i].conn \in OldRows + 1 .. Len(rows')
             /\ rows'[frames[i].conn] = rows[frames[i].conn] /\ rows[frames[i].conn] \in Conns
             /\ frames[i].from \in Sides
             /\ connID'[rows[frames[i].conn]] = frames[i].conn
  <2>1. frames[i].from \in Sides
    BY FrameTypes DEF RelayInv
  <2>2. frames[i].conn \in OldRows + 1 .. Len(rows)
    BY DEF RelayInv, LoggedAsReceived
  <2>3. rows[frames[i].conn] \in Conns /\ connID[rows[frames[i].conn]] = frames[i].conn
    BY <2>2 DEF RelayInv, RowsInv
  <2>4. frames[i].conn \in 1 .. Len(rows) /\ frames[i].conn # 0
    BY <1>1, <2>2
  <2>5. Len(rows') \in Nat /\ Len(rows') >= Len(rows)
    BY <1>1, <1>4
  <2>6. frames[i].conn \in OldRows + 1 .. Len(rows')
    BY <1>1, <2>2, <2>5
  <2>7. rows'[frames[i].conn] = rows[frames[i].conn]
    BY <1>1, <1>4, <2>4
  <2>8. connID'[rows[frames[i].conn]] = frames[i].conn
    BY <1>5, <2>3, <2>4
  <2>. QED  BY <2>1, <2>2, <2>3, <2>6, <2>7, <2>8
<1>9. RowsInv'
  <2>1. Len(rows') >= OldRows
    BY <1>1, <1>4
  <2>2. ASSUME NEW i \in OldRows + 1 .. Len(rows') PROVE rows'[i] \in Conns
    <3>1. CASE i \in OldRows + 1 .. Len(rows)
      BY <1>1, <1>4, <3>1 DEF RelayInv, RowsInv
    <3>2. CASE i \notin OldRows + 1 .. Len(rows)
      BY <1>1, <1>4, <3>2
    <3>. QED  BY <3>1, <3>2
  <2>3. \A i \in 1 .. Len(frames') : connID'[rows'[frames'[i].conn]] = frames'[i].conn
    BY <1>8
  <2>. QED  BY <1>6, <2>1, <2>2, <2>3 DEF RowsInv
<1>10. LoggedAsReceived'
  BY <1>8 DEF RelayInv, LoggedAsReceived, Large
<1>11. LogInv'
  BY <1>3, <1>8 DEF RelayInv, LogInv
<1>12. CarriesInv'
  BY <1>3 DEF RelayInv, CarriesInv
<1>13. RelayedInv'
  BY <1>3 DEF RelayInv, RelayedInv
<1>. QED  BY <1>7, <1>9, <1>10, <1>11, <1>12, <1>13 DEF RelayInv

LEMMA RelayInvLogConnection ==
  ASSUME RelayInv, NEW c \in Conns, LogWebSocketConnection(c)
  PROVE  RelayInv'
<1>1. PICK how \in {"logged", "relay"} :
        /\ stage' = [stage EXCEPT ![c] = how]
        /\ pump' = IF how = "relay" THEN [pump EXCEPT ![c] = [s \in Sides |-> "read"]] ELSE pump
  BY DEF LogWebSocketConnection, StartPumps
<1>2. /\ stage[c] = "upgraded" /\ rows' \in {rows, Append(rows, c)}
      /\ \/ connID' = connID
         \/ rows' = Append(rows, c) /\ connID' = [connID EXCEPT ![c] = Len(rows')]
      /\ UNCHANGED <<budget, gone, closed, taken, carries, out, frames, newConns, newFrames, posted>>
  BY DEF LogWebSocketConnection, peerVars
<1>3. newConns \in Seq(Nat) /\ Len(newConns) <= NoticeCap /\ posted \in Seq(Nat)
  BY DEF RelayInv, RelayTypeOK
<1>. QED  BY <1>1, <1>2, <1>3, RelayInvConnection

LEMMA RelayInvNotifyConnection ==
  ASSUME RelayInv, NEW c \in Conns, NotifyConnection(c)
  PROVE  RelayInv'
<1>1. /\ stage[c] = "logged" /\ stage' = [stage EXCEPT ![c] = "relay"]
      /\ pump' = [pump EXCEPT ![c] = [s \in Sides |-> "read"]]
      /\ newConns' = Notify(newConns, connID[c]) /\ posted' = Append(posted, connID[c])
      /\ UNCHANGED <<budget, gone, connID, closed, taken, carries, out, rows, frames, newFrames>>
  BY DEF NotifyConnection, StartPumps, peerVars
<1>2. /\ newConns \in Seq(Nat) /\ Len(newConns) <= NoticeCap /\ posted \in Seq(Nat)
      /\ connID[c] \in Nat
  BY DEF RelayInv, RelayTypeOK
<1>3. newConns' \in Seq(Nat) /\ Len(newConns') <= NoticeCap
  BY <1>1, <1>2, NotifyKeeps
<1>4. posted' \in Seq(Nat)
  BY <1>1, <1>2, AppendProperties
<1>. QED  BY <1>1, <1>3, <1>4, RelayInvConnection

(* A pump that is at work belongs to a relay, and its step is its own.     *)
LEMMA PumpSteps ==
  ASSUME RelayTypeOK, NEW c \in Conns, NEW s \in Sides,
         pump[c][s] \notin {"idle", "done"}, NEW v \in Pumps,
         pump' = At(pump, c, s, v), stage' = stage
  PROVE  /\ pump' \in [Conns -> [Sides -> Pumps]]
         /\ \A d \in Conns, t \in Sides :
              /\ pump'[d][t] = IF d = c /\ t = s THEN v ELSE pump[d][t]
              /\ stage'[d] \notin {"relay", "over"} => pump'[d][t] = "idle"
              /\ stage'[d] = "over" => pump'[d][t] = "done"
<1>1. /\ pump' \in [Conns -> [Sides -> Pumps]]
      /\ \A d \in Conns, t \in Sides :
           pump'[d][t] = IF d = c /\ t = s THEN v ELSE pump[d][t]
  <2>1. pump \in [Conns -> [Sides -> Pumps]]
    BY DEF RelayTypeOK, Pumps
  <2>. QED  BY <2>1 DEF At
<1>2. \A d \in Conns, t \in Sides :
        /\ stage[d] \notin {"relay", "over"} => pump[d][t] = "idle"
        /\ stage[d] = "over" => pump[d][t] = "done"
  BY DEF RelayTypeOK
<1>3. stage[c] = "relay"
  BY <1>2
<1>. QED  BY <1>1, <1>2, <1>3

(* The log stays as it was when frames are read or passed on. *)
LEMMA LogKept ==
  ASSUME RelayInv, UNCHANGED <<budget, rows, frames>>, taken' \in [Conns -> [Sides -> Nat]],
         \A d \in Conns, t \in Sides :
           /\ taken[d][t] <= taken'[d][t]
           /\ pump'[d][t] = "log" => pump[d][t] = "log" \/ taken[d][t] < taken'[d][t]
  PROVE  LoggedAsReceived' /\ LogInv'
<1>1. \A i \in 1 .. Len(frames) :
        LET d == rows[frames[i].conn]  t == frames[i].from
        IN  frames[i].n <= taken'[d][t] /\ (pump'[d][t] = "log" => frames[i].n < taken'[d][t])
  <2>. SUFFICES ASSUME NEW i \in 1 .. Len(frames), NEW d, NEW t,
                       d = rows[frames[i].conn], t = frames[i].from
       PROVE frames[i].n <= taken'[d][t] /\ (pump'[d][t] = "log" => frames[i].n < taken'[d][t])
    BY Zenon
  <2>1. frames[i].n <= taken[d][t] /\ (pump[d][t] = "log" => frames[i].n < taken[d][t])
    BY DEF RelayInv, LoggedAsReceived, LogInv
  <2>2. d \in Conns
    <3>1. frames[i].conn \in OldRows + 1 .. Len(rows)
      BY DEF RelayInv, LoggedAsReceived
    <3>. QED  BY <3>1 DEF RelayInv, RowsInv
  <2>3. frames[i] \in FrameRows /\ t \in Sides
    BY FrameTypes DEF RelayInv
  <2>4. frames[i].n \in Nat /\ taken[d][t] \in Nat /\ taken'[d][t] \in Nat
    <3>1. taken \in [Conns -> [Sides -> Nat]]
      BY DEF RelayInv, RelayTypeOK
    <3>2. frames[i].n \in Nat
      BY <2>3 DEF FrameRows
    <3>. QED  BY <2>2, <2>3, <3>1, <3>2
  <2>5. /\ taken[d][t] <= taken'[d][t]
        /\ pump'[d][t] = "log" => pump[d][t] = "log" \/ taken[d][t] < taken'[d][t]
    BY <2>2, <2>3
  <2>. QED  BY <2>1, <2>4, <2>5
<1>. QED  BY <1>1 DEF RelayInv, LoggedAsReceived, LogInv, Large

LEMMA RelayInvReadMessage ==
  ASSUME RelayInv, NEW c \in Conns, NEW s \in Sides, ReadMessage(c, s)
  PROVE  RelayInv'
<1>1. /\ UNCHANGED <<budget, gone, stage, connID, closed, carries, out,
                     rows, frames, newConns,
                newFrames, posted>>
      /\ pump[c][s] = "read" /\ pump' = At(pump, c, s, "log")
      /\ taken' = At(taken, c, s, taken[c][s] + 1)
  BY DEF ReadMessage, peerVars, handlerVars, storeVars
<1>2. /\ pump' \in [Conns -> [Sides -> Pumps]]
      /\ \A d \in Conns, t \in Sides :
           /\ pump'[d][t] = IF d = c /\ t = s THEN "log" ELSE pump[d][t]
           /\ stage'[d] \notin {"relay", "over"} => pump'[d][t] = "idle"
           /\ stage'[d] = "over" => pump'[d][t] = "done"
  BY <1>1, PumpSteps DEF RelayInv, Pumps
<1>3. /\ taken' \in [Conns -> [Sides -> Nat]] /\ taken \in [Conns -> [Sides -> Nat]]
      /\ \A d \in Conns, t \in Sides :
           taken'[d][t] = IF d = c /\ t = s THEN taken[c][s] + 1 ELSE taken[d][t]
  <2>1. taken \in [Conns -> [Sides -> Nat]]
    BY DEF RelayInv, RelayTypeOK
  <2>2. taken[c][s] + 1 \in Nat
    BY <2>1
  <2>. QED  BY <1>1, <2>1, <2>2 DEF At
<1>4. RelayTypeOK'
  <2>1. RelayTypeOK
    BY DEF RelayInv
  <2>2. /\ budget' \in Budgets /\ stage' \in [Conns -> Stages] /\ connID' \in [Conns -> Nat]
        /\ \A d \in Conns : connID'[d] # 0 => connID'[d] \in 1 .. Len(rows') /\ rows'[connID'[d]] = d
        /\ gone' \in [Conns -> [Sides -> BOOLEAN]] /\ closed' \in [Conns -> [Sides -> BOOLEAN]]
        /\ carries' \in [Conns -> [Sides -> Payloads]]
    BY <1>1, <2>1 DEF RelayTypeOK
  <2>3. /\ out' \in [Conns -> [Sides -> Seq(Nat)]] /\ rows' \in Seq(Conns \cup {Earlier})
        /\ frames' \in Seq([conn : Nat \ {0}, from : Sides, n : Nat \ {0}, payload : Payloads,
                            whole : BOOLEAN])
        /\ newConns' \in Seq(Nat) /\ newFrames' \in Seq(Nat) /\ posted' \in Seq(Nat)
        /\ Len(newConns') <= NoticeCap /\ Len(newFrames') <= NoticeCap
    BY <1>1, <2>1 DEF RelayTypeOK
  <2>. QED  BY <1>2, <1>3, <2>2, <2>3, Zenon DEF RelayTypeOK, Pumps
<1>5. RowsInv'
  BY <1>1 DEF RelayInv, RowsInv
<1>6. CarriesInv'
  BY <1>1, <1>2 DEF RelayInv, CarriesInv
<1>7. RelayedInv'
  <2>. SUFFICES ASSUME NEW d \in Conns, NEW t \in Sides
       PROVE  /\ \A i \in 1 .. Len(out[d][t]) : out[d][t][i] = i
              /\ pump'[d][t] \in {"idle", "read"} => taken'[d][t] = Len(out[d][t])
              /\ pump'[d][t] \in {"log", "notify", "hooks", "write"} => taken'[d][t] = Len(out[d][t]) + 1
    BY <1>1 DEF RelayedInv
  <2>1. CASE d = c /\ t = s
    <3>1. pump'[d][t] = "log" /\ taken'[d][t] = taken[d][t] + 1
      BY <2>1, <1>2, <1>3
    <3>. QED  BY <2>1, <3>1, <1>1 DEF RelayInv, RelayedInv
  <2>2. CASE ~(d = c /\ t = s)
    <3>1. pump'[d][t] = pump[d][t] /\ taken'[d][t] = taken[d][t]
      BY <2>2, <1>2, <1>3
    <3>. QED  BY <3>1 DEF RelayInv, RelayedInv
  <2>. QED  BY <2>1, <2>2
<1>8. LoggedAsReceived' /\ LogInv'
  <2>1. \A d \in Conns, t \in Sides :
           /\ taken[d][t] <= taken'[d][t]
           /\ pump'[d][t] = "log" => pump[d][t] = "log" \/ taken[d][t] < taken'[d][t]
    BY <1>2, <1>3
  <2>. QED  BY <1>1, <1>3, <2>1, LogKept
<1>. QED  BY <1>4, <1>5, <1>6, <1>7, <1>8 DEF RelayInv

(* A pump that gives up, or whose frame goes through the plugins. *)
LEMMA RelayInvPassedOn ==
  ASSUME RelayInv, NEW c \in Conns, NEW s \in Sides, NEW v \in {"write", "done"},
         pump[c][s] \in {"read", "hooks"}, v = "write" <=> pump[c][s] = "hooks",
         pump' = At(pump, c, s, v), carries' \in [Conns -> [Sides -> Payloads]],
         \A d \in Conns, t \in Sides :
           carries'[d][t] = carries[d][t] \/ (d = c /\ t = s /\ v = "write"),
         closed' \in [Conns -> [Sides -> BOOLEAN]],
         UNCHANGED <<peerVars, stage, connID, taken, out, storeVars>>
  PROVE  RelayInv'
<1>1. UNCHANGED <<budget, gone, stage, connID, taken, out, rows, frames, newConns,
                newFrames, posted>>
  BY DEF peerVars, storeVars
<1>2. /\ pump' \in [Conns -> [Sides -> Pumps]]
      /\ \A d \in Conns, t \in Sides :
           /\ pump'[d][t] = IF d = c /\ t = s THEN v ELSE pump[d][t]
           /\ stage'[d] \notin {"relay", "over"} => pump'[d][t] = "idle"
           /\ stage'[d] = "over" => pump'[d][t] = "done"
  BY <1>1, PumpSteps DEF RelayInv, Pumps
<1>3. RelayTypeOK'
  BY <1>1, <1>2 DEF RelayInv, RelayTypeOK, Pumps
<1>4. RowsInv'
  BY <1>1 DEF RelayInv, RowsInv
<1>5. CarriesInv'
  BY <1>2 DEF RelayInv, CarriesInv
<1>6. RelayedInv'
  BY <1>1, <1>2 DEF RelayInv, RelayedInv
<1>7. LoggedAsReceived' /\ LogInv'
  <2>1. taken \in [Conns -> [Sides -> Nat]]
    BY DEF RelayInv, RelayTypeOK
  <2>2. \A d \in Conns, t \in Sides :
           taken[d][t] <= taken'[d][t] /\ (pump'[d][t] = "log" => pump[d][t] = "log")
    <3>1. \A d \in Conns, t \in Sides : taken[d][t] \in Nat /\ taken'[d][t] = taken[d][t]
      BY <1>1, <2>1
    <3>2. \A d \in Conns, t \in Sides : pump'[d][t] = "log" => pump[d][t] = "log"
      BY <1>2
    <3>. QED  BY <3>1, <3>2
  <2>. QED  BY <1>1, <2>1, <2>2, LogKept
<1>. QED  BY <1>3, <1>4, <1>5, <1>6, <1>7 DEF RelayInv

LEMMA RelayInvReadFails ==
  ASSUME RelayInv, NEW c \in Conns, NEW s \in Sides, ReadFails(c, s)
  PROVE  RelayInv'
<1>1. /\ pump[c][s] = "read" /\ pump' = At(pump, c, s, "done")
      /\ carries' = carries /\ closed' = At(closed, c, Other(s), TRUE)
      /\ UNCHANGED <<peerVars, stage, connID, taken, out, storeVars>>
  BY DEF ReadFails
<1>2. closed' \in [Conns -> [Sides -> BOOLEAN]] /\ carries' \in [Conns -> [Sides -> Payloads]]
  BY <1>1, OtherSide DEF RelayInv, RelayTypeOK, At
<1>. QED  BY <1>1, <1>2, RelayInvPassedOn

LEMMA RelayInvHooks ==
  ASSUME RelayInv, NEW c \in Conns, NEW s \in Sides, Hooks(c, s)
  PROVE  RelayInv'
<1>1. /\ pump[c][s] = "hooks" /\ pump' = At(pump, c, s, "write")
      /\ UNCHANGED <<peerVars, stage, connID, closed, taken, out, storeVars>>
  BY DEF Hooks, handlerVars
<1>2. carries \in [Conns -> [Sides -> Payloads]] /\ closed' \in [Conns -> [Sides -> BOOLEAN]]
  BY <1>1 DEF RelayInv, RelayTypeOK
<1>3. PICK p \in Payloads : carries' = At(carries, c, s, p)
  BY <1>2 DEF Hooks, Payloads
<1>4. /\ carries' \in [Conns -> [Sides -> Payloads]]
      /\ \A d \in Conns, t \in Sides : carries'[d][t] = carries[d][t] \/ (d = c /\ t = s)
  BY <1>2, <1>3 DEF At
<1>. QED  BY <1>1, <1>2, <1>4, RelayInvPassedOn

LEMMA RelayInvWriteMessage ==
  ASSUME RelayInv, NEW c \in Conns, NEW s \in Sides, WriteMessage(c, s)
  PROVE  RelayInv'
<1>1. /\ UNCHANGED <<budget, gone, stage, connID, closed, taken, rows, frames, newConns,
                newFrames, posted>>
      /\ pump[c][s] = "write" /\ carries' = At(carries, c, s, "original")
  BY DEF WriteMessage, peerVars, handlerVars, storeVars
<1>2. PICK v \in {"read", "done"} :
        /\ pump' = At(pump, c, s, v)
        /\ out' = IF v = "read" THEN At(out, c, s, Append(out[c][s], taken[c][s])) ELSE out
  BY DEF WriteMessage
<1>3. /\ pump' \in [Conns -> [Sides -> Pumps]]
      /\ \A d \in Conns, t \in Sides :
           /\ pump'[d][t] = IF d = c /\ t = s THEN v ELSE pump[d][t]
           /\ stage'[d] \notin {"relay", "over"} => pump'[d][t] = "idle"
           /\ stage'[d] = "over" => pump'[d][t] = "done"
  BY <1>1, <1>2, PumpSteps DEF RelayInv, Pumps
<1>4. /\ carries' \in [Conns -> [Sides -> Payloads]]
      /\ \A d \in Conns, t \in Sides :
           carries'[d][t] = IF d = c /\ t = s THEN "original" ELSE carries[d][t]
  <2>1. carries \in [Conns -> [Sides -> Payloads]] /\ "original" \in Payloads
    BY DEF RelayInv, RelayTypeOK, Payloads
  <2>. QED  BY <1>1, <2>1 DEF At
<1>5. /\ out \in [Conns -> [Sides -> Seq(Nat)]] /\ taken \in [Conns -> [Sides -> Nat]]
      /\ Len(out[c][s]) \in Nat
  BY DEF RelayInv, RelayTypeOK
<1>6. DEFINE o == Append(out[c][s], taken[c][s])
<1>7. /\ o \in Seq(Nat) /\ Len(o) = Len(out[c][s]) + 1
      /\ \A i \in 1 .. Len(out[c][s]) : o[i] = out[c][s][i]
      /\ o[Len(out[c][s]) + 1] = taken[c][s]
  BY <1>5, AppendProperties
<1>. HIDE DEF o
<1>8. /\ out' \in [Conns -> [Sides -> Seq(Nat)]]
      /\ \A d \in Conns, t \in Sides :
           out'[d][t] = IF d = c /\ t = s /\ v = "read" THEN o ELSE out[d][t]
  <2>1. out' = IF v = "read" THEN At(out, c, s, o) ELSE out
    BY <1>2 DEF o
  <2>. QED  BY <2>1, <1>5, <1>7 DEF At
<1>9. RelayTypeOK'
  BY <1>1, <1>3, <1>4, <1>8 DEF RelayInv, RelayTypeOK, Pumps
<1>10. RowsInv'
  BY <1>1 DEF RelayInv, RowsInv
<1>11. CarriesInv'
  BY <1>3, <1>4 DEF RelayInv, CarriesInv
<1>12. RelayedInv'
  <2>. SUFFICES ASSUME NEW d \in Conns, NEW t \in Sides
       PROVE  /\ \A i \in 1 .. Len(out'[d][t]) : out'[d][t][i] = i
              /\ pump'[d][t] \in {"idle", "read"} => taken[d][t] = Len(out'[d][t])
              /\ pump'[d][t] \in {"log", "notify", "hooks", "write"} => taken[d][t] = Len(out'[d][t]) + 1
    BY <1>1 DEF RelayedInv
  <2>1. CASE d = c /\ t = s /\ v = "read"
    <3>1. taken[c][s] = Len(out[c][s]) + 1 /\ \A i \in 1 .. Len(out[c][s]) : out[c][s][i] = i
      BY <1>1 DEF RelayInv, RelayedInv
    <3>2. out'[d][t] = o /\ pump'[d][t] = "read"
      BY <2>1, <1>3, <1>8
    <3>3. \A i \in 1 .. Len(o) : o[i] = i
      <4>. SUFFICES ASSUME NEW i \in 1 .. Len(o) PROVE o[i] = i
        OBVIOUS
      <4>1. CASE i \in 1 .. Len(out[c][s])
        BY <4>1, <1>7, <3>1
      <4>2. CASE i = Len(out[c][s]) + 1
        BY <4>2, <1>7, <3>1
      <4>. QED  BY <4>1, <4>2, <1>5, <1>7
    <3>. QED  BY <1>7, <2>1, <3>1, <3>2, <3>3
  <2>2. CASE ~(d = c /\ t = s /\ v = "read")
    <3>1. out'[d][t] = out[d][t] /\ (pump'[d][t] = pump[d][t] \/ pump'[d][t] = "done")
      BY <2>2, <1>3, <1>8
    <3>. QED  BY <3>1 DEF RelayInv, RelayedInv
  <2>. QED  BY <2>1, <2>2
<1>13. LoggedAsReceived' /\ LogInv'
  <2>1. \A d \in Conns, t \in Sides :
           taken[d][t] <= taken'[d][t] /\ (pump'[d][t] = "log" => pump[d][t] = "log")
    <3>1. \A d \in Conns, t \in Sides : taken[d][t] \in Nat /\ taken'[d][t] = taken[d][t]
      BY <1>1, <1>5
    <3>2. \A d \in Conns, t \in Sides : pump'[d][t] = "log" => pump[d][t] = "log"
      BY <1>3
    <3>. QED  BY <3>1, <3>2
  <2>. QED  BY <1>1, <1>5, <2>1, LogKept
<1>. QED  BY <1>9, <1>10, <1>11, <1>12, <1>13 DEF RelayInv

(* A frame that is not logged, or whose notice has been posted.            *)
LEMMA RelayInvToHooks ==
  ASSUME RelayInv, NEW c \in Conns, NEW s \in Sides, pump[c][s] \in {"log", "notify"},
         pump' = At(pump, c, s, "hooks"), newFrames' \in Seq(Nat), Len(newFrames') <= NoticeCap,
         UNCHANGED <<budget, gone, stage, connID, closed, taken, carries, out, rows, frames,
                     newConns, posted>>
  PROVE  RelayInv'
<1>1. /\ pump' \in [Conns -> [Sides -> Pumps]]
      /\ \A d \in Conns, t \in Sides :
           /\ pump'[d][t] = IF d = c /\ t = s THEN "hooks" ELSE pump[d][t]
           /\ stage'[d] \notin {"relay", "over"} => pump'[d][t] = "idle"
           /\ stage'[d] = "over" => pump'[d][t] = "done"
  BY PumpSteps DEF RelayInv, Pumps
<1>2. RowsInv' /\ CarriesInv' /\ RelayedInv'
  <2>1. RowsInv'
    BY DEF RelayInv, RowsInv
  <2>2. CarriesInv'
    BY <1>1 DEF RelayInv, CarriesInv
  <2>3. RelayedInv'
    BY <1>1 DEF RelayInv, RelayedInv
  <2>. QED  BY <2>1, <2>2, <2>3
<1>3. RelayTypeOK'
  BY <1>1 DEF RelayInv, RelayTypeOK, Pumps
<1>4. taken \in [Conns -> [Sides -> Nat]]
  BY DEF RelayInv, RelayTypeOK
<1>5. \A d \in Conns, t \in Sides :
         taken[d][t] <= taken'[d][t] /\ (pump'[d][t] = "log" => pump[d][t] = "log")
  <2>1. \A d \in Conns, t \in Sides : taken[d][t] \in Nat /\ taken'[d][t] = taken[d][t]
    BY <1>4
  <2>2. \A d \in Conns, t \in Sides : pump'[d][t] = "log" => pump[d][t] = "log"
    BY <1>1
  <2>. QED  BY <2>1, <2>2
<1>6. LoggedAsReceived' /\ LogInv'
  BY <1>4, <1>5, LogKept
<1>. QED  BY <1>2, <1>3, <1>6 DEF RelayInv

LEMMA RelayInvNotifyFrame ==
  ASSUME RelayInv, NEW c \in Conns, NEW s \in Sides, NotifyFrame(c, s)
  PROVE  RelayInv'
<1>1. /\ UNCHANGED <<budget, gone, stage, connID, closed, taken, carries, out, rows, frames,
                     newConns, posted>>
      /\ pump[c][s] = "notify" /\ pump' = At(pump, c, s, "hooks")
      /\ newFrames' = Notify(newFrames, connID[c])
  BY DEF NotifyFrame, peerVars, handlerVars
<1>2. newFrames \in Seq(Nat) /\ Len(newFrames) <= NoticeCap /\ connID[c] \in Nat
  BY DEF RelayInv, RelayTypeOK
<1>3. newFrames' \in Seq(Nat) /\ Len(newFrames') <= NoticeCap
  BY <1>1, <1>2, NotifyKeeps
<1>. QED  BY <1>1, <1>3, RelayInvToHooks

(* The store logs the frame in hand, which is as it came and newer than    *)
(* what its side has in the log.                                           *)
LEMMA RelayInvObserve ==
  ASSUME RelayInv, NEW c \in Conns, NEW s \in Sides, ObserveWebSocketFrame(c, s)
  PROVE  RelayInv'
<1>1. /\ UNCHANGED <<budget, gone, stage, connID, closed, taken, carries, out, rows, newConns,
                     newFrames, posted>>
      /\ pump[c][s] = "log"
  BY DEF ObserveWebSocketFrame, peerVars, handlerVars
<1>. DEFINE f == LoggedFrame(c, s)
<1>2. \/ frames' = frames /\ pump' = At(pump, c, s, "hooks")
      \/ connID[c] # 0 /\ frames' = Append(frames, f) /\ pump' = At(pump, c, s, "notify")
  BY DEF ObserveWebSocketFrame
<1>5. taken \in [Conns -> [Sides -> Nat]] /\ Len(frames) \in Nat /\ frames \in Seq(FrameRows)
  BY DEF RelayInv, RelayTypeOK, FrameRows
<1>6. CASE frames' = frames /\ pump' = At(pump, c, s, "hooks")
  <2>1. newFrames \in Seq(Nat) /\ Len(newFrames) <= NoticeCap
    BY DEF RelayInv, RelayTypeOK
  <2>. QED  BY <1>1, <1>6, <2>1, RelayInvToHooks
<1>7. CASE connID[c] # 0 /\ frames' = Append(frames, f) /\ pump' = At(pump, c, s, "notify")
  <2>0. /\ pump' \in [Conns -> [Sides -> Pumps]]
        /\ \A d \in Conns, t \in Sides :
             /\ pump'[d][t] = IF d = c /\ t = s THEN "notify" ELSE pump[d][t]
             /\ stage'[d] \notin {"relay", "over"} => pump'[d][t] = "idle"
             /\ stage'[d] = "over" => pump'[d][t] = "done"
    BY <1>1, <1>7, PumpSteps DEF RelayInv, Pumps
  <2>1. /\ f \in FrameRows /\ f.conn = connID[c] /\ f.from = s /\ f.n = taken[c][s]
        /\ f.payload = "original" /\ (f.whole \/ Large(c, s, taken[c][s]))
    <3>1. connID[c] \in Nat \ {0} /\ taken[c][s] \in Nat /\ Len(out[c][s]) \in Nat
      BY <1>7 DEF RelayInv, RelayTypeOK
    <3>2. taken[c][s] = Len(out[c][s]) + 1 /\ carries[c][s] = "original"
      BY <1>1 DEF RelayInv, RelayedInv, CarriesInv
    <3>3. CASE Large(c, s, taken[c][s])
      <4>1. f = [conn |-> connID[c], from |-> s, n |-> taken[c][s], payload |-> carries[c][s],
                 whole |-> FALSE]
        BY <3>3 DEF LoggedFrame
      <4>. QED  BY <3>1, <3>2, <3>3, <4>1 DEF FrameRows, Payloads
    <3>4. CASE ~Large(c, s, taken[c][s])
      <4>1. f = [conn |-> connID[c], from |-> s, n |-> taken[c][s], payload |-> carries[c][s],
                 whole |-> TRUE]
        BY <3>4 DEF LoggedFrame
      <4>. QED  BY <3>1, <3>2, <4>1 DEF FrameRows, Payloads
    <3>. QED  BY <3>3, <3>4
  <2>2. /\ connID[c] \in OldRows + 1 .. Len(rows) /\ rows[connID[c]] = c
        /\ connID[c] \in Nat
    BY <1>7 DEF RelayInv, RowsInv, RelayTypeOK
  <2>. HIDE DEF f
  <2>4. /\ frames' \in Seq(FrameRows) /\ Len(frames') = Len(frames) + 1
        /\ \A i \in 1 .. Len(frames) : frames'[i] = frames[i]
        /\ frames'[Len(frames) + 1] = f
    BY <1>5, <1>7, <2>1, AppendProperties
  <2>5. RelayTypeOK'
    <3>1. UNCHANGED <<budget, stage, connID, taken, gone, closed, carries, out, rows, newConns,
                    newFrames, posted>>
      BY <1>1
    <3>2. frames' \in Seq([conn : Nat \ {0}, from : Sides, n : Nat \ {0}, payload : Payloads,
                           whole : BOOLEAN])
      BY <2>4 DEF FrameRows
    <3>. QED  BY <2>0, <3>1, <3>2 DEF RelayInv, RelayTypeOK, Pumps
  <2>6. ASSUME NEW i \in 1 .. Len(frames)
        PROVE  /\ frames[i].conn \in OldRows + 1 .. Len(rows) /\ rows[frames[i].conn] \in Conns
               /\ frames[i].from \in Sides /\ frames[i].payload = "original"
               /\ frames[i].whole \/ Large(rows[frames[i].conn], frames[i].from, frames[i].n)
               /\ connID[rows[frames[i].conn]] = frames[i].conn
               /\ frames[i].n <= taken[rows[frames[i].conn]][frames[i].from]
               /\ frames[i].conn = f.conn /\ frames[i].from = f.from => frames[i].n < f.n
    <3>1. /\ frames[i].conn \in OldRows + 1 .. Len(rows) /\ frames[i].payload = "original"
          /\ frames[i].whole \/ Large(rows[frames[i].conn], frames[i].from, frames[i].n)
          /\ frames[i].n <= taken[rows[frames[i].conn]][frames[i].from]
      BY DEF RelayInv, LoggedAsReceived
    <3>2. rows[frames[i].conn] \in Conns /\ connID[rows[frames[i].conn]] = frames[i].conn
      BY <3>1 DEF RelayInv, RowsInv
    <3>3. frames[i].conn = f.conn /\ frames[i].from = f.from => frames[i].n < f.n
      BY <1>1, <2>1, <2>2 DEF RelayInv, LogInv
    <3>. QED  BY <3>1, <3>2, <3>3, FrameTypes DEF RelayInv
  <2>7. LoggedAsReceived' /\ RowsInv'
    <3>1. ASSUME NEW i \in 1 .. Len(frames')
          PROVE  /\ frames'[i].conn \in OldRows + 1 .. Len(rows)
                 /\ frames'[i].payload = "original"
                 /\ frames'[i].whole \/ Large(rows[frames'[i].conn], frames'[i].from, frames'[i].n)
                 /\ connID[rows[frames'[i].conn]] = frames'[i].conn
                 /\ frames'[i].n <= taken[rows[frames'[i].conn]][frames'[i].from]
      <4>1. CASE i \in 1 .. Len(frames)
        BY <4>1, <2>4, <2>6
      <4>2. CASE i = Len(frames) + 1
        <5>1. frames'[i] = f
          BY <4>2, <2>4
        <5>. QED  BY <5>1, <2>1, <2>2, <1>5
      <4>. QED  BY <4>1, <4>2, <2>4, <1>5
    <3>2. ASSUME NEW i \in 1 .. Len(frames'), NEW j \in 1 .. i - 1,
                 frames'[j].conn = frames'[i].conn, frames'[j].from = frames'[i].from
          PROVE  frames'[j].n < frames'[i].n
      <4>1. j \in 1 .. Len(frames) /\ frames'[j] = frames[j]
        BY <2>4, <1>5
      <4>2. CASE i \in 1 .. Len(frames)
        <5>1. frames'[i] = frames[i]
          BY <4>2, <2>4
        <5>. QED  BY <3>2, <4>1, <4>2, <5>1 DEF RelayInv, LoggedAsReceived
      <4>3. CASE i = Len(frames) + 1
        <5>1. frames'[i] = f
          BY <4>3, <2>4
        <5>2. frames[j].conn = f.conn /\ frames[j].from = f.from
          BY <3>2, <4>1, <5>1
        <5>3. frames[j].n < f.n
          BY <4>1, <5>2, <2>6
        <5>. QED  BY <4>1, <5>1, <5>3
      <4>4. i \in 1 .. Len(frames) \/ i = Len(frames) + 1
        BY <2>4, <1>5
      <4>. QED  BY <4>2, <4>3, <4>4
    <3>. QED  BY <1>1, <3>1, <3>2 DEF LoggedAsReceived, RowsInv, RelayInv, Large
  <2>8. LogInv'
    <3>. SUFFICES ASSUME NEW i \in 1 .. Len(frames'), NEW d, NEW t,
                         d = rows[frames'[i].conn], t = frames'[i].from, pump'[d][t] = "log"
         PROVE  frames'[i].n < taken[d][t]
      BY <1>1 DEF LogInv
    <3>1. CASE i \in 1 .. Len(frames)
      <4>1. frames'[i] = frames[i] /\ d \in Conns /\ t \in Sides
        BY <3>1, <2>4, <2>6
      <4>2. pump[d][t] = "log"
        BY <4>1, <2>0
      <4>. QED  BY <3>1, <4>1, <4>2 DEF RelayInv, LogInv
    <3>2. CASE i = Len(frames) + 1
      <4>1. frames'[i] = f /\ d = c /\ t = s
        BY <3>2, <2>1, <2>2, <2>4
      <4>. QED  BY <4>1, <2>0
    <3>. QED  BY <3>1, <3>2, <2>4, <1>5
  <2>9. CarriesInv' /\ RelayedInv'
    BY <1>1, <2>0 DEF RelayInv, CarriesInv, RelayedInv
  <2>. QED  BY <2>5, <2>7, <2>8, <2>9 DEF RelayInv
<1>. QED  BY <1>2, <1>6, <1>7

(* The invariant of the relays is inductive; of what the window sees,      *)
(* either the table grows by one row, or a row of it is announced.         *)
LEMMA RelayInvStep ==
  ASSUME RelayInv, RelayNext
  PROVE  /\ RelayInv' /\ budget' = budget
         /\ \/ /\ UNCHANGED <<newConns, posted>>
               /\ Len(rows') = Len(rows) /\ Unannounced' \subseteq Unannounced
            \/ /\ UNCHANGED <<newConns, posted>>
               /\ Len(rows') = Len(rows) + 1 /\ Unannounced' \subseteq Unannounced \cup {Len(rows')}
            \/ /\ Len(rows') = Len(rows) /\ Unannounced' \subseteq Unannounced
               /\ \E id \in Unannounced :
                    newConns' = Notify(newConns, id) /\ posted' = Append(posted, id)
<1>. PICK c \in Conns : Handle(c) \/ \E s \in Sides : GoAway(c, s) \/ Pump(c, s)
  BY DEF RelayNext
<1>1. closed \in [Conns -> [Sides -> BOOLEAN]] /\ [s \in Sides |-> TRUE] \in [Sides -> BOOLEAN]
  BY DEF RelayInv, RelayTypeOK
<1>0. stage \in [Conns -> Stages] /\ connID \in [Conns -> Nat] /\ rows \in Seq(Conns \cup {Earlier})
  BY DEF RelayInv, RelayTypeOK
<1>2. CASE Dial(c)
  <2>1. PICK how \in {"dialled", "refused"} : stage' = [stage EXCEPT ![c] = how]
    BY <1>2 DEF Dial, Leave
  <2>2. /\ closed' \in [Conns -> [Sides -> BOOLEAN]] /\ stage[c] = "asked"
        /\ UNCHANGED <<connID, peerVars, pumpVars, storeVars>>
    BY <1>1, <1>2 DEF Dial, Leave
  <2>3. Unannounced' \subseteq Unannounced
    BY <1>0, <2>1, <2>2 DEF Unannounced
  <2>. QED  BY <2>1, <2>2, <2>3, RelayInvHandler DEF peerVars, storeVars
<1>3. CASE Upgrade(c)
  <2>1. PICK how \in {"upgraded", "refused"} : stage' = [stage EXCEPT ![c] = how]
    BY <1>3 DEF Upgrade, Leave
  <2>2. /\ closed' \in [Conns -> [Sides -> BOOLEAN]] /\ stage[c] = "dialled"
        /\ UNCHANGED <<connID, peerVars, pumpVars, storeVars>>
    BY <1>1, <1>3 DEF Upgrade, Leave
  <2>3. Unannounced' \subseteq Unannounced
    BY <1>0, <2>1, <2>2 DEF Unannounced
  <2>. QED  BY <2>1, <2>2, <2>3, RelayInvHandler DEF peerVars, storeVars
<1>4. CASE Finish(c)
  <2>1. /\ closed' \in [Conns -> [Sides -> BOOLEAN]]
        /\ stage[c] = "relay" /\ stage' = [stage EXCEPT ![c] = "over"]
        /\ \A s \in Sides : pump[c][s] = "done"
        /\ UNCHANGED <<connID, peerVars, pumpVars, storeVars>>
    BY <1>1, <1>4 DEF Finish, Leave
  <2>2. Unannounced' \subseteq Unannounced
    BY <1>0, <2>1 DEF Unannounced
  <2>. QED  BY <2>1, <2>2, RelayInvHandler DEF peerVars, storeVars
<1>5. CASE LogWebSocketConnection(c)
  <2>1. /\ stage[c] = "upgraded" /\ budget' = budget /\ UNCHANGED <<newConns, posted>>
        /\ rows' \in {rows, Append(rows, c)}
        /\ \/ /\ rows' = Append(rows, c) /\ connID' = [connID EXCEPT ![c] = Len(rows')]
              /\ stage' = [stage EXCEPT ![c] = "logged"]
           \/ connID' = connID /\ stage' = [stage EXCEPT ![c] = "relay"]
    BY <1>5 DEF LogWebSocketConnection, StartPumps, peerVars
  <2>2. Len(Append(rows, c)) = Len(rows) + 1
    BY <1>0, AppendProperties
  <2>3. \/ Len(rows') = Len(rows) /\ Unannounced' \subseteq Unannounced
        \/ Len(rows') = Len(rows) + 1 /\ Unannounced' \subseteq Unannounced \cup {Len(rows')}
    <3>1. CASE connID' = connID /\ stage' = [stage EXCEPT ![c] = "relay"]
      <4>1. Unannounced' \subseteq Unannounced
        BY <1>0, <3>1 DEF Unannounced
      <4>. QED  BY <2>1, <2>2, <4>1
    <3>2. CASE /\ rows' = Append(rows, c) /\ connID' = [connID EXCEPT ![c] = Len(rows')]
               /\ stage' = [stage EXCEPT ![c] = "logged"]
      <4>1. \A d \in Conns : stage'[d] = "logged" =>
              \/ stage[d] = "logged" /\ connID'[d] = connID[d]
              \/ connID'[d] = Len(rows')
        BY <1>0, <2>1, <3>2
      <4>2. Unannounced' \subseteq Unannounced \cup {Len(rows')}
        BY <4>1 DEF Unannounced
      <4>. QED  BY <2>2, <3>2, <4>2
    <3>. QED  BY <2>1, <3>1, <3>2
  <2>. QED  BY <1>5, <2>1, <2>3, RelayInvLogConnection
<1>8. CASE NotifyConnection(c)
  <2>1. /\ stage[c] = "logged" /\ budget' = budget /\ rows' = rows /\ connID' = connID
        /\ stage' = [stage EXCEPT ![c] = "relay"]
        /\ newConns' = Notify(newConns, connID[c]) /\ posted' = Append(posted, connID[c])
    BY <1>8 DEF NotifyConnection, StartPumps, peerVars
  <2>2. connID[c] \in Unannounced
    BY <2>1 DEF Unannounced
  <2>3. Unannounced' \subseteq Unannounced
    BY <1>0, <2>1 DEF Unannounced
  <2>. QED  BY <1>8, <2>1, <2>2, <2>3, RelayInvNotifyConnection
<1>6. ASSUME NEW s \in Sides, GoAway(c, s)
      PROVE  /\ RelayInv' /\ budget' = budget
             /\ UNCHANGED <<rows, newConns, posted>> /\ Unannounced' = Unannounced
  <2>1. /\ gone' = At(gone, c, s, TRUE) /\ budget' = budget
        /\ UNCHANGED <<handlerVars, pumpVars, rows, frames, newConns, newFrames, posted>>
    BY <1>6 DEF GoAway, storeVars
  <2>2. gone' \in [Conns -> [Sides -> BOOLEAN]]
    BY <2>1 DEF RelayInv, RelayTypeOK, At
  <2>3. /\ newConns \in Seq(Nat) /\ newFrames \in Seq(Nat)
        /\ Len(newConns) <= NoticeCap /\ Len(newFrames) <= NoticeCap
    BY DEF RelayInv, RelayTypeOK
  <2>. QED  BY <2>1, <2>2, <2>3, RelayInvNotices DEF Unannounced, handlerVars
<1>7. ASSUME NEW s \in Sides, Pump(c, s)
      PROVE  /\ RelayInv' /\ budget' = budget
             /\ UNCHANGED <<rows, newConns, posted>> /\ Unannounced' = Unannounced
  <2>1. RelayInv'
    BY <1>7, RelayInvReadMessage, RelayInvReadFails, RelayInvObserve, RelayInvNotifyFrame,
       RelayInvHooks, RelayInvWriteMessage DEF Pump
  <2>2. budget' = budget /\ UNCHANGED <<rows, newConns, posted, stage, connID>>
    BY <1>7 DEF Pump, ReadMessage, ReadFails, ObserveWebSocketFrame, NotifyFrame, Hooks,
                WriteMessage, peerVars, handlerVars, storeVars
  <2>. QED  BY <2>1, <2>2 DEF Unannounced
<1>. QED  BY <1>2, <1>3, <1>4, <1>5, <1>6, <1>7, <1>8 DEF Handle

-----------------------------------------------------------------------------
(* The window.                                                             *)

LEMMA WindowInvInit == Init => RelayInv /\ WindowInv
<1>. SUFFICES ASSUME Init PROVE RelayInv /\ WindowInv
  OBVIOUS
<1>1. RelayInv /\ RelayTypeOK
  BY RelayInvInit DEF Init, RelayInv
<1>2. /\ Len(rows) \in Nat /\ budget.opens \in Nat
      /\ Len(newConns) = 0 /\ allConns \in Seq(1 .. Len(rows)) /\ Len(allConns) = 0
      /\ \A c \in Conns : stage[c] # "logged"
  <2>1. budget.opens \in Nat /\ Len(rows) \in Nat
    BY <1>1, RelayAssumption DEF RelayTypeOK
  <2>2. /\ newConns = <<>> /\ allConns = <<>>
        /\ \A c \in Conns : stage[c] # "logged"
    BY DEF Init, RelayInit
  <2>. QED  BY <2>1, <2>2, EmptySeq
<1>3. /\ query \in [Queries -> Loads(Len(rows)) \cup {NoQuery}]
      /\ \A q \in Queries : query[q] = NoQuery
  BY DEF Init
<1>4. NoticesInv /\ ListInOrder
  <2>1. Unannounced = {}
    BY <1>2 DEF Unannounced
  <2>. QED  BY <1>2, <2>1 DEF NoticesInv, ListInOrder
<1>5. /\ opened \in 0 .. budget.opens /\ open \in BOOLEAN
      /\ selected \in 0 .. Len(rows) /\ shown \in 0 .. Len(rows)
  <2>1. opened = 0 /\ selected = 0 /\ shown = 0 /\ open \in BOOLEAN
    BY DEF Init
  <2>. QED  BY <1>2, <2>1
<1>. QED  BY <1>1, <1>2, <1>3, <1>4, <1>5 DEF WindowInv, TypeOK

(* What the steps below use of the invariant. *)
LEMMA WindowFacts ==
  ASSUME WindowInv
  PROVE  /\ opened \in 0 .. budget.opens /\ open \in BOOLEAN
         /\ Len(rows) \in Nat /\ budget.opens \in Nat
         /\ allConns \in Seq(1 .. Len(rows)) /\ Len(allConns) \in Nat
         /\ \A i \in 1 .. Len(allConns) : allConns[i] \in 1 .. Len(rows)
         /\ newConns \in Seq(Nat) /\ newFrames \in Seq(Nat)
         /\ selected \in 0 .. Len(rows) /\ shown \in 0 .. Len(rows)
         /\ query \in [Queries -> Loads(Len(rows)) \cup {NoQuery}]
         /\ NoticesInv /\ ListInOrder
<1>1. RelayTypeOK /\ allConns \in Seq(1 .. Len(rows))
  BY DEF WindowInv, TypeOK
<1>2. Len(rows) \in Nat /\ budget.opens \in Nat /\ newConns \in Seq(Nat) /\ newFrames \in Seq(Nat)
  BY <1>1, RelayAssumption DEF RelayTypeOK
<1>3. Len(allConns) \in Nat /\ \A i \in 1 .. Len(allConns) : allConns[i] \in 1 .. Len(rows)
  BY <1>1, ElementOfSeq
<1>. QED  BY <1>1, <1>2, <1>3 DEF WindowInv, TypeOK

(* A query that the window asks for is about a row it knows. *)
LEMMA GoAsks ==
  ASSUME WindowInv, NEW kind \in {"initial", "refresh", "frames"},
         NEW conn \in 0 .. Len(rows), Go(kind, conn)
  PROVE  query' \in [Queries -> Loads(Len(rows)) \cup {NoQuery}]
<1>1. Asks(kind, conn) \in Loads(Len(rows))
  <2>1. Len(rows) \in Nat
    BY DEF WindowInv, TypeOK, RelayTypeOK
  <2>. QED  BY <2>1 DEF Asks, Loads
<1>. QED  BY <1>1 DEF WindowInv, Go

(* A notice is posted behind those there have been. *)
LEMMA PostedGrows ==
  ASSUME posted \in Seq(Nat), NEW id \in Nat, posted' = Append(posted, id)
  PROVE  /\ \A a : Posted(a) => Posted(a)' /\ PostedBefore(a, id)'
         /\ Posted(id)'
         /\ \A a, b : PostedBefore(a, b) => PostedBefore(a, b)'
<1>1. /\ Len(posted) \in Nat /\ Len(posted') = Len(posted) + 1
      /\ \A i \in 1 .. Len(posted) : posted'[i] = posted[i] /\ i \in 1 .. Len(posted') /\ i < Len(posted')
      /\ posted'[Len(posted')] = id /\ Len(posted') \in 1 .. Len(posted')
  BY AppendProperties, LenProperties
<1>2. Posted(id)'
  BY <1>1 DEF Posted
<1>3. ASSUME NEW a, Posted(a) PROVE Posted(a)' /\ PostedBefore(a, id)'
  <2>1. PICK i \in 1 .. Len(posted) : posted[i] = a
    BY <1>3 DEF Posted
  <2>2. posted'[i] = a /\ i \in 1 .. Len(posted') /\ i < Len(posted')
    BY <1>1, <2>1
  <2>. QED  BY <1>1, <2>2 DEF Posted, PostedBefore
<1>4. ASSUME NEW a, NEW b, PostedBefore(a, b) PROVE PostedBefore(a, b)'
  <2>1. PICK i \in 1 .. Len(posted), j \in 1 .. Len(posted) : i < j /\ posted[i] = a /\ posted[j] = b
    BY <1>4 DEF PostedBefore
  <2>2. /\ posted'[i] = a /\ i \in 1 .. Len(posted') /\ i < j
        /\ posted'[j] = b /\ j \in 1 .. Len(posted')
    BY <1>1, <2>1
  <2>. QED  BY <2>2 DEF PostedBefore
<1>. QED  BY <1>2, <1>3, <1>4

(* The table grows; the new row is newer than all that is listed. *)
LEMMA NoticesNewRow ==
  ASSUME WindowInv, UNCHANGED <<allConns, newConns, posted>>,
         \/ Len(rows') = Len(rows) /\ Unannounced' \subseteq Unannounced
         \/ Len(rows') = Len(rows) + 1 /\ Unannounced' \subseteq Unannounced \cup {Len(rows')}
  PROVE  NoticesInv' /\ ListInOrder'
<1>1. Len(rows) \in Nat /\ \A j \in 1 .. Len(allConns) : allConns[j] \in 1 .. Len(rows)
  BY WindowFacts
<1>2. 1 .. Len(rows) \subseteq 1 .. Len(rows')
  BY <1>1
<1>3. ListInOrder'
  BY DEF WindowInv, ListInOrder, PostedBefore
<1>4. /\ \A i \in 1 .. Len(newConns') : newConns'[i] \in 1 .. Len(rows') /\ Posted(newConns[i])'
      /\ \A i, j \in 1 .. Len(newConns') : i < j => PostedBefore(newConns[i], newConns[j])'
      /\ \A i \in 1 .. Len(newConns'), j \in 1 .. Len(allConns') :
           Listed(newConns[i])' \/ Below(allConns[j], newConns[i])'
  BY <1>2 DEF WindowInv, NoticesInv, Listed, Posted, PostedBefore, Below
<1>5. ASSUME NEW id \in Unannounced'
      PROVE  /\ id \in 1 .. Len(rows')
             /\ \A j \in 1 .. Len(allConns') : Listed(id)' \/ id > allConns'[j] \/ Posted(allConns[j])'
  <2>1. CASE id \in Unannounced
    BY <1>2, <2>1 DEF WindowInv, NoticesInv, Listed, Posted
  <2>2. CASE id = Len(rows') /\ Len(rows') = Len(rows) + 1
    BY <1>1, <2>2
  <2>. QED  BY <2>1, <2>2
<1>6. NoticesInv'
  BY <1>4, <1>5 DEF NoticesInv
<1>. QED  BY <1>3, <1>6

(* A row is announced: all notices that are in the channel have been posted*)
(* before it, and so have those of the newer rows that are listed.         *)
LEMMA NoticesAnnounced ==
  ASSUME RelayInv, WindowInv, UNCHANGED allConns, Len(rows') = Len(rows),
         Unannounced' \subseteq Unannounced, NEW id \in Unannounced,
         newConns' = Notify(newConns, id), posted' = Append(posted, id)
  PROVE  NoticesInv' /\ ListInOrder'
<1>1. /\ Len(rows) \in Nat /\ \A j \in 1 .. Len(allConns) : allConns[j] \in 1 .. Len(rows)
      /\ newConns \in Seq(Nat) /\ Len(newConns) \in Nat /\ id \in 1 .. Len(rows) /\ id \in Nat
  BY WindowFacts DEF NoticesInv
<1>2. Len(newConns) <= NoticeCap /\ posted \in Seq(Nat)
  BY DEF RelayInv, RelayTypeOK
<1>3. /\ \A a : Posted(a) => Posted(a)' /\ PostedBefore(a, id)'
      /\ Posted(id)'
      /\ \A a, b : PostedBefore(a, b) => PostedBefore(a, b)'
  BY <1>1, <1>2, PostedGrows
<1>4. ListInOrder'
  BY <1>3 DEF WindowInv, ListInOrder
<1>5. /\ Len(newConns') \in Len(newConns) .. Len(newConns) + 1
      /\ \A i \in 1 .. Len(newConns) : newConns'[i] = newConns[i]
      /\ \A i \in Len(newConns) + 1 .. Len(newConns') : newConns'[i] = id
  <2>1. CASE newConns' = newConns
    BY <1>1, <2>1
  <2>2. CASE newConns' = Append(newConns, id)
    BY <1>1, <2>2, AppendProperties
  <2>. QED  BY <2>1, <2>2 DEF Notify
<1>6. \A i \in 1 .. Len(newConns') :
         \/ i \in 1 .. Len(newConns) /\ newConns'[i] = newConns[i]
         \/ i = Len(newConns) + 1 /\ newConns'[i] = id
  BY <1>1, <1>5
<1>7. /\ \A i \in 1 .. Len(newConns) : newConns[i] \in 1 .. Len(rows) /\ Posted(newConns[i])
      /\ \A i, j \in 1 .. Len(newConns) : i < j => PostedBefore(newConns[i], newConns[j])
      /\ \A i \in 1 .. Len(newConns), j \in 1 .. Len(allConns) :
           Listed(newConns[i]) \/ Below(allConns[j], newConns[i])
      /\ \A u \in Unannounced : u \in 1 .. Len(rows)
      /\ \A u \in Unannounced, j \in 1 .. Len(allConns) :
           Listed(u) \/ u > allConns[j] \/ Posted(allConns[j])
  BY DEF WindowInv, NoticesInv
<1>8. \A a : Listed(a)' <=> Listed(a)
  BY DEF Listed
<1>9. ASSUME NEW i \in 1 .. Len(newConns')
      PROVE  newConns'[i] \in 1 .. Len(rows') /\ Posted(newConns[i])'
  BY <1>1, <1>3, <1>6, <1>7
<1>10. ASSUME NEW i \in 1 .. Len(newConns'), NEW j \in 1 .. Len(newConns'), i < j
       PROVE  PostedBefore(newConns[i], newConns[j])'
  <2>1. i \in 1 .. Len(newConns) /\ newConns'[i] = newConns[i]
    BY <1>1, <1>5, <1>6, <1>10
  <2>2. CASE j \in 1 .. Len(newConns) /\ newConns'[j] = newConns[j]
    BY <1>3, <1>7, <1>10, <2>1, <2>2
  <2>3. CASE newConns'[j] = id
    <3>1. Posted(newConns[i])
      BY <1>7, <2>1
    <3>. QED  BY <1>3, <2>1, <2>3, <3>1
  <2>. QED  BY <1>6, <2>2, <2>3
<1>11. ASSUME NEW i \in 1 .. Len(newConns'), NEW j \in 1 .. Len(allConns')
       PROVE  Listed(newConns[i])' \/ Below(allConns[j], newConns[i])'
  <2>1. CASE i \in 1 .. Len(newConns) /\ newConns'[i] = newConns[i]
    BY <1>3, <1>7, <1>8, <2>1 DEF Below
  <2>2. CASE newConns'[i] = id
    <3>1. CASE Listed(id) \/ id > allConns[j]
      BY <1>8, <2>2, <3>1 DEF Below
    <3>2. CASE ~(Listed(id) \/ id > allConns[j])
      <4>1. Posted(allConns[j]) /\ allConns[j] \in 1 .. Len(rows) /\ allConns[j] # id
        BY <1>1, <1>7, <3>2 DEF Listed
      <4>2. id < allConns[j]
        BY <1>1, <3>2, <4>1
      <4>3. PostedBefore(allConns[j], id)'
        BY <1>3, <4>1
      <4>. QED  BY <2>2, <4>2, <4>3 DEF Below
    <3>. QED  BY <3>1, <3>2
  <2>. QED  BY <1>6, <2>1, <2>2
<1>12. /\ \A u \in Unannounced' : u \in 1 .. Len(rows')
       /\ \A u \in Unannounced', j \in 1 .. Len(allConns') :
            Listed(u)' \/ u > allConns'[j] \/ Posted(allConns[j])'
  BY <1>3, <1>7, <1>8
<1>. QED  BY <1>4, <1>9, <1>10, <1>11, <1>12 DEF NoticesInv

(* A relay goes on: a row is new, or announced, or neither.                *)
LEMMA WindowInvRelay ==
  ASSUME RelayInv, WindowInv, RelayNext, UNCHANGED windowVars
  PROVE  WindowInv'
<1>1. /\ RelayInv' /\ budget' = budget
      /\ \/ /\ UNCHANGED <<newConns, posted>>
            /\ Len(rows') = Len(rows) /\ Unannounced' \subseteq Unannounced
         \/ /\ UNCHANGED <<newConns, posted>>
            /\ Len(rows') = Len(rows) + 1 /\ Unannounced' \subseteq Unannounced \cup {Len(rows')}
         \/ /\ Len(rows') = Len(rows) /\ Unannounced' \subseteq Unannounced
            /\ \E id \in Unannounced :
                 newConns' = Notify(newConns, id) /\ posted' = Append(posted, id)
  BY RelayInvStep
<1>2. UNCHANGED <<opened, open, allConns, selected, shown, query>>
  BY DEF windowVars
<1>3. Len(rows) \in Nat /\ Len(rows') \in Nat /\ Len(rows) <= Len(rows')
  <2>1. Len(rows) \in Nat
    BY WindowFacts
  <2>2. Len(rows') = Len(rows) \/ Len(rows') = Len(rows) + 1
    BY <1>1
  <2>. QED  BY <2>1, <2>2
<1>4. TypeOK' /\ query' \in [Queries -> Loads(Len(rows')) \cup {NoQuery}]
  <2>1. 1 .. Len(rows) \subseteq 1 .. Len(rows') /\ 0 .. Len(rows) \subseteq 0 .. Len(rows')
    BY <1>3
  <2>2. Loads(Len(rows)) \subseteq Loads(Len(rows'))
    BY <2>1 DEF Loads
  <2>3. query' \in [Queries -> Loads(Len(rows')) \cup {NoQuery}]
    BY <1>2, <2>2 DEF WindowInv
  <2>4. allConns \in Seq(1 .. Len(rows))
    BY DEF WindowInv, TypeOK
  <2>5. allConns' \in Seq(1 .. Len(rows'))
    BY <1>2, <2>1, <2>4, SeqMonotonic
  <2>6. /\ RelayTypeOK' /\ opened' \in 0 .. budget'.opens /\ open' \in BOOLEAN
        /\ selected' \in 0 .. Len(rows') /\ shown' \in 0 .. Len(rows')
    BY <1>1, <1>2, <2>1 DEF RelayInv, WindowInv, TypeOK
  <2>7. \A q \in Queries : query'[q] # NoQuery => query'[q] \in Loads(Len(rows'))
    BY <2>3
  <2>. QED  BY <2>3, <2>5, <2>6, <2>7 DEF TypeOK, Loads
<1>5. NoticesInv' /\ ListInOrder'
  BY <1>1, <1>2, NoticesNewRow, NoticesAnnounced
<1>. QED  BY <1>4, <1>5 DEF WindowInv

(* What the window does to other variables leaves notices and list alone.  *)
LEMMA NoticesUntouched ==
  ASSUME WindowInv, UNCHANGED <<handlerVars, rows, posted, newConns, allConns>>
  PROVE  NoticesInv' /\ ListInOrder'
<1>1. UNCHANGED <<stage, connID>>
  BY DEF handlerVars
<1>2. Unannounced' = Unannounced
  BY <1>1 DEF Unannounced
<1>3. Len(rows') = Len(rows) /\ Unannounced' \subseteq Unannounced
  BY <1>2
<1>. QED  BY <1>3, NoticesNewRow

(* A step of the window leaves the relays alone but for the notices.       *)
LEMMA WindowInvNotices ==
  ASSUME RelayInv, UNCHANGED <<peerVars, handlerVars, pumpVars, rows, frames, posted>>,
         newConns' = newConns \/ (newConns # <<>> /\ newConns' = Tail(newConns)),
         newFrames' = newFrames \/ (newFrames # <<>> /\ newFrames' = Tail(newFrames))
  PROVE  RelayInv'
<1>1. /\ newConns \in Seq(Nat) /\ newFrames \in Seq(Nat) /\ NoticeCap \in Nat
      /\ Len(newConns) <= NoticeCap /\ Len(newFrames) <= NoticeCap
      /\ gone \in [Conns -> [Sides -> BOOLEAN]]
  BY RelayAssumption DEF RelayInv, RelayTypeOK
<1>2. newConns' \in Seq(Nat) /\ Len(newConns') <= NoticeCap
  <2>1. newConns # <<>> => /\ Tail(newConns) \in Seq(Nat)
                           /\ Len(newConns) \in Nat /\ Len(Tail(newConns)) = Len(newConns) - 1
    BY <1>1, HeadTailProperties
  <2>2. CASE newConns' = newConns
    BY <1>1, <2>2
  <2>3. CASE newConns # <<>> /\ newConns' = Tail(newConns)
    BY <1>1, <2>1, <2>3
  <2>. QED  BY <2>2, <2>3
<1>3. newFrames' \in Seq(Nat) /\ Len(newFrames') <= NoticeCap
  <2>1. newFrames # <<>> => /\ Tail(newFrames) \in Seq(Nat)
                           /\ Len(newFrames) \in Nat /\ Len(Tail(newFrames)) = Len(newFrames) - 1
    BY <1>1, HeadTailProperties
  <2>2. CASE newFrames' = newFrames
    BY <1>1, <2>2
  <2>3. CASE newFrames # <<>> /\ newFrames' = Tail(newFrames)
    BY <1>1, <2>1, <2>3
  <2>. QED  BY <2>2, <2>3
<1>4. budget' = budget /\ gone' = gone
  BY DEF peerVars
<1>. QED  BY <1>1, <1>2, <1>3, <1>4, RelayInvNotices

(* The conjuncts of TypeOK that are about the window only. *)
LEMMA WindowTypes ==
  ASSUME RelayInv', UNCHANGED <<rows, budget>>,
         opened' \in 0 .. budget.opens, open' \in BOOLEAN,
         allConns' \in Seq(1 .. Len(rows)),
         selected' \in 0 .. Len(rows), shown' \in 0 .. Len(rows),
         query' \in [Queries -> Loads(Len(rows)) \cup {NoQuery}], NoticesInv', ListInOrder'
  PROVE  WindowInv'
<1>1. \A q \in Queries : query'[q] # NoQuery => query'[q] \in Loads(Len(rows))
  OBVIOUS
<1>. QED  BY <1>1 DEF RelayInv, WindowInv, TypeOK, Loads

(* Open, Close, Select and Refresh. *)
LEMMA WindowInvUser ==
  ASSUME RelayInv, WindowInv,
         Open \/ Close \/ Refresh \/ \E i \in 1 .. Len(allConns) : Select(i)
  PROVE  RelayInv' /\ WindowInv'
<1>1. /\ UNCHANGED <<peerVars, handlerVars, pumpVars, rows, frames, posted>>
      /\ budget' = budget /\ rows' = rows /\ newConns' = newConns /\ newFrames' = newFrames
  <2>1. UNCHANGED relayVars
    BY DEF Open, Close, Refresh, Select
  <2>. QED  BY <2>1 DEF relayVars, peerVars, storeVars
<1>2. RelayInv'
  <2>1. /\ newConns' = newConns \/ (newConns # <<>> /\ newConns' = Tail(newConns))
        /\ newFrames' = newFrames \/ (newFrames # <<>> /\ newFrames' = Tail(newFrames))
    BY <1>1
  <2>. QED  BY <1>1, <2>1, WindowInvNotices
<1>. USE WindowFacts
<1>3. CASE allConns' = allConns
  <2>1. NoticesInv' /\ ListInOrder'
    BY <1>1, <1>3, NoticesUntouched
  <2>2. CASE Open
    <3>1. Go("initial", 0) /\ opened' = opened + 1 /\ opened < budget.opens
          /\ open' = TRUE /\ UNCHANGED <<selected, shown>>
      BY <2>2 DEF Open
    <3>2. query' \in [Queries -> Loads(Len(rows)) \cup {NoQuery}]
      BY <3>1, GoAsks
    <3>3. opened' \in 0 .. budget.opens /\ open' \in BOOLEAN
      BY <3>1
    <3>. QED  BY <1>1, <1>2, <1>3, <2>1, <3>1, <3>2, <3>3, WindowTypes
  <2>3. CASE Refresh
    <3>1. Go("refresh", 0) /\ UNCHANGED <<opened, open, selected, shown>>
      BY <2>3 DEF Refresh
    <3>2. query' \in [Queries -> Loads(Len(rows)) \cup {NoQuery}]
      BY <3>1, GoAsks
    <3>. QED  BY <1>1, <1>2, <1>3, <2>1, <3>1, <3>2, WindowTypes
  <2>4. ASSUME NEW i \in 1 .. Len(allConns), Select(i) PROVE WindowInv'
    <3>1. Go("frames", selected') /\ selected' = allConns[i] /\ UNCHANGED <<opened, open, shown>>
      BY <2>4 DEF Select
    <3>2. selected' \in 0 .. Len(rows)
      BY <3>1
    <3>3. query' \in [Queries -> Loads(Len(rows)) \cup {NoQuery}]
      BY <3>1, <3>2, GoAsks
    <3>. QED  BY <1>1, <1>2, <1>3, <2>1, <3>1, <3>2, <3>3, WindowTypes
  <2>5. CASE Close
    <3>1. open' = FALSE /\ selected' = 0 /\ shown' = 0 /\ opened' = opened
          /\ query' = [q \in Queries |-> NoQuery]
      BY <2>5 DEF Close
    <3>2. query' \in [Queries -> Loads(Len(rows)) \cup {NoQuery}] /\ open' \in BOOLEAN
      BY <3>1
    <3>. QED  BY <1>1, <1>2, <1>3, <2>1, <3>1, <3>2, WindowTypes
  <2>. QED  BY <1>2, <2>2, <2>3, <2>4, <2>5
<1>4. CASE allConns' # allConns
  <2>1. open' = FALSE /\ selected' = 0 /\ shown' = 0 /\ opened' = opened
        /\ query' = [q \in Queries |-> NoQuery] /\ allConns' = <<>>
    BY <1>4 DEF Open, Close, Refresh, Select
  <2>2. /\ query' \in [Queries -> Loads(Len(rows)) \cup {NoQuery}] /\ open' \in BOOLEAN
        /\ allConns' \in Seq(1 .. Len(rows)) /\ Len(allConns') = 0
    BY <2>1, EmptySeq
  <2>3. ListInOrder'
    BY <2>2 DEF ListInOrder
  <2>4. NoticesInv'
    <3>1. UNCHANGED <<stage, connID, rows, posted, newConns>>
      BY <1>1 DEF handlerVars
    <3>2. Unannounced' = Unannounced
      BY <3>1 DEF Unannounced
    <3>3. /\ \A a : Posted(a)' <=> Posted(a)
          /\ \A a, b : PostedBefore(a, b)' <=> PostedBefore(a, b)
      BY <3>1 DEF Posted, PostedBefore
    <3>4. /\ \A i \in 1 .. Len(newConns) : newConns[i] \in 1 .. Len(rows) /\ Posted(newConns[i])
          /\ \A i, j \in 1 .. Len(newConns) : i < j => PostedBefore(newConns[i], newConns[j])
          /\ \A id \in Unannounced : id \in 1 .. Len(rows)
      BY DEF NoticesInv
    <3>5. \A j \in 1 .. Len(allConns') : FALSE
      BY <2>2
    <3>. HIDE WindowFacts
    <3>. QED  BY <3>1, <3>2, <3>3, <3>4, <3>5 DEF NoticesInv
  <2>. QED  BY <1>1, <1>2, <2>1, <2>2, <2>3, <2>4, WindowTypes
<1>. QED  BY <1>3, <1>4

(* The answers of AllWebSocketConnections list the newest first, and any   *)
(* row that is not among them is newer.                                    *)
LEMMA AllInOrder ==
  ASSUME NEW n \in Nat, NEW m \in Nat, n <= m
  PROVE  LET all == AllWebSocketConnections(n) IN
         /\ all \in Seq(1 .. m) /\ Len(all) = n
         /\ \A i \in 1 .. n : all[i] = n + 1 - i
         /\ \A id \in 1 .. n : \E i \in 1 .. n : all[i] = id
<1>. DEFINE all == AllWebSocketConnections(n)
<1>1. /\ all \in Seq(1 .. m) /\ Len(all) = n
      /\ \A i \in 1 .. n : all[i] = n + 1 - i
  BY DEF AllWebSocketConnections
<1>2. ASSUME NEW id \in 1 .. n PROVE \E i \in 1 .. n : all[i] = id
  <2>1. n + 1 - id \in 1 .. n /\ n + 1 - (n + 1 - id) = id
    OBVIOUS
  <2>. QED  BY <1>1, <2>1
<1>. QED  BY <1>1, <1>2

(* Query, LandConns and LandFrames. *)
LEMMA WindowInvQueries ==
  ASSUME RelayInv, WindowInv, NEW q \in Queries, Query(q) \/ LandConns(q) \/ LandFrames(q)
  PROVE  RelayInv' /\ WindowInv'
<1>1. /\ UNCHANGED <<peerVars, handlerVars, pumpVars, rows, frames, posted>>
      /\ budget' = budget /\ rows' = rows /\ newConns' = newConns /\ newFrames' = newFrames
      /\ opened' = opened /\ open' = open /\ selected' = selected
  <2>1. UNCHANGED relayVars /\ UNCHANGED <<opened, open, selected>>
    BY DEF Query, LandConns, LandFrames
  <2>. QED  BY <2>1 DEF relayVars, peerVars, storeVars
<1>2. RelayInv'
  <2>1. /\ newConns' = newConns \/ (newConns # <<>> /\ newConns' = Tail(newConns))
        /\ newFrames' = newFrames \/ (newFrames # <<>> /\ newFrames' = Tail(newFrames))
    BY <1>1
  <2>. QED  BY <1>1, <2>1, WindowInvNotices
<1>. USE WindowFacts
<1>3. query[q] \in Loads(Len(rows))
  BY DEF Query, LandConns, LandFrames
<1>4. CASE Query(q)
  <2>1. UNCHANGED <<allConns, shown>>
    BY <1>4 DEF Query
  <2>2. query' \in [Queries -> Loads(Len(rows)) \cup {NoQuery}]
    <3>1. CASE query' = [query EXCEPT ![q].read = TRUE, ![q].rows = Len(rows)]
      <4>. DEFINE a == [query[q] EXCEPT !.read = TRUE, !.rows = Len(rows)]
      <4>1. a \in Loads(Len(rows))
        <5>1. Len(rows) \in 0 .. Len(rows)
          OBVIOUS
        <5>. HIDE WindowFacts
        <5>. QED  BY <1>3, <5>1 DEF Loads
      <4>2. query' = [query EXCEPT ![q] = a]
        BY <3>1
      <4>. HIDE DEF a
      <4>. QED  BY <4>1, <4>2
    <3>2. CASE query' = [query EXCEPT ![q] = NoQuery]
      BY <3>2
    <3>. QED  BY <1>4, <3>1, <3>2 DEF Query
  <2>3. NoticesInv' /\ ListInOrder'
    BY <1>1, <2>1, NoticesUntouched
  <2>. QED  BY <1>1, <1>2, <2>1, <2>2, <2>3, WindowTypes
<1>5. CASE LandFrames(q)
  <2>1. /\ allConns' = allConns /\ shown' = query[q].conn
        /\ query' = [query EXCEPT ![q] = NoQuery]
    BY <1>5 DEF LandFrames
  <2>2. query' \in [Queries -> Loads(Len(rows)) \cup {NoQuery}] /\ shown' \in 0 .. Len(rows)
    BY <1>3, <2>1 DEF Loads
  <2>3. NoticesInv' /\ ListInOrder'
    BY <1>1, <2>1, NoticesUntouched
  <2>. QED  BY <1>1, <1>2, <2>1, <2>2, <2>3, WindowTypes
<1>6. CASE LandConns(q)
  <2>. DEFINE n == query[q].rows
  <2>1. /\ allConns' = AllWebSocketConnections(n) /\ shown' = shown
        /\ \/ query' = [query EXCEPT ![q] = Asks("frames", selected)]
           \/ query' = [query EXCEPT ![q] = NoQuery]
    BY <1>6 DEF LandConns
  <2>2. n \in Nat /\ n <= Len(rows)
    BY <1>3 DEF Loads
  <2>. HIDE DEF n
  <2>3. query' \in [Queries -> Loads(Len(rows)) \cup {NoQuery}]
    <3>1. Asks("frames", selected) \in Loads(Len(rows))
      BY DEF Asks, Loads
    <3>. QED  BY <2>1, <3>1
  <2>4. /\ allConns' \in Seq(1 .. Len(rows)) /\ Len(allConns') = n
        /\ \A i \in 1 .. n : allConns'[i] = n + 1 - i
        /\ \A id \in 1 .. n : \E i \in 1 .. n : allConns'[i] = id
    BY <2>1, <2>2, AllInOrder
  <2>5. ListInOrder'
    BY <2>2, <2>4 DEF ListInOrder
  <2>6. ASSUME NEW id \in 1 .. Len(rows), NEW j \in 1 .. Len(allConns')
        PROVE  Listed(id)' \/ id > allConns'[j]
    <3>0. Len(rows) \in Nat
      OBVIOUS
    <3>. HIDE WindowFacts
    <3>1. CASE id <= n
      <4>1. id \in 1 .. n
        BY <3>0, <3>1, <2>2
      <4>2. \E k \in 1 .. n : allConns'[k] = id
        BY <4>1, <2>4
      <4>. QED  BY <4>2, <2>4 DEF Listed
    <3>2. CASE id > n
      BY <3>0, <3>2, <2>2, <2>4
    <3>. QED  BY <3>0, <3>1, <3>2, <2>2
  <2>7. NoticesInv'
    <3>1. UNCHANGED <<stage, connID, rows, posted, newConns>>
      BY <1>1 DEF handlerVars
    <3>2. Unannounced' = Unannounced
      BY <3>1 DEF Unannounced
    <3>3. /\ \A i \in 1 .. Len(newConns) : newConns[i] \in 1 .. Len(rows) /\ Posted(newConns[i])
          /\ \A i, j \in 1 .. Len(newConns) : i < j => PostedBefore(newConns[i], newConns[j])
          /\ \A id \in Unannounced : id \in 1 .. Len(rows)
      BY DEF NoticesInv
    <3>4. /\ \A i \in 1 .. Len(newConns') : newConns'[i] \in 1 .. Len(rows') /\ Posted(newConns[i])'
          /\ \A i, j \in 1 .. Len(newConns') : i < j => PostedBefore(newConns[i], newConns[j])'
      BY <3>1, <3>3 DEF Posted, PostedBefore
    <3>. HIDE WindowFacts
    <3>5. \A i \in 1 .. Len(newConns'), j \in 1 .. Len(allConns') :
            Listed(newConns[i])' \/ Below(allConns[j], newConns[i])'
      BY <2>6, <3>1, <3>3 DEF Listed, Below
    <3>6. /\ \A id \in Unannounced' : id \in 1 .. Len(rows')
          /\ \A id \in Unannounced', j \in 1 .. Len(allConns') :
               Listed(id)' \/ id > allConns'[j] \/ Posted(allConns[j])'
      BY <2>6, <3>1, <3>2, <3>3
    <3>. QED  BY <3>4, <3>5, <3>6 DEF NoticesInv
  <2>. QED  BY <1>1, <1>2, <2>1, <2>3, <2>4, <2>5, <2>7, WindowTypes
<1>. QED  BY <1>2, <1>4, <1>5, <1>6

(* What holds of a channel of notices holds of the rest of it.             *)
LEMMA NoticesTail ==
  ASSUME WindowInv, newConns # <<>>, newConns' = Tail(newConns),
         UNCHANGED <<handlerVars, rows, posted, allConns>>
  PROVE  NoticesInv' /\ ListInOrder'
<1>1. /\ Len(newConns) \in Nat \ {0} /\ Len(newConns') = Len(newConns) - 1
      /\ \A i \in 1 .. Len(newConns') : newConns'[i] = newConns[i + 1]
  BY WindowFacts, HeadTailProperties, EmptySeq
<1>2. \A i \in 1 .. Len(newConns') : i + 1 \in 1 .. Len(newConns)
  BY <1>1
<1>3. UNCHANGED <<stage, connID>>
  BY DEF handlerVars
<1>4. /\ \A i \in 1 .. Len(newConns) : newConns[i] \in 1 .. Len(rows) /\ Posted(newConns[i])
      /\ \A i, j \in 1 .. Len(newConns) : i < j => PostedBefore(newConns[i], newConns[j])
      /\ \A i \in 1 .. Len(newConns), j \in 1 .. Len(allConns) :
           Listed(newConns[i]) \/ Below(allConns[j], newConns[i])
  BY DEF WindowInv, NoticesInv
<1>5. /\ \A a : Listed(a)' <=> Listed(a)
      /\ \A a : Posted(a)' <=> Posted(a)
      /\ \A a, b : PostedBefore(a, b)' <=> PostedBefore(a, b)
      /\ \A a, b : Below(a, b)' <=> Below(a, b)
  BY DEF Listed, Posted, PostedBefore, Below
<1>6. \A i \in 1 .. Len(newConns') : newConns'[i] \in 1 .. Len(rows) /\ Posted(newConns[i])'
  BY <1>1, <1>2, <1>4, <1>5
<1>7. ASSUME NEW i \in 1 .. Len(newConns'), NEW j \in 1 .. Len(newConns'), i < j
      PROVE  PostedBefore(newConns[i], newConns[j])'
  <2>1. i + 1 < j + 1
    BY <1>1, <1>7
  <2>2. PostedBefore(newConns[i + 1], newConns[j + 1])
    BY <1>2, <1>4, <2>1
  <2>. QED  BY <1>1, <1>5, <2>2
<1>8. \A i \in 1 .. Len(newConns'), j \in 1 .. Len(allConns') :
        Listed(newConns[i])' \/ Below(allConns[j], newConns[i])'
  BY <1>1, <1>2, <1>4, <1>5
<1>9. Unannounced' = Unannounced
  BY <1>3 DEF Unannounced
<1>10. /\ \A id \in Unannounced' : id \in 1 .. Len(rows')
       /\ \A id \in Unannounced', j \in 1 .. Len(allConns') :
            Listed(id)' \/ id > allConns'[j] \/ Posted(allConns[j])'
  BY <1>5, <1>9 DEF WindowInv, NoticesInv
<1>11. ListInOrder'
  BY <1>5 DEF WindowInv, ListInOrder
<1>. QED  BY <1>6, <1>7, <1>8, <1>10, <1>11 DEF NoticesInv

(* The row of the next notice goes on top of the list.                     *)
LEMMA NoticesShown ==
  ASSUME WindowInv, newConns # <<>>, newConns' = Tail(newConns),
         UNCHANGED <<handlerVars, rows, posted>>,
         ~Listed(Head(newConns)), allConns' = <<Head(newConns)>> \o allConns
  PROVE  allConns' \in Seq(1 .. Len(rows)) /\ NoticesInv' /\ ListInOrder'
<1>0. PICK id : id = Head(newConns)
  OBVIOUS
<1>1. /\ Len(newConns) \in Nat \ {0} /\ Len(newConns') = Len(newConns) - 1
      /\ \A i \in 1 .. Len(newConns') : newConns'[i] = newConns[i + 1]
      /\ id = newConns[1] /\ 1 \in 1 .. Len(newConns)
  BY <1>0, WindowFacts, HeadTailProperties, EmptySeq
<1>2. \A i \in 1 .. Len(newConns') : i + 1 \in 1 .. Len(newConns) /\ 1 < i + 1
  BY <1>1
<1>3. /\ \A i \in 1 .. Len(newConns) : newConns[i] \in 1 .. Len(rows) /\ Posted(newConns[i])
      /\ \A i, j \in 1 .. Len(newConns) : i < j => PostedBefore(newConns[i], newConns[j])
      /\ \A i \in 1 .. Len(newConns), j \in 1 .. Len(allConns) :
           Listed(newConns[i]) \/ Below(allConns[j], newConns[i])
      /\ \A u \in Unannounced : u \in 1 .. Len(rows)
      /\ \A u \in Unannounced, j \in 1 .. Len(allConns) :
           Listed(u) \/ u > allConns[j] \/ Posted(allConns[j])
  BY DEF WindowInv, NoticesInv
<1>4. /\ id \in 1 .. Len(rows) /\ Posted(id)
      /\ \A j \in 1 .. Len(allConns) : Below(allConns[j], id)
  BY <1>1, <1>3
<1>5. /\ allConns \in Seq(1 .. Len(rows)) /\ Len(allConns) \in Nat /\ Len(rows) \in Nat
      /\ \A j \in 1 .. Len(allConns) : allConns[j] \in 1 .. Len(rows)
  BY WindowFacts
<1>6. /\ allConns' \in Seq(1 .. Len(rows)) /\ Len(allConns') = Len(allConns) + 1
      /\ allConns'[1] = id
      /\ \A j \in 2 .. Len(allConns') : allConns'[j] = allConns[j - 1]
  <2>1. /\ <<id>> \in Seq(1 .. Len(rows)) /\ Len(<<id>>) = 1 /\ <<id>>[1] = id
        /\ allConns' = <<id>> \o allConns
    BY <1>0, <1>4
  <2>. QED  BY <1>5, <2>1, ConcatProperties
<1>7. /\ \A a : Posted(a)' <=> Posted(a)
      /\ \A a, b : PostedBefore(a, b)' <=> PostedBefore(a, b)
      /\ \A a, b : Below(a, b)' <=> Below(a, b)
  BY DEF Posted, PostedBefore, Below
<1>8. \A a : Listed(a) => Listed(a)'
  <2>. SUFFICES ASSUME NEW a, Listed(a) PROVE Listed(a)'
    OBVIOUS
  <2>1. PICK i \in 1 .. Len(allConns) : allConns[i] = a
    BY DEF Listed
  <2>2. i + 1 \in 2 .. Len(allConns') /\ i + 1 - 1 = i
    BY <1>5, <1>6
  <2>3. allConns'[i + 1] = a /\ i + 1 \in 1 .. Len(allConns')
    BY <1>5, <1>6, <2>1, <2>2
  <2>. QED  BY <2>3 DEF Listed
<1>9. Listed(id)'
  <2>1. 1 \in 1 .. Len(allConns') /\ allConns'[1] = id
    BY <1>5, <1>6
  <2>. QED  BY <2>1 DEF Listed
<1>10. ASSUME NEW j \in 1 .. Len(allConns'), j # 1
       PROVE  j - 1 \in 1 .. Len(allConns) /\ allConns'[j] = allConns[j - 1]
  BY <1>5, <1>6, <1>10
<1>11. ListInOrder'
  <2>. SUFFICES ASSUME NEW i \in 1 .. Len(allConns'), NEW j \in 1 .. Len(allConns'), i < j
       PROVE  \/ allConns'[i] > allConns'[j]
              \/ allConns'[i] < allConns'[j] /\ PostedBefore(allConns[j], allConns[i])'
    BY DEF ListInOrder
  <2>1. j - 1 \in 1 .. Len(allConns) /\ allConns'[j] = allConns[j - 1]
    BY <1>10
  <2>2. CASE i = 1
    <3>1. Below(allConns[j - 1], id)
      BY <1>4, <2>1
    <3>. QED  BY <1>6, <1>7, <2>1, <2>2, <3>1 DEF Below
  <2>3. CASE i # 1
    <3>1. i - 1 \in 1 .. Len(allConns) /\ allConns'[i] = allConns[i - 1] /\ i - 1 < j - 1
      BY <1>10, <2>3
    <3>. QED  BY <1>7, <2>1, <3>1 DEF WindowInv, ListInOrder
  <2>. QED  BY <2>2, <2>3
<1>12. \A i \in 1 .. Len(newConns') : newConns'[i] \in 1 .. Len(rows) /\ Posted(newConns[i])'
  BY <1>1, <1>2, <1>3, <1>7
<1>13. ASSUME NEW i \in 1 .. Len(newConns'), NEW j \in 1 .. Len(newConns'), i < j
       PROVE  PostedBefore(newConns[i], newConns[j])'
  <2>1. i + 1 < j + 1
    BY <1>1, <1>13
  <2>2. PostedBefore(newConns[i + 1], newConns[j + 1])
    BY <1>2, <1>3, <2>1
  <2>. QED  BY <1>1, <1>7, <2>2
<1>14. ASSUME NEW i \in 1 .. Len(newConns'), NEW j \in 1 .. Len(allConns')
       PROVE  Listed(newConns[i])' \/ Below(allConns[j], newConns[i])'
  <2>1. newConns'[i] = newConns[i + 1] /\ i + 1 \in 1 .. Len(newConns) /\ 1 < i + 1
    BY <1>1, <1>2
  <2>2. CASE j = 1
    <3>1. PostedBefore(id, newConns[i + 1]) /\ newConns[i + 1] \in 1 .. Len(rows)
      BY <1>1, <1>3, <2>1
    <3>2. CASE newConns[i + 1] = id
      <4>1. newConns'[i] = id
        BY <2>1, <3>2
      <4>. QED  BY <1>9, <4>1 DEF Listed
    <3>3. CASE newConns[i + 1] # id
      <4>1. Below(id, newConns[i + 1])
        BY <1>4, <1>5, <3>1, <3>3 DEF Below
      <4>. QED  BY <1>6, <1>7, <2>1, <2>2, <4>1
    <3>. QED  BY <3>2, <3>3
  <2>3. CASE j # 1
    <3>1. j - 1 \in 1 .. Len(allConns) /\ allConns'[j] = allConns[j - 1]
      BY <1>10, <2>3
    <3>2. Listed(newConns[i + 1]) \/ Below(allConns[j - 1], newConns[i + 1])
      BY <1>3, <2>1, <3>1
    <3>. QED  BY <1>7, <1>8, <2>1, <3>1, <3>2
  <2>. QED  BY <2>2, <2>3
<1>15. Unannounced' = Unannounced
  BY DEF Unannounced, handlerVars
<1>16. ASSUME NEW u \in Unannounced', NEW j \in 1 .. Len(allConns')
       PROVE  Listed(u)' \/ u > allConns'[j] \/ Posted(allConns[j])'
  <2>1. CASE j = 1
    BY <1>4, <1>6, <1>7, <2>1
  <2>2. CASE j # 1
    <3>1. j - 1 \in 1 .. Len(allConns) /\ allConns'[j] = allConns[j - 1]
      BY <1>10, <2>2
    <3>2. Listed(u) \/ u > allConns[j - 1] \/ Posted(allConns[j - 1])
      BY <1>3, <1>15, <3>1
    <3>. QED  BY <1>7, <1>8, <3>1, <3>2
  <2>. QED  BY <2>1, <2>2
<1>17. \A u \in Unannounced' : u \in 1 .. Len(rows')
  BY <1>3, <1>15
<1>18. NoticesInv'
  BY <1>12, <1>13, <1>14, <1>16, <1>17 DEF NoticesInv
<1>. QED  BY <1>6, <1>11, <1>18

(* ConnNotice, FrameNotice and TakenByOld. *)
LEMMA WindowInvWatch ==
  ASSUME RelayInv, WindowInv, Watch
  PROVE  RelayInv' /\ WindowInv'
<1>1. /\ UNCHANGED <<peerVars, handlerVars, pumpVars, rows, frames, posted>>
      /\ budget' = budget /\ rows' = rows
      /\ newConns' = newConns \/ (newConns # <<>> /\ newConns' = Tail(newConns))
      /\ newFrames' = newFrames \/ (newFrames # <<>> /\ newFrames' = Tail(newFrames))
      /\ opened' = opened /\ open' = open /\ selected' = selected /\ shown' = shown
  BY DEF Watch, ConnNotice, FrameNotice, TakenByOld, peerVars, windowVars
<1>2. RelayInv'
  BY <1>1, WindowInvNotices
<1>. USE WindowFacts
<1>3. CASE ConnNotice
  <2>. DEFINE id == Head(newConns)
  <2>1. /\ query' = query /\ newConns # <<>> /\ newConns' = Tail(newConns)
        /\ allConns' = IF Listed(id) THEN allConns ELSE <<id>> \o allConns
    BY <1>3 DEF ConnNotice
  <2>2. CASE Listed(id)
    <3>1. NoticesInv' /\ ListInOrder'
      BY <1>1, <2>1, <2>2, NoticesTail
    <3>. QED  BY <1>1, <1>2, <2>1, <2>2, <3>1, WindowTypes
  <2>3. CASE ~Listed(id)
    <3>1. allConns' \in Seq(1 .. Len(rows)) /\ NoticesInv' /\ ListInOrder'
      BY <1>1, <2>1, <2>3, NoticesShown
    <3>. QED  BY <1>1, <1>2, <2>1, <3>1, WindowTypes
  <2>. QED  BY <2>2, <2>3, <1>2
<1>4. CASE FrameNotice
  <2>1. /\ newConns' = newConns /\ allConns' = allConns
        /\ Go("frames", selected) \/ query' = query
    BY <1>4 DEF FrameNotice
  <2>2. query' \in [Queries -> Loads(Len(rows)) \cup {NoQuery}]
    BY <2>1, GoAsks
  <2>3. NoticesInv' /\ ListInOrder'
    BY <1>1, <2>1, NoticesUntouched
  <2>. QED  BY <1>1, <1>2, <2>1, <2>2, <2>3, WindowTypes
<1>5. CASE TakenByOld
  <2>1. allConns' = allConns /\ query' = query
    BY <1>5 DEF TakenByOld, windowVars
  <2>2. NoticesInv' /\ ListInOrder'
    <3>1. CASE newConns' = newConns
      BY <1>1, <2>1, <3>1, NoticesUntouched
    <3>2. CASE newConns # <<>> /\ newConns' = Tail(newConns)
      BY <1>1, <2>1, <3>2, NoticesTail
    <3>. QED  BY <1>1, <3>1, <3>2
  <2>. QED  BY <1>1, <1>2, <2>1, <2>2, WindowTypes
<1>. QED  BY <1>2, <1>3, <1>4, <1>5 DEF Watch

-----------------------------------------------------------------------------
(* The theorems.                                                           *)

LEMMA InvStep == RelayInv /\ WindowInv /\ [Next]_vars => RelayInv' /\ WindowInv'
<1>. SUFFICES ASSUME RelayInv, WindowInv, [Next]_vars PROVE RelayInv' /\ WindowInv'
  OBVIOUS
<1>1. CASE UNCHANGED vars
  <2>1. UNCHANGED <<relayVars, windowVars>>
    BY <1>1 DEF vars
  <2>2. /\ UNCHANGED <<peerVars, handlerVars, pumpVars, rows, frames, posted>>
        /\ budget' = budget /\ rows' = rows /\ newConns' = newConns /\ newFrames' = newFrames
        /\ opened' = opened /\ open' = open /\ selected' = selected /\ shown' = shown
        /\ allConns' = allConns /\ query' = query
    BY <2>1 DEF relayVars, windowVars, peerVars, storeVars
  <2>3. RelayInv'
    <3>1. /\ newConns' = newConns \/ (newConns # <<>> /\ newConns' = Tail(newConns))
          /\ newFrames' = newFrames \/ (newFrames # <<>> /\ newFrames' = Tail(newFrames))
      BY <2>2
    <3>. QED  BY <2>2, <3>1, WindowInvNotices
  <2>4. NoticesInv' /\ ListInOrder'
    BY <2>2, NoticesUntouched
  <2>. QED  BY <2>2, <2>3, <2>4, WindowFacts, WindowTypes
<1>2. CASE RelayNext /\ UNCHANGED windowVars
  BY <1>2, RelayInvStep, WindowInvRelay
<1>3. CASE WindowNext
  BY <1>3, WindowInvUser, WindowInvQueries, WindowInvWatch DEF WindowNext
<1>. QED  BY <1>1, <1>2, <1>3 DEF Next

(* Every pump belongs to a relay that has begun and not ended, every ID is *)
(* that of its connection's own row, and the window shows rows that exist. *)
THEOREM WebSocketTypeCorrect == Spec => []TypeOK
<1>1. WindowInv => TypeOK
  BY DEF WindowInv
<1>. QED  BY <1>1, WindowInvInit, InvStep, PTL DEF Spec

(* The frames of either side reach the other one in order, none lost,      *)
(* repeated or overtaken, and the log keeps them before any plugin, cut    *)
(* only when they are larger than wsFrameSizeLimit, in the order of their  *)
(* side and under their connection's row.                                  *)
THEOREM FramesAreKept == Spec => []FramesKept
<1>1. RelayInv => FramesKept
  <2>. SUFFICES ASSUME RelayInv PROVE FramesInOrder
    BY DEF FramesKept, RelayInv
  <2>. SUFFICES ASSUME NEW c \in Conns, NEW s \in Sides
       PROVE  /\ \A i \in 1 .. Len(out[c][s]) : out[c][s][i] = i
              /\ pump[c][s] # "done"
                  => taken[c][s] = Len(out[c][s]) + (IF InHand(c, s) THEN 1 ELSE 0)
    BY DEF FramesInOrder
  <2>1. pump[c][s] \in Pumps /\ Len(out[c][s]) \in Nat
    BY DEF RelayInv, RelayTypeOK, Pumps
  <2>2. /\ \A i \in 1 .. Len(out[c][s]) : out[c][s][i] = i
        /\ pump[c][s] \in {"idle", "read"} => taken[c][s] = Len(out[c][s])
        /\ pump[c][s] \in {"log", "notify", "hooks", "write"} => taken[c][s] = Len(out[c][s]) + 1
    BY DEF RelayInv, RelayedInv
  <2>3. CASE InHand(c, s)
    BY <2>2, <2>3 DEF InHand
  <2>4. CASE ~InHand(c, s) /\ pump[c][s] # "done"
    <3>1. taken[c][s] = Len(out[c][s])
      BY <2>1, <2>2, <2>4 DEF InHand, Pumps
    <3>. QED  BY <2>1, <2>2, <2>4, <3>1
  <2>. QED  BY <2>2, <2>3, <2>4
<1>. QED  BY <1>1, WindowInvInit, InvStep, PTL DEF Spec

(* The window lists connections once and the newest first but for those    *)
(* whose handler was overtaken before its notice, in whichever order       *)
(* notices, the initial load and the answers of Refresh arrive.            *)
THEOREM ListIsInOrder == Spec => []ListInOrder
<1>1. WindowInv => ListInOrder
  BY DEF WindowInv
<1>. QED  BY <1>1, WindowInvInit, InvStep, PTL DEF Spec
=============================================================================
