----------------------------- MODULE StoreWriter -----------------------------
(***************************************************************************)
(* The store's write serialiser (internal/store/project.go): write sends a *)
(* closure to writeLoop and waits for its error, while Close may shut the  *)
(* store down at any moment.  Two kinds of write notify the UI:            *)
(*   - "log" (history.go, Log): from inside the closure, on Updates, after *)
(*     looking at done;                                                    *)
(*   - "notify" (websocket.go, loot.go, plugin.go): after write returned   *)
(*     nil, in the caller's goroutine.                                     *)
(* A "plain" write (scope, annotations, repeater, intruder) does neither.  *)
(***************************************************************************)
EXTENDS Naturals, Sequences

CONSTANTS
    Writers,    \* each is one call of a write operation
    Kind,       \* [Writers -> {"log", "notify", "plain"}]
    Single,     \* the writes that can report the error of one statement only
    None,       \* no closure is running
    QueueCap,   \* capacity of writeCh (256)
    UpdateCap,  \* capacity of Updates (256)
    NoticeCap   \* capacity of the other notification channels (256)

ASSUME WriterAssumption ==
    /\ None \notin Writers
    /\ Kind \in [Writers -> {"log", "notify", "plain"}]
    /\ Single \subseteq Writers
    /\ \A w \in Writers : Kind[w] = "log" => w \in Single
    /\ QueueCap \in Nat \ {0} /\ UpdateCap \in Nat \ {0} /\ NoticeCap \in Nat \ {0}

VARIABLES
    pc,         \* where each call is
    ret,        \* what write returned
    errorChan,  \* content of each call's errorChan (capacity 1)
    writeCh,    \* s.writeCh
    loop,       \* writeLoop: in its select, draining, or returned
    cur,        \* the closure writeLoop runs
    step,       \* where in that closure it is
    outcome,    \* the error the closure is going to report
    committed,  \* the writes the database has executed, in order
    closing,    \* how far Close has come
    updates,    \* s.Updates
    notices,    \* number of entries in the other notification channels
    panicked,   \* a send on a closed channel ended the program
    seen        \* history: position in committed of the last update received

callVars == <<pc, ret, errorChan>>
loopVars == <<loop, cur, step, outcome, committed>>
uiVars   == <<updates, notices, seen>>
vars     == <<callVars, writeCh, loopVars, closing, uiVars, panicked>>

Executed == {committed[i] : i \in 1 .. Len(committed)}

(* The stages of Close, in its order. *)
Closing == {"open", "done", "updates", "notices", "db"}
DoneClosed == closing # "open"
UpdatesClosed == closing \in {"updates", "notices", "db"}
NoticesClosed == closing \in {"notices", "db"}

Init ==
    /\ pc = [w \in Writers |-> "idle"]
    /\ ret = [w \in Writers |-> "none"]
    /\ errorChan = [w \in Writers |-> "none"]
    /\ writeCh = <<>>
    /\ loop = "select" /\ cur = None /\ step = "exec" /\ outcome = "none"
    /\ committed = <<>>
    /\ closing = "open"
    /\ updates = <<>> /\ notices = 0 /\ seen = 0
    /\ panicked = FALSE

-----------------------------------------------------------------------------
(* Mistakes, one per property.                                             *)

(* UpdatesInCommitOrder: the row is sent by a goroutine of its own. *)
SendUpdateAnywhere ==
    /\ step = "send" /\ cur # None
    /\ IF Len(updates) < UpdateCap
       THEN \E i \in 0 .. Len(updates) :
              updates' = SubSeq(updates, 1, i) \o <<cur>> \o SubSeq(updates, i + 1, Len(updates))
       ELSE UNCHANGED updates
    /\ step' = "answer"
    /\ UNCHANGED <<callVars, writeCh, loop, cur, outcome, committed, closing,
                   notices, seen, panicked>>

(* SerialStoreSpec: the closure's error is swallowed. *)
ExecFailSilently ==
    /\ cur # None /\ step = "exec"
    /\ outcome' = "ok" /\ step' = "answer"
    /\ UNCHANGED <<callVars, writeCh, loop, cur, committed, closing, uiVars, panicked>>

(* WriteReturns: the second select of write has no done case. *)
AwaitErrorOnly(w) ==
    /\ pc[w] = "waiting" /\ errorChan[w] # "none"
    /\ ret' = [ret EXCEPT ![w] = errorChan[w]]
    /\ errorChan' = [errorChan EXCEPT ![w] = "none"]
    /\ pc' = [pc EXCEPT ![w] = "returned"]
    /\ UNCHANGED <<writeCh, loopVars, closing, uiVars, panicked>>

-----------------------------------------------------------------------------
(* write and its callers.                                                  *)

Begin(w) ==
    /\ pc[w] = "idle"
    /\ pc' = [pc EXCEPT ![w] = "submit"]
    /\ UNCHANGED <<ret, errorChan, writeCh, loopVars, closing, uiVars, panicked>>

(* select { s.writeCh <- closure ; <-s.done } *)
Submit(w) ==
    /\ pc[w] = "submit"
    /\ \/ /\ Len(writeCh) < QueueCap
          /\ writeCh' = Append(writeCh, w)
          /\ pc' = [pc EXCEPT ![w] = "waiting"]
          /\ UNCHANGED ret
       \/ /\ DoneClosed
          /\ ret' = [ret EXCEPT ![w] = "closed"]
          /\ pc' = [pc EXCEPT ![w] = "returned"]
          /\ UNCHANGED writeCh
    /\ UNCHANGED <<errorChan, loopVars, closing, uiVars, panicked>>

(* select { <-errorChan ; <-s.done } *)
Await(w) ==
    /\ pc[w] = "waiting"
    /\ \/ /\ errorChan[w] # "none"
          /\ ret' = [ret EXCEPT ![w] = errorChan[w]]
          /\ errorChan' = [errorChan EXCEPT ![w] = "none"]
          /\ pc' = [pc EXCEPT ![w] =
                      IF errorChan[w] = "ok" /\ Kind[w] = "notify" THEN "notify"
                      ELSE "returned"]
       \/ /\ DoneClosed
          /\ ret' = [ret EXCEPT ![w] = "closed"]
          /\ pc' = [pc EXCEPT ![w] = "returned"]
          /\ UNCHANGED errorChan
    /\ UNCHANGED <<writeCh, loopVars, closing, uiVars, panicked>>

(* select { s.LootEntries <- struct{}{} ; default }, and its likes; the    *)
(* send panics on a closed channel.                                        *)
Notify(w) ==
    /\ pc[w] = "notify"
    /\ pc' = [pc EXCEPT ![w] = "returned"]
    /\ \/ /\ NoticesClosed
          /\ panicked' = TRUE
          /\ UNCHANGED notices
       \/ /\ ~NoticesClosed
          /\ notices' = IF notices < NoticeCap THEN notices + 1 ELSE notices
          /\ UNCHANGED panicked
    /\ UNCHANGED <<ret, errorChan, writeCh, loopVars, closing, updates, seen>>

-----------------------------------------------------------------------------
(* writeLoop.                                                              *)

LoopReceive ==
    /\ loop # "stopped" /\ cur = None
    /\ writeCh # <<>>
    /\ cur' = Head(writeCh)
    /\ writeCh' = Tail(writeCh)
    /\ step' = "exec"
    /\ UNCHANGED <<callVars, loop, outcome, committed, closing, uiVars, panicked>>

(* The select may take its done case while closures are still queued: the  *)
(* inner loop then runs those before it returns.                           *)
LoopSeeDone ==
    /\ loop = "select" /\ cur = None
    /\ DoneClosed
    /\ loop' = "drain"
    /\ UNCHANGED <<callVars, writeCh, cur, step, outcome, committed, closing, uiVars, panicked>>

LoopStop ==
    /\ loop = "drain" /\ cur = None
    /\ writeCh = <<>>
    /\ loop' = "stopped"
    /\ UNCHANGED <<callVars, writeCh, cur, step, outcome, committed, closing, uiVars, panicked>>

ExecOK ==
    /\ cur # None /\ step = "exec" /\ closing # "db"
    /\ committed' = Append(committed, cur)
    /\ outcome' = "ok"
    /\ step' = IF Kind[cur] = "log" THEN "checkDone" ELSE "answer"
    /\ UNCHANGED <<callVars, writeCh, loop, cur, closing, uiVars, panicked>>

(* Not a Single write: the statement is executed, and then VACUUM fails    *)
(* (ClearHistory) or the id of the new row cannot be had (AddLoot,         *)
(* SaveRepeaterTab, LogWebSocketConnection).  Log ignores that error.      *)
ExecThenFail ==
    /\ cur # None /\ step = "exec" /\ closing # "db"
    /\ cur \notin Single
    /\ committed' = Append(committed, cur)
    /\ outcome' = "error"
    /\ step' = "answer"
    /\ UNCHANGED <<callVars, writeCh, loop, cur, closing, uiVars, panicked>>

(* A statement can fail at any time, and always does on a closed database. *)
ExecFail ==
    /\ cur # None /\ step = "exec"
    /\ outcome' = "error"
    /\ step' = "answer"
    /\ UNCHANGED <<callVars, writeCh, loop, cur, committed, closing, uiVars, panicked>>

(* Log's guard against a store that is shutting down ... *)
CheckDone ==
    /\ cur # None /\ step = "checkDone"
    /\ step' = IF DoneClosed THEN "answer" ELSE "send"
    /\ UNCHANGED <<callVars, writeCh, loop, cur, outcome, committed, closing, uiVars, panicked>>

(* ... and the send that follows it: select { s.Updates <- t ; default }. *)
SendUpdate ==
    /\ cur # None /\ step = "send"
    /\ \/ UpdatesClosed /\ panicked' = TRUE /\ UNCHANGED updates
       \/ /\ ~UpdatesClosed
          /\ updates' = IF Len(updates) < UpdateCap THEN Append(updates, cur) ELSE updates
          /\ UNCHANGED panicked
    /\ step' = "answer"
    /\ UNCHANGED <<callVars, writeCh, loop, cur, outcome, committed, closing, notices, seen>>

(* errorChan <- err *)
Answer ==
    /\ cur # None /\ step = "answer"
    /\ errorChan' = [errorChan EXCEPT ![cur] = outcome]
    /\ cur' = None /\ step' = "exec" /\ outcome' = "none"
    /\ UNCHANGED <<pc, ret, writeCh, loop, committed, closing, uiVars, panicked>>

Loop == \/ LoopReceive \/ LoopSeeDone \/ LoopStop
        \/ ExecOK \/ ExecThenFail \/ ExecFail
        \/ CheckDone \/ SendUpdate \/ Answer

-----------------------------------------------------------------------------
(* Close, one step per channel it closes (the notification channels other  *)
(* than Updates in one), and the readers in the UI.                        *)

CloseStep(from, to) ==
    /\ closing = from
    /\ closing' = to
    /\ UNCHANGED <<callVars, writeCh, loopVars, uiVars, panicked>>

Close == \/ CloseStep("open", "done") \/ CloseStep("done", "updates")
         \/ CloseStep("updates", "notices") \/ CloseStep("notices", "db")

Position(w) == CHOOSE i \in 1 .. Len(committed) : committed[i] = w

ReceiveUpdate ==
    /\ updates # <<>>
    /\ updates' = Tail(updates)
    /\ seen' = Position(Head(updates))
    /\ UNCHANGED <<callVars, writeCh, loopVars, closing, notices, panicked>>

ReceiveNotice ==
    /\ notices > 0
    /\ notices' = notices - 1
    /\ UNCHANGED <<callVars, writeCh, loopVars, closing, updates, seen, panicked>>

Next ==
    /\ ~panicked
    /\ \/ \E w \in Writers : Begin(w) \/ Submit(w) \/ Await(w) \/ Notify(w)
       \/ Loop \/ Close \/ ReceiveUpdate \/ ReceiveNotice

Spec == Init /\ [][Next]_vars

(* writeLoop and the callers are goroutines that run whenever they can.    *)
(* Nothing obliges the project to be closed or the UI to keep reading.     *)
FairSpec ==
    /\ Spec
    /\ WF_vars(~panicked /\ Loop)
    /\ \A w \in Writers : WF_vars(~panicked /\ (Submit(w) \/ Await(w) \/ Notify(w)))

-----------------------------------------------------------------------------
(* Properties.                                                             *)

(* Every channel stays within its capacity, every variable in its range.   *)
TypeOK ==
    /\ pc \in [Writers -> {"idle", "submit", "waiting", "notify", "returned"}]
    /\ ret \in [Writers -> {"none", "ok", "error", "closed"}]
    /\ errorChan \in [Writers -> {"none", "ok", "error"}]
    /\ writeCh \in Seq(Writers) /\ Len(writeCh) <= QueueCap
    /\ loop \in {"select", "drain", "stopped"}
    /\ cur \in Writers \cup {None}
    /\ step \in {"exec", "checkDone", "send", "answer"}
    /\ outcome \in {"none", "ok", "error"}
    /\ committed \in Seq(Writers)
    /\ closing \in Closing
    /\ updates \in Seq(Writers) /\ Len(updates) <= UpdateCap
    /\ notices \in 0 .. NoticeCap
    /\ panicked \in BOOLEAN
    /\ seen \in Nat

(* How a caller sees its write, and the promise it is given. *)
CallView == [w \in Writers |->
               IF pc[w] = "idle" THEN "none"
               ELSE IF pc[w] \in {"submit", "waiting"} THEN "called"
               ELSE ret[w]]

Serial == INSTANCE SerialStore WITH call <- CallView, log <- committed

(* The store keeps the promise of SerialStore whatever moment Close picks. *)
SerialStoreSpec == Serial!Spec

(* The UI is told only of rows the database holds.                         *)
UpdatesAreCommitted == \A i \in 1 .. Len(updates) : updates[i] \in Executed

(* The history tab receives rows in the order of their ids, although some  *)
(* are dropped when Updates is full: it prepends each on top.              *)
UpdatesInCommitOrder == [][seen' >= seen]_vars

(* Every write returns, also when Close overtakes it and writeLoop is gone.*)
WriteReturns ==
    \A w \in Writers : pc[w] = "submit" ~> pc[w] = "returned" \/ panicked
=============================================================================
