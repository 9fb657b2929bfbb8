---------------------------- MODULE InterceptGate ----------------------------
(***************************************************************************)
(* The intercept gate (internal/store/intercept.go) together with the tab  *)
(* that drives it (internal/ui/intercept.go).                              *)
(*                                                                         *)
(* Three kinds of goroutine meet here:                                     *)
(*   - one proxy goroutine per request, blocked in InterceptGate.Hold;     *)
(*   - watchQueue, which moves pending requests from the gate's channel to *)
(*     fyne.Do callbacks;                                                  *)
(*   - the UI main goroutine, which runs those callbacks in order, and the *)
(*     handlers of the buttons.  Handlers never interleave with each       *)
(*     other, but their critical sections interleave with Hold.            *)
(*                                                                         *)
(* A bypass channel is a generation number: 0 is made by NewInterceptGate, *)
(* and every make(chan struct{}) takes the next one.                       *)
(***************************************************************************)
EXTENDS Naturals, Sequences, FiniteSets

CONSTANTS
    Requests,   \* requests reaching the gate; each is one call of Hold
    None,       \* nil *PendingRequest
    QueueCap,   \* capacity of g.queue (1024 in NewInterceptGate)
    MaxGen      \* bound on the bypass channels made after the first one

ASSUME GateAssumption ==
    /\ None \notin Requests
    /\ QueueCap \in Nat \ {0}
    /\ MaxGen \in Nat

VARIABLES
    enabled,        \* g.enabled
    filterOn,       \* g.scopeCheckFn # nil
    sem,            \* number of tokens in g.sem
    queue,          \* g.queue
    bypass,         \* g.bypass
    bypassClosed,   \* g.bypassClosed
    closed,         \* the bypass channels closed so far
    pc,             \* where each Hold is
    bypassOf,       \* Hold's local bypass
    ticket,         \* position in which a Hold reached the semaphore
    nextTicket,
    reply,          \* content of PendingRequest.Reply (capacity 1)
    done,           \* pending requests whose done channel is closed
    result,         \* what Hold returns
    watch,          \* the pending watchQueue has received and not posted
    callbacks,      \* fyne.Do callbacks not yet run by the main goroutine
    pending,        \* interceptTab.pending
    ui,             \* where the main goroutine is inside a handler
    answered,       \* history: the decision the tab sent for a request
    lastShown       \* history: the ticket of the last request shown

gateVars == <<enabled, filterOn, sem, queue, bypass, bypassClosed, closed>>
holdVars == <<pc, bypassOf, ticket, nextTicket, reply, done, result>>
tabVars  == <<watch, callbacks, pending, ui, answered, lastShown>>
vars     == <<gateVars, holdVars, tabVars>>

(* A decision, as the request Hold hands back: unchanged, as edited by the *)
(* user, or not forwarded at all.                                          *)
Decisions == {"original", "edited", "dropped"}

Generations == 0 .. MaxGen

-----------------------------------------------------------------------------
(* NewInterceptGate and newInterceptTab: intercept is off, nothing waits.  *)
Init ==
    /\ enabled = FALSE /\ filterOn = FALSE
    /\ sem = 0
    /\ queue = <<>>
    /\ bypass = 0 /\ bypassClosed = FALSE /\ closed = {}
    /\ pc = [r \in Requests |-> "idle"]
    /\ bypassOf = [r \in Requests |-> 0]
    /\ ticket = [r \in Requests |-> 0] /\ nextTicket = 1
    /\ reply = [r \in Requests |-> "none"]
    /\ done = {}
    /\ result = [r \in Requests |-> "none"]
    /\ watch = None
    /\ callbacks = <<>>
    /\ pending = None
    /\ ui = "idle"
    /\ answered = [r \in Requests |-> "none"]
    /\ lastShown = 0

-----------------------------------------------------------------------------
(* Go channels.                                                            *)

(* The Holds between acquiring g.sem and giving it back. *)
Holding == {"recheckEnabled", "recheckBypass", "enqueue", "await", "parked",
            "cancel", "release"}

(* The Holds that have a local bypass. *)
Watching == Holding \cup {"acquire", "semwait"}

Steps == Watching \cup {"idle", "scope", "capture", "returned"}

Move(r, from, to) == pc[r] = from /\ pc' = [pc EXCEPT ![r] = to]

(* Hold gives up on interception and is about to return the request as is. *)
Return(r, v) == result' = [result EXCEPT ![r] = v]

Waiters == {r \in Requests : pc[r] = "semwait"}

-----------------------------------------------------------------------------
(* Mistakes, one per property: each is a plausible slip in the code, and   *)
(* the property named beside it must catch it.                             *)

(* ShownInArrivalOrder: any waiter gets the slot, as with a sync.Cond. *)
GiveBackSemToAny(r) ==
    \/ Waiters = {} /\ sem' = sem - 1 /\ pc' = [pc EXCEPT ![r] = "returned"]
    \/ \E w \in Waiters :
         /\ pc' = [pc EXCEPT ![r] = "returned", ![w] = "recheckEnabled"]
         /\ UNCHANGED sem

(* EveryHoldReturns: the bypass path forgets "<-g.sem". *)
HoldCancelLeakingSem(r) ==
    /\ Move(r, "cancel", "returned")
    /\ done' = done \cup {r}
    /\ UNCHANGED <<gateVars, tabVars, bypassOf, ticket, nextTicket, reply, result>>

(* DisplayedNotLost: the bypass path forgets pending.Cancel(). *)
HoldCancelUnmarked(r) ==
    /\ Move(r, "cancel", "release")
    /\ UNCHANGED <<gateVars, tabVars, bypassOf, ticket, nextTicket, reply, done, result>>

(* DecisionApplied: the original request is returned for any decision. *)
HoldAwaitIgnoringDecision(r) ==
    /\ \/ /\ reply[r] # "none" \/ bypassOf[r] \in closed
          /\ Move(r, "await", "release")
       \/ reply[r] = "none" /\ bypassOf[r] \notin closed /\ Move(r, "await", "parked")
    /\ Return(r, "original")
    /\ UNCHANGED <<gateVars, tabVars, bypassOf, ticket, nextTicket, reply, done>>

(* OnMeansIntercepting: turning on keeps the closed channel. *)
ToggleOnKeepingBypass ==
    /\ ui = "onReplace" /\ ui' = "idle"
    /\ UNCHANGED <<gateVars, holdVars, watch, callbacks, pending, answered, lastShown>>

(* ReplyNeverBlocks: decide leaves t.pending set. *)
DecideKeepingPending ==
    /\ ui = "idle" /\ pending # None /\ reply[pending] = "none"
    /\ \E v \in Decisions :
         /\ reply' = [reply EXCEPT ![pending] = v]
         /\ answered' = [answered EXCEPT ![pending] = v]
    /\ UNCHANGED <<gateVars, pc, bypassOf, ticket, nextTicket, done, result,
                   watch, callbacks, pending, ui, lastShown>>

-----------------------------------------------------------------------------
(* <-g.sem: the runtime hands the slot to the sender that has waited       *)
(* longest, if there is one.                                               *)
GiveBackSem(r) ==
    \/ /\ Waiters = {}
       /\ sem' = sem - 1
       /\ pc' = [pc EXCEPT ![r] = "returned"]
    \/ \E w \in Waiters :
         /\ \A x \in Waiters : ticket[w] <= ticket[x]
         /\ pc' = [pc EXCEPT ![r] = "returned", ![w] = "recheckEnabled"]
         /\ UNCHANGED sem

(* close(g.bypass): every goroutine parked in a select on that channel     *)
(* takes its bypass case.  A Hold waiting for the semaphore returns there  *)
(* and then; one waiting for a decision still has to cancel and release.   *)
WokenBy(g, r) == pc[r] \in {"semwait", "parked"} /\ bypassOf[r] = g

CloseBypass ==
    IF bypassClosed
    THEN UNCHANGED <<closed, pc, result>>
    ELSE /\ closed' = closed \cup {bypass}
         /\ pc' = [r \in Requests |->
                     IF ~WokenBy(bypass, r) THEN pc[r]
                     ELSE IF pc[r] = "semwait" THEN "returned" ELSE "cancel"]
         /\ result' = [r \in Requests |->
                         IF WokenBy(bypass, r) THEN "original" ELSE result[r]]

(* pending.Reply <- Decision: handed to Hold if it is parked on the        *)
(* channel, else left in the buffer; blocks while the buffer is full.      *)
SendReply(r, v) ==
    /\ reply[r] = "none"
    /\ answered' = [answered EXCEPT ![r] = v]
    /\ \/ /\ Move(r, "parked", "release")
          /\ Return(r, v)
          /\ UNCHANGED reply
       \/ /\ pc[r] # "parked"
          /\ reply' = [reply EXCEPT ![r] = v]
          /\ UNCHANGED <<pc, result>>

-----------------------------------------------------------------------------
(* InterceptGate.Hold, one step per lock, channel operation or select.     *)

HoldBegin(r) ==
    /\ \/ enabled /\ Move(r, "idle", "scope") /\ UNCHANGED result
       \/ ~enabled /\ Move(r, "idle", "returned") /\ Return(r, "original")
    /\ UNCHANGED <<gateVars, tabVars, bypassOf, ticket, nextTicket, reply, done>>

(* The scope predicate answers whatever the scope table holds by then. *)
HoldScope(r) ==
    /\ \/ Move(r, "scope", "capture") /\ UNCHANGED result
       \/ filterOn /\ Move(r, "scope", "returned") /\ Return(r, "original")
    /\ UNCHANGED <<gateVars, tabVars, bypassOf, ticket, nextTicket, reply, done>>

HoldCapture(r) ==
    /\ Move(r, "capture", "acquire")
    /\ bypassOf' = [bypassOf EXCEPT ![r] = bypass]
    /\ UNCHANGED <<gateVars, tabVars, ticket, nextTicket, reply, done, result>>

(* select { g.sem <- ; <-bypass }: either case if both are ready, and the  *)
(* goroutine parks if neither is.                                          *)
HoldAcquire(r) ==
    /\ \/ /\ sem = 0
          /\ Move(r, "acquire", "recheckEnabled")
          /\ sem' = 1
          /\ UNCHANGED result
       \/ /\ bypassOf[r] \in closed
          /\ Move(r, "acquire", "returned")
          /\ Return(r, "original")
          /\ UNCHANGED sem
       \/ /\ sem = 1 /\ bypassOf[r] \notin closed
          /\ Move(r, "acquire", "semwait")
          /\ UNCHANGED <<sem, result>>
    /\ ticket' = [ticket EXCEPT ![r] = nextTicket]
    /\ nextTicket' = nextTicket + 1
    /\ UNCHANGED <<enabled, filterOn, queue, bypass, bypassClosed, closed,
                   tabVars, bypassOf, reply, done>>

HoldRecheckEnabled(r) ==
    /\ \/ enabled /\ Move(r, "recheckEnabled", "recheckBypass") /\ UNCHANGED result
       \/ ~enabled /\ Move(r, "recheckEnabled", "release") /\ Return(r, "original")
    /\ UNCHANGED <<gateVars, tabVars, bypassOf, ticket, nextTicket, reply, done>>

HoldRecheckBypass(r) ==
    /\ \/ /\ bypassOf[r] \notin closed
          /\ Move(r, "recheckBypass", "enqueue")
          /\ UNCHANGED result
       \/ /\ bypassOf[r] \in closed
          /\ Move(r, "recheckBypass", "release")
          /\ Return(r, "original")
    /\ UNCHANGED <<gateVars, tabVars, bypassOf, ticket, nextTicket, reply, done>>

(* select { g.queue <- pending ; <-bypass } *)
HoldEnqueue(r) ==
    /\ \/ /\ Len(queue) < QueueCap
          /\ Move(r, "enqueue", "await")
          /\ queue' = Append(queue, r)
          /\ UNCHANGED result
       \/ /\ bypassOf[r] \in closed
          /\ Move(r, "enqueue", "cancel")
          /\ Return(r, "original")
          /\ UNCHANGED queue
    /\ UNCHANGED <<enabled, filterOn, sem, bypass, bypassClosed, closed,
                   tabVars, bypassOf, ticket, nextTicket, reply, done>>

(* select { <-pending.Reply ; <-bypass } *)
HoldAwait(r) ==
    /\ \/ /\ reply[r] # "none"
          /\ Move(r, "await", "release")
          /\ Return(r, reply[r])
          /\ reply' = [reply EXCEPT ![r] = "none"]
       \/ /\ bypassOf[r] \in closed
          /\ Move(r, "await", "cancel")
          /\ Return(r, "original")
          /\ UNCHANGED reply
       \/ /\ reply[r] = "none" /\ bypassOf[r] \notin closed
          /\ Move(r, "await", "parked")
          /\ UNCHANGED <<reply, result>>
    /\ UNCHANGED <<gateVars, tabVars, bypassOf, ticket, nextTicket, done>>

HoldCancel(r) ==
    /\ Move(r, "cancel", "release")
    /\ done' = done \cup {r}
    /\ UNCHANGED <<gateVars, tabVars, bypassOf, ticket, nextTicket, reply, result>>

HoldRelease(r) ==
    /\ pc[r] = "release"
    /\ GiveBackSem(r)
    /\ UNCHANGED <<enabled, filterOn, queue, bypass, bypassClosed, closed,
                   tabVars, bypassOf, ticket, nextTicket, reply, done, result>>

HoldStep(r) ==
    \/ HoldScope(r) \/ HoldCapture(r) \/ HoldAcquire(r)
    \/ HoldRecheckEnabled(r) \/ HoldRecheckBypass(r)
    \/ HoldEnqueue(r) \/ HoldAwait(r) \/ HoldCancel(r) \/ HoldRelease(r)

-----------------------------------------------------------------------------
(* watchQueue.                                                             *)

WatchReceive ==
    /\ watch = None
    /\ queue # <<>>
    /\ watch' = Head(queue)
    /\ queue' = Tail(queue)
    /\ UNCHANGED <<enabled, filterOn, sem, bypass, bypassClosed, closed,
                   holdVars, callbacks, pending, ui, answered, lastShown>>

(* The first IsDone check, then fyne.Do. *)
WatchPost ==
    /\ watch # None
    /\ callbacks' = IF watch \in done THEN callbacks ELSE Append(callbacks, watch)
    /\ watch' = None
    /\ UNCHANGED <<gateVars, holdVars, pending, ui, answered, lastShown>>

-----------------------------------------------------------------------------
(* The main goroutine: fyne.Do callbacks and handlers.                     *)

(* The callback posted by watchQueue: second IsDone check, showRequest. *)
RunCallback ==
    /\ ui = "idle"
    /\ callbacks # <<>>
    /\ callbacks' = Tail(callbacks)
    /\ LET p == Head(callbacks) IN
         \/ p \in done /\ UNCHANGED <<pending, lastShown>>
         \/ p \notin done /\ pending' = p /\ lastShown' = ticket[p]
    /\ UNCHANGED <<gateVars, holdVars, watch, ui, answered>>

(* SetEnabled(true): the flag first, under g.mu ... *)
ToggleOnFlag ==
    /\ ui = "idle" /\ ~enabled /\ bypass < MaxGen
    /\ enabled' = TRUE
    /\ ui' = "onReplace"
    /\ UNCHANGED <<filterOn, sem, queue, bypass, bypassClosed, closed, holdVars,
                   watch, callbacks, pending, answered, lastShown>>

(* ... then the channel, under g.bypassMu. *)
ToggleOnReplace ==
    /\ ui = "onReplace"
    /\ bypass' = bypass + 1
    /\ bypassClosed' = FALSE
    /\ ui' = "idle"
    /\ UNCHANGED <<enabled, filterOn, sem, queue, closed, holdVars,
                   watch, callbacks, pending, answered, lastShown>>

(* SetEnabled(false), in the same two sections. *)
ToggleOffFlag ==
    /\ ui = "idle" /\ enabled
    /\ enabled' = FALSE
    /\ ui' = "offClose"
    /\ UNCHANGED <<filterOn, sem, queue, bypass, bypassClosed, closed, holdVars,
                   watch, callbacks, pending, answered, lastShown>>

ToggleOffClose ==
    /\ ui = "offClose"
    /\ CloseBypass
    /\ bypassClosed' = TRUE
    /\ ui' = "offReply"
    /\ UNCHANGED <<enabled, filterOn, sem, queue, bypass, bypassOf, ticket,
                   nextTicket, reply, done, watch, callbacks, pending, answered,
                   lastShown>>

(* The rest of the toggle's and the beginning of the Forward All handler:  *)
(* forward whatever is displayed.                                          *)
ForwardDisplayed ==
    /\ pending' = None
    /\ \/ pending # None /\ SendReply(pending, "original")
       \/ pending = None /\ UNCHANGED <<pc, result, reply, answered>>
    /\ UNCHANGED <<gateVars, bypassOf, ticket, nextTicket, done, watch,
                   callbacks, lastShown>>

ToggleOffReply ==
    /\ ui = "offReply"
    /\ ForwardDisplayed
    /\ ui' = "idle"

(* The buttons are enabled exactly while a request is displayed. *)
ForwardAllReply ==
    /\ ui = "idle" /\ pending # None /\ bypass < MaxGen
    /\ ForwardDisplayed
    /\ ui' = "forwardAll"

(* ForwardAll: close and replace in one critical section. *)
ForwardAllRelease ==
    /\ ui = "forwardAll"
    /\ CloseBypass
    /\ bypass' = bypass + 1
    /\ bypassClosed' = FALSE
    /\ ui' = "idle"
    /\ UNCHANGED <<enabled, filterOn, sem, queue, bypassOf, ticket, nextTicket,
                   reply, done, watch, callbacks, pending, answered, lastShown>>

(* decide: Forward sends the edited text, or the original request when the *)
(* text does not parse; Drop sends Forward: false.                         *)
Decide ==
    /\ ui = "idle" /\ pending # None
    /\ \E v \in Decisions : SendReply(pending, v)
    /\ pending' = None
    /\ UNCHANGED <<gateVars, bypassOf, ticket, nextTicket, done, watch,
                   callbacks, ui, lastShown>>

(* The "Scope only" check box. *)
SetScopeFilter ==
    /\ ui = "idle"
    /\ filterOn' = ~filterOn
    /\ UNCHANGED <<enabled, sem, queue, bypass, bypassClosed, closed, holdVars,
                   tabVars>>

Handler == ToggleOnReplace \/ ToggleOffClose \/ ToggleOffReply \/ ForwardAllRelease

User == ToggleOnFlag \/ ToggleOffFlag \/ ForwardAllReply \/ Decide \/ SetScopeFilter

Next ==
    \/ \E r \in Requests : HoldBegin(r) \/ HoldStep(r)
    \/ WatchReceive \/ WatchPost \/ RunCallback
    \/ Handler \/ User

Spec == Init /\ [][Next]_vars

(* Goroutines that can run are scheduled, a handler that started finishes. *)
(* Nothing obliges a request to arrive or the user to touch a button.      *)
Fairness ==
    /\ \A r \in Requests : WF_vars(HoldStep(r))
    /\ WF_vars(WatchReceive) /\ WF_vars(WatchPost) /\ WF_vars(RunCallback)
    /\ WF_vars(Handler)

FairSpec == Spec /\ Fairness

-----------------------------------------------------------------------------
(* Properties.                                                             *)

(* The values of the gate's, the Holds' and the tab's variables. *)
GateTypeOK ==
    /\ enabled \in BOOLEAN /\ filterOn \in BOOLEAN
    /\ sem \in 0 .. 1
    /\ queue \in Seq(Requests)
    /\ bypass \in Generations /\ bypassClosed \in BOOLEAN
    /\ closed \in SUBSET Generations

HoldTypeOK ==
    /\ pc \in [Requests -> Steps]
    /\ bypassOf \in [Requests -> Generations]
    /\ ticket \in [Requests -> Nat] /\ nextTicket \in Nat \ {0}
    /\ reply \in [Requests -> Decisions \cup {"none"}]
    /\ result \in [Requests -> Decisions \cup {"none"}]
    /\ done \in SUBSET Requests

TabTypeOK ==
    /\ callbacks \in Seq(Requests)
    /\ watch \in Requests \cup {None} /\ pending \in Requests \cup {None}
    /\ ui \in {"idle", "onReplace", "offClose", "offReply", "forwardAll"}
    /\ answered \in [Requests -> Decisions \cup {"none"}]
    /\ lastShown \in Nat

(* Every variable has the type of the Go field it stands for.              *)
TypeOK == GateTypeOK /\ HoldTypeOK /\ TabTypeOK

(* "One request is shown to the UI at a time": at most one Hold is between *)
(* the semaphore and its release, and the token in g.sem is that Hold's,   *)
(* on every early return: a leaked token would block every later request.  *)
SemExclusive ==
    /\ \A r, s \in Requests : pc[r] \in Holding /\ pc[s] \in Holding => r = s
    /\ sem = 1 <=> \E r \in Requests : pc[r] \in Holding

(* The main goroutine never blocks in "old.Reply <- ...": the one-slot     *)
(* buffer of a displayed request has never been used.                      *)
ReplyNeverBlocks ==
    pending # None => reply[pending] = "none" /\ answered[pending] = "none"

(* What the user decided is what Hold returns, unless the bypass channel   *)
(* that Hold watches was closed; and no request is dropped or altered      *)
(* without a decision.                                                     *)
DecisionApplied ==
    \A r \in Requests :
      /\ result[r] \in {"edited", "dropped"} => answered[r] = result[r]
      /\ pc[r] = "returned" /\ answered[r] # "none" /\ result[r] # answered[r]
           => bypassOf[r] \in closed

(* Once the toggle's handler is through, intercept is on only with an open *)
(* bypass channel: after any sequence of toggles and Forward Alls, "future *)
(* requests are intercepted normally".                                     *)
OnMeansIntercepting ==
    ui = "idle" /\ enabled => ~bypassClosed /\ bypass \notin closed

(* A request the user still has to answer is never replaced on the screen: *)
(* showRequest overwrites t.pending only if that request was cancelled.    *)
DisplayedNotLost ==
    [][pending # None /\ pending' \notin {pending, None} => pending \in done]_vars

(* "Requests acquire the semaphore in arrival order": requests come on the *)
(* screen in the order in which they reached the semaphore.                *)
ShownInArrivalOrder == [][lastShown' >= lastShown]_vars

(* While the user keeps answering, every request gets through the gate:    *)
(* no early return keeps the semaphore, no pending request is forgotten.   *)
EveryHoldReturns ==
    WF_vars(Decide) => \A r \in Requests : (pc[r] = "scope" ~> pc[r] = "returned")
=============================================================================
