------------------------------- MODULE Intruder -------------------------------
(***************************************************************************)
(* Attacks of the Intruder tab (internal/ui/intruder.go).  The main        *)
(* goroutine runs the handlers of the buttons and the fyne.Do callbacks;   *)
(* each attack is a goroutine that looks at stopChan, sends a request,     *)
(* follows its redirects and posts its result, for every marker and every  *)
(* payload.                                                                *)
(*                                                                         *)
(* Attack a is the a-th call of startAttack that got past its checks, and  *)
(* a is also the stopChan it makes (t.stopChan is shared: an attack reads  *)
(* whatever the field holds).                                              *)
(***************************************************************************)
EXTENDS Naturals, Sequences

CONSTANTS
    Payloads,   \* number of payloads
    Markers,    \* number of injection points found in the request
    MaxRedirects, \* config.MaxRedirects, 0 when redirects are not followed
    MaxAttacks  \* bound on the attacks started

ASSUME IntruderAssumption ==
    /\ Payloads \in Nat \ {0} /\ Markers \in Nat \ {0}
    /\ MaxRedirects \in Nat /\ MaxAttacks \in Nat

Attacks == 1 .. MaxAttacks
Total == Payloads * Markers

VARIABLES
    pc,             \* where the goroutine of each attack is
    done,           \* its done, shared with the callbacks it posts
    hops,           \* its redirectCount, 0 outside its loop
    matched,        \* its response has the status StopOnStatus asks for
    stopChan,       \* t.stopChan, 0 for nil
    closed,         \* the stop channels that are closed
    startEnabled, stopEnabled,  \* of startBtn and stopBtn
    running,        \* t.running, written and never read
    results,        \* t.results
    progress,       \* what progressLabel says
    callbacks,      \* fyne.Do callbacks not yet run
    panicked,       \* close of a closed channel ended the program
    sentAfterStop   \* history: requests an attack sent after its Stop

attackVars == <<pc, done, hops, matched, sentAfterStop>>
chanVars   == <<stopChan, closed>>
tabVars    == <<startEnabled, stopEnabled, running, results, progress>>
vars       == <<attackVars, chanVars, tabVars, callbacks, panicked>>

Init ==
    /\ pc = [a \in Attacks |-> "idle"]
    /\ done = [a \in Attacks |-> 0]
    /\ hops = [a \in Attacks |-> 0]
    /\ matched = [a \in Attacks |-> FALSE]
    /\ sentAfterStop = [a \in Attacks |-> 0]
    /\ stopChan = 0 /\ closed = {}
    /\ startEnabled = TRUE /\ stopEnabled = FALSE /\ running = FALSE
    /\ results = <<>> /\ progress = <<"none", 0>>
    /\ callbacks = <<>>
    /\ panicked = FALSE

Move(a, from, to) == pc[a] = from /\ pc' = [pc EXCEPT ![a] = to]

Post(c) == callbacks' = Append(callbacks, c)

(* The button is enabled again by a callback; a result carries its place   *)
(* in the order of the requests.                                           *)
Ending(a, how) == [kind |-> how, attack |-> a, n |-> 0]
Result(a) == [kind |-> "result", attack |-> a, n |-> done[a]]

-----------------------------------------------------------------------------
(* Mistakes, one per property.                                             *)

(* ResultsInOrder: the table keeps the results of the last attack. *)
StartKeepingResults(a) ==
    /\ startEnabled /\ pc[a] = "idle"
    /\ \A b \in Attacks : b < a => pc[b] # "idle"
    /\ pc' = [pc EXCEPT ![a] = "check"]
    /\ stopChan' = a /\ startEnabled' = FALSE /\ stopEnabled' = TRUE /\ running' = TRUE
    /\ UNCHANGED <<done, hops, matched, sentAfterStop, closed, results, progress, callbacks, panicked>>

(* StopHalts: stopChan is looked at once per marker. *)
CheckOncePerMarker(a) ==
    /\ Move(a, "check", IF done[a] % Payloads = 0 /\ stopChan \in closed THEN "returned" ELSE "send")
    /\ IF pc'[a] = "returned" THEN Post(Ending(a, "stopped")) ELSE UNCHANGED callbacks
    /\ UNCHANGED <<done, hops, matched, sentAfterStop, chanVars, tabVars, panicked>>

(* AttackEnds: after a match the goroutine returns at once. *)
FinishMatchSilently(a) ==
    /\ Move(a, "match", "returned")
    /\ UNCHANGED <<done, hops, matched, sentAfterStop, chanVars, tabVars, callbacks, panicked>>

-----------------------------------------------------------------------------
(* The goroutine of attack a.                                              *)

HasMore(a) == done[a] < Total

(* select { <-t.stopChan ; default } *)
Check(a) ==
    /\ HasMore(a)
    /\ \/ /\ stopChan \in closed
          /\ Move(a, "check", "returned")
          /\ Post(Ending(a, "stopped"))
       \/ /\ stopChan \notin closed
          /\ Move(a, "check", "send")
          /\ UNCHANGED callbacks
    /\ UNCHANGED <<done, hops, matched, sentAfterStop, chanVars, tabVars, panicked>>

(* A request leaves; without a host none does, and the count is too high.  *)
CountSent(a) == sentAfterStop' = [sentAfterStop EXCEPT ![a] = IF a \in closed THEN @ + 1 ELSE @]

(* The delay and the request with the payload.                             *)
Send(a) ==
    /\ Move(a, "send", "follow")
    /\ CountSent(a)
    /\ UNCHANGED <<done, hops, matched, chanVars, tabVars, callbacks, panicked>>

(* The answer is a redirect to follow: one more request, and no look at    *)
(* stopChan.                                                               *)
FollowRedirect(a) ==
    /\ pc[a] = "follow" /\ hops[a] < MaxRedirects
    /\ hops' = [hops EXCEPT ![a] = @ + 1]
    /\ CountSent(a)
    /\ UNCHANGED <<pc, done, matched, chanVars, tabVars, callbacks, panicked>>

(* The last answer, then done++.  Any status may come back, or an error.   *)
Answered(a) ==
    /\ Move(a, "follow", "post")
    /\ done' = [done EXCEPT ![a] = @ + 1]
    /\ matched' \in {[matched EXCEPT ![a] = m] : m \in BOOLEAN}
    /\ hops' = [hops EXCEPT ![a] = 0]
    /\ UNCHANGED <<sentAfterStop, chanVars, tabVars, callbacks, panicked>>

PostResult(a) ==
    /\ Move(a, "post", IF matched[a] THEN "match" ELSE "check")
    /\ Post(Result(a))
    /\ UNCHANGED <<done, hops, matched, sentAfterStop, chanVars, tabVars, panicked>>

FinishMatch(a) ==
    /\ Move(a, "match", "returned")
    /\ Post(Ending(a, "matched"))
    /\ UNCHANGED <<done, hops, matched, sentAfterStop, chanVars, tabVars, panicked>>

FinishDone(a) ==
    /\ ~HasMore(a)
    /\ Move(a, "check", "returned")
    /\ Post(Ending(a, "done"))
    /\ UNCHANGED <<done, hops, matched, sentAfterStop, chanVars, tabVars, panicked>>

Attack(a) ==
    \/ Check(a) \/ Send(a) \/ FollowRedirect(a) \/ Answered(a)
    \/ PostResult(a) \/ FinishMatch(a) \/ FinishDone(a)

-----------------------------------------------------------------------------
(* Callbacks.  They read done when they run, not when they were posted.    *)

NextCallback(kinds) ==
    /\ callbacks # <<>> /\ Head(callbacks).kind \in kinds
    /\ callbacks' = Tail(callbacks)

ShowResult ==
    /\ NextCallback({"result"})
    /\ LET c == Head(callbacks) IN
         /\ results' = Append(results, <<c.attack, c.n>>)
         /\ progress' = <<"result", done[c.attack]>>
    /\ UNCHANGED <<attackVars, chanVars, startEnabled, stopEnabled, running, panicked>>

ShowEnding ==
    /\ NextCallback({"stopped", "matched", "done"})
    /\ LET c == Head(callbacks) IN
         /\ progress' = <<c.kind, done[c.attack]>>
         /\ running' = (running /\ c.kind # "done")
    /\ startEnabled' = TRUE /\ stopEnabled' = FALSE
    /\ UNCHANGED <<attackVars, chanVars, results, panicked>>

-----------------------------------------------------------------------------
(* Handlers.                                                               *)

(* startAttack, with a request, an injection point and a payload at hand.  *)
Start(a) ==
    /\ startEnabled
    /\ pc[a] = "idle" /\ \A b \in Attacks : b < a => pc[b] # "idle"
    /\ pc' = [pc EXCEPT ![a] = "check"]
    /\ stopChan' = a
    /\ results' = <<>>
    /\ startEnabled' = FALSE /\ stopEnabled' = TRUE /\ running' = TRUE
    /\ UNCHANGED <<done, hops, matched, sentAfterStop, closed, progress, callbacks, panicked>>

(* stopAttack: it closes the channel and leaves the button as it is. *)
Stop ==
    /\ stopEnabled
    /\ \/ stopChan \in closed /\ panicked' = TRUE /\ UNCHANGED <<closed, running>>
       \/ /\ stopChan \notin closed
          /\ closed' = closed \cup {stopChan}
          /\ running' = FALSE
          /\ UNCHANGED panicked
    /\ UNCHANGED <<attackVars, stopChan, startEnabled, stopEnabled, results, progress, callbacks>>

ClearResults ==
    /\ results' = <<>> /\ progress' = <<"none", 0>>
    /\ UNCHANGED <<attackVars, chanVars, startEnabled, stopEnabled, running, callbacks, panicked>>

Callback == ShowResult \/ ShowEnding

Next ==
    /\ ~panicked
    /\ \/ \E a \in Attacks : Attack(a) \/ Start(a)
       \/ Callback \/ Stop \/ ClearResults

Spec == Init /\ [][Next]_vars

(* A request is answered or times out, a redirect too, and the main        *)
(* goroutine runs its callbacks.                                           *)
FairSpec ==
    /\ Spec
    /\ WF_vars(~panicked /\ Callback)
    /\ \A a \in Attacks : WF_vars(~panicked /\ Attack(a))

-----------------------------------------------------------------------------
(* Properties.                                                             *)

Endings == {"stopped", "matched", "done"}

TypeOK ==
    /\ pc \in [Attacks -> {"idle", "check", "send", "follow", "post", "match", "returned"}]
    /\ done \in [Attacks -> 0 .. Total]
    /\ matched \in [Attacks -> BOOLEAN]
    /\ hops \in [Attacks -> 0 .. MaxRedirects]
    /\ sentAfterStop \in [Attacks -> Nat]
    /\ stopChan \in Attacks \cup {0} /\ closed \subseteq Attacks
    /\ startEnabled \in BOOLEAN /\ stopEnabled \in BOOLEAN /\ running \in BOOLEAN
    /\ results \in Seq(Attacks \X (1 .. Total))
    /\ progress \in (Endings \cup {"none", "result"}) \X (0 .. Total)
    /\ callbacks \in Seq([kind : Endings \cup {"result"}, attack : Attacks, n : 0 .. Total])
    /\ panicked \in BOOLEAN

(* An attack can be started only when the goroutine of the one before is   *)
(* through: stopChan is shared, and the table has no way to tell attacks   *)
(* apart.                                                                  *)
OneAttack == startEnabled => \A a \in Attacks : pc[a] \in {"idle", "returned"}

(* "Running a new attack clears the previous results": the table holds     *)
(* results of the last attack only, in the order of its requests and       *)
(* without a gap, whatever is cleared or stopped on the way.               *)
ResultsInOrder ==
    \A i \in 1 .. Len(results) :
      /\ results[i][1] = stopChan
      /\ i > 1 => results[i][2] = results[i - 1][2] + 1

(* "Stop halts it mid-run": once Stop is pressed, the payload under way is *)
(* sent with its redirects, and no other payload is; in the code the loop  *)
(* over the redirects does not look at stopChan.                           *)
StopHalts == \A a \in Attacks : sentAfterStop[a] <= 1 + MaxRedirects

(* The Start button comes back, however the attack ends.                   *)
AttackEnds == ~startEnabled ~> startEnabled \/ panicked
=============================================================================
