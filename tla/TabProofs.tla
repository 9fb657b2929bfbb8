------------------------------ MODULE TabProofs ------------------------------
(***************************************************************************)
(* Proofs about what a tab of the window is made of, for any numbers of    *)
(* payloads, markers and attacks of the Intruder, and for any texts and    *)
(* inputs of the editor and the viewer (TextWidgets).                      *)
(*                                                                         *)
(* The editor keeps EditInv: every record of the undo stack is a text with *)
(* a cursor inside, and where something is selected, the selection's line  *)
(* is there unless a drag is under way.  The viewer keeps ViewInv: the     *)
(* goroutine of the last generation wraps for the width asked for last.    *)
(* Before them come the facts about texts: what is cut out, put in and     *)
(* copied is a text, wrapping a text yields rows that cover it, and        *)
(* flattening sequences of sequences keeps every element.                  *)
(***************************************************************************)
EXTENDS Intruder, TextWidgets, Integers, SequenceTheorems, FiniteSetTheorems,
        WellFoundedInduction, TLAPS

-----------------------------------------------------------------------------
(* The Intruder.                                                           *)

(* What the goroutines hold: only the last attack moves, and only until    *)
(* the Start button is back; a channel once closed is seen before the next *)
(* payload.                                                                *)
AttackInv ==
    \A a \in Attacks :
      /\ pc[a] = "idle" <=> a > stopChan
      /\ pc[a] \notin {"idle", "returned"} => a = stopChan /\ ~startEnabled
      /\ pc[a] = "idle" => done[a] = 0
      /\ pc[a] \in {"send", "follow"} => done[a] < Total
      /\ pc[a] # "follow" => hops[a] = 0
      /\ pc[a] = "post" => done[a] > 0
      /\ sentAfterStop[a] <= 1 + MaxRedirects
      /\ pc[a] = "follow" => sentAfterStop[a] <= 1 + hops[a]
      /\ sentAfterStop[a] > 0 => a \in closed /\ pc[a] # "send"

(* The Start button comes back with the last callback of an attack.        *)
ButtonInv ==
    /\ startEnabled => callbacks = <<>>
    /\ stopChan = 0 => startEnabled /\ ~stopEnabled /\ results = <<>>
    /\ stopChan # 0 /\ ~startEnabled /\ pc[stopChan] = "returned" => callbacks # <<>>

(* Of the results of the last attack: those handed to fyne.Do, those not   *)
(* yet shown (an ending comes after them) and those shown.                 *)
Posted == IF pc[stopChan] = "post" THEN done[stopChan] - 1 ELSE done[stopChan]

Pending ==
    IF callbacks # <<>> /\ pc[stopChan] = "returned" THEN Len(callbacks) - 1 ELSE Len(callbacks)

Shown == Posted - Pending

(* The table and then the callbacks count the results of the last attack   *)
(* up to Posted.                                                           *)
OrderInv ==
    stopChan # 0 =>
      /\ \A j \in 1 .. Pending :
           /\ callbacks[j].kind = "result"
           /\ callbacks[j].attack = stopChan
           /\ callbacks[j].n = Shown + j
      /\ Pending < Len(callbacks) => callbacks[Len(callbacks)].kind # "result"
      /\ Len(results) <= Shown
      /\ \A i \in 1 .. Len(results) :
           /\ results[i][1] = stopChan
           /\ results[i][2] = Shown - Len(results) + i

IntruderInv == TypeOK /\ AttackInv /\ ButtonInv /\ OrderInv

Messages == [kind : Endings \cup {"result"}, attack : Attacks, n : 0 .. Total]

-----------------------------------------------------------------------------
LEMMA TotalType == Total \in Nat \ {0}
BY IntruderAssumption DEF Total

(* No attack has been started.                                             *)
LEMMA IntruderInvInit == Init => IntruderInv
<1>. SUFFICES ASSUME Init PROVE IntruderInv
  OBVIOUS
<1>1. /\ Len(<<>>) = 0 /\ <<>> \in Seq(Messages) /\ <<>> \in Seq(Attacks \X (1 .. Total))
      /\ 1 .. 0 = {}
  BY EmptySeq
<1>2. startEnabled \in BOOLEAN /\ stopEnabled \in BOOLEAN /\ running \in BOOLEAN /\ panicked \in BOOLEAN
  BY Zenon DEF Init
<1>3. TypeOK
  BY <1>1, <1>2, TotalType, IntruderAssumption DEF Init, TypeOK, Messages
<1>4. AttackInv
  BY TotalType, IntruderAssumption DEF Init, AttackInv, Attacks
<1>5. ButtonInv /\ OrderInv
  BY Zenon DEF Init, ButtonInv, OrderInv
<1>. QED  BY <1>3, <1>4, <1>5 DEF IntruderInv

(* What fyne.Do queues comes after what is queued.                         *)
LEMMA PostProperties ==
  ASSUME TypeOK, NEW c \in Messages, Post(c)
  PROVE  /\ callbacks' \in Seq(Messages) /\ callbacks' # <<>>
         /\ Len(callbacks) \in Nat /\ Len(callbacks') = Len(callbacks) + 1
         /\ \A j \in 1 .. Len(callbacks) : callbacks'[j] = callbacks[j]
         /\ callbacks'[Len(callbacks) + 1] = c
<1>1. callbacks \in Seq(Messages)
  BY DEF TypeOK, Messages
<1>. QED  BY <1>1, AppendProperties, LenProperties DEF Post

(* What the invariant says of the attack that moves.                       *)
LEMMA MovingAttack ==
  ASSUME IntruderInv, NEW a \in Attacks, pc[a] \notin {"idle", "returned"}
  PROVE  /\ a = stopChan /\ ~startEnabled /\ stopChan \in Nat \ {0}
         /\ Pending = Len(callbacks)
         /\ Len(callbacks) \in Nat /\ Len(results) \in Nat
         /\ Posted \in Int /\ Shown = Posted - Len(callbacks)
<1>1. a = stopChan /\ ~startEnabled /\ stopChan \in Nat \ {0}
  BY DEF IntruderInv, AttackInv, Attacks
<1>2. Pending = Len(callbacks)
  BY <1>1 DEF Pending
<1>3. Len(callbacks) \in Nat /\ Len(results) \in Nat
  BY LenProperties DEF IntruderInv, TypeOK
<1>4. done[a] \in 0 .. Total
  BY DEF IntruderInv, TypeOK
<1>5. Posted \in Int
  BY <1>1, <1>4, TotalType DEF Posted
<1>. QED  BY <1>1, <1>2, <1>3, <1>5 DEF Shown

(* An ending is posted: nothing comes after it.                            *)
LEMMA IntruderInvEnd ==
  ASSUME IntruderInv, NEW a \in Attacks, NEW how \in Endings,
         pc[a] \in {"check", "match"}, pc' = [pc EXCEPT ![a] = "returned"], Post(Ending(a, how)),
         UNCHANGED <<done, hops, matched, sentAfterStop, chanVars, tabVars, panicked>>
  PROVE  IntruderInv'
<1>. USE DEF IntruderInv
<1>1. UNCHANGED <<done, hops, matched, sentAfterStop, stopChan, closed, startEnabled, stopEnabled,
                  running, results, progress, panicked>>
  BY DEF chanVars, tabVars
<1>2. Ending(a, how) \in Messages /\ Ending(a, how).kind # "result"
  BY TotalType DEF Ending, Messages, Endings
<1>3. /\ callbacks' \in Seq(Messages) /\ callbacks' # <<>>
      /\ Len(callbacks') = Len(callbacks) + 1
      /\ \A j \in 1 .. Len(callbacks) : callbacks'[j] = callbacks[j]
      /\ callbacks'[Len(callbacks) + 1] = Ending(a, how)
  BY <1>2, PostProperties
<1>4. a = stopChan /\ ~startEnabled /\ stopChan # 0
      /\ Pending = Len(callbacks) /\ Len(callbacks) \in Nat
  BY MovingAttack
<1>5. pc'[a] = "returned" /\ \A b \in Attacks : b # a => pc'[b] = pc[b]
  BY DEF TypeOK
<1>6. TypeOK'
  BY <1>1, <1>3 DEF TypeOK, Messages
<1>7. AttackInv'
  BY <1>1, <1>5 DEF AttackInv
<1>8. ButtonInv'
  BY <1>1, <1>3, <1>4 DEF ButtonInv
<1>9. OrderInv'
  <2>1. Posted' = Posted
    BY <1>1, <1>4, <1>5 DEF Posted
  <2>2. Pending' = Pending
    BY <1>1, <1>3, <1>4, <1>5 DEF Pending
  <2>3. Shown' = Shown
    BY <2>1, <2>2 DEF Shown
  <2>. QED  BY <1>1, <1>2, <1>3, <1>4, <2>2, <2>3 DEF OrderInv
<1>. QED  BY <1>6, <1>7, <1>8, <1>9

(* stopChan is not closed, the goroutine goes on to the request.           *)
LEMMA IntruderInvCheck ==
  ASSUME IntruderInv, NEW a \in Attacks, HasMore(a), stopChan \notin closed, Move(a, "check", "send"),
         UNCHANGED <<callbacks, done, hops, matched, sentAfterStop, chanVars, tabVars, panicked>>
  PROVE  IntruderInv'
<1>. USE DEF IntruderInv
<1>1. UNCHANGED <<callbacks, done, hops, matched, sentAfterStop, stopChan, closed, startEnabled,
                  stopEnabled, running, results, progress, panicked>>
  BY DEF chanVars, tabVars
<1>2. /\ pc[a] = "check" /\ pc' = [pc EXCEPT ![a] = "send"]
      /\ pc'[a] = "send" /\ \A b \in Attacks : b # a => pc'[b] = pc[b]
  BY DEF Move, TypeOK
<1>3. a = stopChan /\ ~startEnabled /\ stopChan # 0 /\ Pending = Len(callbacks)
  BY <1>2, MovingAttack
<1>4. TypeOK'
  BY <1>1, <1>2 DEF TypeOK
<1>5. AttackInv'
  BY <1>1, <1>2, <1>3 DEF AttackInv, HasMore
<1>6. ButtonInv'
  BY <1>1, <1>2, <1>3 DEF ButtonInv
<1>7. OrderInv'
  <2>1. Posted' = Posted
    BY <1>1, <1>2, <1>3 DEF Posted
  <2>2. Pending' = Pending
    BY <1>1, <1>2, <1>3 DEF Pending
  <2>3. Shown' = Shown
    BY <2>1, <2>2 DEF Shown
  <2>. QED  BY <1>1, <2>2, <2>3 DEF OrderInv
<1>. QED  BY <1>4, <1>5, <1>6, <1>7

(* A request leaves, the first of a payload or one that a redirect asks    *)
(* for: after Stop it is counted.                                          *)
LEMMA IntruderInvRequest ==
  ASSUME IntruderInv, NEW a \in Attacks, Send(a) \/ FollowRedirect(a)
  PROVE  IntruderInv'
<1>. USE DEF IntruderInv
<1>1. /\ pc[a] \in {"send", "follow"} /\ pc' = [pc EXCEPT ![a] = "follow"]
      /\ pc'[a] = "follow" /\ \A b \in Attacks : b # a => pc'[b] = pc[b]
  BY DEF Send, FollowRedirect, Move, TypeOK
<1>2. UNCHANGED <<done, matched, callbacks, stopChan, closed, startEnabled, stopEnabled,
                  running, results, progress, panicked>>
  BY DEF Send, FollowRedirect, chanVars, tabVars
<1>3. sentAfterStop' = [sentAfterStop EXCEPT ![a] = IF a \in closed THEN @ + 1 ELSE @]
  BY DEF Send, FollowRedirect, CountSent
<1>4. /\ hops[a] \in Nat /\ hops'[a] = (IF pc[a] = "send" THEN 0 ELSE hops[a] + 1)
      /\ hops' \in [Attacks -> 0 .. MaxRedirects]
      /\ \A b \in Attacks : b # a => hops'[b] = hops[b]
  <2>1. CASE Send(a)
    BY <2>1 DEF Send, Move, TypeOK, AttackInv
  <2>2. CASE FollowRedirect(a)
    BY <2>2, IntruderAssumption DEF FollowRedirect, TypeOK
  <2>. QED  BY <2>1, <2>2
<1>5. /\ sentAfterStop[a] \in Nat
      /\ sentAfterStop'[a] = (IF a \in closed THEN sentAfterStop[a] + 1 ELSE sentAfterStop[a])
      /\ \A b \in Attacks : b # a => sentAfterStop'[b] = sentAfterStop[b]
      /\ sentAfterStop' \in [Attacks -> Nat]
  BY <1>3 DEF TypeOK
<1>6. a = stopChan /\ ~startEnabled /\ stopChan # 0 /\ Pending = Len(callbacks)
  BY <1>1, MovingAttack
<1>7. TypeOK'
  <2>1. pc' \in [Attacks -> {"idle", "check", "send", "follow", "post", "match", "returned"}]
    BY <1>1 DEF TypeOK
  <2>. QED  BY <1>2, <1>4, <1>5, <2>1 DEF TypeOK
<1>8. AttackInv'
  <2>1. done[a] < Total
    BY <1>1 DEF AttackInv
  <2>2. sentAfterStop'[a] <= 1 + hops'[a]
    BY <1>1, <1>4, <1>5 DEF AttackInv
  <2>3. sentAfterStop'[a] > 0 => a \in closed
    BY <1>5 DEF AttackInv
  <2>4. sentAfterStop'[a] <= 1 + MaxRedirects
    BY <1>4, <1>5, <2>2, IntruderAssumption
  <2>. QED  BY <1>1, <1>2, <1>4, <1>5, <1>6, <2>1, <2>2, <2>3, <2>4 DEF AttackInv
<1>9. ButtonInv'
  BY <1>1, <1>2, <1>6 DEF ButtonInv
<1>10. OrderInv'
  <2>1. Posted' = Posted
    BY <1>1, <1>2, <1>6 DEF Posted
  <2>2. Pending' = Pending
    BY <1>1, <1>2, <1>6 DEF Pending
  <2>3. Shown' = Shown
    BY <2>1, <2>2 DEF Shown
  <2>. QED  BY <1>2, <2>2, <2>3 DEF OrderInv
<1>. QED  BY <1>7, <1>8, <1>9, <1>10

(* The last answer: its result is counted but not yet handed on.           *)
LEMMA IntruderInvAnswered ==
  ASSUME IntruderInv, NEW a \in Attacks, Answered(a)
  PROVE  IntruderInv'
<1>. USE DEF IntruderInv
<1>1. /\ pc[a] = "follow" /\ pc' = [pc EXCEPT ![a] = "post"]
      /\ pc'[a] = "post" /\ \A b \in Attacks : b # a => pc'[b] = pc[b]
  BY DEF Answered, Move, TypeOK
<1>2. UNCHANGED <<sentAfterStop, callbacks, stopChan, closed, startEnabled, stopEnabled, running,
                  results, progress, panicked>>
  BY DEF Answered, chanVars, tabVars
<1>3. /\ done' = [done EXCEPT ![a] = @ + 1]
      /\ hops' \in [Attacks -> 0 .. MaxRedirects] /\ hops'[a] = 0
      /\ \A b \in Attacks : b # a => hops'[b] = hops[b]
      /\ matched' \in [Attacks -> BOOLEAN]
  <2>1. done' = [done EXCEPT ![a] = @ + 1] /\ hops' = [hops EXCEPT ![a] = 0]
    BY DEF Answered
  <2>2. matched' \in [Attacks -> BOOLEAN]
    BY DEF Answered, TypeOK
  <2>3. hops \in [Attacks -> 0 .. MaxRedirects] /\ 0 \in 0 .. MaxRedirects
    BY IntruderAssumption DEF TypeOK
  <2>. QED  BY <2>1, <2>2, <2>3
<1>4. /\ done[a] \in Nat /\ done[a] < Total /\ done'[a] = done[a] + 1
      /\ \A b \in Attacks : b # a => done'[b] = done[b]
  BY <1>1, <1>3, TotalType DEF TypeOK, AttackInv
<1>5. a = stopChan /\ ~startEnabled /\ stopChan # 0 /\ Pending = Len(callbacks)
  BY <1>1, MovingAttack
<1>6. TypeOK'
  BY <1>1, <1>2, <1>3, <1>4, TotalType DEF TypeOK
<1>7. AttackInv'
  BY <1>1, <1>2, <1>3, <1>4, <1>5 DEF AttackInv
<1>8. ButtonInv'
  BY <1>1, <1>2, <1>5 DEF ButtonInv
<1>9. OrderInv'
  <2>1. Posted' = Posted
    BY <1>1, <1>2, <1>4, <1>5 DEF Posted
  <2>2. Pending' = Pending
    BY <1>1, <1>2, <1>5 DEF Pending
  <2>3. Shown' = Shown
    BY <2>1, <2>2 DEF Shown
  <2>. QED  BY <1>2, <2>2, <2>3 DEF OrderInv
<1>. QED  BY <1>6, <1>7, <1>8, <1>9

(* A result is handed to fyne.Do: it carries the next number.              *)
LEMMA IntruderInvPostResult ==
  ASSUME IntruderInv, NEW a \in Attacks, PostResult(a)
  PROVE  IntruderInv'
<1>. USE DEF IntruderInv
<1>1. /\ pc[a] = "post" /\ pc'[a] \in {"match", "check"}
      /\ pc' = [pc EXCEPT ![a] = pc'[a]]
      /\ \A b \in Attacks : b # a => pc'[b] = pc[b]
  BY DEF PostResult, Move, TypeOK
<1>2. UNCHANGED <<done, hops, matched, sentAfterStop, stopChan, closed, startEnabled, stopEnabled,
                  running, results, progress, panicked>>
  BY DEF PostResult, chanVars, tabVars
<1>3. a = stopChan /\ ~startEnabled /\ stopChan # 0
      /\ Pending = Len(callbacks) /\ Len(callbacks) \in Nat /\ Len(results) \in Nat
      /\ Shown = Posted - Len(callbacks)
  BY <1>1, MovingAttack
<1>4. done[a] \in 1 .. Total /\ Posted = done[a] - 1
  BY <1>1, <1>3, TotalType DEF TypeOK, AttackInv, Posted
<1>5. /\ Result(a) \in Messages /\ Result(a).kind = "result"
      /\ Result(a).attack = stopChan /\ Result(a).n = done[a]
  BY <1>3, <1>4, TotalType DEF Result, Messages
<1>6. /\ callbacks' \in Seq(Messages) /\ callbacks' # <<>>
      /\ Len(callbacks') = Len(callbacks) + 1
      /\ \A j \in 1 .. Len(callbacks) : callbacks'[j] = callbacks[j]
      /\ callbacks'[Len(callbacks) + 1] = Result(a)
  BY <1>5, PostProperties DEF PostResult
<1>7. TypeOK'
  BY <1>1, <1>2, <1>6 DEF TypeOK, Messages
<1>8. AttackInv'
  BY <1>1, <1>2, <1>3 DEF AttackInv
<1>9. ButtonInv'
  BY <1>1, <1>2, <1>3 DEF ButtonInv
<1>10. OrderInv'
  <2>1. Posted' = Posted + 1
    BY <1>1, <1>2, <1>3, <1>4 DEF Posted
  <2>2. Pending' = Pending + 1
    BY <1>1, <1>2, <1>3, <1>6 DEF Pending
  <2>3. Shown' = Shown
    BY <1>3, <1>4, <2>1, <2>2 DEF Shown
  <2>4. Result(a).n = Shown + (Len(callbacks) + 1)
    BY <1>3, <1>4, <1>5
  <2>5. Pending' = Len(callbacks')
    BY <1>3, <1>6, <2>2
  <2>6. \A j \in 1 .. Len(callbacks) + 1 : j \in 1 .. Len(callbacks) \/ j = Len(callbacks) + 1
    BY <1>3
  <2>7. \A j \in 1 .. Pending' :
           /\ callbacks'[j].kind = "result"
           /\ callbacks'[j].attack = stopChan
           /\ callbacks'[j].n = Shown + j
    BY <1>3, <1>5, <1>6, <2>2, <2>4, <2>6 DEF OrderInv
  <2>. QED  BY <1>2, <1>3, <2>3, <2>5, <2>7 DEF OrderInv
<1>. QED  BY <1>7, <1>8, <1>9, <1>10

LEMMA IntruderInvAttack ==
  ASSUME IntruderInv, NEW a \in Attacks, Attack(a)
  PROVE  IntruderInv'
<1>1. CASE Check(a)
  <2>1. CASE stopChan \in closed
    BY <1>1, <2>1, IntruderInvEnd DEF Check, Move, Endings
  <2>2. CASE stopChan \notin closed
    BY <1>1, <2>2, IntruderInvCheck DEF Check
  <2>. QED  BY <2>1, <2>2
<1>2. CASE FinishMatch(a)
  BY <1>2, IntruderInvEnd DEF FinishMatch, Move, Endings
<1>3. CASE FinishDone(a)
  BY <1>3, IntruderInvEnd DEF FinishDone, Move, Endings
<1>. QED  BY <1>1, <1>2, <1>3, IntruderInvRequest, IntruderInvAnswered,
     IntruderInvPostResult DEF Attack

-----------------------------------------------------------------------------
(* The callback at the head of the queue, and the attack it belongs to.    *)
LEMMA HeadProperties ==
  ASSUME IntruderInv, callbacks # <<>>, callbacks' = Tail(callbacks)
  PROVE  /\ Head(callbacks) = callbacks[1] /\ callbacks[1] \in Messages
         /\ callbacks' \in Seq(Messages)
         /\ Len(callbacks) \in Nat \ {0} /\ Len(callbacks') = Len(callbacks) - 1
         /\ \A j \in 1 .. Len(callbacks) - 1 : callbacks'[j] = callbacks[j + 1]
         /\ callbacks' = <<>> <=> Len(callbacks) = 1
         /\ ~startEnabled /\ stopChan \in Attacks /\ stopChan # 0
         /\ Posted \in Int /\ Pending \in {Len(callbacks), Len(callbacks) - 1}
         /\ Shown = Posted - Pending /\ Len(results) \in Nat
<1>1. callbacks \in Seq(Messages)
  BY DEF IntruderInv, TypeOK, Messages
<1>2. /\ Len(callbacks) \in Nat \ {0} /\ callbacks' \in Seq(Messages)
      /\ Len(callbacks') = Len(callbacks) - 1
      /\ \A j \in 1 .. Len(callbacks) - 1 : callbacks'[j] = callbacks[j + 1]
  BY <1>1, HeadTailProperties, EmptySeq
<1>3. Head(callbacks) = callbacks[1] /\ callbacks[1] \in Messages
  BY <1>1, <1>2, ElementOfSeq
<1>4. callbacks' = <<>> <=> Len(callbacks) = 1
  BY <1>2, EmptySeq
<1>5. ~startEnabled /\ stopChan \in Attacks /\ stopChan # 0
  BY DEF IntruderInv, ButtonInv, TypeOK, Attacks
<1>6. Posted \in Int
  BY <1>5, TotalType DEF IntruderInv, TypeOK, Posted
<1>7. Len(results) \in Nat
  BY LenProperties DEF IntruderInv, TypeOK
<1>. QED  BY <1>2, <1>3, <1>4, <1>5, <1>6, <1>7 DEF Pending, Shown

(* The next result goes to the end of the table.                           *)
LEMMA IntruderInvShowResult ==
  ASSUME IntruderInv, ShowResult
  PROVE  IntruderInv'
<1>. USE DEF IntruderInv
<1>1. /\ callbacks # <<>> /\ callbacks' = Tail(callbacks) /\ Head(callbacks).kind = "result"
      /\ UNCHANGED <<pc, done, hops, matched, sentAfterStop, stopChan, closed, startEnabled,
                     stopEnabled, running, panicked>>
  BY DEF ShowResult, NextCallback, attackVars, chanVars
<1>2. /\ Head(callbacks) = callbacks[1] /\ callbacks[1] \in Messages
      /\ callbacks' \in Seq(Messages)
      /\ Len(callbacks) \in Nat \ {0} /\ Len(callbacks') = Len(callbacks) - 1
      /\ \A j \in 1 .. Len(callbacks) - 1 : callbacks'[j] = callbacks[j + 1]
      /\ (callbacks' = <<>> <=> Len(callbacks) = 1)
      /\ ~startEnabled /\ stopChan \in Attacks /\ stopChan # 0
      /\ Posted \in Int /\ Pending \in {Len(callbacks), Len(callbacks) - 1}
      /\ Shown = Posted - Pending /\ Len(results) \in Nat
  BY <1>1, HeadProperties
<1>3. Pending > 0
  BY <1>1, <1>2 DEF OrderInv
<1>4. /\ callbacks[1].attack = stopChan /\ callbacks[1].n = Shown + 1
      /\ Len(results) <= Shown /\ Shown \in Nat
  BY <1>2, <1>3 DEF OrderInv
<1>5. callbacks[1].n \in 1 .. Total
  BY <1>2, <1>4, TotalType DEF Messages
<1>6. /\ results' = Append(results, <<stopChan, Shown + 1>>)
      /\ progress' = <<"result", done[stopChan]>>
  BY <1>1, <1>2, <1>4 DEF ShowResult
<1>7. /\ results' \in Seq(Attacks \X (1 .. Total)) /\ Len(results') = Len(results) + 1
      /\ \A i \in 1 .. Len(results) : results'[i] = results[i]
      /\ results'[Len(results) + 1] = <<stopChan, Shown + 1>>
  <2>1. results \in Seq(Attacks \X (1 .. Total))
    BY DEF TypeOK
  <2>2. <<stopChan, Shown + 1>> \in Attacks \X (1 .. Total)
    BY <1>2, <1>4, <1>5
  <2>. QED  BY <1>6, <2>1, <2>2, AppendProperties
<1>8. TypeOK'
  BY <1>1, <1>2, <1>6, <1>7 DEF TypeOK, Messages
<1>9. AttackInv'
  BY <1>1 DEF AttackInv
<1>10. ButtonInv'
  BY <1>1, <1>2, <1>3 DEF ButtonInv, Pending
<1>11. OrderInv'
  <2>1. Posted' = Posted
    BY <1>1 DEF Posted
  <2>2. Pending' = Pending - 1
    BY <1>1, <1>2, <1>3 DEF Pending
  <2>3. Shown' = Shown + 1
    BY <1>2, <2>1, <2>2 DEF Shown
  <2>4. \A j \in 1 .. Pending' :
           /\ callbacks'[j].kind = "result"
           /\ callbacks'[j].attack = stopChan
           /\ callbacks'[j].n = Shown' + j
    <3>1. SUFFICES ASSUME NEW j \in 1 .. Pending'
                   PROVE  /\ callbacks'[j].kind = "result"
                          /\ callbacks'[j].attack = stopChan
                          /\ callbacks'[j].n = Shown' + j
      OBVIOUS
    <3>2. j + 1 \in 1 .. Pending /\ j \in 1 .. Len(callbacks) - 1
      BY <1>2, <2>2
    <3>3. callbacks'[j] = callbacks[j + 1] /\ callbacks[j + 1].n = Shown + (j + 1)
      BY <1>2, <3>2 DEF OrderInv
    <3>. QED  BY <1>2, <1>4, <2>3, <3>2, <3>3 DEF OrderInv
  <2>5. Pending' < Len(callbacks') => callbacks'[Len(callbacks')].kind # "result"
    BY <1>2, <1>3, <2>2 DEF OrderInv
  <2>6. ASSUME NEW i \in 1 .. Len(results')
        PROVE  results'[i][1] = stopChan /\ results'[i][2] = Shown' - Len(results') + i
    <3>1. Shown' - Len(results') = Shown - Len(results)
      BY <1>2, <1>4, <1>7, <2>3
    <3>2. CASE i = Len(results) + 1
      <4>1. results'[i] = <<stopChan, Shown + 1>>
        BY <1>7, <3>2
      <4>2. Shown' - Len(results') + i = Shown + 1
        BY <1>2, <1>4, <3>1, <3>2
      <4>. QED  BY <4>1, <4>2
    <3>3. CASE i # Len(results) + 1
      <4>1. i \in 1 .. Len(results)
        BY <1>2, <1>7, <3>3
      <4>. QED  BY <1>2, <1>7, <3>1, <4>1 DEF OrderInv
    <3>. QED  BY <3>2, <3>3
  <2>7. Len(results') <= Shown'
    BY <1>2, <1>4, <1>7, <2>3
  <2>. QED  BY <1>1, <2>4, <2>5, <2>6, <2>7 DEF OrderInv
<1>. QED  BY <1>8, <1>9, <1>10, <1>11

(* An ending is the last callback of its attack.                           *)
LEMMA IntruderInvShowEnding ==
  ASSUME IntruderInv, ShowEnding
  PROVE  IntruderInv'
<1>. USE DEF IntruderInv
<1>1. /\ callbacks # <<>> /\ callbacks' = Tail(callbacks) /\ Head(callbacks).kind \in Endings
      /\ progress' = <<Head(callbacks).kind, done[Head(callbacks).attack]>>
      /\ UNCHANGED <<pc, done, hops, matched, sentAfterStop, stopChan, closed, results, panicked>>
  BY DEF ShowEnding, NextCallback, attackVars, chanVars, Endings
<1>2. startEnabled' /\ ~stopEnabled'
  BY Zenon DEF ShowEnding
<1>3. startEnabled' \in BOOLEAN /\ stopEnabled' \in BOOLEAN /\ running' \in BOOLEAN
  BY Zenon DEF ShowEnding
<1>4. /\ Head(callbacks) = callbacks[1] /\ callbacks[1] \in Messages
      /\ callbacks' \in Seq(Messages)
      /\ Len(callbacks) \in Nat \ {0} /\ Len(callbacks') = Len(callbacks) - 1
      /\ (callbacks' = <<>> <=> Len(callbacks) = 1)
      /\ stopChan \in Attacks /\ stopChan # 0
      /\ Pending \in {Len(callbacks), Len(callbacks) - 1}
  BY <1>1, HeadProperties
<1>5. Pending = 0 /\ Len(callbacks) = 1 /\ pc[stopChan] = "returned"
  <2>1. ~(Pending > 0)
    BY <1>1, <1>4 DEF OrderInv, Endings
  <2>2. Pending = 0 /\ Len(callbacks) = 1
    BY <1>4, <2>1
  <2>. QED  BY <1>1, <2>2 DEF Pending
<1>6. callbacks' = <<>>
  BY <1>4, <1>5
<1>7. TypeOK'
  BY <1>1, <1>3, <1>4 DEF TypeOK, Messages, Endings
<1>8. AttackInv'
  BY <1>1, <1>5 DEF AttackInv
<1>9. ButtonInv'
  BY <1>1, <1>2, <1>4, <1>6 DEF ButtonInv
<1>10. OrderInv'
  <2>1. Posted' = Posted /\ Pending' = Pending
    BY <1>1, <1>4, <1>5, <1>6 DEF Posted, Pending
  <2>2. Shown' = Shown
    BY <2>1 DEF Shown
  <2>3. Len(callbacks') = 0 /\ Pending' = 0 /\ 1 .. 0 = {}
    BY <1>4, <1>5, <2>1
  <2>. QED  BY <1>1, <1>4, <2>2, <2>3 DEF OrderInv
<1>. QED  BY <1>7, <1>8, <1>9, <1>10

-----------------------------------------------------------------------------
(* A new attack finds no callback queued.                                  *)
LEMMA IntruderInvStart ==
  ASSUME IntruderInv, NEW a \in Attacks, Start(a)
  PROVE  IntruderInv'
<1>. USE DEF IntruderInv
<1>1. /\ startEnabled /\ pc[a] = "idle" /\ \A b \in Attacks : b < a => pc[b] # "idle"
      /\ pc' = [pc EXCEPT ![a] = "check"] /\ stopChan' = a /\ results' = <<>>
      /\ UNCHANGED <<done, hops, matched, sentAfterStop, closed, progress, callbacks, panicked>>
  BY DEF Start
<1>2. ~startEnabled' /\ stopEnabled' /\ running'
  BY Zenon DEF Start
<1>3. startEnabled' \in BOOLEAN /\ stopEnabled' \in BOOLEAN /\ running' \in BOOLEAN
  BY Zenon DEF Start
<1>4. callbacks = <<>> /\ a # 0 /\ a > stopChan /\ done[a] = 0
  BY <1>1 DEF ButtonInv, AttackInv, Attacks
<1>5. pc'[a] = "check" /\ \A b \in Attacks : b # a => pc'[b] = pc[b]
  BY <1>1 DEF TypeOK
<1>6. results' \in Seq(Attacks \X (1 .. Total)) /\ Len(results') = 0 /\ Len(callbacks) = 0
  BY <1>1, <1>4, EmptySeq
<1>7. TypeOK'
  BY <1>1, <1>3, <1>6 DEF TypeOK
<1>8. AttackInv'
  <2>1. \A b \in Attacks : b # a => pc[b] \in {"idle", "returned"} /\ (pc[b] = "idle" <=> b > a)
    BY <1>1, <1>4 DEF AttackInv, TypeOK, Attacks
  <2>2. ASSUME NEW b \in Attacks, b # a
        PROVE  /\ pc'[b] = "idle" <=> b > stopChan'
               /\ pc'[b] \in {"idle", "returned"}
    BY <1>1, <1>5, <2>1, <2>2
  <2>3. ~(a > stopChan') /\ pc'[a] # "idle"
    BY <1>1, <1>5 DEF Attacks
  <2>4. ASSUME NEW b \in Attacks
        PROVE  /\ pc[b] = "idle" => done[b] = 0
               /\ pc[b] # "follow" => hops[b] = 0
               /\ sentAfterStop[b] <= 1 + MaxRedirects
               /\ sentAfterStop[b] > 0 => b \in closed
    BY DEF AttackInv
  <2>. QED  BY <1>1, <1>2, <1>5, <2>2, <2>3, <2>4 DEF AttackInv
<1>9. ButtonInv'
  BY <1>1, <1>2, <1>4, <1>5 DEF ButtonInv
<1>10. OrderInv'
  <2>1. Posted' = 0 /\ Pending' = 0
    BY <1>1, <1>4, <1>5, <1>6 DEF Posted, Pending
  <2>2. Shown' = 0
    BY <2>1 DEF Shown
  <2>3. 1 .. 0 = {}
    OBVIOUS
  <2>. QED  BY <1>1, <1>6, <2>1, <2>2, <2>3 DEF OrderInv
<1>. QED  BY <1>7, <1>8, <1>9, <1>10

LEMMA IntruderInvStop ==
  ASSUME IntruderInv, Stop
  PROVE  IntruderInv'
<1>. USE DEF IntruderInv
<1>1. /\ stopChan \in Attacks /\ closed \subseteq closed' /\ closed' \subseteq Attacks
      /\ UNCHANGED <<pc, done, hops, matched, sentAfterStop, stopChan, startEnabled, stopEnabled,
                     results, progress, callbacks>>
  BY DEF Stop, attackVars, ButtonInv, TypeOK
<1>2. running' \in BOOLEAN /\ panicked' \in BOOLEAN
  BY Zenon DEF Stop, TypeOK
<1>3. TypeOK'
  BY <1>1, <1>2 DEF TypeOK
<1>4. AttackInv' /\ ButtonInv'
  BY <1>1 DEF AttackInv, ButtonInv
<1>5. Posted' = Posted /\ Pending' = Pending /\ Shown' = Shown
  BY <1>1 DEF Posted, Pending, Shown
<1>6. OrderInv'
  BY <1>1, <1>5 DEF OrderInv
<1>. QED  BY <1>3, <1>4, <1>6

LEMMA IntruderInvClear ==
  ASSUME IntruderInv, ClearResults
  PROVE  IntruderInv'
<1>. USE DEF IntruderInv
<1>1. /\ results' = <<>> /\ progress' = <<"none", 0>>
      /\ UNCHANGED <<pc, done, hops, matched, sentAfterStop, stopChan, closed, startEnabled,
                     stopEnabled, running, callbacks, panicked>>
  BY DEF ClearResults, attackVars, chanVars
<1>2. results' \in Seq(Attacks \X (1 .. Total)) /\ Len(results') = 0 /\ Len(results) \in Nat
  BY <1>1, EmptySeq, LenProperties DEF TypeOK
<1>3. TypeOK'
  BY <1>1, <1>2, TotalType DEF TypeOK
<1>4. AttackInv' /\ ButtonInv'
  BY <1>1 DEF AttackInv, ButtonInv
<1>5. Posted' = Posted /\ Pending' = Pending /\ Shown' = Shown
  BY <1>1 DEF Posted, Pending, Shown
<1>6. stopChan # 0 => Shown \in Int
  <2>1. stopChan # 0 => Posted \in Int
    BY TotalType DEF TypeOK, Posted
  <2>2. Len(callbacks) \in Nat
    BY LenProperties DEF TypeOK
  <2>. QED  BY <2>1, <2>2 DEF Shown, Pending
<1>7. OrderInv'
  BY <1>1, <1>2, <1>5, <1>6 DEF OrderInv
<1>. QED  BY <1>3, <1>4, <1>7

(* The invariant is inductive.                                             *)
LEMMA IntruderInvStep == IntruderInv /\ [Next]_vars => IntruderInv'
<1>1. ASSUME IntruderInv, UNCHANGED vars PROVE IntruderInv'
  <2>1. UNCHANGED <<pc, done, hops, matched, sentAfterStop, stopChan, closed, startEnabled,
                    stopEnabled, running, results, progress, callbacks, panicked>>
    BY <1>1 DEF vars, attackVars, chanVars, tabVars
  <2>2. TypeOK' /\ AttackInv' /\ ButtonInv'
    BY <1>1, <2>1 DEF IntruderInv, TypeOK, AttackInv, ButtonInv
  <2>3. OrderInv'
    BY <1>1, <2>1 DEF IntruderInv, OrderInv, Posted, Pending, Shown
  <2>. QED  BY <2>2, <2>3 DEF IntruderInv
<1>. QED
  BY <1>1, IntruderInvAttack, IntruderInvStart, IntruderInvShowResult, IntruderInvShowEnding,
     IntruderInvStop, IntruderInvClear DEF Next, Callback

(* Results, messages and counters stay in range.                           *)
THEOREM IntruderTypeCorrect == Spec => []TypeOK
BY IntruderInvInit, IntruderInvStep, PTL DEF Spec, IntruderInv

(* The Start button comes back when the goroutine of the attack has        *)
(* returned, so that no two attacks share stopChan and the table.          *)
THEOREM AttacksDoNotOverlap == Spec => []OneAttack
<1>1. IntruderInv => OneAttack
  BY DEF IntruderInv, AttackInv, OneAttack
<1>. QED  BY <1>1, IntruderInvInit, IntruderInvStep, PTL DEF Spec

(* The table shows the results of the last attack in the order of its      *)
(* requests.                                                               *)
THEOREM TableInOrder == Spec => []ResultsInOrder
<1>1. ASSUME IntruderInv PROVE ResultsInOrder
  <2>1. SUFFICES ASSUME NEW i \in 1 .. Len(results)
                 PROVE  /\ results[i][1] = stopChan
                        /\ i > 1 => results[i][2] = results[i - 1][2] + 1
    BY DEF ResultsInOrder
  <2>2. Len(results) \in Nat /\ Len(callbacks) \in Nat
    BY <1>1, LenProperties DEF IntruderInv, TypeOK
  <2>3. stopChan \in Attacks
    BY <1>1, <2>1, <2>2, EmptySeq DEF IntruderInv, ButtonInv, TypeOK
  <2>4. Posted \in Int
    BY <1>1, <2>3, TotalType DEF IntruderInv, TypeOK, Posted
  <2>5. Shown \in Int
    BY <2>2, <2>4 DEF Shown, Pending
  <2>6. i > 1 => i - 1 \in 1 .. Len(results)
    BY <2>2
  <2>. QED  BY <1>1, <2>2, <2>3, <2>5, <2>6 DEF IntruderInv, OrderInv, Attacks
<1>. QED  BY <1>1, IntruderInvInit, IntruderInvStep, PTL DEF Spec

(* After Stop an attack sends the payload it was about to send, if any,    *)
(* with its redirects, and no other.                                       *)
THEOREM StopTakesEffect == Spec => []StopHalts
<1>1. IntruderInv => StopHalts
  BY DEF IntruderInv, AttackInv, StopHalts
<1>. QED  BY <1>1, IntruderInvInit, IntruderInvStep, PTL DEF Spec

-----------------------------------------------------------------------------
(* Least and greatest numbers.                                             *)

LEMMA LeastNumber ==
    ASSUME NEW T, T \subseteq Nat, T # {}
    PROVE  \E m \in T : \A k \in T : m <= k
  <1>1. PICK m \in T : \A k \in T : ~(<<k, m>> \in OpToRel(<, Nat))
    BY WFMin, NatLessThanWellFounded, Zenon
  <1>2. m \in Nat /\ \A k \in T : <<k, m>> \in Nat \X Nat /\ ~(k < m)
    BY <1>1 DEF OpToRel
  <1>3. ASSUME NEW k \in T  PROVE m <= k
    <2>1. m \in Nat /\ k \in Nat /\ ~(k < m)
      BY <1>2
    <2> QED
      BY <2>1
  <1> QED
    BY <1>3

LEMMA PairMin ==
    ASSUME NEW a \in Int, NEW b \in Int
    PROVE  Min({a, b}) = IF a <= b THEN a ELSE b
  BY DEF Min

LEMMA PairMax ==
    ASSUME NEW a \in Int, NEW b \in Int
    PROVE  Max({a, b}) = IF a <= b THEN b ELSE a
  BY DEF Max

LEMMA MinFacts ==
    ASSUME NEW T, T \subseteq Nat, T # {}
    PROVE  Min(T) \in T /\ \A k \in T : Min(T) <= k
  BY LeastNumber, Zenon DEF Min

LEMMA MaxFacts ==
    ASSUME NEW n \in Nat, NEW T, T \subseteq 0 .. n, T # {}
    PROVE  Max(T) \in T /\ \A k \in T : k <= Max(T)
  <1> DEFINE D == {n - k : k \in T}
  <1>1. D \subseteq Nat /\ D # {}
    <2>1. \A k \in T : k \in 0 .. n /\ n - k \in Nat
      OBVIOUS
    <2>2. PICK k : k \in T
      OBVIOUS
    <2>3. n - k \in D
      BY <2>2
    <2> QED
      BY <2>1, <2>3
  <1>2. PICK m \in D : \A d \in D : m <= d
    BY <1>1, LeastNumber
  <1>3. PICK k \in T : m = n - k
    BY <1>2
  <1>4. ASSUME NEW j \in T  PROVE k >= j
    <2>1. n - k <= n - j
      BY <1>2, <1>3
    <2> QED
      BY <2>1
  <1>5. \E x \in T : \A y \in T : x >= y
    BY <1>4
  <1>6. Max(T) \in T /\ \A y \in T : Max(T) >= y
    BY <1>5, Zenon DEF Max
  <1>7. ASSUME NEW y \in T  PROVE y <= Max(T)
    <2>1. Max(T) \in 0 .. n /\ y \in 0 .. n /\ Max(T) >= y
      BY <1>6, Zenon
    <2> QED
      BY <2>1
  <1> QED
    BY <1>6, <1>7

-----------------------------------------------------------------------------
(* Texts and positions.                                                    *)

LEMMA TextFacts ==
    ASSUME NEW t \in AllTexts
    PROVE  /\ t \in Seq(Seq(Runes)) /\ Len(t) \in Nat \ {0} /\ DOMAIN t = 1 .. Len(t)
           /\ \A l \in 1 .. Len(t) :
                t[l] \in Seq(Runes) /\ Len(t[l]) \in Nat /\ DOMAIN t[l] = 1 .. Len(t[l])
  <1>1. t \in Seq(Seq(Runes)) /\ t # <<>>
    BY DEF AllTexts
  <1>2. Len(t) \in Nat \ {0} /\ DOMAIN t = 1 .. Len(t)
    BY <1>1, EmptySeq, LenProperties
  <1>3. \A l \in 1 .. Len(t) : t[l] \in Seq(Runes)
    BY <1>1, ElementOfSeq
  <1> QED
    BY <1>1, <1>2, <1>3, LenProperties

LEMMA PositionIs ==
    ASSUME NEW t \in AllTexts
    PROVE  /\ \A l, c : <<l, c>> \in Positions(t) <=> l \in 1 .. Len(t) /\ c \in 0 .. Len(t[l])
           /\ \A p \in Positions(t) : /\ p = <<p[1], p[2]>> /\ p[1] \in 1 .. Len(t)
                                      /\ p[2] \in 0 .. Len(t[p[1]])
  <1>1. DOMAIN t = 1 .. Len(t)
    BY TextFacts
  <1>2. ASSUME NEW p  PROVE p \in Positions(t) <=> \E l \in 1 .. Len(t) : p \in {l} \X (0 .. Len(t[l]))
    BY <1>1 DEF Positions
  <1> QED
    BY <1>2

LEMMA EmptyIsText == EmptyText \in AllTexts
  BY DEF EmptyText, AllTexts

(* The lines behind the first i and up to the j-th taken out, and others   *)
(* put in their place.                                                     *)
Splice(t, i, m, j) == SubSeq(t, 1, i) \o m \o SubSeq(t, j + 1, Len(t))

Fits(S, t, i, m, j) ==
    t \in Seq(S) /\ m \in Seq(S) /\ i \in Nat /\ j \in Nat /\ i <= j /\ j <= Len(t)

IsSplice(S, t, i, m, j, r) ==
    /\ r \in Seq(S) /\ Len(r) = i + Len(m) + (Len(t) - j)
    /\ \A k \in 1 .. i : r[k] = t[k]
    /\ \A k \in 1 .. Len(m) : r[i + k] = m[k]
    /\ \A k \in 1 .. Len(t) - j : r[i + Len(m) + k] = t[j + k]

LEMMA Spliced ==
    ASSUME NEW S, NEW t, NEW i, NEW m, NEW j, Fits(S, t, i, m, j)
    PROVE  IsSplice(S, t, i, m, j, Splice(t, i, m, j))
  <1> DEFINE a == SubSeq(t, 1, i)
             z == SubSeq(t, j + 1, Len(t))
             b == a \o m
  <1>0. t \in Seq(S) /\ m \in Seq(S) /\ i \in Nat /\ j \in Nat /\ i <= j /\ j <= Len(t)
    BY DEF Fits
  <1>1. Len(t) \in Nat /\ Len(m) \in Nat /\ \A k \in 1 .. Len(t) : t[k] \in S
    BY <1>0, LenProperties, ElementOfSeq
  <1>2. a \in Seq(S) /\ Len(a) = i /\ \A k \in 1 .. i : a[k] = t[k]
    <2>1. \A k \in 1 .. i : t[k] \in S
      BY <1>0, <1>1
    <2>2. /\ a \in Seq(S) /\ Len(a) = IF 1 <= i THEN i - 1 + 1 ELSE 0
          /\ \A k \in 1 .. i - 1 + 1 : a[k] = t[1 + k - 1]
      BY <1>0, <2>1, SubSeqProperties
    <2> QED
      BY <1>0, <2>2
  <1>3. z \in Seq(S) /\ Len(z) = Len(t) - j /\ \A k \in 1 .. Len(t) - j : z[k] = t[j + k]
    <2>1. \A k \in j + 1 .. Len(t) : t[k] \in S
      BY <1>0, <1>1
    <2>2. /\ z \in Seq(S) /\ Len(z) = IF j + 1 <= Len(t) THEN Len(t) - (j + 1) + 1 ELSE 0
          /\ \A k \in 1 .. Len(t) - (j + 1) + 1 : z[k] = t[j + 1 + k - 1]
      BY <1>0, <1>1, <2>1, SubSeqProperties
    <2>3. Len(z) = Len(t) - j
      BY <1>0, <1>1, <2>2
    <2>4. ASSUME NEW k \in 1 .. Len(t) - j  PROVE z[k] = t[j + k]
      <3>1. k \in 1 .. Len(t) - (j + 1) + 1 /\ j + 1 + k - 1 = j + k
        BY <1>0, <1>1
      <3> QED
        BY <2>2, <3>1
    <2> QED
      BY <2>2, <2>3, <2>4
  <1> HIDE DEF a, z
  <1>4. /\ b \in Seq(S) /\ Len(b) = i + Len(m)
        /\ \A k \in 1 .. i + Len(m) : b[k] = IF k <= i THEN a[k] ELSE m[k - i]
    BY <1>0, <1>2, ConcatProperties
  <1> HIDE DEF b
  <1>5. /\ b \o z \in Seq(S) /\ Len(b \o z) = i + Len(m) + (Len(t) - j)
        /\ \A k \in 1 .. i + Len(m) + (Len(t) - j) :
             (b \o z)[k] = IF k <= i + Len(m) THEN b[k] ELSE z[k - (i + Len(m))]
    <2>1. /\ b \o z \in Seq(S) /\ Len(b \o z) = Len(b) + Len(z)
          /\ \A k \in 1 .. Len(b) + Len(z) :
               (b \o z)[k] = IF k <= Len(b) THEN b[k] ELSE z[k - Len(b)]
      <3>1. b \in Seq(S) /\ z \in Seq(S)
        BY <1>3, <1>4
      <3> QED
        BY <3>1, ConcatProperties
    <2>2. Len(b) = i + Len(m) /\ Len(z) = Len(t) - j
      BY <1>3, <1>4
    <2> QED
      BY <2>1, <2>2
  <1>6. ASSUME NEW k \in 1 .. i  PROVE (b \o z)[k] = t[k]
    BY <1>0, <1>1, <1>2, <1>4, <1>5
  <1>7. ASSUME NEW k \in 1 .. Len(m)  PROVE (b \o z)[i + k] = m[k]
    <2> DEFINE n == i + k
    <2>1. ~(n <= i) /\ n - i = k /\ n \in 1 .. i + Len(m)
      BY <1>0, <1>1
    <2>2. n \in 1 .. i + Len(m) + (Len(t) - j) /\ n <= i + Len(m)
      BY <1>0, <1>1
    <2> HIDE DEF n
    <2>3. (b \o z)[n] = b[n]
      BY <2>2, <1>5
    <2>4. b[n] = m[n - i]
      BY <2>1, <1>4
    <2>5. (b \o z)[n] = m[k]
      BY <2>1, <2>3, <2>4
    <2> QED
      BY <2>5 DEF n
  <1>8. ASSUME NEW k \in 1 .. Len(t) - j  PROVE (b \o z)[i + Len(m) + k] = t[j + k]
    <2> DEFINE n == i + Len(m) + k
    <2>1. ~(n <= i + Len(m)) /\ n - (i + Len(m)) = k
      BY <1>0, <1>1
    <2>2. n \in 1 .. i + Len(m) + (Len(t) - j)
      BY <1>0, <1>1
    <2> HIDE DEF n
    <2>3. (b \o z)[n] = z[n - (i + Len(m))]
      BY <2>1, <2>2, <1>5
    <2>4. (b \o z)[n] = t[j + k]
      BY <2>1, <2>3, <1>3
    <2> QED
      BY <2>4 DEF n
  <1> QED
    BY <1>5, <1>6, <1>7, <1>8 DEF a, z, b, Splice, IsSplice

(* The first and the last part of a line.                                  *)
LEMMA LineParts ==
    ASSUME NEW line \in Seq(Runes), NEW c \in 0 .. Len(line)
    PROVE  /\ SubSeq(line, 1, c) \in Seq(Runes) /\ Len(SubSeq(line, 1, c)) = c
           /\ SubSeq(line, c + 1, Len(line)) \in Seq(Runes)
           /\ Len(SubSeq(line, c + 1, Len(line))) = Len(line) - c
  <1>1. Len(line) \in Nat /\ \A k \in 1 .. Len(line) : line[k] \in Runes
    BY LenProperties, ElementOfSeq
  <1>2. c \in Nat /\ c <= Len(line) /\ c + 1 \in Int
    BY <1>1
  <1>3. /\ SubSeq(line, 1, c) \in Seq(Runes)
        /\ Len(SubSeq(line, 1, c)) = IF 1 <= c THEN c - 1 + 1 ELSE 0
    <2>1. \A k \in 1 .. c : line[k] \in Runes
      BY <1>1, <1>2
    <2> QED
      BY <2>1, <1>2, SubSeqProperties
  <1>4. /\ SubSeq(line, c + 1, Len(line)) \in Seq(Runes)
        /\ Len(SubSeq(line, c + 1, Len(line)))
             = IF c + 1 <= Len(line) THEN Len(line) - (c + 1) + 1 ELSE 0
    <2>1. \A k \in c + 1 .. Len(line) : line[k] \in Runes
      BY <1>1, <1>2
    <2> QED
      BY <2>1, <1>1, <1>2, SubSeqProperties
  <1> QED
    BY <1>1, <1>2, <1>3, <1>4

(* The lines around a place in a text.                                     *)
LEMMA Joined ==
    ASSUME NEW a \in Seq(Runes), NEW b \in Seq(Runes)
    PROVE  a \o b \in Seq(Runes) /\ Len(a \o b) = Len(a) + Len(b)
  BY ConcatProperties

(* The line and the column of a position.                                  *)
LEMMA Place ==
    ASSUME NEW t \in AllTexts, NEW p \in Positions(t)
    PROVE  \E l \in Nat, c \in Nat :
             /\ p = <<l, c>> /\ l >= 1 /\ l <= Len(t) /\ c <= Len(t[l])
             /\ t[l] \in Seq(Runes) /\ Len(t[l]) \in Nat /\ t \in Seq(Seq(Runes))
             /\ Len(t) \in Nat
  <1>1. /\ p = <<p[1], p[2]>> /\ p[1] \in 1 .. Len(t) /\ p[2] \in 0 .. Len(t[p[1]])
        /\ t[p[1]] \in Seq(Runes) /\ Len(t[p[1]]) \in Nat /\ t \in Seq(Seq(Runes))
        /\ Len(t) \in Nat
    BY PositionIs, TextFacts
  <1>2. p[1] \in Nat /\ p[2] \in Nat /\ p[1] <= Len(t) /\ p[2] <= Len(t[p[1]])
    BY <1>1
  <1> QED
    BY <1>1, <1>2

(* A place is in a text. *)
LEMMA PlaceIn ==
    ASSUME NEW t, t \in Seq(Seq(Runes)), NEW l \in Nat, l >= 1, l <= Len(t),
           NEW c \in Nat, c <= Len(t[l])
    PROVE  t \in AllTexts /\ <<l, c>> \in Positions(t)
  <1>1. Len(t) \in Nat
    BY LenProperties
  <1>2. t # <<>>
    BY <1>1, EmptySeq
  <1>3. t \in AllTexts
    BY <1>2 DEF AllTexts
  <1>4. l \in 1 .. Len(t)
    BY <1>1
  <1>5. Len(t[l]) \in Nat
    BY <1>3, <1>4, TextFacts
  <1>6. c \in 0 .. Len(t[l])
    BY <1>5
  <1> QED
    BY <1>3, <1>4, <1>6, PositionIs

(* deleteSelection leaves a text with the cursor in it.                    *)
LEMMA CutOutFacts ==
    ASSUME NEW t \in AllTexts, NEW p \in Positions(t), NEW q \in Positions(t), ~Before(q, p)
    PROVE  CutOut(t, p, q) \in AllTexts /\ p \in Positions(CutOut(t, p, q))
  <1>1. PICK l \in Nat, c \in Nat :
             /\ p = <<l, c>> /\ l >= 1 /\ l <= Len(t) /\ c <= Len(t[l])
             /\ t[l] \in Seq(Runes) /\ Len(t[l]) \in Nat /\ t \in Seq(Seq(Runes))
             /\ Len(t) \in Nat
    BY Place
  <1>2. PICK k \in Nat, d \in Nat :
             /\ q = <<k, d>> /\ k >= 1 /\ k <= Len(t) /\ d <= Len(t[k])
             /\ t[k] \in Seq(Runes) /\ Len(t[k]) \in Nat /\ t \in Seq(Seq(Runes))
             /\ Len(t) \in Nat
    BY Place
  <1>4. PICK h \in Nat : h = l - 1 /\ l = h + 1 /\ h <= k
    <2>1. l <= k
      BY <1>1, <1>2 DEF Before
    <2>2. l - 1 \in Nat /\ l = l - 1 + 1 /\ l - 1 <= k
      BY <2>1, <1>1, <1>2
    <2> QED
      BY <2>2
  <1> DEFINE a == SubSeq(t[l], 1, c)
             b == SubSeq(t[k], d + 1, Len(t[k]))
             m == << a \o b >>
             r == Splice(t, h, m, k)
  <1>3. CutOut(t, p, q) = r
    BY <1>1, <1>2, <1>4 DEF CutOut, Splice
  <1>5. a \in Seq(Runes) /\ Len(a) = c
    BY <1>1, LineParts
  <1>6. b \in Seq(Runes) /\ Len(b) \in Nat
    <2>1. b \in Seq(Runes)
      BY <1>2, LineParts
    <2> QED
      BY <2>1, LenProperties
  <1> HIDE DEF a, b
  <1>7. a \o b \in Seq(Runes) /\ Len(a \o b) = c + Len(b)
    BY <1>5, <1>6, Joined
  <1>8. m \in Seq(Seq(Runes)) /\ Len(m) = 1 /\ m[1] = a \o b
    BY <1>7
  <1> HIDE DEF m
  <1>9. /\ r \in Seq(Seq(Runes)) /\ Len(r) = h + Len(m) + (Len(t) - k)
        /\ \A i \in 1 .. Len(m) : r[h + i] = m[i]
    <2>1. /\ t \in Seq(Seq(Runes)) /\ m \in Seq(Seq(Runes)) /\ h \in Nat /\ k \in Nat
          /\ h <= k /\ k <= Len(t)
      BY <1>1, <1>2, <1>4, <1>8
    <2>2. IsSplice(Seq(Runes), t, h, m, k, r)
      BY <2>1, Spliced DEF Fits
    <2> QED
      BY <2>2 DEF IsSplice
  <1> HIDE DEF r
  <1>10. Len(r) >= l /\ r[l] = a \o b
    <2>1. r[h + 1] = m[1]
      <3>1. 1 \in 1 .. Len(m)
        BY <1>8
      <3> QED
        BY <3>1, <1>9
    <2>2. Len(r) = h + 1 + (Len(t) - k)
      BY <1>8, <1>9
    <2> QED
      BY <2>1, <2>2, <1>1, <1>2, <1>4, <1>8
  <1>11. c <= Len(r[l]) /\ l >= 1 /\ l <= Len(r)
    BY <1>1, <1>6, <1>7, <1>9, <1>10, <1>8, <1>2
  <1>12. r \in AllTexts /\ <<l, c>> \in Positions(r)
    BY <1>1, <1>9, <1>11, PlaceIn
  <1> QED
    BY <1>1, <1>3, <1>12


(* Putting a piece in leaves a text with the cursor behind the piece, and  *)
(* takes no line away.                                                     *)
LEMMA InsertedFacts ==
    ASSUME NEW t \in AllTexts, NEW p \in Positions(t), NEW piece \in AllTexts
    PROVE  /\ Inserted(t, p, piece) \in AllTexts
           /\ EndOf(p, piece) \in Positions(Inserted(t, p, piece))
           /\ Len(Inserted(t, p, piece)) >= Len(t)
  <1>1. PICK l \in Nat, c \in Nat :
             /\ p = <<l, c>> /\ l >= 1 /\ l <= Len(t) /\ c <= Len(t[l])
             /\ t[l] \in Seq(Runes) /\ Len(t[l]) \in Nat /\ t \in Seq(Seq(Runes))
             /\ Len(t) \in Nat
    BY Place
  <1>2. PICK h \in Nat : h = l - 1 /\ l = h + 1
    <2>1. l - 1 \in Nat /\ l = l - 1 + 1
      BY <1>1
    <2> QED
      BY <2>1
  <1>3. /\ piece \in Seq(Seq(Runes)) /\ Len(piece) \in Nat \ {0}
        /\ \A i \in 1 .. Len(piece) : piece[i] \in Seq(Runes) /\ Len(piece[i]) \in Nat
    BY TextFacts
  <1> DEFINE a == SubSeq(t[l], 1, c)
             b == SubSeq(t[l], c + 1, Len(t[l]))
             n == Len(piece)
             m == IF n = 1 THEN << a \o piece[1] \o b >>
                  ELSE << a \o piece[1] >> \o SubSeq(piece, 2, n - 1) \o << piece[n] \o b >>
             r == Splice(t, h, m, l)
  <1>4. Inserted(t, p, piece) = r
    BY <1>1, <1>2 DEF Inserted, Splice, Last
  <1>5. a \in Seq(Runes) /\ Len(a) = c /\ b \in Seq(Runes) /\ Len(b) \in Nat
    <2>1. a \in Seq(Runes) /\ Len(a) = c /\ b \in Seq(Runes)
      BY <1>1, LineParts
    <2> QED
      BY <2>1, LenProperties
  <1> HIDE DEF a, b
  <1> DEFINE e == IF n = 1 THEN c + Len(piece[1]) ELSE Len(piece[n])
  <1>6. /\ m \in Seq(Seq(Runes)) /\ Len(m) = n
        /\ m[n] \in Seq(Runes) /\ e \in Nat /\ e <= Len(m[n])
    <2>1. CASE n = 1
      <3>1. piece[1] \in Seq(Runes) /\ Len(piece[1]) \in Nat
        BY <2>1, <1>3
      <3>2. a \o piece[1] \in Seq(Runes) /\ Len(a \o piece[1]) = c + Len(piece[1])
        BY <1>5, <3>1, Joined
      <3>3. /\ a \o piece[1] \o b \in Seq(Runes)
            /\ Len(a \o piece[1] \o b) = Len(a \o piece[1]) + Len(b)
        BY <1>5, <3>2, Joined
      <3>4. m = << a \o piece[1] \o b >>
        BY <2>1
      <3>5. Len(a \o piece[1] \o b) = c + Len(piece[1]) + Len(b)
        BY <3>2, <3>3
      <3>6. e = c + Len(piece[1]) /\ e \in Nat /\ e <= c + Len(piece[1]) + Len(b)
        BY <2>1, <3>1, <1>5
      <3> DEFINE x == a \o piece[1] \o b
      <3>7. m \in Seq(Seq(Runes)) /\ Len(m) = 1 /\ m[1] = x
        <4>1. x \in Seq(Runes) /\ m = <<x>>
          BY <3>3, <3>4
        <4> HIDE DEF x, m
        <4> QED
          BY <4>1
      <3> QED
        BY <2>1, <3>3, <3>5, <3>6, <3>7
    <2>2. CASE n # 1
      <3>1. n \in Nat /\ n >= 2 /\ 1 \in 1 .. n /\ n \in 1 .. n
        <4>1. n \in Nat \ {0} /\ n # 1
          BY <2>2, <1>3
        <4> HIDE DEF n
        <4> QED
          BY <4>1
      <3>2. /\ piece[1] \in Seq(Runes) /\ Len(piece[1]) \in Nat
            /\ piece[n] \in Seq(Runes) /\ Len(piece[n]) \in Nat
        BY <3>1, <1>3
      <3> DEFINE x == a \o piece[1]
                 y == piece[n] \o b
                 z == SubSeq(piece, 2, n - 1)
      <3>3. x \in Seq(Runes) /\ y \in Seq(Runes) /\ Len(y) = Len(piece[n]) + Len(b)
        BY <1>5, <3>2, Joined
      <3>4. m = <<x>> \o z \o <<y>>
        BY <2>2
      <3>5. z \in Seq(Seq(Runes)) /\ Len(z) = n - 2
        <4>1. \A i \in 2 .. n - 1 : piece[i] \in Seq(Runes)
          BY <1>3, <3>1
        <4>2. z \in Seq(Seq(Runes)) /\ Len(z) = IF 2 <= n - 1 THEN n - 1 - 2 + 1 ELSE 0
          BY <4>1, <3>1, SubSeqProperties
        <4> HIDE DEF n, z
        <4> QED
          BY <3>1, <4>2
      <3> HIDE DEF x, y, z, m, n
      <3>6. <<x>> \in Seq(Seq(Runes)) /\ Len(<<x>>) = 1 /\ <<y>> \in Seq(Seq(Runes))
            /\ Len(<<y>>) = 1 /\ <<y>>[1] = y
        BY <3>3
      <3> DEFINE w == <<x>> \o z
      <3>7. w \in Seq(Seq(Runes)) /\ Len(w) = n - 1
        <4>1. w \in Seq(Seq(Runes)) /\ Len(w) = 1 + Len(z)
          BY <3>5, <3>6, ConcatProperties
        <4> QED
          BY <3>1, <3>5, <4>1
      <3> HIDE DEF w
      <3>8. /\ w \o <<y>> \in Seq(Seq(Runes)) /\ Len(w \o <<y>>) = Len(w) + Len(<<y>>)
            /\ \A i \in 1 .. Len(w) + Len(<<y>>) :
                 (w \o <<y>>)[i] = IF i <= Len(w) THEN w[i] ELSE <<y>>[i - Len(w)]
        BY <3>6, <3>7, ConcatProperties
      <3>9. Len(w \o <<y>>) = n
        BY <3>1, <3>6, <3>7, <3>8
      <3>10. (w \o <<y>>)[n] = y
        <4>1. n \in 1 .. Len(w) + Len(<<y>>) /\ ~(n <= Len(w)) /\ n - Len(w) = 1
          BY <3>1, <3>6, <3>7
        <4> QED
          BY <4>1, <3>6, <3>8
      <3>11. m = w \o <<y>>
        BY <3>4 DEF w
      <3>12. e = Len(piece[n])
        BY <2>2
      <3> QED
        BY <3>2, <3>3, <3>8, <3>9, <3>10, <3>11, <3>12, <1>5
    <2> QED
      BY <2>1, <2>2
  <1>7. n \in Nat /\ n >= 1 /\ EndOf(p, piece) = << h + n, e >>
    <2>1. n \in Nat /\ n >= 1
      BY <1>3
    <2>2. CASE n = 1
      BY <2>1, <2>2, <1>1, <1>2 DEF EndOf
    <2>3. CASE n # 1
      <3>1. EndOf(p, piece) = <<l + n - 1, e>>
        BY <2>3, <1>1 DEF EndOf, Last
      <3>2. l + n - 1 = h + n
        BY <1>2, <2>1
      <3> QED
        BY <2>1, <3>1, <3>2
    <2> QED
      BY <2>1, <2>2, <2>3
  <1> HIDE DEF m, n, e
  <1>8. /\ r \in Seq(Seq(Runes)) /\ Len(r) = h + Len(m) + (Len(t) - l)
        /\ \A i \in 1 .. Len(m) : r[h + i] = m[i]
    <2>1. /\ t \in Seq(Seq(Runes)) /\ m \in Seq(Seq(Runes)) /\ h \in Nat /\ l \in Nat
          /\ h <= l /\ l <= Len(t)
      BY <1>1, <1>2, <1>6
    <2>2. IsSplice(Seq(Runes), t, h, m, l, r)
      BY <2>1, Spliced DEF Fits
    <2> QED
      BY <2>2 DEF IsSplice
  <1> HIDE DEF r
  <1>9. r[h + n] = m[n]
    <2>1. n \in 1 .. Len(m)
      BY <1>6, <1>7
    <2> QED
      BY <1>8, <2>1
  <1>10. Len(r) >= Len(t) /\ h + n <= Len(r) /\ h + n \in Nat /\ h + n >= 1
    <2>1. Len(r) = h + n + (Len(t) - l)
      BY <1>6, <1>8
    <2> QED
      BY <2>1, <1>1, <1>2, <1>7
  <1>11. e <= Len(r[h + n])
    BY <1>6, <1>9
  <1>12. r \in AllTexts /\ <<h + n, e>> \in Positions(r)
    BY <1>6, <1>8, <1>10, <1>11, PlaceIn
  <1> QED
    BY <1>4, <1>7, <1>10, <1>12

(* selectedText gives a text, from a column that need not be there too.    *)
LEMMA PieceFacts ==
    ASSUME NEW t \in Seq(Seq(Runes)), NEW l \in 1 .. Len(t), NEW k \in 1 .. Len(t), l <= k,
           NEW c \in Nat, NEW d \in Nat, d <= Len(t[k])
    PROVE  Piece(t, <<l, c>>, <<k, d>>) \in AllTexts
  <1>1. /\ Len(t) \in Nat /\ l \in Nat /\ k \in Nat /\ 1 <= l /\ k <= Len(t)
        /\ \A i \in 1 .. Len(t) : t[i] \in Seq(Runes)
    BY LenProperties, ElementOfSeq
  <1>2. ASSUME NEW line \in Seq(Runes), NEW i \in Nat, 1 <= i, NEW j \in Nat, j <= Len(line)
        PROVE  SubSeq(line, i, j) \in Seq(Runes)
    <2>1. Len(line) \in Nat /\ \A n \in 1 .. Len(line) : line[n] \in Runes
      BY LenProperties, ElementOfSeq
    <2>2. \A n \in i .. j : line[n] \in Runes
      BY <1>2, <2>1
    <2> QED
      BY <2>2, SubSeqProperties
  <1>3. /\ t[l] \in Seq(Runes) /\ t[k] \in Seq(Runes) /\ Len(t[l]) \in Nat /\ Len(t[k]) \in Nat
        /\ c + 1 \in Nat /\ 1 <= c + 1
    BY <1>1, LenProperties
  <1>4. CASE l = k
    <2> DEFINE x == SubSeq(t[l], c + 1, d)
    <2>1. x \in Seq(Runes)
      BY <1>2, <1>3, <1>4
    <2>2. Piece(t, <<l, c>>, <<k, d>>) = <<x>>
      BY <1>4 DEF Piece
    <2> HIDE DEF x
    <2>3. <<x>> \in Seq(Seq(Runes)) /\ <<x>> # <<>>
      BY <2>1
    <2> QED
      BY <2>2, <2>3 DEF AllTexts
  <1>5. CASE l # k
    <2> DEFINE x == SubSeq(t[l], c + 1, Len(t[l]))
               y == SubSeq(t[k], 1, d)
               z == SubSeq(t, l + 1, k - 1)
    <2>1. x \in Seq(Runes) /\ y \in Seq(Runes)
      BY <1>2, <1>3
    <2>2. z \in Seq(Seq(Runes))
      <3>1. \A i \in l + 1 .. k - 1 : t[i] \in Seq(Runes)
        BY <1>1
      <3> QED
        BY <3>1, <1>1, SubSeqProperties
    <2>3. Piece(t, <<l, c>>, <<k, d>>) = <<x>> \o z \o <<y>>
      BY <1>5 DEF Piece
    <2> HIDE DEF x, y, z
    <2>4. <<x>> \in Seq(Seq(Runes)) /\ <<y>> \in Seq(Seq(Runes)) /\ Len(<<y>>) = 1
      BY <2>1
    <2> DEFINE w == <<x>> \o z
    <2>5. w \in Seq(Seq(Runes)) /\ Len(w) \in Nat
      BY <2>2, <2>4, ConcatProperties, LenProperties
    <2> HIDE DEF w
    <2>6. w \o <<y>> \in Seq(Seq(Runes)) /\ Len(w \o <<y>>) = Len(w) + Len(<<y>>)
      BY <2>4, <2>5, ConcatProperties
    <2>7. w \o <<y>> # <<>>
      BY <2>4, <2>5, <2>6, EmptySeq
    <2> QED
      BY <2>3, <2>6, <2>7 DEF AllTexts, w
  <1> QED
    BY <1>4, <1>5

LEMMA SelectedIsText ==
    ASSUME NEW t \in AllTexts, NEW p \in Positions(t), NEW q \in Positions(t), ~Before(q, p)
    PROVE  Piece(t, p, q) \in AllTexts
  <1>1. /\ p = <<p[1], p[2]>> /\ q = <<q[1], q[2]>> /\ p[1] \in 1 .. Len(t) /\ q[1] \in 1 .. Len(t)
        /\ p[2] \in 0 .. Len(t[p[1]]) /\ q[2] \in 0 .. Len(t[q[1]])
        /\ t \in Seq(Seq(Runes)) /\ Len(t[p[1]]) \in Nat /\ Len(t[q[1]]) \in Nat
    BY PositionIs, TextFacts
  <1>2. p[1] <= q[1]
    BY <1>1 DEF Before
  <1>3. p[2] \in Nat /\ q[2] \in Nat /\ q[2] <= Len(t[q[1]])
    BY <1>1
  <1>4. Piece(t, <<p[1], p[2]>>, <<q[1], q[2]>>) \in AllTexts
    BY <1>1, <1>2, <1>3, PieceFacts
  <1> QED
    BY <1>1, <1>4

(* The ends of a selection, in reading order.                              *)
LEMMA EndsFacts ==
    ASSUME NEW t \in AllTexts, NEW p \in Positions(t), NEW q \in Positions(t)
    PROVE  /\ Earlier(p, q) \in Positions(t) /\ Later(p, q) \in Positions(t)
           /\ ~Before(Later(p, q), Earlier(p, q))
  <1>1. /\ p[1] \in Nat /\ p[2] \in Nat /\ q[1] \in Nat /\ q[2] \in Nat
    <2>1. /\ p[1] \in 1 .. Len(t) /\ q[1] \in 1 .. Len(t)
          /\ p[2] \in 0 .. Len(t[p[1]]) /\ q[2] \in 0 .. Len(t[q[1]])
      BY PositionIs
    <2> QED
      BY <2>1
  <1> QED
    BY <1>1 DEF Earlier, Later, Before

(* One step to either side, and the same column of another line.           *)
LEMMA StepFacts ==
    ASSUME NEW t \in AllTexts, NEW p \in Positions(t)
    PROVE  /\ Previous(t, p) \in Positions(t) /\ ~Before(p, Previous(t, p))
           /\ Following(t, p) \in Positions(t) /\ ~Before(Following(t, p), p)
           /\ \A l \in 1 .. Len(t) : OnLine(t, p, l) \in Positions(t)
  <1>1. /\ p = <<p[1], p[2]>> /\ p[1] \in 1 .. Len(t) /\ p[2] \in 0 .. Len(t[p[1]])
        /\ Len(t) \in Nat /\ \A l \in 1 .. Len(t) : Len(t[l]) \in Nat
    BY PositionIs, TextFacts
  <1>2. Previous(t, p) \in Positions(t) /\ ~Before(p, Previous(t, p))
    <2>1. CASE p[2] > 0
      <3>1. Previous(t, p) = <<p[1], p[2] - 1>>
        BY <2>1 DEF Previous
      <3>2. p[2] - 1 \in 0 .. Len(t[p[1]])
        BY <1>1, <2>1
      <3>3. <<p[1], p[2] - 1>> \in Positions(t)
        BY <1>1, <3>2, PositionIs
      <3> QED
        BY <1>1, <3>1, <3>3 DEF Before
    <2>2. CASE p[2] = 0 /\ p[1] > 1
      <3>1. Previous(t, p) = <<p[1] - 1, Len(t[p[1] - 1])>>
        BY <2>2 DEF Previous
      <3>2. p[1] - 1 \in 1 .. Len(t) /\ Len(t[p[1] - 1]) \in 0 .. Len(t[p[1] - 1])
        BY <1>1, <2>2
      <3>3. <<p[1] - 1, Len(t[p[1] - 1])>> \in Positions(t)
        BY <3>2, PositionIs
      <3> QED
        BY <1>1, <3>1, <3>3 DEF Before
    <2>3. CASE ~(p[2] > 0) /\ ~(p[2] = 0 /\ p[1] > 1)
      <3>1. Previous(t, p) = p
        BY <2>3 DEF Previous
      <3> QED
        BY <1>1, <3>1 DEF Before
    <2> QED
      BY <2>1, <2>2, <2>3
  <1>3. Following(t, p) \in Positions(t) /\ ~Before(Following(t, p), p)
    <2>1. CASE p[2] < Len(t[p[1]])
      <3>1. Following(t, p) = <<p[1], p[2] + 1>>
        BY <2>1 DEF Following
      <3>2. p[2] + 1 \in 0 .. Len(t[p[1]])
        BY <1>1, <2>1
      <3>3. <<p[1], p[2] + 1>> \in Positions(t)
        BY <1>1, <3>2, PositionIs
      <3> QED
        BY <1>1, <3>1, <3>3 DEF Before
    <2>2. CASE p[2] = Len(t[p[1]]) /\ p[1] < Len(t)
      <3>1. Following(t, p) = <<p[1] + 1, 0>>
        BY <1>1, <2>2 DEF Following
      <3>2. p[1] + 1 \in 1 .. Len(t) /\ 0 \in 0 .. Len(t[p[1] + 1])
        BY <1>1, <2>2
      <3>3. <<p[1] + 1, 0>> \in Positions(t)
        BY <3>2, PositionIs
      <3> QED
        BY <1>1, <3>1, <3>3 DEF Before
    <2>3. CASE ~(p[2] < Len(t[p[1]])) /\ ~(p[2] = Len(t[p[1]]) /\ p[1] < Len(t))
      <3>1. Following(t, p) = p
        BY <2>3 DEF Following
      <3> QED
        BY <1>1, <3>1 DEF Before
    <2> QED
      BY <2>1, <2>2, <2>3
  <1>4. ASSUME NEW l \in 1 .. Len(t)  PROVE OnLine(t, p, l) \in Positions(t)
    <2>1. Len(t[l]) \in Nat /\ p[2] \in Nat
      BY <1>1
    <2>2. Min({p[2], Len(t[l])}) \in 0 .. Len(t[l])
      BY <2>1, PairMin
    <2> QED
      BY <2>2, PositionIs DEF OnLine
  <1> QED
    BY <1>2, <1>3, <1>4

LEMMA EndOfTextFacts ==
    ASSUME NEW t \in AllTexts
    PROVE  EndOfText(t) \in Positions(t) /\ <<1, 0>> \in Positions(t)
  <1>1. Len(t) \in Nat \ {0} /\ \A l \in 1 .. Len(t) : Len(t[l]) \in Nat
    BY TextFacts
  <1>2. /\ 1 \in 1 .. Len(t) /\ Len(t) \in 1 .. Len(t)
        /\ 0 \in 0 .. Len(t[1]) /\ Len(t[Len(t)]) \in 0 .. Len(t[Len(t)])
    BY <1>1
  <1> QED
    BY <1>2, PositionIs DEF EndOfText, Last

(* The word around a column. *)
LEMMA WordFacts ==
    ASSUME NEW line, Len(line) \in Nat, NEW c \in 0 .. Len(line)
    PROVE  Word(line, c)[1] \in 0 .. c /\ Word(line, c)[2] \in c .. Len(line)
  <1> DEFINE A == {s \in 0 .. c : \A i \in s + 1 .. c : IsWordRune(line[i])}
             B == {e \in c .. Len(line) : \A i \in c + 1 .. e : IsWordRune(line[i])}
  <1>1. Word(line, c) = <<Min(A), Max(B)>>
    BY DEF Word
  <1>2. c \in A /\ c \in B /\ A \subseteq Nat /\ B \subseteq 0 .. Len(line)
    OBVIOUS
  <1> HIDE DEF A, B
  <1>3. Min(A) \in A /\ Max(B) \in B
    BY <1>2, MinFacts, MaxFacts
  <1> QED
    BY <1>1, <1>3 DEF A, B

(* Lines that are indented. *)
LEMMA IndentedFacts ==
    ASSUME NEW t \in AllTexts, NEW i \in Nat, NEW j \in Nat, EditorAssumption, WidgetAssumption
    PROVE  LET r == [l \in DOMAIN t |-> IF l \in i .. j THEN indent \o t[l] ELSE t[l]]
           IN  /\ r \in AllTexts /\ Len(r) = Len(t)
               /\ \A l \in 1 .. Len(t) :
                    Len(r[l]) = IF l \in i .. j THEN TabWidth + Len(t[l]) ELSE Len(t[l])
  <1> DEFINE r == [l \in DOMAIN t |-> IF l \in i .. j THEN indent \o t[l] ELSE t[l]]
  <1>1. /\ Len(t) \in Nat \ {0} /\ DOMAIN t = 1 .. Len(t)
        /\ \A l \in 1 .. Len(t) : t[l] \in Seq(Runes)
    BY TextFacts
  <1>2. indent \in Seq(Runes) /\ Len(indent) = TabWidth
    <2>1. TabWidth \in Nat /\ Blank \in Runes
      BY DEF EditorAssumption, WidgetAssumption
    <2> QED
      BY <2>1 DEF indent
  <1>3. \A l \in 1 .. Len(t) :
          indent \o t[l] \in Seq(Runes) /\ Len(indent \o t[l]) = TabWidth + Len(t[l])
    BY <1>1, <1>2, Joined
  <1>4. r \in [1 .. Len(t) -> Seq(Runes)]
    BY <1>1, <1>3
  <1>5. r \in Seq(Seq(Runes)) /\ Len(r) = Len(t)
    BY <1>1, <1>4
  <1>6. r \in AllTexts
    BY <1>1, <1>5, EmptySeq DEF AllTexts
  <1>7. ASSUME NEW l \in 1 .. Len(t)
        PROVE  Len(r[l]) = IF l \in i .. j THEN TabWidth + Len(t[l]) ELSE Len(t[l])
    BY <1>1, <1>3
  <1> QED
    BY <1>5, <1>6, <1>7

-----------------------------------------------------------------------------
(* Induction over the first numbers. *)

LEMMA Upwards ==
    ASSUME NEW n \in Nat, NEW T, 0 \in T, \A i \in 0 .. n - 1 : i \in T => i + 1 \in T
    PROVE  \A i \in 0 .. n : i \in T
  <1> DEFINE R == {i \in 0 .. n : i \notin T}
  <1>0. SUFFICES ASSUME R # {}  PROVE FALSE
    OBVIOUS
  <1>1. PICK m \in R : \A k \in R : m <= k
    <2>1. R \subseteq Nat
      OBVIOUS
    <2> HIDE DEF R
    <2> QED
      BY <1>0, <2>1, LeastNumber
  <1>2. m \in 0 .. n /\ m \notin T
    BY <1>1
  <1>3. m # 0
    BY <1>2
  <1>4. m - 1 \in 0 .. n - 1 /\ m - 1 \in 0 .. n /\ m - 1 + 1 = m /\ ~(m <= m - 1)
    BY <1>2, <1>3
  <1>5. m - 1 \in T
    <2>1. m - 1 \notin R
      BY <1>1, <1>4
    <2> QED
      BY <1>4, <2>1
  <1> QED
    BY <1>2, <1>4, <1>5

(* f[n] is what the first n sequences of ss make up together.              *)
Flattens(ss, f) ==
    /\ f[0] = <<>>
    /\ \A n \in 1 .. Len(ss) : f[n] = f[n - 1] \o ss[n]

LEMMA FlattensExists ==
    ASSUME NEW S, NEW ss \in Seq(Seq(S))
    PROVE  \E f : Flattens(ss, f)
  <1> DEFINE N == Len(ss)
             Upto(f, n) == f[0] = <<>> /\ \A i \in 1 .. n : f[i] = f[i - 1] \o ss[i]
             T == {n \in 0 .. N : \E f : DOMAIN f = 0 .. n /\ Upto(f, n)}
  <1>1. N \in Nat
    BY LenProperties
  <1>2. 0 \in T
    <2> DEFINE f == [i \in 0 .. 0 |-> <<>>]
    <2>1. DOMAIN f = 0 .. 0 /\ Upto(f, 0) /\ 0 \in 0 .. N
      BY <1>1
    <2> QED
      BY <2>1
  <1>3. ASSUME NEW i \in 0 .. N - 1, i \in T  PROVE i + 1 \in T
    <2>1. PICK f : DOMAIN f = 0 .. i /\ Upto(f, i)
      BY <1>3
    <2> DEFINE g == [k \in 0 .. i + 1 |-> IF k = i + 1 THEN f[i] \o ss[i + 1] ELSE f[k]]
    <2>2. i \in Nat /\ i + 1 \in 0 .. N /\ i + 1 - 1 = i /\ i # i + 1 /\ i \in 0 .. i + 1
      BY <1>1
    <2>3. g[0] = <<>> /\ g[i + 1] = f[i] \o ss[i + 1] /\ g[i] = f[i]
      BY <2>1, <2>2
    <2>4. ASSUME NEW k \in 1 .. i + 1  PROVE g[k] = g[k - 1] \o ss[k]
      <3>1. CASE k = i + 1
        <4>1. k - 1 = i
          BY <2>2, <3>1
        <4> HIDE DEF g
        <4> QED
          BY <2>3, <3>1, <4>1
      <3>2. CASE k # i + 1
        <4>1. k \in 1 .. i /\ k \in 0 .. i + 1 /\ k - 1 \in 0 .. i + 1 /\ k - 1 # i + 1
          BY <2>2, <3>2
        <4>2. g[k] = f[k] /\ g[k - 1] = f[k - 1]
          BY <3>2, <4>1
        <4> QED
          BY <2>1, <4>1, <4>2
      <3> QED
        BY <3>1, <3>2
    <2>5. DOMAIN g = 0 .. i + 1
      OBVIOUS
    <2> HIDE DEF g
    <2> QED
      BY <2>2, <2>3, <2>4, <2>5
  <1>4. \A n \in 0 .. N : n \in T
    <2> HIDE DEF T
    <2> QED
      BY <1>1, <1>2, <1>3, Upwards
  <1>5. N \in T
    <2>1. N \in 0 .. N
      BY <1>1
    <2> QED
      BY <1>4, <2>1, Zenon
  <1>6. PICK f : Upto(f, N)
    BY <1>5
  <1> QED
    BY <1>6 DEF Flattens

LEMMA FlattensSeq ==
    ASSUME NEW S, NEW ss \in Seq(Seq(S)), NEW f, Flattens(ss, f)
    PROVE  \A n \in 0 .. Len(ss) : f[n] \in Seq(S)
  <1> DEFINE N == Len(ss)
             T == {n \in 0 .. N : f[n] \in Seq(S)}
  <1>1. N \in Nat /\ \A n \in 1 .. N : ss[n] \in Seq(S)
    BY LenProperties, ElementOfSeq
  <1>2. 0 \in T
    <2>1. f[0] = <<>> /\ <<>> \in Seq(S)
      BY EmptySeq DEF Flattens
    <2>2. 0 \in 0 .. N /\ f[0] \in Seq(S)
      <3>1. 0 \in 0 .. N
        <4> HIDE DEF N
        <4> QED
          BY <1>1
      <3> QED
        BY <2>1, <3>1, Zenon
    <2> QED
      BY <2>2, Zenon
  <1>3. ASSUME NEW i \in 0 .. N - 1, i \in T  PROVE i + 1 \in T
    <2>1. i + 1 \in 1 .. N /\ i + 1 - 1 = i /\ i + 1 \in 0 .. N
      <3> HIDE DEF N
      <3> QED
        BY <1>1
    <2>2. f[i + 1] = f[i] \o ss[i + 1]
      <3>1. \A n \in 1 .. N : f[n] = f[n - 1] \o ss[n]
        BY DEF Flattens
      <3> DEFINE k == i + 1
      <3>2. k \in 1 .. N /\ k - 1 = i
        BY <2>1
      <3> HIDE DEF N, k
      <3>3. f[k] = f[k - 1] \o ss[k]
        BY <3>1, <3>2, Zenon
      <3>4. f[k] = f[i] \o ss[k]
        BY <3>2, <3>3
      <3> QED
        BY <3>4 DEF k
    <2>3. f[i] \in Seq(S) /\ ss[i + 1] \in Seq(S)
      BY <1>1, <1>3, <2>1
    <2> QED
      BY <2>1, <2>2, <2>3, ConcatProperties
  <1>4. \A n \in 0 .. N : n \in T
    <2> HIDE DEF T
    <2> QED
      BY <1>1, <1>2, <1>3, Upwards
  <1> QED
    BY <1>4

(* FlattenSeq computes what its recursion says.                            *)
LEMMA FlattenIs ==
    ASSUME NEW S, NEW ss \in Seq(Seq(S)), ss # <<>>
    PROVE  \E f : Flattens(ss, f) /\ FlattenSeq(ss) = f[Len(ss)]
  <1> DEFINE N == Len(ss)
             Eq(f) == f = [i \in 1 .. N |-> IF i = 1 THEN ss[i] ELSE f[i - 1] \o ss[i]]
             flat == CHOOSE f : Eq(f)
  <1>1. N \in Nat \ {0} /\ \A n \in 1 .. N : ss[n] \in Seq(S)
    BY LenProperties, ElementOfSeq, EmptySeq
  <1>2. FlattenSeq(ss) = flat[N]
    BY <1>1 DEF FlattenSeq
  <1>3. PICK g : Flattens(ss, g)
    BY FlattensExists
  <1> DEFINE h == [i \in 1 .. N |-> g[i]]
  <1>4. Eq(h)
    <2>1. ASSUME NEW i \in 1 .. N  PROVE g[i] = IF i = 1 THEN ss[i] ELSE h[i - 1] \o ss[i]
      <3>1. g[i] = g[i - 1] \o ss[i] /\ ss[i] \in Seq(S)
        BY <1>1, <1>3 DEF Flattens
      <3>2. CASE i = 1
        <4>1. g[i - 1] = <<>>
          BY <1>3, <3>2 DEF Flattens
        <4>2. <<>> \o ss[i] = ss[i]
          BY <3>1, ConcatEmptySeq
        <4> QED
          BY <3>1, <3>2, <4>1, <4>2
      <3>3. CASE i # 1
        <4>1. i - 1 \in 1 .. N
          BY <1>1, <3>3
        <4> QED
          BY <3>1, <3>3, <4>1
      <3> QED
        BY <3>2, <3>3
    <2> QED
      BY <2>1
  <1>5. Eq(flat)
    <2> HIDE DEF Eq
    <2> QED
      BY <1>4
  <1> HIDE DEF flat
  <1> DEFINE f == [i \in 0 .. N |-> IF i = 0 THEN <<>> ELSE flat[i]]
  <1>6. f[0] = <<>> /\ f[N] = flat[N]
    BY <1>1
  <1>7. ASSUME NEW n \in 1 .. N  PROVE f[n] = f[n - 1] \o ss[n]
    <2>1. flat[n] = IF n = 1 THEN ss[n] ELSE flat[n - 1] \o ss[n]
      BY <1>5
    <2>2. ss[n] \in Seq(S) /\ f[n] = flat[n]
      BY <1>1
    <2>3. CASE n = 1
      <3>1. f[n - 1] = <<>>
        BY <2>3
      <3> QED
        BY <2>1, <2>2, <2>3, <3>1, ConcatEmptySeq
    <2>4. CASE n # 1
      <3>1. f[n - 1] = flat[n - 1]
        BY <1>1, <2>4
      <3> QED
        BY <2>1, <2>2, <2>4, <3>1
    <2> QED
      BY <2>3, <2>4
  <1>8. Flattens(ss, f)
    <2> HIDE DEF f
    <2> QED
      BY <1>6, <1>7 DEF Flattens
  <1> QED
    BY <1>2, <1>6, <1>8

(* Where the elements of the first n sequences are in what they make up.   *)
Parts(ss, f, n) ==
    /\ \A v \in 1 .. Len(f[n]) :
         \E m \in 1 .. n : \E i \in 1 .. Len(ss[m]) : v = Len(f[m - 1]) + i
    /\ \A m \in 1 .. n : \A i \in 1 .. Len(ss[m]) :
         Len(f[m - 1]) + i \in 1 .. Len(f[n]) /\ f[n][Len(f[m - 1]) + i] = ss[m][i]

LEMMA NextPart ==
    ASSUME NEW S, NEW ss \in Seq(Seq(S)), NEW f, Flattens(ss, f),
           NEW n \in 0 .. Len(ss) - 1, Parts(ss, f, n)
    PROVE  Parts(ss, f, n + 1)
  <1> DEFINE k == n + 1
             a == Len(f[n])
             b == Len(ss[k])
  <1>1. Len(ss) \in Nat /\ n \in Nat /\ k \in 1 .. Len(ss) /\ k - 1 = n /\ n \in 0 .. Len(ss)
    <2>1. Len(ss) \in Nat
      BY LenProperties
    <2> QED
      BY <2>1
  <1>2. f[n] \in Seq(S) /\ ss[k] \in Seq(S)
    <2>1. \A i \in 1 .. Len(ss) : ss[i] \in Seq(S)
      BY ElementOfSeq
    <2> HIDE DEF k
    <2> QED
      BY <1>1, <2>1, FlattensSeq
  <1>3. f[k] = f[n] \o ss[k]
    <2>1. \A i \in 1 .. Len(ss) : f[i] = f[i - 1] \o ss[i]
      BY DEF Flattens
    <2> HIDE DEF k
    <2>2. f[k] = f[k - 1] \o ss[k]
      BY <1>1, <2>1, Zenon
    <2> QED
      BY <1>1, <2>2
  <1>4. a \in Nat /\ b \in Nat
    BY <1>2, LenProperties
  <1>5. /\ Len(f[k]) = a + b
        /\ \A i \in 1 .. a + b : f[k][i] = IF i <= a THEN f[n][i] ELSE ss[k][i - a]
    <2> DEFINE x == f[n]
               y == ss[k]
    <2>1. x \in Seq(S) /\ y \in Seq(S) /\ f[k] = x \o y /\ a = Len(x) /\ b = Len(y)
      BY <1>2, <1>3
    <2> HIDE DEF x, y
    <2>2. /\ Len(x \o y) = Len(x) + Len(y)
          /\ \A i \in 1 .. Len(x) + Len(y) :
               (x \o y)[i] = IF i <= Len(x) THEN x[i] ELSE y[i - Len(x)]
      BY <2>1, ConcatProperties
    <2>3. /\ Len(x \o y) = a + b
          /\ \A i \in 1 .. a + b : (x \o y)[i] = IF i <= a THEN x[i] ELSE y[i - a]
      <3> HIDE DEF a, b
      <3> QED
        BY <2>1, <2>2
    <2> QED
      <3> HIDE DEF k, a, b
      <3> QED
        BY <2>1, <2>3 DEF x, y
  <1>6. Len(f[k - 1]) = a
    BY <1>1
  <1> HIDE DEF k
  <1> HIDE DEF a, b
  <1>7. ASSUME NEW v \in 1 .. Len(f[k])
        PROVE  \E m \in 1 .. k : \E i \in 1 .. Len(ss[m]) : v = Len(f[m - 1]) + i
    <2>1. CASE v <= a
      <3>1. v \in 1 .. a
        BY <1>4, <2>1
      <3>2. PICK m \in 1 .. n : \E i \in 1 .. Len(ss[m]) : v = Len(f[m - 1]) + i
        BY <3>1 DEF Parts, a
      <3>3. m \in 1 .. k
        BY <1>1
      <3> QED
        BY <3>2, <3>3
    <2>2. CASE ~(v <= a)
      <3>1. v - a \in 1 .. b /\ v = a + (v - a) /\ k \in 1 .. k
        <4>1. v \in 1 .. a + b
          BY <1>5
        <4> QED
          BY <1>1, <1>4, <2>2, <4>1
      <3> QED
        BY <1>6, <3>1 DEF b
    <2> QED
      BY <2>1, <2>2
  <1>8. ASSUME NEW m \in 1 .. k, NEW i \in 1 .. Len(ss[m])
        PROVE  Len(f[m - 1]) + i \in 1 .. Len(f[k]) /\ f[k][Len(f[m - 1]) + i] = ss[m][i]
    <2>1. CASE m = k
      <3> DEFINE j == a + i
      <3>1. j \in 1 .. a + b /\ ~(j <= a) /\ j - a = i
        <4>1. i \in 1 .. b
          BY <2>1 DEF b
        <4> QED
          BY <1>4, <4>1
      <3>2. Len(f[m - 1]) + i = j
        BY <1>6, <2>1
      <3> HIDE DEF j
      <3>3. f[k][j] = ss[k][i]
        BY <1>5, <3>1
      <3> QED
        BY <1>5, <2>1, <3>1, <3>2, <3>3
    <2>2. CASE m # k
      <3> DEFINE j == Len(f[m - 1]) + i
      <3>1. m \in 1 .. n
        BY <1>1, <2>2
      <3>2. j \in 1 .. a /\ f[n][j] = ss[m][i]
        BY <3>1 DEF Parts, a
      <3> HIDE DEF j
      <3>3. j \in 1 .. a + b /\ j <= a
        BY <1>4, <3>2
      <3>4. f[k][j] = ss[m][i]
        BY <1>5, <3>2, <3>3
      <3> QED
        BY <1>5, <3>3, <3>4 DEF j
    <2> QED
      BY <2>1, <2>2
  <1>9. Parts(ss, f, k)
    BY <1>7, <1>8 DEF Parts
  <1> QED
    BY <1>9 DEF k

LEMMA AllParts ==
    ASSUME NEW S, NEW ss \in Seq(Seq(S)), NEW f, Flattens(ss, f)
    PROVE  Parts(ss, f, Len(ss))
  <1> DEFINE N == Len(ss)
             T == {n \in 0 .. N : Parts(ss, f, n)}
  <1>1. N \in Nat
    BY LenProperties
  <1>2. 0 \in T
    <2>1. f[0] = <<>> /\ Len(<<>>) = 0
      BY EmptySeq DEF Flattens
    <2>2. 1 .. Len(f[0]) = {}
      BY <2>1
    <2>3. Parts(ss, f, 0)
      BY <2>2 DEF Parts
    <2>4. 0 \in 0 .. N
      BY <1>1
    <2> QED
      BY <2>3, <2>4, Zenon
  <1>3. ASSUME NEW i \in 0 .. N - 1, i \in T  PROVE i + 1 \in T
    <2>1. i + 1 \in 0 .. N
      BY <1>1
    <2>2. Parts(ss, f, i + 1)
      BY <1>3, NextPart
    <2> QED
      BY <2>1, <2>2, Zenon
  <1>4. \A n \in 0 .. N : n \in T
    <2> HIDE DEF T
    <2> QED
      BY <1>1, <1>2, <1>3, Upwards
  <1>5. N \in 0 .. N
    BY <1>1
  <1> QED
    BY <1>4, <1>5, Zenon

(* r holds the elements of the sequences of ss, those of ss[m] behind the  *)
(* first at[m].                                                            *)
Laid(ss, r, at) ==
    /\ \A v \in 1 .. Len(r) :
         \E m \in 1 .. Len(ss) : \E i \in 1 .. Len(ss[m]) : v = at[m] + i
    /\ \A m \in 1 .. Len(ss) : \A i \in 1 .. Len(ss[m]) :
         at[m] + i \in 1 .. Len(r) /\ r[at[m] + i] = ss[m][i]

LEMMA FlattenFacts ==
    ASSUME NEW S, NEW ss \in Seq(Seq(S)), ss # <<>>
    PROVE  /\ FlattenSeq(ss) \in Seq(S)
           /\ \E at \in [1 .. Len(ss) -> Nat] : Laid(ss, FlattenSeq(ss), at)
  <1>1. PICK f : Flattens(ss, f) /\ FlattenSeq(ss) = f[Len(ss)]
    BY FlattenIs
  <1>2. Len(ss) \in Nat /\ \A n \in 0 .. Len(ss) : f[n] \in Seq(S) /\ Len(f[n]) \in Nat
    BY <1>1, FlattensSeq, LenProperties
  <1>3. Parts(ss, f, Len(ss))
    BY <1>1, AllParts
  <1> DEFINE at == [m \in 1 .. Len(ss) |-> Len(f[m - 1])]
  <1>4. at \in [1 .. Len(ss) -> Nat]
    <2>1. \A m \in 1 .. Len(ss) : m - 1 \in 0 .. Len(ss)
      BY <1>2
    <2> QED
      BY <1>2, <2>1
  <1>5. \A m \in 1 .. Len(ss) : at[m] = Len(f[m - 1])
    OBVIOUS
  <1> HIDE DEF at
  <1>6. f[Len(ss)] \in Seq(S)
    BY <1>2
  <1>7. ASSUME NEW v \in 1 .. Len(f[Len(ss)])
        PROVE  \E m \in 1 .. Len(ss) : \E i \in 1 .. Len(ss[m]) : v = at[m] + i
    <2>1. PICK m \in 1 .. Len(ss) : \E i \in 1 .. Len(ss[m]) : v = Len(f[m - 1]) + i
      BY <1>3 DEF Parts
    <2> QED
      BY <1>5, <2>1
  <1>8. ASSUME NEW m \in 1 .. Len(ss), NEW i \in 1 .. Len(ss[m])
        PROVE  at[m] + i \in 1 .. Len(f[Len(ss)]) /\ f[Len(ss)][at[m] + i] = ss[m][i]
    BY <1>3, <1>5 DEF Parts
  <1>9. Laid(ss, f[Len(ss)], at)
    BY <1>7, <1>8 DEF Laid
  <1> QED
    BY <1>1, <1>4, <1>6, <1>9

-----------------------------------------------------------------------------
(* Rows.                                                                   *)

LEMMA Quotient ==
    ASSUME NEW n \in Nat, NEW w \in Nat \ {0}
    PROVE  n \div w \in Nat /\ (n \div w) * w <= n /\ n < (n \div w) * w + w
  <1>1. n \div w \in Int
    BY Z3
  <1>2. n \div w >= 0
    OBVIOUS
  <1>3. w * (n \div w) <= n
    OBVIOUS
  <1>4. n < w * (n \div w) + w
    BY Z3
  <1> DEFINE q == n \div w
  <1>5. q \in Nat /\ w * q <= n /\ n < w * q + w
    BY <1>1, <1>2, <1>3, <1>4
  <1> HIDE DEF q
  <1>6. w * q = q * w
    BY <1>5
  <1> QED
    BY <1>5, <1>6 DEF q

LEMMA Multiples ==
    ASSUME NEW w \in Nat \ {0}, NEW i \in Nat, NEW j \in Nat
    PROVE  /\ i * w \in Nat /\ j * w \in Nat
           /\ i <= j => i * w <= j * w
           /\ i < j => i * w + w <= j * w
           /\ j = i + 1 => j * w = i * w + w
           /\ i = 0 => i * w = 0
  <1>1. i * w \in Nat /\ j * w \in Nat
    OBVIOUS
  <1>2. i < j => i * w + w <= j * w
    OBVIOUS
  <1>3. i <= j => i * w <= j * w
    BY <1>1, <1>2
  <1>4. j = i + 1 => j * w = i * w + w
    OBVIOUS
  <1> QED
    BY <1>1, <1>2, <1>3, <1>4

RowTypes == [line : Nat, off : Nat, len : Nat]

(* What a row may be: characters off + 1 to off + len of its line.         *)
RowOfText(t, row) ==
    /\ row \in RowTypes /\ row.line \in 1 .. Len(t)
    /\ row.off + row.len <= Len(t[row.line])

(* The i-th row of a line of n characters lies within it.                  *)
LEMMA ChunkFacts ==
    ASSUME NEW w \in Nat \ {0}, NEW n \in Nat,
           NEW K, K = Max({1, (n + w - 1) \div w})
    PROVE  /\ K \in Nat \ {0}
           /\ \A i \in 1 .. K : (i - 1) * w \in Nat /\ (i - 1) * w <= n
           /\ n <= (K - 1) * w + w
           /\ \A c \in 0 .. n - 1 : \E i \in 1 .. K : (i - 1) * w <= c /\ c < (i - 1) * w + w
  <1> DEFINE s == n + w - 1
             d == s \div w
  <1>1. s \in Nat
    OBVIOUS
  <1>2. d \in Nat /\ d * w <= s /\ s < d * w + w
    <2> HIDE DEF s
    <2> QED
      BY <1>1, Quotient
  <1>3. K = Max({1, d})
    OBVIOUS
  <1> HIDE DEF d
  <1>4. K = IF 1 <= d THEN d ELSE 1
    BY <1>2, <1>3, PairMax
  <1>5. K \in Nat \ {0} /\ d <= K
    BY <1>2, <1>4
  <1>6. d * w \in Nat /\ n <= d * w
    <2>1. d * w \in Nat
      BY <1>2, Multiples
    <2> DEFINE dw == d * w
    <2>2. dw \in Nat /\ s < dw + w
      BY <1>2, <2>1
    <2> HIDE DEF dw
    <2>3. n <= dw
      BY <2>2
    <2> QED
      BY <2>1, <2>3 DEF dw
  <1>7. ASSUME NEW i \in 1 .. K  PROVE (i - 1) * w \in Nat /\ (i - 1) * w <= n
    <2> DEFINE h == i - 1
    <2>1. h \in Nat /\ (h = 0 \/ h < d)
      BY <1>2, <1>4, <1>5
    <2> HIDE DEF h
    <2>2. h * w \in Nat /\ (h = 0 => h * w = 0) /\ (h < d => h * w + w <= d * w)
      BY <1>2, <2>1, Multiples
    <2> DEFINE x == h * w
               y == d * w
    <2>3. /\ x \in Nat /\ y \in Nat /\ y <= n + w - 1
          /\ h = 0 => x = 0
          /\ h < d => x + w <= y
      BY <1>2, <1>6, <2>2
    <2> HIDE DEF x, y
    <2>4. x <= n
      BY <2>1, <2>3
    <2> QED
      BY <2>3, <2>4 DEF x, h
  <1>8. n <= (K - 1) * w + w
    <2> DEFINE h == K - 1
    <2>1. h \in Nat /\ K = h + 1
      BY <1>5
    <2> HIDE DEF h
    <2>2. K * w = h * w + w /\ d * w <= K * w /\ K * w \in Nat
      BY <1>2, <1>5, <2>1, Multiples
    <2> DEFINE x == h * w
               y == d * w
               z == K * w
    <2>3. x \in Nat /\ y \in Nat /\ z \in Nat /\ n <= y /\ z = x + w /\ y <= z
      BY <1>6, <2>1, <2>2, Multiples
    <2> HIDE DEF x, y, z
    <2>4. n <= x + w
      BY <2>3
    <2> QED
      BY <2>4 DEF x, h
  <1>9. ASSUME NEW c \in 0 .. n - 1
        PROVE  \E i \in 1 .. K : (i - 1) * w <= c /\ c < (i - 1) * w + w
    <2> DEFINE e == c \div w
    <2>1. e \in Nat /\ e * w <= c /\ c < e * w + w
      <3>1. c \in Nat
        OBVIOUS
      <3> QED
        BY <3>1, Quotient
    <2> HIDE DEF e
    <2>2. e * w \in Nat /\ (d <= e => d * w <= e * w)
      BY <1>2, <2>1, Multiples
    <2> DEFINE x == e * w
               y == d * w
    <2>3. x \in Nat /\ y \in Nat /\ x <= c /\ n <= y /\ (d <= e => y <= x)
      BY <1>6, <2>1, <2>2
    <2> HIDE DEF x, y
    <2>4. e < d
      BY <1>2, <2>1, <2>3
    <2>5. e + 1 \in 1 .. K /\ e + 1 - 1 = e
      BY <1>2, <1>5, <2>1, <2>4
    <2> QED
      BY <2>1, <2>5
  <1> QED
    BY <1>5, <1>7, <1>8, <1>9

(* The rows of one line.                                                   *)
LineRows(t, l, rows) ==
    /\ rows \in Seq(RowTypes) /\ Len(rows) \in Nat \ {0}
    /\ \A i \in 1 .. Len(rows) : RowOfText(t, rows[i]) /\ rows[i].line = l
    /\ rows[Len(rows)].off + rows[Len(rows)].len = Len(t[l])
    /\ \A c \in 0 .. Len(t[l]) - 1 : \E i \in 1 .. Len(rows) :
         rows[i].off <= c /\ c < rows[i].off + rows[i].len

LEMMA RowsOfLineFacts ==
    ASSUME NEW t \in AllTexts, NEW l \in 1 .. Len(t), NEW w \in Nat \ {0}
    PROVE  LineRows(t, l, RowsOfLine(t, l, w))
  <1> DEFINE n == Len(t[l])
             K == Max({1, (n + w - 1) \div w})
             R == RowsOfLine(t, l, w)
  <1>1. n \in Nat /\ l \in Nat
    <2>1. Len(t) \in Nat
      BY TextFacts
    <2> QED
      BY <2>1, TextFacts
  <1>2. R = [i \in 1 .. K |-> [line |-> l, off |-> (i - 1) * w,
                               len |-> Min({w, n - (i - 1) * w})]]
    BY DEF RowsOfLine
  <1> HIDE DEF R
  <1>3. /\ K \in Nat \ {0}
        /\ \A i \in 1 .. K : (i - 1) * w \in Nat /\ (i - 1) * w <= n
        /\ n <= (K - 1) * w + w
        /\ \A c \in 0 .. n - 1 : \E i \in 1 .. K : (i - 1) * w <= c /\ c < (i - 1) * w + w
    <2> HIDE DEF n
    <2> QED
      BY <1>1, ChunkFacts
  <1> HIDE DEF K
  <1>4. ASSUME NEW i \in 1 .. K
        PROVE  /\ R[i].line = l /\ R[i].off = (i - 1) * w /\ R[i] \in RowTypes
               /\ R[i].off \in Nat /\ R[i].len \in Nat
               /\ R[i].len = IF (i - 1) * w + w <= n THEN w ELSE n - (i - 1) * w
    <2> DEFINE x == (i - 1) * w
               y == Min({w, n - x})
    <2>1. x \in Nat /\ x <= n
      BY <1>3
    <2>2. R[i] = [line |-> l, off |-> x, len |-> y]
      BY <1>2
    <2> HIDE DEF x, n
    <2>3. y = IF w <= n - x THEN w ELSE n - x
      BY <1>1, <2>1, PairMin
    <2>4. y \in Nat /\ y = IF x + w <= n THEN w ELSE n - x
      BY <1>1, <2>1, <2>3
    <2> HIDE DEF y
    <2>5. R[i].line = l /\ R[i].off = x /\ R[i].len = y /\ R[i] \in RowTypes
      BY <1>1, <2>1, <2>2, <2>4 DEF RowTypes
    <2> QED
      BY <2>1, <2>4, <2>5 DEF x
  <1>5. R \in Seq(RowTypes) /\ Len(R) = K
    <2>1. R \in [1 .. K -> RowTypes]
      BY <1>2, <1>4
    <2> QED
      BY <1>3, <2>1
  <1>6. ASSUME NEW i \in 1 .. K  PROVE RowOfText(t, R[i])
    <2> DEFINE x == (i - 1) * w
    <2>1. x \in Nat /\ x <= n /\ R[i].off = x /\ R[i].len = IF x + w <= n THEN w ELSE n - x
      BY <1>3, <1>4
    <2> HIDE DEF x
    <2>2. R[i].off + R[i].len <= n
      BY <1>1, <2>1
    <2> QED
      BY <1>4, <2>2 DEF RowOfText
  <1>7. R[K].off + R[K].len = n
    <2>1. K \in 1 .. K
      BY <1>3
    <2> DEFINE x == (K - 1) * w
    <2>2. /\ x \in Nat /\ x <= n /\ n <= x + w
          /\ R[K].off = x /\ R[K].len = IF x + w <= n THEN w ELSE n - x
      BY <1>3, <1>4, <2>1
    <2> HIDE DEF x
    <2> QED
      BY <1>1, <2>2
  <1>8. ASSUME NEW c \in 0 .. n - 1
        PROVE  \E i \in 1 .. K : R[i].off <= c /\ c < R[i].off + R[i].len
    <2>1. PICK i \in 1 .. K : (i - 1) * w <= c /\ c < (i - 1) * w + w
      BY <1>3
    <2> DEFINE x == (i - 1) * w
    <2>2. /\ x \in Nat /\ x <= n /\ x <= c /\ c < x + w
          /\ R[i].off = x /\ R[i].len = IF x + w <= n THEN w ELSE n - x
      BY <1>3, <1>4, <2>1
    <2> HIDE DEF x
    <2>3. R[i].off <= c /\ c < R[i].off + R[i].len
      BY <1>1, <2>2
    <2> QED
      BY <2>3
  <1> HIDE DEF R
  <1>9. LineRows(t, l, R)
    BY <1>3, <1>4, <1>5, <1>6, <1>7, <1>8 DEF LineRows
  <1> QED
    BY <1>9 DEF R

(* The rows of a text: every character is in one, and the last row of a    *)
(* line ends where the line does.                                          *)
RowsOfText(t, rows) ==
    /\ rows \in Seq(RowTypes) /\ Len(rows) \in Nat \ {0}
    /\ \A v \in 1 .. Len(rows) : RowOfText(t, rows[v])
    /\ \A l \in 1 .. Len(t) : \A c \in 0 .. Len(t[l]) - 1 :
         \E v \in 1 .. Len(rows) :
           rows[v].line = l /\ rows[v].off <= c /\ c < rows[v].off + rows[v].len
    /\ \A l \in 1 .. Len(t) :
         \E v \in 1 .. Len(rows) :
           /\ rows[v].line = l /\ rows[v].off + rows[v].len = Len(t[l])
           /\ \A u \in 1 .. Len(rows) : rows[u].line = l => u <= v

LEMMA RowsFacts ==
    ASSUME NEW t \in AllTexts, NEW w \in Nat \ {0}
    PROVE  RowsOfText(t, Rows(t, w))
  <1> DEFINE ss == [l \in DOMAIN t |-> RowsOfLine(t, l, w)]
             N == Len(t)
             rows == FlattenSeq(ss)
  <1>1. N \in Nat \ {0} /\ DOMAIN t = 1 .. N
    BY TextFacts
  <1>2. ss = [l \in 1 .. N |-> RowsOfLine(t, l, w)]
    BY <1>1
  <1> HIDE DEF ss
  <1>3. \A l \in 1 .. N : LineRows(t, l, ss[l])
    BY <1>2, RowsOfLineFacts
  <1>4. ss \in Seq(Seq(RowTypes)) /\ Len(ss) = N /\ ss # <<>>
    <2>1. \A l \in 1 .. N : ss[l] \in Seq(RowTypes)
      BY <1>3 DEF LineRows
    <2>2. ss \in [1 .. N -> Seq(RowTypes)]
      BY <1>2, <2>1
    <2>3. ss \in Seq(Seq(RowTypes)) /\ Len(ss) = N
      BY <1>1, <2>2
    <2> QED
      BY <1>1, <2>3, EmptySeq
  <1>5. PICK at \in [1 .. N -> Nat] : Laid(ss, rows, at) /\ rows \in Seq(RowTypes)
    BY <1>4, FlattenFacts
  <1>6. Rows(t, w) = rows
    BY DEF Rows, ss
  <1> HIDE DEF rows
  <1>7. /\ \A v \in 1 .. Len(rows) :
             \E m \in 1 .. N : \E i \in 1 .. Len(ss[m]) : v = at[m] + i
        /\ \A m \in 1 .. N : \A i \in 1 .. Len(ss[m]) :
             at[m] + i \in 1 .. Len(rows) /\ rows[at[m] + i] = ss[m][i]
    BY <1>4, <1>5 DEF Laid
  <1>8. Len(rows) \in Nat \ {0}
    <2>1. 1 \in 1 .. N /\ 1 \in 1 .. Len(ss[1])
      BY <1>1, <1>3 DEF LineRows
    <2>2. at[1] + 1 \in 1 .. Len(rows)
      BY <1>7, <2>1
    <2>3. Len(rows) \in Nat
      BY <1>5, LenProperties
    <2>4. Len(rows) # 0
      BY <2>2
    <2> QED
      BY <2>3, <2>4
  <1>9. ASSUME NEW v \in 1 .. Len(rows)  PROVE RowOfText(t, rows[v])
    <2>1. PICK m \in 1 .. N : \E i \in 1 .. Len(ss[m]) : v = at[m] + i
      BY <1>7
    <2>2. PICK i \in 1 .. Len(ss[m]) : v = at[m] + i
      BY <2>1
    <2>3. rows[v] = ss[m][i]
      BY <1>7, <2>2
    <2> QED
      BY <1>3, <2>3 DEF LineRows
  <1>10. ASSUME NEW l \in 1 .. N, NEW c \in 0 .. Len(t[l]) - 1
         PROVE  \E v \in 1 .. Len(rows) :
                  rows[v].line = l /\ rows[v].off <= c /\ c < rows[v].off + rows[v].len
    <2>1. PICK i \in 1 .. Len(ss[l]) :
            ss[l][i].off <= c /\ c < ss[l][i].off + ss[l][i].len /\ ss[l][i].line = l
      BY <1>3 DEF LineRows
    <2>2. at[l] + i \in 1 .. Len(rows) /\ rows[at[l] + i] = ss[l][i]
      BY <1>7
    <2> QED
      BY <2>1, <2>2
  <1>11. ASSUME NEW l \in 1 .. N
         PROVE  \E v \in 1 .. Len(rows) :
                  /\ rows[v].line = l /\ rows[v].off + rows[v].len = Len(t[l])
                  /\ \A u \in 1 .. Len(rows) : rows[u].line = l => u <= v
    <2> DEFINE k == Len(ss[l])
               v == at[l] + k
    <2>1. /\ k \in Nat \ {0} /\ k \in 1 .. k
          /\ ss[l][k].line = l /\ ss[l][k].off + ss[l][k].len = Len(t[l])
      BY <1>3 DEF LineRows
    <2>2. v \in 1 .. Len(rows) /\ rows[v] = ss[l][k]
      BY <1>7, <2>1
    <2>3. ASSUME NEW u \in 1 .. Len(rows), rows[u].line = l  PROVE u <= v
      <3>1. PICK m \in 1 .. N : \E i \in 1 .. Len(ss[m]) : u = at[m] + i
        BY <1>7
      <3>2. PICK i \in 1 .. Len(ss[m]) : u = at[m] + i
        BY <3>1
      <3>3. rows[u] = ss[m][i] /\ ss[m][i].line = m
        <4>1. rows[u] = ss[m][i]
          BY <1>7, <3>2
        <4> QED
          BY <1>3, <4>1 DEF LineRows
      <3>4. m = l
        BY <2>3, <3>3
      <3>5. i \in Nat /\ i <= k /\ at[l] \in Nat
        BY <2>1, <3>2, <3>4
      <3> HIDE DEF k
      <3> QED
        BY <2>1, <3>2, <3>4, <3>5
    <2> HIDE DEF v, k
    <2> QED
      BY <2>1, <2>2, <2>3
  <1>12. RowsOfText(t, rows)
    BY <1>5, <1>8, <1>9, <1>10, <1>11 DEF RowsOfText
  <1> QED
    BY <1>6, <1>12

LEMMA ColumnCut ==
    ASSUME NEW a \in Nat, NEW b \in Nat, NEW n \in Nat, a + b <= n, NEW x \in Nat
    PROVE  a + Min({x, b}) \in 0 .. n
  <1>1. Min({x, b}) = IF x <= b THEN x ELSE b
    BY PairMin
  <1> QED
    BY <1>1

LEMMA ColumnIn ==
    ASSUME NEW x \in Nat, NEW b \in Nat
    PROVE  Min({x, b}) \in Nat /\ Min({x, b}) <= b /\ Min({x, b}) \in 0 .. b
  <1>1. Min({x, b}) = IF x <= b THEN x ELSE b
    BY PairMin
  <1> QED
    BY <1>1

LEMMA ColumnKept ==
    ASSUME NEW a \in Nat, NEW b \in Nat, NEW c \in Nat, a <= c, c <= a + b
    PROVE  Min({c - a, b}) = c - a
  <1>1. c - a \in Int /\ b \in Int /\ c - a <= b
    OBVIOUS
  <1> QED
    BY <1>1, PairMin

(* The row that shows a position, and the column in it. *)
LEMMA RowOfFacts ==
    ASSUME NEW t \in AllTexts, NEW rows, RowsOfText(t, rows), NEW p \in Positions(t)
    PROVE  LET v == RowOf(rows, p) IN
             /\ v \in 1 .. Len(rows) /\ rows[v].line = p[1]
             /\ rows[v].off \in Nat /\ rows[v].len \in Nat
             /\ rows[v].off <= p[2] /\ p[2] <= rows[v].off + rows[v].len
  <1> DEFINE own == {v \in DOMAIN rows : rows[v].line = p[1]}
             holding == {v \in own : p[2] \in rows[v].off .. rows[v].off + rows[v].len - 1}
             N == Len(rows)
             r == RowOf(rows, p)
  <1>1. /\ p[1] \in 1 .. Len(t) /\ p[2] \in 0 .. Len(t[p[1]]) /\ Len(t[p[1]]) \in Nat
    BY PositionIs, TextFacts
  <1>2. /\ N \in Nat \ {0} /\ DOMAIN rows = 1 .. N
        /\ \A v \in 1 .. N : rows[v].off \in Nat /\ rows[v].len \in Nat
    <2>1. rows \in Seq(RowTypes) /\ N \in Nat \ {0}
      BY DEF RowsOfText
    <2>2. DOMAIN rows = 1 .. N
      BY <2>1, LenProperties
    <2>3. ASSUME NEW v \in 1 .. N  PROVE rows[v].off \in Nat /\ rows[v].len \in Nat
      BY DEF RowsOfText, RowOfText, RowTypes
    <2> QED
      BY <2>1, <2>2, <2>3
  <1>3. r = IF holding # {} THEN Max(holding) ELSE IF own # {} THEN Max(own) ELSE 1
    BY DEF RowOf
  <1>4. own \subseteq 1 .. N /\ holding \subseteq own
    BY <1>2
  <1>5. PICK last \in own : /\ rows[last].off + rows[last].len = Len(t[p[1]])
                            /\ \A u \in own : u <= last
    <2>1. PICK v \in 1 .. N : /\ rows[v].line = p[1] /\ rows[v].off + rows[v].len = Len(t[p[1]])
                              /\ \A u \in 1 .. N : rows[u].line = p[1] => u <= v
      BY <1>1 DEF RowsOfText
    <2> QED
      BY <1>2, <2>1
  <1>6. N \in Nat /\ own \subseteq 0 .. N /\ holding \subseteq 0 .. N
    BY <1>2, <1>4
  <1>7. CASE holding # {}
    <2>1. r \in holding
      <3> HIDE DEF holding, own, r
      <3> QED
        BY <1>3, <1>6, <1>7, MaxFacts
    <2>2. /\ r \in own /\ p[2] \in rows[r].off .. rows[r].off + rows[r].len - 1
      BY <2>1
    <2>3. r \in 1 .. N /\ rows[r].line = p[1] /\ rows[r].off \in Nat /\ rows[r].len \in Nat
      BY <1>2, <2>2
    <2> HIDE DEF r
    <2> QED
      BY <2>2, <2>3 DEF r
  <1>8. CASE holding = {}
    <2>1. r \in own /\ last <= r
      <3>1. r = Max(own) /\ own # {}
        BY <1>3, <1>5, <1>8
      <3> HIDE DEF own, r
      <3> QED
        BY <1>5, <1>6, <3>1, MaxFacts
    <2>2. r \in 1 .. N /\ last \in 1 .. N
      BY <1>4, <1>5, <2>1
    <2>3. r = last
      <3>1. r <= last
        BY <1>5, <2>1
      <3> HIDE DEF r
      <3> QED
        BY <2>1, <2>2, <3>1
    <2>4. p[2] = Len(t[p[1]])
      <3>1. SUFFICES ASSUME p[2] \in 0 .. Len(t[p[1]]) - 1  PROVE FALSE
        BY <1>1
      <3>2. PICK v \in 1 .. N : rows[v].line = p[1] /\ rows[v].off <= p[2]
                                /\ p[2] < rows[v].off + rows[v].len
        BY <1>1, <3>1 DEF RowsOfText
      <3>3. v \in own
        BY <1>2, <3>2
      <3>4. p[2] \in rows[v].off .. rows[v].off + rows[v].len - 1
        BY <1>2, <3>1, <3>2
      <3> QED
        BY <1>8, <3>3, <3>4
    <2>5. /\ rows[last].line = p[1] /\ rows[last].off \in Nat /\ rows[last].len \in Nat
          /\ rows[last].off + rows[last].len = Len(t[p[1]])
      BY <1>2, <1>5, <2>2
    <2> HIDE DEF r
    <2> QED
      BY <1>1, <2>2, <2>3, <2>4, <2>5 DEF r
  <1> QED
    BY <1>7, <1>8

(* Whatever place is clicked, a position is found. *)
LEMMA PositionAtFacts ==
    ASSUME NEW t \in AllTexts, NEW rows, RowsOfText(t, rows),
           NEW s \in Int, NEW y \in Int, NEW x \in Nat
    PROVE  PositionAt(rows, s, y, x) \in Positions(t)
  <1> DEFINE v == Max({1, Min({s + y + 1, Len(rows)})})
  <1>1. Len(rows) \in Nat \ {0}
    BY DEF RowsOfText
  <1>2. v \in 1 .. Len(rows)
    <2>1. s + y + 1 \in Int /\ Len(rows) \in Int /\ 1 \in Int
      BY <1>1
    <2> DEFINE m == Min({s + y + 1, Len(rows)})
    <2>2. m \in Int /\ m <= Len(rows)
      BY <1>1, <2>1, PairMin
    <2> HIDE DEF m
    <2>3. Max({1, m}) = IF 1 <= m THEN m ELSE 1
      BY <2>2, PairMax
    <2> QED
      BY <1>1, <2>2, <2>3 DEF m
  <1> HIDE DEF v
  <1>3. /\ rows[v].line \in 1 .. Len(t) /\ rows[v].off \in Nat /\ rows[v].len \in Nat
        /\ rows[v].off + rows[v].len <= Len(t[rows[v].line])
    BY <1>2 DEF RowsOfText, RowOfText, RowTypes
  <1>4. Len(t[rows[v].line]) \in Nat
    BY <1>3, TextFacts
  <1>5. rows[v].off + Min({x, rows[v].len}) \in 0 .. Len(t[rows[v].line])
    BY <1>3, <1>4, ColumnCut
  <1>6. PositionAt(rows, s, y, x) = <<rows[v].line, rows[v].off + Min({x, rows[v].len})>>
    BY DEF PositionAt, v
  <1> QED
    BY <1>3, <1>5, <1>6, PositionIs

(* A row begins at a position. *)
LEMMA RowStart ==
    ASSUME NEW t \in AllTexts, NEW rows, RowsOfText(t, rows), NEW v \in 1 .. Len(rows)
    PROVE  <<rows[v].line, rows[v].off>> \in Positions(t)
  <1>1. /\ rows[v].line \in 1 .. Len(t) /\ rows[v].off \in Nat /\ rows[v].len \in Nat
        /\ rows[v].off + rows[v].len <= Len(t[rows[v].line])
    BY DEF RowsOfText, RowOfText, RowTypes
  <1>2. Len(t[rows[v].line]) \in Nat
    BY <1>1, TextFacts
  <1>3. rows[v].off \in 0 .. Len(t[rows[v].line])
    BY <1>1, <1>2
  <1> QED
    BY <1>1, <1>3, PositionIs

(* A click on the place where a position is drawn finds it.                *)
LEMMA ClickFacts ==
    ASSUME NEW t \in AllTexts, NEW rows, RowsOfText(t, rows), NEW p \in Positions(t)
    PROVE  /\ rows[RowOf(rows, p)].line = p[1]
           /\ PositionAt(rows, RowOf(rows, p) - 1, 0, ColOf(rows, p)) = p
  <1> DEFINE v == RowOf(rows, p)
             row == rows[v]
  <1>1. /\ v \in 1 .. Len(rows) /\ row.line = p[1] /\ row.off \in Nat /\ row.len \in Nat
        /\ row.off <= p[2] /\ p[2] <= row.off + row.len
    BY RowOfFacts
  <1>2. Len(rows) \in Nat \ {0} /\ p[2] \in Nat /\ p = <<p[1], p[2]>>
    <2>1. p[2] \in 0 .. Len(t[p[1]]) /\ Len(t[p[1]]) \in Nat /\ p = <<p[1], p[2]>>
      BY PositionIs, TextFacts
    <2> QED
      BY <2>1 DEF RowsOfText
  <1> DEFINE x == ColOf(rows, p)
  <1>3. x = Min({p[2] - row.off, row.len})
    BY DEF ColOf
  <1>4. PositionAt(rows, v - 1, 0, x)
          = LET r == rows[Max({1, Min({v - 1 + 0 + 1, Len(rows)})})]
            IN  <<r.line, r.off + Min({x, r.len})>>
    BY DEF PositionAt
  <1> HIDE DEF v, x
  <1>5. x = p[2] - row.off
    BY <1>1, <1>2, <1>3, ColumnKept
  <1>6. Max({1, Min({v - 1 + 0 + 1, Len(rows)})}) = v
    <2>1. Min({v - 1 + 0 + 1, Len(rows)}) = v
      BY <1>1, <1>2, PairMin
    <2>2. Max({1, v}) = v
      BY <1>1, PairMax
    <2> QED
      BY <2>1, <2>2
  <1>7. row.off + Min({x, row.len}) = p[2]
    <2>1. Min({x, row.len}) = p[2] - row.off
      BY <1>3, <1>5
    <2> HIDE DEF row
    <2> QED
      BY <1>1, <1>2, <2>1
  <1> QED
    BY <1>1, <1>2, <1>4, <1>6, <1>7 DEF v, x

(* What is drawn as selected on a row is what lies between the ends.       *)
LEMMA HighlightFacts ==
    ASSUME NEW row, row.line \in Nat, row.off \in Nat, row.len \in Nat,
           NEW p, p[1] \in Nat, p[2] \in Nat, NEW q, q[1] \in Nat, q[2] \in Nat
    PROVE  Highlighted(row, p, q)
             = {c \in row.off .. row.off + row.len - 1 :
                  ~Before(<<row.line, c>>, p) /\ Before(<<row.line, c>>, q)}
  <1> DEFINE l == row.line
             a == row.off
             b == row.off + row.len
             H == Highlighted(row, p, q)
  <1>1. l \in Nat /\ a \in Nat /\ b \in Nat
    OBVIOUS
  <1>2. /\ p[1] < l /\ l < q[1] => H = a .. b - 1
        /\ p[1] = l /\ l = q[1] =>
             H = IF p[2] < b /\ q[2] > a THEN Max({p[2], a}) .. Min({q[2], b}) - 1 ELSE {}
        /\ p[1] = l /\ l < q[1] => H = Max({p[2], a}) .. b - 1
        /\ p[1] < l /\ l = q[1] => H = a .. Min({q[2], b}) - 1
        /\ ~(p[1] <= l /\ l <= q[1]) => H = {}
    BY <1>1 DEF Highlighted
  <1>3. /\ Max({p[2], a}) = IF p[2] <= a THEN a ELSE p[2]
        /\ Min({q[2], b}) = IF q[2] <= b THEN q[2] ELSE b
    BY <1>1, PairMin, PairMax
  <1>4. ASSUME NEW c \in Int
        PROVE  /\ ~Before(<<l, c>>, p) <=> p[1] < l \/ (p[1] = l /\ p[2] <= c)
               /\ Before(<<l, c>>, q) <=> l < q[1] \/ (l = q[1] /\ c < q[2])
    BY <1>1 DEF Before
  <1> HIDE DEF l, a, b, H
  <1>5. ASSUME NEW c
        PROVE  c \in H <=> /\ c \in a .. b - 1
                           /\ p[1] < l \/ (p[1] = l /\ p[2] <= c)
                           /\ l < q[1] \/ (l = q[1] /\ c < q[2])
    <2>1. CASE p[1] < l /\ l < q[1]
      BY <1>1, <1>2, <2>1
    <2>2. CASE p[1] = l /\ l = q[1]
      <3> DEFINE m == Max({p[2], a})
                 n == Min({q[2], b})
      <3>1. /\ m \in Int /\ n \in Int
            /\ \A x \in Int : m <= x <=> p[2] <= x /\ a <= x
            /\ \A x \in Int : x < n <=> x < q[2] /\ x < b
        BY <1>1, <1>3
      <3>2. H = IF p[2] < b /\ q[2] > a THEN m .. n - 1 ELSE {}
        BY <1>2, <2>2
      <3> HIDE DEF m, n
      <3>3. ASSUME NEW x  PROVE x \in H <=> x \in Int /\ m <= x /\ x < n
        <4>1. CASE p[2] < b /\ q[2] > a
          BY <3>1, <3>2, <4>1
        <4>2. CASE ~(p[2] < b /\ q[2] > a)
          <5>1. H = {} /\ (p[2] >= b \/ q[2] <= a)
            BY <1>1, <3>2, <4>2
          <5>2. ASSUME x \in Int, m <= x, x < n  PROVE FALSE
            BY <1>1, <3>1, <5>1, <5>2
          <5> QED
            BY <5>1, <5>2
        <4> QED
          BY <4>1, <4>2
      <3> QED
        BY <1>1, <2>2, <3>1, <3>3
    <2>3. CASE p[1] = l /\ l < q[1]
      BY <1>1, <1>2, <1>3, <2>3
    <2>4. CASE p[1] < l /\ l = q[1]
      BY <1>1, <1>2, <1>3, <2>4
    <2>5. CASE ~(p[1] <= l /\ l <= q[1])
      BY <1>1, <1>2, <2>5
    <2> QED
      BY <1>1, <2>1, <2>2, <2>3, <2>4, <2>5
  <1>6. ASSUME NEW c
        PROVE  c \in H <=> /\ c \in a .. b - 1
                           /\ ~Before(<<l, c>>, p) /\ Before(<<l, c>>, q)
    <2>1. CASE c \in a .. b - 1
      <3>1. c \in Int
        BY <1>1, <2>1
      <3> QED
        BY <1>4, <1>5, <2>1, <3>1
    <2>2. CASE c \notin a .. b - 1
      BY <1>5, <2>2
    <2> QED
      BY <2>1, <2>2
  <1>7. H = {c \in a .. b - 1 : ~Before(<<l, c>>, p) /\ Before(<<l, c>>, q)}
    BY <1>6
  <1> QED
    BY <1>7 DEF l, a, b, H

-----------------------------------------------------------------------------
(* Flattening. *)

LEMMA FlattensUnique ==
    ASSUME NEW S, NEW ss \in Seq(Seq(S)), NEW f, Flattens(ss, f), NEW g, Flattens(ss, g)
    PROVE  \A n \in 0 .. Len(ss) : f[n] = g[n]
  <1> DEFINE N == Len(ss)
             T == {n \in 0 .. N : f[n] = g[n]}
  <1>1. N \in Nat
    BY LenProperties
  <1>2. 0 \in T
    <2>1. 0 \in 0 .. N
      BY <1>1
    <2>2. f[0] = g[0]
      BY DEF Flattens
    <2> QED
      BY <2>1, <2>2, Zenon
  <1>3. ASSUME NEW i \in 0 .. N - 1, i \in T  PROVE i + 1 \in T
    <2> DEFINE k == i + 1
    <2>1. k \in 1 .. N /\ k \in 0 .. N /\ k - 1 = i
      BY <1>1
    <2> HIDE DEF k
    <2>2. f[k] = f[k - 1] \o ss[k] /\ g[k] = g[k - 1] \o ss[k]
      BY <2>1, Zenon DEF Flattens, N
    <2>3. f[k] = g[k]
      BY <1>3, <2>1, <2>2
    <2> QED
      BY <2>1, <2>3, Zenon DEF k
  <1>4. \A n \in 0 .. N : n \in T
    <2> HIDE DEF T
    <2> QED
      BY <1>1, <1>2, <1>3, Upwards
  <1> QED
    BY <1>4, Zenon

LEMMA FlattenAny ==
    ASSUME NEW S, NEW ss \in Seq(Seq(S)), NEW f, Flattens(ss, f)
    PROVE  FlattenSeq(ss) = f[Len(ss)]
  <1>1. CASE ss = <<>>
    <2>1. Len(ss) = 0 /\ f[0] = <<>>
      BY <1>1, EmptySeq DEF Flattens
    <2>2. FlattenSeq(ss) = <<>>
      BY <1>1, <2>1 DEF FlattenSeq
    <2> QED
      BY <2>1, <2>2
  <1>2. CASE ss # <<>>
    <2>1. PICK g : Flattens(ss, g) /\ FlattenSeq(ss) = g[Len(ss)]
      BY <1>2, FlattenIs
    <2>2. Len(ss) \in 0 .. Len(ss)
      <3>1. Len(ss) \in Nat
        BY LenProperties
      <3> QED
        BY <3>1
    <2> QED
      BY <2>1, <2>2, FlattensUnique
  <1> QED
    BY <1>1, <1>2

LEMMA FlattenType ==
    ASSUME NEW S, NEW ss \in Seq(Seq(S))
    PROVE  FlattenSeq(ss) \in Seq(S)
  <1>1. PICK f : Flattens(ss, f)
    BY FlattensExists
  <1>2. Len(ss) \in 0 .. Len(ss)
    <2>1. Len(ss) \in Nat
      BY LenProperties
    <2> QED
      BY <2>1
  <1> QED
    BY <1>1, <1>2, FlattenAny, FlattensSeq

LEMMA FlattenNothing == FlattenSeq(<<>>) = <<>>
  <1>1. Len(<<>>) = 0
    BY EmptySeq
  <1> QED
    BY <1>1 DEF FlattenSeq

LEMMA FlattenOne ==
    ASSUME NEW S, NEW x \in Seq(S)
    PROVE  FlattenSeq(<<x>>) = x
  <1> DEFINE f == [n \in 0 .. 1 |-> IF n = 0 THEN <<>> ELSE x]
  <1>1. f[0] = <<>> /\ f[1] = x /\ <<>> \o x = x
    BY ConcatEmptySeq
  <1>2. <<x>> \in Seq(Seq(S)) /\ Len(<<x>>) = 1 /\ <<x>>[1] = x
    OBVIOUS
  <1>3. Flattens(<<x>>, f)
    <2> DEFINE ss == <<x>>
    <2>1. Len(ss) = 1 /\ ss[1] = x
      BY <1>2
    <2> HIDE DEF f, ss
    <2>2. \A n \in 1 .. Len(ss) : n = 1
      BY <2>1
    <2>3. f[1] = f[1 - 1] \o ss[1]
      BY <1>1, <2>1
    <2>4. Flattens(ss, f)
      BY <1>1, <2>2, <2>3 DEF Flattens
    <2> QED
      BY <2>4 DEF ss
  <1> HIDE DEF f
  <1>4. FlattenSeq(<<x>>) = f[Len(<<x>>)]
    BY <1>2, <1>3, FlattenAny
  <1> QED
    BY <1>1, <1>2, <1>4

LEMMA FlattenConcat ==
    ASSUME NEW S, NEW a \in Seq(Seq(S)), NEW b \in Seq(Seq(S))
    PROVE  FlattenSeq(a \o b) = FlattenSeq(a) \o FlattenSeq(b)
  <1> DEFINE A == Len(a)
             B == Len(b)
             ss == a \o b
  <1>1. PICK f : Flattens(a, f)
    BY FlattensExists
  <1>2. PICK g : Flattens(b, g)
    BY FlattensExists
  <1>3. /\ A \in Nat /\ B \in Nat
        /\ \A n \in 0 .. A : f[n] \in Seq(S)
        /\ \A n \in 0 .. B : g[n] \in Seq(S)
        /\ \A n \in 1 .. B : b[n] \in Seq(S)
    BY <1>1, <1>2, FlattensSeq, LenProperties, ElementOfSeq
  <1>4. /\ ss \in Seq(Seq(S)) /\ Len(ss) = A + B
        /\ \A i \in 1 .. A + B : ss[i] = IF i <= A THEN a[i] ELSE b[i - A]
    BY ConcatProperties
  <1> HIDE DEF ss
  <1> DEFINE h == [n \in 0 .. A + B |-> IF n <= A THEN f[n] ELSE f[A] \o g[n - A]]
  <1>5. /\ \A n \in 0 .. A : h[n] = f[n]
        /\ \A n \in 0 .. B : h[A + n] = f[A] \o g[n]
    <2>1. ASSUME NEW n \in 0 .. A  PROVE h[n] = f[n]
      BY <1>3
    <2>2. ASSUME NEW n \in 0 .. B  PROVE h[A + n] = f[A] \o g[n]
      <3>1. CASE n = 0
        <4>1. g[n] = <<>> /\ A + n = A /\ A \in 0 .. A
          BY <1>2, <1>3, <3>1 DEF Flattens
        <4>2. f[A] \o <<>> = f[A]
          BY <1>3, <4>1, ConcatEmptySeq
        <4>3. h[A] = f[A]
          BY <2>1, <4>1
        <4> HIDE DEF h, A
        <4> QED
          BY <4>1, <4>2, <4>3
      <3>2. CASE n # 0
        <4> DEFINE k == A + n
        <4>1. k \in 0 .. A + B /\ ~(k <= A) /\ k - A = n
          BY <1>3, <3>2
        <4> HIDE DEF k
        <4>2. h[k] = f[A] \o g[n]
          BY <4>1
        <4> QED
          BY <4>2 DEF k
      <3> QED
        BY <3>1, <3>2
    <2> QED
      BY <2>1, <2>2
  <1> HIDE DEF h
  <1>6. ASSUME NEW i \in 1 .. A + B  PROVE h[i] = h[i - 1] \o ss[i]
    <2>1. CASE i <= A
      <3>1. i \in 1 .. A /\ i \in 0 .. A /\ i - 1 \in 0 .. A
        BY <1>3, <2>1
      <3>2. f[i] = f[i - 1] \o a[i]
        BY <1>1, <3>1 DEF Flattens
      <3> QED
        BY <1>4, <1>5, <2>1, <3>1, <3>2
    <2>2. CASE ~(i <= A)
      <3> DEFINE n == i - A
                 m == n - 1
      <3>1. /\ n \in 1 .. B /\ n \in 0 .. B /\ m \in 0 .. B /\ A + n = i /\ A + m = i - 1
            /\ A \in 0 .. A /\ m = n - 1
        BY <1>3, <2>2
      <3> HIDE DEF n, m
      <3>2. g[n] = g[m] \o b[n]
        BY <1>2, <3>1 DEF Flattens
      <3>3. h[i] = f[A] \o (g[m] \o b[n]) /\ h[i - 1] = f[A] \o g[m]
        <4>1. h[A + n] = f[A] \o g[n] /\ h[A + m] = f[A] \o g[m]
          BY <1>5, <3>1
        <4> QED
          BY <3>1, <3>2, <4>1
      <3>4. ss[i] = b[n]
        BY <1>4, <2>2 DEF n
      <3>5. (f[A] \o g[m]) \o b[n] = f[A] \o (g[m] \o b[n])
        <4> DEFINE x == f[A]
                   y == g[m]
                   z == b[n]
        <4>1. x \in Seq(S) /\ y \in Seq(S) /\ z \in Seq(S)
          BY <1>3, <3>1
        <4> HIDE DEF x, y, z
        <4>2. (x \o y) \o z = x \o (y \o z)
          BY <4>1, ConcatAssociative
        <4> QED
          BY <4>2 DEF x, y, z
      <3> QED
        BY <3>3, <3>4, <3>5
    <2> QED
      BY <2>1, <2>2
  <1>7. h[0] = <<>>
    <2>1. 0 \in 0 .. A
      BY <1>3
    <2> QED
      BY <1>1, <1>5, <2>1 DEF Flattens
  <1>8. Flattens(ss, h)
    BY <1>4, <1>6, <1>7 DEF Flattens
  <1>9. FlattenSeq(ss) = h[A + B]
    BY <1>4, <1>8, FlattenAny
  <1>10. h[A + B] = f[A] \o g[B]
    <2>1. B \in 0 .. B
      BY <1>3
    <2> QED
      BY <1>5, <2>1
  <1>11. FlattenSeq(a) = f[A] /\ FlattenSeq(b) = g[B]
    BY <1>1, <1>2, FlattenAny
  <1> QED
    BY <1>9, <1>10, <1>11 DEF ss

(* Flattening twice, or each part first.                                   *)
LEMMA FlattenTwice ==
    ASSUME NEW S, NEW sss \in Seq(Seq(Seq(S))), NEW ss \in Seq(Seq(S)), Len(ss) = Len(sss),
           \A n \in 1 .. Len(sss) : ss[n] = FlattenSeq(sss[n])
    PROVE  FlattenSeq(FlattenSeq(sss)) = FlattenSeq(ss)
  <1> DEFINE N == Len(sss)
  <1>1. PICK f : Flattens(sss, f)
    BY FlattensExists
  <1>2. PICK g : Flattens(ss, g)
    BY FlattensExists
  <1>3. /\ N \in Nat /\ \A n \in 1 .. N : sss[n] \in Seq(Seq(S))
        /\ \A n \in 0 .. N : f[n] \in Seq(Seq(S))
    BY <1>1, FlattensSeq, LenProperties, ElementOfSeq
  <1> DEFINE T == {n \in 0 .. N : FlattenSeq(f[n]) = g[n]}
  <1>4. 0 \in T
    <2>1. 0 \in 0 .. N
      BY <1>3
    <2>2. f[0] = <<>> /\ g[0] = <<>>
      BY <1>1, <1>2 DEF Flattens
    <2>3. FlattenSeq(f[0]) = g[0]
      BY <2>2, FlattenNothing
    <2> QED
      BY <2>1, <2>3, Zenon
  <1>5. ASSUME NEW i \in 0 .. N - 1, i \in T  PROVE i + 1 \in T
    <2> DEFINE k == i + 1
    <2>1. k \in 1 .. N /\ k \in 0 .. N /\ k - 1 = i /\ i \in 0 .. N
      BY <1>3
    <2> HIDE DEF k
    <2>2. f[k] = f[k - 1] \o sss[k] /\ g[k] = g[k - 1] \o ss[k]
      BY <1>1, <1>2, <2>1, Zenon DEF Flattens, N
    <2>3. f[i] \in Seq(Seq(S)) /\ sss[k] \in Seq(Seq(S))
      BY <1>3, <2>1
    <2>4. FlattenSeq(f[i] \o sss[k]) = FlattenSeq(f[i]) \o FlattenSeq(sss[k])
      BY <2>3, FlattenConcat
    <2>5. FlattenSeq(f[i]) = g[i] /\ FlattenSeq(sss[k]) = ss[k]
      BY <1>5, <2>1
    <2>6. f[k] = f[i] \o sss[k] /\ g[k] = g[i] \o ss[k]
      BY <2>1, <2>2
    <2>7. FlattenSeq(f[k]) = g[k]
      BY <2>4, <2>5, <2>6
    <2> QED
      BY <2>1, <2>7, Zenon DEF k
  <1>6. \A n \in 0 .. N : n \in T
    <2> HIDE DEF T
    <2> QED
      BY <1>3, <1>4, <1>5, Upwards
  <1>7. N \in 0 .. N
    BY <1>3
  <1>8. FlattenSeq(f[N]) = g[N]
    BY <1>6, <1>7, Zenon
  <1>9. FlattenSeq(sss) = f[N] /\ FlattenSeq(ss) = g[N]
    BY <1>1, <1>2, FlattenAny
  <1> QED
    BY <1>8, <1>9

-----------------------------------------------------------------------------
(* The rows of the viewer.                                                 *)

(* Characters from + 1 to to of a line make a row.                         *)
RowFits(line, from, to, w) ==
    to - from <= w \/ \A c \in from + 1 .. to : line[c] = Str

LEMMA RowEndFacts ==
    ASSUME NEW line, NEW n \in Nat, Len(line) = n, NEW w \in Nat \ {0}, NEW off \in 0 .. n - 1
    PROVE  /\ RowEnd(line, off, w) \in off + 1 .. n
           /\ RowFits(line, off, RowEnd(line, off, w), w)
  <1> DEFINE cut == Min({off + w, n})
             inString == cut < n /\ line[cut] = Str /\ line[cut + 1] = Str
             BB == {s \in 0 .. cut : \A i \in s + 1 .. cut : line[i] = Str}
             FF == {e \in cut .. n : \A i \in cut + 1 .. e : line[i] = Str}
             r == RowEnd(line, off, w)
  <1>1. r = IF ~inString THEN cut ELSE IF Min(BB) > off THEN Min(BB) ELSE Max(FF)
    BY DEF RowEnd
  <1>2. cut \in off + 1 .. n /\ cut - off <= w /\ off \in Nat
    <2>1. cut = IF off + w <= n THEN off + w ELSE n
      BY PairMin
    <2> HIDE DEF cut
    <2> QED
      BY <2>1
  <1> HIDE DEF cut
  <1>3. Min(BB) \in BB
    <2>1. cut \in BB /\ BB \subseteq Nat
      BY <1>2
    <2> HIDE DEF BB
    <2> QED
      BY <2>1, MinFacts
  <1>4. Max(FF) \in FF
    <2>1. cut \in FF /\ FF \subseteq 0 .. n
      BY <1>2
    <2> HIDE DEF FF
    <2> QED
      BY <2>1, MaxFacts
  <1> DEFINE b == Min(BB)
             e == Max(FF)
  <1>5. /\ b \in 0 .. cut /\ \A i \in b + 1 .. cut : line[i] = Str
        /\ e \in cut .. n /\ \A i \in cut + 1 .. e : line[i] = Str
    BY <1>3, <1>4
  <1>6. r = cut \/ (b > off /\ r = b) \/ (~(b > off) /\ r = e)
    BY <1>1
  <1> HIDE DEF b, e, r
  <1>7. CASE r = cut
    BY <1>2, <1>7 DEF RowFits, r
  <1>8. CASE b > off /\ r = b
    <2>1. r \in off + 1 .. n /\ r - off <= w
      BY <1>2, <1>5, <1>8
    <2> QED
      BY <2>1 DEF RowFits, r
  <1>9. CASE ~(b > off) /\ r = e
    <2>1. r \in off + 1 .. n
      BY <1>2, <1>5, <1>9
    <2>2. ASSUME NEW c \in off + 1 .. r  PROVE line[c] = Str
      <3>1. c \in b + 1 .. cut \/ c \in cut + 1 .. e
        BY <1>2, <1>5, <1>9
      <3> QED
        BY <1>5, <3>1
    <2> QED
      BY <2>1, <2>2 DEF RowFits, r
  <1> QED
    BY <1>6, <1>7, <1>8, <1>9

RowGood(row, w) == Len(row) <= w \/ \A c \in DOMAIN row : row[c] = Str

(* The rows of a line behind its first off characters.                     *)
RowsBehind(line, w, off, rows) ==
    /\ rows \in Seq(Seq(Runes))
    /\ \A v \in 1 .. Len(rows) : RowGood(rows[v], w)
    /\ FlattenSeq(rows) = SubSeq(line, off + 1, Len(line))

LEMMA NextRow ==
    ASSUME NEW line \in Seq(Runes), NEW w \in Nat \ {0}, NEW off \in 0 .. Len(line) - 1,
           NEW rest, RowsBehind(line, w, RowEnd(line, off, w), rest)
    PROVE  RowsBehind(line, w, off, << SubSeq(line, off + 1, RowEnd(line, off, w)) >> \o rest)
  <1> DEFINE n == Len(line)
             e == RowEnd(line, off, w)
             x == SubSeq(line, off + 1, e)
             rows == <<x>> \o rest
  <1>1. n \in Nat /\ \A i \in 1 .. n : line[i] \in Runes
    BY LenProperties, ElementOfSeq
  <1>2. e \in off + 1 .. n /\ RowFits(line, off, e, w)
    BY <1>1, RowEndFacts
  <1>3. RowsBehind(line, w, e, rest)
    OBVIOUS
  <1> HIDE DEF e
  <1>4. /\ x \in Seq(Runes) /\ Len(x) = e - off
        /\ \A i \in 1 .. e - off : x[i] = line[off + i]
    <2>1. \A i \in off + 1 .. e : line[i] \in Runes
      BY <1>1, <1>2
    <2>2. /\ x \in Seq(Runes)
          /\ Len(x) = IF off + 1 <= e THEN e - (off + 1) + 1 ELSE 0
          /\ \A i \in 1 .. e - (off + 1) + 1 : x[i] = line[off + 1 + i - 1]
      BY <1>1, <1>2, <2>1, SubSeqProperties
    <2> HIDE DEF x
    <2>3. Len(x) = e - off /\ e - (off + 1) + 1 = e - off
      BY <1>1, <1>2, <2>2
    <2>4. ASSUME NEW i \in 1 .. e - off  PROVE x[i] = line[off + i]
      <3>1. off + 1 + i - 1 = off + i
        BY <1>1, <1>2
      <3> QED
        BY <2>2, <2>3, <3>1
    <2> QED
      BY <2>2, <2>3, <2>4
  <1>5. RowGood(x, w)
    <2>1. CASE e - off <= w
      BY <1>4, <2>1 DEF RowGood
    <2>2. CASE \A c \in off + 1 .. e : line[c] = Str
      <3>1. DOMAIN x = 1 .. e - off
        BY <1>4, LenProperties
      <3> HIDE DEF x
      <3>2. ASSUME NEW c \in 1 .. e - off  PROVE x[c] = Str
        <4>1. off + c \in off + 1 .. e
          BY <1>1, <1>2
        <4> QED
          BY <1>4, <2>2, <4>1
      <3> QED
        BY <3>1, <3>2 DEF RowGood
    <2> QED
      BY <1>2, <2>1, <2>2 DEF RowFits
  <1>6. FlattenSeq(rest) = SubSeq(line, e + 1, n) /\ rest \in Seq(Seq(Runes))
    BY <1>3 DEF RowsBehind
  <1>7. x \o SubSeq(line, e + 1, n) = SubSeq(line, off + 1, n)
    <2> DEFINE m == off + 1
    <2>1. /\ m \in 1 .. Len(line) + 1 /\ e \in m - 1 .. Len(line)
          /\ Len(line) \in e .. Len(line)
      BY <1>1, <1>2
    <2> HIDE DEF m
    <2>2. SubSeq(line, m, e) \o SubSeq(line, e + 1, Len(line)) = SubSeq(line, m, Len(line))
      BY <2>1, ConcatAdjacentSubSeq, Zenon
    <2> QED
      BY <2>2 DEF m
  <1> HIDE DEF x
  <1> DEFINE one == <<x>>
  <1>8. one \in Seq(Seq(Runes)) /\ Len(one) = 1 /\ one[1] = x /\ FlattenSeq(one) = x
    BY <1>4, FlattenOne
  <1> HIDE DEF one
  <1>9. /\ one \o rest \in Seq(Seq(Runes)) /\ Len(one \o rest) = 1 + Len(rest)
        /\ \A i \in 1 .. 1 + Len(rest) :
             (one \o rest)[i] = IF i <= 1 THEN one[i] ELSE rest[i - 1]
    <2>1. /\ one \o rest \in Seq(Seq(Runes)) /\ Len(one \o rest) = Len(one) + Len(rest)
          /\ \A i \in 1 .. Len(one) + Len(rest) :
               (one \o rest)[i] = IF i <= Len(one) THEN one[i] ELSE rest[i - Len(one)]
      BY <1>6, <1>8, ConcatProperties
    <2> QED
      BY <1>8, <2>1
  <1>10. Len(rest) \in Nat
    BY <1>6, LenProperties
  <1>11. ASSUME NEW v \in 1 .. Len(one \o rest)  PROVE RowGood((one \o rest)[v], w)
    <2>1. CASE v = 1
      BY <1>5, <1>8, <1>9, <1>10, <2>1
    <2>2. CASE v # 1
      <3>1. v - 1 \in 1 .. Len(rest) /\ ~(v <= 1) /\ v \in 1 .. 1 + Len(rest)
        BY <1>9, <1>10, <2>2
      <3>2. (one \o rest)[v] = rest[v - 1]
        BY <1>9, <3>1
      <3> QED
        BY <1>3, <3>1, <3>2 DEF RowsBehind
    <2> QED
      BY <2>1, <2>2
  <1>12. FlattenSeq(one \o rest) = SubSeq(line, off + 1, n)
    <2>1. FlattenSeq(one \o rest) = FlattenSeq(one) \o FlattenSeq(rest)
      BY <1>6, <1>8, FlattenConcat
    <2> QED
      BY <1>6, <1>7, <1>8, <2>1
  <1>13. RowsBehind(line, w, off, one \o rest)
    BY <1>9, <1>11, <1>12 DEF RowsBehind
  <1> QED
    BY <1>13 DEF one, x, e

(* g[off] are those rows, by the recursion of WrappedLine.                 *)
Wraps(line, w, g, off) ==
    g[off] = IF off = Len(line) THEN <<>>
             ELSE << SubSeq(line, off + 1, RowEnd(line, off, w)) >> \o g[RowEnd(line, off, w)]

LEMMA WrapsExist ==
    ASSUME NEW line \in Seq(Runes), NEW w \in Nat \ {0}
    PROVE  \E g : DOMAIN g = 0 .. Len(line) /\ g = [off \in DOMAIN g |-> g[off]]
                  /\ \A off \in 0 .. Len(line) : Wraps(line, w, g, off)
  <1> DEFINE n == Len(line)
             Upto(g, m) == /\ DOMAIN g = m .. n /\ g = [off \in DOMAIN g |-> g[off]]
                         /\ \A off \in m .. n : Wraps(line, w, g, off)
             T == {k \in 0 .. n : \E g : Upto(g, n - k)}
  <1>1. n \in Nat
    BY LenProperties
  <1>2. \A off \in 0 .. n - 1 : RowEnd(line, off, w) \in off + 1 .. n
    BY <1>1, RowEndFacts
  <1>3. 0 \in T
    <2> DEFINE g == [off \in n .. n |-> <<>>]
    <2>1. DOMAIN g = n .. n /\ g = [off \in DOMAIN g |-> g[off]] /\ g[n] = <<>>
      BY <1>1
    <2> HIDE DEF g
    <2>2. ASSUME NEW off \in n .. n  PROVE Wraps(line, w, g, off)
      <3>1. off = n
        BY <1>1
      <3> QED
        BY <2>1, <3>1 DEF Wraps
    <2>3. n - 0 = n /\ 0 \in 0 .. n
      BY <1>1
    <2>4. Upto(g, n - 0)
      BY <2>1, <2>2, <2>3
    <2> HIDE DEF Upto
    <2> QED
      BY <2>3, <2>4
  <1>4. ASSUME NEW i \in 0 .. n - 1, i \in T  PROVE i + 1 \in T
    <2>1. PICK g : Upto(g, n - i)
      BY <1>4
    <2> DEFINE m == n - (i + 1)
               e == RowEnd(line, m, w)
               h == [off \in m .. n |->
                       IF off = m THEN << SubSeq(line, m + 1, e) >> \o g[e] ELSE g[off]]
    <2>2. m \in 0 .. n - 1 /\ m + 1 = n - i /\ i + 1 \in 0 .. n
      BY <1>1
    <2>3. e \in m + 1 .. n
      <3> HIDE DEF m, e
      <3> QED
        BY <1>2, <2>2 DEF e
    <2> HIDE DEF e, m
    <2>4. DOMAIN g = m + 1 .. n /\ \A off \in m + 1 .. n : Wraps(line, w, g, off)
      BY <2>1, <2>2
    <2>5. /\ DOMAIN h = m .. n /\ h = [off \in DOMAIN h |-> h[off]]
          /\ h[m] = << SubSeq(line, m + 1, e) >> \o g[e]
          /\ \A off \in m + 1 .. n : h[off] = g[off]
      <3>1. m \in m .. n /\ \A off \in m + 1 .. n : off \in m .. n /\ off # m
        BY <1>1, <2>2
      <3> QED
        BY <3>1
    <2> HIDE DEF h
    <2>6. ASSUME NEW off \in m .. n  PROVE Wraps(line, w, h, off)
      <3>1. CASE off = m
        <4>1. h[e] = g[e] /\ m # n
          BY <1>1, <2>2, <2>3, <2>5
        <4> QED
          BY <2>5, <3>1, <4>1 DEF Wraps, e
      <3>2. CASE off # m
        <4>1. off \in m + 1 .. n
          BY <2>2, <3>2
        <4>2. h[off] = g[off] /\ Wraps(line, w, g, off)
          BY <2>4, <2>5, <4>1
        <4>3. CASE off = n
          BY <4>2, <4>3 DEF Wraps
        <4>4. CASE off # n
          <5>1. off \in 0 .. n - 1
            BY <1>1, <2>2, <4>1, <4>4
          <5>2. RowEnd(line, off, w) \in off + 1 .. n
            BY <1>2, <5>1
          <5>3. RowEnd(line, off, w) \in m + 1 .. n
            BY <1>1, <2>2, <4>1, <5>2
          <5>4. h[RowEnd(line, off, w)] = g[RowEnd(line, off, w)]
            BY <2>5, <5>3
          <5> QED
            BY <4>2, <5>4 DEF Wraps
        <4> QED
          BY <4>3, <4>4
      <3> QED
        BY <3>1, <3>2
    <2>7. Upto(h, m)
      BY <2>5, <2>6
    <2> HIDE DEF Upto
    <2> QED
      BY <2>2, <2>7 DEF m
  <1>5. \A k \in 0 .. n : k \in T
    <2> HIDE DEF T
    <2> QED
      BY <1>1, <1>3, <1>4, Upwards
  <1>6. n \in 0 .. n /\ n - n = 0
    BY <1>1
  <1>7. \E g : Upto(g, n - n)
    <2> HIDE DEF Upto
    <2> QED
      BY <1>5, <1>6, Zenon
  <1> QED
    BY <1>6, <1>7

(* wrapTokens loses nothing of a line.                                     *)
LEMMA WrappedLineFacts ==
    ASSUME NEW line \in Seq(Runes), NEW w \in Nat \ {0}
    PROVE  RowsBehind(line, w, 0, WrappedLine(line, w))
  <1> DEFINE n == Len(line)
             Eq(g) == g = [off \in 0 .. n |->
                             IF off = n THEN <<>>
                             ELSE << SubSeq(line, off + 1, RowEnd(line, off, w)) >>
                                  \o g[RowEnd(line, off, w)]]
             from == CHOOSE g : Eq(g)
  <1>1. n \in Nat
    BY LenProperties
  <1>2. WrappedLine(line, w) = from[0]
    BY DEF WrappedLine
  <1>3. PICK g : DOMAIN g = 0 .. n /\ g = [off \in DOMAIN g |-> g[off]]
                 /\ \A off \in 0 .. n : Wraps(line, w, g, off)
    BY WrapsExist
  <1>4. Eq(g)
    BY <1>3 DEF Wraps
  <1>5. Eq(from)
    <2> HIDE DEF Eq
    <2> QED
      BY <1>4
  <1> HIDE DEF from
  <1>6. \A off \in 0 .. n : Wraps(line, w, from, off)
    BY <1>5 DEF Wraps
  <1> DEFINE T == {k \in 0 .. n : \A off \in n - k .. n : RowsBehind(line, w, off, from[off])}
  <1>7. 0 \in T
    <2>1. 0 \in 0 .. n /\ n \in 0 .. n /\ \A off \in n - 0 .. n : off = n
      BY <1>1
    <2>2. from[n] = <<>>
      BY <1>6, <2>1 DEF Wraps
    <2>3. <<>> \in Seq(Seq(Runes)) /\ Len(<<>>) = 0
      BY EmptySeq
    <2>4. FlattenSeq(<<>>) = SubSeq(line, n + 1, n)
      <3>1. SubSeq(line, n + 1, n) = <<>>
        BY <1>1, SubSeqProperties, EmptySeq
      <3> QED
        BY <3>1, FlattenNothing
    <2>5. RowsBehind(line, w, n, <<>>)
      BY <2>3, <2>4 DEF RowsBehind
    <2>6. \A off \in n - 0 .. n : RowsBehind(line, w, off, from[off])
      BY <2>1, <2>2, <2>5
    <2> QED
      BY <2>1, <2>6
  <1>8. ASSUME NEW i \in 0 .. n - 1, i \in T  PROVE i + 1 \in T
    <2>1. ASSUME NEW off \in n - (i + 1) .. n  PROVE RowsBehind(line, w, off, from[off])
      <3>1. CASE off \in n - i .. n
        BY <1>8, <3>1
      <3>2. CASE off \notin n - i .. n
        <4> DEFINE e == RowEnd(line, off, w)
        <4>1. off = n - (i + 1) /\ off \in 0 .. n - 1 /\ off # n /\ off \in 0 .. n
          BY <1>1, <3>2
        <4>2. e \in off + 1 .. n
          BY <1>1, <4>1, RowEndFacts
        <4>3. e \in n - i .. n
          <5> HIDE DEF e
          <5> QED
            BY <1>1, <4>1, <4>2
        <4>4. RowsBehind(line, w, e, from[e])
          BY <1>8, <4>3
        <4>5. from[off] = << SubSeq(line, off + 1, e) >> \o from[e]
          BY <1>6, <4>1 DEF Wraps
        <4> QED
          BY <4>1, <4>4, <4>5, NextRow
      <3> QED
        BY <3>1, <3>2
    <2>2. i + 1 \in 0 .. n
      BY <1>1
    <2> QED
      BY <2>1, <2>2
  <1>9. \A k \in 0 .. n : k \in T
    <2> HIDE DEF T
    <2> QED
      BY <1>1, <1>7, <1>8, Upwards
  <1>10. RowsBehind(line, w, 0, from[0])
    <2>1. n \in T /\ 0 \in n - n .. n
      <3>1. n \in 0 .. n /\ 0 \in n - n .. n
        BY <1>1
      <3> QED
        BY <1>9, <3>1, Zenon
    <2> QED
      BY <2>1
  <1> QED
    BY <1>2, <1>10

LEMMA WholeLine ==
    ASSUME NEW line \in Seq(Runes)
    PROVE  SubSeq(line, 0 + 1, Len(line)) = line
  <1>1. Len(line) \in Nat /\ line \in [1 .. Len(line) -> Runes]
    OBVIOUS
  <1> QED
    BY <1>1

(* What the tokens of a line hold is a line.                               *)
LEMMA TokenisedFacts ==
    ASSUME NEW text \in AllTexts, NEW l \in 1 .. Len(text)
    PROVE  Tokenised(text, l) \in Seq(Runes)
  <1>1. /\ Len(text) \in Nat \ {0} /\ \A k \in 1 .. Len(text) : text[k] \in Seq(Runes)
    BY TextFacts
  <1>2. ASSUME NEW line \in Seq(Runes)  PROVE Squeezed(line) \in Seq(Runes)
    <2> DEFINE kept == [i \in DOMAIN line |->
                          IF \/ line[i] # Blank
                             \/ i > 1 /\ line[i - 1] # Blank
                                /\ \E k \in i .. Len(line) : line[k] # Blank
                          THEN << line[i] >> ELSE <<>>]
    <2>1. Len(line) \in Nat /\ DOMAIN line = 1 .. Len(line) /\ \A i \in DOMAIN line : line[i] \in Runes
      BY LenProperties, ElementOfSeq
    <2>2. \A i \in DOMAIN line : << line[i] >> \in Seq(Runes) /\ <<>> \in Seq(Runes)
      BY <2>1, EmptySeq
    <2>3. \A i \in DOMAIN line : kept[i] \in {<< line[i] >>, <<>>}
      OBVIOUS
    <2>4. DOMAIN kept = 1 .. Len(line) /\ kept = [i \in DOMAIN line |-> kept[i]]
      BY <2>1
    <2>5. Squeezed(line) = FlattenSeq(kept)
      BY DEF Squeezed
    <2> HIDE DEF kept
    <2>6. kept \in [1 .. Len(line) -> Seq(Runes)]
      BY <2>1, <2>2, <2>3, <2>4
    <2>7. kept \in Seq(Seq(Runes))
      BY <2>1, <2>6
    <2> QED
      BY <2>5, <2>7, FlattenType
  <1>3. \A line \in Seq(Runes) : FirstLine(line) \in {line, Squeezed(line)}
    BY DEF FirstLine
  <1>4. CASE l = 1
    <2>1. text[1] \in Seq(Runes)
      BY <1>1, <1>4
    <2> QED
      BY <1>2, <1>3, <1>4, <2>1 DEF Tokenised
  <1>5. CASE l # 1
    BY <1>1, <1>5 DEF Tokenised
  <1> QED
    BY <1>4, <1>5

(* Wrapping loses nothing of what the tokens hold but the line that ends   *)
(* the headers.                                                            *)
LEMMA WrappedFacts ==
    ASSUME NEW text \in AllTexts, NEW px \in Nat, CharWidth \in Nat \ {0}, px >= CharWidth
    PROVE  /\ Wrapped(text, px) \in Seq(Seq(Runes))
           /\ text # EmptyText =>
                /\ \A v \in 1 .. Len(Wrapped(text, px)) :
                     RowGood(Wrapped(text, px)[v], px \div CharWidth)
                /\ FlattenSeq(Wrapped(text, px))
                     = FlattenSeq([l \in DOMAIN text |->
                                     IF EndsHeaders(text, l) THEN <<>>
                                     ELSE Tokenised(text, l)])
  <1> DEFINE w == px \div CharWidth
             N == Len(text)
             sss == [l \in DOMAIN text |-> IF EndsHeaders(text, l) THEN << <<>> >>
                                           ELSE WrappedLine(Tokenised(text, l), w)]
             ss == [l \in DOMAIN text |-> IF EndsHeaders(text, l) THEN <<>>
                                          ELSE Tokenised(text, l)]
             rows == FlattenSeq(sss)
  <1>1. w \in Nat \ {0}
    <2>1. w \in Nat /\ px < w * CharWidth + CharWidth
      BY Quotient
    <2> HIDE DEF w
    <2>2. w # 0
      <3>1. SUFFICES ASSUME w = 0  PROVE FALSE
        OBVIOUS
      <3>2. w * CharWidth = 0
        BY <3>1
      <3> QED
        BY <2>1, <3>2
    <2> QED
      BY <2>1, <2>2
  <1> HIDE DEF w
  <1>2. /\ N \in Nat \ {0} /\ DOMAIN text = 1 .. N
        /\ \A l \in 1 .. N : Tokenised(text, l) \in Seq(Runes)
    BY TextFacts, TokenisedFacts
  <1>3. <<>> \in Seq(Runes) /\ Len(<<>>) = 0
    BY EmptySeq
  <1>4. /\ << <<>> >> \in Seq(Seq(Runes)) /\ Len(<< <<>> >>) = 1 /\ << <<>> >>[1] = <<>>
        /\ FlattenSeq(<< <<>> >>) = <<>>
    <2> DEFINE x == <<>>
    <2>1. x \in Seq(Runes)
      BY <1>3
    <2> HIDE DEF x
    <2>2. <<x>> \in Seq(Seq(Runes)) /\ Len(<<x>>) = 1 /\ <<x>>[1] = x /\ FlattenSeq(<<x>>) = x
      BY <2>1, FlattenOne
    <2> QED
      BY <2>2 DEF x
  <1>5. ASSUME NEW l \in 1 .. N
        PROVE  /\ sss[l] \in Seq(Seq(Runes)) /\ ss[l] \in Seq(Runes)
               /\ FlattenSeq(sss[l]) = ss[l]
               /\ \A v \in 1 .. Len(sss[l]) : RowGood(sss[l][v], w)
    <2>1. CASE EndsHeaders(text, l)
      <3>1. sss[l] = << <<>> >> /\ ss[l] = <<>>
        BY <1>2, <2>1
      <3>2. RowGood(<<>>, w)
        BY <1>1, <1>3 DEF RowGood
      <3>3. \A v \in 1 .. Len(<< <<>> >>) : << <<>> >>[v] = <<>>
        BY <1>4
      <3> HIDE DEF sss, ss
      <3> QED
        BY <1>3, <1>4, <3>1, <3>2, <3>3
    <2>2. CASE ~EndsHeaders(text, l)
      <3> DEFINE line == Tokenised(text, l)
      <3>1. sss[l] = WrappedLine(line, w) /\ ss[l] = line /\ line \in Seq(Runes)
        BY <1>2, <2>2
      <3> HIDE DEF line
      <3>2. RowsBehind(line, w, 0, sss[l])
        BY <1>1, <3>1, WrappedLineFacts
      <3>3. SubSeq(line, 0 + 1, Len(line)) = line
        BY <3>1, WholeLine
      <3> HIDE DEF sss, ss
      <3> QED
        BY <3>1, <3>2, <3>3 DEF RowsBehind
    <2> QED
      BY <2>1, <2>2
  <1>6. sss = [l \in 1 .. N |-> sss[l]] /\ ss = [l \in 1 .. N |-> ss[l]]
    BY <1>2
  <1>7. text # EmptyText => Wrapped(text, px) = rows
    BY DEF Wrapped, w
  <1> HIDE DEF sss, ss
  <1>8. /\ sss \in Seq(Seq(Seq(Runes))) /\ Len(sss) = N /\ sss # <<>>
        /\ ss \in Seq(Seq(Runes)) /\ Len(ss) = N
    <2>1. sss \in [1 .. N -> Seq(Seq(Runes))] /\ ss \in [1 .. N -> Seq(Runes)]
      BY <1>5, <1>6
    <2>2. sss \in Seq(Seq(Seq(Runes))) /\ Len(sss) = N
      BY <1>2, <2>1
    <2>3. ss \in Seq(Seq(Runes)) /\ Len(ss) = N
      BY <1>2, <2>1
    <2> QED
      BY <1>2, <2>2, <2>3, EmptySeq
  <1>9. rows \in Seq(Seq(Runes))
    BY <1>8, FlattenType
  <1>10. ASSUME NEW v \in 1 .. Len(rows)  PROVE RowGood(rows[v], w)
    <2>1. PICK at \in [1 .. N -> Nat] : Laid(sss, rows, at)
      BY <1>8, FlattenFacts
    <2> HIDE DEF rows
    <2>2. PICK m \in 1 .. N : \E i \in 1 .. Len(sss[m]) : v = at[m] + i
      BY <1>8, <2>1 DEF Laid
    <2>3. PICK i \in 1 .. Len(sss[m]) : v = at[m] + i
      BY <2>2
    <2>4. rows[v] = sss[m][i]
      BY <1>8, <2>1, <2>3 DEF Laid
    <2> QED
      BY <1>5, <2>4
  <1>11. FlattenSeq(rows) = FlattenSeq(ss)
    BY <1>5, <1>8, FlattenTwice
  <1>12. Wrapped(text, px) \in Seq(Seq(Runes))
    <2>1. CASE text = EmptyText
      <3>1. Wrapped(text, px) = <<>>
        BY <2>1 DEF Wrapped
      <3> QED
        BY <3>1, EmptySeq
    <2>2. CASE text # EmptyText
      BY <1>7, <1>9, <2>2
    <2> QED
      BY <2>1, <2>2
  <1> HIDE DEF rows
  <1> QED
    BY <1>7, <1>10, <1>11, <1>12 DEF ss, w

-----------------------------------------------------------------------------
(* The viewer.                                                             *)

Places == (Nat \ {0}) \X Nat

(* The goroutine of the last generation wraps for the width that was asked *)
(* for last.  There is none before the first layout, and when it has       *)
(* landed and nothing is to follow, its rows are those of the text.        *)
ViewInv ==
    /\ ViewTypeOK /\ gen \in Nat
    /\ drawn \in Seq(Seq(Runes))
    /\ start \in Places /\ end \in Places
    /\ wrapWidth = 0 => parses = {}
    /\ \A p \in parses : p.gen = gen => p.px = asked
    /\ AtRest => asked \in Sizes /\ drawn = Wrapped(full, asked)

ViewAssumptions == WidgetAssumption /\ ViewAssumption

LEMMA SizeFacts ==
    ASSUME ViewAssumptions
    PROVE  /\ 0 \notin Sizes
           /\ \A px \in Sizes, text \in ViewTexts : Wrapped(text, px) \in Seq(Seq(Runes))
  <1>1. CharWidth \in Nat \ {0} /\ ViewTexts \subseteq AllTexts
        /\ \A px \in Sizes : px \in Nat /\ px >= CharWidth
    BY DEF ViewAssumptions, ViewAssumption
  <1>2. ASSUME NEW px \in Sizes, NEW text \in ViewTexts
        PROVE  Wrapped(text, px) \in Seq(Seq(Runes))
    BY <1>1, WrappedFacts
  <1>3. 0 \notin Sizes
    BY <1>1
  <1> QED
    BY <1>2, <1>3

LEMMA ViewInvInit == ViewAssumptions /\ ViewInit => ViewInv
  <1> SUFFICES ASSUME ViewAssumptions, ViewInit  PROVE ViewInv
    OBVIOUS
  <1>1. /\ full = EmptyText /\ drawn = <<>> /\ wrapWidth = 0 /\ gen = 0 /\ processing = FALSE
        /\ parses = {} /\ asked = 0 /\ offset = 0 /\ start = <<1, 0>> /\ end = <<1, 0>>
        /\ selected = FALSE /\ pressed = FALSE /\ crashed = FALSE
    BY DEF ViewInit
  <1>2. ViewTypeOK /\ gen \in Nat
    BY <1>1 DEF ViewTypeOK, ViewAssumptions, ViewAssumption
  <1>3. ~AtRest
    BY <1>1 DEF AtRest
  <1>4. drawn \in Seq(Seq(Runes)) /\ start \in Places /\ end \in Places
    BY <1>1, EmptySeq DEF Places
  <1> QED
    BY <1>1, <1>2, <1>3, <1>4 DEF ViewInv

(* An action that leaves the text, the width and the goroutines alone.     *)
ViewStays ==
    /\ UNCHANGED <<full, wrapWidth, drawn, gen, processing, parses, asked>>
    /\ start' \in Places /\ end' \in Places /\ offset' \in Nat
    /\ {selected', pressed', crashed'} \subseteq BOOLEAN

LEMMA ViewStaysKeeps == ViewInv /\ ViewStays => ViewInv'
  <1> SUFFICES ASSUME ViewInv, ViewStays  PROVE ViewInv'
    OBVIOUS
  <1>1. ViewTypeOK' /\ gen' \in Nat
    BY DEF ViewInv, ViewStays, ViewTypeOK
  <1>2. AtRest' <=> AtRest
    BY DEF ViewStays, AtRest
  <1>3. Wrapped(full, asked)' = Wrapped(full, asked)
    BY DEF ViewStays
  <1> QED
    BY <1>1, <1>2, <1>3 DEF ViewInv, ViewStays

LEMMA StartsFacts ==
    ASSUME ViewAssumptions, ViewInv, NEW text \in ViewTexts, NEW px \in Sizes, NEW landed,
           startProcessing(text, px, landed), UNCHANGED <<drawn, start, end, pressed, crashed>>,
           full' \in ViewTexts, wrapWidth' \in Sizes, offset' \in Nat, selected' \in BOOLEAN
    PROVE  ViewInv'
  <1> USE DEF startProcessing
  <1>1. gen' = gen + 1 /\ gen \in Nat /\ processing' = TRUE /\ asked' = px
    BY DEF ViewInv
  <1> DEFINE new == [gen |-> gen + 1, text |-> text, px |-> px]
  <1>2. ASSUME NEW p \in parses'
        PROVE  /\ p.gen \in 1 .. gen' /\ p.text \in ViewTexts /\ p.px \in Sizes
               /\ p.gen = gen' => p.px = asked'
    <2>1. CASE p = new
      BY <1>1, <2>1
    <2>2. CASE p \in parses
      <3>1. p.gen \in 1 .. gen /\ p.text \in ViewTexts /\ p.px \in Sizes
        BY <2>2 DEF ViewInv, ViewTypeOK
      <3> QED
        BY <1>1, <3>1
    <2> QED
      BY <2>1, <2>2
  <1>3. ViewTypeOK'
    BY <1>1, <1>2 DEF ViewInv, ViewTypeOK
  <1>4. ~AtRest'
    BY <1>1 DEF AtRest
  <1>5. wrapWidth' # 0
    BY SizeFacts
  <1> QED
    BY <1>1, <1>2, <1>3, <1>4, <1>5 DEF ViewInv

LEMMA ViewSetTextKeeps ==
    ASSUME ViewAssumptions, ViewInv, NEW text \in ViewTexts, ViewSetText(text)
    PROVE  ViewInv'
  <1>1. /\ full' = text /\ offset' = 0 /\ selected' = FALSE
        /\ UNCHANGED <<drawn, wrapWidth, start, end, pressed, crashed>>
    BY DEF ViewSetText
  <1>2. CASE processing \/ wrapWidth = 0
    <2>1. UNCHANGED <<gen, processing, parses, asked>>
      BY <1>2 DEF ViewSetText
    <2>2. ~AtRest'
      BY <1>1, <1>2, <2>1 DEF AtRest, ViewInv, ViewTypeOK
    <2>3. ViewTypeOK'
      BY <1>1, <2>1 DEF ViewInv, ViewTypeOK
    <2> QED
      BY <1>1, <2>1, <2>2, <2>3 DEF ViewInv
  <1>3. CASE ~(processing \/ wrapWidth = 0)
    <2>1. startProcessing(text, wrapWidth, {}) /\ wrapWidth \in Sizes
      BY <1>3 DEF ViewSetText, ViewInv, ViewTypeOK
    <2> QED
      BY <1>1, <2>1, StartsFacts
  <1> QED
    BY <1>2, <1>3

LEMMA LayoutKeeps ==
    ASSUME ViewAssumptions, ViewInv, NEW px \in Sizes, Layout(px)
    PROVE  ViewInv'
  <1> DEFINE far == wrapWidth - px > Slack \/ px - wrapWidth > Slack \/ wrapWidth = 0
  <1>1. /\ wrapWidth' = px /\ px \in Sizes
        /\ UNCHANGED <<full, drawn, offset, start, end, selected, pressed, crashed>>
        /\ IF full # EmptyText /\ far THEN startProcessing(full, px, {})
           ELSE UNCHANGED <<gen, processing, parses, asked>>
    BY DEF Layout, viewSel
  <1>2. CASE full # EmptyText /\ far
    <2>1. startProcessing(full, px, {})
      BY <1>1, <1>2
    <2>2. full \in ViewTexts /\ offset' \in Nat /\ selected' \in BOOLEAN
      BY <1>1 DEF ViewInv, ViewTypeOK
    <2> QED
      BY <1>1, <2>1, <2>2, StartsFacts
  <1>3. CASE ~(full # EmptyText /\ far)
    <2>1. UNCHANGED <<gen, processing, parses, asked>>
      BY <1>1, <1>3
    <2>2. ASSUME AtRest'  PROVE AtRest
      <3>1. ~processing /\ full # EmptyText
        BY <1>1, <2>1, <2>2 DEF AtRest
      <3>2. wrapWidth # 0
        BY <1>3, <3>1
      <3>3. wrapWidth \in Nat
        BY DEF ViewInv, ViewTypeOK, ViewAssumptions, ViewAssumption
      <3>4. wrapWidth > 0
        BY <3>2, <3>3
      <3> QED
        BY <3>1, <3>4 DEF AtRest
    <2>3. Wrapped(full, asked)' = Wrapped(full, asked)
      BY <1>1, <2>1
    <2>4. ViewTypeOK' /\ wrapWidth' # 0
      BY <1>1, <2>1, SizeFacts DEF ViewInv, ViewTypeOK
    <2> QED
      BY <1>1, <2>1, <2>2, <2>3, <2>4 DEF ViewInv
  <1> QED
    BY <1>2, <1>3

LEMMA LandKeeps ==
    ASSUME ViewAssumptions, ViewInv, NEW p \in parses, Land(p)
    PROVE  ViewInv'
  <1>1. /\ UNCHANGED <<full, wrapWidth, offset, start, end, selected, pressed, crashed>>
        /\ full \in ViewTexts /\ offset' \in Nat /\ selected' \in BOOLEAN
        /\ wrapWidth \in Sizes /\ gen \in Nat
        /\ p.gen \in 1 .. gen /\ p.text \in ViewTexts /\ p.px \in Sizes
        /\ p.gen = gen => p.px = asked
    BY DEF Land, viewSel, ViewInv, ViewTypeOK
  <1>2. CASE p.gen # gen
    <2>1. parses' = parses \ {p} /\ UNCHANGED <<drawn, gen, processing, asked>>
      BY <1>2 DEF Land
    <2>2. (AtRest' <=> AtRest) /\ Wrapped(full, asked)' = Wrapped(full, asked)
      BY <1>1, <2>1 DEF AtRest
    <2>3. ViewTypeOK'
      BY <1>1, <2>1 DEF ViewInv, ViewTypeOK
    <2> QED
      BY <1>1, <2>1, <2>2, <2>3 DEF ViewInv
  <1>3. CASE p.gen = gen
    <2>1. drawn' = Wrapped(p.text, p.px) /\ drawn' \in Seq(Seq(Runes))
      BY <1>1, <1>3, SizeFacts DEF Land
    <2>2. CASE full # p.text /\ full # EmptyText
      <3>1. startProcessing(full, wrapWidth, {p})
        BY <1>3, <2>2 DEF Land
      <3>2. gen' = gen + 1 /\ processing' = TRUE /\ asked' = wrapWidth
        BY <3>1 DEF startProcessing
      <3>3. ASSUME NEW q \in parses'
            PROVE  /\ q.gen \in 1 .. gen' /\ q.text \in ViewTexts /\ q.px \in Sizes
                   /\ q.gen = gen' => q.px = asked'
        <4> DEFINE new == [gen |-> gen + 1, text |-> full, px |-> wrapWidth]
        <4>1. q = new \/ q \in parses
          BY <3>1 DEF startProcessing
        <4>2. CASE q = new
          BY <1>1, <3>2, <4>2
        <4>3. CASE q \in parses
          <5>1. q.gen \in 1 .. gen /\ q.text \in ViewTexts /\ q.px \in Sizes
            BY <4>3 DEF ViewInv, ViewTypeOK
          <5> QED
            BY <1>1, <3>2, <5>1
        <4> QED
          BY <4>1, <4>2, <4>3
      <3>4. ViewTypeOK' /\ ~AtRest' /\ wrapWidth' # 0
        BY <1>1, <3>2, <3>3, SizeFacts DEF ViewInv, ViewTypeOK, AtRest
      <3> QED
        BY <1>1, <2>1, <3>2, <3>3, <3>4 DEF ViewInv
    <2>3. CASE ~(full # p.text /\ full # EmptyText)
      <3>1. processing' = FALSE /\ parses' = parses \ {p} /\ UNCHANGED <<gen, asked>>
        BY <1>3, <2>3 DEF Land
      <3>2. ViewTypeOK'
        BY <1>1, <3>1 DEF ViewInv, ViewTypeOK
      <3>3. ASSUME AtRest'  PROVE asked' \in Sizes /\ drawn' = Wrapped(full, asked)'
        <4>1. full = p.text /\ asked = p.px
          BY <1>1, <1>3, <2>3, <3>3 DEF AtRest
        <4> QED
          BY <1>1, <2>1, <3>1, <4>1
      <3> QED
        BY <1>1, <2>1, <3>1, <3>2, <3>3 DEF ViewInv
    <2> QED
      BY <2>2, <2>3
  <1> QED
    BY <1>2, <1>3

(* A click finds an end of a row. *)
LEMMA PointFacts ==
    ASSUME ViewAssumptions, ViewInv, NEW p \in Points
    PROVE  /\ p \in Places /\ p = <<p[1], p[2]>>
           /\ drawn # <<>> => p[1] \in 1 .. Len(drawn) /\ p[2] \in 0 .. Len(drawn[p[1]])
  <1>1. PICK y \in -1 .. Height, x \in 0 .. wrapWidth \div CharWidth : p = PointAt(y, x)
    BY DEF Points
  <1>2. /\ offset \in Nat /\ y \in Int /\ x \in Nat /\ drawn \in Seq(Seq(Runes))
    <2>1. Height \in Nat /\ CharWidth \in Nat \ {0} /\ wrapWidth \in Nat
      BY DEF ViewAssumptions, WidgetAssumption, ViewAssumption, ViewInv, ViewTypeOK
    <2>2. wrapWidth \div CharWidth \in Nat
      BY <2>1, Quotient
    <2> DEFINE q == wrapWidth \div CharWidth
    <2>3. q \in Nat /\ x \in 0 .. q
      BY <2>2
    <2> HIDE DEF q
    <2>4. x \in Nat /\ y \in Int
      BY <2>1, <2>3
    <2> QED
      BY <2>4 DEF ViewInv, ViewTypeOK
  <1>3. CASE drawn = <<>>
    BY <1>1, <1>3 DEF PointAt, Places
  <1>4. CASE drawn # <<>>
    <2> DEFINE n == Len(drawn)
               r == RowAt(y)
               m == Min({offset + y + 1, n})
    <2>1. n \in Nat \ {0} /\ \A i \in 1 .. n : drawn[i] \in Seq(Runes)
      BY <1>2, <1>4, LenProperties, ElementOfSeq, EmptySeq
    <2>2. r \in 1 .. n
      <3>1. r = Max({1, m})
        BY DEF RowAt
      <3> HIDE DEF n, r
      <3>2. m \in Int /\ m <= n
        BY <1>2, <2>1, PairMin
      <3> HIDE DEF m
      <3>3. r = IF 1 <= m THEN m ELSE 1
        BY <3>1, <3>2, PairMax
      <3> QED
        BY <2>1, <3>2, <3>3
    <2>3. Len(drawn[r]) \in Nat
      BY <2>1, <2>2, LenProperties
    <2>4. Min({x, Len(drawn[r])}) \in 0 .. Len(drawn[r])
      BY <1>2, <2>3, ColumnIn
    <2>5. p = <<r, Min({x, Len(drawn[r])})>>
      BY <1>1, <1>4 DEF PointAt
    <2> HIDE DEF r
    <2> QED
      BY <2>1, <2>2, <2>3, <2>4, <2>5 DEF Places
  <1> QED
    BY <1>3, <1>4

LEMMA ViewDoubleTappedStays ==
    ASSUME ViewAssumptions, ViewInv, NEW p \in Points, ViewDoubleTapped(p)
    PROVE  ViewStays
  <1> DEFINE line == drawn[p[1]]
             c == Min({p[2], Len(line) - 1})
             word == Word(line, c)
  <1>1. /\ drawn # <<>> /\ line # <<>>
        /\ start' = <<p[1], word[1]>> /\ end' = <<p[1], word[2]>>
        /\ selected' = (word[1] # word[2])
        /\ UNCHANGED <<viewRest, offset, pressed>>
    BY DEF ViewDoubleTapped
  <1>2. p[1] \in 1 .. Len(drawn) /\ p[2] \in 0 .. Len(line) /\ drawn \in Seq(Seq(Runes))
    BY <1>1, PointFacts DEF ViewInv
  <1>3. line \in Seq(Runes) /\ Len(line) \in Nat \ {0} /\ Len(drawn) \in Nat
    <2>1. line \in Seq(Runes)
      BY <1>2, ElementOfSeq
    <2> HIDE DEF line
    <2> QED
      BY <1>1, <1>2, <2>1, LenProperties, EmptySeq
  <1>4. c \in 0 .. Len(line)
    <2> DEFINE b == Len(line) - 1
    <2>1. p[2] \in Nat /\ b \in Nat /\ Len(line) = b + 1
      <3> HIDE DEF line
      <3> QED
        BY <1>2, <1>3
    <2>2. c = Min({p[2], b})
      OBVIOUS
    <2> HIDE DEF b, c
    <2>3. c \in Nat /\ c <= b
      BY <2>1, <2>2, ColumnIn
    <2> HIDE DEF line
    <2> QED
      BY <2>1, <2>3
  <1> HIDE DEF line, c
  <1>5. word[1] \in 0 .. c /\ word[2] \in c .. Len(line)
    BY <1>3, <1>4, WordFacts
  <1> HIDE DEF word
  <1>6. word[1] \in Nat /\ word[2] \in Nat /\ p[1] \in Nat \ {0}
    BY <1>2, <1>3, <1>4, <1>5
  <1>7. start' \in Places /\ end' \in Places
    BY <1>1, <1>6 DEF Places
  <1>8. /\ UNCHANGED <<full, wrapWidth, drawn, gen, processing, parses, asked>>
        /\ offset' \in Nat /\ {selected', pressed', crashed'} \subseteq BOOLEAN
    BY <1>1 DEF viewRest, parseVars, ViewInv, ViewTypeOK
  <1> QED
    BY <1>7, <1>8 DEF ViewStays

LEMMA ViewScrolledStays ==
    ASSUME ViewAssumptions, ViewInv,
           \/ \E by \in {-1, 1} : ViewScrolled(by)
           \/ \E to \in 0 .. Len(drawn) - Height : ViewDragThumb(to)
    PROVE  ViewStays
  <1>1. drawn \in Seq(Seq(Runes)) /\ Len(drawn) \in Nat /\ Height \in Nat /\ offset \in Nat
    BY LenProperties DEF ViewInv, ViewTypeOK, ViewAssumptions, WidgetAssumption
  <1>2. UNCHANGED <<viewRest, viewSel, pressed>>
    BY DEF ViewScrolled, ViewDragThumb
  <1>3. offset' \in Nat
    <2>1. ASSUME NEW by \in {-1, 1}, ViewScrolled(by)  PROVE offset' \in Nat
      <3> DEFINE x == ScrollLimit(drawn, Height)
                 y == Min({offset + by, x})
      <3>1. offset' = Max({0, y})
        BY <2>1 DEF ViewScrolled
      <3>2. x = Max({0, Len(drawn) - Height})
        BY DEF ScrollLimit
      <3> HIDE DEF x
      <3>3. x \in Int
        BY <1>1, <3>2, PairMax
      <3>4. y \in Int
        <4>1. offset + by \in Int
          BY <1>1
        <4> QED
          BY <3>3, <4>1, PairMin
      <3> HIDE DEF y
      <3> QED
        BY <3>1, <3>4, PairMax
    <2>2. ASSUME NEW to \in 0 .. Len(drawn) - Height, ViewDragThumb(to)  PROVE offset' \in Nat
      BY <2>2, <1>1 DEF ViewDragThumb
    <2> QED
      BY <2>1, <2>2
  <1> QED
    BY <1>2, <1>3 DEF ViewStays, viewRest, viewSel, parseVars, ViewInv, ViewTypeOK

(* The other input to the viewer selects.                                  *)
LEMMA SelectingStays ==
    ASSUME ViewAssumptions, ViewInv,
           \/ \E p \in Points : ViewPressText(p) \/ ViewDragged(p) \/ ViewDoubleTapped(p)
           \/ ViewPressScrollbar \/ ViewRelease \/ ViewSelectAll \/ ViewFocusLost
    PROVE  ViewStays
  <1>1. start \in Places /\ end \in Places /\ offset \in Nat
        /\ selected \in BOOLEAN /\ pressed \in BOOLEAN /\ crashed \in BOOLEAN
    BY DEF ViewInv, ViewTypeOK
  <1> USE DEF viewRest, viewSel, parseVars, ViewStays
  <1>2. ASSUME NEW p \in Points, ViewPressText(p)  PROVE ViewStays
    BY <1>1, <1>2, PointFacts DEF ViewPressText
  <1>3. ASSUME NEW p \in Points, ViewDragged(p)  PROVE ViewStays
    BY <1>1, <1>3, PointFacts DEF ViewDragged
  <1>4. ASSUME ViewPressScrollbar \/ ViewRelease \/ ViewFocusLost  PROVE ViewStays
    BY <1>1, <1>4 DEF ViewPressScrollbar, ViewRelease, ViewFocusLost
  <1>5. ASSUME ViewSelectAll  PROVE ViewStays
    <2>1. <<1, 0>> \in Places
      BY DEF Places
    <2>2. CASE drawn = <<>>
      BY <1>1, <1>5, <2>1, <2>2 DEF ViewSelectAll
    <2>3. CASE drawn # <<>>
      <3>1. drawn \in Seq(Seq(Runes))
        BY DEF ViewInv
      <3>2. drawn \in AllTexts
        BY <2>3, <3>1 DEF AllTexts
      <3>3. Len(drawn) \in Nat \ {0} /\ Len(drawn[Len(drawn)]) \in Nat
        BY <3>2, TextFacts
      <3>4. EndOfText(drawn) \in Places
        BY <3>3 DEF EndOfText, Last, Places
      <3> QED
        BY <1>1, <1>5, <2>1, <2>3, <3>4 DEF ViewSelectAll
    <2> QED
      BY <2>2, <2>3
  <1> QED
    BY <1>2, <1>3, <1>4, <1>5, ViewDoubleTappedStays

(* What Copy takes from the rows is a text, though rows went away.         *)
LEMMA CopiedFacts ==
    ASSUME ViewInv, NEW p \in Places, NEW q \in Places, p[1] <= q[1]
    PROVE  CopiedRows(p, q) \in AllTexts
  <1> DEFINE n == Len(drawn)
  <1>1. /\ drawn \in Seq(Seq(Runes)) /\ n \in Nat /\ \A i \in 1 .. n : drawn[i] \in Seq(Runes)
        /\ p = <<p[1], p[2]>> /\ p[1] \in Nat \ {0} /\ p[2] \in Nat
        /\ q = <<q[1], q[2]>> /\ q[1] \in Nat \ {0} /\ q[2] \in Nat
    BY LenProperties, ElementOfSeq DEF ViewInv, Places
  <1>2. CASE p[1] > n
    <2>1. CopiedRows(p, q) = EmptyText
      BY <1>2 DEF CopiedRows
    <2> QED
      BY <2>1, EmptyIsText
  <1>3. CASE ~(p[1] > n) /\ q[1] > n
    <2> DEFINE t == Append(drawn, <<>>)
    <2>1. t \in Seq(Seq(Runes)) /\ Len(t) = n + 1 /\ t[n + 1] = <<>>
      <3>1. <<>> \in Seq(Runes)
        BY EmptySeq
      <3> QED
        BY <1>1, <3>1, AppendProperties
    <2>2. CopiedRows(p, q) = Piece(t, p, <<n + 1, 0>>)
      BY <1>3 DEF CopiedRows
    <2> HIDE DEF t
    <2>3. p[1] \in 1 .. Len(t) /\ n + 1 \in 1 .. Len(t) /\ p[1] <= n + 1
      <3> HIDE DEF n
      <3> QED
        BY <1>1, <1>3, <2>1
    <2>4. 0 <= Len(t[n + 1])
      BY <2>1, EmptySeq
    <2>5. Piece(t, <<p[1], p[2]>>, <<n + 1, 0>>) \in AllTexts
      BY <1>1, <2>1, <2>3, <2>4, PieceFacts
    <2> QED
      BY <1>1, <2>2, <2>5
  <1>4. CASE ~(p[1] > n) /\ ~(q[1] > n)
    <2> DEFINE d == Min({q[2], Len(drawn[q[1]])})
    <2>1. p[1] \in 1 .. n /\ q[1] \in 1 .. n
      BY <1>1, <1>4
    <2>2. Len(drawn[q[1]]) \in Nat
      BY <1>1, <2>1, LenProperties
    <2>3. d \in Nat /\ d <= Len(drawn[q[1]])
      BY <1>1, <2>2, ColumnIn
    <2>4. CopiedRows(p, q) = Piece(drawn, <<p[1], p[2]>>, <<q[1], d>>)
      BY <1>1, <1>4 DEF CopiedRows, OnLine
    <2> HIDE DEF d
    <2>5. Piece(drawn, <<p[1], p[2]>>, <<q[1], d>>) \in AllTexts
      BY <1>1, <2>1, <2>3, PieceFacts
    <2> QED
      BY <2>4, <2>5
  <1> QED
    BY <1>2, <1>3, <1>4

LEMMA ViewCopyFacts ==
    ASSUME ViewInv, clipboard \in AllTexts, ViewCopy
    PROVE  ViewStays /\ clipboard' \in AllTexts
  <1> DEFINE p == Earlier(start, end)
             q == Later(start, end)
  <1>1. p \in Places /\ q \in Places /\ p[1] <= q[1]
    <2>1. /\ start \in Places /\ end \in Places /\ start[1] \in Nat /\ end[1] \in Nat
      BY DEF ViewInv, Places
    <2> QED
      BY <2>1 DEF Earlier, Later, Before
  <1>2. ViewStays
    BY DEF ViewCopy, ViewStays, ViewInv, ViewTypeOK, viewSel, parseVars
  <1>3. clipboard' = clipboard \/ clipboard' = CopiedRows(p, q)
    BY DEF ViewCopy
  <1>4. CopiedRows(p, q) \in AllTexts
    BY <1>1, CopiedFacts
  <1> QED
    BY <1>2, <1>3, <1>4

LEMMA ViewNextKeeps ==
    ASSUME ViewAssumptions, ViewInv, clipboard \in AllTexts, ViewNext
    PROVE  ViewInv' /\ clipboard' \in AllTexts
  <1>1. ASSUME ViewCopy  PROVE ViewInv' /\ clipboard' \in AllTexts
    BY <1>1, ViewCopyFacts, ViewStaysKeeps
  <1>2. ASSUME \/ \E by \in {-1, 1} : ViewScrolled(by)
               \/ \E to \in 0 .. Len(drawn) - Height : ViewDragThumb(to)
        PROVE  ViewInv' /\ clipboard' \in AllTexts
    <2>1. clipboard' = clipboard
      BY <1>2 DEF ViewScrolled, ViewDragThumb
    <2> QED
      BY <1>2, <2>1, ViewScrolledStays, ViewStaysKeeps
  <1>3. ASSUME \/ \E p \in Points : ViewPressText(p) \/ ViewDragged(p) \/ ViewDoubleTapped(p)
               \/ ViewPressScrollbar \/ ViewRelease \/ ViewSelectAll \/ ViewFocusLost
        PROVE  ViewInv' /\ clipboard' \in AllTexts
    <2>1. clipboard' = clipboard
      BY <1>3 DEF ViewPressText, ViewDragged, ViewDoubleTapped, ViewPressScrollbar,
                  ViewRelease, ViewSelectAll, ViewFocusLost
    <2> QED
      BY <1>3, <2>1, SelectingStays, ViewStaysKeeps
  <1>4. ASSUME NEW text \in ViewTexts, ViewSetText(text)
        PROVE  ViewInv' /\ clipboard' \in AllTexts
    <2>1. clipboard' = clipboard
      BY <1>4 DEF ViewSetText
    <2> QED
      BY <1>4, <2>1, ViewSetTextKeeps
  <1>5. ASSUME NEW px \in Sizes, Layout(px)
        PROVE  ViewInv' /\ clipboard' \in AllTexts
    <2>1. clipboard' = clipboard
      BY <1>5 DEF Layout
    <2> QED
      BY <1>5, <2>1, LayoutKeeps
  <1>6. ASSUME NEW p \in parses, Land(p)
        PROVE  ViewInv' /\ clipboard' \in AllTexts
    <2>1. clipboard' = clipboard
      BY <1>6 DEF Land
    <2> QED
      BY <1>6, <2>1, LandKeeps
  <1> QED
    BY <1>1, <1>2, <1>3, <1>4, <1>5, <1>6 DEF ViewNext, ViewLand, ViewInput

-----------------------------------------------------------------------------
(* The editor.                                                             *)

UndoRecords == {r \in [lines : AllTexts, cursor : Nat \X Nat] : r.cursor \in Positions(r.lines)}

TextOK == lines \in AllTexts /\ cursor \in Positions(lines) /\ clipboard \in AllTexts

UndoOK == undo \in Seq(UndoRecords) /\ Len(undo) <= MaxUndo

ScreenOK == width \in Widths /\ scroll \in 0 .. ScrollLimit(visual, visible)

(* The line of the anchor is in the text except for a drag, and except     *)
(* when nothing is selected; selecting with shift goes on from there.      *)
SelectionOK ==
    /\ hasSelection \in BOOLEAN /\ shiftHeld \in BOOLEAN /\ shiftSelecting \in BOOLEAN
    /\ mouse \in {"up", "text", "track", "thumb", "drag"}
    /\ hasSelection => head \in Positions(lines)
    /\ hasSelection /\ mouse # "drag" => anchor[1] \in DOMAIN lines
    /\ shiftSelecting => anchor[1] \in DOMAIN lines

EditInv == TextOK /\ UndoOK /\ ScreenOK /\ SelectionOK

EditAssumptions == WidgetAssumption /\ EditorAssumption

(* What a step of EditsAreRecorded may do.                                 *)
EditRecorded ==
    lines' # lines =>
      \/ undo' = <<>> /\ cursor' = <<1, 0>>
      \/ undo # <<>> /\ undo' = Front(undo) /\ lines' = Last(undo).lines
      \/ undo' # <<>> /\ Last(undo').lines = lines /\ Last(undo').cursor = cursor

LEMMA ScreenFacts ==
    ASSUME EditAssumptions, NEW t \in AllTexts, NEW w \in Widths
    PROVE  /\ RowsOfText(t, Rows(t, w)) /\ Len(Rows(t, w)) \in Nat \ {0}
           /\ visible \in Nat \ {0} /\ ScrollLimit(Rows(t, w), visible) \in Nat
  <1>1. w \in Nat \ {0} /\ Height \in Nat
    BY DEF EditAssumptions, EditorAssumption, WidgetAssumption
  <1>2. RowsOfText(t, Rows(t, w))
    BY <1>1, RowsFacts
  <1>3. Len(Rows(t, w)) \in Nat \ {0}
    BY <1>2 DEF RowsOfText
  <1>4. visible \in Nat \ {0}
    BY <1>1 DEF visible
  <1> DEFINE n == Len(Rows(t, w))
             x == n - visible
  <1>5. x \in Int /\ ScrollLimit(Rows(t, w), visible) = Max({0, x})
    <2>1. n \in Int /\ visible \in Int
      BY <1>3, <1>4
    <2> HIDE DEF n
    <2>2. x \in Int
      BY <2>1
    <2> QED
      BY <2>2 DEF ScrollLimit, n
  <1> HIDE DEF x
  <1> QED
    BY <1>2, <1>3, <1>4, <1>5, PairMax

LEMMA SettledFacts ==
    ASSUME EditAssumptions, NEW t \in AllTexts, NEW w \in Widths, NEW offs \in Nat
    PROVE  Settled(offs, t, w) \in 0 .. ScrollLimit(Rows(t, w), visible)
  <1>1. ScrollLimit(Rows(t, w), visible) \in Nat
    BY ScreenFacts
  <1> QED
    BY <1>1, ColumnIn DEF Settled

LEMMA FollowedFacts ==
    ASSUME EditAssumptions, ScreenOK, scroll \in Nat, NEW t \in AllTexts, NEW p \in Positions(t)
    PROVE  Followed(t, p) \in 0 .. ScrollLimit(Rows(t, width), visible)
  <1> DEFINE v == RowOf(Rows(t, width), p) - 1
             offs == IF v < scroll THEN v
                     ELSE IF v >= scroll + visible THEN v - visible + 1 ELSE scroll
  <1>1. width \in Widths
    BY DEF ScreenOK
  <1>2. v \in Nat /\ visible \in Nat \ {0}
    <2>1. /\ RowsOfText(t, Rows(t, width)) /\ visible \in Nat \ {0}
          /\ Len(Rows(t, width)) \in Nat \ {0}
      BY <1>1, ScreenFacts
    <2>2. RowOf(Rows(t, width), p) \in 1 .. Len(Rows(t, width))
      BY <2>1, RowOfFacts
    <2> DEFINE r == RowOf(Rows(t, width), p)
               n == Len(Rows(t, width))
    <2>3. r \in 1 .. n /\ n \in Nat
      BY <2>1, <2>2
    <2> HIDE DEF r, n
    <2>4. r - 1 \in Nat
      BY <2>3
    <2> QED
      BY <2>1, <2>4 DEF r
  <1>3. Followed(t, p) = Settled(offs, t, width)
    BY DEF Followed
  <1> HIDE DEF v
  <1>4. offs \in Nat
    BY <1>2
  <1> HIDE DEF offs
  <1> QED
    BY <1>1, <1>3, <1>4, SettledFacts

LEMMA ScrollIsNat ==
    ASSUME EditAssumptions, EditInv
    PROVE  scroll \in Nat /\ width \in Widths /\ RowsOfText(lines, visual)
  <1>1. /\ width \in Widths /\ scroll \in 0 .. ScrollLimit(visual, visible) /\ lines \in AllTexts
    BY DEF EditInv, ScreenOK, TextOK
  <1>2. ScrollLimit(visual, visible) \in Nat /\ RowsOfText(lines, visual)
    BY <1>1, ScreenFacts DEF visual
  <1> QED
    BY <1>1, <1>2

(* The step leaves the rows as they are.                                   *)
LEMMA ScreenStays ==
    ASSUME ScreenOK, UNCHANGED <<lines, width, scroll>>
    PROVE  ScreenOK'
  BY DEF ScreenOK, visual

(* pushUndo, commitLines and ensureCursorVisible.                          *)
LEMMA CommitFacts ==
    ASSUME EditAssumptions, EditInv, NEW t \in AllTexts, NEW p \in Positions(t), Commit(t, p),
           width' = width
    PROVE  /\ lines' = t /\ cursor' = p /\ UndoOK' /\ ScreenOK' /\ EditRecorded
  <1> DEFINE record == [lines |-> lines, cursor |-> cursor]
             old == IF Len(undo) >= MaxUndo THEN Tail(undo) ELSE undo
  <1>1. /\ lines' = t /\ cursor' = p /\ scroll' = Followed(t, p)
        /\ undo' = Append(old, record)
    BY DEF Commit
  <1>2. record \in UndoRecords /\ record.lines = lines /\ record.cursor = cursor
    <2>1. lines \in AllTexts /\ cursor \in Positions(lines)
      BY DEF EditInv, TextOK
    <2>2. cursor \in Nat \X Nat
      <3>1. /\ cursor = <<cursor[1], cursor[2]>> /\ cursor[1] \in 1 .. Len(lines)
            /\ cursor[2] \in 0 .. Len(lines[cursor[1]])
        BY <2>1, PositionIs
      <3>2. cursor[1] \in Nat /\ cursor[2] \in Nat
        BY <3>1
      <3> QED
        BY <3>1, <3>2
    <2> QED
      BY <2>1, <2>2 DEF UndoRecords
  <1> HIDE DEF record
  <1>3. /\ undo \in Seq(UndoRecords) /\ Len(undo) \in Nat /\ Len(undo) <= MaxUndo
        /\ MaxUndo \in Nat \ {0}
    BY LenProperties DEF EditInv, UndoOK, EditAssumptions, EditorAssumption
  <1>4. old \in Seq(UndoRecords) /\ Len(old) \in Nat /\ Len(old) < MaxUndo
    <2>1. CASE Len(undo) >= MaxUndo
      <3>1. undo # <<>>
        BY <1>3, <2>1, EmptySeq
      <3>2. Tail(undo) \in Seq(UndoRecords) /\ Len(Tail(undo)) = Len(undo) - 1
        BY <1>3, <3>1, HeadTailProperties
      <3>3. old = Tail(undo)
        BY <2>1
      <3> HIDE DEF old
      <3> QED
        BY <1>3, <2>1, <3>2, <3>3
    <2>2. CASE ~(Len(undo) >= MaxUndo)
      BY <1>3, <2>2
    <2> QED
      BY <2>1, <2>2
  <1> HIDE DEF old
  <1>5. /\ undo' \in Seq(UndoRecords) /\ Len(undo') = Len(old) + 1
        /\ undo'[Len(old) + 1] = record
    BY <1>1, <1>2, <1>4, AppendProperties
  <1>6. UndoOK'
    BY <1>3, <1>4, <1>5 DEF UndoOK
  <1>7. Last(undo') = record /\ undo' # <<>>
    BY <1>4, <1>5, EmptySeq DEF Last
  <1>8. EditRecorded
    BY <1>2, <1>7 DEF EditRecorded
  <1>9. ScreenOK'
    <2>1. scroll' \in 0 .. ScrollLimit(Rows(t, width), visible) /\ width \in Widths
      BY <1>1, FollowedFacts, ScrollIsNat DEF EditInv
    <2> QED
      BY <1>1, <2>1 DEF ScreenOK, visual, visible
  <1> QED
    BY <1>1, <1>6, <1>8, <1>9

(* The ends of a selection that is used.                                   *)
LEMMA SelectionEnds ==
    ASSUME EditInv, hasSelection, ~Stray
    PROVE  /\ anchor \in Positions(lines) /\ head \in Positions(lines)
           /\ From \in Positions(lines) /\ To \in Positions(lines) /\ ~Before(To, From)
  <1>1. /\ lines \in AllTexts /\ anchor \in Positions(lines) /\ head \in Positions(lines)
    BY DEF EditInv, TextOK, SelectionOK, Stray
  <1> QED
    BY <1>1, EndsFacts DEF From, To

LEMMA ReplaceFacts ==
    ASSUME EditAssumptions, EditInv, ~Stray, NEW piece \in AllTexts, Replace(piece),
           width' = width
    PROVE  /\ lines' \in AllTexts /\ cursor' \in Positions(lines')
           /\ UndoOK' /\ ScreenOK' /\ EditRecorded
           /\ ~hasSelection => Len(lines') >= Len(lines)
  <1> DEFINE t == IF hasSelection THEN CutOut(lines, From, To) ELSE lines
             p == IF hasSelection THEN From ELSE cursor
  <1>1. t \in AllTexts /\ p \in Positions(t)
    <2>1. lines \in AllTexts /\ cursor \in Positions(lines)
      BY DEF EditInv, TextOK
    <2>2. CASE hasSelection
      BY <2>1, <2>2, SelectionEnds, CutOutFacts
    <2>3. CASE ~hasSelection
      BY <2>1, <2>3
    <2> QED
      BY <2>2, <2>3
  <1>2. Commit(Inserted(t, p, piece), EndOf(p, piece)) /\ (~hasSelection => t = lines)
    BY DEF Replace
  <1> HIDE DEF t, p
  <1>3. /\ Inserted(t, p, piece) \in AllTexts
        /\ EndOf(p, piece) \in Positions(Inserted(t, p, piece))
        /\ Len(Inserted(t, p, piece)) >= Len(t)
    BY <1>1, InsertedFacts
  <1>4. /\ lines' = Inserted(t, p, piece) /\ cursor' = EndOf(p, piece)
        /\ UndoOK' /\ ScreenOK' /\ EditRecorded
    BY <1>2, <1>3, CommitFacts
  <1> QED
    BY <1>2, <1>3, <1>4

(* A text that does not lose lines keeps the line of the anchor.           *)
LEMMA LinesStay ==
    ASSUME EditInv, lines' \in AllTexts, Len(lines') >= Len(lines),
           NEW l \in DOMAIN lines
    PROVE  l \in DOMAIN lines'
  <1>1. lines \in AllTexts
    BY DEF EditInv, TextOK
  <1>2. DOMAIN lines = 1 .. Len(lines) /\ Len(lines) \in Nat
    BY <1>1, TextFacts
  <1>3. DOMAIN lines' = 1 .. Len(lines') /\ Len(lines') \in Nat
    BY TextFacts
  <1> QED
    BY <1>2, <1>3

LEMMA SelectionReplacedFacts ==
    ASSUME EditInv, SelectionReplaced, mouse' = mouse, lines' \in AllTexts,
           ~hasSelection => Len(lines') >= Len(lines)
    PROVE  SelectionOK'
  <1>1. /\ hasSelection' = FALSE /\ shiftSelecting' = (shiftSelecting /\ ~hasSelection)
        /\ UNCHANGED <<anchor, head, shiftHeld>>
    BY DEF SelectionReplaced
  <1>2. /\ hasSelection \in BOOLEAN /\ shiftHeld \in BOOLEAN /\ shiftSelecting \in BOOLEAN
        /\ mouse \in {"up", "text", "track", "thumb", "drag"}
        /\ shiftSelecting => anchor[1] \in DOMAIN lines
    BY DEF EditInv, SelectionOK
  <1>3. ASSUME shiftSelecting'  PROVE anchor'[1] \in DOMAIN lines'
    BY <1>1, <1>2, <1>3, LinesStay
  <1> QED
    BY <1>1, <1>2, <1>3 DEF SelectionOK

(* Nothing is selected any more. *)
Unselected ==
    hasSelection' = FALSE /\ shiftSelecting' = FALSE /\ shiftHeld' = FALSE

LEMMA UnselectedFacts ==
    ASSUME Unselected, mouse' \in {"up", "text", "track", "thumb", "drag"}
    PROVE  SelectionOK'
  BY DEF Unselected, SelectionOK

LEMMA TypedRuneKeeps ==
    ASSUME EditAssumptions, EditInv, ~Stray, NEW ch \in Chars, TypedRune(ch)
    PROVE  EditInv' /\ EditRecorded
  <1>1. << <<ch>> >> \in AllTexts
    <2> DEFINE x == <<ch>>
    <2>1. x \in Seq(Runes)
      BY DEF EditAssumptions, EditorAssumption
    <2> HIDE DEF x
    <2>2. <<x>> \in Seq(Seq(Runes)) /\ <<x>> # <<>>
      BY <2>1
    <2> QED
      BY <2>2 DEF AllTexts, x
  <1>2. Replace(<< <<ch>> >>) /\ SelectionReplaced /\ UNCHANGED <<width, mouse, clipboard>>
    BY DEF TypedRune
  <1>3. /\ lines' \in AllTexts /\ cursor' \in Positions(lines')
        /\ UndoOK' /\ ScreenOK' /\ EditRecorded
        /\ ~hasSelection => Len(lines') >= Len(lines)
    BY <1>1, <1>2, ReplaceFacts
  <1>4. SelectionOK'
    BY <1>2, <1>3, SelectionReplacedFacts
  <1> QED
    BY <1>2, <1>3, <1>4 DEF EditInv, TextOK

LEMMA PasteKeeps ==
    ASSUME EditAssumptions, EditInv, ~Stray, Paste
    PROVE  EditInv' /\ EditRecorded
  <1>1. Replace(clipboard) /\ SelectionReplaced /\ UNCHANGED <<width, mouse, clipboard>>
        /\ clipboard \in AllTexts
    BY DEF Paste, EditInv, TextOK
  <1>2. /\ lines' \in AllTexts /\ cursor' \in Positions(lines')
        /\ UndoOK' /\ ScreenOK' /\ EditRecorded
        /\ ~hasSelection => Len(lines') >= Len(lines)
    BY <1>1, ReplaceFacts
  <1>3. SelectionOK'
    BY <1>1, <1>2, SelectionReplacedFacts
  <1> QED
    BY <1>1, <1>2, <1>3 DEF EditInv, TextOK

LEMMA KeyReturnKeeps ==
    ASSUME EditAssumptions, EditInv, ~Stray, KeyReturn
    PROVE  EditInv' /\ EditRecorded
  <1>1. << <<>>, <<>> >> \in AllTexts
    BY DEF AllTexts
  <1>2. Replace(<< <<>>, <<>> >>) /\ CancelShift /\ UNCHANGED <<width, mouse, clipboard>>
    BY DEF KeyReturn
  <1>3. /\ lines' \in AllTexts /\ cursor' \in Positions(lines')
        /\ UndoOK' /\ ScreenOK' /\ EditRecorded
    BY <1>1, <1>2, ReplaceFacts
  <1>4. SelectionOK'
    BY <1>2, UnselectedFacts DEF CancelShift, Unselected, EditInv, SelectionOK
  <1> QED
    BY <1>2, <1>3, <1>4 DEF EditInv, TextOK

(* Backspace, Delete and what they have in common. *)
LEMMA EraseKeeps ==
    ASSUME EditAssumptions, EditInv, ~Stray, NEW p \in Positions(lines),
           NEW q \in Positions(lines), ~Before(q, p), Erase(p, q)
    PROVE  EditInv' /\ EditRecorded
  <1>1. lines \in AllTexts /\ cursor \in Positions(lines) /\ clipboard \in AllTexts
    BY DEF EditInv, TextOK
  <1>2. CancelShift /\ UNCHANGED <<width, mouse, clipboard>>
    BY DEF Erase
  <1>3. SelectionOK'
    BY <1>2, UnselectedFacts DEF CancelShift, Unselected, EditInv, SelectionOK
  <1>4. ASSUME NEW a \in Positions(lines), NEW b \in Positions(lines), ~Before(b, a),
               Commit(CutOut(lines, a, b), a)
        PROVE  EditInv' /\ EditRecorded
    <2>1. CutOut(lines, a, b) \in AllTexts /\ a \in Positions(CutOut(lines, a, b))
      BY <1>1, <1>4, CutOutFacts
    <2>2. /\ lines' = CutOut(lines, a, b) /\ cursor' = a
          /\ UndoOK' /\ ScreenOK' /\ EditRecorded
      BY <1>2, <1>4, <2>1, CommitFacts
    <2> QED
      BY <1>1, <1>2, <1>3, <2>1, <2>2 DEF EditInv, TextOK
  <1>5. CASE hasSelection
    BY <1>4, <1>5, SelectionEnds DEF Erase
  <1>6. CASE ~hasSelection /\ p # q
    BY <1>4, <1>6 DEF Erase
  <1>7. CASE ~hasSelection /\ p = q
    <2>1. scroll' = Followed(lines, cursor) /\ UNCHANGED <<lines, cursor, undo>>
      BY <1>7 DEF Erase
    <2>2. ScreenOK'
      <3>1. scroll' \in 0 .. ScrollLimit(Rows(lines, width), visible) /\ width \in Widths
        BY <1>1, <2>1, FollowedFacts, ScrollIsNat DEF EditInv
      <3> QED
        BY <1>2, <2>1, <3>1 DEF ScreenOK, visual, visible
    <2> QED
      BY <1>1, <1>2, <1>3, <2>1, <2>2 DEF EditInv, TextOK, UndoOK, EditRecorded
  <1> QED
    BY <1>5, <1>6, <1>7

LEMMA KeyBackspaceKeeps ==
    ASSUME EditAssumptions, EditInv, ~Stray, KeyBackspace \/ KeyDelete
    PROVE  EditInv' /\ EditRecorded
  <1>1. lines \in AllTexts /\ cursor \in Positions(lines)
    BY DEF EditInv, TextOK
  <1> QED
    BY <1>1, StepFacts, EraseKeeps DEF KeyBackspace, KeyDelete

(* Tab, with the lines of the selection or at the cursor. *)
LEMMA IndentSelectionKeeps ==
    ASSUME EditAssumptions, EditInv, ~Stray, IndentSelection, UNCHANGED <<width, mouse, clipboard>>
    PROVE  EditInv' /\ EditRecorded
  <1> DEFINE r == [l \in DOMAIN lines |->
                     IF l \in From[1] .. To[1] THEN indent \o lines[l] ELSE lines[l]]
             c == IF cursor[1] = From[1] THEN Shifted(cursor) ELSE Shifted(To)
  <1>1. /\ hasSelection /\ Commit(r, c)
        /\ anchor' = (IF From[2] > 0 THEN Shifted(From) ELSE From) /\ head' = Shifted(To)
        /\ UNCHANGED <<hasSelection, shiftHeld, shiftSelecting>>
    BY DEF IndentSelection
  <1>2. /\ lines \in AllTexts /\ cursor \in Positions(lines)
        /\ From \in Positions(lines) /\ To \in Positions(lines) /\ ~Before(To, From)
    BY <1>1, SelectionEnds DEF EditInv, TextOK
  <1>3. /\ Len(lines) \in Nat
        /\ From[1] \in 1 .. Len(lines) /\ To[1] \in 1 .. Len(lines) /\ From[1] <= To[1]
    BY <1>2, PositionIs, TextFacts DEF Before
  <1>4. /\ r \in AllTexts /\ Len(r) = Len(lines)
        /\ \A l \in 1 .. Len(lines) :
             Len(r[l]) = IF l \in From[1] .. To[1] THEN TabWidth + Len(lines[l]) ELSE Len(lines[l])
    <2>1. From[1] \in Nat /\ To[1] \in Nat
      BY <1>3
    <2> QED
      BY <1>2, <2>1, IndentedFacts, Zenon DEF EditAssumptions
  <1> HIDE DEF r
  <1>5. ASSUME NEW p \in Positions(lines), p[1] \in From[1] .. To[1]
        PROVE  Shifted(p) \in Positions(r)
    <2>1. /\ p[1] \in 1 .. Len(lines) /\ p[2] \in 0 .. Len(lines[p[1]]) /\ Len(lines[p[1]]) \in Nat
      BY <1>2, PositionIs, TextFacts
    <2>2. Len(r[p[1]]) = TabWidth + Len(lines[p[1]]) /\ TabWidth \in Nat
      BY <1>4, <1>5, <2>1 DEF EditAssumptions, EditorAssumption
    <2>3. p[2] + TabWidth \in 0 .. Len(r[p[1]]) /\ p[1] \in 1 .. Len(r)
      BY <1>4, <2>1, <2>2
    <2> QED
      BY <1>4, <2>3, PositionIs DEF Shifted
  <1>6. Shifted(From) \in Positions(r) /\ Shifted(To) \in Positions(r)
    BY <1>2, <1>3, <1>5
  <1>7. c \in Positions(r)
    BY <1>2, <1>3, <1>5
  <1> HIDE DEF c
  <1>8. /\ lines' = r /\ cursor' = c /\ UndoOK' /\ ScreenOK' /\ EditRecorded
    BY <1>1, <1>4, <1>7, CommitFacts
  <1>9. anchor'[1] \in DOMAIN lines' /\ head' \in Positions(lines')
    <2>1. anchor'[1] = From[1]
      BY <1>1 DEF Shifted
    <2>2. DOMAIN r = 1 .. Len(r)
      BY <1>4, TextFacts
    <2> QED
      BY <1>1, <1>3, <1>4, <1>6, <1>8, <2>1, <2>2
  <1>10. SelectionOK'
    <2>1. SelectionOK
      BY DEF EditInv
    <2> QED
      BY <1>1, <1>9, <2>1 DEF SelectionOK
  <1> QED
    BY <1>4, <1>7, <1>8, <1>10 DEF EditInv, TextOK

LEMMA KeyTabKeeps ==
    ASSUME EditAssumptions, EditInv, ~Stray, KeyTab
    PROVE  EditInv' /\ EditRecorded
  <1>1. UNCHANGED <<width, mouse, clipboard>>
    BY DEF KeyTab
  <1>2. CASE IndentSelection
    BY <1>1, <1>2, IndentSelectionKeeps
  <1>3. CASE ~hasSelection /\ Replace(<< indent >>) /\ UNCHANGED selVars
    <2>1. << indent >> \in AllTexts
      <3>1. TabWidth \in Nat /\ Blank \in Runes
        BY DEF EditAssumptions, EditorAssumption, WidgetAssumption
      <3>2. indent \in Seq(Runes)
        BY <3>1 DEF indent
      <3> DEFINE x == indent
      <3> HIDE DEF x
      <3>3. <<x>> \in Seq(Seq(Runes)) /\ <<x>> # <<>>
        BY <3>2 DEF x
      <3> QED
        BY <3>3 DEF AllTexts, x
    <2>2. /\ lines' \in AllTexts /\ cursor' \in Positions(lines')
          /\ UndoOK' /\ ScreenOK' /\ EditRecorded /\ Len(lines') >= Len(lines)
      BY <1>1, <1>3, <2>1, ReplaceFacts
    <2>3. /\ hasSelection' = FALSE /\ UNCHANGED <<anchor, shiftHeld, shiftSelecting, mouse>>
          /\ SelectionOK
      BY <1>1, <1>3 DEF selVars, EditInv, SelectionOK
    <2>4. shiftSelecting => anchor[1] \in DOMAIN lines'
      BY <2>2, <2>3, LinesStay DEF SelectionOK
    <2>5. SelectionOK'
      BY <2>3, <2>4 DEF SelectionOK
    <2> QED
      BY <1>1, <2>2, <2>5 DEF EditInv, TextOK
  <1> QED
    BY <1>2, <1>3 DEF KeyTab

(* Moving the cursor. *)
LEMMA GoToFacts ==
    ASSUME EditAssumptions, EditInv, NEW p \in Positions(lines), GoTo(p)
    PROVE  /\ TextOK' /\ UndoOK' /\ ScreenOK' /\ EditRecorded
           /\ cursor' = p /\ UNCHANGED <<lines, mouse>>
  <1>1. /\ cursor' = p /\ scroll' = Followed(lines, p)
        /\ UNCHANGED <<lines, undo, width, mouse, clipboard>>
    BY DEF GoTo
  <1>2. lines \in AllTexts
    BY DEF EditInv, TextOK
  <1>3. scroll' \in 0 .. ScrollLimit(Rows(lines, width), visible) /\ width \in Widths
    BY <1>1, <1>2, FollowedFacts, ScrollIsNat DEF EditInv
  <1>4. ScreenOK'
    BY <1>1, <1>3 DEF ScreenOK, visual, visible
  <1> QED
    BY <1>1, <1>4 DEF EditInv, TextOK, UndoOK, EditRecorded

LEMMA ExtendKeeps ==
    ASSUME EditAssumptions, EditInv, NEW p \in Positions(lines), Extend(p)
    PROVE  EditInv' /\ EditRecorded
  <1>1. /\ anchor' = (IF shiftSelecting THEN anchor ELSE cursor)
        /\ shiftSelecting' = TRUE /\ head' = p /\ hasSelection' = (anchor' # p)
        /\ GoTo(p) /\ UNCHANGED shiftHeld
    BY DEF Extend
  <1>2. /\ TextOK' /\ UndoOK' /\ ScreenOK' /\ EditRecorded
        /\ cursor' = p /\ UNCHANGED <<lines, mouse>>
    BY <1>1, GoToFacts
  <1>3. cursor[1] \in DOMAIN lines
    BY PositionIs, TextFacts DEF EditInv, TextOK
  <1>4. SelectionOK
    BY DEF EditInv
  <1>5. anchor'[1] \in DOMAIN lines'
    BY <1>1, <1>2, <1>3, <1>4 DEF SelectionOK
  <1>6. SelectionOK'
    BY <1>1, <1>2, <1>4, <1>5 DEF SelectionOK
  <1> QED
    BY <1>2, <1>6 DEF EditInv

LEMMA GoneKeeps ==
    ASSUME EditAssumptions, EditInv, NEW p \in Positions(lines), GoTo(p), CancelShift
    PROVE  EditInv' /\ EditRecorded
  <1>1. /\ TextOK' /\ UndoOK' /\ ScreenOK' /\ EditRecorded
        /\ cursor' = p /\ UNCHANGED <<lines, mouse>>
    BY GoToFacts
  <1>2. SelectionOK'
    BY <1>1, UnselectedFacts DEF CancelShift, Unselected, EditInv, SelectionOK
  <1> QED
    BY <1>1, <1>2 DEF EditInv

LEMMA MoveKeeps ==
    ASSUME EditAssumptions, EditInv, NEW p \in Positions(lines), MoveTo(p)
    PROVE  EditInv' /\ EditRecorded
  BY ExtendKeeps, GoneKeeps DEF MoveTo

LEMMA SidewaysKeeps ==
    ASSUME EditAssumptions, EditInv, NEW p \in Positions(lines), NEW q,
           hasSelection => q \in Positions(lines), Sideways(p, q)
    PROVE  EditInv' /\ EditRecorded
  <1>1. CASE Extend(p)
    BY <1>1, ExtendKeeps
  <1>2. CASE ~shiftHeld /\ hasSelection /\ GoTo(q) /\ CancelShift
    BY <1>2, GoneKeeps
  <1>3. CASE ~shiftHeld /\ ~hasSelection /\ GoTo(p) /\ UNCHANGED selVars
    <2>1. /\ TextOK' /\ UndoOK' /\ ScreenOK' /\ EditRecorded
          /\ cursor' = p /\ UNCHANGED <<lines, mouse>>
      BY <1>3, GoToFacts
    <2>2. SelectionOK'
      BY <1>3, <2>1 DEF selVars, EditInv, SelectionOK
    <2> QED
      BY <2>1, <2>2 DEF EditInv
  <1> QED
    BY <1>1, <1>2, <1>3 DEF Sideways

LEMMA PageKeeps ==
    ASSUME EditAssumptions, EditInv, NEW by \in Int, Page(by)
    PROVE  EditInv' /\ EditRecorded
  <1> DEFINE n == Len(visual)
             v == Max({1, Min({RowOf(visual, cursor) + by, n})})
  <1>1. RowsOfText(lines, visual) /\ lines \in AllTexts /\ cursor \in Positions(lines)
    BY ScrollIsNat DEF EditInv, TextOK
  <1>2. n \in Nat \ {0} /\ RowOf(visual, cursor) \in 1 .. n
    BY <1>1, RowOfFacts DEF RowsOfText
  <1>3. GoTo(<<visual[v].line, visual[v].off>>) /\ CancelShift
    BY DEF Page
  <1>4. v \in 1 .. n
    <2> DEFINE x == RowOf(visual, cursor) + by
               m == Min({x, n})
    <2>1. x \in Int /\ n \in Int
      <3> HIDE DEF n
      <3> QED
        BY <1>2
    <2>2. m = IF x <= n THEN x ELSE n
      <3> HIDE DEF x, n
      <3> QED
        BY <2>1, PairMin
    <2>3. m \in Int /\ m <= n
      <3> HIDE DEF x, n, m
      <3> QED
        BY <2>1, <2>2
    <2>4. v = IF 1 <= m THEN m ELSE 1
      <3> HIDE DEF x, n, m
      <3>1. Max({1, m}) = IF 1 <= m THEN m ELSE 1
        BY <2>3, PairMax
      <3> QED
        BY <3>1 DEF x, n, m
    <2> HIDE DEF x, n, m, v
    <2> QED
      BY <1>2, <2>3, <2>4
  <1> HIDE DEF v
  <1>5. <<visual[v].line, visual[v].off>> \in Positions(lines)
    BY <1>1, <1>4, RowStart
  <1> QED
    BY <1>3, <1>5, GoneKeeps

LEMMA MovingKeeps ==
    ASSUME EditAssumptions, EditInv, Moving
    PROVE  EditInv' /\ EditRecorded
  <1>1. ~Stray /\ lines \in AllTexts /\ cursor \in Positions(lines)
    BY DEF Moving, EditInv, TextOK
  <1>2. /\ cursor[1] \in 1 .. Len(lines) /\ Len(lines) \in Nat
        /\ \A l \in 1 .. Len(lines) : Len(lines[l]) \in Nat
    BY <1>1, PositionIs, TextFacts
  <1>3. /\ Previous(lines, cursor) \in Positions(lines)
        /\ Following(lines, cursor) \in Positions(lines)
        /\ \A l \in 1 .. Len(lines) : OnLine(lines, cursor, l) \in Positions(lines)
    BY <1>1, StepFacts
  <1>4. hasSelection => From \in Positions(lines) /\ To \in Positions(lines)
    BY <1>1, SelectionEnds
  <1>5. CASE KeyLeft
    BY <1>3, <1>4, <1>5, SidewaysKeeps DEF KeyLeft
  <1>6. CASE KeyRight
    BY <1>3, <1>4, <1>6, SidewaysKeeps DEF KeyRight
  <1>7. CASE KeyUp
    <2>1. CASE cursor[1] > 1
      <3>1. cursor[1] - 1 \in 1 .. Len(lines)
        BY <1>2, <2>1
      <3> QED
        BY <1>3, <1>7, <2>1, <3>1, MoveKeeps DEF KeyUp
    <2>2. CASE ~(cursor[1] > 1)
      BY <1>1, <1>7, <2>2, MoveKeeps DEF KeyUp
    <2> QED
      BY <2>1, <2>2
  <1>8. CASE KeyDown
    <2>1. CASE cursor[1] < Len(lines)
      <3>1. cursor[1] + 1 \in 1 .. Len(lines)
        BY <1>2, <2>1
      <3> QED
        BY <1>3, <1>8, <2>1, <3>1, MoveKeeps DEF KeyDown
    <2>2. CASE ~(cursor[1] < Len(lines))
      BY <1>1, <1>8, <2>2, MoveKeeps DEF KeyDown
    <2> QED
      BY <2>1, <2>2
  <1>9. /\ <<cursor[1], 0>> \in Positions(lines)
        /\ <<cursor[1], Len(lines[cursor[1]])>> \in Positions(lines)
    <2>1. 0 \in 0 .. Len(lines[cursor[1]]) /\ Len(lines[cursor[1]]) \in 0 .. Len(lines[cursor[1]])
      BY <1>2
    <2> QED
      BY <1>1, <1>2, <2>1, PositionIs
  <1>10. CASE KeyHome
    BY <1>9, <1>10, MoveKeeps DEF KeyHome
  <1>11. CASE KeyEnd
    BY <1>9, <1>11, MoveKeeps DEF KeyEnd
  <1>12. visible \in Int /\ -visible \in Int
    <2>1. width \in Widths
      BY DEF EditInv, ScreenOK
    <2> QED
      BY <1>1, <2>1, ScreenFacts
  <1>13. CASE KeyPageUp
    BY <1>12, <1>13, PageKeeps DEF KeyPageUp
  <1>14. CASE KeyPageDown
    BY <1>12, <1>14, PageKeeps DEF KeyPageDown
  <1> QED
    BY <1>5, <1>6, <1>7, <1>8, <1>10, <1>11, <1>13, <1>14 DEF Moving

LEMMA TypingKeeps ==
    ASSUME EditAssumptions, EditInv, Typing
    PROVE  EditInv' /\ EditRecorded
  BY TypedRuneKeeps, KeyReturnKeeps, KeyBackspaceKeeps, KeyTabKeeps DEF Typing

(* Copy, Cut and Paste. *)
LEMMA ClippingKeeps ==
    ASSUME EditAssumptions, EditInv, Clipping
    PROVE  EditInv' /\ EditRecorded
  <1>1. ~Stray /\ lines \in AllTexts
    BY DEF Clipping, EditInv, TextOK
  <1>2. ASSUME hasSelection
        PROVE  /\ Piece(lines, From, To) \in AllTexts
               /\ CutOut(lines, From, To) \in AllTexts
               /\ From \in Positions(CutOut(lines, From, To))
    BY <1>1, <1>2, SelectionEnds, SelectedIsText, CutOutFacts
  <1>3. CASE Copy
    <2>1. /\ clipboard' \in AllTexts
          /\ UNCHANGED <<lines, cursor, selVars, undo, scroll, width, mouse>>
      BY <1>2, <1>3 DEF Copy
    <2> QED
      BY <2>1, ScreenStays DEF selVars, EditInv, TextOK, UndoOK, SelectionOK, EditRecorded
  <1>4. CASE Cut
    <2>1. /\ clipboard' \in AllTexts /\ hasSelection
          /\ CutOut(lines, From, To) \in AllTexts /\ From \in Positions(CutOut(lines, From, To))
          /\ Commit(CutOut(lines, From, To), From) /\ SelectionReplaced
          /\ UNCHANGED <<width, mouse>>
      BY <1>2, <1>4 DEF Cut
    <2>2. /\ lines' = CutOut(lines, From, To) /\ cursor' = From
          /\ UndoOK' /\ ScreenOK' /\ EditRecorded
      BY <2>1, CommitFacts
    <2>3. SelectionOK'
      BY <2>1, <2>2, SelectionReplacedFacts
    <2> QED
      BY <2>1, <2>2, <2>3 DEF EditInv, TextOK
  <1>5. CASE Paste
    BY <1>1, <1>5, PasteKeeps
  <1> QED
    BY <1>3, <1>4, <1>5 DEF Clipping

(* One Undo. *)
LEMMA UndoKeeps ==
    ASSUME EditAssumptions, EditInv, Undo
    PROVE  EditInv' /\ EditRecorded
  <1>1. /\ undo # <<>> /\ lines' = Last(undo).lines /\ cursor' = Last(undo).cursor
        /\ undo' = Front(undo) /\ Unselected
        /\ scroll' = Settled(scroll, lines', width)
        /\ UNCHANGED <<width, mouse, clipboard>>
    BY DEF Undo, Unselected
  <1>2. undo \in Seq(UndoRecords) /\ Len(undo) \in Nat \ {0} /\ Len(undo) <= MaxUndo /\ MaxUndo \in Nat
    BY <1>1, LenProperties, EmptySeq
       DEF EditInv, UndoOK, EditAssumptions, EditorAssumption
  <1>3. Last(undo) \in UndoRecords
    <2>1. Len(undo) \in 1 .. Len(undo)
      BY <1>2
    <2> QED
      BY <1>2, <2>1, ElementOfSeq DEF Last
  <1>4. Front(undo) \in Seq(UndoRecords) /\ Len(Front(undo)) = Len(undo) - 1
    <2>1. \A k \in 1 .. Len(undo) : undo[k] \in UndoRecords
      BY <1>2, ElementOfSeq
    <2>2. Front(undo) = SubSeq(undo, 1, Len(undo) - 1)
      BY DEF Front
    <2> DEFINE n == Len(undo)
    <2>3. n \in Nat \ {0} /\ \A k \in 1 .. n - 1 : undo[k] \in UndoRecords
      BY <1>2, <2>1
    <2> HIDE DEF n
    <2>4. /\ SubSeq(undo, 1, n - 1) \in Seq(UndoRecords)
          /\ Len(SubSeq(undo, 1, n - 1)) = IF 1 <= n - 1 THEN n - 1 - 1 + 1 ELSE 0
      BY <2>3, SubSeqProperties
    <2>5. Len(SubSeq(undo, 1, n - 1)) = n - 1
      BY <2>3, <2>4
    <2> QED
      BY <2>2, <2>4, <2>5 DEF n
  <1>5. UndoOK'
    BY <1>1, <1>2, <1>4 DEF UndoOK
  <1>6. lines' \in AllTexts /\ cursor' \in Positions(lines')
    BY <1>1, <1>3 DEF UndoRecords
  <1>7. ScreenOK'
    <2>1. scroll' \in 0 .. ScrollLimit(Rows(lines', width), visible) /\ width \in Widths
      BY <1>1, <1>6, ScrollIsNat, SettledFacts
    <2> QED
      BY <1>1, <2>1 DEF ScreenOK, visual, visible
  <1>8. SelectionOK'
    BY <1>1, UnselectedFacts DEF EditInv, SelectionOK
  <1> QED
    BY <1>1, <1>5, <1>6, <1>7, <1>8 DEF EditInv, TextOK, EditRecorded

(* Shift, and the loss of the focus. *)
LEMMA ShiftingKeeps ==
    ASSUME EditInv, Shifting
    PROVE  EditInv' /\ EditRecorded
  <1>1. /\ UNCHANGED <<lines, cursor, anchor, head, hasSelection>>
        /\ UNCHANGED <<undo, scroll, width, mouse, clipboard>>
        /\ shiftHeld' \in BOOLEAN /\ shiftSelecting' \in BOOLEAN
        /\ shiftSelecting' => shiftSelecting
    <2>1. shiftHeld \in BOOLEAN /\ shiftSelecting \in BOOLEAN
      BY DEF EditInv, SelectionOK
    <2>2. CASE ShiftDown
      BY <2>1, <2>2, Zenon DEF ShiftDown
    <2>3. CASE ShiftUp
      BY <2>1, <2>3, Zenon DEF ShiftUp
    <2>4. CASE FocusLost
      <3>1. /\ shiftHeld' = FALSE /\ shiftSelecting' = (shiftSelecting /\ mouse = "drag")
            /\ UNCHANGED <<lines, cursor, anchor, head, hasSelection>>
            /\ UNCHANGED <<undo, scroll, width, mouse, clipboard>>
        BY <2>4 DEF FocusLost
      <3>2. shiftSelecting' \in BOOLEAN /\ (shiftSelecting' => shiftSelecting)
        BY <2>1, <3>1, Zenon
      <3> QED
        BY <2>1, <3>1, <3>2, Zenon
    <2> QED
      BY <2>2, <2>3, <2>4 DEF Shifting
  <1>2. SelectionOK'
    BY <1>1 DEF EditInv, SelectionOK
  <1> QED
    BY <1>1, <1>2, ScreenStays DEF EditInv, TextOK, UndoOK, EditRecorded

(* Where the pointer is, there is a position. *)
LEMMA PointedFacts ==
    ASSUME EditAssumptions, EditInv
    PROVE  OnScreen \subseteq Positions(lines) /\ NearScreen \subseteq Positions(lines)
  <1>1. /\ scroll \in Nat /\ width \in Nat /\ Height \in Nat
        /\ RowsOfText(lines, visual) /\ lines \in AllTexts
    BY ScrollIsNat DEF EditInv, TextOK, EditAssumptions, EditorAssumption, WidgetAssumption
  <1>2. ASSUME NEW ys, ys \subseteq Int  PROVE Pointed(ys) \subseteq Positions(lines)
    <2>1. ASSUME NEW y \in ys, NEW x \in 0 .. width
          PROVE  PositionAt(visual, scroll, y, x) \in Positions(lines)
      <3>1. y \in Int /\ x \in Nat /\ scroll \in Int
        BY <1>1, <1>2
      <3> QED
        BY <1>1, <3>1, PositionAtFacts
    <2>2. \A p \in Pointed(ys) : \E y \in ys, x \in 0 .. width : p = PositionAt(visual, scroll, y, x)
      BY DEF Pointed
    <2> QED
      BY <2>1, <2>2, Zenon
  <1>3. 0 .. Height \subseteq Int /\ -1 .. Height + 1 \subseteq Int
    BY <1>1
  <1> QED
    BY <1>2, <1>3 DEF OnScreen, NearScreen

LEMMA PointingKeeps ==
    ASSUME EditAssumptions, EditInv, Pointing
    PROVE  EditInv' /\ EditRecorded
  <1>1. lines \in AllTexts /\ cursor \in Positions(lines) /\ SelectionOK
    BY DEF EditInv, TextOK
  <1>2. ASSUME NEW p \in Positions(lines), PressText(p)  PROVE EditInv' /\ EditRecorded
    <2>1. /\ mouse' = "text" /\ cursor' = p /\ Unselected
          /\ scroll' = Settled(scroll, lines, width)
          /\ UNCHANGED <<lines, undo, width, clipboard>>
      BY <1>2 DEF PressText, Unselected
    <2>2. scroll' \in 0 .. ScrollLimit(Rows(lines, width), visible) /\ width \in Widths
      BY <1>1, <2>1, ScrollIsNat, SettledFacts
    <2>3. ScreenOK'
      BY <2>1, <2>2 DEF ScreenOK, visual, visible
    <2>4. SelectionOK'
      BY <2>1, UnselectedFacts
    <2> QED
      BY <2>1, <2>3, <2>4 DEF EditInv, TextOK, UndoOK, EditRecorded
  <1>3. ASSUME NEW p \in Positions(lines), EditorDragged(p)  PROVE EditInv' /\ EditRecorded
    <2>1. /\ mouse' = "drag" /\ head' = p /\ cursor' = p /\ hasSelection' = (anchor # p)
          /\ UNCHANGED <<anchor, shiftHeld, shiftSelecting>>
          /\ UNCHANGED <<lines, undo, scroll, width, clipboard>>
      BY <1>3 DEF EditorDragged
    <2>2. SelectionOK'
      BY <1>1, <2>1 DEF SelectionOK
    <2> QED
      BY <2>1, <2>2, ScreenStays DEF EditInv, TextOK, UndoOK, EditRecorded
  <1>4. CASE PressScrollbar
    <2>1. /\ mouse = "up" /\ mouse' \in {"track", "thumb"}
          /\ UNCHANGED <<lines, cursor, selVars, undo, scroll, width, clipboard>>
      BY <1>4 DEF PressScrollbar
    <2>2. SelectionOK'
      BY <1>1, <2>1 DEF SelectionOK, selVars
    <2> QED
      BY <2>1, <2>2, ScreenStays DEF EditInv, TextOK, UndoOK, EditRecorded
  <1>5. CASE ~Stray /\ Release
    <2>1. /\ mouse' = "up"
          /\ UNCHANGED <<lines, cursor, selVars, undo, scroll, width, clipboard>>
      BY <1>5 DEF Release
    <2>2. hasSelection => anchor[1] \in DOMAIN lines
      BY <1>1, <1>5, PositionIs, TextFacts DEF Stray
    <2>3. SelectionOK'
      BY <1>1, <2>1, <2>2 DEF SelectionOK, selVars
    <2> QED
      BY <2>1, <2>3, ScreenStays DEF EditInv, TextOK, UndoOK, EditRecorded
  <1> QED
    BY <1>2, <1>3, <1>4, <1>5, PointedFacts DEF Pointing

LEMMA ScrollingKeeps ==
    ASSUME EditAssumptions, EditInv, Scrolling
    PROVE  EditInv' /\ EditRecorded
  <1>1. /\ lines \in AllTexts /\ width \in Widths /\ scroll \in Nat /\ Height \in Nat
        /\ ScrollLimit(visual, visible) \in Nat /\ Len(visual) \in Nat
    BY ScrollIsNat, ScreenFacts DEF EditInv, TextOK, EditAssumptions, WidgetAssumption, visual
  <1>2. ASSUME scroll' \in 0 .. ScrollLimit(visual, visible),
               UNCHANGED <<lines, cursor, selVars, undo, width, mouse, clipboard>>
        PROVE  EditInv' /\ EditRecorded
    <2>1. ScreenOK'
      BY <1>1, <1>2 DEF ScreenOK, visual, visible
    <2> QED
      BY <1>2, <2>1 DEF selVars, EditInv, TextOK, UndoOK, SelectionOK, EditRecorded
  <1>3. ASSUME NEW offs \in 0 .. Len(visual) - Height, EditorDragThumb(offs)
        PROVE  EditInv' /\ EditRecorded
    <2>1. offs \in Nat
      <3> DEFINE n == Len(visual)
      <3>1. n \in Nat /\ offs \in 0 .. n - Height
        BY <1>1, <1>3
      <3> HIDE DEF n
      <3> QED
        BY <1>1, <3>1
    <2>2. Settled(offs, lines, width) \in 0 .. ScrollLimit(visual, visible)
      BY <1>1, <2>1, SettledFacts DEF visual
    <2> QED
      BY <1>2, <1>3, <2>2 DEF EditorDragThumb
  <1>4. ASSUME NEW by \in {-1, 1}, EditorScrolled(by)  PROVE EditInv' /\ EditRecorded
    <2> DEFINE limit == ScrollLimit(visual, visible)
               x == scroll + by
               m == Min({x, limit})
    <2>1. limit \in Nat
      BY <1>1
    <2>2. x \in Int
      BY <1>1
    <2> HIDE DEF limit, x
    <2>3. m = IF x <= limit THEN x ELSE limit
      BY <2>1, <2>2, PairMin
    <2>4. m \in Int /\ m <= limit
      BY <2>1, <2>2, <2>3
    <2>5. scroll' = Max({0, m})
      BY <1>4 DEF EditorScrolled, limit, x
    <2> HIDE DEF m
    <2>6. scroll' \in 0 .. limit
      BY <2>1, <2>4, <2>5, PairMax
    <2> QED
      BY <1>2, <1>4, <2>6 DEF EditorScrolled, limit
  <1> QED
    BY <1>3, <1>4 DEF Scrolling

(* SelectAll, and a word that is tapped twice. *)
LEMMA SelectingKeeps ==
    ASSUME EditAssumptions, EditInv, Selecting
    PROVE  EditInv' /\ EditRecorded
  <1>1. lines \in AllTexts /\ cursor \in Positions(lines) /\ SelectionOK
    BY DEF EditInv, TextOK
  <1>2. /\ Len(lines) \in Nat \ {0} /\ DOMAIN lines = 1 .. Len(lines)
        /\ \A l \in 1 .. Len(lines) : Len(lines[l]) \in Nat /\ lines[l] \in Seq(Runes)
    BY <1>1, TextFacts
  <1>3. CASE SelectAll
    <2>1. /\ anchor' = <<1, 0>> /\ head' = EndOfText(lines) /\ hasSelection' = TRUE
          /\ UNCHANGED <<lines, cursor, shiftHeld, shiftSelecting>>
          /\ UNCHANGED <<undo, scroll, width, mouse, clipboard>>
      BY <1>3 DEF SelectAll
    <2>2. head' \in Positions(lines) /\ anchor'[1] \in DOMAIN lines
      BY <1>1, <1>2, <2>1, EndOfTextFacts
    <2>3. SelectionOK'
      BY <1>1, <2>1, <2>2 DEF SelectionOK
    <2> QED
      BY <2>1, <2>3, ScreenStays DEF EditInv, TextOK, UndoOK, EditRecorded
  <1>4. ASSUME NEW p \in Positions(lines), DoubleTapped(p)  PROVE EditInv' /\ EditRecorded
    <2> DEFINE line == lines[p[1]]
               c == Min({p[2], Len(line) - 1})
               word == Word(line, c)
    <2>1. /\ line # <<>>
          /\ anchor' = <<p[1], word[1]>> /\ head' = <<p[1], word[2]>>
          /\ cursor' = <<p[1], word[2]>> /\ hasSelection' = (word[1] # word[2])
          /\ UNCHANGED <<shiftHeld, shiftSelecting>>
          /\ UNCHANGED <<lines, undo, scroll, width, mouse, clipboard>>
      BY <1>4, Zenon DEF DoubleTapped
    <2>2. /\ p[1] \in 1 .. Len(lines) /\ p[2] \in 0 .. Len(line) /\ line \in Seq(Runes)
      BY <1>1, <1>2, PositionIs
    <2>3. Len(line) \in Nat \ {0}
      BY <1>2, <2>1, <2>2, EmptySeq
    <2> HIDE DEF line
    <2>4. c \in 0 .. Len(line)
      BY <2>2, <2>3, PairMin
    <2> HIDE DEF c
    <2>5. word[2] \in 0 .. Len(line)
      <3> DEFINE a == word[1]
                 b == word[2]
      <3>1. b \in c .. Len(line)
        BY <2>3, <2>4, WordFacts
      <3> HIDE DEF b
      <3>2. b \in 0 .. Len(line)
        BY <2>3, <2>4, <3>1
      <3> QED
        BY <3>2 DEF b
    <2> HIDE DEF word
    <2>6. <<p[1], word[2]>> \in Positions(lines)
      BY <1>1, <2>2, <2>5, PositionIs DEF line
    <2>7. anchor'[1] \in DOMAIN lines
      BY <1>2, <2>1, <2>2
    <2>8. SelectionOK'
      BY <1>1, <2>1, <2>6, <2>7 DEF SelectionOK
    <2> QED
      BY <2>1, <2>6, <2>8, ScreenStays DEF EditInv, TextOK, UndoOK, EditRecorded
  <1> QED
    BY <1>3, <1>4, PointedFacts DEF Selecting

(* The window's size, and another text. *)
LEMMA TabKeeps ==
    ASSUME EditAssumptions, EditInv, Tab
    PROVE  EditInv' /\ EditRecorded
  <1>1. lines \in AllTexts
    BY DEF EditInv, TextOK
  <1>2. ASSUME NEW w \in Widths, Resize(w)  PROVE EditInv' /\ EditRecorded
    <2>1. /\ width' = w /\ scroll' = Settled(scroll, lines, w)
          /\ UNCHANGED <<lines, cursor, selVars, undo, mouse, clipboard>>
      BY <1>2 DEF Resize
    <2>2. scroll' \in 0 .. ScrollLimit(Rows(lines, w), visible)
      BY <1>1, <2>1, ScrollIsNat, SettledFacts
    <2>3. ScreenOK'
      BY <2>1, <2>2 DEF ScreenOK, visual, visible
    <2> QED
      BY <2>1, <2>3 DEF selVars, EditInv, TextOK, UndoOK, SelectionOK, EditRecorded
  <1>3. ASSUME NEW text \in Texts, SetText(text)  PROVE EditInv' /\ EditRecorded
    <2>1. /\ lines' = text /\ cursor' = <<1, 0>> /\ undo' = <<>> /\ scroll' = 0
          /\ Unselected /\ UNCHANGED <<width, mouse, clipboard>>
      BY <1>3 DEF SetText, Unselected
    <2>2. text \in AllTexts /\ width \in Widths /\ MaxUndo \in Nat
      BY ScrollIsNat DEF EditAssumptions, EditorAssumption
    <2>3. ScreenOK'
      <3>1. ScrollLimit(Rows(text, width), visible) \in Nat
        BY <2>2, ScreenFacts
      <3> QED
        BY <2>1, <2>2, <3>1 DEF ScreenOK, visual, visible
    <2>4. SelectionOK'
      BY <2>1, UnselectedFacts DEF EditInv, SelectionOK
    <2>5. TextOK' /\ UndoOK'
      BY <2>1, <2>2, EndOfTextFacts, EmptySeq DEF EditInv, TextOK, UndoOK
    <2> QED
      BY <2>1, <2>3, <2>4, <2>5 DEF EditInv, EditRecorded
  <1> QED
    BY <1>2, <1>3 DEF Tab

LEMMA EditNextKeeps ==
    ASSUME EditAssumptions, EditInv, EditorNext
    PROVE  EditInv' /\ EditRecorded
  BY TypingKeeps, MovingKeeps, ClippingKeeps, PointingKeeps, ScrollingKeeps, ShiftingKeeps,
     SelectingKeeps, UndoKeeps, TabKeeps DEF EditorNext

LEMMA EditInvInit ==
    ASSUME EditAssumptions, EditorInit, clipboard = EmptyText
    PROVE  EditInv
  <1>1. /\ lines \in AllTexts /\ cursor = <<1, 0>> /\ hasSelection = FALSE
        /\ shiftHeld = FALSE /\ shiftSelecting = FALSE
        /\ undo = <<>> /\ scroll = 0 /\ width = Min(Widths) /\ mouse = "up"
    BY DEF EditorInit, EditAssumptions, EditorAssumption
  <1>2. width \in Widths /\ MaxUndo \in Nat
    BY <1>1, MinFacts DEF EditAssumptions, EditorAssumption
  <1>3. ScreenOK
    <2>1. ScrollLimit(Rows(lines, width), visible) \in Nat
      BY <1>1, <1>2, ScreenFacts
    <2> QED
      BY <1>1, <1>2, <2>1 DEF ScreenOK, visual
  <1>4. TextOK
    BY <1>1, EndOfTextFacts, EmptyIsText DEF TextOK
  <1>5. UndoOK
    BY <1>1, <1>2, EmptySeq DEF UndoOK
  <1>6. SelectionOK
    BY <1>1 DEF SelectionOK
  <1> QED
    BY <1>3, <1>4, <1>5, <1>6 DEF EditInv

-----------------------------------------------------------------------------
(* The two widgets together.                                               *)

TextInv == EditInv /\ ViewInv

LEMMA TextAssumptions == EditAssumptions /\ ViewAssumptions
  BY WidgetAssumption, EditorAssumption, ViewAssumption DEF EditAssumptions, ViewAssumptions

LEMMA TextInvInit == TextInit => TextInv
  BY TextAssumptions, EditInvInit, ViewInvInit DEF TextInit, TextInv

LEMMA EditInvStays ==
    ASSUME EditInv, UNCHANGED editorVars, clipboard' \in AllTexts
    PROVE  EditInv' /\ EditRecorded
  <1>1. UNCHANGED <<lines, cursor, anchor, head, hasSelection, shiftHeld, shiftSelecting,
                    undo, scroll, width, mouse>>
    BY DEF editorVars, selVars
  <1> QED
    BY <1>1, ScreenStays DEF EditInv, TextOK, UndoOK, SelectionOK, EditRecorded

LEMMA ViewInvStays ==
    ASSUME ViewInv, UNCHANGED viewVars
    PROVE  ViewInv'
  <1>1. ViewStays
    BY DEF ViewStays, viewVars, viewSel, parseVars, viewRest, ViewInv, ViewTypeOK
  <1> QED
    BY <1>1, ViewStaysKeeps

LEMMA TextStep == TextInv /\ [TextNext]_textVars => TextInv' /\ EditRecorded
  <1> SUFFICES ASSUME TextInv, [TextNext]_textVars  PROVE TextInv' /\ EditRecorded
    OBVIOUS
  <1>1. EditInv /\ ViewInv /\ clipboard \in AllTexts
    BY DEF TextInv, EditInv, TextOK
  <1>2. CASE EditorNext /\ UNCHANGED viewVars
    BY <1>1, <1>2, TextAssumptions, EditNextKeeps, ViewInvStays DEF TextInv
  <1>3. CASE ViewNext /\ UNCHANGED editorVars
    BY <1>1, <1>3, TextAssumptions, ViewNextKeeps, EditInvStays DEF TextInv
  <1>4. CASE UNCHANGED textVars
    <2>1. UNCHANGED <<editorVars, viewVars, clipboard>>
      BY <1>4 DEF textVars
    <2> QED
      BY <1>1, <2>1, ViewInvStays, EditInvStays DEF TextInv
  <1> QED
    BY <1>2, <1>3, <1>4 DEF TextNext

(* Whatever is typed, clicked, resized, set and wrapped, the invariant of  *)
(* the editor and of the viewer holds.                                     *)
THEOREM TextInvariant == TextSpec => []TextInv
  BY TextInvInit, TextStep, PTL DEF TextSpec

(* The types of the editor (TextViewEntry's fields, at most 100 records in *)
(* undoStack, each with its cursor in its text; scrollOffset between 0 and *)
(* maxScroll) and of the viewer (no goroutine is newer than view.gen).     *)
THEOREM TextTypeCorrect == TextSpec => [](EditorTypeOK /\ ViewTypeOK)
  <1>1. TextInv => EditorTypeOK /\ ViewTypeOK
    <2> SUFFICES ASSUME TextInv  PROVE EditorTypeOK /\ ViewTypeOK
      OBVIOUS
    <2>1. \A i \in DOMAIN undo :
            undo[i].lines \in AllTexts /\ undo[i].cursor \in Positions(undo[i].lines)
      <3>1. undo \in Seq(UndoRecords)
        BY DEF TextInv, EditInv, UndoOK
      <3>2. \A i \in DOMAIN undo : undo[i] \in UndoRecords
        BY <3>1, LenProperties, ElementOfSeq
      <3> QED
        BY <3>2 DEF UndoRecords
    <2>2. EditorTypeOK
      BY <2>1 DEF TextInv, EditInv, TextOK, UndoOK, ScreenOK, SelectionOK, EditorTypeOK
    <2> QED
      BY <2>2 DEF TextInv, ViewInv
  <1> QED
    BY <1>1, TextInvariant, PTL

(* The cursor and the moving end of a selection stay in the text, so that  *)
(* the handlers of TypedRune, TypedKey and TypedShortcut slice inside its  *)
(* lines; so does the line of the anchor, except during a drag.            *)
THEOREM CursorStaysInText == TextSpec => []CursorInText
  <1>1. TextInv => CursorInText
    BY DEF TextInv, EditInv, TextOK, SelectionOK, CursorInText
  <1> QED
    BY <1>1, TextInvariant, PTL

(* pushUndo comes before every change of rawFull: a change of the text is  *)
(* recorded with the cursor it was made at, or is itself one popUndo, or   *)
(* clears the stack.                                                       *)
THEOREM EditsAreAlwaysRecorded == TextSpec => EditsAreRecorded
  <1>1. TextInv /\ [TextNext]_textVars =>
          [lines' # lines =>
             \/ undo' = <<>> /\ cursor' = <<1, 0>>
             \/ undo # <<>> /\ undo' = Front(undo) /\ lines' = Last(undo).lines
             \/ undo' # <<>> /\ Last(undo').lines = lines /\ Last(undo').cursor = cursor
          ]_editorVars
    BY TextStep DEF EditRecorded
  <1> QED
    BY <1>1, TextInvariant, PTL DEF TextSpec, EditsAreRecorded

(* logicalToVisual and posFromPoint are inverse to each other on every     *)
(* wrapped text, and layoutContent draws as selected on every row exactly  *)
(* what lies between the ends of the selection.                            *)
THEOREM RowsAlwaysMatch == TextSpec => []RowsMatchPositions
  <1>1. TextInv => RowsMatchPositions
    <2> SUFFICES ASSUME TextInv  PROVE RowsMatchPositions
      OBVIOUS
    <2>1. RowsOfText(lines, visual) /\ lines \in AllTexts /\ EditInv
      BY TextAssumptions, ScrollIsNat DEF TextInv, EditInv, TextOK
    <2>2. ClickFindsPosition
      BY <2>1, ClickFacts DEF ClickFindsPosition
    <2>3. ASSUME hasSelection, ~Stray, NEW v \in DOMAIN visual
          PROVE  Highlighted(visual[v], From, To)
                   = {c \in visual[v].off .. visual[v].off + visual[v].len - 1 :
                        ~Before(<<visual[v].line, c>>, From) /\ Before(<<visual[v].line, c>>, To)}
      <3>1. From \in Positions(lines) /\ To \in Positions(lines)
        BY <2>1, <2>3, SelectionEnds
      <3>2. From[1] \in Nat /\ From[2] \in Nat /\ To[1] \in Nat /\ To[2] \in Nat
        <4>1. /\ From[1] \in 1 .. Len(lines) /\ From[2] \in 0 .. Len(lines[From[1]])
              /\ To[1] \in 1 .. Len(lines) /\ To[2] \in 0 .. Len(lines[To[1]])
          BY <2>1, <3>1, PositionIs
        <4> QED
          BY <4>1
      <3>3. visual[v] \in RowTypes
        <4>1. visual \in Seq(RowTypes)
          BY <2>1 DEF RowsOfText
        <4> QED
          BY <2>3, <4>1, LenProperties, ElementOfSeq
      <3>4. visual[v].line \in Nat /\ visual[v].off \in Nat /\ visual[v].len \in Nat
        BY <3>3 DEF RowTypes
      <3> QED
        BY <3>2, <3>4, HighlightFacts
    <2>4. HighlightIsSelection
      BY <2>3 DEF HighlightIsSelection
    <2> QED
      BY <2>2, <2>4 DEF RowsMatchPositions
  <1> QED
    BY <1>1, TextInvariant, PTL

(* When no goroutine of startProcessing is under way, the rows on the      *)
(* screen are parseAndWrap's of the last text at the last width that asked *)
(* for it; joined they are the text with its first line as it is tokenised *)
(* and without the line that ends its headers, and no row is too long but  *)
(* one JSON string.                                                        *)
THEOREM ShownIsAlwaysText == TextSpec => []ShownIsText
  <1>1. TextInv => ShownIsText
    <2> SUFFICES ASSUME TextInv, AtRest
                 PROVE  drawn = Wrapped(full, asked) /\ RowsHoldText
      BY DEF ShownIsText, RowsHoldText
    <2>1. /\ asked \in Sizes /\ drawn = Wrapped(full, asked) /\ full \in ViewTexts
          /\ full # EmptyText
      BY DEF TextInv, ViewInv, ViewTypeOK, AtRest
    <2>2. /\ full \in AllTexts /\ asked \in Nat /\ CharWidth \in Nat \ {0} /\ asked >= CharWidth
      BY <2>1, ViewAssumption
    <2>3. /\ drawn \in Seq(Seq(Runes))
          /\ \A v \in 1 .. Len(drawn) : RowGood(drawn[v], asked \div CharWidth)
          /\ FlattenSeq(drawn) = FlattenSeq([l \in DOMAIN full |->
                                   IF EndsHeaders(full, l) THEN <<>> ELSE Tokenised(full, l)])
      BY <2>1, <2>2, WrappedFacts
    <2>4. DOMAIN drawn = 1 .. Len(drawn)
      BY <2>3, LenProperties
    <2>5. \A i \in DOMAIN drawn : \/ Len(drawn[i]) <= asked \div CharWidth
                                  \/ \A c \in DOMAIN drawn[i] : drawn[i][c] = Str
      BY <2>3, <2>4 DEF RowGood
    <2> QED
      BY <2>1, <2>3, <2>5 DEF RowsHoldText
  <1> QED
    BY <1>1, TextInvariant, PTL
=============================================================================
