------------------------- MODULE InterceptGateProofs -------------------------
(***************************************************************************)
(* Proofs about InterceptGate for any set of requests, any capacity of the *)
(* gate's channel and any number of bypass channels.                       *)
(***************************************************************************)
EXTENDS InterceptGate, SequenceTheorems, TLAPS

-----------------------------------------------------------------------------
(* The members of a FIFO channel, and channels that hold nothing twice.    *)

Members(s) == {s[i] : i \in 1 .. Len(s)}

NoRepeats(s) == \A i, j \in 1 .. Len(s) : s[i] = s[j] => i = j

(* Append adds one member and, if that is new, no repetition.              *)
LEMMA AppendMembers ==
  ASSUME NEW S, NEW s \in Seq(S), NEW x \in S, NoRepeats(s), x \notin Members(s)
  PROVE  Members(Append(s, x)) = Members(s) \cup {x} /\ NoRepeats(Append(s, x))
<1>1. /\ Len(Append(s, x)) = Len(s) + 1
      /\ \A i \in 1 .. Len(s) : Append(s, x)[i] = s[i]
      /\ Append(s, x)[Len(s) + 1] = x
      /\ Len(s) \in Nat
  BY AppendProperties, LenProperties
<1>2. Members(Append(s, x)) = Members(s) \cup {x}
  <2>1. \A i \in 1 .. Len(s) + 1 : i \in 1 .. Len(s) \/ i = Len(s) + 1
    BY <1>1
  <2>2. 1 .. Len(s) \subseteq 1 .. Len(s) + 1 /\ Len(s) + 1 \in 1 .. Len(s) + 1
    BY <1>1
  <2>. QED  BY <1>1, <2>1, <2>2 DEF Members
<1>3. NoRepeats(Append(s, x))
  BY <1>1 DEF NoRepeats, Members
<1>. QED  BY <1>2, <1>3

(* The members of a sequence over S are in S.                              *)
LEMMA MembersType ==
  ASSUME NEW S, NEW s \in Seq(S)
  PROVE  Members(s) \subseteq S
BY ElementOfSeq DEF Members

(* Tail takes away the first member, for good if there are no repetitions. *)
LEMMA TailMembers ==
  ASSUME NEW S, NEW s \in Seq(S), s # <<>>, NoRepeats(s)
  PROVE  /\ Head(s) \in Members(s)
         /\ Members(Tail(s)) = Members(s) \ {Head(s)}
         /\ NoRepeats(Tail(s))
<1>1. /\ Len(s) \in Nat \ {0} /\ Len(Tail(s)) = Len(s) - 1
      /\ \A i \in 1 .. Len(s) - 1 : Tail(s)[i] = s[i + 1]
      /\ Head(s) = s[1]
  BY HeadTailProperties, LenProperties, EmptySeq
<1>2. Head(s) \in Members(s)
  BY <1>1 DEF Members
<1>3. NoRepeats(Tail(s))
  BY <1>1 DEF NoRepeats
<1>4. ASSUME NEW x \in Members(Tail(s)) PROVE x \in Members(s) \ {Head(s)}
  <2>1. PICK i \in 1 .. Len(s) - 1 : x = s[i + 1]
    BY <1>1 DEF Members
  <2>. QED  BY <1>1, <2>1 DEF Members, NoRepeats
<1>5. ASSUME NEW x \in Members(s) \ {Head(s)} PROVE x \in Members(Tail(s))
  <2>1. PICK i \in 1 .. Len(s) : x = s[i]
    BY DEF Members
  <2>2. i # 1 /\ i - 1 \in 1 .. Len(s) - 1
    BY <1>1, <2>1
  <2>. QED  BY <1>1, <2>1, <2>2 DEF Members
<1>. QED  BY <1>2, <1>3, <1>4, <1>5

-----------------------------------------------------------------------------
(* Types and the semaphore.  The two go together: that g.sem holds 0 or 1  *)
(* tokens rests on only its holder giving one back.                        *)

(* A handler that is about to make a new bypass channel has room for it. *)
GenRoom == ui \in {"onReplace", "forwardAll"} => bypass < MaxGen

SemInv == TypeOK /\ SemExclusive /\ GenRoom

(* In the initial state nobody holds the semaphore.                        *)
LEMMA SemInvInit == Init => SemInv
<1>. SUFFICES ASSUME Init PROVE SemInv
  OBVIOUS
<1>1. GateTypeOK
  <2>1. enabled \in BOOLEAN /\ filterOn \in BOOLEAN /\ bypassClosed \in BOOLEAN
    BY Zenon DEF Init
  <2>2. sem \in 0 .. 1 /\ queue \in Seq(Requests) /\ bypass \in Generations
    BY GateAssumption DEF Init, Generations
  <2>. QED  BY <2>1, <2>2 DEF Init, GateTypeOK
<1>2. HoldTypeOK
  BY GateAssumption DEF Init, HoldTypeOK, Generations, Steps, Watching
<1>3. TabTypeOK
  BY DEF Init, TabTypeOK
<1>4. SemExclusive
  BY DEF Init, SemExclusive, Holding
<1>. QED  BY <1>1, <1>2, <1>3, <1>4 DEF SemInv, TypeOK, GenRoom, Init

(* A Hold that moves on either side of the semaphore keeps it as it is.    *)
LEMMA MoveKeepsSem ==
  ASSUME SemInv, NEW r \in Requests, NEW to \in Steps,
         pc' = [pc EXCEPT ![r] = to], pc[r] \in Holding <=> to \in Holding,
         UNCHANGED sem
  PROVE  pc' \in [Requests -> Steps] /\ SemExclusive'
BY DEF SemInv, TypeOK, HoldTypeOK, GateTypeOK, SemExclusive

(* Every step of a Hold keeps the token with the one Hold that is between  *)
(* acquire and release.                                                    *)
LEMMA SemInvHold ==
  ASSUME SemInv, NEW r \in Requests, HoldBegin(r) \/ HoldStep(r)
  PROVE  SemInv'
<1>. USE DEF SemInv, TypeOK, GateTypeOK, HoldTypeOK, SemExclusive, Holding, Steps,
             Watching, Move, Return, Decisions, gateVars, GenRoom
<1>0. ASSUME NEW from \in Steps, NEW to \in Steps, Move(r, from, to), sem' = sem,
             from \in Holding <=> to \in Holding
      PROVE  SemExclusive'
  <2>. HIDE DEF SemInv, Holding, Steps, SemExclusive
  <2>. QED  BY <1>0, MoveKeepsSem
<1>1. CASE HoldBegin(r)
  <2>1. GateTypeOK' /\ HoldTypeOK'
    BY <1>1 DEF HoldBegin
  <2>2. SemExclusive'
    <3>1. sem' = sem /\ \/ Move(r, "idle", "scope")
                        \/ Move(r, "idle", "returned")
      BY <1>1 DEF HoldBegin
    <3>. HIDE DEF Move, SemInv, SemExclusive
    <3>. QED  BY <1>0, <3>1
  <2>. QED  BY <2>1, <2>2, <1>1 DEF HoldBegin, tabVars, TabTypeOK
<1>2. CASE HoldScope(r)
  <2>1. GateTypeOK' /\ HoldTypeOK'
    BY <1>2 DEF HoldScope
  <2>2. SemExclusive'
    <3>1. sem' = sem /\ \/ Move(r, "scope", "capture")
                        \/ Move(r, "scope", "returned")
      BY <1>2 DEF HoldScope
    <3>. HIDE DEF Move, SemInv, SemExclusive
    <3>. QED  BY <1>0, <3>1
  <2>. QED  BY <2>1, <2>2, <1>2 DEF HoldScope, tabVars, TabTypeOK
<1>3. CASE HoldCapture(r)
  <2>1. GateTypeOK' /\ HoldTypeOK'
    BY <1>3 DEF HoldCapture
  <2>2. SemExclusive'
    <3>1. sem' = sem /\ \/ Move(r, "capture", "acquire")
      BY <1>3 DEF HoldCapture
    <3>. HIDE DEF Move, SemInv, SemExclusive
    <3>. QED  BY <1>0, <3>1
  <2>. QED  BY <2>1, <2>2, <1>3 DEF HoldCapture, tabVars, TabTypeOK
<1>4. CASE HoldAcquire(r)
  <2>1. /\ r \in Requests /\ pc[r] = "acquire"
        /\ bypassOf' = bypassOf /\ reply' = reply /\ done' = done /\ queue' = queue
        /\ UNCHANGED <<enabled, filterOn, bypass, bypassClosed, closed>>
        /\ TabTypeOK' /\ GenRoom'
    BY <1>4 DEF HoldAcquire, tabVars, TabTypeOK
  <2>2. ticket' \in [Requests -> Nat] /\ nextTicket' \in Nat \ {0}
    BY <1>4 DEF HoldAcquire
  <2>3. CASE sem = 0 /\ sem' = 1 /\ pc' = [pc EXCEPT ![r] = "recheckEnabled"]
             /\ UNCHANGED result
    <3>1. \A s \in Requests : pc[s] \notin Holding
      BY <2>3
    <3>2. SemExclusive'
      BY <2>1, <2>3, <3>1
    <3>. QED  BY <2>1, <2>2, <2>3, <3>2
  <2>4. CASE sem' = sem /\ result' = [result EXCEPT ![r] = "original"]
             /\ pc' = [pc EXCEPT ![r] = "returned"]
    <3>1. SemExclusive'
      BY <2>1, <2>4
    <3>. QED  BY <2>1, <2>2, <2>4, <3>1
  <2>5. CASE sem' = sem /\ UNCHANGED result /\ pc' = [pc EXCEPT ![r] = "semwait"]
    <3>1. SemExclusive'
      BY <2>1, <2>5
    <3>. QED  BY <2>1, <2>2, <2>5, <3>1
  <2>. QED  BY <1>4, <2>3, <2>4, <2>5 DEF HoldAcquire
<1>5. CASE HoldRecheckEnabled(r)
  <2>1. GateTypeOK' /\ HoldTypeOK'
    BY <1>5 DEF HoldRecheckEnabled
  <2>2. SemExclusive'
    <3>1. sem' = sem /\ \/ Move(r, "recheckEnabled", "recheckBypass")
                        \/ Move(r, "recheckEnabled", "release")
      BY <1>5 DEF HoldRecheckEnabled
    <3>. HIDE DEF Move, SemInv, SemExclusive
    <3>. QED  BY <1>0, <3>1
  <2>. QED  BY <2>1, <2>2, <1>5 DEF HoldRecheckEnabled, tabVars, TabTypeOK
<1>6. CASE HoldRecheckBypass(r)
  <2>1. GateTypeOK' /\ HoldTypeOK'
    BY <1>6 DEF HoldRecheckBypass
  <2>2. SemExclusive'
    <3>1. sem' = sem /\ \/ Move(r, "recheckBypass", "enqueue")
                        \/ Move(r, "recheckBypass", "release")
      BY <1>6 DEF HoldRecheckBypass
    <3>. HIDE DEF Move, SemInv, SemExclusive
    <3>. QED  BY <1>0, <3>1
  <2>. QED  BY <2>1, <2>2, <1>6 DEF HoldRecheckBypass, tabVars, TabTypeOK
<1>7. CASE HoldEnqueue(r)
  <2>1. queue' \in Seq(Requests)
    <3>1. Append(queue, r) \in Seq(Requests)
      BY AppendProperties
    <3>2. queue' = queue \/ queue' = Append(queue, r)
      BY <1>7, Zenon DEF HoldEnqueue
    <3>. QED  BY <3>1, <3>2
  <2>2. GateTypeOK'
    BY <1>7, <2>1 DEF HoldEnqueue
  <2>3. HoldTypeOK'
    BY <1>7 DEF HoldEnqueue
  <2>4. SemExclusive'
    <3>1. sem' = sem /\ \/ Move(r, "enqueue", "await")
                        \/ Move(r, "enqueue", "cancel")
      BY <1>7 DEF HoldEnqueue
    <3>. HIDE DEF Move, SemInv, SemExclusive
    <3>. QED  BY <1>0, <3>1
  <2>. QED  BY <2>2, <2>3, <2>4, <1>7 DEF HoldEnqueue, tabVars, TabTypeOK
<1>8. CASE HoldAwait(r)
  <2>1. GateTypeOK' /\ HoldTypeOK'
    BY <1>8 DEF HoldAwait
  <2>2. SemExclusive'
    <3>1. sem' = sem /\ \/ Move(r, "await", "release")
                        \/ Move(r, "await", "cancel")
                        \/ Move(r, "await", "parked")
      BY <1>8 DEF HoldAwait
    <3>. HIDE DEF Move, SemInv, SemExclusive
    <3>. QED  BY <1>0, <3>1
  <2>. QED  BY <2>1, <2>2, <1>8 DEF HoldAwait, tabVars, TabTypeOK
<1>9. CASE HoldCancel(r)
  <2>1. GateTypeOK' /\ HoldTypeOK'
    BY <1>9 DEF HoldCancel
  <2>2. SemExclusive'
    <3>1. sem' = sem /\ \/ Move(r, "cancel", "release")
      BY <1>9 DEF HoldCancel
    <3>. HIDE DEF Move, SemInv, SemExclusive
    <3>. QED  BY <1>0, <3>1
  <2>. QED  BY <2>1, <2>2, <1>9 DEF HoldCancel, tabVars, TabTypeOK
<1>10. CASE HoldRelease(r)
  <2>1. /\ pc[r] = "release" /\ sem = 1
        /\ \A s \in Requests \ {r} : pc[s] \notin Holding
        /\ UNCHANGED <<enabled, filterOn, queue, bypass, bypassClosed, closed,
                       bypassOf, ticket, nextTicket, reply, done, result>>
        /\ TabTypeOK' /\ GenRoom'
    BY <1>10 DEF HoldRelease, tabVars, TabTypeOK
  <2>2. CASE sem' = sem - 1 /\ pc' = [pc EXCEPT ![r] = "returned"]
    <3>1. sem' = 0
      BY <2>1, <2>2
    <3>2. SemExclusive'
      BY <2>1, <2>2, <3>1
    <3>. QED  BY <2>1, <2>2, <3>1, <3>2
  <2>3. ASSUME NEW w \in Waiters, sem' = sem,
               pc' = [pc EXCEPT ![r] = "returned", ![w] = "recheckEnabled"]
        PROVE  SemInv'
    <3>1. w \in Requests \ {r}
      BY <2>1, <2>3 DEF Waiters
    <3>2. SemExclusive'
      BY <2>1, <2>3, <3>1
    <3>. QED  BY <2>1, <2>3, <3>1, <3>2
  <2>. QED  BY <1>10, <2>2, <2>3 DEF HoldRelease, GiveBackSem
<1>. QED  BY <1>1, <1>2, <1>3, <1>4, <1>5, <1>6, <1>7, <1>8, <1>9, <1>10 DEF HoldStep

(* No step of watchQueue or of the main goroutine takes the semaphore, or  *)
(* moves a Hold across acquire or release.                                 *)
LEMMA SemInvWatch ==
  ASSUME SemInv, WatchReceive \/ WatchPost \/ RunCallback
  PROVE  SemInv'
<1>1. GateTypeOK'
  <2>1. queue' \in Seq(Requests)
    BY DEF SemInv, TypeOK, GateTypeOK, WatchReceive, WatchPost, RunCallback, gateVars
  <2>. QED  BY <2>1 DEF SemInv, TypeOK, GateTypeOK, WatchReceive, WatchPost, RunCallback,
                        gateVars
<1>2. HoldTypeOK'
  BY DEF SemInv, TypeOK, HoldTypeOK, WatchReceive, WatchPost, RunCallback, holdVars
<1>3. TabTypeOK'
  <2>1. callbacks' \in Seq(Requests)
    BY DEF SemInv, TypeOK, TabTypeOK, WatchReceive, WatchPost, RunCallback
  <2>2. watch' \in Requests \cup {None} /\ pending' \in Requests \cup {None}
    BY DEF SemInv, TypeOK, GateTypeOK, TabTypeOK, WatchReceive, WatchPost, RunCallback
  <2>3. lastShown' \in Nat
    BY DEF SemInv, TypeOK, HoldTypeOK, TabTypeOK, WatchReceive, WatchPost, RunCallback
  <2>. QED  BY <2>1, <2>2, <2>3 DEF SemInv, TypeOK, TabTypeOK, WatchReceive, WatchPost,
                                    RunCallback
<1>4. SemExclusive'
  BY DEF SemInv, SemExclusive, WatchReceive, WatchPost, RunCallback, holdVars, gateVars
<1>. QED  BY <1>1, <1>2, <1>3, <1>4 DEF SemInv, TypeOK, GenRoom, WatchReceive, WatchPost,
                                        RunCallback, gateVars

(* A reply wakes the parked Hold it answers, and no other.                 *)
LEMMA SendReplyType ==
  ASSUME SemInv, NEW p \in Requests, NEW v \in Decisions, SendReply(p, v)
  PROVE  /\ pc' \in [Requests -> Steps]
         /\ reply' \in [Requests -> Decisions \cup {"none"}]
         /\ result' \in [Requests -> Decisions \cup {"none"}]
         /\ answered' \in [Requests -> Decisions \cup {"none"}]
         /\ \A r \in Requests : pc'[r] \in Holding <=> pc[r] \in Holding
BY DEF SemInv, TypeOK, HoldTypeOK, TabTypeOK, SendReply, Move, Return, Decisions, Steps,
       Watching, Holding

(* Closing the bypass wakes waiters, none of whom holds the semaphore, and *)
(* parked Holds, which go on holding it.                                   *)
LEMMA CloseBypassType ==
  ASSUME SemInv, CloseBypass
  PROVE  /\ pc' \in [Requests -> Steps]
         /\ closed' \in SUBSET Generations
         /\ result' \in [Requests -> Decisions \cup {"none"}]
         /\ \A r \in Requests : pc'[r] \in Holding <=> pc[r] \in Holding
BY DEF SemInv, TypeOK, GateTypeOK, HoldTypeOK, CloseBypass, WokenBy, Decisions, Steps,
       Watching, Holding

(* The main goroutine's handlers: the flag, the channel, the reply. *)
LEMMA SemInvMain ==
  ASSUME SemInv, Handler \/ User
  PROVE  SemInv'
<1>1. CASE ToggleOnFlag \/ ToggleOffFlag \/ SetScopeFilter
  <2>1. GateTypeOK'
    <3>1. enabled' \in BOOLEAN /\ filterOn' \in BOOLEAN
      BY <1>1, Zenon DEF SemInv, TypeOK, GateTypeOK, ToggleOnFlag, ToggleOffFlag, SetScopeFilter
    <3>. QED  BY <1>1, <3>1 DEF SemInv, TypeOK, GateTypeOK, ToggleOnFlag, ToggleOffFlag,
                                SetScopeFilter
  <2>2. HoldTypeOK' /\ SemExclusive'
    BY <1>1 DEF SemInv, TypeOK, HoldTypeOK, SemExclusive, ToggleOnFlag, ToggleOffFlag,
                SetScopeFilter, holdVars
  <2>3. TabTypeOK' /\ GenRoom'
    BY <1>1 DEF SemInv, TypeOK, TabTypeOK, GenRoom, ToggleOnFlag, ToggleOffFlag,
                SetScopeFilter, tabVars
  <2>. QED  BY <2>1, <2>2, <2>3 DEF SemInv, TypeOK
<1>2. CASE ToggleOnReplace
  <2>1. GateTypeOK'
    <3>1. bypassClosed' \in BOOLEAN
      BY <1>2, Zenon DEF ToggleOnReplace
    <3>2. bypass' \in Generations
      BY <1>2, GateAssumption DEF SemInv, TypeOK, GateTypeOK, GenRoom, Generations,
                                  ToggleOnReplace
    <3>. QED  BY <1>2, <3>1, <3>2 DEF SemInv, TypeOK, GateTypeOK, ToggleOnReplace
  <2>2. HoldTypeOK' /\ SemExclusive' /\ TabTypeOK' /\ GenRoom'
    BY <1>2 DEF SemInv, TypeOK, HoldTypeOK, TabTypeOK, SemExclusive, GenRoom, ToggleOnReplace,
                holdVars
  <2>. QED  BY <2>1, <2>2 DEF SemInv, TypeOK
<1>3. CASE ToggleOffClose \/ ForwardAllRelease
  <2>1. CloseBypass
    BY <1>3 DEF ToggleOffClose, ForwardAllRelease
  <2>2. bypass' \in Generations
    BY <1>3, GateAssumption DEF SemInv, TypeOK, GateTypeOK, GenRoom, Generations,
                                ToggleOffClose, ForwardAllRelease
  <2>3. GateTypeOK'
    BY <1>3, <2>1, <2>2, CloseBypassType DEF SemInv, TypeOK, GateTypeOK, ToggleOffClose,
                                            ForwardAllRelease
  <2>4. HoldTypeOK'
    BY <1>3, <2>1, CloseBypassType DEF SemInv, TypeOK, HoldTypeOK, ToggleOffClose,
                                      ForwardAllRelease
  <2>5. SemExclusive'
    BY <1>3, <2>1, CloseBypassType DEF SemInv, SemExclusive, ToggleOffClose, ForwardAllRelease
  <2>6. TabTypeOK' /\ GenRoom'
    BY <1>3 DEF SemInv, TypeOK, TabTypeOK, GenRoom, ToggleOffClose, ForwardAllRelease
  <2>. QED  BY <2>3, <2>4, <2>5, <2>6 DEF SemInv, TypeOK
<1>4. CASE ToggleOffReply \/ ForwardAllReply \/ Decide
  <2>1. UNCHANGED <<gateVars, bypassOf, ticket, nextTicket, done, watch, callbacks, lastShown>>
    BY <1>4 DEF ToggleOffReply, ForwardAllReply, Decide, ForwardDisplayed
  <2>2. /\ pc' \in [Requests -> Steps]
        /\ reply' \in [Requests -> Decisions \cup {"none"}]
        /\ result' \in [Requests -> Decisions \cup {"none"}]
        /\ answered' \in [Requests -> Decisions \cup {"none"}]
        /\ \A r \in Requests : pc'[r] \in Holding <=> pc[r] \in Holding
    <3>1. CASE UNCHANGED <<pc, result, reply, answered>>
      BY <3>1 DEF SemInv, TypeOK, HoldTypeOK, TabTypeOK
    <3>2. ASSUME NEW v \in Decisions, pending # None, SendReply(pending, v)
          PROVE  /\ pc' \in [Requests -> Steps]
                 /\ reply' \in [Requests -> Decisions \cup {"none"}]
                 /\ result' \in [Requests -> Decisions \cup {"none"}]
                 /\ answered' \in [Requests -> Decisions \cup {"none"}]
                 /\ \A r \in Requests : pc'[r] \in Holding <=> pc[r] \in Holding
      <4>1. pending \in Requests
        BY <3>2 DEF SemInv, TypeOK, TabTypeOK
      <4>. QED  BY <3>2, <4>1, SendReplyType
    <3>3. "original" \in Decisions
      BY DEF Decisions
    <3>. QED  BY <1>4, <3>1, <3>2, <3>3 DEF ToggleOffReply, ForwardAllReply, Decide,
                                            ForwardDisplayed
  <2>3. GateTypeOK' /\ SemExclusive'
    BY <2>1, <2>2 DEF SemInv, TypeOK, GateTypeOK, SemExclusive, gateVars
  <2>4. HoldTypeOK'
    BY <2>1, <2>2 DEF SemInv, TypeOK, HoldTypeOK
  <2>5. TabTypeOK' /\ GenRoom'
    BY <1>4, <2>1, <2>2 DEF SemInv, TypeOK, TabTypeOK, GenRoom, ToggleOffReply, ForwardAllReply,
                            Decide, ForwardDisplayed, gateVars
  <2>. QED  BY <2>3, <2>4, <2>5 DEF SemInv, TypeOK
<1>. QED  BY <1>1, <1>2, <1>3, <1>4 DEF Handler, User

(* SemInv is inductive. *)
LEMMA SemInvStep == SemInv /\ [Next]_vars => SemInv'
<1>1. SemInv /\ Next => SemInv'
  BY SemInvHold, SemInvWatch, SemInvMain DEF Next
<1>2. SemInv /\ UNCHANGED vars => SemInv'
  BY DEF SemInv, TypeOK, GateTypeOK, HoldTypeOK, TabTypeOK, SemExclusive, GenRoom, vars,
         gateVars, holdVars, tabVars
<1>. QED  BY <1>1, <1>2

(* Every variable keeps its type.                                          *)
THEOREM TypeCorrect == Spec => []TypeOK
<1>1. SemInv => TypeOK
  BY DEF SemInv
<1>. QED  BY <1>1, SemInvInit, SemInvStep, PTL DEF Spec

(* At most one Hold is between acquiring and releasing the semaphore, and  *)
(* no path through Hold loses the token.                                   *)
THEOREM SemaphoreExclusion == Spec => []SemExclusive
<1>1. SemInv => SemExclusive
  BY DEF SemInv
<1>. QED  BY <1>1, SemInvInit, SemInvStep, PTL DEF Spec

-----------------------------------------------------------------------------
(* The bypass channel.                                                     *)

(* The flag bypassClosed tells the truth about an open channel, no channel *)
(* beyond the current one was closed, and outside SetEnabled an enabled    *)
(* gate has an open one.                                                   *)
BypassInv ==
    /\ closed \subseteq 0 .. bypass
    /\ ~bypassClosed => bypass \notin closed
    /\ enabled /\ ui # "onReplace" => ~bypassClosed
    /\ ui = "offClose" => ~enabled

(* Only the main goroutine touches the flag and the channel. *)
LEMMA HoldKeepsBypass ==
  ASSUME NEW r \in Requests, HoldBegin(r) \/ HoldStep(r)
  PROVE  UNCHANGED <<enabled, filterOn, bypass, bypassClosed, closed, tabVars>>
BY Zenon DEF HoldStep, HoldBegin, HoldScope, HoldCapture, HoldAcquire, HoldRecheckEnabled,
       HoldRecheckBypass, HoldEnqueue, HoldAwait, HoldCancel, HoldRelease, gateVars, tabVars

(* BypassInv is inductive. *)
LEMMA BypassInvStep ==
  ASSUME SemInv, BypassInv, [Next]_vars
  PROVE  BypassInv'
<1>. USE DEF BypassInv
<1>1. ASSUME UNCHANGED <<enabled, bypass, bypassClosed, closed, ui>>
      PROVE  BypassInv'
  BY <1>1
<1>2. CASE \E r \in Requests : HoldBegin(r) \/ HoldStep(r)
  <2>1. UNCHANGED <<enabled, filterOn, bypass, bypassClosed, closed, tabVars>>
    BY <1>2, HoldKeepsBypass
  <2>. QED  BY <1>1, <2>1 DEF tabVars
<1>3. CASE WatchReceive \/ WatchPost \/ RunCallback \/ SetScopeFilter \/ Decide
           \/ UNCHANGED vars
  BY <1>1, <1>3 DEF WatchReceive, WatchPost, RunCallback, SetScopeFilter, Decide, vars,
                    gateVars, tabVars
<1>4. CASE ToggleOnFlag \/ ToggleOffFlag
  BY <1>4 DEF ToggleOnFlag, ToggleOffFlag
<1>5. CASE ToggleOffReply \/ ForwardAllReply
  <2>1. UNCHANGED <<enabled, bypass, bypassClosed, closed>>
    BY <1>5, Zenon DEF ToggleOffReply, ForwardAllReply, ForwardDisplayed, gateVars
  <2>2. ui \in {"offReply", "idle"} /\ ui' \in {"idle", "forwardAll"}
    BY <1>5 DEF ToggleOffReply, ForwardAllReply
  <2>. QED  BY <2>1, <2>2
<1>6. CASE ToggleOnReplace
  BY <1>6 DEF ToggleOnReplace, SemInv, TypeOK, GateTypeOK, Generations
<1>7. CASE ToggleOffClose
  BY <1>7 DEF ToggleOffClose, CloseBypass, SemInv, TypeOK, GateTypeOK, Generations
<1>8. CASE ForwardAllRelease
  BY <1>8 DEF ForwardAllRelease, CloseBypass, SemInv, TypeOK, GateTypeOK, Generations
<1>. QED  BY <1>2, <1>3, <1>4, <1>5, <1>6, <1>7, <1>8 DEF Next, Handler, User

(* An enabled gate has an open bypass channel whenever no handler is       *)
(* running, after any sequence of toggles and Forward Alls.                *)
THEOREM EnabledIntercepts == Spec => []OnMeansIntercepting
<1>1. Init => BypassInv
  BY DEF Init, BypassInv
<1>2. SemInv /\ BypassInv /\ [Next]_vars => BypassInv'
  BY BypassInvStep
<1>3. SemInv /\ [Next]_vars => SemInv'
  BY SemInvStep
<1>4. BypassInv => OnMeansIntercepting
  BY DEF BypassInv, OnMeansIntercepting
<1>. QED  BY <1>1, <1>2, <1>3, <1>4, SemInvInit, PTL DEF Spec

-----------------------------------------------------------------------------
(* The way of a pending request from Hold to the screen.                   *)

InPipe == Members(queue) \cup Members(callbacks) \cup {watch, pending}

(* A pending request is in one place at most: in the channel, with         *)
(* watchQueue, in a callback or on the screen.                             *)
OnePlace ==
    /\ NoRepeats(queue) /\ NoRepeats(callbacks)
    /\ Members(queue) \cap Members(callbacks) = {}
    /\ watch \notin Members(queue) \cup Members(callbacks)
    /\ pending \notin Members(queue) \cup Members(callbacks)
    /\ watch # None => watch # pending

(* Until it leaves the screen it is unanswered, and its Hold either waits  *)
(* for the answer or was released by its bypass; in the second case it is  *)
(* marked done before the semaphore is given back.                         *)
PipeState ==
    \A r \in Requests \cap InPipe :
      /\ answered[r] = "none"
      /\ \/ pc[r] \in {"await", "parked"}
         \/ pc[r] = "cancel" /\ bypassOf[r] \in closed
         \/ pc[r] \in {"release", "returned"} /\ bypassOf[r] \in closed /\ r \in done

(* An answer is in the buffer, or is the result, or was overtaken by the   *)
(* bypass.                                                                 *)
AnswerState ==
    \A r \in Requests :
      /\ reply[r] # "none" => answered[r] = reply[r]
      /\ result[r] \in {"edited", "dropped"} => answered[r] = result[r]
      /\ answered[r] # "none" =>
           \/ pc[r] = "await" /\ reply[r] = answered[r]
           \/ pc[r] \in {"release", "returned"} /\ result[r] = answered[r]
           \/ pc[r] \in {"cancel", "release", "returned"} /\ bypassOf[r] \in closed

PipeInv == OnePlace /\ PipeState /\ AnswerState

(* In the initial state the pipe is empty.                                 *)
LEMMA PipeInvInit == Init => PipeInv
<1>. SUFFICES ASSUME Init PROVE PipeInv
  OBVIOUS
<1>1. Members(<<>>) = {} /\ NoRepeats(<<>>)
  BY DEF Members, NoRepeats
<1>. QED  BY <1>1, GateAssumption DEF Init, PipeInv, OnePlace, PipeState, AnswerState, InPipe

(* A Hold's own steps.  Only HoldEnqueue puts a request into the pipe, and *)
(* it has never been there.                                                *)
LEMMA PipeInvHold ==
  ASSUME SemInv, PipeInv, NEW r \in Requests, HoldBegin(r) \/ HoldStep(r)
  PROVE  PipeInv'
<1>1. UNCHANGED <<closed, watch, callbacks, pending, answered>>
  BY HoldKeepsBypass DEF tabVars
<1>2. HoldTypeOK
  BY DEF SemInv, TypeOK
<1>3. CASE HoldEnqueue(r) /\ queue' = Append(queue, r)
  <2>1. r \notin InPipe
    BY <1>3 DEF PipeInv, PipeState, HoldEnqueue, Move
  <2>2. Members(queue') = Members(queue) \cup {r} /\ NoRepeats(queue')
    BY <1>3, <2>1, AppendMembers DEF PipeInv, OnePlace, InPipe, SemInv, TypeOK, GateTypeOK
  <2>3. InPipe' = InPipe \cup {r}
    BY <1>1, <2>2 DEF InPipe
  <2>4. OnePlace'
    BY <1>1, <2>1, <2>2 DEF PipeInv, OnePlace, InPipe
  <2>5. pc[r] = "enqueue"
    BY <1>3 DEF HoldEnqueue, Move
  <2>6. CASE pc' = [pc EXCEPT ![r] = "await"] /\ UNCHANGED <<result, reply, bypassOf, done>>
    BY <1>1, <1>2, <2>3, <2>4, <2>5, <2>6 DEF PipeInv, PipeState, AnswerState, HoldTypeOK
  <2>7. CASE pc' = [pc EXCEPT ![r] = "cancel"]
    <3>1. queue' = queue
      BY <1>3, <2>7, <1>2, <2>5 DEF HoldEnqueue, Move, HoldTypeOK
    <3>2. Members(queue') = Members(queue)
      BY <3>1
    <3>. QED  BY <2>1, <2>2, <3>2 DEF InPipe
  <2>. QED  BY <1>3, <2>6, <2>7 DEF HoldEnqueue, Move
<1>4. ASSUME queue' = queue PROVE PipeInv'
  <2>1. InPipe' = InPipe /\ OnePlace'
    <3>1. /\ Members(queue') = Members(queue) /\ Members(callbacks') = Members(callbacks)
          /\ NoRepeats(queue') = NoRepeats(queue) /\ NoRepeats(callbacks') = NoRepeats(callbacks)
      BY <1>1, <1>4
    <3>. QED  BY <1>1, <3>1 DEF PipeInv, OnePlace, InPipe
  <2>. USE <1>1, <1>2, <2>1 DEF PipeInv, PipeState, AnswerState, HoldTypeOK, Move, Return
  <2>2. CASE HoldBegin(r)
    BY <2>2 DEF HoldBegin
  <2>3. CASE HoldScope(r)
    BY <2>3 DEF HoldScope
  <2>4. CASE HoldCapture(r)
    BY <2>4 DEF HoldCapture
  <2>5. CASE HoldAcquire(r)
    BY <2>5 DEF HoldAcquire
  <2>6. CASE HoldRecheckEnabled(r)
    BY <2>6 DEF HoldRecheckEnabled
  <2>7. CASE HoldRecheckBypass(r)
    BY <2>7 DEF HoldRecheckBypass
  <2>8. CASE HoldEnqueue(r)
    BY <2>8 DEF HoldEnqueue
  <2>9. CASE HoldAwait(r)
    BY <2>9 DEF HoldAwait
  <2>10. CASE HoldCancel(r)
    BY <2>10 DEF HoldCancel
  <2>11. CASE HoldRelease(r)
    BY <2>11 DEF HoldRelease, GiveBackSem, Waiters
  <2>. QED  BY <2>2, <2>3, <2>4, <2>5, <2>6, <2>7, <2>8, <2>9, <2>10, <2>11 DEF HoldStep
<1>5. queue' = queue \/ (HoldEnqueue(r) /\ queue' = Append(queue, r))
  BY Zenon DEF HoldStep, HoldBegin, HoldScope, HoldCapture, HoldAcquire, HoldRecheckEnabled,
         HoldRecheckBypass, HoldEnqueue, HoldAwait, HoldCancel, HoldRelease, gateVars
<1>. QED  BY <1>3, <1>4, <1>5

(* watchQueue and the callback move a request one place along. *)
LEMMA PipeInvWatch ==
  ASSUME SemInv, PipeInv, WatchReceive \/ WatchPost \/ RunCallback
  PROVE  PipeInv'
<1>1. UNCHANGED <<pc, bypassOf, reply, done, result, answered, closed>>
  BY DEF WatchReceive, WatchPost, RunCallback, holdVars, gateVars
<1>2. AnswerState'
  BY <1>1 DEF PipeInv, AnswerState
<1>3. ASSUME InPipe' \subseteq InPipe \cup {None} PROVE PipeState'
  BY <1>1, <1>3, GateAssumption DEF PipeInv, PipeState
<1>4. CASE WatchReceive
  <2>1. /\ Head(queue) \in Members(queue) /\ NoRepeats(queue')
        /\ Members(queue') = Members(queue) \ {Head(queue)}
    BY <1>4, TailMembers DEF WatchReceive, SemInv, TypeOK, GateTypeOK, PipeInv, OnePlace
  <2>2. /\ UNCHANGED <<callbacks, pending>> /\ watch' = Head(queue)
        /\ Members(callbacks') = Members(callbacks)
    BY <1>4 DEF WatchReceive
  <2>3. OnePlace'
    BY <2>1, <2>2 DEF PipeInv, OnePlace
  <2>4. InPipe' \subseteq InPipe \cup {None}
    BY <2>1, <2>2 DEF InPipe
  <2>. QED  BY <1>2, <1>3, <2>3, <2>4 DEF PipeInv
<1>5. CASE WatchPost
  <2>1. UNCHANGED <<queue, pending>> /\ watch # None /\ watch' = None
        /\ callbacks' \in {callbacks, Append(callbacks, watch)}
    BY <1>5 DEF WatchPost, gateVars
  <2>2. watch \in Requests /\ callbacks \in Seq(Requests)
    BY <2>1 DEF SemInv, TypeOK, TabTypeOK
  <2>3. /\ NoRepeats(callbacks') /\ Members(queue') = Members(queue) /\ NoRepeats(queue')
        /\ Members(callbacks') \subseteq Members(callbacks) \cup {watch}
    <3>1. queue' = queue /\ NoRepeats(queue) /\ NoRepeats(callbacks)
          /\ watch \notin Members(callbacks)
      BY <2>1 DEF PipeInv, OnePlace
    <3>2. CASE callbacks' = callbacks
      BY <3>1, <3>2
    <3>3. CASE callbacks' = Append(callbacks, watch)
      BY <2>2, <3>1, <3>3, AppendMembers
    <3>. QED  BY <2>1, <3>2, <3>3
  <2>4. None \notin Members(queue) /\ None \notin Members(callbacks')
    BY <2>2, <2>3, MembersType, GateAssumption DEF SemInv, TypeOK, GateTypeOK
  <2>5. OnePlace'
    BY <2>1, <2>3, <2>4 DEF PipeInv, OnePlace
  <2>6. InPipe' \subseteq InPipe \cup {None}
    BY <2>1, <2>3 DEF InPipe
  <2>. QED  BY <1>2, <1>3, <2>5, <2>6 DEF PipeInv
<1>6. CASE RunCallback
  <2>1. /\ Head(callbacks) \in Members(callbacks) /\ NoRepeats(callbacks')
        /\ Members(callbacks') = Members(callbacks) \ {Head(callbacks)}
    BY <1>6, TailMembers DEF RunCallback, SemInv, TypeOK, TabTypeOK, PipeInv, OnePlace
  <2>2. /\ UNCHANGED <<queue, watch>> /\ pending' \in {pending, Head(callbacks)}
        /\ Members(queue') = Members(queue) /\ NoRepeats(queue') = NoRepeats(queue)
    BY <1>6 DEF RunCallback, gateVars
  <2>3. OnePlace'
    BY <2>1, <2>2 DEF PipeInv, OnePlace
  <2>4. InPipe' \subseteq InPipe \cup {None}
    BY <2>1, <2>2 DEF InPipe
  <2>. QED  BY <1>2, <1>3, <2>3, <2>4 DEF PipeInv
<1>. QED  BY <1>4, <1>5, <1>6

(* Answering the displayed request takes it off the screen. *)
LEMMA PipeInvReply ==
  ASSUME SemInv, PipeInv, pending # None, NEW v \in Decisions, SendReply(pending, v),
         pending' = None, UNCHANGED <<queue, watch, callbacks, bypassOf, done, closed>>
  PROVE  PipeInv'
<1>. DEFINE p == pending
<1>1. p \in Requests /\ v # "none" /\ HoldTypeOK /\ TabTypeOK
  BY DEF SemInv, TypeOK, TabTypeOK, Decisions
<1>2. /\ InPipe' \subseteq (InPipe \ {p}) \cup {None}
      /\ OnePlace'
  <2>1. /\ Members(queue') = Members(queue) /\ Members(callbacks') = Members(callbacks)
        /\ NoRepeats(queue') = NoRepeats(queue) /\ NoRepeats(callbacks') = NoRepeats(callbacks)
    OBVIOUS
  <2>2. None \notin Members(queue) /\ None \notin Members(callbacks)
    BY MembersType, GateAssumption DEF SemInv, TypeOK, GateTypeOK, TabTypeOK
  <2>. QED  BY <2>1, <2>2 DEF PipeInv, OnePlace, InPipe
<1>3. PipeState'
  <2>1. ASSUME NEW r \in Requests, r \in InPipe, r # p
        PROVE  /\ answered'[r] = answered[r] /\ pc'[r] = pc[r]
    BY <1>1, <2>1 DEF SendReply, Move, HoldTypeOK, TabTypeOK
  <2>. QED  BY <1>2, <2>1, GateAssumption DEF PipeInv, PipeState
<1>4. AnswerState'
  <2>1. /\ answered[p] = "none" /\ reply[p] = "none"
        /\ \/ pc[p] \in {"await", "parked"}
           \/ pc[p] \in {"cancel", "release", "returned"} /\ bypassOf[p] \in closed
    BY <1>1 DEF PipeInv, PipeState, AnswerState, InPipe, SendReply
  <2>2. result[p] \notin {"edited", "dropped"}
    BY <1>1, <2>1 DEF PipeInv, AnswerState
  <2>3. answered' = [answered EXCEPT ![p] = v]
    BY DEF SendReply
  <2>4. CASE /\ pc[p] = "parked" /\ pc' = [pc EXCEPT ![p] = "release"]
             /\ result' = [result EXCEPT ![p] = v] /\ UNCHANGED reply
    BY <1>1, <2>1, <2>3, <2>4 DEF PipeInv, AnswerState, HoldTypeOK, TabTypeOK
  <2>5. CASE /\ pc[p] # "parked" /\ reply' = [reply EXCEPT ![p] = v]
             /\ UNCHANGED <<pc, result>>
    BY <1>1, <2>1, <2>2, <2>3, <2>5 DEF PipeInv, AnswerState, HoldTypeOK, TabTypeOK
  <2>. QED  BY <2>4, <2>5 DEF SendReply, Move, Return
<1>. QED  BY <1>2, <1>3, <1>4 DEF PipeInv

(* Closing the bypass sends the parked Holds that watch it to Cancel. *)
LEMMA PipeInvClose ==
  ASSUME SemInv, PipeInv, CloseBypass,
         UNCHANGED <<queue, watch, callbacks, pending, answered, reply, bypassOf, done>>
  PROVE  PipeInv'
<1>1. CASE UNCHANGED <<closed, pc, result>>
  BY <1>1 DEF PipeInv, OnePlace, PipeState, AnswerState, InPipe, Members, NoRepeats
<1>2. CASE ~bypassClosed
  <2>1. /\ InPipe' = InPipe /\ OnePlace'
    BY DEF PipeInv, OnePlace, InPipe, Members, NoRepeats
  <2>2. closed' = closed \cup {bypass}
    BY <1>2 DEF CloseBypass
  <2>3. ASSUME NEW r \in Requests
        PROVE  \/ pc'[r] = pc[r] /\ result'[r] = result[r]
               \/ pc[r] = "semwait" /\ pc'[r] = "returned" /\ result'[r] = "original"
               \/ /\ pc[r] = "parked" /\ pc'[r] = "cancel" /\ result'[r] = "original"
                  /\ bypassOf[r] \in closed'
    BY <1>2, <2>2 DEF CloseBypass, WokenBy
  <2>4. PipeState'
    BY <2>1, <2>2, <2>3 DEF PipeInv, PipeState
  <2>5. AnswerState'
    BY <2>2, <2>3 DEF PipeInv, AnswerState
  <2>. QED  BY <2>1, <2>4, <2>5 DEF PipeInv
<1>. QED  BY <1>1, <1>2 DEF CloseBypass

(* PipeInv is inductive. *)
LEMMA PipeInvStep == SemInv /\ PipeInv /\ [Next]_vars => PipeInv'
<1>. SUFFICES ASSUME SemInv, PipeInv, [Next]_vars PROVE PipeInv'
  OBVIOUS
<1>1. ASSUME UNCHANGED <<queue, watch, callbacks, pending, answered, reply, bypassOf, done,
                        closed, pc, result>>
      PROVE  PipeInv'
  BY <1>1 DEF PipeInv, OnePlace, PipeState, AnswerState, InPipe, Members, NoRepeats
<1>2. CASE \E r \in Requests : HoldBegin(r) \/ HoldStep(r)
  BY <1>2, PipeInvHold
<1>3. CASE WatchReceive \/ WatchPost \/ RunCallback
  BY <1>3, PipeInvWatch
<1>4. CASE ToggleOnFlag \/ ToggleOffFlag \/ ToggleOnReplace \/ SetScopeFilter \/ UNCHANGED vars
  BY <1>1, <1>4 DEF ToggleOnFlag, ToggleOffFlag, ToggleOnReplace, SetScopeFilter, vars,
                    gateVars, holdVars, tabVars
<1>5. CASE ToggleOffClose \/ ForwardAllRelease
  BY <1>5, PipeInvClose DEF ToggleOffClose, ForwardAllRelease
<1>6. CASE ToggleOffReply \/ ForwardAllReply \/ Decide
  <2>1. UNCHANGED <<queue, watch, callbacks, bypassOf, done, closed>> /\ pending' = None
    BY <1>6 DEF ToggleOffReply, ForwardAllReply, Decide, ForwardDisplayed, gateVars
  <2>2. CASE pending # None /\ \E v \in Decisions : SendReply(pending, v)
    BY <2>1, <2>2, PipeInvReply
  <2>3. CASE pending = None /\ UNCHANGED <<pc, result, reply, answered>>
    BY <1>1, <2>1, <2>3
  <2>4. "original" \in Decisions
    BY DEF Decisions
  <2>. QED  BY <1>6, <2>2, <2>3, <2>4 DEF ToggleOffReply, ForwardAllReply, Decide,
                                          ForwardDisplayed
<1>. QED  BY <1>2, <1>3, <1>4, <1>5, <1>6 DEF Next, Handler, User

(* The main goroutine never blocks sending a decision: the buffer of the   *)
(* displayed request is empty, because each request is displayed once and  *)
(* answered at most once.                                                  *)
THEOREM ReplyIsFree == Spec => []ReplyNeverBlocks
<1>1. SemInv /\ PipeInv => ReplyNeverBlocks
  <2>. SUFFICES ASSUME SemInv, PipeInv, pending # None
                PROVE  reply[pending] = "none" /\ answered[pending] = "none"
    BY DEF ReplyNeverBlocks
  <2>1. pending \in Requests \cap InPipe
    BY DEF SemInv, TypeOK, TabTypeOK, InPipe
  <2>. QED  BY <2>1 DEF PipeInv, PipeState, AnswerState
<1>. QED  BY <1>1, SemInvInit, SemInvStep, PipeInvInit, PipeInvStep, PTL DEF Spec

(* The user's decision is what Hold returns, unless the bypass channel the *)
(* Hold watches was closed, and nothing is dropped or altered unasked.     *)
THEOREM DecisionsAreApplied == Spec => []DecisionApplied
<1>1. PipeInv => DecisionApplied
  BY DEF PipeInv, AnswerState, DecisionApplied
<1>. QED  BY <1>1, SemInvInit, SemInvStep, PipeInvInit, PipeInvStep, PTL DEF Spec

(* A displayed request is replaced on the screen only after its Hold gave  *)
(* up on it: two undone requests in the pipe would both hold the semaphore.*)
THEOREM NothingDisplayedIsLost == Spec => DisplayedNotLost
<1>1. SemInv /\ PipeInv /\ [Next]_vars
        => [pending # None /\ pending' \notin {pending, None} => pending \in done]_vars
  <2>. SUFFICES ASSUME SemInv, PipeInv, Next, pending # None,
                       pending' \notin {pending, None}
                PROVE  pending \in done
    OBVIOUS
  <2>1. RunCallback /\ callbacks # <<>> /\ pending' = Head(callbacks) /\ pending' \notin done
    <3>1. ASSUME NEW r \in Requests, HoldBegin(r) \/ HoldStep(r) PROVE pending' = pending
      BY <3>1, HoldKeepsBypass DEF tabVars
    <3>2. ~(\E r \in Requests : HoldBegin(r) \/ HoldStep(r))
      BY <3>1
    <3>3. ~(WatchReceive \/ WatchPost \/ Handler \/ User)
      BY DEF WatchReceive, WatchPost, Handler, User, ToggleOnReplace, ToggleOffClose,
             ToggleOffReply, ForwardAllRelease, ToggleOnFlag, ToggleOffFlag, ForwardAllReply,
             Decide, SetScopeFilter, ForwardDisplayed, tabVars
    <3>. QED  BY <3>2, <3>3 DEF Next, RunCallback
  <2>2. /\ Head(callbacks) \in Members(callbacks)
        /\ Members(callbacks) \subseteq Requests
    BY <2>1, TailMembers, MembersType DEF SemInv, TypeOK, TabTypeOK, PipeInv, OnePlace
  <2>3. pending \in Requests \cap InPipe /\ pending' \in Requests \cap InPipe
    BY <2>1, <2>2 DEF SemInv, TypeOK, TabTypeOK, InPipe
  <2>4. \A r \in Requests \cap InPipe : r \notin done => pc[r] \in Holding
    BY DEF PipeInv, PipeState, Holding
  <2>. QED  BY <2>1, <2>3, <2>4 DEF SemInv, SemExclusive
<1>. QED  BY <1>1, SemInvInit, SemInvStep, PipeInvInit, PipeInvStep, PTL
          DEF Spec, DisplayedNotLost

-----------------------------------------------------------------------------
(* The order on the screen.                                                *)

(* Whoever waits for the semaphore came after the Hold that has it, and    *)
(* that Hold is not older than what was shown last.                        *)
OrderInv ==
    /\ Waiters # {} => sem = 1
    /\ lastShown < nextTicket /\ \A r \in Requests : ticket[r] < nextTicket
    /\ \A r \in Requests : pc[r] \in Holding \cup {"semwait"} => lastShown <= ticket[r]
    /\ \A r, w \in Requests :
         pc[r] \in Holding /\ pc[w] = "semwait" => ticket[r] <= ticket[w]

(* A step after which nobody holds or waits who did not before.            *)
LEMMA OrderKept ==
  ASSUME OrderInv, UNCHANGED <<sem, ticket, nextTicket, lastShown>>,
         \A r \in Requests : /\ pc'[r] \in Holding => pc[r] \in Holding
                             /\ pc'[r] = "semwait" => pc[r] = "semwait"
  PROVE  OrderInv'
BY DEF OrderInv, Waiters

(* Nothing but acquire and release changes the queue at the semaphore.     *)
LEMMA OrderHold ==
  ASSUME SemInv, OrderInv, NEW r \in Requests, HoldBegin(r) \/ HoldStep(r)
  PROVE  OrderInv'
<1>0. /\ lastShown \in Nat /\ lastShown' = lastShown /\ nextTicket \in Nat \ {0}
      /\ pc \in [Requests -> Steps] /\ ticket \in [Requests -> Nat]
  BY HoldKeepsBypass DEF tabVars, SemInv, TypeOK, HoldTypeOK, TabTypeOK
<1>1. ASSUME NEW from, NEW to, Move(r, from, to), to # "semwait",
             to \in Holding => from \in Holding, UNCHANGED <<sem, ticket, nextTicket>>
      PROVE  OrderInv'
  BY <1>0, <1>1, OrderKept DEF Move
<1>2. CASE HoldAcquire(r)
  <2>1. /\ pc[r] = "acquire" /\ nextTicket' = nextTicket + 1
        /\ ticket' = [ticket EXCEPT ![r] = nextTicket]
    BY <1>2 DEF HoldAcquire, Move
  <2>2. ticket'[r] = nextTicket /\ \A s \in Requests \ {r} : ticket'[s] = ticket[s]
    BY <1>0, <2>1
  <2>3. \A s \in Requests : ticket'[s] < nextTicket' /\ ticket'[s] <= nextTicket
    BY <1>0, <2>1, <2>2 DEF OrderInv
  <2>4. lastShown < nextTicket'
    BY <1>0, <2>1 DEF OrderInv
  <2>5. CASE sem = 0 /\ sem' = 1 /\ pc' = [pc EXCEPT ![r] = "recheckEnabled"]
    <3>1. \A s \in Requests : pc[s] # "semwait" /\ pc[s] \notin Holding
      BY <2>5 DEF OrderInv, Waiters, SemInv, SemExclusive
    <3>2. \A s \in Requests : pc'[s] # "semwait" /\ (pc'[s] \in Holding => s = r)
      BY <1>0, <2>5, <3>1
    <3>3. lastShown <= ticket'[r]
      BY <1>0, <2>2 DEF OrderInv
    <3>. QED  BY <1>0, <2>3, <2>4, <2>5, <3>2, <3>3 DEF OrderInv, Waiters, Holding
  <2>6. CASE sem' = sem /\ pc' = [pc EXCEPT ![r] = "returned"]
    <3>1. pc'[r] \notin Holding \cup {"semwait"} /\ \A s \in Requests \ {r} : pc'[s] = pc[s]
      BY <1>0, <2>6 DEF Holding
    <3>. QED  BY <1>0, <2>2, <2>3, <2>4, <2>6, <3>1 DEF OrderInv, Waiters
  <2>7. CASE sem = 1 /\ sem' = sem /\ pc' = [pc EXCEPT ![r] = "semwait"]
    <3>1. pc'[r] = "semwait" /\ \A s \in Requests \ {r} : pc'[s] = pc[s]
      BY <1>0, <2>7
    <3>2. "semwait" \notin Holding
      BY DEF Holding
    <3>3. lastShown <= ticket'[r]
      BY <1>0, <2>2 DEF OrderInv
    <3>. QED  BY <1>0, <2>2, <2>3, <2>4, <2>7, <3>1, <3>2, <3>3 DEF OrderInv, Waiters
  <2>. QED  BY <1>2, <2>5, <2>6, <2>7 DEF HoldAcquire, Move
<1>3. CASE HoldRelease(r)
  <2>1. pc[r] = "release" /\ UNCHANGED <<ticket, nextTicket>>
    BY <1>3 DEF HoldRelease
  <2>2. \A s \in Requests : pc[s] \in Holding => s = r
    BY <2>1 DEF SemInv, SemExclusive, Holding
  <2>3. CASE Waiters = {} /\ pc' = [pc EXCEPT ![r] = "returned"]
    <3>1. \A s \in Requests : pc'[s] \notin Holding \cup {"semwait"}
      BY <1>0, <2>2, <2>3 DEF Waiters, Holding
    <3>. QED  BY <1>0, <2>1, <3>1 DEF OrderInv, Waiters
  <2>4. ASSUME NEW w \in Waiters, \A x \in Waiters : ticket[w] <= ticket[x],
               pc' = [pc EXCEPT ![r] = "returned", ![w] = "recheckEnabled"], sem' = sem
        PROVE  OrderInv'
    <3>1. w \in Requests /\ pc[w] = "semwait" /\ w # r
      BY <2>1 DEF Waiters
    <3>2. \A s \in Requests : /\ pc'[s] = "semwait" => pc[s] = "semwait"
                              /\ pc'[s] \in Holding => s = w
      BY <1>0, <2>2, <2>4, <3>1 DEF Holding
    <3>3. \A s \in Requests : pc[s] = "semwait" => ticket[w] <= ticket[s]
      BY <2>4 DEF Waiters
    <3>. QED  BY <1>0, <2>1, <2>4, <3>1, <3>2, <3>3 DEF OrderInv, Waiters
  <2>. QED  BY <1>3, <2>3, <2>4 DEF HoldRelease, GiveBackSem
<1>4. CASE HoldBegin(r) \/ HoldScope(r) \/ HoldCapture(r)
  BY <1>1, <1>4 DEF HoldBegin, HoldScope, HoldCapture, gateVars, Holding
<1>5. CASE HoldRecheckEnabled(r) \/ HoldRecheckBypass(r) \/ HoldEnqueue(r)
  BY <1>1, <1>5 DEF HoldRecheckEnabled, HoldRecheckBypass, HoldEnqueue, gateVars, Holding
<1>6. CASE HoldAwait(r) \/ HoldCancel(r)
  BY <1>1, <1>6 DEF HoldAwait, HoldCancel, gateVars, Holding
<1>. QED  BY <1>2, <1>3, <1>4, <1>5, <1>6 DEF HoldStep

(* What is shown is the Hold that has the semaphore: it came after all     *)
(* that were shown before, and before all that wait.                       *)
LEMMA ShownHasTheSemaphore ==
  ASSUME SemInv, PipeInv, RunCallback
  PROVE  \/ UNCHANGED <<pending, lastShown>>
         \/ \E p \in Requests : pc[p] \in Holding /\ lastShown' = ticket[p]
<1>1. /\ callbacks \in Seq(Requests) /\ callbacks # <<>>
      /\ Head(callbacks) \in Members(callbacks) /\ Members(callbacks) \subseteq Requests
  BY TailMembers, MembersType DEF SemInv, TypeOK, TabTypeOK, RunCallback, PipeInv, OnePlace
<1>2. Head(callbacks) \in Requests \cap InPipe
  BY <1>1 DEF InPipe
<1>3. Head(callbacks) \notin done => pc[Head(callbacks)] \in Holding
  BY <1>2 DEF PipeInv, PipeState, Holding
<1>. QED  BY <1>2, <1>3 DEF RunCallback

(* OrderInv is inductive. *)
LEMMA OrderInvStep == SemInv /\ PipeInv /\ OrderInv /\ [Next]_vars => OrderInv'
<1>. SUFFICES ASSUME SemInv, PipeInv, OrderInv, [Next]_vars PROVE OrderInv'
  OBVIOUS
<1>1. CASE \E r \in Requests : HoldBegin(r) \/ HoldStep(r)
  BY <1>1, OrderHold
<1>2. CASE RunCallback
  <2>1. UNCHANGED <<sem, pc, ticket, nextTicket>>
    BY <1>2 DEF RunCallback, gateVars, holdVars
  <2>2. CASE UNCHANGED lastShown
    BY <2>1, <2>2, OrderKept
  <2>3. ASSUME NEW p \in Requests, pc[p] \in Holding, lastShown' = ticket[p]
        PROVE  OrderInv'
    <3>1. \A r \in Requests : pc[r] \in Holding => r = p
      BY <2>3 DEF SemInv, SemExclusive
    <3>2. ticket \in [Requests -> Nat]
      BY DEF SemInv, TypeOK, HoldTypeOK
    <3>. QED  BY <2>1, <2>3, <3>1, <3>2 DEF OrderInv, Waiters
  <2>. QED  BY <1>2, <2>2, <2>3, ShownHasTheSemaphore
<1>3. CASE WatchReceive \/ WatchPost \/ ToggleOnFlag \/ ToggleOffFlag \/ ToggleOnReplace
           \/ SetScopeFilter \/ UNCHANGED vars
  BY <1>3, OrderKept DEF WatchReceive, WatchPost, ToggleOnFlag, ToggleOffFlag, ToggleOnReplace,
                         SetScopeFilter, vars, gateVars, holdVars, tabVars
<1>4. CASE ToggleOffClose \/ ForwardAllRelease
  <2>1. CloseBypass /\ UNCHANGED <<sem, ticket, nextTicket, lastShown>>
    BY <1>4 DEF ToggleOffClose, ForwardAllRelease
  <2>2. \A r \in Requests : /\ pc'[r] \in Holding => pc[r] \in Holding
                            /\ pc'[r] = "semwait" => pc[r] = "semwait"
    BY <2>1 DEF CloseBypass, WokenBy, Holding
  <2>. QED  BY <2>1, <2>2, OrderKept
<1>5. CASE ToggleOffReply \/ ForwardAllReply \/ Decide
  <2>1. UNCHANGED <<sem, ticket, nextTicket, lastShown>>
    BY <1>5 DEF ToggleOffReply, ForwardAllReply, Decide, ForwardDisplayed, gateVars
  <2>2. pc' = pc \/ \E v : pending # None /\ SendReply(pending, v)
    BY <1>5 DEF ToggleOffReply, ForwardAllReply, Decide, ForwardDisplayed
  <2>3. \A r \in Requests : /\ pc'[r] \in Holding => pc[r] \in Holding
                            /\ pc'[r] = "semwait" => pc[r] = "semwait"
    BY <2>2 DEF SendReply, Move, Holding, SemInv, TypeOK, HoldTypeOK
  <2>. QED  BY <2>1, <2>3, OrderKept
<1>. QED  BY <1>1, <1>2, <1>3, <1>4, <1>5 DEF Next, Handler, User

(* Requests come on the screen in the order in which they reached the      *)
(* semaphore of Hold, over the gate's channel, watchQueue and callbacks.   *)
THEOREM ShownInOrder == Spec => ShownInArrivalOrder
<1>1. Init => OrderInv
  BY DEF Init, OrderInv, Waiters, Holding
<1>2. SemInv /\ PipeInv /\ OrderInv /\ [Next]_vars => [lastShown' >= lastShown]_vars
  <2>. SUFFICES ASSUME SemInv, PipeInv, OrderInv, Next
                PROVE  lastShown' >= lastShown
    OBVIOUS
  <2>0. lastShown \in Nat /\ ticket \in [Requests -> Nat]
    BY DEF SemInv, TypeOK, HoldTypeOK, TabTypeOK
  <2>1. CASE UNCHANGED lastShown
    BY <2>0, <2>1
  <2>2. CASE RunCallback
    BY <2>0, <2>1, <2>2, ShownHasTheSemaphore DEF OrderInv
  <2>3. CASE \E r \in Requests : HoldBegin(r) \/ HoldStep(r)
    BY <2>1, <2>3, HoldKeepsBypass DEF tabVars
  <2>4. CASE WatchReceive \/ WatchPost \/ Handler \/ User
    BY <2>1, <2>4
    DEF WatchReceive, WatchPost, Handler, User, ToggleOnReplace, ToggleOffClose, ToggleOffReply,
        ForwardAllRelease, ToggleOnFlag, ToggleOffFlag, ForwardAllReply, Decide, SetScopeFilter,
        ForwardDisplayed, tabVars
  <2>. QED  BY <2>2, <2>3, <2>4 DEF Next
<1>. QED  BY <1>1, <1>2, SemInvInit, SemInvStep, PipeInvInit, PipeInvStep, OrderInvStep, PTL
          DEF Spec, ShownInArrivalOrder
=============================================================================
