----------------------------- MODULE StoreProofs -----------------------------
(***************************************************************************)
(* Proofs about internal/store: the serialiser of its writes, which        *)
(* implements SerialStore for any number of writes of any kind, any        *)
(* capacities and any moment of Close; and the cache of the scope table,   *)
(* which uses a SerialStore, for any lookups, changes and hosts.           *)
(***************************************************************************)
EXTENDS StoreWriter, ScopeCache, SequenceTheorems, TLAPS

-----------------------------------------------------------------------------
(* The members of a FIFO channel, and channels that hold nothing twice.    *)

Members(s) == {s[i] : i \in 1 .. Len(s)}

NoRepeats(s) == \A i, j \in 1 .. Len(s) : s[i] = s[j] => i = j

(* Append adds one member and, if that is new, no repetition.              *)
LEMMA AppendMembers ==
  ASSUME NEW S, NEW s \in Seq(S), NEW x \in S, NoRepeats(s), x \notin Members(s)
  PROVE  Members(Append(s, x)) = Members(s) \cup {x} /\ NoRepeats(Append(s, x))
<1>1. /\ Len(Append(s, x)) = Len(s) + 1
      /\ \A i \in 1 .. Len(s) : Append(s, x)[i] = s[i]
      /\ Append(s, x)[Len(s) + 1] = x
      /\ Len(s) \in Nat
  BY AppendProperties, LenProperties
<1>2. Members(Append(s, x)) = Members(s) \cup {x}
  <2>1. \A i \in 1 .. Len(s) + 1 : i \in 1 .. Len(s) \/ i = Len(s) + 1
    BY <1>1
  <2>2. 1 .. Len(s) \subseteq 1 .. Len(s) + 1 /\ Len(s) + 1 \in 1 .. Len(s) + 1
    BY <1>1
  <2>. QED  BY <1>1, <2>1, <2>2 DEF Members
<1>3. NoRepeats(Append(s, x))
  BY <1>1 DEF NoRepeats, Members
<1>. QED  BY <1>2, <1>3

(* The members of a sequence over S are in S.                              *)
LEMMA MembersType ==
  ASSUME NEW S, NEW s \in Seq(S)
  PROVE  Members(s) \subseteq S
BY ElementOfSeq DEF Members

(* Tail takes away the first member, for good if there are no repetitions. *)
LEMMA TailMembers ==
  ASSUME NEW S, NEW s \in Seq(S), s # <<>>, NoRepeats(s)
  PROVE  /\ Head(s) \in Members(s)
         /\ Members(Tail(s)) = Members(s) \ {Head(s)}
         /\ NoRepeats(Tail(s))
<1>1. /\ Len(s) \in Nat \ {0} /\ Len(Tail(s)) = Len(s) - 1
      /\ \A i \in 1 .. Len(s) - 1 : Tail(s)[i] = s[i + 1]
      /\ Head(s) = s[1]
  BY HeadTailProperties, LenProperties, EmptySeq
<1>2. Head(s) \in Members(s)
  BY <1>1 DEF Members
<1>3. NoRepeats(Tail(s))
  BY <1>1 DEF NoRepeats
<1>4. ASSUME NEW x \in Members(Tail(s)) PROVE x \in Members(s) \ {Head(s)}
  <2>1. PICK i \in 1 .. Len(s) - 1 : x = s[i + 1]
    BY <1>1 DEF Members
  <2>. QED  BY <1>1, <2>1 DEF Members, NoRepeats
<1>5. ASSUME NEW x \in Members(s) \ {Head(s)} PROVE x \in Members(Tail(s))
  <2>1. PICK i \in 1 .. Len(s) : x = s[i]
    BY DEF Members
  <2>2. i # 1 /\ i - 1 \in 1 .. Len(s) - 1
    BY <1>1, <2>1
  <2>. QED  BY <1>1, <2>1, <2>2 DEF Members
<1>. QED  BY <1>2, <1>3, <1>4, <1>5

-----------------------------------------------------------------------------
(* The writer.                                                             *)

(* The part of the type invariant the refinement needs. *)
WriterType ==
    /\ pc \in [Writers -> {"idle", "submit", "waiting", "notify", "returned"}]
    /\ ret \in [Writers -> {"none", "ok", "error", "closed"}]
    /\ errorChan \in [Writers -> {"none", "ok", "error"}]
    /\ writeCh \in Seq(Writers)
    /\ cur \in Writers \cup {None}
    /\ step \in {"exec", "checkDone", "send", "answer"}
    /\ outcome \in {"none", "ok", "error"}
    /\ committed \in Seq(Writers)

(* Closures sent to writeLoop and not yet reported. *)
InFlight == Members(writeCh) \cup (IF cur = None THEN {} ELSE {cur})

(* A closure is in flight once at most, its caller still waits for it or   *)
(* gave up because the store was closed, and it has not been reported.     *)
FlightInv ==
    /\ NoRepeats(writeCh)
    /\ cur \notin Members(writeCh)
    /\ \A w \in InFlight :
         /\ errorChan[w] = "none"
         /\ pc[w] = "waiting" \/ (pc[w] = "returned" /\ ret[w] = "closed")
    /\ \A w \in Members(writeCh) : w \notin Executed

(* What writeLoop is about to report, and what it has reported, is what    *)
(* the database did; only a write that is not Single may be reported failed*)
(* although it was executed.                                               *)
Truthful(w, v) ==
    \/ v = "ok" /\ w \in Executed
    \/ v = "error" /\ (w \in Single => w \notin Executed)

ReportInv ==
    /\ NoRepeats(committed)
    /\ cur # None =>
         /\ step = "exec" => cur \notin Executed
         /\ step \in {"checkDone", "send"} => cur \in Executed /\ outcome = "ok"
         /\ step = "answer" => Truthful(cur, outcome)
    /\ \A w \in Writers :
         /\ errorChan[w] # "none" => Truthful(w, errorChan[w])
         /\ pc[w] \in {"idle", "submit"} => w \notin Executed /\ errorChan[w] = "none"

WriterInv == WriterType /\ FlightInv /\ ReportInv

(* The type of the variables the refinement does not need, and the bounds  *)
(* of the channels.                                                        *)
BufferType ==
    /\ Len(writeCh) <= QueueCap
    /\ loop \in {"select", "drain", "stopped"}
    /\ closing \in Closing
    /\ updates \in Seq(Writers) /\ Len(updates) <= UpdateCap
    /\ notices \in 0 .. NoticeCap
    /\ panicked \in BOOLEAN
    /\ seen \in Nat

-----------------------------------------------------------------------------
(* The invariant, one action at a time.                                    *)

(* Nothing is in flight before the first write.                            *)
LEMMA WriterInvInit == Init => WriterInv
<1>. SUFFICES ASSUME Init PROVE WriterInv
  OBVIOUS
<1>1. Len(<<>>) = 0 /\ <<>> \in Seq(Writers) /\ Members(<<>>) = {} /\ 1 .. 0 = {}
  BY EmptySeq DEF Members
<1>2. Executed = {}
  BY <1>1 DEF Init, Executed
<1>. QED  BY <1>1, <1>2, WriterAssumption
          DEF Init, WriterInv, WriterType, FlightInv, ReportInv, Truthful, InFlight, NoRepeats

(* The caller's side: a write enters the queue from "submit", where nothing*)
(* of it is in flight, and leaves "waiting" with an answer or for Close.   *)
LEMMA WriterInvCall ==
  ASSUME WriterInv, NEW w \in Writers, Begin(w) \/ Submit(w) \/ Await(w) \/ Notify(w)
  PROVE  WriterInv'
<1>. USE DEF WriterInv, WriterType
<1>1. CASE Begin(w)
  <2>1. UNCHANGED <<ret, errorChan, writeCh, cur, step, outcome, committed>>
        /\ pc[w] = "idle" /\ pc' = [pc EXCEPT ![w] = "submit"]
    BY <1>1 DEF Begin, loopVars
  <2>2. Executed' = Executed /\ InFlight' = InFlight /\ Members(writeCh)' = Members(writeCh)
    BY <2>1 DEF Executed, InFlight, Members
  <2>3. w \notin InFlight
    BY <2>1 DEF FlightInv
  <2>4. FlightInv'
    BY <2>1, <2>2, <2>3 DEF FlightInv, NoRepeats, InFlight
  <2>5. ReportInv'
    BY <2>1, <2>2 DEF ReportInv, Truthful
  <2>. QED  BY <2>1, <2>4, <2>5
<1>2. CASE Submit(w)
  <2>1. UNCHANGED <<errorChan, cur, step, outcome, committed>> /\ pc[w] = "submit"
        /\ Executed' = Executed
    BY <1>2 DEF Submit, loopVars, Executed
  <2>2. w \notin InFlight /\ w \notin Executed /\ errorChan[w] = "none"
    BY <2>1 DEF FlightInv, ReportInv, Truthful
  <2>3. CASE writeCh' = Append(writeCh, w) /\ pc' = [pc EXCEPT ![w] = "waiting"]
             /\ UNCHANGED ret
    <3>1. w \notin Members(writeCh) /\ NoRepeats(writeCh) /\ w # cur
      BY <2>2, WriterAssumption DEF InFlight, FlightInv
    <3>2. Members(writeCh)' = Members(writeCh) \cup {w} /\ NoRepeats(writeCh')
      BY <2>3, <3>1, AppendMembers
    <3>3. writeCh' \in Seq(Writers)
      BY <2>3, AppendProperties
    <3>4. FlightInv'
      BY <2>1, <2>2, <2>3, <3>1, <3>2 DEF FlightInv, InFlight
    <3>5. ReportInv'
      BY <2>1, <2>3 DEF ReportInv, Truthful
    <3>. QED  BY <2>1, <2>3, <3>3, <3>4, <3>5
  <2>4. CASE ret' = [ret EXCEPT ![w] = "closed"] /\ pc' = [pc EXCEPT ![w] = "returned"]
             /\ UNCHANGED writeCh
    <3>1. Members(writeCh)' = Members(writeCh) /\ NoRepeats(writeCh)' = NoRepeats(writeCh)
          /\ InFlight' = InFlight
      BY <2>1, <2>4 DEF InFlight
    <3>2. FlightInv'
      BY <2>1, <2>2, <2>4, <3>1 DEF FlightInv
    <3>3. ReportInv'
      BY <2>1, <2>4 DEF ReportInv, Truthful
    <3>. QED  BY <2>1, <2>4, <3>2, <3>3
  <2>. QED  BY <1>2, <2>3, <2>4 DEF Submit
<1>3. CASE Await(w) \/ Notify(w)
  <2>1. /\ UNCHANGED <<writeCh, cur, step, outcome, committed>>
        /\ \/ /\ pc[w] = "waiting" /\ errorChan[w] # "none"
              /\ ret' = [ret EXCEPT ![w] = errorChan[w]]
              /\ errorChan' = [errorChan EXCEPT ![w] = "none"]
              /\ \E to \in {"notify", "returned"} : pc' = [pc EXCEPT ![w] = to]
           \/ /\ pc[w] = "waiting"
              /\ ret' = [ret EXCEPT ![w] = "closed"]
              /\ pc' = [pc EXCEPT ![w] = "returned"]
              /\ UNCHANGED errorChan
           \/ /\ pc[w] = "notify"
              /\ pc' = [pc EXCEPT ![w] = "returned"]
              /\ UNCHANGED <<ret, errorChan>>
    BY <1>3 DEF Await, Notify, loopVars
  <2>2. Executed' = Executed /\ InFlight' = InFlight /\ Members(writeCh)' = Members(writeCh)
        /\ NoRepeats(writeCh)' = NoRepeats(writeCh)
    BY <2>1 DEF Executed, InFlight
  <2>3. errorChan[w] # "none" \/ pc[w] = "notify" => w \notin InFlight
    BY DEF FlightInv
  <2>4. WriterType'
    BY <2>1
  <2>5. FlightInv'
    <3>1. InFlight \subseteq Writers
      BY MembersType DEF InFlight
    <3>2. ASSUME NEW v \in InFlight
          PROVE  errorChan'[v] = "none"
                 /\ (pc'[v] = "waiting" \/ (pc'[v] = "returned" /\ ret'[v] = "closed"))
      <4>1. CASE v = w
        BY <2>1, <2>3, <3>1, <4>1 DEF FlightInv
      <4>2. CASE v # w
        BY <2>1, <3>1, <4>2 DEF FlightInv
      <4>. QED  BY <4>1, <4>2
    <3>. QED  BY <2>1, <2>2, <3>2 DEF FlightInv
  <2>6. ReportInv'
    BY <2>1, <2>2 DEF ReportInv, Truthful
  <2>. QED  BY <2>4, <2>5, <2>6
<1>. QED  BY <1>1, <1>2, <1>3

(* writeLoop's side: what it takes from the queue has not been executed,   *)
(* and it answers each closure once, with what became of it.               *)
LEMMA WriterInvLoop ==
  ASSUME WriterInv, Loop
  PROVE  WriterInv'
<1>. USE DEF WriterInv, WriterType
<1>1. Members(writeCh) \subseteq Writers
  BY MembersType
<1>2. CASE LoopReceive
  <2>1. /\ cur' = Head(writeCh) /\ writeCh' = Tail(writeCh) /\ step' = "exec"
        /\ writeCh # <<>> /\ cur = None
        /\ UNCHANGED <<pc, ret, errorChan, outcome, committed>> /\ Executed' = Executed
    BY <1>2 DEF LoopReceive, callVars, Executed
  <2>2. /\ Head(writeCh) \in Members(writeCh)
        /\ Members(Tail(writeCh)) = Members(writeCh) \ {Head(writeCh)}
        /\ NoRepeats(Tail(writeCh))
        /\ Tail(writeCh) \in Seq(Writers)
    BY <2>1, TailMembers, HeadTailProperties DEF FlightInv
  <2>3. Head(writeCh) \in Writers /\ Head(writeCh) \notin Executed
    BY <1>1, <2>2 DEF FlightInv
  <2>4. InFlight' = InFlight
    BY <2>1, <2>2, <2>3, WriterAssumption DEF InFlight
  <2>5. FlightInv'
    BY <2>1, <2>2, <2>4 DEF FlightInv
  <2>6. ReportInv'
    BY <2>1, <2>3 DEF ReportInv, Truthful
  <2>. QED  BY <2>1, <2>2, <2>3, <2>5, <2>6
<1>3. CASE LoopSeeDone \/ LoopStop
  <2>1. UNCHANGED <<pc, ret, errorChan, writeCh, cur, step, outcome, committed>>
    BY <1>3 DEF LoopSeeDone, LoopStop, callVars
  <2>. QED  BY <2>1 DEF FlightInv, ReportInv, Truthful, InFlight, Executed
<1>4. CASE ExecOK \/ ExecThenFail
  <2>1. /\ cur \in Writers /\ step = "exec" /\ committed' = Append(committed, cur)
        /\ \/ outcome' = "ok" /\ step' \in {"checkDone", "answer"}
           \/ outcome' = "error" /\ step' = "answer" /\ cur \notin Single
        /\ UNCHANGED <<pc, ret, errorChan, writeCh, cur>>
    BY <1>4 DEF ExecOK, ExecThenFail, callVars
  <2>2. cur \in InFlight /\ cur \notin Executed
    BY <2>1, WriterAssumption DEF InFlight, ReportInv
  <2>3. /\ Executed' = Executed \cup {cur} /\ NoRepeats(committed')
        /\ committed' \in Seq(Writers)
    BY <2>1, <2>2, AppendMembers, AppendProperties DEF Executed, Members, ReportInv
  <2>4. InFlight' = InFlight /\ Members(writeCh)' = Members(writeCh)
        /\ NoRepeats(writeCh)' = NoRepeats(writeCh)
    BY <2>1 DEF InFlight
  <2>5. FlightInv'
    BY <2>1, <2>3, <2>4 DEF FlightInv
  <2>6. errorChan[cur] = "none" /\ pc[cur] \notin {"idle", "submit"}
    BY <2>2 DEF FlightInv
  <2>7. ReportInv'
    BY <2>1, <2>3, <2>6 DEF ReportInv, Truthful
  <2>. QED  BY <2>1, <2>3, <2>5, <2>7
<1>5. CASE ExecFail \/ CheckDone \/ SendUpdate
  <2>1. /\ UNCHANGED <<pc, ret, errorChan, writeCh, cur, committed>> /\ cur # None
        /\ \/ step = "exec" /\ step' = "answer" /\ outcome' = "error"
           \/ step = "checkDone" /\ step' \in {"answer", "send"} /\ outcome' = outcome
           \/ step = "send" /\ step' = "answer" /\ outcome' = outcome
    BY <1>5 DEF ExecFail, CheckDone, SendUpdate, callVars
  <2>2. Executed' = Executed /\ InFlight' = InFlight /\ Members(writeCh)' = Members(writeCh)
        /\ NoRepeats(writeCh)' = NoRepeats(writeCh) /\ NoRepeats(committed)' = NoRepeats(committed)
    BY <2>1 DEF Executed, InFlight
  <2>3. FlightInv'
    BY <2>1, <2>2 DEF FlightInv
  <2>4. ReportInv'
    BY <2>1, <2>2 DEF ReportInv, Truthful
  <2>. QED  BY <2>1, <2>3, <2>4
<1>6. CASE Answer
  <2>1. /\ cur \in Writers /\ step = "answer" /\ cur' = None /\ step' = "exec" /\ outcome' = "none"
        /\ errorChan' = [errorChan EXCEPT ![cur] = outcome]
        /\ UNCHANGED <<pc, ret, writeCh, committed>> /\ Executed' = Executed
    BY <1>6 DEF Answer, Executed
  <2>2. Truthful(cur, outcome) /\ cur \in InFlight
    BY <2>1, WriterAssumption DEF ReportInv, Truthful, InFlight
  <2>3. InFlight' = InFlight \ {cur} /\ Members(writeCh)' = Members(writeCh)
        /\ NoRepeats(writeCh)' = NoRepeats(writeCh) /\ NoRepeats(committed)' = NoRepeats(committed)
    BY <2>1, WriterAssumption DEF InFlight, FlightInv
  <2>4. FlightInv'
    BY <1>1, <2>1, <2>3, WriterAssumption DEF FlightInv
  <2>5. pc[cur] \notin {"idle", "submit"}
    BY <2>2 DEF FlightInv
  <2>6. ReportInv'
    BY <2>1, <2>2, <2>3, <2>5 DEF ReportInv, Truthful
  <2>. QED  BY <2>1, <2>4, <2>6
<1>. QED  BY <1>2, <1>3, <1>4, <1>5, <1>6 DEF Loop

(* Every step keeps the invariant: Close and the readers touch none of it. *)
LEMMA WriterInvStep == WriterInv /\ [Next]_vars => WriterInv'
<1>. SUFFICES ASSUME WriterInv, [Next]_vars PROVE WriterInv'
  OBVIOUS
<1>1. CASE Close \/ ReceiveUpdate \/ ReceiveNotice \/ UNCHANGED vars
  <2>1. UNCHANGED <<pc, ret, errorChan, writeCh, cur, step, outcome, committed>>
    BY <1>1 DEF Close, CloseStep, ReceiveUpdate, ReceiveNotice, vars, callVars, loopVars
  <2>. QED  BY <2>1 DEF WriterInv, WriterType, FlightInv, ReportInv, Truthful, InFlight, Executed
<1>. QED  BY <1>1, WriterInvCall, WriterInvLoop DEF Next

-----------------------------------------------------------------------------
(* The refinement.                                                         *)

(* Every step of the store is a step of SerialStore or leaves it alone.    *)
LEMMA SerialStep == WriterInv /\ [Next]_vars => [Serial!Next]_(Serial!storeVars)
<1>. SUFFICES ASSUME WriterInv, [Next]_vars PROVE [Serial!Next]_(Serial!storeVars)
  OBVIOUS
<1>. USE DEF WriterInv, WriterType
<1>0. Serial!Applied = Executed
  BY DEF Serial!Applied, Executed
<1>1. ASSUME NEW w \in Writers, Begin(w)
      PROVE  Serial!Call(w)
  <2>1. CallView[w] = "none" /\ committed' = committed
        /\ pc[w] = "idle" /\ pc' = [pc EXCEPT ![w] = "submit"] /\ ret' = ret
    BY <1>1 DEF Begin, loopVars, CallView
  <2>2. CallView' = [CallView EXCEPT ![w] = "called"]
    BY <2>1 DEF CallView
  <2>. QED  BY <2>1, <2>2 DEF Serial!Call
<1>2. ASSUME NEW w \in Writers, Submit(w) \/ Await(w)
      PROVE  Serial!Next \/ UNCHANGED Serial!storeVars
  <2>1. committed' = committed /\ pc[w] \in {"submit", "waiting"}
    BY <1>2 DEF Submit, Await, loopVars
  <2>2. CASE pc' = [pc EXCEPT ![w] = "waiting"] /\ ret' = ret
    BY <2>1, <2>2 DEF CallView, Serial!storeVars
  <2>3. CASE \E v \in Serial!Outcomes :
               /\ \E to \in {"returned", "notify"} : pc' = [pc EXCEPT ![w] = to]
               /\ ret' = [ret EXCEPT ![w] = v]
               /\ v = "closed" \/ v = errorChan[w]
    <3>1. PICK v \in Serial!Outcomes :
               /\ \E to \in {"returned", "notify"} : pc' = [pc EXCEPT ![w] = to]
               /\ ret' = [ret EXCEPT ![w] = v]
               /\ v = "closed" \/ v = errorChan[w]
      BY <2>3
    <3>2. CallView[w] = "called" /\ CallView' = [CallView EXCEPT ![w] = v]
      BY <2>1, <3>1 DEF CallView
    <3>3. (v = "ok" => w \in Executed) /\ (v = "error" /\ w \in Single => w \notin Executed)
      BY <3>1 DEF ReportInv, Truthful, Serial!Outcomes
    <3>4. Serial!Return(w, v)
      BY <1>0, <2>1, <3>2, <3>3 DEF Serial!Return
    <3>. QED  BY <3>4 DEF Serial!Next
  <2>. QED  BY <1>2, <2>2, <2>3 DEF Submit, Await, Serial!Outcomes
<1>3. CASE ExecOK \/ ExecThenFail
  <2>1. /\ cur \in Writers /\ step = "exec" /\ committed' = Append(committed, cur)
        /\ UNCHANGED <<pc, ret>>
    BY <1>3 DEF ExecOK, ExecThenFail, callVars
  <2>2. cur \in InFlight /\ cur \notin Executed /\ CallView' = CallView
    BY <2>1, WriterAssumption DEF InFlight, ReportInv, CallView
  <2>3. CallView[cur] \in {"called", "closed"}
    BY <2>1, <2>2 DEF FlightInv, CallView
  <2>4. Serial!Apply(cur)
    BY <1>0, <2>1, <2>2, <2>3 DEF Serial!Apply
  <2>. QED  BY <2>1, <2>4 DEF Serial!Next
<1>4. CASE UNCHANGED <<pc, ret, committed>>
  BY <1>4 DEF CallView, Serial!storeVars
<1>5. ASSUME NEW w \in Writers, Notify(w)
      PROVE  UNCHANGED Serial!storeVars
  <2>1. pc[w] = "notify" /\ pc' = [pc EXCEPT ![w] = "returned"] /\ UNCHANGED <<ret, committed>>
    BY <1>5 DEF Notify, loopVars
  <2>. QED  BY <2>1 DEF CallView, Serial!storeVars
<1>6. (Loop /\ ~ExecOK /\ ~ExecThenFail) \/ Close \/ ReceiveUpdate \/ ReceiveNotice \/ UNCHANGED vars
        => UNCHANGED <<pc, ret, committed>>
  BY DEF Loop, LoopReceive, LoopSeeDone, LoopStop, ExecFail, CheckDone, SendUpdate, Answer,
         Close, CloseStep, ReceiveUpdate, ReceiveNotice, vars, callVars, loopVars
<1>. QED  BY <1>1, <1>2, <1>3, <1>4, <1>5, <1>6 DEF Next, Serial!Next

(* The store keeps the promise of SerialStore whatever moment Close picks: *)
(* a write that returned nil is in the database, one that returned its own *)
(* error will not be executed any more (and has not been, if it can only   *)
(* report the error of its one statement), none is executed twice.         *)
THEOREM StoreIsSerial == Spec => SerialStoreSpec
<1>1. Init => Serial!Init
  BY DEF Init, Serial!Init, CallView
<1>. QED  BY <1>1, WriterInvInit, WriterInvStep, SerialStep, PTL
          DEF Spec, SerialStoreSpec, Serial!Spec

-----------------------------------------------------------------------------
(* The rows announced on Updates.                                          *)

(* In a sequence without repetitions an element is found where it is.      *)
LEMMA PositionIs ==
  ASSUME NEW s, NoRepeats(s), NEW i \in 1 .. Len(s)
  PROVE  (CHOOSE j \in 1 .. Len(s) : s[j] = s[i]) = i
BY DEF NoRepeats

(* The row to be announced is the last one executed, the rows in Updates   *)
(* stand in the order of the database, and none is older than what the     *)
(* history tab has seen.                                                   *)
OrderInv ==
    /\ seen <= Len(committed)
    /\ cur # None /\ step \in {"checkDone", "send"} =>
         Len(committed) > 0 /\ cur = committed[Len(committed)]
    /\ \A i \in 1 .. Len(updates) : updates[i] \in Executed /\ seen <= Position(updates[i])
    /\ \A i, j \in 1 .. Len(updates) : i <= j => Position(updates[i]) <= Position(updates[j])

RowInv == BufferType /\ OrderInv

(* Position finds every executed write, and where it found it once it will *)
(* find it again: the log only grows at its end.                           *)
LEMMA PositionInLog ==
  ASSUME WriterInv
  PROVE  /\ \A w \in Executed : Position(w) \in 1 .. Len(committed) /\ committed[Position(w)] = w
         /\ committed' = committed \/ (\E w \in Writers : committed' = Append(committed, w) /\ NoRepeats(committed'))
              => \A w \in Executed : w \in Executed' /\ Position(w)' = Position(w)
<1>1. ASSUME NEW w \in Executed
      PROVE  Position(w) \in 1 .. Len(committed) /\ committed[Position(w)] = w
  BY DEF Executed, Position
<1>2. ASSUME committed' = committed, NEW w \in Executed
      PROVE  w \in Executed' /\ Position(w)' = Position(w)
  BY <1>2 DEF Executed, Position
<1>3. ASSUME NEW v \in Writers, committed' = Append(committed, v), NoRepeats(committed'),
             NEW w \in Executed
      PROVE  w \in Executed' /\ Position(w)' = Position(w)
  <2>1. PICK i \in 1 .. Len(committed) : committed[i] = w
    BY DEF Executed
  <2>2. i \in 1 .. Len(committed') /\ committed'[i] = w
    BY <1>3, <2>1, AppendProperties, LenProperties DEF WriterInv, WriterType
  <2>3. Position(w) = i
    BY <2>1, PositionIs DEF Position, WriterInv, ReportInv
  <2>4. Position(w)' = i
    BY <1>3, <2>2, PositionIs DEF Position
  <2>. QED  BY <2>2, <2>3, <2>4 DEF Executed
<1>. QED  BY <1>1, <1>2, <1>3

(* Nothing is announced before the first write.                            *)
LEMMA RowInvInit == Init => RowInv
<1>. SUFFICES ASSUME Init PROVE RowInv
  OBVIOUS
<1>1. Len(<<>>) = 0 /\ <<>> \in Seq(Writers) /\ 1 .. 0 = {}
  BY EmptySeq
<1>2. panicked \in BOOLEAN
  BY Zenon DEF Init
<1>. QED  BY <1>1, <1>2, WriterAssumption DEF Init, RowInv, BufferType, OrderInv, Closing

(* writeLoop announces a row right after it executed it; a full buffer     *)
(* loses the row and keeps the order.                                      *)
LEMMA RowInvStep == WriterInv /\ WriterInv' /\ RowInv /\ [Next]_vars => RowInv' /\ seen' >= seen
<1>. SUFFICES ASSUME WriterInv, WriterInv', RowInv, [Next]_vars PROVE RowInv' /\ seen' >= seen
  OBVIOUS
<1>. USE DEF RowInv
<1>1. /\ \A w \in Executed : Position(w) \in 1 .. Len(committed)
      /\ \A i \in 1 .. Len(updates) : updates[i] \in Executed
      /\ Len(updates) \in Nat /\ Len(committed) \in Nat /\ seen \in Nat
  BY PositionInLog, LenProperties DEF BufferType, OrderInv, WriterInv, WriterType
<1>2. CASE ExecOK \/ ExecThenFail
  <2>1. /\ cur \in Writers /\ committed' = Append(committed, cur) /\ NoRepeats(committed')
        /\ UNCHANGED <<cur, writeCh, loop, closing, updates, notices, panicked, seen>>
    BY <1>2 DEF ExecOK, ExecThenFail, callVars, uiVars, WriterInv, WriterType, ReportInv
  <2>2. \A w \in Executed : w \in Executed' /\ Position(w)' = Position(w)
    BY <2>1, PositionInLog
  <2>3. Len(committed') > 0 /\ committed'[Len(committed')] = cur /\ Len(committed') = Len(committed) + 1
    BY <2>1, <1>1, AppendProperties DEF WriterInv, WriterType
  <2>4. \A i \in 1 .. Len(updates) : updates'[i] \in Executed' /\ Position(updates[i])' = Position(updates[i])
    BY <1>1, <2>1, <2>2
  <2>5. OrderInv'
    <3>1. seen' <= Len(committed')
      BY <1>1, <2>1, <2>3 DEF OrderInv
    <3>. QED  BY <2>1, <2>3, <2>4, <3>1 DEF OrderInv
  <2>. QED  BY <2>1, <2>5, <1>1 DEF BufferType
<1>3. CASE SendUpdate /\ updates' = Append(updates, cur) /\ Len(updates) < UpdateCap
  <2>1. /\ cur \in Writers /\ step = "send" /\ step' = "answer" /\ committed' = committed
        /\ UNCHANGED <<writeCh, loop, closing, notices, seen>>
    BY <1>3 DEF SendUpdate, callVars, WriterInv, WriterType
  <2>2. panicked' \in BOOLEAN
    BY <1>3, Zenon DEF SendUpdate, BufferType
  <2>3. \A w \in Executed : w \in Executed' /\ Position(w)' = Position(w)
    BY <2>1, PositionInLog
  <2>4. cur \in Executed /\ Position(cur) = Len(committed)
    BY <1>1, <2>1, PositionIs, WriterAssumption
       DEF OrderInv, Executed, Position, WriterInv, ReportInv
  <2>5. /\ Len(updates') = Len(updates) + 1 /\ updates' \in Seq(Writers)
        /\ \A i \in 1 .. Len(updates) : updates'[i] = updates[i]
        /\ updates'[Len(updates) + 1] = cur
    BY <1>3, <2>1, AppendProperties DEF BufferType
  <2>6. \A i \in 1 .. Len(updates') : i \in 1 .. Len(updates) \/ i = Len(updates) + 1
    BY <1>1, <2>5
  <2>8. seen <= Len(committed)
    BY DEF OrderInv
  <2>9. OrderInv'
    <3>1. \A i \in 1 .. Len(updates') : updates'[i] \in Executed' /\ seen' <= Position(updates[i])'
      BY <1>1, <2>1, <2>3, <2>4, <2>5, <2>6, <2>8 DEF OrderInv
    <3>2. \A i, j \in 1 .. Len(updates') : i <= j => Position(updates[i])' <= Position(updates[j])'
      BY <1>1, <2>1, <2>3, <2>4, <2>5, <2>6 DEF OrderInv
    <3>. QED  BY <2>1, <3>1, <3>2 DEF OrderInv
  <2>10. Len(updates') <= UpdateCap
    BY <1>3, <2>5, <1>1, WriterAssumption
  <2>. QED  BY <2>1, <2>2, <2>5, <2>9, <2>10, <1>1 DEF BufferType
<1>4. CASE ReceiveUpdate
  <2>1. /\ updates # <<>> /\ updates' = Tail(updates) /\ seen' = Position(Head(updates))
        /\ UNCHANGED <<writeCh, loop, cur, step, committed, closing, notices, panicked>>
    BY <1>4 DEF ReceiveUpdate, loopVars
  <2>2. /\ Len(updates) > 0 /\ Len(updates') = Len(updates) - 1 /\ updates' \in Seq(Writers)
        /\ \A i \in 1 .. Len(updates') : updates'[i] = updates[i + 1] /\ i + 1 \in 1 .. Len(updates)
        /\ Head(updates) = updates[1] /\ 1 \in 1 .. Len(updates)
    BY <1>1, <2>1, HeadTailProperties, EmptySeq DEF BufferType
  <2>3. seen' \in Nat /\ seen <= seen' /\ seen' <= Len(committed)
    BY <1>1, <2>1, <2>2 DEF OrderInv
  <2>4. \A w \in Executed : w \in Executed' /\ Position(w)' = Position(w)
    BY <2>1, PositionInLog
  <2>5. OrderInv'
    <3>1. \A i \in 1 .. Len(updates') : updates'[i] \in Executed'
                                      /\ Position(updates[i])' = Position(updates[i + 1])
      BY <1>1, <2>2, <2>4
    <3>2. \A i \in 1 .. Len(updates') : seen' <= Position(updates[i])'
      BY <1>1, <2>1, <2>2, <3>1 DEF OrderInv
    <3>3. \A i, j \in 1 .. Len(updates') : i <= j => Position(updates[i])' <= Position(updates[j])'
      <4>1. ASSUME NEW i \in 1 .. Len(updates'), NEW j \in 1 .. Len(updates'), i <= j
            PROVE  Position(updates[i + 1]) <= Position(updates[j + 1])
        <5>1. i + 1 \in 1 .. Len(updates) /\ j + 1 \in 1 .. Len(updates) /\ i + 1 <= j + 1
          BY <1>1, <2>2, <4>1
        <5>. QED  BY <5>1 DEF OrderInv
      <4>. QED  BY <3>1, <4>1
    <3>4. seen' <= Len(committed') /\ cur' = cur /\ step' = step /\ committed' = committed
      BY <2>1, <2>3
    <3>5. cur' # None /\ step' \in {"checkDone", "send"} =>
            Len(committed') > 0 /\ cur' = committed'[Len(committed')]
      BY <3>4 DEF OrderInv
    <3>. QED  BY <3>1, <3>2, <3>3, <3>4, <3>5 DEF OrderInv
  <2>6. Len(updates') <= UpdateCap
    BY <1>1, <2>2, WriterAssumption DEF BufferType
  <2>. QED  BY <2>1, <2>2, <2>3, <2>5, <2>6 DEF BufferType
<1>5. ASSUME UNCHANGED <<committed, updates, seen>>,
             cur' # None /\ step' \in {"checkDone", "send"} => cur' = cur /\ step \in {"checkDone", "send"}
      PROVE  OrderInv' /\ seen' >= seen
  <2>1. \A w \in Executed : w \in Executed' /\ Position(w)' = Position(w)
    BY <1>5, PositionInLog
  <2>. QED  BY <1>1, <1>5, <2>1 DEF OrderInv
<1>6. CASE LoopReceive
  <2>1. writeCh # <<>> /\ writeCh' = Tail(writeCh)
        /\ UNCHANGED <<loop, committed, closing, updates, notices, panicked, seen>> /\ step' = "exec"
    BY <1>6 DEF LoopReceive, uiVars
  <2>2. Len(writeCh') <= QueueCap
    BY <2>1, HeadTailProperties, LenProperties, WriterAssumption DEF BufferType, WriterInv, WriterType
  <2>. QED  BY <2>1, <2>2, <1>5 DEF BufferType
<1>7. ASSUME NEW w \in Writers, Submit(w) PROVE RowInv' /\ seen' >= seen
  <2>1. UNCHANGED <<loop, cur, step, committed, closing, updates, notices, panicked, seen>>
        /\ (writeCh' = writeCh \/ (Len(writeCh) < QueueCap /\ writeCh' = Append(writeCh, w)))
    BY <1>7 DEF Submit, loopVars, uiVars
  <2>2. Len(writeCh') <= QueueCap
    BY <2>1, AppendProperties, LenProperties, WriterAssumption DEF BufferType, WriterInv, WriterType
  <2>. QED  BY <2>1, <2>2, <1>5 DEF BufferType
<1>8. ASSUME UNCHANGED <<writeCh, updates, seen>>, loop' \in {"select", "drain", "stopped"},
             closing' \in Closing, notices' \in 0 .. NoticeCap, panicked' \in BOOLEAN
      PROVE  BufferType'
  BY <1>8 DEF BufferType
<1>9. CASE LoopSeeDone \/ LoopStop \/ ExecFail \/ CheckDone \/ Answer \/ Close
           \/ ReceiveNotice \/ UNCHANGED vars
  <2>1. UNCHANGED <<writeCh, committed, updates, seen, panicked>>
        /\ (cur' # None /\ step' \in {"checkDone", "send"} => cur' = cur /\ step \in {"checkDone", "send"})
    BY <1>9 DEF LoopSeeDone, LoopStop, ExecFail, CheckDone, Answer, Close, CloseStep,
                ReceiveNotice, vars, callVars, loopVars, uiVars
  <2>2. loop' \in {"select", "drain", "stopped"} /\ closing' \in Closing /\ notices' \in 0 .. NoticeCap
    BY <1>9, WriterAssumption
       DEF LoopSeeDone, LoopStop, ExecFail, CheckDone, Answer, Close, CloseStep,
           ReceiveNotice, vars, callVars, loopVars, uiVars, BufferType, Closing
  <2>3. panicked' \in BOOLEAN
    BY <2>1 DEF BufferType
  <2>. QED  BY <2>1, <2>2, <2>3, <1>5, <1>8
<1>10. ASSUME NEW w \in Writers, Begin(w) \/ Await(w) \/ Notify(w) PROVE RowInv' /\ seen' >= seen
  <2>1. UNCHANGED <<writeCh, loop, cur, step, committed, closing, updates, seen>>
    BY <1>10 DEF Begin, Await, Notify, loopVars, uiVars
  <2>2. notices' \in 0 .. NoticeCap
    BY <1>10, WriterAssumption DEF Begin, Await, Notify, uiVars, BufferType
  <2>3. panicked' \in BOOLEAN
    BY <1>10, Zenon DEF Begin, Await, Notify, BufferType
  <2>4. loop \in {"select", "drain", "stopped"} /\ closing \in Closing
    BY DEF BufferType
  <2>. QED  BY <2>1, <2>2, <2>3, <2>4, <1>5, <1>8
<1>11. CASE SendUpdate /\ updates' = updates
  <2>1. UNCHANGED <<writeCh, loop, cur, committed, closing, notices, seen>> /\ step' = "answer"
    BY <1>11 DEF SendUpdate, callVars
  <2>2. panicked' \in BOOLEAN
    BY <1>11, Zenon DEF SendUpdate, BufferType
  <2>3. loop \in {"select", "drain", "stopped"} /\ closing \in Closing /\ notices \in 0 .. NoticeCap
    BY DEF BufferType
  <2>. QED  BY <1>11, <2>1, <2>2, <2>3, <1>5, <1>8
<1>12. SendUpdate => updates' = updates \/ (updates' = Append(updates, cur) /\ Len(updates) < UpdateCap)
  BY DEF SendUpdate
<1>. QED  BY <1>2, <1>3, <1>4, <1>6, <1>7, <1>9, <1>10, <1>11, <1>12 DEF Next, Loop

(* Every variable keeps its type and every channel its capacity.           *)
THEOREM WriterTypeCorrect == Spec => []TypeOK
<1>1. WriterInv /\ RowInv => TypeOK
  BY DEF WriterInv, RowInv, WriterType, BufferType, TypeOK
<1>. QED  BY <1>1, WriterInvInit, WriterInvStep, RowInvInit, RowInvStep, PTL DEF Spec

(* What the history tab is told of, the database holds.                    *)
THEOREM AnnouncedRowsExist == Spec => []UpdatesAreCommitted
<1>1. RowInv => UpdatesAreCommitted
  BY DEF RowInv, OrderInv, UpdatesAreCommitted
<1>. QED  BY <1>1, WriterInvInit, WriterInvStep, RowInvInit, RowInvStep, PTL DEF Spec

(* The history tab never receives an older row after a newer one.          *)
THEOREM RowsArriveInOrder == Spec => UpdatesInCommitOrder
<1>1. seen' >= seen => [seen' >= seen]_vars
  OBVIOUS
<1>. QED  BY <1>1, WriterInvInit, WriterInvStep, RowInvInit, RowInvStep, PTL
          DEF Spec, UpdatesInCommitOrder

-----------------------------------------------------------------------------
(* The scope cache.                                                        *)

(* Version v has everything a new lookup may ask for. *)
Current(v) ==
    /\ v \in 0 .. Len(log)
    /\ newest <= v
    /\ \A i \in 1 .. Len(log) : log[i] \in invalidated => i <= v

(* What is in the cache, or about to be put there, is current: a version   *)
(* that is not was cleared under the lock when the change returned.        *)
CurrentInv ==
    /\ scopeCache # Nil => Current(scopeCache)
    /\ \A r \in Lookups : at[r] = "publish" /\ loaded[r] # Nil => Current(loaded[r])

(* A change that has returned is in the table. *)
AppliedInv ==
    /\ \A w \in Changes : call[w] = "ok" => w \in Table!Applied
    /\ \A w \in invalidated : w \in Table!Applied

(* What a lookup remembers of its beginning is not newer than the present, *)
(* and its answer is not older.                                            *)
LookupInv ==
    \A r \in Lookups :
      /\ since[r] <= newest
      /\ before[r] \subseteq invalidated
      /\ at[r] = "returned" /\ entries[r] # Nil =>
           /\ since[r] <= entries[r]
           /\ \A i \in 1 .. Len(log) : log[i] \in before[r] => i <= entries[r]

ScopeInv == ScopeTypeOK /\ CurrentInv /\ AppliedInv /\ LookupInv

-----------------------------------------------------------------------------
(* The table is empty, and nothing has been asked.                         *)
LEMMA ScopeInvInit == ScopeInit => ScopeInv
<1>. SUFFICES ASSUME ScopeInit PROVE ScopeInv
  OBVIOUS
<1>1. Len(<<>>) = 0 /\ <<>> \in Seq(Changes) /\ 1 .. 0 = {}
  BY EmptySeq
<1>2. scopeCacheSet \in BOOLEAN /\ (scopeCacheSet <=> scopeCache # Nil)
  BY Zenon DEF ScopeInit
<1>3. ScopeTypeOK
  BY <1>1, <1>2, ScopeAssumption DEF ScopeInit, Table!Init, ScopeTypeOK
<1>. QED  BY <1>1, <1>3 DEF ScopeInv, ScopeInit, Table!Init, CurrentInv, AppliedInv, LookupInv

(* The store appends a change that was not there, so that none that has    *)
(* returned moves to a newer version.                                      *)
LEMMA ScopeInvWrite ==
  ASSUME ScopeInv, NEW w \in Changes, Write(w)
  PROVE  ScopeInv'
<1>. USE DEF ScopeInv
<1>1. UNCHANGED <<invalidated, scopeCache, scopeCacheSet, mutex, at, loaded, entries, newest, since, before>>
  BY DEF Write, cacheVars, lookupVars
<1>2. Len(log) \in Nat
  BY LenProperties DEF ScopeTypeOK
<1>3. CASE Table!Apply(w)
  <2>1. w \notin Table!Applied /\ log' = Append(log, w) /\ call' = call
    BY <1>3 DEF Table!Apply
  <2>2. /\ Len(log') = Len(log) + 1 /\ log' \in Seq(Changes)
        /\ \A i \in 1 .. Len(log) : log'[i] = log[i]
        /\ log'[Len(log) + 1] = w
    BY <2>1, AppendProperties DEF ScopeTypeOK
  <2>3. \A i \in 1 .. Len(log') : i \in 1 .. Len(log) \/ (i = Len(log) + 1 /\ log'[i] \notin invalidated)
    BY <1>2, <2>1, <2>2 DEF AppliedInv
  <2>4. \A x \in Table!Applied : x \in Table!Applied'
    BY <1>2, <2>2 DEF Table!Applied
  <2>5. ScopeTypeOK'
    BY <1>1, <1>2, <2>1, <2>2 DEF ScopeTypeOK
  <2>6. \A v : Current(v) => Current(v)'
    BY <1>1, <1>2, <2>2, <2>3 DEF Current
  <2>7. CurrentInv'
    BY <1>1, <2>6 DEF CurrentInv
  <2>8. AppliedInv'
    BY <1>1, <2>1, <2>4 DEF AppliedInv
  <2>9. LookupInv'
    BY <1>1, <1>2, <2>2, <2>3 DEF LookupInv
  <2>. QED  BY <2>5, <2>7, <2>8, <2>9
<1>4. CASE Table!Call(w) \/ \E v \in Table!Outcomes : Table!Return(w, v)
  <2>1. log' = log /\ \E v \in {"called"} \cup Table!Outcomes :
          call' = [call EXCEPT ![w] = v] /\ (v = "ok" => w \in Table!Applied)
    BY <1>4 DEF Table!Call, Table!Return
  <2>2. Table!Applied' = Table!Applied
    BY <2>1 DEF Table!Applied
  <2>3. ScopeTypeOK'
    BY <1>1, <2>1 DEF ScopeTypeOK
  <2>4. CurrentInv' /\ LookupInv'
    BY <1>1, <2>1 DEF CurrentInv, Current, LookupInv
  <2>5. AppliedInv'
    BY <1>1, <2>1, <2>2 DEF AppliedInv, ScopeTypeOK, Table!Outcomes
  <2>. QED  BY <2>3, <2>4, <2>5
<1>. QED  BY <1>3, <1>4 DEF Write

(* A change that returns empties the cache, and nobody is filling it.      *)
LEMMA ScopeInvInvalidate ==
  ASSUME ScopeInv, NEW w \in Changes, Invalidate(w)
  PROVE  ScopeInv'
<1>. USE DEF ScopeInv
<1>1. /\ UNCHANGED <<call, log, mutex, at, loaded, entries, newest, since, before>>
      /\ mutex = Nil /\ call[w] = "ok" /\ invalidated' = invalidated \cup {w} /\ scopeCache' = Nil
  BY DEF Invalidate, lookupVars
<1>2. scopeCacheSet' \in BOOLEAN /\ (scopeCacheSet' <=> scopeCache' # Nil)
  BY Zenon DEF Invalidate
<1>3. ScopeTypeOK'
  BY <1>1, <1>2 DEF ScopeTypeOK
<1>4. \A r \in Lookups : at[r] # "publish"
  BY <1>1, ScopeAssumption DEF ScopeTypeOK
<1>5. CurrentInv'
  BY <1>1, <1>4 DEF CurrentInv
<1>6. AppliedInv'
  BY <1>1 DEF AppliedInv, Table!Applied
<1>7. LookupInv'
  BY <1>1 DEF LookupInv
<1>. QED  BY <1>3, <1>5, <1>6, <1>7

-----------------------------------------------------------------------------
(* A lookup that answers from a current version, or from none, with the    *)
(* cache at that version and no other lookup about to fill it.             *)
LEMMA AnswerKeeps ==
  ASSUME ScopeInv, NEW r \in Lookups, NEW v, AnswerFrom(r, v), v # Nil => Current(v),
         scopeCache' = v, \A q \in Lookups : q # r => at[q] # "publish",
         UNCHANGED <<call, log, invalidated, loaded, since, before>>
  PROVE  /\ CurrentInv' /\ AppliedInv' /\ LookupInv'
         /\ newest' \in 0 .. Len(log) /\ entries' \in [Lookups -> Nat \cup {Nil}]
<1>. USE DEF ScopeInv
<1>1. /\ entries' = [entries EXCEPT ![r] = v] /\ at' = [at EXCEPT ![r] = "returned"]
      /\ Len(log) \in Nat
      /\ entries \in [Lookups -> Nat \cup {Nil}] /\ at \in [Lookups -> {"idle", "fast", "miss", "load", "publish", "returned"}]
      /\ newest \in 0 .. Len(log) /\ since \in [Lookups -> Nat]
  BY LenProperties DEF AnswerFrom, ScopeTypeOK
<1>2. newest' = IF v = Nil THEN newest ELSE v
  <2>1. CASE v = Nil
    BY <2>1 DEF AnswerFrom
  <2>2. CASE v # Nil
    <3>1. v \in Nat /\ newest \in Nat /\ newest <= v
      BY <1>1, <2>2 DEF Current
    <3>2. newest' = Newer(newest, v)
      BY <2>2 DEF AnswerFrom
    <3>. QED  BY <2>2, <3>1, <3>2 DEF Newer
  <2>. QED  BY <2>1, <2>2
<1>3. newest' \in 0 .. Len(log) /\ newest <= newest' /\ (v # Nil => v \in Nat /\ newest' = v)
  BY <1>1, <1>2 DEF Current
<1>4. CurrentInv'
  BY <1>1, <1>2 DEF CurrentInv, Current
<1>5. AppliedInv'
  BY DEF AppliedInv, Table!Applied
<1>6. LookupInv'
  <2>1. ASSUME NEW q \in Lookups
        PROVE  /\ since'[q] <= newest' /\ before'[q] \subseteq invalidated'
               /\ at'[q] = "returned" /\ entries'[q] # Nil =>
                    /\ since'[q] <= entries'[q]
                    /\ \A i \in 1 .. Len(log') : log'[i] \in before'[q] => i <= entries'[q]
    <3>1. since'[q] <= newest' /\ before'[q] \subseteq invalidated'
      BY <1>1, <1>3 DEF LookupInv
    <3>2. CASE q = r
      BY <1>1, <1>3, <3>1, <3>2 DEF LookupInv, Current
    <3>3. CASE q # r
      BY <1>1, <3>1, <3>3 DEF LookupInv
    <3>. QED  BY <3>2, <3>3
  <2>. QED  BY <2>1 DEF LookupInv
<1>. QED  BY <1>1, <1>3, <1>4, <1>5, <1>6

(* Every step of InScope: a slice is taken from the cache, or from the     *)
(* table while the lock keeps changes from returning.                      *)
LEMMA ScopeInvLookup ==
  ASSUME ScopeInv, NEW r \in Lookups, InScope(r)
  PROVE  ScopeInv'
<1>. USE DEF ScopeInv, storeVars, cacheVars
<1>1. ASSUME mutex = Nil PROVE \A q \in Lookups : at[q] \notin {"load", "publish"}
  BY <1>1, ScopeAssumption DEF ScopeTypeOK
<1>2. CASE BeginLookup(r)
  <2>1. /\ at[r] = "idle" /\ at' = [at EXCEPT ![r] = "fast"]
        /\ since' = [since EXCEPT ![r] = newest] /\ before' = [before EXCEPT ![r] = invalidated]
        /\ UNCHANGED <<call, log, invalidated, scopeCache, scopeCacheSet, mutex, loaded, entries, newest>>
    BY <1>2 DEF BeginLookup
  <2>2. ScopeTypeOK'
    BY <2>1 DEF ScopeTypeOK
  <2>3. CurrentInv' /\ AppliedInv'
    BY <2>1 DEF CurrentInv, Current, AppliedInv, Table!Applied, ScopeTypeOK
  <2>4. newest <= newest
    BY DEF ScopeTypeOK
  <2>5. LookupInv'
    BY <2>1, <2>4 DEF LookupInv, ScopeTypeOK
  <2>. QED  BY <2>2, <2>3, <2>5
<1>3. CASE (Fast(r) \/ Miss(r)) /\ AnswerFrom(r, scopeCache)
  <2>1. /\ mutex = Nil /\ scopeCache' = scopeCache /\ at[r] \in {"fast", "miss"}
        /\ UNCHANGED <<call, log, invalidated, loaded, since, before>>
    BY <1>3 DEF Fast, Miss
  <2>2. UNCHANGED <<scopeCacheSet, mutex>>
    <3>1. at'[r] = "returned"
      BY <1>3 DEF AnswerFrom, ScopeTypeOK
    <3>3. CASE Fast(r)
      BY <3>3 DEF Fast
    <3>4. CASE Miss(r)
      <4>1. at' # [at EXCEPT ![r] = "load"]
        BY <3>1 DEF ScopeTypeOK
      <4>2. scopeCacheSet' = scopeCacheSet
        BY <3>4 DEF Miss
      <4>3. mutex' = mutex
        BY <3>4, <4>1 DEF Miss
      <4>. QED  BY <4>2, <4>3
    <3>. QED  BY <1>3, <3>3, <3>4
  <2>3. CurrentInv' /\ AppliedInv' /\ LookupInv'
        /\ newest' \in 0 .. Len(log) /\ entries' \in [Lookups -> Nat \cup {Nil}]
    BY <1>1, <1>3, <2>1, AnswerKeeps DEF CurrentInv
  <2>4. ScopeTypeOK'
    BY <1>1, <1>3, <2>1, <2>2, <2>3, ScopeAssumption DEF ScopeTypeOK, AnswerFrom
  <2>. QED  BY <2>3, <2>4
<1>4. CASE (Fast(r) \/ Miss(r)) /\ ~AnswerFrom(r, scopeCache)
  <2>1. /\ mutex = Nil
        /\ UNCHANGED <<call, log, invalidated, scopeCache, scopeCacheSet, loaded, entries, newest, since, before>>
        /\ \/ at[r] = "fast" /\ at' = [at EXCEPT ![r] = "miss"] /\ mutex' = mutex
           \/ at[r] = "miss" /\ at' = [at EXCEPT ![r] = "load"] /\ mutex' = r
    BY <1>4 DEF Fast, Miss
  <2>2. ScopeTypeOK'
    <3>1. at' \in [Lookups -> {"idle", "fast", "miss", "load", "publish", "returned"}]
          /\ mutex' \in Lookups \cup {Nil}
      BY <2>1 DEF ScopeTypeOK
    <3>2. \A q \in Lookups : mutex' = q <=> at'[q] \in {"load", "publish"}
      <4>1. \A q \in Lookups : mutex # q /\ at[q] \notin {"load", "publish"}
        BY <1>1, <2>1, ScopeAssumption
      <4>. QED  BY <2>1, <4>1, ScopeAssumption DEF ScopeTypeOK
    <3>3. scopeCacheSet' \in BOOLEAN /\ (scopeCacheSet' <=> scopeCache' # Nil)
      BY <2>1, Zenon DEF ScopeTypeOK
    <3>. QED  BY <2>1, <3>1, <3>2, <3>3 DEF ScopeTypeOK
  <2>3. CurrentInv' /\ AppliedInv' /\ LookupInv'
    BY <2>1 DEF CurrentInv, Current, AppliedInv, LookupInv, Table!Applied, ScopeTypeOK
  <2>. QED  BY <2>2, <2>3
<1>5. CASE Load(r)
  <2>1. /\ at[r] = "load" /\ at' = [at EXCEPT ![r] = "publish"]
        /\ UNCHANGED <<call, log, invalidated, scopeCache, scopeCacheSet, mutex, entries, newest, since, before>>
        /\ (loaded' = [loaded EXCEPT ![r] = Len(log)] \/ loaded' = [loaded EXCEPT ![r] = Nil])
    BY <1>5 DEF Load
  <2>2. Len(log) \in Nat /\ Current(Len(log))
    BY LenProperties DEF ScopeTypeOK, Current
  <2>3. ScopeTypeOK'
    BY <2>1, <2>2 DEF ScopeTypeOK
  <2>4. CurrentInv'
    BY <2>1, <2>2 DEF CurrentInv, Current, ScopeTypeOK
  <2>5. AppliedInv' /\ LookupInv'
    BY <2>1 DEF AppliedInv, LookupInv, Table!Applied, ScopeTypeOK
  <2>. QED  BY <2>3, <2>4, <2>5
<1>6. CASE Publish(r)
  <2>1. /\ at[r] = "publish" /\ mutex' = Nil /\ AnswerFrom(r, scopeCache')
        /\ UNCHANGED <<call, log, invalidated, loaded, since, before>>
    BY <1>6 DEF Publish
  <2>2. \A q \in Lookups : q # r => at[q] \notin {"load", "publish"}
    BY <2>1 DEF ScopeTypeOK
  <2>3. scopeCache' # Nil => Current(scopeCache')
    BY <1>6, <2>1 DEF Publish, CurrentInv
  <2>4. CurrentInv' /\ AppliedInv' /\ LookupInv'
        /\ newest' \in 0 .. Len(log) /\ entries' \in [Lookups -> Nat \cup {Nil}]
    <3>. DEFINE v == scopeCache'
    <3>1. AnswerFrom(r, v) /\ (v # Nil => Current(v)) /\ scopeCache' = v
      BY <2>1, <2>3
    <3>. HIDE DEF v
    <3>. QED  BY <2>1, <2>2, <3>1, AnswerKeeps
  <2>5. scopeCacheSet' \in BOOLEAN /\ (scopeCacheSet' <=> scopeCache' # Nil)
    BY <1>6 DEF Publish, ScopeTypeOK
  <2>6. scopeCache' \in 0 .. Len(log) \cup {Nil}
    BY <2>3 DEF Current
  <2>7. at' = [at EXCEPT ![r] = "returned"]
    BY <2>1 DEF AnswerFrom
  <2>8. ScopeTypeOK'
    BY <2>1, <2>2, <2>4, <2>5, <2>6, <2>7, ScopeAssumption DEF ScopeTypeOK
  <2>. QED  BY <2>4, <2>8
<1>7. Fast(r) \/ Miss(r) => AnswerFrom(r, scopeCache) \/ ~AnswerFrom(r, scopeCache)
  OBVIOUS
<1>. QED  BY <1>2, <1>3, <1>4, <1>5, <1>6, <1>7 DEF InScope

(* The invariant is inductive.                                             *)
LEMMA ScopeInvStep == ScopeInv /\ [ScopeNext]_scopeVars => ScopeInv'
<1>1. ASSUME ScopeInv, UNCHANGED scopeVars PROVE ScopeInv'
  <2>1. UNCHANGED <<call, log, invalidated, scopeCache, scopeCacheSet, mutex, at, loaded,
                    entries, newest, since, before>>
    BY <1>1 DEF scopeVars, storeVars, cacheVars, lookupVars
  <2>2. scopeCacheSet' \in BOOLEAN /\ (scopeCacheSet' <=> scopeCache' # Nil)
    BY <1>1, <2>1, Zenon DEF ScopeInv, ScopeTypeOK
  <2>3. ScopeTypeOK'
    BY <1>1, <2>1, <2>2 DEF ScopeInv, ScopeTypeOK
  <2>4. CurrentInv' /\ AppliedInv' /\ LookupInv'
    BY <1>1, <2>1 DEF ScopeInv, CurrentInv, Current, AppliedInv, LookupInv, Table!Applied
  <2>. QED  BY <2>3, <2>4 DEF ScopeInv
<1>. QED  BY <1>1, ScopeInvWrite, ScopeInvInvalidate, ScopeInvLookup DEF ScopeNext

(* The lock is held by the lookup that loads the table, and by no other.   *)
THEOREM ScopeTypeCorrect == ScopeSpec => []ScopeTypeOK
BY ScopeInvInit, ScopeInvStep, PTL DEF ScopeSpec, ScopeInv

(* A change that has returned counts in every later answer.                *)
THEOREM ChangesCount == ScopeSpec => []AnswerIsCurrent
<1>1. ScopeInv => AnswerIsCurrent
  BY DEF ScopeInv, LookupInv, AnswerIsCurrent
<1>. QED  BY <1>1, ScopeInvInit, ScopeInvStep, PTL DEF ScopeSpec

(* Answers given one after another are from ever newer versions.           *)
THEOREM AnswersAdvance == ScopeSpec => []AnswersNeverGoBack
<1>1. ScopeInv => AnswersNeverGoBack
  BY DEF ScopeInv, LookupInv, AnswersNeverGoBack
<1>. QED  BY <1>1, ScopeInvInit, ScopeInvStep, PTL DEF ScopeSpec
=============================================================================
