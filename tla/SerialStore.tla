----------------------------- MODULE SerialStore -----------------------------
(***************************************************************************)
(* What the project store promises to the callers of a write               *)
(* (internal/store/project.go): writes take effect one at a time, in some  *)
(* order, each at most once and not before it is asked for.  A write that  *)
(* returned nil has taken effect.  One that returned its own error will not*)
(* take effect any more; whether it already has is certain (it has not)    *)
(* only of a write that reports the error of its one statement.  One that  *)
(* returned "store: closed" may or may not: it can even take effect after  *)
(* it returned.                                                            *)
(***************************************************************************)
EXTENDS Sequences, Naturals

CONSTANTS
    Writers,    \* each is one call of a write operation of the store
    Single      \* those that report the error of one statement and no other

VARIABLES
    call,   \* "none", "called", or what the call returned
    log     \* the writes that have taken effect, in order

storeVars == <<call, log>>

Outcomes == {"ok", "error", "closed"}

Applied == {log[i] : i \in 1 .. Len(log)}

Init ==
    /\ call = [w \in Writers |-> "none"]
    /\ log = <<>>

Call(w) ==
    /\ call[w] = "none"
    /\ call' = [call EXCEPT ![w] = "called"]
    /\ UNCHANGED log

Apply(w) ==
    /\ call[w] \in {"called", "closed"}
    /\ w \notin Applied
    /\ log' = Append(log, w)
    /\ UNCHANGED call

Return(w, v) ==
    /\ call[w] = "called"
    /\ v = "ok" => w \in Applied
    /\ v = "error" /\ w \in Single => w \notin Applied
    /\ call' = [call EXCEPT ![w] = v]
    /\ UNCHANGED log

Next ==
    \E w \in Writers :
      Call(w) \/ Apply(w) \/ \E v \in Outcomes : Return(w, v)

Spec == Init /\ [][Next]_storeVars
=============================================================================
