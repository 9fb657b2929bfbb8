----------------------------- MODULE UserInput -----------------------------
(***************************************************************************)
(* The bound on what comes from outside (clicks, keys, plugins, peers): a  *)
(* behaviour begins with one session, which says how many inputs of each   *)
(* kind it may take, in any order.                                         *)
(***************************************************************************)
EXTENDS Integers

CONSTANT Sessions   \* bounds, each a function from kinds of inputs to numbers

VARIABLE left       \* the inputs of each kind that may still come

Comes(input) == left[input] > 0 /\ left' = [left EXCEPT ![input] = @ - 1]
=============================================================================
