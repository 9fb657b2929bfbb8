--------------------------- MODULE MCInterceptGate ---------------------------
(***************************************************************************)
(* Model checking of InterceptGate: requests are interchangeable.          *)
(***************************************************************************)
EXTENDS InterceptGate, TLC

RequestSymmetry == Permutations(Requests)
=============================================================================
