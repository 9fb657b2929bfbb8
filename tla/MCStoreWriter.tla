---------------------------- MODULE MCStoreWriter ----------------------------
(***************************************************************************)
(* Model checking of StoreWriter with writes of both kinds that notify; n1 *)
(* may fail after its statement, as AddLoot may.                           *)
(***************************************************************************)
EXTENDS StoreWriter

CONSTANTS l1, l2, n1    \* writes, named by their kind

MixedKind == [w \in Writers |-> IF w = n1 THEN "notify" ELSE "log"]
=============================================================================
