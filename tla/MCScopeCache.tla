---------------------------- MODULE MCScopeCache ----------------------------
(***************************************************************************)
(* Model checking of ScopeCache: a host is added twice, of which only one  *)
(* insert can succeed, and deleted, while lookups come and go.             *)
(***************************************************************************)
EXTENDS ScopeCache

CONSTANTS
    site,                       \* the host
    addSite, addAgain, delSite, \* changes
    k1, k2, k3                  \* lookups

SomeHostOf == [a \in Adds |-> site]
SomeRowOf  == [d \in Changes \ Adds |-> addSite]
=============================================================================
