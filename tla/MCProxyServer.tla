--------------------------- MODULE MCProxyServer ---------------------------
(* ProxyServer with a few connections and requests.  The situations: the   *)
(* certificate authority, a program that is killed, and a second project;  *)
(* two connections for one host; the same in two projects; two requests on *)
(* a connection; two servers with a request; a switch of the project with  *)
(* a request.                                                              *)
EXTENDS ProxyServer

CONSTANTS c1, c2, c3, c4, r1, r2, r3, r4, example, other

MCHostOf == (c1 :> example) @@ (c2 :> example) @@ (c3 :> other) @@ (c4 :> other)
MCKind   == (c1 :> "h1") @@ (c2 :> "h1") @@ (c3 :> "plain") @@ (c4 :> "h2")
MCConnOf == (r1 :> c1) @@ (r2 :> c1) @@ (r3 :> c3) @@ (r4 :> c4)
MCAddrs  == {1, 2, 3}

Budget(conns, requests, addrs, servers, projects, kills) ==
    [conns |-> conns, requests |-> requests, addrs |-> addrs, servers |-> servers,
     projects |-> projects, kills |-> kills]

MCBudgets ==
    { Budget({}, {}, {}, 0, 2, TRUE),           Budget({c1, c2}, {}, {1}, 2, 2, FALSE),
      Budget({c1}, {r1, r2}, {1}, 1, 1, FALSE), Budget({c3}, {r3}, MCAddrs, 2, 1, FALSE),
      Budget({c4}, {r4}, MCAddrs, 2, 2, FALSE) }
=============================================================================
