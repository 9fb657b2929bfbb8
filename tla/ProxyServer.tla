---------------------------- MODULE ProxyServer ----------------------------
(***************************************************************************)
(* The proxy of a project: its servers and their start and stop            *)
(* (internal/proxy/proxy.go, ui/app.go, ui/settings.go), the connections   *)
(* it serves, the requests that pass through the bus to the history        *)
(* (forward.go, mitm.go, mitm2.go, events/bus.go), and the switch to       *)
(* another project (main.go).  The gate is one step here (InterceptGate),  *)
(* so is a plugin's hook (PluginEngine) and a write of the store           *)
(* (StoreWriter); WebSocket upgrades are in WebSocketRelay.                *)
(*                                                                         *)
(* A connection is "plain" (HTTP: one request), "h1" (a CONNECT with       *)
(* requests one after the other) or "h2" (a CONNECT with streams).  The    *)
(* user's commands run on the main goroutine, and so do his decisions in   *)
(* the Intercept tab: there are none while Shutdown makes it wait.         *)
(***************************************************************************)
EXTENDS CertAuthority, Sequences, SequencesExt

CONSTANTS
    Requests, ConnOf,   \* the requests and the connection each comes on
    Kind,               \* the kind of each connection
    Addrs, Foreign,     \* addresses, and those another program listens on
    Budgets             \* bounds: the connections and the requests that come,
                        \*   the addresses the user enters, the servers that
                        \*   are started, the projects that are opened,
                        \*   whether the program may be killed

Conns == Askers

ASSUME ProxyAssumption ==
    /\ ConnOf \in [Requests -> Conns] /\ Kind \in [Conns -> {"plain", "h1", "h2"}]
    /\ Foreign \subseteq Addrs
    /\ Budgets \subseteq [conns : SUBSET Conns, requests : SUBSET Requests, addrs : SUBSET Addrs,
                      servers : Nat, projects : Nat \ {0}, kills : BOOLEAN]
    /\ \A b \in Budgets : 1 .. b.projects \subseteq Authorities

VARIABLES
    budget,         \* the budget of this behaviour
    main,           \* what the main goroutine is doing
    project,        \* the number of the open project
    srv, old,       \* p.srv by number, and the server Shutdown is at work on
    started,        \* how many servers there were
    state, at,      \* what has become of each server's listener, and its address
    running,        \* proxyRunningBinding and the preference proxy_enabled
    conn,           \* where the handler of each connection is
    server, owner,  \* the server that accepted it, and the project of that
    deadline,       \* whether closeAllConns has set its deadline
    gone,           \* whether the browser has left
    pc,             \* where each request is
    edits,          \* who has edited it
    dropped,        \* the requests the user or a plugin has dropped
    upstream,       \* what was sent upstream,
    history         \*   and what was logged, by all projects

serverVars  == <<main, project, srv, old, started, state, at, running>>
connVars    == <<conn, server, owner, deadline, gone>>
requestVars == <<pc, edits, dropped, upstream, history>>
proxyVars   == <<serverVars, connVars, requestVars>>
vars        == <<budget, diskVars, cacheVars, proxyVars>>

Servers == 1 .. budget.servers

Init ==
    /\ CAInit /\ budget \in Budgets /\ (budget.kills \/ pairs = 1)
    /\ main = "idle" /\ project = 1 /\ srv = 0 /\ old = 0 /\ started = 0
    /\ state = [k \in Servers |-> "none"] /\ at = [k \in Servers |-> 0] /\ running = FALSE
    /\ conn = [c \in Conns |-> "none"] /\ server = [c \in Conns |-> 0]
    /\ owner = [c \in Conns |-> 0]
    /\ deadline = [c \in Conns |-> FALSE] /\ gone = [c \in Conns |-> FALSE]
    /\ pc = [r \in Requests |-> "none"] /\ edits = [r \in Requests |-> {}]
    /\ dropped = {} /\ upstream = <<>> /\ history = <<>>

Idle == process = "up" /\ main = "idle"

AtWork(c) == \E r \in Requests : ConnOf[r] = c /\ pc[r] \notin {"none", "over"}

Broken(c) == deadline[c] \/ gone[c]

(* net.Listen fails. *)
InUse(a) == a \in Foreign \/ \E k \in Servers : at[k] = a /\ state[k] \in {"bound", "serving", "doomed"}

(* SetDeadline(time.Now()) on what this project's proxy tracks: what is    *)
(* between trackConn and untrackConn.                                      *)
Tracked(c) == conn[c] \in {"tracked", "open"} /\ owner[c] = project

closeAllConns == deadline' = [c \in Conns |-> deadline[c] \/ Tracked(c)]

(* Shutdown closes the listener; a Serve that has not begun yet will.      *)
ListenerClosed(k) == IF state[k] = "serving" THEN "closed" ELSE "doomed"

-----------------------------------------------------------------------------
(* Commands, on the main goroutine.                                        *)


(* Mistake: Start forgets the server that runs.  OnlySrvListens. *)
RestartForgetting(a) ==
    /\ Idle /\ started < budget.servers /\ ~InUse(a)
    /\ running' = TRUE /\ started' = started + 1 /\ srv' = started' /\ old' = 0
    /\ state' = [state EXCEPT ![started'] = "bound"] /\ at' = [at EXCEPT ![started'] = a]
    /\ main' = "start"
    /\ UNCHANGED <<budget, diskVars, cacheVars, project, connVars, requestVars>>

(* The toggle, the settings, and main at the start: Start on an address.   *)
(* An error of Start is dropped, and the proxy counts as running.          *)
Restart(a) ==
    /\ Idle /\ started < budget.servers
    /\ running' = TRUE
    /\ IF InUse(a) THEN UNCHANGED <<main, srv, old, started, state, at>>
       ELSE /\ started' = started + 1 /\ srv' = started' /\ old' = srv
            /\ state' = [k \in Servers |-> IF k = started' THEN "bound"
                                           ELSE IF k = srv THEN ListenerClosed(k) ELSE state[k]]
            /\ at' = [at EXCEPT ![started'] = a]
            /\ main' = "start"
    /\ UNCHANGED <<budget, diskVars, cacheVars, project, connVars, requestVars>>

(* Nothing of the old server is active any more, or five seconds are over. *)
StartEnd ==
    /\ main = "start"
    /\ main' = "idle" /\ old' = 0
    /\ closeAllConns
    /\ UNCHANGED <<budget, diskVars, cacheVars, project, srv, started, state, at, running, conn,
                   server, owner, gone, requestVars>>

(* The goroutine that Start leaves behind. *)
Serve(k) ==
    /\ main # "start" \/ k # srv
    /\ \/ state[k] = "bound"  /\ state' = [state EXCEPT ![k] = "serving"]
       \/ state[k] = "doomed" /\ state' = [state EXCEPT ![k] = "closed"]
    /\ UNCHANGED <<budget, diskVars, cacheVars, main, project, srv, old, started, at, running,
                   connVars, requestVars>>

Stop ==
    /\ Idle
    /\ running' = FALSE
    /\ IF srv = 0 THEN closeAllConns /\ UNCHANGED <<main, old, state>>
       ELSE /\ main' = "stop" /\ old' = srv
            /\ state' = [state EXCEPT ![srv] = ListenerClosed(srv)]
            /\ UNCHANGED deadline
    /\ UNCHANGED <<budget, diskVars, cacheVars, project, srv, started, at, conn, server, owner,
                   gone, requestVars>>

StopEnd ==
    /\ main = "stop"
    /\ main' = "idle" /\ srv' = 0 /\ old' = 0
    /\ closeAllConns
    /\ UNCHANGED <<budget, diskVars, cacheVars, project, started, state, at, running, conn,
                   server, owner, gone, requestVars>>

(* The switch: ProxyStop, engine.Close, Store.Close, and the next project, *)
(* whose proxy loads the pair that is on the disk again and begins with an *)
(* empty cache.  Connections of the old proxy keep the old one.  What the  *)
(* toggle shows and the preference are left as they are.                   *)
SwitchProject ==
    /\ Idle /\ project < budget.projects
    /\ main' = "switch" /\ old' = srv
    /\ state' = IF srv = 0 THEN state ELSE [state EXCEPT ![srv] = ListenerClosed(srv)]
    /\ UNCHANGED <<budget, diskVars, cacheVars, project, srv, started, at, running, connVars,
                   requestVars>>

openProject ==
    /\ main = "switch"
    /\ main' = "idle" /\ srv' = 0 /\ old' = 0
    /\ closeAllConns
    /\ project' = project + 1
    /\ process' = "down" /\ ca' = NoCA
    /\ UNCHANGED <<budget, keyFile, crtFile, pairs, expired, cacheVars, started, state, at, running,
                   conn, server, owner, gone, requestVars>>

Command == (\E a \in budget.addrs : Restart(a)) \/ Stop \/ SwitchProject
CommandEnd == StartEnd \/ StopEnd \/ openProject

-----------------------------------------------------------------------------
(* Connections.                                                            *)

Conn(c, from, to) ==
    /\ conn[c] = from /\ conn' = [conn EXCEPT ![c] = to]
    /\ UNCHANGED <<budget, diskVars, cacheVars, serverVars, server, owner, deadline, gone,
                   requestVars>>

Accept(c) ==
    \E k \in Servers :
      /\ conn[c] = "none" /\ c \in budget.conns /\ state[k] = "serving"
      /\ conn' = [conn EXCEPT ![c] = IF Kind[c] = "plain" THEN "accepted" ELSE "connect"]
      /\ server' = [server EXCEPT ![c] = k] /\ owner' = [owner EXCEPT ![c] = project]
      /\ UNCHANGED <<budget, diskVars, cacheVars, serverVars, deadline, gone, requestVars>>

LeaveBrowser(c) ==
    /\ conn[c] \notin {"none", "closed"} /\ ~gone[c]
    /\ gone' = [gone EXCEPT ![c] = TRUE]
    /\ UNCHANGED <<budget, diskVars, cacheVars, serverVars, conn, server, owner, deadline,
                   requestVars>>

(* handleConnect: Hijack, trackConn, certificate and handshake.  Between   *)
(* Hijack and trackConn closeAllConns does not see the connection.         *)
Connect(c) ==
    \/ Conn(c, "connect", "hijacked")
    \/ Conn(c, "connect", "closed")
    \/ Conn(c, "hijacked", "tracked")
    \/ given[c] # 0 /\ ~Broken(c) /\ Conn(c, "tracked", "open")
    \/ Conn(c, "tracked", "closed")

(* ReadRequest fails, or ServeConn returns. *)
Disconnect(c) == Broken(c) /\ (Kind[c] = "h1" => ~AtWork(c)) /\ Conn(c, "open", "closed")

-----------------------------------------------------------------------------
(* Requests.                                                               *)

(* Mistake: the request as it came is forwarded.  HistoryIsUpstream.       *)
SendUnedited(r) ==
    /\ pc[r] = "send"
    /\ upstream' = Append(upstream, [request |-> r, edits |-> {}, headers |-> "outgoing"])
    /\ pc' = [pc EXCEPT ![r] = "sent"]
    /\ UNCHANGED <<budget, diskVars, cacheVars, serverVars, connVars, edits, dropped, history>>

(* The handler is done with r: it answers, or fails and answers 502; h1    *)
(* closes the connection when it fails, and plain has only this request.   *)
Over(r, fails) ==
    /\ pc' = [pc EXCEPT ![r] = "over"]
    /\ conn' = [conn EXCEPT ![ConnOf[r]] =
                  IF Kind[ConnOf[r]] \in {"plain"} \cup (IF fails THEN {"h1"} ELSE {})
                  THEN "closed" ELSE @]

Step(r, from, to) == pc[r] = from /\ pc' = [pc EXCEPT ![r] = to]

(* A request is read; its body may fail. *)
Begin(r) ==
    LET c == ConnOf[r] IN
    /\ pc[r] = "none" /\ r \in budget.requests
    /\ IF Kind[c] = "plain" THEN conn[c] = "accepted"
       ELSE conn[c] = "open" /\ ~deadline[c] /\ (Kind[c] = "h1" => ~AtWork(c))
    /\ \/ pc' = [pc EXCEPT ![r] = "gate"] /\ UNCHANGED conn
       \/ Over(r, TRUE)
    /\ UNCHANGED <<budget, diskVars, cacheVars, serverVars, server, owner, deadline, gone, edits,
                   dropped, upstream, history>>

(* EmitRequest, first the gate: through, or held until the user decides.   *)
Gate(r) ==
    /\ \/ Step(r, "gate", "engine")
       \/ Step(r, "gate", "held")
    /\ UNCHANGED <<budget, diskVars, cacheVars, serverVars, connVars, edits, dropped, upstream, history>>

(* The gate of another project has no tab any more. *)
Decide(r) ==
    /\ pc[r] = "held" /\ Idle /\ owner[ConnOf[r]] = project
    /\ \/ /\ pc' = [pc EXCEPT ![r] = "engine"]
          /\ \E e \in SUBSET {"user"} : edits' = [edits EXCEPT ![r] = e]
          /\ UNCHANGED <<conn, dropped>>
       \/ Over(r, FALSE) /\ dropped' = dropped \cup {r} /\ UNCHANGED edits
    /\ UNCHANGED <<budget, diskVars, cacheVars, serverVars, server, owner, deadline, gone,
                   upstream, history>>

(* Then the engine, whose plugins may edit it or drop it. *)
Engine(r) ==
    /\ \/ /\ Step(r, "engine", "send")
          /\ \E e \in {{}, {"plugin"}} : edits' = [edits EXCEPT ![r] = @ \cup e]
          /\ UNCHANGED <<conn, dropped>>
       \/ /\ pc[r] = "engine" /\ Over(r, FALSE)
          /\ dropped' = dropped \cup {r} /\ UNCHANGED edits
    /\ UNCHANGED <<budget, diskVars, cacheVars, serverVars, server, owner, deadline, gone,
                   upstream, history>>

(* The request that is built for upstream has headers of its own: Host is  *)
(* normalised, those of caches (and of the hop, in plain) are taken away.  *)
(* It may not be built at all, if an edited URL cannot be parsed.          *)
Send(r) ==
    /\ \/ /\ Step(r, "send", "sent")
          /\ upstream' = Append(upstream, [request |-> r, edits |-> edits[r], headers |-> "outgoing"])
          /\ UNCHANGED conn
       \/ pc[r] = "send" /\ Over(r, TRUE) /\ UNCHANGED upstream
    /\ UNCHANGED <<budget, diskVars, cacheVars, serverVars, server, owner, deadline, gone, edits,
                   dropped, history>>

(* The response headers arrive, or the dial, the handshake or the timeout  *)
(* of thirty seconds fails.                                                *)
Answer(r) ==
    /\ \/ Step(r, "sent", "write") /\ UNCHANGED conn
       \/ pc[r] = "sent" /\ Over(r, TRUE)
    /\ UNCHANGED <<budget, diskVars, cacheVars, serverVars, server, owner, deadline, gone, edits,
                   dropped, upstream, history>>

(* The body comes while the response is written, and is read to its end    *)
(* when that fails, too.  Upstream may stop in the middle of it; only a    *)
(* stream of h2 has a timeout for that.                                    *)
Stall(r) ==
    /\ Step(r, "write", "stalled") /\ Kind[ConnOf[r]] # "h2"
    /\ UNCHANGED <<budget, diskVars, cacheVars, serverVars, connVars, edits, dropped, upstream, history>>

(* The response is written to the browser.  Only h1 minds an error, and    *)
(* returns without a log.                                                  *)
Write(r) ==
    /\ pc[r] \in {"write", "stalled"}
    /\ \/ /\ Kind[ConnOf[r]] = "h1" => ~deadline[ConnOf[r]]
          /\ pc' = [pc EXCEPT ![r] = "log"] /\ UNCHANGED conn
       \/ Kind[ConnOf[r]] = "h1" /\ Broken(ConnOf[r]) /\ Over(r, TRUE)
    /\ UNCHANGED <<budget, diskVars, cacheVars, serverVars, server, owner, deadline, gone, edits,
                   dropped, upstream, history>>

(* EmitResponse: the store logs the request as gate and engine left it,    *)
(* not the one built from it, unless it is closed or the insert fails.     *)
Log(r) ==
    /\ pc[r] = "log" /\ Over(r, FALSE)
    /\ \/ /\ owner[ConnOf[r]] = project
          /\ history' = Append(history, [request |-> r, edits |-> edits[r], headers |-> "own"])
       \/ UNCHANGED history
    /\ UNCHANGED <<budget, diskVars, cacheVars, serverVars, server, owner, deadline, gone, edits,
                   dropped, upstream>>

Handle(r) == Gate(r) \/ Engine(r) \/ Send(r) \/ Answer(r) \/ Stall(r) \/ Write(r) \/ Log(r)

-----------------------------------------------------------------------------
(* Load is called when a project is opened, and by the settings.  A bound: *)
(* the program is only killed before its proxy is first started.           *)
Authority ==
    /\ \/ main = "idle" /\ (Load \/ WritePair \/ Generated)
       \/ budget.kills /\ main = "idle" /\ started = 0 /\ (WriteFails \/ End \/ Expire)
       \/ \E c \in Conns : conn[c] = "tracked" /\ TLSCertForHost(owner[c], c)
    /\ UNCHANGED <<budget, proxyVars>>

Next ==
    \/ Authority
    \/ Command \/ CommandEnd
    \/ \E k \in Servers : Serve(k)
    \/ \E c \in Conns : Accept(c) \/ LeaveBrowser(c) \/ Connect(c) \/ Disconnect(c)
    \/ \E r \in Requests : Begin(r) \/ Decide(r) \/ Handle(r)

(* The goroutines go on; Shutdown has its timeout, and so have the headers *)
(* of a response.  The user need not act, the browser need not connect,    *)
(* send or leave, and upstream need not go on with a body.                 *)
(* No budget has more than two servers.                                    *)
Spec ==
    /\ Init /\ [][Next]_vars
    /\ WF_vars(CommandEnd)
    /\ \A k \in 1 .. 2 : WF_vars(k \in Servers /\ Serve(k))
    /\ \A c \in Conns : WF_vars(Connect(c) \/ Disconnect(c))
    /\ \A r \in Requests : WF_vars(pc[r] # "stalled" /\ Handle(r))

-----------------------------------------------------------------------------
(* Properties.                                                             *)

TypeOK ==
    /\ CATypeOK
    /\ budget \in Budgets
    /\ main \in {"idle", "start", "stop", "switch"} /\ project \in 1 .. budget.projects
    /\ {srv, old} \subseteq 0 .. started /\ started \in 0 .. budget.servers
    /\ state \in [Servers -> {"none", "bound", "serving", "doomed", "closed"}]
    /\ at \in [Servers -> Addrs \cup {0}] /\ running \in BOOLEAN
    /\ conn \in [Conns -> {"none", "accepted", "connect", "hijacked", "tracked", "open", "closed"}]
    /\ server \in [Conns -> 0 .. started] /\ owner \in [Conns -> 0 .. project]
    /\ deadline \in [Conns -> BOOLEAN] /\ gone \in [Conns -> BOOLEAN]
    /\ pc \in [Requests -> {"none", "gate", "held", "engine", "send", "sent", "write", "stalled",
                            "log", "over"}]
    /\ edits \in [Requests -> SUBSET {"user", "plugin"}] /\ dropped \subseteq Requests

(* Whatever the user starts, stops and restarts, on whatever address, and  *)
(* with goroutines of Start that come late: only the server that Stop will *)
(* stop listens, and none while the toggle is off.                         *)
OnlySrvListens ==
    /\ \A k \in Servers : state[k] \in {"bound", "serving"} => k = srv
    /\ main = "idle" /\ ~running => \A k \in Servers : state[k] # "serving"

(* All connections of a project to a host are shown the same certificate,  *)
(* also when several of them had one made at the same time, and when those *)
(* of the project before are still at their handshakes.                    *)
OneCertificatePerHost ==
    \A c, d \in Conns :
      owner[c] = owner[d] /\ HostOf[c] = HostOf[d] /\ given[c] # 0 /\ given[d] # 0
        => given[c] = given[d]


(* What the user has dropped at the first middleware no later one revives, *)
(* and what a plugin has dropped is gone as well: neither sent nor logged. *)
DropIsFinal == \A e \in ToSet(upstream) \cup ToSet(history) : e.request \notin dropped

(* An entry of the history and what was sent, but for the headers.         *)
SameRequest(e, u) == e.request = u.request /\ e.edits = u.edits

(* Two requests of one HTTP/1.1 connection are in the history in the order *)
(* in which they were sent (bus.go promises more than that, for all).      *)
HistoryInOrder ==
    \A i, j \in DOMAIN history : \A k, l \in DOMAIN upstream :
      /\ SameRequest(history[i], upstream[k]) /\ SameRequest(history[j], upstream[l]) /\ i < j
      /\ ConnOf[history[i].request] = ConnOf[history[j].request]
      /\ Kind[ConnOf[history[i].request]] = "h1"
      => k < l

(* The history shows a request as it was sent, but for the headers that    *)
(* the proxy itself changes: with the edits of the user and of the         *)
(* plugins, once, in order, and never one that was not sent.               *)
HistoryIsUpstream ==
    /\ \A e \in ToSet(history) : \E u \in ToSet(upstream) : SameRequest(e, u)
    /\ \A i, j \in DOMAIN history : history[i].request = history[j].request => i = j
    /\ DropIsFinal /\ HistoryInOrder
=============================================================================
