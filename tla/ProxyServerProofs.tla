------------------------- MODULE ProxyServerProofs -------------------------
(***************************************************************************)
(* Proofs about ProxyServer for any connections, requests, addresses and   *)
(* hosts, and for any number of servers, projects and pairs of key and     *)
(* certificate.  The invariant has a part for the certificate authority,   *)
(* for the servers, for the connections and for the requests; a step of    *)
(* one of them leaves the others alone.                                    *)
(***************************************************************************)
EXTENDS ProxyServer, SequenceTheorems, TLAPS

(* A certificate whose key has been replaced is one that has expired, and  *)
(* while a pair is written there is no other.                              *)
FilesInv ==
    /\ keyFile = Absent => crtFile = Absent
    /\ crtFile \in Nat /\ keyFile # crtFile => crtFile \in expired
    /\ process \in {"key", "keyOpen", "crt", "crtOpen"} =>
         pairs > 0 /\ (crtFile \in Nat => crtFile \in expired)
    /\ process \in {"crt", "crtOpen", "ready"} => keyFile = pairs
    /\ process = "ready" => crtFile = pairs

(* What a proxy runs with, if one does, also while Load is at work again.  *)
RunInv ==
    /\ ca # NoCA =>
         /\ ca.key = ca.cert
         /\ ca.cert \in expired \/ (ca.cert = crtFile /\ ca.key = keyFile)
    /\ process = "up" => ca # NoCA

CAInv == CATypeOK /\ FilesInv /\ RunInv

(* What a connection was given is what the cache of its project holds from *)
(* then on.                                                                *)
CacheInv ==
    \A c \in Askers :
      /\ given[c] # 0 => given[c] = cache[owner[c]][HostOf[c]]
      /\ conn[c] = "none" => given[c] = 0 /\ making[c] = 0

ServerTypes ==
    /\ budget \in Budgets
    /\ main \in {"idle", "start", "stop", "switch"} /\ project \in 1 .. budget.projects
    /\ {srv, old} \subseteq 0 .. started /\ started \in 0 .. budget.servers
    /\ state \in [Servers -> {"none", "bound", "serving", "doomed", "closed"}]
    /\ at \in [Servers -> Addrs \cup {0}] /\ running \in BOOLEAN

Listening(k) == state[k] \in {"bound", "serving"}

ServerInv ==
    /\ ServerTypes
    /\ \A k \in Servers : k > started => state[k] = "none"
    /\ \A k \in Servers : Listening(k) => k = srv
    /\ main \in {"stop", "switch"} => \A k \in Servers : ~Listening(k)
    /\ ~running => (srv = 0 \/ main = "stop")
    /\ main = "start" => running
    /\ main = "switch" => project < budget.projects

ConnTypes ==
    /\ conn \in [Conns -> {"none", "accepted", "connect", "hijacked", "tracked", "open", "closed"}]
    /\ server \in [Conns -> 0 .. started] /\ owner \in [Conns -> 0 .. project]
    /\ deadline \in [Conns -> BOOLEAN] /\ gone \in [Conns -> BOOLEAN]

ConnInv == ConnTypes /\ \A c \in Conns : conn[c] \notin {"none", "closed"} => owner[c] > 0

RequestTypes ==
    /\ pc \in [Requests -> {"none", "gate", "held", "engine", "send", "sent", "write", "stalled",
                            "log", "over"}]
    /\ edits \in [Requests -> SUBSET {"user", "plugin"}] /\ dropped \subseteq Requests

Entries == [request : Requests, edits : SUBSET {"user", "plugin"}, headers : {"outgoing", "own"}]

(* Two requests that are at work are not of one HTTP/1.1 connection. *)
OneAtWork ==
    \A r, s \in Requests :
      /\ ConnOf[r] = ConnOf[s] /\ Kind[ConnOf[r]] = "h1"
      /\ pc[r] \notin {"none", "over"} /\ pc[s] \notin {"none", "over"}
      => r = s

OutThere(r) == pc[r] \in {"sent", "write", "stalled", "log"}

(* What was sent was sent once and as it is now, and was not dropped; what *)
(* is waiting for its answer was the last of its HTTP/1.1 connection.      *)
SentInv ==
    /\ upstream \in Seq(Entries)
    /\ \A i \in 1 .. Len(upstream) :
         LET r == upstream[i].request
         IN  /\ pc[r] \in {"sent", "write", "stalled", "log", "over"}
             /\ upstream[i].edits = edits[r] /\ r \notin dropped
    /\ \A i, j \in 1 .. Len(upstream) : upstream[i].request = upstream[j].request => i = j
    /\ \A r \in Requests : OutThere(r) => \E i \in 1 .. Len(upstream) : upstream[i].request = r
    /\ \A r \in dropped : pc[r] = "over"
    /\ \A i, j \in 1 .. Len(upstream) :
         /\ OutThere(upstream[i].request) /\ Kind[ConnOf[upstream[i].request]] = "h1"
         /\ ConnOf[upstream[i].request] = ConnOf[upstream[j].request]
         => j <= i

(* What was logged was sent, is over, and is there once. *)
LoggedInv ==
    /\ history \in Seq(Entries)
    /\ \A i \in 1 .. Len(history) :
         /\ pc[history[i].request] = "over"
         /\ \E k \in 1 .. Len(upstream) : SameRequest(history[i], upstream[k])
    /\ \A i, j \in 1 .. Len(history) : history[i].request = history[j].request => i = j

Ordered(h, u) ==
    \A i, j \in 1 .. Len(h) : \A k, l \in 1 .. Len(u) :
      /\ SameRequest(h[i], u[k]) /\ SameRequest(h[j], u[l]) /\ i < j
      /\ ConnOf[h[i].request] = ConnOf[h[j].request] /\ Kind[ConnOf[h[i].request]] = "h1"
      => k < l

InOrder == Ordered(history, upstream)

RequestInv == RequestTypes /\ OneAtWork /\ SentInv /\ LoggedInv /\ InOrder

-----------------------------------------------------------------------------
(* The kinds of steps and what they leave alone.                           *)

ServerStep == Command \/ CommandEnd \/ \E k \in Servers : Serve(k)
ConnStep == \E c \in Conns : Accept(c) \/ LeaveBrowser(c) \/ Connect(c) \/ Disconnect(c)
RequestStep == \E r \in Requests : Begin(r) \/ Decide(r) \/ Handle(r)

LEMMA ServerFrame ==
  ASSUME ServerStep
  PROVE  /\ UNCHANGED <<budget, keyFile, crtFile, pairs, expired, cacheVars, conn, server, owner,
                        gone, requestVars>>
         /\ UNCHANGED <<process, ca>> \/ (process' = "down" /\ ca' = NoCA)
BY DEF ServerStep, Command, CommandEnd, Restart, Stop, SwitchProject, StartEnd, StopEnd,
       openProject, Serve, connVars, diskVars

LEMMA ConnFrame ==
  ASSUME ConnStep
  PROVE  UNCHANGED <<budget, diskVars, cacheVars, serverVars, deadline, requestVars>>
BY DEF ConnStep, Accept, LeaveBrowser, Connect, Disconnect, Conn

LEMMA RequestFrame ==
  ASSUME RequestStep
  PROVE  UNCHANGED <<budget, diskVars, cacheVars, serverVars, server, owner, deadline, gone>>
BY DEF RequestStep, Begin, Decide, Handle, Gate, Engine, Send, Answer, Stall, Write, Log, connVars

LEMMA NextIsOneOf ==
  Next <=> Authority \/ ServerStep \/ ConnStep \/ RequestStep
BY DEF Next, ServerStep, ConnStep, RequestStep

-----------------------------------------------------------------------------
(* The certificate authority.                                              *)

LEMMA CAInitially == Init => CAInv
BY AuthorityAssumption DEF Init, CAInit, NoCA, CAInv, CATypeOK, FilesInv, RunInv

LEMMA CAUnchanged ==
  ASSUME CAInv, UNCHANGED <<keyFile, crtFile, pairs, expired, cacheVars>>,
         UNCHANGED <<process, ca>> \/ (process' = "down" /\ ca' = NoCA)
  PROVE  CAInv'
BY DEF CAInv, CATypeOK, FilesInv, RunInv, NoCA, cacheVars

(* A new pair is made when there is none, and no proxy has one, or when    *)
(* the old one has expired.                                                *)
LEMMA GenerateStep ==
  ASSUME CAInv, Load, generate
  PROVE  CAInv'
<1>. USE AuthorityAssumption DEF CAInv, CATypeOK, FilesInv, RunInv
<1>1. /\ pairs' = pairs + 1 /\ pairs < MaxPairs /\ process' = "key"
      /\ UNCHANGED <<ca, keyFile, crtFile, expired, cacheVars>>
  BY DEF Load, generate
<1>2. crtFile \in Nat => crtFile \in expired
  BY <1>1 DEF Load, loadFromDisk, Loaded, LoadFails
<1>. QED  BY <1>1, <1>2 DEF cacheVars, NoCA

LEMMA LoadStep ==
  ASSUME CAInv, Load
  PROVE  CAInv'
<1>. USE AuthorityAssumption DEF CAInv, CATypeOK, FilesInv, RunInv
<1>. UNCHANGED <<keyFile, crtFile, expired, cacheVars>>
  BY DEF Load
<1>1. CASE generate
  BY <1>1, GenerateStep
<1>2. CASE LoadFails /\ UNCHANGED pairs
  BY <1>2 DEF LoadFails, cacheVars
<1>3. CASE /\ keyFile \notin {Absent, Torn} /\ crtFile \notin {Absent, Torn} \cup expired
           /\ Loaded([key |-> keyFile, cert |-> crtFile]) /\ UNCHANGED pairs
  <2>1. crtFile \in 1 .. pairs /\ keyFile = crtFile
    BY <1>3
  <2>2. process' = "up" /\ ca' \in {ca, [key |-> keyFile, cert |-> crtFile]} /\ ca' # NoCA
    BY <1>3, <2>1 DEF Loaded, NoCA
  <2>. QED  BY <1>3, <2>1, <2>2 DEF cacheVars, NoCA
<1>. QED  BY <1>1, <1>2, <1>3 DEF Load, loadFromDisk

LEMMA WriteStep ==
  ASSUME CAInv, WritePair
  PROVE  CAInv'
<1>. USE AuthorityAssumption DEF CAInv, CATypeOK, FilesInv, RunInv, cacheVars
<1>. /\ process' # "up" /\ UNCHANGED <<pairs, expired, ca, cacheVars>>
  BY DEF WritePair
<1>0. process \in {"key", "keyOpen", "crt", "crtOpen"} /\ ca # NoCA => ca.cert \in expired
  BY DEF NoCA
<1>1. CASE process = "key"     /\ keyFile' = Torn  /\ process' = "keyOpen" /\ UNCHANGED crtFile
  BY <1>0, <1>1
<1>2. CASE process = "keyOpen" /\ keyFile' = pairs /\ process' = "crt"     /\ UNCHANGED crtFile
  BY <1>0, <1>2
<1>3. CASE process = "crt"     /\ crtFile' = Torn  /\ process' = "crtOpen" /\ UNCHANGED keyFile
  BY <1>0, <1>3
<1>4. CASE process = "crtOpen" /\ crtFile' = pairs /\ process' = "ready"   /\ UNCHANGED keyFile
  BY <1>0, <1>4
<1>. QED  BY <1>1, <1>2, <1>3, <1>4 DEF WritePair

LEMMA ProcessStep ==
  ASSUME CAInv, Generated \/ WriteFails \/ End \/ Expire
  PROVE  CAInv'
<1>. USE AuthorityAssumption DEF CAInv, CATypeOK, FilesInv, RunInv, cacheVars
<1>1. CASE Generated
  <2>1. /\ process = "ready" /\ pairs \in Nat \ {0} /\ keyFile = pairs /\ crtFile = pairs
        /\ process' = "up" /\ UNCHANGED <<keyFile, crtFile, pairs, expired, cacheVars>>
        /\ ca' = IF ca = NoCA THEN [key |-> pairs, cert |-> pairs] ELSE ca
    BY <1>1 DEF Generated, Loaded
  <2>. QED  BY <2>1 DEF NoCA
<1>2. CASE WriteFails
  BY <1>2 DEF WriteFails, LoadFails
<1>3. CASE End
  BY <1>3 DEF End, NoCA
<1>4. CASE Expire
  BY <1>4 DEF Expire
<1>. QED  BY <1>1, <1>2, <1>3, <1>4

(* TLSCertForHost changes no file, and the certificates it deals in are    *)
(* numbers up to the last one made.                                        *)
LEMMA CertStep ==
  ASSUME CAInv, NEW a \in Authorities, NEW c \in Askers, TLSCertForHost(a, c)
  PROVE  CAInv'
<1>. USE AuthorityAssumption DEF CAInv, CATypeOK, FilesInv, RunInv, diskVars
<1>. HostOf[c] \in Hosts
  OBVIOUS
<1>1. CASE generateHostCert(a, c)
  <2>1. CASE cache[a][HostOf[c]] # 0
    BY <1>1, <2>1 DEF generateHostCert
  <2>2. CASE cache[a][HostOf[c]] = 0
    BY <1>1, <2>2 DEF generateHostCert
  <2>. QED  BY <2>1, <2>2
<1>2. CASE LoadOrStore(a, c)
  <2>1. cache' \in [Authorities -> [Hosts -> 0 .. made]]
    BY <1>2 DEF LoadOrStore
  <2>2. given' \in [Askers -> 0 .. made] /\ UNCHANGED <<diskVars, made, making>>
    BY <1>2, <2>1 DEF LoadOrStore
  <2>. QED  BY <2>1, <2>2
<1>. QED  BY <1>1, <1>2 DEF TLSCertForHost

-----------------------------------------------------------------------------
(* The servers.                                                            *)

LEMMA BudgetType ==
  ASSUME budget \in Budgets
  PROVE  /\ budget.servers \in Nat /\ budget.projects \in Nat \ {0}
         /\ budget.addrs \subseteq Addrs
BY ProxyAssumption

LEMMA ServerInitially == Init => ServerInv
<1>. SUFFICES ASSUME Init PROVE ServerInv
  OBVIOUS
<1>1. /\ budget \in Budgets /\ main = "idle" /\ project = 1 /\ srv = 0 /\ old = 0 /\ started = 0
      /\ state = [k \in Servers |-> "none"] /\ at = [k \in Servers |-> 0] /\ running = FALSE
  BY DEF Init
<1>2. ServerTypes
  <2>1. budget.servers \in Nat /\ budget.projects \in Nat \ {0}
    BY <1>1, BudgetType
  <2>2. /\ project \in 1 .. budget.projects /\ started \in 0 .. budget.servers
        /\ {srv, old} \subseteq 0 .. started
    BY <1>1, <2>1
  <2>3. /\ state \in [Servers -> {"none", "bound", "serving", "doomed", "closed"}]
        /\ at \in [Servers -> Addrs \cup {0}] /\ running \in BOOLEAN
    BY <1>1
  <2>. QED  BY <1>1, <2>2, <2>3 DEF ServerTypes
<1>3. \A k \in Servers : state[k] = "none"
  BY <1>1
<1>. QED  BY <1>1, <1>2, <1>3 DEF ServerInv, Listening

LEMMA ServerUnchanged ==
  ASSUME ServerInv, UNCHANGED <<budget, serverVars>>
  PROVE  ServerInv'
BY DEF ServerInv, ServerTypes, Servers, Listening, serverVars

LEMMA RestartStep ==
  ASSUME ServerInv, NEW a \in budget.addrs, Restart(a)
  PROVE  ServerInv'
<1>. USE BudgetType DEF ServerInv, ServerTypes, Servers, Listening, Idle
<1>1. /\ main = "idle" /\ started < budget.servers /\ running' = TRUE
      /\ UNCHANGED <<budget, project>>
  BY DEF Restart
<1>2. CASE InUse(a)
  BY <1>1, <1>2 DEF Restart
<1>3. CASE ~InUse(a)
  <2>1. /\ started' = started + 1 /\ srv' = started' /\ old' = srv /\ main' = "start"
        /\ at' = [at EXCEPT ![started'] = a]
    BY <1>3 DEF Restart
  <2>2. \A k \in Servers : state'[k] = IF k = started' THEN "bound"
                                       ELSE IF k = srv THEN ListenerClosed(k) ELSE state[k]
    BY <1>1, <1>3 DEF Restart
  <2>3. state' \in [Servers -> {"none", "bound", "serving", "doomed", "closed"}]
    BY <1>3 DEF Restart, ListenerClosed
  <2>4. \A k \in Servers : Listening(k)' => k = srv'
    BY <2>1, <2>2 DEF ListenerClosed
  <2>5. \A k \in Servers : k > started' => state'[k] = "none"
    BY <2>1, <2>2 DEF ListenerClosed
  <2>. QED  BY <1>1, <2>1, <2>3, <2>4, <2>5
<1>. QED  BY <1>2, <1>3

LEMMA ServeStep ==
  ASSUME ServerInv, NEW k \in Servers, Serve(k)
  PROVE  ServerInv'
<1>. USE DEF ServerInv, ServerTypes, Servers, Listening
<1>1. UNCHANGED <<budget, main, project, srv, old, started, at, running>>
  BY DEF Serve
<1>2. /\ state' \in [Servers -> {"none", "bound", "serving", "doomed", "closed"}]
      /\ k <= started
      /\ \A j \in Servers : Listening(j)' => Listening(j)
      /\ \A j \in Servers \ {k} : state'[j] = state[j]
  BY BudgetType DEF Serve
<1>. QED  BY <1>1, <1>2, BudgetType

(* Stop, and the switch of the project, shut the server down.              *)
LEMMA ShutdownStep ==
  ASSUME ServerInv, Stop \/ SwitchProject
  PROVE  ServerInv'
<1>. USE DEF ServerInv, ServerTypes, Servers, Listening
<1>1. /\ Idle /\ UNCHANGED <<budget, project, srv, started, at>>
      /\ main' \in {main, "stop", "switch"} /\ old' \in {old, srv}
  BY DEF Stop, SwitchProject
<1>2. /\ state' \in [Servers -> {"none", "bound", "serving", "doomed", "closed"}]
      /\ \A k \in Servers : k # srv => state'[k] = state[k]
      /\ \A k \in Servers : k = srv => state'[k] = ListenerClosed(k)
  BY BudgetType DEF Stop, SwitchProject, ListenerClosed
<1>3. \A k \in Servers : ~Listening(k)'
  BY <1>2 DEF ListenerClosed
<1>4. \A k \in Servers : k > started' => state'[k] = "none"
  BY <1>1, <1>2, BudgetType
<1>5. /\ running' \in BOOLEAN /\ (~running' => srv' = 0 \/ main' = "stop")
      /\ main' # "start" /\ (main' = "switch" => project < budget.projects)
  BY <1>1 DEF Stop, SwitchProject, Idle
<1>. QED  BY <1>1, <1>2, <1>3, <1>4, <1>5

LEMMA CommandEndStep ==
  ASSUME ServerInv, CommandEnd
  PROVE  ServerInv'
<1>. USE BudgetType DEF ServerInv, ServerTypes, Servers, Listening
<1>1. CASE StartEnd
  BY <1>1 DEF StartEnd
<1>2. CASE StopEnd
  BY <1>2 DEF StopEnd
<1>3. CASE openProject
  BY <1>3 DEF openProject
<1>. QED  BY <1>1, <1>2, <1>3 DEF CommandEnd

LEMMA ServerInvStep == ServerInv /\ [Next]_vars => ServerInv'
<1>. SUFFICES ASSUME ServerInv, [Next]_vars PROVE ServerInv'
  OBVIOUS
<1>1. CASE ServerStep
  BY <1>1, RestartStep, ServeStep, ShutdownStep, CommandEndStep DEF ServerStep, Command
<1>2. CASE Authority \/ ConnStep \/ RequestStep \/ UNCHANGED vars
  BY <1>2, ServerUnchanged, ConnFrame, RequestFrame DEF Authority, vars, proxyVars
<1>. QED  BY <1>1, <1>2, NextIsOneOf

(* Start, Stop, Restart, the switch and the goroutines of Start that come  *)
(* late: what listens is what Stop will stop, and nothing when it is off.  *)
THEOREM OnlySrvAlwaysListens == Spec => []OnlySrvListens
<1>1. ServerInv => OnlySrvListens
  BY DEF ServerInv, ServerTypes, OnlySrvListens, Listening, Servers
<1>. QED  BY <1>1, ServerInitially, ServerInvStep, PTL DEF Spec

-----------------------------------------------------------------------------
(* The connections.                                                        *)

ConnStates == {"none", "accepted", "connect", "hijacked", "tracked", "open", "closed"}

LEMMA ConnInitially == Init => ConnInv
BY DEF Init, ConnInv, ConnTypes

LEMMA CountersGrow ==
  ASSUME ServerInv, ServerStep
  PROVE  /\ started \in Nat /\ started' \in Nat /\ started <= started'
         /\ project \in Nat /\ project' \in Nat /\ project <= project'
<1>1. started \in Nat /\ project \in Nat
  BY BudgetType DEF ServerInv, ServerTypes
<1>2. started' \in {started, started + 1} /\ project' \in {project, project + 1}
  BY DEF ServerStep, Command, CommandEnd, Restart, Stop, SwitchProject, StartEnd, StopEnd,
         openProject, Serve
<1>. QED  BY <1>1, <1>2

LEMMA ConnServerStep ==
  ASSUME ServerInv, ConnTypes, ServerStep
  PROVE  ConnTypes'
<1>1. UNCHANGED <<conn, server, owner, gone>>
  BY ServerFrame
<1>2. server' \in [Conns -> 0 .. started'] /\ owner' \in [Conns -> 0 .. project']
  BY <1>1, CountersGrow DEF ConnTypes
<1>3. deadline' = deadline \/ closeAllConns
  BY DEF ServerStep, Command, CommandEnd, Restart, Stop, SwitchProject, StartEnd, StopEnd,
         openProject, Serve, connVars
<1>4. deadline' \in [Conns -> BOOLEAN]
  BY <1>3 DEF closeAllConns, ConnTypes
<1>. QED  BY <1>1, <1>2, <1>4 DEF ConnTypes

LEMMA ConnConnStep ==
  ASSUME ServerInv, ConnTypes, ConnStep
  PROVE  ConnTypes'
<1>1. UNCHANGED <<serverVars, deadline>>
  BY ConnFrame
<1>2. UNCHANGED <<started, project, deadline>>
  BY <1>1 DEF serverVars
<1>3. PICK c \in Conns : Accept(c) \/ LeaveBrowser(c) \/ Connect(c) \/ Disconnect(c)
  BY DEF ConnStep
<1>4. CASE Accept(c)
  <2>1. PICK k \in Servers :
          /\ state[k] = "serving"
          /\ conn' = [conn EXCEPT ![c] = IF Kind[c] = "plain" THEN "accepted" ELSE "connect"]
          /\ server' = [server EXCEPT ![c] = k] /\ owner' = [owner EXCEPT ![c] = project]
          /\ UNCHANGED gone
    BY <1>4 DEF Accept
  <2>2. k \in 0 .. started /\ project \in 0 .. project
    BY <2>1, BudgetType DEF ServerInv, ServerTypes, Servers
  <2>. QED  BY <1>2, <2>1, <2>2 DEF ConnTypes
<1>5. CASE LeaveBrowser(c)
  BY <1>2, <1>5 DEF LeaveBrowser, ConnTypes
<1>6. CASE Connect(c) \/ Disconnect(c)
  <2>1. /\ UNCHANGED <<server, owner, gone>>
        /\ \E to \in ConnStates : conn' = [conn EXCEPT ![c] = to]
    BY <1>6 DEF Connect, Disconnect, Conn, ConnStates
  <2>. QED  BY <1>2, <2>1 DEF ConnTypes, ConnStates
<1>. QED  BY <1>3, <1>4, <1>5, <1>6

(* A handler may close its connection.                                     *)
LEMMA RequestConns ==
  ASSUME ConnTypes, RequestStep
  PROVE  /\ conn' \in [Conns -> ConnStates]
         /\ \A c \in Conns : conn'[c] \in {conn[c], "closed"}
<1>1. conn \in [Conns -> ConnStates]
  BY DEF ConnTypes, ConnStates
<1>2. ASSUME NEW r \in Requests, NEW fails \in BOOLEAN, Over(r, fails)
      PROVE  \E to \in {conn[ConnOf[r]], "closed"} : conn' = [conn EXCEPT ![ConnOf[r]] = to]
  BY <1>2 DEF Over
<1>3. UNCHANGED conn \/ \E r \in Requests : \E fails \in BOOLEAN : Over(r, fails)
  BY DEF RequestStep, Begin, Decide, Handle, Gate, Engine, Send, Answer, Stall, Write, Log, connVars
<1>4. CASE UNCHANGED conn
  BY <1>1, <1>4
<1>5. ASSUME NEW r \in Requests, NEW fails \in BOOLEAN, Over(r, fails)
      PROVE  /\ conn' \in [Conns -> ConnStates]
             /\ \A c \in Conns : conn'[c] \in {conn[c], "closed"}
  <2>1. PICK to \in {conn[ConnOf[r]], "closed"} : conn' = [conn EXCEPT ![ConnOf[r]] = to]
    BY <1>2, <1>5
  <2>2. ConnOf[r] \in Conns /\ to \in ConnStates
    BY <1>1, ProxyAssumption DEF ConnStates
  <2>. QED  BY <1>1, <2>1, <2>2
<1>. QED  BY <1>3, <1>4, <1>5

LEMMA ConnRequestStep ==
  ASSUME ConnTypes, RequestStep
  PROVE  ConnTypes'
<1>1. UNCHANGED <<serverVars, server, owner, deadline, gone>>
  BY RequestFrame
<1>2. UNCHANGED <<started, project, server, owner, deadline, gone>>
  BY <1>1 DEF serverVars
<1>. QED  BY <1>2, RequestConns DEF ConnTypes, ConnStates

LEMMA ConnInvStep == ServerInv /\ ConnInv /\ [Next]_vars => ConnInv'
<1>. SUFFICES ASSUME ServerInv, ConnInv, [Next]_vars PROVE ConnInv'
  OBVIOUS
<1>1. ConnTypes'
  <2>1. CASE Authority \/ UNCHANGED vars
    BY <2>1 DEF Authority, vars, proxyVars, serverVars, connVars, ConnTypes, ConnInv
  <2>. QED  BY <2>1, ConnServerStep, ConnConnStep, ConnRequestStep, NextIsOneOf DEF ConnInv
<1>2. \A c \in Conns : conn'[c] \notin {"none", "closed"} => owner'[c] > 0
  <2>1. CASE Authority \/ UNCHANGED vars
    BY <2>1 DEF Authority, vars, proxyVars, connVars, ConnInv
  <2>2. CASE ServerStep
    BY <2>2, ServerFrame DEF ConnInv
  <2>3. CASE RequestStep
    BY <2>3, RequestFrame, RequestConns DEF ConnInv, ConnTypes, ConnStates
  <2>4. CASE ConnStep
    <3>1. PICK c \in Conns : Accept(c) \/ LeaveBrowser(c) \/ Connect(c) \/ Disconnect(c)
      BY <2>4 DEF ConnStep
    <3>2. CASE Accept(c)
      <4>1. project > 0
        BY BudgetType DEF ServerInv, ServerTypes
      <4>2. owner' = [owner EXCEPT ![c] = project] /\ \A d \in Conns \ {c} : conn'[d] = conn[d]
        BY <3>2 DEF Accept, ConnInv, ConnTypes
      <4>. QED  BY <4>1, <4>2 DEF ConnInv, ConnTypes
    <3>3. CASE LeaveBrowser(c)
      BY <3>3 DEF LeaveBrowser, ConnInv
    <3>4. CASE Connect(c) \/ Disconnect(c)
      <4>1. /\ UNCHANGED owner /\ conn[c] \notin {"none", "closed"}
            /\ \A d \in Conns \ {c} : conn'[d] = conn[d]
        BY <3>4 DEF Connect, Disconnect, Conn, ConnInv, ConnTypes
      <4>. QED  BY <4>1 DEF ConnInv
    <3>. QED  BY <3>1, <3>2, <3>3, <3>4
  <2>. QED  BY <2>1, <2>2, <2>3, <2>4, NextIsOneOf
<1>. QED  BY <1>1, <1>2 DEF ConnInv

-----------------------------------------------------------------------------
(* The certificates of hosts.                                              *)

LEMMA OwnerIsAuthority ==
  ASSUME ServerInv, ConnInv, NEW c \in Conns, conn[c] = "tracked"
  PROVE  owner[c] \in Authorities
<1>1. project \in 1 .. budget.projects /\ 1 .. budget.projects \subseteq Authorities
      /\ budget.projects \in Nat
  BY ProxyAssumption DEF ServerInv, ServerTypes
<1>2. owner[c] \in 1 .. project
  BY <1>1 DEF ConnInv, ConnTypes
<1>. QED  BY <1>1, <1>2

LEMMA CAStep == CAInv /\ ServerInv /\ ConnInv /\ [Next]_vars => CAInv'
<1>. SUFFICES ASSUME CAInv, ServerInv, ConnInv, [Next]_vars PROVE CAInv'
  OBVIOUS
<1>1. CASE Authority
  <2>1. CASE Load \/ WritePair \/ Generated \/ WriteFails \/ End \/ Expire
    BY <2>1, LoadStep, WriteStep, ProcessStep
  <2>2. CASE \E c \in Conns : conn[c] = "tracked" /\ TLSCertForHost(owner[c], c)
    BY <2>2, OwnerIsAuthority, CertStep DEF Conns
  <2>. QED  BY <1>1, <2>1, <2>2 DEF Authority
<1>2. CASE ServerStep \/ ConnStep \/ RequestStep \/ UNCHANGED vars
  <2>1. /\ UNCHANGED <<keyFile, crtFile, pairs, expired, cacheVars>>
        /\ UNCHANGED <<process, ca>> \/ (process' = "down" /\ ca' = NoCA)
    BY <1>2, ServerFrame, ConnFrame, RequestFrame DEF vars, diskVars
  <2>. QED  BY <2>1, CAUnchanged
<1>. QED  BY <1>1, <1>2, NextIsOneOf

(* A proxy never runs with a key that is not that of its certificate,      *)
(* however often the program was killed while it wrote ca.key and ca.crt,  *)
(* and whenever the settings load the pair again.                          *)
THEOREM PairAlwaysMatches == Spec => []LoadedPairMatches
<1>. DEFINE Inv == CAInv /\ ServerInv /\ ConnInv
<1>1. Init => Inv
  BY CAInitially, ServerInitially, ConnInitially
<1>2. Inv /\ [Next]_vars => Inv'
  BY CAStep, ServerInvStep, ConnInvStep
<1>3. Inv => LoadedPairMatches
  BY DEF CAInv, RunInv, LoadedPairMatches
<1>. QED  BY <1>1, <1>2, <1>3, PTL DEF Spec

(* A handshake changes the cache for its own host in its own project, and  *)
(* there only from nothing.                                                *)
LEMMA CacheCertStep ==
  ASSUME CAInv, CacheInv, NEW c \in Askers, owner[c] \in Authorities, conn[c] = "tracked",
         TLSCertForHost(owner[c], c), UNCHANGED <<conn, owner>>
  PROVE  CacheInv'
<1>. USE AuthorityAssumption DEF CAInv, CATypeOK, CacheInv
<1>1. CASE generateHostCert(owner[c], c)
  <2>1. CASE cache[owner[c]][HostOf[c]] # 0
    BY <1>1, <2>1 DEF generateHostCert
  <2>2. CASE cache[owner[c]][HostOf[c]] = 0
    BY <1>1, <2>2 DEF generateHostCert
  <2>. QED  BY <2>1, <2>2
<1>2. CASE LoadOrStore(owner[c], c)
  <2>1. \A d \in Askers \ {c} : given'[d] = given[d]
    BY <1>2 DEF LoadOrStore
  <2>2. given'[c] = cache'[owner[c]][HostOf[c]]
    BY <1>2 DEF LoadOrStore
  <2>3. ASSUME NEW a, NEW h, cache[a][h] # 0
        PROVE  cache'[a][h] = cache[a][h]
    <3>1. cache' = [cache EXCEPT ![owner[c]][HostOf[c]] = IF @ = 0 THEN making[c] ELSE @]
      BY <1>2 DEF LoadOrStore
    <3>2. CASE a \in Authorities /\ h \in Hosts
      BY <2>3, <3>1, <3>2
    <3>. QED  BY <3>1, <3>2
  <2>4. UNCHANGED making
    BY <1>2 DEF LoadOrStore
  <2>5. \A d \in Askers : given'[d] # 0 => given'[d] = cache'[owner[d]][HostOf[d]]
    BY <2>1, <2>2, <2>3
  <2>. QED  BY <2>1, <2>4, <2>5
<1>. QED  BY <1>1, <1>2 DEF TLSCertForHost

(* A connection gets its owner before it asks for anything.                *)
LEMMA CacheStep == CAInv /\ ServerInv /\ ConnInv /\ CacheInv /\ [Next]_vars => CacheInv'
<1>. SUFFICES ASSUME CAInv, ServerInv, ConnInv, CacheInv, [Next]_vars PROVE CacheInv'
  OBVIOUS
<1>1. CASE Authority
  <2>1. UNCHANGED <<conn, owner>>
    BY <1>1 DEF Authority, proxyVars, connVars
  <2>2. CASE Load \/ WritePair \/ Generated \/ WriteFails \/ Expire
    BY <2>1, <2>2 DEF CacheInv, Load, WritePair, Generated, WriteFails, Expire, cacheVars
  <2>3. CASE End
    BY <2>1, <2>3 DEF CacheInv, End
  <2>4. CASE \E c \in Conns : conn[c] = "tracked" /\ TLSCertForHost(owner[c], c)
    BY <2>1, <2>4, OwnerIsAuthority, CacheCertStep DEF Conns
  <2>. QED  BY <1>1, <2>2, <2>3, <2>4 DEF Authority
<1>2. CASE ServerStep \/ UNCHANGED vars
  BY <1>2, ServerFrame DEF CacheInv, cacheVars, vars, proxyVars, connVars
<1>3. CASE ConnStep
  <2>1. UNCHANGED cacheVars
    BY <1>3, ConnFrame
  <2>2. PICK c \in Conns : Accept(c) \/ LeaveBrowser(c) \/ Connect(c) \/ Disconnect(c)
    BY <1>3 DEF ConnStep
  <2>3. CASE Accept(c)
    <3>1. /\ conn[c] = "none" /\ conn'[c] # "none" /\ given[c] = 0
          /\ \A d \in Conns \ {c} : conn'[d] = conn[d] /\ owner'[d] = owner[d]
      BY <2>3 DEF Accept, ConnInv, ConnTypes, CacheInv, Conns
    <3>. QED  BY <2>1, <3>1 DEF CacheInv, cacheVars, Conns
  <2>4. CASE LeaveBrowser(c)
    BY <2>1, <2>4 DEF LeaveBrowser, CacheInv, cacheVars
  <2>5. CASE Connect(c) \/ Disconnect(c)
    <3>1. /\ UNCHANGED owner /\ conn[c] # "none" /\ \A d \in Conns \ {c} : conn'[d] = conn[d]
          /\ conn'[c] # "none"
      BY <2>5 DEF Connect, Disconnect, Conn, ConnInv, ConnTypes
    <3>. QED  BY <2>1, <3>1 DEF CacheInv, cacheVars, Conns
  <2>. QED  BY <2>2, <2>3, <2>4, <2>5
<1>4. CASE RequestStep
  <2>1. UNCHANGED cacheVars /\ UNCHANGED owner
    BY <1>4, RequestFrame
  <2>2. \A d \in Conns : conn'[d] \in {conn[d], "closed"}
    BY <1>4, RequestConns DEF ConnInv
  <2>. QED  BY <2>1, <2>2 DEF CacheInv, cacheVars, Conns
<1>. QED  BY <1>1, <1>2, <1>3, <1>4, NextIsOneOf

(* TLSCertForHost returns one certificate per host to all connections of a *)
(* project, also to those that missed the cache at the same time, and      *)
(* whichever project is open by then.                                      *)
THEOREM OneCertificateAlways == Spec => []OneCertificatePerHost
<1>. DEFINE Inv == CAInv /\ ServerInv /\ ConnInv /\ CacheInv
<1>1. Init => Inv
  <2>1. Init => CacheInv
    BY DEF Init, CAInit, CacheInv
  <2>. QED  BY <2>1, CAInitially, ServerInitially, ConnInitially
<1>2. Inv /\ [Next]_vars => Inv'
  BY CAStep, ServerInvStep, ConnInvStep, CacheStep
<1>3. Inv => OneCertificatePerHost
  BY DEF CacheInv, OneCertificatePerHost, Conns
<1>. QED  BY <1>1, <1>2, <1>3, PTL DEF Spec

-----------------------------------------------------------------------------
(* The requests.                                                           *)

Stages == {"none", "gate", "held", "engine", "send", "sent", "write", "stalled", "log", "over"}

LEMMA RequestInitially == Init => RequestInv
<1>. SUFFICES ASSUME Init PROVE RequestInv
  OBVIOUS
<1>1. /\ pc = [r \in Requests |-> "none"] /\ edits = [r \in Requests |-> {}]
      /\ dropped = {} /\ upstream = <<>> /\ history = <<>>
  BY DEF Init
<1>2. <<>> \in Seq(Entries) /\ Len(<<>>) = 0
  BY EmptySeq
<1>3. RequestTypes /\ OneAtWork
  BY <1>1 DEF RequestTypes, OneAtWork
<1>4. SentInv
  BY <1>1, <1>2 DEF SentInv, OutThere
<1>5. LoggedInv /\ InOrder
  BY <1>1, <1>2 DEF LoggedInv, InOrder, Ordered
<1>. QED  BY <1>3, <1>4, <1>5 DEF RequestInv

LEMMA RequestUnchanged ==
  ASSUME RequestInv, UNCHANGED requestVars
  PROVE  RequestInv'
BY DEF RequestInv, RequestTypes, OneAtWork, SentInv, OutThere, LoggedInv, InOrder, requestVars

LEMMA EntryTypes ==
  ASSUME RequestInv
  PROVE  /\ Len(upstream) \in Nat /\ Len(history) \in Nat
         /\ \A i \in 1 .. Len(upstream) : upstream[i] \in Entries
         /\ \A i \in 1 .. Len(history) : history[i] \in Entries
BY LenProperties, ElementOfSeq DEF RequestInv, SentInv, LoggedInv

(* Before a request is sent, none of its steps touches an entry.           *)
LEMMA EarlyStep ==
  ASSUME RequestInv, NEW r \in Requests, NEW to \in {"gate", "held", "engine", "send", "over"},
         NEW e \in SUBSET {"user", "plugin"},
         pc[r] \in {"none", "gate", "held", "engine", "send"},
         pc[r] = "none" /\ Kind[ConnOf[r]] = "h1" => ~AtWork(ConnOf[r]),
         pc' = [pc EXCEPT ![r] = to], edits' = [edits EXCEPT ![r] = e],
         dropped' = dropped \/ (to = "over" /\ dropped' = dropped \cup {r}),
         UNCHANGED <<upstream, history>>
  PROVE  RequestInv'
<1>. USE DEF RequestInv
<1>1. /\ pc'[r] = to /\ edits'[r] = e
      /\ \A s \in Requests \ {r} : pc'[s] = pc[s] /\ edits'[s] = edits[s]
  BY DEF RequestTypes
<1>2. RequestTypes'
  BY DEF RequestTypes
<1>3. OneAtWork'
  BY <1>1 DEF OneAtWork, AtWork
<1>4. /\ \A i \in 1 .. Len(upstream) : upstream[i].request \in Requests \ {r}
      /\ \A i \in 1 .. Len(history) : history[i].request \in Requests \ {r}
  BY EntryTypes DEF SentInv, LoggedInv, Entries
<1>5. SentInv'
  <2>1. \A s \in Requests : OutThere(s)' <=> OutThere(s)
    BY <1>1 DEF OutThere
  <2>2. \A s \in dropped' : pc'[s] = "over"
    BY <1>1 DEF SentInv, RequestTypes
  <2>. QED  BY <1>1, <1>4, <2>1, <2>2 DEF SentInv
<1>6. LoggedInv'
  BY <1>1, <1>4 DEF LoggedInv
<1>7. InOrder'
  BY DEF InOrder
<1>. QED  BY <1>2, <1>3, <1>5, <1>6, <1>7

(* Nor does it while the answer is on its way.                             *)
LEMMA LateStep ==
  ASSUME RequestInv, NEW r \in Requests, NEW to \in {"write", "stalled", "log", "over"},
         OutThere(r), pc' = [pc EXCEPT ![r] = to],
         UNCHANGED <<edits, dropped, upstream, history>>
  PROVE  RequestInv'
<1>. USE DEF RequestInv
<1>1. pc'[r] = to /\ \A s \in Requests \ {r} : pc'[s] = pc[s]
  BY DEF RequestTypes
<1>2. RequestTypes'
  BY DEF RequestTypes
<1>3. OneAtWork'
  BY <1>1 DEF OneAtWork, OutThere
<1>4. /\ \A i \in 1 .. Len(upstream) : upstream[i].request \in Requests
      /\ \A i \in 1 .. Len(history) : history[i].request \in Requests
  BY EntryTypes DEF Entries
<1>5. SentInv'
  <2>1. \A s \in Requests : OutThere(s)' => OutThere(s)
    BY <1>1 DEF OutThere
  <2>2. \A s \in dropped : s \in Requests /\ pc'[s] = "over"
    BY <1>1 DEF SentInv, RequestTypes, OutThere
  <2>3. \A i \in 1 .. Len(upstream) : pc'[upstream[i].request] \in {"sent", "write", "stalled", "log", "over"}
    BY <1>1, <1>4 DEF SentInv
  <2>. QED  BY <1>4, <2>1, <2>2, <2>3 DEF SentInv
<1>6. LoggedInv'
  BY <1>1, <1>4 DEF LoggedInv, OutThere
<1>7. InOrder'
  BY DEF InOrder
<1>. QED  BY <1>2, <1>3, <1>5, <1>6, <1>7

LEMMA SendKeeps ==
  ASSUME RequestInv, NEW r \in Requests, pc[r] = "send", pc' = [pc EXCEPT ![r] = "sent"],
         upstream' = Append(upstream, [request |-> r, edits |-> edits[r], headers |-> "outgoing"]),
         UNCHANGED <<edits, dropped, history>>
  PROVE  RequestInv'
<1>. USE DEF RequestInv
<1>. DEFINE entry == [request |-> r, edits |-> edits[r], headers |-> "outgoing"]
            n == Len(upstream)
<1>2. entry \in Entries /\ entry.request = r /\ entry.edits = edits[r]
  BY DEF Entries, RequestTypes
<1>3. /\ upstream' \in Seq(Entries) /\ Len(upstream') = n + 1 /\ n \in Nat
      /\ \A i \in 1 .. n : upstream'[i] = upstream[i]
      /\ upstream'[n + 1] = entry
  <2>. HIDE DEF entry
  <2>. QED  BY <1>2, EntryTypes, AppendProperties DEF SentInv, entry
<1>. HIDE DEF entry, n
<1>4. pc'[r] = "sent" /\ \A s \in Requests \ {r} : pc'[s] = pc[s]
  BY DEF RequestTypes
<1>5. /\ \A i \in 1 .. n : upstream[i].request \in Requests \ {r}
      /\ \A i \in 1 .. Len(history) : history[i].request \in Requests \ {r}
      /\ r \notin dropped
  BY EntryTypes DEF SentInv, LoggedInv, Entries, n
<1>6. \A i \in 1 .. n + 1 : i \in 1 .. n \/ i = n + 1
  BY <1>3
<1>7. RequestTypes' /\ OneAtWork'
  BY <1>4 DEF RequestTypes, OneAtWork
<1>8. SentInv'
  <2>1. \A i \in 1 .. n + 1 :
          /\ pc'[upstream'[i].request] \in {"sent", "write", "stalled", "log", "over"}
          /\ upstream'[i].edits = edits[upstream'[i].request]
          /\ upstream'[i].request \notin dropped
    BY <1>2, <1>3, <1>4, <1>5, <1>6 DEF SentInv, n
  <2>2. \A i, j \in 1 .. n + 1 : upstream'[i].request = upstream'[j].request => i = j
    BY <1>2, <1>3, <1>5, <1>6 DEF SentInv, n
  <2>3. ASSUME NEW s \in Requests, OutThere(s)'
        PROVE  \E i \in 1 .. n + 1 : upstream'[i].request = s
    <3>1. CASE s = r
      BY <1>2, <1>3, <3>1
    <3>2. CASE s # r
      <4>1. PICK i \in 1 .. n : upstream[i].request = s
        BY <1>4, <2>3, <3>2 DEF SentInv, OutThere, n
      <4>. QED  BY <1>3, <4>1
    <3>. QED  BY <3>1, <3>2
  <2>4. \A s \in dropped : pc'[s] = "over"
    BY <1>4, <1>5 DEF SentInv, RequestTypes
  <2>5. ASSUME NEW i \in 1 .. n + 1, NEW j \in 1 .. n + 1,
               pc'[upstream'[i].request] \in {"sent", "write", "stalled", "log"},
               Kind[ConnOf[upstream'[i].request]] = "h1",
               ConnOf[upstream'[i].request] = ConnOf[upstream'[j].request]
        PROVE  j <= i
    <3>1. CASE i = n + 1
      BY <1>3, <3>1
    <3>2. CASE i \in 1 .. n /\ j \in 1 .. n
      BY <1>3, <1>4, <1>5, <2>5, <3>2 DEF SentInv, OutThere, n
    <3>3. CASE i \in 1 .. n /\ j = n + 1
      <4>1. /\ upstream[i].request \in Requests \ {r} /\ OutThere(upstream[i].request)
            /\ Kind[ConnOf[upstream[i].request]] = "h1"
            /\ ConnOf[upstream[i].request] = ConnOf[r]
        BY <1>2, <1>3, <1>4, <1>5, <2>5, <3>3 DEF OutThere
      <4>. QED  BY <4>1 DEF OneAtWork, OutThere
    <3>. QED  BY <1>6, <3>1, <3>2, <3>3
  <2>6. \A i, j \in 1 .. n + 1 :
          /\ pc'[upstream'[i].request] \in {"sent", "write", "stalled", "log"}
          /\ Kind[ConnOf[upstream'[i].request]] = "h1"
          /\ ConnOf[upstream'[i].request] = ConnOf[upstream'[j].request]
          => j <= i
    BY <2>5
  <2>7. \A s \in Requests : pc'[s] \in {"sent", "write", "stalled", "log"}
                             => \E i \in 1 .. n + 1 : upstream'[i].request = s
    BY <2>3 DEF OutThere
  <2>8. 1 .. Len(upstream') = 1 .. n + 1 /\ edits' = edits /\ dropped' = dropped
    BY <1>3
  <2>9. /\ \A i \in 1 .. Len(upstream') :
              /\ pc'[upstream'[i].request] \in {"sent", "write", "stalled", "log", "over"}
              /\ upstream'[i].edits = edits'[upstream'[i].request]
              /\ upstream'[i].request \notin dropped'
        /\ \A s \in dropped' : pc'[s] = "over"
    BY <2>1, <2>4, <2>8, Zenon
  <2>10. /\ \A i, j \in 1 .. Len(upstream') : upstream'[i].request = upstream'[j].request => i = j
         /\ \A s \in Requests : OutThere(s)' => \E i \in 1 .. Len(upstream') : upstream'[i].request = s
    BY <2>2, <2>7, <2>8, Zenon DEF OutThere
  <2>11. \A i, j \in 1 .. Len(upstream') :
           /\ OutThere(upstream[i].request)' /\ Kind[ConnOf[upstream'[i].request]] = "h1"
           /\ ConnOf[upstream'[i].request] = ConnOf[upstream'[j].request]
           => j <= i
    BY <2>6, <2>8, Zenon DEF OutThere
  <2>. QED  BY <1>3, <2>9, <2>10, <2>11, Zenon DEF SentInv
<1>9. LoggedInv'
  <2>1. ASSUME NEW i \in 1 .. Len(history)
        PROVE  /\ pc'[history[i].request] = "over"
               /\ \E k \in 1 .. n + 1 : SameRequest(history[i], upstream'[k])
    <3>1. PICK k \in 1 .. n : SameRequest(history[i], upstream[k])
      BY DEF LoggedInv, n
    <3>2. k \in 1 .. n + 1 /\ SameRequest(history[i], upstream'[k])
      BY <1>3, <3>1
    <3>. QED  BY <1>4, <1>5, <3>2 DEF LoggedInv
  <2>. QED  BY <1>3, <2>1 DEF LoggedInv
<1>10. InOrder'
  <2>1. \A i \in 1 .. Len(history) : \A k \in 1 .. n + 1 :
          SameRequest(history[i], upstream'[k])
            => k \in 1 .. n /\ SameRequest(history[i], upstream[k])
    BY <1>2, <1>3, <1>5, <1>6 DEF SameRequest
  <2>2. Ordered(history, upstream')
    <3>1. Ordered(history, upstream)
      BY DEF InOrder
    <3>. QED  BY <1>3, <2>1, <3>1 DEF Ordered, n
  <2>. QED  BY <2>2 DEF InOrder
<1>. QED  BY <1>7, <1>8, <1>9, <1>10

(* An entry may be added to h that is in u after all others of its         *)
(* HTTP/1.1 connection.                                                    *)
LEMMA LoggedInOrder ==
  ASSUME NEW h \in Seq(Entries), NEW u \in Seq(Entries), NEW e \in Entries, Ordered(h, u),
         \A i \in 1 .. Len(h) : h[i].request # e.request,
         \A k, l \in 1 .. Len(u) :
           /\ SameRequest(e, u[l]) /\ ConnOf[u[k].request] = ConnOf[e.request]
           /\ Kind[ConnOf[e.request]] = "h1"
           => k <= l
  PROVE  Ordered(Append(h, e), u)
<1>. DEFINE n == Len(h)
            g == Append(h, e)
<1>1. /\ Len(g) = n + 1 /\ n \in Nat /\ g[n + 1] = e
      /\ \A i \in 1 .. n : g[i] = h[i]
  BY AppendProperties, LenProperties
<1>. HIDE DEF g
<1>. SUFFICES ASSUME NEW i \in 1 .. n + 1, NEW j \in 1 .. n + 1,
                     NEW k \in 1 .. Len(u), NEW l \in 1 .. Len(u),
                     SameRequest(g[i], u[k]), SameRequest(g[j], u[l]), i < j,
                     ConnOf[g[i].request] = ConnOf[g[j].request], Kind[ConnOf[g[i].request]] = "h1"
              PROVE  k < l
  BY <1>1 DEF Ordered, g
<1>2. i \in 1 .. n /\ g[i] = h[i]
  BY <1>1
<1>3. CASE j \in 1 .. n
  BY <1>1, <1>2, <1>3 DEF Ordered
<1>4. CASE j = n + 1
  <2>1. SameRequest(e, u[l]) /\ u[k].request = h[i].request
    BY <1>1, <1>2, <1>4 DEF SameRequest
  <2>2. u[l].request = e.request /\ u[k].request # e.request
    BY <1>2, <2>1 DEF SameRequest
  <2>3. k <= l
    BY <1>1, <1>2, <1>4, <2>1
  <2>4. k # l
    BY <2>2
  <2>5. k \in Nat /\ l \in Nat
    BY LenProperties
  <2>. QED  BY <2>3, <2>4, <2>5
<1>5. j \in 1 .. n \/ j = n + 1
  BY <1>1
<1>. QED  BY <1>3, <1>4, <1>5

(* The store logs what is at the end of its way. *)
LEMMA LogKeeps ==
  ASSUME RequestInv, NEW r \in Requests, pc[r] = "log", pc' = [pc EXCEPT ![r] = "over"],
         history' = Append(history, [request |-> r, edits |-> edits[r], headers |-> "own"]),
         UNCHANGED <<edits, dropped, upstream>>
  PROVE  RequestInv'
<1>. USE DEF RequestInv
<1>. DEFINE entry == [request |-> r, edits |-> edits[r], headers |-> "own"]
            n == Len(history)
<1>1. entry \in Entries /\ entry.request = r /\ entry.edits = edits[r]
  BY DEF Entries, RequestTypes
<1>2. /\ history' \in Seq(Entries) /\ Len(history') = n + 1 /\ n \in Nat
      /\ \A i \in 1 .. n : history'[i] = history[i]
      /\ history'[n + 1] = entry
  <2>. HIDE DEF entry
  <2>. QED  BY <1>1, EntryTypes, AppendProperties DEF LoggedInv, entry
<1>3. PICK m \in 1 .. Len(upstream) : SameRequest(entry, upstream[m])
  <2>1. PICK m \in 1 .. Len(upstream) : upstream[m].request = r
    BY DEF SentInv, OutThere
  <2>2. upstream[m] \in Entries /\ upstream[m].edits = edits[r]
    BY <2>1, EntryTypes DEF SentInv
  <2>. QED  BY <1>1, <2>1, <2>2 DEF SameRequest
<1>. HIDE DEF entry, n
<1>4. pc'[r] = "over" /\ \A s \in Requests \ {r} : pc'[s] = pc[s]
  BY DEF RequestTypes
<1>5. /\ \A i \in 1 .. Len(upstream) : upstream[i].request \in Requests
      /\ \A i \in 1 .. n : history[i].request \in Requests \ {r}
  BY EntryTypes DEF LoggedInv, Entries, n
<1>6. \A i \in 1 .. n + 1 : i \in 1 .. n \/ i = n + 1
  BY <1>2
<1>7. RequestTypes' /\ OneAtWork'
  BY <1>4 DEF RequestTypes, OneAtWork
<1>8. SentInv'
  <2>1. \A s \in Requests : OutThere(s)' => OutThere(s)
    BY <1>4 DEF OutThere
  <2>2. \A s \in dropped : s \in Requests /\ pc'[s] = "over"
    BY <1>4 DEF SentInv, RequestTypes
  <2>3. \A i \in 1 .. Len(upstream) : pc'[upstream[i].request] \in {"sent", "write", "stalled", "log", "over"}
    BY <1>4, <1>5 DEF SentInv
  <2>. QED  BY <1>5, <2>1, <2>2, <2>3 DEF SentInv
<1>9. LoggedInv'
  <2>1. ASSUME NEW i \in 1 .. n + 1
        PROVE  /\ pc'[history'[i].request] = "over"
               /\ \E k \in 1 .. Len(upstream) : SameRequest(history'[i], upstream[k])
    <3>1. CASE i = n + 1
      BY <1>1, <1>2, <1>3, <1>4, <3>1
    <3>2. CASE i \in 1 .. n
      BY <1>2, <1>4, <1>5, <3>2 DEF LoggedInv, n
    <3>. QED  BY <1>6, <3>1, <3>2
  <2>2. \A i, j \in 1 .. n + 1 : history'[i].request = history'[j].request => i = j
    BY <1>1, <1>2, <1>5, <1>6 DEF LoggedInv, n
  <2>. QED  BY <1>2, <2>1, <2>2, Zenon DEF LoggedInv
<1>10. InOrder'
  <2>1. \A i \in 1 .. n : history[i].request # entry.request
    BY <1>1, <1>5
  <2>2. \A k, l \in 1 .. Len(upstream) :
          /\ SameRequest(entry, upstream[l]) /\ ConnOf[upstream[k].request] = ConnOf[entry.request]
          /\ Kind[ConnOf[entry.request]] = "h1"
          => k <= l
    BY <1>1 DEF SentInv, OutThere, SameRequest
  <2>3. Ordered(Append(history, entry), upstream)
    BY <1>1, <2>1, <2>2, LoggedInOrder DEF InOrder, SentInv, LoggedInv, n
  <2>. QED  BY <2>3 DEF InOrder, entry
<1>. QED  BY <1>7, <1>8, <1>9, <1>10

LEMMA RequestRequestStep ==
  ASSUME RequestInv, NEW r \in Requests, Begin(r) \/ Decide(r) \/ Handle(r)
  PROVE  RequestInv'
<1>. edits[r] \in SUBSET {"user", "plugin"} /\ edits = [edits EXCEPT ![r] = edits[r]]
  BY DEF RequestInv, RequestTypes
<1>1. CASE Begin(r)
  <2>1. /\ pc[r] = "none" /\ (Kind[ConnOf[r]] = "h1" => ~AtWork(ConnOf[r]))
        /\ pc' = [pc EXCEPT ![r] = "gate"] \/ pc' = [pc EXCEPT ![r] = "over"]
        /\ UNCHANGED <<edits, dropped, upstream, history>>
    BY <1>1 DEF Begin, Over
  <2>. QED  BY <2>1, EarlyStep
<1>2. CASE Gate(r)
  <2>1. /\ pc[r] = "gate"
        /\ pc' = [pc EXCEPT ![r] = "engine"] \/ pc' = [pc EXCEPT ![r] = "held"]
        /\ UNCHANGED <<edits, dropped, upstream, history>>
    BY <1>2 DEF Gate, Step
  <2>. QED  BY <2>1, EarlyStep
<1>3. CASE Decide(r)
  <2>1. pc[r] = "held" /\ UNCHANGED <<upstream, history>>
    BY <1>3 DEF Decide
  <2>2. CASE pc' = [pc EXCEPT ![r] = "over"] /\ dropped' = dropped \cup {r} /\ UNCHANGED edits
    BY <2>1, <2>2, EarlyStep
  <2>3. CASE /\ pc' = [pc EXCEPT ![r] = "engine"] /\ UNCHANGED dropped
             /\ \E e \in SUBSET {"user"} : edits' = [edits EXCEPT ![r] = e]
    <3>1. PICK e \in SUBSET {"user", "plugin"} : edits' = [edits EXCEPT ![r] = e]
      BY <2>3
    <3>. QED  BY <2>1, <2>3, <3>1, EarlyStep
  <2>. QED  BY <1>3, <2>2, <2>3 DEF Decide, Over
<1>4. CASE Engine(r)
  <2>1. pc[r] = "engine" /\ UNCHANGED <<upstream, history>>
    BY <1>4 DEF Engine, Step
  <2>2. CASE pc' = [pc EXCEPT ![r] = "over"] /\ dropped' = dropped \cup {r} /\ UNCHANGED edits
    BY <2>1, <2>2, EarlyStep
  <2>3. CASE /\ pc' = [pc EXCEPT ![r] = "send"] /\ UNCHANGED dropped
             /\ \E e \in {{}, {"plugin"}} : edits' = [edits EXCEPT ![r] = @ \cup e]
    <3>1. PICK e \in SUBSET {"user", "plugin"} : edits' = [edits EXCEPT ![r] = e]
      BY <2>3
    <3>. QED  BY <2>1, <2>3, <3>1, EarlyStep
  <2>. QED  BY <1>4, <2>2, <2>3 DEF Engine, Step, Over
<1>5. CASE Send(r)
  <2>1. CASE /\ pc[r] = "send" /\ pc' = [pc EXCEPT ![r] = "sent"]
             /\ upstream' = Append(upstream, [request |-> r, edits |-> edits[r],
                                              headers |-> "outgoing"])
             /\ UNCHANGED <<edits, dropped, history>>
    BY <2>1, SendKeeps
  <2>2. CASE /\ pc[r] = "send" /\ pc' = [pc EXCEPT ![r] = "over"]
             /\ UNCHANGED <<edits, dropped, upstream, history>>
    BY <2>2, EarlyStep
  <2>. QED  BY <1>5, <2>1, <2>2 DEF Send, Step, Over
<1>6. CASE Answer(r) \/ Stall(r) \/ Write(r)
  <2>1. /\ OutThere(r) /\ \E to \in {"write", "stalled", "log", "over"} : pc' = [pc EXCEPT ![r] = to]
        /\ UNCHANGED <<edits, dropped, upstream, history>>
    BY <1>6 DEF Answer, Stall, Write, Step, Over, OutThere
  <2>. QED  BY <2>1, LateStep
<1>7. CASE Log(r)
  <2>1. /\ pc[r] = "log" /\ pc' = [pc EXCEPT ![r] = "over"] /\ UNCHANGED <<edits, dropped, upstream>>
        /\ \/ history' = Append(history, [request |-> r, edits |-> edits[r], headers |-> "own"])
           \/ UNCHANGED history
    BY <1>7 DEF Log, Over
  <2>. QED  BY <2>1, LogKeeps, LateStep DEF OutThere
<1>. QED  BY <1>1, <1>2, <1>3, <1>4, <1>5, <1>6, <1>7 DEF Handle

LEMMA RequestInvStep == RequestInv /\ [Next]_vars => RequestInv'
<1>. SUFFICES ASSUME RequestInv, [Next]_vars PROVE RequestInv'
  OBVIOUS
<1>1. CASE RequestStep
  BY <1>1, RequestRequestStep DEF RequestStep
<1>2. CASE Authority \/ ServerStep \/ ConnStep \/ UNCHANGED vars
  BY <1>2, RequestUnchanged, ServerFrame, ConnFrame DEF Authority, vars, proxyVars
<1>. QED  BY <1>1, <1>2, NextIsOneOf

LEMMA UpstreamTold ==
  ASSUME RequestInv
  PROVE  HistoryIsUpstream
<1>1. /\ DOMAIN upstream = 1 .. Len(upstream) /\ DOMAIN history = 1 .. Len(history)
      /\ ToSet(upstream) = {upstream[i] : i \in 1 .. Len(upstream)}
      /\ ToSet(history) = {history[i] : i \in 1 .. Len(history)}
  BY LenProperties DEF RequestInv, SentInv, LoggedInv, ToSet
<1>2. \A e \in ToSet(history) : \E u \in ToSet(upstream) : SameRequest(e, u)
  BY <1>1 DEF RequestInv, LoggedInv
<1>3. \A i, j \in DOMAIN history : history[i].request = history[j].request => i = j
  BY <1>1 DEF RequestInv, LoggedInv
<1>4. DropIsFinal
  BY <1>1, <1>2 DEF RequestInv, SentInv, DropIsFinal, SameRequest
<1>5. HistoryInOrder
  BY <1>1 DEF RequestInv, InOrder, Ordered, HistoryInOrder
<1>. QED  BY <1>2, <1>3, <1>4, <1>5 DEF HistoryIsUpstream

(* The history of every project shows what its proxy sent, but for the     *)
(* headers the proxy changes: with the edits of the gate and the engine,   *)
(* once, nothing that either dropped, and for an HTTP/1.1 connection in    *)
(* the order of the requests.                                              *)
THEOREM HistoryIsAlwaysUpstream == Spec => []HistoryIsUpstream
BY RequestInitially, RequestInvStep, UpstreamTold, PTL DEF Spec

(* The state keeps its type, whatever happens in whichever order.          *)
THEOREM TypeCorrect == Spec => []TypeOK
<1>. DEFINE Inv == CAInv /\ ServerInv /\ ConnInv /\ RequestInv
<1>1. Init => Inv
  BY CAInitially, ServerInitially, ConnInitially, RequestInitially
<1>2. Inv /\ [Next]_vars => Inv'
  BY CAStep, ServerInvStep, ConnInvStep, RequestInvStep
<1>3. Inv => TypeOK
  BY DEF CAInv, ServerInv, ServerTypes, ConnInv, ConnTypes, RequestInv, RequestTypes, TypeOK
<1>. QED  BY <1>1, <1>2, <1>3, PTL DEF Spec
=============================================================================
