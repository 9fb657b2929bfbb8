--------------------------- MODULE CertAuthority ---------------------------
(***************************************************************************)
(* The certificate authority (internal/cert/ca.go): a key and a            *)
(* certificate in two files, written one after the other by a program that *)
(* may be killed in between, and a cache of the certificates of hosts.     *)
(* Load is called for the proxy of every project that is opened, which has *)
(* a cache of its own, and by the buttons of the settings.                 *)
(*                                                                         *)
(* The pairs of key and certificate that were ever generated are numbered. *)
(* A file holds a number, is Absent, or is Torn: opened with O_TRUNC and   *)
(* not encoded to the end.  One program uses the directory at a time.      *)
(***************************************************************************)
EXTENDS Naturals

CONSTANTS
    Askers,             \* the connections that ask for the certificate of a host
    Hosts, HostOf,      \* and for which
    Authorities,        \* what Load returns for proxies: one for each project
    Absent, Torn,
    MaxPairs            \* bound: how many pairs are generated

ASSUME AuthorityAssumption ==
    /\ HostOf \in [Askers -> Hosts]
    /\ Absent # Torn /\ Absent \notin Nat /\ Torn \notin Nat
    /\ MaxPairs \in Nat \ {0}

VARIABLES
    keyFile, crtFile,   \* ca.key and ca.crt
    pairs,              \* how many pairs were generated so far
    expired,            \* the certificates that are past NotAfter
    process,            \* where the program is in Load
    ca,                 \* what it returned for the proxy of the open project
    cache,              \* for each host the certificate made for it, or 0
    made,               \* how many certificates of hosts were made
    making,             \* what each asker has made, or 0
    given               \* what TLSCertForHost returned to it, or 0

diskVars  == <<keyFile, crtFile, pairs, expired, process, ca>>
cacheVars == <<cache, made, making, given>>

NoCA == [key |-> 0, cert |-> 0]

CAInit ==
    /\ \/ keyFile = Absent /\ crtFile = Absent /\ pairs = 0
       \/ keyFile = 1 /\ crtFile = 1 /\ pairs = 1
    /\ expired = {}
    /\ process = "down" /\ ca = NoCA
    /\ cache = [a \in Authorities |-> [h \in Hosts |-> 0]] /\ made = 0
    /\ making = [c \in Askers |-> 0] /\ given = [c \in Askers |-> 0]

-----------------------------------------------------------------------------
(* Mistakes, one per property.                                             *)

(* LoadedPairMatches: the files are written in the other order. *)
WriteSwapped ==
    /\ \/ process = "key"     /\ crtFile' = Torn  /\ process' = "keyOpen" /\ UNCHANGED keyFile
       \/ process = "keyOpen" /\ crtFile' = pairs /\ process' = "crt"     /\ UNCHANGED keyFile
       \/ process = "crt"     /\ keyFile' = Torn  /\ process' = "crtOpen" /\ UNCHANGED crtFile
       \/ process = "crtOpen" /\ keyFile' = pairs /\ process' = "ready"   /\ UNCHANGED crtFile
    /\ UNCHANGED <<pairs, expired, ca, cacheVars>>

(* OneCertificatePerHost: Store instead of LoadOrStore. *)
StoreAnyway(a, c) ==
    /\ making[c] # 0 /\ given[c] = 0
    /\ cache' = [cache EXCEPT ![a][HostOf[c]] = making[c]]
    /\ given' = [given EXCEPT ![c] = making[c]]
    /\ UNCHANGED <<diskVars, made, making>>

-----------------------------------------------------------------------------
(* Load.                                                                   *)

(* For a proxy, or only for the settings, who show an error.               *)
Loaded(pair) == process' = "up" /\ ca' = IF ca = NoCA THEN pair ELSE ca
LoadFails    == process' = (IF ca = NoCA THEN "failed" ELSE "up") /\ UNCHANGED ca

generate ==
    /\ pairs < MaxPairs
    /\ pairs' = pairs + 1 /\ process' = "key"
    /\ UNCHANGED ca

(* That key and certificate belong together is not looked at. *)
loadFromDisk ==
    \/ Torn \in {keyFile, crtFile} /\ LoadFails /\ UNCHANGED pairs
    \/ Torn \notin {keyFile, crtFile} /\ crtFile \in expired /\ generate
    \/ /\ Torn \notin {keyFile, crtFile} /\ crtFile \notin expired
       /\ Loaded([key |-> keyFile, cert |-> crtFile])
       /\ UNCHANGED pairs

Load ==
    /\ process \in {"down", "up"}
    /\ IF Absent \in {keyFile, crtFile} THEN generate ELSE loadFromDisk
    /\ UNCHANGED <<keyFile, crtFile, expired, cacheVars>>

(* writePEM, for the key and then for the certificate: the file is opened, *)
(* which empties it, and then encoded.                                     *)
WritePair ==
    /\ \/ process = "key"     /\ keyFile' = Torn  /\ process' = "keyOpen" /\ UNCHANGED crtFile
       \/ process = "keyOpen" /\ keyFile' = pairs /\ process' = "crt"     /\ UNCHANGED crtFile
       \/ process = "crt"     /\ crtFile' = Torn  /\ process' = "crtOpen" /\ UNCHANGED keyFile
       \/ process = "crtOpen" /\ crtFile' = pairs /\ process' = "ready"   /\ UNCHANGED keyFile
    /\ UNCHANGED <<pairs, expired, ca, cacheVars>>

WriteFails ==
    /\ process \in {"key", "keyOpen", "crt", "crtOpen"}
    /\ LoadFails
    /\ UNCHANGED <<keyFile, crtFile, pairs, expired, cacheVars>>

Generated ==
    /\ process = "ready"
    /\ Loaded([key |-> pairs, cert |-> pairs])
    /\ UNCHANGED <<keyFile, crtFile, pairs, expired, cacheVars>>

(* The program ends: it is killed, main gives up after an error of Load,   *)
(* or the user quits.  The cache is in memory only.                        *)
End ==
    /\ process # "down"
    /\ process' = "down" /\ ca' = NoCA
    /\ cache' = [a \in Authorities |-> [h \in Hosts |-> 0]] /\ made' = 0
    /\ making' = [c \in Askers |-> 0] /\ given' = [c \in Askers |-> 0]
    /\ UNCHANGED <<keyFile, crtFile, pairs, expired>>

Expire ==
    /\ process \in {"down", "up"} /\ crtFile \in Nat
    /\ expired' = expired \cup {crtFile}
    /\ UNCHANGED <<keyFile, crtFile, pairs, process, ca, cacheVars>>

-----------------------------------------------------------------------------
(* TLSCertForHost.                                                         *)

generateHostCert(a, c) ==
    /\ making[c] = 0 /\ given[c] = 0
    /\ \/ /\ cache[a][HostOf[c]] # 0
          /\ given' = [given EXCEPT ![c] = cache[a][HostOf[c]]]
          /\ UNCHANGED <<made, making>>
       \/ /\ cache[a][HostOf[c]] = 0
          /\ made' = made + 1
          /\ making' = [making EXCEPT ![c] = made']
          /\ UNCHANGED given
    /\ UNCHANGED <<diskVars, cache>>

LoadOrStore(a, c) ==
    /\ making[c] # 0 /\ given[c] = 0
    /\ cache' = [cache EXCEPT ![a][HostOf[c]] = IF @ = 0 THEN making[c] ELSE @]
    /\ given' = [given EXCEPT ![c] = cache'[a][HostOf[c]]]
    /\ UNCHANGED <<diskVars, made, making>>

TLSCertForHost(a, c) == generateHostCert(a, c) \/ LoadOrStore(a, c)

-----------------------------------------------------------------------------
(* Properties.                                                             *)

CATypeOK ==
    /\ {keyFile, crtFile} \subseteq 1 .. pairs \cup {Absent, Torn}
    /\ pairs \in 0 .. MaxPairs /\ expired \subseteq 1 .. pairs
    /\ process \in {"down", "key", "keyOpen", "crt", "crtOpen", "ready", "up", "failed"}
    /\ ca \in [key : 0 .. pairs, cert : 0 .. pairs]
    /\ cache \in [Authorities -> [Hosts -> 0 .. made]] /\ made \in Nat
    /\ making \in [Askers -> 0 .. made] /\ given \in [Askers -> 0 .. made]

(* A proxy never runs with a key that is not that of its certificate,      *)
(* wherever the program was killed while it wrote the two files and        *)
(* although Load compares nothing; and what it runs with is on the disk,   *)
(* until the settings find that it has expired and make a new pair.        *)
LoadedPairMatches ==
    process = "up" =>
      /\ ca.key = ca.cert
      /\ ca.cert \in expired \/ (ca.cert = crtFile /\ ca.key = keyFile)
=============================================================================
