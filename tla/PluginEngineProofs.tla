-------------------------- MODULE PluginEngineProofs --------------------------
(***************************************************************************)
(* What a plugin may rely on, for any number of hooks, plugins and         *)
(* restarts: hooks that begin after it was disabled do not call it, a hook *)
(* that ends has called, once and in order, whoever stayed enabled, and no *)
(* line it writes is lost or kept twice.                                   *)
(* The argument goes from the user to the row (RowsKept), from the row to  *)
(* the flag in the engine (FlagsHold), from the flag to the calls          *)
(* (ChecksHold), counts the calls a hook has made (CallsHold), and follows *)
(* the lines from place to place (LinesHold).                              *)
(***************************************************************************)
EXTENDS PluginEngine, FiniteSetTheorems, SequenceTheorems, TLAPS

(* A hook stays within the list it ranges over, which only grows.          *)
Bounds == \A h \in Hooks :
    /\ hook[h].len <= Len(plugins)
    /\ hook[h].pc \in {"call", "drain", "emit"} => hook[h].at <= hook[h].len
    /\ \A k \in DOMAIN hook[h].called : hook[h].called[k] \in DOMAIN plugins

(* Replacing one plugin of the list by another leaves a list of plugins.   *)
LEMMA ReplacedIsList ==
    ASSUME NEW s \in Seq(Plugins), NEW i \in DOMAIN s, NEW p \in Plugins
    PROVE  /\ [s EXCEPT ![i] = p] \in Seq(Plugins)
           /\ Len([s EXCEPT ![i] = p]) = Len(s)
           /\ DOMAIN [s EXCEPT ![i] = p] = DOMAIN s
  <1> DEFINE t == [s EXCEPT ![i] = p]
  <1>1. /\ s \in [1 .. Len(s) -> Plugins] /\ Len(s) \in Nat
    OBVIOUS
  <1>2. t \in [1 .. Len(s) -> Plugins]
    BY <1>1
  <1>3. t \in Seq(Plugins) /\ DOMAIN t = 1 .. Len(s)
    BY <1>1, <1>2
  <1>4. Len(t) = Len(s)
    BY <1>1, <1>3
  <1> QED
    BY <1>1, <1>3, <1>4

LEMMA FunctionsAreSeqs ==
    ASSUME NEW S, NEW n \in Nat, NEW f \in [1 .. n -> S]
    PROVE  f \in Seq(S)
  OBVIOUS

LEMMA OneIsSeq ==
    ASSUME NEW S, NEW x \in S
    PROVE  <<x>> \in Seq(S) /\ Len(<<x>>) = 1
  OBVIOUS

(* A command is the main goroutine's own, or that of an import.            *)
LEMMA MainCases ==
    ASSUME TypeOK
    PROVE  /\ main.at \in {"idle", "toggle", "register", "emit", "append"}
           /\ main.at = "toggle" => /\ main.name \in Names /\ main.enabled \in BOOLEAN
                                    /\ main = [at |-> "toggle", name |-> main.name, enabled |-> main.enabled]
           /\ main.at \in {"register", "emit", "append"} =>
                 /\ main.plugin \in Plugins
                 /\ main = [at |-> main.at, plugin |-> main.plugin]
  BY DEF TypeOK, Idle

LEMMA NewEngineLoads ==
    ASSUME NewEngine
    PROVE  \E loaded, unsaved, unread, speak, kept \in SUBSET Names :
           \E order \in Ascending(loaded), script \in [loaded -> Scripts] :
             /\ unsaved \subseteq loaded /\ unread \subseteq loaded /\ kept \cap loaded = {}
             /\ LoadDir(loaded, unsaved, unread, speak, kept, order, script)
  <1>1. PICK loaded \in SUBSET Names : \E unsaved, unread, speak \in SUBSET loaded :
             \E kept \in SUBSET {n \in Names \ loaded : rows[n] # "none"} :
             \E order \in Ascending(loaded), script \in [loaded -> Scripts] :
               LoadDir(loaded, unsaved, unread, speak, kept, order, script)
    BY DEF NewEngine
  <1>2. PICK unsaved \in SUBSET loaded, unread \in SUBSET loaded, speak \in SUBSET loaded,
             kept \in SUBSET {n \in Names \ loaded : rows[n] # "none"},
             order \in Ascending(loaded), script \in [loaded -> Scripts] :
               LoadDir(loaded, unsaved, unread, speak, kept, order, script)
    BY <1>1
  <1>3. /\ unsaved \in SUBSET Names /\ unread \in SUBSET Names /\ speak \in SUBSET Names
        /\ kept \in SUBSET Names /\ kept \cap loaded = {}
    OBVIOUS
  <1> QED
    BY <1>2, <1>3

LEMMA NewEngineType ==
    ASSUME PluginAssumption, TypeOK, NewEngine
    PROVE  TypeOK'
  <1> USE DEF TypeOK, LoadDir
  <1>1. PICK loaded \in SUBSET Names, unsaved \in SUBSET Names, unread \in SUBSET Names,
             speak \in SUBSET Names, kept \in SUBSET Names :
             \E order \in Ascending(loaded), script \in [loaded -> Scripts] :
               /\ unsaved \subseteq loaded /\ unread \subseteq loaded /\ kept \cap loaded = {}
               /\ LoadDir(loaded, unsaved, unread, speak, kept, order, script)
    BY NewEngineLoads
  <1>2. PICK order \in Ascending(loaded), script \in [loaded -> Scripts] :
               /\ unsaved \subseteq loaded /\ unread \subseteq loaded /\ kept \cap loaded = {}
               /\ LoadDir(loaded, unsaved, unread, speak, kept, order, script)
    BY <1>1
  <1>3. rows' \in Rows
    BY <1>2 DEF Rows, Registered
  <1>4. Cardinality(loaded) \in Nat /\ order \in [1 .. Cardinality(loaded) -> loaded]
    BY <1>2, FS_Subset, FS_CardinalityType DEF PluginAssumption, Ascending
  <1>5. plugins' \in Seq(Plugins)
    <2>1. \A i \in 1 .. Cardinality(loaded) : plugins'[i] \in Plugins
      BY <1>2, <1>4 DEF Plugins
    <2>2. plugins' = [i \in 1 .. Cardinality(loaded) |-> plugins'[i]]
      BY <1>2, <1>4
    <2>3. plugins' \in [1 .. Cardinality(loaded) -> Plugins]
      BY <2>1, <2>2
    <2> QED
      BY <1>4, <2>3, FunctionsAreSeqs
  <1>6. written' \in [Names -> 0 .. MaxLines]
    BY <1>2 DEF PluginAssumption
  <1>7. /\ pluginLogs' \in [Names -> Seq(Lines)]
        /\ \A n \in Names : Len(pluginLogs'[n]) <= LogLimit
    <2> DEFINE line(n) == <<n, 1>>
    <2>1. \A n \in Names : line(n) \in Lines
      BY DEF Lines, PluginAssumption
    <2>2. pluginLogs' = [n \in Names |-> IF n \in speak THEN << line(n) >> ELSE <<>>]
      BY <1>2
    <2> HIDE DEF line
    <2>3. \A n \in Names : << line(n) >> \in Seq(Lines) /\ Len(<< line(n) >>) = 1
      BY <2>1, OneIsSeq
    <2>4. <<>> \in Seq(Lines) /\ Len(<<>>) = 0
      OBVIOUS
    <2>5. LogLimit \in Nat \ {0}
      BY DEF PluginAssumption
    <2> QED
      BY <2>2, <2>3, <2>4, <2>5
  <1>8. forgotten' \subseteq Names
    BY <1>2
  <1> QED
    BY <1>3, <1>5, <1>6, <1>7, <1>8 DEF NewEngine

LEMMA AppendedIsSeq ==
    ASSUME NEW S, NEW s \in Seq(S), NEW x \in S
    PROVE  /\ Append(s, x) \in Seq(S) /\ Len(Append(s, x)) = Len(s) + 1
           /\ Tail(Append(s, x)) \in Seq(S) /\ Len(Tail(Append(s, x))) = Len(s)
  <1>1. Append(s, x) \in Seq(S) /\ Len(Append(s, x)) = Len(s) + 1 /\ Len(s) \in Nat
    OBVIOUS
  <1>2. Append(s, x) # <<>>
    BY <1>1
  <1> QED
    BY <1>1, <1>2, HeadTailProperties

(* Where a hook may go, without the other variables. *)
LEMMA HookStateUpdates ==
    ASSUME NEW c \in HookStates
    PROVE  /\ c.pc \in {"idle", "next", "call", "drain", "emit", "dropped", "done"}
           /\ c.at \in Nat \ {0} /\ c.len \in Nat /\ c.called \in Seq(Nat \ {0})
           /\ c.steady \in SUBSET Nat /\ c.off \in SUBSET Names
           /\ \A p \in {"idle", "next", "call", "drain", "emit", "dropped", "done"} :
                 [c EXCEPT !.pc = p] \in HookStates
           /\ [c EXCEPT !.at = c.at + 1] \in HookStates
           /\ [c EXCEPT !.pc = "next", !.at = c.at + 1] \in HookStates
           /\ [c EXCEPT !.pc = "drain", !.called = Append(c.called, c.at)] \in HookStates
           /\ \A l \in Nat, o \in SUBSET Names, t \in SUBSET Nat :
                 [c EXCEPT !.pc = "next", !.len = l, !.off = o, !.steady = t] \in HookStates
           /\ \A o \in SUBSET Names : [c EXCEPT !.off = o] \in HookStates
           /\ \A t \in SUBSET Nat : [c EXCEPT !.steady = t] \in HookStates
  <1>1. /\ c.pc \in {"idle", "next", "call", "drain", "emit", "dropped", "done"}
        /\ c.at \in Nat \ {0} /\ c.len \in Nat /\ c.called \in Seq(Nat \ {0})
        /\ c.steady \in SUBSET Nat /\ c.off \in SUBSET Names
    BY DEF HookStates
  <1>2. Append(c.called, c.at) \in Seq(Nat \ {0}) /\ c.at + 1 \in Nat \ {0}
    BY <1>1, AppendedIsSeq
  <1>3. \A p \in {"idle", "next", "call", "drain", "emit", "dropped", "done"} :
                 [c EXCEPT !.pc = p] \in HookStates
    BY DEF HookStates
  <1>4. [c EXCEPT !.at = c.at + 1] \in HookStates
    BY <1>2 DEF HookStates
  <1>5. [c EXCEPT !.pc = "next", !.at = c.at + 1] \in HookStates
    BY <1>2 DEF HookStates
  <1>6. [c EXCEPT !.pc = "drain", !.called = Append(c.called, c.at)] \in HookStates
    <2> DEFINE s == Append(c.called, c.at)
    <2>1. s \in Seq(Nat \ {0})
      BY <1>2
    <2> HIDE DEF s
    <2>2. [c EXCEPT !.pc = "drain", !.called = s] \in HookStates
      BY <2>1 DEF HookStates
    <2> QED
      BY <2>2 DEF s
  <1>7. \A l \in Nat, o \in SUBSET Names, t \in SUBSET Nat :
                 [c EXCEPT !.pc = "next", !.len = l, !.off = o, !.steady = t] \in HookStates
    BY DEF HookStates
  <1>8. \A o \in SUBSET Names : [c EXCEPT !.off = o] \in HookStates
    BY DEF HookStates
  <1>9. \A t \in SUBSET Nat : [c EXCEPT !.steady = t] \in HookStates
    BY DEF HookStates
  <1> QED
    BY <1>1, <1>3, <1>4, <1>5, <1>6, <1>7, <1>8, <1>9

(* The buffer of a plugin may be replaced by any other. *)
LEMMA BufReplaced ==
    ASSUME NEW p \in Plugins, NEW buf \in Seq(Lines)
    PROVE  [p EXCEPT !.logBuf = buf] \in Plugins
  BY DEF Plugins

LEMMA LogBufUpdates ==
    ASSUME NEW s \in Seq(Plugins), NEW i \in DOMAIN s, NEW buf \in Seq(Lines)
    PROVE  /\ s[i] \in Plugins /\ s[i].name \in Names /\ s[i].logBuf \in Seq(Lines)
           /\ [s EXCEPT ![i].logBuf = buf] \in Seq(Plugins)
           /\ DOMAIN [s EXCEPT ![i].logBuf = buf] = DOMAIN s
           /\ Len([s EXCEPT ![i].logBuf = buf]) = Len(s)
  <1>1. s[i] \in Plugins
    OBVIOUS
  <1>2. s[i].name \in Names /\ s[i].logBuf \in Seq(Lines)
    BY <1>1 DEF Plugins
  <1> DEFINE p == [s[i] EXCEPT !.logBuf = buf]
  <1>3. p \in Plugins
    BY <1>1 DEF Plugins
  <1>4. [s EXCEPT ![i].logBuf = buf] = [s EXCEPT ![i] = p]
    OBVIOUS
  <1> HIDE DEF p
  <1> QED
    BY <1>1, <1>2, <1>3, <1>4, ReplacedIsList

LEMMA EmitType ==
    ASSUME PluginAssumption, TypeOK, NEW a \in Actors, Emit(a)
    PROVE  TypeOK'
  <1> DEFINE line == Head(hand[a])
             n    == line[1]
             all  == Append(pluginLogs[n], line)
  <1>1. hand[a] \in Seq(Lines) /\ hand[a] # <<>>
    BY DEF Emit, TypeOK
  <1>2. line \in Lines /\ Tail(hand[a]) \in Seq(Lines)
    BY <1>1
  <1>3. n \in Names
    BY <1>2 DEF Lines
  <1> HIDE DEF line, n
  <1>4. pluginLogs[n] \in Seq(Lines) /\ Len(pluginLogs[n]) <= LogLimit /\ Len(pluginLogs[n]) \in Nat
    <2>1. pluginLogs \in [Names -> Seq(Lines)] /\ \A m \in Names : Len(pluginLogs[m]) <= LogLimit
      BY DEF TypeOK
    <2> QED
      BY <1>3, <2>1
  <1>5. all \in Seq(Lines) /\ Len(all) = Len(pluginLogs[n]) + 1
    BY <1>2, <1>4, AppendedIsSeq
  <1>6. Tail(all) \in Seq(Lines) /\ Len(Tail(all)) = Len(pluginLogs[n])
    BY <1>2, <1>4, AppendedIsSeq
  <1> DEFINE kept == IF Len(all) > LogLimit THEN Tail(all) ELSE all
  <1>7. kept \in Seq(Lines) /\ Len(kept) <= LogLimit
    BY <1>4, <1>5, <1>6 DEF PluginAssumption
  <1>8. pluginLogs' = [pluginLogs EXCEPT ![n] = kept]
    BY DEF Emit, line, n
  <1> HIDE DEF kept
  <1>9. /\ pluginLogs' \in [Names -> Seq(Lines)]
        /\ \A m \in Names : Len(pluginLogs'[m]) <= LogLimit
    BY <1>3, <1>7, <1>8 DEF TypeOK
  <1>10. hand' \in [Actors -> Seq(Lines)]
    BY <1>2 DEF Emit, TypeOK, line
  <1> QED
    BY <1>9, <1>10 DEF Emit, userVars, TypeOK

LEMMA HookTypes ==
    ASSUME PluginAssumption, TypeOK, Bounds, NEW h \in Hooks, Hook(h)
    PROVE  TypeOK'
  <1> DEFINE a == hook[h].at
             n == plugins[a].name
  <1>0. /\ hook \in [Hooks -> HookStates] /\ hook[h] \in HookStates
        /\ plugins \in Seq(Plugins) /\ Len(plugins) \in Nat /\ DOMAIN plugins = 1 .. Len(plugins)
        /\ written \in [Names -> 0 .. MaxLines] /\ userOff \in SUBSET Names
        /\ hand \in [Actors -> Seq(Lines)] /\ h \in Actors
    BY DEF TypeOK, Actors
  <1>a. a \in Nat \ {0} /\ hook[h].len \in Nat
    BY <1>0, HookStateUpdates
  <1>b. hook[h].pc \in {"call", "drain", "emit"} => a \in DOMAIN plugins
    BY <1>0, <1>a DEF Bounds
  <1>1. CASE HookBegin(h)
    <2>1. {i \in DOMAIN plugins : plugins[i].enabled} \in SUBSET Nat
      BY <1>0
    <2> DEFINE t == {i \in DOMAIN plugins : plugins[i].enabled}
               c == [hook[h] EXCEPT !.pc = "next", !.len = Len(plugins), !.off = userOff, !.steady = t]
    <2>2. CASE hook' = hook
      BY <1>0, <1>1, <2>2 DEF HookBegin, logVars, userVars, TypeOK
    <2>3. CASE hook' = [hook EXCEPT ![h] = c]
      <3> HIDE DEF t
      <3>1. c \in HookStates
        BY <1>0, <2>1, HookStateUpdates DEF t
      <3> HIDE DEF c
      <3>2. hook' \in [Hooks -> HookStates]
        BY <1>0, <2>3, <3>1
      <3> QED
        BY <1>1, <3>2 DEF HookBegin, logVars, userVars, TypeOK
    <2> QED
      BY <1>1, <2>2, <2>3 DEF HookBegin
  <1>2. CASE HookCheck(h)
    <2>1. hook' = [hook EXCEPT ![h] = [hook[h] EXCEPT !.pc = "call"]]
          \/ hook' = [hook EXCEPT ![h] = [hook[h] EXCEPT !.at = hook[h].at + 1]]
      BY <1>0, <1>2 DEF HookCheck
    <2>2. hook' \in [Hooks -> HookStates]
      BY <1>0, <2>1, HookStateUpdates
    <2> QED
      BY <1>2, <2>2 DEF HookCheck, logVars, userVars, TypeOK
  <1>3. CASE HookCall(h)
    <2>1. a \in DOMAIN plugins
      BY <1>3, <1>b DEF HookCall
    <2>2. hook' \in [Hooks -> HookStates]
      BY <1>0, <1>3, HookStateUpdates DEF HookCall
    <2>3. n \in Names /\ plugins[a].logBuf \in Seq(Lines)
      BY <1>0, <2>1, LogBufUpdates
    <2>4. /\ plugins' \in Seq(Plugins)
          /\ written' \in [Names -> 0 .. MaxLines]
      <3>1. CASE UNCHANGED <<plugins, written>>
        BY <1>0, <3>1
      <3>2. CASE /\ written[n] < MaxLines
                 /\ written' = [written EXCEPT ![n] = @ + 1]
                 /\ plugins' = [plugins EXCEPT ![a].logBuf = Append(@, <<n, written'[n]>>)]
        <4>1. written' \in [Names -> 0 .. MaxLines] /\ written'[n] \in 1 .. MaxLines
          <5> HIDE DEF n
          <5>0. MaxLines \in Nat
            BY DEF PluginAssumption
          <5>1. written[n] \in 0 .. MaxLines /\ written[n] < MaxLines
            BY <1>0, <3>2, <2>3
          <5>3. written[n] + 1 \in 1 .. MaxLines
            BY <5>0, <5>1
          <5>2. written' = [written EXCEPT ![n] = written[n] + 1]
            BY <3>2
          <5> QED
            BY <1>0, <2>3, <5>0, <5>2, <5>3
        <4> DEFINE line == <<n, written'[n]>>
                   buf  == Append(plugins[a].logBuf, line)
        <4>2. line \in Lines
          BY <4>1, <2>3 DEF Lines
        <4> HIDE DEF line
        <4>3. buf \in Seq(Lines)
          BY <4>2, <2>3, AppendedIsSeq
        <4>4. plugins' = [plugins EXCEPT ![a].logBuf = buf]
          BY <3>2 DEF line
        <4> HIDE DEF buf
        <4> QED
          BY <1>0, <4>1, <4>3, <4>4, <2>1, LogBufUpdates
      <3> QED
        BY <1>3, <3>1, <3>2 DEF HookCall
    <2> QED
      BY <1>3, <2>2, <2>4 DEF HookCall, userVars, TypeOK
  <1>4. CASE HookDrain(h)
    <2>1. a \in DOMAIN plugins
      BY <1>4, <1>b DEF HookDrain
    <2>2. hook' \in [Hooks -> HookStates]
      BY <1>0, <1>4, HookStateUpdates DEF HookDrain
    <2>3. plugins[a].logBuf \in Seq(Lines) /\ <<>> \in Seq(Lines)
      <3>1. <<>> \in Seq(Lines)
        OBVIOUS
      <3> QED
        BY <1>0, <2>1, <3>1, LogBufUpdates
    <2>4. hand' \in [Actors -> Seq(Lines)]
      BY <1>0, <1>4, <2>3 DEF HookDrain
    <2>5. plugins' \in Seq(Plugins)
      BY <1>0, <1>4, <2>1, <2>3, LogBufUpdates DEF HookDrain
    <2> QED
      BY <1>4, <2>2, <2>4, <2>5 DEF HookDrain, userVars, TypeOK
  <1>5. CASE HookContinue(h)
    <2>1. hook' \in [Hooks -> HookStates]
      BY <1>0, <1>5, HookStateUpdates DEF HookContinue
    <2> QED
      BY <1>5, <2>1 DEF HookContinue, logVars, userVars, TypeOK
  <1>6. CASE HookEnd(h)
    <2>1. hook' \in [Hooks -> HookStates]
      BY <1>0, <1>6, HookStateUpdates DEF HookEnd
    <2> QED
      BY <1>6, <2>1 DEF HookEnd, logVars, userVars, TypeOK
  <1>7. CASE Emit(h)
    BY <1>0, <1>7, EmitType
  <1> QED
    BY <1>1, <1>2, <1>3, <1>4, <1>5, <1>6, <1>7 DEF Hook

LEMMA ToggleEngineType ==
    ASSUME TypeOK, ToggleEngine
    PROVE  TypeOK' /\ DOMAIN plugins' = DOMAIN plugins /\ Len(plugins') = Len(plugins)
  <1>0. /\ hook \in [Hooks -> HookStates] /\ userOff \in SUBSET Names
        /\ plugins \in [1 .. Len(plugins) -> Plugins] /\ Len(plugins) \in Nat
        /\ DOMAIN plugins = 1 .. Len(plugins)
    BY DEF TypeOK
  <1>1. main.name \in Names /\ main.enabled \in BOOLEAN
    BY MainCases DEF ToggleEngine
  <1>2. \A i \in DOMAIN plugins : [plugins[i] EXCEPT !.enabled = main.enabled] \in Plugins
    BY <1>0, <1>1 DEF Plugins
  <1>3. plugins' \in [1 .. Len(plugins) -> Plugins]
    BY <1>0, <1>2 DEF ToggleEngine
  <1>4. plugins' \in Seq(Plugins) /\ DOMAIN plugins' = 1 .. Len(plugins) /\ Len(plugins') = Len(plugins)
    BY <1>0, <1>3, FunctionsAreSeqs
  <1>5. hook' \in [Hooks -> HookStates]
    <2>1. \A h \in Hooks : [hook[h] EXCEPT !.steady = @ \ First(main.name)] \in HookStates
      BY <1>0, HookStateUpdates
    <2> QED
      BY <1>0, <2>1 DEF ToggleEngine
  <1>6. userOff' \in SUBSET Names
    BY <1>0, <1>1 DEF ToggleEngine
  <1> QED
    BY <1>0, <1>4, <1>5, <1>6 DEF ToggleEngine, logVars, TypeOK

LEMMA MainTypes ==
    ASSUME PluginAssumption, TypeOK, MainStep
    PROVE  TypeOK'
  <1>0. /\ Main \in Actors /\ hand \in [Actors -> Seq(Lines)] /\ rows \in Rows
        /\ plugins \in Seq(Plugins)
    BY DEF TypeOK, Actors
  <1>1. CASE ToggleEngine
    BY <1>1, ToggleEngineType
  <1>2. CASE ImportRegister
    <2> DEFINE p == main.plugin
               q == [main.plugin EXCEPT !.logBuf = <<>>]
    <2>1. p \in Plugins /\ main = [at |-> "register", plugin |-> p]
      BY <1>2, MainCases DEF ImportRegister
    <2>2. p.logBuf \in Seq(Lines) /\ p.name \in Names
      BY <2>1 DEF Plugins
    <2>3. q \in Plugins
      <3>1. <<>> \in Seq(Lines)
        OBVIOUS
      <3> QED
        BY <2>1, <3>1, BufReplaced
    <2> HIDE DEF p, q
    <2>4. main' = [at |-> "emit", plugin |-> q]
      BY <1>2, <2>1 DEF ImportRegister, p, q
    <2>5. hand' \in [Actors -> Seq(Lines)]
      BY <1>0, <1>2, <2>2 DEF ImportRegister, p
    <2>6. rows' \in Rows
      BY <1>0, <1>2, <2>2 DEF ImportRegister, Rows, Registered, p
    <2>7. main' \in [at : {"register", "emit", "append"}, plugin : Plugins]
      BY <2>3, <2>4
    <2> QED
      BY <1>2, <2>5, <2>6, <2>7 DEF ImportRegister, userVars, TypeOK
  <1>3. CASE ImportAppendBegin
    <2>1. main' = [at |-> "append", plugin |-> main.plugin] /\ main.plugin \in Plugins
      BY <1>3, MainCases DEF ImportAppendBegin
    <2>2. main' \in [at : {"register", "emit", "append"}, plugin : Plugins]
      BY <2>1
    <2> QED
      BY <1>3, <2>2 DEF ImportAppendBegin, logVars, userVars, TypeOK
  <1>4. CASE ImportAppendEnd
    <2>1. main.plugin \in Plugins
      BY <1>4, MainCases DEF ImportAppendEnd
    <2>2. plugins' \in Seq(Plugins)
      BY <1>0, <1>4, <2>1, AppendedIsSeq DEF ImportAppendEnd
    <2> QED
      BY <1>4, <2>2 DEF ImportAppendEnd, logVars, userVars, TypeOK
  <1>5. CASE Emit(Main)
    BY <1>0, <1>5, EmitType
  <1> QED
    BY <1>1, <1>2, <1>3, <1>4, <1>5 DEF MainStep

LEMMA CommandTypes ==
    ASSUME PluginAssumption, TypeOK, User \/ Quit
    PROVE  TypeOK'
  <1>0. /\ rows \in Rows /\ userOff \in SUBSET Names /\ forgotten \in SUBSET Names
        /\ hook \in [Hooks -> HookStates] /\ written \in [Names -> 0 .. MaxLines]
        /\ commands \in 0 .. MaxCommands /\ MaxCommands \in Nat /\ MaxLines \in Nat \ {0}
    BY DEF TypeOK, PluginAssumption
  <1>1. ASSUME NEW n \in Names, Import(n)
        PROVE  TypeOK'
    <2>1. commands' \in 0 .. MaxCommands
      BY <1>0, <1>1 DEF Import, Command
    <2>2. PICK script \in Scripts, speaks \in BOOLEAN :
            /\ speaks => written[n] < MaxLines
            /\ written' = [written EXCEPT ![n] = IF speaks THEN @ + 1 ELSE @]
            /\ main' = [at |-> "register",
                        plugin |-> [name |-> n, enabled |-> TRUE, functions |-> script,
                                    logBuf |-> IF speaks THEN << <<n, written'[n]>> >> ELSE <<>>]]
      BY <1>1 DEF Import
    <2>3. /\ written' \in [Names -> 0 .. MaxLines]
          /\ speaks => written'[n] \in 1 .. MaxLines
      BY <1>0, <2>2
    <2> DEFINE line == <<n, written'[n]>>
               buf  == IF speaks THEN << line >> ELSE <<>>
    <2>4. speaks => line \in Lines
      BY <2>3 DEF Lines
    <2> HIDE DEF line
    <2>5. buf \in Seq(Lines)
      <3>1. <<>> \in Seq(Lines)
        OBVIOUS
      <3> QED
        BY <2>4, <3>1, OneIsSeq
    <2>6. main' = [at |-> "register", plugin |-> [name |-> n, enabled |-> TRUE,
                                                  functions |-> script, logBuf |-> buf]]
      BY <2>2 DEF line
    <2> HIDE DEF buf
    <2>7. main' \in [at : {"register", "emit", "append"}, plugin : Plugins]
      BY <2>5, <2>6 DEF Plugins
    <2>8. forgotten' \in SUBSET Names
      BY <1>0, <1>1 DEF Import
    <2> QED
      BY <1>1, <2>1, <2>3, <2>7, <2>8 DEF Import, TypeOK
  <1>2. ASSUME NEW n \in Names, NEW enabled \in BOOLEAN, Toggle(n, enabled)
        PROVE  TypeOK'
    <2>1. commands' \in 0 .. MaxCommands
      BY <1>0, <1>2 DEF Toggle, Command
    <2>2. rows' \in Rows
      BY <1>0, <1>2 DEF Toggle, Rows
    <2>3. main' \in [at : {"toggle"}, name : Names, enabled : BOOLEAN]
      BY <1>2 DEF Toggle
    <2>4. hook' \in [Hooks -> HookStates]
      <3>1. \A h \in Hooks : [hook[h] EXCEPT !.off = @ \ {n}] \in HookStates
        BY <1>0, HookStateUpdates
      <3> QED
        BY <1>2, <3>1 DEF Toggle
    <2>5. userOff' \in SUBSET Names /\ forgotten' \in SUBSET Names
      BY <1>0, <1>2 DEF Toggle
    <2> QED
      BY <1>2, <2>1, <2>2, <2>3, <2>4, <2>5 DEF Toggle, logVars, TypeOK
  <1>3. CASE Quit
    <2>1. commands' \in 0 .. MaxCommands
      BY <1>0, <1>3 DEF Quit
    <2>2. NotBegun \in HookStates
      BY DEF NotBegun, HookStates
    <2>3. /\ plugins' \in Seq(Plugins) /\ \A n \in Names : pluginLogs'[n] = <<>>
          /\ pluginLogs' \in [Names -> Seq(Lines)] /\ Len(<<>>) = 0
      BY <1>3 DEF Quit
    <2>4. hook' \in [Hooks -> HookStates] /\ hand' \in [Actors -> Seq(Lines)]
      BY <1>3, <2>2 DEF Quit
    <2>5. LogLimit \in Nat /\ \A n \in Names : Len(pluginLogs'[n]) <= LogLimit
      BY <2>3 DEF PluginAssumption
    <2>6. written' \in [Names -> 0 .. MaxLines]
      BY <1>0, <1>3 DEF Quit
    <2> QED
      BY <1>3, <2>1, <2>3, <2>4, <2>5, <2>6 DEF Quit, TypeOK
  <1> QED
    BY <1>1, <1>2, <1>3 DEF User

LEMMA InitType ==
    ASSUME PluginAssumption, Init
    PROVE  TypeOK /\ Bounds
  <1>1. NotBegun \in HookStates
    BY DEF NotBegun, HookStates
  <1>2. hook \in [Hooks -> HookStates] /\ hand \in [Actors -> Seq(Lines)] /\ plugins \in Seq(Plugins)
    BY <1>1 DEF Init
  <1>3. Len(<<>>) = 0 /\ <<>> \in Seq(Lines) /\ LogLimit \in Nat
    BY DEF PluginAssumption
  <1>4. /\ pluginLogs \in [Names -> Seq(Lines)]
        /\ \A n \in Names : Len(pluginLogs[n]) <= LogLimit
    BY <1>3 DEF Init
  <1>5. TypeOK
    BY <1>2, <1>4 DEF Init, TypeOK, Rows, PluginAssumption
  <1>6. Bounds
    BY DEF Init, Bounds, NotBegun
  <1> QED
    BY <1>5, <1>6

(* No list is copied while no program runs. *)
Quiescent == phase = "down" => hook = [h \in Hooks |-> NotBegun] /\ main = Idle

LEMMA BoundsStep ==
    ASSUME PluginAssumption, TypeOK, Bounds, Quiescent, Next
    PROVE  Bounds' /\ Quiescent'
  <1>0. /\ hook \in [Hooks -> HookStates] /\ plugins \in Seq(Plugins)
        /\ Len(plugins) \in Nat /\ DOMAIN plugins = 1 .. Len(plugins)
    BY DEF TypeOK
  <1>a. \A h \in Hooks : /\ hook[h].at \in Nat \ {0} /\ hook[h].len \in Nat
                         /\ hook[h].called \in Seq(Nat \ {0})
    BY <1>0, HookStateUpdates
  <1>1. CASE NewEngine
    <2>1. hook = [h \in Hooks |-> NotBegun] /\ UNCHANGED hook /\ phase' = "running"
      BY <1>1 DEF NewEngine, Quiescent
    <2>2. TypeOK'
      BY <1>1, NewEngineType
    <2>3. Len(plugins') \in Nat
      BY <2>2 DEF TypeOK
    <2> QED
      BY <2>1, <2>3 DEF Bounds, NotBegun, Quiescent
  <1>2. CASE Quit
    BY <1>2 DEF Quit, Bounds, NotBegun, Quiescent
  <1>3. CASE phase = "running" /\ Running
    <2>1. ASSUME NEW h \in Hooks, Hook(h)
          PROVE  Bounds' /\ phase' # "down"
      <3>1. CASE HookBegin(h)
        <4>1. \/ hook' = hook
              \/ /\ hook'[h].len = Len(plugins) /\ hook'[h].called = hook[h].called
                 /\ hook'[h].pc = "next"
                 /\ \A g \in Hooks \ {h} : hook'[g] = hook[g]
          BY <1>0, <3>1 DEF HookBegin, HookStates
        <4>2. UNCHANGED plugins
          BY <3>1 DEF HookBegin
        <4>3. Bounds'
          BY <1>0, <4>1, <4>2 DEF Bounds
        <4> QED
          BY <1>3, <3>1, <4>3 DEF HookBegin
      <3>2. CASE HookCheck(h)
        <4>1. /\ hook'[h].len = hook[h].len /\ hook'[h].called = hook[h].called
              /\ \/ hook'[h].pc = "next"
                 \/ hook'[h].at = hook[h].at /\ hook[h].at <= hook[h].len
              /\ \A g \in Hooks \ {h} : hook'[g] = hook[g]
          BY <1>0, <3>2 DEF HookCheck, HookStates
        <4> QED
          BY <1>0, <1>a, <1>3, <3>2, <4>1 DEF HookCheck, Bounds
      <3>3. CASE HookCall(h)
        <4>1. DOMAIN plugins' = DOMAIN plugins /\ Len(plugins') = Len(plugins)
          BY <1>0, <3>3 DEF HookCall
        <4>2. hook[h].at \in DOMAIN plugins
          BY <1>0, <1>a, <3>3 DEF HookCall, Bounds
        <4>3. \A k \in DOMAIN Append(hook[h].called, hook[h].at) :
                 Append(hook[h].called, hook[h].at)[k] \in DOMAIN plugins
          <5>1. hook[h].called \in Seq(Nat \ {0}) /\ hook[h].at \in Nat \ {0}
            BY <1>a
          <5>2. \A k \in DOMAIN hook[h].called : hook[h].called[k] \in DOMAIN plugins
            BY DEF Bounds
          <5> DEFINE s == hook[h].called  x == hook[h].at
          <5> HIDE DEF s, x
          <5>3. \A k \in DOMAIN Append(s, x) : (k \in DOMAIN s /\ Append(s, x)[k] = s[k]) \/ Append(s, x)[k] = x
            BY <5>1, AppendProperties DEF s, x
          <5> QED
            BY <4>2, <5>2, <5>3 DEF s, x
        <4>4. \A g \in Hooks : /\ hook'[g].len = hook[g].len /\ hook'[g].at = hook[g].at
                               /\ g # h => hook'[g] = hook[g]
                               /\ hook'[h].called = Append(hook[h].called, hook[h].at)
          BY <1>0, <3>3 DEF HookCall, HookStates
        <4> QED
          BY <1>0, <1>a, <1>3, <3>3, <4>1, <4>3, <4>4 DEF HookCall, Bounds
      <3>4. CASE HookDrain(h)
        <4>1. DOMAIN plugins' = DOMAIN plugins /\ Len(plugins') = Len(plugins)
          BY <1>0, <3>4 DEF HookDrain
        <4> QED
          BY <1>0, <1>a, <1>3, <3>4, <4>1 DEF HookDrain, Bounds
      <3>5. CASE HookContinue(h)
        <4>1. /\ hook'[h].len = hook[h].len /\ hook'[h].called = hook[h].called
              /\ hook'[h].pc \in {"next", "dropped"}
              /\ \A g \in Hooks \ {h} : hook'[g] = hook[g]
          BY <1>0, <3>5 DEF HookContinue, HookStates
        <4> QED
          BY <1>0, <1>a, <1>3, <3>5, <4>1 DEF HookContinue, Bounds
      <3>6. CASE HookEnd(h)
        BY <1>0, <1>a, <1>3, <3>6 DEF HookEnd, Bounds
      <3>7. CASE Emit(h)
        BY <1>3, <3>7 DEF Emit, Bounds
      <3> QED
        BY <2>1, <3>1, <3>2, <3>3, <3>4, <3>5, <3>6, <3>7 DEF Hook
    <2>2. ASSUME MainStep
          PROVE  Bounds' /\ phase' # "down"
      <3>1. CASE ToggleEngine
        <4>1. DOMAIN plugins' = DOMAIN plugins /\ Len(plugins') = Len(plugins)
          BY <3>1, ToggleEngineType
        <4>2. \A h \in Hooks : /\ hook'[h].len = hook[h].len /\ hook'[h].at = hook[h].at
                               /\ hook'[h].pc = hook[h].pc /\ hook'[h].called = hook[h].called
          BY <1>0, <3>1 DEF ToggleEngine, HookStates
        <4> QED
          BY <1>3, <3>1, <4>1, <4>2 DEF ToggleEngine, Bounds
      <3>2. CASE ImportRegister \/ ImportAppendBegin
        BY <1>3, <3>2 DEF ImportRegister, ImportAppendBegin, Bounds
      <3>3. CASE ImportAppendEnd
        <4>1. main.plugin \in Plugins
          BY <3>3, MainCases DEF ImportAppendEnd
        <4>2. Len(plugins') = Len(plugins) + 1 /\ DOMAIN plugins' = 1 .. Len(plugins) + 1
          BY <1>0, <3>3, <4>1 DEF ImportAppendEnd
        <4> QED
          BY <1>0, <1>a, <1>3, <3>3, <4>2 DEF ImportAppendEnd, Bounds
      <3>4. CASE Emit(Main)
        BY <1>3, <3>4 DEF Emit, Bounds
      <3> QED
        BY <2>2, <3>1, <3>2, <3>3, <3>4 DEF MainStep
    <2>3. ASSUME NEW n \in Names, Import(n)
          PROVE  Bounds' /\ phase' # "down"
      BY <1>3, <2>3 DEF Import, Bounds
    <2>4. ASSUME NEW n \in Names, NEW enabled \in BOOLEAN, Toggle(n, enabled)
          PROVE  Bounds' /\ phase' # "down"
      <3>1. \A h \in Hooks : /\ hook'[h].len = hook[h].len /\ hook'[h].at = hook[h].at
                             /\ hook'[h].pc = hook[h].pc /\ hook'[h].called = hook[h].called
        BY <1>0, <2>4 DEF Toggle, HookStates
      <3> QED
        BY <1>3, <2>4, <3>1 DEF Toggle, Bounds
    <2> QED
      BY <1>3, <2>1, <2>2, <2>3, <2>4 DEF Running, User, Quiescent
  <1> QED
    BY <1>1, <1>2, <1>3 DEF Next

LEMMA TypeStep ==
    ASSUME PluginAssumption, TypeOK, Bounds, Next
    PROVE  TypeOK'
  BY NewEngineType, HookTypes, MainTypes, CommandTypes DEF Next, Running

-----------------------------------------------------------------------------
(* From the user to the calls.                                             *)

(* What the user has turned off is off in the database. *)
RowsKept ==
    /\ \A n \in userOff \ forgotten : rows[n] = "off"
    /\ \A h \in Hooks : hook[h].off \subseteq userOff

(* A toggle has reached the database before it reaches the engine. *)
ToggleKept ==
    main.at = "toggle" =>
        /\ main.name \notin userOff
        /\ main.name \notin forgotten => rows[main.name] = IF main.enabled THEN "on" ELSE "off"

(* Between toggles, the engine's first plugin of a name does what its row  *)
(* says.                                                                   *)
FlagsHold ==
    \A n \in Names \ forgotten : \A i \in First(n) :
        \/ main.at = "toggle" /\ main.name = n
        \/ plugins[i].enabled <=> rows[n] # "off"

(* A file imported under a name that is off comes second. *)
ImportKnown ==
    main.at \in {"register", "emit", "append"} =>
        /\ main.plugin.enabled = TRUE
        /\ \/ main.plugin.name \in forgotten
           \/ rows[main.plugin.name] # "off"
           \/ First(main.plugin.name) # {}

FlagInv == RowsKept /\ ToggleKept /\ FlagsHold /\ ImportKnown

(* A hook that is about to call, or has called, has seen the flag set. *)
Excused(h, i) ==
    plugins[i].name \in hook[h].off => plugins[i].name \in forgotten \/ Twice(plugins[i].name)

QuietHook(h) ==
    /\ hook[h].pc = "idle" => hook[h].called = <<>>
    /\ hook[h].pc = "call" => Excused(h, hook[h].at)
    /\ \A k \in DOMAIN hook[h].called : Excused(h, hook[h].called[k])

ChecksHold == \A h \in Hooks : QuietHook(h)

SameList ==
    /\ DOMAIN plugins' = DOMAIN plugins
    /\ \A i \in DOMAIN plugins : plugins'[i].name = plugins[i].name

LEMMA SameListFacts ==
    ASSUME TypeOK, SameList, NEW n
    PROVE  First(n)' = First(n) /\ Twice(n)' = Twice(n)
  <1>1. DOMAIN plugins = 1 .. Len(plugins) /\ Len(plugins) \in Nat
    BY DEF TypeOK
  <1>2. \A i \in DOMAIN plugins : \A j \in 1 .. i - 1 : j \in DOMAIN plugins
    BY <1>1
  <1>3. First(n)' = First(n)
    BY <1>2 DEF First, SameList
  <1>4. Twice(n)' = Twice(n)
    BY DEF Twice, SameList
  <1> QED
    BY <1>3, <1>4

(* The only plugin of a name is the first. *)
LEMMA OnlyIsFirst ==
    ASSUME TypeOK, NEW i \in DOMAIN plugins, ~Twice(plugins[i].name)
    PROVE  i \in First(plugins[i].name)
  <1>1. DOMAIN plugins = 1 .. Len(plugins) /\ Len(plugins) \in Nat
    BY DEF TypeOK
  <1>2. \A j \in 1 .. i - 1 : j \in DOMAIN plugins /\ j # i
    BY <1>1
  <1> QED
    BY <1>2 DEF Twice, First

(* What a step of a hook leaves alone. *)
LEMMA HookKeeps ==
    ASSUME TypeOK, Bounds, NEW h \in Hooks, Hook(h)
    PROVE  /\ UNCHANGED <<rows, main, userOff, forgotten>>
           /\ SameList /\ \A i \in DOMAIN plugins : plugins'[i].enabled = plugins[i].enabled
           /\ \A g \in Hooks \ {h} : hook'[g] = hook[g]
           /\ hook'[h].off \in {hook[h].off, userOff}
  <1>0. hook \in [Hooks -> HookStates] /\ plugins \in Seq(Plugins)
    BY DEF TypeOK
  <1>1. UNCHANGED <<rows, main, userOff, forgotten>>
    BY DEF Hook, HookBegin, HookCheck, HookCall, HookDrain, HookContinue, HookEnd, Emit, userVars
  <1>2. SameList /\ \A i \in DOMAIN plugins : plugins'[i].enabled = plugins[i].enabled
    <2>1. CASE UNCHANGED plugins
      BY <2>1 DEF SameList
    <2>2. ASSUME NEW a \in DOMAIN plugins, NEW buf, plugins' = [plugins EXCEPT ![a].logBuf = buf]
          PROVE  SameList /\ \A i \in DOMAIN plugins : plugins'[i].enabled = plugins[i].enabled
      BY <1>0, <2>2 DEF SameList, Plugins
    <2>3. \/ UNCHANGED plugins
          \/ HookCall(h) \/ HookDrain(h)
      BY DEF Hook, HookBegin, HookCheck, HookContinue, HookEnd, Emit
    <2>4. hook[h].pc \in {"call", "drain"} => hook[h].at \in DOMAIN plugins
      <3>1. hook[h].at \in Nat \ {0} /\ hook[h].len \in Nat
        BY <1>0, HookStateUpdates
      <3> QED
        BY <1>0, <3>1 DEF Bounds
    <2>5. CASE HookCall(h)
      BY <2>1, <2>2, <2>4, <2>5 DEF HookCall
    <2>6. CASE HookDrain(h)
      BY <2>2, <2>4, <2>6 DEF HookDrain
    <2> QED
      BY <2>1, <2>3, <2>5, <2>6
  <1>3. /\ \A g \in Hooks \ {h} : hook'[g] = hook[g]
        /\ hook'[h].off \in {hook[h].off, userOff}
    <2>1. CASE HookBegin(h)
      BY <1>0, <2>1 DEF HookBegin, HookStates
    <2>2. CASE HookCheck(h)
      BY <1>0, <2>2 DEF HookCheck, HookStates
    <2>3. CASE HookCall(h)
      BY <1>0, <2>3 DEF HookCall, HookStates
    <2>4. CASE HookDrain(h) \/ HookContinue(h) \/ HookEnd(h)
      BY <1>0, <2>4 DEF HookDrain, HookContinue, HookEnd, HookStates
    <2>5. CASE Emit(h)
      BY <2>5 DEF Emit
    <2> QED
      BY <2>1, <2>2, <2>3, <2>4, <2>5 DEF Hook
  <1> QED
    BY <1>1, <1>2, <1>3

LEMMA FlagNewEngine ==
    ASSUME PluginAssumption, TypeOK, Quiescent, FlagInv, NewEngine
    PROVE  FlagInv'
  <1>0. rows \in Rows /\ userOff \subseteq Names
    BY DEF TypeOK
  <1>1. PICK loaded \in SUBSET Names, unsaved \in SUBSET Names, unread \in SUBSET Names,
             kept \in SUBSET Names :
         /\ unsaved \subseteq loaded /\ kept \cap loaded = {}
         /\ \A n \in Names :
              rows'[n] = CASE n \in loaded \ unsaved       -> Registered(rows[n])
                           [] n \in unsaved \/ n \in kept  -> rows[n]
                           [] OTHER                        -> "none"
         /\ \A i \in DOMAIN plugins' :
              /\ plugins'[i].name \in loaded
              /\ plugins'[i].enabled = (plugins'[i].name \in unread \/ Restored(rows'[plugins'[i].name]))
         /\ forgotten' = forgotten \cup {n \in unread : rows[n] = "off"} \cup (userOff \ loaded)
    <2>1. PICK loaded \in SUBSET Names, unsaved \in SUBSET Names, unread \in SUBSET Names,
               speak \in SUBSET Names, kept \in SUBSET Names :
             \E order \in Ascending(loaded), script \in [loaded -> Scripts] :
               /\ unsaved \subseteq loaded /\ unread \subseteq loaded /\ kept \cap loaded = {}
               /\ LoadDir(loaded, unsaved, unread, speak, kept, order, script)
      BY NewEngineLoads
    <2>2. PICK order \in Ascending(loaded), script \in [loaded -> Scripts] :
               /\ unsaved \subseteq loaded /\ unread \subseteq loaded /\ kept \cap loaded = {}
               /\ LoadDir(loaded, unsaved, unread, speak, kept, order, script)
      BY <2>1
    <2>3. \A i \in DOMAIN order : order[i] \in loaded
      BY <2>2, FS_Subset, FS_CardinalityType DEF PluginAssumption, Ascending
    <2>4. \A i \in DOMAIN plugins' :
              /\ plugins'[i].name \in loaded
              /\ plugins'[i].enabled = (plugins'[i].name \in unread \/ Restored(rows'[plugins'[i].name]))
      BY <2>2, <2>3 DEF LoadDir
    <2>5. \A n \in Names :
              rows'[n] = CASE n \in loaded \ unsaved       -> Registered(rows[n])
                           [] n \in unsaved \/ n \in kept  -> rows[n]
                           [] OTHER                        -> "none"
      BY <2>2 DEF LoadDir
    <2>6. forgotten' = forgotten \cup {n \in unread : rows[n] = "off"} \cup (userOff \ loaded)
      BY <2>2 DEF LoadDir
    <2> QED
      BY <2>2, <2>4, <2>5, <2>6
  <1>2. /\ main' = Idle /\ userOff' = userOff /\ \A h \in Hooks : hook'[h].off = {}
    BY DEF NewEngine, Quiescent, NotBegun
  <1>3. \A n \in Names : rows[n] \in {"none", "on", "off"} /\ rows'[n] \in {"none", "on", "off"}
    BY <1>0, <1>1 DEF Rows, Registered
  <1>4. RowsKept'
    BY <1>0, <1>1, <1>2 DEF FlagInv, RowsKept, Registered
  <1>5. FlagsHold'
    <2> SUFFICES ASSUME NEW n \in Names \ forgotten', NEW i \in DOMAIN plugins', plugins'[i].name = n
                 PROVE  plugins'[i].enabled <=> rows'[n] # "off"
      BY DEF FlagsHold, First
    <2>1. n \in loaded /\ (n \in unread => rows[n] # "off")
      BY <1>1
    <2>2. rows'[n] = "off" <=> rows[n] = "off"
      BY <1>1, <1>3, <2>1 DEF Registered
    <2> QED
      BY <1>1, <2>1, <2>2 DEF Restored
  <1> QED
    BY <1>2, <1>4, <1>5 DEF FlagInv, ToggleKept, ImportKnown, Idle

LEMMA FlagHook ==
    ASSUME TypeOK, Bounds, FlagInv, NEW h \in Hooks, Hook(h)
    PROVE  FlagInv'
  <1>1. /\ UNCHANGED <<rows, main, userOff, forgotten>>
        /\ SameList /\ \A i \in DOMAIN plugins : plugins'[i].enabled = plugins[i].enabled
        /\ \A g \in Hooks \ {h} : hook'[g] = hook[g]
        /\ hook'[h].off \in {hook[h].off, userOff}
    BY HookKeeps
  <1>2. RowsKept'
    BY <1>1 DEF FlagInv, RowsKept
  <1>3. \A n : First(n)' = First(n)
    BY <1>1, SameListFacts
  <1>4. FlagsHold'
    BY <1>1, <1>3 DEF FlagInv, FlagsHold, First
  <1>5. ToggleKept' /\ ImportKnown'
    BY <1>1, <1>3 DEF FlagInv, ToggleKept, ImportKnown
  <1> QED
    BY <1>2, <1>4, <1>5 DEF FlagInv

(* An import adds a plugin at the end, and keeps the others where they are. *)
LEMMA ImportAppends ==
    ASSUME TypeOK, ImportAppendEnd
    PROVE  /\ Len(plugins') = Len(plugins) + 1 /\ DOMAIN plugins' = 1 .. Len(plugins) + 1
           /\ \A i \in DOMAIN plugins : i \in DOMAIN plugins' /\ plugins'[i] = plugins[i]
           /\ plugins'[Len(plugins) + 1] = main.plugin
           /\ \A n : \A i \in First(n)' :
                 \/ i \in First(n)
                 \/ i = Len(plugins) + 1 /\ main.plugin.name = n /\ First(n) = {}
           /\ \A n : Twice(n) => Twice(n)'
  <1>1. main.plugin \in Plugins /\ plugins \in Seq(Plugins) /\ plugins' = Append(plugins, main.plugin)
    BY MainCases DEF TypeOK, ImportAppendEnd
  <1>2. Len(plugins) \in Nat /\ DOMAIN plugins = 1 .. Len(plugins)
    BY <1>1
  <1> DEFINE p == main.plugin
  <1> HIDE DEF p
  <1>3. /\ Len(plugins') = Len(plugins) + 1 /\ DOMAIN plugins' = 1 .. Len(plugins) + 1
        /\ \A i \in DOMAIN plugins : i \in DOMAIN plugins' /\ plugins'[i] = plugins[i]
        /\ plugins'[Len(plugins) + 1] = main.plugin
    BY <1>1, <1>2, AppendProperties DEF p
  <1>4. ASSUME NEW n, NEW i \in First(n)'
        PROVE  \/ i \in First(n)
               \/ i = Len(plugins) + 1 /\ main.plugin.name = n /\ First(n) = {}
    <2>1. /\ i \in DOMAIN plugins' /\ plugins'[i].name = n
          /\ \A j \in 1 .. i - 1 : plugins'[j].name # n
      BY <1>4 DEF First
    <2>2. CASE i \in DOMAIN plugins
      BY <1>2, <1>3, <2>1, <2>2 DEF First
    <2>3. CASE i = Len(plugins) + 1
      BY <1>2, <1>3, <2>1, <2>3 DEF First
    <2> QED
      BY <1>2, <1>3, <2>1, <2>2, <2>3
  <1>5. \A n : Twice(n) => Twice(n)'
    BY <1>3 DEF Twice
  <1> QED
    BY <1>3, <1>4, <1>5

LEMMA FlagMain ==
    ASSUME TypeOK, FlagInv, MainStep
    PROVE  FlagInv'
  <1>0. /\ rows \in Rows /\ hook \in [Hooks -> HookStates] /\ plugins \in Seq(Plugins)
        /\ RowsKept /\ ToggleKept /\ FlagsHold /\ ImportKnown
    BY DEF TypeOK, FlagInv
  <1>1. CASE ToggleEngine
    <2>1. /\ main.name \in Names /\ main.enabled \in BOOLEAN /\ main.at = "toggle"
          /\ main' = Idle /\ UNCHANGED <<rows, forgotten>>
      BY <1>1, MainCases DEF ToggleEngine
    <2>2. SameList
      BY <1>1 DEF ToggleEngine, SameList, Plugins
    <2>3. \A n : First(n)' = First(n)
      BY <2>2, SameListFacts
    <2>4. \A h \in Hooks : hook'[h].off = hook[h].off
      BY <1>0, <1>1 DEF ToggleEngine, HookStates
    <2>5. RowsKept'
      BY <1>0, <1>1, <2>1, <2>4 DEF RowsKept, ToggleKept, ToggleEngine
    <2>6. FlagsHold'
      <3> SUFFICES ASSUME NEW n \in Names \ forgotten, NEW i \in First(n)
                   PROVE  plugins'[i].enabled <=> rows[n] # "off"
        BY <2>1, <2>3 DEF FlagsHold
      <3>1. i \in DOMAIN plugins /\ plugins[i].name = n /\ plugins[i] \in Plugins
        BY <1>0 DEF First
      <3>2. CASE n = main.name
        <4>1. plugins'[i].enabled = main.enabled
          BY <1>1, <3>1, <3>2 DEF ToggleEngine, Plugins
        <4>2. rows[n] = IF main.enabled THEN "on" ELSE "off"
          BY <1>0, <2>1, <3>2 DEF ToggleKept
        <4> QED
          BY <2>1, <4>1, <4>2
      <3>3. CASE n # main.name
        <4>1. i \notin First(main.name)
          BY <3>1, <3>3 DEF First
        <4>2. plugins'[i] = plugins[i]
          BY <1>1, <3>1, <4>1 DEF ToggleEngine
        <4> QED
          BY <1>0, <3>3, <4>2 DEF FlagsHold
      <3> QED
        BY <3>2, <3>3
    <2> QED
      BY <2>1, <2>5, <2>6 DEF FlagInv, ToggleKept, ImportKnown, Idle
  <1>2. CASE ImportRegister
    <2>1. /\ main.at = "register" /\ main'.at = "emit" /\ main'.plugin.name = main.plugin.name
          /\ main'.plugin.enabled = main.plugin.enabled /\ main.plugin.name \in Names
      BY <1>2, MainCases DEF ImportRegister, Plugins
    <2>2. UNCHANGED <<plugins, hook, userOff, forgotten>> /\ \A n : First(n)' = First(n)
      BY <1>2 DEF ImportRegister, userVars, First
    <2>3. \A n \in Names : rows'[n] = "off" <=> rows[n] = "off"
      BY <1>0, <1>2, <2>1 DEF ImportRegister, Registered, Rows
    <2>4. userOff \subseteq Names
      BY DEF TypeOK
    <2> QED
      BY <1>0, <2>1, <2>2, <2>3, <2>4 DEF FlagInv, RowsKept, ToggleKept, FlagsHold, ImportKnown
  <1>3. CASE ImportAppendBegin
    <2>1. /\ main.at = "emit" /\ main'.at = "append" /\ main'.plugin = main.plugin
      BY <1>3, MainCases DEF ImportAppendBegin
    <2>2. UNCHANGED <<rows, plugins, hook, userOff, forgotten>> /\ \A n : First(n)' = First(n)
      BY <1>3 DEF ImportAppendBegin, userVars, First
    <2> QED
      BY <1>0, <2>1, <2>2 DEF FlagInv, RowsKept, ToggleKept, FlagsHold, ImportKnown
  <1>4. CASE ImportAppendEnd
    <2>1. main.at = "append" /\ main' = Idle /\ UNCHANGED <<rows, hook, userOff, forgotten>>
      BY <1>4 DEF ImportAppendEnd, userVars
    <2>2. FlagsHold'
      <3> SUFFICES ASSUME NEW n \in Names \ forgotten, NEW i \in First(n)'
                   PROVE  plugins'[i].enabled <=> rows[n] # "off"
        BY <2>1 DEF FlagsHold
      <3>1. CASE i \in First(n)
        <4>1. i \in DOMAIN plugins
          BY <3>1 DEF First
        <4>2. plugins'[i] = plugins[i]
          BY <1>4, <4>1, ImportAppends
        <4> QED
          BY <1>0, <2>1, <3>1, <4>2 DEF FlagsHold
      <3>2. CASE i = Len(plugins) + 1 /\ main.plugin.name = n /\ First(n) = {}
        <4>1. plugins'[i] = main.plugin
          BY <1>4, <3>2, ImportAppends
        <4> QED
          BY <1>0, <2>1, <3>2, <4>1 DEF ImportKnown
      <3> QED
        BY <1>4, <3>1, <3>2, ImportAppends
    <2> QED
      BY <1>0, <2>1, <2>2 DEF FlagInv, RowsKept, ToggleKept, ImportKnown, Idle
  <1>5. CASE Emit(Main)
    <2>1. UNCHANGED <<rows, plugins, main, hook, userOff, forgotten>> /\ \A n : First(n)' = First(n)
      BY <1>5 DEF Emit, userVars, First
    <2> QED
      BY <1>0, <2>1 DEF FlagInv, RowsKept, ToggleKept, FlagsHold, ImportKnown
  <1> QED
    BY <1>1, <1>2, <1>3, <1>4, <1>5 DEF MainStep

LEMMA FlagUser ==
    ASSUME TypeOK, FlagInv, User \/ Quit
    PROVE  FlagInv'
  <1>0. /\ rows \in Rows /\ hook \in [Hooks -> HookStates] /\ userOff \subseteq Names
        /\ RowsKept /\ ToggleKept /\ FlagsHold /\ ImportKnown
    BY DEF TypeOK, FlagInv
  <1>1. ASSUME NEW n \in Names, Import(n)
        PROVE  FlagInv'
    <2>1. /\ main.at = "idle" /\ main'.at = "register" /\ main'.plugin.name = n
          /\ main'.plugin.enabled = TRUE
      BY <1>1 DEF Import, Command
    <2>2. UNCHANGED <<rows, plugins, hook, userOff>> /\ \A m : First(m)' = First(m)
      BY <1>1 DEF Import, First
    <2>3. forgotten \subseteq forgotten' /\ (rows[n] = "off" /\ First(n) = {} => n \in forgotten')
      BY <1>1 DEF Import
    <2> QED
      BY <1>0, <2>1, <2>2, <2>3 DEF FlagInv, RowsKept, ToggleKept, FlagsHold, ImportKnown
  <1>2. ASSUME NEW n \in Names, NEW enabled \in BOOLEAN, Toggle(n, enabled)
        PROVE  FlagInv'
    <2>1. /\ main.at = "idle" /\ main'.at = "toggle" /\ main'.name = n /\ main'.enabled = enabled
          /\ userOff' = userOff \ {n}
      BY <1>2 DEF Toggle, Command
    <2>2. UNCHANGED plugins /\ \A m : First(m)' = First(m)
      BY <1>2 DEF Toggle, First
    <2>3. /\ \A m \in Names \ {n} : rows'[m] = rows[m] /\ (m \in forgotten' <=> m \in forgotten)
          /\ n \notin forgotten' => rows'[n] = IF enabled THEN "on" ELSE "off"
      BY <1>0, <1>2 DEF Toggle, Rows
    <2>4. \A h \in Hooks : hook'[h].off = hook[h].off \ {n}
      BY <1>0, <1>2 DEF Toggle, HookStates
    <2> QED
      BY <1>0, <2>1, <2>2, <2>3, <2>4 DEF FlagInv, RowsKept, ToggleKept, FlagsHold, ImportKnown
  <1>3. CASE Quit
    <2>1. /\ main' = Idle /\ UNCHANGED <<rows, userOff, forgotten>>
          /\ \A h \in Hooks : hook'[h].off = {}
          /\ \A n : First(n)' = {}
      BY <1>3 DEF Quit, NotBegun, First
    <2> QED
      BY <1>0, <2>1 DEF FlagInv, RowsKept, ToggleKept, FlagsHold, ImportKnown, Idle
  <1> QED
    BY <1>1, <1>2, <1>3 DEF User

LEMMA FlagStep ==
    ASSUME PluginAssumption, TypeOK, Bounds, Quiescent, FlagInv, Next
    PROVE  FlagInv'
  BY FlagNewEngine, FlagHook, FlagMain, FlagUser DEF Next, Running

(* What a hook has seen stays true while the plugins keep their places and *)
(* the user forgives or forgets nothing that concerns it.                  *)
LEMMA QuietKept ==
    ASSUME TypeOK, Bounds, NEW h \in Hooks, QuietHook(h),
           hook'[h].pc = hook[h].pc, hook'[h].called = hook[h].called, hook'[h].at = hook[h].at,
           hook'[h].off \subseteq hook[h].off,
           \A i \in DOMAIN plugins : plugins'[i].name = plugins[i].name,
           \A n : Twice(n) => Twice(n)',
           \A n \in hook'[h].off : n \in forgotten => n \in forgotten'
    PROVE  QuietHook(h)'
  <1>1. /\ \A k \in DOMAIN hook[h].called : hook[h].called[k] \in DOMAIN plugins
        /\ hook[h].pc = "call" => hook[h].at \in DOMAIN plugins
    <2>1. /\ hook[h].at \in Nat \ {0} /\ hook[h].len \in Nat
          /\ Len(plugins) \in Nat /\ DOMAIN plugins = 1 .. Len(plugins)
      <3>1. hook[h] \in HookStates /\ plugins \in Seq(Plugins)
        BY DEF TypeOK
      <3>2. hook[h].at \in Nat \ {0} /\ hook[h].len \in Nat
        BY <3>1, HookStateUpdates
      <3> QED
        BY <3>1, <3>2
    <2> QED
      BY <2>1 DEF Bounds
  <1>2. \A i \in DOMAIN plugins : Excused(h, i) => Excused(h, i)'
    BY DEF Excused
  <1> QED
    BY <1>1, <1>2 DEF QuietHook

LEMMA QuietHooks ==
    ASSUME TypeOK, Bounds, FlagInv, ChecksHold, NEW h \in Hooks, Hook(h)
    PROVE  ChecksHold'
  <1>0. /\ hook \in [Hooks -> HookStates] /\ plugins \in Seq(Plugins) /\ QuietHook(h)
        /\ hook[h].at \in Nat \ {0} /\ hook[h].len \in Nat /\ hook[h].called \in Seq(Nat \ {0})
        /\ Len(plugins) \in Nat /\ DOMAIN plugins = 1 .. Len(plugins)
    <2>1. hook \in [Hooks -> HookStates] /\ plugins \in Seq(Plugins) /\ QuietHook(h)
      BY DEF TypeOK, ChecksHold
    <2>2. hook[h] \in HookStates
      BY <2>1
    <2>3. hook[h].at \in Nat \ {0} /\ hook[h].len \in Nat /\ hook[h].called \in Seq(Nat \ {0})
      BY <2>2, HookStateUpdates
    <2> QED
      BY <2>1, <2>3
  <1>1. /\ UNCHANGED forgotten
        /\ SameList /\ \A g \in Hooks \ {h} : hook'[g] = hook[g]
    BY HookKeeps
  <1>2. \A n : Twice(n)' = Twice(n)
    BY <1>1, SameListFacts
  <1>3. ASSUME NEW g \in Hooks \ {h}
        PROVE  QuietHook(g)'
    BY <1>1, <1>2, <1>3, QuietKept DEF ChecksHold, SameList
  <1>4. \A i \in DOMAIN plugins : hook'[h].off = hook[h].off => (Excused(h, i)' <=> Excused(h, i))
    BY <1>1, <1>2 DEF Excused, SameList
  <1>5. /\ \A k \in DOMAIN hook[h].called : hook[h].called[k] \in DOMAIN plugins
        /\ hook[h].pc \in {"call", "drain", "emit"} => hook[h].at \in DOMAIN plugins
    BY <1>0 DEF Bounds
  <1>6. QuietHook(h)'
    <2>1. CASE HookBegin(h)
      <3>1. \/ hook' = hook
            \/ hook'[h].pc = "next" /\ hook'[h].called = <<>>
        BY <1>0, <2>1 DEF HookBegin, QuietHook, HookStates
      <3> QED
        BY <1>0, <1>4, <1>5, <3>1 DEF QuietHook
    <2>2. CASE HookCheck(h)
      <3>1. /\ hook'[h].called = hook[h].called /\ hook'[h].off = hook[h].off
            /\ \/ hook'[h].pc = "next"
               \/ /\ hook'[h].pc = "call" /\ hook'[h].at = hook[h].at
                  /\ plugins[hook[h].at].enabled
        BY <1>0, <2>2 DEF HookCheck, HookStates
      <3>2. hook[h].at \in DOMAIN plugins
        BY <1>0, <2>2 DEF HookCheck, Bounds
      <3>3. plugins[hook[h].at].enabled => Excused(h, hook[h].at)
        <4> SUFFICES ASSUME NEW n, n = plugins[hook[h].at].name, plugins[hook[h].at].enabled,
                            n \in hook[h].off, n \notin forgotten, ~Twice(n)
                     PROVE  FALSE
          BY DEF Excused
        <4>1. n \in userOff /\ n \in Names /\ rows[n] = "off"
          BY <1>0 DEF FlagInv, RowsKept, TypeOK
        <4>2. hook[h].at \in First(n)
          BY <3>2, OnlyIsFirst
        <4>3. ~(main.at = "toggle" /\ main.name = n)
          BY <4>1 DEF FlagInv, ToggleKept
        <4> QED
          BY <4>1, <4>2, <4>3 DEF FlagInv, FlagsHold
      <3> QED
        BY <1>0, <1>4, <1>5, <3>1, <3>2, <3>3 DEF QuietHook
    <2>3. CASE HookCall(h)
      <3>1. /\ hook[h].pc = "call" /\ hook'[h].pc = "drain" /\ hook'[h].off = hook[h].off
            /\ hook'[h].called = Append(hook[h].called, hook[h].at)
        BY <1>0, <2>3 DEF HookCall, HookStates
      <3> DEFINE s == hook[h].called  x == hook[h].at
      <3>2. s \in Seq(Nat \ {0}) /\ x \in Nat \ {0}
        BY <1>0
      <3> HIDE DEF s, x
      <3>3. \A k \in DOMAIN Append(s, x) : (k \in DOMAIN s /\ Append(s, x)[k] = s[k]) \/ Append(s, x)[k] = x
        BY <3>2, AppendProperties
      <3>4. \A i \in DOMAIN plugins : (\E k \in DOMAIN s : i = s[k]) \/ i = x => Excused(h, i)'
        BY <1>0, <1>4, <3>1 DEF QuietHook, s, x
      <3>5. (\A k \in DOMAIN s : s[k] \in DOMAIN plugins) /\ x \in DOMAIN plugins
        BY <1>5, <3>1 DEF s, x
      <3>6. \A k \in DOMAIN hook'[h].called : \A i : i = hook'[h].called[k] => Excused(h, i)'
        BY <3>1, <3>3, <3>4, <3>5 DEF s, x
      <3> QED
        BY <3>1, <3>6 DEF QuietHook, Excused, Twice
    <2>4. CASE HookDrain(h) \/ HookContinue(h) \/ HookEnd(h)
      <3>1. /\ hook'[h].called = hook[h].called /\ hook'[h].off = hook[h].off
            /\ hook'[h].pc \notin {"idle", "call"}
        BY <1>0, <2>4 DEF HookDrain, HookContinue, HookEnd, HookStates
      <3> QED
        BY <1>0, <1>4, <1>5, <3>1 DEF QuietHook
    <2>5. CASE Emit(h)
      BY <1>0, <1>4, <1>5, <2>5 DEF Emit, QuietHook
    <2> QED
      BY <2>1, <2>2, <2>3, <2>4, <2>5 DEF Hook
  <1> QED
    BY <1>3, <1>6 DEF ChecksHold

LEMMA ChecksStep ==
    ASSUME PluginAssumption, TypeOK, Bounds, Quiescent, FlagInv, ChecksHold, Next
    PROVE  ChecksHold'
  <1>0. hook \in [Hooks -> HookStates] /\ plugins \in Seq(Plugins)
    BY DEF TypeOK
  <1>1. CASE NewEngine \/ Quit
    <2>1. \A h \in Hooks : hook'[h].pc = "idle" /\ hook'[h].called = <<>>
      BY <1>1 DEF NewEngine, Quit, Quiescent, NotBegun
    <2> QED
      BY <2>1 DEF ChecksHold, QuietHook
  <1>2. ASSUME NEW h \in Hooks, Hook(h)
        PROVE  ChecksHold'
    BY <1>2, QuietHooks
  <1>3. CASE MainStep
    <2>1. \A h \in Hooks : /\ hook'[h].pc = hook[h].pc /\ hook'[h].called = hook[h].called
                           /\ hook'[h].at = hook[h].at /\ hook'[h].off = hook[h].off
      BY <1>0, <1>3 DEF MainStep, ToggleEngine, ImportRegister, ImportAppendBegin, ImportAppendEnd,
                        Emit, HookStates
    <2>2. UNCHANGED forgotten
      BY <1>3 DEF MainStep, ToggleEngine, ImportRegister, ImportAppendBegin, ImportAppendEnd,
                  Emit, userVars
    <2>3. /\ \A i \in DOMAIN plugins : plugins'[i].name = plugins[i].name
          /\ \A n : Twice(n) => Twice(n)'
      <3>1. CASE ToggleEngine
        <4>1. SameList
          BY <1>0, <3>1 DEF ToggleEngine, SameList, Plugins
        <4> QED
          BY <4>1, SameListFacts DEF SameList
      <3>2. CASE ImportAppendEnd
        BY <3>2, ImportAppends
      <3>3. CASE UNCHANGED plugins
        BY <3>3 DEF Twice
      <3> QED
        BY <1>3, <3>1, <3>2, <3>3 DEF MainStep, ImportRegister, ImportAppendBegin, Emit
    <2> QED
      BY <2>1, <2>2, <2>3, QuietKept DEF ChecksHold
  <1>4. ASSUME NEW n \in Names, Import(n)
        PROVE  ChecksHold'
    <2>1. UNCHANGED <<plugins, hook>> /\ forgotten \subseteq forgotten'
      BY <1>4 DEF Import
    <2>2. \A m : Twice(m) => Twice(m)'
      BY <2>1 DEF Twice
    <2> QED
      BY <2>1, <2>2, QuietKept DEF ChecksHold
  <1>5. ASSUME NEW n \in Names, NEW enabled \in BOOLEAN, Toggle(n, enabled)
        PROVE  ChecksHold'
    <2>1. \A h \in Hooks : /\ hook'[h].pc = hook[h].pc /\ hook'[h].called = hook[h].called
                           /\ hook'[h].at = hook[h].at /\ hook'[h].off = hook[h].off \ {n}
      BY <1>0, <1>5 DEF Toggle, HookStates
    <2>2. UNCHANGED plugins /\ forgotten \ {n} \subseteq forgotten'
      BY <1>5 DEF Toggle
    <2>3. \A m : Twice(m) => Twice(m)'
      BY <2>2 DEF Twice
    <2> QED
      BY <2>1, <2>2, <2>3, QuietKept DEF ChecksHold
  <1> QED
    BY <1>1, <1>2, <1>3, <1>4, <1>5 DEF Next, Running, User

-----------------------------------------------------------------------------
(* The calls of a hook.                                                    *)

(* Hook state c is past the plugin at i: it has skipped it or called it.   *)
Past(c, i) == i < c.at \/ (i = c.at /\ c.pc \in {"drain", "emit", "dropped"})

(* The calls of state c, for the function f and the list ps.               *)
CallsMade(c, f, ps) ==
    /\ c.steady \subseteq 1 .. c.len
    /\ \A i \in c.steady : ps[i].enabled
    /\ \A k \in DOMAIN c.called : Past(c, c.called[k])
    /\ \A j, k \in DOMAIN c.called : j < k => c.called[j] < c.called[k]
    /\ \A i \in c.steady : f \in ps[i].functions /\ Past(c, i) => i \in ToSet(c.called)
    /\ c.pc \in {"drain", "emit"} => c.at \in ToSet(c.called)
    /\ c.pc = "idle" => c.at = 1
    /\ c.pc = "done" => c.at > c.len

CallsHold == \A h \in Hooks : CallsMade(hook[h], FunctionOf[h], plugins)

(* What happens beside the hook leaves its calls alone, as long as the     *)
(* steady plugins stay enabled.                                            *)
LEMMA CallsKept ==
    ASSUME NEW c, NEW d, NEW f, NEW ps, NEW qs, CallsMade(c, f, ps),
           d.pc = c.pc, d.at = c.at, d.len = c.len, d.called = c.called, d.steady \subseteq c.steady,
           \A i \in d.steady : qs[i].enabled /\ qs[i].functions = ps[i].functions
    PROVE  CallsMade(d, f, qs)
  BY DEF CallsMade, Past

(* The hook goes on to the next plugin, or ends with this one.             *)
LEMMA CallsPassed ==
    ASSUME NEW c \in HookStates, NEW d \in HookStates, NEW f, NEW ps, CallsMade(c, f, ps),
           d.len = c.len, d.called = c.called, d.steady = c.steady,
           \/ /\ d.pc = "next" /\ d.at = c.at + 1
              /\ \/ c.pc \in {"drain", "emit"}
                 \/ c.at \in c.steady => f \notin ps[c.at].functions
           \/ c.pc \in {"drain", "emit"} /\ d.pc \in {"emit", "dropped"} /\ d.at = c.at
           \/ c.pc = "next" /\ d.pc = "call" /\ d.at = c.at
           \/ c.pc = "next" /\ d.pc = "done" /\ d.at = c.at /\ c.at > c.len
    PROVE  CallsMade(d, f, ps)
  <1>1. /\ c.at \in Nat /\ c.len \in Nat /\ c.steady \subseteq Nat
        /\ c.called \in Seq(Nat \ {0}) /\ d.at \in Nat
    BY DEF HookStates
  <1>2. \A i \in Nat : Past(d, i) => Past(c, i) \/ (i = c.at /\ d.at = c.at + 1)
    BY <1>1 DEF Past
  <1>3. \A i \in Nat : Past(c, i) => Past(d, i)
    BY <1>1 DEF Past
  <1>4. \A k \in DOMAIN c.called : Past(d, d.called[k])
    BY <1>1, <1>3 DEF CallsMade
  <1>5. \A i \in d.steady : f \in ps[i].functions /\ Past(d, i) => i \in ToSet(d.called)
    <2> SUFFICES ASSUME NEW i \in c.steady, f \in ps[i].functions, Past(d, i)
                 PROVE  i \in ToSet(c.called)
      OBVIOUS
    <2>1. CASE Past(c, i)
      BY <2>1 DEF CallsMade
    <2>2. CASE i = c.at /\ d.at = c.at + 1
      BY <2>2, <1>1 DEF CallsMade
    <2> QED
      BY <1>1, <1>2, <2>1, <2>2
  <1> QED
    BY <1>1, <1>4, <1>5 DEF CallsMade

(* A call is added behind the calls of the plugins before.                 *)
LEMMA CallAdded ==
    ASSUME NEW c \in HookStates, NEW d \in HookStates, NEW f, NEW ps, CallsMade(c, f, ps),
           c.pc = "call", d.pc = "drain", d.at = c.at, d.len = c.len, d.steady = c.steady,
           d.called = Append(c.called, c.at)
    PROVE  CallsMade(d, f, ps)
  <1>1. /\ c.at \in Nat \ {0} /\ c.len \in Nat /\ c.steady \subseteq Nat
        /\ c.called \in Seq(Nat \ {0})
    BY DEF HookStates
  <1> DEFINE s == c.called  n == Len(c.called)
  <1>2. /\ n \in Nat /\ DOMAIN s = 1 .. n /\ DOMAIN d.called = 1 .. n + 1
        /\ d.called[n + 1] = c.at /\ \A k \in 1 .. n : d.called[k] = s[k] /\ s[k] \in Nat
    BY <1>1
  <1>3. \A k \in 1 .. n : s[k] < c.at
    BY <1>1, <1>2 DEF CallsMade, Past
  <1>4. \A j, k \in DOMAIN d.called : j < k => d.called[j] < d.called[k]
    <2> SUFFICES ASSUME NEW j \in 1 .. n + 1, NEW k \in 1 .. n + 1, j < k
                 PROVE  d.called[j] < d.called[k]
      BY <1>2
    <2>1. j \in 1 .. n
      BY <1>2
    <2>2. CASE k = n + 1
      BY <1>2, <1>3, <2>1, <2>2
    <2>3. CASE k \in 1 .. n
      BY <1>2, <2>1, <2>3 DEF CallsMade
    <2> QED
      BY <1>2, <2>2, <2>3
  <1>5. \A k \in DOMAIN d.called : Past(d, d.called[k])
    BY <1>1, <1>2, <1>3 DEF Past
  <1>6. c.at \in ToSet(d.called) /\ ToSet(s) \subseteq ToSet(d.called)
    BY <1>1, <1>2 DEF ToSet
  <1>7. \A i \in d.steady : f \in ps[i].functions /\ Past(d, i) => i \in ToSet(d.called)
    <2>1. \A i \in c.steady : Past(d, i) => Past(c, i) \/ i = c.at
      BY <1>1 DEF Past
    <2> QED
      BY <1>6, <2>1 DEF CallsMade
  <1> QED
    BY <1>4, <1>5, <1>6, <1>7 DEF CallsMade

(* The steps of a hook keep its calls in order and complete.               *)
LEMMA HookCalls ==
    ASSUME PluginAssumption, TypeOK, Bounds, ChecksHold, CallsHold, NEW h \in Hooks, Hook(h)
    PROVE  CallsHold'
  <1> DEFINE c == hook[h]  d == hook'[h]  f == FunctionOf[h]
  <1>0. /\ hook \in [Hooks -> HookStates] /\ plugins \in Seq(Plugins)
        /\ c \in HookStates /\ DOMAIN plugins = 1 .. Len(plugins) /\ Len(plugins) \in Nat
    BY DEF TypeOK
  <1>1. hook' \in [Hooks -> HookStates] /\ d \in HookStates
    BY HookTypes DEF TypeOK
  <1>2. c.at \in Nat \ {0} /\ c.len \in Nat /\ c.len <= Len(plugins)
    BY <1>0, HookStateUpdates DEF Bounds
  <1>3. \A i \in DOMAIN plugins : /\ plugins'[i].enabled = plugins[i].enabled
                                  /\ plugins'[i].functions = plugins[i].functions
    <2>1. CASE UNCHANGED plugins
      BY <2>1
    <2>2. ASSUME NEW a \in DOMAIN plugins, NEW buf, plugins' = [plugins EXCEPT ![a].logBuf = buf]
          PROVE  \A i \in DOMAIN plugins : /\ plugins'[i].enabled = plugins[i].enabled
                                           /\ plugins'[i].functions = plugins[i].functions
      BY <1>0, <2>2 DEF Plugins
    <2>3. c.pc \in {"call", "drain"} => c.at \in DOMAIN plugins
      BY <1>0, <1>2 DEF Bounds
    <2>4. CASE HookCall(h)
      BY <2>1, <2>2, <2>3, <2>4 DEF HookCall
    <2>5. CASE HookDrain(h)
      BY <2>2, <2>3, <2>5 DEF HookDrain
    <2> QED
      BY <2>1, <2>4, <2>5 DEF Hook, HookBegin, HookCheck, HookContinue, HookEnd, Emit
  <1>4. CallsMade(d, f, plugins)
    <2>0. CallsMade(c, f, plugins)
      BY DEF CallsHold
    <2>1. CASE hook' = hook
      BY <2>0, <2>1
    <2>2. CASE HookBegin(h) /\ hook' # hook
      <3>1. c.called = <<>> /\ c.at = 1
        BY <2>0, <2>2 DEF HookBegin, ChecksHold, QuietHook, CallsMade
      <3>2. /\ d.pc = "next" /\ d.at = 1 /\ d.called = <<>> /\ d.len = Len(plugins)
            /\ d.steady = {i \in DOMAIN plugins : plugins[i].enabled}
        BY <1>0, <2>2, <3>1 DEF HookBegin, HookStates
      <3> QED
        BY <1>0, <3>2 DEF CallsMade, Past
    <2>3. CASE HookCheck(h)
      <3>1. /\ d.len = c.len /\ d.called = c.called /\ d.steady = c.steady /\ c.pc = "next"
            /\ \/ d.pc = "call" /\ d.at = c.at
               \/ /\ d.pc = "next" /\ d.at = c.at + 1
                  /\ ~plugins[c.at].enabled \/ f \notin plugins[c.at].functions
        BY <1>0, <2>3 DEF HookCheck, HookStates
      <3>2. c.at \in c.steady => plugins[c.at].enabled
        BY <2>0 DEF CallsMade
      <3> HIDE DEF c, d, f
      <3> QED
        BY <1>0, <1>1, <2>0, <3>1, <3>2, CallsPassed
    <2>4. CASE HookCall(h)
      <3>1. /\ d.len = c.len /\ d.at = c.at /\ d.steady = c.steady /\ c.pc = "call"
            /\ d.pc = "drain" /\ d.called = Append(c.called, c.at)
        BY <1>0, <2>4 DEF HookCall, HookStates
      <3> HIDE DEF c, d, f
      <3> QED
        BY <1>0, <1>1, <2>0, <3>1, CallAdded
    <2>5. CASE HookDrain(h) \/ HookContinue(h) \/ HookEnd(h)
      <3>1. /\ d.len = c.len /\ d.called = c.called /\ d.steady = c.steady
            /\ \/ c.pc = "drain" /\ d.pc = "emit" /\ d.at = c.at
               \/ c.pc = "emit" /\ d.pc = "next" /\ d.at = c.at + 1
               \/ c.pc = "emit" /\ d.pc = "dropped" /\ d.at = c.at
               \/ c.pc = "next" /\ d.pc = "done" /\ d.at = c.at /\ c.at > c.len
        BY <1>0, <2>5 DEF HookDrain, HookContinue, HookEnd, HookStates
      <3> HIDE DEF c, d, f
      <3> QED
        BY <1>0, <1>1, <2>0, <3>1, CallsPassed
    <2>6. CASE Emit(h)
      BY <2>1, <2>6 DEF Emit
    <2> QED
      BY <2>1, <2>2, <2>3, <2>4, <2>5, <2>6 DEF Hook
  <1>5. ASSUME NEW g \in Hooks
        PROVE  CallsMade(hook'[g], FunctionOf[g], plugins)
    <2>1. CASE g = h
      BY <1>4, <2>1
    <2>2. CASE g # h
      BY <2>2, HookKeeps DEF CallsHold
    <2> QED
      BY <2>1, <2>2
  <1>6. ASSUME NEW g \in Hooks
        PROVE  CallsMade(hook'[g], FunctionOf[g], plugins')
    <2>1. hook'[g].steady \subseteq 1 .. hook'[g].len
      BY <1>5 DEF CallsMade
    <2>2. hook'[g].steady \subseteq DOMAIN plugins
      <3>1. hook'[g].len \in Nat
        BY <1>1, HookStateUpdates
      <3>2. hook'[g].len <= Len(plugins)
        <4>1. hook'[g].len \in {hook[g].len, Len(plugins)}
          <5>1. CASE g # h
            BY <5>1, HookKeeps
          <5>2. CASE hook' = hook
            BY <5>2
          <5>3. CASE g = h /\ HookBegin(h) /\ hook' # hook
            BY <1>0, <5>3 DEF HookBegin, HookStates
          <5>4. CASE g = h /\ (HookCheck(h) \/ HookCall(h))
            BY <1>0, <5>4 DEF HookCheck, HookCall, HookStates
          <5>5. CASE g = h /\ (HookDrain(h) \/ HookContinue(h) \/ HookEnd(h))
            BY <1>0, <5>5 DEF HookDrain, HookContinue, HookEnd, HookStates
          <5>6. CASE Emit(h)
            BY <5>2, <5>6 DEF Emit
          <5> QED
            BY <5>1, <5>2, <5>3, <5>4, <5>5, <5>6 DEF Hook
        <4> QED
          BY <1>0, <4>1 DEF Bounds
      <3> QED
        BY <1>0, <2>1, <3>1, <3>2
    <2>3. \A i \in hook'[g].steady : /\ plugins'[i].enabled
                                     /\ plugins'[i].functions = plugins[i].functions
      BY <1>3, <1>5, <2>2 DEF CallsMade
    <2> QED
      BY <1>5, <2>3, CallsKept
  <1> QED
    BY <1>6 DEF CallsHold

LEMMA CallsStep ==
    ASSUME PluginAssumption, TypeOK, Bounds, Quiescent, ChecksHold, CallsHold, Next
    PROVE  CallsHold'
  <1>0. /\ hook \in [Hooks -> HookStates] /\ plugins \in Seq(Plugins)
        /\ DOMAIN plugins = 1 .. Len(plugins) /\ Len(plugins) \in Nat
    BY DEF TypeOK
  <1>1. CASE NewEngine \/ Quit
    <2>1. \A h \in Hooks : hook'[h] = NotBegun
      BY <1>1 DEF NewEngine, Quit, Quiescent
    <2> QED
      BY <2>1 DEF CallsHold, CallsMade, NotBegun, ToSet
  <1>2. ASSUME NEW h \in Hooks, Hook(h)
        PROVE  CallsHold'
    BY <1>2, HookCalls
  <1>3. \A h \in Hooks : hook[h].steady \subseteq DOMAIN plugins
    <2> SUFFICES ASSUME NEW h \in Hooks
                 PROVE  hook[h].steady \subseteq DOMAIN plugins
      OBVIOUS
    <2>1. hook[h].len \in Nat /\ hook[h].len <= Len(plugins)
      BY <1>0, HookStateUpdates DEF Bounds
    <2> QED
      BY <1>0, <2>1 DEF CallsHold, CallsMade
  <1>4. CASE ToggleEngine
    <2>1. SUFFICES ASSUME NEW h \in Hooks
                   PROVE  CallsMade(hook'[h], FunctionOf[h], plugins')
      BY DEF CallsHold
    <2>2. /\ hook'[h].pc = hook[h].pc /\ hook'[h].at = hook[h].at /\ hook'[h].len = hook[h].len
          /\ hook'[h].called = hook[h].called /\ hook'[h].steady \subseteq hook[h].steady
          /\ ~main.enabled => hook'[h].steady = hook[h].steady \ First(main.name)
      BY <1>0, <1>4 DEF ToggleEngine, HookStates
    <2>3. ASSUME NEW i \in hook'[h].steady
          PROVE  plugins'[i].enabled /\ plugins'[i].functions = plugins[i].functions
      <3>1. i \in DOMAIN plugins /\ plugins[i].enabled
        BY <1>3, <2>2 DEF CallsHold, CallsMade
      <3>2. plugins'[i] = IF i \in First(main.name) THEN [plugins[i] EXCEPT !.enabled = main.enabled]
                          ELSE plugins[i]
        BY <1>4, <3>1 DEF ToggleEngine
      <3>3. plugins[i] \in Plugins
        BY <1>0, <3>1
      <3> QED
        BY <2>2, <3>1, <3>2, <3>3 DEF Plugins
    <2>4. CallsMade(hook[h], FunctionOf[h], plugins)
      BY DEF CallsHold
    <2> QED
      BY <2>2, <2>3, <2>4, CallsKept
  <1>5. CASE ImportAppendEnd
    <2>1. UNCHANGED hook /\ \A i \in DOMAIN plugins : plugins'[i] = plugins[i]
      BY <1>0, <1>5 DEF ImportAppendEnd
    <2>2. SUFFICES ASSUME NEW h \in Hooks
                   PROVE  CallsMade(hook[h], FunctionOf[h], plugins')
      BY <2>1 DEF CallsHold
    <2>3. CallsMade(hook[h], FunctionOf[h], plugins)
      BY DEF CallsHold
    <2>4. \A i \in hook[h].steady : plugins'[i].enabled /\ plugins'[i].functions = plugins[i].functions
      BY <1>3, <2>1, <2>3 DEF CallsMade
    <2> QED
      BY <2>3, <2>4, CallsKept
  <1>6. CASE UNCHANGED <<plugins, hook>>
    BY <1>6 DEF CallsHold
  <1>7. ASSUME NEW n \in Names, NEW enabled \in BOOLEAN, Toggle(n, enabled)
        PROVE  CallsHold'
    <2>1. SUFFICES ASSUME NEW h \in Hooks
                   PROVE  CallsMade(hook'[h], FunctionOf[h], plugins')
      BY DEF CallsHold
    <2>2. /\ hook'[h].pc = hook[h].pc /\ hook'[h].at = hook[h].at /\ hook'[h].len = hook[h].len
          /\ hook'[h].called = hook[h].called /\ hook'[h].steady = hook[h].steady
      BY <1>0, <1>7 DEF Toggle, HookStates
    <2>3. UNCHANGED plugins
      BY <1>7 DEF Toggle
    <2>4. CallsMade(hook[h], FunctionOf[h], plugins)
      BY DEF CallsHold
    <2> QED
      BY <2>2, <2>3, <2>4 DEF CallsMade, Past
  <1> QED
    BY <1>1, <1>2, <1>4, <1>5, <1>6, <1>7
    DEF Next, Running, MainStep, User, ImportRegister, ImportAppendBegin, Import, Emit

-----------------------------------------------------------------------------
(* The log lines.  Wherever lines wait there is a queue: the buffer of a   *)
(* plugin, the hands of a goroutine, the plugin under import, the ring of  *)
(* a name.                                                                 *)
Places ==
    ({"buf"} \X (Nat \ {0})) \cup ({"hand"} \X Actors) \cup ({"import"} \X {Main})
    \cup ({"ring"} \X Names)

Waiting(list, hands, under, rings) == [p \in Places |->
    CASE p[1] = "buf"    -> IF p[2] \in DOMAIN list THEN list[p[2]].logBuf ELSE <<>>
      [] p[1] = "hand"   -> hands[p[2]]
      [] p[1] = "import" -> IF under.at = "register" THEN under.plugin.logBuf ELSE <<>>
      [] p[1] = "ring"   -> rings[p[2]]]

Queues == Waiting(plugins, hand, main, pluginLogs)

(* No line is in the queues twice. *)
Once(C) == \A p, q \in Places : \A j \in DOMAIN C[p], k \in DOMAIN C[q] :
    C[p][j] = C[q][k] => p = q /\ j = k

(* What is in the queues has been written; on its way to the ring a line   *)
(* has a number no less than its position, so that queues are no longer    *)
(* than the number of lines there are; a ring is of one plugin.            *)
Numbered(C, w) == \A p \in Places : \A k \in DOMAIN C[p] :
    /\ C[p][k][2] <= w[C[p][k][1]]
    /\ p[1] # "ring" => k <= C[p][k][2]
    /\ p[1] = "ring" => C[p][k][1] = p[2]

(* What has been written is in the queues unless its ring is full. *)
Kept(C, w) == \A line \in Lines : line[2] <= w[line[1]] =>
    \/ \E p \in Places : \E k \in DOMAIN C[p] : C[p][k] = line
    \/ Len(C[<<"ring", line[1]>>]) = LogLimit

LinesIn(C, w) == Once(C) /\ Numbered(C, w) /\ Kept(C, w)

(* A buffer has the lines of its own plugin; who has lines in hand is      *)
(* emitting them, and an import has one line at most.                      *)
HandsHold ==
    /\ \A i \in DOMAIN plugins : \A k \in DOMAIN plugins[i].logBuf :
         plugins[i].logBuf[k][1] = plugins[i].name
    /\ \A h \in Hooks : hand[h] # <<>> => hook[h].pc = "emit"
    /\ hand[Main] # <<>> => main.at = "emit"
    /\ main.at = "register" => Len(main.plugin.logBuf) <= 1
    /\ main.at \in {"emit", "append"} => main.plugin.logBuf = <<>>
    /\ phase = "down" => \A a \in Actors : hand[a] = <<>>

LinesHold == LinesIn(Queues, written) /\ HandsHold

(* A place and the two that it may be told from. *)
LEMMA PlaceFacts ==
    /\ \A i \in Nat \ {0} : <<"buf", i>> \in Places
    /\ \A a \in Actors : <<"hand", a>> \in Places
    /\ \A n \in Names : <<"ring", n>> \in Places
    /\ <<"import", Main>> \in Places
    /\ \A p \in Places : /\ p = <<p[1], p[2]>>
                         /\ p[1] \in {"buf", "hand", "import", "ring"}
                         /\ p[1] = "buf" => p[2] \in Nat \ {0}
                         /\ p[1] = "hand" => p[2] \in Actors
                         /\ p[1] = "import" => p[2] = Main
                         /\ p[1] = "ring" => p[2] \in Names
  BY DEF Places

(* The positions of a queue. *)
LEMMA QueueFacts ==
    ASSUME NEW C \in [Places -> Seq(Lines)], NEW p \in Places
    PROVE  /\ C[p] \in Seq(Lines) /\ Len(C[p]) \in Nat /\ DOMAIN C[p] = 1 .. Len(C[p])
           /\ \A k \in DOMAIN C[p] : /\ C[p][k] \in Lines /\ C[p][k][1] \in Names
                                     /\ C[p][k][2] \in 1 .. MaxLines
  <1>1. C[p] \in Seq(Lines)
    OBVIOUS
  <1>2. Len(C[p]) \in Nat /\ DOMAIN C[p] = 1 .. Len(C[p])
    BY <1>1
  <1>3. \A k \in DOMAIN C[p] : C[p][k] \in Lines
    BY <1>1, <1>2, ElementOfSeq
  <1> QED
    BY <1>1, <1>2, <1>3 DEF Lines

LEMMA AppendedAt ==
    ASSUME NEW S, NEW s \in Seq(S), NEW x \in S, NEW t, t = Append(s, x)
    PROVE  /\ t \in Seq(S) /\ Len(t) = Len(s) + 1 /\ t[Len(s) + 1] = x
           /\ \A k \in 1 .. Len(s) : t[k] = s[k]
  BY AppendProperties

(* All lines of one queue go to another one, which was empty: drainLogs. *)
Moved(C, D, p, q) ==
    /\ p \in Places /\ q \in Places /\ p # q /\ p[1] # "ring" /\ q[1] # "ring"
    /\ C[q] = <<>> /\ D[p] = <<>> /\ D[q] = C[p]
    /\ \A r \in Places \ {p, q} : D[r] = C[r]

LEMMA MovedAll ==
    ASSUME NEW C \in [Places -> Seq(Lines)], NEW D \in [Places -> Seq(Lines)], NEW w,
           NEW p, NEW q, Moved(C, D, p, q), LinesIn(C, w)
    PROVE  LinesIn(D, w)
  <1> USE DEF Moved
  <1>1. DOMAIN C[q] = {} /\ DOMAIN D[p] = {}
    OBVIOUS
  <1>2. Once(D)
    <2> SUFFICES ASSUME NEW r \in Places, NEW s \in Places,
                        NEW j \in DOMAIN D[r], NEW k \in DOMAIN D[s], D[r][j] = D[s][k]
                 PROVE  r = s /\ j = k
      BY DEF Once
    <2>1. r # p /\ s # p
      BY <1>1
    <2>2. \A t, u \in Places : \A i \in DOMAIN C[t], l \in DOMAIN C[u] :
             C[t][i] = C[u][l] => t = u /\ i = l
      BY DEF LinesIn, Once
    <2>3. CASE r = q /\ s = q
      BY <2>2, <2>3
    <2>4. CASE r = q /\ s # q
      <3>1. D[r] = C[p] /\ D[s] = C[s]
        BY <2>1, <2>4
      <3> QED
        BY <2>1, <2>2, <3>1
    <2>5. CASE r # q /\ s = q
      <3>1. D[s] = C[p] /\ D[r] = C[r]
        BY <2>1, <2>5
      <3> QED
        BY <2>1, <2>2, <3>1
    <2>6. CASE r # q /\ s # q
      <3>1. D[s] = C[s] /\ D[r] = C[r]
        BY <2>1, <2>6
      <3> QED
        BY <2>2, <3>1
    <2> QED
      BY <2>3, <2>4, <2>5, <2>6
  <1>3. Numbered(D, w)
    BY <1>1 DEF LinesIn, Numbered
  <1>4. Kept(D, w)
    <2> SUFFICES ASSUME NEW line \in Lines, line[2] <= w[line[1]],
                        Len(D[<<"ring", line[1]>>]) # LogLimit
                 PROVE  \E r \in Places : \E k \in DOMAIN D[r] : D[r][k] = line
      BY DEF Kept
    <2>1. <<"ring", line[1]>> \in Places /\ <<"ring", line[1]>> \notin {p, q}
      BY PlaceFacts DEF Lines
    <2>2. Len(C[<<"ring", line[1]>>]) # LogLimit
      BY <2>1
    <2>3. PICK r \in Places : \E k \in DOMAIN C[r] : C[r][k] = line
      BY <2>2 DEF LinesIn, Kept
    <2>4. r # q
      BY <1>1, <2>3
    <2>5. CASE r = p
      BY <2>3, <2>5
    <2>6. CASE r # p
      BY <2>3, <2>4, <2>6
    <2> QED
      BY <2>5, <2>6
  <1> QED
    BY <1>2, <1>3, <1>4 DEF LinesIn

(* A plugin writes its next line: the log function of the sandbox. *)
AddedLine(C, D, w, v, p, n) ==
    /\ p \in Places /\ p[1] # "ring" /\ n \in Names
    /\ w[n] < MaxLines /\ v = [w EXCEPT ![n] = w[n] + 1]
    /\ \A k \in DOMAIN C[p] : C[p][k][1] = n
    /\ D[p] = Append(C[p], <<n, w[n] + 1>>)
    /\ \A r \in Places \ {p} : D[r] = C[r]

LEMMA LineAdded ==
    ASSUME NEW C \in [Places -> Seq(Lines)], NEW D \in [Places -> Seq(Lines)],
           NEW w \in [Names -> 0 .. MaxLines], NEW v, NEW p, NEW n,
           AddedLine(C, D, w, v, p, n), PluginAssumption, LinesIn(C, w)
    PROVE  LinesIn(D, v)
  <1> USE DEF AddedLine
  <1> DEFINE new == <<n, w[n] + 1>>
             len == Len(C[p])
  <1>0. w[n] \in Nat /\ MaxLines \in Nat
    BY DEF PluginAssumption
  <1>1. new \in Lines /\ new[1] = n /\ new[2] = w[n] + 1
    BY <1>0 DEF Lines
  <1> HIDE DEF new
  <1>2. D[p] = Append(C[p], new)
    BY DEF new
  <1>3. /\ C[p] \in Seq(Lines) /\ len \in Nat /\ DOMAIN C[p] = 1 .. len
        /\ \A r \in Places : \A k \in DOMAIN C[r] :
             C[r][k] \in Lines /\ C[r][k][1] \in Names /\ C[r][k][2] \in 1 .. MaxLines
    BY QueueFacts
  <1>4. /\ Len(D[p]) = len + 1 /\ \A k \in 1 .. len : D[p][k] = C[p][k]
        /\ D[p][len + 1] = new /\ DOMAIN D[p] = 1 .. len + 1
    <2>1. /\ Len(D[p]) = len + 1 /\ \A k \in 1 .. len : D[p][k] = C[p][k]
          /\ D[p][len + 1] = new
      <3> DEFINE old == C[p]
                 now == D[p]
      <3>1. old \in Seq(Lines) /\ now = Append(old, new)
        BY <1>2
      <3> HIDE DEF old, now
      <3>2. /\ Len(now) = Len(old) + 1 /\ now[Len(old) + 1] = new
            /\ \A k \in 1 .. Len(old) : now[k] = old[k]
        BY <3>1, <1>1, AppendedAt
      <3> QED
        BY <3>2 DEF old, now
    <2>2. DOMAIN D[p] = 1 .. Len(D[p])
      BY QueueFacts
    <2> QED
      BY <2>1, <2>2
  <1> HIDE DEF len
  <1>5. v[n] = w[n] + 1 /\ \A m \in Names \ {n} : v[m] = w[m]
    OBVIOUS
  <1>6. \A r \in Places : \A k \in DOMAIN C[r] : C[r][k] # new /\ C[r][k][2] <= v[C[r][k][1]]
    <2> SUFFICES ASSUME NEW r \in Places, NEW k \in DOMAIN C[r]
                 PROVE  C[r][k] # new /\ C[r][k][2] <= v[C[r][k][1]]
      OBVIOUS
    <2>1. C[r][k][2] <= w[C[r][k][1]] /\ C[r][k][1] \in Names /\ C[r][k][2] \in 1 .. MaxLines
      BY <1>3 DEF LinesIn, Numbered
    <2>2. CASE C[r][k][1] = n
      BY <2>1, <2>2, <1>0, <1>1, <1>5
    <2>3. CASE C[r][k][1] # n
      BY <2>1, <2>3, <1>1, <1>5
    <2> QED
      BY <2>2, <2>3
  <1>7. ASSUME NEW r \in Places, NEW k \in DOMAIN D[r]
        PROVE  \/ k \in DOMAIN C[r] /\ D[r][k] = C[r][k]
               \/ r = p /\ k = len + 1 /\ D[r][k] = new
    <2>1. CASE r # p
      BY <2>1
    <2>2. CASE r = p
      <3>1. k \in 1 .. len \/ k = len + 1
        BY <2>2, <1>3, <1>4
      <3> QED
        BY <2>2, <3>1, <1>3, <1>4
    <2> QED
      BY <2>1, <2>2
  <1>8. Once(D)
    <2> SUFFICES ASSUME NEW r \in Places, NEW s \in Places,
                        NEW j \in DOMAIN D[r], NEW k \in DOMAIN D[s], D[r][j] = D[s][k]
                 PROVE  r = s /\ j = k
      BY DEF Once
    <2> QED
      BY <1>6, <1>7 DEF LinesIn, Once
  <1>9. Numbered(D, v)
    <2> SUFFICES ASSUME NEW r \in Places, NEW k \in DOMAIN D[r]
                 PROVE  /\ D[r][k][2] <= v[D[r][k][1]]
                        /\ r[1] # "ring" => k <= D[r][k][2]
                        /\ r[1] = "ring" => D[r][k][1] = r[2]
      BY DEF Numbered
    <2>1. CASE k \in DOMAIN C[r] /\ D[r][k] = C[r][k]
      BY <2>1, <1>6 DEF LinesIn, Numbered
    <2>2. CASE r = p /\ k = len + 1 /\ D[r][k] = new
      <3>1. len <= w[n]
        <4>1. CASE len = 0
          BY <4>1, <1>0
        <4>2. CASE len # 0
          <5>1. len \in DOMAIN C[p]
            BY <4>2, <1>3
          <5>2. len <= C[p][len][2] /\ C[p][len][2] <= w[C[p][len][1]] /\ C[p][len][1] = n
            BY <5>1 DEF LinesIn, Numbered
          <5>3. C[p][len][2] \in Nat
            BY <5>1, <1>3
          <5> QED
            BY <5>2, <5>3, <1>0, <1>3
        <4> QED
          BY <4>1, <4>2
      <3> QED
        BY <2>2, <3>1, <1>0, <1>1, <1>3, <1>5
    <2> QED
      BY <1>7, <2>1, <2>2
  <1>10. Kept(D, v)
    <2> SUFFICES ASSUME NEW line \in Lines, line[2] <= v[line[1]],
                        Len(D[<<"ring", line[1]>>]) # LogLimit
                 PROVE  \E r \in Places : \E k \in DOMAIN D[r] : D[r][k] = line
      BY DEF Kept
    <2>1. line[1] \in Names /\ line[2] \in 1 .. MaxLines /\ line = <<line[1], line[2]>>
      BY DEF Lines
    <2>2. <<"ring", line[1]>> \in Places \ {p}
      BY <2>1, PlaceFacts
    <2>3. CASE line = new
      <3>1. len + 1 \in DOMAIN D[p] /\ D[p][len + 1] = line
        BY <2>3, <1>3, <1>4
      <3> QED
        BY <3>1
    <2>4. CASE line # new
      <3>1. line[2] <= w[line[1]]
        <4>1. CASE line[1] = n
          <5>1. line[2] # w[n] + 1
            BY <4>1, <2>1, <2>4 DEF new
          <5> QED
            BY <4>1, <5>1, <2>1, <1>0, <1>5
        <4>2. CASE line[1] # n
          BY <4>2, <2>1, <1>5
        <4> QED
          BY <4>1, <4>2
      <3>2. Len(C[<<"ring", line[1]>>]) # LogLimit
        BY <2>2
      <3>3. PICK r \in Places : \E k \in DOMAIN C[r] : C[r][k] = line
        BY <3>1, <3>2 DEF LinesIn, Kept
      <3>4. \A k \in DOMAIN C[r] : k \in DOMAIN D[r] /\ D[r][k] = C[r][k]
        <4>1. 1 .. len \subseteq 1 .. len + 1
          BY <1>3
        <4>2. CASE r = p
          BY <4>1, <4>2, <1>3, <1>4
        <4>3. CASE r # p
          BY <4>3
        <4> QED
          BY <4>2, <4>3
      <3> QED
        BY <3>3, <3>4
    <2> QED
      BY <2>3, <2>4
  <1> QED
    BY <1>8, <1>9, <1>10 DEF LinesIn

LEMMA NumberFacts ==
    /\ \A i, j, k \in Nat : i + k = j + k => i = j
    /\ PluginAssumption => \A i \in 1 .. MaxLines : i \in Nat
  BY DEF PluginAssumption

(* A ring with one more line, which drops its first one when it is full. *)
LEMMA RingAdded ==
    ASSUME NEW S, NEW s \in Seq(S), NEW x \in S, NEW limit \in Nat \ {0}, Len(s) <= limit, NEW t,
           t = IF Len(Append(s, x)) > limit THEN Tail(Append(s, x)) ELSE Append(s, x)
    PROVE  /\ t \in Seq(S)
           /\ \E d \in {0, 1} : /\ d <= Len(s) /\ Len(t) = Len(s) + 1 - d /\ t[Len(t)] = x
                                /\ \A k \in 1 .. Len(t) - 1 : t[k] = s[k + d]
                                /\ Len(t) <= limit /\ (d = 1 => Len(t) = limit)
  <1> DEFINE a == Append(s, x)
  <1>1. /\ a \in Seq(S) /\ Len(a) = Len(s) + 1 /\ a[Len(s) + 1] = x
        /\ \A k \in 1 .. Len(s) : a[k] = s[k]
        /\ Len(s) \in Nat
    BY AppendedAt, LenProperties
  <1>2. t = IF Len(a) > limit THEN Tail(a) ELSE a
    OBVIOUS
  <1> HIDE DEF a
  <1>3. CASE Len(a) > limit
    <2>1. t = Tail(a) /\ a # <<>> /\ Len(s) = limit
      BY <1>1, <1>2, <1>3
    <2>2. /\ t \in Seq(S) /\ Len(t) = Len(a) - 1
          /\ \A k \in 1 .. Len(t) : t[k] = a[k + 1]
      BY <1>1, <2>1, HeadTailProperties
    <2>3. t[Len(t)] = x /\ \A k \in 1 .. Len(t) - 1 : t[k] = s[k + 1]
      BY <1>1, <2>1, <2>2
    <2>4. 1 <= Len(s) /\ Len(t) = Len(s) + 1 - 1 /\ Len(t) = limit
      BY <1>1, <2>1, <2>2
    <2> QED
      BY <2>2, <2>3, <2>4
  <1>4. CASE ~(Len(a) > limit)
    <2>1. t = a
      BY <1>2, <1>4
    <2>2. t[Len(t)] = x /\ \A k \in 1 .. Len(t) - 1 : t[k] = s[k + 0]
      BY <1>1, <2>1
    <2>3. 0 <= Len(s) /\ Len(t) = Len(s) + 1 - 0
      BY <1>1, <2>1
    <2> QED
      BY <1>1, <2>1, <2>2, <2>3
  <1> QED
    BY <1>3, <1>4

(* The first line of a queue goes to the end of its ring, whose first line *)
(* it may push out: ObservePluginLog.                                      *)
StoredLine(C, D, p, q, x, d) ==
    /\ p \in Places /\ q \in Places /\ x \in Lines /\ d \in {0, 1}
    /\ p[1] # "ring" /\ q = <<"ring", x[1]>>
    /\ Len(C[p]) # 0 /\ C[p][1] = x /\ Len(D[p]) = Len(C[p]) - 1
    /\ \A k \in 1 .. Len(D[p]) : D[p][k] = C[p][k + 1]
    /\ d <= Len(C[q]) /\ Len(D[q]) = Len(C[q]) + 1 - d /\ D[q][Len(D[q])] = x
    /\ \A k \in 1 .. Len(D[q]) - 1 : D[q][k] = C[q][k + d]
    /\ Len(D[q]) <= LogLimit /\ (d = 1 => Len(D[q]) = LogLimit)
    /\ \A r \in Places \ {p, q} : D[r] = C[r]

LEMMA LineStored ==
    ASSUME NEW C \in [Places -> Seq(Lines)], NEW D \in [Places -> Seq(Lines)], NEW w,
           NEW p, NEW q, NEW x, NEW d, StoredLine(C, D, p, q, x, d), PluginAssumption, LinesIn(C, w)
    PROVE  LinesIn(D, w)
  <1> USE DEF StoredLine
  <1>2. q[1] = "ring" /\ q[2] = x[1] /\ q # p
    OBVIOUS
  <1>4. \A r \in Places : /\ Len(C[r]) \in Nat /\ DOMAIN C[r] = 1 .. Len(C[r])
                          /\ Len(D[r]) \in Nat /\ DOMAIN D[r] = 1 .. Len(D[r])
    BY QueueFacts
  <1>5. 1 \in DOMAIN C[p] /\ C[p][1] = x
    BY <1>4
  <1>6. ASSUME NEW k \in DOMAIN D[p]
        PROVE  k + 1 \in DOMAIN C[p] /\ k + 1 # 1 /\ D[p][k] = C[p][k + 1]
    BY <1>4
  <1>7. ASSUME NEW k \in DOMAIN D[q]
        PROVE  \/ k = Len(D[q]) /\ D[q][k] = x
               \/ k # Len(D[q]) /\ k + d \in DOMAIN C[q] /\ D[q][k] = C[q][k + d]
    <2>1. k \in 1 .. Len(D[q]) /\ Len(D[q]) \in Nat /\ Len(C[q]) \in Nat
      BY <1>4
    <2>2. CASE k = Len(D[q])
      BY <2>2
    <2>3. CASE k # Len(D[q])
      <3>1. k \in 1 .. Len(D[q]) - 1
        BY <2>1, <2>3
      <3>2. k + d \in 1 .. Len(C[q])
        <4>1. CASE d = 0
          BY <2>1, <3>1, <4>1
        <4>2. CASE d = 1
          BY <2>1, <3>1, <4>2
        <4> QED
          BY <4>1, <4>2
      <3> QED
        BY <2>3, <3>1, <3>2, <1>4
    <2> QED
      BY <2>2, <2>3
  <1>8. \A r, s \in Places : \A j \in DOMAIN C[r], k \in DOMAIN C[s] :
           C[r][j] = C[s][k] => r = s /\ j = k
    BY DEF LinesIn, Once
  (* Where a line was before the step. *)
  <1>9. ASSUME NEW r \in Places, NEW k \in DOMAIN D[r]
        PROVE  \E s \in Places, j \in Nat :
                 /\ j \in DOMAIN C[s] /\ C[s][j] = D[r][k]
                 /\ \/ r = p /\ s = p /\ j = k + 1
                    \/ r = q /\ s = q /\ j = k + d /\ k # Len(D[q])
                    \/ r = q /\ s = p /\ j = 1 /\ k = Len(D[q])
                    \/ r \notin {p, q} /\ s = r /\ j = k
    <2>0. \A s \in Places : \A j \in DOMAIN C[s] : j \in Nat
      BY <1>4
    <2>1. CASE r = p
      BY <2>0, <2>1, <1>6
    <2>2. CASE r = q
      BY <2>0, <2>2, <1>5, <1>7
    <2>3. CASE r \notin {p, q}
      BY <2>0, <2>3
    <2> QED
      BY <2>1, <2>2, <2>3
  <1>10. Once(D)
    <2> SUFFICES ASSUME NEW r \in Places, NEW s \in Places,
                        NEW j \in DOMAIN D[r], NEW k \in DOMAIN D[s], D[r][j] = D[s][k]
                 PROVE  r = s /\ j = k
      BY DEF Once
    <2>1. j \in Nat /\ k \in Nat /\ d \in Nat
      BY <1>4
    <2>2. PICK a \in Places, i \in Nat :
             /\ i \in DOMAIN C[a] /\ C[a][i] = D[r][j]
             /\ \/ r = p /\ a = p /\ i = j + 1
                \/ r = q /\ a = q /\ i = j + d /\ j # Len(D[q])
                \/ r = q /\ a = p /\ i = 1 /\ j = Len(D[q])
                \/ r \notin {p, q} /\ a = r /\ i = j
      BY <1>9
    <2>3. PICK b \in Places, l \in Nat :
             /\ l \in DOMAIN C[b] /\ C[b][l] = D[s][k]
             /\ \/ s = p /\ b = p /\ l = k + 1
                \/ s = q /\ b = q /\ l = k + d /\ k # Len(D[q])
                \/ s = q /\ b = p /\ l = 1 /\ k = Len(D[q])
                \/ s \notin {p, q} /\ b = s /\ l = k
      BY <1>9
    <2>4. a = b /\ i = l
      BY <2>2, <2>3, <1>8
    <2>5. r = s
      <3>1. \A m \in DOMAIN D[p] : m + 1 # 1
        BY <1>4
      <3>2. CASE r = p
        <4>1. a = p /\ i = j + 1 /\ i # 1
          BY <3>1, <3>2, <2>2, <1>2
        <4> QED
          BY <4>1, <3>2, <2>3, <2>4, <1>2
      <3>3. CASE s = p
        <4>1. b = p /\ l = k + 1 /\ l # 1
          BY <3>1, <3>3, <2>3, <1>2
        <4> QED
          BY <4>1, <3>3, <2>2, <2>4, <1>2
      <3>4. CASE r # p /\ s # p
        BY <3>4, <2>2, <2>3, <2>4
      <3> QED
        BY <3>2, <3>3, <3>4
    <2>6. CASE r = p
      BY <2>1, <2>2, <2>3, <2>4, <2>5, <2>6, <1>2
    <2>7. CASE r = q
      <3>1. (i = 1 /\ a = p /\ j = Len(D[q])) \/ (a = q /\ i = j + d)
        BY <2>2, <2>7, <1>2
      <3>2. (l = 1 /\ b = p /\ k = Len(D[q])) \/ (b = q /\ l = k + d)
        BY <2>3, <2>5, <2>7, <1>2
      <3>3. (j = Len(D[q]) /\ k = Len(D[q])) \/ j + d = k + d
        BY <3>1, <3>2, <2>4, <1>2
      <3> QED
        BY <3>3, <2>1, <2>5, NumberFacts
    <2>8. CASE r \notin {p, q}
      BY <2>2, <2>3, <2>4, <2>5, <2>8
    <2> QED
      BY <2>6, <2>7, <2>8
  <1>11. Numbered(D, w)
    <2> SUFFICES ASSUME NEW r \in Places, NEW k \in DOMAIN D[r]
                 PROVE  /\ D[r][k][2] <= w[D[r][k][1]]
                        /\ r[1] # "ring" => k <= D[r][k][2]
                        /\ r[1] = "ring" => D[r][k][1] = r[2]
      BY DEF Numbered
    <2>1. PICK s \in Places, j \in Nat :
             /\ j \in DOMAIN C[s] /\ C[s][j] = D[r][k]
             /\ \/ r = p /\ s = p /\ j = k + 1
                \/ r = q /\ s = q /\ j = k + d /\ k # Len(D[q])
                \/ r = q /\ s = p /\ j = 1 /\ k = Len(D[q])
                \/ r \notin {p, q} /\ s = r /\ j = k
      BY <1>9
    <2>2. /\ C[s][j][2] <= w[C[s][j][1]]
          /\ s[1] # "ring" => j <= C[s][j][2]
          /\ s[1] = "ring" => C[s][j][1] = s[2]
      BY <2>1 DEF LinesIn, Numbered
    <2>3. r[1] # "ring" => k <= D[r][k][2]
      <3>1. k \in Nat /\ C[s][j][2] \in Nat
        <4>1. k \in Nat
          BY <1>4
        <4>2. C[s][j][2] \in 1 .. MaxLines
          BY <2>1, QueueFacts
        <4> QED
          BY <4>1, <4>2, NumberFacts
      <3>2. r[1] # "ring" => s = r /\ (j = k + 1 \/ j = k)
        BY <2>1, <1>2
      <3> QED
        BY <2>1, <2>2, <3>1, <3>2
    <2>4. r[1] = "ring" => D[r][k][1] = r[2]
      <3>1. CASE r = q /\ s = p
        BY <3>1, <2>1, <1>2, <1>5
      <3>2. CASE s = r
        BY <3>2, <2>1, <2>2
      <3> QED
        BY <3>1, <3>2, <2>1
    <2> QED
      BY <2>1, <2>2, <2>3, <2>4
  <1>12. Kept(D, w)
    <2> SUFFICES ASSUME NEW line \in Lines, line[2] <= w[line[1]],
                        Len(D[<<"ring", line[1]>>]) # LogLimit
                 PROVE  \E r \in Places : \E k \in DOMAIN D[r] : D[r][k] = line
      BY DEF Kept
    <2> DEFINE ring == <<"ring", line[1]>>
    <2>1. ring \in Places /\ ring # p
      BY PlaceFacts DEF Lines
    <2>2. line = x => Len(D[q]) \in DOMAIN D[q] /\ D[q][Len(D[q])] = line
      <3>1. Len(C[q]) \in Nat /\ Len(D[q]) \in Nat /\ DOMAIN D[q] = 1 .. Len(D[q])
        BY <1>4
      <3>2. Len(D[q]) \in 1 .. Len(D[q])
        <4>1. CASE d = 0
          BY <3>1, <4>1
        <4>2. CASE d = 1
          BY <3>1, <4>2
        <4> QED
          BY <4>1, <4>2
      <3> QED
        BY <3>1, <3>2
    <2>3. CASE line # x
      <3>1. Len(C[ring]) # LogLimit
        <4>1. CASE ring = q
          <5>1. Len(D[q]) # LogLimit /\ d = 0
            BY <4>1
          <5>2. Len(C[q]) \in Nat /\ LogLimit \in Nat
            BY <1>4 DEF PluginAssumption
          <5>3. Len(D[q]) = Len(C[q]) + 1 - 0 /\ Len(D[q]) <= LogLimit
            BY <5>1
          <5>4. Len(C[q]) # LogLimit
            BY <5>2, <5>3
          <5> QED
            BY <4>1, <5>4
        <4>2. CASE ring # q
          BY <4>2, <2>1
        <4> QED
          BY <4>1, <4>2
      <3>2. PICK s \in Places : \E j \in DOMAIN C[s] : C[s][j] = line
        BY <3>1 DEF LinesIn, Kept
      <3>3. PICK j \in DOMAIN C[s] : C[s][j] = line
        BY <3>2
      <3>4. CASE s = p
        <4>1. j - 1 \in DOMAIN D[p] /\ D[p][j - 1] = line
          <5>1. j \in 1 .. Len(C[p]) /\ j # 1
            BY <3>3, <3>4, <2>3, <1>4, <1>5
          <5>2. j - 1 \in 1 .. Len(D[p]) /\ (j - 1) + 1 = j
            <6>1. Len(C[p]) \in Nat
              BY <1>4
            <6> QED
              BY <5>1, <6>1
          <5> QED
            BY <5>2, <3>3, <3>4, <1>4
        <4> QED
          BY <4>1
      <3>5. CASE s = q
        <4>1. s[1] = "ring" /\ line[1] = s[2]
          BY <3>3, <3>5, <1>2 DEF LinesIn, Numbered
        <4>2. ring = q
          BY <4>1, <3>5, <1>2
        <4>3. d = 0
          BY <4>2
        <4>4. j \in 1 .. Len(D[q]) - 1 /\ j \in DOMAIN D[q] /\ j + d = j
          <5>1. /\ Len(C[q]) \in Nat /\ Len(D[q]) \in Nat /\ DOMAIN D[q] = 1 .. Len(D[q])
                /\ j \in 1 .. Len(C[q])
            BY <3>5, <1>4
          <5> QED
            BY <5>1, <4>3
        <4>5. D[q][j] = line
          BY <3>3, <3>5, <4>4
        <4> QED
          BY <4>4, <4>5
      <3>6. CASE s \notin {p, q}
        BY <3>3, <3>6
      <3> QED
        BY <3>4, <3>5, <3>6
    <2> QED
      BY <2>2, <2>3
  <1> QED
    BY <1>10, <1>11, <1>12 DEF LinesIn

(* What waits where, without the definition of Waiting. *)
WaitsAt(C, list, hands, under, rings) ==
    /\ C \in [Places -> Seq(Lines)]
    /\ \A i \in Nat \ {0} : /\ i \in DOMAIN list => C[<<"buf", i>>] = list[i].logBuf
                            /\ i \notin DOMAIN list => C[<<"buf", i>>] = <<>>
    /\ \A a \in Actors : C[<<"hand", a>>] = hands[a]
    /\ under.at = "register" => C[<<"import", Main>>] = under.plugin.logBuf
    /\ under.at # "register" => C[<<"import", Main>>] = <<>>
    /\ \A n \in Names : C[<<"ring", n>>] = rings[n]

LEMMA WaitingType ==
    ASSUME NEW list \in Seq(Plugins), NEW hands \in [Actors -> Seq(Lines)], NEW under,
           under.at = "register" => under.plugin \in Plugins,
           NEW rings \in [Names -> Seq(Lines)]
    PROVE  WaitsAt(Waiting(list, hands, under, rings), list, hands, under, rings)
  <1> DEFINE C == Waiting(list, hands, under, rings)
  <1>0. <<>> \in Seq(Lines)
    OBVIOUS
  <1>1. ASSUME NEW i \in Nat \ {0}
        PROVE  /\ C[<<"buf", i>>] \in Seq(Lines)
               /\ i \in DOMAIN list => C[<<"buf", i>>] = list[i].logBuf
               /\ i \notin DOMAIN list => C[<<"buf", i>>] = <<>>
    <2>1. C[<<"buf", i>>] = IF i \in DOMAIN list THEN list[i].logBuf ELSE <<>>
      BY PlaceFacts DEF Waiting
    <2>2. i \in DOMAIN list => list[i].logBuf \in Seq(Lines)
      <3>1. i \in DOMAIN list => list[i] \in Plugins
        OBVIOUS
      <3> QED
        BY <3>1 DEF Plugins
    <2> QED
      BY <1>0, <2>1, <2>2
  <1>2. ASSUME NEW a \in Actors
        PROVE  C[<<"hand", a>>] = hands[a] /\ C[<<"hand", a>>] \in Seq(Lines)
    BY PlaceFacts DEF Waiting
  <1>3. /\ C[<<"import", Main>>] \in Seq(Lines)
        /\ under.at = "register" => C[<<"import", Main>>] = under.plugin.logBuf
        /\ under.at # "register" => C[<<"import", Main>>] = <<>>
    <2>1. C[<<"import", Main>>] = IF under.at = "register" THEN under.plugin.logBuf ELSE <<>>
      BY PlaceFacts DEF Waiting
    <2>2. under.at = "register" => under.plugin.logBuf \in Seq(Lines)
      BY DEF Plugins
    <2> QED
      BY <1>0, <2>1, <2>2
  <1>4. ASSUME NEW n \in Names
        PROVE  C[<<"ring", n>>] = rings[n] /\ C[<<"ring", n>>] \in Seq(Lines)
    BY PlaceFacts DEF Waiting
  <1>6. C \in [Places -> Seq(Lines)]
    <2> DEFINE at(p) == CASE p[1] = "buf"    -> IF p[2] \in DOMAIN list THEN list[p[2]].logBuf ELSE <<>>
                          [] p[1] = "hand"   -> hands[p[2]]
                          [] p[1] = "import" -> IF under.at = "register" THEN under.plugin.logBuf ELSE <<>>
                          [] p[1] = "ring"   -> rings[p[2]]
    <2>1. C = [p \in Places |-> at(p)]
      BY Zenon DEF Waiting
    <2> HIDE DEF C, at
    <2>2. \A p \in Places : C[p] \in Seq(Lines)
      <3> SUFFICES ASSUME NEW p \in Places
                   PROVE  C[p] \in Seq(Lines)
        OBVIOUS
      <3>1. /\ p = <<p[1], p[2]>> /\ p[1] \in {"buf", "hand", "import", "ring"}
            /\ p[1] = "buf" => p[2] \in Nat \ {0}
            /\ p[1] = "hand" => p[2] \in Actors
            /\ p[1] = "import" => p[2] = Main
            /\ p[1] = "ring" => p[2] \in Names
        BY PlaceFacts
      <3>2. CASE p[1] = "buf"
        <4>1. p = <<"buf", p[2]>> /\ p[2] \in Nat \ {0}
          BY <3>1, <3>2
        <4>2. C[<<"buf", p[2]>>] \in Seq(Lines)
          BY <4>1, <1>1
        <4> QED
          BY <4>1, <4>2
      <3>3. CASE p[1] = "hand"
        <4>1. p = <<"hand", p[2]>> /\ p[2] \in Actors
          BY <3>1, <3>3
        <4>2. C[<<"hand", p[2]>>] \in Seq(Lines)
          BY <4>1, <1>2
        <4> QED
          BY <4>1, <4>2
      <3>4. CASE p[1] = "import"
        <4>1. p = <<"import", Main>>
          BY <3>1, <3>4
        <4> QED
          BY <4>1, <1>3
      <3>5. CASE p[1] = "ring"
        <4>1. p = <<"ring", p[2]>> /\ p[2] \in Names
          BY <3>1, <3>5
        <4>2. C[<<"ring", p[2]>>] \in Seq(Lines)
          BY <4>1, <1>4
        <4> QED
          BY <4>1, <4>2
      <3> QED
        BY <3>1, <3>2, <3>3, <3>4, <3>5
    <2> QED
      BY <2>1, <2>2
  <1> HIDE DEF C
  <1>7. WaitsAt(C, list, hands, under, rings)
    BY <1>1, <1>2, <1>3, <1>4, <1>6 DEF WaitsAt
  <1> QED
    BY <1>7 DEF C

LEMMA QueuesType ==
    ASSUME TypeOK, TypeOK'
    PROVE  /\ WaitsAt(Queues, plugins, hand, main, pluginLogs)
           /\ WaitsAt(Queues', plugins', hand', main', pluginLogs')
  <1>1. main.at = "register" => main.plugin \in Plugins
    BY MainCases
  <1>2. main'.at = "register" => main'.plugin \in Plugins
    BY DEF TypeOK, Idle
  <1>3. WaitsAt(Queues, plugins, hand, main, pluginLogs)
    <2>1. plugins \in Seq(Plugins) /\ hand \in [Actors -> Seq(Lines)] /\ pluginLogs \in [Names -> Seq(Lines)]
      BY DEF TypeOK
    <2> QED
      BY <1>1, <2>1, WaitingType DEF Queues
  <1>4. WaitsAt(Queues', plugins', hand', main', pluginLogs')
    <2>1. plugins' \in Seq(Plugins) /\ hand' \in [Actors -> Seq(Lines)] /\ pluginLogs' \in [Names -> Seq(Lines)]
      BY DEF TypeOK
    <2> QED
      BY <1>2, <2>1, WaitingType DEF Queues
  <1> QED
    BY <1>3, <1>4

(* What a step leaves where it is: all but the buffers B, the hands A, the *)
(* import I and the rings N.                                               *)
SameBut(C, D, B, A, I, N) == \A r \in Places :
    /\ r[1] = "buf" => r[2] \notin B
    /\ r[1] = "hand" => r[2] \notin A
    /\ r[1] = "import" => r[2] \notin I
    /\ r[1] = "ring" => r[2] \notin N
    => D[r] = C[r]

LEMMA SamePlaces ==
    ASSUME NEW C, NEW D, NEW list, NEW hands, NEW under, NEW rings,
           NEW list2, NEW hands2, NEW under2, NEW rings2,
           WaitsAt(C, list, hands, under, rings), WaitsAt(D, list2, hands2, under2, rings2),
           NEW B, NEW A, NEW I, NEW N,
           DOMAIN list2 = DOMAIN list, \A i \in DOMAIN list \ B : list2[i].logBuf = list[i].logBuf,
           \A a \in Actors \ A : hands2[a] = hands[a],
           Main \in I \/ under2 = under \/ (under.at # "register" /\ under2.at # "register"),
           \A n \in Names \ N : rings2[n] = rings[n]
    PROVE  SameBut(C, D, B, A, I, N)
  <1> SUFFICES ASSUME NEW r \in Places,
                      r[1] = "buf" => r[2] \notin B, r[1] = "hand" => r[2] \notin A,
                      r[1] = "import" => r[2] \notin I, r[1] = "ring" => r[2] \notin N
               PROVE  D[r] = C[r]
    BY DEF SameBut
  <1>1. /\ r = <<r[1], r[2]>> /\ r[1] \in {"buf", "hand", "import", "ring"}
        /\ r[1] = "buf" => r[2] \in Nat \ {0}
        /\ r[1] = "hand" => r[2] \in Actors
        /\ r[1] = "import" => r[2] = Main
        /\ r[1] = "ring" => r[2] \in Names
    BY PlaceFacts
  <1>2. CASE r[1] = "buf"
    <2> DEFINE i == r[2]
    <2>1. r = <<"buf", i>> /\ i \in Nat \ {0} /\ i \notin B
      BY <1>1, <1>2
    <2> HIDE DEF i
    <2>2. D[<<"buf", i>>] = C[<<"buf", i>>]
      BY <2>1 DEF WaitsAt
    <2> QED
      BY <2>1, <2>2
  <1>3. CASE r[1] = "hand"
    <2> DEFINE a == r[2]
    <2>1. r = <<"hand", a>> /\ a \in Actors \ A
      BY <1>1, <1>3
    <2> HIDE DEF a
    <2>2. D[<<"hand", a>>] = C[<<"hand", a>>]
      BY <2>1 DEF WaitsAt
    <2> QED
      BY <2>1, <2>2
  <1>4. CASE r[1] = "import"
    <2>1. r = <<"import", Main>> /\ Main \notin I
      BY <1>1, <1>4
    <2>2. D[<<"import", Main>>] = C[<<"import", Main>>]
      BY <2>1 DEF WaitsAt
    <2> QED
      BY <2>1, <2>2
  <1>5. CASE r[1] = "ring"
    <2> DEFINE n == r[2]
    <2>1. r = <<"ring", n>> /\ n \in Names \ N
      BY <1>1, <1>5
    <2> HIDE DEF n
    <2>2. D[<<"ring", n>>] = C[<<"ring", n>>]
      BY <2>1 DEF WaitsAt
    <2> QED
      BY <2>1, <2>2
  <1> QED
    BY <1>1, <1>2, <1>3, <1>4, <1>5

(* The lines of a step of a hook. *)
LEMMA LinesHook ==
    ASSUME PluginAssumption, TypeOK, TypeOK', Bounds, LinesHold, NEW h \in Hooks,
           HookCall(h) \/ HookDrain(h)
    PROVE  LinesIn(Queues', written')
  <1> DEFINE at == hook[h].at
             p  == <<"buf", at>>
  <1>0. /\ hook[h] \in HookStates /\ plugins \in Seq(Plugins) /\ h \in Actors
        /\ Len(plugins) \in Nat /\ DOMAIN plugins = 1 .. Len(plugins)
        /\ written \in [Names -> 0 .. MaxLines] /\ hand \in [Actors -> Seq(Lines)]
    BY DEF TypeOK, Actors
  <1>1. at \in Nat \ {0} /\ at \in DOMAIN plugins
    <2>1. at \in Nat \ {0} /\ hook[h].len \in Nat
      BY <1>0, HookStateUpdates
    <2>2. at <= hook[h].len /\ hook[h].len <= Len(plugins)
      BY DEF Bounds, HookCall, HookDrain
    <2> QED
      BY <1>0, <2>1, <2>2
  <1>2. /\ WaitsAt(Queues, plugins, hand, main, pluginLogs)
        /\ WaitsAt(Queues', plugins', hand', main', pluginLogs')
    BY QueuesType
  <1>3. Queues \in [Places -> Seq(Lines)] /\ Queues' \in [Places -> Seq(Lines)]
    BY <1>2 DEF WaitsAt
  <1>4. LinesIn(Queues, written)
    BY DEF LinesHold
  <1>5. p \in Places /\ p[1] = "buf" /\ Queues[p] = plugins[at].logBuf
    BY <1>1, <1>2, PlaceFacts DEF WaitsAt
  <1>6. plugins[at].name \in Names /\ plugins[at].logBuf \in Seq(Lines) /\ plugins[at] \in Plugins
    BY <1>0, <1>1, LogBufUpdates
  <1> HIDE DEF p
  <1>7. CASE HookCall(h)
    <2> DEFINE n == plugins[at].name
    <2>1. UNCHANGED <<main, pluginLogs, hand>>
      BY <1>7 DEF HookCall
    <2>2. CASE UNCHANGED <<plugins, written>>
      <3>1. Queues' = Queues
        BY <2>1, <2>2 DEF Queues
      <3> QED
        BY <1>4, <2>2, <3>1
    <2>3. CASE /\ written[n] < MaxLines
               /\ written' = [written EXCEPT ![n] = @ + 1]
               /\ plugins' = [plugins EXCEPT ![at].logBuf = Append(@, <<n, written'[n]>>)]
      <3>1. written'[n] = written[n] + 1 /\ written' = [written EXCEPT ![n] = written[n] + 1]
        BY <1>0, <1>6, <2>3
      <3>2. /\ plugins'[at].logBuf = Append(plugins[at].logBuf, <<n, written[n] + 1>>)
            /\ DOMAIN plugins' = DOMAIN plugins
            /\ \A i \in DOMAIN plugins \ {at} : plugins'[i] = plugins[i]
        BY <1>0, <1>1, <1>6, <2>3, <3>1 DEF Plugins
      <3>3. Queues'[p] = Append(Queues[p], <<n, written[n] + 1>>)
        <4>1. Queues'[p] = plugins'[at].logBuf
          BY <1>1, <1>2, <3>2 DEF WaitsAt, p
        <4> QED
          BY <4>1, <3>2, <1>5
      <3>4. \A r \in Places \ {p} : Queues'[r] = Queues[r]
        <4> DEFINE C == Queues
                   D == Queues'
        <4>1. /\ WaitsAt(C, plugins, hand, main, pluginLogs)
              /\ WaitsAt(D, plugins', hand, main, pluginLogs)
          BY <1>2, <2>1
        <4> HIDE DEF C, D
        <4>2. /\ DOMAIN plugins' = DOMAIN plugins
              /\ \A i \in DOMAIN plugins \ {at} : plugins'[i].logBuf = plugins[i].logBuf
          BY <3>2
        <4>3. SameBut(C, D, {at}, {}, {}, {})
          BY <4>1, <4>2, SamePlaces
        <4>4. \A r \in Places \ {p} : r[1] = "buf" => r[2] \notin {at}
          BY PlaceFacts DEF p
        <4> QED
          BY <4>3, <4>4 DEF C, D, SameBut
      <3>5. \A k \in DOMAIN Queues[p] : Queues[p][k][1] = n
        BY <1>1, <1>5 DEF LinesHold, HandsHold
      <3>6. AddedLine(Queues, Queues', written, written', p, n)
        BY <1>5, <1>6, <2>3, <3>1, <3>3, <3>4, <3>5 DEF AddedLine
      <3> HIDE DEF n, at
      <3> QED
        BY <1>0, <1>3, <1>4, <3>6, LineAdded
    <2> QED
      BY <1>7, <2>2, <2>3 DEF HookCall
  <1>8. CASE HookDrain(h)
    <2> DEFINE q == <<"hand", h>>
    <2>1. /\ UNCHANGED <<main, pluginLogs, written>>
          /\ hand' = [hand EXCEPT ![h] = plugins[at].logBuf]
          /\ hook[h].pc = "drain"
      BY <1>8 DEF HookDrain
    <2>2. /\ plugins'[at].logBuf = <<>> /\ DOMAIN plugins' = DOMAIN plugins
          /\ \A i \in DOMAIN plugins \ {at} : plugins'[i] = plugins[i]
      BY <1>0, <1>1, <1>6, <1>8 DEF HookDrain, Plugins
    <2>3. q \in Places /\ q[1] = "hand" /\ Queues[q] = hand[h] /\ Queues'[q] = hand'[h]
      BY <1>0, <1>2, PlaceFacts DEF WaitsAt
    <2>4. Queues[q] = <<>> /\ Queues'[q] = Queues[p]
      <3>1. hand[h] = <<>>
        BY <2>1 DEF LinesHold, HandsHold
      <3>2. hand'[h] = plugins[at].logBuf
        BY <1>0, <2>1
      <3> QED
        BY <3>1, <3>2, <1>5, <2>3
    <2>5. Queues'[p] = <<>>
      BY <1>1, <1>2, <2>2 DEF WaitsAt, p
    <2>6. \A r \in Places \ {p, q} : Queues'[r] = Queues[r]
      <3> DEFINE C == Queues
                 D == Queues'
      <3>1. /\ WaitsAt(C, plugins, hand, main, pluginLogs)
            /\ WaitsAt(D, plugins', hand', main, pluginLogs)
        BY <1>2, <2>1
      <3> HIDE DEF C, D
      <3>2. \A a \in Actors \ {h} : hand'[a] = hand[a]
        BY <1>0, <2>1
      <3>3. SameBut(C, D, {at}, {h}, {}, {})
        BY <2>2, <3>1, <3>2, SamePlaces
      <3>4. \A r \in Places \ {p, q} : /\ r[1] = "buf" => r[2] \notin {at}
                                       /\ r[1] = "hand" => r[2] \notin {h}
        BY PlaceFacts DEF p
      <3> QED
        BY <3>3, <3>4 DEF C, D, SameBut
    <2>7. p # q /\ p[1] # "ring" /\ q[1] # "ring"
      BY <1>5, <2>3
    <2>8. LinesIn(Queues', written)
      <3> DEFINE C == Queues
                 D == Queues'
      <3>1. /\ C \in [Places -> Seq(Lines)] /\ D \in [Places -> Seq(Lines)]
            /\ p \in Places /\ q \in Places /\ C[q] = <<>> /\ D[p] = <<>> /\ D[q] = C[p]
            /\ LinesIn(C, written)
        BY <1>3, <1>4, <1>5, <2>3, <2>4, <2>5
      <3>2. \A r \in Places \ {p, q} : D[r] = C[r]
        BY <2>6
      <3> HIDE DEF q, C, D
      <3>3. LinesIn(D, written)
        <4>1. Moved(C, D, p, q)
          BY <3>1, <3>2, <2>7 DEF Moved
        <4> QED
          BY <3>1, <4>1, MovedAll
      <3> QED
        BY <3>3 DEF D
    <2> QED
      BY <2>1, <2>8
  <1> QED
    BY <1>7, <1>8

(* The lines of an emit. *)
LEMMA LinesEmit ==
    ASSUME PluginAssumption, TypeOK, TypeOK', LinesHold, NEW b \in Actors, Emit(b)
    PROVE  LinesIn(Queues', written')
  <1> DEFINE x == Head(hand[b])
             n == x[1]
             p == <<"hand", b>>
             q == <<"ring", n>>
             old == pluginLogs[n]
             new == pluginLogs'[n]
  <1>1. /\ hand \in [Actors -> Seq(Lines)] /\ hand[b] \in Seq(Lines) /\ hand[b] # <<>>
        /\ pluginLogs \in [Names -> Seq(Lines)]
    BY DEF TypeOK, Emit
  <1>2. /\ x \in Lines /\ Len(hand[b]) \in Nat \ {0} /\ x = hand[b][1] /\ Tail(hand[b]) \in Seq(Lines)
        /\ Len(Tail(hand[b])) = Len(hand[b]) - 1
        /\ \A k \in 1 .. Len(Tail(hand[b])) : Tail(hand[b])[k] = hand[b][k + 1]
    BY <1>1, HeadTailProperties, LenProperties, EmptySeq
  <1>3. n \in Names
    BY <1>2 DEF Lines
  <1>4. /\ UNCHANGED <<plugins, main, written>> /\ hand' = [hand EXCEPT ![b] = Tail(hand[b])]
        /\ pluginLogs' = [pluginLogs EXCEPT ![n] =
              IF Len(Append(old, x)) > LogLimit THEN Tail(Append(old, x)) ELSE Append(old, x)]
    BY DEF Emit
  <1> HIDE DEF x, n
  <1>5. /\ WaitsAt(Queues, plugins, hand, main, pluginLogs)
        /\ WaitsAt(Queues', plugins', hand', main', pluginLogs')
    BY QueuesType
  <1>6. Queues \in [Places -> Seq(Lines)] /\ Queues' \in [Places -> Seq(Lines)]
    BY <1>5 DEF WaitsAt
  <1>7. /\ p \in Places /\ q \in Places /\ p[1] = "hand" /\ q = <<"ring", x[1]>>
        /\ Queues[p] = hand[b] /\ Queues'[p] = hand'[b] /\ Queues[q] = old /\ Queues'[q] = new
    BY <1>3, <1>5, PlaceFacts DEF WaitsAt, n
  <1>8. hand'[b] = Tail(hand[b]) /\ \A a \in Actors \ {b} : hand'[a] = hand[a]
    BY <1>1, <1>4
  <1>9. /\ new = IF Len(Append(old, x)) > LogLimit THEN Tail(Append(old, x)) ELSE Append(old, x)
        /\ \A m \in Names \ {n} : pluginLogs'[m] = pluginLogs[m]
    BY <1>1, <1>3, <1>4
  <1>10. old \in Seq(Lines) /\ Len(old) <= LogLimit
    BY <1>1, <1>3 DEF TypeOK
  <1> HIDE DEF old, new
  <1>11. PICK d \in {0, 1} :
           /\ d <= Len(old) /\ Len(new) = Len(old) + 1 - d /\ new[Len(new)] = x
           /\ \A k \in 1 .. Len(new) - 1 : new[k] = old[k + d]
           /\ Len(new) <= LogLimit /\ (d = 1 => Len(new) = LogLimit)
    <2>1. LogLimit \in Nat \ {0}
      BY DEF PluginAssumption
    <2>2. x \in Lines /\ new = IF Len(Append(old, x)) > LogLimit THEN Tail(Append(old, x))
                               ELSE Append(old, x)
      BY <1>2, <1>9, Zenon
    <2> QED
      BY <1>10, <2>1, <2>2, RingAdded
  <1>12. \A r \in Places \ {p, q} : Queues'[r] = Queues[r]
    <2> DEFINE C == Queues
               D == Queues'
    <2>1. /\ WaitsAt(C, plugins, hand, main, pluginLogs)
          /\ WaitsAt(D, plugins, hand', main, pluginLogs')
      BY <1>4, <1>5
    <2> HIDE DEF C, D
    <2>2. SameBut(C, D, {}, {b}, {}, {n})
      BY <1>8, <1>9, <2>1, SamePlaces
    <2>3. \A r \in Places \ {p, q} : /\ r[1] = "hand" => r[2] \notin {b}
                                     /\ r[1] = "ring" => r[2] \notin {n}
      BY PlaceFacts
    <2> QED
      BY <2>2, <2>3 DEF C, D, SameBut
  <1>13. LinesIn(Queues, written)
    BY DEF LinesHold
  <1>14. /\ Len(Queues[p]) # 0 /\ Queues[p][1] = x /\ Len(Queues'[p]) = Len(Queues[p]) - 1
         /\ \A k \in 1 .. Len(Queues'[p]) : Queues'[p][k] = Queues[p][k + 1]
    BY <1>2, <1>7, <1>8
  <1> HIDE DEF p, q
  <1>15. /\ d <= Len(Queues[q]) /\ Len(Queues'[q]) = Len(Queues[q]) + 1 - d
         /\ Queues'[q][Len(Queues'[q])] = x
         /\ \A k \in 1 .. Len(Queues'[q]) - 1 : Queues'[q][k] = Queues[q][k + d]
         /\ Len(Queues'[q]) <= LogLimit /\ (d = 1 => Len(Queues'[q]) = LogLimit)
    BY <1>7, <1>11
  <1>16. LinesIn(Queues', written)
    <2> DEFINE C == Queues
               D == Queues'
    <2>1. /\ C \in [Places -> Seq(Lines)] /\ D \in [Places -> Seq(Lines)]
          /\ p \in Places /\ q \in Places /\ LinesIn(C, written)
          /\ x \in Lines /\ p[1] # "ring" /\ q = <<"ring", x[1]>>
      BY <1>2, <1>6, <1>7, <1>13
    <2>2. /\ Len(C[p]) # 0 /\ C[p][1] = x /\ Len(D[p]) = Len(C[p]) - 1
          /\ \A k \in 1 .. Len(D[p]) : D[p][k] = C[p][k + 1]
      BY <1>14
    <2>3. /\ d <= Len(C[q]) /\ Len(D[q]) = Len(C[q]) + 1 - d /\ D[q][Len(D[q])] = x
          /\ \A k \in 1 .. Len(D[q]) - 1 : D[q][k] = C[q][k + d]
          /\ Len(D[q]) <= LogLimit /\ (d = 1 => Len(D[q]) = LogLimit)
      BY <1>15
    <2>4. \A r \in Places \ {p, q} : D[r] = C[r]
      BY <1>12
    <2> HIDE DEF C, D
    <2>5. StoredLine(C, D, p, q, x, d)
      BY <2>1, <2>2, <2>3, <2>4 DEF StoredLine
    <2>6. LinesIn(D, written)
      BY <2>1, <2>5, LineStored
    <2> QED
      BY <2>6 DEF D
  <1> QED
    BY <1>4, <1>16

(* Empty queues are in order as long as nothing was written. *)
LEMMA NoLines ==
    ASSUME PluginAssumption, NEW C \in [Places -> Seq(Lines)], NEW w, \A p \in Places : C[p] = <<>>,
           \A n \in Names : w[n] = 0
    PROVE  LinesIn(C, w)
  <1>1. \A p \in Places : DOMAIN C[p] = {}
    OBVIOUS
  <1>2. ASSUME NEW line \in Lines
        PROVE  ~(line[2] <= w[line[1]])
    <2>1. line[1] \in Names /\ line[2] \in 1 .. MaxLines /\ MaxLines \in Nat
      BY DEF Lines, PluginAssumption
    <2>2. w[line[1]] = 0
      BY <2>1
    <2> QED
      BY <2>1, <2>2
  <1> QED
    BY <1>1, <1>2 DEF LinesIn, Once, Numbered, Kept

(* loadDir: nothing but the lines that on_load wrote, which are in the     *)
(* rings.                                                                  *)
LEMMA LinesLoaded ==
    ASSUME PluginAssumption, TypeOK, TypeOK', Quiescent, LinesHold, NewEngine
    PROVE  LinesIn(Queues', written')
  <1> DEFINE line(n) == <<n, 1>>
  <1>1. PICK speak \in SUBSET Names :
          /\ \A i \in DOMAIN plugins' : plugins'[i].logBuf = <<>>
          /\ written' = [n \in Names |-> IF n \in speak THEN 1 ELSE 0]
          /\ pluginLogs' = [n \in Names |-> IF n \in speak THEN << line(n) >> ELSE <<>>]
    <2>1. PICK loaded \in SUBSET Names, unsaved \in SUBSET Names, unread \in SUBSET Names,
               speak \in SUBSET Names, kept \in SUBSET Names :
               \E order \in Ascending(loaded), script \in [loaded -> Scripts] :
                 LoadDir(loaded, unsaved, unread, speak, kept, order, script)
      BY NewEngineLoads
    <2>2. PICK order \in Ascending(loaded), script \in [loaded -> Scripts] :
                 LoadDir(loaded, unsaved, unread, speak, kept, order, script)
      BY <2>1
    <2>3. /\ \A i \in DOMAIN plugins' : plugins'[i].logBuf = <<>>
          /\ written' = [n \in Names |-> IF n \in speak THEN 1 ELSE 0]
          /\ pluginLogs' = [n \in Names |-> IF n \in speak THEN << line(n) >> ELSE <<>>]
      BY <2>2 DEF LoadDir
    <2> QED
      BY <2>3
  <1>2. UNCHANGED <<main, hand>> /\ main.at = "idle" /\ \A a \in Actors : hand[a] = <<>>
    BY DEF NewEngine, Quiescent, LinesHold, HandsHold, Idle
  <1> DEFINE D == Queues'
             v == written'
  <1>3. WaitsAt(D, plugins', hand', main', pluginLogs')
    BY QueuesType
  <1>4. D \in [Places -> Seq(Lines)]
    BY <1>3 DEF WaitsAt
  <1> HIDE DEF D, v
  <1>5. ASSUME NEW p \in Places
        PROVE  D[p] = <<>> \/ \E n \in speak : p = <<"ring", n>> /\ D[p] = << line(n) >>
    <2>1. /\ p = <<p[1], p[2]>> /\ p[1] \in {"buf", "hand", "import", "ring"}
          /\ p[1] = "buf" => p[2] \in Nat \ {0}
          /\ p[1] = "hand" => p[2] \in Actors
          /\ p[1] = "import" => p[2] = Main
          /\ p[1] = "ring" => p[2] \in Names
      BY PlaceFacts
    <2> DEFINE a == p[2]
    <2>2. CASE p[1] = "buf"
      <3>1. p = <<"buf", a>> /\ a \in Nat \ {0}
        BY <2>1, <2>2
      <3> HIDE DEF a
      <3>2. D[<<"buf", a>>] = <<>>
        BY <3>1, <1>1, <1>3 DEF WaitsAt
      <3> QED
        BY <3>1, <3>2
    <2>3. CASE p[1] = "hand"
      <3>1. p = <<"hand", a>> /\ a \in Actors
        BY <2>1, <2>3
      <3> HIDE DEF a
      <3>2. D[<<"hand", a>>] = <<>>
        BY <3>1, <1>2, <1>3 DEF WaitsAt
      <3> QED
        BY <3>1, <3>2
    <2>4. CASE p[1] = "import"
      <3>1. p = <<"import", Main>>
        BY <2>1, <2>4
      <3>2. D[<<"import", Main>>] = <<>>
        BY <1>2, <1>3 DEF WaitsAt
      <3> QED
        BY <3>1, <3>2
    <2>5. CASE p[1] = "ring"
      <3>1. p = <<"ring", a>> /\ a \in Names
        BY <2>1, <2>5
      <3> HIDE DEF a, line
      <3>2. D[<<"ring", a>>] = pluginLogs'[a]
        BY <3>1, <1>3 DEF WaitsAt
      <3>3. pluginLogs'[a] = IF a \in speak THEN << line(a) >> ELSE <<>>
        BY <3>1, <1>1
      <3> QED
        BY <3>1, <3>2, <3>3
    <2> QED
      BY <2>1, <2>2, <2>3, <2>4, <2>5
  <1>6. ASSUME NEW p \in Places, NEW k \in DOMAIN D[p]
        PROVE  \E n \in speak : p = <<"ring", n>> /\ k = 1 /\ D[p][k] = line(n)
    <2>1. D[p] # <<>>
      BY <1>6
    <2>2. PICK n \in speak : p = <<"ring", n>> /\ D[p] = << line(n) >>
      BY <1>5, <2>1
    <2> HIDE DEF line
    <2>3. DOMAIN D[p] = {1} /\ D[p][1] = line(n)
      BY <2>2
    <2> QED
      BY <2>2, <2>3
  <1>7. Once(D)
    <2> SUFFICES ASSUME NEW p \in Places, NEW q \in Places,
                        NEW j \in DOMAIN D[p], NEW k \in DOMAIN D[q], D[p][j] = D[q][k]
                 PROVE  p = q /\ j = k
      BY DEF Once
    <2>1. PICK n \in speak : p = <<"ring", n>> /\ j = 1 /\ D[p][j] = line(n)
      BY <1>6
    <2>2. PICK m \in speak : q = <<"ring", m>> /\ k = 1 /\ D[q][k] = line(m)
      BY <1>6
    <2>3. line(n) = line(m)
      BY <2>1, <2>2
    <2>4. n = m
      BY <2>3
    <2> HIDE DEF line
    <2> QED
      BY <2>1, <2>2, <2>4
  <1>8. \A n \in Names : v[n] = IF n \in speak THEN 1 ELSE 0
    BY <1>1 DEF v
  <1>9. Numbered(D, v)
    <2> SUFFICES ASSUME NEW p \in Places, NEW k \in DOMAIN D[p]
                 PROVE  /\ D[p][k][2] <= v[D[p][k][1]]
                        /\ p[1] # "ring" => k <= D[p][k][2]
                        /\ p[1] = "ring" => D[p][k][1] = p[2]
      BY DEF Numbered
    <2>1. PICK n \in speak : p = <<"ring", n>> /\ k = 1 /\ D[p][k] = line(n)
      BY <1>6
    <2>2. D[p][k][1] = n /\ D[p][k][2] = 1 /\ p[1] = "ring" /\ p[2] = n
      BY <2>1
    <2>3. v[n] = 1
      BY <1>8
    <2> QED
      BY <2>2, <2>3
  <1>10. Kept(D, v)
    <2> SUFFICES ASSUME NEW x \in Lines, x[2] <= v[x[1]]
                 PROVE  \E p \in Places : \E k \in DOMAIN D[p] : D[p][k] = x
      BY DEF Kept
    <2> DEFINE n == x[1]
               i == x[2]
    <2>1. n \in Names /\ i \in 1 .. MaxLines /\ MaxLines \in Nat /\ x = <<n, i>>
      BY DEF Lines, PluginAssumption
    <2> HIDE DEF n, i
    <2>2. i <= v[n]
      BY DEF n, i
    <2>3. n \in speak /\ i = 1
      BY <1>8, <2>1, <2>2
    <2>4. x = line(n)
      BY <2>1, <2>3
    <2>5. D[<<"ring", n>>] = << line(n) >> /\ <<"ring", n>> \in Places
      <3> HIDE DEF line
      <3>1. D[<<"ring", n>>] = pluginLogs'[n]
        BY <2>1, <1>3 DEF WaitsAt
      <3>2. pluginLogs'[n] = << line(n) >>
        BY <2>1, <2>3, <1>1
      <3> QED
        BY <2>1, <3>1, <3>2, PlaceFacts
    <2> HIDE DEF line
    <2>6. 1 \in DOMAIN D[<<"ring", n>>] /\ D[<<"ring", n>>][1] = x
      BY <2>4, <2>5
    <2> QED
      BY <2>5, <2>6
  <1>11. LinesIn(D, v)
    BY <1>7, <1>9, <1>10 DEF LinesIn
  <1> QED
    BY <1>11 DEF D, v

(* The lines of the main goroutine. *)
LEMMA LinesMain ==
    ASSUME PluginAssumption, TypeOK, TypeOK', LinesHold,
           \/ ToggleEngine \/ ImportRegister \/ ImportAppendBegin \/ ImportAppendEnd
           \/ \E n \in Names : Import(n) \/ \E enabled \in BOOLEAN : Toggle(n, enabled)
    PROVE  LinesIn(Queues', written')
  <1>0. /\ plugins \in Seq(Plugins) /\ Main \in Actors
        /\ Len(plugins) \in Nat /\ DOMAIN plugins = 1 .. Len(plugins)
        /\ written \in [Names -> 0 .. MaxLines] /\ hand \in [Actors -> Seq(Lines)]
    BY DEF TypeOK, Actors
  <1> DEFINE C == Queues
             D == Queues'
             p == <<"import", Main>>
             q == <<"hand", Main>>
  <1>1. /\ WaitsAt(C, plugins, hand, main, pluginLogs)
        /\ WaitsAt(D, plugins', hand', main', pluginLogs')
    BY QueuesType
  <1>2. C \in [Places -> Seq(Lines)] /\ D \in [Places -> Seq(Lines)]
    BY <1>1 DEF WaitsAt
  <1>3. LinesIn(C, written)
    BY DEF LinesHold
  <1>4. D = Queues'
    OBVIOUS
  <1>5. p \in Places /\ q \in Places /\ p # q /\ p[1] = "import" /\ q[1] = "hand"
    BY <1>0, PlaceFacts
  <1> HIDE DEF C, D
  <1>6. ASSUME SameBut(C, D, {}, {}, {}, {}), UNCHANGED written
        PROVE  LinesIn(Queues', written')
    <2>1. \A r \in Places : D[r] = C[r]
      BY <1>6 DEF SameBut
    <2>2. D = C
      BY <1>2, <2>1
    <2> QED
      BY <1>3, <1>4, <1>6, <2>2
  <1>7. CASE ToggleEngine
    <2>1. /\ DOMAIN plugins' = DOMAIN plugins
          /\ \A i \in DOMAIN plugins : plugins'[i].logBuf = plugins[i].logBuf
      BY <1>0, <1>7 DEF ToggleEngine, Plugins
    <2>2. main.at # "register" /\ main'.at # "register"
      BY <1>7 DEF ToggleEngine, Idle
    <2>3. UNCHANGED <<hand, pluginLogs, written>>
      BY <1>7 DEF ToggleEngine, logVars
    <2>4. SameBut(C, D, {}, {}, {}, {})
      BY <1>1, <2>1, <2>2, <2>3, SamePlaces
    <2> QED
      BY <1>6, <2>3, <2>4
  <1>8. CASE ImportAppendBegin \/ \E n \in Names, enabled \in BOOLEAN : Toggle(n, enabled)
    <2>1. UNCHANGED <<plugins, hand, pluginLogs, written>>
      BY <1>8 DEF ImportAppendBegin, Toggle, logVars
    <2>2. main.at # "register" /\ main'.at # "register"
      <3>1. CASE ImportAppendBegin
        <4>1. main.at = "emit" /\ main' = [at |-> "append", plugin |-> main.plugin]
          BY <3>1, MainCases DEF ImportAppendBegin
        <4> QED
          BY <4>1
      <3>2. ASSUME NEW n \in Names, NEW enabled \in BOOLEAN, Toggle(n, enabled)
            PROVE  main.at # "register" /\ main'.at # "register"
        BY <3>2 DEF Toggle, Command
      <3> QED
        BY <1>8, <3>1, <3>2
    <2>3. SameBut(C, D, {}, {}, {}, {})
      BY <1>1, <2>1, <2>2, SamePlaces
    <2> QED
      BY <1>6, <2>1, <2>3
  <1>9. CASE ImportAppendEnd
    <2>1. /\ Len(plugins') = Len(plugins) + 1 /\ DOMAIN plugins' = 1 .. Len(plugins) + 1
          /\ \A i \in DOMAIN plugins : i \in DOMAIN plugins' /\ plugins'[i] = plugins[i]
          /\ plugins'[Len(plugins) + 1] = main.plugin
      BY <1>9, ImportAppends
    <2>2. UNCHANGED <<hand, pluginLogs, written>> /\ main.at = "append" /\ main'.at = "idle"
      BY <1>9 DEF ImportAppendEnd, logVars, Idle
    <2>3. main.plugin.logBuf = <<>>
      BY <2>2 DEF LinesHold, HandsHold
    <2>4. WaitsAt(D, plugins, hand, main, pluginLogs)
      <3>1. ASSUME NEW i \in Nat \ {0}
            PROVE  /\ i \in DOMAIN plugins => D[<<"buf", i>>] = plugins[i].logBuf
                   /\ i \notin DOMAIN plugins => D[<<"buf", i>>] = <<>>
        <4>1. CASE i \in DOMAIN plugins
          BY <4>1, <1>1, <2>1 DEF WaitsAt
        <4>2. CASE i = Len(plugins) + 1
          <5>1. i \in DOMAIN plugins' /\ i \notin DOMAIN plugins
            BY <4>2, <1>0, <2>1
          <5> QED
            BY <4>2, <5>1, <1>1, <2>1, <2>3 DEF WaitsAt
        <4>3. CASE i \notin DOMAIN plugins /\ i # Len(plugins) + 1
          <5>1. i \notin DOMAIN plugins'
            BY <4>3, <1>0, <2>1
          <5> QED
            BY <4>3, <5>1, <1>1 DEF WaitsAt
        <4> QED
          BY <4>1, <4>2, <4>3
      <3>2. /\ \A a \in Actors : D[<<"hand", a>>] = hand[a]
            /\ D[<<"import", Main>>] = <<>>
            /\ \A n \in Names : D[<<"ring", n>>] = pluginLogs[n]
        BY <1>1, <2>2 DEF WaitsAt
      <3>3. main.at # "register"
        BY <2>2
      <3> QED
        BY <1>2, <3>1, <3>2, <3>3 DEF WaitsAt
    <2>5. SameBut(C, D, {}, {}, {}, {})
      BY <1>1, <2>4, SamePlaces
    <2> QED
      BY <1>6, <2>2, <2>5
  <1>10. CASE ImportRegister
    <2>1. /\ main.at = "register" /\ hand' = [hand EXCEPT ![Main] = main.plugin.logBuf]
          /\ UNCHANGED <<plugins, pluginLogs, written>>
      BY <1>10 DEF ImportRegister
    <2>2. main'.at = "emit"
      BY <1>10, MainCases DEF ImportRegister
    <2>3. hand'[Main] = main.plugin.logBuf /\ \A a \in Actors \ {Main} : hand'[a] = hand[a]
      BY <1>0, <2>1
    <2>4. hand[Main] = <<>>
      BY <2>1 DEF LinesHold, HandsHold
    <2>5. C[p] = main.plugin.logBuf /\ D[p] = <<>> /\ C[q] = <<>> /\ D[q] = main.plugin.logBuf
      BY <1>0, <1>1, <2>1, <2>2, <2>3, <2>4 DEF WaitsAt
    <2>6. \A r \in Places \ {p, q} : D[r] = C[r]
      <3>1. WaitsAt(D, plugins, hand', main', pluginLogs)
        BY <1>1, <2>1
      <3>2. SameBut(C, D, {}, {Main}, {Main}, {})
        BY <1>1, <3>1, <2>3, SamePlaces
      <3>3. \A r \in Places \ {p, q} : /\ r[1] = "hand" => r[2] \notin {Main}
                                       /\ r[1] = "import" => r[2] \notin {Main}
        BY PlaceFacts
      <3> QED
        BY <3>2, <3>3 DEF SameBut
    <2>7. Moved(C, D, p, q)
      BY <1>5, <2>5, <2>6 DEF Moved
    <2> HIDE DEF p, q
    <2>8. LinesIn(D, written)
      BY <1>2, <1>3, <2>7, MovedAll
    <2> QED
      BY <1>4, <2>1, <2>8
  <1>11. ASSUME NEW n \in Names, Import(n)
         PROVE  LinesIn(Queues', written')
    <2>1. /\ main.at = "idle" /\ UNCHANGED <<plugins, pluginLogs, hand>>
      BY <1>11 DEF Import, Command
    <2>2. PICK script \in Scripts, speaks \in BOOLEAN :
            /\ speaks => written[n] < MaxLines
            /\ written' = [written EXCEPT ![n] = IF speaks THEN @ + 1 ELSE @]
            /\ main' = [at |-> "register",
                        plugin |-> [name |-> n, enabled |-> TRUE, functions |-> script,
                                    logBuf |-> IF speaks THEN << <<n, written'[n]>> >> ELSE <<>>]]
      BY <1>11 DEF Import
    <2>3. \A r \in Places \ {p} : D[r] = C[r]
      <3>1. WaitsAt(D, plugins, hand, main', pluginLogs)
        BY <1>1, <2>1
      <3>2. SameBut(C, D, {}, {}, {Main}, {})
        BY <1>1, <3>1, SamePlaces
      <3>3. \A r \in Places \ {p} : r[1] = "import" => r[2] \notin {Main}
        BY PlaceFacts
      <3> QED
        BY <3>2, <3>3 DEF SameBut
    <2>4. C[p] = <<>> /\ D[p] = main'.plugin.logBuf
      BY <1>1, <2>1, <2>2 DEF WaitsAt
    <2>5. CASE speaks
      <3> DEFINE new == <<n, written[n] + 1>>
      <3>1. /\ written' = [written EXCEPT ![n] = written[n] + 1] /\ written'[n] = written[n] + 1
            /\ written[n] < MaxLines
        BY <1>0, <2>2, <2>5
      <3>2. main'.plugin.logBuf = << new >>
        BY <2>2, <2>5, <3>1
      <3>3. new \in Lines
        BY <1>0, <3>1 DEF Lines, PluginAssumption
      <3> HIDE DEF new
      <3>4. Append(<<>>, new) = << new >>
        OBVIOUS
      <3>5. D[p] = Append(C[p], new)
        BY <2>4, <3>2, <3>4
      <3>6. D[p] = Append(C[p], <<n, written[n] + 1>>)
        BY <3>5 DEF new
      <3>7. DOMAIN C[p] = {}
        BY <2>4
      <3>8. p[1] # "ring" /\ p \in Places
        BY <1>5
      <3> HIDE DEF p
      <3>9. \A k \in DOMAIN C[p] : C[p][k][1] = n
        BY <3>7
      <3>10. AddedLine(C, D, written, written', p, n)
        BY <2>3, <3>1, <3>6, <3>8, <3>9 DEF AddedLine
      <3>11. LinesIn(D, written')
        BY <1>0, <1>2, <1>3, <3>10, LineAdded
      <3> QED
        BY <1>4, <3>11
    <2>6. CASE ~speaks
      <3>1. UNCHANGED written
        BY <1>0, <2>2, <2>6
      <3>2. D[p] = C[p]
        BY <2>2, <2>4, <2>6
      <3>3. SameBut(C, D, {}, {}, {}, {})
        BY <2>3, <3>2 DEF SameBut
      <3> QED
        BY <1>6, <3>1, <3>3
    <2> QED
      BY <2>5, <2>6
  <1> QED
    BY <1>7, <1>8, <1>9, <1>10, <1>11

LEMMA HandsHook ==
    ASSUME PluginAssumption, TypeOK, TypeOK', Bounds, HandsHold, phase = "running", NEW h \in Hooks, Hook(h)
    PROVE  HandsHold'
  <1> DEFINE at == hook[h].at
  <1>0. /\ hook \in [Hooks -> HookStates] /\ hook[h] \in HookStates /\ plugins \in Seq(Plugins)
        /\ h \in Actors /\ hand \in [Actors -> Seq(Lines)]
        /\ Len(plugins) \in Nat /\ DOMAIN plugins = 1 .. Len(plugins)
    BY DEF TypeOK, Actors
  <1>1. /\ UNCHANGED main /\ SameList /\ \A g \in Hooks \ {h} : hook'[g] = hook[g]
    BY HookKeeps
  <1>2. phase' # "down"
    BY DEF Hook, HookBegin, HookCheck, HookCall, HookDrain, HookContinue, HookEnd, Emit
  <1>3. hook[h].pc \in {"call", "drain"} => at \in DOMAIN plugins
    <2>1. at \in Nat \ {0} /\ hook[h].len \in Nat
      BY <1>0, HookStateUpdates
    <2> QED
      BY <1>0, <2>1 DEF Bounds
  <1>4. CASE HookBegin(h) \/ HookCheck(h) \/ HookContinue(h) \/ HookEnd(h)
    <2>1. UNCHANGED <<plugins, hand>> /\ hand[h] = <<>>
      BY <1>4 DEF HookBegin, HookCheck, HookContinue, HookEnd, logVars, HandsHold
    <2>2. \A g \in Hooks : hand[g] # <<>> => hook'[g].pc = "emit"
      BY <1>1, <2>1 DEF HandsHold
    <2> QED
      BY <1>1, <1>2, <2>1, <2>2 DEF HandsHold
  <1>5. CASE HookCall(h)
    <2>1. UNCHANGED hand /\ hand[h] = <<>>
      BY <1>5 DEF HookCall, HandsHold
    <2>2. \A g \in Hooks : hand[g] # <<>> => hook'[g].pc = "emit"
      BY <1>1, <2>1 DEF HandsHold
    <2>3. \A i \in DOMAIN plugins' : \A k \in DOMAIN plugins'[i].logBuf :
             plugins'[i].logBuf[k][1] = plugins'[i].name
      <3>1. CASE UNCHANGED plugins
        BY <3>1 DEF HandsHold
      <3>2. ASSUME NEW x, x[1] = plugins[at].name, x \in Lines,
                   plugins' = [plugins EXCEPT ![at].logBuf = Append(@, x)]
            PROVE  \A i \in DOMAIN plugins' : \A k \in DOMAIN plugins'[i].logBuf :
                     plugins'[i].logBuf[k][1] = plugins'[i].name
        <4> DEFINE s == plugins[at].logBuf
                   t == plugins'[at].logBuf
        <4>1. at \in DOMAIN plugins
          BY <1>3, <1>5 DEF HookCall
        <4>2. /\ t = Append(s, x) /\ plugins'[at].name = plugins[at].name
              /\ DOMAIN plugins' = DOMAIN plugins
              /\ \A i \in DOMAIN plugins \ {at} : plugins'[i] = plugins[i]
          <5> DEFINE u == Append(s, x)
          <5>1. plugins' = [plugins EXCEPT ![at].logBuf = u]
            BY <3>2
          <5> HIDE DEF u
          <5>2. plugins[at] \in Plugins
            BY <1>0, <4>1
          <5>3. /\ t = u /\ plugins'[at].name = plugins[at].name
                /\ DOMAIN plugins' = DOMAIN plugins
                /\ \A i \in DOMAIN plugins \ {at} : plugins'[i] = plugins[i]
            BY <1>0, <4>1, <5>1, <5>2 DEF Plugins
          <5> QED
            BY <5>3 DEF u
        <4>3. s \in Seq(Lines)
          BY <1>0, <4>1, LogBufUpdates
        <4>4. \A k \in DOMAIN s : s[k][1] = plugins[at].name
          BY <4>1 DEF HandsHold
        <4> HIDE DEF s, t
        <4>5. \A k \in DOMAIN t : t[k][1] = plugins[at].name
          <5>1. /\ t \in Seq(Lines) /\ Len(t) = Len(s) + 1 /\ t[Len(s) + 1] = x
                /\ \A k \in 1 .. Len(s) : t[k] = s[k]
            BY <3>2, <4>2, <4>3, AppendedAt
          <5>2. DOMAIN t = 1 .. Len(s) + 1 /\ DOMAIN s = 1 .. Len(s) /\ Len(s) \in Nat
            BY <4>3, <5>1
          <5>3. \A k \in DOMAIN t : k \in DOMAIN s \/ k = Len(s) + 1
            BY <5>2
          <5> QED
            BY <5>1, <5>2, <5>3, <4>4, <3>2
        <4>6. ASSUME NEW i \in DOMAIN plugins'
              PROVE  \A k \in DOMAIN plugins'[i].logBuf : plugins'[i].logBuf[k][1] = plugins'[i].name
          <5>1. CASE i = at
            BY <5>1, <4>2, <4>5 DEF t
          <5>2. CASE i # at
            BY <5>2, <4>2 DEF HandsHold
          <5> QED
            BY <5>1, <5>2
        <4> QED
          BY <4>6
      <3>3. CASE LET n == plugins[at].name
                 IN  /\ written[n] < MaxLines
                     /\ written' = [written EXCEPT ![n] = @ + 1]
                     /\ plugins' = [plugins EXCEPT ![at].logBuf = Append(@, <<n, written'[n]>>)]
        <4> DEFINE x == <<plugins[at].name, written'[plugins[at].name]>>
        <4>1. plugins[at].name \in Names
          BY <1>0, <1>3, <1>5, LogBufUpdates, EmptySeq DEF HookCall
        <4>2. x[1] = plugins[at].name /\ x \in Lines
          <5> DEFINE n == plugins[at].name
          <5>1. /\ written \in [Names -> 0 .. MaxLines] /\ written' \in [Names -> 0 .. MaxLines]
                /\ written'[n] = written[n] + 1
            BY <4>1, <3>3 DEF TypeOK
          <5>2. written'[n] \in 1 .. MaxLines
            <6>1. n \in Names
              BY <4>1
            <6> HIDE DEF n
            <6>2. written[n] \in 0 .. MaxLines /\ written'[n] \in 0 .. MaxLines /\ MaxLines \in Nat
              BY <5>1, <6>1 DEF PluginAssumption
            <6> QED
              BY <5>1, <6>2
          <5> QED
            BY <4>1, <5>2 DEF Lines
        <4>3. plugins' = [plugins EXCEPT ![at].logBuf = Append(@, x)]
          BY <3>3
        <4> HIDE DEF x, at
        <4> QED
          BY <3>2, <4>2, <4>3
      <3> QED
        BY <1>5, <3>1, <3>3 DEF HookCall
    <2> QED
      BY <1>1, <1>2, <2>1, <2>2, <2>3 DEF HandsHold
  <1>6. CASE HookDrain(h)
    <2>1. hook'[h].pc = "emit" /\ \A a \in Actors \ {h} : hand'[a] = hand[a]
      BY <1>0, <1>6 DEF HookDrain, HookStates
    <2>2. \A g \in Hooks : hand'[g] # <<>> => hook'[g].pc = "emit"
      BY <1>1, <2>1 DEF HandsHold, Actors
    <2>3. /\ at \in DOMAIN plugins /\ plugins'[at].logBuf = <<>> /\ DOMAIN plugins' = DOMAIN plugins
          /\ \A i \in DOMAIN plugins \ {at} : plugins'[i] = plugins[i]
      BY <1>0, <1>3, <1>6 DEF HookDrain, Plugins
    <2>4. \A i \in DOMAIN plugins' : \A k \in DOMAIN plugins'[i].logBuf :
             plugins'[i].logBuf[k][1] = plugins'[i].name
      BY <2>3 DEF HandsHold
    <2>5. hand'[Main] # <<>> => main'.at = "emit"
      <3>1. Main # h /\ Main \in Actors
        BY DEF PluginAssumption, Actors
      <3> QED
        BY <1>1, <2>1, <3>1 DEF HandsHold
    <2> QED
      BY <1>1, <1>2, <2>2, <2>4, <2>5 DEF HandsHold
  <1>7. CASE Emit(h)
    <2>1. UNCHANGED <<plugins, hook, main>> /\ hook[h].pc = "emit" /\ \A a \in Actors \ {h} : hand'[a] = hand[a]
      BY <1>0, <1>7 DEF Emit, HandsHold
    <2>2. Main # h
      BY DEF PluginAssumption
    <2> QED
      BY <1>2, <2>1, <2>2 DEF HandsHold, Actors
  <1> QED
    BY <1>4, <1>5, <1>6, <1>7 DEF Hook

LEMMA HandsMain ==
    ASSUME PluginAssumption, TypeOK, TypeOK', HandsHold, phase = "running", MainStep \/ User
    PROVE  HandsHold'
  <1>0. /\ plugins \in Seq(Plugins) /\ Main \in Actors /\ hand \in [Actors -> Seq(Lines)]
        /\ Len(plugins) \in Nat /\ DOMAIN plugins = 1 .. Len(plugins)
        /\ hook \in [Hooks -> HookStates]
    BY DEF TypeOK, Actors
  <1>1. CASE ToggleEngine
    <2>1. /\ DOMAIN plugins' = DOMAIN plugins
          /\ \A i \in DOMAIN plugins : /\ plugins'[i].logBuf = plugins[i].logBuf
                                       /\ plugins'[i].name = plugins[i].name
      BY <1>0, <1>1 DEF ToggleEngine, Plugins
    <2>2. /\ main.at = "toggle" /\ main'.at = "idle" /\ UNCHANGED <<hand, phase>>
          /\ \A h \in Hooks : hook'[h].pc = hook[h].pc
      BY <1>0, <1>1 DEF ToggleEngine, logVars, Idle, HookStates
    <2> QED
      BY <2>1, <2>2 DEF HandsHold
  <1>2. CASE ImportRegister
    <2>1. /\ main.at = "register" /\ UNCHANGED <<plugins, hook, phase>>
          /\ \A h \in Hooks : hand'[h] = hand[h]
      BY <1>0, <1>2 DEF ImportRegister, Actors, PluginAssumption
    <2>2. main'.at = "emit" /\ main'.plugin.logBuf = <<>>
      <3> DEFINE p == main.plugin
                 q == [main.plugin EXCEPT !.logBuf = <<>>]
      <3>1. p \in Plugins /\ main = [at |-> "register", plugin |-> p]
        BY <1>2, MainCases DEF ImportRegister
      <3>2. q.logBuf = <<>>
        BY <3>1 DEF Plugins
      <3> HIDE DEF p, q
      <3>3. main' = [at |-> "emit", plugin |-> q]
        BY <1>2, <3>1 DEF ImportRegister, p, q
      <3> QED
        BY <3>2, <3>3
    <2> QED
      BY <2>1, <2>2 DEF HandsHold
  <1>3. CASE ImportAppendBegin
    <2>1. main.at = "emit" /\ main' = [at |-> "append", plugin |-> main.plugin]
      BY <1>3, MainCases DEF ImportAppendBegin
    <2>2. main'.at = "append" /\ main'.plugin = main.plugin
      BY <2>1
    <2>3. hand[Main] = <<>> /\ UNCHANGED <<plugins, hook, phase, hand>>
      BY <1>3 DEF ImportAppendBegin, logVars
    <2> QED
      BY <2>1, <2>2, <2>3 DEF HandsHold
  <1>4. CASE ImportAppendEnd
    <2>1. /\ Len(plugins') = Len(plugins) + 1 /\ DOMAIN plugins' = 1 .. Len(plugins) + 1
          /\ \A i \in DOMAIN plugins : i \in DOMAIN plugins' /\ plugins'[i] = plugins[i]
          /\ plugins'[Len(plugins) + 1] = main.plugin
      BY <1>4, ImportAppends
    <2>2. main.at = "append" /\ main'.at = "idle" /\ UNCHANGED <<hook, phase, hand>>
      BY <1>4 DEF ImportAppendEnd, logVars, Idle
    <2>3. ASSUME NEW i \in DOMAIN plugins', NEW k \in DOMAIN plugins'[i].logBuf
          PROVE  plugins'[i].logBuf[k][1] = plugins'[i].name
      <3>1. i \in DOMAIN plugins \/ i = Len(plugins) + 1
        BY <1>0, <2>1
      <3>2. CASE i \in DOMAIN plugins
        BY <2>1, <3>2 DEF HandsHold
      <3>3. CASE i = Len(plugins) + 1
        BY <2>1, <2>2, <2>3, <3>3 DEF HandsHold
      <3> QED
        BY <3>1, <3>2, <3>3
    <2> QED
      BY <2>2, <2>3 DEF HandsHold
  <1>5. CASE Emit(Main)
    <2>1. /\ UNCHANGED <<plugins, hook, main, phase>> /\ hand[Main] # <<>>
          /\ \A h \in Hooks : hand'[h] = hand[h]
      BY <1>0, <1>5 DEF Emit, Actors, PluginAssumption
    <2> QED
      BY <2>1 DEF HandsHold
  <1>6. ASSUME NEW n \in Names, Import(n)
        PROVE  HandsHold'
    <2>1. /\ main.at = "idle" /\ UNCHANGED <<plugins, hook, hand, phase>>
      BY <1>6 DEF Import, Command
    <2>2. main'.at = "register" /\ Len(main'.plugin.logBuf) <= 1
      BY <1>6 DEF Import
    <2> QED
      BY <2>1, <2>2 DEF HandsHold
  <1>7. ASSUME NEW n \in Names, NEW enabled \in BOOLEAN, Toggle(n, enabled)
        PROVE  HandsHold'
    <2>1. /\ main.at = "idle" /\ main'.at = "toggle" /\ UNCHANGED <<plugins, hand, phase>>
          /\ \A h \in Hooks : hook'[h].pc = hook[h].pc
      BY <1>0, <1>7 DEF Toggle, Command, logVars, HookStates
    <2> QED
      BY <2>1 DEF HandsHold
  <1> QED
    BY <1>1, <1>2, <1>3, <1>4, <1>5, <1>6, <1>7 DEF MainStep, User

(* Nothing waits anywhere before the first start and after the end. *)
LEMMA NothingWaits ==
    ASSUME PluginAssumption, NEW C, NEW hands, NEW under, NEW rings, NEW w,
           WaitsAt(C, <<>>, hands, under, rings), under.at # "register",
           \A a \in Actors : hands[a] = <<>>,
           \A n \in Names : rings[n] = <<>> /\ w[n] = 0
    PROVE  LinesIn(C, w)
  <1> DEFINE D == [p \in Places |-> <<>>]
  <1>1. D \in [Places -> Seq(Lines)] /\ \A p \in Places : D[p] = <<>>
    OBVIOUS
  <1> HIDE DEF D
  <1>2. WaitsAt(D, <<>>, hands, under, rings)
    BY <1>1, PlaceFacts DEF WaitsAt
  <1>3. SameBut(C, D, {}, {}, {}, {})
    BY <1>2, SamePlaces
  <1>4. \A p \in Places : C[p] = <<>>
    BY <1>1, <1>3 DEF SameBut
  <1>5. C \in [Places -> Seq(Lines)]
    BY DEF WaitsAt
  <1> QED
    BY <1>4, <1>5, NoLines

LEMMA LinesNone ==
    ASSUME PluginAssumption, Init
    PROVE  LinesHold
  <1>1. /\ plugins = <<>> /\ main.at = "idle"
        /\ \A a \in Actors : hand[a] = <<>>
        /\ \A n \in Names : pluginLogs[n] = <<>> /\ written[n] = 0
    BY DEF Init, Idle
  <1>2. TypeOK
    BY InitType
  <1>3. WaitsAt(Queues, plugins, hand, main, pluginLogs)
    <2>1. plugins \in Seq(Plugins) /\ hand \in [Actors -> Seq(Lines)] /\ pluginLogs \in [Names -> Seq(Lines)]
      BY <1>2 DEF TypeOK
    <2>2. main.at = "register" => main.plugin \in Plugins
      BY <1>1
    <2> QED
      BY <2>1, <2>2, WaitingType DEF Queues
  <1>4. LinesIn(Queues, written)
    <2>1. WaitsAt(Queues, <<>>, hand, main, pluginLogs)
      BY <1>1, <1>3
    <2> QED
      BY <1>1, <2>1, NothingWaits
  <1>5. HandsHold
    BY <1>1 DEF HandsHold, Actors
  <1> QED
    BY <1>4, <1>5 DEF LinesHold

LEMMA LinesStep ==
    ASSUME PluginAssumption, TypeOK, TypeOK', Bounds, Quiescent, LinesHold, Next
    PROVE  LinesHold'
  <1>1. CASE NewEngine
    <2>1. LinesIn(Queues', written')
      BY <1>1, LinesLoaded
    <2>2. /\ phase' = "running" /\ main'.at = "idle" /\ hand' = hand /\ \A a \in Actors : hand[a] = <<>>
      BY <1>1 DEF NewEngine, Quiescent, LinesHold, HandsHold, Idle
    <2>3. \A i \in DOMAIN plugins' : plugins'[i].logBuf = <<>>
      BY <1>1, NewEngineLoads DEF LoadDir
    <2>4. HandsHold'
      BY <2>2, <2>3 DEF HandsHold, Actors
    <2> QED
      BY <2>1, <2>4 DEF LinesHold
  <1>2. CASE Quit
    <2>1. /\ plugins' = <<>> /\ main'.at = "idle"
          /\ \A a \in Actors : hand'[a] = <<>>
          /\ \A n \in Names : pluginLogs'[n] = <<>> /\ written'[n] = 0
      BY <1>2 DEF Quit, Idle
    <2>2. WaitsAt(Queues', <<>>, hand', main', pluginLogs')
      BY <2>1, QueuesType
    <2>3. LinesIn(Queues', written')
      <3> DEFINE D == Queues'
                 hands == hand'
                 under == main'
                 rings == pluginLogs'
                 w == written'
      <3>1. /\ WaitsAt(D, <<>>, hands, under, rings) /\ under.at # "register"
            /\ \A a \in Actors : hands[a] = <<>>
            /\ \A n \in Names : rings[n] = <<>> /\ w[n] = 0
        BY <2>1, <2>2
      <3> HIDE DEF D, hands, under, rings, w
      <3>2. LinesIn(D, w)
        BY <3>1, NothingWaits
      <3> QED
        BY <3>2 DEF D, w
    <2>4. HandsHold'
      BY <2>1 DEF HandsHold, Actors
    <2> QED
      BY <2>3, <2>4 DEF LinesHold
  <1>3. CASE phase = "running" /\ Running
    <2>0. HandsHold /\ LinesIn(Queues, written)
      BY DEF LinesHold
    <2>1. ASSUME NEW h \in Hooks, Hook(h)
          PROVE  LinesHold'
      <3>1. HandsHold'
        BY <1>3, <2>0, <2>1, HandsHook
      <3>2. LinesIn(Queues', written')
        <4>1. CASE HookCall(h) \/ HookDrain(h)
          BY <4>1, LinesHook
        <4>2. CASE Emit(h)
          <5>1. h \in Actors
            BY DEF Actors
          <5> QED
            BY <4>2, <5>1, LinesEmit
        <4>3. CASE HookBegin(h) \/ HookCheck(h) \/ HookContinue(h) \/ HookEnd(h)
          <5>1. UNCHANGED <<plugins, hand, main, pluginLogs, written>>
            BY <4>3 DEF HookBegin, HookCheck, HookContinue, HookEnd, logVars
          <5>2. Queues' = Queues
            BY <5>1 DEF Queues
          <5> QED
            BY <2>0, <5>1, <5>2
        <4> QED
          BY <2>1, <4>1, <4>2, <4>3 DEF Hook
      <3> QED
        BY <3>1, <3>2 DEF LinesHold
    <2>2. CASE MainStep \/ User
      <3>1. HandsHold'
        BY <1>3, <2>0, <2>2, HandsMain
      <3>2. LinesIn(Queues', written')
        <4>1. CASE Emit(Main)
          <5>1. Main \in Actors
            BY DEF Actors
          <5> QED
            BY <4>1, <5>1, LinesEmit
        <4> QED
          BY <2>2, <4>1, LinesMain DEF MainStep, User
      <3> QED
        BY <3>1, <3>2 DEF LinesHold
    <2> QED
      BY <1>3, <2>1, <2>2 DEF Running
  <1> QED
    BY <1>1, <1>2, <1>3 DEF Next

-----------------------------------------------------------------------------
(* All that the engine keeps from one step to the next. *)
EngineInv == TypeOK /\ Bounds /\ Quiescent /\ FlagInv /\ ChecksHold /\ CallsHold /\ LinesHold

LEMMA EngineInvariant ==
    ASSUME PluginAssumption
    PROVE  Spec => []EngineInv
  <1>1. Init => EngineInv
    <2> SUFFICES ASSUME Init
                 PROVE  EngineInv
      OBVIOUS
    <2>1. TypeOK /\ Bounds /\ Quiescent
      BY InitType DEF Init, Quiescent
    <2>2. FlagInv
      BY DEF Init, FlagInv, RowsKept, ToggleKept, FlagsHold, ImportKnown, First, NotBegun, Idle
    <2>3. ChecksHold
      BY DEF Init, ChecksHold, QuietHook, NotBegun
    <2>4. CallsHold
      BY DEF Init, CallsHold, CallsMade, NotBegun, ToSet
    <2>5. LinesHold
      BY LinesNone
    <2> QED
      BY <2>1, <2>2, <2>3, <2>4, <2>5 DEF EngineInv
  <1>2. EngineInv /\ [Next]_vars => EngineInv'
    <2> SUFFICES ASSUME EngineInv, [Next]_vars
                 PROVE  EngineInv'
      OBVIOUS
    <2>1. CASE UNCHANGED vars
      <3>1. TypeOK' /\ Bounds' /\ Quiescent'
        BY <2>1 DEF EngineInv, vars, logVars, userVars, TypeOK, Bounds, Quiescent
      <3>2. FlagInv'
        BY <2>1 DEF EngineInv, vars, userVars, FlagInv, RowsKept, ToggleKept, FlagsHold,
                    ImportKnown, First
      <3>3. ChecksHold'
        BY <2>1 DEF EngineInv, vars, userVars, ChecksHold, QuietHook, Excused, Twice
      <3>4. CallsHold'
        BY <2>1 DEF EngineInv, vars, CallsHold
      <3>5. LinesHold'
        BY <2>1 DEF EngineInv, vars, logVars, LinesHold, HandsHold, Queues
      <3> QED
        BY <3>1, <3>2, <3>3, <3>4, <3>5 DEF EngineInv
    <2>2. CASE Next
      BY <2>2, TypeStep, BoundsStep, FlagStep, ChecksStep, CallsStep, LinesStep DEF EngineInv
    <2> QED
      BY <2>1, <2>2
  <1> QED
    BY <1>1, <1>2, PTL DEF Spec

(* Every variable of the engine keeps its type, and no ring of log lines   *)
(* exceeds maxPluginLogLines (store/plugin.go), however many goroutines    *)
(* write to it.                                                            *)
THEOREM EngineTypeCorrect ==
    ASSUME PluginAssumption
    PROVE  Spec => []TypeOK
  <1>1. EngineInv => TypeOK
    BY DEF EngineInv
  <1> QED
    BY <1>1, EngineInvariant, PTL

(* A plugin that the user has disabled is called by no hook that begins    *)
(* later, until it is toggled again (the "p.enabled" checks of engine.go   *)
(* against ObservePluginEnabled of the store and of the engine), also      *)
(* after restarts; but for lost state and for plugins loaded twice.        *)
THEOREM DisabledStaysQuiet ==
    ASSUME PluginAssumption
    PROVE  Spec => []OffIsQuiet
  <1>1. EngineInv => OffIsQuiet
    BY DEF EngineInv, ChecksHold, QuietHook, Excused, OffIsQuiet
  <1> QED
    BY <1>1, EngineInvariant, PTL

(* A hook calls plugins in load order and none twice, and it misses none   *)
(* that was enabled all the time and defines its function (the loops of    *)
(* engine.go), but for those behind the plugin that drops a request.       *)
THEOREM EnabledAreAlwaysCalled ==
    ASSUME PluginAssumption
    PROVE  Spec => []EnabledAreCalled
  <1>1. EngineInv => EnabledAreCalled
    <2> SUFFICES ASSUME EngineInv, NEW h \in Hooks
                 PROVE  /\ \A j, k \in DOMAIN hook[h].called :
                             j < k => hook[h].called[j] < hook[h].called[k]
                        /\ \A i \in hook[h].steady :
                             FunctionOf[h] \in plugins[i].functions
                             /\ (hook[h].pc = "done" \/ (hook[h].pc = "dropped" /\ i < hook[h].at))
                             => i \in ToSet(hook[h].called)
      BY DEF EnabledAreCalled
    <2>1. hook[h].at \in Nat /\ hook[h].len \in Nat
      BY HookStateUpdates DEF EngineInv, TypeOK
    <2>2. CallsMade(hook[h], FunctionOf[h], plugins)
      BY DEF EngineInv, CallsHold
    <2>3. hook[h].pc = "done" => \A i \in hook[h].steady : i < hook[h].at
      BY <2>1, <2>2 DEF CallsMade
    <2> QED
      BY <2>2, <2>3 DEF CallsMade, Past
  <1> QED
    BY <1>1, EngineInvariant, PTL

(* A line that a plugin has written is in one place and there once, in the *)
(* buffer, in the hands of the goroutine that drained it (emitLogs) or in  *)
(* the ring of the store, until a full ring drops it; whatever hooks,      *)
(* imports and emits interleave.                                           *)
THEOREM LinesAreKeptOnce ==
    ASSUME PluginAssumption
    PROVE  Spec => []LinesOnce
  <1>1. EngineInv => LinesOnce
    <2> SUFFICES ASSUME EngineInv, NEW line \in Lines
                 PROVE  IF line[2] <= written[line[1]]
                        THEN \/ InFlight(line) + Stored(line) = 1
                             \/ /\ InFlight(line) + Stored(line) = 0
                                /\ Len(pluginLogs[line[1]]) = LogLimit
                        ELSE InFlight(line) + Stored(line) = 0
      BY DEF LinesOnce
    <2> DEFINE C == Queues
               n == line[1]
               B == {p \in (DOMAIN plugins) \X (1 .. MaxLines) :
                       p[2] \in DOMAIN plugins[p[1]].logBuf /\ plugins[p[1]].logBuf[p[2]] = line}
               H == {p \in Actors \X (1 .. MaxLines) :
                       p[2] \in DOMAIN hand[p[1]] /\ hand[p[1]][p[2]] = line}
               I == main.at = "register" /\ main.plugin.logBuf = <<line>>
               R == {k \in DOMAIN pluginLogs[n] : pluginLogs[n][k] = line}
    <2>1. /\ InFlight(line) = Cardinality(B) + Cardinality(H) + (IF I THEN 1 ELSE 0)
          /\ Stored(line) = Cardinality(R)
      BY DEF InFlight, Stored
    <2>2. /\ plugins \in Seq(Plugins) /\ Len(plugins) \in Nat /\ DOMAIN plugins = 1 .. Len(plugins)
          /\ TypeOK /\ HandsHold /\ LinesIn(C, written)
      BY DEF EngineInv, TypeOK, LinesHold
    <2>3. WaitsAt(C, plugins, hand, main, pluginLogs)
      <3>1. plugins \in Seq(Plugins) /\ hand \in [Actors -> Seq(Lines)] /\ pluginLogs \in [Names -> Seq(Lines)]
        BY <2>2 DEF TypeOK
      <3>2. main.at = "register" => main.plugin \in Plugins
        BY <2>2, MainCases
      <3> QED
        BY <3>1, <3>2, WaitingType DEF Queues
    <2>4. n \in Names /\ line[2] \in 1 .. MaxLines /\ MaxLines \in Nat
      BY DEF Lines, PluginAssumption
    <2> HIDE DEF C, n
    <2>5. C \in [Places -> Seq(Lines)]
      BY <2>3 DEF WaitsAt
    <2>b. ASSUME NEW e \in B
          PROVE  /\ e = <<e[1], e[2]>> /\ <<"buf", e[1]>> \in Places
                 /\ e[2] \in DOMAIN C[<<"buf", e[1]>>] /\ C[<<"buf", e[1]>>][e[2]] = line
      <3>1. e = <<e[1], e[2]>> /\ e[1] \in DOMAIN plugins /\ e[1] \in Nat \ {0}
        BY <2>2
      <3>2. C[<<"buf", e[1]>>] = plugins[e[1]].logBuf
        BY <2>3, <3>1 DEF WaitsAt
      <3> QED
        BY <3>1, <3>2, PlaceFacts
    <2>h. ASSUME NEW e \in H
          PROVE  /\ e = <<e[1], e[2]>> /\ <<"hand", e[1]>> \in Places
                 /\ e[2] \in DOMAIN C[<<"hand", e[1]>>] /\ C[<<"hand", e[1]>>][e[2]] = line
      <3>1. e = <<e[1], e[2]>> /\ e[1] \in Actors
        OBVIOUS
      <3>2. C[<<"hand", e[1]>>] = hand[e[1]]
        BY <2>3, <3>1 DEF WaitsAt
      <3> QED
        BY <3>1, <3>2, PlaceFacts
    <2>i. ASSUME I
          PROVE  /\ <<"import", Main>> \in Places /\ 1 \in DOMAIN C[<<"import", Main>>]
                 /\ C[<<"import", Main>>][1] = line
      <3>1. C[<<"import", Main>>] = <<line>>
        BY <2>i, <2>3 DEF WaitsAt
      <3> QED
        BY <3>1, PlaceFacts
    <2>r. /\ <<"ring", n>> \in Places /\ C[<<"ring", n>>] = pluginLogs[n]
      BY <2>3, <2>4, PlaceFacts DEF WaitsAt
    <2>6. CASE \A p \in Places : \A k \in DOMAIN C[p] : C[p][k] # line
      <3>1. B = {} /\ H = {} /\ ~I /\ R = {}
        <4>1. B = {}
          BY <2>6, <2>b
        <4>2. H = {}
          BY <2>6, <2>h
        <4>3. ~I
          BY <2>6, <2>i
        <4>4. R = {}
          BY <2>6, <2>r
        <4> QED
          BY <4>1, <4>2, <4>3, <4>4
      <3>2. line[2] <= written[n] => Len(pluginLogs[n]) = LogLimit
        BY <2>6, <2>2, <2>r DEF LinesIn, Kept, n
      <3> HIDE DEF B, H, I, R
      <3>3. InFlight(line) + Stored(line) = 0
        BY <2>1, <3>1, FS_EmptySet
      <3> QED
        BY <3>2, <3>3 DEF n
    <2>7. ASSUME NEW p \in Places, NEW k \in DOMAIN C[p], C[p][k] = line
          PROVE  line[2] <= written[n] /\ InFlight(line) + Stored(line) = 1
      <3>1. \A q \in Places : \A j \in DOMAIN C[q] : C[q][j] = line => q = p /\ j = k
        BY <2>2, <2>7 DEF LinesIn, Once
      <3>2. line[2] <= written[n] /\ (p[1] # "ring" => k <= line[2])
            /\ (p[1] = "ring" => n = p[2])
        BY <2>2, <2>7 DEF LinesIn, Numbered, n
      <3>3. k \in Nat \ {0}
        <4>1. DOMAIN C[p] = 1 .. Len(C[p]) /\ Len(C[p]) \in Nat
          BY <2>5, QueueFacts
        <4> QED
          BY <4>1
      <3>4. p[1] # "ring" => k \in 1 .. MaxLines
        BY <2>4, <3>2, <3>3
      <3>5. /\ p = <<p[1], p[2]>> /\ p[1] \in {"buf", "hand", "import", "ring"}
            /\ p[1] = "buf" => p[2] \in Nat \ {0}
            /\ p[1] = "hand" => p[2] \in Actors
            /\ p[1] = "import" => p[2] = Main
            /\ p[1] = "ring" => p[2] \in Names
        BY PlaceFacts
      <3>6. /\ p[1] # "buf" => B = {}
            /\ p[1] # "hand" => H = {}
            /\ p[1] # "import" => ~I
            /\ p[1] # "ring" => R = {}
        <4>1. p[1] # "buf" => B = {}
          <5>1. ASSUME NEW e \in B
                PROVE  p[1] = "buf"
            <6>1. /\ <<"buf", e[1]>> \in Places
                  /\ e[2] \in DOMAIN C[<<"buf", e[1]>>] /\ C[<<"buf", e[1]>>][e[2]] = line
              BY <2>b
            <6> HIDE DEF B
            <6>2. <<"buf", e[1]>> = p
              BY <3>1, <6>1
            <6> QED
              BY <6>2
          <5> HIDE DEF B
          <5> QED
            BY <5>1
        <4>2. p[1] # "hand" => H = {}
          <5>1. ASSUME NEW e \in H
                PROVE  p[1] = "hand"
            <6>1. /\ <<"hand", e[1]>> \in Places
                  /\ e[2] \in DOMAIN C[<<"hand", e[1]>>] /\ C[<<"hand", e[1]>>][e[2]] = line
              BY <2>h
            <6> HIDE DEF H
            <6>2. <<"hand", e[1]>> = p
              BY <3>1, <6>1
            <6> QED
              BY <6>2
          <5> HIDE DEF H
          <5> QED
            BY <5>1
        <4>3. p[1] # "import" => ~I
          BY <2>i, <3>1
        <4>4. p[1] # "ring" => R = {}
          BY <2>r, <3>1
        <4> QED
          BY <4>1, <4>2, <4>3, <4>4
      <3>7. CASE p[1] = "buf"
        <4>1. B = {<<p[2], k>>}
          <5>1. p = <<"buf", p[2]>> /\ p[2] \in DOMAIN plugins /\ C[p] = plugins[p[2]].logBuf
            <6> DEFINE i == p[2]
            <6>1. p = <<"buf", i>> /\ i \in Nat \ {0}
              BY <3>5, <3>7
            <6> HIDE DEF i
            <6>2. i \in DOMAIN plugins
              <7>1. C[p] # <<>>
                BY <2>7
              <7> QED
                BY <6>1, <7>1, <2>3 DEF WaitsAt
            <6>3. C[p] = plugins[i].logBuf
              BY <6>1, <6>2, <2>3 DEF WaitsAt
            <6> QED
              BY <6>1, <6>2, <6>3 DEF i
          <5>2. <<p[2], k>> \in B
            BY <2>7, <3>4, <3>7, <5>1
          <5>3. \A e \in B : e = <<p[2], k>>
            <6> SUFFICES ASSUME NEW e \in B
                         PROVE  e = <<p[2], k>>
              OBVIOUS
            <6>1. /\ e = <<e[1], e[2]>> /\ <<"buf", e[1]>> \in Places
                  /\ e[2] \in DOMAIN C[<<"buf", e[1]>>] /\ C[<<"buf", e[1]>>][e[2]] = line
              BY <2>b
            <6> HIDE DEF B
            <6>2. <<"buf", e[1]>> = p /\ e[2] = k
              BY <3>1, <6>1
            <6>3. p[2] = e[1]
              BY <6>2
            <6> QED
              BY <6>1, <6>2, <6>3
          <5> HIDE DEF B
          <5> QED
            BY <5>2, <5>3
        <4>2. H = {} /\ ~I /\ R = {}
          BY <3>6, <3>7
        <4> HIDE DEF B, H, I, R
        <4>3. Cardinality(B) = 1 /\ Cardinality(H) = 0 /\ Cardinality(R) = 0
          BY <4>1, <4>2, FS_EmptySet, FS_Singleton
        <4> QED
          BY <2>1, <3>2, <4>2, <4>3
      <3>8. CASE p[1] = "hand"
        <4>1. H = {<<p[2], k>>}
          <5>1. p = <<"hand", p[2]>> /\ p[2] \in Actors
            BY <3>5, <3>8
          <5>2. C[p] = hand[p[2]]
            <6> DEFINE a == p[2]
            <6>1. p = <<"hand", a>> /\ a \in Actors
              BY <5>1
            <6> HIDE DEF a
            <6>2. C[p] = hand[a]
              BY <6>1, <2>3 DEF WaitsAt
            <6> QED
              BY <6>2 DEF a
          <5>3. <<p[2], k>> \in H
            BY <2>7, <3>4, <3>8, <5>1, <5>2
          <5>4. \A e \in H : e = <<p[2], k>>
            <6> SUFFICES ASSUME NEW e \in H
                         PROVE  e = <<p[2], k>>
              OBVIOUS
            <6>1. /\ e = <<e[1], e[2]>> /\ <<"hand", e[1]>> \in Places
                  /\ e[2] \in DOMAIN C[<<"hand", e[1]>>] /\ C[<<"hand", e[1]>>][e[2]] = line
              BY <2>h
            <6> HIDE DEF H
            <6>2. <<"hand", e[1]>> = p /\ e[2] = k
              BY <3>1, <6>1
            <6>3. p[2] = e[1]
              BY <6>2
            <6> QED
              BY <6>1, <6>2, <6>3
          <5> HIDE DEF H
          <5> QED
            BY <5>3, <5>4
        <4>2. B = {} /\ ~I /\ R = {}
          BY <3>6, <3>8
        <4> HIDE DEF B, H, I, R
        <4>3. Cardinality(H) = 1 /\ Cardinality(B) = 0 /\ Cardinality(R) = 0
          BY <4>1, <4>2, FS_EmptySet, FS_Singleton
        <4> QED
          BY <2>1, <3>2, <4>2, <4>3
      <3>9. CASE p[1] = "import"
        <4>1. I
          <5>1. p = <<"import", Main>>
            BY <3>5, <3>9
          <5>2. C[p] # <<>>
            BY <2>7
          <5>3. main.at = "register" /\ C[p] = main.plugin.logBuf
            BY <5>1, <5>2, <2>3 DEF WaitsAt
          <5>4. Len(C[p]) <= 1
            BY <5>3, <2>2 DEF HandsHold
          <5>5. C[p] \in Seq(Lines) /\ Len(C[p]) \in Nat /\ DOMAIN C[p] = 1 .. Len(C[p])
            BY <2>5, QueueFacts
          <5>6. Len(C[p]) = 1 /\ k = 1
            <6> DEFINE l == Len(C[p])
            <6>1. l \in Nat /\ l <= 1 /\ k \in 1 .. l
              BY <5>4, <5>5
            <6> HIDE DEF l
            <6>2. l = 1 /\ k = 1
              BY <6>1
            <6> QED
              BY <6>2 DEF l
          <5>7. C[p] = << C[p][1] >>
            BY <5>5, <5>6
          <5> QED
            BY <2>7, <5>3, <5>6, <5>7
        <4>2. H = {} /\ B = {} /\ R = {}
          BY <3>6, <3>9
        <4> HIDE DEF B, H, I, R
        <4>3. Cardinality(H) = 0 /\ Cardinality(B) = 0 /\ Cardinality(R) = 0
          BY <4>2, FS_EmptySet
        <4> QED
          BY <2>1, <3>2, <4>1, <4>3
      <3>10. CASE p[1] = "ring"
        <4>1. R = {k}
          <5>1. p = <<"ring", n>>
            BY <3>2, <3>5, <3>10
          <5>2. C[p] = pluginLogs[n]
            BY <5>1, <2>r
          <5>3. k \in R
            BY <2>7, <5>2
          <5>4. \A j \in R : j = k
            BY <3>1, <5>1, <5>2
          <5> HIDE DEF R
          <5> QED
            BY <5>3, <5>4
        <4>2. H = {} /\ ~I /\ B = {}
          BY <3>6, <3>10
        <4> HIDE DEF B, H, I, R
        <4>3. Cardinality(R) = 1 /\ Cardinality(H) = 0 /\ Cardinality(B) = 0
          BY <4>1, <4>2, FS_EmptySet, FS_Singleton
        <4> QED
          BY <2>1, <3>2, <4>2, <4>3
      <3> QED
        BY <3>5, <3>7, <3>8, <3>9, <3>10
    <2>8. CASE \E p \in Places : \E k \in DOMAIN C[p] : C[p][k] = line
      BY <2>7, <2>8 DEF n
    <2> QED
      BY <2>6, <2>8
  <1> QED
    BY <1>1, EngineInvariant, PTL

(* Between commands, the flag of the engine's first plugin of a name is    *)
(* what the plugins table says: NewEngine restores it, a toggle changes    *)
(* both, and RegisterPlugin's conflict clause keeps the row of an import.  *)
THEOREM FlagsFollowRows ==
    ASSUME PluginAssumption
    PROVE  Spec => []FlagsAgree
  <1>1. EngineInv => FlagsAgree
    <2> SUFFICES ASSUME EngineInv, main.at = "idle",
                        NEW n \in Names \ forgotten, NEW i \in First(n), rows[n] # "none"
                 PROVE  plugins[i].enabled <=> rows[n] = "on"
      BY DEF FlagsAgree
    <2>1. rows[n] \in {"on", "off"}
      BY DEF EngineInv, TypeOK, Rows
    <2> QED
      BY <2>1 DEF EngineInv, FlagInv, FlagsHold
  <1> QED
    BY <1>1, EngineInvariant, PTL

=============================================================================
