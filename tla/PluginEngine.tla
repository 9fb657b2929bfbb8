----------------------------- MODULE PluginEngine -----------------------------
(***************************************************************************)
(* The plugin engine (internal/plugin) with the plugin rows and log lines  *)
(* of the store (internal/store/plugin.go).                                *)
(*                                                                         *)
(* Hooks run on the goroutines of the proxy, one for each request,         *)
(* response or frame, and go through the engine's plugin list in load      *)
(* order.  The main goroutine toggles and imports plugins when the user    *)
(* asks for it in the Plugins tab.                                         *)
(*                                                                         *)
(* What a script does is up to it: a call may write a log line, fail (an   *)
(* error, a panic or the 500 ms timeout), return nothing or a table.  A    *)
(* plugin is known by its file name; names are numbers, in the order in    *)
(* which ReadDir and "ORDER BY name" list them.                            *)
(***************************************************************************)
EXTENDS Integers, Sequences, FiniteSets, SequencesExt

CONSTANTS
    Hooks,          \* the invocations of hooks by the proxy
    FunctionOf,     \* FunctionOf[h]: the function h calls, such as "on_request"
    Main,           \* the main goroutine
    Names,          \* file names of plugins
    Scripts,        \* the sets of hook functions a script may define
    LogLimit,       \* maxPluginLogLines (500)
    MaxLines,       \* bound on the lines each plugin writes
    MaxCommands     \* bound on toggles, imports and restarts

Actors == Hooks \cup {Main}
Lines == Names \X (1 .. MaxLines)
Plugins == [name : Names, enabled : BOOLEAN, functions : Scripts, logBuf : Seq(Lines)]
Rows == [Names -> {"none", "on", "off"}]

(* at: the next plugin; len: length of the list it ranges over.  History:  *)
(* called, the plugins it has called; steady, those enabled ever since it  *)
(* began; off, the names that the user had turned off when it began and    *)
(* has not toggled since.                                                  *)
HookStates ==
    [pc : {"idle", "next", "call", "drain", "emit", "dropped", "done"},
     at : Nat \ {0}, len : Nat,
     called : Seq(Nat \ {0}), steady : SUBSET Nat, off : SUBSET Names]

NotBegun == [pc |-> "idle", at |-> 1, len |-> 0,
             called |-> <<>>, steady |-> {}, off |-> {}]

ASSUME PluginAssumption ==
    /\ Main \notin Hooks
    /\ Names \subseteq Nat /\ IsFiniteSet(Names)
    /\ LogLimit \in Nat \ {0} /\ MaxLines \in Nat \ {0} /\ MaxCommands \in Nat

VARIABLES
    phase,          \* "down", "running", "crashed"
    rows,           \* the plugins table: the persisted state of each name
    plugins,        \* Engine.plugins
    pluginLogs,     \* Store.pluginLogs
    written,        \* written[n]: number of lines n has written
    hook,           \* per hook: its place, and what it keeps (HookStates)
    hand,           \* per actor: lines drained and not yet emitted
    main,           \* what the main goroutine is doing, and to which plugin
    commands,       \* number of commands so far
    userOff,        \* history: names the user has turned off
    forgotten       \* history: names whose state a failure has lost, see OffIsQuiet

logVars  == <<pluginLogs, written, hand>>
userVars == <<userOff, forgotten, commands>>
vars     == <<phase, rows, plugins, main, hook, logVars, userVars>>

(* The plugin of that name which the engine finds first, if there is one;  *)
(* an import may have added another.                                       *)
First(n) == {i \in DOMAIN plugins : plugins[i].name = n /\ \A j \in 1 .. i - 1 : plugins[j].name # n}
Twice(n) == \E i, j \in DOMAIN plugins : i # j /\ plugins[i].name = n /\ plugins[j].name = n

Idle == [at |-> "idle"]

Init ==
    /\ phase = "down" /\ rows = [n \in Names |-> "none"]
    /\ plugins = <<>> /\ hook = [h \in Hooks |-> NotBegun] /\ main = Idle
    /\ pluginLogs = [n \in Names |-> <<>>] /\ written = [n \in Names |-> 0]
    /\ hand = [a \in Actors |-> <<>>]
    /\ userOff = {} /\ forgotten = {} /\ commands = 0

Command == phase = "running" /\ main.at = "idle" /\ commands < MaxCommands /\ commands' = commands + 1

(* RegisterPlugin: a new row is enabled, an old one keeps its state. *)
RegisteredAnew(row) == "on"
Registered(row) == IF row = "none" THEN "on" ELSE row

(* PluginEnabled, whose default is TRUE. *)
RestoredNever(row) == TRUE
Restored(row) == row # "off"

-----------------------------------------------------------------------------
(* Mistakes, one per property; RegisteredAnew (FlagsAgree) and             *)
(* RestoredNever (OffIsQuiet) are two more.                                *)

(* EnabledAreCalled: a plugin that fails ends the loop. *)
HookContinueOrReturn(h) ==
    /\ hook[h].pc = "emit" /\ hand[h] = <<>>
    /\ \/ hook' = [hook EXCEPT ![h].pc = "next", ![h].at = @ + 1]
       \/ hook' = [hook EXCEPT ![h].pc = "done"]
    /\ UNCHANGED <<phase, rows, plugins, main, logVars, userVars>>

(* LinesOnce: the buffer is copied and not cleared. *)
HookDrainCopying(h) ==
    /\ hook[h].pc = "drain"
    /\ hook' = [hook EXCEPT ![h].pc = "emit"]
    /\ hand' = [hand EXCEPT ![h] = plugins[hook[h].at].logBuf]
    /\ UNCHANGED <<phase, rows, plugins, main, pluginLogs, written, userVars>>

-----------------------------------------------------------------------------
(* The hooks.                                                              *)

(* "range e.plugins" copies the slice once.  The copy races with the       *)
(* append of an import: it may be torn, and the loop then runs off the     *)
(* end of the old array.                                                   *)
HookBegin(h) ==
    /\ hook[h].pc = "idle"
    /\ \/ /\ hook' = [hook EXCEPT ![h].pc = "next", ![h].len = Len(plugins), ![h].off = userOff,
                                  ![h].steady = {i \in DOMAIN plugins : plugins[i].enabled}]
          /\ UNCHANGED phase
       \/ /\ main.at = "append"
          /\ phase' = "crashed"
          /\ UNCHANGED hook
    /\ UNCHANGED <<rows, plugins, main, logVars, userVars>>

(* "if !p.enabled.Load()" and "if !p.has(...)": the call comes later. *)
HookCheck(h) ==
    /\ hook[h].pc = "next" /\ hook[h].at <= hook[h].len
    /\ LET p == plugins[hook[h].at] IN
         \/ /\ p.enabled /\ FunctionOf[h] \in p.functions
            /\ hook' = [hook EXCEPT ![h].pc = "call"]
         \/ /\ ~p.enabled \/ FunctionOf[h] \notin p.functions
            /\ hook' = [hook EXCEPT ![h].at = @ + 1]
    /\ UNCHANGED <<phase, rows, plugins, main, logVars, userVars>>

(* callWithBuilder: one critical section of the plugin. *)
HookCall(h) ==
    /\ hook[h].pc = "call"
    /\ hook' = [hook EXCEPT ![h].pc = "drain", ![h].called = Append(@, hook[h].at)]
    /\ \/ UNCHANGED <<plugins, written>>
       \/ LET n == plugins[hook[h].at].name IN
            /\ written[n] < MaxLines
            /\ written' = [written EXCEPT ![n] = @ + 1]
            /\ plugins' = [plugins EXCEPT ![hook[h].at].logBuf = Append(@, <<n, written'[n]>>)]
    /\ UNCHANGED <<phase, rows, main, pluginLogs, hand, userVars>>

(* drainLogs, also after an error: whatever is in the buffer. *)
HookDrain(h) ==
    /\ hook[h].pc = "drain"
    /\ hook' = [hook EXCEPT ![h].pc = "emit"]
    /\ hand' = [hand EXCEPT ![h] = plugins[hook[h].at].logBuf]
    /\ plugins' = [plugins EXCEPT ![hook[h].at].logBuf = <<>>]
    /\ UNCHANGED <<phase, rows, main, pluginLogs, written, userVars>>

(* After the last line: an error or nothing came back, and the next plugin *)
(* is called all the same; or a table, which is read in a critical section *)
(* of its own and may drop a request, but no response and no frame.        *)
HookContinue(h) ==
    /\ hook[h].pc = "emit" /\ hand[h] = <<>>
    /\ \/ hook' = [hook EXCEPT ![h].pc = "next", ![h].at = @ + 1]
       \/ /\ FunctionOf[h] = "on_request"
          /\ hook' = [hook EXCEPT ![h].pc = "dropped"]
    /\ UNCHANGED <<phase, rows, plugins, main, logVars, userVars>>

HookEnd(h) ==
    /\ hook[h].pc = "next" /\ hook[h].at > hook[h].len
    /\ hook' = [hook EXCEPT ![h].pc = "done"]
    /\ UNCHANGED <<phase, rows, plugins, main, logVars, userVars>>

(* ObservePluginLog: the line goes to the ring of its plugin. *)
Emit(a) ==
    /\ hand[a] # <<>>
    /\ LET line == Head(hand[a])
           n    == line[1]
           all  == Append(pluginLogs[n], line)
       IN  pluginLogs' = [pluginLogs EXCEPT ![n] = IF Len(all) > LogLimit THEN Tail(all) ELSE all]
    /\ hand' = [hand EXCEPT ![a] = Tail(@)]
    /\ UNCHANGED <<phase, rows, plugins, main, hook, written, userVars>>

Hook(h) ==
    \/ HookBegin(h) \/ HookCheck(h) \/ HookCall(h) \/ HookDrain(h) \/ HookContinue(h) \/ HookEnd(h)
    \/ Emit(h)

-----------------------------------------------------------------------------
(* The main goroutine.                                                     *)

Ascending(S) == {s \in [1 .. Cardinality(S) -> S] : \A i, j \in DOMAIN s : i < j => s[i] < s[j]}

(* loadDir: the files that load, in the order of their names; "speak"      *)
(* write a line in on_load.  The database may fail at any of its calls:    *)
(* "unsaved" are not registered, "unread" keep the default, and a failing  *)
(* ScanPlugins leaves rows ("kept") of plugins that are not there.         *)
LoadDir(loaded, unsaved, unread, speak, kept, order, script) ==
    /\ rows' = [n \in Names |->
                  CASE n \in loaded \ unsaved       -> Registered(rows[n])
                    [] n \in unsaved \/ n \in kept  -> rows[n]
                    [] OTHER                        -> "none"]
    /\ plugins' = [i \in DOMAIN order |->
                     [name |-> order[i], functions |-> script[order[i]], logBuf |-> <<>>,
                      enabled |-> order[i] \in unread \/ Restored(rows'[order[i]])]]
    /\ written' = [n \in Names |-> IF n \in speak THEN 1 ELSE 0]
    /\ pluginLogs' = [n \in Names |-> IF n \in speak THEN << <<n, 1>> >> ELSE <<>>]
    /\ forgotten' = forgotten \cup {n \in unread : rows[n] = "off"} \cup (userOff \ loaded)

(* NewEngine, before anything else runs.                                   *)
NewEngine ==
    /\ phase = "down" /\ phase' = "running"
    /\ \E loaded \in SUBSET Names : \E unsaved, unread, speak \in SUBSET loaded :
       \E kept \in SUBSET {n \in Names \ loaded : rows[n] # "none"} :
       \E order \in Ascending(loaded), script \in [loaded -> Scripts] :
         LoadDir(loaded, unsaved, unread, speak, kept, order, script)
    /\ UNCHANGED <<main, hook, hand, userOff, commands>>

(* The program ends, at any moment; the rows remain. *)
Quit ==
    /\ phase # "down" /\ commands < MaxCommands /\ commands' = commands + 1
    /\ phase' = "down" /\ plugins' = <<>> /\ hook' = [h \in Hooks |-> NotBegun] /\ main' = Idle
    /\ pluginLogs' = [n \in Names |-> <<>>] /\ written' = [n \in Names |-> 0]
    /\ hand' = [a \in Actors |-> <<>>]
    /\ UNCHANGED <<rows, userOff, forgotten>>

(* The button asks for the opposite of what the list showed last, which    *)
(* may be out of date.  The store observes the event first and may fail to *)
(* write it; the engine then follows in any case.                          *)
Toggle(n, enabled) ==
    /\ rows[n] # "none" /\ Command
    /\ main' = [at |-> "toggle", name |-> n, enabled |-> enabled]
    /\ \/ /\ rows' = [rows EXCEPT ![n] = IF enabled THEN "on" ELSE "off"]
          /\ forgotten' = forgotten \ {n}
       \/ /\ forgotten' = forgotten \cup {n}
          /\ UNCHANGED rows
    /\ userOff' = userOff \ {n}
    /\ hook' = [h \in Hooks |-> [hook[h] EXCEPT !.off = @ \ {n}]]
    /\ UNCHANGED <<phase, plugins, logVars>>

ToggleEngine ==
    /\ main.at = "toggle" /\ main' = Idle
    /\ plugins' = [i \in DOMAIN plugins |->
                     IF i \in First(main.name) THEN [plugins[i] EXCEPT !.enabled = main.enabled]
                     ELSE plugins[i]]
    /\ hook' = IF main.enabled THEN hook
               ELSE [h \in Hooks |-> [hook[h] EXCEPT !.steady = @ \ First(main.name)]]
    /\ userOff' = IF main.enabled THEN userOff ELSE userOff \cup {main.name}
    /\ UNCHANGED <<phase, rows, logVars, forgotten, commands>>

(* A file that cannot be copied or loaded leaves no trace here. *)
Import(n) ==
    /\ Command
    /\ \E script \in Scripts, speaks \in BOOLEAN :
         /\ speaks => written[n] < MaxLines
         /\ written' = [written EXCEPT ![n] = IF speaks THEN @ + 1 ELSE @]
         /\ main' = [at |-> "register",
                     plugin |-> [name |-> n, enabled |-> TRUE, functions |-> script,
                                 logBuf |-> IF speaks THEN << <<n, written'[n]>> >> ELSE <<>>]]
    /\ forgotten' = IF rows[n] = "off" /\ First(n) = {} THEN forgotten \cup {n} ELSE forgotten
    /\ UNCHANGED <<phase, rows, plugins, hook, pluginLogs, hand, userOff>>

ImportRegister ==
    /\ main.at = "register"
    /\ main' = [main EXCEPT !.at = "emit", !.plugin.logBuf = <<>>]
    /\ hand' = [hand EXCEPT ![Main] = main.plugin.logBuf]
    /\ \/ rows' = [rows EXCEPT ![main.plugin.name] = Registered(@)]
       \/ UNCHANGED rows
    /\ UNCHANGED <<phase, plugins, hook, pluginLogs, written, userVars>>

(* e.plugins = append(e.plugins, p): a step that a copy of the slice may   *)
(* overlap.                                                                *)
ImportAppendBegin ==
    /\ main.at = "emit" /\ hand[Main] = <<>>
    /\ main' = [main EXCEPT !.at = "append"]
    /\ UNCHANGED <<phase, rows, plugins, hook, logVars, userVars>>

ImportAppendEnd ==
    /\ main.at = "append" /\ main' = Idle
    /\ plugins' = Append(plugins, main.plugin)
    /\ UNCHANGED <<phase, rows, hook, logVars, userVars>>

MainStep ==
    \/ ToggleEngine \/ ImportRegister \/ ImportAppendBegin \/ ImportAppendEnd
    \/ Emit(Main)

User == \E n \in Names : Import(n) \/ \E enabled \in BOOLEAN : Toggle(n, enabled)

Running == (\E h \in Hooks : Hook(h)) \/ MainStep \/ User

Next == NewEngine \/ Quit \/ (phase = "running" /\ Running)

Spec == Init /\ [][Next]_vars

-----------------------------------------------------------------------------
(* Properties.                                                             *)

(* The places that hold a line: buffers, hands and the plugin under import. *)
InFlight(line) ==
    Cardinality({p \in (DOMAIN plugins) \X (1 .. MaxLines) :
                   p[2] \in DOMAIN plugins[p[1]].logBuf /\ plugins[p[1]].logBuf[p[2]] = line})
    + Cardinality({p \in Actors \X (1 .. MaxLines) :
                   p[2] \in DOMAIN hand[p[1]] /\ hand[p[1]][p[2]] = line})
    + (IF main.at = "register" /\ main.plugin.logBuf = <<line>> THEN 1 ELSE 0)

Stored(line) == Cardinality({k \in DOMAIN pluginLogs[line[1]] : pluginLogs[line[1]][k] = line})

(* Every variable has its type, and no ring of lines is longer than its    *)
(* limit.                                                                  *)
TypeOK ==
    /\ phase \in {"down", "running", "crashed"}
    /\ rows \in Rows
    /\ plugins \in Seq(Plugins)
    /\ written \in [Names -> 0 .. MaxLines]
    /\ pluginLogs \in [Names -> Seq(Lines)] /\ \A n \in Names : Len(pluginLogs[n]) <= LogLimit
    /\ hook \in [Hooks -> HookStates]
    /\ hand \in [Actors -> Seq(Lines)]
    /\ main \in {Idle} \cup [at : {"toggle"}, name : Names, enabled : BOOLEAN]
                       \cup [at : {"register", "emit", "append"}, plugin : Plugins]
    /\ userOff \subseteq Names /\ forgotten \subseteq Names /\ commands \in 0 .. MaxCommands

(* A plugin that the user has disabled is called by no hook that begins    *)
(* later ("the change takes effect immediately for all subsequent hook     *)
(* calls", engine.go:278), until it is toggled again, also after restarts. *)
(* There are exceptions: the database failed, the file did not load at one *)
(* of the starts (both "forgotten"), or it has been imported over a plugin *)
(* that was loaded, since a toggle reaches only the first of a name.       *)
OffIsQuiet ==
    \A h \in Hooks : \A k \in DOMAIN hook[h].called :
        LET n == plugins[hook[h].called[k]].name
        IN  n \in hook[h].off => n \in forgotten \/ Twice(n)

(* A hook calls plugins in load order, each once at most; it misses none   *)
(* that was enabled all the time, whatever fails in the others, except     *)
(* those after the plugin that drops a request.                            *)
EnabledAreCalled ==
    \A h \in Hooks : LET c == hook[h] IN
        /\ \A j, k \in DOMAIN c.called : j < k => c.called[j] < c.called[k]
        /\ \A i \in c.steady :
             FunctionOf[h] \in plugins[i].functions
             /\ (c.pc = "done" \/ (c.pc = "dropped" /\ i < c.at))
             => i \in ToSet(c.called)

(* emitLogs: "no log line is ever lost" (engine.go:66).  A line is in the  *)
(* buffer of its plugin, in the hands of the goroutine that drained it or  *)
(* in the ring, in one of them and once, until the ring, when full, drops  *)
(* it.                                                                     *)
LinesOnce ==
    phase = "running" =>
    \A line \in Lines :
        LET places == InFlight(line) + Stored(line)
        IN  IF line[2] <= written[line[1]]
            THEN places = 1 \/ (places = 0 /\ Len(pluginLogs[line[1]]) = LogLimit)
            ELSE places = 0

(* What the rows say is what the engine does, while no toggle is under     *)
(* way and as long as the database did not fail.                           *)
FlagsAgree ==
    phase = "running" /\ main.at = "idle" =>
    \A n \in Names \ forgotten : \A i \in First(n) :
        rows[n] # "none" => (plugins[i].enabled <=> rows[n] = "on")
=============================================================================
