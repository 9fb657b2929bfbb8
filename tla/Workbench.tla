----------------------------- MODULE Workbench -----------------------------
(***************************************************************************)
(* The Loot tab and the Repeater in one window: a saved request can be     *)
(* sent to the Repeater, an answer saved as loot.                          *)
(***************************************************************************)
EXTENDS LootTab, RepeaterSocket

benchVars == <<tableVars, lootVars, tabVars, socketVars, left>>

Init == LootInit /\ TabsInit /\ SocketInit /\ left \in Sessions

(* "Send to Repeater" in the dialog of a linked request. *)
SendToRepeater ==
    /\ OnTop("request") /\ Close
    /\ \E text \in Requests : AddTab(text)
    /\ UNCHANGED <<left, tableVars, storeVars, announcing, reloads, paneVars, fetching, socketVars>>

RepeaterNext ==
    \/ NewTab /\ UNCHANGED socketVars
    \/ \E i \in DOMAIN tabs : CloseTab(i) /\ UNCHANGED socketVars
    \/ ReopenSockets
    \/ HTTPNext /\ UNCHANGED socketVars
    \/ SocketNext

Next ==
    \/ LootNext /\ UNCHANGED <<tabVars, socketVars>>
    \/ RepeaterNext /\ UNCHANGED <<tableVars, lootVars>>
    \/ SendToRepeater

(* Goroutines run, plugins and exchanges end within their timeouts, and    *)
(* the main goroutine takes its callbacks.  Nobody has to click, nor to    *)
(* decide about a request that the gate holds.                             *)
Fairness ==
    /\ WF_benchVars(\E g \in Plugins : PluginAnnounces(g) /\ UNCHANGED <<tabVars, socketVars>>)
    /\ WF_benchVars(Watch /\ UNCHANGED <<tabVars, socketVars>>)
    /\ WF_benchVars(Reload /\ UNCHANGED <<tabVars, socketVars>>)
    /\ WF_benchVars(/\ \E s \in sends : SendStep(s) \/ SendLands(s)
                    /\ UNCHANGED <<tableVars, lootVars, socketVars>>)

Spec == Init /\ [][Next]_benchVars /\ Fairness
=============================================================================
