---------------------------- MODULE RepeaterTabs ----------------------------
(***************************************************************************)
(* The Repeater's tabs (ui/repeater.go), the rows they are saved in        *)
(* (store/repeater.go) and the tabs for HTTP (ui/repeater_http.go).        *)
(*                                                                         *)
(* A send is a goroutine: the Intercept gate and the plugins see the       *)
(* request and may rewrite or drop it, SendRaw exchanges it within thirty  *)
(* seconds, and a callback shows the result, adds it to the tab's history  *)
(* and saves it, whatever the user has edited or closed since.  A response *)
(* is stood for by what the user asked and what was sent for it.           *)
(***************************************************************************)
EXTENDS UserInput, SequencesExt

CONSTANTS
    Requests,       \* texts with a Host header
    NoText,         \* the text of a new tab, and no response
    MaxHistory,     \* entries in a tab's history
    MaxTabs         \* bound: tabs made

VARIABLES
    saved,          \* repeater_tabs: id -> its row
    lastTab,        \* the AUTOINCREMENT of the table
    orphans,        \* history: rows that have no tab, as a call of the store failed
    tabs,           \* the open tabs, from left to right; 0 has no row
    http,           \* tab -> what an HTTP tab holds; histIdx counts from 1
    sends           \* goroutines of doSend: tab, text, what goes out, how far they are

rowVars == <<saved, lastTab, orphans>>
tabVars == <<rowVars, tabs, http, sends>>

ASSUME RepeaterAssumption ==
    MaxHistory \in Nat \ {0} /\ MaxTabs \in Nat /\ NoText \notin Requests

Contents == Requests \cup {NoText}

NoAnswer == [asked |-> NoText, sent |-> NoText]

(* What the pane of the response says of a send without a response. *)
Notice(what) == [asked |-> NoText, sent |-> what]

NewHTTP(text) ==
    [editor |-> text, shown |-> NoAnswer, sendOn |-> TRUE, entries |-> <<>>, histIdx |-> 0,
     prevOn |-> FALSE, nextOn |-> FALSE, last |-> [req |-> NoText, resp |-> NoAnswer]]

(* f with v for k, which is new to it. *)
Extended(f, k, v) == [x \in DOMAIN f \cup {k} |-> IF x = k THEN v ELSE f[x]]

IsHTTP(t) == t \in DOMAIN saved /\ saved[t].type = "http"

TabsInit ==
    saved = <<>> /\ lastTab = 0 /\ orphans = {} /\ tabs = <<>> /\ http = <<>> /\ sends = {}

-----------------------------------------------------------------------------
(* The rows.                                                               *)

TakenPositions == {saved[t].position : t \in DOMAIN saved}

(* Mistake: the position is the number of rows. TabsReopen                 *)
NextPosition_Count == Cardinality(DOMAIN saved) + 1

(* SELECT COALESCE(MAX(position), 0) + 1. *)
NextPosition == IF TakenPositions = {} THEN 1 ELSE 1 + Max(TakenPositions)

SaveRepeaterTab(type, text) ==
    /\ lastTab < MaxTabs /\ lastTab' = lastTab + 1
    /\ saved' = Extended(saved, lastTab + 1,
                         [type |-> type, request |-> text, response |-> NoAnswer,
                          position |-> NextPosition])

(* No row, or a row whose number LastInsertId did not tell.                *)
SaveFails(type, text) ==
    \/ UNCHANGED rowVars
    \/ SaveRepeaterTab(type, text) /\ orphans' = orphans \cup {lastTab + 1}

(* Of a row that is gone it changes nothing, nor does it when it fails.    *)
UpdateRepeaterTab(t, text, response) ==
    /\ \/ UNCHANGED saved
       \/ saved' = [u \in DOMAIN saved |->
                      IF u = t THEN [saved[t] EXCEPT !.request = text, !.response = response]
                      ELSE saved[u]]
    /\ UNCHANGED <<lastTab, orphans>>

Ordered(s) ==
    \A i, j \in DOMAIN s :
        i < j /\ {s[i], s[j]} \subseteq DOMAIN saved
          => saved[s[i]].position < saved[s[j]].position

(* AllRepeaterTabs: ORDER BY position. *)
AllRepeaterTabs ==
    CHOOSE s \in [1 .. Cardinality(DOMAIN saved) -> DOMAIN saved] :
        ToSet(s) = DOMAIN saved /\ Ordered(s)

-----------------------------------------------------------------------------
(* The tabs.                                                               *)

OpenTab(text) ==
    /\ SaveRepeaterTab("http", text)
    /\ tabs' = Append(tabs, lastTab + 1)
    /\ http' = Extended(http, lastTab + 1, NewHTTP(text))
    /\ UNCHANGED <<orphans, sends>>

(* From the History, the Intruder or a request of the Loot tab: no tab     *)
(* without its row.                                                        *)
AddTab(text) ==
    \/ OpenTab(text)
    \/ SaveFails("http", text) /\ UNCHANGED <<tabs, http, sends>>

(* The + button; a tab that could not be saved is there, and empty.        *)
CreateTab ==
    \/ OpenTab(NoText)
    \/ /\ SaveFails("http", NoText)
       /\ tabs' = Append(tabs, 0) /\ UNCHANGED <<http, sends>>

Clone(t) == AddTab(http[t].editor)

NewTab ==
    /\ Comes("tab")
    /\ \/ \E text \in Requests : AddTab(text)
       \/ CreateTab
       \/ \E t \in DOMAIN http : Clone(t)

DeleteRepeaterTab(t) ==
    /\ saved' = [u \in DOMAIN saved \ {t} |-> saved[u]]
    /\ UNCHANGED orphans

(* closeTab, by the cross or the shortcut: the tab goes, its row if it can *)
(* be deleted.  A send goes on.                                            *)
CloseTab(i) ==
    /\ Comes("close")
    /\ tabs' = RemoveAt(tabs, i)
    /\ http' = [u \in DOMAIN http \ {tabs[i]} |-> http[u]]
    /\ \/ DeleteRepeaterTab(tabs[i])
       \/ tabs[i] # 0 /\ orphans' = orphans \cup {tabs[i]} /\ UNCHANGED saved
    /\ UNCHANGED <<lastTab, sends>>

(* build in the window of a project that is opened again, with the rows    *)
(* that were read before AllRepeaterTabs failed, or all of them.  What is  *)
(* in flight belongs to a window and a store that are closed.              *)
Reopen ==
    /\ Comes("reopen")
    /\ \E n \in 0 .. Cardinality(DOMAIN saved) : tabs' = SubSeq(AllRepeaterTabs, 1, n)
    /\ orphans' = DOMAIN saved \ ToSet(tabs')
    /\ http' = [t \in {u \in ToSet(tabs') : IsHTTP(u)} |-> NewHTTP(saved[t].request)]
    /\ sends' = {}
    /\ UNCHANGED <<saved, lastTab>>

-----------------------------------------------------------------------------
(* An HTTP tab.                                                            *)

Change(t, new) == http' = [http EXCEPT ![t] = new]

Edit(t) ==
    /\ Comes("edit")
    /\ \E text \in Contents \ {http[t].editor} : Change(t, [http[t] EXCEPT !.editor = text])
    /\ UNCHANGED <<rowVars, tabs, sends>>

(* doSend, by the button or the shortcut, of a text without a host.        *)
SendNothing(t) ==
    /\ http[t].sendOn /\ http[t].editor \notin Requests
    /\ Change(t, [http[t] EXCEPT !.shown = Notice("error")])
    /\ UNCHANGED <<rowVars, tabs, sends, left>>

Send(t) ==
    /\ Comes("send")
    /\ http[t].sendOn /\ http[t].editor \in Requests
    /\ Change(t, [http[t] EXCEPT !.sendOn = FALSE])
    /\ sends' = sends \cup {[tab |-> t, req |-> http[t].editor, sent |-> http[t].editor,
                              at |-> "gate"]}
    /\ UNCHANGED <<rowVars, tabs>>

Reaches(s, at, text) == sends' = (sends \ {s}) \cup {[s EXCEPT !.at = at, !.sent = text]}

(* applyBusRequest: the gate lets the request through or holds it, and a   *)
(* request that cannot be built does not meet the bus; plugins rewrite or  *)
(* drop it.  Then SendRaw, with the cookie jar of the tab.                 *)
SendStep(s) ==
    /\ \/ s.at = "gate" /\ \E at \in {"held", "plugins", "network"} : Reaches(s, at, s.sent)
       \/ s.at = "plugins" /\ Reaches(s, "dropped", s.sent)
       \/ s.at = "plugins" /\ \E text \in Requests : Reaches(s, "network", text)
       \/ s.at = "network" /\ \E at \in {"failed", "answered"} : Reaches(s, at, s.sent)
    /\ UNCHANGED <<rowVars, tabs, http, left>>

(* The user forwards a held request, perhaps rewritten, or drops it.       *)
Decide(s) ==
    /\ s.at = "held"
    /\ \/ Reaches(s, "dropped", s.sent)
       \/ \E text \in Requests : Reaches(s, "plugins", text)
    /\ UNCHANGED <<rowVars, tabs, http, left>>

Response(s) == [asked |-> s.req, sent |-> s.sent]

(* The last entries of the ring. *)
Recorded(entries, entry) ==
    LET longer == Append(entries, entry)
    IN  IF Len(longer) > MaxHistory THEN Tail(longer) ELSE longer

(* applySendResult of an answer, less the row. *)
Answered(h, req, resp) ==
    LET entries == Recorded(h.entries, [req |-> req, resp |-> resp])
    IN  [h EXCEPT !.sendOn = TRUE, !.shown = resp, !.entries = entries,
                  !.histIdx = Len(entries),
                  !.prevOn = Len(entries) > 1 \/ @, !.nextOn = FALSE,
                  !.last = [req |-> req, resp |-> resp]]

(* Mistake: the button stays off after a drop. SendEnds                    *)
SendLands_DropForgets(s) ==
    /\ s.at \in {"dropped", "failed", "answered"} /\ sends' = sends \ {s}
    /\ IF s.tab \notin DOMAIN http THEN UNCHANGED http
       ELSE LET h == http[s.tab]
            IN  Change(s.tab, CASE s.at = "answered" -> Answered(h, s.req, Response(s))
                                [] s.at = "dropped" -> [h EXCEPT !.shown = Notice("dropped")]
                                [] s.at = "failed" -> [h EXCEPT !.sendOn = TRUE,
                                                                !.shown = Notice("error")])
    /\ IF s.at = "answered" THEN UpdateRepeaterTab(s.tab, s.req, Response(s))
       ELSE UNCHANGED rowVars
    /\ UNCHANGED <<tabs, left>>

(* Mistake: the text is taken from the editor when the answer comes.       *)
(* PairsBelong                                                             *)
SendLands_EditorText(s) ==
    /\ s.at \in {"dropped", "failed", "answered"} /\ sends' = sends \ {s}
    /\ s.tab \in DOMAIN http
    /\ LET h == http[s.tab]
       IN  /\ Change(s.tab, IF s.at = "answered" THEN Answered(h, h.editor, Response(s))
                            ELSE [h EXCEPT !.sendOn = TRUE, !.shown = Notice("error")])
           /\ IF s.at = "answered" THEN UpdateRepeaterTab(s.tab, h.editor, Response(s))
              ELSE UNCHANGED rowVars
    /\ UNCHANGED <<tabs, left>>

(* The callback of a send.  The tab may be closed and its row deleted.     *)
SendLands(s) ==
    /\ s.at \in {"dropped", "failed", "answered"} /\ sends' = sends \ {s}
    /\ IF s.tab \notin DOMAIN http THEN UNCHANGED http
       ELSE LET h == http[s.tab]
            IN  Change(s.tab, CASE s.at = "answered" -> Answered(h, s.req, Response(s))
                                [] s.at = "dropped" -> [h EXCEPT !.sendOn = TRUE,
                                                                 !.shown = Notice("dropped")]
                                [] s.at = "failed" -> [h EXCEPT !.sendOn = TRUE,
                                                                !.shown = Notice("error")])
    /\ IF s.at = "answered" THEN UpdateRepeaterTab(s.tab, s.req, Response(s))
       ELSE UNCHANGED rowVars
    /\ UNCHANGED <<tabs, left>>

(* The arrows: loadHistEntry. *)
LoadHistEntry(t) ==
    /\ Comes("arrows")
    /\ \E i \in DOMAIN http[t].entries :
          /\ \/ http[t].prevOn /\ i = http[t].histIdx - 1
             \/ http[t].nextOn /\ i = http[t].histIdx + 1
          /\ Change(t, [http[t] EXCEPT !.editor = http[t].entries[i].req,
                                       !.shown = http[t].entries[i].resp,
                                       !.histIdx = i,
                                       !.prevOn = i > 1,
                                       !.nextOn = i < Len(http[t].entries)])
    /\ UNCHANGED <<rowVars, tabs, sends>>

HTTPNext ==
    \/ \E t \in DOMAIN http : Edit(t) \/ SendNothing(t) \/ Send(t) \/ LoadHistEntry(t)
    \/ \E s \in sends : SendStep(s) \/ Decide(s) \/ SendLands(s)

-----------------------------------------------------------------------------
(* The tabs on the screen are the rows, in the order of their positions,   *)
(* which are all different, so that a project reopens with its tabs as     *)
(* they were, whatever was closed in between.  The exceptions are those of *)
(* calls of the store that failed: a tab without a row, a row without its  *)
(* tab.                                                                    *)
TabsReopen ==
    /\ DOMAIN saved = (ToSet(tabs) \ {0}) \cup orphans /\ orphans \cap ToSet(tabs) = {}
    /\ \A t, u \in DOMAIN saved : saved[t].position = saved[u].position => t = u
    /\ Ordered(tabs)

(* A response is kept with the request the user asked for in that send, in *)
(* the history, in what Inspector and Loot take, and in the row, though    *)
(* the user edits, goes back and forth or closes the tab during a send.    *)
(* What was sent for it is another text where the gate or a plugin has     *)
(* rewritten it.                                                           *)
PairsBelong ==
    /\ \A t \in DOMAIN http :
          /\ http[t].last.req = http[t].last.resp.asked
          /\ \A i \in DOMAIN http[t].entries :
                http[t].entries[i].req = http[t].entries[i].resp.asked
    /\ \A t \in DOMAIN saved : saved[t].response.asked \in {NoText, saved[t].request}

Held(t) == \E s \in sends : s.tab = t /\ s.at = "held"

(* Every way a send can end gives the tab its Send button back, unless the *)
(* gate holds the request and the user never decides about it.             *)
SendEnds ==
    \A t \in 1 .. MaxTabs :
        []<>~Held(t)
          => ((t \in DOMAIN http /\ ~http[t].sendOn) ~> (t \notin DOMAIN http \/ http[t].sendOn))
=============================================================================
