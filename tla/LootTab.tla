------------------------------ MODULE LootTab ------------------------------
(***************************************************************************)
(* The Loot tab (ui/loot.go) and its rows in the project (store/loot.go).  *)
(*                                                                         *)
(* Plugins add and delete rows from their own goroutines, the dialogs from *)
(* the main one.  Each change is announced on a channel that is never      *)
(* waited for; watch hands one reload to the main goroutine per            *)
(* announcement, and a reload reads the table anew.  Deleting asks first:  *)
(* the question is about an entry, and the rows may move under it.         *)
(*                                                                         *)
(* An entry that was sent from the history holds no text but the id of a   *)
(* transaction, which is looked up when it is shown.                       *)
(***************************************************************************)
EXTENDS DataTable

CONSTANTS
    Plugins,        \* goroutines that may run hooks
    LootCap,        \* capacity of LootEntries
    Severities,     \* ranks of the ORDER BY, 1 first
    Transactions,   \* ids in the history, positive
    Stored,         \* the entries of the project when it is opened
    MaxLoot         \* bound: the last id

VARIABLES
    loot,           \* the table: a set of [id, severity, transaction, raw]
    lastLoot,       \* the AUTOINCREMENT of the table
    history,        \* the transactions that are there
    LootEntries,    \* announcements in the channel
    announcing,     \* plugins between the write and the announcement
    reloads,        \* reloads queued for the main goroutine
    selectedIdx,    \* -1 for none
    notes,          \* the id of the entry in the notes pane, 0 for none
    deleteOn, viewOn,
    dialogs,        \* what is open over the tab, the last one on top
    fetching        \* entries whose linked transaction is being read

storeVars == <<loot, lastLoot, history, LootEntries>>
paneVars == <<selectedIdx, notes, deleteOn, viewOn>>
lootVars == <<storeVars, announcing, reloads, paneVars, dialogs, fetching>>

ASSUME LootAssumption ==
    /\ LootCap \in Nat \ {0} /\ Severities \subseteq Nat
    /\ Transactions \subseteq Nat \ {0} /\ MaxLoot \in Nat
    /\ Stored \subseteq [id : 1 .. MaxLoot, severity : Severities,
                          transaction : Transactions \cup {0}, raw : BOOLEAN]

(* AllLoot. *)
AllLoot ==
    SetToSortSeq(loot, LAMBDA d, e : \/ d.severity < e.severity
                                     \/ d.severity = e.severity /\ d.id > e.id)

LootInit ==
    /\ loot = Stored /\ lastLoot = Cardinality(Stored) /\ history = Transactions
    /\ TableInit(AllLoot)
    /\ LootEntries = 0 /\ announcing = {} /\ reloads = 0
    /\ selectedIdx = -1 /\ notes = 0 /\ deleteOn = FALSE /\ viewOn = FALSE
    /\ dialogs = <<>> /\ fetching = {}

-----------------------------------------------------------------------------
(* The store.                                                              *)

(* AddLoot, its write. *)
Insert(severity, evidence) ==
    /\ lastLoot < MaxLoot
    /\ lastLoot' = lastLoot + 1
    /\ loot' = loot \cup {evidence @@ [id |-> lastLoot + 1, severity |-> severity]}

(* DeleteLoot, its write: no row of that id is not an error. *)
Delete(id) ==
    /\ loot' = {e \in loot : e.id # id}
    /\ UNCHANGED lastLoot

(* Mistake: a full buffer is emptied for the newest announcement, which is *)
(* then forgotten too. TableCatchesUp                                      *)
notifyLoot_Reset == LootEntries' = (LootEntries + 1) % (LootCap + 1)

(* A full channel is not waited for. *)
notifyLoot == LootEntries' = Least(LootEntries + 1, LootCap)

(* db.loot_add and db.loot_delete of a plugin, up to the announcement. *)
PluginWrites(g) ==
    /\ Comes("plugin")
    /\ g \notin announcing /\ announcing' = announcing \cup {g}
    /\ \/ \E severity \in Severities, raw \in BOOLEAN :
              Insert(severity, [transaction |-> 0, raw |-> raw])
       \/ \E id \in 1 .. lastLoot : Delete(id)
    /\ UNCHANGED <<tableVars, history, LootEntries, reloads, paneVars, dialogs, fetching>>

PluginAnnounces(g) ==
    /\ g \in announcing /\ announcing' = announcing \ {g}
    /\ notifyLoot
    /\ UNCHANGED <<tableVars, left, loot, lastLoot, history, reloads, paneVars, dialogs,
                   fetching>>

(* ClearHistory or DeleteTransactionsByHostPort, in the History tab. *)
ForgetTransaction ==
    /\ Comes("forget") /\ dialogs = <<>>
    /\ \E t \in history : history' = history \ {t}
    /\ UNCHANGED <<tableVars, loot, lastLoot, LootEntries, announcing, reloads, paneVars,
                   dialogs, fetching>>

-----------------------------------------------------------------------------
(* The goroutine that watches the channel, and its callback.               *)

Watch ==
    /\ LootEntries > 0 /\ LootEntries' = LootEntries - 1
    /\ reloads' = reloads + 1
    /\ UNCHANGED <<tableVars, left, loot, lastLoot, history, announcing, paneVars, dialogs,
                   fetching>>

(* reload: the index of the selection, the pane and the buttons stay. *)
Reload ==
    /\ reloads > 0 /\ reloads' = reloads - 1
    /\ rows' = AllLoot
    /\ UNCHANGED <<selectedID, selectedRow, scrollOffset, draggingThumb, colWidths, left,
                   storeVars, announcing, paneVars, dialogs, fetching>>

-----------------------------------------------------------------------------
(* The tab.  A dialog keeps the clicks from it.                            *)

HasRequest(entry) == entry.transaction # 0 \/ entry.raw

Open(dialog) == dialogs' = Append(dialogs, dialog)

(* OnSelect. *)
SelectEntry(row) ==
    /\ selectedIdx' = row /\ notes' = rows[row + 1].id
    /\ deleteOn' = TRUE /\ viewOn' = HasRequest(rows[row + 1])

Select ==
    /\ dialogs = <<>>
    /\ \E row \in 0 .. Len(rows) - 1 : (TapRow(row) \/ ArrowKey(row)) /\ SelectEntry(row)
    /\ UNCHANGED <<storeVars, announcing, reloads, dialogs, fetching>>

(* The selection as the buttons take it: an index that may be past the end *)
(* of the rows, or another entry's by now.                                 *)
Selected == {rows[i] : i \in {selectedIdx + 1} \cap DOMAIN rows}

(* The Delete button, and the question it asks. *)
DeleteButton ==
    /\ Comes("delete") /\ dialogs = <<>> /\ deleteOn
    /\ \E entry \in Selected : Open([kind |-> "ask", entry |-> entry])
    /\ UNCHANGED <<tableVars, storeVars, announcing, reloads, paneVars, fetching>>

(* TappedSecondary: the menu of a row. *)
RowMenu ==
    /\ Comes("menu") /\ dialogs = <<>>
    /\ \E row \in RowsAtY :
          Open([kind |-> "menu", entry |-> rows[row + 1]])
    /\ UNCHANGED <<tableVars, storeVars, announcing, reloads, paneVars, fetching>>

OnTop(kind) == dialogs # <<>> /\ Last(dialogs).kind = kind

Close == dialogs' = Front(dialogs)

MenuDelete ==
    /\ OnTop("menu")
    /\ dialogs' = Append(Front(dialogs), [kind |-> "ask", entry |-> Last(dialogs).entry])
    /\ UNCHANGED <<tableVars, left, storeVars, announcing, reloads, paneVars, fetching>>

(* Yes: the main goroutine waits for the write, so another goroutine sees  *)
(* the write and the announcement as one step.                             *)
ConfirmDelete ==
    /\ OnTop("ask") /\ Close
    /\ Delete(Last(dialogs).entry.id) /\ notifyLoot
    /\ selectedIdx' = -1 /\ deleteOn' = FALSE /\ notes' = 0
    /\ UNCHANGED <<tableVars, left, history, announcing, reloads, viewOn, fetching>>

(* The Add button, Loot in the Repeater and the Intruder, Send to Loot in  *)
(* the History: showAddDialog with nothing, with texts, with a transaction.*)
Evidence ==
    [transaction : history \cup {0}, raw : {FALSE}] \cup [transaction : {0}, raw : {TRUE}]

ShowAddDialog(evidence) ==
    /\ Comes("add") /\ dialogs = <<>>
    /\ Open([kind |-> "add", evidence |-> evidence])
    /\ UNCHANGED <<tableVars, storeVars, announcing, reloads, paneVars, fetching>>

(* Save, with a title. *)
ConfirmAdd ==
    /\ OnTop("add") /\ Close
    /\ \E severity \in Severities : Insert(severity, Last(dialogs).evidence)
    /\ notifyLoot
    /\ UNCHANGED <<tableVars, left, history, announcing, reloads, paneVars, fetching>>

(* showLinkedRequest: a transaction is read in a goroutine. *)
ShowLinkedRequest(entry, under) ==
    IF entry.transaction # 0
    THEN fetching' = fetching \cup {entry} /\ dialogs' = under
    ELSE dialogs' = Append(under, [kind |-> "request"]) /\ UNCHANGED fetching

ViewRequest ==
    /\ Comes("view") /\ dialogs = <<>> /\ viewOn
    /\ \E entry \in Selected : ShowLinkedRequest(entry, <<>>)
    /\ UNCHANGED <<tableVars, storeVars, announcing, reloads, paneVars>>

MenuView ==
    /\ OnTop("menu") /\ HasRequest(Last(dialogs).entry)
    /\ ShowLinkedRequest(Last(dialogs).entry, Front(dialogs))
    /\ UNCHANGED <<tableVars, left, storeVars, announcing, reloads, paneVars>>

(* GetTransaction, and the dialog over whatever is open by then; nothing   *)
(* opens when the transaction is gone.                                     *)
Fetched(entry) ==
    /\ entry \in fetching /\ fetching' = fetching \ {entry}
    /\ IF entry.transaction \in history THEN Open([kind |-> "request"]) ELSE UNCHANGED dialogs
    /\ UNCHANGED <<tableVars, left, storeVars, announcing, reloads, paneVars>>

(* No, Cancel, Close, Escape, a click beside a menu, Save without a title, *)
(* a deletion that fails.                                                  *)
Dismiss ==
    /\ dialogs # <<>> /\ Close
    /\ UNCHANGED <<tableVars, left, storeVars, announcing, reloads, paneVars, fetching>>

LootNext ==
    \/ \E g \in Plugins : PluginWrites(g) \/ PluginAnnounces(g)
    \/ ForgetTransaction
    \/ Watch \/ Reload
    \/ TableNext /\ dialogs = <<>> /\ UNCHANGED lootVars
    \/ Select
    \/ DeleteButton \/ RowMenu \/ MenuDelete \/ ConfirmDelete
    \/ \E evidence \in Evidence : ShowAddDialog(evidence)
    \/ ConfirmAdd
    \/ ViewRequest \/ MenuView
    \/ \E entry \in fetching : Fetched(entry)
    \/ Dismiss

(* The table catches up with the project however plugins, dialogs and      *)
(* reloads interleave and however full the channel is: "a full buffer      *)
(* means the UI is already scheduled to reload" (store/loot.go:96).        *)
TableCatchesUp == []<>(rows = AllLoot)
=============================================================================
