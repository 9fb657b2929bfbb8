------------------------------ MODULE HistoryTab ------------------------------
(***************************************************************************)
(* The table of the History tab (internal/ui/history.go) over the history  *)
(* rows of the store (internal/store/history.go).                          *)
(*                                                                         *)
(* The main goroutine runs the handlers of the tab and the callbacks that  *)
(* fyne.Do queues, one after another.  Around it run writeLoop, which adds *)
(* rows and announces them on Updates; watchUpdates, which turns each      *)
(* announcement into a callback; and one goroutine per page that is being  *)
(* fetched.                                                                *)
(*                                                                         *)
(* A row is its id (AUTOINCREMENT: never used twice); what a filter looks  *)
(* at in a row is its class.                                               *)
(***************************************************************************)
EXTENDS Integers, Sequences, FiniteSets, SequencesExt

CONSTANTS
    ClassOf,        \* ClassOf[id] is the class of the row that gets this id
    Filters,        \* what currentFilter may return
    NoFilter,       \* the filter of a tab that has just been built
    InPage,         \* InPage[f]: the classes TransactionsPage selects
    Matching,       \* Matching[f]: the classes matchesFilter accepts
    ClientFilters,  \* the filters with a PathPrefix or HideStatic
    OfHost,         \* OfHost[f]: the classes of the host that the site map selects,
                    \* for the filters f that select a host as a whole
    Unselected,     \* Unselected[f]: f without the site map selection
    PageSize,       \* 100 in the code
    UpdateCap,      \* capacity of Updates (256)
    MaxQuery,       \* bound on the calls of loadFirstPage
    MaxPending      \* bound on what is under way when a page load starts

Ids == DOMAIN ClassOf
Classes == {ClassOf[id] : id \in Ids}

(* What a row has to be to come with a page: fetchPage passes rows through *)
(* matchesFilter only for ClientFilters.                                   *)
Selected(f) == IF f \in ClientFilters THEN InPage[f] \cap Matching[f] ELSE InPage[f]

(* Where matchesFilter looks at a field, the SQL condition is at least as  *)
(* strict, but for ClientFilters.  Search is in the SQL only: Matching[f]  *)
(* may be larger than InPage[f].                                           *)
ASSUME HistoryAssumption ==
    /\ ClassOf \in Seq(Classes)
    /\ NoFilter \in Filters /\ ClientFilters \subseteq Filters
    /\ DOMAIN OfHost \subseteq Filters
    /\ InPage \in [Filters -> SUBSET Classes]
    /\ Matching \in [Filters -> SUBSET Classes]
    /\ Unselected \in [Filters -> Filters]
    /\ \A f \in Filters : /\ f \notin ClientFilters => InPage[f] \subseteq Matching[f]
                          /\ Matching[f] \subseteq Matching[Unselected[f]]
                          /\ InPage[f] \subseteq InPage[Unselected[f]]
    /\ PageSize \in Nat \ {0} /\ UpdateCap \in Nat \ {0} /\ MaxQuery \in Nat \ {0}
    /\ MaxPending \in Nat \ {0}

VARIABLES
    last,           \* the last id given to a row
    db,             \* ids of the rows of the history table
    updates,        \* Store.Updates
    callbacks,      \* fyne.Do callbacks not yet run
    loading,        \* page loads whose query runs, oldest first
    loaded,         \* pages read and not yet handed to fyne.Do, oldest first
    filter,         \* what currentFilter returns
    displayed, cursor, loadingMore, hasMore, queryID,   \* of historyTab
    reload,         \* history: whether the first page of the last query is
                    \* on the way, on the table, or could not be read
    live            \* history: the rows on the table that an announcement, and
                    \* not a page, has brought there

storeVars == <<last, db, updates>>
rowVars   == <<displayed, cursor, hasMore, live>>
vars      == <<storeVars, callbacks, loading, loaded, filter, rowVars, loadingMore, queryID, reload>>

Lowest(rows) == IF rows = <<>> THEN 0 ELSE rows[Len(rows)]

(* go func() { ... }(), with what loadFirstPage or loadNextPage captured.   *)
Go(kind, query, from, f) ==
    /\ Len(loading) + Len(loaded) + Len(callbacks) < MaxPending
    /\ loading' = Append(loading, [kind |-> kind, query |-> query, from |-> from, filter |-> f])

(* The tab as build leaves it, on a project that holds no traffic: the     *)
(* last of its calls of loadFirstPage is query 1.  The earlier ones, made  *)
(* while the filter bar is put together, are stale and change nothing.     *)
Init ==
    /\ last = 0 /\ db = {} /\ updates = <<>>
    /\ callbacks = <<>>
    /\ filter = NoFilter
    /\ displayed = <<>> /\ cursor = 0 /\ loadingMore = FALSE /\ hasMore = TRUE
    /\ queryID = 1 /\ reload = "pending" /\ live = {}
    /\ loading = <<[kind |-> "first", query |-> 1, from |-> 0, filter |-> NoFilter]>>
    /\ loaded = <<>>

(* The main goroutine takes the next callback. *)
NextCallback(kind) ==
    /\ callbacks # <<>> /\ Head(callbacks).kind = kind
    /\ callbacks' = Tail(callbacks)

-----------------------------------------------------------------------------
(* Mistakes, one per property.                                             *)

(* ShownMatchFilter: the callback forgets to compare the query ids. *)
ApplyFirstOfAnyQuery ==
    /\ NextCallback("first")
    /\ LET c == Head(callbacks) IN
         /\ loadingMore' = FALSE
         /\ displayed' = c.rows
         /\ cursor' = Lowest(c.rows)
         /\ hasMore' = (c.full /\ c.rows # <<>>)
         /\ live' = {}
         /\ reload' = IF c.query = queryID THEN "shown" ELSE reload
    /\ UNCHANGED <<storeVars, loading, loaded, filter, queryID>>

(* LoadingHasFetch: a stale page leaves loadingMore as it is. *)
ApplyNextStaleForgets ==
    /\ NextCallback("next")
    /\ LET c == Head(callbacks) IN
         \/ c.query # queryID /\ UNCHANGED <<rowVars, loadingMore>>
         \/ /\ c.query = queryID
            /\ displayed' = displayed \o c.rows
            /\ cursor' = IF c.rows = <<>> THEN cursor ELSE Lowest(c.rows)
            /\ hasMore' = c.full
            /\ UNCHANGED live
            /\ loadingMore' = FALSE
    /\ UNCHANGED <<storeVars, loading, loaded, filter, queryID, reload>>

(* ReloadLands: every load takes a query id of its own. *)
LoadNextPageNumbered ==
    /\ displayed # <<>> /\ ~loadingMore /\ hasMore /\ cursor # 0
    /\ queryID < MaxQuery /\ queryID' = queryID + 1 /\ reload' = "pending"
    /\ loadingMore' = TRUE
    /\ Go("next", queryID', cursor, filter)
    /\ UNCHANGED <<storeVars, callbacks, loaded, filter, rowVars>>

-----------------------------------------------------------------------------
(* The store.                                                              *)

(* Log: the row, then its announcement, dropped when Updates is full. *)
Log ==
    /\ last + 1 \in Ids
    /\ last' = last + 1
    /\ db' = db \cup {last'}
    /\ updates' = IF Len(updates) < UpdateCap THEN Append(updates, last') ELSE updates
    /\ UNCHANGED <<callbacks, loading, loaded, filter, rowVars, loadingMore, queryID, reload>>

(* TransactionsPage: the PageSize newest of the selected rows below from,  *)
(* in the order of NewestFirst.                                            *)
SelectedRows(from, f) ==
    {id \in db : (from > 0 => id < from) /\ ClassOf[id] \in InPage[f]}

TransactionsPage(from, f) ==
    LET rows == SelectedRows(from, f)
    IN  {id \in rows : Cardinality({newer \in rows : newer > id}) < PageSize}

(* ORDER BY t.id DESC: the one descending sequence of some rows. *)
NewestFirst(rows) ==
    {s \in [1 .. Cardinality(rows) -> rows] : \A i, j \in DOMAIN s : i < j => s[i] > s[j]}

(* fetchPage: the page without the rows matchesFilter rejects. *)
Kept(page, f) ==
    IF f \in ClientFilters THEN {id \in page : ClassOf[id] \in Matching[f]} ELSE page

-----------------------------------------------------------------------------
(* The goroutines.                                                         *)

WatchReceive ==
    /\ updates # <<>>
    /\ updates' = Tail(updates)
    /\ callbacks' = Append(callbacks, [kind |-> "update", id |-> Head(updates)])
    /\ UNCHANGED <<last, db, loading, loaded, filter, rowVars, loadingMore, queryID, reload>>

FetchRead(i) ==
    /\ LET l == loading[i]
           page == TransactionsPage(l.from, l.filter)
       IN  \E rows \in NewestFirst(Kept(page, l.filter)) :
             loaded' = Append(loaded, [kind |-> l.kind, query |-> l.query, rows |-> rows,
                                       full |-> Cardinality(page) = PageSize])
    /\ loading' = RemoveAt(loading, i)
    /\ UNCHANGED <<storeVars, callbacks, filter, rowVars, loadingMore, queryID, reload>>

(* The query fails: a next page that cannot be loaded may be asked for     *)
(* again.                                                                  *)
FetchFail(i) ==
    /\ loading' = RemoveAt(loading, i)
    /\ \/ /\ loading[i].kind = "first"
          /\ reload' = IF loading[i].query = queryID THEN "failed" ELSE reload
          /\ UNCHANGED loadingMore
       \/ /\ loading[i].kind = "next"
          /\ loadingMore' = FALSE
          /\ UNCHANGED reload
    /\ UNCHANGED <<storeVars, callbacks, loaded, filter, rowVars, queryID>>

(* fyne.Do *)
FetchPost(i) ==
    /\ callbacks' = Append(callbacks, loaded[i])
    /\ loaded' = RemoveAt(loaded, i)
    /\ UNCHANGED <<storeVars, loading, filter, rowVars, loadingMore, queryID, reload>>

-----------------------------------------------------------------------------
(* Callbacks.                                                              *)

(* watchUpdates: a row on the table already, or that matchesFilter rejects,*)
(* is not prepended.                                                       *)
ApplyUpdate ==
    /\ NextCallback("update")
    /\ LET id == Head(callbacks).id IN
         \/ /\ id \notin ToSet(displayed) /\ ClassOf[id] \in Matching[filter]
            /\ displayed' = <<id>> \o displayed
            /\ cursor' = Lowest(displayed')
            /\ live' = live \cup {id}
         \/ /\ id \in ToSet(displayed) \/ ClassOf[id] \notin Matching[filter]
            /\ UNCHANGED <<displayed, cursor, live>>
    /\ UNCHANGED <<storeVars, loading, loaded, filter, hasMore, loadingMore, queryID, reload>>

ApplyFirst ==
    /\ NextCallback("first")
    /\ LET c == Head(callbacks) IN
         \/ /\ c.query # queryID
            /\ UNCHANGED <<rowVars, loadingMore, reload>>
         \/ /\ c.query = queryID
            /\ loadingMore' = FALSE
            /\ displayed' = c.rows
            /\ cursor' = Lowest(c.rows)
            /\ hasMore' = (c.full /\ c.rows # <<>>)
            /\ reload' = "shown" /\ live' = {}
    /\ UNCHANGED <<storeVars, loading, loaded, filter, queryID>>

ApplyNext ==
    /\ NextCallback("next")
    /\ LET c == Head(callbacks) IN
         \/ c.query # queryID /\ UNCHANGED rowVars
         \/ /\ c.query = queryID
            /\ displayed' = displayed \o c.rows
            /\ cursor' = IF c.rows = <<>> THEN cursor ELSE Lowest(c.rows)
            /\ hasMore' = c.full
            /\ UNCHANGED live
    /\ loadingMore' = FALSE
    /\ UNCHANGED <<storeVars, loading, loaded, filter, queryID, reload>>

-----------------------------------------------------------------------------
(* Handlers.                                                               *)

(* loadFirstPage with the filter the tab has now. *)
LoadFirstPage ==
    /\ queryID < MaxQuery /\ queryID' = queryID + 1
    /\ reload' = "pending"
    /\ Go("first", queryID', 0, filter')

(* A field of the filter bar, the site map or the scope has changed. *)
ChangeFilter ==
    /\ filter' \in Filters
    /\ LoadFirstPage
    /\ UNCHANGED <<storeVars, callbacks, loaded, rowVars, loadingMore>>

(* OnNearBottom: fired while the table has rows. *)
LoadNextPage ==
    /\ displayed # <<>>
    /\ ~loadingMore /\ hasMore /\ cursor # 0
    /\ loadingMore' = TRUE
    /\ Go("next", queryID, cursor, filter)
    /\ UNCHANGED <<storeVars, callbacks, loaded, filter, rowVars, queryID, reload>>

ClearHistory ==
    /\ db' = {}
    /\ displayed' = <<>> /\ cursor' = 0 /\ hasMore' = FALSE /\ live' = {}
    /\ filter' = Unselected[filter]
    /\ UNCHANGED <<last, updates, callbacks, loading, loaded, loadingMore, queryID, reload>>

(* The rows are deleted, VACUUM fails: the handler reports an error and    *)
(* leaves the table alone.                                                 *)
ClearHistoryFails ==
    /\ db' = {}
    /\ UNCHANGED <<last, updates, callbacks, loading, loaded, filter, rowVars, loadingMore,
                   queryID, reload>>

(* Delete of the selected host takes all its rows, also those that the     *)
(* other fields of the filter hide.                                        *)
DeleteSelectedHost ==
    /\ filter \in DOMAIN OfHost
    /\ db' = {id \in db : ClassOf[id] \notin OfHost[filter]}
    /\ displayed' = <<>> /\ cursor' = 0 /\ hasMore' = TRUE /\ live' = {}
    /\ filter' = Unselected[filter]
    /\ LoadFirstPage
    /\ UNCHANGED <<last, updates, callbacks, loaded, loadingMore>>

Callback == ApplyUpdate \/ ApplyFirst \/ ApplyNext

Next ==
    \/ Log \/ WatchReceive \/ Callback
    \/ \E i \in DOMAIN loading : FetchRead(i) \/ FetchFail(i)
    \/ \E i \in DOMAIN loaded : FetchPost(i)
    \/ ChangeFilter \/ LoadNextPage
    \/ ClearHistory \/ ClearHistoryFails \/ DeleteSelectedHost

Spec == Init /\ [][Next]_vars

(* The main goroutine runs its callbacks, a query ends and its goroutine   *)
(* goes on: so the oldest of them does.  Nobody has to scroll, to change   *)
(* the filter or to send traffic.                                          *)
FairSpec ==
    /\ Spec
    /\ WF_vars(Callback)
    /\ WF_vars(loading # <<>> /\ (FetchRead(1) \/ FetchFail(1)))
    /\ WF_vars(loaded # <<>> /\ FetchPost(1))

-----------------------------------------------------------------------------
(* Properties.                                                             *)

Loads == [kind : {"first", "next"}, query : 1 .. MaxQuery, from : Ids \cup {0},
          filter : Filters]
Pages == [kind : {"first", "next"}, query : 1 .. MaxQuery, rows : Seq(1 .. last), full : BOOLEAN]

(* The cursor is a row id or 0, "no row" (loadNextPage tests for it), and  *)
(* every row on the table, or on its way there, has been logged.           *)
TypeOK ==
    /\ last \in Ids \cup {0}
    /\ db \subseteq 1 .. last
    /\ updates \in Seq(1 .. last) /\ Len(updates) <= UpdateCap
    /\ callbacks \in Seq(Pages \cup [kind : {"update"}, id : 1 .. last])
    /\ loading \in Seq(Loads) /\ loaded \in Seq(Pages)
    /\ filter \in Filters
    /\ displayed \in Seq(1 .. last)
    /\ cursor \in 0 .. last
    /\ loadingMore \in BOOLEAN /\ hasMore \in BOOLEAN
    /\ queryID \in 1 .. MaxQuery
    /\ reload \in {"pending", "shown", "failed"}
    /\ live \subseteq 1 .. last

(* "queryID increments on every loadFirstPage call. Goroutines check it    *)
(* before writing results so stale responses from old queries are          *)
(* dropped": once the first page of the last query is on the table, every  *)
(* row there is one that the filter selects, however late the pages of old *)
(* queries come; but a row that was announced since only satisfies         *)
(* matchesFilter, which does not know the search text.                     *)
ShownMatchFilter ==
    reload = "shown" =>
      \A id \in ToSet(displayed) :
        \/ ClassOf[id] \in Selected(filter)
        \/ id \in live /\ ClassOf[id] \in Matching[filter]

(* loadingMore never outlives the load it stands for: were it left set,    *)
(* scrolling would never load a page again.                                *)
LoadingHasFetch ==
    loadingMore =>
      \E l \in ToSet(loading) \cup ToSet(loaded) \cup ToSet(callbacks) : l.kind = "next"

(* The last query gets on the table unless its query fails: no other load  *)
(* makes it stale.                                                         *)
ReloadLands ==
    \A q \in 1 .. MaxQuery :
      queryID = q ~> queryID > q \/ reload # "pending"

(* "New traffic is prepended; older rows are appended via infinite scroll":*)
(* when everything has been taken in, a row of the database that the       *)
(* filter selects is on the table or below the cursor, to be loaded.       *)
RowsAreReachable ==
    /\ updates = <<>> /\ callbacks = <<>> /\ loading = <<>> /\ loaded = <<>>
    /\ reload = "shown"
    => \A id \in db :
         ClassOf[id] \in Selected(filter) \cap Matching[filter]
           => id \in ToSet(displayed) \/ (hasMore /\ id < cursor)
=============================================================================
