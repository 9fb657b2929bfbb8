-------------------------- MODULE HistoryTabProofs --------------------------
(***************************************************************************)
(* Proofs about HistoryTab for any rows, filters, page size and capacity.  *)
(***************************************************************************)
EXTENDS HistoryTab, SequenceTheorems, FiniteSetTheorems, TLAPS

(* Every one of these rows is of a class that the filter selects. *)
Matches(rows) == \A id \in ToSet(rows) : ClassOf[id] \in Selected(filter)

(* What is on the way for the last query is of a filter that selects no more*)
(* than the present one, which may have lost its host since; what is not   *)
(* is from earlier queries.                                                *)
LoadingMatches ==
    \A l \in ToSet(loading) :
      /\ l.query <= queryID
      /\ l.query = queryID => Selected(l.filter) \subseteq Selected(filter)

PagesMatch(ps) ==
    \A p \in ToSet(ps) :
      p.kind # "update" => p.query <= queryID /\ (p.query = queryID => Matches(p.rows))

MatchInv ==
    /\ LoadingMatches /\ PagesMatch(loaded) /\ PagesMatch(callbacks)
    /\ ShownMatchFilter

HistoryInv == TypeOK /\ MatchInv /\ LoadingHasFetch

Announcements == [kind : {"update"}, id : 1 .. last]
Messages == Pages \cup Announcements

-----------------------------------------------------------------------------
(* Members of sequences.                                                   *)
LEMMA MembersAre ==
  ASSUME NEW S, NEW s \in Seq(S)
  PROVE  /\ Len(s) \in Nat /\ ToSet(s) = {s[i] : i \in 1 .. Len(s)}
         /\ ToSet(s) \subseteq S
<1>1. Len(s) \in Nat /\ DOMAIN s = 1 .. Len(s)
  BY LenProperties
<1>. QED  BY <1>1, ElementOfSeq DEF ToSet

LEMMA EmptyMembers == ToSet(<<>>) = {}
BY EmptySeq, LenProperties DEF ToSet

LEMMA AppendToSet ==
  ASSUME NEW S, NEW s \in Seq(S), NEW x \in S
  PROVE  Append(s, x) \in Seq(S) /\ ToSet(Append(s, x)) = ToSet(s) \cup {x}
<1>1. /\ Append(s, x) \in Seq(S) /\ Len(Append(s, x)) = Len(s) + 1
      /\ \A i \in 1 .. Len(s) : Append(s, x)[i] = s[i]
      /\ Append(s, x)[Len(s) + 1] = x
  BY AppendProperties
<1>2. /\ Len(s) \in Nat /\ ToSet(s) = {s[i] : i \in 1 .. Len(s)}
      /\ ToSet(Append(s, x)) = {Append(s, x)[i] : i \in 1 .. Len(s) + 1}
  BY <1>1, MembersAre
<1>3. \A i \in 1 .. Len(s) + 1 : i \in 1 .. Len(s) \/ i = Len(s) + 1
  BY <1>2
<1>4. \A y \in ToSet(Append(s, x)) : y \in ToSet(s) \/ y = x
  BY <1>1, <1>2, <1>3
<1>5. \A y \in ToSet(s) : y \in ToSet(Append(s, x))
  <2>1. ASSUME NEW i \in 1 .. Len(s) PROVE s[i] \in ToSet(Append(s, x))
    <3>1. i \in 1 .. Len(s) + 1 /\ s[i] = Append(s, x)[i]
      BY <1>1, <1>2
    <3>. QED  BY <1>2, <3>1
  <2>. QED  BY <1>2, <2>1
<1>6. x \in ToSet(Append(s, x))
  <2>1. Len(s) + 1 \in 1 .. Len(s) + 1
    BY <1>2
  <2>. QED  BY <1>1, <1>2, <2>1
<1>. QED  BY <1>1, <1>4, <1>5, <1>6

LEMMA TailToSet ==
  ASSUME NEW S, NEW s \in Seq(S), s # <<>>
  PROVE  /\ Tail(s) \in Seq(S) /\ Head(s) \in S /\ Head(s) \in ToSet(s)
         /\ Len(Tail(s)) = Len(s) - 1
         /\ ToSet(s) = ToSet(Tail(s)) \cup {Head(s)}
<1>1. /\ Len(s) \in Nat \ {0} /\ Tail(s) \in Seq(S) /\ Head(s) = s[1]
      /\ Len(Tail(s)) = Len(s) - 1 /\ \A i \in 1 .. Len(s) - 1 : Tail(s)[i] = s[i + 1]
  BY HeadTailProperties, EmptySeq
<1>2. /\ ToSet(s) = {s[i] : i \in 1 .. Len(s)} /\ ToSet(s) \subseteq S
      /\ ToSet(Tail(s)) = {Tail(s)[i] : i \in 1 .. Len(s) - 1}
  BY <1>1, MembersAre
<1>3. \A y \in ToSet(s) : y \in ToSet(Tail(s)) \/ y = s[1]
  <2>1. ASSUME NEW i \in 1 .. Len(s), i # 1 PROVE s[i] \in ToSet(Tail(s))
    <3>1. i - 1 \in 1 .. Len(s) - 1 /\ s[i] = Tail(s)[i - 1]
      BY <1>1, <2>1
    <3>. QED  BY <1>2, <3>1
  <2>. QED  BY <1>2, <2>1
<1>4. \A y \in ToSet(Tail(s)) : y \in ToSet(s)
  <2>1. ASSUME NEW i \in 1 .. Len(s) - 1 PROVE Tail(s)[i] \in ToSet(s)
    <3>1. i + 1 \in 1 .. Len(s) /\ Tail(s)[i] = s[i + 1]
      BY <1>1
    <3>. QED  BY <1>2, <3>1
  <2>. QED  BY <1>2, <2>1
<1>5. Head(s) \in ToSet(s)
  <2>1. 1 \in 1 .. Len(s)
    BY <1>1
  <2>. QED  BY <1>1, <1>2, <2>1
<1>. QED  BY <1>1, <1>2, <1>3, <1>4, <1>5

LEMMA ConcatToSet ==
  ASSUME NEW S, NEW s \in Seq(S), NEW t \in Seq(S)
  PROVE  s \o t \in Seq(S) /\ ToSet(s \o t) = ToSet(s) \cup ToSet(t)
<1>1. /\ s \o t \in Seq(S) /\ Len(s \o t) = Len(s) + Len(t)
      /\ \A i \in 1 .. Len(s) + Len(t) :
           (s \o t)[i] = IF i <= Len(s) THEN s[i] ELSE t[i - Len(s)]
  BY ConcatProperties
<1>2. /\ Len(s) \in Nat /\ ToSet(s) = {s[i] : i \in 1 .. Len(s)}
      /\ Len(t) \in Nat /\ ToSet(t) = {t[i] : i \in 1 .. Len(t)}
      /\ ToSet(s \o t) = {(s \o t)[i] : i \in 1 .. Len(s) + Len(t)}
  BY <1>1, MembersAre
<1>3. ASSUME NEW i \in 1 .. Len(s) + Len(t) PROVE (s \o t)[i] \in ToSet(s) \cup ToSet(t)
  <2>1. CASE i <= Len(s)
    <3>1. i \in 1 .. Len(s) /\ (s \o t)[i] = s[i]
      BY <1>1, <1>2, <2>1
    <3>. QED  BY <1>2, <3>1
  <2>2. CASE ~(i <= Len(s))
    <3>1. i - Len(s) \in 1 .. Len(t) /\ (s \o t)[i] = t[i - Len(s)]
      BY <1>1, <1>2, <2>2
    <3>. QED  BY <1>2, <3>1
  <2>. QED  BY <2>1, <2>2
<1>4. ASSUME NEW i \in 1 .. Len(s) PROVE s[i] \in ToSet(s \o t)
  <2>1. i \in 1 .. Len(s) + Len(t) /\ s[i] = (s \o t)[i]
    BY <1>1, <1>2
  <2>. QED  BY <1>2, <2>1
<1>5. ASSUME NEW i \in 1 .. Len(t) PROVE t[i] \in ToSet(s \o t)
  <2>1. i + Len(s) \in 1 .. Len(s) + Len(t) /\ t[i] = (s \o t)[i + Len(s)]
    BY <1>1, <1>2
  <2>. QED  BY <1>2, <2>1
<1>. QED  BY <1>1, <1>2, <1>3, <1>4, <1>5

(* Taking out the i-th member leaves all others.                           *)
LEMMA RemoveAtToSet ==
  ASSUME NEW S, NEW s \in Seq(S), NEW i \in DOMAIN s
  PROVE  /\ RemoveAt(s, i) \in Seq(S) /\ s[i] \in ToSet(s)
         /\ ToSet(s) = ToSet(RemoveAt(s, i)) \cup {s[i]}
<1>. DEFINE u == SubSeq(s, 1, i - 1)
            v == SubSeq(s, i + 1, Len(s))
<1>1. Len(s) \in Nat /\ i \in 1 .. Len(s) /\ ToSet(s) = {s[j] : j \in 1 .. Len(s)}
      /\ \A j \in 1 .. Len(s) : s[j] \in S
  BY MembersAre, LenProperties, ElementOfSeq
<1>2. u \in Seq(S) /\ Len(u) = i - 1 /\ \A j \in 1 .. i - 1 : u[j] = s[j]
  <2>1. \A j \in 1 .. i - 1 : s[j] \in S
    BY <1>1
  <2>. HIDE DEF u
  <2>2. u \in Seq(S) /\ Len(u) = (IF 1 <= i - 1 THEN i - 1 - 1 + 1 ELSE 0)
        /\ \A j \in 1 .. i - 1 - 1 + 1 : u[j] = s[1 + j - 1]
    BY <1>1, <2>1, SubSeqProperties DEF u
  <2>. QED  BY <1>1, <2>2
<1>3. v \in Seq(S) /\ Len(v) = Len(s) - i /\ \A j \in 1 .. Len(s) - i : v[j] = s[i + j]
  <2>1. \A j \in i + 1 .. Len(s) : s[j] \in S
    BY <1>1
  <2>. HIDE DEF v
  <2>2. v \in Seq(S) /\ Len(v) = (IF i + 1 <= Len(s) THEN Len(s) - (i + 1) + 1 ELSE 0)
        /\ \A j \in 1 .. Len(s) - (i + 1) + 1 : v[j] = s[i + 1 + j - 1]
    BY <1>1, <2>1, SubSeqProperties DEF v
  <2>. QED  BY <1>1, <2>2
<1>4. RemoveAt(s, i) = u \o v
  BY DEF RemoveAt
<1>. HIDE DEF u, v
<1>5. /\ RemoveAt(s, i) \in Seq(S) /\ ToSet(RemoveAt(s, i)) = ToSet(u) \cup ToSet(v)
      /\ ToSet(u) = {u[j] : j \in 1 .. i - 1} /\ ToSet(v) = {v[j] : j \in 1 .. Len(s) - i}
  BY <1>2, <1>3, <1>4, ConcatToSet, MembersAre
<1>6. \A y \in ToSet(u) \cup ToSet(v) : y \in ToSet(s)
  <2>1. ASSUME NEW j \in 1 .. i - 1 PROVE u[j] \in ToSet(s)
    BY <1>1, <1>2
  <2>2. ASSUME NEW j \in 1 .. Len(s) - i PROVE v[j] \in ToSet(s)
    <3>1. i + j \in 1 .. Len(s) /\ v[j] = s[i + j]
      BY <1>1, <1>3
    <3>. QED  BY <1>1, <3>1
  <2>. QED  BY <1>5, <2>1, <2>2
<1>7. ASSUME NEW j \in 1 .. Len(s), j # i PROVE s[j] \in ToSet(u) \cup ToSet(v)
  <2>1. CASE j < i
    <3>1. j \in 1 .. i - 1 /\ s[j] = u[j]
      BY <1>1, <1>2, <2>1
    <3>. QED  BY <1>5, <3>1
  <2>2. CASE j > i
    <3>1. j - i \in 1 .. Len(s) - i /\ i + (j - i) = j
      BY <1>1, <2>2
    <3>2. v[j - i] = s[j]
      BY <1>3, <3>1
    <3>. QED  BY <1>5, <3>1, <3>2
  <2>. QED  BY <1>1, <1>7, <2>1, <2>2
<1>8. s[i] \in ToSet(s)
  BY <1>1
<1>9. \A y \in ToSet(s) : y = s[i] \/ y \in ToSet(RemoveAt(s, i))
  BY <1>1, <1>5, <1>7
<1>. QED  BY <1>5, <1>6, <1>8, <1>9

-----------------------------------------------------------------------------
(* What the database returns.                                              *)
LEMMA IdsAre == Ids = 1 .. Len(ClassOf) /\ Len(ClassOf) \in Nat
BY LenProperties, HistoryAssumption DEF Ids

(* Without its host a filter selects no less.                              *)
LEMMA UnselectedSelects ==
  ASSUME NEW f \in Filters
  PROVE  Selected(f) \subseteq Selected(Unselected[f])
BY HistoryAssumption DEF Selected

(* A page holds rows of the database that its filter selects.              *)
LEMMA PageRows ==
  ASSUME TypeOK, NEW from \in Ids \cup {0}, NEW f \in Filters,
         NEW rows \in NewestFirst(Kept(TransactionsPage(from, f), f))
  PROVE  /\ rows \in Seq(1 .. last)
         /\ \A id \in ToSet(rows) : ClassOf[id] \in Selected(f)
<1>. DEFINE page == TransactionsPage(from, f)
            kept == Kept(page, f)
<1>1. page \subseteq 1 .. last /\ \A id \in page : ClassOf[id] \in InPage[f]
  BY DEF TransactionsPage, SelectedRows, TypeOK
<1>2. kept \subseteq 1 .. last /\ \A id \in kept : ClassOf[id] \in Selected(f)
  BY <1>1 DEF Kept, Selected
<1>3. IsFiniteSet(1 .. last)
  BY IdsAre, FS_Interval DEF TypeOK
<1>4. Cardinality(kept) \in Nat
  BY <1>2, <1>3, FS_Subset, FS_CardinalityType
<1>. HIDE DEF kept
<1>5. rows \in [1 .. Cardinality(kept) -> kept]
  BY DEF NewestFirst, kept
<1>6. rows \in Seq(kept)
  BY <1>4, <1>5
<1>7. ToSet(rows) \subseteq kept
  BY <1>6, MembersAre
<1>8. rows \in Seq(1 .. last)
  BY <1>2, <1>6, SeqMonotonic
<1>. QED  BY <1>2, <1>7, <1>8

(* The cursor is the id of the last row, or 0.                             *)
LEMMA LowestType ==
  ASSUME last \in Nat, NEW rows \in Seq(1 .. last)
  PROVE  Lowest(rows) \in 0 .. last
<1>1. rows # <<>> => Len(rows) \in 1 .. Len(rows)
  BY EmptySeq
<1>2. rows # <<>> => rows[Len(rows)] \in 1 .. last
  BY <1>1, ElementOfSeq
<1>. QED  BY <1>2 DEF Lowest

-----------------------------------------------------------------------------
(* The invariant holds of a tab that has just been built.                  *)
LEMMA HistoryInvInit == Init => HistoryInv
<1>. SUFFICES ASSUME Init PROVE HistoryInv
  OBVIOUS
<1>. DEFINE l == [kind |-> "first", query |-> 1, from |-> 0, filter |-> NoFilter]
<1>1. l \in Loads
  BY HistoryAssumption DEF Loads
<1>2. loading = <<l>> /\ loading \in Seq(Loads) /\ ToSet(loading) = {l}
  <2>1. loading = <<l>>
    BY DEF Init
  <2>. HIDE DEF l
  <2>2. <<l>> \in Seq(Loads) /\ Len(<<l>>) = 1 /\ <<l>>[1] = l
    BY <1>1
  <2>3. ToSet(<<l>>) = {<<l>>[j] : j \in 1 .. 1}
    BY <2>2, MembersAre
  <2>. QED  BY <2>1, <2>2, <2>3
<1>3. loadingMore \in BOOLEAN /\ hasMore \in BOOLEAN
  BY Zenon DEF Init
<1>4. TypeOK
  <2>1. last = 0 /\ db = {} /\ cursor = 0 /\ queryID \in 1 .. MaxQuery /\ filter \in Filters
        /\ reload = "pending" /\ live = {}
    BY HistoryAssumption DEF Init
  <2>2. updates \in Seq(1 .. last) /\ callbacks \in Seq(Messages) /\ loaded \in Seq(Pages)
        /\ displayed \in Seq(1 .. last) /\ Len(updates) = 0
    BY EmptySeq DEF Init
  <2>. QED  BY <1>2, <1>3, <2>1, <2>2, HistoryAssumption DEF TypeOK, Messages, Announcements
<1>5. LoadingMatches
  BY <1>2 DEF Init, LoadingMatches
<1>6. PagesMatch(loaded) /\ PagesMatch(callbacks)
  BY EmptyMembers DEF Init, PagesMatch
<1>7. ShownMatchFilter /\ LoadingHasFetch
  BY DEF Init, ShownMatchFilter, LoadingHasFetch
<1>. QED  BY <1>4, <1>5, <1>6, <1>7 DEF HistoryInv, MatchInv

-----------------------------------------------------------------------------
(* The store and the goroutines.                                           *)

(* A new row changes nothing but the store.                                *)
LEMMA HistoryInvLog ==
  ASSUME HistoryInv, Log
  PROVE  HistoryInv'
<1>. USE DEF HistoryInv
<1>1. /\ last' = last + 1 /\ last' \in Ids /\ db' = db \cup {last'} /\ last \in Nat
      /\ UNCHANGED <<callbacks, loading, loaded, filter, displayed, cursor, hasMore, live,
                     loadingMore, queryID, reload>>
  BY IdsAre DEF Log, rowVars, TypeOK
<1>2. 1 .. last \subseteq 1 .. last' /\ last' \in 1 .. last' /\ 0 .. last \subseteq 0 .. last'
  BY <1>1
<1>3. updates' \in Seq(1 .. last') /\ Len(updates') <= UpdateCap
  <2>1. updates \in Seq(1 .. last') /\ Len(updates) \in Nat
    BY <1>2, SeqMonotonic, LenProperties DEF TypeOK
  <2>2. updates' = IF Len(updates) < UpdateCap THEN Append(updates, last') ELSE updates
    BY DEF Log
  <2>3. CASE Len(updates) < UpdateCap
    <3>1. Append(updates, last') \in Seq(1 .. last') /\ Len(Append(updates, last')) = Len(updates) + 1
      BY <1>2, <2>1, AppendProperties
    <3>. QED  BY <2>1, <2>2, <2>3, <3>1, HistoryAssumption
  <2>. QED  BY <2>1, <2>2, <2>3 DEF TypeOK
<1>4. displayed' \in Seq(1 .. last')
  BY <1>1, <1>2, SeqMonotonic DEF TypeOK
<1>5. Pages \subseteq Pages' /\ Announcements \subseteq Announcements'
  <2>1. Seq(1 .. last) \subseteq Seq(1 .. last')
    BY <1>2, SeqMonotonic
  <2>. QED  BY <1>2, <2>1 DEF Pages, Announcements
<1>6. callbacks' \in Seq(Messages') /\ loaded' \in Seq(Pages')
  <2>1. callbacks \in Seq(Messages) /\ loaded \in Seq(Pages)
    BY DEF TypeOK, Messages, Announcements
  <2>2. Messages \subseteq Messages'
    BY <1>5 DEF Messages
  <2>. QED  BY <1>1, <1>5, <2>1, <2>2, SeqMonotonic
<1>7. TypeOK'
  <2>1. loadingMore' \in BOOLEAN /\ hasMore' \in BOOLEAN
    BY <1>1, Zenon DEF TypeOK
  <2>. QED  BY <1>1, <1>2, <1>3, <1>4, <1>6, <2>1 DEF TypeOK, Messages, Announcements, Loads
<1>8. MatchInv' /\ LoadingHasFetch'
  BY <1>1 DEF MatchInv, LoadingMatches, PagesMatch, Matches, ShownMatchFilter, LoadingHasFetch
<1>. QED  BY <1>7, <1>8

(* An announcement becomes a callback.                                     *)
LEMMA HistoryInvWatch ==
  ASSUME HistoryInv, WatchReceive
  PROVE  HistoryInv'
<1>. USE DEF HistoryInv
<1>. DEFINE c == [kind |-> "update", id |-> Head(updates)]
<1>1. /\ updates # <<>> /\ updates' = Tail(updates) /\ callbacks' = Append(callbacks, c)
      /\ UNCHANGED <<last, db, loading, loaded, filter, displayed, cursor, hasMore, live,
                     loadingMore, queryID, reload>>
  BY DEF WatchReceive, rowVars
<1>2. /\ updates' \in Seq(1 .. last) /\ Len(updates') = Len(updates) - 1 /\ Len(updates) \in Nat
      /\ Head(updates) \in 1 .. last
  BY <1>1, TailToSet, LenProperties DEF TypeOK
<1>3. /\ callbacks' \in Seq(Messages) /\ ToSet(callbacks') = ToSet(callbacks) \cup {c}
  <2>1. c \in Messages /\ callbacks \in Seq(Messages)
    BY <1>2 DEF TypeOK, Messages, Announcements
  <2>. HIDE DEF c
  <2>. QED  BY <1>1, <2>1, AppendToSet
<1>4. TypeOK'
  <2>1. loadingMore' \in BOOLEAN /\ hasMore' \in BOOLEAN
    BY <1>1, Zenon DEF TypeOK
  <2>. QED  BY <1>1, <1>2, <1>3, <2>1, HistoryAssumption DEF TypeOK, Messages, Announcements, Loads, Pages
<1>5. MatchInv'
  BY <1>1, <1>3 DEF MatchInv, LoadingMatches, PagesMatch, Matches, ShownMatchFilter
<1>6. LoadingHasFetch'
  BY <1>1, <1>3 DEF LoadingHasFetch
<1>. QED  BY <1>4, <1>5, <1>6

(* A query is answered: its rows are of its filter.                        *)
LEMMA HistoryInvRead ==
  ASSUME HistoryInv, NEW i \in DOMAIN loading, FetchRead(i)
  PROVE  HistoryInv'
<1>. USE DEF HistoryInv
<1>. DEFINE l == loading[i]
            page == TransactionsPage(l.from, l.filter)
<1>1. /\ loading' = RemoveAt(loading, i)
      /\ UNCHANGED <<last, db, updates, callbacks, filter, displayed, cursor, hasMore, live,
                     loadingMore, queryID, reload>>
  BY DEF FetchRead, storeVars, rowVars
<1>2. PICK rows \in NewestFirst(Kept(page, l.filter)) :
        loaded' = Append(loaded, [kind |-> l.kind, query |-> l.query, rows |-> rows,
                                  full |-> Cardinality(page) = PageSize])
  BY DEF FetchRead
<1>3. /\ loading' \in Seq(Loads) /\ l \in ToSet(loading) /\ l \in Loads
      /\ ToSet(loading) = ToSet(loading') \cup {l}
  BY <1>1, RemoveAtToSet, MembersAre DEF TypeOK
<1>. DEFINE p == [kind |-> l.kind, query |-> l.query, rows |-> rows,
                  full |-> Cardinality(page) = PageSize]
<1>4. rows \in Seq(1 .. last) /\ \A id \in ToSet(rows) : ClassOf[id] \in Selected(l.filter)
  BY <1>2, <1>3, PageRows DEF Loads
<1>5. p \in Pages
  <2>1. (Cardinality(page) = PageSize) \in BOOLEAN
    OBVIOUS
  <2>. HIDE DEF page
  <2>. QED  BY <1>3, <1>4, <2>1 DEF Loads, Pages
<1>6. loaded' = Append(loaded, p)
  BY <1>2
<1>7. /\ loaded' \in Seq(Pages) /\ ToSet(loaded') = ToSet(loaded) \cup {p}
  BY <1>5, <1>6, AppendToSet DEF TypeOK
<1>8. p.kind = l.kind /\ p.query = l.query /\ p.rows = rows
  OBVIOUS
<1>. HIDE DEF p, l
<1>9. TypeOK'
  <2>1. loadingMore' \in BOOLEAN /\ hasMore' \in BOOLEAN
    BY <1>1, Zenon DEF TypeOK
  <2>. QED  BY <1>1, <1>3, <1>7, <2>1 DEF TypeOK, Loads, Pages
<1>10. MatchInv'
  <2>1. LoadingMatches' /\ PagesMatch(callbacks)' /\ ShownMatchFilter'
    BY <1>1, <1>3 DEF MatchInv, LoadingMatches, PagesMatch, Matches, ShownMatchFilter
  <2>2. p.query <= queryID /\ (p.query = queryID => Matches(p.rows))
    BY <1>3, <1>4, <1>8 DEF MatchInv, LoadingMatches, Matches
  <2>3. PagesMatch(loaded)'
    BY <1>1, <1>7, <2>2 DEF MatchInv, PagesMatch, Matches
  <2>. QED  BY <2>1, <2>3 DEF MatchInv
<1>11. LoadingHasFetch'
  BY <1>1, <1>3, <1>7, <1>8 DEF LoadingHasFetch
<1>. QED  BY <1>9, <1>10, <1>11

(* A query fails; no load of a next page is forgotten by loadingMore.      *)
LEMMA HistoryInvFail ==
  ASSUME HistoryInv, NEW i \in DOMAIN loading, FetchFail(i)
  PROVE  HistoryInv'
<1>. USE DEF HistoryInv
<1>. DEFINE l == loading[i]
<1>1. /\ loading' = RemoveAt(loading, i)
      /\ UNCHANGED <<last, db, updates, callbacks, loaded, filter, displayed, cursor, hasMore, live,
                     queryID>>
  BY DEF FetchFail, storeVars, rowVars
<1>2. /\ loading' \in Seq(Loads) /\ l \in Loads
      /\ ToSet(loading) = ToSet(loading') \cup {l}
  BY <1>1, RemoveAtToSet, MembersAre DEF TypeOK
<1>3. /\ reload' \in {"failed", reload}
      /\ \/ l.kind = "first" /\ loadingMore' = loadingMore
         \/ l.kind = "next" /\ loadingMore' = FALSE
  <2>1. \/ l.kind = "first" /\ loadingMore' = loadingMore
        \/ l.kind = "next" /\ loadingMore' = FALSE
    BY Zenon DEF FetchFail
  <2>. QED  BY <2>1 DEF FetchFail
<1>4. TypeOK'
  <2>1. loadingMore' \in BOOLEAN /\ hasMore' \in BOOLEAN
    BY <1>1, <1>3, Zenon DEF TypeOK
  <2>. QED  BY <1>1, <1>2, <1>3, <2>1 DEF TypeOK, Loads, Pages
<1>5. MatchInv'
  BY <1>1, <1>2, <1>3 DEF MatchInv, LoadingMatches, PagesMatch, Matches, ShownMatchFilter
<1>. HIDE DEF l
<1>6. LoadingHasFetch'
  BY <1>1, <1>2, <1>3 DEF LoadingHasFetch
<1>. QED  BY <1>4, <1>5, <1>6

LEMMA HistoryInvPost ==
  ASSUME HistoryInv, NEW i \in DOMAIN loaded, FetchPost(i)
  PROVE  HistoryInv'
<1>. USE DEF HistoryInv
<1>. DEFINE p == loaded[i]
<1>1. /\ loaded' = RemoveAt(loaded, i) /\ callbacks' = Append(callbacks, p)
      /\ UNCHANGED <<last, db, updates, loading, filter, displayed, cursor, hasMore, live,
                     loadingMore, queryID, reload>>
  BY DEF FetchPost, storeVars, rowVars
<1>2. /\ loaded' \in Seq(Pages) /\ p \in Pages
      /\ ToSet(loaded) = ToSet(loaded') \cup {p}
  BY <1>1, RemoveAtToSet, MembersAre DEF TypeOK
<1>. HIDE DEF p
<1>3. callbacks' \in Seq(Messages) /\ ToSet(callbacks') = ToSet(callbacks) \cup {p}
  <2>1. p \in Messages /\ callbacks \in Seq(Messages)
    BY <1>2 DEF TypeOK, Messages, Announcements
  <2>. QED  BY <1>1, <2>1, AppendToSet
<1>4. TypeOK'
  <2>1. loadingMore' \in BOOLEAN /\ hasMore' \in BOOLEAN
    BY <1>1, Zenon DEF TypeOK
  <2>. QED  BY <1>1, <1>2, <1>3, <2>1 DEF TypeOK, Messages, Announcements, Loads, Pages
<1>5. MatchInv'
  BY <1>1, <1>2, <1>3 DEF MatchInv, LoadingMatches, PagesMatch, Matches, ShownMatchFilter
<1>6. LoadingHasFetch'
  BY <1>1, <1>2, <1>3 DEF LoadingHasFetch
<1>. QED  BY <1>4, <1>5, <1>6

-----------------------------------------------------------------------------
(* Callbacks.                                                              *)
LEMMA TakenCallback ==
  ASSUME HistoryInv, NEW kind, NextCallback(kind)
  PROVE  /\ callbacks' \in Seq(Messages)
         /\ Head(callbacks).kind = kind /\ Head(callbacks) \in ToSet(callbacks)
         /\ ToSet(callbacks) = ToSet(callbacks') \cup {Head(callbacks)}
         /\ kind \in {"first", "next"} => Head(callbacks) \in Pages
         /\ kind = "update" => Head(callbacks).id \in 1 .. last
<1>1. callbacks \in Seq(Messages) /\ callbacks # <<>> /\ callbacks' = Tail(callbacks)
      /\ Head(callbacks).kind = kind
  BY DEF HistoryInv, TypeOK, Messages, Announcements, NextCallback
<1>2. /\ callbacks' \in Seq(Messages) /\ Head(callbacks) \in Messages
      /\ Head(callbacks) \in ToSet(callbacks)
      /\ ToSet(callbacks) = ToSet(callbacks') \cup {Head(callbacks)}
  BY <1>1, TailToSet
<1>3. kind \in {"first", "next"} => Head(callbacks) \in Pages
  BY <1>1, <1>2 DEF Messages, Announcements
<1>4. kind = "update" => Head(callbacks).id \in 1 .. last
  BY <1>1, <1>2 DEF Messages, Announcements, Pages
<1>. QED  BY <1>1, <1>2, <1>3, <1>4

(* A new row is prepended if the filter shows it.                          *)
LEMMA HistoryInvUpdate ==
  ASSUME HistoryInv, ApplyUpdate
  PROVE  HistoryInv'
<1>. USE DEF HistoryInv
<1>. DEFINE id == Head(callbacks).id
<1>1. /\ NextCallback("update")
      /\ UNCHANGED <<last, db, updates, loading, loaded, filter, hasMore, loadingMore,
                     queryID, reload>>
  BY DEF ApplyUpdate, storeVars
<1>2. /\ callbacks' \in Seq(Messages) /\ Head(callbacks).kind = "update"
      /\ ToSet(callbacks) = ToSet(callbacks') \cup {Head(callbacks)}
      /\ id \in 1 .. last
  BY <1>1, TakenCallback
<1>. HIDE DEF id
<1>3. \/ /\ ClassOf[id] \in Matching[filter] /\ displayed' = <<id>> \o displayed
         /\ cursor' = Lowest(displayed') /\ live' = live \cup {id}
      \/ UNCHANGED <<displayed, cursor, live>>
  BY DEF ApplyUpdate, id
<1>4. /\ displayed' \in Seq(1 .. last) /\ cursor' \in 0 .. last /\ live' \subseteq 1 .. last
      /\ live \subseteq live'
      /\ \A x \in ToSet(displayed') :
           x \in ToSet(displayed) \/ (x \in live' /\ ClassOf[x] \in Matching[filter])
  <2>1. displayed \in Seq(1 .. last) /\ cursor \in 0 .. last /\ last \in Nat
        /\ live \subseteq 1 .. last
    BY IdsAre DEF TypeOK
  <2>2. CASE /\ ClassOf[id] \in Matching[filter] /\ displayed' = <<id>> \o displayed
             /\ cursor' = Lowest(displayed') /\ live' = live \cup {id}
    <3>. DEFINE one == <<id>>
    <3>1. one \in Seq(1 .. last) /\ Len(one) = 1 /\ one[1] = id
      BY <1>2
    <3>2. displayed' = one \o displayed
      BY <2>2
    <3>. HIDE DEF one
    <3>3. ToSet(one) = {one[j] : j \in 1 .. 1}
      BY <3>1, MembersAre
    <3>4. ToSet(one) = {id}
      BY <3>1, <3>3
    <3>5. displayed' \in Seq(1 .. last) /\ ToSet(displayed') = {id} \cup ToSet(displayed)
      BY <2>1, <3>1, <3>4, <3>2, ConcatToSet
    <3>6. cursor' \in 0 .. last
      BY <2>1, <2>2, <3>5, LowestType
    <3>7. live' \subseteq 1 .. last /\ live \subseteq live' /\ id \in live'
      BY <1>2, <2>1, <2>2
    <3>. QED  BY <2>2, <3>5, <3>6, <3>7
  <2>. QED  BY <1>3, <2>1, <2>2
<1>5. TypeOK'
  <2>1. loadingMore' \in BOOLEAN /\ hasMore' \in BOOLEAN
    BY <1>1, Zenon DEF TypeOK
  <2>. QED  BY <1>1, <1>2, <1>4, <2>1 DEF TypeOK, Messages, Announcements, Loads, Pages
<1>6. MatchInv'
  <2>1. LoadingMatches' /\ PagesMatch(loaded)' /\ PagesMatch(callbacks)'
    BY <1>1, <1>2 DEF MatchInv, LoadingMatches, PagesMatch, Matches
  <2>2. ShownMatchFilter'
    BY <1>1, <1>4 DEF MatchInv, ShownMatchFilter
  <2>. QED  BY <2>1, <2>2 DEF MatchInv
<1>7. LoadingHasFetch'
  BY <1>1, <1>2 DEF LoadingHasFetch
<1>. QED  BY <1>5, <1>6, <1>7

(* The first page replaces the table, if it is of the last query.          *)
LEMMA HistoryInvFirst ==
  ASSUME HistoryInv, ApplyFirst
  PROVE  HistoryInv'
<1>. USE DEF HistoryInv
<1>. DEFINE c == Head(callbacks)
<1>1. /\ NextCallback("first")
      /\ UNCHANGED <<last, db, updates, loading, loaded, filter, queryID>>
  BY DEF ApplyFirst, storeVars
<1>2. /\ callbacks' \in Seq(Messages) /\ c.kind = "first" /\ c \in Pages
      /\ c \in ToSet(callbacks) /\ ToSet(callbacks) = ToSet(callbacks') \cup {c}
  BY <1>1, TakenCallback
<1>3. \/ UNCHANGED <<displayed, cursor, hasMore, live, loadingMore, reload>>
      \/ /\ c.query = queryID /\ loadingMore' = FALSE /\ displayed' = c.rows
         /\ cursor' = Lowest(c.rows) /\ reload' = "shown" /\ live' = {}
  BY DEF ApplyFirst, rowVars
<1>4. c.query = queryID => Matches(c.rows)
  BY <1>2 DEF MatchInv, PagesMatch
<1>5. loadingMore' \in BOOLEAN /\ hasMore' \in BOOLEAN
  BY Zenon DEF ApplyFirst, rowVars, TypeOK
<1>. HIDE DEF c
<1>6. TypeOK'
  <2>1. c.rows \in Seq(1 .. last) /\ last \in Nat
    BY <1>2, IdsAre DEF Pages, TypeOK
  <2>2. displayed' \in Seq(1 .. last) /\ cursor' \in 0 .. last
        /\ reload' \in {"pending", "shown", "failed"} /\ live' \subseteq 1 .. last
    BY <1>3, <2>1, LowestType DEF TypeOK
  <2>. QED  BY <1>1, <1>2, <1>5, <2>2 DEF TypeOK, Messages, Announcements, Loads, Pages
<1>7. MatchInv'
  <2>1. LoadingMatches' /\ PagesMatch(loaded)' /\ PagesMatch(callbacks)'
    BY <1>1, <1>2 DEF MatchInv, LoadingMatches, PagesMatch, Matches
  <2>2. ShownMatchFilter'
    BY <1>1, <1>3, <1>4 DEF MatchInv, ShownMatchFilter, Matches
  <2>. QED  BY <2>1, <2>2 DEF MatchInv
<1>8. LoadingHasFetch'
  BY <1>1, <1>2, <1>3 DEF LoadingHasFetch
<1>. QED  BY <1>6, <1>7, <1>8

(* The next page is appended, if it is of the last query.                  *)
LEMMA HistoryInvNext ==
  ASSUME HistoryInv, ApplyNext
  PROVE  HistoryInv'
<1>. USE DEF HistoryInv
<1>. DEFINE c == Head(callbacks)
<1>1. /\ NextCallback("next") /\ loadingMore' = FALSE
      /\ UNCHANGED <<last, db, updates, loading, loaded, filter, queryID, reload>>
  BY DEF ApplyNext, storeVars
<1>2. /\ callbacks' \in Seq(Messages) /\ c \in Pages
      /\ c \in ToSet(callbacks) /\ ToSet(callbacks) = ToSet(callbacks') \cup {c}
      /\ c.kind = "next"
  BY <1>1, TakenCallback
<1>0. live' = live
  BY DEF ApplyNext, rowVars
<1>3. \/ UNCHANGED <<displayed, cursor, hasMore>>
      \/ /\ c.query = queryID /\ displayed' = displayed \o c.rows
         /\ cursor' = IF c.rows = <<>> THEN cursor ELSE Lowest(c.rows)
         /\ hasMore' = c.full
  BY DEF ApplyNext, rowVars
<1>4. c.query = queryID => Matches(c.rows)
  BY <1>2 DEF MatchInv, PagesMatch
<1>5. loadingMore' \in BOOLEAN
  BY <1>1
<1>. HIDE DEF c
<1>6. hasMore' \in BOOLEAN
  <2>1. c.full \in BOOLEAN /\ hasMore \in BOOLEAN
    BY <1>2 DEF Pages, TypeOK
  <2>. QED  BY <1>3, <2>1, Zenon
<1>7. /\ displayed' \in Seq(1 .. last) /\ cursor' \in 0 .. last
      /\ \/ ToSet(displayed') = ToSet(displayed)
         \/ c.query = queryID /\ ToSet(displayed') = ToSet(displayed) \cup ToSet(c.rows)
  <2>1. c.rows \in Seq(1 .. last) /\ last \in Nat /\ displayed \in Seq(1 .. last)
        /\ cursor \in 0 .. last
    BY <1>2, IdsAre DEF Pages, TypeOK
  <2>2. displayed \o c.rows \in Seq(1 .. last)
        /\ ToSet(displayed \o c.rows) = ToSet(displayed) \cup ToSet(c.rows)
    BY <2>1, ConcatToSet
  <2>3. CASE UNCHANGED <<displayed, cursor, hasMore>>
    BY <2>1, <2>3
  <2>4. CASE /\ c.query = queryID /\ displayed' = displayed \o c.rows
             /\ cursor' = IF c.rows = <<>> THEN cursor ELSE Lowest(c.rows)
    <3>1. cursor' \in 0 .. last
      BY <2>1, <2>4, LowestType
    <3>. QED  BY <2>2, <2>4, <3>1
  <2>. QED  BY <1>3, <2>3, <2>4
<1>8. TypeOK'
  BY <1>0, <1>1, <1>2, <1>5, <1>6, <1>7 DEF TypeOK, Messages, Announcements, Loads, Pages
<1>9. MatchInv'
  <2>1. LoadingMatches' /\ PagesMatch(loaded)' /\ PagesMatch(callbacks)'
    BY <1>1, <1>2 DEF MatchInv, LoadingMatches, PagesMatch, Matches
  <2>2. ShownMatchFilter'
    BY <1>0, <1>1, <1>4, <1>7 DEF MatchInv, ShownMatchFilter, Matches
  <2>. QED  BY <2>1, <2>2 DEF MatchInv
<1>10. LoadingHasFetch'
  BY <1>1 DEF LoadingHasFetch
<1>. QED  BY <1>8, <1>9, <1>10

-----------------------------------------------------------------------------
(* Handlers.                                                               *)

(* A new query makes everything on the way stale.                          *)
LEMMA ReloadKeeps ==
  ASSUME HistoryInv, LoadFirstPage, filter' \in Filters
  PROVE  /\ loading' \in Seq(Loads) /\ LoadingMatches'
         /\ queryID' \in 1 .. MaxQuery /\ reload' = "pending"
         /\ loaded' = loaded => PagesMatch(loaded)'
         /\ callbacks' = callbacks => PagesMatch(callbacks)'
         /\ \A x \in ToSet(loading) : x \in ToSet(loading')
<1>. USE DEF HistoryInv
<1>. DEFINE l == [kind |-> "first", query |-> queryID + 1, from |-> 0, filter |-> filter']
<1>1. /\ queryID' = queryID + 1 /\ queryID \in Nat /\ queryID' \in 1 .. MaxQuery
      /\ reload' = "pending" /\ loading' = Append(loading, l)
  BY HistoryAssumption DEF LoadFirstPage, Go, TypeOK
<1>2. l \in Loads /\ l.query = queryID' /\ l.filter = filter'
  BY <1>1 DEF Loads
<1>. HIDE DEF l
<1>3. loading' \in Seq(Loads) /\ ToSet(loading') = ToSet(loading) \cup {l}
  BY <1>1, <1>2, AppendToSet DEF TypeOK
<1>4. \A x \in ToSet(loading) : x \in Loads /\ x.query <= queryID
  BY MembersAre DEF TypeOK, MatchInv, LoadingMatches
<1>5. LoadingMatches'
  <2>1. ASSUME NEW x \in ToSet(loading') PROVE x = l \/ (x.query \in Nat /\ x.query <= queryID)
    BY <1>3, <1>4, HistoryAssumption DEF Loads
  <2>. QED  BY <1>1, <1>2, <2>1 DEF LoadingMatches
<1>6. ASSUME NEW ps, ps \in Seq(Messages), PagesMatch(ps)
      PROVE  \A p \in ToSet(ps) : p.kind # "update" => p.query <= queryID' /\ p.query # queryID'
  <2>1. SUFFICES ASSUME NEW p \in ToSet(ps), p.kind # "update"
                 PROVE  p.query <= queryID' /\ p.query # queryID'
    OBVIOUS
  <2>2. p \in Messages
    BY <1>6, MembersAre
  <2>3. p.query \in Nat
    BY <2>1, <2>2 DEF Messages, Announcements, Pages
  <2>4. p.query <= queryID
    BY <1>6, <2>1 DEF PagesMatch
  <2>. QED  BY <1>1, <2>3, <2>4
<1>7. loaded \in Seq(Messages) /\ callbacks \in Seq(Messages)
      /\ PagesMatch(loaded) /\ PagesMatch(callbacks)
  <2>1. loaded \in Seq(Pages) /\ Pages \subseteq Messages
    BY DEF TypeOK, Messages
  <2>. QED  BY <2>1, SeqMonotonic DEF TypeOK, Messages, Announcements, MatchInv
<1>8. loaded' = loaded => PagesMatch(loaded)'
  BY <1>6, <1>7 DEF PagesMatch
<1>9. callbacks' = callbacks => PagesMatch(callbacks)'
  BY <1>6, <1>7 DEF PagesMatch
<1>. QED  BY <1>1, <1>3, <1>5, <1>8, <1>9

LEMMA HistoryInvChange ==
  ASSUME HistoryInv, ChangeFilter
  PROVE  HistoryInv'
<1>. USE DEF HistoryInv
<1>1. /\ filter' \in Filters /\ LoadFirstPage
      /\ UNCHANGED <<last, db, updates, callbacks, loaded, displayed, cursor, hasMore, live, loadingMore>>
  BY DEF ChangeFilter, storeVars, rowVars
<1>2. TypeOK'
  <2>1. loadingMore' \in BOOLEAN /\ hasMore' \in BOOLEAN
    BY <1>1, Zenon DEF TypeOK
  <2>. QED  BY <1>1, <2>1, ReloadKeeps DEF TypeOK, Loads, Pages
<1>3. MatchInv'
  BY <1>1, ReloadKeeps DEF MatchInv, ShownMatchFilter
<1>4. LoadingHasFetch'
  BY <1>1, ReloadKeeps DEF LoadingHasFetch
<1>. QED  BY <1>2, <1>3, <1>4

LEMMA HistoryInvDelete ==
  ASSUME HistoryInv, DeleteSelectedHost
  PROVE  HistoryInv'
<1>. USE DEF HistoryInv
<1>1. /\ db' \subseteq db /\ displayed' = <<>> /\ cursor' = 0 /\ live' = {}
      /\ filter' = Unselected[filter] /\ LoadFirstPage
      /\ UNCHANGED <<last, updates, callbacks, loaded, loadingMore>>
  BY DEF DeleteSelectedHost
<1>2. filter' \in Filters
  BY <1>1, HistoryAssumption DEF TypeOK
<1>3. TypeOK'
  <2>1. loadingMore' \in BOOLEAN /\ hasMore' \in BOOLEAN
    BY <1>1, Zenon DEF TypeOK, DeleteSelectedHost
  <2>2. displayed' \in Seq(1 .. last) /\ cursor' \in 0 .. last
    BY <1>1, IdsAre, EmptySeq DEF TypeOK
  <2>. QED  BY <1>1, <1>2, <2>1, <2>2, ReloadKeeps DEF TypeOK, Loads, Pages
<1>4. MatchInv'
  BY <1>1, <1>2, ReloadKeeps DEF MatchInv, ShownMatchFilter
<1>5. LoadingHasFetch'
  BY <1>1, <1>2, ReloadKeeps DEF LoadingHasFetch
<1>. QED  BY <1>3, <1>4, <1>5

(* A load of the next page, for the rows on the table.                     *)
LEMMA HistoryInvLoadNext ==
  ASSUME HistoryInv, LoadNextPage
  PROVE  HistoryInv'
<1>. USE DEF HistoryInv
<1>. DEFINE l == [kind |-> "next", query |-> queryID, from |-> cursor, filter |-> filter]
<1>1. /\ loadingMore' = TRUE /\ loading' = Append(loading, l)
      /\ UNCHANGED <<last, db, updates, callbacks, loaded, filter, displayed, cursor, hasMore, live,
                     queryID, reload>>
  BY DEF LoadNextPage, Go, storeVars, rowVars
<1>2. l \in Loads /\ l.query = queryID /\ l.filter = filter /\ l.kind = "next"
  BY IdsAre DEF Loads, TypeOK
<1>. HIDE DEF l
<1>3. loading' \in Seq(Loads) /\ ToSet(loading') = ToSet(loading) \cup {l}
  BY <1>1, <1>2, AppendToSet DEF TypeOK
<1>4. TypeOK'
  <2>1. loadingMore' \in BOOLEAN /\ hasMore' \in BOOLEAN
    BY <1>1, Zenon DEF TypeOK
  <2>. QED  BY <1>1, <1>3, <2>1 DEF TypeOK, Loads, Pages
<1>5. MatchInv'
  <2>1. queryID \in Nat
    BY HistoryAssumption DEF TypeOK
  <2>. QED  BY <1>1, <1>2, <1>3, <2>1 DEF MatchInv, LoadingMatches, PagesMatch, Matches, ShownMatchFilter
<1>6. LoadingHasFetch'
  BY <1>2, <1>3 DEF LoadingHasFetch
<1>. QED  BY <1>4, <1>5, <1>6

(* The cleared table shows no row the filter hides; what is on the way is  *)
(* of a filter that selects no more than the one without a host.           *)
LEMMA HistoryInvClear ==
  ASSUME HistoryInv, ClearHistory
  PROVE  HistoryInv'
<1>. USE DEF HistoryInv
<1>1. /\ db' = {} /\ displayed' = <<>> /\ cursor' = 0 /\ live' = {} /\ filter' = Unselected[filter]
      /\ UNCHANGED <<last, updates, callbacks, loading, loaded, loadingMore, queryID, reload>>
  BY DEF ClearHistory
<1>2. filter' \in Filters /\ Selected(filter) \subseteq Selected(filter')
  BY <1>1, UnselectedSelects, HistoryAssumption DEF TypeOK
<1>3. TypeOK'
  <2>1. loadingMore' \in BOOLEAN /\ hasMore' \in BOOLEAN
    BY <1>1, Zenon DEF TypeOK, ClearHistory
  <2>2. displayed' \in Seq(1 .. last) /\ cursor' \in 0 .. last
    BY <1>1, IdsAre, EmptySeq DEF TypeOK
  <2>. QED  BY <1>1, <1>2, <2>1, <2>2 DEF TypeOK, Loads, Pages
<1>4. MatchInv'
  <2>1. LoadingMatches' /\ PagesMatch(loaded)' /\ PagesMatch(callbacks)'
    BY <1>1, <1>2 DEF MatchInv, LoadingMatches, PagesMatch, Matches
  <2>2. ShownMatchFilter'
    BY <1>1, EmptyMembers DEF ShownMatchFilter
  <2>. QED  BY <2>1, <2>2 DEF MatchInv
<1>5. LoadingHasFetch'
  BY <1>1 DEF LoadingHasFetch
<1>. QED  BY <1>3, <1>4, <1>5

(* Rows leave the database, and nothing else changes.                      *)
LEMMA HistoryInvDatabase ==
  ASSUME HistoryInv, db' \subseteq db,
         UNCHANGED <<last, updates, callbacks, loading, loaded, filter, rowVars, loadingMore,
                     queryID, reload>>
  PROVE  HistoryInv'
<1>. USE DEF HistoryInv
<1>1. UNCHANGED <<last, updates, callbacks, loading, loaded, filter, displayed, cursor, hasMore, live,
                  loadingMore, queryID, reload>>
  BY DEF rowVars
<1>2. loadingMore' \in BOOLEAN /\ hasMore' \in BOOLEAN
  BY <1>1, Zenon DEF TypeOK
<1>3. TypeOK'
  BY <1>1, <1>2 DEF TypeOK, Loads, Pages
<1>4. MatchInv' /\ LoadingHasFetch'
  BY <1>1 DEF MatchInv, LoadingMatches, PagesMatch, Matches, ShownMatchFilter, LoadingHasFetch
<1>. QED  BY <1>3, <1>4

(* The invariant is inductive.                                             *)
LEMMA HistoryInvStep == HistoryInv /\ [Next]_vars => HistoryInv'
<1>1. ASSUME HistoryInv, UNCHANGED vars PROVE HistoryInv'
  BY <1>1, HistoryInvDatabase DEF vars, storeVars
<1>2. ASSUME HistoryInv, ClearHistoryFails PROVE HistoryInv'
  BY <1>2, HistoryInvDatabase DEF ClearHistoryFails
<1>. QED
  BY <1>1, <1>2, HistoryInvLog, HistoryInvWatch, HistoryInvRead, HistoryInvFail, HistoryInvPost,
     HistoryInvUpdate, HistoryInvFirst, HistoryInvNext, HistoryInvChange, HistoryInvDelete,
     HistoryInvLoadNext, HistoryInvClear DEF Next, Callback

(* The cursor is 0 or the id of a row that has been logged, as are the     *)
(* rows of the table and of every page.                                    *)
THEOREM HistoryTypeCorrect == Spec => []TypeOK
BY HistoryInvInit, HistoryInvStep, PTL DEF Spec, HistoryInv

(* Pages of old queries, however late, never bring a hidden row onto the   *)
(* table of the last query.                                                *)
THEOREM LatePagesAreDropped == Spec => []ShownMatchFilter
BY HistoryInvInit, HistoryInvStep, PTL DEF Spec, HistoryInv, MatchInv

(* loadingMore stands for a load that will still clear it.                 *)
THEOREM LoadingIsNotForgotten == Spec => []LoadingHasFetch
BY HistoryInvInit, HistoryInvStep, PTL DEF Spec, HistoryInv
=============================================================================
