-------------------------- MODULE WorkbenchProofs --------------------------
(***************************************************************************)
(* What the Repeater and the table of the Loot tab keep, for any number of *)
(* tabs, sends, connections and drags: the rows of the project are in the  *)
(* order of their positions (RowsInv) and are the tabs on the screen       *)
(* (TabsInv), a response stays with the request the user asked for         *)
(* (PairsInv), a connection that lives is the one its tab holds            *)
(* (SocketsInv), and the columns keep to their widths (WidthsInv).         *)
(***************************************************************************)
EXTENDS Workbench, FiniteSetTheorems, SequenceTheorems, WellFoundedInduction, TLAPS

BenchAssumption == TableAssumption /\ RepeaterAssumption

-----------------------------------------------------------------------------
(* The rows.                                                               *)

Answers == [asked : Contents, sent : Contents]

TabRows == [type : {"http", "websocket"}, request : Contents, response : Answers,
            position : Nat \ {0}]

(* s is what a query ordered by position returns.                          *)
Lists(s) == s \in Seq(DOMAIN saved) /\ ToSet(s) = DOMAIN saved /\ Ordered(s)

DistinctPositions == \A t, u \in DOMAIN saved : saved[t].position = saved[u].position => t = u

RowsInv ==
    /\ lastTab \in Nat
    /\ saved \in [DOMAIN saved -> TabRows] /\ DOMAIN saved \subseteq 1 .. lastTab
    /\ \E s : Lists(s)
    /\ DistinctPositions

LEMMA RowFacts ==
    ASSUME RowsInv
    PROVE  \A t \in DOMAIN saved :
              saved[t] \in TabRows /\ saved[t].position \in Nat \ {0} /\ t \in 1 .. lastTab /\ t # 0
  BY DEF RowsInv, TabRows

(* A list has every row once. *)
LEMMA ListFacts ==
    ASSUME RowsInv, NEW s, Lists(s)
    PROVE  /\ Len(s) \in Nat /\ DOMAIN s = 1 .. Len(s)
           /\ \A i \in DOMAIN s : s[i] \in DOMAIN saved
           /\ \A t \in DOMAIN saved : \E i \in DOMAIN s : s[i] = t
           /\ \A i, j \in DOMAIN s : i < j => saved[s[i]].position < saved[s[j]].position
           /\ \A i, j \in DOMAIN s : s[i] = s[j] => i = j
  <1>1. Len(s) \in Nat /\ DOMAIN s = 1 .. Len(s) /\ \A i \in DOMAIN s : s[i] \in DOMAIN saved
    BY DEF Lists
  <1>2. \A t \in DOMAIN saved : \E i \in DOMAIN s : s[i] = t
    BY DEF Lists, ToSet
  <1>3. \A i, j \in DOMAIN s : i < j => saved[s[i]].position < saved[s[j]].position
    BY <1>1 DEF Lists, Ordered
  <1>4. ASSUME NEW i \in DOMAIN s, NEW j \in DOMAIN s, s[i] = s[j]  PROVE i = j
    <2>1. i \in Nat /\ j \in Nat
      BY <1>1
    <2>2. saved[s[i]].position \in Nat
      BY <1>1, RowFacts
    <2>3. ~(i < j) /\ ~(j < i)
      BY <1>3, <1>4, <2>2
    <2> QED
      BY <2>1, <2>3
  <1> QED
    BY <1>1, <1>2, <1>3, <1>4

(* The position of a new row is behind all others: the last of a list has  *)
(* the greatest.                                                           *)
LEMMA NextIsBehind ==
    ASSUME RowsInv
    PROVE  /\ NextPosition \in Nat \ {0}
           /\ \A t \in DOMAIN saved : saved[t].position < NextPosition
  <1>1. CASE DOMAIN saved = {}
    BY <1>1 DEF NextPosition, TakenPositions
  <1>2. CASE DOMAIN saved # {}
    <2>0. PICK s : Lists(s)
      BY DEF RowsInv
    <2> DEFINE n == Len(s)
               top == saved[s[n]].position
    <2>1. n \in Nat /\ n \in DOMAIN s /\ s[n] \in DOMAIN saved /\ top \in Nat \ {0}
      BY <1>2, <2>0, ListFacts, RowFacts
    <2>2. \A t \in DOMAIN saved : saved[t].position <= top
      <3> TAKE t \in DOMAIN saved
      <3>1. PICK i \in DOMAIN s : s[i] = t
        BY <2>0, ListFacts
      <3>2. i \in 1 .. n
        BY <2>0, <3>1, ListFacts
      <3>3. saved[t].position \in Nat
        BY RowFacts
      <3>4. CASE i = n
        BY <2>1, <3>1, <3>4
      <3>5. CASE i < n
        BY <2>0, <2>1, <3>1, <3>3, <3>5, ListFacts
      <3> QED
        BY <2>1, <3>2, <3>4, <3>5
    <2>3. top \in TakenPositions /\ \A x \in TakenPositions : x \in Nat /\ top >= x
      BY <2>1, <2>2, RowFacts DEF TakenPositions
    <2> HIDE DEF top, n
    <2>4. /\ Max(TakenPositions) \in TakenPositions
          /\ \A x \in TakenPositions : Max(TakenPositions) >= x
      BY <2>3 DEF Max
    <2>5. Max(TakenPositions) \in Nat
      BY <2>3, <2>4
    <2>6. \A t \in DOMAIN saved : saved[t].position \in TakenPositions
      BY DEF TakenPositions
    <2>7. NextPosition = 1 + Max(TakenPositions)
      BY <2>3 DEF NextPosition
    <2> QED
      BY <2>3, <2>4, <2>5, <2>6, <2>7
  <1> QED
    BY <1>1, <1>2

(* A new row is the last. *)
LEMMA SavesRow ==
    ASSUME RepeaterAssumption, RowsInv, NEW type \in {"http", "websocket"}, NEW text \in Contents,
           NEW new, new = lastTab + 1, SaveRepeaterTab(type, text)
    PROVE  /\ RowsInv' /\ lastTab' = new /\ new \in Nat /\ new # 0 /\ new \notin DOMAIN saved
           /\ DOMAIN saved' = DOMAIN saved \cup {new}
           /\ \A t \in DOMAIN saved : saved'[t] = saved[t]
           /\ saved'[new].response = NoAnswer
           /\ \A t \in DOMAIN saved : saved[t].position < saved'[new].position
  <1> DEFINE row == [type |-> type, request |-> text, response |-> NoAnswer,
                     position |-> NextPosition]
  <1>1. /\ lastTab \in Nat /\ new \in Nat /\ new # 0 /\ lastTab' = new /\ new \notin DOMAIN saved
    BY RowFacts DEF RowsInv, SaveRepeaterTab
  <1>2. row \in TabRows /\ row.position = NextPosition /\ row.response = NoAnswer
    BY NextIsBehind DEF TabRows, Contents, Answers, NoAnswer
  <1>3. /\ DOMAIN saved' = DOMAIN saved \cup {new}
        /\ saved'[new] = row
        /\ \A t \in DOMAIN saved : saved'[t] = saved[t]
    BY <1>1 DEF SaveRepeaterTab, Extended
  <1>4. saved' = [x \in DOMAIN saved' |-> saved'[x]]
    BY DEF SaveRepeaterTab, Extended
  <1> HIDE DEF row
  <1>5. saved' \in [DOMAIN saved' -> TabRows] /\ DOMAIN saved' \subseteq 1 .. lastTab'
    <2>1. \A t \in DOMAIN saved' : saved'[t] \in TabRows
      BY <1>1, <1>2, <1>3, RowFacts
    <2>2. DOMAIN saved' \subseteq 1 .. lastTab'
      BY <1>1, <1>3 DEF RowsInv
    <2> QED
      BY <1>4, <2>1, <2>2
  <1>6. \A t \in DOMAIN saved : saved[t].position < saved'[new].position
    BY <1>2, <1>3, NextIsBehind
  <1>7. PICK s : Lists(s)
    BY DEF RowsInv
  <1>8. PICK more : more = Append(s, new)
    OBVIOUS
  <1>9. /\ more \in Seq(DOMAIN saved') /\ DOMAIN more = 1 .. Len(s) + 1 /\ Len(s) \in Nat
        /\ \A i \in DOMAIN s : more[i] = s[i]
        /\ more[Len(s) + 1] = new
    <2>1. s \in Seq(DOMAIN saved') /\ new \in DOMAIN saved'
      <3>1. \A i \in 1 .. Len(s) : s[i] \in DOMAIN saved'
        BY <1>3, <1>7, ListFacts
      <3>2. s = [i \in 1 .. Len(s) |-> s[i]] /\ Len(s) \in Nat
        BY <1>7 DEF Lists
      <3> QED
        BY <1>3, <3>1, <3>2, SeqDef
    <2> QED
      BY <1>8, <2>1
  <1>10. ToSet(more) = DOMAIN saved'
    <2>1. \A i \in DOMAIN more : more[i] \in DOMAIN saved'
      BY <1>9
    <2>2. \A t \in DOMAIN saved' : \E i \in DOMAIN more : more[i] = t
      BY <1>3, <1>7, <1>9, ListFacts
    <2> QED
      BY <2>1, <2>2 DEF ToSet
  <1>11. ASSUME NEW i \in DOMAIN more, NEW j \in DOMAIN more, i < j
         PROVE  saved'[more[i]].position < saved'[more[j]].position
    <2>1. i \in DOMAIN s /\ s[i] \in DOMAIN saved
      BY <1>7, <1>9, <1>11, ListFacts
    <2>2. CASE j = Len(s) + 1
      BY <1>3, <1>6, <1>9, <2>1, <2>2
    <2>3. CASE j \in DOMAIN s
      BY <1>3, <1>7, <1>9, <1>11, <2>1, <2>3, ListFacts
    <2> QED
      BY <1>7, <1>9, <2>2, <2>3, ListFacts
  <1>12. Lists(more)'
    BY <1>9, <1>10, <1>11 DEF Lists, Ordered
  <1>13. DistinctPositions'
    <2> SUFFICES ASSUME NEW t \in DOMAIN saved', NEW u \in DOMAIN saved',
                        saved'[t].position = saved'[u].position
                 PROVE  t = u
      BY DEF DistinctPositions
    <2>1. \A v \in DOMAIN saved : saved[v].position \in Nat /\ NextPosition \in Nat
      BY RowFacts, NextIsBehind
    <2> QED
      BY <1>2, <1>3, <1>6, <2>1 DEF RowsInv, DistinctPositions
  <1> QED
    BY <1>1, <1>2, <1>3, <1>5, <1>6, <1>12, <1>13 DEF RowsInv

LEMMA RemoveFacts ==
    ASSUME NEW S, NEW s \in Seq(S), NEW k \in 1 .. Len(s)
    PROVE  /\ RemoveAt(s, k) \in Seq(S) /\ Len(RemoveAt(s, k)) = Len(s) - 1
           /\ \A i \in 1 .. Len(s) - 1 : RemoveAt(s, k)[i] = IF i < k THEN s[i] ELSE s[i + 1]
  <1>1. Len(s) \in Nat /\ k \in Nat
    OBVIOUS
  <1> DEFINE a == SubSeq(s, 1, k - 1)
             b == SubSeq(s, k + 1, Len(s))
  <1>2. a \in Seq(S) /\ Len(a) = k - 1 /\ \A i \in 1 .. k - 1 : a[i] = s[i]
    BY <1>1
  <1>3. b \in Seq(S) /\ Len(b) = Len(s) - k /\ \A i \in 1 .. Len(s) - k : b[i] = s[k + i]
    BY <1>1
  <1>4. RemoveAt(s, k) = a \o b
    BY DEF RemoveAt
  <1> HIDE DEF a, b
  <1>5. RemoveAt(s, k) \in Seq(S) /\ Len(RemoveAt(s, k)) = Len(s) - 1
    <2>1. RemoveAt(s, k) \in Seq(S) /\ Len(RemoveAt(s, k)) = Len(a) + Len(b)
      BY <1>2, <1>3, <1>4, ConcatProperties
    <2> QED
      BY <1>1, <1>2, <1>3, <2>1
  <1>6. ASSUME NEW i \in 1 .. Len(s) - 1
        PROVE  RemoveAt(s, k)[i] = IF i < k THEN s[i] ELSE s[i + 1]
    <2>1. CASE i < k
      BY <1>1, <1>2, <1>3, <1>4, <2>1
    <2>2. CASE ~(i < k)
      <3>1. i - Len(a) \in 1 .. Len(s) - k /\ k + (i - Len(a)) = i + 1
        BY <1>1, <1>2, <2>2
      <3>2. (a \o b)[i] = b[i - Len(a)]
        BY <1>1, <1>2, <1>3, <2>2
      <3> QED
        BY <1>3, <1>4, <2>2, <3>1, <3>2
    <2> QED
      BY <2>1, <2>2
  <1> QED
    BY <1>5, <1>6

(* s without its k-th: what stays is in its order. *)
Without(s, k, r) ==
    \E At \in [DOMAIN r -> DOMAIN s] :
        /\ \A i \in DOMAIN r : r[i] = s[At[i]] /\ At[i] # k
        /\ \A i, j \in DOMAIN r : i < j => At[i] < At[j]
        /\ \A i \in DOMAIN s : i # k => \E j \in DOMAIN r : At[j] = i

LEMMA RemovedIsWithout ==
    ASSUME NEW S, NEW s \in Seq(S), NEW k \in 1 .. Len(s), NEW r, r = RemoveAt(s, k)
    PROVE  Without(s, k, r) /\ r \in Seq(S)
  <1> DEFINE n == Len(s)
             At == [i \in 1 .. n - 1 |-> IF i < k THEN i ELSE i + 1]
  <1>1. n \in Nat /\ k \in Nat /\ DOMAIN s = 1 .. n
    OBVIOUS
  <1>2. /\ r \in Seq(S) /\ DOMAIN r = 1 .. n - 1
        /\ \A i \in 1 .. n - 1 : r[i] = IF i < k THEN s[i] ELSE s[i + 1]
    <2>1. r \in Seq(S) /\ Len(r) = n - 1
      BY RemoveFacts
    <2>2. DOMAIN r = 1 .. n - 1
      BY <2>1, LenProperties
    <2> QED
      BY <2>1, <2>2, RemoveFacts
  <1>3. At \in [DOMAIN r -> DOMAIN s] /\ \A i \in DOMAIN r : r[i] = s[At[i]] /\ At[i] # k
    BY <1>1, <1>2
  <1>4. \A i, j \in DOMAIN r : i < j => At[i] < At[j]
    BY <1>1, <1>2
  <1>5. ASSUME NEW i \in DOMAIN s, i # k  PROVE \E j \in DOMAIN r : At[j] = i
    <2>1. CASE i < k
      <3>1. i \in DOMAIN r /\ At[i] = i
        BY <1>1, <1>2, <2>1
      <3> QED
        BY <3>1
    <2>2. CASE i > k
      <3>1. i - 1 \in DOMAIN r /\ At[i - 1] = i
        BY <1>1, <1>2, <2>2
      <3> QED
        BY <3>1
    <2>3. i \in Nat
      BY <1>1
    <2> HIDE DEF At
    <2> QED
      BY <1>1, <1>5, <2>1, <2>2, <2>3
  <1> HIDE DEF At
  <1> QED
    BY <1>2, <1>3, <1>4, <1>5 DEF Without

LEMMA DropsRow ==
    ASSUME RowsInv, NEW t, DeleteRepeaterTab(t), lastTab' = lastTab
    PROVE  /\ RowsInv' /\ DOMAIN saved' = DOMAIN saved \ {t}
           /\ \A u \in DOMAIN saved' : saved'[u] = saved[u]
  <1>1. /\ saved' = [u \in DOMAIN saved \ {t} |-> saved[u]]
        /\ DOMAIN saved' = DOMAIN saved \ {t}
        /\ \A u \in DOMAIN saved' : saved'[u] = saved[u]
    BY DEF DeleteRepeaterTab
  <1>2. saved' \in [DOMAIN saved' -> TabRows] /\ DOMAIN saved' \subseteq 1 .. lastTab'
    BY <1>1 DEF RowsInv
  <1>3. DistinctPositions'
    BY <1>1 DEF RowsInv, DistinctPositions
  <1>4. PICK s : Lists(s)
    BY DEF RowsInv
  <1>5. CASE t \notin DOMAIN saved
    <2>1. saved' = saved
      BY <1>1, <1>5 DEF RowsInv
    <2>2. Lists(s)'
      BY <1>4, <2>1 DEF Lists, Ordered
    <2> QED
      BY <1>1, <1>2, <1>3, <2>2 DEF RowsInv
  <1>6. CASE t \in DOMAIN saved
    <2>1. PICK k \in DOMAIN s : s[k] = t
      BY <1>4, <1>6, ListFacts
    <2>2. PICK r : r = RemoveAt(s, k)
      OBVIOUS
    <2>3. k \in 1 .. Len(s) /\ s \in Seq(DOMAIN saved)
      BY <1>4, <2>1, ListFacts DEF Lists
    <2>4. Without(s, k, r) /\ r \in Seq(DOMAIN saved)
      BY <2>2, <2>3, RemovedIsWithout
    <2>5. PICK At \in [DOMAIN r -> DOMAIN s] :
            /\ \A i \in DOMAIN r : r[i] = s[At[i]] /\ At[i] # k
            /\ \A i, j \in DOMAIN r : i < j => At[i] < At[j]
            /\ \A i \in DOMAIN s : i # k => \E j \in DOMAIN r : At[j] = i
      BY <2>4 DEF Without
    <2>6. \A i \in DOMAIN r : At[i] \in DOMAIN s /\ r[i] \in DOMAIN saved'
      BY <1>1, <1>4, <2>1, <2>5, ListFacts
    <2>7. \A u \in DOMAIN saved' : \E i \in DOMAIN r : r[i] = u
      <3> TAKE u \in DOMAIN saved'
      <3>1. PICK i \in DOMAIN s : s[i] = u /\ i # k
        BY <1>1, <1>4, <2>1, ListFacts
      <3> QED
        BY <2>5, <3>1
    <2>8. r \in Seq(DOMAIN saved')
      <3>1. r = [i \in 1 .. Len(r) |-> r[i]] /\ Len(r) \in Nat /\ DOMAIN r = 1 .. Len(r)
        BY <2>4
      <3> QED
        BY <2>6, <3>1, SeqDef
    <2>9. Ordered(r)'
      <3> SUFFICES ASSUME NEW i \in DOMAIN r, NEW j \in DOMAIN r, i < j
                   PROVE  saved'[r[i]].position < saved'[r[j]].position
        BY DEF Ordered
      <3>1. saved[s[At[i]]].position < saved[s[At[j]]].position
        BY <1>4, <2>5, <2>6, ListFacts
      <3> QED
        BY <1>1, <2>5, <2>6, <3>1
    <2>10. ToSet(r) = DOMAIN saved'
      BY <2>6, <2>7 DEF ToSet
    <2>11. Lists(r)'
      BY <2>8, <2>9, <2>10 DEF Lists
    <2> QED
      BY <1>1, <1>2, <1>3, <2>11 DEF RowsInv
  <1> QED
    BY <1>5, <1>6

(* A save leaves a row where it is. *)
LEMMA ChangesRow ==
    ASSUME RowsInv, NEW t, NEW text \in Contents, NEW response \in Answers,
           UpdateRepeaterTab(t, text, response)
    PROVE  /\ RowsInv' /\ DOMAIN saved' = DOMAIN saved /\ lastTab' = lastTab /\ orphans' = orphans
           /\ \A u \in DOMAIN saved :
                 /\ saved'[u].position = saved[u].position
                 /\ \/ saved'[u].request = saved[u].request /\ saved'[u].response = saved[u].response
                    \/ saved'[u].request = text /\ saved'[u].response = response
  <1>1. lastTab' = lastTab /\ orphans' = orphans
    BY DEF UpdateRepeaterTab
  <1>2. /\ DOMAIN saved' = DOMAIN saved /\ saved' = [u \in DOMAIN saved' |-> saved'[u]]
        /\ \A u \in DOMAIN saved :
              /\ saved'[u] \in TabRows /\ saved'[u].position = saved[u].position
              /\ \/ saved'[u].request = saved[u].request /\ saved'[u].response = saved[u].response
                 \/ saved'[u].request = text /\ saved'[u].response = response
    <2>1. CASE UNCHANGED saved
      BY <2>1 DEF RowsInv
    <2>2. CASE saved' = [u \in DOMAIN saved |->
                           IF u = t THEN [saved[t] EXCEPT !.request = text, !.response = response]
                           ELSE saved[u]]
      BY <2>2 DEF RowsInv, TabRows
    <2> QED
      BY <2>1, <2>2 DEF UpdateRepeaterTab
  <1>3. saved' \in [DOMAIN saved' -> TabRows]
    BY <1>2
  <1>4. PICK s : Lists(s)
    BY DEF RowsInv
  <1>5. Lists(s)'
    <2>1. \A i \in DOMAIN s : s[i] \in DOMAIN saved
      BY <1>4, ListFacts
    <2> QED
      BY <1>2, <1>4, <2>1 DEF Lists, Ordered
  <1>6. DistinctPositions'
    BY <1>2 DEF RowsInv, DistinctPositions
  <1> QED
    BY <1>1, <1>2, <1>3, <1>5, <1>6 DEF RowsInv

LEMMA SameRows ==
    ASSUME RowsInv, UNCHANGED <<saved, lastTab>>
    PROVE  RowsInv'
  BY DEF RowsInv, Lists, Ordered, DistinctPositions

-----------------------------------------------------------------------------
(* The tabs.                                                               *)

TabsInv == RowsInv /\ tabs \in Seq(Nat) /\ TabsReopen

(* A tab with a row is there once. *)
LEMMA TabFacts ==
    ASSUME TabsInv
    PROVE  /\ Len(tabs) \in Nat /\ DOMAIN tabs = 1 .. Len(tabs)
           /\ \A i \in DOMAIN tabs : tabs[i] \in Nat /\ tabs[i] \in ToSet(tabs)
           /\ \A t \in ToSet(tabs) : t \in Nat /\ \E i \in DOMAIN tabs : tabs[i] = t
           /\ \A i \in DOMAIN tabs : tabs[i] = 0 \/ tabs[i] \in DOMAIN saved
           /\ \A i, j \in DOMAIN tabs : tabs[i] = tabs[j] /\ tabs[i] # 0 => i = j
           /\ 0 \notin DOMAIN saved /\ lastTab + 1 \notin ToSet(tabs)
  <1>1. Len(tabs) \in Nat /\ DOMAIN tabs = 1 .. Len(tabs)
    BY DEF TabsInv
  <1>2. /\ \A i \in DOMAIN tabs : tabs[i] \in Nat /\ tabs[i] \in ToSet(tabs)
        /\ \A t \in ToSet(tabs) : t \in Nat /\ \E i \in DOMAIN tabs : tabs[i] = t
    BY DEF TabsInv, ToSet
  <1>3. \A i \in DOMAIN tabs : tabs[i] = 0 \/ tabs[i] \in DOMAIN saved
    BY <1>2 DEF TabsInv, TabsReopen
  <1>4. 0 \notin DOMAIN saved /\ lastTab + 1 \notin ToSet(tabs)
    BY DEF TabsInv, RowsInv, TabsReopen
  <1>5. ASSUME NEW i \in DOMAIN tabs, NEW j \in DOMAIN tabs, tabs[i] = tabs[j], tabs[i] # 0
        PROVE  i = j
    <2>1. i \in Nat /\ j \in Nat
      BY <1>1
    <2>2. tabs[i] \in DOMAIN saved /\ saved[tabs[i]].position \in Nat
      BY <1>3, <1>5, RowFacts DEF TabsInv
    <2>3. ~(i < j) /\ ~(j < i)
      BY <1>5, <2>1, <2>2 DEF TabsInv, TabsReopen, Ordered
    <2> QED
      BY <2>1, <2>3
  <1> QED
    BY <1>1, <1>2, <1>3, <1>4, <1>5

(* A step that leaves the tabs, and their rows where they are. *)
LEMMA TabsStay ==
    ASSUME TabsInv, RowsInv', tabs' = tabs,
           \A t \in ToSet(tabs) : t \in DOMAIN saved' =>
              t \in DOMAIN saved /\ saved'[t].position = saved[t].position,
           DOMAIN saved' = (ToSet(tabs) \ {0}) \cup orphans', orphans' \cap ToSet(tabs) = {}
    PROVE  TabsInv'
  <1>1. Ordered(tabs)'
    <2> SUFFICES ASSUME NEW i \in DOMAIN tabs, NEW j \in DOMAIN tabs, i < j,
                        tabs[i] \in DOMAIN saved', tabs[j] \in DOMAIN saved'
                 PROVE  saved'[tabs[i]].position < saved'[tabs[j]].position
      BY DEF Ordered
    <2>1. tabs[i] \in ToSet(tabs) /\ tabs[j] \in ToSet(tabs)
      BY DEF ToSet
    <2>2. saved[tabs[i]].position < saved[tabs[j]].position
      BY <2>1 DEF TabsInv, TabsReopen, Ordered
    <2> QED
      BY <2>1, <2>2
  <1> QED
    BY <1>1 DEF TabsInv, TabsReopen, RowsInv, DistinctPositions

(* A tab that opens is the last, with the last row or without one.         *)
LEMMA AppendsTab ==
    ASSUME TabsInv, RowsInv', NEW x \in Nat, tabs' = Append(tabs, x),
           \A t \in DOMAIN saved : saved'[t] = saved[t],
           \A t \in ToSet(tabs) : t \in DOMAIN saved' => t \in DOMAIN saved,
           x \in DOMAIN saved' => \A t \in DOMAIN saved : saved[t].position < saved'[x].position,
           DOMAIN saved' = ((ToSet(tabs) \cup {x}) \ {0}) \cup orphans',
           orphans' \cap (ToSet(tabs) \cup {x}) = {}
    PROVE  TabsInv'
  <1>1. /\ tabs' \in Seq(Nat) /\ DOMAIN tabs' = 1 .. Len(tabs) + 1 /\ Len(tabs) \in Nat
        /\ \A i \in DOMAIN tabs : tabs'[i] = tabs[i]
        /\ tabs'[Len(tabs) + 1] = x
    BY DEF TabsInv
  <1>2. ToSet(tabs') = ToSet(tabs) \cup {x}
    <2>1. DOMAIN tabs' = DOMAIN tabs \cup {Len(tabs) + 1}
      BY <1>1, TabFacts
    <2> QED
      BY <1>1, <2>1 DEF ToSet
  <1>3. Ordered(tabs)'
    <2> SUFFICES ASSUME NEW i \in DOMAIN tabs', NEW j \in DOMAIN tabs', i < j,
                        tabs'[i] \in DOMAIN saved', tabs'[j] \in DOMAIN saved'
                 PROVE  saved'[tabs'[i]].position < saved'[tabs'[j]].position
      BY DEF Ordered
    <2>1. i \in DOMAIN tabs /\ tabs'[i] = tabs[i] /\ tabs[i] \in DOMAIN saved
      BY <1>1, TabFacts
    <2>2. CASE j = Len(tabs) + 1
      BY <1>1, <2>1, <2>2
    <2>3. CASE j \in DOMAIN tabs
      <3>1. tabs'[j] = tabs[j] /\ tabs[j] \in DOMAIN saved
        BY <1>1, <2>3, TabFacts
      <3>2. saved[tabs[i]].position < saved[tabs[j]].position
        BY <2>1, <2>3, <3>1 DEF TabsInv, TabsReopen, Ordered
      <3> QED
        BY <2>1, <3>1, <3>2
    <2> QED
      BY <1>1, <2>2, <2>3, TabFacts
  <1> QED
    BY <1>1, <1>2, <1>3 DEF TabsInv, TabsReopen, RowsInv, DistinctPositions

LEMMA OpensTab ==
    ASSUME RepeaterAssumption, TabsInv, NEW type \in {"http", "websocket"}, NEW text \in Contents,
           SaveRepeaterTab(type, text), tabs' = Append(tabs, lastTab + 1), orphans' = orphans
    PROVE  TabsInv'
  <1>1. PICK new : new = lastTab + 1
    OBVIOUS
  <1>2. RowsInv
    BY DEF TabsInv
  <1>3. /\ RowsInv' /\ new \in Nat /\ new # 0 /\ new \notin DOMAIN saved
        /\ DOMAIN saved' = DOMAIN saved \cup {new}
        /\ \A t \in DOMAIN saved : saved'[t] = saved[t]
        /\ \A t \in DOMAIN saved : saved[t].position < saved'[new].position
    BY <1>1, <1>2, SavesRow
  <1>4. new \notin ToSet(tabs) /\ tabs' = Append(tabs, new)
    BY <1>1, TabFacts
  <1>5. /\ DOMAIN saved' = ((ToSet(tabs) \cup {new}) \ {0}) \cup orphans'
        /\ orphans' \cap (ToSet(tabs) \cup {new}) = {}
    BY <1>3, <1>4 DEF TabsInv, TabsReopen
  <1> QED
    BY <1>3, <1>4, <1>5, AppendsTab

(* A save that fails leaves an orphan at most, and a tab without a row.    *)
LEMMA FailsToSave ==
    ASSUME RepeaterAssumption, TabsInv, NEW type \in {"http", "websocket"}, NEW text \in Contents,
           SaveFails(type, text), tabs' = tabs \/ tabs' = Append(tabs, 0)
    PROVE  /\ TabsInv' /\ lastTab' \in Nat /\ lastTab' >= lastTab
           /\ \A t \in DOMAIN saved' :
                 (t \in DOMAIN saved /\ saved'[t] = saved[t]) \/ saved'[t].response = NoAnswer
  <1>1. PICK new : new = lastTab + 1
    OBVIOUS
  <1>2. RowsInv /\ lastTab \in Nat
    BY DEF TabsInv, RowsInv
  <1>3. new \notin ToSet(tabs) /\ new # 0 /\ 0 \notin DOMAIN saved
    BY <1>1, <1>2, TabFacts
  <1>4. /\ RowsInv' /\ lastTab' \in Nat /\ lastTab' >= lastTab
        /\ \A t \in DOMAIN saved : saved'[t] = saved[t]
        /\ \A t \in DOMAIN saved' :
              (t \in DOMAIN saved /\ saved'[t] = saved[t]) \/ saved'[t].response = NoAnswer
        /\ \A t \in ToSet(tabs) : t \in DOMAIN saved' => t \in DOMAIN saved
        /\ DOMAIN saved' = (ToSet(tabs) \ {0}) \cup orphans' /\ orphans' \cap ToSet(tabs) = {}
        /\ 0 \notin DOMAIN saved' /\ 0 \notin orphans'
    <2>1. CASE UNCHANGED rowVars
      <3>1. UNCHANGED <<saved, lastTab, orphans>>
        BY <2>1 DEF rowVars
      <3>2. RowsInv'
        BY <1>2, <3>1, SameRows
      <3> QED
        BY <1>2, <1>3, <3>1, <3>2 DEF TabsInv, TabsReopen
    <2>2. CASE SaveRepeaterTab(type, text) /\ orphans' = orphans \cup {lastTab + 1}
      <3>1. /\ RowsInv' /\ lastTab' = new
            /\ DOMAIN saved' = DOMAIN saved \cup {new}
            /\ \A t \in DOMAIN saved : saved'[t] = saved[t]
            /\ saved'[new].response = NoAnswer
        BY <1>1, <1>2, <2>2, SavesRow
      <3> QED
        BY <1>1, <1>2, <1>3, <2>2, <3>1 DEF TabsInv, TabsReopen
    <2> QED
      BY <2>1, <2>2 DEF SaveFails
  <1>5. CASE tabs' = tabs
    <2>1. TabsInv'
      BY <1>4, <1>5, TabsStay
    <2> QED
      BY <1>4, <2>1
  <1>6. CASE tabs' = Append(tabs, 0)
    <2>1. /\ DOMAIN saved' = ((ToSet(tabs) \cup {0}) \ {0}) \cup orphans'
          /\ orphans' \cap (ToSet(tabs) \cup {0}) = {}
      BY <1>4
    <2>2. TabsInv'
      BY <1>4, <1>6, <2>1, AppendsTab
    <2> QED
      BY <1>4, <2>2
  <1> QED
    BY <1>5, <1>6

(* A closed tab leaves the others in their order.                          *)
LEMMA ClosesTab ==
    ASSUME TabsInv, NEW k \in DOMAIN tabs, CloseTab(k)
    PROVE  /\ TabsInv' /\ DOMAIN saved' \subseteq DOMAIN saved
           /\ \A t \in DOMAIN saved' : saved'[t] = saved[t]
  <1>1. RowsInv /\ lastTab' = lastTab /\ tabs \in Seq(Nat) /\ k \in 1 .. Len(tabs)
    BY TabFacts DEF TabsInv, CloseTab
  <1>2. PICK r : r = RemoveAt(tabs, k)
    OBVIOUS
  <1>3. Without(tabs, k, r) /\ r \in Seq(Nat) /\ tabs' = r
    BY <1>1, <1>2, RemovedIsWithout DEF CloseTab
  <1>4. PICK At \in [DOMAIN r -> DOMAIN tabs] :
          /\ \A i \in DOMAIN r : r[i] = tabs[At[i]] /\ At[i] # k
          /\ \A i, j \in DOMAIN r : i < j => At[i] < At[j]
          /\ \A i \in DOMAIN tabs : i # k => \E j \in DOMAIN r : At[j] = i
    BY <1>3 DEF Without
  <1>5. \A i \in DOMAIN r : At[i] \in DOMAIN tabs
    BY <1>4
  <1>6. ToSet(r) \ {0} = (ToSet(tabs) \ {0}) \ {tabs[k]} /\ ToSet(r) \subseteq ToSet(tabs)
    <2>1. \A i \in DOMAIN r : r[i] \in ToSet(tabs) /\ (r[i] # 0 => r[i] # tabs[k])
      BY <1>4, <1>5, TabFacts
    <2>2. ASSUME NEW t \in ToSet(tabs), t # tabs[k]  PROVE \E i \in DOMAIN r : r[i] = t
      <3>1. PICK i \in DOMAIN tabs : tabs[i] = t /\ i # k
        BY <2>2, TabFacts
      <3> QED
        BY <1>4, <3>1
    <2> QED
      BY <2>1, <2>2 DEF ToSet
  <1>7. /\ RowsInv' /\ DOMAIN saved' \subseteq DOMAIN saved
        /\ \A t \in DOMAIN saved' : saved'[t] = saved[t]
        /\ DOMAIN saved' = (ToSet(r) \ {0}) \cup orphans' /\ orphans' \cap ToSet(r) = {}
    <2>0. tabs[k] \in ToSet(tabs)
      BY DEF ToSet
    <2>1. CASE DeleteRepeaterTab(tabs[k])
      <3>1. PICK t : t = tabs[k]
        OBVIOUS
      <3>2. /\ RowsInv' /\ DOMAIN saved' = DOMAIN saved \ {t}
            /\ \A u \in DOMAIN saved' : saved'[u] = saved[u]
        BY <1>1, <2>1, <3>1, DropsRow
      <3>3. orphans' = orphans
        BY <2>1 DEF DeleteRepeaterTab
      <3> QED
        BY <1>6, <2>0, <3>1, <3>2, <3>3 DEF TabsInv, TabsReopen
    <2>2. CASE tabs[k] # 0 /\ orphans' = orphans \cup {tabs[k]} /\ UNCHANGED saved
      <3>1. RowsInv'
        BY <1>1, <2>2, SameRows
      <3>2. tabs[k] \notin ToSet(r)
        BY <1>6, <2>2
      <3> QED
        BY <1>6, <2>0, <2>2, <3>1, <3>2 DEF TabsInv, TabsReopen
    <2> QED
      BY <2>1, <2>2 DEF CloseTab
  <1>8. Ordered(tabs)'
    <2> SUFFICES ASSUME NEW i \in DOMAIN r, NEW j \in DOMAIN r, i < j,
                        r[i] \in DOMAIN saved', r[j] \in DOMAIN saved'
                 PROVE  saved'[r[i]].position < saved'[r[j]].position
      BY <1>3 DEF Ordered
    <2>1. /\ At[i] \in DOMAIN tabs /\ At[j] \in DOMAIN tabs /\ At[i] < At[j]
          /\ r[i] = tabs[At[i]] /\ r[j] = tabs[At[j]]
      BY <1>4, <1>5
    <2>2. saved[r[i]].position < saved[r[j]].position
      BY <1>7, <2>1 DEF TabsInv, TabsReopen, Ordered
    <2> QED
      BY <1>7, <2>2
  <1> QED
    BY <1>3, <1>7, <1>8 DEF TabsInv, TabsReopen, RowsInv, DistinctPositions

(* The order of the positions is there to be read.                         *)
LEMMA AllRowsFacts ==
    ASSUME RowsInv
    PROVE  /\ AllRepeaterTabs \in [1 .. Cardinality(DOMAIN saved) -> DOMAIN saved]
           /\ ToSet(AllRepeaterTabs) = DOMAIN saved /\ Ordered(AllRepeaterTabs)
           /\ Cardinality(DOMAIN saved) \in Nat
  <1> DEFINE n == Cardinality(DOMAIN saved)
             Fits(x) == ToSet(x) = DOMAIN saved /\ Ordered(x)
  <1>0. PICK s : Lists(s)
    BY DEF RowsInv
  <1>1. n = Len(s) /\ n \in Nat
    <2>1. s \in Bijection(1 .. Len(s), DOMAIN saved)
      <3>1. s \in [1 .. Len(s) -> DOMAIN saved]
        BY <1>0, ListFacts DEF Lists
      <3>2. s \in Injection(1 .. Len(s), DOMAIN saved)
        BY <1>0, <3>1, ListFacts DEF Injection, IsInjective
      <3>3. s \in Surjection(1 .. Len(s), DOMAIN saved)
        BY <1>0, <3>1, ListFacts DEF Surjection
      <3> QED
        BY <3>2, <3>3 DEF Bijection
    <2>2. ExistsBijection(1 .. Len(s), DOMAIN saved)
      BY <2>1 DEF ExistsBijection
    <2>3. Len(s) \in Nat
      BY <1>0, ListFacts
    <2> QED
      BY <2>2, <2>3, FS_CountingElements
  <1>2. s \in [1 .. n -> DOMAIN saved] /\ Fits(s)
    BY <1>0, <1>1, ListFacts DEF Lists
  <1>3. AllRepeaterTabs = CHOOSE x \in [1 .. n -> DOMAIN saved] : Fits(x)
    BY DEF AllRepeaterTabs
  <1> HIDE DEF Fits, n
  <1>4. AllRepeaterTabs \in [1 .. n -> DOMAIN saved] /\ Fits(AllRepeaterTabs)
    BY <1>2, <1>3
  <1> QED
    BY <1>1, <1>4 DEF Fits, n

LEMMA ReopensTabs ==
    ASSUME TabsInv, Reopen
    PROVE  TabsInv' /\ ToSet(tabs') \subseteq DOMAIN saved
  <1>1. RowsInv /\ UNCHANGED <<saved, lastTab>>
    BY DEF TabsInv, Reopen
  <1>2. RowsInv'
    BY <1>1, SameRows
  <1>3. PICK all, N : all = AllRepeaterTabs /\ N = Cardinality(DOMAIN saved)
    OBVIOUS
  <1>4. all \in [1 .. N -> DOMAIN saved] /\ Ordered(all) /\ N \in Nat
    BY <1>1, <1>3, AllRowsFacts
  <1>5. PICK n \in 0 .. N : tabs' = SubSeq(all, 1, n)
    BY <1>3 DEF Reopen
  <1>6. n \in Nat /\ n <= N
    BY <1>4, <1>5
  <1>7. /\ tabs' \in Seq(DOMAIN saved) /\ DOMAIN tabs' = 1 .. n
        /\ \A i \in 1 .. n : tabs'[i] = all[i] /\ i \in DOMAIN all
    <2>1. tabs' = [i \in 1 .. n |-> all[i]]
      BY <1>5, <1>6
    <2>2. \A i \in 1 .. n : i \in 1 .. N /\ all[i] \in DOMAIN saved
      BY <1>4, <1>6
    <2>3. tabs' \in [1 .. n -> DOMAIN saved]
      BY <2>1, <2>2
    <2>4. tabs' \in Seq(DOMAIN saved)
      BY <1>6, <2>3, SeqDef
    <2> QED
      BY <1>4, <2>1, <2>2, <2>4
  <1>8. ToSet(tabs') \subseteq DOMAIN saved
    BY <1>7 DEF ToSet
  <1>9. tabs' \in Seq(Nat)
    <2>1. DOMAIN saved \subseteq Nat
      BY <1>1 DEF RowsInv
    <2>2. \A i \in 1 .. n : tabs'[i] \in Nat
      BY <1>4, <1>7, <2>1
    <2> QED
      BY <1>5, <1>6, <1>7, <2>2, SeqDef
  <1>10. Ordered(tabs)'
    BY <1>1, <1>4, <1>7 DEF Ordered
  <1>11. orphans' = DOMAIN saved \ ToSet(tabs') /\ 0 \notin DOMAIN saved
    BY TabFacts DEF Reopen
  <1>12. TabsReopen'
    BY <1>1, <1>2, <1>8, <1>10, <1>11 DEF TabsReopen, RowsInv, DistinctPositions
  <1> QED
    BY <1>2, <1>8, <1>9, <1>12 DEF TabsInv

LEMMA SameTabs ==
    ASSUME TabsInv, UNCHANGED <<saved, lastTab, orphans, tabs>>
    PROVE  TabsInv'
  <1>1. RowsInv'
    BY SameRows DEF TabsInv
  <1> QED
    BY <1>1, TabsStay DEF TabsInv, TabsReopen

(* A save leaves the tabs.                                                 *)
LEMMA SavesTab ==
    ASSUME TabsInv, NEW t, NEW text \in Contents, NEW response \in Answers,
           UpdateRepeaterTab(t, text, response), UNCHANGED tabs
    PROVE  TabsInv'
  <1>1. RowsInv
    BY DEF TabsInv
  <1>2. /\ RowsInv' /\ DOMAIN saved' = DOMAIN saved /\ orphans' = orphans
        /\ \A u \in DOMAIN saved : saved'[u].position = saved[u].position
    BY <1>1, ChangesRow
  <1> QED
    BY <1>2, TabsStay DEF TabsInv, TabsReopen

-----------------------------------------------------------------------------
(* Requests and responses.                                                 *)

Pairs == [req : Contents, resp : Answers]

HTTPTabs == [editor : Contents, shown : Answers \cup {Notice("error"), Notice("dropped")},
             sendOn : BOOLEAN, entries : Seq(Pairs), histIdx : Nat, prevOn : BOOLEAN,
             nextOn : BOOLEAN, last : Pairs]

SendStates == [tab : Nat, req : Requests, sent : Requests,
               at : {"gate", "held", "plugins", "network", "dropped", "failed", "answered"}]

Paired(p) == p.req = p.resp.asked

PairedTab(h) == Paired(h.last) /\ \A i \in DOMAIN h.entries : Paired(h.entries[i])

(* Of a row, saved with a response or without one. *)
PairedRow(row) == row.response.asked \in {NoText, row.request}

(* What a send carries is what was in the editor when it began. *)
PairsInv ==
    /\ http = [t \in DOMAIN http |-> http[t]] /\ DOMAIN http \subseteq 1 .. lastTab
    /\ \A t \in DOMAIN http : http[t] \in HTTPTabs /\ PairedTab(http[t])
    /\ \A t \in DOMAIN saved : PairedRow(saved[t])
    /\ sends \subseteq SendStates

LEMMA NewTabFacts ==
    ASSUME NEW text \in Contents
    PROVE  NewHTTP(text) \in HTTPTabs /\ PairedTab(NewHTTP(text))
  <1>1. NoText \in Contents
    BY DEF Contents
  <1>2. <<>> \in Seq(Pairs) /\ DOMAIN (<<>>) = {}
    OBVIOUS
  <1>3. NoAnswer \in Answers /\ NoAnswer.asked = NoText
    BY <1>1 DEF NoAnswer, Answers
  <1>4. [req |-> NoText, resp |-> NoAnswer] \in Pairs /\ Paired([req |-> NoText, resp |-> NoAnswer])
    BY <1>1, <1>3 DEF Pairs, Paired
  <1> QED
    BY <1>1, <1>2, <1>3, <1>4 DEF NewHTTP, HTTPTabs, PairedTab

(* An answer joins the history with the request that was sent.             *)
LEMMA AnsweredFacts ==
    ASSUME RepeaterAssumption, NEW h \in HTTPTabs, PairedTab(h), NEW req \in Requests,
           NEW resp \in Answers, resp.asked = req
    PROVE  Answered(h, req, resp) \in HTTPTabs /\ PairedTab(Answered(h, req, resp))
  <1> DEFINE p == [req |-> req, resp |-> resp]
             es == Recorded(h.entries, p)
  <1>1. p \in Pairs /\ Paired(p) /\ req \in Contents
    BY DEF Pairs, Paired, Contents
  <1>2. h.entries \in Seq(Pairs) /\ \A i \in DOMAIN h.entries : Paired(h.entries[i])
    BY DEF HTTPTabs, PairedTab
  <1>3. es \in Seq(Pairs) /\ Len(es) \in Nat /\ \A i \in DOMAIN es : Paired(es[i])
    <2> DEFINE longer == Append(h.entries, p)
    <2> HIDE DEF p
    <2>1. longer \in Seq(Pairs) /\ \A i \in DOMAIN longer : Paired(longer[i])
      BY <1>1, <1>2
    <2>2. Len(longer) = Len(h.entries) + 1 /\ Len(longer) \in Nat \ {0}
      BY <1>1, <1>2
    <2> HIDE DEF longer
    <2>3. Tail(longer) \in Seq(Pairs) /\ \A i \in DOMAIN Tail(longer) : Paired(Tail(longer)[i])
      BY <2>1, <2>2
    <2>4. es = longer \/ es = Tail(longer)
      BY DEF Recorded, longer
    <2> QED
      BY <2>1, <2>3, <2>4
  <1> HIDE DEF es, p
  <1>4. Answered(h, req, resp) =
          [h EXCEPT !.sendOn = TRUE, !.shown = resp, !.entries = es, !.histIdx = Len(es),
                    !.prevOn = Len(es) > 1 \/ @, !.nextOn = FALSE, !.last = p]
    BY DEF Answered, es, p
  <1>5. (Len(es) > 1 \/ h.prevOn) \in BOOLEAN
    BY DEF HTTPTabs
  <1>6. Answered(h, req, resp) \in HTTPTabs
    BY <1>1, <1>3, <1>4, <1>5 DEF HTTPTabs
  <1>7. Answered(h, req, resp).last = p /\ Answered(h, req, resp).entries = es
    BY <1>4 DEF HTTPTabs
  <1> QED
    BY <1>1, <1>3, <1>6, <1>7 DEF PairedTab

(* A step that changes one tab, and keeps its pairs.                       *)
LEMMA ChangesTab ==
    ASSUME PairsInv, NEW t \in DOMAIN http, NEW new \in HTTPTabs, PairedTab(new), Change(t, new),
           UNCHANGED <<saved, lastTab>>, sends' \subseteq SendStates
    PROVE  PairsInv'
  <1>1. http' = [http EXCEPT ![t] = new]
    BY DEF Change
  <1>2. DOMAIN http' = DOMAIN http /\ http' = [u \in DOMAIN http' |-> http'[u]]
    BY <1>1 DEF PairsInv
  <1>3. \A u \in DOMAIN http' : http'[u] \in HTTPTabs /\ PairedTab(http'[u])
    BY <1>1 DEF PairsInv
  <1> QED
    BY <1>2, <1>3 DEF PairsInv

(* A step of the rows that leaves the tabs and the sends. *)
LEMMA RowsKeep ==
    ASSUME PairsInv, UNCHANGED <<http, sends>>, lastTab \in Nat, lastTab' \in Nat,
           lastTab' >= lastTab, \A t \in DOMAIN saved' : PairedRow(saved'[t])
    PROVE  PairsInv'
  <1>1. DOMAIN http' \subseteq 1 .. lastTab'
    BY DEF PairsInv
  <1> QED
    BY <1>1 DEF PairsInv

LEMMA NoAnswerPairs ==
    ASSUME NEW row, row.response = NoAnswer
    PROVE  PairedRow(row)
  BY DEF PairedRow, NoAnswer

LEMMA OpensHTTP ==
    ASSUME RepeaterAssumption, TabsInv, PairsInv, NEW text \in Contents, OpenTab(text)
    PROVE  TabsInv' /\ PairsInv' /\ lastTab' = lastTab + 1
  <1>1. PICK new : new = lastTab + 1
    OBVIOUS
  <1>2. TabsInv'
    BY OpensTab DEF OpenTab
  <1>3. RowsInv /\ lastTab \in Nat
    BY DEF TabsInv, RowsInv
  <1>4. /\ DOMAIN saved' = DOMAIN saved \cup {new} /\ lastTab' = new
        /\ saved'[new].response = NoAnswer
        /\ \A t \in DOMAIN saved : saved'[t] = saved[t]
    BY <1>1, <1>3, SavesRow DEF OpenTab
  <1>5. new \notin DOMAIN http /\ DOMAIN http \subseteq 1 .. lastTab
    BY <1>1, <1>3 DEF PairsInv
  <1>6. /\ http' = [x \in DOMAIN http \cup {new} |-> IF x = new THEN NewHTTP(text) ELSE http[x]]
        /\ sends' = sends
    BY <1>1 DEF OpenTab, Extended
  <1>7. DOMAIN http' = DOMAIN http \cup {new} /\ http' = [t \in DOMAIN http' |-> http'[t]]
    BY <1>6
  <1>8. \A t \in DOMAIN http' : http'[t] \in HTTPTabs /\ PairedTab(http'[t])
    BY <1>5, <1>6, NewTabFacts DEF PairsInv
  <1>9. \A t \in DOMAIN saved' : PairedRow(saved'[t])
    BY <1>4, NoAnswerPairs DEF PairsInv
  <1>10. DOMAIN http' \subseteq 1 .. lastTab'
    BY <1>1, <1>3, <1>4, <1>5, <1>7
  <1> QED
    BY <1>1, <1>2, <1>4, <1>6, <1>7, <1>8, <1>9, <1>10 DEF PairsInv

LEMMA FailingSaveKeeps ==
    ASSUME RepeaterAssumption, TabsInv, PairsInv, NEW type \in {"http", "websocket"},
           NEW text \in Contents, SaveFails(type, text), tabs' = tabs \/ tabs' = Append(tabs, 0),
           UNCHANGED <<http, sends>>
    PROVE  TabsInv' /\ PairsInv' /\ lastTab' \in Nat /\ lastTab' >= lastTab
  <1>1. /\ TabsInv' /\ lastTab' \in Nat /\ lastTab' >= lastTab /\ lastTab \in Nat
        /\ \A t \in DOMAIN saved' :
              (t \in DOMAIN saved /\ saved'[t] = saved[t]) \/ saved'[t].response = NoAnswer
    BY FailsToSave DEF TabsInv, RowsInv
  <1>2. \A t \in DOMAIN saved' : PairedRow(saved'[t])
    BY <1>1, NoAnswerPairs DEF PairsInv
  <1> QED
    BY <1>1, <1>2, RowsKeep

LEMMA AddTabKeeps ==
    ASSUME RepeaterAssumption, TabsInv, PairsInv, NEW text \in Contents,
           AddTab(text) \/ (CreateTab /\ text = NoText)
    PROVE  TabsInv' /\ PairsInv' /\ lastTab' \in Nat /\ lastTab' >= lastTab
  <1>1. lastTab \in Nat
    BY DEF TabsInv, RowsInv
  <1>2. CASE OpenTab(text)
    BY <1>1, <1>2, OpensHTTP
  <1>3. CASE /\ SaveFails("http", text) /\ (tabs' = tabs \/ tabs' = Append(tabs, 0))
             /\ UNCHANGED <<http, sends>>
    BY <1>3, FailingSaveKeeps
  <1> QED
    BY <1>2, <1>3 DEF AddTab, CreateTab

LEMMA NewTabKeeps ==
    ASSUME RepeaterAssumption, TabsInv, PairsInv, NewTab
    PROVE  TabsInv' /\ PairsInv' /\ lastTab' \in Nat /\ lastTab' >= lastTab
  <1>1. CASE \E text \in Requests : AddTab(text)
    BY <1>1, AddTabKeeps DEF Contents
  <1>2. CASE CreateTab
    BY <1>2, AddTabKeeps DEF Contents
  <1>3. CASE \E t \in DOMAIN http : Clone(t)
    <2>1. PICK t \in DOMAIN http : AddTab(http[t].editor)
      BY <1>3 DEF Clone
    <2>2. http[t].editor \in Contents
      BY DEF PairsInv, HTTPTabs
    <2> QED
      BY <2>1, <2>2, AddTabKeeps
  <1> QED
    BY <1>1, <1>2, <1>3 DEF NewTab

LEMMA CloseKeeps ==
    ASSUME TabsInv, PairsInv, NEW k \in DOMAIN tabs, CloseTab(k)
    PROVE  PairsInv' /\ lastTab' = lastTab
  <1>1. /\ http' = [u \in DOMAIN http \ {tabs[k]} |-> http[u]]
        /\ sends' = sends /\ lastTab' = lastTab
    BY DEF CloseTab
  <1>2. DOMAIN saved' \subseteq DOMAIN saved /\ \A t \in DOMAIN saved' : saved'[t] = saved[t]
    BY ClosesTab
  <1>3. \A t \in DOMAIN saved' : PairedRow(saved'[t])
    BY <1>2 DEF PairsInv
  <1>4. /\ http' = [t \in DOMAIN http' |-> http'[t]] /\ DOMAIN http' \subseteq 1 .. lastTab'
        /\ \A t \in DOMAIN http' : http'[t] \in HTTPTabs /\ PairedTab(http'[t])
    BY <1>1 DEF PairsInv
  <1> QED
    BY <1>1, <1>3, <1>4 DEF PairsInv

LEMMA ReopenKeeps ==
    ASSUME TabsInv, PairsInv, Reopen
    PROVE  PairsInv'
  <1>1. UNCHANGED <<saved, lastTab>> /\ sends' = {}
    BY DEF Reopen
  <1>2. http' = [t \in {u \in ToSet(tabs') : IsHTTP(u)} |-> NewHTTP(saved[t].request)]
    BY DEF Reopen
  <1>3. DOMAIN http' \subseteq DOMAIN saved /\ http' = [t \in DOMAIN http' |-> http'[t]]
    BY <1>2 DEF IsHTTP
  <1>4. \A t \in DOMAIN saved : saved[t].request \in Contents /\ t \in 1 .. lastTab
    BY RowFacts DEF TabsInv, TabRows
  <1>5. \A t \in DOMAIN http' : http'[t] \in HTTPTabs /\ PairedTab(http'[t])
    BY <1>2, <1>3, <1>4, NewTabFacts
  <1> QED
    BY <1>1, <1>3, <1>4, <1>5 DEF PairsInv

(* A save of a request with its own response, or with none.                *)
LEMMA SaveKeeps ==
    ASSUME TabsInv, PairsInv, NEW t, NEW text \in Contents, NEW response \in Answers,
           response.asked \in {NoText, text},
           UpdateRepeaterTab(t, text, response)
    PROVE  \A u \in DOMAIN saved' : PairedRow(saved'[u])
  <1>1. RowsInv
    BY DEF TabsInv
  <1>2. /\ DOMAIN saved' = DOMAIN saved
        /\ \A u \in DOMAIN saved :
              \/ saved'[u].request = saved[u].request /\ saved'[u].response = saved[u].response
              \/ saved'[u].request = text /\ saved'[u].response = response
    BY <1>1, ChangesRow
  <1> QED
    BY <1>2 DEF PairsInv, PairedRow

LEMMA TabButtonsKeep ==
    ASSUME TabsInv, PairsInv, NEW t \in DOMAIN http,
           Edit(t) \/ SendNothing(t) \/ Send(t) \/ LoadHistEntry(t)
    PROVE  PairsInv' /\ UNCHANGED <<saved, lastTab, orphans, tabs>>
  <1> DEFINE h == http[t]
  <1>1. h \in HTTPTabs /\ PairedTab(h) /\ t \in Nat
    BY DEF PairsInv, TabsInv, RowsInv
  <1>2. sends' \subseteq SendStates /\ UNCHANGED <<saved, lastTab, orphans, tabs>>
    <2>1. CASE Send(t)
      BY <1>1, <2>1 DEF Send, PairsInv, SendStates, rowVars
    <2>2. CASE Edit(t) \/ SendNothing(t) \/ LoadHistEntry(t)
      BY <2>2 DEF PairsInv, Edit, SendNothing, LoadHistEntry, rowVars
    <2> QED
      BY <2>1, <2>2
  <1>3. \E new \in HTTPTabs : PairedTab(new) /\ Change(t, new)
    <2>1. CASE Edit(t)
      <3>1. PICK text \in Contents : Change(t, [h EXCEPT !.editor = text])
        BY <2>1 DEF Edit
      <3>2. [h EXCEPT !.editor = text] \in HTTPTabs /\ PairedTab([h EXCEPT !.editor = text])
        BY <1>1 DEF HTTPTabs, PairedTab
      <3> QED
        BY <3>1, <3>2
    <2>2. CASE SendNothing(t)
      <3>1. /\ [h EXCEPT !.shown = Notice("error")] \in HTTPTabs
            /\ PairedTab([h EXCEPT !.shown = Notice("error")])
        BY <1>1 DEF HTTPTabs, PairedTab
      <3> QED
        BY <2>2, <3>1 DEF SendNothing
    <2>3. CASE Send(t)
      <3>1. [h EXCEPT !.sendOn = FALSE] \in HTTPTabs /\ PairedTab([h EXCEPT !.sendOn = FALSE])
        BY <1>1 DEF HTTPTabs, PairedTab
      <3> QED
        BY <2>3, <3>1 DEF Send
    <2>4. CASE LoadHistEntry(t)
      <3> DEFINE Entry(i) == [h EXCEPT !.editor = h.entries[i].req, !.shown = h.entries[i].resp,
                                       !.histIdx = i, !.prevOn = i > 1,
                                       !.nextOn = i < Len(h.entries)]
      <3>1. PICK i \in DOMAIN h.entries : Change(t, Entry(i))
        BY <2>4 DEF LoadHistEntry
      <3>2. i \in Nat /\ h.entries[i] \in Pairs
        BY <1>1 DEF HTTPTabs
      <3>3. Entry(i) \in HTTPTabs
        <4>1. h.entries[i].req \in Contents /\ h.entries[i].resp \in Answers
          BY <3>2 DEF Pairs
        <4>2. (i > 1) \in BOOLEAN /\ (i < Len(h.entries)) \in BOOLEAN
          OBVIOUS
        <4> QED
          BY <1>1, <3>2, <4>1, <4>2 DEF HTTPTabs
      <3>4. PairedTab(Entry(i))
        BY <1>1 DEF HTTPTabs, PairedTab
      <3> QED
        BY <3>1, <3>3, <3>4
    <2> QED
      BY <2>1, <2>2, <2>3, <2>4
  <1> QED
    BY <1>2, <1>3, ChangesTab

(* On its way a send may be rewritten; what the user asked stays. *)
LEMMA SendStepKeeps ==
    ASSUME PairsInv, NEW s \in sends, SendStep(s) \/ Decide(s)
    PROVE  PairsInv' /\ UNCHANGED <<saved, lastTab, orphans, tabs>>
  <1>1. UNCHANGED <<saved, lastTab, orphans, tabs, http>>
    BY DEF SendStep, Decide, rowVars
  <1>2. s \in SendStates /\ s.sent \in Requests
    BY DEF PairsInv, SendStates
  <1>3. \E at \in {"held", "plugins", "dropped", "network", "failed", "answered"},
           text \in Requests : Reaches(s, at, text)
    BY <1>2 DEF SendStep, Decide
  <1>4. sends' \subseteq SendStates
    BY <1>2, <1>3 DEF Reaches, PairsInv, SendStates
  <1> QED
    BY <1>1, <1>4 DEF PairsInv

LEMMA SendLandsKeeps ==
    ASSUME RepeaterAssumption, TabsInv, PairsInv, NEW s \in sends, SendLands(s)
    PROVE  TabsInv' /\ PairsInv' /\ lastTab' = lastTab
  <1> DEFINE h == http[s.tab]
             resp == Response(s)
  <1>1. /\ s.req \in Requests /\ s.req \in Contents /\ sends' \subseteq SendStates
        /\ resp \in Answers /\ resp.asked = s.req /\ UNCHANGED tabs
    BY DEF SendLands, PairsInv, SendStates, Contents, Answers, Response
  <1> HIDE DEF resp
  <1>2. CASE s.at = "answered"
    <2>1. UpdateRepeaterTab(s.tab, s.req, resp)
      BY <1>2 DEF SendLands, resp
    <2>2. TabsInv' /\ lastTab' = lastTab
      <3>1. TabsInv'
        BY <1>1, <2>1, SavesTab
      <3> QED
        BY <2>1, <3>1 DEF UpdateRepeaterTab
    <2>3. \A u \in DOMAIN saved' : PairedRow(saved'[u])
      BY <1>1, <2>1, SaveKeeps
    <2>4. CASE s.tab \notin DOMAIN http
      <3>1. http' = http
        BY <2>4 DEF SendLands
      <3> QED
        BY <1>1, <2>2, <2>3, <3>1 DEF PairsInv
    <2>5. CASE s.tab \in DOMAIN http
      <3>1. http' = [http EXCEPT ![s.tab] = Answered(h, s.req, resp)]
        BY <1>2, <2>5 DEF SendLands, Change, resp
      <3>2. h \in HTTPTabs /\ PairedTab(h)
        BY <2>5 DEF PairsInv
      <3>3. Answered(h, s.req, resp) \in HTTPTabs /\ PairedTab(Answered(h, s.req, resp))
        BY <1>1, <3>2, AnsweredFacts
      <3>4. DOMAIN http' = DOMAIN http /\ http' = [u \in DOMAIN http' |-> http'[u]]
        BY <3>1 DEF PairsInv
      <3>5. \A u \in DOMAIN http' : http'[u] \in HTTPTabs /\ PairedTab(http'[u])
        BY <3>1, <3>3 DEF PairsInv
      <3> QED
        BY <1>1, <2>2, <2>3, <3>4, <3>5 DEF PairsInv
    <2> QED
      BY <2>4, <2>5
  <1>3. CASE s.at # "answered"
    <2>1. UNCHANGED <<saved, lastTab, orphans>>
      BY <1>3 DEF SendLands, rowVars
    <2>2. TabsInv'
      BY <1>1, <2>1, SameTabs
    <2>3. CASE s.tab \notin DOMAIN http
      <3>1. http' = http
        BY <2>3 DEF SendLands
      <3> QED
        BY <1>1, <2>1, <2>2, <3>1 DEF PairsInv
    <2>4. CASE s.tab \in DOMAIN http
      <3>1. PICK note \in {Notice("dropped"), Notice("error")} :
              Change(s.tab, [h EXCEPT !.sendOn = TRUE, !.shown = note])
        BY <1>3, <2>4 DEF SendLands
      <3>2. h \in HTTPTabs /\ PairedTab(h)
        BY <2>4 DEF PairsInv
      <3>3. /\ [h EXCEPT !.sendOn = TRUE, !.shown = note] \in HTTPTabs
            /\ PairedTab([h EXCEPT !.sendOn = TRUE, !.shown = note])
        BY <3>2 DEF HTTPTabs, PairedTab
      <3> QED
        BY <1>1, <2>1, <2>2, <2>4, <3>1, <3>3, ChangesTab
    <2> QED
      BY <2>3, <2>4
  <1> QED
    BY <1>2, <1>3

LEMMA SamePairs ==
    ASSUME TabsInv, PairsInv, UNCHANGED tabVars
    PROVE  TabsInv' /\ PairsInv'
  <1>1. UNCHANGED <<saved, lastTab, orphans, tabs, http, sends>>
    BY DEF tabVars, rowVars
  <1>2. TabsInv'
    BY <1>1, SameTabs
  <1>3. PairsInv'
    BY <1>1 DEF PairsInv
  <1> QED
    BY <1>2, <1>3

(* Whatever the user does and goroutines report, rows, tabs and pairs hold.*)
LEMMA TabsStep ==
    ASSUME BenchAssumption, TabsInv, PairsInv, [Next]_benchVars
    PROVE  TabsInv' /\ PairsInv'
  <1>0. RepeaterAssumption /\ NoText \in Contents
    BY DEF BenchAssumption, Contents
  <1>1. CASE LootNext /\ UNCHANGED <<tabVars, socketVars>>
    BY <1>1, SamePairs
  <1>2. CASE SendToRepeater
    <2>1. PICK text \in Requests : AddTab(text)
      BY <1>2 DEF SendToRepeater
    <2> QED
      BY <1>0, <2>1, AddTabKeeps DEF Contents
  <1>3. CASE UNCHANGED benchVars
    BY <1>3, SamePairs DEF benchVars
  <1>4. CASE NewTab
    BY <1>0, <1>4, NewTabKeeps
  <1>5. CASE \E i \in DOMAIN tabs : CloseTab(i)
    BY <1>5, ClosesTab, CloseKeeps
  <1>6. CASE ReopenSockets
    BY <1>6, ReopensTabs, ReopenKeeps DEF ReopenSockets
  <1>7. CASE HTTPNext
    <2>1. CASE \E t \in DOMAIN http : Edit(t) \/ SendNothing(t) \/ Send(t) \/ LoadHistEntry(t)
      <3>1. PairsInv' /\ UNCHANGED <<saved, lastTab, orphans, tabs>>
        BY <2>1, TabButtonsKeep
      <3> QED
        BY <3>1, SameTabs
    <2>2. CASE \E s \in sends : SendStep(s) \/ Decide(s)
      <3>1. PairsInv' /\ UNCHANGED <<saved, lastTab, orphans, tabs>>
        BY <2>2, SendStepKeeps
      <3> QED
        BY <3>1, SameTabs
    <2>3. CASE \E s \in sends : SendLands(s)
      BY <1>0, <2>3, SendLandsKeeps
    <2> QED
      BY <1>7, <2>1, <2>2, <2>3 DEF HTTPNext
  <1>8. CASE SocketNext
    <2>1. CASE AddWSTab
      <3>1. UNCHANGED <<http, sends>>
        BY <2>1 DEF AddWSTab
      <3>2. CASE /\ SaveRepeaterTab("websocket", NoText) /\ tabs' = Append(tabs, lastTab + 1)
                 /\ UNCHANGED orphans
        <4>1. TabsInv'
          BY <1>0, <3>2, OpensTab
        <4>2. PICK new : new = lastTab + 1
          OBVIOUS
        <4>3. RowsInv /\ lastTab \in Nat
          BY DEF TabsInv, RowsInv
        <4>4. /\ DOMAIN saved' = DOMAIN saved \cup {new} /\ lastTab' = new
              /\ saved'[new].response = NoAnswer
              /\ \A t \in DOMAIN saved : saved'[t] = saved[t]
          BY <1>0, <3>2, <4>2, <4>3, SavesRow
        <4>5. \A t \in DOMAIN saved' : PairedRow(saved'[t])
          BY <4>4, NoAnswerPairs DEF PairsInv
        <4> QED
          BY <3>1, <4>1, <4>2, <4>3, <4>4, <4>5, RowsKeep
      <3>3. CASE SaveFails("websocket", NoText) /\ UNCHANGED <<tabs, sockets>>
        BY <1>0, <3>1, <3>3, FailingSaveKeeps
      <3> QED
        BY <2>1, <3>2, <3>3 DEF AddWSTab
    <2>2. CASE \E t \in OpenTabs : Connect(t)
      <3>1. PICK t \in OpenTabs : Connect(t)
        BY <2>2
      <3>2. UpdateRepeaterTab(t, NoText, NoAnswer) /\ UNCHANGED <<tabs, http, sends>>
        BY <3>1 DEF Connect
      <3>3. NoAnswer \in Answers /\ NoAnswer.asked = NoText
        BY <1>0 DEF NoAnswer, Answers
      <3>4. TabsInv'
        BY <1>0, <3>2, <3>3, SavesTab
      <3>5. \A u \in DOMAIN saved' : PairedRow(saved'[u])
        BY <1>0, <3>2, <3>3, SaveKeeps
      <3>6. lastTab' = lastTab
        BY <3>2 DEF UpdateRepeaterTab
      <3> QED
        BY <3>2, <3>4, <3>5, <3>6 DEF PairsInv
    <2>3. CASE UNCHANGED tabVars
      BY <2>3, SamePairs
    <2> QED
      BY <1>8, <2>1, <2>2, <2>3
         DEF SocketNext, Disconnect, SendFrame, Clear, Dialed, PeerCloses, ReadFrame, PostFrame,
             ReadEnds, ReadFails, Written, Callback
  <1> QED
    BY <1>1, <1>2, <1>3, <1>4, <1>5, <1>6, <1>7, <1>8 DEF Next, RepeaterNext

LEMMA TabsStart ==
    ASSUME Init
    PROVE  TabsInv /\ PairsInv
  <1>1. /\ saved = <<>> /\ lastTab = 0 /\ orphans = {} /\ tabs = <<>> /\ http = <<>>
        /\ sends = {}
    BY DEF Init, TabsInit
  <1>2. RowsInv
    <2>1. <<>> \in Seq(DOMAIN saved) /\ DOMAIN saved = {} /\ ToSet(<<>>) = {}
      BY <1>1 DEF ToSet
    <2>2. Lists(<<>>)
      BY <2>1 DEF Lists, Ordered
    <2> QED
      BY <1>1, <2>1, <2>2 DEF RowsInv, DistinctPositions
  <1>3. TabsInv
    BY <1>1, <1>2 DEF TabsInv, TabsReopen, ToSet, Ordered
  <1>4. PairsInv
    BY <1>1 DEF PairsInv
  <1> QED
    BY <1>3, <1>4

-----------------------------------------------------------------------------
(* Connections.                                                            *)

Conns == [tab : Nat, open : BOOLEAN, peer : BOOLEAN, reader : {"none", "reading", "holds", "done", "failed"}]
Notes == {"error", "connected", "closed", "recv", "sent", "unsent"}
SocketStates == [state : {"off", "connecting", "on"}, conn : Nat, frames : Seq(Notes)]
Callbacks == [kind : {"refused", "dialed", "recv", "ended", "sent", "unsent"}, tab : Nat, conn : Nat]

SocketsTypeOK ==
    /\ sockets \in [DOMAIN sockets -> SocketStates] /\ DOMAIN sockets \subseteq 1 .. lastTab
    /\ conns \in Seq(Conns) /\ posted \in Seq(Callbacks)
    /\ dialing \subseteq DOMAIN sockets
    /\ \A w \in writing : w.conn \in DOMAIN conns
    /\ \A c \in DOMAIN conns : conns[c].tab \in DOMAIN sockets
    /\ \A i \in DOMAIN posted : posted[i].tab \in DOMAIN sockets

Ends(conn) == ~(conn.open /\ conn.peer) \/ conn.reader = "failed"
Lives(conn) == conn.open /\ conn.peer /\ conn.reader \notin {"none", "failed"}

(* The end of a dial, on its way to the tab. *)
EndsDial(m) == m.kind \in {"refused", "dialed"}

(* A tab waits for one dial at most, and while it waits it is connecting.  *)
DialsHold ==
    /\ \A t \in dialing : sockets[t].state = "connecting"
    /\ \A i \in DOMAIN posted : EndsDial(posted[i]) =>
         /\ sockets[posted[i].tab].state = "connecting" /\ posted[i].tab \notin dialing
         /\ \A j \in DOMAIN posted : EndsDial(posted[j]) /\ posted[j].tab = posted[i].tab => i = j

(* A tab holds a connection when it is on, and only then.                  *)
HeldHold == \A t \in DOMAIN sockets :
    IF sockets[t].state = "on" THEN sockets[t].conn \in DOMAIN conns ELSE sockets[t].conn = 0

(* What is on its way says the truth about the connection.                 *)
PostedHold == \A i \in DOMAIN posted :
    LET m == posted[i]
    IN  /\ m.kind = "dialed" =>
              m.conn \in DOMAIN conns /\ conns[m.conn].tab = m.tab /\ conns[m.conn].reader = "none"
        /\ m.kind = "ended" => m.conn \in DOMAIN conns /\ Ends(conns[m.conn])

(* LiveIsHeld, for the closed tabs too. *)
LiveHold == \A c \in DOMAIN conns :
    Lives(conns[c])
      => sockets[conns[c].tab].conn = c /\ sockets[conns[c].tab].state = "on"

SocketsInv == SocketsTypeOK /\ DialsHold /\ HeldHold /\ PostedHold /\ LiveHold

(* A step that leaves every tab its state, brings no connection to life    *)
(* and posts nothing about dials.                                          *)
QuietConns ==
    /\ conns' \in Seq(Conns) /\ DOMAIN conns' = DOMAIN conns
    /\ \A c \in DOMAIN conns :
          /\ conns'[c].tab = conns[c].tab
          /\ Lives(conns'[c]) => Lives(conns[c])
          /\ Ends(conns[c]) => Ends(conns'[c])
          /\ conns[c].reader = "none" => conns'[c].reader = "none"

QuietSockets ==
    /\ sockets' \in [DOMAIN sockets -> SocketStates] /\ DOMAIN sockets' = DOMAIN sockets
    /\ \A t \in DOMAIN sockets :
          sockets'[t].state = sockets[t].state /\ sockets'[t].conn = sockets[t].conn

QuietPosted ==
    \/ posted' = posted
    \/ \E m \in Callbacks :
          /\ posted' = Append(posted, m) /\ ~EndsDial(m) /\ m.tab \in DOMAIN sockets
          /\ m.kind = "ended" => m.conn \in DOMAIN conns /\ Ends(conns'[m.conn])

LEMMA QuietStep ==
    ASSUME SocketsInv, QuietConns, QuietSockets, QuietPosted, dialing' = dialing,
           lastTab' = lastTab, \A w \in writing' : w.conn \in DOMAIN conns
    PROVE  SocketsInv'
  <1>1. SocketsTypeOK'
    <2>1. posted' \in Seq(Callbacks) /\ \A i \in DOMAIN posted' : posted'[i].tab \in DOMAIN sockets
      <3>1. posted \in Seq(Callbacks) /\ \A i \in DOMAIN posted : posted[i].tab \in DOMAIN sockets
        BY DEF SocketsInv, SocketsTypeOK
      <3>2. CASE posted' = posted
        BY <3>1, <3>2
      <3>3. ASSUME NEW m \in Callbacks, posted' = Append(posted, m), m.tab \in DOMAIN sockets
            PROVE  /\ posted' \in Seq(Callbacks)
                   /\ \A i \in DOMAIN posted' : posted'[i].tab \in DOMAIN sockets
        <4>1. posted' \in Seq(Callbacks)
          BY <3>1, <3>3
        <4>2. \A i \in DOMAIN posted' : posted'[i] = m \/ (i \in DOMAIN posted /\ posted'[i] = posted[i])
          BY <3>1, <3>3
        <4> QED
          BY <3>1, <3>3, <4>1, <4>2
      <3> QED
        BY <3>2, <3>3 DEF QuietPosted
    <2> QED
      BY <2>1 DEF SocketsInv, SocketsTypeOK, QuietConns, QuietSockets
  <1>2. \A i \in DOMAIN posted' : EndsDial(posted'[i]) => i \in DOMAIN posted /\ posted[i] = posted'[i]
    <2>1. posted \in Seq(Callbacks)
      BY DEF SocketsInv, SocketsTypeOK
    <2>2. ASSUME NEW m \in Callbacks, posted' = Append(posted, m), ~EndsDial(m)
          PROVE  \A i \in DOMAIN posted' :
                    EndsDial(posted'[i]) => i \in DOMAIN posted /\ posted[i] = posted'[i]
      <3>1. \A i \in DOMAIN posted' : posted'[i] = m \/ (i \in DOMAIN posted /\ posted'[i] = posted[i])
        BY <2>1, <2>2
      <3> QED
        BY <2>2, <3>1
    <2> QED
      BY <2>2 DEF QuietPosted
  <1>3. DialsHold'
    <2>1. \A t \in dialing' : sockets'[t].state = "connecting"
      BY DEF SocketsInv, SocketsTypeOK, DialsHold, QuietSockets
    <2>2. ASSUME NEW i \in DOMAIN posted', EndsDial(posted'[i])
          PROVE  /\ sockets'[posted'[i].tab].state = "connecting" /\ posted'[i].tab \notin dialing'
                 /\ \A j \in DOMAIN posted' :
                       EndsDial(posted'[j]) /\ posted'[j].tab = posted'[i].tab => i = j
      BY <1>2, <2>2 DEF SocketsInv, SocketsTypeOK, DialsHold, QuietSockets
    <2> QED
      BY <2>1, <2>2 DEF DialsHold, EndsDial
  <1>4. HeldHold'
    BY DEF SocketsInv, HeldHold, QuietConns, QuietSockets
  <1>5. PostedHold'
    <2>1. CASE posted' = posted
      BY <2>1 DEF SocketsInv, SocketsTypeOK, PostedHold, QuietConns
    <2>2. CASE posted' # posted
      <3>1. PICK m \in Callbacks :
              /\ posted' = Append(posted, m) /\ ~EndsDial(m)
              /\ m.kind = "ended" => m.conn \in DOMAIN conns /\ Ends(conns'[m.conn])
        BY <2>2 DEF QuietPosted
      <3>2. \A i \in DOMAIN posted' : posted'[i] = m \/ (i \in DOMAIN posted /\ posted'[i] = posted[i])
        BY <3>1 DEF SocketsInv, SocketsTypeOK
      <3> QED
        BY <3>1, <3>2 DEF SocketsInv, PostedHold, QuietConns, EndsDial
    <2> QED
      BY <2>1, <2>2
  <1>6. LiveHold'
    <2> SUFFICES ASSUME NEW c \in DOMAIN conns', Lives(conns'[c])
                 PROVE  sockets'[conns'[c].tab].conn = c /\ sockets'[conns'[c].tab].state = "on"
      BY DEF LiveHold, Lives
    <2>1. c \in DOMAIN conns /\ Lives(conns[c]) /\ conns'[c].tab = conns[c].tab
      BY DEF QuietConns
    <2>2. conns[c].tab \in DOMAIN sockets
      BY <2>1 DEF SocketsInv, SocketsTypeOK
    <2>3. sockets[conns[c].tab].conn = c /\ sockets[conns[c].tab].state = "on"
      BY <2>1 DEF SocketsInv, LiveHold
    <2> QED
      BY <2>1, <2>2, <2>3 DEF QuietSockets
  <1> QED
    BY <1>1, <1>3, <1>4, <1>5, <1>6 DEF SocketsInv

LEMMA SameConns ==
    ASSUME SocketsInv, UNCHANGED conns
    PROVE  QuietConns
  BY DEF QuietConns, SocketsInv, SocketsTypeOK

LEMMA SameSockets ==
    ASSUME SocketsInv, UNCHANGED sockets
    PROVE  QuietSockets
  BY DEF QuietSockets, SocketsInv, SocketsTypeOK

(* A step of one connection that does not bring it to life.                *)
LEMMA ConnQuiet ==
    ASSUME SocketsInv, NEW c \in DOMAIN conns, NEW new \in Conns,
           conns' = [conns EXCEPT ![c] = new], new.tab = conns[c].tab,
           Lives(new) => Lives(conns[c]), Ends(conns[c]) => Ends(new),
           conns[c].reader = "none" => new.reader = "none"
    PROVE  QuietConns
  <1>1. conns \in Seq(Conns)
    BY DEF SocketsInv, SocketsTypeOK
  <1>2. conns' \in Seq(Conns) /\ DOMAIN conns' = DOMAIN conns
    BY <1>1
  <1>3. \A d \in DOMAIN conns : conns'[d] = IF d = c THEN new ELSE conns[d]
    BY <1>1
  <1> QED
    BY <1>2, <1>3 DEF QuietConns

(* A note is added to what a tab shows, or its notes are cleared.          *)
LEMMA TabQuiet ==
    ASSUME SocketsInv, NEW t \in DOMAIN sockets, NEW frames \in Seq(Notes),
           sockets' = [sockets EXCEPT ![t] = [sockets[t] EXCEPT !.frames = frames]]
    PROVE  QuietSockets
  <1>1. sockets \in [DOMAIN sockets -> SocketStates] /\ sockets[t] \in SocketStates
    BY DEF SocketsInv, SocketsTypeOK
  <1>2. [sockets[t] EXCEPT !.frames = frames] \in SocketStates
    BY <1>1 DEF SocketStates
  <1>3. /\ [sockets[t] EXCEPT !.frames = frames].state = sockets[t].state
        /\ [sockets[t] EXCEPT !.frames = frames].conn = sockets[t].conn
    BY <1>1 DEF SocketStates
  <1> QED
    BY <1>1, <1>2, <1>3 DEF QuietSockets

LEMMA PostQuiet ==
    ASSUME NEW m \in Callbacks, Post(m), ~EndsDial(m), m.tab \in DOMAIN sockets,
           m.kind = "ended" => m.conn \in DOMAIN conns /\ Ends(conns'[m.conn])
    PROVE  QuietPosted
  BY DEF Post, QuietPosted

LEMMA ConnFacts ==
    ASSUME SocketsInv, NEW c \in DOMAIN conns
    PROVE  conns[c] \in Conns /\ c \in Nat /\ conns[c].tab \in DOMAIN sockets /\ conns[c].tab \in Nat
  <1>1. conns \in Seq(Conns)
    BY DEF SocketsInv, SocketsTypeOK
  <1>2. conns[c] \in Conns /\ c \in Nat
    BY <1>1
  <1>3. conns[c].tab \in DOMAIN sockets
    BY DEF SocketsInv, SocketsTypeOK
  <1> QED
    BY <1>2, <1>3 DEF Conns

LEMMA SendFrameKeeps ==
    ASSUME SocketsInv, NEW t \in OpenTabs, SendFrame(t)
    PROVE  SocketsInv'
  <1>1. UNCHANGED <<lastTab, sockets, conns, dialing, posted>>
    BY DEF SendFrame, tabVars, rowVars
  <1>2. sockets[t].conn \in DOMAIN conns
    BY DEF SendFrame, OpenTabs, SocketsInv, HeldHold
  <1>3. \A w \in writing' : w.conn \in DOMAIN conns
    BY <1>2 DEF SendFrame, SocketsInv, SocketsTypeOK
  <1> QED
    BY <1>1, <1>3, SameConns, SameSockets, QuietStep DEF QuietPosted

LEMMA ClearKeeps ==
    ASSUME SocketsInv, NEW t \in OpenTabs, Clear(t)
    PROVE  SocketsInv'
  <1>1. UNCHANGED <<lastTab, conns, dialing, writing, posted>>
    BY DEF Clear, tabVars, rowVars
  <1>2. QuietSockets
    <2>1. <<>> \in Seq(Notes) /\ t \in DOMAIN sockets
      BY DEF OpenTabs
    <2> QED
      BY <2>1, TabQuiet DEF Clear, With
  <1>3. \A w \in writing' : w.conn \in DOMAIN conns
    BY <1>1 DEF SocketsInv, SocketsTypeOK
  <1> QED
    BY <1>1, <1>2, <1>3, SameConns, QuietStep DEF QuietPosted

LEMMA ReaderKeeps ==
    ASSUME SocketsInv, NEW c \in DOMAIN conns,
           PeerCloses(c) \/ ReadFrame(c) \/ PostFrame(c) \/ ReadEnds(c) \/ ReadFails(c)
    PROVE  SocketsInv'
  <1>1. UNCHANGED <<lastTab, sockets, dialing, writing>>
    BY DEF PeerCloses, ReadFrame, PostFrame, ReadEnds, ReadFails, tabVars, rowVars
  <1>2. conns[c] \in Conns /\ c \in Nat /\ conns[c].tab \in DOMAIN sockets /\ conns[c].tab \in Nat
    BY ConnFacts
  <1>3. \A w \in writing' : w.conn \in DOMAIN conns
    BY <1>1 DEF SocketsInv, SocketsTypeOK
  <1>4. CASE PeerCloses(c)
    <2> DEFINE new == [conns[c] EXCEPT !.peer = FALSE]
    <2>1. /\ new \in Conns /\ new.tab = conns[c].tab /\ ~Lives(new) /\ Ends(new)
          /\ new.reader = conns[c].reader
      BY <1>2 DEF Conns, Lives, Ends
    <2>2. conns' = [conns EXCEPT ![c] = new] /\ UNCHANGED posted
      BY <1>4 DEF PeerCloses
    <2> QED
      BY <1>1, <1>3, <2>1, <2>2, ConnQuiet, SameSockets, QuietStep DEF QuietPosted
  <1>5. CASE ReadFrame(c)
    <2> DEFINE new == [conns[c] EXCEPT !.reader = "holds"]
    <2>1. /\ new \in Conns /\ new.tab = conns[c].tab
          /\ Lives(conns[c]) /\ ~Ends(conns[c]) /\ conns[c].reader # "none"
      BY <1>2, <1>5 DEF Conns, Lives, Ends, ReadFrame
    <2>2. conns' = [conns EXCEPT ![c] = new] /\ UNCHANGED posted
      BY <1>5 DEF ReadFrame
    <2> QED
      BY <1>1, <1>3, <2>1, <2>2, ConnQuiet, SameSockets, QuietStep DEF QuietPosted
  <1>6. CASE PostFrame(c)
    <2> DEFINE new == [conns[c] EXCEPT !.reader = "reading"]
               m == [kind |-> "recv", tab |-> conns[c].tab, conn |-> c]
    <2>1. /\ new \in Conns /\ new.tab = conns[c].tab
          /\ Lives(new) => Lives(conns[c])
          /\ Ends(conns[c]) => Ends(new)
          /\ conns[c].reader # "none"
      BY <1>2, <1>6 DEF Conns, Lives, Ends, PostFrame
    <2>2. conns' = [conns EXCEPT ![c] = new] /\ Post(m)
      BY <1>6 DEF PostFrame
    <2>3. m \in Callbacks /\ ~EndsDial(m) /\ m.tab \in DOMAIN sockets /\ m.kind # "ended"
      BY <1>2 DEF Callbacks, EndsDial
    <2>4. QuietPosted
      BY <2>2, <2>3, PostQuiet
    <2> QED
      BY <1>1, <1>3, <2>1, <2>2, <2>4, ConnQuiet, SameSockets, QuietStep
  <1>7. ASSUME NEW ended \in {"done", "failed"}, conns[c].reader = "reading",
               ended = "done" => ~(conns[c].open /\ conns[c].peer),
               conns' = [conns EXCEPT ![c].reader = ended],
               Post([kind |-> "ended", tab |-> conns[c].tab, conn |-> c])
        PROVE  SocketsInv'
    <2> DEFINE new == [conns[c] EXCEPT !.reader = ended]
               m == [kind |-> "ended", tab |-> conns[c].tab, conn |-> c]
    <2>1. /\ new \in Conns /\ new.tab = conns[c].tab /\ ~Lives(new) /\ Ends(new)
          /\ conns[c].reader # "none"
      BY <1>2, <1>7 DEF Conns, Lives, Ends
    <2>2. conns' = [conns EXCEPT ![c] = new] /\ Post(m)
      BY <1>7
    <2>3. m \in Callbacks /\ ~EndsDial(m) /\ m.tab \in DOMAIN sockets /\ m.conn = c
      BY <1>2 DEF Callbacks, EndsDial
    <2>4. conns'[c] = new
      BY <2>2 DEF SocketsInv, SocketsTypeOK
    <2>5. QuietPosted
      BY <2>1, <2>2, <2>3, <2>4, PostQuiet
    <2> QED
      BY <1>1, <1>3, <2>1, <2>2, <2>5, ConnQuiet, SameSockets, QuietStep
  <1>8. CASE ReadEnds(c)
    BY <1>7, <1>8 DEF ReadEnds
  <1>9. CASE ReadFails(c)
    BY <1>7, <1>9 DEF ReadFails
  <1> QED
    BY <1>4, <1>5, <1>6, <1>8, <1>9

LEMMA WrittenKeeps ==
    ASSUME SocketsInv, NEW w \in writing, Written(w)
    PROVE  SocketsInv'
  <1>1. UNCHANGED <<lastTab, sockets, dialing, conns>> /\ writing' \subseteq writing
    BY DEF Written, tabVars, rowVars
  <1>2. w.conn \in DOMAIN conns /\ \A x \in writing' : x.conn \in DOMAIN conns
    BY <1>1 DEF SocketsInv, SocketsTypeOK
  <1>3. PICK kind \in {"sent", "unsent"} :
          Post([kind |-> kind, tab |-> conns[w.conn].tab, conn |-> w.conn])
    BY DEF Written
  <1> DEFINE m == [kind |-> kind, tab |-> conns[w.conn].tab, conn |-> w.conn]
  <1>4. m \in Callbacks /\ ~EndsDial(m) /\ m.tab \in DOMAIN sockets /\ m.kind # "ended"
    BY <1>2, ConnFacts DEF Callbacks, EndsDial
  <1>5. QuietPosted
    BY <1>3, <1>4, PostQuiet
  <1> QED
    BY <1>1, <1>2, <1>5, SameConns, SameSockets, QuietStep

(* What one tab becomes, the others staying. *)
LEMMA TabBecomes ==
    ASSUME SocketsInv, NEW t \in DOMAIN sockets, NEW new \in SocketStates,
           sockets' = [sockets EXCEPT ![t] = new]
    PROVE  /\ sockets' \in [DOMAIN sockets' -> SocketStates] /\ DOMAIN sockets' = DOMAIN sockets
           /\ sockets'[t] = new
           /\ \A u \in DOMAIN sockets \ {t} : sockets'[u] = sockets[u]
  BY DEF SocketsInv, SocketsTypeOK

(* Steps that do not concern the sockets. *)
LEMMA ElsewhereKeeps ==
    ASSUME SocketsInv, UNCHANGED socketVars, lastTab \in Nat, lastTab' \in Nat, lastTab' >= lastTab
    PROVE  SocketsInv'
  <1>1. UNCHANGED <<sockets, conns, dialing, writing, posted>>
    BY DEF socketVars
  <1>2. SocketsTypeOK'
    BY <1>1 DEF SocketsInv, SocketsTypeOK
  <1> QED
    BY <1>1, <1>2 DEF SocketsInv, DialsHold, EndsDial, HeldHold, PostedHold, Ends, LiveHold, Lives

LEMMA AddWSTabKeeps ==
    ASSUME SocketsInv, TabsInv, AddWSTab
    PROVE  SocketsInv'
  <1> DEFINE new == lastTab + 1
  <1>0. SUFFICES ASSUME SaveRepeaterTab("websocket", NoText),
                        sockets' = Extended(sockets, new, NewSocket)
                 PROVE  SocketsInv'
    <2>1. lastTab \in Nat
      BY DEF TabsInv, RowsInv
    <2>2. CASE SaveFails("websocket", NoText) /\ UNCHANGED <<tabs, sockets>>
      <3>1. lastTab' \in Nat /\ lastTab' >= lastTab
        BY <2>1, <2>2 DEF SaveFails, SaveRepeaterTab, rowVars
      <3> QED
        BY <2>1, <2>2, <3>1, ElsewhereKeeps DEF AddWSTab, socketVars
    <2> QED
      BY <2>2 DEF AddWSTab
  <1>1. /\ UNCHANGED <<conns, dialing, writing, posted>> /\ lastTab' = new /\ lastTab \in Nat
        /\ new \notin DOMAIN sockets
    BY <1>0 DEF AddWSTab, SaveRepeaterTab, TabsInv, RowsInv, SocketsInv, SocketsTypeOK
  <1>2. NewSocket \in SocketStates
    <2>1. <<>> \in Seq(Notes)
      OBVIOUS
    <2> QED
      BY <2>1 DEF NewSocket, SocketStates
  <1>3. /\ DOMAIN sockets' = DOMAIN sockets \cup {new}
        /\ sockets' = [x \in DOMAIN sockets' |-> sockets'[x]]
        /\ sockets'[new] = NewSocket
        /\ \A t \in DOMAIN sockets : sockets'[t] = sockets[t]
    BY <1>0, <1>1 DEF Extended
  <1>4. sockets' \in [DOMAIN sockets' -> SocketStates] /\ DOMAIN sockets' \subseteq 1 .. lastTab'
    <2>1. \A t \in DOMAIN sockets' : sockets'[t] \in SocketStates
      BY <1>2, <1>3 DEF SocketsInv, SocketsTypeOK
    <2>2. DOMAIN sockets' \subseteq 1 .. lastTab'
      BY <1>1, <1>3 DEF SocketsInv, SocketsTypeOK
    <2> QED
      BY <1>3, <2>1, <2>2
  <1>5. SocketsTypeOK'
    BY <1>1, <1>3, <1>4 DEF SocketsInv, SocketsTypeOK
  <1>6. DialsHold'
    BY <1>1, <1>3 DEF SocketsInv, SocketsTypeOK, DialsHold, EndsDial
  <1>7. HeldHold'
    <2>1. NewSocket.state = "off" /\ NewSocket.conn = 0
      BY DEF NewSocket
    <2> QED
      BY <1>1, <1>3, <2>1 DEF SocketsInv, HeldHold
  <1>8. PostedHold' /\ LiveHold'
    BY <1>1, <1>3 DEF SocketsInv, SocketsTypeOK, PostedHold, LiveHold, Ends, Lives
  <1> QED
    BY <1>5, <1>6, <1>7, <1>8 DEF SocketsInv

LEMMA ReopenSocketsKeeps ==
    ASSUME SocketsInv, TabsInv, ReopenSockets
    PROVE  SocketsInv'
  <1>0. /\ sockets' = [t \in {u \in ToSet(tabs') : ~IsHTTP(u)} |-> NewSocket]
        /\ ToSet(tabs') \subseteq DOMAIN saved
    BY ReopensTabs DEF ReopenSockets
  <1>1. /\ DOMAIN sockets' \subseteq 1 .. lastTab /\ sockets' = [t \in DOMAIN sockets' |-> NewSocket]
        /\ conns' = <<>> /\ dialing' = {} /\ writing' = {} /\ posted' = <<>> /\ lastTab' = lastTab
    BY <1>0 DEF ReopenSockets, Reopen, TabsInv, RowsInv
  <1>2. NewSocket \in SocketStates /\ NewSocket.state = "off" /\ NewSocket.conn = 0
    <2>1. <<>> \in Seq(Notes)
      OBVIOUS
    <2> QED
      BY <2>1 DEF NewSocket, SocketStates
  <1>3. SocketsTypeOK'
    BY <1>1, <1>2 DEF SocketsTypeOK
  <1>4. DialsHold' /\ HeldHold' /\ PostedHold' /\ LiveHold'
    BY <1>1, <1>2 DEF DialsHold, HeldHold, PostedHold, LiveHold
  <1> QED
    BY <1>3, <1>4 DEF SocketsInv

(* A tab that connects has no connection that lives.                       *)
LEMMA ConnectKeeps ==
    ASSUME SocketsInv, NEW t \in OpenTabs, Connect(t)
    PROVE  SocketsInv'
  <1> DEFINE new == [sockets[t] EXCEPT !.state = "connecting"]
  <1>1. /\ UNCHANGED <<lastTab, conns, writing, posted>> /\ dialing' = dialing \cup {t}
        /\ t \in DOMAIN sockets /\ sockets[t].state = "off" /\ sockets[t] \in SocketStates
    BY DEF Connect, UpdateRepeaterTab, OpenTabs, SocketsInv, SocketsTypeOK
  <1>2. /\ new \in SocketStates /\ new.state = "connecting" /\ new.conn = sockets[t].conn
    BY <1>1 DEF SocketStates
  <1>3. /\ sockets' \in [DOMAIN sockets' -> SocketStates] /\ DOMAIN sockets' = DOMAIN sockets
        /\ sockets'[t] = new
        /\ \A u \in DOMAIN sockets \ {t} : sockets'[u] = sockets[u]
    <2>1. sockets' = [sockets EXCEPT ![t] = new]
      BY DEF Connect, With
    <2> HIDE DEF new
    <2> QED
      BY <1>1, <1>2, <2>1, TabBecomes
  <1> HIDE DEF new
  <1>4. SocketsTypeOK'
    BY <1>1, <1>3 DEF SocketsInv, SocketsTypeOK
  <1>5. DialsHold'
    <2>1. \A u \in dialing' : sockets'[u].state = "connecting"
      BY <1>1, <1>2, <1>3 DEF SocketsInv, SocketsTypeOK, DialsHold
    <2>2. \A i \in DOMAIN posted : EndsDial(posted[i]) =>
            posted[i].tab # t /\ posted[i].tab \in DOMAIN sockets
      BY <1>1 DEF SocketsInv, SocketsTypeOK, DialsHold
    <2> QED
      BY <1>1, <1>3, <2>1, <2>2 DEF SocketsInv, DialsHold, EndsDial
  <1>6. HeldHold'
    BY <1>1, <1>2, <1>3 DEF SocketsInv, HeldHold
  <1>7. PostedHold'
    BY <1>1 DEF SocketsInv, PostedHold, Ends
  <1>8. LiveHold'
    <2>1. \A c \in DOMAIN conns : Lives(conns[c]) => conns[c].tab # t /\ conns[c].tab \in DOMAIN sockets
      BY <1>1 DEF SocketsInv, SocketsTypeOK, LiveHold
    <2> QED
      BY <1>1, <1>3, <2>1 DEF SocketsInv, LiveHold, Lives
  <1> QED
    BY <1>4, <1>5, <1>6, <1>7, <1>8 DEF SocketsInv

(* The connection that lives is the one that is closed.                    *)
LEMMA DisconnectKeeps ==
    ASSUME SocketsInv, NEW t \in OpenTabs, Disconnect(t)
    PROVE  SocketsInv'
  <1> DEFINE new == [sockets[t] EXCEPT !.state = "off", !.conn = 0]
             h == sockets[t].conn
             closed == [conns[h] EXCEPT !.open = FALSE]
  <1>1. /\ UNCHANGED <<lastTab, dialing, writing, posted>>
        /\ t \in DOMAIN sockets /\ sockets[t].state = "on" /\ sockets[t] \in SocketStates
    BY DEF Disconnect, tabVars, rowVars, OpenTabs, SocketsInv, SocketsTypeOK
  <1>2. new \in SocketStates /\ new.state = "off" /\ new.conn = 0
    BY <1>1 DEF SocketStates
  <1>3. /\ sockets' \in [DOMAIN sockets' -> SocketStates] /\ DOMAIN sockets' = DOMAIN sockets
        /\ sockets'[t] = new
        /\ \A u \in DOMAIN sockets \ {t} : sockets'[u] = sockets[u]
    <2>1. sockets' = [sockets EXCEPT ![t] = new]
      BY DEF Disconnect, With
    <2> HIDE DEF new
    <2> QED
      BY <1>1, <1>2, <2>1, TabBecomes
  <1>4. h \in DOMAIN conns
    BY <1>1 DEF SocketsInv, HeldHold
  <1>5. conns[h] \in Conns
    BY <1>4, ConnFacts
  <1>6. /\ closed \in Conns /\ closed.tab = conns[h].tab /\ ~Lives(closed) /\ Ends(closed)
        /\ closed.reader = conns[h].reader
    BY <1>5 DEF Conns, Lives, Ends
  <1>7. conns' = [conns EXCEPT ![h] = closed]
    BY DEF Disconnect
  <1> HIDE DEF new, closed
  <1>8. QuietConns
    BY <1>4, <1>6, <1>7, ConnQuiet
  <1>9. ~Lives(conns'[h])
    BY <1>4, <1>6, <1>7 DEF SocketsInv, SocketsTypeOK
  <1>10. SocketsTypeOK'
    BY <1>1, <1>3, <1>8 DEF SocketsInv, SocketsTypeOK, QuietConns
  <1>11. DialsHold'
    <2>1. \A u \in dialing : u # t /\ u \in DOMAIN sockets
      BY <1>1 DEF SocketsInv, SocketsTypeOK, DialsHold
    <2>2. \A i \in DOMAIN posted : EndsDial(posted[i]) =>
            posted[i].tab # t /\ posted[i].tab \in DOMAIN sockets
      BY <1>1 DEF SocketsInv, SocketsTypeOK, DialsHold
    <2> QED
      BY <1>1, <1>3, <2>1, <2>2 DEF SocketsInv, DialsHold, EndsDial
  <1>12. HeldHold'
    BY <1>2, <1>3, <1>8 DEF SocketsInv, HeldHold, QuietConns
  <1>13. PostedHold'
    BY <1>1, <1>8 DEF SocketsInv, PostedHold, QuietConns
  <1>14. LiveHold'
    <2> SUFFICES ASSUME NEW c \in DOMAIN conns', Lives(conns'[c])
                 PROVE  sockets'[conns'[c].tab].conn = c /\ sockets'[conns'[c].tab].state = "on"
      BY DEF LiveHold, Lives
    <2>1. c \in DOMAIN conns /\ Lives(conns[c]) /\ conns'[c].tab = conns[c].tab /\ c # h
      BY <1>8, <1>9 DEF QuietConns
    <2>2. /\ conns[c].tab \in DOMAIN sockets
          /\ sockets[conns[c].tab].conn = c /\ sockets[conns[c].tab].state = "on"
      BY <2>1 DEF SocketsInv, SocketsTypeOK, LiveHold
    <2> QED
      BY <1>3, <2>1, <2>2
  <1> QED
    BY <1>10, <1>11, <1>12, <1>13, <1>14 DEF SocketsInv

(* A dial that ends is reported once, to a tab that waits for it.          *)
LEMMA DialedKeeps ==
    ASSUME SocketsInv, NEW t \in dialing, Dialed(t)
    PROVE  SocketsInv'
  <1>1. /\ UNCHANGED <<lastTab, sockets, writing>> /\ dialing' = dialing \ {t}
        /\ t \in DOMAIN sockets /\ sockets[t].state = "connecting" /\ t \in Nat
        /\ conns \in Seq(Conns) /\ posted \in Seq(Callbacks) /\ Len(conns) \in Nat
    BY DEF Dialed, tabVars, rowVars, SocketsInv, SocketsTypeOK, DialsHold
  <1>2. PICK m \in Callbacks :
          /\ Post(m) /\ EndsDial(m) /\ m.tab = t
          /\ \/ m.kind = "refused" /\ UNCHANGED conns
             \/ /\ m.conn = Len(conns) + 1
                /\ conns' = Append(conns, [tab |-> t, open |-> TRUE, peer |-> TRUE, reader |-> "none"])
    <2>1. CASE Post([kind |-> "refused", tab |-> t, conn |-> 0]) /\ UNCHANGED conns
      <3>1. [kind |-> "refused", tab |-> t, conn |-> 0] \in Callbacks
        BY <1>1 DEF Callbacks
      <3> QED
        BY <2>1, <3>1 DEF EndsDial
    <2>2. CASE /\ conns' = Append(conns, [tab |-> t, open |-> TRUE, peer |-> TRUE, reader |-> "none"])
               /\ Post([kind |-> "dialed", tab |-> t, conn |-> Len(conns) + 1])
      <3>1. [kind |-> "dialed", tab |-> t, conn |-> Len(conns) + 1] \in Callbacks
        BY <1>1 DEF Callbacks
      <3> QED
        BY <2>2, <3>1 DEF EndsDial
    <2> QED
      BY <2>1, <2>2 DEF Dialed
  <1>3. /\ posted' \in Seq(Callbacks) /\ DOMAIN posted \subseteq DOMAIN posted'
        /\ \A i \in DOMAIN posted' :
              \/ i = Len(posted) + 1 /\ posted'[i] = m
              \/ i \in DOMAIN posted /\ posted'[i] = posted[i]
    BY <1>1, <1>2 DEF Post
  <1>4. /\ conns' \in Seq(Conns) /\ DOMAIN conns \subseteq DOMAIN conns'
        /\ \A c \in DOMAIN conns : conns'[c] = conns[c]
        /\ \A c \in DOMAIN conns' \ DOMAIN conns : conns'[c].tab = t /\ ~Lives(conns'[c])
        /\ m.kind = "dialed" =>
             m.conn \in DOMAIN conns' /\ conns'[m.conn].tab = t /\ conns'[m.conn].reader = "none"
    <2>1. CASE m.kind = "refused" /\ UNCHANGED conns
      BY <1>1, <2>1
    <2>2. CASE /\ m.conn = Len(conns) + 1
               /\ conns' = Append(conns, [tab |-> t, open |-> TRUE, peer |-> TRUE, reader |-> "none"])
      <3> DEFINE new == [tab |-> t, open |-> TRUE, peer |-> TRUE, reader |-> "none"]
      <3>1. new \in Conns /\ new.tab = t /\ ~Lives(new) /\ new.reader = "none"
        BY <1>1 DEF Conns, Lives
      <3>2. conns' = Append(conns, new)
        BY <2>2
      <3> HIDE DEF new
      <3>3. /\ conns' \in Seq(Conns) /\ DOMAIN conns' = 1 .. Len(conns) + 1
            /\ \A c \in DOMAIN conns : conns'[c] = conns[c]
            /\ conns'[Len(conns) + 1] = new
        BY <1>1, <3>1, <3>2
      <3>4. DOMAIN conns = 1 .. Len(conns)
        BY <1>1
      <3>5. \A c \in DOMAIN conns' \ DOMAIN conns : c = Len(conns) + 1
        BY <1>1, <3>3, <3>4
      <3>6. DOMAIN conns \subseteq DOMAIN conns' /\ Len(conns) + 1 \in DOMAIN conns'
        BY <1>1, <3>3, <3>4
      <3> QED
        BY <2>2, <3>1, <3>3, <3>5, <3>6
    <2> QED
      BY <1>2, <2>1, <2>2
  <1>5. SocketsTypeOK'
    <2>1. \A c \in DOMAIN conns' : conns'[c].tab \in DOMAIN sockets
      BY <1>1, <1>4 DEF SocketsInv, SocketsTypeOK
    <2>2. \A i \in DOMAIN posted' : posted'[i].tab \in DOMAIN sockets
      BY <1>1, <1>2, <1>3 DEF SocketsInv, SocketsTypeOK
    <2> QED
      BY <1>1, <1>3, <1>4, <2>1, <2>2 DEF SocketsInv, SocketsTypeOK
  <1>6. DialsHold'
    <2>1. \A u \in dialing' : sockets'[u].state = "connecting"
      BY <1>1 DEF SocketsInv, DialsHold
    <2>2. \A i \in DOMAIN posted : EndsDial(posted[i]) => posted[i].tab # t
      BY DEF SocketsInv, DialsHold
    <2>3. ASSUME NEW i \in DOMAIN posted', EndsDial(posted'[i])
          PROVE  /\ sockets'[posted'[i].tab].state = "connecting" /\ posted'[i].tab \notin dialing'
                 /\ \A j \in DOMAIN posted' :
                       EndsDial(posted'[j]) /\ posted'[j].tab = posted'[i].tab => i = j
      <3>1. CASE i = Len(posted) + 1 /\ posted'[i] = m
        BY <1>1, <1>2, <1>3, <2>2, <3>1
      <3>2. CASE i \in DOMAIN posted /\ posted'[i] = posted[i]
        <4>1. /\ sockets[posted[i].tab].state = "connecting" /\ posted[i].tab \notin dialing
              /\ \A j \in DOMAIN posted :
                    EndsDial(posted[j]) /\ posted[j].tab = posted[i].tab => i = j
          BY <2>3, <3>2 DEF SocketsInv, DialsHold
        <4>2. posted[i].tab # t
          BY <2>2, <2>3, <3>2
        <4> QED
          BY <1>1, <1>2, <1>3, <3>2, <4>1, <4>2
      <3> QED
        BY <1>3, <3>1, <3>2
    <2> QED
      BY <2>1, <2>3 DEF DialsHold, EndsDial
  <1>7. HeldHold'
    BY <1>1, <1>4 DEF SocketsInv, HeldHold
  <1>8. PostedHold'
    <2> SUFFICES ASSUME NEW i \in DOMAIN posted'
                 PROVE  LET n == posted'[i]
                        IN  /\ n.kind = "dialed" => /\ n.conn \in DOMAIN conns'
                                                    /\ conns'[n.conn].tab = n.tab
                                                    /\ conns'[n.conn].reader = "none"
                            /\ n.kind = "ended" => n.conn \in DOMAIN conns' /\ Ends(conns'[n.conn])
      BY DEF PostedHold, Ends
    <2>1. CASE posted'[i] = m
      BY <1>2, <1>4, <2>1 DEF EndsDial
    <2>2. CASE i \in DOMAIN posted /\ posted'[i] = posted[i]
      BY <1>4, <2>2 DEF SocketsInv, PostedHold
    <2> QED
      BY <1>3, <2>1, <2>2
  <1>9. LiveHold'
    BY <1>1, <1>4 DEF SocketsInv, LiveHold, Lives
  <1> QED
    BY <1>5, <1>6, <1>7, <1>8, <1>9 DEF SocketsInv

(* The callbacks that are left when the first is taken.                    *)
LEMMA TailFacts ==
    ASSUME SocketsInv, posted # <<>>, posted' = Tail(posted)
    PROVE  /\ posted' \in Seq(Callbacks) /\ 1 \in DOMAIN posted /\ posted[1] = Head(posted)
           /\ \A i \in DOMAIN posted' :
                 i \in Nat /\ i + 1 \in DOMAIN posted /\ i + 1 # 1 /\ posted'[i] = posted[i + 1]
  BY DEF SocketsInv, SocketsTypeOK

LEMMA CallbackKeeps ==
    ASSUME SocketsInv, Callback
    PROVE  SocketsInv'
  <1> DEFINE m == Head(posted)
             t == m.tab
             socket == sockets[t]
  <1>1. posted # <<>> /\ posted' = Tail(posted) /\ UNCHANGED <<lastTab, dialing, writing>>
    BY DEF Callback, tabVars, rowVars
  <1>2. /\ posted' \in Seq(Callbacks) /\ 1 \in DOMAIN posted /\ posted[1] = m
        /\ \A i \in DOMAIN posted' :
              i \in Nat /\ i + 1 \in DOMAIN posted /\ i + 1 # 1 /\ posted'[i] = posted[i + 1]
    BY <1>1, TailFacts
  <1>3. m \in Callbacks /\ t \in DOMAIN sockets /\ socket \in SocketStates
    BY <1>2 DEF SocketsInv, SocketsTypeOK
  <1>4. conns \in Seq(Conns) /\ socket.frames \in Seq(Notes)
    BY <1>3 DEF SocketsInv, SocketsTypeOK, SocketStates
  <1>5. \A n \in Notes : Append(socket.frames, n) \in Seq(Notes)
    BY <1>4
  <1>6. ASSUME SocketsTypeOK', DialsHold', HeldHold', PostedHold', LiveHold'
        PROVE  SocketsInv'
    BY <1>6 DEF SocketsInv
  <1>7. \A i \in DOMAIN posted' : posted'[i].tab \in DOMAIN sockets
    BY <1>2 DEF SocketsInv, SocketsTypeOK
  <1>8. ASSUME EndsDial(m), NEW new \in SocketStates, sockets' = [sockets EXCEPT ![t] = new]
        PROVE  DialsHold'
    <2>1. t \notin dialing /\ \A i \in DOMAIN posted' : EndsDial(posted'[i]) => posted'[i].tab # t
      BY <1>2, <1>8 DEF SocketsInv, DialsHold
    <2>2. \A u \in DOMAIN sockets \ {t} : sockets'[u] = sockets[u]
      BY <1>3, <1>8, TabBecomes
    <2>3. \A u \in dialing' : sockets'[u].state = "connecting"
      BY <1>1, <2>1, <2>2 DEF SocketsInv, SocketsTypeOK, DialsHold
    <2>4. ASSUME NEW i \in DOMAIN posted', EndsDial(posted'[i])
          PROVE  /\ sockets'[posted'[i].tab].state = "connecting" /\ posted'[i].tab \notin dialing'
                 /\ \A j \in DOMAIN posted' :
                       EndsDial(posted'[j]) /\ posted'[j].tab = posted'[i].tab => i = j
      BY <1>1, <1>2, <1>7, <2>1, <2>2, <2>4 DEF SocketsInv, DialsHold
    <2> QED
      BY <2>3, <2>4 DEF DialsHold, EndsDial
  <1>9. ASSUME NEW new \in SocketStates, sockets' = [sockets EXCEPT ![t] = new],
               \/ new.state = socket.state /\ new.conn = socket.conn
               \/ socket.state # "connecting"
        PROVE  DialsHold'
    <2>1. \A u \in DOMAIN sockets :
            sockets[u].state = "connecting" => sockets'[u].state = "connecting"
      BY <1>3, <1>9, TabBecomes
    <2>2. \A u \in dialing' : sockets'[u].state = "connecting"
      BY <1>1, <2>1 DEF SocketsInv, SocketsTypeOK, DialsHold
    <2>3. ASSUME NEW i \in DOMAIN posted', EndsDial(posted'[i])
          PROVE  /\ sockets'[posted'[i].tab].state = "connecting" /\ posted'[i].tab \notin dialing'
                 /\ \A j \in DOMAIN posted' :
                       EndsDial(posted'[j]) /\ posted'[j].tab = posted'[i].tab => i = j
      BY <1>1, <1>2, <1>7, <2>1, <2>3 DEF SocketsInv, DialsHold
    <2> QED
      BY <2>2, <2>3 DEF DialsHold, EndsDial
  <1>10. ASSUME conns' \in Seq(Conns), DOMAIN conns' = DOMAIN conns,
                \A c \in DOMAIN conns :
                   conns'[c].tab = conns[c].tab /\ (Ends(conns[c]) => Ends(conns'[c])),
                \A i \in DOMAIN posted' : posted'[i].kind = "dialed" =>
                   conns'[posted'[i].conn] = conns[posted'[i].conn],
                sockets' \in [DOMAIN sockets' -> SocketStates], DOMAIN sockets' = DOMAIN sockets
         PROVE  SocketsTypeOK' /\ PostedHold'
    <2>1. SocketsTypeOK'
      BY <1>1, <1>2, <1>7, <1>10 DEF SocketsInv, SocketsTypeOK
    <2>2. PostedHold'
      BY <1>2, <1>10 DEF SocketsInv, PostedHold
    <2> QED
      BY <2>1, <2>2
  <1>11. CASE m.kind = "refused"
    <2> DEFINE new == Shown([socket EXCEPT !.state = "off"], "error")
    <2>1. sockets' = [sockets EXCEPT ![t] = new] /\ conns' = conns
      BY <1>11 DEF Callback, With
    <2>2. "error" \in Notes /\ EndsDial(m)
      BY <1>11 DEF Notes, EndsDial
    <2>3. new \in SocketStates /\ new.state = "off" /\ new.conn = socket.conn
      BY <1>3, <1>5, <2>2 DEF Shown, SocketStates
    <2> HIDE DEF new
    <2>4. /\ sockets' \in [DOMAIN sockets' -> SocketStates] /\ DOMAIN sockets' = DOMAIN sockets
          /\ sockets'[t] = new /\ \A u \in DOMAIN sockets \ {t} : sockets'[u] = sockets[u]
      BY <1>3, <2>1, <2>3, TabBecomes
    <2>5. socket.state = "connecting"
      BY <1>2, <2>2 DEF SocketsInv, DialsHold
    <2>6. DialsHold'
      BY <1>8, <2>1, <2>2, <2>3
    <2>7. SocketsTypeOK' /\ PostedHold'
      BY <1>4, <1>10, <2>1, <2>4
    <2>8. HeldHold'
      BY <1>3, <2>1, <2>3, <2>4, <2>5 DEF SocketsInv, HeldHold
    <2>9. LiveHold'
      <3>1. \A c \in DOMAIN conns : Lives(conns[c]) => conns[c].tab # t /\ conns[c].tab \in DOMAIN sockets
        BY <2>5 DEF SocketsInv, SocketsTypeOK, LiveHold
      <3> QED
        BY <2>1, <2>4, <3>1 DEF SocketsInv, LiveHold, Lives
    <2> QED
      BY <1>6, <2>6, <2>7, <2>8, <2>9
  <1>12. CASE m.kind = "dialed"
    <2> DEFINE new == Shown([socket EXCEPT !.state = "on", !.conn = m.conn], "connected")
               read == [conns[m.conn] EXCEPT !.reader = "reading"]
    <2>1. sockets' = [sockets EXCEPT ![t] = new] /\ conns' = [conns EXCEPT ![m.conn] = read]
      BY <1>12 DEF Callback, With
    <2>2. "connected" \in Notes /\ EndsDial(m) /\ m.conn \in Nat
      BY <1>3, <1>12 DEF Notes, EndsDial, Callbacks
    <2>3. new \in SocketStates /\ new.state = "on" /\ new.conn = m.conn
      BY <1>3, <1>5, <2>2 DEF Shown, SocketStates
    <2>4. m.conn \in DOMAIN conns /\ conns[m.conn].tab = t /\ conns[m.conn] \in Conns
      BY <1>2, <1>4, <1>12 DEF SocketsInv, PostedHold
    <2>5. /\ read \in Conns /\ read.tab = t
          /\ Ends(conns[m.conn]) => Ends(read)
      BY <1>2, <1>12, <2>4 DEF Conns, Ends, SocketsInv, PostedHold
    <2> HIDE DEF new, read
    <2>6. /\ sockets' \in [DOMAIN sockets' -> SocketStates] /\ DOMAIN sockets' = DOMAIN sockets
          /\ sockets'[t] = new /\ \A u \in DOMAIN sockets \ {t} : sockets'[u] = sockets[u]
      BY <1>3, <2>1, <2>3, TabBecomes
    <2>7. /\ conns' \in Seq(Conns) /\ DOMAIN conns' = DOMAIN conns
          /\ conns'[m.conn] = read /\ \A c \in DOMAIN conns \ {m.conn} : conns'[c] = conns[c]
      BY <1>4, <2>1, <2>4, <2>5
    <2>8. socket.state = "connecting"
      BY <1>2, <2>2 DEF SocketsInv, DialsHold
    <2>9. DialsHold'
      BY <1>8, <2>1, <2>2, <2>3
    <2>10. SocketsTypeOK' /\ PostedHold'
      <3>1. \A c \in DOMAIN conns :
               conns'[c].tab = conns[c].tab /\ (Ends(conns[c]) => Ends(conns'[c]))
        BY <2>4, <2>5, <2>7
      <3>2. ASSUME NEW i \in DOMAIN posted', posted'[i].kind = "dialed"
            PROVE  posted'[i].conn # m.conn /\ posted'[i].conn \in DOMAIN conns
        <4>1. /\ i + 1 \in DOMAIN posted /\ i + 1 # 1 /\ posted'[i] = posted[i + 1]
              /\ posted[i + 1].kind = "dialed"
          BY <1>2, <3>2
        <4>2. /\ posted[i + 1].conn \in DOMAIN conns
              /\ conns[posted[i + 1].conn].tab = posted[i + 1].tab
          BY <4>1 DEF SocketsInv, PostedHold
        <4>3. posted[i + 1].tab # t
          BY <1>2, <1>12, <4>1 DEF SocketsInv, DialsHold, EndsDial
        <4> QED
          BY <2>4, <4>1, <4>2, <4>3
      <3> QED
        BY <1>10, <2>6, <2>7, <3>1, <3>2
    <2>11. HeldHold'
      BY <2>3, <2>4, <2>6, <2>7 DEF SocketsInv, HeldHold
    <2>12. LiveHold'
      <3> SUFFICES ASSUME NEW c \in DOMAIN conns', Lives(conns'[c])
                   PROVE  sockets'[conns'[c].tab].conn = c /\ sockets'[conns'[c].tab].state = "on"
        BY DEF LiveHold, Lives
      <3>1. CASE c = m.conn
        BY <2>3, <2>5, <2>6, <2>7, <3>1
      <3>2. CASE c # m.conn
        <4>1. c \in DOMAIN conns /\ conns'[c] = conns[c]
          BY <2>7, <3>2
        <4>2. /\ conns[c].tab \in DOMAIN sockets
              /\ sockets[conns[c].tab].conn = c /\ sockets[conns[c].tab].state = "on"
          BY <4>1 DEF SocketsInv, SocketsTypeOK, LiveHold
        <4> QED
          BY <2>6, <2>8, <4>1, <4>2
      <3> QED
        BY <3>1, <3>2
    <2> QED
      BY <1>6, <2>9, <2>10, <2>11, <2>12
  <1>13. CASE m.kind = "ended" /\ socket.conn = m.conn
    <2> DEFINE new == Shown([socket EXCEPT !.state = "off", !.conn = 0], "closed")
    <2>1. sockets' = [sockets EXCEPT ![t] = new] /\ conns' = conns
      BY <1>13 DEF Callback, With, Ended
    <2>2. "closed" \in Notes
      BY DEF Notes
    <2>3. new \in SocketStates /\ new.state = "off" /\ new.conn = 0
      BY <1>3, <1>5, <2>2 DEF Shown, SocketStates
    <2> HIDE DEF new
    <2>4. m.conn \in DOMAIN conns /\ Ends(conns[m.conn])
      BY <1>2, <1>13 DEF SocketsInv, PostedHold
    <2>5. socket.state = "on"
      <3>1. m.conn # 0
        BY <1>4, <2>4
      <3> QED
        BY <1>3, <1>13, <3>1 DEF SocketsInv, HeldHold
    <2>6. /\ sockets' \in [DOMAIN sockets' -> SocketStates] /\ DOMAIN sockets' = DOMAIN sockets
          /\ sockets'[t] = new /\ \A u \in DOMAIN sockets \ {t} : sockets'[u] = sockets[u]
      BY <1>3, <2>1, <2>3, TabBecomes
    <2>7. DialsHold'
      BY <1>9, <2>1, <2>3, <2>5
    <2>8. SocketsTypeOK' /\ PostedHold'
      BY <1>4, <1>10, <2>1, <2>6
    <2>9. HeldHold'
      BY <2>1, <2>3, <2>6 DEF SocketsInv, HeldHold
    <2>10. LiveHold'
      <3> SUFFICES ASSUME NEW c \in DOMAIN conns', Lives(conns'[c])
                   PROVE  sockets'[conns'[c].tab].conn = c /\ sockets'[conns'[c].tab].state = "on"
        BY DEF LiveHold, Lives
      <3>1. /\ c \in DOMAIN conns /\ conns[c].tab \in DOMAIN sockets
            /\ sockets[conns[c].tab].conn = c /\ sockets[conns[c].tab].state = "on"
        BY <2>1 DEF SocketsInv, SocketsTypeOK, LiveHold
      <3>2. c # m.conn
        BY <2>1, <2>4 DEF Lives, Ends
      <3> QED
        BY <1>13, <2>1, <2>6, <3>1, <3>2
    <2> QED
      BY <1>6, <2>7, <2>8, <2>9, <2>10
  <1>14. CASE /\ m.kind \notin {"refused", "dialed"}
              /\ m.kind = "ended" => socket.conn # m.conn
    <2>1. PICK new \in SocketStates :
            /\ sockets' = [sockets EXCEPT ![t] = new] /\ conns' = conns
            /\ new.state = socket.state /\ new.conn = socket.conn
      <3>1. CASE m.kind = "ended"
        BY <1>3, <1>14, <3>1 DEF Callback, With, Ended
      <3>2. CASE m.kind # "ended"
        <4>1. m.kind \in Notes
          BY <1>3, <1>14, <3>2 DEF Callbacks, Notes
        <4>2. /\ Shown(socket, m.kind) \in SocketStates
              /\ Shown(socket, m.kind).state = socket.state
              /\ Shown(socket, m.kind).conn = socket.conn
          BY <1>3, <1>5, <4>1 DEF Shown, SocketStates
        <4>3. sockets' = [sockets EXCEPT ![t] = Shown(socket, m.kind)] /\ conns' = conns
          BY <1>14, <3>2 DEF Callback, With
        <4> QED
          BY <4>2, <4>3
      <3> QED
        BY <3>1, <3>2
    <2>2. /\ sockets' \in [DOMAIN sockets' -> SocketStates] /\ DOMAIN sockets' = DOMAIN sockets
          /\ sockets'[t] = new /\ \A u \in DOMAIN sockets \ {t} : sockets'[u] = sockets[u]
      BY <1>3, <2>1, TabBecomes
    <2>3. DialsHold'
      BY <1>9, <2>1
    <2>4. SocketsTypeOK' /\ PostedHold'
      BY <1>4, <1>10, <2>1, <2>2
    <2>5. \A u \in DOMAIN sockets :
            sockets'[u].state = sockets[u].state /\ sockets'[u].conn = sockets[u].conn
      BY <2>1, <2>2
    <2>6. HeldHold'
      BY <2>1, <2>2, <2>5 DEF SocketsInv, HeldHold
    <2>7. LiveHold'
      BY <2>1, <2>5 DEF SocketsInv, SocketsTypeOK, LiveHold, Lives
    <2> QED
      BY <1>6, <2>3, <2>4, <2>6, <2>7
  <1> QED
    BY <1>11, <1>12, <1>13, <1>14

LEMMA SocketsStep ==
    ASSUME TabsInv, SocketsInv, [Next]_benchVars
    PROVE  SocketsInv'
  <1>0. lastTab \in Nat
    BY DEF TabsInv, RowsInv
  <1>1. CASE UNCHANGED <<socketVars, lastTab>>
    BY <1>0, <1>1, ElsewhereKeeps
  <1>2. CASE LootNext /\ UNCHANGED <<tabVars, socketVars>>
    BY <1>1, <1>2 DEF tabVars, rowVars
  <1>3. CASE UNCHANGED benchVars
    BY <1>1, <1>3 DEF benchVars, tabVars, rowVars
  <1>4. ASSUME NEW text, AddTab(text) \/ CreateTab, UNCHANGED socketVars
        PROVE  SocketsInv'
    <2>1. lastTab' = lastTab \/ lastTab' = lastTab + 1
      BY <1>4 DEF AddTab, CreateTab, OpenTab, SaveFails, SaveRepeaterTab, rowVars
    <2>2. lastTab' \in Nat /\ lastTab' >= lastTab
      BY <1>0, <2>1
    <2> QED
      BY <1>0, <1>4, <2>2, ElsewhereKeeps
  <1>5. CASE SendToRepeater
    BY <1>4, <1>5 DEF SendToRepeater
  <1>6. CASE NewTab /\ UNCHANGED socketVars
    BY <1>4, <1>6 DEF NewTab, Clone
  <1>7. CASE \E i \in DOMAIN tabs : CloseTab(i) /\ UNCHANGED socketVars
    BY <1>1, <1>7 DEF CloseTab
  <1>8. CASE ReopenSockets
    BY <1>8, ReopenSocketsKeeps
  <1>9. CASE HTTPNext /\ UNCHANGED socketVars
    <2>1. lastTab' = lastTab
      BY <1>9 DEF HTTPNext, Edit, SendNothing, Send, LoadHistEntry, SendStep, Decide, SendLands,
                  UpdateRepeaterTab, rowVars
    <2> QED
      BY <1>1, <1>9, <2>1
  <1>10. CASE SocketNext
    BY <1>10, AddWSTabKeeps, ConnectKeeps, DisconnectKeeps, SendFrameKeeps, ClearKeeps, DialedKeeps,
       ReaderKeeps, WrittenKeeps, CallbackKeeps DEF SocketNext
  <1> QED
    BY <1>2, <1>3, <1>5, <1>6, <1>7, <1>8, <1>9, <1>10 DEF Next, RepeaterNext

LEMMA SocketsStart ==
    ASSUME Init
    PROVE  SocketsInv
  <1>1. sockets = <<>> /\ conns = <<>> /\ dialing = {} /\ writing = {} /\ posted = <<>> /\ lastTab = 0
    BY DEF Init, SocketInit, TabsInit
  <1>2. SocketsTypeOK
    BY <1>1 DEF SocketsTypeOK
  <1> QED
    BY <1>1, <1>2 DEF SocketsInv, DialsHold, HeldHold, PostedHold, LiveHold

-----------------------------------------------------------------------------
(* The columns.                                                            *)

WidthsInv == colWidths \in [Columns -> Nat] /\ ColumnsFit

LEMMA LeastNumber ==
    ASSUME NEW T, T \subseteq Nat, T # {}
    PROVE  \E m \in T : \A k \in T : m <= k
  <1>1. PICK m \in T : \A k \in T : ~(<<k, m>> \in OpToRel(<, Nat))
    BY WFMin, NatLessThanWellFounded, Zenon
  <1>2. m \in Nat /\ \A k \in T : <<k, m>> \in Nat \X Nat /\ ~(k < m)
    BY <1>1 DEF OpToRel
  <1>3. ASSUME NEW k \in T  PROVE m <= k
    <2>1. m \in Nat /\ k \in Nat /\ ~(k < m)
      BY <1>2
    <2> QED
      BY <2>1
  <1> QED
    BY <1>3

(* What f adds up of w, up to n. *)
SumsTo(f, w, n) ==
    f \in [0 .. n -> Nat] /\ f[0] = 0 /\ \A i \in 1 .. n : f[i] = f[i - 1] + w[i]

LEMMA SumsExist ==
    ASSUME NEW N \in Nat, NEW w \in [1 .. N -> Nat]
    PROVE  \E f : SumsTo(f, w, N)
  <1> DEFINE T == {n \in 0 .. N : ~\E f : SumsTo(f, w, n)}
  <1>0. SUFFICES ASSUME T # {}  PROVE FALSE
    <2>1. N \in 0 .. N
      OBVIOUS
    <2> QED
      BY <2>1
  <1>1. PICK m \in T : \A k \in T : m <= k
    <2>1. T \subseteq Nat
      OBVIOUS
    <2> HIDE DEF T
    <2> QED
      BY <1>0, <2>1, LeastNumber
  <1>2. m \in 0 .. N /\ ~\E f : SumsTo(f, w, m)
    BY <1>1
  <1>3. CASE m = 0
    <2>1. SumsTo([i \in 0 .. 0 |-> 0], w, 0)
      BY DEF SumsTo
    <2> QED
      BY <1>2, <1>3, <2>1
  <1>4. CASE m # 0
    <2>1. m - 1 \in 0 .. N /\ m \in 1 .. N /\ m \in Nat
      BY <1>2, <1>4
    <2>2. m - 1 \notin T
      <3> HIDE DEF T
      <3> QED
        BY <1>1, <2>1
    <2>3. PICK f : SumsTo(f, w, m - 1)
      BY <2>1, <2>2
    <2> DEFINE g == [i \in 0 .. m |-> IF i = m THEN f[m - 1] + w[m] ELSE f[i]]
    <2>4. f[m - 1] \in Nat /\ w[m] \in Nat
      BY <2>1, <2>3 DEF SumsTo
    <2>5. g \in [0 .. m -> Nat] /\ g[0] = 0
      BY <2>1, <2>3, <2>4 DEF SumsTo
    <2>6. ASSUME NEW i \in 1 .. m  PROVE g[i] = g[i - 1] + w[i]
      <3>1. CASE i = m
        BY <2>1, <3>1
      <3>2. CASE i # m
        <4>1. i \in 1 .. m - 1 /\ i - 1 \in 0 .. m /\ i - 1 # m /\ i \in 0 .. m
          BY <2>1, <3>2
        <4>2. g[i] = f[i] /\ g[i - 1] = f[i - 1]
          BY <3>2, <4>1
        <4> QED
          BY <2>3, <4>1, <4>2 DEF SumsTo
      <3> QED
        BY <3>1, <3>2
    <2>7. SumsTo(g, w, m)
      <3> HIDE DEF g
      <3> QED
        BY <2>5, <2>6 DEF SumsTo
    <2> QED
      BY <1>2, <2>7
  <1> QED
    BY <1>3, <1>4

(* Total computes what its recursion says. *)
LEMMA TotalSums ==
    ASSUME NEW w \in Seq(Nat)
    PROVE  \E f : SumsTo(f, w, Len(w)) /\ Total(w) = f[Len(w)]
  <1> DEFINE N == Len(w)
             Eq(f) == f = [i \in 0 .. N |-> IF i = 0 THEN 0 ELSE f[i - 1] + w[i]]
             sum == CHOOSE f : Eq(f)
  <1>1. N \in Nat /\ w \in [1 .. N -> Nat]
    OBVIOUS
  <1>2. Total(w) = sum[N]
    BY DEF Total
  <1>3. PICK f : SumsTo(f, w, N)
    BY <1>1, SumsExist
  <1>4. Eq(f)
    <2>1. f \in [0 .. N -> Nat] /\ f[0] = 0 /\ \A i \in 1 .. N : f[i] = f[i - 1] + w[i]
      BY <1>3 DEF SumsTo
    <2>2. \A i \in 0 .. N : f[i] = IF i = 0 THEN 0 ELSE f[i - 1] + w[i]
      BY <1>1, <2>1
    <2> QED
      BY <2>1, <2>2
  <1>5. Eq(sum)
    <2> HIDE DEF Eq
    <2> QED
      BY <1>4
  <1>6. /\ sum = [i \in 0 .. N |-> sum[i]] /\ sum[0] = 0
        /\ \A i \in 1 .. N : sum[i] = sum[i - 1] + w[i]
    <2> HIDE DEF sum
    <2>1. DOMAIN sum = 0 .. N /\ sum = [i \in 0 .. N |-> sum[i]]
      BY <1>5
    <2>2. \A i \in 0 .. N : sum[i] = IF i = 0 THEN 0 ELSE sum[i - 1] + w[i]
      BY <1>5
    <2> QED
      BY <1>1, <2>1, <2>2
  <1> HIDE DEF sum
  <1> DEFINE T == {i \in 0 .. N : sum[i] \notin Nat}
  <1>7. T = {}
    <2>0. SUFFICES ASSUME T # {}  PROVE FALSE
      OBVIOUS
    <2>1. PICK m \in T : \A k \in T : m <= k
      <3>1. T \subseteq Nat
        OBVIOUS
      <3> HIDE DEF T
      <3> QED
        BY <2>0, <3>1, LeastNumber
    <2>2. m \in 1 .. N /\ m - 1 \in 0 .. N
      BY <1>6, <2>1
    <2>3. m - 1 \notin T
      <3> HIDE DEF T
      <3> QED
        BY <2>1, <2>2
    <2>4. sum[m - 1] \in Nat /\ w[m] \in Nat
      BY <1>1, <2>2, <2>3
    <2>5. sum[m] \in Nat
      <3>1. sum[m] = sum[m - 1] + w[m]
        BY <1>6, <2>2
      <3> QED
        BY <2>4, <3>1
    <2> QED
      BY <2>1, <2>5
  <1>8. SumsTo(sum, w, N)
    <2>1. \A i \in 0 .. N : sum[i] \in Nat
      BY <1>7
    <2> QED
      BY <1>6, <2>1 DEF SumsTo
  <1> QED
    BY <1>2, <1>8

LEMMA TotalType ==
    ASSUME NEW w \in Seq(Nat)
    PROVE  Total(w) \in Nat
  <1>1. PICK f : SumsTo(f, w, Len(w)) /\ Total(w) = f[Len(w)]
    BY TotalSums
  <1>2. f \in [0 .. Len(w) -> Nat] /\ Len(w) \in 0 .. Len(w)
    BY <1>1 DEF SumsTo
  <1> QED
    BY <1>1, <1>2

(* Two columns that change, change the total by what they change.          *)
LEMMA TotalOfTwo ==
    ASSUME NEW v \in Seq(Nat), NEW w \in Seq(Nat), Len(v) = Len(w),
           NEW c \in 1 .. Len(w), c + 1 \in 1 .. Len(w),
           \A i \in 1 .. Len(w) \ {c, c + 1} : v[i] = w[i]
    PROVE  /\ Total(v) \in Nat /\ Total(w) \in Nat
           /\ Total(v) = Total(w) + (v[c] - w[c]) + (v[c + 1] - w[c + 1])
  <1> DEFINE N == Len(w)
             a == v[c] - w[c]
             b == v[c + 1] - w[c + 1]
  <1>1. PICK f : SumsTo(f, w, N) /\ Total(w) = f[N]
    BY TotalSums
  <1>2. PICK g : SumsTo(g, v, N) /\ Total(v) = g[N]
    BY TotalSums
  <1>3. N \in Nat /\ c \in Nat /\ c < N /\ c >= 1 /\ a \in Int /\ b \in Int
    OBVIOUS
  <1>4. /\ \A i \in 0 .. N : f[i] \in Nat /\ g[i] \in Nat
        /\ f[0] = 0 /\ g[0] = 0
        /\ \A i \in 1 .. N : f[i] = f[i - 1] + w[i] /\ g[i] = g[i - 1] + v[i]
        /\ \A i \in 1 .. N : v[i] \in Nat /\ w[i] \in Nat
    <2>1. \A i \in 0 .. N : f[i] \in Nat
      BY <1>1 DEF SumsTo
    <2>2. \A i \in 0 .. N : g[i] \in Nat
      BY <1>2 DEF SumsTo
    <2>3. f[0] = 0 /\ g[0] = 0
      BY <1>1, <1>2 DEF SumsTo
    <2>4. \A i \in 1 .. N : f[i] = f[i - 1] + w[i] /\ g[i] = g[i - 1] + v[i]
      BY <1>1, <1>2 DEF SumsTo
    <2>5. \A i \in 1 .. N : v[i] \in Nat /\ w[i] \in Nat
      OBVIOUS
    <2> QED
      BY <2>1, <2>2, <2>3, <2>4, <2>5
  <1> DEFINE More(i) == IF i < c THEN 0 ELSE IF i = c THEN a ELSE a + b
             T == {i \in 0 .. N : g[i] # f[i] + More(i)}
  <1>5. T = {}
    <2>0. SUFFICES ASSUME T # {}  PROVE FALSE
      OBVIOUS
    <2>1. PICK m \in T : \A k \in T : m <= k
      <3>1. T \subseteq Nat
        OBVIOUS
      <3> HIDE DEF T
      <3> QED
        BY <2>0, <3>1, LeastNumber
    <2>2. m \in 0 .. N /\ g[m] # f[m] + More(m)
      BY <2>1
    <2>3. m # 0
      BY <1>3, <1>4, <2>2
    <2>4. m \in 1 .. N /\ m - 1 \in 0 .. N
      BY <1>3, <2>2, <2>3
    <2>5. m - 1 \notin T
      <3> HIDE DEF T
      <3> QED
        BY <2>1, <2>4
    <2>6. g[m - 1] = f[m - 1] + More(m - 1)
      BY <2>4, <2>5
    <2>7. /\ f[m] = f[m - 1] + w[m] /\ g[m] = g[m - 1] + v[m]
          /\ f[m - 1] \in Nat /\ g[m - 1] \in Nat /\ v[m] \in Nat /\ w[m] \in Nat
          /\ m \in Nat
      <3> HIDE DEF N, T, a, b
      <3>1. m \in Nat
        BY <1>3, <2>4
      <3>2. f[m] = f[m - 1] + w[m] /\ g[m] = g[m - 1] + v[m] /\ v[m] \in Nat /\ w[m] \in Nat
        BY <1>4, <2>4
      <3>3. f[m - 1] \in Nat /\ g[m - 1] \in Nat
        BY <1>4, <2>4
      <3> QED
        BY <3>1, <3>2, <3>3
    <2> HIDE DEF N, T
    <2>8. More(m) = More(m - 1) + (v[m] - w[m])
      <3>1. CASE m < c
        <4>1. v[m] = w[m]
          BY <1>3, <2>4, <3>1 DEF N
        <4> QED
          BY <1>3, <2>7, <3>1, <4>1
      <3>2. CASE m = c
        BY <1>3, <2>7, <3>2
      <3>3. CASE m = c + 1
        BY <1>3, <2>7, <3>3
      <3>4. CASE m > c + 1
        <4>1. v[m] = w[m]
          BY <1>3, <2>4, <3>4 DEF N
        <4> QED
          BY <1>3, <2>7, <3>4, <4>1
      <3> QED
        BY <1>3, <2>7, <3>1, <3>2, <3>3, <3>4
    <2>9. More(m - 1) \in Int
      BY <1>3, <2>7
    <2> HIDE DEF More
    <2>10. g[m] = f[m] + More(m)
      <3> DEFINE fm == f[m - 1]
                 gm == g[m - 1]
                 vm == v[m]
                 wm == w[m]
                 q == More(m - 1)
      <3>1. /\ fm \in Nat /\ gm \in Nat /\ vm \in Nat /\ wm \in Nat /\ q \in Int
            /\ f[m] = fm + wm /\ g[m] = gm + vm /\ gm = fm + q /\ More(m) = q + (vm - wm)
        BY <2>6, <2>7, <2>8, <2>9
      <3> HIDE DEF fm, gm, vm, wm, q
      <3> QED
        BY <3>1
    <2> QED
      BY <2>2, <2>10
  <1>6. g[N] = f[N] + a + b
    <2>1. N \in 0 .. N /\ More(N) = a + b
      BY <1>3
    <2>2. g[N] = f[N] + More(N)
      <3> HIDE DEF More
      <3> QED
        BY <1>5, <2>1
    <2>3. f[N] \in Nat
      BY <1>4, <2>1
    <2> HIDE DEF N, More, a, b
    <2> QED
      BY <1>3, <2>1, <2>2, <2>3
  <1>7. f[N] \in Nat /\ g[N] \in Nat
    <2>1. N \in 0 .. N
      BY <1>3
    <2> HIDE DEF N
    <2> QED
      BY <1>4, <2>1
  <1> QED
    BY <1>1, <1>2, <1>6, <1>7

(* The numbers of a drag: what column c gains comes from what is free, from*)
(* its neighbour, or goes to it.                                           *)
Dragged(total, width, start, delta, x, y, xMin, yMin, free, taken, gain) ==
    /\ total \in Nat /\ width \in Nat /\ start \in Nat /\ delta \in Int
    /\ x \in Nat /\ y \in Nat /\ xMin \in Nat /\ yMin \in Nat
    /\ x >= xMin /\ y >= yMin /\ delta >= xMin - x /\ total <= Greatest(width, start)
    /\ free = Greatest(0, width - total)
    /\ taken = IF delta > free THEN Least(delta - free, y - yMin) ELSE Least(delta, 0)
    /\ gain = IF delta > free THEN free + taken ELSE delta

LEMMA DragNumbers ==
    ASSUME NEW total, NEW width, NEW start, NEW delta, NEW x, NEW y, NEW xMin, NEW yMin, NEW free,
           NEW taken, NEW gain,
           Dragged(total, width, start, delta, x, y, xMin, yMin, free, taken, gain)
    PROVE  /\ x + gain \in Nat /\ x + gain >= xMin /\ y - taken \in Nat /\ y - taken >= yMin
           /\ gain \in Int /\ taken \in Int
           /\ total + gain - taken <= Greatest(width, start)
  <1> USE DEF Dragged
  <1>1. free \in Nat /\ total + free <= Greatest(width, start)
    BY DEF Greatest
  <1>2. CASE delta > free
    <2>1. taken \in Nat /\ taken <= y - yMin /\ gain = free + taken
      BY <1>1, <1>2 DEF Least
    <2> QED
      BY <1>1, <2>1 DEF Greatest
  <1>3. CASE ~(delta > free)
    <2>1. gain = delta /\ taken \in Int /\ taken <= 0 /\ taken <= delta /\ (taken = 0 \/ taken = delta)
      BY <1>1, <1>3 DEF Least
    <2> QED
      BY <1>1, <1>3, <2>1 DEF Greatest
  <1> QED
    BY <1>2, <1>3

LEMMA WidthFacts ==
    ASSUME TableAssumption, WidthsInv
    PROVE  /\ colWidths \in Seq(Nat) /\ Len(colWidths) = Len(ColumnWidths) /\ Len(ColumnWidths) \in Nat
           /\ Columns = 1 .. Len(ColumnWidths)
           /\ \A c \in Columns : /\ colWidths[c] \in Nat /\ ColumnMin[c] \in Nat
                                 /\ colWidths[c] >= ColumnMin[c]
  <1>1. Columns = 1 .. Len(ColumnWidths) /\ Len(ColumnWidths) \in Nat
    BY DEF TableAssumption, Columns
  <1>2. colWidths \in [1 .. Len(ColumnWidths) -> Nat]
    BY <1>1 DEF WidthsInv
  <1>3. colWidths \in Seq(Nat)
    BY <1>1, <1>2, SeqDef
  <1>4. Len(colWidths) = Len(ColumnWidths)
    BY <1>1, <1>2, <1>3
  <1> QED
    BY <1>1, <1>3, <1>4 DEF WidthsInv, ColumnsFit, TableAssumption

LEMMA DragKeeps ==
    ASSUME TableAssumption, WidthsInv, DragDivider
    PROVE  WidthsInv'
  <1>1. PICK c \in Columns \ {Len(ColumnWidths)}, move \in -TableWidth .. TableWidth :
          colWidths' = Widened(c, Greatest(move, ColumnMin[c] - colWidths[c]))
    BY DEF DragDivider
  <1> DEFINE w == colWidths
             N == Len(ColumnWidths)
             delta == Greatest(move, ColumnMin[c] - w[c])
             free == Greatest(0, TableWidth - Total(w))
             taken == IF delta > free THEN Least(delta - free, w[c + 1] - ColumnMin[c + 1])
                      ELSE Least(delta, 0)
             gain == IF delta > free THEN free + taken ELSE delta
             v == [w EXCEPT ![c] = w[c] + gain, ![c + 1] = w[c + 1] - taken]
             limit == Greatest(TableWidth, Total(ColumnWidths))
  <1>2. /\ w \in Seq(Nat) /\ Len(w) = N /\ N \in Nat /\ Columns = 1 .. N
        /\ \A d \in Columns : w[d] \in Nat /\ ColumnMin[d] \in Nat /\ w[d] >= ColumnMin[d]
    BY WidthFacts
  <1>3. c \in 1 .. N /\ c + 1 \in 1 .. N /\ c \in Nat /\ c # c + 1
    BY <1>2
  <1>4. colWidths' = v
    BY <1>1, <1>2, <1>3 DEF Widened
  <1>5. Total(w) \in Nat /\ Total(ColumnWidths) \in Nat /\ TableWidth \in Nat
    BY <1>2, TotalType DEF TableAssumption
  <1>6. delta \in Int /\ delta >= ColumnMin[c] - w[c]
    <2>1. move \in Int /\ ColumnMin[c] - w[c] \in Int
      BY <1>2, <1>3, <1>5
    <2> HIDE DEF w
    <2> QED
      BY <2>1 DEF Greatest
  <1>7. Total(w) <= limit
    BY DEF WidthsInv, ColumnsFit
  <1>8. /\ w[c] + gain \in Nat /\ w[c] + gain >= ColumnMin[c]
        /\ w[c + 1] - taken \in Nat /\ w[c + 1] - taken >= ColumnMin[c + 1]
        /\ gain \in Int /\ taken \in Int
        /\ Total(w) + gain - taken <= limit
    <2>1. /\ w[c] \in Nat /\ ColumnMin[c] \in Nat /\ w[c] >= ColumnMin[c]
          /\ w[c + 1] \in Nat /\ ColumnMin[c + 1] \in Nat /\ w[c + 1] >= ColumnMin[c + 1]
      BY <1>2, <1>3
    <2>2. Dragged(Total(w), TableWidth, Total(ColumnWidths), delta, w[c], w[c + 1], ColumnMin[c],
                  ColumnMin[c + 1], free, taken, gain)
      <3> HIDE DEF w, delta
      <3> QED
        BY <1>5, <1>6, <1>7, <2>1 DEF Dragged
    <2> HIDE DEF w, delta, free, taken, gain
    <2> QED
      BY <2>2, DragNumbers
  <1> HIDE DEF gain, taken
  <1>9. /\ v[c] = w[c] + gain /\ v[c + 1] = w[c + 1] - taken
        /\ \A d \in 1 .. N \ {c, c + 1} : v[d] = w[d]
        /\ v \in Seq(Nat) /\ Len(v) = N
    <2>1. DOMAIN w = 1 .. N /\ \A d \in 1 .. N : w[d] \in Nat
      BY <1>2
    <2>2. DOMAIN v = 1 .. N /\ v = [d \in 1 .. N |-> v[d]]
      BY <2>1
    <2>3. /\ v[c] = w[c] + gain /\ v[c + 1] = w[c + 1] - taken
          /\ \A d \in 1 .. N \ {c, c + 1} : v[d] = w[d]
      BY <1>3, <2>1
    <2> HIDE DEF v, w
    <2>4. \A d \in 1 .. N : v[d] \in Nat
      BY <1>8, <2>1, <2>3
    <2>5. v \in [1 .. N -> Nat]
      BY <2>2, <2>4
    <2>6. v \in Seq(Nat)
      BY <1>2, <2>5, SeqDef
    <2>7. Len(v) = N
      BY <1>2, <2>2, <2>6
    <2> QED
      BY <2>3, <2>6, <2>7
  <1> HIDE DEF v
  <1>10. Total(v) = Total(w) + (v[c] - w[c]) + (v[c + 1] - w[c + 1])
    <2>1. /\ v \in Seq(Nat) /\ w \in Seq(Nat) /\ Len(v) = Len(w)
          /\ c \in 1 .. Len(w) /\ c + 1 \in 1 .. Len(w)
          /\ \A d \in 1 .. Len(w) \ {c, c + 1} : v[d] = w[d]
      <3> HIDE DEF w, N
      <3> QED
        BY <1>2, <1>3, <1>9
    <2> HIDE DEF w, N
    <2> QED
      BY <2>1, TotalOfTwo
  <1>11. Total(v) <= limit
    <2> DEFINE p == w[c]
               q == w[c + 1]
               t == Total(w)
    <2>1. p \in Nat /\ q \in Nat /\ t \in Nat
      BY <1>2, <1>3, <1>5
    <2>2. Total(v) = t + ((p + gain) - p) + ((q - taken) - q) /\ t + gain - taken <= limit
      BY <1>8, <1>9, <1>10
    <2> HIDE DEF p, q, t, limit
    <2> QED
      BY <1>8, <2>1, <2>2
  <1>12. \A d \in Columns : v[d] >= ColumnMin[d]
    <2> HIDE DEF w, N
    <2> QED
      BY <1>2, <1>3, <1>8, <1>9
  <1>13. v \in [Columns -> Nat]
    <2>1. v \in [1 .. Len(v) -> Nat]
      BY <1>9
    <2> HIDE DEF w, N
    <2> QED
      BY <1>2, <1>9, <2>1
  <1> QED
    BY <1>4, <1>11, <1>12, <1>13 DEF WidthsInv, ColumnsFit, limit

(* No other step touches the widths. *)
LEMMA WidthsStep ==
    ASSUME TableAssumption, WidthsInv, [Next]_benchVars
    PROVE  WidthsInv'
  <1>1. CASE UNCHANGED colWidths
    BY <1>1 DEF WidthsInv, ColumnsFit
  <1>2. CASE DragDivider
    BY <1>2, DragKeeps
  <1>3. CASE LootNext
    <2>1. CASE TableNext
      BY <1>1, <1>2, <2>1 DEF TableNext, Scrolled, PressThumb, DragThumb, ReleaseThumb
    <2>2. CASE Select
      BY <1>1, <2>2 DEF Select, TapRow, ArrowKey, Tapped
    <2>3. CASE Reload
      BY <1>1, <2>3 DEF Reload
    <2>4. CASE UNCHANGED tableVars
      BY <1>1, <2>4 DEF tableVars
    <2> QED
      BY <1>3, <2>1, <2>2, <2>3, <2>4
         DEF LootNext, PluginWrites, PluginAnnounces, ForgetTransaction, Watch, DeleteButton, RowMenu,
             MenuDelete, ConfirmDelete, ShowAddDialog, ConfirmAdd, ViewRequest, MenuView, Fetched, Dismiss
  <1>4. CASE UNCHANGED tableVars
    BY <1>1, <1>4 DEF tableVars
  <1> QED
    BY <1>3, <1>4 DEF Next, SendToRepeater, benchVars

LEMMA WidthsStart ==
    ASSUME TableAssumption, Init
    PROVE  WidthsInv
  <1>1. colWidths = ColumnWidths
    BY DEF Init, LootInit, TableInit
  <1>2. ColumnWidths \in [Columns -> Nat] /\ ColumnMin \in [Columns -> Nat]
    BY DEF TableAssumption, Columns
  <1>3. Total(ColumnWidths) \in Nat /\ TableWidth \in Nat
    BY TotalType DEF TableAssumption
  <1>4. Total(ColumnWidths) <= Greatest(TableWidth, Total(ColumnWidths))
    BY <1>3 DEF Greatest
  <1>5. \A c \in Columns : ColumnWidths[c] >= ColumnMin[c]
    BY <1>2 DEF TableAssumption
  <1> QED
    BY <1>1, <1>2, <1>4, <1>5 DEF WidthsInv, ColumnsFit

-----------------------------------------------------------------------------
(* The theorems.                                                           *)

(* A project reopens with the tabs on the screen: the rows of the table    *)
(* repeater_tabs are the open tabs, their positions are all different, and *)
(* their order is the order from left to right, whatever was opened,       *)
(* cloned and closed.  Only a call of the store that fails leaves a tab    *)
(* without a row or a row without its tab.                                 *)
THEOREM TabsAlwaysReopen ==
    ASSUME BenchAssumption
    PROVE  Spec => []TabsReopen
  <1>1. Init => TabsInv /\ PairsInv
    BY TabsStart
  <1>2. TabsInv /\ PairsInv /\ [Next]_benchVars => TabsInv' /\ PairsInv'
    BY TabsStep
  <1>3. TabsInv => TabsReopen
    BY DEF TabsInv
  <1> QED
    BY <1>1, <1>2, <1>3, PTL DEF Spec

(* The response that applySendResult keeps with a request, in the history  *)
(* of a tab, for the Inspector and in the row, is that of the send in      *)
(* which the user asked for it, for any number of sends that overlap with  *)
(* edits, arrows and closing; what the gate and plugins made of the        *)
(* request on its way is not kept.                                         *)
THEOREM PairsAlwaysBelong ==
    ASSUME BenchAssumption
    PROVE  Spec => []PairsBelong
  <1>1. Init => TabsInv /\ PairsInv
    BY TabsStart
  <1>2. TabsInv /\ PairsInv /\ [Next]_benchVars => TabsInv' /\ PairsInv'
    BY TabsStep
  <1>3. PairsInv => PairsBelong
    BY DEF PairsInv, PairsBelong, PairedTab, Paired, PairedRow
  <1> QED
    BY <1>1, <1>2, <1>3, PTL DEF Spec

(* A WebSocket tab of the Repeater holds every connection of its own that  *)
(* lives and is read: the check in the callback of startReadLoop and the   *)
(* disabled Connect button are enough, however late goroutines report.  A  *)
(* connection whose read loop an error has ended may stay open.            *)
THEOREM LiveIsAlwaysHeld ==
    ASSUME BenchAssumption
    PROVE  Spec => []LiveIsHeld
  <1>1. Init => TabsInv /\ PairsInv /\ SocketsInv
    BY TabsStart, SocketsStart
  <1>2. TabsInv /\ PairsInv /\ SocketsInv /\ [Next]_benchVars => TabsInv' /\ PairsInv' /\ SocketsInv'
    BY TabsStep, SocketsStep
  <1>3. SocketsInv => LiveIsHeld
    BY DEF SocketsInv, LiveHold, Lives, LiveIsHeld
  <1> QED
    BY <1>1, <1>2, <1>3, PTL DEF Spec

(* colDivider.Dragged keeps every column as wide as its header and the     *)
(* table within the window or its first width, for any columns and drags.  *)
THEOREM ColumnsAlwaysFit ==
    ASSUME BenchAssumption
    PROVE  Spec => []ColumnsFit
  <1>0. TableAssumption
    BY DEF BenchAssumption
  <1>1. Init => WidthsInv
    BY <1>0, WidthsStart
  <1>2. WidthsInv /\ [Next]_benchVars => WidthsInv'
    BY <1>0, WidthsStep
  <1>3. WidthsInv => ColumnsFit
    BY DEF WidthsInv
  <1> QED
    BY <1>1, <1>2, <1>3, PTL DEF Spec
=============================================================================
