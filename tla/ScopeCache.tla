----------------------------- MODULE ScopeCache -----------------------------
(***************************************************************************)
(* The scope of a project (internal/store/scope.go): InScope answers from  *)
(* a cache of the scope table, filled on a miss under the write lock of    *)
(* scopeCacheMu, while AddScopeEntry and DeleteScopeEntry change the table *)
(* through the store and then clear the cache.                             *)
(*                                                                         *)
(* The table is what the changes executed so far leave in it; a version of *)
(* it is a length of log.  The cache and the slices InScope works on are   *)
(* versions, or Nil for a nil slice: which hosts match a version does not  *)
(* depend on any of this and is left out.  The store is SerialStore.       *)
(***************************************************************************)
EXTENDS Naturals, Sequences

CONSTANTS
    Lookups,    \* each is one call of InScope
    Changes,    \* each is one call of AddScopeEntry or DeleteScopeEntry
    Adds,       \* the former
    Hosts,
    HostOf,     \* the host of each row: a row is named by the change that adds it
    RowOf,      \* the row each deletion is for
    Nil

ASSUME ScopeAssumption ==
    /\ Adds \subseteq Changes
    /\ HostOf \in [Adds -> Hosts]
    /\ RowOf \in [Changes \ Adds -> Adds]
    /\ Nil \notin Nat /\ Nil \notin Lookups

VARIABLES
    call, log,      \* the store (SerialStore)
    invalidated,    \* the changes whose method has returned nil
    scopeCache,     \* s.scopeCache
    scopeCacheSet,  \* s.scopeCacheSet
    mutex,          \* the lookup that holds scopeCacheMu for writing, or Nil
    at,             \* where each lookup is
    loaded,         \* what AllScopeEntries gave it; Nil for an error
    entries,        \* the slice it matches its host against
    newest,         \* history: the newest version an InScope answered from,
    since,          \*   as it was when each lookup began,
    before          \*   and the changes that had returned by then

storeVars  == <<call, log, invalidated>>
cacheVars  == <<scopeCache, scopeCacheSet, mutex>>
lookupVars == <<at, loaded, entries, newest, since, before>>
scopeVars  == <<storeVars, cacheVars, lookupVars>>

Table == INSTANCE SerialStore WITH Writers <- Changes, Single <- Changes

(* The rows of version v, in SELECT's sense; none for a nil slice.         *)
Rows(v) ==
    IF v = Nil THEN {}
    ELSE {a \in Adds : \E i \in 1 .. v :
            /\ log[i] = a
            /\ \A j \in i + 1 .. v : log[j] \in Adds \/ RowOf[log[j]] # a}

Newer(v, w) == IF v > w THEN v ELSE w

ScopeInit ==
    /\ Table!Init
    /\ invalidated = {}
    /\ scopeCache = Nil /\ scopeCacheSet = FALSE /\ mutex = Nil
    /\ at = [r \in Lookups |-> "idle"]
    /\ loaded = [r \in Lookups |-> Nil]
    /\ entries = [r \in Lookups |-> Nil]
    /\ newest = 0
    /\ since = [r \in Lookups |-> 0]
    /\ before = [r \in Lookups |-> {}]

(* InScope has its slice: it releases the lock and matches the host.       *)
AnswerFrom(r, v) ==
    /\ entries' = [entries EXCEPT ![r] = v]
    /\ at' = [at EXCEPT ![r] = "returned"]
    /\ newest' = IF v = Nil THEN newest ELSE Newer(newest, v)

-----------------------------------------------------------------------------
(* Mistakes, one per property.                                             *)

(* AnswerIsCurrent: the old slice stays behind the cleared flag.           *)
InvalidateFlagOnly(w) ==
    /\ call[w] = "ok" /\ w \notin invalidated
    /\ mutex = Nil
    /\ scopeCacheSet' = FALSE
    /\ invalidated' = invalidated \cup {w}
    /\ UNCHANGED <<call, log, scopeCache, mutex, lookupVars>>

(* AnswersNeverGoBack: the table is read without the lock.                 *)
MissUnlocked(r) ==
    /\ at[r] = "miss" /\ mutex = Nil
    /\ \/ scopeCacheSet /\ AnswerFrom(r, scopeCache)
       \/ ~scopeCacheSet /\ at' = [at EXCEPT ![r] = "load"] /\ UNCHANGED <<entries, newest>>
    /\ UNCHANGED <<storeVars, cacheVars, loaded, since, before>>

-----------------------------------------------------------------------------
(* The methods that change the scope.                                      *)

(* s.write, whose promise is SerialStore's.  The table holds a host once   *)
(* (UNIQUE): a second insert fails.                                        *)
Write(w) ==
    /\ \/ Table!Call(w)
       \/ /\ Table!Apply(w)
          /\ w \in Adds => \A a \in Rows(Len(log)) : HostOf[a] # HostOf[w]
       \/ \E v \in Table!Outcomes : Table!Return(w, v)
    /\ UNCHANGED <<invalidated, cacheVars, lookupVars>>

(* invalidateScopeCache, after write returned nil; then the method returns.*)
Invalidate(w) ==
    /\ call[w] = "ok" /\ w \notin invalidated
    /\ mutex = Nil
    /\ scopeCache' = Nil /\ scopeCacheSet' = FALSE
    /\ invalidated' = invalidated \cup {w}
    /\ UNCHANGED <<call, log, mutex, lookupVars>>

-----------------------------------------------------------------------------
(* InScope.                                                                *)

BeginLookup(r) ==
    /\ at[r] = "idle"
    /\ at' = [at EXCEPT ![r] = "fast"]
    /\ since' = [since EXCEPT ![r] = newest]
    /\ before' = [before EXCEPT ![r] = invalidated]
    /\ UNCHANGED <<storeVars, cacheVars, loaded, entries, newest>>

(* Under the read lock. *)
Fast(r) ==
    /\ at[r] = "fast" /\ mutex = Nil
    /\ \/ scopeCacheSet /\ AnswerFrom(r, scopeCache)
       \/ ~scopeCacheSet /\ at' = [at EXCEPT ![r] = "miss"] /\ UNCHANGED <<entries, newest>>
    /\ UNCHANGED <<storeVars, cacheVars, loaded, since, before>>

(* Under the write lock: another lookup may have filled the cache. *)
Miss(r) ==
    /\ at[r] = "miss" /\ mutex = Nil
    /\ \/ scopeCacheSet /\ AnswerFrom(r, scopeCache) /\ UNCHANGED mutex
       \/ /\ ~scopeCacheSet
          /\ mutex' = r
          /\ at' = [at EXCEPT ![r] = "load"]
          /\ UNCHANGED <<entries, newest>>
    /\ UNCHANGED <<storeVars, scopeCache, scopeCacheSet, loaded, since, before>>

(* AllScopeEntries reads the table as it is at one moment, or fails. *)
Load(r) ==
    /\ at[r] = "load"
    /\ \E v \in {Len(log), Nil} : loaded' = [loaded EXCEPT ![r] = v]
    /\ at' = [at EXCEPT ![r] = "publish"]
    /\ UNCHANGED <<storeVars, cacheVars, entries, newest, since, before>>

Publish(r) ==
    /\ at[r] = "publish"
    /\ IF loaded[r] = Nil THEN UNCHANGED <<scopeCache, scopeCacheSet>>
       ELSE scopeCache' = loaded[r] /\ scopeCacheSet' = TRUE
    /\ mutex' = Nil
    /\ AnswerFrom(r, scopeCache')
    /\ UNCHANGED <<storeVars, loaded, since, before>>

InScope(r) == BeginLookup(r) \/ Fast(r) \/ Miss(r) \/ Load(r) \/ Publish(r)

ScopeNext ==
    \/ \E w \in Changes : Write(w) \/ Invalidate(w)
    \/ \E r \in Lookups : InScope(r)

ScopeSpec == ScopeInit /\ [][ScopeNext]_scopeVars

-----------------------------------------------------------------------------
(* Properties.                                                             *)

(* The lock is held by the lookup that loads the table, and by no other.   *)
ScopeTypeOK ==
    /\ call \in [Changes -> {"none", "called"} \cup Table!Outcomes]
    /\ log \in Seq(Changes)
    /\ invalidated \subseteq Changes
    /\ scopeCache \in 0 .. Len(log) \cup {Nil}
    /\ scopeCacheSet \in BOOLEAN /\ (scopeCacheSet <=> scopeCache # Nil)
    /\ mutex \in Lookups \cup {Nil}
    /\ at \in [Lookups -> {"idle", "fast", "miss", "load", "publish", "returned"}]
    /\ \A r \in Lookups : mutex = r <=> at[r] \in {"load", "publish"}
    /\ loaded \in [Lookups -> Nat \cup {Nil}]
    /\ entries \in [Lookups -> Nat \cup {Nil}]
    /\ since \in [Lookups -> Nat] /\ before \in [Lookups -> SUBSET Changes]
    /\ newest \in 0 .. Len(log)

(* An addition or deletion whose method has returned counts for every      *)
(* InScope that begins afterwards, whichever lookups were filling the      *)
(* cache meanwhile.                                                        *)
AnswerIsCurrent ==
    \A r \in Lookups : at[r] = "returned" /\ entries[r] # Nil =>
      \A i \in 1 .. Len(log) : log[i] \in before[r] => i <= entries[r]

(* An InScope that begins after another returned never answers from an     *)
(* older scope than that one did.                                          *)
AnswersNeverGoBack ==
    \A r \in Lookups : at[r] = "returned" /\ entries[r] # Nil => since[r] <= entries[r]
=============================================================================
