----------------------------- MODULE ResultCache -----------------------------
(***************************************************************************)
(* app/services/cache.py: a cache with a time to live for each category,   *)
(* eviction of the entry used least recently, and invalidation.  A lock    *)
(* makes every call one step, but for the clock a set reads before it.     *)
(***************************************************************************)
EXTENDS Integers, FiniteSets

CONSTANTS
    CacheProjects,    \* projects of the keys
    CacheCategories,  \* "index", "embedding", "report"
    TimeToLive,       \* [CacheCategories -> seconds]
    MaxEntries,       \* cache_max_entries
    MaxClock,         \* bound: seconds
    MaxSets,          \* bound: calls of set
    MaxGets           \* bound: calls of get

ASSUME CacheAssumption ==
    /\ TimeToLive \in [CacheCategories -> Nat]
    /\ MaxEntries \in Nat \ {0} /\ MaxClock \in Nat /\ MaxSets \in Nat /\ MaxGets \in Nat

VARIABLES
    store,        \* [keys with an entry -> [value, expires, moved]]: the OrderedDict, in
                  \* the order of the uses that moved the entries behind the others
    enabled,
    cacheClock,
    setting,      \* a set that has read the clock and waits for the lock
    counted,      \* hits, misses, evictions
    sets,         \* calls of set so far: also what they stored
    served,       \* what the last hit returned
    newest,       \* history: what the last set of each key stored, and its last use
    uses          \* history: hits and sets so far

cacheVars == <<store, enabled, cacheClock, setting, counted, sets, served, newest, uses>>

\* build_index_key and its like: the project and the category are in the key.
CacheKeys == CacheProjects \X CacheCategories

NoSet == [on |-> FALSE]
NoHit == [on |-> FALSE]
Nothing == [value |-> 0, expires |-> 0, used |-> 0]
-----------------------------------------------------------------------------
Cached(k) == k \in DOMAIN store

Without(keys) == [k \in DOMAIN store \ keys |-> store[k]]

Count(what, n) == counted' = [counted EXCEPT ![what] = @ + n]

Asked == enabled /\ counted.hits + counted.misses < MaxGets

CacheInit ==
    /\ store = [k \in {} |-> Nothing] /\ enabled \in BOOLEAN /\ cacheClock = 0 /\ setting = NoSet
    /\ counted = [hits |-> 0, misses |-> 0, evictions |-> 0]
    /\ sets = 0 /\ served = NoHit /\ newest = [k \in CacheKeys |-> Nothing] /\ uses = 0

TimePasses ==
    /\ cacheClock < MaxClock /\ cacheClock' = cacheClock + 1
    /\ UNCHANGED <<store, enabled, setting, counted, sets, served, newest, uses>>

GetMisses(k) ==
    /\ Asked /\ ~Cached(k)
    /\ Count("misses", 1) /\ served' = NoHit
    /\ UNCHANGED <<store, enabled, cacheClock, setting, sets, newest, uses>>

\* The entry has lived longer than its time: it goes.
GetExpired(k) ==
    /\ Asked /\ Cached(k) /\ cacheClock > store[k].expires
    /\ store' = Without({k}) /\ served' = NoHit
    /\ counted' = [counted EXCEPT !.evictions = @ + 1, !.misses = @ + 1]
    /\ newest' = [newest EXCEPT ![k] = Nothing]
    /\ UNCHANGED <<enabled, cacheClock, setting, sets, uses>>

\* Mutant: a hit is not told from an expired entry.
GetHitsAlways(k) ==
    /\ Asked /\ Cached(k)
    /\ store' = [store EXCEPT ![k].moved = uses + 1]
    /\ served' = [on |-> TRUE, key |-> k, value |-> store[k].value]
    /\ Count("hits", 1) /\ uses' = uses + 1
    /\ newest' = [newest EXCEPT ![k].used = uses + 1]
    /\ UNCHANGED <<enabled, cacheClock, setting, sets>>

\* A hit moves the entry behind all others.
GetHits(k) ==
    /\ Asked /\ Cached(k) /\ cacheClock <= store[k].expires
    /\ store' = [store EXCEPT ![k].moved = uses + 1]
    /\ served' = [on |-> TRUE, key |-> k, value |-> store[k].value]
    /\ Count("hits", 1) /\ uses' = uses + 1
    /\ newest' = [newest EXCEPT ![k].used = uses + 1]
    /\ UNCHANGED <<enabled, cacheClock, setting, sets>>

\* set: the clock is read outside the lock; one set at a time is slow here.
BeginSet(k) ==
    /\ enabled /\ ~setting.on /\ sets < MaxSets /\ sets' = sets + 1
    /\ setting' = [on |-> TRUE, key |-> k, expires |-> cacheClock + TimeToLive[k[2]], value |-> sets + 1]
    /\ UNCHANGED <<store, enabled, cacheClock, counted, served, newest, uses>>

NoOlder(k) == {j \in DOMAIN store : store[j].moved >= store[k].moved}

\* What is left when a new entry has room: the oldest go until there are fewer
\* than the most there may be, an entry of the same key or not.
Roomy == {k \in DOMAIN store : Cardinality(NoOlder(k)) < MaxEntries}

\* Mutant: what was used last makes room.
RoomyNewest ==
    LET noNewer(k) == {j \in DOMAIN store : store[j].moved <= store[k].moved}
    IN  {k \in DOMAIN store : Cardinality(noNewer(k)) < MaxEntries}

\* The rest of set, under the lock: an overwrite evicts too at capacity.
CompleteSet ==
    /\ setting.on
    /\ store' = [k \in Roomy \cup {setting.key} |->
           IF k = setting.key
           THEN [value |-> setting.value, expires |-> setting.expires, moved |-> uses + 1] ELSE store[k]]
    /\ Count("evictions", Cardinality(DOMAIN store \ Roomy))
    /\ uses' = uses + 1
    /\ newest' = [newest EXCEPT ![setting.key] =
           [value |-> setting.value, expires |-> setting.expires, used |-> uses + 1]]
    /\ setting' = NoSet
    /\ UNCHANGED <<enabled, cacheClock, sets, served>>

\* invalidate: all keys of a project, of a category, or all there are.
Invalidate(keys) ==
    /\ DOMAIN store \cap keys # {}
    /\ store' = Without(keys)
    /\ newest' = [k \in CacheKeys |-> IF k \in keys THEN Nothing ELSE newest[k]]
    /\ UNCHANGED <<enabled, cacheClock, setting, counted, sets, served, uses>>

\* The switch: a cache that is off keeps what it has.
Switch ==
    /\ enabled' = ~enabled
    /\ served' = NoHit
    /\ UNCHANGED <<store, cacheClock, setting, counted, sets, newest, uses>>

CacheStep ==
    \/ TimePasses \/ CompleteSet \/ Switch
    \/ \E k \in CacheKeys : GetMisses(k) \/ GetExpired(k) \/ GetHits(k) \/ BeginSet(k)
    \/ \E p \in CacheProjects : Invalidate({p} \X CacheCategories)
    \/ \E c \in CacheCategories : Invalidate(CacheProjects \X {c})
    \/ Invalidate(CacheKeys)

CacheSpec == CacheInit /\ [][CacheStep]_cacheVars
-----------------------------------------------------------------------------
CacheTypeOK ==
    /\ DOMAIN store \subseteq CacheKeys /\ Cardinality(DOMAIN store) <= MaxEntries
    /\ \A k \in DOMAIN store : store[k].expires \in Nat
    /\ cacheClock \in 0..MaxClock /\ sets \in 0..MaxSets

\* A hit serves what the last set of the key stored, not invalidated since, and
\* not older than its time: also after the entry was moved, its neighbours were
\* evicted, or the cache was off for a while (cache.py:50-88).
HitsAreFresh ==
    [][counted'.hits # counted.hits =>
           /\ served'.value = newest[served'.key].value
           /\ cacheClock <= newest[served'.key].expires]_cacheVars

\* An entry is not evicted before as many uses of the cache as it has room for
\* have passed since its own last use; a set of a key that is there counts, as it
\* evicts too (cache.py:73-88).
UsedRecentlyStays ==
    \A k \in CacheKeys :
        newest[k].used > 0 /\ uses - newest[k].used < MaxEntries => Cached(k)
=============================================================================
