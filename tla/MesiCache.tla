----------------------------- MODULE MesiCache ------------------------------
(***************************************************************************)
(* One cache of the snooping simulator: src/HW5/include/cache.h and        *)
(* src/HW5/src/cache.cpp.  A cache is a record of its two containers:      *)
(*                                                                         *)
(*   data  the map cacheData, a function from the resident addresses to    *)
(*         their lines (the tag of a line is never read and is left out);  *)
(*   lru   the list lruOrder, most recently used address first.            *)
(*                                                                         *)
(* The member functions are operators from a cache to a cache, so that the *)
(* modules that use them compose the calls in the order of the code.       *)
(***************************************************************************)
EXTENDS QueueOps

CONSTANTS
    MaxCacheLines,  \* maxCacheLines of cache.h
    UninitStates,   \* the values the uninitialized nextState may hold
    UninitUpdates   \* the values the uninitialized SnoopingUpdate may hold

CacheState == {"INVALID", "SHARED", "MODIFIED", "EXCLUSIVE"}

\* A line can also hold a value that is none of the enumerators: the code
\* prints it as "UNKNOWN" (the default branch of cacheStateToString).
LineState == CacheState \cup {"UNKNOWN"}

BusSnoopState == {"READMISS", "WRITEMISS", "INVALIDATE", "UNKNOWN"}

ASSUME CacheAssumption ==
    /\ MaxCacheLines \in Nat \ {0}
    /\ UninitStates \subseteq LineState /\ UninitStates # {}
    /\ UninitUpdates \subseteq BusSnoopState /\ UninitUpdates # {}

Valid == {"SHARED", "MODIFIED", "EXCLUSIVE"}

EmptyCache == [data |-> [a \in {} |-> [state |-> "INVALID", data |-> 0]],
               lru  |-> << >>]

\* c with the line of address a inserted or replaced.
PutLine(c, a, line) ==
    [data |-> [b \in DOMAIN c.data \cup {a} |-> IF b = a THEN line ELSE c.data[b]],
     lru  |-> c.lru]

\* (Mutation: the list is trimmed, the lines stay.)
UpdateLRUOrderKeepingLines(c, a) ==
    LET order == <<a>> \o Without(c.lru, a)
    IN  [c EXCEPT !.lru = SubSeq(order, 1, MaxCacheLines)]

\* Cache::updateLRUOrder: move a to the front of the list, then drop the
\* addresses beyond MaxCacheLines from the list and their lines from the map.
UpdateLRUOrder(c, a) ==
    LET order   == <<a>> \o Without(c.lru, a)
        kept    == {n \in DOMAIN order : n <= MaxCacheLines}
        evicted == {order[n] : n \in DOMAIN order \ kept}
    IN  [data |-> [b \in DOMAIN c.data \ evicted |-> c.data[b]],
         lru  |-> [n \in kept |-> order[n]]]

\* Cache::getCurrentState: a line that is not resident is INVALID.
GetCurrentState(c, a) ==
    IF a \in DOMAIN c.data THEN c.data[a].state ELSE "INVALID"

\* Cache::setCurrentState: emplaces a zeroed line when a is not resident.
SetCurrentState(c, a, newState) ==
    IF a \in DOMAIN c.data
    THEN PutLine(c, a, [state |-> newState, data |-> c.data[a].data])
    ELSE UpdateLRUOrder(PutLine(c, a, [state |-> newState, data |-> 0]), a)

\* Cache::readFromCache: what it does to the cache, and what it returns
\* (-1, the largest uint64_t, when a is not resident).
ReadFromCache(c, a) == UpdateLRUOrder(c, a)
ReadValueNotFound(c, a) == -1   \* (mutation: the lookup always fails)
ReadValue(c, a) ==
    LET u == UpdateLRUOrder(c, a)
    IN  IF a \in DOMAIN u.data THEN u.data[a].data ELSE -1

\* Cache::writeToCache: a new line is INVALID, a resident one keeps its state.
WriteToCache(c, a, d) ==
    LET u == UpdateLRUOrder(c, a)
    IN  PutLine(u, a, [state |-> GetCurrentState(u, a), data |-> d])

\* Cache::updateState: the state the line of the requesting CPU moves to.
NextState(state, isRead, isHit, shared) ==
    CASE state = "INVALID" /\ ~isHit /\ ~isRead           -> "MODIFIED"
      [] state = "INVALID" /\ ~isHit /\ isRead /\ shared  -> "SHARED"
      [] state = "INVALID" /\ ~isHit /\ isRead /\ ~shared -> "EXCLUSIVE"
      [] state \in {"SHARED", "EXCLUSIVE"} /\ isHit /\ isRead -> state
      [] state \in Valid /\ isHit /\ ~isRead              -> "MODIFIED"
      [] state = "MODIFIED" /\ isHit /\ isRead            -> "MODIFIED"
      [] OTHER                                            -> "INVALID"

\* Cache::updateState: the values it can return.  SnoopingUpdate is assigned
\* on three of the paths only.
SnoopingUpdates(state, isRead, isHit) ==
    CASE state = "INVALID" /\ ~isHit -> {IF isRead THEN "READMISS" ELSE "WRITEMISS"}
      [] state = "SHARED" /\ isHit /\ ~isRead -> {"INVALIDATE"}
      [] OTHER -> UninitUpdates

\* (Mutations: a write miss leaves an EXCLUSIVE line alone; an invalidation
\* leaves a SHARED one alone.)
SnoopedStatesKeepingExclusive(update, state) ==
    CASE update = "READMISS" /\ state \in Valid -> {"SHARED"}
      [] update = "WRITEMISS" /\ state = "EXCLUSIVE" -> {"EXCLUSIVE"}
      [] OTHER -> {"INVALID"}
SnoopedStatesKeepingShared(update, state) ==
    CASE state = "SHARED" -> {"SHARED"}
      [] update = "READMISS" /\ state \in Valid -> {"SHARED"}
      [] OTHER -> {"INVALID"}

\* Cache::updateSnoopingState: the states another CPU's line can move to.
\* nextState is assigned on some of the paths only.
SnoopedStates(update, state) ==
    CASE update = "READMISS" /\ state \in Valid -> {"SHARED"}
      [] update = "WRITEMISS" /\ state \in {"MODIFIED", "EXCLUSIVE"} -> {"INVALID"}
      [] update = "INVALIDATE" -> {"INVALID"}
      [] OTHER -> UninitStates

-----------------------------------------------------------------------------
\* The caches over the addresses A and the values D.
LineOf(D) == [state : LineState, data : D]
CacheOf(A, D) == [data : UNION {[S -> LineOf(D)] : S \in SUBSET A}, lru : Seq(A)]

\* The LRU list names exactly the resident lines, once each, and no more than
\* the cache may hold.
LruMatches(c) ==
    /\ NoRepeats(c.lru)
    /\ Elements(c.lru) = DOMAIN c.data
    /\ Len(c.lru) <= MaxCacheLines

=============================================================================
