----------------------------- MODULE ExactCache -----------------------------
(***************************************************************************)
(* ExactCache (cache/exact.py): a bounded LRU with a time to live.  The    *)
(* keys are those of cache_key: tenant, model and normalized query.  The   *)
(* statistics are left out: nothing reads them back.                       *)
(***************************************************************************)
EXTENDS Naturals, SequencesExt

CONSTANTS
    Keys, Values,
    MaxEntries,     \* max_entries
    TTL,            \* ttl_seconds
    MaxTime,        \* bound: the clock stops here
    Nothing         \* None

\* _Entry: what is cached and when it expires.
Entries == [value: Values, expires: Nat]

ASSUME CacheAssumption ==
    /\ MaxEntries \in Nat /\ TTL \in Nat
    /\ MaxTime \in Nat
    /\ Nothing \notin Values \cup Entries

VARIABLES
    order,    \* the keys of _entries, least recently used first
    entry,    \* _Entry of each key in order; stale elsewhere
    now,      \* time.monotonic()
    latest,   \* history: what each key was last put, and its expiry
    since     \* history: the keys used since each key was last used

cacheVars == <<order, entry, now, latest, since>>

\* Keys are in the map once, and never more of them than max_entries
\* (cache/exact.py:83-85).
TypeOK ==
    /\ order \in Seq(Keys) /\ IsInjective(order) /\ Len(order) <= MaxEntries
    /\ entry \in [Keys -> Entries \cup {Nothing}]
    /\ now \in 0..MaxTime
    /\ latest \in [Keys -> Entries \cup {Nothing}]
    /\ since \in [Keys -> SUBSET Keys]

Init ==
    /\ order = <<>>
    /\ entry = [k \in Keys |-> Nothing]
    /\ now = 0
    /\ latest = [k \in Keys |-> Nothing]
    /\ since = [k \in Keys |-> {}]

\* history: k is used now.
Uses(k) == since' = [j \in Keys |-> IF j = k THEN {} ELSE since[j] \cup {k}]

\* OrderedDict.move_to_end.
MoveToEnd(k) == Append(RemoveFirst(order, k), k)

\* A lookup that finds no entry changes nothing.  One that finds an entry at
\* its expiry or past it deletes it and misses.  A lookup is one step here; the
\* code has no lock between finding an entry and deleting or moving it.
Expire(k) ==
    /\ Contains(order, k) /\ entry[k].expires <= now
    /\ order' = RemoveFirst(order, k)
    /\ UNCHANGED <<entry, now, latest, since>>

Hit(k) ==
    /\ Contains(order, k) /\ entry[k].expires > now
    /\ order' = MoveToEnd(k)
    /\ Uses(k)
    /\ UNCHANGED <<entry, now, latest>>

\* Faulty: one entry too many is kept, the newest one goes, the entry a put
\* replaces keeps its value.
EvictedLate(s) == IF Len(s) > MaxEntries + 1 THEN Tail(s) ELSE s

EvictedNewest(s) == SubSeq(s, 1, IF Len(s) < MaxEntries THEN Len(s) ELSE MaxEntries)

\* popitem(last=False) while the cache is over its bound.
Evicted(s) == SubSeq(s, Len(s) - (IF Len(s) < MaxEntries THEN Len(s) ELSE MaxEntries) + 1, Len(s))

\* Faulty: the entry keeps the value it has.
StampedStale(k, v) ==
    IF Contains(order, k) THEN [entry[k] EXCEPT !.expires = now + TTL]
                          ELSE [value |-> v, expires |-> now + TTL]

Stamped(k, v) == [value |-> v, expires |-> now + TTL]

Put(k, v) ==
    /\ entry' = [entry EXCEPT ![k] = Stamped(k, v)]
    /\ latest' = [latest EXCEPT ![k] = [value |-> v, expires |-> now + TTL]]
    /\ order' = Evicted(MoveToEnd(k))
    /\ Uses(k)
    /\ UNCHANGED now

Tick == now < MaxTime /\ now' = now + 1 /\ UNCHANGED <<order, entry, latest, since>>

Next ==
    \/ \E k \in Keys : Expire(k) \/ Hit(k) \/ \E v \in Values : Put(k, v)
    \/ Tick

Spec == Init /\ [][Next]_cacheVars
-----------------------------------------------------------------------------
Live(k) == Contains(order, k) /\ entry[k].expires > now

\* Least recently used, said without the order: a value put under a key is
\* served until it expires, unless max_entries other keys have been used since
\* the key was (cache/exact.py:75, 82-84).
KeptWhileRecent ==
    \A k \in Keys :
        /\ latest[k] # Nothing
        /\ latest[k].expires > now
        /\ ~Live(k)
        => Cardinality(since[k]) >= MaxEntries

Interface ==
    INSTANCE LossyMap WITH
        last <- [k \in Keys |-> IF latest[k] = Nothing THEN Nothing ELSE latest[k].value],
        held <- [k \in Keys |-> IF Live(k) THEN entry[k].value ELSE Nothing]

\* A lookup answers the last value put under its key, or nothing: the
\* interface SmartRouter relies on.
CacheImplementsLossyMap == Interface!Spec
=============================================================================
