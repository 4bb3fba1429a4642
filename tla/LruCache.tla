------------------------------- MODULE LruCache -------------------------------
(***************************************************************************)
(* The cache of include/common/lrucache.h, as DentryCache                  *)
(* (include/client/dentry_cache.h) uses it to remember the inodes of       *)
(* directories: keys_, a list with the most recently used node first, and  *)
(* the hash table cache_ of its nodes.  A key stands for a pair of parent  *)
(* inode and name.  The lock is a NullLock: one thread.                    *)
(***************************************************************************)
EXTENDS Integers, Sequences, SequencesExt

CONSTANTS
    Keys, Values,
    MaxSize,     \* maxSize_, the capacity of the DentryCache
    Elasticity   \* elasticity_, a quarter of it

ASSUME CacheAssumption == MaxSize \in Nat /\ Elasticity \in Nat

VARIABLES
    keys,        \* keys_, records [key, value]
    cache,       \* the keys in cache_
    recent,      \* the keys used, the latest first; after a remove as many as are held
    latest       \* latest[k]: the value of the last insert of k
vars == <<keys, cache, recent, latest>>

Init ==
    /\ keys = <<>>
    /\ cache = {}
    /\ recent = <<>>
    /\ latest \in [Keys -> Values]

KeysOf(list) == [i \in 1 .. Len(list) |-> list[i].key]

\* cache_[k], an iterator into keys_: the position of k's node.
At(k) == CHOOSE i \in DOMAIN keys : keys[i].key = k

Used(k) == <<k>> \o RemoveFirst(recent, k)

\* Mutant: the front of the list is dropped.
prune_front(list, table) ==
    IF MaxSize = 0 \/ Cardinality(table) < MaxSize + Elasticity
    THEN [keys |-> list, cache |-> table]
    ELSE LET n == Len(list) - MaxSize
         IN  [keys |-> SubSeq(list, n + 1, Len(list)),
              cache |-> table \ {list[i].key : i \in 1 .. n}]

\* prune drops nodes from the back, and only when the hard limit is reached;
\* a size of 0 is no limit.
prune(list, table) ==
    IF MaxSize = 0 \/ Cardinality(table) < MaxSize + Elasticity
    THEN [keys |-> list, cache |-> table]
    ELSE [keys |-> SubSeq(list, 1, MaxSize),
          cache |-> table \ {list[i].key : i \in MaxSize + 1 .. Len(list)}]

\* Mutant: the value of a key that is there already stays.
insert_keeping(k, v) ==
    /\ k \in cache
    /\ keys' = <<keys[At(k)]>> \o RemoveAt(keys, At(k))
    /\ recent' = Used(k)
    /\ latest' = [latest EXCEPT ![k] = v]
    /\ UNCHANGED cache

\* DentryCache::Put, for a key that is there ...
insert_known(k, v) ==
    /\ k \in cache
    /\ keys' = <<[key |-> k, value |-> v]>> \o RemoveAt(keys, At(k))
    /\ recent' = Used(k)
    /\ latest' = [latest EXCEPT ![k] = v]
    /\ UNCHANGED cache

\* ... and for a new one.
insert_new(k, v) ==
    LET pruned == prune(<<[key |-> k, value |-> v]>> \o keys, cache \cup {k})
    IN  /\ k \notin cache
        /\ keys' = pruned.keys
        /\ cache' = pruned.cache
        /\ recent' = Used(k)
        /\ latest' = [latest EXCEPT ![k] = v]

\* DentryCache::Get that finds the key (a miss changes nothing).
tryGet(k) ==
    /\ k \in cache
    /\ keys' = <<keys[At(k)]>> \o RemoveAt(keys, At(k))
    /\ recent' = Used(k)
    /\ UNCHANGED <<cache, latest>>

remove(k) ==
    /\ k \in cache
    /\ keys' = RemoveAt(keys, At(k))
    /\ cache' = cache \ {k}
    /\ recent' = SubSeq(RemoveFirst(recent, k), 1, Cardinality(cache) - 1)
    /\ UNCHANGED latest

clear ==
    /\ keys' = <<>> /\ cache' = {} /\ recent' = <<>>
    /\ UNCHANGED latest

Next ==
    \/ \E k \in Keys : \/ \E v \in Values : insert_known(k, v) \/ insert_new(k, v)
                       \/ tryGet(k) \/ remove(k)
    \/ clear

Spec == Init /\ [][Next]_vars
-------------------------------------------------------------------------------
(* Properties. *)

\* The cache holds the most recently used keys, in this order, and at least as
\* many as its size: what prune drops was used before all that stays, and
\* nothing is dropped while there is room.  The table has the same keys, so
\* that its iterators are nodes of the list.
KeepsRecent ==
    /\ IsPrefix(KeysOf(keys), recent)
    /\ ToSet(KeysOf(keys)) = cache /\ Len(keys) = Cardinality(cache)
    /\ MaxSize = 0 \/ Len(keys) < MaxSize => Len(keys) = Len(recent)

\* A lookup answers with the value of the last insert.
LatestValue == \A i \in 1 .. Len(keys) : keys[i].value = latest[keys[i].key]
===============================================================================
