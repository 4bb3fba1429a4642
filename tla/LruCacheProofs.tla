---------------------------- MODULE LruCacheProofs ----------------------------
(***************************************************************************)
(* What the cache of LruCache promises, for every set of keys and values,  *)
(* every size and every elasticity.                                        *)
(***************************************************************************)
EXTENDS LruCache, SequenceTheorems, FiniteSetTheorems, TLAPS

\* A list without the node at a position: the nodes before it stay where they
\* are, the nodes behind it move up.
LEMMA RemoveAtProperties ==
    ASSUME NEW S, NEW s \in Seq(S), NEW p \in 1 .. Len(s)
    PROVE  /\ RemoveAt(s, p) \in Seq(S)
           /\ Len(RemoveAt(s, p)) = Len(s) - 1
           /\ \A i \in 1 .. Len(s) - 1 :
                 RemoveAt(s, p)[i] = IF i < p THEN s[i] ELSE s[i + 1]
<1> DEFINE a == SubSeq(s, 1, p - 1)
           b == SubSeq(s, p + 1, Len(s))
           c == a \o b
           n == Len(s)
<1>1. a \in Seq(S) /\ Len(a) = p - 1 /\ \A i \in 1 .. p - 1 : a[i] = s[i]
  BY SubSeqProperties
<1>2. b \in Seq(S) /\ Len(b) = n - p /\ \A i \in 1 .. n - p : b[i] = s[p + i]
  BY SubSeqProperties
<1>3. /\ c \in Seq(S)
      /\ Len(c) = Len(a) + Len(b)
      /\ \A i \in 1 .. Len(a) + Len(b) :
            c[i] = IF i <= Len(a) THEN a[i] ELSE b[i - Len(a)]
  BY <1>1, <1>2, ConcatProperties DEF c
<1>4. RemoveAt(s, p) = c
  BY DEF RemoveAt
<1>n. n \in Nat
  OBVIOUS
<1> HIDE DEF a, b, c, n
<1>p. p \in 1 .. n
  BY DEF n
<1>5. ASSUME NEW i \in 1 .. n - 1
      PROVE  c[i] = IF i < p THEN s[i] ELSE s[i + 1]
  <2>1. CASE i < p
    BY <2>1, <1>1, <1>2, <1>3, <1>n, <1>p
  <2>2. CASE i >= p
    <3>1. c[i] = b[i - (p - 1)]
      BY <2>2, <1>1, <1>2, <1>3, <1>n, <1>p
    <3>2. i - (p - 1) \in 1 .. n - p
      BY <2>2, <1>n, <1>p
    <3>3. b[i - (p - 1)] = s[p + (i - (p - 1))]
      BY <3>2, <1>2
    <3> QED
      BY <3>1, <3>3, <2>2, <1>n, <1>p
  <2> QED
    BY <2>1, <2>2, <1>n, <1>p
<1> QED
  BY <1>1, <1>2, <1>3, <1>4, <1>5, <1>n, <1>p DEF n

\* Removing a key from a list of distinct keys: the one place it has.
LEMMA RemoveFirstIs ==
    ASSUME NEW S, NEW s \in Seq(S), NEW p \in 1 .. Len(s),
           \A i, j \in 1 .. Len(s) : s[i] = s[j] => i = j
    PROVE  RemoveFirst(s, s[p]) = RemoveAt(s, p)
<1> DEFINE I == {i \in 1 .. Len(s) : s[i] = s[p]}
<1>1. I = {p}
  OBVIOUS
<1>2. Min(I) = p
  BY <1>1 DEF Min
<1>3. SelectInSeq(s, LAMBDA v : v = s[p]) = p
  BY <1>1, <1>2 DEF SelectInSeq
<1> QED
  BY <1>3 DEF RemoveFirst

\* A list with a node put in front.
LEMMA ConsProperties ==
    ASSUME NEW S, NEW s \in Seq(S), NEW x \in S
    PROVE  /\ <<x>> \o s \in Seq(S)
           /\ Len(<<x>> \o s) = Len(s) + 1
           /\ \A i \in 1 .. Len(s) + 1 : (<<x>> \o s)[i] = IF i = 1 THEN x ELSE s[i - 1]
<1>1. <<x>> \in Seq(S) /\ Len(<<x>>) = 1 /\ <<x>>[1] = x
  OBVIOUS
<1> QED
  BY <1>1, ConcatProperties

\* Where the node comes from that is at place i once the node at place p has
\* been moved to the front.
Moved(p, i) == IF i = 1 THEN p ELSE IF i <= p THEN i - 1 ELSE i

\* A node moved to the front, with another value perhaps: the nodes before it
\* move back by one place, the others stay.
LEMMA MoveToFront ==
    ASSUME NEW S, NEW s \in Seq(S), NEW p \in 1 .. Len(s), NEW x \in S
    PROVE  /\ <<x>> \o RemoveAt(s, p) \in Seq(S)
           /\ Len(<<x>> \o RemoveAt(s, p)) = Len(s)
           /\ (<<x>> \o RemoveAt(s, p))[1] = x
           /\ \A i \in 2 .. Len(s) : (<<x>> \o RemoveAt(s, p))[i] = s[Moved(p, i)]
<1> DEFINE r == RemoveAt(s, p)
<1>1. /\ r \in Seq(S)
      /\ Len(r) = Len(s) - 1
      /\ \A i \in 1 .. Len(s) - 1 : r[i] = IF i < p THEN s[i] ELSE s[i + 1]
  BY RemoveAtProperties
<1> HIDE DEF r
<1>2. /\ <<x>> \o r \in Seq(S)
      /\ Len(<<x>> \o r) = Len(r) + 1
      /\ \A i \in 1 .. Len(r) + 1 : (<<x>> \o r)[i] = IF i = 1 THEN x ELSE r[i - 1]
  BY <1>1, ConsProperties
<1>3. ASSUME NEW i \in 2 .. Len(s)
      PROVE  (<<x>> \o r)[i] = s[Moved(p, i)]
  <2>1. i - 1 \in 1 .. Len(s) - 1 /\ r[i - 1] = IF i - 1 < p THEN s[i - 1] ELSE s[i - 1 + 1]
    BY <1>1
  <2> QED
    BY <2>1, <1>1, <1>2 DEF Moved
<1> QED
  BY <1>1, <1>2, <1>3 DEF r

\* A list of distinct elements has as many as it is long.
LEMMA DistinctCardinality ==
    ASSUME NEW S, NEW s \in Seq(S),
           \A i, j \in 1 .. Len(s) : s[i] = s[j] => i = j
    PROVE  /\ IsFiniteSet({s[i] : i \in 1 .. Len(s)})
           /\ Cardinality({s[i] : i \in 1 .. Len(s)}) = Len(s)
<1> DEFINE T == {s[i] : i \in 1 .. Len(s)}
           f == [i \in 1 .. Len(s) |-> s[i]]
<1>1. f \in Bijection(1 .. Len(s), T)
  BY DEF Bijection, Injection, Surjection, IsInjective
<1>2. Len(s) \in Nat
  OBVIOUS
<1>3. IsFiniteSet(1 .. Len(s)) /\ Cardinality(1 .. Len(s)) = Len(s)
  <2>1. /\ IsFiniteSet(1 .. Len(s))
        /\ Cardinality(1 .. Len(s)) = IF 1 > Len(s) THEN 0 ELSE Len(s) - 1 + 1
    BY <1>2, FS_Interval
  <2> QED
    BY <1>2, <2>1
<1> HIDE DEF f, T
<1>4. IsFiniteSet(T) /\ Cardinality(T) = Cardinality(1 .. Len(s))
  BY <1>1, <1>3, FS_Bijection DEF ExistsBijection
<1> QED
  BY <1>3, <1>4 DEF T
-------------------------------------------------------------------------------
Node == [key : Keys, value : Values]

\* What the variables hold.
TypeOK ==
    /\ keys \in Seq(Node)
    /\ cache \subseteq Keys
    /\ recent \in Seq(Keys)
    /\ latest \in [Keys -> Values]

\* A key was used last at one time.
RecentDistinct == \A i, j \in 1 .. Len(recent) : recent[i] = recent[j] => i = j

\* The list is the beginning of the history, node by node.
ListIsRecent ==
    /\ Len(keys) <= Len(recent)
    /\ \A i \in 1 .. Len(keys) : keys[i].key = recent[i]

\* The hash table has the keys of the list.
TableIsList == cache = {keys[i].key : i \in 1 .. Len(keys)}

\* A key of the history is missing only when the cache is full.
RoomUsed == MaxSize = 0 \/ Len(keys) < MaxSize => Len(keys) = Len(recent)

\* prune keeps the cache below its hard limit, or at its size when the two are
\* the same (lrucache.h: the cache "is allowed to grow till (maxSize +
\* elasticity) and is pruned back to maxSize keys").
HardLimit == MaxSize = 0 \/ Len(keys) < MaxSize + Elasticity \/ Len(keys) = MaxSize

IInv ==
    /\ TypeOK
    /\ RecentDistinct
    /\ ListIsRecent
    /\ TableIsList
    /\ RoomUsed
    /\ HardLimit
    /\ LatestValue

\* The keys of a list of nodes.
LEMMA KeysOfProperties ==
    ASSUME NEW list \in Seq(Node)
    PROVE  /\ KeysOf(list) \in Seq(Keys)
           /\ Len(KeysOf(list)) = Len(list)
           /\ DOMAIN KeysOf(list) = 1 .. Len(list)
           /\ \A i \in 1 .. Len(list) : KeysOf(list)[i] = list[i].key
<1> DEFINE n == Len(list)
           ks == [i \in 1 .. n |-> list[i].key]
<1>1. n \in Nat /\ \A i \in 1 .. n : list[i].key \in Keys
  <2>1. \A i \in 1 .. n : list[i] \in Node
    OBVIOUS
  <2> QED
    BY <2>1 DEF Node
<1> HIDE DEF n
<1>2. ks \in Seq(Keys)
  BY <1>1, IsASeq
<1>3. Len(ks) = n
  BY <1>1
<1> QED
  BY <1>2, <1>3 DEF KeysOf, n

\* The keys of the list are distinct, and there are as many in the table.
LEMMA TableSize ==
    ASSUME IInv
    PROVE  /\ \A i, j \in 1 .. Len(keys) : keys[i].key = keys[j].key => i = j
           /\ IsFiniteSet(cache) /\ Cardinality(cache) = Len(keys)
<1> DEFINE ks == KeysOf(keys)
<1>1. \A i, j \in 1 .. Len(keys) : keys[i].key = keys[j].key => i = j
  BY DEF IInv, TypeOK, ListIsRecent, RecentDistinct
<1>2. /\ ks \in Seq(Keys) /\ Len(ks) = Len(keys)
      /\ \A i \in 1 .. Len(keys) : ks[i] = keys[i].key
  BY KeysOfProperties DEF IInv, TypeOK
<1> HIDE DEF ks
<1>3. \A i, j \in 1 .. Len(ks) : ks[i] = ks[j] => i = j
  BY <1>1, <1>2
<1>4. cache = {ks[i] : i \in 1 .. Len(ks)}
  BY <1>2 DEF IInv, TableIsList
<1>5. /\ IsFiniteSet({ks[i] : i \in 1 .. Len(ks)})
      /\ Cardinality({ks[i] : i \in 1 .. Len(ks)}) = Len(ks)
  BY <1>2, <1>3, DistinctCardinality
<1> QED
  BY <1>1, <1>2, <1>4, <1>5

\* The invariant says that the cache holds the keys used last.
LEMMA InvKeepsRecent ==
    ASSUME IInv
    PROVE  KeepsRecent
<1> DEFINE ks == KeysOf(keys)
<1>1. /\ ks \in Seq(Keys) /\ Len(ks) = Len(keys) /\ DOMAIN ks = 1 .. Len(keys)
      /\ \A i \in 1 .. Len(keys) : ks[i] = keys[i].key
  BY KeysOfProperties DEF IInv, TypeOK
<1> HIDE DEF ks
<1>2. Len(ks) <= Len(recent) /\ \A i \in 1 .. Len(ks) : ks[i] = recent[i]
  BY <1>1 DEF IInv, ListIsRecent
<1>3. SubSeq(ks, 1, Len(ks)) = SubSeq(recent, 1, Len(ks))
  BY <1>1, <1>2 DEF IInv, TypeOK
<1>4. ToSet(ks) = cache
  BY <1>1 DEF IInv, TableIsList, ToSet
<1> QED
  BY <1>1, <1>2, <1>3, <1>4, TableSize DEF KeepsRecent, IsPrefix, ks, IInv, RoomUsed

\* The iterator of a key is its node, and the node's place in the list is the
\* key's place in the history.
LEMMA Iterator ==
    ASSUME IInv, NEW k \in cache
    PROVE  /\ At(k) \in 1 .. Len(keys)
           /\ keys[At(k)].key = k
           /\ At(k) \in 1 .. Len(recent) /\ recent[At(k)] = k
           /\ RemoveFirst(recent, k) = RemoveAt(recent, At(k))
<1>1. \E i \in DOMAIN keys : keys[i].key = k
  BY DEF IInv, TableIsList, TypeOK
<1>2. At(k) \in DOMAIN keys /\ keys[At(k)].key = k
  BY <1>1 DEF At
<1>3. At(k) \in 1 .. Len(keys)
  BY <1>2 DEF IInv, TypeOK
<1>4. At(k) \in 1 .. Len(recent) /\ recent[At(k)] = k
  BY <1>2, <1>3 DEF IInv, ListIsRecent, TypeOK
<1>5. RemoveFirst(recent, recent[At(k)]) = RemoveAt(recent, At(k))
  BY <1>4, RemoveFirstIs DEF IInv, TypeOK, RecentDistinct
<1> QED
  BY <1>2, <1>3, <1>4, <1>5

\* Moving a node to the front permutes the first n places.
LEMMA MovedPermutes ==
    ASSUME NEW n \in Nat, NEW p \in 1 .. n
    PROVE  /\ \A i \in 1 .. n : Moved(p, i) \in 1 .. n
           /\ \A i, j \in 1 .. n : Moved(p, i) = Moved(p, j) => i = j
           /\ \A j \in 1 .. n : \E i \in 1 .. n : Moved(p, i) = j
           /\ \A i \in 1 .. n : Moved(p, i) = p <=> i = 1
<1>1. ASSUME NEW j \in 1 .. n
      PROVE  \E i \in 1 .. n : Moved(p, i) = j
  <2>1. CASE j = p
    BY <2>1 DEF Moved
  <2>2. CASE j < p
    <3>1. j + 1 \in 1 .. n /\ Moved(p, j + 1) = j
      BY <2>2 DEF Moved
    <3> QED
      BY <3>1
  <2>3. CASE j > p
    <3>1. Moved(p, j) = j
      BY <2>3 DEF Moved
    <3> QED
      BY <3>1
  <2> QED
    BY <2>1, <2>2, <2>3
<1> QED
  BY <1>1 DEF Moved

\* A step that moves a node to the front of the list and its key to the front
\* of the history keeps the invariant.
LEMMA MovedStep ==
    ASSUME IInv, NEW k \in cache, NEW v \in Values, NEW p \in 1 .. Len(keys),
           keys[p].key = k,
           keys' \in Seq(Node), Len(keys') = Len(keys),
           \A i \in 1 .. Len(keys) :
              keys'[i] = IF i = 1 THEN [key |-> k, value |-> v] ELSE keys[Moved(p, i)],
           recent' \in Seq(Keys), Len(recent') = Len(recent),
           \A i \in 1 .. Len(recent) : recent'[i] = recent[Moved(p, i)],
           cache' = cache,
           latest' = [latest EXCEPT ![k] = v]
    PROVE  IInv'
<1>1. PICK n \in Nat, l \in Nat : n = Len(keys) /\ l = Len(recent) /\ n <= l
  BY DEF IInv, TypeOK, ListIsRecent
<1>2. /\ \A i \in 1 .. n : Moved(p, i) \in 1 .. n
      /\ \A i, j \in 1 .. n : Moved(p, i) = Moved(p, j) => i = j
      /\ \A j \in 1 .. n : \E i \in 1 .. n : Moved(p, i) = j
      /\ \A i \in 1 .. n : Moved(p, i) = p <=> i = 1
  <2>1. n \in Nat /\ p \in 1 .. n
    BY <1>1
  <2> QED
    BY ONLY <2>1, MovedPermutes
<1>3. /\ \A i \in 1 .. l : Moved(p, i) \in 1 .. l
      /\ \A i, j \in 1 .. l : Moved(p, i) = Moved(p, j) => i = j
  <2>1. l \in Nat /\ p \in 1 .. l
    BY <1>1
  <2> QED
    BY ONLY <2>1, MovedPermutes
<1>4. ASSUME NEW i \in 1 .. n
      PROVE  keys'[i].key = keys[Moved(p, i)].key
  <2>1. CASE i = 1
    <3>1. Moved(p, i) = p
      BY <1>2, <2>1
    <3>2. keys'[i] = [key |-> k, value |-> v]
      BY <1>1, <2>1
    <3> QED
      BY <3>1, <3>2
  <2>2. CASE i # 1
    BY <1>1, <2>2
  <2> QED
    BY <2>1, <2>2
<1>5. TypeOK'
  BY DEF IInv, TypeOK
<1>6. RecentDistinct'
  BY <1>1, <1>3 DEF IInv, RecentDistinct
<1>7. ListIsRecent'
  <2>1. ASSUME NEW i \in 1 .. n
        PROVE  keys'[i].key = recent'[i]
    <3>1. i \in 1 .. l /\ recent'[i] = recent[Moved(p, i)]
      BY <1>1
    <3>2. Moved(p, i) \in 1 .. n
      BY <1>2
    <3>3. keys[Moved(p, i)].key = recent[Moved(p, i)]
      BY <3>2, <1>1 DEF IInv, ListIsRecent
    <3> QED
      BY <3>1, <3>3, <1>4
  <2> QED
    BY <2>1, <1>1 DEF ListIsRecent
<1>8. TableIsList'
  <2>1. cache = {keys[i].key : i \in 1 .. n}
    BY <1>1 DEF IInv, TableIsList
  <2>2. ASSUME NEW j \in 1 .. n
        PROVE  \E i \in 1 .. n : keys'[i].key = keys[j].key
    <3>1. PICK i \in 1 .. n : Moved(p, i) = j
      BY ONLY <1>2, j \in 1 .. n
    <3> QED
      BY ONLY <1>4, <3>1, i \in 1 .. n
  <2>3. ASSUME NEW i \in 1 .. n
        PROVE  \E j \in 1 .. n : keys'[i].key = keys[j].key
    BY ONLY <1>2, <1>4, i \in 1 .. n
  <2>4. {keys[i].key : i \in 1 .. n} = {keys'[i].key : i \in 1 .. n}
    <3>1. ASSUME NEW x \in {keys[i].key : i \in 1 .. n}
          PROVE  x \in {keys'[i].key : i \in 1 .. n}
      <4>1. PICK j \in 1 .. n : x = keys[j].key
        OBVIOUS
      <4>2. PICK i \in 1 .. n : keys'[i].key = keys[j].key
        BY <2>2
      <4> QED
        BY ONLY <4>1, <4>2, i \in 1 .. n, Zenon
    <3>2. ASSUME NEW x \in {keys'[i].key : i \in 1 .. n}
          PROVE  x \in {keys[i].key : i \in 1 .. n}
      <4>1. PICK i \in 1 .. n : x = keys'[i].key
        OBVIOUS
      <4>2. PICK j \in 1 .. n : keys'[i].key = keys[j].key
        BY <2>3
      <4> QED
        BY ONLY <4>1, <4>2, j \in 1 .. n, Zenon
    <3> QED
      BY ONLY <3>1, <3>2, Zenon
  <2> QED
    BY <1>1, <2>1, <2>4 DEF TableIsList
<1>9. RoomUsed' /\ HardLimit'
  BY DEF IInv, RoomUsed, HardLimit
<1>10. LatestValue'
  <2>1. ASSUME NEW i \in 1 .. n
        PROVE  keys'[i].value = latest'[keys'[i].key]
    <3>0. k \in Keys /\ latest \in [Keys -> Values]
      BY DEF IInv, TypeOK
    <3>1. CASE i = 1
      <4>1. keys'[i].key = k /\ keys'[i].value = v
        BY <3>1, <1>1
      <4> QED
        BY <4>1, <3>0
    <3>2. CASE i # 1
      <4>1. PICK j \in 1 .. n : j # p /\ keys'[i] = keys[j]
        BY <3>2, <1>1, <1>2
      <4>2. keys[j] \in Node
        BY <1>1 DEF IInv, TypeOK
      <4>3. keys[j].key # k /\ keys[j].key \in Keys
        BY <4>1, <4>2, <1>1, TableSize DEF Node
      <4>4. keys[j].value = latest[keys[j].key]
        BY <1>1 DEF IInv, LatestValue
      <4> QED
        BY <4>1, <4>3, <4>4, <3>0
    <3> QED
      BY <3>1, <3>2
  <2> QED
    BY <2>1, <1>1 DEF LatestValue
<1> QED
  BY <1>5, <1>6, <1>7, <1>8, <1>9, <1>10 DEF IInv

\* splice does: insert of a key that is there, and tryGet.
LEMMA SpliceStep ==
    ASSUME IInv, NEW k \in cache, NEW v \in Values,
           keys' = <<[key |-> k, value |-> v]>> \o RemoveAt(keys, At(k)),
           recent' = Used(k),
           cache' = cache,
           latest' = [latest EXCEPT ![k] = v]
    PROVE  IInv'
<1> PICK p \in 1 .. Len(keys) : p = At(k)
  BY Iterator
<1> PICK node \in Node : node = [key |-> k, value |-> v]
  BY DEF IInv, TypeOK, Node
<1>a. keys \in Seq(Node)
  BY DEF IInv, TypeOK
<1>b. recent \in Seq(Keys)
  BY DEF IInv, TypeOK
<1>c. k \in Keys
  BY DEF IInv, TypeOK
<1>d. p \in 1 .. Len(recent)
  BY Iterator
<1>e. p \in 1 .. Len(keys)
  OBVIOUS
<1>f. node \in Node
  OBVIOUS
<1>2. /\ keys[p].key = k /\ p \in 1 .. Len(recent) /\ recent[p] = k
      /\ recent' = <<k>> \o RemoveAt(recent, p)
      /\ keys' = <<node>> \o RemoveAt(keys, p)
  BY Iterator DEF Used
<1>3. /\ keys' \in Seq(Node) /\ Len(keys') = Len(keys) /\ keys'[1] = node
      /\ \A i \in 2 .. Len(keys) : keys'[i] = keys[Moved(p, i)]
  <2>1. /\ <<node>> \o RemoveAt(keys, p) \in Seq(Node)
        /\ Len(<<node>> \o RemoveAt(keys, p)) = Len(keys)
        /\ (<<node>> \o RemoveAt(keys, p))[1] = node
        /\ \A i \in 2 .. Len(keys) : (<<node>> \o RemoveAt(keys, p))[i] = keys[Moved(p, i)]
    BY ONLY <1>a, <1>e, <1>f, MoveToFront
  <2> QED
    BY <1>2, <2>1, Zenon
<1>4. /\ recent' \in Seq(Keys) /\ Len(recent') = Len(recent) /\ recent'[1] = k
      /\ \A i \in 2 .. Len(recent) : recent'[i] = recent[Moved(p, i)]
  <2>1. /\ <<k>> \o RemoveAt(recent, p) \in Seq(Keys)
        /\ Len(<<k>> \o RemoveAt(recent, p)) = Len(recent)
        /\ (<<k>> \o RemoveAt(recent, p))[1] = k
        /\ \A i \in 2 .. Len(recent) : (<<k>> \o RemoveAt(recent, p))[i] = recent[Moved(p, i)]
    BY ONLY <1>b, <1>c, <1>d, MoveToFront
  <2> QED
    BY <1>2, <2>1, Zenon
<1>5. \A i \in 1 .. Len(keys) : keys'[i] = IF i = 1 THEN node ELSE keys[Moved(p, i)]
  BY ONLY <1>a, <1>3
<1>6. \A i \in 1 .. Len(recent) : recent'[i] = recent[Moved(p, i)]
  BY ONLY <1>b, <1>2, <1>4 DEF Moved
<1>7. \A i \in 1 .. Len(keys) :
         keys'[i] = IF i = 1 THEN [key |-> k, value |-> v] ELSE keys[Moved(p, i)]
  BY <1>5, Zenon
<1> QED
  BY <1>2, <1>3, <1>4, <1>6, <1>7, MovedStep, Zenon

\* The table has the keys of a list when each is in the other.
LEMMA TableFromList ==
    ASSUME NEW A, NEW n \in Nat, NEW list,
           \A x \in A : \E i \in 1 .. n : x = list[i].key,
           \A i \in 1 .. n : list[i].key \in A
    PROVE  A = {list[i].key : i \in 1 .. n}
BY Zenon

\* Where the node comes from that is at place i once the node at place p has
\* been erased.
Skip(p, i) == IF i < p THEN i ELSE i + 1

\* Erasing a node of the list and of the history keeps the invariant.
LEMMA ErasedStep ==
    ASSUME IInv, NEW k \in cache, NEW p \in 1 .. Len(keys), NEW n \in Nat,
           n = Len(keys) - 1,
           keys[p].key = k,
           keys' \in Seq(Node), Len(keys') = n,
           \A i \in 1 .. n : keys'[i] = keys[Skip(p, i)],
           recent' \in Seq(Keys), Len(recent') = n,
           \A i \in 1 .. n : recent'[i] = recent[Skip(p, i)],
           cache' = cache \ {k},
           latest' = latest
    PROVE  IInv'
<1>0. Len(keys) = n + 1 /\ Len(recent) \in Nat /\ n + 1 <= Len(recent)
  BY DEF IInv, TypeOK, ListIsRecent
<1>1. p \in 1 .. n + 1
  BY <1>0
<1>2. /\ \A i \in 1 .. n : Skip(p, i) \in 1 .. n + 1 /\ Skip(p, i) # p
      /\ \A i, j \in 1 .. n : Skip(p, i) = Skip(p, j) => i = j
  BY ONLY <1>1, n \in Nat DEF Skip
<1>3. ASSUME NEW j \in 1 .. n + 1, j # p
      PROVE  \E i \in 1 .. n : Skip(p, i) = j
  <2>1. CASE j < p
    BY ONLY <2>1, <1>1, <1>3, n \in Nat, j \in 1 .. n + 1 DEF Skip
  <2>2. CASE j > p
    <3>1. j - 1 \in 1 .. n /\ Skip(p, j - 1) = j
      BY ONLY <2>2, <1>1, n \in Nat, j \in 1 .. n + 1 DEF Skip
    <3> QED
      BY <3>1
  <2> QED
    BY <2>1, <2>2, <1>1, <1>3
<1>4. \A i \in 1 .. n + 1 : keys[i] \in Node /\ keys[i].key = recent[i]
  BY <1>0 DEF IInv, TypeOK, ListIsRecent
<1>5. TypeOK'
  BY DEF IInv, TypeOK
<1>6. RecentDistinct'
  <2>1. \A i \in 1 .. n : Skip(p, i) \in 1 .. Len(recent)
    BY <1>0, <1>2
  <2>2. ASSUME NEW i \in 1 .. n, NEW j \in 1 .. n, recent'[i] = recent'[j]
        PROVE  i = j
    <3>1. Skip(p, i) = Skip(p, j)
      BY <2>1, <2>2 DEF IInv, RecentDistinct
    <3> QED
      BY <3>1, <1>2
  <2> QED
    BY <2>2 DEF RecentDistinct
<1>7. ListIsRecent'
  <2>1. \A i \in 1 .. n : keys'[i].key = recent'[i]
    BY ONLY <1>2, <1>4, \A i \in 1 .. n : keys'[i] = keys[Skip(p, i)],
            \A i \in 1 .. n : recent'[i] = recent[Skip(p, i)]
  <2>2. n <= n
    BY ONLY n \in Nat
  <2> QED
    BY ONLY <2>1, <2>2, Len(keys') = n, Len(recent') = n DEF ListIsRecent
<1>8. TableIsList'
  <2>1. ASSUME NEW x \in cache \ {k}
        PROVE  \E i \in 1 .. n : x = keys'[i].key
    <3>1. PICK j \in 1 .. n + 1 : x = keys[j].key
      BY <1>0 DEF IInv, TableIsList
    <3>2. j # p
      BY <3>1
    <3>3. PICK i \in 1 .. n : Skip(p, i) = j
      BY <3>2, <1>3
    <3> QED
      BY <3>1, <3>3
  <2>2. ASSUME NEW i \in 1 .. n
        PROVE  keys'[i].key \in cache \ {k}
    <3>1. PICK j \in 1 .. n + 1 : j # p /\ keys'[i] = keys[j]
      BY <1>2
    <3>2. keys[j].key \in cache
      BY <1>0 DEF IInv, TableIsList
    <3>3. keys[j].key # k
      BY <3>1, <1>0, TableSize
    <3> QED
      BY <3>1, <3>2, <3>3
  <2>3. cache \ {k} = {keys'[i].key : i \in 1 .. n}
    <3>1. \A x \in cache \ {k} : \E i \in 1 .. n : x = keys'[i].key
      BY <2>1
    <3>2. \A i \in 1 .. n : keys'[i].key \in cache \ {k}
      BY <2>2
    <3>3. n \in Nat
      OBVIOUS
    <3> QED
      BY ONLY <3>1, <3>2, <3>3, TableFromList
  <2> QED
    BY <2>3 DEF TableIsList
<1>9. RoomUsed' /\ HardLimit'
  BY <1>0, CacheAssumption DEF IInv, RoomUsed, HardLimit
<1>10. LatestValue'
  <2>1. \A i \in 1 .. n + 1 : keys[i].value = latest[keys[i].key]
    BY <1>0 DEF IInv, LatestValue
  <2> QED
    BY <1>2, <2>1 DEF LatestValue
<1> QED
  BY <1>5, <1>6, <1>7, <1>8, <1>9, <1>10 DEF IInv

\* remove erases the node the table points to.
LEMMA RemoveStep ==
    ASSUME IInv, NEW k \in Keys, remove(k)
    PROVE  IInv'
<1>0. k \in cache
  BY DEF remove
<1>1. PICK p \in 1 .. Len(keys) : p = At(k)
  BY <1>0, Iterator
<1>a. keys \in Seq(Node)
  BY DEF IInv, TypeOK
<1>b. recent \in Seq(Keys)
  BY DEF IInv, TypeOK
<1>c. p \in 1 .. Len(keys)
  OBVIOUS
<1>d. p \in 1 .. Len(recent) /\ keys[p].key = k
  BY <1>0, <1>1, Iterator
<1>2. PICK n \in Nat, r \in Seq(Keys) : n = Len(keys) - 1 /\ r = RemoveAt(recent, p)
  BY <1>a, <1>b, <1>d, RemoveAtProperties
<1>3. /\ keys' = RemoveAt(keys, p)
      /\ recent' = SubSeq(r, 1, n)
      /\ cache' = cache \ {k} /\ latest' = latest
  BY <1>0, <1>1, <1>2, Iterator, TableSize DEF remove
<1>4. /\ RemoveAt(keys, p) \in Seq(Node)
      /\ Len(RemoveAt(keys, p)) = Len(keys) - 1
      /\ \A i \in 1 .. Len(keys) - 1 :
            RemoveAt(keys, p)[i] = IF i < p THEN keys[i] ELSE keys[i + 1]
  BY ONLY <1>a, <1>c, RemoveAtProperties
<1>5. /\ Len(r) = Len(recent) - 1
      /\ \A i \in 1 .. Len(recent) - 1 : r[i] = IF i < p THEN recent[i] ELSE recent[i + 1]
  BY ONLY <1>2, <1>b, <1>d, RemoveAtProperties
<1>6. Len(recent) \in Nat /\ n <= Len(recent) - 1
  BY <1>2 DEF IInv, TypeOK, ListIsRecent
<1>7. /\ SubSeq(r, 1, n) \in Seq(Keys)
      /\ Len(SubSeq(r, 1, n)) = n
      /\ \A i \in 1 .. n : SubSeq(r, 1, n)[i] = r[i]
  BY ONLY <1>5, <1>6, n \in Nat, r \in Seq(Keys), SubSeqProperties
<1>8. /\ keys' \in Seq(Node) /\ Len(keys') = n
      /\ \A i \in 1 .. n : keys'[i] = keys[Skip(p, i)]
  BY ONLY <1>2, <1>3, <1>4, p \in Nat DEF Skip
<1>9. /\ recent' \in Seq(Keys) /\ Len(recent') = n
      /\ \A i \in 1 .. n : recent'[i] = recent[Skip(p, i)]
  BY ONLY <1>3, <1>5, <1>6, <1>7, n \in Nat DEF Skip
<1> QED
  BY ONLY IInv, <1>0, <1>c, <1>d, n \in Nat, <1>2, <1>3, <1>8, <1>9, ErasedStep

\* Using a key the cache does not hold puts it in front of the history.  If the
\* history has it, its place is behind those of the keys held.
LEMMA UsedNew ==
    ASSUME IInv, NEW k \in Keys, k \notin cache
    PROVE  /\ Used(k) \in Seq(Keys)
           /\ Len(Used(k)) >= Len(keys) + 1
           /\ Len(keys) = Len(recent) => Len(Used(k)) = Len(keys) + 1
           /\ Used(k)[1] = k
           /\ \A i \in 1 .. Len(keys) : Used(k)[i + 1] = recent[i]
           /\ \A i, j \in 1 .. Len(Used(k)) : Used(k)[i] = Used(k)[j] => i = j
<1>a. recent \in Seq(Keys) /\ Len(recent) \in Nat /\ Len(keys) \in Nat /\ Len(keys) <= Len(recent)
  BY DEF IInv, TypeOK, ListIsRecent
<1>b. \A i \in 1 .. Len(keys) : recent[i] # k
  BY DEF IInv, ListIsRecent, TableIsList
<1>c. \A i, j \in 1 .. Len(recent) : recent[i] = recent[j] => i = j
  BY DEF IInv, RecentDistinct
<1>1. CASE \A i \in 1 .. Len(recent) : recent[i] # k
  <2>1. RemoveFirst(recent, k) = recent
    BY <1>1 DEF RemoveFirst
  <2>2. Used(k) = <<k>> \o recent
    BY <2>1 DEF Used
  <2>3. /\ Used(k) \in Seq(Keys) /\ Len(Used(k)) = Len(recent) + 1
        /\ \A i \in 1 .. Len(recent) + 1 : Used(k)[i] = IF i = 1 THEN k ELSE recent[i - 1]
    BY ONLY <2>2, <1>a, k \in Keys, ConsProperties
  <2>4. \A i, j \in 1 .. Len(recent) + 1 : Used(k)[i] = Used(k)[j] => i = j
    <3> SUFFICES ASSUME NEW i \in 1 .. Len(recent) + 1, NEW j \in 1 .. Len(recent) + 1,
                        Used(k)[i] = Used(k)[j]
                 PROVE  i = j
      OBVIOUS
    <3>1. i # 1 => i - 1 \in 1 .. Len(recent) /\ Used(k)[i] = recent[i - 1]
      BY <1>a, <2>3
    <3>2. j # 1 => j - 1 \in 1 .. Len(recent) /\ Used(k)[j] = recent[j - 1]
      BY <1>a, <2>3
    <3>3. Used(k)[1] = k
      BY <1>a, <2>3
    <3>4. CASE i # 1 /\ j # 1
      <4>1. i - 1 = j - 1
        BY <3>1, <3>2, <3>4, <1>c
      <4> QED
        BY <4>1, <1>a
    <3> QED
      BY <3>1, <3>2, <3>3, <3>4, <1>1
  <2>5. ASSUME NEW i \in 1 .. Len(keys)
        PROVE  Used(k)[i + 1] = recent[i]
    <3>1. i + 1 \in 1 .. Len(recent) + 1 /\ i + 1 # 1 /\ i + 1 - 1 = i
      BY <1>a
    <3> QED
      BY <3>1, <2>3
  <2>6. Used(k)[1] = k
    BY <1>a, <2>3
  <2> QED
    BY ONLY <1>a, <2>3, <2>4, <2>5, <2>6
<1>2. CASE \E i \in 1 .. Len(recent) : recent[i] = k
  <2>1. PICK p \in 1 .. Len(recent) : recent[p] = k
    BY <1>2
  <2>2. Len(keys) < p
    BY <1>a, <1>b, <2>1
  <2>3. RemoveFirst(recent, k) = RemoveAt(recent, p)
    BY ONLY <2>1, <1>a, <1>c, p \in 1 .. Len(recent), RemoveFirstIs
  <2>4. Used(k) = <<k>> \o RemoveAt(recent, p)
    BY <2>3 DEF Used
  <2>5. /\ Used(k) \in Seq(Keys) /\ Len(Used(k)) = Len(recent) /\ Used(k)[1] = k
        /\ \A i \in 2 .. Len(recent) : Used(k)[i] = recent[Moved(p, i)]
    BY ONLY <2>4, <1>a, k \in Keys, p \in 1 .. Len(recent), MoveToFront
  <2>6. \A i \in 1 .. Len(recent) : Used(k)[i] = recent[Moved(p, i)]
    BY ONLY <1>a, <2>1, <2>5 DEF Moved
  <2>7. /\ \A i \in 1 .. Len(recent) : Moved(p, i) \in 1 .. Len(recent)
        /\ \A i, j \in 1 .. Len(recent) : Moved(p, i) = Moved(p, j) => i = j
    BY ONLY <1>a, p \in 1 .. Len(recent), MovedPermutes
  <2>8. \A i, j \in 1 .. Len(recent) : Used(k)[i] = Used(k)[j] => i = j
    BY ONLY <2>6, <2>7, <1>c
  <2>9. ASSUME NEW i \in 1 .. Len(keys)
        PROVE  Used(k)[i + 1] = recent[i]
    <3>1. i + 1 \in 2 .. Len(recent) /\ Moved(p, i + 1) = i
      BY <1>a, <2>2 DEF Moved
    <3> QED
      BY <3>1, <2>5
  <2>10. Len(recent) >= Len(keys) + 1
    BY <1>a, <2>2
  <2> QED
    BY ONLY <1>a, <2>5, <2>8, <2>9, <2>10
<1> QED
  BY <1>1, <1>2

\* A step that puts a new node in front and keeps the first m of the nodes,
\* all or, at the hard limit, as many as the size is.
LEMMA AddedStep ==
    ASSUME IInv, NEW k \in Keys, k \notin cache, NEW v \in Values, NEW m \in Nat \ {0},
           m <= Len(keys) + 1,
           \/ m = Len(keys) + 1 /\ (MaxSize = 0 \/ m < MaxSize + Elasticity)
           \/ m = MaxSize,
           keys' \in Seq(Node), Len(keys') = m,
           keys'[1] = [key |-> k, value |-> v],
           \A i \in 2 .. m : keys'[i] = keys[i - 1],
           cache' = {keys'[i].key : i \in 1 .. m},
           recent' = Used(k),
           latest' = [latest EXCEPT ![k] = v]
    PROVE  IInv'
<1> PICK n \in Nat : n = Len(keys)
  BY DEF IInv, TypeOK
<1> PICK u \in Seq(Keys) : u = Used(k)
  BY UsedNew
<1>1. /\ recent' = u /\ Len(u) \in Nat /\ Len(u) >= n + 1
      /\ (n = Len(recent) => Len(u) = n + 1)
      /\ u[1] = k /\ \A i \in 1 .. n : u[i + 1] = recent[i]
      /\ \A i, j \in 1 .. Len(u) : u[i] = u[j] => i = j
  BY UsedNew
<1>2. \A i \in 1 .. n : keys[i] \in Node /\ keys[i].key = recent[i]
                     /\ keys[i].value = latest[keys[i].key]
  BY DEF IInv, TypeOK, ListIsRecent, LatestValue
<1>3. \A i \in 1 .. n : keys[i].key # k
  BY DEF IInv, TableIsList
<1>4. keys'[1].key = k /\ keys'[1].value = v
  OBVIOUS
<1>5. ASSUME NEW i \in 2 .. m
      PROVE  i - 1 \in 1 .. n /\ keys'[i] = keys[i - 1]
  OBVIOUS
<1>6. TypeOK'
  <2>1. \A i \in 1 .. m : keys'[i] \in Node
    OBVIOUS
  <2>2. cache' \subseteq Keys
    BY <2>1 DEF Node
  <2> QED
    BY <2>2, <1>1 DEF IInv, TypeOK
<1>7. RecentDistinct'
  BY <1>1 DEF RecentDistinct
<1>8. ListIsRecent'
  <2>1. ASSUME NEW i \in 1 .. m
        PROVE  keys'[i].key = u[i]
    <3>1. CASE i = 1
      BY <3>1, <1>1, <1>4
    <3>2. CASE i # 1
      <4>1. i \in 2 .. m
        BY <3>2
      <4>2. i - 1 \in 1 .. n /\ keys'[i] = keys[i - 1]
        BY <4>1, <1>5
      <4>3. keys[i - 1].key = recent[i - 1] /\ u[i - 1 + 1] = recent[i - 1]
        BY <4>2, <1>1, <1>2
      <4> QED
        BY <4>2, <4>3
    <3> QED
      BY <3>1, <3>2
  <2> QED
    BY <2>1, <1>1 DEF ListIsRecent
<1>9. TableIsList'
  BY DEF TableIsList
<1>10. RoomUsed'
  BY <1>1, CacheAssumption DEF IInv, RoomUsed, ListIsRecent
<1>11. HardLimit'
  BY CacheAssumption DEF HardLimit
<1>12. LatestValue'
  <2>0. latest \in [Keys -> Values]
    BY DEF IInv, TypeOK
  <2>1. ASSUME NEW i \in 1 .. m
        PROVE  keys'[i].value = latest'[keys'[i].key]
    <3>1. CASE i = 1
      BY <3>1, <1>4, <2>0
    <3>2. CASE i # 1
      <4>1. i \in 2 .. m
        BY <3>2
      <4>2. i - 1 \in 1 .. n /\ keys'[i] = keys[i - 1]
        BY <4>1, <1>5
      <4>3. /\ keys[i - 1].key \in Keys /\ keys[i - 1].key # k
            /\ keys[i - 1].value = latest[keys[i - 1].key]
        BY <4>2, <1>2, <1>3 DEF Node
      <4> QED
        BY <4>2, <4>3, <2>0
    <3> QED
      BY <3>1, <3>2
  <2> QED
    BY <2>1 DEF LatestValue
<1> QED
  BY <1>6, <1>7, <1>8, <1>9, <1>10, <1>11, <1>12 DEF IInv

\* insert of a new key: the node goes in front, and prune drops from the back.
LEMMA InsertNewStep ==
    ASSUME IInv, NEW k \in Keys, NEW v \in Values, insert_new(k, v)
    PROVE  IInv'
<1> PICK node \in Node : node = [key |-> k, value |-> v]
  BY DEF Node
<1> PICK n \in Nat : n = Len(keys)
  BY DEF IInv, TypeOK
<1> DEFINE table == cache \cup {k}
<1>a. keys \in Seq(Node)
  BY DEF IInv, TypeOK
<1>b. node \in Node
  OBVIOUS
<1>1. PICK list \in Seq(Node) :
         /\ list = <<node>> \o keys
         /\ Len(list) = n + 1
         /\ \A i \in 1 .. n + 1 : list[i] = IF i = 1 THEN node ELSE keys[i - 1]
  <2>1. /\ <<node>> \o keys \in Seq(Node)
        /\ Len(<<node>> \o keys) = Len(keys) + 1
        /\ \A i \in 1 .. Len(keys) + 1 :
              (<<node>> \o keys)[i] = IF i = 1 THEN node ELSE keys[i - 1]
    BY ONLY <1>a, <1>b, ConsProperties
  <2> QED
    BY <2>1, Zenon
<1>2. /\ k \notin cache
      /\ keys' = prune(list, table).keys /\ cache' = prune(list, table).cache
      /\ recent' = Used(k) /\ latest' = [latest EXCEPT ![k] = v]
  BY <1>1 DEF insert_new
<1>3. IsFiniteSet(cache) /\ Cardinality(cache) = n
  BY TableSize
<1>4. Cardinality(table) = n + 1
  BY <1>2, <1>3, FS_AddElement
<1>5. /\ \A i \in 1 .. n : keys[i] \in Node /\ keys[i].key \in cache
      /\ cache = {keys[i].key : i \in 1 .. n}
  BY DEF IInv, TypeOK, TableIsList
<1>6. /\ list[1] = node
      /\ \A i \in 2 .. n + 1 : list[i] = keys[i - 1]
  BY <1>1
<1>7. table = {list[i].key : i \in 1 .. n + 1}
  <2>1. ASSUME NEW x \in table
        PROVE  \E i \in 1 .. n + 1 : x = list[i].key
    <3>1. CASE x = k
      <4>1. 1 \in 1 .. n + 1 /\ list[1].key = k
        BY <1>6
      <4> QED
        BY <3>1, <4>1
    <3>2. CASE x \in cache
      <4>1. PICK j \in 1 .. n : x = keys[j].key
        BY <3>2, <1>5
      <4>2. j + 1 \in 2 .. n + 1 /\ j + 1 \in 1 .. n + 1 /\ (j + 1) - 1 = j
        OBVIOUS
      <4>3. list[j + 1] = keys[j]
        BY <4>2, <1>6
      <4> QED
        BY <4>1, <4>2, <4>3
    <3> QED
      BY <3>1, <3>2
  <2>2. ASSUME NEW i \in 1 .. n + 1
        PROVE  list[i].key \in table
    <3>1. CASE i = 1
      BY <3>1, <1>6
    <3>2. CASE i # 1
      <4>1. i \in 2 .. n + 1 /\ i - 1 \in 1 .. n
        BY <3>2
      <4> QED
        BY <4>1, <1>5, <1>6
    <3> QED
      BY <3>1, <3>2
  <2>3. n + 1 \in Nat
    OBVIOUS
  <2>4. \A x \in table : \E i \in 1 .. n + 1 : x = list[i].key
    BY <2>1
  <2>5. \A i \in 1 .. n + 1 : list[i].key \in table
    BY <2>2
  <2> HIDE DEF table
  <2> QED
    BY ONLY <2>3, <2>4, <2>5, TableFromList
<1> HIDE DEF table
<1>8. CASE MaxSize = 0 \/ Cardinality(table) < MaxSize + Elasticity
  <2>1. keys' = list /\ cache' = table
    BY <1>2, <1>8 DEF prune
  <2>2. MaxSize = 0 \/ n + 1 < MaxSize + Elasticity
    BY <1>4, <1>8
  <2>3. n + 1 \in Nat \ {0}
    OBVIOUS
  <2>4. keys'[1] = [key |-> k, value |-> v]
    BY <1>6, <2>1
  <2>5. keys' \in Seq(Node) /\ Len(keys') = n + 1 /\ n + 1 <= Len(keys) + 1 /\ n + 1 = Len(keys) + 1
    BY <1>1, <2>1
  <2>6. \A i \in 2 .. n + 1 : keys'[i] = keys[i - 1]
    BY <1>6, <2>1
  <2>7. cache' = {keys'[i].key : i \in 1 .. n + 1}
    BY <1>7, <2>1
  <2> QED
    BY ONLY IInv, k \in Keys, v \in Values, <1>2, <2>2, <2>3, <2>4, <2>5, <2>6, <2>7, AddedStep, Zenon
<1>9. CASE ~(MaxSize = 0 \/ Cardinality(table) < MaxSize + Elasticity)
  <2>0. MaxSize \in Nat \ {0} /\ MaxSize <= n + 1
    BY <1>4, <1>9, CacheAssumption
  <2>1. /\ keys' = SubSeq(list, 1, MaxSize)
        /\ cache' = table \ {list[i].key : i \in MaxSize + 1 .. Len(list)}
    BY <1>2, <1>9 DEF prune
  <2>2. \A i \in 1 .. MaxSize : list[i] \in Node
    BY <1>1, <2>0
  <2>3. /\ SubSeq(list, 1, MaxSize) \in Seq(Node)
        /\ Len(SubSeq(list, 1, MaxSize)) = MaxSize
        /\ \A i \in 1 .. MaxSize : SubSeq(list, 1, MaxSize)[i] = list[i]
    BY ONLY <2>0, <2>2, SubSeqProperties
  <2>4. /\ keys' \in Seq(Node) /\ Len(keys') = MaxSize
        /\ \A i \in 1 .. MaxSize : keys'[i] = list[i]
    BY ONLY <2>1, <2>3
  <2>5. keys'[1] = [key |-> k, value |-> v] /\ \A i \in 2 .. MaxSize : keys'[i] = keys[i - 1]
    <3>1. 1 \in 1 .. MaxSize /\ \A i \in 2 .. MaxSize : i \in 1 .. MaxSize /\ i \in 2 .. n + 1
      BY ONLY <2>0, n \in Nat
    <3>2. keys'[1] = list[1] /\ \A i \in 2 .. MaxSize : keys'[i] = list[i]
      BY ONLY <2>4, <3>1
    <3> QED
      BY <3>1, <3>2, <1>6, Zenon
  <2>6. \A i, j \in 1 .. n + 1 : list[i].key = list[j].key => i = j
    <3> SUFFICES ASSUME NEW i \in 1 .. n + 1, NEW j \in 1 .. n + 1,
                        list[i].key = list[j].key, i # j
                 PROVE  FALSE
      OBVIOUS
    <3>1. list[1].key = k
      BY <1>6
    <3>2. i # 1 => i - 1 \in 1 .. n /\ list[i] = keys[i - 1]
      BY <1>6
    <3>3. j # 1 => j - 1 \in 1 .. n /\ list[j] = keys[j - 1]
      BY <1>6
    <3>4. \A a \in 1 .. n : keys[a].key # k
      BY <1>2, <1>5
    <3>5. CASE i # 1 /\ j # 1
      <4>1. i - 1 = j - 1
        BY <3>2, <3>3, <3>5, TableSize
      <4> QED
        BY <4>1
    <3> QED
      BY <3>1, <3>2, <3>3, <3>4, <3>5
  <2>7. \A x \in cache' : \E i \in 1 .. MaxSize : x = keys'[i].key
    <3> SUFFICES ASSUME NEW x \in cache'
                 PROVE  \E i \in 1 .. MaxSize : x = keys'[i].key
      OBVIOUS
    <3>1. PICK i \in 1 .. n + 1 : x = list[i].key
      BY <1>7, <2>1
    <3>2. i \in 1 .. MaxSize
      BY <3>1, <2>0, <2>1, <1>1
    <3> QED
      BY <3>1, <3>2, <2>4
  <2>8. \A i \in 1 .. MaxSize : keys'[i].key \in cache'
    <3> SUFFICES ASSUME NEW i \in 1 .. MaxSize
                 PROVE  keys'[i].key \in cache'
      OBVIOUS
    <3>1. i \in 1 .. n + 1 /\ keys'[i] = list[i] /\ list[i].key \in table
      BY <2>0, <2>4, <1>7
    <3>2. list[i].key \notin {list[j].key : j \in MaxSize + 1 .. Len(list)}
      BY <3>1, <2>0, <2>6, <1>1
    <3> QED
      BY <3>1, <3>2, <2>1
  <2>9. cache' = {keys'[i].key : i \in 1 .. MaxSize}
    BY ONLY <2>0, <2>7, <2>8, TableFromList
  <2> QED
    BY <1>2, <2>0, <2>4, <2>5, <2>9, AddedStep
<1> QED
  BY <1>8, <1>9

\* The invariant holds at first and every operation keeps it.
THEOREM Invariance == Spec => []IInv
<1>1. Init => IInv
  <2> SUFFICES ASSUME Init PROVE IInv
    OBVIOUS
  <2>1. keys = <<>> /\ cache = {} /\ recent = <<>> /\ latest \in [Keys -> Values]
    BY DEF Init
  <2>2. Len(keys) = 0 /\ Len(recent) = 0 /\ 1 .. 0 = {}
    BY <2>1
  <2> QED
    BY <2>1, <2>2, CacheAssumption
    DEF IInv, TypeOK, RecentDistinct, ListIsRecent, TableIsList, RoomUsed, HardLimit, LatestValue
<1>2. IInv /\ [Next]_vars => IInv'
  <2> SUFFICES ASSUME IInv, [Next]_vars PROVE IInv'
    OBVIOUS
  <2>1. ASSUME NEW k \in Keys, NEW v \in Values, insert_known(k, v) PROVE IInv'
    BY <2>1, SpliceStep DEF insert_known
  <2>2. ASSUME NEW k \in Keys, NEW v \in Values, insert_new(k, v) PROVE IInv'
    BY <2>2, InsertNewStep
  <2>3. ASSUME NEW k \in Keys, tryGet(k) PROVE IInv'
    <3>1. k \in cache
      BY <2>3 DEF tryGet
    <3>2. At(k) \in 1 .. Len(keys) /\ keys[At(k)].key = k
      BY <3>1, Iterator
    <3>3. keys[At(k)] \in Node /\ latest[k] \in Values /\ latest \in [Keys -> Values]
      BY <3>2 DEF IInv, TypeOK
    <3>4. keys[At(k)].value = latest[k]
      BY <3>2 DEF IInv, LatestValue
    <3>5. keys[At(k)] = [key |-> k, value |-> latest[k]]
      BY <3>2, <3>3, <3>4 DEF Node
    <3>6. latest' = [latest EXCEPT ![k] = latest[k]]
      BY <2>3, <3>3 DEF tryGet
    <3>7. keys' = <<[key |-> k, value |-> latest[k]]>> \o RemoveAt(keys, At(k))
      BY <2>3, <3>5 DEF tryGet
    <3> QED
      BY <2>3, <3>1, <3>3, <3>6, <3>7, SpliceStep DEF tryGet
  <2>4. ASSUME NEW k \in Keys, remove(k) PROVE IInv'
    BY <2>4, RemoveStep
  <2>5. ASSUME clear PROVE IInv'
    <3>1. keys' = <<>> /\ cache' = {} /\ recent' = <<>> /\ latest' = latest
      BY <2>5 DEF clear
    <3>2. Len(keys') = 0 /\ Len(recent') = 0 /\ 1 .. 0 = {}
      BY <3>1
    <3> QED
      BY <3>1, <3>2, CacheAssumption
      DEF IInv, TypeOK, RecentDistinct, ListIsRecent, TableIsList, RoomUsed, HardLimit, LatestValue
  <2>6. ASSUME UNCHANGED vars PROVE IInv'
    BY <2>6 DEF vars, IInv, TypeOK, RecentDistinct, ListIsRecent, TableIsList, RoomUsed,
                HardLimit, LatestValue
  <2> QED
    BY <2>1, <2>2, <2>3, <2>4, <2>5, <2>6 DEF Next
<1> QED
  BY <1>1, <1>2, PTL DEF Spec

\* The DentryCache holds the directories used last, in this order, and drops
\* none while there is room, for every size.
THEOREM HoldsTheRecent == Spec => []KeepsRecent
<1>1. IInv => KeepsRecent
  BY InvKeepsRecent
<1> QED
  BY <1>1, Invariance, PTL

\* A lookup answers with the inode last put, and never with one put earlier.
THEOREM AnswersTheLatest == Spec => []LatestValue
<1>1. IInv => LatestValue
  BY DEF IInv
<1> QED
  BY <1>1, Invariance, PTL

\* The cache stays within its hard limit.
THEOREM StaysBounded == Spec => []HardLimit
<1>1. IInv => HardLimit
  BY DEF IInv
<1> QED
  BY <1>1, Invariance, PTL

===============================================================================
