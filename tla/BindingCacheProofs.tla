-------------------------- MODULE BindingCacheProofs --------------------------
(***************************************************************************)
(* Proofs about BindingCache: any number of LdapGroupBindings, readers,    *)
(* changes, lost watches and restarts.                                     *)
(***************************************************************************)
EXTENDS BindingCache, FiniteSetTheorems, TLAPS

-----------------------------------------------------------------------------
(* The inductive invariant. *)

(* The events of a stream or a queue that are about n. *)
About(s, n) == {i \in DOMAIN s : s[i].object.name = n}

(* An event that finds version v, 0 for none, where it is applied.         *)
Fits(e, v) ==
  /\ e.type = "added" => v = 0 /\ e.object.version # 0
  /\ e.type = "updated" => v # 0 /\ e.object.version >= v
  /\ e.type \in {"deleted", "tombstone"} => v # 0 /\ e.object.version = 0

(* Applied one after the other, the events take n from version a to b.     *)
Takes(s, n, a, b) ==
  /\ About(s, n) = {} => a = b
  /\ \A i \in About(s, n) :
       /\ (\A j \in About(s, n) : i <= j) => Fits(s[i], a)
       /\ (\A j \in About(s, n) : j <= i) => s[i].object.version = b
       /\ \A j \in About(s, n) :
            i < j /\ (\A k \in About(s, n) : k <= i \/ j <= k) => Fits(s[j], s[i].object.version)

(* Where n is in a cache, and the version it has there. *)
NameAt(c, n) == {i \in DOMAIN c : c[i].name = n}

HeldIn(c, n) == IF NameAt(c, n) = {} THEN 0 ELSE c[CHOOSE i \in NameAt(c, n) : TRUE].version

(* Every element is a version of its object, and no object is there twice. *)
Orderly(c) ==
  /\ \A i \in DOMAIN c : c[i].version # 0
  /\ \A i, j \in DOMAIN c : c[i].name = c[j].name => i = j

(* The queue leads the cache to the store. *)
CacheInv ==
  /\ Orderly(cache)
  /\ \A n \in Names : Takes(queue, n, HeldIn(cache, n), indexer[n])

(* The stream leads the store to the objects, and never back in time.      *)
StreamInv ==
  /\ ~connected => stream = <<>>
  /\ connected => \A n \in Names : Takes(stream, n, indexer[n], objects[n])
  /\ \A i \in DOMAIN stream :
       LET p == stream[i].object
       IN  p.version <= changes /\ (objects[p.name] # 0 => p.version <= objects[p.name])
  /\ \A n \in Names : objects[n] # 0 => indexer[n] <= objects[n]

(* A slice that is still part of the cache's array is behind it at most.   *)
WalkInv ==
  \A r \in Readers : reader[r].shares =>
    /\ Len(reader[r].slice) <= Len(cache)
    /\ \A i \in DOMAIN reader[r].slice :
         /\ reader[r].slice[i].name = cache[i].name
         /\ reader[r].slice[i].version <= cache[i].version

IInv == TypeOK /\ CacheInv /\ StreamInv /\ WalkInv /\ WalksMissNothing

-----------------------------------------------------------------------------
(* Sequences of events. *)

LEMMA TakesNothing ==
  ASSUME NEW s, NEW n, NEW a, About(s, n) = {}
  PROVE  Takes(s, n, a, a)
BY DEF Takes

LEMMA TakesOne ==
  ASSUME NEW s, NEW n, NEW a, NEW i \in DOMAIN s, About(s, n) = {i}, i \in Nat, Fits(s[i], a)
  PROVE  Takes(s, n, a, s[i].object.version)
BY DEF Takes

LEMMA TakesSingle ==
  ASSUME NEW e, NEW n, NEW a, e.object.name = n => Fits(e, a)
  PROVE  Takes(<<e>>, n, a, IF e.object.name = n THEN e.object.version ELSE a)
<1>1. CASE e.object.name = n
  <2>1. About(<<e>>, n) = {1}
    BY <1>1 DEF About
  <2> QED
    BY <1>1, <2>1, TakesOne
<1>2. CASE e.object.name # n
  <2>1. About(<<e>>, n) = {}
    BY <1>2 DEF About
  <2> QED
    BY <1>2, <2>1, TakesNothing
<1> QED
  BY <1>1, <1>2

LEMMA TakesConcat ==
  ASSUME NEW S, NEW s \in Seq(S), NEW t \in Seq(S), NEW n, NEW a, NEW b, NEW c,
         Takes(s, n, a, b), Takes(t, n, b, c)
  PROVE  Takes(s \o t, n, a, c)
<1> DEFINE st == s \o t
<1>1. /\ \A i \in About(s, n) : i \in 1 .. Len(s) /\ i \in About(st, n) /\ st[i] = s[i]
      /\ \A i \in About(t, n) :
           i \in 1 .. Len(t) /\ Len(s) + i \in About(st, n) /\ st[Len(s) + i] = t[i]
      /\ \A i \in About(st, n) :
           /\ i \in 1 .. Len(s) + Len(t)
           /\ i <= Len(s) => i \in About(s, n)
           /\ i > Len(s) => i - Len(s) \in About(t, n) /\ st[i] = t[i - Len(s)]
  BY DEF About
<1> HIDE DEF st
<1>2. Len(s) \in Nat /\ Len(t) \in Nat
  OBVIOUS
<1>3. About(st, n) = {} => a = c
  BY <1>1 DEF Takes
<1>4. ASSUME NEW i \in About(st, n), \A j \in About(st, n) : i <= j
      PROVE  Fits(st[i], a)
  <2>1. CASE i <= Len(s)
    BY <1>1, <1>2, <1>4, <2>1 DEF Takes
  <2>2. CASE i > Len(s)
    <3>1. About(s, n) = {}
      BY <1>1, <1>2, <1>4, <2>2
    <3>2. \A j \in About(t, n) : i - Len(s) <= j
      BY <1>1, <1>2, <1>4
    <3> QED
      BY <1>1, <2>2, <3>1, <3>2 DEF Takes
  <2> QED
    BY <1>1, <1>2, <2>1, <2>2
<1>5. ASSUME NEW i \in About(st, n), \A j \in About(st, n) : j <= i
      PROVE  st[i].object.version = c
  <2>1. CASE i <= Len(s)
    <3>1. About(t, n) = {}
      BY <1>1, <1>2, <1>5, <2>1
    <3>2. \A j \in About(s, n) : j <= i
      BY <1>1, <1>5
    <3> QED
      BY <1>1, <2>1, <3>1, <3>2 DEF Takes
  <2>2. CASE i > Len(s)
    <3>1. \A j \in About(t, n) : j <= i - Len(s)
      BY <1>1, <1>2, <1>5
    <3> QED
      BY <1>1, <2>2, <3>1 DEF Takes
  <2> QED
    BY <1>1, <1>2, <2>1, <2>2
<1>6. ASSUME NEW i \in About(st, n), NEW j \in About(st, n), i < j,
             \A k \in About(st, n) : k <= i \/ j <= k
      PROVE  Fits(st[j], st[i].object.version)
  <2>1. CASE j <= Len(s)
    <3>1. i \in About(s, n) /\ j \in About(s, n) /\ st[i] = s[i] /\ st[j] = s[j]
      BY <1>1, <1>2, <1>6, <2>1
    <3>2. \A k \in About(s, n) : k <= i \/ j <= k
      BY <1>1, <1>6
    <3> QED
      BY <1>6, <3>1, <3>2 DEF Takes
  <2>2. CASE i <= Len(s) /\ j > Len(s)
    <3>1. i \in About(s, n) /\ st[i] = s[i] /\ \A k \in About(s, n) : k <= i
      BY <1>1, <1>2, <1>6, <2>2
    <3>2. /\ j - Len(s) \in About(t, n) /\ st[j] = t[j - Len(s)]
          /\ \A k \in About(t, n) : j - Len(s) <= k
      BY <1>1, <1>2, <1>6, <2>2
    <3> QED
      BY <3>1, <3>2 DEF Takes
  <2>3. CASE i > Len(s)
    <3>1. /\ i - Len(s) \in About(t, n) /\ st[i] = t[i - Len(s)]
          /\ j - Len(s) \in About(t, n) /\ st[j] = t[j - Len(s)]
          /\ i - Len(s) < j - Len(s)
      BY <1>1, <1>2, <1>6, <2>3
    <3>2. \A k \in About(t, n) : k <= i - Len(s) \/ j - Len(s) <= k
      BY <1>1, <1>2, <1>6
    <3> QED
      BY <3>1, <3>2 DEF Takes
  <2> QED
    BY <1>1, <1>2, <2>1, <2>2, <2>3
<1> QED
  BY <1>3, <1>4, <1>5, <1>6 DEF Takes, st

LEMMA TakesTail ==
  ASSUME NEW S, NEW s \in Seq(S), s # <<>>, NEW n, NEW a, NEW b, Takes(s, n, a, b)
  PROVE  IF Head(s).object.name = n
         THEN Fits(Head(s), a) /\ Takes(Tail(s), n, Head(s).object.version, b)
         ELSE Takes(Tail(s), n, a, b)
<1> DEFINE t == Tail(s)
<1>1. /\ \A i \in About(t, n) : i \in Nat \ {0} /\ i + 1 \in About(s, n) /\ s[i + 1] = t[i]
      /\ \A i \in About(s, n) : i \in Nat \ {0} /\ (i # 1 => i - 1 \in About(t, n))
      /\ Head(s) = s[1]
      /\ 1 \in About(s, n) <=> Head(s).object.name = n
  BY DEF About
<1> HIDE DEF t
<1>2. \A i, j \in About(t, n) :
        i < j /\ (\A k \in About(t, n) : k <= i \/ j <= k) => Fits(t[j], t[i].object.version)
  <2> SUFFICES ASSUME NEW i \in About(t, n), NEW j \in About(t, n), i < j,
                      \A k \in About(t, n) : k <= i \/ j <= k
               PROVE  Fits(t[j], t[i].object.version)
    OBVIOUS
  <2>1. ASSUME NEW k \in About(s, n) PROVE k <= i + 1 \/ j + 1 <= k
    <3>1. k # 1 => k - 1 <= i \/ j <= k - 1
      BY <1>1
    <3>2. i \in Nat /\ j \in Nat /\ k \in Nat
      BY <1>1
    <3> QED
      BY <3>1, <3>2
  <2>2. i + 1 < j + 1
    BY <1>1
  <2> QED
    BY <1>1, <2>1, <2>2 DEF Takes
<1>3. \A i \in About(t, n) : (\A j \in About(t, n) : j <= i) => t[i].object.version = b
  <2> SUFFICES ASSUME NEW i \in About(t, n), \A j \in About(t, n) : j <= i
               PROVE  t[i].object.version = b
    OBVIOUS
  <2>1. \A k \in About(s, n) : k <= i + 1
    BY <1>1
  <2> QED
    BY <1>1, <2>1 DEF Takes
<1>4. CASE Head(s).object.name = n
  <2>1. 1 \in About(s, n) /\ \A k \in About(s, n) : 1 <= k
    BY <1>1, <1>4
  <2>2. Fits(Head(s), a)
    BY <1>1, <2>1 DEF Takes
  <2>3. About(t, n) = {} => Head(s).object.version = b
    <3>1. About(t, n) = {} => \A k \in About(s, n) : k <= 1
      BY <1>1
    <3> QED
      BY <1>1, <2>1, <3>1 DEF Takes
  <2>4. ASSUME NEW i \in About(t, n), \A j \in About(t, n) : i <= j
        PROVE  Fits(t[i], Head(s).object.version)
    <3>1. \A k \in About(s, n) : k <= 1 \/ i + 1 <= k
      BY <1>1, <2>4
    <3>2. 1 < i + 1
      BY <1>1
    <3> QED
      BY <1>1, <2>1, <3>1, <3>2 DEF Takes
  <2> QED
    BY <1>2, <1>3, <1>4, <2>2, <2>3, <2>4 DEF Takes, t
<1>5. CASE Head(s).object.name # n
  <2>1. \A k \in About(s, n) : k - 1 \in About(t, n)
    BY <1>1, <1>5
  <2>2. About(t, n) = {} => a = b
    BY <2>1 DEF Takes
  <2>3. ASSUME NEW i \in About(t, n), \A j \in About(t, n) : i <= j
        PROVE  Fits(t[i], a)
    <3>1. \A k \in About(s, n) : i + 1 <= k
      BY <1>1, <2>1, <2>3
    <3> QED
      BY <1>1, <3>1 DEF Takes
  <2> QED
    BY <1>2, <1>3, <1>5, <2>2, <2>3 DEF Takes, t
<1> QED
  BY <1>4, <1>5

(* A listing in any order has every element of the set, and once.          *)
LEMMA Listing ==
  ASSUME NEW S, IsFiniteSet(S), NEW f \in SetToSeqs(S)
  PROVE  /\ f \in Seq(S) /\ DOMAIN f \subseteq Nat
         /\ \A i \in DOMAIN f : f[i] \in S
         /\ \A i, j \in DOMAIN f : f[i] = f[j] => i = j
         /\ \A x \in S : \E i \in DOMAIN f : f[i] = x
<1>1. Cardinality(S) \in Nat
  BY FS_CardinalityType
<1>2. f \in [1 .. Cardinality(S) -> S] /\ \A i, j \in 1 .. Cardinality(S) : i # j => f[i] # f[j]
  BY DEF SetToSeqs
<1>3. f \in Injection(1 .. Cardinality(S), S)
  BY <1>2 DEF Injection, IsInjective
<1>4. Cardinality(1 .. Cardinality(S)) = Cardinality(S)
  BY <1>1, FS_Interval
<1>5. f \in Surjection(1 .. Cardinality(S), S)
  BY <1>3, <1>4, FS_Injection
<1> QED
  BY <1>1, <1>2, <1>5 DEF Surjection

-----------------------------------------------------------------------------
(* What the handlers make of the cache. *)

LEMMA HeldOnce ==
  ASSUME NEW c, Orderly(c), NEW n, NEW i \in NameAt(c, n)
  PROVE  HeldIn(c, n) = c[i].version /\ HeldIn(c, n) # 0
BY DEF Orderly, NameAt, HeldIn

(* An append of what is not there. *)
LEMMA Appended ==
  ASSUME NEW c \in Seq(Pointer), Orderly(c), NEW p \in Pointer, p.version # 0, HeldIn(c, p.name) = 0
  PROVE  /\ Orderly(Append(c, p))
         /\ \A n : HeldIn(Append(c, p), n) = IF n = p.name THEN p.version ELSE HeldIn(c, n)
<1> DEFINE d == Append(c, p)
<1>1. /\ d \in Seq(Pointer) /\ DOMAIN c = 1 .. Len(c) /\ DOMAIN d = 1 .. Len(c) + 1
      /\ \A i \in DOMAIN c : d[i] = c[i] /\ i \in DOMAIN d
      /\ \A i \in DOMAIN d : i \in DOMAIN c \/ d[i] = p
      /\ \A i, j \in DOMAIN d : i \notin DOMAIN c /\ j \notin DOMAIN c => i = j
      /\ Len(c) + 1 \in DOMAIN d /\ d[Len(c) + 1] = p
  OBVIOUS
<1>2. \A i \in DOMAIN c : c[i].name # p.name
  BY HeldOnce DEF NameAt
<1> HIDE DEF d
<1>3. Orderly(d)
  BY <1>1, <1>2 DEF Orderly
<1>4. ASSUME NEW n PROVE HeldIn(d, n) = IF n = p.name THEN p.version ELSE HeldIn(c, n)
  <2>1. CASE n = p.name
    BY <1>1, <1>3, <2>1, HeldOnce DEF NameAt
  <2>2. CASE n # p.name
    <3>1. \A i \in NameAt(d, n) : i \in NameAt(c, n)
      BY <1>1, <2>2 DEF NameAt
    <3>2. \A i \in NameAt(c, n) : i \in NameAt(d, n) /\ d[i] = c[i]
      BY <1>1 DEF NameAt
    <3>3. CASE NameAt(c, n) = {}
      BY <2>2, <3>1, <3>3 DEF HeldIn
    <3>4. ASSUME NEW i \in NameAt(c, n) PROVE HeldIn(d, n) = HeldIn(c, n)
      BY <1>3, <3>2, HeldOnce
    <3> QED
      BY <2>2, <3>3, <3>4
  <2> QED
    BY <2>1, <2>2
<1> QED
  BY <1>3, <1>4 DEF d

(* A write of what is there. *)
LEMMA Written ==
  ASSUME NEW c \in Seq(Pointer), Orderly(c), NEW p \in Pointer, p.version # 0,
         NEW w \in NameAt(c, p.name)
  PROVE  /\ Orderly([c EXCEPT ![w] = p])
         /\ \A n : HeldIn([c EXCEPT ![w] = p], n) = IF n = p.name THEN p.version ELSE HeldIn(c, n)
<1> DEFINE d == [c EXCEPT ![w] = p]
<1>1. /\ w \in DOMAIN c /\ DOMAIN d = DOMAIN c /\ d[w] = p
      /\ \A i \in DOMAIN c : i # w => d[i] = c[i]
      /\ \A i \in DOMAIN c : d[i].name = c[i].name
  BY DEF NameAt
<1> HIDE DEF d
<1>2. Orderly(d)
  BY <1>1 DEF Orderly
<1>3. ASSUME NEW n PROVE HeldIn(d, n) = IF n = p.name THEN p.version ELSE HeldIn(c, n)
  <2>0. NameAt(d, n) = NameAt(c, n)
    BY <1>1 DEF NameAt
  <2>1. CASE n = p.name
    BY <1>1, <1>2, <2>0, <2>1, HeldOnce
  <2>2. CASE n # p.name
    <3>1. \A i \in NameAt(c, n) : d[i] = c[i]
      BY <1>1, <2>2 DEF NameAt
    <3>2. CASE NameAt(c, n) = {}
      BY <2>0, <2>2, <3>2 DEF HeldIn
    <3>3. ASSUME NEW i \in NameAt(c, n) PROVE HeldIn(d, n) = HeldIn(c, n)
      BY <1>2, <2>0, <3>1, HeldOnce
    <3> QED
      BY <2>2, <3>2, <3>3
  <2> QED
    BY <2>1, <2>2
<1> QED
  BY <1>2, <1>3 DEF d

(* The filter leaves every element of another name, and nothing else; it   *)
(* leaves no name twice if the cache has none.                             *)
LEMMA WithoutKeeps ==
  ASSUME cache \in Seq(Pointer), NEW n
  PROVE  /\ Without(n) \in Seq(Pointer)
         /\ \A k \in DOMAIN Without(n) : \E i \in DOMAIN cache \ Positions(n) : Without(n)[k] = cache[i]
         /\ \A i \in DOMAIN cache \ Positions(n) : \E k \in DOMAIN Without(n) : Without(n)[k] = cache[i]
         /\ (\A i, j \in DOMAIN cache : cache[i].name = cache[j].name => i = j) =>
              \A k, m \in DOMAIN Without(n) :
                Without(n)[k].name = Without(n)[m].name => k = m
<1> DEFINE kept     == DOMAIN cache \ Positions(n)
           UpTo(i)  == {j \in kept : j <= i}
           Place(i) == Cardinality(UpTo(i))
           From(k)  == CHOOSE i \in kept : Place(i) = k
<1>1. kept \subseteq 1 .. Len(cache) /\ Len(cache) \in Nat
  OBVIOUS
<1>2. IsFiniteSet(kept) /\ Cardinality(kept) \in Nat
  <2>1. IsFiniteSet(1 .. Len(cache))
    BY <1>1, FS_Interval
  <2> QED
    BY <1>1, <2>1, FS_Subset, FS_CardinalityType
<1>3. Without(n) = [k \in 1 .. Cardinality(kept) |-> cache[From(k)]]
  BY DEF Without
<1>4. \A i \in kept : i \in Int /\ i \in DOMAIN cache /\ cache[i] \in Pointer
  BY <1>1
<1> HIDE DEF kept
<1>5. ASSUME NEW i \in kept
      PROVE  /\ UpTo(i) \in SUBSET kept /\ IsFiniteSet(UpTo(i))
             /\ Place(i) \in 1 .. Cardinality(kept)
  <2>1. UpTo(i) \in SUBSET kept /\ i \in UpTo(i)
    BY <1>4
  <2> HIDE DEF UpTo
  <2>2. IsFiniteSet(UpTo(i)) /\ Cardinality(UpTo(i)) <= Cardinality(kept)
    BY <1>2, <2>1, FS_Subset
  <2>3. Cardinality(UpTo(i)) \in Nat /\ Cardinality(UpTo(i)) # 0
    BY <2>1, <2>2, FS_CardinalityType, FS_EmptySet
  <2> QED
    BY <1>2, <2>1, <2>2, <2>3
<1>6. ASSUME NEW i \in kept, NEW j \in kept, i < j PROVE Place(i) # Place(j)
  <2>1. UpTo(i) \in SUBSET UpTo(j) /\ j \in UpTo(j) /\ j \notin UpTo(i)
    BY <1>4, <1>6
  <2>2. IsFiniteSet(UpTo(j))
    BY <1>5
  <2> HIDE DEF UpTo
  <2> QED
    BY <2>1, <2>2, FS_Subset
<1> HIDE DEF Place
<1>7. ASSUME NEW i \in kept, NEW j \in kept, Place(i) = Place(j) PROVE i = j
  BY <1>4, <1>6, <1>7
<1>8. \A k \in 1 .. Cardinality(kept) : \E i \in kept : Place(i) = k
  <2> DEFINE places == [i \in kept |-> Place(i)]
  <2>1. places \in Injection(kept, 1 .. Cardinality(kept))
    BY <1>5, <1>7 DEF Injection, IsInjective
  <2>2. IsFiniteSet(1 .. Cardinality(kept)) /\ Cardinality(1 .. Cardinality(kept)) = Cardinality(kept)
    BY <1>2, FS_Interval
  <2>3. places \in Surjection(kept, 1 .. Cardinality(kept))
    BY <1>2, <2>1, <2>2, FS_Injection
  <2> QED
    BY <2>3 DEF Surjection
<1>9. \A k \in 1 .. Cardinality(kept) : From(k) \in kept /\ Place(From(k)) = k
  BY <1>8
<1>10. \A i \in kept : From(Place(i)) = i
  BY <1>5, <1>7, <1>9
<1> HIDE DEF From
<1>11. Without(n) \in Seq(Pointer)
  BY <1>2, <1>3, <1>4, <1>9
<1>12. \A k \in DOMAIN Without(n) : \E i \in kept : Without(n)[k] = cache[i]
  BY <1>3, <1>9
<1>13. \A i \in kept : \E k \in DOMAIN Without(n) : Without(n)[k] = cache[i]
  BY <1>3, <1>5, <1>10
<1>14. (\A i, j \in DOMAIN cache : cache[i].name = cache[j].name => i = j) =>
         \A k, m \in DOMAIN Without(n) : Without(n)[k].name = Without(n)[m].name => k = m
  <2>1. kept \subseteq DOMAIN cache
    BY DEF kept
  <2> QED
    BY <1>3, <1>9, <2>1
<1> QED
  BY <1>11, <1>12, <1>13, <1>14 DEF kept

LEMMA Filtered ==
  ASSUME cache \in Seq(Pointer), Orderly(cache), NEW n
  PROVE  /\ Without(n) \in Seq(Pointer) /\ Orderly(Without(n))
         /\ \A m : HeldIn(Without(n), m) = IF m = n THEN 0 ELSE HeldIn(cache, m)
<1> DEFINE d == Without(n)
<1>1. /\ d \in Seq(Pointer)
      /\ \A k \in DOMAIN d : \E i \in DOMAIN cache : cache[i].name # n /\ d[k] = cache[i]
      /\ \A i \in DOMAIN cache : cache[i].name # n => \E k \in DOMAIN d : d[k] = cache[i]
      /\ \A k, m \in DOMAIN d : d[k].name = d[m].name => k = m
  BY WithoutKeeps DEF Positions, Orderly
<1> HIDE DEF d
<1>2. Orderly(d)
  BY <1>1 DEF Orderly
<1>3. ASSUME NEW m PROVE HeldIn(d, m) = IF m = n THEN 0 ELSE HeldIn(cache, m)
  <2>1. CASE m = n
    <3>1. NameAt(d, m) = {}
      BY <1>1, <2>1 DEF NameAt
    <3> QED
      BY <2>1, <3>1 DEF HeldIn
  <2>2. CASE m # n
    <3>1. ASSUME NEW i \in NameAt(cache, m) PROVE HeldIn(d, m) = HeldIn(cache, m)
      <4>1. PICK k \in NameAt(d, m) : d[k] = cache[i]
        BY <1>1, <2>2 DEF NameAt
      <4> QED
        BY <1>2, <4>1, HeldOnce
    <3>2. CASE NameAt(cache, m) = {}
      <4>1. NameAt(d, m) = {}
        BY <1>1, <3>2 DEF NameAt
      <4> QED
        BY <3>2, <4>1 DEF HeldIn
    <3> QED
      BY <2>2, <3>1, <3>2
  <2> QED
    BY <2>1, <2>2
<1> QED
  BY <1>1, <1>2, <1>3 DEF d

-----------------------------------------------------------------------------
(* The invariant holds at first. *)

LEMMA InitIInv == Init => IInv
<1> SUFFICES ASSUME Init PROVE IInv
  OBVIOUS
<1> USE DEF Init, NoObjects, NoWalk
<1>1. TypeOK
  <2>1. objects \in [Names -> 0 .. changes] /\ indexer \in [Names -> 0 .. changes]
    OBVIOUS
  <2>2. NoWalk \in Walk
    BY DEF Walk
  <2>3. \A r \in Readers : reader[r].next <= Len(reader[r].slice) + 1
    OBVIOUS
  <2> HIDE DEF NoWalk
  <2>4. reader \in [Readers -> Walk] /\ changes \in 1 .. MaxChanges + 1 /\ drops \in 0 .. MaxDrops
    BY <2>2, BoundAssumption
  <2>5. stream \in Seq(Event) /\ queue \in Seq(Event) /\ cache \in Seq(Pointer) /\ connected \in BOOLEAN
    <3>1. <<>> \in Seq(Event) /\ <<>> \in Seq(Pointer)
      OBVIOUS
    <3> QED
      BY <3>1
  <2> QED
    BY <2>1, <2>3, <2>4, <2>5 DEF TypeOK
<1>2. CacheInv
  BY TakesNothing DEF CacheInv, Orderly, HeldIn, NameAt, About
<1>3. StreamInv
  BY DEF StreamInv
<1>4. WalkInv /\ WalksMissNothing
  BY DEF WalkInv, WalksMissNothing
<1> QED
  BY <1>1, <1>2, <1>3, <1>4 DEF IInv

-----------------------------------------------------------------------------
(* The API server and the informer. *)

LEMMA ObjectChangesKeeps ==
  ASSUME IInv, NEW n \in Names, ObjectChanges(n)
  PROVE  IInv'
<1> USE BoundAssumption DEF IInv
<1>1. PICK v \in {changes', 0} :
        /\ v # objects[n]
        /\ objects' = [objects EXCEPT ![n] = v]
        /\ stream' = IF connected THEN Append(stream, Difference(n, objects[n], v)) ELSE stream
  BY DEF ObjectChanges
<1>2. /\ changes <= MaxChanges /\ changes' = changes + 1
      /\ UNCHANGED <<connected, indexer, queue, cache, reader, drops>>
  BY DEF ObjectChanges
<1> DEFINE e == Difference(n, objects[n], v)
<1>3. /\ changes \in Nat /\ v \in 0 .. changes' /\ objects[n] \in 0 .. changes
      /\ \A m \in Names : indexer[m] \in 0 .. changes /\ objects[m] \in 0 .. changes
      /\ \A m \in Names : objects'[m] = IF m = n THEN v ELSE objects[m]
      /\ stream \in Seq(Event)
  BY <1>1, <1>2 DEF TypeOK
<1>4. e \in Event /\ e.object = [name |-> n, version |-> v] /\ Fits(e, objects[n])
  <2>1. /\ e.object = [name |-> n, version |-> v]
        /\ e.type = IF v = 0 THEN "deleted" ELSE IF objects[n] = 0 THEN "added" ELSE "updated"
        /\ e = [type |-> e.type, object |-> e.object]
    BY DEF Difference, Notification
  <2>2. e \in Event
    BY <1>2, <1>3, <2>1 DEF Event, EventTypes, Pointer
  <2>3. v # 0 => v = changes + 1
    BY <1>1, <1>2
  <2> QED
    BY <1>1, <1>3, <2>1, <2>2, <2>3 DEF Fits
<1> HIDE DEF e
<1>5. TypeOK'
  <2>1. objects' \in [Names -> 0 .. changes'] /\ indexer' \in [Names -> 0 .. changes']
    BY <1>1, <1>2, <1>3 DEF TypeOK
  <2>2. stream' \in Seq(Event)
    BY <1>1, <1>3, <1>4 DEF e
  <2>3. changes' \in 1 .. MaxChanges + 1
    BY <1>2, <1>3 DEF TypeOK
  <2> QED
    BY <1>2, <2>1, <2>2, <2>3 DEF TypeOK
<1>6. CacheInv'
  BY <1>2 DEF CacheInv
<1>7. StreamInv'
  <2>1. CASE ~connected
    BY <1>1, <1>2, <1>3, <2>1 DEF StreamInv
  <2>2. CASE connected
    <3>1. stream' = stream \o <<e>> /\ <<e>> \in Seq(Event)
      BY <1>1, <1>3, <1>4, <2>2 DEF e
    <3>2. ASSUME NEW m \in Names PROVE Takes(stream', m, indexer'[m], objects'[m])
      <4>1. Takes(stream, m, indexer[m], objects[m])
        BY <2>2 DEF StreamInv
      <4>2. Takes(<<e>>, m, objects[m], objects'[m])
        <5>1. Takes(<<e>>, m, objects[m], IF e.object.name = m THEN e.object.version ELSE objects[m])
          BY <1>4, TakesSingle
        <5> QED
          BY <1>3, <1>4, <5>1
      <4> QED
        BY <1>2, <1>3, <3>1, <4>1, <4>2, TakesConcat
    <3>3. ASSUME NEW i \in DOMAIN stream'
          PROVE  LET p == stream'[i].object
                 IN  p.version <= changes' /\ (objects'[p.name] # 0 => p.version <= objects'[p.name])
      <4>1. CASE i \in DOMAIN stream
        <5>1. stream'[i] = stream[i] /\ stream[i] \in Event
          BY <1>3, <3>1, <4>1
        <5>2. stream[i].object.version <= changes /\ stream[i].object.version \in Nat
              /\ stream[i].object.name \in Names
          BY <4>1, <5>1 DEF StreamInv, Event, Pointer
        <5>3. objects[stream[i].object.name] # 0 =>
                stream[i].object.version <= objects[stream[i].object.name]
          BY <4>1 DEF StreamInv
        <5>4. v # 0 => v = changes + 1
          BY <1>1, <1>2
        <5> QED
          BY <1>2, <1>3, <5>1, <5>2, <5>3, <5>4
      <4>2. CASE i \notin DOMAIN stream
        <5>1. stream'[i] = e
          BY <1>3, <1>4, <3>1, <4>2
        <5> QED
          BY <1>3, <1>4, <5>1
      <4> QED
        BY <4>1, <4>2
    <3>4. \A m \in Names : objects'[m] # 0 => indexer'[m] <= objects'[m]
      BY <1>1, <1>2, <1>3 DEF StreamInv
    <3> QED
      BY <1>2, <2>2, <3>2, <3>3, <3>4 DEF StreamInv
  <2> QED
    BY <2>1, <2>2 DEF TypeOK
<1>8. WalkInv' /\ WalksMissNothing'
  BY <1>2 DEF WalkInv, WalksMissNothing
<1> QED
  BY <1>5, <1>6, <1>7, <1>8

LEMMA WatchDeliversKeeps ==
  ASSUME IInv, WatchDelivers
  PROVE  IInv'
<1> USE DEF IInv
<1> DEFINE e == Head(stream)
<1>1. /\ stream # <<>> /\ stream' = Tail(stream) /\ stream \in Seq(Event)
      /\ indexer' = [indexer EXCEPT ![e.object.name] = e.object.version]
      /\ queue' = Append(queue, e) /\ queue \in Seq(Event)
      /\ UNCHANGED <<server, connected, cache, reader, drops>>
  BY DEF WatchDelivers, TypeOK
<1>2. /\ e = stream[1] /\ 1 \in DOMAIN stream /\ e \in Event
      /\ e.object.name \in Names /\ e.object.version \in Nat
  <2>1. e = stream[1] /\ 1 \in DOMAIN stream /\ e \in Event
    BY <1>1
  <2> QED
    BY <2>1 DEF Event, Pointer
<1>3. \A i \in DOMAIN stream' : i + 1 \in DOMAIN stream /\ stream'[i] = stream[i + 1]
  BY <1>1
<1> HIDE DEF e
<1>4. connected /\ \A m \in Names : Takes(stream, m, indexer[m], objects[m])
  BY <1>1 DEF StreamInv, TypeOK
<1>5. \A m \in Names : indexer'[m] = IF m = e.object.name THEN e.object.version ELSE indexer[m]
  BY <1>1 DEF TypeOK
<1>6. e.object.version <= changes
      /\ (objects[e.object.name] # 0 => e.object.version <= objects[e.object.name])
  BY <1>2 DEF StreamInv
<1>7. UNCHANGED <<objects, changes>>
  BY <1>1 DEF server
<1>8. TypeOK'
  <2>1. indexer' \in [Names -> 0 .. changes']
    BY <1>1, <1>2, <1>6, <1>7 DEF TypeOK
  <2>2. stream' \in Seq(Event) /\ queue' \in Seq(Event)
    BY <1>1, <1>2
  <2> QED
    BY <1>1, <1>7, <2>1, <2>2 DEF TypeOK
<1>9. ASSUME NEW m \in Names
      PROVE  /\ m = e.object.name => Fits(e, indexer[m])
             /\ Takes(stream', m, indexer'[m], objects[m])
  BY <1>1, <1>4, <1>5, TakesTail DEF e
<1>10. CacheInv'
  <2>1. queue' = queue \o <<e>> /\ <<e>> \in Seq(Event)
    BY <1>1, <1>2
  <2>2. ASSUME NEW m \in Names PROVE Takes(queue', m, HeldIn(cache, m), indexer'[m])
    <3>1. Takes(queue, m, HeldIn(cache, m), indexer[m])
      BY DEF CacheInv
    <3>2. Takes(<<e>>, m, indexer[m], indexer'[m])
      BY <1>5, <1>9, TakesSingle
    <3> QED
      BY <1>1, <2>1, <3>1, <3>2, TakesConcat
  <2> QED
    BY <1>1, <2>2 DEF CacheInv
<1>11. StreamInv'
  <2>1. \A m \in Names : Takes(stream', m, indexer'[m], objects'[m])
    BY <1>7, <1>9
  <2>2. \A i \in DOMAIN stream' :
          LET p == stream'[i].object
          IN  p.version <= changes' /\ (objects'[p.name] # 0 => p.version <= objects'[p.name])
    BY <1>3, <1>7 DEF StreamInv
  <2>3. \A m \in Names : objects'[m] # 0 => indexer'[m] <= objects'[m]
    BY <1>5, <1>6, <1>7 DEF StreamInv
  <2> QED
    BY <1>1, <1>4, <2>1, <2>2, <2>3 DEF StreamInv
<1>12. WalkInv' /\ WalksMissNothing'
  BY <1>1 DEF WalkInv, WalksMissNothing
<1> QED
  BY <1>8, <1>10, <1>11, <1>12

LEMMA WatchLostKeeps ==
  ASSUME IInv, WatchLost
  PROVE  IInv'
<1> USE DEF IInv
<1>1. /\ connected' = FALSE /\ stream' = <<>> /\ drops < MaxDrops /\ drops' = drops + 1
      /\ UNCHANGED <<objects, changes, indexer, queue, cache, reader>>
  BY DEF WatchLost, server
<1>2. TypeOK'
  <2>1. drops' \in 0 .. MaxDrops
    BY <1>1, BoundAssumption DEF TypeOK
  <2>2. <<>> \in Seq(Event)
    OBVIOUS
  <2> QED
    BY <1>1, <2>1, <2>2 DEF TypeOK
<1>3. CacheInv' /\ StreamInv'
  BY <1>1 DEF CacheInv, StreamInv
<1>4. WalkInv' /\ WalksMissNothing'
  BY <1>1 DEF WalkInv, WalksMissNothing
<1> QED
  BY <1>2, <1>3, <1>4

(* Notifications of the objects M, in any order.                           *)
LEMMA Notified ==
  ASSUME NEW M \in SUBSET Names, NEW F \in [M -> Event], \A m \in M : F[m].object.name = m,
         NEW s \in SetToSeqs({F[m] : m \in M})
  PROVE  /\ s \in Seq(Event)
         /\ \A n, a : n \notin M => Takes(s, n, a, a)
         /\ \A n \in M : \A a : Fits(F[n], a) => Takes(s, n, a, F[n].object.version)
<1> DEFINE N == {F[m] : m \in M}
<1>1. N \subseteq Event /\ (\A x \in N : x.object.name \in M /\ x = F[x.object.name])
      /\ \A m \in M : F[m] \in N
  OBVIOUS
<1>2. IsFiniteSet(N)
  <2>1. IsFiniteSet(M)
    BY NamesAssumption, FS_Subset
  <2>2. F \in Surjection(M, N)
    BY DEF Surjection
  <2> HIDE DEF N
  <2> QED
    BY <2>1, <2>2, FS_Surjection
<1> HIDE DEF N
<1>3. /\ s \in Seq(N) /\ DOMAIN s \subseteq Nat
      /\ \A i \in DOMAIN s : s[i] \in N
      /\ \A i, j \in DOMAIN s : s[i] = s[j] => i = j
      /\ \A x \in N : \E i \in DOMAIN s : s[i] = x
  BY <1>2, Listing DEF N
<1>4. ASSUME NEW n \in M, NEW a, Fits(F[n], a) PROVE Takes(s, n, a, F[n].object.version)
  <2>1. PICK i \in DOMAIN s : s[i] = F[n]
    BY <1>1, <1>3
  <2>2. About(s, n) = {i}
    <3>1. \A j \in DOMAIN s : s[j].object.name = n => j = i
      BY <1>1, <1>3, <2>1
    <3> QED
      BY <2>1, <3>1 DEF About
  <2> QED
    BY <1>3, <1>4, <2>1, <2>2, TakesOne
<1>5. ASSUME NEW n, NEW a, n \notin M PROVE Takes(s, n, a, a)
  <2>1. About(s, n) = {}
    BY <1>1, <1>3, <1>5 DEF About
  <2> QED
    BY <2>1, TakesNothing
<1>6. s \in Seq(Event)
  BY <1>1, <1>3
<1> QED
  BY <1>4, <1>5, <1>6

LEMMA RelistKeeps ==
  ASSUME IInv, Relist
  PROVE  IInv'
<1> USE DEF IInv
<1> DEFINE listed == {n \in Names : objects[n] # 0}
           gone   == {n \in Names : objects[n] = 0 /\ indexer[n] # 0}
           note  == [n \in listed |-> Difference(n, indexer[n], objects[n])]
           stone == [n \in gone |-> Notification("tombstone", n, 0)]
<1>1. /\ ~connected /\ connected' = TRUE /\ indexer' = objects
      /\ UNCHANGED <<objects, changes, stream, cache, reader, drops>>
  BY DEF Relist, server
<1>2. PICK notes \in SetToSeqs({Difference(n, indexer[n], objects[n]) : n \in listed}),
           stones \in SetToSeqs({Notification("tombstone", n, 0) : n \in gone}) :
        queue' = queue \o notes \o stones
  BY DEF Relist
<1>3. \A n \in Names : objects[n] \in Nat /\ indexer[n] \in Nat
  BY DEF TypeOK
<1>4. ASSUME NEW n \in listed
      PROVE  /\ note[n] \in Event /\ Fits(note[n], indexer[n])
             /\ note[n].object.name = n /\ note[n].object.version = objects[n]
  <2>1. /\ note[n].object = [name |-> n, version |-> objects[n]]
        /\ note[n].type = IF indexer[n] = 0 THEN "added" ELSE "updated"
        /\ note[n] = [type |-> note[n].type, object |-> note[n].object]
    BY DEF Difference, Notification
  <2>2. note[n] \in Event
    BY <1>3, <2>1 DEF Event, EventTypes, Pointer
  <2>3. indexer[n] <= objects[n]
    BY DEF StreamInv
  <2> QED
    BY <1>3, <2>1, <2>2, <2>3 DEF Fits
<1>5. ASSUME NEW n \in gone
      PROVE  /\ stone[n] \in Event /\ Fits(stone[n], indexer[n])
             /\ stone[n].object.name = n /\ stone[n].object.version = 0
  BY DEF Notification, Event, EventTypes, Pointer, Fits
<1>6. /\ {Difference(n, indexer[n], objects[n]) : n \in listed} = {note[n] : n \in listed}
      /\ {Notification("tombstone", n, 0) : n \in gone} = {stone[n] : n \in gone}
      /\ DOMAIN note = listed /\ DOMAIN stone = gone
      /\ listed \in SUBSET Names /\ gone \in SUBSET Names
  OBVIOUS
<1>7. note \in [listed -> Event] /\ stone \in [gone -> Event]
  BY <1>4, <1>5
<1> HIDE DEF note, stone
<1>8. \A n \in Names :
        /\ n \notin listed /\ n \notin gone => indexer[n] = 0 /\ objects[n] = 0
        /\ n \in listed => n \notin gone
        /\ n \in gone => objects[n] = 0
  OBVIOUS
<1> HIDE DEF listed, gone
<1>9. /\ notes \in Seq(Event)
      /\ \A n, a : n \notin listed => Takes(notes, n, a, a)
      /\ \A n \in listed : \A a : Fits(note[n], a) => Takes(notes, n, a, note[n].object.version)
  BY <1>2, <1>4, <1>6, <1>7, Notified
<1>10. /\ stones \in Seq(Event)
       /\ \A n, a : n \notin gone => Takes(stones, n, a, a)
       /\ \A n \in gone : \A a : Fits(stone[n], a) => Takes(stones, n, a, stone[n].object.version)
  BY <1>2, <1>5, <1>6, <1>7, Notified
<1>11. ASSUME NEW n \in Names
       PROVE  \E b : Takes(notes, n, indexer[n], b) /\ Takes(stones, n, b, objects[n])
  <2>1. CASE n \in listed
    <3>1. Takes(notes, n, indexer[n], objects[n]) /\ Takes(stones, n, objects[n], objects[n])
      BY <1>4, <1>8, <1>9, <1>10, <2>1
    <3> QED
      BY <3>1
  <2>2. CASE n \in gone
    <3>1. Takes(notes, n, indexer[n], indexer[n]) /\ Takes(stones, n, indexer[n], objects[n])
      BY <1>5, <1>8, <1>9, <1>10, <2>2
    <3> QED
      BY <3>1
  <2>3. CASE n \notin listed /\ n \notin gone
    <3>1. Takes(notes, n, indexer[n], indexer[n]) /\ Takes(stones, n, indexer[n], objects[n])
      BY <1>8, <1>9, <1>10, <2>3
    <3> QED
      BY <3>1
  <2> QED
    BY <2>1, <2>2, <2>3
<1>12. CacheInv'
  <2>1. ASSUME NEW n \in Names PROVE Takes(queue', n, HeldIn(cache, n), indexer'[n])
    <3>1. PICK b : Takes(notes, n, indexer[n], b) /\ Takes(stones, n, b, objects[n])
      BY <1>11
    <3>2. Takes(queue, n, HeldIn(cache, n), indexer[n]) /\ queue \in Seq(Event)
      BY DEF CacheInv, TypeOK
    <3>3. Takes(queue \o notes, n, HeldIn(cache, n), b) /\ queue \o notes \in Seq(Event)
      BY <1>9, <3>1, <3>2, TakesConcat
    <3> QED
      BY <1>1, <1>2, <1>10, <3>1, <3>3, TakesConcat
  <2> QED
    BY <1>1, <2>1 DEF CacheInv
<1>13. TypeOK'
  <2>1. queue' \in Seq(Event)
    BY <1>2, <1>9, <1>10 DEF TypeOK
  <2> QED
    BY <1>1, <2>1 DEF TypeOK
<1>14. StreamInv'
  <2>1. stream = <<>>
    BY <1>1 DEF StreamInv
  <2>2. \A n \in Names : Takes(<<>>, n, objects[n], objects[n])
    BY TakesNothing DEF About
  <2>3. \A n \in Names : objects[n] <= objects[n]
    BY <1>3
  <2> QED
    BY <1>1, <2>1, <2>2, <2>3 DEF StreamInv
<1>15. WalkInv' /\ WalksMissNothing'
  BY <1>1 DEF WalkInv, WalksMissNothing
<1> QED
  BY <1>12, <1>13, <1>14, <1>15

-----------------------------------------------------------------------------
(* The handlers. *)

(* What they share: a step of the queue that the cache makes, too.         *)
LEMMA Handled ==
  ASSUME IInv, queue # <<>>, queue' = Tail(queue), UNCHANGED indexer,
         cache' \in Seq(Pointer), Orderly(cache'),
         \A n : HeldIn(cache', n) =
                  IF n = Head(queue).object.name THEN Head(queue).object.version ELSE HeldIn(cache, n)
  PROVE  CacheInv' /\ queue' \in Seq(Event)
<1>1. queue \in Seq(Event)
  BY DEF IInv, TypeOK
<1>2. ASSUME NEW n \in Names PROVE Takes(queue', n, HeldIn(cache', n), indexer[n])
  <2>1. Takes(queue, n, HeldIn(cache, n), indexer[n])
    BY DEF IInv, CacheInv
  <2> QED
    BY <1>1, <2>1, TakesTail
<1> QED
  BY <1>1, <1>2 DEF CacheInv

(* The event at the head of the queue finds what its type says it does.    *)
LEMMA HeadFits ==
  ASSUME IInv, queue # <<>>
  PROVE  LET e == Head(queue) IN
           /\ e \in Event /\ e.object \in Pointer /\ e.object.name \in Names
           /\ Fits(e, HeldIn(cache, e.object.name))
<1>1. queue \in Seq(Event) /\ Head(queue) \in Event
  BY DEF IInv, TypeOK
<1>2. Head(queue).object \in Pointer /\ Head(queue).object.name \in Names
  BY <1>1 DEF Event, Pointer
<1>3. Takes(queue, Head(queue).object.name, HeldIn(cache, Head(queue).object.name),
            indexer[Head(queue).object.name])
  BY <1>2 DEF IInv, CacheInv
<1> QED
  BY <1>1, <1>2, <1>3, TakesTail

(* The rest of a handler's step: the walks. *)
LEMMA HandlerKeeps ==
  ASSUME IInv, NEW type, Handle(type), cache' \in Seq(Pointer), Orderly(cache'),
         \A n : HeldIn(cache', n) =
                  IF n = Head(queue).object.name THEN Head(queue).object.version ELSE HeldIn(cache, n),
         reader' \in [Readers -> Walk], WalkInv', WalksMissNothing',
         \A r \in Readers : reader'[r].next <= Len(reader'[r].slice) + 1
  PROVE  IInv'
<1>1. /\ queue # <<>> /\ queue' = Tail(queue)
      /\ UNCHANGED <<objects, changes, stream, connected, indexer, drops>>
  BY DEF Handle, server
<1>2. CacheInv' /\ queue' \in Seq(Event)
  BY <1>1, Handled
<1>3. TypeOK'
  BY <1>1, <1>2 DEF IInv, TypeOK
<1>4. StreamInv'
  BY <1>1 DEF IInv, StreamInv
<1> QED
  BY <1>2, <1>3, <1>4 DEF IInv

(* A write that leaves the slices alone: no element is read before it.     *)
LEMMA AppendKeeps ==
  ASSUME IInv, NEW type, Handle(type), AppendToCache(Head(queue).object),
         HeldIn(cache, Head(queue).object.name) = 0, Head(queue).object.version # 0
  PROVE  IInv'
<1> DEFINE p == Head(queue).object
<1>1. p \in Pointer
  BY HeadFits DEF Handle
<1> HIDE DEF p
<1>2. /\ cache' = Append(cache, p) /\ cache \in Seq(Pointer) /\ reader \in [Readers -> Walk]
      /\ \/ reader' = [r \in Readers |-> [reader[r] EXCEPT !.shares = FALSE]]
         \/ reader' = reader
  BY DEF AppendToCache, NobodyShares, IInv, TypeOK, p
<1>3. /\ cache' \in Seq(Pointer) /\ Orderly(cache')
      /\ \A n : HeldIn(cache', n) = IF n = p.name THEN p.version ELSE HeldIn(cache, n)
  BY <1>1, <1>2, Appended DEF IInv, CacheInv, p
<1>4. \A r \in Readers :
        /\ reader'[r] \in Walk /\ reader'[r].slice = reader[r].slice
        /\ reader'[r].next = reader[r].next /\ reader'[r].taken = reader[r].taken
        /\ reader'[r].shares => reader[r].shares
  BY <1>2 DEF Walk
<1>5. reader' \in [Readers -> Walk]
  BY <1>2, <1>4
<1>6. WalkInv'
  <2>1. Len(cache') = Len(cache) + 1 /\ \A i \in 1 .. Len(cache) : cache'[i] = cache[i]
    BY <1>1, <1>2
  <2>2. ASSUME NEW r \in Readers, reader'[r].shares
        PROVE  /\ Len(reader'[r].slice) <= Len(cache')
               /\ \A i \in DOMAIN reader'[r].slice :
                    /\ reader'[r].slice[i].name = cache'[i].name
                    /\ reader'[r].slice[i].version <= cache'[i].version
    <3>1. reader[r].shares /\ reader'[r].slice = reader[r].slice /\ reader[r].slice \in Seq(Pointer)
      BY <1>2, <1>4, <2>2 DEF Walk
    <3>2. Len(reader[r].slice) <= Len(cache) /\ DOMAIN reader[r].slice \subseteq 1 .. Len(cache)
      BY <1>2, <3>1 DEF IInv, WalkInv
    <3> QED
      BY <1>2, <2>1, <3>1, <3>2 DEF IInv, WalkInv
  <2> QED
    BY <2>2 DEF WalkInv
<1>7. WalksMissNothing'
  BY <1>4 DEF IInv, WalksMissNothing
<1>8. \A r \in Readers : reader'[r].next <= Len(reader'[r].slice) + 1
  BY <1>4 DEF IInv, TypeOK
<1> QED
  BY <1>3, <1>5, <1>6, <1>7, <1>8, HandlerKeeps DEF p

LEMMA WriteKeeps ==
  ASSUME IInv, NEW type, Handle(type),
         NEW w \in Positions(Head(queue).object.name), WriteInPlace(w, Head(queue).object),
         Head(queue).object.version # 0,
         HeldIn(cache, Head(queue).object.name) <= Head(queue).object.version
  PROVE  IInv'
<1> DEFINE p == Head(queue).object
<1>1. p \in Pointer
  BY HeadFits DEF Handle
<1> HIDE DEF p
<1>2. cache' = [cache EXCEPT ![w] = p] /\ cache \in Seq(Pointer) /\ reader \in [Readers -> Walk]
  BY DEF WriteInPlace, IInv, TypeOK, p
<1>3. w \in NameAt(cache, p.name) /\ w \in DOMAIN cache
  BY DEF Positions, NameAt, p
<1>4. /\ cache' \in Seq(Pointer) /\ Orderly(cache')
      /\ \A n : HeldIn(cache', n) = IF n = p.name THEN p.version ELSE HeldIn(cache, n)
  <2>1. p.version # 0 /\ Orderly(cache)
    BY DEF IInv, CacheInv, p
  <2>2. cache' \in Seq(Pointer)
    BY <1>1, <1>2, <1>3
  <2> DEFINE d == [cache EXCEPT ![w] = p]
  <2>3. /\ Orderly(d)
        /\ \A n : HeldIn(d, n) = IF n = p.name THEN p.version ELSE HeldIn(cache, n)
    BY <1>1, <1>2, <1>3, <2>1, Written
  <2>4. cache' = d
    BY <1>2
  <2> HIDE DEF d
  <2> QED
    BY <2>2, <2>3, <2>4
<1>5. /\ cache[w].name = p.name /\ cache[w].version <= p.version
      /\ cache[w].version \in Nat /\ p.version \in Nat
  <2>1. HeldIn(cache, p.name) = cache[w].version
    BY <1>3, HeldOnce DEF IInv, CacheInv
  <2>2. HeldIn(cache, p.name) <= p.version
    BY DEF p
  <2>3. cache[w] \in Pointer
    BY <1>2, <1>3
  <2> QED
    BY <1>1, <1>3, <2>1, <2>2, <2>3 DEF NameAt, Pointer
<1>6. PICK finding \in SUBSET {r \in Readers : reader[r].shares /\ w \in Unread(r)} :
        reader' = [r \in Readers |->
                     IF r \in finding THEN [reader[r] EXCEPT !.slice[w] = p] ELSE reader[r]]
  BY DEF WriteInPlace, p
<1>7. ASSUME NEW r \in Readers
      PROVE  /\ reader'[r] \in Walk /\ Len(reader'[r].slice) = Len(reader[r].slice)
             /\ reader'[r].next = reader[r].next /\ reader'[r].taken = reader[r].taken
             /\ reader'[r].shares = reader[r].shares
             /\ \A i \in DOMAIN reader'[r].slice :
                  \/ reader'[r].slice[i] = reader[r].slice[i]
                  \/ i = w /\ reader[r].shares /\ reader'[r].slice[i] = p
  <2>1. reader[r] \in Walk /\ reader[r].slice \in Seq(Pointer)
    BY <1>2 DEF Walk
  <2>2. CASE r \in finding
    <3>1. /\ reader[r].shares /\ w \in DOMAIN reader[r].slice
          /\ reader'[r] = [reader[r] EXCEPT !.slice = [reader[r].slice EXCEPT ![w] = p]]
      BY <1>6, <2>2 DEF Unread
    <3>2. [reader[r].slice EXCEPT ![w] = p] \in Seq(Pointer)
          /\ Len([reader[r].slice EXCEPT ![w] = p]) = Len(reader[r].slice)
      BY <1>1, <2>1, <3>1
    <3>3. \A i \in DOMAIN [reader[r].slice EXCEPT ![w] = p] :
            [reader[r].slice EXCEPT ![w] = p][i] = IF i = w THEN p ELSE reader[r].slice[i]
      BY <3>1
    <3> DEFINE new == [reader[r].slice EXCEPT ![w] = p]
    <3> HIDE DEF new
    <3>4. reader'[r] \in Walk /\ reader'[r].slice = new
          /\ reader'[r].next = reader[r].next /\ reader'[r].taken = reader[r].taken
          /\ reader'[r].shares = reader[r].shares
      BY <2>1, <3>1, <3>2 DEF Walk, new
    <3> QED
      BY <3>1, <3>2, <3>3, <3>4 DEF new
  <2>3. CASE r \notin finding
    BY <1>6, <2>1, <2>3
  <2> QED
    BY <2>2, <2>3
<1>8. reader' \in [Readers -> Walk]
  BY <1>6, <1>7
<1>9. ASSUME NEW r \in Readers, reader'[r].shares
      PROVE  /\ Len(reader'[r].slice) <= Len(cache')
             /\ \A i \in DOMAIN reader'[r].slice :
                  /\ reader'[r].slice[i].name = cache'[i].name
                  /\ reader'[r].slice[i].version <= cache'[i].version
  <2>1. /\ reader[r].shares /\ reader[r].slice \in Seq(Pointer) /\ reader'[r].slice \in Seq(Pointer)
        /\ Len(reader'[r].slice) = Len(reader[r].slice)
    BY <1>2, <1>7, <1>9 DEF Walk
  <2>2. /\ Len(reader[r].slice) <= Len(cache)
        /\ \A i \in DOMAIN reader[r].slice :
             /\ reader[r].slice[i].name = cache[i].name
             /\ reader[r].slice[i].version <= cache[i].version
    BY <2>1 DEF IInv, WalkInv
  <2>3. Len(cache') = Len(cache)
    BY <1>2, <1>3
  <2>4. ASSUME NEW i \in DOMAIN reader'[r].slice
        PROVE  /\ reader'[r].slice[i].name = cache'[i].name
               /\ reader'[r].slice[i].version <= cache'[i].version
    <3>1. i \in DOMAIN reader[r].slice /\ i \in DOMAIN cache /\ reader[r].slice[i] \in Pointer
      BY <1>2, <2>1, <2>2
    <3>2. cache'[i] = IF i = w THEN p ELSE cache[i]
      BY <1>2, <3>1
    <3>3. \/ reader'[r].slice[i] = reader[r].slice[i]
          \/ i = w /\ reader'[r].slice[i] = p
      BY <1>7, <2>4
    <3>4. reader[r].slice[i].version \in Nat
      BY <3>1 DEF Pointer
    <3> QED
      BY <1>5, <2>2, <3>1, <3>2, <3>3, <3>4
  <2> QED
    BY <2>1, <2>2, <2>3, <2>4
<1>10. WalkInv'
  BY <1>9 DEF WalkInv
<1>11. WalksMissNothing'
  <2> SUFFICES ASSUME NEW r \in Readers
               PROVE  /\ Len(reader'[r].slice) = Len(reader'[r].taken)
                      /\ \A i \in DOMAIN reader'[r].slice :
                           /\ reader'[r].slice[i].name = reader'[r].taken[i].name
                           /\ reader'[r].slice[i].version >= reader'[r].taken[i].version
    BY DEF WalksMissNothing
  <2>1. /\ reader[r].slice \in Seq(Pointer) /\ reader[r].taken \in Seq(Pointer)
        /\ reader'[r].slice \in Seq(Pointer)
    BY <1>2, <1>7 DEF Walk
  <2>2. /\ Len(reader[r].slice) = Len(reader[r].taken)
        /\ \A i \in DOMAIN reader[r].slice :
             /\ reader[r].slice[i].name = reader[r].taken[i].name
             /\ reader[r].slice[i].version >= reader[r].taken[i].version
    BY DEF IInv, WalksMissNothing
  <2>3. ASSUME NEW i \in DOMAIN reader'[r].slice
        PROVE  /\ reader'[r].slice[i].name = reader[r].taken[i].name
               /\ reader'[r].slice[i].version >= reader[r].taken[i].version
    <3>1. /\ i \in DOMAIN reader[r].slice
          /\ reader[r].slice[i] \in Pointer /\ reader[r].taken[i] \in Pointer
      BY <1>7, <2>1, <2>2
    <3>2. CASE reader'[r].slice[i] = reader[r].slice[i]
      BY <2>2, <3>1, <3>2
    <3>3. CASE i = w /\ reader[r].shares /\ reader'[r].slice[i] = p
      <4>1. reader[r].slice[w].name = cache[w].name /\ reader[r].slice[w].version <= cache[w].version
        BY <3>1, <3>3 DEF IInv, WalkInv
      <4>2. reader[r].slice[w].version \in Nat /\ reader[r].taken[w].version \in Nat
        BY <3>1, <3>3 DEF Pointer
      <4> QED
        BY <1>5, <2>2, <3>1, <3>3, <4>1, <4>2
    <3> QED
      BY <1>7, <3>2, <3>3
  <2> QED
    BY <1>7, <2>2, <2>3
<1>12. \A r \in Readers : reader'[r].next <= Len(reader'[r].slice) + 1
  BY <1>7 DEF IInv, TypeOK
<1> QED
  BY <1>4, <1>8, <1>10, <1>11, <1>12, HandlerKeeps DEF p

LEMMA HandleAddKeeps ==
  ASSUME IInv, HandleAdd
  PROVE  IInv'
<1>1. /\ Handle("added") /\ AppendToCache(Head(queue).object)
      /\ queue # <<>> /\ Head(queue).type = "added"
  BY DEF HandleAdd, Handle
<1>2. HeldIn(cache, Head(queue).object.name) = 0 /\ Head(queue).object.version # 0
  BY <1>1, HeadFits DEF Fits
<1> QED
  BY <1>1, <1>2, AppendKeeps

LEMMA HandleUpdateKeeps ==
  ASSUME IInv, HandleUpdate
  PROVE  IInv'
<1> DEFINE p == Head(queue).object
<1>1. /\ Handle("updated") /\ Update(p) /\ queue # <<>> /\ Head(queue).type = "updated"
  BY DEF HandleUpdate, Handle
<1>2. HeldIn(cache, p.name) # 0 /\ HeldIn(cache, p.name) <= p.version /\ p \in Pointer
  BY <1>1, HeadFits DEF Fits
<1>3. PICK w \in Positions(p.name) : TRUE
  BY <1>2 DEF HeldIn, NameAt, Positions
<1>4. \A i, j \in Positions(p.name) : i = j
  BY DEF IInv, CacheInv, Orderly, Positions
<1>5. FirstPosition(p.name) = w
  <2>1. w \in Int
    BY <1>3 DEF Positions, IInv, TypeOK
  <2> QED
    BY <1>3, <1>4, <2>1 DEF FirstPosition
<1>6. WriteInPlace(w, p)
  BY <1>1, <1>3, <1>5 DEF Update
<1>7. p.version # 0
  <2>1. HeldIn(cache, p.name) = cache[w].version /\ cache[w] \in Pointer
    BY <1>3, HeldOnce DEF IInv, TypeOK, CacheInv, NameAt, Positions
  <2> QED
    BY <1>2, <2>1 DEF Pointer
<1> QED
  BY <1>1, <1>2, <1>3, <1>6, <1>7, WriteKeeps

LEMMA HandleDeleteKeeps ==
  ASSUME IInv, HandleDelete
  PROVE  IInv'
<1> DEFINE p == Head(queue).object
<1>1. /\ Handle("deleted") /\ queue # <<>> /\ Head(queue).type = "deleted"
      /\ cache' = Without(p.name)
      /\ reader' = [r \in Readers |-> [reader[r] EXCEPT !.shares = FALSE]]
  BY DEF HandleDelete, Delete, Handle, NobodyShares
<1>2. p.version = 0
  BY <1>1, HeadFits DEF Fits
<1>3. cache \in Seq(Pointer) /\ Orderly(cache) /\ reader \in [Readers -> Walk]
  BY DEF IInv, TypeOK, CacheInv
<1>4. /\ cache' \in Seq(Pointer) /\ Orderly(cache')
      /\ \A n : HeldIn(cache', n) = IF n = p.name THEN p.version ELSE HeldIn(cache, n)
  BY <1>1, <1>2, <1>3, Filtered
<1>5. \A r \in Readers :
        /\ reader'[r] \in Walk /\ reader'[r].slice = reader[r].slice
        /\ reader'[r].next = reader[r].next /\ reader'[r].taken = reader[r].taken
        /\ ~reader'[r].shares
  BY <1>1, <1>3 DEF Walk
<1>6. reader' \in [Readers -> Walk]
  BY <1>1, <1>5
<1>7. WalkInv'
  BY <1>5 DEF WalkInv
<1>8. WalksMissNothing'
  BY <1>5 DEF IInv, WalksMissNothing
<1>9. \A r \in Readers : reader'[r].next <= Len(reader'[r].slice) + 1
  BY <1>5 DEF IInv, TypeOK
<1> QED
  BY <1>1, <1>4, <1>6, <1>7, <1>8, <1>9, HandlerKeeps

-----------------------------------------------------------------------------
(* The process ends. *)

LEMMA ProcessEndsKeeps ==
  ASSUME IInv, ProcessEnds, drops' \in 0 .. MaxDrops
  PROVE  IInv'
<1>1. /\ connected' = FALSE /\ stream' = <<>> /\ indexer' = NoObjects /\ queue' = <<>>
      /\ cache' = <<>> /\ reader' = [r \in Readers |-> NoWalk]
      /\ UNCHANGED <<objects, changes>>
  BY DEF ProcessEnds, server
<1>2. <<>> \in Seq(Event) /\ <<>> \in Seq(Pointer)
  OBVIOUS
<1>3. NoWalk \in Walk /\ NoWalk.next <= Len(NoWalk.slice) + 1
  BY <1>2 DEF NoWalk, Walk
<1>4. NoObjects \in [Names -> 0 .. changes] /\ changes \in Nat
  BY BoundAssumption DEF NoObjects, IInv, TypeOK
<1>5. TypeOK'
  BY <1>1, <1>2, <1>3, <1>4 DEF IInv, TypeOK
<1>6. CacheInv'
  BY <1>1, TakesNothing DEF CacheInv, Orderly, HeldIn, NameAt, About, NoObjects
<1>7. StreamInv'
  BY <1>1, <1>4 DEF StreamInv, NoObjects, IInv, TypeOK
<1>8. WalkInv' /\ WalksMissNothing'
  BY <1>1 DEF WalkInv, WalksMissNothing, NoWalk
<1> QED
  BY <1>5, <1>6, <1>7, <1>8 DEF IInv

LEMMA HandleTombstoneKeeps ==
  ASSUME IInv, HandleTombstone
  PROVE  IInv'
BY ProcessEndsKeeps DEF HandleTombstone, IInv, TypeOK

LEMMA RestartKeeps ==
  ASSUME IInv, Restart
  PROVE  IInv'
<1>1. drops' \in 0 .. MaxDrops
  BY BoundAssumption DEF Restart, IInv, TypeOK
<1> QED
  BY <1>1, ProcessEndsKeeps DEF Restart

-----------------------------------------------------------------------------
(* Logins. *)

LEMMA GetBindingsKeeps ==
  ASSUME IInv, NEW r \in Readers, GetBindings(r)
  PROVE  IInv'
<1> DEFINE w == [slice |-> cache, next |-> 1, shares |-> TRUE, taken |-> cache]
<1>1. /\ reader' = [reader EXCEPT ![r] = w] /\ cache \in Seq(Pointer)
      /\ reader \in [Readers -> Walk]
      /\ UNCHANGED <<objects, changes, stream, connected, indexer, queue, cache, drops>>
  BY DEF GetBindings, server, informer, IInv, TypeOK
<1>2. w \in Walk /\ w.next <= Len(w.slice) + 1
  BY <1>1 DEF Walk
<1>3. TypeOK'
  BY <1>1, <1>2 DEF IInv, TypeOK
<1>4. CacheInv' /\ StreamInv'
  BY <1>1 DEF IInv, CacheInv, StreamInv
<1>5. \A i \in DOMAIN cache : cache[i].version \in Nat
  <2>1. \A i \in DOMAIN cache : cache[i] \in Pointer
    BY <1>1
  <2> QED
    BY <2>1 DEF Pointer
<1>6. \A q \in Readers : reader'[q] = IF q = r THEN w ELSE reader[q]
  BY <1>1
<1>7. WalkInv'
  <2>1. Len(cache) <= Len(cache) /\ \A i \in DOMAIN cache : cache[i].version <= cache[i].version
    BY <1>1, <1>5
  <2> QED
    BY <1>1, <1>6, <2>1 DEF IInv, WalkInv
<1>8. WalksMissNothing'
  <2>1. \A i \in DOMAIN cache : cache[i].version >= cache[i].version
    BY <1>5
  <2> QED
    BY <1>1, <1>6, <2>1 DEF IInv, WalksMissNothing
<1> QED
  BY <1>3, <1>4, <1>7, <1>8 DEF IInv

LEMMA ReadNextKeeps ==
  ASSUME IInv, NEW r \in Readers, ReadNext(r)
  PROVE  IInv'
<1>1. /\ reader[r].next \in 1 .. Len(reader[r].slice)
      /\ reader' = [reader EXCEPT ![r].next = reader[r].next + 1]
      /\ reader \in [Readers -> Walk]
      /\ UNCHANGED <<objects, changes, stream, connected, indexer, queue, cache, drops>>
  BY DEF ReadNext, server, informer, IInv, TypeOK
<1>2. \A q \in Readers :
        /\ reader[q] \in Walk /\ reader'[q] \in Walk
        /\ reader'[q].slice = reader[q].slice /\ reader'[q].shares = reader[q].shares
        /\ reader'[q].taken = reader[q].taken
        /\ reader'[q].next = IF q = r THEN reader[q].next + 1 ELSE reader[q].next
  <2>1. ASSUME NEW x \in Walk
        PROVE  LET y == [x EXCEPT !.next = x.next + 1]
               IN  /\ y \in Walk /\ y.slice = x.slice /\ y.shares = x.shares
                   /\ y.taken = x.taken /\ y.next = x.next + 1
    BY DEF Walk
  <2>2. \A q \in Readers :
          reader'[q] = IF q = r THEN [reader[q] EXCEPT !.next = reader[q].next + 1] ELSE reader[q]
    BY <1>1
  <2>3. \A q \in Readers : reader[q] \in Walk
    BY <1>1
  <2> QED
    BY <2>1, <2>2, <2>3
<1>3. \A q \in Readers : reader'[q].next <= Len(reader'[q].slice) + 1
  <2>1. Len(reader[r].slice) \in Nat
    BY <1>2 DEF Walk
  <2> QED
    BY <1>1, <1>2, <2>1 DEF IInv, TypeOK
<1>4. TypeOK'
  <2>1. reader' \in [Readers -> Walk]
    BY <1>1, <1>2
  <2> QED
    BY <1>1, <1>3, <2>1 DEF IInv, TypeOK
<1>5. CacheInv' /\ StreamInv'
  BY <1>1 DEF IInv, CacheInv, StreamInv
<1>6. WalkInv' /\ WalksMissNothing'
  BY <1>1, <1>2 DEF IInv, WalkInv, WalksMissNothing
<1> QED
  BY <1>4, <1>5, <1>6 DEF IInv

LEMMA EndWalkKeeps ==
  ASSUME IInv, NEW r \in Readers, EndWalk(r)
  PROVE  IInv'
<1>1. /\ reader' = [reader EXCEPT ![r] = NoWalk] /\ reader \in [Readers -> Walk]
      /\ UNCHANGED <<objects, changes, stream, connected, indexer, queue, cache, drops>>
  BY DEF EndWalk, server, informer, IInv, TypeOK
<1>2. NoWalk \in Walk /\ NoWalk.next <= Len(NoWalk.slice) + 1
  <2>1. <<>> \in Seq(Pointer)
    OBVIOUS
  <2> QED
    BY <2>1 DEF NoWalk, Walk
<1>3. TypeOK'
  BY <1>1, <1>2 DEF IInv, TypeOK
<1>4. CacheInv' /\ StreamInv'
  BY <1>1 DEF IInv, CacheInv, StreamInv
<1>5. WalkInv' /\ WalksMissNothing'
  BY <1>1 DEF IInv, WalkInv, WalksMissNothing, NoWalk
<1> QED
  BY <1>3, <1>4, <1>5 DEF IInv

-----------------------------------------------------------------------------
(* The theorems. *)

LEMMA NextKeeps == IInv /\ [Next]_vars => IInv'
<1> SUFFICES ASSUME IInv, [Next]_vars PROVE IInv'
  OBVIOUS
<1>1. ASSUME NEW n \in Names, ObjectChanges(n) PROVE IInv'
  BY <1>1, ObjectChangesKeeps
<1>2. CASE WatchDelivers
  BY <1>2, WatchDeliversKeeps
<1>3. CASE WatchLost
  BY <1>3, WatchLostKeeps
<1>4. CASE Relist
  BY <1>4, RelistKeeps
<1>5. CASE HandleAdd
  BY <1>5, HandleAddKeeps
<1>6. CASE HandleUpdate
  BY <1>6, HandleUpdateKeeps
<1>7. CASE HandleDelete
  BY <1>7, HandleDeleteKeeps
<1>8. CASE HandleTombstone
  BY <1>8, HandleTombstoneKeeps
<1>9. CASE Restart
  BY <1>9, RestartKeeps
<1>10. ASSUME NEW r \in Readers, GetBindings(r) PROVE IInv'
  BY <1>10, GetBindingsKeeps
<1>11. ASSUME NEW r \in Readers, ReadNext(r) PROVE IInv'
  BY <1>11, ReadNextKeeps
<1>12. ASSUME NEW r \in Readers, EndWalk(r) PROVE IInv'
  BY <1>12, EndWalkKeeps
<1>13. CASE UNCHANGED vars
  BY <1>13 DEF vars, server, informer, IInv, TypeOK, CacheInv, StreamInv, WalkInv, WalksMissNothing
<1> QED
  BY <1>1, <1>2, <1>3, <1>4, <1>5, <1>6, <1>7, <1>8, <1>9, <1>10, <1>11, <1>12, <1>13
     DEF Next, HandleNext

(* For one name, a queue that holds nothing of it has nothing to bring.    *)
LEMMA IInvMirrors == IInv => CacheMirrors
<1> SUFFICES ASSUME IInv, NEW n \in Names
             PROVE  /\ Queued(n) = {} =>
                         Cached(n) = {indexer[n]} \ {0} /\ \A i, j \in Positions(n) : i = j
                    /\ \A last \in Queued(n) : (\A i \in Queued(n) : i <= last) =>
                         queue[last].object.version = indexer[n]
  BY DEF CacheMirrors
<1>1. Queued(n) = About(queue, n) /\ Positions(n) = NameAt(cache, n)
  BY DEF Queued, About, Positions, NameAt
<1>2. Takes(queue, n, HeldIn(cache, n), indexer[n]) /\ Orderly(cache)
  BY DEF IInv, CacheInv
<1>3. \A i, j \in Positions(n) : i = j
  BY <1>2 DEF Orderly, Positions
<1>4. ASSUME Queued(n) = {} PROVE Cached(n) = {indexer[n]} \ {0}
  <2>1. HeldIn(cache, n) = indexer[n]
    BY <1>1, <1>2, <1>4 DEF Takes
  <2>2. CASE Positions(n) = {}
    BY <1>1, <2>1, <2>2 DEF Cached, HeldIn
  <2>3. ASSUME NEW i \in Positions(n) PROVE Cached(n) = {indexer[n]} \ {0}
    <3>1. cache[i].version = indexer[n] /\ indexer[n] # 0
      BY <1>1, <1>2, <2>1, HeldOnce
    <3>2. Positions(n) = {i}
      BY <1>3
    <3> QED
      BY <3>1, <3>2 DEF Cached
  <2> QED
    BY <2>2, <2>3
<1> QED
  BY <1>1, <1>2, <1>3, <1>4 DEF Takes

-----------------------------------------------------------------------------
(* Programs that have the service as a part: what their logins come upon.  *)

(* What is cached, and what is to be, are versions there have been.        *)
VersionsInv ==
  /\ \A p \in ToSet(cache) : p.version <= changes
  /\ \A e \in ToSet(queue) : e.object.version <= changes

(* The handlers' writes: the cache gains nothing but the event's object; a *)
(* walk under way finds nothing that is not cached or was there before,    *)
(* and misses nothing that stays cached.                                   *)
LEMMA HandlersWrite ==
  ASSUME IInv, HandleAdd \/ HandleUpdate \/ HandleDelete
  PROVE  /\ queue # <<>> /\ queue' = Tail(queue) /\ UNCHANGED changes
         /\ ToSet(cache') \subseteq ToSet(cache) \cup {Head(queue).object}
         /\ \A r \in Readers :
              /\ reader'[r].next = reader[r].next
              /\ ToSet(reader'[r].slice) \subseteq ToSet(reader[r].slice) \cup ToSet(cache')
              /\ ToSet(reader[r].slice) \cap ToSet(cache) \cap ToSet(cache')
                   \subseteq ToSet(reader'[r].slice)
<1> DEFINE p == Head(queue).object
<1>1. queue # <<>> /\ queue' = Tail(queue) /\ UNCHANGED changes
  BY DEF HandleAdd, HandleUpdate, HandleDelete, Handle, server
<1>2. cache \in Seq(Pointer) /\ Orderly(cache) /\ reader \in [Readers -> Walk] /\ p \in Pointer
  BY <1>1, HeadFits DEF IInv, TypeOK, CacheInv
<1> HIDE DEF p
<1>3. CASE cache' = Without(p.name) /\ NobodyShares
  <2>1. ToSet(cache') \subseteq ToSet(cache)
    BY <1>2, <1>3, WithoutKeeps DEF ToSet
  <2>2. \A r \in Readers : reader'[r].next = reader[r].next /\ reader'[r].slice = reader[r].slice
    BY <1>2, <1>3 DEF NobodyShares, Walk
  <2> QED
    BY <1>1, <2>1, <2>2 DEF p
<1>4. CASE AppendToCache(p)
  <2>1. /\ cache' = Append(cache, p) /\ DOMAIN cache' = 1 .. Len(cache) + 1
        /\ \A i \in DOMAIN cache' : cache'[i] = IF i \in DOMAIN cache THEN cache[i] ELSE p
    BY <1>2, <1>4 DEF AppendToCache
  <2>2. ToSet(cache') \subseteq ToSet(cache) \cup {p}
    BY <2>1 DEF ToSet
  <2>3. \A r \in Readers : reader'[r].next = reader[r].next /\ reader'[r].slice = reader[r].slice
    BY <1>2, <1>4 DEF AppendToCache, NobodyShares, Walk
  <2> QED
    BY <1>1, <2>2, <2>3 DEF p
<1>5. ASSUME NEW w \in Positions(p.name), WriteInPlace(w, p)
      PROVE  /\ ToSet(cache') \subseteq ToSet(cache) \cup {p}
             /\ \A r \in Readers :
                  /\ reader'[r].next = reader[r].next
                  /\ ToSet(reader'[r].slice) \subseteq ToSet(reader[r].slice) \cup ToSet(cache')
                  /\ ToSet(reader[r].slice) \cap ToSet(cache) \cap ToSet(cache')
                       \subseteq ToSet(reader'[r].slice)
  <2>1. /\ w \in DOMAIN cache /\ DOMAIN cache' = DOMAIN cache /\ cache'[w] = p
        /\ \A i \in DOMAIN cache : i # w => cache'[i] = cache[i]
    BY <1>2, <1>5 DEF WriteInPlace, Positions
  <2>2. ToSet(cache') \subseteq ToSet(cache) \cup {p} /\ p \in ToSet(cache')
    BY <2>1 DEF ToSet
  <2>3. PICK finding \in SUBSET {r \in Readers : reader[r].shares /\ w \in Unread(r)} :
          reader' = [r \in Readers |->
                       IF r \in finding THEN [reader[r] EXCEPT !.slice[w] = p] ELSE reader[r]]
    BY <1>5 DEF WriteInPlace
  <2>4. ASSUME NEW r \in finding
        PROVE  /\ reader'[r].next = reader[r].next
               /\ reader'[r].slice = [reader[r].slice EXCEPT ![w] = p]
               /\ reader[r].shares /\ w \in DOMAIN reader[r].slice
    BY <1>2, <2>3 DEF Unread, Walk
  <2>5. ASSUME NEW r \in finding
        PROVE  /\ ToSet(reader'[r].slice) \subseteq ToSet(reader[r].slice) \cup ToSet(cache')
               /\ ToSet(reader[r].slice) \cap ToSet(cache) \cap ToSet(cache')
                    \subseteq ToSet(reader'[r].slice)
    <3> DEFINE s == reader[r].slice
               new == reader'[r].slice
    <3>1. /\ DOMAIN new = DOMAIN s /\ new[w] = p /\ w \in DOMAIN s
          /\ \A i \in DOMAIN s : i # w => new[i] = s[i]
      BY <2>4
    <3>2. s[w].name = cache[w].name
      BY <2>4 DEF IInv, WalkInv
    <3> HIDE DEF s, new
    <3>3. ToSet(new) \subseteq ToSet(s) \cup ToSet(cache')
      BY <2>2, <3>1 DEF ToSet
    <3>4. ASSUME NEW i \in DOMAIN s, s[i] \in ToSet(cache), s[i] \in ToSet(cache')
          PROVE  s[i] \in ToSet(new)
      <4>1. CASE i # w
        BY <3>1, <4>1 DEF ToSet
      <4>2. CASE i = w
        <5>1. cache[w] = s[w]
          BY <1>2, <2>1, <3>2, <3>4, <4>2 DEF ToSet, Orderly
        <5>2. PICK m \in DOMAIN cache' : cache'[m] = s[w]
          BY <3>4, <4>2 DEF ToSet
        <5>3. s[w] = p
          BY <1>2, <2>1, <5>1, <5>2 DEF Orderly
        <5> QED
          BY <3>1, <4>2, <5>3 DEF ToSet
      <4> QED
        BY <4>1, <4>2
    <3>5. ToSet(s) \cap ToSet(cache) \cap ToSet(cache') \subseteq ToSet(new)
      BY <3>4 DEF ToSet
    <3> QED
      BY <3>3, <3>5 DEF s, new
  <2>6. \A r \in Readers \ finding : reader'[r] = reader[r]
    BY <2>3
  <2> QED
    BY <2>2, <2>4, <2>5, <2>6
<1>6. \/ cache' = Without(p.name) /\ NobodyShares
      \/ AppendToCache(p)
      \/ \E w \in Positions(p.name) : WriteInPlace(w, p)
  <2>1. CASE HandleUpdate /\ Positions(p.name) # {}
    <3>1. \A i \in Positions(p.name) : i \in Int /\ \A j \in Positions(p.name) : i = j
      BY <1>2 DEF Positions, Orderly
    <3>2. FirstPosition(p.name) \in Positions(p.name)
      BY <2>1, <3>1 DEF FirstPosition
    <3> QED
      BY <2>1, <3>2 DEF HandleUpdate, Update, p
  <2> QED
    BY <2>1 DEF HandleAdd, HandleUpdate, Update, HandleDelete, Delete, p
<1> QED
  BY <1>1, <1>3, <1>4, <1>5, <1>6 DEF p

LEMMA NotedNames ==
  ASSUME NEW M \in SUBSET Names, NEW F \in [M -> Event]
  PROVE  IsFiniteSet({F[m] : m \in M})
<1> DEFINE N == {F[m] : m \in M}
<1>1. IsFiniteSet(M)
  BY NamesAssumption, FS_Subset
<1>2. F \in Surjection(M, N)
  BY DEF Surjection
<1> HIDE DEF N
<1>3. IsFiniteSet(N)
  BY <1>1, <1>2, FS_Surjection
<1> QED
  BY <1>3 DEF N

LEMMA InitVersions == Init => VersionsInv
BY DEF Init, VersionsInv, ToSet

LEMMA NextVersions == IInv /\ VersionsInv /\ [Next]_vars => VersionsInv'
<1> SUFFICES ASSUME IInv, VersionsInv, [Next]_vars PROVE VersionsInv'
  OBVIOUS
<1>0. /\ changes \in Nat /\ queue \in Seq(Event) /\ stream \in Seq(Event) /\ cache \in Seq(Pointer)
      /\ objects \in [Names -> 0 .. changes]
      /\ \A p \in ToSet(cache) : p \in Pointer
      /\ \A e \in ToSet(queue) : e.object \in Pointer
  <2>1. /\ changes \in Nat /\ queue \in Seq(Event) /\ stream \in Seq(Event) /\ cache \in Seq(Pointer)
        /\ objects \in [Names -> 0 .. changes]
    BY BoundAssumption DEF IInv, TypeOK
  <2>2. /\ \A i \in DOMAIN cache : cache[i] \in Pointer
        /\ \A i \in DOMAIN queue : queue[i] \in Event
    BY <2>1
  <2>3. \A e \in Event : e.object \in Pointer
    BY DEF Event
  <2> QED
    BY <2>1, <2>2, <2>3 DEF ToSet
<1>1. CASE UNCHANGED <<changes, queue, cache>>
  BY <1>1 DEF VersionsInv
<1>2. ASSUME NEW n \in Names, ObjectChanges(n) PROVE VersionsInv'
  <2>1. changes' = changes + 1 /\ UNCHANGED <<queue, cache>>
    BY <1>2 DEF ObjectChanges
  <2> QED
    BY <1>0, <2>1 DEF VersionsInv, Pointer
<1>3. CASE WatchDelivers
  <2>1. /\ stream # <<>> /\ queue' = Append(queue, Head(stream)) /\ UNCHANGED <<changes, cache>>
    BY <1>3 DEF WatchDelivers, server
  <2>2. Head(stream).object.version <= changes
    BY <1>0, <2>1 DEF IInv, StreamInv
  <2>3. ToSet(queue') = ToSet(queue) \cup {Head(stream)}
    <3>1. /\ DOMAIN queue' = DOMAIN queue \cup {Len(queue) + 1} /\ queue'[Len(queue) + 1] = Head(stream)
          /\ \A i \in DOMAIN queue : queue'[i] = queue[i]
      BY <1>0, <2>1
    <3> QED
      BY <3>1 DEF ToSet
  <2> QED
    BY <2>1, <2>2, <2>3 DEF VersionsInv
<1>4. CASE Relist
  <2> DEFINE listed == {n \in Names : objects[n] # 0}
             gone   == {n \in Names : objects[n] = 0 /\ indexer[n] # 0}
             Listed == {Difference(n, indexer[n], objects[n]) : n \in listed}
             Gone   == {Notification("tombstone", n, 0) : n \in gone}
             note   == [n \in listed |-> Difference(n, indexer[n], objects[n])]
             stone  == [n \in gone |-> Notification("tombstone", n, 0)]
  <2>1. UNCHANGED <<changes, cache>>
    BY <1>4 DEF Relist, server
  <2>2. PICK notes \in SetToSeqs(Listed), stones \in SetToSeqs(Gone) : queue' = queue \o notes \o stones
    BY <1>4 DEF Relist
  <2>3. \A e \in Listed \cup Gone : e.object.version <= changes
    BY <1>0 DEF Difference, Notification
  <2>4. note \in [listed -> Event] /\ stone \in [gone -> Event]
    BY <1>0 DEF Difference, Notification, Event, EventTypes, Pointer
  <2>5. /\ Listed = {note[n] : n \in listed} /\ Gone = {stone[n] : n \in gone}
        /\ listed \in SUBSET Names /\ gone \in SUBSET Names
    OBVIOUS
  <2> HIDE DEF listed, gone, note, stone, Listed, Gone
  <2>6. IsFiniteSet(Listed) /\ IsFiniteSet(Gone)
    BY <2>4, <2>5, NotedNames
  <2>7. /\ \A i \in DOMAIN notes : notes[i] \in Listed
        /\ \A i \in DOMAIN stones : stones[i] \in Gone
        /\ notes \in Seq(Listed) /\ stones \in Seq(Gone)
    BY <2>2, <2>6, Listing
  <2>8. ToSet(queue') \subseteq ToSet(queue) \cup Listed \cup Gone
    <3>1. /\ DOMAIN queue' = 1 .. Len(queue) + Len(notes) + Len(stones)
          /\ \A i \in DOMAIN queue' : queue'[i] \in ToSet(queue) \cup Listed \cup Gone
      BY <1>0, <2>2, <2>7 DEF ToSet
    <3> QED
      BY <3>1 DEF ToSet
  <2> QED
    BY <2>1, <2>3, <2>8 DEF VersionsInv
<1>5. CASE HandleAdd \/ HandleUpdate \/ HandleDelete
  <2>1. /\ queue # <<>> /\ queue' = Tail(queue) /\ UNCHANGED changes
        /\ ToSet(cache') \subseteq ToSet(cache) \cup {Head(queue).object}
    BY <1>5, HandlersWrite
  <2>2. Head(queue) \in ToSet(queue) /\ ToSet(queue') \subseteq ToSet(queue)
    BY <1>0, <2>1 DEF ToSet
  <2> QED
    BY <2>1, <2>2 DEF VersionsInv
<1>6. CASE HandleTombstone \/ Restart
  BY <1>6 DEF HandleTombstone, Restart, ProcessEnds, VersionsInv, ToSet
<1>7. CASE WatchLost \/ UNCHANGED vars
  BY <1>1, <1>7 DEF WatchLost, vars, server, informer
<1>8. CASE \E r \in Readers : GetBindings(r) \/ ReadNext(r) \/ EndWalk(r)
  BY <1>1, <1>8 DEF GetBindings, ReadNext, EndWalk, server, informer
<1> QED
  BY <1>2, <1>3, <1>4, <1>5, <1>6, <1>7, <1>8 DEF Next, HandleNext

LEMMA Inductive == Spec => []IInv
<1>1. Init => IInv
  BY InitIInv
<1>2. IInv /\ [Next]_vars => IInv'
  BY NextKeeps
<1> QED
  BY <1>1, <1>2, PTL DEF Spec

(* Every variable of the service and of its informer has its type.         *)
THEOREM TypeCorrect == Spec => []TypeOK
<1>1. IInv => TypeOK
  BY DEF IInv
<1> QED
  BY <1>1, Inductive, PTL

(* Whatever is added, updated, deleted, relisted or lost, for each binding *)
(* the events that onAdd, onUpdate and onDelete have still to handle lead  *)
(* from what svc.cache holds to what the informer has stored.              *)
THEOREM Mirrors == Spec => []CacheMirrors
<1> QED
  BY Inductive, IInvMirrors, PTL

(* A login that walks the slice of GetBindings while the handlers write in *)
(* its array misses no binding of it and reads none that is older.         *)
THEOREM NothingMissed == Spec => []WalksMissNothing
<1>1. IInv => WalksMissNothing
  BY DEF IInv
<1> QED
  BY <1>1, Inductive, PTL

=============================================================================
