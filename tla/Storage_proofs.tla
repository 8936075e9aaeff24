---------------------------- MODULE Storage_proofs ----------------------------
(***************************************************************************)
(* Where reads and writes land, in the two stores of a replay.  For every  *)
(* width, cache size and tap count: slices of the cache are checked        *)
(* exactly, and the taps of an item are accepted, inside the cache and     *)
(* dispersed.  For every number of units and lanes and every content:      *)
(* LaneScratch implements ScratchArray, so the map of a lazy scratch is    *)
(* unobservable.                                                           *)
(***************************************************************************)
EXTENDS CacheLayout, LaneScratch, TLAPS

-----------------------------------------------------------------------------
(* The epoch cache. *)

\* Division leaves a remainder below the divisor.
LEMMA DivMod ==
  ASSUME NEW n \in Nat, NEW d \in Nat \ {0}
  PROVE  /\ n \div d \in Nat /\ n % d \in 0 .. d - 1
         /\ n = d * (n \div d) + (n % d)
  OBVIOUS

\* One more factor of s adds s.
LEMMA OneMore == \A j, s \in Nat : (j + 1) * s = j * s + s
  OBVIOUS

\* A product grows with its first factor.
LEMMA Grows == ASSUME NEW a \in Nat, NEW b \in Nat, NEW s \in Nat, a <= b PROVE a * s <= b * s
  OBVIOUS

\* A cache is a whole number of words, and a stripe holds at least one of them;
\* the stripes of all taps fit into the cache.
LEMMA Geometry ==
  ASSUME NEW p \in Profiles
  PROVE  /\ Words(p) \in Nat \ {0} /\ Span(p) \in Nat \ {0}
         /\ CacheBytes[p] = Words(p) * WordBytes
         /\ GetItemTaps * Span(p) <= Words(p)
<1>1. /\ GetItemTaps \in Nat \ {0} /\ CacheBytes[p] \in Nat
      /\ CacheBytes[p] % 8 = 0 /\ CacheBytes[p] >= 8 * GetItemTaps
  BY LayoutAssumption DEF LayoutAssumption, WordBytes
<1> DEFINE c == CacheBytes[p]  n == GetItemTaps  w == c \div 8  s == w \div n
<1>2. w \in Nat /\ c = 8 * w /\ w >= n
  BY <1>1
<1>3. s \in Nat /\ w % n \in 0 .. n - 1 /\ w = n * s + (w % n)
  BY <1>1, <1>2, DivMod
<1>4. n * s <= w
  <2> HIDE DEF w, s, n
  <2>1. n \in Nat \ {0} /\ n * s \in Nat
    BY <1>1, <1>3 DEF n
  <2> QED BY <2>1, <1>2, <1>3
<1>5. s # 0
  <2>1. n * 0 = 0
    BY <1>1
  <2> HIDE DEF w, s
  <2> QED BY <2>1, <1>1, <1>2, <1>3
<1>6. Words(p) = w /\ Span(p) = s
  BY DEF Words, Span, WordBytes
<1> HIDE DEF w, s
<1>7. w # 0 /\ c = w * 8
  BY <1>1, <1>2
<1> QED BY <1>2, <1>3, <1>4, <1>5, <1>6, <1>7 DEF WordBytes

\* Tap number j reads in stripe j, a stripe of the cache of its own.
LEMMA TapPlace ==
  ASSUME NEW p \in Profiles, NEW j \in 0 .. GetItemTaps - 1, NEW u \in Nat
  PROVE  /\ TapIndex(p, j, u) \in 0 .. Words(p) - 1
         /\ j * Span(p) <= TapIndex(p, j, u)
         /\ TapIndex(p, j, u) < (j + 1) * Span(p)
<1> DEFINE w == Words(p)  s == Span(p)  r == u % s  b == j * s
<1>1. w \in Nat \ {0} /\ s \in Nat \ {0} /\ GetItemTaps * s <= w
  BY Geometry
<1>2. GetItemTaps \in Nat \ {0} /\ j \in Nat /\ j + 1 \in Nat /\ j + 1 <= GetItemTaps
  BY LayoutAssumption DEF LayoutAssumption
<1>3. r \in 0 .. s - 1
  BY <1>1, DivMod
<1>4. (j + 1) * s <= GetItemTaps * s
  BY <1>1, <1>2, Grows
<1>5. b \in Nat /\ (j + 1) * s = b + s /\ GetItemTaps * s \in Nat
  BY <1>1, <1>2, OneMore
<1>6. b + r \in Nat /\ b + r < w /\ b < w
  <2> HIDE DEF w, s, r, b
  <2> QED BY <1>1, <1>3, <1>4, <1>5
<1>7. b % w = b /\ (b + r) % w = b + r
  <2> HIDE DEF w, s, r, b
  <2>1. b \in Nat /\ r \in Nat
    BY <1>1, <1>3, <1>5
  <2> QED BY <2>1, <1>1, <1>6
<1>8. TapIndex(p, j, u) = b + r
  BY <1>7 DEF TapIndex
<1> HIDE DEF w, s, r, b
<1>9. b <= b + r /\ b + r < b + s /\ b + r \in 0 .. w - 1
  BY <1>1, <1>3, <1>5, <1>6
<1> QED BY <1>5, <1>8, <1>9 DEF w, s, b

\* A word index of the cache passes the guard of epoch_cache_word unchanged.
LEMMA WordPlace ==
  ASSUME NEW p \in Profiles, NEW i \in 0 .. Words(p) - 1
  PROVE  ~WordRejected(p, i) /\ WordOffset(i) = i * 8 /\ i * 8 + 8 <= CacheBytes[p]
<1>1. /\ CacheBytes[p] \in Nat /\ CacheBytes[p] % 8 = 0 /\ CacheBytes[p] + 8 <= Modulus
      /\ Modulus \in Nat /\ Modulus % 8 = 0
  BY LayoutAssumption DEF LayoutAssumption, WordBytes
<1>2. Words(p) \in Nat /\ CacheBytes[p] = Words(p) * 8
  BY Geometry DEF WordBytes
<1>3. i \in Nat /\ i * 8 + 8 <= CacheBytes[p]
  BY <1>2
<1>4. i < Modulus \div 8 /\ Modulus \div 8 \in Nat
  BY <1>1, <1>3
<1>5. i % (Modulus \div 8) = i
  <2> DEFINE q == Modulus \div 8
  <2> HIDE DEF q
  <2>1. q \in Nat /\ i < q
    BY <1>4 DEF q
  <2>2. i % q = i
    BY <1>3, <2>1
  <2> QED BY <2>2 DEF q
<1>6. (i * 8 + 8) % Modulus = i * 8 + 8
  <2> DEFINE e == i * 8 + 8
  <2>1. e \in Nat /\ e < Modulus
    BY <1>1, <1>3
  <2> HIDE DEF e
  <2>2. e % Modulus = e
    BY <2>1, <1>1
  <2> QED BY <2>2 DEF e
<1> QED BY <1>1, <1>3, <1>5, <1>6 DEF WordRejected, WordOffset, WordBytes

LEMMA UintsAreNat == Uints \subseteq Nat
  BY LayoutAssumption DEF LayoutAssumption

\* What the last read looks like: a slice checked, a tap in place.
ReadInv ==
  /\ read.op = "slice" => \E offset, length \in Uints :
       /\ read.ok = ~SliceRejected(profile, offset, length)
       /\ read.hi = offset + length
  /\ read.op = "tap" => \E i \in 0 .. Words(profile) - 1 :
       /\ read.ok = ~WordRejected(profile, i)
       /\ read.hi = WordOffset(i) + WordBytes

\* The last tap lies below the stripe of the next one.
TapInv == tap > 0 => last < tap * Span(profile)

LayoutInv == LayoutTypeOK /\ ReadInv /\ TapInv

LEMMA OffsetNat ==
  ASSUME NEW p \in Profiles, NEW i \in Nat
  PROVE  WordOffset(i) \in Nat
<1> DEFINE q == Modulus \div 8
<1>1. q \in Nat \ {0}
  BY LayoutAssumption DEF LayoutAssumption, WordBytes
<1> HIDE DEF q
<1>2. i % q \in Nat
  BY <1>1, DivMod
<1>3. WordOffset(i) = (i % q) * 8
  BY DEF WordOffset, WordBytes, q
<1> QED BY <1>2, <1>3

\* The invariant holds, and each tap lies beyond the one before it.
LEMMA LayoutInductive ==
  /\ LayoutInit => LayoutInv
  /\ LayoutInv /\ [LayoutNext]_layoutVars => LayoutInv' /\ (tap > 0 /\ tap' = tap + 1 => last < last')
<1> USE DEF LayoutInv
<1>0. GetItemTaps \in Nat \ {0}
  BY LayoutAssumption DEF LayoutAssumption
<1>1. LayoutInit => LayoutInv
  <2> SUFFICES ASSUME LayoutInit PROVE LayoutInv
    OBVIOUS
  <2>1. Words(profile) \in Nat \ {0}
    BY Geometry DEF LayoutInit
  <2>2. LayoutTypeOK
    BY <2>1, <1>0 DEF LayoutInit, LayoutTypeOK
  <2> QED BY <2>2 DEF LayoutInit, ReadInv, TapInv
<1>2. ASSUME LayoutInv, [LayoutNext]_layoutVars
      PROVE  LayoutInv' /\ (tap > 0 /\ tap' = tap + 1 => last < last')
  <2> USE <1>2
  <2>0. profile \in Profiles /\ tap \in 0 .. GetItemTaps /\ last \in 0 .. Words(profile) - 1
    BY DEF LayoutTypeOK
  <2>1. CASE Slice
    <3>1. PICK offset, length \in Uints :
            read' = [op |-> "slice", arg |-> 0, ok |-> ~SliceRejected(profile, offset, length),
                     lo |-> offset, hi |-> offset + length]
      BY <2>1 DEF Slice
    <3>2. UNCHANGED <<profile, tap, last>>
      BY <2>1 DEF Slice
    <3>3. offset \in Nat /\ length \in Nat /\ offset + length \in Nat
      BY UintsAreNat
    <3>4. (~SliceRejected(profile, offset, length)) \in BOOLEAN
      BY DEF SliceRejected
    <3>5. LayoutTypeOK'
      BY <3>1, <3>2, <3>3, <3>4 DEF LayoutTypeOK
    <3>6. ReadInv'
      BY <3>1, <3>2 DEF ReadInv
    <3> QED BY <2>0, <3>2, <3>5, <3>6 DEF TapInv
  <2>2. CASE Word
    <3>1. PICK i \in Uints : ReadWord("word", i)
      BY <2>2 DEF Word
    <3>2. UNCHANGED <<profile, tap, last>>
      BY <2>2 DEF Word
    <3>3. i \in Nat /\ WordOffset(i) \in Nat /\ WordOffset(i) + WordBytes \in Nat
      BY <2>0, UintsAreNat, OffsetNat DEF WordBytes
    <3>4. (~WordRejected(profile, i)) \in BOOLEAN
      BY DEF WordRejected
    <3>5. LayoutTypeOK'
      BY <3>1, <3>2, <3>3, <3>4 DEF LayoutTypeOK, ReadWord
    <3>6. ReadInv'
      BY <3>1 DEF ReadInv, ReadWord
    <3> QED BY <2>0, <3>2, <3>5, <3>6 DEF TapInv
  <2>3. CASE Tap
    <3>1. PICK u \in Uints : last' = TapIndex(profile, tap, u) /\ ReadWord("tap", last')
      BY <2>3 DEF Tap, TapUpTo
    <3>2. tap \in 0 .. GetItemTaps - 1 /\ tap' = tap + 1 /\ profile' = profile
      BY <2>0, <2>3, <1>0 DEF Tap, TapUpTo
    <3>3. u \in Nat
      BY UintsAreNat
    <3>4. /\ last' \in 0 .. Words(profile) - 1
          /\ tap * Span(profile) <= last' /\ last' < tap' * Span(profile)
      BY <2>0, <3>1, <3>2, <3>3, TapPlace
    <3>5. last' \in Nat /\ WordOffset(last') \in Nat /\ WordOffset(last') + WordBytes \in Nat
      <4>1. last' \in Nat
        BY <2>0, <3>4, Geometry
      <4> QED BY <4>1, <2>0, OffsetNat DEF WordBytes
    <3>6. (~WordRejected(profile, last')) \in BOOLEAN
      BY DEF WordRejected
    <3>7. LayoutTypeOK'
      BY <3>1, <3>2, <3>4, <3>5, <3>6, <1>0 DEF LayoutTypeOK, ReadWord, Words
    <3>8. ReadInv'
      BY <3>1, <3>2, <3>4 DEF ReadInv, ReadWord, Words
    <3>9. TapInv'
      BY <3>2, <3>4 DEF TapInv, Span, Words
    <3>10. tap > 0 => last < last'
      <4>1. Span(profile) \in Nat /\ last \in Nat /\ tap * Span(profile) \in Nat
        BY <2>0, Geometry
      <4> QED BY <4>1, <3>4, <3>5 DEF TapInv
    <3> QED BY <3>7, <3>8, <3>9, <3>10
  <2>4. CASE NextItem
    <3>1. profile' \in Profiles /\ tap' = 0 /\ last' = 0
          /\ read' = [op |-> "none", arg |-> 0, ok |-> TRUE, lo |-> 0, hi |-> 0]
      BY <2>4 DEF NextItem
    <3>2. \A p \in Profiles : Words(p) \in Nat \ {0}
      BY Geometry
    <3>3. Words(profile)' = Words(profile')
      BY DEF Words
    <3>4. LayoutTypeOK'
      BY <3>1, <3>2, <3>3, <1>0 DEF LayoutTypeOK
    <3> QED BY <2>0, <3>1, <3>4 DEF ReadInv, TapInv
  <2>5. CASE UNCHANGED layoutVars
    BY <2>0, <2>5 DEF layoutVars, LayoutTypeOK, ReadInv, TapInv, Words, Span
  <2> QED BY <2>1, <2>2, <2>3, <2>4, <2>5 DEF LayoutNext
<1> QED BY <1>1, <1>2

\* Every state has its type: in particular a tap's index is below
\* cache_word_count.
THEOREM LayoutTypeCorrect == LayoutSpec => []LayoutTypeOK
<1>1. LayoutInv => LayoutTypeOK
  BY DEF LayoutInv
<1> QED BY <1>1, LayoutInductive, PTL DEF LayoutSpec

\* The guard of epoch_cache_slice is exact for all arguments: it subtracts where
\* an addition would wrap.
THEOREM SlicesAreExact == LayoutSpec => []SliceExact
<1>1. LayoutInv => SliceExact
  <2> SUFFICES ASSUME LayoutInv, read.op = "slice"
               PROVE  read.ok <=> read.hi <= CacheBytes[profile]
    BY DEF SliceExact
  <2>1. PICK offset, length \in Uints :
          read.ok = ~SliceRejected(profile, offset, length) /\ read.hi = offset + length
    BY DEF LayoutInv, ReadInv
  <2>2. offset \in Nat /\ length \in Nat /\ CacheBytes[profile] \in Nat
    BY UintsAreNat, LayoutAssumption DEF LayoutAssumption, LayoutInv, LayoutTypeOK
  <2>3. ~SliceRejected(profile, offset, length) <=> offset + length <= CacheBytes[profile]
    BY <2>2 DEF SliceRejected
  <2> QED BY <2>1, <2>3
<1> QED BY <1>1, LayoutInductive, PTL DEF LayoutSpec

\* No tap of get_item is refused or leaves the cache.
THEOREM TapsAreInside == LayoutSpec => []TapInside
<1>1. LayoutInv => TapInside
  <2> SUFFICES ASSUME LayoutInv, read.op = "tap"
               PROVE  read.ok /\ read.hi <= CacheBytes[profile]
    BY DEF TapInside
  <2>1. PICK i \in 0 .. Words(profile) - 1 :
          read.ok = ~WordRejected(profile, i) /\ read.hi = WordOffset(i) + WordBytes
    BY DEF LayoutInv, ReadInv
  <2>2. profile \in Profiles
    BY DEF LayoutInv, LayoutTypeOK
  <2>3. ~WordRejected(profile, i) /\ WordOffset(i) + WordBytes <= CacheBytes[profile]
    BY <2>2, WordPlace DEF WordBytes
  <2> QED BY <2>1, <2>3
<1> QED BY <1>1, LayoutInductive, PTL DEF LayoutSpec

\* The taps of an item read distinct words, each beyond the one before.
THEOREM TapsAreDispersed == LayoutSpec => TapsDispersed
<1>1. LayoutInv /\ [LayoutNext]_layoutVars => [tap > 0 /\ tap' = tap + 1 => last < last']_layoutVars
  BY LayoutInductive
<1> QED BY <1>1, LayoutInductive, PTL DEF LayoutSpec, TapsDispersed

-----------------------------------------------------------------------------
(* The lane scratch. *)

LEMMA InRangeIs == \A u \in Nat : InRange(u) <=> u \in Indices
  BY ScratchAssumption DEF ScratchAssumption, InRange, Indices

LEMMA Bounds == 0 .. MaxIndex \subseteq Nat
  BY ScratchAssumption DEF ScratchAssumption

LEMMA EmptyMap == Empty \in [{} -> Units] /\ DOMAIN Empty = {}
  BY DEF Empty

\* What a scratch reads is a unit's content.
LEMMA UnitIsUnit == TypeOK => \A u \in Indices : Unit(u) \in Units
<1> SUFFICES ASSUME TypeOK, NEW u \in Indices PROVE Unit(u) \in Units
  OBVIOUS
<1>1. Derive[lane_id][u] \in Units
  BY ScratchAssumption DEF ScratchAssumption, TypeOK
<1>2. u \in DOMAIN materialized_units => materialized_units[u] \in Units
  BY DEF TypeOK
<1>3. ~lazy => bytes[u] \in Units
  BY DEF TypeOK
<1> QED BY <1>1, <1>2, <1>3 DEF Unit

\* Materialising a unit leaves a map of units, and changes what that unit only.
LEMMA MaterializedIs ==
  ASSUME TypeOK, NEW u \in Indices, NEW v \in Units
  PROVE  /\ \E S \in SUBSET Indices : Materialized(u, v) \in [S -> Units]
         /\ DOMAIN Materialized(u, v) = DOMAIN materialized_units \union {u}
         /\ Materialized(u, v)[u] = v
         /\ \A x \in DOMAIN materialized_units : x # u => Materialized(u, v)[x] = materialized_units[x]
<1>1. PICK S \in SUBSET Indices : materialized_units \in [S -> Units]
  BY DEF TypeOK
<1>2. DOMAIN materialized_units = S /\ S \union {u} \in SUBSET Indices
  BY <1>1
<1>3. Materialized(u, v) \in [S \union {u} -> Units]
  BY <1>1, <1>2 DEF Materialized
<1> QED BY <1>2, <1>3 DEF Materialized

\* The representation is well formed in every state: an eager scratch never
\* holds a map, and no map holds a unit out of range.
THEOREM TypeCorrect == Spec => []TypeOK
<1>1. Init => TypeOK
  <2>1. ASSUME Initialize PROVE TypeOK
    BY <2>1, EmptyMap, ScratchAssumption DEF Initialize, TypeOK, ScratchAssumption, Built
  <2>2. ASSUME InitializeLazy PROVE TypeOK
    BY <2>2, EmptyMap DEF InitializeLazy, TypeOK, Built
  <2> QED BY <2>1, <2>2 DEF Init
<1>2. TypeOK /\ [Next]_vars => TypeOK'
  <2> SUFFICES ASSUME TypeOK, [Next]_vars PROVE TypeOK'
    OBVIOUS
  <2>1. CASE ReadUnit
    <3>1. PICK u \in 0 .. MaxIndex :
            /\ InRange(u) /\ result' = Got(u, Unit(u))
            /\ materialized_units' = IF lazy THEN Materialized(u, Unit(u)) ELSE materialized_units
            /\ UNCHANGED <<lane_id, lazy, bytes>>
      BY <2>1 DEF ReadUnit
    <3>2. u \in Indices /\ Unit(u) \in Units
      BY <3>1, Bounds, InRangeIs, UnitIsUnit
    <3>3. \E S \in SUBSET Indices : materialized_units' \in [S -> Units]
      BY <3>1, <3>2, MaterializedIs DEF TypeOK
    <3>4. result'.kind = "read"
      BY <3>1 DEF Got
    <3> QED BY <3>1, <3>3, <3>4 DEF TypeOK
  <2>2. CASE WriteUnit
    <3>1. PICK u \in 0 .. MaxIndex, v \in Units :
            InRange(u) /\ Store(u, v) /\ result' = Put(u, v) /\ UNCHANGED <<lane_id, lazy>>
      BY <2>2 DEF WriteUnit
    <3>2. u \in Indices
      BY <3>1, Bounds, InRangeIs
    <3>3. \E S \in SUBSET Indices : materialized_units' \in [S -> Units]
      <4>1. CASE lazy
        <5>1. materialized_units' = Materialized(u, v)
          BY <4>1, <3>1 DEF Store
        <5>2. \E S \in SUBSET Indices : Materialized(u, v) \in [S -> Units]
          BY <3>2, MaterializedIs
        <5> QED BY <5>1, <5>2
      <4>2. CASE ~lazy
        BY <4>2, <3>1 DEF Store, TypeOK
      <4> QED BY <4>1, <4>2
    <3>4. bytes' \in IF lazy THEN {Empty} ELSE [Indices -> Units]
      BY <3>1, <3>2 DEF TypeOK, Store
    <3>5. ~lazy => materialized_units' = Empty
      BY <3>1 DEF TypeOK, Store
    <3> QED BY <3>1, <3>3, <3>4, <3>5 DEF TypeOK, Put
  <2>3. CASE OutOfRange \/ OutOfMemory \/ IntegrityHash
    BY <2>3 DEF OutOfRange, OutOfMemory, IntegrityHash, TypeOK, Threw, Hashed
  <2>4. CASE UNCHANGED vars
    BY <2>4 DEF vars, TypeOK
  <2> QED BY <2>1, <2>2, <2>3, <2>4 DEF Next
<1> QED BY <1>1, <1>2, PTL DEF Spec

Content == [u \in Indices |-> Unit(u)]

\* Reading changes no unit.
LEMMA ReadKeepsContent ==
  ASSUME TypeOK, NEW u \in Indices,
         UNCHANGED <<lane_id, lazy, bytes>>,
         materialized_units' = IF lazy THEN Materialized(u, Unit(u)) ELSE materialized_units
  PROVE  Content' = Content
<1>1. ASSUME NEW x \in Indices PROVE Unit(x)' = Unit(x)
  <2>1. CASE ~lazy
    BY <2>1 DEF Unit
  <2>2. CASE lazy
    <3>1. materialized_units' = Materialized(u, Unit(u)) /\ lazy' /\ lane_id' = lane_id
      BY <2>2
    <3>2. Unit(x)' = IF x \in DOMAIN materialized_units' THEN materialized_units'[x] ELSE Derive[lane_id][x]
      BY <3>1 DEF Unit
    <3>3. /\ DOMAIN materialized_units' = DOMAIN materialized_units \union {u}
          /\ materialized_units'[u] = Unit(u)
          /\ \A y \in DOMAIN materialized_units :
               y # u => materialized_units'[y] = materialized_units[y]
      <4>1. PICK v \in Units : v = Unit(u)
        BY UnitIsUnit
      <4>2. materialized_units' = Materialized(u, v)
        BY <3>1, <4>1
      <4>3. /\ DOMAIN Materialized(u, v) = DOMAIN materialized_units \union {u}
            /\ Materialized(u, v)[u] = v
            /\ \A y \in DOMAIN materialized_units :
                 y # u => Materialized(u, v)[y] = materialized_units[y]
        BY MaterializedIs
      <4> QED BY <4>1, <4>2, <4>3
    <3>4. Unit(x) = IF x \in DOMAIN materialized_units THEN materialized_units[x] ELSE Derive[lane_id][x]
      BY <2>2 DEF Unit
    <3> QED BY <3>2, <3>3, <3>4
  <2> QED BY <2>1, <2>2 DEF TypeOK
<1> QED BY <1>1 DEF Content

\* Writing changes the unit written.
LEMMA WriteSetsContent ==
  ASSUME TypeOK, NEW u \in Indices, NEW v \in Units,
         UNCHANGED <<lane_id, lazy>>, Store(u, v)
  PROVE  Content' = [Content EXCEPT ![u] = v]
<1>1. ASSUME NEW x \in Indices PROVE Unit(x)' = IF x = u THEN v ELSE Unit(x)
  <2>1. CASE ~lazy
    <3>1. bytes' = [bytes EXCEPT ![u] = v] /\ bytes \in [Indices -> Units] /\ ~lazy'
      BY <2>1 DEF Store, TypeOK
    <3> QED BY <2>1, <3>1 DEF Unit
  <2>2. CASE lazy
    <3>1. materialized_units' = Materialized(u, v) /\ lazy' /\ lane_id' = lane_id
      BY <2>2 DEF Store
    <3>2. Unit(x)' = IF x \in DOMAIN materialized_units' THEN materialized_units'[x] ELSE Derive[lane_id][x]
      BY <3>1 DEF Unit
    <3>3. /\ DOMAIN materialized_units' = DOMAIN materialized_units \union {u}
          /\ materialized_units'[u] = v
          /\ \A y \in DOMAIN materialized_units :
               y # u => materialized_units'[y] = materialized_units[y]
      BY <3>1, MaterializedIs
    <3>4. Unit(x) = IF x \in DOMAIN materialized_units THEN materialized_units[x] ELSE Derive[lane_id][x]
      BY <2>2 DEF Unit
    <3> QED BY <3>2, <3>3, <3>4
  <2> QED BY <2>1, <2>2 DEF TypeOK
<1> QED BY <1>1 DEF Content

\* A LaneScratch, eager or lazy, is the array of units that core/scratch.h
\* promises: no read, write, failure or order of them tells the two apart.
THEOREM ScratchImplementsArray == Spec => ImplementsArray
<1>1. Init => Array!Init
  <2>1. ASSUME Initialize PROVE Array!Init
    <3>1. Derive[lane_id] \in [Indices -> Units]
      BY <2>1, ScratchAssumption DEF ScratchAssumption, Initialize
    <3>2. [u \in Indices |-> Unit(u)] = Derive[lane_id]
      BY <2>1, <3>1 DEF Initialize, Unit
    <3> QED BY <2>1, <3>2 DEF Initialize, Array!Init, Array!Built, Built
  <2>2. ASSUME InitializeLazy PROVE Array!Init
    <3>1. Derive[lane_id] \in [Indices -> Units]
      BY <2>2, ScratchAssumption DEF ScratchAssumption, InitializeLazy
    <3>2. [u \in Indices |-> Unit(u)] = Derive[lane_id]
      BY <2>2, <3>1, EmptyMap DEF InitializeLazy, Unit
    <3> QED BY <2>2, <3>2 DEF InitializeLazy, Array!Init, Array!Built, Built
  <2> QED BY <2>1, <2>2 DEF Init
<1>2. TypeOK /\ [Next]_vars => [Array!Next]_(Array!vars)
  <2> SUFFICES ASSUME TypeOK, [Next]_vars PROVE Array!Next \/ UNCHANGED Array!vars
    OBVIOUS
  <2>1. CASE ReadUnit
    <3>1. PICK u \in 0 .. MaxIndex :
            /\ InRange(u) /\ result' = Got(u, Unit(u))
            /\ materialized_units' = IF lazy THEN Materialized(u, Unit(u)) ELSE materialized_units
            /\ UNCHANGED <<lane_id, lazy, bytes>>
      BY <2>1 DEF ReadUnit
    <3>2. u \in Indices
      BY <3>1, Bounds, InRangeIs
    <3>3. Content' = Content
      BY <3>1, <3>2, ReadKeepsContent
    <3>4. Array!Read(u)
      BY <3>1, <3>2, <3>3 DEF Array!Read, Array!Indices, Indices, Array!Got, Got, Content
    <3> QED BY <3>4 DEF Array!Next
  <2>2. CASE WriteUnit
    <3>1. PICK u \in 0 .. MaxIndex, v \in Units :
            InRange(u) /\ Store(u, v) /\ result' = Put(u, v) /\ UNCHANGED <<lane_id, lazy>>
      BY <2>2 DEF WriteUnit
    <3>2. u \in Indices
      BY <3>1, Bounds, InRangeIs
    <3>3. Content' = [Content EXCEPT ![u] = v]
      BY <3>1, <3>2, WriteSetsContent
    <3>4. Array!Write(u, v)
      BY <3>1, <3>2, <3>3 DEF Array!Write, Array!Indices, Indices, Array!Put, Put, Content
    <3> QED BY <3>4 DEF Array!Next
  <2>3. CASE OutOfRange \/ OutOfMemory
    <3>1. result' = Threw /\ UNCHANGED <<lane_id, lazy, bytes, materialized_units>>
      BY <2>3 DEF OutOfRange, OutOfMemory
    <3>2. Content' = Content
      BY <3>1 DEF Content, Unit
    <3> QED BY <3>1, <3>2 DEF Array!Next, Array!Fail, Array!Threw, Threw, Content
  <2>4. CASE IntegrityHash
    <3>1. ~lazy /\ result' = Hashed(bytes) /\ UNCHANGED <<lane_id, lazy, bytes, materialized_units>>
      BY <2>4 DEF IntegrityHash
    <3>2. Content' = Content
      BY <3>1 DEF Content, Unit
    <3>3. Content = bytes
      BY <3>1 DEF Content, Unit, TypeOK
    <3> QED BY <3>1, <3>2, <3>3 DEF Array!Next, Array!Hash, Array!Hashed, Hashed, Content
  <2>5. CASE UNCHANGED vars
    BY <2>5 DEF vars, Array!vars, Unit
  <2> QED BY <2>1, <2>2, <2>3, <2>4, <2>5 DEF Next
<1> QED BY <1>1, <1>2, TypeCorrect, PTL DEF Spec, ImplementsArray, Array!Spec
=============================================================================
