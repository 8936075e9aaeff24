--------------------------- MODULE Hashing_proofs ---------------------------
(***************************************************************************)
(* For every rate, word size and set of requests: no two derivations hash  *)
(* the same bytes, whatever their arguments, but headers that differ in    *)
(* nonce and result only; shake256 computes the sponge of its input at     *)
(* every length; so digests tell inputs apart.                             *)
(***************************************************************************)
EXTENDS Hashing, TLAPS

-----------------------------------------------------------------------------
(* The bytes of derivations. *)

LEMMA Concat ==
  ASSUME NEW a \in Seq(Byte), NEW b \in Seq(Byte)
  PROVE  /\ a \o b \in Seq(Byte) /\ Len(a \o b) = Len(a) + Len(b)
         /\ \A i \in 1 .. Len(a) : (a \o b)[i] = a[i]
         /\ \A i \in 1 .. Len(b) : (a \o b)[Len(a) + i] = b[i]
  OBVIOUS

LEMMA SameSeq ==
  ASSUME NEW a \in Seq(Byte), NEW b \in Seq(Byte), Len(a) = Len(b),
         \A i \in 1 .. Len(a) : a[i] = b[i]
  PROVE  a = b
  OBVIOUS

\* Strings that begin with parts of one length are equal part by part.
LEMMA CancelLeft ==
  ASSUME NEW a \in Seq(Byte), NEW b \in Seq(Byte), NEW c \in Seq(Byte), NEW d \in Seq(Byte),
         a \o b = c \o d, Len(a) = Len(c)
  PROVE  a = c /\ b = d
<1>1. \A i \in 1 .. Len(a) : a[i] = c[i]
  BY Concat
<1>2. Len(b) = Len(d)
  <2>1. Len(a \o b) = Len(a) + Len(b) /\ Len(c \o d) = Len(c) + Len(d)
    BY Concat
  <2> QED BY <2>1
<1>3. ASSUME NEW i \in 1 .. Len(b) PROVE b[i] = d[i]
  <2>1. (a \o b)[Len(a) + i] = b[i]
    BY Concat
  <2>2. (c \o d)[Len(c) + i] = d[i]
    BY <1>2, Concat
  <2> QED BY <2>1, <2>2
<1>4. a = c
  BY <1>1, SameSeq
<1>5. b = d
  BY <1>2, <1>3, SameSeq
<1> QED BY <1>4, <1>5

\* And so are strings that end with parts of one length.
LEMMA CancelRight ==
  ASSUME NEW a \in Seq(Byte), NEW b \in Seq(Byte), NEW c \in Seq(Byte), NEW d \in Seq(Byte),
         a \o b = c \o d, Len(b) = Len(d)
  PROVE  a = c /\ b = d
<1>1. Len(a \o b) = Len(a) + Len(b) /\ Len(c \o d) = Len(c) + Len(d)
  BY Concat
<1>2. Len(a) = Len(c)
  BY <1>1
<1> QED BY <1>2, CancelLeft

LEMMA LEIs ==
  ASSUME NEW v
  PROVE  /\ LE32(v) \in Seq(Byte) /\ Len(LE32(v)) = 4
         /\ LE64(v) \in Seq(Byte) /\ Len(LE64(v)) = 8
  BY DEF LE, LE32, LE64, Byte

\* Little-endian encodings of four or eight bytes determine the integer.
LEMMA LEInjective ==
  ASSUME NEW n \in {4, 8}, NEW v \in SUBSET (0 .. 8 * n - 1), NEW w \in SUBSET (0 .. 8 * n - 1),
         LE(v, n) = LE(w, n)
  PROVE  v = w
<1>1. ASSUME NEW x \in 0 .. 8 * n - 1 PROVE x \in v <=> x \in w
  <2> DEFINE i == x \div 8 + 1  b == x % 8
  <2>1. i \in 1 .. n /\ b \in 0 .. 7 /\ 8 * (i - 1) + b = x
    OBVIOUS
  <2>2. LE(v, n)[i] = LE(w, n)[i]
    OBVIOUS
  <2> HIDE DEF i, b
  <2>3. LE(v, n)[i] = {y \in 0 .. 7 : 8 * (i - 1) + y \in v}
    BY <2>1 DEF LE
  <2>4. LE(w, n)[i] = {y \in 0 .. 7 : 8 * (i - 1) + y \in w}
    BY <2>1 DEF LE
  <2>5. b \in LE(v, n)[i] <=> x \in v
    BY <2>1, <2>3
  <2>6. b \in LE(w, n)[i] <=> x \in w
    BY <2>1, <2>4
  <2> QED BY <2>2, <2>5, <2>6
<1> QED BY <1>1

LEMMA Injective32 == \A v, w \in U32 : LE32(v) = LE32(w) => v = w
<1> SUFFICES ASSUME NEW v \in U32, NEW w \in U32, LE32(v) = LE32(w) PROVE v = w
  OBVIOUS
<1>1. v \in SUBSET (0 .. 8 * 4 - 1) /\ w \in SUBSET (0 .. 8 * 4 - 1)
  BY DEF U32
<1>2. LE(v, 4) = LE(w, 4)
  BY DEF LE32
<1> QED BY <1>1, <1>2, LEInjective

LEMMA Injective64 == \A v, w \in U64 : LE64(v) = LE64(w) => v = w
<1> SUFFICES ASSUME NEW v \in U64, NEW w \in U64, LE64(v) = LE64(w) PROVE v = w
  OBVIOUS
<1>1. v \in SUBSET (0 .. 8 * 8 - 1) /\ w \in SUBSET (0 .. 8 * 8 - 1)
  BY DEF U64
<1>2. LE(v, 8) = LE(w, 8)
  BY DEF LE64
<1> QED BY <1>1, <1>2, LEInjective

LEMMA HashIs == \A h \in Hash256 : h \in Seq(Byte) /\ Len(h) = 32
<1> SUFFICES ASSUME NEW h \in Hash256 PROVE h \in Seq(Byte) /\ Len(h) = 32
  OBVIOUS
<1>1. h = [i \in 1 .. 32 |-> h[i]] /\ \A i \in 1 .. 32 : h[i] \in Byte
  BY DEF Hash256
<1> QED BY <1>1

LEMMA ChainIdIs == \A c \in [1 .. 16 -> Byte] : c \in Seq(Byte) /\ Len(c) = 16
<1> SUFFICES ASSUME NEW c \in [1 .. 16 -> Byte] PROVE c \in Seq(Byte) /\ Len(c) = 16
  OBVIOUS
<1>1. c = [i \in 1 .. 16 |-> c[i]] /\ \A i \in 1 .. 16 : c[i] \in Byte
  OBVIOUS
<1> QED BY <1>1

\* a followed by b; kept folded, so that the lemmas are applied to it as a whole.
Then(a, b) == a \o b

LEMMA CancelHash ==
  \A a, c \in Seq(Byte), b, d \in Hash256 : Then(a, b) = Then(c, d) => a = c /\ b = d
  BY HashIs, CancelRight DEF Then

LEMMA CancelU32 ==
  \A a, c \in Seq(Byte), v, w \in U32 : Then(a, LE32(v)) = Then(c, LE32(w)) => a = c /\ v = w
<1> SUFFICES ASSUME NEW a \in Seq(Byte), NEW c \in Seq(Byte), NEW v \in U32, NEW w \in U32,
                    Then(a, LE32(v)) = Then(c, LE32(w))
             PROVE  a = c /\ v = w
  OBVIOUS
<1> DEFINE x == LE32(v)  y == LE32(w)
<1>1. x \in Seq(Byte) /\ y \in Seq(Byte) /\ Len(x) = Len(y) /\ a \o x = c \o y
  BY LEIs DEF Then
<1> HIDE DEF x, y
<1>2. a = c /\ x = y
  BY <1>1, CancelRight, ZenonT(60)
<1> QED BY <1>2, Injective32 DEF x, y

LEMMA CancelU64 ==
  \A a, c \in Seq(Byte), v, w \in U64 : Then(a, LE64(v)) = Then(c, LE64(w)) => a = c /\ v = w
<1> SUFFICES ASSUME NEW a \in Seq(Byte), NEW c \in Seq(Byte), NEW v \in U64, NEW w \in U64,
                    Then(a, LE64(v)) = Then(c, LE64(w))
             PROVE  a = c /\ v = w
  OBVIOUS
<1> DEFINE x == LE64(v)  y == LE64(w)
<1>1. x \in Seq(Byte) /\ y \in Seq(Byte) /\ Len(x) = Len(y) /\ a \o x = c \o y
  BY LEIs DEF Then
<1> HIDE DEF x, y
<1>2. a = c /\ x = y
  BY <1>1, CancelRight, ZenonT(60)
<1> QED BY <1>2, Injective64 DEF x, y

\* Only the part before is of interest.
LEMMA Cancel32 ==
  \A a, c \in Seq(Byte) : \A v, w : Then(a, LE32(v)) = Then(c, LE32(w)) => a = c
<1> SUFFICES ASSUME NEW a \in Seq(Byte), NEW c \in Seq(Byte), NEW v, NEW w,
                    Then(a, LE32(v)) = Then(c, LE32(w))
             PROVE  a = c
  OBVIOUS
<1> DEFINE x == LE32(v)  y == LE32(w)
<1>1. x \in Seq(Byte) /\ y \in Seq(Byte) /\ Len(x) = Len(y) /\ a \o x = c \o y
  BY LEIs DEF Then
<1> HIDE DEF x, y
<1> QED BY <1>1, CancelRight, ZenonT(60)

LEMMA Cancel64 ==
  \A a, c \in Seq(Byte) : \A v, w : Then(a, LE64(v)) = Then(c, LE64(w)) => a = c
<1> SUFFICES ASSUME NEW a \in Seq(Byte), NEW c \in Seq(Byte), NEW v, NEW w,
                    Then(a, LE64(v)) = Then(c, LE64(w))
             PROVE  a = c
  OBVIOUS
<1> DEFINE x == LE64(v)  y == LE64(w)
<1>1. x \in Seq(Byte) /\ y \in Seq(Byte) /\ Len(x) = Len(y) /\ a \o x = c \o y
  BY LEIs DEF Then
<1> HIDE DEF x, y
<1> QED BY <1>1, CancelRight, ZenonT(60)

LEMMA ThenIs ==
  /\ \A a \in Seq(Byte), b \in Seq(Byte) : Then(a, b) \in Seq(Byte)
  /\ \A a \in Seq(Byte), h \in Hash256 : Then(a, h) \in Seq(Byte)
  /\ \A a \in Seq(Byte) : \A v : Then(a, LE32(v)) \in Seq(Byte) /\ Then(a, LE64(v)) \in Seq(Byte)
  BY Concat, HashIs, LEIs DEF Then

----------------------------------------------------------------------------
(* Profiles *)

LEMMA NameIs ==
  ASSUME NEW p \in Profiles
  PROVE  /\ Name(p) \in Seq(Byte) /\ Len(Name(p)) = 5
         /\ Name(p)[4] = Parameters[p].name[4] /\ Name(p)[5] = Parameters[p].name[5]
<1>1. p \in {"cx18", "cx32", "cx64", "cx128"}
  BY DEF Profiles, Parameters
<1>2. \A a, b \in SUBSET (0 .. 3) : CX(a, b) \in Seq(Byte) /\ Len(CX(a, b)) = 5
  BY DEF CX, Digit, Byte
<1>3. Parameters[p].name \in Seq(Byte) /\ Len(Parameters[p].name) >= 5
  <2>1. CASE p # "cx128"
    <3>1. \E a, b \in SUBSET (0 .. 3) : Parameters[p].name = CX(a, b)
      <4>1. {0} \in SUBSET (0 .. 3) /\ {3} \in SUBSET (0 .. 3) /\ {0, 1} \in SUBSET (0 .. 3)
            /\ {1} \in SUBSET (0 .. 3) /\ {1, 2} \in SUBSET (0 .. 3) /\ {2} \in SUBSET (0 .. 3)
        OBVIOUS
      <4>2. /\ Parameters["cx18"].name = CX({0}, {3}) /\ Parameters["cx32"].name = CX({0, 1}, {1})
            /\ Parameters["cx64"].name = CX({1, 2}, {2})
        BY DEF Parameters, Sizes
      <4> QED BY <1>1, <2>1, <4>1, <4>2
    <3>2. PICK a \in SUBSET (0 .. 3), b \in SUBSET (0 .. 3) : Parameters[p].name = CX(a, b)
      BY <3>1
    <3>3. CX(a, b) \in Seq(Byte) /\ Len(CX(a, b)) = 5
      BY <1>2
    <3> QED BY <3>2, <3>3
  <2>2. CASE p = "cx128"
    <3> DEFINE a == CX({0}, {1})  b == <<Digit({3})>>
    <3>1. Parameters[p].name = a \o b
      BY <2>2 DEF Parameters, Sizes
    <3>2. b \in Seq(Byte) /\ Len(b) = 1
      BY DEF Digit, Byte
    <3>3. a \in Seq(Byte) /\ Len(a) = 5
      BY <1>2
    <3> HIDE DEF a, b
    <3>4. a \o b \in Seq(Byte) /\ Len(a \o b) = Len(a) + Len(b)
      BY <3>2, <3>3, Concat, Zenon
    <3>5. Len(a \o b) >= 5
      BY <3>2, <3>3, <3>4
    <3> QED BY <3>1, <3>4, <3>5, Zenon
  <2> QED BY <2>1, <2>2
<1> QED BY <1>3 DEF Name

\* Five characters tell the four profiles apart.
LEMMA NamesApart ==
  ASSUME NEW p \in Profiles, NEW q \in Profiles, Name(p) = Name(q)
  PROVE  p = q
<1>1. p \in {"cx18", "cx32", "cx64", "cx128"} /\ q \in {"cx18", "cx32", "cx64", "cx128"}
  BY DEF Profiles, Parameters
<1>2. \A a, b : CX(a, b)[4] = Digit(a) /\ CX(a, b)[5] = Digit(b)
  BY DEF CX
<1>3. /\ Parameters["cx18"].name[4] = {4, 5, 0} /\ Parameters["cx18"].name[5] = {4, 5, 3}
      /\ Parameters["cx32"].name[4] = {4, 5, 0, 1} /\ Parameters["cx64"].name[4] = {4, 5, 1, 2}
  BY <1>2 DEF Parameters, Sizes, Digit
<1>4. Parameters["cx128"].name[4] = {4, 5, 0} /\ Parameters["cx128"].name[5] = {4, 5, 1}
  <2>1. CX({0}, {1}) \in Seq(Byte) /\ Len(CX({0}, {1})) = 5 /\ <<Digit({3})>> \in Seq(Byte)
    BY DEF CX, Digit, Byte
  <2>2. Parameters["cx128"].name = CX({0}, {1}) \o <<Digit({3})>>
    BY DEF Parameters, Sizes
  <2>3. (CX({0}, {1}) \o <<Digit({3})>>)[4] = CX({0}, {1})[4]
        /\ (CX({0}, {1}) \o <<Digit({3})>>)[5] = CX({0}, {1})[5]
    BY <2>1, Concat
  <2>4. CX({0}, {1})[4] = {4, 5, 0} /\ CX({0}, {1})[5] = {4, 5, 1}
    BY DEF CX, Digit
  <2> QED BY <2>2, <2>3, <2>4
<1>5. Parameters[p].name[4] = Parameters[q].name[4] /\ Parameters[p].name[5] = Parameters[q].name[5]
  BY NameIs
<1> QED BY <1>1, <1>3, <1>4, <1>5

----------------------------------------------------------------------------
(* The fields of each kind *)

\* A header's serialization is of its first seven fields, and determines them.
LEMMA SerializationApart ==
  ASSUME NEW g \in BlockHeader, NEW h \in BlockHeader
  PROVE  /\ Serialization(h) \in Seq(Byte)
         /\ Serialization(g) = Serialization(h) =>
              /\ g.version = h.version /\ g.height = h.height /\ g.timestamp = h.timestamp
              /\ g.bits = h.bits /\ g.previous_block_hash = h.previous_block_hash
              /\ g.transactions_root = h.transactions_root /\ g.state_root = h.state_root
<1> DEFINE s1(x) == LE32(x.version)
           s2(x) == Then(s1(x), LE64(x.height))
           s3(x) == Then(s2(x), LE64(x.timestamp))
           s4(x) == Then(s3(x), LE32(x.bits))
           s5(x) == Then(s4(x), x.previous_block_hash)
           s6(x) == Then(s5(x), x.transactions_root)
           s7(x) == Then(s6(x), x.state_root)
<1>1. ASSUME NEW x \in BlockHeader
      PROVE  /\ x.version \in U32 /\ x.height \in U64 /\ x.timestamp \in U64 /\ x.bits \in U32
             /\ x.previous_block_hash \in Hash256 /\ x.transactions_root \in Hash256
             /\ x.state_root \in Hash256
  BY DEF BlockHeader
<1>2. \A x : Serialization(x) = s7(x)
  BY DEF Serialization, Then
<1>3. ASSUME NEW x \in BlockHeader
      PROVE  /\ s1(x) \in Seq(Byte) /\ s2(x) \in Seq(Byte) /\ s3(x) \in Seq(Byte)
             /\ s4(x) \in Seq(Byte) /\ s5(x) \in Seq(Byte) /\ s6(x) \in Seq(Byte)
             /\ s7(x) \in Seq(Byte)
  <2>1. s1(x) \in Seq(Byte) /\ s2(x) \in Seq(Byte) /\ s3(x) \in Seq(Byte) /\ s4(x) \in Seq(Byte)
    BY LEIs, ThenIs
  <2>2. s5(x) \in Seq(Byte) /\ s6(x) \in Seq(Byte) /\ s7(x) \in Seq(Byte)
    BY <1>1, <2>1, ThenIs
  <2> QED BY <2>1, <2>2
<1>4. s7(g) = s7(h) => s6(g) = s6(h) /\ g.state_root = h.state_root
  BY <1>1, <1>3, CancelHash
<1>5. s6(g) = s6(h) => s5(g) = s5(h) /\ g.transactions_root = h.transactions_root
  BY <1>1, <1>3, CancelHash
<1>6. s5(g) = s5(h) => s4(g) = s4(h) /\ g.previous_block_hash = h.previous_block_hash
  BY <1>1, <1>3, CancelHash
<1>7. s4(g) = s4(h) => s3(g) = s3(h) /\ g.bits = h.bits
  BY <1>1, <1>3, CancelU32
<1>8. s3(g) = s3(h) => s2(g) = s2(h) /\ g.timestamp = h.timestamp
  BY <1>1, <1>3, CancelU64
<1>9. s2(g) = s2(h) => s1(g) = s1(h) /\ g.height = h.height
  BY <1>1, <1>3, CancelU64
<1>10. s1(g) = s1(h) => g.version = h.version
  BY <1>1, Injective32
<1> HIDE DEF s1, s2, s3, s4, s5, s6, s7
<1> QED BY <1>2, <1>3, <1>4, <1>5, <1>6, <1>7, <1>8, <1>9, <1>10

\* An epoch seed's input determines the chain, the epoch and the anchor.
LEMMA SeedApart ==
  ASSUME NEW x \in SeedCalls, NEW y \in SeedCalls
  PROVE  SeedFields(x) \in Seq(Byte) /\ (SeedFields(x) = SeedFields(y) => x = y)
<1> DEFINE s(r) == Then(r.chain_id, LE64(r.epoch_index))
<1>1. ASSUME NEW r \in SeedCalls
      PROVE  /\ r.chain_id \in Seq(Byte) /\ r.epoch_index \in U64 /\ r.anchor \in Hash256
             /\ s(r) \in Seq(Byte) /\ SeedFields(r) = Then(s(r), r.anchor)
  <2>1. r.chain_id \in Seq(Byte) /\ r.epoch_index \in U64 /\ r.anchor \in Hash256
    BY ChainIdIs DEF SeedCalls
  <2> QED BY <2>1, ThenIs DEF SeedFields, Then
<1>2. SeedFields(x) \in Seq(Byte)
  BY <1>1, ThenIs
<1>3. ASSUME SeedFields(x) = SeedFields(y) PROVE x = y
  <2>1. s(x) = s(y) /\ x.anchor = y.anchor
    BY <1>1, <1>3, CancelHash
  <2>2. x.chain_id = y.chain_id /\ x.epoch_index = y.epoch_index
    BY <1>1, <2>1, CancelU64
  <2> QED BY <2>1, <2>2 DEF SeedCalls
<1> QED BY <1>2, <1>3

\* So do those of the derivations of a profile, whose other parameters are equal
\* when the profiles are.
LEMMA CacheApart ==
  ASSUME NEW x \in CacheCalls, NEW y \in CacheCalls
  PROVE  CacheFields(x) \in Seq(Byte) /\ (CacheFields(x) = CacheFields(y) => x = y)
<1> DEFINE s1(r) == Then(Name(r.profile), LE64(Parameters[r.profile].cache))
           s2(r) == Then(s1(r), LE64(Parameters[r.profile].dataset))
           s3(r) == Then(s2(r), LE64(Parameters[r.profile].rounds))
<1>1. ASSUME NEW r \in CacheCalls
      PROVE  /\ r.profile \in Profiles /\ r.seed \in Hash256 /\ Name(r.profile) \in Seq(Byte)
             /\ s1(r) \in Seq(Byte) /\ s2(r) \in Seq(Byte) /\ s3(r) \in Seq(Byte)
             /\ CacheFields(r) = Then(s3(r), r.seed)
  <2>1. r.profile \in Profiles /\ r.seed \in Hash256
    BY DEF CacheCalls
  <2>2. Name(r.profile) \in Seq(Byte)
    BY <2>1, NameIs
  <2>3. s1(r) \in Seq(Byte) /\ s2(r) \in Seq(Byte) /\ s3(r) \in Seq(Byte)
    BY <2>2, ThenIs
  <2> QED BY <2>1, <2>2, <2>3 DEF CacheFields, Then
<1>2. CacheFields(x) \in Seq(Byte)
  BY <1>1, ThenIs
<1>3. ASSUME CacheFields(x) = CacheFields(y) PROVE x = y
  <2>1. s3(x) = s3(y) /\ x.seed = y.seed
    BY <1>1, <1>3, CancelHash
  <2>2. s2(x) = s2(y)
    BY <1>1, <2>1, Cancel64
  <2>3. s1(x) = s1(y)
    BY <1>1, <2>2, Cancel64
  <2>4. Name(x.profile) = Name(y.profile)
    BY <1>1, <2>3, Cancel64
  <2>5. x.profile = y.profile
    BY <1>1, <2>4, NamesApart
  <2> QED BY <2>1, <2>5 DEF CacheCalls
<1> QED BY <1>2, <1>3

LEMMA ItemApart ==
  ASSUME NEW x \in ItemCalls, NEW y \in ItemCalls
  PROVE  ItemFields(x) \in Seq(Byte) /\ (ItemFields(x) = ItemFields(y) => x = y)
<1> DEFINE s1(r) == Then(Name(r.profile), LE64(Parameters[r.profile].dataset))
           s2(r) == Then(s1(r), LE64(Parameters[r.profile].cache))
           s3(r) == Then(s2(r), LE64(r.index))
<1>1. ASSUME NEW r \in ItemCalls
      PROVE  /\ r.profile \in Profiles /\ r.seed \in Hash256 /\ r.index \in U64
             /\ Name(r.profile) \in Seq(Byte)
             /\ s1(r) \in Seq(Byte) /\ s2(r) \in Seq(Byte) /\ s3(r) \in Seq(Byte)
             /\ ItemFields(r) = Then(s3(r), r.seed)
  <2>1. r.profile \in Profiles /\ r.seed \in Hash256 /\ r.index \in U64
    BY DEF ItemCalls
  <2>2. Name(r.profile) \in Seq(Byte)
    BY <2>1, NameIs
  <2>3. s1(r) \in Seq(Byte) /\ s2(r) \in Seq(Byte) /\ s3(r) \in Seq(Byte)
    BY <2>2, ThenIs
  <2> QED BY <2>1, <2>2, <2>3 DEF ItemFields, Then
<1>2. ItemFields(x) \in Seq(Byte)
  BY <1>1, ThenIs
<1>3. ASSUME ItemFields(x) = ItemFields(y) PROVE x = y
  <2>1. s3(x) = s3(y) /\ x.seed = y.seed
    BY <1>1, <1>3, CancelHash
  <2>2. s2(x) = s2(y) /\ x.index = y.index
    BY <1>1, <2>1, CancelU64
  <2>3. s1(x) = s1(y)
    BY <1>1, <2>2, Cancel64
  <2>4. Name(x.profile) = Name(y.profile)
    BY <1>1, <2>3, Cancel64
  <2>5. x.profile = y.profile
    BY <1>1, <2>4, NamesApart
  <2> QED BY <2>1, <2>2, <2>5 DEF ItemCalls
<1> QED BY <1>2, <1>3

LEMMA ScratchApart ==
  ASSUME NEW x \in LaneCalls("scratch"), NEW y \in LaneCalls("scratch")
  PROVE  ScratchFields(x) \in Seq(Byte) /\ (ScratchFields(x) = ScratchFields(y) => x = y)
<1> DEFINE s1(r) == Then(Name(r.profile), LE64(Parameters[r.profile].scratch))
           s2(r) == Then(s1(r), LE32(Parameters[r.profile].lanes))
           s3(r) == Then(s2(r), LE32(Parameters[r.profile].unit))
           s4(r) == Then(s3(r), LE64(r.nonce))
           s5(r) == Then(s4(r), LE32(r.lane))
           s6(r) == Then(s5(r), r.seed)
<1>1. ASSUME NEW r \in LaneCalls("scratch")
      PROVE  /\ r.profile \in Profiles /\ r.seed \in Hash256 /\ r.digest \in Hash256
             /\ r.nonce \in U64 /\ r.lane \in U32 /\ Name(r.profile) \in Seq(Byte)
             /\ s1(r) \in Seq(Byte) /\ s2(r) \in Seq(Byte) /\ s3(r) \in Seq(Byte)
             /\ s4(r) \in Seq(Byte) /\ s5(r) \in Seq(Byte) /\ s6(r) \in Seq(Byte)
             /\ ScratchFields(r) = Then(s6(r), r.digest)
  <2>1. r.profile \in Profiles /\ r.seed \in Hash256 /\ r.digest \in Hash256
        /\ r.nonce \in U64 /\ r.lane \in U32
    BY DEF LaneCalls
  <2>2. Name(r.profile) \in Seq(Byte)
    BY <2>1, NameIs
  <2>3. s1(r) \in Seq(Byte) /\ s2(r) \in Seq(Byte) /\ s3(r) \in Seq(Byte)
    BY <2>2, ThenIs
  <2>4. s4(r) \in Seq(Byte) /\ s5(r) \in Seq(Byte) /\ s6(r) \in Seq(Byte)
    BY <2>1, <2>3, ThenIs
  <2> QED BY <2>1, <2>2, <2>3, <2>4 DEF ScratchFields, Then
<1>2. ScratchFields(x) \in Seq(Byte)
  <2>1. s6(x) \in Seq(Byte) /\ x.digest \in Hash256 /\ ScratchFields(x) = Then(s6(x), x.digest)
    BY <1>1
  <2> HIDE DEF s6
  <2> QED BY <2>1, ThenIs
<1>3. ASSUME ScratchFields(x) = ScratchFields(y) PROVE x = y
  <2>1. s6(x) = s6(y) /\ x.digest = y.digest
    BY <1>1, <1>3, CancelHash
  <2>2. s5(x) = s5(y) /\ x.seed = y.seed
    BY <1>1, <2>1, CancelHash
  <2>3. s4(x) = s4(y) /\ x.lane = y.lane
    BY <1>1, <2>2, CancelU32
  <2>4. s3(x) = s3(y) /\ x.nonce = y.nonce
    BY <1>1, <2>3, CancelU64
  <2>5. s2(x) = s2(y)
    BY <1>1, <2>4, Cancel32
  <2>6. s1(x) = s1(y)
    BY <1>1, <2>5, Cancel32
  <2>7. Name(x.profile) = Name(y.profile)
    BY <1>1, <2>6, Cancel64
  <2>8. x.profile = y.profile
    BY <1>1, <2>7, NamesApart
  <2> QED BY <2>1, <2>2, <2>3, <2>4, <2>8 DEF LaneCalls
<1> QED BY <1>2, <1>3

LEMMA LaneApart ==
  ASSUME NEW x \in LaneCalls("lane"), NEW y \in LaneCalls("lane")
  PROVE  LaneFields(x) \in Seq(Byte) /\ (LaneFields(x) = LaneFields(y) => x = y)
<1> DEFINE s1(r) == Then(Name(r.profile), LE64(Parameters[r.profile].rounds))
           s2(r) == Then(s1(r), LE32(Parameters[r.profile].lanes))
           s3(r) == Then(s2(r), LE32(r.lane))
           s4(r) == Then(s3(r), LE64(r.nonce))
           s5(r) == Then(s4(r), r.seed)
<1>1. ASSUME NEW r \in LaneCalls("lane")
      PROVE  /\ r.profile \in Profiles /\ r.seed \in Hash256 /\ r.digest \in Hash256
             /\ r.nonce \in U64 /\ r.lane \in U32 /\ Name(r.profile) \in Seq(Byte)
             /\ s1(r) \in Seq(Byte) /\ s2(r) \in Seq(Byte) /\ s3(r) \in Seq(Byte)
             /\ s4(r) \in Seq(Byte) /\ s5(r) \in Seq(Byte)
             /\ LaneFields(r) = Then(s5(r), r.digest)
  <2>1. r.profile \in Profiles /\ r.seed \in Hash256 /\ r.digest \in Hash256
        /\ r.nonce \in U64 /\ r.lane \in U32
    BY DEF LaneCalls
  <2>2. Name(r.profile) \in Seq(Byte)
    BY <2>1, NameIs
  <2>3. s1(r) \in Seq(Byte) /\ s2(r) \in Seq(Byte) /\ s3(r) \in Seq(Byte)
    BY <2>2, ThenIs
  <2>4. s4(r) \in Seq(Byte) /\ s5(r) \in Seq(Byte)
    BY <2>1, <2>3, ThenIs
  <2> QED BY <2>1, <2>2, <2>3, <2>4 DEF LaneFields, Then
<1>2. LaneFields(x) \in Seq(Byte)
  BY <1>1, ThenIs
<1>3. ASSUME LaneFields(x) = LaneFields(y) PROVE x = y
  <2>1. s5(x) = s5(y) /\ x.digest = y.digest
    BY <1>1, <1>3, CancelHash
  <2>2. s4(x) = s4(y) /\ x.seed = y.seed
    BY <1>1, <2>1, CancelHash
  <2>3. s3(x) = s3(y) /\ x.nonce = y.nonce
    BY <1>1, <2>2, CancelU64
  <2>4. s2(x) = s2(y) /\ x.lane = y.lane
    BY <1>1, <2>3, CancelU32
  <2>5. s1(x) = s1(y)
    BY <1>1, <2>4, Cancel32
  <2>6. Name(x.profile) = Name(y.profile)
    BY <1>1, <2>5, Cancel64
  <2>7. x.profile = y.profile
    BY <1>1, <2>6, NamesApart
  <2> QED BY <2>1, <2>2, <2>3, <2>4, <2>7 DEF LaneCalls
<1> QED BY <1>2, <1>3

----------------------------------------------------------------------------
(* Across kinds *)

\* A domain ends at the first zero byte.
LEMMA DomainsEnd ==
  ASSUME NEW j \in Kinds, NEW k \in Kinds, NEW f \in Seq(Byte), NEW g \in Seq(Byte),
         Domain[j] \o <<{}>> \o f = Domain[k] \o <<{}>> \o g
  PROVE  j = k /\ f = g
<1>1. /\ Domain[j] \in Seq(Byte) /\ Domain[k] \in Seq(Byte)
      /\ \A i \in 1 .. Len(Domain[j]) : Domain[j][i] # {}
      /\ \A i \in 1 .. Len(Domain[k]) : Domain[k][i] # {}
  BY PreimagesAssumption DEF PreimagesAssumption
<1> DEFINE a == Domain[j]  c == Domain[k]  z == <<{}>>
<1>2. z \in Seq(Byte) /\ Len(z) = 1 /\ z[1] = {}
  BY DEF Byte
<1> HIDE DEF a, c, z
<1>3. a \in Seq(Byte) /\ c \in Seq(Byte) /\ (a \o z) \o f = (c \o z) \o g
  BY <1>1 DEF a, c, z
<1>4. ASSUME NEW u \in Seq(Byte), NEW v \in Seq(Byte), NEW p \in Seq(Byte), NEW q \in Seq(Byte),
             (u \o z) \o p = (v \o z) \o q, Len(u) < Len(v),
             \A i \in 1 .. Len(v) : v[i] # {}
      PROVE  FALSE
  <2>1. /\ u \o z \in Seq(Byte) /\ v \o z \in Seq(Byte)
        /\ Len(u \o z) = Len(u) + 1 /\ Len(v \o z) = Len(v) + 1
    <3>1. Len(u \o z) = Len(u) + Len(z) /\ Len(v \o z) = Len(v) + Len(z)
      BY <1>2, Concat
    <3> QED BY <3>1, <1>2, Concat
  <2>2. (u \o z)[Len(u) + 1] = {}
    <3> DEFINE w == u \o z
    <3>1. \A i \in 1 .. Len(z) : w[Len(u) + i] = z[i]
      BY <1>2, Concat
    <3> HIDE DEF w
    <3>2. w[Len(u) + 1] = {}
      BY <3>1, <1>2
    <3> QED BY <3>2 DEF w
  <2>3. ((u \o z) \o p)[Len(u) + 1] = {}
    BY <2>1, <2>2, Concat
  <2>4. (v \o z)[Len(u) + 1] = v[Len(u) + 1] /\ Len(u) + 1 \in 1 .. Len(v)
    BY <1>2, <1>4, Concat
  <2>5. ((v \o z) \o q)[Len(u) + 1] = v[Len(u) + 1]
    BY <2>1, <2>4, Concat
  <2> QED BY <2>3, <2>4, <2>5, <1>4
<1>5. Len(a) = Len(c)
  <2>1. ~(Len(a) < Len(c))
    BY <1>1, <1>3, <1>4 DEF a, c
  <2>2. ~(Len(c) < Len(a))
    BY <1>1, <1>3, <1>4 DEF a, c
  <2> QED BY <1>3, <2>1, <2>2
<1>6. a \o z = c \o z /\ f = g
  <2>1. a \o z \in Seq(Byte) /\ c \o z \in Seq(Byte) /\ Len(a \o z) = Len(c \o z)
    <3>1. Len(a \o z) = Len(a) + Len(z) /\ Len(c \o z) = Len(c) + Len(z)
      BY <1>2, <1>3, Concat
    <3> QED BY <3>1, <1>2, <1>3, <1>5, Concat
  <2> QED BY <2>1, <1>3, CancelLeft
<1>7. a = c
  BY <1>2, <1>3, <1>6, CancelRight
<1> QED BY <1>6, <1>7, PreimagesAssumption DEF PreimagesAssumption, a, c

LEMMA PreimageIs ==
  ASSUME NEW r \in Derivations \union PlainHashes
  PROVE  Preimage(r) \in Seq(Byte) /\ OutputSize(r) \in Nat
<1>1. CASE r \in PlainHashes
  BY <1>1 DEF PlainHashes, Preimage, OutputSize
<1>2. CASE r \in Derivations
  <2>1. r.kind \in Kinds /\ r.kind # "raw" /\ Fields(r) \in Seq(Byte) /\ OutputSize(r) \in Nat
    <3>1. CASE r \in HeaderCalls
      <4>1. r.kind = "header" /\ r.header \in BlockHeader
        BY <3>1 DEF HeaderCalls
      <4> QED BY <4>1, SerializationApart DEF Fields, Kinds, OutputSize
    <3>2. CASE r \in SeedCalls
      <4>1. r.kind = "seed"
        BY <3>2 DEF SeedCalls
      <4> QED BY <4>1, <3>2, SeedApart DEF Fields, Kinds, OutputSize
    <3>3. CASE r \in CacheCalls
      <4>1. r.kind = "cache"
        BY <3>3 DEF CacheCalls
      <4> QED BY <4>1, <3>3, CacheApart DEF Fields, Kinds, OutputSize
    <3>4. CASE r \in ItemCalls
      <4>1. r.kind = "item"
        BY <3>4 DEF ItemCalls
      <4> QED BY <4>1, <3>4, ItemApart DEF Fields, Kinds, OutputSize
    <3>5. CASE r \in LaneCalls("scratch")
      <4>1. r.kind = "scratch"
        BY <3>5 DEF LaneCalls
      <4> QED BY <4>1, <3>5, ScratchApart DEF Fields, Kinds, OutputSize
    <3>6. CASE r \in LaneCalls("lane")
      <4>1. r.kind = "lane"
        BY <3>6 DEF LaneCalls
      <4> QED BY <4>1, <3>6, LaneApart DEF Fields, Kinds, OutputSize
    <3> QED BY <1>2, <3>1, <3>2, <3>3, <3>4, <3>5, <3>6 DEF Derivations
  <2>2. Domain[r.kind] \in Seq(Byte) /\ <<{}>> \in Seq(Byte)
    BY <2>1, PreimagesAssumption DEF PreimagesAssumption, Byte
  <2>3. Domain[r.kind] \o <<{}>> \in Seq(Byte)
    BY <2>2, Concat
  <2> QED BY <2>1, <2>3, Concat DEF Preimage
<1> QED BY <1>1, <1>2

\* What a header's digest is to cover is its first seven fields.
LEMMA HeaderCovered ==
  ASSUME NEW x \in HeaderCalls, NEW y \in HeaderCalls
  PROVE  Covered(x) = Covered(y) <=>
           LET g == x.header  h == y.header IN
           /\ g.version = h.version /\ g.height = h.height /\ g.timestamp = h.timestamp
           /\ g.bits = h.bits /\ g.previous_block_hash = h.previous_block_hash
           /\ g.transactions_root = h.transactions_root /\ g.state_root = h.state_root
<1> DEFINE g == x.header  h == y.header
           F == {"version", "height", "timestamp", "bits", "previous_block_hash",
                 "transactions_root", "state_root"}
           part(b) == [f \in F |-> b[f]]
<1>1. g \in BlockHeader /\ h \in BlockHeader /\ x.kind = "header" /\ y.kind = "header"
  BY DEF HeaderCalls
<1>2. ASSUME NEW b \in BlockHeader PROVE DOMAIN b \ {"nonce", "pow_result"} = F
  BY DEF BlockHeader
<1>3. Covered(x) = <<"header", part(g)>> /\ Covered(y) = <<"header", part(h)>>
  BY <1>1, <1>2 DEF Covered
<1> HIDE DEF g, h
<1>4. Covered(x) = Covered(y) <=> part(g) = part(h)
  BY <1>3
<1>5. part(g) = part(h) <=> \A f \in F : g[f] = h[f]
  <2>1. ASSUME part(g) = part(h), NEW f \in F PROVE g[f] = h[f]
    <3>1. part(g)[f] = g[f] /\ part(h)[f] = h[f]
      OBVIOUS
    <3> HIDE DEF part
    <3> QED BY <2>1, <3>1
  <2> QED BY <2>1
<1> HIDE DEF part
<1> QED BY <1>4, <1>5 DEF g, h

\* Derivations hash the same bytes exactly if they are the same one with the same
\* arguments, the nonce and the result of a header aside; and then they ask for as
\* many bytes (header.cpp:53-75, epoch_seed.cpp:32-44, epoch_cache.cpp:52-63,
\* get_item.cpp:49-60, scratch.cpp:57-71, pow.cpp:71-84).
THEOREM PreimagesApart ==
  ASSUME NEW x \in Derivations, NEW y \in Derivations
  PROVE  /\ Preimage(x) = Preimage(y) <=> Covered(x) = Covered(y)
         /\ Preimage(x) = Preimage(y) => OutputSize(x) = OutputSize(y)
<1>1. ASSUME NEW r \in Derivations
      PROVE  /\ r.kind \in Kinds /\ r.kind # "raw"
             /\ r \in HeaderCalls <=> r.kind = "header"
             /\ r \in SeedCalls <=> r.kind = "seed"
             /\ r \in CacheCalls <=> r.kind = "cache"
             /\ r \in ItemCalls <=> r.kind = "item"
             /\ r \in LaneCalls("scratch") <=> r.kind = "scratch"
             /\ r \in LaneCalls("lane") <=> r.kind = "lane"
  BY DEF Derivations, HeaderCalls, SeedCalls, CacheCalls, ItemCalls, LaneCalls, Kinds
<1>2. ASSUME NEW r \in Derivations
      PROVE  /\ Fields(r) \in Seq(Byte) /\ Preimage(r) = Domain[r.kind] \o <<{}>> \o Fields(r)
  <2>1. Preimage(r) = Domain[r.kind] \o <<{}>> \o Fields(r)
    BY <1>1 DEF Preimage
  <2>2. CASE r \in HeaderCalls
    <3>1. r.header \in BlockHeader
      BY <2>2 DEF HeaderCalls
    <3> QED BY <1>1, <2>1, <2>2, <3>1, SerializationApart DEF Fields
  <2>3. CASE r \in SeedCalls
    BY <1>1, <2>1, <2>3, SeedApart DEF Fields
  <2>4. CASE r \in CacheCalls
    BY <1>1, <2>1, <2>4, CacheApart DEF Fields
  <2>5. CASE r \in ItemCalls
    BY <1>1, <2>1, <2>5, ItemApart DEF Fields
  <2>6. CASE r \in LaneCalls("scratch")
    BY <1>1, <2>1, <2>6, ScratchApart DEF Fields
  <2>7. CASE r \in LaneCalls("lane")
    BY <1>1, <2>1, <2>7, LaneApart DEF Fields
  <2> QED BY <2>2, <2>3, <2>4, <2>5, <2>6, <2>7 DEF Derivations
<1>3. ASSUME Preimage(x) = Preimage(y)
      PROVE  x.kind = y.kind /\ Fields(x) = Fields(y)
  <2>1. Domain[x.kind] \o <<{}>> \o Fields(x) = Domain[y.kind] \o <<{}>> \o Fields(y)
    BY <1>2, <1>3
  <2>2. Fields(x) \in Seq(Byte) /\ Fields(y) \in Seq(Byte) /\ x.kind \in Kinds /\ y.kind \in Kinds
    BY <1>1, <1>2
  <2> DEFINE j == x.kind  k == y.kind  f == Fields(x)  g == Fields(y)
  <2>3. /\ j \in Kinds /\ k \in Kinds /\ f \in Seq(Byte) /\ g \in Seq(Byte)
        /\ Domain[j] \o <<{}>> \o f = Domain[k] \o <<{}>> \o g
    BY <2>1, <2>2
  <2> HIDE DEF j, k, f, g
  <2>4. j = k /\ f = g
    BY <2>3, DomainsEnd, ZenonT(60)
  <2> QED BY <2>4 DEF j, k, f, g
<1>4. CASE x \in HeaderCalls
  <2>1. x.kind = "header" /\ x.header \in BlockHeader /\ Fields(x) = Serialization(x.header)
    BY <1>4 DEF HeaderCalls, Fields
  <2>2. CASE y \in HeaderCalls
    <3>1. y.kind = "header" /\ y.header \in BlockHeader /\ Fields(y) = Serialization(y.header)
      BY <2>2 DEF HeaderCalls, Fields
    <3>2. Preimage(x) = Preimage(y) => Covered(x) = Covered(y)
      BY <1>3, <1>4, <2>1, <2>2, <3>1, SerializationApart, HeaderCovered
    <3>3. ASSUME Covered(x) = Covered(y) PROVE Preimage(x) = Preimage(y)
      <4>1. Serialization(x.header) = Serialization(y.header)
        BY <1>4, <2>2, <3>3, HeaderCovered DEF Serialization
      <4> QED BY <4>1, <1>2, <2>1, <3>1
    <3>4. OutputSize(x) = OutputSize(y)
      BY <2>1, <3>1 DEF OutputSize
    <3> QED BY <3>2, <3>3, <3>4
  <2>3. CASE y \notin HeaderCalls
    <3>1. y.kind # "header"
      BY <1>1, <2>3
    <3>2. Covered(x)[1] = "header" /\ Covered(y)[1] = "other"
      BY <2>1, <3>1 DEF Covered
    <3> QED BY <1>3, <2>1, <3>1, <3>2
  <2> QED BY <2>2, <2>3
<1>5. CASE x \notin HeaderCalls
  <2>1. x.kind # "header" /\ Covered(x) = <<"other", x>>
    BY <1>1, <1>5 DEF Covered
  <2>2. ASSUME Covered(x) = Covered(y) PROVE x = y
    <3>1. CASE y.kind = "header"
      <4>1. Covered(y)[1] = "header" /\ Covered(x)[1] = "other"
        BY <2>1, <3>1 DEF Covered
      <4> QED BY <4>1, <2>2
    <3>2. CASE y.kind # "header"
      BY <2>1, <2>2, <3>2 DEF Covered
    <3> QED BY <3>1, <3>2
  <2>3. ASSUME Preimage(x) = Preimage(y) PROVE x = y
    <3>1. x.kind = y.kind /\ Fields(x) = Fields(y)
      BY <1>3, <2>3
    <3>2. CASE x \in SeedCalls
      <4>1. y \in SeedCalls /\ Fields(x) = SeedFields(x) /\ Fields(y) = SeedFields(y)
        BY <1>1, <3>1, <3>2 DEF Fields
      <4> QED BY <3>1, <3>2, <4>1, SeedApart
    <3>3. CASE x \in CacheCalls
      <4>1. y \in CacheCalls /\ Fields(x) = CacheFields(x) /\ Fields(y) = CacheFields(y)
        BY <1>1, <3>1, <3>3 DEF Fields
      <4> QED BY <3>1, <3>3, <4>1, CacheApart
    <3>4. CASE x \in ItemCalls
      <4>1. y \in ItemCalls /\ Fields(x) = ItemFields(x) /\ Fields(y) = ItemFields(y)
        BY <1>1, <3>1, <3>4 DEF Fields
      <4> QED BY <3>1, <3>4, <4>1, ItemApart
    <3>5. CASE x \in LaneCalls("scratch")
      <4>1. y \in LaneCalls("scratch") /\ Fields(x) = ScratchFields(x) /\ Fields(y) = ScratchFields(y)
        BY <1>1, <3>1, <3>5 DEF Fields
      <4> QED BY <3>1, <3>5, <4>1, ScratchApart
    <3>6. CASE x \in LaneCalls("lane")
      <4>1. y \in LaneCalls("lane") /\ Fields(x) = LaneFields(x) /\ Fields(y) = LaneFields(y)
        BY <1>1, <3>1, <3>6 DEF Fields
      <4> QED BY <3>1, <3>6, <4>1, LaneApart
    <3> QED BY <1>5, <3>2, <3>3, <3>4, <3>5, <3>6 DEF Derivations
  <2> QED BY <2>2, <2>3
<1> QED BY <1>4, <1>5
-----------------------------------------------------------------------------
(* The sponge. *)

LEMMA DivMod ==
  ASSUME NEW n \in Nat, NEW d \in Nat \ {0}
  PROVE  /\ n \div d \in Nat /\ n % d \in 0 .. d - 1
         /\ n = d * (n \div d) + (n % d)
  OBVIOUS

\* Quotient and remainder are the only ones.
LEMMA DivIs ==
  ASSUME NEW d \in Nat \ {0}, NEW q \in Nat, NEW r \in 0 .. d - 1
  PROVE  (q * d + r) \div d = q /\ (q * d + r) % d = r
<1> DEFINE n == q * d + r  p == n \div d  s == n % d
<1>1. q * d \in Nat /\ n \in Nat
  OBVIOUS
<1>2. p \in Nat /\ s \in 0 .. d - 1 /\ n = d * p + s
  BY <1>1, DivMod
<1>3. d * p = p * d
  BY <1>2
<1>4. CASE p < q
  <2>1. PICK e \in Nat : q = p + 1 + e
    BY <1>2, <1>4
  <2>2. (p + 1 + e) * d = p * d + d + e * d /\ e * d \in Nat /\ p * d \in Nat
    BY <1>2
  <2> HIDE DEF p, s
  <2> QED BY <2>1, <2>2, <1>2, <1>3
<1>5. CASE q < p
  <2>1. PICK e \in Nat : p = q + 1 + e
    BY <1>2, <1>5
  <2>2. (q + 1 + e) * d = q * d + d + e * d /\ e * d \in Nat
    OBVIOUS
  <2> HIDE DEF p, s
  <2> QED BY <2>1, <2>2, <1>1, <1>2, <1>3
<1>6. CASE p = q
  <2> HIDE DEF p, s
  <2>1. s = r
    BY <1>1, <1>2, <1>3, <1>6
  <2> QED BY <2>1, <1>6 DEF p, s
<1> QED BY <1>2, <1>4, <1>5, <1>6

LEMMA OneMore == \A j, s \in Nat : (j + 1) * s = j * s + s /\ j * s \in Nat
  OBVIOUS

\* The rate, and the cells of a block.
LEMMA Rates == Rate \in Nat \ {0} /\ WordBytes \in Nat \ {0} /\ Zero \in Blocks
<1>1. Rate \in Nat \ {0} /\ WordBytes \in Nat \ {0}
  BY SpongeAssumption DEF SpongeAssumption
<1>2. Zero \in Blocks
  BY DEF Zero, Blocks, Byte
<1> QED BY <1>1, <1>2

\* The byte of the padded message at place p of its last block or before.
PaddedByte(m, p) ==
  IF p < Len(m) THEN m[p + 1]
  ELSE Xor(IF p = Len(m) THEN Suffix ELSE {}, IF p = PaddedLength(m) - 1 THEN LastBit ELSE {})

LEMMA PaddedByteIs ==
  ASSUME NEW m \in Seq(Byte), NEW p \in Nat, NEW l \in Nat, l = PaddedLength(m), Len(m) < l
  PROVE  {b \in 0 .. 7 : PaddedBit(m, 8 * p + b)} = PaddedByte(m, p)
<1>1. \A b \in 0 .. 7 : (8 * p + b) \div 8 = p /\ (8 * p + b) % 8 = b
  OBVIOUS
<1>2. Len(m) \in Nat
  OBVIOUS
<1>3. CASE p < Len(m)
  <2>1. m[p + 1] \subseteq 0 .. 7
    BY <1>2, <1>3 DEF Byte
  <2>2. \A b \in 0 .. 7 : PaddedBit(m, 8 * p + b) <=> b \in m[p + 1]
    BY <1>1, <1>2, <1>3 DEF PaddedBit
  <2> QED BY <2>1, <2>2, <1>3 DEF PaddedByte
<1>4. CASE p = Len(m)
  <2>1. \A b \in 0 .. 7 : PaddedBit(m, 8 * p + b) <=> b < 5 \/ 8 * p + b = 8 * l - 1
    BY <1>2, <1>4 DEF PaddedBit
  <2>2. \A b \in 0 .. 7 : 8 * p + b = 8 * l - 1 <=> (b = 7 /\ p = l - 1)
    OBVIOUS
  <2>3. PaddedByte(m, p) = Xor(Suffix, IF p = l - 1 THEN LastBit ELSE {})
    BY <1>4, <1>2 DEF PaddedByte
  <2>4. PaddedByte(m, p) = {b \in 0 .. 7 : b < 5 \/ (b = 7 /\ p = l - 1)}
    <3>1. CASE p = l - 1
      BY <2>3, <3>1 DEF Xor, Suffix, LastBit
    <3>2. CASE p # l - 1
      BY <2>3, <3>2 DEF Xor, Suffix
    <3> QED BY <3>1, <3>2
  <2> QED BY <2>1, <2>2, <2>4
<1>5. CASE p > Len(m)
  <2>1. \A b \in 0 .. 7 : PaddedBit(m, 8 * p + b) <=> 8 * p + b = 8 * l - 1
    BY <1>2, <1>5 DEF PaddedBit
  <2>2. \A b \in 0 .. 7 : 8 * p + b = 8 * l - 1 <=> (b = 7 /\ p = l - 1)
    OBVIOUS
  <2>3. PaddedByte(m, p) = Xor({}, IF p = l - 1 THEN LastBit ELSE {})
    BY <1>5, <1>2 DEF PaddedByte
  <2>4. PaddedByte(m, p) = {b \in 0 .. 7 : b = 7 /\ p = l - 1}
    <3>1. CASE p = l - 1
      BY <2>3, <3>1 DEF Xor, LastBit
    <3>2. CASE p # l - 1
      BY <2>3, <3>2 DEF Xor
    <3> QED BY <3>1, <3>2
  <2> QED BY <2>1, <2>2, <2>4
<1> QED BY <1>2, <1>3, <1>4, <1>5

\* Padding makes whole blocks, of which the last has room for it.
LEMMA PaddedLengthIs ==
  ASSUME NEW m \in Seq(Byte)
  PROVE  /\ Len(m) \div Rate \in Nat /\ Len(m) % Rate \in Cells
         /\ Len(m) = (Len(m) \div Rate) * Rate + (Len(m) % Rate)
         /\ PaddedLength(m) = (Len(m) \div Rate) * Rate + Rate
         /\ PaddedLength(m) \in Nat /\ Len(m) < PaddedLength(m)
<1> DEFINE q == Len(m) \div Rate  r == Len(m) % Rate
<1>1. Len(m) \in Nat /\ Rate \in Nat \ {0}
  BY Rates
<1>2. q \in Nat /\ r \in 0 .. Rate - 1 /\ Len(m) = Rate * q + r
  BY <1>1, DivMod
<1>3. PaddedLength(m) = (q + 1) * Rate
  BY DEF PaddedLength
<1> HIDE DEF q, r
<1>4. (q + 1) * Rate = q * Rate + Rate /\ Rate * q = q * Rate /\ q * Rate \in Nat
  BY <1>1, <1>2
<1> QED BY <1>1, <1>2, <1>3, <1>4 DEF q, r, Cells

LEMMA PaddedBlockIs ==
  ASSUME NEW m \in Seq(Byte), NEW n \in Nat
  PROVE  PaddedBlock(m, n) = [i \in Cells |-> PaddedByte(m, n * Rate + i)]
<1>1. PaddedLength(m) \in Nat /\ Len(m) < PaddedLength(m)
  BY PaddedLengthIs
<1>2. ASSUME NEW i \in Cells PROVE n * Rate + i \in Nat
  BY <1>2, Rates DEF Cells
<1>3. ASSUME NEW i \in Cells
      PROVE  {b \in 0 .. 7 : PaddedBit(m, 8 * (n * Rate + i) + b)} = PaddedByte(m, n * Rate + i)
  BY <1>1, <1>2, PaddedByteIs
<1> QED BY <1>3 DEF PaddedBlock

----------------------------------------------------------------------------
(* The inductive invariant *)

\* While absorbing, the state has taken the first blocks of the padded message.
Absorbing ==
  pc = "absorb" =>
    /\ produced = 0 /\ offset = Len(absorbed) * Rate
    /\ \A n \in 1 .. Len(absorbed) : absorbed[n] = PaddedBlock(input, n - 1)

\* While squeezing, it has taken all of them and j blocks of zeros, and the output
\* so far is that of j permutations, or all of it.
SqueezedTo(j) ==
  /\ Len(absorbed) = Len(input) \div Rate + 1 + j
  /\ \A n \in 1 .. Len(absorbed) :
       absorbed[n] = IF n <= Len(input) \div Rate + 1 THEN PaddedBlock(input, n - 1) ELSE Zero
  /\ \/ produced = j * Rate /\ (j * Rate < output_size \/ (j = 0 /\ output_size = 0))
     \/ produced = output_size /\ j * Rate < output_size /\ output_size <= j * Rate + Rate
  /\ output \in [1 .. output_size -> Nat \X Cells]
  /\ \A k \in 1 .. produced : output[k] = ReferenceByte(input, k - 1)

Squeezing ==
  /\ pc \in {"squeeze", "returned"} => \E j \in Nat : SqueezedTo(j)
  /\ pc = "returned" => produced = output_size

Answered ==
  answers \in Seq({[request |-> r, digest |-> Reference(Preimage(r), OutputSize(r))] : r \in Requests})

IInv == TypeOK /\ Absorbing /\ Squeezing /\ Answered

\* When a whole block is left it is the next one of the padded message.
LEMMA NextBlock ==
  ASSUME IInv, pc = "absorb", BlockLeft
  PROVE  LET b == [i \in Cells |-> input[offset + i + 1]] IN
         b \in Blocks /\ b = PaddedBlock(input, Len(absorbed))
<1> DEFINE b == [i \in Cells |-> input[offset + i + 1]]
<1>1. /\ input \in Seq(Byte) /\ offset \in Nat /\ Len(absorbed) \in Nat /\ Len(input) \in Nat
      /\ offset = Len(absorbed) * Rate /\ offset + Rate <= Len(input) /\ Rate \in Nat \ {0}
  BY Rates DEF IInv, TypeOK, SpongeTypeOK, Absorbing, BlockLeft
<1>2. ASSUME NEW i \in Cells
      PROVE  offset + i < Len(input) /\ offset + i + 1 \in 1 .. Len(input)
  BY <1>1, <1>2 DEF Cells
<1>3. b \in Blocks
  BY <1>1, <1>2 DEF Blocks
<1>4. ASSUME NEW i \in Cells PROVE b[i] = PaddedByte(input, Len(absorbed) * Rate + i)
  BY <1>1, <1>2 DEF PaddedByte
<1>5. b = PaddedBlock(input, Len(absorbed))
  <2>1. PaddedBlock(input, Len(absorbed)) = [i \in Cells |-> PaddedByte(input, Len(absorbed) * Rate + i)]
    BY <1>1, PaddedBlockIs
  <2> QED BY <2>1, <1>4
<1> QED BY <1>3, <1>5

\* When none is left, the block of lines 98 to 104 is the last of the padded message.
LEMMA FinalBlock ==
  ASSUME IInv, pc = "absorb", ~BlockLeft
  PROVE  /\ LastBlock \in Blocks /\ LastBlock = PaddedBlock(input, Len(absorbed))
         /\ Len(input) \div Rate = Len(absorbed)
<1>1. /\ input \in Seq(Byte) /\ offset \in Nat /\ Len(absorbed) \in Nat /\ Len(input) \in Nat
      /\ offset = Len(absorbed) * Rate /\ offset + Rate > Len(input) /\ offset <= Len(input)
      /\ Rate \in Nat \ {0}
  BY Rates DEF IInv, TypeOK, SpongeTypeOK, Absorbing, BlockLeft
<1> DEFINE r == Len(input) - offset  n == Len(absorbed)
<1>2. r \in 0 .. Rate - 1 /\ n * Rate \in Nat /\ Len(input) = n * Rate + r
  BY <1>1
<1>3. Len(input) \div Rate = n
  <2> HIDE DEF r, n
  <2>1. (n * Rate + r) \div Rate = n
    BY <1>1, <1>2, DivIs DEF n
  <2> QED BY <2>1, <1>2
<1>4. PaddedLength(input) = n * Rate + Rate
  BY <1>1, <1>3, PaddedLengthIs
<1>5. ASSUME NEW i \in Cells
      PROVE  LastBlock[i] = PaddedByte(input, n * Rate + i)
  <2>1. /\ i \in Nat /\ (i < r <=> n * Rate + i < Len(input))
        /\ (i = r <=> n * Rate + i = Len(input))
        /\ (i = Rate - 1 <=> n * Rate + i = PaddedLength(input) - 1)
    <3> DEFINE o == n * Rate
    <3>1. o \in Nat /\ Len(input) = o + r /\ PaddedLength(input) = o + Rate /\ i \in 0 .. Rate - 1
      BY <1>2, <1>4, <1>5 DEF Cells
    <3> HIDE DEF o, r
    <3> QED BY <3>1, <1>1, <1>2 DEF o
  <2>2. CASE i < r
    <3>1. i # r /\ i # Rate - 1 /\ input[offset + i + 1] = input[n * Rate + i + 1]
      <4>1. i # r /\ i # Rate - 1
        <5> HIDE DEF r
        <5> QED BY <1>1, <1>2, <2>1, <2>2
      <4> QED BY <4>1, <1>1
    <3>2. LastBlock[i] = Xor(Xor(input[offset + i + 1], {}), {})
      BY <2>2, <3>1 DEF LastBlock
    <3>3. LastBlock[i] = input[offset + i + 1]
      BY <3>2 DEF Xor
    <3> QED BY <2>1, <2>2, <3>1, <3>3 DEF PaddedByte
  <2>3. CASE ~(i < r)
    <3>1. LastBlock[i] = Xor(Xor({}, IF i = r THEN Suffix ELSE {}), IF i = Rate - 1 THEN LastBit ELSE {})
      BY <2>3 DEF LastBlock
    <3>2. \A S : Xor({}, S) = S
      BY DEF Xor
    <3>3. PaddedByte(input, n * Rate + i)
            = Xor(IF i = r THEN Suffix ELSE {}, IF i = Rate - 1 THEN LastBit ELSE {})
      BY <2>1, <2>3 DEF PaddedByte
    <3> QED BY <3>1, <3>2, <3>3
  <2> QED BY <2>2, <2>3
<1>6. LastBlock = PaddedBlock(input, n)
  BY <1>1, <1>5, PaddedBlockIs DEF LastBlock
<1>7. PaddedBlock(input, n) \in Blocks
  BY DEF PaddedBlock, Blocks, Byte
<1> QED BY <1>3, <1>6, <1>7

\* A chunk is squeezed byte by byte, its last word too.
LEMMA SqueezedIs ==
  ASSUME NEW c \in Nat, NEW j \in 0 .. c - 1, Len(absorbed) \in Nat
  PROVE  Squeezed(c, j) = <<Len(absorbed), j>>
<1>1. WordBytes \in Nat \ {0} /\ j \in Nat
  BY Rates
<1>2. j = WordBytes * (j \div WordBytes) + (j % WordBytes) /\ j \div WordBytes \in Nat
      /\ j % WordBytes \in Nat
  BY <1>1, DivMod
<1>3. (j \div WordBytes) * WordBytes + (j % WordBytes) = j
  <2> DEFINE q == j \div WordBytes  r == j % WordBytes
  <2> HIDE DEF q, r
  <2>1. q * WordBytes = WordBytes * q
    BY <1>1, <1>2 DEF q
  <2> QED BY <2>1, <1>1, <1>2 DEF q, r
<1>4. c \div WordBytes \in Nat
  BY <1>1, DivMod
<1>5. (c \div WordBytes) * WordBytes + (j - (c \div WordBytes) * WordBytes) = j
  <2> DEFINE w == c \div WordBytes
  <2> HIDE DEF w
  <2>1. w * WordBytes \in Nat
    BY <1>1, <1>4 DEF w
  <2> QED BY <2>1, <1>1 DEF w
<1> QED BY <1>3, <1>5 DEF Squeezed, StateByte

LEMMA InitIInv == Init => IInv
<1> SUFFICES ASSUME Init PROVE IInv
  OBVIOUS
<1>1. SpongeTypeOK
  <2>1. output \in [1 .. 0 -> Nat \X Cells]
    BY DEF Init, Idle
  <2> QED BY <2>1 DEF Init, Idle, SpongeTypeOK
<1>2. TypeOK
  BY <1>1, HashingAssumption DEF Init, Idle, TypeOK, HashingAssumption
<1> QED BY <1>2 DEF Init, Idle, IInv, Absorbing, Squeezing, Answered

LEMMA AskIInv == IInv /\ Ask => IInv'
<1> SUFFICES ASSUME IInv, Ask PROVE IInv'
  OBVIOUS
<1>1. PICK r \in Requests :
        Len(answers) < MaxCalls /\ Start(Preimage(r), OutputSize(r)) /\ request' = r /\ UNCHANGED answers
  BY DEF Ask
<1>2. Preimage(r) \in Seq(Byte) /\ OutputSize(r) \in Nat
  BY PreimageIs, PreimagesAssumption DEF PreimagesAssumption
<1>3. /\ input' = Preimage(r) /\ output_size' = OutputSize(r) /\ offset' = 0 /\ absorbed' = <<>>
      /\ produced' = 0 /\ output' = <<>> /\ pc' = "absorb"
  BY <1>1 DEF Start
<1>4. SpongeTypeOK'
  <2>1. output' \in [1 .. 0 -> Nat \X Cells]
    BY <1>3
  <2>2. absorbed' \in Seq(Blocks) /\ offset' \in 0 .. Len(input') /\ produced' \in 0 .. output_size'
    BY <1>2, <1>3
  <2> QED BY <2>1, <2>2, <1>2, <1>3 DEF SpongeTypeOK
<1>5. TypeOK'
  BY <1>1, <1>3, <1>4 DEF TypeOK, IInv
<1>6. Absorbing'
  <2>1. 0 * Rate = 0 /\ Len(absorbed') = 0
    BY <1>3, Rates
  <2> QED BY <1>3, <2>1 DEF Absorbing
<1>7. Squeezing' /\ Answered'
  BY <1>1, <1>3 DEF Squeezing, Answered, IInv
<1> QED BY <1>5, <1>6, <1>7 DEF IInv

LEMMA AbsorbBlockIInv == IInv /\ AbsorbBlock /\ UNCHANGED <<request, answers>> => IInv'
<1> SUFFICES ASSUME IInv, AbsorbBlock, UNCHANGED <<request, answers>> PROVE IInv'
  OBVIOUS
<1> DEFINE b == [i \in Cells |-> input[offset + i + 1]]  n == Len(absorbed)
<1>1. /\ pc = "absorb" /\ BlockLeft /\ absorbed' = Append(absorbed, b) /\ offset' = offset + Rate
      /\ UNCHANGED <<input, output_size, produced, output, pc>>
  BY DEF AbsorbBlock, Permute
<1>2. b \in Blocks /\ b = PaddedBlock(input, n)
  BY <1>1, NextBlock
<1>3. /\ absorbed \in Seq(Blocks) /\ offset \in Nat /\ input \in Seq(Byte) /\ n \in Nat
      /\ offset + Rate <= Len(input) /\ Rate \in Nat /\ produced = 0 /\ offset = n * Rate
      /\ \A k \in 1 .. n : absorbed[k] = PaddedBlock(input, k - 1)
  BY <1>1, Rates DEF IInv, TypeOK, SpongeTypeOK, BlockLeft, Absorbing
<1> HIDE DEF b
<1>4. /\ absorbed' \in Seq(Blocks) /\ Len(absorbed') = n + 1 /\ absorbed'[n + 1] = b
      /\ \A k \in 1 .. n : absorbed'[k] = absorbed[k]
  BY <1>1, <1>2, <1>3
<1>5. TypeOK'
  <2>1. offset' \in 0 .. Len(input')
    BY <1>1, <1>3
  <2> QED BY <2>1, <1>1, <1>4 DEF IInv, TypeOK, SpongeTypeOK
<1>6. Absorbing'
  <2>1. offset' = (n + 1) * Rate
    BY <1>1, <1>3, OneMore
  <2>2. ASSUME NEW k \in 1 .. n + 1 PROVE absorbed'[k] = PaddedBlock(input, k - 1)
    <3>1. CASE k \in 1 .. n
      BY <3>1, <1>3, <1>4
    <3>2. CASE k = n + 1
      BY <3>2, <1>2, <1>3, <1>4
    <3> QED BY <3>1, <3>2, <1>3
  <2>3. \A k : PaddedBlock(input', k) = PaddedBlock(input, k)
    BY <1>1
  <2> QED BY <2>1, <2>2, <2>3, <1>1, <1>3, <1>4 DEF Absorbing
<1>7. Squeezing' /\ Answered'
  BY <1>1 DEF Squeezing, Answered, IInv
<1> QED BY <1>5, <1>6, <1>7 DEF IInv

LEMMA AbsorbLastIInv == IInv /\ AbsorbLast /\ UNCHANGED <<request, answers>> => IInv'
<1> SUFFICES ASSUME IInv, AbsorbLast, UNCHANGED <<request, answers>> PROVE IInv'
  OBVIOUS
<1> DEFINE n == Len(absorbed)
<1>1. /\ pc = "absorb" /\ ~BlockLeft /\ absorbed' = Append(absorbed, LastBlock)
      /\ output' = [k \in 1 .. output_size |-> NoByte] /\ pc' = "squeeze"
      /\ UNCHANGED <<input, output_size, offset, produced>>
  BY DEF AbsorbLast, Permute
<1>2. LastBlock \in Blocks /\ LastBlock = PaddedBlock(input, n) /\ Len(input) \div Rate = n
  BY <1>1, FinalBlock
<1>3. /\ absorbed \in Seq(Blocks) /\ n \in Nat /\ output_size \in Nat /\ produced = 0
      /\ Rate \in Nat \ {0}
      /\ \A k \in 1 .. n : absorbed[k] = PaddedBlock(input, k - 1)
  BY <1>1, Rates DEF IInv, TypeOK, SpongeTypeOK, Absorbing
<1>4. /\ absorbed' \in Seq(Blocks) /\ Len(absorbed') = n + 1 /\ absorbed'[n + 1] = LastBlock
      /\ \A k \in 1 .. n : absorbed'[k] = absorbed[k]
  BY <1>1, <1>2, <1>3
<1>5. output' \in [1 .. output_size -> Nat \X Cells]
  BY <1>1, <1>3 DEF NoByte, Cells
<1>6. TypeOK'
  BY <1>1, <1>4, <1>5 DEF IInv, TypeOK, SpongeTypeOK
<1>7. SqueezedTo(0)'
  <2>1. ASSUME NEW k \in 1 .. n + 1
        PROVE  absorbed'[k] = IF k <= n + 1 THEN PaddedBlock(input, k - 1) ELSE Zero
    <3>1. CASE k \in 1 .. n
      BY <3>1, <1>3, <1>4
    <3>2. CASE k = n + 1
      BY <3>2, <1>2, <1>3, <1>4
    <3> QED BY <3>1, <3>2, <1>3
  <2>2. 0 * Rate = 0 /\ Len(input') \div Rate = n /\ produced' = 0 /\ output_size' = output_size
    BY <1>1, <1>2, <1>3
  <2>3. \A k : PaddedBlock(input', k) = PaddedBlock(input, k)
    BY <1>1
  <2> HIDE DEF n
  <2>4. n + 1 + 0 = n + 1 /\ n \in Nat /\ Len(absorbed') = n + 1
    BY <1>3, <1>4 DEF n
  <2> QED BY <2>1, <2>2, <2>3, <2>4, <1>3, <1>5 DEF SqueezedTo
<1>8. Absorbing' /\ Squeezing' /\ Answered'
  BY <1>1, <1>7 DEF Absorbing, Squeezing, Answered, IInv
<1> QED BY <1>6, <1>8 DEF IInv

LEMMA SqueezeIInv == IInv /\ Squeeze /\ UNCHANGED <<request, answers>> => IInv'
<1> SUFFICES ASSUME IInv, Squeeze, UNCHANGED <<request, answers>> PROVE IInv'
  OBVIOUS
<1> DEFINE n == Len(absorbed)  c == Chunk  q == Len(input) \div Rate
<1>1. /\ pc = "squeeze" /\ produced < output_size
      /\ output' = [k \in 1 .. output_size |->
                      IF produced < k /\ k <= produced + c
                      THEN Squeezed(c, k - 1 - produced) ELSE output[k]]
      /\ produced' = produced + c
      /\ absorbed' = IF produced' < output_size THEN Append(absorbed, Zero) ELSE absorbed
      /\ UNCHANGED <<input, output_size, offset, pc>>
  BY DEF Squeeze, SqueezeAtLeast, Permute
<1>2. PICK j \in Nat : SqueezedTo(j)
  BY <1>1 DEF IInv, Squeezing
<1>3. /\ absorbed \in Seq(Blocks) /\ n \in Nat /\ output_size \in Nat /\ produced \in Nat
      /\ Rate \in Nat \ {0} /\ input \in Seq(Byte) /\ Zero \in Blocks
  BY Rates DEF IInv, TypeOK, SpongeTypeOK
<1>4. q \in Nat
  BY <1>3, PaddedLengthIs
<1>5. /\ produced = j * Rate /\ j * Rate \in Nat /\ (j + 1) * Rate = j * Rate + Rate
      /\ n = q + 1 + j
  BY <1>1, <1>2, <1>3, OneMore DEF SqueezedTo
<1>6. /\ c \in 1 .. Rate /\ produced + c <= output_size
      /\ c # Rate => produced + c = output_size
      /\ output_size - produced > Rate => c = Rate
  BY <1>1, <1>3 DEF Chunk
<1> HIDE DEF c
<1>7. ASSUME NEW k \in 1 .. output_size, produced < k, k <= produced + c
      PROVE  output'[k] = ReferenceByte(input, k - 1) /\ output'[k] \in Nat \X Cells
  <2> DEFINE i == k - 1 - produced
  <2>1. i \in 0 .. c - 1 /\ i \in 0 .. Rate - 1 /\ c \in Nat /\ k - 1 = j * Rate + i
    BY <1>3, <1>5, <1>6, <1>7
  <2> HIDE DEF i
  <2>2. Squeezed(c, i) = <<n, i>>
    BY <2>1, <1>3, SqueezedIs
  <2>3. (j * Rate + i) \div Rate = j /\ (j * Rate + i) % Rate = i
    BY <2>1, <1>3, DivIs
  <2>4. ReferenceByte(input, k - 1) = <<q + 1 + j, i>>
    BY <2>1, <2>3 DEF ReferenceByte
  <2>5. output'[k] = <<n, i>>
    BY <1>1, <1>7, <2>2 DEF i
  <2>6. output'[k] = ReferenceByte(input, k - 1)
    BY <2>4, <2>5, <1>5
  <2>7. i \in Cells
    BY <2>1, <1>3, Rates DEF Cells
  <2>8. output'[k] \in Nat \X Cells
    BY <2>5, <2>7, <1>3
  <2> QED BY <2>6, <2>8
<1>8. ASSUME NEW k \in 1 .. produced
      PROVE  output'[k] = ReferenceByte(input, k - 1)
  <2>1. k \in 1 .. output_size /\ ~(produced < k)
    BY <1>1, <1>3, <1>8
  <2> QED BY <2>1, <1>1, <1>2, <1>8 DEF SqueezedTo
<1>9. output' \in [1 .. output_size -> Nat \X Cells]
  BY <1>1, <1>2, <1>7 DEF SqueezedTo
<1>10. \A k \in 1 .. produced' : output'[k] = ReferenceByte(input, k - 1)
  <2> SUFFICES ASSUME NEW k \in 1 .. produced' PROVE output'[k] = ReferenceByte(input, k - 1)
    OBVIOUS
  <2>1. CASE k \in 1 .. produced
    BY <2>1, <1>8
  <2>2. CASE produced < k
    <3>1. k \in 1 .. output_size /\ k <= produced + c
      BY <1>1, <1>3, <1>6
    <3> QED BY <3>1, <2>2, <1>7
  <2> QED BY <2>1, <2>2, <1>1, <1>3, <1>6
<1>11. \A k : /\ PaddedBlock(input', k) = PaddedBlock(input, k)
              /\ ReferenceByte(input', k) = ReferenceByte(input, k)
  BY <1>1
<1>12. CASE produced' < output_size
  <2>1. /\ absorbed' = Append(absorbed, Zero) /\ absorbed' \in Seq(Blocks)
        /\ Len(absorbed') = q + 1 + (j + 1)
        /\ \A k \in 1 .. n : absorbed'[k] = absorbed[k]
        /\ absorbed'[n + 1] = Zero /\ Len(absorbed') = n + 1
    BY <1>1, <1>3, <1>4, <1>5, <1>12
  <2>2. produced' = (j + 1) * Rate
    BY <1>1, <1>3, <1>5, <1>6, <1>12
  <2>3. ASSUME NEW k \in 1 .. n + 1
        PROVE  absorbed'[k] = IF k <= q + 1 THEN PaddedBlock(input, k - 1) ELSE Zero
    <3>1. CASE k \in 1 .. n
      BY <3>1, <2>1, <1>2 DEF SqueezedTo
    <3>2. CASE k = n + 1
      <4>1. ~(k <= q + 1)
        BY <3>2, <1>4, <1>5
      <4> QED BY <4>1, <3>2, <2>1
    <3> QED BY <3>1, <3>2, <1>3
  <2>4. SqueezedTo(j + 1)'
    <3> HIDE DEF n, q
    <3>1. q = Len(input') \div Rate
      BY <1>1 DEF q
    <3> QED BY <3>1, <2>1, <2>2, <2>3, <1>1, <1>9, <1>10, <1>11, <1>12 DEF SqueezedTo
  <2>5. TypeOK'
    <3>1. produced' \in 0 .. output_size'
      BY <1>1, <1>3, <1>6
    <3> QED BY <3>1, <2>1, <1>1, <1>9 DEF IInv, TypeOK, SpongeTypeOK
  <2> QED BY <2>4, <2>5, <1>1, <1>2 DEF IInv, Absorbing, Squeezing, Answered
<1>13. CASE ~(produced' < output_size)
  <2>1. /\ absorbed' = absorbed /\ produced' = output_size
        /\ j * Rate < output_size /\ output_size <= j * Rate + Rate
    BY <1>1, <1>3, <1>5, <1>6, <1>13
  <2>2. SqueezedTo(j)'
    BY <2>1, <1>1, <1>2, <1>9, <1>10, <1>11 DEF SqueezedTo
  <2>3. TypeOK'
    <3>1. produced' = output_size /\ output_size' = output_size /\ output_size \in Nat
      BY <2>1, <1>1, <1>3
    <3>2. produced' \in 0 .. output_size'
      BY <3>1
    <3> QED BY <3>2, <2>1, <1>1, <1>9 DEF IInv, TypeOK, SpongeTypeOK
  <2> QED BY <2>2, <2>3, <1>1, <1>2 DEF IInv, Absorbing, Squeezing, Answered
<1> QED BY <1>12, <1>13

\* What is squeezed when nothing is missing is the sponge of the input.
LEMMA SqueezedAll ==
  ASSUME IInv, pc \in {"squeeze", "returned"}, produced = output_size
  PROVE  <<absorbed, output>> = Reference(input, output_size)
<1> DEFINE q == Len(input) \div Rate  z == Zeros(output_size)
<1>1. PICK j \in Nat : SqueezedTo(j)
  BY DEF IInv, Squeezing
<1>2. /\ absorbed \in Seq(Blocks) /\ output_size \in Nat /\ Rate \in Nat \ {0} /\ input \in Seq(Byte)
      /\ j * Rate \in Nat
  BY Rates, OneMore DEF IInv, TypeOK, SpongeTypeOK
<1>3. z = j
  <2>1. CASE output_size = 0
    BY <1>1, <1>2, <2>1 DEF SqueezedTo, Zeros
  <2>2. CASE output_size # 0
    <3> DEFINE r == output_size - 1 - j * Rate
    <3>1. j * Rate < output_size /\ output_size <= j * Rate + Rate
      BY <1>1, <1>2, <2>2 DEF SqueezedTo
    <3>2. r \in 0 .. Rate - 1 /\ output_size - 1 = j * Rate + r
      BY <3>1, <1>2
    <3> HIDE DEF r
    <3>3. (j * Rate + r) \div Rate = j
      BY <3>2, <1>2, DivIs
    <3> QED BY <3>2, <3>3, <2>2 DEF Zeros
  <2> QED BY <2>1, <2>2
<1>4. absorbed = ReferenceBlocks(input, output_size)
  <2>1. absorbed = [n \in 1 .. Len(absorbed) |-> absorbed[n]]
    BY <1>2
  <2>2. /\ Len(absorbed) = q + 1 + z
        /\ \A n \in 1 .. Len(absorbed) :
             absorbed[n] = IF n <= q + 1 THEN PaddedBlock(input, n - 1) ELSE Zero
    BY <1>1, <1>3 DEF SqueezedTo
  <2>3. ReferenceBlocks(input, output_size)
          = [n \in 1 .. q + 1 + z |-> IF n <= q + 1 THEN PaddedBlock(input, n - 1) ELSE Zero]
    BY DEF ReferenceBlocks
  <2> HIDE DEF q, z
  <2> QED BY <2>1, <2>2, <2>3
<1>5. output = [k \in 1 .. output_size |-> ReferenceByte(input, k - 1)]
  BY <1>1 DEF SqueezedTo
<1> QED BY <1>4, <1>5 DEF Reference

LEMMA AnswerIInv == IInv /\ Answer => IInv'
<1> SUFFICES ASSUME IInv, Answer PROVE IInv'
  OBVIOUS
<1> DEFINE a == [request |-> request, digest |-> <<absorbed, output>>]
<1>1. /\ pc = "squeeze" /\ produced >= output_size /\ pc' = "returned"
      /\ answers' = Append(answers, a)
      /\ UNCHANGED <<input, output_size, offset, absorbed, produced, output, request>>
  BY DEF Answer, Return
<1>2. produced = output_size
  BY <1>1 DEF IInv, TypeOK, SpongeTypeOK
<1>3. request \in Requests /\ input = Preimage(request) /\ output_size = OutputSize(request)
  BY <1>1 DEF IInv, TypeOK
<1>4. a \in {[request |-> r, digest |-> Reference(Preimage(r), OutputSize(r))] : r \in Requests}
  BY <1>1, <1>2, <1>3, SqueezedAll
<1> HIDE DEF a
<1>5. Answered'
  BY <1>1, <1>4 DEF Answered, IInv
<1>6. TypeOK' /\ Absorbing'
  BY <1>1 DEF IInv, TypeOK, SpongeTypeOK, Absorbing
<1>7. Squeezing'
  <2>1. PICK j \in Nat : SqueezedTo(j)
    BY <1>1 DEF IInv, Squeezing
  <2>2. SqueezedTo(j)'
    BY <2>1, <1>1 DEF SqueezedTo
  <2> QED BY <2>2, <1>1, <1>2 DEF Squeezing
<1> QED BY <1>5, <1>6, <1>7 DEF IInv

----------------------------------------------------------------------------
(* Padding is injective *)

\* The last padded block of a message ends with a set bit.
LEMMA LastBlockEnds ==
  ASSUME NEW m \in Seq(Byte)
  PROVE  PaddedBlock(m, Len(m) \div Rate) # Zero
<1> DEFINE q == Len(m) \div Rate  p == q * Rate + (Rate - 1)
<1>1. /\ q \in Nat /\ PaddedLength(m) = q * Rate + Rate /\ Len(m) < PaddedLength(m)
      /\ Len(m) \in Nat /\ Rate \in Nat \ {0} /\ q * Rate \in Nat
  BY PaddedLengthIs, Rates, OneMore
<1>2. Rate - 1 \in Cells
  BY <1>1 DEF Cells
<1>3. PaddedBlock(m, q)[Rate - 1] = PaddedByte(m, p)
  BY <1>1, <1>2, PaddedBlockIs
<1>4. p = PaddedLength(m) - 1 /\ ~(p < Len(m))
  <2> HIDE DEF q
  <2> QED BY <1>1
<1>5. PaddedByte(m, p) = Xor(IF p = Len(m) THEN Suffix ELSE {}, LastBit)
  BY <1>4 DEF PaddedByte
<1>6. 7 \in PaddedByte(m, p)
  BY <1>5 DEF Xor, Suffix, LastBit
<1>7. Zero[Rate - 1] = {}
  BY <1>2 DEF Zero
<1> QED BY <1>3, <1>6, <1>7

LEMMA ZerosAre == \A s \in Nat : Zeros(s) \in Nat
<1> SUFFICES ASSUME NEW s \in Nat PROVE Zeros(s) \in Nat
  OBVIOUS
<1>1. CASE s = 0
  BY <1>1 DEF Zeros
<1>2. CASE s # 0
  <2>1. s - 1 \in Nat
    BY <1>2
  <2>2. (s - 1) \div Rate \in Nat
    BY <2>1, Rates, DivMod
  <2> QED BY <2>2, <1>2 DEF Zeros
<1> QED BY <1>1, <1>2

\* Two messages that are padded to the same blocks, zeros aside, have as many.
LEMMA SameBlocks ==
  ASSUME NEW m \in Seq(Byte), NEW n \in Seq(Byte), NEW s \in Nat, NEW t \in Nat,
         ReferenceBlocks(m, s) = ReferenceBlocks(n, t)
  PROVE  ~(Len(m) \div Rate < Len(n) \div Rate)
<1> SUFFICES ASSUME Len(m) \div Rate < Len(n) \div Rate PROVE FALSE
  OBVIOUS
<1> DEFINE a == Len(m) \div Rate  b == Len(n) \div Rate
           y == Zeros(s)  z == Zeros(t)
<1>1. a \in Nat /\ b \in Nat
  BY PaddedLengthIs
<1>2. y \in Nat /\ z \in Nat
  BY ZerosAre
<1>3. ReferenceBlocks(m, s) = [k \in 1 .. a + 1 + y |-> IF k <= a + 1 THEN PaddedBlock(m, k - 1) ELSE Zero]
  BY DEF ReferenceBlocks
<1>4. ReferenceBlocks(n, t) = [k \in 1 .. b + 1 + z |-> IF k <= b + 1 THEN PaddedBlock(n, k - 1) ELSE Zero]
  BY DEF ReferenceBlocks
<1>5. PaddedBlock(n, b) # Zero
  BY LastBlockEnds
<1> DEFINE R == ReferenceBlocks(n, t)
<1> HIDE DEF a, b, y, z, R
<1> DEFINE c == b + 1
<1>6. c \in 1 .. b + 1 + z /\ c <= b + 1 /\ c - 1 = b
  BY <1>1, <1>2
<1> HIDE DEF c
<1>8. R[c] = PaddedBlock(n, c - 1) /\ c \in DOMAIN R
  <2>1. R = [k \in 1 .. b + 1 + z |-> IF k <= b + 1 THEN PaddedBlock(n, k - 1) ELSE Zero]
    BY <1>4 DEF R
  <2> QED BY <2>1, <1>6
<1>9. ~(c <= a + 1)
  BY <1>1 DEF a, b, c
<1>10. R[c] = Zero
  <2>1. R = [k \in 1 .. a + 1 + y |-> IF k <= a + 1 THEN PaddedBlock(m, k - 1) ELSE Zero]
    BY <1>3 DEF R
  <2>2. c \in 1 .. a + 1 + y
    BY <2>1, <1>8
  <2> QED BY <2>1, <2>2, <1>9
<1> QED BY <1>5, <1>6, <1>8, <1>10

\* And are one message.
LEMMA PaddingInjective ==
  ASSUME NEW m \in Seq(Byte), NEW n \in Seq(Byte), NEW s \in Nat, NEW t \in Nat,
         ReferenceBlocks(m, s) = ReferenceBlocks(n, t)
  PROVE  m = n
<1> DEFINE q == Len(m) \div Rate  l == q * Rate + Rate
<1>1. Len(n) \div Rate = q /\ q \in Nat
  <2>1. ~(Len(m) \div Rate < Len(n) \div Rate)
    BY SameBlocks
  <2>2. ~(Len(n) \div Rate < Len(m) \div Rate)
    BY SameBlocks
  <2>3. Len(m) \div Rate \in Nat /\ Len(n) \div Rate \in Nat
    BY PaddedLengthIs
  <2> QED BY <2>1, <2>2, <2>3
<1>2. /\ PaddedLength(m) = l /\ PaddedLength(n) = l /\ Len(m) < l /\ Len(n) < l
      /\ Len(m) \in Nat /\ Len(n) \in Nat /\ l \in Nat /\ Rate \in Nat \ {0}
  <2>1. Len(m) \in Nat /\ Len(n) \in Nat /\ Rate \in Nat \ {0}
    BY Rates
  <2>2. PaddedLength(m) = l /\ Len(m) < PaddedLength(m)
    BY PaddedLengthIs
  <2>3. PaddedLength(n) = (Len(n) \div Rate) * Rate + Rate /\ Len(n) < PaddedLength(n)
    BY PaddedLengthIs
  <2>4. PaddedLength(n) = l
    BY <1>1, <2>3, Zenon
  <2>5. l \in Nat
    <3> HIDE DEF q
    <3> QED BY <1>1, <2>1
  <2> QED BY <2>1, <2>2, <2>3, <2>4, <2>5
<1>3. ASSUME NEW k \in 0 .. q
      PROVE  PaddedBlock(m, k) = PaddedBlock(n, k)
  <2> DEFINE y == Zeros(s)  z == Zeros(t)
  <2>1. y \in Nat /\ z \in Nat
    BY ZerosAre
  <2>2. ReferenceBlocks(m, s) = [i \in 1 .. q + 1 + y |-> IF i <= q + 1 THEN PaddedBlock(m, i - 1) ELSE Zero]
    BY DEF ReferenceBlocks
  <2>3. ReferenceBlocks(n, t) = [i \in 1 .. q + 1 + z |-> IF i <= q + 1 THEN PaddedBlock(n, i - 1) ELSE Zero]
    BY <1>1 DEF ReferenceBlocks
  <2> DEFINE c == k + 1
  <2> HIDE DEF q, y, z
  <2>4. c \in 1 .. q + 1 + y /\ c \in 1 .. q + 1 + z /\ c <= q + 1 /\ c - 1 = k
    BY <2>1, <1>1, <1>3 DEF q
  <2> HIDE DEF c
  <2>5. ReferenceBlocks(m, s)[c] = PaddedBlock(m, c - 1)
    BY <2>2, <2>4
  <2>6. ReferenceBlocks(n, t)[c] = PaddedBlock(n, c - 1)
    BY <2>3, <2>4
  <2> QED BY <2>4, <2>5, <2>6
<1>4. ASSUME NEW p \in 0 .. l - 1 PROVE PaddedByte(m, p) = PaddedByte(n, p)
  <2> DEFINE j == p \div Rate  i == p % Rate
  <2>1. j \in Nat /\ i \in 0 .. Rate - 1 /\ p = Rate * j + i
    <3>1. p \in Nat
      BY <1>2, <1>4
    <3> QED BY <3>1, <1>2, DivMod
  <2>2. j <= q
    <3> HIDE DEF j, i, q
    <3>1. CASE q < j
      <4>1. PICK e \in Nat : j = q + 1 + e
        BY <3>1, <2>1, <1>1
      <4>2. Rate * j = q * Rate + Rate + e * Rate /\ e * Rate \in Nat /\ q * Rate \in Nat
        BY <4>1, <1>1, <1>2
      <4> QED BY <4>2, <2>1, <1>2
    <3> QED BY <3>1, <2>1, <1>1
  <2>3. j \in 0 .. q
    BY <2>1, <2>2, <1>1
  <2>4. PaddedBlock(m, j) = PaddedBlock(n, j)
    BY <1>3, <2>3
  <2>5. j * Rate + i = p /\ i \in Cells
    <3> HIDE DEF j, i
    <3>1. Rate * j = j * Rate
      BY <1>2, <2>1
    <3> QED BY <3>1, <1>2, <2>1 DEF Cells
  <2>6. PaddedBlock(m, j)[i] = PaddedByte(m, p) /\ PaddedBlock(n, j)[i] = PaddedByte(n, p)
    <3> HIDE DEF j, i
    <3>1. PaddedBlock(m, j) = [x \in Cells |-> PaddedByte(m, j * Rate + x)]
      BY <2>1, PaddedBlockIs
    <3>2. PaddedBlock(n, j) = [x \in Cells |-> PaddedByte(n, j * Rate + x)]
      BY <2>1, PaddedBlockIs
    <3> QED BY <3>1, <3>2, <2>5
  <2> QED BY <2>4, <2>6
<1> HIDE DEF l, q
<1>5. ASSUME NEW u \in Seq(Byte), NEW v \in Seq(Byte), Len(u) < Len(v), Len(v) < l,
             PaddedLength(u) = l, PaddedLength(v) = l,
             PaddedByte(u, Len(v)) = PaddedByte(v, Len(v))
      PROVE  FALSE
  <2>1. Len(u) \in Nat /\ Len(v) \in Nat
    OBVIOUS
  <2>2. PaddedByte(u, Len(v)) = Xor({}, IF Len(v) = l - 1 THEN LastBit ELSE {})
    BY <2>1, <1>5 DEF PaddedByte
  <2>3. PaddedByte(v, Len(v)) = Xor(Suffix, IF Len(v) = l - 1 THEN LastBit ELSE {})
    BY <2>1, <1>5 DEF PaddedByte
  <2>4. 0 \notin PaddedByte(u, Len(v))
    BY <2>2 DEF Xor, LastBit
  <2>5. 0 \in PaddedByte(v, Len(v))
    BY <2>3 DEF Xor, Suffix, LastBit
  <2> QED BY <2>4, <2>5, <1>5
<1>6. Len(m) = Len(n)
  <2>1. ~(Len(m) < Len(n))
    <3>1. Len(n) \in 0 .. l - 1
      BY <1>2
    <3>2. PaddedByte(m, Len(n)) = PaddedByte(n, Len(n))
      BY <3>1, <1>4
    <3> QED BY <3>2, <1>2, <1>5
  <2>2. ~(Len(n) < Len(m))
    <3>1. Len(m) \in 0 .. l - 1
      BY <1>2
    <3>2. PaddedByte(m, Len(m)) = PaddedByte(n, Len(m))
      BY <3>1, <1>4
    <3> QED BY <3>2, <1>2, <1>5
  <2> QED BY <2>1, <2>2, <1>2
<1>7. ASSUME NEW i \in 1 .. Len(m) PROVE m[i] = n[i]
  <2>1. i - 1 \in 0 .. l - 1 /\ i - 1 < Len(m) /\ i - 1 < Len(n) /\ i - 1 + 1 = i
    BY <1>2, <1>6, <1>7
  <2>2. PaddedByte(m, i - 1) = m[i - 1 + 1] /\ PaddedByte(n, i - 1) = n[i - 1 + 1]
    BY <2>1 DEF PaddedByte
  <2> QED BY <2>1, <2>2, <1>4
<1> QED BY <1>6, <1>7, SameSeq

----------------------------------------------------------------------------
(* Theorems *)

LEMMA Inductive == Spec => []IInv
<1>1. IInv /\ [Next]_vars => IInv'
  <2> SUFFICES ASSUME IInv, [Next]_vars PROVE IInv'
    OBVIOUS
  <2>1. CASE Ask
    BY <2>1, AskIInv
  <2>2. CASE Hash
    BY <2>2, AbsorbBlockIInv, AbsorbLastIInv, SqueezeIInv DEF Hash
  <2>3. CASE Answer
    BY <2>3, AnswerIInv
  <2>4. CASE UNCHANGED vars
    <3>1. \A k : PaddedBlock(input', k) = PaddedBlock(input, k)
      BY <2>4 DEF vars
    <3> QED BY <2>4 DEF vars, IInv, TypeOK, SpongeTypeOK, Absorbing, Squeezing, SqueezedTo, Answered
  <2> QED BY <2>1, <2>2, <2>3, <2>4 DEF Next
<1> QED BY <1>1, InitIInv, PTL DEF Spec

\* The offset never leaves the input, nor the output its size, and every byte
\* squeezed is one of a state's first Rate bytes.
THEOREM TypeCorrect == Spec => []TypeOK
<1>1. IInv => TypeOK
  BY DEF IInv
<1> QED BY <1>1, Inductive, PTL

\* At every length of input and output, shake256 returns SHAKE256 of its input.
THEOREM ShakeIsSponge == Spec => []OutputIsSponge
<1>1. IInv => OutputIsSponge
  <2> SUFFICES ASSUME IInv, pc = "returned" PROVE <<absorbed, output>> = Reference(input, output_size)
    BY DEF OutputIsSponge
  <2>1. produced = output_size
    BY DEF IInv, Squeezing
  <2> QED BY <2>1, SqueezedAll
<1> QED BY <1>1, Inductive, PTL

\* Derivations have the same digest exactly if what they are to cover is the same.
THEOREM DigestsApart == Spec => []NoCollision
<1>1. IInv => NoCollision
  <2> SUFFICES ASSUME IInv, NEW a \in Range(answers), NEW b \in Range(answers),
                      a.request \in Derivations, b.request \in Derivations
               PROVE  a.digest = b.digest <=> Covered(a.request) = Covered(b.request)
    BY DEF NoCollision
  <2> DEFINE x == a.request  y == b.request
  <2>1. /\ a.digest = Reference(Preimage(x), OutputSize(x))
        /\ b.digest = Reference(Preimage(y), OutputSize(y))
    BY DEF IInv, Answered, Range
  <2>2. /\ Preimage(x) \in Seq(Byte) /\ Preimage(y) \in Seq(Byte)
        /\ OutputSize(x) \in Nat /\ OutputSize(y) \in Nat
    BY PreimageIs
  <2>3. a.digest = b.digest => Preimage(x) = Preimage(y)
    BY <2>1, <2>2, PaddingInjective DEF Reference
  <2>4. Preimage(x) = Preimage(y) => a.digest = b.digest
    BY <2>1, PreimagesApart
  <2> QED BY <2>3, <2>4, PreimagesApart
<1> QED BY <1>1, Inductive, PTL
==============================================================================
