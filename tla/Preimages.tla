----------------------------- MODULE Preimages -----------------------------
(***************************************************************************)
(* The byte strings that core/ hands to shake256: a domain, a zero byte,   *)
(* and the fields of the derivation in order.  An integer is the set of    *)
(* its bits, a byte that of its eight, so a 64-bit field needs no 64-bit   *)
(* arithmetic.  A request is a call of a derivation with its arguments.    *)
(***************************************************************************)
EXTENDS Sponge

CONSTANTS Domain,      \* [Kinds -> the bytes of kHeaderDigestDomain, ...]
          Requests     \* calls that are tried

Kinds == {"header", "seed", "cache", "item", "scratch", "lane"}

LE(value, n) == [i \in 1 .. n |-> {b \in 0 .. 7 : 8 * (i - 1) + b \in value}]
LE32(value) == LE(value, 4)
LE64(value) == LE(value, 8)

\* ASCII.
Digit(bits) == {4, 5} \union bits
CX(a, b) == <<{0, 1, 6}, {3, 4, 6}, {0, 2, 3, 5}, Digit(a), Digit(b)>>

Sizes(name, dataset, cache, scratch, rounds) ==
  [name |-> name, dataset |-> dataset, cache |-> cache, scratch |-> scratch, rounds |-> rounds,
   lanes |-> {3}, unit |-> {7}]

\* profile_parameters; CX-128 has a sixth character.
Parameters ==
  [cx18  |-> Sizes(CX({0}, {3}),                     {32, 33}, {28}, {27},     {13}),
   cx32  |-> Sizes(CX({0, 1}, {1}),                  {33, 34}, {28}, {26, 27}, {12, 13}),
   cx64  |-> Sizes(CX({1, 2}, {2}),                  {34, 35}, {29}, {28},     {14}),
   cx128 |-> Sizes(CX({0}, {1}) \o <<Digit({3})>>,   {35, 36}, {29}, {27, 28}, {14})]

Profiles == DOMAIN Parameters

U32 == SUBSET (0 .. 31)
U64 == SUBSET (0 .. 63)
Hash256 == [1 .. 32 -> Byte]

BlockHeader ==
  [version : U32, height : U64, timestamp : U64, bits : U32, previous_block_hash : Hash256,
   transactions_root : Hash256, state_root : Hash256, nonce : U64, pow_result : Hash256]

HeaderCalls == [kind : {"header"}, header : BlockHeader]
SeedCalls == [kind : {"seed"}, chain_id : [1 .. 16 -> Byte], epoch_index : U64, anchor : Hash256]
CacheCalls == [kind : {"cache"}, profile : Profiles, seed : Hash256]
ItemCalls == [kind : {"item"}, profile : Profiles, seed : Hash256, index : U64]
LaneCalls(kind) ==
  [kind : {kind}, profile : Profiles, seed : Hash256, digest : Hash256, nonce : U64, lane : U32]

\* The derivations, with their arguments, and hashes of plain bytes.
Derivations ==
  HeaderCalls \union SeedCalls \union CacheCalls \union ItemCalls
    \union LaneCalls("scratch") \union LaneCalls("lane")
PlainHashes == [kind : {"raw"}, bytes : Seq(Byte), size : Nat]

ASSUME PreimagesAssumption ==
  /\ Domain \in [Kinds -> Seq(Byte \ {{}})]
  /\ \A x, y \in Kinds : Domain[x] = Domain[y] => x = y
  /\ Requests \subseteq Derivations \union PlainHashes

\* Mutant: the characters all names have.
NameOfFamily(p) == SubSeq(Parameters[p].name, 1, 3)

Name(p) == SubSeq(Parameters[p].name, 1, 5)

\* Mutant: the nonce is in.
SerializationWithNonce(h) ==
  LE32(h.version) \o LE64(h.height) \o LE64(h.timestamp) \o LE32(h.bits) \o h.previous_block_hash
    \o h.transactions_root \o h.state_root \o LE64(h.nonce)

\* canonical_header_serialization
Serialization(h) ==
  LE32(h.version) \o LE64(h.height) \o LE64(h.timestamp) \o LE32(h.bits) \o h.previous_block_hash
    \o h.transactions_root \o h.state_root

SeedFields(r) == r.chain_id \o LE64(r.epoch_index) \o r.anchor

CacheFields(r) ==
  LET p == Parameters[r.profile] IN
  Name(r.profile) \o LE64(p.cache) \o LE64(p.dataset) \o LE64(p.rounds) \o r.seed

ItemFields(r) ==
  LET p == Parameters[r.profile] IN
  Name(r.profile) \o LE64(p.dataset) \o LE64(p.cache) \o LE64(r.index) \o r.seed

ScratchFields(r) ==
  LET p == Parameters[r.profile] IN
  Name(r.profile) \o LE64(p.scratch) \o LE32(p.lanes) \o LE32(p.unit) \o LE64(r.nonce)
    \o LE32(r.lane) \o r.seed \o r.digest

LaneFields(r) ==
  LET p == Parameters[r.profile] IN
  Name(r.profile) \o LE64(p.rounds) \o LE32(p.lanes) \o LE32(r.lane) \o LE64(r.nonce)
    \o r.seed \o r.digest

Fields(r) ==
  CASE r.kind = "header"  -> Serialization(r.header)
    [] r.kind = "seed"    -> SeedFields(r)
    [] r.kind = "cache"   -> CacheFields(r)
    [] r.kind = "item"    -> ItemFields(r)
    [] r.kind = "scratch" -> ScratchFields(r)
    [] r.kind = "lane"    -> LaneFields(r)

\* Plain bytes are hashed by scratch_integrity_hash and by the test-vector tool.
Preimage(r) == IF r.kind = "raw" THEN r.bytes ELSE Domain[r.kind] \o <<{}>> \o Fields(r)

OutputSize(r) ==
  CASE r.kind = "raw" -> r.size
    [] r.kind \in {"header", "seed"} -> 32
    [] r.kind \in {"cache", "lane"} -> 64
    [] r.kind = "item" -> 256
    [] r.kind = "scratch" -> 128

\* What a digest is to depend on: all arguments, of a header all but the nonce and
\* the result (header.h).
Covered(r) ==
  IF r.kind = "header"
  THEN <<"header", [f \in DOMAIN r.header \ {"nonce", "pow_result"} |-> r.header[f]]>>
  ELSE <<"other", r>>
=============================================================================
