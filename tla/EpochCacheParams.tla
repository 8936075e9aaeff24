-------------------------- MODULE EpochCacheParams --------------------------
(***************************************************************************)
(* The constants of the epoch cache and what the derivation of its content *)
(* promises.  Content is abstract: a cache is a function from the indices  *)
(* of its 64-byte blocks to values, and Gen[k][b] is the block that        *)
(* generate_cache_block returns for key k = (profile, epoch seed).         *)
(***************************************************************************)
EXTENDS Naturals

CONSTANTS Threads,     \* threads that call into the library
          Profiles,    \* enum Profile
          Seeds,       \* epoch seeds
          Keys,        \* the (profile, seed) pairs in use
          BlockCount,  \* [Profiles -> blocks of a profile's cache]
          Values,      \* contents of a block
          Zero,        \* the block vector::assign leaves
          Gen,         \* Gen[k][b]: generate_cache_block
          Supplied,    \* Supplied[k]: caches a caller may install for k
          DefaultKey,  \* (Profile::kCx18, all-zero seed)
          MaxScopes,   \* bound: MaxScopes[t] live ScopedEpochCacheOverride objects of t
          MaxOffset,   \* bound: first block asked for by one read
          MaxLength    \* bound: blocks asked for by one read

Blocks(k) == 0 .. BlockCount[k.profile] - 1

NoCache == [b \in {} |-> Zero]          \* nullptr, and the empty vector

Caches == {NoCache} \union UNION {[Blocks(k) -> Values] : k \in Keys}

ASSUME EpochCacheAssumption ==
  /\ Keys \subseteq [profile : Profiles, seed : Seeds]
  /\ DefaultKey \in Keys
  /\ BlockCount \in [Profiles -> Nat \ {0}]
  /\ Zero \in Values
  /\ \A k \in Keys : Gen[k] \in [Blocks(k) -> Values]
  /\ \A k \in Keys : Supplied[k] \subseteq [Blocks(k) -> Values]
  /\ MaxScopes \in [Threads -> Nat]
  /\ MaxOffset \in Nat
  /\ MaxLength \in Nat

\* A read of n blocks from block lo on, and whether it passes the end.
Calls == [key : Keys, lo : 0 .. MaxOffset, n : 0 .. MaxLength]
NoCall == [key |-> DefaultKey, lo |-> 0, n |-> 0]
Exceeds(r) == r.lo > BlockCount[r.key.profile] \/ r.n > BlockCount[r.key.profile] - r.lo

Answers == UNION {[1 .. n -> Values] : n \in 0 .. MaxLength}

\* The blocks the read r takes from cache c.
SliceOf(c, r) == [i \in 1 .. r.n |-> c[r.lo + i - 1]]
=============================================================================
