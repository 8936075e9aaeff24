----------------------------- MODULE PowParams -----------------------------
(***************************************************************************)
(* The constants of a proof-of-work replay.  The mixing functions of       *)
(* pow.cpp and round_function.cpp are operators of the values they are     *)
(* called with; a scratch is the array that LaneScratch implements; an     *)
(* item is a function of the cache and the index, which is what Dataset    *)
(* shows of get_item; a work is the pair of header digest and nonce.       *)
(***************************************************************************)
EXTENDS Bytes, Sequences

CONSTANTS
  Keys, Works, Targets,   \* (profile, seed) pairs, (digest, nonce) pairs, targets
  Lanes, Rounds,          \* ProfileParameters::lanes, rounds
  Gen, Offered,           \* Gen[k]: C_e of k; Offered[k]: caches verify_pow is given
  States, Units, Indices, \* LaneState, ScratchUnit, the indices of a scratch
  Items,                  \* DatasetItem
  LaneInit(_, _, _),      \* initialize_lane_state(key, work, lane)
  ScratchInit(_, _, _),   \* the scratch of (key, work, lane)
  ItemOf(_, _),           \* get_item reading a cache, at an index
  ReadIndex0(_, _),       \* scratch_read_index0(state, round)
  ReadIndex1(_, _, _),    \* scratch_read_index1(state, round, the first)
  ItemIndex(_, _, _),     \* the next item's index (state, round, trace so far)
  NextState(_, _, _),     \* next_state(state, round, trace)
  WriteIndex(_, _, _),    \* scratch_write_index(next state, round, trace)
  WriteUnit(_, _, _),     \* scratch_write_unit(next state, round, trace)
  PowHash(_, _)           \* the fold and the hash of (key, final states by lane)

ItemsPerRound == 3

\* What a round has read, once it has n of its items.
TracesOf(n) == [read : Indices \X Indices, unit : Units \X Units, item : [1 .. n -> Items]]
Traces == UNION {TracesOf(n) : n \in 0 .. ItemsPerRound}

ASSUME ReplayAssumption ==
  /\ Lanes \in Nat \ {0} /\ Rounds \in Nat
  /\ DOMAIN Gen = Keys /\ DOMAIN Offered = Keys
  /\ Targets \subseteq Hash256

\* Ranges of the mixing functions, as the types of the code have them.
ASSUME MixAssumption ==
  /\ \A k \in Keys, w \in Works, l \in 0 .. Lanes - 1 :
       LaneInit(k, w, l) \in States /\ ScratchInit(k, w, l) \in [Indices -> Units]
  /\ \A k \in Keys : \A c \in Offered[k] \union {Gen[k]} :
       \A s \in States, n \in 0 .. Rounds - 1, m \in 0 .. ItemsPerRound - 1 :
         \A tr \in TracesOf(m) : ItemOf(c, ItemIndex(s, n, tr)) \in Items
  /\ \A s \in States, n \in 0 .. Rounds - 1 :
       /\ ReadIndex0(s, n) \in Indices
       /\ \A i \in Indices : ReadIndex1(s, n, i) \in Indices
       /\ \A tr \in TracesOf(ItemsPerRound) :
            /\ NextState(s, n, tr) \in States
            /\ WriteIndex(NextState(s, n, tr), n, tr) \in Indices
            /\ WriteUnit(NextState(s, n, tr), n, tr) \in Units
  /\ \A k \in Keys, f \in [0 .. Lanes - 1 -> States] : PowHash(k, f) \in Hash256

\* What the caller asks for, and what a call ends with.
Inputs ==
  [op : {"pow_hash"}, key : Keys, work : Works]
  \union UNION {[op : {"verify"}, key : {k}, work : Works, cache : Offered[k], target : Targets]
                : k \in Keys}

NoInput == [op |-> "none"]
NoOutcome == [kind |-> "none"]
Hashed(h) == [kind |-> "hashed", hash |-> h]
Verified(h, met) == [kind |-> "verified", hash |-> h, target_met |-> met]
Threw(why) == [kind |-> "threw", why |-> why]
WrongSize(i) == i.op = "verify" /\ DOMAIN i.cache # DOMAIN Gen[i.key]
=============================================================================
