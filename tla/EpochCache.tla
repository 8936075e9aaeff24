----------------------------- MODULE EpochCache -----------------------------
(***************************************************************************)
(* core/epoch_cache.cpp: the cache override of each thread, the one memo   *)
(* the process keeps, and the rebuild that fills the memo in place.        *)
(*                                                                         *)
(* The override is thread_local (line 118) and the memo a plain static     *)
(* (line 142).  A thread of Miners reads with or without an override; the  *)
(* others, the verifiers, read only under the override verify_pow installs *)
(* for the key it replays.  A step is one access to shared state: the      *)
(* memo's key, its resize, one block of the rebuild, the read.  Words,     *)
(* bytes and blocks of a cache are one unit here, the block; EpochCache    *)
(* enumerates offsets that do not overflow 64 bits, CacheLayout the others.*)
(***************************************************************************)
EXTENDS EpochCacheParams, Sequences

CONSTANTS Miners,      \* threads that may read without an override
          CanFail      \* TRUE: an allocation may throw std::bad_alloc

ASSUME MinersAssumption == Miners \subseteq Threads /\ CanFail \in BOOLEAN

VARIABLES override,    \* CacheOverrideState of each thread
          scopes,      \* active_ of each thread's live scope objects, oldest first
          memo,        \* CacheMemoEntry, with the vector's capacity
          pc, call,    \* where each thread is, and the read it makes
          blk,         \* block_index of its rebuild loop
          ret          \* what it returns

shared == <<override, scopes, memo>>
local  == <<pc, call, blk, ret>>
vars   == <<override, scopes, memo, pc, call, blk, ret>>

\* active_epoch_cache_override: the override answers for this very key only.
Matches(t, k) == override[t].active /\ override[t].key = k

\* Mutant: the seed is not compared.
MemoHitsUnlessReseeded(k) == memo.init /\ memo.key.profile = k.profile

\* The memo answers for a key without a rebuild.
MemoHits(k) == memo.init /\ memo.key = k

Init ==
  /\ override = [t \in Threads |-> [active |-> FALSE, key |-> DefaultKey, cache |-> NoCache]]
  /\ scopes = [t \in Threads |-> <<>>]
  /\ memo = [init |-> FALSE, key |-> DefaultKey, cache |-> NoCache, capacity |-> 0]
  /\ pc = [t \in Threads |-> "idle"]
  /\ call = [t \in Threads |-> NoCall]
  /\ blk = [t \in Threads |-> 0]
  /\ ret = [t \in Threads |-> NoCache]

----------------------------------------------------------------------------
(* ScopedEpochCacheOverride *)

Construct(t) ==
  /\ pc[t] = "idle" /\ Len(scopes[t]) < MaxScopes[t]
  /\ ~override[t].active
  /\ \E k \in Keys : \E c \in Supplied[k] :
       override' = [override EXCEPT ![t] = [active |-> TRUE, key |-> k, cache |-> c]]
  /\ scopes' = [scopes EXCEPT ![t] = Append(@, TRUE)]
  /\ UNCHANGED <<memo, local>>

ConstructNull(t) ==
  /\ pc[t] = "idle" /\ Len(scopes[t]) < MaxScopes[t]
  /\ scopes' = [scopes EXCEPT ![t] = Append(@, FALSE)]
  /\ UNCHANGED <<override, memo, local>>

ConstructNested(t) ==
  /\ pc[t] = "idle" /\ Len(scopes[t]) < MaxScopes[t]
  /\ override[t].active
  /\ pc' = [pc EXCEPT ![t] = "threw"]
  /\ UNCHANGED <<shared, call, blk, ret>>

\* Scopes die newest first, on the normal path or as an exception unwinds.
Innermost(t) == scopes[t][Len(scopes[t])]
AllButLast(s) == [i \in 1 .. Len(s) - 1 |-> s[i]]

\* Mutant: every scope takes the override away.
DestroyAlways(t) ==
  /\ pc[t] \in {"idle", "threw"} /\ scopes[t] # <<>>
  /\ scopes' = [scopes EXCEPT ![t] = AllButLast(@)]
  /\ override' = [override EXCEPT ![t] = [active |-> FALSE, key |-> @.key, cache |-> NoCache]]
  /\ UNCHANGED <<memo, local>>

Destroy(t) ==
  /\ pc[t] \in {"idle", "threw"} /\ scopes[t] # <<>>
  /\ scopes' = [scopes EXCEPT ![t] = AllButLast(@)]
  /\ override' = IF Innermost(t)
                 THEN [override EXCEPT ![t] = [active |-> FALSE, key |-> @.key, cache |-> NoCache]]
                 ELSE override
  /\ UNCHANGED <<memo, local>>

----------------------------------------------------------------------------
(* epoch_cache_slice and epoch_cache_word *)

BeginOf(t, r) ==
  /\ pc[t] = "idle"
  /\ t \in Miners \/ Matches(t, r.key)
  /\ call' = [call EXCEPT ![t] = r]
  /\ pc' = [pc EXCEPT ![t] = IF Exceeds(r) THEN "threw" ELSE "lookup"]
  /\ UNCHANGED <<shared, blk, ret>>

Begin(t) == \E r \in Calls : BeginOf(t, r)

\* memoized_epoch_cache up to the call of rebuild_epoch_cache.
LookupUnder(t, hit) ==
  /\ pc[t] = "lookup"
  /\ IF hit
     THEN /\ pc' = [pc EXCEPT ![t] = "read"]
          /\ UNCHANGED memo
     ELSE /\ pc' = [pc EXCEPT ![t] = "assign"]
          /\ memo' = [memo EXCEPT !.key = call[t].key]
  /\ UNCHANGED <<override, scopes, call, blk, ret>>

\* Mutant: the override is not asked first.
LookupMemoOnly(t) == LookupUnder(t, MemoHits(call[t].key))

Lookup(t) == LookupUnder(t, Matches(t, call[t].key) \/ MemoHits(call[t].key))

\* rebuild_epoch_cache on the memo: cache->assign(size, 0), then block by block.
Assign(t) ==
  LET k == call[t].key IN
  /\ pc[t] = "assign"
  /\ memo' = [memo EXCEPT !.cache = [b \in Blocks(k) |-> Zero],
                          !.capacity = IF @ < BlockCount[k.profile] THEN BlockCount[k.profile] ELSE @]
  /\ pc' = [pc EXCEPT ![t] = "fill"]
  /\ UNCHANGED <<override, scopes, call, blk, ret>>

\* Growing the vector may throw, and leaves it as it was.
AssignFails(t) ==
  /\ pc[t] = "assign" /\ CanFail
  /\ memo.capacity < BlockCount[call[t].key.profile]
  /\ pc' = [pc EXCEPT ![t] = "threw"]
  /\ UNCHANGED <<shared, call, blk, ret>>

\* Cache c after std::copy of block b; beyond c's size it falls into spare capacity.
Stored(c, k, b) == [x \in DOMAIN c |-> IF x = b THEN Gen[k][x] ELSE c[x]]

FillStep(t, next) ==
  LET k == call[t].key IN
  /\ pc[t] = "fill" /\ blk[t] < BlockCount[k.profile]
  /\ memo' = [memo EXCEPT !.cache = Stored(@, k, blk[t])]
  /\ blk' = [blk EXCEPT ![t] = next]
  /\ UNCHANGED <<override, scopes, pc, call, ret>>

\* Mutant: the loop starts over.
FillStuck(t) == FillStep(t, 0)

Fill(t) == FillStep(t, blk[t] + 1)

\* generate_cache_block allocates its input and its shake256 output.
FillFails(t) ==
  /\ pc[t] = "fill" /\ CanFail
  /\ blk[t] < BlockCount[call[t].key.profile]
  /\ pc' = [pc EXCEPT ![t] = "threw"]
  /\ blk' = [blk EXCEPT ![t] = 0]
  /\ UNCHANGED <<shared, call, ret>>

FillDoneAfter(t, n) ==
  /\ pc[t] = "fill" /\ blk[t] = n
  /\ memo' = [memo EXCEPT !.init = TRUE]
  /\ pc' = [pc EXCEPT ![t] = "read"]
  /\ blk' = [blk EXCEPT ![t] = 0]
  /\ UNCHANGED <<override, scopes, call, ret>>

\* Mutant: the last block is left out.
FillDoneEarly(t) == FillDoneAfter(t, BlockCount[call[t].key.profile] - 1)

FillDone(t) == FillDoneAfter(t, BlockCount[call[t].key.profile])

\* Mutant: the slice is one block too long.
ReadsOfInclusive(c, r) ==
  {s \in [1 .. r.n + 1 -> Values] :
     \A i \in 1 .. r.n + 1 : r.lo + i - 1 \in DOMAIN c => s[i] = c[r.lo + i - 1]}

\* What the read r may return from cache c: beyond c's size, any value at all.
ReadsOf(c, r) ==
  {s \in [1 .. r.n -> Values] :
     \A i \in 1 .. r.n : r.lo + i - 1 \in DOMAIN c => s[i] = c[r.lo + i - 1]}

\* Mutant: the reference is the memo's.
CacheForMemoOnly(t) == memo.cache

\* The cache memoized_epoch_cache returned a reference to.
CacheFor(t) == IF Matches(t, call[t].key) THEN override[t].cache ELSE memo.cache

Read(t) ==
  /\ pc[t] = "read"
  /\ \E s \in ReadsOf(CacheFor(t), call[t]) : ret' = [ret EXCEPT ![t] = s]
  /\ pc' = [pc EXCEPT ![t] = "returned"]
  /\ UNCHANGED <<shared, call, blk>>

\* The caller takes the result, or catches the exception.
Finish(t) ==
  /\ pc[t] \in {"returned", "threw"}
  /\ pc' = [pc EXCEPT ![t] = "idle"]
  /\ call' = [call EXCEPT ![t] = NoCall]
  /\ ret' = [ret EXCEPT ![t] = NoCache]
  /\ UNCHANGED <<shared, blk>>

\* A step of rebuild_epoch_cache, or its exception.
Rebuild(t) ==
  /\ pc[t] \in {"assign", "fill"}
  /\ Assign(t) \/ Fill(t) \/ FillDone(t) \/ AssignFails(t) \/ FillFails(t)

Next == \E t \in Threads :
  \/ Construct(t) \/ ConstructNull(t) \/ ConstructNested(t) \/ Destroy(t)
  \/ Begin(t) \/ Lookup(t) \/ Rebuild(t) \/ Read(t) \/ Finish(t)

Spec == Init /\ [][Next]_vars

\* A thread inside a call runs on: the code takes no lock and waits for nothing.
Fairness == \A t \in Threads : WF_vars(Lookup(t) \/ Rebuild(t) \/ Read(t))

FairSpec == Spec /\ Fairness

----------------------------------------------------------------------------
(* Properties *)

TypeOK ==
  /\ override \in [Threads -> [active : BOOLEAN, key : Keys, cache : Caches]]
  /\ scopes \in [Threads -> Seq(BOOLEAN)]
  /\ memo \in [init : BOOLEAN, key : Keys, cache : Caches, capacity : Nat]
  /\ pc \in [Threads -> {"idle", "lookup", "assign", "fill", "read", "returned", "threw"}]
  /\ call \in [Threads -> Calls]
  /\ blk \in [Threads -> Nat]
  /\ ret \in [Threads -> Answers]

\* An override is active exactly while one live scope object owns it: neither a
\* scope built on a null cache nor a rejected nested one takes it away or leaves
\* it behind (lines 154-178).
Owners(s) == {i \in 1 .. Len(s) : s[i]}

OverrideOwned ==
  \A t \in Threads :
    /\ override[t].active <=> Owners(scopes[t]) # {}
    /\ \A i, j \in Owners(scopes[t]) : i = j
    /\ override[t].active => override[t].cache \in Supplied[override[t].key]

\* A read under an override returns the supplied cache's blocks, whatever the
\* memo holds and whatever other threads do to it: the verifier depends on no
\* epoch state but the cache it was given.
OverridePure ==
  \A t \in Threads :
    pc[t] = "returned" /\ Matches(t, call[t].key)
      => ret[t] = SliceOf(override[t].cache, call[t])

\* A thread whose read the override answers never writes the memo.
OverrideLeavesMemo ==
  [][\A t \in Threads :
       Matches(t, call[t].key) /\ <<pc[t], blk[t]>>' # <<pc[t], blk[t]>>
         => memo' = memo]_vars

\* An initialised memo that nobody is rebuilding holds the cache of its key.
MemoFaithful ==
  memo.init /\ (\A t \in Threads : pc[t] \notin {"assign", "fill"})
    => memo.cache = Gen[memo.key]

\* A read that no override answers returns the blocks of the generated cache:
\* C_e is a function of its profile and seed.
ReadsFresh ==
  \A t \in Threads :
    pc[t] = "returned" /\ ~Matches(t, call[t].key)
      => ret[t] = SliceOf(Gen[call[t].key], call[t])

\* Every read that starts comes back or throws.
ReadTerminates ==
  \A t \in Threads : pc[t] = "lookup" ~> pc[t] \in {"returned", "threw"}

\* The refinement: an active override is an installed one, and every state of a
\* read between its range check and its return is the busy one.
Installed(t) ==
  IF override[t].active THEN {[key |-> override[t].key, cache |-> override[t].cache]} ELSE {}
Phase(t) == IF pc[t] \in {"lookup", "assign", "fill", "read"} THEN "busy" ELSE pc[t]

Oracle == INSTANCE CacheOracle WITH
  installed <- [t \in Threads |-> Installed(t)],
  phase <- [t \in Threads |-> Phase(t)],
  request <- call,
  answer <- ret

\* The memo, its rekeying and its partly rebuilt states are invisible: the
\* cache behaves as the oracle that always generates afresh.
ImplementsOracle == Oracle!Spec
=============================================================================
