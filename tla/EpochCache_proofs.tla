-------------------------- MODULE EpochCache_proofs --------------------------
(***************************************************************************)
(* Proofs about EpochCache.  For any number of threads on the memo, and    *)
(* failing allocations: type correctness, the ownership of overrides, and  *)
(* the purity of reads under an override.  When one thread at most reads   *)
(* through the memo and no allocation fails, it implements CacheOracle.    *)
(* Last, the same of get_item over the cache: a verification's items are   *)
(* of the cache it was given, and with one miner and no failing rebuild    *)
(* get_item implements Dataset.                                            *)
(***************************************************************************)
EXTENDS CachedItems, TLAPS

\* Caches and answers, by membership.
LEMMA CacheTypes ==
  /\ NoCache \in Caches
  /\ NoCache \in Answers
  /\ \A k \in Keys : BlockCount[k.profile] \in Nat /\ BlockCount[k.profile] > 0
  /\ \A k \in Keys : Gen[k] \in [Blocks(k) -> Values]
  /\ \A k \in Keys : [Blocks(k) -> Values] \subseteq Caches
  /\ \A k \in Keys : Supplied[k] \subseteq Caches
  /\ \A n \in 0 .. MaxLength : [1 .. n -> Values] \subseteq Answers
  /\ NoCall \in Calls
  /\ \A c \in Caches : c \in [DOMAIN c -> Values]
<1> USE EpochCacheAssumption
<1>1. NoCache \in Caches
  BY DEF Caches
<1>2. NoCache \in [1 .. 0 -> Values] /\ 0 \in 0 .. MaxLength
  BY DEF NoCache
<1>3. NoCache \in Answers
  BY <1>2 DEF Answers
<1>4. ASSUME NEW k \in Keys
      PROVE  BlockCount[k.profile] \in Nat /\ BlockCount[k.profile] > 0
  BY k.profile \in Profiles
<1>5. \A k \in Keys : Gen[k] \in [Blocks(k) -> Values]
  OBVIOUS
<1>6. \A k \in Keys : [Blocks(k) -> Values] \subseteq Caches
  BY Zenon DEF Caches
<1>7. \A k \in Keys : Supplied[k] \subseteq Caches
  BY <1>6
<1>8. \A n \in 0 .. MaxLength : [1 .. n -> Values] \subseteq Answers
  BY Zenon DEF Answers
<1>9. NoCall \in Calls
  BY DEF NoCall, Calls
<1>10. ASSUME NEW c \in Caches PROVE c \in [DOMAIN c -> Values]
  BY <1>10 DEF Caches, NoCache
<1> QED
  BY <1>1, <1>3, <1>4, <1>5, <1>6, <1>7, <1>8, <1>9, <1>10

\* Storing a generated block in a cache, where the block fits, leaves a cache.
LEMMA StoreBlock ==
  ASSUME NEW c \in Caches, NEW k \in Keys, NEW b \in Blocks(k)
  PROVE  Stored(c, k, b) \in Caches
<1>1. Stored(c, k, b) \in [DOMAIN c -> Values]
  BY CacheTypes DEF Stored
<1>2. CASE c = NoCache
  BY <1>2, <1>1, CacheTypes DEF NoCache, Stored
<1>3. CASE \E j \in Keys : c \in [Blocks(j) -> Values]
  BY <1>3, <1>1, CacheTypes
<1> QED
  BY <1>2, <1>3 DEF Caches

LEMMA InitTyped == Init => TypeOK
BY CacheTypes, EpochCacheAssumption DEF Init, TypeOK

\* Every step of every thread keeps the types.
LEMMA TypesKept == ASSUME TypeOK, [Next]_vars PROVE TypeOK'
<1> USE CacheTypes DEF TypeOK
<1>1. ASSUME NEW t \in Threads, Construct(t) PROVE TypeOK'
  BY <1>1 DEF Construct, local
<1>2. ASSUME NEW t \in Threads, ConstructNull(t) PROVE TypeOK'
  BY <1>2 DEF ConstructNull, local
<1>3. ASSUME NEW t \in Threads, ConstructNested(t) PROVE TypeOK'
  BY <1>3 DEF ConstructNested, shared
<1>4. ASSUME NEW t \in Threads, Destroy(t) PROVE TypeOK'
  <2>1. override' \in [Threads -> [active : BOOLEAN, key : Keys, cache : Caches]]
    BY <1>4 DEF Destroy
  <2>2. scopes' \in [Threads -> Seq(BOOLEAN)]
    <3>1. scopes[t] \in Seq(BOOLEAN) /\ scopes[t] # <<>>
      BY <1>4 DEF Destroy
    <3>2. AllButLast(scopes[t]) \in Seq(BOOLEAN)
      BY <3>1 DEF AllButLast
    <3> QED
      BY <1>4, <3>2 DEF Destroy
  <2> QED
    BY <1>4, <2>1, <2>2 DEF Destroy, local
<1>5. ASSUME NEW t \in Threads, Begin(t) PROVE TypeOK'
  BY <1>5 DEF Begin, BeginOf, shared
<1>6. ASSUME NEW t \in Threads, Lookup(t) PROVE TypeOK'
  <2>1. memo' \in [init : BOOLEAN, key : Keys, cache : Caches, capacity : Nat]
    BY <1>6, call[t].key \in Keys, EpochCacheAssumption DEF Lookup, LookupUnder, Calls
  <2> QED
    BY <1>6, <2>1 DEF Lookup, LookupUnder
<1>7. ASSUME NEW t \in Threads, Assign(t) PROVE TypeOK'
  BY <1>7, EpochCacheAssumption DEF Assign, Calls, Blocks
<1>8. ASSUME NEW t \in Threads, AssignFails(t) PROVE TypeOK'
  BY <1>8 DEF AssignFails, shared
<1>9. ASSUME NEW t \in Threads, Fill(t) PROVE TypeOK'
  <2>1. call[t].key \in Keys /\ blk[t] \in Blocks(call[t].key)
    BY <1>9 DEF Fill, FillStep, Calls, Blocks
  <2>2. Stored(memo.cache, call[t].key, blk[t]) \in Caches
    BY <2>1, StoreBlock
  <2>3. memo' \in [init : BOOLEAN, key : Keys, cache : Caches, capacity : Nat]
    BY <1>9, <2>2 DEF Fill, FillStep
  <2>4. blk' \in [Threads -> Nat]
    BY <1>9 DEF Fill, FillStep
  <2> QED
    BY <1>9, <2>3, <2>4 DEF Fill, FillStep
<1>10. ASSUME NEW t \in Threads, FillFails(t) PROVE TypeOK'
  BY <1>10 DEF FillFails, shared
<1>11. ASSUME NEW t \in Threads, FillDone(t) PROVE TypeOK'
  BY <1>11 DEF FillDone, FillDoneAfter
<1>12. ASSUME NEW t \in Threads, Read(t) PROVE TypeOK'
  <2>1. PICK c \in {override[t].cache, memo.cache} :
           \E s \in ReadsOf(c, call[t]) : ret' = [ret EXCEPT ![t] = s]
    BY <1>12 DEF Read, CacheFor
  <2>2. ReadsOf(c, call[t]) \subseteq Answers
    BY DEF ReadsOf, Calls
  <2> QED
    BY <1>12, <2>1, <2>2 DEF Read, CacheFor, shared
<1>13. ASSUME NEW t \in Threads, Finish(t) PROVE TypeOK'
  BY <1>13 DEF Finish, shared
<1>14. CASE UNCHANGED vars
  BY <1>14 DEF vars
<1> QED
  BY <1>1, <1>2, <1>3, <1>4, <1>5, <1>6, <1>7, <1>8, <1>9, <1>10, <1>11, <1>12,
     <1>13, <1>14 DEF Next, Rebuild

\* Every variable keeps its type, whatever the threads do.
THEOREM TypeCorrect == Spec => []TypeOK
BY InitTyped, TypesKept, PTL DEF Spec

----------------------------------------------------------------------------
(* Overrides *)

\* A read that passed its range check takes exactly its slice from a cache of
\* its profile's size: nothing past the end is left to chance.
LEMMA ReadInRange ==
  ASSUME NEW r \in Calls, ~Exceeds(r),
         NEW c \in [Blocks(r.key) -> Values], NEW s \in ReadsOf(c, r)
  PROVE  s = SliceOf(c, r)
<1>1. BlockCount[r.key.profile] \in Nat /\ r.lo \in Nat /\ r.n \in Nat
  BY CacheTypes DEF Calls
<1>2. ASSUME NEW i \in 1 .. r.n PROVE r.lo + i - 1 \in DOMAIN c
  BY <1>1 DEF Exceeds, Blocks
<1>3. s = [i \in 1 .. r.n |-> s[i]]
  BY DEF ReadsOf
<1>4. \A i \in 1 .. r.n : s[i] = c[r.lo + i - 1]
  BY <1>2 DEF ReadsOf
<1> QED
  BY <1>3, <1>4 DEF SliceOf

\* How the owning scopes change as scopes come and go.
LEMMA OwnersOf ==
  ASSUME NEW s \in Seq(BOOLEAN)
  PROVE  /\ Owners(<<>>) = {}
         /\ Owners(Append(s, FALSE)) = Owners(s)
         /\ Owners(Append(s, TRUE)) = Owners(s) \union {Len(s) + 1}
         /\ s # <<>> => Owners(AllButLast(s)) = Owners(s) \ {Len(s)}
         /\ s # <<>> => (s[Len(s)] <=> Len(s) \in Owners(s))
<1>1. Owners(<<>>) = {}
  BY DEF Owners
<1>2. ASSUME NEW b \in BOOLEAN
      PROVE  /\ Len(Append(s, b)) = Len(s) + 1
             /\ \A i \in 1 .. Len(s) : Append(s, b)[i] = s[i]
             /\ Append(s, b)[Len(s) + 1] = b
  OBVIOUS
<1>3. Owners(Append(s, FALSE)) = Owners(s) /\ Owners(Append(s, TRUE)) = Owners(s) \union {Len(s) + 1}
  BY <1>2 DEF Owners
<1>4. ASSUME s # <<>>
      PROVE  /\ Owners(AllButLast(s)) = Owners(s) \ {Len(s)}
             /\ s[Len(s)] <=> Len(s) \in Owners(s)
  <2>1. Len(s) \in Nat \ {0}
    BY <1>4
  <2>2. Len(AllButLast(s)) = Len(s) - 1
    BY <2>1 DEF AllButLast
  <2>3. \A i \in 1 .. Len(s) - 1 : AllButLast(s)[i] = s[i]
    BY <2>1 DEF AllButLast
  <2>4. Owners(AllButLast(s)) = {i \in 1 .. Len(s) - 1 : s[i]}
    BY <2>2, <2>3, Zenon DEF Owners
  <2>5. Owners(AllButLast(s)) = Owners(s) \ {Len(s)}
    BY <2>1, <2>4 DEF Owners
  <2> QED
    BY <2>1, <2>5 DEF Owners
<1> QED
  BY <1>1, <1>3, <1>4

\* The override of a thread is active while exactly one of its scopes owns it.
THEOREM OverrideOwnership == Spec => []OverrideOwned
<1>1. Init => OverrideOwned
  <2>1. Owners(<<>>) = {}
    BY DEF Owners
  <2>2. ASSUME Init, NEW t \in Threads
        PROVE  override[t].active = FALSE /\ scopes[t] = <<>>
    BY <2>2 DEF Init
  <2> QED
    BY <2>1, <2>2 DEF OverrideOwned
<1>2. TypeOK /\ OverrideOwned /\ [Next]_vars => OverrideOwned'
  <2> SUFFICES ASSUME TypeOK, OverrideOwned, [Next]_vars PROVE OverrideOwned'
    OBVIOUS
  <2>1. ASSUME NEW t \in Threads, Construct(t) PROVE OverrideOwned'
    <3>1. PICK k \in Keys : \E c \in Supplied[k] :
            override' = [override EXCEPT ![t] = [active |-> TRUE, key |-> k, cache |-> c]]
      BY <2>1 DEF Construct
    <3>2. Owners(scopes[t]) = {} /\ scopes[t] \in Seq(BOOLEAN)
      BY <2>1 DEF Construct, OverrideOwned, TypeOK
    <3>3. Owners(scopes[t]') = {Len(scopes[t]) + 1}
      BY <2>1, <3>2, OwnersOf DEF Construct, TypeOK
    <3>4. \A u \in Threads \ {t} : scopes'[u] = scopes[u] /\ override'[u] = override[u]
      BY <2>1 DEF Construct, TypeOK
    <3>5. override'[t].active = TRUE /\ override'[t].cache \in Supplied[override'[t].key]
      BY <3>1 DEF TypeOK
    <3>6. \A u \in Threads \ {t} :
            /\ override'[u].active <=> Owners(scopes'[u]) # {}
            /\ \A i, j \in Owners(scopes'[u]) : i = j
            /\ override'[u].active => override'[u].cache \in Supplied[override'[u].key]
      BY <3>4 DEF OverrideOwned
    <3>7. Owners(scopes'[t]) # {} /\ \A i, j \in Owners(scopes'[t]) : i = j
      BY <3>3
    <3> QED
      BY <3>5, <3>6, <3>7 DEF OverrideOwned
  <2>2. ASSUME NEW t \in Threads, ConstructNull(t) PROVE OverrideOwned'
    <3>1. Owners(scopes[t]') = Owners(scopes[t])
      BY <2>2, OwnersOf DEF ConstructNull, TypeOK
    <3>2. \A u \in Threads : u = t \/ scopes'[u] = scopes[u]
      BY <2>2 DEF ConstructNull, TypeOK
    <3> QED
      BY <2>2, <3>1, <3>2 DEF ConstructNull, OverrideOwned
  <2>3. ASSUME NEW t \in Threads, Destroy(t) PROVE OverrideOwned'
    <3>1. /\ Owners(scopes[t]') = Owners(scopes[t]) \ {Len(scopes[t])}
          /\ Innermost(t) <=> Len(scopes[t]) \in Owners(scopes[t])
      BY <2>3, OwnersOf DEF Destroy, Innermost, TypeOK
    <3>2. \A u \in Threads \ {t} : scopes'[u] = scopes[u] /\ override'[u] = override[u]
      BY <2>3 DEF Destroy, TypeOK
    <3>3. CASE Innermost(t)
      <4>1. ~override'[t].active
        BY <2>3, <3>3 DEF Destroy, TypeOK
      <4>2. Owners(scopes[t]') = {}
        BY <3>1, <3>3 DEF OverrideOwned
      <4> QED
        BY <3>2, <4>1, <4>2 DEF OverrideOwned
    <3>4. CASE ~Innermost(t)
      <4>1. Owners(scopes[t]') = Owners(scopes[t]) /\ override' = override
        <5>1. Len(scopes[t]) \notin Owners(scopes[t])
          BY <3>1, <3>4, Zenon
        <5>2. Owners(scopes[t]') = Owners(scopes[t])
          BY <3>1, <5>1
        <5>3. override' = override
          BY <2>3, <3>4, Zenon DEF Destroy
        <5> QED
          BY <5>2, <5>3
      <4> QED
        BY <3>2, <4>1 DEF OverrideOwned
    <3> QED
      BY <3>3, <3>4
  <2>4. CASE UNCHANGED <<override, scopes>>
    BY <2>4 DEF OverrideOwned
  <2> QED
    BY <2>1, <2>2, <2>3, <2>4 DEF Next, Rebuild, ConstructNested, Begin, BeginOf, Lookup, LookupUnder,
       Assign, AssignFails, Fill, FillStep, FillFails, FillDone, FillDoneAfter, Read, CacheFor,
       Finish, vars, shared
<1> QED
  BY <1>1, <1>2, TypeCorrect, PTL DEF Spec

\* A call past its range check asks only for blocks its profile has.
CallOK ==
  \A t \in Threads :
    pc[t] \in {"lookup", "assign", "fill", "read"} => ~Exceeds(call[t])

\* A rebuild is never in progress under an override that answers for its key.
RebuildUnmatched ==
  \A t \in Threads : pc[t] \in {"assign", "fill"} => ~Matches(t, call[t].key)

PureInv == CallOK /\ RebuildUnmatched /\ OverridePure

LEMMA PureInvariant == Spec => []PureInv
<1>1. Init => PureInv
  BY DEF Init, PureInv, CallOK, RebuildUnmatched, OverridePure
<1>2. TypeOK /\ OverrideOwned /\ PureInv /\ [Next]_vars => PureInv'
  <2> SUFFICES ASSUME TypeOK, OverrideOwned, PureInv, [Next]_vars PROVE PureInv'
    OBVIOUS
  <2> USE DEF PureInv, CallOK, RebuildUnmatched, OverridePure, TypeOK, Matches
  <2>1. ASSUME NEW t \in Threads, Construct(t) PROVE PureInv'
    BY <2>1 DEF Construct, local
  <2>2. ASSUME NEW t \in Threads, ConstructNull(t) PROVE PureInv'
    BY <2>2 DEF ConstructNull, local
  <2>3. ASSUME NEW t \in Threads, ConstructNested(t) PROVE PureInv'
    BY <2>3 DEF ConstructNested, shared
  <2>4. ASSUME NEW t \in Threads, Destroy(t) PROVE PureInv'
    BY <2>4 DEF Destroy, local
  <2>5. ASSUME NEW t \in Threads, Begin(t) PROVE PureInv'
    BY <2>5 DEF Begin, BeginOf, shared
  <2>6. ASSUME NEW t \in Threads, Lookup(t) PROVE PureInv'
    BY <2>6 DEF Lookup, LookupUnder
  <2>7. ASSUME NEW t \in Threads, Assign(t) \/ AssignFails(t) PROVE PureInv'
    BY <2>7 DEF Assign, AssignFails, shared
  <2>8. ASSUME NEW t \in Threads, Fill(t) \/ FillFails(t) \/ FillDone(t) PROVE PureInv'
    BY <2>8 DEF Fill, FillStep, FillFails, FillDone, FillDoneAfter, shared
  <2>9. ASSUME NEW t \in Threads, Read(t) PROVE PureInv'
    <3>1. ASSUME Matches(t, call[t].key)
          PROVE  ret'[t] = SliceOf(override[t].cache, call[t])
      <4>1. PICK s \in ReadsOf(override[t].cache, call[t]) : ret' = [ret EXCEPT ![t] = s]
        BY <2>9, <3>1 DEF Read, CacheFor
      <4>2. override[t].cache \in [Blocks(call[t].key) -> Values]
        BY <3>1, EpochCacheAssumption DEF OverrideOwned
      <4>3. call[t] \in Calls /\ ~Exceeds(call[t])
        BY <2>9 DEF Read, CacheFor
      <4>4. s = SliceOf(override[t].cache, call[t])
        BY <4>2, <4>3, ReadInRange
      <4> QED
        BY <4>1, <4>4
    <3> QED
      BY <2>9, <3>1 DEF Read, CacheFor, shared
  <2>10. ASSUME NEW t \in Threads, Finish(t) PROVE PureInv'
    BY <2>10 DEF Finish, shared
  <2>11. CASE UNCHANGED vars
    BY <2>11 DEF vars
  <2> QED
    BY <2>1, <2>2, <2>3, <2>4, <2>5, <2>6, <2>7, <2>8, <2>9, <2>10, <2>11
    DEF Next, Rebuild
<1> QED
  BY <1>1, <1>2, TypeCorrect, OverrideOwnership, PTL DEF Spec

\* What a thread reads under an override is a function of the supplied cache:
\* no memo, no failure and no race of other threads reaches the verifier.
THEOREM OverridePurity == Spec => []OverridePure
BY PureInvariant, PTL DEF PureInv

\* A step of a rebuild that does not fail.
Refill(t) == Assign(t) \/ Fill(t) \/ FillDone(t)

\* A thread that reads under an override leaves the memo alone.
THEOREM OverrideLeavesTheMemo == Spec => OverrideLeavesMemo
<1>1. TypeOK /\ PureInv /\ [Next]_vars
      => [\A t \in Threads :
            Matches(t, call[t].key) /\ <<pc[t], blk[t]>>' # <<pc[t], blk[t]>>
              => memo' = memo]_vars
  <2> SUFFICES ASSUME TypeOK, PureInv, [Next]_vars, vars' # vars, NEW u \in Threads,
                      Matches(u, call[u].key), <<pc[u], blk[u]>>' # <<pc[u], blk[u]>>
               PROVE  memo' = memo
    BY DEF vars
  <2>1. ASSUME NEW t \in Threads, Refill(t) PROVE t # u
    BY <2>1 DEF Refill, Assign, Fill, FillStep, FillDone, FillDoneAfter, PureInv,
       RebuildUnmatched
  <2>2. ASSUME NEW t \in Threads, Refill(t) \/ Lookup(t), t # u
        PROVE  <<pc[u], blk[u]>>' = <<pc[u], blk[u]>>
    BY <2>2 DEF Refill, Assign, Fill, FillStep, FillDone, FillDoneAfter, Lookup,
       LookupUnder, TypeOK
  <2>3. ASSUME Lookup(u) PROVE memo' = memo
    BY <2>3 DEF Lookup, LookupUnder
  <2>4. CASE \E t \in Threads : Refill(t) \/ Lookup(t)
    BY <2>1, <2>2, <2>3, <2>4
  <2> QED
    BY <2>4 DEF Next, Rebuild, Refill, Construct, ConstructNull, ConstructNested, Destroy, Begin,
       BeginOf, AssignFails, FillFails, Read, CacheFor, Finish, shared, local, vars
<1> QED
  BY <1>1, TypeCorrect, PureInvariant, PTL DEF Spec, OverrideLeavesMemo

-----------------------------------------------------------------------------
(* The memo is invisible to one miner whose rebuilds do not fail.  Neither *)
(* hypothesis can be dropped (see the README's findings).                  *)

SoleMiner == (\A t, u \in Miners : t = u) /\ ~CanFail

OnMemo(t) ==
  pc[t] \in {"lookup", "assign", "fill", "read"} /\ ~Matches(t, call[t].key)

\* The loop invariant of rebuild_epoch_cache, thread t in it.
PartlyBuilt(t) ==
  LET k == call[t].key IN
  /\ memo.cache \in [Blocks(k) -> Values]
  /\ \A b \in Blocks(k) : b < blk[t] => memo.cache[b] = Gen[k][b]

MemoInv ==
  /\ \A t \in Threads : OnMemo(t) => t \in Miners
  /\ \A t \in Threads : pc[t] \in {"assign", "fill"} => memo.key = call[t].key
  /\ \A t \in Threads : pc[t] = "fill" => PartlyBuilt(t)
  /\ \A t \in Threads : pc[t] # "fill" => blk[t] = 0
  /\ \A t \in Threads : pc[t] = "read" /\ OnMemo(t) => memo.init /\ memo.key = call[t].key
  /\ MemoFaithful

\* Only one thread is on the memo, so a step of that thread on it disturbs no other.
LEMMA OnlyOneOnMemo ==
  ASSUME SoleMiner, MemoInv, NEW t \in Threads, OnMemo(t), NEW u \in Threads, OnMemo(u)
  PROVE  t = u
BY DEF SoleMiner, MemoInv

\* When the rebuild loop ends, the memo holds the generated cache.
LEMMA Built ==
  ASSUME TypeOK, NEW t \in Threads, PartlyBuilt(t), blk[t] = BlockCount[call[t].key.profile]
  PROVE  memo.cache = Gen[call[t].key]
<1>1. call[t].key \in Keys
  BY DEF TypeOK, Calls
<1>2. \A b \in Blocks(call[t].key) : memo.cache[b] = Gen[call[t].key][b]
  BY <1>1, CacheTypes DEF PartlyBuilt, Blocks
<1> QED
  BY <1>1, <1>2, CacheTypes DEF PartlyBuilt

LEMMA MemoInvariant == ASSUME SoleMiner PROVE Spec => []MemoInv
<1>1. Init => MemoInv
  BY DEF Init, MemoInv, OnMemo, MemoFaithful
<1>2. TypeOK /\ PureInv /\ MemoInv /\ [Next]_vars => MemoInv'
  <2> SUFFICES ASSUME TypeOK, PureInv, MemoInv, [Next]_vars PROVE MemoInv'
    OBVIOUS
  <2> USE DEF MemoInv, OnMemo, MemoFaithful, TypeOK, Matches
  <2>1. ASSUME NEW t \in Threads, Construct(t) PROVE MemoInv'
    BY <2>1 DEF Construct, local, PartlyBuilt
  <2>2. ASSUME NEW t \in Threads, ConstructNull(t) PROVE MemoInv'
    BY <2>2 DEF ConstructNull, local, PartlyBuilt
  <2>3. ASSUME NEW t \in Threads, ConstructNested(t) PROVE MemoInv'
    BY <2>3 DEF ConstructNested, shared, PartlyBuilt
  <2>4. ASSUME NEW t \in Threads, Destroy(t) PROVE MemoInv'
    BY <2>4 DEF Destroy, local, PartlyBuilt
  <2>5. ASSUME NEW t \in Threads, Begin(t) PROVE MemoInv'
    BY <2>5 DEF Begin, BeginOf, shared, PartlyBuilt
  <2>6. ASSUME NEW t \in Threads, Lookup(t) PROVE MemoInv'
    <3>1. CASE Matches(t, call[t].key) \/ MemoHits(call[t].key)
      <4>1. pc' = [pc EXCEPT ![t] = "read"] /\ UNCHANGED <<memo, override, call, blk>>
        BY <2>6, <3>1 DEF Lookup, LookupUnder
      <4>2. Matches(t, call[t].key) \/ (memo.init /\ memo.key = call[t].key)
        BY <3>1 DEF MemoHits
      <4> QED
        BY <2>6, <4>1, <4>2 DEF Lookup, LookupUnder, PartlyBuilt
    <3>2. CASE ~(Matches(t, call[t].key) \/ MemoHits(call[t].key))
      <4>1. \A u \in Threads \ {t} : ~OnMemo(u) /\ ~OnMemo(u)' /\ pc'[u] = pc[u]
        BY <2>6, <3>2, OnlyOneOnMemo DEF Lookup, LookupUnder
      <4>2. \A u \in Threads \ {t} : pc[u] \notin {"assign", "fill"}
        BY <4>1 DEF PureInv, RebuildUnmatched
      <4>3. /\ pc' = [pc EXCEPT ![t] = "assign"] /\ UNCHANGED <<override, call, blk>>
            /\ memo' = [memo EXCEPT !.key = call[t].key]
        BY <2>6, <3>2 DEF Lookup, LookupUnder
      <4>4. t \in Miners /\ blk[t] = 0 /\ memo'.key = call[t].key
        BY <2>6, <3>2, <4>3 DEF Lookup, LookupUnder
      <4>5. \A u \in Threads : u = t \/ (~OnMemo(u)' /\ pc'[u] \notin {"assign", "fill"} /\ blk'[u] = 0)
        BY <4>1, <4>2, <4>3
      <4> HIDE DEF OnMemo
      <4> QED
        BY <4>3, <4>4, <4>5
    <3> QED
      BY <3>1, <3>2
  <2>7. ASSUME NEW t \in Threads, Refill(t) PROVE MemoInv'
    <3>1. OnMemo(t) /\ pc[t] \in {"assign", "fill"}
      BY <2>7 DEF Refill, Assign, Fill, FillStep, FillDone, FillDoneAfter, PureInv,
         RebuildUnmatched
    <3>2. \A u \in Threads \ {t} : ~OnMemo(u) /\ ~OnMemo(u)' /\ pc'[u] = pc[u] /\ blk'[u] = blk[u]
      BY <2>7, <3>1, OnlyOneOnMemo DEF Refill, Assign, Fill, FillStep, FillDone, FillDoneAfter
    <3>3. \A u \in Threads \ {t} : pc[u] \notin {"assign", "fill"}
      BY <3>2 DEF PureInv, RebuildUnmatched
    <3>4. CASE Assign(t)
      <4>1. PartlyBuilt(t)'
        <5> DEFINE k == call[t].key
        <5>1. k \in Keys /\ call'[t] = call[t] /\ blk'[t] = 0
          BY <3>1, <3>4 DEF Assign, Calls
        <5>2. memo'.cache = [b \in Blocks(k) |-> Zero]
          BY <3>4 DEF Assign
        <5>3. \A b \in Blocks(k) : ~(b < 0)
          BY <5>1, CacheTypes DEF Blocks
        <5>4. memo'.cache \in [Blocks(k) -> Values]
          BY <5>2, EpochCacheAssumption
        <5> HIDE DEF k
        <5>5. call'[t].key = k
          BY <5>1 DEF k
        <5> QED
          BY <5>1, <5>3, <5>4, <5>5 DEF PartlyBuilt
      <4> QED
        BY <3>1, <3>2, <3>3, <3>4, <4>1 DEF Assign
    <3>5. CASE Fill(t)
      <4>1. PartlyBuilt(t)'
        <5> DEFINE k == call[t].key
        <5>1. k \in Keys /\ call'[t] = call[t] /\ PartlyBuilt(t) /\ blk[t] \in Nat
          BY <3>5 DEF Fill, FillStep, Calls
        <5>2. memo'.cache = Stored(memo.cache, k, blk[t]) /\ blk'[t] = blk[t] + 1
          BY <3>5 DEF Fill, FillStep
        <5>3. Stored(memo.cache, k, blk[t]) \in [Blocks(k) -> Values]
          BY <5>1, CacheTypes DEF Stored, PartlyBuilt
        <5>4. ASSUME NEW b \in Blocks(k), b < blk[t] + 1
              PROVE  Stored(memo.cache, k, blk[t])[b] = Gen[k][b]
          <6>1. b = blk[t] \/ b < blk[t]
            BY <5>1, <5>4, CacheTypes DEF Blocks
          <6>2. Stored(memo.cache, k, blk[t])[b] = IF b = blk[t] THEN Gen[k][b] ELSE memo.cache[b]
            BY <5>1 DEF Stored, PartlyBuilt
          <6> QED
            BY <5>1, <6>1, <6>2 DEF PartlyBuilt
        <5> QED
          BY <5>1, <5>2, <5>3, <5>4 DEF PartlyBuilt
      <4> QED
        BY <3>1, <3>2, <3>3, <3>5, <4>1 DEF Fill, FillStep
    <3>6. CASE FillDone(t)
      <4>1. memo.cache = Gen[memo.key]
        BY <3>1, <3>6, Built DEF FillDone, FillDoneAfter
      <4> QED
        BY <3>1, <3>2, <3>3, <3>6, <4>1 DEF FillDone, FillDoneAfter
    <3> QED
      BY <2>7, <3>4, <3>5, <3>6 DEF Refill
  <2>8. ASSUME NEW t \in Threads, AssignFails(t) \/ FillFails(t) PROVE MemoInv'
    BY <2>8 DEF AssignFails, FillFails, SoleMiner
  <2>9. ASSUME NEW t \in Threads, Read(t) PROVE MemoInv'
    BY <2>9 DEF Read, CacheFor, shared, PartlyBuilt
  <2>10. ASSUME NEW t \in Threads, Finish(t) PROVE MemoInv'
    BY <2>10 DEF Finish, shared, PartlyBuilt
  <2>11. CASE UNCHANGED vars
    BY <2>11 DEF vars, PartlyBuilt
  <2> QED
    BY <2>1, <2>2, <2>3, <2>4, <2>5, <2>6, <2>7, <2>8, <2>9, <2>10, <2>11 DEF Next, Rebuild, Refill
<1> QED
  BY <1>1, <1>2, TypeCorrect, PureInvariant, PTL DEF Spec

\* With one thread on the memo and no failed allocation, an initialised memo
\* that is not being rebuilt holds the cache of the key it carries.
THEOREM MemoIsFaithful == ASSUME SoleMiner PROVE Spec => []MemoFaithful
BY MemoInvariant, PTL DEF MemoInv

Answered(t) ==
  SliceOf(IF Matches(t, call[t].key) THEN override[t].cache ELSE Gen[call[t].key], call[t])

\* The value a read returns, from the override's cache or the generated one.
LEMMA ReadAnswer ==
  ASSUME SoleMiner, TypeOK, OverrideOwned, PureInv, MemoInv, NEW t \in Threads, Read(t)
  PROVE  ret' = [ret EXCEPT ![t] = Answered(t)]
<1> DEFINE c == IF Matches(t, call[t].key) THEN override[t].cache ELSE memo.cache
<1>1. PICK s \in ReadsOf(c, call[t]) : ret' = [ret EXCEPT ![t] = s]
  BY DEF Read, CacheFor
<1>2. call[t] \in Calls /\ ~Exceeds(call[t]) /\ pc[t] = "read" /\ call[t].key \in Keys
  BY DEF Read, CacheFor, TypeOK, PureInv, CallOK, Calls
<1>3. CASE Matches(t, call[t].key)
  <2>1. override[t].cache \in [Blocks(call[t].key) -> Values]
    BY <1>2, <1>3, EpochCacheAssumption DEF OverrideOwned, Matches
  <2> QED
    BY <1>1, <1>2, <1>3, <2>1, ReadInRange DEF Answered
<1>4. CASE ~Matches(t, call[t].key)
  <2>1. OnMemo(t)
    BY <1>2, <1>4 DEF OnMemo
  <2>2. \A u \in Threads : pc[u] \notin {"assign", "fill"}
    BY <1>2, <2>1, OnlyOneOnMemo DEF PureInv, RebuildUnmatched, OnMemo
  <2>3. memo.cache = Gen[call[t].key]
    BY <1>2, <2>1, <2>2 DEF MemoInv, MemoFaithful
  <2> QED
    BY <1>1, <1>2, <1>4, <2>3, CacheTypes, ReadInRange DEF Answered
<1> QED
  BY <1>3, <1>4

\* A read that no override answers returns the blocks generated for its key.
THEOREM ReadsAreFresh == ASSUME SoleMiner PROVE Spec => []ReadsFresh
<1>1. Init => ReadsFresh
  BY DEF Init, ReadsFresh
<1>2. TypeOK /\ OverrideOwned /\ PureInv /\ MemoInv /\ ReadsFresh /\ [Next]_vars => ReadsFresh'
  <2> SUFFICES ASSUME TypeOK, OverrideOwned, PureInv, MemoInv, ReadsFresh, [Next]_vars
               PROVE  ReadsFresh'
    OBVIOUS
  <2>1. ASSUME NEW t \in Threads, Read(t) PROVE ReadsFresh'
    <3>1. /\ UNCHANGED <<override, call>>
          /\ \A u \in Threads \ {t} : pc'[u] = pc[u] /\ ret'[u] = ret[u]
          /\ ret'[t] = Answered(t)
      BY <2>1, ReadAnswer DEF Read, CacheFor, TypeOK, shared
    <3> QED
      BY <3>1 DEF ReadsFresh, Matches, Answered
  <2>2. ASSUME NEW t \in Threads,
               Construct(t) \/ ConstructNull(t) \/ ConstructNested(t) \/ Destroy(t)
        PROVE  ReadsFresh'
    BY <2>2 DEF Construct, ConstructNull, ConstructNested, Destroy, ReadsFresh, Matches,
       TypeOK, shared, local
  <2>3. ASSUME NEW t \in Threads,
               Begin(t) \/ Lookup(t) \/ Rebuild(t) \/ Finish(t)
        PROVE  ReadsFresh'
    BY <2>3 DEF Begin, BeginOf, Lookup, LookupUnder, Rebuild, Assign, Fill, FillStep, FillDone,
       FillDoneAfter, AssignFails, FillFails, Finish, ReadsFresh, Matches, TypeOK, shared
  <2>4. CASE UNCHANGED vars
    BY <2>4 DEF vars, ReadsFresh, Matches
  <2> QED
    BY <2>1, <2>2, <2>3, <2>4 DEF Next
<1> QED
  BY <1>1, <1>2, TypeCorrect, OverrideOwnership, PureInvariant, MemoInvariant, PTL DEF Spec

----------------------------------------------------------------------------
(* The refinement *)

\* The oracle's source of a read is the matching override, or the generated cache.
LEMMA OracleSource ==
  ASSUME TypeOK, NEW t \in Threads, NEW k \in Keys
  PROVE  Oracle!Source(t, k) = IF Matches(t, k) THEN override[t].cache ELSE Gen[k]
<1> DEFINE o == [key |-> override[t].key, cache |-> override[t].cache]
<1>1. CASE override[t].active
  <2>1. Installed(t) = {o}
    BY <1>1 DEF Installed
  <2>2. \A x \in {o} : x = o /\ x.key = override[t].key /\ x.cache = override[t].cache
    OBVIOUS
  <2>3. CASE override[t].key = k
    <3>1. (CHOOSE x \in {o} : x.key = k) = o
      BY <2>2, <2>3
    <3> QED
      BY <1>1, <2>1, <2>2, <2>3, <3>1 DEF Oracle!Source, Matches
  <2>4. CASE override[t].key # k
    BY <1>1, <2>1, <2>2, <2>4 DEF Oracle!Source, Matches
  <2> QED
    BY <2>3, <2>4
<1>2. CASE ~override[t].active
  BY <1>2 DEF Oracle!Source, Matches, Installed
<1> QED
  BY <1>1, <1>2

\* A scope on a cache is the oracle's installation, and its end a removal.
LEMMA ConstructInstalls ==
  ASSUME TypeOK, NEW t \in Threads, Construct(t)
  PROVE  Oracle!Install(t)
<1> USE DEF TypeOK
<1>1. PICK k \in Keys : \E c \in Supplied[k] :
        override' = [override EXCEPT ![t] = [active |-> TRUE, key |-> k, cache |-> c]]
  BY DEF Construct
<1>2. PICK c \in Supplied[k] :
        override' = [override EXCEPT ![t] = [active |-> TRUE, key |-> k, cache |-> c]]
  BY <1>1
<1>3. [u \in Threads |-> Installed(u)]' =
        [[u \in Threads |-> Installed(u)] EXCEPT ![t] = {[key |-> k, cache |-> c]}]
  BY <1>2 DEF Installed
<1>4. /\ Phase(t) = "idle" /\ Installed(t) = {}
      /\ UNCHANGED <<pc, call, ret>>
  BY DEF Construct, local, Installed, Phase
<1>5. [u \in Threads |-> Phase(u)]' = [u \in Threads |-> Phase(u)]
  BY <1>4 DEF Phase
<1> QED
  BY <1>3, <1>4, <1>5 DEF Oracle!Install

LEMMA DestroyRemoves ==
  ASSUME TypeOK, NEW t \in Threads, Destroy(t)
  PROVE  Oracle!Remove(t) \/ UNCHANGED Oracle!vars
BY DEF TypeOK, Destroy, local, Oracle!Remove, Oracle!vars, Installed, Phase

\* A read that begins is the oracle's request, and its last step its answer.
LEMMA BeginRequests ==
  ASSUME TypeOK, NEW t \in Threads, NEW r \in Calls, BeginOf(t, r)
  PROVE  Oracle!RequestOf(t, r)
<1>1. pc' = [pc EXCEPT ![t] = IF Exceeds(r) THEN "threw" ELSE "lookup"]
  BY DEF BeginOf
<1>2. [u \in Threads |-> Phase(u)]' =
        [[u \in Threads |-> Phase(u)] EXCEPT ![t] = IF Exceeds(r) THEN "threw" ELSE "busy"]
  BY <1>1 DEF Phase, TypeOK
<1>3. Phase(t) = "idle" /\ UNCHANGED <<override, ret>> /\ call' = [call EXCEPT ![t] = r]
  BY DEF BeginOf, shared, Phase
<1>4. [u \in Threads |-> Installed(u)]' = [u \in Threads |-> Installed(u)]
  BY <1>3 DEF Installed
<1>5. Oracle!Exceeds(r) = Exceeds(r)
  BY DEF Exceeds, Oracle!Exceeds
<1> QED
  BY <1>2, <1>3, <1>4, <1>5 DEF Oracle!RequestOf

LEMMA ReadAnswers ==
  ASSUME SoleMiner, TypeOK, OverrideOwned, PureInv, MemoInv, NEW t \in Threads, Read(t)
  PROVE  Oracle!Answer(t)
<1>1. /\ ret' = [ret EXCEPT ![t] = Answered(t)] /\ UNCHANGED <<override, call>>
      /\ pc[t] = "read" /\ pc' = [pc EXCEPT ![t] = "returned"]
  BY ReadAnswer DEF Read, CacheFor, shared
<1>2. Answered(t) = Oracle!SliceOf(Oracle!Source(t, call[t].key), call[t])
  BY OracleSource, call[t].key \in Keys DEF Answered, SliceOf, Oracle!SliceOf, Calls, TypeOK
<1>3. [u \in Threads |-> Phase(u)]' = [[u \in Threads |-> Phase(u)] EXCEPT ![t] = "returned"]
  BY <1>1 DEF Phase, TypeOK
<1>4. [u \in Threads |-> Installed(u)]' = [u \in Threads |-> Installed(u)]
  BY <1>1 DEF Installed
<1>5. Phase(t) = "busy"
  BY <1>1 DEF Phase
<1> QED
  BY <1>1, <1>2, <1>3, <1>4, <1>5 DEF Oracle!Answer

LEMMA FinishFinishes ==
  ASSUME TypeOK, NEW t \in Threads, Finish(t)
  PROVE  Oracle!Finish(t)
BY DEF TypeOK, Finish, shared, Oracle!Finish, NoCall, Oracle!NoCall, NoCache, Oracle!NoCache,
   Installed, Phase

\* The steps in between, of the lookup and the rebuild, and the null scope.
LEMMA HiddenSteps ==
  ASSUME TypeOK, NEW t \in Threads, Lookup(t) \/ Refill(t) \/ ConstructNull(t)
  PROVE  UNCHANGED Oracle!vars
BY DEF TypeOK, Lookup, LookupUnder, Refill, Assign, Fill, FillStep, FillDone, FillDoneAfter,
   ConstructNull, local, Oracle!vars, Installed, Phase

\* With one thread on the memo and no failed allocation, the override, the memo
\* and the rebuild implement the oracle that generates every cache afresh.
THEOREM CacheImplementsOracle == ASSUME SoleMiner PROVE Spec => ImplementsOracle
<1>1. Init => Oracle!Init
  BY DEF Init, Oracle!Init, NoCall, Oracle!NoCall, NoCache, Oracle!NoCache, Installed, Phase
<1>2. TypeOK /\ OverrideOwned /\ PureInv /\ MemoInv /\ [Next]_vars => [Oracle!Next]_(Oracle!vars)
  <2> SUFFICES ASSUME TypeOK, OverrideOwned, PureInv, MemoInv, [Next]_vars
               PROVE  Oracle!Next \/ UNCHANGED Oracle!vars
    OBVIOUS
  <2>1. ASSUME NEW t \in Threads, Construct(t) PROVE Oracle!Install(t)
    BY <2>1, ConstructInstalls
  <2>2. ASSUME NEW t \in Threads, ConstructNested(t) PROVE Oracle!RejectSecondOverride(t)
    BY <2>2 DEF TypeOK, ConstructNested, shared, Oracle!RejectSecondOverride, Installed, Phase
  <2>3. ASSUME NEW t \in Threads, Destroy(t) PROVE Oracle!Remove(t) \/ UNCHANGED Oracle!vars
    BY <2>3, DestroyRemoves
  <2>4. ASSUME NEW t \in Threads, Begin(t) PROVE Oracle!Request(t)
    <3>1. PICK r \in Calls : BeginOf(t, r)
      BY <2>4 DEF Begin
    <3>2. Oracle!RequestOf(t, r) /\ r \in Oracle!Calls
      BY <3>1, BeginRequests DEF Calls, Oracle!Calls
    <3> QED
      BY <3>2 DEF Oracle!Request
  <2>5. ASSUME NEW t \in Threads, Lookup(t) \/ Refill(t) \/ ConstructNull(t)
        PROVE  UNCHANGED Oracle!vars
    BY <2>5, HiddenSteps
  <2>6. ASSUME NEW t \in Threads, Read(t) PROVE Oracle!Answer(t)
    BY <2>6, ReadAnswers
  <2>7. ASSUME NEW t \in Threads, AssignFails(t) \/ FillFails(t) PROVE FALSE
    BY <2>7 DEF AssignFails, FillFails, SoleMiner
  <2>8. ASSUME NEW t \in Threads, Finish(t) PROVE Oracle!Finish(t)
    BY <2>8, FinishFinishes
  <2>9. CASE UNCHANGED vars
    BY <2>9 DEF vars, Oracle!vars, Installed, Phase
  <2> QED
    BY <2>1, <2>2, <2>3, <2>4, <2>5, <2>6, <2>7, <2>8, <2>9 DEF Next, Rebuild, Refill, Oracle!Next
<1> QED
  BY <1>1, <1>2, TypeCorrect, OverrideOwnership, PureInvariant, MemoInvariant, PTL
  DEF Spec, ImplementsOracle, Oracle!Spec

----------------------------------------------------------------------------
(* Items over the cache *)

\* A thread's call of get_item: it reads the cache only while it takes its taps,
\* and what it reads is its next tap.
TapsOf(t) ==
  /\ Len(words[t]) <= GetItemTaps
  /\ gpc[t] # "taps" => pc[t] = "idle"
  /\ gpc[t] = "idle" => words[t] = <<>>
  /\ pc[t] # "idle" => call[t] = Data!TapRead(t) /\ Len(words[t]) < GetItemTaps
  /\ pc[t] = "returned" => ret[t] \in [1 .. 1 -> Values]

ItemsOK ==
  /\ job \in [Threads -> [key : Keys, index : Indices, use_memo : BOOLEAN]]
  /\ words \in [Threads -> Seq(Values)]
  /\ DOMAIN gpc = Threads /\ DOMAIN item = Threads
  /\ \A t \in Threads : TapsOf(t)

\* The next tap reads a block the cache has.
LEMMA TapIsCall ==
  ASSUME ItemsOK, NEW t \in Threads, Len(words[t]) < GetItemTaps
  PROVE  Data!TapRead(t) \in Calls /\ ~Exceeds(Data!TapRead(t))
<1>1. job[t].key \in Keys /\ job[t].index \in Indices /\ words[t] \in Seq(Values)
  BY DEF ItemsOK
<1>2. words[t] \in TapWords
  <2>1. words[t] \in [1 .. Len(words[t]) -> Values] /\ Len(words[t]) \in Nat
    BY <1>1
  <2>2. Len(words[t]) \in 0 .. GetItemTaps - 1
    BY <2>1, ItemsAssumption DEF ItemsAssumption
  <2> QED BY <2>1, <2>2 DEF TapWords
<1> DEFINE b == TapBlock(job[t].key, job[t].index, words[t])
<1>3. b \in Blocks(job[t].key) /\ b <= MaxOffset
  BY <1>1, <1>2, TapsAssumption DEF TapsAssumption
<1>4. Data!TapRead(t) = [key |-> job[t].key, lo |-> b, n |-> 1]
  BY DEF Data!TapRead
<1> HIDE DEF b
<1>5. BlockCount[job[t].key.profile] \in Nat /\ MaxOffset \in Nat /\ MaxLength \in Nat
      /\ MaxLength >= 1
  BY <1>1, EpochCacheAssumption, ItemsAssumption DEF EpochCacheAssumption, ItemsAssumption
<1>6. b \in 0 .. MaxOffset /\ 1 \in 0 .. MaxLength
  BY <1>3, <1>5 DEF Blocks
<1> QED BY <1>1, <1>3, <1>4, <1>5, <1>6 DEF Calls, Exceeds, Blocks

\* A step of get_item is a step of the cache, or leaves it alone.
LEMMA CacheSteps == ASSUME ItemsOK, [ItemsNext]_<<vars, itemVars>> PROVE [Next]_vars
<1>1. ASSUME NEW t \in Threads, TapBegin(t) PROVE Begin(t)
  BY <1>1, TapIsCall DEF TapBegin, Begin
<1>2. ASSUME NEW t \in Threads, ItemStep(t) PROVE UNCHANGED vars
  BY <1>2 DEF ItemStep
<1>3. ASSUME NEW t \in Threads, TapRuns(t) \/ TapTake(t) \/ TapThrows(t) \/ Scope(t) PROVE Next
  BY <1>3 DEF TapRuns, TapTake, TapThrows, Scope, Next
<1> QED BY <1>1, <1>2, <1>3 DEF ItemsNext, Next

\* A thread is as it was if its call and its read are.
Same(u) ==
  /\ pc'[u] = pc[u] /\ call'[u] = call[u] /\ ret'[u] = ret[u]
  /\ gpc'[u] = gpc[u] /\ job'[u] = job[u] /\ words'[u] = words[u] /\ item'[u] = item[u]

LEMMA SameTaps ==
  ASSUME NEW u \in Threads, TapsOf(u), Same(u)
  PROVE  TapsOf(u)'
BY DEF TapsOf, Same, Data!TapRead

\* A step of one thread leaves the calls of the others as they are.
LEMMA OthersSame ==
  ASSUME TypeOK, ItemsOK, NEW t \in Threads,
         ItemStep(t) \/ TapBegin(t) \/ TapRuns(t) \/ TapTake(t) \/ TapThrows(t) \/ Scope(t),
         NEW u \in Threads, u # t
  PROVE  Same(u) /\ override'[u] = override[u]
<1> USE DEF TypeOK, ItemsOK, Same
<1>1. CASE ItemStep(t)
  <2>1. CASE Data!GetItem(t)
    BY <1>1, <2>1 DEF ItemStep, vars, Data!GetItem, Data!Enter
  <2>2. CASE Data!Mix(t) \/ Data!ItemOutOfMemory(t) \/ Data!Return(t)
    BY <1>1, <2>2 DEF ItemStep, vars, Data!Mix, Data!StoreWhen, Data!ItemOutOfMemory, Data!Return
  <2> QED BY <1>1, <2>1, <2>2 DEF ItemStep
<1>2. CASE TapBegin(t)
  BY <1>2 DEF TapBegin, BeginOf, shared, itemVars
<1>3. CASE TapRuns(t)
  BY <1>3 DEF TapRuns, Lookup, LookupUnder, Rebuild, Assign, Fill, FillStep, FillDone,
     FillDoneAfter, AssignFails, FillFails, Read, CacheFor, shared, itemVars
<1>4. CASE TapTake(t) \/ TapThrows(t)
  BY <1>4 DEF TapTake, TapThrows, Finish, shared
<1>5. CASE Scope(t)
  BY <1>5 DEF Scope, Construct, ConstructNull, Destroy, local, itemVars
<1> QED BY <1>1, <1>2, <1>3, <1>4, <1>5

LEMMA ItemsKept == ASSUME TypeOK, ItemsOK, [ItemsNext]_<<vars, itemVars>> PROVE ItemsOK'
<1> DEFINE Typed == /\ job' \in [Threads -> [key : Keys, index : Indices, use_memo : BOOLEAN]]
                    /\ words' \in [Threads -> Seq(Values)]
                    /\ DOMAIN gpc' = Threads /\ DOMAIN item' = Threads
<1>1. ASSUME NEW t \in Threads, ItemStep(t) PROVE Typed /\ TapsOf(t)'
  <2> USE DEF TypeOK, ItemsOK
  <2>1. TapsOf(t) /\ UNCHANGED <<pc, call, ret>>
    BY <1>1 DEF ItemStep, vars
  <2>2. ASSUME Data!GetItem(t) PROVE Typed /\ TapsOf(t)'
    <3>1. PICK k \in Keys, i \in Data!Indices : Data!Enter(t, k, i, ~Data!Overridden(t, k))
      BY <2>2 DEF Data!GetItem
    <3>2. /\ gpc[t] = "idle" /\ words' = words
          /\ job' = [job EXCEPT ![t] = [key |-> k, index |-> i, use_memo |-> ~Data!Overridden(t, k)]]
          /\ DOMAIN gpc' = Threads /\ DOMAIN item' = Threads
      BY <3>1 DEF Data!Enter
    <3>3. i \in Indices /\ (~Data!Overridden(t, k)) \in BOOLEAN
      BY DEF Indices, Data!Indices
    <3>4. pc'[t] = "idle" /\ words'[t] = words[t] /\ words[t] = <<>>
      BY <2>1, <3>2 DEF TapsOf
    <3>5. Typed
      BY <3>2, <3>3
    <3> QED BY <2>1, <3>4, <3>5 DEF TapsOf
  <2>3. ASSUME Data!Mix(t) \/ Data!ItemOutOfMemory(t) PROVE Typed /\ TapsOf(t)'
    <3>1. /\ gpc[t] = "taps" /\ Phase(t) = "idle" /\ gpc'[t] \in {"returned", "threw"}
          /\ UNCHANGED <<job, words>> /\ DOMAIN gpc' = Threads /\ DOMAIN item' = Threads
      BY <2>3 DEF Data!Mix, Data!StoreWhen, Data!ItemOutOfMemory
    <3>2. pc[t] = "idle"
      BY <3>1 DEF Phase
    <3> QED BY <2>1, <3>1, <3>2 DEF TapsOf
  <2>4. ASSUME Data!Return(t) PROVE Typed /\ TapsOf(t)'
    <3>1. Data!NoJob \in [key : Keys, index : Indices, use_memo : BOOLEAN]
      BY EpochCacheAssumption, ItemsAssumption
      DEF EpochCacheAssumption, ItemsAssumption, Data!NoJob, Indices
    <3>2. /\ gpc[t] \in {"returned", "threw"} /\ gpc' = [gpc EXCEPT ![t] = "idle"]
          /\ job' = [job EXCEPT ![t] = Data!NoJob] /\ words' = [words EXCEPT ![t] = <<>>]
          /\ DOMAIN item' = Threads
      BY <2>4 DEF Data!Return
    <3>3. Typed
      BY <3>1, <3>2
    <3>4. pc'[t] = "idle" /\ words'[t] = <<>> /\ GetItemTaps \in Nat
      BY <2>1, <3>2, ItemsAssumption DEF TapsOf, ItemsAssumption
    <3> QED BY <3>3, <3>4 DEF TapsOf
  <2> QED BY <1>1, <2>2, <2>3, <2>4 DEF ItemStep
<1>2. ASSUME NEW t \in Threads, TapBegin(t) PROVE Typed /\ TapsOf(t)'
  BY <1>2 DEF TypeOK, ItemsOK, TapsOf, TapBegin, BeginOf, shared, itemVars, Data!TapRead
<1>3. ASSUME NEW t \in Threads, TapRuns(t) PROVE Typed /\ TapsOf(t)'
  <2>1. TapsOf(t) /\ UNCHANGED itemVars /\ pc[t] # "idle" /\ UNCHANGED call
    BY <1>3 DEF ItemsOK, TapRuns, Lookup, LookupUnder, Rebuild, Assign, Fill, FillStep, FillDone,
       FillDoneAfter, AssignFails, FillFails, Read, CacheFor, shared
  <2>2. call[t].n = 1
    BY <2>1 DEF TapsOf, Data!TapRead
  <2>3. pc'[t] = "returned" => ret'[t] \in [1 .. 1 -> Values]
    <3>1. CASE Read(t)
      BY <2>2, <3>1 DEF Read, ReadsOf, CacheFor, TypeOK
    <3>2. CASE ~Read(t)
      BY <1>3, <3>2 DEF TypeOK, TapRuns, Lookup, LookupUnder, Rebuild, Assign, Fill, FillStep,
         FillDone, FillDoneAfter, AssignFails, FillFails, shared
    <3> QED BY <3>1, <3>2
  <2> QED BY <2>1, <2>3 DEF ItemsOK, TapsOf, itemVars, Data!TapRead
<1>4. ASSUME NEW t \in Threads, TapTake(t) PROVE Typed /\ TapsOf(t)'
  <2>1. /\ TapsOf(t) /\ pc[t] = "returned" /\ pc' = [pc EXCEPT ![t] = "idle"]
        /\ words' = [words EXCEPT ![t] = Append(@, ret[t][1])] /\ UNCHANGED <<gpc, job, item>>
        /\ gpc[t] = "taps"
    BY <1>4 DEF ItemsOK, TapTake, Finish
  <2>2. ret[t][1] \in Values /\ words[t] \in Seq(Values) /\ Len(words[t]) < GetItemTaps
    BY <2>1 DEF ItemsOK, TapsOf
  <2> DEFINE w == Append(words[t], ret[t][1])
  <2>3. w \in Seq(Values) /\ Len(w) = Len(words[t]) + 1 /\ Len(words[t]) \in Nat
    BY <2>2
  <2>4. words' = [words EXCEPT ![t] = w]
    BY <2>1
  <2> HIDE DEF w
  <2>5. words' \in [Threads -> Seq(Values)] /\ words'[t] = w
    BY <2>3, <2>4 DEF ItemsOK
  <2>6. Len(words'[t]) <= GetItemTaps
    BY <2>2, <2>3, <2>5, ItemsAssumption DEF ItemsAssumption
  <2>7. pc'[t] = "idle" /\ gpc'[t] = "taps"
    BY <2>1 DEF TypeOK
  <2> QED BY <2>1, <2>5, <2>6, <2>7 DEF ItemsOK, TapsOf
<1>5. ASSUME NEW t \in Threads, TapThrows(t) PROVE Typed /\ TapsOf(t)'
  BY <1>5 DEF TypeOK, ItemsOK, TapsOf, TapThrows, Finish, shared
<1>6. ASSUME NEW t \in Threads, Scope(t) PROVE Typed /\ TapsOf(t)'
  <2>1. TapsOf(t) /\ UNCHANGED <<pc, call, ret, gpc, job, words, item>>
    BY <1>6 DEF ItemsOK, Scope, Construct, ConstructNull, Destroy, local, itemVars
  <2> QED BY <2>1 DEF ItemsOK, TapsOf, Data!TapRead
<1>7. ASSUME UNCHANGED <<vars, itemVars>> PROVE ItemsOK'
  BY <1>7 DEF ItemsOK, TapsOf, vars, itemVars, Data!TapRead
<1>8. ASSUME NEW t \in Threads,
             ItemStep(t) \/ TapBegin(t) \/ TapRuns(t) \/ TapTake(t) \/ TapThrows(t) \/ Scope(t)
      PROVE  ItemsOK'
  <2>1. Typed /\ TapsOf(t)'
    BY <1>1, <1>2, <1>3, <1>4, <1>5, <1>6, <1>8
  <2>2. ASSUME NEW u \in Threads, u # t PROVE TapsOf(u)'
    BY <1>8, <2>2, OthersSame, SameTaps DEF ItemsOK
  <2> QED BY <2>1, <2>2 DEF ItemsOK
<1> QED BY <1>7, <1>8 DEF ItemsNext

LEMMA ItemsInitially == ItemsInit => Init /\ ItemsOK
<1>1. Data!NoJob \in [key : Keys, index : Indices, use_memo : BOOLEAN]
  BY EpochCacheAssumption, ItemsAssumption
  DEF EpochCacheAssumption, ItemsAssumption, Data!NoJob, Indices
<1>2. GetItemTaps \in Nat
  BY ItemsAssumption DEF ItemsAssumption
<1> QED BY <1>1, <1>2 DEF ItemsInit, Init, Data!Init, ItemsOK, TapsOf

\* get_item makes only reads that the cache allows: whatever holds of the epoch
\* cache for every caller holds of it under get_item, and the taps stay in range.
THEOREM ItemsRunTheCache == ItemsSpec => Spec /\ []ItemsOK
<1>1. TypeOK /\ ItemsOK /\ [ItemsNext]_<<vars, itemVars>> => TypeOK' /\ ItemsOK' /\ [Next]_vars
  BY CacheSteps, TypesKept, ItemsKept
<1>2. ItemsInit => Init /\ TypeOK /\ ItemsOK
  BY ItemsInitially, InitTyped
<1> QED BY <1>1, <1>2, PTL DEF ItemsSpec, Spec

\* Taking the word the next tap reads extends the words taken.
LEMMA TapExtends ==
  ASSUME NEW c, NEW k, NEW i, NEW w \in Seq(Values), Data!TapsFrom(c, k, i, w),
         NEW v \in Values, v = c[TapBlock(k, i, w)]
  PROVE  Data!TapsFrom(c, k, i, Append(w, v))
<1> DEFINE e == Append(w, v)
<1>1. /\ Len(e) = Len(w) + 1 /\ e[Len(w) + 1] = v /\ Len(w) \in Nat
      /\ \A j \in 1 .. Len(w) : e[j] = w[j]
  OBVIOUS
<1> SUFFICES ASSUME NEW j \in 1 .. Len(e) PROVE e[j] = c[TapBlock(k, i, Data!Before(e, j))]
  BY DEF Data!TapsFrom
<1> HIDE DEF e
<1>2. CASE j \in 1 .. Len(w)
  <2>1. Data!Before(e, j) = Data!Before(w, j)
    BY <1>1, <1>2 DEF Data!Before
  <2> QED BY <2>1, <1>1, <1>2 DEF Data!TapsFrom
<1>3. CASE j = Len(w) + 1
  <2>1. Data!Before(e, j) = [x \in 1 .. Len(w) |-> w[x]]
    BY <1>1, <1>3 DEF Data!Before
  <2>2. w = [x \in 1 .. Len(w) |-> w[x]]
    OBVIOUS
  <2> QED BY <2>1, <2>2, <1>1, <1>3
<1> QED BY <1>1, <1>2, <1>3

\* Under an override that answers for its key, a call has only words of the
\* override's cache, and returns its item.
FromSupplied(t) ==
  Matches(t, job[t].key) =>
    /\ gpc[t] = "taps" =>
         Data!TapsFrom(override[t].cache, job[t].key, job[t].index, words[t])
    /\ gpc[t] = "returned" =>
         Data!IsItem(item[t], override[t].cache, job[t].key, job[t].index)

SuppliedInv == \A t \in Threads : FromSupplied(t)

LEMMA OverriddenIs ==
  ASSUME NEW t \in Threads, NEW k
  PROVE  Data!Overridden(t, k) <=> Matches(t, k)
<1>1. Data!Overridden(t, k) <=> \E o \in Installed(t) : o.key = k
  BY DEF Data!Overridden
<1>2. CASE override[t].active
  <2> DEFINE o == [key |-> override[t].key, cache |-> override[t].cache]
  <2>1. Installed(t) = {o} /\ o.key = override[t].key
    BY <1>2 DEF Installed
  <2> HIDE DEF o
  <2> QED BY <1>1, <1>2, <2>1 DEF Matches
<1>3. CASE ~override[t].active
  BY <1>1, <1>3 DEF Installed, Matches
<1> QED BY <1>2, <1>3

LEMMA SuppliedKept ==
  ASSUME TypeOK, ItemsOK, PureInv, SuppliedInv, [ItemsNext]_<<vars, itemVars>>
  PROVE  SuppliedInv'
<1>1. ASSUME NEW t \in Threads, ItemStep(t) PROVE FromSupplied(t)'
  <2>1. FromSupplied(t) /\ UNCHANGED override
    BY <1>1 DEF SuppliedInv, ItemStep, vars
  <2>2. ASSUME Data!GetItem(t) PROVE FromSupplied(t)'
    <3>1. PICK k \in Keys, i \in Data!Indices : Data!Enter(t, k, i, ~Data!Overridden(t, k))
      BY <2>2 DEF Data!GetItem
    <3>2. /\ gpc[t] = "idle" /\ words'[t] = words[t] /\ job'[t].key = k
          /\ gpc'[t] = "returned" => ~Data!Overridden(t, k)
          /\ gpc'[t] \in {"returned", "threw", "taps"}
      BY <3>1 DEF Data!Enter, ItemsOK
    <3>3. words'[t] = <<>>
      BY <3>2 DEF ItemsOK, TapsOf
    <3>4. gpc'[t] = "returned" => ~Matches(t, job'[t].key)
      BY <3>2, OverriddenIs
    <3>5. Data!TapsFrom(override[t].cache, job'[t].key, job'[t].index, <<>>)
      BY DEF Data!TapsFrom
    <3> QED BY <2>1, <3>2, <3>3, <3>4, <3>5 DEF FromSupplied, Matches
  <2>3. ASSUME Data!Mix(t) PROVE FromSupplied(t)'
    <3>1. /\ gpc[t] = "taps" /\ gpc'[t] = "returned" /\ UNCHANGED job /\ Len(words[t]) = GetItemTaps
          /\ item'[t] = [key |-> job[t].key, index |-> job[t].index, words |-> words[t]]
      BY <2>3 DEF Data!Mix, Data!StoreWhen, ItemsOK
    <3> QED BY <2>1, <3>1 DEF FromSupplied, Matches, Data!IsItem
  <2>4. ASSUME Data!ItemOutOfMemory(t) \/ Data!Return(t) PROVE FromSupplied(t)'
    <3>1. gpc'[t] \in {"threw", "idle"}
      BY <2>4 DEF Data!ItemOutOfMemory, Data!Return, ItemsOK
    <3> QED BY <3>1 DEF FromSupplied
  <2> QED BY <1>1, <2>2, <2>3, <2>4 DEF ItemStep
<1>2. ASSUME NEW t \in Threads, TapBegin(t) \/ TapRuns(t) PROVE FromSupplied(t)'
  <2>1. FromSupplied(t) /\ UNCHANGED <<override, itemVars>>
    BY <1>2 DEF SuppliedInv, TapBegin, BeginOf, shared, TapRuns, Lookup, LookupUnder, Rebuild, Assign,
       Fill, FillStep, FillDone, FillDoneAfter, AssignFails, FillFails, Read, CacheFor
  <2> QED BY <2>1 DEF FromSupplied, Matches, itemVars
<1>3. ASSUME NEW t \in Threads, TapTake(t) PROVE FromSupplied(t)'
  <2> DEFINE c == override[t].cache  k == job[t].key  i == job[t].index
  <2>1. /\ TapsOf(t) /\ FromSupplied(t) /\ gpc[t] = "taps" /\ pc[t] = "returned"
        /\ words' = [words EXCEPT ![t] = Append(@, ret[t][1])]
        /\ UNCHANGED <<override, gpc, job, item>>
    BY <1>3 DEF ItemsOK, SuppliedInv, TapTake, Finish, shared
  <2>2. ret[t][1] \in Values /\ words[t] \in Seq(Values) /\ call[t] = Data!TapRead(t)
    BY <2>1 DEF ItemsOK, TapsOf
  <2>3. words'[t] = Append(words[t], ret[t][1])
    BY <2>1 DEF ItemsOK
  <2>4. ASSUME Matches(t, k) PROVE Data!TapsFrom(c, k, i, Append(words[t], ret[t][1]))
    <3>1. call[t].key = k /\ call[t].n = 1 /\ call[t].lo = TapBlock(k, i, words[t])
      BY <2>2 DEF Data!TapRead
    <3>2. ret[t] = SliceOf(c, call[t])
      BY <2>1, <2>4, <3>1 DEF PureInv, OverridePure
    <3>3. call[t].lo \in Nat
      BY DEF TypeOK, Calls
    <3>4. ret[t][1] = c[TapBlock(k, i, words[t])]
      BY <3>1, <3>2, <3>3 DEF SliceOf
    <3>5. Data!TapsFrom(c, k, i, words[t])
      BY <2>1, <2>4 DEF FromSupplied
    <3> QED BY <2>2, <3>4, <3>5, TapExtends
  <2> QED BY <2>1, <2>3, <2>4 DEF FromSupplied, Matches
<1>4. ASSUME NEW t \in Threads, TapThrows(t) PROVE FromSupplied(t)'
  <2>1. gpc'[t] = "threw"
    BY <1>4 DEF TapThrows, ItemsOK
  <2> QED BY <2>1 DEF FromSupplied
<1>5. ASSUME NEW t \in Threads, Scope(t) PROVE FromSupplied(t)'
  <2>1. gpc'[t] \in {"idle", "threw"}
    BY <1>5 DEF Scope, itemVars
  <2> QED BY <2>1 DEF FromSupplied
<1>6. ASSUME UNCHANGED <<vars, itemVars>> PROVE SuppliedInv'
  BY <1>6 DEF SuppliedInv, FromSupplied, Matches, vars, itemVars
<1>7. ASSUME NEW t \in Threads,
             ItemStep(t) \/ TapBegin(t) \/ TapRuns(t) \/ TapTake(t) \/ TapThrows(t) \/ Scope(t)
      PROVE  SuppliedInv'
  <2>1. FromSupplied(t)'
    BY <1>1, <1>2, <1>3, <1>4, <1>5, <1>7
  <2>2. ASSUME NEW u \in Threads, u # t PROVE FromSupplied(u)'
    <3>1. Same(u) /\ override'[u] = override[u]
      BY <1>7, <2>2, OthersSame
    <3> QED BY <3>1 DEF SuppliedInv, FromSupplied, Matches, Same
  <2> QED BY <2>1, <2>2 DEF SuppliedInv
<1> QED BY <1>6, <1>7 DEF ItemsNext

\* Every item of a verification is of the cache it was given, for any number of
\* threads on the memo, any failures, and any number of taps.
THEOREM SuppliedItemsHold == ItemsSpec => []SuppliedItems
<1>1. ItemsInit => SuppliedInv
  BY DEF ItemsInit, Data!Init, SuppliedInv, FromSupplied
<1>2. SuppliedInv => SuppliedItems
  BY DEF SuppliedInv, FromSupplied, SuppliedItems
<1> QED BY <1>1, <1>2, SuppliedKept, ItemsRunTheCache, TypeCorrect, PureInvariant, PTL DEF ItemsSpec

\* A step of the oracle is a step of the cache that Dataset composes with.
LEMMA DataCache ==
  ASSUME NEW t \in Threads
  PROVE  /\ Oracle!Install(t) => Data!Cache!Install(t)
         /\ Oracle!Remove(t) => Data!Cache!Remove(t)
         /\ Oracle!Answer(t) => Data!Cache!Answer(t)
         /\ Oracle!Finish(t) => Data!Cache!Finish(t)
         /\ \A r : Oracle!RequestOf(t, r) => Data!Cache!RequestOf(t, r)
         /\ UNCHANGED Oracle!vars => UNCHANGED Data!cacheVars
<1>1. Oracle!Install(t) => Data!Cache!Install(t)
  BY DEF Oracle!Install, Data!Cache!Install
<1>2. Oracle!Remove(t) => Data!Cache!Remove(t)
  BY DEF Oracle!Remove, Data!Cache!Remove
<1>3. Oracle!Answer(t) => Data!Cache!Answer(t)
  BY DEF Oracle!Answer, Data!Cache!Answer, Oracle!Source, Data!Cache!Source,
     Oracle!SliceOf, Data!Cache!SliceOf
<1>4. Oracle!Finish(t) => Data!Cache!Finish(t)
  BY DEF Oracle!Finish, Data!Cache!Finish, Oracle!NoCall, Data!Cache!NoCall,
     Oracle!NoCache, Data!Cache!NoCache
<1>5. \A r : Oracle!RequestOf(t, r) => Data!Cache!RequestOf(t, r)
  BY DEF Oracle!RequestOf, Data!Cache!RequestOf, Oracle!Exceeds, Data!Cache!Exceeds
<1>6. UNCHANGED Oracle!vars => UNCHANGED Data!cacheVars
  BY DEF Oracle!vars, Data!cacheVars
<1> QED BY <1>1, <1>2, <1>3, <1>4, <1>5, <1>6

\* With no failing rebuild no tap throws: its read is in range.
NoThrow == \A t \in Threads : pc[t] # "threw"

LEMMA NothingThrows ==
  ASSUME SoleMiner, TypeOK, ItemsOK, NoThrow, [ItemsNext]_<<vars, itemVars>>
  PROVE  NoThrow'
<1> USE DEF TypeOK, NoThrow
<1>1. ASSUME NEW t \in Threads, TapBegin(t) PROVE NoThrow'
  <2>1. ~Exceeds(Data!TapRead(t))
    BY <1>1, TapIsCall DEF TapBegin
  <2> QED BY <1>1, <2>1 DEF TapBegin, BeginOf
<1>2. ASSUME NEW t \in Threads, TapRuns(t) PROVE NoThrow'
  BY <1>2 DEF SoleMiner, TapRuns, Lookup, LookupUnder, Rebuild, Assign, Fill, FillStep, FillDone,
     FillDoneAfter, AssignFails, FillFails, Read, CacheFor
<1>3. ASSUME NEW t \in Threads, ItemStep(t) \/ TapTake(t) \/ TapThrows(t) \/ Scope(t) PROVE NoThrow'
  BY <1>3 DEF ItemStep, vars, TapTake, TapThrows, Finish, Scope, Construct, ConstructNull,
     Destroy, local
<1>4. ASSUME UNCHANGED <<vars, itemVars>> PROVE NoThrow'
  BY <1>4 DEF vars
<1> QED BY <1>1, <1>2, <1>3, <1>4 DEF ItemsNext

\* With one miner and no failing rebuild, get_item over the memo, its rekeying
\* and its partly rebuilt states implements get_item over the oracle, of which
\* Dataset_proofs shows that its items are faithful.
THEOREM ItemsImplementDataset == ASSUME SoleMiner PROVE ItemsSpec => ImplementsDataset
<1>1. ItemsInit => Data!Init
  BY DEF ItemsInit
<1>2. TypeOK /\ OverrideOwned /\ PureInv /\ MemoInv /\ ItemsOK /\ NoThrow
        /\ [ItemsNext]_<<vars, itemVars>> => [Data!Next]_(Data!vars)
  <2> SUFFICES ASSUME TypeOK, OverrideOwned, PureInv, MemoInv, ItemsOK, NoThrow,
                      [ItemsNext]_<<vars, itemVars>>
               PROVE  Data!Next \/ UNCHANGED Data!vars
    OBVIOUS
  <2>1. ASSUME NEW t \in Threads, ItemStep(t) PROVE Data!Next
    BY <2>1 DEF ItemStep, Data!Next
  <2>2. ASSUME NEW t \in Threads, TapBegin(t) PROVE Data!TapRequest(t)
    <3>1. Oracle!RequestOf(t, Data!TapRead(t))
      BY <2>2, TapIsCall, BeginRequests DEF TapBegin
    <3> QED BY <2>2, <3>1, DataCache DEF TapBegin, Data!TapRequest, itemVars, Data!callVars
  <2>3. ASSUME NEW t \in Threads, TapRuns(t) PROVE Data!TapAnswer(t) \/ UNCHANGED Data!vars
    <3>1. CASE Read(t)
      BY <2>3, <3>1, ReadAnswers, DataCache DEF TapRuns, Data!TapAnswer, itemVars, Data!callVars
    <3>2. CASE Lookup(t) \/ Refill(t)
      BY <2>3, <3>2, HiddenSteps, DataCache DEF TapRuns, itemVars, Data!vars, Data!cacheVars
    <3>3. ~AssignFails(t) /\ ~FillFails(t)
      BY DEF AssignFails, FillFails, SoleMiner
    <3> QED BY <2>3, <3>1, <3>2, <3>3 DEF TapRuns, Rebuild, Refill
  <2>4. ASSUME NEW t \in Threads, TapTake(t) PROVE Data!TapTake(t)
    <3>1. Data!Cache!Finish(t)
      BY <2>4, FinishFinishes, DataCache DEF TapTake
    <3>2. Phase(t) = "returned"
      BY <2>4 DEF TapTake, Phase
    <3> QED BY <2>4, <3>1, <3>2 DEF TapTake, Data!TapTake
  <2>5. ASSUME NEW t \in Threads, TapThrows(t) PROVE FALSE
    BY <2>5 DEF TapThrows, NoThrow
  <2>6. ASSUME NEW t \in Threads, Scope(t) PROVE Data!Scope(t) \/ UNCHANGED Data!vars
    <3>1. CASE gpc[t] = "idle" /\ Construct(t)
      <4>1. Data!Cache!Install(t)
        BY <3>1, ConstructInstalls, DataCache
      <4> QED BY <2>6, <3>1, <4>1 DEF Scope, Data!Scope, itemVars, Data!callVars
    <3>2. CASE ConstructNull(t)
      BY <2>6, <3>2, HiddenSteps, DataCache DEF Scope, itemVars, Data!vars, Data!cacheVars
    <3>3. CASE gpc[t] \in {"idle", "threw"} /\ Destroy(t)
      <4>1. Data!Cache!Remove(t) \/ UNCHANGED Data!cacheVars
        BY <3>3, DestroyRemoves, DataCache
      <4> QED BY <2>6, <3>3, <4>1 DEF Scope, Data!Scope, itemVars, Data!callVars, Data!vars,
            Data!cacheVars
    <3> QED BY <2>6, <3>1, <3>2, <3>3 DEF Scope
  <2>7. CASE UNCHANGED <<vars, itemVars>>
    <3>1. UNCHANGED Data!cacheVars
      BY <2>7 DEF vars, Data!cacheVars, Installed, Phase
    <3> QED BY <2>7, <3>1 DEF itemVars, Data!vars, Data!cacheVars
  <2> QED
    BY <2>1, <2>2, <2>3, <2>4, <2>5, <2>6, <2>7 DEF ItemsNext, Data!Next
<1>3. Init => NoThrow
  <2> SUFFICES ASSUME Init, NEW t \in Threads PROVE pc[t] # "threw"
    BY DEF NoThrow
  <2> QED BY DEF Init
<1> QED
  BY <1>1, <1>2, <1>3, ItemsInitially, NothingThrows, ItemsRunTheCache, TypeCorrect,
     OverrideOwnership, PureInvariant, MemoInvariant, PTL
  DEF ItemsSpec, ImplementsDataset, Data!Spec
=============================================================================
