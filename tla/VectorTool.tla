----------------------------- MODULE VectorTool -----------------------------
(***************************************************************************)
(* tools/generate_test_vectors.cpp: documents of test vectors, generated   *)
(* one after another in one process (as tests/test_vectors.cpp does) over  *)
(* its memos of a cache and of items.  One thread and no override: a call  *)
(* of core/ is one step (CacheOracle, PowOracle), and an allocation that   *)
(* fails ends the program.  Digests and generated contents are named by    *)
(* what they are made of; make_hash(n) is n.  The numbers that depend on   *)
(* digests, the places of a round and the hashes of the replays, are       *)
(* chosen once and for all.                                                *)
(***************************************************************************)
EXTENDS Bytes, FiniteSets, SequencesExt

CONSTANTS Units,                 \* units of a scratch
          Rounds,                \* [read0, read1, write, items]: places a round may use
          PowHashes,             \* hashes of the replays of TV-007, one for each case
          MaxDocuments           \* bound: documents of one process

Indices == {"0", "17", "half", "last"}

ASSUME VectorToolAssumption ==
  /\ Rounds \subseteq [read0 : Units, read1 : Units, write : Units, items : [1 .. 3 -> Indices]]
  /\ PowHashes \subseteq [1 .. 5 -> Hash256]
  /\ MaxDocuments \in Nat

Key(profile, seed) == [profile |-> profile, seed |-> seed]
NoKey == Key("none", 0)
NoItems == [i \in {} |-> NoKey]

----------------------------------------------------------------------------
(* The cases, in the order of the code. *)

Header(version, height, timestamp, bits, seed) ==
  [version |-> version, height |-> height, timestamp |-> timestamp, bits |-> bits,
   previous_block_hash |-> seed, transactions_root |-> seed + \h20, state_root |-> seed + \h40,
   nonce |-> 0, pow_result |-> seed + \h60]
Minimal == Header(1, 0, 0, \h1d00ffff, \h10)
Nontrivial == Header(2, 4321, 1717171717, \h1c654657, \h21)

SeedCases == <<
  [chain |-> 1,   epoch |-> 1,       anchor |-> \h10], [chain |-> 1,   epoch |-> 123, anchor |-> \h20],
  [chain |-> 1,   epoch |-> 1048576, anchor |-> \h30], [chain |-> \h11, epoch |-> 123, anchor |-> \h20] >>

\* Mutant: the last case is made of the first header.
HeaderCasesOfMinimal == <<
  Minimal, Nontrivial, [Nontrivial EXCEPT !.timestamp = @ + 1],
  [Minimal EXCEPT !.nonce = 99, !.pow_result = \ha0] >>

HeaderCases == <<
  Minimal, Nontrivial, [Nontrivial EXCEPT !.timestamp = @ + 1],
  [Nontrivial EXCEPT !.nonce = 99, !.pow_result = \ha0] >>

Offsets == <<"0", "4096", "half", "end - 64">>    \* default_cache_offsets
CacheCases == <<
  [key |-> Key("CX-18", \h31), offsets |-> Offsets], [key |-> Key("CX-32", \h41), offsets |-> Offsets],
  [key |-> Key("CX-18", \h51), offsets |-> <<"128", "65536", "end - 128">>] >>

ItemCases == <<
  [key |-> Key("CX-18", \h61), index |-> "0"],    [key |-> Key("CX-18", \h61), index |-> "17"],
  [key |-> Key("CX-18", \h61), index |-> "half"], [key |-> Key("CX-18", \h61), index |-> "last"],
  [key |-> Key("CX-32", \h71), index |-> "17"] >>

Lane(key, digest, nonce, lane) == [key |-> key, digest |-> digest, nonce |-> nonce, lane |-> lane]
ScratchCases == <<
  Lane(Key("CX-18", \h81), \h91, 42, 0), Lane(Key("CX-18", \h81), \h91, 42, 7),
  Lane(Key("CX-32", \ha1), \hb1, 7, 1) >>

RoundCases == <<
  [lane |-> Lane(Key("CX-18", \hc1), \hd1, 5, 0), round |-> 0],
  [lane |-> Lane(Key("CX-18", \hc1), \hd1, 5, 3), round |-> 17],
  [lane |-> Lane(Key("CX-32", \he1), \hf1, 11, 1), round |-> 0] >>

Replay(key, digest, nonce) == [key |-> key, digest |-> digest, nonce |-> nonce]
ReplayCases == <<
  Replay(Key("CX-18", \h11), \h21, "0123456789abcdef"), Replay(Key("CX-32", \h31), \h41, "1111222233334444"),
  Replay(Key("CX-64", \h51), \h61, "5555666677778888"), Replay(Key("CX-128", \h71), \h81, "9999aaaabbbbcccc"),
  Replay(Key("CX-18", \h11), \h21, "0123456789abcdf0") >>

----------------------------------------------------------------------------

VARIABLES pc,         \* "idle", "generating" or "threw"
          preset,     \* of the document in progress
          section, case,
          doc,        \* its vectors so far
          docs,       \* the documents returned
          cacheMemo,  \* [key, cache]: the memo, and the key its cache was generated for
          itemMemo,   \* [key, map]: index -> key of the cache it was derived from
          reference_hash,   \* first_pow_hash
          place,      \* the places a round uses
          powHash     \* the hash of each replay

process == <<pc, preset, section, case, doc, docs>>
chosen == <<place, powHash>>
vars == <<pc, preset, section, case, doc, docs, cacheMemo, itemMemo, reference_hash, place, powHash>>

ZeroHash == [i \in 1 .. HashBytes |-> 0]
MaxHash == [i \in 1 .. HashBytes |-> Base - 1]

Init ==
  /\ pc = "idle" /\ preset = "smoke" /\ section = 1 /\ case = 1 /\ doc = <<>> /\ docs = <<>>
  /\ cacheMemo = [key |-> NoKey, cache |-> NoKey]
  /\ itemMemo = [key |-> NoKey, map |-> NoItems]
  /\ reference_hash = ZeroHash
  /\ place \in Rounds /\ powHash \in PowHashes

Generate == \E p \in {"smoke", "canonical"} :
  /\ pc = "idle" /\ Len(docs) < MaxDocuments
  /\ pc' = "generating" /\ preset' = p /\ section' = 1 /\ case' = 1 /\ doc' = <<>>
  /\ UNCHANGED <<docs, cacheMemo, itemMemo, reference_hash, chosen>>

Count == <<Len(SeedCases), Len(HeaderCases), Len(CacheCases), Len(ItemCases), Len(ScratchCases),
           Len(RoundCases), Len(ReplayCases), 5>>

\* Mutant: the smoke preset has two cases.
LastCaseOfTwo == case = IF preset = "smoke" THEN 2 ELSE Count[section]

\* A smoke document has the first case of each section.
LastCase == case = IF preset = "smoke" THEN 1 ELSE Count[section]

At(s) == pc = "generating" /\ section = s

\* The vector of a case; after the last one of TV-008 the document is returned.
Emit(body) ==
  /\ doc' = Append(doc, [id |-> <<section, case>>, body |-> body])
  /\ IF LastCase THEN section' = section + 1 /\ case' = 1 ELSE case' = case + 1 /\ UNCHANGED section
  /\ IF LastCase /\ section = 8 THEN pc' = "idle" /\ docs' = Append(docs, [preset |-> preset, vectors |-> doc'])
                      ELSE UNCHANGED <<pc, docs>>
  /\ UNCHANGED <<preset, chosen>>

Tv001 ==
  /\ At(1) /\ Emit([expected_epoch_seed |-> SeedCases[case]])
  /\ UNCHANGED <<cacheMemo, itemMemo, reference_hash>>

Covered(h) == [f \in DOMAIN h \ {"nonce", "pow_result"} |-> h[f]]

Tv002 ==
  /\ At(2) /\ Emit([serialized |-> Covered(HeaderCases[case]), digest |-> Covered(HeaderCases[case])])
  /\ UNCHANGED <<cacheMemo, itemMemo, reference_hash>>

\* Mutant: the seed is not compared.
MemoHitsUnlessReseeded(k) == cacheMemo.key.profile = k.profile

MemoHits(k) == cacheMemo.key = k

\* epoch_cache_slice and epoch_cache_word, through memoized_epoch_cache.
Memoized(k) == IF MemoHits(k) THEN cacheMemo ELSE [key |-> k, cache |-> k]

\* Slices of the memo's cache, and the hash of a cache built beside it.
SampleVector(c, sampled, built) ==
  [samples |-> [n \in DOMAIN c.offsets |-> [cache |-> sampled, offset |-> c.offsets[n]]],
   cache_hash |-> built]

Tv003 ==
  /\ At(3)
  /\ cacheMemo' = Memoized(CacheCases[case].key)
  /\ Emit(SampleVector(CacheCases[case], cacheMemo'.cache, CacheCases[case].key))
  /\ UNCHANGED <<itemMemo, reference_hash>>

\* Mutant: items of another key stay.
KeptKeepingItems(k) == itemMemo.map

Kept(k) == IF itemMemo.key = k THEN itemMemo.map ELSE NoItems

\* get_item for the indices S of one key; the cache is looked up if one is missing.
GetItems(k, S) ==
  LET kept == Kept(k) IN
  /\ cacheMemo' = IF S \subseteq DOMAIN kept THEN cacheMemo ELSE Memoized(k)
  /\ itemMemo' = [key |-> k, map |-> [i \in DOMAIN kept \union S |->
                                        IF i \in DOMAIN kept THEN kept[i] ELSE cacheMemo'.cache]]

Item(i, cache) == [index |-> i, cache |-> cache]

Tv004 ==
  LET c == ItemCases[case] IN
  /\ At(4)
  /\ GetItems(c.key, {c.index})
  /\ Emit(Item(c.index, itemMemo'.map[c.index]))
  /\ UNCHANGED reference_hash

\* derive_scratch_unit, and LaneScratch::Initialize with all units.
DerivedUnit(lane, u) == [lane |-> lane, unit |-> u]
FreshScratch(lane) == [u \in Units |-> DerivedUnit(lane, u)]

Tv005 ==
  /\ At(5)
  /\ Emit([prefix |-> DerivedUnit(ScratchCases[case], 0), scratch_hash |-> FreshScratch(ScratchCases[case])])
  /\ UNCHANGED <<cacheMemo, itemMemo, reference_hash>>

\* execute_round (Replay), by what it mixes.
NextState(state, reads, items) == [next |-> <<state, reads, items>>]
WriteUnit(state, reads, items) == [written |-> <<state, reads, items>>]

ReadsOf(scratch) == <<scratch[place.read0], scratch[place.read1]>>

\* Mutant: the reads of the vector come from the scratch the round has written.
InitialReadsUsed(lane, unit) == ReadsOf([FreshScratch(lane) EXCEPT ![place.write] = unit])

\* The reads of the vector come from a second scratch.
InitialReads(lane, unit) == ReadsOf(FreshScratch(lane))

\* The round reads its items, the vector reads them again.  cacheOf: index -> key of the cache an item comes from.
RoundVector(c, cacheOf) ==
  LET state == [state |-> c.lane, round |-> c.round]
      reads == ReadsOf(FreshScratch(c.lane))
      items == [n \in 1 .. 3 |-> Item(place.items[n], cacheOf[place.items[n]])]
      unit  == WriteUnit(state, reads, items)
  IN  [initial_state |-> state, initial_scratch_reads |-> InitialReads(c.lane, unit),
       item_indices |-> place.items, item_hashes |-> items, write_index |-> place.write,
       written_value |-> unit, next_state |-> NextState(state, reads, items)]

Tv006 ==
  /\ At(6)
  /\ GetItems(RoundCases[case].lane.key, Range(place.items))
  /\ Emit(RoundVector(RoundCases[case], itemMemo'.map))
  /\ UNCHANGED reference_hash

\* replay_nonce, of whose items those of the round stand for all.
ReplayVector(n, cacheOf) ==
  LET lanes == [nonce |-> ReplayCases[n], items |-> {Item(i, cacheOf[i]) : i \in Range(place.items)}] IN
  [lane_states |-> lanes, lane_accumulators |-> lanes, pow_hash |-> powHash[n]]

Tv007 ==
  /\ At(7)
  /\ GetItems(ReplayCases[case].key, Range(place.items))
  /\ Emit(ReplayVector(case, itemMemo'.map))
  /\ reference_hash' = IF case = 1 THEN powHash[1] ELSE reference_hash

\* Mutant: without the carry.
LessTargetWithoutCarry(h) == [h EXCEPT ![1] = (@ + 1) % Base]

\* less_target: the hash plus one, from byte 0 on.
LessTarget(h) ==
  [i \in 1 .. HashBytes |-> IF \A j \in 1 .. i - 1 : h[j] = Base - 1 THEN (h[i] + 1) % Base ELSE h[i]]

TargetCases(h) ==
  << <<h, LessTarget(h)>>, <<h, h>>, <<h, ZeroHash>>,
     <<ZeroHash, [ZeroHash EXCEPT ![1] = 1]>>, <<MaxHash, MaxHash>> >>

TargetVector(n, h) ==
  LET c == TargetCases(h)[n] IN [pow_hash |-> c[1], target |-> c[2], valid |-> MeetsTarget(c[1], c[2])]

Tv008 ==
  /\ At(8)
  /\ Emit(TargetVector(case, reference_hash))
  /\ UNCHANGED <<cacheMemo, itemMemo, reference_hash>>

OutOfMemory ==
  /\ pc = "generating" /\ pc' = "threw"
  /\ UNCHANGED <<preset, section, case, doc, docs, cacheMemo, itemMemo, reference_hash, chosen>>

Next ==
  \/ Generate \/ Tv001 \/ Tv002 \/ Tv003 \/ Tv004 \/ Tv005 \/ Tv006 \/ Tv007 \/ Tv008
  \/ OutOfMemory

Spec == Init /\ [][Next]_vars

----------------------------------------------------------------------------
(* Properties *)

Vectors == Range(doc) \union UNION {Range(d.vectors) : d \in Range(docs)}
Body(s) == {v.body : v \in {w \in Vectors : w.id[1] = s}}

\* The cases the tool has, in order: one of each section, or all.
CasesOf(p) == IF p = "smoke" THEN <<1, 1, 1, 1, 1, 1, 1, 1>> ELSE <<4, 4, 3, 5, 3, 3, 5, 5>>
Before(p) == IF p = "smoke" THEN <<0, 1, 2, 3, 4, 5, 6, 7, 8>> ELSE <<0, 4, 8, 11, 16, 19, 22, 27, 32>>
Ordered(p, vs) == \A s \in 1 .. 8 : \A c \in 1 .. CasesOf(p)[s] :
  Before(p)[s] + c \in DOMAIN vs => vs[Before(p)[s] + c].id = <<s, c>>

TypeOK ==
  /\ pc \in {"idle", "generating", "threw"} /\ preset \in {"smoke", "canonical"}
  /\ section \in 1 .. 9 /\ case \in 1 .. 5
  /\ Ordered(preset, doc) /\ Len(doc) <= Before(preset)[9]
  /\ \A d \in Range(docs) : Ordered(d.preset, d.vectors) /\ Len(d.vectors) = Before(d.preset)[9]
  /\ Len(docs) <= MaxDocuments
  /\ reference_hash \in Hash256

\* A vector is a function of its case: whatever was generated before it in the
\* document or in the process, and whatever the two memos hold for another epoch
\* or profile, it is made of the cache and the items of its own key, and TV-008
\* of the hash of TV-007-A (tests/test_vectors.cpp:32-38, two documents are equal).
VectorsFresh ==
  \A v \in Vectors :
    LET s == v.id[1]  n == v.id[2] IN
    /\ s = 3 => v.body = SampleVector(CacheCases[n], CacheCases[n].key, CacheCases[n].key)
    /\ s = 4 => v.body = Item(ItemCases[n].index, ItemCases[n].key)
    /\ s = 6 => v.body = RoundVector(RoundCases[n], [i \in Indices |-> RoundCases[n].lane.key])
    /\ s = 7 => v.body = ReplayVector(n, [i \in Indices |-> ReplayCases[n].key])
    /\ s = 8 => v.body = TargetVector(n, powHash[1])

\* A TV-006 vector holds a complete transition: from its own state, reads and items
\* follow its written value and its next state, also when the round overwrites a
\* unit it has read (generate_test_vectors.cpp:357-366).
TransitionReplays ==
  \A v \in Body(6) :
    /\ v.written_value = WriteUnit(v.initial_state, v.initial_scratch_reads, v.item_hashes)
    /\ v.next_state = NextState(v.initial_state, v.initial_scratch_reads, v.item_hashes)

\* The cases show what test_vectors.md:92-93 wants of TV-002 (headers that differ in
\* one field have other digests, nonce and result do not matter) and :264 of
\* TV-007 (another nonce on the same header).
CasesShow ==
  \A d \in {e \in Range(docs) : e.preset = "canonical"} :
    LET digest(n) == d.vectors[4 + n].body.digest
        replay(n) == d.vectors[22 + n].body.lane_states IN
    /\ digest(4) = digest(2) /\ Cardinality({digest(n) : n \in 1 .. 3}) = 3
    /\ replay(5).nonce.digest = replay(1).nonce.digest /\ replay(5) # replay(1)

\* The verdicts of TV-008 are those of the numbers, and its cases are one target
\* above, equal to, and below the hash, unless the hash is the greatest or zero
\* (generate_test_vectors.cpp:435-473).
VerdictsNumeric ==
  \A v \in Vectors : v.id[1] = 8 =>
    LET h == Value(v.body.pow_hash)  t == Value(v.body.target) IN
    /\ v.body.valid <=> h < t
    /\ v.id[2] = 1 /\ v.body.pow_hash # MaxHash => t = h + 1
    /\ v.id[2] = 2 => t = h
    /\ v.id[2] = 3 /\ v.body.pow_hash # ZeroHash => t < h
=============================================================================
