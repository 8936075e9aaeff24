# ColossusX in TLA+

ColossusX is a memory-hard proof of work: an epoch seed determines a cache
`C_e`, every dataset item is derived from words of the cache, and a nonce is
replayed as eight lanes of thousands of rounds, each round reading three items
and a writable scratch. A miner may keep items; a verifier replays one nonce
from the cache alone. These modules model the reference implementation
(`src/core`), its benchmarks (`src/bench`) and its test-vector tool
(`src/tools`), check them on small instances with TLC, and prove every safety
property checked, for every instance, with TLAPS.

## The system

| component | state it keeps | operations | hard behaviour |
|---|---|---|---|
| profiles (`epoch_cache.cpp` 19-22, 180-192) | constant tables | `profile_parameters` | boundary arithmetic on sizes |
| epoch cache (`epoch_cache.cpp`) | one static memo per process; one `thread_local` override per thread | `build`/`rebuild_epoch_cache`, `epoch_cache_slice`, `epoch_cache_word`, `ScopedEpochCacheOverride` | the memo is rebuilt in place, unlocked, key first; rebuilds may throw; scopes unwind |
| dataset items (`get_item.cpp`) | one static item memo per process | `get_item`, `dataset_item_count` | memo shared by threads, rekeyed at epoch changes, bypassed under an override; taps choose each other |
| lane scratch (`scratch.cpp`) | bytes, or a map of the units touched | `Initialize`, `InitializeLazy`, `ReadUnit`, `WriteUnit`, `scratch_integrity_hash` | reads change the map of a lazy scratch |
| round function (`round_function.cpp`) | none of its own | `execute_round` | data-dependent order: two reads, three chained items, one write |
| lane replay, fold, hash (`pow.cpp`) | locals of a call | `replay_lane`, `replay_nonce`, `fold_lane_results`, `compute_pow_hash`, `pow_hash` | exceptions anywhere; lane order |
| verifier (`verifier.cpp`) | the override, for the time of a call | `verify_pow`, `pow_hash_meets_target` | the override must go whichever way the call ends |
| header and seed (`header.cpp`, `epoch_seed.cpp`) | none | serialization, digest, epoch index, seed | what is covered, five characters of a name, field widths |
| SHAKE256 (`shake256.cpp`) | none | `shake256` | block boundaries of absorb and squeeze |
| benchmarks (`bench_common.cpp`) | the trace, the retained items, the caches of a call | trace collection, retention run, verifier and rebuild loops | they run over the process-wide memos they mean to measure |
| test-vector tool (`generate_test_vectors.cpp`) | the document, the first hash | one function per section, `generate_test_vectors_document` | documents share the process's memos; a vector is put together from several calls |
| tests | none | callers of the above | - |

Calls go down one path: `verify_pow` installs an override and calls
`pow_hash`, which calls `replay_lane` for each lane, which calls
`execute_round`, which calls `get_item` and the scratch; `get_item` calls
`epoch_cache_word`, which finds the override or the memo. The two memos and the
overrides are the only state that outlives a call, and the only state that
threads share is the memos. Nothing is persisted and nothing is sent.

What makes each part correct:

- epoch cache: a read answers from the override of that key if the thread has
  one and from the generated cache otherwise; an override has exactly one
  owner; a read comes back.
- items: an item is a function of the cache in force and its index; the memo
  holds items of its own key and of the generated cache only.
- layout: range checks are exact over wrapping integers; taps stay inside the
  cache and apart from each other.
- scratch: either representation is an array.
- replay and verifier: the result is the fold of lanes that are functions of
  their own inputs; no call leaves anything for the next; the verdict is a
  comparison of numbers.
- derivations: a digest is SHAKE256 of its input; two derivations share one only
  if they are one, and a header's leaves out nonce and result.
- benchmarks: the clock of a retention run sees every access, a call of
  `get_item` for each one that is not retained, and no derivation of what the
  process already has; a verifier's and a rebuild's see what they report; a call
  holds one cache at most. That a miss of a retention costs a derivation is not
  among these: it costs none.
- vectors: a vector is a function of its case, and shows what the case is for.

## Modules

| module | models | state and actions against the code |
|---|---|---|
| `EpochCacheParams` | constants | `Gen[k][b]` is `generate_cache_block`; a block's content is a value that no other block has |
| `EpochCache` | `epoch_cache.cpp` | `override`, `scopes` (the `active_` of live scope objects), `memo` (key, flag, vector, capacity), and per thread `pc`, `call`, `blk`, `ret`. One action per access to shared state: `Construct*`, `Destroy`, `Begin` (range check), `Lookup` (line 143 to 145), `Read`, and in `Rebuild` `Assign`, `Fill` (one block), `FillDone` (line 147); `AssignFails` and `FillFails` are `std::bad_alloc` |
| `CacheOracle` | the promise of `epoch_cache.h` | no memo, no rebuild: a read is one step |
| `ItemParams` | constants | item counts, the number of taps, and where each tap reads (`TapBlock`) |
| `Dataset` | `get_item.cpp` over `CacheOracle` | `items` is the item memo; `GetItem` is everything up to the first tap, `TapRequest`, `TapAnswer`, `TapTake` are one tap, `Mix` the final mixing and the emplace, `Scope` the caller's override |
| `CachedItems` | `get_item.cpp` over `EpochCache` | the calls of `Dataset` with the cache's own steps: a tap is a read of `EpochCache`, begun by `TapBegin`, run by `TapRuns`, taken by `TapTake` or thrown on by `TapThrows` |
| `CacheLayout` | the index arithmetic of both files | `Slice`, `Word`, `Tap`, `NextItem` |
| `ScratchParams`, `LaneScratch` | `scratch.cpp` | `Initialize` and `InitializeLazy` are the initial states; one action per member function, `OutOfRange` and `OutOfMemory` its exceptions |
| `ScratchArray` | the promise of `scratch.h` | an array of units |
| `Bytes` | `verifier.cpp` 33-44 | hashes and targets as bytes, the numbers they make (`Value`), and `MeetsTarget` |
| `PowParams`, `Replay` | `round_function.cpp`, `pow.cpp`, `verifier.cpp` | one thread: `PowHashCall` or `Verify`, `StartLane`, `ReadScratch`, `LoadItem` three times, `FinishRound`, `EndLane`, `Finish`, `Leave`, and `OutOfMemory` at any point. The mixing functions are constant operators |
| `PowOracle` | the promise of `pow.h` and `verifier.h` | a call is one step; `LaneAfter` is a lane as a recursive function of its rounds |
| `Retention` | `bench_common.cpp` 46-204 | `Collect`, `Run`, `Preload`, `StartClock`, `Access`, `NextPass`, `Report`; the elapsed time is `touched`, `misses` and `derived`, what happens between the two clock readings. A selection sorts by rank (`Sorted`): the place of an item is how many come before it |
| `Benchmarks` | `bench_common.cpp` 206-269, `bench_verifier.cpp` | extends `Retention`: the verifier and rebuild benchmarks, called between retention runs. `caches` is how many cache objects the call holds, `built` and `verified` what its clock has seen |
| `Sponge` | `shake256.cpp` | `Start`, `AbsorbBlock`, `AbsorbLast`, `Squeeze` (one chunk), `Return`. The permutation is ideal: a state is the sequence of blocks absorbed into it, an output byte the place it was read from |
| `Preimages` | the inputs that `header.cpp`, `epoch_seed.cpp`, `epoch_cache.cpp`, `get_item.cpp`, `scratch.cpp` and `pow.cpp` hash | `Fields` has one operator per derivation, byte for byte, with the real tables; an integer is the set of its bits |
| `Hashing` | the calls | `Ask`, `Hash`, `Answer`: derivations call the sponge one after the other |
| `VectorTool` | `generate_test_vectors.cpp` | one action per section, `Tv001` to `Tv008`, each step a case; `cacheMemo` and `itemMemo` are the process's memos, `docs` what was returned |
| `MC*` | instances for TLC | values of the constants |
| `*_proofs` | theorems | see below |

The parts compose by contract: `EpochCache` implements `CacheOracle`; `Dataset`
is written over `CacheOracle`, and shows that an item is a function of the cache
in force and the index. Those two are also composed step by step: `CachedItems`
is `get_item` over the memo itself, races and failures included, and implements
`Dataset` where `EpochCache` implements `CacheOracle`: with one thread on the
memo and no failing rebuild. `Replay` uses items as such a function (`ItemOf`) and
scratches as the arrays that `LaneScratch` is shown to implement; `Retention`
uses of `Dataset` only that the memo gains what is asked for; `Benchmarks` uses
of `Dataset` and `EpochCache` that a verification touches neither memo
(`OverrideLeavesItems`, `OverrideLeavesMemo`). `Preimages` and `Hashing` are why
the other modules may take what is derived from different keys, indices and
lanes for different values; `VectorTool` is written over the contracts of all of
them, a call being one step.

Definitions whose comment begins with "Mutant" are faulty variants of the
definition that follows. Put in its place they break one property each; they
are there to show that the property can fail.

## Runs

| run | cfg | shows |
|---|---|---|
| epoch_cache | `EpochCache.cfg` | one thread on the memo and one under overrides, no failing allocation: types, `OverrideOwned`, `MemoFaithful`, `ReadsFresh`, `ReadTerminates`, and `ImplementsOracle` |
| cached_items | `CachedItems.cfg` | two threads race on both memos and rebuilds throw, under `get_item`: `OverridePure`, `OverrideLeavesMemo` and, of the items, `SuppliedItems` still hold |
| epoch_cache_poison | `EpochCachePoison.cfg` | violation of `ReadsFresh`: one thread, one rebuild that throws |
| dataset | `Dataset.cfg` | a miner and a verifier: `ItemMemoFaithful`, `ItemFaithful`, `ItemMemoGrows`, `OverrideLeavesItems` |
| dataset_race | `DatasetRace.cfg` | violation of `ItemFaithful`: two miners in different epochs |
| layout | `CacheLayout.cfg` | `SliceExact`, `TapInside`, `TapsDispersed` with the real sizes |
| layout_word | `CacheLayoutWord.cfg` | violation of `WordRefusedPastEnd` |
| scratch | `LaneScratch.cfg` | `ImplementsArray` |
| replay | `Replay.cfg` | `OverrideScoped`, `LanesIndependent`, `ImplementsPow`, `CallsEnd` |
| hashing | `Hashing.cfg` | `OutputIsSponge`, `NoCollision`, `EveryCallReturns` |
| vectors | `VectorTool.cfg` | `VectorsFresh`, `TransitionReplays`, `CasesShow`, `VerdictsNumeric` |
| benchmarks | `Benchmarks.cfg` | `HottestKept`, `ClockedExactly`, `DerivedOnce`, `CallsClockedExactly`, `OneCacheHeld` |

### What the violations say

- **A failed rebuild poisons the memo** (`epoch_cache.cpp:144`). The key is
  stored before the rebuild and `initialized` stays true from an earlier epoch.
  After a `std::bad_alloc` the next read of that key is a hit on whatever the
  rebuild left. Storing the key after the rebuild would do.
- **Two threads in different epochs mix items** (`get_item.cpp:177`). The memo's
  key is checked on entry and the item stored on exit. The run has the item of
  one epoch returned in another, although `REVIEW_CHECKLIST.md:179` wants results
  independent of scheduling. Under an override the memo is bypassed, so
  verifiers are not affected; a process with one mining thread is not either.
- **The word check wraps** (`epoch_cache.cpp:243`). Index `2^61 - 1` passes, and
  so do indices whose product with the word size wraps into the cache. No
  caller in the repository asks for it: taps stay inside.

### Seen while modelling, and not run

- The last words of a cache are read by no tap (`get_item.cpp:126`): 8 of a
  256 MiB cache, 16 of a 512 MiB one. One of the two bytes that
  `tests/test_verifier.cpp:115` corrupts is among them.
- A retention run reports the retained items as resident
  (`bench_common.cpp:198`), while the item memo holds every item of the trace.
  The misses of a program that collected its trace are memo hits, whatever the
  mode, and so are those of its second run (`DerivedOnce`): the ratios that
  `spec.md` 18 judges a design by compare lookups in two maps.
- `reference/test_vectors.md` asks of TV-006 at least one case per active
  profile; the tool has cases of CX-18 and CX-32 only
  (`generate_test_vectors.cpp:340-344`).
- The verifier benchmark takes byte 0 of the target for a sign that any hash
  meets it (`bench_common.cpp:228`), although hashes are compared from byte 31
  down. Its one caller passes a target of all `0xff`.

## Bounds, and why they are enough

- `EpochCache`: two threads, three keys over two profiles whose caches have one
  and two blocks, so a rekey can grow or shrink the vector and change the seed or
  the profile alone; reads of one block at offsets 0 and 1 reach the end and past
  it; two scopes (`MaxScopes`) so that a null or nested one meets an owner. The
  races need two threads and one block written while another is not.
- `Dataset`: two taps, the place of the second depending on the word of the
  first, an override with a corrupted first block, indices up to one past the
  end. One override per thread: the only caller that installs one never nests
  (`CallsAreNeverRefused`).
- `CachedItems`: the two threads and two profiles of `EpochCache` with one seed,
  both threads on the memos and one of them with a scope (`MaxScopes`); one item
  of two taps, and an override whose first block is the other profile's, so
  that a word of the memo and a word of the override are told apart in either
  tap. Two taps are the least that let the second one go astray. `ImplementsDataset`
  is proved and not run: it needs one miner and no failure, and this run has
  neither.
- `CacheLayout`: the two real cache sizes and 24 taps; words are cut to 30 bits
  (`MCModulus`) to fit TLC's integers, and arguments are the boundaries 0, 1, a
  stripe, the word count, the size, the last values before wrapping. The proofs
  are for every width.
- `LaneScratch`: two lanes, three units, one index past the end, one value to
  write that no derivation returns.
- `Replay`: two keys, two works, two lanes, two rounds, scratches of two units,
  values modulo 5; the caches offered to the verifier are the generated one, one
  with a corrupted block and one of another size; two-byte hashes and targets
  around them (`HashBytes = 2`). Two rounds are the least in which a write is read, two lanes the
  least in which one can leak into the next.
- `Benchmarks`: every trace of one round over five items, the trace of
  `tests/test_benchmarks.cpp`, and one with enough distinct items for shares of
  more than one; two iterations (`MaxIterations`), two retention runs (`MaxRuns`)
  and two calls of the other benchmarks (`MaxCalls`), in any order.
- `Hashing`: the real rate of 136 bytes and the real field layouts and profile
  tables. Requests are, for each derivation, a call and those that differ from it
  in one argument at one end of it, and plain bytes of lengths 0, 1, 8, one below,
  at and one above the rate, and twice the rate, as input and as output. Two calls
  (`MaxCalls`), which is what a collision takes. The domains have their lengths and
  differ where the strings of the code first do.
- `VectorTool`: the real cases; two documents (`MaxDocuments`) of either preset;
  hashes of three bits, all eight for the one TV-008 refers to, so that the carry
  stops at every byte and wraps; every way for a round to read and write two units.

`MaxOffset`, `MaxLength`, `MaxIndex`, `MaxScopes`, `MaxIterations`, `MaxRuns`,
`MaxCalls` and `MaxDocuments` are bounds of the model; the code has none. They limit which calls are tried and
never how far a call in progress runs.

## Fairness

`FairSpec` of `EpochCache` gives each thread weak fairness on the steps inside a
read (a step of a rebuild may be its exception), `FairSpec` of `Replay` on the steps inside a call, and `FairSpec` of
`Hashing` on those inside `shake256`. The code takes no
lock, waits for no other thread and reads no input, so a running thread takes its
next step; starting a call, throwing, and a caller's return are left to choice.
The other specifications have no fairness and only safety is claimed of them.
`Benchmarks.cfg` and `VectorTool.cfg` allow deadlock: the program ends; so does
`Hashing.cfg`: its callers stop calling.

## Proofs

For every number of threads, blocks, taps, units, lanes, rounds, bytes of a hash,
accesses of a trace, runs and documents, and every content, with only the named
`ASSUME`s on the constants:

- `EpochCache_proofs`: `TypeCorrect`, `OverrideOwnership`, `OverridePurity`,
  `OverrideLeavesTheMemo`. The strengthening says that the scopes that own the
  override of a thread are none or one, and that a call in progress is in range
  for its key; purity needs that a supplied cache has its profile's blocks. No
  assumption on threads or failures. And `MemoIsFaithful`, `ReadsAreFresh`,
  `CacheImplementsOracle`, under the hypothesis that at most one thread uses the
  memo and no rebuild fails. The two violations above are what happens without
  it. The strengthening follows the rebuild: up to `blk` the vector holds the
  blocks of the memo's key, which is the key of the rebuilding thread's call.
  Then, of `CachedItems`: `ItemsRunTheCache`, that `get_item` makes only reads
  `EpochCache` allows, so all of the above holds under it; `SuppliedItemsHold`,
  for any number of miners, failures and taps; and `ItemsImplementDataset`, with
  one miner and no failure. The strengthening (`ItemsOK`) says that what a thread
  reads is the next tap of its call, for which the cache has a block, and
  (`FromSupplied`) that the words of a call under an override are those of the
  supplied cache up to the last tap taken.
- `Dataset_proofs`: `TypeCorrect`, `ItemMemoIsFaithful`, `ItemsAreFaithful`,
  `ItemMemoOnlyGrows`, with at most one miner (`SoleMiner`) and any number of
  verifiers; and `OverrideLeavesTheItems`, for any number of miners. The
  strengthening says of every derivation in progress that its
  words are those of the cache in force and, if it will be stored, that the
  memo's key is still the call's. With `ItemsImplementDataset` this makes the
  items of `get_item` over the real cache faithful; that last link, one
  theorem's conclusion being the other's hypothesis, is drawn here and not by
  the prover, which does not cite theorems through an `INSTANCE`.
- `Storage_proofs`, of the layout: `LayoutTypeCorrect`, `SlicesAreExact`,
  `TapsAreInside`, `TapsAreDispersed`, for every width, cache size and tap count.
  The argument is that tap `j` lies in `[j * span, (j + 1) * span)` and the
  stripes end before the word count, so neither reduction changes anything. And
  of the scratch: `TypeCorrect`, `ScratchImplementsArray`. The mapping is `Unit`:
  what the map lacks is still derived, so filling the map changes no content.
- `Bytes_proofs`: `VerdictIsNumeric`, by induction on the bytes compared from the
  last: numbers are ordered by their quotients by the base, then by their last
  digit. `LastBytes` and `LaneAfter` are recursive functions; that such functions
  satisfy their equations, and induction over `Nat`, are derived in set form from
  the well-foundedness of `<`. `AddsOne` is the carry: a hash with its trailing
  largest bytes at zero and the next one larger by one is the number plus one.
- `Replay_proofs`: `TypeCorrect`, `OverrideIsScoped`, `CallsAreNeverRefused`,
  `LanesAreIndependent`, `ReplayImplementsPow`, for every
  mixing function with the ranges the types give it. A first strengthening
  (`IInv`): a trace that is not empty is of a round below the bound, and the
  results so far are those of the lanes before this one, in order. A second
  (`Follows`): the lane in progress is `LaneAfter` its rounds of the reference,
  its trace is one the reference makes in its next round, and the lanes that have
  ended are the reference's.
- `Hashing_proofs`: `PreimagesApart`, for any domains that differ and hold no
  zero byte, so that the first zero byte ends the domain. Within a derivation the
  fields have fixed widths and are cancelled from either end; two profiles differ
  in the name or, where five characters are the same, in a size. `TypeCorrect`,
  `ShakeIsSponge`, `DigestsApart`, for every rate
  that is a multiple of the word, every message and every output length. The
  strengthening says which padded blocks have been absorbed at each offset and
  which bytes are out; the reference pads bit by bit. `DigestsApart` joins three
  facts: answers are those of the reference, the padding is injective because the
  last padded block is not zero, and `PreimagesApart`. It rests on the ideal
  permutation: collision resistance itself is assumed.
- `Benchmarks_proofs`: `TypeCorrect`, `HottestAreKept`, `RunsAreClockedExactly`,
  `ItemsAreDerivedOnce`, `CallsAreClockedExactly`, `OneCacheIsHeld`, for any traces and any number of
  iterations, runs and calls. Ranks are different numbers below the number of
  items, so each place has one item and what is left out ranks after what is kept.
  The strengthening for the clocks: what has been seen is that of the whole
  passes plus that of the accesses of the pass in progress, and what is retained
  has been loaded. For the derivations (`WarmInv`): the memo has the trace if it
  was collected or has been run, and what was loaded and accessed otherwise, so
  those counted so far are no more than the items not retained that it has.
- `VectorTool_proofs`: `TypeCorrect`, `VectorsAreFresh`, `TransitionsReplay`,
  `CasesAreShown`, `VerdictsAreNumeric`, for any number of documents, any places
  a round uses, any number of bytes and any hashes. The strengthening (`ToolInv`): each memo holds what it is keyed by
  (`Faithful`), the document has as many vectors as the section and the case say
  (`Position`), and from TV-007-B on the reference hash is that of TV-007-A
  (`Referenced`), whatever it was when the document began. The targets of TV-008
  are then numbers: `less_target` is the hash plus one unless every byte is the
  largest (`LessTargetIs`, by `AddsOne`), and zero is less than every other hash
  (`ZeroIsLeast`).

Model-checked only: `ReadTerminates`, `CallsEnd` and `EveryCallReturns`, since the
prover has no liveness under fairness. Every other property of a passing run is
the conclusion of a theorem.

## Not modelled, and what comes next

Word arithmetic (mixing functions, derivations, the Keccak permutation) is
abstract: constant operators, or values that are distinct when their inputs are;
`keccak_f1600` is ideal in this sense.
The lifetime of the vector behind an override is C++'s and not modelled; in
`verify_pow` it is the caller's argument. Lazy scratches are never hashed by a
caller, so the integrity hash of one, which is that of no bytes, is not modelled.
`epoch_index_from_height` is one division and `to_hex` a conversion nothing
depends on. Report and document formats are not modelled.

Plan, in the order of importance:

1. done: epoch cache, dataset items, layout, scratch, replay and verifier.
2. done: SHAKE256 and the layout of every input it is given, with proofs.
3. done: the test-vector tool, and all the benchmarks.
4. done: `ImplementsPow`, the benchmarks' clocks and selection, and the test-vector
   tool, proved.
5. done: `VerdictsNumeric` for every number of bytes; `get_item` composed with
   the cache and its memo, proved to implement `Dataset`.
6. open: `EpochCache` with the scopes of several callers per thread and reads
   across the end of a cache that shrinks.
