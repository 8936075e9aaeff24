---------------------------- MODULE CacheLayout ----------------------------
(***************************************************************************)
(* Where reads of the epoch cache land: the range checks of                *)
(* epoch_cache_slice and epoch_cache_word over unsigned integers that      *)
(* wrap, and the word index of each cache tap of get_item.                 *)
(***************************************************************************)
EXTENDS Integers

CONSTANTS Profiles,
          CacheBytes,     \* [Profiles -> ProfileParameters::cache_size_bytes]
          GetItemTaps,    \* ProfileParameters::get_item_taps
          Modulus,        \* 2^64: the width of std::uint64_t and std::size_t
          Uints           \* the arguments and selectors tried

WordBytes == 8            \* sizeof(std::uint64_t)

ASSUME LayoutAssumption ==
  /\ Modulus \in Nat /\ Modulus % WordBytes = 0
  /\ GetItemTaps \in Nat \ {0}
  /\ Uints \subseteq 0 .. Modulus - 1
  /\ CacheBytes \in [Profiles -> Nat]
  /\ \A p \in Profiles :
       /\ CacheBytes[p] % WordBytes = 0
       /\ CacheBytes[p] >= WordBytes * GetItemTaps
       /\ CacheBytes[p] + WordBytes <= Modulus

VARIABLES profile,   \* of the calls in progress
          read,      \* the last read: whether it is answered, and bytes lo .. hi - 1
          tap,       \* taps the item being derived has made
          last       \* the word the last of them read

layoutVars == <<profile, read, tap, last>>

Words(p) == CacheBytes[p] \div WordBytes     \* cache_word_count
Span(p) == Words(p) \div GetItemTaps         \* one tap's stripe

\* Mutant: the guard adds.
SliceRejectedWrapping(p, offset, length) == (offset + length) % Modulus > CacheBytes[p]

\* epoch_cache_slice, lines 220-223: the guard subtracts, so nothing wraps.
SliceRejected(p, offset, length) ==
  offset > CacheBytes[p] \/ length > CacheBytes[p] - offset

\* epoch_cache_word, lines 242-243: the product and the sum wrap.
\* WordOffset(i) is (i * WordBytes) % Modulus.
WordOffset(i) == (i % (Modulus \div WordBytes)) * WordBytes
WordRejected(p, i) == (WordOffset(i) + WordBytes) % Modulus > CacheBytes[p]

\* Mutants: the sum is not reduced; a stripe is one word too long.
TapIndexUnreduced(p, j, selector) == ((j * Span(p)) % Words(p)) + (selector % Words(p))

TapIndexOverlapping(p, j, selector) ==
  (((j * Span(p)) % Words(p)) + (selector % (Span(p) + 1))) % Words(p)

\* get_item, lines 146-147: tap number j, steered by the item's running state.
TapIndex(p, j, selector) ==
  (((j * Span(p)) % Words(p)) + (selector % Span(p))) % Words(p)

LayoutInit ==
  /\ profile \in Profiles
  /\ read = [op |-> "none", arg |-> 0, ok |-> TRUE, lo |-> 0, hi |-> 0]
  /\ tap = 0 /\ last = 0

\* The caller asks for a slice.
Slice == \E offset, length \in Uints :
  /\ tap = 0
  /\ read' = [op |-> "slice", arg |-> 0, ok |-> ~SliceRejected(profile, offset, length),
              lo |-> offset, hi |-> offset + length]
  /\ UNCHANGED <<profile, tap, last>>

ReadWord(op, i) ==
  read' = [op |-> op, arg |-> i, ok |-> ~WordRejected(profile, i),
           lo |-> WordOffset(i), hi |-> WordOffset(i) + WordBytes]

\* The caller asks for a word.
Word ==
  /\ tap = 0
  /\ \E i \in Uints : ReadWord("word", i)
  /\ UNCHANGED <<profile, tap, last>>

\* get_item derives an item, one tap after the other.
TapUpTo(n) ==
  /\ tap < n
  /\ \E selector \in Uints :
       /\ last' = TapIndex(profile, tap, selector)
       /\ ReadWord("tap", last')
  /\ tap' = tap + 1
  /\ UNCHANGED profile

\* Mutant: one tap more.
TapOneMore == TapUpTo(GetItemTaps + 1)

Tap == TapUpTo(GetItemTaps)

NextItem ==
  /\ tap = GetItemTaps
  /\ profile' \in Profiles
  /\ read' = [op |-> "none", arg |-> 0, ok |-> TRUE, lo |-> 0, hi |-> 0]
  /\ tap' = 0 /\ last' = 0

LayoutNext == Slice \/ Word \/ Tap \/ NextItem

LayoutSpec == LayoutInit /\ [][LayoutNext]_layoutVars

----------------------------------------------------------------------------
(* Properties *)

LayoutTypeOK ==
  /\ profile \in Profiles
  /\ read \in [op : {"none", "slice", "word", "tap"}, arg : Nat, ok : BOOLEAN, lo : Nat, hi : Nat]
  /\ tap \in 0 .. GetItemTaps
  /\ last \in 0 .. Words(profile) - 1

\* A slice is answered exactly when it lies inside the cache, whatever the two
\* arguments are (lines 220-223).
SliceExact ==
  read.op = "slice" => (read.ok <=> read.hi <= CacheBytes[profile])

\* No tap of get_item is ever refused, and its eight bytes are of the cache.
TapInside ==
  read.op = "tap" => read.ok /\ read.hi <= CacheBytes[profile]

\* Each tap of an item reads beyond the taps before it: no two read the same
\* word, however the selectors fall (spec.md 11.3: dispersed cache taps).
TapsDispersed ==
  [][tap > 0 /\ tap' = tap + 1 => last < last']_layoutVars

\* "cache word exceeds cache size": an index past the last word is refused, also
\* where the byte offset or the end of the word wraps.
WordRefusedPastEnd ==
  read.op = "word" /\ read.arg >= Words(profile) => ~read.ok
=============================================================================
