----------------------------- MODULE ItemParams -----------------------------
(***************************************************************************)
(* The constants of the dataset items.  The place a tap reads, a function  *)
(* of the key, the index and the words so far, is TapBlock; CacheLayout    *)
(* shows that the code's places are inside the cache.                      *)
(***************************************************************************)
EXTENDS EpochCacheParams

CONSTANTS ItemCount,      \* [Profiles -> dataset_item_count]
          GetItemTaps,    \* ProfileParameters::get_item_taps
          TapBlock(_, _, _),  \* TapBlock(k, i, w): where the tap after the words w reads
          MaxIndex        \* bound: item indices asked for

Indices == 0 .. MaxIndex
TapWords == UNION {[1 .. n -> Values] : n \in 0 .. GetItemTaps - 1}

ASSUME ItemsAssumption ==
  /\ ItemCount \in [Profiles -> Nat \ {0}]
  /\ GetItemTaps \in Nat \ {0}
  /\ MaxIndex \in Nat
  /\ MaxLength >= 1

ASSUME TapsAssumption ==
  \A k \in Keys, i \in Indices, w \in TapWords :
    TapBlock(k, i, w) \in Blocks(k) /\ TapBlock(k, i, w) <= MaxOffset
=============================================================================
