--------------------------- MODULE MCLaneScratch ---------------------------
(***************************************************************************)
(* Small instance of LaneScratch: two lanes with three units each, every   *)
(* derived unit distinct, and one more value to write.                     *)
(***************************************************************************)
EXTENDS LaneScratch, TLC

CONSTANTS l0, l1

MCLanes == {l0, l1}
MCDerive == [l \in MCLanes |-> [u \in Indices |-> <<l, u>>]]
MCUnits == {<<"written">>} \union {<<l, u>> : l \in MCLanes, u \in Indices}
=============================================================================
