--------------------------- MODULE MCCachedItems ---------------------------
(***************************************************************************)
(* Small instances of CachedItems: the caches of MCEpochCache, but with an *)
(* override whose first block is the other profile's, and items of two     *)
(* taps, the second's place depending on the first one's word.             *)
(***************************************************************************)
EXTENDS CachedItems, MCEpochCache

\* Only the verifier takes an override.
MCVerifierScope == miner :> 0 @@ verifier :> 1

MCItemCount == cx18 :> 1 @@ cx64 :> 2

MCOther(k) == CHOOSE j \in MCKeys : j.profile # k.profile
MCForeign == [k \in MCKeys |-> {[MCGen[k] EXCEPT ![0] = MCGen[MCOther(k)][0]]}]
MCContents == {MCZero} \union UNION {{MCGen[k][b] : b \in MCBlocks(k)} : k \in MCKeys}

MCTapBlock(k, i, w) ==
  LET selector == i + Len(w) + (IF Len(w) > 0 /\ w[1] # MCGen[k][0] THEN 1 ELSE 0) IN
  selector % MCBlockCount[k.profile]
=============================================================================
