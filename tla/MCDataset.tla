----------------------------- MODULE MCDataset -----------------------------
(***************************************************************************)
(* Small instances of Dataset: two taps over caches of two and four blocks *)
(* (a stripe of one and of two), the second tap's place depending on the   *)
(* first tap's word, and an override whose first block is corrupted.       *)
(***************************************************************************)
EXTENDS Dataset, TLC

CONSTANTS miner, verifier, cx18, cx64, s1, s2

MCThreads == {miner, verifier}
MCProfiles == {cx18, cx64}
MCBlockCount == cx18 :> 2 @@ cx64 :> 4
MCItemCount == cx18 :> 1 @@ cx64 :> 2
MCMaxScopes == [t \in MCThreads |-> 1]
MCZero == <<"zero">>
MCBad == <<"bad">>
MCDefaultKey == [profile |-> cx18, seed |-> s1]
MCBlocks(k) == 0 .. MCBlockCount[k.profile] - 1
MCKeys == {MCDefaultKey, [profile |-> cx18, seed |-> s2], [profile |-> cx64, seed |-> s1]}
MCGen == [k \in MCKeys |-> [b \in MCBlocks(k) |-> <<k.profile, k.seed, b>>]]
MCSupplied == [k \in MCKeys |-> {[MCGen[k] EXCEPT ![0] = MCBad]}]
MCValues == {MCZero, MCBad} \union UNION {{MCGen[k][b] : b \in MCBlocks(k)} : k \in MCKeys}

\* Tap j reads in its stripe of BlockCount \div GetItemTaps blocks.
MCTapBlock(k, i, w) ==
  LET span == MCBlockCount[k.profile] \div 2
      selector == i + (IF Len(w) > 0 /\ w[1] = MCBad THEN 1 ELSE 0) IN
  (Len(w) * span + (selector % span)) % MCBlockCount[k.profile]
=============================================================================
