---------------------------- MODULE MCEpochCache ----------------------------
(***************************************************************************)
(* Small instances of EpochCache: two profiles whose caches differ in      *)
(* size, and for each key a generated cache and one with its first block   *)
(* corrupted, as tests/test_verifier.cpp supplies.                         *)
(***************************************************************************)
EXTENDS EpochCache, TLC

CONSTANTS miner, verifier, cx18, cx64, s1, s2

MCThreads == {miner, verifier}
MCMaxScopes == miner :> 1 @@ verifier :> 2
MCProfiles == {cx18, cx64}
MCBlockCount == cx18 :> 1 @@ cx64 :> 2
MCZero == <<"zero">>
MCBad == <<"bad">>
MCDefaultKey == [profile |-> cx18, seed |-> s1]
MCBlocks(k) == 0 .. MCBlockCount[k.profile] - 1
MCKeys == {[profile |-> p, seed |-> s] : p \in MCProfiles, s \in Seeds}
            \ {[profile |-> cx64, seed |-> s2]}
MCGen == [k \in MCKeys |-> [b \in MCBlocks(k) |-> <<k.profile, k.seed, b>>]]
MCSupplied == [k \in MCKeys |-> {[MCGen[k] EXCEPT ![0] = MCBad]}]
MCValues == {MCZero, MCBad} \union UNION {{MCGen[k][b] : b \in MCBlocks(k)} : k \in MCKeys}
=============================================================================
