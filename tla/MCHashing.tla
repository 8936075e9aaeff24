----------------------------- MODULE MCHashing -----------------------------
(***************************************************************************)
(* Hashing with the real rate.  The domains have their real lengths and    *)
(* first differ where the strings of the code do.  Requests: for each kind *)
(* one call and those that differ from it in one argument, and plain bytes *)
(* of lengths around the rate.                                             *)
(***************************************************************************)
EXTENDS Hashing, TLC

\* A domain of n characters that differs from others at the places of tag.
MCText(n, tag) == [i \in 1 .. n |-> IF i \in DOMAIN tag THEN {0} \union tag[i] ELSE {0}]
MCDomain ==
  [header |-> MCText(26, 11 :> {1}), seed |-> MCText(23, 11 :> {2} @@ 17 :> {1}),
   cache |-> MCText(24, 11 :> {2} @@ 17 :> {2}), item |-> MCText(21, 11 :> {3}),
   scratch |-> MCText(20, 11 :> {4}), lane |-> MCText(23, 11 :> {5})]

MCHash(n) == [i \in 1 .. 32 |-> IF i = n THEN {7} ELSE {}]

MCHeader ==
  [version |-> {0}, height |-> {8}, timestamp |-> {}, bits |-> {28}, previous_block_hash |-> MCHash(1),
   transactions_root |-> MCHash(2), state_root |-> MCHash(32), nonce |-> {}, pow_result |-> MCHash(1)]
MCHeaders ==
  {MCHeader} \union {[MCHeader EXCEPT ![f] = {31}] : f \in {"version", "bits"}}
    \union {[MCHeader EXCEPT ![f] = {63}] : f \in {"height", "timestamp", "nonce"}}
    \union {[MCHeader EXCEPT ![f] = MCHash(3)] :
              f \in {"previous_block_hash", "transactions_root", "state_root", "pow_result"}}

MCBase ==
  [header |-> [kind |-> "header", header |-> MCHeader],
   seed |-> [kind |-> "seed", chain_id |-> [i \in 1 .. 16 |-> {0}], epoch_index |-> {0}, anchor |-> MCHash(1)],
   cache |-> [kind |-> "cache", profile |-> "cx18", seed |-> MCHash(1)],
   item |-> [kind |-> "item", profile |-> "cx18", seed |-> MCHash(1), index |-> {0}],
   scratch |-> [kind |-> "scratch", profile |-> "cx18", seed |-> MCHash(1), digest |-> MCHash(2),
                nonce |-> {}, lane |-> {0}],
   lane |-> [kind |-> "lane", profile |-> "cx18", seed |-> MCHash(1), digest |-> MCHash(2),
             nonce |-> {}, lane |-> {0}]]

MCVary(k, f, values) == {[MCBase[k] EXCEPT ![f] = v] : v \in values}

MCRaw ==
  {[kind |-> "raw", bytes |-> [i \in 1 .. n |-> IF i = n THEN last ELSE {}], size |-> 32] :
     n \in {1, 8, 135, 136, 137, 272}, last \in {{}, Suffix}}
  \union {[kind |-> "raw", bytes |-> <<>>, size |-> n] : n \in {0, 1, 8, 9, 135, 136, 137, 272}}

MCRequests ==
  {[kind |-> "header", header |-> h] : h \in MCHeaders}
  \union MCVary("seed", "chain_id", {[i \in 1 .. 16 |-> IF i = 16 THEN {} ELSE {0}]})
  \union MCVary("seed", "epoch_index", {{0}, {63}}) \union MCVary("seed", "anchor", {MCHash(32)})
  \union UNION {MCVary(k, "profile", Profiles) : k \in {"cache", "item", "scratch", "lane"}}
  \union UNION {MCVary(k, "seed", {MCHash(32)}) : k \in {"cache", "item", "scratch", "lane"}}
  \union MCVary("item", "index", {{63}})
  \union UNION {MCVary(k, "nonce", {{0}, {63}}) : k \in {"scratch", "lane"}}
  \union UNION {MCVary(k, "lane", {{}}) : k \in {"scratch", "lane"}}
  \union UNION {MCVary(k, "digest", {MCHash(1)}) : k \in {"scratch", "lane"}}
  \union MCRaw
=============================================================================
