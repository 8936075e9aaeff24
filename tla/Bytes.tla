-------------------------------- MODULE Bytes --------------------------------
(***************************************************************************)
(* Hashes and targets: bytes, the least significant first, the numbers     *)
(* they make up, and the comparison of core/verifier.cpp.                  *)
(***************************************************************************)
EXTENDS Integers

CONSTANTS Base, HashBytes    \* values of a byte, bytes of a Hash256

ASSUME BytesAssumption == Base \in Nat \ {0, 1} /\ HashBytes \in Nat \ {0}

Hash256 == [1 .. HashBytes -> 0 .. Base - 1]

\* The numbers made of the last n bytes of h, the most significant ones.
LastBytes(h) ==
  LET last[n \in 0 .. HashBytes] == IF n = 0 THEN 0 ELSE h[HashBytes - n + 1] + Base * last[n - 1]
  IN  last

\* The number whose bytes are h.
Value(h) == LastBytes(h)[HashBytes]

\* Mutant: bytes are compared from the first.
MeetsTargetFromFirst(h, t) == \E i \in DOMAIN h :
  h[i] < t[i] /\ \A j \in DOMAIN h : j < i => h[j] = t[j]

\* pow_hash_meets_target: bytes are compared from the last, the most significant.
MeetsTarget(h, t) == \E i \in DOMAIN h :
  h[i] < t[i] /\ \A j \in DOMAIN h : j > i => h[j] = t[j]
=============================================================================
