--------------------------- MODULE MCCacheLayout ---------------------------
(***************************************************************************)
(* The two cache sizes of the four profiles and their tap count, with      *)
(* words cut to 30 bits so that TLC's integers hold every sum and product, *)
(* and arguments at the boundaries of the checks.                          *)
(***************************************************************************)
EXTENDS CacheLayout, TLC

MiB == 1048576
MCCacheBytes == "CX-18" :> 256 * MiB @@ "CX-64" :> 512 * MiB
MCProfiles == DOMAIN MCCacheBytes
MCModulus == 1024 * MiB
MCUints ==
  {0, 1, MCModulus \div WordBytes - 1, MCModulus \div WordBytes, MCModulus - 1}
    \union UNION {{Span(p) - 1, Span(p), Words(p) - 1, Words(p),
                   CacheBytes[p] - 1, CacheBytes[p]} : p \in MCProfiles}
=============================================================================
