---------------------------- MODULE ScratchParams ----------------------------
(***************************************************************************)
(* The constants of a lane's scratch and the results of calls on it.       *)
(* Derive[l][u] is the unit derive_scratch_unit returns for lane l, the    *)
(* profile, epoch seed, header digest and nonce of a replay being fixed.   *)
(***************************************************************************)
EXTENDS Naturals

CONSTANTS Lanes,       \* lane ids
          UnitCount,   \* lane_scratch_unit_count
          Units,       \* contents of a unit
          Derive,      \* Derive[l][u]: derive_scratch_unit
          MaxIndex     \* bound: unit indices asked for

Indices == 0 .. UnitCount - 1

ASSUME ScratchAssumption ==
  /\ UnitCount \in Nat \ {0}
  /\ Derive \in [Lanes -> [Indices -> Units]]
  /\ MaxIndex \in Nat

\* The last call and what it ended with: construction, an exception, the unit
\* read, the unit written, or a hash, which tells contents apart as SHAKE256 is
\* taken to.
Built == [kind |-> "built"]
Threw == [kind |-> "threw"]
Got(u, v) == [kind |-> "read", index |-> u, unit |-> v]
Put(u, v) == [kind |-> "wrote", index |-> u, unit |-> v]
Hashed(c) == [kind |-> "hash", of |-> c]
=============================================================================
