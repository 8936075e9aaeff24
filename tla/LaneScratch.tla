---------------------------- MODULE LaneScratch ----------------------------
(***************************************************************************)
(* core/scratch.cpp: a lane's scratch in its two representations, the      *)
(* bytes that Initialize fills and the map that InitializeLazy leaves      *)
(* empty for reads and writes to fill.  Content is by unit.                *)
(***************************************************************************)
EXTENDS ScratchParams

VARIABLES lane_id, lazy,          \* lane_id_, lazy_
          bytes,                  \* bytes_, by unit
          materialized_units,     \* the unordered_map
          result                  \* the last call and its outcome

vars == <<lane_id, lazy, bytes, materialized_units, result>>

Empty == [u \in {} |-> 0]

Initialize ==
  /\ lane_id \in Lanes /\ lazy = FALSE
  /\ bytes = Derive[lane_id]
  /\ materialized_units = Empty
  /\ result = Built

InitializeLazy ==
  /\ lane_id \in Lanes /\ lazy = TRUE
  /\ bytes = Empty
  /\ materialized_units = Empty
  /\ result = Built

Init == Initialize \/ InitializeLazy

\* ReadUnit and WriteUnit throw std::out_of_range from unit_count() on, which a
\* lazy scratch takes from its profile.
InRange(u) == u < UnitCount

OutOfRange ==
  /\ \E u \in 0 .. MaxIndex : ~InRange(u)
  /\ result' = Threw
  /\ UNCHANGED <<lane_id, lazy, bytes, materialized_units>>

Unit(u) ==
  IF ~lazy THEN bytes[u]
  ELSE IF u \in DOMAIN materialized_units THEN materialized_units[u]
  ELSE Derive[lane_id][u]

Materialized(u, v) ==
  [x \in DOMAIN materialized_units \union {u} |-> IF x = u THEN v ELSE materialized_units[x]]

ReadUnit == \E u \in 0 .. MaxIndex :
  /\ InRange(u)
  /\ result' = Got(u, Unit(u))
  /\ materialized_units' = IF lazy THEN Materialized(u, Unit(u)) ELSE materialized_units
  /\ UNCHANGED <<lane_id, lazy, bytes>>

\* Mutant: a filled scratch is written like a lazy one.
StoreInMap(u, v) == materialized_units' = Materialized(u, v) /\ UNCHANGED bytes

\* Mutant: emplace in place of the assignment, so a unit that was read stays.
StoreKeeping(u, v) ==
  IF lazy
  THEN /\ materialized_units' =
            IF u \in DOMAIN materialized_units THEN materialized_units ELSE Materialized(u, v)
       /\ UNCHANGED bytes
  ELSE /\ bytes' = [bytes EXCEPT ![u] = v]
       /\ UNCHANGED materialized_units

Store(u, v) ==
  IF lazy
  THEN materialized_units' = Materialized(u, v) /\ UNCHANGED bytes
  ELSE bytes' = [bytes EXCEPT ![u] = v] /\ UNCHANGED materialized_units

WriteUnit == \E u \in 0 .. MaxIndex, v \in Units :
  /\ InRange(u)
  /\ Store(u, v)
  /\ result' = Put(u, v)
  /\ UNCHANGED <<lane_id, lazy>>

\* A new map node, or the buffer of the hash, cannot be allocated.
OutOfMemory ==
  /\ ~lazy \/ \E u \in 0 .. MaxIndex : InRange(u) /\ u \notin DOMAIN materialized_units
  /\ result' = Threw
  /\ UNCHANGED <<lane_id, lazy, bytes, materialized_units>>

\* scratch_integrity_hash hashes bytes(), which a lazy scratch does not fill; the
\* tests and tools that call it build the scratch with Initialize.
IntegrityHash ==
  /\ ~lazy
  /\ result' = Hashed(bytes)
  /\ UNCHANGED <<lane_id, lazy, bytes, materialized_units>>

Next == ReadUnit \/ WriteUnit \/ OutOfRange \/ OutOfMemory \/ IntegrityHash

Spec == Init /\ [][Next]_vars

----------------------------------------------------------------------------
(* Properties *)

TypeOK ==
  /\ lane_id \in Lanes /\ lazy \in BOOLEAN
  /\ bytes \in IF lazy THEN {Empty} ELSE [Indices -> Units]
  /\ \E S \in SUBSET Indices : materialized_units \in [S -> Units]
  /\ ~lazy => materialized_units = Empty
  /\ result.kind \in {"built", "threw", "read", "wrote", "hash"}

\* The content a scratch stands for: what the map lacks is still derived.
Array == INSTANCE ScratchArray WITH
  content <- [u \in Indices |-> Unit(u)]

\* Both representations are the same array of units, the lazy one whatever was
\* read or written before: replay_lane's scratch is the one spec.md 12 describes.
ImplementsArray == Array!Spec
=============================================================================
