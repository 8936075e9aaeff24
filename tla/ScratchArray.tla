---------------------------- MODULE ScratchArray ----------------------------
(***************************************************************************)
(* What core/scratch.h promises of a LaneScratch: an array of units that   *)
(* starts as the lane's derived content, whose reads return the last write *)
(* and whose accesses out of range throw and change nothing.               *)
(***************************************************************************)
EXTENDS ScratchParams

VARIABLES lane_id,   \* of the scratch
          content,   \* its units
          result     \* the last call and its outcome

vars == <<lane_id, content, result>>

Init ==
  /\ lane_id \in Lanes
  /\ content = Derive[lane_id]
  /\ result = Built

Read(u) ==
  /\ result' = IF u \in Indices THEN Got(u, content[u]) ELSE Threw
  /\ UNCHANGED <<lane_id, content>>

Write(u, v) ==
  /\ IF u \in Indices
     THEN content' = [content EXCEPT ![u] = v] /\ result' = Put(u, v)
     ELSE UNCHANGED content /\ result' = Threw
  /\ UNCHANGED lane_id

\* A call that runs out of memory throws and changes nothing.
Fail == result' = Threw /\ UNCHANGED <<lane_id, content>>

Hash == result' = Hashed(content) /\ UNCHANGED <<lane_id, content>>

Next ==
  \/ \E u \in 0 .. MaxIndex : Read(u) \/ \E v \in Units : Write(u, v)
  \/ Fail \/ Hash

Spec == Init /\ [][Next]_vars
=============================================================================
