------------------------------ MODULE MCReplay ------------------------------
(* Two keys, two works, two lanes of two rounds over scratches of two units, *)
(* and arithmetic modulo five, or nine, in place of the mixing functions.    *)
EXTENDS Replay, TLC

MCGen == "k1" :> [b \in 0 .. 1 |-> b + 1] @@ "k2" :> [b \in 0 .. 2 |-> 4 - b]

MCOffered == [k \in {"k1", "k2"} |->
  {MCGen[k], [MCGen[k] EXCEPT ![1] = @ + 2], [b \in 0 .. 3 |-> 0]}]

Salt(k) == IF k = "k1" THEN 1 ELSE 3
SumOf(t) == t.read[2] + 2 * t.unit[1] + 3 * t.unit[2]
            + (IF Len(t.item) > 0 THEN t.item[1] ELSE 0)
            + (IF Len(t.item) > 1 THEN 2 * t.item[2] ELSE 0)
            + (IF Len(t.item) > 2 THEN 4 * t.item[3] ELSE 0)

MCLaneInit(k, w, l) == (Salt(k) + 2 * w + 3 * l) % 5
MCScratchInit(k, w, l) == [u \in 0 .. 1 |-> (Salt(k) * w + l + 2 * u) % 5]
MCItemOf(c, i) == (c[i % 2] + 3 * i) % 5
MCReadIndex0(s, n) == (s + n) % 2
MCReadIndex1(s, n, i) == (s + n + i + s \div 2) % 2
MCItemIndex(s, n, t) == (s + n + SumOf(t)) % 4
MCNextState(s, n, t) == (2 * s + n + SumOf(t)) % 5
MCWriteIndex(s, n, t) == (s + t.read[2] + t.item[3]) % 2
MCWriteUnit(s, n, t) == (s + 1 + n + SumOf(t)) % 5
MCPowHash(k, f) == LET v == (Salt(k) + f[0] + 2 * f[1]) % 9 IN <<v % 3, v \div 3>>
MCTargets == {<<2, 0>>, <<0, 1>>, <<1, 2>>}
=============================================================================
