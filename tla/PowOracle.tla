----------------------------- MODULE PowOracle -----------------------------
(***************************************************************************)
(* What a call of pow_hash or of verify_pow promises, in one step: the     *)
(* hash of the lanes, each a function of its own inputs and of one cache,  *)
(* and a verdict that is a comparison of numbers.  Nothing of an earlier   *)
(* call, of another lane or of a failure can be in it.                     *)
(***************************************************************************)
EXTENDS PowParams

VARIABLES phase,     \* "idle", "busy", "returned" or "threw"
          input, outcome

vars == <<phase, input, outcome>>

\* One round: two reads, three items each found through the ones before, one write.
RoundRef(cache, n, s) ==
  LET i0 == ReadIndex0(s.state, n)
      i1 == ReadIndex1(s.state, n, i0)
      With(items) == [read |-> <<i0, i1>>, unit |-> <<s.scratch[i0], s.scratch[i1]>>,
                      item |-> items]
      Load(items) == ItemOf(cache, ItemIndex(s.state, n, With(items)))
      d0 == Load(<<>>)
      d1 == Load(<<d0>>)
      d2 == Load(<<d0, d1>>)
      all == With(<<d0, d1, d2>>)
      next == NextState(s.state, n, all)
  IN  [state |-> next,
       scratch |-> [u \in Indices |-> IF u = WriteIndex(next, n, all)
                                      THEN WriteUnit(next, n, all) ELSE s.scratch[u]]]

\* A lane after each number of rounds.
LaneAfter(cache, k, w, l) ==
  LET after[n \in 0 .. Rounds] ==
        IF n = 0 THEN [state |-> LaneInit(k, w, l), scratch |-> ScratchInit(k, w, l)]
        ELSE RoundRef(cache, n - 1, after[n - 1])
  IN  after

LaneRef(cache, k, w, l) == LaneAfter(cache, k, w, l)[Rounds].state

PowRef(cache, k, w) == PowHash(k, [l \in 0 .. Lanes - 1 |-> LaneRef(cache, k, w, l)])

Expected(i) ==
  IF i.op = "pow_hash" THEN Hashed(PowRef(Gen[i.key], i.key, i.work))
  ELSE LET h == PowRef(i.cache, i.key, i.work) IN Verified(h, Value(h) < Value(i.target))

Init == phase = "idle" /\ input = NoInput /\ outcome = NoOutcome

Call == \E i \in Inputs :
  /\ phase = "idle"
  /\ input' = i
  /\ IF WrongSize(i) THEN phase' = "threw" /\ outcome' = Threw("size")
     ELSE phase' = "busy" /\ UNCHANGED outcome

Answer ==
  /\ phase = "busy"
  /\ phase' = "returned" /\ outcome' = Expected(input)
  /\ UNCHANGED input

OutOfMemory ==
  /\ phase = "busy"
  /\ phase' = "threw" /\ outcome' = Threw("memory")
  /\ UNCHANGED input

Return ==
  /\ phase \in {"returned", "threw"}
  /\ phase' = "idle" /\ input' = NoInput /\ outcome' = NoOutcome

Next == Call \/ Answer \/ OutOfMemory \/ Return

Spec == Init /\ [][Next]_vars
=============================================================================
