---------------------------- MODULE Replay_proofs ----------------------------
(***************************************************************************)
(* For every number of lanes and rounds and every mixing function: the     *)
(* types of a replay, the scope of its override, the order of its results, *)
(* the independence of its lanes, and that a replay implements PowOracle.  *)
(***************************************************************************)
EXTENDS Replay, Bytes_proofs, SequenceTheorems, TLAPS

-----------------------------------------------------------------------------
(* What the reference functions compute. *)

LaneStates == [state : States, scratch : [Indices -> Units]]
Caches(k) == Offered[k] \union {Gen[k]}

LEMMA SizesAreNat == Lanes \in Nat /\ Rounds \in Nat /\ 0 < Lanes
  BY ReplayAssumption DEF ReplayAssumption

\* A round of the reference takes a lane's state to a lane's state.
LEMMA RoundRefIs ==
  ASSUME NEW k \in Keys, NEW c \in Caches(k), NEW n \in 0 .. Rounds - 1, NEW s \in LaneStates
  PROVE  Pow!RoundRef(c, n, s) \in LaneStates
<1> DEFINE i0 == ReadIndex0(s.state, n)
           i1 == ReadIndex1(s.state, n, i0)
           With(items) == [read |-> <<i0, i1>>, unit |-> <<s.scratch[i0], s.scratch[i1]>>,
                           item |-> items]
           Load(items) == ItemOf(c, ItemIndex(s.state, n, With(items)))
           d0 == Load(<<>>)
           d1 == Load(<<d0>>)
           d2 == Load(<<d0, d1>>)
           all == With(<<d0, d1, d2>>)
           next == NextState(s.state, n, all)
<1>1. s.state \in States /\ s.scratch \in [Indices -> Units]
  BY DEF LaneStates
<1>2. i0 \in Indices /\ i1 \in Indices
  BY <1>1, MixAssumption DEF MixAssumption
<1>3. <<i0, i1>> \in Indices \X Indices /\ <<s.scratch[i0], s.scratch[i1]>> \in Units \X Units
  BY <1>1, <1>2
<1> HIDE DEF i0, i1
<1>4. ASSUME NEW m \in 0 .. ItemsPerRound, NEW items \in [1 .. m -> Items]
      PROVE  With(items) \in TracesOf(m)
  BY <1>3 DEF TracesOf
<1>5. ASSUME NEW m \in 0 .. ItemsPerRound - 1, NEW items \in [1 .. m -> Items]
      PROVE  Load(items) \in Items
  <2>1. m \in 0 .. ItemsPerRound
    BY DEF ItemsPerRound
  <2>2. With(items) \in TracesOf(m)
    BY <1>4, <2>1
  <2> HIDE DEF With
  <2> QED BY <1>1, <2>2, MixAssumption DEF MixAssumption, Caches
<1> HIDE DEF With, Load
<1>6. d0 \in Items
  <2>1. <<>> \in [1 .. 0 -> Items] /\ 0 \in 0 .. ItemsPerRound - 1
    BY DEF ItemsPerRound
  <2> QED BY <1>5, <2>1
<1> HIDE DEF d0
<1>7. d1 \in Items
  <2>1. <<d0>> \in [1 .. 1 -> Items] /\ 1 \in 0 .. ItemsPerRound - 1
    BY <1>6 DEF ItemsPerRound
  <2> QED BY <1>5, <2>1
<1> HIDE DEF d1
<1>8. d2 \in Items
  <2>1. <<d0, d1>> \in [1 .. 2 -> Items] /\ 2 \in 0 .. ItemsPerRound - 1
    BY <1>6, <1>7 DEF ItemsPerRound
  <2> QED BY <1>5, <2>1
<1> HIDE DEF d2
<1>9. all \in TracesOf(ItemsPerRound)
  <2>1. <<d0, d1, d2>> \in [1 .. 3 -> Items] /\ 3 \in 0 .. ItemsPerRound /\ ItemsPerRound = 3
    BY <1>6, <1>7, <1>8 DEF ItemsPerRound
  <2> QED BY <1>4, <2>1
<1> HIDE DEF all
<1>10. next \in States /\ WriteIndex(next, n, all) \in Indices /\ WriteUnit(next, n, all) \in Units
  BY <1>1, <1>9, MixAssumption DEF MixAssumption
<1>11. Pow!RoundRef(c, n, s) =
         [state |-> next,
          scratch |-> [u \in Indices |-> IF u = WriteIndex(next, n, all)
                                         THEN WriteUnit(next, n, all) ELSE s.scratch[u]]]
  BY DEF Pow!RoundRef, next, all, d0, d1, d2, Load, With, i0, i1
<1> HIDE DEF next
<1> QED BY <1>1, <1>10, <1>11 DEF LaneStates

\* LaneAfter starts from the lane's init and goes on by rounds.
LEMMA LaneAfterIs ==
  ASSUME NEW k \in Keys, NEW w \in Works, NEW l \in 0 .. Lanes - 1, NEW c \in Caches(k)
  PROVE  /\ Pow!LaneAfter(c, k, w, l)[0] =
              [state |-> LaneInit(k, w, l), scratch |-> ScratchInit(k, w, l)]
         /\ \A n \in 0 .. Rounds - 1 :
              Pow!LaneAfter(c, k, w, l)[n + 1] = Pow!RoundRef(c, n, Pow!LaneAfter(c, k, w, l)[n])
<1> DEFINE a == [state |-> LaneInit(k, w, l), scratch |-> ScratchInit(k, w, l)]
           P(g) == g = [n \in 0 .. Rounds |-> IF n = 0 THEN a ELSE Pow!RoundRef(c, n - 1, g[n - 1])]
           G == [n \in 0 .. Rounds - 1 |-> [s \in LaneStates |-> Pow!RoundRef(c, n, s)]]
<1>1. Pow!LaneAfter(c, k, w, l) = CHOOSE g : P(g)
  BY DEF Pow!LaneAfter
<1>2. a \in LaneStates
  BY MixAssumption DEF MixAssumption, LaneStates
<1>3. G \in [0 .. Rounds - 1 -> [LaneStates -> LaneStates]]
  BY RoundRefIs
<1>4. \E f : P(f)
  <2> HIDE DEF a
  <2>1. ASSUME NEW n \in 0 .. Rounds - 1, NEW s \in LaneStates
        PROVE  G[n][s] = Pow!RoundRef(c, n, s)
    OBVIOUS
  <2> HIDE DEF G
  <2>2. PICK f \in [0 .. Rounds -> LaneStates] : Recursive(f, a, G, Rounds)
    BY <1>2, <1>3, SizesAreNat, RecursionExists
  <2>3. ASSUME NEW n \in 0 .. Rounds
        PROVE  f[n] = IF n = 0 THEN a ELSE Pow!RoundRef(c, n - 1, f[n - 1])
    <3>1. f[n] = IF n = 0 THEN a ELSE G[n - 1][f[n - 1]]
      BY <2>2 DEF Recursive
    <3>2. CASE n # 0
      <4>1. n - 1 \in 0 .. Rounds - 1 /\ f[n - 1] \in LaneStates
        BY <2>2, <3>2, SizesAreNat
      <4> QED BY <2>1, <3>1, <3>2, <4>1
    <3> QED BY <3>1, <3>2
  <2> QED BY <2>2, <2>3
<1> HIDE DEF P
<1>5. P(Pow!LaneAfter(c, k, w, l))
  BY <1>1, <1>4, Zenon
<1> DEFINE f == Pow!LaneAfter(c, k, w, l)
<1>6. f = [n \in 0 .. Rounds |-> IF n = 0 THEN a ELSE Pow!RoundRef(c, n - 1, f[n - 1])]
  BY <1>5 DEF P
<1> HIDE DEF f, a
<1>7. f[0] = a
  BY <1>6, SizesAreNat
<1>8. ASSUME NEW n \in 0 .. Rounds - 1 PROVE f[n + 1] = Pow!RoundRef(c, n, f[n])
  <2>1. n + 1 \in 0 .. Rounds /\ n + 1 # 0 /\ (n + 1) - 1 = n
    BY SizesAreNat
  <2> QED BY <1>6, <2>1
<1> QED BY <1>7, <1>8 DEF f, a

-----------------------------------------------------------------------------
(* Types, the override's scope, and the order of the results. *)

\* The strengthening: a round in progress is one of the lane's, and the results
\* are those of the lanes before this one, in order.
InRounds == trace # NoTrace => round < Rounds
InOrder ==
  /\ Len(results) = lane
  /\ \A i \in 1 .. Len(results) : results[i].lane_id = i - 1

IInv == TypeOK /\ OverrideScoped /\ InRounds /\ InOrder

LEMMA InputFields ==
  /\ \A i \in Inputs : i.op \in {"pow_hash", "verify"} /\ i.key \in Keys /\ i.work \in Works
  /\ \A i \in Inputs : i.op = "verify" => i.cache \in Offered[i.key]
  /\ NoInput \notin Inputs
<1>1. \A i \in Inputs : i.op \in {"pow_hash", "verify"} /\ i.key \in Keys /\ i.work \in Works
  BY DEF Inputs
<1>2. \A i \in Inputs : i.op = "verify" => i.cache \in Offered[i.key]
  BY DEF Inputs
<1>3. NoInput \notin Inputs
  BY <1>1 DEF NoInput
<1> QED BY <1>1, <1>2, <1>3

\* While a call runs, the cache behind its items is the call's.
LEMMA SourceOfCall ==
  ASSUME TypeOK, OverrideScoped, pc \in {"lane", "round"}
  PROVE  Source(input.key) \in Offered[input.key] \union {Gen[input.key]}
<1>1. CASE \E o \in installed : o.key = input.key
  <2> DEFINE o == CHOOSE o \in installed : o.key = input.key
  <2>1. o \in installed /\ o.key = input.key
    BY <1>1
  <2> HIDE DEF o
  <2>2. o.cache \in Offered[o.key]
    BY <2>1 DEF TypeOK
  <2>3. Source(input.key) = o.cache
    BY <1>1 DEF Source, o
  <2> QED BY <2>1, <2>2, <2>3
<1>2. CASE ~\E o \in installed : o.key = input.key
  BY <1>2 DEF Source
<1> QED BY <1>1, <1>2

\* A trace that is not empty has its two reads and some of its items.
LEMMA TraceIs ==
  ASSUME TypeOK, trace # NoTrace
  PROVE  \E n \in 0 .. ItemsPerRound : trace \in TracesOf(n) /\ Len(trace.item) = n
<1>1. PICK n \in 0 .. ItemsPerRound : trace \in TracesOf(n)
  BY DEF TypeOK, Traces
<1>2. trace.item \in [1 .. n -> Items] /\ n \in Nat
  BY <1>1 DEF TracesOf, ItemsPerRound
<1>3. Len(trace.item) = n
  BY <1>2
<1> QED BY <1>1, <1>3

LEMMA InitIInv == Init => IInv
<1> SUFFICES ASSUME Init PROVE IInv
  OBVIOUS
<1>1. OverrideScoped
  BY DEF Init, OverrideScoped, NoInput
<1>2. results \in Seq([lane_id : 0 .. Lanes - 1, final_state : States]) /\ Len(results) = 0
  BY DEF Init
<1>3. TypeOK
  BY <1>2, SizesAreNat DEF Init, TypeOK
<1>4. InRounds /\ InOrder
  BY <1>2 DEF Init, InRounds, InOrder
<1> QED BY <1>1, <1>3, <1>4 DEF IInv

\* A call begins.
LEMMA CallKeeps == IInv /\ (PowHashCall \/ Verify) => IInv'
<1> SUFFICES ASSUME IInv, PowHashCall \/ Verify PROVE IInv'
  OBVIOUS
<1>1. CASE PowHashCall
  <2>1. PICK k \in Keys, w \in Works :
          /\ pc = "idle" /\ pc' = "lane"
          /\ input' = [op |-> "pow_hash", key |-> k, work |-> w]
          /\ UNCHANGED <<installed, lanes, outcome>>
    BY <1>1 DEF PowHashCall
  <2>2. input' \in Inputs /\ input'.op = "pow_hash"
    BY <2>1 DEF Inputs
  <2>3. installed = {}
    BY <2>1 DEF IInv, TypeOK, OverrideScoped, NoInput
  <2>4. TypeOK'
    BY <2>1, <2>2, InputFields DEF IInv, TypeOK, lanes
  <2>5. OverrideScoped'
    BY <2>1, <2>2, <2>3 DEF OverrideScoped
  <2> QED BY <2>1, <2>4, <2>5 DEF IInv, InRounds, InOrder, lanes
<1>2. CASE Verify
  <2>1. PICK i \in Inputs :
          /\ pc = "idle" /\ i.op = "verify"
          /\ \/ WrongSize(i) /\ Refuse(i, "size")
             \/ ~WrongSize(i) /\ IF installed # {} THEN Refuse(i, "nested") ELSE Enter(i)
    BY <1>2 DEF Verify
  <2>2. installed = {}
    BY <2>1 DEF IInv, TypeOK, OverrideScoped, NoInput
  <2>3. CASE WrongSize(i) /\ Refuse(i, "size")
    <3>1. TypeOK'
      BY <2>3, InputFields DEF IInv, TypeOK, Refuse, lanes
    <3>2. OverrideScoped'
      BY <2>2, <2>3 DEF OverrideScoped, Refuse
    <3> QED BY <2>3, <3>1, <3>2 DEF IInv, InRounds, InOrder, Refuse, lanes
  <2>4. CASE ~WrongSize(i) /\ Enter(i)
    <3>1. installed' \in SUBSET UNION {[key : {k}, cache : Offered[k]] : k \in Keys}
      BY <2>1, <2>4, InputFields DEF Enter
    <3>2. TypeOK'
      BY <2>4, <3>1, InputFields DEF IInv, TypeOK, Enter, lanes
    <3>3. OverrideScoped'
      BY <2>1, <2>4 DEF OverrideScoped, Enter
    <3> QED BY <2>4, <3>2, <3>3 DEF IInv, InRounds, InOrder, Enter, lanes
  <2> QED BY <2>1, <2>2, <2>3, <2>4
<1> QED BY <1>1, <1>2

\* A call goes on: its override stays.
LEMMA StepKeeps ==
  IInv /\ (StartLane \/ ReadScratch \/ LoadItem \/ FinishRound \/ EndLane) => IInv'
<1> SUFFICES ASSUME IInv, StartLane \/ ReadScratch \/ LoadItem \/ FinishRound \/ EndLane
             PROVE  IInv'
  OBVIOUS
<1>1. OverrideScoped'
  BY DEF IInv, OverrideScoped, StartLane, StartWith, ReadScratch, LoadItem, LoadUpTo,
         FinishRound, FinishRoundAt, EndLane
<1>2. TypeOK /\ OverrideScoped /\ InRounds /\ InOrder
  BY DEF IInv
<1>3. CASE StartLane
  <2>1. input \in Inputs /\ lane \in 0 .. Lanes - 1
    BY <1>2, <1>3, SizesAreNat DEF StartLane, StartWith, TypeOK
  <2>2. state' \in States /\ scratch' \in [Indices -> Units]
    BY <1>3, <2>1, InputFields, MixAssumption DEF StartLane, StartWith, MixAssumption
  <2>3. TypeOK'
    BY <1>2, <1>3, <2>1, <2>2, SizesAreNat DEF StartLane, StartWith, TypeOK
  <2> QED BY <1>1, <1>2, <1>3, <2>3 DEF IInv, InRounds, InOrder, StartLane, StartWith
<1>4. CASE ReadScratch
  <2>1. state \in States /\ round \in 0 .. Rounds - 1 /\ scratch \in [Indices -> Units]
    BY <1>2, <1>4, SizesAreNat DEF ReadScratch, TypeOK
  <2> DEFINE i0 == ReadIndex0(state, round)
             i1 == ReadIndex1(state, round, i0)
  <2>2. i0 \in Indices /\ i1 \in Indices
    BY <2>1, MixAssumption DEF MixAssumption
  <2>3. trace' = [read |-> <<i0, i1>>, unit |-> <<scratch[i0], scratch[i1]>>, item |-> <<>>]
    BY <1>4 DEF ReadScratch
  <2> HIDE DEF i0, i1
  <2>4. trace' \in TracesOf(0)
    BY <2>1, <2>2, <2>3 DEF TracesOf
  <2>5. trace' \in Traces
    BY <2>4 DEF Traces, ItemsPerRound
  <2>6. TypeOK'
    BY <1>2, <1>4, <2>5 DEF ReadScratch, TypeOK
  <2> QED BY <1>1, <1>2, <1>4, <2>6 DEF IInv, InRounds, InOrder, ReadScratch
<1>5. CASE LoadItem
  <2>1. pc = "round" /\ trace # NoTrace /\ Len(trace.item) < ItemsPerRound
    BY <1>5 DEF LoadItem, LoadUpTo
  <2>2. PICK n \in 0 .. ItemsPerRound : trace \in TracesOf(n) /\ Len(trace.item) = n
    BY <1>2, <2>1, TraceIs
  <2>3. n \in 0 .. ItemsPerRound - 1
    BY <2>1, <2>2 DEF ItemsPerRound
  <2>4. state \in States /\ round \in 0 .. Rounds - 1 /\ input.key \in Keys
    BY <1>2, <2>1, SizesAreNat, InputFields DEF TypeOK, InRounds
  <2> DEFINE d == ItemOf(Source(input.key), ItemIndex(state, round, trace))
  <2>5. d \in Items
    <3>1. Source(input.key) \in Offered[input.key] \union {Gen[input.key]}
      BY <1>2, <2>1, SourceOfCall
    <3> QED BY <2>2, <2>3, <2>4, <3>1, MixAssumption DEF MixAssumption
  <2>6. trace' = [trace EXCEPT !.item = Append(@, d)]
    BY <1>5 DEF LoadItem, LoadUpTo
  <2> HIDE DEF d
  <2>7. Append(trace.item, d) \in [1 .. n + 1 -> Items]
    <3>1. trace.item \in [1 .. n -> Items] /\ n \in Nat
      BY <2>2, <2>3 DEF TracesOf, ItemsPerRound
    <3>2. trace.item \in Seq(Items)
      BY <3>1
    <3>3. Append(trace.item, d) \in Seq(Items) /\ Len(Append(trace.item, d)) = n + 1
      BY <2>2, <2>5, <3>2
    <3> QED BY <3>3, LenProperties
  <2>8. trace' \in TracesOf(n + 1)
    BY <2>2, <2>6, <2>7 DEF TracesOf
  <2>9. trace' \in Traces
    BY <2>3, <2>8 DEF Traces, ItemsPerRound
  <2>10. TypeOK'
    BY <1>2, <1>5, <2>9 DEF LoadItem, LoadUpTo, TypeOK
  <2> QED BY <1>1, <1>2, <1>5, <2>1, <2>10 DEF IInv, InRounds, InOrder, LoadItem, LoadUpTo
<1>6. CASE FinishRound
  <2>1. pc = "round" /\ Len(trace.item) = ItemsPerRound
    BY <1>6 DEF FinishRound, FinishRoundAt
  <2>2. trace # NoTrace
    BY <2>1 DEF NoTrace, ItemsPerRound
  <2>3. trace \in TracesOf(ItemsPerRound)
    BY <1>2, <2>1, <2>2, TraceIs
  <2>4. state \in States /\ round \in 0 .. Rounds - 1 /\ scratch \in [Indices -> Units]
    BY <1>2, <2>1, <2>2, SizesAreNat DEF TypeOK, InRounds
  <2> DEFINE next == NextState(state, round, trace)
  <2>5. /\ next \in States
        /\ WriteIndex(next, round, trace) \in Indices
        /\ WriteUnit(next, round, trace) \in Units
    BY <2>3, <2>4, MixAssumption DEF MixAssumption
  <2>6. /\ state' = next
        /\ scratch' = [scratch EXCEPT ![WriteIndex(next, round, trace)] = WriteUnit(next, round, trace)]
    BY <1>6 DEF FinishRound, FinishRoundAt
  <2> HIDE DEF next
  <2>7. state' \in States /\ scratch' \in [Indices -> Units] /\ round + 1 \in 0 .. Rounds
    BY <2>4, <2>5, <2>6, SizesAreNat
  <2>8. TypeOK'
    BY <1>2, <1>6, <2>7 DEF FinishRound, FinishRoundAt, TypeOK
  <2> QED BY <1>1, <1>2, <1>6, <2>8 DEF IInv, InRounds, InOrder, FinishRound, FinishRoundAt
<1>7. CASE EndLane
  <2>1. lane \in 0 .. Lanes - 1 /\ lane \in Nat /\ state \in States
    BY <1>2, <1>7, SizesAreNat DEF EndLane, TypeOK
  <2> DEFINE r == [lane_id |-> lane, final_state |-> state]
             R == [lane_id : 0 .. Lanes - 1, final_state : States]
  <2>2. r \in R /\ r.lane_id = lane
    BY <2>1
  <2>3. results \in Seq(R) /\ results' = Append(results, r) /\ Len(results) = lane
    BY <1>2, <1>7 DEF EndLane, TypeOK, InOrder
  <2> HIDE DEF r, R
  <2>4. results' \in Seq(R) /\ Len(results') = lane + 1
    BY <2>2, <2>3
  <2>5. \A i \in 1 .. Len(results') : results'[i].lane_id = i - 1
    <3> SUFFICES ASSUME NEW i \in 1 .. lane + 1 PROVE results'[i].lane_id = i - 1
      BY <2>4
    <3>1. CASE i = lane + 1
      BY <2>1, <2>2, <2>3, <3>1
    <3>2. CASE i # lane + 1
      <4>1. i \in 1 .. lane
        BY <2>1, <3>2
      <4> QED BY <1>2, <2>2, <2>3, <4>1 DEF InOrder
    <3> QED BY <3>1, <3>2
  <2>6. lane' = lane + 1 /\ lane' \in 0 .. Lanes
    BY <1>7, <2>1, SizesAreNat DEF EndLane
  <2>7. TypeOK'
    BY <1>2, <1>7, <2>4, <2>6 DEF EndLane, TypeOK, R
  <2> QED BY <1>1, <1>2, <1>7, <2>4, <2>5, <2>6, <2>7 DEF IInv, InRounds, InOrder, EndLane
<1> QED BY <1>3, <1>4, <1>5, <1>6, <1>7

\* A call ends.
LEMMA EndKeeps == IInv /\ (Finish \/ OutOfMemory \/ Leave) => IInv'
<1> SUFFICES ASSUME IInv, Finish \/ OutOfMemory \/ Leave PROVE IInv'
  OBVIOUS
<1>1. CASE Finish \/ OutOfMemory
  <2>1. /\ pc \in {"lane", "round"} /\ pc' \in {"returned", "threw"}
        /\ UNCHANGED <<installed, input, lane, round, scratch, state, trace, results>>
    BY <1>1 DEF Finish, OutOfMemory, lanes
  <2>2. TypeOK'
    BY <2>1 DEF IInv, TypeOK
  <2> QED BY <2>1, <2>2 DEF IInv, OverrideScoped, InRounds, InOrder
<1>2. CASE Leave
  <2>1. /\ installed' = {} /\ input' = NoInput /\ pc' = "idle"
        /\ lane' = 0 /\ round' = 0 /\ trace' = NoTrace /\ results' = <<>>
    BY <1>2 DEF Leave, LeaveWith
  <2>2. results' \in Seq([lane_id : 0 .. Lanes - 1, final_state : States]) /\ Len(results') = 0
    BY <2>1
  <2>3. TypeOK'
    BY <2>1, <2>2, SizesAreNat DEF TypeOK
  <2> QED BY <2>1, <2>2, <2>3 DEF IInv, OverrideScoped, InRounds, InOrder, NoInput
<1> QED BY <1>1, <1>2

LEMMA Inductive == Spec => []IInv
<1>1. IInv /\ [Next]_vars => IInv'
  <2> SUFFICES ASSUME IInv, [Next]_vars PROVE IInv'
    OBVIOUS
  <2>1. CASE UNCHANGED vars
    BY <2>1 DEF vars, IInv, TypeOK, OverrideScoped, InRounds, InOrder
  <2> QED BY <2>1, CallKeeps, StepKeeps, EndKeeps DEF Next, Work
<1> QED BY <1>1, InitIInv, PTL DEF Spec

\* Every variable of a replay has the type the code gives it.
THEOREM TypeCorrect == Spec => []TypeOK
  BY Inductive, PTL DEF IInv

\* A verification runs under the cache it was given and every other call under
\* none, however the calls before it ended: by a verdict, a refusal or an exception.
THEOREM OverrideIsScoped == Spec => []OverrideScoped
  BY Inductive, PTL DEF IInv

\* So verify_pow's own scope is never the second of its thread, and
\* fold_lane_results never throws on what replay_nonce hands it.
NeverRefused ==
  /\ pc = "idle" => installed = {}
  /\ pc = "lane" /\ lane = Lanes => ~FoldRejects(results)

LEMMA RefusesNone == IInv => NeverRefused
<1> SUFFICES ASSUME IInv PROVE NeverRefused
  OBVIOUS
<1>1. pc = "idle" => installed = {}
  BY DEF IInv, TypeOK, OverrideScoped, NoInput
<1>2. ASSUME lane = Lanes PROVE ~FoldRejects(results)
  <2>1. Len(results) = Lanes
    BY <1>2 DEF IInv, InOrder
  <2>2. \A l \in 0 .. Lanes - 1 : results[l + 1].lane_id = l
    <3> SUFFICES ASSUME NEW l \in 0 .. Lanes - 1 PROVE results[l + 1].lane_id = l
      OBVIOUS
    <3>1. l + 1 \in 1 .. Len(results) /\ l \in Nat /\ (l + 1) - 1 = l
      BY <2>1, SizesAreNat
    <3> QED BY <3>1 DEF IInv, InOrder
  <2> QED BY <2>1, <2>2 DEF FoldRejects
<1> QED BY <1>1, <1>2 DEF NeverRefused

THEOREM CallsAreNeverRefused == Spec => []NeverRefused
  BY RefusesNone, Inductive, PTL

-----------------------------------------------------------------------------
(* Lanes: what a call computes is what the reference says of its own input. *)

\* The cache a call reads: a verifier's, else the generated one.
CallCache == IF input.op = "verify" THEN input.cache ELSE Gen[input.key]

\* The trace of the round in progress once it has loaded items, and the items.
With(items) ==
  LET i0 == ReadIndex0(state, round)
      i1 == ReadIndex1(state, round, i0)
  IN  [read |-> <<i0, i1>>, unit |-> <<scratch[i0], scratch[i1]>>, item |-> items]
Load(items) == ItemOf(CallCache, ItemIndex(state, round, With(items)))
Item0 == Load(<<>>)
Item1 == Load(<<Item0>>)
Item2 == Load(<<Item0, Item1>>)

\* The strengthening: the lane in progress is where the reference is after as
\* many rounds, and its trace is one the reference makes of that state.
AtRest == pc = "idle" => lane = 0
RightSize == pc \in {"lane", "round"} => ~WrongSize(input)
LaneFollowed == pc = "round" =>
  [state |-> state, scratch |-> scratch]
    = Pow!LaneAfter(CallCache, input.key, input.work, lane)[round]
RoundFollowed == pc = "round" /\ trace # NoTrace =>
  \/ trace = With(<<>>) \/ trace = With(<<Item0>>)
  \/ trace = With(<<Item0, Item1>>) \/ trace = With(<<Item0, Item1, Item2>>)

Follows == AtRest /\ RightSize /\ LaneFollowed /\ RoundFollowed /\ LanesIndependent

\* The items of a call come from the call's cache.
LEMMA CallIs ==
  ASSUME IInv, RightSize, pc \in {"lane", "round"}
  PROVE  /\ input.key \in Keys /\ input.work \in Works /\ CallCache \in Caches(input.key)
         /\ Source(input.key) = CallCache
<1>1. input \in Inputs /\ ~WrongSize(input)
  BY DEF IInv, TypeOK, RightSize
<1>2. input.op \in {"pow_hash", "verify"} /\ input.key \in Keys /\ input.work \in Works
  BY <1>1, InputFields
<1>3. CASE input.op = "verify"
  <2> DEFINE o == [key |-> input.key, cache |-> input.cache]
  <2>1. installed = {o} /\ o.key = input.key /\ o.cache = input.cache
    BY <1>1, <1>3 DEF IInv, OverrideScoped
  <2> HIDE DEF o
  <2>2. Source(input.key) = input.cache
    BY <2>1 DEF Source
  <2> QED BY <1>1, <1>2, <1>3, <2>2, InputFields DEF CallCache, Caches
<1>4. CASE input.op = "pow_hash"
  <2>1. installed = {}
    BY <1>4 DEF IInv, OverrideScoped
  <2> QED BY <1>2, <1>4, <2>1 DEF Source, CallCache, Caches
<1> QED BY <1>2, <1>3, <1>4

\* The lane's next state and scratch are those of the reference.
LEMMA RoundIsRef ==
  ASSUME IInv, Follows, FinishRound
  PROVE  [state |-> state', scratch |-> scratch']
           = Pow!RoundRef(CallCache, round, [state |-> state, scratch |-> scratch])
<1>1. pc = "round" /\ Len(trace.item) = ItemsPerRound
  BY DEF FinishRound, FinishRoundAt
<1>2. scratch \in [Indices -> Units]
  BY <1>1 DEF IInv, TypeOK
<1> DEFINE all == With(<<Item0, Item1, Item2>>)
<1>3. trace = all
  <2>1. trace # NoTrace
    BY <1>1 DEF NoTrace, ItemsPerRound
  <2>2. /\ Len(With(<<>>).item) # 3 /\ Len(With(<<Item0>>).item) # 3
        /\ Len(With(<<Item0, Item1>>).item) # 3
    BY DEF With
  <2> QED BY <1>1, <2>1, <2>2 DEF Follows, RoundFollowed, ItemsPerRound
<1> DEFINE next == NextState(state, round, all)
<1>4. /\ state' = next
      /\ scratch' = [scratch EXCEPT ![WriteIndex(next, round, all)] = WriteUnit(next, round, all)]
  BY <1>3 DEF FinishRound, FinishRoundAt
<1>5. Pow!RoundRef(CallCache, round, [state |-> state, scratch |-> scratch])
        = [state |-> next,
           scratch |-> [u \in Indices |-> IF u = WriteIndex(next, round, all)
                                          THEN WriteUnit(next, round, all) ELSE scratch[u]]]
  <2> DEFINE s == [state |-> state, scratch |-> scratch]
             i0 == ReadIndex0(s.state, round)
             i1 == ReadIndex1(s.state, round, i0)
             RefWith(items) == [read |-> <<i0, i1>>, unit |-> <<s.scratch[i0], s.scratch[i1]>>,
                                item |-> items]
             RefLoad(items) == ItemOf(CallCache, ItemIndex(s.state, round, RefWith(items)))
             d0 == RefLoad(<<>>)
             d1 == RefLoad(<<d0>>)
             d2 == RefLoad(<<d0, d1>>)
             ref == RefWith(<<d0, d1, d2>>)
             after == NextState(s.state, round, ref)
  <2>1. s.state = state /\ s.scratch = scratch
    OBVIOUS
  <2> HIDE DEF s
  <2>2. Pow!RoundRef(CallCache, round, s)
          = [state |-> after,
             scratch |-> [u \in Indices |-> IF u = WriteIndex(after, round, ref)
                                            THEN WriteUnit(after, round, ref) ELSE s.scratch[u]]]
    BY DEF Pow!RoundRef
  <2>3. \A items : RefWith(items) = With(items)
    BY <2>1 DEF With
  <2> HIDE DEF RefWith
  <2>4. \A items : RefLoad(items) = Load(items)
    BY <2>1, <2>3 DEF Load
  <2> HIDE DEF RefLoad
  <2>5. d0 = Item0
    BY <2>4 DEF Item0
  <2>6. d1 = Item1
    BY <2>4, <2>5 DEF Item1
  <2>7. d2 = Item2
    BY <2>4, <2>5, <2>6 DEF Item2
  <2> HIDE DEF d0, d1, d2
  <2>8. ref = all
    BY <2>3, <2>5, <2>6, <2>7
  <2> HIDE DEF ref, all
  <2>9. after = next
    BY <2>1, <2>8
  <2> HIDE DEF after, next
  <2> QED BY <2>1, <2>2, <2>8, <2>9 DEF s
<1> DEFINE wi == WriteIndex(next, round, all)
           wu == WriteUnit(next, round, all)
<1>6. /\ state' = next /\ scratch' = [scratch EXCEPT ![wi] = wu]
      /\ Pow!RoundRef(CallCache, round, [state |-> state, scratch |-> scratch])
           = [state |-> next, scratch |-> [u \in Indices |-> IF u = wi THEN wu ELSE scratch[u]]]
  BY <1>4, <1>5
<1> HIDE DEF next, all, wi, wu
<1>7. [scratch EXCEPT ![wi] = wu] = [u \in Indices |-> IF u = wi THEN wu ELSE scratch[u]]
  BY <1>2
<1> QED BY <1>6, <1>7

LEMMA Appends ==
  \A x, y, z : /\ Append(<<>>, x) = <<x>> /\ Append(<<x>>, y) = <<x, y>>
               /\ Append(<<x, y>>, z) = <<x, y, z>>
<1> SUFFICES ASSUME NEW x, NEW y, NEW z
             PROVE  /\ Append(<<>>, x) = <<x>> /\ Append(<<x>>, y) = <<x, y>>
                    /\ Append(<<x, y>>, z) = <<x, y, z>>
  OBVIOUS
<1> DEFINE S == {x, y, z}
<1>1. x \in S /\ y \in S /\ z \in S
  OBVIOUS
<1> HIDE DEF S
<1>2. <<>> \in Seq(S) /\ <<x>> \in Seq(S) /\ <<x, y>> \in Seq(S) /\ <<x, y, z>> \in Seq(S)
  BY <1>1
<1>3. Append(<<>>, x) = <<x>>
  <2> DEFINE a == Append(<<>>, x)
  <2>1. a \in Seq(S) /\ Len(a) = 1 /\ a[1] = x
    BY <1>1, <1>2, AppendProperties, Len(<<>>) = 0
  <2> HIDE DEF a
  <2>2. Len(<<x>>) = 1 /\ \A i \in 1 .. 1 : a[i] = <<x>>[i]
    BY <2>1
  <2>3. a = <<x>>
    BY <1>2, <2>1, <2>2, SeqEqual
  <2> QED BY <2>3 DEF a
<1>4. Append(<<x>>, y) = <<x, y>>
  <2> DEFINE a == Append(<<x>>, y)
  <2>1. a \in Seq(S) /\ Len(a) = 2 /\ a[1] = x /\ a[2] = y
    <3>1. Len(<<x>>) = 1 /\ <<x>>[1] = x
      OBVIOUS
    <3>2. /\ a \in Seq(S) /\ Len(a) = Len(<<x>>) + 1 /\ a[Len(<<x>>) + 1] = y
          /\ \A i \in 1 .. Len(<<x>>) : a[i] = <<x>>[i]
      BY <1>1, <1>2, AppendProperties
    <3> HIDE DEF a
    <3> QED BY <3>1, <3>2
  <2> HIDE DEF a
  <2>2. Len(<<x, y>>) = 2 /\ \A i \in 1 .. 2 : a[i] = <<x, y>>[i]
    BY <2>1
  <2>3. a = <<x, y>>
    BY <1>2, <2>1, <2>2, SeqEqual
  <2> QED BY <2>3 DEF a
<1>5. Append(<<x, y>>, z) = <<x, y, z>>
  <2> DEFINE a == Append(<<x, y>>, z)
  <2>1. a \in Seq(S) /\ Len(a) = 3 /\ a[1] = x /\ a[2] = y /\ a[3] = z
    <3>1. Len(<<x, y>>) = 2 /\ <<x, y>>[1] = x /\ <<x, y>>[2] = y
      OBVIOUS
    <3>2. /\ a \in Seq(S) /\ Len(a) = Len(<<x, y>>) + 1 /\ a[Len(<<x, y>>) + 1] = z
          /\ \A i \in 1 .. Len(<<x, y>>) : a[i] = <<x, y>>[i]
      BY <1>1, <1>2, AppendProperties
    <3> HIDE DEF a
    <3> QED BY <3>1, <3>2
  <2> HIDE DEF a
  <2>2. Len(<<x, y, z>>) = 3 /\ \A i \in 1 .. 3 : a[i] = <<x, y, z>>[i]
    BY <2>1
  <2>3. a = <<x, y, z>>
    BY <1>2, <2>1, <2>2, SeqEqual
  <2> QED BY <2>3 DEF a
<1> QED BY <1>3, <1>4, <1>5

LEMMA FollowsInit == Init => Follows
  BY DEF Init, Follows, AtRest, RightSize, LaneFollowed, RoundFollowed, LanesIndependent

\* A call begins: no lane of it has ended.
LEMMA FollowsCall == IInv /\ Follows /\ (PowHashCall \/ Verify) => Follows'
<1> SUFFICES ASSUME IInv, Follows, PowHashCall \/ Verify PROVE Follows'
  OBVIOUS
<1>1. pc = "idle" /\ UNCHANGED lanes
  BY DEF PowHashCall, Verify, Refuse, Enter
<1>2. Len(results) = 0 /\ results' = results
  BY <1>1 DEF Follows, AtRest, IInv, InOrder, lanes
<1>3. AtRest' /\ LanesIndependent'
  BY <1>1, <1>2 DEF AtRest, LanesIndependent, Follows, lanes
<1>4. pc' \in {"lane", "threw"}
  BY DEF PowHashCall, Verify, Refuse, Enter
<1>5. RightSize'
  BY DEF RightSize, PowHashCall, Verify, Refuse, Enter, WrongSize
<1> QED BY <1>3, <1>4, <1>5 DEF Follows, LaneFollowed, RoundFollowed

\* Within a call the input stays, and with it the cache.
LEMMA FollowsStep ==
  IInv /\ Follows /\ (StartLane \/ ReadScratch \/ LoadItem \/ FinishRound \/ EndLane) => Follows'
<1> SUFFICES ASSUME IInv, Follows, StartLane \/ ReadScratch \/ LoadItem \/ FinishRound \/ EndLane
             PROVE  Follows'
  OBVIOUS
<1>1. /\ pc \in {"lane", "round"} /\ pc' \in {"lane", "round"} /\ input' = input
      /\ IInv /\ AtRest /\ RightSize /\ LaneFollowed /\ RoundFollowed /\ LanesIndependent
  BY DEF Follows, StartLane, StartWith, ReadScratch, LoadItem, LoadUpTo, FinishRound,
         FinishRoundAt, EndLane
<1>2. AtRest' /\ RightSize' /\ CallCache' = CallCache
  BY <1>1 DEF AtRest, RightSize, CallCache, WrongSize
<1>3. /\ input.key \in Keys /\ input.work \in Works /\ CallCache \in Caches(input.key)
      /\ Source(input.key) = CallCache
  BY <1>1, CallIs
<1>4. ASSUME UNCHANGED results PROVE LanesIndependent'
  BY <1>1, <1>4 DEF LanesIndependent
<1> DEFINE after(l) == Pow!LaneAfter(CallCache, input.key, input.work, l)
<1>5. ASSUME NEW l \in 0 .. Lanes - 1
      PROVE  /\ after(l)[0] = [state |-> LaneInit(input.key, input.work, l),
                               scratch |-> ScratchInit(input.key, input.work, l)]
             /\ \A n \in 0 .. Rounds - 1 : after(l)[n + 1] = Pow!RoundRef(CallCache, n, after(l)[n])
  BY <1>3, LaneAfterIs
<1>6. /\ LaneFollowed <=> (pc = "round" => [state |-> state, scratch |-> scratch] = after(lane)[round])
      /\ LaneFollowed' <=> (pc' = "round" => [state |-> state', scratch |-> scratch'] = after(lane')[round'])
  BY <1>1, <1>2 DEF LaneFollowed
<1> HIDE DEF after
<1>7. CASE StartLane
  <2>1. /\ lane \in 0 .. Lanes - 1 /\ lane' = lane /\ round' = 0 /\ trace' = NoTrace
        /\ scratch' = ScratchInit(input.key, input.work, lane)
        /\ state' = LaneInit(input.key, input.work, lane) /\ UNCHANGED results
    BY <1>1, <1>7, SizesAreNat DEF StartLane, StartWith, IInv, TypeOK
  <2>2. LaneFollowed'
    BY <1>5, <1>6, <2>1
  <2> QED BY <1>2, <1>4, <2>1, <2>2 DEF Follows, RoundFollowed
<1>8. CASE ReadScratch
  <2>1. /\ pc = "round" /\ UNCHANGED <<pc, lane, round, scratch, state, results>>
    BY <1>8 DEF ReadScratch
  <2>2. LaneFollowed'
    BY <1>1, <1>6, <2>1
  <2>3. With(<<>>)' = With(<<>>) /\ trace' = With(<<>>)
    BY <1>8, <2>1 DEF ReadScratch, With
  <2> QED BY <1>2, <1>4, <2>1, <2>2, <2>3 DEF Follows, RoundFollowed
<1>9. CASE LoadItem
  <2>1. /\ pc = "round" /\ trace # NoTrace /\ Len(trace.item) < 3
        /\ UNCHANGED <<pc, lane, round, scratch, state, results>>
        /\ trace' = [trace EXCEPT !.item = Append(@, ItemOf(CallCache, ItemIndex(state, round, trace)))]
    BY <1>3, <1>9 DEF LoadItem, LoadUpTo, ItemsPerRound
  <2>2. LaneFollowed'
    BY <1>1, <1>6, <2>1
  <2>3. \A items : With(items)' = With(items) /\ Load(items)' = Load(items)
    BY <1>2, <2>1 DEF With, Load
  <2>4. Item0' = Item0 /\ Item1' = Item1 /\ Item2' = Item2
    BY <2>3 DEF Item0, Item1, Item2
  <2>5. ASSUME NEW items, trace = With(items) PROVE trace' = With(Append(items, Load(items)))
    BY <2>1, <2>5 DEF With, Load
  <2>6. /\ Append(<<>>, Item0) = <<Item0>>
        /\ Append(<<Item0>>, Item1) = <<Item0, Item1>>
        /\ Append(<<Item0, Item1>>, Item2) = <<Item0, Item1, Item2>>
    BY Appends
  <2>7. Len(With(<<Item0, Item1, Item2>>).item) = 3
    <3>1. \A x, y, z : Len(<<x, y, z>>) = 3
      OBVIOUS
    <3> QED BY <3>1 DEF With
  <2>8. \/ trace' = With(<<Item0>>) \/ trace' = With(<<Item0, Item1>>)
        \/ trace' = With(<<Item0, Item1, Item2>>)
    <3>1. CASE trace = With(<<>>)
      BY <2>5, <2>6, <3>1 DEF Item0
    <3>2. CASE trace = With(<<Item0>>)
      BY <2>5, <2>6, <3>2 DEF Item1
    <3>3. CASE trace = With(<<Item0, Item1>>)
      BY <2>5, <2>6, <3>3 DEF Item2
    <3> QED BY <1>1, <2>1, <2>7, <3>1, <3>2, <3>3 DEF RoundFollowed
  <2>9. RoundFollowed'
    BY <2>3, <2>4, <2>8 DEF RoundFollowed
  <2> QED BY <1>2, <1>4, <2>1, <2>2, <2>9 DEF Follows
<1>10. CASE FinishRound
  <2>1. /\ pc = "round" /\ UNCHANGED <<pc, lane, results>> /\ round' = round + 1 /\ trace' = NoTrace
        /\ Len(trace.item) = 3
    BY <1>10 DEF FinishRound, FinishRoundAt, ItemsPerRound
  <2>2. lane \in 0 .. Lanes - 1 /\ round \in 0 .. Rounds - 1
    <3>1. trace # NoTrace
      BY <2>1 DEF NoTrace
    <3> QED BY <1>1, <2>1, <3>1, SizesAreNat DEF IInv, TypeOK, InRounds
  <2>3. [state |-> state', scratch |-> scratch'] = Pow!RoundRef(CallCache, round, after(lane)[round])
    BY <1>1, <1>6, <1>10, <2>1, RoundIsRef DEF Follows
  <2>4. LaneFollowed'
    BY <1>5, <1>6, <2>1, <2>2, <2>3
  <2> QED BY <1>2, <1>4, <2>1, <2>4 DEF Follows, RoundFollowed
<1>11. CASE EndLane
  <2>1. /\ pc = "round" /\ pc' = "lane" /\ round = Rounds
        /\ results' = Append(results, [lane_id |-> lane, final_state |-> state])
    BY <1>11 DEF EndLane
  <2>2. state = Pow!LaneRef(CallCache, input.key, input.work, lane)
    BY <1>1, <1>6, <2>1 DEF Pow!LaneRef, after
  <2>3. /\ results \in Seq([lane_id : 0 .. Lanes - 1, final_state : States])
        /\ Len(results) = lane /\ lane \in Nat
    BY <1>1 DEF IInv, TypeOK, InOrder
  <2> DEFINE r == [lane_id |-> lane, final_state |-> state]
  <2>4. r.lane_id = lane /\ r.final_state = Pow!LaneRef(CallCache, input.key, input.work, lane)
    BY <2>2
  <2>5. r \in [lane_id : 0 .. Lanes - 1, final_state : States]
    BY <1>1, <2>1, SizesAreNat DEF IInv, TypeOK
  <2> HIDE DEF r
  <2>6. /\ Len(results') = lane + 1 /\ results'[lane + 1] = r
        /\ \A i \in 1 .. lane : results'[i] = results[i]
    BY <2>1, <2>3, <2>5 DEF r
  <2>7. ASSUME NEW i \in 1 .. Len(results')
        PROVE  /\ results'[i].lane_id = i - 1
               /\ results'[i].final_state = Pow!LaneRef(CallCache, input.key, input.work, i - 1)
    <3>1. CASE i = lane + 1
      <4>1. i - 1 = lane
        BY <2>3, <3>1
      <4> QED BY <2>4, <2>6, <3>1, <4>1
    <3>2. CASE i # lane + 1
      <4>1. i \in 1 .. lane /\ i \in 1 .. Len(results)
        BY <2>3, <2>6, <3>2
      <4> QED BY <1>1, <2>6, <4>1 DEF LanesIndependent, CallCache
    <3> QED BY <3>1, <3>2
  <2>8. LanesIndependent'
    BY <1>1, <2>7 DEF LanesIndependent, CallCache
  <2> QED BY <1>2, <2>1, <2>8 DEF Follows, LaneFollowed, RoundFollowed
<1> QED BY <1>7, <1>8, <1>9, <1>10, <1>11

\* A call ends.
LEMMA FollowsEnd == IInv /\ Follows /\ (Finish \/ OutOfMemory \/ Leave) => Follows'
<1> SUFFICES ASSUME IInv, Follows, Finish \/ OutOfMemory \/ Leave PROVE Follows'
  OBVIOUS
<1>1. CASE Finish \/ OutOfMemory
  <2>1. pc' \in {"returned", "threw"} /\ UNCHANGED <<input, lane, results>>
    BY <1>1 DEF Finish, OutOfMemory, lanes
  <2>2. LanesIndependent'
    BY <2>1 DEF Follows, LanesIndependent
  <2> QED BY <2>1, <2>2 DEF Follows, AtRest, RightSize, LaneFollowed, RoundFollowed
<1>2. CASE Leave
  <2>1. pc' = "idle" /\ lane' = 0 /\ Len(results') = 0
    BY <1>2 DEF Leave, LeaveWith
  <2>2. LanesIndependent'
    BY <2>1 DEF LanesIndependent
  <2> QED BY <2>1, <2>2 DEF Follows, AtRest, RightSize, LaneFollowed, RoundFollowed
<1> QED BY <1>1, <1>2

LEMMA FollowsAlways == Spec => [](IInv /\ Follows)
<1>1. IInv /\ Follows /\ [Next]_vars => Follows'
  <2> SUFFICES ASSUME IInv, Follows, [Next]_vars PROVE Follows'
    OBVIOUS
  <2>1. CASE UNCHANGED vars
    BY <2>1 DEF vars, Follows, AtRest, RightSize, WrongSize, LaneFollowed, CallCache, RoundFollowed,
                With, Load, Item0, Item1, Item2, LanesIndependent
  <2> QED BY <2>1, FollowsCall, FollowsStep, FollowsEnd DEF Next, Work
<1> QED BY <1>1, FollowsInit, Inductive, PTL DEF Spec

\* The final state of a lane is that of the lane replayed on its own, whatever
\* lanes and calls ran before it: nothing of them is left in what it reads.
THEOREM LanesAreIndependent == Spec => []LanesIndependent
  BY FollowsAlways, PTL DEF Follows

-----------------------------------------------------------------------------
(* The refinement: a call is one step of PowOracle. *)

\* The hash of a call that comes to its end is that of the reference.
LEMMA HashIsRef ==
  ASSUME IInv, Follows, Finish
  PROVE  /\ pc' = "returned" /\ outcome' = Pow!Expected(input)
<1>1. /\ pc = "lane" /\ lane = Lanes /\ NeverRefused
      /\ IInv /\ RightSize /\ LanesIndependent
  BY RefusesNone DEF Follows, Finish
<1>2. /\ input.key \in Keys /\ input.work \in Works /\ CallCache \in Caches(input.key)
  BY <1>1, CallIs
<1> DEFINE finals == [l \in 0 .. Lanes - 1 |-> results[l + 1].final_state]
           h == PowHash(input.key, finals)
           refs == [l \in 0 .. Lanes - 1 |-> Pow!LaneRef(CallCache, input.key, input.work, l)]
<1>3. /\ pc' = "returned"
      /\ outcome' = IF input.op = "pow_hash" THEN Hashed(h) ELSE Verified(h, MeetsTarget(h, input.target))
  BY <1>1 DEF Finish, NeverRefused
<1>4. finals = refs /\ finals \in [0 .. Lanes - 1 -> States]
  <2> SUFFICES ASSUME NEW l \in 0 .. Lanes - 1
               PROVE  /\ results[l + 1].final_state = Pow!LaneRef(CallCache, input.key, input.work, l)
                      /\ results[l + 1].final_state \in States
    OBVIOUS
  <2>1. Len(results) = Lanes /\ results \in Seq([lane_id : 0 .. Lanes - 1, final_state : States])
    BY <1>1 DEF IInv, InOrder, TypeOK
  <2>2. l + 1 \in 1 .. Len(results) /\ (l + 1) - 1 = l
    BY <2>1, SizesAreNat
  <2> DEFINE R == [lane_id : 0 .. Lanes - 1, final_state : States]
  <2>3. results[l + 1] \in R
    <3> HIDE DEF R
    <3>1. results \in Seq(R) /\ l + 1 \in 1 .. Len(results)
      BY <2>1, <2>2 DEF R
    <3> QED BY <3>1
  <2> QED BY <1>1, <2>2, <2>3 DEF LanesIndependent, CallCache
<1>5. h = Pow!PowRef(CallCache, input.key, input.work) /\ h \in Hash256
  <2>1. h = PowHash(input.key, refs)
    BY <1>4
  <2>2. Pow!PowRef(CallCache, input.key, input.work) = PowHash(input.key, refs)
    BY DEF Pow!PowRef
  <2> HIDE DEF finals, refs
  <2>3. h \in Hash256
    BY <1>2, <1>4, MixAssumption DEF MixAssumption
  <2> QED BY <2>1, <2>2, <2>3
<1> HIDE DEF h
<1>6. CASE input.op = "pow_hash"
  BY <1>3, <1>5, <1>6 DEF Pow!Expected, CallCache, Hashed, Pow!Hashed
<1>7. CASE input.op = "verify"
  <2>1. input.target \in Hash256
    BY <1>1, <1>7, ReplayAssumption DEF IInv, TypeOK, Inputs, NoInput, ReplayAssumption
  <2>2. MeetsTarget(h, input.target) <=> Value(h) < Value(input.target)
    BY <1>5, <2>1, VerdictIsNumeric
  <2>3. Pow!Expected(input) = Verified(h, Value(h) < Value(input.target))
    <3>1. \A g : Pow!Value(g) = Value(g)
      BY DEF Value, Pow!Value, LastBytes, Pow!LastBytes
    <3> QED BY <1>5, <1>7, <3>1 DEF Pow!Expected, CallCache, Verified, Pow!Verified
  <2>4. outcome' = Verified(h, MeetsTarget(h, input.target))
    BY <1>3, <1>7
  <2> DEFINE met == MeetsTarget(h, input.target)
             below == Value(h) < Value(input.target)
  <2>5. met \in BOOLEAN
    BY DEF MeetsTarget
  <2>6. below \in BOOLEAN
    OBVIOUS
  <2>7. met <=> below
    BY <2>2
  <2>8. outcome' = Verified(h, met) /\ Pow!Expected(input) = Verified(h, below)
    BY <2>3, <2>4
  <2> HIDE DEF met, below
  <2>9. met = below
    BY <2>5, <2>6, <2>7
  <2> QED BY <1>3, <2>8, <2>9
<1>8. input.op \in {"pow_hash", "verify"}
  BY <1>1, InputFields DEF IInv, TypeOK
<1> QED BY <1>3, <1>6, <1>7, <1>8

\* A call, its end and the return from it are steps of PowOracle; the steps
\* between are stutters.
LEMMA StepRefines ==
  IInv /\ Follows /\ [Next]_vars => [Pow!Next]_(Pow!vars)
<1> SUFFICES ASSUME IInv, Follows, [Next]_vars PROVE [Pow!Next]_(Pow!vars)
  OBVIOUS
<1> USE DEF Pow!vars, Pow!NoInput, NoInput, Pow!NoOutcome, NoOutcome, Pow!Inputs, Inputs,
            Pow!WrongSize, WrongSize, Pow!Threw, Threw
<1>1. CASE PowHashCall
  <2>1. PICK k \in Keys, w \in Works :
          /\ pc = "idle" /\ pc' = "lane" /\ input' = [op |-> "pow_hash", key |-> k, work |-> w]
          /\ outcome' = outcome
    BY <1>1 DEF PowHashCall
  <2>2. input' \in Inputs /\ ~WrongSize(input')
    BY <2>1 DEF Inputs, WrongSize
  <2> QED BY <2>1, <2>2 DEF Pow!Next, Pow!Call
<1>2. CASE Verify
  <2>1. PICK i \in Inputs :
          /\ pc = "idle" /\ i.op = "verify"
          /\ \/ WrongSize(i) /\ Refuse(i, "size")
             \/ ~WrongSize(i) /\ IF installed # {} THEN Refuse(i, "nested") ELSE Enter(i)
    BY <1>2 DEF Verify
  <2>2. installed = {}
    BY <2>1, RefusesNone DEF NeverRefused
  <2> QED BY <2>1, <2>2 DEF Refuse, Enter, Pow!Next, Pow!Call
<1>3. CASE StartLane \/ ReadScratch \/ LoadItem \/ FinishRound \/ EndLane
  BY <1>3 DEF StartLane, StartWith, ReadScratch, LoadItem, LoadUpTo, FinishRound, FinishRoundAt, EndLane
<1>4. CASE Finish
  BY <1>4, HashIsRef DEF Finish, Pow!Next, Pow!Answer
<1>5. CASE OutOfMemory
  BY <1>5 DEF OutOfMemory, Pow!Next, Pow!OutOfMemory
<1>6. CASE Leave
  BY <1>6 DEF Leave, LeaveWith, Pow!Next, Pow!Return
<1>7. CASE UNCHANGED vars
  BY <1>7 DEF vars
<1> QED BY <1>1, <1>2, <1>3, <1>4, <1>5, <1>6, <1>7 DEF Next, Work

\* A call answers with the hash of its own input under its own cache and, when it
\* verifies, with the numeric comparison of that hash with the target; or it
\* throws, on a size or on memory, and leaves nothing behind.
THEOREM ReplayImplementsPow == Spec => ImplementsPow
<1>1. Init => Pow!Init
  BY DEF Init, Pow!Init, Pow!NoInput, NoInput, Pow!NoOutcome, NoOutcome
<1> QED BY <1>1, StepRefines, FollowsAlways, PTL DEF Spec, ImplementsPow, Pow!Spec
==============================================================================
