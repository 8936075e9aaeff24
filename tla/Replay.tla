------------------------------- MODULE Replay -------------------------------
(***************************************************************************)
(* core/pow.cpp, core/round_function.cpp and core/verifier.cpp: a thread   *)
(* that computes pow_hash, or verifies under an override of the cache it   *)
(* is given, lane by lane and round by round, any step of which may throw. *)
(* Its scratch and state are buffers it goes through again for each lane.  *)
(***************************************************************************)
EXTENDS PowParams

VARIABLES
  installed,        \* {} or the cache override of this thread
  input,            \* the call in progress
  pc,               \* "idle", "lane", "round", "returned" or "threw"
  lane,             \* lane_id of replay_nonce's loop
  round,            \* round of replay_lane's loop
  scratch, state,   \* of the lane
  trace,            \* RoundTrace: what the round has read so far
  results,          \* vector<LaneReplayResult>
  outcome           \* what the call ends with

lanes == <<lane, round, scratch, state, trace, results>>
vars == <<installed, input, pc, lane, round, scratch, state, trace, results, outcome>>

NoTrace == [read |-> <<>>, unit |-> <<>>, item |-> <<>>]

\* The cache behind get_item: the override of this very key, or the generated one.
Source(k) ==
  IF \E o \in installed : o.key = k
  THEN (CHOOSE o \in installed : o.key = k).cache ELSE Gen[k]

Init ==
  /\ installed = {} /\ input = NoInput /\ pc = "idle"
  /\ lane = 0 /\ round = 0
  /\ scratch = <<>> /\ state = <<>> /\ trace = NoTrace /\ results = <<>>
  /\ outcome = NoOutcome

\* pow_hash enters replay_nonce.
PowHashCall == \E k \in Keys, w \in Works :
  /\ pc = "idle"
  /\ input' = [op |-> "pow_hash", key |-> k, work |-> w]
  /\ pc' = "lane"
  /\ UNCHANGED <<installed, lanes, outcome>>

\* verify_pow refuses a cache of another size, installs it for the scope of the
\* call, which throws if this thread has an override already, and calls pow_hash.
Refuse(i, why) ==
  /\ input' = i /\ pc' = "threw" /\ outcome' = Threw(why)
  /\ UNCHANGED <<installed, lanes>>

Enter(i) ==
  /\ input' = i /\ pc' = "lane"
  /\ installed' = {[key |-> i.key, cache |-> i.cache]}
  /\ UNCHANGED <<lanes, outcome>>

Verify == \E i \in Inputs :
  /\ pc = "idle" /\ i.op = "verify"
  /\ \/ WrongSize(i) /\ Refuse(i, "size")
     \/ ~WrongSize(i) /\ IF installed # {} THEN Refuse(i, "nested") ELSE Enter(i)

\* replay_lane begins: a scratch and a state of its own.
StartWith(units) ==
  /\ pc = "lane" /\ lane < Lanes
  /\ scratch' = units
  /\ state' = LaneInit(input.key, input.work, lane)
  /\ round' = 0 /\ trace' = NoTrace
  /\ pc' = "round"
  /\ UNCHANGED <<installed, input, lane, results, outcome>>

\* Mutant: the scratch of the lane before is used again.
StartLaneReused ==
  StartWith(IF lane = 0 THEN ScratchInit(input.key, input.work, lane) ELSE scratch)

StartLane == StartWith(ScratchInit(input.key, input.work, lane))

\* execute_round: both scratch units are read before any item.
ReadScratch ==
  /\ pc = "round" /\ round < Rounds /\ trace = NoTrace
  /\ LET i0 == ReadIndex0(state, round)
         i1 == ReadIndex1(state, round, i0)
     IN  trace' = [read |-> <<i0, i1>>, unit |-> <<scratch[i0], scratch[i1]>>, item |-> <<>>]
  /\ UNCHANGED <<installed, input, pc, lane, round, scratch, state, results, outcome>>

\* The next item, at an index the items before it are part of.
LoadUpTo(n) ==
  /\ pc = "round" /\ trace # NoTrace /\ Len(trace.item) < n
  /\ trace' = [trace EXCEPT !.item =
                 Append(@, ItemOf(Source(input.key), ItemIndex(state, round, trace)))]
  /\ UNCHANGED <<installed, input, pc, lane, round, scratch, state, results, outcome>>

\* Mutant: a fourth item may be loaded.
LoadItemExtra == LoadUpTo(ItemsPerRound + 1)

LoadItem == LoadUpTo(ItemsPerRound)

\* The state is mixed, and the write is the last thing a round does.
FinishRoundAt(n) ==
  /\ pc = "round" /\ Len(trace.item) = ItemsPerRound
  /\ LET next == NextState(state, round, trace) IN
       /\ state' = next
       /\ scratch' = [scratch EXCEPT ![WriteIndex(next, round, trace)] = WriteUnit(next, round, trace)]
  /\ round' = n /\ trace' = NoTrace
  /\ UNCHANGED <<installed, input, pc, lane, results, outcome>>

\* Mutant: the loop's counter stays.
FinishRoundStuck == FinishRoundAt(round)

FinishRound == FinishRoundAt(round + 1)

EndLane ==
  /\ pc = "round" /\ round = Rounds
  /\ results' = Append(results, [lane_id |-> lane, final_state |-> state])
  /\ lane' = lane + 1
  /\ pc' = "lane"
  /\ UNCHANGED <<installed, input, round, scratch, state, trace, outcome>>

\* What fold_lane_results throws on.
FoldRejects(rs) == Len(rs) # Lanes \/ \E l \in 0 .. Lanes - 1 : rs[l + 1].lane_id # l

\* The fold, compute_pow_hash, and what verify_pow makes of the hash.
Finish ==
  /\ pc = "lane" /\ lane = Lanes
  /\ IF FoldRejects(results)
     THEN pc' = "threw" /\ outcome' = Threw("fold")
     ELSE LET h == PowHash(input.key, [l \in 0 .. Lanes - 1 |-> results[l + 1].final_state])
          IN  /\ pc' = "returned"
              /\ outcome' = IF input.op = "pow_hash" THEN Hashed(h)
                            ELSE Verified(h, MeetsTarget(h, input.target))
  /\ UNCHANGED <<installed, input, lanes>>

\* Any allocation of a call may fail: the input of a lane, a unit, an item.
OutOfMemory ==
  /\ pc \in {"lane", "round"}
  /\ pc' = "threw" /\ outcome' = Threw("memory")
  /\ UNCHANGED <<installed, input, lanes>>

\* The call is over: its locals and, whichever way it ends, its scope are gone.
LeaveWith(scopes) ==
  /\ pc \in {"returned", "threw"}
  /\ installed' = scopes /\ input' = NoInput /\ pc' = "idle" /\ outcome' = NoOutcome
  /\ lane' = 0 /\ round' = 0
  /\ scratch' = <<>> /\ state' = <<>> /\ trace' = NoTrace /\ results' = <<>>

\* Mutant: an exception passes the scope by.
LeaveKeepingScope == LeaveWith(IF pc = "threw" THEN installed ELSE {})

Leave == LeaveWith({})

Work == StartLane \/ ReadScratch \/ LoadItem \/ FinishRound \/ EndLane \/ Finish \/ Leave

Next == PowHashCall \/ Verify \/ OutOfMemory \/ Work

Spec == Init /\ [][Next]_vars

\* A call waits for nothing: no lock, no other thread, no input.
FairSpec == Spec /\ WF_vars(Work)
-----------------------------------------------------------------------------
Pow == INSTANCE PowOracle WITH
  phase <- IF pc \in {"lane", "round"} THEN "busy" ELSE pc

\* Types.
TypeOK ==
  /\ pc \in {"idle", "lane", "round", "returned", "threw"}
  /\ input \in Inputs \union {NoInput} /\ (input = NoInput <=> pc = "idle")
  /\ installed \in SUBSET UNION {[key : {k}, cache : Offered[k]] : k \in Keys}
  /\ lane \in 0 .. Lanes /\ round \in 0 .. Rounds
  /\ pc = "round" => lane < Lanes /\ state \in States /\ scratch \in [Indices -> Units]
  /\ trace \in Traces \union {NoTrace}
  /\ results \in Seq([lane_id : 0 .. Lanes - 1, final_state : States])

\* A verification runs under the cache it was given, every other call and every
\* moment between calls under none, however the calls before ended
\* (the scope of verifier.cpp:27 and its destructor).
OverrideScoped ==
  installed = IF input.op = "verify" /\ ~WrongSize(input)
              THEN {[key |-> input.key, cache |-> input.cache]} ELSE {}

\* A lane's final state is a function of its own id and the cache of the call,
\* and the results are in the order fold_lane_results wants: nothing of another
\* lane's scratch, state or trace is in it (pow.cpp:132-143).
LanesIndependent == \A i \in 1 .. Len(results) :
  /\ results[i].lane_id = i - 1
  /\ results[i].final_state =
       Pow!LaneRef(IF input.op = "verify" THEN input.cache ELSE Gen[input.key],
                   input.key, input.work, i - 1)

\* Every call returns the hash and the verdict of the oracle, or throws for the
\* size of the cache or for memory: it is never refused as nested, and its own
\* results never by the fold (pow.cpp:207-212, verifier.cpp:21-44).
ImplementsPow == Pow!Spec

\* A call ends, by returning or by throwing (the loops of pow.cpp:122 and 139).
CallsEnd == pc # "idle" ~> pc = "idle"
=============================================================================
