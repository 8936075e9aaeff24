---------------------------- MODULE CacheOracle ----------------------------
(***************************************************************************)
(* What core/epoch_cache.h promises its callers, with no memo, no rebuild  *)
(* and no order of steps: a read answers from the cache the calling thread *)
(* installed for that very (profile, seed), and from the freshly generated *)
(* cache otherwise; a read past the end, and a second override on a thread *)
(* that has one, throw.                                                    *)
(***************************************************************************)
EXTENDS EpochCacheParams

VARIABLES installed,   \* installed[t]: {} or the one override of thread t
          phase,       \* "idle", "busy", "returned" or "threw"
          request,     \* the read in progress
          answer       \* what it returned

vars == <<installed, phase, request, answer>>

Source(t, k) ==
  IF \E o \in installed[t] : o.key = k
  THEN (CHOOSE o \in installed[t] : o.key = k).cache
  ELSE Gen[k]

Init ==
  /\ installed = [t \in Threads |-> {}]
  /\ phase = [t \in Threads |-> "idle"]
  /\ request = [t \in Threads |-> NoCall]
  /\ answer = [t \in Threads |-> NoCache]

Install(t) ==
  /\ phase[t] = "idle" /\ installed[t] = {}
  /\ \E k \in Keys : \E c \in Supplied[k] :
       installed' = [installed EXCEPT ![t] = {[key |-> k, cache |-> c]}]
  /\ UNCHANGED <<phase, request, answer>>

Remove(t) ==
  /\ phase[t] \in {"idle", "threw"}
  /\ installed' = [installed EXCEPT ![t] = {}]
  /\ UNCHANGED <<phase, request, answer>>

RejectSecondOverride(t) ==
  /\ phase[t] = "idle" /\ installed[t] # {}
  /\ phase' = [phase EXCEPT ![t] = "threw"]
  /\ UNCHANGED <<installed, request, answer>>

RequestOf(t, r) ==
  /\ phase[t] = "idle"
  /\ request' = [request EXCEPT ![t] = r]
  /\ phase' = [phase EXCEPT ![t] = IF Exceeds(r) THEN "threw" ELSE "busy"]
  /\ UNCHANGED <<installed, answer>>

Request(t) == \E r \in Calls : RequestOf(t, r)

Answer(t) ==
  /\ phase[t] = "busy"
  /\ answer' = [answer EXCEPT ![t] = SliceOf(Source(t, request[t].key), request[t])]
  /\ phase' = [phase EXCEPT ![t] = "returned"]
  /\ UNCHANGED <<installed, request>>

OutOfMemory(t) ==
  /\ phase[t] = "busy"
  /\ phase' = [phase EXCEPT ![t] = "threw"]
  /\ UNCHANGED <<installed, request, answer>>

Finish(t) ==
  /\ phase[t] \in {"returned", "threw"}
  /\ phase' = [phase EXCEPT ![t] = "idle"]
  /\ request' = [request EXCEPT ![t] = NoCall]
  /\ answer' = [answer EXCEPT ![t] = NoCache]
  /\ UNCHANGED installed

Next == \E t \in Threads :
  \/ Install(t) \/ Remove(t) \/ RejectSecondOverride(t)
  \/ Request(t) \/ Answer(t) \/ OutOfMemory(t) \/ Finish(t)

Spec == Init /\ [][Next]_vars
=============================================================================
