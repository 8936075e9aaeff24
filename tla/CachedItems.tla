---------------------------- MODULE CachedItems ----------------------------
(***************************************************************************)
(* get_item over the cache itself: the calls of Dataset, whose taps are    *)
(* reads of EpochCache, memo, rebuild and failures included.  A step of    *)
(* get_item that touches no cache is Dataset's own; a tap is a read, begun *)
(* by one step and taken by another, with the steps of other threads in    *)
(* between.                                                                *)
(***************************************************************************)
EXTENDS EpochCache, ItemParams

VARIABLES items, gpc, job, words, item   \* as in Dataset

itemVars == <<items, gpc, job, words, item>>

Data == INSTANCE Dataset WITH
  installed <- [t \in Threads |-> Installed(t)],
  phase <- [t \in Threads |-> Phase(t)],
  request <- call,
  answer <- ret

ItemsInit == Init /\ Data!Init

ItemStep(t) ==
  /\ UNCHANGED vars
  /\ Data!GetItem(t) \/ Data!Mix(t) \/ Data!ItemOutOfMemory(t) \/ Data!Return(t)

\* load_cache_tap_word: one block of the cache, read through epoch_cache_word.
TapBegin(t) ==
  /\ gpc[t] = "taps" /\ Len(words[t]) < GetItemTaps
  /\ BeginOf(t, Data!TapRead(t))
  /\ UNCHANGED itemVars

TapRuns(t) ==
  /\ Lookup(t) \/ Rebuild(t) \/ Read(t)
  /\ UNCHANGED itemVars

TapTake(t) ==
  /\ gpc[t] = "taps" /\ pc[t] = "returned"
  /\ words' = [words EXCEPT ![t] = Append(@, ret[t][1])]
  /\ Finish(t)
  /\ UNCHANGED <<items, gpc, job, item>>

\* What the rebuild throws leaves get_item as well.
TapThrows(t) ==
  /\ gpc[t] = "taps" /\ pc[t] = "threw"
  /\ gpc' = [gpc EXCEPT ![t] = "threw"]
  /\ Finish(t)
  /\ UNCHANGED <<items, job, words, item>>

\* verify_pow's scope: installed and removed between calls, removed by an exception.
Scope(t) ==
  /\ \/ gpc[t] = "idle" /\ (Construct(t) \/ ConstructNull(t) \/ Destroy(t))
     \/ gpc[t] = "threw" /\ Destroy(t)
  /\ UNCHANGED itemVars

ItemsNext == \E t \in Threads :
  ItemStep(t) \/ TapBegin(t) \/ TapRuns(t) \/ TapTake(t) \/ TapThrows(t) \/ Scope(t)

ItemsSpec == ItemsInit /\ [][ItemsNext]_<<vars, itemVars>>

----------------------------------------------------------------------------
(* Properties *)

\* A verification's items are those of the cache it was given, however many
\* threads rebuild the memo in between its taps and whatever allocation fails:
\* every tap of get_item, and not only the first, passes both memos by.
SuppliedItems ==
  \A t \in Threads : gpc[t] = "returned" /\ Matches(t, job[t].key) =>
    Data!IsItem(item[t], override[t].cache, job[t].key, job[t].index)

\* With one miner and no failing rebuild, items over the real cache, with its
\* memo and its partly rebuilt states, are items over the cache of the oracle.
ImplementsDataset == Data!Spec
=============================================================================
