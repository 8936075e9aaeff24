------------------------------ MODULE Dataset ------------------------------
(***************************************************************************)
(* core/get_item.cpp: a dataset item is derived from GetItemTaps words of  *)
(* the epoch cache, each at a place the earlier ones choose, and kept in a *)
(* memo the process shares; under an override the memo is bypassed.        *)
(*                                                                         *)
(* The cache is CacheOracle, which EpochCache implements for one miner     *)
(* when no allocation of the rebuild fails; CachedItems has the two        *)
(* together.  An item is the record of what it is mixed from: key, index   *)
(* and tap words.                                                          *)
(***************************************************************************)
EXTENDS ItemParams, Sequences

CONSTANT Miners           \* threads that may call without an override

ASSUME DatasetAssumption == Miners \subseteq Threads

VARIABLES installed, phase, request, answer,   \* the epoch cache
          items,     \* ItemMemoEntry: [init, key, map]
          gpc,       \* "idle", "taps", "returned" or "threw"
          job,       \* the call in progress: [key, index, use_memo]
          words,     \* tap words read so far
          item       \* what the call returns

Cache == INSTANCE CacheOracle

cacheVars == <<installed, phase, request, answer>>
callVars  == <<gpc, job, words, item>>
vars      == <<installed, phase, request, answer, items, gpc, job, words, item>>

NoItems == [i \in {} |-> 0]
NoJob == [key |-> DefaultKey, index |-> 0, use_memo |-> FALSE]
NoItem == [key |-> DefaultKey, index |-> 0, words |-> <<>>]

Overridden(t, k) == \E o \in installed[t] : o.key = k

Init ==
  /\ Cache!Init
  /\ items = [init |-> FALSE, key |-> DefaultKey, map |-> NoItems]
  /\ gpc = [t \in Threads |-> "idle"]
  /\ job = [t \in Threads |-> NoJob]
  /\ words = [t \in Threads |-> <<>>]
  /\ item = [t \in Threads |-> NoItem]

\* Mutant: the memo is cleared on every call.
RekeyedAlways(k) == [init |-> TRUE, key |-> k, map |-> NoItems]

\* Lines 99-105: the memo as a call for k finds it, rekeyed and cleared.
Rekeyed(k) ==
  IF items.init /\ items.key = k THEN items
  ELSE [init |-> TRUE, key |-> k, map |-> NoItems]

\* get_item up to its first tap: a hit, a rejected index, or a derivation.
Enter(t, k, i, use_memo) ==
  LET found == IF use_memo THEN Rekeyed(k) ELSE items
      hit   == use_memo /\ i \in DOMAIN found.map
      valid == i < ItemCount[k.profile] IN
  /\ gpc[t] = "idle" /\ phase[t] = "idle"
  /\ items' = found
  /\ job' = [job EXCEPT ![t] = [key |-> k, index |-> i, use_memo |-> use_memo]]
  /\ \/ /\ hit
        /\ gpc' = [gpc EXCEPT ![t] = "returned"]
        /\ item' = [item EXCEPT ![t] = found.map[i]]
     \/ /\ ~hit /\ ~valid
        /\ gpc' = [gpc EXCEPT ![t] = "threw"]
        /\ UNCHANGED item
     \/ /\ ~hit /\ valid
        /\ gpc' = [gpc EXCEPT ![t] = "taps"]
        /\ UNCHANGED item
  /\ UNCHANGED <<cacheVars, words>>

\* Mutant: the memo is used under an override too.
GetItemAlwaysMemo(t) ==
  \E k \in Keys, i \in Indices :
    /\ t \in Miners \/ Overridden(t, k)
    /\ Enter(t, k, i, TRUE)

GetItem(t) ==
  \E k \in Keys, i \in Indices :
    /\ t \in Miners \/ Overridden(t, k)
    /\ Enter(t, k, i, ~Overridden(t, k))

\* One tap: load_cache_tap_word asks the epoch cache for one word ...
TapRead(t) == [key |-> job[t].key, lo |-> TapBlock(job[t].key, job[t].index, words[t]), n |-> 1]

\* Mutant: one tap more.
TapRequestInclusive(t) ==
  /\ gpc[t] = "taps" /\ Len(words[t]) <= GetItemTaps
  /\ Cache!RequestOf(t, TapRead(t))
  /\ UNCHANGED <<items, callVars>>

TapRequest(t) ==
  /\ gpc[t] = "taps" /\ Len(words[t]) < GetItemTaps
  /\ Cache!RequestOf(t, TapRead(t))
  /\ UNCHANGED <<items, callVars>>

TapAnswer(t) == Cache!Answer(t) /\ UNCHANGED <<items, callVars>>

\* ... and mixes it in.
TapTake(t) ==
  /\ gpc[t] = "taps" /\ phase[t] = "returned"
  /\ Cache!Finish(t)
  /\ words' = [words EXCEPT ![t] = Append(@, answer[t][1])]
  /\ UNCHANGED <<items, gpc, job, item>>

\* unordered_map::emplace keeps an entry that is there.
Emplaced(m, i, v) == [j \in DOMAIN m \union {i} |-> IF j \in DOMAIN m THEN m[j] ELSE v]

StoreWhen(t, store) ==
  LET v == [key |-> job[t].key, index |-> job[t].index, words |-> words[t]] IN
  /\ gpc[t] = "taps" /\ phase[t] = "idle" /\ Len(words[t]) = GetItemTaps
  /\ items' = IF store THEN [items EXCEPT !.map = Emplaced(@, job[t].index, v)] ELSE items
  /\ item' = [item EXCEPT ![t] = v]
  /\ gpc' = [gpc EXCEPT ![t] = "returned"]
  /\ UNCHANGED <<cacheVars, job, words>>

\* Mutant: an item of an override is stored too.
MixAlwaysStores(t) == StoreWhen(t, TRUE)

Mix(t) == StoreWhen(t, job[t].use_memo)

\* initial_item_state, or the emplace of a finished item, runs out of memory.
ItemOutOfMemory(t) ==
  /\ gpc[t] = "taps" /\ phase[t] = "idle"
  /\ words[t] = <<>> \/ (Len(words[t]) = GetItemTaps /\ job[t].use_memo)
  /\ gpc' = [gpc EXCEPT ![t] = "threw"]
  /\ UNCHANGED <<cacheVars, items, job, words, item>>

Return(t) ==
  /\ gpc[t] \in {"returned", "threw"}
  /\ gpc' = [gpc EXCEPT ![t] = "idle"]
  /\ job' = [job EXCEPT ![t] = NoJob]
  /\ words' = [words EXCEPT ![t] = <<>>]
  /\ item' = [item EXCEPT ![t] = NoItem]
  /\ UNCHANGED <<cacheVars, items>>

\* The caller installs and removes its override between calls (verify_pow), and
\* removes it while an exception unwinds.
Scope(t) ==
  /\ \/ gpc[t] = "idle" /\ (Cache!Install(t) \/ Cache!Remove(t))
     \/ gpc[t] = "threw" /\ Cache!Remove(t)
  /\ UNCHANGED <<items, callVars>>

Next == \E t \in Threads :
  \/ GetItem(t) \/ TapRequest(t) \/ TapAnswer(t) \/ TapTake(t)
  \/ Mix(t) \/ ItemOutOfMemory(t) \/ Return(t) \/ Scope(t)

Spec == Init /\ [][Next]_vars

----------------------------------------------------------------------------
(* Properties *)

Before(w, j) == [x \in 1 .. j - 1 |-> w[x]]

\* The words w are those item i of k takes from cache c.
TapsFrom(c, k, i, w) ==
  \A j \in 1 .. Len(w) : w[j] = c[TapBlock(k, i, Before(w, j))]

IsItem(v, c, k, i) ==
  /\ v.key = k /\ v.index = i /\ Len(v.words) = GetItemTaps
  /\ TapsFrom(c, k, i, v.words)

Items == [key : Keys, index : Indices, words : Seq(Values)]

TypeOK ==
  /\ items \in [init : BOOLEAN, key : Keys, map : {items.map}]
  /\ \E S \in SUBSET Indices : items.map \in [S -> Items]
  /\ gpc \in [Threads -> {"idle", "taps", "returned", "threw"}]
  /\ job \in [Threads -> [key : Keys, index : Indices, use_memo : BOOLEAN]]
  /\ words \in [Threads -> Seq(Values)]
  /\ item \in [Threads -> Items]
  /\ \A t \in Threads : Len(words[t]) <= GetItemTaps

\* The item memo holds items of its own key only, derived from the generated
\* cache: no item of an override's cache, of another epoch or of a derivation
\* that failed halfway ever enters it.
ItemMemoFaithful ==
  \A i \in DOMAIN items.map :
    items.init /\ i < ItemCount[items.key.profile]
      /\ IsItem(items.map[i], Gen[items.key], items.key, i)

\* get_item returns the item of the cache in force when it was called: under an
\* override the supplied cache's, even if the memo has an item of that index.
ItemFaithful ==
  \A t \in Threads : gpc[t] = "returned" =>
    IsItem(item[t], Cache!Source(t, job[t].key), job[t].key, job[t].index)

\* Within an epoch the memo only gains items: an entry leaves or changes only
\* when the memo takes another key.
ItemMemoGrows ==
  [][items.init /\ items'.key = items.key =>
       \A i \in DOMAIN items.map : i \in DOMAIN items'.map /\ items'.map[i] = items.map[i]]_vars

\* A call under an override leaves the item memo alone from entry to return: a
\* verification, which decides on entry and would store on exit, adds nothing to
\* what the process holds (get_item.cpp:98 and :176).
OverrideLeavesItems ==
  [][\A t \in Threads : gpc'[t] # gpc[t] /\ Overridden(t, job'[t].key) => items' = items]_vars
=============================================================================
