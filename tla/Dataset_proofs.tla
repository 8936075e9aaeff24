--------------------------- MODULE Dataset_proofs ---------------------------
(***************************************************************************)
(* Items are those of the cache in force and the item memo holds nothing   *)
(* else, for every profile, number of taps and number of verifiers, when   *)
(* at most one thread reads without an override.                           *)
(***************************************************************************)
EXTENDS Dataset, TLAPS

SoleMiner == \A t, u \in Miners : t = u

\* The cache a thread reads through, for any key.
Source(t, k) == Cache!Source(t, k)

DomainsInv ==
  /\ DOMAIN installed = Threads /\ DOMAIN phase = Threads
  /\ DOMAIN request = Threads /\ DOMAIN answer = Threads

\* A derivation in progress: its words are the cache's so far, its read is the
\* next tap's, and the memo it will store into has its key.
TapsInv(t) ==
  /\ job[t].index < ItemCount[job[t].key.profile]
  /\ job[t].use_memo =>
       t \in Miners /\ ~Overridden(t, job[t].key) /\ items.init /\ items.key = job[t].key
  /\ TapsFrom(Source(t, job[t].key), job[t].key, job[t].index, words[t])
  /\ phase[t] # "idle" => Len(words[t]) < GetItemTaps /\ request[t] = TapRead(t)
  /\ phase[t] = "returned" => answer[t] = SliceOf(Source(t, job[t].key), request[t])

CallInv(t) ==
  /\ \A k \in Keys : Source(t, k) \in [Blocks(k) -> Values]
  /\ phase[t] \in {"idle", "busy", "returned"}
  /\ gpc[t] # "taps" => phase[t] = "idle"
  /\ gpc[t] = "idle" => words[t] = <<>>
  /\ gpc[t] = "taps" => TapsInv(t)
  /\ gpc[t] = "returned" => IsItem(item[t], Source(t, job[t].key), job[t].key, job[t].index)

IInv == TypeOK /\ DomainsInv /\ ItemMemoFaithful /\ \A t \in Threads : CallInv(t)

----------------------------------------------------------------------------

\* A source is the generated cache or the override installed for its key.
LEMMA SourceIs ==
  ASSUME NEW t \in Threads, NEW k \in Keys
  PROVE  Source(t, k) = IF Overridden(t, k)
                        THEN (CHOOSE o \in installed[t] : o.key = k).cache ELSE Gen[k]
  BY DEF Source, Cache!Source, Overridden

\* Taking the word the next tap reads extends the words taken.
LEMMA TapExtends ==
  ASSUME NEW c, NEW k, NEW i, NEW w \in Seq(Values), TapsFrom(c, k, i, w),
         NEW v \in Values, v = c[TapBlock(k, i, w)]
  PROVE  TapsFrom(c, k, i, Append(w, v))
<1> DEFINE e == Append(w, v)
<1>1. Len(e) = Len(w) + 1 /\ e[Len(w) + 1] = v /\ \A j \in 1 .. Len(w) : e[j] = w[j]
  OBVIOUS
<1>2. Len(w) \in Nat
  OBVIOUS
<1> SUFFICES ASSUME NEW j \in 1 .. Len(e) PROVE e[j] = c[TapBlock(k, i, Before(e, j))]
  BY DEF TapsFrom
<1> HIDE DEF e
<1>3. CASE j \in 1 .. Len(w)
  <2>1. Before(e, j) = Before(w, j)
    BY <1>1, <1>2, <1>3 DEF Before
  <2> QED BY <2>1, <1>1, <1>3 DEF TapsFrom
<1>4. CASE j = Len(w) + 1
  <2>1. Before(e, j) = w
    <3>1. Before(e, j) = [x \in 1 .. Len(w) |-> w[x]]
      BY <1>1, <1>2, <1>4 DEF Before
    <3>2. w = [x \in 1 .. Len(w) |-> w[x]]
      OBVIOUS
    <3> QED BY <3>1, <3>2
  <2> QED BY <2>1, <1>1, <1>4
<1> QED BY <1>1, <1>2, <1>3, <1>4

\* A tap's place is in the cache, so its read does not throw.
LEMMA TapInCache ==
  ASSUME TypeOK, NEW t \in Threads, Len(words[t]) < GetItemTaps
  PROVE  /\ TapBlock(job[t].key, job[t].index, words[t]) \in Blocks(job[t].key)
         /\ ~Cache!Exceeds(TapRead(t))
<1>1. job[t].key \in Keys /\ job[t].index \in Indices /\ words[t] \in Seq(Values)
  BY DEF TypeOK
<1>2. words[t] \in TapWords
  <2>1. words[t] \in [1 .. Len(words[t]) -> Values] /\ Len(words[t]) \in Nat
    BY <1>1
  <2>2. Len(words[t]) \in 0 .. GetItemTaps - 1
    BY <2>1, ItemsAssumption DEF ItemsAssumption
  <2> QED BY <2>1, <2>2 DEF TapWords
<1>3. TapBlock(job[t].key, job[t].index, words[t]) \in Blocks(job[t].key)
  BY <1>1, <1>2, TapsAssumption DEF TapsAssumption
<1>4. BlockCount[job[t].key.profile] \in Nat
  BY <1>1, EpochCacheAssumption DEF EpochCacheAssumption
<1> QED BY <1>3, <1>4 DEF Cache!Exceeds, TapRead, Blocks

\* A thread's call is undisturbed by steps of other threads that leave the memo's
\* key alone, or that it does not use.
LEMMA Undisturbed ==
  ASSUME NEW u \in Threads, CallInv(u),
         installed'[u] = installed[u], phase'[u] = phase[u], request'[u] = request[u],
         answer'[u] = answer[u], gpc'[u] = gpc[u], job'[u] = job[u], words'[u] = words[u],
         item'[u] = item[u],
         (items'.init = items.init /\ items'.key = items.key) \/ u \notin Miners
  PROVE  CallInv(u)'
<1>1. \A k : Source(u, k)' = Source(u, k) /\ (Overridden(u, k)' <=> Overridden(u, k))
  BY DEF Source, Cache!Source, Overridden
<1>2. TapRead(u)' = TapRead(u)
  BY DEF TapRead
<1>3. TapsInv(u) => TapsInv(u)'
  BY <1>1, <1>2 DEF TapsInv
<1> QED BY <1>1, <1>3 DEF CallInv

----------------------------------------------------------------------------
(* Steps *)

LEMMA ConstantsTyped ==
  /\ DefaultKey \in Keys
  /\ \A k \in Keys : k.profile \in Profiles /\ BlockCount[k.profile] \in Nat \ {0}
  /\ \A k \in Keys : Gen[k] \in [Blocks(k) -> Values]
  /\ \A k \in Keys : Supplied[k] \subseteq [Blocks(k) -> Values]
  /\ 0 \in Indices /\ GetItemTaps \in Nat \ {0}
<1>1. \A k \in Keys : k.profile \in Profiles
  BY EpochCacheAssumption DEF EpochCacheAssumption
<1> QED
  BY <1>1, EpochCacheAssumption, ItemsAssumption
  DEF EpochCacheAssumption, ItemsAssumption, Indices

LEMMA Initially == Init => IInv
<1> SUFFICES ASSUME Init PROVE IInv
  OBVIOUS
<1>1. TypeOK
  <2>1. NoItems \in [{} -> Items]
    BY DEF NoItems
  <2>2. <<>> \in Seq(Values) /\ Len(<<>>) = 0
    OBVIOUS
  <2>3. NoItem \in Items /\ NoJob \in [key : Keys, index : Indices, use_memo : BOOLEAN]
    BY <2>2, ConstantsTyped DEF NoItem, NoJob, Items
  <2>4. \E S \in SUBSET Indices : items.map \in [S -> Items]
    BY <2>1 DEF Init
  <2>5. items \in [init : BOOLEAN, key : Keys, map : {items.map}]
    BY ConstantsTyped DEF Init
  <2>6. \A t \in Threads : Len(words[t]) <= GetItemTaps
    <3>1. GetItemTaps \in Nat
      BY ConstantsTyped
    <3>2. \A t \in Threads : words[t] = <<>>
      BY DEF Init
    <3>3. \A t \in Threads : Len(words[t]) = 0
      BY <2>2, <3>2
    <3>4. 0 <= GetItemTaps
      BY <3>1
    <3> QED BY <3>3, <3>4
  <2>7. words \in [Threads -> Seq(Values)]
    BY <2>2 DEF Init
  <2> QED BY <2>3, <2>4, <2>5, <2>6, <2>7 DEF Init, TypeOK
<1>2. DomainsInv
  BY DEF Init, Cache!Init, DomainsInv
<1>3. ItemMemoFaithful
  BY DEF Init, NoItems, ItemMemoFaithful
<1>4. ASSUME NEW t \in Threads PROVE CallInv(t)
  <2>1. installed[t] = {} /\ phase[t] = "idle" /\ gpc[t] = "idle" /\ words[t] = <<>>
    BY DEF Init, Cache!Init
  <2>2. \A k \in Keys : Source(t, k) = Gen[k]
    BY <2>1, SourceIs DEF Overridden
  <2> QED BY <2>1, <2>2, ConstantsTyped DEF CallInv
<1> QED BY <1>1, <1>2, <1>3, <1>4 DEF IInv

\* Entering get_item: the memo is rekeyed for the sole miner, and a hit returns
\* an item of the generated cache, which no override hides.
LEMMA GetItemStep ==
  ASSUME SoleMiner, IInv, NEW t \in Threads, GetItem(t)
  PROVE  IInv'
<1>1. PICK k \in Keys, i \in Indices :
        (t \in Miners \/ Overridden(t, k)) /\ Enter(t, k, i, ~Overridden(t, k))
  BY DEF GetItem
<1> DEFINE use == ~Overridden(t, k)
<1>2. use \in BOOLEAN /\ (use => t \in Miners) /\ (use <=> ~Overridden(t, k))
  BY <1>1 DEF Overridden
<1>3. TypeOK /\ DomainsInv /\ ItemMemoFaithful /\ CallInv(t)
  BY DEF IInv
<1>4. /\ gpc[t] = "idle" /\ phase[t] = "idle" /\ words[t] = <<>>
      /\ UNCHANGED <<cacheVars, words>>
      /\ job' = [job EXCEPT ![t] = [key |-> k, index |-> i, use_memo |-> use]]
      /\ items' = IF use THEN Rekeyed(k) ELSE items
  BY <1>1, <1>3 DEF Enter, CallInv
<1> HIDE DEF use
<1>5. /\ items' \in [init : BOOLEAN, key : Keys, map : {items'.map}]
      /\ \E S \in SUBSET Indices : items'.map \in [S -> Items]
      /\ ItemMemoFaithful'
      /\ use => items'.init /\ items'.key = k
      /\ use \/ items' = items
  <2>1. CASE ~use \/ (items.init /\ items.key = k)
    <3>1. items' = items
      BY <2>1, <1>4 DEF Rekeyed
    <3>2. use => items.init /\ items.key = k
      BY <2>1
    <3> QED BY <3>1, <3>2, <1>3 DEF TypeOK, ItemMemoFaithful
  <2>2. CASE use /\ ~(items.init /\ items.key = k)
    <3>1. items' = [init |-> TRUE, key |-> k, map |-> NoItems]
      BY <2>2, <1>4 DEF Rekeyed
    <3>2. NoItems \in [{} -> Items] /\ DOMAIN NoItems = {}
      BY DEF NoItems
    <3>3. items'.init = TRUE /\ items'.key = k /\ items'.map = NoItems
      BY <3>1
    <3>4. items' \in [init : BOOLEAN, key : Keys, map : {items'.map}]
      BY <3>1, <3>3
    <3>5. \E S \in SUBSET Indices : items'.map \in [S -> Items]
      BY <3>2, <3>3
    <3>6. ItemMemoFaithful'
      BY <3>2, <3>3 DEF ItemMemoFaithful
    <3> QED BY <2>2, <3>3, <3>4, <3>5, <3>6
  <2> QED BY <2>1, <2>2
<1>6. job' \in [Threads -> [key : Keys, index : Indices, use_memo : BOOLEAN]]
      /\ job'[t] = [key |-> k, index |-> i, use_memo |-> use]
  BY <1>2, <1>3, <1>4 DEF TypeOK
<1>7. \/ /\ use /\ i \in DOMAIN items'.map
         /\ gpc' = [gpc EXCEPT ![t] = "returned"] /\ item' = [item EXCEPT ![t] = items'.map[i]]
      \/ gpc' = [gpc EXCEPT ![t] = "threw"] /\ item' = item
      \/ i < ItemCount[k.profile] /\ gpc' = [gpc EXCEPT ![t] = "taps"] /\ item' = item
  <2> DEFINE found == IF use THEN Rekeyed(k) ELSE items
             hit == use /\ i \in DOMAIN found.map
             valid == i < ItemCount[k.profile]
  <2>1. \/ /\ hit
           /\ gpc' = [gpc EXCEPT ![t] = "returned"]
           /\ item' = [item EXCEPT ![t] = found.map[i]]
        \/ /\ ~hit /\ ~valid
           /\ gpc' = [gpc EXCEPT ![t] = "threw"]
           /\ UNCHANGED item
        \/ /\ ~hit /\ valid
           /\ gpc' = [gpc EXCEPT ![t] = "taps"]
           /\ UNCHANGED item
    BY <1>1 DEF Enter, use
  <2>2. found = items'
    BY <1>4
  <2> HIDE DEF found
  <2> QED BY <2>1, <2>2
<1>8. TypeOK'
  <2>1. gpc' \in [Threads -> {"idle", "taps", "returned", "threw"}]
    BY <1>3, <1>7 DEF TypeOK
  <2>2. item' \in [Threads -> Items]
    <3>1. i \in DOMAIN items'.map => items'.map[i] \in Items
      BY <1>5
    <3> QED BY <3>1, <1>3, <1>7 DEF TypeOK
  <2>3. words' = words
    BY <1>4
  <2> QED BY <1>3, <1>5, <1>6, <2>1, <2>2, <2>3 DEF TypeOK
<1>9. DomainsInv'
  BY <1>3, <1>4 DEF DomainsInv, cacheVars
<1>10. CallInv(t)'
  <2>1. /\ \A j : Source(t, j)' = Source(t, j) /\ (Overridden(t, j)' <=> Overridden(t, j))
        /\ phase'[t] = "idle" /\ words'[t] = <<>>
    BY <1>4 DEF Source, Cache!Source, Overridden, cacheVars
  <2>2. CASE use /\ i \in DOMAIN items'.map
             /\ gpc' = [gpc EXCEPT ![t] = "returned"] /\ item' = [item EXCEPT ![t] = items'.map[i]]
    <3>1. gpc'[t] = "returned" /\ item'[t] = items'.map[i]
      BY <2>2, <1>3 DEF TypeOK
    <3>2. Source(t, k) = Gen[k]
      BY <2>2, <1>2, SourceIs
    <3>3. IsItem(items'.map[i], Gen[k], k, i)
      BY <2>2, <1>5 DEF ItemMemoFaithful
    <3>4. IsItem(item'[t], Source(t, k), k, i)
      BY <3>1, <3>2, <3>3
    <3>5. job'[t].key = k /\ job'[t].index = i
      BY <1>6
    <3>6. IsItem(item[t], Source(t, job[t].key), job[t].key, job[t].index)'
      BY <2>1, <3>4, <3>5 DEF IsItem, TapsFrom
    <3> QED BY <1>3, <2>1, <3>1, <3>6 DEF CallInv
  <2>3. CASE gpc' = [gpc EXCEPT ![t] = "threw"] /\ item' = item
    <3>1. gpc'[t] = "threw"
      BY <2>3, <1>3 DEF TypeOK
    <3> QED BY <1>3, <2>1, <3>1 DEF CallInv
  <2>4. CASE i < ItemCount[k.profile] /\ gpc' = [gpc EXCEPT ![t] = "taps"] /\ item' = item
    <3>1. gpc'[t] = "taps"
      BY <2>4, <1>3 DEF TypeOK
    <3>2. TapsFrom(Source(t, k), k, i, <<>>)
      BY DEF TapsFrom
    <3>3. job'[t].key = k /\ job'[t].index = i /\ job'[t].use_memo = use
      BY <1>6
    <3>4. TapsFrom(Source(t, job[t].key), job[t].key, job[t].index, words[t])'
      BY <2>1, <3>2, <3>3 DEF TapsFrom
    <3>5. TapsInv(t)'
      BY <1>2, <1>5, <2>1, <2>4, <3>3, <3>4 DEF TapsInv
    <3> QED BY <1>3, <2>1, <3>1, <3>5 DEF CallInv
  <2> QED BY <1>7, <2>2, <2>3, <2>4
<1>11. ASSUME NEW u \in Threads, u # t PROVE CallInv(u)'
  <2>1. (items'.init = items.init /\ items'.key = items.key) \/ u \notin Miners
    BY <1>2, <1>5, <1>11 DEF SoleMiner
  <2>2. gpc'[u] = gpc[u] /\ job'[u] = job[u] /\ item'[u] = item[u]
    BY <1>3, <1>4, <1>7, <1>11 DEF TypeOK
  <2> QED BY <1>4, <2>1, <2>2, Undisturbed DEF IInv, cacheVars
<1> QED BY <1>5, <1>8, <1>9, <1>10, <1>11 DEF IInv

\* Asking the cache: an index in the cache is not refused.
LEMMA TapRequestStep ==
  ASSUME IInv, NEW t \in Threads, TapRequest(t)
  PROVE  IInv'
<1>1. TypeOK /\ DomainsInv /\ ItemMemoFaithful /\ CallInv(t)
  BY DEF IInv
<1>2. /\ gpc[t] = "taps" /\ Len(words[t]) < GetItemTaps /\ phase[t] = "idle"
      /\ request' = [request EXCEPT ![t] = TapRead(t)]
      /\ phase' = [phase EXCEPT ![t] = "busy"]
      /\ UNCHANGED <<installed, answer, items, callVars>>
  BY <1>1, TapInCache DEF TapRequest, Cache!RequestOf
<1>3. TypeOK' /\ ItemMemoFaithful'
  BY <1>1, <1>2 DEF TypeOK, ItemMemoFaithful, callVars
<1>4. DomainsInv'
  BY <1>1, <1>2 DEF DomainsInv
<1>5. CallInv(t)'
  <2>1. phase'[t] = "busy" /\ request'[t] = TapRead(t) /\ TapRead(t)' = TapRead(t)
    BY <1>1, <1>2 DEF DomainsInv, TapRead, callVars
  <2>2. \A j : Source(t, j)' = Source(t, j) /\ (Overridden(t, j)' <=> Overridden(t, j))
    BY <1>2 DEF Source, Cache!Source, Overridden
  <2>3. TapsInv(t)'
    BY <1>1, <1>2, <2>1, <2>2 DEF TapsInv, CallInv, callVars
  <2> QED BY <1>1, <1>2, <2>1, <2>2, <2>3 DEF CallInv, callVars
<1>6. ASSUME NEW u \in Threads, u # t PROVE CallInv(u)'
  BY <1>2, <1>6, Undisturbed DEF IInv, callVars
<1> QED BY <1>3, <1>4, <1>5, <1>6 DEF IInv

LEMMA TapAnswerStep ==
  ASSUME IInv, NEW t \in Threads, TapAnswer(t)
  PROVE  IInv'
<1>1. TypeOK /\ DomainsInv /\ ItemMemoFaithful /\ CallInv(t)
  BY DEF IInv
<1>2. /\ phase[t] = "busy"
      /\ answer' = [answer EXCEPT ![t] = SliceOf(Source(t, request[t].key), request[t])]
      /\ phase' = [phase EXCEPT ![t] = "returned"]
      /\ UNCHANGED <<installed, request, items, callVars>>
  BY DEF TapAnswer, Cache!Answer, Source, SliceOf, Cache!SliceOf
<1>3. TypeOK' /\ ItemMemoFaithful'
  BY <1>1, <1>2 DEF TypeOK, ItemMemoFaithful, callVars
<1>4. DomainsInv'
  BY <1>1, <1>2 DEF DomainsInv
<1>5. CallInv(t)'
  <2>1. gpc[t] = "taps" /\ TapsInv(t) /\ request[t] = TapRead(t) /\ request[t].key = job[t].key
    BY <1>1, <1>2 DEF CallInv, TapsInv, TapRead
  <2>2. \A j : Source(t, j)' = Source(t, j) /\ (Overridden(t, j)' <=> Overridden(t, j))
    BY <1>2 DEF Source, Cache!Source, Overridden
  <2>3. phase'[t] = "returned" /\ answer'[t] = SliceOf(Source(t, job[t].key), request[t])
        /\ TapRead(t)' = TapRead(t)
    BY <1>1, <1>2, <2>1 DEF DomainsInv, TapRead, callVars
  <2>4. (answer[t] = SliceOf(Source(t, job[t].key), request[t]))'
    BY <1>2, <2>2, <2>3 DEF callVars, SliceOf
  <2>5. TapsInv(t)'
    BY <1>2, <2>1, <2>2, <2>3, <2>4 DEF TapsInv, callVars
  <2> QED BY <1>1, <1>2, <2>1, <2>2, <2>3, <2>5 DEF CallInv, callVars
<1>6. ASSUME NEW u \in Threads, u # t PROVE CallInv(u)'
  BY <1>2, <1>6, Undisturbed DEF IInv, callVars
<1> QED BY <1>3, <1>4, <1>5, <1>6 DEF IInv

LEMMA TapTakeStep ==
  ASSUME IInv, NEW t \in Threads, TapTake(t)
  PROVE  IInv'
<1> DEFINE k == job[t].key  i == job[t].index  c == Source(t, k)  w == words[t]
           v == answer[t][1]
<1>1. TypeOK /\ DomainsInv /\ ItemMemoFaithful /\ CallInv(t)
  BY DEF IInv
<1>2. /\ gpc[t] = "taps" /\ phase[t] = "returned"
      /\ phase' = [phase EXCEPT ![t] = "idle"]
      /\ request' = [request EXCEPT ![t] = Cache!NoCall]
      /\ answer' = [answer EXCEPT ![t] = Cache!NoCache]
      /\ words' = [words EXCEPT ![t] = Append(w, v)]
      /\ UNCHANGED <<installed, items, gpc, job, item>>
  BY DEF TapTake, Cache!Finish
<1>3. /\ TapsInv(t) /\ Len(w) < GetItemTaps /\ request[t] = TapRead(t)
      /\ answer[t] = SliceOf(c, request[t]) /\ TapsFrom(c, k, i, w)
  BY <1>1, <1>2 DEF CallInv, TapsInv
<1>4. k \in Keys /\ i \in Indices /\ w \in Seq(Values)
  BY <1>1 DEF TypeOK
<1>5. TapBlock(k, i, w) \in Blocks(k) /\ c \in [Blocks(k) -> Values]
  BY <1>1, <1>3, <1>4, TapInCache DEF CallInv
<1>6. v = c[TapBlock(k, i, w)] /\ v \in Values
  <2>1. request[t].lo = TapBlock(k, i, w) /\ request[t].n = 1
    BY <1>3 DEF TapRead
  <2>2. request[t].lo \in Nat
    BY <1>4, <1>5, <2>1, ConstantsTyped DEF Blocks
  <2>3. v = c[request[t].lo + 1 - 1]
    BY <1>3, <2>1 DEF SliceOf
  <2> HIDE DEF c, v, k, i, w
  <2>4. v = c[TapBlock(k, i, w)]
    BY <2>1, <2>2, <2>3
  <2> QED BY <2>4, <1>5
<1>7. words'[t] = Append(w, v) /\ words' \in [Threads -> Seq(Values)]
  BY <1>1, <1>2, <1>4, <1>6 DEF TypeOK
<1>8. TypeOK'
  <2>1. Len(Append(w, v)) = Len(w) + 1 /\ Len(w) \in Nat
    BY <1>4
  <2>2. \A u \in Threads : Len(words'[u]) <= GetItemTaps
    <3> SUFFICES ASSUME NEW u \in Threads PROVE Len(words'[u]) <= GetItemTaps
      OBVIOUS
    <3>1. CASE u = t
      BY <3>1, <2>1, <1>3, <1>7, ConstantsTyped
    <3>2. CASE u # t
      BY <3>2, <1>1, <1>2 DEF TypeOK
    <3> QED BY <3>1, <3>2
  <2> QED BY <1>1, <1>2, <1>7, <2>2 DEF TypeOK
<1>9. DomainsInv' /\ ItemMemoFaithful'
  BY <1>1, <1>2 DEF DomainsInv, ItemMemoFaithful
<1>10. CallInv(t)'
  <2>1. TapsFrom(c, k, i, Append(w, v))
    BY <1>3, <1>4, <1>6, TapExtends
  <2>2. \A j : Source(t, j)' = Source(t, j) /\ (Overridden(t, j)' <=> Overridden(t, j))
    BY <1>2 DEF Source, Cache!Source, Overridden
  <2>3. phase'[t] = "idle"
    BY <1>1, <1>2 DEF DomainsInv
  <2>4. TapsFrom(Source(t, job[t].key), job[t].key, job[t].index, words[t])'
    BY <1>2, <1>7, <2>1, <2>2 DEF TapsFrom, Before
  <2>5. TapsInv(t)'
    BY <1>2, <1>3, <2>2, <2>3, <2>4 DEF TapsInv
  <2> QED BY <1>1, <1>2, <2>2, <2>3, <2>5 DEF CallInv
<1>11. ASSUME NEW u \in Threads, u # t PROVE CallInv(u)'
  BY <1>2, <1>11, Undisturbed DEF IInv
<1> QED BY <1>8, <1>9, <1>10, <1>11 DEF IInv

\* A finished derivation is an item of its source; stored, of the generated cache.
LEMMA MixStep ==
  ASSUME IInv, NEW t \in Threads, Mix(t)
  PROVE  IInv'
<1> DEFINE k == job[t].key  i == job[t].index
           v == [key |-> k, index |-> i, words |-> words[t]]
<1>1. TypeOK /\ DomainsInv /\ ItemMemoFaithful /\ CallInv(t)
  BY DEF IInv
<1>2. /\ gpc[t] = "taps" /\ phase[t] = "idle" /\ Len(words[t]) = GetItemTaps
      /\ items' = IF job[t].use_memo THEN [items EXCEPT !.map = Emplaced(@, i, v)] ELSE items
      /\ item' = [item EXCEPT ![t] = v]
      /\ gpc' = [gpc EXCEPT ![t] = "returned"]
      /\ UNCHANGED <<cacheVars, job, words>>
  BY DEF Mix, StoreWhen
<1>3. TapsInv(t) /\ k \in Keys /\ i \in Indices /\ v \in Items
  BY <1>1, <1>2 DEF CallInv, TypeOK, Items
<1>4. IsItem(v, Source(t, k), k, i)
  BY <1>2, <1>3 DEF IsItem, TapsInv
<1> HIDE DEF v
<1>5. /\ items' \in [init : BOOLEAN, key : Keys, map : {items'.map}]
      /\ \E S \in SUBSET Indices : items'.map \in [S -> Items]
      /\ items'.init = items.init /\ items'.key = items.key
      /\ ItemMemoFaithful'
  <2>1. CASE ~job[t].use_memo
    BY <1>1, <1>2, <2>1 DEF TypeOK, ItemMemoFaithful
  <2>2. CASE job[t].use_memo
    <3> DEFINE m == Emplaced(items.map, i, v)
    <3>1. items' = [items EXCEPT !.map = m]
      BY <1>2, <2>2
    <3>2. PICK S \in SUBSET Indices : items.map \in [S -> Items]
      BY <1>1 DEF TypeOK
    <3>3. /\ DOMAIN m = S \union {i} /\ m \in [S \union {i} -> Items]
          /\ \A j \in S : m[j] = items.map[j]
          /\ i \notin S => m[i] = v
      BY <3>2, <1>3 DEF Emplaced
    <3> HIDE DEF m
    <3>4. items'.init = items.init /\ items'.key = items.key /\ items'.map = m
          /\ items' \in [init : BOOLEAN, key : Keys, map : {items'.map}]
      BY <1>1, <3>1 DEF TypeOK
    <3>5. items.init /\ items.key = k /\ i < ItemCount[k.profile] /\ Source(t, k) = Gen[k]
      BY <2>2, <1>3, SourceIs DEF TapsInv
    <3>6. ItemMemoFaithful'
      <4> SUFFICES ASSUME NEW j \in S \union {i}
                   PROVE  /\ items.init /\ j < ItemCount[items.key.profile]
                          /\ IsItem(m[j], Gen[items.key], items.key, j)
        BY <3>3, <3>4 DEF ItemMemoFaithful
      <4>1. CASE j \in S
        BY <4>1, <1>1, <3>2, <3>3 DEF ItemMemoFaithful
      <4>2. CASE j \notin S
        <5>1. j = i /\ m[j] = v
          BY <4>2, <3>3
        <5> QED BY <5>1, <1>4, <3>5
      <4> QED BY <4>1, <4>2
    <3>7. S \union {i} \in SUBSET Indices
      BY <1>3
    <3> QED BY <3>3, <3>4, <3>6, <3>7
  <2> QED BY <2>1, <2>2
<1>6. TypeOK'
  BY <1>1, <1>2, <1>3, <1>5 DEF TypeOK
<1>7. DomainsInv'
  BY <1>1, <1>2 DEF DomainsInv, cacheVars
<1>8. CallInv(t)'
  <2>1. \A j : Source(t, j)' = Source(t, j)
    BY <1>2 DEF Source, Cache!Source, cacheVars
  <2>2. gpc'[t] = "returned" /\ item'[t] = v /\ phase'[t] = "idle"
    BY <1>1, <1>2 DEF TypeOK, cacheVars
  <2>3. IsItem(item[t], Source(t, job[t].key), job[t].key, job[t].index)'
    BY <1>2, <1>4, <2>1, <2>2 DEF IsItem, TapsFrom
  <2> QED BY <1>1, <2>1, <2>2, <2>3 DEF CallInv
<1>9. ASSUME NEW u \in Threads, u # t PROVE CallInv(u)'
  BY <1>2, <1>5, <1>9, Undisturbed DEF IInv, cacheVars
<1> QED BY <1>5, <1>6, <1>7, <1>8, <1>9 DEF IInv

LEMMA LeaveStep ==
  ASSUME IInv, NEW t \in Threads, ItemOutOfMemory(t) \/ Return(t)
  PROVE  IInv'
<1>1. TypeOK /\ DomainsInv /\ ItemMemoFaithful /\ CallInv(t)
  BY DEF IInv
<1>2. /\ phase[t] = "idle" /\ UNCHANGED <<cacheVars, items>>
      /\ \/ gpc' = [gpc EXCEPT ![t] = "threw"] /\ UNCHANGED <<job, words, item>>
         \/ /\ gpc' = [gpc EXCEPT ![t] = "idle"]
            /\ job' = [job EXCEPT ![t] = NoJob]
            /\ words' = [words EXCEPT ![t] = <<>>]
            /\ item' = [item EXCEPT ![t] = NoItem]
  BY <1>1 DEF ItemOutOfMemory, Return, CallInv
<1>3. NoItem \in Items /\ NoJob \in [key : Keys, index : Indices, use_memo : BOOLEAN]
      /\ <<>> \in Seq(Values) /\ Len(<<>>) = 0 /\ 0 <= GetItemTaps
  <2>1. <<>> \in Seq(Values) /\ Len(<<>>) = 0
    OBVIOUS
  <2> QED BY <2>1, ConstantsTyped DEF NoItem, NoJob, Items
<1>4. TypeOK'
  <2>1. gpc' \in [Threads -> {"idle", "taps", "returned", "threw"}]
    BY <1>1, <1>2 DEF TypeOK
  <2>2. job' \in [Threads -> [key : Keys, index : Indices, use_memo : BOOLEAN]]
        /\ words' \in [Threads -> Seq(Values)] /\ item' \in [Threads -> Items]
    <3>1. CASE UNCHANGED <<job, words, item>>
      BY <3>1, <1>1 DEF TypeOK
    <3>2. CASE /\ job' = [job EXCEPT ![t] = NoJob] /\ words' = [words EXCEPT ![t] = <<>>]
               /\ item' = [item EXCEPT ![t] = NoItem]
      <4>1. job' \in [Threads -> [key : Keys, index : Indices, use_memo : BOOLEAN]]
        BY <3>2, <1>1, <1>3 DEF TypeOK
      <4>2. words' \in [Threads -> Seq(Values)]
        BY <3>2, <1>1, <1>3 DEF TypeOK
      <4>3. item' \in [Threads -> Items]
        BY <3>2, <1>1, <1>3 DEF TypeOK
      <4> QED BY <4>1, <4>2, <4>3
    <3> QED BY <1>2, <3>1, <3>2
  <2>3. ASSUME NEW u \in Threads PROVE Len(words'[u]) <= GetItemTaps
    <3>1. words'[u] = words[u] \/ words'[u] = <<>>
      BY <1>1, <1>2 DEF TypeOK
    <3>2. Len(words[u]) <= GetItemTaps
      BY <1>1 DEF TypeOK
    <3>3. CASE words'[u] = <<>>
      BY <3>3, <1>3
    <3> QED BY <3>1, <3>2, <3>3
  <2> QED BY <1>1, <1>2, <2>1, <2>2, <2>3 DEF TypeOK
<1>5. DomainsInv' /\ ItemMemoFaithful'
  BY <1>1, <1>2 DEF DomainsInv, ItemMemoFaithful, cacheVars
<1>6. CallInv(t)'
  <2>1. \A j : Source(t, j)' = Source(t, j)
    BY <1>2 DEF Source, Cache!Source, cacheVars
  <2>2. gpc'[t] = "threw" \/ (gpc'[t] = "idle" /\ words'[t] = <<>>)
    BY <1>1, <1>2 DEF TypeOK
  <2>3. phase'[t] = "idle"
    BY <1>2 DEF cacheVars
  <2> QED BY <1>1, <2>1, <2>2, <2>3 DEF CallInv
<1>7. ASSUME NEW u \in Threads, u # t PROVE CallInv(u)'
  <2>1. gpc'[u] = gpc[u] /\ job'[u] = job[u] /\ words'[u] = words[u] /\ item'[u] = item[u]
    BY <1>1, <1>2, <1>7 DEF TypeOK
  <2> QED BY <1>2, <2>1, <1>7, Undisturbed DEF IInv, cacheVars
<1> QED BY <1>4, <1>5, <1>6, <1>7 DEF IInv

\* An override comes and goes between calls only.
LEMMA ScopeStep ==
  ASSUME IInv, NEW t \in Threads, Scope(t)
  PROVE  IInv'
<1>1. TypeOK /\ DomainsInv /\ ItemMemoFaithful /\ CallInv(t)
  BY DEF IInv
<1>2. /\ gpc[t] \in {"idle", "threw"}
      /\ UNCHANGED <<phase, request, answer, items, callVars>>
      /\ \/ installed' = [installed EXCEPT ![t] = {}]
         \/ \E k \in Keys : \E c \in Supplied[k] :
              installed' = [installed EXCEPT ![t] = {[key |-> k, cache |-> c]}]
  BY DEF Scope, Cache!Install, Cache!Remove
<1>3. TypeOK' /\ DomainsInv' /\ ItemMemoFaithful'
  BY <1>1, <1>2 DEF TypeOK, DomainsInv, ItemMemoFaithful, callVars
<1>4. CallInv(t)'
  <2>1. ASSUME NEW j \in Keys PROVE Source(t, j)' \in [Blocks(j) -> Values]
    <3>1. CASE installed' = [installed EXCEPT ![t] = {}]
      <4>1. installed'[t] = {}
        BY <3>1, <1>1 DEF DomainsInv
      <4>2. Source(t, j)' = Gen[j]
        BY <4>1 DEF Source, Cache!Source
      <4> QED BY <4>2, ConstantsTyped
    <3>2. ASSUME NEW k \in Keys, NEW c \in Supplied[k],
                 installed' = [installed EXCEPT ![t] = {[key |-> k, cache |-> c]}]
          PROVE  Source(t, j)' \in [Blocks(j) -> Values]
      <4>1. installed'[t] = {[key |-> k, cache |-> c]}
        BY <3>2, <1>1 DEF DomainsInv
      <4>2. CASE j = k
        <5> DEFINE r == CHOOSE o \in installed'[t] : o.key = j
        <5>1. r = [key |-> k, cache |-> c]
          BY <4>1, <4>2
        <5>2. \E o \in installed'[t] : o.key = j
          BY <4>1, <4>2
        <5>3. Source(t, j)' = r.cache
          BY <5>2 DEF Source, Cache!Source
        <5> HIDE DEF r
        <5>4. Source(t, j)' = c
          BY <5>1, <5>3
        <5> QED BY <5>4, <4>2, <3>2, ConstantsTyped
      <4>3. CASE j # k
        <5>1. ~ \E o \in installed'[t] : o.key = j
          BY <4>1, <4>3
        <5>2. Source(t, j)' = Gen[j]
          BY <5>1 DEF Source, Cache!Source
        <5> QED BY <5>2, ConstantsTyped
      <4> QED BY <4>2, <4>3
    <3> QED BY <1>2, <3>1, <3>2
  <2> QED BY <1>1, <1>2, <2>1 DEF CallInv, callVars
<1>5. ASSUME NEW u \in Threads, u # t PROVE CallInv(u)'
  <2>1. installed'[u] = installed[u]
    BY <1>1, <1>2, <1>5 DEF DomainsInv
  <2> QED BY <1>2, <2>1, Undisturbed DEF IInv, callVars
<1> QED BY <1>3, <1>4, <1>5 DEF IInv

LEMMA Inductive == ASSUME SoleMiner, IInv, [Next]_vars PROVE IInv'
<1>1. ASSUME NEW t \in Threads,
             \/ GetItem(t) \/ TapRequest(t) \/ TapAnswer(t) \/ TapTake(t)
             \/ Mix(t) \/ ItemOutOfMemory(t) \/ Return(t) \/ Scope(t)
      PROVE  IInv'
  BY <1>1, GetItemStep, TapRequestStep, TapAnswerStep, TapTakeStep, MixStep, LeaveStep, ScopeStep
<1>2. CASE UNCHANGED vars
  <2>1. TypeOK' /\ DomainsInv' /\ ItemMemoFaithful'
    BY <1>2 DEF vars, IInv, TypeOK, DomainsInv, ItemMemoFaithful
  <2>2. ASSUME NEW u \in Threads PROVE CallInv(u)'
    BY <1>2, Undisturbed DEF vars, IInv
  <2> QED BY <2>1, <2>2 DEF IInv
<1> QED BY <1>1, <1>2 DEF Next

----------------------------------------------------------------------------
(* Theorems *)

\* With at most one thread off its override, the memo holds items of its key
\* only, all of them derived from the generated cache.
THEOREM ItemMemoIsFaithful == ASSUME SoleMiner PROVE Spec => []ItemMemoFaithful
<1>1. IInv /\ [Next]_vars => IInv'
  BY Inductive
<1>2. IInv => ItemMemoFaithful
  BY DEF IInv
<1> QED BY <1>1, <1>2, Initially, PTL DEF Spec

\* With at most one thread off its override, every item returned is the one of
\* the cache in force: the supplied one under an override, the generated one
\* otherwise.
THEOREM ItemsAreFaithful == ASSUME SoleMiner PROVE Spec => []ItemFaithful
<1>1. IInv /\ [Next]_vars => IInv'
  BY Inductive
<1>2. IInv => ItemFaithful
  BY DEF IInv, CallInv, ItemFaithful, Source
<1> QED BY <1>1, <1>2, Initially, PTL DEF Spec

\* Within an epoch the memo only gains items: emplace keeps an entry that is
\* there, and only another key clears it.
THEOREM ItemMemoOnlyGrows == ASSUME SoleMiner PROVE Spec => ItemMemoGrows
<1>1. IInv /\ [Next]_vars => IInv'
  BY Inductive
<1>2. ASSUME IInv, [Next]_vars, items.init, items'.key = items.key, NEW i \in DOMAIN items.map
      PROVE  i \in DOMAIN items'.map /\ items'.map[i] = items.map[i]
  <2>1. ASSUME NEW t \in Threads, GetItem(t) PROVE items' = items
    <3>1. PICK k \in Keys : items' = items \/ items' = Rekeyed(k)
      BY <2>1 DEF GetItem, Enter
    <3> QED BY <1>2, <3>1 DEF Rekeyed
  <2>2. ASSUME NEW t \in Threads, Mix(t)
        PROVE  i \in DOMAIN items'.map /\ items'.map[i] = items.map[i]
    <3>1. PICK j, v : items' = items \/ items' = [items EXCEPT !.map = Emplaced(@, j, v)]
      BY <2>2 DEF Mix, StoreWhen
    <3>2. items \in [init : BOOLEAN, key : Keys, map : {items.map}]
      BY <1>2 DEF IInv, TypeOK
    <3>3. items'.map = items.map \/ items'.map = Emplaced(items.map, j, v)
      BY <3>1, <3>2
    <3> QED BY <1>2, <3>3 DEF Emplaced
  <2>3. ASSUME NEW t \in Threads,
               \/ TapRequest(t) \/ TapAnswer(t) \/ TapTake(t)
               \/ ItemOutOfMemory(t) \/ Return(t) \/ Scope(t)
        PROVE  items' = items
    BY <2>3 DEF TapRequest, TapAnswer, TapTake, ItemOutOfMemory, Return, Scope
  <2>4. CASE UNCHANGED vars
    BY <2>4, <1>2 DEF vars
  <2> QED BY <1>2, <2>1, <2>2, <2>3, <2>4 DEF Next
<1>3. IInv /\ [Next]_vars =>
        [items.init /\ items'.key = items.key =>
           \A i \in DOMAIN items.map : i \in DOMAIN items'.map /\ items'.map[i] = items.map[i]]_vars
  BY <1>2
<1> QED BY <1>1, <1>3, Initially, PTL DEF Spec, ItemMemoGrows

\* Every state has its type.
THEOREM TypeCorrect == ASSUME SoleMiner PROVE Spec => []TypeOK
<1>1. IInv /\ [Next]_vars => IInv'
  BY Inductive
<1>2. IInv => TypeOK
  BY DEF IInv
<1> QED BY <1>1, <1>2, Initially, PTL DEF Spec

----------------------------------------------------------------------------
(* Calls under an override *)

\* A derivation that will store was entered off the override, and scopes come and
\* go between calls only.
Spared ==
  /\ DOMAIN gpc = Threads /\ DOMAIN job = Threads /\ DOMAIN installed = Threads
  /\ \A t \in Threads : gpc[t] = "taps" /\ job[t].use_memo => ~Overridden(t, job[t].key)

LEMMA InitiallySpared == Init => Spared
  BY DEF Init, Cache!Init, Spared

LEMMA StaysSpared == ASSUME Spared, [Next]_vars PROVE Spared'
<1>1. ASSUME NEW t \in Threads, GetItem(t) PROVE Spared'
  <2>1. PICK k \in Keys, i \in Indices : Enter(t, k, i, ~Overridden(t, k))
    BY <1>1 DEF GetItem
  <2>2. job' = [job EXCEPT ![t] = [key |-> k, index |-> i, use_memo |-> ~Overridden(t, k)]]
    BY <2>1 DEF Enter
  <2>3. installed' = installed /\ \E x : gpc' = [gpc EXCEPT ![t] = x]
    BY <2>1 DEF Enter, cacheVars
  <2>4. \A u, l : Overridden(u, l)' <=> Overridden(u, l)
    BY <2>3 DEF Overridden
  <2>5. ASSUME NEW u \in Threads, gpc'[u] = "taps", job'[u].use_memo PROVE ~Overridden(u, job'[u].key)
    <3>1. CASE u = t
      BY <2>2, <2>5, <3>1 DEF Spared
    <3>2. CASE u # t
      BY <2>2, <2>3, <2>5, <3>2 DEF Spared
    <3> QED BY <3>1, <3>2
  <2> QED BY <2>2, <2>3, <2>4, <2>5 DEF Spared
<1>2. ASSUME NEW t \in Threads, TapRequest(t) \/ TapAnswer(t) \/ TapTake(t) PROVE Spared'
  BY <1>2 DEF TapRequest, TapAnswer, TapTake, Cache!RequestOf, Cache!Answer, Cache!Finish,
              callVars, Spared, Overridden
<1>3. ASSUME NEW t \in Threads, Mix(t) \/ ItemOutOfMemory(t) \/ Return(t) PROVE Spared'
  <2>1. installed' = installed /\ DOMAIN gpc' = Threads /\ DOMAIN job' = Threads
    BY <1>3 DEF Mix, StoreWhen, ItemOutOfMemory, Return, cacheVars, Spared
  <2>2. \A u \in Threads : gpc'[u] = "taps" => gpc[u] = "taps" /\ job'[u] = job[u]
    BY <1>3 DEF Mix, StoreWhen, ItemOutOfMemory, Return, Spared
  <2> QED BY <2>1, <2>2 DEF Spared, Overridden
<1>4. ASSUME NEW t \in Threads, Scope(t) PROVE Spared'
  <2>1. gpc' = gpc /\ job' = job /\ gpc[t] # "taps"
    BY <1>4 DEF Scope, callVars
  <2>2. DOMAIN installed' = Threads /\ \A u \in Threads : u # t => installed'[u] = installed[u]
    BY <1>4 DEF Scope, Cache!Install, Cache!Remove, Spared
  <2> QED BY <2>1, <2>2 DEF Spared, Overridden
<1>5. CASE UNCHANGED vars
  BY <1>5 DEF vars, Spared, Overridden
<1> QED BY <1>1, <1>2, <1>3, <1>4, <1>5 DEF Next

\* With any number of threads on the memo, a call under an override leaves it alone.
THEOREM OverrideLeavesTheItems == Spec => OverrideLeavesItems
<1>1. Spared /\ [Next]_vars => Spared'
  BY StaysSpared
<1>2. ASSUME Spared, [Next]_vars, NEW t \in Threads,
             gpc'[t] # gpc[t], Overridden(t, job'[t].key)
      PROVE  items' = items
  <2>1. ASSUME NEW u \in Threads, GetItem(u) PROVE items' = items
    <3>1. PICK k \in Keys, i \in Indices : Enter(u, k, i, ~Overridden(u, k))
      BY <2>1 DEF GetItem
    <3>2. u = t /\ job'[u].key = k
      BY <1>2, <3>1 DEF Enter, Spared
    <3> QED BY <1>2, <3>1, <3>2 DEF Enter
  <2>2. ASSUME NEW u \in Threads, Mix(u) PROVE items' = items
    <3>1. u = t /\ job' = job /\ gpc[t] = "taps"
      BY <1>2, <2>2 DEF Mix, StoreWhen, Spared
    <3>2. ~job[t].use_memo
      BY <1>2, <3>1 DEF Spared
    <3> QED BY <2>2, <3>1, <3>2 DEF Mix, StoreWhen
  <2>3. ASSUME NEW u \in Threads,
               \/ TapRequest(u) \/ TapAnswer(u) \/ TapTake(u)
               \/ ItemOutOfMemory(u) \/ Return(u) \/ Scope(u)
        PROVE  items' = items
    BY <2>3 DEF TapRequest, TapAnswer, TapTake, ItemOutOfMemory, Return, Scope
  <2>4. CASE UNCHANGED vars
    BY <2>4 DEF vars
  <2> QED BY <1>2, <2>1, <2>2, <2>3, <2>4 DEF Next
<1>3. Spared /\ [Next]_vars =>
        [\A t \in Threads : gpc'[t] # gpc[t] /\ Overridden(t, job'[t].key) => items' = items]_vars
  BY <1>2
<1> QED BY <1>1, <1>3, InitiallySpared, PTL DEF Spec, OverrideLeavesItems
=============================================================================
