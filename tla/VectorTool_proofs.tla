------------------------- MODULE VectorTool_proofs -------------------------
(***************************************************************************)
(* For every number of documents in one process, every place a round may   *)
(* use and every hash a replay may have: the documents are complete, and   *)
(* each vector is a function of its case alone.                            *)
(***************************************************************************)
EXTENDS VectorTool, Bytes_proofs, SequenceTheorems, FiniteSetTheorems, TLAPS

-----------------------------------------------------------------------------
(* The cases and their places. *)

Presets == {"smoke", "canonical"}

\* The places of a document: those of a section lie after those of the ones before it.
LEMMA CasesAre ==
  ASSUME NEW p \in Presets, NEW s \in 1 .. 8
  PROVE  /\ CasesOf(p)[s] \in 1 .. 5 /\ Before(p)[s] \in 0 .. 27 /\ Before(p)[9] \in 8 .. 32
         /\ Before(p)[s + 1] = Before(p)[s] + CasesOf(p)[s]
         /\ Before(p)[s] + CasesOf(p)[s] <= Before(p)[9]
         /\ s = 8 => Before(p)[s] + CasesOf(p)[s] = Before(p)[9]
<1>1. CASE p = "smoke" BY <1>1, SMT DEF CasesOf, Before
<1>2. CASE p = "canonical" BY <1>2, SMT DEF CasesOf, Before
<1> QED BY <1>1, <1>2 DEF Presets

\* A section ends before a later one begins.
LEMMA SectionsAre ==
  ASSUME NEW p \in Presets, NEW s \in 1 .. 8, NEW t \in 1 .. 8, s < t
  PROVE  Before(p)[s] + CasesOf(p)[s] <= Before(p)[t]
<1>1. CASE p = "smoke" BY <1>1, SMT DEF CasesOf, Before
<1>2. CASE p = "canonical" BY <1>2, SMT DEF CasesOf, Before
<1> QED BY <1>1, <1>2 DEF Presets

\* The code's own count of the cases is that of CasesOf.
LEMMA CountIs == Count = <<4, 4, 3, 5, 3, 3, 5, 5>>
<1>1. Len(SeedCases) = 4 BY SMT DEF SeedCases
<1>2. Len(HeaderCases) = 4 BY SMT DEF HeaderCases
<1>3. Len(CacheCases) = 3 BY SMT DEF CacheCases
<1>4. Len(ItemCases) = 5 BY SMT DEF ItemCases
<1>5. Len(ScratchCases) = 3 BY SMT DEF ScratchCases
<1>6. Len(RoundCases) = 3 BY SMT DEF RoundCases
<1>7. Len(ReplayCases) = 5 BY SMT DEF ReplayCases
<1> QED BY <1>1, <1>2, <1>3, <1>4, <1>5, <1>6, <1>7 DEF Count

-----------------------------------------------------------------------------
(* The headers of TV-002. *)

\* What a digest covers.
CoveredFields ==
  {"version", "height", "timestamp", "bits", "previous_block_hash", "transactions_root", "state_root"}
Fields == CoveredFields \union {"nonce", "pow_result"}
IsHeader(h) == h = [f \in Fields |-> h[f]]

\* A header with another timestamp.
LEMMA Restamped ==
  ASSUME NEW g, IsHeader(g), NEW a, NEW h, h = [g EXCEPT !.timestamp = a]
  PROVE  DOMAIN h = Fields /\ h.timestamp = a
<1>1. "timestamp" \in Fields
  BY DEF Fields, CoveredFields
<1> QED BY <1>1 DEF IsHeader

\* A header with another nonce.
LEMMA Renonced ==
  ASSUME NEW g, IsHeader(g), NEW a, NEW h, h = [g EXCEPT !.nonce = a]
  PROVE  IsHeader(h) /\ \A f \in CoveredFields : h[f] = g[f]
<1>1. \A f \in CoveredFields : f \in Fields /\ f # "nonce"
  BY DEF Fields, CoveredFields
<1> QED BY <1>1 DEF IsHeader

\* A header with another result.
LEMMA Reresulted ==
  ASSUME NEW g, IsHeader(g), NEW a, NEW h, h = [g EXCEPT !.pow_result = a]
  PROVE  IsHeader(h) /\ \A f \in CoveredFields : h[f] = g[f]
<1>1. \A f \in CoveredFields : f \in Fields /\ f # "pow_result"
  BY DEF Fields, CoveredFields
<1> QED BY <1>1 DEF IsHeader

\* The first four headers of TV-002, by what their digests cover.
LEMMA HeadersAre ==
  /\ \A n \in 1 .. 4 : Covered(HeaderCases[n]) = [f \in CoveredFields |-> HeaderCases[n][f]]
  /\ \A f \in CoveredFields : HeaderCases[4][f] = HeaderCases[2][f]
  /\ HeaderCases[1].timestamp = 0 /\ HeaderCases[2].timestamp = 1717171717
  /\ HeaderCases[3].timestamp = 1717171718
<1>1. DOMAIN Minimal = Fields /\ Minimal.timestamp = 0
  BY SMT DEF Minimal, Header, CoveredFields, Fields
<1>2. IsHeader(Nontrivial)
  BY SMT DEF IsHeader, Nontrivial, Header, CoveredFields, Fields
<1>3. Nontrivial.timestamp = 1717171717
  BY SMT DEF Nontrivial, Header, CoveredFields, Fields
<1>4. /\ HeaderCases[1] = Minimal /\ HeaderCases[2] = Nontrivial
      /\ HeaderCases[3] = [Nontrivial EXCEPT !.timestamp = Nontrivial.timestamp + 1]
      /\ HeaderCases[4] = [Nontrivial EXCEPT !.nonce = 99, !.pow_result = \ha0]
  BY SMT DEF HeaderCases
<1>5. /\ DOMAIN HeaderCases[3] = Fields /\ HeaderCases[3].timestamp = Nontrivial.timestamp + 1
      /\ DOMAIN HeaderCases[4] = Fields /\ \A f \in CoveredFields : HeaderCases[4][f] = Nontrivial[f]
  <2> DEFINE e == Nontrivial.timestamp + 1  n == 99  r == \ha0  h(m) == HeaderCases[m]
             i == [Nontrivial EXCEPT !.nonce = n]
  <2>1. h(3) = [Nontrivial EXCEPT !.timestamp = e] /\ h(4) = [i EXCEPT !.pow_result = r]
    BY <1>4
  <2>2. i = [Nontrivial EXCEPT !.nonce = n]
    OBVIOUS
  <2> HIDE DEF e, n, r, h, i
  <2>3. DOMAIN h(3) = Fields /\ h(3).timestamp = e
    BY <1>2, <2>1, Restamped, Zenon
  <2>4. IsHeader(i) /\ \A f \in CoveredFields : i[f] = Nontrivial[f]
    BY <1>2, <2>2, Renonced, SMT
  <2>5. IsHeader(h(4)) /\ \A f \in CoveredFields : h(4)[f] = i[f]
    BY <2>4, <2>1, Reresulted, SMT
  <2>6. DOMAIN h(4) = Fields
    BY <2>5 DEF IsHeader
  <2> QED BY <2>3, <2>4, <2>5, <2>6 DEF e, h
<1>6. DOMAIN HeaderCases[1] = Fields /\ DOMAIN HeaderCases[2] = Fields
  BY <1>1, <1>2, <1>4, SMT DEF IsHeader
<1>7. \A n \in 1 .. 4 : DOMAIN HeaderCases[n] = Fields
  BY <1>5, <1>6, SMT
<1>8. Fields \ {"nonce", "pow_result"} = CoveredFields
  BY SMT DEF CoveredFields, Fields
<1>9. \A n \in 1 .. 4 : Covered(HeaderCases[n]) = [f \in CoveredFields |-> HeaderCases[n][f]]
  BY <1>7, <1>8, SMT DEF Covered
<1>10. HeaderCases[3].timestamp = 1717171718
  BY <1>3, <1>5, SMT
<1>11. HeaderCases[1].timestamp = 0 /\ HeaderCases[2].timestamp = 1717171717
  BY <1>1, <1>3, <1>4, SMT
<1>12. \A f \in CoveredFields : HeaderCases[4][f] = HeaderCases[2][f]
  BY <1>4, <1>5, SMT
<1> QED BY <1>9, <1>10, <1>11, <1>12, SMT

\* What test_vectors.md:92-93 asks of the digests.
LEMMA DigestsDiffer ==
  /\ Covered(HeaderCases[4]) = Covered(HeaderCases[2])
  /\ Cardinality({Covered(HeaderCases[n]) : n \in 1 .. 3}) = 3
<1> DEFINE D(n) == Covered(HeaderCases[n])
<1>1. D(4) = D(2)
  BY HeadersAre, SMT
<1>2. D(1) # D(2) /\ D(2) # D(3) /\ D(1) # D(3)
  <2>1. \A n \in 1 .. 3 : D(n).timestamp = HeaderCases[n].timestamp
    BY HeadersAre, SMT DEF CoveredFields
  <2> HIDE DEF D
  <2> QED BY <2>1, HeadersAre, SMT
<1>3. {D(n) : n \in 1 .. 3} = ({D(1)} \union {D(2)}) \union {D(3)}
  <2> HIDE DEF D
  <2> QED BY SMT
<1> HIDE DEF D
<1>4. Cardinality({D(1)}) = 1 /\ IsFiniteSet({D(1)}) BY FS_Singleton
<1>5. Cardinality({D(1)} \union {D(2)}) = 2 /\ IsFiniteSet({D(1)} \union {D(2)}) BY <1>2, <1>4, FS_AddElement
<1>6. Cardinality({D(n) : n \in 1 .. 3}) = 3 BY <1>2, <1>3, <1>5, FS_AddElement
<1> QED BY <1>1, <1>6 DEF D

-----------------------------------------------------------------------------
(* Sequences of vectors. *)

\* s is a sequence, of whatever it has.
IsSeq(s) == s \in Seq(Range(s))

\* Its places.
LEMMA SeqIs == ASSUME NEW s, IsSeq(s) PROVE Len(s) \in Nat /\ DOMAIN s = 1 .. Len(s)
  BY DEF IsSeq

\* A document without vectors.
LEMMA EmptyIs == IsSeq(<<>>) /\ Range(<<>>) = {} /\ Len(<<>>) = 0
<1>1. Range(<<>>) = {}
  BY DEF Range
<1> QED BY <1>1 DEF IsSeq

\* A document with one more vector.
LEMMA AppendIs ==
  ASSUME NEW s, IsSeq(s), NEW x
  PROVE  /\ IsSeq(Append(s, x)) /\ Range(Append(s, x)) = Range(s) \union {x}
         /\ Len(Append(s, x)) = Len(s) + 1 /\ Append(s, x)[Len(s) + 1] = x
         /\ \A n \in 1 .. Len(s) : Append(s, x)[n] = s[n]
<1> DEFINE T == Range(s) \union {x}  t == Append(s, x)
<1>1. s \in Seq(T) /\ x \in T /\ Len(s) \in Nat
  <2>1. s \in Seq(Range(s)) BY DEF IsSeq
  <2> DEFINE R == Range(s)
  <2> HIDE DEF R
  <2>2. R \subseteq R \union {x} /\ s \in Seq(R) /\ s \in Seq(R \union {x}) /\ Len(s) \in Nat
    BY <2>1 DEF R
  <2> QED BY <2>2 DEF R
<1> HIDE DEF T
<1>2. /\ t \in Seq(T) /\ Len(t) = Len(s) + 1 /\ t[Len(s) + 1] = x
      /\ \A n \in 1 .. Len(s) : t[n] = s[n]
  BY <1>1
<1>3. DOMAIN t = 1 .. Len(s) + 1 /\ DOMAIN s = 1 .. Len(s)
  BY <1>1, <1>2
<1> HIDE DEF t
<1>4. Range(t) = Range(s) \union {x}
  <2>1. ASSUME NEW y \in Range(t) PROVE y \in Range(s) \union {x}
    <3>1. PICK n \in 1 .. Len(s) + 1 : y = t[n]
      BY <1>3, <2>1 DEF Range
    <3>2. n \in 1 .. Len(s) \/ n = Len(s) + 1
      BY <1>1
    <3> QED BY <1>2, <1>3, <3>1, <3>2 DEF Range
  <2>2. Range(s) \subseteq Range(t)
    <3>1. 1 .. Len(s) \subseteq 1 .. Len(s) + 1
      BY <1>1
    <3> QED BY <1>2, <1>3, <3>1 DEF Range
  <2>3. x \in Range(t)
    <3>1. Len(s) + 1 \in 1 .. Len(s) + 1
      BY <1>1
    <3> QED BY <1>2, <1>3, <3>1 DEF Range
  <2> QED BY <2>1, <2>2, <2>3
<1>5. t \in Seq(Range(t))
  BY <1>2, <1>4 DEF T
<1> QED BY <1>2, <1>4, <1>5 DEF IsSeq, t

\* Different cases have different places.
LEMMA Placed ==
  ASSUME NEW p \in Presets, NEW s \in 1 .. 8, NEW c \in 1 .. CasesOf(p)[s],
         NEW t \in 1 .. 8, NEW d \in 1 .. CasesOf(p)[t],
         Before(p)[s] + c = Before(p)[t] + d
  PROVE  s = t /\ c = d
<1>1. /\ Before(p)[s] \in Int /\ Before(p)[t] \in Int /\ CasesOf(p)[s] \in Int /\ CasesOf(p)[t] \in Int
  BY CasesAre
<1>2. ~(s < t)
  <2>1. s < t => Before(p)[s] + CasesOf(p)[s] <= Before(p)[t]
    BY SectionsAre
  <2> QED BY <1>1, <2>1
<1>3. ~(t < s)
  <2>1. t < s => Before(p)[t] + CasesOf(p)[t] <= Before(p)[s]
    BY SectionsAre
  <2> QED BY <1>1, <2>1
<1>4. s = t
  BY <1>2, <1>3
<1> QED BY <1>1, <1>4

\* The code ends a section after the last of its cases.
LEMMA LastCaseIs ==
  ASSUME preset \in Presets, section \in 1 .. 8
  PROVE  LastCase <=> case = CasesOf(preset)[section]
<1>1. CASE preset = "smoke" BY <1>1, SMT DEF LastCase, CasesOf
<1>2. CASE preset = "canonical" BY <1>2, CountIs, SMT DEF LastCase, CasesOf
<1> QED BY <1>1, <1>2 DEF Presets
-----------------------------------------------------------------------------
(* The inductive invariant. *)

\* A vector is a function of its case.
Fresh(v) ==
  LET s == v.id[1]  n == v.id[2] IN
  /\ s = 2 => v.body.digest = Covered(HeaderCases[n])
  /\ s = 3 => v.body = SampleVector(CacheCases[n], CacheCases[n].key, CacheCases[n].key)
  /\ s = 4 => v.body = Item(ItemCases[n].index, ItemCases[n].key)
  /\ s = 6 => v.body = RoundVector(RoundCases[n], [i \in Indices |-> RoundCases[n].lane.key])
  /\ s = 7 => v.body = ReplayVector(n, [i \in Indices |-> ReplayCases[n].key])
  /\ s = 8 => n \in 1 .. 5 /\ v.body = TargetVector(n, powHash[1])

\* The memos hold what they are keyed by.
Faithful ==
  /\ cacheMemo.cache = cacheMemo.key
  /\ \A i \in DOMAIN itemMemo.map : itemMemo.map[i] = itemMemo.key

Chosen == place \in Rounds /\ powHash \in PowHashes

\* Where a document in progress is.
Position ==
  pc = "generating" =>
    /\ section \in 1 .. 8 /\ case \in 1 .. CasesOf(preset)[section]
    /\ Len(doc) = Before(preset)[section] + case - 1
    /\ Len(docs) < MaxDocuments

Documents ==
  /\ IsSeq(doc) /\ IsSeq(docs)
  /\ \A d \in Range(docs) : d.preset \in Presets /\ IsSeq(d.vectors)

\* From TV-007-A on, TV-008 has its hash.
Referenced ==
  pc = "generating" /\ (section = 8 \/ (section = 7 /\ case # 1)) => reference_hash = powHash[1]

AllFresh == \A v \in Vectors : Fresh(v)

ToolInv == TypeOK /\ Faithful /\ Chosen /\ Position /\ Documents /\ Referenced /\ AllFresh

\* What was chosen once and for all.
LEMMA ChosenIs ==
  ASSUME Chosen
  PROVE  /\ place.items \in [1 .. 3 -> Indices] /\ powHash \in [1 .. 5 -> Hash256]
         /\ Range(place.items) \subseteq Indices
         /\ \A n \in 1 .. 3 : place.items[n] \in Range(place.items)
<1>1. place \in [read0 : Units, read1 : Units, write : Units, items : [1 .. 3 -> Indices]]
  BY VectorToolAssumption DEF Chosen
<1>2. powHash \in [1 .. 5 -> Hash256]
  BY VectorToolAssumption DEF Chosen
<1> QED BY <1>1, <1>2 DEF Range

\* The reference hash before the first replay.
LEMMA HashesAre == ZeroHash \in Hash256
<1>1. 0 \in 0 .. Base - 1
  BY BytesAssumption DEF BytesAssumption
<1> QED BY <1>1 DEF ZeroHash, Hash256

\* What a vector is made of stays chosen.
LEMMA FreshStays ==
  ASSUME chosen' = chosen, NEW v, Fresh(v)
  PROVE  Fresh(v)'
<1>1. place' = place /\ powHash' = powHash
  BY DEF chosen
<1>2. ASSUME NEW c, NEW f PROVE RoundVector(c, f)' = RoundVector(c, f)
  BY <1>1 DEF RoundVector, InitialReads, ReadsOf
<1>3. ASSUME NEW n, NEW f PROVE ReplayVector(n, f)' = ReplayVector(n, f)
  BY <1>1 DEF ReplayVector
<1> QED BY <1>1, <1>2, <1>3 DEF Fresh

\* The memo answers with the cache of the key it is asked for.
LEMMA MemoizedIs ==
  ASSUME Faithful, NEW k
  PROVE  Memoized(k).key = k /\ Memoized(k).cache = k
BY DEF Faithful, Memoized, MemoHits

\* Whatever the memos held, the items asked for are those of the key.
LEMMA GetItemsIs ==
  ASSUME Faithful, NEW k, NEW S, GetItems(k, S)
  PROVE  Faithful' /\ \A i \in S : itemMemo'.map[i] = k
<1> DEFINE kept == Kept(k)
<1>1. \A i \in DOMAIN kept : kept[i] = k
  BY DEF Kept, NoItems, Faithful
<1>2. /\ cacheMemo' = IF S \subseteq DOMAIN kept THEN cacheMemo ELSE Memoized(k)
      /\ itemMemo' = [key |-> k, map |-> [i \in DOMAIN kept \union S |->
                                            IF i \in DOMAIN kept THEN kept[i] ELSE cacheMemo'.cache]]
  BY DEF GetItems
<1> HIDE DEF kept
<1>3. cacheMemo'.cache = cacheMemo'.key
  BY <1>2, MemoizedIs DEF Faithful
<1>4. itemMemo'.key = k /\ DOMAIN itemMemo'.map = DOMAIN kept \union S
  BY <1>2
<1>5. ASSUME NEW i \in DOMAIN kept \union S PROVE itemMemo'.map[i] = k
  <2>1. itemMemo'.map[i] = IF i \in DOMAIN kept THEN kept[i] ELSE cacheMemo'.cache
    BY <1>2
  <2>2. CASE i \in DOMAIN kept
    BY <1>1, <2>1, <2>2
  <2>3. CASE i \notin DOMAIN kept
    <3>1. ~(S \subseteq DOMAIN kept)
      BY <2>3
    <3>2. cacheMemo'.cache = k
      BY <1>2, <3>1, MemoizedIs
    <3> QED BY <2>1, <2>3, <3>2
  <2> QED BY <2>2, <2>3
<1> QED BY <1>3, <1>4, <1>5 DEF Faithful

\* The vectors of TV-006 and TV-007 see the items of one key only.
LEMMA OfOneKey ==
  ASSUME Chosen, NEW k, NEW f, \A i \in Range(place.items) : f[i] = k,
         NEW g, g = [i \in Indices |-> k]
  PROVE  /\ \A c : RoundVector(c, f) = RoundVector(c, g)
         /\ \A n : ReplayVector(n, f) = ReplayVector(n, g)
<1>1. \A i \in Range(place.items) : f[i] = g[i]
  BY ChosenIs
<1>2. \A n \in 1 .. 3 : f[place.items[n]] = g[place.items[n]]
  BY <1>1, ChosenIs
<1>3. [n \in 1 .. 3 |-> Item(place.items[n], f[place.items[n]])] =
      [n \in 1 .. 3 |-> Item(place.items[n], g[place.items[n]])]
  BY <1>2
<1>4. {Item(i, f[i]) : i \in Range(place.items)} = {Item(i, g[i]) : i \in Range(place.items)}
  BY <1>1
<1>5. ASSUME NEW c PROVE RoundVector(c, f) = RoundVector(c, g)
  BY <1>3, Zenon DEF RoundVector
<1>6. ASSUME NEW n PROVE ReplayVector(n, f) = ReplayVector(n, g)
  BY <1>4, Zenon DEF ReplayVector
<1> QED BY <1>5, <1>6

-----------------------------------------------------------------------------
(* Steps. *)

\* The parts of the invariant that a vector added to the document can disturb.
Book == TypeOK /\ Chosen /\ Position /\ Documents /\ AllFresh

\* A vector that is fresh keeps the document in order, and all vectors fresh.
LEMMA EmitKeeps ==
  ASSUME Book, pc = "generating", NEW body, Emit(body), Fresh([id |-> <<section, case>>, body |-> body]),
         reference_hash' \in Hash256
  PROVE  Book' /\ (pc' = "generating" => section' = section \/ (section' = section + 1 /\ case' = 1))
<1> DEFINE v == [id |-> <<section, case>>, body |-> body]
           returned == [preset |-> preset, vectors |-> doc']
           B(s) == Before(preset)[s]
           C(s) == CasesOf(preset)[s]
           b == B(section)
           c == C(section)
           all == B(9)
           end == b + case
<1>1. doc' = Append(doc, v) /\ preset' = preset /\ chosen' = chosen
  BY DEF Emit
<1>2. /\ preset \in Presets /\ section \in 1 .. 8 /\ case \in 1 .. c /\ case \in 1 .. 5
      /\ Len(docs) < MaxDocuments /\ Len(doc) = b + case - 1
  BY DEF Book, Position, TypeOK, Presets
<1>3. /\ c \in 1 .. 5 /\ b \in 0 .. 27 /\ all \in 8 .. 32 /\ b + c <= all
      /\ section = 8 => b + c = all
  BY <1>2, CasesAre
<1>4. section # 8 => section + 1 \in 1 .. 8 /\ B(section + 1) = b + c /\ C(section + 1) \in 1 .. 5
  <2>1. section # 8 => section + 1 \in 1 .. 8
    BY <1>2
  <2>2. B(section + 1) = b + c
    BY <1>2, CasesAre
  <2>3. section # 8 => C(section + 1) \in 1 .. 5
    BY <1>2, <2>1, CasesAre
  <2> QED BY <2>1, <2>2, <2>3
<1>5. \A s \in 1 .. 8 : \A d \in 1 .. C(s) : B(s) + d = end => s = section /\ d = case
  BY <1>2, Placed
<1> HIDE DEF B, C, b, c, all
<1>6. Len(doc) + 1 = end /\ Len(doc) = end - 1 /\ end \in Int /\ case \in Int
  BY <1>2, <1>3
<1>7. /\ IsSeq(doc') /\ Range(doc') = Range(doc) \union {v} /\ Len(doc') = end
      /\ doc'[end] = v /\ \A n \in 1 .. end - 1 : doc'[n] = doc[n]
      /\ DOMAIN doc = 1 .. end - 1 /\ DOMAIN doc' = 1 .. end
  <2>1. IsSeq(doc)
    BY DEF Book, Documents
  <2>2. /\ IsSeq(doc') /\ Range(doc') = Range(doc) \union {v} /\ Len(doc') = Len(doc) + 1
        /\ doc'[Len(doc) + 1] = v /\ \A n \in 1 .. Len(doc) : doc'[n] = doc[n]
    <3> HIDE DEF v
    <3> QED BY <1>1, <2>1, AppendIs
  <2>3. DOMAIN doc = 1 .. Len(doc) /\ DOMAIN doc' = 1 .. Len(doc')
    BY <2>1, <2>2, SeqIs
  <2> HIDE DEF v, end
  <2> QED BY <1>6, <2>2, <2>3
<1> HIDE DEF end
<1>8. Ordered(preset, doc')
  <2> SUFFICES ASSUME NEW s \in 1 .. 8, NEW d \in 1 .. C(s), B(s) + d \in DOMAIN doc'
               PROVE  doc'[B(s) + d].id = <<s, d>>
    BY DEF Ordered, B, C
  <2>1. CASE B(s) + d = end
    <3>1. s = section /\ d = case
      BY <1>5, <2>1
    <3> QED BY <1>7, <2>1, <3>1
  <2>2. CASE B(s) + d # end
    <3>1. B(s) + d \in DOMAIN doc
      BY <1>6, <1>7, <2>2
    <3>2. doc[B(s) + d].id = <<s, d>>
      BY <3>1 DEF Book, TypeOK, Ordered, B, C
    <3> QED BY <1>7, <3>1, <3>2
  <2> QED BY <2>1, <2>2
<1>9. LastCase <=> case = c
  BY <1>2, LastCaseIs DEF c, C
<1>10. Documents /\ TypeOK /\ AllFresh /\ Chosen
  BY DEF Book
<1>11. ASSUME Vectors' \subseteq Vectors \union {v} PROVE AllFresh'
  <2>1. \A w \in Vectors \union {v} : Fresh(w)
    BY <1>10 DEF AllFresh
  <2>2. \A w \in Vectors \union {v} : Fresh(w)'
    BY <1>1, <2>1, FreshStays
  <2> QED BY <1>11, <2>2 DEF AllFresh
<1>12. Chosen'
  BY <1>1, <1>10 DEF Chosen, chosen
<1> HIDE DEF v
<1>13. CASE LastCase /\ section = 8
  <2>1. pc' = "idle" /\ docs' = Append(docs, returned) /\ section' = 9 /\ case' = 1
    BY <1>13 DEF Emit
  <2>2. IsSeq(docs') /\ Range(docs') = Range(docs) \union {returned} /\ Len(docs') = Len(docs) + 1
    <3> HIDE DEF returned
    <3> QED BY <1>10, <2>1, AppendIs DEF Documents
  <2>3. Len(doc') = Before(preset)[9]
    BY <1>3, <1>7, <1>9, <1>13 DEF end, all, B
  <2>4. Documents'
    <3>1. returned.preset \in Presets /\ IsSeq(returned.vectors)
      BY <1>2, <1>7
    <3>2. \A d \in Range(docs) : d.preset \in Presets /\ IsSeq(d.vectors)
      BY <1>10 DEF Documents
    <3> HIDE DEF returned
    <3>3. \A d \in Range(docs') : d.preset \in Presets /\ IsSeq(d.vectors)
      BY <2>2, <3>1, <3>2
    <3> QED BY <1>7, <2>2, <3>3 DEF Documents
  <2>5. TypeOK'
    <3>1. \A d \in Range(docs') : Ordered(d.preset, d.vectors) /\ Len(d.vectors) = Before(d.preset)[9]
      BY <1>8, <1>10, <2>2, <2>3 DEF TypeOK
    <3>2. Len(docs') <= MaxDocuments
      <4>1. Len(docs) \in Nat
        BY <1>10, SeqIs DEF Documents
      <4> QED BY <1>2, <2>2, <4>1, VectorToolAssumption
    <3>3. Ordered(preset', doc') /\ Len(doc') <= Before(preset')[9] /\ preset' \in {"smoke", "canonical"}
      BY <1>1, <1>2, <1>3, <1>8, <2>3 DEF Presets, all, B
    <3> QED BY <2>1, <3>1, <3>2, <3>3 DEF TypeOK
  <2>6. Vectors' \subseteq Vectors \union {v}
    BY <1>7, <2>2 DEF Vectors
  <2> QED BY <1>11, <1>12, <2>1, <2>4, <2>5, <2>6 DEF Book, Position
<1>14. CASE ~(LastCase /\ section = 8)
  <2>1. pc' = pc /\ docs' = docs
    BY <1>14 DEF Emit
  <2>2. \/ LastCase /\ section' = section + 1 /\ case' = 1 /\ section # 8
        \/ ~LastCase /\ section' = section /\ case' = case + 1
    BY <1>14 DEF Emit
  <2>3. /\ section' \in 1 .. 8 /\ case' \in 1 .. C(section') /\ case' \in 1 .. 5
        /\ Len(doc') = B(section') + case' - 1 /\ Len(doc') <= all
    <3>1. CASE LastCase /\ section' = section + 1 /\ case' = 1 /\ section # 8
      <4>1. section' \in 1 .. 8 /\ B(section') = b + c /\ C(section') \in 1 .. 5
        BY <1>4, <3>1
      <4>2. end = b + c
        BY <1>9, <3>1 DEF end
      <4> QED BY <1>3, <1>7, <3>1, <4>1, <4>2
    <3>2. CASE ~LastCase /\ section' = section /\ case' = case + 1
      <4>1. case' \in 1 .. c /\ case' \in 1 .. 5 /\ end = b + case' - 1 /\ end <= all
        BY <1>2, <1>3, <1>6, <1>9, <3>2 DEF end
      <4> QED BY <1>2, <1>7, <3>2, <4>1 DEF b, c
    <3> QED BY <2>2, <3>1, <3>2
  <2>4. Position'
    BY <1>1, <1>2, <2>1, <2>3 DEF Position, B, C
  <2>5. Documents'
    BY <1>7, <1>10, <2>1 DEF Documents
  <2>6. TypeOK'
    BY <1>1, <1>2, <1>8, <1>10, <2>1, <2>3 DEF TypeOK, all, B
  <2>7. Vectors' \subseteq Vectors \union {v}
    BY <1>7, <2>1 DEF Vectors
  <2> QED BY <1>11, <1>12, <2>2, <2>4, <2>5, <2>6, <2>7 DEF Book
<1> QED BY <1>13, <1>14

\* Nothing is generated yet.
LEMMA InitKeeps == Init => ToolInv
<1> SUFFICES ASSUME Init PROVE ToolInv
  OBVIOUS
<1>1. Range(doc) = {} /\ Range(docs) = {} /\ Len(doc) = 0 /\ Len(docs) = 0 /\ IsSeq(doc) /\ IsSeq(docs)
  BY EmptyIs DEF Init
<1>2. Vectors = {}
  BY <1>1 DEF Vectors
<1>3. Ordered(preset, doc) /\ 0 <= Before(preset)[9]
  <2>1. DOMAIN doc = {}
    BY <1>1, SeqIs
  <2>2. preset \in Presets
    BY DEF Init, Presets
  <2>3. Before(preset)[9] \in 8 .. 32
    BY <2>2, CasesAre
  <2>4. Ordered(preset, doc)
    BY <2>1, Zenon DEF Ordered
  <2> QED BY <2>3, <2>4
<1>4. TypeOK
  BY <1>1, <1>3, HashesAre, VectorToolAssumption DEF Init, TypeOK
<1>5. Faithful /\ Chosen /\ Position /\ Referenced
  BY DEF Init, Faithful, NoItems, Chosen, Position, Referenced
<1> QED BY <1>1, <1>2, <1>4, <1>5 DEF ToolInv, Documents, AllFresh

\* A new document begins with what the memos and the reference hash still hold.
LEMMA GenerateKeeps == ToolInv /\ Generate => ToolInv'
<1> SUFFICES ASSUME ToolInv, Generate PROVE ToolInv'
  OBVIOUS
<1>1. PICK p \in Presets :
        /\ pc = "idle" /\ Len(docs) < MaxDocuments
        /\ pc' = "generating" /\ preset' = p /\ section' = 1 /\ case' = 1 /\ doc' = <<>>
        /\ UNCHANGED <<docs, cacheMemo, itemMemo, reference_hash, chosen>>
  BY DEF Generate, Presets
<1>2. Range(doc') = {} /\ Len(doc') = 0 /\ IsSeq(doc')
  BY <1>1, EmptyIs
<1>3. Vectors' \subseteq Vectors
  BY <1>1, <1>2 DEF Vectors
<1>4. \A w \in Vectors' : Fresh(w)'
  <2>1. \A w \in Vectors' : Fresh(w)
    BY <1>3 DEF ToolInv, AllFresh
  <2> QED BY <1>1, <2>1, FreshStays
<1>5. /\ Ordered(preset', doc') /\ Len(doc') <= Before(preset')[9]
      /\ 1 \in 1 .. CasesOf(preset')[1] /\ Len(doc') = Before(preset')[1] + 1 - 1
  <2>1. DOMAIN doc' = {}
    BY <1>2, SeqIs
  <2>2. Before(p)[9] \in 8 .. 32 /\ CasesOf(p)[1] \in 1 .. 5
    BY CasesAre
  <2>3. Before(p)[1] = 0
    BY DEF Before
  <2> QED BY <1>1, <1>2, <2>1, <2>2, <2>3 DEF Ordered
<1>6. TypeOK' /\ Position'
  BY <1>1, <1>5 DEF ToolInv, TypeOK, Presets, Position
<1>7. Faithful' /\ Chosen' /\ Documents' /\ Referenced'
  BY <1>1, <1>2 DEF ToolInv, Faithful, Chosen, chosen, Documents, Referenced
<1> QED BY <1>4, <1>6, <1>7 DEF ToolInv, AllFresh

\* A step that emits a fresh vector, keeps the memos faithful and the reference hash.
LEMMA VectorKeeps ==
  ASSUME ToolInv, pc = "generating", NEW body, Emit(body),
         Fresh([id |-> <<section, case>>, body |-> body]), Faithful',
         \/ section # 7 /\ reference_hash' = reference_hash
         \/ section = 7 /\ reference_hash' = IF case = 1 THEN powHash[1] ELSE reference_hash
  PROVE  ToolInv'
<1>1. powHash' = powHash /\ powHash[1] \in Hash256
  BY ChosenIs DEF ToolInv, Emit, chosen
<1>2. reference_hash' \in Hash256
  BY <1>1 DEF ToolInv, TypeOK
<1>3. Book' /\ (pc' = "generating" => section' = section \/ (section' = section + 1 /\ case' = 1))
  BY <1>2, EmitKeeps DEF ToolInv, Book
<1>4. Referenced'
  <2> SUFFICES ASSUME pc' = "generating", section' = 8 \/ (section' = 7 /\ case' # 1)
               PROVE  reference_hash' = powHash[1]
    BY <1>1 DEF Referenced
  <2>1. section \in 1 .. 8
    BY DEF ToolInv, Position
  <2>2. section = 8 \/ section = 7
    BY <1>3, <2>1
  <2>3. (section = 8 \/ case # 1) => reference_hash = powHash[1]
    BY <2>2 DEF ToolInv, Referenced
  <2>4. CASE section = 8
    BY <2>3, <2>4
  <2>5. CASE section = 7
    BY <2>3, <2>5
  <2> QED BY <2>2, <2>4, <2>5
<1> QED BY <1>3, <1>4 DEF ToolInv, Book

\* An epoch seed.
LEMMA Tv001Keeps == ToolInv /\ Tv001 => ToolInv'
<1> SUFFICES ASSUME ToolInv, Tv001 PROVE ToolInv'
  OBVIOUS
<1> DEFINE body == [expected_epoch_seed |-> SeedCases[case]]
<1>1. /\ pc = "generating" /\ section = 1 /\ Emit(body)
      /\ UNCHANGED <<cacheMemo, itemMemo, reference_hash>>
  BY DEF Tv001, At
<1> HIDE DEF body
<1>2. Fresh([id |-> <<section, case>>, body |-> body])
  BY <1>1 DEF Fresh
<1>3. Faithful'
  BY <1>1 DEF ToolInv, Faithful
<1> QED BY <1>1, <1>2, <1>3, VectorKeeps

\* A header digest.
LEMMA Tv002Keeps == ToolInv /\ Tv002 => ToolInv'
<1> SUFFICES ASSUME ToolInv, Tv002 PROVE ToolInv'
  OBVIOUS
<1> DEFINE body == [serialized |-> Covered(HeaderCases[case]), digest |-> Covered(HeaderCases[case])]
<1>1. /\ pc = "generating" /\ section = 2 /\ Emit(body)
      /\ UNCHANGED <<cacheMemo, itemMemo, reference_hash>>
  BY DEF Tv002, At
<1>2. body.digest = Covered(HeaderCases[case])
  OBVIOUS
<1> HIDE DEF body
<1>3. Fresh([id |-> <<section, case>>, body |-> body])
  BY <1>1, <1>2 DEF Fresh
<1>4. Faithful'
  BY <1>1 DEF ToolInv, Faithful
<1> QED BY <1>1, <1>3, <1>4, VectorKeeps

\* The samples of a cache, through the memo.
LEMMA Tv003Keeps == ToolInv /\ Tv003 => ToolInv'
<1> SUFFICES ASSUME ToolInv, Tv003 PROVE ToolInv'
  OBVIOUS
<1> DEFINE k == CacheCases[case].key  body == SampleVector(CacheCases[case], cacheMemo'.cache, k)
<1>1. /\ pc = "generating" /\ section = 3 /\ cacheMemo' = Memoized(k) /\ Emit(body)
      /\ UNCHANGED <<itemMemo, reference_hash>>
  BY DEF Tv003, At
<1>2. cacheMemo'.key = k /\ cacheMemo'.cache = k
  BY <1>1, MemoizedIs DEF ToolInv
<1>3. body = SampleVector(CacheCases[case], CacheCases[case].key, CacheCases[case].key)
  BY <1>2
<1> HIDE DEF body, k
<1>4. Fresh([id |-> <<section, case>>, body |-> body])
  BY <1>1, <1>3 DEF Fresh
<1>5. Faithful'
  BY <1>1, <1>2 DEF ToolInv, Faithful
<1> QED BY <1>1, <1>4, <1>5, VectorKeeps

\* An item, through both memos.
LEMMA Tv004Keeps == ToolInv /\ Tv004 => ToolInv'
<1> SUFFICES ASSUME ToolInv, Tv004 PROVE ToolInv'
  OBVIOUS
<1> DEFINE c == ItemCases[case]  body == Item(c.index, itemMemo'.map[c.index])
<1>1. /\ pc = "generating" /\ section = 4 /\ GetItems(c.key, {c.index}) /\ Emit(body)
      /\ reference_hash' = reference_hash
  BY DEF Tv004, At
<1>2. Faithful' /\ itemMemo'.map[c.index] = c.key
  <2> HIDE DEF c
  <2> QED BY <1>1, GetItemsIs DEF ToolInv
<1>3. body = Item(ItemCases[case].index, ItemCases[case].key)
  BY <1>2
<1> HIDE DEF body, c
<1>4. Fresh([id |-> <<section, case>>, body |-> body])
  BY <1>1, <1>3 DEF Fresh
<1> QED BY <1>1, <1>2, <1>4, VectorKeeps

\* The units of a scratch.
LEMMA Tv005Keeps == ToolInv /\ Tv005 => ToolInv'
<1> SUFFICES ASSUME ToolInv, Tv005 PROVE ToolInv'
  OBVIOUS
<1> DEFINE body == [prefix |-> DerivedUnit(ScratchCases[case], 0), scratch_hash |-> FreshScratch(ScratchCases[case])]
<1>1. /\ pc = "generating" /\ section = 5 /\ Emit(body)
      /\ UNCHANGED <<cacheMemo, itemMemo, reference_hash>>
  BY DEF Tv005, At
<1> HIDE DEF body
<1>2. Fresh([id |-> <<section, case>>, body |-> body])
  BY <1>1 DEF Fresh
<1>3. Faithful'
  BY <1>1 DEF ToolInv, Faithful
<1> QED BY <1>1, <1>2, <1>3, VectorKeeps

\* A round, through both memos.
LEMMA Tv006Keeps == ToolInv /\ Tv006 => ToolInv'
<1> SUFFICES ASSUME ToolInv, Tv006 PROVE ToolInv'
  OBVIOUS
<1> DEFINE k == RoundCases[case].lane.key  body == RoundVector(RoundCases[case], itemMemo'.map)
<1>1. /\ pc = "generating" /\ section = 6 /\ GetItems(k, Range(place.items)) /\ Emit(body)
      /\ reference_hash' = reference_hash
  BY DEF Tv006, At
<1>2. Faithful' /\ \A i \in Range(place.items) : itemMemo'.map[i] = k
  <2> HIDE DEF k
  <2> QED BY <1>1, GetItemsIs DEF ToolInv
<1>3. body = RoundVector(RoundCases[case], [i \in Indices |-> k])
  <2> DEFINE f == itemMemo'.map  g == [i \in Indices |-> k]
  <2>1. g = [i \in Indices |-> k] /\ Chosen
    BY DEF ToolInv
  <2>2. \A i \in Range(place.items) : f[i] = k
    BY <1>2
  <2> HIDE DEF k, f, g
  <2>3. RoundVector(RoundCases[case], f) = RoundVector(RoundCases[case], g)
    BY <2>1, <2>2, OfOneKey
  <2> QED BY <2>3 DEF f, g
<1> HIDE DEF body
<1>4. Fresh([id |-> <<section, case>>, body |-> body])
  BY <1>1, <1>3 DEF Fresh
<1> QED BY <1>1, <1>2, <1>4, VectorKeeps

\* A replay, which TV-008 refers to.
LEMMA Tv007Keeps == ToolInv /\ Tv007 => ToolInv'
<1> SUFFICES ASSUME ToolInv, Tv007 PROVE ToolInv'
  OBVIOUS
<1> DEFINE k == ReplayCases[case].key  body == ReplayVector(case, itemMemo'.map)
<1>1. /\ pc = "generating" /\ section = 7 /\ GetItems(k, Range(place.items)) /\ Emit(body)
      /\ reference_hash' = IF case = 1 THEN powHash[1] ELSE reference_hash
  BY DEF Tv007, At
<1>2. Faithful' /\ \A i \in Range(place.items) : itemMemo'.map[i] = k
  <2> HIDE DEF k
  <2> QED BY <1>1, GetItemsIs DEF ToolInv
<1>3. body = ReplayVector(case, [i \in Indices |-> k])
  <2> DEFINE f == itemMemo'.map  g == [i \in Indices |-> k]
  <2>1. g = [i \in Indices |-> k] /\ Chosen
    BY DEF ToolInv
  <2>2. \A i \in Range(place.items) : f[i] = k
    BY <1>2
  <2> HIDE DEF k, f, g
  <2>3. ReplayVector(case, f) = ReplayVector(case, g)
    BY <2>1, <2>2, OfOneKey
  <2> QED BY <2>3 DEF f, g
<1> HIDE DEF body
<1>4. Fresh([id |-> <<section, case>>, body |-> body])
  BY <1>1, <1>3 DEF Fresh
<1> QED BY <1>1, <1>2, <1>4, VectorKeeps

\* A verdict on the hash of TV-007-A.
LEMMA Tv008Keeps == ToolInv /\ Tv008 => ToolInv'
<1> SUFFICES ASSUME ToolInv, Tv008 PROVE ToolInv'
  OBVIOUS
<1> DEFINE body == TargetVector(case, reference_hash)
<1>1. /\ pc = "generating" /\ section = 8 /\ Emit(body)
      /\ UNCHANGED <<cacheMemo, itemMemo, reference_hash>>
  BY DEF Tv008, At
<1>2. reference_hash = powHash[1]
  BY <1>1 DEF ToolInv, Referenced
<1>3. body = TargetVector(case, powHash[1]) /\ case \in 1 .. 5
  BY <1>2 DEF ToolInv, TypeOK
<1> HIDE DEF body
<1>4. Fresh([id |-> <<section, case>>, body |-> body])
  BY <1>1, <1>3 DEF Fresh
<1>5. Faithful'
  BY <1>1 DEF ToolInv, Faithful
<1> QED BY <1>1, <1>4, <1>5, VectorKeeps

\* A step that only stops the program, or none at all.
LEMMA StopKeeps ==
  ASSUME ToolInv, pc' = "threw" \/ pc' = pc,
         UNCHANGED <<preset, section, case, doc, docs, cacheMemo, itemMemo, reference_hash, chosen>>
  PROVE  ToolInv'
<1>1. \A w \in Vectors' : Fresh(w)'
  <2>1. \A w \in Vectors' : Fresh(w)
    BY DEF ToolInv, AllFresh, Vectors
  <2> QED BY <2>1, FreshStays
<1>2. TypeOK' /\ Position'
  BY DEF ToolInv, TypeOK, Position
<1>3. Faithful' /\ Chosen' /\ Documents' /\ Referenced'
  BY DEF ToolInv, Faithful, Chosen, chosen, Documents, Referenced
<1> QED BY <1>1, <1>2, <1>3 DEF ToolInv, AllFresh

\* The invariant holds of every step.
LEMMA Inductive == Spec => []ToolInv
<1>1. ToolInv /\ [Next]_vars => ToolInv'
  <2> SUFFICES ASSUME ToolInv, [Next]_vars PROVE ToolInv'
    OBVIOUS
  <2>1. CASE OutOfMemory
    BY <2>1, StopKeeps DEF OutOfMemory
  <2>2. CASE UNCHANGED vars
    BY <2>2, StopKeeps DEF vars, chosen
  <2> QED BY <2>1, <2>2, GenerateKeeps, Tv001Keeps, Tv002Keeps, Tv003Keeps, Tv004Keeps, Tv005Keeps,
             Tv006Keeps, Tv007Keeps, Tv008Keeps DEF Next
<1> QED BY <1>1, InitKeeps, PTL DEF Spec

-----------------------------------------------------------------------------
(* Theorems. *)

\* The documents are in order and complete: whatever preset came before, document
\* n has the cases of its preset and no other.
THEOREM TypeCorrect == Spec => []TypeOK
<1>1. ToolInv => TypeOK
  BY DEF ToolInv
<1> QED BY <1>1, Inductive, PTL

\* No vector depends on what the process generated before it: the memos of the
\* cache and of the items never answer for another key, and TV-008 has the hash
\* of TV-007-A.
THEOREM VectorsAreFresh == Spec => []VectorsFresh
<1>1. ToolInv => VectorsFresh
  BY DEF ToolInv, AllFresh, Fresh, VectorsFresh
<1> QED BY <1>1, Inductive, PTL

\* The vector of a round can be replayed from the vector alone, also when the
\* round overwrites a unit it has read.
THEOREM TransitionsReplay == Spec => []TransitionReplays
<1>1. ToolInv => TransitionReplays
  <2> SUFFICES ASSUME ToolInv, NEW w \in Vectors, w.id[1] = 6
               PROVE  /\ w.body.written_value =
                           WriteUnit(w.body.initial_state, w.body.initial_scratch_reads, w.body.item_hashes)
                      /\ w.body.next_state =
                           NextState(w.body.initial_state, w.body.initial_scratch_reads, w.body.item_hashes)
    BY DEF TransitionReplays, Body
  <2> DEFINE c == RoundCases[w.id[2]]  f == [i \in Indices |-> c.lane.key]
             b == RoundVector(c, f)
  <2>1. w.body = b
    BY DEF ToolInv, AllFresh, Fresh
  <2> HIDE DEF c, f
  <2>2. /\ b.written_value = WriteUnit(b.initial_state, b.initial_scratch_reads, b.item_hashes)
        /\ b.next_state = NextState(b.initial_state, b.initial_scratch_reads, b.item_hashes)
    BY DEF RoundVector, InitialReads
  <2> HIDE DEF b
  <2> QED BY <2>1, <2>2
<1> QED BY <1>1, Inductive, PTL

\* The vectors of a canonical document, by their places.
LEMMA CanonicalIs ==
  ASSUME ToolInv, NEW d \in Range(docs), d.preset = "canonical",
         NEW s \in 1 .. 8, NEW n \in 1 .. CasesOf("canonical")[s]
  PROVE  LET v == d.vectors[Before("canonical")[s] + n] IN v.id = <<s, n>> /\ Fresh(v)
<1> DEFINE m == Before("canonical")[s] + n
<1>1. /\ Before("canonical")[s] \in 0 .. 27 /\ CasesOf("canonical")[s] \in 1 .. 5
      /\ Before("canonical")[s] + CasesOf("canonical")[s] <= Before("canonical")[9]
      /\ Before("canonical")[9] \in 8 .. 32
  BY CasesAre DEF Presets
<1>2. DOMAIN d.vectors = 1 .. Before("canonical")[9] /\ Ordered("canonical", d.vectors)
  <2>1. IsSeq(d.vectors) /\ Ordered(d.preset, d.vectors) /\ Len(d.vectors) = Before(d.preset)[9]
    BY DEF ToolInv, Documents, TypeOK
  <2> QED BY <2>1, SeqIs
<1>3. m \in DOMAIN d.vectors
  <2>1. m \in 1 .. Before("canonical")[9]
    <3> DEFINE b == Before("canonical")[s]  c == CasesOf("canonical")[s]  e == Before("canonical")[9]
    <3>1. b \in 0 .. 27 /\ c \in 1 .. 5 /\ e \in 8 .. 32 /\ b + c <= e /\ n \in 1 .. c
      BY <1>1
    <3> HIDE DEF b, c, e
    <3>2. b + n \in 1 .. e
      BY <3>1
    <3> QED BY <3>2 DEF b, e
  <2> QED BY <1>2, <2>1
<1>4. d.vectors[m].id = <<s, n>>
  BY <1>2, <1>3 DEF Ordered
<1>5. d.vectors[m] \in Vectors
  BY <1>3 DEF Vectors, Range
<1> QED BY <1>4, <1>5 DEF ToolInv, AllFresh

\* The canonical documents show what test_vectors.md says of them: a digest that
\* does not cover nonce and result but each other field, and a replay that
\* another nonce on the same header changes.
THEOREM CasesAreShown == Spec => []CasesShow
<1>1. ToolInv => CasesShow
  <2> SUFFICES ASSUME ToolInv, NEW d \in Range(docs), d.preset = "canonical"
               PROVE  LET digest(n) == d.vectors[4 + n].body.digest
                          replay(n) == d.vectors[22 + n].body.lane_states IN
                      /\ digest(4) = digest(2) /\ Cardinality({digest(n) : n \in 1 .. 3}) = 3
                      /\ replay(5).nonce.digest = replay(1).nonce.digest /\ replay(5) # replay(1)
    BY DEF CasesShow
  <2> DEFINE digest(n) == d.vectors[4 + n].body.digest
             replay(n) == d.vectors[22 + n].body.lane_states
  <2>1. \A n \in 1 .. 4 : digest(n) = Covered(HeaderCases[n])
    <3> SUFFICES ASSUME NEW n \in 1 .. 4 PROVE digest(n) = Covered(HeaderCases[n])
      OBVIOUS
    <3>1. 2 \in 1 .. 8 /\ CasesOf("canonical")[2] = 4 /\ Before("canonical")[2] = 4
      BY SMT DEF CasesOf, Before
    <3>2. d.vectors[4 + n].id = <<2, n>> /\ Fresh(d.vectors[4 + n])
      BY <3>1, CanonicalIs
    <3> QED BY <3>2 DEF Fresh
  <2>2. \A n \in 1 .. 5 : replay(n) = ReplayVector(n, [i \in Indices |-> ReplayCases[n].key]).lane_states
    <3> SUFFICES ASSUME NEW n \in 1 .. 5
                 PROVE  replay(n) = ReplayVector(n, [i \in Indices |-> ReplayCases[n].key]).lane_states
      OBVIOUS
    <3>1. 7 \in 1 .. 8 /\ CasesOf("canonical")[7] = 5 /\ Before("canonical")[7] = 22
      BY SMT DEF CasesOf, Before
    <3>2. d.vectors[22 + n].id = <<7, n>> /\ Fresh(d.vectors[22 + n])
      BY <3>1, CanonicalIs
    <3> QED BY <3>2 DEF Fresh
  <2>3. \A n \in 1 .. 5 : replay(n).nonce = ReplayCases[n]
    BY <2>2 DEF ReplayVector
  <2>4. /\ ReplayCases[1].digest = ReplayCases[5].digest
        /\ ReplayCases[1].nonce # ReplayCases[5].nonce
    BY SMT DEF ReplayCases, Replay
  <2> HIDE DEF digest, replay
  <2>5. digest(4) = digest(2) /\ {digest(n) : n \in 1 .. 3} = {Covered(HeaderCases[n]) : n \in 1 .. 3}
    BY <2>1, DigestsDiffer
  <2>6. replay(5).nonce.digest = replay(1).nonce.digest /\ replay(5) # replay(1)
    BY <2>3, <2>4
  <2> QED BY <2>5, <2>6, DigestsDiffer DEF digest, replay
<1> QED BY <1>1, Inductive, PTL

-----------------------------------------------------------------------------
(* The verdicts of TV-008. *)

\* A number is its own remainder under a greater modulus.
LEMMA BelowModulus ==
  ASSUME NEW m \in Nat, NEW y \in Nat, y < m
  PROVE  y % m = y
BY Z3

\* less_target adds one, with the carry, to every hash that is not the greatest.
LEMMA LessTargetIs ==
  ASSUME NEW h \in Hash256
  PROVE  /\ LessTarget(h) \in Hash256
         /\ h # MaxHash => Value(LessTarget(h)) = Value(h) + 1
<1> DEFINE t == LessTarget(h)
           Full(i) == \A j \in 1 .. i - 1 : h[j] = Base - 1
<1>1. HashBytes \in Nat /\ Base \in Nat /\ Base > 1 /\ h \in [1 .. HashBytes -> 0 .. Base - 1]
  BY BytesAssumption DEF BytesAssumption, Hash256
<1>2. /\ DOMAIN t = 1 .. HashBytes /\ t = [i \in 1 .. HashBytes |-> t[i]]
      /\ \A i \in 1 .. HashBytes : t[i] = IF Full(i) THEN (h[i] + 1) % Base ELSE h[i]
  BY DEF LessTarget
<1> HIDE DEF t
<1>3. \A x \in 0 .. Base - 1 :
        /\ (x + 1) % Base \in 0 .. Base - 1
        /\ (x + 1) % Base = IF x = Base - 1 THEN 0 ELSE x + 1
  <2> SUFFICES ASSUME NEW x \in 0 .. Base - 1
               PROVE  (x + 1) % Base = IF x = Base - 1 THEN 0 ELSE x + 1
    BY <1>1
  <2>1. CASE x = Base - 1
    BY <1>1, <2>1
  <2>2. CASE x # Base - 1
    <3>1. x + 1 \in Nat /\ x + 1 < Base
      BY <1>1, <2>2
    <3> QED BY <1>1, <2>2, <3>1, BelowModulus
  <2> QED BY <2>1, <2>2
<1>4. t \in Hash256
  <2>1. \A i \in 1 .. HashBytes : t[i] \in 0 .. Base - 1
    BY <1>1, <1>2, <1>3
  <2> QED BY <1>2, <2>1 DEF Hash256
<1>5. ASSUME h # MaxHash PROVE Value(t) = Value(h) + 1
  <2> DEFINE T == {i \in 1 .. HashBytes : h[i] # Base - 1}
  <2>1. T \subseteq Nat /\ T # {}
    BY <1>1, <1>5 DEF MaxHash
  <2>2. PICK c \in T : \A i \in T : c <= i
    <3> HIDE DEF T
    <3> QED BY <2>1, LeastNat, ZenonT(60)
  <2>3. c \in 1 .. HashBytes /\ h[c] # Base - 1 /\ Full(c)
    <3>1. ASSUME NEW j \in 1 .. c - 1 PROVE h[j] = Base - 1
      <4>1. j \in 1 .. HashBytes /\ ~(c <= j)
        BY <1>1, <2>2
      <4> QED BY <2>2, <4>1
    <3> QED BY <2>2, <3>1
  <2>4. \A j \in 1 .. c - 1 : h[j] = Base - 1 /\ t[j] = 0
    <3> SUFFICES ASSUME NEW j \in 1 .. c - 1 PROVE h[j] = Base - 1 /\ t[j] = 0
      OBVIOUS
    <3>1. j \in 1 .. HashBytes /\ 1 .. j - 1 \subseteq 1 .. c - 1
      BY <1>1, <2>3
    <3>2. h[j] = Base - 1 /\ Full(j)
      BY <2>3, <3>1
    <3> QED BY <1>1, <1>2, <1>3, <3>1, <3>2
  <2>5. t[c] = h[c] + 1
    BY <1>1, <1>2, <1>3, <2>3
  <2>6. \A j \in c + 1 .. HashBytes : t[j] = h[j]
    <3> SUFFICES ASSUME NEW j \in c + 1 .. HashBytes PROVE t[j] = h[j]
      OBVIOUS
    <3>1. j \in 1 .. HashBytes /\ c \in 1 .. j - 1
      BY <1>1, <2>3
    <3>2. ~Full(j)
      BY <2>3, <3>1
    <3> QED BY <1>2, <3>1, <3>2
  <2> HIDE DEF T, Full
  <2> QED BY <1>4, <2>3, <2>4, <2>5, <2>6, AddsOne
<1> QED BY <1>4, <1>5 DEF t

\* Zero is below every other hash.
LEMMA ZeroIsLeast ==
  ASSUME NEW h \in Hash256, h # ZeroHash
  PROVE  Value(ZeroHash) < Value(h)
<1> DEFINE T == {HashBytes - i : i \in {j \in 1 .. HashBytes : h[j] # 0}}
<1>1. HashBytes \in Nat /\ Base \in Nat /\ h \in [1 .. HashBytes -> 0 .. Base - 1]
  BY BytesAssumption DEF BytesAssumption, Hash256
<1>2. T \subseteq Nat /\ T # {}
  BY <1>1 DEF ZeroHash
<1>3. PICK x \in T : \A y \in T : x <= y
  <2> HIDE DEF T
  <2> QED BY <1>2, LeastNat, ZenonT(60)
<1>4. PICK i \in 1 .. HashBytes : h[i] # 0 /\ x = HashBytes - i
  BY <1>3
<1>5. ASSUME NEW j \in 1 .. HashBytes, j > i PROVE h[j] = 0
  <2>1. ~(x <= HashBytes - j)
    BY <1>1, <1>4, <1>5
  <2> QED BY <1>3, <2>1
<1>6. MeetsTarget(ZeroHash, h)
  <2>1. DOMAIN ZeroHash = 1 .. HashBytes /\ \A j \in 1 .. HashBytes : ZeroHash[j] = 0
    BY DEF ZeroHash
  <2>2. 0 < h[i]
    BY <1>1, <1>4
  <2> QED BY <1>4, <1>5, <2>1, <2>2 DEF MeetsTarget
<1> QED BY <1>6, HashesAre, VerdictIsNumeric

\* The hashes and targets of TV-008.
LEMMA TargetsAre ==
  ASSUME NEW h \in Hash256, NEW n \in 1 .. 5
  PROVE  TargetCases(h)[n][1] \in Hash256 /\ TargetCases(h)[n][2] \in Hash256
<1>1. Base \in Nat /\ Base > 1 /\ HashBytes \in Nat
  BY BytesAssumption DEF BytesAssumption
<1>2. MaxHash \in Hash256
  BY <1>1 DEF MaxHash, Hash256
<1>3. [ZeroHash EXCEPT ![1] = 1] \in Hash256
  <2>1. 1 \in 0 .. Base - 1
    BY <1>1
  <2> HIDE DEF MaxHash
  <2> QED BY <2>1, HashesAre DEF Hash256
<1> QED BY <1>2, <1>3, HashesAre, LessTargetIs DEF TargetCases

\* The verdicts of TV-008 are those of the numbers, for every hash that TV-007-A
\* may have, and its first three cases are one target above the hash, unless it
\* is the greatest, equal to it, and below it, unless it is zero.
THEOREM VerdictsAreNumeric == Spec => []VerdictsNumeric
<1>1. ToolInv => VerdictsNumeric
  <2> SUFFICES ASSUME ToolInv, NEW w \in Vectors, w.id[1] = 8
               PROVE  LET h == Value(w.body.pow_hash)  t == Value(w.body.target) IN
                      /\ w.body.valid <=> h < t
                      /\ w.id[2] = 1 /\ w.body.pow_hash # MaxHash => t = h + 1
                      /\ w.id[2] = 2 => t = h
                      /\ w.id[2] = 3 /\ w.body.pow_hash # ZeroHash => t < h
    BY DEF VerdictsNumeric
  <2> DEFINE n == w.id[2]  p == powHash[1]  a == TargetCases(p)[n][1]  b == TargetCases(p)[n][2]
  <2>1. n \in 1 .. 5 /\ w.body = TargetVector(n, p)
    BY DEF ToolInv, AllFresh, Fresh
  <2>2. p \in Hash256
    BY ChosenIs DEF ToolInv
  <2>3. w.body.pow_hash = a /\ w.body.target = b /\ w.body.valid = MeetsTarget(a, b)
    BY <2>1 DEF TargetVector
  <2>4. /\ n = 1 => a = p /\ b = LessTarget(p)
        /\ n = 2 => a = p /\ b = p
        /\ n = 3 => a = p /\ b = ZeroHash
    BY DEF TargetCases
  <2> HIDE DEF n, p
  <2>5. a \in Hash256 /\ b \in Hash256
    BY <2>1, <2>2, TargetsAre
  <2> HIDE DEF a, b
  <2>6. MeetsTarget(a, b) <=> Value(a) < Value(b)
    BY <2>5, VerdictIsNumeric
  <2>7. n = 1 /\ a # MaxHash => Value(b) = Value(a) + 1
    BY <2>2, <2>4, LessTargetIs
  <2>8. n = 3 /\ a # ZeroHash => Value(b) < Value(a)
    BY <2>2, <2>4, ZeroIsLeast
  <2> QED BY <2>3, <2>4, <2>6, <2>7, <2>8 DEF n
<1> QED BY <1>1, Inductive, PTL
=============================================================================
