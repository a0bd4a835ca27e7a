----------------------- MODULE ConnAggregatorProofs -----------------------
(***************************************************************************)
(* Proofs about ConnAggregator, for every set of samples with any figures  *)
(* and every size of the map and of a report: what an aggregated entry     *)
(* says, where every sample is, and how many entries the map holds.        *)
(***************************************************************************)
EXTENDS ConnAggregator, LeastElement, FiniteSetTheorems, TLAPS

\* h is the sequence of partial sums of the bytes of the samples f.
PartialSums(h, f) ==
    /\ h \in [0 .. Len(f) -> Nat]
    /\ h[0] = 0
    /\ \A i \in 1 .. Len(f) : h[i] = h[i - 1] + Sample[f[i]].bytes

\* i is the latest of the sightings f, the last one among equals.
IsLatest(i, f) ==
    /\ i \in DOMAIN f
    /\ \A j \in DOMAIN f : /\ Sample[f[j]].seen <= Sample[f[i]].seen
                           /\ j > i => Sample[f[j]].seen < Sample[f[i]].seen

\* i is the most severe of the samples f, the first one among equals.
IsMostSevere(i, f) ==
    /\ i \in DOMAIN f
    /\ \A j \in DOMAIN f : /\ Sample[f[j]].sev <= Sample[f[i]].sev
                           /\ j < i => Sample[f[j]].sev < Sample[f[i]].sev

\* What updateConnectionMap maintains about the entry e of key k.  The reference
\* definitions of Summarises are stated by the witnesses that determine them.
EntryOf(k, e) ==
    /\ e.from \in Seq(SampleIds) /\ e.from # << >>
    /\ \A i \in DOMAIN e.from : Key(Sample[e.from[i]]) = k
    /\ \E h : PartialSums(h, e.from) /\ e.bytes = h[Len(e.from)]
    /\ \E i : /\ IsLatest(i, e.from)
              /\ e.seen = Sample[e.from[i]].seen /\ e.action = Sample[e.from[i]].action
    /\ \E i : /\ IsMostSevere(i, e.from)
              /\ e.sev = Sample[e.from[i]].sev /\ e.threat = Sample[e.from[i]].threat

\* The figures of a sample are numbers.
LEMMA SampleTypes ==
    ASSUME NEW id \in SampleIds
    PROVE  /\ Sample[id].bytes \in Nat /\ Sample[id].seen \in Nat /\ Sample[id].sev \in Nat
           /\ Sample[id].action \in Nat
BY SampleAssumption DEF Figures

\* A new entry says what its only sample says.
LEMMA NewEntryFacts ==
    ASSUME NEW id \in SampleIds
    PROVE  EntryOf(Key(Sample[id]), NewEntry(id))
<1> DEFINE e == NewEntry(id)
<1>1. /\ e.from = <<id>> /\ e.bytes = Sample[id].bytes /\ e.seen = Sample[id].seen
      /\ e.action = Sample[id].action /\ e.sev = Sample[id].sev /\ e.threat = Sample[id].threat
  BY DEF NewEntry
<1> HIDE DEF e
<1>2. PICK f : f = <<id>>
  OBVIOUS
<1>3. f \in Seq(SampleIds) /\ f # << >> /\ Len(f) = 1 /\ DOMAIN f = {1} /\ f[1] = id
  BY <1>2
<1>4. \E h : PartialSums(h, f) /\ e.bytes = h[Len(f)]
  <2> DEFINE h == [i \in 0 .. 1 |-> IF i = 0 THEN 0 ELSE Sample[id].bytes]
  <2>1. PartialSums(h, f) /\ e.bytes = h[Len(f)]
    BY <1>1, <1>3, SampleTypes DEF PartialSums
  <2> QED BY <2>1
<1>5. IsLatest(1, f) /\ IsMostSevere(1, f)
  BY <1>3, SampleTypes DEF IsLatest, IsMostSevere
<1> QED BY <1>1, <1>2, <1>3, <1>4, <1>5 DEF EntryOf, e

\* Merging a sample of the same key keeps the entry a summary.
LEMMA MergeFacts ==
    ASSUME NEW k, NEW e, EntryOf(k, e), NEW id \in SampleIds, Key(Sample[id]) = k
    PROVE  EntryOf(k, Merge(e, id))
<1>1. PICK n, f, g : n = Len(e.from) /\ f = e.from /\ g = Append(e.from, id)
  OBVIOUS
<1>2. /\ f \in Seq(SampleIds) /\ n \in Nat \ {0} /\ n = Len(f) /\ DOMAIN f = 1 .. n
      /\ \A i \in 1 .. n : f[i] \in SampleIds
  BY <1>1 DEF EntryOf
<1>3. /\ g \in Seq(SampleIds) /\ g # << >> /\ Len(g) = n + 1 /\ DOMAIN g = 1 .. n + 1
      /\ g[n + 1] = id
      /\ \A i \in 1 .. n : g[i] = f[i]
  BY <1>1, <1>2
<1>4. PICK m : m = Merge(e, id)
  OBVIOUS
<1>5. /\ m.from = g /\ m.bytes = e.bytes + Sample[id].bytes
      /\ m.seen = IF e.seen <= Sample[id].seen THEN Sample[id].seen ELSE e.seen
      /\ m.action = IF e.seen <= Sample[id].seen THEN Sample[id].action ELSE e.action
      /\ m.sev = IF e.sev < Sample[id].sev THEN Sample[id].sev ELSE e.sev
      /\ m.threat = IF e.sev < Sample[id].sev THEN Sample[id].threat ELSE e.threat
  BY <1>1, <1>4 DEF Merge
<1>6. \A i \in DOMAIN g : Key(Sample[g[i]]) = k
  <2>1. \A i \in 1 .. n : Key(Sample[f[i]]) = k
    BY <1>1, <1>2 DEF EntryOf
  <2> QED BY <1>2, <1>3, <2>1
<1>7. \E h : PartialSums(h, g) /\ m.bytes = h[Len(g)]
  <2>1. PICK h0 : PartialSums(h0, f) /\ e.bytes = h0[n]
    BY <1>1 DEF EntryOf
  <2>2. PICK b : b = Sample[id].bytes /\ b \in Nat
    BY SampleTypes
  <2> DEFINE h == [i \in 0 .. n + 1 |-> IF i = n + 1 THEN h0[n] + b ELSE h0[i]]
  <2>3. h \in [0 .. n + 1 -> Nat] /\ h[0] = 0 /\ h[n + 1] = h0[n] + b
    BY <1>2, <2>1, <2>2 DEF PartialSums
  <2>4. \A i \in 1 .. n : h[i] = h0[i] /\ h[i - 1] = h0[i - 1]
    BY <1>2
  <2>5. h[n] = h0[n]
    BY <1>2
  <2> HIDE DEF h
  <2>6. ASSUME NEW i \in 1 .. n + 1 PROVE h[i] = h[i - 1] + Sample[g[i]].bytes
    <3>1. CASE i = n + 1
      BY <1>2, <1>3, <2>2, <2>3, <2>5, <3>1
    <3>2. CASE i # n + 1
      <4>1. i \in 1 .. n
        BY <1>2, <3>2
      <4> QED BY <1>2, <1>3, <2>1, <2>4, <4>1 DEF PartialSums
    <3> QED BY <3>1, <3>2
  <2>7. PartialSums(h, g)
    BY <1>3, <2>3, <2>6 DEF PartialSums
  <2>8. m.bytes = h[Len(g)]
    BY <1>3, <1>5, <2>1, <2>2, <2>3
  <2> QED BY <2>7, <2>8
<1>8. \A i \in 1 .. n : Sample[f[i]].seen \in Nat /\ Sample[f[i]].sev \in Nat
  BY <1>2, SampleTypes
<1>9. Sample[id].seen \in Nat /\ Sample[id].sev \in Nat
  BY SampleTypes
<1>10. \E i : /\ IsLatest(i, g)
              /\ m.seen = Sample[g[i]].seen /\ m.action = Sample[g[i]].action
  <2>1. PICK i : /\ IsLatest(i, f)
                 /\ e.seen = Sample[f[i]].seen /\ e.action = Sample[f[i]].action
    BY <1>1 DEF EntryOf
  <2>2. i \in 1 .. n /\ g[i] = f[i]
    BY <1>2, <1>3, <2>1 DEF IsLatest
  <2>3. CASE e.seen <= Sample[id].seen
    <3>1. \A j \in 1 .. n : Sample[g[j]].seen <= Sample[id].seen
      BY <1>2, <1>3, <1>8, <1>9, <2>1, <2>2, <2>3 DEF IsLatest
    <3>2. IsLatest(n + 1, g)
      BY <1>2, <1>3, <1>9, <3>1 DEF IsLatest
    <3> QED BY <1>3, <1>5, <2>3, <3>2
  <2>4. CASE ~(e.seen <= Sample[id].seen)
    <3>1. Sample[id].seen < e.seen
      BY <1>8, <1>9, <2>1, <2>2, <2>4
    <3>2. IsLatest(i, g)
      BY <1>2, <1>3, <1>8, <1>9, <2>1, <2>2, <3>1 DEF IsLatest
    <3> QED BY <1>5, <2>1, <2>2, <2>4, <3>2
  <2> QED BY <2>3, <2>4
<1>11. \E i : /\ IsMostSevere(i, g)
              /\ m.sev = Sample[g[i]].sev /\ m.threat = Sample[g[i]].threat
  <2>1. PICK i : /\ IsMostSevere(i, f)
                 /\ e.sev = Sample[f[i]].sev /\ e.threat = Sample[f[i]].threat
    BY <1>1 DEF EntryOf
  <2>2. i \in 1 .. n /\ g[i] = f[i]
    BY <1>2, <1>3, <2>1 DEF IsMostSevere
  <2>3. CASE e.sev < Sample[id].sev
    <3>1. \A j \in 1 .. n : Sample[g[j]].sev < Sample[id].sev
      BY <1>2, <1>3, <1>8, <1>9, <2>1, <2>2, <2>3 DEF IsMostSevere
    <3>2. IsMostSevere(n + 1, g)
      BY <1>2, <1>3, <1>8, <1>9, <3>1 DEF IsMostSevere
    <3> QED BY <1>3, <1>5, <2>3, <3>2
  <2>4. CASE ~(e.sev < Sample[id].sev)
    <3>1. Sample[id].sev <= e.sev
      BY <1>8, <1>9, <2>1, <2>2, <2>4
    <3>2. IsMostSevere(i, g)
      BY <1>2, <1>3, <1>8, <1>9, <2>1, <2>2, <3>1 DEF IsMostSevere
    <3> QED BY <1>5, <2>1, <2>2, <2>4, <3>2
  <2> QED BY <2>3, <2>4
<1> QED BY <1>3, <1>4, <1>5, <1>6, <1>7, <1>10, <1>11 DEF EntryOf

\* Partial sums determine the total: any two agree at every index, for otherwise there
\* would be a least index at which they differ.
LEMMA TotalIsLastSum ==
    ASSUME NEW f \in Seq(SampleIds), NEW h, PartialSums(h, f), NEW q,
           q = [i \in DOMAIN f |-> Sample[f[i]]]
    PROVE  TotalBytes(q) = h[Len(f)]
<1> DEFINE n == Len(f)
           F(g) == [i \in 0 .. n |-> IF i = 0 THEN 0 ELSE g[i - 1] + q[i].bytes]
           s == CHOOSE g : g = F(g)
<1>1. n \in Nat /\ DOMAIN f = 1 .. n /\ Len(q) = n /\ \A i \in 1 .. n : q[i] = Sample[f[i]]
  OBVIOUS
<1>2. h = F(h)
  <2>1. ASSUME NEW i \in 0 .. n PROVE h[i] = IF i = 0 THEN 0 ELSE h[i - 1] + q[i].bytes
    <3>1. CASE i = 0
      BY <3>1 DEF PartialSums
    <3>2. CASE i # 0
      <4>1. i \in 1 .. n
        BY <1>1, <3>2
      <4> QED BY <1>1, <3>2, <4>1 DEF PartialSums
    <3> QED BY <3>1, <3>2
  <2>2. h = [i \in 0 .. n |-> h[i]]
    BY DEF PartialSums
  <2> QED BY <2>1, <2>2
<1>3. s = F(s)
  BY <1>2
<1>4. TotalBytes(q) = s[n]
  BY <1>1 DEF TotalBytes
<1> HIDE DEF s
<1>5. \A i \in 0 .. n : s[i] = IF i = 0 THEN 0 ELSE s[i - 1] + q[i].bytes
  BY <1>3
<1>6. \A i \in 0 .. n : h[i] = IF i = 0 THEN 0 ELSE h[i - 1] + q[i].bytes
  BY <1>2
<1> HIDE DEF F
<1> DEFINE D == {i \in 0 .. n : s[i] # h[i]}
<1>7. D = {}
  <2> SUFFICES ASSUME D # {} PROVE FALSE
    OBVIOUS
  <2>1. D \in SUBSET Nat
    BY <1>1
  <2>2. PICK i \in D : \A j \in D : i <= j
    BY <2>1, LeastNatural
  <2>3. i \in 0 .. n /\ i # 0 /\ s[i] # h[i]
    BY <1>1, <1>5, <1>6, <2>2
  <2>4. i - 1 \in 0 .. n /\ ~(i <= i - 1)
    BY <1>1, <2>3
  <2>5. s[i - 1] = h[i - 1]
    BY <2>2, <2>4
  <2>6. s[i] = s[i - 1] + q[i].bytes
    BY <1>5, <2>3
  <2>7. h[i] = h[i - 1] + q[i].bytes
    BY <1>6, <2>3
  <2> QED BY <2>3, <2>5, <2>6, <2>7
<1> QED BY <1>1, <1>4, <1>7

\* Samples with one key belong to one flow: ports and protocols are never mixed.
LEMMA KeyFacts ==
    ASSUME NEW s, NEW t, Key(s) = Key(t)
    PROVE  /\ s.peer = t.peer
           /\ s.proto \in {"tcp", "udp"} => <<s.proto, s.port>> = <<t.proto, t.port>>
<1>1. \A a, b, c, d : <<a, b, c>> # <<d>>
  OBVIOUS
<1>2. CASE s.proto \in {"tcp", "udp"} /\ t.proto \in {"tcp", "udp"}
  BY <1>2 DEF Key
<1>3. CASE s.proto \in {"tcp", "udp"} /\ t.proto \notin {"tcp", "udp"}
  BY <1>1, <1>3 DEF Key
<1>4. CASE s.proto \notin {"tcp", "udp"} /\ t.proto \in {"tcp", "udp"}
  BY <1>1, <1>4 DEF Key
<1>5. CASE s.proto \notin {"tcp", "udp"} /\ t.proto \notin {"tcp", "udp"}
  BY <1>5 DEF Key
<1> QED BY <1>2, <1>3, <1>4, <1>5

\* What updateConnectionMap maintains is the summary that the properties ask for.
LEMMA EntrySummarises ==
    ASSUME NEW k, NEW e, EntryOf(k, e)
    PROVE  Summarises(e)
<1>1. PICK f, q : f = e.from /\ q = SamplesOf(e)
  OBVIOUS
<1>2. /\ f \in Seq(SampleIds) /\ DOMAIN f = 1 .. Len(f) /\ Len(f) \in Nat
      /\ q = [i \in DOMAIN f |-> Sample[f[i]]]
      /\ \A i \in DOMAIN f : f[i] \in SampleIds /\ Key(Sample[f[i]]) = k
  BY <1>1 DEF EntryOf, SamplesOf
<1>3. DOMAIN q = DOMAIN f /\ \A i \in DOMAIN f : q[i] = Sample[f[i]] /\ i \in Nat
  BY <1>2
<1>4. \A i \in DOMAIN f : Sample[f[i]].seen \in Nat /\ Sample[f[i]].sev \in Nat
  BY <1>2, SampleTypes
<1>5. OneFlow(q)
  <2> SUFFICES ASSUME NEW i \in DOMAIN f, NEW j \in DOMAIN f
               PROVE  /\ q[i].peer = q[j].peer
                      /\ q[i].proto \in {"tcp", "udp"} =>
                            <<q[i].proto, q[i].port>> = <<q[j].proto, q[j].port>>
    BY <1>3 DEF OneFlow
  <2>1. Key(q[i]) = Key(q[j])
    BY <1>2, <1>3
  <2> QED BY <2>1, KeyFacts
<1>6. e.bytes = TotalBytes(q)
  <2>1. PICK h : PartialSums(h, f) /\ e.bytes = h[Len(f)]
    BY <1>1 DEF EntryOf
  <2> QED BY <1>2, <2>1, TotalIsLastSum
<1>7. e.seen = q[LatestSighting(q)].seen /\ e.action = q[LatestSighting(q)].action
  <2>1. PICK i : /\ IsLatest(i, f)
                 /\ e.seen = Sample[f[i]].seen /\ e.action = Sample[f[i]].action
    BY <1>1 DEF EntryOf
  <2> DEFINE S == {x \in DOMAIN q : \A j \in DOMAIN q : q[j].seen <= q[x].seen}
  <2>2. i \in S /\ i \in Nat /\ i \in DOMAIN f
    BY <1>3, <2>1 DEF IsLatest
  <2>3. ASSUME NEW x \in S PROVE x \in Nat /\ i >= x
    BY <1>3, <1>4, <2>1, <2>2 DEF IsLatest
  <2>4. \A x \in S : (\A y \in S : x >= y) => x = i
    BY <2>2, <2>3
  <2>5. (CHOOSE x \in S : \A y \in S : x >= y) = i
    BY <2>2, <2>3, <2>4
  <2>6. LatestSighting(q) = i
    BY <2>5 DEF LatestSighting, Max
  <2> QED BY <1>3, <2>1, <2>2, <2>6
<1>8. e.sev = q[FirstMostSevere(q)].sev /\ e.threat = q[FirstMostSevere(q)].threat
  <2>1. PICK i : /\ IsMostSevere(i, f)
                 /\ e.sev = Sample[f[i]].sev /\ e.threat = Sample[f[i]].threat
    BY <1>1 DEF EntryOf
  <2> DEFINE S == {x \in DOMAIN q : \A j \in DOMAIN q : q[j].sev <= q[x].sev}
  <2>2. i \in S /\ i \in Nat /\ i \in DOMAIN f
    BY <1>3, <2>1 DEF IsMostSevere
  <2>3. ASSUME NEW x \in S PROVE x \in Nat /\ i <= x
    BY <1>3, <1>4, <2>1, <2>2 DEF IsMostSevere
  <2>4. \A x \in S : (\A y \in S : x <= y) => x = i
    BY <2>2, <2>3
  <2>5. (CHOOSE x \in S : \A y \in S : x <= y) = i
    BY <2>2, <2>3, <2>4
  <2>6. FirstMostSevere(q) = i
    BY <2>5 DEF FirstMostSevere, Min
  <2> QED BY <1>3, <2>1, <2>2, <2>6
<1> QED BY <1>1, <1>5, <1>6, <1>7, <1>8 DEF Summarises

-----------------------------------------------------------------------------
(* The entries of the map and of the batch under report *)

\* The samples handed over, and how often each was delivered.
ListsTyped ==
    /\ connsCache \in Seq(SampleIds)
    /\ work \in Seq(SampleIds)
    /\ delivered \in [SampleIds -> Nat]

\* Every entry is the summary of samples of one key.
EntriesTrue ==
    /\ IsFiniteSet(DOMAIN connectionMap)
    /\ \A k \in DOMAIN connectionMap : EntryOf(k, connectionMap[k])
    /\ \A e \in batch : \E k : EntryOf(k, e)

\* The inductive invariant of the entries.
EInv == ListsTyped /\ EntriesTrue /\ OrdinaryEntriesBounded

\* The keys of the entries that were admitted as ordinary traffic.
Ordinary == {k \in DOMAIN connectionMap :
               Sample[connectionMap[k].from[1]].action <= PolicyActionAllow}

\* What updateConnectionMap does with a sample: it starts an entry, adds the sample to
\* the entry of its key, or drops it.
LEMMA UpdateFacts ==
    ASSUME EntriesTrue, NEW id \in SampleIds, updateConnectionMap(id)
    PROVE  \/ /\ connectionMap' = connectionMap /\ dropped' = dropped \cup {id}
           \/ /\ dropped' = dropped
              /\ \E k, e :
                   /\ EntryOf(k, e)
                   /\ DOMAIN connectionMap' = DOMAIN connectionMap \cup {k}
                   /\ connectionMap'[k] = e
                   /\ \A x \in DOMAIN connectionMap \ {k} : connectionMap'[x] = connectionMap[x]
                   /\ \/ k \in DOMAIN connectionMap /\ e.from = Append(connectionMap[k].from, id)
                      \/ k \notin DOMAIN connectionMap /\ e.from = <<id>> /\ Admits(Sample[id])
<1>1. PICK k : k = Key(Sample[id])
  OBVIOUS
<1>2. CASE /\ k \in DOMAIN connectionMap
           /\ PutEntry(k, Merge(connectionMap[k], id)) /\ dropped' = dropped
  <2>1. PICK e : e = Merge(connectionMap[k], id)
    OBVIOUS
  <2>2. EntryOf(k, e) /\ e.from = Append(connectionMap[k].from, id)
    <3>1. EntryOf(k, connectionMap[k])
      BY <1>2 DEF EntriesTrue
    <3>2. EntryOf(k, Merge(connectionMap[k], id))
      BY <1>1, <3>1, MergeFacts
    <3> QED BY <2>1, <3>2 DEF Merge
  <2>3. connectionMap' = [x \in DOMAIN connectionMap \cup {k} |->
                            IF x = k THEN e ELSE connectionMap[x]]
    BY <1>2, <2>1 DEF PutEntry
  <2> QED BY <1>2, <2>2, <2>3
<1>3. CASE /\ k \notin DOMAIN connectionMap /\ Admits(Sample[id])
           /\ PutEntry(k, NewEntry(id)) /\ dropped' = dropped
  <2>1. PICK e : e = NewEntry(id)
    OBVIOUS
  <2>2. EntryOf(k, e) /\ e.from = <<id>>
    <3>1. EntryOf(k, NewEntry(id))
      BY <1>1, NewEntryFacts
    <3> QED BY <2>1, <3>1 DEF NewEntry
  <2>3. connectionMap' = [x \in DOMAIN connectionMap \cup {k} |->
                            IF x = k THEN e ELSE connectionMap[x]]
    BY <1>3, <2>1 DEF PutEntry
  <2> QED BY <1>3, <2>2, <2>3
<1> QED BY <1>1, <1>2, <1>3 DEF updateConnectionMap

\* A sample taken from the list is a sample.
LEMMA WorkFacts ==
    ASSUME ListsTyped, work # << >>
    PROVE  Head(work) \in SampleIds /\ Tail(work) \in Seq(SampleIds)
BY DEF ListsTyped

\* Merging one sample keeps the entries true and the ordinary ones bounded: the map
\* admits an ordinary one only below its limit.
LEMMA MergeOneKeepsEntries ==
    ASSUME EInv, MergeOne
    PROVE  EInv'
<1> USE DEF EInv
<1>1. PICK id : id = Head(work)
  OBVIOUS
<1>2. /\ id \in SampleIds /\ work' \in Seq(SampleIds)
      /\ updateConnectionMap(id)
      /\ UNCHANGED <<connsCache, batch, delivered>>
  BY <1>1, WorkFacts DEF MergeOne
<1>3. ListsTyped'
  BY <1>2 DEF ListsTyped
<1>4. CASE connectionMap' = connectionMap
  BY <1>2, <1>3, <1>4 DEF EntriesTrue, OrdinaryEntriesBounded
<1>5. ASSUME NEW k, NEW e, EntryOf(k, e),
             DOMAIN connectionMap' = DOMAIN connectionMap \cup {k},
             connectionMap'[k] = e,
             \A x \in DOMAIN connectionMap \ {k} : connectionMap'[x] = connectionMap[x],
             \/ k \in DOMAIN connectionMap /\ e.from = Append(connectionMap[k].from, id)
             \/ k \notin DOMAIN connectionMap /\ e.from = <<id>> /\ Admits(Sample[id])
      PROVE  EInv'
  <2>1. EntriesTrue'
    <3>1. IsFiniteSet(DOMAIN connectionMap \cup {k})
      BY FS_AddElement DEF EntriesTrue
    <3>2. IsFiniteSet(DOMAIN connectionMap')
      BY <1>5, <3>1
    <3>3. \A x \in DOMAIN connectionMap' : EntryOf(x, connectionMap'[x])
      BY <1>5 DEF EntriesTrue
    <3> QED BY <1>2, <3>2, <3>3 DEF EntriesTrue
  <2>2. /\ IsFiniteSet(Ordinary) /\ Cardinality(Ordinary) \in Nat
        /\ Cardinality(Ordinary) <= Cardinality(DOMAIN connectionMap)
        /\ Cardinality(DOMAIN connectionMap) \in Nat
        /\ Cardinality(Ordinary) <= MapMax
    <3>1. Ordinary \subseteq DOMAIN connectionMap
      BY DEF Ordinary
    <3>2. Cardinality(Ordinary) <= MapMax
      BY DEF Ordinary, OrdinaryEntriesBounded
    <3>3. IsFiniteSet(DOMAIN connectionMap)
      BY DEF EntriesTrue
    <3> QED BY <3>1, <3>2, <3>3, FS_Subset, FS_CardinalityType
  <2>3. CASE k \in DOMAIN connectionMap /\ e.from = Append(connectionMap[k].from, id)
    <3>1. e.from[1] = connectionMap[k].from[1]
      <4>1. PICK f : f = connectionMap[k].from
        OBVIOUS
      <4>2. f \in Seq(SampleIds) /\ f # << >>
        BY <2>3, <4>1 DEF EntriesTrue, EntryOf
      <4>3. Append(f, id)[1] = f[1]
        BY <1>2, <4>2
      <4> QED BY <2>3, <4>1, <4>3
    <3>2. DOMAIN connectionMap' = DOMAIN connectionMap
      BY <1>5, <2>3
    <3>3. Ordinary' = Ordinary
      BY <1>5, <2>3, <3>1, <3>2 DEF Ordinary
    <3>4. OrdinaryEntriesBounded'
      BY <2>2, <3>3 DEF Ordinary, OrdinaryEntriesBounded
    <3> QED BY <1>3, <2>1, <3>4
  <2>4. CASE k \notin DOMAIN connectionMap /\ e.from = <<id>> /\ Admits(Sample[id])
    <3>1. e.from[1] = id
      BY <2>4
    <3>2. CASE Sample[id].action > PolicyActionAllow
      <4>1. ~(Sample[id].action <= PolicyActionAllow)
        BY <1>2, <3>2, SampleTypes DEF PolicyActionAllow
      <4>2. Ordinary' = Ordinary
        BY <1>5, <2>4, <3>1, <4>1 DEF Ordinary
      <4>3. OrdinaryEntriesBounded'
        BY <2>2, <4>2 DEF Ordinary, OrdinaryEntriesBounded
      <4> QED BY <1>3, <2>1, <4>3
    <3>3. CASE Cardinality(DOMAIN connectionMap) < MapMax
      <4>1. Ordinary' \subseteq Ordinary \cup {k}
        BY <1>5, <2>4 DEF Ordinary
      <4>2. /\ IsFiniteSet(Ordinary \cup {k})
            /\ Cardinality(Ordinary \cup {k}) <= Cardinality(Ordinary) + 1
            /\ Cardinality(Ordinary \cup {k}) \in Nat
        <5>1. k \notin Ordinary
          BY <2>4 DEF Ordinary
        <5>2. IsFiniteSet(Ordinary \cup {k}) /\ Cardinality(Ordinary \cup {k}) = Cardinality(Ordinary) + 1
          BY <2>2, <5>1, FS_AddElement
        <5> QED BY <2>2, <5>2
      <4>3. Cardinality(Ordinary') <= Cardinality(Ordinary \cup {k}) /\ Cardinality(Ordinary') \in Nat
        BY <4>1, <4>2, FS_Subset, FS_CardinalityType
      <4>4. Cardinality(Ordinary') <= MapMax
        BY <2>2, <3>3, <4>2, <4>3, MaxAssumption
      <4>5. OrdinaryEntriesBounded'
        BY <4>4 DEF Ordinary, OrdinaryEntriesBounded
      <4> QED BY <1>3, <2>1, <4>5
    <3> QED BY <2>4, <3>2, <3>3 DEF Admits
  <2> QED BY <1>5, <2>3, <2>4
<1> QED BY <1>2, <1>4, <1>5, UpdateFacts

\* Taking a batch out of the map moves entries and changes none.
LEMMA TakeBatchKeepsEntries ==
    ASSUME EInv, TakeBatch
    PROVE  EInv'
<1> USE DEF EInv
<1>1. PICK K \in SUBSET DOMAIN connectionMap :
         /\ batch' = {connectionMap[k] : k \in K}
         /\ connectionMap' = [x \in DOMAIN connectionMap \ K |-> connectionMap[x]]
  BY DEF TakeBatch
<1>2. ListsTyped'
  BY DEF TakeBatch, ListsTyped
<1>3. EntriesTrue'
  <2>1. DOMAIN connectionMap' \subseteq DOMAIN connectionMap
    BY <1>1
  <2>2. IsFiniteSet(DOMAIN connectionMap')
    BY <2>1, FS_Subset DEF EntriesTrue
  <2> QED BY <1>1, <2>1, <2>2 DEF EntriesTrue
<1>4. Cardinality(Ordinary') <= MapMax
  <2>1. Ordinary' \subseteq Ordinary
    BY <1>1 DEF Ordinary
  <2>2. IsFiniteSet(Ordinary)
    <3>1. Ordinary \subseteq DOMAIN connectionMap
      BY DEF Ordinary
    <3> QED BY <3>1, FS_Subset DEF EntriesTrue
  <2>3. Cardinality(Ordinary) <= MapMax
    BY DEF Ordinary, OrdinaryEntriesBounded
  <2> QED BY <2>1, <2>2, <2>3, FS_Subset, FS_CardinalityType, MaxAssumption
<1>5. OrdinaryEntriesBounded'
  BY <1>4 DEF Ordinary, OrdinaryEntriesBounded
<1> QED BY <1>2, <1>3, <1>5

\* The invariant of the entries in every reachable state.
THEOREM EntriesInvariant == Spec => []EInv
<1>1. Init => EInv
  <2>1. Init => ListsTyped
    BY DEF Init, ListsTyped
  <2>2. Init => EntriesTrue
    BY FS_EmptySet DEF Init, EntriesTrue
  <2>3. Init => OrdinaryEntriesBounded
    <3> SUFFICES ASSUME Init PROVE Cardinality(Ordinary) <= MapMax
      BY DEF Ordinary, OrdinaryEntriesBounded
    <3>1. Ordinary = {}
      BY DEF Ordinary, Init
    <3> QED BY <3>1, FS_EmptySet, MaxAssumption
  <2> QED BY <2>1, <2>2, <2>3 DEF EInv
<1>2. EInv /\ [Next]_vars => EInv'
  <2> SUFFICES ASSUME EInv, [Next]_vars PROVE EInv'
    OBVIOUS
  <2> USE DEF EInv
  <2>1. ASSUME NEW id \in SampleIds, AddConnection(id) PROVE EInv'
    BY <2>1 DEF AddConnection, ListsTyped, EntriesTrue, OrdinaryEntriesBounded
  <2>2. CASE \/ (\E t \in ThreatIds : AddThreatLog(t)) \/ SwapThreatLogs \/ ReportThreats
             \/ Stop \/ Exit \/ UNCHANGED vars
    <3>1. UNCHANGED <<connsCache, work, connectionMap, batch, delivered>>
      BY <2>2 DEF AddThreatLog, SwapThreatLogs, ReportThreats, Stop, Exit, vars, connVars
    <3> QED BY <3>1 DEF ListsTyped, EntriesTrue, OrdinaryEntriesBounded
  <2>3. CASE SwapCache
    BY <2>3 DEF SwapCache, ListsTyped, EntriesTrue, OrdinaryEntriesBounded
  <2>4. CASE ReportArrives \/ ReportLost
    <3>1. /\ batch' = {} /\ UNCHANGED <<connsCache, work, connectionMap>>
          /\ delivered' \in [SampleIds -> Nat]
      BY <2>4 DEF ReportArrives, ReportLost, ListsTyped
    <3> QED BY <3>1 DEF ListsTyped, EntriesTrue, OrdinaryEntriesBounded
  <2> QED BY <2>1, <2>2, <2>3, <2>4, MergeOneKeepsEntries, TakeBatchKeepsEntries DEF Next, flush
<1> QED BY <1>1, <1>2, PTL DEF Spec

\* Every entry, in the map or under report, is the summary of its samples: one flow,
\* the sum of the bytes, the action of the latest sighting, the worst severity.
THEOREM EntriesAreSummaries == Spec => []EntriesSummarise
<1>1. EInv => EntriesSummarise
  BY EntrySummarises DEF EInv, EntriesTrue, EntriesSummarise, Entries
<1> QED BY <1>1, EntriesInvariant, PTL

\* However many denied or violating connections crowd in, the map never holds more than
\* MapMax entries that were admitted as ordinary traffic.
THEOREM OrdinaryBounded == Spec => []OrdinaryEntriesBounded
BY EntriesInvariant, PTL DEF EInv

-----------------------------------------------------------------------------
(* Where every sample is *)

\* The list q holds sample id ...
Holds(q, id) == \E i \in DOMAIN q : q[i] = id

\* ... and no sample twice.
NoRepeats(q) == \A i, j \in DOMAIN q : q[i] = q[j] => i = j

\* An entry of the map, or of the batch, was made of sample id.
InMap(id) == \E k \in DOMAIN connectionMap : Holds(connectionMap[k].from, id)

InBatch(id) == \E e \in batch : Holds(e.from, id)

\* The stations of a sample on its way to the controller.
Stations == {"fresh", "cache", "work", "map", "batch", "delivered", "lost", "dropped"}

\* Sample id is at station s and nowhere else.
Located(id, s) ==
    /\ id \in fresh <=> s = "fresh"
    /\ Holds(connsCache, id) <=> s = "cache"
    /\ Holds(work, id) <=> s = "work"
    /\ InMap(id) <=> s = "map"
    /\ InBatch(id) <=> s = "batch"
    /\ delivered[id] = IF s = "delivered" THEN 1 ELSE 0
    /\ id \in lost <=> s = "lost"
    /\ id \in dropped <=> s = "dropped"

\* No list, no entry and no two entries hold a sample twice.
HeldOnce ==
    /\ NoRepeats(connsCache)
    /\ NoRepeats(work)
    /\ \A k, l \in DOMAIN connectionMap :
         \A i \in DOMAIN connectionMap[k].from, j \in DOMAIN connectionMap[l].from :
            connectionMap[k].from[i] = connectionMap[l].from[j] => k = l /\ i = j
    /\ \A e, f \in batch : \A i \in DOMAIN e.from, j \in DOMAIN f.from :
            e.from[i] = f.from[j] => e = f /\ i = j

\* The timer goroutine has samples in its hands only while it merges, and a batch only
\* while it reports: otherwise the swap and the batch would overwrite some.
HandsEmpty ==
    /\ pc # "merge" => work = << >>
    /\ pc # "send" => batch = {}

\* The inductive invariant of the stations.
LInv == /\ HeldOnce /\ HandsEmpty
        /\ \A id \in SampleIds : \E s \in Stations : Located(id, s)

\* What a list holds after Append.
LEMMA AppendHolds ==
    ASSUME NEW q \in Seq(SampleIds), NEW x \in SampleIds
    PROVE  /\ \A d : Holds(Append(q, x), d) <=> Holds(q, d) \/ d = x
           /\ NoRepeats(q) /\ ~Holds(q, x) => NoRepeats(Append(q, x))
           /\ \A i \in DOMAIN Append(q, x) :
                \/ i \in DOMAIN q /\ Append(q, x)[i] = q[i]
                \/ i = Len(q) + 1 /\ Append(q, x)[i] = x
<1>1. PICK r : r = Append(q, x)
  OBVIOUS
<1>2. /\ Len(q) \in Nat /\ DOMAIN q = 1 .. Len(q) /\ DOMAIN r = 1 .. Len(q) + 1
      /\ r[Len(q) + 1] = x /\ \A i \in 1 .. Len(q) : r[i] = q[i]
  BY <1>1
<1>3. \A i \in DOMAIN r : i \in DOMAIN q \/ i = Len(q) + 1
  BY <1>2
<1>4. DOMAIN q \subseteq DOMAIN r /\ Len(q) + 1 \in DOMAIN r
  BY <1>2
<1>5. \A d : Holds(r, d) <=> Holds(q, d) \/ d = x
  BY <1>2, <1>3, <1>4 DEF Holds
<1>6. NoRepeats(q) /\ ~Holds(q, x) => NoRepeats(r)
  BY <1>2, <1>3, <1>4 DEF Holds, NoRepeats
<1> QED BY <1>1, <1>2, <1>3, <1>5, <1>6

\* What a list without repetitions holds after its first element was taken.
LEMMA TailHolds ==
    ASSUME NEW q \in Seq(SampleIds), q # << >>, NoRepeats(q)
    PROVE  /\ Holds(q, Head(q))
           /\ NoRepeats(Tail(q))
           /\ \A d : Holds(Tail(q), d) <=> Holds(q, d) /\ d # Head(q)
<1>1. PICK r, n : r = Tail(q) /\ n = Len(q)
  OBVIOUS
<1>2. /\ n \in Nat \ {0} /\ DOMAIN q = 1 .. n /\ DOMAIN r = 1 .. n - 1
      /\ Head(q) = q[1]
      /\ \A i \in 1 .. n - 1 : r[i] = q[i + 1]
  BY <1>1
<1>3. \A i \in DOMAIN r : i + 1 \in DOMAIN q /\ i + 1 # 1 /\ r[i] = q[i + 1] /\ i \in Nat
  BY <1>2
<1>4. 1 \in DOMAIN q /\ \A i \in DOMAIN q : i # 1 => i - 1 \in DOMAIN r /\ r[i - 1] = q[i]
  <2>1. \A i \in DOMAIN q : i # 1 => i - 1 \in 1 .. n - 1 /\ (i - 1) + 1 = i
    BY <1>2
  <2> QED BY <1>2, <2>1
<1>5. NoRepeats(r)
  BY <1>3 DEF NoRepeats
<1>6. \A d : Holds(r, d) <=> Holds(q, d) /\ d # Head(q)
  <2>1. \A d : Holds(r, d) => Holds(q, d) /\ d # Head(q)
    BY <1>2, <1>3, <1>4 DEF Holds, NoRepeats
  <2>2. \A d : Holds(q, d) /\ d # Head(q) => Holds(r, d)
    BY <1>2, <1>4 DEF Holds
  <2> QED BY <2>1, <2>2
<1>7. Holds(q, Head(q))
  BY <1>2, <1>4 DEF Holds
<1> QED BY <1>1, <1>5, <1>6, <1>7

\* A sample that arrives goes from fresh to the cache.
LEMMA AddKeepsPlaces ==
    ASSUME EInv, LInv, NEW id \in SampleIds, AddConnection(id)
    PROVE  LInv'
<1> USE DEF LInv
<1>1. /\ id \in fresh /\ fresh' = fresh \ {id}
      /\ connsCache' = Append(connsCache, id)
      /\ UNCHANGED <<work, connectionMap, batch, pc, delivered, lost, dropped>>
  BY DEF AddConnection
<1>2. connsCache \in Seq(SampleIds)
  BY DEF EInv, ListsTyped
<1>3. Located(id, "fresh")
  BY <1>1 DEF Located
<1>4. /\ \A d : Holds(connsCache', d) <=> Holds(connsCache, d) \/ d = id
      /\ NoRepeats(connsCache')
  BY <1>1, <1>2, <1>3, AppendHolds DEF Located, HeldOnce
<1>5. ASSUME NEW d \in SampleIds PROVE \E s \in Stations : Located(d, s)'
  <2>1. InMap(d)' = InMap(d) /\ InBatch(d)' = InBatch(d)
    BY <1>1 DEF InMap, InBatch
  <2>2. CASE d = id
    <3>1. Located(d, "cache")'
      BY <1>1, <1>3, <1>4, <2>1, <2>2 DEF Located
    <3> QED BY <3>1 DEF Stations
  <2>3. CASE d # id
    <3>1. PICK s \in Stations : Located(d, s)
      OBVIOUS
    <3>2. Located(d, s)'
      BY <1>1, <1>4, <2>1, <2>3, <3>1 DEF Located
    <3> QED BY <3>2
  <2> QED BY <2>2, <2>3
<1>6. HeldOnce' /\ HandsEmpty'
  BY <1>1, <1>4 DEF HeldOnce, HandsEmpty
<1> QED BY <1>5, <1>6

\* The swap moves the whole cache into the hands of the timer goroutine.
LEMMA SwapKeepsPlaces ==
    ASSUME LInv, SwapCache
    PROVE  LInv'
<1> USE DEF LInv
<1>1. /\ pc = "swap" /\ pc' = "merge" /\ work' = connsCache /\ connsCache' = << >>
      /\ UNCHANGED <<connectionMap, batch, fresh, delivered, lost, dropped>>
  BY DEF SwapCache
<1>2. work = << >> /\ batch = {}
  BY <1>1 DEF HandsEmpty
<1>3. \A d : ~Holds(<< >>, d)
  BY DEF Holds
<1>4. ASSUME NEW d \in SampleIds PROVE \E s \in Stations : Located(d, s)'
  <2>1. PICK s \in Stations : Located(d, s)
    OBVIOUS
  <2>2. InMap(d)' = InMap(d) /\ InBatch(d)' = InBatch(d)
    BY <1>1 DEF InMap, InBatch
  <2>3. s # "work"
    BY <1>2, <1>3, <2>1 DEF Located
  <2>4. CASE s = "cache"
    <3>1. Located(d, "work")'
      BY <1>1, <1>3, <2>1, <2>2, <2>4 DEF Located
    <3> QED BY <3>1 DEF Stations
  <2>5. CASE s # "cache"
    <3>1. Located(d, s)'
      BY <1>1, <1>3, <2>1, <2>2, <2>3, <2>5 DEF Located
    <3> QED BY <3>1
  <2> QED BY <2>4, <2>5
<1>5. HeldOnce' /\ HandsEmpty'
  BY <1>1, <1>2 DEF HeldOnce, HandsEmpty, NoRepeats
<1> QED BY <1>4, <1>5

\* A merged sample goes from the hands into one entry of the map, or is dropped.
LEMMA MergeKeepsPlaces ==
    ASSUME EInv, LInv, MergeOne
    PROVE  LInv'
<1> USE DEF LInv
<1>1. PICK id : id = Head(work)
  OBVIOUS
<1>2. /\ pc = "merge" /\ pc' = pc /\ work # << >> /\ work' = Tail(work)
      /\ UNCHANGED <<connsCache, batch, fresh, delivered, lost>>
      /\ updateConnectionMap(id) /\ id \in SampleIds
  BY <1>1, WorkFacts DEF MergeOne, EInv
<1>3. /\ Holds(work, id) /\ NoRepeats(work')
      /\ \A d : Holds(work', d) <=> Holds(work, d) /\ d # id
  BY <1>1, <1>2, TailHolds DEF EInv, ListsTyped, HeldOnce
<1>4. Located(id, "work")
  BY <1>2, <1>3 DEF Located
<1>5. HandsEmpty'
  BY <1>2 DEF HandsEmpty
<1>6. \A d : InBatch(d)' = InBatch(d)
  BY <1>2 DEF InBatch
<1>7. CASE connectionMap' = connectionMap /\ dropped' = dropped \cup {id}
  <2>1. \A d : InMap(d)' = InMap(d)
    BY <1>7 DEF InMap
  <2>2. ASSUME NEW d \in SampleIds PROVE \E s \in Stations : Located(d, s)'
    <3>1. CASE d = id
      <4>1. Located(d, "dropped")'
        BY <1>2, <1>3, <1>4, <1>6, <1>7, <2>1, <3>1 DEF Located
      <4> QED BY <4>1 DEF Stations
    <3>2. CASE d # id
      <4>1. PICK s \in Stations : Located(d, s)
        OBVIOUS
      <4>2. Located(d, s)'
        BY <1>2, <1>3, <1>6, <1>7, <2>1, <3>2, <4>1 DEF Located
      <4> QED BY <4>2
    <3> QED BY <3>1, <3>2
  <2>3. HeldOnce'
    BY <1>2, <1>3, <1>7 DEF HeldOnce
  <2> QED BY <1>5, <2>2, <2>3
<1>8. ASSUME NEW k, NEW e, dropped' = dropped,
             DOMAIN connectionMap' = DOMAIN connectionMap \cup {k},
             connectionMap'[k] = e,
             \A x \in DOMAIN connectionMap \ {k} : connectionMap'[x] = connectionMap[x],
             \/ k \in DOMAIN connectionMap /\ e.from = Append(connectionMap[k].from, id)
             \/ k \notin DOMAIN connectionMap /\ e.from = <<id>>
      PROVE  LInv'
  <2>1. PICK f : f = e.from
    OBVIOUS
  \* The entry of k holds what it held before, at the same indices, and the new sample.
  <2>2. /\ \A i \in DOMAIN f : \/ k \in DOMAIN connectionMap
                                  /\ i \in DOMAIN connectionMap[k].from
                                  /\ f[i] = connectionMap[k].from[i]
                               \/ f[i] = id
        /\ \A i, j \in DOMAIN f : f[i] = id /\ f[j] = id => i = j
        /\ Holds(f, id)
        /\ k \in DOMAIN connectionMap => \A d : Holds(connectionMap[k].from, d) => Holds(f, d)
    <3>1. CASE k \in DOMAIN connectionMap /\ e.from = Append(connectionMap[k].from, id)
      <4>1. PICK g : g = connectionMap[k].from
        OBVIOUS
      <4>2. g \in Seq(SampleIds)
        BY <3>1, <4>1 DEF EInv, EntriesTrue, EntryOf
      <4>3. ~Holds(g, id)
        BY <1>4, <3>1, <4>1 DEF Located, InMap
      <4>4. f = Append(g, id)
        BY <2>1, <3>1, <4>1
      <4>5. /\ \A d : Holds(f, d) <=> Holds(g, d) \/ d = id
            /\ \A i \in DOMAIN f : \/ i \in DOMAIN g /\ f[i] = g[i]
                                   \/ i = Len(g) + 1 /\ f[i] = id
        BY <1>2, <4>2, <4>4, AppendHolds
      <4>6. \A i, j \in DOMAIN f : f[i] = id /\ f[j] = id => i = j
        BY <4>3, <4>5 DEF Holds
      <4> QED BY <3>1, <4>1, <4>5, <4>6
    <3>2. CASE k \notin DOMAIN connectionMap /\ e.from = <<id>>
      <4>1. DOMAIN f = {1} /\ f[1] = id
        BY <2>1, <3>2
      <4> QED BY <3>2, <4>1 DEF Holds
    <3> QED BY <1>8, <3>1, <3>2
  <2>3. InMap(id)' /\ \A d : d # id => (InMap(d)' <=> InMap(d))
    <3>1. connectionMap'[k].from = f /\ k \in DOMAIN connectionMap'
      BY <1>8, <2>1
    <3>2. InMap(id)'
      BY <2>2, <3>1 DEF InMap
    <3>3. ASSUME NEW d, d # id, InMap(d)' PROVE InMap(d)
      <4>1. PICK x \in DOMAIN connectionMap' : Holds(connectionMap'[x].from, d)
        BY <3>3 DEF InMap
      <4>2. CASE x = k
        BY <2>2, <3>1, <3>3, <4>1, <4>2 DEF InMap, Holds
      <4>3. CASE x # k
        BY <1>8, <4>1, <4>3 DEF InMap
      <4> QED BY <4>2, <4>3
    <3>4. ASSUME NEW d, InMap(d) PROVE InMap(d)'
      <4>1. PICK x \in DOMAIN connectionMap : Holds(connectionMap[x].from, d)
        BY <3>4 DEF InMap
      <4>2. CASE x = k
        BY <2>2, <3>1, <4>1, <4>2 DEF InMap
      <4>3. CASE x # k
        BY <1>8, <4>1, <4>3 DEF InMap
      <4> QED BY <4>2, <4>3
    <3> QED BY <3>2, <3>3, <3>4
  <2>4. ASSUME NEW d \in SampleIds PROVE \E s \in Stations : Located(d, s)'
    <3>1. CASE d = id
      <4>1. Located(d, "map")'
        BY <1>2, <1>3, <1>4, <1>6, <1>8, <2>3, <3>1 DEF Located
      <4> QED BY <4>1 DEF Stations
    <3>2. CASE d # id
      <4>1. PICK s \in Stations : Located(d, s)
        OBVIOUS
      <4>2. Located(d, s)'
        BY <1>2, <1>3, <1>6, <1>8, <2>3, <3>2, <4>1 DEF Located
      <4> QED BY <4>2
    <3> QED BY <3>1, <3>2
  <2>5. ASSUME NEW x \in DOMAIN connectionMap', NEW y \in DOMAIN connectionMap',
               NEW i \in DOMAIN connectionMap'[x].from, NEW j \in DOMAIN connectionMap'[y].from,
               connectionMap'[x].from[i] = connectionMap'[y].from[j]
        PROVE  x = y /\ i = j
    <3>0. connectionMap'[k].from = f
      BY <1>8, <2>1
    <3>1. \A z \in DOMAIN connectionMap : \A a \in DOMAIN connectionMap[z].from :
             connectionMap[z].from[a] # id
      BY <1>4 DEF Located, InMap, Holds
    <3>2. CASE x # k /\ y # k
      BY <1>8, <2>5, <3>2 DEF HeldOnce
    <3>3. CASE x = k /\ y # k
      BY <1>8, <2>2, <2>5, <3>0, <3>1, <3>3 DEF HeldOnce
    <3>4. CASE x # k /\ y = k
      BY <1>8, <2>2, <2>5, <3>0, <3>1, <3>4 DEF HeldOnce
    <3>5. CASE x = k /\ y = k
      BY <1>8, <2>2, <2>5, <3>0, <3>1, <3>5 DEF HeldOnce
    <3> QED BY <3>2, <3>3, <3>4, <3>5
  <2>6. HeldOnce'
    BY <1>2, <1>3, <2>5 DEF HeldOnce
  <2> QED BY <1>5, <2>4, <2>6
<1> QED BY <1>2, <1>7, <1>8, UpdateFacts DEF EInv

\* Taking a batch moves the samples of the chosen entries, and only those, from the map
\* to the batch.
LEMMA BatchKeepsPlaces ==
    ASSUME LInv, TakeBatch
    PROVE  LInv'
<1> USE DEF LInv
<1>1. PICK K \in SUBSET DOMAIN connectionMap :
         /\ batch' = {connectionMap[k] : k \in K}
         /\ connectionMap' = [x \in DOMAIN connectionMap \ K |-> connectionMap[x]]
  BY DEF TakeBatch
<1>2. /\ pc = "merge" /\ work = << >> /\ pc' = "send"
      /\ UNCHANGED <<connsCache, work, fresh, delivered, lost, dropped>>
  BY DEF TakeBatch
<1>3. batch = {}
  BY <1>2 DEF HandsEmpty
<1>4. \A d : InBatch(d)' <=> \E k \in K : Holds(connectionMap[k].from, d)
  BY <1>1 DEF InBatch
<1>5. \A d : InMap(d)' <=> \E k \in DOMAIN connectionMap \ K : Holds(connectionMap[k].from, d)
  BY <1>1 DEF InMap
<1>6. \A d : InMap(d) <=> InMap(d)' \/ InBatch(d)'
  BY <1>4, <1>5 DEF InMap
<1>7. \A d : ~(InMap(d)' /\ InBatch(d)')
  BY <1>4, <1>5 DEF HeldOnce, Holds
<1>8. ASSUME NEW d \in SampleIds PROVE \E s \in Stations : Located(d, s)'
  <2>1. PICK s \in Stations : Located(d, s)
    OBVIOUS
  <2>2. s # "batch"
    BY <1>3, <2>1 DEF Located, InBatch
  <2>3. CASE InBatch(d)'
    <3>1. Located(d, "batch")'
      BY <1>2, <1>6, <1>7, <2>1, <2>3 DEF Located
    <3> QED BY <3>1 DEF Stations
  <2>4. CASE ~InBatch(d)'
    <3>1. Located(d, s)'
      BY <1>2, <1>6, <2>1, <2>2, <2>4 DEF Located
    <3> QED BY <3>1
  <2> QED BY <2>3, <2>4
<1>9. HeldOnce'
  <2>1. \A k, l \in K :
           \A i \in DOMAIN connectionMap[k].from, j \in DOMAIN connectionMap[l].from :
              connectionMap[k].from[i] = connectionMap[l].from[j] => k = l /\ i = j
    BY DEF HeldOnce
  <2>2. \A e, f \in batch' : \A i \in DOMAIN e.from, j \in DOMAIN f.from :
            e.from[i] = f.from[j] => e = f /\ i = j
    BY <1>1, <2>1
  <2>3. \A k, l \in DOMAIN connectionMap' :
         \A i \in DOMAIN connectionMap'[k].from, j \in DOMAIN connectionMap'[l].from :
            connectionMap'[k].from[i] = connectionMap'[l].from[j] => k = l /\ i = j
    BY <1>1 DEF HeldOnce
  <2> QED BY <1>2, <2>2, <2>3 DEF HeldOnce
<1>10. HandsEmpty'
  BY <1>2 DEF HandsEmpty
<1> QED BY <1>8, <1>9, <1>10

\* A report settles exactly the samples of the batch: all delivered, or all lost.
LEMMA ReportKeepsPlaces ==
    ASSUME EInv, LInv, ReportArrives \/ ReportLost
    PROVE  LInv'
<1> USE DEF LInv
<1>1. /\ pc = "send" /\ pc' = "wait" /\ batch' = {}
      /\ UNCHANGED <<connsCache, work, connectionMap, fresh, dropped>>
  BY DEF ReportArrives, ReportLost
<1>2. \A d : d \in BatchIds <=> InBatch(d)
  BY DEF BatchIds, InBatch, Holds
<1>3. \A d : InMap(d)' = InMap(d) /\ ~InBatch(d)'
  BY <1>1 DEF InMap, InBatch
<1>4. HeldOnce' /\ HandsEmpty'
  BY <1>1 DEF HeldOnce, HandsEmpty
<1>5. ASSUME NEW d \in SampleIds PROVE \E s \in Stations : Located(d, s)'
  <2>1. PICK s \in Stations : Located(d, s)
    OBVIOUS
  <2>2. delivered \in [SampleIds -> Nat]
    BY DEF EInv, ListsTyped
  <2>3. CASE ReportArrives
    <3>1. /\ lost' = lost
          /\ delivered'[d] = IF InBatch(d) THEN delivered[d] + 1 ELSE delivered[d]
      BY <1>2, <2>3 DEF ReportArrives
    <3>2. CASE s = "batch"
      <4>1. Located(d, "delivered")'
        BY <1>1, <1>3, <2>1, <2>2, <3>1, <3>2 DEF Located
      <4> QED BY <4>1 DEF Stations
    <3>3. CASE s # "batch"
      <4>1. Located(d, s)'
        BY <1>1, <1>3, <2>1, <3>1, <3>3 DEF Located
      <4> QED BY <4>1
    <3> QED BY <3>2, <3>3
  <2>4. CASE ReportLost
    <3>1. delivered' = delivered /\ (d \in lost' <=> d \in lost \/ InBatch(d))
      BY <1>2, <2>4 DEF ReportLost
    <3>2. CASE s = "batch"
      <4>1. Located(d, "lost")'
        BY <1>1, <1>3, <2>1, <3>1, <3>2 DEF Located
      <4> QED BY <4>1 DEF Stations
    <3>3. CASE s # "batch"
      <4>1. Located(d, s)'
        BY <1>1, <1>3, <2>1, <3>1, <3>3 DEF Located
      <4> QED BY <4>1
    <3> QED BY <3>2, <3>3
  <2> QED BY <2>3, <2>4
<1> QED BY <1>4, <1>5

\* Every sample is at one station, in every reachable state.
THEOREM StationsInvariant == Spec => []LInv
<1>1. Init => LInv
  <2> SUFFICES ASSUME Init PROVE LInv
    OBVIOUS
  <2>1. HeldOnce /\ HandsEmpty
    BY DEF Init, HeldOnce, HandsEmpty, NoRepeats
  <2>2. ASSUME NEW id \in SampleIds PROVE Located(id, "fresh")
    BY DEF Init, Located, InMap, InBatch, Holds
  <2> QED BY <2>1, <2>2 DEF LInv, Stations
<1>2. EInv /\ LInv /\ [Next]_vars => LInv'
  <2> SUFFICES ASSUME EInv, LInv, [Next]_vars PROVE LInv'
    OBVIOUS
  <2>1. CASE \/ (\E t \in ThreatIds : AddThreatLog(t)) \/ SwapThreatLogs \/ ReportThreats
             \/ Stop \/ Exit \/ UNCHANGED vars
    <3>1. UNCHANGED <<connsCache, work, connectionMap, batch, fresh, delivered, lost, dropped>>
      BY <2>1 DEF AddThreatLog, SwapThreatLogs, ReportThreats, Stop, Exit, vars, connVars
    <3>2. HandsEmpty'
      BY <2>1 DEF AddThreatLog, SwapThreatLogs, ReportThreats, Stop, Exit, vars, connVars,
         LInv, HandsEmpty
    <3>3. HeldOnce'
      BY <3>1 DEF LInv, HeldOnce
    <3>4. ASSUME NEW id \in SampleIds, NEW s, Located(id, s) PROVE Located(id, s)'
      BY <3>1, <3>4 DEF Located, InMap, InBatch
    <3> QED BY <3>2, <3>3, <3>4 DEF LInv
  <2> QED BY <2>1, AddKeepsPlaces, SwapKeepsPlaces, MergeKeepsPlaces, BatchKeepsPlaces,
          ReportKeepsPlaces DEF Next, flush
<1> QED BY <1>1, <1>2, EntriesInvariant, PTL DEF Spec

\* A sample at one station is in one place.
LEMMA OneStationOnePlace ==
    ASSUME LInv, NEW id \in SampleIds, NEW s \in Stations, Located(id, s)
    PROVE  \E p : Places(id) = {p}
<1> USE DEF LInv
<1> DEFINE Fr == {<<"fresh", x>> : x \in fresh \cap {id}}
           Ca == {<<"cache", i>> : i \in At(connsCache, id)}
           Wo == {<<"work", i>> : i \in At(work, id)}
           Ma == UNION {{<<"map", k, i>> : i \in At(connectionMap[k].from, id)} :
                          k \in DOMAIN connectionMap}
           Ba == UNION {{<<"batch", e, i>> : i \in At(e.from, id)} : e \in batch}
           De == {<<"delivered", n>> : n \in 1 .. delivered[id]}
           Lo == {<<"lost", x>> : x \in lost \cap {id}}
           Dr == {<<"dropped", x>> : x \in dropped \cap {id}}
<1>1. Places(id) = Fr \cup Ca \cup Wo \cup Ma \cup Ba \cup De \cup Lo \cup Dr
  BY Zenon DEF Places
<1>2. IF s = "fresh" THEN Fr = {<<"fresh", id>>} ELSE Fr = {}
  BY DEF Located
<1>3. IF s = "cache" THEN \E p : Ca = {p} ELSE Ca = {}
  <2>1. CASE s = "cache"
    <3>1. PICK i \in DOMAIN connsCache : connsCache[i] = id
      BY <2>1 DEF Located, Holds
    <3>2. At(connsCache, id) = {i}
      BY <3>1 DEF At, HeldOnce, NoRepeats
    <3>3. Ca = {<<"cache", i>>}
      BY <3>2
    <3> QED BY <2>1, <3>3
  <2>2. CASE s # "cache"
    <3>1. At(connsCache, id) = {}
      BY <2>2 DEF Located, Holds, At
    <3> QED BY <2>2, <3>1
  <2> QED BY <2>1, <2>2
<1>4. IF s = "work" THEN \E p : Wo = {p} ELSE Wo = {}
  <2>1. CASE s = "work"
    <3>1. PICK i \in DOMAIN work : work[i] = id
      BY <2>1 DEF Located, Holds
    <3>2. At(work, id) = {i}
      BY <3>1 DEF At, HeldOnce, NoRepeats
    <3>3. Wo = {<<"work", i>>}
      BY <3>2
    <3> QED BY <2>1, <3>3
  <2>2. CASE s # "work"
    <3>1. At(work, id) = {}
      BY <2>2 DEF Located, Holds, At
    <3> QED BY <2>2, <3>1
  <2> QED BY <2>1, <2>2
<1>5. IF s = "map" THEN \E p : Ma = {p} ELSE Ma = {}
  <2>1. CASE s = "map"
    <3>1. PICK k \in DOMAIN connectionMap : Holds(connectionMap[k].from, id)
      BY <2>1 DEF Located, InMap
    <3>2. PICK i \in DOMAIN connectionMap[k].from : connectionMap[k].from[i] = id
      BY <3>1 DEF Holds
    <3>3. \A l \in DOMAIN connectionMap : At(connectionMap[l].from, id) = IF l = k THEN {i} ELSE {}
      BY <3>1, <3>2 DEF At, HeldOnce
    <3>4. Ma = {<<"map", k, i>>}
      BY <3>1, <3>3
    <3> QED BY <2>1, <3>4
  <2>2. CASE s # "map"
    <3>1. \A l \in DOMAIN connectionMap : At(connectionMap[l].from, id) = {}
      BY <2>2 DEF Located, InMap, Holds, At
    <3> QED BY <2>2, <3>1
  <2> QED BY <2>1, <2>2
<1>6. IF s = "batch" THEN \E p : Ba = {p} ELSE Ba = {}
  <2>1. CASE s = "batch"
    <3>1. PICK e \in batch : Holds(e.from, id)
      BY <2>1 DEF Located, InBatch
    <3>2. PICK i \in DOMAIN e.from : e.from[i] = id
      BY <3>1 DEF Holds
    <3>3. \A f \in batch : At(f.from, id) = IF f = e THEN {i} ELSE {}
      BY <3>1, <3>2 DEF At, HeldOnce
    <3>4. Ba = {<<"batch", e, i>>}
      BY <3>1, <3>3
    <3> QED BY <2>1, <3>4
  <2>2. CASE s # "batch"
    <3>1. \A f \in batch : At(f.from, id) = {}
      BY <2>2 DEF Located, InBatch, Holds, At
    <3> QED BY <2>2, <3>1
  <2> QED BY <2>1, <2>2
<1>7. IF s = "delivered" THEN \E p : De = {p} ELSE De = {}
  <2>1. CASE s = "delivered"
    <3>1. 1 .. delivered[id] = {1}
      <4>1. delivered[id] = 1
        BY <2>1 DEF Located
      <4>2. 1 .. 1 = {1}
        OBVIOUS
      <4> QED BY <4>1, <4>2, Zenon
    <3>2. De = {<<"delivered", 1>>}
      BY <3>1
    <3> QED BY <2>1, <3>2
  <2>2. CASE s # "delivered"
    <3>1. 1 .. delivered[id] = {}
      <4>1. delivered[id] = 0
        BY <2>2 DEF Located
      <4>2. 1 .. 0 = {}
        OBVIOUS
      <4> QED BY <4>1, <4>2, Zenon
    <3> QED BY <2>2, <3>1
  <2> QED BY <2>1, <2>2
<1>8. IF s = "lost" THEN Lo = {<<"lost", id>>} ELSE Lo = {}
  BY DEF Located
<1>9. IF s = "dropped" THEN Dr = {<<"dropped", id>>} ELSE Dr = {}
  BY DEF Located
<1> HIDE DEF Fr, Ca, Wo, Ma, Ba, De, Lo, Dr
<1> QED BY <1>1, <1>2, <1>3, <1>4, <1>5, <1>6, <1>7, <1>8, <1>9 DEF Stations

\* At every point of every interleaving of the read loop and the timer goroutine every
\* sample is in exactly one place, and it reaches the controller at most once.
THEOREM SamplesOnce == Spec => []EachSampleOnce
<1>1. LInv => EachSampleOnce
  <2> SUFFICES ASSUME LInv, NEW id \in SampleIds PROVE Cardinality(Places(id)) = 1
    BY DEF EachSampleOnce
  <2>1. PICK s \in Stations : Located(id, s)
    BY DEF LInv
  <2>2. PICK p : Places(id) = {p}
    BY <2>1, OneStationOnePlace
  <2> QED BY <2>2, FS_Singleton
<1> QED BY <1>1, StationsInvariant, PTL
=============================================================================
