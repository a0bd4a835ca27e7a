------------------------- MODULE DPFragmentsProofs -------------------------
(***************************************************************************)
(* Proofs about the reassembly of fragments, for every set of flows, every *)
(* offset, length and buffer size and any number of fragments: a datagram  *)
(* that is inspected is covered exactly once, a complete one never waits,  *)
(* and no fragment is sent twice unless it was sent by itself.             *)
(***************************************************************************)
EXTENDS DPFragments, FiniteSetTheorems, LeastElement

-----------------------------------------------------------------------------
(* What ipfrag_hold guarantees to asm_construct *)

\* The fragments held do not overlap and lie within the length; the flags are
\* backed by fragments: last by one that ends at the length and is not the first,
\* and a fragment at 0 has set first.
HeldOK(tr) ==
    /\ tr \in Tracs
    /\ IsFiniteSet(tr.frags)
    /\ \A c \in tr.frags : c.len > 0 /\ End(c) <= tr.length
    /\ \A c, d \in tr.frags : c # d => End(c) <= d.seq \/ End(d) <= c.seq
    /\ tr.last => \E c \in tr.frags : End(c) = tr.length /\ c.seq # 0
    /\ \A c \in tr.frags : c.seq = 0 => tr.first

\* Storing a fragment, or refusing it after first was set, keeps all of that.
LEMMA HoldKeeps ==
    ASSUME NEW tr, HeldOK(tr), NEW c \in Clips, NEW mf \in BOOLEAN, mf \/ c.seq # 0
    PROVE  HeldOK(Hold(tr, c, mf))
<1> DEFINE tr1 == [tr EXCEPT !.first = @ \/ c.seq = 0]
<1> DEFINE tr2 == [tr1 EXCEPT !.last = @ \/ ~mf,
                              !.length = IF mf /\ End(c) <= @ THEN @ ELSE End(c),
                              !.frags = @ \cup {c}]
<1>1. tr \in [first : BOOLEAN, last : BOOLEAN, length : Nat, frags : SUBSET Clips]
  BY DEF HeldOK, Tracs
<1>2. c.seq \in Nat /\ c.len \in Nat /\ End(c) \in Nat
  BY DEF Clips, End
<1>3. \A d \in tr.frags : d.seq \in Nat /\ d.len \in Nat /\ End(d) \in Nat
  BY <1>1 DEF Clips, End
<1>4. CASE c.len = 0 \/ Overlaps(tr, c)
  BY <1>4 DEF Hold
<1>5. CASE ~(c.len = 0 \/ Overlaps(tr, c)) /\ ~Fits(tr, c, mf)
  <2>1. Hold(tr, c, mf) = tr1
    BY <1>5 DEF Hold
  <2>2. tr1 \in Tracs /\ tr1.frags = tr.frags /\ tr1.length = tr.length
          /\ tr1.last = tr.last /\ (tr.first => tr1.first)
    BY <1>1 DEF Tracs
  <2>3. HeldOK(tr1)
    BY <2>2 DEF HeldOK
  <2> QED BY <2>1, <2>3
<1>6. CASE ~(c.len = 0 \/ Overlaps(tr, c)) /\ Fits(tr, c, mf)
  <2>1. Hold(tr, c, mf) = tr2
    BY <1>6 DEF Hold
  <2>2. /\ tr2 \in Tracs
        /\ tr2.frags = tr.frags \cup {c}
        /\ tr2.length = (IF mf /\ End(c) <= tr.length THEN tr.length ELSE End(c))
        /\ tr2.last = (tr.last \/ ~mf)
        /\ tr2.first = (tr.first \/ c.seq = 0)
    BY <1>1, <1>2 DEF Tracs
  <2>3. tr2.length >= tr.length /\ End(c) <= tr2.length /\ tr2.length \in Nat
    BY <1>1, <1>2, <1>6, <2>2 DEF Fits
  <2>4. IsFiniteSet(tr2.frags)
    BY <2>2, FS_AddElement DEF HeldOK
  <2>5. \A d \in tr2.frags : d.len > 0 /\ End(d) <= tr2.length
    BY <1>1, <1>2, <1>3, <1>6, <2>2, <2>3 DEF HeldOK
  <2>6. \A d \in tr.frags : End(c) <= d.seq \/ End(d) <= c.seq
    BY <1>2, <1>3, <1>6 DEF Overlaps
  <2>7. \A d, e \in tr2.frags : d # e => End(d) <= e.seq \/ End(e) <= d.seq
    BY <2>2, <2>6 DEF HeldOK
  <2>8. tr2.last => \E d \in tr2.frags : End(d) = tr2.length /\ d.seq # 0
    <3>1. CASE ~mf
      BY <2>2, <3>1
    <3>2. CASE mf
      BY <1>1, <1>2, <1>6, <2>2, <3>2 DEF HeldOK, Fits
    <3> QED BY <3>1, <3>2
  <2>9. \A d \in tr2.frags : d.seq = 0 => tr2.first
    BY <2>2 DEF HeldOK
  <2> QED BY <2>1, <2>2, <2>4, <2>5, <2>7, <2>8, <2>9 DEF HeldOK
<1> QED BY <1>4, <1>5, <1>6

-----------------------------------------------------------------------------
(* What asm_construct makes of it *)

\* The first gap is a gap: the walk over the sorted fragments stops at one.
LEMMA FirstGapIsGap ==
    ASSUME NEW C \in SUBSET Clips, Gaps(C) # {}
    PROVE  FirstGap(C) \in Gaps(C)
<1> DEFINE T == {g.seq : g \in Gaps(C)}
<1>1. T \in SUBSET Nat /\ T # {}
  BY DEF Gaps, Clips
<1>2. PICK x \in T : \A y \in T : x <= y
  BY <1>1, LeastNatural
<1>3. \E g \in Gaps(C) : \A h \in Gaps(C) : g.seq <= h.seq
  BY <1>2
<1> QED BY <1>3 DEF FirstGap

\* Non-overlapping fragments without a gap, from 0 to the length, cover every byte:
\* the first byte not covered would follow a fragment that is not the last one.
LEMMA NoGapCovers ==
    ASSUME NEW tr, HeldOK(tr), tr.last, Gaps(tr.frags) = {},
           \E c \in tr.frags : c.seq = 0
    PROVE  Exactly(tr.frags, tr.length)
<1>1. tr.frags \subseteq Clips /\ tr.length \in Nat
  BY DEF HeldOK, Tracs
<1>2. \A d \in tr.frags : d.seq \in Nat /\ d.len \in Nat /\ End(d) \in Nat /\ End(d) = d.seq + d.len
  BY <1>1 DEF Clips, End
<1>3. \A c \in tr.frags : c.len > 0 /\ End(c) <= tr.length
  BY DEF HeldOK
<1>4. \A c, d \in tr.frags : c # d => End(c) <= d.seq \/ End(d) <= c.seq
  BY DEF HeldOK
<1>5. \A b \in 0 .. tr.length - 1 : \E c \in tr.frags : b \in Bytes(c)
  <2> DEFINE Missing == {b \in Nat : b < tr.length /\ \A c \in tr.frags : ~(c.seq <= b /\ b < End(c))}
  <2>1. Missing = {}
    <3> SUFFICES ASSUME Missing # {} PROVE FALSE
      OBVIOUS
    <3>1. PICK b \in Missing : \A y \in Missing : b <= y
      <4>1. Missing \in SUBSET Nat
        OBVIOUS
      <4> HIDE DEF Missing
      <4> QED BY <4>1, LeastNatural
    <3>2. b # 0
      BY <1>2, <1>3
    <3>3. b - 1 \in Nat /\ b - 1 < tr.length /\ b - 1 \notin Missing
      BY <1>1, <3>1, <3>2
    <3>4. PICK c \in tr.frags : c.seq <= b - 1 /\ b - 1 < End(c)
      BY <3>3
    <3>5. End(c) = b
      BY <1>2, <3>1, <3>4
    <3>6. PICK e \in tr.frags : End(e) = tr.length
      BY DEF HeldOK
    <3>7. e.seq > c.seq
      BY <1>1, <1>2, <1>3, <1>4, <3>1, <3>4, <3>5, <3>6
    <3>8. PICK d \in tr.frags : d.seq > c.seq /\ ~(d.seq > End(c))
      BY <3>7 DEF Gaps
    <3>9. End(c) <= d.seq
      BY <1>2, <1>3, <1>4, <3>8
    <3>10. d.seq <= b /\ b < End(d)
      BY <1>2, <1>3, <3>5, <3>8, <3>9
    <3> QED BY <3>1, <3>10
  <2> SUFFICES ASSUME NEW b \in 0 .. tr.length - 1 PROVE \E c \in tr.frags : b \in Bytes(c)
    OBVIOUS
  <2>2. b \in Nat /\ b < tr.length /\ b \notin Missing
    BY <1>1, <2>1
  <2>3. PICK c \in tr.frags : c.seq <= b /\ b < End(c)
    BY <2>2
  <2> QED BY <1>2, <2>2, <2>3 DEF Bytes
<1>6. \A c, d \in tr.frags : c # d => Bytes(c) \cap Bytes(d) = {}
  <2> SUFFICES ASSUME NEW c \in tr.frags, NEW d \in tr.frags, c # d,
                      NEW b \in Bytes(c), b \in Bytes(d)
               PROVE  FALSE
    OBVIOUS
  <2>1. b \in Nat /\ c.seq <= b /\ b < End(c) /\ d.seq <= b /\ b < End(d)
    BY <1>2 DEF Bytes
  <2> QED BY <1>2, <1>4, <2>1
<1> QED BY <1>3, <1>5, <1>6 DEF Exactly

\* A gap would be noticed: behind it there is a fragment of at least one byte that
\* ends within the length.
LEMMA ConstructsMeansNoGap ==
    ASSUME NEW tr, HeldOK(tr), Constructs(tr)
    PROVE  Gaps(tr.frags) = {}
<1> SUFFICES ASSUME Gaps(tr.frags) # {} PROVE FALSE
  OBVIOUS
<1> DEFINE g == FirstGap(tr.frags)
<1>1. tr.frags \in SUBSET Clips /\ tr.length \in Nat
  BY DEF HeldOK, Tracs
<1>2. g \in Gaps(tr.frags)
  BY <1>1, FirstGapIsGap
<1>3. g \in tr.frags /\ End(g) + 1 >= tr.length
  BY <1>2 DEF Constructs, Gaps
<1>4. PICK d \in tr.frags : d.seq > g.seq /\ d.seq > End(g)
  BY <1>2 DEF Gaps
<1>5. d.len > 0 /\ End(d) <= tr.length
  BY DEF HeldOK
<1>6. d.seq \in Nat /\ d.len \in Nat /\ End(d) = d.seq + d.len /\ End(g) \in Nat
  <2>1. d \in Clips /\ g \in Clips
    BY <1>1, <1>3
  <2> QED BY <2>1 DEF Clips, End
<1> QED BY <1>1, <1>3, <1>4, <1>5, <1>6

\* What asm_construct puts together is the datagram, and it fits the buffer.
LEMMA ConstructsWhole ==
    ASSUME NEW tr, HeldOK(tr), tr.last, Constructs(tr)
    PROVE  Exactly(Stretch(tr.frags), tr.length) /\ tr.length <= Room
<1>1. Gaps(tr.frags) = {}
  BY ConstructsMeansNoGap
<1>2. Stretch(tr.frags) = tr.frags
  BY <1>1 DEF Stretch
<1>3. Exactly(tr.frags, tr.length)
  BY <1>1, <1>2, NoGapCovers DEF Constructs
<1>4. \E c \in tr.frags : End(c) = tr.length
  BY DEF HeldOK
<1> QED BY <1>2, <1>3, <1>4 DEF Constructs

\* Conversely, the fragments of a complete datagram leave no gap, include one at 0,
\* and are at least two; only the buffer can be too small.
LEMMA ExactlyConstructs ==
    ASSUME NEW tr, HeldOK(tr), tr.last, Exactly(tr.frags, tr.length)
    PROVE  tr.first /\ (~Constructs(tr) => tr.length > Room)
<1>1. tr.frags \subseteq Clips /\ tr.length \in Nat
  BY DEF HeldOK, Tracs
<1>2. \A d \in tr.frags : d.seq \in Nat /\ d.len \in Nat /\ End(d) \in Nat /\ End(d) = d.seq + d.len
  BY <1>1 DEF Clips, End
<1>3. \A c \in tr.frags : c.len > 0 /\ End(c) <= tr.length
  BY DEF HeldOK
<1>4. PICK e \in tr.frags : End(e) = tr.length /\ e.seq # 0
  BY DEF HeldOK
<1>5. 0 \in 0 .. tr.length - 1
  BY <1>1, <1>2, <1>3, <1>4
<1>6. PICK a \in tr.frags : 0 \in Bytes(a)
  BY <1>5 DEF Exactly
<1>7. a.seq = 0
  BY <1>2, <1>6 DEF Bytes
<1>8. Gaps(tr.frags) = {}
  <2> SUFFICES ASSUME NEW g \in Gaps(tr.frags) PROVE FALSE
    OBVIOUS
  <2>1. g \in tr.frags /\ (\E d \in tr.frags : d.seq > g.seq)
          /\ \A d \in tr.frags : d.seq > g.seq => d.seq > End(g)
    BY DEF Gaps
  <2>2. End(g) \in 0 .. tr.length - 1
    <3>1. PICK d \in tr.frags : d.seq > g.seq
      BY <2>1
    <3>2. d.seq > End(g)
      BY <2>1, <3>1
    <3> QED BY <1>1, <1>2, <1>3, <2>1, <3>2
  <2>3. PICK h \in tr.frags : End(g) \in Bytes(h)
    BY <2>2 DEF Exactly
  <2>4. h.seq <= End(g) /\ End(g) < End(h)
    BY <2>3 DEF Bytes
  <2>5. h # g /\ ~(h.seq > g.seq)
    BY <1>2, <2>1, <2>4
  <2>6. Bytes(g) \cap Bytes(h) = {}
    BY <2>1, <2>5 DEF Exactly
  <2>7. g.seq \in Bytes(g) /\ g.seq \in Bytes(h)
    BY <1>2, <1>3, <2>1, <2>4, <2>5 DEF Bytes
  <2> QED BY <2>6, <2>7
<1>9. Stretch(tr.frags) = tr.frags
  BY <1>8 DEF Stretch
<1>10. Cardinality(tr.frags) > 1
  <2>1. IsFiniteSet(tr.frags)
    BY DEF HeldOK
  <2>2. Cardinality(tr.frags) \in Nat
    BY <2>1, FS_CardinalityType
  <2>3. Cardinality(tr.frags) # 0
    BY <1>4, <2>1, FS_EmptySet
  <2>4. Cardinality(tr.frags) # 1
    <3> SUFFICES ASSUME Cardinality(tr.frags) = 1 PROVE FALSE
      OBVIOUS
    <3>1. PICK x : tr.frags = {x}
      BY <2>1, FS_Singleton
    <3> QED BY <1>4, <1>6, <1>7, <3>1
  <2> QED BY <2>2, <2>3, <2>4
<1>11. tr.first
  BY <1>6, <1>7 DEF HeldOK
<1>12. ASSUME ~Constructs(tr) PROVE tr.length > Room
  <2>1. PICK c \in tr.frags : ~(End(c) <= Room)
    BY <1>6, <1>7, <1>8, <1>9, <1>10, <1>12 DEF Constructs
  <2> QED BY <1>1, <1>2, <1>3, <2>1, DPFragmentsAssumption
<1> QED BY <1>11, <1>12

-----------------------------------------------------------------------------
(* The inductive invariant *)

\* Fragments are told apart by their number, wherever they are held.
Distinct ==
    /\ \A k \in Keys : \A c \in trac[k].frags : c.id <= n
    /\ \A k, l \in Keys : \A c \in trac[k].frags, d \in trac[l].frags :
         c.id = d.id => k = l

\* How often a fragment was sent, by what became of it.
Sends ==
    /\ \A i \in 1 .. MaxFrags : sent[i] <= 2
    /\ \A i \in 1 .. MaxFrags : i > n => sent[i] = 0
    /\ \A i \in 1 .. MaxFrags : sent[i] = 2 => i \in alone
    /\ \A k \in Keys : \A c \in trac[k].frags :
         sent[c.id] <= 1 /\ (sent[c.id] = 1 => c.id \in alone)

FInv ==
    /\ TypeOK
    /\ \A k \in Keys : HeldOK(trac[k])
    /\ Distinct
    /\ Sends
    /\ InspectedExactly
    /\ CompleteNeverHeld

\* What Hold adds is at most the new fragment.
LEMMA HoldFrags ==
    ASSUME NEW tr \in Tracs, NEW c \in Clips, NEW mf \in BOOLEAN
    PROVE  Hold(tr, c, mf).frags = tr.frags \/ Hold(tr, c, mf).frags = tr.frags \cup {c}
<1>1. tr \in [first : BOOLEAN, last : BOOLEAN, length : Nat, frags : SUBSET Clips]
  BY DEF Tracs
<1>2. CASE c.len = 0 \/ Overlaps(tr, c)
  BY <1>2 DEF Hold
<1>3. CASE ~(c.len = 0 \/ Overlaps(tr, c)) /\ ~Fits(tr, c, mf)
  BY <1>1, <1>3 DEF Hold
<1>4. CASE ~(c.len = 0 \/ Overlaps(tr, c)) /\ Fits(tr, c, mf)
  BY <1>1, <1>4 DEF Hold
<1> QED BY <1>2, <1>3, <1>4

\* Receiving a fragment keeps the invariant, in each of its three outcomes.
LEMMA ReceiveKeeps ==
    ASSUME FInv, NEW k \in Keys, NEW seq \in Offsets, NEW len \in Lengths,
           NEW mf \in BOOLEAN, NEW passes \in BOOLEAN, Receive(k, seq, len, mf, passes)
    PROVE  FInv'
<1> DEFINE c == [seq |-> seq, len |-> len, id |-> n + 1]
           tr == Hold(trac[k], c, mf)
<1>1. n < MaxFrags /\ n' = n + 1 /\ (mf \/ seq # 0) /\ n \in Nat /\ n + 1 \in 1 .. MaxFrags
  BY DPFragmentsAssumption DEF Receive, FInv, TypeOK
<1>2. c \in Clips /\ c.id = n + 1 /\ c.seq = seq
  BY <1>1, DPFragmentsAssumption DEF Clips
<1>3. trac \in [Keys -> Tracs] /\ sent \in [1 .. MaxFrags -> Nat] /\ alone \subseteq 1 .. MaxFrags
        /\ n \in 0 .. MaxFrags
  BY DEF FInv, TypeOK
<1>4. HeldOK(tr) /\ tr \in Tracs
  <2>1. HeldOK(trac[k])
    BY DEF FInv
  <2> HIDE DEF c
  <2>2. HeldOK(tr)
    BY <1>1, <1>2, <2>1, HoldKeeps
  <2> QED BY <2>2 DEF HeldOK
<1>5. tr.frags = trac[k].frags \/ tr.frags = trac[k].frags \cup {c}
  <2> HIDE DEF c
  <2> QED BY <1>2, <1>3, HoldFrags
<1>6. Wait(k, tr) \/ PassOn(k, tr, c, passes) \/ Complete(k, tr, passes)
  BY DEF Receive
<1>7. \A l \in Keys : \A d \in trac[l].frags : d.id \in 1 .. MaxFrags
  BY <1>3 DEF Tracs, Clips
<1>8. \A l \in Keys : \A d \in trac[l].frags : d.id <= n
  BY DEF FInv, Distinct
<1>9. \A l, j \in Keys : \A d \in trac[l].frags, e \in trac[j].frags : d.id = e.id => l = j
  BY DEF FInv, Distinct
<1> HIDE DEF c, tr
<1>10. ASSUME trac' = [trac EXCEPT ![k] = tr]
       PROVE  /\ trac' \in [Keys -> Tracs]
              /\ \A l \in Keys : HeldOK(trac'[l])
              /\ Distinct'
  <2>1. trac' \in [Keys -> Tracs] /\ trac'[k] = tr /\ \A l \in Keys \ {k} : trac'[l] = trac[l]
    BY <1>3, <1>4, <1>10
  <2>2. \A l \in Keys : HeldOK(trac'[l])
    BY <1>4, <2>1 DEF FInv
  <2>3. \A l \in Keys : \A d \in trac'[l].frags : d.id <= n'
    <3>1. ASSUME NEW l \in Keys, NEW d \in trac'[l].frags PROVE d.id <= n'
      <4>1. CASE l = k /\ d = c
        BY <1>1, <1>2, <4>1
      <4>2. CASE ~(l = k /\ d = c)
        <5>1. d \in trac[l].frags
          BY <1>5, <2>1, <4>2
        <5>2. d.id <= n /\ d.id \in Nat
          BY <1>7, <1>8, <5>1
        <5> QED BY <1>1, <5>2
      <4> QED BY <4>1, <4>2
    <3> QED BY <3>1
  <2>4. \A l, j \in Keys : \A d \in trac'[l].frags, e \in trac'[j].frags : d.id = e.id => l = j
    <3> SUFFICES ASSUME NEW l \in Keys, NEW j \in Keys, NEW d \in trac'[l].frags,
                        NEW e \in trac'[j].frags, d.id = e.id, l # j
                 PROVE  FALSE
      OBVIOUS
    <3>1. (l = k /\ d = c) \/ d \in trac[l].frags
      BY <1>5, <2>1
    <3>2. (j = k /\ e = c) \/ e \in trac[j].frags
      BY <1>5, <2>1
    <3>3. CASE d \in trac[l].frags /\ e \in trac[j].frags
      BY <1>9, <3>3
    <3>4. CASE l = k /\ d = c /\ e \in trac[j].frags
      BY <1>1, <1>2, <1>7, <1>8, <3>4
    <3>5. CASE j = k /\ e = c /\ d \in trac[l].frags
      BY <1>1, <1>2, <1>7, <1>8, <3>5
    <3> QED BY <3>1, <3>2, <3>3, <3>4, <3>5
  <2> QED BY <2>1, <2>2, <2>3, <2>4 DEF Distinct
<1>11. ASSUME trac' = [trac EXCEPT ![k] = tr], ~(tr.first /\ tr.last /\ Constructs(tr))
       PROVE  CompleteNeverHeld'
  <2>1. trac'[k] = tr /\ \A l \in Keys \ {k} : trac'[l] = trac[l]
    BY <1>3, <1>11
  <2>2. tr.last /\ Exactly(tr.frags, tr.length) => tr.length > Room
    BY <1>4, <1>11, ExactlyConstructs
  <2> QED BY <2>1, <2>2 DEF CompleteNeverHeld, FInv
<1>12. sent[n + 1] = 0
  BY <1>1 DEF FInv, Sends
<1>13. CASE Wait(k, tr)
  <2>1. trac' = [trac EXCEPT ![k] = tr] /\ whole' = Nothing /\ sent' = sent /\ alone' = alone
          /\ ~(tr.first /\ tr.last)
    BY <1>13 DEF Wait
  <2>2. TypeOK'
    BY <1>1, <1>3, <1>10, <2>1, DPFragmentsAssumption DEF TypeOK
  <2>3. Sends'
    <3>1. trac'[k] = tr /\ \A l \in Keys \ {k} : trac'[l] = trac[l]
      BY <1>3, <2>1
    <3>2. \A l \in Keys : \A d \in trac'[l].frags :
            sent'[d.id] <= 1 /\ (sent'[d.id] = 1 => d.id \in alone')
      BY <1>2, <1>5, <1>12, <2>1, <3>1 DEF FInv, Sends
    <3>3. \A i \in 1 .. MaxFrags : i > n' => sent'[i] = 0
      BY <1>1, <2>1 DEF FInv, Sends
    <3> QED BY <2>1, <3>2, <3>3 DEF FInv, Sends
  <2>4. InspectedExactly'
    BY <2>1 DEF InspectedExactly
  <2> QED BY <1>10, <1>11, <2>1, <2>2, <2>3, <2>4 DEF FInv
<1>14. CASE PassOn(k, tr, c, passes)
  <2>1. trac' = [trac EXCEPT ![k] = tr] /\ whole' = Nothing /\ ~Constructs(tr)
    BY <1>14 DEF PassOn
  <2>2. \/ sent' = sent /\ alone' = alone
        \/ /\ sent' = [i \in 1 .. MaxFrags |-> IF n + 1 = i THEN 1 ELSE sent[i]]
           /\ alone' = alone \cup {n + 1}
    <3>1. CASE ~(passes /\ ~(c.len > 0 /\ Overlaps(trac[k], c)))
      BY <1>14, <3>1 DEF PassOn
    <3>2. CASE passes /\ ~(c.len > 0 /\ Overlaps(trac[k], c))
      <4>1. SendAll({c}) /\ alone' = alone \cup {n + 1}
        BY <1>2, <1>14, <3>2 DEF PassOn
      <4>2. sent' = [i \in 1 .. MaxFrags |-> IF n + 1 = i THEN sent[i] + 1 ELSE sent[i]]
        BY <1>2, <1>3, <4>1 DEF SendAll
      <4>3. sent' = [i \in 1 .. MaxFrags |-> IF n + 1 = i THEN 1 ELSE sent[i]]
        BY <1>12, <4>2
      <4> QED BY <4>1, <4>3
    <3> QED BY <3>1, <3>2
  <2>3. TypeOK'
    <3>1. sent' \in [1 .. MaxFrags -> Nat]
      BY <1>3, <2>2
    <3>2. alone' \subseteq 1 .. MaxFrags
      BY <1>1, <1>3, <2>2
    <3>3. n' \in 0 .. MaxFrags
      BY <1>1
    <3> QED BY <1>10, <2>1, <3>1, <3>2, <3>3 DEF TypeOK
  <2>4. Sends'
    <3>1. trac'[k] = tr /\ \A l \in Keys \ {k} : trac'[l] = trac[l]
      BY <1>3, <2>1
    <3>2. \A i \in 1 .. MaxFrags : i # n + 1 => sent'[i] = sent[i]
      BY <1>3, <2>2
    <3>3. sent'[n + 1] = 0 \/ (sent'[n + 1] = 1 /\ n + 1 \in alone')
      BY <1>1, <1>3, <1>12, <2>2
    <3>4. alone \subseteq alone'
      BY <2>2
    <3>5. ASSUME NEW l \in Keys, NEW d \in trac'[l].frags
          PROVE  sent'[d.id] <= 1 /\ (sent'[d.id] = 1 => d.id \in alone')
      <4>1. CASE d = c
        BY <1>2, <3>3, <4>1
      <4>2. CASE d # c
        <5>1. d \in trac[l].frags
          BY <1>5, <3>1, <4>2
        <5>2. d.id # n + 1 /\ d.id \in 1 .. MaxFrags
          BY <1>1, <1>7, <1>8, <5>1
        <5> QED BY <3>2, <3>4, <5>1, <5>2 DEF FInv, Sends
      <4> QED BY <4>1, <4>2
    <3>6. \A i \in 1 .. MaxFrags :
            /\ sent'[i] <= 2
            /\ i > n' => sent'[i] = 0
            /\ sent'[i] = 2 => i \in alone'
      BY <1>1, <3>2, <3>3, <3>4 DEF FInv, Sends
    <3> QED BY <3>5, <3>6 DEF Sends
  <2>5. InspectedExactly'
    BY <2>1 DEF InspectedExactly
  <2> QED BY <1>10, <1>11, <2>1, <2>3, <2>4, <2>5 DEF FInv
<1>15. CASE Complete(k, tr, passes)
  <2>1. /\ tr.last /\ Constructs(tr)
        /\ trac' = [trac EXCEPT ![k] = NoTrac]
        /\ whole' = [frags |-> Stretch(tr.frags), length |-> tr.length]
        /\ alone' = alone
    BY <1>15 DEF Complete
  <2>2. trac' \in [Keys -> Tracs] /\ trac'[k] = NoTrac /\ \A l \in Keys \ {k} : trac'[l] = trac[l]
    BY <1>3, <2>1 DEF NoTrac, Tracs
  <2>3. NoTrac.frags = {} /\ NoTrac.last = FALSE /\ HeldOK(NoTrac)
    BY FS_EmptySet DEF NoTrac, HeldOK, Tracs
  <2>4. \A i \in 1 .. MaxFrags :
          \/ sent'[i] = sent[i]
          \/ sent'[i] = sent[i] + 1 /\ \E d \in tr.frags : d.id = i
    <3>1. CASE ~passes
      BY <1>15, <3>1 DEF Complete
    <3>2. CASE passes
      BY <1>3, <1>15, <3>2 DEF Complete, SendAll
    <3> QED BY <3>1, <3>2
  <2>5. sent' \in [1 .. MaxFrags -> Nat]
    BY <1>3, <1>15 DEF Complete, SendAll
  <2>6. TypeOK'
    BY <1>1, <1>3, <2>1, <2>2, <2>5, DPFragmentsAssumption DEF TypeOK
  <2>7. Distinct'
    <3>1. \A l \in Keys : \A d \in trac'[l].frags : l # k /\ d \in trac[l].frags
      BY <2>2, <2>3
    <3>2. \A l \in Keys : \A d \in trac'[l].frags : d.id <= n'
      BY <1>1, <1>7, <1>8, <3>1
    <3> QED BY <1>9, <3>1, <3>2 DEF Distinct
  <2>8. Sends'
    <3>1. \A d \in tr.frags : sent[d.id] <= 1 /\ (sent[d.id] = 1 => d.id \in alone) /\ d.id <= n + 1
      BY <1>1, <1>2, <1>5, <1>7, <1>8, <1>12 DEF FInv, Sends
    <3>2. \A i \in 1 .. MaxFrags :
            /\ sent'[i] <= 2
            /\ i > n' => sent'[i] = 0
            /\ sent'[i] = 2 => i \in alone'
      BY <1>1, <1>3, <2>1, <2>4, <3>1 DEF FInv, Sends
    <3>3. ASSUME NEW l \in Keys, NEW d \in trac'[l].frags
          PROVE  sent'[d.id] <= 1 /\ (sent'[d.id] = 1 => d.id \in alone')
      <4>1. l # k /\ d \in trac[l].frags
        BY <2>2, <2>3
      <4>2. \A e \in tr.frags : e.id # d.id
        <5> SUFFICES ASSUME NEW e \in tr.frags, e.id = d.id PROVE FALSE
          OBVIOUS
        <5>1. CASE e = c
          BY <1>1, <1>2, <1>7, <1>8, <4>1, <5>1
        <5>2. CASE e \in trac[k].frags
          BY <1>9, <4>1, <5>2
        <5> QED BY <1>5, <5>1, <5>2
      <4>3. sent'[d.id] = sent[d.id]
        BY <1>7, <2>4, <4>1, <4>2
      <4> QED BY <2>1, <4>1, <4>3 DEF FInv, Sends
    <3> QED BY <3>2, <3>3 DEF Sends
  <2>9. InspectedExactly'
    BY <1>4, <2>1, ConstructsWhole DEF InspectedExactly
  <2>10. CompleteNeverHeld'
    BY <2>2, <2>3 DEF FInv, CompleteNeverHeld
  <2>11. \A l \in Keys : HeldOK(trac'[l])
    BY <2>2, <2>3 DEF FInv
  <2> QED BY <2>6, <2>7, <2>8, <2>9, <2>10, <2>11 DEF FInv
<1> QED BY <1>6, <1>13, <1>14, <1>15

\* The timeout of a datagram keeps the invariant.
LEMMA ReleaseKeeps ==
    ASSUME FInv, NEW k \in Keys, Release(k)
    PROVE  FInv'
<1>1. trac' = [trac EXCEPT ![k] = NoTrac] /\ whole' = Nothing /\ n' = n /\ sent' = sent /\ alone' = alone
  BY DEF Release
<1>2. trac' \in [Keys -> Tracs] /\ trac'[k] = NoTrac /\ \A l \in Keys \ {k} : trac'[l] = trac[l]
  BY <1>1 DEF NoTrac, Tracs, FInv, TypeOK
<1>3. NoTrac.frags = {} /\ NoTrac.last = FALSE /\ HeldOK(NoTrac)
  BY FS_EmptySet DEF NoTrac, HeldOK, Tracs
<1>4. \A l \in Keys : \A d \in trac'[l].frags : d \in trac[l].frags
  BY <1>2, <1>3
<1>5. TypeOK'
  BY <1>1, <1>2 DEF FInv, TypeOK
<1>6. Distinct'
  BY <1>1, <1>4 DEF FInv, Distinct
<1>7. Sends'
  BY <1>1, <1>4 DEF FInv, Sends
<1>8. InspectedExactly'
  BY <1>1 DEF InspectedExactly
<1>9. CompleteNeverHeld'
  BY <1>2, <1>3 DEF FInv, CompleteNeverHeld
<1>10. \A l \in Keys : HeldOK(trac'[l])
  BY <1>2, <1>3 DEF FInv
<1> QED BY <1>5, <1>6, <1>7, <1>8, <1>9, <1>10 DEF FInv

\* The invariant holds in every reachable state.
THEOREM FragmentsInvariant == Spec => []FInv
<1>1. Init => FInv
  <2> SUFFICES ASSUME Init PROVE FInv
    OBVIOUS
  <2>1. NoTrac \in Tracs /\ NoTrac.frags = {} /\ NoTrac.last = FALSE /\ HeldOK(NoTrac)
    BY FS_EmptySet DEF NoTrac, HeldOK, Tracs
  <2>2. TypeOK
    BY <2>1, DPFragmentsAssumption DEF Init, TypeOK
  <2> QED BY <2>1, <2>2 DEF Init, FInv, Distinct, Sends, InspectedExactly, CompleteNeverHeld
<1>2. FInv /\ [Next]_vars => FInv'
  <2> SUFFICES ASSUME FInv, [Next]_vars PROVE FInv'
    OBVIOUS
  <2>1. CASE UNCHANGED vars
    BY <2>1 DEF vars, FInv, TypeOK, Distinct, Sends, InspectedExactly, CompleteNeverHeld
  <2>2. CASE Next
    BY <2>2, ReceiveKeeps, ReleaseKeeps DEF Next
  <2> QED BY <2>1, <2>2
<1> QED BY <1>1, <1>2, PTL DEF Spec

\* Whatever order the fragments come in, only a datagram covered from its first to
\* its last byte exactly once is inspected.
THEOREM InspectedDatagramsAreWhole == Spec => []InspectedExactly
<1>1. FInv => InspectedExactly
  BY DEF FInv
<1> QED BY <1>1, FragmentsInvariant, PTL

\* The fragment that completes a datagram releases it.
THEOREM CompleteDatagramsLeave == Spec => []CompleteNeverHeld
<1>1. FInv => CompleteNeverHeld
  BY DEF FInv
<1> QED BY <1>1, FragmentsInvariant, PTL

\* A fragment is sent once, or twice if it was first let through by itself.
THEOREM FragmentsSentOnce == Spec => []SentOnceUnlessAlone
<1>1. FInv => SentOnceUnlessAlone
  <2> SUFFICES ASSUME FInv PROVE SentOnceUnlessAlone
    OBVIOUS
  <2>1. n \in 0 .. MaxFrags /\ sent \in [1 .. MaxFrags -> Nat] /\ trac \in [Keys -> Tracs]
    BY DEF FInv, TypeOK
  <2>2. \A i \in 1 .. n : sent[i] > 1 => i \in alone /\ sent[i] = 2
    BY <2>1, DPFragmentsAssumption DEF FInv, Sends
  <2>3. \A k \in Keys : \A c \in trac[k].frags : c.id \in 1 .. MaxFrags
    BY <2>1 DEF Tracs, Clips
  <2>4. \A k \in Keys : \A c \in trac[k].frags : sent[c.id] > 0 => c.id \in alone
    BY <2>1, <2>3 DEF FInv, Sends
  <2> QED BY <2>2, <2>4 DEF SentOnceUnlessAlone
<1> QED BY <1>1, FragmentsInvariant, PTL
=============================================================================
