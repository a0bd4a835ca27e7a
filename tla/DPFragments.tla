---------------------------- MODULE DPFragments ----------------------------
(***************************************************************************)
(* Reassembly of IPv4 fragments in a data thread (internal/dp/dpi/         *)
(* dpi_frag.c, utils/asm.c, and the delivery in dpi_packet.c and           *)
(* dpi_entry.c).  Fragments of one datagram arrive in any order, twice or  *)
(* overlapping.  They are held until the datagram can be put together,     *)
(* which is then inspected; its fragments are sent or discarded together.  *)
(* A fragment is its position, its length and the more-fragments bit; the  *)
(* number of its arrival tells two copies apart.  Allocation failures and  *)
(* the NFQUEUE mode, in which the kernel keeps the packets, are left out.  *)
(***************************************************************************)
EXTENDS Naturals, FiniteSets

CONSTANTS
    Keys,      \* (source, destination, IP identification, direction)
    Offsets,   \* positions a fragment can start at (multiples of 8 in the code)
    Lengths,   \* payload lengths
    Room,      \* bytes the reassembly buffer has room for
    MaxFrags   \* bound: fragments received in a behaviour

ASSUME DPFragmentsAssumption ==
    /\ Offsets \subseteq Nat /\ Lengths \subseteq Nat
    /\ Room \in Nat /\ MaxFrags \in Nat

VARIABLES
    trac,   \* th_ip4frag_map: key -> fragments held, NoTrac if absent (a new entry
            \* that holds nothing yet behaves like an absent one)
    n,      \* fragments received so far
    sent,   \* how often each of them was sent
    alone,  \* those that were inspected and sent by themselves
    whole   \* the datagram put together by the last step, Nothing if none

vars == <<trac, n, sent, alone, whole>>

Clips == [seq : Nat, len : Nat, id : 1 .. MaxFrags]
Tracs == [first : BOOLEAN, last : BOOLEAN, length : Nat, frags : SUBSET Clips]
NoTrac == [first |-> FALSE, last |-> FALSE, length |-> 0, frags |-> {}]
Nothing == [frags |-> {}, length |-> 0]
End(c) == c.seq + c.len

-----------------------------------------------------------------------------
(* ipfrag_hold *)

\* teardrop_check against every fragment held (u32_overlap)
Overlaps(tr, c) == \E d \in tr.frags : c.seq < End(d) /\ d.seq < End(c)

\* Mutant: a last fragment that ends before one already held is accepted.
FitsShort(tr, c, mf) ==
    IF mf THEN End(c) > tr.length => ~tr.last
    ELSE tr.last => End(c) = tr.length

\* The end of the datagram: once the last fragment is known nothing may lie beyond
\* it, and a last fragment may not end before what is held.
Fits(tr, c, mf) ==
    IF mf THEN End(c) > tr.length => ~tr.last
    ELSE End(c) >= tr.length /\ (tr.last => End(c) = tr.length)

\* Mutant: the first fragment is noted only while the last one is missing.
HoldFirstLate(tr, c, mf) ==
    IF c.len = 0 \/ Overlaps(tr, c) THEN tr
    ELSE LET tr1 == [tr EXCEPT !.first = @ \/ (c.seq = 0 /\ ~tr.last)] IN
         IF ~Fits(tr, c, mf) THEN tr1
         ELSE [tr1 EXCEPT !.last = @ \/ ~mf,
                          !.length = IF mf /\ End(c) <= @ THEN @ ELSE End(c),
                          !.frags = @ \cup {c}]

\* first is set before the fragment is refused, last and length are not.
Hold(tr, c, mf) ==
    IF c.len = 0 \/ Overlaps(tr, c) THEN tr
    ELSE LET tr1 == [tr EXCEPT !.first = @ \/ c.seq = 0] IN
         IF ~Fits(tr, c, mf) THEN tr1
         ELSE [tr1 EXCEPT !.last = @ \/ ~mf,
                          !.length = IF mf /\ End(c) <= @ THEN @ ELSE End(c),
                          !.frags = @ \cup {c}]

-----------------------------------------------------------------------------
(* asm_construct with target 0 and must_have = length - 1 *)

\* The fragments after which there is a gap.
Gaps(C) ==
    {c \in C : /\ \E d \in C : d.seq > c.seq
               /\ \A d \in C : d.seq > c.seq => d.seq > End(c)}

FirstGap(C) == CHOOSE g \in Gaps(C) : \A h \in Gaps(C) : g.seq <= h.seq

\* The fragments up to the first gap.
Stretch(C) ==
    IF Gaps(C) = {} THEN C ELSE {c \in C : c.seq <= FirstGap(C).seq}

Constructs(tr) ==
    LET C == tr.frags
        S == Stretch(C)
    IN  /\ Gaps(C) # {} => End(FirstGap(C)) + 1 >= tr.length
        /\ Cardinality(S) > 1
        /\ \E c \in S : c.seq = 0
        /\ \A c \in S : End(c) <= Room

-----------------------------------------------------------------------------
(* dpi_ip_defrag, called by dpi_parse_ipv4, and what dpi_recv_packet does then *)

SendAll(C) == sent' = [i \in DOMAIN sent |-> IF \E c \in C : c.id = i THEN sent[i] + 1 ELSE sent[i]]

\* Not put together yet and an end still missing: the fragment is held or lost.
Wait(k, tr) ==
    /\ ~(tr.first /\ tr.last)
    /\ trac' = [trac EXCEPT ![k] = tr]
    /\ whole' = Nothing
    /\ UNCHANGED <<sent, alone>>

\* Both ends are known and asm_construct fails.  ipfrag_construct returns -1 as a
\* bool, which its caller does not take for a failure: the fragment is inspected
\* as a packet of its own, and sent if it passes, while it is held as well.
PassOn(k, tr, c, passes) ==
    /\ tr.first /\ tr.last /\ ~Constructs(tr)
    /\ trac' = [trac EXCEPT ![k] = tr]
    /\ whole' = Nothing
    /\ IF passes /\ ~(c.len > 0 /\ Overlaps(trac[k], c))
       THEN SendAll({c}) /\ alone' = alone \cup {c.id}
       ELSE UNCHANGED <<sent, alone>>

\* Mutant: the map keeps the fragments after they were sent.
CompleteKept(k, tr, passes) ==
    /\ tr.first /\ tr.last /\ Constructs(tr)
    /\ trac' = [trac EXCEPT ![k] = IF passes THEN tr ELSE NoTrac]
    /\ whole' = [frags |-> Stretch(tr.frags), length |-> tr.length]
    /\ IF passes THEN SendAll(tr.frags) ELSE sent' = sent
    /\ UNCHANGED alone

\* The datagram is complete: it leaves the map, is inspected, and all its
\* fragments are sent or discarded.
Complete(k, tr, passes) ==
    /\ tr.first /\ tr.last /\ Constructs(tr)
    /\ trac' = [trac EXCEPT ![k] = NoTrac]
    /\ whole' = [frags |-> Stretch(tr.frags), length |-> tr.length]
    /\ IF passes THEN SendAll(tr.frags) ELSE sent' = sent
    /\ UNCHANGED alone

Receive(k, seq, len, mf, passes) ==
    /\ n < MaxFrags
    /\ mf \/ seq # 0   \* otherwise it is not a fragment
    /\ n' = n + 1
    /\ LET c == [seq |-> seq, len |-> len, id |-> n + 1]
           tr == Hold(trac[k], c, mf)
       IN  Wait(k, tr) \/ PassOn(k, tr, c, passes) \/ Complete(k, tr, passes)

\* ipfrag_release: ten seconds without a fragment; what is held is lost.
Release(k) ==
    /\ trac[k] # NoTrac
    /\ trac' = [trac EXCEPT ![k] = NoTrac]
    /\ whole' = Nothing
    /\ UNCHANGED <<n, sent, alone>>

-----------------------------------------------------------------------------
Init ==
    /\ trac = [k \in Keys |-> NoTrac]
    /\ n = 0
    /\ sent = [i \in 1 .. MaxFrags |-> 0]
    /\ alone = {}
    /\ whole = Nothing

Next ==
    \E k \in Keys :
        \/ \E seq \in Offsets, len \in Lengths, mf, passes \in BOOLEAN :
             Receive(k, seq, len, mf, passes)
        \/ Release(k)

Spec == Init /\ [][Next]_vars

-----------------------------------------------------------------------------
(* Properties *)

Bytes(c) == {b \in 0 .. End(c) : c.seq <= b /\ b < End(c)}

\* The fragments cover the bytes 0 .. length - 1, each exactly once.
Exactly(C, length) ==
    /\ \A c \in C : End(c) <= length
    /\ \A b \in 0 .. length - 1 : \E c \in C : b \in Bytes(c)
    /\ \A c, d \in C : c # d => Bytes(c) \cap Bytes(d) = {}

\* Type invariant of the reassembly.
TypeOK ==
    /\ trac \in [Keys -> Tracs]
    /\ n \in 0 .. MaxFrags
    /\ sent \in [1 .. MaxFrags -> Nat]
    /\ alone \subseteq 1 .. MaxFrags

\* A datagram is inspected only if its fragments cover it from the first to the
\* last byte exactly once: asm_construct looks for the end of the datagram only at
\* gaps, and relies on what ipfrag_hold let in.
InspectedExactly ==
    whole # Nothing => Exactly(whole.frags, whole.length) /\ whole.length <= Room

\* A complete datagram never waits for its timeout: the fragment that fills the
\* last hole, whichever it is, releases it.
CompleteNeverHeld ==
    \A k \in Keys :
        LET tr == trac[k] IN
        tr.last /\ Exactly(tr.frags, tr.length)
            => tr.length > Room

\* No fragment is sent twice, none that is held has been sent, except those the
\* unnoticed failure of ipfrag_construct let through by themselves.
SentOnceUnlessAlone ==
    /\ \A i \in 1 .. n : sent[i] > 1 => i \in alone /\ sent[i] = 2
    /\ \A k \in Keys : \A c \in trac[k].frags : sent[c.id] > 0 => c.id \in alone
=============================================================================
