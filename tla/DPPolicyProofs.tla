-------------------------- MODULE DPPolicyProofs --------------------------
(***************************************************************************)
(* Proofs about DPPolicy, for any number of MACs, data threads and tables. *)
(* The argument is the one the code relies on and nowhere states: ref_cnt  *)
(* of a table is the number of endpoints that refer to it, plus one while  *)
(* dpi_policy_update has replaced it and not yet given its reference back. *)
(* So a table that is destroyed when its count reaches zero is referred to *)
(* by no endpoint, no data thread can find it any more, and those that     *)
(* found it before are among the read sections that were waited for.       *)
(* IInv says this of every point where the control thread can be between   *)
(* two accesses to shared state; one lemma per action shows it is kept.    *)
(* VInv, the second invariant, is about the versions by which a session    *)
(* finds out that it has to be judged again.  The last part is about the   *)
(* contents of a table, DPRules: RulesInv, that its entries are entries of *)
(* the rules, and OrderInv, that they keep the order of the rules.         *)
(***************************************************************************)
EXTENDS DPPolicy, DPRules, LeastElement, FiniteSetTheorems, SequenceTheorems, TLAPS

\* Values of a policy_hdl pointer: NULL or a table.
Handles == 0 .. MaxTables

\* What a data thread works on: nothing, or a packet of an endpoint.
Readers ==
    {Out} \cup [pc : {"found", "read", "judged"}, m : Macs, ep : Objects, hdl : Handles,
                off : BOOLEAN, fresh : BOOLEAN]

\* Where the control thread can be, with the local variables it has there.
CtlOK ==
    \/ ctl = Idle
    \/ ctl \in [pc : {"hdl"}, macs : Seq(Macs)]
    \/ ctl \in [pc : {"ver", "drop"}, macs : Seq(Macs), old : Handles] /\ ctl.macs # << >>
    \/ ctl \in [pc : {"remap", "replaced", "deleted"}, m : Macs, old : Objects]
    \/ ctl \in [pc : {"ask"}, m : Macs, asked : SUBSET Threads]

\* The types the other parts need; tables are allocated in the order of their
\* numbers, and the staged table is one of them.
Types ==
    /\ epMap \in [Macs -> 0 .. 2]
    /\ epHdl \in [Objects -> Handles]
    /\ liveEps \subseteq Objects /\ IsFiniteSet(liveEps)
    /\ tables \in Nat /\ refCnt \in [Tables -> Nat]
    /\ live \subseteq Tables /\ \A h \in live : h <= tables
    /\ staged \in live \cup {0}
    /\ disabled \in BOOLEAN
    /\ CtlOK
    /\ rd \in [Threads -> Readers]

\* An endpoint object has left the map and is not freed yet.
Leaving == ctl.pc \in {"remap", "replaced", "deleted"}

\* The other object of the same MAC.
Twin(o) == <<o[1], 3 - o[2]>>

\* The map and the allocated objects agree, but for the object that leaves and
\* the twin that replaces it, which has its table.
Endpoints ==
    /\ \A m \in Macs : epMap[m] # 0 => Obj(m) \in liveEps
    /\ \A o \in liveEps :
          \/ epMap[o[1]] = o[2]
          \/ Leaving /\ o = ctl.old
          \/ ctl.pc = "remap" /\ o = Twin(ctl.old)
    /\ Leaving => /\ ctl.old \in liveEps /\ ctl.old[1] = ctl.m
                  /\ epMap[ctl.m] # ctl.old[2]
    /\ ctl.pc \in {"remap", "deleted"} => epMap[ctl.m] = 0
    /\ ctl.pc \in {"remap", "replaced"} =>
          Twin(ctl.old) \in liveEps /\ epHdl[Twin(ctl.old)] = epHdl[ctl.old]

\* Every handle stored somewhere is NULL or an allocated table.
Referred ==
    /\ \A o \in Objects : epHdl[o] \in live \cup {0}
    /\ \A o \in Objects \ liveEps : epHdl[o] = 0
    /\ ctl.pc \in {"ver", "drop"} => ctl.old \in live \cup {0}
    /\ ctl.pc = "drop" => ctl.old # 0

\* The reference that dpi_policy_update took over from an endpoint.
Given(h) == IF ctl.pc \in {"ver", "drop"} /\ ctl.old = h THEN 1 ELSE 0

\* The reference counts are exact.
Counted == \A h \in Tables : refCnt[h] = Cardinality(Holders(h)) + Given(h)

\* A table is allocated only while it is staged or counts a reference.
Used == \A h \in live : h = staged \/ refCnt[h] > 0

\* The staged table has no reference before it is handed out; while it is being
\* handed out, the endpoint at hand already refers to it.
StagedOK ==
    /\ staged # 0 /\ ctl.pc \notin {"hdl", "ver", "drop"} => refCnt[staged] = 0
    /\ ctl.pc \in {"ver", "drop"} =>
          epMap[Head(ctl.macs)] # 0 /\ epHdl[Obj(Head(ctl.macs))] = staged

\* What a data thread in a read section can hold: an allocated endpoint and an
\* allocated table; and if the control thread is about to free either of them,
\* the section is one it waits for.
ReaderOK(t) ==
    /\ rd[t].ep \in liveEps
    /\ rd[t].hdl \in live \cup {0}
    /\ rd[t].pc # "read" => rd[t].hdl = 0
    /\ staged # 0 /\ refCnt[staged] = 0 => rd[t].hdl # staged
    /\ ctl.pc \in {"replaced", "deleted"} /\ rd[t].ep = ctl.old => t \in waiting
    /\ ctl.pc = "drop" /\ rd[t].hdl = ctl.old /\ refCnt[ctl.old] < 2 => t \in waiting
    /\ ctl.pc = "deleted" /\ rd[t].hdl # 0 /\ rd[t].hdl = epHdl[ctl.old]
          /\ refCnt[rd[t].hdl] < 2 => t \in waiting

\* It holds for every thread in a read section.
ReadersOK == \A t \in InSection : ReaderOK(t)

\* The inductive invariant.
IInv == Types /\ Endpoints /\ Referred /\ Counted /\ Used /\ StagedOK /\ ReadersOK

-----------------------------------------------------------------------------
\* The program counter of the control thread tells which local variables it has.
LEMMA CtlShape ==
    ASSUME CtlOK
    PROVE  /\ ctl.pc = "hdl" => ctl \in [pc : {"hdl"}, macs : Seq(Macs)]
           /\ ctl.pc \in {"ver", "drop"} =>
                 /\ ctl \in [pc : {"ver", "drop"}, macs : Seq(Macs), old : Handles]
                 /\ ctl.macs # << >>
           /\ ctl.pc \in {"remap", "replaced", "deleted"} =>
                 ctl \in [pc : {"remap", "replaced", "deleted"}, m : Macs, old : Objects]
           /\ ctl.pc = "ask" => ctl \in [pc : {"ask"}, m : Macs, asked : SUBSET Threads]
           /\ ctl.pc \in {"idle", "hdl", "ver", "drop", "remap", "replaced", "deleted", "ask"}
           /\ ctl.pc = "idle" => ctl = Idle
BY DEF CtlOK, Idle

\* So does the one of a data thread.
LEMMA RdShape ==
    ASSUME rd \in [Threads -> Readers], NEW t \in Threads
    PROVE  /\ rd[t].pc \in {"out", "found", "read", "judged"}
           /\ rd[t].pc = "out" => rd[t] = Out
           /\ rd[t].pc # "out" =>
                 rd[t] \in [pc : {"found", "read", "judged"}, m : Macs, ep : Objects,
                            hdl : Handles, off : BOOLEAN, fresh : BOOLEAN]
BY DEF Readers, Out

\* Writing an endpoint leaves what the data threads hold as it is.
LEMMA UnsettleFacts ==
    ASSUME Types, NEW m \in Macs, Unsettle(m)
    PROVE  /\ rd' \in [Threads -> Readers]
           /\ InSection' = InSection
           /\ \A t \in Threads : rd'[t].pc = rd[t].pc
           /\ \A t \in InSection : rd'[t].ep = rd[t].ep /\ rd'[t].hdl = rd[t].hdl
<1>1. rd \in [Threads -> Readers]
  BY DEF Types
<1>2. ASSUME NEW t \in Threads
      PROVE  /\ rd'[t] \in Readers
             /\ rd'[t].pc = rd[t].pc
             /\ rd[t].pc # "out" => rd'[t].ep = rd[t].ep /\ rd'[t].hdl = rd[t].hdl
  <2>1. CASE rd[t].pc # "out" /\ rd[t].m = m
    <3>1. rd'[t] = [rd[t] EXCEPT !.fresh = FALSE]
      BY <2>1 DEF Unsettle
    <3>2. rd[t] \in [pc : {"found", "read", "judged"}, m : Macs, ep : Objects,
                     hdl : Handles, off : BOOLEAN, fresh : BOOLEAN]
      BY <1>1, <2>1, RdShape
    <3> QED BY <3>1, <3>2 DEF Readers
  <2>2. CASE ~(rd[t].pc # "out" /\ rd[t].m = m)
    <3>1. rd'[t] = rd[t]
      BY <2>2 DEF Unsettle
    <3> QED BY <1>1, <3>1
  <2> QED BY <2>1, <2>2
<1>3. rd' \in [Threads -> Readers]
  BY <1>2 DEF Unsettle
<1> QED BY <1>2, <1>3 DEF InSection

\* A step of a data thread that keeps its own part of the invariant keeps all
\* of it.
LEMMA DataFrame ==
    ASSUME IInv, UNCHANGED <<epMap, epHdl, liveEps, tables, refCnt, live, staged, disabled, ctl>>,
           rd' \in [Threads -> Readers], ReadersOK'
    PROVE  IInv'
<1>1. Types'
  BY DEF IInv, Types, CtlOK
<1>2. Endpoints' /\ Referred' /\ Used' /\ StagedOK'
  BY DEF IInv, Endpoints, Referred, Used, StagedOK, Leaving, Obj
<1>3. Counted'
  BY DEF IInv, Counted, Holders, Given
<1> QED BY <1>1, <1>2, <1>3 DEF IInv

\* The endpoint found for a packet is in the map, so it is not about to be freed.
LEMMA RecvPacketKeeps ==
    ASSUME IInv, NEW t \in Threads, NEW m \in Busy, RecvPacket(t, m)
    PROVE  IInv'
<1>0. m \in Macs
  BY DPPolicyAssumption
<1>1. /\ UNCHANGED <<epMap, epHdl, liveEps, tables, refCnt, live, staged, disabled, ctl>>
      /\ waiting' = waiting
  BY DEF RecvPacket, eps, tabs
<1>2. Obj(m) \in Objects /\ Obj(m) \in liveEps
  BY <1>0 DEF IInv, Types, Endpoints, RecvPacket, Obj, Objects
<1> DEFINE f == ~(ctl.pc = "ver" /\ Head(ctl.macs) = m)
           r == [pc |-> "found", m |-> m, ep |-> Obj(m), hdl |-> 0, off |-> disabled, fresh |-> f]
<1>3. rd' = [rd EXCEPT ![t] = r]
  BY DEF RecvPacket
<1>4. f \in BOOLEAN
  OBVIOUS
<1> HIDE DEF f
<1>5. 0 \in Handles
  BY DPPolicyAssumption DEF Handles
<1>6. r \in Readers
  BY <1>0, <1>2, <1>4, <1>5 DEF IInv, Types, Readers
<1>7. r.pc = "found" /\ r.ep = Obj(m) /\ r.hdl = 0
  OBVIOUS
<1> HIDE DEF r
<1>8. rd' \in [Threads -> Readers]
  BY <1>3, <1>6 DEF IInv, Types
<1>9. ctl.pc \in {"replaced", "deleted"} => Obj(m) # ctl.old
  BY <1>0, CtlShape DEF IInv, Types, Endpoints, Leaving, Obj, Objects
<1>10. ctl.pc = "drop" => ctl.old # 0
  BY DEF IInv, Referred
<1>11. ReadersOK'
  <2> SUFFICES ASSUME NEW u \in Threads, rd'[u].pc # "out"
               PROVE  ReaderOK(u)'
    BY DEF ReadersOK, InSection
  <2>1. CASE u = t
    <3>1. rd'[u] = r
      BY <1>3, <2>1 DEF IInv, Types
    <3> QED BY <1>1, <1>2, <1>7, <1>9, <1>10, <3>1 DEF ReaderOK
  <2>2. CASE u # t
    <3>1. rd'[u] = rd[u]
      BY <1>3, <2>2 DEF IInv, Types
    <3> QED BY <1>1, <3>1 DEF IInv, ReadersOK, ReaderOK, InSection
  <2> QED BY <2>1, <2>2
<1> QED BY <1>1, <1>8, <1>11, DataFrame

\* A table that an endpoint refers to counts at least that endpoint.
LEMMA OneHolder ==
    ASSUME IInv, NEW o \in liveEps, epHdl[o] # 0, ~(ctl.pc \in {"remap", "replaced"} /\ o = ctl.old)
    PROVE  /\ epHdl[o] \in Tables
           /\ o \in Holders(epHdl[o])
           /\ IsFiniteSet(Holders(epHdl[o]))
           /\ Cardinality(Holders(epHdl[o])) > 0
           /\ refCnt[epHdl[o]] > 0
<1>1. epHdl[o] \in Tables /\ IsFiniteSet(liveEps)
  BY DEF IInv, Types, Referred, Tables, Handles
<1>2. o \in Holders(epHdl[o]) /\ Holders(epHdl[o]) \subseteq liveEps
  BY DEF Holders
<1>3. IsFiniteSet(Holders(epHdl[o]))
  BY <1>1, <1>2, FS_Subset
<1>4. Cardinality(Holders(epHdl[o])) \in Nat /\ Cardinality(Holders(epHdl[o])) # 0
  BY <1>2, <1>3, FS_CardinalityType, FS_EmptySet
<1>5. refCnt[epHdl[o]] = Cardinality(Holders(epHdl[o])) + Given(epHdl[o])
  BY <1>1 DEF IInv, Counted
<1>6. Given(epHdl[o]) \in {0, 1}
  BY DEF Given
<1> QED BY <1>1, <1>2, <1>3, <1>4, <1>5, <1>6

\* An object that refers to a table is counted by it, itself or through its twin.
LEMMA Referenced ==
    ASSUME IInv, NEW o \in liveEps, epHdl[o] # 0
    PROVE  epHdl[o] \in Tables /\ refCnt[epHdl[o]] > 0
<1>1. CASE ~(ctl.pc \in {"remap", "replaced"} /\ o = ctl.old)
  BY <1>1, OneHolder
<1>2. CASE ctl.pc \in {"remap", "replaced"} /\ o = ctl.old
  <2>1. Twin(o) \in liveEps /\ epHdl[Twin(o)] = epHdl[o]
    BY <1>2 DEF IInv, Endpoints
  <2>2. Twin(o) # o
    BY DEF IInv, Types, Objects, Twin
  <2> QED BY <1>2, <2>1, <2>2, OneHolder
<1> QED BY <1>1, <1>2

\* The table read from an endpoint is counted by it, so if the control thread is
\* about to give a reference back and will not wait, another one remains.
LEMMA ReadHdlKeeps ==
    ASSUME IInv, NEW t \in Threads, ReadHdl(t)
    PROVE  IInv'
<1>1. /\ UNCHANGED <<epMap, epHdl, liveEps, tables, refCnt, live, staged, disabled, ctl>>
      /\ waiting' = waiting
  BY DEF ReadHdl, eps, tabs
<1>2. /\ rd[t].pc = "found" /\ t \in InSection
      /\ rd \in [Threads -> Readers]
      /\ rd[t] \in [pc : {"found", "read", "judged"}, m : Macs, ep : Objects,
                    hdl : Handles, off : BOOLEAN, fresh : BOOLEAN]
  BY RdShape DEF IInv, Types, ReadHdl, InSection
<1> DEFINE o == rd[t].ep
           h == epHdl[o]
           r == [[rd[t] EXCEPT !.hdl = h] EXCEPT !.pc = "read"]
<1>3. o \in liveEps /\ h \in live \cup {0} /\ h \in Handles
  BY <1>2 DEF IInv, Types, Referred, ReadersOK, ReaderOK
<1>4. rd' = [rd EXCEPT ![t] = r]
  BY <1>2 DEF ReadHdl
<1>5. r \in Readers /\ r.pc = "read" /\ r.ep = o /\ r.hdl = h
  BY <1>2, <1>3 DEF Readers
<1> HIDE DEF r
<1>6. rd' \in [Threads -> Readers]
  BY <1>2, <1>4, <1>5
<1>7. ReaderOK(t)
  BY <1>2 DEF IInv, ReadersOK
<1>8. h # 0 => h \in Tables /\ refCnt[h] > 0
  BY <1>3, Referenced
<1>9. ctl.pc = "drop" /\ h = ctl.old => refCnt[h] >= 2
  <2> SUFFICES ASSUME ctl.pc = "drop", h = ctl.old PROVE refCnt[h] >= 2
    OBVIOUS
  <2>1. h # 0
    BY DEF IInv, Referred
  <2>2. h \in Tables /\ Cardinality(Holders(h)) \in Nat /\ Cardinality(Holders(h)) > 0
    BY <1>3, <2>1, OneHolder, FS_CardinalityType
  <2>3. refCnt[h] = Cardinality(Holders(h)) + 1
    BY <2>2 DEF IInv, Counted, Given
  <2> QED BY <2>2, <2>3
<1>10. ctl.pc = "deleted" /\ h # 0 /\ h = epHdl[ctl.old] /\ o # ctl.old => refCnt[h] >= 2
  <2> SUFFICES ASSUME ctl.pc = "deleted", h # 0, h = epHdl[ctl.old], o # ctl.old
               PROVE  refCnt[h] >= 2
    OBVIOUS
  <2>1. ctl.old \in liveEps
    BY DEF IInv, Endpoints, Leaving
  <2>2. {o, ctl.old} \subseteq Holders(h) /\ IsFiniteSet(Holders(h)) /\ h \in Tables
    BY <1>3, <2>1, OneHolder
  <2>3. IsFiniteSet({ctl.old}) /\ Cardinality({ctl.old}) = 1
    BY FS_Singleton
  <2>4. Cardinality({o, ctl.old}) = 2
    <3>1. {o, ctl.old} = {ctl.old} \cup {o} /\ o \notin {ctl.old}
      OBVIOUS
    <3>2. Cardinality({ctl.old} \cup {o}) = 1 + 1
      BY <2>3, <3>1, FS_AddElement, Zenon
    <3>3. Cardinality({o, ctl.old}) = 1 + 1
      BY <3>1, <3>2, Zenon
    <3> QED BY <3>3
  <2>5. Cardinality({o, ctl.old}) <= Cardinality(Holders(h)) /\ Cardinality(Holders(h)) \in Nat
    BY <2>2, FS_Subset, FS_CardinalityType
  <2>6. refCnt[h] = Cardinality(Holders(h)) + Given(h) /\ Given(h) = 0
    BY <2>2 DEF IInv, Counted, Given
  <2> QED BY <2>4, <2>5, <2>6
<1>11. refCnt \in [Tables -> Nat]
  BY DEF IInv, Types
<1>12. ReadersOK'
  <2> SUFFICES ASSUME NEW u \in Threads, rd'[u].pc # "out"
               PROVE  ReaderOK(u)'
    BY DEF ReadersOK, InSection
  <2>1. CASE u = t
    <3>1. rd'[u] = r
      BY <1>2, <1>4, <2>1
    <3>2. CASE h = 0
      BY <1>1, <1>3, <1>5, <1>7, <2>1, <3>1, <3>2 DEF ReaderOK, IInv, Referred
    <3>3. CASE h # 0
      <4>1. h \in Tables /\ refCnt[h] \in Nat /\ refCnt[h] > 0
        BY <1>8, <1>11, <3>3
      <4> QED BY <1>1, <1>3, <1>5, <1>7, <1>9, <1>10, <2>1, <3>1, <3>3, <4>1 DEF ReaderOK
    <3> QED BY <3>2, <3>3
  <2>2. CASE u # t
    <3>1. rd'[u] = rd[u]
      BY <1>2, <1>4, <2>2
    <3> QED BY <1>1, <3>1 DEF IInv, ReadersOK, ReaderOK, InSection
  <2> QED BY <2>1, <2>2
<1> QED BY <1>1, <1>6, <1>12, DataFrame

\* After the verdict no table is held.
LEMMA JudgeKeeps ==
    ASSUME IInv, NEW t \in Threads, Judge(t)
    PROVE  IInv'
<1>1. /\ UNCHANGED <<epMap, epHdl, liveEps, tables, refCnt, live, staged, disabled, ctl>>
      /\ waiting' = waiting
  BY DEF Judge, eps, tabs
<1>2. /\ rd[t].pc = "read" /\ t \in InSection
      /\ rd \in [Threads -> Readers]
      /\ rd[t] \in [pc : {"found", "read", "judged"}, m : Macs, ep : Objects,
                    hdl : Handles, off : BOOLEAN, fresh : BOOLEAN]
  BY RdShape DEF IInv, Types, Judge, InSection
<1>3. PICK p \in {"found", "judged"} :
         rd' = [rd EXCEPT ![t] = [[rd[t] EXCEPT !.pc = p] EXCEPT !.hdl = 0]]
  <2>1. PICK v \in {"allow", "deny", "exempt"} : JudgeNew(t, v) \/ JudgeAgain(t, v)
    BY DEF Judge
  <2>2. CASE JudgeNew(t, v)
    BY <1>2, <2>2 DEF JudgeNew
  <2>3. CASE JudgeAgain(t, v)
    BY <1>2, <2>3 DEF JudgeAgain
  <2> QED BY <2>1, <2>2, <2>3
<1> DEFINE r == [[rd[t] EXCEPT !.pc = p] EXCEPT !.hdl = 0]
<1>4. 0 \in Handles
  BY DPPolicyAssumption DEF Handles
<1>5. r \in Readers /\ r.pc = p /\ r.ep = rd[t].ep /\ r.hdl = 0
  BY <1>2, <1>4 DEF Readers
<1>6. rd' = [rd EXCEPT ![t] = r]
  BY <1>3
<1> HIDE DEF r
<1>7. rd' \in [Threads -> Readers]
  BY <1>2, <1>5, <1>6
<1>8. ctl.pc = "drop" => ctl.old # 0
  BY DEF IInv, Referred
<1>9. ReadersOK'
  <2> SUFFICES ASSUME NEW u \in Threads, rd'[u].pc # "out"
               PROVE  ReaderOK(u)'
    BY DEF ReadersOK, InSection
  <2>1. CASE u = t
    <3>1. rd'[u] = r /\ ReaderOK(t)
      BY <1>2, <1>6, <2>1 DEF IInv, ReadersOK
    <3> QED BY <1>1, <1>5, <1>8, <2>1, <3>1 DEF ReaderOK
  <2>2. CASE u # t
    <3>1. rd'[u] = rd[u]
      BY <1>2, <1>6, <2>2
    <3> QED BY <1>1, <3>1 DEF IInv, ReadersOK, ReaderOK, InSection
  <2> QED BY <2>1, <2>2
<1> QED BY <1>1, <1>7, <1>9, DataFrame

\* A thread that is not in a section any more need not be waited for.
LEMMA LeaveKeeps ==
    ASSUME IInv, NEW t \in Threads, Leave(t)
    PROVE  IInv'
<1>1. /\ UNCHANGED <<epMap, epHdl, liveEps, tables, refCnt, live, staged, disabled, ctl>>
      /\ rd' = [rd EXCEPT ![t] = Out]
      /\ waiting' = waiting \ {t}
  BY DEF Leave, eps, tabs
<1>2. rd' \in [Threads -> Readers]
  BY <1>1 DEF IInv, Types, Readers
<1>3. ReadersOK'
  <2> SUFFICES ASSUME NEW u \in Threads, rd'[u].pc # "out"
               PROVE  ReaderOK(u)'
    BY DEF ReadersOK, InSection
  <2>1. u # t /\ rd'[u] = rd[u]
    BY <1>1 DEF IInv, Types, Out
  <2> QED BY <1>1, <2>1 DEF IInv, ReadersOK, ReaderOK, InSection
<1> QED BY <1>1, <1>2, <1>3, DataFrame

\* The end of a session touches no table.
LEMMA SessionEndKeeps ==
    ASSUME IInv, NEW t \in Threads, NEW m \in Busy, SessionEnd(t, m)
    PROVE  IInv'
<1>1. UNCHANGED <<epMap, epHdl, liveEps, tables, refCnt, live, staged, disabled, ctl, rd, waiting>>
  BY DEF SessionEnd, eps, tabs
<1>2. rd' \in [Threads -> Readers]
  BY <1>1 DEF IInv, Types
<1>3. ReadersOK'
  BY <1>1 DEF IInv, ReadersOK, ReaderOK, InSection
<1> QED BY <1>1, <1>2, <1>3, DataFrame

-----------------------------------------------------------------------------
(* Control thread: messages *)

\* The points of the control thread at which it owes nothing.
Calm == {"idle", "hdl", "ask"}

\* Moving between those points changes nothing the invariant is about.
LEMMA CalmMove ==
    ASSUME IInv, UNCHANGED <<epMap, epHdl, liveEps, tables, refCnt, live, staged, rd>>,
           disabled' \in BOOLEAN, CtlOK', ctl.pc \in Calm, ctl'.pc \in Calm,
           ctl.pc = "hdl" => ctl'.pc = "hdl"
    PROVE  IInv'
<1>1. Types'
  BY DEF IInv, Types
<1>2. Endpoints'
  BY DEF IInv, Endpoints, Leaving, Obj, Calm
<1>3. Referred' /\ Used' /\ StagedOK'
  BY DEF IInv, Referred, Used, StagedOK, Calm
<1>4. Counted'
  BY DEF IInv, Counted, Holders, Given, Calm
<1>5. ReadersOK'
  BY DEF IInv, ReadersOK, ReaderOK, InSection, Calm
<1> QED BY <1>1, <1>2, <1>3, <1>4, <1>5 DEF IInv

\* The MACs of a message are a sequence.
LEMMA MacListsSeq ==
    ASSUME NEW macs \in MacLists
    PROVE  macs \in Seq(Macs)
<1>1. PICK n \in 1 .. MaxMacs : macs \in [1 .. n -> Macs]
  BY DEF MacLists
<1>2. n \in Nat
  BY DPPolicyAssumption
<1> QED BY <1>1, <1>2, SeqDef

\* Handing out starts at a point where nothing is owed.
LEMMA HandOutOK ==
    ASSUME NEW macs \in MacLists, HandOut(macs)
    PROVE  CtlOK' /\ ctl'.pc = "hdl"
BY MacListsSeq DEF HandOut, CtlOK

\* Switching the policy off or on touches no table.
LEMMA SetDisabledKeeps ==
    ASSUME IInv, SetDisabled
    PROVE  IInv'
<1>1. /\ UNCHANGED <<epMap, epHdl, liveEps, tables, refCnt, live, staged, rd>>
      /\ ctl' = ctl /\ ctl = Idle
      /\ disabled' \in BOOLEAN
  BY DEF SetDisabled, eps, tabs
<1>2. CtlOK' /\ ctl.pc = "idle"
  BY <1>1 DEF CtlOK, Idle
<1> QED BY <1>1, <1>2, CalmMove DEF Calm

\* Nor does deleting the sessions of a MAC.
LEMMA DelSessionsKeeps ==
    ASSUME IInv, NEW t \in Threads, DelSessions(t)
    PROVE  IInv'
<1>1. UNCHANGED <<epMap, epHdl, liveEps, tables, refCnt, live, staged, rd, disabled>>
  BY DEF DelSessions, eps, tabs
<1>2. ctl.pc = "ask" /\ ctl \in [pc : {"ask"}, m : Macs, asked : SUBSET Threads]
  BY CtlShape DEF DelSessions, IInv, Types
<1>3. ctl' = Idle \/ ctl' = [ctl EXCEPT !.asked = @ \ {t}]
  BY DEF DelSessions
<1>4. CtlOK' /\ ctl'.pc \in Calm
  BY <1>2, <1>3 DEF CtlOK, Idle, Calm
<1>5. disabled' \in BOOLEAN
  BY <1>1 DEF IInv, Types
<1> QED BY <1>1, <1>2, <1>4, <1>5, CalmMove DEF Calm

\* The last part of a policy only starts the handing out.
LEMMA CfgEndKeeps ==
    ASSUME IInv, NEW macs \in MacLists, CfgEnd(macs)
    PROVE  IInv'
<1>1. /\ UNCHANGED <<epMap, epHdl, liveEps, tables, refCnt, live, staged, rd, disabled>>
      /\ HandOut(macs) /\ ctl.pc = "idle"
  BY DEF CfgEnd, eps, tabs, Idle
<1>2. disabled' \in BOOLEAN
  BY <1>1 DEF IInv, Types
<1> QED BY <1>1, <1>2, HandOutOK, CalmMove DEF Calm

\* A MAC without an endpoint is skipped.
LEMMA UpdateSkipKeeps ==
    ASSUME IInv, UpdateSkip
    PROVE  IInv'
<1>1. /\ UNCHANGED <<epMap, epHdl, liveEps, tables, refCnt, live, staged, rd, disabled>>
      /\ ctl.pc = "hdl" /\ ctl.macs # << >> /\ ctl' = [ctl EXCEPT !.macs = Tail(@)]
  BY DEF UpdateSkip, eps, tabs
<1>2. ctl \in [pc : {"hdl"}, macs : Seq(Macs)]
  BY <1>1, CtlShape DEF IInv, Types
<1>3. Tail(ctl.macs) \in Seq(Macs)
  BY <1>1, <1>2
<1>4. CtlOK' /\ ctl'.pc = "hdl"
  BY <1>1, <1>2, <1>3 DEF CtlOK
<1>5. disabled' \in BOOLEAN
  BY <1>1 DEF IInv, Types
<1> QED BY <1>1, <1>4, <1>5, CalmMove DEF Calm

\* A table that counts no reference is referred to by no object.
LEMMA NoneRefers ==
    ASSUME IInv, NEW h \in Tables, refCnt[h] = 0
    PROVE  \A o \in Objects : epHdl[o] # h
<1> SUFFICES ASSUME NEW o \in Objects, epHdl[o] = h PROVE FALSE
  OBVIOUS
<1>1. h # 0
  BY DEF Tables
<1>2. o \in liveEps
  BY <1>1 DEF IInv, Referred
<1>3. refCnt[epHdl[o]] > 0
  BY <1>1, <1>2, Referenced
<1> QED BY <1>3

\* A table that is not allocated counts no reference.
LEMMA DeadUncounted ==
    ASSUME IInv, NEW h \in Tables \ live
    PROVE  refCnt[h] = 0
<1>1. h # 0
  BY DEF Tables
<1>2. Holders(h) = {}
  BY <1>1 DEF Holders, IInv, Types, Referred
<1>3. Given(h) = 0
  BY <1>1 DEF Given, IInv, Referred
<1>4. Cardinality({}) = 0
  BY FS_EmptySet
<1> QED BY <1>2, <1>3, <1>4 DEF IInv, Counted

\* A message that starts a policy: the left-over table it destroys has no
\* reference, and the new one was never allocated before.
LEMMA CfgStartKeeps ==
    ASSUME IInv, NEW end \in BOOLEAN, NEW macs \in MacLists, CfgStart(end, macs)
    PROVE  IInv'
<1> DEFINE new == tables + 1
<1>1. /\ UNCHANGED <<epMap, epHdl, liveEps, refCnt, rd, disabled>>
      /\ ctl = Idle /\ tables < MaxTables /\ tables' = new
      /\ live' = (live \ {staged}) \cup {new} /\ staged' = new
  BY DEF CfgStart, Create, eps
<1>2. ctl.pc = "idle" /\ CtlOK' /\ ctl'.pc \in Calm
  <2>1. CASE end
    BY <1>1, <2>1, HandOutOK DEF CfgStart, Idle, Calm
  <2>2. CASE ~end
    BY <1>1, <2>2 DEF CfgStart, CtlOK, Idle, Calm
  <2> QED BY <2>1, <2>2
<1>3. new \in Tables /\ new \notin live /\ new # 0 /\ \A h \in live : h <= new
  BY <1>1, DPPolicyAssumption DEF IInv, Types, Tables
<1>4. refCnt[new] = 0
  BY <1>3, DeadUncounted
<1>5. staged # 0 => staged \in Tables /\ refCnt[staged] = 0
  BY <1>2 DEF IInv, Types, StagedOK
<1>6. \A o \in Objects : epHdl[o] \in live' \cup {0}
  <2> TAKE o \in Objects
  <2>1. epHdl[o] \in live \cup {0}
    BY DEF IInv, Referred
  <2>2. staged # 0 => epHdl[o] # staged
    BY <1>5, NoneRefers
  <2> QED BY <1>1, <2>1, <2>2
<1> HIDE DEF new
<1>7. Types'
  BY <1>1, <1>2, <1>3, DPPolicyAssumption DEF IInv, Types, new
<1>8. Endpoints'
  BY <1>1, <1>2 DEF IInv, Endpoints, Leaving, Obj, Calm
<1>9. Referred' /\ Used' /\ StagedOK'
  BY <1>1, <1>2, <1>4, <1>6 DEF IInv, Referred, Used, StagedOK, Calm
<1>10. Counted'
  BY <1>1, <1>2 DEF IInv, Counted, Holders, Given, Calm
<1>11. ReadersOK'
  BY <1>1, <1>2, <1>3, <1>5 DEF IInv, ReadersOK, ReaderOK, InSection, Calm
<1> QED BY <1>7, <1>8, <1>9, <1>10, <1>11 DEF IInv

\* A deletion destroys a staged table, which has no reference.
LEMMA CfgDeleteKeeps ==
    ASSUME IInv, NEW start \in BOOLEAN, NEW end \in BOOLEAN, NEW macs \in MacLists,
           CfgDelete(start, end, macs)
    PROVE  IInv'
<1>1. /\ UNCHANGED <<epMap, epHdl, liveEps, tables, refCnt, rd, disabled>>
      /\ ctl = Idle /\ live' = live \ {staged} /\ staged' = 0
  BY DEF CfgDelete, eps
<1>2. ctl.pc = "idle" /\ CtlOK' /\ ctl'.pc \in Calm
  <2>1. CASE end
    BY <1>1, <2>1, HandOutOK DEF CfgDelete, Idle, Calm
  <2>2. CASE ~end
    BY <1>1, <2>2 DEF CfgDelete, CtlOK, Idle, Calm
  <2> QED BY <2>1, <2>2
<1>3. staged # 0 => staged \in Tables /\ refCnt[staged] = 0
  BY <1>2 DEF IInv, Types, StagedOK
<1>4. \A o \in Objects : epHdl[o] \in live' \cup {0}
  <2> TAKE o \in Objects
  <2>1. epHdl[o] \in live \cup {0}
    BY DEF IInv, Referred
  <2>2. staged # 0 => epHdl[o] # staged
    BY <1>3, NoneRefers
  <2> QED BY <1>1, <2>1, <2>2
<1>5. Types'
  BY <1>1, <1>2 DEF IInv, Types
<1>6. Endpoints'
  BY <1>1, <1>2 DEF IInv, Endpoints, Leaving, Obj, Calm
<1>7. Referred' /\ Used' /\ StagedOK'
  BY <1>1, <1>2, <1>4 DEF IInv, Referred, Used, StagedOK, Calm
<1>8. Counted'
  BY <1>1, <1>2 DEF IInv, Counted, Holders, Given, Calm
<1>9. ReadersOK'
  BY <1>1, <1>2, <1>3 DEF IInv, ReadersOK, ReaderOK, InSection, Calm
<1> QED BY <1>5, <1>6, <1>7, <1>8, <1>9 DEF IInv

-----------------------------------------------------------------------------
(* Control thread: a table is handed out *)

\* Finitely many endpoints refer to a table.
LEMMA HoldersFinite ==
    ASSUME IInv, NEW h
    PROVE  IsFiniteSet(Holders(h)) /\ Cardinality(Holders(h)) \in Nat
<1>1. Holders(h) \subseteq liveEps /\ IsFiniteSet(liveEps)
  BY DEF Holders, IInv, Types
<1> QED BY <1>1, FS_Subset, FS_CardinalityType

\* Writing policy_hdl moves the endpoint from the old table's holders to those of
\* the staged one; the old table's count now stands for the reference taken over.
LEMMA UpdateHdlKeeps ==
    ASSUME IInv, UpdateHdl
    PROVE  IInv'
<1> DEFINE m == Head(ctl.macs)
           o == Obj(m)
           old == epHdl[o]
<1>1. /\ ctl.pc = "hdl" /\ ctl.macs # << >> /\ ctl.macs \in Seq(Macs)
      /\ ctl \in [pc : {"hdl"}, macs : Seq(Macs)]
  BY CtlShape DEF UpdateHdl, IInv, Types
<1>2. m \in Macs
  BY <1>1
<1>3. /\ epMap[m] # 0
      /\ refCnt' = IF staged = 0 THEN refCnt ELSE [refCnt EXCEPT ![staged] = @ + 1]
      /\ epHdl' = [epHdl EXCEPT ![o] = staged]
      /\ ctl' = [pc |-> "ver", macs |-> ctl.macs, old |-> old]
      /\ Unsettle(m)
      /\ UNCHANGED <<epMap, liveEps, tables, live, staged, disabled, waiting>>
  BY DEF UpdateHdl
<1>4. o \in liveEps /\ o \in Objects /\ old \in live \cup {0} /\ old \in Handles
  BY <1>2, <1>3 DEF IInv, Types, Endpoints, Referred
<1>5. staged \in live \cup {0} /\ staged \in Handles /\ (staged # 0 => staged \in Tables)
  BY DPPolicyAssumption DEF IInv, Types, Tables, Handles
<1>6. /\ ctl'.pc = "ver" /\ ctl'.macs = ctl.macs /\ ctl'.old = old
      /\ CtlOK'
  BY <1>1, <1>3, <1>4 DEF CtlOK
<1>7. Obj(m)' = o
  BY <1>3 DEF Obj
<1>8. /\ epHdl' \in [Objects -> Handles] /\ epHdl'[o] = staged
      /\ \A x \in Objects : x # o => epHdl'[x] = epHdl[x]
  BY <1>3, <1>4, <1>5 DEF IInv, Types
<1>9. /\ refCnt' \in [Tables -> Nat]
      /\ staged # 0 => refCnt'[staged] = refCnt[staged] + 1
      /\ \A h \in Tables : h # staged => refCnt'[h] = refCnt[h]
  BY <1>3, <1>5 DEF IInv, Types
<1> HIDE DEF o, old
<1>10. Types'
  BY <1>2, <1>3, <1>6, <1>8, <1>9, UnsettleFacts DEF IInv, Types
<1>11. Endpoints'
  BY <1>1, <1>3, <1>6 DEF IInv, Endpoints, Leaving, Obj
<1>12. Referred'
  BY <1>3, <1>4, <1>5, <1>6, <1>8 DEF IInv, Referred
<1>13. Used'
  BY <1>3, <1>5, <1>9 DEF IInv, Types, Used
<1>14. StagedOK'
  BY <1>3, <1>6, <1>7, <1>8 DEF StagedOK, o
<1>15. Counted'
  <2> SUFFICES ASSUME NEW h \in Tables
               PROVE  refCnt'[h] = Cardinality(Holders(h)') + Given(h)'
    BY DEF Counted
  <2>1. refCnt[h] = Cardinality(Holders(h))
    <3>1. refCnt[h] = Cardinality(Holders(h)) + Given(h) /\ Given(h) = 0
      BY <1>1 DEF IInv, Counted, Given
    <3> QED BY <3>1, HoldersFinite
  <2>2. Given(h)' = IF h = old THEN 1 ELSE 0
    BY <1>6 DEF Given
  <2>3. /\ Holders(h) = {x \in liveEps : epHdl[x] = h}
        /\ Holders(h)' = {x \in liveEps : epHdl'[x] = h}
    BY <1>1, <1>3, <1>6 DEF Holders
  <2>4. IsFiniteSet(Holders(h)) /\ Cardinality(Holders(h)) \in Nat
    BY HoldersFinite
  <2>5. liveEps \subseteq Objects /\ h # 0
    BY DEF IInv, Types, Tables
  <2>6. epHdl[o] = old
    BY DEF old
  <2>7. CASE h = staged /\ h = old
    <3>1. Holders(h)' = Holders(h)
      BY <1>4, <1>8, <2>3, <2>5, <2>6, <2>7
    <3> QED BY <1>9, <2>1, <2>2, <2>4, <2>5, <2>7, <3>1
  <2>8. CASE h = staged /\ h # old
    <3>1. Holders(h)' = Holders(h) \cup {o} /\ o \notin Holders(h)
      BY <1>4, <1>8, <2>3, <2>5, <2>6, <2>8
    <3>2. Cardinality(Holders(h) \cup {o}) = Cardinality(Holders(h)) + 1
      BY <2>4, <3>1, FS_AddElement, Zenon
    <3>3. Cardinality(Holders(h)') = Cardinality(Holders(h)) + 1
      BY <3>1, <3>2, Zenon
    <3> QED BY <1>9, <2>1, <2>2, <2>4, <2>5, <2>8, <3>3
  <2>9. CASE h # staged /\ h = old
    <3>1. Holders(h)' = Holders(h) \ {o} /\ o \in Holders(h)
      BY <1>4, <1>8, <2>3, <2>5, <2>6, <2>9
    <3>2. Cardinality(Holders(h) \ {o}) = Cardinality(Holders(h)) - 1
      BY <2>4, <3>1, FS_RemoveElement, Zenon
    <3>3. Cardinality(Holders(h)') = Cardinality(Holders(h)) - 1
      BY <3>1, <3>2, Zenon
    <3> QED BY <1>9, <2>1, <2>2, <2>4, <2>9, <3>3
  <2>10. CASE h # staged /\ h # old
    <3>1. Holders(h)' = Holders(h)
      BY <1>4, <1>8, <2>3, <2>5, <2>6, <2>10
    <3> QED BY <1>9, <2>1, <2>2, <2>4, <2>10, <3>1
  <2> QED BY <2>7, <2>8, <2>9, <2>10
<1>16. ReadersOK'
  <2> SUFFICES ASSUME NEW u \in Threads, rd'[u].pc # "out"
               PROVE  ReaderOK(u)'
    BY DEF ReadersOK, InSection
  <2>1. /\ rd'[u].pc = rd[u].pc /\ rd'[u].ep = rd[u].ep /\ rd'[u].hdl = rd[u].hdl
        /\ u \in InSection
    BY <1>2, <1>3, UnsettleFacts DEF IInv, InSection
  <2>2. ReaderOK(u)
    BY <2>1 DEF IInv, ReadersOK
  <2>3. staged # 0 => refCnt'[staged] # 0
    BY <1>5, <1>9 DEF IInv, Types
  <2> QED BY <1>3, <1>6, <2>1, <2>2, <2>3 DEF ReaderOK
<1> QED BY <1>10, <1>11, <1>12, <1>13, <1>14, <1>15, <1>16 DEF IInv

\* Before the last reference of a table is given back, every open section is
\* waited for.
LEMMA UpdateVerKeeps ==
    ASSUME IInv, UpdateVer
    PROVE  IInv'
<1> DEFINE m == Head(ctl.macs)
<1>1. /\ ctl.pc = "ver" /\ ctl.macs # << >>
      /\ ctl \in [pc : {"ver", "drop"}, macs : Seq(Macs), old : Handles]
  BY CtlShape DEF UpdateVer, IInv, Types
<1>2. m \in Macs /\ Tail(ctl.macs) \in Seq(Macs)
  BY <1>1
<1>3. /\ Unsettle(m)
      /\ UNCHANGED <<epMap, epHdl, liveEps, tables, refCnt, live, staged, disabled>>
  BY DEF UpdateVer, tabs
<1>4. Types /\ rd \in [Threads -> Readers]
  BY DEF IInv, Types
<1>5. /\ rd' \in [Threads -> Readers]
      /\ \A u \in Threads : rd'[u].pc = rd[u].pc
      /\ \A u \in InSection : rd'[u].ep = rd[u].ep /\ rd'[u].hdl = rd[u].hdl
  BY <1>2, <1>3, <1>4, UnsettleFacts
<1>6. CASE ctl.old = 0
  <2>1. ctl' = [pc |-> "hdl", macs |-> Tail(ctl.macs)]
    BY <1>6 DEF UpdateVer
  <2>2. ctl'.pc = "hdl" /\ CtlOK'
    BY <1>2, <2>1 DEF CtlOK
  <2>3. Types'
    BY <1>3, <1>5, <2>2 DEF IInv, Types
  <2>4. Endpoints' /\ Referred' /\ Used' /\ StagedOK'
    BY <1>1, <1>3, <2>2 DEF IInv, Endpoints, Referred, Used, StagedOK, Leaving, Obj
  <2>5. Counted'
    <3> SUFFICES ASSUME NEW h \in Tables
                 PROVE  refCnt'[h] = Cardinality(Holders(h)') + Given(h)'
      BY DEF Counted
    <3>1. Holders(h)' = Holders(h) /\ Given(h)' = 0 /\ Given(h) = 0
      BY <1>1, <1>3, <1>6, <2>2 DEF Holders, Given, Tables
    <3> QED BY <1>3, <3>1 DEF IInv, Counted
  <2>6. ReadersOK'
    BY <1>3, <1>5, <2>2 DEF IInv, ReadersOK, ReaderOK, InSection
  <2> QED BY <2>3, <2>4, <2>5, <2>6 DEF IInv
<1>7. CASE ctl.old # 0
  <2>1. ctl' = [ctl EXCEPT !.pc = "drop"] /\ waiting' = Grace(ctl.old)
    BY <1>7 DEF UpdateVer
  <2>2. ctl'.pc = "drop" /\ ctl'.old = ctl.old /\ ctl'.macs = ctl.macs /\ CtlOK'
    BY <1>1, <2>1 DEF CtlOK
  <2>3. Types'
    BY <1>3, <1>5, <2>2 DEF IInv, Types
  <2>4. Endpoints' /\ Referred' /\ Used' /\ StagedOK'
    BY <1>1, <1>3, <1>7, <2>2 DEF IInv, Endpoints, Referred, Used, StagedOK, Leaving, Obj
  <2>5. Counted'
    BY <1>1, <1>3, <2>2 DEF IInv, Counted, Holders, Given
  <2>6. ReadersOK'
    <3> SUFFICES ASSUME NEW u \in Threads, rd'[u].pc # "out"
                 PROVE  ReaderOK(u)'
      BY DEF ReadersOK, InSection
    <3>1. /\ rd'[u].pc = rd[u].pc /\ rd'[u].ep = rd[u].ep /\ rd'[u].hdl = rd[u].hdl
          /\ u \in InSection /\ ReaderOK(u)
      BY <1>5 DEF IInv, InSection, ReadersOK
    <3>2. refCnt[ctl.old] < 2 => u \in waiting'
      BY <2>1, <3>1 DEF Grace
    <3> QED BY <1>3, <2>2, <3>1, <3>2 DEF ReaderOK
  <2> QED BY <2>3, <2>4, <2>5, <2>6 DEF IInv
<1> QED BY <1>6, <1>7

\* Giving the reference back: the table is freed only when no endpoint refers to
\* it, and it is not the staged one, which the endpoint at hand refers to.
LEMMA UpdateDropKeeps ==
    ASSUME IInv, UpdateDrop
    PROVE  IInv'
<1> DEFINE old == ctl.old
<1>1. /\ ctl.pc = "drop" /\ ctl.macs # << >>
      /\ ctl \in [pc : {"ver", "drop"}, macs : Seq(Macs), old : Handles]
  BY CtlShape DEF UpdateDrop, IInv, Types
<1>2. /\ Destroy(old) /\ waiting = {}
      /\ ctl' = [pc |-> "hdl", macs |-> Tail(ctl.macs)]
      /\ UNCHANGED <<epMap, epHdl, liveEps, tables, staged, disabled, rd>>
  BY DEF UpdateDrop, eps
<1>3. Tail(ctl.macs) \in Seq(Macs)
  BY <1>1
<1>4. ctl'.pc = "hdl" /\ CtlOK'
  BY <1>2, <1>3 DEF CtlOK
<1>5. old \in live /\ old \in Tables /\ refCnt \in [Tables -> Nat]
  BY <1>1 DEF IInv, Types, Referred
<1>6. \A h \in Tables : /\ Holders(h)' = Holders(h)
                        /\ Given(h)' = 0
                        /\ Given(h) = IF h = old THEN 1 ELSE 0
  BY <1>1, <1>2, <1>4 DEF Holders, Given
<1>7. \A h \in Tables : /\ refCnt[h] = Cardinality(Holders(h)) + Given(h)
                        /\ Cardinality(Holders(h)) \in Nat
  BY HoldersFinite DEF IInv, Counted
<1>8. Endpoints'
  BY <1>1, <1>2, <1>4 DEF IInv, Endpoints, Leaving, Obj
<1>9. StagedOK'
  BY <1>4 DEF StagedOK
<1>10. CASE refCnt[old] > 1
  <2>1. refCnt' = [refCnt EXCEPT ![old] = @ - 1] /\ live' = live
    BY <1>2, <1>10 DEF Destroy
  <2>2. /\ refCnt' \in [Tables -> Nat] /\ refCnt'[old] = refCnt[old] - 1 /\ refCnt'[old] > 0
        /\ \A h \in Tables : h # old => refCnt'[h] = refCnt[h]
    BY <1>5, <1>10, <2>1
  <2>3. Types'
    BY <1>2, <1>4, <2>1, <2>2 DEF IInv, Types
  <2>4. Referred'
    BY <1>2, <1>4, <2>1 DEF IInv, Referred
  <2>5. Used'
    BY <1>2, <2>1, <2>2 DEF IInv, Types, Used
  <2>6. Counted'
    BY <1>5, <1>6, <1>7, <2>2 DEF Counted
  <2>7. ReadersOK'
    <3>1. staged # 0 /\ refCnt'[staged] = 0 => refCnt[staged] = 0
      BY <2>2 DEF IInv, Types
    <3> QED BY <1>2, <1>4, <2>1, <3>1 DEF IInv, ReadersOK, ReaderOK, InSection
  <2> QED BY <1>8, <1>9, <2>3, <2>4, <2>5, <2>6, <2>7 DEF IInv
<1>11. CASE ~(refCnt[old] > 1)
  <2>1. live' = live \ {old} /\ refCnt' = [refCnt EXCEPT ![old] = 0]
    BY <1>2, <1>11 DEF Destroy
  <2>2. /\ refCnt' \in [Tables -> Nat] /\ refCnt'[old] = 0
        /\ \A h \in Tables : h # old => refCnt'[h] = refCnt[h]
    BY <1>5, <2>1
  <2>3. Cardinality(Holders(old)) = 0 /\ refCnt[old] < 2
    BY <1>5, <1>6, <1>7, <1>11
  <2>4. \A x \in Objects : epHdl[x] # old
    <3> SUFFICES ASSUME NEW x \in Objects, epHdl[x] = old PROVE FALSE
      OBVIOUS
    <3>1. old # 0
      BY <1>5 DEF Tables
    <3>2. x \in liveEps
      BY <3>1 DEF IInv, Referred
    <3>3. Cardinality(Holders(old)) > 0
      BY <1>1, <3>1, <3>2, OneHolder
    <3> QED BY <2>3, <3>3
  <2>5. staged # old
    <3>1. Head(ctl.macs) \in Macs
      BY <1>1
    <3>2. epHdl[Obj(Head(ctl.macs))] = staged /\ epMap[Head(ctl.macs)] # 0
      BY <1>1 DEF IInv, StagedOK
    <3>3. Obj(Head(ctl.macs)) \in Objects
      BY <3>1, <3>2 DEF IInv, Endpoints, Types
    <3> QED BY <2>4, <3>2, <3>3
  <2>6. Types'
    BY <1>2, <1>4, <2>1, <2>2, <2>5 DEF IInv, Types
  <2>7. Referred'
    BY <1>2, <1>4, <2>1, <2>4 DEF IInv, Referred
  <2>8. Used'
    BY <1>2, <2>1, <2>2 DEF IInv, Types, Used
  <2>9. Counted'
    BY <1>5, <1>6, <1>7, <2>2, <2>3 DEF Counted
  <2>10. ReadersOK'
    <3>1. staged # 0 => refCnt'[staged] = refCnt[staged]
      BY <2>2, <2>5 DEF IInv, Types
    <3> QED BY <1>1, <1>2, <1>4, <2>1, <2>3, <3>1 DEF IInv, ReadersOK, ReaderOK, InSection
  <2> QED BY <1>8, <1>9, <2>6, <2>7, <2>8, <2>9, <2>10 DEF IInv
<1> QED BY <1>10, <1>11

\* At the end of a message a table that found no endpoint is freed.
LEMMA CfgDoneKeeps ==
    ASSUME IInv, CfgDone
    PROVE  IInv'
<1>1. /\ ctl.pc = "hdl" /\ ctl' = Idle /\ staged' = 0
      /\ live' = IF staged # 0 /\ refCnt[staged] = 0 THEN live \ {staged} ELSE live
      /\ UNCHANGED <<epMap, epHdl, liveEps, tables, refCnt, disabled, rd>>
  BY DEF CfgDone, eps
<1>2. ctl'.pc = "idle" /\ CtlOK'
  BY <1>1 DEF CtlOK, Idle
<1>3. \A o \in Objects : epHdl[o] \in live' \cup {0}
  <2> TAKE o \in Objects
  <2>1. epHdl[o] \in live \cup {0}
    BY DEF IInv, Referred
  <2>2. staged # 0 /\ refCnt[staged] = 0 => epHdl[o] # staged
    BY NoneRefers DEF IInv, Types
  <2> QED BY <1>1, <2>1, <2>2
<1>4. Types'
  BY <1>1, <1>2 DEF IInv, Types
<1>5. Endpoints'
  BY <1>1, <1>2 DEF IInv, Endpoints, Leaving, Obj
<1>6. Referred' /\ StagedOK'
  BY <1>1, <1>2, <1>3 DEF IInv, Referred, StagedOK
<1>7. Used'
  <2> SUFFICES ASSUME NEW h \in live' PROVE refCnt[h] > 0
    BY <1>1 DEF Used
  <2>1. h \in live /\ h \in Tables /\ refCnt[h] \in Nat /\ h # 0
    BY <1>1 DEF IInv, Types, Tables
  <2>2. CASE h = staged
    BY <1>1, <2>1, <2>2
  <2>3. CASE h # staged
    BY <2>1, <2>3 DEF IInv, Used
  <2> QED BY <2>2, <2>3
<1>8. Counted'
  BY <1>1, <1>2 DEF IInv, Counted, Holders, Given
<1>9. ReadersOK'
  BY <1>1, <1>2 DEF IInv, ReadersOK, ReaderOK, InSection
<1> QED BY <1>4, <1>5, <1>6, <1>7, <1>8, <1>9 DEF IInv

-----------------------------------------------------------------------------
(* Control thread: endpoints come and go *)

\* A new endpoint refers to no table.
LEMMA AddMacKeeps ==
    ASSUME IInv, NEW m \in Macs, AddMac(m)
    PROVE  IInv'
<1> DEFINE new == <<m, 1>>
<1>1. /\ ctl = Idle /\ ctl' = ctl /\ epMap[m] = 0
      /\ epMap' = [epMap EXCEPT ![m] = 1]
      /\ epHdl' = [epHdl EXCEPT ![new] = 0]
      /\ liveEps' = liveEps \cup {new}
      /\ UNCHANGED <<tables, refCnt, live, staged, disabled, waiting, rd>>
  BY DEF AddMac, tabs
<1>2. ctl.pc = "idle" /\ ctl'.pc = "idle" /\ CtlOK'
  BY <1>1 DEF CtlOK, Idle
<1>3. new \in Objects /\ new \notin liveEps
  BY <1>1, <1>2 DEF IInv, Endpoints, Leaving, Objects
<1>4. epHdl[new] = 0 /\ epHdl' = epHdl
  BY <1>1, <1>3 DEF IInv, Types, Referred
<1>5. IsFiniteSet(liveEps')
  BY <1>1, FS_AddElement DEF IInv, Types
<1>6. Types'
  BY <1>1, <1>2, <1>3, <1>4, <1>5 DEF IInv, Types
<1>7. Endpoints'
  BY <1>1, <1>2, <1>3 DEF IInv, Types, Endpoints, Leaving, Obj, Objects
<1>8. Referred' /\ Used' /\ StagedOK'
  BY <1>1, <1>2, <1>4 DEF IInv, Referred, Used, StagedOK
<1>9. Counted'
  <2> SUFFICES ASSUME NEW h \in Tables
               PROVE  refCnt'[h] = Cardinality(Holders(h)') + Given(h)'
    BY DEF Counted
  <2>1. Holders(h)' = Holders(h) /\ Given(h)' = Given(h)
    BY <1>1, <1>2, <1>4 DEF Holders, Given, Tables
  <2> QED BY <1>1, <2>1 DEF IInv, Counted
<1>10. ReadersOK'
  BY <1>1, <1>2 DEF IInv, ReadersOK, ReaderOK, InSection
<1> QED BY <1>6, <1>7, <1>8, <1>9, <1>10 DEF IInv

\* The replacement takes the reference of the object it replaces over.
LEMMA ReplaceUnmapKeeps ==
    ASSUME IInv, NEW m \in Macs, ReplaceUnmap(m)
    PROVE  IInv'
<1> DEFINE old == Obj(m)
           new == <<m, 3 - epMap[m]>>
<1>1. /\ ctl = Idle /\ epMap[m] # 0
      /\ epHdl' = [epHdl EXCEPT ![new] = epHdl[old]]
      /\ liveEps' = liveEps \cup {new}
      /\ ctl' = [pc |-> "remap", m |-> m, old |-> old]
      /\ epMap' = [epMap EXCEPT ![m] = 0]
      /\ UNCHANGED <<tables, refCnt, live, staged, disabled, waiting, rd>>
  BY DEF ReplaceUnmap, tabs
<1>2. epMap[m] \in {1, 2} /\ ctl.pc = "idle"
  BY <1>1 DEF IInv, Types, Idle
<1>3. /\ old \in Objects /\ old \in liveEps /\ old[1] = m /\ old[2] = epMap[m]
      /\ new \in Objects /\ new # old /\ new[1] = m
      /\ Twin(old) = new
  BY <1>1, <1>2 DEF IInv, Endpoints, Obj, Objects, Twin
<1>4. \A o \in liveEps : epMap[o[1]] = o[2] /\ (o[1] = m => o = old)
  BY <1>2 DEF IInv, Types, Endpoints, Leaving, Obj, Objects
<1>5. new \notin liveEps
  BY <1>3, <1>4
<1>6. ctl'.pc = "remap" /\ ctl'.m = m /\ ctl'.old = old /\ CtlOK'
  BY <1>1, <1>3 DEF CtlOK
<1>7. /\ epHdl' \in [Objects -> Handles] /\ epHdl'[new] = epHdl[old]
      /\ \A x \in Objects : x # new => epHdl'[x] = epHdl[x]
      /\ epHdl[new] = 0
  BY <1>1, <1>3, <1>5 DEF IInv, Types, Referred
<1>8. /\ epMap' \in [Macs -> 0 .. 2] /\ epMap'[m] = 0
      /\ \A x \in Macs : x # m => epMap'[x] = epMap[x]
  BY <1>1 DEF IInv, Types
<1>9. IsFiniteSet(liveEps')
  BY <1>1, FS_AddElement DEF IInv, Types
<1> HIDE DEF old, new
<1>10. Types'
  BY <1>1, <1>3, <1>6, <1>7, <1>8, <1>9 DEF IInv, Types
<1>11. Endpoints'
  <2>1. \A x \in Macs : epMap'[x] # 0 => Obj(x)' \in liveEps'
    BY <1>1, <1>8 DEF IInv, Endpoints, Obj
  <2>2. ASSUME NEW o \in liveEps'
        PROVE  \/ epMap'[o[1]] = o[2]
               \/ o = old
               \/ o = Twin(old)
    <3>1. CASE o = new
      BY <1>3, <3>1
    <3>2. CASE o # new
      <4>1. o \in liveEps /\ o[1] \in Macs
        BY <1>1, <3>2 DEF IInv, Types, Objects
      <4> QED BY <1>4, <1>8, <4>1
    <3> QED BY <3>1, <3>2
  <2>3. old \in liveEps' /\ epMap'[m] # old[2]
    BY <1>1, <1>2, <1>3, <1>8
  <2>4. Twin(old) \in liveEps' /\ epHdl'[Twin(old)] = epHdl'[old]
    BY <1>1, <1>3, <1>7
  <2> QED BY <1>3, <1>6, <1>8, <2>1, <2>2, <2>3, <2>4 DEF Endpoints, Leaving, Twin
<1>12. Referred'
  BY <1>1, <1>3, <1>6, <1>7 DEF IInv, Referred
<1>13. Used' /\ StagedOK'
  BY <1>1, <1>2, <1>6 DEF IInv, Used, StagedOK
<1>14. Counted'
  <2> SUFFICES ASSUME NEW h \in Tables
               PROVE  refCnt'[h] = Cardinality(Holders(h)') + Given(h)'
    BY DEF Counted
  <2>1. Given(h)' = 0 /\ Given(h) = 0 /\ h # 0
    BY <1>2, <1>6 DEF Given, Tables
  <2>2. refCnt'[h] = Cardinality(Holders(h)) + Given(h)
    BY <1>1 DEF IInv, Counted
  <2>3. /\ Holders(h) = {x \in liveEps : epHdl[x] = h}
        /\ Holders(h)' = {x \in liveEps \cup {new} : epHdl'[x] = h /\ x # old}
    BY <1>1, <1>2, <1>6 DEF Holders
  <2>4. IsFiniteSet(Holders(h)) /\ Cardinality(Holders(h)) \in Nat
    BY HoldersFinite
  <2>5. liveEps \subseteq Objects
    BY DEF IInv, Types
  <2>6. CASE h = epHdl[old]
    <3> DEFINE rest == Holders(h) \ {old}
    <3>1. Holders(h)' = rest \cup {new} /\ new \notin rest /\ old \in Holders(h)
      BY <1>3, <1>5, <1>7, <2>3, <2>5, <2>6
    <3>2. IsFiniteSet(rest) /\ Cardinality(rest) = Cardinality(Holders(h)) - 1
      BY <2>4, <3>1, FS_RemoveElement, Zenon
    <3> HIDE DEF rest
    <3>3. Cardinality(rest \cup {new}) = Cardinality(rest) + 1
      BY <3>1, <3>2, FS_AddElement, Zenon
    <3>4. Cardinality(Holders(h)') = Cardinality(rest) + 1
      BY <3>1, <3>3, Zenon
    <3> QED BY <2>1, <2>2, <2>4, <3>2, <3>4
  <2>7. CASE h # epHdl[old]
    <3>1. Holders(h)' = Holders(h)
      BY <1>3, <1>5, <1>7, <2>3, <2>5, <2>7
    <3> QED BY <2>1, <2>2, <3>1
  <2> QED BY <2>6, <2>7
<1>15. ReadersOK'
  BY <1>1, <1>6 DEF IInv, ReadersOK, ReaderOK, InSection
<1> QED BY <1>10, <1>11, <1>12, <1>13, <1>14, <1>15 DEF IInv

\* The replacement enters the map, and every open section is waited for.
LEMMA ReplaceMapKeeps ==
    ASSUME IInv, ReplaceMap
    PROVE  IInv'
<1> DEFINE m == ctl.m
           old == ctl.old
<1>1. /\ ctl.pc = "remap"
      /\ ctl \in [pc : {"remap", "replaced", "deleted"}, m : Macs, old : Objects]
  BY CtlShape DEF ReplaceMap, IInv, Types
<1>2. /\ epMap' = [epMap EXCEPT ![m] = 3 - old[2]]
      /\ waiting' = InSection
      /\ ctl' = [ctl EXCEPT !.pc = "replaced"]
      /\ UNCHANGED <<epHdl, liveEps, tables, refCnt, live, staged, disabled, rd>>
  BY DEF ReplaceMap, tabs
<1>3. ctl'.pc = "replaced" /\ ctl'.m = m /\ ctl'.old = old /\ CtlOK'
  BY <1>1, <1>2 DEF CtlOK
<1>4. /\ m \in Macs /\ old \in Objects /\ old[1] = m /\ old[2] \in {1, 2} /\ old \in liveEps
      /\ epMap[m] = 0
      /\ Twin(old) \in liveEps /\ epHdl[Twin(old)] = epHdl[old]
      /\ Twin(old) = <<m, 3 - old[2]>>
  BY <1>1 DEF IInv, Endpoints, Leaving, Objects, Twin
<1>5. /\ epMap' \in [Macs -> 0 .. 2] /\ epMap'[m] = 3 - old[2]
      /\ \A x \in Macs : x # m => epMap'[x] = epMap[x]
  BY <1>2, <1>4 DEF IInv, Types
<1> HIDE DEF m, old
<1>6. Types'
  BY <1>2, <1>3, <1>5 DEF IInv, Types
<1>7. Endpoints'
  <2>1. \A x \in Macs : epMap'[x] # 0 => Obj(x)' \in liveEps'
    BY <1>2, <1>4, <1>5 DEF IInv, Endpoints, Obj
  <2>2. ASSUME NEW o \in liveEps
        PROVE  epMap'[o[1]] = o[2] \/ o = old
    <3>1. CASE o = Twin(old)
      BY <1>4, <1>5, <3>1
    <3>2. CASE o # Twin(old) /\ o # old
      <4>1. epMap[o[1]] = o[2] /\ o[1] \in Macs /\ o[2] \in {1, 2}
        BY <3>2 DEF IInv, Types, Endpoints, Objects, old
      <4> QED BY <1>4, <1>5, <4>1
    <3> QED BY <3>1, <3>2
  <2>3. epMap'[m] # old[2]
    BY <1>4, <1>5
  <2>4. Twin(old)' = Twin(old)
    BY <1>3 DEF Twin, old
  <2> QED BY <1>2, <1>3, <1>4, <2>1, <2>2, <2>3, <2>4 DEF Endpoints, Leaving, Twin
<1>8. Referred' /\ Used' /\ StagedOK'
  BY <1>1, <1>2, <1>3 DEF IInv, Referred, Used, StagedOK
<1>9. Counted'
  <2> SUFFICES ASSUME NEW h \in Tables
               PROVE  refCnt'[h] = Cardinality(Holders(h)') + Given(h)'
    BY DEF Counted
  <2>1. Holders(h)' = Holders(h) /\ Given(h)' = Given(h)
    BY <1>1, <1>2, <1>3 DEF Holders, Given, old
  <2> QED BY <1>2, <2>1 DEF IInv, Counted
<1>10. ReadersOK'
  BY <1>2, <1>3 DEF IInv, ReadersOK, ReaderOK, InSection
<1> QED BY <1>6, <1>7, <1>8, <1>9, <1>10 DEF IInv

\* The replaced object is freed without giving a reference back.
LEMMA ReplaceFreeKeeps ==
    ASSUME IInv, ReplaceFree
    PROVE  IInv'
<1> DEFINE old == ctl.old
<1>1. /\ ctl.pc = "replaced"
      /\ ctl \in [pc : {"remap", "replaced", "deleted"}, m : Macs, old : Objects]
  BY CtlShape DEF ReplaceFree, IInv, Types
<1>2. /\ waiting = {} /\ ctl' = Idle
      /\ epHdl' = [epHdl EXCEPT ![old] = 0]
      /\ liveEps' = liveEps \ {old}
      /\ UNCHANGED <<epMap, tables, refCnt, live, staged, disabled, rd>>
  BY DEF ReplaceFree, tabs
<1>3. ctl'.pc = "idle" /\ CtlOK'
  BY <1>2 DEF CtlOK, Idle
<1>4. old \in Objects /\ old[1] = ctl.m /\ epMap[old[1]] # old[2]
  BY <1>1 DEF IInv, Endpoints, Leaving
<1>5. 0 \in Handles
  BY DPPolicyAssumption DEF Handles
<1>6. /\ epHdl' \in [Objects -> Handles] /\ epHdl'[old] = 0
      /\ \A x \in Objects : x # old => epHdl'[x] = epHdl[x]
  BY <1>2, <1>4, <1>5 DEF IInv, Types
<1>7. IsFiniteSet(liveEps')
  BY <1>2, FS_Subset DEF IInv, Types
<1>8. Types'
  BY <1>2, <1>3, <1>6, <1>7 DEF IInv, Types
<1>9. Endpoints'
  BY <1>1, <1>2, <1>3, <1>4 DEF IInv, Endpoints, Leaving, Obj
<1>10. Referred'
  BY <1>2, <1>3, <1>6 DEF IInv, Referred
<1>11. Used' /\ StagedOK'
  BY <1>1, <1>2, <1>3 DEF IInv, Used, StagedOK
<1>12. Counted'
  <2> SUFFICES ASSUME NEW h \in Tables
               PROVE  refCnt'[h] = Cardinality(Holders(h)') + Given(h)'
    BY DEF Counted
  <2>1. Given(h)' = 0 /\ Given(h) = 0
    BY <1>1, <1>3 DEF Given
  <2>2. /\ Holders(h) = {x \in liveEps : epHdl[x] = h /\ x # old}
        /\ Holders(h)' = {x \in liveEps \ {old} : epHdl'[x] = h}
        /\ liveEps \subseteq Objects
    BY <1>1, <1>2, <1>3 DEF Holders, IInv, Types
  <2>3. Holders(h)' = Holders(h)
    BY <1>6, <2>2
  <2> QED BY <1>2, <2>1, <2>3 DEF IInv, Counted
<1>13. ReadersOK'
  BY <1>1, <1>2, <1>3 DEF IInv, ReadersOK, ReaderOK, InSection
<1> QED BY <1>8, <1>9, <1>10, <1>11, <1>12, <1>13 DEF IInv

\* A deleted endpoint leaves the map, and every open section is waited for.
LEMMA DelUnmapKeeps ==
    ASSUME IInv, NEW m \in Macs, DelUnmap(m)
    PROVE  IInv'
<1> DEFINE old == Obj(m)
<1>1. /\ ctl = Idle /\ epMap[m] # 0
      /\ epMap' = [epMap EXCEPT ![m] = 0]
      /\ waiting' = InSection
      /\ ctl' = [pc |-> "deleted", m |-> m, old |-> old]
      /\ UNCHANGED <<epHdl, liveEps, tables, refCnt, live, staged, disabled, rd>>
  BY DEF DelUnmap, tabs
<1>2. ctl.pc = "idle" /\ old \in liveEps /\ old \in Objects /\ old[1] = m /\ old[2] # 0
  BY <1>1 DEF IInv, Types, Endpoints, Idle, Obj, Objects
<1>3. \A o \in liveEps : epMap[o[1]] = o[2] /\ (o[1] = m => o = old)
  BY <1>2 DEF IInv, Types, Endpoints, Leaving, Obj, Objects
<1>4. ctl'.pc = "deleted" /\ ctl'.m = m /\ ctl'.old = old /\ CtlOK'
  BY <1>1, <1>2 DEF CtlOK
<1>5. /\ epMap' \in [Macs -> 0 .. 2] /\ epMap'[m] = 0
      /\ \A x \in Macs : x # m => epMap'[x] = epMap[x]
  BY <1>1 DEF IInv, Types
<1> HIDE DEF old
<1>6. Types'
  BY <1>1, <1>4, <1>5 DEF IInv, Types
<1>7. Endpoints'
  <2>1. \A x \in Macs : epMap'[x] # 0 => Obj(x)' \in liveEps'
    BY <1>1, <1>5 DEF IInv, Endpoints, Obj
  <2>2. ASSUME NEW o \in liveEps
        PROVE  epMap'[o[1]] = o[2] \/ o = old
    <3>1. o[1] \in Macs
      BY DEF IInv, Types, Objects
    <3> QED BY <1>3, <1>5, <3>1
  <2> QED BY <1>1, <1>2, <1>4, <1>5, <2>1, <2>2 DEF Endpoints, Leaving
<1>8. Referred' /\ Used' /\ StagedOK'
  BY <1>1, <1>2, <1>4 DEF IInv, Referred, Used, StagedOK
<1>9. Counted'
  BY <1>1, <1>2, <1>4 DEF IInv, Counted, Holders, Given
<1>10. ReadersOK'
  BY <1>1, <1>4 DEF IInv, ReadersOK, ReaderOK, InSection
<1> QED BY <1>6, <1>7, <1>8, <1>9, <1>10 DEF IInv

\* ep_destroy gives the reference of the endpoint back and frees the table if it
\* was the last one.
LEMMA DelFreeKeeps ==
    ASSUME IInv, DelFree
    PROVE  IInv'
<1> DEFINE old == ctl.old
           h0 == epHdl[old]
<1>1. /\ ctl.pc = "deleted"
      /\ ctl \in [pc : {"remap", "replaced", "deleted"}, m : Macs, old : Objects]
  BY CtlShape DEF DelFree, IInv, Types
<1>2. /\ waiting = {}
      /\ IF h0 = 0 THEN UNCHANGED <<refCnt, live>> ELSE Destroy(h0)
      /\ epHdl' = [epHdl EXCEPT ![old] = 0]
      /\ liveEps' = liveEps \ {old}
      /\ ctl' = [pc |-> "ask", m |-> ctl.m, asked |-> Threads]
      /\ UNCHANGED <<epMap, tables, staged, disabled, rd>>
  BY DEF DelFree
<1>3. ctl'.pc = "ask" /\ CtlOK'
  BY <1>1, <1>2 DEF CtlOK
<1>4. old \in Objects /\ old \in liveEps /\ old[1] = ctl.m /\ epMap[old[1]] # old[2]
  BY <1>1 DEF IInv, Endpoints, Leaving
<1>5. 0 \in Handles
  BY DPPolicyAssumption DEF Handles
<1>6. /\ epHdl' \in [Objects -> Handles] /\ epHdl'[old] = 0
      /\ \A x \in Objects : x # old => epHdl'[x] = epHdl[x]
  BY <1>2, <1>4, <1>5 DEF IInv, Types
<1>7. IsFiniteSet(liveEps')
  BY <1>2, FS_Subset DEF IInv, Types
<1>8. Endpoints'
  BY <1>1, <1>2, <1>3, <1>4 DEF IInv, Endpoints, Leaving, Obj
<1>9. /\ refCnt \in [Tables -> Nat] /\ h0 \in live \cup {0} /\ live \subseteq Tables
      /\ liveEps \subseteq Objects
      /\ staged # 0 => staged \in Tables /\ refCnt[staged] = 0
  BY <1>1, <1>4 DEF IInv, Types, Referred, StagedOK
<1>10. ASSUME NEW h \in Tables
       PROVE  /\ Given(h)' = 0 /\ refCnt[h] = Cardinality(Holders(h))
              /\ Cardinality(Holders(h)) \in Nat
              /\ h # h0 => Holders(h)' = Holders(h)
              /\ h = h0 => /\ Holders(h)' = Holders(h) \ {old} /\ old \in Holders(h)
                           /\ Cardinality(Holders(h)') = Cardinality(Holders(h)) - 1
  <2>1. Given(h)' = 0 /\ Given(h) = 0 /\ h # 0
    BY <1>1, <1>3 DEF Given, Tables
  <2>2. IsFiniteSet(Holders(h)) /\ Cardinality(Holders(h)) \in Nat
    BY HoldersFinite
  <2>3. refCnt[h] = Cardinality(Holders(h))
    BY <2>1, <2>2 DEF IInv, Counted
  <2>4. /\ Holders(h) = {x \in liveEps : epHdl[x] = h}
        /\ Holders(h)' = {x \in liveEps \ {old} : epHdl'[x] = h}
    BY <1>1, <1>2, <1>3 DEF Holders
  <2>5. h # h0 => Holders(h)' = Holders(h)
    BY <1>4, <1>6, <1>9, <2>4
  <2>6. ASSUME h = h0
        PROVE  Holders(h)' = Holders(h) \ {old} /\ old \in Holders(h)
    BY <1>4, <1>6, <1>9, <2>4, <2>6
  <2>7. ASSUME h = h0
        PROVE  Cardinality(Holders(h)') = Cardinality(Holders(h)) - 1
    <3>1. Cardinality(Holders(h) \ {old}) = Cardinality(Holders(h)) - 1
      BY <2>2, <2>6, <2>7, FS_RemoveElement, Zenon
    <3> QED BY <2>6, <2>7, <3>1, Zenon
  <2> QED BY <2>1, <2>2, <2>3, <2>5, <2>6, <2>7
<1> HIDE DEF old, h0
<1>11. /\ \A o \in Objects \ liveEps' : epHdl'[o] = 0
       /\ \A o \in Objects : epHdl'[o] \in {0, epHdl[o]}
  BY <1>2, <1>6 DEF IInv, Referred
<1>12. ASSUME NEW u \in Threads, rd[u].pc # "out"
       PROVE  /\ ReaderOK(u) /\ rd[u].ep \in liveEps'
              /\ h0 # 0 /\ refCnt[h0] < 2 => rd[u].hdl # h0
  BY <1>1, <1>2, <1>12 DEF IInv, ReadersOK, ReaderOK, InSection, old, h0
<1>13. CASE h0 = 0
  <2>1. refCnt' = refCnt /\ live' = live
    BY <1>2, <1>13
  <2>2. Types'
    BY <1>2, <1>3, <1>6, <1>7, <2>1 DEF IInv, Types
  <2>3. Referred' /\ Used' /\ StagedOK'
    BY <1>1, <1>2, <1>3, <1>11, <2>1 DEF IInv, Referred, Used, StagedOK
  <2>4. Counted'
    BY <1>10, <1>13, <2>1 DEF Counted, Tables
  <2>5. ReadersOK'
    BY <1>2, <1>3, <1>12, <2>1 DEF ReadersOK, ReaderOK, InSection
  <2> QED BY <1>8, <2>2, <2>3, <2>4, <2>5 DEF IInv
<1>14. CASE h0 # 0 /\ refCnt[h0] > 1
  <2>1. refCnt' = [refCnt EXCEPT ![h0] = @ - 1] /\ live' = live
    BY <1>2, <1>14 DEF Destroy
  <2>2. /\ refCnt' \in [Tables -> Nat] /\ refCnt'[h0] = refCnt[h0] - 1 /\ refCnt'[h0] > 0
        /\ h0 \in Tables
        /\ \A h \in Tables : h # h0 => refCnt'[h] = refCnt[h]
    BY <1>9, <1>14, <2>1
  <2>3. staged # h0 /\ (staged # 0 => refCnt'[staged] = 0)
    BY <1>9, <1>14, <2>2
  <2>4. Types'
    BY <1>2, <1>3, <1>6, <1>7, <2>1, <2>2 DEF IInv, Types
  <2>5. Referred'
    BY <1>3, <1>11, <2>1 DEF IInv, Referred
  <2>6. Used' /\ StagedOK'
    BY <1>2, <1>3, <1>9, <2>1, <2>2, <2>3 DEF IInv, Used, StagedOK
  <2>7. Counted'
    BY <1>10, <2>2 DEF Counted
  <2>8. ReadersOK'
    BY <1>2, <1>3, <1>9, <1>12, <2>1 DEF ReadersOK, ReaderOK, InSection
  <2> QED BY <1>8, <2>4, <2>5, <2>6, <2>7, <2>8 DEF IInv
<1>15. CASE h0 # 0 /\ ~(refCnt[h0] > 1)
  <2>1. live' = live \ {h0} /\ refCnt' = [refCnt EXCEPT ![h0] = 0]
    BY <1>2, <1>15 DEF Destroy
  <2>2. /\ refCnt' \in [Tables -> Nat] /\ refCnt'[h0] = 0 /\ h0 \in Tables
        /\ \A h \in Tables : h # h0 => refCnt'[h] = refCnt[h]
    BY <1>9, <1>15, <2>1
  <2>3. refCnt[h0] = 1
    <3>1. refCnt[h0] > 0
      BY <1>1, <1>4, <1>15, OneHolder DEF h0
    <3> QED BY <1>9, <1>15, <2>2, <3>1
  <2>4. staged # h0 /\ (staged # 0 => refCnt'[staged] = 0)
    BY <1>9, <1>15, <2>2, <2>3
  <2>5. ASSUME NEW o \in Objects
        PROVE  epHdl'[o] # h0
    <3> SUFFICES ASSUME epHdl'[o] = h0 PROVE FALSE
      OBVIOUS
    <3>1. PICK h \in Tables : h = h0
      BY <2>2
    <3>2. Cardinality(Holders(h)') = 0
      BY <1>10, <2>3, <3>1
    <3>3. o \in liveEps' /\ epHdl'[o] = h
      BY <1>11, <1>15, <3>1
    <3>4. o \in Holders(h)' /\ Holders(h)' \subseteq liveEps'
      BY <1>3, <3>3 DEF Holders
    <3>5. IsFiniteSet(Holders(h)')
      BY <1>7, <3>4, FS_Subset
    <3>6. Holders(h)' = {}
      BY <3>2, <3>5, FS_EmptySet
    <3> QED BY <3>4, <3>6
  <2>6. Types'
    BY <1>2, <1>3, <1>6, <1>7, <2>1, <2>2, <2>4 DEF IInv, Types
  <2>7. Referred'
    BY <1>3, <1>11, <2>1, <2>5 DEF IInv, Referred
  <2>8. Used' /\ StagedOK'
    BY <1>2, <1>3, <1>9, <2>1, <2>2, <2>4 DEF IInv, Used, StagedOK
  <2>9. Counted'
    <3> SUFFICES ASSUME NEW h \in Tables
                 PROVE  refCnt'[h] = Cardinality(Holders(h)') + Given(h)'
      BY DEF Counted
    <3>1. CASE h = h0
      BY <1>10, <2>2, <2>3, <3>1
    <3>2. CASE h # h0
      BY <1>10, <2>2, <3>2
    <3> QED BY <3>1, <3>2
  <2>10. ReadersOK'
    <3> SUFFICES ASSUME NEW u \in Threads, rd'[u].pc # "out"
                 PROVE  ReaderOK(u)'
      BY DEF ReadersOK, InSection
    <3>1. rd' = rd /\ rd[u].pc # "out" /\ refCnt[h0] < 2
      BY <1>2, <2>3
    <3>2. ReaderOK(u) /\ rd[u].ep \in liveEps' /\ rd[u].hdl # h0
      BY <1>12, <1>15, <3>1
    <3> QED BY <1>2, <1>3, <1>9, <2>1, <3>1, <3>2 DEF ReaderOK
  <2> QED BY <1>8, <2>6, <2>7, <2>8, <2>9, <2>10 DEF IInv
<1> QED BY <1>13, <1>14, <1>15

-----------------------------------------------------------------------------
(* The invariant and the theorems *)

\* The invariant holds when the data plane starts.
LEMMA InitEstablishes ==
    ASSUME Init
    PROVE  IInv
<1>1. 0 \in Handles /\ 0 \in Nat
  BY DPPolicyAssumption DEF Handles
<1>2. IsFiniteSet({}) /\ Cardinality({}) = 0
  BY FS_EmptySet
<1>3. Types
  <2>1. /\ epMap \in [Macs -> 0 .. 2]
        /\ epHdl \in [Objects -> Handles]
        /\ refCnt \in [Tables -> Nat]
        /\ rd \in [Threads -> Readers]
    BY <1>1 DEF Init, Readers
  <2>2. disabled \in BOOLEAN /\ CtlOK
    BY DEF Init, CtlOK
  <2>3. IsFiniteSet(liveEps) /\ liveEps = {} /\ tables = 0 /\ live = {} /\ staged = 0
    BY <1>2 DEF Init
  <2> QED BY <2>1, <2>2, <2>3 DEF Types
<1>4. Endpoints /\ Referred /\ Used /\ StagedOK
  BY DEF Init, Endpoints, Leaving, Referred, Used, StagedOK, Idle
<1>5. Counted
  <2> SUFFICES ASSUME NEW h \in Tables
               PROVE  refCnt[h] = Cardinality(Holders(h)) + Given(h)
    BY DEF Counted
  <2>1. Holders(h) = {} /\ Given(h) = 0 /\ refCnt[h] = 0
    BY DEF Init, Holders, Given, Idle
  <2> QED BY <1>2, <2>1
<1>6. ReadersOK
  BY DEF Init, ReadersOK, InSection, Out
<1> QED BY <1>3, <1>4, <1>5, <1>6 DEF IInv

\* Every step keeps it.
LEMMA StepKeeps ==
    ASSUME IInv, [Next]_vars
    PROVE  IInv'
<1>1. CASE Control
  BY <1>1, CfgStartKeeps, CfgDeleteKeeps, CfgEndKeeps, UpdateSkipKeeps, UpdateHdlKeeps,
     UpdateVerKeeps, UpdateDropKeeps, CfgDoneKeeps, AddMacKeeps, ReplaceUnmapKeeps,
     DelUnmapKeeps, ReplaceMapKeeps, ReplaceFreeKeeps, DelFreeKeeps, DelSessionsKeeps,
     SetDisabledKeeps DEF Control
<1>2. CASE \E t \in Threads : Data(t)
  BY <1>2, RecvPacketKeeps, SessionEndKeeps, ReadHdlKeeps, JudgeKeeps, LeaveKeeps DEF Data
<1>3. CASE UNCHANGED vars
  <2>1. UNCHANGED <<epMap, epHdl, liveEps, tables, refCnt, live, staged, disabled, ctl,
                    rd, waiting>>
    BY <1>3 DEF vars, eps, tabs
  <2>2. rd' \in [Threads -> Readers]
    BY <2>1 DEF IInv, Types
  <2>3. ReadersOK'
    BY <2>1 DEF IInv, ReadersOK, ReaderOK, InSection
  <2> QED BY <2>1, <2>2, <2>3, DataFrame
<1> QED BY <1>1, <1>2, <1>3 DEF Next

\* The reference counts of rule tables are exact, and whatever the control thread
\* is about to free is held only by read sections it waits for.
THEOREM InvariantHolds == Spec => []IInv
BY InitEstablishes, StepKeeps, PTL DEF Spec

\* No packet is ever judged with a rule table or an endpoint that was freed, by
\* however many threads and however the control messages fall between their steps
\* (dpi_policy_update, dp_ctrl_add_mac, dp_ctrl_del_mac).
THEOREM NeverFreedInUse == Spec => []NothingFreedInUse
<1>1. IInv => NothingFreedInUse
  BY DEF IInv, ReadersOK, ReaderOK, NothingFreedInUse
<1> QED BY <1>1, InvariantHolds, PTL

\* Between two messages every allocated table is staged or counts exactly the
\* endpoints that refer to it, and every handle of an endpoint is allocated.
THEOREM NoTableLeaked == Spec => []TablesAccounted
<1>1. ASSUME IInv, ctl = Idle
      PROVE  /\ live = ({epHdl[o] : o \in liveEps} \cup {staged}) \ {0}
             /\ \A h \in live : refCnt[h] = Cardinality(Holders(h))
  <2>1. ctl.pc = "idle"
    BY <1>1 DEF Idle
  <2>2. \A h \in Tables : Given(h) = 0
    BY <2>1 DEF Given
  <2>3. \A h \in live : refCnt[h] = Cardinality(Holders(h)) /\ Cardinality(Holders(h)) \in Nat
    BY <1>1, <2>2, HoldersFinite DEF IInv, Types, Counted
  <2>4. ASSUME NEW h \in live, h # staged
        PROVE  h \in {epHdl[o] : o \in liveEps}
    <3>1. Cardinality(Holders(h)) # 0
      BY <1>1, <2>3, <2>4 DEF IInv, Used
    <3>2. Holders(h) # {}
      BY <3>1, FS_EmptySet
    <3> QED BY <3>2 DEF Holders
  <2>5. \A o \in liveEps : epHdl[o] \in live \cup {0}
    BY <1>1 DEF IInv, Types, Referred
  <2>6. staged \in live \cup {0} /\ 0 \notin live
    BY <1>1 DEF IInv, Types, Tables
  <2> QED BY <2>3, <2>4, <2>5, <2>6
<1>2. IInv => TablesAccounted
  BY <1>1 DEF TablesAccounted
<1> QED BY <1>2, InvariantHolds, PTL

\* The table that dpi_policy_cfg still adds rules to is out of reach of the data
\* threads.
THEOREM StagedStaysPrivate == Spec => []StagedIsPrivate
<1>1. ASSUME IInv, ctl = Idle, staged # 0
      PROVE  Holders(staged) = {} /\ \A t \in InSection : rd[t].hdl # staged
  <2>1. ctl.pc = "idle" /\ staged \in Tables /\ refCnt[staged] = 0
    BY <1>1 DEF IInv, Types, StagedOK, Idle
  <2>2. Holders(staged) = {}
    BY <1>1, <2>1, NoneRefers DEF Holders, IInv, Types
  <2>3. \A t \in InSection : rd[t].hdl # staged
    BY <1>1, <2>1 DEF IInv, ReadersOK, ReaderOK
  <2> QED BY <2>2, <2>3
<1>2. IInv => StagedIsPrivate
  BY <1>1 DEF StagedIsPrivate
<1> QED BY <1>2, InvariantHolds, PTL

-----------------------------------------------------------------------------
(* Versions: which table a session was judged by.  The argument needs three *)
(* facts that hold only together: a version tells tables apart that are less *)
(* than VerMod - 1 apart, an endpoint never goes back to an older table, and *)
(* handle and version of an endpoint agree except between the two writes of  *)
(* dpi_policy_update, during which no packet of that MAC counts as fresh.    *)


\* What a session can be.
Sessions == {NoSession, Blocked, Pinned} \cup [kind : {"open"}, ver : Nat, by : Handles]

\* The types the version argument needs beyond those above.
VTypes ==
    /\ verOf \in [Tables -> Nat] /\ policyVer \in Nat
    /\ epVer \in [Objects -> Nat]
    /\ tables \in Handles
    /\ sess \in [Threads -> [Macs -> Sessions]]

\* The version d tables after one with version v.
Ahead(v, d) == {v + d, v + d - (VerMod - 1)}

\* Versions count up and wrap around, leaving out 0: two tables have the same one only
\* when they are VerMod - 1 tables apart.
Versions ==
    /\ policyVer = Ver(tables)
    /\ \A h \in 1 .. tables : verOf[h] \in 1 .. VerMod - 1
    /\ \A a, b \in 1 .. tables :
          a <= b /\ b - a < VerMod - 1 => verOf[b] \in Ahead(verOf[a], b - a)

\* Only the table created last is ever handed out.
StagedNewest == staged \in {0, tables}

\* The control thread is between its two writes to object o.
HalfWritten(o) == ctl.pc = "ver" /\ o = Obj(Head(ctl.macs))

\* Handle and version of an endpoint object belong together.
EpVersions == \A o \in Objects : ~HalfWritten(o) => epVer[o] = Ver(epHdl[o])

\* No object of MAC m refers to a table older than h.
NotOlder(m, h) == \A o \in Objects : o[1] = m /\ epHdl[o] # 0 => h <= epHdl[o]

\* A session is stamped with the version of the table that judged it, and its
\* endpoint never goes back to an older table.
SessionOK(t, m) ==
    sess[t][m].kind = "open" =>
        /\ sess[t][m].by <= tables
        /\ sess[t][m].by # 0 => sess[t][m].ver = verOf[sess[t][m].by]
        /\ NotOlder(m, sess[t][m].by)

SessionsOK == \A t \in Threads, m \in Macs : SessionOK(t, m)

\* The packet of thread t passed by the table in force.
PassedOK(t) ==
    LET s == sess[t][rd[t].m]
        h == epHdl[rd[t].ep]
    IN  s.kind = "open" =>
            \/ s.by = h
            \/ s.by # 0 /\ h - s.by >= VerMod - 1
            \/ s.by = 0 /\ s.ver = Ver(h) /\ h # 0

\* What a data thread in a read section knows of its endpoint as long as nobody
\* writes to it.
FreshOK(t) ==
    /\ rd[t].ep[1] = rd[t].m
    /\ NotOlder(rd[t].m, rd[t].hdl)
    /\ rd[t].fresh => /\ ~(ctl.pc = "ver" /\ Head(ctl.macs) = rd[t].m)
                      /\ rd[t].pc = "read" => rd[t].hdl = epHdl[rd[t].ep]
                      /\ rd[t].pc = "judged" /\ ~rd[t].off => PassedOK(t)

AllFreshOK == \A t \in InSection : FreshOK(t)

VInv == VTypes /\ Versions /\ StagedNewest /\ EpVersions /\ SessionsOK /\ AllFreshOK

-----------------------------------------------------------------------------
\* Counting modulo VerMod: one more, or 0 after the last.
LEMMA NextVerFacts ==
    ASSUME policyVer \in 0 .. VerMod - 1
    PROVE  NextVer = IF policyVer = VerMod - 1 THEN 1 ELSE policyVer + 1
<1>1. VerMod \in Nat /\ VerMod > 1
  BY DPPolicyAssumption
<1>2. CASE policyVer = VerMod - 1
  <2>1. policyVer + 1 = VerMod
    BY <1>1, <1>2
  <2>2. VerMod % VerMod = 0
    BY <1>1
  <2> QED BY <1>2, <2>1, <2>2 DEF NextVer
<1>3. CASE policyVer # VerMod - 1
  <2>1. policyVer + 1 \in 1 .. VerMod - 1
    BY <1>1, <1>3
  <2>2. \A x \in 1 .. VerMod - 1 : x % VerMod = x
    BY <1>1
  <2>3. (policyVer + 1) % VerMod = policyVer + 1 /\ policyVer + 1 # 0
    BY <2>1, <2>2
  <2> QED BY <1>3, <2>3 DEF NextVer
<1> QED BY <1>2, <1>3

\* Every handle in use is one of the tables created so far.
LEMMA HdlBound ==
    ASSUME IInv
    PROVE  /\ \A o \in Objects : epHdl[o] \in 0 .. tables
           /\ \A t \in InSection : rd[t].hdl \in 0 .. tables
<1>1. \A h \in live \cup {0} : h \in 0 .. tables
  BY DPPolicyAssumption DEF IInv, Types, Tables
<1> QED BY <1>1 DEF IInv, Referred, ReadersOK, ReaderOK

\* Steps that write neither endpoints, tables, packets nor sessions.
LEMMA VFrame ==
    ASSUME VInv, UNCHANGED <<epHdl, epVer, verOf, tables, policyVer, rd, sess>>,
           staged' \in {0, staged}, ctl.pc # "ver", ctl'.pc # "ver"
    PROVE  VInv'
<1>1. VTypes' /\ Versions' /\ StagedNewest'
  BY DEF VInv, VTypes, Versions, StagedNewest, Ver
<1>2. EpVersions'
  BY DEF VInv, EpVersions, HalfWritten, Ver
<1>3. SessionsOK'
  BY DEF VInv, SessionsOK, SessionOK, NotOlder
<1>4. AllFreshOK'
  BY DEF VInv, AllFreshOK, FreshOK, NotOlder, PassedOK, InSection, Ver
<1> QED BY <1>1, <1>2, <1>3, <1>4 DEF VInv

\* Messages and endpoint changes of that kind.
LEMMA QuietSteps ==
    ASSUME IInv, VInv,
           \/ \E macs \in MacLists : CfgEnd(macs)
           \/ \E start, end \in BOOLEAN, macs \in MacLists : CfgDelete(start, end, macs)
           \/ UpdateSkip \/ UpdateDrop \/ CfgDone
           \/ \E m \in Macs : DelUnmap(m)
           \/ ReplaceMap \/ SetDisabled
    PROVE  VInv'
<1>1. UNCHANGED <<epHdl, epVer, verOf, tables, policyVer, rd, sess>>
  BY DEF CfgEnd, CfgDelete, UpdateSkip, UpdateDrop, CfgDone, DelUnmap, ReplaceMap, SetDisabled,
     eps, tabs
<1>2. staged' \in {0, staged}
  BY DEF CfgEnd, CfgDelete, UpdateSkip, UpdateDrop, CfgDone, DelUnmap, ReplaceMap, SetDisabled
<1>3. ctl.pc # "ver" /\ ctl'.pc # "ver"
  <2> USE DEF Idle
  <2>1. CASE UpdateSkip
    <3>1. ctl \in [pc : {"hdl"}, macs : Seq(Macs)]
      BY <2>1, CtlShape DEF UpdateSkip, IInv, Types
    <3> QED BY <2>1, <3>1 DEF UpdateSkip
  <2>2. CASE ReplaceMap
    <3>1. ctl \in [pc : {"remap", "replaced", "deleted"}, m : Macs, old : Objects]
      BY <2>2, CtlShape DEF ReplaceMap, IInv, Types
    <3> QED BY <2>2, <3>1 DEF ReplaceMap
  <2>3. CASE UpdateDrop \/ CfgDone \/ SetDisabled \/ \E m \in Macs : DelUnmap(m)
    BY <2>3 DEF UpdateDrop, CfgDone, SetDisabled, DelUnmap
  <2>4. CASE \E macs \in MacLists : CfgEnd(macs)
    BY <2>4 DEF CfgEnd, HandOut
  <2>5. CASE \E start, end \in BOOLEAN, macs \in MacLists : CfgDelete(start, end, macs)
    BY <2>5 DEF CfgDelete, HandOut
  <2> QED BY <2>1, <2>2, <2>3, <2>4, <2>5
<1> QED BY <1>1, <1>2, <1>3, VFrame

\* A new endpoint has no table, as the object had before.
LEMMA AddMacVersions ==
    ASSUME IInv, VInv, NEW m \in Macs, AddMac(m)
    PROVE  VInv'
<1>1. /\ ctl = Idle /\ ctl.pc # "ver" /\ ctl' = ctl /\ epMap[m] = 0
      /\ epHdl' = [epHdl EXCEPT ![<<m, 1>>] = 0]
      /\ epVer' = [epVer EXCEPT ![<<m, 1>>] = 0]
      /\ UNCHANGED <<verOf, tables, policyVer, rd, sess, staged>>
  BY DEF AddMac, Idle, tabs
<1>2. <<m, 1>> \in Objects \ liveEps
  BY <1>1 DEF IInv, Endpoints, Leaving, Objects, Idle
<1>3. epHdl[<<m, 1>>] = 0 /\ epVer[<<m, 1>>] = 0
  BY <1>1, <1>2 DEF IInv, Referred, VInv, EpVersions, HalfWritten, Ver
<1>4. epHdl' = epHdl /\ epVer' = epVer
  BY <1>1, <1>2, <1>3 DEF IInv, Types, VInv, VTypes
<1> QED BY <1>1, <1>4, VFrame

-----------------------------------------------------------------------------
\* The version of a new table continues the count.
LEMMA CfgStartVersions ==
    ASSUME IInv, VInv, NEW end \in BOOLEAN, NEW macs \in MacLists, CfgStart(end, macs)
    PROVE  VInv'
<1> DEFINE new == tables + 1
<1>1. /\ UNCHANGED <<epHdl, epVer, rd, sess>>
      /\ tables < MaxTables /\ tables' = new /\ staged' = new
      /\ policyVer' = NextVer /\ verOf' = [verOf EXCEPT ![new] = NextVer]
  BY DEF CfgStart, Create, eps
<1>2. ctl.pc # "ver" /\ ctl'.pc # "ver"
  BY DEF CfgStart, HandOut, Idle
<1>3. VerMod \in Nat /\ VerMod > 1 /\ tables \in Nat /\ new \in Tables /\ MaxTables \in Nat
  BY <1>1, DPPolicyAssumption DEF IInv, Types, Tables
<1>4. policyVer \in 0 .. VerMod - 1
  BY <1>3 DEF VInv, Versions, Ver
<1>5. /\ NextVer = IF policyVer = VerMod - 1 THEN 1 ELSE policyVer + 1
      /\ NextVer \in 1 .. VerMod - 1
  BY <1>3, <1>4, NextVerFacts
<1> HIDE DEF new
<1>6. /\ verOf' \in [Tables -> Nat] /\ verOf'[new] = NextVer
      /\ \A h \in 1 .. tables : verOf'[h] = verOf[h]
  BY <1>1, <1>3, <1>5 DEF VInv, VTypes, new, Tables
<1>7. VTypes'
  BY <1>1, <1>3, <1>5, <1>6 DEF VInv, VTypes, Handles, Tables
<1>8. Versions'
  <2>1. policyVer' = Ver(tables)'
    BY <1>1, <1>3, <1>6 DEF Ver, new
  <2>2. \A h \in 1 .. new : verOf'[h] \in 1 .. VerMod - 1
    BY <1>3, <1>5, <1>6 DEF VInv, Versions, new
  <2>3. ASSUME NEW a \in 1 .. new, NEW b \in 1 .. new, a <= b, b - a < VerMod - 1
        PROVE  verOf'[b] \in Ahead(verOf'[a], b - a)
    <3>1. CASE b # new
      BY <1>3, <1>6, <2>3, <3>1 DEF VInv, Versions, new, Ahead
    <3>2. CASE b = new /\ a = new
      BY <1>3, <1>5, <1>6, <3>2 DEF Ahead
    <3>3. CASE b = new /\ a # new
      <4>1. a \in 1 .. tables /\ tables \in 1 .. tables /\ tables - a < VerMod - 2
        BY <1>3, <2>3, <3>3 DEF new
      <4>2. /\ policyVer \in Ahead(verOf[a], tables - a)
            /\ verOf[a] \in 1 .. VerMod - 1
        BY <1>3, <4>1 DEF VInv, Versions, Ver
      <4>3. verOf'[b] = NextVer /\ verOf'[a] = verOf[a] /\ b = tables + 1
        BY <1>6, <3>3, <4>1 DEF new
      <4>4. NextVer \in Ahead(verOf[a], tables + 1 - a)
        BY <1>3, <1>4, <1>5, <4>1, <4>2 DEF Ahead
      <4>5. b - a = tables + 1 - a
        BY <1>3, <4>1, <4>3
      <4> QED BY <4>3, <4>4, <4>5, Zenon
    <3> QED BY <3>1, <3>2, <3>3
  <2> QED BY <1>1, <2>1, <2>2, <2>3 DEF Versions
<1>9. \A o \in Objects : Ver(epHdl[o])' = Ver(epHdl[o]) /\ epHdl[o] \in 0 .. tables
  BY <1>1, <1>6, HdlBound DEF Ver
<1>10. StagedNewest' /\ EpVersions'
  BY <1>1, <1>2, <1>9 DEF VInv, StagedNewest, EpVersions, HalfWritten
<1>11. SessionsOK'
  <2> SUFFICES ASSUME NEW t \in Threads, NEW m \in Macs, sess[t][m].kind = "open"
               PROVE  /\ sess[t][m].by <= new
                      /\ sess[t][m].by # 0 => sess[t][m].ver = verOf'[sess[t][m].by]
                      /\ NotOlder(m, sess[t][m].by)'
    BY <1>1 DEF SessionsOK, SessionOK, NotOlder
  <2>1. sess[t][m] \in [kind : {"open"}, ver : Nat, by : Handles]
    BY DEF VInv, VTypes, Sessions, NoSession, Blocked, Pinned
  <2>2. SessionOK(t, m)
    BY DEF VInv, SessionsOK
  <2>3. sess[t][m].by \in 0 .. tables
    BY <1>3, <2>1, <2>2 DEF SessionOK, Handles
  <2> QED BY <1>1, <1>3, <1>6, <2>2, <2>3 DEF SessionOK, NotOlder, new
<1>12. AllFreshOK'
  <2> SUFFICES ASSUME NEW t \in InSection PROVE FreshOK(t)'
    BY <1>1 DEF AllFreshOK, InSection
  <2>1. FreshOK(t) /\ rd[t].ep \in Objects
    BY RdShape DEF VInv, AllFreshOK, InSection, IInv, Types
  <2>2. PassedOK(t) => PassedOK(t)'
    BY <1>1, <1>9, <2>1 DEF PassedOK
  <2> QED BY <1>1, <1>2, <2>1, <2>2 DEF FreshOK, NotOlder
<1> QED BY <1>7, <1>8, <1>10, <1>11, <1>12 DEF VInv

\* What becomes of the packets when an endpoint of MAC m is written.
LEMMA UnsettleRd ==
    ASSUME Types, NEW m \in Macs, Unsettle(m)
    PROVE  /\ InSection' = InSection
           /\ \A t \in InSection :
                 /\ rd'[t].pc = rd[t].pc /\ rd'[t].m = rd[t].m /\ rd'[t].ep = rd[t].ep
                 /\ rd'[t].hdl = rd[t].hdl /\ rd'[t].off = rd[t].off
                 /\ rd'[t].fresh => rd[t].fresh /\ rd[t].m # m
<1>1. rd \in [Threads -> Readers]
  BY DEF Types
<1>2. InSection' = InSection
  BY UnsettleFacts
<1>3. ASSUME NEW t \in InSection
      PROVE  /\ rd'[t].pc = rd[t].pc /\ rd'[t].m = rd[t].m /\ rd'[t].ep = rd[t].ep
             /\ rd'[t].hdl = rd[t].hdl /\ rd'[t].off = rd[t].off
             /\ rd'[t].fresh => rd[t].fresh /\ rd[t].m # m
  <2>1. t \in Threads /\ rd[t].pc # "out"
    BY DEF InSection
  <2>2. rd[t] \in [pc : {"found", "read", "judged"}, m : Macs, ep : Objects,
                   hdl : Handles, off : BOOLEAN, fresh : BOOLEAN]
    BY <1>1, <2>1, RdShape
  <2>3. CASE rd[t].m = m
    <3>1. rd'[t] = [rd[t] EXCEPT !.fresh = FALSE]
      BY <2>1, <2>3 DEF Unsettle
    <3> QED BY <2>2, <3>1
  <2>4. CASE rd[t].m # m
    <3>1. rd'[t] = rd[t]
      BY <2>1, <2>4 DEF Unsettle
    <3> QED BY <2>4, <3>1
  <2> QED BY <2>3, <2>4
<1> QED BY <1>2, <1>3

\* An endpoint gets the newest table or none: no session and no packet saw a newer
\* one, and the packets of its MAC are not fresh any more.
LEMMA UpdateHdlVersions ==
    ASSUME IInv, VInv, UpdateHdl
    PROVE  VInv'
<1>1. PICK m \in Macs : m = Head(ctl.macs)
  BY CtlShape DEF UpdateHdl, IInv, Types
<1> DEFINE o0 == Obj(m)
<1>2. /\ epMap[m] # 0 /\ epHdl' = [epHdl EXCEPT ![o0] = staged]
      /\ ctl.pc = "hdl" /\ ctl' = [pc |-> "ver", macs |-> ctl.macs, old |-> epHdl[o0]]
      /\ Unsettle(m)
      /\ UNCHANGED <<epMap, epVer, verOf, tables, policyVer, staged, sess>>
  BY <1>1 DEF UpdateHdl
<1>3. o0 \in Objects /\ o0[1] = m
  BY <1>2 DEF IInv, Types, Obj, Objects
<1>4. ctl'.pc = "ver" /\ Head(ctl'.macs) = m /\ Obj(m)' = o0
  BY <1>1, <1>2 DEF Obj
<1> HIDE DEF o0
<1>5. /\ epHdl'[o0] = staged /\ staged \in {0, tables}
      /\ \A o \in Objects : o # o0 => epHdl'[o] = epHdl[o]
  BY <1>2, <1>3 DEF IInv, Types, VInv, StagedNewest
<1>6. VTypes' /\ Versions' /\ StagedNewest'
  BY <1>2 DEF VInv, VTypes, Versions, StagedNewest, Ver
<1>7. EpVersions'
  <2> SUFFICES ASSUME NEW o \in Objects, ~HalfWritten(o)'
               PROVE  epVer'[o] = Ver(epHdl[o])'
    BY DEF EpVersions
  <2>1. o # o0
    BY <1>4 DEF HalfWritten
  <2> QED BY <1>2, <1>5, <2>1 DEF VInv, EpVersions, HalfWritten, Ver
<1>8. ASSUME NEW x \in Macs, NEW h, h <= tables, NotOlder(x, h)
      PROVE  NotOlder(x, h)'
  BY <1>5, <1>8 DEF NotOlder
<1>9. SessionsOK'
  BY <1>2, <1>8 DEF VInv, SessionsOK, SessionOK
<1>10. AllFreshOK'
  <2> SUFFICES ASSUME NEW t \in InSection PROVE FreshOK(t)'
    BY <1>2, UnsettleRd DEF AllFreshOK, IInv
  <2>1. FreshOK(t) /\ rd[t].m \in Macs /\ rd[t].hdl <= tables /\ rd[t].ep \in Objects
    BY RdShape, HdlBound DEF VInv, AllFreshOK, InSection, IInv, Types
  <2>2. /\ rd'[t].pc = rd[t].pc /\ rd'[t].m = rd[t].m /\ rd'[t].ep = rd[t].ep
        /\ rd'[t].hdl = rd[t].hdl /\ rd'[t].off = rd[t].off
        /\ rd'[t].fresh => rd[t].fresh /\ rd[t].m # m
    BY <1>2, UnsettleRd DEF IInv
  <2>3. NotOlder(rd[t].m, rd[t].hdl)'
    <3>1. PICK x, h : x \in Macs /\ x = rd[t].m /\ h = rd[t].hdl
      BY <2>1
    <3>2. NotOlder(x, h)'
      BY <1>8, <2>1, <3>1 DEF FreshOK
    <3> QED BY <2>2, <3>1, <3>2 DEF NotOlder
  <2>4. CASE rd'[t].fresh
    <3>1. rd[t].m # m /\ rd[t].fresh /\ rd[t].ep # o0 /\ epHdl'[rd[t].ep] = epHdl[rd[t].ep]
      BY <1>3, <1>5, <2>1, <2>2, <2>4 DEF FreshOK
    <3>2. PassedOK(t) => PassedOK(t)'
      BY <1>2, <2>2, <3>1 DEF PassedOK, Ver
    <3> QED BY <1>4, <2>1, <2>2, <2>3, <3>1, <3>2 DEF FreshOK
  <2>5. CASE ~rd'[t].fresh
    BY <2>1, <2>2, <2>3, <2>5 DEF FreshOK
  <2> QED BY <2>4, <2>5
<1> QED BY <1>6, <1>7, <1>9, <1>10 DEF VInv

\* The version that is written is the one of the table written before.
LEMMA UpdateVerVersions ==
    ASSUME IInv, VInv, UpdateVer
    PROVE  VInv'
<1>1. PICK m \in Macs : m = Head(ctl.macs)
  BY CtlShape DEF UpdateVer, IInv, Types
<1> DEFINE o0 == Obj(m)
<1>2. /\ epVer' = [epVer EXCEPT ![o0] = Ver(staged)]
      /\ Unsettle(m) /\ ctl.pc = "ver"
      /\ UNCHANGED <<epHdl, verOf, tables, policyVer, staged, sess>>
  BY <1>1 DEF UpdateVer, tabs
<1>3. o0 \in Objects /\ o0[1] = m /\ epHdl[o0] = staged /\ HalfWritten(o0)
  BY <1>1, <1>2 DEF IInv, Types, StagedOK, Obj, Objects, HalfWritten
<1>4. \A o \in Objects : o # o0 => ~HalfWritten(o)
  BY <1>1 DEF HalfWritten
<1>5. ctl'.pc # "ver"
  <2>1. ctl \in [pc : {"ver", "drop"}, macs : Seq(Macs), old : Handles]
    BY <1>2, CtlShape DEF IInv, Types
  <2> QED BY <2>1 DEF UpdateVer
<1> HIDE DEF o0
<1>6. Ver(staged) \in Nat
  BY DEF IInv, Types, VInv, VTypes, Ver
<1>7. epVer' \in [Objects -> Nat] /\ \A o \in Objects : epVer'[o] = Ver(epHdl[o])
  BY <1>2, <1>3, <1>4, <1>6 DEF VInv, VTypes, EpVersions
<1>8. VTypes' /\ Versions' /\ StagedNewest'
  BY <1>2, <1>7 DEF VInv, VTypes, Versions, StagedNewest, Ver
<1>9. EpVersions'
  BY <1>2, <1>7 DEF EpVersions, Ver
<1>10. SessionsOK'
  BY <1>2 DEF VInv, SessionsOK, SessionOK, NotOlder
<1>11. AllFreshOK'
  <2> SUFFICES ASSUME NEW t \in InSection PROVE FreshOK(t)'
    BY <1>2, UnsettleRd DEF AllFreshOK, IInv
  <2>1. FreshOK(t)
    BY DEF VInv, AllFreshOK
  <2>2. /\ rd'[t].pc = rd[t].pc /\ rd'[t].m = rd[t].m /\ rd'[t].ep = rd[t].ep
        /\ rd'[t].hdl = rd[t].hdl /\ rd'[t].off = rd[t].off
        /\ rd'[t].fresh => rd[t].fresh
    BY <1>2, UnsettleRd DEF IInv
  <2>3. PassedOK(t) => PassedOK(t)'
    BY <1>2, <2>2 DEF PassedOK, Ver
  <2> QED BY <1>2, <1>5, <2>1, <2>2, <2>3 DEF FreshOK, NotOlder
<1> QED BY <1>8, <1>9, <1>10, <1>11 DEF VInv

\* Steps that give an object no packet is at the table of its MAC, or none, together
\* with the version.
LEMMA ObjectWritten ==
    ASSUME IInv, VInv, NEW o0 \in Objects, epVer' \in [Objects -> Nat],
           \A o \in Objects \ {o0} : epHdl'[o] = epHdl[o] /\ epVer'[o] = epVer[o],
           \/ epHdl'[o0] = 0 /\ epVer'[o0] = 0
           \/ \E x \in Objects : /\ x[1] = o0[1]
                                 /\ epHdl'[o0] = epHdl[x] /\ epVer'[o0] = epVer[x],
           \A t \in InSection : rd[t].ep # o0,
           UNCHANGED <<verOf, tables, policyVer, staged, rd, sess>>,
           ctl.pc # "ver", ctl'.pc # "ver"
    PROVE  VInv'
<1>1. VTypes' /\ Versions' /\ StagedNewest'
  BY DEF VInv, VTypes, Versions, StagedNewest, Ver
<1>2. EpVersions'
  BY DEF VInv, EpVersions, HalfWritten, Ver
<1>3. ASSUME NEW x, NEW h, NotOlder(x, h)
      PROVE  NotOlder(x, h)'
  BY <1>3 DEF NotOlder
<1>4. SessionsOK'
  BY <1>3 DEF VInv, SessionsOK, SessionOK
<1>5. AllFreshOK'
  <2> SUFFICES ASSUME NEW t \in InSection PROVE FreshOK(t)'
    BY DEF AllFreshOK, InSection
  <2>1. FreshOK(t) /\ rd[t].ep \in Objects /\ epHdl'[rd[t].ep] = epHdl[rd[t].ep]
    BY RdShape DEF VInv, AllFreshOK, InSection, IInv, Types
  <2>2. NotOlder(rd[t].m, rd[t].hdl)'
    BY <1>3, <2>1 DEF FreshOK
  <2>3. PassedOK(t) => PassedOK(t)'
    BY <2>1 DEF PassedOK, Ver
  <2> QED BY <2>1, <2>2, <2>3 DEF FreshOK
<1> QED BY <1>1, <1>2, <1>4, <1>5 DEF VInv

\* The object that replaces an endpoint takes over its pair of table and version.
LEMMA ReplaceUnmapVersions ==
    ASSUME IInv, VInv, NEW m \in Macs, ReplaceUnmap(m)
    PROVE  VInv'
<1> DEFINE new == <<m, 3 - epMap[m]>>
<1>1. /\ ctl = Idle /\ epMap[m] # 0
      /\ epHdl' = [epHdl EXCEPT ![new] = epHdl[Obj(m)]]
      /\ epVer' = [epVer EXCEPT ![new] = epVer[Obj(m)]]
      /\ ctl' = [pc |-> "remap", m |-> m, old |-> Obj(m)]
      /\ UNCHANGED <<verOf, tables, policyVer, staged, rd, sess>>
  BY DEF ReplaceUnmap, tabs
<1>2. /\ ctl.pc = "idle" /\ ctl'.pc # "ver"
      /\ Obj(m) \in Objects /\ new \in Objects /\ Obj(m)[1] = new[1]
      /\ epMap[new[1]] # new[2]
  BY <1>1 DEF IInv, Types, Obj, Objects, Idle
<1>3. new \notin liveEps
  BY <1>2 DEF IInv, Endpoints, Leaving
<1> HIDE DEF new
<1>4. /\ epVer' \in [Objects -> Nat]
      /\ \A o \in Objects \ {new} : epHdl'[o] = epHdl[o] /\ epVer'[o] = epVer[o]
      /\ epHdl'[new] = epHdl[Obj(m)] /\ epVer'[new] = epVer[Obj(m)]
  BY <1>1, <1>2 DEF IInv, Types, VInv, VTypes
<1>5. \A t \in InSection : rd[t].ep # new
  BY <1>3 DEF IInv, ReadersOK, ReaderOK
<1> QED BY <1>1, <1>2, <1>4, <1>5, ObjectWritten

\* An object is freed when no packet is at it any more.
LEMMA FreeVersions ==
    ASSUME IInv, VInv, ReplaceFree \/ DelFree
    PROVE  VInv'
<1> DEFINE old == ctl.old
<1>1. /\ ctl.pc \in {"replaced", "deleted"} /\ waiting = {}
      /\ epHdl' = [epHdl EXCEPT ![old] = 0]
      /\ epVer' = [epVer EXCEPT ![old] = 0]
      /\ UNCHANGED <<verOf, tables, policyVer, staged, rd, sess>>
  BY DEF ReplaceFree, DelFree, tabs
<1>2. ctl'.pc # "ver"
  BY DEF ReplaceFree, DelFree, Idle
<1>3. old \in Objects
  BY <1>1, CtlShape DEF IInv, Types
<1>4. \A t \in InSection : rd[t].ep # old
  BY <1>1 DEF IInv, ReadersOK, ReaderOK
<1> HIDE DEF old
<1>5. /\ epVer' \in [Objects -> Nat]
      /\ \A o \in Objects \ {old} : epHdl'[o] = epHdl[o] /\ epVer'[o] = epVer[o]
      /\ epHdl'[old] = 0 /\ epVer'[old] = 0
  BY <1>1, <1>3 DEF IInv, Types, VInv, VTypes
<1> QED BY <1>1, <1>2, <1>3, <1>4, <1>5, ObjectWritten

-----------------------------------------------------------------------------
\* A step of data thread t that keeps its own packet and its own sessions right.
LEMMA ThreadFrame ==
    ASSUME VInv, NEW t \in Threads,
           UNCHANGED <<epMap, epHdl, epVer, verOf, tables, policyVer, staged>>,
           ctl' = ctl \/ (ctl.pc # "ver" /\ ctl'.pc # "ver"),
           sess' \in [Threads -> [Macs -> Sessions]],
           \A u \in Threads \ {t} : rd'[u] = rd[u] /\ sess'[u] = sess[u],
           \A m \in Macs : SessionOK(t, m)',
           rd'[t].pc # "out" => FreshOK(t)'
    PROVE  VInv'
<1>1. VTypes' /\ Versions' /\ StagedNewest'
  BY DEF VInv, VTypes, Versions, StagedNewest, Ver
<1>2. EpVersions'
  BY DEF VInv, EpVersions, HalfWritten, Ver, Obj
<1>3. SessionsOK'
  <2> SUFFICES ASSUME NEW u \in Threads \ {t}, NEW m \in Macs PROVE SessionOK(u, m)'
    BY DEF SessionsOK
  <2>1. SessionOK(u, m) /\ sess'[u] = sess[u]
    BY DEF VInv, SessionsOK
  <2> QED BY <2>1 DEF SessionOK, NotOlder
<1>4. AllFreshOK'
  <2> SUFFICES ASSUME NEW u \in Threads \ {t}, rd'[u].pc # "out" PROVE FreshOK(u)'
    BY DEF AllFreshOK, InSection
  <2>1. FreshOK(u) /\ rd'[u] = rd[u] /\ sess'[u] = sess[u]
    BY DEF VInv, AllFreshOK, InSection
  <2>2. PassedOK(u) => PassedOK(u)'
    BY <2>1 DEF PassedOK, Ver
  <2> QED BY <2>1, <2>2 DEF FreshOK, NotOlder
<1> QED BY <1>1, <1>2, <1>3, <1>4 DEF VInv

\* A thread that leaves its sessions alone.
LEMMA SessionsStay ==
    ASSUME VInv, NEW t \in Threads, UNCHANGED <<epHdl, verOf, tables, sess>>
    PROVE  sess' \in [Threads -> [Macs -> Sessions]] /\ \A m \in Macs : SessionOK(t, m)'
BY DEF VInv, VTypes, SessionsOK, SessionOK, NotOlder

\* The allocated objects of a MAC refer to one table.
LEMMA OneTable ==
    ASSUME IInv, NEW e \in liveEps
    PROVE  NotOlder(e[1], epHdl[e])
<1> SUFFICES ASSUME NEW o \in Objects, o[1] = e[1], epHdl[o] # 0
             PROVE  epHdl[e] <= epHdl[o]
  BY DEF NotOlder
<1>1. e \in Objects /\ epHdl[e] \in Nat /\ epHdl[o] \in Nat
  BY DPPolicyAssumption DEF IInv, Types, Handles
<1>2. o \in liveEps
  BY DEF IInv, Referred
<1>3. CASE e = o
  BY <1>1, <1>3
<1>4. CASE e # o
  <2>1. e = Twin(o) /\ o = Twin(e)
    BY <1>1, <1>4 DEF Objects, Twin
  <2>2. epMap[e[1]] # e[2] \/ epMap[o[1]] # o[2]
    BY <1>1, <1>4 DEF Objects
  <2>3. Leaving /\ (ctl.old = e \/ ctl.old = o)
    <3>1. CASE Leaving /\ (e = ctl.old \/ o = ctl.old)
      BY <3>1
    <3>2. CASE ctl.pc = "remap" /\ (e = Twin(ctl.old) \/ o = Twin(ctl.old))
      <4>1. ctl.old \in Objects
        BY <3>2, CtlShape DEF IInv, Types
      <4>2. ctl.old = e \/ ctl.old = o
        BY <1>1, <1>4, <2>1, <3>2, <4>1 DEF Objects, Twin
      <4> QED BY <3>2, <4>2 DEF Leaving
    <3> QED BY <1>2, <2>2, <3>1, <3>2 DEF IInv, Endpoints
  <2>4. epHdl[e] = epHdl[o]
    <3>1. CASE ctl.pc = "deleted"
      <4>1. epMap[e[1]] = 0 /\ e[2] # 0 /\ o[2] # 0
        BY <1>1, <2>3, <3>1 DEF IInv, Endpoints, Objects
      <4> QED BY <1>2, <1>4, <2>3, <3>1, <4>1 DEF IInv, Endpoints
    <3>2. CASE ctl.pc \in {"remap", "replaced"}
      BY <2>1, <2>3, <3>2 DEF IInv, Endpoints
    <3> QED BY <2>3, <3>1, <3>2 DEF Leaving
  <2> QED BY <1>1, <2>4
<1> QED BY <1>3, <1>4

\* A packet of an endpoint that is being written is not fresh.
LEMMA RecvPacketVersions ==
    ASSUME IInv, VInv, NEW t \in Threads, NEW m \in Busy, RecvPacket(t, m)
    PROVE  VInv'
<1>1. /\ UNCHANGED <<epMap, epHdl, epVer, verOf, tables, policyVer, staged, ctl, sess>>
      /\ rd' = [rd EXCEPT ![t] =
                  [pc |-> "found", m |-> m, ep |-> Obj(m), hdl |-> 0, off |-> disabled,
                   fresh |-> ~(ctl.pc = "ver" /\ Head(ctl.macs) = m)]]
      /\ rd \in [Threads -> Readers]
  BY DEF RecvPacket, eps, tabs, IInv, Types
<1>2. /\ \A u \in Threads \ {t} : rd'[u] = rd[u] /\ sess'[u] = sess[u]
      /\ rd'[t].pc = "found" /\ rd'[t].m = m /\ rd'[t].ep = Obj(m) /\ rd'[t].hdl = 0
      /\ rd'[t].fresh => ~(ctl.pc = "ver" /\ Head(ctl.macs) = m)
  BY <1>1
<1>3. NotOlder(rd[t].m, rd[t].hdl)'
  BY <1>1, <1>2 DEF NotOlder, IInv, Types, Handles
<1>4. FreshOK(t)'
  BY <1>1, <1>2, <1>3 DEF FreshOK, Obj
<1> QED BY <1>1, <1>2, <1>4, SessionsStay, ThreadFrame

\* The table that is read is in force, and no older than any before.
LEMMA ReadHdlVersions ==
    ASSUME IInv, VInv, NEW t \in Threads, ReadHdl(t)
    PROVE  VInv'
<1>1. /\ UNCHANGED <<epMap, epHdl, epVer, verOf, tables, policyVer, staged, ctl, sess>>
      /\ rd' = [rd EXCEPT ![t].hdl = epHdl[rd[t].ep], ![t].pc = "read"]
      /\ rd[t].pc = "found" /\ t \in InSection /\ rd \in [Threads -> Readers]
  BY DEF ReadHdl, eps, tabs, IInv, Types, InSection
<1>2. rd[t] \in [pc : {"found", "read", "judged"}, m : Macs, ep : Objects,
                 hdl : Handles, off : BOOLEAN, fresh : BOOLEAN]
  BY <1>1, RdShape
<1>3. /\ \A u \in Threads \ {t} : rd'[u] = rd[u] /\ sess'[u] = sess[u]
      /\ rd'[t].pc = "read" /\ rd'[t].m = rd[t].m /\ rd'[t].ep = rd[t].ep
      /\ rd'[t].hdl = epHdl[rd[t].ep] /\ rd'[t].fresh = rd[t].fresh
  BY <1>1, <1>2
<1>4. FreshOK(t) /\ rd[t].ep \in liveEps
  BY <1>1 DEF VInv, AllFreshOK, IInv, ReadersOK, ReaderOK
<1>5. NotOlder(rd[t].m, epHdl[rd[t].ep])
  BY <1>1, <1>2, <1>4, OneTable DEF FreshOK
<1>6. FreshOK(t)'
  BY <1>1, <1>3, <1>4, <1>5 DEF FreshOK, NotOlder
<1> QED BY <1>1, <1>3, <1>6, SessionsStay, ThreadFrame

\* Equal versions: the same table, or at least VerMod - 1 tables in between.
LEMMA SameVersion ==
    ASSUME VInv, NEW b \in 1 .. tables, NEW h \in 0 .. tables, tables \in Nat,
           verOf[b] = Ver(h), h # 0 => b <= h
    PROVE  h = b \/ h - b >= VerMod - 1
<1>1. VerMod \in Nat /\ VerMod > 1
  BY DPPolicyAssumption
<1>2. verOf[b] \in 1 .. VerMod - 1
  BY DEF VInv, Versions
<1>3. h # 0 /\ h \in 1 .. tables /\ verOf[h] = verOf[b] /\ b <= h
  BY <1>2 DEF Ver
<1>4. h - b < VerMod - 1 => verOf[h] \in Ahead(verOf[b], h - b)
  BY <1>3 DEF VInv, Versions
<1> QED BY <1>1, <1>2, <1>3, <1>4 DEF Ahead

\* What dpi_policy_lookup_by_key records.
LEMMA LookupFacts ==
    ASSUME IInv, VInv, NEW t \in InSection, NEW v
    PROVE  LET L == Lookup(t, v) IN
             /\ L \in Sessions
             /\ L.kind = "open" =>
                   /\ L.ver = Ver(rd[t].hdl) /\ L.by \in {0, rd[t].hdl}
                   /\ ~rd[t].off => L.by = rd[t].hdl
                   /\ L.by <= tables /\ (L.by # 0 => L.ver = verOf[L.by])
                   /\ NotOlder(rd[t].m, L.by)
<1> DEFINE hdl == rd[t].hdl
<1>1. /\ hdl \in 0 .. tables /\ hdl \in Handles /\ 0 \in Handles /\ tables \in Nat
      /\ \A o \in Objects : epHdl[o] \in 0 .. tables
  BY RdShape, HdlBound, DPPolicyAssumption DEF IInv, Types, InSection, Handles
<1>2. hdl # 0 => hdl \in Tables
  BY <1>1 DEF Handles, Tables
<1>3. Ver(hdl) \in Nat
  BY <1>2 DEF VInv, VTypes, Ver
<1>4. NotOlder(rd[t].m, hdl) /\ NotOlder(rd[t].m, 0)
  BY <1>1 DEF VInv, AllFreshOK, FreshOK, NotOlder
<1> HIDE DEF hdl
<1>5. CASE Lookup(t, v) = Judged(Ver(hdl), 0)
  <2>1. hdl = 0 \/ rd[t].off
    <3> SUFFICES ASSUME ~(hdl = 0 \/ rd[t].off) PROVE FALSE
      OBVIOUS
    <3>1. Lookup(t, v) \in {Blocked, Pinned, Judged(Ver(hdl), hdl)}
      BY DEF Lookup, hdl
    <3> QED BY <1>5, <3>1 DEF Blocked, Pinned, Judged
  <2> QED BY <1>1, <1>3, <1>4, <1>5, <2>1 DEF Judged, Sessions, hdl
<1>6. CASE Lookup(t, v) = Judged(Ver(hdl), hdl)
  BY <1>1, <1>3, <1>4, <1>6 DEF Judged, Sessions, Ver, hdl
<1>7. CASE Lookup(t, v) \in {Blocked, Pinned}
  BY <1>7 DEF Blocked, Pinned, Sessions
<1> QED BY <1>5, <1>6, <1>7 DEF Lookup, hdl

\* A session that keeps its stamp has the version in force; one that is looked up
\* again is judged by the table that was read.
LEMMA JudgeVersions ==
    ASSUME IInv, VInv, NEW t \in Threads, Judge(t)
    PROVE  VInv'
<1>1. /\ UNCHANGED <<epMap, epHdl, epVer, verOf, tables, policyVer, staged, ctl>>
      /\ rd[t].pc = "read" /\ t \in InSection /\ rd \in [Threads -> Readers]
      /\ sess \in [Threads -> [Macs -> Sessions]]
  BY DEF Judge, eps, tabs, IInv, Types, InSection, VInv, VTypes
<1>2. rd[t] \in [pc : {"found", "read", "judged"}, m : Macs, ep : Objects,
                 hdl : Handles, off : BOOLEAN, fresh : BOOLEAN]
  BY <1>1, RdShape
<1>3. PICK v \in {"allow", "deny", "exempt"} : JudgeNew(t, v) \/ JudgeAgain(t, v)
  BY DEF Judge
<1>4. PICK p \in {"found", "judged"} : rd' = [rd EXCEPT ![t].pc = p, ![t].hdl = 0]
  BY <1>3 DEF JudgeNew, JudgeAgain
<1>5. /\ \A u \in Threads \ {t} : rd'[u] = rd[u]
      /\ rd'[t].pc = p /\ rd'[t].m = rd[t].m /\ rd'[t].ep = rd[t].ep /\ rd'[t].hdl = 0
      /\ rd'[t].fresh = rd[t].fresh /\ rd'[t].off = rd[t].off
  BY <1>1, <1>2, <1>4
<1>6. PICK L : L = Lookup(t, v)
  OBVIOUS
<1>7. PICK m \in Macs : m = rd[t].m
  BY <1>2
<1>8. PICK h \in 0 .. tables : h = epHdl[rd[t].ep]
  BY <1>2, HdlBound
<1>9. FreshOK(t) /\ SessionOK(t, m)
  BY <1>1 DEF VInv, AllFreshOK, SessionsOK
<1>10. /\ L \in Sessions
       /\ L.kind = "open" =>
             /\ L.ver = Ver(rd[t].hdl) /\ L.by \in {0, rd[t].hdl}
             /\ ~rd[t].off => L.by = rd[t].hdl
             /\ L.by <= tables /\ (L.by # 0 => L.ver = verOf[L.by])
             /\ NotOlder(m, L.by)
  BY <1>1, <1>6, <1>7, LookupFacts
<1>11. \/ sess' = sess /\ sess[t][m] = NoSession
       \/ sess' = sess /\ sess[t][m] \in {Blocked, Pinned}
       \/ sess' = sess /\ sess[t][m].ver = epVer[rd[t].ep]
       \/ sess' = [sess EXCEPT ![t][m] = L]
  BY <1>3, <1>6, <1>7 DEF JudgeNew, JudgeAgain
<1>12. /\ sess' \in [Threads -> [Macs -> Sessions]]
       /\ \A u \in Threads \ {t} : sess'[u] = sess[u]
       /\ \A x \in Macs \ {m} : sess'[t][x] = sess[t][x]
       /\ sess'[t][m] = sess[t][m] \/ sess'[t][m] = L
  BY <1>1, <1>10, <1>11
<1>13. ASSUME NEW x \in Macs
       PROVE  SessionOK(t, x)'
  <2>1. SessionOK(t, x)
    BY DEF VInv, SessionsOK
  <2>2. CASE sess'[t][x] = sess[t][x]
    BY <1>1, <2>1, <2>2 DEF SessionOK, NotOlder
  <2>3. CASE x = m /\ sess'[t][x] = L
    BY <1>1, <1>10, <2>3 DEF SessionOK, NotOlder
  <2> QED BY <1>12, <2>2, <2>3
<1>14. ASSUME rd[t].fresh, ~rd[t].off
       PROVE  PassedOK(t)'
  <2>1. rd[t].hdl = h /\ ~HalfWritten(rd[t].ep)
    BY <1>1, <1>8, <1>9, <1>14 DEF FreshOK, HalfWritten, Obj
  <2>2. epVer[rd[t].ep] = Ver(h)
    BY <1>2, <1>8, <2>1 DEF VInv, EpVersions
  <2> SUFFICES ASSUME sess'[t][m].kind = "open"
               PROVE  \/ sess'[t][m].by = h
                      \/ sess'[t][m].by # 0 /\ h - sess'[t][m].by >= VerMod - 1
                      \/ sess'[t][m].by = 0 /\ sess'[t][m].ver = Ver(h) /\ h # 0
    BY <1>1, <1>5, <1>7, <1>8 DEF PassedOK, Ver
  <2>3. CASE sess'[t][m] = L
    BY <1>10, <1>14, <2>1, <2>3
  <2>4. CASE sess' = sess /\ sess[t][m].ver = Ver(h)
    <3>1. PICK s : s = sess[t][m]
      OBVIOUS
    <3>2. s \in [kind : {"open"}, ver : Nat, by : Handles] /\ sess'[t][m] = s
      BY <1>1, <2>4, <3>1 DEF Sessions, NoSession, Blocked, Pinned
    <3>3. /\ s.by <= tables /\ (s.by # 0 => s.ver = verOf[s.by])
          /\ NotOlder(m, s.by) /\ s.ver = Ver(h)
      BY <1>9, <2>4, <3>1, <3>2 DEF SessionOK
    <3>4. h # 0 => s.by <= h
      BY <1>2, <1>7, <1>8, <1>9, <3>3 DEF NotOlder, FreshOK
    <3>5. tables \in Nat /\ s.by \in 0 .. tables
      BY <3>2, <3>3, DPPolicyAssumption DEF IInv, Types, Handles
    <3>6. CASE s.by = 0
      BY <3>2, <3>3, <3>6
    <3>7. CASE s.by # 0
      <4>1. PICK b \in 1 .. tables : b = s.by
        BY <3>5, <3>7
      <4>2. h = b \/ h - b >= VerMod - 1
        BY <3>3, <3>4, <3>5, <3>7, <4>1, SameVersion
      <4> QED BY <3>2, <3>7, <4>1, <4>2
    <3> QED BY <3>6, <3>7
  <2>5. CASE sess' = sess /\ sess[t][m] \in {NoSession, Blocked, Pinned}
    BY <2>5 DEF NoSession, Blocked, Pinned
  <2>6. CASE sess' = [sess EXCEPT ![t][m] = L]
    BY <1>1, <2>3, <2>6
  <2> QED BY <1>11, <2>2, <2>4, <2>5, <2>6
<1>15. NotOlder(rd[t].m, rd[t].hdl)'
  BY <1>1, <1>5, HdlBound DEF NotOlder
<1>16. FreshOK(t)'
  BY <1>1, <1>5, <1>9, <1>14, <1>15 DEF FreshOK
<1> QED BY <1>1, <1>5, <1>12, <1>13, <1>16, ThreadFrame

\* A thread outside a section.
LEMMA LeaveVersions ==
    ASSUME IInv, VInv, NEW t \in Threads, Leave(t)
    PROVE  VInv'
<1>1. /\ UNCHANGED <<epMap, epHdl, epVer, verOf, tables, policyVer, staged, ctl, sess>>
      /\ rd' = [rd EXCEPT ![t] = Out] /\ rd \in [Threads -> Readers]
  BY DEF Leave, eps, tabs, IInv, Types
<1>2. rd'[t].pc = "out" /\ \A u \in Threads \ {t} : rd'[u] = rd[u] /\ sess'[u] = sess[u]
  BY <1>1 DEF Out
<1> QED BY <1>1, <1>2, SessionsStay, ThreadFrame

\* A session that ends or is deleted between two packets.
LEMMA SessionGone ==
    ASSUME IInv, VInv, NEW t \in Threads, NEW m \in Macs, rd[t] = Out, rd' = rd,
           sess' = [sess EXCEPT ![t][m] = NoSession],
           UNCHANGED <<epMap, epHdl, epVer, verOf, tables, policyVer, staged>>,
           ctl' = ctl \/ (ctl.pc # "ver" /\ ctl'.pc # "ver")
    PROVE  VInv'
<1>1. /\ sess' \in [Threads -> [Macs -> Sessions]]
      /\ \A u \in Threads \ {t} : sess'[u] = sess[u]
      /\ \A x \in Macs : sess'[t][x] \in {sess[t][x], NoSession}
  BY DEF VInv, VTypes, Sessions
<1>2. ASSUME NEW x \in Macs
      PROVE  SessionOK(t, x)'
  <2>1. SessionOK(t, x)
    BY DEF VInv, SessionsOK
  <2> QED BY <1>1, <2>1 DEF SessionOK, NotOlder, NoSession
<1>3. rd'[t].pc = "out"
  BY DEF Out
<1> QED BY <1>1, <1>2, <1>3, ThreadFrame

\* The end of a session.
LEMMA SessionEndVersions ==
    ASSUME IInv, VInv, NEW t \in Threads, NEW m \in Busy, SessionEnd(t, m)
    PROVE  VInv'
<1>1. /\ UNCHANGED <<epMap, epHdl, epVer, verOf, tables, policyVer, staged>>
      /\ rd[t] = Out /\ rd' = rd /\ ctl' = ctl
      /\ sess' = [sess EXCEPT ![t][m] = NoSession]
  BY DEF SessionEnd, eps, tabs
<1>2. m \in Macs
  BY DPPolicyAssumption
<1> QED BY <1>1, <1>2, SessionGone

\* The sessions of a deleted MAC, of the threads that answer.
LEMMA DelSessionsVersions ==
    ASSUME IInv, VInv, NEW t \in Threads, DelSessions(t)
    PROVE  VInv'
<1>1. /\ UNCHANGED <<epMap, epHdl, epVer, verOf, tables, policyVer, staged, rd>>
      /\ ctl.pc = "ask"
      /\ \/ rd[t] = Out /\ sess' = [sess EXCEPT ![t][ctl.m] = NoSession]
         \/ sess' = sess
  BY DEF DelSessions, eps, tabs
<1>2. ctl \in [pc : {"ask"}, m : Macs, asked : SUBSET Threads]
  BY <1>1, CtlShape DEF IInv, Types
<1>3. ctl'.pc # "ver"
  BY <1>2 DEF DelSessions, Idle
<1>4. PICK m \in Macs : m = ctl.m
  BY <1>2
<1>5. CASE sess' = sess
  BY <1>1, <1>3, <1>5, VFrame
<1>6. CASE rd[t] = Out /\ sess' = [sess EXCEPT ![t][m] = NoSession]
  BY <1>1, <1>3, <1>6, SessionGone
<1> QED BY <1>1, <1>4, <1>5, <1>6

-----------------------------------------------------------------------------
\* Nothing is versioned when the data plane starts.
LEMMA VersionsInit ==
    ASSUME Init
    PROVE  VInv
<1>1. VTypes
  BY DPPolicyAssumption DEF Init, VTypes, Sessions, Handles
<1>2. Versions /\ StagedNewest /\ EpVersions
  BY DEF Init, Versions, StagedNewest, EpVersions, Ver
<1>3. SessionsOK
  BY DEF Init, SessionsOK, SessionOK, NoSession
<1>4. AllFreshOK
  BY DEF Init, AllFreshOK, InSection, Out
<1> QED BY <1>1, <1>2, <1>3, <1>4 DEF VInv

\* Every step keeps what is known of the versions.
LEMMA VersionsStep ==
    ASSUME IInv, VInv, [Next]_vars
    PROVE  VInv'
<1>1. CASE Control
  BY <1>1, CfgStartVersions, QuietSteps, UpdateHdlVersions, UpdateVerVersions, AddMacVersions,
     ReplaceUnmapVersions, FreeVersions, DelSessionsVersions DEF Control
<1>2. CASE \E t \in Threads : Data(t)
  BY <1>2, RecvPacketVersions, SessionEndVersions, ReadHdlVersions, JudgeVersions,
     LeaveVersions DEF Data
<1>3. CASE UNCHANGED vars
  <2>1. UNCHANGED <<epMap, epHdl, epVer, verOf, tables, policyVer, staged, ctl, rd, sess>>
    BY <1>3 DEF vars, eps, tabs
  <2>2. VTypes' /\ Versions' /\ StagedNewest'
    BY <2>1 DEF VInv, VTypes, Versions, StagedNewest, Ver
  <2>3. EpVersions'
    BY <2>1 DEF VInv, EpVersions, HalfWritten, Ver, Obj
  <2>4. SessionsOK'
    BY <2>1 DEF VInv, SessionsOK, SessionOK, NotOlder
  <2>5. AllFreshOK'
    BY <2>1 DEF VInv, AllFreshOK, FreshOK, NotOlder, PassedOK, InSection, Ver
  <2> QED BY <2>2, <2>3, <2>4, <2>5 DEF VInv
<1> QED BY <1>1, <1>2, <1>3 DEF Next

\* Handles and versions of endpoints, sessions and packets fit together at every
\* point of the control thread.
THEOREM VersionsHold == Spec => []VInv
BY VersionsInit, VersionsStep, InvariantHolds, PTL DEF Spec

\* A packet that passes, whose endpoint was not written during its section, was judged
\* by the table in force; the code's exceptions (a wrapped version, a session judged
\* while the policy was off, an exempted session) are part of the property.
THEOREM JudgedByTableInForce == Spec => []PassedByTableInForce
<1>1. ASSUME VInv
      PROVE  PassedByTableInForce
  <2>1. ASSUME NEW t \in Threads, rd[t].pc = "judged", rd[t].fresh, ~rd[t].off
        PROVE  PassedOK(t)
    <3>1. t \in InSection
      BY <2>1 DEF InSection
    <3> QED BY <1>1, <2>1, <3>1 DEF VInv, AllFreshOK, FreshOK
  <2> QED BY <2>1 DEF PassedOK, PassedByTableInForce
<1>2. VInv => PassedByTableInForce
  BY <1>1
<1> QED BY <1>2, VersionsHold, PTL

-----------------------------------------------------------------------------
(* The rule table: what dpi_rule_add builds answers packets only with rules    *)
(* that match them and loses no range rule.                                    *)

\* Descriptors and items of range_rule_list, as sets of values.
Descs == Nat \X Nat
Items == [lo : Nat, hi : Nat, plo : Nat, phi : Nat, alo : Nat, ahi : Nat, desc : Descs]

\* The entry <<k, d>> of the hash map is of the rule d names: for the rule itself
\* under application 0, for one of its applications under that.
KeyOK(rs, k, d) ==
    LET r == rs[d[1]]
    IN  /\ d \in Descs
        /\ d[1] \in DOMAIN rs
        /\ k.ip = r.lo /\ r.lo = r.hi
        /\ k.port = r.plo /\ r.plo = r.phi
        /\ \/ d[2] = 0 /\ k.app = 0
           \/ d[2] \in DOMAIN r.apps /\ k.app = r.apps[d[2]] /\ k.app # 0

\* The item is of the rule its descriptor names and has that rule's range.  Only a
\* rule for any application, or an application 0 in its list, reaches to AnyApp.
ItemOK(rs, it) ==
    LET r == rs[it.desc[1]]
        i == it.desc[2]
    IN  /\ it \in Items
        /\ it.desc[1] \in DOMAIN rs
        /\ it.lo = r.lo /\ it.hi = r.hi /\ it.plo = r.plo /\ it.phi = r.phi
        /\ \/ /\ i = 0 /\ it.alo = 0
              /\ \/ it.ahi = 0
                 \/ it.ahi = AnyApp /\ r.apps = << >>
           \/ i \in DOMAIN r.apps /\ r.apps[i] = 0 /\ it.alo = 0 /\ it.ahi = AnyApp
           \/ i \in DOMAIN r.apps /\ r.apps[i] # 0 /\ it.alo = r.apps[i] /\ it.ahi = r.apps[i]

\* Every entry of the table is of one of the rules.
TableOK(rs, tb) ==
    /\ tb = [exact |-> tb.exact, list |-> tb.list]
    /\ \A e \in tb.exact : KeyOK(rs, e[1], e[2])
    /\ tb.list \in Seq(Items)
    /\ \A j \in DOMAIN tb.list : ItemOK(rs, tb.list[j])

\* The item answers every lookup in the range of the rule, whatever the application.
Covers(it, r) ==
    /\ it.lo = r.lo /\ it.hi = r.hi /\ it.plo = r.plo /\ it.phi = r.phi
    /\ it.alo = 0 /\ it.ahi = AnyApp

\* Every range rule for any application is covered by an item, its own or an
\* earlier one of the same range.
RangesCovered(rs, tb) ==
    \A n \in DOMAIN rs :
        ~Single(rs[n]) /\ rs[n].apps = << >> =>
            \E j \in DOMAIN tb.list : Covers(tb.list[j], rs[n])

\* The inductive invariant of the table's contents.
RulesInv ==
    /\ rules \in Seq(Rules) /\ Len(rules) <= MaxRules
    /\ TableOK(rules, Table)
    /\ RangesCovered(rules, Table)

\* The descriptor may be the answer to a lookup of the key: its rule concerns the
\* key, and either it is of the rule itself, to be checked again when the rule lists
\* applications, or of an application that the key falls under.
Entitled(rs, k, d) ==
    LET r == rs[d[1]]
    IN  /\ d \in Descs
        /\ d[1] \in DOMAIN rs
        /\ k.ip \in r.lo .. r.hi /\ k.port \in r.plo .. r.phi
        /\ \/ d[2] = 0 /\ (k.app = 0 \/ r.apps = << >>)
           \/ d[2] \in DOMAIN r.apps /\ r.apps[d[2]] \in {0, k.app}

\* Applications are numbered from 1, AnyApp is larger than all of them.
LEMMA AppNumbers == AnyApp \in Nat \ {0} /\ Apps \subseteq Nat \ {0} /\ AnyApp \notin Apps
<1>1. Cardinality(Apps) \in Nat
  BY DPRulesAssumption, FS_CardinalityType
<1>2. Apps = 1 .. Cardinality(Apps)
  BY DPRulesAssumption
<1> QED BY <1>1, <1>2 DEF AnyApp

\* The fields of a rule.
LEMMA RuleShape ==
    ASSUME NEW r \in Rules
    PROVE  /\ r.lo \in Nat /\ r.hi \in Nat /\ r.plo \in Nat /\ r.phi \in Nat
           /\ r.apps \in Seq(Apps \cup {0})
           /\ \A i \in DOMAIN r.apps : r.apps[i] \in Apps \cup {0} /\ r.apps[i] \in Nat
           /\ \A i \in DOMAIN r.apps : i \in Nat /\ i # 0
<1>1. r \in [lo : Nat, hi : Nat, plo : Nat, phi : Nat, apps : Seq(Apps \cup {0})]
  BY DPRulesAssumption
<1>2. /\ r.lo \in Nat /\ r.hi \in Nat /\ r.plo \in Nat /\ r.phi \in Nat
      /\ r.apps \in Seq(Apps \cup {0})
  BY <1>1
<1> DEFINE A == Apps \cup {0}
<1>3. A \subseteq Nat
  BY AppNumbers
<1>4. r.apps \in Seq(A)
  BY <1>2
<1> HIDE DEF A
<1>5. \A i \in DOMAIN r.apps : r.apps[i] \in A /\ i \in Nat /\ i # 0
  BY <1>4
<1>6. \A i \in DOMAIN r.apps : r.apps[i] \in Nat
  BY <1>3, <1>5
<1> QED BY <1>2, <1>5, <1>6 DEF A

\* The rule at a position of a sequence of rules.
LEMMA RuleOfSeq ==
    ASSUME NEW rs \in Seq(Rules), NEW n \in DOMAIN rs
    PROVE  rs[n] \in Rules /\ n \in 1 .. Len(rs) /\ n \in Nat
OBVIOUS

\* The minimum of a set of naturals is its least member.
LEMMA MinIsLeast ==
    ASSUME NEW I \in SUBSET Nat, I # {}
    PROVE  Min(I) \in I /\ \A y \in I : Min(I) <= y
<1>1. \E x \in I : \A y \in I : x <= y
  BY LeastNatural
<1> QED BY <1>1 DEF Min

\* The search of the list finds an item in range when there is one.
LEMMA ListSearch ==
    ASSUME NEW s, Len(s) \in Nat, DOMAIN s = 1 .. Len(s), NEW k
    PROVE  LET first == SelectInSeq(s, LAMBDA item : InRange(item, k))
           IN  /\ first # 0 => first \in DOMAIN s /\ InRange(s[first], k)
               /\ first = 0 => \A j \in DOMAIN s : ~InRange(s[j], k)
<1> DEFINE I == {j \in 1 .. Len(s) : InRange(s[j], k)}
<1>1. SelectInSeq(s, LAMBDA item : InRange(item, k)) = IF I # {} THEN Min(I) ELSE 0
  BY DEF SelectInSeq
<1>2. I \in SUBSET Nat /\ 0 \notin I
  OBVIOUS
<1>3. I # {} => Min(I) \in I
  BY <1>2, MinIsLeast
<1> QED BY <1>1, <1>2, <1>3

\* A list item that is in range may answer.
LEMMA ItemEntitles ==
    ASSUME NEW rs \in Seq(Rules), NEW it, ItemOK(rs, it), NEW k, InRange(it, k)
    PROVE  Entitled(rs, k, it.desc)
<1> DEFINE n == it.desc[1]
           i == it.desc[2]
           r == rs[n]
<1>1. /\ it.desc \in Descs /\ n \in DOMAIN rs /\ i \in Nat
      /\ it.lo = r.lo /\ it.hi = r.hi /\ it.plo = r.plo /\ it.phi = r.phi
  BY DEF ItemOK, Items, Descs
<1>2. r \in Rules
  BY <1>1, RuleOfSeq
<1>3. k.ip \in r.lo .. r.hi /\ k.port \in r.plo .. r.phi /\ k.app \in it.alo .. it.ahi
  BY <1>1 DEF InRange
<1>4. \A j \in DOMAIN r.apps : r.apps[j] \in Nat
  BY <1>2, RuleShape
<1>5. \/ i = 0 /\ (k.app = 0 \/ r.apps = << >>)
      \/ i \in DOMAIN r.apps /\ r.apps[i] \in {0, k.app}
  <2>1. CASE i = 0 /\ it.alo = 0 /\ it.ahi = 0
    BY <1>3, <2>1
  <2>2. CASE i = 0 /\ it.alo = 0 /\ it.ahi = AnyApp /\ r.apps = << >>
    BY <2>2
  <2>3. CASE i \in DOMAIN r.apps /\ r.apps[i] = 0
    BY <2>3
  <2>4. CASE i \in DOMAIN r.apps /\ r.apps[i] # 0 /\ it.alo = r.apps[i] /\ it.ahi = r.apps[i]
    BY <1>3, <1>4, <2>4
  <2> QED BY <2>1, <2>2, <2>3, <2>4 DEF ItemOK
<1> QED BY <1>1, <1>3, <1>5 DEF Entitled

\* An entry of the hash map may answer a lookup of its key.
LEMMA KeyEntitles ==
    ASSUME NEW rs \in Seq(Rules), NEW k, NEW d, KeyOK(rs, k, d)
    PROVE  Entitled(rs, k, d)
<1>1. d[1] \in DOMAIN rs
  BY DEF KeyOK
<1>2. rs[d[1]] \in Rules
  BY <1>1, RuleOfSeq
<1>3. rs[d[1]].lo \in Nat /\ rs[d[1]].plo \in Nat
  BY <1>2, RuleShape
<1> QED BY <1>3 DEF KeyOK, Entitled

\* A lookup of one key gives an entitled descriptor, or none when no item is in range.
LEMMA LookupSound ==
    ASSUME NEW rs \in Seq(Rules), NEW tb, TableOK(rs, tb), NEW k, NEW d \in LookupKey(tb, k)
    PROVE  \/ Entitled(rs, k, d)
           \/ d = Default /\ \A j \in DOMAIN tb.list : ~InRange(tb.list[j], k)
<1> DEFINE first == SelectInSeq(tb.list, LAMBDA item : InRange(item, k))
<1>1. Len(tb.list) \in Nat /\ DOMAIN tb.list = 1 .. Len(tb.list)
  BY DEF TableOK
<1>2. /\ first # 0 => first \in DOMAIN tb.list /\ InRange(tb.list[first], k)
      /\ first = 0 => \A j \in DOMAIN tb.list : ~InRange(tb.list[j], k)
  BY <1>1, ListSearch
<1> HIDE DEF first
<1>3. \/ \E e \in tb.exact : e[1] = k /\ e[2] = d
      \/ first # 0 /\ d = tb.list[first].desc
      \/ first = 0 /\ d = Default
  BY DEF LookupKey, first
<1>4. CASE \E e \in tb.exact : e[1] = k /\ e[2] = d
  BY <1>4, KeyEntitles DEF TableOK
<1>5. CASE first # 0 /\ d = tb.list[first].desc
  BY <1>2, <1>5, ItemEntitles DEF TableOK
<1> QED BY <1>2, <1>3, <1>4, <1>5

\* A lookup gives what one of the names finds, and nothing later than what any of
\* the names can find.
LEMMA LookupFinds ==
    ASSUME NEW tb, NEW N, NEW port, NEW app,
           NEW d \in LookupByKey(tb, N, port, app), NEW x \in N
    PROVE  /\ \E y \in N : d \in LookupKey(tb, [ip |-> y, port |-> port, app |-> app])
           /\ \E e \in LookupKey(tb, [ip |-> x, port |-> port, app |-> app]) : d[1] <= e[1]
<1> DEFINE found == [y \in N |-> LookupKey(tb, [ip |-> y, port |-> port, app |-> app])]
<1>1. d \in UNION {found[y] : y \in DOMAIN found}
      /\ \A y \in DOMAIN found : \E e \in found[y] : d[1] <= e[1]
  BY DEF LookupByKey, Merge
<1>2. DOMAIN found = N
      /\ \A y \in N : found[y] = LookupKey(tb, [ip |-> y, port |-> port, app |-> app])
  OBVIOUS
<1> HIDE DEF found
<1> QED BY <1>1, <1>2

\* The peer's own address is among its names, virtual hosts or not, and so are the
\* names of the early lookup that are no virtual hosts.
LEMMA NamesOfPeer ==
    ASSUME NEW v \in Views, NEW ip \in Peers, NEW host
    PROVE  /\ ip \in OwnNames(v, ip, host) /\ ip \in Names(v, ip) /\ ip \notin v.vh
           /\ OwnNames(v, ip, host) \subseteq Names(v, ip)
           /\ Names(v, ip) \ v.vh \subseteq OwnNames(v, ip, host)
<1>1. v.vh \subseteq Codes /\ ip \notin Codes
  BY DPRulesAssumption
<1>2. ip \in Names(v, ip)
  BY DEF Names, Aliases
<1> QED BY <1>1, <1>2 DEF OwnNames

\* A decision of a ready session is the answer of the first lookup when that does not
\* check the application, or else of the second one.
LEMMA ReadySource ==
    ASSUME NEW tb, NEW rs, NEW N, NEW port, NEW app, NEW d \in Ready(tb, rs, N, port, app)
    PROVE  \/ d \in LookupByKey(tb, N, port, 0) /\ ~ChecksApp(rs, d)
           \/ d \in LookupByKey(tb, N, port, app)
BY Zenon DEF Ready

\* Any decision is one of a ready session, or what the early lookup found by a name
\* that is no virtual host.
LEMMA DecisionSource ==
    ASSUME NEW tb, NEW rs, NEW v, NEW ip, NEW host, NEW port, NEW app,
           NEW d \in Decisions(tb, rs, v, ip, host, port, app)
    PROVE  \/ d \in Ready(tb, rs, OwnNames(v, ip, host), port, app)
           \/ d \in LookupByKey(tb, OwnNames(v, ip, host), port, app)
           \/ /\ d \in LookupByKey(tb, Names(v, ip), port, 0) /\ ~ChecksApp(rs, d)
              /\ HitBy(tb, Names(v, ip) \ v.vh, port, 0, d)
BY Zenon DEF Decisions

\* Entitled answers, with the second lookup, are matches.
LEMMA SoundDecides == RulesInv => DecidedByAMatch
<1> SUFFICES ASSUME RulesInv, NEW v \in Views, NEW ip \in Peers, NEW port \in Ports,
                    NEW app \in Apps \cup {AnyApp}, NEW host \in SUBSET (CodesOf(v, ip) \cap v.vh),
                    NEW d \in Decisions(Table, rules, v, ip, host, port, app), d # Default
             PROVE  /\ Concerns(rules[d[1]], OwnNames(v, ip, host), port)
                    /\ IF rules[d[1]].apps = << >> THEN d[2] = 0
                       ELSE d[2] \in AppsFor(rules[d[1]], app)
  BY DEF DecidedByAMatch
<1> DEFINE N == OwnNames(v, ip, host)
<1>1. rules \in Seq(Rules) /\ TableOK(rules, Table)
  BY DEF RulesInv
<1>2. ip \in N /\ Names(v, ip) \ v.vh \subseteq N
  BY NamesOfPeer
<1> HIDE DEF N
<1>3. ASSUME NEW a, NEW y \in N, d \in LookupKey(Table, [ip |-> y, port |-> port, app |-> a])
      PROVE  /\ Concerns(rules[d[1]], N, port)
             /\ \/ d[2] = 0 /\ (a = 0 \/ rules[d[1]].apps = << >>)
                \/ d[2] \in DOMAIN rules[d[1]].apps /\ rules[d[1]].apps[d[2]] \in {0, a}
  <2>1. Entitled(rules, [ip |-> y, port |-> port, app |-> a], d)
    BY <1>1, <1>3, LookupSound
  <2> QED BY <2>1 DEF Entitled, Concerns
<1>4. \A i \in DOMAIN << >> : FALSE
  OBVIOUS
<1>5. ASSUME NEW y \in N, d \in LookupKey(Table, [ip |-> y, port |-> port, app |-> 0]),
             ~ChecksApp(rules, d)
      PROVE  /\ Concerns(rules[d[1]], N, port)
             /\ IF rules[d[1]].apps = << >> THEN d[2] = 0 ELSE d[2] \in AppsFor(rules[d[1]], app)
  BY <1>3, <1>4, <1>5 DEF ChecksApp, AppsFor
<1>6. CASE d \in LookupByKey(Table, N, port, 0) /\ ~ChecksApp(rules, d)
  BY <1>2, <1>5, <1>6, LookupFinds DEF N
<1>7. CASE d \in LookupByKey(Table, N, port, app)
  <2>1. app # 0
    BY AppNumbers
  <2>2. /\ Concerns(rules[d[1]], N, port)
        /\ \/ d[2] = 0 /\ (app = 0 \/ rules[d[1]].apps = << >>)
           \/ d[2] \in DOMAIN rules[d[1]].apps /\ rules[d[1]].apps[d[2]] \in {0, app}
    BY <1>2, <1>3, <1>7, LookupFinds
  <2> QED BY <1>4, <2>1, <2>2 DEF AppsFor, N
<1>8. CASE HitBy(Table, Names(v, ip) \ v.vh, port, 0, d) /\ ~ChecksApp(rules, d)
  BY <1>2, <1>5, <1>8 DEF HitBy, N
<1> QED BY <1>6, <1>7, <1>8, DecisionSource, ReadySource DEF N

\* A covered range leaves no packet in it to the default.
LEMMA CoveredDecides == RulesInv => RangeRuleNeverLost
<1> SUFFICES ASSUME RulesInv, NEW v \in Views, NEW ip \in Peers, NEW port \in Ports,
                    NEW app \in Apps \cup {AnyApp}, NEW host \in SUBSET (CodesOf(v, ip) \cap v.vh),
                    NEW n \in DOMAIN rules, ~Single(rules[n]), rules[n].apps = << >>,
                    Concerns(rules[n], OwnNames(v, ip, host), port),
                    Default \in Decisions(Table, rules, v, ip, host, port, app)
             PROVE  FALSE
  BY DEF RangeRuleNeverLost
<1>1. rules \in Seq(Rules) /\ TableOK(rules, Table) /\ Len(rules) <= MaxRules /\ MaxRules \in Nat
  BY DPRulesAssumption DEF RulesInv
<1>2. PICK x \in OwnNames(v, ip, host) : x \in rules[n].lo .. rules[n].hi
  BY DEF Concerns
<1>3. PICK j \in DOMAIN Table.list : Covers(Table.list[j], rules[n])
  BY DEF RulesInv, RangesCovered
<1>4. ASSUME NEW a \in {0, app}, NEW N, x \in N, Default \in LookupByKey(Table, N, port, a)
      PROVE  FALSE
  <2> DEFINE k == [ip |-> x, port |-> port, app |-> a]
  <2>1. a \in 0 .. AnyApp
    BY AppNumbers, DPRulesAssumption, FS_CardinalityType DEF AnyApp
  <2>2. InRange(Table.list[j], k)
    BY <1>2, <1>3, <2>1 DEF Covers, InRange, Concerns
  <2>3. PICK e \in LookupKey(Table, k) : Default[1] <= e[1]
    BY <1>4, LookupFinds
  <2>4. Entitled(rules, k, e)
    BY <1>1, <2>2, LookupSound
  <2>5. e[1] \in 1 .. Len(rules)
    BY <1>1, <2>4 DEF Entitled
  <2>6. Default[1] = MaxRules + 1
    BY DEF Default
  <2>7. Len(rules) \in Nat
    BY <1>1
  <2> QED BY <1>1, <2>3, <2>5, <2>6, <2>7
<1>5. x \in Names(v, ip)
  BY <1>2, NamesOfPeer
<1> QED BY <1>2, <1>4, <1>5, DecisionSource, ReadySource

\* Items of the list are never removed or moved.
Longer(tb, t) == \A j \in DOMAIN tb.list : j \in DOMAIN t.list /\ t.list[j] = tb.list[j]

\* The items agree on everything but the descriptor.
Alike(x, y) ==
    /\ x.lo = y.lo /\ x.hi = y.hi /\ x.plo = y.plo /\ x.phi = y.phi
    /\ x.alo = y.alo /\ x.ahi = y.ahi

\* A further rule does not disturb the entries of the earlier ones.
LEMMA RulesGrow ==
    ASSUME NEW rs \in Seq(Rules), NEW r \in Rules, NEW tb, TableOK(rs, tb)
    PROVE  TableOK(Append(rs, r), tb)
<1>1. \A n \in DOMAIN rs : n \in DOMAIN Append(rs, r) /\ Append(rs, r)[n] = rs[n]
  OBVIOUS
<1>2. ASSUME NEW k, NEW d, KeyOK(rs, k, d) PROVE KeyOK(Append(rs, r), k, d)
  BY <1>1, <1>2 DEF KeyOK
<1>3. ASSUME NEW it, ItemOK(rs, it) PROVE ItemOK(Append(rs, r), it)
  BY <1>1, <1>3 DEF ItemOK
<1> QED BY <1>2, <1>3 DEF TableOK

\* dpi_rule_add_one adds its entry when the lookup found nothing, or else reports
\* what it found.
LEMMA AddExactCases ==
    ASSUME NEW rs, NEW tb, TableOK(rs, tb), NEW k, NEW d, NEW res \in AddExact(tb, k, d)
    PROVE  \E f \in Found(tb, k) :
              \/ /\ f = Default /\ res.added
                 /\ res.tb = [exact |-> tb.exact \cup {<<k, d>>}, list |-> tb.list]
              \/ f # Default /\ ~res.added /\ res.exist = f /\ res.tb = tb
<1> DEFINE more == [exact |-> tb.exact \cup {<<k, d>>}, list |-> tb.list]
<1>1. tb = [exact |-> tb.exact, list |-> tb.list]
  BY DEF TableOK
<1>2. [tb EXCEPT !.exact = @ \cup {<<k, d>>}] = more
  BY <1>1
<1>3. PICK f \in Found(tb, k) :
             res = IF f = Default THEN [tb |-> more, added |-> TRUE, exist |-> f]
                   ELSE [tb |-> tb, added |-> FALSE, exist |-> f]
  BY <1>2 DEF AddExact
<1> HIDE DEF more
<1>4. \/ f = Default /\ res.added /\ res.tb = more
      \/ f # Default /\ ~res.added /\ res.exist = f /\ res.tb = tb
  BY <1>3
<1> QED BY <1>4 DEF more

\* Either way the entries of the table are entries of rules.
LEMMA AddExactKeeps ==
    ASSUME NEW rs, NEW tb, TableOK(rs, tb), NEW k, NEW d, KeyOK(rs, k, d),
           NEW res \in AddExact(tb, k, d)
    PROVE  TableOK(rs, res.tb) /\ Longer(tb, res.tb)
<1> DEFINE more == [exact |-> tb.exact \cup {<<k, d>>}, list |-> tb.list]
<1>1. res.tb = tb \/ res.tb = more
  BY AddExactCases
<1>2. TableOK(rs, more)
  BY DEF TableOK
<1> QED BY <1>1, <1>2 DEF Longer

\* The comparison of dpi_range_rule_add is about everything but the descriptor.
LEMMA SameRange ==
    ASSUME NEW x \in Items, NEW y \in Items, [x EXCEPT !.desc = y.desc] = y
    PROVE  Alike(x, y)
<1>1. /\ y.lo = [x EXCEPT !.desc = y.desc].lo /\ y.hi = [x EXCEPT !.desc = y.desc].hi
      /\ y.plo = [x EXCEPT !.desc = y.desc].plo /\ y.phi = [x EXCEPT !.desc = y.desc].phi
      /\ y.alo = [x EXCEPT !.desc = y.desc].alo /\ y.ahi = [x EXCEPT !.desc = y.desc].ahi
  OBVIOUS
<1> QED BY <1>1 DEF Alike, Items

\* dpi_range_rule_add appends the item or reports an earlier one like it.
LEMMA AddRangeCases ==
    ASSUME NEW rs, NEW tb, TableOK(rs, tb), NEW item, ItemOK(rs, item),
           NEW res \in AddRange(tb, item)
    PROVE  \/ res.added /\ res.tb = [exact |-> tb.exact, list |-> Append(tb.list, item)]
           \/ /\ ~res.added /\ res.tb = tb
              /\ \E j \in DOMAIN tb.list :
                    Alike(tb.list[j], item) /\ res.exist = tb.list[j].desc
<1> DEFINE I == {j \in 1 .. Len(tb.list) : [tb.list[j] EXCEPT !.desc = item.desc] = item}
           same == SelectInSeq(tb.list, LAMBDA x : [x EXCEPT !.desc = item.desc] = item)
<1>1. tb = [exact |-> tb.exact, list |-> tb.list] /\ tb.list \in Seq(Items) /\ item \in Items
  BY DEF TableOK, ItemOK
<1>2. DOMAIN tb.list = 1 .. Len(tb.list) /\ Len(tb.list) \in Nat
  BY <1>1
<1>3. same = IF I # {} THEN Min(I) ELSE 0
  BY DEF SelectInSeq
<1>4. I \in SUBSET Nat /\ 0 \notin I
  BY <1>2
<1>5. same # 0 => same \in I
  BY <1>3, <1>4, MinIsLeast
<1>6. [tb EXCEPT !.list = Append(@, item)] = [exact |-> tb.exact, list |-> Append(tb.list, item)]
  BY <1>1
<1>7. \/ /\ same = 0
         /\ res = [tb |-> [exact |-> tb.exact, list |-> Append(tb.list, item)],
                   added |-> TRUE, exist |-> Default]
      \/ same # 0 /\ res = [tb |-> tb, added |-> FALSE, exist |-> tb.list[same].desc]
  BY <1>6 DEF AddRange
<1> HIDE DEF same
<1>8. CASE same = 0
  BY <1>7, <1>8
<1>9. CASE same # 0 /\ res = [tb |-> tb, added |-> FALSE, exist |-> tb.list[same].desc]
  <2>1. same \in DOMAIN tb.list /\ [tb.list[same] EXCEPT !.desc = item.desc] = item
    BY <1>2, <1>5, <1>9
  <2>2. tb.list[same] \in Items
    BY <1>1, <2>1
  <2>3. Alike(tb.list[same], item)
    BY <1>1, <2>1, <2>2, SameRange
  <2>4. res.tb = tb /\ ~res.added /\ res.exist = tb.list[same].desc
    BY <1>9
  <2> QED BY <2>1, <2>3, <2>4
<1> QED BY <1>7, <1>8, <1>9

\* Either way the list has an item like the new one.
LEMMA AddRangeKeeps ==
    ASSUME NEW rs, NEW tb, TableOK(rs, tb), NEW item, ItemOK(rs, item),
           NEW res \in AddRange(tb, item)
    PROVE  /\ TableOK(rs, res.tb)
           /\ Longer(tb, res.tb)
           /\ \E j \in DOMAIN res.tb.list : Alike(res.tb.list[j], item)
           /\ ~res.added => /\ res.tb = tb
                            /\ \E j \in DOMAIN tb.list :
                                  Alike(tb.list[j], item) /\ res.exist = tb.list[j].desc
<1> DEFINE more == [exact |-> tb.exact, list |-> Append(tb.list, item)]
<1>1. tb.list \in Seq(Items) /\ item \in Items
  BY DEF TableOK, ItemOK
<1>2. DOMAIN tb.list = 1 .. Len(tb.list) /\ Len(tb.list) \in Nat
  BY <1>1
<1>3. CASE res.added /\ res.tb = more
  <2>1. /\ more.list \in Seq(Items) /\ more.exact = tb.exact
        /\ more = [exact |-> more.exact, list |-> more.list]
        /\ \A j \in DOMAIN tb.list : j \in DOMAIN more.list /\ more.list[j] = tb.list[j]
        /\ Len(tb.list) + 1 \in DOMAIN more.list /\ more.list[Len(tb.list) + 1] = item
        /\ \A j \in DOMAIN more.list : j \in DOMAIN tb.list \/ j = Len(tb.list) + 1
    BY <1>1, <1>2
  <2> HIDE DEF more
  <2>2. TableOK(rs, more)
    BY <2>1 DEF TableOK
  <2> QED BY <1>3, <2>1, <2>2 DEF Longer, Alike
<1>4. CASE /\ ~res.added /\ res.tb = tb
           /\ \E j \in DOMAIN tb.list : Alike(tb.list[j], item) /\ res.exist = tb.list[j].desc
  BY <1>4 DEF Longer
<1> QED BY <1>3, <1>4, AddRangeCases

\* The list items that rule n leads to are items of rule n.
LEMMA ItemOfRule ==
    ASSUME NEW rs \in Seq(Rules), NEW n \in DOMAIN rs, NEW r, r = rs[n],
           NEW i \in Nat, NEW alo, NEW ahi,
           \/ i = 0 /\ alo = 0 /\ (ahi = 0 \/ (ahi = AnyApp /\ r.apps = << >>))
           \/ i \in DOMAIN r.apps /\ r.apps[i] = 0 /\ alo = 0 /\ ahi = AnyApp
           \/ i \in DOMAIN r.apps /\ r.apps[i] # 0 /\ alo = r.apps[i] /\ ahi = r.apps[i]
    PROVE  ItemOK(rs, Item(r, alo, ahi, <<n, i>>))
<1>1. r \in Rules /\ n \in Nat
  BY RuleOfSeq
<1>2. r.lo \in Nat /\ r.hi \in Nat /\ r.plo \in Nat /\ r.phi \in Nat
  BY <1>1, RuleShape
<1>3. alo \in Nat /\ ahi \in Nat
  BY <1>1, RuleShape, AppNumbers
<1> DEFINE it == Item(r, alo, ahi, <<n, i>>)
<1>4. /\ it.lo = r.lo /\ it.hi = r.hi /\ it.plo = r.plo /\ it.phi = r.phi
      /\ it.alo = alo /\ it.ahi = ahi /\ it.desc = <<n, i>>
  BY DEF Item
<1>5. it \in Items
  BY <1>1, <1>2, <1>3 DEF Item, Items, Descs
<1>6. it.desc[1] = n /\ it.desc[2] = i
  BY <1>4
<1> HIDE DEF it
<1> QED BY <1>4, <1>5, <1>6 DEF ItemOK, it

\* The hash entries that rule n leads to are entries of rule n.
LEMMA KeyOfRule ==
    ASSUME NEW rs \in Seq(Rules), NEW n \in DOMAIN rs, NEW r, r = rs[n], Single(r),
           NEW i \in Nat, NEW app,
           \/ i = 0 /\ app = 0
           \/ i \in DOMAIN r.apps /\ app = r.apps[i] /\ app # 0
    PROVE  KeyOK(rs, Key(r, app), <<n, i>>)
<1>1. n \in Nat
  BY RuleOfSeq
<1>2. Key(r, app).ip = r.lo /\ Key(r, app).port = r.plo /\ Key(r, app).app = app
  BY DEF Key
<1>3. <<n, i>> \in Descs /\ <<n, i>>[1] = n /\ <<n, i>>[2] = i
  BY <1>1 DEF Descs
<1> QED BY <1>2, <1>3 DEF KeyOK, Single

\* dpi_add_app_rule adds only entries of the rule; for application 0 the rule's
\* range is covered afterwards.
LEMMA AddAppKeeps ==
    ASSUME NEW rs \in Seq(Rules), NEW n \in DOMAIN rs, NEW r, r = rs[n],
           NEW tb, TableOK(rs, tb), NEW i \in Nat, NEW app,
           \/ i = 0 /\ app = 0 /\ r.apps = << >>
           \/ i \in DOMAIN r.apps /\ app = r.apps[i],
           NEW res \in AddApp(tb, r, app, <<n, i>>)
    PROVE  /\ TableOK(rs, res.tb)
           /\ Longer(tb, res.tb)
           /\ app = 0 => \E j \in DOMAIN res.tb.list : Covers(res.tb.list[j], r)
<1>1. CASE app = 0
  <2> DEFINE it == Item(r, 0, AnyApp, <<n, i>>)
  <2>1. ItemOK(rs, it)
    BY <1>1, ItemOfRule
  <2>2. res \in AddRange(tb, it)
    BY <1>1 DEF AddApp
  <2>3. /\ TableOK(rs, res.tb) /\ Longer(tb, res.tb)
        /\ \E j \in DOMAIN res.tb.list : Alike(res.tb.list[j], it)
    BY <2>1, <2>2, AddRangeKeeps
  <2>4. /\ it.lo = r.lo /\ it.hi = r.hi /\ it.plo = r.plo /\ it.phi = r.phi
        /\ it.alo = 0 /\ it.ahi = AnyApp
    BY DEF Item
  <2> HIDE DEF it
  <2> QED BY <2>3, <2>4 DEF Alike, Covers
<1>2. CASE app # 0 /\ Single(r)
  <2>1. KeyOK(rs, Key(r, app), <<n, i>>)
    BY <1>2, KeyOfRule
  <2>2. res \in AddExact(tb, Key(r, app), <<n, i>>)
    BY <1>2 DEF AddApp
  <2> QED BY <1>2, <2>1, <2>2, AddExactKeeps
<1>3. CASE app # 0 /\ ~Single(r)
  <2>1. ItemOK(rs, Item(r, app, app, <<n, i>>))
    BY <1>3, ItemOfRule
  <2>2. res \in AddRange(tb, Item(r, app, app, <<n, i>>))
    BY <1>3 DEF AddApp
  <2>3. TableOK(rs, res.tb) /\ Longer(tb, res.tb)
    BY <2>1, <2>2, AddRangeKeeps
  <2> QED BY <1>3, <2>3
<1> QED BY <1>1, <1>2, <1>3

\* One growth of the list after the other is a growth of the list.
LEMMA LongerTrans ==
    ASSUME NEW t1, NEW t2, NEW t3, Longer(t1, t2), Longer(t2, t3)
    PROVE  Longer(t1, t3)
BY DEF Longer

\* The loop of dpi_rule_add over the applications of a rule, unrolled: s[i] are the
\* tables it can have built after i of them.
AppsRun(s, tb, r, n) ==
    /\ AddApps(tb, r, n) = s[Len(r.apps)]
    /\ s[0] = {tb}
    /\ \A i \in 1 .. Len(r.apps) : \A x \in s[i] :
          \E u \in s[i - 1] : \E y \in AddApp(u, r, r.apps[i], <<n, i>>) : x = y.tb

\* The loop can be unrolled, whatever the number of applications.
LEMMA AppsInTurn ==
    ASSUME NEW tb, NEW r, NEW n, Len(r.apps) \in Nat
    PROVE  \E s : AppsRun(s, tb, r, n)
<1> DEFINE N == Len(r.apps)
           Step(i, S) == UNION {{x.tb : x \in AddApp(u, r, r.apps[i], <<n, i>>)} : u \in S}
           F(g, m) == [i \in 0 .. m |-> IF i = 0 THEN {tb} ELSE Step(i, g[i - 1])]
           s == CHOOSE g : g = F(g, N)
<1>1. AddApps(tb, r, n) = s[N]
  BY DEF AddApps
<1>2. ASSUME NEW i \in 1 .. N, NEW S, NEW x \in Step(i, S)
      PROVE  \E u \in S : \E y \in AddApp(u, r, r.apps[i], <<n, i>>) : x = y.tb
  OBVIOUS
<1> HIDE DEF Step
<1>3. \A m \in Nat : \E g : g = F(g, m)
  <2> DEFINE D == {m \in Nat : ~\E g : g = F(g, m)}
  <2> SUFFICES ASSUME D # {} PROVE FALSE
    OBVIOUS
  <2>1. PICK m \in D : \A j \in D : m <= j
    BY LeastNatural
  <2>2. m # 0
    <3> SUFFICES ASSUME m = 0 PROVE \E g : g = F(g, m)
      BY <2>1
    <3>1. [i \in 0 .. 0 |-> {tb}] = F([i \in 0 .. 0 |-> {tb}], 0)
      OBVIOUS
    <3> QED BY <3>1
  <2>3. m \in Nat /\ m - 1 \in Nat /\ ~(m <= m - 1)
    BY <2>1, <2>2
  <2>4. PICK g : g = F(g, m - 1)
    BY <2>1, <2>3
  <2> DEFINE h == [i \in 0 .. m |-> IF i = m THEN Step(m, g[m - 1]) ELSE g[i]]
  <2>5. ASSUME NEW i \in 0 .. m
        PROVE  h[i] = IF i = 0 THEN {tb} ELSE Step(i, h[i - 1])
    <3>1. CASE i = m
      <4>1. h[i - 1] = g[i - 1]
        BY <2>2, <2>3, <3>1
      <4> QED BY <2>2, <3>1, <4>1
    <3>2. CASE i # m
      <4>1. i \in 0 .. (m - 1)
        BY <2>3, <3>2
      <4>2. g[i] = IF i = 0 THEN {tb} ELSE Step(i, g[i - 1])
        BY <2>4, <4>1
      <4>3. i # 0 => h[i - 1] = g[i - 1]
        BY <2>3, <4>1
      <4> QED BY <3>2, <4>2, <4>3
    <3> QED BY <3>1, <3>2
  <2>6. h = F(h, m)
    <3>1. h = [i \in 0 .. m |-> h[i]]
      OBVIOUS
    <3> HIDE DEF h
    <3> QED BY <2>5, <3>1
  <2> QED BY <2>1, <2>6
<1>4. s = F(s, N)
  BY <1>3
<1> HIDE DEF s
<1>5. \A i \in 0 .. N : s[i] = IF i = 0 THEN {tb} ELSE Step(i, s[i - 1])
  BY <1>4
<1> HIDE DEF F
<1>6. s[0] = {tb}
  BY <1>5
<1>7. ASSUME NEW i \in 1 .. N, NEW x \in s[i]
      PROVE  \E u \in s[i - 1] : \E y \in AddApp(u, r, r.apps[i], <<n, i>>) : x = y.tb
  <2>1. s[i] = Step(i, s[i - 1])
    BY <1>5
  <2> QED BY <1>2, <1>7, <2>1
<1>8. AppsRun(s, tb, r, n)
  BY <1>1, <1>6, <1>7 DEF AppsRun
<1> QED BY <1>8

\* No table of the loop is the first one with a bad entry.
LEMMA AddAppsKeeps ==
    ASSUME NEW rs \in Seq(Rules), NEW n \in DOMAIN rs, NEW r, r = rs[n],
           NEW tb, TableOK(rs, tb), NEW t \in AddApps(tb, r, n)
    PROVE  TableOK(rs, t) /\ Longer(tb, t)
<1> DEFINE N == Len(r.apps)
<1>1. r.apps \in Seq(Apps \cup {0})
  BY RuleOfSeq, RuleShape
<1>2. N \in Nat /\ DOMAIN r.apps = 1 .. N
  BY <1>1
<1>3. PICK s : AppsRun(s, tb, r, n)
  BY <1>2, AppsInTurn
<1> DEFINE B == {i \in 0 .. N : \E x \in s[i] : ~(TableOK(rs, x) /\ Longer(tb, x))}
<1>4. B = {}
  <2> SUFFICES ASSUME B # {} PROVE FALSE
    OBVIOUS
  <2>1. B \in SUBSET Nat
    BY <1>2
  <2>2. PICK i \in B : \A j \in B : i <= j
    BY <2>1, LeastNatural
  <2>3. PICK x \in s[i] : ~(TableOK(rs, x) /\ Longer(tb, x))
    BY <2>2
  <2>4. i # 0
    <3>1. Longer(tb, tb)
      BY DEF Longer
    <3> QED BY <1>3, <2>3, <3>1 DEF AppsRun
  <2>5. i \in 1 .. N /\ i - 1 \in 0 .. N /\ ~(i <= i - 1)
    BY <1>2, <2>2, <2>4
  <2>6. \A u \in s[i - 1] : TableOK(rs, u) /\ Longer(tb, u)
    BY <2>2, <2>5
  <2>7. PICK u \in s[i - 1] : \E y \in AddApp(u, r, r.apps[i], <<n, i>>) : x = y.tb
    BY <1>3, <2>3, <2>5 DEF AppsRun
  <2>8. TableOK(rs, x) /\ Longer(u, x)
    BY <1>2, <2>5, <2>6, <2>7, AddAppKeeps
  <2> QED BY <2>3, <2>6, <2>7, <2>8, LongerTrans
<1> QED BY <1>2, <1>3, <1>4 DEF AppsRun

\* What dpi_rule_add does after the rule itself: nothing, when an earlier entry
\* decides the key, or it covers a rule for any application.
LEMMA AfterFirstKeeps ==
    ASSUME NEW rs \in Seq(Rules), NEW n \in DOMAIN rs, NEW r, r = rs[n],
           NEW res, TableOK(rs, res.tb), NEW t \in AfterFirst(res, r, n)
    PROVE  /\ TableOK(rs, t)
           /\ Longer(res.tb, t)
           /\ \/ ~res.added /\ ~ChecksApp(rules, res.exist) /\ t = res.tb
              \/ r.apps = << >> => \E j \in DOMAIN t.list : Covers(t.list[j], r)
<1>1. CASE ~res.added /\ ~ChecksApp(rules, res.exist)
  <2>1. t = res.tb
    BY <1>1 DEF AfterFirst
  <2> QED BY <1>1, <2>1 DEF Longer
<1>2. CASE ~(~res.added /\ ~ChecksApp(rules, res.exist)) /\ r.apps = << >>
  <2>1. PICK x \in AddApp(res.tb, r, 0, <<n, 0>>) : t = x.tb
    BY <1>2 DEF AfterFirst
  <2>2. /\ TableOK(rs, x.tb) /\ Longer(res.tb, x.tb)
        /\ \E j \in DOMAIN x.tb.list : Covers(x.tb.list[j], r)
    BY <1>2, <2>1, AddAppKeeps
  <2> QED BY <2>1, <2>2
<1>3. CASE ~(~res.added /\ ~ChecksApp(rules, res.exist)) /\ r.apps # << >>
  <2>1. t \in AddApps(res.tb, r, n)
    BY <1>3 DEF AfterFirst
  <2>2. TableOK(rs, t) /\ Longer(res.tb, t)
    BY <2>1, AddAppsKeeps
  <2> QED BY <1>3, <2>2
<1> QED BY <1>1, <1>2, <1>3

\* A range that was covered stays covered.
LEMMA LongerCovers ==
    ASSUME NEW r, NEW tb, NEW t, Longer(tb, t),
           \E j \in DOMAIN tb.list : Covers(tb.list[j], r)
    PROVE  \E j \in DOMAIN t.list : Covers(t.list[j], r)
BY DEF Longer

\* dpi_rule_add keeps the invariant.  When the range of the new rule is there under
\* application 0 and needs no check of the application, the rule that added it is
\* for any application, has the same range and is therefore covered already.
LEMMA AddRuleKeeps ==
    ASSUME RulesInv, NEW r \in Rules, NEW ahi \in {0, AnyApp}, AddRule(r, ahi)
    PROVE  RulesInv'
<1> DEFINE n == Len(rules) + 1
           rs == Append(rules, r)
           it == Item(r, 0, ahi, <<n, 0>>)
           first == IF Single(r) THEN AddExact(Table, Key(r, 0), <<n, 0>>)
                    ELSE AddRange(Table, it)
<1>1. /\ rules \in Seq(Rules) /\ Len(rules) \in Nat /\ Len(rules) < MaxRules /\ MaxRules \in Nat
      /\ rules' = rs /\ (ahi = 0 \/ r.apps = << >>)
  BY DPRulesAssumption DEF RulesInv, AddRule
<1>2. /\ rs \in Seq(Rules) /\ Len(rs) = n /\ Len(rs) <= MaxRules
      /\ n \in DOMAIN rs /\ rs[n] = r
      /\ \A m \in DOMAIN rs : m = n \/ (m \in DOMAIN rules /\ rs[m] = rules[m])
  BY <1>1
<1>3. PICK res \in first : \E t \in AfterFirst(res, r, n) : exact' = t.exact /\ list' = t.list
  BY DEF AddRule, Table
<1>4. PICK t \in AfterFirst(res, r, n) : exact' = t.exact /\ list' = t.list
  BY <1>3
<1> HIDE DEF n, rs
<1>5. TableOK(rs, Table)
  BY <1>1, RulesGrow DEF RulesInv, rs
<1>6. ItemOK(rs, it)
  BY <1>1, <1>2, ItemOfRule
<1>7. /\ it.lo = r.lo /\ it.hi = r.hi /\ it.plo = r.plo /\ it.phi = r.phi
      /\ it.alo = 0 /\ it.ahi = ahi
  BY DEF Item
<1> HIDE DEF it
<1>8. /\ TableOK(rs, res.tb) /\ Longer(Table, res.tb)
      /\ ~Single(r) /\ ~res.added =>
            /\ res.tb = Table
            /\ \E j \in DOMAIN list : Alike(list[j], it) /\ res.exist = list[j].desc
  <2>1. CASE Single(r)
    <3>1. KeyOK(rs, Key(r, 0), <<n, 0>>)
      BY <1>2, <2>1, KeyOfRule
    <3>2. res \in AddExact(Table, Key(r, 0), <<n, 0>>)
      BY <1>3, <2>1
    <3> QED BY <1>5, <2>1, <3>1, <3>2, AddExactKeeps
  <2>2. CASE ~Single(r)
    <3>1. res \in AddRange(Table, it)
      BY <1>3, <2>2
    <3>2. Table.list = list
      BY DEF Table
    <3> QED BY <1>5, <1>6, <3>1, <3>2, AddRangeKeeps
  <2> QED BY <2>1, <2>2
<1>9. /\ TableOK(rs, t) /\ Longer(res.tb, t)
      /\ \/ ~res.added /\ ~ChecksApp(rules, res.exist) /\ t = res.tb
         \/ r.apps = << >> => \E j \in DOMAIN t.list : Covers(t.list[j], r)
  BY <1>2, <1>4, <1>8, AfterFirstKeeps
<1>10. Longer(Table, t)
  BY <1>8, <1>9, LongerTrans
<1>11. Table' = t
  <2>1. t = [exact |-> t.exact, list |-> t.list]
    BY <1>9 DEF TableOK
  <2> QED BY <1>4, <2>1 DEF Table
<1>12. ASSUME ~Single(r), r.apps = << >>
       PROVE  \E j \in DOMAIN t.list : Covers(t.list[j], r)
  <2> SUFFICES ASSUME ~res.added, ~ChecksApp(rules, res.exist), t = res.tb
               PROVE  \E j \in DOMAIN t.list : Covers(t.list[j], r)
    BY <1>9, <1>12
  <2>1. PICK j \in DOMAIN list : Alike(list[j], it) /\ res.exist = list[j].desc
    BY <1>8, <1>12
  <2>2. t = Table /\ t.list = list
    BY <1>8, <1>12 DEF Table
  <2>3. CASE ahi = AnyApp
    BY <1>7, <2>1, <2>2, <2>3 DEF Alike, Covers
  <2>4. CASE ahi = 0
    <3> DEFINE x == list[j]
               m == x.desc[1]
    <3>1. ItemOK(rules, x)
      BY <2>1 DEF RulesInv, TableOK, Table
    <3>2. /\ x.lo = r.lo /\ x.hi = r.hi /\ x.plo = r.plo /\ x.phi = r.phi
          /\ x.alo = 0 /\ x.ahi = 0
      BY <1>7, <2>1, <2>4 DEF Alike
    <3>3. /\ m \in DOMAIN rules /\ m \in Nat /\ x.desc \in Descs
          /\ rules[m].lo = r.lo /\ rules[m].hi = r.hi
          /\ rules[m].plo = r.plo /\ rules[m].phi = r.phi
      BY <1>1, <3>1, <3>2, RuleOfSeq DEF ItemOK, Items
    <3>4. x.desc[2] = 0
      BY <3>1, <3>2, AppNumbers DEF ItemOK
    <3>5. x.desc # Default
      <4>1. m <= MaxRules
        BY <1>1, <3>3, RuleOfSeq
      <4>2. Default[1] = MaxRules + 1
        BY DEF Default
      <4> QED BY <1>1, <3>3, <4>1, <4>2
    <3>6. rules[m].apps = << >>
      BY <2>1, <3>4, <3>5 DEF ChecksApp
    <3>7. ~Single(rules[m])
      BY <1>12, <3>3 DEF Single
    <3>8. PICK i \in DOMAIN list : Covers(list[i], rules[m])
      BY <3>3, <3>6, <3>7 DEF RulesInv, RangesCovered, Table
    <3>9. Covers(list[i], r)
      BY <3>3, <3>8 DEF Covers
    <3> QED BY <2>2, <3>8, <3>9
  <2> QED BY <2>3, <2>4
<1>13. RangesCovered(rs, t)
  <2> SUFFICES ASSUME NEW m \in DOMAIN rs, ~Single(rs[m]), rs[m].apps = << >>
               PROVE  \E j \in DOMAIN t.list : Covers(t.list[j], rs[m])
    BY DEF RangesCovered
  <2>1. CASE m = n
    BY <1>2, <1>12, <2>1
  <2>2. CASE m # n
    <3>1. m \in DOMAIN rules /\ rs[m] = rules[m]
      BY <1>2, <2>2
    <3>2. \E j \in DOMAIN Table.list : Covers(Table.list[j], rules[m])
      BY <3>1 DEF RulesInv, RangesCovered
    <3> QED BY <1>10, <3>1, <3>2, LongerCovers
  <2> QED BY <2>1, <2>2
<1>14. TableOK(rules, Table)' /\ RangesCovered(rules, Table)'
  BY <1>1, <1>9, <1>11, <1>13 DEF TableOK, RangesCovered, KeyOK, ItemOK
<1> QED BY <1>1, <1>2, <1>14 DEF RulesInv

\* What RulesInv says of the entries dpi_rule_add leaves in the table holds for any
\* rules and configurations.
THEOREM RulesInvariant == RSpec => []RulesInv
<1>1. RInit => RulesInv
  <2> SUFFICES ASSUME RInit PROVE RulesInv
    OBVIOUS
  <2>1. /\ rules = << >> /\ Table = [exact |-> {}, list |-> << >>]
        /\ Table.exact = {} /\ Table.list = << >> /\ MaxRules \in Nat
    BY DPRulesAssumption DEF RInit, Table
  <2>2. \A j \in DOMAIN << >> : FALSE
    OBVIOUS
  <2>3. << >> \in Seq(Items) /\ << >> \in Seq(Rules) /\ Len(<< >>) = 0
    OBVIOUS
  <2> QED BY <2>1, <2>2, <2>3 DEF RulesInv, TableOK, RangesCovered
<1>2. RulesInv /\ [RNext]_rvars => RulesInv'
  <2> SUFFICES ASSUME RulesInv, [RNext]_rvars PROVE RulesInv'
    OBVIOUS
  <2>1. ASSUME NEW r \in Rules, NEW ahi \in {0, AnyApp}, AddRule(r, ahi) PROVE RulesInv'
    BY <2>1, AddRuleKeeps
  <2>2. CASE UNCHANGED <<rules, exact, list>>
    <3>1. Table' = Table /\ rules' = rules
      BY <2>2 DEF Table
    <3> QED BY <3>1 DEF RulesInv, TableOK, RangesCovered, KeyOK, ItemOK
  <2> QED BY <2>1, <2>2 DEF RNext, rvars, CopyConfig
<1> QED BY <1>1, <1>2, PTL DEF RSpec

\* However many rules and applications a policy has and whatever configuration
\* dpi_rule_add saw, dpi_policy_lookup_by_key and dpi_policy_reeval decide a packet
\* only by a rule that matches it.
THEOREM OnlyMatchesDecide == RSpec => []DecidedByAMatch
BY RulesInvariant, SoundDecides, PTL

\* The skipping of keys that seem to be decided already, in dpi_rule_add, never
\* loses a range rule for any application.
THEOREM RangeRulesStay == RSpec => []RangeRuleNeverLost
BY RulesInvariant, CoveredDecides, PTL

-----------------------------------------------------------------------------
(* The table keeps the order of the rules *)

\* The order of descriptors: of their rules, then of the applications in one rule.
Before(d, e) == d[1] < e[1] \/ (d[1] = e[1] /\ d[2] <= e[2])

\* The views vs, under which rules were added, use the table for x and for what else
\* v calls it, agree that it is external (ext) or that it is not, and know no other
\* record of it.
GoodName(v, x, ext, vs) ==
    \A s \in vs :
        /\ CodesOf(s, x) \subseteq CodesOf(v, x)
        /\ \A y \in Aliases(v, x, ext) : TableUsed(s, y, FALSE) /\ (Internal(s, y) <=> ~ext)

\* The name is good, and no rule for it alone is kept out by one for a virtual host.
Clear(rs, v, x, ext, vs) == GoodName(v, x, ext, vs) /\ Unblocked(rs, v, x)

\* The names of x that stand whatever the virtual host of the session.
PlainNames(v, x, ext) == Aliases(v, x, ext) \ (v.vh \ {x})

\* With each name the set has the names that stand with it.
Closed(v, ip, ext, N) ==
    /\ ip \in N /\ N \subseteq Aliases(v, ip, ext)
    /\ \A x \in N : PlainNames(v, x, ext) \subseteq N

\* What the table has for a key, in the hash map and in the list.
Entries(tb, k) ==
    {u[2] : u \in {w \in tb.exact : w[1] = k}}
        \cup {tb.list[j].desc : j \in {i \in DOMAIN tb.list : InRange(tb.list[i], k)}}

\* One of the names that stand for x has an entry that is not after d.
Answered(tb, v, x, ext, port, a, d) ==
    \E y \in PlainNames(v, x, ext) :
        \E f \in Entries(tb, [ip |-> y, port |-> port, app |-> a]) : Before(f, d)

\* The entry d is what one of the names that stand for x finds.
FoundAt(tb, v, x, ext, port, a, d) ==
    \E y \in PlainNames(v, x, ext) : d \in Entries(tb, [ip |-> y, port |-> port, app |-> a])

\* The list is in the order of the rules.  For a name that every view treated alike
\* the hash map has one entry per key, and none that an earlier item of the list
\* should have preceded.
Ordered(tb, vs) ==
    /\ \A i, j \in DOMAIN tb.list : i <= j => Before(tb.list[i].desc, tb.list[j].desc)
    /\ \A v \in Views, ext \in BOOLEAN : \A u \in tb.exact :
          GoodName(v, u[1].ip, ext, vs) =>
              /\ \A w \in tb.exact : w[1] = u[1] => w[2] = u[2]
              /\ \A j \in DOMAIN tb.list :
                    InRange(tb.list[j], u[1]) => Before(u[2], tb.list[j].desc)

\* Where a rule may answer for such a name, the rule or an earlier one does.
Complete(rs, tb, vs) ==
    \A v \in Views, ext \in BOOLEAN, x \in Addresses, port \in Ports, a \in 0 .. AnyApp :
        Clear(rs, v, x, ext, vs) =>
            \A n \in DOMAIN rs : \A i \in 0 .. Len(rs[n].apps) :
                Entitled(rs, [ip |-> x, port |-> port, app |-> a], <<n, i>>)
                    => Answered(tb, v, x, ext, port, a, <<n, i>>)

\* The inductive invariant of the table's order.
OrderInv == Ordered(Table, seen) /\ Complete(rules, Table, seen)

\* Before is a partial order.
LEMMA BeforeFacts ==
    ASSUME NEW d \in Descs, NEW e \in Descs, NEW f \in Descs
    PROVE  /\ Before(d, d)
           /\ Before(d, e) /\ Before(e, f) => Before(d, f)
           /\ Before(d, e) /\ Before(e, d) => d = e
<1>1. /\ d[1] \in Nat /\ d[2] \in Nat /\ e[1] \in Nat /\ e[2] \in Nat
      /\ f[1] \in Nat /\ f[2] \in Nat
  BY DEF Descs
<1>2. d[1] = e[1] /\ d[2] = e[2] => d = e
  BY DEF Descs
<1> QED BY <1>1, <1>2 DEF Before

\* A name of a name of the peer is a name of the peer, and is treated as it is.
LEMMA AliasesNest ==
    ASSUME NEW v \in Views, NEW ip \in Addresses, NEW ext \in BOOLEAN,
           NEW x \in Aliases(v, ip, ext)
    PROVE  /\ x \in Addresses
           /\ x \in PlainNames(v, x, ext)
           /\ Aliases(v, x, ext) \subseteq Aliases(v, ip, ext)
           /\ \A vs : GoodName(v, ip, ext, vs) => GoodName(v, x, ext, vs)
           /\ \A rs, vs : Clear(rs, v, ip, ext, vs) => Clear(rs, v, x, ext, vs)
<1>1. ip \in Peers => CodesOf(v, ip) \subseteq Codes
  BY DPRulesAssumption DEF CodesOf
<1>2. ip \notin Peers => CodesOf(v, ip) = {}
  BY DEF CodesOf
<1>3. x = ip \/ x \in Codes \/ (ext /\ x = External)
  BY <1>1, <1>2 DEF Aliases
<1>4. x \in Codes \/ x = External => \A s : CodesOf(s, x) = {}
  BY DPRulesAssumption DEF CodesOf
<1>5. x \in Addresses
  BY <1>3 DEF Addresses
<1>6. Aliases(v, x, ext) \subseteq Aliases(v, ip, ext)
  BY <1>3, <1>4 DEF Aliases
<1>7. x \in PlainNames(v, x, ext)
  BY DEF Aliases, PlainNames
<1>8. \A vs : GoodName(v, ip, ext, vs) => GoodName(v, x, ext, vs)
  BY <1>3, <1>4, <1>6 DEF GoodName
<1>9. \A rs : Unblocked(rs, v, ip) => Unblocked(rs, v, x)
  <2>1. CASE x = ip
    BY <2>1
  <2>2. CASE CodesOf(v, x) = {}
    BY <2>2 DEF Unblocked, Concerns
  <2> QED BY <1>3, <1>4, <2>1, <2>2
<1> QED BY <1>5, <1>6, <1>7, <1>8, <1>9 DEF Clear

\* A name that stands for x brings no name that does not.
LEMMA PlainNest ==
    ASSUME NEW v \in Views, NEW x \in Addresses, NEW ext \in BOOLEAN,
           NEW y \in PlainNames(v, x, ext)
    PROVE  PlainNames(v, y, ext) \subseteq PlainNames(v, x, ext)
<1>1. y \in Aliases(v, x, ext) /\ (y = x \/ y \notin v.vh)
  BY DEF PlainNames
<1>2. Aliases(v, y, ext) \subseteq Aliases(v, x, ext)
  BY <1>1, AliasesNest
<1> QED BY <1>1, <1>2 DEF PlainNames

\* The names of the early lookup, and those of a ready session, are closed.
LEMMA NamesClosed ==
    ASSUME NEW v \in Views, NEW ip \in Peers, NEW host, NEW ext \in BOOLEAN,
           ext = ~Internal(v, ip)
    PROVE  /\ Closed(v, ip, ext, Names(v, ip))
           /\ Closed(v, ip, ext, OwnNames(v, ip, host))
<1>1. Names(v, ip) = Aliases(v, ip, ext) /\ ip \in Addresses
  BY DEF Names, Addresses
<1>2. \A x \in Names(v, ip) : Aliases(v, x, ext) \subseteq Names(v, ip)
  <2>1. \A x \in Aliases(v, ip, ext) : Aliases(v, x, ext) \subseteq Aliases(v, ip, ext)
    BY <1>1, AliasesNest, Zenon
  <2> QED BY <1>1, <2>1
<1>3. ip \in OwnNames(v, ip, host) /\ ip \in Names(v, ip)
  BY NamesOfPeer
<1>4. Closed(v, ip, ext, Names(v, ip))
  BY <1>1, <1>2, <1>3 DEF Closed, PlainNames
<1> QED BY <1>1, <1>2, <1>3, <1>4 DEF Closed, PlainNames, OwnNames

\* Entries of a key may answer it.
LEMMA EntryKinds ==
    ASSUME NEW rs \in Seq(Rules), NEW tb, TableOK(rs, tb), NEW k, NEW f \in Entries(tb, k)
    PROVE  /\ Entitled(rs, k, f) /\ f \in Descs
           /\ \/ \E u \in tb.exact : u[1] = k /\ u[2] = f
              \/ \E j \in DOMAIN tb.list : InRange(tb.list[j], k) /\ tb.list[j].desc = f
<1>1. \/ \E u \in tb.exact : u[1] = k /\ u[2] = f
      \/ \E j \in DOMAIN tb.list : InRange(tb.list[j], k) /\ tb.list[j].desc = f
  BY DEF Entries
<1>2. Entitled(rs, k, f)
  BY <1>1, KeyEntitles, ItemEntitles DEF TableOK
<1> QED BY <1>1, <1>2 DEF Entitled

\* In an ordered table the lookup of a key finds the earliest of its entries,
\* although it asks the hash map first.
LEMMA KeyAnswer ==
    ASSUME NEW rs \in Seq(Rules), NEW tb, TableOK(rs, tb), NEW vs, Ordered(tb, vs),
           NEW k, NEW v \in Views, NEW ext \in BOOLEAN, GoodName(v, k.ip, ext, vs),
           NEW best \in Entries(tb, k), \A f \in Entries(tb, k) : Before(best, f)
    PROVE  LookupKey(tb, k) = {best}
<1> DEFINE hits == {e[2] : e \in {x \in tb.exact : x[1] = k}}
           first == SelectInSeq(tb.list, LAMBDA item : InRange(item, k))
           I == {j \in 1 .. Len(tb.list) : InRange(tb.list[j], k)}
<1>1. tb.list \in Seq(Items) /\ Len(tb.list) \in Nat /\ DOMAIN tb.list = 1 .. Len(tb.list)
  BY DEF TableOK
<1>2. best \in Descs /\ \A f \in Entries(tb, k) : f \in Descs
  BY EntryKinds
<1>3. LookupKey(tb, k) = IF hits # {} THEN hits
                         ELSE IF first # 0 THEN {tb.list[first].desc} ELSE {Default}
  BY DEF LookupKey
<1>4. first = IF I # {} THEN Min(I) ELSE 0
  BY DEF SelectInSeq
<1>5. hits \subseteq Entries(tb, k) /\ \A j \in I : tb.list[j].desc \in Entries(tb, k)
  BY <1>1 DEF Entries
<1> HIDE DEF first
<1>6. CASE hits # {}
  <2>1. PICK u \in tb.exact : u[1] = k
    BY <1>6
  <2>2. \A w \in tb.exact : w[1] = k => w[2] = u[2]
    BY <2>1 DEF Ordered
  <2>3. hits = {u[2]}
    BY <2>1, <2>2
  <2>4. u[2] \in Entries(tb, k)
    BY <1>5, <2>3
  <2>5. u[2] = best
    <3>1. Before(best, u[2])
      BY <2>4
    <3>2. CASE \E w \in tb.exact : w[1] = k /\ w[2] = best
      BY <2>2, <3>2
    <3>3. CASE \E j \in DOMAIN tb.list : InRange(tb.list[j], k) /\ tb.list[j].desc = best
      <4>1. Before(u[2], best)
        BY <2>1, <3>3 DEF Ordered
      <4> QED BY <1>2, <2>4, <3>1, <4>1, BeforeFacts
    <3> QED BY <3>2, <3>3, EntryKinds
  <2> QED BY <1>3, <1>6, <2>3, <2>5
<1>7. CASE hits = {}
  <2>1. PICK j \in I : tb.list[j].desc = best
    <3>1. ~ \E u \in tb.exact : u[1] = k /\ u[2] = best
      BY <1>7
    <3> QED BY <1>1, <3>1, EntryKinds
  <2>2. I \in SUBSET Nat /\ I # {} /\ 0 \notin I
    BY <1>1, <2>1
  <2>3. first \in I /\ first <= j
    <3>1. Min(I) \in I /\ \A y \in I : Min(I) <= y
      BY <2>2, MinIsLeast
    <3> QED BY <1>4, <2>1, <2>2, <3>1
  <2>4. first # 0
    BY <2>2, <2>3
  <2>5. Before(tb.list[first].desc, best)
    BY <1>1, <2>1, <2>3 DEF Ordered
  <2>6. tb.list[first].desc \in Entries(tb, k)
    BY <1>5, <2>3
  <2>7. tb.list[first].desc = best
    BY <1>2, <2>5, <2>6, BeforeFacts
  <2> QED BY <1>3, <1>7, <2>4, <2>7
<1> QED BY <1>6, <1>7

\* A lookup finds entries of the key, or nothing when there are none.
LEMMA NoEntryNoAnswer ==
    ASSUME NEW rs \in Seq(Rules), NEW tb, TableOK(rs, tb), NEW k
    PROVE  /\ LookupKey(tb, k) # {}
           /\ Entries(tb, k) = {} => LookupKey(tb, k) = {Default}
           /\ Entries(tb, k) # {} => LookupKey(tb, k) \subseteq Entries(tb, k)
<1> DEFINE hits == {e[2] : e \in {x \in tb.exact : x[1] = k}}
           first == SelectInSeq(tb.list, LAMBDA item : InRange(item, k))
<1>1. Len(tb.list) \in Nat /\ DOMAIN tb.list = 1 .. Len(tb.list)
  BY DEF TableOK
<1>2. /\ first # 0 => first \in DOMAIN tb.list /\ InRange(tb.list[first], k)
      /\ first = 0 => \A j \in DOMAIN tb.list : ~InRange(tb.list[j], k)
  BY <1>1, ListSearch
<1>3. LookupKey(tb, k) = IF hits # {} THEN hits
                         ELSE IF first # 0 THEN {tb.list[first].desc} ELSE {Default}
  BY DEF LookupKey
<1> HIDE DEF first
<1>4. hits \subseteq Entries(tb, k)
  BY DEF Entries
<1>5. first # 0 => tb.list[first].desc \in Entries(tb, k)
  BY <1>2 DEF Entries
<1>6. hits = {} /\ first = 0 => Entries(tb, k) = {}
  BY <1>2 DEF Entries
<1> HIDE DEF hits
<1> QED BY <1>3, <1>4, <1>5, <1>6

\* The descriptor for no rule is after all others.
LEMMA DefaultIsLast ==
    ASSUME RulesInv, NEW k, NEW d, Entitled(rules, k, d)
    PROVE  d \in Descs /\ d[1] \in Nat /\ d[1] < Default[1] /\ d # Default /\ Default[1] \in Nat
<1>1. rules \in Seq(Rules) /\ Len(rules) <= MaxRules /\ MaxRules \in Nat /\ Len(rules) \in Nat
  BY DPRulesAssumption DEF RulesInv
<1>2. d \in Descs /\ d[1] \in 1 .. Len(rules)
  BY <1>1 DEF Entitled
<1>3. Default[1] = MaxRules + 1
  BY DEF Default
<1> QED BY <1>1, <1>2, <1>3

\* When <<n, i>> is the earliest descriptor that may answer for a name of the peer,
\* the lookups of all the names, merged, give it and nothing else.
LEMMA LookupBest ==
    ASSUME RulesInv, OrderInv, NEW v \in Views, NEW ip \in Addresses, NEW ext \in BOOLEAN,
           NEW port \in Ports, NEW a \in 0 .. AnyApp, Clear(rules, v, ip, ext, seen),
           NEW N, Closed(v, ip, ext, N),
           NEW n \in DOMAIN rules, NEW i \in 0 .. Len(rules[n].apps),
           NEW x \in N,
           Entitled(rules, [ip |-> x, port |-> port, app |-> a], <<n, i>>),
           \A y \in N : \A d :
              Entitled(rules, [ip |-> y, port |-> port, app |-> a], d) => Before(<<n, i>>, d)
    PROVE  LookupByKey(Table, N, port, a) = {<<n, i>>}
<1> DEFINE K(y) == [ip |-> y, port |-> port, app |-> a]
           best == <<n, i>>
<1>1. rules \in Seq(Rules) /\ TableOK(rules, Table) /\ Ordered(Table, seen)
  BY DEF RulesInv, OrderInv
<1>2. best \in Descs /\ best[1] = n /\ n \in Nat
  BY <1>1, RuleOfSeq DEF Entitled
<1>3. \A y \in N : /\ y \in Addresses /\ GoodName(v, y, ext, seen)
                  /\ Clear(rules, v, y, ext, seen)
                  /\ PlainNames(v, y, ext) \subseteq N
  BY AliasesNest DEF Closed, Clear
<1>4. \A y \in N : \A f \in Entries(Table, K(y)) : Before(best, f) /\ f \in Descs
  BY <1>1, EntryKinds
<1>5. ASSUME NEW y \in N, best \in Entries(Table, K(y))
      PROVE  LookupKey(Table, K(y)) = {best}
  <2>1. K(y).ip = y
    OBVIOUS
  <2>2. GoodName(v, K(y).ip, ext, seen)
    BY <1>3, <2>1
  <2> HIDE DEF K, best
  <2> QED BY <1>1, <1>4, <1>5, <2>2, KeyAnswer
<1>6. PICK y \in N : best \in Entries(Table, K(y))
  <2>1. Clear(rules, v, x, ext, seen) /\ x \in Addresses /\ PlainNames(v, x, ext) \subseteq N
    BY <1>3
  <2>2. Answered(Table, v, x, ext, port, a, best)
    BY <2>1 DEF OrderInv, Complete
  <2>3. PICK y \in PlainNames(v, x, ext) : \E f \in Entries(Table, K(y)) : Before(f, best)
    BY <2>2 DEF Answered
  <2>4. PICK f \in Entries(Table, K(y)) : Before(f, best)
    BY <2>3
  <2>5. y \in N
    BY <2>1, <2>3
  <2>6. Before(best, f) /\ f \in Descs
    BY <1>4, <2>4, <2>5
  <2>7. f = best
    BY <1>2, <2>4, <2>6, BeforeFacts
  <2> QED BY <2>4, <2>5, <2>7
<1>7. ASSUME NEW z \in N, NEW d \in LookupKey(Table, K(z))
      PROVE  d[1] \in Nat /\ n <= d[1] /\ (d[1] = n => d = best)
  <2>1. CASE Entries(Table, K(z)) = {}
    <3>1. d = Default
      BY <1>1, <1>7, <2>1, NoEntryNoAnswer
    <3>2. best[1] < Default[1] /\ Default[1] \in Nat
      BY DefaultIsLast
    <3> QED BY <1>2, <3>1, <3>2
  <2>2. CASE d \in Entries(Table, K(z))
    <3>1. Before(best, d) /\ d \in Descs
      BY <1>4, <2>2
    <3>2. d[1] \in Nat /\ n <= d[1]
      BY <1>2, <3>1 DEF Before, Descs
    <3>3. ASSUME d[1] = n PROVE best \in Entries(Table, K(z))
      <4>1. Entitled(rules, K(z), d)
        BY <1>1, <2>2, EntryKinds
      <4>2. z \in rules[n].lo .. rules[n].hi /\ port \in rules[n].plo .. rules[n].phi
        BY <3>3, <4>1 DEF Entitled
      <4>3. Entitled(rules, K(y), best)
        BY <1>1, <1>6, EntryKinds
      <4>4. y \in rules[n].lo .. rules[n].hi
        BY <1>2, <4>3 DEF Entitled
      <4>5. CASE rules[n].lo = rules[n].hi
        <5>1. rules[n].lo \in Nat
          BY <1>1, RuleOfSeq, RuleShape
        <5>2. y = z
          BY <4>2, <4>4, <4>5, <5>1
        <5> QED BY <1>6, <5>2
      <4>6. CASE rules[n].lo # rules[n].hi
        <5>1. ~ \E u \in Table.exact : u[1] = K(y) /\ u[2] = best
          BY <1>1, <1>2, <4>6 DEF TableOK, KeyOK
        <5>2. PICK j \in DOMAIN Table.list :
                     InRange(Table.list[j], K(y)) /\ Table.list[j].desc = best
          <6> HIDE DEF K, best
          <6> QED BY <1>1, <1>6, <5>1, EntryKinds
        <5>3. ItemOK(rules, Table.list[j])
          BY <1>1 DEF TableOK
        <5>4. Table.list[j].lo = rules[n].lo /\ Table.list[j].hi = rules[n].hi
          BY <1>2, <5>2, <5>3 DEF ItemOK
        <5>5. InRange(Table.list[j], K(z))
          BY <4>2, <5>2, <5>4 DEF InRange
        <5> QED BY <5>2, <5>5 DEF Entries
      <4> QED BY <4>5, <4>6
    <3>4. ASSUME d[1] = n PROVE d = best
      <4>1. LookupKey(Table, K(z)) = {best}
        BY <1>5, <3>3, <3>4
      <4> QED BY <1>7, <4>1
    <3> QED BY <3>2, <3>4
  <2> QED BY <1>1, <1>7, <2>1, <2>2, NoEntryNoAnswer
<1>8. LookupKey(Table, K(y)) = {best}
  BY <1>5, <1>6
<1> DEFINE found == [z \in N |-> LookupKey(Table, K(z))]
<1>9. LookupByKey(Table, N, port, a) = Merge(found)
  BY DEF LookupByKey
<1>10. /\ DOMAIN found = N
       /\ \A z \in N : found[z] = LookupKey(Table, K(z))
  OBVIOUS
<1>11. \A z \in N : LookupKey(Table, K(z)) # {}
  BY <1>1, NoEntryNoAnswer
<1> HIDE DEF found, K, best
<1>12. best \in Merge(found)
  BY <1>2, <1>6, <1>7, <1>8, <1>10, <1>11 DEF Merge
<1>13. ASSUME NEW d \in Merge(found) PROVE d = best
  <2>1. PICK z \in N : d \in LookupKey(Table, K(z))
    BY <1>10 DEF Merge
  <2>2. d[1] <= best[1]
    BY <1>6, <1>8, <1>10 DEF Merge
  <2> QED BY <1>2, <1>7, <2>1, <2>2
<1> QED BY <1>9, <1>12, <1>13 DEF best

\* When no descriptor may answer, the lookup gives the default.
LEMMA LookupNone ==
    ASSUME RulesInv, NEW N, N # {}, NEW port, NEW a,
           \A y \in N : \A d :
              ~Entitled(rules, [ip |-> y, port |-> port, app |-> a], d)
    PROVE  LookupByKey(Table, N, port, a) = {Default}
<1> DEFINE K(y) == [ip |-> y, port |-> port, app |-> a]
           found == [z \in N |-> LookupKey(Table, K(z))]
<1>1. rules \in Seq(Rules) /\ TableOK(rules, Table)
  BY DEF RulesInv
<1>2. ASSUME NEW z \in N PROVE LookupKey(Table, K(z)) = {Default}
  <2>1. Entries(Table, K(z)) = {}
    BY <1>1, EntryKinds
  <2> QED BY <1>1, <2>1, NoEntryNoAnswer
<1>3. LookupByKey(Table, N, port, a) = Merge(found)
  BY DEF LookupByKey
<1>4. /\ DOMAIN found = N
      /\ \A z \in N : found[z] = {Default}
  BY <1>2
<1>5. \E x : x \in N
  OBVIOUS
<1>6. Default[1] <= Default[1]
  BY DPRulesAssumption DEF Default
<1> HIDE DEF found
<1>7. Merge(found) = {Default}
  BY <1>4, <1>5, <1>6 DEF Merge
<1> QED BY <1>3, <1>7

\* Descriptors that may answer belong to rules that match the packet.
LEMMA EntitledConcerns ==
    ASSUME NEW rs \in Seq(Rules), NEW N, NEW port, NEW a,
           NEW y \in N, NEW d,
           Entitled(rs, [ip |-> y, port |-> port, app |-> a], d)
    PROVE  /\ d \in Descs /\ d[1] \in DOMAIN rs
           /\ Concerns(rs[d[1]], N, port)
           /\ a # 0 => /\ Matches(rs[d[1]], N, port, a)
                       /\ rs[d[1]].apps # << >> => d[2] \in AppsFor(rs[d[1]], a)
<1>1. /\ d \in Descs /\ d[1] \in DOMAIN rs
      /\ y \in rs[d[1]].lo .. rs[d[1]].hi /\ port \in rs[d[1]].plo .. rs[d[1]].phi
      /\ \/ d[2] = 0 /\ (a = 0 \/ rs[d[1]].apps = << >>)
         \/ d[2] \in DOMAIN rs[d[1]].apps /\ rs[d[1]].apps[d[2]] \in {0, a}
  BY DEF Entitled
<1>2. Concerns(rs[d[1]], N, port)
  BY <1>1 DEF Concerns
<1> QED BY <1>1, <1>2 DEF Matches, AppsFor

\* And the other way round.
LEMMA ConcernsEntitles ==
    ASSUME NEW rs \in Seq(Rules), NEW N, NEW port, NEW a, NEW n \in DOMAIN rs,
           Concerns(rs[n], N, port), NEW i \in Nat,
           \/ i = 0 /\ (a = 0 \/ rs[n].apps = << >>)
           \/ i \in AppsFor(rs[n], a)
    PROVE  \E x \in N : Entitled(rs, [ip |-> x, port |-> port, app |-> a], <<n, i>>)
<1>1. PICK x \in N : x \in rs[n].lo .. rs[n].hi
  BY DEF Concerns
<1>2. n \in Nat
  BY RuleOfSeq
<1>3. <<n, i>> \in Descs /\ <<n, i>>[1] = n /\ <<n, i>>[2] = i
  BY <1>2 DEF Descs
<1> QED BY <1>1, <1>3 DEF Entitled, Concerns, AppsFor

\* The lookup without application finds the first rule that concerns the packet.
LEMMA FirstLookup ==
    ASSUME RulesInv, OrderInv, NEW v \in Views, NEW ip \in Addresses, NEW ext \in BOOLEAN,
           NEW port \in Ports, Clear(rules, v, ip, ext, seen), NEW N, Closed(v, ip, ext, N),
           NEW n \in DOMAIN rules, Concerns(rules[n], N, port),
           \A m \in DOMAIN rules : Concerns(rules[m], N, port) => n <= m
    PROVE  LookupByKey(Table, N, port, 0) = {<<n, 0>>}
<1>1. rules \in Seq(Rules) /\ n \in Nat /\ 0 \in 0 .. AnyApp
  BY RuleOfSeq, AppNumbers DEF RulesInv
<1>2. 0 \in 0 .. Len(rules[n].apps)
  BY <1>1, RuleOfSeq, RuleShape
<1>3. PICK x \in N : Entitled(rules, [ip |-> x, port |-> port, app |-> 0], <<n, 0>>)
  BY <1>1, ConcernsEntitles
<1>4. ASSUME NEW y \in N, NEW d,
             Entitled(rules, [ip |-> y, port |-> port, app |-> 0], d)
      PROVE  Before(<<n, 0>>, d)
  <2>1. d \in Descs /\ d[1] \in DOMAIN rules /\ Concerns(rules[d[1]], N, port)
    BY <1>1, <1>4, EntitledConcerns
  <2>2. n <= d[1] /\ d[1] \in Nat /\ d[2] \in Nat
    BY <2>1 DEF Descs
  <2> QED BY <1>1, <2>2 DEF Before
<1> QED BY <1>1, <1>2, <1>3, <1>4, LookupBest

\* The lookup with the application finds the first rule that matches it.
LEMMA SecondLookup ==
    ASSUME RulesInv, OrderInv, NEW v \in Views, NEW ip \in Addresses, NEW ext \in BOOLEAN,
           NEW port \in Ports, Clear(rules, v, ip, ext, seen), NEW N, Closed(v, ip, ext, N),
           NEW app \in Apps \cup {AnyApp}
    PROVE  LookupByKey(Table, N, port, app) = {FirstMatch(N, port, app)}
<1> DEFINE M == {n \in 1 .. Len(rules) : Matches(rules[n], N, port, app)}
           sel == SelectInSeq(rules, LAMBDA r : Matches(r, N, port, app))
<1>1. /\ rules \in Seq(Rules) /\ DOMAIN rules = 1 .. Len(rules) /\ Len(rules) \in Nat
      /\ app # 0 /\ app \in 0 .. AnyApp
  BY AppNumbers, DPRulesAssumption, FS_CardinalityType DEF RulesInv, AnyApp
<1>2. sel = IF M # {} THEN Min(M) ELSE 0
  BY DEF SelectInSeq
<1>3. FirstMatch(N, port, app) =
        IF sel = 0 THEN Default
        ELSE IF rules[sel].apps = << >> THEN <<sel, 0>>
        ELSE <<sel, Min(AppsFor(rules[sel], app))>>
  BY DEF FirstMatch
<1> HIDE DEF sel
<1>4. \A y \in N : \A d :
         Entitled(rules, [ip |-> y, port |-> port, app |-> app], d)
         => /\ d \in Descs /\ d[1] \in M
            /\ rules[d[1]].apps # << >> => d[2] \in AppsFor(rules[d[1]], app)
  BY <1>1, EntitledConcerns
<1>5. CASE M = {}
  <2>1. FirstMatch(N, port, app) = Default
    BY <1>2, <1>3, <1>5
  <2> QED BY <1>4, <1>5, <2>1, LookupNone DEF Closed
<1>6. CASE M # {}
  <2>1. M \in SUBSET Nat /\ 0 \notin M
    BY <1>1
  <2>2. sel \in M /\ \A m \in M : sel <= m
    BY <1>2, <1>6, <2>1, MinIsLeast
  <2> DEFINE S == AppsFor(rules[sel], app)
             i == IF rules[sel].apps = << >> THEN 0 ELSE Min(S)
  <2>3. /\ sel \in DOMAIN rules /\ sel \in Nat /\ sel # 0 /\ rules[sel] \in Rules
        /\ Concerns(rules[sel], N, port)
        /\ rules[sel].apps = << >> \/ S # {}
    BY <1>1, <2>1, <2>2, RuleOfSeq DEF Matches
  <2>4. S \subseteq DOMAIN rules[sel].apps /\ S \in SUBSET Nat
    BY <2>3, RuleShape DEF AppsFor
  <2>5. rules[sel].apps # << >> => i \in S /\ \A j \in S : i <= j
    BY <2>3, <2>4, MinIsLeast
  <2>6. FirstMatch(N, port, app) = <<sel, i>>
    BY <1>3, <2>3
  <2>7. i \in Nat /\ (rules[sel].apps = << >> => i = 0)
    BY <2>4, <2>5
  <2>8. i \in 0 .. Len(rules[sel].apps)
    <3>1. rules[sel].apps \in Seq(Apps \cup {0})
      BY <2>3, RuleShape
    <3>2. Len(rules[sel].apps) \in Nat /\ DOMAIN rules[sel].apps = 1 .. Len(rules[sel].apps)
      BY <3>1
    <3> QED BY <2>4, <2>5, <2>7, <3>2
  <2> HIDE DEF i, S
  <2>9. PICK x \in N :
                Entitled(rules, [ip |-> x, port |-> port, app |-> app], <<sel, i>>)
    BY <1>1, <2>3, <2>5, <2>7, ConcernsEntitles DEF S
  <2>10. ASSUME NEW y \in N, NEW d,
                Entitled(rules, [ip |-> y, port |-> port, app |-> app], d)
         PROVE  Before(<<sel, i>>, d)
    <3>1. /\ d[1] \in Nat /\ d[2] \in Nat /\ d[1] \in M
          /\ rules[d[1]].apps # << >> => d[2] \in AppsFor(rules[d[1]], app)
      BY <1>4, <2>10 DEF Descs
    <3>2. sel <= d[1]
      BY <2>2, <3>1
    <3>3. d[1] = sel => i <= d[2]
      BY <2>5, <2>7, <3>1 DEF S
    <3> QED BY <2>3, <2>7, <3>1, <3>2, <3>3 DEF Before
  <2> QED BY <1>1, <2>3, <2>6, <2>8, <2>9, <2>10, LookupBest
<1> QED BY <1>5, <1>6

\* The first match is that of the first rule that concerns the packet, when that is
\* for any application.
LEMMA FirstMatchIs ==
    ASSUME rules \in Seq(Rules), NEW N, NEW port, NEW app,
           NEW n \in DOMAIN rules, Concerns(rules[n], N, port), rules[n].apps = << >>,
           \A m \in DOMAIN rules : Concerns(rules[m], N, port) => n <= m
    PROVE  FirstMatch(N, port, app) = <<n, 0>>
<1> DEFINE M == {m \in 1 .. Len(rules) : Matches(rules[m], N, port, app)}
           sel == SelectInSeq(rules, LAMBDA r : Matches(r, N, port, app))
<1>1. DOMAIN rules = 1 .. Len(rules) /\ Len(rules) \in Nat
  OBVIOUS
<1>2. sel = IF M # {} THEN Min(M) ELSE 0
  BY DEF SelectInSeq
<1>3. FirstMatch(N, port, app) =
        IF sel = 0 THEN Default
        ELSE IF rules[sel].apps = << >> THEN <<sel, 0>>
        ELSE <<sel, Min(AppsFor(rules[sel], app))>>
  BY DEF FirstMatch
<1> HIDE DEF sel
<1>4. M \in SUBSET Nat /\ 0 \notin M /\ n \in M /\ \A m \in M : n <= m
  BY <1>1 DEF Matches
<1>5. Min(M) \in M /\ \A m \in M : Min(M) <= m
  BY <1>4, MinIsLeast
<1>6. sel = n /\ n # 0
  BY <1>2, <1>4, <1>5
<1> QED BY <1>3, <1>6

\* Without a rule that concerns the packet there is no first match.
LEMMA FirstMatchNone ==
    ASSUME rules \in Seq(Rules), NEW N, NEW port, NEW app,
           \A m \in DOMAIN rules : ~Concerns(rules[m], N, port)
    PROVE  FirstMatch(N, port, app) = Default
<1> DEFINE M == {m \in 1 .. Len(rules) : Matches(rules[m], N, port, app)}
           sel == SelectInSeq(rules, LAMBDA r : Matches(r, N, port, app))
<1>1. M = {}
  BY DEF Matches
<1>2. sel = IF M # {} THEN Min(M) ELSE 0
  BY DEF SelectInSeq
<1>3. sel = 0
  BY <1>1, <1>2
<1> QED BY <1>3 DEF FirstMatch

\* The lookup without application finds the first rule that concerns one of the names,
\* or the default when there is none.
LEMMA EarlyLookup ==
    ASSUME RulesInv, OrderInv, NEW v \in Views, NEW ip \in Addresses, NEW ext \in BOOLEAN,
           NEW port \in Ports, Clear(rules, v, ip, ext, seen), NEW N, Closed(v, ip, ext, N)
    PROVE  \/ /\ LookupByKey(Table, N, port, 0) = {Default}
              /\ \A m \in DOMAIN rules : ~Concerns(rules[m], N, port)
           \/ \E n \in DOMAIN rules :
                 /\ LookupByKey(Table, N, port, 0) = {<<n, 0>>}
                 /\ Concerns(rules[n], N, port)
                 /\ \A m \in DOMAIN rules : Concerns(rules[m], N, port) => n <= m
<1> DEFINE C == {n \in 1 .. Len(rules) : Concerns(rules[n], N, port)}
<1>1. rules \in Seq(Rules) /\ DOMAIN rules = 1 .. Len(rules) /\ Len(rules) \in Nat
  BY DEF RulesInv
<1>2. C \in SUBSET Nat
  BY <1>1
<1>3. CASE C = {}
  <2>1. \A y \in N : \A d : ~Entitled(rules, [ip |-> y, port |-> port, app |-> 0], d)
    BY <1>1, <1>3, EntitledConcerns
  <2>2. LookupByKey(Table, N, port, 0) = {Default}
    BY <2>1, LookupNone DEF Closed
  <2> QED BY <1>1, <1>3, <2>2
<1>4. CASE C # {}
  <2>1. PICK n \in C : \A m \in C : n <= m
    BY <1>2, <1>4, LeastNatural
  <2>2. /\ n \in DOMAIN rules /\ Concerns(rules[n], N, port)
        /\ \A m \in DOMAIN rules : Concerns(rules[m], N, port) => n <= m
    BY <1>1, <2>1
  <2>3. LookupByKey(Table, N, port, 0) = {<<n, 0>>}
    BY <2>2, FirstLookup
  <2> QED BY <2>2, <2>3
<1> QED BY <1>3, <1>4

\* So one lookup or two of a ready session decide as the first matching rule does.
LEMMA ReadyDecides ==
    ASSUME RulesInv, OrderInv, NEW v \in Views, NEW ip \in Addresses, NEW ext \in BOOLEAN,
           NEW port \in Ports, Clear(rules, v, ip, ext, seen), NEW N, Closed(v, ip, ext, N),
           NEW app \in Apps \cup {AnyApp}
    PROVE  Ready(Table, rules, N, port, app) = {FirstMatch(N, port, app)}
<1>1. rules \in Seq(Rules) /\ Len(rules) <= MaxRules /\ MaxRules \in Nat /\ Len(rules) \in Nat
  BY DPRulesAssumption DEF RulesInv
<1>2. ASSUME NEW d0, LookupByKey(Table, N, port, 0) = {d0}
      PROVE  Ready(Table, rules, N, port, app) =
               IF ChecksApp(rules, d0) THEN LookupByKey(Table, N, port, app) ELSE {d0}
  BY <1>2 DEF Ready
<1>3. CASE /\ LookupByKey(Table, N, port, 0) = {Default}
           /\ \A m \in DOMAIN rules : ~Concerns(rules[m], N, port)
  <2>1. FirstMatch(N, port, app) = Default
    BY <1>1, <1>3, FirstMatchNone
  <2>2. ~ChecksApp(rules, Default)
    BY DEF ChecksApp
  <2> QED BY <1>2, <1>3, <2>1, <2>2
<1>4. ASSUME NEW n \in DOMAIN rules, LookupByKey(Table, N, port, 0) = {<<n, 0>>},
             Concerns(rules[n], N, port),
             \A m \in DOMAIN rules : Concerns(rules[m], N, port) => n <= m
      PROVE  Ready(Table, rules, N, port, app) = {FirstMatch(N, port, app)}
  <2>1. CASE rules[n].apps = << >>
    <3>1. FirstMatch(N, port, app) = <<n, 0>>
      BY <1>1, <1>4, <2>1, FirstMatchIs
    <3>2. ~ChecksApp(rules, <<n, 0>>)
      BY <2>1 DEF ChecksApp
    <3> QED BY <1>2, <1>4, <3>1, <3>2
  <2>2. CASE rules[n].apps # << >>
    <3>1. <<n, 0>> # Default
      BY <1>1 DEF Default
    <3>2. ChecksApp(rules, <<n, 0>>)
      BY <2>2, <3>1 DEF ChecksApp
    <3> QED BY <1>2, <1>4, <3>2, SecondLookup
  <2> QED BY <2>1, <2>2
<1> QED BY <1>3, <1>4, EarlyLookup

\* And so does what an early lookup found by a name that is no virtual host: no rule
\* for a virtual host came before it.
LEMMA EarlyDecides ==
    ASSUME RulesInv, OrderInv, NEW v \in Views, NEW ip \in Addresses, NEW ext \in BOOLEAN,
           NEW port \in Ports, Clear(rules, v, ip, ext, seen),
           NEW N, Closed(v, ip, ext, N), NEW O, O \subseteq N, NEW P, P \subseteq O,
           NEW app, NEW d \in LookupByKey(Table, N, port, 0), ~ChecksApp(rules, d),
           HitBy(Table, P, port, 0, d)
    PROVE  d = FirstMatch(O, port, app)
<1>1. rules \in Seq(Rules) /\ TableOK(rules, Table)
  BY DEF RulesInv
<1>2. \A m \in DOMAIN rules : Concerns(rules[m], O, port) => Concerns(rules[m], N, port)
  BY DEF Concerns
<1>3. CASE /\ LookupByKey(Table, N, port, 0) = {Default}
           /\ \A m \in DOMAIN rules : ~Concerns(rules[m], N, port)
  BY <1>1, <1>2, <1>3, FirstMatchNone
<1>4. ASSUME NEW n \in DOMAIN rules, LookupByKey(Table, N, port, 0) = {<<n, 0>>},
             Concerns(rules[n], N, port),
             \A m \in DOMAIN rules : Concerns(rules[m], N, port) => n <= m
      PROVE  d = FirstMatch(O, port, app)
  <2>1. d = <<n, 0>> /\ d[1] = n /\ d[2] = 0
    BY <1>4
  <2>2. d # Default
    <3>1. n <= MaxRules /\ MaxRules \in Nat /\ n \in Nat
      BY <1>1, RuleOfSeq, DPRulesAssumption DEF RulesInv
    <3> QED BY <2>1, <3>1 DEF Default
  <2>3. rules[n].apps = << >>
    BY <2>1, <2>2 DEF ChecksApp
  <2>4. PICK y \in P : d \in LookupKey(Table, [ip |-> y, port |-> port, app |-> 0])
    BY DEF HitBy
  <2>5. Entitled(rules, [ip |-> y, port |-> port, app |-> 0], d)
    BY <1>1, <2>2, <2>4, LookupSound
  <2>6. Concerns(rules[n], O, port)
    BY <1>1, <2>1, <2>4, <2>5, EntitledConcerns
  <2> QED BY <1>1, <1>2, <1>4, <2>1, <2>3, <2>6, FirstMatchIs
<1> QED BY <1>3, <1>4, EarlyLookup

\* The order of the table is what FirstMatchDecides needs.
LEMMA OrderDecides == RulesInv /\ OrderInv => FirstMatchDecides
<1> SUFFICES ASSUME RulesInv, OrderInv, NEW v \in Views, NEW ip \in Peers,
                    StagedAlike(v, ip), Unblocked(rules, v, ip),
                    NEW host \in SUBSET (CodesOf(v, ip) \cap v.vh),
                    NEW port \in Ports, NEW app \in Apps \cup {AnyApp}
             PROVE  Decisions(Table, rules, v, ip, host, port, app) =
                        {FirstMatch(OwnNames(v, ip, host), port, app)}
  BY DEF FirstMatchDecides
<1>1. PICK ext \in BOOLEAN : ext = ~Internal(v, ip)
  OBVIOUS
<1>2. PICK O, N : O = OwnNames(v, ip, host) /\ N = Names(v, ip)
  OBVIOUS
<1>3. Closed(v, ip, ext, N) /\ Closed(v, ip, ext, O) /\ ip \in Addresses
  BY <1>1, <1>2, NamesClosed DEF Addresses
<1>4. O \subseteq N /\ N \ v.vh \subseteq O
  BY <1>2, NamesOfPeer
<1>5. Clear(rules, v, ip, ext, seen)
  <2>1. Aliases(v, ip, ext) = Names(v, ip)
    BY <1>1 DEF Names
  <2>2. ASSUME NEW s \in seen, NEW y \in Aliases(v, ip, ext)
        PROVE  TableUsed(s, y, FALSE) /\ (Internal(s, y) <=> ~ext)
    <3>1. TableUsed(s, y, FALSE) /\ Internal(s, y) = Internal(v, ip)
      BY <2>1, <2>2 DEF StagedAlike
    <3> QED BY <1>1, <3>1
  <2>3. \A s \in seen : CodesOf(s, ip) \subseteq CodesOf(v, ip)
    BY DEF StagedAlike
  <2> QED BY <2>2, <2>3 DEF Clear, GoodName
<1>6. Ready(Table, rules, O, port, app) = {FirstMatch(O, port, app)}
  BY <1>3, <1>5, ReadyDecides
<1>7. LookupByKey(Table, O, port, app) = {FirstMatch(O, port, app)}
  BY <1>3, <1>5, SecondLookup
<1>8. ASSUME NEW d \in LookupByKey(Table, N, port, 0), ~ChecksApp(rules, d),
             HitBy(Table, N \ v.vh, port, 0, d)
      PROVE  d = FirstMatch(O, port, app)
  BY <1>3, <1>4, <1>5, <1>8, EarlyDecides
<1>9. \A d \in Decisions(Table, rules, v, ip, host, port, app) : d = FirstMatch(O, port, app)
  BY <1>2, <1>6, <1>7, <1>8, DecisionSource
<1>10. FirstMatch(O, port, app) \in Decisions(Table, rules, v, ip, host, port, app)
  <2>1. Ready(Table, rules, OwnNames(v, ip, host), port, app)
          \subseteq Decisions(Table, rules, v, ip, host, port, app)
    BY Zenon DEF Decisions
  <2> QED BY <1>2, <1>6, <2>1
<1> QED BY <1>2, <1>9, <1>10

\* Nothing leaves the table.
Kept(tb, t) == tb.exact \subseteq t.exact /\ Longer(tb, t)

\* Nothing in the table is after d.
Bounded(tb, d) ==
    /\ \A u \in tb.exact : Before(u[2], d)
    /\ \A j \in DOMAIN tb.list : Before(tb.list[j].desc, d)

\* What is answered stays answered.
LEMMA KeptEntries ==
    ASSUME NEW tb, NEW t, Kept(tb, t)
    PROVE  /\ \A k : Entries(tb, k) \subseteq Entries(t, k)
           /\ \A v, x, ext, port, a, d :
                 Answered(tb, v, x, ext, port, a, d) => Answered(t, v, x, ext, port, a, d)
<1>1. \A k : Entries(tb, k) \subseteq Entries(t, k)
  <2> SUFFICES ASSUME NEW k, NEW f \in Entries(tb, k) PROVE f \in Entries(t, k)
    OBVIOUS
  <2>1. \/ \E u \in tb.exact : u[1] = k /\ u[2] = f
        \/ \E j \in DOMAIN tb.list : InRange(tb.list[j], k) /\ tb.list[j].desc = f
    BY DEF Entries
  <2>2. \/ \E u \in t.exact : u[1] = k /\ u[2] = f
        \/ \E j \in DOMAIN t.list : InRange(t.list[j], k) /\ t.list[j].desc = f
    BY <2>1 DEF Kept, Longer
  <2> QED BY <2>2 DEF Entries
<1> QED BY <1>1 DEF Answered

\* The entries of a key are bounded with the table.
LEMMA EntryBounded ==
    ASSUME NEW tb, NEW d, Bounded(tb, d), NEW k, NEW f \in Entries(tb, k)
    PROVE  Before(f, d)
BY DEF Bounded, Entries

\* The descriptors of a table are descriptors.
LEMMA DescsOfTable ==
    ASSUME NEW rs, NEW tb, TableOK(rs, tb)
    PROVE  /\ \A u \in tb.exact : u[2] \in Descs
           /\ \A j \in DOMAIN tb.list : tb.list[j].desc \in Descs
BY DEF TableOK, KeyOK, ItemOK, Items

\* A bound can be raised.
LEMMA BoundedLater ==
    ASSUME NEW rs, NEW tb, TableOK(rs, tb), NEW d \in Descs, NEW e \in Descs,
           Bounded(tb, d), Before(d, e)
    PROVE  Bounded(tb, e)
BY DescsOfTable, BeforeFacts DEF Bounded

\* dpi_rule_add_one keeps the order, because the lookup it makes first is the one of
\* packets: it adds a key only when no name of the address finds anything.  What it
\* finds instead is not for a virtual host, when no earlier rule is.
LEMMA AddExactOrders ==
    ASSUME NEW rs \in Seq(Rules), Len(rs) <= MaxRules, NEW tb, TableOK(rs, tb),
           NEW vs, snap \in vs, Ordered(tb, vs), NEW d \in Descs, Bounded(tb, d),
           NEW n \in DOMAIN rs, n = d[1], Single(rs[n]),
           NEW x, x = rs[n].lo, NEW port, port = rs[n].plo, NEW a,
           NEW k, k = [ip |-> x, port |-> port, app |-> a],
           NEW res \in AddExact(tb, k, d)
    PROVE  /\ Ordered(res.tb, vs) /\ Bounded(res.tb, d) /\ Kept(tb, res.tb)
           /\ \A v \in Views, ext \in BOOLEAN :
                 Clear(rs, v, x, ext, vs) => Answered(res.tb, v, x, ext, port, a, d)
           /\ ~res.added =>
                 /\ res.tb = tb
                 /\ \A v \in Views, ext \in BOOLEAN :
                       Clear(rs, v, x, ext, vs) => FoundAt(tb, v, x, ext, port, a, res.exist)
<1> DEFINE more == [exact |-> tb.exact \cup {<<k, d>>}, list |-> tb.list]
           K(y) == [ip |-> y, port |-> port, app |-> a]
<1>1. k.ip = x /\ k.port = port /\ k.app = a
  OBVIOUS
<1>2. PICK f \in Found(tb, k) :
             \/ f = Default /\ res.added /\ res.tb = more
             \/ f # Default /\ ~res.added /\ res.exist = f /\ res.tb = tb
  BY AddExactCases
<1>3. ASSUME NEW v \in Views, NEW ext \in BOOLEAN, GoodName(v, x, ext, vs)
      PROVE  /\ f \in LookupByKey(tb, Names(snap, x), port, a)
             /\ Names(snap, x) \subseteq Aliases(v, x, ext)
             /\ x \in Names(snap, x) /\ x \in PlainNames(v, x, ext)
  <2>1. x \in Aliases(v, x, ext) /\ x \in Names(snap, x) /\ x \in PlainNames(v, x, ext)
    BY DEF Aliases, PlainNames, Names
  <2>2. TableUsed(snap, x, FALSE) /\ (Internal(snap, x) <=> ~ext)
        /\ CodesOf(snap, x) \subseteq CodesOf(v, x)
    BY <1>3, <2>1 DEF GoodName
  <2>3. (~Internal(snap, x)) = ext
    BY <2>2 DEF Internal
  <2>4. Found(tb, k) = LookupByKey(tb, Names(snap, x), port, a)
    BY <1>1, <2>2 DEF Found
  <2>5. Names(snap, x) = Aliases(snap, x, ext)
    BY <2>3 DEF Names
  <2>6. Names(snap, x) \subseteq Aliases(v, x, ext)
    BY <2>2, <2>5 DEF Aliases
  <2> QED BY <1>2, <2>1, <2>4, <2>6
<1>4. CASE f = Default
  <2>1. res.tb = more /\ res.added
    BY <1>2, <1>4
  <2>2. more.exact = tb.exact \cup {<<k, d>>} /\ more.list = tb.list
    OBVIOUS
  <2>3. Kept(tb, more)
    BY <2>2 DEF Kept, Longer
  <2> HIDE DEF more
  <2>4. d \in Entries(more, k) /\ Before(d, d)
    <3>1. <<k, d>> \in more.exact /\ <<k, d>>[1] = k /\ <<k, d>>[2] = d
      BY <2>2
    <3>2. d \in Entries(more, k)
      BY <3>1 DEF Entries
    <3> QED BY <3>2, BeforeFacts
  <2>5. Bounded(more, d)
    BY <2>2, <2>4 DEF Bounded
  <2>6. ASSUME NEW v \in Views, NEW ext \in BOOLEAN, GoodName(v, x, ext, vs)
        PROVE  Entries(tb, k) = {}
    <3>1. PICK e \in LookupKey(tb, K(x)) : Default[1] <= e[1]
      BY <1>3, <1>4, <2>6, LookupFinds
    <3>2. K(x) = k
      OBVIOUS
    <3> SUFFICES ASSUME Entries(tb, k) # {} PROVE FALSE
      OBVIOUS
    <3>3. Entitled(rs, k, e)
      BY <3>1, <3>2, NoEntryNoAnswer, EntryKinds
    <3>4. e[1] \in 1 .. Len(rs) /\ Len(rs) \in Nat /\ MaxRules \in Nat
      <4>1. e[1] \in DOMAIN rs
        BY <3>3 DEF Entitled
      <4>2. MaxRules \in Nat
        BY DPRulesAssumption
      <4> QED BY <4>1, <4>2
    <3>5. Default[1] = MaxRules + 1
      BY DEF Default
    <3> QED BY <3>1, <3>4, <3>5
  <2>7. ASSUME NEW v \in Views, NEW ext \in BOOLEAN, NEW u \in more.exact,
               GoodName(v, u[1].ip, ext, vs)
        PROVE  /\ \A w \in more.exact : w[1] = u[1] => w[2] = u[2]
               /\ \A j \in DOMAIN more.list :
                     InRange(more.list[j], u[1]) => Before(u[2], more.list[j].desc)
    <3>1. CASE u[1] = k
      <4>1. Entries(tb, k) = {}
        BY <1>1, <2>6, <2>7, <3>1
      <4>2. ~ \E w \in tb.exact : w[1] = k
        BY <4>1 DEF Entries
      <4>3. \A j \in DOMAIN tb.list : ~InRange(tb.list[j], k)
        BY <4>1 DEF Entries
      <4> QED BY <2>2, <3>1, <4>2, <4>3
    <3>2. CASE u[1] # k
      BY <2>2, <2>7, <3>2 DEF Ordered
    <3> QED BY <3>1, <3>2
  <2>8. Ordered(more, vs)
    BY <2>2, <2>7 DEF Ordered
  <2>9. ASSUME NEW v \in Views, NEW ext \in BOOLEAN, Clear(rs, v, x, ext, vs)
        PROVE  Answered(more, v, x, ext, port, a, d)
    BY <2>4 DEF Answered, PlainNames, Aliases
  <2> QED BY <2>1, <2>3, <2>5, <2>8, <2>9
<1>5. CASE f # Default
  <2>1. res.tb = tb /\ ~res.added /\ res.exist = f
    BY <1>2, <1>5
  <2>2. Kept(tb, tb)
    BY DEF Kept, Longer
  <2>3. ASSUME NEW v \in Views, NEW ext \in BOOLEAN, Clear(rs, v, x, ext, vs)
        PROVE  FoundAt(tb, v, x, ext, port, a, f)
    <3>1. GoodName(v, x, ext, vs) /\ Unblocked(rs, v, x)
      BY <2>3 DEF Clear
    <3>2. PICK y \in Names(snap, x) : f \in LookupKey(tb, K(y))
      BY <1>3, <3>1, LookupFinds
    <3>3. f \in Entries(tb, K(y)) /\ y \in Aliases(v, x, ext)
      BY <1>3, <1>5, <3>1, <3>2, NoEntryNoAnswer
    <3>4. y \in PlainNames(v, x, ext)
      <4> SUFFICES ASSUME y \in v.vh, y # x PROVE FALSE
        BY <3>3 DEF PlainNames
      <4>1. y \in CodesOf(v, x)
        <5>1. y # External
          BY DPRulesAssumption
        <5> QED BY <3>3, <5>1 DEF Aliases
      <4>2. Entitled(rs, K(y), f) /\ f \in Descs
        BY <3>3, EntryKinds
      <4>3. /\ f[1] \in DOMAIN rs /\ y \in rs[f[1]].lo .. rs[f[1]].hi
            /\ port \in rs[f[1]].plo .. rs[f[1]].phi
        BY <4>2 DEF Entitled
      <4>4. Concerns(rs[f[1]], CodesOf(v, x) \cap v.vh, rs[n].plo)
        BY <4>1, <4>3 DEF Concerns
      <4>5. f[1] <= n /\ f[1] \in Nat /\ n \in Nat
        <5>1. Before(f, d)
          BY <3>3, EntryBounded
        <5> QED BY <4>2, <5>1 DEF Before, Descs
      <4>6. CASE f[1] < n
        BY <3>1, <4>3, <4>4, <4>6 DEF Unblocked
      <4>7. CASE f[1] = n
        <5>1. rs[n].lo \in Nat /\ rs[n].lo = rs[n].hi
          BY RuleOfSeq, RuleShape DEF Single
        <5> QED BY <4>3, <4>7, <5>1
      <4> QED BY <4>5, <4>6, <4>7
    <3> QED BY <3>3, <3>4 DEF FoundAt
  <2>4. ASSUME NEW v \in Views, NEW ext \in BOOLEAN, Clear(rs, v, x, ext, vs)
        PROVE  Answered(tb, v, x, ext, port, a, d)
    BY <2>3, <2>4, EntryBounded DEF Answered, FoundAt
  <2> QED BY <2>1, <2>2, <2>3, <2>4
<1> QED BY <1>4, <1>5

\* dpi_range_rule_add keeps the order, because no entry is after the new one.
LEMMA AddRangeOrders ==
    ASSUME NEW rs, NEW tb, TableOK(rs, tb), NEW vs, Ordered(tb, vs),
           NEW item, ItemOK(rs, item), Bounded(tb, item.desc),
           NEW res \in AddRange(tb, item)
    PROVE  /\ Ordered(res.tb, vs) /\ Bounded(res.tb, item.desc) /\ Kept(tb, res.tb)
           /\ \A k : InRange(item, k) =>
                 \E f \in Entries(res.tb, k) : Before(f, item.desc)
           /\ ~res.added =>
                 res.tb = tb /\ \A k : InRange(item, k) => res.exist \in Entries(tb, k)
<1> DEFINE more == [exact |-> tb.exact, list |-> Append(tb.list, item)]
<1>1. tb.list \in Seq(Items) /\ item \in Items
  BY DEF TableOK, ItemOK
<1>2. DOMAIN tb.list = 1 .. Len(tb.list) /\ Len(tb.list) \in Nat
  BY <1>1
<1>3. item.desc \in Descs /\ Before(item.desc, item.desc)
  BY <1>1, BeforeFacts DEF Items
<1>4. CASE res.added /\ res.tb = more
  <2>1. /\ more.exact = tb.exact
        /\ \A j \in DOMAIN tb.list : j \in DOMAIN more.list /\ more.list[j] = tb.list[j]
        /\ Len(tb.list) + 1 \in DOMAIN more.list /\ more.list[Len(tb.list) + 1] = item
        /\ \A j \in DOMAIN more.list : j \in DOMAIN tb.list \/ j = Len(tb.list) + 1
    BY <1>1, <1>2
  <2> HIDE DEF more
  <2>2. Kept(tb, more)
    BY <2>1 DEF Kept, Longer
  <2>3. Bounded(more, item.desc)
    BY <1>3, <2>1 DEF Bounded
  <2>4. ASSUME NEW i \in DOMAIN more.list, NEW j \in DOMAIN more.list, i <= j
        PROVE  Before(more.list[i].desc, more.list[j].desc)
    <3>1. CASE j = Len(tb.list) + 1
      BY <2>1, <2>3, <3>1 DEF Bounded
    <3>2. CASE j \in DOMAIN tb.list
      <4>1. i \in DOMAIN tb.list
        BY <1>2, <2>1, <2>4, <3>2
      <4> QED BY <2>1, <2>4, <3>2, <4>1 DEF Ordered
    <3> QED BY <2>1, <3>1, <3>2
  <2>5. ASSUME NEW v \in Views, NEW ext \in BOOLEAN, NEW u \in more.exact,
               GoodName(v, u[1].ip, ext, vs)
        PROVE  /\ \A w \in more.exact : w[1] = u[1] => w[2] = u[2]
               /\ \A j \in DOMAIN more.list :
                     InRange(more.list[j], u[1]) => Before(u[2], more.list[j].desc)
    BY <2>1, <2>5 DEF Ordered, Bounded
  <2>6. Ordered(more, vs)
    BY <2>4, <2>5 DEF Ordered
  <2>7. \A k : InRange(item, k) => item.desc \in Entries(more, k)
    BY <2>1 DEF Entries
  <2> QED BY <1>3, <1>4, <2>2, <2>3, <2>6, <2>7
<1>5. CASE /\ ~res.added /\ res.tb = tb
           /\ \E j \in DOMAIN tb.list : Alike(tb.list[j], item) /\ res.exist = tb.list[j].desc
  <2>1. PICK j \in DOMAIN tb.list : Alike(tb.list[j], item) /\ res.exist = tb.list[j].desc
    BY <1>5
  <2>2. \A k : InRange(item, k) => InRange(tb.list[j], k)
    BY <2>1 DEF Alike, InRange
  <2>3. \A k : InRange(item, k) => res.exist \in Entries(tb, k)
    BY <2>1, <2>2 DEF Entries
  <2>4. Kept(tb, tb)
    BY DEF Kept, Longer
  <2> QED BY <1>5, <2>3, <2>4, EntryBounded
<1> QED BY <1>4, <1>5, AddRangeCases

\* Where descriptor <<n, i>> may answer for a name treated alike, it or an earlier
\* one does.
AnsweredAt(rs, t, vs, n, i) ==
    \A v \in Views, ext \in BOOLEAN, x \in Addresses, port \in Ports, a \in 0 .. AnyApp :
        Clear(rs, v, x, ext, vs) /\ Entitled(rs, [ip |-> x, port |-> port, app |-> a], <<n, i>>)
            => Answered(t, v, x, ext, port, a, <<n, i>>)

\* An entry under the name itself answers for it.
LEMMA ItemAnswers ==
    ASSUME NEW v, NEW x, NEW ext, NEW port, NEW a, NEW d, NEW t,
           \E f \in Entries(t, [ip |-> x, port |-> port, app |-> a]) : Before(f, d)
    PROVE  Answered(t, v, x, ext, port, a, d)
BY DEF Answered, Aliases, PlainNames

\* dpi_add_app_rule keeps the order and answers for its descriptor.
LEMMA AddAppOrders ==
    ASSUME NEW rs \in Seq(Rules), Len(rs) <= MaxRules, NEW n \in DOMAIN rs, NEW r, r = rs[n],
           NEW tb, TableOK(rs, tb), NEW vs, snap \in vs, Ordered(tb, vs),
           NEW i \in Nat, Bounded(tb, <<n, i>>), NEW app,
           \/ i = 0 /\ app = 0 /\ r.apps = << >>
           \/ i \in DOMAIN r.apps /\ app = r.apps[i],
           NEW res \in AddApp(tb, r, app, <<n, i>>)
    PROVE  /\ Ordered(res.tb, vs) /\ Bounded(res.tb, <<n, i>>) /\ Kept(tb, res.tb)
           /\ AnsweredAt(rs, res.tb, vs, n, i)
<1> DEFINE d == <<n, i>>
           K(x, port, a) == [ip |-> x, port |-> port, app |-> a]
<1>1. /\ r \in Rules /\ n \in Nat /\ d \in Descs /\ d[1] = n /\ d[2] = i
      /\ r.lo \in Nat /\ r.plo \in Nat
      /\ \A j \in DOMAIN r.apps : j # 0 /\ r.apps[j] \in Nat
  BY RuleOfSeq, RuleShape DEF Descs
<1>2. ASSUME NEW x, NEW port, NEW a, Entitled(rs, K(x, port, a), d)
      PROVE  /\ x \in r.lo .. r.hi /\ port \in r.plo .. r.phi
             /\ app # 0 => a = app
  BY <1>1, <1>2 DEF Entitled
<1>3. ASSUME NEW alo, NEW ahi, res \in AddRange(tb, Item(r, alo, ahi, d)),
             ItemOK(rs, Item(r, alo, ahi, d)),
             \A x, port : \A a \in 0 .. AnyApp :
                Entitled(rs, K(x, port, a), d) => a \in alo .. ahi
      PROVE  /\ Ordered(res.tb, vs) /\ Bounded(res.tb, d) /\ Kept(tb, res.tb)
             /\ AnsweredAt(rs, res.tb, vs, n, i)
  <2> DEFINE it == Item(r, alo, ahi, d)
  <2>1. /\ it.lo = r.lo /\ it.hi = r.hi /\ it.plo = r.plo /\ it.phi = r.phi
        /\ it.alo = alo /\ it.ahi = ahi /\ it.desc = d
    BY DEF Item
  <2> HIDE DEF it, d
  <2>2. /\ Ordered(res.tb, vs) /\ Bounded(res.tb, it.desc) /\ Kept(tb, res.tb)
        /\ \A k : InRange(it, k) => \E f \in Entries(res.tb, k) : Before(f, it.desc)
    <3>1. res \in AddRange(tb, it) /\ ItemOK(rs, it) /\ Bounded(tb, it.desc)
      BY <1>3, <2>1 DEF it, d
    <3> HIDE DEF K
    <3> QED BY <3>1, AddRangeOrders
  <2>3. ASSUME NEW v \in Views, NEW ext \in BOOLEAN, NEW x \in Addresses, NEW port \in Ports,
               NEW a \in 0 .. AnyApp, Entitled(rs, K(x, port, a), d)
        PROVE  Answered(res.tb, v, x, ext, port, a, d)
    <3>1. x \in r.lo .. r.hi /\ port \in r.plo .. r.phi /\ a \in alo .. ahi
      BY <1>2, <1>3, <2>3
    <3>2. InRange(it, K(x, port, a))
      BY <2>1, <3>1 DEF InRange
    <3>3. \E f \in Entries(res.tb, K(x, port, a)) : Before(f, d)
      BY <2>1, <2>2, <3>2
    <3> QED BY <3>3, ItemAnswers
  <2> QED BY <2>1, <2>2, <2>3 DEF AnsweredAt, d
<1>4. CASE app = 0
  <2>1. ItemOK(rs, Item(r, 0, AnyApp, d))
    BY <1>4, ItemOfRule
  <2>2. res \in AddRange(tb, Item(r, 0, AnyApp, d))
    BY <1>4 DEF AddApp
  <2> QED BY <1>3, <2>1, <2>2
<1>5. CASE app # 0 /\ ~Single(r)
  <2>1. ItemOK(rs, Item(r, app, app, d))
    BY <1>5, ItemOfRule
  <2>2. res \in AddRange(tb, Item(r, app, app, d))
    BY <1>5 DEF AddApp
  <2>3. app \in Nat
    BY <1>1, <1>5
  <2>4. \A x, port : \A a \in 0 .. AnyApp :
           Entitled(rs, K(x, port, a), d) => a \in app .. app
    BY <1>2, <1>5, <2>3
  <2> QED BY <1>3, <2>1, <2>2, <2>4
<1>6. CASE app # 0 /\ Single(r)
  <2>1. res \in AddExact(tb, Key(r, app), d) /\ Key(r, app) = K(r.lo, r.plo, app)
    BY <1>6 DEF AddApp, Key
  <2>2. /\ Ordered(res.tb, vs) /\ Bounded(res.tb, d) /\ Kept(tb, res.tb)
        /\ \A v \in Views, ext \in BOOLEAN :
              Clear(rs, v, r.lo, ext, vs) => Answered(res.tb, v, r.lo, ext, r.plo, app, d)
    <3>1. Bounded(tb, d) /\ n = d[1] /\ d \in Descs
      BY <1>1
    <3>2. Single(rs[n]) /\ r.lo = rs[n].lo /\ r.plo = rs[n].plo
      BY <1>6
    <3> DEFINE k == Key(r, app)
    <3>3. res \in AddExact(tb, k, d) /\ k = [ip |-> r.lo, port |-> r.plo, app |-> app]
      BY <2>1
    <3> HIDE DEF d, k
    <3>4. /\ Ordered(res.tb, vs) /\ Bounded(res.tb, d) /\ Kept(tb, res.tb)
          /\ \A v \in Views, ext \in BOOLEAN :
                Clear(rs, v, r.lo, ext, vs) => Answered(res.tb, v, r.lo, ext, r.plo, app, d)
          /\ ~res.added =>
                /\ res.tb = tb
                /\ \A v \in Views, ext \in BOOLEAN :
                      Clear(rs, v, r.lo, ext, vs) =>
                         FoundAt(tb, v, r.lo, ext, r.plo, app, res.exist)
      BY <3>1, <3>2, <3>3, AddExactOrders
    <3> QED BY <3>4
  <2>3. ASSUME NEW v \in Views, NEW ext \in BOOLEAN, NEW x \in Addresses, NEW port \in Ports,
               NEW a \in 0 .. AnyApp, Clear(rs, v, x, ext, vs), Entitled(rs, K(x, port, a), d)
        PROVE  Answered(res.tb, v, x, ext, port, a, d)
    <3>1. x \in r.lo .. r.hi /\ port \in r.plo .. r.phi /\ a = app
      BY <1>2, <1>6, <2>3
    <3>2. x = r.lo /\ port = r.plo
      BY <1>1, <1>6, <3>1 DEF Single
    <3> QED BY <2>2, <2>3, <3>1, <3>2
  <2> QED BY <2>2, <2>3 DEF AnsweredAt
<1> QED BY <1>4, <1>5, <1>6

\* After i applications of rule n the table is in order and answers for all of them.
Progress(rs, tb, t, vs, n, i) ==
    /\ TableOK(rs, t) /\ Ordered(t, vs) /\ Bounded(t, <<n, i>>) /\ Kept(tb, t)
    /\ \A j \in 1 .. i : AnsweredAt(rs, t, vs, n, j)

\* One growth of the table after the other is a growth of the table.
LEMMA KeptTrans ==
    ASSUME NEW t1, NEW t2, NEW t3, Kept(t1, t2), Kept(t2, t3)
    PROVE  Kept(t1, t3)
BY LongerTrans DEF Kept

\* No table of the loop over the applications is the first one without that.
LEMMA AddAppsOrders ==
    ASSUME NEW rs \in Seq(Rules), Len(rs) <= MaxRules, NEW n \in DOMAIN rs, NEW r, r = rs[n],
           NEW tb, TableOK(rs, tb), NEW vs, snap \in vs, Ordered(tb, vs), Bounded(tb, <<n, 0>>),
           NEW t \in AddApps(tb, r, n)
    PROVE  Progress(rs, tb, t, vs, n, Len(r.apps))
<1> DEFINE N == Len(r.apps)
<1>1. r.apps \in Seq(Apps \cup {0}) /\ n \in Nat
  BY RuleOfSeq, RuleShape
<1>2. N \in Nat /\ DOMAIN r.apps = 1 .. N
  BY <1>1
<1>3. PICK s : AppsRun(s, tb, r, n)
  BY <1>2, AppsInTurn
<1> DEFINE B == {i \in 0 .. N : \E x \in s[i] : ~Progress(rs, tb, x, vs, n, i)}
<1>4. B = {}
  <2> SUFFICES ASSUME B # {} PROVE FALSE
    OBVIOUS
  <2>1. B \in SUBSET Nat
    BY <1>2
  <2>2. PICK i \in B : \A j \in B : i <= j
    BY <2>1, LeastNatural
  <2>3. PICK x \in s[i] : ~Progress(rs, tb, x, vs, n, i)
    BY <2>2
  <2>4. i # 0
    <3> SUFFICES ASSUME i = 0 PROVE FALSE
      OBVIOUS
    <3>1. Kept(tb, tb)
      BY DEF Kept, Longer
    <3>2. x = tb
      BY <1>3, <2>3 DEF AppsRun
    <3> QED BY <2>3, <3>1, <3>2 DEF Progress
  <2>5. i \in 1 .. N /\ i - 1 \in 0 .. N /\ ~(i <= i - 1) /\ i \in Nat
    BY <1>2, <2>2, <2>4
  <2>6. \A u \in s[i - 1] : Progress(rs, tb, u, vs, n, i - 1)
    BY <2>2, <2>5
  <2>7. PICK u \in s[i - 1] : \E y \in AddApp(u, r, r.apps[i], <<n, i>>) : x = y.tb
    BY <1>3, <2>3, <2>5 DEF AppsRun
  <2>8. PICK y \in AddApp(u, r, r.apps[i], <<n, i>>) : x = y.tb
    BY <2>7
  <2>9. /\ TableOK(rs, u) /\ Ordered(u, vs) /\ Bounded(u, <<n, i - 1>>) /\ Kept(tb, u)
        /\ \A j \in 1 .. (i - 1) : AnsweredAt(rs, u, vs, n, j)
    BY <2>6, <2>7 DEF Progress
  <2>10. Bounded(u, <<n, i>>)
    <3>1. <<n, i - 1>> \in Descs /\ <<n, i>> \in Descs
      BY <1>1, <2>5 DEF Descs
    <3>2. Before(<<n, i - 1>>, <<n, i>>)
      BY <1>1, <2>5 DEF Before
    <3> QED BY <2>9, <3>1, <3>2, BoundedLater
  <2>11. TableOK(rs, x)
    BY <1>2, <2>5, <2>8, <2>9, AddAppKeeps
  <2>12. /\ Ordered(x, vs) /\ Bounded(x, <<n, i>>) /\ Kept(u, x)
         /\ AnsweredAt(rs, x, vs, n, i)
    BY <1>2, <2>5, <2>8, <2>9, <2>10, AddAppOrders
  <2>13. Kept(tb, x)
    BY <2>9, <2>12, KeptTrans
  <2>14. ASSUME NEW j \in 1 .. i PROVE AnsweredAt(rs, x, vs, n, j)
    <3>1. CASE j = i
      BY <2>12, <3>1
    <3>2. CASE j # i
      <4>1. j \in 1 .. (i - 1)
        BY <2>5, <3>2
      <4>2. AnsweredAt(rs, u, vs, n, j)
        BY <2>9, <4>1
      <4> QED BY <2>12, <4>2, KeptEntries DEF AnsweredAt
    <3> QED BY <3>1, <3>2
  <2> QED BY <2>3, <2>11, <2>12, <2>13, <2>14 DEF Progress
<1> QED BY <1>2, <1>3, <1>4 DEF AppsRun

\* The attempt of dpi_rule_add to add the rule itself.
FirstTry(tb, r, n, ahi) ==
    IF Single(r) THEN AddExact(tb, Key(r, 0), <<n, 0>>)
    ELSE AddRange(tb, Item(r, 0, ahi, <<n, 0>>))

\* For every packet the rule concerns there is an answer without application, and
\* what the attempt found is one.
FirstAnswered(rs, tb, res, r, n, vs) ==
    \A v \in Views, ext \in BOOLEAN, x \in r.lo .. r.hi, port \in r.plo .. r.phi :
        Clear(rs, v, x, ext, vs) =>
            /\ Answered(res.tb, v, x, ext, port, 0, <<n, 0>>)
            /\ ~res.added => FoundAt(tb, v, x, ext, port, 0, res.exist)

\* The attempt keeps the order and leaves such an answer.
LEMMA FirstOrders ==
    ASSUME NEW rs \in Seq(Rules), Len(rs) <= MaxRules, NEW n \in DOMAIN rs, NEW r, r = rs[n],
           NEW tb, TableOK(rs, tb), NEW vs, snap \in vs, Ordered(tb, vs),
           Bounded(tb, <<n, 0>>), NEW ahi \in {0, AnyApp}, ahi = 0 \/ r.apps = << >>,
           NEW res \in FirstTry(tb, r, n, ahi)
    PROVE  /\ TableOK(rs, res.tb) /\ Ordered(res.tb, vs) /\ Bounded(res.tb, <<n, 0>>)
           /\ Kept(tb, res.tb)
           /\ ~res.added => res.tb = tb
           /\ FirstAnswered(rs, tb, res, r, n, vs)
<1> DEFINE d == <<n, 0>>
           K(x, port) == [ip |-> x, port |-> port, app |-> 0]
<1>1. /\ r \in Rules /\ n \in Nat /\ d \in Descs /\ r.lo \in Nat /\ r.plo \in Nat
      /\ AnyApp \in Nat
  BY RuleOfSeq, RuleShape, AppNumbers DEF Descs
<1>2. CASE Single(r)
  <2>1. KeyOK(rs, Key(r, 0), d)
    BY <1>2, KeyOfRule
  <2>2. res \in AddExact(tb, Key(r, 0), d) /\ Key(r, 0) = K(r.lo, r.plo)
    BY <1>2 DEF Key, FirstTry
  <2>3. TableOK(rs, res.tb)
    BY <2>1, <2>2, AddExactKeeps
  <2>4. /\ Ordered(res.tb, vs) /\ Bounded(res.tb, d) /\ Kept(tb, res.tb)
        /\ \A v \in Views, ext \in BOOLEAN :
              Clear(rs, v, r.lo, ext, vs) => Answered(res.tb, v, r.lo, ext, r.plo, 0, d)
        /\ ~res.added =>
              /\ res.tb = tb
              /\ \A v \in Views, ext \in BOOLEAN :
                    Clear(rs, v, r.lo, ext, vs) => FoundAt(tb, v, r.lo, ext, r.plo, 0, res.exist)
    <3>1. Bounded(tb, d) /\ n = d[1] /\ d \in Descs
      BY <1>1
    <3>2. Single(rs[n]) /\ r.lo = rs[n].lo /\ r.plo = rs[n].plo
      BY <1>2
    <3> DEFINE k == Key(r, 0)
    <3>3. res \in AddExact(tb, k, d) /\ k = [ip |-> r.lo, port |-> r.plo, app |-> 0]
      BY <2>2
    <3> HIDE DEF d, k
    <3> QED BY <3>1, <3>2, <3>3, AddExactOrders
  <2>5. \A x \in r.lo .. r.hi, port \in r.plo .. r.phi : x = r.lo /\ port = r.plo
    BY <1>1, <1>2 DEF Single
  <2> QED BY <2>3, <2>4, <2>5 DEF FirstAnswered
<1>3. CASE ~Single(r)
  <2> DEFINE it == Item(r, 0, ahi, d)
  <2>1. ItemOK(rs, it)
    BY ItemOfRule
  <2>2. res \in AddRange(tb, it)
    BY <1>3 DEF FirstTry
  <2>3. TableOK(rs, res.tb)
    BY <2>1, <2>2, AddRangeKeeps
  <2>4. /\ it.lo = r.lo /\ it.hi = r.hi /\ it.plo = r.plo /\ it.phi = r.phi
        /\ it.alo = 0 /\ it.ahi = ahi /\ it.desc = d
    BY DEF Item
  <2> HIDE DEF it
  <2>5. /\ Ordered(res.tb, vs) /\ Bounded(res.tb, it.desc) /\ Kept(tb, res.tb)
        /\ \A k : InRange(it, k) => \E f \in Entries(res.tb, k) : Before(f, it.desc)
        /\ ~res.added => res.tb = tb /\ \A k : InRange(it, k) => res.exist \in Entries(tb, k)
    <3>1. Bounded(tb, it.desc)
      BY <2>4
    <3> HIDE DEF d, K
    <3> QED BY <2>1, <2>2, <3>1, AddRangeOrders
  <2>6. ASSUME NEW v \in Views, NEW ext \in BOOLEAN,
               NEW x \in r.lo .. r.hi, NEW port \in r.plo .. r.phi
        PROVE  /\ Answered(res.tb, v, x, ext, port, 0, d)
               /\ ~res.added => FoundAt(tb, v, x, ext, port, 0, res.exist)
    <3>1. InRange(it, K(x, port))
      BY <1>1, <2>4 DEF InRange
    <3>2. \E f \in Entries(res.tb, K(x, port)) : Before(f, d)
      BY <2>4, <2>5, <3>1
    <3>3. x \in PlainNames(v, x, ext)
      BY DEF Aliases, PlainNames
    <3> QED BY <2>5, <3>1, <3>2, <3>3, ItemAnswers DEF FoundAt
  <2> QED BY <2>3, <2>4, <2>5, <2>6 DEF FirstAnswered
<1> QED BY <1>2, <1>3

\* dpi_rule_add may skip a rule when what it found need not check the application:
\* that entry, or an earlier one, answers for every application.
LEMMA SkippedIsAnswered ==
    ASSUME RulesInv, NEW vs, Complete(rules, Table, vs),
           NEW v \in Views, NEW ext \in BOOLEAN, NEW x \in Addresses, Clear(rules, v, x, ext, vs),
           NEW port \in Ports, NEW a \in 0 .. AnyApp, NEW y \in PlainNames(v, x, ext),
           NEW d \in Entries(Table, [ip |-> y, port |-> port, app |-> 0]),
           ~ChecksApp(rules, d), NEW i \in Nat
    PROVE  Answered(Table, v, x, ext, port, a, <<Len(rules) + 1, i>>)
<1> DEFINE m == d[1]
           top == <<Len(rules) + 1, i>>
<1>1. /\ rules \in Seq(Rules) /\ TableOK(rules, Table)
      /\ Len(rules) \in Nat /\ DOMAIN rules = 1 .. Len(rules)
  BY DEF RulesInv
<1>2. Entitled(rules, [ip |-> y, port |-> port, app |-> 0], d) /\ d \in Descs
  BY <1>1, EntryKinds
<1>3. d # Default
  BY <1>2, DefaultIsLast
<1>4. /\ m \in DOMAIN rules /\ y \in rules[m].lo .. rules[m].hi
      /\ port \in rules[m].plo .. rules[m].phi
      /\ \/ d[2] = 0
         \/ d[2] \in DOMAIN rules[m].apps /\ rules[m].apps[d[2]] = 0
  BY <1>2 DEF Entitled
<1>5. d[2] = 0 => rules[m].apps = << >>
  BY <1>3 DEF ChecksApp
<1>6. Entitled(rules, [ip |-> y, port |-> port, app |-> a], d)
  BY <1>2, <1>4, <1>5 DEF Entitled
<1>7. d = <<m, d[2]>> /\ d[2] \in Nat /\ m \in Nat
  BY <1>2 DEF Descs
<1>8. d[2] \in 0 .. Len(rules[m].apps)
  <2>1. rules[m].apps \in Seq(Apps \cup {0})
    BY <1>1, <1>4, RuleOfSeq, RuleShape
  <2>2. Len(rules[m].apps) \in Nat /\ DOMAIN rules[m].apps = 1 .. Len(rules[m].apps)
    BY <2>1
  <2> QED BY <1>4, <1>7, <2>2
<1>9. /\ y \in Addresses /\ Clear(rules, v, y, ext, vs)
      /\ PlainNames(v, y, ext) \subseteq PlainNames(v, x, ext)
  <2>1. y \in Aliases(v, x, ext)
    BY DEF PlainNames
  <2> QED BY <2>1, AliasesNest, PlainNest
<1>10. PICK e : e = d[2]
  OBVIOUS
<1>11. Answered(Table, v, y, ext, port, a, <<m, e>>)
  <2>1. /\ m \in DOMAIN rules /\ e \in 0 .. Len(rules[m].apps)
        /\ Entitled(rules, [ip |-> y, port |-> port, app |-> a], <<m, e>>)
    BY <1>4, <1>6, <1>7, <1>8, <1>10
  <2> QED BY <1>9, <2>1 DEF Complete
<1>12. PICK z \in PlainNames(v, y, ext) :
              \E f \in Entries(Table, [ip |-> z, port |-> port, app |-> a]) : Before(f, d)
  BY <1>7, <1>10, <1>11 DEF Answered
<1>13. top \in Descs /\ Before(d, top)
  BY <1>1, <1>4, <1>7 DEF Before, Descs
<1>14. \A f \in Entries(Table, [ip |-> z, port |-> port, app |-> a]) :
          Before(f, d) => Before(f, top)
  BY <1>1, <1>2, <1>13, EntryKinds, BeforeFacts
<1> QED BY <1>9, <1>12, <1>14 DEF Answered

\* A name that is clear of virtual hosts was so before the last rules came.
LEMMA ClearBefore ==
    ASSUME NEW rs, NEW more, \A m \in DOMAIN rs : m \in DOMAIN more /\ more[m] = rs[m],
           NEW v, NEW x, NEW ext, NEW vs, Clear(more, v, x, ext, vs)
    PROVE  Clear(rs, v, x, ext, vs)
BY DEF Clear, Unblocked

\* Whatever dpi_rule_add does after the attempt, all descriptors of the new rule are
\* answered.
LEMMA NewRuleAnswered ==
    ASSUME RulesInv, NEW rs \in Seq(Rules), Len(rs) <= MaxRules, NEW n \in DOMAIN rs,
           n = Len(rules) + 1, NEW r, r = rs[n],
           \A m \in DOMAIN rules : m \in DOMAIN rs /\ rs[m] = rules[m],
           TableOK(rs, Table), Bounded(Table, <<n, 0>>),
           NEW vs, snap \in vs, Ordered(Table, vs), Complete(rules, Table, vs),
           NEW ahi \in {0, AnyApp}, ahi = 0 \/ r.apps = << >>,
           NEW res \in FirstTry(Table, r, n, ahi), NEW t \in AfterFirst(res, r, n)
    PROVE  /\ TableOK(rs, t) /\ Ordered(t, vs) /\ Kept(Table, t)
           /\ \A i \in 0 .. Len(r.apps) : AnsweredAt(rs, t, vs, n, i)
<1>1. /\ TableOK(rs, res.tb) /\ Ordered(res.tb, vs) /\ Bounded(res.tb, <<n, 0>>)
      /\ Kept(Table, res.tb)
      /\ ~res.added => res.tb = Table
      /\ FirstAnswered(rs, Table, res, r, n, vs)
  BY FirstOrders
<1>2. r \in Rules /\ n \in Nat
  BY RuleOfSeq
<1>3. r.apps \in Seq(Apps \cup {0}) /\ Len(r.apps) \in Nat /\ DOMAIN r.apps = 1 .. Len(r.apps)
  BY <1>2, RuleShape
<1>4. TableOK(rs, t)
  BY <1>1, <1>2, AfterFirstKeeps
<1>5. ASSUME NEW x, NEW port, NEW a, NEW i \in Nat,
             Entitled(rs, [ip |-> x, port |-> port, app |-> a], <<n, i>>)
      PROVE  /\ x \in r.lo .. r.hi /\ port \in r.plo .. r.phi
             /\ i = 0 => (a = 0 \/ r.apps = << >>)
  <2>1. 0 \notin DOMAIN r.apps
    BY <1>3
  <2> QED BY <1>2, <1>5, <2>1 DEF Entitled
<1>6. CASE ~res.added /\ ~ChecksApp(rules, res.exist)
  <2>1. t = Table
    BY <1>1, <1>6 DEF AfterFirst
  <2>2. ASSUME NEW i \in 0 .. Len(r.apps), NEW v \in Views, NEW ext \in BOOLEAN,
               NEW x \in Addresses, NEW port \in Ports, NEW a \in 0 .. AnyApp,
               Clear(rs, v, x, ext, vs),
               Entitled(rs, [ip |-> x, port |-> port, app |-> a], <<n, i>>)
        PROVE  Answered(Table, v, x, ext, port, a, <<n, i>>)
    <3>1. i \in Nat
      BY <1>3
    <3>2. x \in r.lo .. r.hi /\ port \in r.plo .. r.phi
      BY <1>5, <2>2, <3>1
    <3>3. FoundAt(Table, v, x, ext, port, 0, res.exist)
      BY <1>1, <1>6, <2>2, <3>2 DEF FirstAnswered
    <3>4. PICK y \in PlainNames(v, x, ext) :
                 res.exist \in Entries(Table, [ip |-> y, port |-> port, app |-> 0])
      BY <3>3 DEF FoundAt
    <3>5. Clear(rules, v, x, ext, vs)
      BY <2>2, ClearBefore
    <3> QED BY <1>6, <2>2, <3>1, <3>4, <3>5, SkippedIsAnswered
  <2>3. Kept(Table, Table)
    BY DEF Kept, Longer
  <2> QED BY <1>4, <2>1, <2>2, <2>3 DEF AnsweredAt
<1>7. CASE ~(~res.added /\ ~ChecksApp(rules, res.exist)) /\ r.apps = << >>
  <2>1. PICK x \in AddApp(res.tb, r, 0, <<n, 0>>) : t = x.tb
    BY <1>7 DEF AfterFirst
  <2>2. /\ Ordered(t, vs) /\ Kept(res.tb, t) /\ AnsweredAt(rs, t, vs, n, 0)
    BY <1>1, <1>2, <1>7, <2>1, AddAppOrders
  <2>3. Kept(Table, t)
    BY <1>1, <2>2, KeptTrans
  <2>4. \A i \in 0 .. Len(r.apps) : i = 0
    BY <1>7
  <2> QED BY <1>4, <2>2, <2>3, <2>4
<1>8. CASE ~(~res.added /\ ~ChecksApp(rules, res.exist)) /\ r.apps # << >>
  <2>1. t \in AddApps(res.tb, r, n)
    BY <1>8 DEF AfterFirst
  <2>2. Progress(rs, res.tb, t, vs, n, Len(r.apps))
    BY <1>1, <1>2, <2>1, AddAppsOrders
  <2>3. Ordered(t, vs) /\ Kept(Table, t) /\ Kept(res.tb, t)
    BY <1>1, <2>2, KeptTrans DEF Progress
  <2>4. AnsweredAt(rs, t, vs, n, 0)
    <3> SUFFICES ASSUME NEW v \in Views, NEW ext \in BOOLEAN, NEW x \in Addresses,
                        NEW port \in Ports, NEW a \in 0 .. AnyApp, Clear(rs, v, x, ext, vs),
                        Entitled(rs, [ip |-> x, port |-> port, app |-> a], <<n, 0>>)
                 PROVE  Answered(t, v, x, ext, port, a, <<n, 0>>)
      BY DEF AnsweredAt
    <3>1. x \in r.lo .. r.hi /\ port \in r.plo .. r.phi /\ a = 0
      BY <1>5, <1>8
    <3>2. Answered(res.tb, v, x, ext, port, 0, <<n, 0>>)
      BY <1>1, <3>1 DEF FirstAnswered
    <3> QED BY <2>3, <3>1, <3>2, KeptEntries
  <2>5. ASSUME NEW i \in 0 .. Len(r.apps) PROVE AnsweredAt(rs, t, vs, n, i)
    <3>1. i = 0 \/ i \in 1 .. Len(r.apps)
      BY <1>3
    <3> QED BY <2>2, <2>4, <3>1 DEF Progress
  <2> QED BY <1>4, <2>3, <2>5
<1> QED BY <1>6, <1>7, <1>8

\* The more configurations there were, the fewer names they all treated alike.
LEMMA FewerViews ==
    ASSUME NEW vs, NEW ws, vs \subseteq ws, NEW rs, NEW tb
    PROVE  /\ Ordered(tb, vs) => Ordered(tb, ws)
           /\ Complete(rs, tb, vs) => Complete(rs, tb, ws)
<1>1. \A v, x, ext : GoodName(v, x, ext, ws) => GoodName(v, x, ext, vs)
  BY DEF GoodName
<1>2. Ordered(tb, vs) => Ordered(tb, ws)
  BY <1>1 DEF Ordered
<1>3. Complete(rs, tb, vs) => Complete(rs, tb, ws)
  BY <1>1 DEF Complete, Clear
<1> QED BY <1>2, <1>3

\* dpi_rule_add keeps the order of the table.
LEMMA AddRuleOrders ==
    ASSUME RulesInv, OrderInv, NEW r \in Rules, NEW ahi \in {0, AnyApp}, AddRule(r, ahi)
    PROVE  OrderInv'
<1>1. PICK n, rs, vs : n = Len(rules) + 1 /\ rs = Append(rules, r) /\ vs = seen \cup {snap}
  OBVIOUS
<1>2. /\ rules \in Seq(Rules) /\ Len(rules) < MaxRules /\ rules' = rs /\ seen' = vs /\ cfg' = cfg
      /\ (ahi = 0 \/ r.apps = << >>) /\ Len(rules) \in Nat /\ TableOK(rules, Table)
  BY <1>1 DEF RulesInv, AddRule
<1>3. PICK res \in FirstTry(Table, r, n, ahi) :
             \E t \in AfterFirst(res, r, n) : exact' = t.exact /\ list' = t.list
  BY <1>1 DEF AddRule, Table, FirstTry
<1>4. PICK t \in AfterFirst(res, r, n) : exact' = t.exact /\ list' = t.list
  BY <1>3
<1>5. Ordered(Table, vs) /\ Complete(rules, Table, vs) /\ snap \in vs
  BY <1>1, FewerViews DEF OrderInv
<1>6. /\ rs \in Seq(Rules) /\ Len(rs) <= MaxRules /\ n \in DOMAIN rs /\ r = rs[n]
      /\ \A m \in DOMAIN rs : m = n \/ (m \in DOMAIN rules /\ rs[m] = rules[m])
      /\ \A m \in DOMAIN rules : m \in DOMAIN rs /\ rs[m] = rules[m]
  <2>1. MaxRules \in Nat
    BY DPRulesAssumption
  <2>2. /\ rs \in Seq(Rules) /\ Len(rs) = Len(rules) + 1 /\ n \in DOMAIN rs /\ r = rs[n]
        /\ \A m \in DOMAIN rs : m = n \/ (m \in DOMAIN rules /\ rs[m] = rules[m])
        /\ \A m \in DOMAIN rules : m \in DOMAIN rs /\ rs[m] = rules[m]
    BY <1>1, <1>2
  <2> QED BY <1>2, <2>1, <2>2
<1>7. TableOK(rs, Table) /\ Bounded(Table, <<n, 0>>)
  <2>1. Len(rules) \in Nat /\ DOMAIN rules = 1 .. Len(rules) /\ n = Len(rules) + 1
    BY <1>1, <1>2
  <2>2. \A u \in Table.exact : u[2] \in Descs /\ u[2][1] \in DOMAIN rules
    BY <1>2 DEF TableOK, KeyOK
  <2>3. \A j \in DOMAIN Table.list :
           Table.list[j].desc \in Descs /\ Table.list[j].desc[1] \in DOMAIN rules
    BY <1>2 DEF TableOK, ItemOK, Items
  <2>4. \A d \in Descs : d[1] \in DOMAIN rules => Before(d, <<n, 0>>)
    BY <2>1 DEF Before, Descs
  <2>5. Bounded(Table, <<n, 0>>)
    BY <2>2, <2>3, <2>4 DEF Bounded
  <2>6. TableOK(rs, Table)
    BY <1>1, <1>2, RulesGrow
  <2> QED BY <2>5, <2>6
<1>8. /\ TableOK(rs, t) /\ Ordered(t, vs) /\ Kept(Table, t)
      /\ \A i \in 0 .. Len(r.apps) : AnsweredAt(rs, t, vs, n, i)
  <2>1. n = Len(rules) + 1
    BY <1>1
  <2> QED BY <1>2, <1>3, <1>4, <1>5, <1>6, <1>7, <2>1, NewRuleAnswered
<1>9. Complete(rs, t, vs)
  <2> SUFFICES ASSUME NEW v \in Views, NEW ext \in BOOLEAN, NEW x \in Addresses,
                      NEW port \in Ports, NEW a \in 0 .. AnyApp, Clear(rs, v, x, ext, vs),
                      NEW m \in DOMAIN rs, NEW i \in 0 .. Len(rs[m].apps),
                      Entitled(rs, [ip |-> x, port |-> port, app |-> a], <<m, i>>)
               PROVE  Answered(t, v, x, ext, port, a, <<m, i>>)
    BY DEF Complete
  <2>1. CASE m = n
    BY <1>8, <1>6, <2>1 DEF AnsweredAt
  <2>2. CASE m # n
    <3>1. m \in DOMAIN rules /\ rs[m] = rules[m]
      BY <1>6, <2>2
    <3>2. Entitled(rules, [ip |-> x, port |-> port, app |-> a], <<m, i>>)
      BY <3>1 DEF Entitled
    <3>3. Clear(rules, v, x, ext, vs)
      BY <1>6, ClearBefore
    <3>4. Answered(Table, v, x, ext, port, a, <<m, i>>)
      BY <1>5, <3>1, <3>2, <3>3 DEF Complete
    <3> QED BY <1>8, <3>4, KeptEntries
  <2> QED BY <2>1, <2>2
<1>10. Table' = t
  <2>1. t = [exact |-> t.exact, list |-> t.list]
    BY <1>8 DEF TableOK
  <2> QED BY <1>4, <2>1 DEF Table
<1>11. \A v, x, ext : GoodName(v, x, ext, vs)' <=> GoodName(v, x, ext, vs)
  BY <1>2 DEF GoodName, TableUsed, OpenIn, OpenOut, Strict
<1>12. Ordered(t, vs)'
  BY <1>8, <1>11 DEF Ordered
<1>13. Complete(rs, t, vs)'
  BY <1>9, <1>11 DEF Complete, Clear
<1>14. Ordered(Table, seen)' /\ Complete(rules, Table, seen)'
  BY <1>2, <1>10, <1>12, <1>13 DEF Ordered, Complete
<1> QED BY <1>14 DEF OrderInv

\* What OrderInv says of the table dpi_rule_add builds holds for any rules and
\* configurations.
THEOREM OrderInvariant == RSpec => []OrderInv
<1>1. RInit => OrderInv
  <2> SUFFICES ASSUME RInit PROVE OrderInv
    OBVIOUS
  <2>1. rules = << >> /\ Table.exact = {} /\ Table.list = << >>
    BY DEF RInit, Table
  <2>2. \A j \in DOMAIN << >> : FALSE
    OBVIOUS
  <2> QED BY <2>1, <2>2 DEF OrderInv, Ordered, Complete
<1>2. RulesInv /\ OrderInv /\ [RNext]_rvars => OrderInv'
  <2> SUFFICES ASSUME RulesInv, OrderInv, [RNext]_rvars PROVE OrderInv'
    OBVIOUS
  <2>1. ASSUME NEW r \in Rules, NEW ahi \in {0, AnyApp}, AddRule(r, ahi) PROVE OrderInv'
    BY <2>1, AddRuleOrders
  <2>2. CASE UNCHANGED <<cfg, rules, exact, list, seen>>
    <3>1. Table' = Table /\ rules' = rules /\ seen' = seen /\ cfg' = cfg
      BY <2>2 DEF Table
    <3>2. PICK tb, rs, vs : tb = Table /\ rs = rules /\ vs = seen
      OBVIOUS
    <3>3. \A v, x, ext : GoodName(v, x, ext, vs)' <=> GoodName(v, x, ext, vs)
      BY <3>1 DEF GoodName, TableUsed, OpenIn, OpenOut, Strict
    <3>4. Ordered(tb, vs)' /\ Complete(rs, tb, vs)'
      BY <3>2, <3>3 DEF OrderInv, Ordered, Complete, Clear
    <3> QED BY <3>1, <3>2, <3>4 DEF OrderInv, Ordered, Complete
  <2> QED BY <2>1, <2>2 DEF RNext, rvars, CopyConfig
<1> QED BY <1>1, <1>2, RulesInvariant, PTL DEF RSpec

\* A table with its hash map and its list decides every packet as the first matching
\* rule of the message does, for any rules, FQDN records, virtual hosts, ports and
\* applications, when the peer is treated as it was while dpi_rule_add added the rules
\* and no rule for its address alone comes after one for its virtual hosts.
THEOREM FirstMatchWins == RSpec => []FirstMatchDecides
BY RulesInvariant, OrderInvariant, OrderDecides, PTL
=============================================================================
