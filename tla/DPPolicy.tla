----------------------------- MODULE DPPolicy -----------------------------
(***************************************************************************)
(* How the data plane installs a policy while packets are judged by it     *)
(* (internal/dp/dpi/dpi_policy.c, internal/dp/ctrl/ctrl.c).  One control   *)
(* thread receives the messages of the agent: it stages a rule table,      *)
(* hands it to the endpoints of a list of MACs and frees the tables nobody *)
(* uses any more; it also adds, replaces and removes endpoints.  The data  *)
(* threads judge packets inside RCU read sections.  synchronize_rcu() waits*)
(* for the sections that were open when it was called.                     *)
(*                                                                         *)
(* A table is a number: tables are counted as they are created, and 0 is   *)
(* the NULL handle.  Which rules it has is left out (it may allow, deny or *)
(* exempt a session); a message that only adds rules to the staged table   *)
(* changes nothing here.  An endpoint object is <<m, i>>: the two objects  *)
(* of a MAC take turns, as one is freed before the next replacement.       *)
(***************************************************************************)
EXTENDS Naturals, FiniteSets, Sequences

CONSTANTS
    Macs,       \* MACs of workload ports
    Busy,       \* bound: the MACs whose traffic is looked at
    Threads,    \* data threads
    VerMod,     \* versions are counted modulo this (2^16 in the code)
    MaxTables,  \* bound: tables created in a behaviour
    MaxMacs     \* bound: MACs in one policy message

ASSUME DPPolicyAssumption ==
    /\ Busy \subseteq Macs
    /\ VerMod \in Nat /\ VerMod > 1
    /\ MaxTables \in Nat /\ MaxMacs \in Nat

VARIABLES
    epMap,     \* g_ep_map: MAC -> index of its endpoint object, 0 if absent
    epHdl,     \* io_ep_t.policy_hdl of each endpoint object
    epVer,     \* io_ep_t.policy_ver of each endpoint object
    liveEps,   \* endpoint objects that are allocated
    tables,    \* number of tables created so far
    verOf,     \* dpi_policy_hdl_t.ver
    refCnt,    \* dpi_policy_hdl_t.ref_cnt
    live,      \* tables that are allocated
    policyVer, \* the counter policy_ver
    staged,    \* the static hdl of dpi_policy_cfg
    disabled,  \* g_disable_net_policy
    ctl,       \* where the control thread is, and its local variables
    waiting,   \* read sections synchronize_rcu still waits for
    rd,        \* the packet each data thread works on
    sess       \* one session per thread and MAC

eps == <<epMap, epHdl, epVer, liveEps>>
tabs == <<tables, verOf, refCnt, live, policyVer>>
vars == <<eps, tabs, staged, disabled, ctl, waiting, rd, sess>>

Tables == 1 .. MaxTables
Objects == Macs \X {1, 2}
NoSession == [kind |-> "none"]
Blocked == [kind |-> "blocked"]
Pinned == [kind |-> "pinned"]   \* opened without POLICY_DESC_CHECK_VER
Judged(v, t) == [kind |-> "open", ver |-> v, by |-> t]
Idle == [pc |-> "idle"]
Out == [pc |-> "out"]

MacLists == UNION {[1 .. n -> Macs] : n \in 1 .. MaxMacs}
InSection == {t \in Threads : rd[t].pc # "out"}
Ver(h) == IF h = 0 THEN 0 ELSE verOf[h]
Obj(m) == <<m, epMap[m]>>

-----------------------------------------------------------------------------
(* Tables *)

\* GET_NEW_POLICY_VER
NextVer ==
    LET v == (policyVer + 1) % VerMod IN IF v = 0 THEN 1 ELSE v

\* Mutant: the last user only gives its reference back.
DestroyNever(h) ==
    /\ refCnt' = [refCnt EXCEPT ![h] = IF @ > 0 THEN @ - 1 ELSE 0]
    /\ live' = live

\* dpi_policy_hdl_destroy
Destroy(h) ==
    IF refCnt[h] > 1
    THEN refCnt' = [refCnt EXCEPT ![h] = @ - 1] /\ live' = live
    ELSE live' = live \ {h} /\ refCnt' = [refCnt EXCEPT ![h] = 0]

\* dpi_policy_hdl_init, and the version the new table is given.
Create ==
    /\ tables < MaxTables
    /\ tables' = tables + 1
    /\ policyVer' = NextVer
    /\ verOf' = [verOf EXCEPT ![tables + 1] = NextVer]
    /\ live' = (live \ {staged}) \cup {tables + 1}
    /\ staged' = tables + 1

\* The control thread starts to hand table h (0: none) to the endpoints of macs.
HandOut(macs) == ctl' = [pc |-> "hdl", macs |-> macs]

-----------------------------------------------------------------------------
(* Control thread: dpi_policy_cfg, called by dp_ctrl_cfg_policy *)

\* A message with MSG_START: a table left over from a lost MSG_END is destroyed
\* (nobody refers to it) and a new one is staged.
CfgStart(end, macs) ==
    /\ ctl = Idle
    /\ Create
    /\ IF end THEN HandOut(macs) ELSE ctl' = ctl
    /\ UNCHANGED <<eps, refCnt, disabled, waiting, rd, sess>>

\* The last part of a policy that came in several messages; refused when its
\* MSG_START was lost.
CfgEnd(macs) ==
    /\ ctl = Idle
    /\ staged # 0
    /\ HandOut(macs)
    /\ UNCHANGED <<eps, tabs, staged, disabled, waiting, rd, sess>>

\* cmd = CFG_DELETE: drops the staged table; without MSG_START there must be one.
CfgDelete(start, end, macs) ==
    /\ ctl = Idle
    /\ start \/ staged # 0
    /\ live' = live \ {staged}
    /\ staged' = 0
    /\ IF end THEN HandOut(macs) ELSE ctl' = ctl
    /\ UNCHANGED <<eps, tables, verOf, refCnt, policyVer, disabled, waiting, rd, sess>>

-----------------------------------------------------------------------------
(* Control thread: dpi_policy_update of one MAC after the other *)

\* A reader of MAC m that started before the endpoint changed saw another policy.
Unsettle(m) ==
    rd' = [t \in Threads |->
             IF rd[t].pc # "out" /\ rd[t].m = m THEN [rd[t] EXCEPT !.fresh = FALSE]
             ELSE rd[t]]

\* The MAC has no endpoint: it is skipped.
UpdateSkip ==
    /\ ctl.pc = "hdl" /\ ctl.macs # << >>
    /\ epMap[Head(ctl.macs)] = 0
    /\ ctl' = [ctl EXCEPT !.macs = Tail(@)]
    /\ UNCHANGED <<eps, tabs, staged, disabled, waiting, rd, sess>>

\* The reference is counted and policy_hdl is written.
UpdateHdl ==
    /\ ctl.pc = "hdl" /\ ctl.macs # << >>
    /\ LET m == Head(ctl.macs) IN
         /\ epMap[m] # 0
         /\ refCnt' = IF staged = 0 THEN refCnt ELSE [refCnt EXCEPT ![staged] = @ + 1]
         /\ epHdl' = [epHdl EXCEPT ![Obj(m)] = staged]
         /\ ctl' = [pc |-> "ver", macs |-> ctl.macs, old |-> epHdl[Obj(m)]]
         /\ Unsettle(m)
    /\ UNCHANGED <<epMap, epVer, liveEps, tables, verOf, live, policyVer, staged,
                   disabled, waiting, sess>>

\* Mutant: the threshold is off by one.
GraceOffByOne(old) == IF refCnt[old] < 1 THEN InSection ELSE {}

\* The sections the control thread waits for before it drops the old table.
Grace(old) == IF refCnt[old] < 2 THEN InSection ELSE {}

\* policy_ver is written; a previous table is dropped after a grace period, which
\* is waited for only when this was its last user.
UpdateVer ==
    /\ ctl.pc = "ver"
    /\ LET m == Head(ctl.macs) IN
         /\ epVer' = [epVer EXCEPT ![Obj(m)] = Ver(staged)]
         /\ IF ctl.old = 0
            THEN /\ ctl' = [pc |-> "hdl", macs |-> Tail(ctl.macs)]
                 /\ waiting' = waiting
            ELSE /\ ctl' = [ctl EXCEPT !.pc = "drop"]
                 /\ waiting' = Grace(ctl.old)
         /\ Unsettle(m)
    /\ UNCHANGED <<epMap, epHdl, liveEps, tabs, staged, disabled, sess>>

UpdateDrop ==
    /\ ctl.pc = "drop"
    /\ waiting = {}
    /\ Destroy(ctl.old)
    /\ ctl' = [pc |-> "hdl", macs |-> Tail(ctl.macs)]
    /\ UNCHANGED <<eps, tables, verOf, policyVer, staged, disabled, waiting, rd, sess>>

\* Mutant: the static handle is reset only where the table is destroyed.
CfgDoneKeepsStaged ==
    /\ ctl.pc = "hdl" /\ ctl.macs = << >>
    /\ IF staged # 0 /\ refCnt[staged] = 0
       THEN live' = live \ {staged} /\ staged' = 0
       ELSE UNCHANGED <<live, staged>>
    /\ ctl' = Idle
    /\ UNCHANGED <<eps, tables, verOf, refCnt, policyVer, disabled, waiting, rd, sess>>

\* A table that found no endpoint is destroyed at once.
CfgDone ==
    /\ ctl.pc = "hdl" /\ ctl.macs = << >>
    /\ live' = IF staged # 0 /\ refCnt[staged] = 0 THEN live \ {staged} ELSE live
    /\ staged' = 0
    /\ ctl' = Idle
    /\ UNCHANGED <<eps, tables, verOf, refCnt, policyVer, disabled, waiting, rd, sess>>

-----------------------------------------------------------------------------
(* Control thread: dp_ctrl_add_mac and dp_ctrl_del_mac *)

AddMac(m) ==
    /\ ctl = Idle
    /\ epMap[m] = 0
    /\ epMap' = [epMap EXCEPT ![m] = 1]
    /\ epHdl' = [epHdl EXCEPT ![<<m, 1>>] = 0]
    /\ epVer' = [epVer EXCEPT ![<<m, 1>>] = 0]
    /\ liveEps' = liveEps \cup {<<m, 1>>}
    /\ UNCHANGED <<tabs, staged, disabled, ctl, waiting, rd, sess>>

\* The MAC is known: a new object takes over handle and version, and the old one
\* leaves the map ...
ReplaceUnmap(m) ==
    /\ ctl = Idle
    /\ epMap[m] # 0
    /\ LET new == <<m, 3 - epMap[m]>> IN
         /\ epHdl' = [epHdl EXCEPT ![new] = epHdl[Obj(m)]]
         /\ epVer' = [epVer EXCEPT ![new] = epVer[Obj(m)]]
         /\ liveEps' = liveEps \cup {new}
         /\ ctl' = [pc |-> "remap", m |-> m, old |-> Obj(m)]
    /\ epMap' = [epMap EXCEPT ![m] = 0]
    /\ UNCHANGED <<tabs, staged, disabled, waiting, rd, sess>>

\* ... then the new one enters it ...
ReplaceMap ==
    /\ ctl.pc = "remap"
    /\ epMap' = [epMap EXCEPT ![ctl.m] = 3 - ctl.old[2]]
    /\ waiting' = InSection
    /\ ctl' = [ctl EXCEPT !.pc = "replaced"]
    /\ UNCHANGED <<epHdl, epVer, liveEps, tabs, staged, disabled, rd, sess>>

\* ... and the old one is freed after a grace period, its handle pointer cleared
\* first so that the table survives.
ReplaceFree ==
    /\ ctl.pc = "replaced"
    /\ waiting = {}
    /\ epHdl' = [epHdl EXCEPT ![ctl.old] = 0]
    /\ epVer' = [epVer EXCEPT ![ctl.old] = 0]
    /\ liveEps' = liveEps \ {ctl.old}
    /\ ctl' = Idle
    /\ UNCHANGED <<epMap, tabs, staged, disabled, waiting, rd, sess>>

DelUnmap(m) ==
    /\ ctl = Idle
    /\ epMap[m] # 0
    /\ epMap' = [epMap EXCEPT ![m] = 0]
    /\ waiting' = InSection
    /\ ctl' = [pc |-> "deleted", m |-> m, old |-> Obj(m)]
    /\ UNCHANGED <<epHdl, epVer, liveEps, tabs, staged, disabled, rd, sess>>

\* ep_destroy gives the endpoint's reference back; then the data threads are asked
\* to delete the sessions of the MAC, one after the other.
DelFree ==
    /\ ctl.pc = "deleted"
    /\ waiting = {}
    /\ IF epHdl[ctl.old] = 0 THEN UNCHANGED <<refCnt, live>> ELSE Destroy(epHdl[ctl.old])
    /\ epHdl' = [epHdl EXCEPT ![ctl.old] = 0]
    /\ epVer' = [epVer EXCEPT ![ctl.old] = 0]
    /\ liveEps' = liveEps \ {ctl.old}
    /\ ctl' = [pc |-> "ask", m |-> ctl.m, asked |-> Threads]
    /\ UNCHANGED <<epMap, tables, verOf, policyVer, staged, disabled, waiting, rd, sess>>

\* A data thread between two packets answers, or does not in CTRL_REQ_TIMEOUT.
DelSessions(t) ==
    /\ ctl.pc = "ask" /\ t \in ctl.asked
    /\ \/ rd[t] = Out /\ sess' = [sess EXCEPT ![t][ctl.m] = NoSession]
       \/ sess' = sess
    /\ ctl' = IF ctl.asked = {t} THEN Idle ELSE [ctl EXCEPT !.asked = @ \ {t}]
    /\ UNCHANGED <<eps, tabs, staged, disabled, waiting, rd>>

\* dp_ctrl_disable_net_policy
SetDisabled ==
    /\ ctl = Idle
    /\ disabled' = ~disabled
    /\ UNCHANGED <<eps, tabs, staged, ctl, waiting, rd, sess>>

-----------------------------------------------------------------------------
(* Data threads *)

\* dpi_recv_packet opens a read section, takes a snapshot of the switch and finds
\* the endpoint of the packet.  fresh: the endpoint's pair of handle and version
\* is not being written and has not been since.
RecvPacket(t, m) ==
    /\ rd[t] = Out
    /\ epMap[m] # 0
    /\ rd' = [rd EXCEPT ![t] =
                [pc |-> "found", m |-> m, ep |-> Obj(m), hdl |-> 0, off |-> disabled,
                 fresh |-> ~(ctl.pc = "ver" /\ Head(ctl.macs) = m)]]
    /\ UNCHANGED <<eps, tabs, staged, disabled, ctl, waiting, sess>>

\* dpi_session_create and dpi_policy_reeval both read policy_hdl first.
ReadHdl(t) ==
    /\ rd[t].pc = "found"
    /\ rd' = [rd EXCEPT ![t].hdl = epHdl[rd[t].ep], ![t].pc = "read"]
    /\ UNCHANGED <<eps, tabs, staged, disabled, ctl, waiting, sess>>

\* Mutant: the session is stamped with the endpoint's version instead of the one
\* of the table that judged it.
LookupStampsEp(t, verdict) ==
    IF rd[t].hdl = 0 \/ rd[t].off THEN Judged(epVer[rd[t].ep], 0)
    ELSE IF verdict = "deny" THEN Blocked
    ELSE IF verdict = "exempt" THEN Pinned
    ELSE Judged(epVer[rd[t].ep], rd[t].hdl)

\* dpi_policy_lookup_by_key: without a table, or with the policy switched off, the
\* traffic is open; either way the version of the handle is recorded.  Traffic that
\* the table exempts (east-west traffic in a direction it does not apply to) is open
\* for good: its descriptor lacks POLICY_DESC_CHECK_VER.
Lookup(t, verdict) ==
    IF rd[t].hdl = 0 \/ rd[t].off THEN Judged(Ver(rd[t].hdl), 0)
    ELSE IF verdict = "deny" THEN Blocked
    ELSE IF verdict = "exempt" THEN Pinned
    ELSE Judged(Ver(rd[t].hdl), rd[t].hdl)

\* dpi_session_create: a denied flow gets no session and its packet is dropped; a
\* new session is then evaluated like any other, from a second read of the handle.
JudgeNew(t, verdict) ==
    /\ sess[t][rd[t].m] = NoSession
    /\ IF Lookup(t, verdict) = Blocked
       THEN sess' = sess /\ rd' = [rd EXCEPT ![t].pc = "judged", ![t].hdl = 0]
       ELSE /\ sess' = [sess EXCEPT ![t][rd[t].m] = Lookup(t, verdict)]
            /\ rd' = [rd EXCEPT ![t].pc = "found", ![t].hdl = 0]

\* dpi_policy_reeval compares versions, and looks up again when they differ; a
\* denied session stays and blocks its later packets unseen.
JudgeAgain(t, verdict) ==
    /\ sess[t][rd[t].m] # NoSession
    /\ LET s == sess[t][rd[t].m] IN
         sess' = IF s \in {Blocked, Pinned} \/ s.ver = epVer[rd[t].ep] THEN sess
                 ELSE [sess EXCEPT ![t][rd[t].m] = Lookup(t, verdict)]
    /\ rd' = [rd EXCEPT ![t].pc = "judged", ![t].hdl = 0]

Judge(t) ==
    /\ rd[t].pc = "read"
    /\ \E verdict \in {"allow", "deny", "exempt"} : JudgeNew(t, verdict) \/ JudgeAgain(t, verdict)
    /\ UNCHANGED <<eps, tabs, staged, disabled, ctl, waiting>>

\* rcu_read_unlock; the packet is sent or dropped.
Leave(t) ==
    /\ rd[t].pc = "judged"
    /\ rd' = [rd EXCEPT ![t] = Out]
    /\ waiting' = waiting \ {t}
    /\ UNCHANGED <<eps, tabs, staged, disabled, ctl, sess>>

\* The session ends (timeout or TCP close): its end log repeats the action of its
\* last packet and no policy is looked up.
SessionEnd(t, m) ==
    /\ rd[t] = Out
    /\ sess[t][m] # NoSession
    /\ sess' = [sess EXCEPT ![t][m] = NoSession]
    /\ UNCHANGED <<eps, tabs, staged, disabled, ctl, waiting, rd>>

-----------------------------------------------------------------------------
Init ==
    /\ epMap = [m \in Macs |-> 0]
    /\ epHdl = [o \in Objects |-> 0]
    /\ epVer = [o \in Objects |-> 0]
    /\ liveEps = {}
    /\ tables = 0
    /\ verOf = [h \in Tables |-> 0]
    /\ refCnt = [h \in Tables |-> 0]
    /\ live = {}
    /\ policyVer = 0
    /\ staged = 0
    /\ disabled = FALSE
    /\ ctl = Idle
    /\ waiting = {}
    /\ rd = [t \in Threads |-> Out]
    /\ sess = [t \in Threads |-> [m \in Macs |-> NoSession]]

Control ==
    \/ \E end \in BOOLEAN, macs \in MacLists :
         \/ CfgStart(end, macs)
         \/ \E start \in BOOLEAN : CfgDelete(start, end, macs)
    \/ \E macs \in MacLists : CfgEnd(macs)
    \/ UpdateSkip \/ UpdateHdl \/ UpdateVer \/ UpdateDrop \/ CfgDone
    \/ \E m \in Macs : AddMac(m) \/ ReplaceUnmap(m) \/ DelUnmap(m)
    \/ ReplaceMap \/ ReplaceFree \/ DelFree
    \/ \E t \in Threads : DelSessions(t)
    \/ SetDisabled

Data(t) ==
    \/ \E m \in Busy : RecvPacket(t, m) \/ SessionEnd(t, m)
    \/ ReadHdl(t) \/ Judge(t) \/ Leave(t)

Next == Control \/ \E t \in Threads : Data(t)

Spec == Init /\ [][Next]_vars

-----------------------------------------------------------------------------
(* Properties *)

\* The endpoint objects that hold a reference on table h: an object that was
\* replaced passed its reference on.
Holders(h) ==
    {o \in liveEps : epHdl[o] = h /\ ~(ctl.pc \in {"remap", "replaced"} /\ o = ctl.old)}

\* No data thread ever holds a table or an endpoint that was freed: the grace
\* period is left out when the reference count says that the table has other
\* users, and then it must not be freed.
NothingFreedInUse ==
    \A t \in InSection :
        /\ rd[t].ep \in liveEps
        /\ rd[t].pc = "read" => rd[t].hdl \in live \cup {0}

\* Between two messages every table is either being staged or counts exactly the
\* endpoints that refer to it: none is leaked, whatever MACs the messages repeat
\* or name in vain, and none disappears under an endpoint.
TablesAccounted ==
    ctl = Idle =>
        /\ live = ({epHdl[o] : o \in liveEps} \cup {staged}) \ {0}
        /\ \A h \in live : refCnt[h] = Cardinality(Holders(h))

\* The table that later parts of a policy still add rules to is seen by no data
\* thread and by no endpoint.
StagedIsPrivate ==
    ctl = Idle /\ staged # 0 =>
        /\ Holders(staged) = {}
        /\ \A t \in InSection : rd[t].hdl # staged

\* A packet that passes and whose endpoint did not change during its section was
\* judged by the table in force.  Three exceptions are the code's: the versions
\* wrapped around since (VerMod - 1 tables later one has the same number), the
\* session was judged open while the policy was switched off, which switching it
\* on again does not undo, and an earlier table exempted it for good.
PassedByTableInForce ==
    \A t \in Threads :
        LET s == sess[t][rd[t].m]
            h == epHdl[rd[t].ep]
        IN  rd[t].pc = "judged" /\ rd[t].fresh /\ ~rd[t].off /\ s.kind = "open" =>
                \/ s.by = h
                \/ s.by # 0 /\ h - s.by >= VerMod - 1
                \/ s.by = 0 /\ s.ver = Ver(h) /\ h # 0
=============================================================================
