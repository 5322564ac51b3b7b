----------------------------- MODULE UeScheduler -----------------------------
(***************************************************************************)
(* The UE scheduler of a DU as its surroundings see it: the MAC creates,   *)
(* reconfigures and removes UEs and reports buffer states, the PHY reports *)
(* the UCI and the CRC of what was scheduled, each cell gets one slot      *)
(* indication per slot, and in every slot the scheduling policy proposes   *)
(* grants to the grid allocator.  The event manager and the grid allocator *)
(* are the code under lib/scheduler/ue_scheduling; the slot handler, the   *)
(* policy, the MAC and the PHY are modelled from sections 4.9, 5 and 6 of  *)
(* the specification.                                                      *)
(***************************************************************************)
EXTENDS UeCellGridAllocator

CONSTANTS
    MaxFeedbackDelay,   \* slots the PHY may take to report a slot; later it is lost
    DlGrantShapes,      \* [ss_id, time_res_index, crbs, aggr_lvl, mcs] the policy tries
    UlGrantShapes,
    ReportedAcks,       \* HARQ-ACK values the PHY reports
    ReportedCrcs,       \* CRC outcomes the PHY reports
    CsiPayloads,        \* CSI part 1 payloads the PHY reports
    ReconfCfgs,         \* configurations the MAC reconfigures a UE with
    LeavingUes,         \* UEs the MAC removes
    BsrValues,          \* byte counts of the BSRs
    DlBufferStates,     \* byte counts of the DL buffer state indications
    Lcids,              \* logical channels of the DL buffer state indications
    CeUes,              \* UEs the MAC sends MAC CEs to
    SrUes               \* UEs that send scheduling requests

VARIABLES
    onair               \* UCI and CRC the PHY has yet to report

vars == <<now, ring, ue_db, common_events, cell_events, last_sl, mac_ue, srb0_ues, onair>>
sched_vars == <<now, ring, ue_db>>
event_vars == <<common_events, cell_events, last_sl>>

\* Slot numbers wrap: what is compared with the current slot is less than
\* half a wrap away from it, and what a search space asks for is in the ring.
ASSUME /\ MaxFeedbackDelay \in Nat
       /\ 2 * (RingSize - 1) <= NofSlots
       /\ 2 * (MaxFeedbackDelay + 2) < NofSlots
       /\ 2 * MaxAckWait < NofSlots
       /\ \A id \in SsIds :
            /\ \A i \in DOMAIN SearchSpace[id].pdsch_td, j \in DOMAIN SearchSpace[id].k1s :
                   SearchSpace[id].pdsch_td[i].k0 + SearchSpace[id].k1s[j] < RingSize
            /\ \A i \in DOMAIN SearchSpace[id].pusch_td :
                   SearchSpace[id].pusch_td[i].k2 < RingSize

Init ==
    /\ now = [c \in Cells |-> 0]
    /\ ring = [c \in Cells |-> [k \in 1..RingSize |-> EmptySlotRes]]
    /\ ue_db = EmptyUeDb
    /\ EventManagerInit
    /\ mac_ue = [u \in UEs |-> "none"]
    /\ srb0_ues = {}
    /\ onair = {}

----------------------------------------------------------------------------
(* The MAC: one procedure per UE at a time. *)

MacCreatesUe(u, c, cfg) ==
    /\ mac_ue[u] = "none"
    /\ HandleUeCreationRequest(u, c, cfg)
    /\ mac_ue' = [mac_ue EXCEPT ![u] = "creating"]
    /\ UNCHANGED <<sched_vars, srb0_ues, onair>>

MacReconfiguresUe(u, cfg) ==
    /\ mac_ue[u] = "active"
    /\ HandleUeReconfigurationRequest(u, cfg)
    /\ mac_ue' = [mac_ue EXCEPT ![u] = "reconfiguring"]
    /\ UNCHANGED <<sched_vars, srb0_ues, onair>>

MacRemovesUe(u) ==
    /\ mac_ue[u] = "active"
    /\ HandleUeRemovalRequest(u)
    /\ mac_ue' = [mac_ue EXCEPT ![u] = "removing"]
    /\ UNCHANGED <<sched_vars, srb0_ues, onair>>

\* A BSR is decoded from a PUSCH; it may come for a UE that is leaving or gone.
MacReportsBsr(u, bytes) ==
    /\ HandleUlBsrIndication(u, bytes)
    /\ UNCHANGED <<sched_vars, mac_ue, srb0_ues, onair>>

MacReportsDlBufferState(u, lcid, bytes) ==
    /\ mac_ue[u] \in {"active", "reconfiguring"}
    /\ HandleDlBufferStateIndication(u, lcid, bytes)
    /\ UNCHANGED <<sched_vars, mac_ue, srb0_ues, onair>>

MacSendsCe(u) ==
    /\ mac_ue[u] \in {"active", "reconfiguring"}
    /\ HandleDlMacCeIndication(u)
    /\ UNCHANGED <<sched_vars, mac_ue, srb0_ues, onair>>

----------------------------------------------------------------------------
(* The PHY: what a slot asked of the UEs is on air when the slot has left  *)
(* the ring, and is reported within MaxFeedbackDelay slots or never.       *)

OnAirOf(c, sr, slot) ==
    {[kind |-> "crc", cell |-> c, ue |-> p.ue, slot |-> slot, harq_id |-> p.h_id,
      nbits |-> 0, on_pusch |-> TRUE, csi |-> FALSE] : p \in sr.puschs}
    \cup
    {[kind |-> "uci", cell |-> c, ue |-> u, slot |-> slot, harq_id |-> 0,
      nbits |-> sr.uci[u], on_pusch |-> HasPusch(sr, u),
      csi |-> UeDbContains(ue_db, u) /\ IsCsiSlot(ue_db.ue[u].cfg, slot)] :
         u \in {v \in UEs : sr.uci[v] > 0}}

StillOnAir(c, sl_tx) ==
    {x \in onair : x.cell # c \/ SlotDiff(x.slot, sl_tx) <= MaxFeedbackDelay + 1}

PhyReportsCrc(x, success) ==
    /\ x \in onair /\ x.kind = "crc"
    /\ HandleCrcIndication(x.cell, x.slot,
           [ue |-> x.ue, harq_id |-> x.harq_id, tb_crc_success |-> success])
    /\ onair' = onair \ {x}
    /\ UNCHANGED <<sched_vars, mac_ue, srb0_ues>>

\* The UCI PDU of a report: on the PUSCH, or on a PUCCH whose format the
\* CSI report decides.
UciPdu(x, harqs, sr, csi) ==
    [variant |-> IF x.on_pusch THEN "pusch"
                 ELSE IF csi # <<>> THEN "pucch_f2_or_f3_or_f4" ELSE "pucch_f0_or_f1",
     harqs |-> harqs, sr_detected |-> sr, sr_info |-> IF sr THEN <<1>> ELSE <<>>,
     csi_part1 |-> csi]

PhyReportsUci(x, sr, csi) ==
    /\ x \in onair /\ x.kind = "uci"
    /\ sr => ~x.on_pusch /\ x.ue \in SrUes
    /\ csi # <<>> => x.csi
    /\ \E harqs \in [1..x.nbits -> ReportedAcks] :
           HandleUciIndication(x.cell, x.slot, x.ue, UciPdu(x, harqs, sr, csi))
    /\ onair' = onair \ {x}
    /\ UNCHANGED <<sched_vars, mac_ue, srb0_ues>>

\* A scheduling request alone, on the PUCCH of the UL slot before now.
PhyReportsSr(c, u) ==
    /\ mac_ue[u] = "active" /\ u \in SrUes
    /\ IsUlEnabled(SlotAdd(now[c], NofSlots - 1))
    /\ HandleUciIndication(c, SlotAdd(now[c], NofSlots - 1), u,
           [variant |-> "pucch_f0_or_f1", harqs |-> <<>>, sr_detected |-> TRUE,
            sr_info |-> <<>>, csi_part1 |-> <<>>])
    /\ UNCHANGED <<sched_vars, mac_ue, srb0_ues, onair>>

----------------------------------------------------------------------------
(* The slot handler of a cell and the scheduling policy. *)

\* ue_scheduler run_slot up to the policy: the ring moves on, the events of
\* the slot are run, the repository sees the slot and tells the MAC of the
\* UEs it deleted.
SlotIndication(c) ==
    LET sl_tx == SlotAdd(now[c], 1)
        st == RunResult(sl_tx, c)
        deleted == Removable(st.db, c)
    IN  /\ \A d \in Cells : now[d] \in {now[c], sl_tx}
        /\ RingSlotIndication(c)
        /\ Run(sl_tx, c)
        /\ ue_db' = UeDbSlotIndication(st.db, c, sl_tx)
        /\ mac_ue' = FoldSet(LAMBDA u, mac : OnUeDeleteResponse(mac, u), st.mac, deleted)
        /\ srb0_ues' = st.srb0
        /\ onair' = StillOnAir(c, sl_tx) \cup OnAirOf(c, ResAt(c, 0), now[c])

Leaving(u) == u \in Range(ue_db.to_rem)

\* The policy retransmits a HARQ process that asks for it, and starts a new
\* transmission in the first empty one of a UE that has data and stays.
DlHarqCandidates(u) ==
    {h \in DlHarqIds : HasPendingRetx(ue_db.ue[u].dl_harqs[h])}
    \cup {h \in DlHarqIds : /\ h = FindEmptyHarq(ue_db.ue[u].dl_harqs)
                            /\ ue_db.ue[u].dl_bytes > 0
                            /\ ~Leaving(u)}

UlHarqCandidates(u) ==
    {h \in UlHarqIds : HasPendingRetx(ue_db.ue[u].ul_harqs[h])}
    \cup {h \in UlHarqIds : /\ h = FindEmptyHarq(ue_db.ue[u].ul_harqs)
                            /\ PendingUlNewTxBytes(ue_db.ue[u]) > 0
                            /\ ~Leaving(u)}

Grant(u, h, shape) ==
    [ue |-> u, cell |-> ue_db.ue[u].pcell, h_id |-> h, ss_id |-> shape.ss_id,
     time_res_index |-> shape.time_res_index, crbs |-> shape.crbs,
     aggr_lvl |-> shape.aggr_lvl, mcs |-> shape.mcs]

PolicyDlGrant(u, h, shape) ==
    /\ UeDbContains(ue_db, u)
    /\ h \in DlHarqCandidates(u)
    /\ AllocateDlGrant(Grant(u, h, shape))
    /\ UNCHANGED <<event_vars, mac_ue, srb0_ues, onair>>

PolicyUlGrant(u, h, shape) ==
    /\ UeDbContains(ue_db, u)
    /\ h \in UlHarqCandidates(u)
    /\ AllocateUlGrant(Grant(u, h, shape))
    /\ UNCHANGED <<event_vars, mac_ue, srb0_ues, onair>>

Next ==
    \/ \E u \in UEs, c \in Cells, cfg \in UeCfgs : MacCreatesUe(u, c, cfg)
    \/ \E u \in UEs, cfg \in ReconfCfgs : MacReconfiguresUe(u, cfg)
    \/ \E u \in LeavingUes : MacRemovesUe(u)
    \/ \E u \in UEs, bytes \in BsrValues : MacReportsBsr(u, bytes)
    \/ \E u \in UEs, lcid \in Lcids, bytes \in DlBufferStates :
           MacReportsDlBufferState(u, lcid, bytes)
    \/ \E u \in CeUes : MacSendsCe(u)
    \/ \E x \in onair, success \in ReportedCrcs : PhyReportsCrc(x, success)
    \/ \E x \in onair, sr \in BOOLEAN, csi \in CsiPayloads : PhyReportsUci(x, sr, csi)
    \/ \E c \in Cells, u \in UEs : PhyReportsSr(c, u)
    \/ \E c \in Cells : SlotIndication(c)
    \/ \E u \in UEs, h \in DlHarqIds, shape \in DlGrantShapes : PolicyDlGrant(u, h, shape)
    \/ \E u \in UEs, h \in UlHarqIds, shape \in UlGrantShapes : PolicyUlGrant(u, h, shape)

Spec == Init /\ [][Next]_vars

\* A grant of the policy for HARQ process h of UE u that is allocated.
DlGrantGiven(u, h) ==
    \E shape \in DlGrantShapes : PolicyDlGrant(u, h, shape) /\ ue_db' # ue_db
UlGrantGiven(u, h) ==
    \E shape \in UlGrantShapes : PolicyUlGrant(u, h, shape) /\ ue_db' # ue_db

\* The lower layers indicate every slot, and the policy, that goes over the
\* HARQ processes in every slot, does not for ever pass over a process it
\* could serve in slot after slot.
Fairness ==
    /\ WF_vars(\E c \in Cells : SlotIndication(c))
    /\ \A u \in UEs : /\ \A h \in DlHarqIds : SF_vars(DlGrantGiven(u, h))
                      /\ \A h \in UlHarqIds : SF_vars(UlGrantGiven(u, h))

LiveSpec == Spec /\ Fairness

----------------------------------------------------------------------------
(* Types. *)

HarqType ==
    [state : HarqStates, slot_tx : Slot, slot_ack : Slot, nof_retxs : 0..MaxHarqRetxs,
     dai : 0..3,
     params : [dci_type : DlDciFormats \cup UlDciFormats \cup {"none"},
               nof_rbs : 0..NofRbs, mcs : 0..MaxMcs, tbs : 0..((MaxMcs + 1) * NofRbs)]]

UeType ==
    [pcell : Cells, cfg : UeCfgs, dl_harqs : [DlHarqIds -> HarqType],
     ul_harqs : [UlHarqIds -> HarqType], dl_bytes : 0..MaxBytes, ul_bytes : 0..MaxBytes,
     sr : BOOLEAN, kos : 0..MaxKos, cqi : 0..15]

SlotResType ==
    [dl_grid : SUBSET (Nat \X (0..(NofRbs - 1))), ul_grid : SUBSET (Nat \X (0..(NofRbs - 1))),
     pdcchs : Seq([dir : {"dl", "ul"}, ue : UEs, ss_id : SsIds, aggr_lvl : 1..NofCces,
                   dci : [type : DlDciFormats \cup UlDciFormats, h_id : Nat, k : Nat,
                          k1 : Nat, mcs : 0..MaxMcs, rv : 0..3, dai : 0..3]]),
     ue_grants : SUBSET [ue : UEs, h_id : DlHarqIds, ss_id : SsIds, k1 : Nat,
                         nof_retxs : 0..MaxHarqRetxs, crbs : CrbInterval,
                         symbols : SUBSET Nat, mcs : 0..MaxMcs, tbs : Nat, rv : 0..3,
                         new_data : BOOLEAN],
     puschs : SUBSET [ue : UEs, h_id : UlHarqIds, ss_id : SsIds, k2 : Nat,
                      nof_retxs : 0..MaxHarqRetxs, crbs : CrbInterval,
                      symbols : SUBSET Nat, mcs : 0..MaxMcs, tbs : Nat, rv : 0..3,
                      new_data : BOOLEAN],
     uci : [UEs -> 0..MaxPuschHarqBits]]

\* The variables hold what the code's types hold: slots within the wrap,
\* a ring of RingSize slot resources per cell, UE contexts with their HARQ
\* processes, bounded event lists and the MAC's view of every UE index.
TypeOK ==
    /\ now \in [Cells -> Slot]
    /\ ring \in [Cells -> [1..RingSize -> SlotResType]]
    /\ DOMAIN ue_db.ue \subseteq UEs
    /\ \A u \in DOMAIN ue_db.ue : ue_db.ue[u] \in UeType
    /\ ue_db.to_rem \in Seq(UEs)
    /\ \A q \in {common_events.pending, common_events.current} :
           /\ Len(q) <= MaxPendingEvents
           /\ \A i \in DOMAIN q : q[i].ue_index \in UEs \cup {MAX_NOF_DU_UES}
    /\ \A c \in Cells : /\ Len(cell_events[c]) <= MaxPendingEvents
                        /\ \A i \in DOMAIN cell_events[c] :
                               cell_events[c][i].type \in {"crc", "uci"}
    /\ last_sl \in Slot \cup {-1}
    /\ mac_ue \in [UEs -> MacUeStates]
    /\ srb0_ues \subseteq UEs
    /\ \A x \in onair : x.kind \in {"crc", "uci"} /\ x.ue \in UEs /\ x.slot \in Slot

----------------------------------------------------------------------------
(* Safety. *)

Offsets == 0..(RingSize - 1)

PairwiseDisjoint(grants) ==
    \A g1, g2 \in grants :
        g1 # g2 => GrantCells(g1.symbols, g1.crbs) \cap GrantCells(g2.symbols, g2.crbs) = {}

\* Grid exclusivity: in every slot of the ring no two PDSCHs, and no two
\* PUSCHs, share a resource element, and the grid marks exactly what they
\* take.  allocate_dl_grant and allocate_ul_grant test collides() before
\* they fill(); a grant let through doubly would be sent over another.
GridExclusive ==
    \A c \in Cells, k \in Offsets :
        LET sr == ResAt(c, k)
        IN  /\ PairwiseDisjoint(sr.ue_grants) /\ PairwiseDisjoint(sr.puschs)
            /\ sr.dl_grid = UNION {GrantCells(g.symbols, g.crbs) : g \in sr.ue_grants}
            /\ sr.ul_grid = UNION {GrantCells(g.symbols, g.crbs) : g \in sr.puschs}

\* PDCCH and grant go together: every PDCCH of the result announces exactly
\* one PDSCH (PUSCH) of its UE and HARQ process, k0 (k2) slots later, with
\* the MCS and RV of its DCI, and the PDCCHs fit the CORESET.  Every return
\* of allocate_dl_grant and allocate_ul_grant after alloc_dl_pdcch_ue has to
\* complete the grant or call cancel_last_pdcch.
PdcchHasItsGrant ==
    \A c \in Cells, k \in Offsets :
        /\ UsedCces(ResAt(c, k)) <= NofCces
        /\ \A i \in DOMAIN ResAt(c, k).pdcchs :
               LET p == ResAt(c, k).pdcchs[i]
                   at == ResAt(c, k + p.dci.k)
                   grants == IF p.dir = "dl" THEN at.ue_grants ELSE at.puschs
               IN  Cardinality({g \in grants : /\ g.ue = p.ue /\ g.h_id = p.dci.h_id
                                                /\ g.mcs = p.dci.mcs /\ g.rv = p.dci.rv}) = 1

\* What process h of UE u must hold while grant g waits in the ring at `slot'.
Backs(h, g, slot, k1, rvs) ==
    /\ IsWaitingAck(h)
    /\ h.slot_tx = slot /\ h.slot_ack = SlotAdd(slot, k1)
    /\ h.nof_retxs = g.nof_retxs
    /\ h.params.tbs = g.tbs /\ h.params.mcs = g.mcs /\ h.params.nof_rbs = CrbLength(g.crbs)
    /\ g.rv = rvs[(h.nof_retxs % Len(rvs)) + 1]

\* Every PDSCH and PUSCH in the ring is backed by the HARQ process it names:
\* the UE is still there, the process waits for the acknowledgement of that
\* very slot, and the grant carries its transport block size, its MCS and
\* the redundancy version of its transmission count.  allocate_*_grant fills
\* the PDU from the HARQ process after new_tx/new_retx and saves the PDU back
\* into it; the repository must not delete a UE whose grants are out.
GrantMatchesHarq ==
    \A c \in Cells, k \in Offsets :
        /\ \A g \in ResAt(c, k).ue_grants :
               /\ UeDbContains(ue_db, g.ue)
               /\ Backs(ue_db.ue[g.ue].dl_harqs[g.h_id], g, SlotAt(c, k), g.k1, PdschRvSequence)
        /\ \A g \in ResAt(c, k).puschs :
               /\ UeDbContains(ue_db, g.ue)
               /\ Backs(ue_db.ue[g.ue].ul_harqs[g.h_id], g, SlotAt(c, k), 0, PuschRvSequence)

\* The DL HARQ processes of UE u that wait for their acknowledgement at slot s.
WaitingAt(u, s) ==
    {h \in DlHarqIds : /\ IsWaitingAck(ue_db.ue[u].dl_harqs[h])
                       /\ ue_db.ue[u].dl_harqs[h].slot_ack = s}

\* HARQ-ACK bits can be told apart: the processes of a UE that wait for the
\* same UCI slot have different DAIs, and while the slot is in the ring each
\* DAI is the position of a bit the UCI of the slot has room for.
\* handle_harq_ind gives bit i of a report to the process with DAI i mod 4.
AckBitsAreDistinct ==
    \A u \in DOMAIN ue_db.ue, k \in Offsets :
        LET c == ue_db.ue[u].pcell
            waiting == WaitingAt(u, SlotAt(c, k))
        IN  /\ \A h1, h2 \in waiting :
                   h1 # h2 => ue_db.ue[u].dl_harqs[h1].dai # ue_db.ue[u].dl_harqs[h2].dai
            /\ \A h \in waiting : ue_db.ue[u].dl_harqs[h].dai < ResAt(c, k).uci[u]

\* The events of UE u in the common lists.
Queued(u, type) ==
    \E q \in {common_events.pending, common_events.current} :
        \E i \in DOMAIN q : q[i].type = type /\ (q[i].ue_index = u \/
                                                 (type = "ue_creation" /\ q[i].ue = u))

\* No request of the MAC is lost or answered twice: a UE the MAC is
\* creating, reconfiguring or removing has its request in a list or, for a
\* removal, is in the repository on its way out; a UE the MAC holds active
\* is in the repository and stays; a UE the MAC has none of is in neither.
\* process_common runs, keeps or drops every event of the current list, and
\* the callbacks and ue_repository::slot_indication answer the MAC.
NoRequestLost ==
    \A u \in UEs :
        /\ mac_ue[u] # "error"
        /\ mac_ue[u] = "none" => ~UeDbContains(ue_db, u) /\ ~Queued(u, "ue_creation")
        /\ mac_ue[u] = "creating" => ~UeDbContains(ue_db, u) /\ Queued(u, "ue_creation")
        /\ mac_ue[u] = "reconfiguring" => UeDbContains(ue_db, u) /\ Queued(u, "ue_reconf")
        /\ mac_ue[u] = "active" => UeDbContains(ue_db, u) /\ ~Leaving(u)
        /\ mac_ue[u] = "removing" =>
               UeDbContains(ue_db, u) /\ (Queued(u, "ue_rem") \/ Leaving(u))

\* A HARQ process goes from h to h2 by a retransmission.
Retransmitted(h, h2) == HasPendingRetx(h) /\ IsWaitingAck(h2)

\* A retransmission sends the transport block that was sent before: same
\* size, MCS, number of RBs and DCI format, one transmission more, and never
\* more than max_nof_harq_retxs of them.  allocate_*_grant reuses
\* last_alloc_params for a process that is not empty and refuses a grant of
\* another length or DCI format.
RetxKeepsTransportBlock ==
    [][\A u \in DOMAIN ue_db.ue \cap DOMAIN ue_db'.ue :
          /\ \A h \in DlHarqIds :
                 LET old == ue_db.ue[u].dl_harqs[h]
                     new == ue_db'.ue[u].dl_harqs[h]
                 IN  Retransmitted(old, new) =>
                         /\ new.params = old.params
                         /\ new.nof_retxs = old.nof_retxs + 1 /\ new.nof_retxs <= MaxHarqRetxs
          /\ \A h \in UlHarqIds :
                 LET old == ue_db.ue[u].ul_harqs[h]
                     new == ue_db'.ue[u].ul_harqs[h]
                 IN  Retransmitted(old, new) =>
                         /\ new.params = old.params
                         /\ new.nof_retxs = old.nof_retxs + 1 /\ new.nof_retxs <= MaxHarqRetxs
      ]_vars

\* A UE the MAC removes is deleted in the end: its HARQ processes are
\* acknowledged, time out or use up their retransmissions, and
\* ue_repository::slot_indication then erases it and answers the MAC.
RemovalCompletes ==
    \A u \in UEs : (mac_ue[u] = "removing") ~> (mac_ue[u] = "none")

\* Section 4.6 of the specification asks for a full rollback when a step of
\* a grant fails ("undo PDCCH+PUCCH"), so that the HARQ-ACK bits a UCI slot
\* counts for a UE are the PDSCHs of the UE that wait for that slot.
\* allocate_dl_grant returns on "no MCS" after cancel_last_pdcch alone.
HarqBitsMatchPdschs ==
    \A c \in Cells, k \in Offsets, u \in UEs :
        ResAt(c, k).uci[u] =
            IF UeDbContains(ue_db, u) /\ ue_db.ue[u].pcell = c
            THEN Cardinality(WaitingAt(u, SlotAt(c, k)))
            ELSE 0

=============================================================================
