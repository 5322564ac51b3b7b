------------------------ MODULE UeCellGridAllocator ------------------------
(***************************************************************************)
(* lib/scheduler/ue_scheduling/ue_cell_grid_allocator.cpp.  The scheduling *)
(* policy proposes a grant: a UE, a HARQ process, a search space, a time   *)
(* domain resource, CRBs, an aggregation level and an MCS.  The allocator  *)
(* turns it into a PDCCH in the slot being scheduled, a PDSCH k0 slots     *)
(* (a PUSCH k2 slots) later and, for a PDSCH, a HARQ-ACK bit in the UCI of *)
(* the UE k1 slots after it, or returns false.  Each way of returning is   *)
(* an action; a grant is a record                                          *)
(*   [ue, cell, h_id, ss_id, time_res_index, crbs, aggr_lvl, mcs].         *)
(***************************************************************************)
EXTENDS UeEventManager

\* The HARQ-ACK bits of a UCI that is expected to carry a CSI report too.
MaxHarqBitsPerUci == 2

\* is_csi_slot: the UE reports CSI on the PUCCH of slot sl_tx
IsCsiSlot(cfg, sl_tx) ==
    cfg.csi /\ SlotDist(CsiOffset, sl_tx) % CsiPeriod = 0

Ue(g) == ue_db.ue[g.ue]
SsInfo(g) == SearchSpace[g.ss_id]

----------------------------------------------------------------------------
(* allocate_dl_grant *)

HDl(g) == Ue(g).dl_harqs[g.h_id]
PdschTdCfg(g) == SsInfo(g).pdsch_td[g.time_res_index]

\* The slot resources of the PDCCH and of the PDSCH of the grant.
PdcchAlloc(g) == ResAt(g.cell, 0)
PdschAlloc(g) == ResAt(g.cell, PdschTdCfg(g).k0)
PdschSlot(g) == SlotAt(g.cell, PdschTdCfg(g).k0)

\* The checks of the grant against the configuration and the result lists.
DlGrantChecks(g) ==
    /\ Ue(g).pcell = g.cell
    /\ g.ss_id \in Ue(g).cfg.ss
    /\ SsInfo(g).bwp_id = 0
    /\ IsEmpty(HDl(g)) \/ HDl(g).params.dci_type = SsInfo(g).dl_dci
    /\ SsInfo(g).dl_dci = "tc_rnti_f1_0" => g.ss_id = RaSearchSpaceId
    /\ IsDlEnabled(SlotAt(g.cell, 0))
    /\ IsDlEnabled(PdschSlot(g))
    /\ Cardinality(PdschAlloc(g).ue_grants) < MaxUeGrants
    /\ Len(DlPdcchs(PdcchAlloc(g))) < MaxDlPdcchs
    /\ CrbContains(SsInfo(g).dl_crb_lims, g.crbs)
    /\ IsEmpty(HDl(g)) \/ CrbLength(g.crbs) = HDl(g).params.nof_rbs

\* Every check made before anything is reserved.
DlGrantValid(g) ==
    /\ DlGrantChecks(g)
    /\ ~Collides(PdschAlloc(g).dl_grid, PdschTdCfg(g).symbols, g.crbs)

\* The UCI of the UE, k1 slots after the PDSCH, can take the HARQ-ACK bit.
UciSlotUsable(g, k1) ==
    LET uci_slot == SlotAdd(PdschSlot(g), k1)
        uci_alloc == ResAtSlot(g.cell, uci_slot)
    IN  /\ IsFullyUlEnabled(uci_slot)
        /\ ~(/\ IsCsiSlot(Ue(g).cfg, uci_slot)
             /\ ScheduledPdschCounter(uci_alloc, g.ue) >= MaxHarqBitsPerUci)
        /\ HasUciSpace(uci_alloc, g.ue)

\* The k1 candidates of the search space that would do, in order of preference.
UsableK1s(g) == SelectSeq(SsInfo(g).k1s, LAMBDA k1 : UciSlotUsable(g, k1))

\* Reduce the MCS by 1 when CSI-RS takes REs of the PDSCH slot.
AdjustedMcs(g) == IF HasCsiRs(PdschSlot(g)) /\ g.mcs # 0 THEN g.mcs - 1 ELSE g.mcs

\* Mutant: MCS and TBS are computed for a retransmission too.
DlMcsTbsRecomputed(g) == ComputeMcsTbs(AdjustedMcs(g), CrbLength(g.crbs))

\* A new transmission computes MCS and TBS, a retransmission keeps its own.
DlMcsTbs(g) ==
    IF IsEmpty(HDl(g)) THEN ComputeMcsTbs(AdjustedMcs(g), CrbLength(g.crbs))
    ELSE [mcs |-> HDl(g).params.mcs, tbs |-> HDl(g).params.tbs]

\* Mutant: the DAI is read in the slot of the PDSCH.
DlDaiOfPdschSlot(g, k1) == UciDai(PdschAlloc(g), g.ue)

\* The DAI alloc_uci_harq_ue returns: the PDSCHs the UCI slot counted before.
DlDai(g, k1) == UciDai(ResAt(g.cell, PdschTdCfg(g).k0 + k1), g.ue)

\* h_dl after new_tx or new_retx.
DlHarqTx(g, k1, dai) ==
    IF IsEmpty(HDl(g)) THEN NewTx(HDl(g), PdschSlot(g), k1, dai)
    ELSE NewRetx(HDl(g), PdschSlot(g), k1, dai)

\* The DL PDCCH with its DCI; the RV is that of the HARQ process h_dl.
DlPdcchOf(g, k1, dai, h_dl) ==
    [dir |-> "dl", ue |-> g.ue, ss_id |-> g.ss_id, aggr_lvl |-> g.aggr_lvl,
     dci |-> [type |-> SsInfo(g).dl_dci, h_id |-> g.h_id, k |-> PdschTdCfg(g).k0,
              k1 |-> k1, mcs |-> DlMcsTbs(g).mcs, rv |-> GetPdschRv(h_dl),
              dai |-> IF SsInfo(g).dl_dci = "tc_rnti_f1_0" THEN 0 ELSE dai]]

\* Mutant: the RV is read before new_tx or new_retx.
DlPdcchStaleRv(g, k1, dai, h_dl) == DlPdcchOf(g, k1, dai, HDl(g))

DlPdcch(g, k1, dai, h_dl) == DlPdcchOf(g, k1, dai, h_dl)

\* The PDSCH PDU of the UE grant.
Pdsch(g, k1, pdcch, h_dl) ==
    [ue |-> g.ue, h_id |-> g.h_id, ss_id |-> g.ss_id, k1 |-> k1,
     nof_retxs |-> h_dl.nof_retxs, crbs |-> g.crbs,
     symbols |-> PdschTdCfg(g).symbols, mcs |-> pdcch.dci.mcs,
     tbs |-> DlMcsTbs(g).tbs, rv |-> pdcch.dci.rv, new_data |-> h_dl.nof_retxs = 0]

\* A check fails: nothing was reserved.
DlGrantRejected(g) ==
    /\ ~DlGrantValid(g)
    /\ UNCHANGED <<now, ring, ue_db>>

\* No space in PDCCH.
DlNoPdcch(g) ==
    /\ DlGrantValid(g)
    /\ ~HasPdcchSpace(PdcchAlloc(g), g.aggr_lvl)
    /\ UNCHANGED <<now, ring, ue_db>>

\* Mutant: the return without a UCI leaves the PDCCH in the result.
DlNoUciKeepsPdcch(g) ==
    /\ DlGrantValid(g)
    /\ HasPdcchSpace(PdcchAlloc(g), g.aggr_lvl)
    /\ UsableK1s(g) = <<>>
    /\ ring' = [ring EXCEPT ![g.cell][1] = AllocPdcch(@, DlPdcch(g, 0, 0, HDl(g)))]
    /\ UNCHANGED <<now, ue_db>>

\* No k1 candidate gives a UCI: the PDCCH is cancelled.
DlNoUci(g) ==
    /\ DlGrantValid(g)
    /\ HasPdcchSpace(PdcchAlloc(g), g.aggr_lvl)
    /\ UsableK1s(g) = <<>>
    /\ ring' = [ring EXCEPT ![g.cell][1] =
                    CancelLastPdcch(AllocPdcch(@, DlPdcch(g, 0, 0, HDl(g))))]
    /\ UNCHANGED <<now, ue_db>>

\* No MCS with code rate <= 0.95: the PDCCH is cancelled; the HARQ-ACK bit
\* reserved in the UCI stays.
DlNoMcs(g) ==
    /\ DlGrantValid(g)
    /\ HasPdcchSpace(PdcchAlloc(g), g.aggr_lvl)
    /\ UsableK1s(g) # <<>>
    /\ DlMcsTbs(g) = NoMcsTbs
    /\ LET uci_k == PdschTdCfg(g).k0 + Head(UsableK1s(g))
       IN  ring' = [ring EXCEPT
                       ![g.cell][1] = CancelLastPdcch(AllocPdcch(@, DlPdcch(g, 0, 0, HDl(g)))),
                       ![g.cell][uci_k + 1] = AllocUciHarq(@, g.ue)]
    /\ UNCHANGED <<now, ue_db>>

\* The grant is allocated: grid, HARQ process, DCI, PDSCH, transport block.
DlGrantAllocated(g) ==
    /\ DlGrantValid(g)
    /\ HasPdcchSpace(PdcchAlloc(g), g.aggr_lvl)
    /\ UsableK1s(g) # <<>>
    /\ DlMcsTbs(g) # NoMcsTbs
    /\ LET k0 == PdschTdCfg(g).k0
           k1 == Head(UsableK1s(g))
           dai == DlDai(g, k1)
           h_dl == DlHarqTx(g, k1, dai)
           pdcch == DlPdcch(g, k1, dai, h_dl)
           pdsch == Pdsch(g, k1, pdcch, h_dl)
           saved == SaveAllocParams(h_dl, pdcch.dci.type, CrbLength(g.crbs),
                                    pdsch.mcs, pdsch.tbs)
       IN  /\ ring' = [ring EXCEPT
                          ![g.cell][1] = AllocPdcch(@, pdcch),
                          ![g.cell][k0 + k1 + 1] = AllocUciHarq(@, g.ue),
                          ![g.cell][k0 + 1].dl_grid = Fill(@, pdsch.symbols, g.crbs),
                          ![g.cell][k0 + 1].ue_grants = @ \cup {pdsch}]
           /\ ue_db' = [ue_db EXCEPT !.ue[g.ue] =
                  LET u == [@ EXCEPT !.dl_harqs[g.h_id] = saved]
                  IN  IF pdsch.new_data THEN BuildDlTransportBlock(u, pdsch.tbs) ELSE u]
    /\ UNCHANGED now

AllocateDlGrant(g) ==
    \/ DlGrantRejected(g)
    \/ DlNoPdcch(g)
    \/ DlNoUci(g)
    \/ DlNoMcs(g)
    \/ DlGrantAllocated(g)

----------------------------------------------------------------------------
(* allocate_ul_grant *)

HUl(g) == Ue(g).ul_harqs[g.h_id]
PuschTdCfg(g) == SsInfo(g).pusch_td[g.time_res_index]

\* The slot resources of the PUSCH of the grant; its PDCCH is PdcchAlloc(g).
PuschAlloc(g) == ResAt(g.cell, PuschTdCfg(g).k2)
PuschSlot(g) == SlotAt(g.cell, PuschTdCfg(g).k2)

\* The checks of the grant against the configuration and the result lists.
\* The room left for the PDCCH is looked up in the list of DL PDCCHs.
UlGrantChecks(g) ==
    /\ Ue(g).pcell = g.cell
    /\ g.ss_id \in Ue(g).cfg.ss
    /\ SsInfo(g).bwp_id = 0
    /\ IsEmpty(HUl(g)) \/ HUl(g).params.dci_type = SsInfo(g).ul_dci
    /\ IsDlEnabled(SlotAt(g.cell, 0))
    /\ IsUlEnabled(PuschSlot(g))
    /\ Cardinality(PuschAlloc(g).puschs) < MaxPuschs
    /\ Len(DlPdcchs(PdcchAlloc(g))) < MaxDlPdcchs
    /\ CrbContains(SsInfo(g).ul_crb_lims, g.crbs)
    /\ IsEmpty(HUl(g)) \/ CrbLength(g.crbs) = HUl(g).params.nof_rbs

\* Mutant: the PUSCH is not checked against the grid.
UlGrantValidNoCollision(g) == UlGrantChecks(g)

\* Every check made before anything is reserved.
UlGrantValid(g) ==
    /\ UlGrantChecks(g)
    /\ ~Collides(PuschAlloc(g).ul_grid, PuschTdCfg(g).symbols, g.crbs)

\* A new transmission computes MCS and TBS, a retransmission keeps its own.
UlMcsTbs(g) ==
    IF IsEmpty(HUl(g)) THEN ComputeMcsTbs(g.mcs, CrbLength(g.crbs))
    ELSE [mcs |-> HUl(g).params.mcs, tbs |-> HUl(g).params.tbs]

\* Mutant: a retransmission starts the HARQ process anew.
UlHarqTxAnew(g) == NewTx(HUl(g), PuschSlot(g), 0, 0)

\* h_ul after new_tx or new_retx: the CRC of the PUSCH slot acknowledges it.
UlHarqTx(g) ==
    IF IsEmpty(HUl(g)) THEN NewTx(HUl(g), PuschSlot(g), 0, 0)
    ELSE NewRetx(HUl(g), PuschSlot(g), 0, 0)

\* Total DAI of DCI format 0_1 (TS 38.213, Table 9.1.3-2): the PDSCHs the
\* UE acknowledges in the PUSCH slot, minus one, modulo 4; 3 when none.
TotalDai(g) ==
    LET total_harq_ack_in_uci == ScheduledPdschCounter(PuschAlloc(g), g.ue)
    IN  IF SsInfo(g).ul_dci = "c_rnti_f0_1" /\ total_harq_ack_in_uci # 0
        THEN (total_harq_ack_in_uci - 1) % 4
        ELSE 3

\* Mutant: the RV is read before new_tx or new_retx.
UlPdcchStaleRv(g, h_ul) ==
    [dir |-> "ul", ue |-> g.ue, ss_id |-> g.ss_id, aggr_lvl |-> g.aggr_lvl,
     dci |-> [type |-> SsInfo(g).ul_dci, h_id |-> g.h_id, k |-> PuschTdCfg(g).k2,
              k1 |-> 0, mcs |-> UlMcsTbs(g).mcs, rv |-> GetPuschRv(HUl(g)),
              dai |-> IF SsInfo(g).ul_dci = "c_rnti_f0_1" THEN TotalDai(g) ELSE 0]]

\* The UL PDCCH with its DCI; only format 0_1 carries the DAI.
UlPdcch(g, h_ul) ==
    [dir |-> "ul", ue |-> g.ue, ss_id |-> g.ss_id, aggr_lvl |-> g.aggr_lvl,
     dci |-> [type |-> SsInfo(g).ul_dci, h_id |-> g.h_id, k |-> PuschTdCfg(g).k2,
              k1 |-> 0, mcs |-> UlMcsTbs(g).mcs, rv |-> GetPuschRv(h_ul),
              dai |-> IF SsInfo(g).ul_dci = "c_rnti_f0_1" THEN TotalDai(g) ELSE 0]]

\* The PUSCH PDU of the UE grant.
Pusch(g, pdcch, h_ul) ==
    [ue |-> g.ue, h_id |-> g.h_id, ss_id |-> g.ss_id, k2 |-> PuschTdCfg(g).k2,
     nof_retxs |-> h_ul.nof_retxs, crbs |-> g.crbs,
     symbols |-> PuschTdCfg(g).symbols, mcs |-> pdcch.dci.mcs,
     tbs |-> UlMcsTbs(g).tbs, rv |-> pdcch.dci.rv, new_data |-> h_ul.nof_retxs = 0]

\* A check fails: nothing was reserved.
UlGrantRejected(g) ==
    /\ ~UlGrantValid(g)
    /\ UNCHANGED <<now, ring, ue_db>>

\* No space in PDCCH.
UlNoPdcch(g) ==
    /\ UlGrantValid(g)
    /\ ~HasPdcchSpace(PdcchAlloc(g), g.aggr_lvl)
    /\ UNCHANGED <<now, ring, ue_db>>

\* Mutant: the return at no MCS forgets cancel_last_pdcch.
UlNoMcsKeepsPdcch(g) ==
    /\ UlGrantValid(g)
    /\ HasPdcchSpace(PdcchAlloc(g), g.aggr_lvl)
    /\ UlMcsTbs(g) = NoMcsTbs
    /\ ring' = [ring EXCEPT ![g.cell][1] = AllocPdcch(@, UlPdcch(g, HUl(g)))]
    /\ UNCHANGED <<now, ue_db>>

\* No MCS with code rate <= 0.95: the PDCCH is cancelled.
UlNoMcs(g) ==
    /\ UlGrantValid(g)
    /\ HasPdcchSpace(PdcchAlloc(g), g.aggr_lvl)
    /\ UlMcsTbs(g) = NoMcsTbs
    /\ ring' = [ring EXCEPT ![g.cell][1] =
                    CancelLastPdcch(AllocPdcch(@, UlPdcch(g, HUl(g))))]
    /\ UNCHANGED <<now, ue_db>>

\* The grant is allocated: grid, HARQ process, DCI, PUSCH; the UCI of the
\* slot moves to the PUSCH and the scheduling request is served.
UlGrantAllocated(g) ==
    /\ UlGrantValid(g)
    /\ HasPdcchSpace(PdcchAlloc(g), g.aggr_lvl)
    /\ UlMcsTbs(g) # NoMcsTbs
    /\ LET k2 == PuschTdCfg(g).k2
           h_ul == UlHarqTx(g)
           pdcch == UlPdcch(g, h_ul)
           pusch == Pusch(g, pdcch, h_ul)
           saved == SaveAllocParams(h_ul, pdcch.dci.type, CrbLength(g.crbs),
                                    pusch.mcs, pusch.tbs)
       IN  /\ ring' = [ring EXCEPT
                          ![g.cell][1] = AllocPdcch(@, pdcch),
                          ![g.cell][k2 + 1].ul_grid = Fill(@, pusch.symbols, g.crbs),
                          ![g.cell][k2 + 1].puschs = @ \cup {pusch}]
           /\ ue_db' = [ue_db EXCEPT !.ue[g.ue].ul_harqs[g.h_id] = saved,
                                     !.ue[g.ue].sr = FALSE]
    /\ UNCHANGED now

AllocateUlGrant(g) ==
    \/ UlGrantRejected(g)
    \/ UlNoPdcch(g)
    \/ UlNoMcs(g)
    \/ UlGrantAllocated(g)

=============================================================================
