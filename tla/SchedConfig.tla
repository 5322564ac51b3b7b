---------------------------- MODULE SchedConfig ----------------------------
(***************************************************************************)
(* The configuration the scheduler reads and never writes: the cells and   *)
(* UE indexes, the TDD pattern of a cell, the search spaces a UE may be    *)
(* given, and the link adaptation that turns an MCS candidate and a number *)
(* of RBs into a transport block size.  cell_configuration,                *)
(* search_space_info and compute_dl_mcs_tbs are modelled from sections 3   *)
(* and 4.6 of the specification.                                           *)
(***************************************************************************)
EXTENDS HarqProcess, FiniteSets

CONSTANTS
    Cells,              \* du_cell_index_t of the configured cells
    UEs,                \* du_ue_index_t values the MAC may use
    NofRbs,             \* RBs of the carrier; CRBs are 0..NofRbs-1
    TddPattern,         \* per slot of the period: "D", "U", "S" (special) or "F" (FDD)
    SsIds,              \* search space ids of the cell
    SearchSpace,        \* SsIds -> search_space_info
    RaSearchSpaceId,    \* pdcch_common.ra_search_space_id
    UeCfgs,             \* the dedicated configurations a UE may be given
    CsiPeriod,          \* report_slot_period of the CSI report
    CsiOffset,          \* report_slot_offset of the CSI report
    CsiRsSlots,         \* slots of the TDD period that carry CSI-RS
    MaxMcs,             \* largest MCS index a grant may ask for
    MaxFeasibleMcs      \* 1..NofRbs -> largest MCS with code rate <= 0.95, -1 if none

DlDciFormats == {"tc_rnti_f1_0", "c_rnti_f1_0", "c_rnti_f1_1"}
UlDciFormats == {"tc_rnti_f0_0", "c_rnti_f0_0", "c_rnti_f0_1"}

\* A crb_interval [start, stop).
CrbInterval == [start : 0..NofRbs, stop : 0..NofRbs]

CrbLength(crbs) == IF crbs.stop > crbs.start THEN crbs.stop - crbs.start ELSE 0

\* interval::contains(interval)
CrbContains(lims, crbs) == lims.start <= crbs.start /\ crbs.stop <= lims.stop

ASSUME /\ TddPattern \in Seq({"D", "U", "S", "F"}) /\ TddPattern # <<>>
       /\ NofSlots % Len(TddPattern) = 0
       /\ NofSlots % CsiPeriod = 0
       /\ RaSearchSpaceId \in SsIds
       /\ \A c \in UeCfgs : c.ss \subseteq SsIds /\ c.csi \in BOOLEAN
       /\ \A id \in SsIds :
            /\ SearchSpace[id].dl_dci \in DlDciFormats
            /\ SearchSpace[id].ul_dci \in UlDciFormats
            /\ SearchSpace[id].dl_crb_lims \in CrbInterval
            /\ SearchSpace[id].ul_crb_lims \in CrbInterval
       /\ MaxFeasibleMcs \in [1..NofRbs -> -1..MaxMcs]

TddSlot(s) == TddPattern[(s % Len(TddPattern)) + 1]

\* cell_configuration::is_dl_enabled
IsDlEnabled(s) == TddSlot(s) \in {"D", "S", "F"}

\* cell_configuration::is_ul_enabled
IsUlEnabled(s) == TddSlot(s) \in {"U", "S", "F"}

\* cell_configuration::is_fully_ul_enabled: every symbol of the slot is UL
IsFullyUlEnabled(s) == TddSlot(s) \in {"U", "F"}

\* The slot carries CSI-RS (result.dl.csi_rs is not empty when the UE
\* scheduler runs: the CSI-RS scheduler has run before it).
HasCsiRs(s) == (s % Len(TddPattern)) \in CsiRsSlots

NoMcsTbs == [mcs |-> -1, tbs |-> 0]

\* compute_dl_mcs_tbs / compute_ul_mcs_tbs: the largest MCS not above the
\* candidate whose effective code rate over nof_rbs RBs is at most 0.95, and
\* the transport block size it gives; nothing when there is no such MCS.
ComputeMcsTbs(mcs, nof_rbs) ==
    IF nof_rbs \notin DOMAIN MaxFeasibleMcs \/ MaxFeasibleMcs[nof_rbs] < 0
    THEN NoMcsTbs
    ELSE LET m == IF mcs < MaxFeasibleMcs[nof_rbs] THEN mcs ELSE MaxFeasibleMcs[nof_rbs]
         IN  [mcs |-> m, tbs |-> (m + 1) * nof_rbs]

=============================================================================
