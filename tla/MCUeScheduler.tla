---------------------------- MODULE MCUeScheduler ----------------------------
(***************************************************************************)
(* A small cell for TLC: a TDD period of four slots (two DL, one special,  *)
(* one UL), three RBs and two search spaces.  The UEs, the number of HARQ  *)
(* processes and the grants the policy may propose are chosen by each      *)
(* configuration from the sets defined here.                               *)
(***************************************************************************)
EXTENDS UeScheduler

Crbs(a, b) == [start |-> a, stop |-> b]

\* ss 1: the common search space, fallback DCI formats, the initial BWP;
\* ss 2: a UE-dedicated one, non-fallback formats, the whole carrier.
MCSearchSpace ==
    (1 :> [bwp_id |-> 0, dl_dci |-> "c_rnti_f1_0", ul_dci |-> "c_rnti_f0_0",
           pdsch_td |-> <<[k0 |-> 0, symbols |-> {1, 2}]>>,
           pusch_td |-> <<[k2 |-> 1, symbols |-> {1, 2}]>>,
           k1s |-> <<1, 2>>,
           dl_crb_lims |-> Crbs(0, 2), ul_crb_lims |-> Crbs(0, 2)]) @@
    (2 :> [bwp_id |-> 0, dl_dci |-> "c_rnti_f1_1", ul_dci |-> "c_rnti_f0_1",
           pdsch_td |-> <<[k0 |-> 0, symbols |-> {1, 2}], [k0 |-> 1, symbols |-> {2}]>>,
           pusch_td |-> <<[k2 |-> 1, symbols |-> {1, 2}], [k2 |-> 2, symbols |-> {1}]>>,
           k1s |-> <<1, 2>>,
           dl_crb_lims |-> Crbs(0, 3), ul_crb_lims |-> Crbs(0, 3)])

MCUeCfgs == {[ss |-> {1}, csi |-> FALSE], [ss |-> {1, 2}, csi |-> TRUE]}

\* One RB never reaches code rate 0.95, two and three do up to MCS 1.
MCMaxFeasibleMcs == (1 :> -1) @@ (2 :> 1) @@ (3 :> 1)

Shape(ss, td, crbs, lvl, mcs) ==
    [ss_id |-> ss, time_res_index |-> td, crbs |-> crbs, aggr_lvl |-> lvl, mcs |-> mcs]

\* A fallback grant now, a grant of all RBs and CCEs for the next slot, and
\* a grant of one RB, for which no MCS is feasible.
MCDlGrantShapes ==
    {Shape(1, 1, Crbs(0, 2), 1, 1), Shape(2, 2, Crbs(0, 3), 2, 1), Shape(2, 1, Crbs(2, 3), 1, 0)}

\* A grant two slots ahead, a grant of one RB, and one that needs all CCEs.
MCUlGrantShapes ==
    {Shape(2, 2, Crbs(1, 3), 1, 1), Shape(2, 1, Crbs(2, 3), 1, 0), Shape(2, 1, Crbs(1, 3), 2, 1)}

\* Scenario shapes: one PDSCH shape for the runs about the uplink, and the
\* shapes two UEs compete with.
MCOneDlShape == {Shape(2, 1, Crbs(0, 2), 1, 1)}
MCFewDlShapes == {Shape(1, 1, Crbs(0, 2), 1, 1), Shape(2, 2, Crbs(1, 3), 2, 1)}
MCFewUlShapes == {Shape(1, 1, Crbs(0, 2), 1, 1), Shape(2, 2, Crbs(1, 3), 1, 1)}

MCRv == <<0, 2>>
MCTddPattern == <<"D", "D", "S", "U">>
MCSsIds == {1, 2}
MCCsiRsSlots == {1}
MCReportedAcks == {"ack", "nack"}
MCReportedCrcs == BOOLEAN
MCLcids == {"LCID_SRB0", "LCID_SRB1"}
MCNone == {}
MCOneLcid == {"LCID_SRB1"}
MCNoCsi == {<<>>}
MCOneCfg == {[ss |-> {1, 2}, csi |-> TRUE]}
MCAck == {"ack"}

\* The UEs are interchangeable: nothing in the scheduler tells them apart.
MCSymmetry == Permutations(UEs)

\* The run about two UEs starts when the slot count has wrapped to 0 with
\* every UE created, idle and with data both ways, and follows the cell for
\* MCHorizon slots.
MCHorizon == 6
MCBusyUe(c) ==
    [NewUe(c, CHOOSE cfg \in UeCfgs : TRUE) EXCEPT !.dl_bytes = MaxBytes, !.ul_bytes = MaxBytes]

MCBusyInit ==
    /\ now = [c \in Cells |-> 0]
    /\ ring = [c \in Cells |-> [k \in 1..RingSize |-> EmptySlotRes]]
    /\ ue_db = [ue |-> [u \in UEs |-> MCBusyUe(CHOOSE c \in Cells : TRUE)], to_rem |-> <<>>]
    /\ common_events = [pending |-> <<>>, current |-> <<>>]
    /\ cell_events = [c \in Cells |-> <<>>]
    /\ last_sl = 0
    /\ mac_ue = [u \in UEs |-> "active"]
    /\ srb0_ues = {}
    /\ onair = {}

MCBusySpec == MCBusyInit /\ [][Next]_vars

MCWithinHorizon == \A c \in Cells : now[c] <= MCHorizon

MCCsiPayloads == {<<>>, <<1, 0, 0, 1>>, <<1, 1, 1>>}

=============================================================================
