---------------------------- MODULE MCCellConfig ----------------------------
(***************************************************************************)
(* The configuration files the runs of CellConfig start from: with and     *)
(* without the section cell_cfg, with no, one and two entries of cells,    *)
(* options the checks accept and refuse, an FDD and a TDD band, fixed and  *)
(* dynamic MCS, RV sequences, and bearers of every RLC mode.               *)
(***************************************************************************)
EXTENDS CellConfig, TLC

\* The default pattern: 6 downlink and 3 uplink slots in 5 ms.
MCDefaultTdd ==
    [option \in TddOptions |->
        CASE option = "tdd_ul_dl_cfg.dl_ul_tx_period" -> 5000
          [] option = "tdd_ul_dl_cfg.nof_dl_slots" -> 6
          [] option = "tdd_ul_dl_cfg.nof_ul_slots" -> 3
          [] OTHER -> 0]

\* The default cell of release 23.5: band by the ARFCN, 20 MHz at 15 kHz,
\* one antenna a direction, UE-dedicated search space with DCI formats 0_1
\* and 1_1, MCS from 0 to 28, long PRACH preamble.
MCDefaultCell ==
    [option \in OptionNames |->
        CASE option = "pci" -> 1
          [] option = "dl_arfcn" -> 536020
          [] option = "band" -> NoBand
          [] option = "tdd_ul_dl_cfg" -> FALSE
          [] option \in TddOptions -> MCDefaultTdd[option]
          [] option = "common_scs" -> 0
          [] option = "channel_bandwidth_MHz" -> 20
          [] option \in {"nof_antennas_ul", "nof_antennas_dl", "prach.prach_config_index"} -> 1
          [] option = "plmn" -> "00101"
          [] option = "tac" -> 7
          [] option = "ssb_period" -> 10
          [] option = "pdcch.ss_type" -> "ue_dedicated"
          [] option = "pdcch.dci_format_0_1_and_1_1" -> TRUE
          [] option \in {"pdsch.min_ue_mcs", "pusch.min_ue_mcs", "pdsch.fixed_rar_mcs",
                          "prach.fixed_msg3_mcs", "prach.zero_correlation_zone"} -> 0
          [] option \in {"pdsch.max_ue_mcs", "pusch.max_ue_mcs"} -> 28
          [] option = "pdsch.fixed_sib1_mcs" -> 5
          [] option = "pdsch.rv_sequence" -> <<0, 2, 3, 1>>
          [] option = "pusch.rv_sequence" -> <<0>>
          [] option \in {"prach.prach_root_sequence_index", "pucch.f1_nof_cell_res_sr",
                          "pucch.f2_nof_symbols", "pucch.f2_max_nof_rbs"} -> 1
          [] option = "prach.max_msg3_harq_retx" -> 4
          [] option = "prach.total_nof_ra_preambles" -> 64
          [] option \in {"pucch.f1_nof_ue_res_harq", "pucch.f1_nof_cyclic_shifts"} -> 3
          [] option = "pucch.f2_nof_ue_res_harq" -> 6
          [] option = "pucch.f1_nof_symbols" -> 14
          [] option = "pucch.f2_max_payload" -> 11
          [] option = "pucch.f2_max_code_rate" -> "dot_25"
          [] option \in {"pucch.f1_enable_occ", "pucch.f1_intraslot_freq_hop",
                          "pucch.f2_intraslot_freq_hop"} -> FALSE
          [] option = "pdsch.nof_harqs" -> 16
          [] option \in {"pdsch.max_consecutive_kos", "pusch.max_consecutive_kos"} -> 100
          [] option \in {"pdsch.mcs_table", "pusch.mcs_table"} -> "qam64"
          [] option = "prach.prach_frequency_start" -> Computed]

MCBands == {"n7", "n78"}
MCBandOfArfcn == (536020 :> "n7") @@ (632628 :> "n78")
MCDuplexOf == ("n7" :> "FDD") @@ ("n78" :> "TDD")

\* TS 38.211, tables 6.3.3.2-2 and 6.3.3.2-3: index 1 is format 0 in both,
\* index 70 is format 3 in paired and format A1 in unpaired spectrum.
MCLongPreambles == {<<"FDD", 1>>, <<"TDD", 1>>, <<"FDD", 70>>}

NoSection == <<>>

\* Sections cell_cfg: a TDD cell, a fixed MCS with spellings in capitals,
\* a common search space with and without the DCI formats it cannot have,
\* a short preamble, and values the checks refuse.
MCCommonSections ==
    {NoSection,
     ("band" :> "n78") @@ ("dl_arfcn" :> 632628) @@ ("common_scs" :> 30) @@ ("plmn" :> "00102")
         @@ ("tac" :> 9) @@ ("tdd_ul_dl_cfg.dl_ul_tx_period" :> 2500)
         @@ ("tdd_ul_dl_cfg.nof_dl_slots" :> 3) @@ ("tdd_ul_dl_cfg.nof_ul_slots" :> 1)
         @@ ("prach.prach_config_index" :> 70) @@ ("prach.zero_correlation_zone" :> 15),
     ("dl_arfcn" :> 632628) @@ ("nof_antennas_dl" :> 2) @@ ("channel_bandwidth_MHz" :> 25)
         @@ ("pusch.rv_sequence" :> <<0, 2, 3, 1>>) @@ ("pdsch.rv_sequence" :> <<0, 3>>)
         @@ ("prach.max_msg3_harq_retx" :> 0) @@ ("pucch.f2_max_code_rate" :> "dot25"),
     ("pdsch.min_ue_mcs" :> 10) @@ ("pdsch.max_ue_mcs" :> 10) @@ ("pdsch.mcs_table" :> "QAM256")
         @@ ("pdcch.ss_type" :> "Common") @@ ("pdcch.dci_format_0_1_and_1_1" :> FALSE)
         @@ ("pusch.min_ue_mcs" :> 28) @@ ("pusch.max_ue_mcs" :> 4) @@ ("prach.fixed_msg3_mcs" :> 28),
     ("pdcch.ss_type" :> "common") @@ ("pusch.mcs_table" :> "qam256"),
     ("channel_bandwidth_MHz" :> 35),
     ("tac" :> 16777214) @@ ("ssb_period" :> 20),
     ("pusch.rv_sequence" :> <<0, 4>>),
     ("pdsch.fixed_sib1_mcs" :> 29) @@ ("pucch.f1_nof_cyclic_shifts" :> 5)}

\* Entries of cells that write options every translator takes from the cell.
MCPerCellSections ==
    {NoSection,
     ("pci" :> 2) @@ ("nof_antennas_dl" :> 2) @@ ("nof_antennas_ul" :> 2),
     ("prach.prach_config_index" :> 70) @@ ("prach.prach_frequency_start" :> 12)
         @@ ("prach.total_nof_ra_preambles" :> 32) @@ ("pucch.f1_nof_symbols" :> 4)
         @@ ("pucch.f1_enable_occ" :> TRUE),
     ("pci" :> 1008)}

\* Entries of cells that write other options as well.
MCOtherCellSections ==
    {("band" :> "n78") @@ ("dl_arfcn" :> 632628) @@ ("prach.prach_config_index" :> 70),
     ("pdsch.min_ue_mcs" :> 5) @@ ("pdsch.max_ue_mcs" :> 5) @@ ("pdsch.mcs_table" :> "qam64"),
     ("plmn" :> "00103") @@ ("common_scs" :> 30) @@ ("tdd_ul_dl_cfg.nof_dl_symbols" :> 13)
         @@ ("pusch.rv_sequence" :> <<1>>)}

MCCellSections == MCPerCellSections \cup MCOtherCellSections

MCCells ==
    {<<>>} \cup {<<c>> : c \in MCCellSections}
        \cup {<<c, d>> : c \in MCPerCellSections \ {("pci" :> 1008)}, d \in MCCellSections}

Qos(five_qi, subsections, mode, pdcp_sn, rlc_sn) ==
    [five_qi |-> five_qi, subsections |-> subsections, mode |-> mode, pdcp_sn |-> pdcp_sn,
     rlc_sn |-> rlc_sn]

\* Bearers: of every RLC mode and of none there is, with sequence numbers
\* the PDCP, the RLC or neither can have, without a subsection, with a 5QI
\* out of range.
MCBearers ==
    {Qos(9, QosSubsections, mode, 12, 12) : mode \in RlcModes \cup {"tm"}}
        \cup {Qos(7, QosSubsections, "am", 18, 6), Qos(7, QosSubsections, "um-bidir", 7, 6),
              Qos(7, QosSubsections, "um-unidir-dl", 18, 5), Qos(9, QosSubsections \ {"pdcp"}, "am", 12, 12),
              Qos(256, QosSubsections, "am", 12, 12)}

MCQos == {<<>>} \cup {<<q>> : q \in MCBearers} \cup {<<p, q>> : p, q \in MCBearers}

\* What code that is not in the repository may refuse.
MCValidators ==
    {"is_valid_configuration", "get_ssb_coreset0_freq_location", "make_default_du_cell_config",
     "is_du_cell_config_valid", "is_valid_upper_phy_config", "is_scheduler_expert_config_valid"}

File(cell_cfg, cells, qos, rejected_by) ==
    [cell_cfg |-> cell_cfg, cells |-> cells, qos |-> qos, rejected_by |-> rejected_by]

\* Every section cell_cfg with every list cells; every list qos; every
\* refusal for an FDD and for a TDD cell.
MCConfigFiles ==
    {File(cell_cfg, cells, <<>>, "none") :
        cell_cfg \in {<<>>} \cup {<<s>> : s \in MCCommonSections}, cells \in MCCells}
        \cup {File(<<>>, <<>>, qos, "none") : qos \in MCQos}
        \cup {File(cell_cfg, <<>>, <<>>, rejected_by) :
                 cell_cfg \in {<<>>} \cup {<<s>> : s \in MCCommonSections},
                 rejected_by \in MCValidators}

=============================================================================
