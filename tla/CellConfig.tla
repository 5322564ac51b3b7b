----------------------------- MODULE CellConfig -----------------------------
(***************************************************************************)
(* How the gNB application gets the configuration of its cells and         *)
(* bearers at start-up.  The schema (apps/gnb/gnb_appconfig_cli11_schema   *)
(* .cpp) parses the section cell_cfg into the common cell, copies the      *)
(* common cell into every cell, parses the sections of the list cells into *)
(* the cells and the list qos into the bearers; the translators            *)
(* (apps/gnb/gnb_appconfig_translators.cpp) then generate from             *)
(* gnb_appconfig the configurations of the CU-CP, the DU cells, the upper  *)
(* PHY, the MAC and the scheduler, or terminate the application.           *)
(* A cell is a function from the names of its options to what they hold;   *)
(* a section of the file is a function from the options it writes to what  *)
(* it writes.  Options without a check that are copied and read by nobody  *)
(* the properties tell apart (gains, logging) are left out.  The           *)
(* translators are steps in the order of their file.                       *)
(***************************************************************************)
EXTENDS Integers, Sequences, FiniteSets

CONSTANTS
    ConfigFiles,        \* the configuration files the application may be started with
    DefaultCell,        \* base_cell_appconfig as gnb_appconfig.h initialises it
    DefaultTdd,         \* tdd_ul_dl_appconfig as gnb_appconfig.h initialises it
    Bands,              \* nr_band
    BandOfArfcn,        \* band_helper::get_band_from_dl_arfcn
    DuplexOf,           \* band_helper::get_duplex_mode
    LongPreambles       \* <<duplex, prach_config_index>> whose format is_long_preamble

VARIABLES
    file,               \* the configuration file of this start
    gnb_cfg,            \* gnb_appconfig: common_cell_cfg, cells_cfg, qos_cfg
    generated,          \* what the translators have returned
    pc,                 \* the callback or translator the start-up is at
    error               \* why the application terminated, "none" if it has not

vars == <<file, gnb_cfg, generated, pc, error>>

----------------------------------------------------------------------------
(* What the schema accepts. *)

\* An optional without a value.
NoBand == "none"
NoTdd == "none"

\* The options of the sections of a cell, by the names of the file, the
\* section before the dot.
McsOptions ==
    {"pdsch.min_ue_mcs", "pdsch.max_ue_mcs", "pdsch.fixed_rar_mcs", "pdsch.fixed_sib1_mcs",
     "pusch.min_ue_mcs", "pusch.max_ue_mcs", "prach.fixed_msg3_mcs"}
RvOptions == {"pdsch.rv_sequence", "pusch.rv_sequence"}
PucchOptions ==
    {"pucch.f1_nof_ue_res_harq", "pucch.f1_nof_cell_res_sr", "pucch.f1_nof_symbols",
     "pucch.f1_enable_occ", "pucch.f1_nof_cyclic_shifts", "pucch.f1_intraslot_freq_hop",
     "pucch.f2_nof_ue_res_harq", "pucch.f2_nof_symbols", "pucch.f2_max_nof_rbs",
     "pucch.f2_max_payload", "pucch.f2_max_code_rate", "pucch.f2_intraslot_freq_hop"}
PrachOptions ==
    {"prach.prach_config_index", "prach.prach_root_sequence_index", "prach.zero_correlation_zone",
     "prach.fixed_msg3_mcs", "prach.max_msg3_harq_retx", "prach.total_nof_ra_preambles",
     "prach.prach_frequency_start"}
TddOptions ==
    {"tdd_ul_dl_cfg.dl_ul_tx_period", "tdd_ul_dl_cfg.nof_dl_slots", "tdd_ul_dl_cfg.nof_dl_symbols",
     "tdd_ul_dl_cfg.nof_ul_slots", "tdd_ul_dl_cfg.nof_ul_symbols"}

\* What a cell holds: its options, and under "tdd_ul_dl_cfg", which no file
\* writes, whether its optional TDD pattern has a value.
OptionNames ==
    {"pci", "dl_arfcn", "band", "common_scs", "channel_bandwidth_MHz", "nof_antennas_ul",
     "nof_antennas_dl", "plmn", "tac", "ssb_period", "pdcch.ss_type",
     "pdcch.dci_format_0_1_and_1_1", "pdsch.nof_harqs", "pdsch.max_consecutive_kos",
     "pdsch.mcs_table", "pusch.max_consecutive_kos", "pusch.mcs_table", "tdd_ul_dl_cfg"}
        \cup McsOptions \cup RvOptions \cup PucchOptions \cup PrachOptions \cup TddOptions

\* CLI::ignore_case: a spelling is matched in lower case, and IsMember
\* hands on the member it matched.
IgnoreCase(value) ==
    CASE value = "QAM256" -> "qam256"
      [] value = "QAM64" -> "qam64"
      [] value = "Common" -> "common"
      [] OTHER -> value

\* Mutant: the option without its transform.
ScsNumerologyInKHz == [value \in {15, 30} |-> value]

\* to_subcarrier_spacing and to_numerology_value: kHz to numerology.
ScsNumerology == [value \in {15, 30} |-> value \div 30]

\* The check of channel_bandwidth_MHz.
ChannelBwCheck(bw) ==
    /\ bw >= 5
    /\ IF bw < 26 THEN bw % 5 = 0 ELSE bw < 101 /\ bw % 10 = 0

\* The check of tac: 0 and 0xfffffe are reserved.
TacCheck(tac) == tac \notin {0, 16777214} /\ tac <= 16777215

\* The names of max_pucch_code_rate the function of f2_max_code_rate knows.
MaxPucchCodeRate ==
    [value \in {"dot08", "dot15", "dot25", "dot35", "dot45", "dot60", "dot80"} |->
        CASE value = "dot08" -> "dot_08" [] value = "dot15" -> "dot_15" [] value = "dot25" -> "dot_25"
          [] value = "dot35" -> "dot_35" [] value = "dot45" -> "dot_45" [] value = "dot60" -> "dot_60"
          [] value = "dot80" -> "dot_80"]

\* CLI::Range and CLI::IsMember of the options of PUCCH that hold a number.
PucchRange ==
    [option \in {"pucch.f1_nof_ue_res_harq", "pucch.f1_nof_cell_res_sr", "pucch.f1_nof_symbols",
                 "pucch.f1_nof_cyclic_shifts", "pucch.f2_nof_ue_res_harq", "pucch.f2_nof_symbols",
                 "pucch.f2_max_nof_rbs", "pucch.f2_max_payload"} |->
        CASE option \in {"pucch.f1_nof_ue_res_harq", "pucch.f2_nof_ue_res_harq"} -> 1 .. 8
          [] option = "pucch.f1_nof_cell_res_sr" -> 1 .. 4
          [] option = "pucch.f1_nof_symbols" -> 4 .. 14
          [] option = "pucch.f1_nof_cyclic_shifts" -> {1, 2, 3, 4, 6, 12}
          [] option = "pucch.f2_nof_symbols" -> 1 .. 2
          [] option = "pucch.f2_max_nof_rbs" -> 1 .. 16
          [] option = "pucch.f2_max_payload" -> 1 .. 11]

\* CLI::Range of the options of PRACH but the MCS of Msg3.
PrachRange ==
    [option \in PrachOptions \ McsOptions |->
        CASE option = "prach.prach_config_index" -> 0 .. 255
          [] option = "prach.prach_root_sequence_index" -> 0 .. 837
          [] option = "prach.zero_correlation_zone" -> 0 .. 15
          [] option = "prach.max_msg3_harq_retx" -> 0 .. 4
          [] option = "prach.total_nof_ra_preambles" -> 1 .. 64
          [] option = "prach.prach_frequency_start" -> 0 .. 274]

\* CLI::Range of the options of the TDD pattern; the period, which the file
\* gives in milliseconds, in microseconds.
TddRange ==
    [option \in TddOptions |->
        CASE option = "tdd_ul_dl_cfg.dl_ul_tx_period" -> 0 .. 10000
          [] option \in {"tdd_ul_dl_cfg.nof_dl_slots", "tdd_ul_dl_cfg.nof_ul_slots"} -> 0 .. 80
          [] OTHER -> 0 .. 13]

\* Mutant: the RV sequence of the PUSCH goes unchecked.
OptionCheckButPuschRv(option, value) ==
    CASE option = "pci" -> value \in 0 .. 1007
      [] option = "band" -> value \in Bands
      [] option = "common_scs" -> value \in DOMAIN ScsNumerology
      [] option = "channel_bandwidth_MHz" -> ChannelBwCheck(value)
      [] option = "tac" -> TacCheck(value)
      [] option = "ssb_period" -> value \in {5, 10, 20}
      [] option = "pdcch.ss_type" -> IgnoreCase(value) \in {"common", "ue_dedicated"}
      [] option \in McsOptions -> value \in 0 .. 28
      [] option = "pdsch.nof_harqs" -> value \in {2, 4, 6, 8, 10, 12, 16}
      [] option = "pdsch.rv_sequence" -> \A i \in DOMAIN value : value[i] \in 0 .. 3
      [] option \in {"pdsch.mcs_table", "pusch.mcs_table"} -> IgnoreCase(value) \in {"qam64", "qam256"}
      [] option = "pucch.f2_max_code_rate" -> value \in DOMAIN MaxPucchCodeRate
      [] option \in DOMAIN PucchRange -> value \in PucchRange[option]
      [] option \in DOMAIN PrachRange -> value \in PrachRange[option]
      [] option \in DOMAIN TddRange -> value \in TddRange[option]
      [] OTHER -> TRUE

\* The check of an option of a cell, where it has one.
OptionCheck(option, value) ==
    CASE option = "pci" -> value \in 0 .. 1007
      [] option = "band" -> value \in Bands
      [] option = "common_scs" -> value \in DOMAIN ScsNumerology
      [] option = "channel_bandwidth_MHz" -> ChannelBwCheck(value)
      [] option = "tac" -> TacCheck(value)
      [] option = "ssb_period" -> value \in {5, 10, 20}
      [] option = "pdcch.ss_type" -> IgnoreCase(value) \in {"common", "ue_dedicated"}
      [] option \in McsOptions -> value \in 0 .. 28
      [] option = "pdsch.nof_harqs" -> value \in {2, 4, 6, 8, 10, 12, 16}
      [] option \in RvOptions -> \A i \in DOMAIN value : value[i] \in 0 .. 3
      [] option \in {"pdsch.mcs_table", "pusch.mcs_table"} -> IgnoreCase(value) \in {"qam64", "qam256"}
      [] option = "pucch.f2_max_code_rate" -> value \in DOMAIN MaxPucchCodeRate
      [] option \in DOMAIN PucchRange -> value \in PucchRange[option]
      [] option \in DOMAIN PrachRange -> value \in PrachRange[option]
      [] option \in DOMAIN TddRange -> value \in TddRange[option]
      [] OTHER -> TRUE

\* What an option leaves in its field: the functions of ss_type and
\* mcs_table get the spelling the check matched, and that of mcs_table
\* assigns for "qam256" only; the transform of common_scs gives the
\* numerology, the function of f2_max_code_rate the enumerator of the
\* name; every other option assigns.
OptionValue(option, value, held) ==
    CASE option = "pdcch.ss_type" ->
             IF IgnoreCase(value) = "common" THEN "common" ELSE "ue_dedicated"
      [] option \in {"pdsch.mcs_table", "pusch.mcs_table"} ->
             IF IgnoreCase(value) = "qam256" THEN "qam256" ELSE held
      [] option = "common_scs" -> ScsNumerology[value]
      [] option = "pucch.f2_max_code_rate" -> MaxPucchCodeRate[value]
      [] OTHER -> value

\* A section all of whose options pass their checks.
Accepted(section) == \A option \in DOMAIN section : OptionCheck(option, section[option])

\* A cell after the options of a section were parsed into it.
ParseSection(cell, section) ==
    [option \in OptionNames |->
        IF option \in DOMAIN section
        THEN OptionValue(option, section[option], cell[option]) ELSE cell[option]]

\* The cell with a pattern as tdd_ul_dl_appconfig is constructed, which the
\* optional holds or not.
FreshTdd(cell, has_value) ==
    [option \in OptionNames |->
        CASE option = "tdd_ul_dl_cfg" -> has_value
          [] option \in TddOptions -> DefaultTdd[option]
          [] OTHER -> cell[option]]

\* tdd_ul_dl_verify_callback: a pattern no option of the section wrote is
\* taken back.
TddUlDlVerifyCallback(cell, section) ==
    IF DOMAIN section \cap TddOptions # {} THEN cell ELSE FreshTdd(cell, FALSE)

\* configure_cli11_common_cell_args puts a pattern into the cell before the
\* section is parsed.
EmplaceTdd(cell) == FreshTdd(cell, TRUE)

\* configure_cli11_cells_args and the parse of one entry of cells.
ParseCell(cell, section) == TddUlDlVerifyCallback(ParseSection(EmplaceTdd(cell), section), section)

\* The first reason of a list that is one, "none" when none is.
FirstError(reasons) ==
    IF \A i \in DOMAIN reasons : reasons[i] = "none" THEN "none"
    ELSE reasons[CHOOSE i \in DOMAIN reasons :
                     reasons[i] # "none" /\ \A j \in 1 .. i - 1 : reasons[j] = "none"]

\* The subsections an entry of qos must have (verify_callback).
QosSubsections == {"rlc", "f1u_du", "f1u_cu_up", "pdcp"}

\* Why the parse of an entry of qos ends the application: the check of
\* five_qi, then verify_callback.
QosEntryError(value) ==
    CASE value.five_qi \notin 0 .. 255 -> "parse_error"
      [] value.subsections # QosSubsections -> "qos_subsection_absent"
      [] OTHER -> "none"

\* The names from_string takes for an rlc_mode.
RlcModes == {"am", "um-bidir", "um-unidir-ul", "um-unidir-dl"}

----------------------------------------------------------------------------
(* The translators, as functions of gnb_appconfig. *)

common_cell_cfg == gnb_cfg.common_cell_cfg
cells_cfg == gnb_cfg.cells_cfg

\* msg1_frequency_start when prach_frequency_start has no value: what
\* compute_prach_frequency_start gives.
Computed == -1

\* param.band: the band of the cell, or the band of its ARFCN.
ParamBand(cell) == IF cell["band"] # NoBand THEN cell["band"] ELSE BandOfArfcn[cell["dl_arfcn"]]

\* is_long_preamble of the format prach_configuration_get finds.
IsLongPrach(band, prach_config_index) == <<DuplexOf[band], prach_config_index>> \in LongPreambles

\* The search space of the UE-dedicated configuration.
UeDedicatedSearchSpace ==
    CASE common_cell_cfg["pdcch.ss_type"] = "common" -> [type |-> "common", dci |-> "f0_0_and_f1_0"]
      [] ~common_cell_cfg["pdcch.dci_format_0_1_and_1_1"] ->
             [type |-> "ue_dedicated", dci |-> "f0_0_and_f1_0"]
      [] OTHER -> [type |-> "ue_dedicated", dci |-> "f0_1_and_1_1"]

\* std::round of a period in microseconds times the slots of a subframe,
\* in slots.
PeriodNofSlots(period, scs) == (period * (2 ^ scs) + 500) \div 1000

\* The TDD pattern of a DU cell: that of make_default_du_cell_config, of
\* which a pattern of the common cell overwrites pattern1.
TddUlDlCfgCommon(band, ref_scs) ==
    CASE DuplexOf[band] # "TDD" -> NoTdd
      [] common_cell_cfg["tdd_ul_dl_cfg"] ->
             [dl_ul_tx_period_nof_slots |->
                  PeriodNofSlots(common_cell_cfg["tdd_ul_dl_cfg.dl_ul_tx_period"], ref_scs),
              nof_dl_slots |-> common_cell_cfg["tdd_ul_dl_cfg.nof_dl_slots"],
              nof_dl_symbols |-> common_cell_cfg["tdd_ul_dl_cfg.nof_dl_symbols"],
              nof_ul_slots |-> common_cell_cfg["tdd_ul_dl_cfg.nof_ul_slots"],
              nof_ul_symbols |-> common_cell_cfg["tdd_ul_dl_cfg.nof_ul_symbols"]]
      [] OTHER -> "du_default"

\* The parameters of the PUCCH resources of a DU cell.
PucchCfg(cell) ==
    [nof_ue_pucch_f1_res_harq |-> cell["pucch.f1_nof_ue_res_harq"],
     nof_ue_pucch_f2_res_harq |-> cell["pucch.f2_nof_ue_res_harq"],
     nof_sr_resources |-> cell["pucch.f1_nof_cell_res_sr"],
     f1_params |-> [nof_symbols |-> cell["pucch.f1_nof_symbols"],
                    occ_supported |-> cell["pucch.f1_enable_occ"],
                    nof_cyc_shifts |-> cell["pucch.f1_nof_cyclic_shifts"],
                    intraslot_freq_hopping |-> cell["pucch.f1_intraslot_freq_hop"]],
     f2_params |-> [nof_symbols |-> cell["pucch.f2_nof_symbols"],
                    max_nof_rbs |-> cell["pucch.f2_max_nof_rbs"],
                    max_payload_bits |-> cell["pucch.f2_max_payload"],
                    max_code_rate |-> cell["pucch.f2_max_code_rate"],
                    intraslot_freq_hopping |-> cell["pucch.f2_intraslot_freq_hop"]]]

\* Why generate_du_cell_config reports an error for a cell.
DuCellError(cell) ==
    CASE file.rejected_by = "get_ssb_coreset0_freq_location" -> "no_ssb_location"
      [] /\ common_cell_cfg["pdcch.ss_type"] = "common"
         /\ common_cell_cfg["pdcch.dci_format_0_1_and_1_1"] -> "invalid_dci_format"
      [] /\ DuplexOf[ParamBand(cell)] = "TDD" /\ common_cell_cfg["tdd_ul_dl_cfg"]
         /\ file.rejected_by = "make_default_du_cell_config" -> "tdd_absent"
      [] file.rejected_by = "is_du_cell_config_valid" -> "invalid_du_cell"
      [] OTHER -> "none"

\* CSI-RS is enabled if the PDSCH MCS of the cell is dynamic.
CsiRsEnabled(cell) == cell["pdsch.min_ue_mcs"] # cell["pdsch.max_ue_mcs"]

\* The du_cell_config of a cell.
DuCellConfig(cell) ==
    LET is_long_prach == IsLongPrach(ParamBand(cell), cell["prach.prach_config_index"])
    IN  [pci |-> cell["pci"], scs_common |-> cell["common_scs"],
         channel_bw_mhz |-> cell["channel_bandwidth_MHz"], dl_arfcn |-> cell["dl_arfcn"],
         band |-> ParamBand(cell), csi_rs_enabled |-> CsiRsEnabled(cell),
         plmn |-> cell["plmn"], tac |-> cell["tac"],
         ssb_period |-> common_cell_cfg["ssb_period"],
         dl_nof_ant |-> cell["nof_antennas_dl"], ul_nof_ant |-> cell["nof_antennas_ul"],
         prach_config_index |-> cell["prach.prach_config_index"],
         is_prach_root_seq_index_l839 |-> is_long_prach,
         msg1_scs |-> IF is_long_prach THEN "invalid" ELSE cell["common_scs"],
         msg1_frequency_start |-> cell["prach.prach_frequency_start"],
         search_space |-> UeDedicatedSearchSpace,
         nof_harq_proc |-> common_cell_cfg["pdsch.nof_harqs"],
         pdsch_mcs_table |-> common_cell_cfg["pdsch.mcs_table"],
         pusch_mcs_table |-> common_cell_cfg["pusch.mcs_table"],
         prach_root_seq_index |-> cell["prach.prach_root_sequence_index"],
         zero_correlation_zone_config |-> cell["prach.zero_correlation_zone"],
         total_nof_ra_preambles |-> cell["prach.total_nof_ra_preambles"],
         tdd_ul_dl_cfg_common |-> TddUlDlCfgCommon(ParamBand(cell), cell["common_scs"]),
         pucch_cfg |-> PucchCfg(cell)]

\* generate_du_low_config asks an optional without a value for its value:
\* the cell has a band and the common cell has none.
EmptyBandRead(cell) == cell["band"] # NoBand /\ common_cell_cfg["band"] = NoBand

\* The band generate_du_low_config may take for a cell: that of the common
\* cell, or of its ARFCN; any band where it reads the empty optional.
DuLowBands(cell) ==
    CASE common_cell_cfg["band"] # NoBand -> {common_cell_cfg["band"]}
      [] EmptyBandRead(cell) -> Bands
      [] OTHER -> {BandOfArfcn[common_cell_cfg["dl_arfcn"]]}

\* Mutant: the ports of the two directions taken for each other.
UpperPhyPortsSwapped(cell) == [tx |-> cell["nof_antennas_ul"], rx |-> cell["nof_antennas_dl"]]

\* The antenna ports of the upper PHY of a cell.
UpperPhyPorts(cell) == [tx |-> cell["nof_antennas_dl"], rx |-> cell["nof_antennas_ul"]]

\* The upper_phy_config of the cell at index i with the band taken for it.
UpperPhyConfig(i, band) ==
    LET cell == cells_cfg[i]
        nof_slots_per_subframe == 2 ^ common_cell_cfg["common_scs"]
    IN  [sector_id |-> i - 1,
         nof_tx_ports |-> UpperPhyPorts(cell).tx, nof_rx_ports |-> UpperPhyPorts(cell).rx,
         nof_slots_dl_rg |-> 8 * nof_slots_per_subframe,
         nof_slots_ul_rg |-> 8 * nof_slots_per_subframe,
         nof_prach_buffer |-> nof_slots_per_subframe,
         is_prach_long_format |-> IsLongPrach(band, cell["prach.prach_config_index"]),
         active_scs |-> cells_cfg[1]["common_scs"],
         bw_rb |-> [channel_bw_mhz |-> cell["channel_bandwidth_MHz"], scs |-> cell["common_scs"]]]

\* pdcp_sn_size_from_uint: the sizes of a PDCP sequence number.
PdcpSnSizes == {12, 18}

\* from_number: the sizes of the sequence number of an RLC mode; none is
\* read for a unidirectional UM bearer.
RlcSnSizes(mode) ==
    CASE mode = "um-bidir" -> {6, 12}
      [] mode = "am" -> {12, 18}
      [] OTHER -> Int

\* A bearer before the one at i has its 5QI.
Duplicate5qi(i) == \E j \in 1 .. i - 1 : gnb_cfg.qos_cfg[j].five_qi = gnb_cfg.qos_cfg[i].five_qi

\* Why generate_cu_cp_qos_config reports an error for the bearer at i.
CuCpQosError(i) ==
    CASE Duplicate5qi(i) -> "duplicate_5qi"
      [] gnb_cfg.qos_cfg[i].mode \notin RlcModes -> "invalid_rlc_mode"
      [] gnb_cfg.qos_cfg[i].pdcp_sn \notin PdcpSnSizes -> "invalid_pdcp_sn"
      [] OTHER -> "none"

\* Why generate_du_qos_config reports an error for the bearer at i.
DuQosError(i) ==
    CASE Duplicate5qi(i) -> "duplicate_5qi"
      [] gnb_cfg.qos_cfg[i].mode \notin RlcModes -> "invalid_rlc_mode"
      [] gnb_cfg.qos_cfg[i].rlc_sn \notin RlcSnSizes(gnb_cfg.qos_cfg[i].mode) -> "invalid_rlc_sn"
      [] OTHER -> "none"

\* The bearer of the file with a 5QI.
QosOf(five_qi) ==
    CHOOSE qos \in {gnb_cfg.qos_cfg[i] : i \in DOMAIN gnb_cfg.qos_cfg} : qos.five_qi = five_qi

FiveQis == {gnb_cfg.qos_cfg[i].five_qi : i \in DOMAIN gnb_cfg.qos_cfg}

\* Mutant: every bearer that is not bidirectional UM gets the PDCP of AM.
CuCpQosConfigOfBidirOnly(qos) ==
    [rlc_mode |-> IF qos.mode = "um-bidir" THEN "um" ELSE "am", sn_size |-> qos.pdcp_sn]

\* The PDCP configuration of a bearer in the CU-CP.
CuCpQosConfig(qos) ==
    [rlc_mode |-> IF qos.mode = "am" THEN "am" ELSE "um", sn_size |-> qos.pdcp_sn]

\* The RLC configuration of a bearer in the DU.
DuQosConfig(qos) == [mode |-> qos.mode, sn_field_length |-> qos.rlc_sn]

----------------------------------------------------------------------------
(* The start-up. *)

NothingGenerated ==
    [cu_cp |-> <<>>, du_cells |-> <<>>, du_qos |-> <<>>, du_low |-> <<>>, mac |-> <<>>,
     sched |-> <<>>]

Init ==
    /\ file \in ConfigFiles
    /\ gnb_cfg = [common_cell_cfg |-> DefaultCell, cells_cfg |-> <<DefaultCell>>, qos_cfg |-> <<>>]
    /\ generated = NothingGenerated
    /\ pc = "configure_cli11_with_gnb_appconfig_schema"
    /\ error = "none"

\* report_error, and a CLI::ParseError of a check, end the application.
Terminate(reason) ==
    /\ pc' = "terminated"
    /\ error' = reason
    /\ UNCHANGED <<file, gnb_cfg, generated>>

\* A translator has returned.
Return(next, configs) ==
    /\ generated' = configs
    /\ pc' = next
    /\ UNCHANGED <<file, gnb_cfg, error>>

\* configure_cli11_with_gnb_appconfig_schema: the schema of the common cell
\* is set up, which puts a TDD pattern into it.
ConfigureSchema ==
    /\ pc = "configure_cli11_with_gnb_appconfig_schema"
    /\ gnb_cfg' = [gnb_cfg EXCEPT !.common_cell_cfg = EmplaceTdd(@)]
    /\ pc' = "cell_cfg"
    /\ UNCHANGED <<file, generated, error>>

\* Mutant: the common cell is parsed and the cells are left as they were.
CommonCellParsedNotCopied(section) ==
    gnb_cfg' = [gnb_cfg EXCEPT
        !.common_cell_cfg = TddUlDlVerifyCallback(ParseSection(@, section), section)]

\* The section cell_cfg is parsed and its callbacks run.  That of
\* parse_complete_callback comes first and makes every cell the common cell
\* as the section left it, with the pattern the schema put into it; the
\* callback of the section itself comes after it and verifies the pattern
\* of the common cell only.
CommonCellParsed(section) ==
    LET parsed == ParseSection(common_cell_cfg, section)
    IN  gnb_cfg' = [gnb_cfg EXCEPT !.common_cell_cfg = TddUlDlVerifyCallback(parsed, section),
                                   !.cells_cfg = [i \in DOMAIN @ |-> parsed]]

\* The section cell_cfg of the file, if it has one.
ParseCommonCell ==
    /\ pc = "cell_cfg"
    /\ \/ /\ file.cell_cfg = <<>>
          /\ pc' = "cells"
          /\ UNCHANGED <<file, gnb_cfg, generated, error>>
       \/ /\ file.cell_cfg # <<>> /\ ~Accepted(file.cell_cfg[1])
          /\ Terminate("parse_error")
       \/ /\ file.cell_cfg # <<>> /\ Accepted(file.cell_cfg[1])
          /\ CommonCellParsed(file.cell_cfg[1])
          /\ pc' = "cells"
          /\ UNCHANGED <<file, generated, error>>

\* The function of cells prepares the cells from the common cell when the
\* file lists more than there are.
PreparedCells(values) ==
    IF Len(values) > Len(cells_cfg) THEN [i \in 1 .. Len(values) |-> common_cell_cfg] ELSE cells_cfg

\* The list cells of the file, if it has one: every entry is parsed into
\* its cell.
ParseCells ==
    LET values == file.cells
        cells  == PreparedCells(values)
    IN  /\ pc = "cells"
        /\ \/ /\ \E i \in DOMAIN values : ~Accepted(values[i])
              /\ Terminate("parse_error")
           \/ /\ \A i \in DOMAIN values : Accepted(values[i])
              /\ gnb_cfg' = [gnb_cfg EXCEPT !.cells_cfg =
                     [i \in DOMAIN cells |->
                         IF i <= Len(values) THEN ParseCell(cells[i], values[i]) ELSE cells[i]]]
              /\ pc' = "qos"
              /\ UNCHANGED <<file, generated, error>>

\* The list qos of the file: every entry is parsed into a bearer, and
\* verify_callback wants its four subsections.
ParseQos ==
    LET values    == file.qos
        qos_error == FirstError([i \in DOMAIN values |-> QosEntryError(values[i])])
    IN  /\ pc = "qos"
        /\ \/ qos_error # "none" /\ Terminate(qos_error)
           \/ /\ qos_error = "none"
              /\ gnb_cfg' = [gnb_cfg EXCEPT !.qos_cfg =
                     [i \in DOMAIN values |->
                         [five_qi |-> values[i].five_qi, mode |-> values[i].mode,
                          pdcp_sn |-> values[i].pdcp_sn, rlc_sn |-> values[i].rlc_sn]]]
              /\ pc' = "generate_cu_cp_config"
              /\ UNCHANGED <<file, generated, error>>

\* generate_cu_cp_config, with generate_cu_cp_qos_config: the PLMN and the
\* TAC of the common cell and the PDCP of the bearers.
GenerateCuCpConfig ==
    LET qos_error == FirstError([i \in DOMAIN gnb_cfg.qos_cfg |-> CuCpQosError(i)])
    IN  /\ pc = "generate_cu_cp_config"
        /\ \/ qos_error # "none" /\ Terminate(qos_error)
           \/ /\ qos_error = "none" /\ file.rejected_by = "is_valid_configuration"
              /\ Terminate("invalid_cu_cp")
           \/ /\ qos_error = "none" /\ file.rejected_by # "is_valid_configuration"
              /\ Return("generate_du_cell_config", [generated EXCEPT !.cu_cp =
                     <<[plmn |-> common_cell_cfg["plmn"], tac |-> common_cell_cfg["tac"],
                        drb_config |-> [is_default |-> gnb_cfg.qos_cfg = <<>>,
                                        bearers |-> [q \in FiveQis |-> CuCpQosConfig(QosOf(q))]]]>>])

\* generate_du_cell_config: a du_cell_config for every cell, or the error
\* of the first cell that has one.
GenerateDuCellConfig ==
    LET cell_error == FirstError([i \in DOMAIN cells_cfg |-> DuCellError(cells_cfg[i])])
    IN  /\ pc = "generate_du_cell_config"
        /\ \/ cell_error # "none" /\ Terminate(cell_error)
           \/ /\ cell_error = "none"
              /\ Return("generate_du_qos_config", [generated EXCEPT !.du_cells =
                     [i \in DOMAIN cells_cfg |-> DuCellConfig(cells_cfg[i])]])

\* generate_du_qos_config: the RLC of the bearers.
GenerateDuQosConfig ==
    LET qos_error == FirstError([i \in DOMAIN gnb_cfg.qos_cfg |-> DuQosError(i)])
    IN  /\ pc = "generate_du_qos_config"
        /\ \/ qos_error # "none" /\ Terminate(qos_error)
           \/ /\ qos_error = "none"
              /\ Return("generate_du_low_config", [generated EXCEPT !.du_qos =
                     <<[is_default |-> gnb_cfg.qos_cfg = <<>>,
                        bearers |-> [q \in FiveQis |-> DuQosConfig(QosOf(q))]]>>])

\* generate_du_low_config: an upper_phy_config for every cell.  The read of
\* an empty optional ends the application where srsran_assert is compiled
\* in, and gives some band where it is not.
GenerateDuLowConfig ==
    /\ pc = "generate_du_low_config"
    /\ \/ /\ \E i \in DOMAIN cells_cfg : EmptyBandRead(cells_cfg[i])
          /\ Terminate("empty_optional")
       \/ file.rejected_by = "is_valid_upper_phy_config" /\ Terminate("invalid_upper_phy")
       \/ /\ file.rejected_by # "is_valid_upper_phy_config"
          /\ \E band \in [DOMAIN cells_cfg -> Bands] :
                /\ \A i \in DOMAIN cells_cfg : band[i] \in DuLowBands(cells_cfg[i])
                /\ Return("generate_mac_expert_config", [generated EXCEPT !.du_low =
                       [i \in DOMAIN cells_cfg |-> UpperPhyConfig(i, band[i])]])

\* generate_mac_expert_config.
GenerateMacExpertConfig ==
    /\ pc = "generate_mac_expert_config"
    /\ Return("generate_scheduler_expert_config", [generated EXCEPT !.mac =
           <<[max_consecutive_dl_kos |-> common_cell_cfg["pdsch.max_consecutive_kos"],
              max_consecutive_ul_kos |-> common_cell_cfg["pusch.max_consecutive_kos"]]>>])

\* generate_scheduler_expert_config.
GenerateSchedulerExpertConfig ==
    /\ pc = "generate_scheduler_expert_config"
    /\ \/ /\ file.rejected_by = "is_scheduler_expert_config_valid"
          /\ Terminate("invalid_scheduler_expert")
       \/ /\ file.rejected_by # "is_scheduler_expert_config_valid"
          /\ Return("done", [generated EXCEPT !.sched =
                 <<[dl_mcs |-> [min |-> common_cell_cfg["pdsch.min_ue_mcs"],
                                max |-> common_cell_cfg["pdsch.max_ue_mcs"]],
                    pdsch_rv_sequence |-> common_cell_cfg["pdsch.rv_sequence"],
                    ul_mcs |-> [min |-> common_cell_cfg["pusch.min_ue_mcs"],
                                max |-> common_cell_cfg["pusch.max_ue_mcs"]],
                    pusch_rv_sequence |-> common_cell_cfg["pusch.rv_sequence"],
                    rar_mcs_index |-> common_cell_cfg["pdsch.fixed_rar_mcs"],
                    max_nof_msg3_harq_retxs |-> common_cell_cfg["prach.max_msg3_harq_retx"],
                    msg3_mcs_index |-> common_cell_cfg["prach.fixed_msg3_mcs"],
                    sib1_mcs_index |-> common_cell_cfg["pdsch.fixed_sib1_mcs"]]>>])

Next ==
    \/ ConfigureSchema \/ ParseCommonCell \/ ParseCells \/ ParseQos
    \/ GenerateCuCpConfig \/ GenerateDuCellConfig \/ GenerateDuQosConfig
    \/ GenerateDuLowConfig \/ GenerateMacExpertConfig \/ GenerateSchedulerExpertConfig

Spec == Init /\ [][Next]_vars

----------------------------------------------------------------------------
(* Properties. *)

Locations ==
    {"configure_cli11_with_gnb_appconfig_schema", "cell_cfg", "cells", "qos",
     "generate_cu_cp_config", "generate_du_cell_config", "generate_du_qos_config",
     "generate_du_low_config", "generate_mac_expert_config", "generate_scheduler_expert_config",
     "done", "terminated"}

TypeOK ==
    /\ DOMAIN gnb_cfg.common_cell_cfg = OptionNames
    /\ gnb_cfg.cells_cfg # <<>>
    /\ \A i \in DOMAIN gnb_cfg.cells_cfg :
           /\ DOMAIN gnb_cfg.cells_cfg[i] = OptionNames
           /\ gnb_cfg.cells_cfg[i]["pdcch.ss_type"] \in {"common", "ue_dedicated"}
           /\ gnb_cfg.cells_cfg[i]["pdsch.mcs_table"] \in {"qam64", "qam256"}
           /\ gnb_cfg.cells_cfg[i]["common_scs"] \in 0 .. 4
           /\ gnb_cfg.cells_cfg[i]["band"] \in Bands \cup {NoBand}
    /\ pc \in Locations
    /\ (pc = "terminated") = (error # "none")
    /\ Len(generated.cu_cp) <= 1 /\ Len(generated.du_qos) <= 1
    /\ Len(generated.du_cells) \in {0, Len(gnb_cfg.cells_cfg)}
    /\ Len(generated.du_low) \in {0, Len(gnb_cfg.cells_cfg)}

\* What is generated for the parts of the gNB describes the same cells.
\* The DU cell and the upper PHY of a sector have the same antennas, the
\* same numerology and the same length of PRACH preamble; a DU cell has
\* CSI-RS when the scheduler is given a range of MCS to choose from; the
\* CU-CP announces the PLMN and the TAC its cells broadcast.
ConfigsDescribeTheSameCells ==
    /\ \A i \in DOMAIN generated.du_cells \cap DOMAIN generated.du_low :
           LET du_cell == generated.du_cells[i]
               du_low  == generated.du_low[i]
           IN  /\ du_low.nof_tx_ports = du_cell.dl_nof_ant
               /\ du_low.nof_rx_ports = du_cell.ul_nof_ant
               /\ du_low.nof_slots_dl_rg = 8 * (2 ^ du_cell.scs_common)
               /\ du_low.active_scs = du_cell.scs_common
               /\ du_low.is_prach_long_format = du_cell.is_prach_root_seq_index_l839
    /\ \A i \in DOMAIN generated.du_cells :
           /\ \A j \in DOMAIN generated.sched :
                  generated.du_cells[i].csi_rs_enabled
                      <=> generated.sched[j].dl_mcs.min # generated.sched[j].dl_mcs.max
           /\ \A j \in DOMAIN generated.cu_cp :
                  /\ generated.cu_cp[j].plmn = generated.du_cells[i].plmn
                  /\ generated.cu_cp[j].tac = generated.du_cells[i].tac

\* The options every translator takes from the cell they are written for.
PerCellOptions ==
    {"pci", "channel_bandwidth_MHz", "nof_antennas_ul", "nof_antennas_dl",
     "prach.prach_config_index", "prach.prach_frequency_start", "prach.prach_root_sequence_index",
     "prach.zero_correlation_zone", "prach.total_nof_ra_preambles"} \cup PucchOptions

\* The entries of cells write nothing but options every translator takes
\* from the cell.
CellsWritePerCellOptions == \A i \in DOMAIN file.cells : DOMAIN file.cells[i] \subseteq PerCellOptions

\* The configurations agree when the file keeps to the options that are
\* honoured cell by cell: the common cell reaches every cell through the
\* callback of cell_cfg and the function of cells, whether the file has
\* the section, the list, both or none.
ConsumersAgree == CellsWritePerCellOptions => ConfigsDescribeTheSameCells

\* "Sets the cell configuration on a per cell basis, overwriting the
\* default configuration defined by cell_cfg" (the help of cells): the
\* configurations agree whatever an entry of cells writes.
ConsumersAlwaysAgree == ConfigsDescribeTheSameCells

\* The scheduler is configured with what it can work with.  A HARQ process
\* takes the redundancy version of a transmission from
\* rv_sequence[nof_retxs % rv_sequence.size()] (ue_cell.h), and the
\* allocators index the MCS tables with the MCS of the configuration: the
\* sequences have a member and hold versions 0 to 3, every MCS is one of
\* 0 to 28 and Msg3 is retransmitted at most 4 times, whatever the file
\* wrote in pdsch, pusch and prach of cell_cfg and of the entries of cells
\* (the checks of the schema, generate_scheduler_expert_config).
SchedulerConfigIsUsable ==
    \A j \in DOMAIN generated.sched :
        LET cfg == generated.sched[j]
        IN  /\ \A rv_sequence \in {cfg.pdsch_rv_sequence, cfg.pusch_rv_sequence} :
                   rv_sequence \in Seq(0 .. 3) /\ rv_sequence # <<>>
            /\ {cfg.dl_mcs.min, cfg.dl_mcs.max, cfg.ul_mcs.min, cfg.ul_mcs.max, cfg.rar_mcs_index,
                cfg.msg3_mcs_index, cfg.sib1_mcs_index} \subseteq 0 .. 28
            /\ cfg.max_nof_msg3_harq_retxs \in 0 .. 4

\* The CU-CP and the DU know the same bearers, and the PDCP of a bearer is
\* set for the RLC mode its RLC has (generate_cu_cp_qos_config,
\* generate_du_qos_config).
QosConfigsAgree ==
    \A i \in DOMAIN generated.cu_cp, j \in DOMAIN generated.du_qos :
        LET pdcp == generated.cu_cp[i].drb_config
            rlc  == generated.du_qos[j]
        IN  /\ pdcp.is_default = rlc.is_default
            /\ DOMAIN pdcp.bearers = DOMAIN rlc.bearers
            /\ \A q \in DOMAIN pdcp.bearers :
                   (pdcp.bearers[q].rlc_mode = "am") = (rlc.bearers[q].mode = "am")

=============================================================================
