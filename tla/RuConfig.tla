------------------------------ MODULE RuConfig ------------------------------
(***************************************************************************)
(* How the gNB application gets the configuration of its radio unit at     *)
(* start-up: parse_ru_config (apps/gnb/gnb_appconfig_cli11_schema.cpp)     *)
(* decides between the SDR and the Open Fronthaul radio unit, and          *)
(* generate_ru_config (apps/gnb/gnb_appconfig_translators.cpp) fills the   *)
(* configuration of the one chosen, sector by sector, or terminates the    *)
(* application.  A step is a function or a turn of one of its loops over   *)
(* the cells; frequencies, gains and names are left out.                   *)
(***************************************************************************)
EXTENDS Integers, Sequences, SequencesExt, FiniteSets

CONSTANTS
    AppConfigs,         \* what the command line may leave in gnb_appconfig
    MacFields           \* the numbers a field of a MAC address may be

VARIABLES
    config,             \* gnb_appconfig, with sdr_cfg and ofh_cfg of parse_ru_config
    ru_cfg,             \* the alternative config.ru_cfg holds: "sdr" or "ofh"
    out_cfg,            \* ru_configuration
    sector_id,          \* the cell the loop is at
    pc,                 \* the function the start-up is in
    error               \* why the application terminated, "none" if it has not

vars == <<config, ru_cfg, out_cfg, sector_id, pc, error>>

----------------------------------------------------------------------------
(* What the command line accepts. *)

LowPhyThreadProfiles == {"single", "dual", "quad"}
CompressionMethods ==
    {"none", "bfp", "bfp selective", "block scaling", "mu law", "modulation", "modulation selective"}
CompressionBitwidths == 1 .. 16
VlanTags == 1 .. 4094
PortIds == 0 .. 65535

\* The options of the section ru_ofh that hold a number and have a check, by
\* the names of the file: the processing delay, the GPS constants, the
\* bandwidth of the radio unit and the transmission windows.
T1aOptions ==
    {"t1a_max_cp_dl", "t1a_min_cp_dl", "t1a_max_cp_ul", "t1a_min_cp_ul", "t1a_max_up", "t1a_min_up"}
OfhOptionNames == T1aOptions \cup {"max_proc_delay", "gps_alpha", "gps_beta", "ru_bandwidth_MHz"}

\* The optional ru_operating_bw without a value: no bandwidth is 0 MHz.
NoBandwidth == 0

\* The check of ru_bandwidth_MHz.
RuBandwidthCheck(bw) ==
    /\ bw >= 5
    /\ IF bw < 26 THEN bw % 5 = 0 ELSE bw < 101 /\ bw % 10 = 0

\* What the checks of the options let through.
OfhOptionRange ==
    [option \in OfhOptionNames |->
        CASE option = "max_proc_delay" -> 1 .. 30
          [] option = "gps_alpha" -> 0 .. 12288000
          [] option = "gps_beta" -> -32768 .. 32767
          [] option = "ru_bandwidth_MHz" -> {bw \in 0 .. 101 : RuBandwidthCheck(bw)}
          [] OTHER -> 0 .. 1960]

\* The check of an option of ru_ofh.
OfhOptionCheck(option, value) == value \in OfhOptionRange[option]

\* The comparisons configure_cli11_ru_ofh_args makes of the windows, where
\* it declares their options: no minimum above its maximum.
T1aOrdered(options) ==
    /\ options["t1a_min_cp_dl"] <= options["t1a_max_cp_dl"]
    /\ options["t1a_min_cp_ul"] <= options["t1a_max_cp_ul"]
    /\ options["t1a_min_up"] <= options["t1a_max_up"]

BaseCellAppconfigs ==
    [nof_antennas_dl : Nat \ {0}, nof_antennas_ul : Nat \ {0}, common_scs : Nat, channel_bw_mhz : Nat]

\* A slice of device_args between two commas: its key and what follows "=".
DeviceArgs == [key : {"tx_port", "rx_port", "base_srate", ""}, value : STRING]

RuSdrAppconfigs ==
    [device_driver : {"zmq", "uhd"}, device_arguments : Seq(DeviceArgs),
     lphy_executor_profile : LowPhyThreadProfiles, lo_offset_is_normal : BOOLEAN,
     lower_phy_is_valid : BOOLEAN]

RuOfhCellAppconfigs ==
    [ru_mac_address : Seq(MacFields), du_mac_address : Seq(MacFields), vlan_tag : VlanTags,
     ru_prach_port_id : PortIds, ru_ul_port_id : PortIds, ru_dl_port_id : Seq(Nat)]

RuOfhAppconfigs ==
    [compression_method_ul : CompressionMethods, compresion_bitwidth_ul : CompressionBitwidths,
     compression_method_dl : CompressionMethods, compresion_bitwidth_dl : CompressionBitwidths,
     options : [OfhOptionNames -> Int],
     cells : Seq(RuOfhCellAppconfigs), ru_ofh_is_valid : BOOLEAN]

ASSUME \A c \in AppConfigs :
           /\ c.nof_sdr_entries \in Nat /\ c.nof_ofh_entries \in Nat
           /\ c.cells_cfg \in Seq(BaseCellAppconfigs) /\ c.cells_cfg # <<>>
           /\ c.sdr_cfg \in RuSdrAppconfigs /\ c.ofh_cfg \in RuOfhAppconfigs
           /\ DOMAIN c.ofh_section \subseteq OfhOptionNames
           /\ \A option \in DOMAIN c.ofh_section : c.ofh_section[option] \in Int
           /\ DOMAIN c.ofh_section # {} => c.nof_ofh_entries # 0

----------------------------------------------------------------------------
(* The configurations that are generated. *)

NoArgs == ""
RadioChannels == [args : STRING, has_lo_frequency : BOOLEAN]
RuGenericConfigurations ==
    [device_driver : {"none", "zmq", "uhd"},
     baseband_tx_buffer_size_policy : {"half_slot", "single_packet", "slot"},
     baseband_rx_buffer_size_policy : {"half_slot", "single_packet", "slot"},
     sectors : Seq([nof_rx_ports : Nat, nof_tx_ports : Nat]),
     tx_streams : Seq(Seq(RadioChannels)), rx_streams : Seq(Seq(RadioChannels))]

RuOfhSectorConfigurations ==
    [mac_dst_address : [1 .. 6 -> MacFields], mac_src_address : [1 .. 6 -> MacFields], tci : VlanTags,
     ru_prach_port : PortIds, ru_dl_ports : Seq(Nat), ru_ul_port : PortIds]

RuCompressionParams ==
    [type : {"none", "BFP", "bfp_selective", "block_scaling", "mu_law", "modulation", "mod_selective"},
     data_width : CompressionBitwidths]

DuTxWindowTimingParameters ==
    [T1a_max_cp_dl : 0 .. 1960, T1a_min_cp_dl : 0 .. 1960, T1a_max_cp_ul : 0 .. 1960,
     T1a_min_cp_ul : 0 .. 1960, T1a_max_up : 0 .. 1960, T1a_min_up : 0 .. 1960]

RuOfhConfigurations ==
    [sector_configs : Seq(RuOfhSectorConfigurations), max_processing_delay_slots : 1 .. 30,
     gps_Alpha : 0 .. 12288000, gps_Beta : -32768 .. 32767, scs : Nat, bw : Nat,
     ru_operating_bw : Nat, tx_window_timing_params : DuTxWindowTimingParameters,
     ul_compression_params : RuCompressionParams, dl_compression_params : RuCompressionParams]

\* Mutant: the name of the method is taken for the type.
ToCompressionTypeByName(method) == method

ToCompressionType(method) ==
    CASE method = "bfp" -> "BFP"
      [] method = "bfp selective" -> "bfp_selective"
      [] method = "block scaling" -> "block_scaling"
      [] method = "mu law" -> "mu_law"
      [] method = "modulation selective" -> "mod_selective"
      [] OTHER -> method

----------------------------------------------------------------------------
(* The helpers of the translation. *)

\* split_rf_driver_args: the slices between the commas that are not empty.
SplitRfDriverArgs(driver_args) == SelectSeq(driver_args, LAMBDA arg : arg # [key |-> "", value |-> ""])

\* Mutant: every argument is taken for a port.
ExtractZmqPortsOfAnyArg(driver_args, port_id) ==
    LET splitted_args == SplitRfDriverArgs(driver_args)
    IN  [i \in DOMAIN splitted_args |-> splitted_args[i].value]

\* extract_zmq_ports: what follows "=" in the arguments that name port_id.
ExtractZmqPorts(driver_args, port_id) ==
    LET found == SelectSeq(SplitRfDriverArgs(driver_args), LAMBDA arg : arg.key = port_id)
    IN  [i \in DOMAIN found |-> found[i].value]

\* parse_mac_address: sscanf reads up to six fields into data, which is
\* zero before, and says how many.
ParseMacAddress(mac_str) ==
    [ok  |-> Len(mac_str) >= 6,
     mac |-> [i \in 1 .. 6 |-> IF i <= Len(mac_str) THEN mac_str[i] ELSE 0]]

\* The buffer size policies generate_low_phy_config selects.
BufferSizePolicies(sdr) ==
    CASE sdr.device_driver = "zmq" -> [tx |-> "half_slot", rx |-> "half_slot"]
      [] sdr.lphy_executor_profile = "single" -> [tx |-> "single_packet", rx |-> "single_packet"]
      [] OTHER -> [tx |-> "slot", rx |-> "single_packet"]

\* The index of a channel among the ZMQ ports, for the ports of both directions.
ZmqIndex(sector, cell, port_id) == sector * cell.nof_antennas_dl + port_id

\* The channels of a stream: those of the ports of a cell in one direction.
StreamChannels(sector, cell, nof_ports, zmq_addr) ==
    [port \in 1 .. nof_ports |->
        [args |-> IF config.sdr_cfg.device_driver = "zmq"
                  THEN zmq_addr[ZmqIndex(sector, cell, port - 1) + 1] ELSE NoArgs,
         has_lo_frequency |-> config.sdr_cfg.lo_offset_is_normal]]

\* A port of the cell for which the list of ZMQ ports is too short.
ZmqOutOfBounds(sector, cell, nof_ports, zmq_addr) ==
    /\ config.sdr_cfg.device_driver = "zmq"
    /\ \E port_id \in 0 .. nof_ports - 1 : ZmqIndex(sector, cell, port_id) >= Len(zmq_addr)

----------------------------------------------------------------------------
(* The start-up. *)

NoRuConfiguration ==
    [device_driver |-> "none", baseband_tx_buffer_size_policy |-> "slot",
     baseband_rx_buffer_size_policy |-> "slot", sectors |-> <<>>, tx_streams |-> <<>>,
     rx_streams |-> <<>>]

\* The options of ru_ofh after the file: what the file writes stands for
\* what ofh_cfg held.
OfhOptions ==
    [option \in OfhOptionNames |->
        IF option \in DOMAIN config.ofh_section
        THEN config.ofh_section[option] ELSE config.ofh_cfg.options[option]]

\* The section ru_ofh passes the checks of the options it writes.
OfhSectionAccepted ==
    \A option \in DOMAIN config.ofh_section : OfhOptionCheck(option, config.ofh_section[option])

\* parse_ru_config has declared the options of both radio units: the
\* windows ofh_cfg held then were compared, and the file is still to read.
Init ==
    /\ config \in {c \in AppConfigs : T1aOrdered(c.ofh_cfg.options)}
    /\ ru_cfg = "sdr"
    /\ out_cfg = NoRuConfiguration
    /\ sector_id = 0
    /\ pc = "parse_ru_config"
    /\ error = "none"

\* report_error and srsran_terminate end the application.
Terminate(reason) ==
    /\ pc' = "terminated"
    /\ error' = reason
    /\ UNCHANGED <<config, ru_cfg, out_cfg, sector_id>>

\* The file writes an option of ru_ofh its check refuses: the parse ends
\* with a CLI::ParseError.
RuOfhParseError ==
    /\ pc = "parse_ru_config"
    /\ ~OfhSectionAccepted
    /\ Terminate("parse_error")

\* The callback of parse_ru_config: one radio unit, the SDR unless Open
\* Fronthaul was configured.
RuOfhVerifyCallback ==
    /\ pc = "parse_ru_config"
    /\ OfhSectionAccepted
    /\ \/ /\ config.nof_sdr_entries # 0 /\ config.nof_ofh_entries # 0
          /\ Terminate("sdr_and_ofh")
       \/ /\ ~(config.nof_sdr_entries # 0 /\ config.nof_ofh_entries # 0)
          /\ ru_cfg' = IF config.nof_ofh_entries # 0 THEN "ofh" ELSE "sdr"
          /\ pc' = "generate_ru_config"
          /\ UNCHANGED <<config, out_cfg, sector_id, error>>

\* generate_ru_config with an SDR: generate_low_phy_config.
GenerateLowPhyConfig ==
    /\ pc = "generate_ru_config" /\ ru_cfg = "sdr"
    /\ \/ ~config.sdr_cfg.lower_phy_is_valid /\ Terminate("invalid_lower_phy")
       \/ /\ config.sdr_cfg.lower_phy_is_valid
          /\ out_cfg' = [NoRuConfiguration EXCEPT
                 !.baseband_tx_buffer_size_policy = BufferSizePolicies(config.sdr_cfg).tx,
                 !.baseband_rx_buffer_size_policy = BufferSizePolicies(config.sdr_cfg).rx,
                 !.sectors = [s \in DOMAIN config.cells_cfg |->
                                 [nof_rx_ports |-> config.cells_cfg[s].nof_antennas_ul,
                                  nof_tx_ports |-> config.cells_cfg[s].nof_antennas_dl]]]
          /\ sector_id' = 0
          /\ pc' = "generate_radio_config"
          /\ UNCHANGED <<config, ru_cfg, error>>

\* A turn of the loop of generate_radio_config: the streams of a cell.
RadioSector ==
    LET cell        == config.cells_cfg[sector_id + 1]
        zmq_tx_addr == ExtractZmqPorts(config.sdr_cfg.device_arguments, "tx_port")
        zmq_rx_addr == ExtractZmqPorts(config.sdr_cfg.device_arguments, "rx_port")
        tx_fails    == ZmqOutOfBounds(sector_id, cell, cell.nof_antennas_dl, zmq_tx_addr)
        rx_fails    == ZmqOutOfBounds(sector_id, cell, cell.nof_antennas_ul, zmq_rx_addr)
    IN  /\ pc = "generate_radio_config" /\ sector_id < Len(config.cells_cfg)
        /\ \/ tx_fails /\ Terminate("zmq_tx_out_of_bounds")
           \/ ~tx_fails /\ rx_fails /\ Terminate("zmq_rx_out_of_bounds")
           \/ /\ ~tx_fails /\ ~rx_fails
              /\ out_cfg' = [out_cfg EXCEPT
                     !.tx_streams = Append(@, StreamChannels(sector_id, cell, cell.nof_antennas_dl, zmq_tx_addr)),
                     !.rx_streams = Append(@, StreamChannels(sector_id, cell, cell.nof_antennas_ul, zmq_rx_addr))]
              /\ sector_id' = sector_id + 1
              /\ UNCHANGED <<config, ru_cfg, pc, error>>

\* The loop is over: generate_ru_generic_config names the driver and returns.
GenerateRuGenericConfig ==
    /\ pc = "generate_radio_config" /\ sector_id = Len(config.cells_cfg)
    /\ out_cfg' = [out_cfg EXCEPT !.device_driver = config.sdr_cfg.device_driver]
    /\ pc' = "done"
    /\ UNCHANGED <<config, ru_cfg, sector_id, error>>

\* generate_ru_config with Open Fronthaul: generate_ru_ofh_config up to its loop.
GenerateRuOfhConfig ==
    /\ pc = "generate_ru_config" /\ ru_cfg = "ofh"
    /\ out_cfg' = [sector_configs |-> <<>>,
                   max_processing_delay_slots |-> OfhOptions["max_proc_delay"],
                   gps_Alpha |-> OfhOptions["gps_alpha"], gps_Beta |-> OfhOptions["gps_beta"],
                   scs |-> Head(config.cells_cfg).common_scs,
                   bw |-> Head(config.cells_cfg).channel_bw_mhz,
                   ru_operating_bw |-> OfhOptions["ru_bandwidth_MHz"],
                   tx_window_timing_params |->
                       [T1a_max_cp_dl |-> OfhOptions["t1a_max_cp_dl"],
                        T1a_min_cp_dl |-> OfhOptions["t1a_min_cp_dl"],
                        T1a_max_cp_ul |-> OfhOptions["t1a_max_cp_ul"],
                        T1a_min_cp_ul |-> OfhOptions["t1a_min_cp_ul"],
                        T1a_max_up |-> OfhOptions["t1a_max_up"],
                        T1a_min_up |-> OfhOptions["t1a_min_up"]],
                   ul_compression_params |->
                       [type |-> ToCompressionType(config.ofh_cfg.compression_method_ul),
                        data_width |-> config.ofh_cfg.compresion_bitwidth_ul],
                   dl_compression_params |->
                       [type |-> ToCompressionType(config.ofh_cfg.compression_method_dl),
                        data_width |-> config.ofh_cfg.compresion_bitwidth_dl]]
    /\ sector_id' = 0
    /\ pc' = "generate_ru_ofh_config"
    /\ UNCHANGED <<config, ru_cfg, error>>

\* A turn of the loop of generate_ru_ofh_config: the sector of a cell.
OfhSector ==
    LET cell_cfg == config.ofh_cfg.cells[sector_id + 1]
        src      == ParseMacAddress(cell_cfg.du_mac_address)
        dst      == ParseMacAddress(cell_cfg.ru_mac_address)
    IN  /\ pc = "generate_ru_ofh_config" /\ sector_id < Len(config.ofh_cfg.cells)
        /\ \/ ~src.ok /\ Terminate("invalid_du_mac_address")
           \/ src.ok /\ ~dst.ok /\ Terminate("invalid_ru_mac_address")
           \/ /\ src.ok /\ dst.ok
              /\ out_cfg' = [out_cfg EXCEPT !.sector_configs = Append(@,
                     [mac_src_address |-> src.mac, mac_dst_address |-> dst.mac,
                      tci |-> cell_cfg.vlan_tag, ru_prach_port |-> cell_cfg.ru_prach_port_id,
                      ru_ul_port |-> cell_cfg.ru_ul_port_id, ru_dl_ports |-> cell_cfg.ru_dl_port_id])]
              /\ sector_id' = sector_id + 1
              /\ UNCHANGED <<config, ru_cfg, pc, error>>

\* The loop is over: is_valid_ru_ofh_config has the last word.
OfhConfigChecked ==
    /\ pc = "generate_ru_ofh_config" /\ sector_id = Len(config.ofh_cfg.cells)
    /\ \/ ~config.ofh_cfg.ru_ofh_is_valid /\ Terminate("invalid_ru_ofh")
       \/ /\ config.ofh_cfg.ru_ofh_is_valid
          /\ pc' = "done"
          /\ UNCHANGED <<config, ru_cfg, out_cfg, sector_id, error>>

Next ==
    \/ RuOfhParseError \/ RuOfhVerifyCallback
    \/ GenerateLowPhyConfig \/ RadioSector \/ GenerateRuGenericConfig
    \/ GenerateRuOfhConfig \/ OfhSector \/ OfhConfigChecked

Spec == Init /\ [][Next]_vars

----------------------------------------------------------------------------
(* Properties. *)

TypeOK ==
    /\ config \in AppConfigs
    /\ ru_cfg \in {"sdr", "ofh"}
    /\ out_cfg \in RuGenericConfigurations \cup RuOfhConfigurations
    /\ sector_id \in 0 .. Len(config.cells_cfg) \cup 0 .. Len(config.ofh_cfg.cells)
    /\ pc \in {"parse_ru_config", "generate_ru_config", "generate_radio_config",
              "generate_ru_ofh_config", "done", "terminated"}
    /\ (pc = "terminated") = (error # "none")
    /\ pc = "done" /\ ru_cfg = "sdr" =>
          \A s \in DOMAIN out_cfg.sectors :
              /\ Len(out_cfg.tx_streams[s]) = out_cfg.sectors[s].nof_tx_ports
              /\ Len(out_cfg.rx_streams[s]) = out_cfg.sectors[s].nof_rx_ports

\* "T1a maximum value must be greater than minimum value" (the errors of
\* configure_cli11_ru_ofh_args): no Open Fronthaul radio unit is configured
\* with a transmission window whose minimum is above its maximum, whatever
\* the file writes for the six options.  This is about the place of the
\* comparisons, which is before the file is read.
WindowsAreOrdered ==
    pc \in {"generate_ru_ofh_config", "done"} /\ ru_cfg = "ofh" =>
        /\ out_cfg.tx_window_timing_params.T1a_min_cp_dl <= out_cfg.tx_window_timing_params.T1a_max_cp_dl
        /\ out_cfg.tx_window_timing_params.T1a_min_cp_ul <= out_cfg.tx_window_timing_params.T1a_max_cp_ul
        /\ out_cfg.tx_window_timing_params.T1a_min_up <= out_cfg.tx_window_timing_params.T1a_max_up

\* The ZMQ ports of a direction as the user listed them in device_args.
ListedPorts(port_id) ==
    LET named == SelectSeq(config.sdr_cfg.device_arguments, LAMBDA arg : arg.key = port_id)
    IN  [i \in DOMAIN named |-> named[i].value]

\* The ports the channels of all the streams of a direction got.
ChannelArgs(streams) ==
    FlattenSeq([s \in DOMAIN streams |-> [c \in DOMAIN streams[s] |-> streams[s][c].args]])

\* The antennas of all the cells in a direction.
NofAntennas(Count(_)) ==
    Len(FlattenSeq([s \in DOMAIN config.cells_cfg |-> [a \in 1 .. Count(config.cells_cfg[s]) |-> a]]))

\* With the ZMQ driver every channel has a port of its own: the channels of
\* the cells, cell after cell and antenna after antenna, take the tx_port
\* and the rx_port arguments in the order of device_args ("each cell is
\* mapped to a different stream"), and generate_radio_config reports
\* "channel arguments out of bounds" only when the arguments of a direction
\* are fewer than its antennas.  This is about the index
\* sector_id * nof_antennas_dl + port_id of generate_radio_config.
ChannelsTakePortsInOrder ==
    ru_cfg = "sdr" /\ config.sdr_cfg.device_driver = "zmq" =>
        LET tx == ChannelArgs(out_cfg.tx_streams)
            rx == ChannelArgs(out_cfg.rx_streams)
            Dl(cell) == cell.nof_antennas_dl
            Ul(cell) == cell.nof_antennas_ul
        IN  /\ pc = "done" =>
                  /\ Len(tx) = NofAntennas(Dl) /\ tx = SubSeq(ListedPorts("tx_port"), 1, Len(tx))
                  /\ Len(rx) = NofAntennas(Ul) /\ rx = SubSeq(ListedPorts("rx_port"), 1, Len(rx))
            /\ error = "zmq_tx_out_of_bounds" => Len(ListedPorts("tx_port")) < NofAntennas(Dl)
            /\ error = "zmq_rx_out_of_bounds" => Len(ListedPorts("rx_port")) < NofAntennas(Ul)

\* Cells for which the index of generate_radio_config counts the antennas
\* of the cells before: all with the same number of DL antennas, which is
\* also the number of UL antennas of every cell but the last.
CellsAlike ==
    \A i, j \in DOMAIN config.cells_cfg :
        i < j => /\ config.cells_cfg[j].nof_antennas_dl = config.cells_cfg[i].nof_antennas_dl
                 /\ config.cells_cfg[j].nof_antennas_dl = config.cells_cfg[i].nof_antennas_ul

\* What generate_radio_config and extract_zmq_ports do get right: with one
\* cell, or with cells of the same number of antennas in both directions,
\* the channels take the listed ports in order.
AlikeCellsTakePortsInOrder == CellsAlike => ChannelsTakePortsInOrder

=============================================================================
