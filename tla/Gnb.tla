-------------------------------- MODULE Gnb --------------------------------
(***************************************************************************)
(* The start of the gNB application from one configuration file to the     *)
(* first messages of the radio unit.  CellConfig parses the cells and the  *)
(* bearers; when the file is parsed, the callback of parse_ru_config       *)
(* (RuConfig, inside Fronthaul) decides on the radio unit; the translators *)
(* of the cells and then those of the radio unit generate their            *)
(* configurations, and the decoder of an Open Fronthaul radio unit starts. *)
(* What the parts share is gnb_appconfig: the start-up of the radio unit   *)
(* reads the antennas of the cells the schema has parsed.                  *)
(***************************************************************************)
EXTENDS Integers, Sequences

CONSTANTS
    ConfigFiles, DefaultCell, DefaultTdd, Bands, BandOfArfcn, DuplexOf, LongPreambles,  \* of CellConfig
    AppConfigs, MacFields,                                                              \* of RuConfig
    NOF_SUBCARRIERS_PER_RB, nof_symbols, ru_nof_prbs, NofFilterIndexes, Sent            \* of OfhUplaneDecoder

VARIABLES
    file, gnb_cfg, generated, cell_pc, cell_error,              \* of CellConfig
    ru_cfg, out_cfg, sector_id, pc, error,                      \* of RuConfig
    message, offset, results, decoder_pc, returned, sent        \* of OfhUplaneDecoder

cell_vars == <<file, gnb_cfg, generated, cell_pc, cell_error>>
radio_vars == <<ru_cfg, out_cfg, sector_id, pc, error, message, offset, results, decoder_pc,
                returned, sent>>
vars == <<cell_vars, radio_vars>>

Cells == INSTANCE CellConfig WITH pc <- cell_pc, error <- cell_error

\* gnb_appconfig as the start-up of the radio unit reads it: the sections
\* ru_sdr and ru_ofh of the file, and the antennas of the cells.
RuAppconfig ==
    [nof_sdr_entries |-> file.ru.nof_sdr_entries, nof_ofh_entries |-> file.ru.nof_ofh_entries,
     sdr_cfg |-> file.ru.sdr_cfg, ofh_cfg |-> file.ru.ofh_cfg, ofh_section |-> file.ru.ofh_section,
     cells_cfg |-> [i \in DOMAIN gnb_cfg.cells_cfg |->
                      [nof_antennas_dl |-> gnb_cfg.cells_cfg[i]["nof_antennas_dl"],
                       nof_antennas_ul |-> gnb_cfg.cells_cfg[i]["nof_antennas_ul"],
                       common_scs |-> gnb_cfg.cells_cfg[i]["common_scs"],
                       channel_bw_mhz |-> gnb_cfg.cells_cfg[i]["channel_bandwidth_MHz"]]]]

Radio == INSTANCE Fronthaul WITH config <- RuAppconfig

\* The schema is still parsing the file.
Parsing == cell_pc \in {"configure_cli11_with_gnb_appconfig_schema", "cell_cfg", "cells", "qos"}

Init == Cells!Init /\ Radio!Init

\* A step of the schema or of a translator of the cells: the translators
\* run when the callback of parse_ru_config has returned.
CellStep ==
    /\ Parsing \/ pc = "generate_ru_config"
    /\ Cells!Next
    /\ UNCHANGED radio_vars

\* A step of the radio unit: the callback of parse_ru_config ends the parse
\* of the file, generate_ru_config follows the translators of the cells.
RadioStep ==
    /\ IF pc = "parse_ru_config" THEN cell_pc = "generate_cu_cp_config" ELSE cell_pc = "done"
    /\ UNCHANGED cell_vars
    /\ Radio!Next

Next == CellStep \/ RadioStep

Spec == Init /\ [][Next]_vars

----------------------------------------------------------------------------
(* Properties: those of the parts, over the behaviours of all. *)

TypeOK == Cells!TypeOK /\ Radio!TypeOK

\* CellConfig: what is generated for the CU-CP, the DU cells, the upper PHY
\* and the scheduler describes the same cells, as long as the entries of
\* cells write options every translator takes from the cell (the callback
\* of cell_cfg, the function of cells, generate_du_cell_config,
\* generate_du_low_config, generate_scheduler_expert_config).
ConsumersAgree == Cells!ConsumersAgree

\* CellConfig: the CU-CP and the DU know the same bearers in the same RLC
\* mode (generate_cu_cp_qos_config, generate_du_qos_config).
QosConfigsAgree == Cells!QosConfigsAgree

\* CellConfig: the scheduler is configured with RV sequences that have a
\* member and hold versions 0 to 3, with MCS of 0 to 28 and with at most 4
\* retransmissions of Msg3, which its HARQ processes and allocators index
\* tables with (the checks of the schema, generate_scheduler_expert_config).
SchedulerConfigIsUsable == Cells!SchedulerConfigIsUsable

\* The radio serves the cells the DU has.  With an SDR the lower PHY has a
\* sector, and the radio a stream in each direction, for every upper PHY
\* generate_du_low_config configured, and every antenna port of that upper
\* PHY has its port in the sector and its channel in the stream, whatever
\* the section cell_cfg and the entries of cells said of the antennas
\* (generate_low_phy_config, generate_radio_config, generate_du_low_config).
SdrServesEveryCell ==
    pc = "done" /\ ru_cfg = "sdr" =>
        /\ DOMAIN out_cfg.sectors = DOMAIN generated.du_low
        /\ \A i \in DOMAIN generated.du_low :
               /\ out_cfg.sectors[i].nof_tx_ports = generated.du_low[i].nof_tx_ports
               /\ out_cfg.sectors[i].nof_rx_ports = generated.du_low[i].nof_rx_ports
               /\ Len(out_cfg.tx_streams[i]) = generated.du_low[i].nof_tx_ports
               /\ Len(out_cfg.rx_streams[i]) = generated.du_low[i].nof_rx_ports

\* RuConfig: with cells of the same number of antennas, as the entries of
\* cells leave them, the channels of the ZMQ driver take the listed ports
\* in order (generate_radio_config).
AlikeCellsTakePortsInOrder == Radio!AlikeCellsTakePortsInOrder

\* OfhUplaneDecoder: the deserializer stays inside the message, whatever
\* compression the file asked for (the checks of remaining_bytes).
ReadsStayInsideMessage == Radio!ReadsStayInsideMessage

\* OfhUplaneDecoder: a message decode() accepts says what the radio unit
\* put into it, for every compression generate_ru_ofh_config can leave in
\* ul_compression_params.
DecodedAsSent == Radio!DecodedAsSent

\* BfpCompression: a sample comes back at most one step of the least
\* exponent below what it was (compress_prb_generic, decompress_prb_generic).
SamplesWithinLeastStep == Radio!SamplesWithinLeastStep

=============================================================================
