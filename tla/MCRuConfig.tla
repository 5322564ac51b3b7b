----------------------------- MODULE MCRuConfig -----------------------------
(***************************************************************************)
(* The command lines the runs of RuConfig start from: one or two cells of  *)
(* one or two antennas a direction, ZMQ arguments with as many ports as    *)
(* the antennas, fewer and more, and Open Fronthaul cells with MAC         *)
(* addresses of five, six and seven fields.                                *)
(***************************************************************************)
EXTENDS RuConfig

Arg(key, value) == [key |-> key, value |-> value]

MCCells ==
    [nof_antennas_dl : 1 .. 2, nof_antennas_ul : 1 .. 2, common_scs : {0}, channel_bw_mhz : {20}]
MCCellsCfgs == {<<c>> : c \in MCCells} \cup {<<c, d>> : c, d \in MCCells}

MCDeviceArguments ==
    {<<Arg("tx_port", "t1"), Arg("rx_port", "r1"), Arg("base_srate", "23.04e6")>>,
     <<Arg("tx_port", "t1"), Arg("rx_port", "r1"), Arg("", ""), Arg("tx_port", "t2"),
       Arg("rx_port", "r2")>>,
     <<Arg("tx_port", "t1"), Arg("tx_port", "t2"), Arg("rx_port", "r1"), Arg("rx_port", "r2"),
       Arg("tx_port", "t3"), Arg("rx_port", "r3"), Arg("tx_port", "t4"), Arg("rx_port", "r4")>>,
     <<Arg("tx_port", "t1"), Arg("tx_port", "t2"), Arg("tx_port", "t3"), Arg("tx_port", "t4"),
       Arg("rx_port", "r1"), Arg("rx_port", "r2")>>,
     <<Arg("rx_port", "r1"), Arg("rx_port", "r2"), Arg("rx_port", "r3"), Arg("tx_port", "t1"),
       Arg("tx_port", "t2")>>}

Sdr(driver, args, profile, lo, valid) ==
    [device_driver |-> driver, device_arguments |-> args, lphy_executor_profile |-> profile,
     lo_offset_is_normal |-> lo, lower_phy_is_valid |-> valid]

MCSdrCfgs ==
    {Sdr("zmq", args, "dual", TRUE, TRUE) : args \in MCDeviceArguments}
        \cup {Sdr("zmq", <<>>, "single", FALSE, FALSE)}
        \cup {Sdr("uhd", <<>>, profile, lo, TRUE) : profile \in LowPhyThreadProfiles, lo \in BOOLEAN}

OfhCell(ru_mac, du_mac) ==
    [ru_mac_address |-> ru_mac, du_mac_address |-> du_mac, vlan_tag |-> 1, ru_prach_port_id |-> 4,
     ru_ul_port_id |-> 65535, ru_dl_port_id |-> <<0, 1>>]

MCMac == <<0, 17, 34, 51, 68, 255>>
MCOfhCells ==
    {<<OfhCell(MCMac, MCMac)>>, <<OfhCell(MCMac, MCMac), OfhCell(MCMac, SubSeq(MCMac, 1, 5))>>,
     <<OfhCell(SubSeq(MCMac, 1, 5), MCMac)>>, <<OfhCell(MCMac \o <<9>>, MCMac)>>}

\* The options of ru_ofh as ofh_cfg holds them before the file is read:
\* windows in order, no bandwidth of the radio unit.
MCOfhOptions ==
    [option \in OfhOptionNames |->
        CASE option \in {"t1a_max_cp_dl", "t1a_max_cp_ul"} -> 500
          [] option = "t1a_min_cp_dl" -> 258
          [] option = "t1a_min_cp_ul" -> 285
          [] option = "t1a_max_up" -> 300
          [] option = "t1a_min_up" -> 85
          [] option = "max_proc_delay" -> 2
          [] option = "ru_bandwidth_MHz" -> NoBandwidth
          [] OTHER -> 0]

MCOfhCfgs ==
    [compression_method_ul : CompressionMethods, compresion_bitwidth_ul : {9, 14, 16},
     compression_method_dl : {"bfp"}, compresion_bitwidth_dl : {9},
     options : {MCOfhOptions}, cells : MCOfhCells, ru_ofh_is_valid : BOOLEAN]

NoSection == <<>>

\* Sections ru_ofh that keep every window in order: both ends of a window,
\* a maximum at the minimum ofh_cfg holds, the ends of the ranges, a
\* bandwidth of the radio unit above that of the cell, and values the
\* checks refuse.
MCOrderedOfhSections ==
    {NoSection,
     ("t1a_max_cp_dl" :> 470) @@ ("t1a_min_cp_dl" :> 258) @@ ("t1a_max_up" :> 85)
         @@ ("max_proc_delay" :> 30) @@ ("ru_bandwidth_MHz" :> 100),
     ("t1a_max_cp_ul" :> 1960) @@ ("t1a_min_up" :> 0) @@ ("gps_beta" :> -32768),
     ("t1a_max_cp_ul" :> 1961),
     ("t1a_max_up" :> 2000),
     ("max_proc_delay" :> 0),
     ("ru_bandwidth_MHz" :> 35) @@ ("gps_alpha" :> 12288000)}

\* Sections ru_ofh that write one end of a window past the other end, in
\* the file or in ofh_cfg.
MCUnorderedOfhSections ==
    {("t1a_max_up" :> 50),
     ("t1a_min_cp_dl" :> 600),
     ("t1a_max_cp_ul" :> 100) @@ ("t1a_min_cp_ul" :> 200)}

MCDefaultSdr == Sdr("uhd", <<>>, "dual", FALSE, TRUE)
MCDefaultOfh == CHOOSE o \in MCOfhCfgs : o.compression_method_ul = "none" /\ o.ru_ofh_is_valid

MCOneCell == <<CHOOSE c \in MCCells : TRUE>>

\* Command lines with an SDR, with Open Fronthaul and with both, and the
\* sections ru_ofh with one Open Fronthaul configuration.
MCAppConfigs ==
    [nof_sdr_entries : 0 .. 1, nof_ofh_entries : {0}, cells_cfg : MCCellsCfgs,
     sdr_cfg : MCSdrCfgs, ofh_cfg : {MCDefaultOfh}, ofh_section : {NoSection}]
    \cup [nof_sdr_entries : {0}, nof_ofh_entries : {3}, cells_cfg : {MCOneCell},
          sdr_cfg : {MCDefaultSdr}, ofh_cfg : MCOfhCfgs, ofh_section : {NoSection}]
    \cup [nof_sdr_entries : {0}, nof_ofh_entries : {3}, cells_cfg : {MCOneCell},
          sdr_cfg : {MCDefaultSdr}, ofh_cfg : {MCDefaultOfh}, ofh_section : MCOrderedOfhSections]
    \cup [nof_sdr_entries : {2}, nof_ofh_entries : {1}, cells_cfg : {MCOneCell},
          sdr_cfg : {MCDefaultSdr}, ofh_cfg : {MCDefaultOfh}, ofh_section : {NoSection}]

\* The same with the sections that write a window out of order.
MCAnyAppConfigs ==
    MCAppConfigs
    \cup [nof_sdr_entries : {0}, nof_ofh_entries : {3}, cells_cfg : {MCOneCell},
          sdr_cfg : {MCDefaultSdr}, ofh_cfg : {MCDefaultOfh}, ofh_section : MCUnorderedOfhSections]

MCMacFields == 0 .. 255

=============================================================================
