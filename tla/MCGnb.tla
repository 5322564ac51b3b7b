------------------------------- MODULE MCGnb -------------------------------
(***************************************************************************)
(* The run of Gnb.  Its files are of two kinds: the files of MCCellConfig  *)
(* with an SDR radio unit of the UHD driver, and for every command line of *)
(* MCRuConfig a file whose entries of cells write the antennas of its      *)
(* cells; behind each Open Fronthaul configuration the messages of         *)
(* MCFronthaul.                                                            *)
(***************************************************************************)
EXTENDS Gnb, TLC

\* The inputs do not hang on the constants they are given to: the
\* instances take empty sets for them.
CellFiles == INSTANCE MCCellConfig WITH
                 ConfigFiles <- {}, DefaultCell <- {}, DefaultTdd <- {}, Bands <- {},
                 BandOfArfcn <- {}, DuplexOf <- {}, LongPreambles <- {},
                 pc <- cell_pc, error <- cell_error
RadioUnits == INSTANCE MCFronthaul WITH
                  config <- RuAppconfig, AppConfigs <- {}, MacFields <- {}, Sent <- {}

MCDefaultCell == CellFiles!MCDefaultCell
MCDefaultTdd == CellFiles!MCDefaultTdd
MCBands == CellFiles!MCBands
MCBandOfArfcn == CellFiles!MCBandOfArfcn
MCDuplexOf == CellFiles!MCDuplexOf
MCLongPreambles == CellFiles!MCLongPreambles
MCMacFields == RadioUnits!MCMacFields
MCSent == RadioUnits!MCSent

\* The sections ru_sdr and ru_ofh of a command line of MCRuConfig.
RuSections(c) ==
    [nof_sdr_entries |-> c.nof_sdr_entries, nof_ofh_entries |-> c.nof_ofh_entries,
     sdr_cfg |-> c.sdr_cfg, ofh_cfg |-> c.ofh_cfg, ofh_section |-> c.ofh_section]

\* An SDR radio unit of the UHD driver, which takes any cells.
MCPlainRu ==
    RuSections(CHOOSE c \in RadioUnits!MCAppConfigs :
                   c.nof_sdr_entries = 1 /\ c.sdr_cfg = RadioUnits!CommandLines!MCDefaultSdr)

\* The entries of cells that leave the antennas of the cells of a command line.
AntennaSections(cells) ==
    [i \in DOMAIN cells |->
        ("nof_antennas_dl" :> cells[i].nof_antennas_dl)
            @@ ("nof_antennas_ul" :> cells[i].nof_antennas_ul)]

MCConfigFiles ==
    {[cell_cfg |-> f.cell_cfg, cells |-> f.cells, qos |-> f.qos, rejected_by |-> f.rejected_by,
      ru |-> MCPlainRu] : f \in CellFiles!MCConfigFiles}
        \cup {[cell_cfg |-> <<>>, cells |-> AntennaSections(c.cells_cfg), qos |-> <<>>,
               rejected_by |-> "none", ru |-> RuSections(c)] : c \in RadioUnits!MCAppConfigs}

\* gnb_appconfig as the parse of these files can leave it for the radio
\* unit: the sections of a command line, with any of the cells.
MCParsedCells ==
    [nof_antennas_dl : 1 .. 2, nof_antennas_ul : 1 .. 2, common_scs : 0 .. 1,
     channel_bw_mhz : {20, 25}]

MCAppConfigs ==
    [nof_sdr_entries : 0 .. 2, nof_ofh_entries : {0, 1, 3},
     cells_cfg : Seq(MCParsedCells),
     sdr_cfg : RadioUnits!CommandLines!MCSdrCfgs \cup {RadioUnits!CommandLines!MCDefaultSdr},
     ofh_cfg : RadioUnits!CommandLines!MCOfhCfgs,
     ofh_section : RadioUnits!CommandLines!MCOrderedOfhSections]

=============================================================================
