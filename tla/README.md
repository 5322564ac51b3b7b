# TLA+ models of the srsRAN gNB

This directory holds the TLA+ specifications of five parts of the srsRAN
Project gNB: the UE scheduling of the DU, the CU-CP routine that follows an
RRC reestablishment, the uplink of the Open Fronthaul (message decoder and
block floating point compression), the start-up of the application from its
configuration file to the configurations of the CU-CP, the DU, the PHY, the
scheduler and the radio unit, and the LDPC encoder for NEON. With them are the
TLC configurations that check them and `PROJECT.json`, which maps every
definition to the lines of code it models.
Line numbers refer to the files under `src/`; "the specification" is `spec.md`.

## 1. Inventory

### 1.1 The parts of the system

| Part | Code | What it does |
|---|---|---|
| UE event manager | `lib/scheduler/ue_scheduling/ue_event_manager.cpp` | Takes requests of the MAC (create, reconfigure, remove a UE, BSR, DL buffer state, MAC CE) and reports of the PHY (CRC, UCI) from other threads, queues them, and applies them at the start of the next slot of the right cell. |
| UE cell grid allocator | `lib/scheduler/ue_scheduling/ue_cell_grid_allocator.cpp` | Turns a grant proposed by the scheduling policy into PDCCH + PDSCH + UCI (DL) or PDCCH + PUSCH (UL), or refuses it. |
| UE cell context | `lib/scheduler/ue_scheduling/ue_cell.h` | HARQ entity, channel state and RV selection of a UE in a cell. |
| HARQ processes, UE repository, cell resource ring, PDCCH and UCI allocators | not in `src/`; sections 3 and 4.1 to 4.5 of the specification | The state the two classes above read and write. |
| Slot handler, policy, MAC, PHY | sections 4.9, 5, 6; `tests/unittests/scheduler/scheduler_ue_removal_test.cpp` | The surroundings. |
| CU-CP reestablishment routine | `lib/cu_cp/routines/reestablishment_context_modification_routine.cpp` | A coroutine of four awaited exchanges with E1AP, F1AP and RRC. |
| Open Fronthaul user-plane decoder | `lib/ofh/serdes/ofh_uplane_message_decoder_impl.cpp` | `decode()`: the header of a message of the radio unit, then section after section, each with its PRBs of compressed IQ samples. |
| Block floating point compression | `lib/ofh/compression/iq_compression_bfp_impl.cpp` | An exponent per PRB and the samples shifted by it into `data_width` bits, and back. |
| Radio unit configuration | `apps/gnb/gnb_appconfig_cli11_schema.cpp` (`parse_ru_config`), `apps/gnb/gnb_appconfig_translators.cpp` (`generate_ru_config`) | Chooses between the SDR and the Open Fronthaul radio unit and fills the configuration of the one chosen, cell by cell, or terminates the application. |
| Cell and bearer configuration | `apps/gnb/gnb_appconfig_cli11_schema.cpp` (the sections `cell_cfg`, `cells`, `qos`), `apps/gnb/gnb_appconfig_translators.cpp` (`generate_cu_cp_config`, `generate_du_cell_config`, the QoS translators, `generate_du_low_config`, `generate_mac_expert_config`, `generate_scheduler_expert_config`) | Parses the common cell, copies it into the cells, parses what the file says of each cell and each bearer, and generates from the result one configuration per consumer, or terminates the application. |
| LDPC encoder | `lib/phy/upper/channel_coding/ldpc/ldpc_encoder_neon.cpp` | The five steps `encode()` of the base class calls, over three buffers that are members of the encoder. |
| The sections `log`, `pcap`, `amf`, `cu_cp`, `expert_phy`, `test_mode` of the schema, the F1AP adapter, Open Fronthaul receiver and transmitter, headers, factories, test helpers | `apps/gnb`, `lib/ofh`, `include/` | Options without a decision; declarations. |

### 1.2 State

* per cell: the slot count `now[c]` (modulo `NofSlots`), and a ring of
  `RingSize` slot resources `ring[c]`, each with the RBs used in DL and UL, the
  PDCCHs, the PDSCH and PUSCH grants and the UCI of every UE;
* the UE repository `ue_db`: the UEs, each with its configuration, its DL and
  UL HARQ processes, pending bytes, pending SR and MAC CEs, wideband CQI, and
  the queue `to_rem` of UEs that leave;
* the event manager: `common_events` and `cell_events[c]`, each a pending
  list written by `handle_*` (the list a slot runs is taken and consumed
  inside the slot indication), and `last_sl`, the
  slot for which the common list was last swapped;
* the surroundings: `mac_ue[u]`, the procedure the MAC runs for a UE
  (`none`, `creating`, `active`, `reconfiguring`, `removing`), `srb0_ues`,
  and `onair`, the UCI and CRC reports the PHY owes.
* the reestablishment routine: where the coroutine is suspended, the two
  requests and the RRC arguments it builds, the two answers it keeps, and the
  PDU sessions and DRBs of the UP resource manager;
* the decoder: the message, the `offset` of the deserializer in it, the
  `results` filled so far and where `decode()` is;
* the start-up: the configuration `file`, `gnb_cfg` (the common cell, the
  cells and the bearers) as the schema has filled it so far, what the
  translators have `generated`, the alternative `ru_cfg` holds, the
  `ru_configuration` built so far, the cell the loop is at and why the
  application terminated, if it did;
* the LDPC encoder: the graph and the codeblock length `encode()` set, the
  strategy and the node size `select_strategy` chose, the three buffers
  with everything earlier calls left in them, and the spans of the caller.

### 1.3 Operations and how they interact

The MAC and the PHY call `handle_*`, which only append to a pending list
(`slot_event_list::emplace`/`push`, under a mutex). A slot indication of a
cell runs, in this order: the ring advances and the slot that left it is
cleared; the UE repository erases the UEs of `to_rem` whose HARQ processes are
all empty and times out the HARQ processes whose acknowledgement is overdue;
`ue_event_manager::run` swaps in and applies the common events, then the
cell's events. Then the policy proposes grants, and each proposal is one call
of `allocate_dl_grant` or `allocate_ul_grant`, which read and write the ring,
the HARQ process and the UE.

The start-up is sequential, and its parts meet in `gnb_appconfig`. CLI11
parses the section `cell_cfg` into the common cell and runs its callbacks
(the TDD pattern is taken back when the section did not write one, every
cell becomes the common cell); then the function of `cells` resizes the
list, copies the common cell once more when the list grew, and parses every
entry into its cell; then the function of `qos`; last the callback of
`parse_ru_config` decides on the radio unit. Seven translators then read
`gnb_appconfig`, each for one consumer, and `generate_ru_config` reads the
antennas of the same cells.

The fronthaul parts meet in one value: `generate_ru_ofh_config` translates
the compression method and bit width of the command line into
`ul_compression_params`, and the decoder of the receiver is built with it.
The decoder calls the decompressor for every section. The LDPC encoder
interacts with nothing but its own earlier calls.

### 1.4 What makes it hard

* a DL grant is three reservations (PDCCH, UCI, MCS/TBS) and each can fail
  after the ones before it succeeded;
* grants made in different slots (k0, k1, k2) meet in the resources of one
  slot, for several UEs;
* HARQ feedback arrives slots later, may be lost, and is matched to a process
  by slot and DAI modulo 4; a lost report is only resolved by a timeout;
* a retransmission is built from parameters saved slots ago under a
  configuration and a slot that may differ;
* requests reach the scheduler from other threads, and a request for a UE that
  is not (or no longer) there is dropped;
* removal of a UE is deferred until its HARQ processes are empty, which may
  depend on feedback that never comes.
* the reestablishment routine changes three peers one after the other and
  can fail after each; what it sends to one peer is built from what another
  answered;
* the decoder reads lengths from the wire and must refuse a message cut at
  any byte before it reads past its end; a section that fails after one that
  decoded still gives `true`;
* the exponent of a PRB is computed in unsigned arithmetic from the leading
  zeros of a magnitude that may need 16 bits;
* the index of a ZMQ port is computed from the sector and the antennas of the
  cell at hand, which is only right when the cells are alike;
* a cell gets its options on four paths (no section, `cell_cfg` only,
  `cells` only, both), and the seven translators do not read the same
  option at the same place: some take it from the cell, some from the
  common cell, one from the first cell;
* the schema checks options one by one when the file is parsed, and
  compares two options only where the code says so, which for the T1a
  windows is before the file is read; the scheduler later divides by the
  length of a list and indexes tables with numbers the file gave;
* the buffers of the LDPC encoder keep what earlier calls with other lifting
  sizes wrote; each high-rate strategy hard-codes shifts and their direction.

`PROJECT.json` lists these hazards at their lines, with the property that
covers each, or the reason none does yet.

## 2. Modules

| Module | Models | Source |
|---|---|---|
| `HarqProcess` | a HARQ process: `NewTx`, `NewRetx`, `AckInfo`, `HarqSlotIndication`, `SaveAllocParams`; slot arithmetic modulo `NofSlots`; `GetPdschRv`, `GetPuschRv` | specification 3, 4.5; `ue_cell.h` 90-97 |
| `SchedConfig` | cell and UE configuration: TDD pattern, search spaces, DCI formats, CRB intervals, CSI-RS slots, `ComputeMcsTbs` | specification 3, 4.6 |
| `CellResources` | the ring, `Collides`/`Fill`, `AllocPdcch`/`CancelLastPdcch`, `AllocUciHarq`, `UciDai` | specification 4.1 to 4.4 |
| `UeRepository` | `AddUe`, `ScheduleUeRem`, `UeDbSlotIndication`, `DlAckInfo`, `HandleCrcPdu`, `BuildDlTransportBlock` | specification 4.5 (the code is not in `src/`); `ue_cell.h` 46-66 for what a UE holds |
| `UeEventManager` | every `handle_*` as an action; every callback as an operator from state to state; `ProcessCommon`, `ProcessCellSpecific`, `EventManagerRun` | `ue_event_manager.cpp` |
| `UeCellGridAllocator` | `AllocateDlGrant`, `AllocateUlGrant`, one action per return path | `ue_cell_grid_allocator.cpp` |
| `UeScheduler` | the composition: MAC, PHY, `SlotIndication`, the policy, `Next`, fairness, and the properties | specification 4.9, 5, 6; removal test |
| `MCUeScheduler` | the small cell the runs check | - |
| `ReestablishmentRoutine` | the coroutine: one action per stretch of code between two awaits and per outcome; `GenerateUeContextModificationRequest`, `GenerateBearerContextModification`, `FillRrcReconfigArgs` | `reestablishment_context_modification_routine.cpp` |
| `ContextModification` | the abstract procedure the routine implements: peers asked in order, success with the last confirmation, failure at the first refusal | - |
| `MCReestablishmentRoutine` | the PDU sessions and the answers the runs check | - |
| `BfpCompression` | `DetermineExponent`, `CompressPrbGeneric`, `Compress`, `DecompressPrbGeneric`, `Decompress` as operators; bit packing and sign extension | `iq_compression_bfp_impl.cpp` |
| `OfhUplaneDecoder` | a call of `decode()`: `HeaderTooShort`, `DecodeHeader`, one of `SectionDecoded` and `SectionFailed` per turn of the loop, `AllSectionsDecoded`; the radio unit that builds the message (`BuildMessage`) | `ofh_uplane_message_decoder_impl.cpp` |
| `MCOfhUplane` | the headers, sections and compressions the runs send | - |
| `RuConfig` | `RuOfhParseError`, `RuOfhVerifyCallback`, `GenerateLowPhyConfig`, `RadioSector`, `GenerateRuGenericConfig`, `GenerateRuOfhConfig`, `OfhSector`, `OfhConfigChecked`; `ExtractZmqPorts`, `ParseMacAddress`, `ToCompressionType`; the ranges of the options of `ru_ofh` (`OfhOptionRange`, `RuBandwidthCheck`) and the comparison of the T1a windows (`T1aOrdered`) | `gnb_appconfig_cli11_schema.cpp` 632-883 (the options of the radio unit and `parse_ru_config`), `gnb_appconfig_translators.cpp` 350-656, `ru_ofh_configuration.h` |
| `MCRuConfig` | the command lines the runs start from | - |
| `Fronthaul` | the composition: the start-up, then the decoder built with the `ul_compression_params` it left | `ru_ofh_configuration.h` |
| `MCFronthaul` | the inputs of both parts | - |
| `CellConfig` | `ConfigureSchema`, `ParseCommonCell`, `ParseCells`, `ParseQos`, then one action per translator: `GenerateCuCpConfig`, `GenerateDuCellConfig`, `GenerateDuQosConfig`, `GenerateDuLowConfig`, `GenerateMacExpertConfig`, `GenerateSchedulerExpertConfig`; the checks and option functions of the schema (`OptionCheck` with `PucchRange`, `PrachRange` and `TddRange`, `OptionValue`), the callbacks (`TddUlDlVerifyCallback`, `CommonCellParsed`, `PreparedCells`) | `gnb_appconfig_cli11_schema.cpp` 195-370, 383-502, 578-608, 885-961; `gnb_appconfig_translators.cpp` 40-348, 658-789 |
| `MCCellConfig` | the configuration files, the defaults and the bands | - |
| `Gnb` | the composition of `CellConfig` and `Fronthaul` over one `gnb_appconfig` | `parse_ru_config` |
| `MCGnb` | the configuration files of the run of the composition | - |
| `LdpcEncoder` | `SelectHrStrategy`, `Encode`, `LoadInput`, `SystematicBitsInner`, the four `HighRate...Inner`, `ExtRegionInner`, `WriteCodeblock`; the reference definition of a codeword | `ldpc_encoder_neon.cpp` |
| `MCLdpcEncoder` | four small lifted graphs, one per high-rate strategy, with messages and output sizes | - |

The scheduler modules extend one another in this order; each adds its state
and operators to the ones below. The routine's modules stand apart: the CU-CP
and the scheduler share no state. `OfhUplaneDecoder` extends `BfpCompression`;
`Fronthaul` instantiates `RuConfig` and `OfhUplaneDecoder` and substitutes the
decoder's `compression_params` by an expression over the state of the
start-up. `Gnb` instantiates `CellConfig` and `Fronthaul`, and substitutes
the `config` of the radio unit's start-up by `RuAppconfig`, an expression
over the file and the cells `CellConfig` has parsed; `CellStep` and
`RadioStep` order the steps of the two as the application runs them.
`LdpcEncoder` stands apart.

Correspondence with the code, where it is not by name:

* A callback the code stores in an event is a record `[type, ue_index, ...]`
  with the values the lambda captures; `CommonCallback` and `CellCallback`
  apply it. An event that creates a UE carries `MAX_NOF_DU_UES` as UE index,
  as in the code, and `ProcessCommonEvent` tests for it before it looks the UE
  up.
* `handle_uci_indication` tells PUCCH format 0/1, PUSCH and format 2/3/4
  apart; the model keeps the three cases and abstracts the PDU to the HARQ
  bits, the SR flag and the CSI payload. The wideband CQI is the four bits of
  the payload read MSB first (`WbCqi`), not the payload.
* A return path of an allocator is an action: `DlGrantRejected` (one of the
  checks of lines 79-167 fails), `DlNoPdcch` (169-175), `DlNoUci` (177-210,
  with the PDCCH cancelled), `DlNoMcs` (233-248, with the PDCCH cancelled and
  the UCI left as the code leaves it), `DlGrantAllocated` (250-356); the same
  for UL.
* The reestablishment routine is suspended at `pc`; its member variables are
  the variables of the module under their own names. A message is the
  identifiers and the fields the routine reads: of the CU-UP's answer the
  sessions with `drb_setup` (each DRB with `flow_failed` and the number of UL
  tunnels), `drb_failed` and `drb_modified`; of the DU's answer the DRBs set
  up and whether one failed. `generate_ue_context_modification_request`
  walks sessions and DRBs in the order of their ids and stops at the first
  it cannot use; the operator gives the same result and the same partly
  filled request with sets. `answers` is a history variable, written by
  every step that receives an answer and read only by the refinement
  mapping.
* A user-plane message is a sequence of bytes in the model as on the wire.
  The radio unit (`BuildMessage`) is the reference: it writes the fields
  with arithmetic (`*`, `\div`, `%`), the decoder reads them with the code's
  shifts and masks, and `DecodedAsSent` compares the two. `Read` gives zero
  for a byte beyond the message, which `ReadsStayInsideMessage` rules out
  for the offset. A PRB has `NOF_SUBCARRIERS_PER_RB` subcarriers, one in the
  runs: the loops over the samples of a PRB are the same for each sample.
* `DetermineExponent` keeps the width of the code's unsigned arithmetic:
  `__builtin_clz(x) - 16 - 1` is taken modulo 2^32 before `std::min`.
  The quantizer between floats and 16-bit integers is not in `src/`; the
  model starts from and ends with 16-bit integers.
* The command line is `gnb_appconfig` as CLI11 leaves it, reduced to what
  `generate_ru_config` reads. `device_args` is the sequence of its slices
  between commas, each a key and a value; a MAC address is the sequence of
  the fields `sscanf` finds. `report_error` and `srsran_terminate` are
  `Terminate`, after which nothing happens. The section `ru_ofh` of the
  file is a function from the options it writes to their values
  (`ofh_section`), laid over the values the configuration starts with
  (`OfhOptions`); `gps_alpha`, a float in the schema, is an integer, and
  an operating bandwidth nobody wrote is 0 MHz. `Init` keeps the
  configurations whose defaults have their T1a windows in order: that is
  the comparison `configure_cli11_ru_ofh_args` makes, and it makes it
  before the file is read.
* A cell of `CellConfig` is a function from the names of its options, as
  the file spells them, to values; a section of the file is a function
  from the options it writes to what it writes, and `ParseSection` lays
  one over the other. `OptionValue` is what the option leaves in its field:
  the numerology for `common_scs`, the matched member for `ss_type`, and
  for `mcs_table` the old value unless the section says `qam256` (the
  option function has no other branch). The optional TDD pattern of a
  cell is its five options and, under `tdd_ul_dl_cfg`, whether the
  optional holds them; the period, a float of milliseconds in the file, is
  a number of microseconds, and `PeriodNofSlots` rounds it to slots as
  `std::round` does. `file.rejected_by` names the
  validator outside `src/` that refuses this file, if one does. In
  `generate_du_low_config` the read of `common_cell_cfg.band.value()` for
  a cell that has a band, when the common cell has none, either ends the
  application (`srsran_assert`) or gives any band (`DuLowBands`).
* In `LdpcEncoder` a buffer is a function from byte offsets, counted from 0,
  to bytes; a NEON vector is `NEON_SIZE_BYTE` consecutive bytes and the
  vector operations are taken byte by byte (`Veor`, `VandOne`). The loops
  over the vectors of a node and over the nodes of a layer are inside one
  action per function: nothing else runs between their turns. `Init` fills
  the buffers with any one byte of `UninitializedBytes`: the code does not
  initialize them. `encode()` of the base class and the base graphs are
  not in `src/`; the length `encode()` computes (`CodeblockLength`) and the
  shape of a graph (`IsLiftedBaseGraph`) are taken from TS 38.212.
* What the code computes with tables of TS 38.214 (`compute_dl_mcs_tbs`) is a
  constant function `MaxFeasibleMcs` from the number of RBs to the highest
  MCS with code rate at most 0.95, or -1; the TBS is `nof_rbs * (mcs + 1)`,
  less one in a slot with CSI-RS, so that it differs whenever the inputs do.

## 3. Runs

The scheduler runs check `MCUeScheduler`: one cell (two in `removal_live`), TDD pattern D D S U, `NofSlots = 8`,
`RingSize = 4`, three RBs, two CCEs, two search spaces (a common one with
fallback DCI formats in the initial BWP, a dedicated one with k0 in {0, 1} and
k2 in {1, 2}), k1 in {1, 2}, RV sequence <<0, 2>>, at most one retransmission,
an ACK timeout of two slots.

| Run | Configuration | Checks | Shows |
|---|---|---|---|
| `dl_harq` | `DlHarq.cfg` | `TypeOK`, `PdcchHasItsGrant`, `GrantMatchesHarq`, `AckBitsAreDistinct`, `RetxKeepsTransportBlock` | One UE, two DL HARQ processes, three shapes of grant: every return path of `allocate_dl_grant`, ACK, NACK, lost reports, timeouts, CSI reports, retransmissions in slots with and without CSI-RS. |
| `ul_harq` | `UlHarqPdcch.cfg` | `PdcchHasItsGrant`, `GrantMatchesHarq`, `RetxKeepsTransportBlock` | One UE with BSR and SR: every return path of `allocate_ul_grant`, the return without an MCS (line 495) that has to cancel the PDCCH among them, CRC reports, UCI moved from PUCCH to PUSCH. |
| `two_ues` | `TwoUes.cfg` | `GridExclusive`, `PdcchHasItsGrant` | Two UEs with data both ways from a state in which both exist; grants of different PDCCH slots meet in one slot. |
| `ue_lifecycle` | `UeLifecycle.cfg` | `NoRequestLost`, `GrantMatchesHarq` | The MAC creates, reconfigures and removes the UE while everything else goes on. |
| `removal_live` | `RemovalTwoCells.cfg` | `RemovalCompletes`, `NoRequestLost` | Two cells, whose slot indications are at most one slot apart, share the common event list: a UE that leaves is erased in the end and the MAC answered once, whichever cell swaps the list in. |
| `uci_leak` | `UciLeak.cfg` | `HarqBitsMatchPdschs` (violated) | The HARQ-ACK bit left behind by `allocate_dl_grant` on "no MCS". |
| `reestablishment` | `ReestablishmentRefines.cfg` | `SecondRequestFollowsAnswers`, `ImplementsContextModification` | The routine against every sequence of answers of `MCReestablishmentRoutine`: it implements `ContextModification`, and the second request to the CU-UP fits the answers of the CU-UP and the DU. |
| `reestablishment_drbs` | `ReestablishmentDrbs.cfg` | `UeGetsEveryDrb` (violated) | With two PDU sessions the RRC reconfiguration carries the DRBs of one. |
| `removal_stranded` | `RemovalStranded.cfg` | `RemovalCompletes` (violated) | `removal_live` with the MAC free to reconfigure the UE to any configuration: a retransmission whose search space the reconfiguration took away is never granted, and the UE is never erased. |
| `fronthaul` | `GnbStart.cfg` on `MCGnb` | `TypeOK`, `ConsumersAgree`, `QosConfigsAgree`, `SchedulerConfigIsUsable`, `SdrServesEveryCell`, `AlikeCellsTakePortsInOrder`, `ReadsStayInsideMessage`, `DecodedAsSent`, `SamplesWithinLeastStep` | Every configuration file of `MCGnb` through the whole start-up, every way it terminates included: the files of `MCCellConfig` with a plain SDR radio unit, and a file for every radio unit of `MCRuConfig`; for each Open Fronthaul configuration it leaves, every message of `MCSent`, whole and cut, through `decode()`. |
| `zmq_ports` | `ZmqPorts.cfg` on `MCRuConfig` | `ChannelsTakePortsInOrder` (violated) | Two cells that differ in their antennas share a ZMQ port or skip one. |
| `ldpc` | `Ldpc.cfg` on `MCLdpcEncoder` | `TypeOK`, `OutputIsCodeword` | Two calls of `encode()` in a row, each with any of four graphs, three messages and three output sizes, from buffers filled with 0 or 255. |

The routine's runs check `MCReestablishmentRoutine`: a UE with no, one or two
PDU sessions of one DRB each, and seven answers of the CU-UP (nothing
modified; one and two sessions, with DRBs set up, modified or both; a failed
DRB; failed QoS flows on the second DRB of a session; two UL tunnels on the
DRB of the second session) and every answer of the DU over the DRBs it was
asked for. The routine ends, so these runs do not check for deadlock; nor do
`fronthaul` and `zmq_ports` (the start-up ends or terminates the application,
`decode()` returns) and `ldpc` (which stops after `MaxCalls` calls).

More configurations are kept beside the runs and are checked by hand.
`RuConfig.cfg`, `OfhUplane.cfg`, `Fronthaul.cfg` and `CellConfig.cfg` check
the parts of the start-up and the decoder alone (the decoder with every
compression of `MCCompressionParams`, those the command line cannot ask for
included; `CellConfig.cfg` on `MCCellConfig`: 3127 distinct states, no
error). `Gnb.cfg` is `fronthaul` without `SchedulerConfigIsUsable`,
`UlHarq.cfg` is `ul_harq` without `PdcchHasItsGrant`, and
`Reestablishment.cfg` checks the type invariant of the routine with the
refinement. `Removal.cfg` is `removal_live` with one cell. `BfpSaturated.cfg`,
`CellSections.cfg` and `T1aWindows.cfg` each check one property that TLC
reports violated: `SamplesWithinLeastStep` for the PRB of section 4 below,
`ConsumersAlwaysAgree` and, on `MCRuConfig`, `WindowsAreOrdered`, also in
section 4.

### 3.1 Properties

* `TypeOK`: every variable keeps its shape; among others the CQI stays within
  0..15 and the counters of a HARQ process within their bounds.
* `GridExclusive`: in every slot of the ring, no RB and symbol is given to two
  PDSCHs or to two PUSCHs, and the RBs marked used are exactly those of the
  grants (`collides` before `fill`, lines 164 and 250, 447 and 499).
* `PdcchHasItsGrant`: the PDCCHs of a slot fit the CCEs, and each of them has
  exactly one PDSCH or PUSCH of its UE in the slot its DCI points to: no
  failure path leaves a PDCCH behind (lines 208, 246, 495).
* `GrantMatchesHarq`: every PDSCH and PUSCH in the ring is backed by a HARQ
  process of an existing UE that waits for the acknowledgement of exactly
  this transmission: same slot, same RBs, MCS and TBS, and the RV of the DCI
  is the one of the transmission count of the process.
* `AckBitsAreDistinct`: the DL HARQ processes of a UE that wait for an
  acknowledgement in the same slot have pairwise different DAIs, so
  `handle_harq_ind` (line 167) gives every bit to its own process.
* `NoRequestLost`: for every UE the MAC has a procedure running for, the
  request is queued in the event manager, or its effect is in the repository
  and the answer on its way: nothing is dropped and nothing answered twice.
* `RetxKeepsTransportBlock` (action property): a process that goes from
  pending-retx to waiting-ack keeps its TBS, MCS and number of RBs.
* `RemovalCompletes` (liveness): `mac_ue[u] = "removing"` leads to
  `mac_ue[u] = "none"`.
* `SecondRequestFollowsAnswers`: while the UE is reconfigured and when the
  CU-UP is asked the second time, the request
  `generate_bearer_context_modification` built names the PDU sessions of
  the CU-UP's first answer, and under a session a DRB exactly when the DU
  set it up and the CU-UP listed it as modified for that session (lines
  221 to 248); neither peer had failed anything. It relates three messages
  of two peers across two awaits.
* `ImplementsContextModification` (refinement): with `confirmed` mapped to
  the number of usable answers received and `outcome` to the value
  returned, every step of the routine is a step of `ContextModification` or
  leaves both unchanged. "Usable" is said in the property by quantifiers
  over the answer (`E1apClean`), in the routine by the ordered walk.
* `AlikeCellsTakePortsInOrder`: with the ZMQ driver and cells alike (the same
  number of DL antennas, which is also the number of UL antennas of every
  cell but the last), the channels of all streams take the `tx_port` and
  `rx_port` arguments of `device_args` in their order, and "channel
  arguments out of bounds" is reported only when there are too few.
* `ChannelsTakePortsInOrder` (expected to fail): the same of any cells.
* `ConsumersAgree`: when the entries of `cells` write only options every
  translator takes from the cell (PCI, bandwidth, antennas, PUCCH, the
  PRACH index, sequence, zone, preambles and frequency start), what is
  generated describes the same cells:
  the DU cell and the upper PHY of a sector have the same antennas, slots,
  numerology and length of PRACH preamble, a DU cell has CSI-RS exactly
  when the scheduler has a range of MCS, and the CU-CP announces the PLMN
  and TAC the cells broadcast. It rests on the common cell reaching every
  cell on each of the four paths of section 1.4.
* `ConsumersAlwaysAgree` (violated, `CellSections.cfg`): the same of any
  file, as the help of `cells` promises ("overwriting the default
  configuration defined by cell_cfg").
* `QosConfigsAgree`: the CU-CP and the DU are given the same bearers (or
  both the default list), and the PDCP of a bearer is in AM exactly when
  its RLC is.
* `SchedulerConfigIsUsable`: the scheduler is configured with RV
  sequences that have a member and hold versions 0 to 3, with MCS of 0 to
  28 for the UEs, the RAR, Msg3 and SIB1, and with at most 4
  retransmissions of Msg3, whatever the file writes in `pdsch`, `pusch`
  and `prach` of `cell_cfg` and of the entries of `cells`. A HARQ process
  takes its redundancy version from
  `rv_sequence[nof_retxs % rv_sequence.size()]` (`ue_cell.h` 92 and 96),
  and `HarqProcess` assumes sequences of this kind; the property joins the
  checks of the schema, written option by option and twice for the two
  channels, to what `generate_scheduler_expert_config` reads.
* `WindowsAreOrdered` (violated, `T1aWindows.cfg`): every T1a window of the
  Open Fronthaul configuration ends no earlier than it starts, as the
  error messages of `configure_cli11_ru_ofh_args` say.
* `SdrServesEveryCell`: with an SDR, the lower PHY has a sector and the
  radio a stream in each direction for every upper PHY of the DU, with a
  port and a channel for every antenna port of that upper PHY, whatever
  `cell_cfg` and the entries of `cells` say of the antennas. With Open
  Fronthaul the sectors follow the cells of `ru_ofh`
  (`gnb_appconfig_translators.cpp` 619) and nothing in the code relates them
  to `cells`; the property says nothing of it.
* `ReadsStayInsideMessage`: the offset of the deserializer never passes the
  end of the message, for a message cut at any byte.
* `DecodedAsSent`: when `decode()` returns true, the parameters are those of
  the header sent, and the sections returned are the first sections sent,
  field by field, with the PRBs as the radio unit compressed them; a message
  that was not cut gives all its sections.
* `SamplesWithinLeastStep`: a decoded sample is not above the sample sent
  and less than one step below it, a step being two to the least exponent
  with which the samples of the PRB fit `data_width` bits.
* `OutputIsCodeword`: after a call of `encode()` the systematic bytes of the
  output are the bytes of the message, filler bits as 254, the parity bytes
  are 0 or 1, and every check row of the lifted graph whose bits were all
  handed out has even parity; for the second call of a behaviour as for
  the first.
* `UeGetsEveryDrb` (expected to fail): the RRC reconfiguration names the
  DRBs of every PDU session the UP resource manager holds.
* `HarqBitsMatchPdschs` (expected to fail): the HARQ-ACK bits reserved for a
  UE in a slot are as many as its DL HARQ processes that wait for that slot.

Each property of a passing run has a mutant in `PROJECT.json`: a plausible
defect of one definition under which TLC finds the property violated.

### 3.2 Bounds, and why they are enough

| Bound | Value | Reason |
|---|---|---|
| `NofSlots` | 8 | Two TDD periods, so that the slot count wraps during a run and every comparison of slots is made across the wrap; it satisfies the `ASSUME` of `UeScheduler` that everything compared is less than half a wrap apart. |
| `RingSize` | 4 | Holds the farthest slot a grant reaches (k0 + k1 = 3) and forces reuse of ring entries. |
| `NofRbs`, `NofCces` | 3, 2 | Two grants fit, three do not: both success and exhaustion happen. One RB has no feasible MCS, so the "no MCS" paths are taken. |
| `MaxHarqRetxs`, `MaxAckWait` | 1, 2 | A process goes through new transmission, retransmission and discard; a lost report times out within the ring. |
| `NofDlHarqs`, `NofUlHarqs` | 2 or 1, 1 | Two DL processes are needed for two bits in one UCI; the other runs use one. |
| `MaxBytes` | 2 | Pending bytes only matter as zero or not, and as more than one TBS or not. |
| `MaxPendingEvents` | 1 or 2 | Caps the pending lists; 2 in `ue_lifecycle`, where the order of two events of one UE matters. |
| `MaxFeedbackDelay` | 0 or 1 | The PHY reports in the slot of the feedback or the next, or never. |
| `MCHorizon` | 6 | `two_ues` only: the cell is followed for six slots from `MCBusyInit`, a state `Init` reaches (both UEs created, data reported, slot count wrapped to 0). This covers every TDD slot type once and the reuse of two ring entries. |
| `InitialCqi` | 9 in `dl_harq` | Equal to the CQI the CSI payload <<1,0,0,1>> reports, so that a CSI report does not double the state space; a three-bit payload is also reported and must be ignored. |

| `Sessions`, `Drbs` | {1, 2} | Two of each are needed for "the first is fine and the second fails" and for the session that overwrites another. |
| `UlParamCounts` | {1, 2} | Exactly one UL tunnel is accepted; 2 stands for every other count. |

The fronthaul and the encoder:

| Bound | Value | Reason |
|---|---|---|
| `NOF_SUBCARRIERS_PER_RB` | 1 (12 in the code) | A PRB of two samples, I and Q: the code treats every sample of a PRB alike, and with two samples one can be the largest of the PRB and the other lose bits to its exponent. |
| `ru_nof_prbs` | 2 | `numPrbu = 0` stands for two PRBs, told apart from one PRB named as such. |
| `nof_symbols`, `NofFilterIndexes` | 14, 5 | As in the code; the headers sent include a symbol beyond 13 and a filter index that is reserved. |
| data widths | 9, 14, 16 | 16 needs no compression, 9 is the usual width, 14 makes the exponent small; the samples are zero, the largest and smallest that fit each width, and the powers of two at which the exponent changes. |
| messages | one or two sections, each whole or cut at every byte | Two sections are needed for "the first decoded, the second failed"; in the composition the second section is one of three kinds. |
| cells of the start-up | one or two, with 1 or 2 antennas in each direction | Two cells that differ in one direction or the other are the least for which the port index is wrong. |
| configuration files | 460 for the cells and bearers, one more per radio unit | No `cell_cfg` or one of nine sections (a PLMN and TAC, a fixed MCS, `QAM256` in capitals, a common search space with and without DCI 1_1, a band with a TDD pattern of 2.5 ms, a numerology, RV sequences of two and of four versions, a PUSCH MCS range upside down, a rejected bandwidth, a rejected RV sequence, a rejected MCS of SIB1); no entry of `cells`, one or two, of four sections that keep to per-cell options and three that do not (a band, a PLMN with a numerology, a TDD pattern and an RV sequence, an MCS range); no bearer, one or two, among them a duplicate 5QI, an unknown RLC mode, bad PDCP and RLC sizes and a missing subsection; and each of six validators refusing the file, or none. Two entries are the least for "more entries than cells"; one entry meets the one cell there is by default. |
| `Bands` | n7 (FDD), n78 (TDD) | One of each duplex, so that the band read through the empty optional can change the length of the PRACH preamble. |
| sections `ru_ofh` | none, or one of six (ten in `T1aWindows.cfg`) | Windows written whole and in part, at both ends of their range and past it; a processing delay of 0 and of 30 slots; an operating bandwidth the check accepts and one it refuses. `T1aWindows.cfg` adds a maximum below the minimum the configuration starts with, a minimum above that maximum, and a window written the wrong way round. The values the configuration starts with are 500/258, 500/285 and 300/85 microseconds. |
| `MacFields` | 0 .. 255 | A byte of a MAC address; addresses of five, six and seven fields are parsed. |
| `NEON_SIZE_BYTE` | 4 (16 in the code) | Nodes of one vector (lifting size 3), of two (5 and 7) and of four (13), with tails of one and of three bytes. |
| `BG1_K`, `BG1_M`, `BG2_K`, `BG2_M` | 3, 6, 3, 5 (22, 46, 10, 42) | Three information nodes, the four check nodes of the high-rate region, and two or one of the extension: every loop runs more than once and the extension reads the whole core. |
| lifting sizes | 13 (set index 6), 3 (index 1), 7 (index 3), 5 (index 2) | One graph per high-rate strategy. 105 % 13 is neither 0 nor 1; with 5 a rotation forward differs from one backward, which with 2 it does not. |
| `UninitializedBytes` | {0, 255} | What the buffers hold before the first call: nothing, or every bit set. |
| `MaxCalls` | 2 | The second call finds what the first left, with another graph, lifting size and output size. |

`two_ues` declares the UEs symmetric: `MCBusyInit`, the actions and the two
invariants treat them alike. No other run has more than one UE.

### 3.3 Fairness

`LiveSpec` assumes

* weak fairness of `SlotIndication(c)`: the lower layers deliver a slot
  indication every slot, and the action is always enabled;
* strong fairness of `DlGrantGiven(u, h)` and `UlGrantGiven(u, h)`, a grant
  being allocated for a HARQ process: the policy visits every process with a
  pending retransmission in every slot, but an allocation is only possible in
  DL or UL slots with free resources, so the action is enabled again and
  again and not continuously.

No liveness is claimed of the reestablishment routine: it moves only when a
peer answers, and the timers that make a peer answer are not in `src/`. The
start-up, `decode()` and `encode()` are sequential code without a wait: that
they end is seen from their loops, and the runs check safety only.

Nothing is assumed of the PHY: reports may be lost for ever, and the ACK
timeout is what `RemovalCompletes` then rests on.

## 4. Result so far

The eight passing runs find no error. Four runs and three configurations
kept beside them show where the code and what is said of it part.

`T1aWindows.cfg`: `configure_cli11_ru_ofh_args` declares the six options of
the T1a windows, each with `CLI::Range(0, 1960)`, and then compares each
minimum with its maximum (lines 787-798): "T1a maximum value must be
greater than minimum value". The comparison runs once, when the schema is
built, on the values `ru_ofh_appconfig` is constructed with; the file is
parsed afterwards and `parse_ru_config` has no callback that repeats it.
TLC's behaviour: a file with `t1a_max_up: 50` and no other option of the
section passes the range, the callback of `parse_ru_config` accepts the
section, and `generate_ru_ofh_config` (lines 604-609) leaves a window for
the user plane that starts at 85 and ends at 50 microseconds. Whether
`is_valid_ru_ofh_config`, which is not in `src/`, refuses it is not known.
The run list is full: the defect is recorded as a finding without a run
and as a hazard.

`CellSections.cfg`: the help of `--cells` says an entry overwrites what
`cell_cfg` set. TLC's behaviour: a file without `cell_cfg` and with one
entry of `cells` that sets the PLMN 00103; `generate_du_cell_config` takes
the PLMN of the cell (line 98) and the DU broadcasts 00103,
`generate_cu_cp_config` takes that of the common cell (line 45) and the
CU-CP announces 00101. The same holds of the TAC, of the MCS range (the DU
cell decides on CSI-RS from the cell's, line 74, the scheduler is given the
common cell's, line 763), of the numerology (`generate_du_low_config` takes
the slots from the common cell, line 689, and the active numerology from
the first cell, line 728) and of the band (lines 695-700, where the value
of the common cell's band is read whenever the cell has one). The SSB
period, the search space, the number of HARQ processes, the MCS tables and
the TDD pattern of an entry are read by nobody (lines 102, 133-179).
`ConsumersAgree` says for which files the consumers agree. The run list is
full, so this disagreement is recorded as a hazard and not as a finding.

`removal_stranded`: `allocate_dl_grant` refuses a retransmission whose
search space is not in the configuration of the UE (line 96) or has another
DCI format than the process was last allocated with (line 108). TLC's
behaviour: the UE gets a PDSCH with DCI format 1_1 in the dedicated search
space, the MAC reconfigures it to a configuration without that search space,
the report is lost and the process times out into pending-retx, the MAC
removes the UE. Every grant the policy can propose is refused from then on,
the process never empties, and `slot_indication` keeps the UE in `to_rem`
for ever: the MAC is never answered, which section 4.5 of the specification
and `scheduler_ue_removal_test.cpp` ask for. `removal_live`, in which the
configuration stays, passes.

`zmq_ports`: `generate_radio_config` computes the index of a ZMQ port as
`sector_id * cell.nof_antennas_dl + port_id`, for reception as for
transmission and with the antennas of the cell at hand. With a first cell of
one antenna and a second of two, the second cell starts at index 2 and
skips a port; with one DL and two UL antennas per cell the second UL channel
of the first cell and the first of the second share a port. The comment of
the function says each cell is mapped to a different stream.
`AlikeCellsTakePortsInOrder` says for which cells the index is right.

`BfpSaturated.cfg`: `compress_prb_generic` takes
`max(abs(max), abs(min) - 1)` as the magnitude of a PRB. When every sample
is -32768 the magnitude is 32768, `__builtin_clz(x) - 16U - 1U` wraps in
`determine_exponent`, `std::min` takes the exponent 0 in place of the
largest, and the PRB is decompressed as zeros. Block floating point
represents -32768 exactly. The PRBs of `fronthaul` have a sample above
-32768, and the hazard is listed in `PROJECT.json` at line 62.

`reestablishment_drbs` shows a defect of
the routine: `radio_bearer_config` is declared inside the loop over the PDU
sessions and assigned to `rrc_reconfig_args.radio_bearer_cfg` in every
iteration (line 108), so for a UE with two PDU sessions the reconfiguration
carries the DRBs of the last one, and the routine returns true. `uci_leak` reproduces a divergence
between the code and section 4.6 (step 8) of the specification, in seven
steps: a UE is created and gets DL data, the policy proposes a PDSCH of one
RB, the PDCCH is allocated, `alloc_uci_harq_ue` reserves a HARQ-ACK bit,
no MCS is feasible, and `allocate_dl_grant` (line 246) cancels the PDCCH and
returns with the bit still reserved.

## 5. Assumptions

* The HARQ processes, the UE repository, the ring, the PDCCH and UCI
  allocators, the slot handler, and the MAC and the PHY around the
  scheduler are modelled from the specification: their code is not in
  `src/`, and `PROJECT.json` maps their definitions to no line.
  `scheduler_ue_removal_test.cpp` shows what is expected of a removal; no
  definition is a translation of it.
* The radio unit compresses with the parameters the decoder was built with
  (static compression), and sends the exponents `compress` computes. The
  decoder and the decompressor are built by factories that are not in
  `src/`; `Fronthaul` assumes they are given `ul_compression_params` of the
  configuration unchanged.
* `encode()` of the base class calls the five steps in order with a
  codeblock length of whole nodes that covers the high-rate region and two
  nodes more than the output, and with a graph of TS 38.212; outputs are of
  `bg_K + 2` nodes at least.
* CLI11 and `gnb_appconfig.h` are not in `src/`. `CellConfig` assumes of
  CLI11: a section is parsed before the options that follow it in the
  schema, and `parse_complete_callback` runs when its section was parsed
  (the comment at line 915 says so); a check that fails throws
  `CLI::ParseError`, which ends the application; `IsMember` with
  `ignore_case` hands the option function the member it matched, not the
  spelling of the file; the callback given to `app.callback` of a
  section runs after the `parse_complete_callback` of that section, so the
  cells are made the common cell (lines 915-920) before the TDD pattern of
  the common cell is verified (lines 490-496): a file whose `cell_cfg`
  writes no TDD option leaves the cells with the pattern the schema put in
  and the common cell without one. Only the pattern of the common cell is
  read by a translator. Of `gnb_appconfig.h`: the defaults of release 23.5
  (one cell; PCI 1, ARFCN 536020, 15 kHz, 20 MHz, one antenna, PLMN 00101,
  TAC 7, MCS 0 to 28, QAM64, 16 HARQs, RV sequences 0 2 3 1 for the PDSCH
  and 0 for the PUSCH, a TDD pattern of 6 DL and 3 UL slots in 5 ms, PUCCH
  code rate dot25), and T1a windows of `ru_ofh_appconfig` that are in
  order, without which the application would stop at every start. A list
  in the file has a member. Of `srsran::optional`: `value()`
  of an empty optional is an assertion where assertions are compiled in and
  an undefined read where they are not.
* A slice of `device_args` is a key and a value. `extract_zmq_ports` looks
  for `tx_port` or `rx_port` anywhere in the slice (`find`, line 457); the
  model compares the key, so a slice whose value holds the word is not among
  the files of the runs.
* `main()` is not in `src/`. `Gnb` runs the translators of the cells in the
  order of their file and before `generate_ru_config`; every translator
  only reads `gnb_appconfig`, so no property depends on the order.
* `band_helper`, `config_helpers` and the validators are not in `src/`:
  the band of an ARFCN, the duplex of a band and the long PRACH formats are
  constants, and whether a validator refuses the file is part of the file.
* The up_context of the UE does not change while the reestablishment routine
  is suspended.
* The cells of a scheduler are at most one slot apart: `SlotIndication(c)`
  is enabled when every other cell is at the slot of `c` or at the next
  one. The lower layers call `slot_indication` of the cells of a DU in
  every slot; how far they may drift is not in `src/`.
* Every run of the scheduler but `removal_live` has one cell. The modules
  take any set of cells; with two cells `UeLifecycle.cfg` passes a million
  distinct states without finishing.

## 6. Not modelled, and the plan

Not modelled, for good:

* the sections `log`, `pcap`, `amf`, `cu_cp`, `expert_phy` and `test_mode`
  of the schema, the amplitude control of a cell and the options of the
  RLC, the F1-U and the PDCP of a bearer that no translator checks: options
  that are copied and compared by nobody;
* `make_pdcp_drb_config` (`e1ap_config_converters.h`): a conversion without
  a branch but for three optionals, whose input is built and whose result
  is used by code that is not in `src/`;
* what `is_valid_ru_ofh_config`, `is_du_cell_config_valid` and
  `is_scheduler_expert_config_valid` require (a TDD pattern that fits its
  period, a minimum MCS below the maximum, a radio unit at least as wide
  as the cell): the validators are not in `src/` and the schema accepts
  each of these;
* the F1AP adapter of the application, which forwards a message to the
  handler it was given;
* the Open Fronthaul receiver and transmitter: constructors that store
  handlers, and `handle_dl_data`, which forwards a grid to two data flows
  whose code is not in `src/`;
* headers, factories, constants and test helpers;
* within the scheduler: PDU fields no decision depends on, PUCCH resource
  indices, SIB, paging and random access;
* the quantizer of the compression (`to_float`, `to_int16`) and `slot_point`,
  which are not in `src/`.

Planned, in this order:

1. The configuration of the cells as the help of `cells` promises it, and
   the T1a windows as the error messages promise them, as runs of their
   own, once runs can be spared.
2. `MaxFeedbackDelay >= MaxAckWait`: a report racing the timeout of its
   process, and a report of a UE that was erased and created anew.
3. The reestablishment routine with the lists `drb_setup_list_ng_ran` and
   `drb_modified_list_ng_ran` related the way the E1AP procedures relate
   them (line 228), once that can be settled from code.
4. The two-bit limit of HARQ-ACK on PUCCH in CSI slots with three DL HARQ
   processes, and the total DAI of DCI 0_1 against PDSCHs allocated later.
5. A radio unit that sends any exponent (`udCompParam` of 16 and more), once
   what the decoder owes for it is settled.
