--------------------------- MODULE UeEventManager ---------------------------
(***************************************************************************)
(* lib/scheduler/ue_scheduling/ue_event_manager.cpp.  The MAC and the PHY  *)
(* call the handle_* methods from their own threads; each puts an event, a *)
(* UE index and a callback, at the back of a pending list.  run(), called  *)
(* by the slot handler of a cell, swaps the pending list in and runs the   *)
(* callbacks in order against the UE repository.  Common events (of the    *)
(* MAC) are shared by all cells and run by the PCell of their UE;          *)
(* cell-specific events (CRC and UCI of the PHY) have one list per cell.   *)
(*                                                                         *)
(* An event is a record: its type and arguments stand for the callback.    *)
(* A callback maps the scheduler state st = [db, mac, srb0] to the state   *)
(* it leaves, so that run() is a fold of the callbacks over the list.      *)
(***************************************************************************)
EXTENDS UeRepository

CONSTANTS
    MAX_NOF_DU_UES,     \* the ue_index of an event that creates its UE
    MaxPendingEvents    \* events one pending list holds between two slots

VARIABLES
    common_events,      \* [pending, current]: the slot_event_list of common events
    cell_events,        \* cell_events[c]: pending cell-specific events of cell c
    last_sl,            \* slot of the last swap of the common list
    mac_ue,             \* what the MAC has been told of each UE index
    srb0_ues            \* UEs signalled to the SRB0 scheduler in this slot

MacUeStates == {"none", "creating", "active", "reconfiguring", "removing", "error"}

\* sched_configuration_notifier::on_ue_config_complete, as the MAC takes it
OnUeConfigComplete(mac, u) ==
    [mac EXCEPT ![u] = IF @ \in {"creating", "reconfiguring"} THEN "active" ELSE "error"]

\* sched_configuration_notifier::on_ue_delete_response, as the MAC takes it
OnUeDeleteResponse(mac, u) ==
    [mac EXCEPT ![u] = IF @ = "removing" THEN "none" ELSE "error"]

\* slot_event_list::emplace
Emplace(list, ev) == Append(list, ev)

HasRoom(list) == Len(list) < MaxPendingEvents

EmplaceCommon(ev) ==
    /\ HasRoom(common_events.pending)
    /\ common_events' = [common_events EXCEPT !.pending = Emplace(@, ev)]
    /\ UNCHANGED <<cell_events, last_sl>>

EmplaceCell(c, ev) ==
    /\ HasRoom(cell_events[c])
    /\ cell_events' = [cell_events EXCEPT ![c] = Emplace(@, ev)]
    /\ UNCHANGED <<common_events, last_sl>>

----------------------------------------------------------------------------
(* The handlers: what each puts in a list, and what its callback does. *)

HandleUeCreationRequest(u, cell, cfg) ==
    EmplaceCommon([type |-> "ue_creation", ue_index |-> MAX_NOF_DU_UES,
                   ue |-> u, ctx |-> NewUe(cell, cfg)])

UeCreation(st, ev) ==
    [st EXCEPT !.db = AddUe(@, ev.ue, ev.ctx), !.mac = OnUeConfigComplete(@, ev.ue)]

HandleUeReconfigurationRequest(u, cfg) ==
    EmplaceCommon([type |-> "ue_reconf", ue_index |-> u, cfg |-> cfg])

UeReconfiguration(st, ev) ==
    IF ~UeDbContains(st.db, ev.ue_index) THEN st
    ELSE [st EXCEPT !.db.ue[ev.ue_index].cfg = ev.cfg,
                    !.mac = OnUeConfigComplete(@, ev.ue_index)]

HandleUeRemovalRequest(u) ==
    EmplaceCommon([type |-> "ue_rem", ue_index |-> u])

\* Mutant: the UE is erased when the event runs, whatever it waits for.
UeRemovalAtOnce(st, ev) ==
    IF ~UeDbContains(st.db, ev.ue_index) THEN st
    ELSE [st EXCEPT !.db.ue = [u \in DOMAIN @ \ {ev.ue_index} |-> @[u]],
                    !.mac = OnUeDeleteResponse(@, ev.ue_index)]

\* Mutant: the event runs and the UE stays.
UeRemovalForgotten(st, ev) == st

UeRemoval(st, ev) ==
    IF ~UeDbContains(st.db, ev.ue_index) THEN st
    ELSE [st EXCEPT !.db = ScheduleUeRem(@, ev.ue_index)]

HandleUlBsrIndication(u, bytes) ==
    EmplaceCommon([type |-> "bsr", ue_index |-> u, bytes |-> bytes])

UlBsr(st, ev) ==
    IF ~UeDbContains(st.db, ev.ue_index) THEN st
    ELSE [st EXCEPT !.db.ue[ev.ue_index].ul_bytes = ev.bytes]

HandleDlMacCeIndication(u) ==
    EmplaceCommon([type |-> "mac_ce", ue_index |-> u])

DlMacCe(st, ev) ==
    IF ~UeDbContains(st.db, ev.ue_index) THEN st
    ELSE [st EXCEPT !.db.ue[ev.ue_index].dl_bytes = IF @ < MaxBytes THEN @ + 1 ELSE @]

HandleDlBufferStateIndication(u, lcid, bytes) ==
    EmplaceCommon([type |-> "dl_bs", ue_index |-> u, lcid |-> lcid, bytes |-> bytes])

DlBufferState(st, ev) ==
    IF ~UeDbContains(st.db, ev.ue_index) THEN st
    ELSE [st EXCEPT !.db.ue[ev.ue_index].dl_bytes = ev.bytes,
                    !.srb0 = IF ev.lcid = "LCID_SRB0" THEN @ \cup {ev.ue_index} ELSE @]

\* One event for each PDU of the indication.
HandleCrcIndication(c, sl_rx, crc) ==
    EmplaceCell(c, [type |-> "crc", ue_index |-> crc.ue, sl_rx |-> sl_rx,
                    harq_id |-> crc.harq_id, tb_crc_success |-> crc.tb_crc_success])

Crc(ctx, ev) ==
    IF CrcMatches(ctx, ev.sl_rx, ev.harq_id)
    THEN HandleCrcPdu(ctx, ev.harq_id, ev.tb_crc_success)
    ELSE ctx

\* Bit harq_idx of the report answers the PDSCH whose DAI is harq_idx mod 4.
HandleHarqInd(ctx, uci_sl, harq_bits) ==
    FoldLeft(LAMBDA cc, idx : DlAckInfo(cc, uci_sl, harq_bits[idx], (idx - 1) % 4),
             ctx, [idx \in DOMAIN harq_bits |-> idx])

\* The four bits of CSI part 1 are the wideband CQI, first bit highest.
\* Mutant: every bit weighs double.
WbCqiShifted(csi_bits) == 16 * csi_bits[1] + 8 * csi_bits[2] + 4 * csi_bits[3] + 2 * csi_bits[4]

WbCqi(csi_bits) == 8 * csi_bits[1] + 4 * csi_bits[2] + 2 * csi_bits[3] + csi_bits[4]

HandleCsi(ctx, csi_bits) ==
    IF Len(csi_bits) < 4 THEN ctx ELSE [ctx EXCEPT !.cqi = WbCqi(csi_bits)]

\* One event for each PDU of the indication.
HandleUciIndication(c, slot_rx, u, pdu) ==
    EmplaceCell(c, [type |-> "uci", ue_index |-> u, uci_sl |-> slot_rx, pdu |-> pdu])

HasSr(pdu) ==
    \/ pdu.variant = "pucch_f0_or_f1" /\ pdu.sr_detected
    \/ pdu.variant = "pucch_f2_or_f3_or_f4" /\ pdu.sr_info # <<>> /\ pdu.sr_info[1] = 1

HasCsi(pdu) == pdu.variant # "pucch_f0_or_f1" /\ pdu.csi_part1 # <<>>

Uci(ctx, ev) ==
    LET acked == HandleHarqInd(ctx, ev.uci_sl, ev.pdu.harqs)
        asked == IF HasSr(ev.pdu) THEN [acked EXCEPT !.sr = TRUE] ELSE acked
    IN  IF HasCsi(ev.pdu) THEN HandleCsi(asked, ev.pdu.csi_part1) ELSE asked

----------------------------------------------------------------------------
(* run(): the callbacks of a slot of cell c. *)

CommonCallback(st, ev) ==
    CASE ev.type = "ue_creation" -> UeCreation(st, ev)
      [] ev.type = "ue_reconf"   -> UeReconfiguration(st, ev)
      [] ev.type = "ue_rem"      -> UeRemoval(st, ev)
      [] ev.type = "bsr"         -> UlBsr(st, ev)
      [] ev.type = "mac_ce"      -> DlMacCe(st, ev)
      [] ev.type = "dl_bs"       -> DlBufferState(st, ev)

\* The common list that the slot works on: the pending one when the slot is
\* new to the event manager, the current one when another cell swapped it in.
CurrentCommon(sl) ==
    IF last_sl # sl THEN common_events.pending ELSE common_events.current

\* Mutant: the event that creates a UE is looked up as any other.
ProcessCommonEventOfKnownUe(c, acc, ev) ==
    IF UeDbContains(acc.st.db, ev.ue_index) /\ acc.st.db.ue[ev.ue_index].pcell = c
    THEN [acc EXCEPT !.st = CommonCallback(@, ev)]
    ELSE IF UeDbContains(acc.st.db, ev.ue_index)
         THEN [acc EXCEPT !.left = Append(@, ev)] ELSE acc

\* Mutant: the event of a UE of another cell is not left to its PCell.
ProcessCommonEventOfThisCellOnly(c, acc, ev) ==
    IF ev.ue_index = MAX_NOF_DU_UES
          \/ (UeDbContains(acc.st.db, ev.ue_index) /\ acc.st.db.ue[ev.ue_index].pcell = c)
    THEN [acc EXCEPT !.st = CommonCallback(@, ev)]
    ELSE acc

\* process_common: an event runs when it creates a UE or when cell c is the
\* PCell of its UE; it is dropped when its UE is unknown and is left to the
\* PCell otherwise.  acc.left are the events whose callback is not yet empty.
ProcessCommonEvent(c, acc, ev) ==
    LET known == UeDbContains(acc.st.db, ev.ue_index)
    IN  IF ev.ue_index = MAX_NOF_DU_UES \/ (known /\ acc.st.db.ue[ev.ue_index].pcell = c)
        THEN [acc EXCEPT !.st = CommonCallback(@, ev)]
        ELSE IF known THEN [acc EXCEPT !.left = Append(@, ev)] ELSE acc

ProcessCommon(st, sl, c) ==
    FoldLeft(LAMBDA acc, ev : ProcessCommonEvent(c, acc, ev),
             [st |-> st, left |-> <<>>], CurrentCommon(sl))

\* process_cell_specific: the callback runs on the carrier of the UE in
\* cell c; the event of an unknown UE, or of a UE without it, is skipped.
ProcessCellEvent(c, st, ev) ==
    IF UeDbContains(st.db, ev.ue_index) /\ st.db.ue[ev.ue_index].pcell = c
    THEN [st EXCEPT !.db.ue[ev.ue_index] =
                        IF ev.type = "crc" THEN Crc(@, ev) ELSE Uci(@, ev)]
    ELSE st

ProcessCellSpecific(st, c) ==
    FoldLeft(LAMBDA s, ev : ProcessCellEvent(c, s, ev), st, cell_events[c])

\* The scheduler state that run(sl, c) leaves.
RunResult(sl, c) ==
    ProcessCellSpecific(
        ProcessCommon([db |-> ue_db, mac |-> mac_ue, srb0 |-> {}], sl, c).st, c)

\* What run(sl, c) does to the lists.
Run(sl, c) ==
    /\ common_events' =
           [pending |-> IF last_sl # sl THEN <<>> ELSE common_events.pending,
            current |-> ProcessCommon([db |-> ue_db, mac |-> mac_ue, srb0 |-> {}],
                                      sl, c).left]
    /\ last_sl' = sl
    /\ cell_events' = [cell_events EXCEPT ![c] = <<>>]

\* The constructor and add_cell: empty lists, no slot seen yet.
EventManagerInit ==
    /\ common_events = [pending |-> <<>>, current |-> <<>>]
    /\ cell_events = [c \in Cells |-> <<>>]
    /\ last_sl = -1

=============================================================================
