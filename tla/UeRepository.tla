---------------------------- MODULE UeRepository ----------------------------
(***************************************************************************)
(* The UEs the scheduler knows (ue_repository) and what it keeps for each  *)
(* (ue, ue_cell, harq_entity): the dedicated configuration, the DL and UL  *)
(* HARQ processes, the pending bytes, the scheduling request and the link  *)
(* metrics.  A UE has one serving cell, its PCell.  The repository and the *)
(* UE are modelled from sections 3, 4.5 and 4.7 of the specification; the  *)
(* handlers of the event manager and the grid allocator apply the          *)
(* operations below to the value of ue_db.                                 *)
(***************************************************************************)
EXTENDS CellResources

CONSTANTS
    NofDlHarqs,         \* DL HARQ processes of a UE carrier
    NofUlHarqs,         \* UL HARQ processes of a UE carrier
    MaxBytes,           \* pending bytes are counted up to MaxBytes
    MaxKos,             \* consecutive_pusch_kos is counted up to MaxKos
    InitialCqi          \* latest_wb_cqi set by the ue_cell constructor

VARIABLES
    ue_db               \* [ue: present UE index -> context, to_rem: UEs to remove]

DlHarqIds == 1..NofDlHarqs
UlHarqIds == 1..NofUlHarqs

\* ue::ue and ue_cell::ue_cell
NewUe(cell, cfg) ==
    [pcell |-> cell, cfg |-> cfg,
     dl_harqs |-> [h \in DlHarqIds |-> EmptyHarq],
     ul_harqs |-> [h \in UlHarqIds |-> EmptyHarq],
     dl_bytes |-> 0, ul_bytes |-> 0, sr |-> FALSE, kos |-> 0, cqi |-> InitialCqi]

EmptyUeDb == [ue |-> <<>>, to_rem |-> <<>>]

\* ue_repository::contains
UeDbContains(db, u) == u \in DOMAIN db.ue

\* ue_repository::add_ue
AddUe(db, u, ctx) == [db EXCEPT !.ue = (u :> ctx) @@ @]

\* ue_repository::schedule_ue_rem: the bearers are deactivated at once, the
\* UE itself leaves when its HARQ processes allow it.
ScheduleUeRem(db, u) ==
    [db EXCEPT !.to_rem = Append(@, u),
               !.ue[u].dl_bytes = 0, !.ue[u].ul_bytes = 0, !.ue[u].sr = FALSE]

AllHarqsEmpty(ctx) ==
    /\ \A h \in DlHarqIds : IsEmpty(ctx.dl_harqs[h])
    /\ \A h \in UlHarqIds : IsEmpty(ctx.ul_harqs[h])

\* The UEs of cell c that ue_repository::slot_indication deletes.
Removable(db, c) ==
    {u \in Range(db.to_rem) : db.ue[u].pcell = c /\ AllHarqsEmpty(db.ue[u])}

\* ue::slot_indication: the HARQ processes of the UE see the new slot.
UeSlotIndication(ctx, sl_tx) ==
    [ctx EXCEPT !.dl_harqs = [h \in DlHarqIds |-> HarqSlotIndication(@[h], sl_tx)],
                !.ul_harqs = [h \in UlHarqIds |-> HarqSlotIndication(@[h], sl_tx)]]

\* ue_repository::slot_indication for the UEs of cell c: the UEs to remove
\* that have no HARQ process left in use are deleted, the others go on.
UeDbSlotIndication(db, c, sl_tx) ==
    LET gone == Removable(db, c)
        kept == DOMAIN db.ue \ gone
    IN  [ue |-> [u \in kept |-> IF db.ue[u].pcell = c
                                THEN UeSlotIndication(db.ue[u], sl_tx)
                                ELSE db.ue[u]],
         to_rem |-> SelectSeq(db.to_rem, LAMBDA u : u \notin gone)]

----------------------------------------------------------------------------
(* Operations of one UE, on its context. *)

\* find_empty_dl_harq / find_empty_ul_harq: the lowest empty process, 0 if none
FirstHarq(ids) == IF ids = {} THEN 0 ELSE Min(ids)

FindEmptyHarq(harqs) == FirstHarq({h \in DOMAIN harqs : IsEmpty(harqs[h])})

\* harq_entity::dl_ack_info: the process that waits, at slot uci_sl, for the
\* acknowledgement with this DAI takes it; no process changes when none does.
DlAckInfo(ctx, uci_sl, ack, dai) ==
    LET Waits(h) == IsWaitingAck(h) /\ h.slot_ack = uci_sl /\ h.dai = dai
        id == FirstHarq({h \in DlHarqIds : Waits(ctx.dl_harqs[h])})
    IN  IF id = 0 THEN ctx ELSE [ctx EXCEPT !.dl_harqs[id] = AckInfo(@, ack)]

\* The UL process crc.h_id took a PUSCH at slot sl_rx (ul_crc_info finds it).
CrcMatches(ctx, sl_rx, h_id) ==
    /\ h_id \in UlHarqIds
    /\ ~IsEmpty(ctx.ul_harqs[h_id])
    /\ ctx.ul_harqs[h_id].slot_ack = sl_rx

\* ue_cell::handle_crc_pdu when the process is found
HandleCrcPdu(ctx, h_id, success) ==
    [ctx EXCEPT !.ul_harqs[h_id] = AckInfo(@, IF success THEN "ack" ELSE "nack"),
                !.kos = IF success THEN 0 ELSE IF @ < MaxKos THEN @ + 1 ELSE @]

\* ue::pending_ul_newtx_bytes: what the BSR reported and no HARQ carries yet
PendingUlNewTxBytes(ctx) ==
    LET carried == FoldFunction(LAMBDA h, n : n + h.params.tbs, 0, ctx.ul_harqs)
    IN  IF ctx.ul_bytes > carried THEN ctx.ul_bytes - carried
        ELSE IF ctx.sr THEN 1 ELSE 0

\* ue::build_dl_transport_block_info: the block takes up to tbs pending bytes
BuildDlTransportBlock(ctx, tbs) ==
    [ctx EXCEPT !.dl_bytes = IF @ > tbs THEN @ - tbs ELSE 0]

=============================================================================
