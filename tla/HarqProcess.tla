---------------------------- MODULE HarqProcess ----------------------------
(***************************************************************************)
(* One HARQ process of a UE carrier, as a value, and the operations the    *)
(* scheduler applies to it.  A process carries one transport block; it is  *)
(* empty, waiting for the acknowledgement of its last transmission, or has *)
(* a retransmission pending.  DL and UL processes share the record: an UL  *)
(* process is acknowledged by the CRC of the PUSCH slot itself, so its     *)
(* slot_ack is its slot_tx and it has no DAI.                              *)
(*                                                                         *)
(* The redundancy version selection is lib/scheduler/ue_scheduling/        *)
(* ue_cell.h; the state machine itself (harq_process.cpp) is modelled from *)
(* section 4.5 of the specification.                                       *)
(***************************************************************************)
EXTENDS Integers, Sequences

CONSTANTS
    NofSlots,           \* slot numbers wrap at NofSlots (slot_point is modular)
    MaxHarqRetxs,       \* expert_cfg.max_nof_harq_retxs
    MaxAckWait,         \* slots after slot_ack before a missing ACK times out
    PdschRvSequence,    \* expert_cfg.pdsch_rv_sequence
    PuschRvSequence     \* expert_cfg.pusch_rv_sequence

ASSUME /\ NofSlots \in Nat \ {0}
       /\ MaxHarqRetxs \in Nat
       /\ MaxAckWait \in Nat \ {0}
       /\ PdschRvSequence \in Seq(0..3) /\ PdschRvSequence # <<>>
       /\ PuschRvSequence \in Seq(0..3) /\ PuschRvSequence # <<>>

Slot == 0..(NofSlots - 1)

\* slot_point + k
SlotAdd(s, k) == (s + k) % NofSlots

\* number of slots from "from" forward to "to", modulo the wrap
SlotDist(from, to) == (to - from + NofSlots) % NofSlots

HarqStates == {"empty", "waiting_ack", "pending_retx"}

AckValues == {"ack", "nack", "dtx"}

\* The parameters of no allocation; an empty process holds them.
NoAllocParams == [dci_type |-> "none", nof_rbs |-> 0, mcs |-> 0, tbs |-> 0]

EmptyHarq ==
    [state |-> "empty", slot_tx |-> 0, slot_ack |-> 0, nof_retxs |-> 0,
     dai |-> 0, params |-> NoAllocParams]

IsEmpty(h) == h.state = "empty"

HasPendingRetx(h) == h.state = "pending_retx"

IsWaitingAck(h) == h.state = "waiting_ack"

\* dl_harq_process::new_tx: the process starts a new transport block.
NewTx(h, slot_tx, k1, dai) ==
    [h EXCEPT !.state = "waiting_ack", !.slot_tx = slot_tx,
              !.slot_ack = SlotAdd(slot_tx, k1), !.nof_retxs = 0, !.dai = dai]

\* dl_harq_process::new_retx: the same transport block is sent once more.
NewRetx(h, slot_tx, k1, dai) ==
    [h EXCEPT !.state = "waiting_ack", !.slot_tx = slot_tx,
              !.slot_ack = SlotAdd(slot_tx, k1), !.nof_retxs = @ + 1, !.dai = dai]

\* save_alloc_params: what the last PDCCH and PDSCH/PUSCH of the block said.
SaveAllocParams(h, dci_type, nof_rbs, mcs, tbs) ==
    [h EXCEPT !.params = [dci_type |-> dci_type, nof_rbs |-> nof_rbs,
                          mcs |-> mcs, tbs |-> tbs]]

\* ack_info / crc_info: a positive acknowledgement releases the process; a
\* negative one asks for a retransmission while the budget lasts and
\* releases the process, the block lost, once it is spent.
AckInfo(h, ack) ==
    IF ack = "ack" \/ h.nof_retxs >= MaxHarqRetxs
    THEN EmptyHarq
    ELSE [h EXCEPT !.state = "pending_retx"]

\* slot_point difference to - from, taken as slot_point does: a slot less
\* than half a wrap behind is in the past, the others are in the future.
SlotDiff(from, to) ==
    LET d == SlotDist(from, to)
    IN  IF 2 * d < NofSlots THEN d ELSE d - NofSlots

\* The acknowledgement is overdue at slot sl_tx.
AckTimedOut(h, sl_tx) == SlotDiff(h.slot_ack, sl_tx) >= MaxAckWait

\* harq_process::slot_indication: an acknowledgement that never came counts
\* as a negative one.  A pending retransmission waits for the policy.
HarqSlotIndication(h, sl_tx) ==
    IF IsWaitingAck(h) /\ AckTimedOut(h, sl_tx) THEN AckInfo(h, "nack") ELSE h

\* ue_cell::get_pdsch_rv
GetPdschRv(h) == PdschRvSequence[(h.nof_retxs % Len(PdschRvSequence)) + 1]

\* ue_cell::get_pusch_rv
GetPuschRv(h) == PuschRvSequence[(h.nof_retxs % Len(PuschRvSequence)) + 1]

=============================================================================
