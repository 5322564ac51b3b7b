--------------------------- MODULE CellResources ---------------------------
(***************************************************************************)
(* What a cell has to give away slot by slot: the ring of slot resource    *)
(* allocators (cell_resource_allocator), each with its DL and UL resource  *)
(* grid and its scheduling result, and the PDCCH and UCI allocators that   *)
(* reserve control resources in it.  These collaborators of the UE grid    *)
(* allocator are modelled from sections 4.1 to 4.4 of the specification;   *)
(* a CORESET is abstracted to a number of CCEs, a PUCCH resource to the    *)
(* number of HARQ-ACK bits it carries.                                     *)
(***************************************************************************)
EXTENDS SchedConfig, SequencesExt

CONSTANTS
    RingSize,           \* slots the ring covers: now .. now + RingSize - 1
    NofCces,            \* CCEs of the CORESET in one slot
    MaxDlPdcchs,        \* capacity of result.dl.dl_pdcchs
    MaxUeGrants,        \* capacity of result.dl.ue_grants
    MaxPuschs,          \* capacity of result.ul.puschs
    MaxPucchHarqBits,   \* HARQ-ACK bits one PUCCH of a UE carries
    MaxPuschHarqBits    \* HARQ-ACK bits multiplexed on one PUSCH

VARIABLES
    now,                \* now[c]: the slot cell c is scheduling (ring offset 0)
    ring                \* ring[c][k + 1]: the resources of slot now[c] + k

ASSUME RingSize \in 1..(NofSlots - 1)

EmptySlotRes ==
    [dl_grid |-> {}, ul_grid |-> {}, pdcchs |-> <<>>, ue_grants |-> {},
     puschs |-> {}, uci |-> [u \in UEs |-> 0]]

\* cell_resource_allocator::operator[](offset) and its slot
ResAt(c, k) == ring[c][k + 1]
SlotAt(c, k) == SlotAdd(now[c], k)

\* cell_resource_allocator::operator[](slot_point)
ResAtSlot(c, s) == ResAt(c, SlotDist(now[c], s))

\* cell_resource_allocator::slot_indication: the slot that was scheduled
\* leaves the ring and a cleared one enters at its far end.
RingSlotIndication(c) ==
    /\ now' = [now EXCEPT ![c] = SlotAdd(@, 1)]
    /\ ring' = [ring EXCEPT ![c] = Tail(@) \o <<EmptySlotRes>>]

----------------------------------------------------------------------------
(* Resource grid: the cells (symbol, RB) of one slot and direction. *)

GrantCells(symbols, crbs) == symbols \X (crbs.start..(crbs.stop - 1))

\* cell_slot_resource_grid::collides
Collides(grid, symbols, crbs) == grid \cap GrantCells(symbols, crbs) # {}

\* cell_slot_resource_grid::fill
Fill(grid, symbols, crbs) == grid \cup GrantCells(symbols, crbs)

----------------------------------------------------------------------------
(* PDCCH allocator.  sr.pdcchs holds the DL and UL PDCCHs of the slot in   *)
(* the order they were reserved, so that the last one can be cancelled.    *)

DlPdcchs(sr) == SelectSeq(sr.pdcchs, LAMBDA p : p.dir = "dl")

UsedCces(sr) == FoldLeft(LAMBDA n, p : n + p.aggr_lvl, 0, sr.pdcchs)

\* alloc_dl_pdcch_ue / alloc_ul_pdcch_ue find L free CCEs
HasPdcchSpace(sr, aggr_lvl) == UsedCces(sr) + aggr_lvl <= NofCces

AllocPdcch(sr, pdcch) == [sr EXCEPT !.pdcchs = Append(@, pdcch)]

\* cancel_last_pdcch
CancelLastPdcch(sr) == [sr EXCEPT !.pdcchs = Front(@)]

----------------------------------------------------------------------------
(* UCI allocator.  sr.uci[u] counts the PDSCHs whose HARQ-ACK UE u reports *)
(* in the slot; the bits go on the PUSCH of the UE when it has one in the  *)
(* slot, on a PUCCH otherwise.                                             *)

HasPusch(sr, u) == \E p \in sr.puschs : p.ue = u

\* get_scheduled_pdsch_counter_in_ue_uci
ScheduledPdschCounter(sr, u) == sr.uci[u]

\* alloc_uci_harq_ue succeeds: the PUSCH, or the PUCCH, has room for one more bit
HasUciSpace(sr, u) ==
    sr.uci[u] < (IF HasPusch(sr, u) THEN MaxPuschHarqBits ELSE MaxPucchHarqBits)

\* alloc_uci_harq_ue: the reservation, and the DAI it returns
AllocUciHarq(sr, u) == [sr EXCEPT !.uci[u] = @ + 1]
UciDai(sr, u) == sr.uci[u] % 4

=============================================================================
