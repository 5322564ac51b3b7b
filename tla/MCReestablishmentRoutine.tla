---------------------- MODULE MCReestablishmentRoutine ----------------------
(***************************************************************************)
(* A UE with up to two PDU sessions of one DRB each, and the answers of    *)
(* the CU-UP and the DU that take the routine through every return.        *)
(***************************************************************************)
EXTENDS ReestablishmentRoutine, TLC

Drb(id, flow_failed, nof_ul) ==
    [drb_id |-> id, flow_failed |-> flow_failed, nof_ul_params |-> nof_ul]

Item(id, setup, failed, modified) ==
    [pdu_session_id |-> id, drb_setup |-> setup, drb_failed |-> failed, drb_modified |-> modified]

MCUpContexts == {<<>>, 1 :> {1}, (1 :> {1}) @@ (2 :> {2})}

\* Nothing modified; one and two sessions, as set up or as modified DRBs; a
\* DRB failed; QoS flows failed on the second DRB of the first session; two
\* UL tunnels on the DRB of the second session.
MCE1apResponses ==
    {{},
     {Item(1, {Drb(1, FALSE, 1)}, FALSE, {})},
     {Item(1, {Drb(1, FALSE, 1)}, FALSE, {1})},
     {Item(1, {Drb(1, FALSE, 1)}, FALSE, {1}), Item(2, {Drb(2, FALSE, 1)}, FALSE, {2})},
     {Item(1, {}, TRUE, {})},
     {Item(1, {Drb(1, FALSE, 1), Drb(2, TRUE, 1)}, FALSE, {})},
     {Item(1, {Drb(1, FALSE, 1)}, FALSE, {1}), Item(2, {Drb(2, FALSE, 2)}, FALSE, {})}}

MCF1apResponses == UeContextModResponses
=============================================================================
