---------------------------- MODULE MCLdpcEncoder ----------------------------
(***************************************************************************)
(* The run of LdpcEncoder: base graphs of three information nodes, one     *)
(* lifted graph for each strategy of the high-rate region, messages with   *)
(* and without filler bits, and outputs that end with the high-rate        *)
(* region, one bit into the extended region, and with the last node.       *)
(***************************************************************************)
EXTENDS LdpcEncoder

\* A lifted graph of the shape of TS 38.212: its parity part as
\* IsLiftedBaseGraph has it, the other edges spread over the checks.
MCGraph(base_graph, lifting_index, LS) ==
    LET K == BgK(base_graph)
        M == BgM(base_graph)
        core == CoreShifts([base_graph |-> base_graph, lifting_index |-> lifting_index,
                            lifting_size |-> LS])
        Shift(m, k) ==
            CASE k < K -> IF (2 * m + k) % 3 = 0 THEN NO_EDGE ELSE (3 * m + 5 * k + 1) % LS
              [] k = K /\ m < 4 -> IF m \in DOMAIN core THEN core[m] ELSE NO_EDGE
              [] k \in K + 1 .. K + 3 /\ m < 4 -> IF m \in {k - K - 1, k - K} THEN 0 ELSE NO_EDGE
              [] k \in K .. K + 3 /\ m >= 4 -> IF (m + k) % 2 = 0 THEN NO_EDGE ELSE (m + k) % LS
              [] OTHER -> IF m = k - K THEN 0 ELSE NO_EDGE
    IN  [base_graph |-> base_graph, lifting_index |-> lifting_index, lifting_size |-> LS,
         lifted_node |-> [e \in (0 .. M - 1) \X (0 .. K + M - 1) |-> Shift(e[1], e[2])]]

MCGraphs == {MCGraph("BG1", 6, 13), MCGraph("BG1", 1, 3), MCGraph("BG2", 3, 7), MCGraph("BG2", 2, 5)}

MCMessages(graph) ==
    LET size == BgK(graph.base_graph) * graph.lifting_size
    IN  {[p \in 0 .. size - 1 |-> IF p = 0 THEN 1 ELSE 0],
         [p \in 0 .. size - 1 |-> (p \div 2) % 2],
         [p \in 0 .. size - 1 |-> IF p >= size - 2 THEN FILLER_BIT ELSE (p + 1) % 2]}

MCOutputSizes(graph) ==
    LET K == BgK(graph.base_graph)
        M == BgM(graph.base_graph)
    IN  {(K + 2) * graph.lifting_size, (K + 2) * graph.lifting_size + 1, (K + M - 2) * graph.lifting_size}

=============================================================================
