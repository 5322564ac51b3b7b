----------------------------- MODULE LdpcEncoder -----------------------------
(***************************************************************************)
(* The LDPC encoder for NEON                                               *)
(* (lib/phy/upper/channel_coding/ldpc/ldpc_encoder_neon.cpp).  encode() of *)
(* the base class configures the encoder and calls its five steps in       *)
(* order: load_input, the systematic bits, the high-rate region, the       *)
(* extended region, write_codeblock.  A bit is a byte; a node of the base  *)
(* graph is lifting_size bytes in node_size_neon NEON vectors, the bytes   *)
(* behind the lifting size being its tail.  The three buffers are members  *)
(* of the encoder: what a call leaves in them the next call finds.         *)
(***************************************************************************)
EXTENDS Integers, Sequences, SequencesExt, Bitwise

CONSTANTS
    NEON_SIZE_BYTE,             \* 16 in the code; the runs take fewer
    MAX_LIFTING_SIZE,           \* 384 in the code
    BG1_K, BG1_M,               \* information and check nodes of base graph 1: 22 and 46
    BG2_K, BG2_M,               \* and of base graph 2: 10 and 42
    Graphs,                     \* the lifted graphs an encoder is configured with
    Messages(_), OutputSizes(_),    \* the messages and the output sizes given with a graph
    UninitializedBytes,         \* what a buffer may hold before its first use
    MaxCalls                    \* bound: calls of encode() in a behaviour

VARIABLES
    current_graph, codeblock_length,                    \* set by encode() of the base class
    node_size_neon, high_rate,                          \* set by select_strategy
    codeblock_used_size, auxiliary_used_size,           \* set by load_input
    codeblock_buffer, auxiliary_buffer, rotated_node_buffer,
    input, output,                                      \* the spans of the caller
    pc,         \* "idle", or the step of encode() that comes next
    calls

configuration == <<current_graph, codeblock_length, node_size_neon, high_rate>>
used_sizes == <<codeblock_used_size, auxiliary_used_size>>
caller == <<input, output, calls>>
vars == <<configuration, used_sizes, codeblock_buffer, auxiliary_buffer, rotated_node_buffer, caller, pc>>

NO_EDGE == 65535
FILLER_BIT == 254
Byte == 0 .. 255

DivideCeil(a, b) == (a + b - 1) \div b
MAX_NODE_SIZE_NEON == DivideCeil(MAX_LIFTING_SIZE, NEON_SIZE_BYTE)
MaxNodeSizeByte == MAX_NODE_SIZE_NEON * NEON_SIZE_BYTE

BgK(base_graph) == IF base_graph = "BG1" THEN BG1_K ELSE BG2_K
BgM(base_graph) == IF base_graph = "BG1" THEN BG1_M ELSE BG2_M
bg_K == BgK(current_graph.base_graph)
lifting_size == current_graph.lifting_size

Buffer(size, byte) == [p \in 0 .. size - 1 |-> byte]
Size(buffer) == Cardinality(DOMAIN buffer)
CodeblockBuffer(byte) == Buffer(Max({BG1_K + BG1_M, BG2_K + BG2_M}) * MaxNodeSizeByte, byte)
AuxiliaryBuffer(byte) == Buffer(Max({BG1_M, BG2_M}) * MaxNodeSizeByte, byte)
RotatedNodeBuffer(byte) == Buffer(MaxNodeSizeByte, byte)

GetLiftedNode(m, k) == current_graph.lifted_node[m, k]

\* encode() of the base class: the encoder works on whole nodes, at least
\* those of the high-rate region, and two more than it hands out.
CodeblockLength(output_size, graph) ==
    LET LS     == graph.lifting_size
        length == Max({output_size + 2 * LS, (BgK(graph.base_graph) + 4) * LS})
    IN  DivideCeil(length, LS) * LS

----------------------------------------------------------------------------
(* Nodes: node n of a buffer is its bytes from n * node_size_byte on. *)

NodeSizeByte == node_size_neon * NEON_SIZE_BYTE
Node(buffer, n) == [j \in 0 .. NodeSizeByte - 1 |-> buffer[n * NodeSizeByte + j]]
ZeroNode == [j \in 0 .. NodeSizeByte - 1 |-> 0]

\* The buffer with the nodes of a function from node numbers to nodes.
SetNodes(buffer, nodes) ==
    [p \in DOMAIN buffer |->
        IF p \div NodeSizeByte \in DOMAIN nodes THEN nodes[p \div NodeSizeByte][p % NodeSizeByte]
        ELSE buffer[p]]

\* veorq_s8, over the vectors of a node.
Veor(a, b) == [j \in DOMAIN a |-> a[j] ^^ b[j]]

\* Mutant: the bytes of a node are taken as they are.
VandOneForgotten(a) == a

\* vandq_s8 with vdupq_n_s8(1): the lowest bit of every byte.
VandOne(a) == [j \in DOMAIN a |-> a[j] % 2]

\* srsvec::circ_shift_backward and circ_shift_forward over the plain spans
\* of two nodes: lifting_size bytes are written, the tail of out stays.
CircShiftBackward(out, in, shift) ==
    [j \in DOMAIN out |-> IF j < lifting_size THEN in[(j + shift) % lifting_size] ELSE out[j]]
CircShiftForward(out, in, shift) ==
    [j \in DOMAIN out |->
        IF j < lifting_size THEN in[(j + lifting_size - shift) % lifting_size] ELSE out[j]]

Aux(m) == Node(auxiliary_buffer, m)
AuxSum == Veor(Veor(Veor(Aux(0), Aux(1)), Aux(2)), Aux(3))
RotatedNode == Node(rotated_node_buffer, 0)

\* The edges <<m, k>> of the graph between some check nodes and some nodes.
Edges(rows, columns) == {e \in rows \X columns : GetLiftedNode(e[1], e[2]) # NO_EDGE}

\* The edge a loop meets last, the outer loop going over the nodes or over
\* the checks.
LastEdge(edges, nodes_first) ==
    LET Key(e) == IF nodes_first THEN <<e[2], e[1]>> ELSE e
        Leq(a, b) == a[1] < b[1] \/ (a[1] = b[1] /\ a[2] <= b[2])
    IN  CHOOSE e \in edges : \A f \in edges : Leq(Key(f), Key(e))

\* What the loop leaves in rotated_node: its last rotation, if it made one.
RotatedNodeAfter(edges, rotated_node) ==
    IF edges = {} THEN rotated_node_buffer ELSE SetNodes(rotated_node_buffer, 0 :> rotated_node)

----------------------------------------------------------------------------
(* Actions. *)

\* The encoder before init() gave it a graph.
NoGraph == [base_graph |-> "BG1", lifting_index |-> 0, lifting_size |-> 0, lifted_node |-> <<>>]

Init ==
    /\ current_graph = NoGraph
    /\ codeblock_length = 0
    /\ node_size_neon = 0
    /\ high_rate = "none"
    /\ codeblock_used_size = 0
    /\ auxiliary_used_size = 0
    /\ \E byte \in UninitializedBytes :
           /\ codeblock_buffer = CodeblockBuffer(byte)
           /\ auxiliary_buffer = AuxiliaryBuffer(byte)
           /\ rotated_node_buffer = RotatedNodeBuffer(byte)
    /\ input = <<>>
    /\ output = <<>>
    /\ pc = "idle"
    /\ calls = 0

\* select_hr_strategy: the template recursion ends at node_size_neon.
SelectHrStrategy(current_bg, current_ls_index) ==
    IF current_bg = "BG1"
    THEN IF current_ls_index = 6 THEN "high_rate_bg1_i6_inner" ELSE "high_rate_bg1_other_inner"
    ELSE IF current_ls_index \in {3, 7} THEN "high_rate_bg2_i3_7_inner"
         ELSE "high_rate_bg2_other_inner"

\* encode() of the base class is called with a message and an output, the
\* output taken as zeros: init(), the length of the codeblock and
\* select_strategy.
Encode ==
    /\ pc = "idle"
    /\ calls < MaxCalls
    /\ \E graph \in Graphs :
           /\ current_graph' = graph
           /\ node_size_neon' = DivideCeil(graph.lifting_size, NEON_SIZE_BYTE)
           /\ high_rate' = SelectHrStrategy(graph.base_graph, graph.lifting_index)
           /\ input' \in Messages(graph)
           /\ \E output_size \in OutputSizes(graph) :
                  /\ output' = Buffer(output_size, 0)
                  /\ codeblock_length' = CodeblockLength(output_size, graph)
    /\ pc' = "load_input"
    /\ UNCHANGED <<used_sizes, codeblock_buffer, auxiliary_buffer, rotated_node_buffer, calls>>

\* load_input: the information nodes, each with a tail of zeros.
LoadInput ==
    /\ pc = "load_input"
    /\ codeblock_used_size' = (codeblock_length \div lifting_size) * node_size_neon
    /\ auxiliary_used_size' = (codeblock_length \div lifting_size - bg_K) * node_size_neon
    /\ codeblock_buffer' =
           SetNodes(codeblock_buffer,
                    [i_node \in 0 .. bg_K - 1 |->
                        [j \in 0 .. NodeSizeByte - 1 |->
                            IF j < lifting_size THEN input[i_node * lifting_size + j] ELSE 0]])
    /\ pc' = "systematic_bits"
    /\ UNCHANGED <<configuration, auxiliary_buffer, rotated_node_buffer, caller>>

\* systematic_bits_inner: the check nodes in use are zeroed and take, for
\* every edge to an information node, the bits of that node rotated by the
\* shift of the edge.  The loops go node by node, and check by check within.
SystematicBitsInner ==
    LET rows  == 0 .. auxiliary_used_size \div node_size_neon - 1
        edges == Edges(rows, 0 .. bg_K - 1)
        Rotation(e) == CircShiftBackward(RotatedNode, Node(codeblock_buffer, e[2]), GetLiftedNode(e[1], e[2]))
        Added(m, k) == IF <<m, k>> \in edges THEN VandOne(Rotation(<<m, k>>)) ELSE ZeroNode
    IN  /\ pc = "systematic_bits"
        /\ auxiliary_buffer' =
               SetNodes(auxiliary_buffer,
                        [m \in rows |-> FoldLeft(Veor, ZeroNode, [k \in 1 .. bg_K |-> Added(m, k - 1)])])
        /\ rotated_node_buffer' = RotatedNodeAfter(edges, Rotation(LastEdge(edges, TRUE)))
        /\ pc' = "high_rate"
        /\ UNCHANGED <<configuration, used_sizes, codeblock_buffer, caller>>

\* The four parity nodes of the high-rate region are stored, whole vectors.
HighRateStored(block0, block1, block2, block3, rotated_node) ==
    /\ codeblock_buffer' =
           SetNodes(codeblock_buffer,
                    (bg_K :> block0) @@ (bg_K + 1 :> block1) @@ (bg_K + 2 :> block2) @@ (bg_K + 3 :> block3))
    /\ rotated_node_buffer' = SetNodes(rotated_node_buffer, 0 :> rotated_node)
    /\ pc' = "ext_region"
    /\ UNCHANGED <<configuration, used_sizes, auxiliary_buffer, caller>>

HighRateBg1I6Inner ==
    LET block0 == CircShiftForward(Node(codeblock_buffer, bg_K), AuxSum, 105 % lifting_size)
        block3 == Veor(Aux(3), block0)
    IN  /\ pc = "high_rate" /\ high_rate = "high_rate_bg1_i6_inner"
        /\ HighRateStored(block0, Veor(Aux(0), block0), Veor(Aux(2), block3), block3, AuxSum)

\* Mutant: the third chunk is chained to the second, as in base graph 2.
HighRateBg1OtherInnerChainedAsBg2 ==
    LET rotated_node == CircShiftBackward(RotatedNode, AuxSum, 1)
        block_1      == Veor(Aux(0), rotated_node)
    IN  /\ pc = "high_rate" /\ high_rate = "high_rate_bg1_other_inner"
        /\ HighRateStored(AuxSum, block_1, Veor(Aux(1), block_1), Veor(Aux(3), rotated_node), rotated_node)

HighRateBg1OtherInner ==
    LET rotated_node == CircShiftBackward(RotatedNode, AuxSum, 1)
        block3       == Veor(Aux(3), rotated_node)
    IN  /\ pc = "high_rate" /\ high_rate = "high_rate_bg1_other_inner"
        /\ HighRateStored(AuxSum, Veor(Aux(0), rotated_node), Veor(Aux(2), block3), block3, rotated_node)

HighRateBg2I37Inner ==
    LET rotated_node == CircShiftBackward(RotatedNode, AuxSum, 1)
        block_1      == Veor(Aux(0), rotated_node)
    IN  /\ pc = "high_rate" /\ high_rate = "high_rate_bg2_i3_7_inner"
        /\ HighRateStored(AuxSum, block_1, Veor(Aux(1), block_1), Veor(Aux(3), rotated_node), rotated_node)

HighRateBg2OtherInner ==
    LET block_0 == CircShiftForward(Node(codeblock_buffer, bg_K), AuxSum, 1)
        block_1 == Veor(Aux(0), block_0)
    IN  /\ pc = "high_rate" /\ high_rate = "high_rate_bg2_other_inner"
        /\ HighRateStored(block_0, block_1, Veor(Aux(1), block_1), Veor(Aux(3), block_0), AuxSum)

\* ext_region_inner: every further check node in use gives one parity node,
\* its sum over the information nodes and what the edges to the four nodes
\* of the high-rate region add.
ExtRegionInner ==
    LET nof_layers == codeblock_length \div lifting_size - bg_K
        edges == Edges(4 .. nof_layers - 1, bg_K .. bg_K + 3)
        Rotation(e) == CircShiftBackward(RotatedNode, Node(codeblock_buffer, e[2]), GetLiftedNode(e[1], e[2]))
        Added(m, k) == IF <<m, k>> \in edges THEN Rotation(<<m, k>>) ELSE ZeroNode
    IN  /\ pc = "ext_region"
        /\ codeblock_buffer' =
               SetNodes(codeblock_buffer,
                        [n \in bg_K + 4 .. bg_K + nof_layers - 1 |->
                            FoldLeft(Veor, Aux(n - bg_K), [k \in 1 .. 4 |-> Added(n - bg_K, bg_K + k - 1)])])
        /\ rotated_node_buffer' = RotatedNodeAfter(edges, Rotation(LastEdge(edges, FALSE)))
        /\ pc' = "write_codeblock"
        /\ UNCHANGED <<configuration, used_sizes, auxiliary_buffer, caller>>

\* write_codeblock: the nodes from the third on, lifting_size bytes of each,
\* and of the last node what is left of the output.
WriteCodeblock ==
    LET nof_nodes == codeblock_length \div lifting_size
        copied    == (nof_nodes - 3) * lifting_size
    IN  /\ pc = "write_codeblock"
        /\ output' = [j \in DOMAIN output |->
                         IF j < copied
                         THEN codeblock_buffer[(2 + j \div lifting_size) * NodeSizeByte + (j % lifting_size)]
                         ELSE codeblock_buffer[(nof_nodes - 1) * NodeSizeByte + (j - copied)]]
        /\ pc' = "idle"
        /\ calls' = calls + 1
        /\ UNCHANGED <<configuration, used_sizes, codeblock_buffer, auxiliary_buffer,
                       rotated_node_buffer, input>>

Next ==
    \/ Encode
    \/ LoadInput
    \/ SystematicBitsInner
    \/ HighRateBg1I6Inner \/ HighRateBg1OtherInner \/ HighRateBg2I37Inner \/ HighRateBg2OtherInner
    \/ ExtRegionInner
    \/ WriteCodeblock

Spec == Init /\ [][Next]_vars

----------------------------------------------------------------------------
(* The code the encoder is for: TS 38.212, section 5.3.2. *)

\* A lifted base graph: the first parity node is in the checks 0, 1 and 3
\* of base graph 1 and 0, 2 and 3 of base graph 2, with the shifts of its
\* set of lifting sizes; the next three are in two checks each, a diagonal
\* of shift 0 below another; every further parity node is in its own check
\* only.  The edges of the information nodes, and those of the further
\* checks to the high-rate region, are as the tables have them.
CoreShifts(graph) ==
    LET LS == graph.lifting_size
    IN  CASE graph.base_graph = "BG1" /\ graph.lifting_index = 6 -> (0 :> 0) @@ (1 :> (105 % LS)) @@ (3 :> 0)
          [] graph.base_graph = "BG1" /\ graph.lifting_index # 6 -> (0 :> 1) @@ (1 :> 0) @@ (3 :> 1)
          [] graph.base_graph = "BG2" /\ graph.lifting_index \in {3, 7} -> (0 :> 1) @@ (2 :> 0) @@ (3 :> 1)
          [] OTHER -> (0 :> 0) @@ (2 :> 1) @@ (3 :> 0)

IsLiftedBaseGraph(graph) ==
    LET K == BgK(graph.base_graph)
        M == BgM(graph.base_graph)
        core == CoreShifts(graph)
    IN  /\ graph.base_graph \in {"BG1", "BG2"}
        /\ graph.lifting_index \in 0 .. 7
        /\ graph.lifting_size \in 2 .. MAX_LIFTING_SIZE
        /\ graph.lifted_node \in [(0 .. M - 1) \X (0 .. K + M - 1) -> 0 .. graph.lifting_size - 1 \cup {NO_EDGE}]
        /\ \A m \in 0 .. 3 :
               /\ graph.lifted_node[m, K] = IF m \in DOMAIN core THEN core[m] ELSE NO_EDGE
               /\ \A k \in K + 1 .. K + 3 :
                      graph.lifted_node[m, k] = IF m \in {k - K - 1, k - K} THEN 0 ELSE NO_EDGE
        /\ \A m \in 0 .. M - 1 : \A k \in K + 4 .. K + M - 1 :
               graph.lifted_node[m, k] = IF m = k - K THEN 0 ELSE NO_EDGE

\* The encoder is given graphs of the standard, messages of bg_K nodes, and
\* outputs from the length of the high-rate region to that of the graph,
\* each less the two nodes that are not handed out.
ASSUME \A graph \in Graphs :
           LET K  == BgK(graph.base_graph)
               LS == graph.lifting_size
           IN  /\ IsLiftedBaseGraph(graph)
               /\ Messages(graph) \subseteq [0 .. K * LS - 1 -> {0, 1, FILLER_BIT}]
               /\ OutputSizes(graph) \subseteq (K + 2) * LS .. (K + BgM(graph.base_graph) - 2) * LS

\* What the caller holds of the codeblock: the bit at a position, counted
\* from the first information bit; the first two nodes are not handed out.
HandedOut(position) == position < 2 * lifting_size + Size(output)
CodeblockBit(position) ==
    IF position < 2 * lifting_size THEN input[position] % 2
    ELSE output[position - 2 * lifting_size] % 2

\* The positions of the bits that check m tests in its row i.
Tested(m, i) ==
    {k * lifting_size + ((i + GetLiftedNode(m, k)) % lifting_size) :
        k \in {n \in 0 .. bg_K + BgM(current_graph.base_graph) - 1 : GetLiftedNode(m, n) # NO_EDGE}}

----------------------------------------------------------------------------
(* Properties. *)

\* The buffers of the encoder hold bytes and the step counter is one of the
\* five steps of encode() or idle.
TypeOK ==
    /\ pc \in {"idle", "load_input", "systematic_bits", "high_rate", "ext_region", "write_codeblock"}
    /\ calls \in 0 .. MaxCalls
    /\ current_graph \in Graphs \cup {NoGraph}
    /\ high_rate \in {"none", "high_rate_bg1_i6_inner", "high_rate_bg1_other_inner",
                      "high_rate_bg2_i3_7_inner", "high_rate_bg2_other_inner"}
    /\ node_size_neon \in 0 .. MAX_NODE_SIZE_NEON
    /\ codeblock_length \in Nat /\ codeblock_used_size \in Nat /\ auxiliary_used_size \in Nat
    /\ codeblock_buffer \in [DOMAIN CodeblockBuffer(0) -> Byte]
    /\ auxiliary_buffer \in [DOMAIN AuxiliaryBuffer(0) -> Byte]
    /\ rotated_node_buffer \in [DOMAIN RotatedNodeBuffer(0) -> Byte]
    /\ input \in [0 .. Size(input) - 1 -> {0, 1, FILLER_BIT}]
    /\ output \in [0 .. Size(output) - 1 -> {0, 1, FILLER_BIT}]

\* encode() hands out a codeword of the lifted graph with the message as
\* its information bits, whatever earlier calls and the tails of the nodes
\* left in the buffers: the information bytes come back as they were given,
\* filler bits included, the parity bytes are bits, and every check of the
\* graph all of whose bits were handed out sums to zero, a filler bit
\* counting as zero (systematic_bits_inner, the four high_rate_*_inner,
\* ext_region_inner and write_codeblock together).
OutputIsCodeword ==
    pc = "idle" /\ calls > 0 =>
        /\ \A p \in DOMAIN output :
               IF p + 2 * lifting_size \in DOMAIN input
               THEN output[p] = input[p + 2 * lifting_size]
               ELSE output[p] \in {0, 1}
        /\ \A m \in 0 .. codeblock_length \div lifting_size - bg_K - 1 : \A i \in 0 .. lifting_size - 1 :
               (\A p \in Tested(m, i) : HandedOut(p)) =>
                   FoldSet(LAMBDA p, sum : (sum + CodeblockBit(p)) % 2, 0, Tested(m, i)) = 0

=============================================================================
