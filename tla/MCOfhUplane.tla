---------------------------- MODULE MCOfhUplane ----------------------------
(***************************************************************************)
(* The messages the runs of OfhUplaneDecoder decode: one subcarrier per    *)
(* PRB, a radio unit of two PRBs, and samples at the edges of the          *)
(* exponents.                                                              *)
(***************************************************************************)
EXTENDS OfhUplaneDecoder

Header(dir, version, filter, frame, subframe, slot_id, symbol) ==
    [direction |-> dir, payload_version |-> version, filter_index |-> filter, symbol_id |-> symbol,
     slot |-> [frame |-> frame, subframe |-> subframe, slot_id |-> slot_id]]

Section(id, rb, sym_inc, start, num_prbu, samples) ==
    [section_id |-> id, rb |-> rb, sym_inc |-> sym_inc, start_prb |-> start,
     num_prbu |-> num_prbu, samples |-> samples]

\* A header the decoder accepts, with bits set in every field.
MCGoodHeader == Header(0, 1, 3, 165, 9, 43, 13)

\* Headers that differ from it in one field each: the four that
\* is_header_valid refuses, and two it accepts.
MCHeaders ==
    {MCGoodHeader, Header(1, 1, 3, 165, 9, 43, 13), Header(0, 2, 3, 165, 9, 43, 13),
     Header(0, 1, 15, 165, 9, 43, 13), Header(0, 1, 3, 165, 9, 43, 14),
     Header(0, 1, 0, 90, 6, 20, 0)}

\* The samples of a PRB: the largest magnitudes, the powers of two at which
\* the exponent changes, both signs, equal samples.
MCPrbs ==
    {<<-32767, 32767>>, <<-32768, 5>>, <<-256, -256>>, <<255, -256>>, <<256, -1>>,
     <<0, 0>>, <<1000, -777>>, <<-512, -512>>, <<16383, -16385>>}

MCSections ==
    {Section(2748, 1, 0, 677, 1, prb) : prb \in MCPrbs}
        \cup {Section(1, 0, 1, 0, 0, <<255, -256>> \o prb) : prb \in {<<0, 0>>, <<-32767, 32767>>}}

MCSectionLists == {<<s>> : s \in MCSections} \cup {<<s, t>> : s, t \in MCSections}

MCSent ==
    {[params |-> h, sections |-> <<Section(1, 0, 0, 0, 1, <<1, -1>>)>>] : h \in MCHeaders}
        \cup {[params |-> MCGoodHeader, sections |-> l] : l \in MCSectionLists}

MCCompressionParams ==
    {[type |-> "BFP", data_width |-> 9], [type |-> "BFP", data_width |-> 14],
     [type |-> "none", data_width |-> 16], [type |-> "bfp_selective", data_width |-> 9]}

\* A PRB whose samples are all the least number of 16 bits.
MCSaturatedSent ==
    {[params |-> MCGoodHeader, sections |-> <<Section(1, 0, 0, 0, 1, prb)>>] :
        prb \in MCPrbs \cup {<<-32768, -32768>>}}

=============================================================================
