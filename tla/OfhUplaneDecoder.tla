-------------------------- MODULE OfhUplaneDecoder --------------------------
(***************************************************************************)
(* The decoder of Open Fronthaul user-plane messages                       *)
(* (lib/ofh/serdes/ofh_uplane_message_decoder_impl.cpp), with static       *)
(* compression.  A call of decode() walks the bytes of one message with a  *)
(* deserializer: the header, then sections until the bytes end or a        *)
(* section does not decode.  The message is what a radio unit built from   *)
(* a header and sections of IQ samples, cut to any length.                 *)
(***************************************************************************)
EXTENDS BfpCompression, FiniteSets, TLC

CONSTANTS
    nof_symbols,            \* symbols the decoder supports
    ru_nof_prbs,            \* PRBs of the radio unit: what numPrbu = 0 stands for
    NofFilterIndexes,       \* filter indexes below this one are not reserved
    CompressionParams,      \* [type, data_width] the decoder may be built with
    Sent                    \* [params, sections] the radio unit may build

VARIABLES
    compression_params,     \* of the decoder and of the radio unit
    message,                \* span<const uint8_t> message
    offset,                 \* bytes the deserializer has read
    results,                \* uplane_message_decoder_results
    pc,                     \* "idle", "decode_header", "decode_all_sections", "done"
    returned,               \* what decode() returned
    sent                    \* history: what the radio unit built

vars == <<compression_params, message, offset, results, pc, returned, sent>>

NOF_BYTES_UP_HEADER == 4
SECTION_ID_HEADER_NO_COMPRESSION_SIZE == 4
OFH_PAYLOAD_VERSION == 1
UPLINK == 0
Bytes == 0 .. 255

\* Compression types whose header a decoder with static compression skips,
\* and those whose PRBs carry no udCompParam.
StaticTypes == {"none", "BFP", "block_scaling", "mu_law", "modulation"}
NoUdCompParamTypes == {"none", "modulation"}

----------------------------------------------------------------------------
(* The radio unit: the layout of a message, from which the bytes come. *)

PrbsOf(section) == IF section.num_prbu = 0 THEN ru_nof_prbs ELSE section.num_prbu

BuildHeader(p) ==
    << p.direction * 128 + p.payload_version * 16 + p.filter_index,
       p.slot.frame,
       p.slot.subframe * 16 + p.slot.slot_id \div 4,
       (p.slot.slot_id % 4) * 64 + p.symbol_id >>

BuildPrb(c_prb, type) ==
    (IF type \in NoUdCompParamTypes THEN <<>> ELSE <<c_prb.param>>) \o c_prb.buffer

BuildSection(s, cp) ==
    LET c_prbs  == Compress(s.samples, cp.data_width)
        iq_data == FlattenSeq([p \in DOMAIN c_prbs |-> BuildPrb(c_prbs[p], cp.type)])
    IN  << s.section_id \div 16,
           (s.section_id % 16) * 16 + s.rb * 8 + s.sym_inc * 4 + s.start_prb \div 256,
           s.start_prb % 256,
           s.num_prbu >>
        \o (IF cp.type \in StaticTypes THEN <<>> ELSE <<Len(iq_data) \div 256, Len(iq_data) % 256>>)
        \o iq_data

BuildMessage(m, cp) ==
    BuildHeader(m.params) \o FlattenSeq([i \in DOMAIN m.sections |-> BuildSection(m.sections[i], cp)])

----------------------------------------------------------------------------
(* The deserializer. *)

RemainingBytes(msg, off) == Len(msg) - off

\* The next n bytes.  A byte past the end of the message is not one of its
\* bytes; the decoder checks RemainingBytes before it reads.
Read(msg, off, n) == [i \in 1 .. n |-> IF off + i <= Len(msg) THEN msg[off + i] ELSE 0]

----------------------------------------------------------------------------
(* The steps of the decoder, as functions of the bytes. *)

ToFilterIndexType(value) == IF value < NofFilterIndexes THEN value ELSE NofFilterIndexes

IsHeaderValid(params) ==
    /\ params.direction = UPLINK
    /\ params.payload_version = OFH_PAYLOAD_VERSION
    /\ params.filter_index # NofFilterIndexes
    /\ params.symbol_id < nof_symbols

\* Mutant: the bits of the slot taken from the third byte are not shifted.
HeaderParamsSlotNotShifted(b) ==
    [direction |-> b[1] \div 128, payload_version |-> (b[1] \div 16) % 8,
     filter_index |-> ToFilterIndexType(b[1] % 16), symbol_id |-> b[4] % 64,
     slot |-> [frame |-> b[2], subframe |-> b[3] \div 16,
               slot_id |-> ((b[3] % 16) + b[4] \div 64) % 64]]

\* The fields decode_header reads from the four bytes of the header.
HeaderParams(b) ==
    [direction       |-> b[1] \div 128,
     payload_version |-> (b[1] \div 16) % 8,
     filter_index    |-> ToFilterIndexType(b[1] % 16),
     symbol_id       |-> b[4] % 64,
     slot            |-> [frame |-> b[2], subframe |-> b[3] \div 16,
                          slot_id |-> (b[3] % 16) * 4 + b[4] \div 64]]

\* Mutant: numPrbu = 0 is taken as no PRB.
SectionHeaderKeepsZero(b) ==
    [section_id |-> b[1] * 16 + b[2] \div 16, is_every_rb_used |-> (b[2] \div 8) % 2 = 0,
     use_current_symbol_number |-> (b[2] \div 4) % 2 = 0,
     start_prb |-> (b[2] % 4) * 256 + b[3], nof_prbs |-> b[4]]

\* decode_section_header, after its check of the size.
SectionHeader(b) ==
    [section_id                |-> b[1] * 16 + b[2] \div 16,
     is_every_rb_used          |-> (b[2] \div 8) % 2 = 0,
     use_current_symbol_number |-> (b[2] \div 4) % 2 = 0,
     start_prb                 |-> (b[2] % 4) * 256 + b[3],
     nof_prbs                  |-> IF b[4] = 0 THEN ru_nof_prbs ELSE b[4]]

\* decode_compression_header: the user data compression length is read
\* when the type is none of those the switch names.
DecodeCompressionHeader(msg, off) ==
    CASE compression_params.type \in StaticTypes ->
             [ok |-> TRUE, ud_comp_len |-> <<>>, offset |-> off]
      [] RemainingBytes(msg, off) < 2 ->
             [ok |-> FALSE, ud_comp_len |-> <<>>, offset |-> off]
      [] OTHER ->
             [ok |-> TRUE, offset |-> off + 2,
              ud_comp_len |-> <<Read(msg, off, 2)[1] * 256 + Read(msg, off, 2)[2]>>]

\* The bytes of the IQ data of a PRB: prb_iq_data_size, rounded up.
PrbIqDataBytes == BytesFor(NOF_SUBCARRIERS_PER_RB * 2 * compression_params.data_width)

\* The body the two decode_prbs functions share: nothing is read unless
\* checked_bytes for every PRB are there; then every PRB takes param_bytes
\* of udCompParam, 0 without, and its buffer.
DecodePrbs(nof_prbs, msg, off, param_bytes, checked_bytes) ==
    LET read_bytes == param_bytes + PrbIqDataBytes
        At(p)      == off + (p - 1) * read_bytes
    IN  IF RemainingBytes(msg, off) < checked_bytes * nof_prbs
        THEN [ok |-> FALSE, comp_prbs |-> <<>>, offset |-> off]
        ELSE [ok |-> TRUE, offset |-> off + nof_prbs * read_bytes,
              comp_prbs |-> [p \in 1 .. nof_prbs |->
                  [param  |-> IF param_bytes = 0 THEN 0 ELSE Read(msg, At(p), 1)[1],
                   buffer |-> Read(msg, At(p) + param_bytes, PrbIqDataBytes)]]]

DecodePrbsNoUdCompParamField(nof_prbs, msg, off) ==
    DecodePrbs(nof_prbs, msg, off, 0, PrbIqDataBytes)

\* Mutant: the size is checked without the byte of udCompParam.
PrbsWithUdCompParamUncounted(nof_prbs, msg, off) ==
    DecodePrbs(nof_prbs, msg, off, 1, PrbIqDataBytes)

DecodePrbsWithUdCompParamField(nof_prbs, msg, off) ==
    DecodePrbs(nof_prbs, msg, off, 1, PrbIqDataBytes + 1)

\* decompressor.decompress: the decompressor of the type.  That of BFP is
\* modelled; the samples of the other types stay compressed.
DecompressSamples(comp_prbs) ==
    IF compression_params.type = "BFP"
    THEN Decompress(comp_prbs, compression_params.data_width) ELSE <<>>

\* decode_iq_data: the PRBs, read with or without udCompParam, decompressed.
DecodeIqData(nof_prbs, msg, off) ==
    LET prbs == IF compression_params.type \in NoUdCompParamTypes
                THEN DecodePrbsNoUdCompParamField(nof_prbs, msg, off)
                ELSE DecodePrbsWithUdCompParamField(nof_prbs, msg, off)
    IN  prbs @@ [iq_samples |-> IF prbs.ok THEN DecompressSamples(prbs.comp_prbs) ELSE <<>>]

\* decode_section: the section header, the compression header, the IQ data;
\* the first that fails ends it, with what the deserializer has read.
DecodeSection(msg, off) ==
    LET header == SectionHeader(Read(msg, off, SECTION_ID_HEADER_NO_COMPRESSION_SIZE))
        comp   == DecodeCompressionHeader(msg, off + SECTION_ID_HEADER_NO_COMPRESSION_SIZE)
        iq     == DecodeIqData(header.nof_prbs, msg, comp.offset)
    IN  CASE RemainingBytes(msg, off) < SECTION_ID_HEADER_NO_COMPRESSION_SIZE ->
                 [ok |-> FALSE, offset |-> off]
          [] ~comp.ok -> [ok |-> FALSE, offset |-> comp.offset]
          [] ~iq.ok   -> [ok |-> FALSE, offset |-> iq.offset]
          [] OTHER    -> [ok |-> TRUE, offset |-> iq.offset,
                          section |-> header @@ [ud_comp_len |-> comp.ud_comp_len,
                                                 comp_prbs   |-> iq.comp_prbs,
                                                 iq_samples  |-> iq.iq_samples]]

----------------------------------------------------------------------------
(* A call of decode(). *)

NoParams == [direction |-> UPLINK, payload_version |-> 0, filter_index |-> 0, symbol_id |-> 0,
             slot |-> [frame |-> 0, subframe |-> 0, slot_id |-> 0]]
NoResults == [params |-> NoParams, sections |-> <<>>]

\* The decoder is built with its compression parameters.
Init ==
    /\ compression_params \in CompressionParams
    /\ sent = NoResults
    /\ message = <<>>
    /\ offset = 0
    /\ results = NoResults
    /\ pc = "idle"
    /\ returned = "none"

\* decode() is called with the bytes of a message the radio unit built, or
\* with the first of them, and with results of its own.
Decode ==
    /\ pc = "idle"
    /\ \E m \in Sent :
           LET built == BuildMessage(m, compression_params)
           IN  \E size \in 0 .. Len(built) : sent' = m /\ message' = SubSeq(built, 1, size)
    /\ pc' = "decode_header"
    /\ UNCHANGED <<compression_params, offset, results, returned>>

Return(value) == pc' = "done" /\ returned' = IF value THEN "true" ELSE "false"

\* decode_header, lines 94 to 100.
HeaderTooShort ==
    /\ pc = "decode_header"
    /\ RemainingBytes(message, offset) < NOF_BYTES_UP_HEADER
    /\ Return(FALSE)
    /\ UNCHANGED <<compression_params, message, offset, results, sent>>

\* decode_header reads the four bytes, and is_header_valid decides.
DecodeHeader ==
    LET params == HeaderParams(Read(message, offset, NOF_BYTES_UP_HEADER))
    IN  /\ pc = "decode_header"
        /\ RemainingBytes(message, offset) >= NOF_BYTES_UP_HEADER
        /\ offset' = offset + NOF_BYTES_UP_HEADER
        /\ results' = [results EXCEPT !.params = params]
        /\ \/ IsHeaderValid(params) /\ pc' = "decode_all_sections" /\ UNCHANGED returned
           \/ ~IsHeaderValid(params) /\ Return(FALSE)
        /\ UNCHANGED <<compression_params, message, sent>>

\* A turn of the loop of decode_all_sections in which the section decodes.
SectionDecoded ==
    LET dec == DecodeSection(message, offset)
    IN  /\ pc = "decode_all_sections"
        /\ RemainingBytes(message, offset) > 0
        /\ dec.ok
        /\ offset' = dec.offset
        /\ results' = [results EXCEPT !.sections = Append(@, dec.section)]
        /\ UNCHANGED <<compression_params, message, pc, returned, sent>>

\* A turn in which it does not: the loop breaks and decode() returns
\* whether a section was decoded before.
SectionFailed ==
    LET dec == DecodeSection(message, offset)
    IN  /\ pc = "decode_all_sections"
        /\ RemainingBytes(message, offset) > 0
        /\ ~dec.ok
        /\ offset' = dec.offset
        /\ Return(results.sections # <<>>)
        /\ UNCHANGED <<compression_params, message, results, sent>>

\* The bytes are used up.
AllSectionsDecoded ==
    /\ pc = "decode_all_sections"
    /\ RemainingBytes(message, offset) = 0
    /\ Return(results.sections # <<>>)
    /\ UNCHANGED <<compression_params, message, offset, results, sent>>

Next ==
    \/ Decode
    \/ HeaderTooShort \/ DecodeHeader \/ SectionDecoded \/ SectionFailed \/ AllSectionsDecoded

Spec == Init /\ [][Next]_vars

----------------------------------------------------------------------------
(* Properties. *)

Params == [direction : 0 .. 1, payload_version : 0 .. 7, filter_index : 0 .. NofFilterIndexes,
           symbol_id : 0 .. 63, slot : [frame : Bytes, subframe : 0 .. 15, slot_id : 0 .. 63]]

TypeOK ==
    /\ compression_params \in CompressionParams
    /\ message \in Seq(Bytes)
    /\ offset \in Nat
    /\ results.params \in Params
    /\ \A i \in DOMAIN results.sections :
          LET s == results.sections[i]
          IN  /\ s.section_id \in 0 .. 4095 /\ s.start_prb \in 0 .. 1023
              /\ s.nof_prbs \in 1 .. 255 \cup {ru_nof_prbs}
              /\ Len(s.comp_prbs) = s.nof_prbs
              /\ \A p \in DOMAIN s.comp_prbs :
                    s.comp_prbs[p].param \in Bytes /\ s.comp_prbs[p].buffer \in Seq(Bytes)
              /\ \A k \in DOMAIN s.iq_samples : s.iq_samples[k] \in Int16
    /\ pc \in {"idle", "decode_header", "decode_all_sections", "done"}
    /\ returned \in {"none", "true", "false"}
    /\ (pc = "done") = (returned # "none")

\* The deserializer never goes past the end of the message: every read of
\* decode_header, decode_section_header, decode_compression_header and of
\* the two decode_prbs functions is behind a check of remaining_bytes that
\* counts all the bytes it reads.
ReadsStayInsideMessage == offset <= Len(message)

\* A message that decode() accepts says what the radio unit put into it:
\* the header as sent, and the sections it holds in full, in order, with
\* the section id, the start PRB, the flags and as many PRBs of data as
\* were sent (ru_nof_prbs of them where numPrbu is 0).  This is about the
\* shifts and masks of decode_header and decode_section_header, and about
\* the break of decode_all_sections, which keeps the sections decoded so far.
DecodedAsSent ==
    returned = "true" =>
        /\ results.params = sent.params
        /\ Len(results.sections) <= Len(sent.sections)
        /\ Len(message) = Len(BuildMessage(sent, compression_params))
              => Len(results.sections) = Len(sent.sections)
        /\ \A i \in DOMAIN results.sections :
              LET got == results.sections[i]
                  s   == sent.sections[i]
              IN  /\ got.section_id = s.section_id /\ got.start_prb = s.start_prb
                  /\ got.is_every_rb_used = (s.rb = 0)
                  /\ got.use_current_symbol_number = (s.sym_inc = 0)
                  /\ got.nof_prbs = PrbsOf(s)
                  /\ got.comp_prbs = [p \in 1 .. PrbsOf(s) |->
                        [Compress(s.samples, compression_params.data_width)[p]
                            EXCEPT !.param = IF compression_params.type \in NoUdCompParamTypes
                                             THEN 0 ELSE @]]

\* Block floating point loses only the bits below the least exponent with
\* which the samples of a PRB fit data_width bits: a sample that went
\* through compress_prb_generic, the message and decompress_prb_generic
\* comes back at most one step of that exponent below what it was.
SamplesWithinLeastStep ==
    compression_params.type = "BFP" =>
        \A i \in DOMAIN results.sections :
            \A p \in 1 .. results.sections[i].nof_prbs :
                LET Prb(samples) == SubSeq(samples, (p - 1) * NOF_SAMPLES_PER_PRB + 1,
                                           p * NOF_SAMPLES_PER_PRB)
                IN  WithinLeastStep(Prb(sent.sections[i].samples),
                                    Prb(results.sections[i].iq_samples),
                                    compression_params.data_width)

=============================================================================
