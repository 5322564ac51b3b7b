------------------------------ MODULE Fronthaul ------------------------------
(***************************************************************************)
(* The uplink of an Open Fronthaul radio unit from the start of the        *)
(* application on.  The start-up (RuConfig) translates the command line    *)
(* into the configuration of the radio unit or terminates; when it has     *)
(* left an Open Fronthaul configuration, the decoder of the receiver       *)
(* (OfhUplaneDecoder) is built with the uplink compression of that         *)
(* configuration, ul_compression_params of ru_ofh_configuration            *)
(* (include/srsran/ru/ru_ofh_configuration.h), and decodes what the radio  *)
(* unit sends.  The two share no variable: what joins them is the          *)
(* compression the operator chose on the command line.                     *)
(***************************************************************************)
EXTENDS Integers, Sequences

CONSTANTS
    AppConfigs, MacFields,                      \* of RuConfig
    NOF_SUBCARRIERS_PER_RB, nof_symbols,        \* of OfhUplaneDecoder
    ru_nof_prbs, NofFilterIndexes, Sent

VARIABLES
    config, ru_cfg, out_cfg, sector_id, pc, error,              \* of RuConfig
    message, offset, results, decoder_pc, returned, sent        \* of OfhUplaneDecoder

startup_vars == <<config, ru_cfg, out_cfg, sector_id, pc, error>>
decoder_vars == <<message, offset, results, decoder_pc, returned, sent>>
vars == <<startup_vars, decoder_vars>>

Startup == INSTANCE RuConfig

\* The radio unit the start-up has configured is an Open Fronthaul one.
OfhConfigured == pc = "done" /\ ru_cfg = "ofh"

\* The compression the decoder is built with: that of the configuration,
\* and none as long as there is no configuration.
UlCompressionParams ==
    IF OfhConfigured THEN out_cfg.ul_compression_params ELSE [type |-> "none", data_width |-> 16]

Decoder == INSTANCE OfhUplaneDecoder WITH
               compression_params <- UlCompressionParams,
               pc <- decoder_pc,
               CompressionParams <- Startup!RuCompressionParams

Init == Startup!Init /\ Decoder!Init

\* A step of the start-up; no message is decoded before it is over.
StartupStep == Startup!Next /\ UNCHANGED decoder_vars

\* A step of the decoder of the radio unit the start-up configured.
DecoderStep == OfhConfigured /\ UNCHANGED startup_vars /\ Decoder!Next

Next == StartupStep \/ DecoderStep

Spec == Init /\ [][Next]_vars

----------------------------------------------------------------------------
(* Properties: those of the two parts, over the behaviours of both. *)

TypeOK == Startup!TypeOK /\ Decoder!TypeOK

\* RuConfig: with cells of the same number of antennas the channels of the
\* ZMQ driver take the listed ports in order (generate_radio_config).
AlikeCellsTakePortsInOrder == Startup!AlikeCellsTakePortsInOrder

\* OfhUplaneDecoder: the deserializer stays inside the message, whatever
\* compression the command line asked for (the checks of remaining_bytes).
ReadsStayInsideMessage == Decoder!ReadsStayInsideMessage

\* OfhUplaneDecoder: a message decode() accepts says what the radio unit
\* put into it, for every compression generate_ru_ofh_config can leave in
\* ul_compression_params: the radio unit compresses with the parameters
\* the decoder was built with (static compression).
DecodedAsSent == Decoder!DecodedAsSent

\* BfpCompression: a sample comes back at most one step of the least
\* exponent below what it was (compress_prb_generic, decompress_prb_generic).
SamplesWithinLeastStep == Decoder!SamplesWithinLeastStep

=============================================================================
