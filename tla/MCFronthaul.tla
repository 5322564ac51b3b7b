----------------------------- MODULE MCFronthaul -----------------------------
(***************************************************************************)
(* The run of Fronthaul: the command lines of MCRuConfig, and for each     *)
(* Open Fronthaul configuration they leave the messages of MCOfhUplane     *)
(* with one section, and with two of three kinds.                          *)
(***************************************************************************)
EXTENDS Fronthaul

\* The inputs of the two runs do not hang on the constants they are given
\* to: the instances take empty sets for them.
CommandLines == INSTANCE MCRuConfig WITH AppConfigs <- {}, MacFields <- {}
Messages == INSTANCE MCOfhUplane WITH
                compression_params <- UlCompressionParams,
                pc <- decoder_pc,
                CompressionParams <- {},
                Sent <- {}

MCAppConfigs == CommandLines!MCAppConfigs
MCMacFields == CommandLines!MCMacFields

\* Sections to follow one another: one PRB, numPrbu = 0, the largest samples.
MCPairedSections ==
    {s \in Messages!MCSections : s.samples \in {<<255, -256>>, <<255, -256, 0, 0>>, <<-32767, 32767>>}}

MCSent ==
    {m \in Messages!MCSent :
        Len(m.sections) = 2 => \A i \in 1 .. 2 : m.sections[i] \in MCPairedSections}

=============================================================================
