--------------------------- MODULE BfpCompression ---------------------------
(***************************************************************************)
(* Block floating point compression of IQ samples                          *)
(* (lib/ofh/compression/iq_compression_bfp_impl.cpp): the samples of a     *)
(* PRB share one exponent and keep data_width bits each.  A sample is an   *)
(* integer of 16 bits, the output of the quantizer; a compressed PRB is    *)
(* its exponent and the bytes its samples are packed into.                 *)
(***************************************************************************)
EXTENDS Integers, Sequences, SequencesExt

CONSTANTS
    NOF_SUBCARRIERS_PER_RB      \* 12 in the code; the runs take fewer

MAX_IQ_WIDTH == 16
NOF_SAMPLES_PER_PRB == 2 * NOF_SUBCARRIERS_PER_RB
Int16 == -(2^15) .. (2^15 - 1)

\* A conversion to int16_t keeps the low 16 bits.
ToInt16(v) == ((v + 2^15) % 2^16) - 2^15

\* The number of bits of a natural number: 32 - __builtin_clz(x).
BitLength(x) == CHOOSE n \in 0 .. 31 : x < 2^n /\ (n > 0 => x >= 2^(n - 1))

----------------------------------------------------------------------------
(* compressed_prb: samples packed MSB first, the last byte padded. *)

BitsOf(v, w) == [i \in 1 .. w |-> (v \div 2^(w - i)) % 2]

ValueOf(bits) ==
    LET value[i \in 0 .. Len(bits)] == IF i = 0 THEN 0 ELSE 2 * value[i - 1] + bits[i]
    IN  value[Len(bits)]

BytesFor(nof_bits) == (nof_bits + 7) \div 8

PackCompressedData(samples, data_width) ==
    LET bits   == FlattenSeq([i \in DOMAIN samples |-> BitsOf(samples[i] % 2^data_width, data_width)])
        padded == bits \o [i \in 1 .. (8 * BytesFor(Len(bits)) - Len(bits)) |-> 0]
    IN  [k \in 1 .. BytesFor(Len(bits)) |-> ValueOf(SubSeq(padded, 8 * k - 7, 8 * k))]

ExtractBits(buffer, read_pos, width) ==
    ValueOf(SubSeq(FlattenSeq([k \in DOMAIN buffer |-> BitsOf(buffer[k], 8)]),
                   read_pos + 1, read_pos + width))

SignExtend(u, width) == IF u >= 2^(width - 1) THEN u - 2^width ELSE u

----------------------------------------------------------------------------
(* Compression. *)

\* Mutant: the sign bit is counted among the leading zeros.
DetermineExponentWithSign(x, data_width) ==
    LET max_shift == MAX_IQ_WIDTH - data_width
        lz        == IF x > 0 /\ max_shift > 0 THEN 16 - BitLength(x) ELSE max_shift
    IN  max_shift - (IF lz < max_shift THEN lz ELSE max_shift)

\* determine_exponent: the shift that leaves data_width bits of x and its
\* sign.  lz_without_sign is unsigned: for x of 16 bits the subtraction
\* wraps to a number above every shift, and std::min takes max_shift.
DetermineExponent(x, data_width) ==
    LET max_shift       == MAX_IQ_WIDTH - data_width
        clz             == 32 - BitLength(x)
        lz_without_sign == IF x > 0 /\ max_shift > 0 THEN clz - 16 - 1 ELSE max_shift
        raw_exp         == IF 0 <= lz_without_sign /\ lz_without_sign < max_shift
                           THEN lz_without_sign ELSE max_shift
    IN  IF max_shift - raw_exp > 0 THEN max_shift - raw_exp ELSE 0

\* The largest magnitude of a PRB, as line 62 computes it.
MaxAbs(input_quantized) ==
    LET max_it  == Max(ToSet(input_quantized))
        min_it  == Min(ToSet(input_quantized))
        abs(v)  == IF v < 0 THEN -v ELSE v
    IN  Max({abs(max_it), abs(min_it) - 1})

\* compress_prb_generic: every sample is shifted right by the exponent, the
\* sign kept, and packed.
CompressPrbGeneric(input_quantized, data_width) ==
    LET exponent == DetermineExponent(MaxAbs(input_quantized) % 2^16, data_width)
        compressed_samples ==
            [i \in DOMAIN input_quantized |-> ToInt16(input_quantized[i] \div 2^exponent)]
    IN  [param |-> exponent, buffer |-> PackCompressedData(compressed_samples, data_width)]

\* compress: one compressed PRB for every NOF_SAMPLES_PER_PRB samples.
Compress(input, data_width) ==
    [p \in 1 .. (Len(input) \div NOF_SAMPLES_PER_PRB) |->
        CompressPrbGeneric(SubSeq(input, (p - 1) * NOF_SAMPLES_PER_PRB + 1, p * NOF_SAMPLES_PER_PRB),
                           data_width)]

----------------------------------------------------------------------------
(* Decompression. *)

\* decompress_prb_generic: each field of data_width bits, sign extended,
\* times the scaler, an int16_t that keeps the low 16 bits of 1 << exponent:
\* none of them is set when the exponent is 16 or more.
DecompressPrbGeneric(c_prb, data_width) ==
    LET scaler == IF c_prb.param < MAX_IQ_WIDTH THEN ToInt16(2^c_prb.param) ELSE 0
    IN  [i \in 1 .. NOF_SAMPLES_PER_PRB |->
            SignExtend(ExtractBits(c_prb.buffer, (i - 1) * data_width, data_width), data_width)
                * scaler]

\* decompress: the PRBs one after the other.
Decompress(input, data_width) ==
    FlattenSeq([p \in DOMAIN input |-> DecompressPrbGeneric(input[p], data_width)])

----------------------------------------------------------------------------
(* What compression promises, said without the code's arithmetic. *)

Fits(v, width) == -(2^(width - 1)) <= v /\ v < 2^(width - 1)

\* The least exponent with which every sample of a PRB fits data_width bits.
LeastExponent(samples, data_width) ==
    Min({e \in 0 .. MAX_IQ_WIDTH :
            \A i \in DOMAIN samples : Fits(samples[i] \div 2^e, data_width)})

\* What a PRB of samples comes back as when nothing is lost but the bits
\* below the least exponent.
WithinLeastStep(samples, decoded, data_width) ==
    /\ Len(decoded) = Len(samples)
    /\ \A i \in DOMAIN samples :
          LET step == 2^LeastExponent(samples, data_width)
          IN  0 <= samples[i] - decoded[i] /\ samples[i] - decoded[i] < step

=============================================================================
