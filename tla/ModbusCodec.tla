----------------------------- MODULE ModbusCodec -----------------------------
(***************************************************************************)
(* Register words and engineering values (modbus_codec.py), shared by the  *)
(* adapter, the simulated devices and the discovery tools.                 *)
(*                                                                         *)
(* A word is a number below Radix.  An engineering value counts units of   *)
(* ten to the MinSf, the finest resolution any scale factor gives, with    *)
(* the SI-to-canonical factor (unit_scale) folded into the unit.           *)
(***************************************************************************)
EXTENDS Integers, Sequences

CONSTANTS
    Radix,      \* 2^16: the words there are
    MinSf       \* the smallest scale factor met

ASSUME CodecAssumption ==
    /\ Radix \in Nat /\ Radix % 2 = 0 /\ Radix > 2
    /\ MinSf \in Int

Types == {"uint16", "int16", "enum16", "sunssf", "uint32", "int32", "string"}
Signed == {"int16", "int32", "sunssf"}
Width(type) == IF type \in {"uint32", "int32", "string"} THEN 2 ELSE 1

\* The span of a register of w words, and what fits a type.
Span(w) == IF w = 1 THEN Radix ELSE Radix * Radix
Fits(type, raw) ==
    LET span == Span(Width(type))
    IN  IF type \in Signed THEN 2 * raw >= -span /\ 2 * raw < span
        ELSE 0 <= raw /\ raw < span

\* Big-endian words of the two's complement of raw.
IntToWords(type, raw) ==
    LET r == raw % Span(Width(type))
    IN  IF Width(type) = 1 THEN <<r>> ELSE <<r \div Radix, r % Radix>>

WordsToInt(type, words) ==
    LET r == IF Width(type) = 1 THEN words[1] ELSE words[1] * Radix + words[2]
        span == Span(Width(type))
    IN  IF type \in Signed /\ 2 * r >= span THEN r - span ELSE r

\* One raw unit, in engineering units, under a scale factor.
Factor(sf) == 10 ^ (sf - MinSf)

\* Nearest integer, ties to even (round).
Nearest(v, f) ==
    LET q == v \div f
        r == v % f
    IN  IF 2 * r < f \/ (2 * r = f /\ q % 2 = 0) THEN q ELSE q + 1

\* What encode makes of a value: the words, or none when it does not fit.
Refused == <<>>
\* A bug: what does not fit wraps.
EncodeWraps(type, v, sf) == IntToWords(type, Nearest(v, Factor(sf)))
Encode(type, v, sf) ==
    LET raw == Nearest(v, Factor(sf))
    IN  IF Fits(type, raw) THEN IntToWords(type, raw) ELSE Refused
Decode(type, words, sf) == WordsToInt(type, words) * Factor(sf)
=============================================================================
