--------------------------- MODULE NumericLiteral ---------------------------
(***************************************************************************)
(* How the disassembler writes a numeric literal operand: EmitNumericLiteral *)
(* of parsed_operand.cpp, the FloatProxy operator<< it calls, and the       *)
(* HexFloat operator<< of util/hex_float.h that those print with.          *)
(*                                                                         *)
(* A 32-bit word does not fit TLC's integers; it is kept as its two 16-bit *)
(* halves [hi, lo].  Integers are printed from a big-endian sequence of    *)
(* 16-bit limbs.  The text written is a sequence of one-character strings, *)
(* as HexFloatRead reads it.  std::ostream's decimal output of a zero or   *)
(* normal float or double (precision max_digits10) is a library routine;   *)
(* the model records the value it prints and not its digits.  The value of *)
(* a double is not modelled: its 52-bit fraction does not fit.             *)
(***************************************************************************)
EXTENDS HexFloat, Sequences, SequencesExt

CONSTANT LiteralOperands  \* spv_parsed_operand_t with its words, as records

VARIABLES
  eop,   \* the operand
  eout   \* what EmitNumericLiteral wrote to *out

litVars == <<eop, eout>>

LiteralTypes == {"LITERAL_INTEGER", "LITERAL_FLOAT", "TYPED_LITERAL_NUMBER",
                 "OPTIONAL_LITERAL_INTEGER", "OPTIONAL_TYPED_LITERAL_INTEGER"}

HexDigitChars == << "0", "1", "2", "3", "4", "5", "6", "7",
                    "8", "9", "a", "b", "c", "d", "e", "f" >>
DigitChar(d) == HexDigitChars[d + 1]

-----------------------------------------------------------------------------
(* HexFloat operator<< *)

FractionNibbles(fmt) == (fmt.F + 3) \div 4
NumOverflowBits(fmt) == FractionNibbles(fmt) * 4 - fmt.F
FractionTopBit(fmt) == 2^(fmt.F + NumOverflowBits(fmt) - 1)
FractionRepresentMask(fmt) == 2^(fmt.F + NumOverflowBits(fmt)) - 1

(* The denormal loop that forgets to eat the leading 1. *)
RECURSIVE NormalizeDenormKeepsLead(_, _, _)
NormalizeDenormKeepsLead(fmt, fraction, exp) ==
  IF fraction & FractionTopBit(fmt) = 0
    THEN NormalizeDenormKeepsLead(fmt, fraction * 2, exp - 1)
    ELSE [fraction |-> fraction & FractionRepresentMask(fmt), exp |-> exp]

(* Shift left, lowering the exponent, until the top bit is 1; then shift *)
(* once more to drop that bit, which is implicit in the printed "0x1".   *)
RECURSIVE NormalizeDenorm(_, _, _)
NormalizeDenorm(fmt, fraction, exp) ==
  IF fraction & FractionTopBit(fmt) = 0
    THEN NormalizeDenorm(fmt, fraction * 2, exp - 1)
    ELSE [fraction |-> (fraction * 2) & FractionRepresentMask(fmt), exp |-> exp]

(* Drop trailing zero nibbles of the fractional part. *)
RECURSIVE TrimNibbles(_, _)
TrimNibbles(fraction, nibbles) ==
  IF nibbles > 0 /\ fraction % 16 = 0 THEN TrimNibbles(fraction \div 16, nibbles - 1)
                                      ELSE [fraction |-> fraction, nibbles |-> nibbles]

(* std::setw(n) << std::setfill('0') << std::hex << x, for x < 16^n. *)
PaddedHex(x, n) == [i \in 1..n |-> DigitChar((x \div 16^(n - i)) % 16)]

(* std::dec << n for n >= 0. *)
RECURSIVE DecimalText(_)
DecimalText(n) == IF n < 10 THEN << DigitChar(n) >>
                            ELSE DecimalText(n \div 10) \o << DigitChar(n % 10) >>

SignedDecimal(n) == IF n < 0 THEN << "-" >> \o DecimalText(-n) ELSE DecimalText(n)

(* The fraction and exponent the printer writes for v. *)
PrintedParts(fmt, v) ==
  LET fraction == v.f * 2^NumOverflowBits(fmt)
      is_zero  == v.e = 0 /\ fraction = 0
      is_denorm == v.e = 0 /\ ~is_zero
      int_exponent == IF is_zero THEN 0 ELSE v.e - fmt.bias
  IN  IF is_denorm THEN NormalizeDenorm(fmt, fraction, int_exponent)
                   ELSE [fraction |-> fraction, exp |-> int_exponent]

(* os << HexFloat: [-]0x(0|1)[.hex]p[+]exp. *)
HexFloatOut(fmt, v) ==
  LET p == PrintedParts(fmt, v)
      t == TrimNibbles(p.fraction, FractionNibbles(fmt))
      is_zero == v.e = 0 /\ v.f = 0
  IN  (IF v.neg THEN << "-" >> ELSE << >>)
      \o << "0", "x", IF is_zero THEN "0" ELSE "1" >>
      \o (IF t.nibbles > 0 THEN << "." >> \o PaddedHex(t.fraction, t.nibbles) ELSE << >>)
      \o << "p" >> \o (IF p.exp >= 0 THEN << "+" >> ELSE << >>) \o SignedDecimal(p.exp)

-----------------------------------------------------------------------------
(* FloatProxy operator<< and what EmitNumericLiteral writes *)

NoValue == [neg |-> FALSE, e |-> 0, f |-> 0]
Wrote(t) == [kind |-> "text", text |-> t, value |-> NoValue]
Nothing == [kind |-> "none", text |-> << >>, value |-> NoValue]
NotEmitted == [kind |-> "pending", text |-> << >>, value |-> NoValue]

(* The generic FloatProxy<T> operator<<: zero and normal values in decimal *)
(* with max_digits10 digits, the others as a hex float.  The Float16 and   *)
(* 8-bit specialisations always print the hex float.                       *)
FloatProxyOut(fmt, v) ==
  IF fmt = Float32 /\ v.e < ExpAllOnes(fmt) /\ (v.e > 0 \/ v.f = 0)
    THEN [kind |-> "decimal", text |-> << >>, value |-> v]
    ELSE Wrote(HexFloatOut(fmt, v))

(* The fields of a W-bit pattern n < 2^W. *)
FieldsOf(fmt, n) ==
  [neg |-> n >= 2^(fmt.W - 1), e |-> (n \div 2^fmt.F) % 2^fmt.E, f |-> n % 2^fmt.F]
(* FloatProxy<float>(word). *)
SingleOf(w) ==
  [neg |-> w.hi >= 2^15, e |-> (w.hi \div 2^7) % 2^8, f |-> (w.hi % 2^7) * 2^16 + w.lo]

(* Long division of big-endian 16-bit limbs by 10: <<quotient, remainder>>. *)
DivMod10(l) ==
  FoldLeft(LAMBDA acc, x : LET n == acc[2] * 2^16 + x
                           IN  << Append(acc[1], n \div 10), n % 10 >>,
           << << >>, 0 >>, l)

IsZeroLimbs(l) == \A i \in DOMAIN l : l[i] = 0

RECURSIVE LimbsDecimal(_)
LimbsDecimal(l) ==
  LET d == DivMod10(l) IN
  IF IsZeroLimbs(d[1]) THEN << DigitChar(d[2]) >>
                       ELSE LimbsDecimal(d[1]) \o << DigitChar(d[2]) >>

(* Two's complement negation of the limbs. *)
NegateLimbs(l) ==
  FoldRight(LAMBDA x, acc : LET s == (2^16 - 1 - x) + acc[2]
                            IN  << << s % 2^16 >> \o acc[1], s \div 2^16 >>,
            l, << << >>, 1 >>)[1]

(* *out << int32_t / int64_t of the bits, or << the unsigned bits. *)
IntegerOut(l, signed) ==
  IF signed /\ l[1] >= 2^15 THEN << "-" >> \o LimbsDecimal(NegateLimbs(l))
                            ELSE LimbsDecimal(l)

WordLimbs(w) == << w.hi, w.lo >>

(* A second word taken as the low half: the multi-word order reversed. *)
TwoWordLimbsHighFirst(op) == WordLimbs(op.words[1]) \o WordLimbs(op.words[2])

(* "Multi-word numbers are presented with lower order words first." *)
TwoWordLimbs(op) == WordLimbs(op.words[2]) \o WordLimbs(op.words[1])

OneWordFloat(op) ==
  LET w == op.words[1] IN
  CASE op.fp_encoding = "BINARY16" -> FloatProxyOut(Float16, FieldsOf(Float16, w.lo))
    [] op.fp_encoding = "BINARY32" -> FloatProxyOut(Float32, SingleOf(w))
    [] op.fp_encoding = "E4M3" -> FloatProxyOut(Float8E4M3, FieldsOf(Float8E4M3, w.lo % 2^8))
    [] op.fp_encoding = "E5M2" -> FloatProxyOut(Float8E5M2, FieldsOf(Float8E5M2, w.lo % 2^8))
    [] op.fp_encoding = "UNKNOWN" /\ op.number_bit_width = 16 ->
         FloatProxyOut(Float16, FieldsOf(Float16, w.lo))
    [] op.fp_encoding = "UNKNOWN" /\ op.number_bit_width = 32 ->
         FloatProxyOut(Float32, SingleOf(w))
    [] OTHER -> Nothing

EmitNumericLiteral(op) ==
  CASE op.type \notin LiteralTypes \/ op.num_words < 1 \/ op.num_words > 2 -> Nothing
    [] op.num_words = 1 /\ op.number_kind = "SIGNED_INT" ->
         Wrote(IntegerOut(WordLimbs(op.words[1]), TRUE))
    [] op.num_words = 1 /\ op.number_kind = "UNSIGNED_INT" ->
         Wrote(IntegerOut(WordLimbs(op.words[1]), FALSE))
    [] op.num_words = 1 /\ op.number_kind = "FLOATING" -> OneWordFloat(op)
    [] op.num_words = 2 /\ op.number_kind = "SIGNED_INT" ->
         Wrote(IntegerOut(TwoWordLimbs(op), TRUE))
    [] op.num_words = 2 /\ op.number_kind = "UNSIGNED_INT" ->
         Wrote(IntegerOut(TwoWordLimbs(op), FALSE))
    [] op.num_words = 2 /\ op.number_kind = "FLOATING" ->
         [kind |-> "double", text |-> << >>, value |-> NoValue]
    [] OTHER -> Nothing

-----------------------------------------------------------------------------

LInit == eop \in LiteralOperands /\ eout = NotEmitted

(* One call of EmitNumericLiteral. *)
Emit ==
  /\ eout = NotEmitted
  /\ eout' = EmitNumericLiteral(eop)
  /\ UNCHANGED eop

LSpec == LInit /\ [][Emit]_litVars

-----------------------------------------------------------------------------
(* Properties *)

(* The reference: a decimal text read back into n limbs, modulo 2^(16n). *)
ReadDecimalLimbs(t, n) ==
  LET neg == t # << >> /\ Head(t) = "-"
      ds  == IF neg THEN Tail(t) ELSE t
      mag == FoldLeft(LAMBDA l, c :
                        LET d == CHOOSE k \in 0..9 : DigitChar(k) = c
                        IN  FoldRight(LAMBDA x, acc : LET s == x * 10 + acc[2]
                                                     IN  << << s % 2^16 >> \o acc[1], s \div 2^16 >>,
                                      l, << << >>, d >>)[1],
                      [i \in 1..n |-> 0], ds)
  IN  IF neg THEN NegateLimbs(mag) ELSE mag

OperandLimbs(op) == IF op.num_words = 1 THEN WordLimbs(op.words[1])
                    ELSE WordLimbs(op.words[2]) \o WordLimbs(op.words[1])

(* An integer literal of one or two words is written as a decimal number  *)
(* that denotes its words (the low word first in the instruction), and   *)
(* has a minus sign exactly when it is signed and its top bit is set: the *)
(* int32/int64 casts and the assembly of the 64-bit value in              *)
(* EmitNumericLiteral.                                                     *)
IntegerLiteralReadsBack ==
  (eout.kind = "text" /\ eop.number_kind \in {"SIGNED_INT", "UNSIGNED_INT"}) =>
    LET l == OperandLimbs(eop) IN
    /\ ReadDecimalLimbs(eout.text, Len(l)) = l
    /\ (Head(eout.text) = "-") <=> (eop.number_kind = "SIGNED_INT" /\ l[1] >= 2^15)
=============================================================================
