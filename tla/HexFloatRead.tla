---------------------------- MODULE HexFloatRead ----------------------------
(***************************************************************************)
(* operator>>(std::istream&, HexFloat<T>&) of util/hex_float.h for the    *)
(* Float16, Float8_E5M2 and Float8_E4M3 HexFloats: a text beginning with  *)
(* [-]0x is read as a hex float, bit by bit into a uint_type fraction and *)
(* an int_type exponent; any other text is handed to ParseNormalFloat.    *)
(*                                                                         *)
(* A text is a sequence of one-character strings; "eof" is what peek()    *)
(* gives past the end.                                                    *)
(* One step of the model is one iteration of a scanning loop.            *)
(***************************************************************************)
EXTENDS HexFloat, Sequences, SequencesExt

CONSTANTS
  HexFormats,   \* the HexFloat types read into
  HexTexts      \* the texts read

VARIABLES
  hfmt,        \* the HexFloat type
  htext,       \* the stream's characters
  hpos,        \* index of the character peek() returns
  hneg,        \* negate_value
  hphase,      \* "idle", "start", "int", "frac", "exp", "normal" (handed to
               \* ParseNormalFloat) or "done"
  hfraction,   \* fraction (uint_type)
  hindex,      \* fraction_index (uint_type)
  hexponent,   \* exponent (int_type)
  hint,        \* has_integer_part
  hwritten,    \* bits_written
  hseensign,   \* seen_exponent_sign
  hsign,       \* exponent_sign
  hdigits,     \* seen_written_exponent_digits
  hwexp,       \* written_exponent
  hvalue,      \* value, as [neg, e, f]
  hfail        \* the stream's fail bit

hexVars == <<hfmt, htext, hpos, hneg, hphase, hfraction, hindex, hexponent, hint,
             hwritten, hseensign, hsign, hdigits, hwexp, hvalue, hfail>>

Char(t, i) == IF i \in 1..Len(t) THEN t[i] ELSE "eof"
DecChars == << "0", "1", "2", "3", "4", "5", "6", "7", "8", "9" >>
LowerChars == << "a", "b", "c", "d", "e", "f" >>
UpperChars == << "A", "B", "C", "D", "E", "F" >>
IsDigit(c) == c \in Range(DecChars)
IsXDigit(c) == c \in Range(DecChars) \cup Range(LowerChars) \cup Range(UpperChars)

(* get_nibble_from_character: the offset in "0123456789", "abcdef" or   *)
(* "ABCDEF".                                                              *)
IndexIn(s, c) == CHOOSE i \in DOMAIN s : s[i] = c
get_nibble_from_character(c) ==
  CASE c \in Range(DecChars)   -> IndexIn(DecChars, c) - 1
    [] c \in Range(LowerChars) -> IndexIn(LowerChars, c) - 1 + 10
    [] c \in Range(UpperChars) -> IndexIn(UpperChars, c) - 1 + 10

IntMax(fmt) == 2^(fmt.W - 1) - 1
IntMin(fmt) == -(2^(fmt.W - 1))
UIntMax(fmt) == 2^fmt.W - 1
(* written_exponent_overflow *)
ExpOverflow(fmt) == IntMax(fmt) - 1

(* detail::set_nth_most_significant_bit on a W-bit uint_type. *)
SetNthMostSignificantBit(fmt, value, bit, n) ==
  IF bit # 0 /\ n <= fmt.W - 1 THEN value | 2^(fmt.W - 1 - n) ELSE value

(* detail::saturated_inc of fraction_index: stays at the maximum. *)
SaturatedIncIndex(fmt, i) == IF i = UIntMax(fmt) THEN i ELSE i + 1

(* The four bits of a nibble, most significant first. *)
NibbleBits(n) == << (n \div 8) % 2, (n \div 4) % 2, (n \div 2) % 2, n % 2 >>

(* One hex digit left of the '.': every bit after the leading 1 goes into *)
(* the fraction and raises the exponent (saturated_inc; failure at max).  *)
IntNibble(fmt, s, n) ==
  FoldLeft(LAMBDA acc, b :
             IF acc.fail THEN acc
             ELSE IF acc.written
               THEN IF acc.exponent = IntMax(fmt)
                      THEN [acc EXCEPT !.fail = TRUE]
                      ELSE [acc EXCEPT
                              !.fraction = SetNthMostSignificantBit(fmt, @, b, acc.index),
                              !.index = SaturatedIncIndex(fmt, @),
                              !.exponent = @ + 1,
                              !.written = @ \/ b # 0]
               ELSE [acc EXCEPT !.written = b # 0],
           s, NibbleBits(n))

(* One hex digit right of the '.': without an integer part, each leading  *)
(* zero bit lowers the exponent (saturated_dec; failure at min); every    *)
(* other bit goes into the fraction.                                      *)
FracNibble(fmt, s, n) ==
  FoldLeft(LAMBDA acc, b :
             IF acc.fail THEN acc
             ELSE LET w == acc.written \/ b # 0 IN
               IF ~s.hasInt /\ ~w
                 THEN IF acc.exponent = IntMin(fmt)
                        THEN [acc EXCEPT !.fail = TRUE]
                        ELSE [acc EXCEPT !.exponent = @ - 1, !.written = w]
                 ELSE [acc EXCEPT
                         !.fraction = SetNthMostSignificantBit(fmt, @, b, acc.index),
                         !.index = SaturatedIncIndex(fmt, @),
                         !.written = w],
           s, NibbleBits(n))

ScanState == [fraction |-> hfraction, index |-> hindex, exponent |-> hexponent,
              written |-> hwritten, hasInt |-> hint, fail |-> FALSE]

(* Folding the written exponent into the biased one, saturating at       *)
(* +/- written_exponent_overflow instead of overflowing int_type.         *)
CombineExponent(fmt, written, exponent) ==
  LET ovf == ExpOverflow(fmt) IN
  CASE written >= 0 /\ exponent >= 0 ->
         IF ovf - exponent > written THEN written + exponent ELSE ovf
    [] written < 0 /\ exponent < 0 ->
         IF ovf + exponent > -written THEN written + exponent ELSE -ovf
    [] OTHER -> written + exponent

(* The denormal loop: shift the fraction right until the exponent is 0,  *)
(* clamping to zero when every bit is shifted out.                        *)
RECURSIVE Denormalize(_, _, _, _)
Denormalize(fmt, f, e, zero) ==
  IF e < 0 /\ ~zero
    THEN LET f2 == (f \div 2) & (2^fmt.F - 1) IN
         IF f2 = 0 THEN Denormalize(fmt, f2, 0, TRUE)
                   ELSE Denormalize(fmt, f2, e + 1, FALSE)
    ELSE [f |-> f, e |-> e]

(* Fault: the implicit 1 is put back only for negative exponents. *)
HexEncodeNoImplicitBitAtZero(fmt, neg, s, exponent) ==
  LET zero == ~s.hasInt /\ s.fraction = 0
      f1   == IF ~s.hasInt /\ ~zero THEN (s.fraction * 2) % 2^fmt.W ELSE s.fraction
      e1   == IF ~s.hasInt /\ ~zero THEN exponent - 1 ELSE IF zero THEN 0 ELSE exponent
      f2   == IF e1 < 0 /\ ~zero THEN (f1 \div 2) | 2^(fmt.W - 1) ELSE f1
      d    == Denormalize(fmt, (f2 \div 2^(fmt.W - fmt.F)) & (2^fmt.F - 1), e1, zero)
  IN  IF d.e > ExpAllOnes(fmt) THEN [neg |-> neg, e |-> ExpAllOnes(fmt), f |-> 0]
                               ELSE [neg |-> neg, e |-> d.e, f |-> d.f]

(* After the exponent: drop the leading 1 read right of the '.', put the  *)
(* implicit 1 back for exponents <= 0, keep the top F bits, denormalize,  *)
(* and saturate exponents above the all-ones field to infinity.           *)
HexEncode(fmt, neg, s, exponent) ==
  LET zero == ~s.hasInt /\ s.fraction = 0
      f1   == IF ~s.hasInt /\ ~zero THEN (s.fraction * 2) % 2^fmt.W ELSE s.fraction
      e1   == IF ~s.hasInt /\ ~zero THEN exponent - 1 ELSE IF zero THEN 0 ELSE exponent
      f2   == IF e1 <= 0 /\ ~zero THEN (f1 \div 2) | 2^(fmt.W - 1) ELSE f1
      d    == Denormalize(fmt, (f2 \div 2^(fmt.W - fmt.F)) & (2^fmt.F - 1), e1, zero)
  IN  IF d.e > ExpAllOnes(fmt) THEN [neg |-> neg, e |-> ExpAllOnes(fmt), f |-> 0]
                               ELSE [neg |-> neg, e |-> d.e, f |-> d.f]

HexZero == [neg |-> FALSE, e |-> 0, f |-> 0]

(* value.set_value(0): the reader starts every parse from +0. *)
HexInit ==
  /\ hfmt \in HexFormats
  /\ htext \in HexTexts
  /\ hpos = 1 /\ hneg = FALSE /\ hphase = "start"
  /\ hfraction = 0 /\ hindex = 0 /\ hexponent = hfmt.bias
  /\ hint = FALSE /\ hwritten = FALSE
  /\ hseensign = FALSE /\ hsign = 1 /\ hdigits = FALSE /\ hwexp = 0
  /\ hvalue = HexZero /\ hfail = FALSE

(* is.setstate(failbit); return: the value stays +0. *)
HexFail ==
  /\ hfail' = TRUE /\ hphase' = "done"
  /\ UNCHANGED <<hfmt, htext, hpos, hneg, hfraction, hindex, hexponent, hint,
                 hwritten, hseensign, hsign, hdigits, hwexp, hvalue>>

(* is.get(); next_char = is.peek() closing a loop iteration. *)
Advance == hpos' = hpos + 1

Scanned(r) ==
  /\ hfraction' = r.fraction /\ hindex' = r.index
  /\ hexponent' = r.exponent /\ hwritten' = r.written

(* Skip white space, take a '-', and look for "0x": without it, unget the *)
(* '0' and hand the stream to ParseNormalFloat; with it, strip the       *)
(* leading zeros of the mantissa.                                         *)
HexStart ==
  LET t   == htext
      p0  == CHOOSE i \in 1..(Len(t) + 1) :
               Char(t, i) # " " /\ \A j \in 1..(i - 1) : t[j] = " "
      neg == Char(t, p0) = "-"
      p1  == IF neg THEN p0 + 1 ELSE p0
      hex == Char(t, p1) = "0" /\ Char(t, p1 + 1) \in {"x", "X"}
      p2  == CHOOSE i \in (p1 + 2)..(Len(t) + 1) :
               Char(t, i) # "0" /\ \A j \in (p1 + 2)..(i - 1) : t[j] = "0"
  IN  /\ hphase = "start"
      /\ hneg' = neg
      /\ IF hex THEN hphase' = "int" /\ hpos' = p2
                ELSE hphase' = "normal" /\ hpos' = p1
      /\ UNCHANGED <<hfmt, htext, hfraction, hindex, hexponent, hint, hwritten,
                     hseensign, hsign, hdigits, hwexp, hvalue, hfail>>

(* One iteration of the loop left of the '.': a '.' or 'p' ends it (and  *)
(* bits_written is reset for the fraction), a hex digit is read into the *)
(* fraction, anything else fails.                                         *)
HexIntChar ==
  LET c == Char(htext, hpos)
      r == IntNibble(hfmt, ScanState, get_nibble_from_character(c))
  IN  \/ /\ hphase = "int"
         /\ \/ /\ c = "." /\ hphase' = "frac" /\ hwritten' = FALSE /\ Advance
               /\ UNCHANGED <<hfraction, hindex, hexponent, hint>>
            \/ /\ c = "p" /\ hphase' = "exp" /\ Advance
               /\ UNCHANGED <<hfraction, hindex, hexponent, hint, hwritten>>
            \/ /\ IsXDigit(c) /\ ~r.fail
               /\ hint' = TRUE /\ Scanned(r) /\ Advance /\ UNCHANGED hphase
         /\ UNCHANGED <<hfmt, htext, hneg, hseensign, hsign, hdigits, hwexp, hvalue, hfail>>
      \/ /\ hphase = "int"
         /\ \/ IsXDigit(c) /\ r.fail
            \/ ~IsXDigit(c) /\ c \notin {".", "p"}
         /\ HexFail

(* One iteration of the loop right of the '.': 'p' ends it, a hex digit  *)
(* is read into the fraction, anything else (a second '.') fails.         *)
HexFracChar ==
  LET c == Char(htext, hpos)
      r == FracNibble(hfmt, ScanState, get_nibble_from_character(c))
  IN  \/ /\ hphase = "frac"
         /\ \/ /\ c = "p" /\ hphase' = "exp" /\ Advance
               /\ UNCHANGED <<hfraction, hindex, hexponent, hwritten>>
            \/ /\ IsXDigit(c) /\ ~r.fail
               /\ Scanned(r) /\ Advance /\ UNCHANGED hphase
         /\ UNCHANGED <<hfmt, htext, hneg, hint, hseensign, hsign, hdigits, hwexp,
                        hvalue, hfail>>
      \/ /\ hphase = "frac"
         /\ \/ IsXDigit(c) /\ r.fail
            \/ ~IsXDigit(c) /\ c # "p"
         /\ HexFail

IsExpSign(c) == ~hdigits /\ c \in {"-", "+"}

(* A sign before the exponent's digits; a second one fails. *)
HexExpSign ==
  LET c == Char(htext, hpos) IN
  /\ hphase = "exp" /\ IsExpSign(c)
  /\ IF hseensign
       THEN HexFail
       ELSE /\ hseensign' = TRUE /\ hsign' = (IF c = "-" THEN -1 ELSE 1) /\ Advance
            /\ UNCHANGED <<hfmt, htext, hneg, hphase, hfraction, hindex, hexponent,
                           hint, hwritten, hdigits, hwexp, hvalue, hfail>>

(* A decimal digit of the exponent, saturating at written_exponent_overflow. *)
HexExpDigit ==
  LET c == Char(htext, hpos) IN
  /\ hphase = "exp" /\ IsDigit(c)
  /\ hdigits' = TRUE
  /\ LET digit == get_nibble_from_character(c) IN
       hwexp' = IF hwexp >= (ExpOverflow(hfmt) - digit) \div 10 THEN ExpOverflow(hfmt)
                                                                 ELSE hwexp * 10 + digit
  /\ Advance
  /\ UNCHANGED <<hfmt, htext, hneg, hphase, hfraction, hindex, hexponent, hint,
                 hwritten, hseensign, hsign, hvalue, hfail>>

(* Any other character ends the exponent: fail without digits, else fold *)
(* the exponent in and store the encoded value.                          *)
HexExpEnd ==
  LET c == Char(htext, hpos) IN
  /\ hphase = "exp" /\ ~IsDigit(c) /\ ~IsExpSign(c)
  /\ IF ~hdigits
       THEN HexFail
       ELSE /\ hvalue' = HexEncode(hfmt, hneg, ScanState,
                                   CombineExponent(hfmt, hwexp * hsign, hexponent))
            /\ hphase' = "done"
            /\ UNCHANGED <<hfmt, htext, hpos, hneg, hfraction, hindex, hexponent, hint,
                           hwritten, hseensign, hsign, hdigits, hwexp, hfail>>

HexNext == HexStart \/ HexIntChar \/ HexFracChar \/ HexExpSign \/ HexExpDigit \/ HexExpEnd

HexSpec == HexInit /\ [][HexNext]_hexVars
-----------------------------------------------------------------------------
(* The reference: what the text says, read the way the comment above     *)
(* operator>> describes.  After white space and an optional '-', a text  *)
(* starting "0x" is a hex float; its body is a mantissa of hex digits     *)
(* with at most one '.', then 'p', an optional sign and decimal digits.  *)
RECURSIVE SkipSpaces(_)
SkipSpaces(t) == IF t # << >> /\ Head(t) = " " THEN SkipSpaces(Tail(t)) ELSE t

RECURSIVE DigitRun(_)
DigitRun(t) == IF t # << >> /\ IsDigit(Head(t)) THEN << Head(t) >> \o DigitRun(Tail(t))
                                                ELSE << >>

RefNeg(t) == LET u == SkipSpaces(t) IN u # << >> /\ Head(u) = "-"
RefNumber(t) == LET u == SkipSpaces(t) IN IF RefNeg(t) THEN Tail(u) ELSE u
RefIsHex(t) == LET v == RefNumber(t) IN Len(v) >= 2 /\ v[1] = "0" /\ v[2] \in {"x", "X"}
RefBody(t) == LET v == RefNumber(t) IN SubSeq(v, 3, Len(v))

(* The mantissa runs up to the first character that is neither a hex    *)
(* digit nor '.'; that character must be the 'p'.                         *)
MantissaEnd(b) ==
  LET k == SelectInSeq(b, LAMBDA x : ~IsXDigit(x) /\ x # ".") IN
  IF k = 0 THEN Len(b) + 1 ELSE k
MantissaText(b) == SubSeq(b, 1, MantissaEnd(b) - 1)
ExpText(b) == SubSeq(b, MantissaEnd(b) + 1, Len(b))
ExpSigned(e) == e # << >> /\ Head(e) \in {"+", "-"}
ExpDigits(e) == DigitRun(IF ExpSigned(e) THEN Tail(e) ELSE e)

RefWellFormed(b) ==
  /\ Char(b, MantissaEnd(b)) = "p"
  /\ Len(SelectSeq(MantissaText(b), LAMBDA x : x = ".")) <= 1
  /\ ExpDigits(ExpText(b)) # << >>

DigitsValue(ds, base) ==
  FoldLeft(LAMBDA a, d : a * base + get_nibble_from_character(d), 0, ds)

(* The body's value is N * 2^S: N the mantissa's digits as one integer,   *)
(* S the written exponent less 4 per digit right of the '.'.             *)
RefN(b) == DigitsValue(SelectSeq(MantissaText(b), IsXDigit), 16)
RefS(b) ==
  LET m  == MantissaText(b)
      d  == SelectInSeq(m, LAMBDA x : x = ".")
      nf == IF d = 0 THEN 0 ELSE Len(SelectSeq(SubSeq(m, d + 1, Len(m)), IsXDigit))
      e  == ExpText(b)
  IN  (IF ExpSigned(e) /\ Head(e) = "-" THEN -1 ELSE 1) * DigitsValue(ExpDigits(e), 10)
        - 4 * nf

ShiftFloor(n, k) == IF k >= 0 THEN n * 2^k ELSE IF k < -24 THEN 0 ELSE n \div 2^(-k)

(* N * 2^S truncated toward zero into the format.  An unbiased exponent of *)
(* bias + 1 lands in the all-ones exponent field with its fraction ("the *)
(* exact representation for a NaN"), any larger one is infinity, and a   *)
(* value below the denormals is zero.                                     *)
RefValue(fmt, neg, n, sh) ==
  LET k == BitLen(n) - 1 + sh IN
  CASE n = 0 -> [neg |-> neg, e |-> 0, f |-> 0]
    [] k > fmt.bias + 1 -> [neg |-> neg, e |-> ExpAllOnes(fmt), f |-> 0]
    [] k >= 1 - fmt.bias ->
         [neg |-> neg, e |-> k + fmt.bias, f |-> ShiftFloor(n, fmt.F - k + sh) - 2^fmt.F]
    [] OTHER -> [neg |-> neg, e |-> 0, f |-> ShiftFloor(n, sh + fmt.bias - 1 + fmt.F)]

(* operator>> hands a text to ParseNormalFloat exactly when it does not   *)
(* start with [-]0x, with negate_value set by a consumed '-' and the      *)
(* stream at the number; a hex text is read without the fail bit exactly *)
(* when it is well formed, and then value is its truncation (with the     *)
(* NaN and infinity encodings above), else value is +0.                   *)
HexReadMatchesReference ==
  LET b == RefBody(htext) IN
  hphase \in {"normal", "done"} =>
    /\ (hphase = "normal") <=> ~RefIsHex(htext)
    /\ hphase = "normal" =>
         /\ hneg = RefNeg(htext) /\ hvalue = HexZero
         /\ hpos = Len(htext) - Len(RefNumber(htext)) + 1
    /\ hphase = "done" =>
         /\ hfail <=> ~RefWellFormed(b)
         /\ hfail => hvalue = HexZero
         /\ ~hfail => hvalue = RefValue(hfmt, RefNeg(htext), RefN(b), RefS(b))
=============================================================================
