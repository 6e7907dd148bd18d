------------------------------ MODULE HexFloat ------------------------------
(***************************************************************************)
(* The bit-level float conversion of util/hex_float.h: the format traits  *)
(* (HexFloatTraits, the Float8_E4M3 / Float8_E5M2 / Float16 classes) and  *)
(* HexFloat<T>::castTo with the helpers it calls.                         *)
(*                                                                         *)
(* A value is kept as its three fields [neg, e, f] (sign, biased exponent *)
(* bits, fraction bits) instead of one integer: a float32 bit pattern     *)
(* does not fit TLC's 32-bit signed integers.  C++ integer casts that can *)
(* wrap (static_cast to int8_t / int16_t) are modelled by Wrap.           *)
(* The model follows a release (NDEBUG) build: the assert in             *)
(* setFromSignUnbiasedExponentAndNormalizedSignificand is not evaluated.  *)
(***************************************************************************)
EXTENDS Integers, Bitwise

(* Traits: W is the width of uint_type/int_type, nanF the fraction bits  *)
(* of NaN_pattern, (maxE, maxF) the fields of underlying max().           *)
(* Float32's NaN_pattern is 0x7f80000 in the source, whose fraction part  *)
(* is 0x780000.                                                           *)
Float32 == [W |-> 32, E |-> 8, F |-> 23, bias |-> 127, hasInf |-> TRUE,
            nanF |-> \h780000, maxE |-> 254, maxF |-> \h7fffff]
Float16 == [W |-> 16, E |-> 5, F |-> 10, bias |-> 15, hasInf |-> TRUE,
            nanF |-> 0, maxE |-> 30, maxF |-> \h3ff]
Float8E5M2 == [W |-> 8, E |-> 5, F |-> 2, bias |-> 15, hasInf |-> TRUE,
               nanF |-> 0, maxE |-> 30, maxF |-> 3]
Float8E4M3 == [W |-> 8, E |-> 4, F |-> 3, bias |-> 7, hasInf |-> FALSE,
               nanF |-> 7, maxE |-> 15, maxF |-> 6]

Formats == {Float32, Float16, Float8E5M2, Float8E4M3}

RoundDirections == {"kToZero", "kToNearestEven",
                    "kToPositiveInfinity", "kToNegativeInfinity"}

ExpAllOnes(fmt) == 2^fmt.E - 1

Values(fmt) == [neg : BOOLEAN, e : 0..ExpAllOnes(fmt), f : 0..(2^fmt.F - 1)]

(* static_cast of an integer to a signed type of `bits` bits.             *)
Wrap(n, bits) ==
  IF bits >= 32 THEN n
  ELSE ((n + 2^(bits - 1)) % 2^bits) - 2^(bits - 1)

RECURSIVE BitLen(_)
BitLen(n) == IF n = 0 THEN 0 ELSE 1 + BitLen(n \div 2)

(* isNan / isInfinity of the underlying type.  E4M3 has no infinity and  *)
(* one NaN per sign (all of e and f set).                                 *)
isNan(fmt, v) ==
  IF fmt.hasInf THEN v.e = ExpAllOnes(fmt) /\ v.f # 0
  ELSE v.e = ExpAllOnes(fmt) /\ v.f = 2^fmt.F - 1

isInfinity(fmt, v) == fmt.hasInf /\ v.e = ExpAllOnes(fmt) /\ v.f = 0

MinExponent(fmt) == -fmt.bias

getUnbiasedExponent(fmt, v) == v.e - fmt.bias

(* A denormal's exponent is lowered once per leading zero of the fraction. *)
getUnbiasedNormalizedExponent(fmt, v) ==
  IF v.e = 0 /\ v.f = 0 THEN 0
  ELSE IF v.e = 0 THEN MinExponent(fmt) - (fmt.F - BitLen(v.f))
  ELSE getUnbiasedExponent(fmt, v)

(* Shift left once per i in unbiased_exponent..min_exponent, then mask.   *)
getNormalizedSignificand(fmt, v) ==
  LET ue == getUnbiasedNormalizedExponent(fmt, v)
      n  == IF ue <= MinExponent(fmt) THEN MinExponent(fmt) - ue + 1 ELSE 0
  IN  (v.f * 2^n) % 2^fmt.F

(* Returns <<significand, carry>>.                                        *)
incrementSignificand(fmt, significand, toIncrement) ==
  LET s == significand + toIncrement
  IN  IF s >= 2^fmt.F THEN << (s - 2^fmt.F) \div 2, TRUE >>
                      ELSE << s, FALSE >>

(* The round_away_from_zero switch of getRoundedNormalizedSignificand.    *)
RoundAwayFromZero(dir, negative, significand, throwaway) ==
  LET guard  == (significand \div 2^(throwaway - 1)) % 2 = 1
      sticky == significand % 2^(throwaway - 1) # 0
      lsb    == (significand \div 2^throwaway) % 2 = 1
  IN  CASE dir = "kToZero"             -> FALSE
        [] dir = "kToPositiveInfinity" -> ~negative
        [] dir = "kToNegativeInfinity" -> negative
        [] dir = "kToNearestEven"      -> guard /\ (sticky \/ lsb)

(* Returns <<rounded significand in other's fraction width, carry>>.      *)
getRoundedNormalizedSignificand(S, T, v, dir) ==
  LET throwaway   == S.F - T.F
      significand == getNormalizedSignificand(S, v)
  IN  IF throwaway <= 0
        THEN << significand * 2^(-throwaway), FALSE >>
      ELSE IF significand % 2^throwaway = 0
        THEN << significand \div 2^throwaway, FALSE >>
      ELSE IF RoundAwayFromZero(dir, v.neg, significand, throwaway)
        THEN LET inc == incrementSignificand(S, significand, 2^throwaway)
             IN  << inc[1] \div 2^throwaway, inc[2] >>
      ELSE << significand \div 2^throwaway, FALSE >>

(* negatable_left_shift<T.F - S.F>::val on the source's uint_type: a left *)
(* shift is truncated to the source width W.                              *)
ShiftedNaNSignificand(S, T, f) ==
  IF T.F >= S.F THEN (f * 2^(T.F - S.F)) % 2^S.W
  ELSE f \div 2^(S.F - T.F)

(* Fault: a zero denormal is lifted to the smallest denormal whatever the *)
(* rounding direction.                                                   *)
setFromSignDenormAlwaysUp(T, negative, exponent, significand, roundDenormUp) ==
  LET denorm  == exponent <= MinExponent(T)
      isZero  == ~denorm /\ significand = 0
      sig1    == IF denorm THEN (significand + 2^T.F) \div 2 ELSE significand
      shifts  == IF exponent < MinExponent(T) THEN MinExponent(T) - exponent ELSE 0
      sig2    == IF shifts > T.F + 1 THEN 0 ELSE sig1 \div 2^shifts
      exp2    == IF exponent < MinExponent(T) THEN MinExponent(T) ELSE exponent
      sig3    == IF exp2 = MinExponent(T) /\ sig2 = 0 /\ ~isZero THEN 1 ELSE sig2
  IN  [neg |-> negative, e |-> Wrap(exp2 + T.bias, T.W) % 2^T.E, f |-> sig3 % 2^T.F]

setFromSignUnbiasedExponentAndNormalizedSignificand(T, negative, exponent, significand, roundDenormUp) ==
  LET denorm  == exponent <= MinExponent(T)
      isZero  == ~denorm /\ significand = 0
      sig1    == IF denorm THEN (significand + 2^T.F) \div 2 ELSE significand
      shifts  == IF exponent < MinExponent(T) THEN MinExponent(T) - exponent ELSE 0
      sig2    == IF shifts > T.F + 1 THEN 0 ELSE sig1 \div 2^shifts
      exp2    == IF exponent < MinExponent(T) THEN MinExponent(T) ELSE exponent
      sig3    == IF exp2 = MinExponent(T) /\ sig2 = 0 /\ ~isZero /\ roundDenormUp
                   THEN 1 ELSE sig2
      biased  == Wrap(exp2 + T.bias, T.W)
  IN  [neg |-> negative, e |-> biased % 2^T.E, f |-> sig3 % 2^T.F]

(* Faults of the kind the properties must detect in the code below: the  *)
(* overflow test off by one, the NaN payload left at zero, a NaN fraction *)
(* shifted one place too few, a denormal's exponent off by one.          *)
IsInfAtBias(S, T, v, exponent, carried) ==
  ~isNan(S, v) /\ (exponent + carried >= T.bias \/ isInfinity(S, v))
NaNResultKeepsZero(S, T, v) ==
  [neg |-> v.neg, e |-> ExpAllOnes(T),
   f |-> T.nanF | ShiftedNaNSignificand(S, T, v.f)]
NaNResultShortShift(S, T, v) ==
  [neg |-> v.neg, e |-> ExpAllOnes(T),
   f |-> T.nanF | (IF T.F >= S.F THEN 1 ELSE v.f \div 2^(S.F - T.F - 1))]
CastExponentOffByOne(S, v) ==
  IF v.e = 0 THEN MinExponent(S) - S.F + BitLen(v.f) - 1
  ELSE getUnbiasedExponent(S, v)

(* The exponent castTo computes for its source: a denormal's is lowered   *)
(* until the first set fraction bit.                                      *)
CastExponent(S, v) ==
  IF v.e = 0 THEN MinExponent(S) - S.F + BitLen(v.f)
  ELSE getUnbiasedExponent(S, v)

(* is_inf: the source is infinite, or its exponent (plus the rounding     *)
(* carry) exceeds the destination's bias.                                 *)
IsInf(S, T, v, exponent, carried) ==
  ~isNan(S, v) /\ (exponent + carried > T.bias \/ isInfinity(S, v))

(* A NaN keeps as much of its fraction as the shift leaves; if nothing is *)
(* left, the lowest bit is set so that the result is still a NaN.        *)
NaNResult(S, T, v) ==
  LET shifted == ShiftedNaNSignificand(S, T, v.f)
  IN  [neg |-> v.neg, e |-> ExpAllOnes(T),
       f |-> T.nanF | (IF shifted = 0 THEN 1 ELSE shifted)]

(* Infinity, or max() with the sign for a format without infinity.       *)
InfResult(T, negative) ==
  IF T.hasInf THEN [neg |-> negative, e |-> ExpAllOnes(T), f |-> 0]
  ELSE [neg |-> negative, e |-> T.maxE, f |-> T.maxF]

castTo(S, T, v, dir) ==
  LET rounded  == getRoundedNormalizedSignificand(S, T, v, dir)
      exponent == CastExponent(S, v)
      carried  == IF rounded[2] THEN 1 ELSE 0
      underflowUp == IF v.neg THEN dir = "kToNegativeInfinity"
                              ELSE dir = "kToPositiveInfinity"
  IN  CASE v.e = 0 /\ v.f = 0            -> [neg |-> v.neg, e |-> 0, f |-> 0]
        [] IsInf(S, T, v, exponent, carried) -> InfResult(T, v.neg)
        [] isNan(S, v)                    -> NaNResult(S, T, v)
        [] OTHER -> setFromSignUnbiasedExponentAndNormalizedSignificand(
                      T, v.neg, Wrap(exponent, T.W), rounded[1], underflowUp)
=============================================================================
