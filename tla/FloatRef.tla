------------------------------ MODULE FloatRef ------------------------------
(***************************************************************************)
(* Reference definition of a float-to-float conversion, written from the  *)
(* values the encodings denote rather than from their bits, to check      *)
(* HexFloat!castTo against.  It follows the contract castTo documents:    *)
(* the value is rounded in the requested direction; a magnitude at or     *)
(* above 2^(maxExp+1) (the first power of two past the largest finite     *)
(* exponent) saturates to infinity, or to max() in a format without one.  *)
(*                                                                         *)
(* A finite non-zero value is the pair <<M, X>> denoting M * 2^X.  Two    *)
(* such values are compared through their bit lengths and left-aligned   *)
(* mantissas, so no power 2^X is ever computed.                           *)
(***************************************************************************)
EXTENDS HexFloat

Mantissa(fmt, v) == IF v.e = 0 THEN v.f ELSE 2^fmt.F + v.f
Exp2(fmt, v)     == IF v.e = 0 THEN 1 - fmt.bias - fmt.F ELSE v.e - fmt.bias - fmt.F

AlignBits == 27

(* -1, 0, 1 as M1 * 2^X1 is below, equal to, above M2 * 2^X2 (M1, M2 > 0). *)
CompareMag(M1, X1, M2, X2) ==
  LET L1 == X1 + BitLen(M1)
      L2 == X2 + BitLen(M2)
      A1 == M1 * 2^(AlignBits - BitLen(M1))
      A2 == M2 * 2^(AlignBits - BitLen(M2))
  IN  CASE L1 < L2 \/ (L1 = L2 /\ A1 < A2) -> -1
        [] L1 > L2 \/ (L1 = L2 /\ A1 > A2) -> 1
        [] OTHER -> 0

(* Magnitude encodings of fmt, in increasing order of value.              *)
MaxFinitePattern(fmt) == fmt.maxE * 2^fmt.F + fmt.maxF
Pattern(fmt, p) == [neg |-> FALSE, e |-> p \div 2^fmt.F, f |-> p % 2^fmt.F]

(* Largest pattern p in lo..hi whose magnitude does not exceed M * 2^X;  *)
(* lo's magnitude must not exceed it.                                     *)
RECURSIVE FloorPattern(_, _, _, _, _)
FloorPattern(fmt, M, X, lo, hi) ==
  IF lo = hi THEN lo
  ELSE LET mid == lo + (hi - lo + 1) \div 2
           pv  == Pattern(fmt, mid)
       IN  IF CompareMag(Mantissa(fmt, pv), Exp2(fmt, pv), M, X) <= 0
             THEN FloorPattern(fmt, M, X, mid, hi)
             ELSE FloorPattern(fmt, M, X, lo, mid - 1)

MaxExp(fmt) == fmt.maxE - fmt.bias

Overflowed(T, negative) ==
  IF T.hasInf THEN [neg |-> negative, e |-> ExpAllOnes(T), f |-> 0]
  ELSE [neg |-> negative, e |-> T.maxE, f |-> T.maxF]

(* The correctly rounded image in T of a finite, non-zero v of S.         *)
RefCast(S, T, v, dir) ==
  LET M   == Mantissa(S, v)
      X   == Exp2(S, v)
      lo  == FloorPattern(T, M, X, 0, MaxFinitePattern(T))
      lv  == Pattern(T, lo)
      cmp == IF lo = 0 THEN 1 ELSE CompareMag(M, X, Mantissa(T, lv), Exp2(T, lv))
      up  == IF cmp = 0 THEN lo ELSE lo + 1
      \* the midpoint between lo and the next pattern is (2*M_lo + 1) * 2^(X_lo - 1)
      half == IF lo = 0 THEN CompareMag(M, X, 1, Exp2(T, Pattern(T, 1)) - 1)
              ELSE CompareMag(M, X, 2 * Mantissa(T, lv) + 1, Exp2(T, lv) - 1)
      away == CASE dir = "kToZero"             -> FALSE
                [] dir = "kToPositiveInfinity" -> ~v.neg
                [] dir = "kToNegativeInfinity" -> v.neg
                [] dir = "kToNearestEven"      -> half = 1 \/ (half = 0 /\ lo % 2 = 1)
      pick == IF away THEN up ELSE lo
  IN  IF CompareMag(M, X, 1, MaxExp(T) + 1) >= 0 /\ T.hasInf
        THEN Overflowed(T, v.neg)
      ELSE IF pick > MaxFinitePattern(T) THEN Overflowed(T, v.neg)
      ELSE [Pattern(T, pick) EXCEPT !.neg = v.neg]

IsFiniteNonZero(fmt, v) ==
  ~isNan(fmt, v) /\ ~isInfinity(fmt, v) /\ ~(v.e = 0 /\ v.f = 0)
=============================================================================
