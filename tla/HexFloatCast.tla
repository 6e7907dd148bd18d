---------------------------- MODULE HexFloatCast ----------------------------
(***************************************************************************)
(* One HexFloat<src> converted to dst with castTo, then the result        *)
(* converted back to src with castTo.  The pair of formats, the input and *)
(* the rounding direction are chosen in Init from the cases the model     *)
(* gives.                                                                  *)
(***************************************************************************)
EXTENDS FloatRef

CONSTANTS
  Cases,       \* a set of [src, dst, inputs]: formats and the src values to convert
  Directions   \* the round_direction values to use

ASSUME /\ \A c \in Cases : c.src \in Formats /\ c.dst \in Formats
                           /\ c.inputs \subseteq Values(c.src)
       /\ Directions \subseteq RoundDirections

VARIABLES
  src,    \* the source format
  dst,    \* the destination format
  x,      \* the source value
  dir,    \* the rounding direction passed to castTo
  y,      \* x converted to dst
  z,      \* y converted back to src
  pc      \* "start", "cast" (y set) or "back" (z set)

vars == <<src, dst, x, dir, y, z, pc>>

Zero == [neg |-> FALSE, e |-> 0, f |-> 0]

Init ==
  /\ \E c \in Cases : src = c.src /\ dst = c.dst /\ x \in c.inputs
  /\ dir \in Directions
  /\ y = Zero
  /\ z = Zero
  /\ pc = "start"

(* other = castTo(x, dir)                                                  *)
Cast ==
  /\ pc = "start"
  /\ y' = castTo(src, dst, x, dir)
  /\ pc' = "cast"
  /\ UNCHANGED <<src, dst, x, dir, z>>

(* Converting the result back to the source format.                        *)
CastBack ==
  /\ pc = "cast"
  /\ z' = castTo(dst, src, y, dir)
  /\ pc' = "back"
  /\ UNCHANGED <<src, dst, x, dir, y>>

Next == Cast \/ CastBack

Spec == Init /\ [][Next]_vars

TypeOK ==
  /\ src \in Formats /\ dst \in Formats
  /\ x \in Values(src) /\ y \in Values(dst) /\ z \in Values(src)
  /\ dir \in RoundDirections
  /\ pc \in {"start", "cast", "back"}

-----------------------------------------------------------------------------
(* Properties.  Each one is about the value castTo produces (y) or the     *)
(* round trip (z).                                                         *)

(* castTo "will retain Nan values": converting a NaN of the source gives  *)
(* a NaN of the destination, also when the payload bits that survive the  *)
(* narrowing shift are all zero (castTo then sets the lowest bit).        *)
NaNStaysNaN == pc # "start" /\ isNan(src, x) => isNan(dst, y)

(* When castTo rounds toward zero (kToZero, or a directed rounding that   *)
(* moves toward zero for the input's sign), a finite non-zero input gives *)
(* exactly the reference rounding: the truncated significand, the         *)
(* underflow to zero and the saturation to infinity (or max) all agree.   *)
TruncatesExactly ==
  (pc # "start" /\ IsFiniteNonZero(src, x)
     /\ (dir = "kToZero" \/ (dir = "kToPositiveInfinity" /\ x.neg)
                         \/ (dir = "kToNegativeInfinity" /\ ~x.neg)))
  => y = RefCast(src, dst, x, dir)

(* castTo rounds a finite non-zero input as the reference does in every   *)
(* direction, when the input's exponent is one of dst's normal exponents  *)
(* (so no denormal shifting happens): in particular a significand that   *)
(* rounds up to the next power of two moves to the next exponent.        *)
RoundsInNormalRange ==
  (pc # "start" /\ IsFiniteNonZero(src, x)
     /\ CastExponent(src, x) > MinExponent(dst))
  => y = RefCast(src, dst, x, dir)

(* castTo rounds a finite non-zero input as the reference does in every   *)
(* direction, when the result is a denormal or zero of dst.               *)
RoundsInDenormalRange ==
  LET r == RefCast(src, dst, x, dir)
  IN  (pc # "start" /\ IsFiniteNonZero(src, x) /\ r.e = 0) => y = r

(* A finite non-zero input whose reference rounding is a denormal or     *)
(* zero of dst comes out of castTo either correctly rounded or truncated: *)
(* the second right shift of                                              *)
(* setFromSignUnbiasedExponentAndNormalizedSignificand may drop the guard *)
(* and sticky bits, but round_denorm_up may only lift a zero result to    *)
(* the smallest denormal when the direction rounds away from zero for the *)
(* sign. Inputs whose kept bits are all ones are left out: their rounding *)
(* carry is the separate overflow of getRoundedNormalizedSignificand.     *)
DenormBounded ==
  LET r == RefCast(src, dst, x, dir)
  IN  (pc # "start" /\ IsFiniteNonZero(src, x) /\ r.e = 0
       /\ (src.F > dst.F => x.f \div 2^(src.F - dst.F) # 2^dst.F - 1))
        => y \in {r, RefCast(src, dst, x, "kToZero")}

(* Widening a non-NaN value and narrowing it back gives the same bits:    *)
(* every value of the narrower format is representable in the wider one. *)
WidenNarrowRoundTrip ==
  pc = "back" /\ src.F < dst.F /\ ~isNan(src, x) => z = x

(* Widening a NaN and narrowing it back gives the same bits: the payload *)
(* survives both NaN paths of castTo.                                     *)
NaNRoundTrip == pc = "back" /\ src.F < dst.F /\ isNan(src, x) => z = x
=============================================================================
