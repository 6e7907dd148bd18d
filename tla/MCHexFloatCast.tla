--------------------------- MODULE MCHexFloatCast ---------------------------
(***************************************************************************)
(* Model values for HexFloatCast.  Inputs are sampled so that every path  *)
(* of castTo is reached: zero, source denormals, destination denormals    *)
(* and underflow, the normal range, the exponents next to overflow,       *)
(* infinity and NaN; fractions whose discarded bits hit every case of     *)
(* the guard and sticky bits and whose kept bits are zero, odd, or all    *)
(* ones (the carry case).                                                 *)
(***************************************************************************)
EXTENDS HexFloatCast

\* Fractions of a wider format: kept bits (the destination's F high bits),
\* then the guard bit, then one sticky bit at the bottom.
SampleFracs(S, T, kept) ==
  {k * 2^(S.F - T.F) + g * 2^(S.F - T.F - 1) + s :
     k \in kept, g \in {0, 1}, s \in {0, 1}}

\* Float32 -> Float16: Float16 denormals start at 2^-24 (e = 103), normals
\* at 2^-14 (e = 113); 2^16 (e = 143) overflows.
F32ToF16Inputs ==
  [neg : BOOLEAN,
   e : {0, 1, 90, 101, 102, 103, 104, 112, 113, 114, 127, 141, 142, 143, 255},
   f : SampleFracs(Float32, Float16, {0, 1, \h200, \h3ff})]

\* Float32 -> Float8 E5M2: denormals from 2^-16 (e = 111), normals from
\* 2^-14 (e = 113); 2^16 (e = 143) overflows.  Float32 denormals are left
\* to F32DenormInputs.
F32ToE5M2Inputs ==
  [neg : BOOLEAN,
   e : {1, 100, 109, 110, 111, 112, 113, 114, 127, 142, 143, 255},
   f : SampleFracs(Float32, Float8E5M2, {0, 1, 2, 3})]

\* Float32 denormals: their unbiased exponent is -150 + the bit length of
\* the fraction, below the range of an int8_t exponent.
F32DenormInputs ==
  [neg : BOOLEAN, e : {0}, f : {1, 2, 3, \h1000, \h400000, \h7fffff}]

\* Float16 values: every exponent, fractions at both ends and in between.
F16Inputs ==
  [neg : BOOLEAN, e : 0..31, f : {0, 1, 2, \h155, \h200, \h3fe, \h3ff}]

E5M2Inputs == Values(Float8E5M2)

Case(s, d, in) == [src |-> s, dst |-> d, inputs |-> in]

\* Two narrowings and two widenings whose round trips are checked.
CastCases ==
  {Case(Float32, Float16, F32ToF16Inputs), Case(Float32, Float8E5M2, F32ToE5M2Inputs),
   Case(Float16, Float32, F16Inputs), Case(Float8E5M2, Float16, E5M2Inputs)}

NarrowF32ToF16 == {Case(Float32, Float16, F32ToF16Inputs)}
WidenF16ToF32 == {Case(Float16, Float32, F16Inputs)}
NarrowF32DenormToE5M2 == {Case(Float32, Float8E5M2, F32DenormInputs)}
=============================================================================
