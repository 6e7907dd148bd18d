---------------------------- MODULE MCFloatParse ----------------------------
(***************************************************************************)
(* Model values for FloatParse: literals whose float value lies at each    *)
(* boundary of the target (denormal start, normal start, max(), the next  *)
(* power of two), out-of-range and malformed literals, each with and      *)
(* without a following sign character.                                    *)
(***************************************************************************)
EXTENDS FloatParse

TextSet(exps, fracs) ==
  [lead : {"digit", "sign"}, res : {"ok"},
   val : [neg : BOOLEAN, e : exps, f : fracs]]
  \cup [lead : {"digit", "sign"}, res : {"overflow", "invalid"},
        val : [neg : BOOLEAN, e : {0}, f : {0}]]

\* Float16: max() 65504 = 2^15 * 1.9990 (e = 142); 2^16 is e = 143.
F16Texts ==
  TextSet({0, 100, 102, 103, 112, 113, 127, 141, 142, 143, 160, 254},
        {0, 1, \h3fe000, \h400000, \h7fe000, \h7fe001, \h7fffff})

\* E4M3: max() 448 = 2^8 * 1.75 (e = 135, f = 0x600000); 256 is e = 135.
E4M3Texts ==
  TextSet({117, 118, 121, 127, 134, 135, 136, 200},
        {0, 1, \h200000, \h400000, \h600000, \h600001, \h7fffff})

\* E5M2: max() 57344 = 2^15 * 1.75 (e = 142); 2^16 is e = 143.
E5M2Texts ==
  TextSet({110, 111, 113, 127, 142, 143, 200},
        {0, 1, \h200000, \h600000, \h600001, \h7fffff})

\* Float32 denormals, as a literal like 1e-40 reads.
DenormTexts == TextSet({0}, {1, \h1000, \h7fffff})

ParseCases ==
  {[target |-> Float16, texts |-> F16Texts],
   [target |-> Float8E4M3, texts |-> E4M3Texts],
   [target |-> Float8E5M2, texts |-> E5M2Texts]}
E5M2Cases == {[target |-> Float8E5M2, texts |-> E5M2Texts]}
E4M3Cases == {[target |-> Float8E4M3, texts |-> E4M3Texts]}
=============================================================================
