----------------------------- MODULE FloatParse -----------------------------
(***************************************************************************)
(* Decimal float literals read into a HexFloat (util/hex_float.h):        *)
(* RejectParseDueToLeadingSign, the generic ParseNormalFloat for float,   *)
(* and its Float16, Float8_E4M3 and Float8_E5M2 specialisations, which    *)
(* read a float and narrow it with castTo toward zero.                    *)
(*                                                                         *)
(* The text is abstracted to what `is >> val` makes of it under the C++11 *)
(* num_get rules: a finite float (the decimal rounded to nearest), or an  *)
(* out-of-range literal (fail bit, +/- FLT_MAX), or no number at all      *)
(* (fail bit, 0).  `lead` says whether the next character is a sign.      *)
(***************************************************************************)
EXTENDS FloatRef

CONSTANT
  Cases     \* a set of [target, texts]: a HexFloat format and the inputs to parse

StreamResults == {"ok", "overflow", "invalid"}

TextOutcomes ==
  [lead : {"digit", "sign"}, res : StreamResults, val : Values(Float32)]

ASSUME \A c \in Cases : c.target \in {Float16, Float8E4M3, Float8E5M2}
                       /\ c.texts \subseteq TextOutcomes

PosZero == [neg |-> FALSE, e |-> 0, f |-> 0]

(* max() and lowest() of FloatProxyTraits / the Float16 and Float8 classes *)
MaxOf(fmt) == [neg |-> FALSE, e |-> fmt.maxE, f |-> fmt.maxF]
LowestOf(fmt) ==
  CASE fmt = Float32    -> [MaxOf(Float32) EXCEPT !.neg = TRUE]
    [] fmt = Float16    -> [neg |-> TRUE, e |-> 30, f |-> \h3ff]    \* 0xfbff
    [] fmt = Float8E5M2 -> [neg |-> FALSE, e |-> 1, f |-> 0]        \* 0x4
    [] fmt = Float8E4M3 -> [neg |-> FALSE, e |-> 1, f |-> 0]        \* 0x8

(* `is >> val` for a float: <<val, fail bit>>.                             *)
StreamRead(t) ==
  CASE t.res = "ok"       -> << t.val, FALSE >>
    [] t.res = "overflow" -> << [MaxOf(Float32) EXCEPT !.neg = t.val.neg], TRUE >>
    [] t.res = "invalid"  -> << PosZero, TRUE >>

RejectParseDueToLeadingSign(t, negate) == negate /\ t.lead = "sign"

(* Fault: a failed parse of a negated literal keeps -0.0.                *)
ParseNormalFloatKeepsNegZero(t, negate) ==
  IF RejectParseDueToLeadingSign(t, negate)
    THEN [value |-> PosZero, fail |-> TRUE]
  ELSE LET r == StreamRead(t)
       IN  [value |-> IF negate THEN [r[1] EXCEPT !.neg = ~@] ELSE r[1],
            fail |-> r[2]]

(* The generic template instantiated for FloatProxy<float>: a record of   *)
(* the value stored and the stream's fail bit.                            *)
ParseNormalFloat(t, negate) ==
  IF RejectParseDueToLeadingSign(t, negate)
    THEN [value |-> PosZero, fail |-> TRUE]
  ELSE
    LET r   == StreamRead(t)
        val == IF negate THEN [r[1] EXCEPT !.neg = ~@] ELSE r[1]
        v   == IF r[2] /\ val.e = 0 /\ val.f = 0 THEN PosZero ELSE val
    IN  IF isInfinity(Float32, val)
          THEN [value |-> IF v.neg \/ negate THEN LowestOf(Float32)
                          ELSE MaxOf(Float32),
                fail |-> TRUE]
        ELSE [value |-> v, fail |-> r[2]]

(* Fault: the fail bit not set on overflow.                                *)
ParseFloat16NoFail(t, negate) ==
  LET c == castTo(Float32, Float16, ParseNormalFloat(t, negate).value, "kToZero")
  IN  [value |-> IF isInfinity(Float16, c) THEN MaxOf(Float16) ELSE c,
       fail |-> ParseNormalFloat(t, negate).fail]

(* Float16: narrow toward zero; an infinite result becomes lowest() or    *)
(* max() with the fail bit.                                               *)
ParseNormalFloatFloat16(t, negate) ==
  LET p == ParseNormalFloat(t, negate)
      c == castTo(Float32, Float16, p.value, "kToZero")
  IN  IF isInfinity(Float16, c)
        THEN [value |-> IF c.neg THEN LowestOf(Float16) ELSE MaxOf(Float16),
              fail |-> TRUE]
      ELSE [value |-> c, fail |-> p.fail]

(* getAsFloat() > 448.0f and < -448.0f (448 = 7 * 2^6).                   *)
Above448(v) ==
  ~isNan(Float32, v) /\ ~(v.e = 0 /\ v.f = 0)
  /\ CompareMag(Mantissa(Float32, v), Exp2(Float32, v), 7, 6) > 0

(* E4M3: the range check against +/-448, then narrow toward zero.         *)
ParseNormalFloatE4M3(t, negate) ==
  LET p == ParseNormalFloat(t, negate)
  IN  CASE Above448(p.value) /\ ~p.value.neg ->
             [value |-> MaxOf(Float8E4M3), fail |-> TRUE]
        [] Above448(p.value) /\ p.value.neg ->
             [value |-> [MaxOf(Float8E4M3) EXCEPT !.neg = TRUE], fail |-> TRUE]
        [] OTHER ->
             [value |-> castTo(Float32, Float8E4M3, p.value, "kToZero"),
              fail |-> p.fail]

(* E5M2: as Float16, with Float8_E5M2::lowest() and max().               *)
ParseNormalFloatE5M2(t, negate) ==
  LET p == ParseNormalFloat(t, negate)
      c == castTo(Float32, Float8E5M2, p.value, "kToZero")
  IN  IF isInfinity(Float8E5M2, c)
        THEN [value |-> IF c.neg THEN LowestOf(Float8E5M2) ELSE MaxOf(Float8E5M2),
              fail |-> TRUE]
      ELSE [value |-> c, fail |-> p.fail]

VARIABLES
  target,   \* the format parsed into
  text,     \* what the stream holds
  negate,   \* the caller's negate_value
  value,    \* the HexFloat<target> written
  fail,     \* the stream's fail bit
  pc

vars == <<target, text, negate, value, fail, pc>>

Init ==
  /\ \E c \in Cases : target = c.target /\ text \in c.texts
  /\ negate \in BOOLEAN
  /\ value = PosZero
  /\ fail = FALSE
  /\ pc = "start"

Finish(r) == value' = r.value /\ fail' = r.fail /\ pc' = "done"
               /\ UNCHANGED <<target, text, negate>>

ParseFloat16 ==
  pc = "start" /\ target = Float16 /\ Finish(ParseNormalFloatFloat16(text, negate))
ParseE4M3 ==
  pc = "start" /\ target = Float8E4M3 /\ Finish(ParseNormalFloatE4M3(text, negate))
ParseE5M2 ==
  pc = "start" /\ target = Float8E5M2 /\ Finish(ParseNormalFloatE5M2(text, negate))

Next == ParseFloat16 \/ ParseE4M3 \/ ParseE5M2

Spec == Init /\ [][Next]_vars

-----------------------------------------------------------------------------
(* The number the literal denotes, after the caller's negation, when the  *)
(* stream read one.                                                        *)
Requested == [text.val EXCEPT !.neg = IF negate THEN ~@ ELSE @]
Accepted == ~RejectParseDueToLeadingSign(text, negate) /\ text.res # "invalid"

(* |v| <= max() of fmt *)
WithinMax(fmt, v) ==
  (v.e = 0 /\ v.f = 0)
  \/ CompareMag(Mantissa(Float32, v), Exp2(Float32, v),
                Mantissa(fmt, MaxOf(fmt)), Exp2(fmt, MaxOf(fmt))) <= 0

(* "If the value ... overflows the target floating point type, then set   *)
(* the fail bit": a literal at or beyond 2^(maxExp+1), the first power of *)
(* two the target cannot reach, fails the parse.                          *)
ParseFailsOnOverflow ==
  (pc = "done" /\ Accepted
     /\ (text.res = "overflow"
         \/ (IsFiniteNonZero(Float32, Requested)
             /\ CompareMag(Mantissa(Float32, Requested), Exp2(Float32, Requested),
                           1, MaxExp(target) + 1) >= 0)))
  => fail

(* "In the failure case, map -0.0 to 0.0": a literal that is rejected     *)
(* (a second sign after the caller's '-') or holds no number leaves +0    *)
(* and the fail bit, in every target format, also after negation and the *)
(* narrowing that follows.                                                *)
ParseFailureGivesPositiveZero ==
  (pc = "done" /\ ~Accepted) => fail /\ value = PosZero

(* An accepted literal that fails the parse saturates "to the closest     *)
(* normal value": max() if it is positive, the most negative finite value *)
(* if it is negative.                                                      *)
ParseSaturatesWithSign ==
  (pc = "done" /\ Accepted /\ fail)
  => value = [MaxOf(target) EXCEPT !.neg = Requested.neg]

(* A literal within the target's range parses without failing, to the     *)
(* value rounded toward zero.                                              *)
ParseInRangeTruncates ==
  (pc = "done" /\ Accepted /\ text.res = "ok" /\ WithinMax(target, Requested))
  => /\ ~fail
     /\ IsFiniteNonZero(Float32, Requested)
          => value = RefCast(Float32, target, Requested, "kToZero")
=============================================================================
