--------------------------- MODULE MCOperandParse ---------------------------
(***************************************************************************)
(* The kinds of text operand read with the code of this tree: a decimal  *)
(* float literal read into a 16- or 8-bit HexFloat (FloatParse), a text  *)
(* read by the HexFloat operator>> (HexFloatRead), or a mask operand      *)
(* (AssemblyGrammar).  A behaviour parses one operand; the other parsers  *)
(* stay idle, and so do the target-environment calls.                    *)
(*                                                                         *)
(* The mask table is FunctionControl's: None 0, Inline 1, DontInline 2,   *)
(* Pure 4.  Texts are every sequence of up to four tokens over three      *)
(* names, an unknown word and the separator.  *pValue starts at 8, which  *)
(* no or of the table's values gives.                                     *)
(*                                                                         *)
(* operator>> texts: [-]0x, a mantissa of up to three characters over     *)
(* 0, 1, 8, f and '.', then 'p' and an exponent, or no 'p' at all; the   *)
(* exponents reach the E4M3 (8, 9) and E5M2/Float16 (16, 17) overflow    *)
(* edges and their denormal ranges.  A few texts are not hex floats and  *)
(* are handed to ParseNormalFloat.                                        *)
(*                                                                         *)
(* Target environments (TargetEnv): every key of spvTargetEnvNameMap and *)
(* names that extend a key, extend none or are null; header texts of up  *)
(* to three lines over version lines of minor 0, 3, 6, 7 and 10, a short *)
(* and a long comment, a blank line and a line of code; Vulkan requests  *)
(* on both sides of every table entry; three --help layouts.             *)
(*                                                                         *)
(* Numeric literals (NumericLiteral): the disassembler writes a literal   *)
(* operand and, for the 16- and 8-bit float encodings, the assembler's    *)
(* HexFloat operator>> reads the text back into the same format.  The     *)
(* operands are every E4M3 and E5M2 byte, Float16 values of every class, *)
(* float32 values of every class, integers on both sides of the sign bit *)
(* in one and two words, and operands for which nothing is written.       *)
(***************************************************************************)
EXTENDS MCFloatParse, AssemblyGrammar, HexFloatRead, TargetEnv, NumericLiteral

MCMaskOperands ==
  [n \in {"None", "Inline", "DontInline", "Pure"} |->
     CASE n = "None" -> 0 [] n = "Inline" -> 1 [] n = "DontInline" -> 2 [] n = "Pure" -> 4]
MCWords == {"None", "Inline", "DontInline", "Unknown"}
MCMaskTexts == BoundedSeq(MCWords \cup {Sep}, 4)
MCPriorValue == 8

HexMantissas ==
  BoundedSeq({"0", "1", "8", "f", "."}, 3) \cup {<< "g" >>, << "1", "P" >>, << "A" >>}
HexExponents ==
  {s \o d : s \in {<< >>, << "+" >>, << "-" >>},
            d \in {<< >>, << "0" >>, << "1" >>, << "8" >>, << "9" >>, << "1", "4" >>,
                   << "1", "6" >>, << "1", "7" >>, << "2", "6" >>, << "1", "2", "0" >>}}
  \cup {<< "+", "-", "1" >>, << "1", "+" >>, << "g" >>}
HexBodies ==
  {m \o << "p" >> \o e : m \in HexMantissas, e \in HexExponents} \cup HexMantissas
MCHexTexts ==
  {s \o << "0", "x" >> \o b : s \in {<< >>, << "-" >>}, b \in HexBodies}
  \cup {<< " ", "-", "0", "X", "1", "p", "1" >>, << "1", "p", "1" >>, << "-", "1" >>,
        << "0", "1" >>, << "-", "0", "p" >>, << " ", "1" >>, << "+", "0", "x", "1", "p", "0" >>,
        << >>, << " " >>}
MCHexFormats == {Float16, Float8E5M2, Float8E4M3}

Str(s) == [null |-> FALSE, s |-> s]
MCTargetNames ==
  { Str(ne[1]) : ne \in Range(spvTargetEnvNameMap) }
  \cup { Str("vulkan1.2spv1.5"), Str("vulkan1.1spv1.3"), Str("opencl2.2embeddedx"),
         Str("spv1.7"), Str("vulkan"), Str(""), NoName }
HeaderLines ==
  { kVersionPrefix \o << d >> : d \in {"0", "3", "6", "7"} }
  \cup { kVersionPrefix \o << "1", "0" >>, << " " >> \o kVersionPrefix \o << "3" >>,
         << ";", " ", "x" >>, SubSeq(kVersionPrefix, 1, 6), << >>, << "O", "p" >>, << ";" >> }
JoinLines(a, b) == a \o << "\n" >> \o b
MCHeaderTexts ==
  HeaderLines \cup { JoinLines(a, b) : a, b \in HeaderLines }
  \cup { JoinLines(JoinLines(a, b), c) : a, b, c \in HeaderLines }
MCVulkanRequests ==
  [vulkan_ver : {VULKAN_VER(1, 0), VULKAN_VER(1, 1), VULKAN_VER(1, 3), VULKAN_VER(1, 5)},
   spirv_ver : {SPIRV_VER(1, 0), SPIRV_VER(1, 3), SPIRV_VER(1, 4), SPIRV_VER(1, 6),
                SPIRV_VER(1, 7)}]
MCListLayouts ==
  { [pad |-> 16, wrap |-> 80], [pad |-> 4, wrap |-> 40], [pad |-> 0, wrap |-> 30] }

Word(hi, lo) == [hi |-> hi, lo |-> lo]
Operand(type, n, kind, enc, width, words) ==
  [type |-> type, num_words |-> n, number_kind |-> kind, fp_encoding |-> enc,
   number_bit_width |-> width, words |-> words]
HalfWords ==
  { Word(0, s * 2^15 + e * 2^10 + f) :
      s \in 0..1, e \in {0, 1, 14, 15, 30, 31}, f \in {0, 1, 2, \h100, \h200, \h3ff, \h155} }
IntWords == { Word(hi, lo) : hi \in {0, \h7fff, \h8000, \hffff}, lo \in {0, 1, \hffff} }
LongWords == { Word(0, 0), Word(0, 1), Word(\h8000, 0), Word(\h7fff, \hffff), Word(\hffff, \hffff) }
MCLiteralOperands ==
  { Operand("LITERAL_FLOAT", 1, "FLOATING", enc, 8, << Word(0, b) >>) :
      enc \in {"E4M3", "E5M2"}, b \in 0..255 }
  \cup { Operand("LITERAL_FLOAT", 1, "FLOATING", "E4M3", 8, << Word(\h1234, \h3f00 + b) >>) :
          b \in {1, \h7f, \h80} }
  \cup { Operand("TYPED_LITERAL_NUMBER", 1, "FLOATING", enc, 16, << w >>) :
          enc \in {"BINARY16", "UNKNOWN"}, w \in HalfWords }
  \cup { Operand("LITERAL_FLOAT", 1, "FLOATING", enc, 32, << w >>) :
          enc \in {"BINARY32", "UNKNOWN"},
          w \in { Word(0, 0), Word(0, 1), Word(\h7f, \hffff), Word(\h8040, 0), Word(\h7f80, 0),
                  Word(\hff80, 0), Word(\h7fc0, 1), Word(\h3f80, 0), Word(\h8000, 0) } }
  \cup { Operand("LITERAL_INTEGER", 1, kind, "UNKNOWN", 32, << w >>) :
          kind \in {"SIGNED_INT", "UNSIGNED_INT"}, w \in IntWords }
  \cup { Operand("TYPED_LITERAL_NUMBER", 2, kind, "UNKNOWN", 64, << lo, hi >>) :
          kind \in {"SIGNED_INT", "UNSIGNED_INT"}, lo, hi \in LongWords }
  \cup { Operand("TYPED_LITERAL_NUMBER", 2, "FLOATING", "UNKNOWN", 64, << Word(0, 0), Word(\h3ff0, 0) >>),
          Operand("ID", 1, "NONE", "UNKNOWN", 0, << Word(0, 5) >>),
          Operand("LITERAL_INTEGER", 0, "UNSIGNED_INT", "UNKNOWN", 32, << >>),
          Operand("TYPED_LITERAL_NUMBER", 3, "UNSIGNED_INT", "UNKNOWN", 96,
                  << Word(0, 1), Word(0, 2), Word(0, 3) >>),
          Operand("LITERAL_INTEGER", 1, "NONE", "UNKNOWN", 32, << Word(0, 7) >>),
          Operand("LITERAL_FLOAT", 1, "FLOATING", "UNKNOWN", 64, << Word(\h3c00, 0) >>),
          Operand("LITERAL_FLOAT", 1, "FLOATING", "BFLOAT16", 16, << Word(0, \h3f80) >>) }

(* The float encodings written as a 16- or 8-bit hex float, and the       *)
(* HexFloat the assembler reads such a literal into.                      *)
HexWritten(op) ==
  /\ op.num_words = 1 /\ op.number_kind = "FLOATING"
  /\ \/ op.fp_encoding \in {"BINARY16", "E4M3", "E5M2"}
     \/ op.fp_encoding = "UNKNOWN" /\ op.number_bit_width = 16
ReadFormat(op) ==
  CASE op.fp_encoding = "E4M3" -> Float8E4M3
    [] op.fp_encoding = "E5M2" -> Float8E5M2
    [] OTHER -> Float16
OperandBits(op) == FieldsOf(ReadFormat(op), op.words[1].lo % 2^ReadFormat(op).W)

LitIdle ==
  /\ eop = Operand("ID", 1, "NONE", "UNKNOWN", 0, << Word(0, 5) >>)
  /\ eout = [kind |-> "idle", text |-> << >>, value |-> NoValue]

(* The assembler reads the written literal with operator>>, from the    *)
(* state HexInit gives a text.                                           *)
ReadBack ==
  /\ eout.kind = "text" /\ HexWritten(eop) /\ hphase = "idle"
  /\ hfmt' = ReadFormat(eop) /\ htext' = eout.text
  /\ hpos' = 1 /\ hneg' = FALSE /\ hphase' = "start"
  /\ hfraction' = 0 /\ hindex' = 0 /\ hexponent' = ReadFormat(eop).bias
  /\ hint' = FALSE /\ hwritten' = FALSE
  /\ hseensign' = FALSE /\ hsign' = 1 /\ hdigits' = FALSE /\ hwexp' = 0
  /\ hvalue' = HexZero /\ hfail' = FALSE
  /\ UNCHANGED <<vars, maskVars, envVars, litVars>>

LiteralIdle ==
  /\ target = Float16 /\ text = CHOOSE t \in F16Texts : TRUE
  /\ negate = FALSE /\ value = PosZero /\ fail = FALSE /\ pc = "idle"
MaskIdle ==
  /\ mtext = << >> /\ mnull = FALSE /\ mbegin = 1 /\ mvalue = 0
  /\ pValue = PriorValue /\ mstatus = "idle"

ReaderIdle ==
  /\ hfmt = Float16 /\ htext = << >> /\ hpos = 1 /\ hneg = FALSE /\ hphase = "idle"
  /\ hfraction = 0 /\ hindex = 0 /\ hexponent = 15 /\ hint = FALSE /\ hwritten = FALSE
  /\ hseensign = FALSE /\ hsign = 1 /\ hdigits = FALSE /\ hwexp = 0
  /\ hvalue = HexZero /\ hfail = FALSE

EnvIdle == CallState("none", NoName, << >>, NoRequest, NoLayout)

allVars == <<vars, maskVars, hexVars, envVars, litVars>>

OperandInit ==
  \/ Init /\ MaskIdle /\ ReaderIdle /\ EnvIdle /\ LitIdle
  \/ LiteralIdle /\ MaskInit /\ ReaderIdle /\ EnvIdle /\ LitIdle
  \/ LiteralIdle /\ MaskIdle /\ HexInit /\ EnvIdle /\ LitIdle
  \/ LiteralIdle /\ MaskIdle /\ ReaderIdle /\ TEInit /\ LitIdle
  \/ LiteralIdle /\ MaskIdle /\ ReaderIdle /\ EnvIdle /\ LInit

OperandNext ==
  \/ Next /\ UNCHANGED <<maskVars, hexVars, envVars, litVars>>
  \/ MaskNext /\ UNCHANGED <<vars, hexVars, envVars, litVars>>
  \/ HexNext /\ UNCHANGED <<vars, maskVars, envVars, litVars>>
  \/ TENext /\ UNCHANGED <<vars, maskVars, hexVars, litVars>>
  \/ Emit /\ UNCHANGED <<vars, maskVars, hexVars, envVars>>
  \/ ReadBack

(* A parse runs to completion on the caller's thread: the mask loop is   *)
(* weakly fair.                                                            *)
OperandSpec ==
  OperandInit /\ [][OperandNext]_allVars /\ WF_allVars(MaskNext /\ UNCHANGED <<vars, hexVars, envVars, litVars>>)

LiteralRoundTrip ==
  (hphase = "done" /\ eout.kind = "text" /\ HexWritten(eop)) =>
    /\ ~hfail
    /\ hvalue = OperandBits(eop)
=============================================================================
