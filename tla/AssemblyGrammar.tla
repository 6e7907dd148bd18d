--------------------------- MODULE AssemblyGrammar ---------------------------
(***************************************************************************)
(* spvTextParseMaskOperand (assembly_grammar.cpp), behind                  *)
(* AssemblyGrammar::parseMaskOperand: a mask operand's text is a list of  *)
(* operand names separated by '|'; each word is looked up in the operand  *)
(* table of the mask's type and the values are or-ed together.  The      *)
(* do-while loop is one step per word.                                    *)
(*                                                                         *)
(* A text is a sequence of tokens: Sep for '|', or a run of non-separator *)
(* characters named by a member of Words.  Two adjacent word tokens form   *)
(* one longer word, which is in no table.                                  *)
(***************************************************************************)
EXTENDS Integers, Sequences, SequencesExt, Bitwise

CONSTANTS
  MaskOperands,   \* [names -> value]: the operand table of the mask's type
  Words,          \* the words texts are made of (names and unknown words)
  MaskTexts,      \* the texts parsed
  PriorValue      \* what *pValue holds before the call

Sep == "|"

VARIABLES
  mtext,      \* the token sequence textValue points to
  mnull,      \* textValue == nullptr
  mbegin,     \* begin: index of the first token of the current word
  mvalue,     \* value: the mask or-ed so far
  pValue,     \* *pValue
  mstatus     \* "idle", "start", "loop", or the result returned

maskVars == <<mtext, mnull, mbegin, mvalue, pValue, mstatus>>

Returned == {"SPV_SUCCESS", "SPV_ERROR_INVALID_TEXT", "SPV_ERROR_INVALID_LOOKUP"}

(* std::find(begin, text_end, separator): the index of the first Sep at   *)
(* or after b, or one past the end.                                        *)
FindSep(t, b) ==
  LET k == SelectInSubSeq(t, b, Len(t), LAMBDA x : x = Sep)
  IN  IF b > Len(t) \/ k = 0 THEN Len(t) + 1 ELSE k

(* LookupOperand(type, begin, end - begin): a word is one name token of   *)
(* the table.                                                             *)
LookupOperand(word) == Len(word) = 1 /\ word[1] \in DOMAIN MaskOperands

MaskInit ==
  /\ mtext \in MaskTexts
  /\ mnull \in BOOLEAN
  /\ mbegin = 1
  /\ mvalue = 0
  /\ pValue = PriorValue
  /\ mstatus = "start"

(* The null and empty-text checks before the loop.                        *)
MaskStart ==
  /\ mstatus = "start"
  /\ mstatus' = IF mnull \/ Len(mtext) = 0 THEN "SPV_ERROR_INVALID_TEXT" ELSE "loop"
  /\ UNCHANGED <<mtext, mnull, mbegin, mvalue, pValue>>

(* Fault: *pValue written on every iteration instead of once at the end. *)
MaskWordWritesThrough ==
  LET end  == FindSep(mtext, mbegin)
      word == SubSeq(mtext, mbegin, end - 1)
  IN  /\ mstatus = "loop"
      /\ IF ~LookupOperand(word)
           THEN /\ mstatus' = "SPV_ERROR_INVALID_LOOKUP"
                /\ UNCHANGED <<mbegin, mvalue, pValue>>
           ELSE /\ mvalue' = mvalue | MaskOperands[word[1]]
                /\ pValue' = mvalue'
                /\ mbegin' = end + 1
                /\ mstatus' = IF end = Len(mtext) + 1 THEN "SPV_SUCCESS" ELSE "loop"
      /\ UNCHANGED <<mtext, mnull>>

(* Fault: begin is not moved past the word.                               *)
MaskWordNoAdvance ==
  LET end  == FindSep(mtext, mbegin)
      word == SubSeq(mtext, mbegin, end - 1)
  IN  /\ mstatus = "loop"
      /\ IF ~LookupOperand(word)
           THEN /\ mstatus' = "SPV_ERROR_INVALID_LOOKUP"
                /\ UNCHANGED <<mbegin, mvalue, pValue>>
           ELSE /\ mvalue' = mvalue | MaskOperands[word[1]]
                /\ UNCHANGED mbegin
                /\ IF end = Len(mtext) + 1
                     THEN pValue' = mvalue' /\ mstatus' = "SPV_SUCCESS"
                     ELSE UNCHANGED <<pValue, mstatus>>
      /\ UNCHANGED <<mtext, mnull>>

(* One iteration of the do-while loop: look the word up (returning the   *)
(* lookup's error), or in the value, step past the separator, and after  *)
(* the last word store the value in *pValue.                             *)
MaskWord ==
  LET end  == FindSep(mtext, mbegin)
      word == SubSeq(mtext, mbegin, end - 1)
  IN  /\ mstatus = "loop"
      /\ IF ~LookupOperand(word)
           THEN /\ mstatus' = "SPV_ERROR_INVALID_LOOKUP"
                /\ UNCHANGED <<mbegin, mvalue, pValue>>
           ELSE /\ mvalue' = mvalue | MaskOperands[word[1]]
                /\ mbegin' = end + 1
                /\ IF end = Len(mtext) + 1
                     THEN pValue' = mvalue' /\ mstatus' = "SPV_SUCCESS"
                     ELSE UNCHANGED pValue /\ mstatus' = "loop"
      /\ UNCHANGED <<mtext, mnull>>

MaskNext == MaskStart \/ MaskWord

MaskSpec == MaskInit /\ [][MaskNext]_maskVars /\ WF_maskVars(MaskNext)

-----------------------------------------------------------------------------
(* The reference: the words of a text are the runs between consecutive    *)
(* separators (empty runs included), and a text is a mask when it is not  *)
(* empty and every word is a name of the table.                           *)
Bounds(t) == << 0 >> \o SetToSortSeq({i \in DOMAIN t : t[i] = Sep}, <) \o << Len(t) + 1 >>
WordsOf(t) ==
  LET b == Bounds(t)
  IN  [k \in 1..(Len(b) - 1) |-> SubSeq(t, b[k] + 1, b[k + 1] - 1)]
IsMask(t) ==
  Len(t) > 0 /\ \A k \in DOMAIN WordsOf(t) : LookupOperand(WordsOf(t)[k])
MaskOf(t) ==
  FoldLeft(LAMBDA acc, w : acc | MaskOperands[w[1]], 0, WordsOf(t))

MaskFinished == mstatus \in Returned

(* A parse of a mask operand succeeds exactly on a non-null text of names *)
(* joined by single separators, and then *pValue is the or of their       *)
(* values; on every error *pValue keeps what the caller had, whichever    *)
(* word the error was found at ("no partial mutation" on a failed parse). *)
MaskParseMatchesReference ==
  MaskFinished =>
    /\ (mstatus = "SPV_SUCCESS") <=> (~mnull /\ IsMask(mtext))
    /\ mstatus = "SPV_SUCCESS" => pValue = MaskOf(mtext)
    /\ mstatus # "SPV_SUCCESS" => pValue = PriorValue

(* The loop ends: every parse that starts returns a result.              *)
MaskTerminates == (mstatus = "start") ~> MaskFinished
=============================================================================
