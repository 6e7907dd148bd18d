----------------------------- MODULE TargetEnv -----------------------------
(***************************************************************************)
(* The target-environment functions of spirv_target_env.cpp: the tables   *)
(* that classify an spv_target_env, spvParseTargetEnv (a name from the    *)
(* command line, first prefix match in spvTargetEnvNameMap order),        *)
(* spvReadEnvironmentFromText (the "; Version: 1.X" header scan of        *)
(* assembly text), spvParseVulkanEnv (least capable Vulkan environment    *)
(* for a version pair) and spvTargetEnvList (the wrapped name list of     *)
(* --help).  One behaviour makes one call: Init picks the call and its    *)
(* input, the header scan takes one step per iteration of its loop and    *)
(* the other calls take one step.  The build is a release build: the      *)
(* assert(false) of the WEBGPU_0 and MAX cases is not evaluated and the   *)
(* switch falls through to its default return.                             *)
(***************************************************************************)
EXTENDS Integers, Sequences, SequencesExt

CONSTANTS
  TargetNames,     \* inputs of spvParseTargetEnv: [null: BOOLEAN, s: STRING]
  HeaderTexts,     \* inputs of spvReadEnvironmentFromText: sequences of chars
  VulkanRequests,  \* inputs of spvParseVulkanEnv: [vulkan_ver, spirv_ver]
  ListLayouts      \* inputs of spvTargetEnvList: [pad, wrap]

VARIABLES
  tcall,   \* the call this behaviour makes
  tname,   \* spvParseTargetEnv's s
  ttext,   \* spvReadEnvironmentFromText's text
  ti,      \* its loop index i, 1-based
  treq,    \* spvParseVulkanEnv's request
  tlayout, \* spvTargetEnvList's pad and wrap
  tdone,   \* the call has returned
  tok,     \* its bool result
  tenv,    \* *env after the call ("unset" when it was not written)
  tlines   \* spvTargetEnvList's result, one [len, names] record per line

envVars == <<tcall, tname, ttext, ti, treq, tlayout, tdone, tok, tenv, tlines>>

(* The enumerators of spv_target_env. *)
AllEnvs ==
  { "UNIVERSAL_1_0", "VULKAN_1_0", "UNIVERSAL_1_1", "OPENCL_2_1",
    "OPENCL_2_2", "OPENGL_4_0", "OPENGL_4_1", "OPENGL_4_2", "OPENGL_4_3",
    "OPENGL_4_5", "UNIVERSAL_1_2", "OPENCL_1_2", "OPENCL_EMBEDDED_1_2",
    "OPENCL_2_0", "OPENCL_EMBEDDED_2_0", "OPENCL_EMBEDDED_2_1",
    "OPENCL_EMBEDDED_2_2", "UNIVERSAL_1_3", "VULKAN_1_1", "WEBGPU_0",
    "UNIVERSAL_1_4", "VULKAN_1_1_SPIRV_1_4", "UNIVERSAL_1_5", "VULKAN_1_2",
    "UNIVERSAL_1_6", "VULKAN_1_3", "VULKAN_1_4", "MAX" }

(* SPV_SPIRV_VERSION_WORD(1, minor) and the VULKAN_VER / SPIRV_VER macros. *)
SpirvWord(minor) == 65536 + minor * 256
VULKAN_VER(major, minor) == major * 4194304 + minor * 4096
SPIRV_VER(major, minor) == major * 65536 + minor * 256

(* spvTargetEnvDescription: the case labels and the strings they return. *)
spvTargetEnvDescription(env) ==
  CASE env = "UNIVERSAL_1_0" -> "SPIR-V 1.0"
    [] env = "VULKAN_1_0" -> "SPIR-V 1.0 (under Vulkan 1.0 semantics)"
    [] env = "UNIVERSAL_1_1" -> "SPIR-V 1.1"
    [] env = "OPENCL_1_2" -> "SPIR-V 1.0 (under OpenCL 1.2 Full Profile semantics)"
    [] env = "OPENCL_EMBEDDED_1_2" -> "SPIR-V 1.0 (under OpenCL 1.2 Embedded Profile semantics)"
    [] env = "OPENCL_2_0" -> "SPIR-V 1.0 (under OpenCL 2.0 Full Profile semantics)"
    [] env = "OPENCL_EMBEDDED_2_0" -> "SPIR-V 1.0 (under OpenCL 2.0 Embedded Profile semantics)"
    [] env = "OPENCL_2_1" -> "SPIR-V 1.0 (under OpenCL 2.1 Full Profile semantics)"
    [] env = "OPENCL_EMBEDDED_2_1" -> "SPIR-V 1.0 (under OpenCL 2.1 Embedded Profile semantics)"
    [] env = "OPENCL_2_2" -> "SPIR-V 1.2 (under OpenCL 2.2 Full Profile semantics)"
    [] env = "OPENCL_EMBEDDED_2_2" -> "SPIR-V 1.2 (under OpenCL 2.2 Embedded Profile semantics)"
    [] env = "OPENGL_4_0" -> "SPIR-V 1.0 (under OpenGL 4.0 semantics)"
    [] env = "OPENGL_4_1" -> "SPIR-V 1.0 (under OpenGL 4.1 semantics)"
    [] env = "OPENGL_4_2" -> "SPIR-V 1.0 (under OpenGL 4.2 semantics)"
    [] env = "OPENGL_4_3" -> "SPIR-V 1.0 (under OpenGL 4.3 semantics)"
    [] env = "OPENGL_4_5" -> "SPIR-V 1.0 (under OpenGL 4.5 semantics)"
    [] env = "UNIVERSAL_1_2" -> "SPIR-V 1.2"
    [] env = "UNIVERSAL_1_3" -> "SPIR-V 1.3"
    [] env = "VULKAN_1_1" -> "SPIR-V 1.3 (under Vulkan 1.1 semantics)"
    [] env = "UNIVERSAL_1_4" -> "SPIR-V 1.4"
    [] env = "VULKAN_1_1_SPIRV_1_4" -> "SPIR-V 1.4 (under Vulkan 1.1 semantics)"
    [] env = "UNIVERSAL_1_5" -> "SPIR-V 1.5"
    [] env = "VULKAN_1_2" -> "SPIR-V 1.5 (under Vulkan 1.2 semantics)"
    [] env = "UNIVERSAL_1_6" -> "SPIR-V 1.6"
    [] env = "VULKAN_1_3" -> "SPIR-V 1.6 (under Vulkan 1.3 semantics)"
    [] env = "VULKAN_1_4" -> "SPIR-V 1.6 (under Vulkan 1.4 semantics)"
    [] OTHER -> ""

(* A misplaced case label: OPENCL_EMBEDDED_2_2 grouped with SPIR-V 1.0. *)
VersionForTargetEnvMisgrouped(env) ==
  CASE env \in {"UNIVERSAL_1_0", "VULKAN_1_0", "OPENCL_1_2",
                "OPENCL_EMBEDDED_1_2", "OPENCL_2_0", "OPENCL_EMBEDDED_2_0",
                "OPENCL_2_1", "OPENCL_EMBEDDED_2_1", "OPENCL_EMBEDDED_2_2",
                "OPENGL_4_0", "OPENGL_4_1", "OPENGL_4_2", "OPENGL_4_3",
                "OPENGL_4_5"} -> SpirvWord(0)
    [] env = "UNIVERSAL_1_1" -> SpirvWord(1)
    [] env \in {"UNIVERSAL_1_2", "OPENCL_2_2"} -> SpirvWord(2)
    [] env \in {"UNIVERSAL_1_3", "VULKAN_1_1"} -> SpirvWord(3)
    [] env \in {"UNIVERSAL_1_4", "VULKAN_1_1_SPIRV_1_4"} -> SpirvWord(4)
    [] env \in {"UNIVERSAL_1_5", "VULKAN_1_2"} -> SpirvWord(5)
    [] env \in {"UNIVERSAL_1_6", "VULKAN_1_3", "VULKAN_1_4"} -> SpirvWord(6)
    [] OTHER -> 0

(* spvVersionForTargetEnv; WEBGPU_0 and MAX return SPV_SPIRV_VERSION_WORD(0, 0). *)
spvVersionForTargetEnv(env) ==
  CASE env \in {"UNIVERSAL_1_0", "VULKAN_1_0", "OPENCL_1_2",
                "OPENCL_EMBEDDED_1_2", "OPENCL_2_0", "OPENCL_EMBEDDED_2_0",
                "OPENCL_2_1", "OPENCL_EMBEDDED_2_1", "OPENGL_4_0",
                "OPENGL_4_1", "OPENGL_4_2", "OPENGL_4_3",
                "OPENGL_4_5"} -> SpirvWord(0)
    [] env = "UNIVERSAL_1_1" -> SpirvWord(1)
    [] env \in {"UNIVERSAL_1_2", "OPENCL_2_2", "OPENCL_EMBEDDED_2_2"} -> SpirvWord(2)
    [] env \in {"UNIVERSAL_1_3", "VULKAN_1_1"} -> SpirvWord(3)
    [] env \in {"UNIVERSAL_1_4", "VULKAN_1_1_SPIRV_1_4"} -> SpirvWord(4)
    [] env \in {"UNIVERSAL_1_5", "VULKAN_1_2"} -> SpirvWord(5)
    [] env \in {"UNIVERSAL_1_6", "VULKAN_1_3", "VULKAN_1_4"} -> SpirvWord(6)
    [] OTHER -> 0

(* ordered_universal_envs: index i holds UNIVERSAL_1_(i-1). *)
ordered_universal_envs ==
  << "UNIVERSAL_1_0", "UNIVERSAL_1_1", "UNIVERSAL_1_2", "UNIVERSAL_1_3",
     "UNIVERSAL_1_4", "UNIVERSAL_1_5", "UNIVERSAL_1_6" >>

(* The environments the switches of spvIsVulkanEnv, spvIsOpenCLEnv,       *)
(* spvIsOpenGLEnv and spvIsValidEnv answer true for.                      *)
VulkanEnvs == { "VULKAN_1_0", "VULKAN_1_1", "VULKAN_1_1_SPIRV_1_4",
                "VULKAN_1_2", "VULKAN_1_3", "VULKAN_1_4" }
OpenCLEnvs == { "OPENCL_1_2", "OPENCL_EMBEDDED_1_2", "OPENCL_2_0",
                "OPENCL_EMBEDDED_2_0", "OPENCL_EMBEDDED_2_1",
                "OPENCL_EMBEDDED_2_2", "OPENCL_2_1", "OPENCL_2_2" }
OpenGLEnvs == { "OPENGL_4_0", "OPENGL_4_1", "OPENGL_4_2", "OPENGL_4_3",
                "OPENGL_4_5" }
spvIsVulkanEnv(env) == env \in VulkanEnvs
spvIsOpenCLEnv(env) == env \in OpenCLEnvs
spvIsOpenGLEnv(env) == env \in OpenGLEnvs
spvIsValidEnv(env) == env \notin {"WEBGPU_0", "MAX"}

(* A table with vulkan1.1 before vulkan1.1spv1.4: a string after its prefix. *)
NameMapPrefixFirst ==
  << <<"vulkan1.0", "VULKAN_1_0">>, <<"vulkan1.1", "VULKAN_1_1">>,
     <<"vulkan1.1spv1.4", "VULKAN_1_1_SPIRV_1_4">>,
     <<"vulkan1.2", "VULKAN_1_2">>, <<"vulkan1.3", "VULKAN_1_3">>,
     <<"vulkan1.4", "VULKAN_1_4">>,
     <<"spv1.0", "UNIVERSAL_1_0">>, <<"spv1.1", "UNIVERSAL_1_1">>,
     <<"spv1.2", "UNIVERSAL_1_2">>, <<"spv1.3", "UNIVERSAL_1_3">>,
     <<"spv1.4", "UNIVERSAL_1_4">>, <<"spv1.5", "UNIVERSAL_1_5">>,
     <<"spv1.6", "UNIVERSAL_1_6">>,
     <<"opencl1.2embedded", "OPENCL_EMBEDDED_1_2">>, <<"opencl1.2", "OPENCL_1_2">>,
     <<"opencl2.0embedded", "OPENCL_EMBEDDED_2_0">>, <<"opencl2.0", "OPENCL_2_0">>,
     <<"opencl2.1embedded", "OPENCL_EMBEDDED_2_1">>, <<"opencl2.1", "OPENCL_2_1">>,
     <<"opencl2.2embedded", "OPENCL_EMBEDDED_2_2">>, <<"opencl2.2", "OPENCL_2_2">>,
     <<"opengl4.0", "OPENGL_4_0">>, <<"opengl4.1", "OPENGL_4_1">>,
     <<"opengl4.2", "OPENGL_4_2">>, <<"opengl4.3", "OPENGL_4_3">>,
     <<"opengl4.5", "OPENGL_4_5">> >>

(* spvTargetEnvNameMap: <<key, env>> pairs in the order they are searched. *)
spvTargetEnvNameMap ==
  << <<"vulkan1.0", "VULKAN_1_0">>,
     <<"vulkan1.1spv1.4", "VULKAN_1_1_SPIRV_1_4">>,
     <<"vulkan1.1", "VULKAN_1_1">>,
     <<"vulkan1.2", "VULKAN_1_2">>, <<"vulkan1.3", "VULKAN_1_3">>,
     <<"vulkan1.4", "VULKAN_1_4">>,
     <<"spv1.0", "UNIVERSAL_1_0">>, <<"spv1.1", "UNIVERSAL_1_1">>,
     <<"spv1.2", "UNIVERSAL_1_2">>, <<"spv1.3", "UNIVERSAL_1_3">>,
     <<"spv1.4", "UNIVERSAL_1_4">>, <<"spv1.5", "UNIVERSAL_1_5">>,
     <<"spv1.6", "UNIVERSAL_1_6">>,
     <<"opencl1.2embedded", "OPENCL_EMBEDDED_1_2">>, <<"opencl1.2", "OPENCL_1_2">>,
     <<"opencl2.0embedded", "OPENCL_EMBEDDED_2_0">>, <<"opencl2.0", "OPENCL_2_0">>,
     <<"opencl2.1embedded", "OPENCL_EMBEDDED_2_1">>, <<"opencl2.1", "OPENCL_2_1">>,
     <<"opencl2.2embedded", "OPENCL_EMBEDDED_2_2">>, <<"opencl2.2", "OPENCL_2_2">>,
     <<"opengl4.0", "OPENGL_4_0">>, <<"opengl4.1", "OPENGL_4_1">>,
     <<"opengl4.2", "OPENGL_4_2">>, <<"opengl4.3", "OPENGL_4_3">>,
     <<"opengl4.5", "OPENGL_4_5">> >>

(* The match lambda: s is not null and strncmp(s, b, strlen(b)) == 0,    *)
(* that is, the key b is a prefix of s.                                   *)
NameMatches(s, b) == ~s.null /\ IsPrefix(b, s.s)

(* ordered_vulkan_envs, least capable first. *)
ordered_vulkan_envs ==
  << [vulkan_env |-> "VULKAN_1_0", vulkan_ver |-> VULKAN_VER(1, 0), spirv_ver |-> SPIRV_VER(1, 0)],
     [vulkan_env |-> "VULKAN_1_1", vulkan_ver |-> VULKAN_VER(1, 1), spirv_ver |-> SPIRV_VER(1, 3)],
     [vulkan_env |-> "VULKAN_1_1_SPIRV_1_4", vulkan_ver |-> VULKAN_VER(1, 1), spirv_ver |-> SPIRV_VER(1, 4)],
     [vulkan_env |-> "VULKAN_1_2", vulkan_ver |-> VULKAN_VER(1, 2), spirv_ver |-> SPIRV_VER(1, 5)],
     [vulkan_env |-> "VULKAN_1_3", vulkan_ver |-> VULKAN_VER(1, 3), spirv_ver |-> SPIRV_VER(1, 6)],
     [vulkan_env |-> "VULKAN_1_4", vulkan_ver |-> VULKAN_VER(1, 4), spirv_ver |-> SPIRV_VER(1, 6)] >>

(* The triple test of spvParseVulkanEnv, with > for >= on the Vulkan version. *)
TripleCoversStrict(t, r) == t.vulkan_ver > r.vulkan_ver /\ t.spirv_ver >= r.spirv_ver

(* The triple test of spvParseVulkanEnv. *)
TripleCovers(t, r) == t.vulkan_ver >= r.vulkan_ver /\ t.spirv_ver >= r.spirv_ver

(* kVersionPrefix, "; Version: 1.", as a sequence of characters. *)
kVersionPrefix ==
  << ";", " ", "V", "e", "r", "s", "i", "o", "n", ":", " ", "1", "." >>
kPrefixLength == 13

DigitChars == {"0", "1", "2", "3", "4", "5", "6", "7", "8", "9"}
SpaceChars == {" ", "\t", "\n"}
(* std::isdigit; the NUL that stands for a missing next character is not one. *)
isdigit(c) == c \in DigitChars

(* The minor-digit test of spvReadEnvironmentFromText, without the check  *)
(* that the digit is not followed by another one.                          *)
VersionDigitsNoNextCheck(minor, next) == isdigit(minor)

(* The minor-digit test: one digit, not followed by another digit. *)
VersionDigitsOk(minor, next) == isdigit(minor) /\ ~isdigit(next)

(* The budget of spvTargetEnvList's first line as if it were padded too. *)
FirstBudgetPadded(layout) == layout.wrap

(* max_line_len's initial value: the first line is not padded. *)
FirstLineBudget(layout) == layout.wrap - layout.pad

-----------------------------------------------------------------------------
NoName == [null |-> TRUE, s |-> ""]
NoRequest == [vulkan_ver |-> 0, spirv_ver |-> 0]
NoLayout == [pad |-> 0, wrap |-> 0]

(* The state before a call with the given inputs. *)
CallState(call, n, t, r, l) ==
  /\ tcall = call /\ tname = n /\ ttext = t /\ treq = r /\ tlayout = l
  /\ ti = 1 /\ tdone = FALSE /\ tok = FALSE /\ tenv = "unset"
  /\ tlines = << >>

TEInit ==
  \/ \E n \in TargetNames : CallState("parse", n, << >>, NoRequest, NoLayout)
  \/ \E t \in HeaderTexts : CallState("header", NoName, t, NoRequest, NoLayout)
  \/ \E r \in VulkanRequests : CallState("vulkan", NoName, << >>, r, NoLayout)
  \/ \E l \in ListLayouts : CallState("list", NoName, << >>, NoRequest, l)

Return(ok, env) ==
  /\ tdone' = TRUE /\ tok' = ok /\ tenv' = env
  /\ UNCHANGED <<tcall, tname, ttext, ti, treq, tlayout, tlines>>

(* spvParseTargetEnv: the first entry whose key matches s; on no match   *)
(* *env is set to UNIVERSAL_1_0 and the call returns false.              *)
ParseTargetEnv ==
  /\ tcall = "parse" /\ ~tdone
  /\ LET k == SelectInSeq(spvTargetEnvNameMap,
                          LAMBDA ne : NameMatches(tname, ne[1]))
     IN  IF k # 0 THEN Return(TRUE, spvTargetEnvNameMap[k][2])
                  ELSE Return(FALSE, "UNIVERSAL_1_0")

(* spvParseVulkanEnv: the first triple covering both versions; *env is   *)
(* left alone when none does.                                            *)
ParseVulkanEnv ==
  /\ tcall = "vulkan" /\ ~tdone
  /\ LET k == SelectInSeq(ordered_vulkan_envs, LAMBDA t : TripleCovers(t, treq))
     IN  IF k # 0 THEN Return(TRUE, ordered_vulkan_envs[k].vulkan_env)
                  ELSE Return(FALSE, "unset")

(* One iteration of spvReadEnvironmentFromText's loop, at text[ti]. *)
HeaderChar == ttext[ti]
MinorPos == ti + kPrefixLength
(* j after the prefix loop: the first mismatching position, or 13. *)
PrefixStop ==
  LET miss == { j \in 1..(kPrefixLength - 1) :
                  kVersionPrefix[j + 1] # ttext[ti + j] }
  IN  IF miss = {} THEN kPrefixLength ELSE Min(miss)
NextChar == IF MinorPos + 1 <= Len(ttext) THEN ttext[MinorPos + 1] ELSE "NUL"
MinorIndex == SelectInSeq(<<"0", "1", "2", "3", "4", "5", "6", "7", "8", "9">>,
                          LAMBDA d : d = ttext[MinorPos]) - 1
IsVersionHere ==
  /\ PrefixStop = kPrefixLength
  /\ VersionDigitsOk(ttext[MinorPos], NextChar)
  /\ MinorIndex < Len(ordered_universal_envs)

HeaderStep(i) ==
  /\ ti' = i
  /\ UNCHANGED <<tcall, tname, ttext, treq, tlayout, tdone, tok, tenv, tlines>>

(* The loop ends: the text is used up. *)
HeaderEnd ==
  /\ tcall = "header" /\ ~tdone /\ ti > Len(ttext)
  /\ Return(FALSE, "unset")

(* A blank is skipped. *)
HeaderBlank ==
  /\ tcall = "header" /\ ~tdone /\ ti <= Len(ttext)
  /\ HeaderChar \in SpaceChars
  /\ HeaderStep(ti + 1)

(* Anything but a blank or ';' ends the search. *)
HeaderOther ==
  /\ tcall = "header" /\ ~tdone /\ ti <= Len(ttext)
  /\ HeaderChar \notin SpaceChars \cup {";"}
  /\ Return(FALSE, "unset")

(* A ';' with fewer than 14 characters left: return false. *)
HeaderTooShort ==
  /\ tcall = "header" /\ ~tdone /\ ti <= Len(ttext)
  /\ HeaderChar = ";" /\ MinorPos > Len(ttext)
  /\ Return(FALSE, "unset")

(* A ';' that starts the version string: *env is set. *)
HeaderVersion ==
  /\ tcall = "header" /\ ~tdone /\ ti <= Len(ttext)
  /\ HeaderChar = ";" /\ MinorPos <= Len(ttext)
  /\ IsVersionHere
  /\ Return(TRUE, ordered_universal_envs[MinorIndex + 1])

(* Any other ';': i += j, then skip to the next newline, then ++i. *)
HeaderSkipLine ==
  /\ tcall = "header" /\ ~tdone /\ ti <= Len(ttext)
  /\ HeaderChar = ";" /\ MinorPos <= Len(ttext)
  /\ ~IsVersionHere
  /\ LET nl == SelectInSubSeq(ttext, ti + PrefixStop, Len(ttext),
                              LAMBDA c : c = "\n")
     IN  HeaderStep(IF nl = 0 THEN Len(ttext) + 2 ELSE nl + 1)

(* spvLogStringForEnv. *)
spvLogStringForEnv(env) ==
  CASE env \in OpenCLEnvs -> "OpenCL"
    [] env \in OpenGLEnvs -> "OpenGL"
    [] env \in VulkanEnvs -> "Vulkan"
    [] env \in Range(ordered_universal_envs) -> "Universal"
    [] OTHER -> "Unknown"
(* spvTargetEnvList: one loop iteration per name, in table order. A line *)
(* is kept as its length and the names on it.                           *)
ListWord(acc, ne) ==
  LET wlen == Len(acc.sep) + Len(ne[1])
      full == acc.line.len + wlen > acc.max
      line == IF full THEN [len |-> tlayout.pad, names |-> << >>] ELSE acc.line
  IN  [ret  |-> IF full THEN Append(acc.ret, acc.line) ELSE acc.ret,
       line |-> [len |-> line.len + wlen, names |-> Append(line.names, ne[1])],
       max  |-> IF full THEN tlayout.wrap ELSE acc.max,
       sep  |-> "|"]

TargetEnvList ==
  /\ tcall = "list" /\ ~tdone
  /\ LET acc == FoldLeft(ListWord,
                  [ret |-> << >>, line |-> [len |-> 0, names |-> << >>],
                   max |-> FirstLineBudget(tlayout), sep |-> ""],
                  spvTargetEnvNameMap)
     IN  tlines' = Append(acc.ret, acc.line)
  /\ tdone' = TRUE
  /\ UNCHANGED <<tcall, tname, ttext, ti, treq, tlayout, tok, tenv>>

TENext ==
  \/ ParseTargetEnv
  \/ ParseVulkanEnv
  \/ HeaderEnd
  \/ HeaderBlank
  \/ HeaderOther
  \/ HeaderTooShort
  \/ HeaderVersion
  \/ HeaderSkipLine
  \/ TargetEnvList

(* Every call returns; a returned call stays as it is. *)
TESpec == TEInit /\ [][TENext]_envVars /\ WF_envVars(TENext)

-----------------------------------------------------------------------------
(* Properties *)

TETypeOK ==
  /\ tcall \in {"parse", "header", "vulkan", "list"}
  /\ tname \in TargetNames \cup {NoName}
  /\ ti \in 1..(Len(ttext) + 2)
  /\ tdone \in BOOLEAN /\ tok \in BOOLEAN
  /\ tenv \in AllEnvs \cup {"unset"}

(* The environment named by the longest key that is a prefix of s. *)
LongestKeyEnv(s) ==
  LET ks == { i \in 1..Len(spvTargetEnvNameMap) :
                NameMatches(s, spvTargetEnvNameMap[i][1]) }
      best == CHOOSE i \in ks :
                \A k \in ks : Len(spvTargetEnvNameMap[k][1])
                                <= Len(spvTargetEnvNameMap[i][1])
  IN  spvTargetEnvNameMap[best][2]

(* spvParseTargetEnv resolves a name to the environment of the longest    *)
(* key that is a prefix of it (so `vulkan1.1spv1.4` is Vulkan 1.1 with    *)
(* SPIR-V 1.4, and `vulkan1.2spv1.5` is Vulkan 1.2), and fails with       *)
(* UNIVERSAL_1_0 when no key is; the first-match loop gets this only from *)
(* the order of spvTargetEnvNameMap.                                      *)
ParseTargetEnvLongestMatch ==
  tcall = "parse" /\ tdone =>
    IF \E ne \in Range(spvTargetEnvNameMap) : NameMatches(tname, ne[1])
    THEN tok /\ tenv = LongestKeyEnv(tname)
    ELSE ~tok /\ tenv = "UNIVERSAL_1_0"

(* The minor digit of a description and the family in its "(under ...)". *)
DescriptionMinor(d) == SubSeq(d, 10, 10)
MinorDigit(word) == SubSeq("0123456789", (word - 65536) \div 256 + 1,
                                         (word - 65536) \div 256 + 1)
FamilyOf(env) ==
  IF spvIsVulkanEnv(env) THEN "Vulkan"
  ELSE IF spvIsOpenCLEnv(env) THEN "OpenCL"
  ELSE IF spvIsOpenGLEnv(env) THEN "OpenGL" ELSE "Universal"

(* The tables of spirv_target_env.cpp agree on every environment a call  *)
(* returns: it is valid and in at most one family, its log string names  *)
(* that family, its description's "SPIR-V 1.X" and "(under <family>" match *)
(* spvVersionForTargetEnv and the family, and ordered_vulkan_envs and     *)
(* ordered_universal_envs give it the same SPIR-V version.                *)
EnvTablesAgree ==
  tdone /\ tok =>
    LET v == spvVersionForTargetEnv(tenv)
        d == spvTargetEnvDescription(tenv)
        f == FamilyOf(tenv)
    IN  /\ spvIsValidEnv(tenv)
        /\ ~(spvIsVulkanEnv(tenv) /\ spvIsOpenCLEnv(tenv))
        /\ ~(spvIsOpenGLEnv(tenv) /\ (spvIsVulkanEnv(tenv) \/ spvIsOpenCLEnv(tenv)))
        /\ spvLogStringForEnv(tenv) = f
        /\ v \in {SpirvWord(m) : m \in 0..6}
        /\ Len(d) >= 10 /\ DescriptionMinor(d) = MinorDigit(v)
        /\ f = "Universal" <=> Len(d) = 10
        /\ f # "Universal" => SubSeq(d, 19, 18 + Len(f)) = f
        /\ f = "Vulkan" =>
             \E t \in Range(ordered_vulkan_envs) :
               t.vulkan_env = tenv /\ t.spirv_ver = v
        /\ f = "Universal" =>
             ordered_universal_envs[(v - 65536) \div 256 + 1] = tenv

(* Reading of the header rule line by line: blank lines are skipped, a    *)
(* line whose first non-blank character is not ';' ends the header, and   *)
(* a comment line that is "; Version: 1.X" with X one digit below 7, not  *)
(* followed by another digit, names UNIVERSAL_1_X.                        *)
IsVersionLine(l) ==
  /\ Len(l) >= kPrefixLength + 1
  /\ SubSeq(l, 1, kPrefixLength) = kVersionPrefix
  /\ l[kPrefixLength + 1] \in {"0", "1", "2", "3", "4", "5", "6"}
  /\ Len(l) = kPrefixLength + 1 \/ l[kPrefixLength + 2] \notin DigitChars

RECURSIVE HeaderEnvOf(_)
HeaderEnvOf(t) ==
  IF t = << >> THEN "none"
  ELSE
    LET nl   == SelectInSeq(t, LAMBDA c : c = "\n")
        line == IF nl = 0 THEN t ELSE SubSeq(t, 1, nl - 1)
        rest == IF nl = 0 THEN << >> ELSE SubSeq(t, nl + 1, Len(t))
        fb   == SelectInSeq(line, LAMBDA c : c \notin {" ", "\t"})
        body == SubSeq(line, fb, Len(line))
    IN  CASE fb = 0 -> HeaderEnvOf(rest)
          [] line[fb] # ";" -> "none"
          [] IsVersionLine(body) ->
               ordered_universal_envs[SelectInSeq(
                 <<"0", "1", "2", "3", "4", "5", "6">>,
                 LAMBDA d : d = body[kPrefixLength + 1])]
          [] OTHER -> HeaderEnvOf(rest)

(* spvReadEnvironmentFromText finds the "; Version: 1.X" line only in the *)
(* leading run of blank and comment lines, takes the first one there, and *)
(* rejects a two-digit minor version; the character loop, its prefix      *)
(* match, its i += j and its early return near the end of the text must   *)
(* together give this line-by-line answer.                                *)
ReadEnvironmentMatchesHeader ==
  tcall = "header" /\ tdone =>
    IF HeaderEnvOf(ttext) = "none" THEN ~tok /\ tenv = "unset"
    ELSE tok /\ tenv = HeaderEnvOf(ttext)

(* spvParseVulkanEnv returns the least capable environment whose Vulkan   *)
(* and SPIR-V versions both cover the request (no other covering entry is *)
(* below it in either version), and fails, leaving *env alone, only when  *)
(* no entry covers it; ordered_vulkan_envs must be ordered for this.      *)
ParseVulkanEnvLeastCapable ==
  tcall = "vulkan" /\ tdone =>
    LET covering == { t \in Range(ordered_vulkan_envs) :
                        t.vulkan_ver >= treq.vulkan_ver
                        /\ t.spirv_ver >= treq.spirv_ver }
    IN  IF covering = {} THEN ~tok /\ tenv = "unset"
        ELSE /\ tok
             /\ \E e \in covering :
                  /\ e.vulkan_env = tenv
                  /\ \A t \in covering : e.vulkan_ver <= t.vulkan_ver
                                         /\ e.spirv_ver <= t.spirv_ver

(* spvTargetEnvList lists every key once, in table order, and a line      *)
(* with more than one name fits its budget: wrap - pad for the first,     *)
(* unpadded line and wrap for the padded lines after it.                  *)
TargetEnvListLayout ==
  tcall = "list" /\ tdone =>
    /\ FlattenSeq([i \in 1..Len(tlines) |-> tlines[i].names])
         = [i \in 1..Len(spvTargetEnvNameMap) |-> spvTargetEnvNameMap[i][1]]
    /\ \A i \in 1..Len(tlines) :
         Len(tlines[i].names) > 1 =>
           tlines[i].len <= IF i = 1 THEN tlayout.wrap - tlayout.pad
                                     ELSE tlayout.wrap
=============================================================================
