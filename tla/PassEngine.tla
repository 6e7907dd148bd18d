----------------------------- MODULE PassEngine -----------------------------
(***************************************************************************)
(* Pass::Run (opt/pass.cpp) on one IRContext, with the FeatureManager the *)
(* context owns.  Run is split at the call to Process(): RunStart binds    *)
(* the context, the steps a pass body takes while it holds the module     *)
(* follow, and RunEnd unbinds it and invalidates the analyses the pass    *)
(* did not preserve.  Passes are EmptyPass (empty_pass.h) or a generic    *)
(* pass whose body may change the module, call GetNullId and GenerateCopy *)
(* and add or remove capabilities through the context.                    *)
(*                                                                         *)
(* The IRContext is not part of this source tree; its analysis bookkeeping *)
(* is modelled from the specification: `valid` is valid_analyses_, and    *)
(* `stale` the analyses whose data no longer matches the module.          *)
(***************************************************************************)
EXTENDS FeatureManager, Sequences

CONSTANTS
  Passes,        \* the pass objects
  PassKind,      \* [Passes -> {"empty", "generic"}]
  Preserved,     \* [Passes -> SUBSET Analyses]: GetPreservedAnalyses()
  Analyses,      \* the analyses an IRContext caches
  TypeAnalyses,  \* the type and constant managers
  HalfCap,       \* spv::Capability::Float16
  Types,         \* the type instructions a copy may involve
  NoPass

ASSUME /\ PassKind \in [Passes -> {"empty", "generic"}]
       /\ Preserved \in [Passes -> SUBSET Analyses]
       /\ TypeAnalyses \subseteq Analyses
       /\ HalfCap \in Capabilities
       /\ NoPass \notin Passes

VARIABLES
  alreadyRun,         \* already_run_ of each pass
  bound,              \* context_ != nullptr, per pass
  running,            \* the pass inside Process(), or NoPass
  changed,            \* the running pass has changed the module
  result,             \* the status each pass's latest Run returned
  valid,              \* the context's valid analyses
  stale,              \* analyses whose data is out of date
  failedAfterChange,  \* history: a Run returned Failure after changing the module
  declared            \* the module's OpCapability and OpExtension operands

peVars == <<alreadyRun, bound, running, changed, result, valid, stale,
            failedAfterChange, declared>>
vars == <<fmVars, peVars>>

Statuses == {"Failure", "SuccessWithChange", "SuccessWithoutChange"}

(* Types: [op |-> "float" | "int", w], [op |-> "vector" | "matrix", elem], *)
(* [op |-> "array", elem, len] or [op |-> "struct", members].             *)
GetBaseType(t) ==
  LET v == IF t.op = "matrix" THEN t.elem ELSE t
  IN  IF v.op = "vector" THEN v.elem ELSE v

IsFloat(t, width) == GetBaseType(t).op = "float" /\ GetBaseType(t).w = width

(* GenerateCopy(object, new_type_id): the object's own id when the types  *)
(* are the same, a new composite when every element or member converts,   *)
(* otherwise 0.  Returns <<result, inserted>>: whether extract and        *)
(* construct instructions were inserted into the module, which happens   *)
(* before a failing element is met.                                       *)
(* Fault: an array copy does not look at its element type.               *)
GenerateCopyArrayUnchecked(t, u) ==
  IF t = u THEN << "orig", FALSE >>
  ELSE IF t.op # u.op THEN << "fail", FALSE >>
  ELSE IF t.op \in {"array", "struct"} THEN << "construct", TRUE >>
  ELSE << "fail", FALSE >>

RECURSIVE GenerateCopy(_, _)
GenerateCopy(t, u) ==
  IF t = u THEN << "orig", FALSE >>
  ELSE IF t.op # u.op THEN << "fail", FALSE >>
  ELSE CASE t.op = "array" ->
              IF t.len = 0 THEN << "construct", TRUE >>
              ELSE IF GenerateCopy(t.elem, u.elem)[1] = "fail" THEN << "fail", TRUE >>
              ELSE << "construct", TRUE >>
         [] t.op = "struct" ->
              LET n == Len(t.members)
                  ok(i) == GenerateCopy(t.members[i], u.members[i])[1] # "fail"
              IN  IF n = 0 THEN << "construct", TRUE >>
                  ELSE IF \A i \in 1..n : ok(i) THEN << "construct", TRUE >>
                  ELSE << "fail", TRUE >>
         [] OTHER -> << "fail", FALSE >>

PEInit ==
  /\ Init
  /\ alreadyRun = [p \in Passes |-> FALSE]
  /\ bound = [p \in Passes |-> FALSE]
  /\ running = NoPass
  /\ changed = FALSE
  /\ result = [p \in Passes |-> "none"]
  /\ valid = {}
  /\ stale = {}
  /\ failedAfterChange = FALSE
  /\ declared = [caps |-> ModuleCapabilities, exts |-> ModuleExtensions]

(* Run on a pass that has already run: Failure, nothing else changes.    *)
RunAlreadyRun(p) ==
  /\ running = NoPass /\ alreadyRun[p]
  /\ result' = [result EXCEPT ![p] = "Failure"]
  /\ UNCHANGED <<fmVars, declared, alreadyRun, bound, running, changed, valid, stale,
                 failedAfterChange>>

(* Fault: already_run_ is never set.                                      *)
RunStartKeepsFlag(p) ==
  /\ running = NoPass /\ ~alreadyRun[p]
  /\ bound' = [bound EXCEPT ![p] = TRUE]
  /\ running' = p
  /\ UNCHANGED <<fmVars, declared, alreadyRun, changed, result, valid, stale, failedAfterChange>>

RunStart(p) ==
  /\ running = NoPass /\ ~alreadyRun[p]
  /\ alreadyRun' = [alreadyRun EXCEPT ![p] = TRUE]
  /\ bound' = [bound EXCEPT ![p] = TRUE]
  /\ running' = p
  /\ UNCHANGED <<fmVars, declared, changed, result, valid, stale, failedAfterChange>>

(* A step of the pass body that changes the module: the analyses the pass *)
(* preserves are kept up to date, the other valid ones go out of date.   *)
ModifyModule(p) ==
  /\ running = p /\ PassKind[p] = "generic"
  /\ changed' = TRUE
  /\ stale' = stale \cup (valid \ Preserved[p])
  /\ UNCHANGED <<fmVars, declared, alreadyRun, bound, running, result, valid, failedAfterChange>>

(* get_def_use_mgr() and the like: an invalid analysis is rebuilt.        *)
BuildAnalysis(a) ==
  /\ a \notin valid
  /\ valid' = valid \cup {a}
  /\ stale' = stale \ {a}
  /\ UNCHANGED <<fmVars, declared, alreadyRun, bound, running, changed, result, failedAfterChange>>

(* Fault: the Float16 capability goes to the feature manager only, and  *)
(* no OpCapability is added to the module.                               *)
GetNullIdManagerOnly(p, t) ==
  /\ running = p /\ PassKind[p] = "generic" /\ bound[p]
  /\ capabilities' = IF IsFloat(t, 16) THEN AddCapabilityTo(capabilities, HalfCap)
                     ELSE capabilities
  /\ changed' \in {changed, TRUE}
  /\ valid' = valid \cup TypeAnalyses
  /\ stale' = stale \ TypeAnalyses
  /\ UNCHANGED <<extensions, importIds, removed, alreadyRun, bound, running,
                 result, failedAfterChange, declared>>

(* IRContext::AddCapability(cap): an OpCapability is added to the module  *)
(* only when the feature manager does not have cap yet.                   *)
DeclareCapability(d, cap) ==
  IF cap \in capabilities THEN d ELSE [d EXCEPT !.caps = @ \cup {cap}]

(* GetNullId(type_id): a Float16 type (or vector or matrix of it) adds the *)
(* Float16 capability first; the type and constant managers are built,    *)
(* and the null constant may be added to the module.                      *)
GetNullId(p, t) ==
  /\ running = p /\ PassKind[p] = "generic" /\ bound[p]
  /\ capabilities' = IF IsFloat(t, 16) THEN AddCapabilityTo(capabilities, HalfCap)
                     ELSE capabilities
  /\ declared' = IF IsFloat(t, 16) THEN DeclareCapability(declared, HalfCap)
                 ELSE declared
  /\ changed' \in {changed, TRUE}
  /\ valid' = valid \cup TypeAnalyses
  /\ stale' = stale \ TypeAnalyses
  /\ UNCHANGED <<extensions, importIds, removed, alreadyRun, bound, running,
                 result, failedAfterChange>>

(* GenerateCopy through an InstructionBuilder built with                 *)
(* kAnalysisInstrToBlockMapping | kAnalysisDefUse: the extracts and the   *)
(* construct it inserts keep those two up to date, and no other analysis *)
(* depends on such instructions.                                          *)
CopyObject(p, t, u) ==
  /\ running = p /\ PassKind[p] = "generic" /\ bound[p]
  /\ changed' = (changed \/ GenerateCopy(t, u)[2])
  /\ UNCHANGED <<fmVars, declared, alreadyRun, bound, running, result, valid, stale,
                 failedAfterChange>>

(* context()->AddCapability / RemoveCapability / AddExtension /          *)
(* RemoveExtension during Process: the feature manager is updated and    *)
(* the declaration is added to or removed from the module.               *)
ContextFeatureStep(p) ==
  /\ running = p /\ PassKind[p] = "generic"
  /\ \/ \E c \in Capabilities :
          \/ AddCapability(c) /\ declared' = DeclareCapability(declared, c)
          \/ RemoveCapability(c) /\ declared' = [declared EXCEPT !.caps = @ \ {c}]
     \/ \E n \in ExtensionNames :
          \/ AddExtension(n) /\ declared' = [declared EXCEPT !.exts = @ \cup {n}]
          \/ RemoveExtension(n) /\ declared' = [declared EXCEPT !.exts = @ \ {n}]
  /\ changed' = TRUE
  /\ UNCHANGED <<alreadyRun, bound, running, result, valid, stale, failedAfterChange>>

(* The statuses Process() may return: EmptyPass always returns           *)
(* SuccessWithoutChange; a pass that changed the module does not report  *)
(* SuccessWithoutChange.                                                  *)
ProcessStatuses(p) ==
  IF PassKind[p] = "empty" THEN {"SuccessWithoutChange"}
  ELSE IF changed THEN {"Failure", "SuccessWithChange"}
  ELSE Statuses

(* Fault: the analyses are invalidated when the pass reports no change.  *)
InvalidateWrongStatus(p, st, vs) ==
  IF st = "SuccessWithoutChange" THEN vs \cap Preserved[p] ELSE vs

(* if (status == SuccessWithChange)                                       *)
(*   ctx->InvalidateAnalysesExceptFor(GetPreservedAnalyses());            *)
InvalidateAfter(p, st, vs) ==
  IF st = "SuccessWithChange" THEN vs \cap Preserved[p] ELSE vs

(* Process() returns: context_ is reset, the analyses are invalidated.   *)
(* The consistency assert is compiled out in a release build.            *)
RunEnd(p) ==
  /\ running = p
  /\ \E st \in ProcessStatuses(p) :
       /\ result' = [result EXCEPT ![p] = st]
       /\ valid' = InvalidateAfter(p, st, valid)
       /\ failedAfterChange' = (failedAfterChange \/ (st = "Failure" /\ changed))
  /\ bound' = [bound EXCEPT ![p] = FALSE]
  /\ running' = NoPass
  /\ changed' = FALSE
  /\ UNCHANGED <<fmVars, declared, alreadyRun, stale>>

PENext ==
  \/ \E p \in Passes :
       \/ RunAlreadyRun(p) \/ RunStart(p) \/ RunEnd(p)
       \/ ModifyModule(p) \/ ContextFeatureStep(p)
       \/ \E t \in Types : GetNullId(p, t)
       \/ \E t, u \in Types : CopyObject(p, t, u)
  \/ \E a \in Analyses : BuildAnalysis(a)

PESpec == PEInit /\ [][PENext]_vars

-----------------------------------------------------------------------------
PETypeOK ==
  /\ FMTypeOK
  /\ alreadyRun \in [Passes -> BOOLEAN] /\ bound \in [Passes -> BOOLEAN]
  /\ running \in Passes \cup {NoPass}
  /\ changed \in BOOLEAN
  /\ result \in [Passes -> Statuses \cup {"none"}]
  /\ valid \subseteq Analyses /\ stale \subseteq Analyses
  /\ failedAfterChange \in BOOLEAN
  /\ declared \in [caps : SUBSET Capabilities, exts : SUBSET ExtensionNames]

(* Between passes, every analysis the context holds as valid matches the *)
(* module, unless a pass failed after changing it (the pipeline then      *)
(* abandons the module): Run invalidates all but the preserved analyses  *)
(* after a change, and a pass that reports no change has made none.      *)
AnalysesConsistent ==
  (running = NoPass /\ ~failedAfterChange) => valid \cap stale = {}

(* Between passes, the context's feature manager equals (operator==) a    *)
(* fresh one that Analyze builds from the module's declarations, as long *)
(* as no capability has been removed: every capability a pass adds,      *)
(* directly or through GetNullId, is declared or implied by a declared   *)
(* one, and the extension steps keep both sides in step.                 *)
ManagerMatchesModule ==
  (running = NoPass /\ ~removed) =>
    FeatureManagerEquals([capabilities |-> capabilities, extensions |-> extensions,
                          importIds |-> importIds],
                         AnalyzeModule(declared.caps, declared.exts))

(* Type shapes GenerateCopy should accept: the same type, or the same     *)
(* composite opcode with element-wise convertible elements or members.    *)
RECURSIVE Convertible(_, _)
Convertible(t, u) ==
  \/ t = u
  \/ /\ t.op = "array" /\ u.op = "array" /\ t.len = u.len
     /\ Convertible(t.elem, u.elem)
  \/ /\ t.op = "struct" /\ u.op = "struct" /\ Len(t.members) = Len(u.members)
     /\ \A i \in 1..Len(t.members) : Convertible(t.members[i], u.members[i])

(* A copy a pass makes with GenerateCopy returns 0 exactly when the two   *)
(* types are not element-wise convertible, however deep the mismatch is   *)
(* nested (types of equal array lengths and member counts).               *)
GenerateCopyMatchesShapes ==
  [][\A p \in Passes, t, u \in Types :
       CopyObject(p, t, u) => ((GenerateCopy(t, u)[1] # "fail") <=> Convertible(t, u))]_vars

(* Each pass object behaves as PassContract says: it runs once, and every *)
(* later Run returns Failure without running Process again.               *)
PC == INSTANCE PassContract
        WITH passState <- [p \in Passes |->
                             IF running = p THEN "Running"
                             ELSE IF alreadyRun[p] THEN "Ran" ELSE "NotRun"],
             returned <- result

PassRunsOnce == PC!ContractSpec
=============================================================================
