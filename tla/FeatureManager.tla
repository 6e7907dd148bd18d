--------------------------- MODULE FeatureManager ---------------------------
(***************************************************************************)
(* opt/feature_manager.cpp: the extensions, capabilities and extended-    *)
(* instruction-set import ids a module uses.  Analyze fills a fresh        *)
(* manager from the module's declarations; afterwards the IRContext adds  *)
(* and removes extensions and capabilities on behalf of the passes.       *)
(*                                                                         *)
(* The grammar's capability table is the constant Implies: Implies[c] is  *)
(* the set desc->capabilities() lists for c (the capabilities c depends   *)
(* on).  An OpExtension's operand is a name; KnownExtensions are the names *)
(* GetExtensionFromString recognises.                                      *)
(***************************************************************************)
EXTENDS FiniteSets, FiniteSetsExt

CONSTANTS
  Capabilities,          \* spv::Capability values of the model
  Implies,               \* [Capabilities -> SUBSET Capabilities], from the grammar
  ExtensionNames,        \* OpExtension operand strings
  KnownExtensions,       \* the names GetExtensionFromString maps to an Extension
  ImportNames,           \* OpExtInstImport names in the module, with their ids
  ModuleCapabilities,    \* the module's OpCapability operands
  ModuleExtensions       \* the module's OpExtension operands

ASSUME /\ Implies \in [Capabilities -> SUBSET Capabilities]
       /\ KnownExtensions \subseteq ExtensionNames
       /\ ModuleCapabilities \subseteq Capabilities
       /\ ModuleExtensions \subseteq ExtensionNames

VARIABLES
  capabilities,   \* capabilities_
  extensions,     \* extensions_ (recognised extensions only)
  importIds,      \* the three extinst_importid_ fields
  removed         \* history: RemoveCapability has erased a capability

fmVars == <<capabilities, extensions, importIds, removed>>

ImportSets == {"GLSL.std.450", "OpenCL.DebugInfo.100",
               "NonSemantic.Shader.DebugInfo.100"}

(* Fault: cap inserted without visiting the capabilities it depends on.   *)
AddCapabilityNoRecursion(caps, cap) == caps \cup {cap}

(* AddCapability(cap) applied to the set caps: return at once if cap is  *)
(* present, else insert it and add each capability the grammar lists.    *)
RECURSIVE AddCapabilityTo(_, _)
AddCapabilityTo(caps, cap) ==
  IF cap \in caps THEN caps
  ELSE FoldSet(LAMBDA c, acc : AddCapabilityTo(acc, c), caps \cup {cap}, Implies[cap])

(* Fault: the name is inserted without GetExtensionFromString's check.   *)
AddExtensionUnchecked(exts, name) == exts \cup {name}

(* AddExtension(ext): an unrecognised name is ignored.                    *)
AddExtensionTo(exts, name) ==
  IF name \in KnownExtensions THEN exts \cup {name} ELSE exts

(* AddCapabilities: one AddCapability per OpCapability of the module,    *)
(* whose operands are decls.                                              *)
AddCapabilities(caps, decls) ==
  FoldSet(LAMBDA c, acc : AddCapabilityTo(acc, c), caps, decls)

AddExtensions(exts, decls) ==
  FoldSet(LAMBDA n, acc : AddExtensionTo(acc, n), exts, decls)

(* GetExtInstImportId: the id of the import with that name, 0 if none.   *)
AddExtInstImportIds ==
  [n \in ImportSets |-> IF n \in DOMAIN ImportNames THEN ImportNames[n] ELSE 0]

(* A fresh FeatureManager on which the IRContext calls Analyze(module).  *)
Init ==
  /\ extensions = AddExtensions({}, ModuleExtensions)
  /\ capabilities = AddCapabilities({}, ModuleCapabilities)
  /\ importIds = AddExtInstImportIds
  /\ removed = FALSE

AddCapability(cap) ==
  /\ capabilities' = AddCapabilityTo(capabilities, cap)
  /\ UNCHANGED <<extensions, importIds, removed>>

(* An absent capability is a no-op.                                       *)
RemoveCapability(cap) ==
  /\ cap \in capabilities
  /\ capabilities' = capabilities \ {cap}
  /\ removed' = TRUE
  /\ UNCHANGED <<extensions, importIds>>

AddExtension(name) ==
  /\ extensions' = AddExtensionTo(extensions, name)
  /\ UNCHANGED <<capabilities, importIds, removed>>

RemoveExtension(ext) ==
  /\ ext \in extensions
  /\ extensions' = extensions \ {ext}
  /\ UNCHANGED <<capabilities, importIds, removed>>

FMNext ==
  \/ \E c \in Capabilities : AddCapability(c) \/ RemoveCapability(c)
  \/ \E n \in ExtensionNames : AddExtension(n) \/ RemoveExtension(n)

FMSpec == Init /\ [][FMNext]_fmVars

(* A fresh FeatureManager(grammar_) on which Analyze is called for a      *)
(* module declaring the capabilities capDecls and extensions extDecls.    *)
AnalyzeModule(capDecls, extDecls) ==
  [capabilities |-> AddCapabilities({}, capDecls),
   extensions   |-> AddExtensions({}, extDecls),
   importIds    |-> AddExtInstImportIds]

(* operator==: the same grammar, then the capability and extension sets  *)
(* and the three import ids.  Every manager of the model is built on the *)
(* one grammar of the context, so the address test always passes.        *)
FeatureManagerEquals(a, b) ==
  /\ a.capabilities = b.capabilities
  /\ a.extensions = b.extensions
  /\ \A n \in ImportSets : a.importIds[n] = b.importIds[n]

-----------------------------------------------------------------------------
LOCAL INSTANCE Relation

(* Every capability cap depends on, directly or through others.           *)
DependsOn(cap) ==
  LET R == [p \in Capabilities \X Capabilities |-> p[2] \in Implies[p[1]]]
      C == ReflexiveTransitiveClosure(R, Capabilities)
  IN  {d \in Capabilities : C[cap, d]}

FMTypeOK ==
  /\ capabilities \subseteq Capabilities
  /\ extensions \subseteq KnownExtensions
  /\ importIds \in [ImportSets -> Nat]
  /\ removed \in BOOLEAN

(* Analyze and every later AddCapability keep the capability set closed   *)
(* under the grammar's dependencies, as long as no capability has been    *)
(* removed: the recursion reaches every implied capability, however deep. *)
ClosedUnlessRemoved ==
  ~removed => \A c \in capabilities : DependsOn(c) \subseteq capabilities

(* "Adding a capability transitively adds every capability it implies":   *)
(* an AddCapability(c) step leaves everything c depends on present, also  *)
(* when c, or a capability on the way, was already present and something *)
(* it implies has been removed since.                                     *)
AddCapabilityCloses ==
  [][\A c \in Capabilities : AddCapability(c) => DependsOn(c) \subseteq capabilities']_fmVars
=============================================================================
