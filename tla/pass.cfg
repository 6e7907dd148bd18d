\* Pass objects run on one context, with the context's feature manager.
CONSTANTS
  Matrix = Matrix
  Shader = Shader
  Geometry = Geometry
  Float16Cap = Float16Cap
  P1 = P1
  P2 = P2
  NoPass = NoPass
  DefUse = DefUse
  InstrToBlock = InstrToBlock
  TypeMgr = TypeMgr
  Capabilities <- MCCapabilities
  Implies <- MCImplies
  ExtensionNames <- MCExtensionNames
  KnownExtensions <- MCKnownExtensions
  ImportNames <- MCImportNames
  ModuleCapabilities <- MCModuleCapabilities
  ModuleExtensions <- MCModuleExtensions
  Passes <- MCPasses
  PassKind <- MCPassKind
  Preserved <- MCPreserved
  Analyses <- MCAnalyses
  TypeAnalyses <- MCTypeAnalyses
  HalfCap <- Float16Cap
  Types <- MCTypes
SPECIFICATION PESpec
INVARIANTS PETypeOK AnalysesConsistent ManagerMatchesModule ClosedUnlessRemoved
PROPERTIES PassRunsOnce GenerateCopyMatchesShapes
