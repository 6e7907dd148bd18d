\* AddCapability after RemoveCapability of an implied capability.
CONSTANTS
  Matrix = Matrix
  Shader = Shader
  Geometry = Geometry
  Float16Cap = Float16Cap
  Capabilities <- MCCapabilities
  Implies <- MCImplies
  ExtensionNames <- MCExtensionNames
  KnownExtensions <- MCKnownExtensions
  ImportNames <- MCImportNames
  ModuleCapabilities <- MCModuleCapabilities
  ModuleExtensions <- MCModuleExtensions
SPECIFICATION FMSpec
PROPERTY AddCapabilityCloses
