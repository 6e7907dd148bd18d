-------------------------- MODULE MCFeatureManager --------------------------
(***************************************************************************)
(* A module declaring Shader, with the grammar's dependencies among four  *)
(* capabilities: Geometry depends on Shader, Shader on Matrix.           *)
(***************************************************************************)
EXTENDS FeatureManager

CONSTANTS Matrix, Shader, Geometry, Float16Cap

MCCapabilities == {Matrix, Shader, Geometry, Float16Cap}

MCImplies ==
  [c \in MCCapabilities |->
     CASE c = Geometry -> {Shader}
       [] c = Shader   -> {Matrix}
       [] OTHER        -> {}]

MCExtensionNames == {"SPV_KHR_16bit_storage", "SPV_UNKNOWN_vendor_ext"}
MCKnownExtensions == {"SPV_KHR_16bit_storage"}
MCImportNames == [n \in {"GLSL.std.450"} |-> 1]
MCModuleCapabilities == {Shader}
MCModuleExtensions == MCExtensionNames
=============================================================================
