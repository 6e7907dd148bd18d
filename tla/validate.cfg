\* Every rule family over the modules of MCValidator; validation ends once
\* every function's limitations are evaluated.
CONSTANT Modules <- MCModules
  RFunctions <- MCRFunctions
  RShapes <- MCRShapes
  RTargets <- MCRTargets
SPECIFICATION ValidateOrReduce
INVARIANTS VTypeOK ElementwiseOperandsMatch ProductShapesCompose ReduceShapes DerivativeRule MeshInstructionModels RTypeOK ModuleStaysClosed OpportunitiesStayValid EntryPointsKeepHeader
CHECK_DEADLOCK FALSE
