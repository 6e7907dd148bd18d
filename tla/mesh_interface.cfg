\* PerPrimitiveEXT variables under one or two entry points.
CONSTANTS Modules <- VariableModules
  RFunctions <- MCRFunctions
  RShapes <- MCRShapes
  RTargets <- MCRTargets
SPECIFICATION ValidatorAlone
INVARIANT PerPrimitiveRule
CHECK_DEADLOCK FALSE
