SPECIFICATION Spec
CONSTANTS
  Objs <- MCObjs
  Template <- MCTemplate
  Library = 6
  Assigns <- MCAssigns
  LocalDecls <- MCLocalDecls
  StaticDecls <- MCStaticDecls
  UniDecls <- MCUniDecls
  Calls <- MCCalls
  Returns <- MCReturns
  Params <- MCParams
  Binds <- MCBinds
  Imports <- MCImports
  Strict = TRUE
  Spare = 6
  MaxStack = 2
  MaxPages = 2
  MaxLayers = 7
INVARIANT TemplateIntact
INVARIANT HeapSafe
INVARIANT CallBarrier
CHECK_DEADLOCK FALSE
