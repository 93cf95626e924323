\* Every way to derive, install, uninstall, close and unload, with callbacks that
\* create, derive, install and uninstall.
CONSTANTS
  MaxFactories = 3
  MaxEntities = 2
  MaxDepth = 8
  Plugins = {"p", "q"}
  Classnames = {"a", "b", "c"}
  GameClasses = {"a"}
  Owner <- Owners
  Class <- Classes
  Abstract = {}
  Derivations <- Mixed
  CallsBack <- Survivable
SPECIFICATION Spec
INVARIANTS FactoriesServe HierarchyAgrees CallsTouchLive FieldsDestroyed
CHECK_DEADLOCK FALSE
