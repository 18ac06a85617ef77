CONSTANTS
  Types <- MC_Types
  Schema <- MC_Schema
  DefaultObj <- MC_DefaultObj
  Objs = {o1, o2, o3, o4}
  Vals = {v1}
  Dflt = Dflt
  Null = Null
  MaxLen = 1
SPECIFICATION Spec
INVARIANTS
  TypeOK
  HeapSafe
  OwnedExactlyOnce
SYMMETRY MC_Symmetry
VIEW MC_View
PROPERTIES
  ValueSemantics
