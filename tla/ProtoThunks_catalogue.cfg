CONSTANTS
  Types <- MC_AllTypes
  Schema <- MC_AllSchema
  DefaultObj <- MC_DefaultObj
  Objs = {o1, o2}
  Vals = {}
  Dflt = Dflt
  Null = Null
  MaxLen = 1
SPECIFICATION Spec
INVARIANTS
  HeapSafe
  OwnedExactlyOnce
SYMMETRY MC_Symmetry
VIEW MC_View
PROPERTIES
  ValueSemantics
