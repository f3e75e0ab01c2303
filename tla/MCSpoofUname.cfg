CONSTANTS
  Writers = {w1, w2}
  Readers = {r1}
  Strings = {s1}
  Default = Default
  Empty = Empty
  Real = Real
  Unset = Unset
  NoTask = NoTask
SPECIFICATION Spec
INVARIANT NeverUnset
PROPERTY ImplementsRegister
SYMMETRY Symmetry
