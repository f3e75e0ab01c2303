CONSTANTS
  Tasks = {t1, t2}
  Readers = {r1}
  Buffers = {b1, b2, b3}
  Texts = {text1}
  NULL = NULL
  NoTask = NoTask
  Real = Real
  Garbage = Garbage
  Blank = Blank
  Part = Part
  Torn = Torn
  Reading = Reading
SPECIFICATION Spec
INVARIANTS TypeOK QuietExact NoOopsUnlessLost BuffersBounded SusSuAgree
PROPERTY ImplementsRegister
SYMMETRY Symmetry
CHECK_DEADLOCK FALSE
