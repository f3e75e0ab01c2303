SPECIFICATION Spec
CONSTANTS
  Scripts <- Patching
  Hooks = 5
  MaxBuilds = 0
  MaxStops = 0
INVARIANT
  CorruptIsNotCopied
