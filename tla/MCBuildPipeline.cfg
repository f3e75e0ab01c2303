SPECIFICATION Spec
CONSTANTS
  Scripts <- AllScripts
  Hooks = 2
  MaxBuilds = 2
  MaxStops = 1
INVARIANTS
  TypeOK
  AppliedIsWhole
  ImagesMatchConfig
  SuccessIsThisBuild
