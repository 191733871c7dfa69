SPECIFICATION FairSpec
CONSTANTS
  Internal = {m1}
  External = {x1}
  Dev = {v1, v2}
  Main = main
  None = none
CHECK_DEADLOCK FALSE
INVARIANTS
  DrivenIsRegistered
PROPERTIES
  UnloadEnds
  MainUnloadEnds
