SPECIFICATION Spec
CONSTANTS
  Mfp = TRUE
  Band = TRUE
  MaxFrames = 1
  RefMod = 6
INVARIANTS TypeOK ReferencesHeld RoamIsQuiet
PROPERTY DataResumes
CONSTRAINT Exact
CHECK_DEADLOCK FALSE
