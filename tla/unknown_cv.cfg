\* a host overrides a failed chain with ARC_CHAIN_UNKNOWN and then seals
CONSTANTS
  MAXSETS = 2
  UINT_MOD = 8
  ArcFields <- MCFields
  MaxHdrs = 3
  Modes <- MCSignModes
  CvOverrides = {"UNKNOWN"}
  SealFailures = {"none"}
  StrictCaller = TRUE
  NULL = NULL
SPECIFICATION Spec
INVARIANT SealCvValid
