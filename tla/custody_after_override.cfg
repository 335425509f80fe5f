\* arc_chain_custody_str() after arc_set_cv() passed a chain arc_eoh() failed
CONSTANTS
  MAXSETS = 2
  UINT_MOD = 8
  ArcFields <- MCFields
  MaxHdrs = 3
  Modes <- MCVerifyModes
  CvOverrides = {"PASS"}
  SealFailures = {"none"}
  StrictCaller = TRUE
  NULL = NULL
SPECIFICATION Spec
INVARIANT NoCrash
