\* an i= equal to 2^32 indexes arc_sets[-1] in arc_eoh()
CONSTANTS
  MAXSETS = 2
  UINT_MOD = 8
  ArcFields <- MCWrapFields
  MaxHdrs = 4
  Modes <- MCVerifyModes
  CvOverrides = {"FAIL"}
  SealFailures = {"none"}
  StrictCaller = TRUE
  NULL = NULL
SPECIFICATION Spec
INVARIANT NoCrash
