\* arc_eom() verdicts and oldest-pass on every assembly of up to six fields
CONSTANTS
  MAXSETS = 2
  UINT_MOD = 8
  ArcFields <- MCFields
  MaxHdrs = 6
  Modes <- MCVerifyModes
  CvOverrides = {"UNKNOWN", "FAIL"}
  SealFailures = {"none"}
  StrictCaller = TRUE
  NULL = NULL
SPECIFICATION Spec
INVARIANT TypeOK
INVARIANT OldestPassCorrect
PROPERTY VerdictSound
PROPERTY InfailSticky
PROPERTY ChainRefinement
