\* a lone ARC field without i= yields a first seal with cv=fail
CONSTANTS
  MAXSETS = 2
  UINT_MOD = 8
  ArcFields <- MCFields
  MaxHdrs = 3
  Modes <- MCSignModes
  CvOverrides = {"FAIL"}
  SealFailures = {"none"}
  StrictCaller = TRUE
  NULL = NULL
SPECIFICATION Spec
INVARIANT FirstSealSaysNone
