\* a message through five relays that verify and seal (the cap lowered to
\* 3), with changes in transit; the last relay delivers, so the run stops
CONSTANTS
  MAXSETS = 3
  UINT_MOD = 8
  ArcFields <- MCHopFields
  MaxHdrs = 12
  Modes = {{"SIGN", "VERIFY"}}
  CvOverrides = {}
  SealFailures = {"none", "canon_init", "key", "sign_ams", "sign_as"}
  StrictCaller = TRUE
  NULL = NULL
  InitialWires <- MCInitialWires
  MaxHops = 5
SPECIFICATION HopSpec
INVARIANT HopTypeOK
INVARIANT HopPassSurvives
INVARIANT FailIsForever
INVARIANT ChainExtends
CHECK_DEADLOCK FALSE
