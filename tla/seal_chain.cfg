\* arc_getseal() after every verdict, retried after a failure between
\* arc_canon_add_to_seal() and arc_canon_getfinal(): the AS must sign the
\* scope a validator hashes (this run finds it does not)
CONSTANTS
  MAXSETS = 2
  UINT_MOD = 8
  ArcFields <- MCFields
  MaxHdrs = 6
  Modes <- MCSignModes
  CvOverrides = {"FAIL"}
  SealFailures = {"none", "canon_init", "key", "sign_ams", "as_stub", "sign_as"}
  StrictCaller = TRUE
  NULL = NULL
SPECIFICATION Spec
INVARIANT SealCoversChain
