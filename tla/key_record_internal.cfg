CONSTANTS
  Words <- MCKeyWords
  WordInfo <- MCKeyWordInfo
  Seeds <- MCAllSeeds
  EditTokens <- MCKeyEditTokens
  MaxEdits = 2
  NULL = NULL
  Algs <- MCAlgs
  Fetches = {"OK", "KEYFAIL", "NOKEY"}
  MinKeyBits <- MCMinKeyBits
  KeyBits <- MCKeyBits
  \* arc_init() always sets ARC_FEATURE_SHA256
  Sha256Feature = TRUE
SPECIFICATION Spec
\* the edits stop at MaxEdits: the record is complete
CHECK_DEADLOCK FALSE
INVARIANT
  KeyRecordNotInternal
