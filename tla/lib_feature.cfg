CONSTANTS
  v1 = v1
  Vals <- MCVals
  NULL = NULL
  DEFTMPDIR = DEFTMPDIR
  IntBits = 32
  FeatureCodes <- MCFeatureCodes
  MaxAllocs = 3
SPECIFICATION Spec
\* arc_close() and an aborting arc_options() end the instance
INVARIANT
  LibFeatureOnlyAdded
