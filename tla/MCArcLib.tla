------------------------------ MODULE MCArcLib ------------------------------
(* Constants of ArcLib for TLC: one option value, 32-bit unsigned ints,  *)
(* the feature codes on either side of the end of flist.                   *)
EXTENDS ArcLib

CONSTANTS v1

MCVals == {v1}
\* ARC_FEATURE_SHA256, the last bit of flist[0], the first bit of the
\* word after it and the first code arc_libfeature() refuses
MCFeatureCodes == {0, 1, 31, 32, 64}
====
