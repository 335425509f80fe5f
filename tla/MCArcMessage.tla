---------------------------- MODULE MCArcMessage ----------------------------
(***************************************************************************)
(* Instances of ArcMessage for TLC.  Two-set chains exercise every branch *)
(* of set assembly, the oldest-pass loop and the seal loop; the cap is     *)
(* lowered to 2 so that sealing at the cap and a third instance (over the  *)
(* cap) are reachable within six header fields.                            *)
(***************************************************************************)
EXTENDS ArcMessage

F(k, i, p, cv) == [kind |-> k, inst |-> i, parsed |-> p, cv |-> cv]

\* a well-formed two-set chain and its variations: a second seal with the
\* wrong cv=, a second seal at instance 1, an AMS whose tags do not parse,
\* an AMS whose c= is not a canonicalization,
\* an AS without a leading i=, and a set beyond the cap
MCFields ==
  { F("AAR", 1, "ok", "na"), F("AMS", 1, "ok", "na"), F("AS", 1, "ok", "none"),
    F("AAR", 2, "ok", "na"), F("AMS", 2, "ok", "na"), F("AS", 2, "ok", "pass"),
    F("AS", 2, "ok", "none"), F("AS", 1, "ok", "pass"),
    F("AMS", 1, "bad_i", "na"), F("AS", 1, "bad_noi", "none"),
    F("AMS", 2, "bad_c", "na"),
    F("AAR", 3, "ok", "na") }

MCVerifyModes == {{"VERIFY"}}
MCSignModes == {{"SIGN", "VERIFY"}}
\* a complete first set and an AMS whose i= is UINT_MOD: arc_check_uint()
\* accepts it, the unsigned int it is stored in holds 0
MCWrapFields ==
  { F("AAR", 1, "ok", "na"), F("AMS", 1, "ok", "na"), F("AS", 1, "ok", "none"),
    F("AMS", 8, "ok", "na") }
=============================================================================
