----------------------------- MODULE MCArcHops -----------------------------
(***************************************************************************)
(* Five relays with the cap lowered to 3: a message sent without ARC      *)
(* fields is sealed at instances 1 to 3 and then reaches the cap; one     *)
(* sent with a chain, or with a broken one, starts higher or failed.      *)
(***************************************************************************)
EXTENDS ArcHops

F(k, i, p, cv) == [kind |-> k, inst |-> i, parsed |-> p, cv |-> cv]

Set(i, cv) == {F("AAR", i, "ok", "na"), F("AMS", i, "ok", "na"), F("AS", i, "ok", cv)}

\* every field a relay's seal could add, one set past the cap included,
\* and the sender's junk
MCHopFields ==
  UNION {Set(i, cv) : i \in 1..MAXSETS + 1, cv \in {"none", "pass", "fail"}}
    \cup {F("AS", 1, "bad_noi", "none"), F("AMS", 1, "bad_i", "na")}

\* no ARC fields; a one-set chain from the sender; a field whose first
\* tag is not i=; a set whose AMS does not parse
MCInitialWires ==
  { EmptyBag,
    SetToBag(Set(1, "none")),
    SetToBag({F("AS", 1, "bad_noi", "none")}),
    SetToBag({F("AAR", 1, "ok", "na"), F("AMS", 1, "bad_i", "na"),
              F("AS", 1, "ok", "none")}) }
=============================================================================
