------------------------------ MODULE ArcChain ------------------------------
(***************************************************************************)
(* What a libopenarc message handle promises the host that verifies a     *)
(* message (spec 4.3, 7 and RFC 8617 5.2), without the set assembly, the  *)
(* signature loops or the seal: the host hands over ARC header fields      *)
(* until the end of the header; the end of the message publishes the       *)
(* RFC 8617 verdict on those fields and the signature results, once; an   *)
(* internal error instead leaves the message unusable; the host may then  *)
(* override the verdict unless a failure has been latched, and a latched  *)
(* failure is never cleared.                                               *)
(***************************************************************************)
EXTENDS Integers, SequencesExt, BagsExt

CONSTANTS
  MAXSETS,    \* the ARC set cap, 50
  ArcFields,  \* the ARC header fields a sender may put in a message
  MaxHdrs     \* bound: ARC header fields per message

Kinds    == {"AAR", "AMS", "AS"}
Results  == {"OK", "BAD", "INTERNAL"}
Verdicts == {"UNKNOWN", "NONE", "FAIL", "PASS"}
NoResults == [ams |-> <<>>, as |-> <<>>]

VARIABLES
  phase,    \* "intake", "body" (header ended), "done" (verdict published)
            \* or "unusable"
  fields,   \* bag of the ARC header fields handed over
  results,  \* the signature results the verdict was computed from
  verdict,  \* the published chain state, "NOTYET" before the end of message
  latched   \* a hard failure: the verdict is fail for good

avars == <<phase, fields, results, verdict, latched>>

-----------------------------------------------------------------------------
(* RFC 8617 5.2 over the fields as sent *)

\* fields whose instance a validator can read: a field whose tags fail to
\* parse before i= has none
Seen(H) == {f \in BagToSet(H) : f.parsed # "bad_noi"}
N(H) == Max({f.inst : f \in Seen(H)} \cup {0})
Count(H, i, K) ==
  MapThenSumSet(LAMBDA f : H[f], {f \in BagToSet(H) : f.inst = i /\ f.kind = K})

\* every field parses, instances 1..N with N at most the cap, exactly one
\* field of each kind per instance, cv=none at 1 and cv=pass above
StructOK(H) ==
  /\ \A f \in BagToSet(H) : f.parsed = "ok"
  /\ N(H) <= MAXSETS
  /\ \A i \in 1..N(H), K \in Kinds : Count(H, i, K) = 1
  /\ \A f \in BagToSet(H) :
       f.kind = "AS" => f.cv = IF f.inst = 1 THEN "none" ELSE "pass"

\* none without ARC fields; pass when the structure is sound, the newest
\* AMS verifies and every AS verifies; fail otherwise
Verdict(H, res) ==
  IF BagToSet(H) = {} THEN "NONE"
  ELSE IF /\ StructOK(H)
          /\ res.ams[N(H)] = "OK"
          /\ \A i \in 1..N(H) : res.as[i] = "OK"
       THEN "PASS"
       ELSE "FAIL"

\* the results a validation of H can produce: one per signature, or none
\* when the structure alone decides
ResultsFor(H) ==
  {NoResults} \cup [ams : [1..N(H) -> Results], as : [1..N(H) -> Results]]

-----------------------------------------------------------------------------

Init == /\ phase = "intake" /\ fields = EmptyBag /\ results = NoResults
        /\ verdict = "NOTYET" /\ latched = FALSE

\* the host drops the message and starts the next one
New == /\ phase' = "intake" /\ fields' = EmptyBag /\ results' = NoResults
       /\ verdict' = "NOTYET" /\ latched' = FALSE

Take(f) == /\ phase = "intake"
           /\ BagCardinality(fields) < MaxHdrs
           /\ fields' = BagAdd(fields, f)
           /\ UNCHANGED <<phase, results, verdict, latched>>

\* more than MAXSETS sets is a hard failure
EndHeaders == /\ phase = "intake"
              /\ phase' = "body"
              /\ latched' = (N(fields) > MAXSETS)
              /\ UNCHANGED <<fields, results, verdict>>

\* the verdict is published; a fail verdict may latch
Verify == /\ phase = "body"
          /\ phase' = "done"
          /\ \E res \in ResultsFor(fields) :
               /\ results' = res
               /\ verdict' = Verdict(fields, res)
               /\ latched' \in IF verdict' = "FAIL" THEN {latched, TRUE}
                               ELSE {latched}
          /\ UNCHANGED fields

\* an internal error (a crypto or allocation failure) instead of a verdict
Fault == /\ phase = "body"
         /\ phase' = "unusable"
         /\ \E res \in ResultsFor(fields) : results' = res
         /\ UNCHANGED <<fields, verdict, latched>>

\* the host overrides the published verdict, unless it is latched
Override == /\ phase = "done"
            /\ ~latched
            /\ verdict' \in Verdicts
            /\ UNCHANGED <<phase, fields, results, latched>>

Next == New \/ (\E f \in ArcFields : Take(f)) \/ EndHeaders \/ Verify
          \/ Fault \/ Override

Spec == Init /\ [][Next]_avars
====
