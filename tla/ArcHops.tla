------------------------------ MODULE ArcHops ------------------------------
(***************************************************************************)
(* A message on its way through ARC-signing relays (spec 8, RFC 8617 5). *)
(* Each relay runs one libopenarc message handle in sign-and-verify mode: *)
(* it hands the message's ARC fields to arc_header_field(), calls          *)
(* arc_eoh(), arc_body() and arc_eom(), asks arc_getseal() for a seal,    *)
(* adds the seal's three fields to the message and passes it on; the      *)
(* handle is freed and the next relay starts a new one.  Between relays   *)
(* the message may be changed (a mailing list footer, a rewritten         *)
(* Subject), which breaks every AMS signed before the change but no AS,   *)
(* since an AS covers only ARC fields.                                     *)
(*                                                                         *)
(* The handle is ArcMessage itself; this module adds the message in       *)
(* transit and the environment: DNS and RSA answer, and a signature fails *)
(* exactly when the message changed after it was made.                    *)
(***************************************************************************)
EXTENDS ArcMessage

CONSTANTS
  InitialWires,  \* the ARC fields a message may carry when it is sent
  MaxHops        \* bound: ARC-signing relays the message passes

VARIABLES
  wire,          \* bag of the ARC header fields of the message in transit
  broken,        \* instances whose AMS the message no longer matches
  hop,           \* relays the message has passed
  trusted,       \* the newest set is a relay's cv=none/pass seal and the
                 \* message has not changed since
  failedBefore   \* an earlier relay's arc_eom() found the chain failed

hopVars == <<wire, broken, hop, trusted, failedBefore>>
allVars == <<vars, hopVars>>

\* the results arc_eom() gets when every key is published and every
\* signature was made over the message as it was then
WireResults(n) ==
  [ams |-> [i \in 1..n |-> IF i \in broken THEN "BAD" ELSE "OK"],
   as  |-> [i \in 1..n |-> "OK"]]

HopInit ==
  /\ Init
  /\ wire \in InitialWires
  /\ broken = {} /\ hop = 0 /\ trusted = FALSE /\ failedBefore = FALSE

\* the relay's MTA passes every header field to arc_header_field(); the
\* ARC ones are the fields of the wire, each accepted in state INIT/HEADER
Receive ==
  /\ hop < MaxHops
  /\ state = "INIT" /\ lastCall = "message"
  /\ BagCardinality(wire) <= MaxHdrs
  /\ state' = "HEADER" /\ hdrs' = wire
  /\ status' = "OK" /\ lastCall' = "header_field"
  /\ UNCHANGED <<nsets, sets, cstate, infail, oldestPass, mode, sealCanon,
                 seal, vres, eomStatus, crashed>>
  /\ UNCHANGED hopVars

\* arc_eom(), with the signatures answering as the message allows
HopEom ==
  /\ Eom
  /\ vres' \in {vres, WireResults(nsets)}
  /\ UNCHANGED hopVars

\* the relay is done with the message: it adds the seal, if arc_getseal()
\* handed one out, frees the handle (arc_free(), then arc_message() at the
\* next relay) and sends the message on
Forward ==
  /\ eomStatus # "NOTYET"
  /\ FreeAndNew
  /\ wire' = IF seal = NULL THEN wire ELSE Sealed(wire, seal)
  /\ trusted' = IF seal = NULL THEN trusted ELSE seal.cv \in {"none", "pass"}
  /\ failedBefore' = (failedBefore \/ (eomStatus = "OK" /\ cstate = "FAIL"))
  /\ hop' = hop + 1
  /\ UNCHANGED broken

\* the message is changed in transit: every AMS on it no longer verifies
Tamper ==
  /\ state = "INIT" /\ lastCall = "message"
  /\ broken' = broken \cup {f.inst : f \in BagToSet(wire)}
  /\ trusted' = FALSE
  /\ broken' # broken \/ trusted
  /\ UNCHANGED <<vars, wire, hop, failedBefore>>

\* a relay stops at the last hop, where the message is delivered
HopNext ==
  /\ ~crashed
  /\ \/ Receive
     \/ lastCall # "message" /\ Eoh /\ UNCHANGED hopVars
     \/ Body /\ UNCHANGED hopVars
     \/ HopEom
     \/ Getseal /\ UNCHANGED hopVars
     \/ Forward
     \/ Tamper

HopSpec == HopInit /\ [][HopNext]_allVars

-----------------------------------------------------------------------------
(* Properties *)

\* the wire holds ARC fields of instances within the cap, since a relay
\* at the cap adds no set
HopTypeOK ==
  /\ TypeOK
  /\ BagToSet(wire) \subseteq {f \in ArcFields : f.inst <= MAXSETS}
  /\ broken \subseteq 1..MAXSETS
  /\ hop \in 0..MaxHops
  /\ trusted \in BOOLEAN /\ failedBefore \in BOOLEAN

\* Round trip (spec 8): when the newest set is a seal arc_getseal() made
\* with cv=none or cv=pass and the message has not changed since, the next
\* relay's arc_eom() passes the chain: the instance number and cv= that
\* arc_getseal() writes are the ones the cv= and AMS loops of arc_eom()
\* accept, at every chain length up to the cap.
HopPassSurvives == eomStatus = "OK" /\ trusted => cstate = "PASS"

\* RFC 8617 5.1.2: once a relay has found the chain failed, no later relay
\* finds it passing, even when the newest AMS verifies: the cv=fail seal
\* the failing relay adds (or, without a seal, the unchanged failure) must
\* fail the chain at every later arc_eom().
FailIsForever == eomStatus = "OK" /\ failedBefore => cstate = "FAIL"
=============================================================================
