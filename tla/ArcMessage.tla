----------------------------- MODULE ArcMessage -----------------------------
(***************************************************************************)
(* One ARC_MESSAGE handle of libopenarc (src/libopenarc/arc.c), from       *)
(* arc_message() to arc_free(): header intake, end-of-header set assembly  *)
(* (arc_eoh), chain validation (arc_eom), the caller override arc_set_cv() *)
(* and seal generation (arc_getseal).  arc_free() followed by the next     *)
(* arc_message() starts the next message.                                  *)
(*                                                                         *)
(* Data abstraction.  An ARC header field is a record giving its kind      *)
(* (AAR, AMS or AS), the number its i= tag spells, what arc_process_set()  *)
(* made of it and, for an AS, its cv= value; the intake list arc_hhead is  *)
(* a bag of such fields (the set assembly does not depend on the order,    *)
(* see README).  DNS and RSA are the environment: when arc_eom() verifies  *)
(* a signature the result is chosen from Results.  A canonicalization is  *)
(* the sequence of ARC header items fed to it.                             *)
(***************************************************************************)
EXTENDS Integers, SequencesExt, BagsExt

CONSTANTS
  MAXSETS,      \* the ARC set cap, 50 in arc_eoh() and arc_getseal()
  UINT_MOD,     \* 2^w for the w-bit unsigned int that holds an instance
  ArcFields,    \* the ARC header fields a sender may put in a message
  MaxHdrs,      \* bound: ARC header fields per message
  Modes,        \* the arc_mode_t masks the host creates messages with
  CvOverrides,  \* the chain states the host passes to arc_set_cv()
  SealFailures, \* where arc_getseal() may fail (SealFailStatus)
  StrictCaller, \* TRUE: the host calls the API in the documented order
  NULL

Kinds      == {"AAR", "AMS", "AS"}
CvTexts    == {"none", "pass", "fail"}
\* "ok": arc_process_set() returned OK; "bad_i": it failed after storing
\* the i= tag (missing tag, bad t=/x=, AMS h= naming ARC-Seal, AS with h=,
\* duplicate tag); "bad_noi": it failed before (bad character, first tag
\* not i=); "bad_c": an AMS it accepts whose c= arc_parse_canon_t() rejects.
Parses     == {"ok", "bad_i", "bad_noi", "bad_c"}
FieldType  == [kind : Kinds, inst : Nat \ {0}, parsed : Parses,
               cv : CvTexts \cup {"na"}]
Chain      == {"UNKNOWN", "NONE", "FAIL", "PASS"}
Results    == {"OK", "BAD", "INTERNAL"}
Statuses   == {"OK", "INVALID", "SYNTAX", "INTERNAL", "NORESOURCE"}
Calls      == {"message", "header_field", "eoh", "body", "eom", "set_cv",
               "getseal", "custody_str"}
Item       == [inst : Nat, kind : Kinds, cv : CvTexts \cup {"na", "unknown"}]

ASSUME /\ MAXSETS \in Nat \ {0}
       /\ UINT_MOD \in Nat \ {0}
       /\ ArcFields \subseteq FieldType
       /\ MaxHdrs \in Nat
       /\ Modes \subseteq (SUBSET {"SIGN", "VERIFY"}) \ {{}}
       /\ CvOverrides \subseteq Chain
       /\ SealFailures \subseteq {"none", "canon_init", "key", "sign_ams", "as_stub",
                           "sign_as"}
       /\ StrictCaller \in BOOLEAN

VARIABLES
  state,       \* arc_state: INIT, HEADER, EOH or BODY
  hdrs,        \* arc_hhead: bag of the ARC header fields taken in
  nsets,       \* arc_nsets
  sets,        \* arc_sets: instance -> kind -> slotted field or NULL
  cstate,      \* arc_cstate
  infail,      \* arc_infail
  oldestPass,  \* arc_oldest_pass
  mode,        \* arc_mode
  sealCanon,   \* arc_sealcanon: [fed, digest] or NULL
  seal,        \* the seal arc_getseal() last handed out, or NULL
  vres,        \* the signature results arc_eom() last saw (environment)
  status,      \* ARC_STAT returned by the last call
  lastCall,    \* the last API call the host made
  eomStatus,   \* ARC_STAT of the last arc_eom(), "NOTYET" before it
  crashed      \* the process died on an invalid memory access

vars == <<state, hdrs, nsets, sets, cstate, infail, oldestPass, mode,
          sealCanon, seal, vres, status, lastCall, eomStatus, crashed>>

-----------------------------------------------------------------------------
(* Helpers *)

\* n = strtoul(inst, ...) stored in an unsigned int
Trunc(v) == v % UINT_MOD

\* arc_code_to_name(chainstatus, cstate)
ChainStatusName == [UNKNOWN |-> "unknown", NONE |-> "none",
                    FAIL |-> "fail", PASS |-> "pass"]

NoResults == [ams |-> <<>>, as |-> <<>>]

\* number of copies of the fields of S in the intake list
Copies(S) == MapThenSumSet(LAMBDA f : hdrs[f], S)

EmptyCanon == [fed |-> <<>>, digest |-> NULL]

\* arc_canon_* : bytes fed after finalization do not change the digest,
\* a second getfinal returns the cached digest
Feed(c, s) == IF c.digest # NULL THEN c ELSE [c EXCEPT !.fed = @ \o s]
Finalize(c) == IF c.digest = NULL THEN [c EXCEPT !.digest = c.fed] ELSE c

ArcItem(i, k, cv) == [inst |-> i, kind |-> k, cv |-> cv]

\* the relaxed AAR(i), AMS(i), AS(i) of the slotted sets 1..Len(s)
ChainItems(s) ==
  FlattenSeq([i \in DOMAIN s |->
      << ArcItem(i, "AAR", "na"), ArcItem(i, "AMS", "na"),
         ArcItem(i, "AS", s[i]["AS"].cv) >>])

-----------------------------------------------------------------------------
(* Message creation and header intake *)

\* arc_message(): calloc'ed context, so cstate is ARC_CHAIN_NONE (0) and
\* arc_oldest_pass is 0
Fresh(m) ==
  /\ state = "INIT" /\ hdrs = EmptyBag /\ nsets = 0 /\ sets = <<>>
  /\ cstate = "NONE" /\ infail = FALSE /\ oldestPass = 0 /\ mode = m
  /\ sealCanon = NULL /\ seal = NULL /\ vres = NoResults
  /\ status = "OK" /\ lastCall = "message" /\ eomStatus = "NOTYET"
  /\ crashed = FALSE

Init == \E m \in Modes : Fresh(m)

\* arc_free() of this message, then arc_message() for the next one
FreeAndNew ==
  \E m \in Modes :
    /\ state' = "INIT" /\ hdrs' = EmptyBag /\ nsets' = 0 /\ sets' = <<>>
    /\ cstate' = "NONE" /\ infail' = FALSE /\ oldestPass' = 0 /\ mode' = m
    /\ sealCanon' = NULL /\ seal' = NULL /\ vres' = NoResults
    /\ status' = "OK" /\ lastCall' = "message" /\ eomStatus' = "NOTYET"
    /\ crashed' = FALSE

\* arc_header_field() with a field arc_parse_header_field() accepts
HeaderField(f) ==
  /\ ~StrictCaller \/ state \in {"INIT", "HEADER"}
  /\ lastCall' = "header_field"
  /\ IF state \in {"EOH", "BODY"}
       THEN /\ status' = "INVALID"
            /\ UNCHANGED <<state, hdrs>>
       ELSE /\ BagCardinality(hdrs) < MaxHdrs
            /\ state' = "HEADER"
            /\ hdrs' = BagAdd(hdrs, f)
            /\ status' = "OK"
  /\ UNCHANGED <<nsets, sets, cstate, infail, oldestPass, mode, sealCanon,
                 seal, vres, eomStatus, crashed>>

\* arc_header_field() with a field arc_parse_header_field() rejects (no
\* colon, unprintable name, ';' in the name): the state has already moved
HeaderFieldSyntax ==
  /\ state \in {"INIT", "HEADER"}
  /\ lastCall' = "header_field"
  /\ state' = "HEADER"
  /\ status' = "SYNTAX"
  /\ UNCHANGED <<hdrs, nsets, sets, cstate, infail, oldestPass, mode,
                 sealCanon, seal, vres, eomStatus, crashed>>

-----------------------------------------------------------------------------
(* End of header: arc_eoh() *)

\* the kvsets whose i= tag arc_process_set() stored
WithInst == {f \in BagToSet(hdrs) : f.parsed # "bad_noi"}

\* nsets = MAX over those of strtoul(i)
EohSetCount == Max({Trunc(f.inst) : f \in WithInst} \cup {0})

\* the fields competing for slot k, kind K
Cands(k, K) == {f \in WithInst : Trunc(f.inst) = k /\ f.kind = K}

\* the functions on D that map each d to a member of C[d]
RECURSIVE Picks(_, _)
Picks(D, C) ==
  IF D = {} THEN {<< >>}
  ELSE LET d == CHOOSE x \in D : TRUE IN
       {[x \in DOMAIN g \cup {d} |-> IF x = d THEN v ELSE g[x]] :
          g \in Picks(D \ {d}, C), v \in C[d]}

\* the slot arc_sets[k-1] gets for kind K: NULL, or the first candidate in
\* header order (any of them, the intake bag does not record the order)
SlotChoices(n) ==
  [p \in (1..n) \X Kinds |-> IF Cands(p[1], p[2]) = {} THEN {NULL}
                                ELSE Cands(p[1], p[2])]

Slottings(n) ==
  {[k \in 1..n |-> [K \in Kinds |-> g[<<k, K>>]]] :
     g \in Picks((1..n) \X Kinds, SlotChoices(n))}

\* any kvset that arc_process_set() rejected marks the chain failed
ParseFailed == \E f \in BagToSet(hdrs) : f.parsed \in {"bad_i", "bad_noi"}

\* "multiple ARC ... at instance"
DuplicateMember(n) == \E k \in 1..n, K \in Kinds : Copies(Cands(k, K)) > 1

\* "missing or incomplete ARC set"
Incomplete(n) == \E k \in 1..n, K \in Kinds : Cands(k, K) = {}

\* "Too many ARC sets": RFC 8617 caps a chain at 50 sets
SetCapExceededLate(n) == n > MAXSETS + 1
SetCapExceeded(n) == n > MAXSETS

\* arc_eoh_verify(), run when the chain is not failed and nsets > 0: a
\* slotted AMS whose c= does not parse fails the chain (not latched) and
\* the loop goes on with simple/simple
BadCanon(s) == \E k \in DOMAIN s : s[k]["AMS"] # NULL /\ s[k]["AMS"].parsed = "bad_c"

\* an i= that passes arc_check_uint() but wraps to 0 indexes arc_sets[-1]
WrapsToZero == \E f \in WithInst : Trunc(f.inst) = 0

Eoh ==
  /\ ~StrictCaller \/ state \in {"INIT", "HEADER"}
  /\ lastCall' = "eoh"
  /\ IF state \in {"EOH", "BODY"}
       THEN /\ status' = "INVALID"
            /\ UNCHANGED <<state, nsets, sets, cstate, infail, sealCanon,
                           crashed>>
       ELSE LET n == EohSetCount IN
            /\ state' = "EOH"
            /\ nsets' = n
            /\ IF SetCapExceeded(n)
                 THEN /\ cstate' = "FAIL"
                      /\ infail' = TRUE
                      /\ status' = "SYNTAX"
                      /\ UNCHANGED <<sets, sealCanon, crashed>>
               ELSE IF WrapsToZero
                 THEN /\ crashed' = TRUE
                      /\ UNCHANGED <<sets, cstate, infail, sealCanon, status>>
               ELSE
                 LET failed == ParseFailed \/ DuplicateMember(n)
                                 \/ Incomplete(n)
                 IN
                 \E s \in Slottings(n) :
                   LET cs == IF failed \/ BadCanon(s) THEN "FAIL" ELSE cstate IN
                   /\ sets' = s
                   /\ cstate' = cs
                   \* arc_eoh_sign(), then arc_canon_runheaders_seal()
                   /\ sealCanon' =
                        IF "SIGN" \notin mode THEN sealCanon
                        ELSE IF cs = "FAIL" THEN EmptyCanon
                        ELSE Feed(EmptyCanon, ChainItems(s))
                   /\ status' = "OK"
                   /\ UNCHANGED <<infail, crashed>>
  /\ UNCHANGED <<hdrs, oldestPass, mode, seal, vres, eomStatus>>

\* arc_body()
Body ==
  /\ ~StrictCaller \/ (state \in {"EOH", "BODY"} /\ eomStatus = "NOTYET")
  /\ lastCall' = "body"
  /\ IF state \in {"EOH", "BODY"}
       THEN state' = "BODY" /\ status' = "OK"
       ELSE status' = "INVALID" /\ UNCHANGED state
  /\ UNCHANGED <<hdrs, nsets, sets, cstate, infail, oldestPass, mode,
                 sealCanon, seal, vres, eomStatus, crashed>>

-----------------------------------------------------------------------------
(* End of message: arc_eom(), and the host override arc_set_cv() *)

\* the cv= an ARC-Seal at instance i must carry
CvAcceptableFromZero(i, cv) == (i = 0 /\ cv = "none") \/ (i # 0 /\ cv = "pass")
CvAcceptable(i, cv) == (i = 1 /\ cv = "none") \/ (i # 1 /\ cv = "pass")

\* the instances below nsets whose AMS the oldest-pass loop cannot pass
StopAms(res) ==
  {i \in 1..nsets - 1 : sets[i]["AMS"] = NULL \/ res.ams[i] # "OK"}

\* the seal loop without its cv= test
StopAsNoCv(res) ==
  {i \in 1..nsets : sets[i]["AS"] = NULL \/ res.as[i] # "OK"}

\* the instances the seal loop stops at: no seal, a bad cv=, or a
\* signature arc_validate_seal() does not pass
StopAs(res) ==
  {i \in 1..nsets : \/ sets[i]["AS"] = NULL
                    \/ ~CvAcceptable(i, sets[i]["AS"].cv)
                    \/ res.as[i] # "OK"}

\* the loop runs i = nsets-1 .. 1 and stops at the first failure
OldestPassAfterAtFailure(res) ==
  LET S == StopAms(res) IN
  IF S # {} THEN Max(S) ELSE IF nsets >= 2 THEN 0 ELSE oldestPass
OldestPassAfter(res) ==
  LET S == StopAms(res) IN
  IF S # {} THEN Max(S) + 1
  ELSE IF nsets >= 2 THEN 0 ELSE oldestPass

\* arc_eom() returns st after leaving cstate, arc_oldest_pass and infail
EomReturn(cs, op, inf, st) ==
  /\ cstate' = cs /\ oldestPass' = op /\ infail' = inf
  /\ status' = st /\ eomStatus' = st
  /\ UNCHANGED crashed

\* arc_validate_msg()/arc_validate_seal() dereference a NULL set member
EomCrash ==
  /\ crashed' = TRUE
  /\ UNCHANGED <<cstate, oldestPass, infail, status, eomStatus>>

\* the signature checks, with the verdicts of RSA and DNS given by res
EomValidate(res) ==
  LET n  == nsets
      S  == StopAms(res)
      T  == StopAs(res)
      m  == Max(T)
      op == OldestPassAfter(res)
  IN
  /\ vres' = res
  /\ IF sets[n]["AMS"] = NULL THEN EomCrash
     ELSE IF res.ams[n] = "INTERNAL"
       THEN EomReturn(cstate, oldestPass, infail, "INTERNAL")
     ELSE IF res.ams[n] = "BAD" THEN EomReturn("FAIL", oldestPass, infail, "OK")
     ELSE IF S # {} /\ sets[Max(S)]["AMS"] = NULL THEN EomCrash
     ELSE IF T = {} THEN EomReturn("PASS", op, infail, "OK")
     ELSE IF sets[m]["AS"] = NULL THEN EomCrash
     ELSE IF ~CvAcceptable(m, sets[m]["AS"].cv)
       THEN EomReturn("FAIL", op, TRUE, "OK")
     ELSE IF res.as[m] = "INTERNAL" THEN EomReturn("PASS", op, infail, "INTERNAL")
     ELSE EomReturn("FAIL", op, infail, "OK")

Eom ==
  /\ ~StrictCaller \/ (state \in {"EOH", "BODY"} /\ eomStatus = "NOTYET")
  /\ lastCall' = "eom"
  /\ \/ /\ cstate = "FAIL"
        /\ EomReturn(cstate, oldestPass, infail, "OK")
        /\ UNCHANGED vres
     \/ /\ cstate # "FAIL" /\ nsets = 0
        /\ EomReturn("NONE", oldestPass, infail, "OK")
        /\ UNCHANGED vres
     \/ /\ cstate # "FAIL" /\ nsets # 0
        /\ \E res \in [ams : [1..nsets -> Results], as : [1..nsets -> Results]] :
              EomValidate(res)
  /\ UNCHANGED <<state, hdrs, nsets, sets, mode, sealCanon, seal>>

\* a hard failure (arc_infail) keeps arc_set_cv() from changing the state
CvUpdateAllowedAlways == TRUE
CvUpdateAllowed == ~infail

\* arc_set_cv(): the host forces the chain state
SetCv(cv) ==
  LET v == IF cv = "NONE" /\ nsets # 0 THEN "PASS" ELSE cv IN
  /\ ~StrictCaller \/ eomStatus = "OK"
  /\ lastCall' = "set_cv"
  /\ IF CvUpdateAllowed
       THEN /\ cstate' = v
            /\ oldestPass' = IF cstate # v THEN -1 ELSE oldestPass
       ELSE UNCHANGED <<cstate, oldestPass>>
  /\ UNCHANGED <<state, hdrs, nsets, sets, infail, mode, sealCanon, seal,
                 vres, status, eomStatus, crashed>>

-----------------------------------------------------------------------------
(* Seal generation: arc_getseal() *)

\* "if there are already 50 sets we can't add anything"
SealCapReachedLate == nsets > MAXSETS
SealCapReached == nsets >= MAXSETS

\* the seal canonicalization the AS is hashed with: a failed chain gets a
\* new, empty one (RFC 8617 5.1.2), otherwise the one arc_eoh() fed
SealCanonAtGetseal == IF cstate = "FAIL" THEN EmptyCanon ELSE sealCanon

\* the new set: AAR and AMS are fed by arc_canon_add_to_seal(), then the
\* AS stub whose cv= arc_getamshdr_d() takes from arc_cstate
SealItems ==
  << ArcItem(nsets + 1, "AAR", "na"), ArcItem(nsets + 1, "AMS", "na"),
     ArcItem(nsets + 1, "AS", ChainStatusName[cstate]) >>

\* the statuses of the points arc_getseal() can fail at, in code order:
\* the fresh seal canonicalization of a failed chain (arc_add_canon(),
\* arc_canon_init()); the key and signing context; the AAR and the AMS
\* (header parse, arc_getamshdr_d(), AMS hash and signature); the AS stub,
\* after arc_canon_add_to_seal() fed the new AAR and AMS
\* (arc_getamshdr_d(), arc_canon_signature()); the AS signature, after
\* arc_canon_getfinal().  *seal is not set on any of them
SealFailStatus == [canon_init |-> {"NORESOURCE", "INTERNAL"},
                   key        |-> {"NORESOURCE", "INTERNAL"},
                   sign_ams   |-> {"NORESOURCE", "INVALID", "INTERNAL"},
                   as_stub    |-> {"NORESOURCE", "INVALID", "INTERNAL"},
                   sign_as    |-> {"INTERNAL"}]

\* the canonicalization each failure point leaves behind: a failure
\* before the feed leaves it as it was (a failed chain's fresh one,
\* empty), one at the AS stub leaves the new AAR and AMS fed but not
\* finalized, one at the AS signature leaves it finalized
SealCanonLeft(c0, fp) ==
  CASE fp \in {"canon_init", "key", "sign_ams"} -> c0
    [] fp = "as_stub" -> Feed(c0, SubSeq(SealItems, 1, 2))
    [] OTHER          -> Finalize(Feed(c0, SealItems))

\* The host asks only a signing handle, after arc_eom() returned OK, for
\* a seal: arc_getseal() has no state or mode check, and a verify-only
\* handle has no signing canonicalizations (arc_eoh_sign() did not run).
Getseal ==
  /\ "SIGN" \in mode /\ state \in {"EOH", "BODY"}
  /\ ~StrictCaller \/ eomStatus = "OK"
  /\ lastCall' = "getseal"
  /\ IF infail \/ SealCapReached
       THEN /\ seal' = NULL /\ status' = "OK"
            /\ UNCHANGED sealCanon
       ELSE
         LET c0 == SealCanonAtGetseal IN
         \E fp \in SealFailures :
           /\ fp = "canon_init" => cstate = "FAIL"
           /\ sealCanon' = SealCanonLeft(c0, fp)
           /\ IF fp = "none"
                THEN /\ seal' = [inst |-> nsets + 1,
                                 cv |-> ChainStatusName[cstate],
                                 signed |-> sealCanon'.digest]
                     /\ status' = "OK"
                ELSE /\ seal' = NULL
                     /\ status' \in SealFailStatus[fp]
  /\ UNCHANGED <<state, hdrs, nsets, sets, cstate, infail, oldestPass, mode,
                 vres, eomStatus, crashed>>

-----------------------------------------------------------------------------
(* Chain queries *)

\* arc_eoh() stores h->hdr_data = set after every arc_process_set(), but a
\* failing call does not write set: an AMS that failed after its i= was
\* linked is slotted while its hdr_data is the previous field's kvset, or
\* the uninitialized local when it came first
StaleHdrData(s) == \E k \in DOMAIN s : s[k]["AMS"] # NULL /\ s[k]["AMS"].parsed = "bad_i"

\* arc_chain_custody_str(): on a passing chain it reads d= from the AMS of
\* every set, nsets-1 down to 0, through hdr_data; on any other chain it
\* returns 0.  A NULL slot is dereferenced; a stale hdr_data is read, which
\* may or may not fault
ChainCustodyStr ==
  /\ ~StrictCaller \/ eomStatus # "NOTYET"
  /\ lastCall' = "custody_str"
  /\ crashed' \in
       IF cstate # "PASS" THEN {FALSE}
       ELSE IF \E i \in 1..nsets : i \notin DOMAIN sets \/ sets[i]["AMS"] = NULL
         THEN {TRUE}
       ELSE IF StaleHdrData(sets) THEN BOOLEAN
       ELSE {FALSE}
  /\ UNCHANGED <<state, hdrs, nsets, sets, cstate, infail, oldestPass, mode,
                 sealCanon, seal, vres, status, eomStatus>>

-----------------------------------------------------------------------------

\* a crash ends the process: no further step
Next ==
  /\ ~crashed
  /\ \/ FreeAndNew
     \/ \E f \in ArcFields : HeaderField(f)
     \/ HeaderFieldSyntax
     \/ Eoh
     \/ Body
     \/ Eom
     \/ \E cv \in CvOverrides : SetCv(cv)
     \/ Getseal
     \/ ChainCustodyStr

\* the host drives the library one call at a time and may stop at any
\* point, so no fairness is assumed
Spec == Init /\ [][Next]_vars

-----------------------------------------------------------------------------
(* Refinement of ArcChain *)

\* where the message is in the protocol ArcChain states: arc_eom() returning
\* OK publishes the verdict, returning INTERNAL leaves the message unusable
Phase ==
  CASE eomStatus = "OK"          -> "done"
    [] eomStatus = "INTERNAL"    -> "unusable"
    [] state \in {"EOH", "BODY"} -> "body"
    [] OTHER                     -> "intake"

Abs == INSTANCE ArcChain
         WITH phase <- Phase, fields <- hdrs, results <- vres,
              verdict <- IF eomStatus = "OK" THEN cstate ELSE "NOTYET",
              latched <- infail

\* Every behaviour of the message handle under the documented call order
\* is one of ArcChain: fields are taken only before arc_eoh(); arc_eom()
\* publishes the RFC 8617 verdict once; arc_infail is set only with a fail
\* verdict (or over the cap at arc_eoh()), is never cleared, and stops
\* arc_set_cv(); arc_getseal(), arc_body() and the queries leave the
\* published verdict alone.
ChainRefinement == Abs!Spec

-----------------------------------------------------------------------------
(* Properties *)

TypeOK ==
  /\ state \in {"INIT", "HEADER", "EOH", "BODY"}
  /\ BagToSet(hdrs) \subseteq ArcFields
  /\ nsets \in Nat
  /\ \E k \in 0..MAXSETS : DOMAIN sets = 1..k
  /\ \A k \in DOMAIN sets : sets[k] \in [Kinds -> ArcFields \cup {NULL}]
  /\ cstate \in Chain
  /\ infail \in BOOLEAN
  /\ oldestPass \in -1..MAXSETS
  /\ mode \in Modes
  /\ sealCanon \in {NULL} \cup [fed : Seq(Item), digest : Seq(Item) \cup {NULL}]
  /\ seal \in {NULL} \cup [inst : Nat, cv : {"none", "pass", "fail", "unknown"},
                           signed : Seq(Item)]
  /\ status \in Statuses
  /\ lastCall \in Calls
  /\ eomStatus \in Statuses \cup {"NOTYET"}
  /\ crashed \in BOOLEAN

\* RFC 8617 5.2 over the fields as sent (no integer truncation), as
\* ArcChain states it
RefStructOK(H) == Abs!StructOK(H)
RefVerdict(H, res) == Abs!Verdict(H, res)

\* Whenever arc_eom() returns ARC_STAT_OK, the chain state it leaves is the
\* RFC 8617 verdict on the ARC fields arc_header_field() took in and the
\* signature results: set assembly in arc_eoh() (truncated instances,
\* duplicates, gaps) and the cv= and signature loops of arc_eom() together
\* must agree with the reference.
VerdictSound ==
  [][lastCall' = "eom" /\ status' = "OK" /\ ~crashed'
       => cstate' = RefVerdict(hdrs', vres')]_vars

\* arc_chain_oldest_pass(): the lowest j such that AMS j..N all verify,
\* reported as 0 when that is instance 1
RefOldestPass(res) ==
  LET J == {j \in 1..nsets : \A k \in j..nsets : res.ams[k] = "OK"}
      j == Min(J)
  IN IF j = 1 THEN 0 ELSE j

\* When arc_eom() has passed the chain, arc_oldest_pass is the oldest
\* instance from which every AMS verifies, as the loop counting down from
\* nsets-1 must find it.
OldestPassCorrect ==
  lastCall = "eom" /\ eomStatus = "OK" /\ cstate = "PASS"
    => oldestPass = RefOldestPass(vres)

\* Once arc_infail is set (too many sets in arc_eoh(), a bad cv= in
\* arc_eom()), no later call on the same message, arc_set_cv() included,
\* takes the chain out of the failed state.
InfailSticky ==
  [][infail /\ lastCall' # "message" => infail' /\ cstate' = "FAIL"]_vars

\* the items of sets 1..n as the reference orders them
RefSealScope(H, n) ==
  FlattenSeq([i \in 1..n |->
    LET as == CHOOSE f \in BagToSet(H) : f.kind = "AS" /\ f.inst = i IN
    << ArcItem(i, "AAR", "na"), ArcItem(i, "AMS", "na"),
       ArcItem(i, "AS", as.cv) >>])

\* A seal handed out by arc_getseal() signs, in order, the sets of the
\* chain it extends followed by its own AAR, AMS and AS, except that a
\* cv=fail seal signs its own set only (RFC 8617 5.1.2); a canonicalization
\* left over from arc_eoh() or from an earlier attempt must not leak in.
SealCoversChain ==
  seal # NULL =>
    seal.signed =
      (IF seal.cv = "fail" THEN << >> ELSE RefSealScope(hdrs, seal.inst - 1))
      \o << ArcItem(seal.inst, "AAR", "na"), ArcItem(seal.inst, "AMS", "na"),
            ArcItem(seal.inst, "AS", seal.cv) >>

\* the message after the seal is added to it
Sealed(H, sl) ==
  LET new(K, cv) == [kind |-> K, inst |-> sl.inst, parsed |-> "ok", cv |-> cv]
  IN BagAdd(BagAdd(BagAdd(H, new("AAR", "na")), new("AMS", "na")),
            new("AS", sl.cv))

\* A cv=none or cv=pass seal from arc_getseal() turns the message into a
\* structurally valid ARC chain: the next hop's validator sees instances
\* 1..N+1, each complete and unique, within the cap of 50.
ChainExtends ==
  seal # NULL /\ seal.cv \in {"none", "pass"} => RefStructOK(Sealed(hdrs, seal))

-----------------------------------------------------------------------------
(* Properties the spec states and the code does not keep *)

\* No sequence of API calls in the documented order, whatever the ARC
\* fields, makes arc_eoh() or arc_eom() access memory outside arc_sets.
NoCrash == ~crashed

\* RFC 8617 4.1: the set at instance 1 carries cv=none; a seal
\* arc_getseal() emits as the first set must say so, or every validator,
\* arc_eom() included, rejects the chain it starts.
FirstSealSaysNone == seal # NULL /\ seal.inst = 1 => seal.cv = "none"

\* spec 3 and RFC 8617 4.1: the cv= of the seal arc_getseal() emits is
\* none, pass or fail, whatever state arc_set_cv() left the chain in.
SealCvValid == seal # NULL => seal.cv \in {"none", "pass", "fail"}

=============================================================================
