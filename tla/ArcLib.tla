-------------------------------- MODULE ArcLib --------------------------------
(***************************************************************************)
(* The library instance of libopenarc (src/libopenarc/arc.c): arc_init(),  *)
(* arc_options(), arc_set_dns(), arc_libfeature() and arc_close().         *)
(*                                                                         *)
(* Option values are model values; what the code does with their bytes    *)
(* (memcpy, strlcpy) is a copy, so a value is stored or handed back whole. *)
(* The two owned resources are modelled with their identity: the compiled *)
(* sign-header pattern arcl_hdrre and the oversign arrays that             *)
(* arc_copy_array() allocates.  fault records a free of something that is *)
(* not allocated.                                                          *)
(***************************************************************************)
EXTENDS Naturals, FiniteSets

CONSTANTS
  Vals,        \* option values a caller passes (a model value each)
  NULL,
  DEFTMPDIR,
  IntBits,     \* 8 * sizeof(unsigned int)
  FeatureCodes,\* codes a caller may pass to arc_libfeature()
  MaxAllocs    \* bound: oversign arrays allocated

ASSUME IntBits \in Nat \ {0} /\ FeatureCodes \subseteq Nat /\ MaxAllocs \in Nat

\* arc.h: ARC_OPTS_* and ARC_FEATURE_*
Opts == {"FLAGS", "TMPDIR", "FIXEDTIME", "SIGNHDRS", "OVERSIGNHDRS",
         "MINKEYSIZE", "TESTKEYS", "SIGNATURE_TTL"}
ARC_FEATURE_SHA256 == 1
ARC_FEATURE_MAX == 1
ARC_DEFAULT_MINKEYSIZE == 1024

\* FEATURE_INDEX() and FEATURE_OFFSET() of arc_init()
FeatureIndex(x)  == x \div IntBits
FeatureOffset(x) == x % IntBits

VARIABLES
  st,          \* "live" after arc_init(), "closed" after arc_close()
  flags, tmpdir, fixedtime, minkeysize, queryinfo,
  signre,      \* arcl_signre
  hdrre,       \* arcl_hdrre: "zero" (calloc), "compiled" or "freed"
  oversign,    \* arcl_oversignhdrs: NULL or the id of an array
  live,        \* ids of the oversign arrays allocated and not freed
  nalloc,      \* arrays allocated so far
  flsize, flist, \* the feature bitmap: flist[i] is the set of bits set
  resolver,    \* "default" or "custom" (arc_set_dns())
  fault,       \* a free of memory that is not allocated happened
  call         \* the last call: [op, arg, ret]

vars == <<st, flags, tmpdir, fixedtime, minkeysize, queryinfo, signre, hdrre,
          oversign, live, nalloc, flsize, flist, resolver, fault, call>>
opts == <<flags, tmpdir, fixedtime, minkeysize, queryinfo>>

\* arc_init(): defaults, the feature list with ARC_FEATURE_SHA256 set
Init ==
  /\ st = "live"
  /\ flags = 0 /\ tmpdir = DEFTMPDIR /\ fixedtime = 0
  /\ minkeysize = ARC_DEFAULT_MINKEYSIZE /\ queryinfo = NULL
  /\ signre = FALSE /\ hdrre = "zero"
  /\ oversign = NULL /\ live = {} /\ nalloc = 0
  /\ flsize = FeatureIndex(ARC_FEATURE_MAX) + 1
  /\ flist = [i \in 0..flsize - 1 |->
                IF i = FeatureIndex(ARC_FEATURE_SHA256)
                THEN {FeatureOffset(ARC_FEATURE_SHA256)} ELSE {}]
  /\ resolver = "default"
  /\ fault = FALSE
  /\ call = [op |-> "init", arg |-> "none", ret |-> "OK"]

Ret(op, arg, r) == call' = [op |-> op, arg |-> arg, ret |-> r]

\* regfree(&lib->arcl_hdrre) under "if (lib->arcl_signre)"; a regfree of a
\* pattern that is not compiled is a fault
Regfree == fault' = (fault \/ (signre /\ hdrre # "compiled"))
Freed   == IF signre THEN "freed" ELSE hdrre

(* arc_options(lib, op, arg, val, valsz); sizeOK: valsz is the size the
   option expects *)

KeepRes == UNCHANGED <<st, signre, hdrre, oversign, live, nalloc, flsize,
                       flist, resolver, fault>>

\* FLAGS, FIXEDTIME and MINKEYSIZE: val and valsz checked, then memcpy
\* one way or the other; x is the field, x2 its next value
ScalarCopyFirst(op, arg, val, sizeOK, x, x2) ==
  IF val = NULL THEN Ret(op, arg, "INVALID") /\ x2 = x
  ELSE /\ x2 = (IF op = "SET" THEN val ELSE x)
       /\ Ret(op, arg, IF sizeOK THEN "OK" ELSE "INVALID")
Scalar(op, arg, val, sizeOK, x, x2) ==
  IF val = NULL \/ ~sizeOK THEN Ret(op, arg, "INVALID") /\ x2 = x
  ELSE Ret(op, arg, "OK") /\ x2 = (IF op = "SET" THEN val ELSE x)

OptFlags(op, val, sizeOK) ==
  /\ Scalar(op, "FLAGS", val, sizeOK, flags, flags')
  /\ UNCHANGED <<tmpdir, fixedtime, minkeysize, queryinfo>> /\ KeepRes

OptFixedTime(op, val, sizeOK) ==
  /\ Scalar(op, "FIXEDTIME", val, sizeOK, fixedtime, fixedtime')
  /\ UNCHANGED <<flags, tmpdir, minkeysize, queryinfo>> /\ KeepRes

OptMinKeySize(op, val, sizeOK) ==
  /\ Scalar(op, "MINKEYSIZE", val, sizeOK, minkeysize, minkeysize')
  /\ UNCHANGED <<flags, tmpdir, fixedtime, queryinfo>> /\ KeepRes

\* TMPDIR: GET copies out into the caller's buffer; SET NULL restores
\* DEFTMPDIR
OptTmpDirNoDefault(op, val) ==
  /\ op = "GET" => val # NULL
  /\ tmpdir' = IF op = "GET" THEN tmpdir ELSE val
  /\ Ret(op, "TMPDIR", "OK")
  /\ UNCHANGED <<flags, fixedtime, minkeysize, queryinfo>> /\ KeepRes
OptTmpDir(op, val) ==
  /\ op = "GET" => val # NULL
  /\ tmpdir' = CASE op = "GET" -> tmpdir [] val = NULL -> DEFTMPDIR [] OTHER -> val
  /\ Ret(op, "TMPDIR", "OK")
  /\ UNCHANGED <<flags, fixedtime, minkeysize, queryinfo>> /\ KeepRes

\* TESTKEYS: val must not be NULL
OptTestKeys(op, val) ==
  /\ IF val = NULL THEN Ret(op, "TESTKEYS", "INVALID") /\ queryinfo' = queryinfo
     ELSE Ret(op, "TESTKEYS", "OK")
          /\ queryinfo' = (IF op = "SET" THEN val ELSE queryinfo)
  /\ UNCHANGED <<flags, tmpdir, fixedtime, minkeysize>> /\ KeepRes

KeepSign == UNCHANGED <<st, oversign, live, nalloc, flsize, flist, resolver>> /\ UNCHANGED opts

\* SIGNHDRS with NULL: free the pattern
SignHdrsClear == Regfree /\ hdrre' = Freed /\ signre' = FALSE

\* SIGNHDRS with a list: free the old pattern, build "^(a|b|...)$" and
\* compile it.  outcome "toolong": arc_hdrlist() or the closing strlcat()
\* runs out of buffer (INVALID); "badre": regcomp() fails (INTERNAL)
SignHdrsSetKeepFlag(outcome) ==
  /\ Regfree
  /\ IF outcome = "ok" THEN hdrre' = "compiled" /\ signre' = TRUE
     ELSE hdrre' = Freed /\ signre' = signre
SignHdrsSet(outcome) ==
  /\ Regfree
  /\ IF outcome = "ok" THEN hdrre' = "compiled" /\ signre' = TRUE
     ELSE hdrre' = Freed /\ signre' = FALSE

OptSignHdrs(op, val, sizeOK, outcome) ==
  /\ IF ~sizeOK \/ op = "GET"
     THEN Ret(op, "SIGNHDRS", "INVALID") /\ UNCHANGED <<signre, hdrre, fault>>
     ELSE IF val = NULL THEN SignHdrsClear /\ Ret(op, "SIGNHDRS", "OK")
     ELSE /\ SignHdrsSet(outcome)
          /\ Ret(op, "SIGNHDRS", CASE outcome = "ok"      -> "OK"
                                   [] outcome = "toolong" -> "INVALID"
                                   [] OTHER               -> "INTERNAL")
  /\ KeepSign

KeepOver == UNCHANGED <<st, signre, hdrre, flsize, flist, resolver>> /\ UNCHANGED opts

\* arc_clobber_array() of the current list, if any; freeing an array that
\* is not allocated is a fault
Clobber ==
  /\ live' = IF oversign # NULL THEN live \ {oversign} ELSE live
  /\ fault' = (fault \/ (oversign # NULL /\ oversign \notin live))

\* OVERSIGNHDRS with a list: arc_copy_array() first (copyOK: the
\* allocation succeeds), then the old list is clobbered
OverSignSet(copyOK) ==
  IF copyOK
  THEN /\ nalloc' = nalloc + 1 /\ oversign' = nalloc + 1
       /\ fault' = (fault \/ (oversign # NULL /\ oversign \notin live))
       /\ live' = (IF oversign # NULL THEN live \ {oversign} ELSE live) \cup {nalloc + 1}
  ELSE UNCHANGED <<nalloc, oversign, live, fault>>

\* OVERSIGNHDRS: valsz checked; GET hands out the library's own pointer
OptOverSign(op, val, sizeOK, copyOK) ==
  /\ CASE ~sizeOK      -> Ret(op, "OVERSIGNHDRS", "INVALID") /\ UNCHANGED <<oversign, live, nalloc, fault>>
       [] op = "GET"   -> Ret(op, "OVERSIGNHDRS", "OK") /\ UNCHANGED <<oversign, live, nalloc, fault>>
       [] val = NULL   -> Clobber /\ oversign' = NULL /\ UNCHANGED nalloc
                          /\ Ret(op, "OVERSIGNHDRS", "OK")
       [] OTHER        -> /\ nalloc < MaxAllocs
                          /\ OverSignSet(copyOK)
                          /\ Ret(op, "OVERSIGNHDRS", IF copyOK THEN "OK" ELSE "NORESOURCE")
  /\ KeepOver

\* an arg with no case in the switch: assert(0) aborts the process
OptUnknown(op, arg) ==
  /\ st' = "aborted"
  /\ Ret(op, arg, "abort")
  /\ UNCHANGED <<signre, hdrre, oversign, live, nalloc, flsize, flist, resolver, fault>>
  /\ UNCHANGED opts

\* arc_set_dns(): refused once the resolver is initialised; nothing in
\* the library sets arcl_dnsinit_done, so it always installs the hooks
dnsinitDone == FALSE
SetDns ==
  /\ IF dnsinitDone THEN Ret("set_dns", "none", "INTERNAL") /\ UNCHANGED resolver
     ELSE Ret("set_dns", "none", "OK") /\ resolver' = "custom"
  /\ UNCHANGED <<st, signre, hdrre, oversign, live, nalloc, flsize, flist, fault>>
  /\ UNCHANGED opts

\* arc_close(): SIGNHDRS and OVERSIGNHDRS set to NULL, then flist and
\* the instance freed
Close ==
  /\ SignHdrsClear
  /\ Clobber /\ oversign' = NULL
  /\ st' = "closed"
  /\ Ret("close", "none", "OK")
  /\ UNCHANGED <<nalloc, flsize, flist, resolver>> /\ UNCHANGED opts

\* arc_options(): the switch on arg, with the inputs each case reads
Ops == {"GET", "SET"}
Args == Vals \cup {NULL}
Next ==
  /\ st = "live"
  /\ \/ \E op \in Ops, val \in Args, sizeOK \in BOOLEAN :
          \/ OptFlags(op, val, sizeOK)
          \/ OptFixedTime(op, val, sizeOK)
          \/ OptMinKeySize(op, val, sizeOK)
     \/ \E op \in Ops, val \in Args : OptTmpDir(op, val) \/ OptTestKeys(op, val)
     \/ \E op \in Ops, val \in Args, sizeOK \in BOOLEAN, outcome \in {"ok", "toolong", "badre"} :
          OptSignHdrs(op, val, sizeOK, outcome)
     \/ \E op \in Ops, val \in Args, sizeOK, copyOK \in BOOLEAN :
          OptOverSign(op, val, sizeOK, copyOK)
     \/ \E op \in Ops, arg \in Opts \ {"FLAGS", "TMPDIR", "FIXEDTIME", "TESTKEYS",
                                       "MINKEYSIZE", "SIGNHDRS", "OVERSIGNHDRS"} :
          OptUnknown(op, arg)
     \/ SetDns
     \/ Close

Spec == Init /\ [][Next]_vars

\* arc_libfeature(lib, fc).  A word past the end of flist is read as
\* `beyond`, the bits the heap holds there (undefined behaviour)
LibFeature(fc, beyond) ==
  LET idx == fc \div IntBits
      offset == fc % IntBits
  IN IF idx > flsize THEN FALSE
     ELSE offset \in (IF idx < flsize THEN flist[idx] ELSE beyond)
-----------------------------------------------------------------------------
(* Properties *)

LibTypeOK ==
  /\ st \in {"live", "closed", "aborted"}
  /\ signre \in BOOLEAN /\ hdrre \in {"zero", "compiled", "freed"}
  /\ oversign \in {NULL} \cup 1..MaxAllocs /\ live \subseteq 1..MaxAllocs
  /\ nalloc \in 0..MaxAllocs /\ fault \in BOOLEAN
  /\ flags \in Vals \cup {0} /\ fixedtime \in Vals \cup {0}
  /\ minkeysize \in Vals \cup {ARC_DEFAULT_MINKEYSIZE}
  /\ tmpdir \in Vals \cup {DEFTMPDIR} /\ queryinfo \in Vals \cup {NULL}

\* The library owns exactly the sign-header pattern arcl_signre says is
\* compiled and the oversign array arcl_oversignhdrs points to: no
\* sequence of arc_options() calls, failed ones included, frees either
\* twice, and arc_close() leaves neither allocated.
ResourcesOwned ==
  /\ ~fault
  /\ signre <=> hdrre = "compiled"
  /\ live = (IF oversign = NULL THEN {} ELSE {oversign})
  /\ st = "closed" => live = {} /\ hdrre # "compiled"

\* An arc_options() call that fails leaves the library as it was.
\* SIGNHDRS is the exception the code makes: it frees the old pattern
\* before it builds the new one.
FailedSetLeavesLibrary ==
  [][call'.ret \in {"INVALID", "NORESOURCE", "INTERNAL"} /\ call'.arg # "SIGNHDRS"
       => UNCHANGED <<opts, oversign, live, signre, hdrre>>]_vars

\* spec 6: every option key of arc.h (SIGNATURE_TTL included) is
\* recognised by arc_options(), which answers with a status.
OptionsNeverAbort == st # "aborted"

\* arc_libfeature() reports exactly the features arc_init() added to the
\* list, whatever code it is asked about.
LibFeatureOnlyAdded ==
  st = "live" =>
    \A fc \in FeatureCodes : \A beyond \in SUBSET {fc % IntBits} :
      LibFeature(fc, beyond) <=> fc = ARC_FEATURE_SHA256
====
