---------------------------- MODULE ArcTagParser ----------------------------
(***************************************************************************)
(* The tag-value parser of libopenarc (src/libopenarc/arc.c):             *)
(* arc_process_set() with arc_add_plist(), arc_param_get() and            *)
(* arc_check_uint().  It turns the body of an ARC header field or of a DNS *)
(* key record into a kvset, or fails with SYNTAX or INTERNAL.             *)
(*                                                                         *)
(* Data abstraction.  The text is a sequence of tokens.  A word is a       *)
(* maximal run of characters other than whitespace, '=', ';' and ':'; what *)
(* the scanner does with a word depends only on its first character, and  *)
(* what the checks do with it only on the facts WordInfo records.  Sp      *)
(* stands for any whitespace character, Ctl for an ASCII character that is *)
(* neither printable nor whitespace.  Two words are never adjacent (they   *)
(* would be one word).  A tag name or value is the sequence of its tokens. *)
(*                                                                         *)
(* The parser is a pure operator, ProcessSet.  The specification explores  *)
(* its inputs: it starts from well-formed header texts (Seeds) and applies *)
(* up to MaxEdits insertions, deletions and replacements of tokens.        *)
(***************************************************************************)
EXTENDS Integers, SequencesExt

CONSTANTS
  Words,       \* the word tokens
  WordInfo,    \* Words -> [first, alnum, num, zero, fold]
  Seeds,       \* well-formed texts [type |-> t, toks |-> s] the edits start from
  EditTokens,  \* kvset type -> the tokens an edit may insert or write
  MaxEdits,    \* bound: edits applied to a seed
  NULL

Sp    == " "
Eq    == "="
Semi  == ";"
Colon == ":"
Ctl   == "CTL"
Tokens == Words \cup {Sp, Eq, Semi, Colon, Ctl}

\* arc_kvsettype_t
SetTypes == {"SEAL", "SIGNATURE", "AR", "KEY"}
ArcTypes == {"SEAL", "SIGNATURE", "AR"}

\* first: the first character (the ARC_PHASH bucket); alnum: isalnum() of
\* it; num: "digits" (all decimal digits), "signed" ('+' then digits),
\* "negative" ('-' then digits) or "none"; zero: strtoll() reads 0;
\* fold: the word in lower case (strcasecmp)
InfoType == [first : STRING, alnum : BOOLEAN,
             num : {"digits", "signed", "negative", "none"},
             zero : BOOLEAN, fold : STRING]

ASSUME /\ WordInfo \in [Words -> InfoType]
       /\ EditTokens \in [SetTypes -> SUBSET Tokens]
       /\ MaxEdits \in Nat
       /\ \A s \in Seeds : s.type \in SetTypes /\ s.toks \in Seq(Tokens)

\* the facts of a token; a token that is not a word is its own character
InfoOf == [t \in Tokens |->
             IF t \in Words THEN WordInfo[t]
             ELSE [first |-> t, alnum |-> FALSE, num |-> "none",
                   zero |-> FALSE, fold |-> t]]
Info(t) == IF t \in Tokens THEN InfoOf[t]
           ELSE [first |-> t, alnum |-> FALSE, num |-> "none",
                 zero |-> FALSE, fold |-> t]

Fold(s) == [k \in DOMAIN s |-> Info(s[k]).fold]

\* arc_collapse(): all whitespace removed (arc-util.c)
Collapse(s) == SelectSeq(s, LAMBDA t : t # Sp)

-----------------------------------------------------------------------------
(* The plist: arc_add_plist() and arc_param_get() *)

\* A kvset's plist is the sequence of its entries, newest first: the order
\* in which a bucket list is walked.  Entries of other buckets are skipped
\* by comparing first characters.
SameBucket(a, b) == Info(a[1]).first = Info(b[1]).first

\* arc_param_get(): the first entry of the bucket whose name strcmp()s equal
ParamGet(plist, name) ==
  LET ks == {k \in DOMAIN plist : plist[k].param = name} IN
  IF ks = {} THEN NULL ELSE plist[Min(ks)].value

\* arc_add_plist(): a name equal under strcasecmp() to one in its bucket is
\* a duplicate: ignored when ignoreDups, an error (-1) otherwise; a new
\* entry is linked at the head of its bucket.  (The isprint(param[0])
\* guard cannot fail here: every name starts with an alphanumeric word or
\* is a literal default.  force only matters for an existing entry, which
\* both branches above return for.)
AddPlistNoDupCheck(plist, param, value, ignoreDups) ==
  [ok |-> TRUE, plist |-> <<[param |-> param, value |-> value]>> \o plist]
AddPlist(plist, param, value, ignoreDups) ==
  IF \E k \in DOMAIN plist : /\ SameBucket(plist[k].param, param)
                             /\ Fold(plist[k].param) = Fold(param)
  THEN [ok |-> ignoreDups, plist |-> plist]
  ELSE [ok |-> TRUE, plist |-> <<[param |-> param, value |-> value]>> \o plist]

\* arc_check_uint(): '-' first is ERANGE, empty is EINVAL, otherwise
\* strtoll() must read the whole value and give a result > 0
StrtollWhole(v) ==
  /\ Info(v[1]).num \in {"digits", "signed", "negative"}
  /\ \A k \in 2..Len(v) : Info(v[k]).num = "digits"
CheckUintNoSignTest(v) ==
  /\ v # <<>>
  /\ StrtollWhole(v)
  /\ \E k \in DOMAIN v : ~Info(v[k]).zero
CheckUint(v) ==
  /\ v # <<>>
  /\ Info(v[1]).first # "-"
  /\ StrtollWhole(v)
  /\ \E k \in DOMAIN v : ~Info(v[k]).zero

-----------------------------------------------------------------------------
(* arc_process_set(): the scanner *)

\* the locals of the scan loop; status "RUN" until a return
ScanInit == [st |-> 0, param |-> <<>>, value |-> <<>>, spaced |-> FALSE,
             first |-> TRUE, stop |-> FALSE, plist |-> <<>>, status |-> "RUN"]

Fail(p, s) == [p EXCEPT !.status = s]

\* arc_add_plist(name, v, force, no ignore), then reset to state 0; the
\* name is collapsed first, except for the empty tag at the end of input
AddTagAs(p, name, v) ==
  LET r == AddPlist(p.plist, name, v, FALSE) IN
  IF ~r.ok THEN Fail(p, "INTERNAL")
  ELSE [p EXCEPT !.plist = r.plist, !.st = 0, !.param = <<>>,
                 !.value = <<>>]
AddTag(p, v) == AddTagAs(p, Collapse(p.param), v)

\* case 0, before a name: skip space; an alphanumeric starts the name
BeforeParam(p, t) ==
  IF t = Sp THEN p
  ELSE IF Info(t).alnum THEN [p EXCEPT !.st = 1, !.param = <<t>>]
  ELSE Fail(p, "SYNTAX")

\* case 1, in a name: space marks it, '=' ends it, ';' or a character
\* after a space is an error
InParam(p, t) ==
  IF t = Sp THEN [p EXCEPT !.spaced = TRUE, !.param = Append(@, t)]
  ELSE IF t = Eq THEN [p EXCEPT !.st = 2, !.spaced = FALSE]
  ELSE IF t = Semi \/ p.spaced THEN Fail(p, "SYNTAX")
  ELSE [p EXCEPT !.param = Append(@, t)]

\* the first-tag rule of a ';' in state 2 or 3
BlankFirst(type, p) == p.first /\ type # "KEY"
FirstNotInstance(type, p) ==
  p.first /\ type # "KEY" /\ Collapse(p.param) # <<"i">>

\* case 2, before a value: ';' stores an empty value (not as the first
\* tag of an ARC field); anything else starts the value
BeforeValue(type, p, t) ==
  IF t = Sp THEN p
  ELSE IF t = Semi THEN IF BlankFirst(type, p) THEN Fail(p, "SYNTAX")
                        ELSE AddTag(p, <<>>)
  ELSE [p EXCEPT !.st = 3, !.value = <<t>>]

InValueNoCollapse(type, p, t) ==
  IF t = Semi
  THEN IF FirstNotInstance(type, p) THEN Fail(p, "SYNTAX")
       ELSE LET q == AddTag(p, p.value) IN
            IF q.status # "RUN" THEN q
            ELSE [q EXCEPT !.first = FALSE, !.stop = (type = "AR")]
  ELSE [p EXCEPT !.value = Append(@, t)]
\* case 3, in a value: ';' stores the tag; an AAR stops after it
InValue(type, p, t) ==
  IF t = Semi
  THEN IF FirstNotInstance(type, p) THEN Fail(p, "SYNTAX")
       ELSE LET q == AddTag(p, Collapse(p.value)) IN
            IF q.status # "RUN" THEN q
            ELSE [q EXCEPT !.first = FALSE, !.stop = (type = "AR")]
  ELSE [p EXCEPT !.value = Append(@, t)]

\* one character of the for loop, which runs while !stop
Scan(type, p, t) ==
  IF p.status # "RUN" \/ p.stop THEN p
  ELSE IF t = Ctl THEN Fail(p, "SYNTAX")
  ELSE CASE p.st = 0 -> BeforeParam(p, t)
         [] p.st = 1 -> InParam(p, t)
         [] p.st = 2 -> BeforeValue(type, p, t)
         [] p.st = 3 -> InValue(type, p, t)

\* stage F applied to x, x computed once: the locals one step of the scan
\* hands to the next are a value, not an expression re-evaluated at each use
Then(x, F(_)) == CHOOSE y \in {F(v) : v \in {x}} : TRUE

\* for (p = hcopy; *p != '\0' && !stop; p++)
ScanLoop(type, s) ==
  LET after[k \in 0..Len(s)] ==
        IF k = 0 THEN ScanInit
        ELSE Then(after[k - 1], LAMBDA p : Scan(type, p, s[k]))
  IN after[Len(s)]

\* the switch after the loop: a value in progress is stored (value is
\* non-NULL exactly in state 3), a name with '=' gets "", a bare name fails
EndOfInput(p) ==
  IF p.status # "RUN" THEN p
  ELSE CASE p.st = 0 -> p
         [] p.st = 3 -> AddTag(p, Collapse(p.value))
         [] p.st = 2 -> AddTagAs(p, p.param, <<>>)
         [] p.st = 1 -> Fail(p, "SYNTAX")

-----------------------------------------------------------------------------
(* arc_process_set(): defaults and requirements by kind *)

Has(p, n) == ParamGet(p.plist, <<n>>) # NULL
Get(p, n) == ParamGet(p.plist, <<n>>)

\* strtok_r(h, ":"): the non-empty runs between colons
RECURSIVE SplitBy(_, _)
SplitBy(s, sep) ==
  LET k == SelectInSeq(s, LAMBDA t : t = sep) IN
  IF k = 0 THEN <<s>>
  ELSE <<SubSeq(s, 1, k - 1)>> \o SplitBy(SubSeq(s, k + 1, Len(s)), sep)
HFields(v) == {f \in ToSet(SplitBy(v, Colon)) : f # <<>>}

\* the h= of an AMS names ARC-Seal (strcasecmp)
SignsSeal(v) == \E f \in HFields(v) : Fold(f) = <<"arc-seal">>

SigRequired  == {"s", "h", "d", "b", "bh", "i", "c", "a"}
SealRequired == {"cv", "i", "b", "s", "d", "a"}

\* case ARC_KVSETTYPE_SIGNATURE: required tags, h= must not sign the seal,
\* t=, x= and i= must be numbers, q= defaults to dns/txt
SignatureChecks(p) ==
  IF \E n \in SigRequired : ~Has(p, n) THEN Fail(p, "SYNTAX")
  ELSE IF SignsSeal(Get(p, "h")) THEN Fail(p, "INTERNAL")
  ELSE IF \/ Has(p, "t") /\ ~CheckUint(Get(p, "t"))
          \/ Has(p, "x") /\ ~CheckUint(Get(p, "x"))
          \/ ~CheckUint(Get(p, "i"))
       THEN Fail(p, "SYNTAX")
  ELSE [p EXCEPT !.plist = AddPlist(@, <<"q">>, <<"dns/txt">>, TRUE).plist]

\* case ARC_KVSETTYPE_KEY: k= defaults to rsa
KeyDefaults(p) ==
  [p EXCEPT !.plist = AddPlist(@, <<"k">>, <<"rsa">>, TRUE).plist]

\* case ARC_KVSETTYPE_SEAL: required tags, i= a number, no h=
SealChecks(p) ==
  IF \E n \in SealRequired : ~Has(p, n) THEN Fail(p, "SYNTAX")
  ELSE IF ~CheckUint(Get(p, "i")) THEN Fail(p, "SYNTAX")
  ELSE IF Has(p, "h") THEN Fail(p, "SYNTAX")
  ELSE p

\* case ARC_KVSETTYPE_AR: i= present and a number
ArChecks(p) ==
  IF ~Has(p, "i") \/ ~CheckUint(Get(p, "i")) THEN Fail(p, "SYNTAX") ELSE p

KindChecks(type, p) ==
  IF p.status # "RUN" THEN p
  ELSE LET q == CASE type = "SIGNATURE" -> SignatureChecks(p)
                  [] type = "KEY"       -> KeyDefaults(p)
                  [] type = "SEAL"      -> SealChecks(p)
                  [] type = "AR"        -> ArChecks(p)
       IN IF q.status = "RUN" THEN [q EXCEPT !.status = "OK"] ELSE q

\* arc_process_set(type, text): [status, plist]; on failure the plist is
\* what the kvset, which stays on the message's list, holds at the return
ProcessSet(type, s) ==
  Then(Then(Then(ScanLoop(type, s), EndOfInput), LAMBDA p : KindChecks(type, p)),
       LAMBDA r : [status |-> r.status, plist |-> r.plist])

-----------------------------------------------------------------------------
(* The inputs: a seed text and up to MaxEdits token edits *)

VARIABLES
  type,   \* the kvset type the text is parsed as
  toks,   \* the text
  edits,  \* edits applied so far
  parsed  \* what arc_process_set(type, toks) returns: [status, plist]

vars == <<type, toks, edits, parsed>>

\* no two words touch: they would be a single word
WordsApart(s) == \A k \in 1..Len(s) - 1 : ~(s[k] \in Words /\ s[k + 1] \in Words)

Init == \E sd \in Seeds : /\ type = sd.type
                         /\ toks = sd.toks
                         /\ edits = 0
                         /\ parsed = ProcessSet(sd.type, sd.toks)

Edit(s) == /\ WordsApart(s)
           /\ toks' = s
           /\ edits' = edits + 1
           /\ parsed' = ProcessSet(type, s)
           /\ UNCHANGED type

Insert == edits < MaxEdits /\ \E k \in 1..Len(toks) + 1, t \in EditTokens[type] : Edit(InsertAt(toks, k, t))
Delete == edits < MaxEdits /\ \E k \in 1..Len(toks) : Edit(RemoveAt(toks, k))
Replace == edits < MaxEdits /\ \E k \in 1..Len(toks), t \in EditTokens[type] : Edit(ReplaceAt(toks, k, t))

Next == Insert \/ Delete \/ Replace

Spec == Init /\ [][Next]_vars

-----------------------------------------------------------------------------
(* Properties *)

\* a stored value is collapsed: it holds no whitespace
ValueTokens == (Tokens \ {Sp}) \cup {"dns/txt", "rsa"}

TypeOK == /\ type \in SetTypes
          /\ toks \in Seq(Tokens)
          /\ edits \in 0..MaxEdits
          /\ parsed.plist \in Seq([param : Seq(Tokens \cup {"q", "k"}),
                                   value : Seq(ValueTokens)])
          /\ parsed.status \in {"OK", "SYNTAX", "INTERNAL"}

\* The tag specs of a text (RFC 6376 3.2): the runs between ';'.  A last
\* run of whitespace only is the optional trailing ';'.  An AAR is read up
\* to its first ';' only.  A spec's name is the text before its first '=',
\* its value the text after it, both with whitespace removed.
Specs(ty, s) ==
  Then(Then(SplitBy(s, Semi),
            LAMBDA segs : IF Collapse(Last(segs)) = <<>> THEN Front(segs) ELSE segs),
       LAMBDA tags : IF ty = "AR" /\ tags # <<>> THEN <<tags[1]>> ELSE tags)
EqAt(seg) == SelectInSeq(seg, LAMBDA t : t = Eq)
SpecName(seg)  == Collapse(SubSeq(seg, 1, EqAt(seg) - 1))
SpecValue(seg) == Collapse(SubSeq(seg, EqAt(seg) + 1, Len(seg)))
\* the text ends inside a tag spec (no ';' after the last one)
Unterminated(s) == Collapse(Last(SplitBy(s, Semi))) # <<>>
\* spec k of S = Specs(ty, s) is at the end of the text, with an empty
\* value and no ';'
OpenEmpty(ty, s, S, k) ==
  k = Len(S) /\ ty # "AR" /\ Unterminated(s) /\ SpecValue(S[k]) = <<>>

\* RFC 8617 4.1: a positive decimal instance number
RefInstance(v) == /\ v # <<>>
                  /\ \A k \in DOMAIN v : Info(v[k]).num = "digits"
                  /\ \E k \in DOMAIN v : ~Info(v[k]).zero

\* arc_process_set() keeps every tag: when it returns OK, every tag spec
\* of the text has a name before an '=', the names are pairwise distinct,
\* and arc_param_get() of each name gives the spec's value -- except an
\* empty tag the text ends with, which is stored under its uncollapsed
\* name (arc_process_set(), case 2 after the loop).
KeptTags ==
  parsed.status = "OK" =>
    Then(Specs(type, toks), LAMBDA S :
    Then({k \in DOMAIN S : ~OpenEmpty(type, toks, S, k)}, LAMBDA K :
      /\ \A k \in DOMAIN S : EqAt(S[k]) > 0
      /\ \A j, k \in K : j # k => SpecName(S[j]) # SpecName(S[k])
      /\ \A k \in K : ParamGet(parsed.plist, SpecName(S[k])) = SpecValue(S[k])))

\* The first-tag rule (RFC 8617 4.1, spec 4.1): an ARC field that
\* arc_process_set() accepts starts with i= and a positive decimal number,
\* which arc_eoh() then uses to place the field in the chain.
FirstTagIsInstance ==
  type \in ArcTypes /\ parsed.status = "OK" =>
    Then(Specs(type, toks), LAMBDA S :
      /\ S # <<>>
      /\ SpecName(S[1]) = <<"i">>
      /\ RefInstance(SpecValue(S[1])))
====
