-------------------------------- MODULE ArcKey --------------------------------
(***************************************************************************)
(* Key retrieval and signature verification of libopenarc                  *)
(* (src/libopenarc/arc.c): arc_parse_algorithm(), arc_get_key() with its   *)
(* checks arc_key_hashesok(), arc_key_hashok() and arc_key_smtp(), and     *)
(* arc_verify_hash().  arc_get_key() parses the DNS key record with        *)
(* arc_process_set(KEY), so the record text and its parse come from       *)
(* ArcTagParser: every state is a key record text.                         *)
(*                                                                         *)
(* The resolver and OpenSSL are the environment: what arc_get_key_dns()   *)
(* returns, whether p= and b= are base64, whether the decoded key is a DER *)
(* public key, its size in bits, and whether the RSA check passes.         *)
(***************************************************************************)
EXTENDS ArcTagParser

CONSTANTS
  Algs,         \* a= values (token sequences) of the signature, and NULL
  Fetches,      \* statuses arc_get_key_dns() may return
  MinKeyBits,   \* arcl_minkeysize
  KeyBits,      \* sizes EVP_PKEY_bits() may report
  Sha256Feature \* arc_libfeature(lib, ARC_FEATURE_SHA256)

ASSUME /\ "OK" \in Fetches
       /\ KeyBits \subseteq Nat
       /\ Sha256Feature \in BOOLEAN

\* the hashes and algorithms tables (arc-tables.c): arc_name_to_code()
\* compares names with strcasecmp(); "unknown" stands for its -1
HashCode(f) ==
  IF Len(f) = 1 /\ Info(f[1]).fold \in {"sha1", "sha256"} THEN Info(f[1]).fold
  ELSE "unknown"
KnownKeyType(v) == Len(v) = 1 /\ Info(v[1]).fold = "rsa"

\* arc_parse_algorithm(): a= gives the hash type, or BADALG
AlgCode(alg) == IF Len(alg) = 1 THEN Info(alg[1]).fold ELSE "?"
ParseAlgorithm(alg) ==
  IF alg = NULL THEN "BADALG"
  ELSE CASE AlgCode(alg) = "rsa-sha1"   -> "sha1"
         [] AlgCode(alg) = "rsa-sha256" -> "sha256"
         [] OTHER                       -> "BADALG"

\* arc_key_hashesok(): no h=, or h= names a hash the library supports
KeyHashesOk(v) ==
  \/ v = NULL
  \/ \E f \in HFields(v) : HashCode(f) # "unknown" /\ (HashCode(f) # "sha256" \/ Sha256Feature)

\* arc_key_hashok(): no h=, or h= names the signature's hash
KeyHashOkFirstOnly(v, ht) ==
  \/ v = NULL
  \/ HFields(v) # {} /\ HashCode(SplitBy(v, Colon)[1]) = ht
KeyHashOk(v, ht) ==
  \/ v = NULL
  \/ \E f \in HFields(v) : HashCode(f) = ht

\* arc_key_smtp(): no s=, or s= lists "*" or "email" (strcasecmp)
KeySmtp(v) ==
  \/ v = NULL
  \/ \E f \in HFields(v) : f = <<"*">> \/ Fold(f) = <<"email">>

KeyTag(n) == ParamGet(parsed.plist, <<n>>)

\* arc_get_key(msg, test) for a signature with hash type ht; keyB64:
\* arc_base64_decode() of p= succeeds.  The KEY set arc_process_set()
\* appends is the last one on the list, the one the checks read.
GetKey(fetch, ht, test, keyB64) ==
  IF fetch # "OK" THEN fetch
  ELSE IF toks = <<>> THEN "SYNTAX"
  ELSE IF parsed.status # "OK" THEN parsed.status
  ELSE IF KeyTag("v") # NULL /\ KeyTag("v") # <<"DKIM1">> THEN "SYNTAX"
  ELSE IF ~KeyHashesOk(KeyTag("h")) THEN "SYNTAX"
  ELSE IF ~test /\ ~KeyHashOk(KeyTag("h"), ht) THEN "CANTVRFY"
  ELSE IF ~KeySmtp(KeyTag("s")) THEN "CANTVRFY"
  ELSE IF KeyTag("k") = NULL \/ ~KnownKeyType(KeyTag("k")) THEN "SYNTAX"
  ELSE IF KeyTag("p") = NULL THEN "SYNTAX"
  ELSE IF KeyTag("p") = <<>> THEN "REVOKED"
  ELSE IF ~keyB64 THEN "SYNTAX"
  ELSE "OK"

\* what OpenSSL and the decoders do with the key and the signature
Crypto == [keyB64 : BOOLEAN, keyDer : BOOLEAN, bits : KeyBits,
           sigB64 : BOOLEAN, sigOK : BOOLEAN]

\* arc_verify_hash() after arc_parse_algorithm() (arc_validate_msg() and
\* arc_validate_seal()).  siglen is a size_t, so the test siglen < 0 after
\* arc_base64_decode() never holds; a b= that does not decode reaches
\* EVP_PKEY_verify() with a length it rejects.
VerifyHashMinKeyOffByOne(alg, fetch, c) ==
  LET ht == ParseAlgorithm(alg)
      gk == GetKey(fetch, ht, FALSE, c.keyB64)
  IN IF ht = "BADALG" THEN "BADALG"
     ELSE IF gk # "OK" THEN gk
     ELSE IF ~c.keyDer THEN "INTERNAL"
     ELSE IF c.bits <= MinKeyBits THEN "BADSIG"
     ELSE IF c.sigB64 /\ c.sigOK THEN "OK"
     ELSE "BADSIG"
VerifyHash(alg, fetch, c) ==
  LET ht == ParseAlgorithm(alg)
      gk == GetKey(fetch, ht, FALSE, c.keyB64)
  IN IF ht = "BADALG" THEN "BADALG"
     ELSE IF gk # "OK" THEN gk
     ELSE IF ~c.keyDer THEN "INTERNAL"
     ELSE IF c.bits < MinKeyBits THEN "BADSIG"
     ELSE IF c.sigB64 /\ c.sigOK THEN "OK"
     ELSE "BADSIG"

-----------------------------------------------------------------------------
(* Properties *)

\* the value of tag n in the record text (ArcTagParser's Specs), or NULL
SpecTag(n) ==
  Then(Specs("KEY", toks), LAMBDA S :
  Then({k \in DOMAIN S : SpecName(S[k]) = <<n>>}, LAMBDA K :
    IF K = {} THEN NULL ELSE SpecValue(S[CHOOSE k \in K : TRUE])))

\* spec 4.4 step 1 and RFC 6376 3.6.1: a record is usable for a signature
\* with hash ht when v= is absent or DKIM1, h= is absent or lists ht, s= is
\* absent or lists email or *, k= is absent or rsa, and p= is present,
\* non-empty and decodes
RefListed(v, names) == \E f \in HFields(v) : Len(f) = 1 /\ Info(f[1]).fold \in names
RefUsable(ht, keyB64) ==
  /\ SpecTag("v") \in {NULL, <<"DKIM1">>}
  /\ SpecTag("h") = NULL \/ RefListed(SpecTag("h"), {ht})
  /\ SpecTag("s") = NULL \/ RefListed(SpecTag("s"), {"email", "*"})
  /\ SpecTag("k") = NULL \/ (Len(SpecTag("k")) = 1 /\ Info(SpecTag("k")[1]).fold = "rsa")
  /\ SpecTag("p") \notin {NULL, <<>>}
  /\ keyB64

\* arc_get_key() accepts a record that parses exactly when the record is
\* usable for the signature's hash, and reports REVOKED only for an
\* empty p=.
KeyUsableIffSpec ==
  type = "KEY" /\ parsed.status = "OK" =>
    \A ht \in {"sha1", "sha256"}, b \in BOOLEAN :
      /\ GetKey("OK", ht, FALSE, b) = "OK" <=> RefUsable(ht, b)
      /\ GetKey("OK", ht, FALSE, b) = "REVOKED" => SpecTag("p") = <<>>

\* arc_verify_hash() accepts exactly when the key is usable, decodes to a
\* public key of at least the minimum size (spec 7: a key of exactly
\* MINKEYSIZE bits is accepted, one bit less rejected), and the signature
\* decodes and verifies; a fetch failure is passed on unchanged.
VerifyAcceptsIffSpec ==
  type = "KEY" =>
  \A alg \in Algs, f \in Fetches, b \in BOOLEAN :
    LET ht == ParseAlgorithm(alg) IN
    Then(f = "OK" /\ ht # "BADALG" /\ parsed.status = "OK" /\ RefUsable(ht, b),
         LAMBDA usable :
           \A c \in {c \in Crypto : c.keyB64 = b} :
             Then(VerifyHash(alg, f, c), LAMBDA v :
               /\ v = "OK" <=> /\ usable /\ c.keyDer /\ c.bits >= MinKeyBits
                              /\ c.sigB64 /\ c.sigOK
               /\ f # "OK" /\ ht # "BADALG" => v = f))

\* The text of a key record is data from the signer's domain; spec 4.1
\* classes a malformed record as a syntax error, so no record text makes
\* arc_get_key() return INTERNAL, which arc_eom() reports to the host as a
\* library failure.
KeyRecordNotInternal ==
  type = "KEY" =>
  \A ht \in {"sha1", "sha256"} : GetKey("OK", ht, FALSE, TRUE) # "INTERNAL"
====
