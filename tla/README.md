# TLA+ models of libopenarc

These modules model the ARC (RFC 8617) message engine of libopenarc. They
cover `src/libopenarc/arc.c` and `arc.h`, and they are checked with TLC.

## The system

libopenarc is a C library. The host (the openarc milter) creates one
`ARC_MESSAGE` per mail and drives it through a fixed sequence of calls on a
single thread:

    arc_message -> arc_header_field* -> arc_eoh -> arc_body* -> arc_eom
                -> [arc_set_cv] -> [arc_getseal] -> queries -> arc_free

Each part, with its state and operations:

| Part | Code | State | Operations |
|---|---|---|---|
| Message lifecycle and header intake | `arc_message`, `arc_free`, `arc_header_field`, `arc_parse_header_field` | `arc_state`, the list `arc_hhead` | create, free, take one header field |
| Tag-value parser | `arc_process_set`, `arc_add_plist`, `arc_check_uint`, `arc_param_get`, `arc_set_first/next` | kvset list `arc_kvsethead` | parse one ARC field into a kvset |
| Set assembly | `arc_eoh`, `arc_eoh_verify`, `arc_eoh_sign` | `arc_nsets`, `arc_sets[]`, `arc_cstate`, `arc_infail`, canonicalizations | compute N, check the cap of 50, slot the fields, detect duplicates and gaps, feed the seal canon |
| Chain validation | `arc_eom`, `arc_validate_msg`, `arc_validate_seal` | `arc_cstate`, `arc_oldest_pass`, `arc_infail` | verify AMS(N), scan the oldest-pass value, check each AS |
| Override and queries | `arc_set_cv`, `arc_chain_status[_str]`, `arc_chain_custody_str`, `arc_chain_oldest_pass` | `arc_cstate`, `arc_oldest_pass` | force the chain state, report it |
| Seal generation | `arc_getseal`, `arc_genamshdr`, `arc_getamshdr_d` | `arc_sealcanon`, `arc_sealhead` | build and sign AAR, AMS and AS for instance N+1 |
| Key retrieval and verification | `arc_get_key`, `arc_key_*`, `arc_verify_hash` | none per message | DNS lookup, key-record checks, RSA |
| Library options | `arc_init`, `arc_options`, `arc_libfeature` | `ARC_LIB` | configuration |
| Canonicalization | arc-canon.c, which is not under `src/` | canon objects | feed, finalize |

How the parts interact:
- The parser's verdicts decide `arc_cstate` at EOH.
- The set assembly decides what `arc_eom` can verify and what the seal canon contains.
- `arc_set_cv` and `arc_infail` decide what `arc_getseal` emits.

All of this state belongs to one message. Nothing runs concurrently inside a
message (spec section 5), so the hard behaviours are sequential:
- the order of API calls, including calls out of order;
- the order of the checks inside `arc_eom`;
- numeric edges of instance numbers, since `i=` is read with `strtoll` in one place and stored in an `unsigned int` in another;
- partial failure and retry of `arc_getseal`, at each point that leaves the seal canonicalization in a different state;
- state computed at EOH and used after a later override.

## Modules

### `ArcMessage.tla`: one message handle

**Variables.** The variables are named after the fields of `struct arc_msghandle`:
- `state`, `hdrs` (the ARC fields taken in, as a bag), `nsets`, `sets` (instance -> kind -> field or NULL);
- `cstate`, `infail`, `oldestPass`, `mode`, `sealCanon`;
- `seal`: the seal handed to the host;
- `vres`: the signature verdicts `arc_eom` saw;
- `status`: the status of the last call;
- `lastCall`, `eomStatus`;
- `crashed`: an invalid memory access.

**Actions.** There is one action per API call:
- `FreeAndNew`: `arc_free` followed by `arc_message`;
- `HeaderField` and `HeaderFieldSyntax`: `arc_header_field`;
- `Eoh`, `Body`, `Eom`, `SetCv` and `Getseal`;
- `ChainCustodyStr`.

Each action carries the guards, early returns and error paths of its
function. Helper definitions carry the smaller steps:
- `EohSetCount` (the MAX loop with `Trunc`), `Slottings`, `DuplicateMember` and `Incomplete` for the slot loops;
- `StopAms`, `StopAs` and `OldestPassAfter` for the two loops of `arc_eom`;
- `SealCanonAtGetseal`, `SealItems`, `SealFailStatus` and `SealCanonLeft` for `arc_getseal`.

`Getseal` fails at each point of `arc_getseal` where the seal canonicalization is left in a different state:
- the fresh canonicalization of a failed chain (`arc_add_canon`, `arc_canon_init`, 3377-3395), leaving it empty;
- the key and signing context, or the AAR and AMS, leaving it as it was;
- the AS stub, after `arc_canon_add_to_seal` (3644) fed the new AAR and AMS but before `arc_canon_getfinal` (3675), leaving them fed but not finalized;
- the AS signature, leaving it finalized.

Each point returns one of the statuses its code paths return (`SealFailStatus`). `Getseal` is only taken by a signing handle in state EOH or BODY. `arc_getseal` itself checks neither, but a handle that never ran `arc_eoh_sign` has no sign canonicalizations, and their behaviour is in arc-canon.c.

**Data abstraction.**
- **An ARC field** is a record. It holds its kind, the number its `i=` spells, and the parser outcome: `ok`, `bad_i` (failed after storing `i=`), `bad_noi` (failed before, e.g. first tag not `i=`) or `bad_c` (an AMS `arc_process_set` accepts but whose `c=` `arc_parse_canon_t` rejects; `arc_eoh_verify` then fails the chain without latching it and goes on with simple/simple, `BadCanon`). An AS also holds its `cv=`.
- **The intake list** is a bag. `arc_eoh` only depends on the order when it keeps the first of several duplicates, and a duplicate fails the chain anyway. `Slottings` therefore lets any duplicate be the one kept.
- **DNS and RSA** are the environment. Each signature `arc_eom` checks verifies (`OK`), fails (`BAD`: bad signature, missing key, syntax), or fails internally (`INTERNAL`: `arc_verify_hash`).
- **A canonicalization** is the sequence of ARC items fed to it. Its digest is fixed by the first get-final; later input is ignored (spec 4.2, "Digest finalization"). This part is modelled from the spec (`Feed`, `Finalize`, `ChainItems`), because arc-canon.c is not under `src/`.
- **What `EohSetCount` cannot represent.** A field's `i=` is the number it spells, so an `i=` that `arc_check_uint` rejects, such as `-1`, can only be `bad_i`. The MAX loop of `arc_eoh` (2989-2998) still runs `strtoul` on such a value. For `-1` that gives `UINT_MAX`, the cap and an `infail` latch; the model reaches those through large numbers instead.
- **Integer width.** `UINT_MOD` stands for 2^32. `Trunc(v) = v % UINT_MOD` is what `strtoul` into an `unsigned int` does.

**The caller.** `StrictCaller = TRUE` restricts the host to the documented order:
- header fields, then `arc_eoh`, `arc_body`, then `arc_eom` once;
- after an OK `arc_eom`: `arc_set_cv`, `arc_getseal` (retries allowed) and the queries.

`FALSE` lets the host call anything at any time, as the C API allows.

### `MCArcMessage.tla`

This module gives the constants for TLC. `MCFields` holds 12 fields:
- a correct two-set chain;
- a second seal with cv=none;
- a first seal with cv=pass;
- an AMS that fails to parse after `i=`;
- an AS without a leading `i=`;
- an AMS at instance 2 whose `c=` is not a canonicalization;
- an AAR at instance 3, which is over the cap.

`MCWrapFields` adds an instance equal to `UINT_MOD`.

**Bounds and why they are enough:**
- `MAXSETS = 2`: the cap of 50 is lowered to 2. Sealing at the cap, a set over the cap, and chains of one and two sets all fit in six fields.
- `MaxHdrs = 6`: six ARC fields, two complete sets.
- `UINT_MOD = 8`: the wrap-around at 2^32 scaled down. The passing runs use instances below 8, so truncation is the identity there.
- Every signature verdict is enumerated for every instance.

**Refinement.** The end of `ArcMessage.tla` maps the handle onto `ArcChain`
with `Abs == INSTANCE ArcChain WITH ...`:
- `phase` is `Phase`: `done` once `arc_eom` returned OK, `unusable` once it returned INTERNAL, `body` in states EOH and BODY, `intake` otherwise;
- `fields` is `hdrs`, `results` is `vres`, `latched` is `infail`;
- `verdict` is `cstate` once `arc_eom` returned OK, `NOTYET` before.

`ChainRefinement == Abs!Spec` is checked as a property. `RefStructOK` and `RefVerdict` are the abstract module's `StructOK` and `Verdict`.

### `ArcChain.tla`: what a message handle promises

This is the abstract specification, written from spec 4.3 and 7 and RFC 8617 5.2, with no set assembly, signature loops or seal. The host hands over ARC fields (`Take`) until the end of the header (`EndHeaders`, which latches a failure over the cap). The end of message then does one of two things:
- `Verify` publishes the RFC verdict on the fields and the signature results once; a fail verdict may latch;
- `Fault` (an internal error) leaves the message unusable.

`Override` changes the verdict unless a failure is latched. `New` starts the next message.

### `ArcHops.tla`: relays in a row

`ArcHops` EXTENDS `ArcMessage` and composes handles: the seal one relay gets is part of the message the next relay reads. Its variables are:
- `wire`: the ARC fields of the message in transit;
- `broken`: the instances whose AMS no longer matches the message;
- `hop`: the relays passed so far;
- `trusted` and `failedBefore`: history variables for the properties.

Its actions are these:
- `Receive`: the MTA's `arc_header_field` calls, one per field on the wire;
- `Eoh`, `Body`, `HopEom` and `Getseal`: the handle's own actions;
- `Forward`: add the seal, `arc_free`, and the next relay's `arc_message`;
- `Tamper`: the environment changes the message in transit.

The environment answers every DNS and RSA query. An AMS fails exactly when the message changed after it was signed; an AS never fails, since it covers only ARC fields (`WireResults`). The host calls no `arc_set_cv`.

`MCArcHops` allows five relays with the cap lowered to 3. That is enough to seal from an empty chain up to the cap, to reach a relay at the cap, and to deliver to one more. The sender may send no ARC fields, a one-set chain, a field without `i=`, or a set whose AMS does not parse. The field set and `MaxHdrs` also allow one set past the cap, so a relay that sealed past it would be seen by the next. The run stops at the last relay, where the message is delivered, so deadlock is not checked.

### `ArcTagParser.tla`: `arc_process_set`

`ProcessSet(type, text)` is the scanner of `arc_process_set`. It returns the
kvset's status and plist. Its parts:
- `ScanLoop` is the four-state character loop, one `Scan` step per token, stopping after the first tag of an AAR.
- `EndOfInput` is the switch after the loop. The empty tag at the end of the text is stored under its name *uncollapsed* (arc.c:1744-1752).
- `KindChecks` holds the per-type checks: required tags, `arc_check_uint`, `h=` not naming ARC-Seal, and the `q=`/`k=` defaults.
- `AddPlist`/`ParamGet` are `arc_add_plist`/`arc_param_get`. A duplicate is found by `strcasecmp` within the first-character bucket. A lookup uses `strcmp`.

**Data abstraction.** A text is a sequence of tokens:
- a word (a maximal run of non-separator characters);
- `Sp` (whitespace);
- `=`, `;`, `:`;
- `Ctl` (a non-printable character).

`WordInfo` records what the code looks at in a word: its first character, `isalnum`, its `strtoll` class, whether it reads as zero, and its lower-case form.

**States.** The variables `type`, `toks`, `edits` and `parsed` enumerate inputs. A behaviour starts from a well-formed seed text and applies up to `MaxEdits` token insertions, deletions or replacements. `parsed` is `ProcessSet` of the text.

**Evaluation.** `Then(x, F)` evaluates `x` once and applies `F`. The scan steps and the property helpers use it, so TLC evaluates each intermediate value once, also with profiling on.

### `ArcKey.tla`: `arc_get_key`, the key checks, `arc_verify_hash`

`ArcKey` extends `ArcTagParser`: a KEY text is a DNS key record. It defines:
- `GetKey(fetch, ht, test, keyB64)`: the checks of `arc_get_key` in the code's order;
- `KeyHashesOk`, `KeyHashOk` and `KeySmtp`;
- `ParseAlgorithm`;
- `VerifyHash(alg, fetch, crypto)`: `arc_verify_hash`, with the minimum key size. The OpenSSL context failures (2170-2204, INTERNAL) are left out; they are one more environment answer, and no property distinguishes them.

**The environment.** The resolver status (`Fetches`) and OpenSSL are inputs. `Crypto` records what OpenSSL reports: whether `p=`/`b=` decode, whether the key is DER, its bit size (`KeyBits`), and whether the RSA check passes.

**The reference.** `RefUsable` states RFC 6376 3.6.1 / spec 4.4 on the tag specs of the text (`SpecTag`). It does not go through the plist.

### `ArcLib.tla`: the library instance

**Variables** (fields of `ARC_LIB`): `flags`, `tmpdir`, `fixedtime`, `minkeysize`, `queryinfo`, `signre`/`hdrre`, `oversign`, `flsize`/`flist`, `resolver`.

**Ownership.** The two owned resources are tracked by identity:
- `hdrre` is `zero`, `compiled` or `freed`;
- `live` is the set of oversign arrays allocated and not yet freed;
- `fault` records a free of something not allocated.

**Actions.** `Init` is `arc_init`. Then there is one action per `arc_options` case:
- `OptFlags`, `OptTmpDir`, `OptFixedTime`, `OptMinKeySize`, `OptTestKeys`, `OptSignHdrs`, `OptOverSign`;
- `OptUnknown`, the `default: assert(0)` that `ARC_OPTS_SIGNATURE_TTL` reaches.

The remaining actions are `SetDns` and `Close`. The environment's failures are inputs:
- a wrong `valsz`;
- a header list too long for the pattern buffer;
- `regcomp` failing;
- `arc_copy_array` failing.

`LibFeature(fc, beyond)` is `arc_libfeature`. `beyond` stands for whatever the word after the feature list holds.

### `MCArcTagParser.tla`, `MCArcKey.tla`, `MCArcLib.tla`

These modules give the constants.

**`MCArcTagParser`** defines a 31-word alphabet and four seeds: an AAR, an AS, an AMS and a key record.

**`MCArcKey`** adds:
- the hash, service and algorithm words;
- two key records: `v=DKIM1;h=sha1:sha256;s=email;k=rsa;p=MIIB` and a revoked `v=DKIM1;p=`;
- an edit alphabet per kvset type;
- `a=` values `rsa-sha256`, `RSA-SHA1`, `rsa` and none;
- key sizes 1023 and 1024 around `ARC_DEFAULT_MINKEYSIZE`.

**`MCArcLib`** takes one option value and the feature codes 0, 1, 31, 32 and 64. These are the words before and after the list's end for 32-bit words.

**Bounds and why they are enough:**
- **`MaxEdits = 2`.** One edit reaches each single fault: a duplicate tag, a leading tag other than `i=`, a sign or zero in `i=`, whitespace in a name or value, a missing or extra `;` or `=`, a control character. Two edits reach the pairs: a duplicate of a different case, an empty trailing tag, `h=` listing both hashes with one changed.
- **Key sizes.** The two key sizes are the two sides of the `<` against the minimum.
- **`MaxAllocs = 3`.** This bounds the oversign arrays allocated over a behaviour. It is enough for a SET, a replacing SET and a failing copy after them.

## Runs

| Run | Expect | Properties | What it shows |
|---|---|---|---|
| verify_chain | pass | TypeOK, OldestPassCorrect, VerdictSound, InfailSticky, ChainRefinement | Every assembly of up to six fields (382,366 states), including an AMS whose `c=` does not parse, and every combination of verdicts gives the RFC 8617 verdict and oldest-pass. A latched failure survives `arc_set_cv(UNKNOWN/FAIL)`. Every behaviour of the handle is a behaviour of `ArcChain`. |
| seal_chain | violation | SealCoversChain | A seal should sign exactly the sets of the chain it extends, plus its own. A retry of `arc_getseal` after a failure between `arc_canon_add_to_seal` and `arc_canon_getfinal` (`arc_getamshdr_d`, `arc_canon_signature`) feeds the new AAR and AMS a second time. The purge at 3465 clears only the seal header list. The AS then signs AAR, AMS, AAR, AMS, AS, which no validator hashes. |
| parse_key | pass | TypeOK, KeptTags, FirstTagIsInstance, KeyUsableIffSpec, VerifyAcceptsIffSpec | This covers every text within two edits of the seeds (119,161 states). A text that parses keeps every tag under its name. An ARC set starts with a valid `i=`. `arc_get_key` accepts exactly the records RFC 6376 makes usable for the hash. `arc_verify_hash` accepts exactly a usable key of at least MINKEYSIZE bits with a verifying signature. |
| relay_hops | pass | HopTypeOK, HopPassSurvives, FailIsForever, ChainExtends | A message passes five relays (cap 3), each verifying and sealing with its own handle, and may be changed in transit (1,853 states). `arc_getseal` may fail at every point except the AS stub, which `seal_chain` covers; retries there grow the canonicalization without bound. A relay's cv=none/pass seal is passed by the next relay when nothing changed, and it leaves a structurally valid chain. No relay ever seals past the cap. Once a relay has found the chain failed, no later relay passes it, even when the newest AMS verifies. |
| lib_options | pass | LibTypeOK, ResourcesOwned, FailedSetLeavesLibrary | Over every sequence of option calls with failing inputs, the library never frees twice and leaks nothing at close. A failed call other than SIGNHDRS changes nothing. |
| wrap_instance | violation | NoCrash | `i=4294967296` is stored as 0, and `arc_eoh` indexes `arc_sets[UINT_MAX]`. |
| first_seal_fail | violation | FirstSealSaysNone | A lone field without a leading `i=` is sealed at i=1 with cv=fail. |
| custody_after_override | violation | NoCrash | `arc_set_cv(PASS)` on an incomplete chain, then `arc_chain_custody_str`, dereferences NULL. The same call on a complete chain whose AMS failed to parse after `i=` reads d= through a stale `hdr_data` (`StaleHdrData`), which may also fault. |
| unknown_cv | violation | SealCvValid | After `arc_set_cv(ARC_CHAIN_UNKNOWN)`, `arc_getseal` writes `cv=unknown`, a value RFC 8617 does not define. |
| key_record_internal | violation | KeyRecordNotInternal | A key record with a repeated tag makes `arc_get_key` return INTERNAL, not SYNTAX. |
| options_abort | violation | OptionsNeverAbort | `arc_options(ARC_OPTS_SIGNATURE_TTL)`, a key `arc.h` declares, reaches `assert(0)`. |
| lib_feature | violation | LibFeatureOnlyAdded | `arc_libfeature` tests `idx > flsize`. A code in the word just past the list reads beyond it. |

The reference definitions work on the input as sent. One helper is shared with the modelled code: `RefListed` splits a key record's `h=`/`s=` value with `HFields`, the `:` split that `KeyHashesOk` and `KeyHashOk` also use. No mutant touches `HFields`, so a mutant of the code never changes a reference at the same time. The references are:
- `RefStructOK`, `RefVerdict`, `RefOldestPass` and `RefSealScope` (RFC 8617);
- `Specs`, `RefInstance` and `RefUsable` (RFC 6376 tag lists and key records).

Each property of a passing run has a mutant in `PROJECT.json`, a plausible slip in the code:
- the cap tested late (also breaks ChainRefinement: the latch is set at `arc_eom`, not at `arc_eoh`);
- oldest-pass at the failing instance;
- the cv= check for instance 0;
- `arc_set_cv` ignoring `arc_infail`;
- a value not collapsed;
- no duplicate check;
- no sign test in `arc_check_uint`;
- `h=` matched on its first hash only;
- the key size tested with `<=`;
- no default tmpdir;
- SIGNHDRS keeping `arcl_signre` set after freeing;
- a scalar option copied before its size check;
- for `relay_hops`: the getseal cap tested with `>` (HopTypeOK, HopPassSurvives, ChainExtends), the cv= check for instance 0 (HopPassSurvives), the seal loop without its cv= test (`StopAsNoCv`, FailIsForever).

**Divergences met but not kept as runs.** The runs are capped at twelve. Each of these was found by TLC and is recorded as a hazard in `PROJECT.json`:
- an AS with `i=4294967297` completes set 1, and the chain passes (VerdictSound);
- after `arc_eom` returns INTERNAL, `arc_getseal` still seals with cv=none;
- `arc_eom` before `arc_eoh` reports chain none;
- a key record ending in `p =` has its empty tag stored as `p ` and is SYNTAX, not REVOKED;
- a bad signature fails the chain without latching `arc_infail`, against spec 4.3 step 4 (`FailureLatches`, run retired for `relay_hops`; RFC 8617 has no latch).

## Fairness and liveness

No fairness is assumed, and no liveness property is stated. The refinement `ChainRefinement` is a safety property only (`Abs!Spec` has no fairness conjunct). The host drives every step of a message and of the library, and it may stop at any time. Nothing in the library happens on its own: there are no threads, timers or callbacks apart from the resolver wait, which is modelled as the verdict of a check.

Deadlock is handled per module:
- **`ArcMessage`** checks deadlock: `FreeAndNew` is always enabled.
- **`ArcTagParser`/`ArcKey`** enumerate inputs, so the run stops when the edits are used up (`CHECK_DEADLOCK FALSE`).
- **`ArcLib`** ends at `arc_close`, which leaves no valid call.
- **`ArcHops`** stops at the last relay, which delivers the message (`CHECK_DEADLOCK FALSE`). Nothing forces a relay to forward, so no liveness is claimed: a relay may keep the message, and its host may stop.

## Not modelled, and why

- **Header field text, tag layout and line wrapping** (`arc_genamshdr`, `arc_getamshdr_d`). These are formatting, and no property here is about them.
- **RSA, base64 and DNS.** These are the environment of `ArcKey` and `ArcMessage`: each is the result it returns. `arc_get_key_dns` and the resolver live in arc-dns.c, which is not under `src/`.
- **The key record's `t=` flags** (`arc_get_key` after the base64 decode). They set message flags that no modelled call reads.
- **Allocation and canon-init failures in `arc_eoh`** (`arc_eoh_verify`, `arc_eoh_sign`, `arc_canon_init`, `arc_canon_runheaders`). Their effect on a later `arc_eom` depends on the state arc-canon.c leaves the canons in, and that file is not under `src/`. The `c=` parse failure is modelled (`bad_c`).
- **The `h=` list of a generated AMS.** An oversign list of empty strings leaves a trailing `:`. This is recorded as a hazard; it is text generation, which no module models.
- **Canonicalization** (arc-canon.c is not under `src/`). It is modelled from the spec as the item sequence.
- **`config.h`.** It holds declarations only; the configuration code (conf.c) is not under `src/`.
- **Composition of parser and message.** `ArcMessage` uses the parser's outcome classes (`ok`, `bad_i`, `bad_noi`). `ArcTagParser` shows which texts give which outcome, but no module composes the two.

## Plan for further work

1. **Parser into message.** Derive `ArcMessage`'s parse classes from `ProcessSet` on the fields' texts.
2. **DNS and crypto failures between relays.** `ArcHops` has no `INTERNAL` or missing-key answer, so a relay's retry or tempfail is not modelled.
