--------------------------- MODULE MCArcTagParser ---------------------------
(* Constants of ArcTagParser for TLC: a word alphabet and one well-formed *)
(* text of each kvset type.                                                *)
EXTENDS ArcTagParser

\* a word: its first character, isalnum() of it, its strtoll() class,
\* whether it reads as 0, and its lower-case form
Wd(f, an, n, z, lc) == [first |-> f, alnum |-> an, num |-> n, zero |-> z, fold |-> lc]
Name(f, lc) == Wd(f, TRUE, "none", FALSE, lc)

MCWordInfo ==
  ("i" :> Name("i", "i")) @@ ("I" :> Name("I", "i")) @@
  ("cv" :> Name("c", "cv")) @@ ("b" :> Name("b", "b")) @@
  ("s" :> Name("s", "s")) @@ ("d" :> Name("d", "d")) @@
  ("a" :> Name("a", "a")) @@ ("h" :> Name("h", "h")) @@
  ("bh" :> Name("b", "bh")) @@ ("c" :> Name("c", "c")) @@
  ("k" :> Name("k", "k")) @@ ("p" :> Name("p", "p")) @@
  ("v" :> Name("v", "v")) @@
  ("1" :> Wd("1", TRUE, "digits", FALSE, "1")) @@
  ("0" :> Wd("0", TRUE, "digits", TRUE, "0")) @@
  ("-1" :> Wd("-", FALSE, "negative", FALSE, "-1")) @@
  ("none" :> Name("n", "none")) @@ ("rsa-sha256" :> Name("r", "rsa-sha256")) @@
  ("relaxed" :> Name("r", "relaxed")) @@ ("ex" :> Name("e", "ex")) @@
  ("sel" :> Name("s", "sel")) @@ ("sig" :> Name("s", "sig")) @@
  ("from" :> Name("f", "from")) @@ ("to" :> Name("t", "to")) @@
  ("ARC-Seal" :> Name("A", "arc-seal")) @@ ("DKIM1" :> Name("D", "dkim1")) @@
  ("rsa" :> Name("r", "rsa")) @@ ("MIIB" :> Name("M", "miib")) @@
  ("spf" :> Name("s", "spf")) @@ ("pass" :> Name("p", "pass")) @@
  ("hash" :> Name("h", "hash"))

MCWords == DOMAIN MCWordInfo

\* tag name n, '=', value v
Tag(n, v) == <<n, Eq>> \o v

\* "i=1;spf=pass", "i=1;a=rsa-sha256;cv=none;d=ex;s=sel;b=sig",
\* "i=1;a=rsa-sha256;c=relaxed;d=ex;s=sel;h=from:to;bh=hash;b=sig",
\* "v=DKIM1;k=rsa;p=MIIB"
Join(tags) == FoldLeft(LAMBDA acc, t : IF acc = <<>> THEN t ELSE acc \o <<Semi>> \o t,
                       <<>>, tags)
MCSeeds ==
  { [type |-> "AR",   toks |-> Join(<<Tag("i", <<"1">>), Tag("spf", <<"pass">>)>>)],
    [type |-> "SEAL", toks |-> Join(<<Tag("i", <<"1">>), Tag("a", <<"rsa-sha256">>),
                                      Tag("cv", <<"none">>), Tag("d", <<"ex">>),
                                      Tag("s", <<"sel">>), Tag("b", <<"sig">>)>>)],
    [type |-> "SIGNATURE",
     toks |-> Join(<<Tag("i", <<"1">>), Tag("a", <<"rsa-sha256">>),
                     Tag("c", <<"relaxed">>), Tag("d", <<"ex">>), Tag("s", <<"sel">>),
                     Tag("h", <<"from", Colon, "to">>), Tag("bh", <<"hash">>),
                     Tag("b", <<"sig">>)>>)],
    [type |-> "KEY",  toks |-> Join(<<Tag("v", <<"DKIM1">>), Tag("k", <<"rsa">>),
                                      Tag("p", <<"MIIB">>)>>)] }

MCArcEditTokens == {Sp, Semi, Eq, Colon, Ctl, "i", "I", "h", "1", "0", "-1", "ARC-Seal"}
MCEditTokens == [t \in SetTypes |-> MCArcEditTokens]
====
