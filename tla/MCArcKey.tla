------------------------------ MODULE MCArcKey ------------------------------
(* Constants of ArcKey for TLC: key records to edit, the a= values of a    *)
(* signature, the resolver's answers and the key sizes around the minimum. *)
EXTENDS ArcKey, MCArcTagParser

MCKeyWordInfo ==
  MCWordInfo @@
  ("sha1" :> Name("s", "sha1")) @@ ("sha256" :> Name("s", "sha256")) @@
  ("SHA256" :> Name("S", "sha256")) @@ ("md5" :> Name("m", "md5")) @@
  ("email" :> Name("e", "email")) @@ ("*" :> Wd("*", FALSE, "none", FALSE, "*")) @@
  ("rsa-sha1" :> Name("r", "rsa-sha1")) @@ ("RSA-SHA1" :> Name("R", "rsa-sha1"))

MCKeyWords == DOMAIN MCKeyWordInfo

\* "v=DKIM1;h=sha1:sha256;s=email;k=rsa;p=MIIB" and "v=DKIM1;p="
MCKeySeeds ==
  { [type |-> "KEY", toks |-> Join(<<Tag("v", <<"DKIM1">>),
                                     Tag("h", <<"sha1", Colon, "sha256">>),
                                     Tag("s", <<"email">>), Tag("k", <<"rsa">>),
                                     Tag("p", <<"MIIB">>)>>)],
    [type |-> "KEY", toks |-> Join(<<Tag("v", <<"DKIM1">>), Tag("p", <<>>)>>)] }

\* the ARC field texts of MCArcTagParser and three key records, each kind
\* edited with its own alphabet
MCAllSeeds == MCSeeds \cup MCKeySeeds
MCKeyEditTokens ==
  [t \in SetTypes |-> CASE t = "KEY"       -> {Sp, Semi, Colon, "SHA256", "md5", "*", "h"}
                        [] t = "SIGNATURE" -> {Sp, Semi, Eq, Colon, "ARC-Seal", "0", "-1"}
                        [] OTHER           -> MCArcEditTokens]

MCAlgs == {<<"rsa-sha256">>, <<"RSA-SHA1">>, <<"rsa">>, NULL}

\* ARC_DEFAULT_MINKEYSIZE (arc.h) and the sizes either side of it
MCMinKeyBits == 1024
MCKeyBits == {1023, 1024}
====
