----------------------------- MODULE MCNetConfig -----------------------------
\* Three DHCP servers, one that does not sign, one that names no resolver, and two names.
EXTENDS NetConfig, TLC
CONSTANTS s1, s2, s3, a, b, c, n1, n2
MCPool == s1 :> {a} @@ s2 :> {b} @@ s3 :> {c}
MCSays == s1 :> {{"mask", "dns"}} @@ s2 :> {{"dns"}, {"gateway", "dns"}} @@ s3 :> {{"gateway"}}
==============================================================================
