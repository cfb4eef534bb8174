--------------------------- MODULE MCVLANInjection ---------------------------
(* Instances of VLANInjection.  int has 16 bits, so that names of four       *)
(* characters overflow it.                                                   *)
EXTENDS VLANInjection

Int16 == 32768

\* "cp", "md-0", "w-pb" and "cp-ab"; the hashes of the last two are negative.
FewNames == {<<99, 112>>, <<109, 100, 45, 48>>, <<119, 45, 112, 98>>,
             <<99, 112, 45, 97, 98>>}

\* "bq" and "jj".
TwoNames == {<<98, 113>>, <<106, 106>>}

Network(family, octet, prefix) ==
    [family |-> family, hi |-> "10.8.0", octet |-> octet, prefix |-> prefix]

FewSubnets == {Network("IPv4", 0, 16), Network("IPv4", 0, 24),
               Network("IPv4", 5, 24), Network("IPv4", 128, 26),
               Network("IPv6", 0, 32), Network("invalid", 0, 0)}

OneSubnet == {Network("IPv4", 0, 24)}

UpTo(n) == UNION {[1..k -> Kinds \ {"entry"}] : k \in 0..n}

FewDocuments == [lines : UpTo(4), closed : BOOLEAN]

OneDocument == [lines : {<<"other", "runcmd", "item">>}, closed : {TRUE}]
=============================================================================
