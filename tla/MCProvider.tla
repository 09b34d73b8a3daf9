----------------------------- MODULE MCProvider -----------------------------
(***************************************************************************)
(* A small instance of Provider.                                           *)
(***************************************************************************)
EXTENDS Provider

ByProduct(auth, recursor, dnsdist) ==
    [auth |-> auth, recursor |-> recursor, dnsdist |-> dnsdist]

\* Blocks with these URLs and keys; a key of dnsdist comes with its URL.
WithSettings(authURLs, recursorURLs, recursorKeys) ==
    {[url |-> ByProduct(u, v, d[1]), key |-> ByProduct(k, l, d[2]), tls |-> "none"] :
        u \in authURLs, v \in recursorURLs, l \in recursorKeys,
        k \in {Null, Value("auth", "key", "block")},
        d \in {<<Null, Null>>, <<Value("dnsdist", "url", "block"), Null>>,
               <<Value("dnsdist", "url", "block"), Value("dnsdist", "key", "block")>>}}

\* Everything may be missing; what is empty or unknown is so at one product.
MCBlocks ==
    WithSettings({Null, Value("auth", "url", "block")}, {Null, Value("recursor", "url", "block")},
                 {Null, Empty, Value("recursor", "key", "block")})
    \cup
    WithSettings({Unknown}, {Null, Empty}, {Null, Value("recursor", "key", "block")})
    \cup
    {[url |-> ByProduct(Value("auth", "url", "block"), Null, Null),
      key |-> ByProduct(Value("auth", "key", "block"), Null, Null), tls |-> t] : t \in TLSFiles}

\* Both URLs or none, and either key.
MCEnvironments ==
    {[url |-> ByProduct(u[1], u[2], Empty), key |-> ByProduct(k, l, Empty)] :
        u \in {<<Empty, Empty>>, <<Value("auth", "url", "env"), Value("recursor", "url", "env")>>},
        k \in {Empty, Value("auth", "key", "env")},
        l \in {Empty, Value("recursor", "key", "env")}}

Of(f, units) == [family |-> f, units |-> units]

\* 192.0.2.1, its neighbour in the /20 but not in the /24, and others.
IPv4 == {Of("v4", <<192, 0, 2, 1>>), Of("v4", <<192, 0, 3, 1>>), Of("v4", <<10, 0, 2, 1>>)}

\* 2001:db8::1, one that differs in the fourth nibble, and ::ffff:192.0.2.1.
IPv6 ==
    {Of("v6", [i \in 1 .. 32 |-> IF i \in 1 .. 8 THEN <<2, 0, 0, 1, 0, 13, 11, 8>>[i]
                                 ELSE IF i = 32 THEN 1 ELSE 0]),
     Of("v6", [i \in 1 .. 32 |-> IF i \in 1 .. 8 THEN <<2, 0, 0, 2, 0, 13, 11, 8>>[i]
                                 ELSE IF i = 32 THEN 1 ELSE 0]),
     Of("v6", [i \in 1 .. 32 |-> IF i < 21 THEN 0 ELSE IF i < 25 THEN 15
                                 ELSE <<12, 0, 0, 0, 0, 2, 0, 1>>[i - 24]])}

MCCallAddresses == IPv4 \cup IPv6

MCCallPrefixes ==
    {[family |-> "v4", units |-> a.units, bits |-> b] : a \in IPv4, b \in {0, 8, 15, 16, 20, 24, 32}}
    \cup
    {[family |-> "v6", units |-> a.units, bits |-> b] : a \in IPv6, b \in {0, 12, 14, 16, 32, 96, 127, 128}}
=============================================================================
