------------------------------ MODULE MCFcrdns ------------------------------
(***************************************************************************)
(* Two addresses: an IPv4 address with two names of which one is a name    *)
(* of this address, and an IPv6 address whose name is an alias.            *)
(***************************************************************************)
EXTENDS Fcrdns

\* 10.2.3.254 and ::21
Host4 == <<10, 2, 3, 254>>
Host6 == [i \in 1 .. 16 |-> IF i = 16 THEN 33 ELSE 0]

Reverse4 == <<50, 53, 52, 46, 51, 46, 50, 46, 49, 48, 46>> \o InAddrArpa
Reverse6 == <<49, 46, 50, 46>> \o FlattenSeq([i \in 1 .. 30 |-> <<48, 46>>]) \o Ip6Arpa

\* a.m, b.m and c.m
NameA == <<97, 46, 109>>
NameB == <<98, 46, 109>>
NameC == <<99, 46, 109>>

Rr(type, data) == [type |-> type, data |-> data]

\* b.m is a name of the IPv4 address that leads elsewhere, c.m an alias of a.m.
MCZone ==
    (Reverse4 :> <<Rr(TypePtr, NameB), Rr(TypePtr, NameA)>>)
        @@ (Reverse6 :> <<Rr(TypePtr, NameC)>>)
        @@ (NameA :> <<Rr(TypeA, Host4), Rr(TypeAaaa, Host6)>>)
        @@ (NameB :> <<Rr(TypeA, <<10, 2, 3, 1>>)>>)
        @@ (NameC :> <<Rr(TypeCname, NameA)>>)

MCReverseName == (Host4 :> Reverse4) @@ (Host6 :> Reverse6)

\* "a.m", "A.m.", "b.m", "c.m", " a.m" and a name nobody has
MCClaims ==
    {NameA, <<65, 46, 109, 46>>, NameB, NameC, <<32>> \o NameA, <<120>>}
=============================================================================
