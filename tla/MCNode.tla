------------------------------- MODULE MCNode -------------------------------
(***************************************************************************)
(* A node, the demo client and one other client on the same host, of which *)
(* only the other's address forward-confirms.                              *)
(***************************************************************************)
EXTENDS Demo

CONSTANTS c1, c2, h1, recA

\* "x.y"
MCDomainText == <<<<120, 46, 121>>>>
MCHostOf == [c \in Clients |-> h1]
MCNonceBit == [n \in Nonces |-> n % 2]

\* "1" is the only text of an IPv4 address.
MCIpv4Text == <<49>> :> <<203, 0, 113, 42>>
MCIpv6Text == <<58>> :> [i \in 1 .. 16 |-> 0]

\* An A record, one whose address does not parse, and an MX, an AAAA and a TXT
\* record, and a CNAME whose target is no name.
MCRecordsOf ==
    (NoRecords :> <<>>)
      @@ (recA :> <<[type |-> "A", ttl |-> 300, value |-> <<49>>],
                    [type |-> "A", ttl |-> 60, value |-> <<50>>],
                    [type |-> "MX", ttl |-> 60, value |-> <<49, 48, 32, 122>>],
                    [type |-> "AAAA", ttl |-> 60, value |-> <<58>>],
                    [type |-> "TXT", ttl |-> 60, value |-> <<97, 98, 99>>],
                    [type |-> "CNAME", ttl |-> 60, value |-> <<97, 46>>]>>)

Header(id, questions) == <<id, 256, questions, 0, 0, 0>>

\* Queries for x.y of any type, with a label that is spelled "x.y", and for z;
\* two questions; a name cut short; an identifier only; and nothing.
MCDnsQueries ==
    {Header(7, 1) \o <<1, 120, 1, 121, 0, 255, 1>>,
     Header(8, 1) \o <<3, 120, 46, 121, 0, 16, 1>>,
     Header(9, 1) \o <<1, 122, 0, 1, 1>>,
     Header(10, 2), Header(11, 1) \o <<2, 120>>, <<12>>, <<>>}

\* The resolver's answer with records recA may be too large for a datagram.
MCFits(reply) == reply.proto = "resolve" => reply.records # recA

\* README.md:143.
DemoWords ==
    <<"--gossip", "127.0.0.1:9530", "--resolver", "127.0.0.1:9531", "--api", "127.0.0.1:9532",
      "--dns", "127.0.0.1:9533", "--insecure-skip-rdns-verification">>

\* A node that verifies, told twice where to gossip.
VerifyingLine ==
    <<"--verbose", "--dns", "127.0.0.1:9533", "--gossip", "192.0.2.1:9530",
      "--gossip", "192.0.2.2:9530", "--peer", "192.0.2.1:9530">>

\* The start: also a resolver where the client API is by default, a flag without its
\* value, and a value that is no address.
MCCommandLines ==
    {DemoWords, VerifyingLine,
     <<"--insecure-skip-rdns-verification", "--resolver", "127.0.0.1:9532">>,
     <<"--api">>,
     <<"--dns", "127.0.0.1:9533", "--dns", "localhost">>}

MCAddresses ==
    {"127.0.0.1:9530", "127.0.0.1:9531", "127.0.0.1:9532", "127.0.0.1:9533",
     "192.0.2.1:9530", "192.0.2.2:9530", "0.0.0.0:9530", "0.0.0.0:9531", "0.0.0.0:9532"}

\* Of these, one for gossip and one for the client API.
MCRefusable == {"0.0.0.0:9530", "127.0.0.1:9532"}

MCCovers ==
    [a \in MCAddresses |->
        CASE a = "0.0.0.0:9530" -> {a, "127.0.0.1:9530", "192.0.2.1:9530", "192.0.2.2:9530"}
          [] a = "0.0.0.0:9531" -> {a, "127.0.0.1:9531"}
          [] a = "0.0.0.0:9532" -> {a, "127.0.0.1:9532"}
          [] OTHER -> {a}]

MCDefaultAddr ==
    [l \in Listeners \ {"dns"} |->
        CASE l = "gossip" -> "0.0.0.0:9530"
          [] l = "resolver" -> "0.0.0.0:9531"
          [] l = "api" -> "0.0.0.0:9532"]
=============================================================================
