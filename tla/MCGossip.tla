------------------------------ MODULE MCGossip ------------------------------
(***************************************************************************)
(* Small instances of Gossip.  n1 and n3 know n2 only (--peer); every      *)
(* client is a host of its own, except c2, which shares c1's.              *)
(***************************************************************************)
EXTENDS Gossip

CONSTANTS n1, n2, n3, c1, c2, c3, c4, h1, h2, h3, recA

MCHostOf == [c \in Clients |-> IF c = c4 THEN h3 ELSE IF c = c3 THEN h2 ELSE h1]
MCNonceBit == [n \in Nonces |-> n % 2]
MCBootstrap == [n \in Nodes |-> IF n = n2 THEN {} ELSE {n2}]

Lease(d, t, n, c) ==
    [domain |-> d, token |-> [issuedAt |-> t, nonce |-> n], client |-> c,
     probeAt |-> 0, records |-> NoRecords, recSig |-> None, signed |-> TRUE]

\* One name, registered at one node.
OneName == [n \in Nodes |-> IF n = n1 THEN {Lease(1, 0, 0, c1)} ELSE {}]

\* Two hosts register a name each at n1, and the first of them also the other name
\* at n3, so that n2 may wait for an answer of both, or miss both names, and the
\* first host exceeds its maximum.
Rivals ==
    [n \in Nodes |-> CASE n = n1 -> {Lease(1, 0, 0, c1), Lease(2, 0, 0, c3)}
                       [] n = n2 -> {}
                       [] n = n3 -> {Lease(2, 0, 1, c1)}]

\* The owner of a name sets its records at one node, or nobody does.
OneSet ==
    [n \in Nodes |-> IF n = n1 THEN {[client |-> c1, domain |-> 1, records |-> recA]} ELSE {}]
NoneSet == [n \in Nodes |-> {}]

\* Datagrams that hold k entries of any kind, or fewer rumors.
Fits(k, rumors) == [Digest |-> k, Request |-> k, Rumors |-> rumors]
AllFits == Fits(3, 3)
OneRumorFits == Fits(2, 1)

\* Each host has claims to more names than it may hold, and each name has claims
\* of two hosts: to the first the newer wins, which n2 asks for; to the third the
\* older, which no node asks for.
Crowded ==
    [n \in Nodes |-> IF n = n1 THEN {Lease(1, 1, 0, c1), Lease(3, 0, 0, c3)}
                     ELSE {Lease(1, 0, 1, c4), Lease(2, 0, 0, c2), Lease(2, 1, 0, c3),
                           Lease(3, 1, 0, c4)}]

\* The older of two claims to a name wins.
OlderWins ==
    [n \in Nodes |-> IF n = n1 THEN {Lease(1, 0, 0, c1)} ELSE {Lease(1, 1, 0, c3)}]
=============================================================================
