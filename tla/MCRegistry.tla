----------------------------- MODULE MCRegistry -----------------------------
(***************************************************************************)
(* Small instances of Registry.  Host h1 has the clients c1 and c2 (a      *)
(* rotated key or a respelled hostname), host h2 the client c3.            *)
(***************************************************************************)
EXTENDS Registry

CONSTANTS c1, c2, c3, h1, h2, recA

MCHostOf == [c \in Clients |-> IF c = c3 THEN h2 ELSE h1]
MCNonceBit == [n \in Nonces |-> n % 2]

Lease(d, t, c, p) ==
    [domain |-> d, token |-> [issuedAt |-> t, nonce |-> 0], client |-> c,
     probeAt |-> p, records |-> NoRecords, recSig |-> None, signed |-> TRUE]

\* Quota instances: h1 has registered names at other nodes.
QuotaRumors == {Lease(1, 0, c1, 0), Lease(2, 1, c2, 1), Lease(3, 1, c1, 1)}

\* One such name, of the client that also registers here.
OwnRumors == {Lease(1, 0, c1, 0)}

\* Collision instances: claims of both hosts on one name, one of them carrying
\* records, and a rumor whose records are not the ones that were signed.
CollisionRumors ==
    {[Lease(1, 0, c1, 0) EXCEPT !.records = recA, !.recSig = recA],
     Lease(1, 1, c3, 1),
     [Lease(1, 0, c3, 1) EXCEPT !.records = recA]}

\* The histories of the run Registry: in some the node hears of one host only, and
\* of no records; in the others it hears of one name only.
OneHost ==
    /\ seen'[h2] = None /\ evidence'[c3] = None
    /\ \A d \in Domains :
          claims'[h2][d] = None /\ (regs'[d] # None => regs'[d].records = NoRecords)
OneName ==
    /\ evidence'[c2] = None
    /\ req' # None => req'.domain = 1 /\ req'.client # c2
    /\ \A d \in Domains \ {1} : regs'[d] = None /\ \A h \in Hosts : claims'[h][d] = None

MCRumors == QuotaRumors \cup CollisionRumors

MCSpec == Init /\ [][Next /\ (OneHost \/ OneName)]_vars
=============================================================================
