------------------------------- MODULE Gossip -------------------------------
(***************************************************************************)
(* Anti-entropy gossip between nodes (crates/binda/src/node.rs, peers.rs;  *)
(* crates/binda-core/src/gossip.rs): a node pushes a digest of the names   *)
(* it holds to a peer, the peer requests what it is missing together with  *)
(* a conformance challenge, and adopts the rumors of an answer only if it  *)
(* answers the challenge that is outstanding for that peer.                *)
(*                                                                         *)
(* Each node's registrations and claims are those of module Store.  A      *)
(* client's request to a node is one step here (module Registry has the    *)
(* stages of a registration): the node's mutex is held throughout, every   *)
(* client is live at every node, and no lease runs out within MaxTime.  A  *)
(* client signs what it asks for.                                          *)
(*                                                                         *)
(* A challenge is known by a serial number, and answered by it: its tokens *)
(* are fresh random ones, so no other challenge has the same answer.  A    *)
(* serial is used again once no datagram and no node remembers it.         *)
(* Datagrams may be lost, duplicated and reordered.                        *)
(***************************************************************************)
EXTENDS Store, SequencesExt

CONSTANTS
    Nodes,
    Bootstrap,      \* Bootstrap[n]: the --peer addresses of node n
    LocalClaims,    \* LocalClaims[n]: leases clients obtain at node n
    Probers,        \* the clients that renew their leases
    LocalRecords,   \* LocalRecords[n]: what records clients set at node n
    Challenges,     \* bound: challenge serials
    MaxPending,     \* MAX_PENDING_CHALLENGES
    Fitting,        \* how many entries of each kind of message fit in a
                    \* datagram (MAX_DATAGRAM_BYTES)
    MaxNet,         \* bound: datagrams under way when a node pushes
    MaxTime,        \* bound: the last clock reading considered
    SlowLinks,      \* whether datagrams may outlast the push interval and the
                    \* challenge timeout
    Duplicates      \* whether a datagram may be delivered more than once

ASSUME HostsAssumption == IsFiniteSet(Hosts)
ASSUME ChallengesAssumption == Challenges \subseteq Nat
ASSUME BootstrapAssumption == Bootstrap \in [Nodes -> SUBSET Nodes]
ASSUME LocalClaimsAssumption ==
    /\ LocalClaims \in [Nodes -> SUBSET Rumor]
    /\ LocalRecords \in
         [Nodes -> SUBSET [client : Clients, domain : Domains, records : Records]]
    /\ Probers \subseteq Clients
ASSUME BoundsAssumption ==
    /\ MaxPending \in Nat \ {0} /\ MaxNet \in Nat /\ MaxTime \in Nat
    /\ Fitting \in [{"Digest", "Request", "Rumors"} -> Nat]
    /\ SlowLinks \in BOOLEAN /\ Duplicates \in BOOLEAN

\* No host falls silent and no lease runs out, so reclaim_stale forgets no host
\* here (module Registry has that).  No theorem rests on this.
ASSUME LeasesLastAssumption == MaxTime <= Window

VARIABLES
    now,        \* every node's clock
    regs,       \* regs[n]: registrations
    claims,     \* claims[n]: quota_claims
    counts,     \* counts[n]: registration_counts
    peers,      \* peers[n]: the PeerBook
    pending,    \* pending[n]: pending_challenges, in the order they were issued
    net,        \* datagrams under way
    uses        \* how often an answer to a challenge was accepted, for the properties

vars == <<now, regs, claims, counts, peers, pending, net, uses>>

Digest == [type : {"Digest"}, from : Nodes, to : Nodes, entries : [Domains -> Nat \cup {None}]]
Request == [type : {"Request"}, from : Nodes, to : Nodes, domains : SUBSET Domains,
            challenge : Challenges]
Rumors == [type : {"Rumors"}, from : Nodes, to : Nodes, rumors : SUBSET Rumor,
           answer : Challenges]

\* PendingChallenge and the address it is kept under
Pending == [peer : Nodes, challenge : Challenges, domains : SUBSET Domains]

TypeOK ==
    /\ now \in Nat
    /\ \A n \in Nodes :
        /\ \A d \in Domains : regs[n][d] \in Registration \cup {None}
        /\ \A h \in Hosts, d \in Domains : claims[n][h][d] \in Rumor \cup {None}
        /\ counts[n] \in [Hosts -> Nat] /\ peers[n] \subseteq Nodes
        /\ \A i \in 1 .. Len(pending[n]) : pending[n][i] \in Pending
    /\ \A m \in net :
        CASE m.type = "Digest" -> m.entries \in [Domains -> Nat \cup {None}]
          [] m.type = "Request" -> m \in Request
          [] OTHER -> m.rumors \subseteq Rumor /\ m.answer \in Challenges
    /\ \A c \in Challenges : uses[c] \in Nat

\* Node::new
Init ==
    /\ now = 0
    /\ regs = [n \in Nodes |-> [d \in Domains |-> None]]
    /\ claims = [n \in Nodes |-> [h \in Hosts |-> [d \in Domains |-> None]]]
    /\ counts = [n \in Nodes |-> [h \in Hosts |-> 0]]
    /\ peers = Bootstrap
    /\ pending = [n \in Nodes |-> <<>>]
    /\ net = {}
    /\ uses = [c \in Challenges |-> 0]

-----------------------------------------------------------------------------
(* Clients                                                                 *)

\* The store of a node, as one value.
StoreOf(n) == [claims |-> claims[n], regs |-> regs[n]]

\* What a step makes of node n's store.
NewStore(n, st) ==
    /\ claims' = [claims EXCEPT ![n] = st.claims]
    /\ regs' = [regs EXCEPT ![n] = st.regs]

\* reconcile_quota(h), on a store whose quota_claims[h] is hostClaims
Reconciled(st, h, hostClaims) ==
    LET admitted == Admitted(hostClaims, now)
    IN [claims |-> [st.claims EXCEPT ![h] = admitted],
        regs |-> Install(st.regs, h, admitted)]

\* The orders in which the elements of a finite set may be visited.
Orders(S) == {s \in [1 .. Cardinality(S) -> S] : {s[i] : i \in DOMAIN s} = S}

\* reclaim_stale, which visits the hosts in the order s.
Reclaimed(n, s) ==
    LET after[i \in 0 .. Len(s)] ==
            IF i = 0 THEN StoreOf(n)
            ELSE Reconciled(after[i - 1], s[i], after[i - 1].claims[s[i]])
    IN after[Len(s)]

\* LivenessTracker::can_register
CanRegister(n, h) == counts[n][h] < MaxRegs

\* A client obtains lease r at node n: register, which reclaims first and then
\* finds the name free, and attach_rumor.
Register(n, r) ==
    /\ r.token.issuedAt = now
    /\ LeaseIsLive(r, now)
    /\ CanRegister(n, HostOf[r.client])
    /\ \E s \in Orders(Hosts) :
         LET h == HostOf[r.client]
             st == Reclaimed(n, s)
             issued == [st.regs EXCEPT ![r.domain] = [FromRumor(r, h) EXCEPT !.rumor = None]]
         IN /\ st.regs[r.domain] = None
            /\ NewStore(n, Reconciled([st EXCEPT !.regs = issued], h,
                                      [st.claims[h] EXCEPT ![r.domain] = r]))
    /\ counts' = [counts EXCEPT ![n][HostOf[r.client]] = @ + 1]
    /\ UNCHANGED <<now, peers, pending, net, uses>>

\* register refuses client c the name d, for which it has reclaimed all the same.
RefuseRegister(n, c, d) ==
    /\ \E s \in Orders(Hosts) :
         /\ Reclaimed(n, s).regs[d] # None \/ ~ CanRegister(n, HostOf[c])
         /\ NewStore(n, Reclaimed(n, s))
    /\ UNCHANGED <<now, counts, peers, pending, net, uses>>

\* A client probes node n: handle_probe's refresh_probe_evidence.
Probe(n, c) ==
    /\ NewStore(n, [claims |-> [h \in Hosts |->
                                  [d \in Domains |-> Refreshed(claims[n][h][d], c, now)]],
                    regs |-> [d \in Domains |-> RefreshedReg(regs[n][d], c, now)]])
    /\ UNCHANGED <<now, counts, peers, pending, net, uses>>

\* A client sets the records of a name it holds at node n: set_records and
\* attach_record_evidence.
SetRecords(n, c, d, recs) ==
    /\ regs[n][d] # None
    /\ regs[n][d].client = c
    /\ NewStore(n, [claims |-> [h \in Hosts |->
                                  [claims[n][h] EXCEPT ![d] = WithRecordEvidence(@, c, recs)]],
                    regs |-> [regs[n] EXCEPT ![d] = WithRecords(@, recs)]])
    /\ UNCHANGED <<now, counts, peers, pending, net, uses>>

-----------------------------------------------------------------------------
(* Gossip                                                                  *)

\* How many entries a message lists.
Entries(m) ==
    CASE m.type = "Digest" -> Cardinality({d \in Domains : m.entries[d] # None})
      [] m.type = "Request" -> Cardinality(m.domains)
      [] m.type = "Rumors" -> Cardinality(m.rumors)

\* wire::encode and send_to: a message too large for a datagram is not sent.
Sent(m) == IF Entries(m) <= Fitting[m.type] THEN {m} ELSE {}

\* Nothing of an exchange between n and p is under way.
Quiet(n, p) == \A m \in net : {m.from, m.to} # {n, p}

\* The gossip push loop, for the peer it draws: all_rumors as digest entries.
GossipPush(n, p) ==
    /\ p \in peers[n]
    /\ SlowLinks \/ Quiet(n, p)
    /\ Cardinality(net) < MaxNet
    /\ net' = net \cup
         Sent([type |-> "Digest", from |-> n, to |-> p,
               entries |-> [d \in Domains |->
                              IF regs[n][d] = None THEN None ELSE regs[n][d].token.issuedAt]])
    /\ UNCHANGED <<now, regs, claims, counts, peers, pending, uses>>

\* What is left under way when m is received.
Taken(m) == IF Duplicates THEN {net, net \ {m}} ELSE {net \ {m}}

\* PeerBook::learn, of the sender of any well-formed message
Learn(m) == peers' = [peers EXCEPT ![m.to] = @ \cup {m.from}]

\* The names of a digest that node n asks for.
Missing(n, entries) ==
    {d \in Domains :
        /\ entries[d] # None
        /\ regs[n][d] = None \/ regs[n][d].token.issuedAt < entries[d]}

\* The serials no datagram and no node remembers, and the one taken next.
Fresh == {c \in Challenges :
            /\ \A m \in net : /\ m.type = "Request" => m.challenge # c
                              /\ m.type = "Rumors" => m.answer # c
            /\ \A n \in Nodes : \A i \in 1 .. Len(pending[n]) : pending[n][i].challenge # c}

NextFresh == CHOOSE c \in Fresh : \A e \in Fresh : c <= e

Outstanding(n, p) == {i \in 1 .. Len(pending[n]) : pending[n][i].peer = p}

\* The challenges of n but for the one p has yet to answer (there is one at most:
\* the map is keyed by the peer's address).
Without(n, p) ==
    IF Outstanding(n, p) = {} THEN pending[n]
    ELSE RemoveAt(pending[n], CHOOSE i \in Outstanding(n, p) : TRUE)

\* Mutant: room is made one challenge too late.
MutantRemember(n, e) ==
    Append(IF Outstanding(n, e.peer) = {} /\ Len(pending[n]) > MaxPending
           THEN Tail(pending[n]) ELSE Without(n, e.peer), e)

\* pending_challenges.insert: the peer's former challenge is replaced; when the
\* map is full and the peer has none, the oldest goes.
Remember(n, e) ==
    Append(IF Outstanding(n, e.peer) = {} /\ Len(pending[n]) >= MaxPending
           THEN Tail(pending[n]) ELSE Without(n, e.peer), e)

\* handle_gossip_message: Digest, when something is missing
HandleDigest(m) ==
    /\ m.type = "Digest"
    /\ Missing(m.to, m.entries) # {}
    /\ Fresh # {}
    /\ LET missing == Missing(m.to, m.entries)
           c == NextFresh
       IN /\ pending' = [pending EXCEPT ![m.to] =
                Remember(m.to, [peer |-> m.from, challenge |-> c, domains |-> missing])]
          /\ \E rest \in Taken(m) :
                net' = rest \cup Sent([type |-> "Request", from |-> m.to, to |-> m.from,
                                       domains |-> missing, challenge |-> c])
          /\ uses' = [uses EXCEPT ![c] = 0]
    /\ Learn(m)
    /\ UNCHANGED <<now, regs, claims, counts>>

\* handle_gossip_message: Digest, when nothing is
IgnoreDigest(m) ==
    /\ m.type = "Digest"
    /\ Missing(m.to, m.entries) = {}
    /\ net' \in Taken(m)
    /\ Learn(m)
    /\ UNCHANGED <<now, regs, claims, counts, pending, uses>>

\* handle_gossip_message: Request.  A registration without a rumor is not sent;
\* the challenge is always answered.
HandleRequest(m) ==
    /\ m.type = "Request"
    /\ LET held == {d \in m.domains : Replicated(regs[m.to][d])}
       IN \E rest \in Taken(m) :
            net' = rest \cup Sent([type |-> "Rumors", from |-> m.to, to |-> m.from,
                                   rumors |-> {regs[m.to][d].rumor : d \in held},
                                   answer |-> m.challenge])
    /\ Learn(m)
    /\ UNCHANGED <<now, regs, claims, counts, pending, uses>>

\* Mutant: the challenge stays outstanding after it was answered.
MutantForget(n, p) == pending[n]

\* pending_challenges.remove
Forget(n, p) == Without(n, p)

\* The answer is to the challenge outstanding for its sender, and brings only
\* what was asked for (is_valid_rumor_response).
Acceptable(m) ==
    \E i \in Outstanding(m.to, m.from) :
        /\ pending[m.to][i].challenge = m.answer
        /\ {r.domain : r \in m.rumors} \subseteq pending[m.to][i].domains

\* adopt_rumor
Adopt(st, r) ==
    LET h == HostOf[r.client]
    IN IF IsAuthorized(r) /\ LeaseIsLive(r, now)
       THEN Reconciled(st, h, [st.claims[h] EXCEPT ![r.domain] = r])
       ELSE st

\* The store of node n after it has adopted a sequence of rumors.
AdoptAll(n, s) ==
    LET after[i \in 0 .. Len(s)] ==
            IF i = 0 THEN StoreOf(n) ELSE Adopt(after[i - 1], s[i])
    IN after[Len(s)]

\* handle_gossip_message: Rumors, accepted
HandleRumors(m) ==
    /\ m.type = "Rumors"
    /\ Acceptable(m)
    /\ \E s \in Orders(m.rumors) : NewStore(m.to, AdoptAll(m.to, s))
    /\ pending' = [pending EXCEPT ![m.to] = Forget(m.to, m.from)]
    /\ uses' = [uses EXCEPT ![m.answer] = @ + 1]
    /\ net' \in Taken(m)
    /\ Learn(m)
    /\ UNCHANGED <<now, counts>>

\* handle_gossip_message: Rumors, discarded.  The outstanding challenge of the
\* sender, if there is one, is gone all the same.
DiscardRumors(m) ==
    /\ m.type = "Rumors"
    /\ ~ Acceptable(m)
    /\ pending' = [pending EXCEPT ![m.to] = Forget(m.to, m.from)]
    /\ net' \in Taken(m)
    /\ Learn(m)
    /\ UNCHANGED <<now, regs, claims, counts, uses>>

\* The maintenance task drops a challenge that was not answered in time.
ExpireChallenge(n, p) ==
    /\ Outstanding(n, p) # {}
    /\ SlowLinks \/ Quiet(n, p)
    /\ pending' = [pending EXCEPT ![n] = Forget(n, p)]
    /\ UNCHANGED <<now, regs, claims, counts, peers, net, uses>>

Lose(m) ==
    /\ net' = net \ {m}
    /\ UNCHANGED <<now, regs, claims, counts, peers, pending, uses>>

Tick ==
    /\ now < MaxTime
    /\ now' = now + 1
    /\ UNCHANGED <<regs, claims, counts, peers, pending, net, uses>>

\* One datagram reaches its node.  It is decoded and well formed: a datagram holds
\* fewer entries than is_well_formed admits, and a store has a name once.
Receive(m) ==
    \/ HandleDigest(m)
    \/ IgnoreDigest(m)
    \/ HandleRequest(m)
    \/ HandleRumors(m)
    \/ DiscardRumors(m)

Next ==
    \/ \E n \in Nodes : \E r \in LocalClaims[n] : Register(n, r)
    \/ \E n \in Nodes : \E r \in LocalClaims[n] : RefuseRegister(n, r.client, r.domain)
    \/ \E n \in Nodes, c \in Probers : Probe(n, c)
    \/ \E n \in Nodes : \E p \in LocalRecords[n] : SetRecords(n, p.client, p.domain, p.records)
    \/ \E n, p \in Nodes : GossipPush(n, p)
    \/ \E m \in net : Receive(m)
    \/ \E n, p \in Nodes : ExpireChallenge(n, p)
    \/ \E m \in net : Lose(m)
    \/ Tick

Spec == Init /\ [][Next]_vars

\* A datagram of one kind from one node to another.
ReceiveKind(type, n, p) == \E m \in net : m.type = type /\ m.from = n /\ m.to = p /\ Receive(m)

\* Every node draws each of its peers again and again (the push loop runs for
\* ever and draws at random), and of the datagrams of one kind sent again and
\* again over a link some arrive.
Fairness ==
    \A n \in Nodes : \A p \in Nodes \ {n} :
        /\ SF_vars(GossipPush(n, p))
        /\ \A type \in {"Digest", "Request", "Rumors"} : SF_vars(ReceiveKind(type, n, p))

FairSpec == Spec /\ Fairness

-----------------------------------------------------------------------------
(* Properties                                                              *)

\* An answer is applied at most once, whatever the network repeats.
AnswerUsedOnce == \A c \in Challenges : uses[c] <= 1

\* However many addresses send digests, a node waits for at most
\* MAX_PENDING_CHALLENGES answers, and for one per peer.
PendingBounded ==
    \A n \in Nodes :
        /\ Len(pending[n]) <= MaxPending
        /\ \A p \in Nodes : Cardinality(Outstanding(n, p)) <= 1

\* However many claims of a host nodes send each other, and in whatever order
\* they arrive, no node replicates more than MAX_REGISTRATIONS_PER_CLIENT names
\* of it.
ReplicasWithinCap ==
    \A n \in Nodes, h \in Hosts :
        Cardinality({d \in Domains : Replicated(regs[n][d]) /\ regs[n][d].host = h}) <= MaxRegs

\* Whatever clients ask of whichever node and peers forward, a node serves for a
\* replicated name what its owner signed, and has an admitted claim behind it that
\* differs in nothing but records left behind by a SetRecords, and then authorizes
\* nothing.
ReplicasAreClaims ==
    \A n \in Nodes, d \in Domains :
        Replicated(regs[n][d]) =>
            ServesSigned(regs[n][d]) /\ Backs(claims[n][regs[n][d].host][d], regs[n][d])

\* The claim a node has replicated for a name, if any.
Holds(n, d) == IF Replicated(regs[n][d]) THEN regs[n][d].token ELSE None

AgreedOn(d) == \A m, n \in Nodes : Holds(m, d) = Holds(n, d)

\* One node holds the claim that wins the arbitration, another a losing one that is
\* not older.  The other never asks for the winner: a digest entry makes a node
\* request a name only when it is strictly newer than what the node holds.
Standoff(d) ==
    \E m, n \in Nodes :
        /\ None \notin {Holds(m, d), Holds(n, d)}
        /\ Holds(m, d) # Holds(n, d)
        /\ NegotiateLocally(Holds(m, d), Holds(n, d)) = Holds(m, d)
        /\ Holds(m, d).issuedAt <= Holds(n, d).issuedAt

\* A node gave away the name without gossip, which then sends no claim to it.
Unreplicated(d) == \E n \in Nodes : regs[n][d] # None /\ ~ Replicated(regs[n][d])

\* A node counts against the maximum of the name's host a claim to another name,
\* which elsewhere, or there, another host holds.
Displaced(d) ==
    \E m, n \in Nodes, h \in Hosts, e \in Domains \ {d} :
        /\ Replicated(regs[m][d]) /\ regs[m][d].host = h
        /\ claims[n][h][e] # None
        /\ Cardinality({f \in Domains : claims[n][h][f] # None}) = MaxRegs
        /\ \E k \in Nodes : regs[k][e] # None /\ regs[k][e].host # h

\* Once clients stop registering, and where none sets records, all nodes come to
\* replicate the same claim to a name for good, also where a host's claims exceed its
\* maximum or claims compete for the name; the three exceptions are the ways in which
\* they do not.  (For digests, requests and answers that fit a datagram and are
\* answered in time.)
ReplicasAgree ==
    <>[](\A d \in Domains : AgreedOn(d) \/ Standoff(d) \/ Unreplicated(d) \/ Displaced(d))

-----------------------------------------------------------------------------
(* What the documentation says and the code does not do                    *)

\* A lease renewed at one node is renewed at every node that holds it ("This
\* makes expiry globally reproducible on the next gossip").
RefreshPropagates ==
    \A m, n \in Nodes, d \in Domains :
        [](Replicated(regs[m][d]) /\ regs[m][d].rumor.probeAt = MaxTime
           => <>(Replicated(regs[n][d]) /\ regs[n][d].rumor.probeAt = MaxTime))

\* "every replica computes the same outcome from the same pair", "some collisions
\* only resolve one node at a time as digests keep exchanging": in the end every
\* collision is resolved at every node.
CollisionsResolve == <>[](\A d \in Domains : AgreedOn(d))
=============================================================================
