# A TLA+ model of BINDA

BINDA is a naming system without registrars. A node keeps an in-memory registry
of domain names, clients keep a name by probing a node at least once a minute,
and nodes replicate their registries by gossip. This directory holds TLA+
modules translated from the Rust source (`crates/binda-core`, `crates/binda`),
the TLC configurations that check them on small instances, and proofs for TLAPS.
`PROJECT.json` maps each definition to the lines it models.

## Inventory

| Part | State | Operations | Interacts with |
|---|---|---|---|
| Registry store (`store.rs`) | `registrations`, `quota_claims`, `probe_evidence` | `register` (with `reclaim_stale`), `attach_rumor`, `set_records`, `attach_record_evidence`, `refresh_probe_evidence`, `adopt_rumor`, `reconcile_quota`, `lookup` | called under one mutex by the client API, gossip, resolver and DNS tasks |
| Liveness tracker (`liveness.rs`) | `last_seen_millis`, `registration_counts`, both per host | `record_probe`, `is_live`, `can_register`, `increment_registration`, `forget_client_by_key`, `expired_clients` | owned by the store |
| Collision arbitration (`collision.rs`, `token.rs`) | none | `resolve`, `mutually_derived_condition`, `negotiate_locally`; `Negotiation` is not used by the daemon | called by the store, and by gossip challenges |
| Client requests (`api.rs`, `client_api.rs`, `client.rs`) | none | `handle_probe`, `handle_register`, `handle_set_records`, `authenticate`, `is_fresh` | drives the store |
| Gossip (`gossip.rs`, `node.rs`, `peers.rs`) | peer book, pending challenges, datagrams under way | push loop, `handle_gossip_message` for Digest, Request and Rumors, expiry of challenges | drives the stores of other nodes through `adopt_rumor` |
| Rate limiter (`rate_limit.rs`, `node.rs`) | one token bucket per sender | `allow_at`, eviction, `prune_older_than` | before every listener; pruned by the maintenance task |
| Listeners (`node.rs`) | the datagrams in their sockets, the request in hand | `run_resolver`, `run_client_api`, `run_dns` | store, limiter, FCrDNS, DNS codec |
| NTP clock (`ntp.rs`) | an offset and a flag | `spawn`, `sync_once`, `query_offset_millis`, `now_millis` | read by the store |
| FCrDNS (`fcrdns.rs`) | the lookup under way | `verify`: PTR, A and AAAA queries to up to three resolvers each, with their parser | awaited by the client API before a register takes the mutex |
| DNS codec (`dns.rs`), domain names (`domain.rs`, `zone.rs`) | none | `parse_query`, `build_response`, `encode_rdata`, `DomainName::new` | the DNS listener |
| Wire format, resolver messages (`wire.rs`, `resolver.rs`) | none | JSON with a size limit | every listener |
| Command line (`main.rs`) | `Args`, the listener tasks | `parse_args_from`, `spawn_listener_tasks`, `main` | starts everything |
| Demo client (`examples/client_demo.rs`) | its next request | five requests with a read time-out | the client API, the resolver and DNS |

What is hard here is not any one function. One client request reads the clock
several times, and an NTP correction may set it back in between. Liveness and
counts are kept per host, evidence and ownership per client key. The same lease
is stored twice, in `registrations` and in `quota_claims`, and three operations
update both. Every node applies rumors in its own order, over UDP. One loop serves
the client API and waits up to eighteen seconds for classic DNS. Responses carry
no identifier. The full list, with lines, is under `hazards` in `PROJECT.json`.

What makes each part correct:

- *store*: no host above its cap, a claim behind every replicated name, which says
  what is served or authorizes nothing, what is served was signed by its owner, a name is taken away only for a stated reason and changes hands
  only by arbitration, and no name is held for ever;
- *gossip*: an answer is applied once and only when asked for, memory is bounded,
  and nodes end up with the same claims, but for the ways named below;
- *rate limiter*: bounded memory, and no sender gets more than its budget;
- *clock*: a reading is as exact as the exchange it rests on, and starting up does
  not take longer than the time-outs allow;
- *FCrDNS*: it accepts nothing classic DNS does not say, refuses what it says only
  for a reason, and always returns;
- *daemon*: names are held by confirmed hosts only, lookups wait for nobody, a
  request waits for verifications only, and both lookup protocols show what the
  client API acknowledged.

## Modules

    Collision -- Store -+- Registry -- MCRegistry        Throttle
                        +- Gossip -- MCGossip               ^ refines
           +- Dns (with Registry) -- Node -- Demo        RateLimiter -- MCRateLimiter
    Names -+                                  |
           +- Fcrdns -- MCFcrdns            MCNode       Ntp -- MCNtp

    StoreProofs -+- RegistryProofs -+- DemoProofs        RateLimiterProofs
                 +- DnsProofs ------+
                 |      +- FcrdnsProofs                  NtpProofs
                 +- GossipProofs

The modules with proofs build on each other: StoreProofs has the inductions the
others share, DnsProofs what is known of texts, labels and messages.

**Collision** models a token by its issuing time, the rank of its nonce and the
one bit of the nonce that `mutually_derived_condition` reads.

**Store** has the data types and the pure part of `reconcile_quota`. The sort and
the truncation are a rank: `Winners` are the live claims with fewer than
`MaxRegs` live claims before them. A hash map is a function with `None` for an
absent key. A signature is modelled by what it covers: `recSig` is the list of
records that was signed, so that `is_authorized` compares it with the list the
rumor carries. What probes and new records do to a claim and to a registration is
here too, for both modules that use it; `attach_record_evidence` gives a claim the
signature of the new records and leaves it the old ones (`WithRecordEvidence`). A client is an owner key with the hostname it claims; `HostOf` is
its quota key, and two clients of one host are a rotated key.

**Registry** is one node's store. `HandleProbe`, `HandleSetRecords` and
`AdoptRumor` are one action each. Registration is a chain of actions under the
mutex (`HandleRegister`, `ReclaimStale`, `ReconcileNext` per host in any order,
then `Refuse`, or `Issue` and `AttachRumor` or `Panic`), because the code tests
liveness against a new clock reading at each stage. `Clock` moves time forward
and back. Peers may deliver any of `PeerRumors` at any time and repeatedly.

**RateLimiter** counts tokens in integer units. The maintenance task is two
actions, `ReadPruneClock` and `PruneOlderThan`, because it reads the clock before
it waits for the locks. **Throttle** is the abstract specification: a level per
sender and no table. The refinement maps the level to what a bucket would hold
if refilled now.

**Gossip** has several nodes, each with the maps of Store, and a network that
loses, repeats and reorders datagrams. What a client asks of a node is one step
here, with all the handler does: `Register` and `RefuseRegister` begin with
`reclaim_stale`, which reconciles every host in any order; `registration_counts` is
raised by registrations and never lowered, since no host falls silent here; `Probe`
and `SetRecords` change both maps. The order in which a hash map is walked, or the
rumors of an answer are adopted, is any order (`Orders`).
A challenge is a serial number, reused once nothing remembers it; its answer is
the same number, since `expected_answer` returns a fresh random token. A message
with more entries than a datagram holds (`Fitting`) is not sent. A datagram cannot
hold `MAX_DIGEST_ENTRIES` entries in JSON, so `is_well_formed` never refuses what
these nodes send one another, and has no action.

**Ntp** is the thread that synchronises the clock. A query is five steps (sent,
received, answered, read and stored, flag raised), and time passes, and the local
clock drifts, between them. Timestamps cross the wire as seconds of one era and a
binary fraction, with the rounding and the saturation of the code. Looking up a
server's name takes time too, up to `Resolve`: the code sets no limit to it. Servers are
trusted, as the code trusts them: they keep true time, but may not answer.

**Names** has texts and labels: validation, splitting, the spellings of hostnames.
A character is a number, so that dots, blanks, capitals and control characters
can be told apart. **Dns** is the codec of the native lookup protocol; a message
is a sequence of cells, one for each field and each character of a label.

**Fcrdns** is one verification after another. Each query goes to the resolvers in
turn; a reply is any message a resolver that holds `Zone` may send, compressed or
not, an error, or something unusable: cut short, looping, or meant for another
query. The parser reads what came, pointers and all.

**Node** is the daemon around Registry: the command line, four listeners that bind
in any order, and the loops of three of them. `Bind` fails when a listener that is
up receives at the address or at part of it: `Covers` says which addresses a socket
receives for, so that the default 0.0.0.0 covers 127.0.0.1 with the same port. It may
also fail for a reason of the system, at any of the addresses in `Refusable`, which the
theorems leave open. A reply whose body `wire::encode` may refuse as too large (`Fits`)
is sent or is not. The client API has one request in
hand; while it waits for the verifier (`phase = "verify"`) the mutex is free, and
while a register goes through Registry's stages (`"locked"`) it is not. A panic
ends the task and the others go on. Whether the verifier confirms a client is a
constant here and the subject of Fcrdns; `MaxVerify` is the bound `VerifyBounded`
states there.
Peers have their own module: this node has none. **Demo** composes the daemon with
the demo client and with another client whose datagrams come at any time.

## Runs

Runs that pass:

| Run | Instance | Shows |
|---|---|---|
| `Registry` | two hosts, one of them with two clients, three names, cap 1, clock 0..2, window 1, six rumors of which one is badly signed; histories of one host, and histories of one name | `TypeOK`, `ClaimsWithinCap`, `UnreplicatedWithinCount`, `HostWithinTwiceCap`, `NoOrphans`, `RegistrationBackedByClaim`, `ServedRecordsAreSigned`, `LossHasCause`, `CollisionsAreArbitrated` |
| `RateLimiter` | three senders, room for two | `TypeOK`, `WithinRate`, `TableBounded`, `ForgetsOnlyQuietSenders`, `KeepsPromise` (refinement of Throttle) |
| `GossipExchange` | three nodes, two names, two hosts with cap 1 of which one has a name too many, one client that renews and one that sets records, one challenge at a time, one rumor to a datagram, slow and duplicating links | `TypeOK`, `AnswerUsedOnce`, `PendingBounded`, `ReplicasWithinCap`, `ReplicasAreClaims` |
| `GossipAgreement` | two nodes, only n1 knows n2; three hosts with more claims than cap 1, three names of which two are contested, one won by the newer claim and one by the older | `ReplicasAgree` |
| `Ntp` | two servers, time-out 2, look-ups of 1, seconds of three units in four fractions, an era that ends | `TypeOK`, `OffsetCorrects`, `SyncedMeansMeasured`, `PassBounded` |
| `Fcrdns` | an IPv4 and an IPv6 source, two resolvers, six claims, a zone with an alias and a name that leads elsewhere | `TypeOK`, `RepliesUnderstood`, `ConfirmedIsTrue`, `RefusalHasCause`, `VerifyBounded`, `QuotaFollowsHost`, `VerificationEnds` |
| `Node` | five command lines, one of them the documented session (README.md:143), the demo and another client on one host, one name, six records, two addresses that may be refused, an answer that may be too large | `SystemTypeOK`, `ListenersAsTold`, `HeldNamesWereConfirmed`, `ApiWaitBounded`, `DnsAnswerFaithful`, `DemoAnswersMatch`, `DemoSeesItsRecords`, `LookupsAnswered`, `DemoCompletes` |

Runs that show a disagreement between the code and what its documentation,
comments or assertions say (quotations under `findings`):

| Run | Property | What happens |
|---|---|---|
| `RegistryHostCap` | `HostCap` | a registration without a rumor survives `reconcile_quota` beside a full set of claims |
| `RegistryPanic` | `LiveRegistrationsHaveProbe` | a second key on a live host registers without a probe of its own: `expect` panics |
| `RegistryRecordsLoseName` | `LiveOwnerKeepsDomain` | publishing records replaces the claim's signature but not its records, so the next reconciliation drops the name |
| `GossipRefresh` | `RefreshPropagates` | digests carry issuing times only, so a renewal is never asked for |
| `GossipStandoff` | `CollisionsResolve` | of two claims to a name the older wins: the holder of the newer never asks for it, and the nodes differ for ever |

One more disagreement needs no run: `dns.rs:244` says "Echo the question section
verbatim", but the name is put together from the labels of the query and split again
at its dots, so the one label "x.y" is echoed as the two labels "x" and "y".
`DnsAnswerFaithful` therefore speaks of the labels of the name, not of those of the
query, and its run asks for a label so spelled.

**Bounds.** A cap of 1 with two or three names reaches every case of the quota
code: below, at and above the cap, and the truncation of a set of claims. Window
1 with readings 0 to 2 has live, just live and expired leases, and a clock that
steps back makes an expired one live again. Three names are needed for
`HostWithinTwiceCap` to be able to fail. `Registry` takes the histories of two kinds
only (`MCSpec`): those in which the node hears of one host and of no records, with all
three names and both keys of the host (the quota), and those in which it hears of one
name, with both hosts, records and all rumors (the collisions); `Freshness = 0` admits
only requests made at the node's own reading, and the clock may still be set back
between any two of them. In RateLimiter a request costs two units
and a tick regains one, so that half-filled buckets occur. `MaxNet` bounds the
datagrams under way when a node pushes, `Challenges` the serials outstanding; in
the liveness runs there are enough serials that a digest never waits for one.
`Probers` and `LocalRecords` say who renews leases and who sets which records where;
both are empty in `GossipAgreement`, since published records lose names
(`RegistryRecordsLoseName`) and the nodes then differ. `GossipExchange` has a client that
does both.
`MaxTime <= Window` in Gossip (`LeasesLastAssumption`), so no lease runs out there;
expiry is Registry's.
In Ntp three units against four fractions make both conversions round, and the
skews include clocks that are behind and ahead. In Fcrdns the zone has a name with
two PTR records, so that a later answer points into an earlier one, and an address
of each family. In Node the buffer of a socket holds two datagrams and the other
client sends two, which is enough to fill it; `Freshness = 0` makes every request
that waited for a verification stale, and `DemoTimeout = MaxVerify` makes the
demo's patience end just when a verification does. `Refusable` has one address of two
listeners, so that either may be missing while the others go on. Every DNS query of the set is
asked in every state of the registry (`DnsAnswerFaithful`).

**Fairness.** The push loop runs for ever and draws its peer at random, so
`GossipPush` is strongly fair for each known peer. A datagram kind that is sent
over a link again and again arrives again and again (strong fairness of
`ReceiveKind`); any single one may be lost. Clients, the clock, loss and expiry
have no fairness. `SlowLinks = FALSE` in the gossip liveness runs: an exchange
ends, or is lost, before the next push to that peer, which is at least one second
later (`GOSSIP_INTERVAL`). A disagreement found under this assumption is not due
to slow links. In Fcrdns only `NoAnswer` is weakly fair: `recv` has a read
time-out, so a query that no reply ends is ended by it. In Demo the daemon's tasks
and the demo are weakly fair, as threads that can run are; the verifier, the other
client and time are not, so `LookupsAnswered` holds though a verification never
ends, and `DemoCompletes` though time stands still. It excepts what the code does not
prevent: a client API that has panicked, a buffer others have filled, and records that
outgrow the datagram of the resolver's answer.

`ReplicasAgree` names three ways in which nodes do not agree, and its run meets
no other, where clients stop registering and set no records, and messages fit a datagram
and are answered in time. *Standoff*: of two
claims to a name the one that is not newer wins, and the holder of the other never
asks for it (`GossipStandoff`). *Unreplicated*: a registration whose host was over its
cap when its lease was attached stays without a rumor (`HostCap`) and keeps out the
claim another node holds. *Displaced*: a node counts against a host's cap a claim to
another name which has lost that name to another host, and so keeps fewer of the
host's names than its peers. Where the rumors of an answer do not fit in a datagram
the answer is never sent.

`CHECK_DEADLOCK FALSE` in `Node`: the demo ends, the other client falls silent and
the model's time runs out; a daemon with nothing to do waits. `RegistryPanic` may
leave the client API dead; gossip goes on, and so does the model.

## Proofs

TLAPS proves, for all values of the constants that satisfy the `ASSUME`s:

- `StoreProofs`: arbitration is symmetric and returns one of the two claims; the
  order of claims is a strict total order, and hence at most `MaxRegs` claims are
  admitted, whatever the input (`WinnersWithinCap`), and none is dropped unless
  `MaxRegs` older ones are admitted (`TruncationFillsCap`); what `Admitted` and
  `Install` leave in the two maps.
- `RegistryProofs`: `Spec => []P` for `TypeOK`, `ClaimsWithinCap`,
  `RegistrationBackedByClaim` (the two maps say the same of a replicated name, or the
  claim authorizes nothing), `ServedRecordsAreSigned`, `NoOrphans`,
  `UnreplicatedWithinCount` and `HostWithinTwiceCap`, and the action properties
  `CollisionsAreArbitrated` and `LossHasCause`.
- `GossipProofs`: `TypeOK`, `AnswerUsedOnce`, `PendingBounded`, `ReplicasWithinCap`
  and `ReplicasAreClaims`, and that the rumors under way are authorized.
- `RateLimiterProofs`: `TypeOK`, `TableBounded`, `WithinRate`, the action property
  `ForgetsOnlyQuietSenders`, and that RateLimiter implements Throttle.
- `NtpProofs`: `TypeOK`, `SyncedMeansMeasured`, `PassBounded` and
  `OffsetCorrects`.
- `DnsProofs`: every response of the native lookup protocol reads back as the
  question and the records it was built from (`ResponseReadsBack`), with what that
  rests on: splitting and joining are inverse, reading the labels of a name is the
  inverse of encoding them, and each answer begins where the one before it ends.
- `FcrdnsProofs`: `VerifyBounded`; and `TypeOK`, `ConfirmedIsTrue`, `RefusalHasCause`
  and `QuotaFollowsHost` under the condition `[]RepliesUnderstood`, which the run
  `Fcrdns` checks.
- `DemoProofs`: the node with its clients implements Registry
  (`NodeDrivesRegistry`), so the theorems about Registry hold of it
  (`RegistryGuarantees`); and of the node itself `SystemTypeOK`,
  `HeldNamesWereConfirmed`, `ListenersAsTold`, `DnsAnswerFaithful`,
  `DemoAnswersMatch`, `DemoSeesItsRecords` and `ApiWaitBounded`.

**Registry.** The inductive invariant joins its properties with two facts none of
them implies: a claim lies under its own domain (`Install` reads it by that key),
and a request under way is known and its registration is still there, and its own,
without a rumor when its lease is attached (`RequestPending`). `UnreplicatedWithinCount` is what makes twice the cap a bound:
a host's names are admitted claims, at most the cap, or unreplicated, at most the
count. `ReconcileFacts` states once what a reconciliation does to the registry;
`AttachRumor`, `AdoptRumor` and `ReconcileNext` all cite it. `LossHasCause` rests on
`TruncationFillsCap`: if fewer than `MaxRegs` claims were admitted, the oldest claim
that was not would have fewer than `MaxRegs` before it.

**Gossip.** Three invariants that the actions disturb separately: the challenges
and their answers, the stores, and the datagrams under way. A node has
one challenge outstanding for each peer at most, no two are alike, and none that is
outstanding has been answered. A store is one value, a member of the set
`Sound` (within the cap, what is served signed, a claim behind every replicated name),
so that adopting the rumors of a datagram one by one, and reconciling every host in
`reclaim_stale`, are folds that stay in `Sound`. A claim that `SetRecords` left with
old records under a new signature is the case that makes `Backs` more than an
equality: it holds as long as the claim then authorizes nothing.

**Rate limiter.** The invariant adds that no bucket and no reading of the
maintenance task lies in the future. The argument of the refinement: a bucket
that is pruned has been quiet for `PruneAge`, even as judged by an old reading,
and `PruneAge * Rate >= Burst`, so it was full, as a new one is. `WithinRate`
follows from a budget kept by every step: units granted plus units left never
exceed the burst, another burst for each time the sender was evicted, and the
refill of the time that has passed.

**Clock.** `OnSchedule` says that every server tried has cost the pass at most
one look-up and one timeout. `OffsetCorrects` needs `ExchangeTimed`: the first
timestamp is the start of the exchange by the local clock, give or take the drift,
and the server's two are times within the exchange. `RoundTrip` shows that a time
of this era loses at most one unit on the wire, which needs a second to have no
more units than fractions; the two legs then bound the offset from both sides
(`ReplyCloses`).

**DNS.** A message is read from its end: what stands at a position follows from
what stands after it, so a reader is a walk over positions that only goes forward
(`WalkExists`). `FlattenLayout` says where each piece of a message stands; that
labels read back (`ReadEncoded`) and answers too (`ReadAll`) is then an induction
over how many are left.

**FCrDNS.** Each resolver tried has cost a lookup at most one time-out, and each
lookup before it at most one for every resolver. What a verdict means is a matter of
the codec and of the protocol. The codec's part is one invariant,
`RepliesUnderstood`: of any datagram the parser makes nothing, or what classic DNS
holds. The protocol's part is proved from it, for any zone and any number of
resolvers. `Knows` says what a verification has learnt at each stage: the claim is
one of the names once its addresses are asked for, the addresses collected are the
claim's own, and each lookup passed has failed or has added all it was after. A claim
that matches a name without blanks has none (`NoBlanks`), so `normalize` and
`quota_key` agree on it.

**Node.** Every action of the node is a handler of Registry or leaves the store
alone, as long as the request that holds the mutex is the one in hand
(`MutexHeld`). The other properties have an invariant of their own:

- `Believed`: a Register whose verification is behind it, in hand or under the
  mutex, is of a client whose hostname was confirmed; reconciliation moves claims
  about but invents none.
- `Bound`: what `parse_args_from` makes of a command line, read as a fold over its
  words (`Followed`, `Told`): after each flag an address, and for each listener the
  value after the last of its flags, or its default. No two listeners that are up
  cover a common address: the second to bind would have failed.
- `OneInFlight`: what the demo has sent is in one queue, in the client API's hand
  or answered, and in one of these places only. The demo ends at its first
  time-out, so nothing older can be under way.
- `WaitAccounted`: a datagram has waited at most `MaxVerify` for each Register that
  was in front of it and no longer is, and for the verification under way what that
  has taken so far. Taking up a Register moves it from the queue to the
  verification and the sum stays the same; time passes only during a verification.
- `Origins`: each client speaks for itself, in a queue, in hand and under the mutex,
  and only the demo sets records.
- `Shows`: from the acknowledgement on, the demo's claims to its name are signed for
  its records and its registration holds them, through every reconciliation that
  another's request causes; without such requests the name stays its own. What the
  lookups then answer is `ResponseReadsBack` and the resolver's reply.

**Recursion.** The library's induction theorems take an operator as a parameter,
which the provers cannot instantiate. StoreProofs has induction over a *set* of
naturals, from its least element, and derives from it that a recursive function
over the rounds of a loop (`FoldExists`), or over the positions of a message
(`WalkExists`), exists and what holds of its values. The adoption of rumors, the
reading of a command line, the counting of a queue and the codecs rest on it.

**Assumptions.** Nonces are numbers and their bit is 0 or 1; domain names are
finitely many and numbered in their order; every client has a host; `None` differs
from every value; the table holds at least one key; a pruned bucket would have been
full (300 s at 10 a second against a burst of 20); a second has at least one unit
and no more units than fractions; the local clock is never before 1970; there is a
resolver, and a query's time-out is not zero. A command line is a sequence of
strings, and no flag is an address (`FlagsAssumption`); two sockets receive a common
datagram only if one was bound at an address the other covers (`CoversAssumption`); the demo and the other
client are two clients the registry knows, and the bounds are numbers. The names of
the registry are distinct, valid and in UTF-8, as `DomainName` values are
(`DomainTextAssumption`), the records clients send have the fields of `Record`, an
address in text has octets, and what a parser returns for a message it refuses is no
query (`MalformedAssumption`). Claimed hostnames are texts, addresses are octets, and
the names classic DNS gives an address have no blanks (`NamesAssumption`, for
`QuotaFollowsHost` only). The theorems
about Gossip do not rest on `LeasesLastAssumption`.

**Only model-checked.** `RepliesUnderstood`: it says what `read_name` makes of every
reply of every zone, with compression pointers that lead anywhere in the message; its
proof would need the layout of messages in which a name is spread over several
places, and limits on what a zone may hold (the lengths of labels, how deep the
pointers go).
`ReplicasAgree`, `VerificationEnds`, `LookupsAnswered` and `DemoCompletes` are
liveness, which is outside the prover's reach.

## Not modelled

`resolve_collision`, `clear_registrations`, `Negotiation`, `ZoneFile` with its
TOML form, `SystemTimeSource` and `MockTimeSource` have no caller in the daemon.
The rounding of the rate limiter's `f64`, whose tokens are exact here. A `recv_from`
that fails, which ends a listener. Replies of classic DNS that are cut short and say so
(TC=1), which `parse_response` reads as if they were complete: the resolvers of Fcrdns
send none, so `RefusalHasCause` does not speak of them.
JSON and byte order: a message decodes, or it is of another protocol. Labels of
more than 255 bytes in `encode_query`, whose length byte would wrap. The timestamps
of signed records. The daemon of module Node has no peers: what gossip does to a
store is Registry's `AdoptRumor`. Nothing is persisted, so a restart is a new node
with an empty store.

## Plan

1. *Proofs*: `RepliesUnderstood` for replies without compression, from the layout
   lemmas of DnsProofs, and then for those whose pointers lead back.
2. *Abstract registry*: a specification of names, owners and quotas that Registry
   implements.
3. *Negotiation*: the coin rounds, should the daemon come to use them.
