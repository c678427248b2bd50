------------------------------ MODULE Registry ------------------------------
(***************************************************************************)
(* One node's registry: the RegistryStore with its LivenessTracker, driven *)
(* by the client API (binda-core api.rs) and by gossip (node.rs), all of   *)
(* them under the node's store mutex.                                      *)
(*                                                                         *)
(* An action has one clock reading: the readings a handler takes while it  *)
(* works on one map are microseconds apart.  The register handler tests    *)
(* liveness anew at every stage, and walks a HashMap in arbitrary order,   *)
(* so it is one action per stage and the clock may move between them; pc   *)
(* says which stage is next while it holds the mutex.  Requests that are   *)
(* refused before anything changes (a bad signature, a stale timestamp, an *)
(* unverified hostname, a client that is not live, records for a name the  *)
(* client does not hold) leave the state alone.                            *)
(***************************************************************************)
EXTENDS Store

CONSTANTS
    Freshness,  \* REQUEST_FRESHNESS_WINDOW_MILLIS
    PeerRumors, \* rumors peers may deliver, in any order and any number of times
    MaxTime     \* bound: the last clock reading considered

ASSUME FreshnessAssumption == Freshness \in Nat /\ MaxTime \in Nat
ASSUME PeerRumorsAssumption == PeerRumors \subseteq Rumor

VARIABLES
    now,        \* TimeSource::now_millis
    regs,       \* registrations
    claims,     \* quota_claims
    seen,       \* liveness.last_seen_millis
    counts,     \* liveness.registration_counts
    evidence,   \* probe_evidence: the last probe's signed timestamp
    pc,         \* stage of the request that holds the mutex
    req,        \* that request
    todo        \* hosts the running reclaim_stale has still to reconcile

vars == <<now, regs, claims, seen, counts, evidence, pc, req, todo>>
store == <<regs, claims, seen, counts, evidence>>

Request == [client : Clients, domain : Domains]

\* The maps hold what their Rust types say; a reclaim_stale under way only ever
\* has hosts to visit.
TypeOK ==
    /\ now \in Nat
    /\ regs \in [Domains -> Registration \cup {None}]
    /\ claims \in [Hosts -> [Domains -> Rumor \cup {None}]]
    /\ seen \in [Hosts -> Nat \cup {None}]
    /\ counts \in [Hosts -> Nat]
    /\ evidence \in [Clients -> Nat \cup {None}]
    /\ pc \in {"idle", "reclaim", "reconcile", "attach", "dead"}
    /\ req \in Request \cup {None}
    /\ todo \subseteq Hosts

\* RegistryStore::new
Init ==
    /\ now = 0
    /\ regs = [d \in Domains |-> None]
    /\ claims = [h \in Hosts |-> [d \in Domains |-> None]]
    /\ seen = [h \in Hosts |-> None]
    /\ counts = [h \in Hosts |-> 0]
    /\ evidence = [c \in Clients |-> None]
    /\ pc = "idle"
    /\ req = None
    /\ todo = {}

-----------------------------------------------------------------------------
(* Liveness: LivenessTracker                                               *)

\* is_live
IsLive(host) == seen[host] # None /\ Elapsed(now, seen[host]) <= Window

\* Mutants: a host that has just been forgotten may still register; a live
\* host may register without limit.
MutantCountOnly(host) == counts[host] < MaxRegs
MutantLiveOnly(host) == IsLive(host)

\* can_register
CanRegister(host) == IsLive(host) /\ counts[host] < MaxRegs

\* expired_clients
Expired == {h \in Hosts : seen[h] # None /\ Elapsed(now, seen[h]) > Window}

\* client_api::is_fresh
IsFresh(ts) == Elapsed(now, ts) <= Freshness /\ Elapsed(ts, now) <= Freshness

-----------------------------------------------------------------------------
(* The client API                                                          *)

\* handle_probe: record_probe, the probe evidence, refresh_probe_evidence.
HandleProbe(c, ts) ==
    /\ pc = "idle"
    /\ IsFresh(ts)
    /\ seen' = [seen EXCEPT ![HostOf[c]] = now]
    /\ evidence' = [evidence EXCEPT ![c] = ts]
    /\ regs' = [d \in Domains |-> RefreshedReg(regs[d], c, ts)]
    /\ claims' = [h \in Hosts |-> [d \in Domains |-> Refreshed(claims[h][d], c, ts)]]
    /\ UNCHANGED <<now, counts, pc, req, todo>>

\* handle_register, up to the liveness test that opens RegistryStore::register.
HandleRegister(c, d) ==
    /\ pc = "idle"
    /\ IsLive(HostOf[c])
    /\ pc' = "reclaim"
    /\ req' = [client |-> c, domain |-> d]
    /\ UNCHANGED <<now, store, todo>>

\* Mutant: the slots of the expired hosts are freed, their names are not.
MutantReclaimStale ==
    /\ pc = "reclaim"
    /\ regs' = regs
    /\ seen' = [h \in Hosts |-> IF h \in Expired THEN None ELSE seen[h]]
    /\ counts' = [h \in Hosts |-> IF h \in Expired THEN 0 ELSE counts[h]]
    /\ todo' = {h \in Hosts : \E d \in Domains : claims[h][d] # None}
    /\ pc' = "reconcile"
    /\ UNCHANGED <<now, claims, evidence, req>>

\* reclaim_stale, up to its loop over the hosts of quota_claims.  (A host whose
\* claims are all gone has no replicated registration left for reconcile_quota
\* to drop: RegistrationBackedByClaim.)
ReclaimStale ==
    /\ pc = "reclaim"
    /\ regs' = [d \in Domains |->
                  IF regs[d] # None /\ regs[d].host \in Expired THEN None ELSE regs[d]]
    /\ seen' = [h \in Hosts |-> IF h \in Expired THEN None ELSE seen[h]]
    /\ counts' = [h \in Hosts |-> IF h \in Expired THEN 0 ELSE counts[h]]
    /\ todo' = {h \in Hosts : \E d \in Domains : claims[h][d] # None}
    /\ pc' = "reconcile"
    /\ UNCHANGED <<now, claims, evidence, req>>

\* reconcile_quota(h) on a store whose quota_claims[h] is hostClaims.
ReconcileQuota(h, hostClaims) ==
    LET admitted == Admitted(hostClaims, now)
    IN /\ claims' = [claims EXCEPT ![h] = admitted]
       /\ regs' = Install(regs, h, admitted)

\* One iteration of reclaim_stale's loop, in arbitrary order.
ReconcileNext(h) ==
    /\ pc = "reconcile"
    /\ h \in todo
    /\ ReconcileQuota(h, claims[h])
    /\ todo' = todo \ {h}
    /\ UNCHANGED <<now, seen, counts, evidence, pc, req>>

\* register refuses: the name is held, or can_register fails.
Refuse ==
    /\ pc = "reconcile"
    /\ todo = {}
    /\ regs[req.domain] # None \/ ~ CanRegister(HostOf[req.client])
    /\ pc' = "idle"
    /\ req' = None
    /\ UNCHANGED <<now, store, todo>>

\* register succeeds: the registration is in, without a rumor yet.
Issue(nonce) ==
    /\ pc = "reconcile"
    /\ todo = {}
    /\ regs[req.domain] = None
    /\ CanRegister(HostOf[req.client])
    /\ regs' = [regs EXCEPT ![req.domain] =
                  [client |-> req.client, host |-> HostOf[req.client],
                   token |-> [issuedAt |-> now, nonce |-> nonce],
                   records |-> NoRecords, rumor |-> None]]
    /\ counts' = [counts EXCEPT ![HostOf[req.client]] = @ + 1]
    /\ pc' = "attach"
    /\ UNCHANGED <<now, claims, seen, evidence, req, todo>>

\* The lease handle_register builds from the registration it has just made.
NewRumor(c, d) ==
    [domain |-> d, token |-> regs[d].token, client |-> c, probeAt |-> evidence[c],
     records |-> NoRecords, recSig |-> None, signed |-> TRUE]

\* handle_register: the lease is built and attach_rumor puts it through
\* reconcile_quota.  The mutex is still held, so the registration is still the
\* exact one attach_rumor looks for.
AttachRumor ==
    /\ pc = "attach"
    /\ evidence[req.client] # None
    /\ LET h == HostOf[req.client]
       IN ReconcileQuota(h, [claims[h] EXCEPT ![req.domain] =
                                NewRumor(req.client, req.domain)])
    /\ pc' = "idle"
    /\ req' = None
    /\ UNCHANGED <<now, seen, counts, evidence, todo>>

\* handle_register: the client has no probe of its own, expect() panics and the
\* client API's task is gone.  The mutex is released by the unwinding.
Panic ==
    /\ pc = "attach"
    /\ evidence[req.client] = None
    /\ pc' = "dead"
    /\ req' = None
    /\ UNCHANGED <<now, store, todo>>

\* handle_set_records by the client the name is registered to.
HandleSetRecords(c, d, recs) ==
    /\ pc = "idle"
    /\ regs[d] # None
    /\ regs[d].client = c
    /\ regs' = [regs EXCEPT ![d] = WithRecords(@, recs)]
    /\ claims' = [h \in Hosts |->
                    [claims[h] EXCEPT ![d] = WithRecordEvidence(@, c, recs)]]
    /\ UNCHANGED <<now, seen, counts, evidence, pc, req, todo>>

-----------------------------------------------------------------------------
(* Gossip and the clock                                                    *)

\* adopt_rumor of a rumor that passes its two checks.
AdoptRumor(r) ==
    /\ pc \in {"idle", "dead"}
    /\ IsAuthorized(r)
    /\ LeaseIsLive(r, now)
    /\ LET h == HostOf[r.client]
       IN ReconcileQuota(h, [claims[h] EXCEPT ![r.domain] = r])
    /\ UNCHANGED <<now, seen, counts, evidence, pc, req, todo>>

\* NtpTimeSource::now_millis: time passes, or a new NTP offset sets it back.
Clock ==
    /\ \/ now < MaxTime /\ now' = now + 1
       \/ now > 0 /\ now' = now - 1
    /\ UNCHANGED <<store, pc, req, todo>>

Next ==
    \/ \E c \in Clients, ts \in 0 .. MaxTime : HandleProbe(c, ts)
    \/ \E c \in Clients, d \in Domains : HandleRegister(c, d)
    \/ ReclaimStale
    \/ \E h \in Hosts : ReconcileNext(h)
    \/ Refuse
    \/ \E nonce \in Nonces : Issue(nonce)
    \/ AttachRumor
    \/ Panic
    \/ \E c \in Clients, d \in Domains, recs \in Records : HandleSetRecords(c, d, recs)
    \/ \E r \in PeerRumors : AdoptRumor(r)
    \/ Clock

Spec == Init /\ [][Next]_vars

-----------------------------------------------------------------------------
(* Invariants                                                              *)

Held(h) == {d \in Domains : regs[d] # None /\ regs[d].host = h}
Unreplicated(h) == {d \in Held(h) : regs[d].rumor = None}
Claimed(h) == {d \in Domains : claims[h][d] # None}

\* reconcile_quota leaves no host more than MaxRegs admitted claims, however
\* many of them clients and peers bring in and in whatever order.
ClaimsWithinCap == \A h \in Hosts : Cardinality(Claimed(h)) <= MaxRegs

\* A replicated registration always has an admitted claim of its host behind it,
\* with its client, token, probe and signatures, which probes and set-records
\* requests write in both maps.  The records are the one field that drifts: a
\* SetRecords rewrites the registration's and not the claim's.  A claim left
\* behind like that is not authorized, so reconcile_quota can drop the name
\* (LiveOwnerKeepsDomain) but never goes back from it to the outdated records.
RegistrationBackedByClaim ==
    \A d \in Domains : Replicated(regs[d]) => Backs(claims[regs[d].host][d], regs[d])

\* What the resolver and the DNS listener serve for a replicated name, and what
\* gossip forwards, is exactly what its owner signed.
ServedRecordsAreSigned == \A d \in Domains : Replicated(regs[d]) => ServesSigned(regs[d])

\* registration_counts covers at least the registrations that only this node
\* knows of, and never exceeds the cap.
UnreplicatedWithinCount ==
    \A h \in Hosts : Cardinality(Unreplicated(h)) <= counts[h] /\ counts[h] <= MaxRegs

\* The bound that register and reconcile_quota do enforce together.
HostWithinTwiceCap == \A h \in Hosts : Cardinality(Held(h)) <= 2 * MaxRegs

\* A registration without a lease of its own can only be released by
\* reclaim_stale, so its host must still be in last_seen_millis: the name of a
\* host that was forgotten meanwhile would be held for ever.
NoOrphans ==
    \A d \in Domains :
        regs[d] # None /\ regs[d].rumor = None => seen[regs[d].host] # None

\* A name never passes from one host to another except by winning the
\* arbitration against the claim it displaces.
CollisionsAreArbitrated ==
    [][\A d \in Domains :
         regs[d] # None /\ regs'[d] # None /\ regs'[d].host # regs[d].host =>
             NegotiateLocally(regs[d].token, regs'[d].token) = regs'[d].token]_vars

\* The reasons the code has to take a registered name away.
HostExpired(h) == h \in Expired
ClaimUnauthorized(h, d) == claims[h][d] # None /\ ~ IsAuthorized(claims[h][d])
LeaseExpired(h, d) == claims[h][d] # None /\ ~ LeaseIsLive(claims[h][d], now)
CapReached(h) == Cardinality({e \in Domains : claims'[h][e] # None}) >= MaxRegs

\* A name becomes free only because its host has gone silent, because the
\* evidence for its claim no longer stands or has run out, or because its host
\* holds the maximum without it.
LossHasCause ==
    [][\A d \in Domains :
         regs[d] # None /\ regs'[d] = None =>
             LET h == regs[d].host
             IN HostExpired(h) \/ ClaimUnauthorized(h, d) \/ LeaseExpired(h, d)
                  \/ CapReached(h)]_vars

-----------------------------------------------------------------------------
(* What the documentation says and the code does not do                    *)

\* "a maximum of 5 live registrations per forward-confirmed host allocation",
\* whenever the store's mutex is free
HostCap == pc = "idle" => \A h \in Hosts : Cardinality(Held(h)) <= MaxRegs

\* handle_register: expect("live registrations have a signed probe")
LiveRegistrationsHaveProbe == pc = "attach" => evidence[req.client] # None

\* "a domain stays yours as long as you respond to a liveness probe within a
\* minute": a host that is live, whose lease is live and whose claims do not
\* fill the cap without this name keeps it.
LiveOwnerKeepsDomain ==
    [][\A d \in Domains :
         regs[d] # None /\ regs'[d] = None =>
             LET h == regs[d].host
             IN HostExpired(h) \/ LeaseExpired(h, d) \/ CapReached(h)]_vars
=============================================================================
