------------------------------- MODULE Store -------------------------------
(***************************************************************************)
(* The data of a node's RegistryStore and the pure parts of its operations *)
(* (crates/binda-core/src/store.rs, with the rumor of gossip.rs and the    *)
(* quota key of client.rs).                                                *)
(*                                                                         *)
(* A HashMap is a function with None for an absent key.  A client is one   *)
(* identity, an owner key together with the rdns spelling it claims; the   *)
(* many-to-one HostOf is quota_key(), so two clients of one host stand for *)
(* a rotated key as well as for a respelled hostname.  A signature is      *)
(* modelled by what it covers: signed says that a rumor's client_key,      *)
(* registration signature and probe signature verify, recSig is the list   *)
(* of records its set-records signature was made over.                     *)
(***************************************************************************)
EXTENDS Collision, FiniteSets

CONSTANTS
    Domains,    \* domain names, numbered in their Ord order
    Hosts,      \* canonical forward-confirmed hostnames (quota subjects)
    Clients,    \* client identities
    HostOf,     \* quota_key() of each client
    Records,    \* the record lists clients publish
    NoRecords,  \* the empty list
    None,       \* an absent value
    MaxRegs,    \* MAX_REGISTRATIONS_PER_CLIENT
    Window      \* LIVENESS_WINDOW

ASSUME DomainsAssumption == Domains \subseteq Nat /\ IsFiniteSet(Domains)
ASSUME HostOfAssumption == HostOf \in [Clients -> Hosts]
ASSUME RecordsAssumption == NoRecords \in Records /\ None \notin Records
ASSUME NumbersAssumption == MaxRegs \in Nat /\ Window \in Nat

\* RegistrationRumor.  A rumor lives under its own domain, so the domain is
\* the key it is stored with.
Rumor == [domain : Domains, token : Token, client : Clients, probeAt : Nat,
          records : Records, recSig : Records \cup {None}, signed : BOOLEAN]

\* Registration
Registration == [client : Clients, host : Hosts, token : Token,
                 records : Records, rumor : Rumor \cup {None}]

ASSUME NoneAssumption ==
    None \notin Rumor /\ None \notin Registration /\ None \notin Nat

\* u64::saturating_sub: a time in the future is no time ago.
Elapsed(now, since) == IF now > since THEN now - since ELSE 0

\* RegistrationRumor::is_authorized
IsAuthorized(r) ==
    /\ r.signed
    /\ IF r.recSig = None THEN r.records = NoRecords ELSE r.recSig = r.records

\* store::lease_is_live
LeaseIsLive(r, now) == Elapsed(now, r.probeAt) <= Window

\* The order reconcile_quota sorts by: token key, then domain.
ClaimBefore(a, b) ==
    \/ KeyLeq(a.token, b.token) /\ a.token # b.token
    \/ a.token = b.token /\ a.domain < b.domain

\* The claims of one host that survive the first retain.
LiveClaims(hostClaims, now) ==
    {d \in Domains : /\ hostClaims[d] # None
                     /\ IsAuthorized(hostClaims[d])
                     /\ LeaseIsLive(hostClaims[d], now)}

\* Mutant: truncate keeps one claim too many.
MutantTruncate(hostClaims, now) ==
    LET live == LiveClaims(hostClaims, now)
    IN {d \in live : Cardinality({e \in live : ClaimBefore(hostClaims[e], hostClaims[d])})
                        <= MaxRegs}

\* The first MaxRegs of them.
Winners(hostClaims, now) ==
    LET live == LiveClaims(hostClaims, now)
    IN {d \in live : Cardinality({e \in live : ClaimBefore(hostClaims[e], hostClaims[d])})
                        < MaxRegs}

\* What reconcile_quota leaves in quota_claims[host].
Admitted(hostClaims, now) ==
    [d \in Domains |-> IF d \in Winners(hostClaims, now) THEN hostClaims[d] ELSE None]

\* Mutant: the claimant's own key is stored as the quota key.
MutantFromRumor(r, host) ==
    [client |-> r.client, host |-> r.client, token |-> r.token,
     records |-> r.records, rumor |-> r]

\* store::registration_from_rumor
FromRumor(r, host) ==
    [client |-> r.client, host |-> host, token |-> r.token,
     records |-> r.records, rumor |-> r]

\* Mutant: registrations that have no rumor yet are cleared too.
MutantRetained(reg, host) == reg # None /\ reg.host # host

\* The registrations that reconcile_quota(host) does not rebuild.
Retained(reg, host) == reg # None /\ (reg.host # host \/ reg.rumor = None)

\* Mutants of Install: the winner always takes the name; and the host's former
\* registrations are not cleared before its winners are installed.
MutantInstallUnarbitrated(regs, host, admitted) ==
    [d \in Domains |->
        IF admitted[d] # None THEN FromRumor(admitted[d], host)
        ELSE IF Retained(regs[d], host) THEN regs[d] ELSE None]
MutantInstallKeepsLosers(regs, host, admitted) ==
    [d \in Domains |->
        IF /\ admitted[d] # None
           /\ \/ ~ Retained(regs[d], host)
              \/ NegotiateLocally(regs[d].token, admitted[d].token) = admitted[d].token
        THEN FromRumor(admitted[d], host)
        ELSE regs[d]]

\* What reconcile_quota leaves in registrations, once quota_claims[host] is
\* admitted: the host's replicated registrations are rebuilt from its winning
\* claims, each arbitrated with whatever else holds the name.
Install(regs, host, admitted) ==
    [d \in Domains |->
        IF /\ admitted[d] # None
           /\ \/ ~ Retained(regs[d], host)
              \/ NegotiateLocally(regs[d].token, admitted[d].token) = admitted[d].token
        THEN FromRumor(admitted[d], host)
        ELSE IF Retained(regs[d], host) THEN regs[d] ELSE None]

-----------------------------------------------------------------------------
(* The evidence that probes and set-records requests bring                 *)

\* refresh_probe_evidence on a claim, or on the rumor of a registration: a new
\* probe timestamp, when it is the probing client's.
Refreshed(r, c, ts) ==
    IF r # None /\ r.client = c THEN [r EXCEPT !.probeAt = ts] ELSE r

\* refresh_probe_evidence on a registration
RefreshedReg(reg, c, ts) ==
    IF reg # None /\ reg.client = c
    THEN [reg EXCEPT !.rumor = Refreshed(reg.rumor, c, ts)] ELSE reg

\* Mutant: the registration's own rumor keeps its old records too.
MutantWithRecords(reg, recs) ==
    [reg EXCEPT !.records = recs,
                !.rumor = IF @ = None THEN None ELSE [@ EXCEPT !.recSig = recs]]

\* attach_record_evidence on a registration, whose rumor takes the new records.
WithRecords(reg, recs) ==
    [reg EXCEPT !.records = recs,
                !.rumor = IF @ = None THEN None
                          ELSE [@ EXCEPT !.records = recs, !.recSig = recs]]

\* Mutant: the claim keeps its old signature, and with it its authority.
MutantWithRecordEvidence(r, c, recs) == r

\* attach_record_evidence on a claim: the signature is replaced, the records
\* it covers are not.
WithRecordEvidence(r, c, recs) ==
    IF r # None /\ r.client = c THEN [r EXCEPT !.recSig = recs] ELSE r

-----------------------------------------------------------------------------
(* What the two maps have to do with each other                            *)

\* The registrations that gossip replicates.
Replicated(reg) == reg # None /\ reg.rumor # None

\* What a replicated registration serves is what its rumor says, and that is
\* what its owner signed.
ServesSigned(reg) ==
    /\ IsAuthorized(reg.rumor)
    /\ reg.records = reg.rumor.records
    /\ reg.token = reg.rumor.token
    /\ reg.client = reg.rumor.client

\* The claim behind a replicated registration is its rumor, but for the records:
\* they stay as they were when the owner sets new ones, under the signature of
\* the new ones, and then the claim authorizes nothing.
Backs(claim, reg) ==
    /\ claim # None
    /\ claim = [reg.rumor EXCEPT !.records = claim.records]
    /\ IsAuthorized(claim) => claim = reg.rumor
=============================================================================
