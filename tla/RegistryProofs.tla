--------------------------- MODULE RegistryProofs ---------------------------
(***************************************************************************)
(* The safety of one node's registry, for every set of domains, hosts,     *)
(* clients and rumors, every cap and every window.                         *)
(***************************************************************************)
EXTENDS Registry, StoreProofs

\* Every claim lies under its own domain.
ClaimsKeyed == \A h \in Hosts : claims[h] \in KeyedClaims

\* The request under way is known until it is answered, and the registration
\* it has made is still there, as it was made, when its lease is attached.
RequestPending ==
    /\ pc \in {"reclaim", "reconcile", "attach"} => req \in Request
    /\ pc = "attach" => /\ regs[req.domain] # None
                        /\ regs[req.domain].client = req.client
                        /\ regs[req.domain].rumor = None

\* The inductive invariant.
IInv ==
    /\ TypeOK
    /\ ClaimsKeyed
    /\ RequestPending
    /\ ClaimsWithinCap
    /\ RegistrationBackedByClaim
    /\ ServedRecordsAreSigned
    /\ UnreplicatedWithinCount
    /\ NoOrphans

-----------------------------------------------------------------------------
\* The registrations a host holds without a rumor are finitely many.
LEMMA UnreplicatedFinite ==
    ASSUME NEW h PROVE IsFiniteSet(Unreplicated(h))
BY DomainsAssumption, FS_Subset DEF Unreplicated, Held

\* When a step creates no registration without a rumor, and keeps the counts
\* and the hosts seen, the two invariants about such registrations survive.
LEMMA NoNewUnreplicated ==
    ASSUME IInv, counts' = counts, seen' = seen,
           \A d \in Domains : regs'[d] # None /\ regs'[d].rumor = None =>
               regs[d] # None /\ regs[d].rumor = None /\ regs'[d].host = regs[d].host
    PROVE  UnreplicatedWithinCount' /\ NoOrphans'
<1>1. ASSUME NEW h \in Hosts
      PROVE  Cardinality(Unreplicated(h)') <= counts[h]
  <2>1. Unreplicated(h)' \subseteq Unreplicated(h)
      BY DEF Unreplicated, Held
  <2>2. /\ Cardinality(Unreplicated(h)') <= Cardinality(Unreplicated(h))
        /\ Cardinality(Unreplicated(h)') \in Nat /\ Cardinality(Unreplicated(h)) \in Nat
      BY <2>1, UnreplicatedFinite, FS_Subset, FS_CardinalityType
  <2> QED
      BY <2>2 DEF IInv, UnreplicatedWithinCount, TypeOK
<1> QED
    BY <1>1 DEF IInv, UnreplicatedWithinCount, NoOrphans

\* reconcile_quota keeps the store consistent, whatever claims of the host it
\* is run on.
LEMMA ReconcileFacts ==
    ASSUME IInv, NEW h \in Hosts, NEW hc \in KeyedClaims, ReconcileQuota(h, hc)
    PROVE  /\ regs' \in [Domains -> Registration \cup {None}]
           /\ claims' \in [Hosts -> [Domains -> Rumor \cup {None}]]
           /\ ClaimsKeyed'
           /\ ClaimsWithinCap'
           /\ RegistrationBackedByClaim'
           /\ ServedRecordsAreSigned'
           /\ \A d \in Domains : regs'[d] # None /\ regs'[d].rumor = None =>
                 regs[d] # None /\ regs[d].rumor = None /\ regs'[d].host = regs[d].host
           /\ \A d \in Domains :
                 regs[d] # None /\ regs'[d] # None /\ regs'[d].host # regs[d].host =>
                     NegotiateLocally(regs[d].token, regs'[d].token) = regs'[d].token
<1> DEFINE adm == Admitted(hc, now)
<1>1. /\ adm \in KeyedClaims
      /\ {d \in Domains : adm[d] # None} = Winners(hc, now)
      /\ \A d \in Domains : adm[d] # None => IsAuthorized(adm[d])
    BY AdmittedFacts
<1> HIDE DEF adm
<1>2. /\ claims' = [claims EXCEPT ![h] = adm]
      /\ regs' = Install(regs, h, adm)
    BY DEF ReconcileQuota, adm
<1>3. adm \in [Domains -> Rumor \cup {None}]
    BY <1>1 DEF KeyedClaims
<1>4. /\ regs \in [Domains -> Registration \cup {None}]
      /\ claims \in [Hosts -> [Domains -> Rumor \cup {None}]]
    BY DEF IInv, TypeOK
<1>5. /\ regs' \in [Domains -> Registration \cup {None}]
      /\ \A d \in Domains :
            \/ regs'[d] = None
            \/ /\ regs'[d] = regs[d]
               /\ regs[d] # None
               /\ regs[d].host # h \/ regs[d].rumor = None
            \/ /\ regs'[d] = FromRumor(adm[d], h)
               /\ adm[d] # None
               /\ \/ regs[d] = None
                  \/ regs[d].host = h
                  \/ NegotiateLocally(regs[d].token, adm[d].token) = adm[d].token
    BY <1>2, <1>3, <1>4, InstallFacts
<1>6. claims' \in [Hosts -> [Domains -> Rumor \cup {None}]]
    BY <1>2, <1>3, <1>4
<1>7. \A g \in Hosts : claims'[g] = IF g = h THEN adm ELSE claims[g]
    BY <1>2, <1>4
<1>8. ClaimsKeyed'
    BY <1>1, <1>7 DEF IInv, ClaimsKeyed
<1>9. ClaimsWithinCap'
  <2>1. Cardinality({d \in Domains : adm[d] # None}) <= MaxRegs
      BY <1>1, WinnersWithinCap
  <2> QED
      BY <1>7, <2>1 DEF IInv, ClaimsWithinCap, Claimed
<1>10. \A d \in Domains : adm[d] # None =>
          /\ FromRumor(adm[d], h).host = h
          /\ FromRumor(adm[d], h).token = adm[d].token
          /\ FromRumor(adm[d], h).rumor = adm[d]
    BY DEF FromRumor
<1>11. RegistrationBackedByClaim'
  <2> SUFFICES ASSUME NEW d \in Domains, Replicated(regs'[d])
               PROVE  Backs(claims'[regs'[d].host][d], regs'[d])
      BY DEF RegistrationBackedByClaim
  <2>1. CASE regs'[d] = regs[d] /\ regs[d].host # h
    <3>1. regs[d].host \in Hosts
        BY <1>4, <2>1 DEF Registration, Replicated
    <3>2. claims'[regs'[d].host] = claims[regs[d].host]
        BY <1>7, <2>1, <3>1
    <3> QED
        BY <2>1, <3>2 DEF IInv, RegistrationBackedByClaim
  <2>2. CASE regs'[d] = FromRumor(adm[d], h) /\ adm[d] # None
    <3>1. adm[d] \in Rumor /\ IsAuthorized(adm[d])
        BY <1>1, <1>3, <2>2
    <3>2. regs'[d].host = h /\ Backs(adm[d], regs'[d])
        BY <2>2, <3>1, InstalledIsBacked
    <3> QED
        BY <1>7, <3>2
  <2> QED
      BY <1>5, <2>1, <2>2 DEF Replicated
<1>12. ServedRecordsAreSigned'
  <2> SUFFICES ASSUME NEW d \in Domains, Replicated(regs'[d])
               PROVE  ServesSigned(regs'[d])
      BY DEF ServedRecordsAreSigned
  <2>1. CASE regs'[d] = regs[d]
      BY <2>1 DEF IInv, ServedRecordsAreSigned
  <2>2. CASE regs'[d] = FromRumor(adm[d], h) /\ adm[d] # None
    <3>1. adm[d] \in Rumor /\ IsAuthorized(adm[d])
        BY <1>1, <1>3, <2>2
    <3> QED
        BY <2>2, <3>1, InstalledIsBacked
  <2> QED
      BY <1>5, <2>1, <2>2 DEF Replicated
<1>13. \A d \in Domains : regs'[d] # None /\ regs'[d].rumor = None =>
          regs[d] # None /\ regs[d].rumor = None /\ regs'[d].host = regs[d].host
    BY <1>5, <1>10
<1>14. \A d \in Domains :
          regs[d] # None /\ regs'[d] # None /\ regs'[d].host # regs[d].host =>
              NegotiateLocally(regs[d].token, regs'[d].token) = regs'[d].token
    BY <1>5, <1>10
<1> QED
    BY <1>5, <1>6, <1>8, <1>9, <1>11, <1>12, <1>13, <1>14

-----------------------------------------------------------------------------
\* RegistryStore::new establishes the inductive invariant.
LEMMA InitEstablishes == Init => IInv
<1> SUFFICES ASSUME Init PROVE IInv
    OBVIOUS
<1>1. TypeOK
    BY FreshnessAssumption DEF Init, TypeOK
<1>2. ClaimsKeyed
    BY DEF Init, ClaimsKeyed, KeyedClaims
<1>3. RequestPending
    BY DEF Init, RequestPending
<1>4. ClaimsWithinCap
  <2>1. \A h \in Hosts : Claimed(h) = {}
      BY DEF Init, Claimed
  <2> QED
      BY <2>1, FS_EmptySet, NumbersAssumption DEF ClaimsWithinCap
<1>5. RegistrationBackedByClaim /\ ServedRecordsAreSigned /\ NoOrphans
    BY DEF Init, RegistrationBackedByClaim, ServedRecordsAreSigned, NoOrphans, Replicated
<1>6. UnreplicatedWithinCount
  <2>1. \A h \in Hosts : Unreplicated(h) = {} /\ counts[h] = 0
      BY DEF Init, Unreplicated, Held
  <2> QED
      BY <2>1, FS_EmptySet, NumbersAssumption DEF UnreplicatedWithinCount
<1> QED
    BY <1>1, <1>2, <1>3, <1>4, <1>5, <1>6 DEF IInv

\* The rest of a step that reconciles one host and leaves the liveness tracker
\* alone.
LEMMA ReconcilePreserves ==
    ASSUME IInv, NEW h \in Hosts, NEW hc \in KeyedClaims, ReconcileQuota(h, hc),
           UNCHANGED <<now, seen, counts, evidence>>,
           pc' \in {"idle", "reconcile", "dead"}, req' \in Request \cup {None},
           pc' = "reconcile" => req' \in Request,
           todo' \subseteq Hosts
    PROVE  IInv'
<1>1. /\ regs' \in [Domains -> Registration \cup {None}]
      /\ claims' \in [Hosts -> [Domains -> Rumor \cup {None}]]
      /\ ClaimsKeyed' /\ ClaimsWithinCap'
      /\ RegistrationBackedByClaim' /\ ServedRecordsAreSigned'
    BY ReconcileFacts
<1>2. UnreplicatedWithinCount' /\ NoOrphans'
  <2>1. \A d \in Domains : regs'[d] # None /\ regs'[d].rumor = None =>
           regs[d] # None /\ regs[d].rumor = None /\ regs'[d].host = regs[d].host
      BY ReconcileFacts
  <2> QED
      BY <2>1, NoNewUnreplicated
<1>3. TypeOK'
    BY <1>1 DEF IInv, TypeOK
<1>4. RequestPending'
    BY DEF RequestPending
<1> QED
    BY <1>1, <1>2, <1>3, <1>4 DEF IInv

\* The steps that leave the store alone.
LEMMA StoreUnchanged ==
    ASSUME IInv, UNCHANGED store, TypeOK', RequestPending'
    PROVE  IInv'
BY DEF IInv, store, ClaimsKeyed, ClaimsWithinCap, Claimed, RegistrationBackedByClaim,
       ServedRecordsAreSigned, UnreplicatedWithinCount, Unreplicated, Held, NoOrphans

\* handle_probe rewrites registrations and claims alike.
LEMMA ProbePreserves ==
    ASSUME IInv, NEW c \in Clients, NEW ts \in Nat, HandleProbe(c, ts)
    PROVE  IInv'
<1> USE DEF HandleProbe
<1>1. /\ regs \in [Domains -> Registration \cup {None}]
      /\ claims \in [Hosts -> [Domains -> Rumor \cup {None}]]
      /\ now \in Nat /\ HostOf[c] \in Hosts
    BY HostOfAssumption DEF IInv, TypeOK
<1>2. \A r \in Rumor \cup {None} :
         /\ Refreshed(r, c, ts) \in Rumor \cup {None}
         /\ Refreshed(r, c, ts) = None <=> r = None
         /\ r # None => Refreshed(r, c, ts).domain = r.domain
    BY RefreshFacts
<1>3. \A reg \in Registration :
         /\ RefreshedReg(reg, c, ts) \in Registration
         /\ RefreshedReg(reg, c, ts).client = reg.client
         /\ RefreshedReg(reg, c, ts).host = reg.host
         /\ RefreshedReg(reg, c, ts).rumor =
              IF reg.client = c THEN Refreshed(reg.rumor, c, ts) ELSE reg.rumor
    BY RefreshFacts
<1>4. \A d \in Domains :
         /\ regs'[d] # None <=> regs[d] # None
         /\ regs[d] # None => regs[d] \in Registration /\ regs'[d] = RefreshedReg(regs[d], c, ts)
    BY <1>1, <1>3, NoneAssumption DEF RefreshedReg
<1>5. \A h \in Hosts, d \in Domains :
         claims[h][d] \in Rumor \cup {None} /\ claims'[h][d] = Refreshed(claims[h][d], c, ts)
    BY <1>1
<1>6. TypeOK'
  <2>1. regs' \in [Domains -> Registration \cup {None}]
      BY <1>1, <1>3, <1>4
  <2>2. claims' \in [Hosts -> [Domains -> Rumor \cup {None}]]
      BY <1>2, <1>5
  <2>3. seen' \in [Hosts -> Nat \cup {None}] /\ evidence' \in [Clients -> Nat \cup {None}]
      BY <1>1 DEF IInv, TypeOK
  <2> QED
      BY <2>1, <2>2, <2>3 DEF IInv, TypeOK
<1>7. ClaimsKeyed'
  <2> SUFFICES ASSUME NEW h \in Hosts PROVE claims'[h] \in KeyedClaims
      BY DEF ClaimsKeyed
  <2>1. claims[h] \in KeyedClaims
      BY DEF IInv, ClaimsKeyed
  <2> QED
      BY <1>2, <1>5, <1>6, <2>1 DEF KeyedClaims, TypeOK
<1>8. RequestPending'
    BY DEF RequestPending
<1>9. ClaimsWithinCap'
  <2>1. \A h \in Hosts : Claimed(h)' = Claimed(h)
      BY <1>2, <1>5 DEF Claimed
  <2> QED
      BY <2>1 DEF IInv, ClaimsWithinCap
<1>10. \A d \in Domains :
          regs[d] # None => (regs'[d].rumor = None <=> regs[d].rumor = None)
    BY <1>2, <1>3, <1>4 DEF Registration
<1>11. RegistrationBackedByClaim'
  <2> SUFFICES ASSUME NEW d \in Domains, Replicated(regs'[d])
               PROVE  Backs(claims'[regs'[d].host][d], regs'[d])
      BY DEF RegistrationBackedByClaim
  <2>1. regs[d] \in Registration /\ Replicated(regs[d])
      BY <1>4, <1>10 DEF Replicated
  <2>2. ServesSigned(regs[d]) /\ Backs(claims[regs[d].host][d], regs[d])
      BY <2>1 DEF IInv, RegistrationBackedByClaim, ServedRecordsAreSigned
  <2>3. regs[d].host \in Hosts /\ regs'[d].host = regs[d].host
      BY <1>3, <1>4, <2>1 DEF Registration, Replicated
  <2>4. claims[regs[d].host][d] \in Rumor
      BY <1>5, <2>2, <2>3 DEF Backs
  <2>5. Backs(Refreshed(claims[regs[d].host][d], c, ts), RefreshedReg(regs[d], c, ts))
      BY <2>1, <2>2, <2>4, RefreshAgrees DEF Replicated
  <2> QED
      BY <1>4, <1>5, <2>1, <2>3, <2>5 DEF Replicated
<1>12. ServedRecordsAreSigned'
  <2> SUFFICES ASSUME NEW d \in Domains, Replicated(regs'[d])
               PROVE  ServesSigned(regs'[d])
      BY DEF ServedRecordsAreSigned
  <2>1. regs[d] \in Registration /\ Replicated(regs[d])
      BY <1>4, <1>10 DEF Replicated
  <2>2. ServesSigned(regs[d])
      BY <2>1 DEF IInv, ServedRecordsAreSigned
  <2>3. ServesSigned(RefreshedReg(regs[d], c, ts))
      BY <2>1, <2>2, RefreshAgrees DEF Replicated
  <2> QED
      BY <1>4, <2>1, <2>3 DEF Replicated
<1>13. UnreplicatedWithinCount'
  <2>1. \A h \in Hosts : Unreplicated(h)' = Unreplicated(h)
      BY <1>3, <1>4, <1>10 DEF Unreplicated, Held
  <2> QED
      BY <2>1 DEF IInv, UnreplicatedWithinCount
<1>14. NoOrphans'
  <2> SUFFICES ASSUME NEW d \in Domains, regs'[d] # None, regs'[d].rumor = None
               PROVE  seen'[regs'[d].host] # None
      BY DEF NoOrphans
  <2>1. regs[d] # None /\ regs[d] \in Registration /\ regs[d].rumor = None
      BY <1>4, <1>10
  <2>2. regs'[d].host = regs[d].host /\ regs[d].host \in Hosts
      BY <1>3, <1>4, <2>1 DEF Registration
  <2>3. seen[regs[d].host] # None
      BY <2>1 DEF IInv, NoOrphans
  <2> QED
      BY <1>1, <2>2, <2>3, NoneAssumption DEF IInv, TypeOK
<1> QED
    BY <1>6, <1>7, <1>8, <1>9, <1>11, <1>12, <1>13, <1>14 DEF IInv

\* reclaim_stale forgets a host only together with its registrations.
LEMMA ReclaimPreserves ==
    ASSUME IInv, ReclaimStale
    PROVE  IInv'
<1> USE DEF ReclaimStale
<1>1. /\ regs \in [Domains -> Registration \cup {None}]
      /\ seen \in [Hosts -> Nat \cup {None}] /\ counts \in [Hosts -> Nat]
    BY DEF IInv, TypeOK
<1>2. \A d \in Domains : regs'[d] # None =>
         regs'[d] = regs[d] /\ regs[d] \in Registration /\ regs[d].host \notin Expired
    BY <1>1
<1>3. TypeOK' /\ RequestPending'
  <2>1. regs' \in [Domains -> Registration \cup {None}]
      BY <1>1
  <2>2. seen' \in [Hosts -> Nat \cup {None}] /\ counts' \in [Hosts -> Nat]
      BY <1>1
  <2> QED
      BY <2>1, <2>2 DEF IInv, TypeOK, RequestPending
<1>4. ClaimsKeyed' /\ ClaimsWithinCap'
    BY DEF IInv, ClaimsKeyed, ClaimsWithinCap, Claimed
<1>5. RegistrationBackedByClaim' /\ ServedRecordsAreSigned'
    BY <1>2 DEF IInv, RegistrationBackedByClaim, ServedRecordsAreSigned, Replicated
<1>6. ASSUME NEW h \in Hosts
      PROVE  Cardinality(Unreplicated(h)') <= counts'[h] /\ counts'[h] <= MaxRegs
  <2>1. CASE h \in Expired
    <3>1. Unreplicated(h)' = {} /\ counts'[h] = 0
        BY <1>2, <2>1 DEF Unreplicated, Held
    <3> QED
        BY <3>1, FS_EmptySet, NumbersAssumption
  <2>2. CASE h \notin Expired
    <3>1. Unreplicated(h)' \subseteq Unreplicated(h) /\ counts'[h] = counts[h]
        BY <1>2, <2>2 DEF Unreplicated, Held
    <3>2. /\ Cardinality(Unreplicated(h)') <= Cardinality(Unreplicated(h))
          /\ Cardinality(Unreplicated(h)') \in Nat /\ Cardinality(Unreplicated(h)) \in Nat
        BY <3>1, UnreplicatedFinite, FS_Subset, FS_CardinalityType
    <3> QED
        BY <1>1, <3>1, <3>2, NumbersAssumption DEF IInv, UnreplicatedWithinCount
  <2> QED
      BY <2>1, <2>2
<1>7. NoOrphans'
  <2> SUFFICES ASSUME NEW d \in Domains, regs'[d] # None, regs'[d].rumor = None
               PROVE  seen'[regs'[d].host] # None
      BY DEF NoOrphans
  <2>1. /\ regs'[d] = regs[d] /\ regs[d].host \in Hosts /\ regs[d].host \notin Expired
        /\ seen[regs[d].host] # None
      BY <1>2 DEF IInv, NoOrphans, Registration
  <2> QED
      BY <2>1
<1> QED
    BY <1>3, <1>4, <1>5, <1>6, <1>7 DEF IInv, UnreplicatedWithinCount

\* RegistryStore::register adds one registration and counts it.
LEMMA IssuePreserves ==
    ASSUME IInv, NEW nonce \in Nonces, Issue(nonce)
    PROVE  IInv'
<1> DEFINE h == HostOf[req.client]
           new == [client |-> req.client, host |-> h,
                   token |-> [issuedAt |-> now, nonce |-> nonce],
                   records |-> NoRecords, rumor |-> None]
<1>1. /\ regs \in [Domains -> Registration \cup {None}]
      /\ counts \in [Hosts -> Nat] /\ now \in Nat
      /\ req.client \in Clients /\ req.domain \in Domains
    BY DEF IInv, TypeOK, RequestPending, Request, Issue
<1>2. h \in Hosts
    BY <1>1, HostOfAssumption
<1>3. /\ regs[req.domain] = None
      /\ regs' = [regs EXCEPT ![req.domain] = new]
      /\ counts' = [counts EXCEPT ![h] = @ + 1]
      /\ counts[h] < MaxRegs /\ seen[h] # None
      /\ UNCHANGED <<now, claims, seen, evidence, req, todo>>
      /\ pc = "reconcile" /\ pc' = "attach"
    BY DEF Issue, CanRegister, IsLive
<1>4. new \in Registration
    BY <1>1, <1>2, RecordsAssumption DEF Registration, Token
<1>5. new # None /\ new.host = h /\ new.rumor = None /\ new.client = req.client
    BY <1>4, NoneAssumption
<1> HIDE DEF new, h
<1>6. \A d \in Domains : regs'[d] = IF d = req.domain THEN new ELSE regs[d]
    BY <1>1, <1>3
<1>7. \A g \in Hosts : counts'[g] = IF g = h THEN counts[g] + 1 ELSE counts[g]
    BY <1>1, <1>3
<1>8. TypeOK' /\ RequestPending'
  <2>1. regs' \in [Domains -> Registration \cup {None}]
      BY <1>1, <1>3, <1>4
  <2>2. counts' \in [Hosts -> Nat]
      BY <1>1, <1>2, <1>3
  <2>3. RequestPending'
    <3>1. regs'[req.domain] = new /\ req' = req /\ pc' = "attach"
        BY <1>1, <1>3, <1>6
    <3> QED
        BY <1>3, <1>5, <3>1 DEF IInv, RequestPending
  <2> QED
      BY <1>3, <2>1, <2>2, <2>3 DEF IInv, TypeOK
<1>9. ClaimsKeyed' /\ ClaimsWithinCap'
    BY <1>3 DEF IInv, ClaimsKeyed, ClaimsWithinCap, Claimed
<1>10. RegistrationBackedByClaim' /\ ServedRecordsAreSigned'
    BY <1>3, <1>5, <1>6 DEF IInv, RegistrationBackedByClaim, ServedRecordsAreSigned, Replicated
<1>11. ASSUME NEW g \in Hosts
       PROVE  Cardinality(Unreplicated(g)') <= counts'[g] /\ counts'[g] <= MaxRegs
  <2>1. Cardinality(Unreplicated(g)) <= counts[g] /\ counts[g] <= MaxRegs
      BY DEF IInv, UnreplicatedWithinCount
  <2>2. IsFiniteSet(Unreplicated(g)) /\ Cardinality(Unreplicated(g)) \in Nat
      BY UnreplicatedFinite, FS_CardinalityType
  <2>3. CASE g = h
    <3>1. Unreplicated(g)' = Unreplicated(g) \cup {req.domain}
        BY <1>1, <1>3, <1>5, <1>6, <2>3 DEF Unreplicated, Held
    <3>2. Cardinality(Unreplicated(g)') <= Cardinality(Unreplicated(g)) + 1
        BY <2>2, <3>1, FS_AddElement
    <3>3. Cardinality(Unreplicated(g)') \in Nat
        BY <2>2, <3>1, FS_AddElement, FS_CardinalityType
    <3> QED
        BY <1>1, <1>2, <1>3, <1>7, <2>1, <2>2, <2>3, <3>2, <3>3, NumbersAssumption
  <2>4. CASE g # h
    <3>1. Unreplicated(g)' = Unreplicated(g)
        BY <1>1, <1>3, <1>5, <1>6, <2>4 DEF Unreplicated, Held
    <3> QED
        BY <1>7, <2>1, <2>4, <3>1
  <2> QED
      BY <2>3, <2>4
<1>12. NoOrphans'
    BY <1>3, <1>5, <1>6 DEF IInv, NoOrphans
<1> QED
    BY <1>8, <1>9, <1>10, <1>11, <1>12 DEF IInv, UnreplicatedWithinCount

\* The claims attach_rumor and adopt_rumor hand to reconcile_quota.
LEMMA AttachClaimsKeyed ==
    ASSUME IInv, AttachRumor
    PROVE  /\ HostOf[req.client] \in Hosts
           /\ [claims[HostOf[req.client]] EXCEPT ![req.domain] =
                  NewRumor(req.client, req.domain)] \in KeyedClaims
<1> DEFINE h == HostOf[req.client]
           r == NewRumor(req.client, req.domain)
<1>1. req.client \in Clients /\ req.domain \in Domains /\ regs[req.domain] # None
    BY DEF IInv, RequestPending, Request, AttachRumor
<1>2. h \in Hosts
    BY <1>1, HostOfAssumption
<1>3. regs[req.domain].token \in Token
    BY <1>1 DEF IInv, TypeOK, Registration
<1>4. evidence[req.client] \in Nat
    BY <1>1 DEF IInv, TypeOK, AttachRumor
<1>5. r \in Rumor /\ r.domain = req.domain
    BY <1>1, <1>3, <1>4, RecordsAssumption DEF NewRumor, Rumor
<1>6. claims[h] \in KeyedClaims
    BY <1>2 DEF IInv, ClaimsKeyed
<1> HIDE DEF h, r
<1>7. [claims[h] EXCEPT ![req.domain] = r] \in KeyedClaims
    BY <1>1, <1>5, <1>6 DEF KeyedClaims
<1> QED
    BY <1>2, <1>7 DEF h, r

\* The same, of a rumor that adopt_rumor has found authorized.
LEMMA AdoptClaimsKeyed ==
    ASSUME IInv, NEW r \in PeerRumors
    PROVE  /\ HostOf[r.client] \in Hosts
           /\ [claims[HostOf[r.client]] EXCEPT ![r.domain] = r] \in KeyedClaims
<1> DEFINE h == HostOf[r.client]
<1>1. r \in Rumor /\ r.client \in Clients /\ r.domain \in Domains
    BY PeerRumorsAssumption DEF Rumor
<1>2. h \in Hosts
    BY <1>1, HostOfAssumption
<1>3. claims[h] \in KeyedClaims
    BY <1>2 DEF IInv, ClaimsKeyed
<1> HIDE DEF h
<1>4. [claims[h] EXCEPT ![r.domain] = r] \in KeyedClaims
    BY <1>1, <1>3 DEF KeyedClaims
<1> QED
    BY <1>2, <1>4 DEF h

\* attach_rumor preserves the inductive invariant.
LEMMA AttachPreserves ==
    ASSUME IInv, AttachRumor
    PROVE  IInv'
<1> DEFINE h == HostOf[req.client]
           hc == [claims[h] EXCEPT ![req.domain] = NewRumor(req.client, req.domain)]
<1>1. h \in Hosts /\ hc \in KeyedClaims
    BY AttachClaimsKeyed
<1>2. ReconcileQuota(h, hc)
    BY DEF AttachRumor
<1>3. /\ UNCHANGED <<now, seen, counts, evidence, todo>> /\ pc' = "idle" /\ req' = None
      /\ todo \subseteq Hosts
    BY DEF AttachRumor, IInv, TypeOK
<1> HIDE DEF h, hc
<1> QED
    BY <1>1, <1>2, <1>3, ReconcilePreserves

\* adopt_rumor preserves the inductive invariant.
LEMMA AdoptPreserves ==
    ASSUME IInv, NEW r \in PeerRumors, AdoptRumor(r)
    PROVE  IInv'
<1> DEFINE h == HostOf[r.client]
           hc == [claims[h] EXCEPT ![r.domain] = r]
<1>1. h \in Hosts /\ hc \in KeyedClaims
    BY AdoptClaimsKeyed
<1>2. ReconcileQuota(h, hc)
    BY DEF AdoptRumor
<1>3. /\ UNCHANGED <<now, seen, counts, evidence, pc, req, todo>>
      /\ pc \in {"idle", "dead"} /\ req \in Request \cup {None} /\ todo \subseteq Hosts
    BY DEF AdoptRumor, IInv, TypeOK
<1> HIDE DEF h, hc
<1> QED
    BY <1>1, <1>2, <1>3, ReconcilePreserves

\* handle_set_records signs the registration's records and its claim's evidence.
LEMMA SetRecordsPreserves ==
    ASSUME IInv, NEW c \in Clients, NEW d0 \in Domains, NEW recs \in Records,
           HandleSetRecords(c, d0, recs)
    PROVE  IInv'
<1> USE DEF HandleSetRecords
<1>1. /\ regs \in [Domains -> Registration \cup {None}]
      /\ claims \in [Hosts -> [Domains -> Rumor \cup {None}]]
      /\ regs[d0] \in Registration
    BY DEF IInv, TypeOK
<1>2. \A r \in Rumor \cup {None} :
         /\ WithRecordEvidence(r, c, recs) \in Rumor \cup {None}
         /\ WithRecordEvidence(r, c, recs) = None <=> r = None
         /\ r # None => WithRecordEvidence(r, c, recs).domain = r.domain
    BY EvidenceFacts
<1>3. \A h \in Hosts, d \in Domains :
         /\ claims[h][d] \in Rumor \cup {None}
         /\ claims'[h][d] = IF d = d0 THEN WithRecordEvidence(claims[h][d], c, recs)
                            ELSE claims[h][d]
    BY <1>1
<1> DEFINE new == WithRecords(regs[d0], recs)
<1>4. /\ new \in Registration /\ new.host = regs[d0].host
      /\ new.rumor = None <=> regs[d0].rumor = None
    BY <1>1, RecordsFacts
<1>5. new # None
    BY <1>4, NoneAssumption
<1>6. regs' = [regs EXCEPT ![d0] = new]
    OBVIOUS
<1> HIDE DEF new
<1>7. \A d \in Domains : regs'[d] = IF d = d0 THEN new ELSE regs[d]
    BY <1>1, <1>6
<1>8. TypeOK'
  <2>1. regs' \in [Domains -> Registration \cup {None}]
      BY <1>1, <1>4, <1>6
  <2>2. claims' \in [Hosts -> [Domains -> Rumor \cup {None}]]
      BY <1>1, <1>2
  <2> QED
      BY <2>1, <2>2 DEF IInv, TypeOK
<1>9. ClaimsKeyed'
  <2> SUFFICES ASSUME NEW h \in Hosts PROVE claims'[h] \in KeyedClaims
      BY DEF ClaimsKeyed
  <2>1. claims[h] \in KeyedClaims
      BY DEF IInv, ClaimsKeyed
  <2> QED
      BY <1>2, <1>3, <1>8, <2>1 DEF KeyedClaims, TypeOK
<1>10. RequestPending'
    BY DEF RequestPending
<1>11. ClaimsWithinCap'
  <2>1. \A h \in Hosts : Claimed(h)' = Claimed(h)
      BY <1>2, <1>3 DEF Claimed
  <2> QED
      BY <2>1 DEF IInv, ClaimsWithinCap
<1>12. RegistrationBackedByClaim'
  <2> SUFFICES ASSUME NEW d \in Domains, Replicated(regs'[d])
               PROVE  Backs(claims'[regs'[d].host][d], regs'[d])
      BY DEF RegistrationBackedByClaim
  <2>1. regs[d] \in Registration /\ Replicated(regs[d])
      BY <1>1, <1>4, <1>7 DEF Replicated
  <2>2. ServesSigned(regs[d]) /\ Backs(claims[regs[d].host][d], regs[d])
      BY <2>1 DEF IInv, RegistrationBackedByClaim, ServedRecordsAreSigned
  <2>3. regs[d].host \in Hosts /\ regs'[d].host = regs[d].host
      BY <1>4, <1>7, <2>1 DEF Registration
  <2>4. claims[regs[d].host][d] \in Rumor
      BY <1>3, <2>2, <2>3 DEF Backs
  <2>5. CASE d = d0
    <3>1. Backs(WithRecordEvidence(claims[regs[d].host][d], regs[d].client, recs),
                WithRecords(regs[d], recs))
        BY <2>1, <2>2, <2>4, RecordsAgree DEF Replicated
    <3>2. regs'[d] = WithRecords(regs[d], recs) /\ regs[d].client = c
        BY <1>7, <2>5 DEF new
    <3> QED
        BY <1>3, <2>3, <2>5, <3>1, <3>2
  <2>6. CASE d # d0
      BY <1>3, <1>7, <2>2, <2>3, <2>6
  <2> QED
      BY <2>5, <2>6
<1>13. ServedRecordsAreSigned'
  <2>1. ASSUME Replicated(regs[d0]) PROVE ServesSigned(new)
    <3>1. ServesSigned(regs[d0])
        BY <2>1 DEF IInv, ServedRecordsAreSigned
    <3> QED
        BY <1>1, <2>1, <3>1, RecordsAgree DEF Replicated, new
  <2> QED
      BY <1>1, <1>4, <1>7, <2>1, NoneAssumption DEF IInv, ServedRecordsAreSigned, Replicated
<1>14. UnreplicatedWithinCount' /\ NoOrphans'
  <2>1. \A d \in Domains : regs'[d] # None /\ regs'[d].rumor = None =>
           regs[d] # None /\ regs[d].rumor = None /\ regs'[d].host = regs[d].host
      BY <1>4, <1>7
  <2> QED
      BY <2>1, NoNewUnreplicated
<1> QED
    BY <1>8, <1>9, <1>10, <1>11, <1>12, <1>13, <1>14 DEF IInv

-----------------------------------------------------------------------------
\* Every step of the registry preserves the inductive invariant.
LEMMA NextPreserves == IInv /\ [Next]_vars => IInv'
<1> SUFFICES ASSUME IInv, [Next]_vars PROVE IInv'
    OBVIOUS
<1>1. ASSUME NEW c \in Clients, NEW ts \in 0 .. MaxTime, HandleProbe(c, ts) PROVE IInv'
  <2>1. ts \in Nat
      BY FreshnessAssumption
  <2> QED
      BY <1>1, <2>1, ProbePreserves
<1>2. ASSUME NEW c \in Clients, NEW d \in Domains, HandleRegister(c, d) PROVE IInv'
  <2>1. TypeOK' /\ RequestPending' /\ UNCHANGED store
      BY <1>2 DEF HandleRegister, IInv, TypeOK, RequestPending, Request, store
  <2> QED
      BY <2>1, StoreUnchanged
<1>3. CASE ReclaimStale
    BY <1>3, ReclaimPreserves
<1>4. ASSUME NEW h \in Hosts, ReconcileNext(h) PROVE IInv'
  <2>1. /\ claims[h] \in KeyedClaims /\ ReconcileQuota(h, claims[h])
        /\ UNCHANGED <<now, seen, counts, evidence>>
        /\ pc' = "reconcile" /\ req' = req /\ req \in Request /\ todo' \subseteq Hosts
      BY <1>4 DEF ReconcileNext, IInv, ClaimsKeyed, RequestPending, TypeOK
  <2> QED
      BY <2>1, ReconcilePreserves
<1>5. CASE Refuse
  <2>1. TypeOK' /\ RequestPending' /\ UNCHANGED store
      BY <1>5 DEF Refuse, IInv, TypeOK, RequestPending, store
  <2> QED
      BY <2>1, StoreUnchanged
<1>6. ASSUME NEW nonce \in Nonces, Issue(nonce) PROVE IInv'
    BY <1>6, IssuePreserves
<1>7. CASE AttachRumor
    BY <1>7, AttachPreserves
<1>8. CASE Panic
  <2>1. TypeOK' /\ RequestPending' /\ UNCHANGED store
      BY <1>8 DEF Panic, IInv, TypeOK, RequestPending, store
  <2> QED
      BY <2>1, StoreUnchanged
<1>9. ASSUME NEW c \in Clients, NEW d \in Domains, NEW recs \in Records,
             HandleSetRecords(c, d, recs)
      PROVE  IInv'
    BY <1>9, SetRecordsPreserves
<1>10. ASSUME NEW r \in PeerRumors, AdoptRumor(r) PROVE IInv'
    BY <1>10, AdoptPreserves
<1>11. CASE Clock
  <2>1. TypeOK' /\ RequestPending' /\ UNCHANGED store
      BY <1>11 DEF Clock, IInv, TypeOK, RequestPending, store
  <2> QED
      BY <2>1, StoreUnchanged
<1>12. CASE UNCHANGED vars
  <2>1. TypeOK' /\ RequestPending' /\ UNCHANGED store
      BY <1>12 DEF vars, IInv, TypeOK, RequestPending, store
  <2> QED
      BY <2>1, StoreUnchanged
<1> QED
    BY <1>1, <1>2, <1>3, <1>4, <1>5, <1>6, <1>7, <1>8, <1>9, <1>10, <1>11, <1>12 DEF Next

\* Every reachable registry satisfies the inductive invariant.
THEOREM InductiveInvariant == Spec => []IInv
BY InitEstablishes, NextPreserves, PTL DEF Spec

\* The store's maps always hold what their Rust types say, and the register
\* handler always finds the request it is working on.
THEOREM TypeCorrect == Spec => []TypeOK
<1>1. IInv => TypeOK
    BY DEF IInv
<1> QED
    BY <1>1, InductiveInvariant, PTL

\* No host ever has more than MAX_REGISTRATIONS_PER_CLIENT admitted claims,
\* whatever clients and peers send and in whatever order.
THEOREM ClaimCap == Spec => []ClaimsWithinCap
<1>1. IInv => ClaimsWithinCap
    BY DEF IInv
<1> QED
    BY <1>1, InductiveInvariant, PTL

\* registrations and quota_claims agree on every replicated name in all but its
\* records, and a claim whose records were left behind authorizes nothing.
THEOREM MapsAgree == Spec => []RegistrationBackedByClaim
<1>1. IInv => RegistrationBackedByClaim
    BY DEF IInv
<1> QED
    BY <1>1, InductiveInvariant, PTL

\* A replicated name is served, and forwarded, with records its owner signed.
THEOREM RecordsAreSigned == Spec => []ServedRecordsAreSigned
<1>1. IInv => ServedRecordsAreSigned
    BY DEF IInv
<1> QED
    BY <1>1, InductiveInvariant, PTL

\* A name that only this node knows of belongs to a host reclaim_stale still
\* watches.
THEOREM NothingOrphaned == Spec => []NoOrphans
<1>1. IInv => NoOrphans
    BY DEF IInv
<1> QED
    BY <1>1, InductiveInvariant, PTL

\* registration_counts covers the names only this node knows of, and never
\* exceeds the maximum.
THEOREM CountCovers == Spec => []UnreplicatedWithinCount
<1>1. IInv => UnreplicatedWithinCount
    BY DEF IInv
<1> QED
    BY <1>1, InductiveInvariant, PTL

\* A host never holds more than twice its maximum: at most MaxRegs names that
\* are admitted claims, and at most registration_counts others.
THEOREM TwiceCap == Spec => []HostWithinTwiceCap
<1>1. IInv => HostWithinTwiceCap
  <2> SUFFICES ASSUME IInv, NEW h \in Hosts
               PROVE  Cardinality(Held(h)) <= 2 * MaxRegs
      BY DEF HostWithinTwiceCap
  <2>1. IsFiniteSet(Unreplicated(h)) /\ IsFiniteSet(Claimed(h))
      BY UnreplicatedFinite, DomainsAssumption, FS_Subset DEF Claimed
  <2>2. Held(h) \subseteq Unreplicated(h) \cup Claimed(h)
      BY DEF IInv, RegistrationBackedByClaim, Replicated, Backs, Held, Unreplicated, Claimed
  <2>3. /\ Cardinality(Unreplicated(h)) \in Nat /\ Cardinality(Claimed(h)) \in Nat
        /\ Cardinality(Unreplicated(h) \cap Claimed(h)) \in Nat
      BY <2>1, FS_CardinalityType, FS_Intersection
  <2>4. /\ IsFiniteSet(Unreplicated(h) \cup Claimed(h))
        /\ Cardinality(Unreplicated(h) \cup Claimed(h))
              <= Cardinality(Unreplicated(h)) + Cardinality(Claimed(h))
    <3>1. /\ IsFiniteSet(Unreplicated(h) \cup Claimed(h))
          /\ Cardinality(Unreplicated(h) \cup Claimed(h))
                = Cardinality(Unreplicated(h)) + Cardinality(Claimed(h))
                    - Cardinality(Unreplicated(h) \cap Claimed(h))
        BY <2>1, FS_Union
    <3> QED
        BY <2>3, <3>1
  <2>5. /\ Cardinality(Held(h)) <= Cardinality(Unreplicated(h) \cup Claimed(h))
        /\ Cardinality(Held(h)) \in Nat
        /\ Cardinality(Unreplicated(h) \cup Claimed(h)) \in Nat
      BY <2>2, <2>4, FS_Subset, FS_CardinalityType
  <2>6. /\ Cardinality(Unreplicated(h)) <= MaxRegs /\ Cardinality(Claimed(h)) <= MaxRegs
    <3>1. counts[h] \in Nat
        BY DEF IInv, TypeOK
    <3> QED
        BY <2>3, <3>1, NumbersAssumption DEF IInv, UnreplicatedWithinCount, ClaimsWithinCap
  <2> QED
      BY <2>3, <2>4, <2>5, <2>6, NumbersAssumption
<1> QED
    BY <1>1, InductiveInvariant, PTL

\* A name changes hosts only by winning negotiate_locally against the claim it
\* displaces.
THEOREM Arbitrated == Spec => CollisionsAreArbitrated
<1> DEFINE Fair(d) ==
        regs[d] # None /\ regs'[d] # None /\ regs'[d].host # regs[d].host =>
            NegotiateLocally(regs[d].token, regs'[d].token) = regs'[d].token
<1>1. IInv /\ Next => \A d \in Domains : Fair(d)
  <2> SUFFICES ASSUME IInv, Next PROVE \A d \in Domains : Fair(d)
      OBVIOUS
  <2>1. ASSUME NEW h \in Hosts, NEW hc \in KeyedClaims, ReconcileQuota(h, hc)
        PROVE  \A d \in Domains : Fair(d)
      BY <2>1, ReconcileFacts
  <2>2. regs \in [Domains -> Registration \cup {None}]
      BY DEF IInv, TypeOK
  <2>3. ASSUME NEW c \in Clients, NEW ts \in 0 .. MaxTime, HandleProbe(c, ts)
        PROVE  \A d \in Domains : Fair(d)
      BY <2>2, <2>3 DEF HandleProbe, RefreshedReg, Registration
  <2>4. ASSUME NEW h \in Hosts, ReconcileNext(h)
        PROVE  \A d \in Domains : Fair(d)
      BY <2>1, <2>4 DEF ReconcileNext, IInv, ClaimsKeyed
  <2>5. ASSUME NEW nonce \in Nonces, Issue(nonce)
        PROVE  \A d \in Domains : Fair(d)
      BY <2>2, <2>5 DEF Issue
  <2>6. CASE ReclaimStale
      BY <2>2, <2>6 DEF ReclaimStale
  <2>7. ASSUME NEW c \in Clients, NEW d0 \in Domains, NEW recs \in Records,
               HandleSetRecords(c, d0, recs)
        PROVE  \A d \in Domains : Fair(d)
      BY <2>2, <2>7 DEF HandleSetRecords, WithRecords, Registration
  <2>8. CASE AttachRumor
      BY <2>1, <2>8, AttachClaimsKeyed DEF AttachRumor
  <2>9. ASSUME NEW r \in PeerRumors, AdoptRumor(r)
        PROVE  \A d \in Domains : Fair(d)
      BY <2>1, <2>9, AdoptClaimsKeyed DEF AdoptRumor
  <2>10. ASSUME UNCHANGED regs
         PROVE  \A d \in Domains : Fair(d)
      BY <2>10
  <2> QED
      BY <2>3, <2>4, <2>5, <2>6, <2>7, <2>8, <2>9, <2>10
         DEF Next, HandleRegister, Refuse, Panic, Clock, store
<1>2. IInv /\ [Next]_vars => [\A d \in Domains : Fair(d)]_vars
    BY <1>1
<1> QED
    BY <1>2, InductiveInvariant, PTL DEF Spec, CollisionsAreArbitrated

\* What reconcile_quota(h) takes a registration away for: the claim behind it is
\* no longer in order, or the host holds the maximum without it.
LEMMA ReconcileLoses ==
    ASSUME IInv, NEW h \in Hosts, NEW hc \in KeyedClaims, ReconcileQuota(h, hc),
           NEW d \in Domains, regs[d] # None, regs'[d] = None
    PROVE  /\ regs[d].host = h /\ regs[d].rumor # None
           /\ \/ hc[d] = None \/ ~ IsAuthorized(hc[d]) \/ ~ LeaseIsLive(hc[d], now)
              \/ CapReached(h)
<1> DEFINE adm == Admitted(hc, now)
<1>1. /\ regs \in [Domains -> Registration \cup {None}]
      /\ claims \in [Hosts -> [Domains -> Rumor \cup {None}]]
    BY DEF IInv, TypeOK
<1>2. /\ adm \in KeyedClaims
      /\ {e \in Domains : adm[e] # None} = Winners(hc, now)
    BY AdmittedFacts
<1>3. regs' = Install(regs, h, adm) /\ claims' = [claims EXCEPT ![h] = adm]
    BY DEF ReconcileQuota
<1>4. \A r \in Rumor : FromRumor(r, h) # None
    BY NoneAssumption DEF FromRumor, Rumor, Registration
<1> HIDE DEF adm
<1>5. adm[d] = None \/ adm[d] \in Rumor
    BY <1>2 DEF KeyedClaims
<1>6. ~ Retained(regs[d], h) /\ adm[d] = None
    BY <1>3, <1>4, <1>5 DEF Install
<1>7. d \notin Winners(hc, now)
    BY <1>2, <1>6
<1>8. claims'[h] = adm
    BY <1>1, <1>3
<1>9. ASSUME d \in LiveClaims(hc, now)
      PROVE  CapReached(h)
  <2>1. Cardinality(Winners(hc, now)) >= MaxRegs
      BY <1>7, <1>9, TruncationFillsCap
  <2> QED
      BY <1>2, <1>8, <2>1 DEF CapReached
<1> QED
    BY <1>6, <1>9 DEF Retained, LiveClaims

\* A name becomes free only for one of the reasons the code has: its host is
\* silent, the evidence for its claim is void or has run out, or the host holds
\* the maximum without it.
THEOREM LossesExplained == Spec => LossHasCause
<1> DEFINE Caused(d) ==
        regs[d] # None /\ regs'[d] = None =>
            LET h == regs[d].host
            IN HostExpired(h) \/ ClaimUnauthorized(h, d) \/ LeaseExpired(h, d)
                 \/ CapReached(h)
<1>1. IInv /\ Next => \A d \in Domains : Caused(d)
  <2> SUFFICES ASSUME IInv, Next, NEW d \in Domains, regs[d] # None, regs'[d] = None
               PROVE  Caused(d)
      OBVIOUS
  <2>1. /\ regs \in [Domains -> Registration \cup {None}]
        /\ claims \in [Hosts -> [Domains -> Rumor \cup {None}]]
      BY DEF IInv, TypeOK
  <2>2. regs[d].rumor # None => claims[regs[d].host][d] # None
      BY DEF IInv, RegistrationBackedByClaim, Replicated, Backs
  <2>3. ASSUME NEW h \in Hosts, NEW hc \in KeyedClaims, ReconcileQuota(h, hc),
               \/ hc[d] = claims[h][d]
               \/ regs[d].rumor = None
               \/ hc[d] # None /\ IsAuthorized(hc[d]) /\ LeaseIsLive(hc[d], now)
        PROVE  Caused(d)
    <3>1. /\ regs[d].host = h /\ regs[d].rumor # None
          /\ \/ hc[d] = None \/ ~ IsAuthorized(hc[d]) \/ ~ LeaseIsLive(hc[d], now)
             \/ CapReached(h)
        BY <2>3, ReconcileLoses
    <3> QED
        BY <2>2, <2>3, <3>1 DEF ClaimUnauthorized, LeaseExpired
  <2>4. ASSUME NEW c \in Clients, NEW ts \in 0 .. MaxTime, HandleProbe(c, ts)
        PROVE  FALSE
    <3>1. regs[d] \in Registration
        BY <2>1
    <3>2. regs'[d] \in {regs[d], [regs[d] EXCEPT !.rumor = Refreshed(regs[d].rumor, c, ts)]}
        BY <2>4 DEF HandleProbe, RefreshedReg
    <3>3. regs'[d].client = regs[d].client /\ regs'[d] # None
      <4>1. Refreshed(regs[d].rumor, c, ts) \in Rumor \cup {None}
          BY <2>4, <3>1, FreshnessAssumption DEF Refreshed, Registration, Rumor
      <4> QED
          BY <3>1, <3>2, <4>1, NoneAssumption DEF Registration
    <3> QED
        BY <3>3
  <2>5. ASSUME NEW h \in Hosts, ReconcileNext(h)
        PROVE  Caused(d)
      BY <2>3, <2>5 DEF ReconcileNext, IInv, ClaimsKeyed
  <2>6. ASSUME NEW nonce \in Nonces, Issue(nonce)
        PROVE  FALSE
    <3>1. req.domain # d
        BY <2>6 DEF Issue
    <3> QED
        BY <2>1, <2>6, <3>1 DEF Issue
  <2>7. CASE ReclaimStale
      BY <2>1, <2>7 DEF ReclaimStale, HostExpired
  <2>8. ASSUME NEW c \in Clients, NEW d0 \in Domains, NEW recs \in Records,
               HandleSetRecords(c, d0, recs)
        PROVE  FALSE
    <3>1. d0 # d => regs'[d] = regs[d]
        BY <2>1, <2>8 DEF HandleSetRecords
    <3>2. d0 = d
        BY <3>1
    <3>3. regs[d] \in Registration /\ regs'[d] = WithRecords(regs[d], recs)
        BY <2>1, <2>8, <3>2 DEF HandleSetRecords
    <3>4. WithRecords(regs[d], recs) \in Registration
        BY <2>8, <3>3, RecordsAssumption DEF WithRecords, Registration, Rumor
    <3> QED
        BY <3>3, <3>4, NoneAssumption
  <2>9. CASE AttachRumor
    <3> DEFINE h == HostOf[req.client]
               hc == [claims[h] EXCEPT ![req.domain] = NewRumor(req.client, req.domain)]
    <3>1. h \in Hosts /\ hc \in KeyedClaims /\ ReconcileQuota(h, hc)
        BY <2>9, AttachClaimsKeyed DEF AttachRumor
    <3>2. d # req.domain => hc[d] = claims[h][d]
        BY <2>1, <3>1
    <3>3. d = req.domain => regs[d].rumor = None
        BY <2>9 DEF AttachRumor, IInv, RequestPending
    <3> HIDE DEF hc, h
    <3> QED
        BY <2>3, <3>1, <3>2, <3>3
  <2>10. ASSUME NEW r \in PeerRumors, AdoptRumor(r)
         PROVE  Caused(d)
    <3> DEFINE h == HostOf[r.client]
               hc == [claims[h] EXCEPT ![r.domain] = r]
    <3>1. h \in Hosts /\ hc \in KeyedClaims /\ ReconcileQuota(h, hc)
        BY <2>10, AdoptClaimsKeyed DEF AdoptRumor
    <3>2. r \in Rumor /\ r # None
        BY PeerRumorsAssumption, NoneAssumption
    <3>3. d # r.domain => hc[d] = claims[h][d]
        BY <2>1, <3>1
    <3>4. d = r.domain => hc[d] = r
        BY <2>1, <3>1
    <3>5. IsAuthorized(r) /\ LeaseIsLive(r, now)
        BY <2>10 DEF AdoptRumor
    <3> HIDE DEF hc, h
    <3> QED
        BY <2>3, <3>1, <3>2, <3>3, <3>4, <3>5
  <2> QED
      BY <2>4, <2>5, <2>6, <2>7, <2>8, <2>9, <2>10
         DEF Next, HandleRegister, Refuse, Panic, Clock, store
<1>2. IInv /\ [Next]_vars => [\A d \in Domains : Caused(d)]_vars
    BY <1>1
<1> QED
    BY <1>2, InductiveInvariant, PTL DEF Spec, LossHasCause
=============================================================================
