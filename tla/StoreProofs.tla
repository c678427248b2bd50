---------------------------- MODULE StoreProofs ----------------------------
(***************************************************************************)
(* Facts about the operators of Collision and Store, for every value of    *)
(* the constants: arbitration is symmetric, the order of reconcile_quota   *)
(* is strict and total, and truncation admits at most MaxRegs claims.  And *)
(* the inductions over naturals that the other proofs share.               *)
(***************************************************************************)
EXTENDS Store, Integers, FiniteSetTheorems, WellFoundedInduction, TLAPS

\* Claims as a HashMap<DomainName, RegistrationRumor> holds them: each under
\* its own domain.
KeyedClaims == {hc \in [Domains -> Rumor \cup {None}] :
                  \A d \in Domains : hc[d] # None => hc[d].domain = d}

\* negotiate_locally: both sides of a collision compute the same winner.
THEOREM ArbitrationIsSymmetric ==
    \A a, b \in Token : NegotiateLocally(a, b) = NegotiateLocally(b, a)
<1> SUFFICES ASSUME NEW a \in Token, NEW b \in Token
             PROVE  NegotiateLocally(a, b) = NegotiateLocally(b, a)
    OBVIOUS
<1> DEFINE na == NonceBit[a.nonce]
           nb == NonceBit[b.nonce]
<1>1. a.nonce \in Nonces /\ b.nonce \in Nonces
    BY DEF Token
<1>2. na \in {0, 1} /\ nb \in {0, 1}
    BY <1>1, NonceBitAssumption
<1>3. na \in Nat /\ nb \in Nat
    BY <1>2
<1>4. /\ a.issuedAt \in Nat /\ b.issuedAt \in Nat
      /\ a.nonce \in Nat /\ b.nonce \in Nat
    BY <1>1, NoncesAssumption DEF Token
<1>5. a.issuedAt + b.issuedAt + na + nb = b.issuedAt + a.issuedAt + nb + na
    BY <1>3, <1>4
<1>6. MutuallyDerivedCondition(a, b) = MutuallyDerivedCondition(b, a)
    BY <1>5 DEF MutuallyDerivedCondition
<1>7. KeyLeq(a, b) /\ KeyLeq(b, a) => a = b
    BY <1>4 DEF KeyLeq, Token
<1>8. KeyLeq(a, b) \/ KeyLeq(b, a)
    BY <1>4 DEF KeyLeq
<1> QED
    BY <1>6, <1>7, <1>8 DEF NegotiateLocally, Resolve

\* The winner of an arbitration is one of the two claims.
THEOREM ArbitrationPicksAClaim ==
    \A a, b \in Token : NegotiateLocally(a, b) \in {a, b}
BY DEF NegotiateLocally, Resolve

-----------------------------------------------------------------------------
(* The order by which reconcile_quota sorts                                *)

\* The fields of a token.
LEMMA TokenFields ==
    \A a \in Token : a.issuedAt \in Nat /\ a.nonce \in Nat
BY NoncesAssumption DEF Token

\* The fields of a rumor.
LEMMA RumorFields ==
    \A r \in Rumor : /\ r.token \in Token /\ r.domain \in Nat /\ r.domain \in Domains
                     /\ r.client \in Clients /\ r.probeAt \in Nat /\ r.records \in Records
BY DomainsAssumption DEF Rumor

\* A token is its issuing time and its nonce.
LEMMA TokenEquality ==
    \A a, b \in Token : a.issuedAt = b.issuedAt /\ a.nonce = b.nonce => a = b
BY DEF Token

\* reconcile_quota's order is irreflexive,
LEMMA BeforeIrreflexive == \A a \in Rumor : ~ ClaimBefore(a, a)
BY RumorFields DEF ClaimBefore

\* transitive,
LEMMA BeforeTransitive ==
    \A a, b, c \in Rumor : ClaimBefore(a, b) /\ ClaimBefore(b, c) => ClaimBefore(a, c)
<1> SUFFICES ASSUME NEW a \in Rumor, NEW b \in Rumor, NEW c \in Rumor,
                    ClaimBefore(a, b), ClaimBefore(b, c)
             PROVE  ClaimBefore(a, c)
    OBVIOUS
<1>1. a.token \in Token /\ b.token \in Token /\ c.token \in Token
    BY RumorFields
<1>2. a.domain \in Nat /\ b.domain \in Nat /\ c.domain \in Nat
    BY RumorFields
<1>3. ASSUME NEW x \in Token, NEW y \in Token, NEW z \in Token
      PROVE  /\ KeyLeq(x, y) /\ KeyLeq(y, z) => KeyLeq(x, z)
             /\ KeyLeq(x, y) /\ KeyLeq(y, x) => x = y
    BY TokenFields, TokenEquality DEF KeyLeq
<1> QED
    BY <1>1, <1>2, <1>3 DEF ClaimBefore

\* and total on claims of different names.
LEMMA BeforeTotal ==
    \A a, b \in Rumor :
        a.domain # b.domain => ClaimBefore(a, b) \/ ClaimBefore(b, a)
<1> SUFFICES ASSUME NEW a \in Rumor, NEW b \in Rumor, a.domain # b.domain
             PROVE  ClaimBefore(a, b) \/ ClaimBefore(b, a)
    OBVIOUS
<1>1. a.token \in Token /\ b.token \in Token
    BY RumorFields
<1>2. a.domain < b.domain \/ b.domain < a.domain
    BY RumorFields
<1>3. KeyLeq(a.token, b.token) \/ KeyLeq(b.token, a.token)
    BY <1>1, TokenFields DEF KeyLeq
<1> QED
    BY <1>2, <1>3 DEF ClaimBefore

-----------------------------------------------------------------------------
(* Truncation                                                              *)

\* A claim that comes before another has the smaller rank.
LEMMA RankGrows ==
    ASSUME NEW hc \in KeyedClaims, NEW t,
           NEW d \in LiveClaims(hc, t), NEW e \in LiveClaims(hc, t),
           ClaimBefore(hc[e], hc[d])
    PROVE  Cardinality({x \in LiveClaims(hc, t) : ClaimBefore(hc[x], hc[e])})
             < Cardinality({x \in LiveClaims(hc, t) : ClaimBefore(hc[x], hc[d])})
<1> DEFINE live == LiveClaims(hc, t)
           before(y) == {x \in live : ClaimBefore(hc[x], hc[y])}
<1>1. IsFiniteSet(live) /\ live \subseteq Domains
    BY DomainsAssumption, FS_Subset DEF LiveClaims
<1>2. \A x \in live : hc[x] \in Rumor
    BY <1>1 DEF LiveClaims, KeyedClaims
<1>3. /\ IsFiniteSet(before(d)) /\ Cardinality(before(d)) \in Nat
      /\ IsFiniteSet(before(e)) /\ Cardinality(before(e)) \in Nat
    BY <1>1, FS_Subset, FS_CardinalityType
<1>4. before(e) \subseteq before(d)
    BY <1>2, BeforeTransitive
<1>5. e \in before(d) /\ e \notin before(e)
    BY <1>2, BeforeIrreflexive
<1> HIDE DEF before
<1>6. /\ Cardinality(before(e)) <= Cardinality(before(d))
      /\ Cardinality(before(d)) # Cardinality(before(e))
    BY <1>3, <1>4, <1>5, FS_Subset
<1>7. Cardinality(before(e)) < Cardinality(before(d))
    BY <1>3, <1>6
<1> QED
    BY <1>7 DEF before

\* truncate(MAX_REGISTRATIONS_PER_CLIENT): a claim's rank, the number of claims
\* before it, tells any two claims apart, so at most MaxRegs of them rank below
\* MaxRegs.
THEOREM WinnersWithinCap ==
    ASSUME NEW hc \in KeyedClaims, NEW t
    PROVE  IsFiniteSet(Winners(hc, t)) /\ Cardinality(Winners(hc, t)) <= MaxRegs
<1> DEFINE live == LiveClaims(hc, t)
           before(d) == {e \in live : ClaimBefore(hc[e], hc[d])}
           W == {d \in live : Cardinality(before(d)) < MaxRegs}
           rank == [d \in W |-> Cardinality(before(d))]
<1>1. IsFiniteSet(live) /\ live \subseteq Domains
    BY DomainsAssumption, FS_Subset DEF LiveClaims
<1>2. \A d \in live : hc[d] \in Rumor /\ hc[d].domain = d
    BY <1>1 DEF LiveClaims, KeyedClaims
<1>3. \A d \in live : IsFiniteSet(before(d)) /\ Cardinality(before(d)) \in Nat
    BY <1>1, FS_Subset, FS_CardinalityType
<1>4. ASSUME NEW d \in live, NEW e \in live, ClaimBefore(hc[e], hc[d])
      PROVE  Cardinality(before(e)) < Cardinality(before(d))
    BY <1>4, RankGrows
<1>5. \A d, e \in W : rank[d] = rank[e] => d = e
  <2> SUFFICES ASSUME NEW d \in W, NEW e \in W, d # e
               PROVE  Cardinality(before(d)) # Cardinality(before(e))
      OBVIOUS
  <2>1. ClaimBefore(hc[d], hc[e]) \/ ClaimBefore(hc[e], hc[d])
      BY <1>2, BeforeTotal
  <2> HIDE DEF before
  <2> QED
      BY <1>3, <1>4, <2>1
<1>6. rank \in Injection(W, 0 .. (MaxRegs - 1))
  <2>1. \A d \in W : Cardinality(before(d)) \in 0 .. (MaxRegs - 1)
    <3> HIDE DEF before
    <3> QED
        BY <1>3, NumbersAssumption
  <2> QED
      BY <1>5, <2>1 DEF Injection, IsInjective
<1>7. IsFiniteSet(0 .. (MaxRegs - 1)) /\ Cardinality(0 .. (MaxRegs - 1)) = MaxRegs
    BY FS_Interval, NumbersAssumption
<1>8. IsFiniteSet(W) /\ Cardinality(W) <= MaxRegs
  <2> HIDE DEF W, rank
  <2> QED
      BY <1>6, <1>7, FS_Injection
<1> QED
    BY <1>8 DEF Winners

\* A live claim that truncate cuts off has at least MaxRegs live claims before it.
\* Their ranks are all the numbers below its own, so exactly the cap is admitted.
THEOREM TruncationFillsCap ==
    ASSUME NEW hc \in KeyedClaims, NEW t,
           NEW lost \in LiveClaims(hc, t), lost \notin Winners(hc, t)
    PROVE  Cardinality(Winners(hc, t)) >= MaxRegs
<1> DEFINE live == LiveClaims(hc, t)
           before(d) == {e \in live : ClaimBefore(hc[e], hc[d])}
           n == Cardinality(before(lost))
           rank == [d \in before(lost) |-> Cardinality(before(d))]
           W == {d \in live : Cardinality(before(d)) < MaxRegs}
           rankW == [d \in W |-> Cardinality(before(d))]
<1>1. IsFiniteSet(live) /\ live \subseteq Domains
    BY DomainsAssumption, FS_Subset DEF LiveClaims
<1>2. \A d \in live : hc[d] \in Rumor /\ hc[d].domain = d
    BY <1>1 DEF LiveClaims, KeyedClaims
<1>3. \A d \in live : IsFiniteSet(before(d)) /\ Cardinality(before(d)) \in Nat
    BY <1>1, FS_Subset, FS_CardinalityType
<1>4. lost \in live /\ W = Winners(hc, t)
    BY DEF Winners
<1>5. n \in Nat /\ n >= MaxRegs /\ IsFiniteSet(before(lost))
  <2> HIDE DEF before
  <2>1. ~ (Cardinality(before(lost)) < MaxRegs)
      BY <1>4
  <2> QED
      BY <1>3, <1>4, <2>1, NumbersAssumption
<1>6. rank \in Injection(before(lost), 0 .. n - 1)
  <2>1. ASSUME NEW d \in live, NEW e \in live, ClaimBefore(hc[e], hc[d])
        PROVE  Cardinality(before(e)) < Cardinality(before(d))
      BY <2>1, RankGrows
  <2>2. before(lost) \subseteq live /\ \A d \in before(lost) : ClaimBefore(hc[d], hc[lost])
      OBVIOUS
  <2>3. \A d, e \in live : d # e => ClaimBefore(hc[d], hc[e]) \/ ClaimBefore(hc[e], hc[d])
      BY <1>2, BeforeTotal
  <2> HIDE DEF before, live
  <2>4. \A d \in before(lost) : Cardinality(before(d)) \in 0 .. n - 1
      BY <1>3, <1>4, <2>1, <2>2
  <2>5. \A d, e \in before(lost) : d # e => Cardinality(before(d)) # Cardinality(before(e))
      BY <1>3, <2>1, <2>2, <2>3
  <2> QED
      BY <2>4, <2>5 DEF Injection, IsInjective
<1>7. IsFiniteSet(0 .. n - 1) /\ Cardinality(0 .. n - 1) = n
    BY <1>5, FS_Interval
<1>8. rank \in Surjection(before(lost), 0 .. n - 1)
  <2> HIDE DEF rank, before
  <2> QED
      BY <1>6, <1>7, FS_Injection
<1>9. rankW \in Surjection(W, 0 .. MaxRegs - 1)
  <2>1. \A d \in W : rankW[d] \in 0 .. MaxRegs - 1
    <3> HIDE DEF before
    <3> QED
        BY <1>3, NumbersAssumption
  <2>2. \A i \in 0 .. MaxRegs - 1 : \E d \in W : rankW[d] = i
    <3> SUFFICES ASSUME NEW i \in 0 .. MaxRegs - 1 PROVE \E d \in W : rankW[d] = i
        OBVIOUS
    <3>1. i \in 0 .. n - 1
        BY <1>5, NumbersAssumption
    <3>2. PICK d \in before(lost) : rank[d] = i
        BY <1>8, <3>1 DEF Surjection
    <3>3. d \in live /\ Cardinality(before(d)) = i
        BY <3>2
    <3> HIDE DEF before
    <3> QED
        BY <3>3, NumbersAssumption
  <2> QED
      BY <2>1, <2>2 DEF Surjection
<1>10. IsFiniteSet(W) /\ Cardinality(W) \in Nat
    BY <1>1, FS_Subset, FS_CardinalityType
<1>11. Cardinality(0 .. MaxRegs - 1) = MaxRegs
    BY FS_Interval, NumbersAssumption
<1>12. Cardinality(0 .. MaxRegs - 1) <= Cardinality(W)
  <2> HIDE DEF W, rankW
  <2> QED
      BY <1>9, <1>10, FS_Surjection
<1>13. Cardinality(W) >= MaxRegs
  <2> HIDE DEF W
  <2> QED
      BY <1>10, <1>11, <1>12, NumbersAssumption
<1> QED
    BY <1>4, <1>13

-----------------------------------------------------------------------------
(* The two halves of reconcile_quota                                       *)

\* What reconcile_quota leaves in quota_claims[host].
LEMMA AdmittedFacts ==
    ASSUME NEW hc \in KeyedClaims, NEW t
    PROVE  /\ Admitted(hc, t) \in KeyedClaims
           /\ {d \in Domains : Admitted(hc, t)[d] # None} = Winners(hc, t)
           /\ \A d \in Domains :
                 Admitted(hc, t)[d] # None =>
                     Admitted(hc, t)[d] = hc[d] /\ IsAuthorized(hc[d])
<1>1. \A d \in Winners(hc, t) : d \in Domains /\ hc[d] # None /\ IsAuthorized(hc[d])
    BY DEF Winners, LiveClaims
<1>2. hc \in [Domains -> Rumor \cup {None}]
    BY DEF KeyedClaims
<1>3. Admitted(hc, t) \in [Domains -> Rumor \cup {None}]
    BY <1>2 DEF Admitted
<1>4. \A d \in Domains : Admitted(hc, t)[d] # None => Admitted(hc, t)[d] = hc[d]
    BY DEF Admitted
<1> QED
    BY <1>1, <1>2, <1>3, <1>4 DEF Admitted, KeyedClaims

\* What it leaves in registrations: a registration that is not one of the
\* host's admitted claims is one that was there before, of another host or
\* without a rumor.
LEMMA InstallFacts ==
    ASSUME NEW regs \in [Domains -> Registration \cup {None}], NEW h \in Hosts,
           NEW adm \in [Domains -> Rumor \cup {None}]
    PROVE  /\ Install(regs, h, adm) \in [Domains -> Registration \cup {None}]
           /\ \A d \in Domains :
                 \/ Install(regs, h, adm)[d] = None
                 \/ /\ Install(regs, h, adm)[d] = regs[d]
                    /\ regs[d] # None
                    /\ regs[d].host # h \/ regs[d].rumor = None
                 \/ /\ Install(regs, h, adm)[d] = FromRumor(adm[d], h)
                    /\ adm[d] # None
                    /\ \/ regs[d] = None
                       \/ regs[d].host = h
                       \/ NegotiateLocally(regs[d].token, adm[d].token) = adm[d].token
<1>1. \A r \in Rumor : FromRumor(r, h) \in Registration
    BY DEF FromRumor, Rumor, Registration
<1>2. Install(regs, h, adm) \in [Domains -> Registration \cup {None}]
    BY <1>1 DEF Install
<1> QED
    BY <1>2 DEF Install, Retained

-----------------------------------------------------------------------------
(* What probes and set-records requests write                              *)

\* A rumor is its fields.
LEMMA RumorEquality ==
    \A r, s \in Rumor :
        /\ r.domain = s.domain /\ r.token = s.token /\ r.client = s.client
        /\ r.probeAt = s.probeAt /\ r.records = s.records
        /\ r.recSig = s.recSig /\ r.signed = s.signed
        => r = s
BY DEF Rumor

\* The claim behind a registration, field by field.
LEMMA BacksFields ==
    ASSUME NEW reg \in Registration, reg.rumor # None, NEW claim \in Rumor
    PROVE  Backs(claim, reg) <=>
             /\ claim.domain = reg.rumor.domain /\ claim.token = reg.rumor.token
             /\ claim.client = reg.rumor.client /\ claim.probeAt = reg.rumor.probeAt
             /\ claim.recSig = reg.rumor.recSig /\ claim.signed = reg.rumor.signed
             /\ IsAuthorized(claim) => claim.records = reg.rumor.records
<1> DEFINE rumor == reg.rumor
           drifted == [rumor EXCEPT !.records = claim.records]
<1>1. rumor \in Rumor /\ claim # None /\ claim.records \in Records
    BY NoneAssumption DEF Registration, Rumor
<1> HIDE DEF rumor
<1>2. /\ drifted \in Rumor /\ drifted.records = claim.records
      /\ drifted.domain = rumor.domain /\ drifted.token = rumor.token
      /\ drifted.client = rumor.client /\ drifted.probeAt = rumor.probeAt
      /\ drifted.recSig = rumor.recSig /\ drifted.signed = rumor.signed
    BY <1>1 DEF Rumor
<1> DEFINE same == /\ claim.domain = rumor.domain /\ claim.token = rumor.token
                   /\ claim.client = rumor.client /\ claim.probeAt = rumor.probeAt
                   /\ claim.recSig = rumor.recSig /\ claim.signed = rumor.signed
<1>3. claim = drifted <=> same
  <2> HIDE DEF drifted
  <2> QED
      BY <1>1, <1>2, RumorEquality
<1>4. same => (claim = rumor <=> claim.records = rumor.records)
    BY <1>1, RumorEquality
<1> QED
    BY <1>1, <1>3, <1>4 DEF Backs, rumor

\* A claim made by reconcile_quota into a registration backs it.
LEMMA InstalledIsBacked ==
    ASSUME NEW r \in Rumor, IsAuthorized(r), NEW h \in Hosts
    PROVE  /\ FromRumor(r, h) \in Registration /\ FromRumor(r, h).rumor = r
           /\ FromRumor(r, h).host = h
           /\ ServesSigned(FromRumor(r, h)) /\ Backs(r, FromRumor(r, h))
<1>1. /\ FromRumor(r, h) \in Registration
      /\ FromRumor(r, h).rumor = r /\ FromRumor(r, h).host = h
      /\ FromRumor(r, h).records = r.records
      /\ FromRumor(r, h).token = r.token /\ FromRumor(r, h).client = r.client
    BY DEF FromRumor, Rumor, Registration
<1>2. r # None
    BY NoneAssumption
<1> HIDE DEF FromRumor
<1> QED
    BY <1>1, <1>2, BacksFields DEF ServesSigned

\* refresh_probe_evidence changes the probe timestamp and nothing else,
LEMMA RefreshFacts ==
    ASSUME NEW c \in Clients, NEW ts \in Nat
    PROVE  /\ \A r \in Rumor \cup {None} :
                 /\ Refreshed(r, c, ts) \in Rumor \cup {None}
                 /\ Refreshed(r, c, ts) = None <=> r = None
                 /\ r # None =>
                      /\ Refreshed(r, c, ts).domain = r.domain
                      /\ Refreshed(r, c, ts).client = r.client
                      /\ Refreshed(r, c, ts).token = r.token
                      /\ Refreshed(r, c, ts).records = r.records
                      /\ Refreshed(r, c, ts).recSig = r.recSig
                      /\ Refreshed(r, c, ts).signed = r.signed
                      /\ Refreshed(r, c, ts).probeAt = IF r.client = c THEN ts ELSE r.probeAt
           /\ \A reg \in Registration :
                 /\ RefreshedReg(reg, c, ts) \in Registration
                 /\ RefreshedReg(reg, c, ts).client = reg.client
                 /\ RefreshedReg(reg, c, ts).host = reg.host
                 /\ RefreshedReg(reg, c, ts).token = reg.token
                 /\ RefreshedReg(reg, c, ts).records = reg.records
                 /\ RefreshedReg(reg, c, ts).rumor =
                      IF reg.client = c THEN Refreshed(reg.rumor, c, ts) ELSE reg.rumor
<1>1. \A r \in Rumor \cup {None} :
         /\ Refreshed(r, c, ts) \in Rumor \cup {None}
         /\ Refreshed(r, c, ts) = None <=> r = None
         /\ r # None =>
              /\ Refreshed(r, c, ts).domain = r.domain
              /\ Refreshed(r, c, ts).client = r.client
              /\ Refreshed(r, c, ts).token = r.token
              /\ Refreshed(r, c, ts).records = r.records
              /\ Refreshed(r, c, ts).recSig = r.recSig
              /\ Refreshed(r, c, ts).signed = r.signed
              /\ Refreshed(r, c, ts).probeAt = IF r.client = c THEN ts ELSE r.probeAt
    BY NoneAssumption DEF Refreshed, Rumor
<1>2. \A reg \in Registration :
         /\ RefreshedReg(reg, c, ts) \in Registration
         /\ RefreshedReg(reg, c, ts).client = reg.client
         /\ RefreshedReg(reg, c, ts).host = reg.host
         /\ RefreshedReg(reg, c, ts).token = reg.token
         /\ RefreshedReg(reg, c, ts).records = reg.records
         /\ RefreshedReg(reg, c, ts).rumor =
              IF reg.client = c THEN Refreshed(reg.rumor, c, ts) ELSE reg.rumor
    BY <1>1, NoneAssumption DEF RefreshedReg, Registration
<1> QED
    BY <1>1, <1>2

\* so registration and claim agree as before.
LEMMA RefreshAgrees ==
    ASSUME NEW c \in Clients, NEW ts \in Nat, NEW reg \in Registration, reg.rumor # None,
           ServesSigned(reg)
    PROVE  /\ RefreshedReg(reg, c, ts).rumor # None
           /\ ServesSigned(RefreshedReg(reg, c, ts))
           /\ \A claim \in Rumor : Backs(claim, reg) =>
                 Backs(Refreshed(claim, c, ts), RefreshedReg(reg, c, ts))
<1> DEFINE new == RefreshedReg(reg, c, ts)
<1>1. reg.rumor \in Rumor /\ reg.client = reg.rumor.client
    BY DEF ServesSigned, Registration
<1>2. /\ new \in Registration /\ new.rumor # None /\ new.rumor \in Rumor
      /\ new.client = reg.client /\ new.token = reg.token /\ new.records = reg.records
      /\ new.rumor.domain = reg.rumor.domain /\ new.rumor.client = reg.rumor.client
      /\ new.rumor.token = reg.rumor.token /\ new.rumor.records = reg.rumor.records
      /\ new.rumor.recSig = reg.rumor.recSig /\ new.rumor.signed = reg.rumor.signed
      /\ new.rumor.probeAt = IF reg.rumor.client = c THEN ts ELSE reg.rumor.probeAt
    BY <1>1, RefreshFacts
<1> HIDE DEF new
<1>3. ServesSigned(new)
    BY <1>2 DEF ServesSigned, IsAuthorized
<1>4. ASSUME NEW claim \in Rumor, Backs(claim, reg)
      PROVE  Backs(Refreshed(claim, c, ts), new)
  <2> DEFINE r == Refreshed(claim, c, ts)
  <2>1. claim # None
      BY NoneAssumption
  <2>2. /\ r \in Rumor /\ r.domain = claim.domain /\ r.client = claim.client
        /\ r.token = claim.token /\ r.records = claim.records
        /\ r.recSig = claim.recSig /\ r.signed = claim.signed
        /\ r.probeAt = IF claim.client = c THEN ts ELSE claim.probeAt
      BY <2>1, RefreshFacts
  <2> HIDE DEF r
  <2>3. IsAuthorized(r) <=> IsAuthorized(claim)
      BY <2>2 DEF IsAuthorized
  <2>4. Backs(r, new)
      BY <1>2, <1>4, <2>2, <2>3, BacksFields
  <2> QED
      BY <2>4 DEF r
<1> QED
    BY <1>2, <1>3, <1>4 DEF new

\* attach_record_evidence changes a claim's signature,
LEMMA EvidenceFacts ==
    ASSUME NEW c \in Clients, NEW recs \in Records, NEW r \in Rumor \cup {None}
    PROVE  /\ WithRecordEvidence(r, c, recs) \in Rumor \cup {None}
           /\ WithRecordEvidence(r, c, recs) = None <=> r = None
           /\ r # None =>
                /\ WithRecordEvidence(r, c, recs).domain = r.domain
                /\ WithRecordEvidence(r, c, recs).client = r.client
                /\ WithRecordEvidence(r, c, recs).token = r.token
                /\ WithRecordEvidence(r, c, recs).probeAt = r.probeAt
                /\ WithRecordEvidence(r, c, recs).records = r.records
                /\ WithRecordEvidence(r, c, recs).signed = r.signed
                /\ r.client = c => WithRecordEvidence(r, c, recs).recSig = recs
BY NoneAssumption DEF WithRecordEvidence, Rumor

\* and a registration's records together with its rumor's,
LEMMA RecordsFacts ==
    ASSUME NEW recs \in Records, NEW reg \in Registration
    PROVE  /\ WithRecords(reg, recs) \in Registration
           /\ WithRecords(reg, recs).client = reg.client
           /\ WithRecords(reg, recs).host = reg.host
           /\ WithRecords(reg, recs).token = reg.token
           /\ WithRecords(reg, recs).records = recs
           /\ WithRecords(reg, recs).rumor = None <=> reg.rumor = None
           /\ reg.rumor # None =>
                /\ WithRecords(reg, recs).rumor.records = recs
                /\ WithRecords(reg, recs).rumor.recSig = recs
                /\ WithRecords(reg, recs).rumor.domain = reg.rumor.domain
                /\ WithRecords(reg, recs).rumor.token = reg.rumor.token
                /\ WithRecords(reg, recs).rumor.client = reg.rumor.client
                /\ WithRecords(reg, recs).rumor.probeAt = reg.rumor.probeAt
                /\ WithRecords(reg, recs).rumor.signed = reg.rumor.signed
BY NoneAssumption DEF WithRecords, Registration, Rumor

\* after which they differ in nothing but the records, and only the claim is void.
LEMMA RecordsAgree ==
    ASSUME NEW recs \in Records, NEW reg \in Registration, reg.rumor # None,
           ServesSigned(reg)
    PROVE  /\ ServesSigned(WithRecords(reg, recs))
           /\ \A claim \in Rumor : Backs(claim, reg) =>
                 Backs(WithRecordEvidence(claim, reg.client, recs), WithRecords(reg, recs))
<1> DEFINE new == WithRecords(reg, recs)
           c == reg.client
<1>1. reg.rumor.client = c /\ c \in Clients /\ reg.rumor.signed /\ recs # None
    BY RecordsAssumption DEF ServesSigned, Registration, IsAuthorized
<1>2. /\ new \in Registration /\ new.rumor # None
      /\ new.client = c /\ new.token = reg.token /\ new.records = recs
      /\ new.rumor.records = recs /\ new.rumor.recSig = recs
      /\ new.rumor.domain = reg.rumor.domain /\ new.rumor.token = reg.rumor.token
      /\ new.rumor.client = reg.rumor.client /\ new.rumor.probeAt = reg.rumor.probeAt
      /\ new.rumor.signed = reg.rumor.signed
    BY RecordsFacts
<1> HIDE DEF new, c
<1>3. ServesSigned(new)
    BY <1>1, <1>2 DEF ServesSigned, IsAuthorized
<1>4. ASSUME NEW claim \in Rumor, Backs(claim, reg)
      PROVE  Backs(WithRecordEvidence(claim, c, recs), new)
  <2> DEFINE r == WithRecordEvidence(claim, c, recs)
  <2>1. claim # None
      BY NoneAssumption
  <2>2. /\ claim.domain = reg.rumor.domain /\ claim.token = reg.rumor.token
        /\ claim.client = reg.rumor.client /\ claim.probeAt = reg.rumor.probeAt
        /\ claim.signed = reg.rumor.signed
      BY <1>4, BacksFields
  <2>3. /\ r \in Rumor /\ r.domain = claim.domain /\ r.client = claim.client
        /\ r.token = claim.token /\ r.probeAt = claim.probeAt
        /\ r.signed = claim.signed /\ r.recSig = recs
    <3>1. claim.client = c /\ c \in Clients /\ claim \in Rumor \cup {None}
        BY <1>1, <2>2
    <3> QED
        BY <2>1, <3>1, EvidenceFacts
  <2> HIDE DEF r
  <2>4. IsAuthorized(r) => r.records = recs
      BY <1>1, <2>3 DEF IsAuthorized
  <2>5. Backs(r, new)
      BY <1>2, <2>2, <2>3, <2>4, BacksFields
  <2> QED
      BY <2>5 DEF r
<1> QED
    BY <1>3, <1>4 DEF new, c

-----------------------------------------------------------------------------
(* Induction without operator parameters: a set of naturals that holds 0   *)
(* and the successor of each of its elements holds them all.  From it, a   *)
(* recursive function over the rounds of a loop exists, and one over the   *)
(* positions of a walk.                                                    *)

\* A non-empty set of naturals has a least element.
LEMMA LeastNat ==
    ASSUME NEW S \in SUBSET Nat, S # {}
    PROVE  \E n \in S : \A m \in S : n <= m
<1> DEFINE R == OpToRel(<, Nat)
<1>1. IsWellFoundedOn(R, Nat)
    BY NatLessThanWellFounded
<1>2. \E x \in S : \A y \in S : ~ (<<y, x>> \in R)
    BY <1>1, WFMin
<1>3. \A x, y \in Nat : x < y => <<x, y>> \in R
    BY DEF OpToRel
<1> HIDE DEF R
<1>4. PICK x \in S : \A y \in S : ~ (<<y, x>> \in R)
    BY <1>2
<1>5. ASSUME NEW y \in S PROVE x <= y
  <2>1. x \in Nat /\ y \in Nat /\ ~ (<<y, x>> \in R)
      BY <1>4
  <2>2. ~ (y < x)
      BY <2>1, <1>3
  <2> QED
      BY <2>1, <2>2
<1> QED
    BY <1>4, <1>5

\* Induction, for a set of naturals.
LEMMA SetInduction ==
    ASSUME NEW S, 0 \in S, \A n \in Nat : n \in S => n + 1 \in S
    PROVE  Nat \subseteq S
<1> SUFFICES ASSUME NEW k \in Nat, k \notin S PROVE FALSE
    OBVIOUS
<1>1. PICK n \in Nat \ S : \A m \in Nat \ S : n <= m
  <2>1. Nat \ S \in SUBSET Nat /\ Nat \ S # {}
      OBVIOUS
  <2> QED
      BY <2>1, LeastNat
<1>2. n - 1 \in Nat /\ n - 1 \in S
    BY <1>1
<1> QED
    BY <1>1, <1>2

\* What a loop of n rounds does: round i takes one value of S to another.
Rounds(S, n) == [(1 .. n) \X S -> S]

\* The values it takes from b on.
Results(S, n) == [0 .. n -> S]
AreResults(f, b, n, G) == f[0] = b /\ \A i \in 1 .. n : f[i] = G[<<i, f[i - 1]>>]

\* Where every round stays in S, its values exist, and are in S.
LEMMA FoldExists ==
    ASSUME NEW S, NEW b \in S, NEW n \in Nat, NEW G \in Rounds(S, n)
    PROVE  \E f \in Results(S, n) : AreResults(f, b, n, G)
<1> USE DEF Rounds
<1> DEFINE Lists(k, f) == f[0] = b /\ \A i \in 1 .. k : f[i] = G[<<i, f[i - 1]>>]
           T == {k \in Nat : k <= n => \E f \in [0 .. k -> S] : Lists(k, f)}
<1>1. 0 \in T
  <2>1. [i \in 0 .. 0 |-> b] \in [0 .. 0 -> S] /\ Lists(0, [i \in 0 .. 0 |-> b])
      OBVIOUS
  <2> QED
      BY <2>1
<1>2. ASSUME NEW k \in Nat, k \in T PROVE k + 1 \in T
  <2> SUFFICES ASSUME k + 1 <= n PROVE \E f \in [0 .. k + 1 -> S] : Lists(k + 1, f)
      OBVIOUS
  <2>1. PICK f \in [0 .. k -> S] : Lists(k, f)
      BY <1>2
  <2> DEFINE g == [i \in 0 .. k + 1 |-> IF i <= k THEN f[i] ELSE G[<<k + 1, f[k]>>]]
  <2>2. f[k] \in S /\ k + 1 \in 1 .. n
      OBVIOUS
  <2>3. G[<<k + 1, f[k]>>] \in S
      BY <2>2
  <2>4. g \in [0 .. k + 1 -> S]
      BY <2>3
  <2>5. \A i \in 0 .. k : g[i] = f[i]
      OBVIOUS
  <2>6. g[k + 1] = G[<<k + 1, g[k]>>]
    <3>1. k + 1 \in 0 .. k + 1 /\ ~ (k + 1 <= k) /\ k \in 0 .. k
        OBVIOUS
    <3>2. g[k + 1] = G[<<k + 1, f[k]>>]
        BY <3>1
    <3>3. g[k] = f[k]
        BY <3>1, <2>5
    <3> HIDE DEF g
    <3> QED
        BY <3>2, <3>3
  <2>7. Lists(k + 1, g)
    <3> HIDE DEF g
    <3>1. g[0] = b
        BY <2>1, <2>5
    <3>2. ASSUME NEW i \in 1 .. k + 1 PROVE g[i] = G[<<i, g[i - 1]>>]
      <4>1. CASE i = k + 1
          BY <4>1, <2>6
      <4>2. CASE i # k + 1
        <5>1. i \in 1 .. k /\ i - 1 \in 0 .. k
            BY <4>2
        <5> QED
            BY <5>1, <2>1, <2>5
      <4> QED
          BY <4>1, <4>2
    <3> QED
        BY <3>1, <3>2
  <2> HIDE DEF g
  <2> QED
      BY <2>4, <2>7
<1>3. Nat \subseteq T
  <2> HIDE DEF T
  <2> QED
      BY <1>1, <1>2, SetInduction
<1>4. n \in T
    BY <1>3
<1>5. \E f \in [0 .. n -> S] : Lists(n, f)
    BY <1>4
<1> QED
    BY <1>5 DEF Results, AreResults

\* What a walk over the positions 1 .. n does: from p it goes on to next[p].
Walks(n) == [1 .. n -> 1 .. n]
Outcomes(S, n) == [1 .. n -> S]

\* The outcomes of the walks from every position: out where it stops, and
\* elsewhere what G makes of the outcome further on.
AreOutcomes(f, n, stop, out, next, G) ==
    \A p \in 1 .. n : /\ p \in stop => f[p] = out[p]
                      /\ p \notin stop => f[p] = G[<<p, f[next[p]]>>]

\* Where a walk only goes forwards, its outcomes exist.
LEMMA WalkExists ==
    ASSUME NEW S, NEW n \in Nat, NEW stop, NEW out \in Outcomes(S, n), NEW next \in Walks(n),
           \A p \in 1 .. n : p \notin stop => p < next[p],
           NEW G \in Rounds(S, n)
    PROVE  \E f \in Outcomes(S, n) : AreOutcomes(f, n, stop, out, next, G)
<1> USE DEF Rounds, Outcomes, Walks
<1> DEFINE Right(f, p) == /\ p \in stop => f[p] = out[p]
                          /\ p \notin stop => f[p] = G[<<p, f[next[p]]>>]
           Done(f, k) == \A p \in 1 .. n : p > n - k => Right(f, p)
           T == {k \in Nat : k <= n => \E f \in [1 .. n -> S] : Done(f, k)}
<1>1. 0 \in T
  <2>1. out \in [1 .. n -> S] /\ \A p \in 1 .. n : ~ (p > n - 0)
      OBVIOUS
  <2> QED
      BY <2>1
<1>2. ASSUME NEW k \in Nat, k \in T PROVE k + 1 \in T
  <2> HIDE DEF Done
  <2> SUFFICES ASSUME k + 1 <= n PROVE \E f \in [1 .. n -> S] : Done(f, k + 1)
      OBVIOUS
  <2>1. PICK f \in [1 .. n -> S] : Done(f, k)
      BY <1>2
  <2> DEFINE q == n - k
             v == IF q \in stop THEN out[q] ELSE G[<<q, f[next[q]]>>]
             g == [f EXCEPT ![q] = v]
  <2>2. q \in 1 .. n /\ next[q] \in 1 .. n /\ f[next[q]] \in S /\ out[q] \in S
      OBVIOUS
  <2>3. v \in S
    <3>1. G[<<q, f[next[q]]>>] \in S
      <4> HIDE DEF q
      <4> QED
          BY <2>2
    <3> QED
        BY <2>2, <3>1
  <2>4. g \in [1 .. n -> S]
    <3> HIDE DEF q, v
    <3> QED
        BY <2>2, <2>3
  <2>5. g[q] = v /\ \A p \in 1 .. n : p > q => g[p] = f[p]
    <3> HIDE DEF v
    <3> QED
        BY <2>2
  <2>6. ASSUME NEW p \in 1 .. n, p > n - (k + 1) PROVE Right(g, p)
    <3> HIDE DEF g
    <3>1. CASE p = q
      <4>1. q \notin stop => g[next[q]] = f[next[q]]
          BY <2>2, <2>5
      <4> QED
          BY <2>5, <3>1, <4>1
    <3>2. CASE p # q
      <4>1. p > q
          BY <3>2, <2>6, <2>2
      <4>2. p \notin stop => next[p] \in 1 .. n /\ next[p] > q
          BY <4>1, <2>2
      <4>3. p \notin stop => g[next[p]] = f[next[p]]
          BY <4>2, <2>5
      <4>4. g[p] = f[p] /\ Right(f, p)
          BY <4>1, <2>1, <2>5 DEF Done
      <4> QED
          BY <4>3, <4>4
    <3> QED
        BY <3>1, <3>2
  <2>7. Done(g, k + 1)
    <3> HIDE DEF g, Right
    <3> QED
        BY <2>6 DEF Done
  <2> HIDE DEF g
  <2> QED
      BY <2>4, <2>7
<1>3. Nat \subseteq T
  <2> HIDE DEF T
  <2> QED
      BY <1>1, <1>2, SetInduction
<1>4. n \in T
    BY <1>3
<1>5. PICK f \in [1 .. n -> S] : Done(f, n)
    BY <1>4
<1>6. \A p \in 1 .. n : p > n - n
    OBVIOUS
<1> QED
    BY <1>5, <1>6 DEF AreOutcomes
=============================================================================
