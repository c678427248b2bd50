---------------------------- MODULE GossipProofs ----------------------------
(***************************************************************************)
(* Facts about module Gossip, for every network of nodes, whatever is      *)
(* lost, duplicated or reordered: an answer is used once, the challenges   *)
(* are bounded, and every node's store stays within what Store promises.   *)
(*                                                                         *)
(* The invariant has three parts, which the actions disturb separately:    *)
(* the challenges and their answers (ExchangeInv), the stores (StoreInv),  *)
(* and the datagrams under way (NetInv).  A store is handled as one value, *)
(* a member of Sound, so that adopting the rumors of a datagram one by one *)
(* is a fold that stays in Sound.                                          *)
(***************************************************************************)
EXTENDS Gossip, StoreProofs, SequenceTheorems

-----------------------------------------------------------------------------
(* pending_challenges as a sequence                                        *)

\* A sequence without its element i.
LEMMA RemoveAtFacts ==
    ASSUME NEW S, NEW s \in Seq(S), NEW i \in 1 .. Len(s)
    PROVE  /\ RemoveAt(s, i) \in Seq(S)
           /\ Len(RemoveAt(s, i)) = Len(s) - 1
           /\ \A j \in 1 .. Len(s) - 1 :
                 RemoveAt(s, i)[j] = s[IF j < i THEN j ELSE j + 1]
<1> DEFINE a == SubSeq(s, 1, i - 1)
           b == SubSeq(s, i + 1, Len(s))
<1>1. Len(s) \in Nat /\ i \in Nat /\ i - 1 \in Int /\ i + 1 \in Int
    OBVIOUS
<1>2. \A j \in 1 .. Len(s) : s[j] \in S
    OBVIOUS
<1>3. /\ a \in Seq(S) /\ Len(a) = i - 1
      /\ \A j \in 1 .. i - 1 : a[j] = s[j]
    BY <1>1, <1>2, SubSeqProperties
<1>4. /\ b \in Seq(S) /\ Len(b) = Len(s) - i
      /\ \A j \in 1 .. Len(s) - i : b[j] = s[i + j]
    BY <1>1, <1>2, SubSeqProperties
<1> HIDE DEF a, b
<1>5. /\ a \o b \in Seq(S) /\ Len(a \o b) = Len(s) - 1
      /\ \A j \in 1 .. Len(s) - 1 :
            (a \o b)[j] = IF j < i THEN a[j] ELSE b[j - (i - 1)]
  <2>1. /\ a \o b \in Seq(S) /\ Len(a \o b) = Len(a) + Len(b)
        /\ \A j \in 1 .. Len(a) + Len(b) :
              (a \o b)[j] = IF j <= Len(a) THEN a[j] ELSE b[j - Len(a)]
      BY <1>3, <1>4, ConcatProperties
  <2>2. Len(a) + Len(b) = Len(s) - 1
      BY <1>1, <1>3, <1>4
  <2> QED
      BY <1>1, <1>3, <2>1, <2>2
<1>6. RemoveAt(s, i) = a \o b
    BY DEF RemoveAt, a, b
<1>7. ASSUME NEW j \in 1 .. Len(s) - 1
      PROVE  RemoveAt(s, i)[j] = s[IF j < i THEN j ELSE j + 1]
    BY <1>1, <1>3, <1>4, <1>5, <1>6
<1> QED
    BY <1>5, <1>6, <1>7

\* The parts of pending's type, by node.
PendingTyped == pending \in [Nodes -> Seq(Pending)]

\* pending_challenges is keyed by the peer's address.
OnePerPeer ==
    \A n \in Nodes : \A i, j \in 1 .. Len(pending[n]) :
        pending[n][i].peer = pending[n][j].peer => i = j

\* pending_challenges.remove leaves the other entries, in their order.
LEMMA WithoutFacts ==
    ASSUME PendingTyped, OnePerPeer, NEW n \in Nodes, NEW p \in Nodes
    PROVE  /\ Without(n, p) \in Seq(Pending)
           /\ Len(Without(n, p)) <= Len(pending[n])
           /\ Outstanding(n, p) # {} => Len(Without(n, p)) = Len(pending[n]) - 1
           /\ \E keep \in [1 .. Len(Without(n, p)) -> 1 .. Len(pending[n])] :
                /\ \A j, k \in 1 .. Len(Without(n, p)) : keep[j] = keep[k] => j = k
                /\ \A j \in 1 .. Len(Without(n, p)) :
                      /\ Without(n, p)[j] = pending[n][keep[j]]
                      /\ pending[n][keep[j]].peer # p
<1> DEFINE s == pending[n]
<1>1. s \in Seq(Pending) /\ Len(s) \in Nat
    BY DEF PendingTyped
<1>2. CASE Outstanding(n, p) = {}
  <2>1. Without(n, p) = s
      BY <1>2 DEF Without
  <2> DEFINE keep == [j \in 1 .. Len(s) |-> j]
  <2>2. \A j \in 1 .. Len(s) : s[j].peer # p
      BY <1>2 DEF Outstanding
  <2>3. keep \in [1 .. Len(s) -> 1 .. Len(s)] /\ \A j \in 1 .. Len(s) : keep[j] = j
      OBVIOUS
  <2> HIDE DEF keep
  <2> QED
      BY <1>1, <1>2, <2>1, <2>2, <2>3
<1>3. CASE Outstanding(n, p) # {}
  <2> DEFINE i == CHOOSE i \in Outstanding(n, p) : TRUE
  <2>1. i \in Outstanding(n, p)
      BY <1>3
  <2> HIDE DEF i
  <2>2. Without(n, p) = RemoveAt(s, i)
      BY <1>3 DEF Without, i
  <2>3. i \in 1 .. Len(s) /\ s[i].peer = p
      BY <2>1 DEF Outstanding
  <2>4. /\ Without(n, p) \in Seq(Pending)
        /\ Len(Without(n, p)) = Len(s) - 1
        /\ \A j \in 1 .. Len(s) - 1 : Without(n, p)[j] = s[IF j < i THEN j ELSE j + 1]
      BY <1>1, <2>2, <2>3, RemoveAtFacts
  <2>5. \A j \in 1 .. Len(s) : j # i => s[j].peer # p
      BY <2>3 DEF OnePerPeer
  <2> DEFINE keep == [j \in 1 .. Len(s) - 1 |-> IF j < i THEN j ELSE j + 1]
  <2>6. /\ keep \in [1 .. Len(s) - 1 -> 1 .. Len(s)]
        /\ \A j \in 1 .. Len(s) - 1 : keep[j] = (IF j < i THEN j ELSE j + 1) /\ keep[j] # i
      BY <1>1, <2>3
  <2> HIDE DEF keep
  <2>7. \A j, k \in 1 .. Len(s) - 1 : keep[j] = keep[k] => j = k
      BY <1>1, <2>3, <2>6
  <2>8. \A j \in 1 .. Len(s) - 1 : Without(n, p)[j] = s[keep[j]] /\ s[keep[j]].peer # p
      BY <2>4, <2>5, <2>6
  <2>9. /\ keep \in [1 .. Len(Without(n, p)) -> 1 .. Len(s)]
        /\ \A j, k \in 1 .. Len(Without(n, p)) : keep[j] = keep[k] => j = k
        /\ \A j \in 1 .. Len(Without(n, p)) :
              Without(n, p)[j] = s[keep[j]] /\ s[keep[j]].peer # p
      BY <2>4, <2>6, <2>7, <2>8
  <2>10. Len(Without(n, p)) <= Len(s)
      BY <1>1, <2>4
  <2> QED
      BY <2>4, <2>9, <2>10
<1> QED
    BY <1>2, <1>3

-----------------------------------------------------------------------------
(* What a store keeps to, however it comes by its claims                   *)

\* The two maps of a store.
Maps == [claims : [Hosts -> KeyedClaims], regs : [Domains -> Registration \cup {None}]]

\* No host has more than MaxRegs claims, and a replicated registration serves what
\* was signed and is backed by its host's claim to the name.
Agreeing(st, d) ==
    Replicated(st.regs[d]) =>
        ServesSigned(st.regs[d]) /\ Backs(st.claims[st.regs[d].host][d], st.regs[d])

Sound == {st \in Maps :
            /\ \A h \in Hosts : Cardinality({d \in Domains : st.claims[h][d] # None}) <= MaxRegs
            /\ \A d \in Domains : Agreeing(st, d)}

\* reconcile_quota keeps a store sound, whatever claims the host now has, and
\* where a registration without a rumor has just been made.
LEMMA ReconcileSound ==
    ASSUME NEW st \in Sound, NEW h \in Hosts, NEW hc \in KeyedClaims,
           NEW rs \in [Domains -> Registration \cup {None}],
           \A d \in Domains : rs[d] = st.regs[d] \/ (rs[d] # None /\ rs[d].rumor = None)
    PROVE  Reconciled([st EXCEPT !.regs = rs], h, hc) \in Sound
<1> DEFINE adm == Admitted(hc, now)
           cs == [st.claims EXCEPT ![h] = adm]
           new == Install(rs, h, adm)
           after == [claims |-> cs, regs |-> new]
<1>1. st.claims \in [Hosts -> KeyedClaims] /\ st.regs \in [Domains -> Registration \cup {None}]
    BY DEF Sound, Maps
<1>2. Reconciled([st EXCEPT !.regs = rs], h, hc) = after
  <2>1. [st EXCEPT !.regs = rs].regs = rs /\ [st EXCEPT !.regs = rs].claims = st.claims
      BY DEF Sound, Maps
  <2> QED
      BY <2>1 DEF Reconciled
<1>3. /\ adm \in KeyedClaims
      /\ {d \in Domains : adm[d] # None} = Winners(hc, now)
      /\ \A d \in Domains : adm[d] # None => adm[d] = hc[d] /\ IsAuthorized(hc[d])
    BY AdmittedFacts
<1>4. adm \in [Domains -> Rumor \cup {None}]
    BY <1>3 DEF KeyedClaims
<1>5. Cardinality({d \in Domains : adm[d] # None}) <= MaxRegs
    BY <1>3, WinnersWithinCap
<1> HIDE DEF adm
<1>6. /\ new \in [Domains -> Registration \cup {None}]
      /\ \A d \in Domains :
            \/ new[d] = None
            \/ new[d] = rs[d] /\ rs[d] # None /\ (rs[d].host # h \/ rs[d].rumor = None)
            \/ new[d] = FromRumor(adm[d], h) /\ adm[d] # None
    BY <1>4, InstallFacts
<1>7. /\ cs \in [Hosts -> KeyedClaims]
      /\ \A g \in Hosts : cs[g] = IF g = h THEN adm ELSE st.claims[g]
    BY <1>1, <1>3
<1>8. after \in Maps /\ after.claims = cs /\ after.regs = new
    BY <1>6, <1>7 DEF Maps
<1> HIDE DEF cs, new, after
<1>9. \A g \in Hosts : Cardinality({d \in Domains : cs[g][d] # None}) <= MaxRegs
  <2> SUFFICES ASSUME NEW g \in Hosts
               PROVE  Cardinality({d \in Domains : cs[g][d] # None}) <= MaxRegs
      OBVIOUS
  <2>1. CASE g = h
      BY <1>5, <1>7, <2>1
  <2>2. CASE g # h
    <3>1. cs[g] = st.claims[g]
        BY <1>7, <2>2
    <3> QED
        BY <3>1 DEF Sound
  <2> QED
      BY <2>1, <2>2
<1>10. ASSUME NEW d \in Domains, new[d] # None, new[d].rumor # None
       PROVE  ServesSigned(new[d]) /\ Backs(cs[new[d].host][d], new[d])
  <2>1. CASE new[d] = rs[d] /\ rs[d] # None /\ (rs[d].host # h \/ rs[d].rumor = None)
    <3>1. /\ rs[d] = st.regs[d] /\ st.regs[d].host # h /\ st.regs[d] \in Registration
          /\ Replicated(st.regs[d])
        BY <1>1, <1>10, <2>1 DEF Replicated
    <3>2. st.regs[d].host \in Hosts
        BY <3>1 DEF Registration
    <3>3. cs[st.regs[d].host] = st.claims[st.regs[d].host]
        BY <1>7, <3>1, <3>2
    <3>4. Agreeing(st, d)
        BY DEF Sound
    <3> QED
        BY <2>1, <3>1, <3>3, <3>4 DEF Agreeing
  <2>2. CASE new[d] = FromRumor(adm[d], h) /\ adm[d] # None
    <3>1. adm[d] \in Rumor /\ IsAuthorized(adm[d])
        BY <1>3, <1>4, <2>2
    <3>2. new[d].host = h /\ ServesSigned(new[d]) /\ Backs(adm[d], new[d])
        BY <2>2, <3>1, InstalledIsBacked
    <3> QED
        BY <1>7, <3>2
  <2> QED
      BY <1>6, <1>10, <2>1, <2>2
<1>11. \A d \in Domains : Agreeing(after, d)
    BY <1>8, <1>10 DEF Agreeing, Replicated
<1> QED
    BY <1>2, <1>8, <1>9, <1>11 DEF Sound

\* So it does where no registration has been made.
LEMMA ReconcileAlone ==
    ASSUME NEW st \in Sound, NEW h \in Hosts, NEW hc \in KeyedClaims
    PROVE  Reconciled(st, h, hc) \in Sound
<1>1. st.regs \in [Domains -> Registration \cup {None}] /\ [st EXCEPT !.regs = st.regs] = st
    BY DEF Sound, Maps
<1>2. \A d \in Domains : st.regs[d] = st.regs[d]
    OBVIOUS
<1> DEFINE rs == st.regs
<1>3. rs \in [Domains -> Registration \cup {None}] /\ \A d \in Domains : rs[d] = st.regs[d]
    BY <1>1
<1>4. [st EXCEPT !.regs = rs] = st
    BY <1>1
<1> HIDE DEF rs
<1> QED
    BY <1>3, <1>4, ReconcileSound

\* adopt_rumor keeps a store sound, whatever rumor a peer sends.
LEMMA AdoptSound ==
    ASSUME NEW st \in Sound, NEW r \in Rumor
    PROVE  Adopt(st, r) \in Sound
<1> DEFINE h == HostOf[r.client]
           hc == [st.claims[h] EXCEPT ![r.domain] = r]
<1>1. r.client \in Clients /\ r.domain \in Domains
    BY DEF Rumor
<1>2. h \in Hosts
    BY <1>1, HostOfAssumption
<1>3. st.claims[h] \in KeyedClaims
    BY <1>2 DEF Sound, Maps
<1> HIDE DEF h
<1>4. hc \in KeyedClaims
    BY <1>1, <1>3 DEF KeyedClaims
<1> HIDE DEF hc
<1>5. Reconciled(st, h, hc) \in Sound
    BY <1>2, <1>4, ReconcileAlone
<1> QED
    BY <1>5 DEF Adopt, h, hc

\* So does reclaim_stale's visit to one host.
LEMMA VisitSound ==
    ASSUME NEW st \in Sound, NEW h \in Hosts
    PROVE  Reconciled(st, h, st.claims[h]) \in Sound
<1>1. st.claims[h] \in KeyedClaims
    BY DEF Sound, Maps
<1> QED
    BY <1>1, ReconcileAlone

\* And so do its visits to all hosts, in whatever order.
LEMMA ReclaimSound ==
    ASSUME NEW n \in Nodes, NEW k \in Nat, NEW s \in [1 .. k -> Hosts],
           StoreOf(n) \in Sound
    PROVE  Reclaimed(n, s) \in Sound
<1> DEFINE b == StoreOf(n)
           step(st, e) == Reconciled(st, e, st.claims[e])
           G == [x \in (1 .. k) \X Sound |-> step(x[2], s[x[1]])]
           Is(f) == f = [i \in 0 .. Len(s) |-> IF i = 0 THEN b ELSE step(f[i - 1], s[i])]
           after == CHOOSE f : Is(f)
<1>1. Len(s) = k
    OBVIOUS
<1>2. \A st \in Sound : \A e \in Hosts : step(st, e) \in Sound
    BY VisitSound
<1>3. Reclaimed(n, s) = after[Len(s)]
    BY DEF Reclaimed
<1> HIDE DEF step
<1>4. \A i \in 1 .. k, st \in Sound : G[<<i, st>>] = step(st, s[i])
    OBVIOUS
<1>5. G \in Rounds(Sound, k)
    BY <1>2 DEF Rounds
<1> HIDE DEF G, b
<1>6. PICK f \in Results(Sound, k) : AreResults(f, b, k, G)
    BY <1>5, FoldExists DEF b
<1>7. /\ f \in [0 .. k -> Sound] /\ f[0] = b
      /\ \A i \in 1 .. k : f[i] = G[<<i, f[i - 1]>>]
    BY <1>6 DEF Results, AreResults
<1>8. ASSUME NEW i \in 1 .. k PROVE f[i] = step(f[i - 1], s[i])
  <2>1. f[i - 1] \in Sound
      BY <1>7
  <2> QED
      BY <1>4, <1>7, <2>1
<1>9. Is(f)
    BY <1>1, <1>7, <1>8
<1>10. Is(after)
    BY <1>9
<1> HIDE DEF after
<1> DEFINE T == {i \in Nat : i <= k => after[i] \in Sound}
<1>11. 0 \in T
    BY <1>1, <1>10 DEF b
<1>12. ASSUME NEW i \in Nat, i \in T PROVE i + 1 \in T
  <2> SUFFICES ASSUME i + 1 <= k PROVE after[i + 1] \in Sound
      OBVIOUS
  <2>1. after[i] \in Sound /\ i + 1 \in 0 .. k /\ i + 1 # 0 /\ i + 1 \in 1 .. k /\ (i + 1) - 1 = i
      BY <1>12
  <2>2. after[i + 1] = step(after[(i + 1) - 1], s[i + 1])
      BY <1>1, <1>10, <2>1
  <2>3. s[i + 1] \in Hosts
      BY <2>1
  <2> QED
      BY <1>2, <2>1, <2>2, <2>3
<1>13. k \in T
  <2> HIDE DEF T
  <2> QED
      BY <1>11, <1>12, SetInduction
<1> QED
    BY <1>1, <1>3, <1>13

\* So does handling all the rumors of a datagram, in whatever order.
LEMMA AdoptAllSound ==
    ASSUME NEW n \in Nodes, NEW k \in Nat, NEW s \in [1 .. k -> Rumor],
           StoreOf(n) \in Sound
    PROVE  AdoptAll(n, s) \in Sound
<1> DEFINE b == StoreOf(n)
           step(st, e) == Adopt(st, e)
           G == [x \in (1 .. k) \X Sound |-> step(x[2], s[x[1]])]
           Is(f) == f = [i \in 0 .. Len(s) |-> IF i = 0 THEN b ELSE step(f[i - 1], s[i])]
           after == CHOOSE f : Is(f)
<1>1. Len(s) = k
    OBVIOUS
<1>2. \A st \in Sound : \A e \in Rumor : step(st, e) \in Sound
    BY AdoptSound
<1>3. AdoptAll(n, s) = after[Len(s)]
    BY DEF AdoptAll
<1> HIDE DEF step
<1>4. \A i \in 1 .. k, st \in Sound : G[<<i, st>>] = step(st, s[i])
    OBVIOUS
<1>5. G \in Rounds(Sound, k)
    BY <1>2 DEF Rounds
<1> HIDE DEF G, b
<1>6. PICK f \in Results(Sound, k) : AreResults(f, b, k, G)
    BY <1>5, FoldExists DEF b
<1>7. /\ f \in [0 .. k -> Sound] /\ f[0] = b
      /\ \A i \in 1 .. k : f[i] = G[<<i, f[i - 1]>>]
    BY <1>6 DEF Results, AreResults
<1>8. ASSUME NEW i \in 1 .. k PROVE f[i] = step(f[i - 1], s[i])
  <2>1. f[i - 1] \in Sound
      BY <1>7
  <2> QED
      BY <1>4, <1>7, <2>1
<1>9. Is(f)
    BY <1>1, <1>7, <1>8
<1>10. Is(after)
    BY <1>9
<1> HIDE DEF after
<1> DEFINE T == {i \in Nat : i <= k => after[i] \in Sound}
<1>11. 0 \in T
    BY <1>1, <1>10 DEF b
<1>12. ASSUME NEW i \in Nat, i \in T PROVE i + 1 \in T
  <2> SUFFICES ASSUME i + 1 <= k PROVE after[i + 1] \in Sound
      OBVIOUS
  <2>1. after[i] \in Sound /\ i + 1 \in 0 .. k /\ i + 1 # 0 /\ i + 1 \in 1 .. k /\ (i + 1) - 1 = i
      BY <1>12
  <2>2. after[i + 1] = step(after[(i + 1) - 1], s[i + 1])
      BY <1>1, <1>10, <2>1
  <2>3. s[i + 1] \in Rumor
      BY <2>1
  <2> QED
      BY <1>2, <2>1, <2>2, <2>3
<1>13. k \in T
  <2> HIDE DEF T
  <2> QED
      BY <1>11, <1>12, SetInduction
<1> QED
    BY <1>1, <1>3, <1>13

-----------------------------------------------------------------------------
(* The inductive invariant                                                 *)

\* The rumors a datagram lists: finitely many, and every one authorized.
Forwardable(rumors) == IsFiniteSet(rumors) /\ \A r \in rumors : IsAuthorized(r)

NetTyped ==
    /\ net \subseteq Digest \cup Request \cup Rumors
    /\ \A m \in net : m \in Rumors => Forwardable(m.rumors)

\* A challenge is outstanding at one node, for one peer.
SerialsApart ==
    \A m, n \in Nodes : \A i \in 1 .. Len(pending[m]), j \in 1 .. Len(pending[n]) :
        pending[m][i].challenge = pending[n][j].challenge => m = n /\ i = j

\* A challenge that is outstanding has not been answered.
Unanswered ==
    \A n \in Nodes : \A i \in 1 .. Len(pending[n]) : uses[pending[n][i].challenge] = 0

PendingWithinCap == \A n \in Nodes : Len(pending[n]) <= MaxPending

\* What concerns the exchange of challenges,
ExchangeInv ==
    /\ PendingTyped /\ uses \in [Challenges -> Nat]
    /\ OnePerPeer /\ SerialsApart /\ Unanswered /\ PendingWithinCap /\ AnswerUsedOnce

\* the stores,
StoresSound == \A n \in Nodes : StoreOf(n) \in Sound

StoreInv ==
    /\ now \in Nat
    /\ regs \in [Nodes -> [Domains -> Registration \cup {None}]]
    /\ claims \in [Nodes -> [Hosts -> KeyedClaims]]
    /\ counts \in [Nodes -> [Hosts -> Nat]]
    /\ StoresSound

\* and the network.
NetInv == NetTyped /\ peers \in [Nodes -> SUBSET Nodes]

IInv == StoreInv /\ NetInv /\ ExchangeInv

\* The kinds of datagrams.
LEMMA MessageKinds ==
    ASSUME NetTyped, NEW m \in net
    PROVE  /\ m.from \in Nodes /\ m.to \in Nodes
           /\ m.type = "Digest" => m \in Digest
           /\ m.type = "Request" => m \in Request
           /\ m.type = "Rumors" => m \in Rumors /\ Forwardable(m.rumors)
BY DEF NetTyped, Digest, Request, Rumors

-----------------------------------------------------------------------------
(* Challenges                                                              *)

\* Removing a peer's challenge, whether it was answered or is given up, leaves the
\* others apart and unanswered.
LEMMA ForgetPreserves ==
    ASSUME ExchangeInv, NEW n \in Nodes, NEW p \in Nodes,
           pending' = [pending EXCEPT ![n] = Forget(n, p)],
           \/ UNCHANGED uses
           \/ \E i \in Outstanding(n, p) :
                 uses' = [uses EXCEPT ![pending[n][i].challenge] = @ + 1]
    PROVE  ExchangeInv'
<1> DEFINE w == Without(n, p)
<1>1. pending \in [Nodes -> Seq(Pending)]
    BY DEF ExchangeInv, PendingTyped
<1>2. PICK keep \in [1 .. Len(w) -> 1 .. Len(pending[n])] :
         /\ \A j, k \in 1 .. Len(w) : keep[j] = keep[k] => j = k
         /\ \A j \in 1 .. Len(w) : w[j] = pending[n][keep[j]] /\ pending[n][keep[j]].peer # p
  <2>1. PendingTyped /\ OnePerPeer
      BY DEF ExchangeInv
  <2> QED
      BY <2>1, WithoutFacts
<1>3. w \in Seq(Pending) /\ Len(w) <= Len(pending[n]) /\ Len(w) \in Nat
    BY WithoutFacts DEF ExchangeInv
<1>4. /\ pending' \in [Nodes -> Seq(Pending)]
      /\ \A q \in Nodes : pending'[q] = IF q = n THEN w ELSE pending[q]
    BY <1>1, <1>3 DEF Forget
<1> HIDE DEF w
<1> DEFINE at(a, i) == IF a = n THEN keep[i] ELSE i
<1>5. \A a \in Nodes : \A i \in 1 .. Len(pending'[a]) :
         /\ at(a, i) \in 1 .. Len(pending[a])
         /\ pending'[a][i] = pending[a][at(a, i)]
         /\ a = n => pending[a][at(a, i)].peer # p
         /\ \A j \in 1 .. Len(pending'[a]) : at(a, i) = at(a, j) => i = j
  <2> SUFFICES ASSUME NEW a \in Nodes, NEW i \in 1 .. Len(pending'[a])
               PROVE  /\ at(a, i) \in 1 .. Len(pending[a])
                      /\ pending'[a][i] = pending[a][at(a, i)]
                      /\ a = n => pending[a][at(a, i)].peer # p
                      /\ \A j \in 1 .. Len(pending'[a]) : at(a, i) = at(a, j) => i = j
      BY Zenon
  <2>1. CASE a = n
    <3>1. pending'[a] = w /\ at(a, i) = keep[i] /\ i \in 1 .. Len(w)
        BY <1>4, <2>1
    <3>2. \A j \in 1 .. Len(w) : at(a, j) = keep[j]
        BY <2>1
    <3> HIDE DEF at
    <3> QED
        BY <1>2, <2>1, <3>1, <3>2
  <2>2. CASE a # n
      BY <1>4, <2>2
  <2> QED
      BY <2>1, <2>2
<1> HIDE DEF at
<1>6. OnePerPeer'
  <2> SUFFICES ASSUME NEW a \in Nodes,
                      NEW i \in 1 .. Len(pending'[a]), NEW j \in 1 .. Len(pending'[a]),
                      pending'[a][i].peer = pending'[a][j].peer
               PROVE  i = j
      BY DEF OnePerPeer
  <2>1. /\ at(a, i) \in 1 .. Len(pending[a]) /\ pending'[a][i] = pending[a][at(a, i)]
        /\ at(a, j) \in 1 .. Len(pending[a]) /\ pending'[a][j] = pending[a][at(a, j)]
      BY <1>5
  <2>2. at(a, i) = at(a, j)
      BY <2>1 DEF ExchangeInv, OnePerPeer
  <2> QED
      BY <1>5, <2>2
<1>7. Unanswered'
  <2> SUFFICES ASSUME NEW a \in Nodes, NEW i \in 1 .. Len(pending'[a])
               PROVE  uses'[pending'[a][i].challenge] = 0
      BY DEF Unanswered
  <2>1. at(a, i) \in 1 .. Len(pending[a]) /\ pending'[a][i] = pending[a][at(a, i)]
      BY <1>5
  <2>2. uses[pending[a][at(a, i)].challenge] = 0
      BY <2>1 DEF ExchangeInv, Unanswered
  <2>3. pending[a][at(a, i)].challenge \in Challenges
    <3>1. pending[a][at(a, i)] \in Pending
        BY <1>1, <2>1
    <3> QED
        BY <3>1 DEF Pending
  <2>4. ASSUME NEW k \in Outstanding(n, p)
        PROVE  pending[n][k].challenge # pending[a][at(a, i)].challenge
    <3>1. k \in 1 .. Len(pending[n]) /\ pending[n][k].peer = p
        BY DEF Outstanding
    <3>2. ~ (n = a /\ k = at(a, i))
        BY <1>5, <3>1
    <3> QED
        BY <2>1, <3>1, <3>2 DEF ExchangeInv, SerialsApart
  <2>5. uses \in [Challenges -> Nat]
      BY DEF ExchangeInv
  <2>6. uses'[pending[a][at(a, i)].challenge] = uses[pending[a][at(a, i)].challenge]
    <3>1. CASE UNCHANGED uses
        BY <3>1
    <3>2. ASSUME NEW k \in Outstanding(n, p),
                 uses' = [uses EXCEPT ![pending[n][k].challenge] = @ + 1]
          PROVE  uses'[pending[a][at(a, i)].challenge] = uses[pending[a][at(a, i)].challenge]
        BY <2>3, <2>4, <2>5, <3>2
    <3> QED
        BY <3>1, <3>2
  <2> QED
      BY <2>1, <2>2, <2>6
<1>8. SerialsApart'
  <2> SUFFICES ASSUME NEW a \in Nodes, NEW b \in Nodes,
                      NEW i \in 1 .. Len(pending'[a]), NEW j \in 1 .. Len(pending'[b]),
                      pending'[a][i].challenge = pending'[b][j].challenge
               PROVE  a = b /\ i = j
      BY DEF SerialsApart
  <2>1. /\ at(a, i) \in 1 .. Len(pending[a]) /\ pending'[a][i] = pending[a][at(a, i)]
        /\ at(b, j) \in 1 .. Len(pending[b]) /\ pending'[b][j] = pending[b][at(b, j)]
      BY <1>5
  <2>2. pending[a][at(a, i)].challenge = pending[b][at(b, j)].challenge
      BY <2>1
  <2>3. a = b /\ at(a, i) = at(b, j)
      BY <2>1, <2>2 DEF ExchangeInv, SerialsApart
  <2> QED
      BY <1>5, <2>3
<1>9. PendingWithinCap'
    BY <1>1, <1>3, <1>4, BoundsAssumption DEF ExchangeInv, PendingWithinCap
<1>10. uses' \in [Challenges -> Nat] /\ AnswerUsedOnce'
  <2>1. uses \in [Challenges -> Nat] /\ \A c \in Challenges : uses[c] <= 1
      BY DEF ExchangeInv, AnswerUsedOnce
  <2>2. ASSUME NEW i \in Outstanding(n, p)
        PROVE  uses[pending[n][i].challenge] = 0
      BY DEF ExchangeInv, Unanswered, Outstanding
  <2>3. CASE UNCHANGED uses
      BY <2>1, <2>3 DEF AnswerUsedOnce
  <2>4. ASSUME NEW i \in Outstanding(n, p),
               uses' = [uses EXCEPT ![pending[n][i].challenge] = @ + 1]
        PROVE  uses' \in [Challenges -> Nat] /\ \A c \in Challenges : uses'[c] <= 1
    <3> DEFINE k == pending[n][i].challenge
    <3>0. uses[k] = 0 /\ uses' = [uses EXCEPT ![k] = @ + 1]
        BY <2>2, <2>4
    <3> HIDE DEF k
    <3>1. uses[k] = 0 /\ uses' = [uses EXCEPT ![k] = 1]
      <4>1. uses[k] + 1 = 1
          BY <3>0
      <4> QED
          BY <3>0, <4>1, Zenon
    <3>2. uses' \in [Challenges -> Nat]
        BY <2>1, <3>1
    <3>3. ASSUME NEW c \in Challenges PROVE uses'[c] <= 1
      <4>1. CASE c = k
          BY <2>1, <3>1, <4>1
      <4>2. CASE c # k
          BY <2>1, <3>1, <4>2
      <4> QED
          BY <4>1, <4>2
    <3> QED
        BY <3>2, <3>3
  <2> QED
      BY <2>3, <2>4 DEF AnswerUsedOnce
<1> QED
    BY <1>4, <1>6, <1>7, <1>8, <1>9, <1>10 DEF ExchangeInv, PendingTyped

\* The challenge taken next is one that nobody remembers.
LEMMA NextFreshIsFresh ==
    ASSUME Fresh # {}
    PROVE  NextFresh \in Fresh
<1>1. Fresh \in SUBSET Nat
    BY ChallengesAssumption DEF Fresh
<1>2. \E c \in Fresh : \A e \in Fresh : c <= e
    BY <1>1, LeastNat
<1> QED
    BY <1>2 DEF NextFresh

\* The room that pending_challenges.insert makes: what is left is part of what
\* was there, in its order, with nothing for peer p and less than is allowed.
LEMMA RoomFacts ==
    ASSUME ExchangeInv, NEW n \in Nodes, NEW p \in Nodes
    PROVE  LET w == IF Outstanding(n, p) = {} /\ Len(pending[n]) >= MaxPending
                    THEN Tail(pending[n]) ELSE Without(n, p)
           IN /\ w \in Seq(Pending) /\ Len(w) < MaxPending
              /\ \E keep \in [1 .. Len(w) -> 1 .. Len(pending[n])] :
                    /\ \A j, k \in 1 .. Len(w) : keep[j] = keep[k] => j = k
                    /\ \A j \in 1 .. Len(w) :
                          w[j] = pending[n][keep[j]] /\ pending[n][keep[j]].peer # p
<1> DEFINE s == pending[n]
<1>1. s \in Seq(Pending) /\ Len(s) \in Nat /\ Len(s) <= MaxPending /\ MaxPending \in Nat \ {0}
    BY BoundsAssumption DEF ExchangeInv, PendingTyped, PendingWithinCap
<1>2. CASE Outstanding(n, p) = {} /\ Len(s) >= MaxPending
  <2>1. s # <<>>
      BY <1>1, <1>2
  <2>2. /\ Tail(s) \in Seq(Pending) /\ Len(Tail(s)) = Len(s) - 1
        /\ \A j \in 1 .. Len(s) - 1 : Tail(s)[j] = s[j + 1]
      BY <1>1, <2>1, HeadTailProperties
  <2> DEFINE keep == [j \in 1 .. Len(Tail(s)) |-> j + 1]
  <2>3. /\ keep \in [1 .. Len(Tail(s)) -> 1 .. Len(s)]
        /\ \A j \in 1 .. Len(Tail(s)) : keep[j] = j + 1
      BY <1>1, <2>2
  <2>4. \A j \in 1 .. Len(s) : s[j].peer # p
      BY <1>2 DEF Outstanding
  <2> HIDE DEF keep
  <2>5. \A j, k \in 1 .. Len(Tail(s)) : keep[j] = keep[k] => j = k
      BY <2>2, <2>3
  <2>6. \A j \in 1 .. Len(Tail(s)) : Tail(s)[j] = s[keep[j]] /\ s[keep[j]].peer # p
      BY <1>1, <2>2, <2>3, <2>4
  <2>7. Len(Tail(s)) < MaxPending
      BY <1>1, <2>2
  <2> QED
      BY <1>2, <2>2, <2>3, <2>5, <2>6, <2>7
<1>3. CASE ~ (Outstanding(n, p) = {} /\ Len(s) >= MaxPending)
  <2>1. /\ Without(n, p) \in Seq(Pending) /\ Len(Without(n, p)) <= Len(s)
        /\ Outstanding(n, p) # {} => Len(Without(n, p)) = Len(s) - 1
        /\ \E keep \in [1 .. Len(Without(n, p)) -> 1 .. Len(s)] :
              /\ \A j, k \in 1 .. Len(Without(n, p)) : keep[j] = keep[k] => j = k
              /\ \A j \in 1 .. Len(Without(n, p)) :
                    Without(n, p)[j] = s[keep[j]] /\ s[keep[j]].peer # p
      BY WithoutFacts DEF ExchangeInv
  <2>2. Len(Without(n, p)) \in Nat
      BY <2>1
  <2>3. Len(Without(n, p)) < MaxPending
      BY <1>1, <1>3, <2>1, <2>2
  <2> QED
      BY <1>3, <2>1, <2>3
<1> QED
    BY <1>2, <1>3

\* So does remembering a challenge nobody remembers, which has no answer yet.
LEMMA RememberPreserves ==
    ASSUME ExchangeInv, NEW n \in Nodes, NEW e \in Pending, e.challenge \in Fresh,
           pending' = [pending EXCEPT ![n] = Remember(n, e)],
           uses' = [uses EXCEPT ![e.challenge] = 0]
    PROVE  ExchangeInv'
<1> DEFINE w == IF Outstanding(n, e.peer) = {} /\ Len(pending[n]) >= MaxPending
                THEN Tail(pending[n]) ELSE Without(n, e.peer)
<1>1. pending \in [Nodes -> Seq(Pending)] /\ uses \in [Challenges -> Nat]
    BY DEF ExchangeInv, PendingTyped
<1>2. e.peer \in Nodes /\ e.challenge \in Challenges
    BY DEF Pending
<1>3. w \in Seq(Pending) /\ Len(w) < MaxPending
    BY <1>2, RoomFacts
<1>4. PICK keep \in [1 .. Len(w) -> 1 .. Len(pending[n])] :
         /\ \A j, k \in 1 .. Len(w) : keep[j] = keep[k] => j = k
         /\ \A j \in 1 .. Len(w) :
               w[j] = pending[n][keep[j]] /\ pending[n][keep[j]].peer # e.peer
    BY <1>2, RoomFacts
<1>5. pending' = [pending EXCEPT ![n] = Append(w, e)]
    BY DEF Remember
<1> HIDE DEF w
<1>6. /\ Append(w, e) \in Seq(Pending) /\ Len(Append(w, e)) = Len(w) + 1
      /\ \A j \in 1 .. Len(w) : Append(w, e)[j] = w[j]
      /\ Append(w, e)[Len(w) + 1] = e
    BY <1>3, AppendProperties
<1>7. /\ pending' \in [Nodes -> Seq(Pending)]
      /\ \A q \in Nodes : pending'[q] = IF q = n THEN Append(w, e) ELSE pending[q]
    BY <1>1, <1>5, <1>6
<1>8. Len(w) \in Nat
    BY <1>3
<1> DEFINE old(a, i) == a # n \/ i <= Len(w)
           at(a, i) == IF a = n THEN keep[i] ELSE i
<1>9. \A a \in Nodes : \A i \in 1 .. Len(pending'[a]) : old(a, i) =>
         /\ at(a, i) \in 1 .. Len(pending[a])
         /\ pending'[a][i] = pending[a][at(a, i)]
         /\ a = n => pending'[a][i].peer # e.peer
         /\ \A j \in 1 .. Len(pending'[a]) : old(a, j) /\ at(a, i) = at(a, j) => i = j
  <2> SUFFICES ASSUME NEW a \in Nodes, NEW i \in 1 .. Len(pending'[a]), old(a, i)
               PROVE  /\ at(a, i) \in 1 .. Len(pending[a])
                      /\ pending'[a][i] = pending[a][at(a, i)]
                      /\ a = n => pending'[a][i].peer # e.peer
                      /\ \A j \in 1 .. Len(pending'[a]) :
                            old(a, j) /\ at(a, i) = at(a, j) => i = j
      BY Zenon
  <2>1. CASE a = n
    <3>1. pending'[a] = Append(w, e) /\ i \in 1 .. Len(w) /\ at(a, i) = keep[i]
      <4>1. pending'[a] = Append(w, e)
          BY <1>7, <2>1
      <4>2. i \in 1 .. Len(w)
          BY <1>8, <2>1
      <4> QED
          BY <2>1, <4>1, <4>2
    <3>2. \A j \in 1 .. Len(pending'[a]) :
             old(a, j) => j \in 1 .. Len(w) /\ at(a, j) = keep[j]
        BY <1>6, <1>7, <1>8, <2>1
    <3> HIDE DEF at, old
    <3>3. pending'[a][i] = w[i]
        BY <1>6, <3>1
    <3>4. keep[i] \in 1 .. Len(pending[n])
        BY <3>1
    <3>5. at(a, i) \in 1 .. Len(pending[a])
        BY <2>1, <3>1, <3>4
    <3>6. /\ pending'[a][i] = pending[a][at(a, i)]
          /\ pending'[a][i].peer # e.peer
        BY <1>4, <2>1, <3>1, <3>3
    <3>7. \A j \in 1 .. Len(pending'[a]) : old(a, j) /\ at(a, i) = at(a, j) => i = j
        BY <1>4, <3>1, <3>2
    <3> QED
        BY <3>5, <3>6, <3>7
  <2>2. CASE a # n
      BY <1>7, <2>2
  <2> QED
      BY <2>1, <2>2
<1>10. \A a \in Nodes : \A i \in 1 .. Len(pending'[a]) :
          ~ old(a, i) => a = n /\ i = Len(w) + 1 /\ pending'[a][i] = e
  <2> SUFFICES ASSUME NEW a \in Nodes, NEW i \in 1 .. Len(pending'[a]), ~ old(a, i)
               PROVE  a = n /\ i = Len(w) + 1 /\ pending'[a][i] = e
      OBVIOUS
  <2>1. a = n /\ pending'[a] = Append(w, e)
      BY <1>7
  <2>2. i = Len(w) + 1
      BY <1>6, <1>8, <2>1
  <2> QED
      BY <1>6, <2>1, <2>2
<1> HIDE DEF at, old
<1>11. \A a \in Nodes : \A i \in 1 .. Len(pending[a]) :
          /\ pending[a][i].challenge # e.challenge
          /\ pending[a][i].challenge \in Challenges
  <2>1. \A a \in Nodes : \A i \in 1 .. Len(pending[a]) : pending[a][i] \in Pending
      BY <1>1
  <2> QED
      BY <2>1 DEF Fresh, Pending
<1>12. OnePerPeer'
  <2> SUFFICES ASSUME NEW a \in Nodes,
                      NEW i \in 1 .. Len(pending'[a]), NEW j \in 1 .. Len(pending'[a]),
                      pending'[a][i].peer = pending'[a][j].peer
               PROVE  i = j
      BY DEF OnePerPeer
  <2>1. CASE old(a, i) /\ old(a, j)
    <3>1. /\ at(a, i) \in 1 .. Len(pending[a]) /\ pending'[a][i] = pending[a][at(a, i)]
          /\ at(a, j) \in 1 .. Len(pending[a]) /\ pending'[a][j] = pending[a][at(a, j)]
        BY <1>9, <2>1
    <3>2. at(a, i) = at(a, j)
        BY <3>1 DEF ExchangeInv, OnePerPeer
    <3> QED
        BY <1>9, <2>1, <3>2
  <2>2. CASE ~ old(a, i) /\ ~ old(a, j)
      BY <1>10, <2>2
  <2>3. CASE old(a, i) /\ ~ old(a, j)
      BY <1>9, <1>10, <2>3
  <2>4. CASE ~ old(a, i) /\ old(a, j)
      BY <1>9, <1>10, <2>4
  <2> QED
      BY <2>1, <2>2, <2>3, <2>4
<1>13. SerialsApart'
  <2> SUFFICES ASSUME NEW a \in Nodes, NEW b \in Nodes,
                      NEW i \in 1 .. Len(pending'[a]), NEW j \in 1 .. Len(pending'[b]),
                      pending'[a][i].challenge = pending'[b][j].challenge
               PROVE  a = b /\ i = j
      BY DEF SerialsApart
  <2>1. CASE old(a, i) /\ old(b, j)
    <3>1. /\ at(a, i) \in 1 .. Len(pending[a]) /\ pending'[a][i] = pending[a][at(a, i)]
          /\ at(b, j) \in 1 .. Len(pending[b]) /\ pending'[b][j] = pending[b][at(b, j)]
        BY <1>9, <2>1
    <3>2. pending[a][at(a, i)].challenge = pending[b][at(b, j)].challenge
        BY <3>1
    <3>3. a = b /\ at(a, i) = at(b, j)
        BY <3>1, <3>2 DEF ExchangeInv, SerialsApart
    <3> QED
        BY <1>9, <2>1, <3>3
  <2>2. CASE ~ old(a, i) /\ ~ old(b, j)
      BY <1>10, <2>2
  <2>3. CASE old(a, i) /\ ~ old(b, j)
    <3>1. pending'[a][i].challenge # e.challenge
        BY <1>9, <1>11, <2>3
    <3> QED
        BY <1>10, <2>3, <3>1
  <2>4. CASE ~ old(a, i) /\ old(b, j)
    <3>1. pending'[b][j].challenge # e.challenge
        BY <1>9, <1>11, <2>4
    <3> QED
        BY <1>10, <2>4, <3>1
  <2> QED
      BY <2>1, <2>2, <2>3, <2>4
<1>14. uses' \in [Challenges -> Nat] /\ AnswerUsedOnce'
    BY <1>1, <1>2 DEF ExchangeInv, AnswerUsedOnce
<1>15. Unanswered'
  <2> SUFFICES ASSUME NEW a \in Nodes, NEW i \in 1 .. Len(pending'[a])
               PROVE  uses'[pending'[a][i].challenge] = 0
      BY DEF Unanswered
  <2>1. CASE old(a, i)
    <3>1. at(a, i) \in 1 .. Len(pending[a]) /\ pending'[a][i] = pending[a][at(a, i)]
        BY <1>9, <2>1
    <3>2. uses[pending[a][at(a, i)].challenge] = 0
        BY <3>1 DEF ExchangeInv, Unanswered
    <3>3. /\ pending[a][at(a, i)].challenge # e.challenge
          /\ pending[a][at(a, i)].challenge \in Challenges
        BY <1>11, <3>1
    <3> QED
        BY <1>1, <3>1, <3>2, <3>3
  <2>2. CASE ~ old(a, i)
      BY <1>1, <1>2, <1>10, <2>2
  <2> QED
      BY <2>1, <2>2
<1>16. PendingWithinCap'
  <2> SUFFICES ASSUME NEW a \in Nodes PROVE Len(pending'[a]) <= MaxPending
      BY DEF PendingWithinCap
  <2>1. CASE a = n
    <3>1. Len(pending'[a]) = Len(w) + 1
        BY <1>6, <1>7, <2>1
    <3> QED
        BY <1>3, <1>8, <3>1, BoundsAssumption
  <2>2. CASE a # n
      BY <1>7, <2>2 DEF ExchangeInv, PendingWithinCap
  <2> QED
      BY <2>1, <2>2
<1> QED
    BY <1>7, <1>12, <1>13, <1>14, <1>15, <1>16 DEF ExchangeInv, PendingTyped

-----------------------------------------------------------------------------
(* The stores                                                              *)

\* A step that leaves node n's store sound leaves all of them so.
LEMMA StoreChanged ==
    ASSUME StoreInv, NEW n \in Nodes, NEW st \in Sound,
           NewStore(n, st),
           now' \in Nat, counts' \in [Nodes -> [Hosts -> Nat]]
    PROVE  StoreInv'
<1>1. st \in Maps /\ st.claims \in [Hosts -> KeyedClaims]
      /\ st.regs \in [Domains -> Registration \cup {None}]
    BY DEF Sound, Maps
<1>2. st = [claims |-> st.claims, regs |-> st.regs]
    BY <1>1 DEF Maps
<1>3. /\ regs' \in [Nodes -> [Domains -> Registration \cup {None}]]
      /\ claims' \in [Nodes -> [Hosts -> KeyedClaims]]
    BY <1>1 DEF StoreInv, NewStore
<1>4. ASSUME NEW m \in Nodes PROVE StoreOf(m)' \in Sound
  <2>1. CASE m = n
    <3>1. claims'[m] = st.claims /\ regs'[m] = st.regs
        BY <2>1 DEF StoreInv, NewStore
    <3> QED
        BY <1>2, <3>1 DEF StoreOf
  <2>2. CASE m # n
    <3>1. claims'[m] = claims[m] /\ regs'[m] = regs[m]
        BY <2>2 DEF StoreInv, NewStore
    <3>2. StoreOf(m) \in Sound
        BY DEF StoreInv, StoresSound
    <3> QED
        BY <3>1, <3>2 DEF StoreOf
  <2> QED
      BY <2>1, <2>2
<1>5. StoresSound'
    BY <1>4 DEF StoresSound
<1> QED
    BY <1>3, <1>5 DEF StoreInv

\* Every host is visited once.
LEMMA OrdersFacts ==
    ASSUME NEW S, IsFiniteSet(S), NEW s \in Orders(S)
    PROVE  Cardinality(S) \in Nat /\ s \in [1 .. Cardinality(S) -> S]
BY FS_CardinalityType DEF Orders

\* register, which reclaims first, and attach_rumor keep the store sound.
LEMMA RegisterStore ==
    ASSUME StoreInv, NEW n \in Nodes, NEW r \in LocalClaims[n], Register(n, r)
    PROVE  StoreInv'
<1> DEFINE h == HostOf[r.client]
           made == [FromRumor(r, h) EXCEPT !.rumor = None]
           issued(st) == [st.regs EXCEPT ![r.domain] = made]
           hc(st) == [st.claims[h] EXCEPT ![r.domain] = r]
<1>1. r \in Rumor /\ r.client \in Clients /\ r.domain \in Domains
    BY LocalClaimsAssumption DEF Rumor
<1>2. h \in Hosts
    BY <1>1, HostOfAssumption
<1>3. PICK s \in Orders(Hosts) :
         NewStore(n, Reconciled([Reclaimed(n, s) EXCEPT !.regs = issued(Reclaimed(n, s))], h,
                                hc(Reclaimed(n, s))))
    BY DEF Register
<1>4. counts' \in [Nodes -> [Hosts -> Nat]] /\ now' \in Nat
  <2>1. counts' = [counts EXCEPT ![n][h] = @ + 1] /\ now' = now
      BY DEF Register
  <2> HIDE DEF h
  <2> QED
      BY <1>2, <2>1 DEF StoreInv
<1> DEFINE st == Reclaimed(n, s)
<1>5. st \in Sound
    BY HostsAssumption, OrdersFacts, ReclaimSound DEF StoreInv, StoresSound
<1>6. made \in Registration /\ made.rumor = None /\ made # None
  <2>1. made \in Registration /\ made.rumor = None
      BY <1>1, <1>2 DEF FromRumor, Rumor, Registration
  <2> QED
      BY <2>1, NoneAssumption
<1> HIDE DEF st, made, h
<1>7. /\ issued(st) \in [Domains -> Registration \cup {None}]
      /\ \A d \in Domains : issued(st)[d] = st.regs[d]
                              \/ (issued(st)[d] # None /\ issued(st)[d].rumor = None)
  <2>1. st.regs \in [Domains -> Registration \cup {None}]
      BY <1>5 DEF Sound, Maps
  <2> QED
      BY <1>1, <1>6, <2>1
<1>8. hc(st) \in KeyedClaims
  <2>1. st.claims[h] \in KeyedClaims
      BY <1>2, <1>5 DEF Sound, Maps
  <2> QED
      BY <1>1, <2>1 DEF KeyedClaims
<1>9. NewStore(n, Reconciled([st EXCEPT !.regs = issued(st)], h, hc(st)))
    BY <1>3 DEF st
<1> HIDE DEF issued, hc
<1>10. Reconciled([st EXCEPT !.regs = issued(st)], h, hc(st)) \in Sound
    BY <1>2, <1>5, <1>7, <1>8, ReconcileSound
<1> QED
    BY <1>4, <1>9, <1>10, StoreChanged

\* A refused registration has reclaimed, and done nothing else.
LEMMA RefuseStore ==
    ASSUME StoreInv, NEW n \in Nodes, NEW c, NEW d, RefuseRegister(n, c, d)
    PROVE  StoreInv'
<1>1. PICK s \in Orders(Hosts) : NewStore(n, Reclaimed(n, s))
    BY DEF RefuseRegister
<1>2. Reclaimed(n, s) \in Sound
    BY HostsAssumption, OrdersFacts, ReclaimSound DEF StoreInv, StoresSound
<1>3. now' \in Nat /\ counts' \in [Nodes -> [Hosts -> Nat]]
    BY DEF RefuseRegister, StoreInv
<1> QED
    BY <1>1, <1>2, <1>3, StoreChanged

\* A store whose claims and registrations keep their places, and whose replicated
\* registrations keep agreeing with their claims, is sound as it was.
LEMMA StoreRewritten ==
    ASSUME NEW st \in Sound, NEW new \in Maps,
           \A h \in Hosts, d \in Domains : new.claims[h][d] = None <=> st.claims[h][d] = None,
           \A d \in Domains : Agreeing(new, d)
    PROVE  new \in Sound
<1>1. ASSUME NEW h \in Hosts
      PROVE  Cardinality({d \in Domains : new.claims[h][d] # None}) <= MaxRegs
  <2>1. {d \in Domains : new.claims[h][d] # None} = {d \in Domains : st.claims[h][d] # None}
      OBVIOUS
  <2>2. Cardinality({d \in Domains : st.claims[h][d] # None}) <= MaxRegs
      BY DEF Sound
  <2> QED
      BY <2>1, <2>2
<1> QED
    BY <1>1 DEF Sound

\* The store of a node: its parts, and the claim behind a replicated registration.
LEMMA StoreFacts ==
    ASSUME StoreInv, NEW n \in Nodes
    PROVE  /\ StoreOf(n) \in Sound
           /\ \A h \in Hosts : claims[n][h] \in KeyedClaims
           /\ \A h \in Hosts, d \in Domains :
                 /\ claims[n][h][d] \in Rumor \cup {None}
                 /\ claims[n][h][d] # None => claims[n][h][d].domain = d
           /\ \A d \in Domains :
                 /\ regs[n][d] \in Registration \cup {None}
                 /\ Replicated(regs[n][d]) =>
                       /\ regs[n][d] \in Registration /\ regs[n][d].host \in Hosts
                       /\ regs[n][d].rumor \in Rumor /\ regs[n][d].rumor # None
                       /\ claims[n][regs[n][d].host][d] \in Rumor
                       /\ ServesSigned(regs[n][d])
                       /\ Backs(claims[n][regs[n][d].host][d], regs[n][d])
<1>1. /\ StoreOf(n) \in Sound
      /\ \A h \in Hosts : claims[n][h] \in KeyedClaims
      /\ \A d \in Domains : regs[n][d] \in Registration \cup {None}
    BY DEF StoreInv, StoresSound
<1>2. \A h \in Hosts, d \in Domains :
         /\ claims[n][h][d] \in Rumor \cup {None}
         /\ claims[n][h][d] # None => claims[n][h][d].domain = d
    BY <1>1 DEF KeyedClaims
<1>3. ASSUME NEW d \in Domains, Replicated(regs[n][d])
      PROVE  /\ regs[n][d] \in Registration /\ regs[n][d].host \in Hosts
             /\ regs[n][d].rumor \in Rumor /\ regs[n][d].rumor # None
             /\ claims[n][regs[n][d].host][d] \in Rumor
             /\ ServesSigned(regs[n][d])
             /\ Backs(claims[n][regs[n][d].host][d], regs[n][d])
  <2>1. /\ regs[n][d] \in Registration /\ regs[n][d].rumor # None
        /\ regs[n][d].host \in Hosts /\ regs[n][d].rumor \in Rumor
      BY <1>1, <1>3 DEF Replicated, Registration
  <2>2. Agreeing(StoreOf(n), d)
      BY <1>1 DEF Sound
  <2>3. ServesSigned(regs[n][d]) /\ Backs(claims[n][regs[n][d].host][d], regs[n][d])
      BY <1>3, <2>2 DEF Agreeing, StoreOf
  <2>4. claims[n][regs[n][d].host][d] # None
      BY <2>3 DEF Backs
  <2> QED
      BY <1>2, <2>1, <2>3, <2>4
<1> QED
    BY <1>1, <1>2, <1>3

\* refresh_probe_evidence keeps the store sound: a registration and the claim it
\* is made from are of the same client, and are renewed together.
LEMMA ProbeStore ==
    ASSUME StoreInv, NEW n \in Nodes, NEW c \in Probers, Probe(n, c)
    PROVE  StoreInv'
<1> DEFINE cs == [h \in Hosts |-> [d \in Domains |-> Refreshed(claims[n][h][d], c, now)]]
           rs == [d \in Domains |-> RefreshedReg(regs[n][d], c, now)]
           st == [claims |-> cs, regs |-> rs]
<1>1. NewStore(n, st) /\ now' = now /\ counts' = counts
    BY DEF Probe
<1>2. c \in Clients /\ now \in Nat
    BY LocalClaimsAssumption DEF StoreInv
<1>3. ASSUME NEW h \in Hosts, NEW d \in Domains
      PROVE  /\ cs[h][d] \in Rumor \cup {None}
             /\ cs[h][d] = None <=> claims[n][h][d] = None
             /\ cs[h][d] # None => cs[h][d].domain = d
  <2>1. cs[h][d] = Refreshed(claims[n][h][d], c, now)
      OBVIOUS
  <2>2. claims[n][h][d] \in Rumor \cup {None}
        /\ (claims[n][h][d] # None => claims[n][h][d].domain = d)
      BY StoreFacts
  <2> QED
      BY <1>2, <2>1, <2>2, RefreshFacts
<1>4. cs \in [Hosts -> KeyedClaims]
  <2>1. ASSUME NEW h \in Hosts PROVE cs[h] \in KeyedClaims
    <3>1. cs[h] = [d \in Domains |-> cs[h][d]]
        OBVIOUS
    <3> HIDE DEF cs
    <3>2. cs[h] \in [Domains -> Rumor \cup {None}]
        BY <1>3, <3>1
    <3> QED
        BY <1>3, <3>2 DEF KeyedClaims
  <2>2. cs = [h \in Hosts |-> cs[h]]
      OBVIOUS
  <2> HIDE DEF cs
  <2> QED
      BY <2>1, <2>2
<1>5. ASSUME NEW d \in Domains
      PROVE  /\ rs[d] \in Registration \cup {None}
             /\ Replicated(rs[d]) => ServesSigned(rs[d]) /\ Backs(cs[rs[d].host][d], rs[d])
  <2>1. rs[d] = RefreshedReg(regs[n][d], c, now) /\ regs[n][d] \in Registration \cup {None}
      BY StoreFacts
  <2>2. CASE regs[n][d] = None
      BY <2>1, <2>2 DEF RefreshedReg, Replicated
  <2>3. CASE regs[n][d] # None
    <3>1. /\ regs[n][d] \in Registration /\ rs[d] \in Registration
          /\ rs[d].host = regs[n][d].host
          /\ rs[d].rumor = IF regs[n][d].client = c THEN Refreshed(regs[n][d].rumor, c, now)
                           ELSE regs[n][d].rumor
        BY <1>2, <2>1, <2>3, RefreshFacts
    <3>2. ASSUME Replicated(rs[d])
          PROVE  ServesSigned(rs[d]) /\ Backs(cs[rs[d].host][d], rs[d])
      <4>1. Replicated(regs[n][d])
        <5>1. Refreshed(None, c, now) = None
            BY DEF Refreshed
        <5> QED
            BY <2>3, <3>1, <3>2, <5>1 DEF Replicated
      <4>2. /\ regs[n][d].host \in Hosts /\ regs[n][d].rumor # None
            /\ claims[n][regs[n][d].host][d] \in Rumor /\ ServesSigned(regs[n][d])
            /\ Backs(claims[n][regs[n][d].host][d], regs[n][d])
          BY <4>1, StoreFacts
      <4>3. cs[rs[d].host][d] = Refreshed(claims[n][regs[n][d].host][d], c, now)
          BY <3>1, <4>2
      <4> HIDE DEF cs, rs
      <4> QED
          BY <1>2, <2>1, <3>1, <4>2, <4>3, RefreshAgrees
    <3> QED
        BY <3>1, <3>2
  <2> QED
      BY <2>2, <2>3
<1>6. rs = [d \in Domains |-> rs[d]]
    OBVIOUS
<1>7. st.claims = cs /\ st.regs = rs
    OBVIOUS
<1> HIDE DEF cs, rs
<1>8. st \in Maps
    BY <1>4, <1>5, <1>6 DEF Maps
<1> HIDE DEF st
<1>9. \A d \in Domains : Agreeing(st, d)
    BY <1>5, <1>7 DEF Agreeing
<1>10. \A h \in Hosts, d \in Domains : st.claims[h][d] = None <=> StoreOf(n).claims[h][d] = None
    BY <1>3, <1>7 DEF StoreOf
<1>11. st \in Sound
    BY <1>8, <1>9, <1>10, StoreFacts, StoreRewritten
<1>12. now' \in Nat /\ counts' \in [Nodes -> [Hosts -> Nat]]
    BY <1>1 DEF StoreInv
<1> QED
    BY <1>1, <1>11, <1>12, StoreChanged

\* set_records and attach_record_evidence keep it sound as well: the rumor of the
\* registration takes the new records under their signature, and the claim, which
\* takes the signature only, is void.
LEMMA SetRecordsStore ==
    ASSUME StoreInv, NEW n \in Nodes, NEW c \in Clients, NEW e \in Domains,
           NEW recs \in Records, SetRecords(n, c, e, recs)
    PROVE  StoreInv'
<1> DEFINE cs == [h \in Hosts |->
                    [claims[n][h] EXCEPT ![e] = WithRecordEvidence(@, c, recs)]]
           rs == [regs[n] EXCEPT ![e] = WithRecords(@, recs)]
           st == [claims |-> cs, regs |-> rs]
<1>1. /\ NewStore(n, st) /\ now' = now /\ counts' = counts
      /\ regs[n][e] # None /\ regs[n][e].client = c
    BY DEF SetRecords
<1>2. c \in Clients
    BY LocalClaimsAssumption
<1>3. ASSUME NEW h \in Hosts, NEW d \in Domains
      PROVE  /\ cs[h][d] = IF d = e THEN WithRecordEvidence(claims[n][h][d], c, recs)
                           ELSE claims[n][h][d]
             /\ cs[h][d] \in Rumor \cup {None}
             /\ cs[h][d] = None <=> claims[n][h][d] = None
             /\ cs[h][d] # None => cs[h][d].domain = d
  <2>1. cs[h][d] = IF d = e THEN WithRecordEvidence(claims[n][h][d], c, recs)
                   ELSE claims[n][h][d]
    <3>1. claims[n][h] \in [Domains -> Rumor \cup {None}]
        BY StoreFacts DEF KeyedClaims
    <3> QED
        BY <3>1
  <2>2. claims[n][h][d] \in Rumor \cup {None}
        /\ (claims[n][h][d] # None => claims[n][h][d].domain = d)
      BY StoreFacts
  <2> HIDE DEF cs
  <2> QED
      BY <1>2, <2>1, <2>2, EvidenceFacts
<1>4. cs \in [Hosts -> KeyedClaims]
  <2>1. ASSUME NEW h \in Hosts PROVE cs[h] \in KeyedClaims
    <3>1. cs[h] = [d \in Domains |-> cs[h][d]]
      <4>1. claims[n][h] \in [Domains -> Rumor \cup {None}]
          BY StoreFacts DEF KeyedClaims
      <4> QED
          BY <4>1
    <3> HIDE DEF cs
    <3>2. cs[h] \in [Domains -> Rumor \cup {None}]
        BY <1>3, <3>1
    <3> QED
        BY <1>3, <3>2 DEF KeyedClaims
  <2>2. cs = [h \in Hosts |-> cs[h]]
      OBVIOUS
  <2> HIDE DEF cs
  <2> QED
      BY <2>1, <2>2
<1>5. /\ regs[n][e] \in Registration /\ rs[e] = WithRecords(regs[n][e], recs)
      /\ \A d \in Domains \ {e} : rs[d] = regs[n][d]
      /\ \A d \in Domains : regs[n][d] \in Registration \cup {None}
      /\ rs = [d \in Domains |-> rs[d]]
  <2>1. /\ regs[n] \in [Domains -> Registration \cup {None}]
        /\ regs[n][e] \in Registration
      BY <1>1 DEF StoreInv
  <2> QED
      BY <2>1
<1>6. st.claims = cs /\ st.regs = rs
    OBVIOUS
<1> HIDE DEF cs, rs
<1>7. rs[e] \in Registration /\ rs[e].host = regs[n][e].host
      /\ (rs[e].rumor = None <=> regs[n][e].rumor = None)
    BY <1>5, RecordsFacts
<1>8. ASSUME NEW d \in Domains, Replicated(rs[d])
      PROVE  ServesSigned(rs[d]) /\ Backs(cs[rs[d].host][d], rs[d])
  <2>1. Replicated(regs[n][d]) /\ rs[d].host = regs[n][d].host
      BY <1>1, <1>5, <1>7, <1>8 DEF Replicated
  <2>2. /\ regs[n][d].host \in Hosts /\ regs[n][d].rumor # None
        /\ claims[n][regs[n][d].host][d] \in Rumor /\ ServesSigned(regs[n][d])
        /\ Backs(claims[n][regs[n][d].host][d], regs[n][d])
      BY <2>1, StoreFacts
  <2>3. CASE d = e
    <3>1. cs[rs[d].host][d] = WithRecordEvidence(claims[n][regs[n][d].host][d],
                                                 regs[n][d].client, recs)
        BY <1>1, <1>3, <2>1, <2>2, <2>3
    <3>2. regs[n][d] \in Registration /\ rs[d] = WithRecords(regs[n][d], recs)
        BY <1>5, <2>3
    <3> QED
        BY <2>2, <3>1, <3>2, RecordsAgree
  <2>4. CASE d # e
    <3>1. cs[rs[d].host][d] = claims[n][regs[n][d].host][d] /\ rs[d] = regs[n][d]
        BY <1>3, <1>5, <2>1, <2>2, <2>4
    <3> QED
        BY <2>2, <3>1
  <2> QED
      BY <2>3, <2>4
<1>9. st \in Maps
  <2>1. \A d \in Domains : rs[d] \in Registration \cup {None}
      BY <1>5, <1>7
  <2>2. rs \in [Domains -> Registration \cup {None}]
      BY <1>5, <2>1
  <2> QED
      BY <1>4, <2>2 DEF Maps
<1> HIDE DEF st
<1>10. \A d \in Domains : Agreeing(st, d)
    BY <1>6, <1>8 DEF Agreeing
<1>11. \A h \in Hosts, d \in Domains : st.claims[h][d] = None <=> StoreOf(n).claims[h][d] = None
    BY <1>3, <1>6 DEF StoreOf
<1>12. st \in Sound
    BY <1>9, <1>10, <1>11, StoreFacts, StoreRewritten
<1>13. now' \in Nat /\ counts' \in [Nodes -> [Hosts -> Nat]]
    BY <1>1 DEF StoreInv
<1> QED
    BY <1>1, <1>12, <1>13, StoreChanged

\* Handling the rumors of a datagram keeps the store sound.
LEMMA HandleRumorsStore ==
    ASSUME StoreInv, NetInv, NEW m \in net, HandleRumors(m)
    PROVE  StoreInv'
<1>1. m.type = "Rumors"
    BY DEF HandleRumors
<1>2. m.to \in Nodes /\ m \in Rumors /\ IsFiniteSet(m.rumors)
    BY <1>1, MessageKinds DEF NetInv, Forwardable
<1>3. m.rumors \subseteq Rumor
    BY <1>2 DEF Rumors
<1>4. PICK s \in Orders(m.rumors) : NewStore(m.to, AdoptAll(m.to, s))
    BY DEF HandleRumors
<1>5. Cardinality(m.rumors) \in Nat
    BY <1>2, FS_CardinalityType
<1>6. s \in [1 .. Cardinality(m.rumors) -> Rumor]
    BY <1>3 DEF Orders
<1>7. AdoptAll(m.to, s) \in Sound
    BY <1>2, <1>5, <1>6, AdoptAllSound DEF StoreInv, StoresSound
<1>8. now' \in Nat /\ counts' \in [Nodes -> [Hosts -> Nat]]
    BY DEF HandleRumors, StoreInv
<1> QED
    BY <1>2, <1>4, <1>7, <1>8, StoreChanged

\* A step that leaves the stores alone leaves them sound.
LEMMA StoreUntouched ==
    ASSUME StoreInv, UNCHANGED <<regs, claims, counts>>, now' \in Nat
    PROVE  StoreInv'
BY DEF StoreInv, StoresSound, StoreOf

-----------------------------------------------------------------------------
(* Datagrams                                                               *)

\* A step that puts at most one datagram under way.
LEMMA NetChanged ==
    ASSUME NetInv, NEW x \in Digest \cup Request \cup Rumors,
           x \in Rumors => Forwardable(x.rumors),
           net' \subseteq net \cup {x}, peers' \in [Nodes -> SUBSET Nodes]
    PROVE  NetInv'
BY DEF NetInv, NetTyped

\* A step that puts none.
LEMMA NetShrinks ==
    ASSUME NetInv, net' \subseteq net, peers' \in [Nodes -> SUBSET Nodes]
    PROVE  NetInv'
BY DEF NetInv, NetTyped

\* Receiving a datagram.
LEMMA ReceivedFacts ==
    ASSUME NetInv, NEW m \in net
    PROVE  /\ \A rest \in Taken(m) : rest \subseteq net
           /\ Learn(m) => peers' \in [Nodes -> SUBSET Nodes]
<1>1. m.from \in Nodes /\ m.to \in Nodes
    BY MessageKinds DEF NetInv
<1> QED
    BY <1>1 DEF NetInv, Taken, Learn

\* A digest lists when each name was issued.
LEMMA PushNet ==
    ASSUME StoreInv, NetInv, NEW n \in Nodes, NEW p \in Nodes, GossipPush(n, p)
    PROVE  NetInv'
<1> DEFINE x == [type |-> "Digest", from |-> n, to |-> p,
                 entries |-> [d \in Domains |->
                    IF regs[n][d] = None THEN None ELSE regs[n][d].token.issuedAt]]
<1>1. \A d \in Domains : regs[n][d] = None \/ regs[n][d].token.issuedAt \in Nat
  <2> SUFFICES ASSUME NEW d \in Domains, regs[n][d] # None
               PROVE  regs[n][d].token.issuedAt \in Nat
      OBVIOUS
  <2>1. regs[n][d] \in Registration
      BY DEF StoreInv
  <2>2. regs[n][d].token \in Token
      BY <2>1 DEF Registration
  <2> QED
      BY <2>2, TokenFields
<1>2. x \in Digest
    BY <1>1 DEF Digest
<1>3. net' \subseteq net \cup {x} /\ peers' = peers
    BY DEF GossipPush, Sent
<1>4. x \notin Rumors
    BY DEF Rumors
<1> HIDE DEF x
<1> QED
    BY <1>2, <1>3, <1>4, NetChanged DEF NetInv

\* A request lists what is missing.
LEMMA HandleDigestNet ==
    ASSUME NetInv, NEW m \in net, HandleDigest(m)
    PROVE  NetInv'
<1> DEFINE x == [type |-> "Request", from |-> m.to, to |-> m.from,
                 domains |-> Missing(m.to, m.entries), challenge |-> NextFresh]
<1>1. m.from \in Nodes /\ m.to \in Nodes
    BY MessageKinds DEF NetInv
<1>2. NextFresh \in Challenges
    BY NextFreshIsFresh DEF HandleDigest, Fresh
<1>3. Missing(m.to, m.entries) \in SUBSET Domains
    BY DEF Missing
<1>4. x \in Request /\ x \notin Rumors
    BY <1>1, <1>2, <1>3 DEF Request, Rumors
<1>5. \E rest \in Taken(m) : net' = rest \cup Sent(x)
    BY DEF HandleDigest
<1> HIDE DEF x
<1>6. net' \subseteq net \cup {x}
    BY <1>5, ReceivedFacts DEF Sent
<1>7. peers' \in [Nodes -> SUBSET Nodes]
    BY ReceivedFacts DEF HandleDigest
<1> QED
    BY <1>4, <1>6, <1>7, NetChanged

\* An answer lists replicated claims, which are authorized.
LEMMA HandleRequestNet ==
    ASSUME StoreInv, NetInv, NEW m \in net, HandleRequest(m)
    PROVE  NetInv'
<1> DEFINE n == m.to
           held == {d \in m.domains : Replicated(regs[n][d])}
           listed == {regs[n][d].rumor : d \in held}
           x == [type |-> "Rumors", from |-> n, to |-> m.from,
                 rumors |-> listed, answer |-> m.challenge]
<1>1. m.from \in Nodes /\ n \in Nodes /\ m \in Request
    BY MessageKinds DEF NetInv, HandleRequest
<1>2. m.domains \subseteq Domains /\ m.challenge \in Challenges
    BY <1>1 DEF Request
<1> HIDE DEF n
<1>3. ASSUME NEW d \in Domains, Replicated(regs[n][d])
      PROVE  regs[n][d].rumor \in Rumor /\ ServesSigned(regs[n][d])
    BY <1>1, <1>3, StoreFacts
<1>4. ASSUME NEW d \in held
      PROVE  regs[n][d].rumor \in Rumor /\ IsAuthorized(regs[n][d].rumor)
  <2>1. d \in Domains /\ Replicated(regs[n][d])
      BY <1>2
  <2> QED
      BY <1>3, <2>1 DEF ServesSigned
<1>5. IsFiniteSet(listed)
  <2>1. held \subseteq Domains
      BY <1>2
  <2>2. IsFiniteSet(held)
      BY <2>1, DomainsAssumption, FS_Subset
  <2>3. [d \in held |-> regs[n][d].rumor] \in Surjection(held, listed)
      BY DEF Surjection
  <2> HIDE DEF held, listed
  <2> QED
      BY <2>2, <2>3, FS_Surjection
<1>6. listed \in SUBSET Rumor /\ Forwardable(listed)
    BY <1>4, <1>5 DEF Forwardable
<1>7. \E rest \in Taken(m) : net' = rest \cup Sent(x)
    BY DEF HandleRequest, n
<1> HIDE DEF listed
<1>8. x \in Rumors /\ x.rumors = listed
    BY <1>1, <1>2, <1>6 DEF Rumors
<1> HIDE DEF x
<1>9. net' \subseteq net \cup {x}
    BY <1>7, ReceivedFacts DEF Sent
<1>10. peers' \in [Nodes -> SUBSET Nodes]
    BY ReceivedFacts DEF HandleRequest
<1> QED
    BY <1>6, <1>8, <1>9, <1>10, NetChanged

-----------------------------------------------------------------------------
(* Every step                                                              *)

\* A node starts with empty stores and nothing outstanding.
LEMMA InitEstablishes == Init => IInv
<1> SUFFICES ASSUME Init PROVE IInv
    OBVIOUS
<1> USE DEF Init
<1>1. \A n \in Nodes : StoreOf(n) \in Sound
  <2> SUFFICES ASSUME NEW n \in Nodes PROVE StoreOf(n) \in Sound
      OBVIOUS
  <2>1. /\ StoreOf(n).claims = [h \in Hosts |-> [d \in Domains |-> None]]
        /\ StoreOf(n).regs = [d \in Domains |-> None]
      BY DEF StoreOf
  <2>2. StoreOf(n) \in Maps
      BY DEF Maps, StoreOf, KeyedClaims
  <2>3. \A h \in Hosts : {d \in Domains : StoreOf(n).claims[h][d] # None} = {}
      BY <2>1
  <2>4. \A h \in Hosts : Cardinality({d \in Domains : StoreOf(n).claims[h][d] # None}) <= MaxRegs
    <3>1. Cardinality({}) = 0
        BY FS_EmptySet
    <3>2. Cardinality({}) <= MaxRegs
        BY <3>1, NumbersAssumption
    <3> QED
        BY <2>3, <3>2, Zenon
  <2> QED
      BY <2>1, <2>2, <2>4 DEF Sound, Agreeing, Replicated
<1>2. StoreInv
  <2>1. claims \in [Nodes -> [Hosts -> KeyedClaims]]
      BY DEF KeyedClaims
  <2> QED
      BY <1>1, <2>1 DEF StoreInv, StoresSound
<1>3. NetInv
    BY BootstrapAssumption DEF NetInv, NetTyped
<1>4. ExchangeInv
  <2>1. \A n \in Nodes : pending[n] = <<>> /\ Len(pending[n]) = 0
      OBVIOUS
  <2>2. PendingTyped
    <3>1. <<>> \in Seq(Pending)
        OBVIOUS
    <3> QED
        BY <3>1 DEF PendingTyped
  <2> QED
      BY <2>1, <2>2, BoundsAssumption
         DEF ExchangeInv, OnePerPeer, SerialsApart, Unanswered, PendingWithinCap,
             AnswerUsedOnce
<1> QED
    BY <1>2, <1>3, <1>4 DEF IInv

\* A step that leaves the challenges alone.
LEMMA ExchangeUntouched ==
    ASSUME ExchangeInv, UNCHANGED <<pending, uses>>
    PROVE  ExchangeInv'
BY DEF ExchangeInv, PendingTyped, OnePerPeer, SerialsApart, Unanswered, PendingWithinCap,
       AnswerUsedOnce

\* Every step preserves the invariant.
LEMMA NextPreserves == IInv /\ [Next]_vars => IInv'
<1> SUFFICES ASSUME IInv, [Next]_vars PROVE IInv'
    OBVIOUS
<1>0. StoreInv /\ NetInv /\ ExchangeInv
    BY DEF IInv
<1>1. ASSUME NEW n \in Nodes, NEW r \in LocalClaims[n], Register(n, r)
      PROVE  IInv'
  <2>1. StoreInv'
      BY <1>0, <1>1, RegisterStore
  <2>2. NetInv' /\ ExchangeInv'
      BY <1>0, <1>1, NetShrinks, ExchangeUntouched DEF Register, NetInv
  <2> QED
      BY <2>1, <2>2 DEF IInv
<1>2. ASSUME NEW n \in Nodes, NEW c \in Probers, Probe(n, c)
      PROVE  IInv'
  <2>1. StoreInv'
      BY <1>0, <1>2, ProbeStore
  <2>2. NetInv' /\ ExchangeInv'
      BY <1>0, <1>2, NetShrinks, ExchangeUntouched DEF Probe, NetInv
  <2> QED
      BY <2>1, <2>2 DEF IInv
<1>3. ASSUME NEW n \in Nodes, NEW r \in LocalClaims[n], RefuseRegister(n, r.client, r.domain)
      PROVE  IInv'
  <2>1. StoreInv'
      BY <1>0, <1>3, RefuseStore
  <2>2. NetInv' /\ ExchangeInv'
      BY <1>0, <1>3, NetShrinks, ExchangeUntouched DEF RefuseRegister, NetInv
  <2> QED
      BY <2>1, <2>2 DEF IInv
<1>4. ASSUME NEW n \in Nodes, NEW p \in LocalRecords[n],
              SetRecords(n, p.client, p.domain, p.records)
       PROVE  IInv'
  <2>0. p.client \in Clients /\ p.domain \in Domains /\ p.records \in Records
      BY <1>4, LocalClaimsAssumption
  <2>1. StoreInv'
      BY <1>0, <1>4, <2>0, SetRecordsStore
  <2>2. NetInv' /\ ExchangeInv'
      BY <1>0, <1>4, NetShrinks, ExchangeUntouched DEF SetRecords, NetInv
  <2> QED
      BY <2>1, <2>2 DEF IInv
<1>5. ASSUME NEW n \in Nodes, NEW p \in Nodes, GossipPush(n, p)
      PROVE  IInv'
  <2>1. NetInv'
      BY <1>0, <1>5, PushNet
  <2>2. StoreInv' /\ ExchangeInv'
      BY <1>0, <1>5, StoreUntouched, ExchangeUntouched DEF GossipPush, StoreInv
  <2> QED
      BY <2>1, <2>2 DEF IInv
<1>6. ASSUME NEW m \in net, Receive(m)
      PROVE  IInv'
  <2>1. m.from \in Nodes /\ m.to \in Nodes
      BY <1>0, MessageKinds DEF NetInv
  <2>2. /\ \A rest \in Taken(m) : rest \subseteq net
        /\ Learn(m) => peers' \in [Nodes -> SUBSET Nodes]
      BY <1>0, ReceivedFacts
  <2>3. CASE HandleDigest(m)
    <3>1. NetInv'
        BY <1>0, <2>3, HandleDigestNet
    <3>2. StoreInv'
        BY <1>0, <2>3, StoreUntouched DEF HandleDigest, StoreInv
    <3> DEFINE e == [peer |-> m.from, challenge |-> NextFresh,
                     domains |-> Missing(m.to, m.entries)]
    <3>3. NextFresh \in Fresh /\ NextFresh \in Challenges
        BY <2>3, NextFreshIsFresh DEF HandleDigest, Fresh
    <3>4. e \in Pending
        BY <2>1, <3>3 DEF Pending, Missing
    <3>5. /\ e.challenge = NextFresh
          /\ pending' = [pending EXCEPT ![m.to] = Remember(m.to, e)]
          /\ uses' = [uses EXCEPT ![NextFresh] = 0]
        BY <2>3 DEF HandleDigest
    <3> HIDE DEF e
    <3>6. ExchangeInv'
        BY <1>0, <2>1, <3>3, <3>4, <3>5, RememberPreserves
    <3> QED
        BY <3>1, <3>2, <3>6 DEF IInv
  <2>4. CASE IgnoreDigest(m)
    <3>1. NetInv'
        BY <1>0, <2>2, <2>4, NetShrinks DEF IgnoreDigest
    <3>2. StoreInv' /\ ExchangeInv'
        BY <1>0, <2>4, StoreUntouched, ExchangeUntouched DEF IgnoreDigest, StoreInv
    <3> QED
        BY <3>1, <3>2 DEF IInv
  <2>5. CASE HandleRequest(m)
    <3>1. NetInv'
        BY <1>0, <2>5, HandleRequestNet
    <3>2. StoreInv' /\ ExchangeInv'
        BY <1>0, <2>5, StoreUntouched, ExchangeUntouched DEF HandleRequest, StoreInv
    <3> QED
        BY <3>1, <3>2 DEF IInv
  <2>6. CASE HandleRumors(m)
    <3>1. NetInv'
        BY <1>0, <2>2, <2>6, NetShrinks DEF HandleRumors
    <3>2. StoreInv'
        BY <1>0, <2>6, HandleRumorsStore
    <3>3. PICK i \in Outstanding(m.to, m.from) : pending[m.to][i].challenge = m.answer
        BY <2>6 DEF HandleRumors, Acceptable
    <3>4. /\ pending' = [pending EXCEPT ![m.to] = Forget(m.to, m.from)]
          /\ uses' = [uses EXCEPT ![pending[m.to][i].challenge] = @ + 1]
        BY <2>6, <3>3 DEF HandleRumors
    <3>5. ExchangeInv'
        BY <1>0, <2>1, <3>4, ForgetPreserves
    <3> QED
        BY <3>1, <3>2, <3>5 DEF IInv
  <2>7. CASE DiscardRumors(m)
    <3>1. NetInv'
        BY <1>0, <2>2, <2>7, NetShrinks DEF DiscardRumors
    <3>2. StoreInv'
        BY <1>0, <2>7, StoreUntouched DEF DiscardRumors, StoreInv
    <3>3. ExchangeInv'
        BY <1>0, <2>1, <2>7, ForgetPreserves DEF DiscardRumors
    <3> QED
        BY <3>1, <3>2, <3>3 DEF IInv
  <2> QED
      BY <1>6, <2>3, <2>4, <2>5, <2>6, <2>7 DEF Receive
<1>7. ASSUME NEW n \in Nodes, NEW p \in Nodes, ExpireChallenge(n, p)
      PROVE  IInv'
  <2>1. ExchangeInv'
      BY <1>0, <1>7, ForgetPreserves DEF ExpireChallenge
  <2>2. StoreInv' /\ NetInv'
      BY <1>0, <1>7, StoreUntouched, NetShrinks DEF ExpireChallenge, StoreInv, NetInv
  <2> QED
      BY <2>1, <2>2 DEF IInv
<1>8. ASSUME NEW m \in net, Lose(m)
      PROVE  IInv'
  <2>1. NetInv'
      BY <1>0, <1>8, NetShrinks DEF Lose, NetInv
  <2>2. StoreInv' /\ ExchangeInv'
      BY <1>0, <1>8, StoreUntouched, ExchangeUntouched DEF Lose, StoreInv
  <2> QED
      BY <2>1, <2>2 DEF IInv
<1>9. CASE Tick
  <2>1. now' \in Nat
      BY <1>0, <1>9 DEF Tick, StoreInv
  <2>2. StoreInv' /\ ExchangeInv'
      BY <1>0, <1>9, <2>1, StoreUntouched, ExchangeUntouched DEF Tick
  <2>3. NetInv'
      BY <1>0, <1>9, NetShrinks DEF Tick, NetInv
  <2> QED
      BY <2>2, <2>3 DEF IInv
<1>10. CASE UNCHANGED vars
  <2>1. StoreInv' /\ ExchangeInv'
      BY <1>0, <1>10, StoreUntouched, ExchangeUntouched DEF vars, StoreInv
  <2>2. NetInv'
      BY <1>0, <1>10, NetShrinks DEF vars, NetInv
  <2> QED
      BY <2>1, <2>2 DEF IInv
<1> QED
    BY <1>1, <1>2, <1>5, <1>6, <1>7, <1>8, <1>9, <1>10, <1>3, <1>4 DEF Next

-----------------------------------------------------------------------------
(* What holds of every behavior                                            *)

\* The exchange, the stores and the network keep their invariant.
THEOREM InductiveInvariant == Spec => []IInv
<1> QED
    BY InitEstablishes, NextPreserves, PTL DEF Spec

\* The node's maps, its pending challenges and the datagrams have their types.
THEOREM TypeCorrect == Spec => []TypeOK
<1>1. IInv => TypeOK
  <2> SUFFICES ASSUME IInv PROVE TypeOK
      OBVIOUS
  <2>1. StoreInv /\ NetInv /\ ExchangeInv
      BY DEF IInv
  <2>2. ASSUME NEW n \in Nodes
        PROVE  /\ \A d \in Domains : regs[n][d] \in Registration \cup {None}
               /\ \A h \in Hosts, d \in Domains : claims[n][h][d] \in Rumor \cup {None}
               /\ counts[n] \in [Hosts -> Nat] /\ peers[n] \subseteq Nodes
               /\ \A i \in 1 .. Len(pending[n]) : pending[n][i] \in Pending
    <3>1. \A h \in Hosts, d \in Domains : claims[n][h][d] \in Rumor \cup {None}
        BY <2>1 DEF StoreInv, KeyedClaims
    <3>2. \A i \in 1 .. Len(pending[n]) : pending[n][i] \in Pending
        BY <2>1 DEF ExchangeInv, PendingTyped
    <3> QED
        BY <2>1, <3>1, <3>2 DEF StoreInv, NetInv
  <2>3. ASSUME NEW m \in net
        PROVE  CASE m.type = "Digest" -> m.entries \in [Domains -> Nat \cup {None}]
                 [] m.type = "Request" -> m \in Request
                 [] OTHER -> m.rumors \subseteq Rumor /\ m.answer \in Challenges
    <3>1. CASE m \in Digest
      <4>1. m.type = "Digest" /\ m.entries \in [Domains -> Nat \cup {None}]
          BY <3>1 DEF Digest
      <4> QED
          BY <4>1
    <3>2. CASE m \in Request
      <4>1. m.type = "Request"
          BY <3>2 DEF Request
      <4> QED
          BY <3>2, <4>1
    <3>3. CASE m \in Rumors
      <4>1. m.type = "Rumors" /\ m.rumors \subseteq Rumor /\ m.answer \in Challenges
          BY <3>3 DEF Rumors
      <4> QED
          BY <4>1
    <3> QED
        BY <2>1, <3>1, <3>2, <3>3 DEF NetInv, NetTyped
  <2>4. now \in Nat /\ \A c \in Challenges : uses[c] \in Nat
      BY <2>1 DEF StoreInv, ExchangeInv
  <2> QED
      BY <2>2, <2>3, <2>4 DEF TypeOK
<1> QED
    BY <1>1, InductiveInvariant, PTL

\* An answer is applied at most once, whatever the network repeats or reorders:
\* the challenge it answers is outstanding at one node, for one peer, and goes
\* with its first answer.
THEOREM AnsweredOnce == Spec => []AnswerUsedOnce
<1>1. IInv => AnswerUsedOnce
    BY DEF IInv, ExchangeInv
<1> QED
    BY <1>1, InductiveInvariant, PTL

\* A node waits for at most MAX_PENDING_CHALLENGES answers, and for one per peer.
THEOREM ChallengesBounded == Spec => []PendingBounded
<1>1. IInv => PendingBounded
  <2> SUFFICES ASSUME IInv, NEW n \in Nodes
               PROVE  /\ Len(pending[n]) <= MaxPending
                      /\ \A p \in Nodes : Cardinality(Outstanding(n, p)) <= 1
      BY DEF PendingBounded
  <2>1. ASSUME NEW p \in Nodes
        PROVE  Cardinality(Outstanding(n, p)) <= 1
    <3>1. CASE Outstanding(n, p) = {}
        BY <3>1, FS_EmptySet
    <3>2. CASE Outstanding(n, p) # {}
      <4>1. PICK i \in Outstanding(n, p) : TRUE
          BY <3>2
      <4>2. \A j \in Outstanding(n, p) : j = i
          BY <4>1 DEF IInv, ExchangeInv, OnePerPeer, Outstanding
      <4>3. Outstanding(n, p) = {i}
          BY <4>1, <4>2
      <4>4. Cardinality({i}) = 1
          BY FS_Singleton
      <4> QED
          BY <4>3, <4>4
    <3> QED
        BY <3>1, <3>2
  <2> QED
      BY <2>1 DEF IInv, ExchangeInv, PendingWithinCap
<1> QED
    BY <1>1, InductiveInvariant, PTL

\* No node replicates more than MAX_REGISTRATIONS_PER_CLIENT names of a host:
\* they are among its admitted claims.
THEOREM ReplicaCap == Spec => []ReplicasWithinCap
<1>1. IInv => ReplicasWithinCap
  <2> SUFFICES ASSUME IInv, NEW n \in Nodes, NEW h \in Hosts
               PROVE  Cardinality({d \in Domains : Replicated(regs[n][d])
                                                   /\ regs[n][d].host = h}) <= MaxRegs
      BY DEF ReplicasWithinCap
  <2> DEFINE held == {d \in Domains : Replicated(regs[n][d]) /\ regs[n][d].host = h}
             claimed == {d \in Domains : claims[n][h][d] # None}
  <2>1. StoreInv
      BY DEF IInv
  <2>2. Cardinality(claimed) <= MaxRegs
      BY <2>1, StoreFacts DEF Sound, StoreOf
  <2>3. held \subseteq claimed
    <3> SUFFICES ASSUME NEW d \in held PROVE claims[n][h][d] # None
        OBVIOUS
    <3>1. Replicated(regs[n][d]) /\ regs[n][d].host = h
        OBVIOUS
    <3>2. Backs(claims[n][h][d], regs[n][d])
        BY <2>1, <3>1, StoreFacts
    <3> QED
        BY <3>2 DEF Backs
  <2>4. IsFiniteSet(claimed)
    <3>1. claimed \subseteq Domains
        OBVIOUS
    <3> QED
        BY <3>1, DomainsAssumption, FS_Subset
  <2> HIDE DEF held, claimed
  <2>5. /\ Cardinality(held) <= Cardinality(claimed)
        /\ Cardinality(held) \in Nat /\ Cardinality(claimed) \in Nat
      BY <2>3, <2>4, FS_Subset, FS_CardinalityType
  <2>6. Cardinality(held) <= MaxRegs
      BY <2>2, <2>5, NumbersAssumption
  <2> QED
      BY <2>6 DEF held
<1> QED
    BY <1>1, InductiveInvariant, PTL

\* What a node serves for a replicated name is signed by its owner, and the claim
\* admitted for it says the same but for records left behind by a SetRecords,
\* which make it void.
THEOREM ReplicasAgreeWithClaims == Spec => []ReplicasAreClaims
<1>1. IInv => ReplicasAreClaims
    BY StoreFacts DEF IInv, ReplicasAreClaims
<1> QED
    BY <1>1, InductiveInvariant, PTL

\* A node forwards nothing but authorized rumors, whatever it was sent: what is
\* under way between nodes verifies.
THEOREM ForwardedIsAuthorized ==
    Spec => [](\A m \in net : m.type = "Rumors" => \A r \in m.rumors : IsAuthorized(r))
<1>1. IInv => \A m \in net : m.type = "Rumors" => \A r \in m.rumors : IsAuthorized(r)
    BY MessageKinds DEF IInv, NetInv, Forwardable
<1> QED
    BY <1>1, InductiveInvariant, PTL
=============================================================================
