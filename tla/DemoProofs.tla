----------------------------- MODULE DemoProofs -----------------------------
(***************************************************************************)
(* The node with its clients: what the listeners, the client API and the   *)
(* demo client do is, for the registry, what Registry says it is, so that  *)
(* its theorems hold of the node; and the safety of the node itself, for   *)
(* every command line, queue length, number of clients and datagrams.      *)
(***************************************************************************)
EXTENDS Demo, RegistryProofs, DnsProofs

-----------------------------------------------------------------------------
(* The inductive invariant                                                 *)

\* The variables of the node and its clients hold what their types say.
Typed ==
    /\ now \in 0 .. MaxTime
    /\ cmdline \in CommandLines
    /\ process \in {"starting", "running", "aborted"}
    /\ args \in Args
    /\ tasks \in [Listeners -> {"unbound", "up", "down"}]
    /\ queue \in [Listeners -> Seq(Datagrams)]
    /\ \A l \in Listeners : Len(queue[l]) <= QueueLen
    /\ work \in WorkItems \cup {None}
    /\ step \in 0 .. 6 /\ sentAt \in Nat \cup {None}
    /\ sent \in 0 .. MaxSent

\* The request that holds the mutex is the one the client API has in hand.
Stages == {"reclaim", "reconcile", "attach"}
MutexHeld == (pc \in Stages) <=> (work # None /\ work.phase = "locked")

\* A client whose hostname the node has reason to believe.
Trusted(c, words) == c \in Confirmable \/ Insecure \in ToSet(words)

\* Only such a client's names are registered or claimed.
StoreTrusted ==
    /\ \A h \in Hosts, d \in Domains : claims[h][d] # None => Trusted(claims[h][d].client, cmdline)
    /\ \A d \in Domains : regs[d] # None => Trusted(regs[d].client, cmdline)

\* Only such a client's Register goes on to the registry.
Believed ==
    /\ args.insecure => Insecure \in ToSet(cmdline)
    /\ work # None /\ work.phase = "ready" /\ work.verified /\ work.msg.body.kind = "register" =>
         Trusted(work.msg.body.client, cmdline)
    /\ pc \in Stages => Trusted(req.client, cmdline)
    /\ StoreTrusted

\* Of the first n words, each flag that needs an address has one behind it, but
\* perhaps the last.
Followed(words, n) ==
    \A i \in 1 .. n - 1 : words[i] \in ValueFlags => words[i + 1] \in Addresses

\* What the first n words say of the listener a flag is for.
Told(flag, words, n, a) ==
    /\ (\A i \in 1 .. n - 1 : words[i] # flag) => a[FieldOf[flag]] = DefaultArgs[FieldOf[flag]]
    /\ \A i \in 1 .. n - 1 :
          words[i] = flag /\ (\A j \in 1 .. n - 1 : words[j] = flag => j <= i) =>
             a[FieldOf[flag]] = words[i + 1]

\* The command line has been read to its end.
AllRead ==
    /\ \A i \in 1 .. Len(cmdline) : cmdline[i] \in ValueFlags => i < Len(cmdline)
    /\ Followed(cmdline, Len(cmdline))
    /\ \A flag \in DOMAIN FieldOf : Told(flag, cmdline, Len(cmdline), args)

\* Each listener that is up was told where, and receives there alone.
Bound ==
    /\ process = "running" => AllRead
    /\ \A l \in Listeners : tasks[l] # "down" => args[l] \in Addresses
    /\ \A l \in Listeners : \A k \in Listeners \ {l} :
          tasks[l] = "up" /\ tasks[k] = "up" => Covers[args[l]] \cap Covers[args[k]] = {}

\* The protocol and the kind of the demo's requests.
ProtoOf == <<"api", "api", "api", "resolve", "dns">>
KindOf == <<"probe", "register", "set", "resolve", "dns">>

IsRequest(i, body) == body.proto = ProtoOf[i] /\ body.kind = KindOf[i]
IsReply(i, reply) ==
    /\ reply.proto = "api" => reply.of = KindOf[i]
    /\ ProtoOf[i] = "dns" => reply.proto = "dns"

DemoQueued(l, i) == i \in 1 .. Len(queue[l]) /\ queue[l][i].from = "demo"
DemoServed == work # None /\ work.msg.from = "demo"

\* Nothing of the demo's is anywhere.
Quiet ==
    /\ \A l \in Listeners, i \in Nat : ~ DemoQueued(l, i)
    /\ ~ DemoServed /\ replies = <<>>

\* Its request of step s is in one place at most, or the reply to it is.
InFlight(s) ==
    /\ \A l \in Listeners, i \in Nat : DemoQueued(l, i) =>
         /\ IsRequest(s, queue[l][i].body)
         /\ ~ DemoServed /\ replies = <<>>
         /\ \A k \in Listeners, j \in Nat : DemoQueued(k, j) => k = l /\ j = i
    /\ DemoServed => IsRequest(s, work.msg.body) /\ replies = <<>>
    /\ replies # <<>> => replies = <<replies[1]>> /\ IsReply(s, replies[1])

\* Something is in flight only while the demo waits; what it has read so far are
\* the replies to its requests in order.
OneInFlight ==
    /\ step \in 1 .. 6 /\ sentAt = None => Quiet
    /\ step \in 1 .. 5 /\ sentAt # None => InFlight(step)
    /\ step = 6 => sentAt = None

RepliesRead ==
    /\ answers \in Seq({answers[i] : i \in 1 .. Len(answers)})
    /\ Len(answers) <= 5
    /\ step # 0 => Len(answers) = step - 1
    /\ \A i \in 1 .. Len(answers) :
         answers[i].proto = ProtoOf[i] /\ (answers[i].proto = "api" => answers[i].of = KindOf[i])

\* The Registers among the first n datagrams of a queue.
IsRegister(m) == m.body.kind = "register"
Count(q, n) == Cardinality({j \in 1 .. n : IsRegister(q[j])})

\* A datagram with a Registers still in front of it has waited, at time t, for those
\* that no longer are, and for the verification under way, which has taken spent.
Waited(m, a, spent, t) ==
    a <= m.ahead /\ t - m.arrived <= MaxVerify * (m.ahead - a) + spent

QueueWaited(q, verifying, spent, t) ==
    \A i \in 1 .. Len(q) : Waited(q[i], Count(q, i - 1) + verifying, spent, t)

Verifying == work # None /\ work.phase = "verify"
Verifications == IF Verifying THEN 1 ELSE 0
Spent == IF Verifying THEN now - work.since ELSE 0

\* The request in hand has waited for the Registers that were in front of it before it
\* was taken up, and since then for its own verification, if it is a Register.
WorkWaited ==
    work # None =>
        /\ work.since <= now
        /\ work.since - work.msg.arrived <= MaxVerify * work.msg.ahead
        /\ now - work.since <= IF work.msg.body.kind = "register" THEN MaxVerify ELSE 0
        /\ work.phase = "verify" => work.msg.body.kind = "register"

\* The datagrams of the client API's queue have waited for those in front of them and
\* the verification under way; there are none when the API does not run.
WaitAccounted ==
    /\ process = "starting" => tasks["api"] = "down"
    /\ tasks["api"] # "up" => queue["api"] = <<>>
    /\ QueueWaited(queue["api"], Verifications, Spent, now)
    /\ WorkWaited

-----------------------------------------------------------------------------
(* Sequences                                                               *)

\* What is left of a queue when its head is taken.
LEMMA TailFacts ==
    ASSUME NEW S, NEW s \in Seq(S), s # <<>>
    PROVE  /\ Len(s) \in Nat \ {0} /\ Head(s) = s[1] /\ s[1] \in S
           /\ Tail(s) \in Seq(S) /\ Len(Tail(s)) = Len(s) - 1
           /\ \A i \in 1 .. Len(s) - 1 : Tail(s)[i] = s[i + 1]
<1>1. Len(s) \in Nat \ {0}
    OBVIOUS
<1> QED
    BY <1>1

\* What is in a queue when a datagram is added.
LEMMA AppendFacts ==
    ASSUME NEW S, NEW s \in Seq(S), NEW e \in S
    PROVE  /\ Append(s, e) \in Seq(S) /\ Len(Append(s, e)) = Len(s) + 1
           /\ \A i \in 1 .. Len(s) : Append(s, e)[i] = s[i]
           /\ Append(s, e)[Len(s) + 1] = e
OBVIOUS

\* A listener takes the datagram at the head of its queue.
LEMMA ConsumeFacts ==
    ASSUME Typed, NEW l \in Listeners, queue[l] # <<>>, Consume(l)
    PROVE  /\ queue' \in [Listeners -> Seq(Datagrams)]
           /\ \A k \in Listeners : Len(queue'[k]) <= Len(queue[k])
           /\ \A k \in Listeners \ {l} : queue'[k] = queue[k]
           /\ Len(queue[l]) \in Nat \ {0} /\ Len(queue'[l]) = Len(queue[l]) - 1
           /\ \A i \in 1 .. Len(queue[l]) - 1 : queue'[l][i] = queue[l][i + 1]
           /\ Head(queue[l]) = queue[l][1] /\ Head(queue[l]) \in Datagrams
<1>1. queue \in [Listeners -> Seq(Datagrams)]
    BY DEF Typed
<1>2. queue[l] \in Seq(Datagrams)
    BY <1>1
<1>3. queue' = [queue EXCEPT ![l] = Tail(queue[l])]
    BY DEF Consume
<1>4. /\ Len(queue[l]) \in Nat \ {0} /\ Head(queue[l]) = queue[l][1]
      /\ queue[l][1] \in Datagrams
      /\ Tail(queue[l]) \in Seq(Datagrams) /\ Len(Tail(queue[l])) = Len(queue[l]) - 1
      /\ \A i \in 1 .. Len(queue[l]) - 1 : Tail(queue[l])[i] = queue[l][i + 1]
    BY <1>2, TailFacts
<1>5. queue' \in [Listeners -> Seq(Datagrams)]
    BY <1>1, <1>3, <1>4
<1>6. queue'[l] = Tail(queue[l]) /\ \A k \in Listeners \ {l} : queue'[k] = queue[k]
    BY <1>1, <1>3
<1>7. ASSUME NEW k \in Listeners PROVE Len(queue'[k]) <= Len(queue[k])
  <2>1. Len(queue[k]) \in Nat
      BY <1>1
  <2>2. CASE k = l
    <3>1. Len(queue'[l]) = Len(Tail(queue[l]))
        BY <1>6, Zenon
    <3> QED
        BY <1>4, <2>1, <2>2, <3>1
  <2>3. CASE k # l
    <3>1. queue'[k] = queue[k]
        BY <1>6, <2>3
    <3> QED
        BY <2>1, <3>1
  <2> QED
      BY <2>2, <2>3
<1> QED
    BY <1>4, <1>5, <1>6, <1>7

\* The number of Registers a datagram has to wait for.
LEMMA RegistersAheadIsNat == Typed => RegistersAhead \in Nat
<1> SUFFICES ASSUME Typed PROVE RegistersAhead \in Nat
    OBVIOUS
<1> DEFINE R == {i \in 1 .. Len(queue["api"]) : queue["api"][i].body.kind = "register"}
<1>1. Len(queue["api"]) \in Nat
    BY DEF Typed, Listeners
<1>2. IsFiniteSet(1 .. Len(queue["api"]))
    BY <1>1, FS_Interval
<1>3. Cardinality(R) \in Nat
    BY <1>2, FS_Subset, FS_CardinalityType
<1> QED
    BY <1>3 DEF RegistersAhead

-----------------------------------------------------------------------------
(* Datagrams                                                               *)

\* A request to the client API is one, whoever makes it.
LEMMA ApiRequestFacts ==
    ASSUME Typed, NEW kind \in Kinds, NEW c \in Clients, NEW d \in Domains,
           NEW recs \in Records
    PROVE  /\ ApiRequest(kind, c, now, d, recs) \in ApiRequests
           /\ ApiRequest(kind, c, now, d, recs).proto = "api"
           /\ ApiRequest(kind, c, now, d, recs).kind = kind
<1> DEFINE r == [proto |-> "api", kind |-> kind, client |-> c, ts |-> now, domain |-> d,
                 records |-> recs, sig |-> None]
           s == [kind |-> kind, domain |-> d, ts |-> now, records |-> recs]
<1>1. now \in 0 .. MaxTime
    BY DEF Typed
<1>2. Message(r) = Message(s)
  <2>1. r.kind = s.kind /\ r.ts = s.ts /\ r.domain = s.domain /\ r.records = s.records
      OBVIOUS
  <2> HIDE DEF r, s
  <2> QED
      BY <2>1, Zenon DEF Message
<1>3. Message(s) \in Signatures
  <2>1. s \in [kind : Kinds, domain : Domains, ts : 0 .. MaxTime, records : Records]
      BY <1>1
  <2> HIDE DEF s
  <2> QED
      BY <2>1, Zenon DEF Signatures
<1>4. ApiRequest(kind, c, now, d, recs) = [r EXCEPT !.sig = Message(r)]
    BY DEF ApiRequest
<1> DEFINE m == Message(r)
<1>5. m \in Signatures
    BY <1>2, <1>3
<1>6. ApiRequest(kind, c, now, d, recs) = [r EXCEPT !.sig = m]
    BY <1>4
<1> HIDE DEF m
<1> QED
    BY <1>1, <1>5, <1>6 DEF ApiRequests

\* Lookups are what they are.
LEMMA LookupFacts ==
    /\ ResolveQuery(DemoDomain).proto = "resolve" /\ ResolveQuery(DemoDomain).kind = "resolve"
    /\ \A cells : DnsMessage(cells).proto = "dns" /\ DnsMessage(cells).kind = "dns"
BY DEF ResolveQuery, DnsMessage

\* What the demo sends is the request of its step.
LEMMA DemoRequestFacts ==
    ASSUME Typed, NEW i \in 1 .. 5
    PROVE  /\ DemoRequest(i) \in Bodies
           /\ DemoRequest(i).proto = ProtoOf[i] /\ DemoRequest(i).kind = KindOf[i]
<1>1. /\ DemoClient \in Clients /\ DemoDomain \in Domains
      /\ DemoRecords \in Records /\ NoRecords \in Records
    BY DemoAssumption, RecordsAssumption
<1>2. "probe" \in Kinds /\ "register" \in Kinds /\ "set" \in Kinds
    BY DEF Kinds
<1>3. CASE i = 1
  <2>1. DemoRequest(i) = ApiRequest("probe", DemoClient, now, DemoDomain, NoRecords)
      BY <1>3 DEF DemoRequest
  <2> QED
      BY <1>1, <1>2, <1>3, <2>1, ApiRequestFacts DEF Bodies, ProtoOf, KindOf
<1>4. CASE i = 2
  <2>1. DemoRequest(i) = ApiRequest("register", DemoClient, now, DemoDomain, NoRecords)
      BY <1>4 DEF DemoRequest
  <2> QED
      BY <1>1, <1>2, <1>4, <2>1, ApiRequestFacts DEF Bodies, ProtoOf, KindOf
<1>5. CASE i = 3
  <2>1. DemoRequest(i) = ApiRequest("set", DemoClient, now, DemoDomain, DemoRecords)
      BY <1>5 DEF DemoRequest
  <2> QED
      BY <1>1, <1>2, <1>5, <2>1, ApiRequestFacts DEF Bodies, ProtoOf, KindOf
<1>6. CASE i = 4
  <2>1. DemoRequest(i) = ResolveQuery(DemoDomain)
      BY <1>6 DEF DemoRequest
  <2> QED
      BY <1>6, <2>1, LookupFacts DEF Bodies, ProtoOf, KindOf
<1>7. CASE i = 5
  <2>1. DemoRequest(i) = DnsMessage(NativeQuery)
      BY <1>7 DEF DemoRequest
  <2> QED
      BY <1>7, <2>1, LookupFacts DEF Bodies, ProtoOf, KindOf
<1> QED
    BY <1>3, <1>4, <1>5, <1>6, <1>7

\* What the other client sends is a datagram too.
LEMMA OtherDatagramsFacts ==
    ASSUME Typed, NEW m \in OtherDatagrams
    PROVE  m[2] \in Bodies
<1> DEFINE probe == ApiRequest("probe", OtherClient, now, DemoDomain, NoRecords)
           register == ApiRequest("register", OtherClient, now, DemoDomain, NoRecords)
<1>1. probe \in ApiRequests /\ register \in ApiRequests
  <2>1. OtherClient \in Clients /\ DemoDomain \in Domains /\ NoRecords \in Records
      BY DemoAssumption, RecordsAssumption
  <2>2. "probe" \in Kinds /\ "register" \in Kinds
      BY DEF Kinds
  <2> QED
      BY <2>1, <2>2, ApiRequestFacts
<1>2. m \in {<<1, probe>>, <<1, register>>, <<1, [register EXCEPT !.sig = probe.sig]>>,
             <<1, ResolveQuery(DemoDomain)>>, <<5, DnsMessage(<<>>)>>}
    BY DEF OtherDatagrams
<1> HIDE DEF probe, register
<1>3. [register EXCEPT !.sig = probe.sig] \in ApiRequests
    BY <1>1 DEF ApiRequests
<1> DEFINE forged == [register EXCEPT !.sig = probe.sig]
<1>4. forged \in ApiRequests
    BY <1>3
<1>5. m \in {<<1, probe>>, <<1, register>>, <<1, forged>>,
             <<1, ResolveQuery(DemoDomain)>>, <<5, DnsMessage(<<>>)>>}
    BY <1>2
<1> HIDE DEF forged
<1>6. m[2] \in {probe, register, forged, ResolveQuery(DemoDomain), DnsMessage(<<>>)}
    BY <1>5
<1> QED
    BY <1>1, <1>4, <1>6 DEF Bodies

\* A datagram is lost, or waits in the queues of listeners that receive at its address.
LEMMA SendFacts ==
    ASSUME Typed, NEW addr, NEW body \in Bodies, NEW from \in {"demo", "other"},
           Send(addr, body, from)
    PROVE  LET m == [body |-> body, from |-> from, arrived |-> now, ahead |-> RegistersAhead]
           IN /\ m \in Datagrams
              /\ queue' \in [Listeners -> Seq(Datagrams)]
              /\ \A l \in Listeners : Len(queue'[l]) <= QueueLen
              /\ \A l \in Listeners :
                    \/ queue'[l] = queue[l]
                    \/ tasks[l] = "up" /\ addr \in Covers[args[l]] /\ queue'[l] = Append(queue[l], m)
<1> DEFINE m == [body |-> body, from |-> from, arrived |-> now, ahead |-> RegistersAhead]
<1>1. m \in Datagrams
    BY RegistersAheadIsNat DEF Typed, Datagrams
<1>2. queue \in [Listeners -> Seq(Datagrams)] /\ \A l \in Listeners : Len(queue[l]) <= QueueLen
    BY DEF Typed
<1>3. queue' = [l \in Listeners |->
                  IF tasks[l] = "up" /\ addr \in Covers[args[l]] /\ Len(queue[l]) < QueueLen
                  THEN Append(queue[l], m) ELSE queue[l]]
    BY DEF Send
<1> HIDE DEF m
<1>4. ASSUME NEW l \in Listeners
      PROVE  /\ queue'[l] \in Seq(Datagrams) /\ Len(queue'[l]) <= QueueLen
             /\ \/ queue'[l] = queue[l]
                \/ tasks[l] = "up" /\ addr \in Covers[args[l]] /\ queue'[l] = Append(queue[l], m)
  <2>1. queue[l] \in Seq(Datagrams) /\ Len(queue[l]) \in Nat /\ Len(queue[l]) <= QueueLen
      BY <1>2
  <2>2. /\ Append(queue[l], m) \in Seq(Datagrams)
        /\ Len(Append(queue[l], m)) = Len(queue[l]) + 1
      BY <1>1, <2>1, AppendFacts
  <2>3. CASE tasks[l] = "up" /\ addr \in Covers[args[l]] /\ Len(queue[l]) < QueueLen
    <3>1. queue'[l] = Append(queue[l], m)
        BY <1>3, <2>3
    <3>2. Len(queue'[l]) = Len(queue[l]) + 1
        BY <2>2, <3>1, Zenon
    <3> QED
        BY <2>1, <2>2, <2>3, <3>1, <3>2, DemoBoundsAssumption
  <2>4. CASE ~ (tasks[l] = "up" /\ addr \in Covers[args[l]] /\ Len(queue[l]) < QueueLen)
    <3>1. queue'[l] = queue[l]
        BY <1>3, <2>4
    <3> QED
        BY <2>1, <3>1
  <2> QED
      BY <2>3, <2>4
<1>5. queue' \in [Listeners -> Seq(Datagrams)]
  <2>1. queue' = [l \in Listeners |-> queue'[l]]
      BY <1>3
  <2> QED
      BY <1>4, <2>1
<1> QED
    BY <1>1, <1>4, <1>5 DEF m

-----------------------------------------------------------------------------
(* The command line                                                        *)

\* The flags and their listeners.
LEMMA FieldFacts ==
    /\ FieldOf["--gossip"] = "gossip" /\ FieldOf["--resolver"] = "resolver"
    /\ FieldOf["--api"] = "api" /\ FieldOf["--dns"] = "dns"
    /\ DOMAIN FieldOf = {"--gossip", "--resolver", "--api", "--dns"}
    /\ ValueFlags = {"--gossip", "--resolver", "--api", "--dns", "--peer"}
BY DEF FieldOf, ValueFlags

\* A flag's value goes where the flag says, and nowhere else.
LEMMA FieldSet ==
    ASSUME NEW a \in Args, NEW w \in Addresses, NEW g \in DOMAIN FieldOf
    PROVE  /\ [a EXCEPT ![FieldOf[g]] = w] \in Args
           /\ [a EXCEPT ![FieldOf[g]] = w].insecure = a.insecure
           /\ \A h \in DOMAIN FieldOf :
                [a EXCEPT ![FieldOf[g]] = w][FieldOf[h]] = IF g = h THEN w ELSE a[FieldOf[h]]
<1>1. CASE g = "--gossip"
  <2>1. [a EXCEPT ![FieldOf[g]] = w] = [a EXCEPT !.gossip = w]
      BY <1>1, FieldFacts
  <2> DEFINE b == [a EXCEPT !.gossip = w]
  <2>2. /\ b \in Args /\ b.insecure = a.insecure
        /\ b.gossip = w /\ b.resolver = a.resolver /\ b.api = a.api /\ b.dns = a.dns
      BY DEF Args
  <2> HIDE DEF b
  <2>3. \A h \in DOMAIN FieldOf : b[FieldOf[h]] = IF g = h THEN w ELSE a[FieldOf[h]]
      BY <1>1, <2>2, FieldFacts
  <2> QED
      BY <2>1, <2>2, <2>3 DEF b
<1>2. CASE g = "--resolver"
  <2>1. [a EXCEPT ![FieldOf[g]] = w] = [a EXCEPT !.resolver = w]
      BY <1>2, FieldFacts
  <2> DEFINE b == [a EXCEPT !.resolver = w]
  <2>2. /\ b \in Args /\ b.insecure = a.insecure
        /\ b.gossip = a.gossip /\ b.resolver = w /\ b.api = a.api /\ b.dns = a.dns
      BY DEF Args
  <2> HIDE DEF b
  <2>3. \A h \in DOMAIN FieldOf : b[FieldOf[h]] = IF g = h THEN w ELSE a[FieldOf[h]]
      BY <1>2, <2>2, FieldFacts
  <2> QED
      BY <2>1, <2>2, <2>3 DEF b
<1>3. CASE g = "--api"
  <2>1. [a EXCEPT ![FieldOf[g]] = w] = [a EXCEPT !.api = w]
      BY <1>3, FieldFacts
  <2> DEFINE b == [a EXCEPT !.api = w]
  <2>2. /\ b \in Args /\ b.insecure = a.insecure
        /\ b.gossip = a.gossip /\ b.resolver = a.resolver /\ b.api = w /\ b.dns = a.dns
      BY DEF Args
  <2> HIDE DEF b
  <2>3. \A h \in DOMAIN FieldOf : b[FieldOf[h]] = IF g = h THEN w ELSE a[FieldOf[h]]
      BY <1>3, <2>2, FieldFacts
  <2> QED
      BY <2>1, <2>2, <2>3 DEF b
<1>4. CASE g = "--dns"
  <2>1. [a EXCEPT ![FieldOf[g]] = w] = [a EXCEPT !.dns = w]
      BY <1>4, FieldFacts
  <2> DEFINE b == [a EXCEPT !.dns = w]
  <2>2. /\ b \in Args /\ b.insecure = a.insecure
        /\ b.gossip = a.gossip /\ b.resolver = a.resolver /\ b.api = a.api /\ b.dns = w
      BY DEF Args
  <2> HIDE DEF b
  <2>3. \A h \in DOMAIN FieldOf : b[FieldOf[h]] = IF g = h THEN w ELSE a[FieldOf[h]]
      BY <1>4, <2>2, FieldFacts
  <2> QED
      BY <2>1, <2>2, <2>3 DEF b
<1> QED
    BY <1>1, <1>2, <1>3, <1>4, FieldFacts

\* Where the reading of the words may stand.
Reads == [args : Args, flag : ValueFlags \cup {None}]
Same(a, b) == \A g \in DOMAIN FieldOf : a[FieldOf[g]] = b[FieldOf[g]]

\* What one word does.
LEMMA ReadWordFacts ==
    ASSUME NEW s \in Reads, s # None, NEW w \in STRING
    PROVE  /\ ReadWord(s, w) \in Reads \cup {None}
           /\ ReadWord(s, w) # None /\ s.flag = None =>
                /\ ReadWord(s, w).flag = IF w \in ValueFlags THEN w ELSE None
                /\ Same(ReadWord(s, w).args, s.args)
                /\ ReadWord(s, w).args.insecure => s.args.insecure \/ w = Insecure
           /\ ReadWord(s, w) # None /\ s.flag # None =>
                /\ w \in Addresses /\ ReadWord(s, w).flag = None
                /\ ReadWord(s, w).args.insecure = s.args.insecure
                /\ \A g \in DOMAIN FieldOf :
                     ReadWord(s, w).args[FieldOf[g]] =
                        IF g = s.flag THEN w ELSE s.args[FieldOf[g]]
<1> DEFINE r == ReadWord(s, w)
<1>1. s.args \in Args /\ s.flag \in ValueFlags \cup {None}
    BY DEF Reads
<1>2. CASE s.flag = None /\ w \in ValueFlags
  <2>1. r = [s EXCEPT !.flag = w]
      BY <1>2 DEF ReadWord
  <2>2. r \in Reads /\ r.flag = w /\ r.args = s.args
      BY <1>2, <2>1 DEF Reads
  <2> QED
      BY <1>2, <2>2 DEF Same
<1>3. CASE s.flag = None /\ w \notin ValueFlags
  <2> DEFINE b == s.args.insecure \/ w = Insecure
             a == [s.args EXCEPT !.insecure = b]
  <2>1. r = [s EXCEPT !.args = a]
      BY <1>3 DEF ReadWord
  <2>2. b \in BOOLEAN
      OBVIOUS
  <2>3. b => s.args.insecure \/ w = Insecure
      OBVIOUS
  <2> HIDE DEF b
  <2>4. /\ a \in Args /\ a.insecure = b
        /\ a.gossip = s.args.gossip /\ a.resolver = s.args.resolver
        /\ a.api = s.args.api /\ a.dns = s.args.dns
      BY <1>1, <2>2 DEF Args
  <2> HIDE DEF a
  <2>5. Same(a, s.args)
      BY <2>4, FieldFacts DEF Same
  <2>6. r \in Reads /\ r.flag = s.flag /\ r.args = a
      BY <2>1, <2>4 DEF Reads
  <2>7. r.args.insecure = b
      BY <2>4, <2>6
  <2>8. Same(r.args, s.args)
      BY <2>5, <2>6
  <2> HIDE DEF r
  <2>9. r.args.insecure => s.args.insecure \/ w = Insecure
      BY <2>3, <2>7
  <2> QED
      BY <1>3, <2>6, <2>8, <2>9 DEF r
<1>4. CASE s.flag # None /\ w \notin Addresses
    BY <1>4 DEF ReadWord
<1>5. CASE s.flag # None /\ w \in Addresses /\ s.flag = "--peer"
  <2> DEFINE ps == Append(s.args.peers, w)
             a == [s.args EXCEPT !.peers = ps]
  <2>1. r = [flag |-> None, args |-> a]
      BY <1>5 DEF ReadWord
  <2>2. s.args.peers \in Seq(Addresses)
      BY <1>1 DEF Args
  <2>3. ps \in Seq(Addresses)
      BY <1>5, <2>2
  <2> HIDE DEF ps
  <2>4. /\ a \in Args /\ a.insecure = s.args.insecure
        /\ a.gossip = s.args.gossip /\ a.resolver = s.args.resolver
        /\ a.api = s.args.api /\ a.dns = s.args.dns
      BY <1>1, <2>3 DEF Args
  <2> HIDE DEF a
  <2>5. \A g \in DOMAIN FieldOf :
          g # s.flag /\ a[FieldOf[g]] = s.args[FieldOf[g]]
      BY <1>5, <2>4, FieldFacts
  <2>6. r \in Reads /\ r.flag = None /\ r.args = a
      BY <2>1, <2>4 DEF Reads
  <2> QED
      BY <1>5, <2>4, <2>5, <2>6
<1>6. CASE s.flag # None /\ w \in Addresses /\ s.flag # "--peer"
  <2>1. s.flag \in DOMAIN FieldOf
      BY <1>1, <1>6, FieldFacts
  <2> DEFINE g0 == s.flag
             a == [s.args EXCEPT ![FieldOf[g0]] = w]
  <2>2. r = [flag |-> None, args |-> a]
      BY <1>6 DEF ReadWord
  <2>3. /\ a \in Args /\ a.insecure = s.args.insecure
        /\ \A h \in DOMAIN FieldOf : a[FieldOf[h]] = IF g0 = h THEN w ELSE s.args[FieldOf[h]]
      BY <1>1, <1>6, <2>1, FieldSet
  <2> HIDE DEF a
  <2>4. r \in Reads /\ r.flag = None /\ r.args = a
      BY <2>2, <2>3 DEF Reads
  <2> QED
      BY <1>6, <2>3, <2>4
<1> QED
    BY <1>2, <1>3, <1>4, <1>5, <1>6

\* A word that is not a flag's value leaves what the words say of its listener.
LEMMA ToldStays ==
    ASSUME NEW words, NEW flag \in DOMAIN FieldOf, NEW n \in Nat, n = 0 \/ words[n] # flag,
           NEW a, NEW b, Told(flag, words, n, a), b[FieldOf[flag]] = a[FieldOf[flag]]
    PROVE  Told(flag, words, n + 1, b)
<1>1. \A i \in 1 .. n : words[i] = flag => i \in 1 .. n - 1
    OBVIOUS
<1>2. \A i \in 1 .. n - 1 : i \in 1 .. n
    OBVIOUS
<1>3. (n + 1) - 1 = n
    OBVIOUS
<1> DEFINE f == FieldOf[flag]
<1>4. (\A i \in 1 .. n - 1 : words[i] # flag) => a[f] = DefaultArgs[f]
    BY DEF Told
<1>5. \A i \in 1 .. n - 1 :
         words[i] = flag /\ (\A j \in 1 .. n - 1 : words[j] = flag => j <= i) => a[f] = words[i + 1]
    BY DEF Told
<1>6. b[f] = a[f]
    OBVIOUS
<1> HIDE DEF f
<1>7. (\A i \in 1 .. n : words[i] # flag) => b[f] = DefaultArgs[f]
    BY <1>2, <1>4, <1>6
<1>8. \A i \in 1 .. n :
         words[i] = flag /\ (\A j \in 1 .. n : words[j] = flag => j <= i) => b[f] = words[i + 1]
    BY <1>1, <1>2, <1>5, <1>6
<1> QED
    BY <1>3, <1>7, <1>8, Zenon DEF Told, f

\* A flag's value is what the words say of its listener.
LEMMA ToldAnew ==
    ASSUME NEW words, NEW flag \in DOMAIN FieldOf, NEW n \in Nat \ {0}, words[n] = flag,
           NEW b, b[FieldOf[flag]] = words[n + 1]
    PROVE  Told(flag, words, n + 1, b)
<1>1. (n + 1) - 1 = n /\ n \in 1 .. n
    OBVIOUS
<1>2. \A i \in 1 .. n : n <= i => i = n
    OBVIOUS
<1> QED
    BY <1>1, <1>2, Zenon DEF Told

\* Where parse_args_from stands after n words, unless it has panicked.
ReadSoFar(words, n, s) ==
    s # None =>
        /\ s.args.insecure => \E j \in 1 .. n : words[j] = Insecure
        /\ s.flag = None => n = 0 \/ words[n] \notin ValueFlags
        /\ s.flag # None => n > 0 /\ words[n] = s.flag
        /\ Followed(words, n)
        /\ \A flag \in DOMAIN FieldOf : Told(flag, words, n, s.args)

\* One word takes it one word on.
LEMMA ReadWordReads ==
    ASSUME NEW words, NEW n \in Nat, NEW s \in Reads, s # None,
           words[n + 1] \in STRING, ReadSoFar(words, n, s)
    PROVE  ReadSoFar(words, n + 1, ReadWord(s, words[n + 1]))
<1> DEFINE w == words[n + 1]
           r == ReadWord(s, w)
<1> SUFFICES ASSUME r # None PROVE ReadSoFar(words, n + 1, r)
    BY DEF ReadSoFar
<1>1. /\ r \in Reads \cup {None}
      /\ s.flag = None =>
           /\ r.flag = IF w \in ValueFlags THEN w ELSE None
           /\ Same(r.args, s.args)
           /\ r.args.insecure => s.args.insecure \/ w = Insecure
      /\ s.flag # None =>
           /\ w \in Addresses /\ r.flag = None
           /\ r.args.insecure = s.args.insecure
           /\ \A g \in DOMAIN FieldOf :
                r.args[FieldOf[g]] = IF g = s.flag THEN w ELSE s.args[FieldOf[g]]
    BY ReadWordFacts
<1> HIDE DEF r
<1>2. /\ s.args.insecure => \E j \in 1 .. n : words[j] = Insecure
      /\ s.flag = None => n = 0 \/ words[n] \notin ValueFlags
      /\ s.flag # None => n > 0 /\ words[n] = s.flag
      /\ Followed(words, n)
      /\ \A flag \in DOMAIN FieldOf : Told(flag, words, n, s.args)
    BY DEF ReadSoFar
<1>3. s.flag \in ValueFlags \cup {None} /\ DOMAIN FieldOf \subseteq ValueFlags
    BY DEF Reads, ValueFlags
<1>4. r.args.insecure => \E j \in 1 .. n + 1 : words[j] = Insecure
  <2>1. CASE s.args.insecure
    <3>1. PICK j \in 1 .. n : words[j] = Insecure
        BY <1>2, <2>1
    <3>2. j \in 1 .. n + 1
        OBVIOUS
    <3> QED
        BY <3>1, <3>2
  <2>2. CASE ~ s.args.insecure /\ s.flag # None
    <3>1. r.args.insecure = s.args.insecure
        BY <1>1, <2>2
    <3> QED
        BY <2>2, <3>1, Zenon
  <2>3. CASE ~ s.args.insecure /\ s.flag = None
    <3>1. r.args.insecure => w = Insecure
        BY <1>1, <2>3, Zenon
    <3>2. n + 1 \in 1 .. n + 1
        OBVIOUS
    <3> QED
        BY <3>1, <3>2, Zenon
  <2> QED
      BY <2>1, <2>2, <2>3, Zenon
<1>5. r.flag = None => words[n + 1] \notin ValueFlags
    BY <1>1, FlagsAssumption
<1>6. r.flag # None => words[n + 1] = r.flag
    BY <1>1
<1>7. ASSUME NEW flag \in DOMAIN FieldOf PROVE Told(flag, words, n + 1, r.args)
  <2>1. Told(flag, words, n, s.args)
      BY <1>2
  <2>2. CASE s.flag = None
    <3>1. n = 0 \/ words[n] # flag
        BY <1>2, <1>3, <2>2
    <3>2. r.args[FieldOf[flag]] = s.args[FieldOf[flag]]
        BY <1>1, <2>2 DEF Same
    <3> QED
        BY <2>1, <3>1, <3>2, ToldStays
  <2>3. CASE s.flag # None /\ s.flag # flag
    <3>1. words[n] # flag
        BY <1>2, <2>3
    <3>2. r.args[FieldOf[flag]] = s.args[FieldOf[flag]]
        BY <1>1, <2>3
    <3> QED
        BY <2>1, <3>1, <3>2, ToldStays
  <2>4. CASE s.flag # None /\ s.flag = flag
    <3>1. n \in Nat \ {0} /\ words[n] = flag
        BY <1>2, <2>4
    <3>2. r.args[FieldOf[flag]] = words[n + 1]
        BY <1>1, <2>4
    <3> QED
        BY <3>1, <3>2, ToldAnew
  <2> QED
      BY <2>2, <2>3, <2>4
<1>8. Followed(words, n + 1)
  <2> SUFFICES ASSUME NEW i \in 1 .. n, words[i] \in ValueFlags PROVE words[i + 1] \in Addresses
      BY DEF Followed
  <2>1. CASE i = n
    <3>1. s.flag # None
        BY <1>2, <2>1
    <3> QED
        BY <1>1, <2>1, <3>1
  <2>2. CASE i # n
    <3>1. i \in 1 .. n - 1
        BY <2>2
    <3> QED
        BY <1>2, <3>1 DEF Followed
  <2> QED
      BY <2>1, <2>2
<1> QED
    BY <1>4, <1>5, <1>6, <1>7, <1>8 DEF ReadSoFar

\* What parse_args makes of a command line it does not panic on.
LEMMA ParseFacts ==
    ASSUME NEW words \in Seq(STRING), ParseArgs(words) # None
    PROVE  /\ ParseArgs(words) \in Args
           /\ ParseArgs(words).insecure => Insecure \in ToSet(words)
           /\ \A i \in 1 .. Len(words) : words[i] \in ValueFlags => i < Len(words)
           /\ Followed(words, Len(words))
           /\ \A flag \in DOMAIN FieldOf : Told(flag, words, Len(words), ParseArgs(words))
<1> DEFINE S == Reads \cup {None}
           n == Len(words)
           b == [args |-> DefaultArgs, flag |-> None]
           G == [x \in (1 .. n) \X S |-> ReadWord(x[2], words[x[1]])]
           Is(f) == f = [i \in 0 .. n |-> IF i = 0 THEN b ELSE ReadWord(f[i - 1], words[i])]
           read == CHOOSE f : Is(f)
<1>1. n \in Nat /\ \A i \in 1 .. n : words[i] \in STRING
    OBVIOUS
<1>2. b \in Reads /\ b.args = DefaultArgs /\ b.flag = None /\ ~ b.args.insecure
  <2>1. /\ DefaultAddr["gossip"] \in Addresses /\ DefaultAddr["resolver"] \in Addresses
        /\ DefaultAddr["api"] \in Addresses
      BY AddressesAssumption DEF Listeners
  <2>2. DefaultArgs \in Args /\ ~ DefaultArgs.insecure
      BY <2>1 DEF DefaultArgs, Args
  <2> QED
      BY <2>2 DEF Reads
<1>3. ASSUME NEW s \in S, NEW i \in 1 .. n PROVE ReadWord(s, words[i]) \in S
  <2>1. CASE s = None
      BY <2>1 DEF ReadWord
  <2>2. CASE s # None
      BY <1>1, <2>2, ReadWordFacts
  <2> QED
      BY <2>1, <2>2
<1>4. ParseArgs(words) = IF read[n] = None \/ read[n].flag # None THEN None ELSE read[n].args
    BY DEF ParseArgs
<1> HIDE DEF n, b, S
<1>5. G \in Rounds(S, n)
    BY <1>3 DEF Rounds
<1>6. \A i \in 1 .. n, s \in S : G[<<i, s>>] = ReadWord(s, words[i])
    OBVIOUS
<1>7. b \in S
    BY <1>2 DEF S
<1> HIDE DEF G
<1>8. PICK f \in Results(S, n) : AreResults(f, b, n, G)
    BY <1>1, <1>5, <1>7, FoldExists
<1>9. /\ f \in [0 .. n -> S] /\ f[0] = b
      /\ \A i \in 1 .. n : f[i] = G[<<i, f[i - 1]>>]
    BY <1>8 DEF Results, AreResults
<1>10. ASSUME NEW i \in 1 .. n PROVE f[i] = ReadWord(f[i - 1], words[i])
  <2>1. i - 1 \in 0 .. n
      BY <1>1
  <2>2. f[i - 1] \in S
      BY <1>9, <2>1
  <2> QED
      BY <1>6, <1>9, <2>2
<1>11. Is(f)
    BY <1>1, <1>9, <1>10
<1>12. Is(read)
    BY <1>11
<1> HIDE DEF read
<1>13. read[0] = b /\ \A i \in 1 .. n : read[i] = ReadWord(read[i - 1], words[i])
    BY <1>1, <1>12
<1> DEFINE T == {i \in Nat : i <= n => read[i] \in S /\ ReadSoFar(words, i, read[i])}
<1>14. 0 \in T
  <2>1. 1 .. 0 - 1 = {}
      OBVIOUS
  <2>2. Followed(words, 0) /\ \A flag \in DOMAIN FieldOf : Told(flag, words, 0, b.args)
      BY <1>2, <2>1, Zenon DEF Told, Followed
  <2>3. ReadSoFar(words, 0, b)
      BY <1>2, <2>2 DEF ReadSoFar
  <2> QED
      BY <1>7, <1>13, <2>3
<1>15. ASSUME NEW i \in Nat, i \in T PROVE i + 1 \in T
  <2> SUFFICES ASSUME i + 1 <= n
               PROVE  read[i + 1] \in S /\ ReadSoFar(words, i + 1, read[i + 1])
      OBVIOUS
  <2>1. read[i] \in S /\ ReadSoFar(words, i, read[i])
      BY <1>1, <1>15
  <2>2. i + 1 \in 1 .. n /\ (i + 1) - 1 = i
      BY <1>1
  <2>3. read[i + 1] = ReadWord(read[i], words[i + 1])
      BY <1>13, <2>2
  <2>4. read[i + 1] \in S
      BY <1>3, <2>1, <2>2, <2>3
  <2>5. CASE read[i] = None
    <3>1. read[i + 1] = None
        BY <2>3, <2>5 DEF ReadWord
    <3> QED
        BY <2>4, <3>1 DEF ReadSoFar
  <2>6. CASE read[i] # None
    <3>1. read[i] \in Reads /\ words[i + 1] \in STRING
        BY <1>1, <2>1, <2>2, <2>6 DEF S
    <3>2. ReadSoFar(words, i + 1, ReadWord(read[i], words[i + 1]))
        BY <2>1, <2>6, <3>1, ReadWordReads
    <3> QED
        BY <2>3, <2>4, <3>2
  <2> QED
      BY <2>5, <2>6
<1>16. n \in T
  <2> HIDE DEF T
  <2>1. Nat \subseteq T
      BY <1>14, <1>15, SetInduction
  <2> QED
      BY <1>1, <2>1
<1>17. /\ read[n] \in Reads /\ read[n] # None /\ ReadSoFar(words, n, read[n])
       /\ ParseArgs(words) = read[n].args /\ read[n].flag = None
  <2>1. read[n] # None
      BY <1>4
  <2>2. n <= n
      BY <1>1
  <2> QED
      BY <1>4, <1>16, <2>1, <2>2 DEF S
<1>18. ParseArgs(words) \in Args
    BY <1>17 DEF Reads
<1>19. \A flag \in DOMAIN FieldOf : Told(flag, words, Len(words), ParseArgs(words))
    BY <1>17 DEF ReadSoFar, n
<1>20. ParseArgs(words).insecure => Insecure \in ToSet(words)
  <2>1. ParseArgs(words).insecure => \E j \in 1 .. n : words[j] = Insecure
      BY <1>17, Zenon DEF ReadSoFar
  <2>2. DOMAIN words = 1 .. n
      BY DEF n
  <2> QED
      BY <2>1, <2>2, Zenon DEF ToSet
<1>21. /\ \A i \in 1 .. Len(words) : words[i] \in ValueFlags => i < Len(words)
       /\ Followed(words, Len(words))
  <2>1. Followed(words, n) /\ (n = 0 \/ words[n] \notin ValueFlags)
      BY <1>17, Zenon DEF ReadSoFar
  <2>2. ASSUME NEW i \in 1 .. n, words[i] \in ValueFlags PROVE i < n
    <3>1. i # n
        BY <2>1, <2>2
    <3> QED
        BY <1>1, <3>1
  <2> QED
      BY <2>1, <2>2 DEF n
<1> QED
    BY <1>18, <1>19, <1>20, <1>21, Zenon

-----------------------------------------------------------------------------
(* What the steps of the client API do around the registry                 *)

\* A response is sent and the request is done with.
Answering ==
    /\ \E response : Respond(response)
    /\ work # None /\ work.phase # "verify"
    /\ pc \in Stages \cup {"idle"} /\ pc' = "idle" /\ now' = now

\* A Register goes on to the registry.
Locking ==
    /\ work # None /\ work.phase = "ready" /\ work.verified
    /\ work.msg.body.kind = "register"
    /\ work' = [work EXCEPT !.phase = "locked"]
    /\ req' = [client |-> work.msg.body.client, domain |-> work.msg.body.domain]
    /\ pc = "idle" /\ pc' = "reclaim"
    /\ UNCHANGED <<now, regs, claims, daemon, queue, replies>>

\* The registry works on it.
Working ==
    /\ pc \in Stages /\ pc' \in Stages
    /\ UNCHANGED <<now, req, daemon, queue, work, replies>>

\* There are no other steps.
LEMMA ApiStepCases ==
    ASSUME MutexHeld, ApiStep
    PROVE  ApiTake \/ Answering \/ Locking \/ Working \/ ApiPanic
<1>1. CASE ApiProbe
  <2>1. pc' = pc /\ now' = now
      BY <1>1 DEF ApiProbe, HandleProbe
  <2> QED
      BY <1>1, <2>1 DEF ApiProbe, Handling, Answering
<1>2. CASE ApiRegister
    BY <1>2 DEF ApiRegister, Handling, HandleRegister, Locking, store
<1>3. CASE ApiSetRecords
  <2>1. pc' = pc /\ now' = now
      BY <1>3 DEF ApiSetRecords, HandleSetRecords
  <2> QED
      BY <1>3, <2>1 DEF ApiSetRecords, Handling, Answering
<1>4. CASE ApiError
  <2>1. pc' = pc /\ now' = now
      BY <1>4 DEF ApiError, vars
  <2>2. pc = "idle" /\ work # None /\ work.phase = "ready"
      BY <1>4 DEF ApiError, Handling
  <2> QED
      BY <1>4, <2>1, <2>2 DEF ApiError, Answering
<1>5. CASE ApiStage
  <2>1. UNCHANGED <<now, req>> /\ pc \in Stages /\ pc' \in Stages
      BY <1>5 DEF ApiStage, ReclaimStale, ReconcileNext, Issue, Stages
  <2> QED
      BY <1>5, <2>1 DEF ApiStage, Working
<1>6. CASE ApiRefuse
  <2>1. pc \in Stages /\ pc' = "idle" /\ now' = now
      BY <1>6 DEF ApiRefuse, Refuse, Stages
  <2> QED
      BY <1>6, <2>1 DEF ApiRefuse, Answering, MutexHeld
<1>7. CASE ApiAttach
  <2>1. pc \in Stages /\ pc' = "idle" /\ now' = now
      BY <1>7 DEF ApiAttach, AttachRumor, Stages
  <2> QED
      BY <1>7, <2>1 DEF ApiAttach, Answering, MutexHeld
<1> QED
    BY <1>1, <1>2, <1>3, <1>4, <1>5, <1>6, <1>7 DEF ApiStep

-----------------------------------------------------------------------------
(* Types                                                                   *)

\* A datagram whose body is a request of the client API.
LEMMA RequestBody ==
    ASSUME NEW m \in Datagrams, m.body.proto = "api"
    PROVE  m.body \in ApiRequests
<1>1. m.body \in Bodies
    BY DEF Datagrams
<1> QED
    BY <1>1, LookupFacts DEF Bodies

\* Nothing of the node changes but what the registry holds.
LEMMA TypedUnchanged ==
    ASSUME Typed, UNCHANGED <<now, daemon, queue, work, step, sentAt, sent>>
    PROVE  Typed'
BY DEF Typed, daemon

\* The client API keeps the types.
LEMMA ApiTyped ==
    ASSUME Typed, MutexHeld, ApiStep, UNCHANGED <<demoVars, sent>>
    PROVE  Typed'
<1>1. UNCHANGED <<step, sentAt, sent>>
    BY DEF demoVars
<1>2. CASE ApiTake
  <2> DEFINE m == Head(queue["api"])
             phase0 == IF NeedsVerifier(m.body) THEN "verify" ELSE "ready"
             item == [msg |-> m, since |-> now, verified |-> TRUE, phase |-> phase0]
  <2>1. "api" \in Listeners /\ queue["api"] # <<>> /\ Consume("api")
      BY <1>2 DEF ApiTake, Listeners
  <2>2. /\ queue' \in [Listeners -> Seq(Datagrams)]
        /\ \A k \in Listeners : Len(queue'[k]) <= Len(queue[k])
        /\ m \in Datagrams
      BY <2>1, ConsumeFacts
  <2>3. \A k \in Listeners : Len(queue'[k]) <= QueueLen
    <3>1. \A k \in Listeners : Len(queue[k]) <= QueueLen /\ Len(queue[k]) \in Nat
                               /\ Len(queue'[k]) \in Nat
        BY <2>2 DEF Typed
    <3> QED
        BY <2>2, <3>1, DemoBoundsAssumption
  <2>4. work' = IF m.body.proto # "api" THEN None ELSE item
      BY <1>2 DEF ApiTake
  <2>5. phase0 \in {"verify", "ready", "locked"} /\ now \in 0 .. MaxTime
      BY DEF Typed
  <2> HIDE DEF m, phase0
  <2>6. m.body.proto = "api" => item \in WorkItems
      BY <2>2, <2>5 DEF WorkItems
  <2>7. work' \in WorkItems \cup {None}
      BY <2>4, <2>6
  <2>8. UNCHANGED <<now, daemon>>
      BY <1>2 DEF ApiTake, vars
  <2> QED
      BY <1>1, <2>2, <2>3, <2>7, <2>8 DEF Typed, daemon
<1>3. CASE Answering
    BY <1>1, <1>3 DEF Answering, Respond, Typed, daemon
<1>4. CASE Locking
  <2>1. work \in WorkItems /\ work' = [work EXCEPT !.phase = "locked"]
      BY <1>4 DEF Locking, Typed
  <2>2. work' \in WorkItems
      BY <2>1 DEF WorkItems
  <2> QED
      BY <1>1, <1>4, <2>2 DEF Locking, Typed, daemon
<1>5. CASE Working
    BY <1>1, <1>5, TypedUnchanged DEF Working
<1>6. CASE ApiPanic
  <2>1. /\ tasks \in [Listeners -> {"unbound", "up", "down"}]
        /\ queue \in [Listeners -> Seq(Datagrams)]
        /\ \A l \in Listeners : Len(queue[l]) <= QueueLen
      BY DEF Typed
  <2>2. tasks' \in [Listeners -> {"unbound", "up", "down"}]
      BY <1>6, <2>1 DEF ApiPanic
  <2>3. queue' = [queue EXCEPT !["api"] = <<>>]
      BY <1>6 DEF ApiPanic
  <2>4. <<>> \in Seq(Datagrams) /\ Len(<<>>) = 0
      OBVIOUS
  <2>5. queue' \in [Listeners -> Seq(Datagrams)]
      BY <2>1, <2>3, <2>4
  <2>6. ASSUME NEW l \in Listeners PROVE Len(queue'[l]) <= QueueLen
    <3>1. queue'[l] = IF l = "api" THEN <<>> ELSE queue[l]
        BY <2>1, <2>3
    <3>2. CASE l = "api"
        BY <2>4, <3>1, <3>2, DemoBoundsAssumption
    <3>3. CASE l # "api"
      <4>1. queue'[l] = queue[l]
          BY <3>1, <3>3
      <4> QED
          BY <2>1, <4>1
    <3> QED
        BY <3>2, <3>3
  <2>7. now' = now /\ UNCHANGED <<cmdline, process, args>> /\ work' = None
      BY <1>6 DEF ApiPanic, Panic
  <2> QED
      BY <1>1, <2>2, <2>5, <2>6, <2>7 DEF Typed
<1> QED
    BY <1>2, <1>3, <1>4, <1>5, <1>6, ApiStepCases

\* A listener that takes a datagram keeps the types.
LEMMA ConsumeTyped ==
    ASSUME Typed, NEW l \in Listeners, queue[l] # <<>>, Consume(l),
           UNCHANGED <<now, daemon, work, step, sentAt, sent>>
    PROVE  Typed'
<1>1. /\ queue' \in [Listeners -> Seq(Datagrams)]
      /\ \A k \in Listeners : Len(queue'[k]) <= Len(queue[k])
    BY ConsumeFacts
<1>2. \A k \in Listeners : Len(queue[k]) <= QueueLen /\ Len(queue[k]) \in Nat
                           /\ Len(queue'[k]) \in Nat
    BY <1>1 DEF Typed
<1>3. \A k \in Listeners : Len(queue'[k]) <= QueueLen
    BY <1>1, <1>2, DemoBoundsAssumption
<1> QED
    BY <1>1, <1>3 DEF Typed, daemon

\* The node keeps the types.
LEMMA NodeTyped ==
    ASSUME Typed, MutexHeld, NodeStep, UNCHANGED <<demoVars, sent>>
    PROVE  Typed'
<1>1. UNCHANGED <<step, sentAt, sent>>
    BY DEF demoVars
<1>2. CASE Main
  <2>1. CommandLines \subseteq Seq(STRING)
      BY CommandLinesAssumption
  <2>2. cmdline \in Seq(STRING)
      BY <2>1 DEF Typed
  <2>3. UNCHANGED <<now, cmdline, queue, work>>
      BY <1>2 DEF Main, vars
  <2>4. CASE ParseArgs(cmdline) = None
      BY <1>1, <1>2, <2>3, <2>4 DEF Main, Typed
  <2>5. CASE ParseArgs(cmdline) # None
    <3>1. ParseArgs(cmdline) \in Args
        BY <2>2, <2>5, ParseFacts
    <3>2. process' = "running" /\ args' = ParseArgs(cmdline)
          /\ tasks' = [l \in Listeners |->
                         IF ParseArgs(cmdline)[l] = None THEN "down" ELSE "unbound"]
        BY <1>2, <2>5 DEF Main
    <3>3. tasks' \in [Listeners -> {"unbound", "up", "down"}]
        BY <3>2
    <3> QED
        BY <1>1, <2>3, <3>1, <3>2, <3>3 DEF Typed
  <2> QED
      BY <2>4, <2>5
<1>3. ASSUME NEW l \in Listeners, Bind(l) PROVE Typed'
  <2>1. tasks' \in [Listeners -> {"unbound", "up", "down"}]
      BY <1>3 DEF Bind, Typed
  <2> QED
      BY <1>1, <1>3, <2>1 DEF Bind, Typed, vars
<1>4. ASSUME NEW l \in Listeners, RateLimited(l) PROVE Typed'
    BY <1>1, <1>4, ConsumeTyped DEF RateLimited, vars
<1>5. CASE ApiStep
    BY <1>5, ApiTyped
<1>6. ASSUME NEW ok \in BOOLEAN, Verified(ok) PROVE Typed'
  <2>1. work \in WorkItems /\ work' = [work EXCEPT !.phase = "ready", !.verified = ok]
      BY <1>6 DEF Verified, Typed
  <2>2. work' \in WorkItems
      BY <2>1 DEF WorkItems
  <2> QED
      BY <1>1, <1>6, <2>2 DEF Verified, Typed, daemon, vars
<1>7. CASE ResolverServe
  <2>1. "resolver" \in Listeners /\ queue["resolver"] # <<>> /\ Consume("resolver")
        /\ UNCHANGED <<now, daemon, work>>
      BY <1>7 DEF ResolverServe, Listeners, vars
  <2> QED
      BY <1>1, <2>1, ConsumeTyped
<1>8. CASE DnsServe
  <2>1. "dns" \in Listeners /\ queue["dns"] # <<>> /\ Consume("dns")
        /\ UNCHANGED <<now, daemon, work>>
      BY <1>8 DEF DnsServe, Listeners, vars
  <2> QED
      BY <1>1, <2>1, ConsumeTyped
<1> QED
    BY <1>2, <1>3, <1>4, <1>5, <1>6, <1>7, <1>8 DEF NodeStep

\* So do its clients, and time.
LEMMA SystemTyped ==
    ASSUME Typed, MutexHeld, [SystemNext]_systemVars
    PROVE  Typed'
<1>1. CASE NodeStep /\ UNCHANGED <<demoVars, sent>>
    BY <1>1, NodeTyped
<1>2. CASE DemoSend
  <2>1. step \in 1 .. 5 /\ Send(DemoAddr[step], DemoRequest(step), "demo")
      BY <1>2 DEF DemoSend
  <2>2. DemoRequest(step) \in Bodies
      BY <2>1, DemoRequestFacts
  <2>3. /\ queue' \in [Listeners -> Seq(Datagrams)]
        /\ \A l \in Listeners : Len(queue'[l]) <= QueueLen
      BY <2>1, <2>2, SendFacts
  <2>4. sentAt' \in Nat /\ UNCHANGED <<now, daemon, work, step, sent>>
      BY <1>2 DEF DemoSend, Typed, vars
  <2> QED
      BY <2>3, <2>4 DEF Typed, daemon
<1>3. CASE DemoReceive
  <2>1. step' \in 0 .. 6 /\ sentAt' = None /\ UNCHANGED <<now, daemon, queue, work, sent>>
      BY <1>3 DEF DemoReceive, vars
  <2> QED
      BY <2>1 DEF Typed, daemon
<1>4. CASE DemoGivesUp
    BY <1>4 DEF DemoGivesUp, Typed, daemon, nodeVars, vars
<1>5. CASE OtherSends
  <2>1. PICK m \in OtherDatagrams : Send(DemoAddr[m[1]], m[2], "other")
      BY <1>5 DEF OtherSends
  <2>2. m[2] \in Bodies
      BY OtherDatagramsFacts
  <2>3. /\ queue' \in [Listeners -> Seq(Datagrams)]
        /\ \A l \in Listeners : Len(queue'[l]) <= QueueLen
      BY <2>1, <2>2, SendFacts
  <2>4. sent' \in 0 .. MaxSent /\ UNCHANGED <<now, daemon, work, step, sentAt>>
      BY <1>5, DemoBoundsAssumption DEF OtherSends, Typed, vars, demoVars
  <2> QED
      BY <2>3, <2>4 DEF Typed, daemon
<1>6. CASE Tick
  <2>1. now' \in 0 .. MaxTime /\ UNCHANGED <<daemon, queue, work, step, sentAt, sent>>
      BY <1>6, FreshnessAssumption DEF Tick, Typed, demoVars
  <2> QED
      BY <2>1 DEF Typed, daemon
<1>7. CASE UNCHANGED systemVars
    BY <1>7, TypedUnchanged DEF systemVars, nodeVars, vars, demoVars
<1> QED
    BY <1>1, <1>2, <1>3, <1>4, <1>5, <1>6, <1>7 DEF SystemNext

-----------------------------------------------------------------------------
(* The node's registry is the one of Registry                              *)

\* The mutex is held for the request in hand.
LEMMA MutexPreserved ==
    ASSUME Typed, MutexHeld, [SystemNext]_systemVars
    PROVE  MutexHeld'
<1>1. ASSUME UNCHANGED <<pc, work>> PROVE MutexHeld'
    BY <1>1 DEF MutexHeld
<1>2. CASE NodeStep /\ UNCHANGED <<demoVars, sent>>
  <2>1. CASE ApiTake
    <3>1. pc' = pc /\ work = None
        BY <2>1 DEF ApiTake, vars
    <3>2. work' # None => work'.phase \in {"verify", "ready"}
        BY <2>1, Zenon DEF ApiTake
    <3> QED
        BY <3>1, <3>2 DEF MutexHeld
  <2>2. CASE Answering
    <3>1. work' = None /\ pc' = "idle"
        BY <2>2 DEF Answering, Respond
    <3> QED
        BY <3>1 DEF MutexHeld, Stages
  <2>3. CASE Locking
    <3>1. work \in WorkItems /\ work' = [work EXCEPT !.phase = "locked"]
        BY <2>3 DEF Locking, Typed
    <3>2. work' \in WorkItems /\ work'.phase = "locked"
        BY <3>1 DEF WorkItems
    <3>3. work' # None
        BY <3>2, WorkAssumption
    <3>4. pc' = "reclaim"
        BY <2>3 DEF Locking
    <3> QED
        BY <3>2, <3>3, <3>4 DEF MutexHeld, Stages
  <2>4. CASE Working
      BY <2>4 DEF Working, MutexHeld
  <2>5. CASE ApiPanic
      BY <2>5 DEF ApiPanic, Panic, MutexHeld, Stages
  <2>6. ASSUME NEW ok \in BOOLEAN, Verified(ok) PROVE MutexHeld'
    <3>1. work \in WorkItems /\ work' = [work EXCEPT !.phase = "ready", !.verified = ok]
        BY <2>6 DEF Verified, Typed
    <3>2. work'.phase = "ready"
        BY <3>1 DEF WorkItems
    <3>3. pc' = pc /\ work # None /\ work.phase = "verify"
        BY <2>6 DEF Verified, vars
    <3> QED
        BY <3>2, <3>3 DEF MutexHeld
  <2>7. CASE Main \/ (\E l \in Listeners : Bind(l) \/ RateLimited(l)) \/ ResolverServe \/ DnsServe
    <3>1. UNCHANGED <<pc, work>>
        BY <2>7 DEF Main, Bind, RateLimited, ResolverServe, DnsServe, vars
    <3> QED
        BY <1>1, <3>1
  <2> QED
      BY <1>2, <2>1, <2>2, <2>3, <2>4, <2>5, <2>6, <2>7, ApiStepCases DEF NodeStep
<1>3. CASE DemoSend \/ DemoReceive \/ DemoGivesUp \/ OtherSends \/ Tick \/ UNCHANGED systemVars
  <2>1. UNCHANGED <<pc, work>>
      BY <1>3 DEF DemoSend, DemoReceive, DemoGivesUp, OtherSends, Tick, systemVars, nodeVars, vars
  <2> QED
      BY <1>1, <2>1
<1> QED
    BY <1>2, <1>3 DEF SystemNext

\* A request in hand is one the registry knows.
LEMMA RequestInHand ==
    ASSUME Typed, work # None
    PROVE  /\ work.msg.body.client \in Clients /\ work.msg.body.domain \in Domains
           /\ work.msg.body.records \in Records /\ work.msg.body.ts \in 0 .. MaxTime
<1>1. work \in WorkItems
    BY DEF Typed
<1>2. work.msg \in Datagrams /\ work.msg.body.proto = "api"
    BY <1>1 DEF WorkItems
<1>3. work.msg.body \in ApiRequests
    BY <1>2, RequestBody
<1> QED
    BY <1>3 DEF ApiRequests

\* A step of the client API is a step of the registry, or leaves it alone.
LEMMA ApiStepsRegistry ==
    ASSUME Typed, ApiStep
    PROVE  [Next]_vars
<1>1. CASE ApiTake \/ ApiError
    BY <1>1 DEF ApiTake, ApiError
<1>2. CASE ApiProbe
  <2>1. work # None /\ HandleProbe(work.msg.body.client, work.msg.body.ts)
      BY <1>2 DEF ApiProbe, Handling
  <2> QED
      BY <2>1, RequestInHand DEF Next
<1>3. CASE ApiRegister
  <2>1. work # None /\ HandleRegister(work.msg.body.client, work.msg.body.domain)
      BY <1>3 DEF ApiRegister, Handling
  <2> QED
      BY <2>1, RequestInHand DEF Next
<1>4. CASE ApiSetRecords
  <2>1. /\ work # None
        /\ HandleSetRecords(work.msg.body.client, work.msg.body.domain, work.msg.body.records)
      BY <1>4 DEF ApiSetRecords, Handling
  <2> QED
      BY <2>1, RequestInHand DEF Next
<1>5. CASE ApiStage
    BY <1>5 DEF ApiStage, Next
<1>6. CASE ApiRefuse \/ ApiAttach \/ ApiPanic
    BY <1>6 DEF ApiRefuse, ApiAttach, ApiPanic, Next
<1> QED
    BY <1>1, <1>2, <1>3, <1>4, <1>5, <1>6 DEF ApiStep

\* So is every step of the node and its clients.
LEMMA SystemStepsRegistry ==
    ASSUME Typed, [SystemNext]_systemVars
    PROVE  [Next]_vars
<1>1. CASE NodeStep
  <2>1. CASE ApiStep
      BY <2>1, ApiStepsRegistry
  <2>2. CASE ~ ApiStep
      BY <1>1, <2>2 DEF NodeStep, Main, Bind, RateLimited, Verified, ResolverServe, DnsServe
  <2> QED
      BY <2>1, <2>2
<1>2. CASE DemoSend \/ DemoReceive \/ DemoGivesUp \/ OtherSends
    BY <1>2 DEF DemoSend, DemoReceive, DemoGivesUp, OtherSends, nodeVars
<1>3. CASE Tick
  <2>1. Clock
      BY <1>3 DEF Tick, Clock
  <2> QED
      BY <2>1 DEF Next
<1>4. CASE UNCHANGED systemVars
    BY <1>4 DEF systemVars, nodeVars
<1> QED
    BY <1>1, <1>2, <1>3, <1>4 DEF SystemNext

\* The types and the mutex to begin with.
LEMMA InitTyped == SystemInit => Typed /\ MutexHeld
<1> SUFFICES ASSUME SystemInit PROVE Typed /\ MutexHeld
    OBVIOUS
<1> USE DEF SystemInit, NodeInit, Init
<1>1. /\ DefaultAddr["gossip"] \in Addresses /\ DefaultAddr["resolver"] \in Addresses
      /\ DefaultAddr["api"] \in Addresses
    BY AddressesAssumption DEF Listeners
<1>2. DefaultArgs \in Args
    BY <1>1 DEF DefaultArgs, Args
<1>3. /\ queue = [l \in Listeners |-> <<>>]
      /\ <<>> \in Seq(Datagrams) /\ Len(<<>>) = 0
    OBVIOUS
<1>4. /\ queue \in [Listeners -> Seq(Datagrams)]
      /\ \A l \in Listeners : Len(queue[l]) <= QueueLen
    BY <1>3, DemoBoundsAssumption
<1>5. /\ now \in 0 .. MaxTime /\ step \in 0 .. 6 /\ sentAt \in Nat \cup {None}
      /\ sent \in 0 .. MaxSent
    BY FreshnessAssumption, DemoBoundsAssumption
<1>6. tasks \in [Listeners -> {"unbound", "up", "down"}]
    OBVIOUS
<1>7. /\ cmdline \in CommandLines /\ process = "starting" /\ args = DefaultArgs
      /\ work = None /\ pc = "idle"
    OBVIOUS
<1>8. Typed
    BY <1>2, <1>4, <1>5, <1>6, <1>7 DEF Typed
<1>9. MutexHeld
    BY <1>7 DEF MutexHeld, Stages
<1> QED
    BY <1>8, <1>9

\* The node and its clients drive the registry as Registry says: whatever they do,
\* in whatever order, is for the store a sequence of its handlers under the mutex.
THEOREM NodeDrivesRegistry == SystemSpec => Spec
<1>1. SystemInit => Init
    BY DEF SystemInit, NodeInit
<1>2. Typed /\ MutexHeld /\ [SystemNext]_systemVars => (Typed /\ MutexHeld)' /\ [Next]_vars
    BY SystemTyped, MutexPreserved, SystemStepsRegistry
<1> QED
    BY <1>1, <1>2, InitTyped, PTL DEF SystemSpec, Spec

\* Whatever Registry's theorems say of the store holds of a running node's.
THEOREM RegistryGuarantees ==
    SystemSpec =>
        /\ [](TypeOK /\ ClaimsWithinCap /\ RegistrationBackedByClaim /\ ServedRecordsAreSigned
                /\ UnreplicatedWithinCount /\ NoOrphans /\ HostWithinTwiceCap)
        /\ CollisionsAreArbitrated /\ LossHasCause
<1>1. IInv => TypeOK /\ ClaimsWithinCap /\ RegistrationBackedByClaim /\ ServedRecordsAreSigned
                /\ UnreplicatedWithinCount /\ NoOrphans
    BY DEF IInv
<1> QED
    BY <1>1, NodeDrivesRegistry, InductiveInvariant, TwiceCap, Arbitrated, LossesExplained, PTL

-----------------------------------------------------------------------------
(* Whose names are held                                                    *)

\* reconcile_quota admits and installs nobody new.
LEMMA ReconcileTrusted ==
    ASSUME IInv, StoreTrusted, cmdline' = cmdline, NEW h \in Hosts, NEW hc \in KeyedClaims,
           ReconcileQuota(h, hc), \A d \in Domains : hc[d] # None => Trusted(hc[d].client, cmdline)
    PROVE  StoreTrusted'
<1> DEFINE adm == Admitted(hc, now)
<1>1. /\ adm \in KeyedClaims
      /\ \A d \in Domains : adm[d] # None => adm[d] = hc[d]
    BY AdmittedFacts
<1> HIDE DEF adm
<1>2. /\ claims' = [claims EXCEPT ![h] = adm]
      /\ regs' = Install(regs, h, adm)
    BY DEF ReconcileQuota, adm
<1>3. adm \in [Domains -> Rumor \cup {None}]
    BY <1>1 DEF KeyedClaims
<1>4. /\ regs \in [Domains -> Registration \cup {None}]
      /\ claims \in [Hosts -> [Domains -> Rumor \cup {None}]]
    BY DEF IInv, TypeOK
<1>5. \A d \in Domains :
          \/ regs'[d] = None
          \/ regs'[d] = regs[d] /\ regs[d] # None
          \/ regs'[d] = FromRumor(adm[d], h) /\ adm[d] # None
    BY <1>2, <1>3, <1>4, InstallFacts
<1>6. \A g \in Hosts : claims'[g] = IF g = h THEN adm ELSE claims[g]
    BY <1>2, <1>4
<1>7. \A c : Trusted(c, cmdline) => Trusted(c, cmdline')
    BY DEF Trusted
<1>8. \A d \in Domains : adm[d] # None => Trusted(adm[d].client, cmdline)
    BY <1>1
<1>9. \A r : FromRumor(r, h).client = r.client
    BY DEF FromRumor
<1>10. ASSUME NEW g \in Hosts, NEW d \in Domains, claims'[g][d] # None
       PROVE  Trusted(claims'[g][d].client, cmdline')
  <2>1. CASE g = h
    <3>1. claims'[g] = adm
        BY <1>6, <2>1
    <3> QED
        BY <1>7, <1>8, <1>10, <3>1
  <2>2. CASE g # h
    <3>1. claims'[g] = claims[g]
        BY <1>6, <2>2
    <3> QED
        BY <1>7, <1>10, <3>1 DEF StoreTrusted
  <2> QED
      BY <2>1, <2>2
<1>11. ASSUME NEW d \in Domains, regs'[d] # None
       PROVE  Trusted(regs'[d].client, cmdline')
  <2>1. CASE regs'[d] = regs[d] /\ regs[d] # None
      BY <1>7, <2>1 DEF StoreTrusted
  <2>2. CASE regs'[d] = FromRumor(adm[d], h) /\ adm[d] # None
    <3>1. regs'[d].client = adm[d].client
        BY <1>9, <2>2
    <3>2. Trusted(adm[d].client, cmdline)
        BY <1>8, <2>2
    <3> QED
        BY <1>7, <3>1, <3>2
  <2> QED
      BY <1>5, <1>11, <2>1, <2>2
<1> QED
    BY <1>10, <1>11 DEF StoreTrusted

\* A step that keeps who holds and claims each name, or drops some, keeps them
\* believed.
LEMMA SameHoldersTrusted ==
    ASSUME StoreTrusted, cmdline' = cmdline,
           \A h \in Hosts, d \in Domains : claims'[h][d] # None =>
              claims[h][d] # None /\ claims'[h][d].client = claims[h][d].client,
           \A d \in Domains : regs'[d] # None =>
              regs[d] # None /\ regs'[d].client = regs[d].client
    PROVE  StoreTrusted'
<1>1. \A c : Trusted(c, cmdline) => Trusted(c, cmdline')
    BY DEF Trusted
<1>2. ASSUME NEW h \in Hosts, NEW d \in Domains, claims'[h][d] # None
      PROVE  Trusted(claims'[h][d].client, cmdline')
  <2>1. Trusted(claims[h][d].client, cmdline) /\ claims'[h][d].client = claims[h][d].client
      BY <1>2 DEF StoreTrusted
  <2> QED
      BY <1>1, <2>1
<1>3. ASSUME NEW d \in Domains, regs'[d] # None
      PROVE  Trusted(regs'[d].client, cmdline')
  <2>1. Trusted(regs[d].client, cmdline) /\ regs'[d].client = regs[d].client
      BY <1>3 DEF StoreTrusted
  <2> QED
      BY <1>1, <2>1
<1> QED
    BY <1>2, <1>3 DEF StoreTrusted

\* The handlers of the client API keep them believed.
LEMMA ApiStoreTrusted ==
    ASSUME IInv, Typed, StoreTrusted, ApiStep, cmdline' = cmdline,
           pc \in Stages => Trusted(req.client, cmdline)
    PROVE  StoreTrusted'
<1>1. /\ regs \in [Domains -> Registration \cup {None}]
      /\ claims \in [Hosts -> [Domains -> Rumor \cup {None}]]
    BY DEF IInv, TypeOK
<1>2. ASSUME UNCHANGED <<regs, claims>> PROVE StoreTrusted'
    BY <1>2, SameHoldersTrusted
<1>3. CASE ApiTake \/ ApiError \/ ApiRegister \/ ApiRefuse \/ ApiPanic
  <2>1. UNCHANGED <<regs, claims>>
      BY <1>3 DEF ApiTake, ApiError, ApiRegister, ApiRefuse, ApiPanic,
                  HandleRegister, Refuse, Panic, vars, store
  <2> QED
      BY <1>2, <2>1
<1>4. ASSUME NEW c, NEW ts, HandleProbe(c, ts) PROVE StoreTrusted'
  <2>1. /\ regs' = [d \in Domains |-> RefreshedReg(regs[d], c, ts)]
        /\ claims' = [h \in Hosts |-> [d \in Domains |-> Refreshed(claims[h][d], c, ts)]]
      BY <1>4 DEF HandleProbe
  <2>2. ASSUME NEW h \in Hosts, NEW d \in Domains, claims'[h][d] # None
        PROVE  claims[h][d] # None /\ claims'[h][d].client = claims[h][d].client
    <3>1. claims'[h][d] = Refreshed(claims[h][d], c, ts)
        BY <2>1
    <3>2. claims[h][d] \in Rumor \cup {None}
        BY <1>1
    <3>3. claims[h][d] # None
        BY <2>2, <3>1 DEF Refreshed
    <3>4. \A r \in Rumor : Refreshed(r, c, ts).client = r.client
        BY DEF Refreshed, Rumor
    <3> QED
        BY <3>1, <3>2, <3>3, <3>4
  <2>3. ASSUME NEW d \in Domains, regs'[d] # None
        PROVE  regs[d] # None /\ regs'[d].client = regs[d].client
    <3>1. regs'[d] = RefreshedReg(regs[d], c, ts)
        BY <2>1
    <3>2. regs[d] \in Registration \cup {None}
        BY <1>1
    <3>3. regs[d] # None
        BY <2>3, <3>1 DEF RefreshedReg
    <3>4. \A r \in Registration : RefreshedReg(r, c, ts).client = r.client
        BY DEF RefreshedReg, Registration
    <3> QED
        BY <3>1, <3>2, <3>3, <3>4
  <2> QED
      BY <2>2, <2>3, SameHoldersTrusted
<1>5. ASSUME NEW c, NEW d0, NEW recs, HandleSetRecords(c, d0, recs) PROVE StoreTrusted'
  <2>1. /\ regs' = [regs EXCEPT ![d0] = WithRecords(regs[d0], recs)]
        /\ claims' = [h \in Hosts |->
                        [claims[h] EXCEPT ![d0] = WithRecordEvidence(claims[h][d0], c, recs)]]
        /\ regs[d0] # None
      BY <1>5 DEF HandleSetRecords
  <2>2. ASSUME NEW h \in Hosts, NEW d \in Domains, claims'[h][d] # None
        PROVE  claims[h][d] # None /\ claims'[h][d].client = claims[h][d].client
    <3>1. claims'[h][d] = IF d = d0 THEN WithRecordEvidence(claims[h][d], c, recs)
                          ELSE claims[h][d]
        BY <1>1, <2>1
    <3>2. claims[h][d] \in Rumor \cup {None}
        BY <1>1
    <3>3. claims[h][d] # None
        BY <2>2, <3>1 DEF WithRecordEvidence
    <3>4. \A r \in Rumor : WithRecordEvidence(r, c, recs).client = r.client
        BY DEF WithRecordEvidence, Rumor
    <3> QED
        BY <3>1, <3>2, <3>3, <3>4
  <2>3. ASSUME NEW d \in Domains, regs'[d] # None
        PROVE  regs[d] # None /\ regs'[d].client = regs[d].client
    <3>1. regs'[d] = IF d = d0 THEN WithRecords(regs[d], recs) ELSE regs[d]
        BY <1>1, <2>1
    <3>2. regs[d] \in Registration \cup {None} /\ regs[d] # None
        BY <1>1, <2>1, <2>3, <3>1
    <3>3. \A r \in Registration : WithRecords(r, recs).client = r.client
        BY DEF WithRecords, Registration
    <3> QED
        BY <3>1, <3>2, <3>3
  <2> QED
      BY <2>2, <2>3, SameHoldersTrusted
<1>6. CASE ReclaimStale
  <2>1. /\ claims' = claims
        /\ regs' = [d \in Domains |->
                      IF regs[d] # None /\ regs[d].host \in Expired THEN None ELSE regs[d]]
      BY <1>6 DEF ReclaimStale
  <2>2. \A d \in Domains : regs'[d] # None => regs'[d] = regs[d]
      BY <2>1
  <2> QED
      BY <2>1, <2>2, SameHoldersTrusted
<1>7. ASSUME NEW h \in Hosts, ReconcileNext(h) PROVE StoreTrusted'
  <2>1. claims[h] \in KeyedClaims
      BY DEF IInv, ClaimsKeyed
  <2>2. ReconcileQuota(h, claims[h])
      BY <1>7 DEF ReconcileNext
  <2>3. \A d \in Domains : claims[h][d] # None => Trusted(claims[h][d].client, cmdline)
      BY DEF StoreTrusted
  <2> QED
      BY <2>1, <2>2, <2>3, ReconcileTrusted
<1>8. ASSUME NEW nonce \in Nonces, Issue(nonce) PROVE StoreTrusted'
  <2> DEFINE new == [client |-> req.client, host |-> HostOf[req.client],
                     token |-> [issuedAt |-> now, nonce |-> nonce],
                     records |-> NoRecords, rumor |-> None]
  <2>1. regs' = [regs EXCEPT ![req.domain] = new] /\ claims' = claims /\ pc \in Stages
      BY <1>8 DEF Issue, Stages
  <2>2. new.client = req.client
      OBVIOUS
  <2> HIDE DEF new
  <2>3. \A c : Trusted(c, cmdline) => Trusted(c, cmdline')
      BY DEF Trusted
  <2>4. ASSUME NEW d \in Domains, regs'[d] # None PROVE Trusted(regs'[d].client, cmdline')
    <3>1. regs'[d] = regs[d] \/ regs'[d] = new
        BY <1>1, <2>1
    <3> QED
        BY <2>1, <2>2, <2>3, <2>4, <3>1 DEF StoreTrusted
  <2>5. ASSUME NEW h \in Hosts, NEW d \in Domains, claims'[h][d] # None
        PROVE  Trusted(claims'[h][d].client, cmdline')
      BY <2>1, <2>3, <2>5 DEF StoreTrusted
  <2> QED
      BY <2>4, <2>5 DEF StoreTrusted
<1>9. CASE AttachRumor
  <2> DEFINE h == HostOf[req.client]
             r == NewRumor(req.client, req.domain)
             hc == [claims[h] EXCEPT ![req.domain] = r]
  <2>1. h \in Hosts /\ hc \in KeyedClaims
      BY <1>9, AttachClaimsKeyed
  <2>2. ReconcileQuota(h, hc) /\ pc \in Stages
      BY <1>9 DEF AttachRumor, Stages
  <2>3. r.client = req.client
      BY DEF NewRumor
  <2>4. claims[h] \in [Domains -> Rumor \cup {None}]
      BY <1>1, <2>1
  <2> HIDE DEF h, r
  <2>5. ASSUME NEW d \in Domains, hc[d] # None PROVE Trusted(hc[d].client, cmdline)
    <3>1. hc[d] = r \/ hc[d] = claims[h][d]
        BY <2>4
    <3> QED
        BY <2>1, <2>2, <2>3, <2>5, <3>1 DEF StoreTrusted
  <2> HIDE DEF hc
  <2> QED
      BY <2>1, <2>2, <2>5, ReconcileTrusted
<1> QED
    BY <1>3, <1>4, <1>5, <1>6, <1>7, <1>8, <1>9
       DEF ApiStep, ApiProbe, ApiSetRecords, ApiStage, ApiAttach

\* No command line changes after the start, and only Main reads it.
LEMMA LineKept ==
    ASSUME [SystemNext]_systemVars
    PROVE  cmdline' = cmdline /\ (~ Main => args' = args)
<1>1. CASE NodeStep
  <2>1. CASE ApiStep
      BY <2>1 DEF ApiStep, ApiTake, ApiProbe, ApiRegister, ApiSetRecords, ApiError, ApiStage,
                  ApiRefuse, ApiAttach, ApiPanic, Respond, daemon
  <2> QED
      BY <1>1, <2>1 DEF NodeStep, Main, Bind, RateLimited, Verified, ResolverServe, DnsServe, daemon
<1>2. CASE ~ NodeStep
    BY <1>2 DEF SystemNext, DemoSend, DemoReceive, DemoGivesUp, OtherSends, Tick,
                systemVars, nodeVars, daemon
<1> QED
    BY <1>1, <1>2

\* Believed survives a step that changes nothing it is about.
LEMMA BelievedUnchanged ==
    ASSUME Believed, UNCHANGED <<cmdline, args, work, pc, req, regs, claims>>
    PROVE  Believed'
BY DEF Believed, StoreTrusted

\* Whatever comes in, only Registers that were verified, or need not be, go on.
LEMMA BelievedPreserved ==
    ASSUME IInv, Typed, MutexHeld, Believed, [SystemNext]_systemVars
    PROVE  Believed'
<1>1. cmdline' = cmdline /\ (~ Main => args' = args)
    BY LineKept
<1>2. /\ args.insecure => Insecure \in ToSet(cmdline)
      /\ pc \in Stages => Trusted(req.client, cmdline)
      /\ StoreTrusted
    BY DEF Believed
<1>3. CASE ApiStep /\ ~ Main
  <2>1. StoreTrusted'
      BY <1>1, <1>2, <1>3, ApiStoreTrusted
  <2>2. args' = args
      BY <1>1, <1>3
  <2>3. CASE ApiTake
    <3> DEFINE m == Head(queue["api"])
               ready == ~ (m.body.kind = "register" /\ ~ args.insecure)
               item == [msg |-> m, since |-> now, verified |-> TRUE,
                        phase |-> IF ready THEN "ready" ELSE "verify"]
    <3>1. work' = None \/ work' = item
      <4>1. work' = IF m.body.proto # "api" THEN None
                    ELSE [msg |-> m, since |-> now, verified |-> TRUE,
                          phase |-> IF NeedsVerifier(m.body) THEN "verify" ELSE "ready"]
          BY <2>3 DEF ApiTake
      <4>2. NeedsVerifier(m.body) <=> ~ ready
          BY DEF NeedsVerifier
      <4> HIDE DEF m, ready
      <4> QED
          BY <4>1, <4>2
    <3>2. UNCHANGED <<pc, req>>
        BY <2>3 DEF ApiTake, vars
    <3>3. ready /\ m.body.kind = "register" => Insecure \in ToSet(cmdline)
        BY <1>2
    <3>4. item.msg = m /\ (item.phase = "ready" => ready)
        OBVIOUS
    <3> HIDE DEF item, m, ready
    <3>5. work' # None /\ work'.phase = "ready" /\ work'.msg.body.kind = "register" =>
             Trusted(work'.msg.body.client, cmdline')
        BY <1>1, <3>1, <3>3, <3>4 DEF Trusted
    <3> QED
        BY <1>1, <1>2, <2>1, <2>2, <3>2, <3>5 DEF Believed
  <2>4. CASE Answering
    <3>1. work' = None /\ pc' = "idle"
        BY <2>4 DEF Answering, Respond
    <3> QED
        BY <1>1, <1>2, <2>1, <2>2, <3>1 DEF Believed, Stages
  <2>5. CASE Locking
    <3>1. work \in WorkItems /\ work' = [work EXCEPT !.phase = "locked"]
        BY <2>5 DEF Locking, Typed
    <3>2. work'.phase = "locked"
        BY <3>1 DEF WorkItems
    <3>3. req'.client = work.msg.body.client
        BY <2>5 DEF Locking
    <3>4. Trusted(work.msg.body.client, cmdline)
        BY <2>5 DEF Locking, Believed
    <3> QED
        BY <1>1, <1>2, <2>1, <2>2, <3>2, <3>3, <3>4 DEF Believed
  <2>6. CASE Working
      BY <1>1, <1>2, <2>1, <2>2, <2>6 DEF Working, Believed
  <2>7. CASE ApiPanic
    <3>1. work' = None /\ pc' = "dead"
        BY <2>7 DEF ApiPanic, Panic
    <3> QED
        BY <1>1, <1>2, <2>1, <2>2, <3>1 DEF Believed, Stages
  <2> QED
      BY <1>3, <2>3, <2>4, <2>5, <2>6, <2>7, ApiStepCases
<1>4. CASE Main
  <2>1. UNCHANGED <<work, pc, req, regs, claims>>
      BY <1>4 DEF Main, vars
  <2>2. args' = args \/ (ParseArgs(cmdline) # None /\ args' = ParseArgs(cmdline))
      BY <1>4 DEF Main
  <2>3. cmdline \in Seq(STRING)
      BY CommandLinesAssumption DEF Typed
  <2>4. args'.insecure => Insecure \in ToSet(cmdline)
      BY <1>2, <2>2, <2>3, ParseFacts
  <2> QED
      BY <1>1, <1>2, <2>1, <2>4 DEF Believed, StoreTrusted
<1>5. ASSUME NEW ok \in BOOLEAN, Verified(ok), ~ Main PROVE Believed'
  <2>1. work \in WorkItems /\ work' = [work EXCEPT !.phase = "ready", !.verified = ok]
      BY <1>5 DEF Verified, Typed
  <2>2. work'.verified = ok /\ work'.msg = work.msg
      BY <2>1 DEF WorkItems
  <2>3. ok => work.msg.body.client \in Confirmable
      BY <1>5 DEF Verified
  <2>4. UNCHANGED <<pc, req, regs, claims>>
      BY <1>5 DEF Verified, vars
  <2>5. work'.verified => Trusted(work'.msg.body.client, cmdline')
      BY <2>2, <2>3 DEF Trusted
  <2> QED
      BY <1>1, <1>2, <1>5, <2>4, <2>5 DEF Believed, StoreTrusted
<1>6. CASE ~ Main /\ ~ ApiStep /\ ~ \E ok \in BOOLEAN : Verified(ok)
  <2>1. UNCHANGED <<work, pc, req, regs, claims>>
      BY <1>6 DEF SystemNext, NodeStep, Bind, RateLimited, ResolverServe, DnsServe, DemoSend,
                  DemoReceive, DemoGivesUp, OtherSends, Tick, systemVars, nodeVars, vars, store
  <2> QED
      BY <1>1, <1>6, <2>1, BelievedUnchanged
<1> QED
    BY <1>3, <1>4, <1>5, <1>6

\* Nobody is believed before there is anybody.
LEMMA InitBelieved == SystemInit => Believed
<1> SUFFICES ASSUME SystemInit PROVE Believed
    OBVIOUS
<1>1. /\ args = DefaultArgs /\ work = None /\ pc = "idle"
      /\ regs = [d \in Domains |-> None]
      /\ claims = [h \in Hosts |-> [d \in Domains |-> None]]
    BY DEF SystemInit, NodeInit, Init
<1>2. ~ args.insecure
    BY <1>1 DEF DefaultArgs
<1>3. \A h \in Hosts, d \in Domains : claims[h][d] = None /\ regs[d] = None
    BY <1>1
<1>4. StoreTrusted
    BY <1>1, <1>3 DEF StoreTrusted
<1> QED
    BY <1>1, <1>2, <1>4 DEF Believed, Stages

\* A name is only ever held by a client whose source address confirmed its hostname
\* when its Register came in, unless the operator has asked for the check to be
\* skipped: however requests, verifications and reclaims interleave, a request that
\* waited for the verifier goes on under the verdict on its own client.
THEOREM OnlyConfirmedHold == SystemSpec => []HeldNamesWereConfirmed
<1> DEFINE I == IInv /\ Typed /\ MutexHeld /\ Believed
<1>1. SystemInit => I
  <2>1. SystemInit => IInv
      BY InitEstablishes DEF SystemInit, NodeInit
  <2> QED
      BY <2>1, InitTyped, InitBelieved
<1>2. I /\ [SystemNext]_systemVars => I'
    BY SystemTyped, MutexPreserved, BelievedPreserved, SystemStepsRegistry, NextPreserves
<1>3. I => HeldNamesWereConfirmed
  <2> SUFFICES ASSUME I, NEW d \in Domains, regs[d] # None
               PROVE  regs[d].client \in Confirmable \/ Insecure \in ToSet(cmdline)
      BY DEF HeldNamesWereConfirmed
  <2> QED
      BY DEF Believed, StoreTrusted, Trusted
<1> QED
    BY <1>1, <1>2, <1>3, PTL DEF SystemSpec

-----------------------------------------------------------------------------
(* What the listeners serve                                                *)

\* The four listeners.
LEMMA ListenerFields ==
    /\ \A flag \in DOMAIN FieldOf : FieldOf[flag] \in Listeners
    /\ \A l \in Listeners : \E flag \in DOMAIN FieldOf : FieldOf[flag] = l
BY FieldFacts DEF Listeners

\* The tasks are set going, bound, and the client API's ended; nothing else happens
\* to them.
LEMMA TasksKept ==
    ASSUME [SystemNext]_systemVars, ~ Main, ~ \E l \in Listeners : Bind(l), ~ ApiPanic
    PROVE  UNCHANGED <<cmdline, process, args, tasks>>
<1>1. CASE ApiStep
    BY <1>1 DEF ApiStep, ApiTake, ApiProbe, ApiRegister, ApiSetRecords, ApiError, ApiStage,
                ApiRefuse, ApiAttach, Respond, daemon
<1>2. CASE ~ ApiStep
    BY <1>2 DEF SystemNext, NodeStep, RateLimited, Verified, ResolverServe, DnsServe,
                DemoSend, DemoReceive, DemoGivesUp, OtherSends, Tick, systemVars, nodeVars, daemon
<1> QED
    BY <1>1, <1>2

\* What the command line says is what it said when it was read.
LEMMA AllReadKept ==
    ASSUME Bound, process' = process, cmdline' = cmdline, args' = args
    PROVE  process' = "running" => AllRead'
BY Zenon DEF Bound, AllRead, Followed, Told

\* In whatever order the listeners are bound, and whichever fail, no address serves
\* two of them.
LEMMA BoundPreserved ==
    ASSUME Typed, MutexHeld, Bound, [SystemNext]_systemVars
    PROVE  Bound'
<1>1. /\ process = "running" => AllRead
      /\ \A l \in Listeners : tasks[l] # "down" => args[l] \in Addresses
      /\ \A l \in Listeners : \A k \in Listeners \ {l} :
            tasks[l] = "up" /\ tasks[k] = "up" => Covers[args[l]] \cap Covers[args[k]] = {}
    BY DEF Bound
<1>2. tasks \in [Listeners -> {"unbound", "up", "down"}]
    BY DEF Typed
<1>3. CASE Main
  <2>1. cmdline' = cmdline /\ process = "starting"
      BY <1>3 DEF Main
  <2>2. cmdline \in Seq(STRING)
      BY CommandLinesAssumption DEF Typed
  <2>3. CASE ParseArgs(cmdline) = None
    <3>1. process' = "aborted" /\ UNCHANGED <<args, tasks>>
        BY <1>3, <2>3 DEF Main
    <3> QED
        BY <1>1, <3>1 DEF Bound
  <2>4. CASE ParseArgs(cmdline) # None
    <3> DEFINE parsed == ParseArgs(cmdline)
    <3>1. /\ args' = parsed
          /\ tasks' = [l \in Listeners |-> IF parsed[l] = None THEN "down" ELSE "unbound"]
        BY <1>3, <2>4 DEF Main
    <3>2. /\ parsed \in Args
          /\ \A i \in 1 .. Len(cmdline) : cmdline[i] \in ValueFlags => i < Len(cmdline)
          /\ Followed(cmdline, Len(cmdline))
          /\ \A flag \in DOMAIN FieldOf : Told(flag, cmdline, Len(cmdline), parsed)
        BY <2>2, <2>4, ParseFacts
    <3> HIDE DEF parsed
    <3>3. \A l \in Listeners : tasks'[l] # "up" /\ (tasks'[l] # "down" => parsed[l] # None)
        BY <3>1
    <3>4. \A l \in Listeners : parsed[l] \in Addresses \cup {None}
        BY <3>2 DEF Args, Listeners
    <3>5. \A l \in Listeners : tasks'[l] # "down" => args'[l] \in Addresses
        BY <3>1, <3>3, <3>4
    <3>6. AllRead'
        BY <2>1, <3>1, <3>2 DEF AllRead, Followed, Told
    <3> QED
        BY <3>3, <3>5, <3>6 DEF Bound
  <2> QED
      BY <2>3, <2>4
<1>4. ASSUME NEW l \in Listeners, Bind(l) PROVE Bound'
  <2>1. /\ UNCHANGED <<cmdline, process, args>> /\ tasks[l] = "unbound"
        /\ tasks' = [tasks EXCEPT ![l] = "down"] \/ tasks' = [tasks EXCEPT ![l] = "up"]
        /\ Taken(l) => tasks' = [tasks EXCEPT ![l] = "down"]
      BY <1>4 DEF Bind
  <2>2. /\ \A k \in Listeners \ {l} : tasks'[k] = tasks[k]
        /\ Taken(l) => tasks'[l] = "down"
      BY <1>2, <2>1
  <2>3. \A k \in Listeners : tasks'[k] # "down" => args'[k] \in Addresses
    <3>1. args[l] \in Addresses
        BY <1>1, <2>1
    <3> QED
        BY <1>1, <2>1, <2>2, <3>1
  <2>4. ASSUME NEW k \in Listeners \ {l}, tasks[k] = "up", ~ Taken(l)
        PROVE  Covers[args[l]] \cap Covers[args[k]] = {}
    <3>1. args[l] \in Addresses /\ args[k] \in Addresses
        BY <1>1, <2>1, <2>4
    <3>2. args[l] \notin Covers[args[k]] /\ args[k] \notin Covers[args[l]]
        BY <2>4 DEF Taken
    <3> QED
        BY <3>1, <3>2, CoversAssumption
  <2>5. ASSUME NEW j \in Listeners, NEW k \in Listeners \ {j}, tasks'[j] = "up", tasks'[k] = "up"
        PROVE  Covers[args[j]] \cap Covers[args[k]] = {}
    <3>1. CASE j = l
      <4>1. ~ Taken(l) /\ tasks[k] = "up"
          BY <2>2, <2>5, <3>1
      <4> QED
          BY <2>4, <3>1, <4>1
    <3>2. CASE k = l
      <4>1. ~ Taken(l) /\ tasks[j] = "up"
          BY <2>2, <2>5, <3>2
      <4>2. Covers[args[k]] \cap Covers[args[j]] = {}
          BY <2>4, <3>2, <4>1
      <4> QED
          BY <4>2
    <3>3. CASE j # l /\ k # l
      <4>1. tasks[j] = "up" /\ tasks[k] = "up"
          BY <2>2, <2>5, <3>3
      <4> QED
          BY <1>1, <4>1
    <3> QED
        BY <3>1, <3>2, <3>3
  <2>6. \A j \in Listeners : \A k \in Listeners \ {j} :
           tasks'[j] = "up" /\ tasks'[k] = "up" => Covers[args'[j]] \cap Covers[args'[k]] = {}
      BY <2>1, <2>5
  <2>7. process' = "running" => AllRead'
      BY <2>1, AllReadKept
  <2> QED
      BY <2>3, <2>6, <2>7, Zenon DEF Bound
<1>5. CASE ApiPanic
  <2>1. /\ UNCHANGED <<cmdline, process, args>>
        /\ tasks' = [tasks EXCEPT !["api"] = "down"]
      BY <1>5 DEF ApiPanic
  <2>2. \A k \in Listeners : /\ tasks'[k] = "up" => tasks[k] = "up"
                             /\ tasks'[k] # "down" => tasks[k] # "down"
      BY <1>2, <2>1
  <2>3. process' = "running" => AllRead'
      BY <2>1, AllReadKept
  <2>4. /\ \A l \in Listeners : tasks'[l] # "down" => args'[l] \in Addresses
        /\ \A l \in Listeners : \A k \in Listeners \ {l} :
              tasks'[l] = "up" /\ tasks'[k] = "up" => Covers[args'[l]] \cap Covers[args'[k]] = {}
      BY <1>1, <2>1, <2>2
  <2> QED
      BY <2>3, <2>4, Zenon DEF Bound
<1>6. CASE UNCHANGED <<cmdline, process, args, tasks>>
  <2>1. process' = "running" => AllRead'
      BY <1>6, AllReadKept
  <2> QED
      BY <1>1, <1>6, <2>1 DEF Bound
<1> QED
    BY <1>3, <1>4, <1>5, <1>6, TasksKept

\* Nothing is up to begin with.
LEMMA InitBound == SystemInit => Bound
<1> SUFFICES ASSUME SystemInit PROVE Bound
    OBVIOUS
<1>1. process = "starting" /\ \A l \in Listeners : tasks[l] = "down"
    BY DEF SystemInit, NodeInit
<1> QED
    BY <1>1 DEF Bound

\* Whatever words the command line has, in whatever order the listeners are bound and
\* whichever of them cannot: a node that runs has an address after every flag that
\* needs one, a listener that serves does it where the last of its flags said or at
\* its default, and no datagram is for two of them.
THEOREM ServedAsTold == SystemSpec => []ListenersAsTold
<1> DEFINE I == Typed /\ MutexHeld /\ Bound
<1>1. SystemInit => I
    BY InitTyped, InitBound
<1>2. I /\ [SystemNext]_systemVars => I'
    BY SystemTyped, MutexPreserved, BoundPreserved
<1>3. I => ListenersAsTold
  <2> SUFFICES ASSUME Bound, Typed, process = "running" PROVE ListenersAsTold
      BY DEF ListenersAsTold
  <2> DEFINE n == Len(cmdline)
  <2>1. /\ \A i \in 1 .. n : cmdline[i] \in ValueFlags => i < n
        /\ Followed(cmdline, n)
        /\ \A flag \in DOMAIN FieldOf : Told(flag, cmdline, n, args)
      BY DEF Bound, AllRead
  <2>2. n \in Nat /\ \A i \in 1 .. n : i < n => i \in 1 .. n - 1
    <3>1. cmdline \in Seq(STRING)
        BY CommandLinesAssumption DEF Typed
    <3> QED
        BY <3>1
  <2>3. \A i \in 1 .. n - 1 : i \in 1 .. n
      BY <2>2
  <2> HIDE DEF n
  <2>4. ASSUME NEW flag \in ValueFlags, NEW i \in Positions(flag)
        PROVE  i < n /\ cmdline[i + 1] \in Addresses
    <3>1. i \in 1 .. n /\ cmdline[i] = flag
        BY DEF Positions, n
    <3> QED
        BY <2>1, <2>2, <3>1 DEF Followed
  <2>5. ASSUME NEW flag \in DOMAIN FieldOf, tasks[FieldOf[flag]] = "up"
        PROVE  /\ Positions(flag) = {} =>
                     FieldOf[flag] # "dns" /\ args[FieldOf[flag]] = DefaultAddr[FieldOf[flag]]
               /\ \A i \in Positions(flag) :
                     (\A j \in Positions(flag) : j <= i) =>
                        args[FieldOf[flag]] = cmdline[i + 1]
    <3> DEFINE l == FieldOf[flag]
    <3>1. flag \in ValueFlags /\ l \in Listeners
        BY ListenerFields DEF ValueFlags
    <3>2. \A i \in Positions(flag) : i \in 1 .. n - 1 /\ cmdline[i] = flag
      <4>1. \A i \in Positions(flag) : i \in 1 .. n /\ cmdline[i] = flag
          BY DEF Positions, n
      <4> QED
          BY <2>2, <2>4, <3>1, <4>1
    <3>3. \A i \in 1 .. n - 1 : cmdline[i] = flag => i \in Positions(flag)
        BY <2>3 DEF Positions, n
    <3>4. /\ (\A i \in 1 .. n - 1 : cmdline[i] # flag) => args[l] = DefaultArgs[l]
          /\ \A i \in 1 .. n - 1 :
                cmdline[i] = flag /\ (\A j \in 1 .. n - 1 : cmdline[j] = flag => j <= i) =>
                   args[l] = cmdline[i + 1]
        BY <2>1 DEF Told
    <3>5. args[l] \in Addresses
        BY <2>5, <3>1 DEF Bound
    <3> HIDE DEF l
    <3>6. ASSUME Positions(flag) = {} PROVE l # "dns" /\ args[l] = DefaultAddr[l]
      <4>1. args[l] = DefaultArgs[l]
          BY <3>3, <3>4, <3>6
      <4>2. DefaultArgs["dns"] = None /\ None \notin Addresses
          BY FlagsAssumption DEF DefaultArgs
      <4>3. l # "dns"
          BY <3>5, <4>1, <4>2
      <4>4. l \in {"gossip", "resolver", "api"}
          BY <3>1, <4>3 DEF l, Listeners
      <4>5. DefaultArgs[l] = DefaultAddr[l]
          BY <4>4 DEF DefaultArgs
      <4> QED
          BY <4>1, <4>3, <4>5
    <3>7. \A i \in Positions(flag) :
             (\A j \in Positions(flag) : j <= i) => args[l] = cmdline[i + 1]
        BY <3>2, <3>3, <3>4
    <3> QED
        BY <3>6, <3>7 DEF l
  <2>6. \A l \in Listeners : \A k \in Listeners \ {l} :
           tasks[l] = "up" /\ tasks[k] = "up" => Covers[args[l]] \cap Covers[args[k]] = {}
      BY DEF Bound
  <2> QED
      BY <2>4, <2>5, <2>6, Zenon DEF ListenersAsTold, n
<1> QED
    BY <1>1, <1>2, <1>3, PTL DEF SystemSpec

-----------------------------------------------------------------------------
(* What the demo client reads                                              *)

\* Where the demo's datagrams are when a listener has taken its next one.
LEMMA ConsumeQueued ==
    ASSUME Typed, NEW l \in Listeners, queue[l] # <<>>, Consume(l)
    PROVE  /\ Head(queue[l]).from = "demo" => DemoQueued(l, 1)
           /\ Head(queue[l]) = queue[l][1]
           /\ \A k \in Listeners, j \in Nat : DemoQueued(k, j)' =>
                \E i \in Nat : /\ DemoQueued(k, i) /\ queue'[k][j] = queue[k][i]
                               /\ i = IF k = l THEN j + 1 ELSE j
<1>1. /\ queue' \in [Listeners -> Seq(Datagrams)]
      /\ \A k \in Listeners \ {l} : queue'[k] = queue[k]
      /\ Len(queue[l]) \in Nat \ {0} /\ Len(queue'[l]) = Len(queue[l]) - 1
      /\ \A i \in 1 .. Len(queue[l]) - 1 : queue'[l][i] = queue[l][i + 1]
      /\ Head(queue[l]) = queue[l][1]
    BY ConsumeFacts
<1>2. Head(queue[l]).from = "demo" => DemoQueued(l, 1)
    BY <1>1 DEF DemoQueued
<1>3. ASSUME NEW k \in Listeners, NEW j \in Nat, DemoQueued(k, j)'
      PROVE  \E i \in Nat : /\ DemoQueued(k, i) /\ queue'[k][j] = queue[k][i]
                            /\ i = IF k = l THEN j + 1 ELSE j
  <2>1. j \in 1 .. Len(queue'[k]) /\ queue'[k][j].from = "demo"
      BY <1>3 DEF DemoQueued
  <2>2. CASE k = l
    <3>1. Len(queue'[k]) = Len(queue[l]) - 1
        BY <1>1, <2>2
    <3>2. j \in 1 .. Len(queue[l]) - 1
        BY <1>1, <2>1, <3>1
    <3>3. queue'[k][j] = queue[k][j + 1]
        BY <1>1, <2>2, <3>2
    <3>4. j + 1 \in 1 .. Len(queue[k])
        BY <1>1, <2>2, <3>2
    <3>5. queue[k][j + 1].from = "demo"
        BY <2>1, <3>3
    <3>6. DemoQueued(k, j + 1) /\ j + 1 \in Nat
        BY <3>4, <3>5 DEF DemoQueued
    <3> QED
        BY <2>2, <3>3, <3>6
  <2>3. CASE k # l
    <3>1. queue'[k] = queue[k]
        BY <1>1, <2>3
    <3>2. DemoQueued(k, j)
        BY <2>1, <3>1 DEF DemoQueued
    <3> QED
        BY <2>3, <3>1, <3>2
  <2> QED
      BY <2>2, <2>3
<1> QED
    BY <1>1, <1>2, <1>3

\* The client API has the same request of the demo's in hand, or none.
NothingNewServed == DemoServed' => DemoServed /\ work'.msg = work.msg

\* A listener that takes somebody else's datagram moves the demo's up.
LEMMA ConsumeOther ==
    ASSUME Typed, NEW l \in Listeners, queue[l] # <<>>, Consume(l),
           Head(queue[l]).from # "demo", NothingNewServed, replies' = replies, NEW s
    PROVE  /\ Quiet => Quiet'
           /\ InFlight(s) => InFlight(s)'
<1>1. \A k \in Listeners, j \in Nat : DemoQueued(k, j)' =>
          \E i \in Nat : /\ DemoQueued(k, i) /\ queue'[k][j] = queue[k][i]
                         /\ i = IF k = l THEN j + 1 ELSE j
    BY ConsumeQueued
<1>2. Quiet => Quiet'
    BY <1>1 DEF Quiet, NothingNewServed
<1>3. ASSUME InFlight(s) PROVE InFlight(s)'
  <2>1. ASSUME NEW k \in Listeners, NEW j \in Nat, DemoQueued(k, j)'
        PROVE  /\ IsRequest(s, queue'[k][j].body)
               /\ ~ DemoServed' /\ replies' = <<>>
               /\ \A k2 \in Listeners, j2 \in Nat : DemoQueued(k2, j2)' => k2 = k /\ j2 = j
    <3>1. PICK i \in Nat : /\ DemoQueued(k, i) /\ queue'[k][j] = queue[k][i]
                           /\ i = IF k = l THEN j + 1 ELSE j
        BY <1>1, <2>1
    <3>2. /\ IsRequest(s, queue[k][i].body) /\ ~ DemoServed /\ replies = <<>>
          /\ \A k2 \in Listeners, j2 \in Nat : DemoQueued(k2, j2) => k2 = k /\ j2 = i
        BY <1>3, <3>1 DEF InFlight
    <3>3. ASSUME NEW k2 \in Listeners, NEW j2 \in Nat, DemoQueued(k2, j2)'
          PROVE  k2 = k /\ j2 = j
      <4>1. PICK i2 \in Nat : DemoQueued(k2, i2) /\ i2 = IF k2 = l THEN j2 + 1 ELSE j2
          BY <1>1, <3>3
      <4>2. k2 = k /\ i2 = i
          BY <3>2, <4>1
      <4> QED
          BY <3>1, <4>1, <4>2
    <3> QED
        BY <3>1, <3>2, <3>3 DEF NothingNewServed
  <2>2. DemoServed' => IsRequest(s, work'.msg.body) /\ replies' = <<>>
      BY <1>3 DEF InFlight, NothingNewServed
  <2>3. replies' # <<>> => replies' = <<replies'[1]>> /\ IsReply(s, replies'[1])
      BY <1>3 DEF InFlight
  <2> QED
      BY <2>1, <2>2, <2>3 DEF InFlight
<1> QED
    BY <1>2, <1>3

\* When it takes the demo's, that was all there was.
LEMMA ConsumeDemo ==
    ASSUME Typed, NEW l \in Listeners, queue[l] # <<>>, Consume(l),
           Head(queue[l]).from = "demo", NEW s, InFlight(s)
    PROVE  /\ IsRequest(s, Head(queue[l]).body)
           /\ ~ DemoServed /\ replies = <<>>
           /\ \A k \in Listeners, j \in Nat : ~ DemoQueued(k, j)'
<1>1. /\ DemoQueued(l, 1) /\ Head(queue[l]) = queue[l][1]
      /\ \A k \in Listeners, j \in Nat : DemoQueued(k, j)' =>
           \E i \in Nat : DemoQueued(k, i) /\ i = IF k = l THEN j + 1 ELSE j
    BY ConsumeQueued
<1>2. /\ IsRequest(s, queue[l][1].body) /\ ~ DemoServed /\ replies = <<>>
      /\ \A k \in Listeners, j \in Nat : DemoQueued(k, j) => k = l /\ j = 1
    BY <1>1 DEF InFlight
<1>3. ASSUME NEW k \in Listeners, NEW j \in Nat, DemoQueued(k, j)' PROVE FALSE
  <2>1. PICK i \in Nat : DemoQueued(k, i) /\ i = IF k = l THEN j + 1 ELSE j
      BY <1>1, <1>3
  <2>2. k = l /\ i = 1
      BY <1>2, <2>1
  <2>3. j = 0
      BY <2>1, <2>2
  <2> QED
      BY <1>3, <2>3 DEF DemoQueued
<1> QED
    BY <1>1, <1>2, <1>3

\* A step that leaves the queues to themselves.
LEMMA QueuesKept ==
    ASSUME queue' = queue, NothingNewServed, replies' = replies, NEW s
    PROVE  /\ Quiet => Quiet'
           /\ InFlight(s) => InFlight(s)'
<1>1. \A k, j : DemoQueued(k, j)' => DemoQueued(k, j)
    BY DEF DemoQueued
<1>2. Quiet => Quiet'
    BY <1>1 DEF Quiet, NothingNewServed
<1>3. InFlight(s) => InFlight(s)'
    BY <1>1 DEF InFlight, NothingNewServed
<1> QED
    BY <1>2, <1>3

\* The reply to the demo's request is the only one, if a datagram holds it.
LEMMA ReplySent ==
    ASSUME NEW s, NEW body, \A k \in Listeners, j \in Nat : ~ DemoQueued(k, j)',
           ~ DemoServed', replies = <<>>, Reply("demo", body), IsReply(s, body)
    PROVE  InFlight(s)'
<1>1. replies' = <<body>> \/ replies' = <<>>
    BY DEF Reply
<1>2. replies' # <<>> => replies' = <<replies'[1]>> /\ IsReply(s, replies'[1])
    BY <1>1
<1> QED
    BY <1>2 DEF InFlight

\* The client API answers the demo's request once, in kind.
LEMMA AnsweringFlight ==
    ASSUME Typed, Answering, NEW s \in 1 .. 5
    PROVE  /\ Quiet => Quiet'
           /\ InFlight(s) => InFlight(s)'
<1>1. PICK response : Respond(response)
    BY DEF Answering
<1> DEFINE body == [proto |-> "api", of |-> work.msg.body.kind, response |-> response]
<1>2. work' = None /\ queue' = queue /\ Reply(work.msg.from, body) /\ work # None
    BY <1>1 DEF Respond, Answering
<1>3. NothingNewServed /\ ~ DemoServed'
    BY <1>2 DEF NothingNewServed, DemoServed
<1>4. CASE work.msg.from # "demo"
  <2>1. replies' = replies
      BY <1>2, <1>4 DEF Reply
  <2> QED
      BY <1>2, <1>3, <2>1, QueuesKept
<1>5. CASE work.msg.from = "demo"
  <2>1. DemoServed
      BY <1>2, <1>5 DEF DemoServed
  <2>2. ~ Quiet
      BY <2>1 DEF Quiet
  <2>3. ASSUME InFlight(s) PROVE InFlight(s)'
    <3>1. IsRequest(s, work.msg.body) /\ replies = <<>>
        BY <2>1, <2>3 DEF InFlight
    <3>2. \A k \in Listeners, j \in Nat : ~ DemoQueued(k, j)'
      <4>1. \A k \in Listeners, j \in Nat : ~ DemoQueued(k, j)
          BY <2>1, <2>3 DEF InFlight
      <4> QED
          BY <1>2, <4>1 DEF DemoQueued
    <3>3. work.msg.body.proto = "api"
        BY <1>2 DEF Typed, WorkItems
    <3>4. IsReply(s, body)
      <4>1. body.proto = "api" /\ body.of = work.msg.body.kind
          OBVIOUS
      <4> HIDE DEF body
      <4> QED
          BY <3>1, <3>3, <4>1 DEF IsRequest, IsReply
    <3>5. Reply("demo", body)
        BY <1>2, <1>5
    <3> HIDE DEF body
    <3> QED
        BY <1>3, <3>1, <3>2, <3>4, <3>5, ReplySent
  <2> QED
      BY <2>2, <2>3
<1> QED
    BY <1>4, <1>5

\* A lookup is answered once, by its own protocol; the DNS listener answers
\* anything, as DNS.
LEMMA LookupFlight ==
    ASSUME Typed, ResolverServe \/ DnsServe, NEW s \in 1 .. 5
    PROVE  /\ Quiet => Quiet'
           /\ InFlight(s) => InFlight(s)'
<1>1. PICK l \in Listeners :
         /\ queue[l] # <<>> /\ Consume(l) /\ work' = work
         /\ \/ replies' = replies
            \/ \E body : /\ Reply(Head(queue[l]).from, body)
                         /\ \/ body.proto = "resolve" /\ Head(queue[l]).body.proto = "resolve"
                            \/ body.proto = "dns"
  <2>1. CASE ResolverServe
    <3>1. "resolver" \in Listeners
        BY DEF Listeners
    <3>2. \A d : ResolveAnswer(d).proto = "resolve"
        BY DEF ResolveAnswer
    <3> QED
        BY <2>1, <3>1, <3>2 DEF ResolverServe
  <2>2. CASE DnsServe
    <3>1. "dns" \in Listeners
        BY DEF Listeners
    <3>2. \A cells : [proto |-> "dns", cells |-> cells].proto = "dns"
        OBVIOUS
    <3>3. replies' = replies \/ \E cells : Reply(Head(queue["dns"]).from, [proto |-> "dns", cells |-> cells])
        BY <2>2 DEF DnsServe
    <3> QED
        BY <2>2, <3>1, <3>2, <3>3 DEF DnsServe
  <2> QED
      BY <2>1, <2>2
<1>2. NothingNewServed /\ (~ DemoServed => ~ DemoServed')
    BY <1>1 DEF NothingNewServed, DemoServed
<1>3. CASE Head(queue[l]).from # "demo"
  <2>1. replies' = replies
      BY <1>1, <1>3 DEF Reply
  <2> QED
      BY <1>1, <1>2, <1>3, <2>1, ConsumeOther
<1>4. CASE Head(queue[l]).from = "demo"
  <2>1. ~ Quiet
      BY <1>1, <1>4, ConsumeQueued DEF Quiet
  <2>2. ASSUME InFlight(s) PROVE InFlight(s)'
    <3>1. /\ IsRequest(s, Head(queue[l]).body)
          /\ ~ DemoServed /\ replies = <<>>
          /\ \A k \in Listeners, j \in Nat : ~ DemoQueued(k, j)'
        BY <1>1, <1>4, <2>2, ConsumeDemo
    <3>2. ~ DemoServed'
        BY <1>2, <3>1
    <3>3. CASE replies' = replies
        BY <3>1, <3>2, <3>3 DEF InFlight
    <3>4. ASSUME NEW body, Reply("demo", body),
                 \/ body.proto = "resolve" /\ Head(queue[l]).body.proto = "resolve"
                 \/ body.proto = "dns"
          PROVE  InFlight(s)'
      <4>1. IsReply(s, body)
          BY <3>1, <3>4 DEF IsReply, IsRequest
      <4> QED
          BY <3>1, <3>2, <3>4, <4>1, ReplySent
    <3> QED
        BY <1>1, <1>4, <3>3, <3>4
  <2> QED
      BY <2>1, <2>2
<1> QED
    BY <1>3, <1>4

\* The client API takes the demo's request as it takes any other.
LEMMA TakeFlight ==
    ASSUME Typed, ApiTake, NEW s \in 1 .. 5
    PROVE  /\ Quiet => Quiet'
           /\ InFlight(s) => InFlight(s)'
<1> DEFINE m == Head(queue["api"])
<1>1. /\ "api" \in Listeners /\ queue["api"] # <<>> /\ Consume("api")
      /\ replies' = replies /\ work = None
    BY DEF ApiTake, Listeners
<1>2. work' # None => work'.msg = m
    BY DEF ApiTake
<1>3. CASE m.from # "demo"
  <2>1. NothingNewServed
      BY <1>2, <1>3 DEF NothingNewServed, DemoServed
  <2> QED
      BY <1>1, <1>3, <2>1, ConsumeOther
<1>4. CASE m.from = "demo"
  <2>1. ~ Quiet
      BY <1>1, <1>4, ConsumeQueued DEF Quiet
  <2>2. ASSUME InFlight(s) PROVE InFlight(s)'
    <3>1. /\ IsRequest(s, m.body) /\ replies = <<>>
          /\ \A k \in Listeners, j \in Nat : ~ DemoQueued(k, j)'
        BY <1>1, <1>4, <2>2, ConsumeDemo
    <3>2. DemoServed' => IsRequest(s, work'.msg.body)
        BY <1>2, <3>1 DEF DemoServed
    <3> QED
        BY <1>1, <3>1, <3>2 DEF InFlight
  <2> QED
      BY <2>1, <2>2
<1> QED
    BY <1>3, <1>4

\* The panic of the client API loses what it had.
LEMMA PanicFlight ==
    ASSUME Typed, ApiPanic, NEW s \in 1 .. 5
    PROVE  /\ Quiet => Quiet'
           /\ InFlight(s) => InFlight(s)'
<1>1. /\ queue' = [queue EXCEPT !["api"] = <<>>] /\ work' = None /\ replies' = replies
      /\ queue \in [Listeners -> Seq(Datagrams)]
    BY DEF ApiPanic, Typed
<1>2. ~ DemoServed'
    BY <1>1 DEF DemoServed
<1>3. ASSUME NEW k \in Listeners, NEW j \in Nat, DemoQueued(k, j)'
      PROVE  DemoQueued(k, j) /\ queue'[k] = queue[k]
  <2>1. queue'[k] = <<>> \/ queue'[k] = queue[k]
      BY <1>1
  <2>2. j \in 1 .. Len(queue'[k]) /\ queue'[k][j].from = "demo"
      BY <1>3 DEF DemoQueued
  <2>3. queue'[k] # <<>>
      BY <2>2
  <2>4. queue'[k] = queue[k]
      BY <2>1, <2>3
  <2> QED
      BY <2>2, <2>4 DEF DemoQueued
<1>4. Quiet => Quiet'
    BY <1>1, <1>2, <1>3 DEF Quiet
<1>5. ASSUME InFlight(s) PROVE InFlight(s)'
  <2>1. ASSUME NEW k \in Listeners, NEW j \in Nat, DemoQueued(k, j)'
        PROVE  /\ IsRequest(s, queue'[k][j].body) /\ replies' = <<>>
               /\ \A k2 \in Listeners, j2 \in Nat : DemoQueued(k2, j2)' => k2 = k /\ j2 = j
    <3>1. DemoQueued(k, j) /\ queue'[k] = queue[k]
        BY <1>3, <2>1
    <3>2. /\ IsRequest(s, queue[k][j].body) /\ replies = <<>>
          /\ \A k2 \in Listeners, j2 \in Nat : DemoQueued(k2, j2) => k2 = k /\ j2 = j
        BY <1>5, <3>1 DEF InFlight
    <3> QED
        BY <1>1, <1>3, <3>1, <3>2
  <2> QED
      BY <1>1, <1>2, <1>5, <2>1 DEF InFlight
<1> QED
    BY <1>4, <1>5

\* The node does with the demo's request what it should, and only once.
LEMMA NodeFlight ==
    ASSUME Typed, MutexHeld, NodeStep, NEW s \in 1 .. 5
    PROVE  /\ Quiet => Quiet'
           /\ InFlight(s) => InFlight(s)'
<1>1. CASE Main \/ (\E l \in Listeners : Bind(l)) \/ Working
  <2>1. queue' = queue /\ replies' = replies /\ work' = work
      BY <1>1 DEF Main, Bind, Working
  <2>2. NothingNewServed
      BY <2>1 DEF NothingNewServed, DemoServed
  <2> QED
      BY <2>1, <2>2, QueuesKept
<1>2. ASSUME NEW l \in Listeners, RateLimited(l)
      PROVE  (Quiet => Quiet') /\ (InFlight(s) => InFlight(s)')
  <2>1. /\ queue[l] # <<>> /\ Consume(l) /\ Head(queue[l]).from # "demo"
        /\ replies' = replies /\ work' = work
      BY <1>2 DEF RateLimited
  <2>2. NothingNewServed
      BY <2>1 DEF NothingNewServed, DemoServed
  <2> QED
      BY <2>1, <2>2, ConsumeOther
<1>3. CASE Locking \/ \E ok \in BOOLEAN : Verified(ok)
  <2>1. work \in WorkItems /\ queue' = queue /\ replies' = replies
      BY <1>3 DEF Locking, Verified, Typed
  <2>2. work'.msg = work.msg /\ work # None
    <3>1. CASE Locking
        BY <2>1, <3>1 DEF Locking, WorkItems
    <3>2. CASE \E ok \in BOOLEAN : Verified(ok)
        BY <2>1, <3>2 DEF Verified, WorkItems
    <3> QED
        BY <1>3, <3>1, <3>2
  <2>3. NothingNewServed
      BY <2>2 DEF NothingNewServed, DemoServed
  <2> QED
      BY <2>1, <2>3, QueuesKept
<1> QED
    BY <1>1, <1>2, <1>3, ApiStepCases, AnsweringFlight, LookupFlight, TakeFlight, PanicFlight
       DEF NodeStep

\* The demo sends a request to the one listener at its address, if there is one.
LEMMA SendFlight ==
    ASSUME Typed, Bound, Quiet, DemoSend
    PROVE  InFlight(step)'
<1> DEFINE m == [body |-> DemoRequest(step), from |-> "demo", arrived |-> now,
                 ahead |-> RegistersAhead]
           addr == DemoAddr[step]
<1>1. /\ step \in 1 .. 5 /\ Send(addr, DemoRequest(step), "demo")
      /\ UNCHANGED <<step, work, replies>>
    BY DEF DemoSend
<1>2. /\ DemoRequest(step) \in Bodies
      /\ DemoRequest(step).proto = ProtoOf[step] /\ DemoRequest(step).kind = KindOf[step]
    BY <1>1, DemoRequestFacts
<1>3. /\ m \in Datagrams
      /\ \A l \in Listeners :
            \/ queue'[l] = queue[l]
            \/ tasks[l] = "up" /\ addr \in Covers[args[l]] /\ queue'[l] = Append(queue[l], m)
    BY <1>1, <1>2, SendFacts
<1>4. m.body = DemoRequest(step)
    OBVIOUS
<1> HIDE DEF m, addr
<1>5. ASSUME NEW k \in Listeners, NEW j \in Nat, DemoQueued(k, j)'
      PROVE  /\ tasks[k] = "up" /\ addr \in Covers[args[k]]
             /\ j = Len(queue[k]) + 1 /\ queue'[k][j] = m
  <2>1. j \in 1 .. Len(queue'[k]) /\ queue'[k][j].from = "demo"
      BY <1>5 DEF DemoQueued
  <2>2. ~ DemoQueued(k, j)
      BY DEF Quiet
  <2>3. queue'[k] # queue[k]
      BY <2>1, <2>2 DEF DemoQueued
  <2>4. tasks[k] = "up" /\ addr \in Covers[args[k]] /\ queue'[k] = Append(queue[k], m)
      BY <1>3, <2>3
  <2>5. queue[k] \in Seq(Datagrams)
      BY DEF Typed
  <2>6. /\ Len(Append(queue[k], m)) = Len(queue[k]) + 1
        /\ \A i \in 1 .. Len(queue[k]) : Append(queue[k], m)[i] = queue[k][i]
        /\ Append(queue[k], m)[Len(queue[k]) + 1] = m
      BY <1>3, <2>5, AppendFacts
  <2>7. j \in 1 .. Len(queue[k]) + 1
    <3>1. Len(queue'[k]) = Len(Append(queue[k], m))
        BY <2>4, Zenon
    <3> QED
        BY <2>1, <2>6, <3>1
  <2>8. j \notin 1 .. Len(queue[k])
    <3>1. ASSUME j \in 1 .. Len(queue[k]) PROVE FALSE
      <4>1. queue[k][j].from = "demo"
          BY <2>1, <2>4, <2>6, <3>1
      <4> QED
          BY <2>2, <3>1, <4>1 DEF DemoQueued
    <3> QED
        BY <3>1
  <2>9. j = Len(queue[k]) + 1
      BY <2>5, <2>7, <2>8
  <2> QED
      BY <2>4, <2>6, <2>9
<1>6. \A l \in Listeners : \A k \in Listeners \ {l} :
          tasks[l] = "up" /\ tasks[k] = "up" => Covers[args[l]] \cap Covers[args[k]] = {}
    BY DEF Bound
<1>7. ~ DemoServed' /\ replies' = <<>>
    BY <1>1 DEF Quiet, DemoServed
<1>8. ASSUME NEW k \in Listeners, NEW j \in Nat, DemoQueued(k, j)'
      PROVE  /\ IsRequest(step', queue'[k][j].body)
             /\ \A k2 \in Listeners, j2 \in Nat : DemoQueued(k2, j2)' => k2 = k /\ j2 = j
  <2>1. IsRequest(step', queue'[k][j].body)
      BY <1>1, <1>2, <1>4, <1>5, <1>8 DEF IsRequest
  <2>2. ASSUME NEW k2 \in Listeners, NEW j2 \in Nat, DemoQueued(k2, j2)'
        PROVE  k2 = k /\ j2 = j
      BY <1>5, <1>6, <1>8, <2>2
  <2> QED
      BY <2>1, <2>2
<1> QED
    BY <1>7, <1>8 DEF InFlight

\* The other client's datagrams are not the demo's.
LEMMA OtherFlight ==
    ASSUME Typed, OtherSends, NEW s
    PROVE  /\ Quiet => Quiet'
           /\ InFlight(s) => InFlight(s)'
<1>1. PICK o \in OtherDatagrams : Send(DemoAddr[o[1]], o[2], "other")
    BY DEF OtherSends
<1> DEFINE m == [body |-> o[2], from |-> "other", arrived |-> now, ahead |-> RegistersAhead]
<1>2. o[2] \in Bodies
    BY OtherDatagramsFacts
<1>3. /\ m \in Datagrams
      /\ \A l \in Listeners : queue'[l] = queue[l] \/ queue'[l] = Append(queue[l], m)
  <2> DEFINE addr == DemoAddr[o[1]]
             body == o[2]
             msg == [body |-> body, from |-> "other", arrived |-> now,
                        ahead |-> RegistersAhead]
  <2>1. body \in Bodies /\ Send(addr, body, "other") /\ "other" \in {"demo", "other"}
      BY <1>1, <1>2
  <2>2. m = msg
      OBVIOUS
  <2> HIDE DEF addr, body, m
  <2>3. /\ msg \in Datagrams
        /\ \A l \in Listeners :
              \/ queue'[l] = queue[l]
              \/ tasks[l] = "up" /\ addr \in Covers[args[l]] /\ queue'[l] = Append(queue[l], msg)
      BY <2>1, SendFacts
  <2> HIDE DEF msg
  <2> QED
      BY <2>2, <2>3
<1>4. m.from # "demo"
    OBVIOUS
<1> HIDE DEF m
<1>5. ASSUME NEW k \in Listeners, NEW j \in Nat, DemoQueued(k, j)'
      PROVE  DemoQueued(k, j) /\ queue'[k][j] = queue[k][j]
  <2>1. j \in 1 .. Len(queue'[k]) /\ queue'[k][j].from = "demo"
      BY <1>5 DEF DemoQueued
  <2>2. CASE queue'[k] = queue[k]
      BY <2>1, <2>2 DEF DemoQueued
  <2>3. CASE queue'[k] = Append(queue[k], m)
    <3>1. queue[k] \in Seq(Datagrams)
        BY DEF Typed
    <3>2. /\ Len(Append(queue[k], m)) = Len(queue[k]) + 1
          /\ \A i \in 1 .. Len(queue[k]) : Append(queue[k], m)[i] = queue[k][i]
          /\ Append(queue[k], m)[Len(queue[k]) + 1] = m
        BY <1>3, <3>1, AppendFacts
    <3>3. Len(queue'[k]) = Len(Append(queue[k], m))
        BY <2>3, Zenon
    <3>4. j # Len(queue[k]) + 1
        BY <1>4, <2>1, <2>3, <3>2
    <3>5. j \in 1 .. Len(queue[k])
        BY <2>1, <3>1, <3>2, <3>3, <3>4
    <3>6. queue'[k][j] = queue[k][j]
        BY <2>3, <3>2, <3>5
    <3> QED
        BY <2>1, <3>5, <3>6 DEF DemoQueued
  <2> QED
      BY <1>3, <2>2, <2>3
<1>6. work' = work /\ replies' = replies
    BY DEF OtherSends
<1>7. Quiet => Quiet'
    BY <1>5, <1>6 DEF Quiet, DemoServed
<1>8. InFlight(s) => InFlight(s)'
    BY <1>5, <1>6 DEF InFlight, DemoServed
<1> QED
    BY <1>7, <1>8

\* A sequence consists of its elements.
LEMMA SeqOfItself ==
    ASSUME NEW T, NEW s \in Seq(T)
    PROVE  s \in Seq({s[i] : i \in 1 .. Len(s)})
<1> DEFINE S == {s[i] : i \in 1 .. Len(s)}
<1>1. \A i \in 1 .. Len(s) : s[i] \in S
    OBVIOUS
<1> HIDE DEF S
<1>2. s \in Seq(S)
    BY <1>1
<1> QED
    BY <1>2 DEF S

\* What the demo waits for is in one place, whatever happens.
LEMMA FlightPreserved ==
    ASSUME Typed, MutexHeld, Bound, OneInFlight, [SystemNext]_systemVars
    PROVE  OneInFlight'
<1>1. step \in 0 .. 6
    BY DEF Typed
<1>2. ASSUME UNCHANGED <<step, sentAt>>,
             \A s \in 1 .. 5 : (Quiet => Quiet') /\ (InFlight(s) => InFlight(s)')
      PROVE  OneInFlight'
  <2>1. Quiet => Quiet'
    <3>1. 1 \in 1 .. 5
        OBVIOUS
    <3> QED
        BY <1>2, <3>1
  <2>2. \A s : InFlight(s)' /\ s = step' => InFlight(step)'
      OBVIOUS
  <2>3. step \in 1 .. 5 /\ InFlight(step) => InFlight(step)'
      BY <1>2, <2>2
  <2> QED
      BY <1>2, <2>1, <2>3 DEF OneInFlight
<1>3. CASE NodeStep /\ UNCHANGED <<demoVars, sent>>
    BY <1>2, <1>3, NodeFlight DEF demoVars
<1>4. CASE DemoSend
  <2>1. step \in 1 .. 5 /\ sentAt = None /\ step' = step /\ sentAt' = now
      BY <1>4 DEF DemoSend
  <2>2. Quiet
      BY <2>1 DEF OneInFlight
  <2>3. InFlight(step)'
      BY <1>4, <2>2, SendFlight
  <2>4. sentAt' # None
      BY <2>1, NoneAssumption DEF Typed
  <2> QED
      BY <2>1, <2>3, <2>4 DEF OneInFlight
<1>5. CASE DemoReceive
  <2>1. /\ step \in 1 .. 5 /\ sentAt # None /\ replies # <<>> /\ sentAt' = None
        /\ replies' = Tail(replies) /\ UNCHANGED <<queue, work>>
      BY <1>5 DEF DemoReceive, nodeVars
  <2>2. InFlight(step)
      BY <2>1 DEF OneInFlight
  <2>3. /\ replies = <<replies[1]>> /\ ~ DemoServed
        /\ \A l \in Listeners, i \in Nat : ~ DemoQueued(l, i)
      BY <2>1, <2>2 DEF InFlight
  <2>4. replies' = <<>>
    <3>1. \A r : Tail(<<r>>) = <<>>
        OBVIOUS
    <3> QED
        BY <2>1, <2>3, <3>1, Zenon
  <2>5. Quiet'
      BY <2>1, <2>3, <2>4 DEF Quiet, DemoQueued, DemoServed
  <2> QED
      BY <2>1, <2>5 DEF OneInFlight
<1>6. CASE DemoGivesUp
    BY <1>6 DEF DemoGivesUp, OneInFlight
<1>7. CASE OtherSends
    BY <1>2, <1>7, OtherFlight DEF OtherSends, demoVars
<1>8. CASE Tick \/ UNCHANGED systemVars
  <2>1. UNCHANGED <<step, sentAt, queue, work, replies>>
      BY <1>8 DEF Tick, systemVars, nodeVars, demoVars
  <2>2. NothingNewServed
      BY <2>1 DEF NothingNewServed, DemoServed
  <2> QED
      BY <1>2, <2>1, <2>2, QueuesKept
<1> QED
    BY <1>3, <1>4, <1>5, <1>6, <1>7, <1>8 DEF SystemNext

\* What the demo has read stays, and grows by the reply to its request.
LEMMA RepliesPreserved ==
    ASSUME Typed, OneInFlight, RepliesRead, [SystemNext]_systemVars
    PROVE  RepliesRead'
<1>1. CASE UNCHANGED <<step, answers>>
    BY <1>1 DEF RepliesRead
<1>2. CASE DemoGivesUp
    BY <1>2 DEF DemoGivesUp, RepliesRead
<1>3. CASE DemoReceive
  <2> DEFINE r == Head(replies)
  <2>1. /\ step \in 1 .. 5 /\ sentAt # None /\ replies # <<>>
        /\ \/ /\ step = 5 \/ r.proto = DemoRequest(step).proto
              /\ step' = step + 1 /\ answers' = Append(answers, r)
           \/ step' = 0 /\ answers' = answers
      BY <1>3 DEF DemoReceive
  <2>2. r = replies[1] /\ IsReply(step, r)
    <3>1. replies = <<replies[1]>> /\ IsReply(step, replies[1])
        BY <2>1 DEF OneInFlight, InFlight
    <3>2. \A x : Head(<<x>>) = x
        OBVIOUS
    <3>3. r = replies[1]
        BY <3>1, <3>2, Zenon
    <3> QED
        BY <3>1, <3>3
  <2>3. CASE step' = 0 /\ answers' = answers
      BY <2>3 DEF RepliesRead
  <2>4. CASE /\ step = 5 \/ r.proto = DemoRequest(step).proto
             /\ step' = step + 1 /\ answers' = Append(answers, r)
    <3>1. r.proto = ProtoOf[step]
      <4>1. CASE step = 5
        <5>1. ProtoOf[5] = "dns"
            BY DEF ProtoOf
        <5> QED
            BY <2>2, <4>1, <5>1 DEF IsReply
      <4>2. CASE step # 5
          BY <2>1, <2>4, <4>2, DemoRequestFacts
      <4> QED
          BY <4>1, <4>2
    <3>2. r.proto = "api" => r.of = KindOf[step]
        BY <2>2 DEF IsReply
    <3> HIDE DEF r
    <3> DEFINE T == {answers[i] : i \in 1 .. Len(answers)} \cup {r}
    <3>3. answers \in Seq(T) /\ r \in T
        BY DEF RepliesRead
    <3> HIDE DEF T
    <3>4. /\ answers' \in Seq(T) /\ Len(answers') = Len(answers) + 1
          /\ \A i \in 1 .. Len(answers) : answers'[i] = answers[i]
          /\ answers'[Len(answers) + 1] = r
      <4>1. /\ Append(answers, r) \in Seq(T) /\ Len(Append(answers, r)) = Len(answers) + 1
            /\ \A i \in 1 .. Len(answers) : Append(answers, r)[i] = answers[i]
            /\ Append(answers, r)[Len(answers) + 1] = r
          BY <3>3, AppendFacts
      <4> QED
          BY <2>4, <4>1, Zenon
    <3>5. Len(answers) = step - 1
        BY <2>1 DEF RepliesRead
    <3>6. answers' \in Seq({answers'[i] : i \in 1 .. Len(answers')})
        BY <3>4, SeqOfItself
    <3>7. ASSUME NEW i \in 1 .. Len(answers')
          PROVE  answers'[i].proto = ProtoOf[i] /\ (answers'[i].proto = "api" => answers'[i].of = KindOf[i])
      <4>1. CASE i \in 1 .. Len(answers)
          BY <3>4, <4>1 DEF RepliesRead
      <4>2. CASE i \notin 1 .. Len(answers)
        <5>1. i = step /\ answers'[i] = r
            BY <2>1, <3>4, <3>5, <4>2
        <5> QED
            BY <3>1, <3>2, <5>1
      <4> QED
          BY <4>1, <4>2
    <3>8. Len(answers') <= 5 /\ Len(answers') = step' - 1
        BY <2>1, <2>4, <3>4, <3>5
    <3> QED
        BY <3>6, <3>7, <3>8 DEF RepliesRead
  <2> QED
      BY <2>1, <2>3, <2>4
<1>4. CASE ~ DemoReceive /\ ~ DemoGivesUp
    BY <1>1, <1>4 DEF SystemNext, DemoSend, OtherSends, Tick, systemVars, demoVars
<1> QED
    BY <1>2, <1>3, <1>4

\* Nothing is in flight to begin with.
LEMMA InitFlight == SystemInit => OneInFlight /\ RepliesRead
<1> SUFFICES ASSUME SystemInit PROVE OneInFlight /\ RepliesRead
    OBVIOUS
<1>1. /\ step = 1 /\ sentAt = None /\ answers = <<>> /\ work = None /\ replies = <<>>
      /\ \A l \in Listeners : queue[l] = <<>>
    BY DEF SystemInit, NodeInit
<1>2. Quiet
    BY <1>1 DEF Quiet, DemoQueued, DemoServed
<1>3. OneInFlight
    BY <1>1, <1>2 DEF OneInFlight
<1>4. RepliesRead
    BY <1>1 DEF RepliesRead
<1> QED
    BY <1>3, <1>4

\* Each response the demo reads is the one to the request it has just sent: it gives
\* up for good when one is late, so no late response meets the next request.
THEOREM ResponsesMatch == SystemSpec => []DemoAnswersMatch
<1> DEFINE I == Typed /\ MutexHeld /\ Bound /\ OneInFlight /\ RepliesRead
<1>1. SystemInit => I
    BY InitTyped, InitBound, InitFlight
<1>2. I /\ [SystemNext]_systemVars => I'
    BY SystemTyped, MutexPreserved, BoundPreserved, FlightPreserved, RepliesPreserved
<1>3. I => DemoAnswersMatch
  <2> SUFFICES ASSUME Typed, RepliesRead, NEW i \in 1 .. Len(answers)
               PROVE  /\ answers[i].proto = DemoRequest(i).proto
                      /\ answers[i].proto = "api" => answers[i].of = DemoRequest(i).kind
      BY DEF DemoAnswersMatch
  <2>1. i \in 1 .. 5
      BY DEF RepliesRead
  <2> QED
      BY <2>1, DemoRequestFacts DEF RepliesRead
<1> QED
    BY <1>1, <1>2, <1>3, PTL DEF SystemSpec

\* The types of the whole system hold at every moment, whatever the command line and
\* however many datagrams come: no queue outgrows its buffer, and a request is locked
\* in the client API exactly while the registry's mutex is held.
THEOREM NodeTypeCorrect == SystemSpec => []SystemTypeOK
<1> DEFINE I == IInv /\ Typed /\ MutexHeld
<1>1. SystemInit => I
  <2>1. SystemInit => IInv
      BY InitEstablishes DEF SystemInit, NodeInit
  <2> QED
      BY <2>1, InitTyped
<1>2. I /\ [SystemNext]_systemVars => I'
    BY SystemTyped, MutexPreserved, SystemStepsRegistry, NextPreserves
<1>3. I => SystemTypeOK
  <2>1. IInv => TypeOK
      BY DEF IInv
  <2> QED
      BY <2>1 DEF Typed, MutexHeld, Stages, SystemTypeOK
<1> QED
    BY <1>1, <1>2, <1>3, PTL DEF SystemSpec

-----------------------------------------------------------------------------
(* How long a client request waits                                         *)

\* Verifications one after the other.
LEMMA Multiples ==
    ASSUME NEW m \in Nat
    PROVE  /\ m * 0 = 0
           /\ \A j \in Nat : m * j \in Nat /\ m * (j + 1) = m * j + m
           /\ \A j, k \in Nat : j <= k => m * j <= m * k
<1>1. m * 0 = 0 /\ \A j \in Nat : m * j \in Nat /\ m * (j + 1) = m * j + m
    OBVIOUS
<1>2. ASSUME NEW j \in Nat, NEW k \in Nat, j <= k PROVE m * j <= m * k
  <2>1. k - j \in Nat /\ m * (k - j) \in Nat
      BY <1>2
  <2>2. m * k = m * j + m * (k - j)
      OBVIOUS
  <2> QED
      BY <2>1, <2>2
<1> QED
    BY <1>1, <1>2

\* A datagram with fewer Registers in front of it, or whose verification is over,
\* has waited no longer than it may.
LEMMA WaitedFor ==
    ASSUME NEW m \in Datagrams, NEW a \in Nat, NEW b \in Nat, NEW s \in Nat, NEW r \in Nat,
           NEW t \in Nat, Waited(m, a, s, t), b <= a,
           s <= r \/ (b < a /\ s <= MaxVerify)
    PROVE  Waited(m, b, r, t)
<1>1. m.ahead \in Nat /\ m.arrived \in Nat /\ MaxVerify \in Nat
    BY DemoBoundsAssumption DEF Datagrams
<1>2. a <= m.ahead /\ t - m.arrived <= MaxVerify * (m.ahead - a) + s
    BY DEF Waited
<1> DEFINE j == m.ahead - a
           k == m.ahead - b
<1>3. j \in Nat /\ k \in Nat /\ j <= k /\ (b < a => j + 1 <= k) /\ b <= m.ahead
    BY <1>1, <1>2
<1>4. t - m.arrived <= MaxVerify * j + s
    BY <1>2
<1>5. t - m.arrived \in Int
    BY <1>1
<1> SUFFICES t - m.arrived <= MaxVerify * k + r
    BY <1>3 DEF Waited
<1> HIDE DEF j, k
<1>6. MaxVerify * j \in Nat /\ MaxVerify * k \in Nat
    BY <1>1, <1>3, Multiples
<1>7. CASE s <= r
  <2>1. MaxVerify * j <= MaxVerify * k
      BY <1>1, <1>3, Multiples
  <2> QED
      BY <1>4, <1>5, <1>6, <1>7, <2>1
<1>8. CASE b < a /\ s <= MaxVerify
  <2>1. MaxVerify * (j + 1) = MaxVerify * j + MaxVerify
      BY <1>1, <1>3, Multiples
  <2>2. MaxVerify * (j + 1) <= MaxVerify * k
      BY <1>1, <1>3, <1>8, Multiples
  <2> QED
      BY <1>1, <1>4, <1>5, <1>6, <1>8, <2>1, <2>2
<1> QED
    BY <1>7, <1>8

\* Counting the Registers of a queue from its head.
LEMMA CountFacts ==
    ASSUME NEW q
    PROVE  /\ \A n \in Nat : Count(q, n) \in Nat
           /\ Count(q, 0) = 0
           /\ \A n \in Nat : Count(q, n + 1) =
                Count(q, n) + (IF IsRegister(q[n + 1]) THEN 1 ELSE 0)
<1> DEFINE R(n) == {j \in 1 .. n : IsRegister(q[j])}
<1>1. \A n \in Nat : IsFiniteSet(R(n)) /\ Cardinality(R(n)) \in Nat
  <2> SUFFICES ASSUME NEW n \in Nat PROVE IsFiniteSet(R(n)) /\ Cardinality(R(n)) \in Nat
      OBVIOUS
  <2>1. IsFiniteSet(1 .. n)
      BY FS_Interval
  <2> QED
      BY <2>1, FS_Subset, FS_CardinalityType
<1>2. Count(q, 0) = 0
  <2>1. R(0) = {}
      OBVIOUS
  <2>2. Cardinality({}) = 0
      BY FS_EmptySet
  <2> QED
      BY <2>1, <2>2 DEF Count
<1>3. ASSUME NEW n \in Nat
      PROVE  Count(q, n + 1) = Count(q, n) + (IF IsRegister(q[n + 1]) THEN 1 ELSE 0)
  <2>1. CASE IsRegister(q[n + 1])
    <3>1. R(n + 1) = R(n) \cup {n + 1} /\ n + 1 \notin R(n)
        BY <2>1
    <3> HIDE DEF R
    <3>2. Cardinality(R(n) \cup {n + 1}) = Cardinality(R(n)) + 1
        BY <1>1, <3>1, FS_AddElement
    <3>3. Cardinality(R(n + 1)) = Cardinality(R(n)) + 1
        BY <3>1, <3>2
    <3> USE DEF R
    <3> QED
        BY <2>1, <3>3 DEF Count
  <2>2. CASE ~ IsRegister(q[n + 1])
    <3>1. R(n + 1) = R(n)
        BY <2>2
    <3>2. Count(q, n) \in Nat
        BY <1>1 DEF Count
    <3> QED
        BY <2>2, <3>1, <3>2 DEF Count
  <2> QED
      BY <2>1, <2>2
<1> QED
    BY <1>1, <1>2, <1>3 DEF Count

\* What is left when the head of a queue is taken up has one Register less in front
\* of it, if the head was one.
LEMMA CountTail ==
    ASSUME NEW q \in Seq(Datagrams), q # <<>>, NEW n \in 0 .. Len(q) - 1
    PROVE  Count(q, n + 1) = Count(Tail(q), n) + (IF IsRegister(q[1]) THEN 1 ELSE 0)
<1> DEFINE one(m) == IF IsRegister(m) THEN 1 ELSE 0
           N == {k \in Nat : k <= Len(q) - 1 => Count(q, k + 1) = Count(Tail(q), k) + one(q[1])}
<1>1. /\ Len(q) \in Nat \ {0}
      /\ \A i \in 1 .. Len(q) - 1 : Tail(q)[i] = q[i + 1]
    BY TailFacts
<1>2. /\ \A k \in Nat : Count(q, k) \in Nat /\ Count(Tail(q), k) \in Nat
      /\ Count(q, 0) = 0 /\ Count(Tail(q), 0) = 0
      /\ \A k \in Nat : Count(q, k + 1) = Count(q, k) + one(q[k + 1])
      /\ \A k \in Nat : Count(Tail(q), k + 1) = Count(Tail(q), k) + one(Tail(q)[k + 1])
    BY CountFacts
<1>3. \A m : one(m) \in Nat
    OBVIOUS
<1> HIDE DEF one
<1>4. 0 \in N
    BY <1>2, <1>3
<1>5. ASSUME NEW k \in Nat, k \in N PROVE k + 1 \in N
  <2> SUFFICES ASSUME k + 1 <= Len(q) - 1
               PROVE  Count(q, k + 2) = Count(Tail(q), k + 1) + one(q[1])
      OBVIOUS
  <2>1. Count(q, k + 1) = Count(Tail(q), k) + one(q[1])
      BY <1>1, <1>5
  <2>2. Tail(q)[k + 1] = q[k + 2]
      BY <1>1
  <2>3. Count(q, k + 2) = Count(q, k + 1) + one(q[k + 2])
    <3>1. k + 1 \in Nat /\ (k + 1) + 1 = k + 2
        OBVIOUS
    <3> QED
        BY <1>2, <3>1
  <2>4. Count(Tail(q), k + 1) = Count(Tail(q), k) + one(q[k + 2])
      BY <1>2, <2>2
  <2>5. Count(Tail(q), k) \in Nat /\ one(q[1]) \in Nat /\ one(q[k + 2]) \in Nat
      BY <1>2, <1>3
  <2>6. \A x, y, z \in Nat : (x + y) + z = (x + z) + y
      OBVIOUS
  <2> QED
      BY <2>1, <2>3, <2>4, <2>5, <2>6
<1>6. Nat \subseteq N
  <2> HIDE DEF N
  <2> QED
      BY <1>4, <1>5, SetInduction
<1> QED
    BY <1>1, <1>6 DEF one

\* Adding a datagram leaves those in front of it as they are.
LEMMA CountAppend ==
    ASSUME NEW q \in Seq(Datagrams), NEW m \in Datagrams, NEW n \in 0 .. Len(q)
    PROVE  Count(Append(q, m), n) = Count(q, n)
<1>1. \A i \in 1 .. Len(q) : Append(q, m)[i] = q[i]
    BY AppendFacts
<1>2. {j \in 1 .. n : IsRegister(Append(q, m)[j])} = {j \in 1 .. n : IsRegister(q[j])}
    BY <1>1
<1> QED
    BY <1>2 DEF Count

\* The head of the queue is taken up: those behind it wait for its verification
\* instead, if it is a Register, or for one less.
LEMMA TailWaited ==
    ASSUME NEW q \in Seq(Datagrams), q # <<>>, NEW t \in Nat, QueueWaited(q, 0, 0, t),
           NEW v \in {0, 1}, v = 1 => IsRegister(q[1])
    PROVE  QueueWaited(Tail(q), v, 0, t)
<1>1. /\ Len(q) \in Nat \ {0} /\ Len(Tail(q)) = Len(q) - 1
      /\ \A i \in 1 .. Len(q) - 1 : Tail(q)[i] = q[i + 1]
    BY TailFacts
<1> SUFFICES ASSUME NEW i \in 1 .. Len(Tail(q))
             PROVE  Waited(Tail(q)[i], Count(Tail(q), i - 1) + v, 0, t)
    BY DEF QueueWaited
<1>2. i \in Nat /\ i + 1 \in 1 .. Len(q) /\ i - 1 \in Nat /\ i - 1 \in 0 .. Len(q) - 1 /\ (i - 1) + 1 = i
      /\ (i + 1) - 1 = i
    BY <1>1
<1>3. Count(q, i) = Count(Tail(q), i - 1) + (IF IsRegister(q[1]) THEN 1 ELSE 0)
    BY <1>2, CountTail
<1>4. Waited(q[i + 1], Count(q, (i + 1) - 1) + 0, 0, t)
    BY <1>2 DEF QueueWaited
<1> DEFINE a == Count(q, i)
           b == Count(Tail(q), i - 1) + v
           m == q[i + 1]
<1>5. a \in Nat /\ Count(Tail(q), i - 1) \in Nat
  <2>1. \A n \in Nat : Count(q, n) \in Nat
      BY CountFacts
  <2>2. \A n \in Nat : Count(Tail(q), n) \in Nat
      BY CountFacts
  <2> QED
      BY <1>2, <2>1, <2>2
<1>6. b \in Nat /\ b <= a
    BY <1>3, <1>5
<1>7. m \in Datagrams /\ Tail(q)[i] = m
    BY <1>1, <1>2
<1>8. Waited(m, a, 0, t)
  <2>1. Count(q, (i + 1) - 1) + 0 = a
      BY <1>2, <1>5
  <2> QED
      BY <1>4, <2>1
<1>9. Waited(m, b, 0, t)
  <2> HIDE DEF a, b, m
  <2> QED
      BY <1>5, <1>6, <1>7, <1>8, WaitedFor
<1> QED
    BY <1>7, <1>9

\* A verification ends within its time.
LEMMA VerifiedWaited ==
    ASSUME NEW q \in Seq(Datagrams), NEW t \in Nat, NEW s \in 0 .. MaxVerify,
           QueueWaited(q, 1, s, t)
    PROVE  QueueWaited(q, 0, 0, t)
<1> SUFFICES ASSUME NEW i \in 1 .. Len(q) PROVE Waited(q[i], Count(q, i - 1) + 0, 0, t)
    BY DEF QueueWaited
<1> DEFINE a == Count(q, i - 1) + 1
           b == Count(q, i - 1) + 0
           m == q[i]
<1>1. i - 1 \in Nat /\ m \in Datagrams
    OBVIOUS
<1>2. Count(q, i - 1) \in Nat
    BY <1>1, CountFacts
<1>3. a \in Nat /\ b \in Nat /\ b < a /\ s \in Nat /\ s <= MaxVerify
    BY <1>2, DemoBoundsAssumption
<1>4. Waited(m, a, s, t)
    BY DEF QueueWaited
<1> HIDE DEF a, b, m
<1>5. Waited(m, b, 0, t)
    BY <1>1, <1>3, <1>4, WaitedFor
<1> QED
    BY <1>5 DEF b, m

\* A datagram joins the queue.
LEMMA AppendWaited ==
    ASSUME NEW q \in Seq(Datagrams), NEW t \in Nat, NEW s \in Nat, NEW v \in {0, 1},
           QueueWaited(q, v, s, t), NEW m \in Datagrams,
           m.ahead = Count(q, Len(q)) + v, m.arrived = t
    PROVE  QueueWaited(Append(q, m), v, s, t)
<1> DEFINE p == Append(q, m)
<1>1. /\ Len(p) = Len(q) + 1 /\ Len(q) \in Nat
      /\ \A i \in 1 .. Len(q) : p[i] = q[i]
      /\ p[Len(q) + 1] = m
    BY AppendFacts
<1>2. \A n \in 0 .. Len(q) : Count(p, n) = Count(q, n)
    BY CountAppend
<1> HIDE DEF p
<1> SUFFICES ASSUME NEW i \in 1 .. Len(p) PROVE Waited(p[i], Count(p, i - 1) + v, s, t)
    BY DEF QueueWaited, p
<1>3. Count(p, i - 1) = Count(q, i - 1)
    BY <1>1, <1>2
<1>4. CASE i \in 1 .. Len(q)
    BY <1>1, <1>3, <1>4 DEF QueueWaited
<1>5. CASE i = Len(q) + 1
  <2>1. p[i] = m /\ Count(p, i - 1) + v = m.ahead
    <3>1. i - 1 = Len(q)
        BY <1>1, <1>5
    <3> QED
        BY <1>1, <1>3, <1>5, <3>1
  <2>2. m.ahead \in Nat
      BY DEF Datagrams
  <2>3. m.ahead - m.ahead = 0 /\ t - m.arrived = 0 /\ MaxVerify * 0 = 0
      BY <2>2, DemoBoundsAssumption, Multiples
  <2> QED
      BY <2>1, <2>2, <2>3 DEF Waited
<1> QED
    BY <1>1, <1>4, <1>5

\* Time passes while a verification is under way.
LEMMA TickWaited ==
    ASSUME NEW q \in Seq(Datagrams), NEW t \in Nat, NEW s \in Nat, NEW v \in {0, 1},
           QueueWaited(q, v, s, t)
    PROVE  QueueWaited(q, v, s + 1, t + 1)
<1> SUFFICES ASSUME NEW i \in 1 .. Len(q)
             PROVE  Waited(q[i], Count(q, i - 1) + v, s + 1, t + 1)
    BY DEF QueueWaited
<1> DEFINE a == Count(q, i - 1) + v
           j == q[i].ahead - a
<1>1. i - 1 \in Nat /\ q[i] \in Datagrams
    OBVIOUS
<1>2. a \in Nat
  <2>1. Count(q, i - 1) \in Nat
      BY <1>1, CountFacts
  <2> QED
      BY <2>1
<1>3. q[i].ahead \in Nat /\ q[i].arrived \in Nat
    BY <1>1 DEF Datagrams
<1>4. a <= q[i].ahead /\ t - q[i].arrived <= MaxVerify * j + s
    BY DEF QueueWaited, Waited
<1>5. j \in Nat
    BY <1>2, <1>3, <1>4
<1> HIDE DEF a
<1>6. MaxVerify * j \in Nat
  <2> HIDE DEF j
  <2> QED
      BY <1>5, DemoBoundsAssumption, Multiples
<1>7. (t + 1) - q[i].arrived <= MaxVerify * j + (s + 1)
  <2> HIDE DEF j
  <2> QED
      BY <1>3, <1>4, <1>6
<1> QED
    BY <1>4, <1>7 DEF Waited, a

\* What the client API counts when a datagram comes.
LEMMA RegistersAheadCount ==
    RegistersAhead = Count(queue["api"], Len(queue["api"])) + Verifications
BY DEF RegistersAhead, Count, IsRegister, Verifications, Verifying

\* The verification under way has taken no longer than it may.
LEMMA SpentFacts ==
    ASSUME Typed, WaitAccounted
    PROVE  /\ Spent \in 0 .. MaxVerify /\ Verifications \in {0, 1} /\ now \in Nat
           /\ queue["api"] \in Seq(Datagrams)
           /\ ~ Verifying => Spent = 0 /\ Verifications = 0
           /\ Verifying => Spent = now - work.since /\ Verifications = 1
<1>1. now \in Nat /\ queue["api"] \in Seq(Datagrams)
    BY FreshnessAssumption DEF Typed, Listeners
<1>2. CASE Verifying
  <2>1. work \in WorkItems /\ work.since \in Nat
      BY <1>2 DEF Typed, Verifying, WorkItems
  <2>2. work.since <= now /\ now - work.since <= MaxVerify
      BY <1>2 DEF WaitAccounted, WorkWaited, Verifying
  <2>3. Spent = now - work.since /\ Verifications = 1
      BY <1>2 DEF Spent, Verifications
  <2> QED
      BY <1>1, <1>2, <2>1, <2>2, <2>3, DemoBoundsAssumption
<1>3. CASE ~ Verifying
    BY <1>1, <1>3, DemoBoundsAssumption DEF Spent, Verifications
<1> QED
    BY <1>2, <1>3

\* A step that leaves the client API's queue and its request in hand as they are.
LEMMA WaitUnchanged ==
    ASSUME WaitAccounted, UNCHANGED <<now, queue["api"], work>>,
           process' = "starting" => process = "starting",
           tasks["api"]' = tasks["api"]
    PROVE  WaitAccounted'
<1>1. Spent' = Spent /\ Verifications' = Verifications
    BY DEF Spent, Verifications, Verifying
<1>2. QueueWaited(queue["api"], Verifications, Spent, now)'
    BY <1>1, Zenon DEF WaitAccounted, QueueWaited, Waited, Count
<1> QED
    BY <1>2 DEF WaitAccounted, WorkWaited

\* The client API takes up a datagram.
LEMMA TakeWaits ==
    ASSUME Typed, WaitAccounted, ApiTake
    PROVE  WaitAccounted'
<1> DEFINE q == queue["api"]
           m == Head(queue["api"])
<1>1. /\ q \in Seq(Datagrams) /\ q # <<>> /\ work = None /\ now \in Nat
      /\ QueueWaited(q, 0, 0, now)
  <2>1. q # <<>> /\ work = None
      BY DEF ApiTake
  <2>2. ~ Verifying
      BY <2>1 DEF Verifying
  <2> QED
      BY <2>1, <2>2, SpentFacts DEF WaitAccounted
<1>2. m = q[1] /\ m \in Datagrams /\ queue'["api"] = Tail(q) /\ UNCHANGED <<now, daemon>>
  <2>1. m = q[1] /\ m \in Datagrams
      BY <1>1, TailFacts
  <2>2. Consume("api") /\ queue \in [Listeners -> Seq(Datagrams)] /\ "api" \in Listeners
      BY DEF ApiTake, Typed, Listeners
  <2>3. queue'["api"] = Tail(q)
      BY <2>2 DEF Consume
  <2>4. UNCHANGED <<now, daemon>>
      BY DEF ApiTake, vars
  <2> QED
      BY <2>1, <2>3, <2>4
<1>3. m.ahead \in Nat /\ m.arrived \in Nat /\ now - m.arrived <= MaxVerify * m.ahead
  <2>1. m.ahead \in Nat /\ m.arrived \in Nat
      BY <1>2 DEF Datagrams
  <2>2. Len(q) \in Nat \ {0} /\ 1 \in 1 .. Len(q)
      BY <1>1, TailFacts
  <2>3. Waited(q[1], Count(q, 1 - 1) + 0, 0, now)
      BY <1>1, <2>2 DEF QueueWaited
  <2>4. Count(q, 1 - 1) + 0 = 0
      BY CountFacts
  <2>5. Waited(m, 0, 0, now)
      BY <1>2, <2>3, <2>4
  <2> HIDE DEF m
  <2>6. m.ahead - 0 = m.ahead /\ MaxVerify * m.ahead \in Nat
      BY <2>1, DemoBoundsAssumption, Multiples
  <2> QED
      BY <1>1, <2>1, <2>5, <2>6 DEF Waited
<1>4. CASE m.body.proto # "api"
  <2>1. work' = None
      BY <1>4 DEF ApiTake
  <2>2. QueueWaited(Tail(q), 0, 0, now)
      BY <1>1, TailWaited
  <2>3. Spent' = 0 /\ Verifications' = 0
      BY <2>1 DEF Spent, Verifications, Verifying
  <2>4. QueueWaited(queue["api"], Verifications, Spent, now)'
      BY <1>2, <2>2, <2>3, Zenon DEF QueueWaited, Waited, Count
  <2>5. tasks["api"] = "up" /\ tasks' = tasks /\ process' = process
      BY <1>2 DEF ApiTake, daemon
  <2> QED
      BY <2>1, <2>4, <2>5 DEF WaitAccounted, WorkWaited
<1>5. CASE m.body.proto = "api"
  <2> DEFINE w == [msg |-> m, since |-> now, verified |-> TRUE,
                   phase |-> IF NeedsVerifier(m.body) THEN "verify" ELSE "ready"]
  <2>1. work' = w
      BY <1>5 DEF ApiTake
  <2>2. /\ work'.msg = m /\ work'.since = now
        /\ work'.phase = "verify" <=> NeedsVerifier(m.body)
      BY <2>1
  <2>3. work'.phase = "verify" => IsRegister(m)
      BY <2>2 DEF NeedsVerifier, IsRegister
  <2>4. Spent' = 0
    <3>1. now' = now
        BY <1>2
    <3> QED
        BY <1>1, <2>2, <3>1 DEF Spent
  <2>5. QueueWaited(Tail(q), Verifications', 0, now)
    <3>1. Verifications' \in {0, 1} /\ (Verifications' = 1 => IsRegister(q[1]))
        BY <1>2, <2>3 DEF Verifications, Verifying
    <3> QED
        BY <1>1, <3>1, TailWaited
  <2>6. QueueWaited(queue["api"], Verifications, Spent, now)'
      BY <1>2, <2>4, <2>5, Zenon DEF QueueWaited, Waited, Count
  <2>7. tasks["api"] = "up" /\ tasks' = tasks /\ process' = process
      BY <1>2 DEF ApiTake, daemon
  <2>8. WorkWaited'
    <3>1. now' = now /\ now - now = 0 /\ MaxVerify \in Nat
        BY <1>1, <1>2, DemoBoundsAssumption
    <3> QED
        BY <1>1, <1>3, <2>2, <2>3, <3>1 DEF WorkWaited, IsRegister
  <2> QED
      BY <2>6, <2>7, <2>8 DEF WaitAccounted
<1> QED
    BY <1>4, <1>5

\* The rate limiter drops a datagram while nothing is in hand.
LEMMA LimitWaits ==
    ASSUME Typed, WaitAccounted, NEW l \in Listeners, RateLimited(l)
    PROVE  WaitAccounted'
<1>1. /\ UNCHANGED <<now, daemon, work>> /\ Consume(l)
      /\ queue \in [Listeners -> Seq(Datagrams)] /\ "api" \in Listeners
    BY DEF RateLimited, Typed, Listeners, vars
<1>2. CASE l # "api"
  <2>1. queue'["api"] = queue["api"]
      BY <1>1, <1>2 DEF Consume
  <2> QED
      BY <1>1, <2>1, WaitUnchanged DEF daemon
<1>3. CASE l = "api"
  <2> DEFINE q == queue["api"]
  <2>1. q # <<>> /\ work = None /\ tasks["api"] = "up"
      BY <1>3 DEF RateLimited
  <2>2. /\ Spent = 0 /\ Verifications = 0 /\ Spent' = 0 /\ Verifications' = 0
        /\ q \in Seq(Datagrams) /\ now \in Nat
    <3>1. ~ Verifying /\ ~ Verifying'
        BY <1>1, <2>1 DEF Verifying
    <3> QED
        BY <3>1, SpentFacts DEF Spent, Verifications
  <2>3. queue'["api"] = Tail(q)
      BY <1>1, <1>3 DEF Consume
  <2>4. QueueWaited(Tail(q), 0, 0, now)
      BY <2>1, <2>2, TailWaited DEF WaitAccounted
  <2>5. QueueWaited(queue["api"], Verifications, Spent, now)'
      BY <1>1, <2>2, <2>3, <2>4, Zenon DEF QueueWaited, Waited, Count
  <2> QED
      BY <1>1, <2>1, <2>5 DEF WaitAccounted, WorkWaited, daemon
<1> QED
    BY <1>2, <1>3

\* A verification ends.
LEMMA VerifiedWaits ==
    ASSUME Typed, WaitAccounted, NEW ok \in BOOLEAN, Verified(ok)
    PROVE  WaitAccounted'
<1>1. /\ UNCHANGED <<now, daemon, queue>> /\ Verifying
      /\ work \in WorkItems /\ work' = [work EXCEPT !.phase = "ready", !.verified = ok]
    BY DEF Verified, Verifying, Typed, vars
<1>2. work'.phase = "ready" /\ work'.msg = work.msg /\ work'.since = work.since
    BY <1>1 DEF WorkItems
<1>3. Spent' = 0 /\ Verifications' = 0
    BY <1>2 DEF Spent, Verifications, Verifying
<1>4. QueueWaited(queue["api"], 0, 0, now)
    BY <1>1, SpentFacts, VerifiedWaited DEF WaitAccounted
<1>5. QueueWaited(queue["api"], Verifications, Spent, now)'
    BY <1>1, <1>3, <1>4, Zenon DEF QueueWaited, Waited, Count
<1>6. WorkWaited'
    BY <1>1, <1>2 DEF WaitAccounted, WorkWaited, Verifying
<1> QED
    BY <1>1, <1>5, <1>6 DEF WaitAccounted, daemon

\* What is verified goes on to the registry, or is answered: neither takes time.
LEMMA ServedWaits ==
    ASSUME Typed, WaitAccounted, Answering \/ Locking
    PROVE  WaitAccounted'
<1>1. UNCHANGED <<now, daemon, queue>> /\ work # None /\ ~ Verifying
    BY DEF Answering, Respond, Locking, Verifying
<1>2. ~ Verifying' /\ WorkWaited'
  <2>1. CASE Answering
    <3>1. work' = None
        BY <2>1 DEF Answering, Respond
    <3> QED
        BY <3>1 DEF Verifying, WorkWaited
  <2>2. CASE Locking
    <3>1. work \in WorkItems /\ work' = [work EXCEPT !.phase = "locked"]
        BY <2>2 DEF Locking, Typed
    <3>2. work'.phase = "locked" /\ work'.msg = work.msg /\ work'.since = work.since
        BY <3>1 DEF WorkItems
    <3> QED
        BY <1>1, <3>2 DEF WaitAccounted, Verifying, WorkWaited
  <2> QED
      BY <2>1, <2>2
<1>3. Spent = 0 /\ Verifications = 0 /\ Spent' = 0 /\ Verifications' = 0
    BY <1>1, <1>2 DEF Spent, Verifications
<1>4. QueueWaited(queue["api"], Verifications, Spent, now)'
    BY <1>1, <1>3, Zenon DEF WaitAccounted, QueueWaited, Waited, Count
<1> QED
    BY <1>1, <1>2, <1>4 DEF WaitAccounted, daemon

\* A panic closes the socket.
LEMMA PanicWaits ==
    ASSUME Typed, ApiPanic
    PROVE  WaitAccounted'
<1>1. /\ work' = None /\ queue'["api"] = <<>> /\ tasks'["api"] = "down"
    BY DEF ApiPanic, Typed, Listeners
<1>2. QueueWaited(queue["api"], Verifications, Spent, now)'
    BY <1>1 DEF QueueWaited
<1> QED
    BY <1>1, <1>2 DEF WaitAccounted, WorkWaited

\* Before the listeners are up nothing is in their queues.
LEMMA StartWaits ==
    ASSUME Typed, WaitAccounted, Main \/ \E l \in Listeners : Bind(l)
    PROVE  WaitAccounted'
<1>1. UNCHANGED <<now, queue, work>>
    BY DEF Main, Bind, vars
<1>2. /\ process' = "starting" => tasks'["api"] = "down"
      /\ tasks'["api"] # "up" => queue["api"] = <<>>
  <2>1. CASE Main
    <3>1. process' # "starting"
        BY <2>1 DEF Main
    <3>2. queue["api"] = <<>>
        BY <2>1 DEF Main, WaitAccounted
    <3> QED
        BY <3>1, <3>2
  <2>2. ASSUME NEW l \in Listeners, Bind(l)
        PROVE  /\ process' = "starting" => tasks'["api"] = "down"
               /\ tasks'["api"] # "up" => queue["api"] = <<>>
    <3>1. /\ tasks[l] = "unbound" /\ process' = process
          /\ l # "api" => tasks'["api"] = tasks["api"]
        BY <2>2 DEF Bind, Typed, Listeners
    <3>2. CASE l = "api"
        BY <3>1, <3>2 DEF WaitAccounted
    <3>3. CASE l # "api"
        BY <3>1, <3>3 DEF WaitAccounted
    <3> QED
        BY <3>2, <3>3
  <2> QED
      BY <2>1, <2>2
<1>3. Spent' = Spent /\ Verifications' = Verifications
    BY <1>1 DEF Spent, Verifications, Verifying
<1>4. QueueWaited(queue["api"], Verifications, Spent, now)'
    BY <1>1, <1>3, Zenon DEF WaitAccounted, QueueWaited, Waited, Count
<1> QED
    BY <1>1, <1>2, <1>4 DEF WaitAccounted, WorkWaited

\* A datagram is sent, to the client API or elsewhere.
LEMMA DatagramSent ==
    ASSUME Typed, DemoSend \/ OtherSends
    PROVE  \E m \in Datagrams :
             /\ m.arrived = now /\ m.ahead = RegistersAhead
             /\ \/ queue'["api"] = queue["api"]
                \/ tasks["api"] = "up" /\ queue'["api"] = Append(queue["api"], m)
<1>1. "api" \in Listeners
    BY DEF Listeners
<1>2. CASE DemoSend
  <2> DEFINE addr == DemoAddr[step]
             body == DemoRequest(step)
             m == [body |-> body, from |-> "demo", arrived |-> now, ahead |-> RegistersAhead]
  <2>1. step \in 1 .. 5 /\ Send(addr, body, "demo") /\ "demo" \in {"demo", "other"}
      BY <1>2 DEF DemoSend
  <2>2. body \in Bodies
      BY <2>1, DemoRequestFacts
  <2> HIDE DEF addr, body
  <2>3. /\ m \in Datagrams
        /\ \A l \in Listeners :
              \/ queue'[l] = queue[l]
              \/ tasks[l] = "up" /\ addr \in Covers[args[l]] /\ queue'[l] = Append(queue[l], m)
      BY <2>1, <2>2, SendFacts
  <2>4. m.arrived = now /\ m.ahead = RegistersAhead
      OBVIOUS
  <2> HIDE DEF m
  <2> QED
      BY <1>1, <2>3, <2>4
<1>3. CASE OtherSends
  <2>1. PICK o \in OtherDatagrams : Send(DemoAddr[o[1]], o[2], "other")
      BY <1>3 DEF OtherSends
  <2> DEFINE addr == DemoAddr[o[1]]
             body == o[2]
             m == [body |-> body, from |-> "other", arrived |-> now, ahead |-> RegistersAhead]
  <2>2. body \in Bodies /\ Send(addr, body, "other") /\ "other" \in {"demo", "other"}
      BY <2>1, OtherDatagramsFacts
  <2> HIDE DEF addr, body
  <2>3. /\ m \in Datagrams
        /\ \A l \in Listeners :
              \/ queue'[l] = queue[l]
              \/ tasks[l] = "up" /\ addr \in Covers[args[l]] /\ queue'[l] = Append(queue[l], m)
      BY <2>2, SendFacts
  <2>4. m.arrived = now /\ m.ahead = RegistersAhead
      OBVIOUS
  <2> HIDE DEF m
  <2> QED
      BY <1>1, <2>3, <2>4
<1> QED
    BY <1>2, <1>3

\* It has waited for nothing yet.
LEMMA SendWaits ==
    ASSUME Typed, WaitAccounted, DemoSend \/ OtherSends
    PROVE  WaitAccounted'
<1> DEFINE q == queue["api"]
<1>1. UNCHANGED <<now, daemon, work>>
    BY DEF DemoSend, OtherSends, vars
<1>2. PICK m \in Datagrams :
        /\ m.arrived = now /\ m.ahead = RegistersAhead
        /\ \/ queue'["api"] = q
           \/ tasks["api"] = "up" /\ queue'["api"] = Append(q, m)
    BY DatagramSent
<1>3. CASE queue'["api"] = q
    BY <1>1, <1>3, WaitUnchanged DEF daemon
<1>4. CASE tasks["api"] = "up" /\ queue'["api"] = Append(q, m)
  <2>1. m.arrived = now /\ m.ahead = Count(q, Len(q)) + Verifications
      BY <1>2, RegistersAheadCount
  <2>2. QueueWaited(Append(q, m), Verifications, Spent, now)
    <3>1. QueueWaited(q, Verifications, Spent, now) /\ Spent \in Nat
        BY SpentFacts DEF WaitAccounted
    <3> QED
        BY <2>1, <3>1, SpentFacts, AppendWaited
  <2>3. Spent' = Spent /\ Verifications' = Verifications
      BY <1>1 DEF Spent, Verifications, Verifying
  <2>4. QueueWaited(queue["api"], Verifications, Spent, now)'
      BY <1>1, <1>4, <2>2, <2>3, Zenon DEF QueueWaited, Waited, Count
  <2> QED
      BY <1>1, <1>4, <2>4 DEF WaitAccounted, WorkWaited, daemon
<1> QED
    BY <1>2, <1>3, <1>4

\* Time passes only while a verification is under way that has some left, or nothing
\* is in hand and nothing in the queue.
LEMMA TickWaits ==
    ASSUME Typed, WaitAccounted, Tick
    PROVE  WaitAccounted'
<1>1. /\ UNCHANGED <<daemon, queue, work>> /\ now' = now + 1 /\ ~ NodeBusy
      /\ queue["api"] \in Seq(Datagrams) /\ now \in Nat
    BY SpentFacts DEF Tick
<1>2. work # None =>
        Verifying /\ now < work.since + MaxVerify /\ work.since \in Nat
  <2> SUFFICES ASSUME work # None
               PROVE  Verifying /\ now < work.since + MaxVerify /\ work.since \in Nat
      OBVIOUS
  <2>1. work \in WorkItems
      BY DEF Typed
  <2>2. work.since \in Nat
      BY <2>1 DEF WorkItems
  <2>3. work.phase = "verify" /\ ~ (now >= work.since + MaxVerify)
      BY <1>1 DEF NodeBusy
  <2> QED
      BY <1>1, <2>2, <2>3, DemoBoundsAssumption DEF Verifying
<1>3. queue["api"] # <<>> => work # None
  <2>1. queue["api"] # <<>> => tasks["api"] = "up"
      BY DEF WaitAccounted
  <2>2. "api" \in Listeners \ {"gossip"}
      BY DEF Listeners
  <2> QED
      BY <1>1, <2>1, <2>2 DEF NodeBusy
<1>4. WorkWaited'
  <2> SUFFICES ASSUME work # None PROVE WorkWaited'
      BY <1>1 DEF WorkWaited
  <2>1. /\ work.since <= now /\ work.phase = "verify" /\ work.msg.body.kind = "register"
        /\ work.since - work.msg.arrived <= MaxVerify * work.msg.ahead
      BY <1>2 DEF WaitAccounted, WorkWaited, Verifying
  <2> QED
      BY <1>1, <1>2, <2>1, DemoBoundsAssumption DEF WorkWaited
<1>5. QueueWaited(queue["api"], Verifications, Spent, now)'
  <2>1. CASE queue["api"] = <<>>
      BY <1>1, <2>1 DEF QueueWaited
  <2>2. CASE queue["api"] # <<>>
    <3>1. work # None /\ Verifying /\ Verifying' /\ work' = work
        BY <1>1, <1>2, <1>3, <2>2 DEF Verifying
    <3>2. Spent' = Spent + 1 /\ Verifications' = Verifications
        BY <1>1, <1>2, <3>1 DEF Spent, Verifications
    <3>3. QueueWaited(queue["api"], Verifications, Spent + 1, now + 1)
      <4>1. QueueWaited(queue["api"], Verifications, Spent, now) /\ Spent \in Nat
          BY SpentFacts DEF WaitAccounted
      <4> QED
          BY <1>1, <4>1, SpentFacts, TickWaited
    <3> QED
        BY <1>1, <3>2, <3>3, Zenon DEF QueueWaited, Waited, Count
  <2> QED
      BY <2>1, <2>2
<1> QED
    BY <1>1, <1>4, <1>5 DEF WaitAccounted, daemon

\* A listener other than the client API serves its queue.
LEMMA LookupWaits ==
    ASSUME Typed, WaitAccounted, ResolverServe \/ DnsServe
    PROVE  WaitAccounted'
<1>1. queue'["api"] = queue["api"] /\ UNCHANGED <<now, daemon, work>>
    BY DEF ResolverServe, DnsServe, Consume, Typed, Listeners, vars
<1> QED
    BY <1>1, WaitUnchanged DEF daemon

\* Every step accounts for the time a request has waited.
LEMMA WaitPreserved ==
    ASSUME Typed, MutexHeld, WaitAccounted, [SystemNext]_systemVars
    PROVE  WaitAccounted'
<1>1. CASE NodeStep
  <2>1. CASE Main \/ \E l \in Listeners : Bind(l)
      BY <2>1, StartWaits
  <2>2. CASE \E l \in Listeners : RateLimited(l)
      BY <2>2, LimitWaits
  <2>3. CASE ApiTake
      BY <2>3, TakeWaits
  <2>4. CASE Answering \/ Locking
      BY <2>4, ServedWaits
  <2>5. CASE Working
      BY <2>5, WaitUnchanged DEF Working, daemon
  <2>6. CASE ApiPanic
      BY <2>6, PanicWaits
  <2>7. CASE \E ok \in BOOLEAN : Verified(ok)
      BY <2>7, VerifiedWaits
  <2>8. CASE ResolverServe \/ DnsServe
      BY <2>8, LookupWaits
  <2> QED
      BY <1>1, <2>1, <2>2, <2>3, <2>4, <2>5, <2>6, <2>7, <2>8, ApiStepCases DEF NodeStep
<1>2. CASE DemoSend \/ OtherSends
    BY <1>2, SendWaits
<1>3. CASE DemoReceive \/ DemoGivesUp \/ UNCHANGED systemVars
  <2>1. UNCHANGED <<now, daemon, queue, work>>
      BY <1>3 DEF DemoReceive, DemoGivesUp, systemVars, nodeVars, vars
  <2> QED
      BY <2>1, WaitUnchanged DEF daemon
<1>4. CASE Tick
    BY <1>4, TickWaits
<1> QED
    BY <1>1, <1>2, <1>3, <1>4 DEF SystemNext

\* Nothing waits to begin with.
LEMMA InitWaits == SystemInit => WaitAccounted
<1> SUFFICES ASSUME SystemInit PROVE WaitAccounted
    OBVIOUS
<1>1. queue["api"] = <<>> /\ work = None /\ tasks["api"] = "down"
    BY DEF SystemInit, NodeInit, Listeners
<1>2. QueueWaited(queue["api"], Verifications, Spent, now)
    BY <1>1 DEF QueueWaited
<1> QED
    BY <1>1, <1>2 DEF WaitAccounted, WorkWaited

\* A client request waits for the verifications of the Registers in front of it, each
\* as long as a verification may take, and for nothing else: not for other requests,
\* for lookups or for the registry's own work.
THEOREM WaitBounded == SystemSpec => []ApiWaitBounded
<1> DEFINE I == Typed /\ MutexHeld /\ WaitAccounted
<1>1. SystemInit => I
    BY InitTyped, InitWaits
<1>2. I /\ [SystemNext]_systemVars => I'
    BY SystemTyped, MutexPreserved, WaitPreserved
<1>3. I => ApiWaitBounded
  <2> SUFFICES ASSUME Typed, WaitAccounted PROVE ApiWaitBounded
      OBVIOUS
  <2>1. ASSUME NEW i \in 1 .. Len(queue["api"])
        PROVE  now - queue["api"][i].arrived <= MaxVerify * queue["api"][i].ahead
    <3> DEFINE m == queue["api"][i]
               n == Count(queue["api"], i - 1)
               a == n + Verifications
    <3>1. m \in Datagrams /\ i - 1 \in Nat
        BY SpentFacts
    <3>2. n \in Nat
        BY <3>1, CountFacts
    <3>3. Waited(m, a, Spent, now)
        BY DEF WaitAccounted, QueueWaited
    <3>4. /\ Spent \in Nat /\ Spent <= MaxVerify /\ a \in Nat /\ 0 <= a /\ now \in Nat
          /\ Spent <= 0 \/ 0 < a
      <4> HIDE DEF n
      <4>1. Verifications \in {0, 1} /\ Spent \in 0 .. MaxVerify /\ now \in Nat
            /\ (Spent = 0 \/ Verifications = 1)
          BY SpentFacts
      <4> QED
          BY <3>2, <4>1, DemoBoundsAssumption
    <3>5. Waited(m, 0, 0, now)
      <4> HIDE DEF m, a
      <4> QED
          BY <3>1, <3>3, <3>4, WaitedFor
    <3>6. m.ahead \in Nat /\ m.arrived \in Nat
        BY <3>1 DEF Datagrams
    <3> HIDE DEF m
    <3>7. m.ahead - 0 = m.ahead /\ MaxVerify * m.ahead \in Nat
        BY <3>6, DemoBoundsAssumption, Multiples
    <3>8. now - m.arrived <= MaxVerify * m.ahead
        BY <3>4, <3>5, <3>6, <3>7 DEF Waited
    <3> QED
        BY <3>8 DEF m
  <2>2. ASSUME work # None
        PROVE  now - work.msg.arrived <=
                 MaxVerify * (work.msg.ahead + IF work.msg.body.kind = "register" THEN 1 ELSE 0)
    <3> DEFINE one == IF work.msg.body.kind = "register" THEN 1 ELSE 0
               j == work.msg.ahead
               x == work.msg.arrived
               y == work.since
    <3>1. j \in Nat /\ x \in Nat /\ y \in Nat /\ now \in Nat /\ MaxVerify \in Nat
      <4>1. work \in WorkItems
          BY <2>2 DEF Typed
      <4>2. work.msg \in Datagrams /\ work.since \in Nat
          BY <4>1 DEF WorkItems
      <4> QED
          BY <4>2, SpentFacts, DemoBoundsAssumption DEF Datagrams
    <3>2. /\ y - x <= MaxVerify * j
          /\ (one = 1 /\ now - y <= MaxVerify) \/ (one = 0 /\ now - y <= 0)
        BY <2>2 DEF WaitAccounted, WorkWaited
    <3> HIDE DEF one, j, x, y
    <3>3. MaxVerify * j \in Nat /\ MaxVerify * (j + 1) = MaxVerify * j + MaxVerify /\ j + 0 = j
        BY <3>1, Multiples
    <3>4. now - x <= MaxVerify * (j + one)
      <4>1. CASE one = 1 /\ now - y <= MaxVerify
          BY <3>1, <3>2, <3>3, <4>1
      <4>2. CASE one = 0 /\ now - y <= 0
        <5>1. MaxVerify * (j + one) = MaxVerify * j
            BY <3>3, <4>2
        <5> QED
            BY <3>1, <3>2, <3>3, <4>2, <5>1
      <4> QED
          BY <3>2, <4>1, <4>2
    <3> QED
        BY <3>4 DEF one, j, x
  <2> QED
      BY <2>1, <2>2 DEF ApiWaitBounded
<1> QED
    BY <1>1, <1>2, <1>3, PTL DEF SystemSpec

-----------------------------------------------------------------------------
(* What a DNS lookup shows                                                 *)

\* What the node holds for a name are zone records.
LEMMA RecordsAtType ==
    ASSUME TypeOK, NEW text
    PROVE  RecordsAt(text) \in Seq(Record)
<1> DEFINE d == CHOOSE x \in Registered(text) : TRUE
<1>1. CASE Registered(text) = {}
    BY <1>1 DEF RecordsAt
<1>2. CASE Registered(text) # {}
  <2>1. d \in Registered(text)
      BY <1>2
  <2>2. d \in Domains /\ regs[d] # None
      BY <2>1 DEF Registered
  <2>3. regs[d].records \in Records
      BY <2>2 DEF TypeOK, Registration
  <2>4. RecordsAt(text) = RecordsOf[regs[d].records]
      BY <1>2 DEF RecordsAt
  <2> QED
      BY <2>3, <2>4, RecordsOfAssumption
<1> QED
    BY <1>1, <1>2

\* Whatever the registry holds, and whatever the message: a reader of the reply to a
\* query finds its identifier, type and class, the labels of its name, NXDOMAIN exactly
\* for names nobody holds, and in order exactly the records of the type asked for that have an encoding, as many
\* as the header announces.
THEOREM LookupsFaithful == SystemSpec => []DnsAnswerFaithful
<1>1. ASSUME TypeOK, NEW m \in DnsQueries, NEW q \in {ParseQuery(m)} \ {Malformed},
             NEW reply \in DnsReplies(m)
      PROVE  LET question == ReadLabels(reply, HeaderCells + 1)
                 wanted == Keep(RecordsAt(q.domain),
                                {r \in Record : /\ EncodeRdata(r) # Malformed
                                                /\ q.qtype \in {QtypeAny, RecordTypeCode[r.type]}})
                 Read(r) == [labels |-> Labels(q.domain), code |-> RecordTypeCode[r.type],
                             ttl |-> r.ttl, rdata |-> EncodeRdata(r)]
             IN /\ reply[1] = m[1] /\ reply[3] = 1
                /\ (reply[2] = Authoritative + RcodeNxdomain) <=> (Registered(q.domain) = {})
                /\ question.labels = Labels(q.domain)
                /\ reply[question.next] = q.qtype /\ reply[question.next + 1] = q.qclass
                /\ reply[4] = Len(wanted)
                /\ ReadAnswers(reply, question.next + 2)
                     = [i \in 1 .. Len(wanted) |-> Read(wanted[i])]
  <2> DEFINE matching == {r \in Record : RecordMatchesQtype(r, q.qtype)}
             shown == {r \in Record : /\ EncodeRdata(r) # Malformed
                                      /\ q.qtype \in {QtypeAny, RecordTypeCode[r.type]}}
             held == RecordsAt(q.domain)
             exists == Registered(q.domain) # {}
             wanted == Keep(held, shown)
             question == ReadLabels(reply, HeaderCells + 1)
  <2>1. m \in Seq(Nat) /\ q = ParseQuery(m) /\ q # Malformed
      BY DnsQueriesAssumption
  <2>2. /\ q.id = m[1] /\ q.id \in Nat /\ q.domain \in Seq(Chars) /\ IsDomainName(q.domain)
        /\ q.qtype \in Nat /\ q.qclass \in Nat
      BY <2>1, ParsedQuery
  <2>3. reply = DnsResponse(q)
      BY <2>1 DEF DnsReplies
  <2>4. held \in Seq(Record) /\ exists \in BOOLEAN
      BY <1>1, RecordsAtType
  <2> HIDE DEF held, exists
  <2>5. Keep(Keep(held, matching), Encodable) = wanted
    <3>1. Keep(Keep(held, matching), Encodable) = Keep(held, matching \cap Encodable)
        BY <2>4, KeepTwice
    <3>2. matching \cap Encodable = shown
        BY DEF Encodable, RecordMatchesQtype
    <3> QED
        BY <3>1, <3>2
  <2>6. Keep(held, matching) \in Seq(Record)
    <3>1. Keep(held, matching) \in Seq(Record \cap matching)
        BY <2>4, KeepType
    <3> HIDE DEF matching
    <3> QED
        BY <3>1, SeqSubset
  <2>7. reply = BuildResponse(q, exists, Keep(held, matching))
      BY <2>3 DEF DnsResponse, held, exists
  <2> HIDE DEF matching, shown, wanted
  <2>8. /\ reply[1] = q.id /\ reply[3] = 1 /\ reply[4] = Len(wanted)
        /\ reply[2] = Authoritative + (IF exists THEN 0 ELSE RcodeNxdomain)
        /\ question.labels = Labels(q.domain)
        /\ reply[question.next] = q.qtype /\ reply[question.next + 1] = q.qclass
        /\ ReadAnswers(reply, question.next + 2) = ShownFor(q.domain, wanted)
      BY <2>2, <2>4, <2>5, <2>6, <2>7, ResponseReadsBack
  <2>9. (reply[2] = Authoritative + RcodeNxdomain) <=> (Registered(q.domain) = {})
    <3>1. Authoritative + 0 # Authoritative + RcodeNxdomain
        BY DEF Authoritative, RcodeNxdomain
    <3> QED
        BY <2>8, <3>1 DEF exists
  <2>10. ShownFor(q.domain, wanted)
            = [i \in 1 .. Len(wanted) |->
                 [labels |-> Labels(q.domain), code |-> RecordTypeCode[wanted[i].type],
                  ttl |-> wanted[i].ttl, rdata |-> EncodeRdata(wanted[i])]]
      BY DEF ShownFor, Shown
  <2> HIDE DEF question
  <2> QED
      BY <2>2, <2>8, <2>9, <2>10 DEF wanted, shown, held, question
<1>2. TypeOK => DnsAnswerFaithful
    BY <1>1 DEF DnsAnswerFaithful
<1> QED
    BY <1>2, RegistryGuarantees, PTL


-----------------------------------------------------------------------------
(* What the demo client finds when its records are acknowledged            *)

\* Who sends what, when the other client has sent n datagrams: each client speaks for
\* itself, and only the demo sets records.
Speaks(m, n) ==
    /\ m.from = "other" => n # 0
    /\ m.body.proto = "api" =>
         IF m.from = "demo"
         THEN /\ m.body.client = DemoClient /\ m.body.domain = DemoDomain
              /\ m.body.kind = "set" => m.body.records = DemoRecords
         ELSE m.body.client = OtherClient /\ m.body.kind # "set"
    /\ m.from = "demo" /\ m.body.proto = "dns" => m.body = DnsMessage(NativeQuery)

\* So it is with every datagram, and with the request that holds the mutex.
Origins ==
    /\ \A l \in Listeners : \A i \in 1 .. Len(queue[l]) : Speaks(queue[l][i], sent)
    /\ work # None => Speaks(work.msg, sent)
    /\ pc \in Stages => req.client = work.msg.body.client

\* The response to the demo's set-records that it has read is the acknowledgement.
AckRead == answers[3].response = "RecordsSet"

\* The demo's records are acknowledged: the response is under way, or read.
IsAck(reply) == reply.proto = "api" /\ reply.response = "RecordsSet"
Acked ==
    \/ step = 3 /\ replies # <<>> /\ IsAck(replies[1])
    \/ step \in 4 .. 6 /\ AckRead

\* From then on every claim of the demo's to its name carries the signature of its
\* records, and its registration holds them, which without the other client it keeps.
Kept ==
    /\ \A h \in Hosts : claims[h][DemoDomain] # None =>
         (claims[h][DemoDomain].client = DemoClient => claims[h][DemoDomain].recSig = DemoRecords)
    /\ Owns(DemoClient, DemoDomain) => regs[DemoDomain].records = DemoRecords
    /\ sent = 0 => Owns(DemoClient, DemoDomain)

\* What a lookup shows then.
ShowsOwner(reply) ==
    /\ sent = 0 => reply.owner = DemoClient
    /\ reply.owner = DemoClient => reply.records = DemoRecords
Addressed == {r \in Record : r.type = "A" /\ EncodeRdata(r) # Malformed}
ShowsRecords(reply) ==
    sent = 0 => reply.cells[4] = Len(Keep(RecordsOf[DemoRecords], Addressed))

\* The replies under way to its lookups show this, and those that it has read.
Shows ==
    /\ Acked => Kept
    /\ step = 4 /\ replies # <<>> /\ replies[1].proto = "resolve" /\ AckRead =>
         ShowsOwner(replies[1])
    /\ step = 5 /\ replies # <<>> /\ AckRead => ShowsRecords(replies[1])
    /\ Len(answers) >= 4 /\ AckRead => ShowsOwner(answers[4])
    /\ Len(answers) = 5 /\ AckRead => ShowsRecords(answers[5])

\* The demo's requests are the demo's.
LEMMA DemoSpeaks ==
    ASSUME Typed, NEW i \in 1 .. 5, NEW m, m.body = DemoRequest(i), m.from = "demo", NEW n
    PROVE  Speaks(m, n)
<1> DEFINE b == DemoRequest(i)
<1>1. "api" # "resolve" /\ "api" # "dns" /\ "dns" # "resolve" /\ "demo" # "other"
    OBVIOUS
<1>2. \A kind, recs :
          LET r == ApiRequest(kind, DemoClient, now, DemoDomain, recs)
          IN r.proto = "api" /\ r.kind = kind /\ r.client = DemoClient /\ r.domain = DemoDomain
               /\ r.records = recs
    BY DEF ApiRequest
<1>3. CASE i \in 1 .. 3
  <2>1. /\ b.proto = "api" /\ b.client = DemoClient /\ b.domain = DemoDomain
        /\ b.kind = "set" => b.records = DemoRecords
      BY <1>2, <1>3 DEF DemoRequest
  <2> HIDE DEF b
  <2>2. m.body = b
      BY DEF b
  <2> QED
      BY <1>1, <2>1, <2>2 DEF Speaks
<1>4. CASE i = 4
  <2>1. m.body.proto = "resolve"
      BY <1>4, LookupFacts DEF DemoRequest
  <2> QED
      BY <1>1, <2>1 DEF Speaks
<1>5. CASE i = 5
  <2>1. m.body = DnsMessage(NativeQuery)
      BY <1>5 DEF DemoRequest
  <2>2. m.body.proto = "dns"
      BY <2>1, LookupFacts
  <2> QED
      BY <1>1, <2>1, <2>2 DEF Speaks
<1> QED
    BY <1>3, <1>4, <1>5

\* The other client's are its own.
LEMMA OtherSpeaks ==
    ASSUME NEW o \in OtherDatagrams, NEW m, m.body = o[2], m.from = "other", NEW n \in Nat, n # 0
    PROVE  Speaks(m, n)
<1> DEFINE probe == ApiRequest("probe", OtherClient, now, DemoDomain, NoRecords)
           register == ApiRequest("register", OtherClient, now, DemoDomain, NoRecords)
           forged == [register EXCEPT !.sig = probe.sig]
<1>1. /\ probe.client = OtherClient /\ probe.kind = "probe"
      /\ register.client = OtherClient /\ register.kind = "register"
      /\ forged.client = OtherClient /\ forged.kind = "register"
    BY DEF ApiRequest
<1>2. o \in {<<1, probe>>, <<1, register>>, <<1, forged>>,
             <<1, ResolveQuery(DemoDomain)>>, <<5, DnsMessage(<<>>)>>}
    BY DEF OtherDatagrams
<1> HIDE DEF probe, register, forged
<1>3. m.body \in {probe, register, forged, ResolveQuery(DemoDomain), DnsMessage(<<>>)}
    BY <1>2
<1>4. m.body.proto = "api" => m.body.client = OtherClient /\ m.body.kind # "set"
    BY <1>1, <1>3, LookupFacts
<1> QED
    BY <1>4 DEF Speaks

\* More datagrams of the other client change nothing.
LEMMA StillSpeaks ==
    ASSUME NEW m, NEW n, NEW k, Speaks(m, n), n # 0 => k # 0
    PROVE  Speaks(m, k)
BY DEF Speaks


\* The datagrams in the queues, when n of them are the other client's.
Queued(n) == \A l \in Listeners : \A i \in 1 .. Len(queue[l]) : Speaks(queue[l][i], n)

\* A listener that takes one leaves the others.
LEMMA ConsumeSpeaks ==
    ASSUME Typed, NEW l \in Listeners, queue[l] # <<>>, Consume(l), NEW n, Queued(n)
    PROVE  Queued(n)' /\ Speaks(Head(queue[l]), n)
<1>1. /\ \A k \in Listeners \ {l} : queue'[k] = queue[k]
      /\ Len(queue[l]) \in Nat \ {0} /\ Len(queue'[l]) = Len(queue[l]) - 1
      /\ \A i \in 1 .. Len(queue[l]) - 1 : queue'[l][i] = queue[l][i + 1]
      /\ Head(queue[l]) = queue[l][1]
    BY ConsumeFacts
<1>2. Speaks(queue[l][1], n)
    BY <1>1 DEF Queued
<1>3. ASSUME NEW k \in Listeners, NEW i \in 1 .. Len(queue'[k]) PROVE Speaks(queue'[k][i], n)
  <2>1. CASE k = l
    <3>1. i \in 1 .. Len(queue[l]) - 1
        BY <1>1, <1>3, <2>1
    <3>2. i + 1 \in 1 .. Len(queue[l]) /\ queue'[k][i] = queue[l][i + 1]
        BY <1>1, <2>1, <3>1
    <3>3. Speaks(queue[l][i + 1], n)
        BY <3>2 DEF Queued
    <3> QED
        BY <3>2, <3>3
  <2>2. CASE k # l
    <3>1. queue'[k] = queue[k]
        BY <1>1, <2>2
    <3> QED
        BY <1>3, <3>1 DEF Queued
  <2> QED
      BY <2>1, <2>2
<1> QED
    BY <1>1, <1>2, <1>3 DEF Queued

\* One that is sent joins them.
LEMMA SendSpeaks ==
    ASSUME Typed, NEW m \in Datagrams, NEW n, Queued(n), Speaks(m, n),
           \A l \in Listeners : queue'[l] = queue[l] \/ queue'[l] = Append(queue[l], m)
    PROVE  \A l \in Listeners : \A i \in 1 .. Len(queue'[l]) : Speaks(queue'[l][i], n)
<1>1. ASSUME NEW k \in Listeners, NEW i \in 1 .. Len(queue'[k]) PROVE Speaks(queue'[k][i], n)
  <2>1. CASE queue'[k] = queue[k]
      BY <1>1, <2>1 DEF Queued
  <2>2. CASE queue'[k] = Append(queue[k], m)
    <3>1. queue[k] \in Seq(Datagrams) /\ Len(queue[k]) \in Nat
        BY DEF Typed
    <3>2. /\ Len(Append(queue[k], m)) = Len(queue[k]) + 1
          /\ \A j \in 1 .. Len(queue[k]) : Append(queue[k], m)[j] = queue[k][j]
          /\ Append(queue[k], m)[Len(queue[k]) + 1] = m
        BY <3>1, AppendFacts
    <3>3. i \in 1 .. Len(queue[k]) + 1
      <4>1. Len(queue'[k]) = Len(Append(queue[k], m))
          BY <2>2, Zenon
      <4> QED
          BY <1>1, <3>2, <4>1
    <3>4. CASE i = Len(queue[k]) + 1
        BY <2>2, <3>2, <3>4
    <3>5. CASE i # Len(queue[k]) + 1
      <4>1. i \in 1 .. Len(queue[k])
          BY <3>1, <3>3, <3>5
      <4>2. queue'[k][i] = queue[k][i]
          BY <2>2, <3>2, <4>1
      <4> QED
          BY <4>1, <4>2 DEF Queued
    <3> QED
        BY <3>4, <3>5
  <2> QED
      BY <1>1, <2>1, <2>2
<1> QED
    BY <1>1

\* The node's steps do not forge a datagram, or a request.
LEMMA NodeOrigins ==
    ASSUME Typed, MutexHeld, Origins, NodeStep, sent' = sent
    PROVE  Origins'
<1>1. Queued(sent) /\ (work # None => Speaks(work.msg, sent))
    BY DEF Origins, Queued
<1>2. ASSUME Queued(sent)', work' # None => Speaks(work'.msg, sent),
             pc' \in Stages => req'.client = work'.msg.body.client
      PROVE  Origins'
    BY <1>2 DEF Origins, Queued
<1>3. ASSUME queue' = queue PROVE Queued(sent)'
    BY <1>1, <1>3 DEF Queued
<1>4. CASE Main \/ \E l \in Listeners : Bind(l)
  <2>1. UNCHANGED <<queue, work, pc, req>>
      BY <1>4 DEF Main, Bind, vars
  <2> QED
      BY <1>1, <1>2, <1>3, <2>1 DEF Origins
<1>5. ASSUME NEW l \in Listeners, queue[l] # <<>>, Consume(l), UNCHANGED <<work, pc, req>>
      PROVE  Origins'
    BY <1>1, <1>2, <1>5, ConsumeSpeaks DEF Origins
<1>6. CASE ResolverServe \/ DnsServe \/ \E l \in Listeners : RateLimited(l)
    BY <1>5, <1>6 DEF ResolverServe, DnsServe, RateLimited, vars, Listeners
<1>7. CASE \E ok \in BOOLEAN : Verified(ok)
  <2>1. work \in WorkItems /\ UNCHANGED <<queue, pc, req>> /\ work # None
      BY <1>7 DEF Verified, Typed, vars
  <2>2. work'.msg = work.msg
      BY <1>7, <2>1 DEF Verified, WorkItems
  <2> QED
      BY <1>1, <1>2, <1>3, <2>1, <2>2 DEF Origins
<1>8. CASE ApiTake
  <2> DEFINE m == Head(queue["api"])
  <2>1. /\ "api" \in Listeners /\ queue["api"] # <<>> /\ Consume("api") /\ work = None
        /\ UNCHANGED <<pc, req>>
      BY <1>8 DEF ApiTake, Listeners, vars
  <2>2. work' # None => work'.msg = m
      BY <1>8 DEF ApiTake
  <2>3. Queued(sent)' /\ Speaks(m, sent)
      BY <1>1, <2>1, ConsumeSpeaks
  <2>4. pc' \notin Stages
      BY <2>1 DEF MutexHeld
  <2> HIDE DEF m
  <2> QED
      BY <1>2, <2>2, <2>3, <2>4
<1>9. CASE Answering
  <2>1. queue' = queue /\ work' = None /\ pc' = "idle"
      BY <1>9 DEF Answering, Respond
  <2> QED
      BY <1>2, <1>3, <2>1 DEF Stages
<1>10. CASE Locking
  <2>1. work \in WorkItems /\ work # None /\ queue' = queue /\ req'.client = work.msg.body.client
      BY <1>10 DEF Locking, Typed
  <2>2. work'.msg = work.msg
      BY <1>10, <2>1 DEF Locking, WorkItems
  <2> QED
      BY <1>1, <1>2, <1>3, <2>1, <2>2
<1>11. CASE Working
    BY <1>1, <1>2, <1>3, <1>11 DEF Working, Origins
<1>12. CASE ApiPanic
  <2>1. /\ queue' = [queue EXCEPT !["api"] = <<>>] /\ work' = None /\ pc' = "dead"
        /\ queue \in [Listeners -> Seq(Datagrams)]
      BY <1>12 DEF ApiPanic, Panic, Typed
  <2>2. ASSUME NEW k \in Listeners, NEW i \in 1 .. Len(queue'[k]) PROVE Speaks(queue'[k][i], sent)
    <3>1. queue'[k] = <<>> \/ queue'[k] = queue[k]
        BY <2>1
    <3>2. queue'[k] = queue[k]
        BY <2>2, <3>1
    <3> QED
        BY <1>1, <2>2, <3>2 DEF Queued
  <2>3. Queued(sent)'
      BY <2>2 DEF Queued
  <2> QED
      BY <1>2, <2>1, <2>3 DEF Stages
<1> QED
    BY <1>4, <1>6, <1>7, <1>8, <1>9, <1>10, <1>11, <1>12, ApiStepCases DEF NodeStep

\* Nor do the clients speak for one another.
LEMMA OriginsPreserved ==
    ASSUME Typed, MutexHeld, Origins, [SystemNext]_systemVars
    PROVE  Origins'
<1>1. Queued(sent) /\ (work # None => Speaks(work.msg, sent))
    BY DEF Origins, Queued
<1>2. CASE NodeStep /\ UNCHANGED <<demoVars, sent>>
    BY <1>2, NodeOrigins
<1>3. CASE DemoSend
  <2> DEFINE addr == DemoAddr[step]
             body == DemoRequest(step)
             m == [body |-> body, from |-> "demo", arrived |-> now, ahead |-> RegistersAhead]
  <2>1. /\ step \in 1 .. 5 /\ Send(addr, body, "demo") /\ "demo" \in {"demo", "other"}
        /\ UNCHANGED <<work, pc, req, sent>>
      BY <1>3 DEF DemoSend, vars
  <2>2. body \in Bodies
      BY <2>1, DemoRequestFacts
  <2>3. m.body = DemoRequest(step) /\ m.from = "demo"
      OBVIOUS
  <2> HIDE DEF addr, body
  <2>4. /\ m \in Datagrams
        /\ \A l \in Listeners : queue'[l] = queue[l] \/ queue'[l] = Append(queue[l], m)
      BY <2>1, <2>2, SendFacts
  <2> HIDE DEF m
  <2>5. Speaks(m, sent)
      BY <2>1, <2>3, DemoSpeaks
  <2>6. \A l \in Listeners : \A i \in 1 .. Len(queue'[l]) : Speaks(queue'[l][i], sent)
      BY <1>1, <2>4, <2>5, SendSpeaks
  <2> QED
      BY <1>1, <2>1, <2>6 DEF Origins
<1>4. CASE OtherSends
  <2>1. PICK o \in OtherDatagrams : Send(DemoAddr[o[1]], o[2], "other")
      BY <1>4 DEF OtherSends
  <2> DEFINE addr == DemoAddr[o[1]]
             body == o[2]
             m == [body |-> body, from |-> "other", arrived |-> now, ahead |-> RegistersAhead]
             n == sent + 1
  <2>2. /\ sent' = n /\ n \in Nat /\ n # 0 /\ "other" \in {"demo", "other"}
        /\ UNCHANGED <<work, pc, req>>
      BY <1>4, DemoBoundsAssumption DEF OtherSends, vars, Typed
  <2>3. body \in Bodies /\ Send(addr, body, "other")
      BY <2>1, OtherDatagramsFacts
  <2>4. m.body = o[2] /\ m.from = "other"
      OBVIOUS
  <2> HIDE DEF addr, body, n
  <2>5. /\ m \in Datagrams
        /\ \A l \in Listeners : queue'[l] = queue[l] \/ queue'[l] = Append(queue[l], m)
      BY <2>2, <2>3, SendFacts
  <2> HIDE DEF m
  <2>6. Speaks(m, n)
      BY <2>2, <2>4, OtherSpeaks
  <2>7. Queued(n)
      BY <1>1, <2>2, StillSpeaks DEF Queued
  <2>8. \A l \in Listeners : \A i \in 1 .. Len(queue'[l]) : Speaks(queue'[l][i], n)
      BY <2>5, <2>6, <2>7, SendSpeaks
  <2>9. work' # None => Speaks(work'.msg, n)
      BY <1>1, <2>2, StillSpeaks
  <2> QED
      BY <2>2, <2>8, <2>9 DEF Origins
<1>5. CASE DemoReceive \/ DemoGivesUp \/ Tick \/ UNCHANGED systemVars
  <2>1. UNCHANGED <<queue, work, pc, req, sent>>
      BY <1>5 DEF DemoReceive, DemoGivesUp, Tick, systemVars, nodeVars, vars
  <2> QED
      BY <2>1 DEF Origins
<1> QED
    BY <1>2, <1>3, <1>4, <1>5 DEF SystemNext


\* Once its records are acknowledged nothing the client API has in hand is the demo's.
LEMMA AckedIdle ==
    ASSUME Typed, OneInFlight, Origins, Acked, work # None
    PROVE  sent # 0 /\ work.msg.body.client = OtherClient /\ work.msg.body.kind # "set"
<1>1. work.msg \in Datagrams /\ work.msg.body.proto = "api"
    BY DEF Typed, WorkItems
<1>2. work.msg.from # "demo"
  <2> SUFFICES ASSUME DemoServed PROVE FALSE
      BY DEF DemoServed
  <2>1. sentAt # None
    <3>1. ~ Quiet
        BY DEF Quiet
    <3> QED
        BY <3>1 DEF OneInFlight, Acked
  <2>2. CASE step = 3
      BY <2>1, <2>2 DEF OneInFlight, InFlight, Acked
  <2>3. CASE step \in 4 .. 5
    <3>1. IsRequest(step, work.msg.body)
        BY <2>1, <2>3 DEF OneInFlight, InFlight
    <3>2. ProtoOf[4] # "api" /\ ProtoOf[5] # "api"
        BY DEF ProtoOf
    <3>3. work.msg.body.proto # "api"
        BY <2>3, <3>1, <3>2 DEF IsRequest
    <3> QED
        BY <1>1, <3>3
  <2>4. CASE step = 6
      BY <2>1, <2>4 DEF OneInFlight
  <2> QED
      BY <2>2, <2>3, <2>4 DEF Acked
<1>3. work.msg.from = "other"
    BY <1>1, <1>2 DEF Datagrams
<1>4. Speaks(work.msg, sent)
    BY DEF Origins
<1> QED
    BY <1>1, <1>3, <1>4 DEF Speaks

\* What is kept about the claims of one host.
KeptClaims(hc) ==
    hc[DemoDomain] # None =>
        (hc[DemoDomain].client = DemoClient => hc[DemoDomain].recSig = DemoRecords)

\* reconcile_quota installs the demo's claim with the records it is signed for.
LEMMA ReconcileKept ==
    ASSUME IInv, Kept, sent # 0, sent' = sent, NEW h \in Hosts, NEW hc \in KeyedClaims,
           ReconcileQuota(h, hc), KeptClaims(hc)
    PROVE  Kept'
<1> DEFINE adm == Admitted(hc, now)
           d == DemoDomain
<1>1. /\ adm \in KeyedClaims
      /\ \A e \in Domains : adm[e] # None => adm[e] = hc[e] /\ IsAuthorized(adm[e])
    BY AdmittedFacts
<1> HIDE DEF adm
<1>2. /\ claims' = [claims EXCEPT ![h] = adm]
      /\ regs' = Install(regs, h, adm)
    BY DEF ReconcileQuota, adm
<1>3. adm \in [Domains -> Rumor \cup {None}]
    BY <1>1 DEF KeyedClaims
<1>4. /\ regs \in [Domains -> Registration \cup {None}]
      /\ claims \in [Hosts -> [Domains -> Rumor \cup {None}]]
      /\ d \in Domains
    BY DemoAssumption DEF IInv, TypeOK
<1>5. \/ regs'[d] = None
      \/ regs'[d] = regs[d] /\ regs[d] # None
      \/ regs'[d] = FromRumor(adm[d], h) /\ adm[d] # None
    BY <1>2, <1>3, <1>4, InstallFacts
<1>6. \A g \in Hosts : claims'[g] = IF g = h THEN adm ELSE claims[g]
    BY <1>2, <1>4
<1>7. KeptClaims(adm) /\ \A g \in Hosts : KeptClaims(claims[g])
    BY <1>1, <1>4 DEF KeptClaims, Kept
<1>8. \A g \in Hosts : KeptClaims(claims'[g])
    BY <1>6, <1>7
<1>9. ASSUME regs'[d] = FromRumor(adm[d], h), adm[d] # None, regs'[d].client = DemoClient
      PROVE  regs'[d].records = DemoRecords
  <2>1. regs'[d].client = adm[d].client /\ regs'[d].records = adm[d].records
      BY <1>9 DEF FromRumor
  <2>2. adm[d].recSig = DemoRecords /\ IsAuthorized(adm[d])
      BY <1>1, <1>4, <1>7, <1>9, <2>1 DEF KeptClaims
  <2>3. DemoRecords # None
      BY DemoAssumption, RecordsAssumption
  <2> QED
      BY <2>1, <2>2, <2>3 DEF IsAuthorized
<1>10. Owns(DemoClient, d)' => regs'[d].records = DemoRecords
    BY <1>5, <1>9 DEF Owns, Kept
<1> QED
    BY <1>8, <1>10 DEF Kept, KeptClaims

\* So is what a step leaves of the demo's claims and registration, with the records
\* and signatures they had.
LEMMA SameRecordsKept ==
    ASSUME Kept, sent # 0, sent' = sent,
           \A h \in Hosts : claims'[h][DemoDomain] # None =>
              /\ claims[h][DemoDomain] # None
              /\ claims'[h][DemoDomain].client = claims[h][DemoDomain].client
              /\ claims'[h][DemoDomain].recSig = claims[h][DemoDomain].recSig,
           regs'[DemoDomain] # None /\ regs'[DemoDomain].client = DemoClient =>
              /\ regs[DemoDomain] # None
              /\ regs[DemoDomain].client = DemoClient
              /\ regs'[DemoDomain].records = regs[DemoDomain].records
    PROVE  Kept'
BY DEF Kept, Owns


\* The handlers of the client API keep them, at the other client's request.
LEMMA ApiKept ==
    ASSUME IInv, Typed, MutexHeld, OneInFlight, Origins, Acked, Kept, ApiStep, sent' = sent
    PROVE  Kept'
<1> DEFINE d == DemoDomain
<1>1. /\ regs \in [Domains -> Registration \cup {None}]
      /\ claims \in [Hosts -> [Domains -> Rumor \cup {None}]]
      /\ d \in Domains /\ OtherClient # DemoClient
    BY DemoAssumption DEF IInv, TypeOK
<1>2. CASE UNCHANGED <<regs, claims>>
    BY <1>2 DEF Kept, Owns
<1>3. CASE ApiTake \/ ApiError \/ ApiRegister \/ ApiRefuse \/ ApiPanic
  <2>1. UNCHANGED <<regs, claims>>
      BY <1>3 DEF ApiTake, ApiError, ApiRegister, ApiRefuse, ApiPanic,
                  HandleRegister, Refuse, Panic, vars, store
  <2> QED
      BY <1>2, <2>1
<1>4. CASE ApiProbe \/ ApiSetRecords \/ ApiStage \/ ApiAttach
  <2>1. work # None
    <3>1. CASE ApiProbe \/ ApiSetRecords
        BY <3>1 DEF ApiProbe, ApiSetRecords, Handling
    <3>2. CASE ApiStage \/ ApiAttach
      <4>1. pc \in Stages
          BY <3>2 DEF ApiStage, ApiAttach, ReclaimStale, ReconcileNext, Issue, AttachRumor, Stages
      <4> QED
          BY <4>1 DEF MutexHeld
    <3> QED
        BY <1>4, <3>1, <3>2
  <2>2. sent # 0 /\ work.msg.body.client = OtherClient /\ work.msg.body.kind # "set"
      BY <2>1, AckedIdle
  <2>3. pc \in Stages => req.client = OtherClient
      BY <2>2 DEF Origins
  <2>4. ASSUME NEW c, NEW ts, HandleProbe(c, ts) PROVE Kept'
    <3>1. /\ regs' = [e \in Domains |-> RefreshedReg(regs[e], c, ts)]
          /\ claims' = [h \in Hosts |-> [e \in Domains |-> Refreshed(claims[h][e], c, ts)]]
        BY <2>4 DEF HandleProbe
    <3>2. \A r \in Rumor : /\ Refreshed(r, c, ts).client = r.client
                           /\ Refreshed(r, c, ts).recSig = r.recSig
        BY DEF Refreshed, Rumor
    <3>3. \A r \in Registration : /\ RefreshedReg(r, c, ts).client = r.client
                                  /\ RefreshedReg(r, c, ts).records = r.records
        BY DEF RefreshedReg, Registration
    <3>4. Refreshed(None, c, ts) = None /\ RefreshedReg(None, c, ts) = None
        BY DEF Refreshed, RefreshedReg
    <3>5. ASSUME NEW h \in Hosts, claims'[h][d] # None
          PROVE  /\ claims[h][d] # None /\ claims'[h][d].client = claims[h][d].client
                 /\ claims'[h][d].recSig = claims[h][d].recSig
      <4>1. claims'[h][d] = Refreshed(claims[h][d], c, ts) /\ claims[h][d] \in Rumor \cup {None}
          BY <1>1, <3>1
      <4>2. claims[h][d] # None
          BY <3>4, <3>5, <4>1
      <4>3. claims[h][d] \in Rumor
          BY <4>1, <4>2
      <4> QED
          BY <3>2, <4>1, <4>2, <4>3
    <3>6. ASSUME regs'[d] # None, regs'[d].client = DemoClient
          PROVE  /\ regs[d] # None /\ regs[d].client = DemoClient
                 /\ regs'[d].records = regs[d].records
      <4>1. regs'[d] = RefreshedReg(regs[d], c, ts) /\ regs[d] \in Registration \cup {None}
          BY <1>1, <3>1
      <4>2. regs[d] # None
          BY <3>4, <3>6, <4>1
      <4>3. regs[d] \in Registration
          BY <4>1, <4>2
      <4> QED
          BY <3>3, <3>6, <4>1, <4>2, <4>3
    <3> QED
        BY <2>2, <3>5, <3>6, SameRecordsKept
  <2>5. CASE ReclaimStale
    <3>1. /\ claims' = claims
          /\ regs' = [e \in Domains |->
                        IF regs[e] # None /\ regs[e].host \in Expired THEN None ELSE regs[e]]
        BY <2>5 DEF ReclaimStale
    <3>2. regs'[d] # None => regs'[d] = regs[d]
        BY <1>1, <3>1
    <3> QED
        BY <2>2, <3>1, <3>2, SameRecordsKept
  <2>6. ASSUME NEW h \in Hosts, ReconcileNext(h) PROVE Kept'
    <3>1. claims[h] \in KeyedClaims
        BY DEF IInv, ClaimsKeyed
    <3>2. ReconcileQuota(h, claims[h])
        BY <2>6 DEF ReconcileNext
    <3>3. KeptClaims(claims[h])
        BY DEF Kept, KeptClaims
    <3> QED
        BY <2>2, <3>1, <3>2, <3>3, ReconcileKept
  <2>7. ASSUME NEW nonce \in Nonces, Issue(nonce) PROVE Kept'
    <3> DEFINE new == [client |-> req.client, host |-> HostOf[req.client],
                       token |-> [issuedAt |-> now, nonce |-> nonce],
                       records |-> NoRecords, rumor |-> None]
    <3>1. regs' = [regs EXCEPT ![req.domain] = new] /\ claims' = claims /\ pc \in Stages
        BY <2>7 DEF Issue, Stages
    <3>2. new.client = OtherClient
        BY <2>3, <3>1
    <3> HIDE DEF new
    <3>3. regs'[d] = regs[d] \/ regs'[d] = new
        BY <1>1, <3>1
    <3>4. regs'[d].client = DemoClient => regs'[d] = regs[d]
        BY <1>1, <3>2, <3>3
    <3> QED
        BY <2>2, <3>1, <3>4, SameRecordsKept
  <2>8. CASE AttachRumor
    <3> DEFINE h == HostOf[req.client]
               r == NewRumor(req.client, req.domain)
               hc == [claims[h] EXCEPT ![req.domain] = r]
    <3>1. h \in Hosts /\ hc \in KeyedClaims
        BY <2>8, AttachClaimsKeyed
    <3>2. ReconcileQuota(h, hc) /\ pc \in Stages
        BY <2>8 DEF AttachRumor, Stages
    <3>3. r.client = OtherClient
        BY <2>3, <3>2 DEF NewRumor
    <3>4. claims[h] \in [Domains -> Rumor \cup {None}]
        BY <1>1, <3>1
    <3> HIDE DEF h, r
    <3>5. hc[d] = r \/ hc[d] = claims[h][d]
        BY <1>1, <3>4
    <3> HIDE DEF hc
    <3>6. KeptClaims(hc)
        BY <1>1, <3>1, <3>3, <3>5 DEF Kept, KeptClaims
    <3> QED
        BY <2>2, <3>1, <3>2, <3>6, ReconcileKept
  <2>9. ~ ApiSetRecords
      BY <2>2 DEF ApiSetRecords, Handling
  <2> QED
      BY <1>4, <2>4, <2>5, <2>6, <2>7, <2>8, <2>9 DEF ApiProbe, ApiStage, ApiAttach
<1> QED
    BY <1>3, <1>4 DEF ApiStep

\* When the node acknowledges the demo's records they are kept.
LEMMA SetKept ==
    ASSUME IInv, Typed, Origins, ApiSetRecords, work.msg.from = "demo"
    PROVE  Kept'
<1> DEFINE d == DemoDomain
<1>1. /\ regs \in [Domains -> Registration \cup {None}]
      /\ claims \in [Hosts -> [Domains -> Rumor \cup {None}]]
      /\ d \in Domains /\ DemoClient \in Clients
    BY DemoAssumption DEF IInv, TypeOK
<1>2. work # None /\ work.msg.body.kind = "set" /\ work.msg.body.proto = "api"
    BY DEF ApiSetRecords, Handling, Typed, WorkItems
<1>3. /\ work.msg.body.client = DemoClient /\ work.msg.body.domain = DemoDomain
      /\ work.msg.body.records = DemoRecords
    BY <1>2 DEF Origins, Speaks
<1>4. HandleSetRecords(DemoClient, d, DemoRecords)
    BY <1>3 DEF ApiSetRecords
<1>5. /\ regs[d] # None /\ regs[d].client = DemoClient
      /\ regs' = [regs EXCEPT ![d] = WithRecords(regs[d], DemoRecords)]
      /\ claims' = [h \in Hosts |->
                      [claims[h] EXCEPT ![d] = WithRecordEvidence(claims[h][d], DemoClient, DemoRecords)]]
    BY <1>4 DEF HandleSetRecords
<1>6. ASSUME NEW h \in Hosts, claims'[h][d] # None, claims'[h][d].client = DemoClient
      PROVE  claims'[h][d].recSig = DemoRecords
  <2>1. claims'[h][d] = WithRecordEvidence(claims[h][d], DemoClient, DemoRecords)
      BY <1>1, <1>5
  <2>2. claims[h][d] \in Rumor \cup {None}
      BY <1>1
  <2>3. claims[h][d] # None
      BY <1>6, <2>1 DEF WithRecordEvidence
  <2>4. \A r \in Rumor : WithRecordEvidence(r, DemoClient, DemoRecords).client = DemoClient
                           => WithRecordEvidence(r, DemoClient, DemoRecords).recSig = DemoRecords
      BY NoneAssumption DEF WithRecordEvidence, Rumor
  <2> QED
      BY <1>6, <2>1, <2>2, <2>3, <2>4
<1>7. regs'[d] # None /\ regs'[d].client = DemoClient /\ regs'[d].records = DemoRecords
  <2>1. regs'[d] = WithRecords(regs[d], DemoRecords) /\ regs[d] \in Registration
      BY <1>1, <1>5
  <2>2. \A r \in Registration : /\ WithRecords(r, DemoRecords).client = r.client
                                /\ WithRecords(r, DemoRecords).records = DemoRecords
      BY DEF WithRecords, Registration
  <2>3. WithRecords(regs[d], DemoRecords) # None
    <3>1. WithRecords(regs[d], DemoRecords) \in Registration
      <4>1. DemoRecords \in Records
          BY DemoAssumption
      <4>2. \A r \in Rumor : [r EXCEPT !.records = DemoRecords, !.recSig = DemoRecords] \in Rumor
          BY <4>1 DEF Rumor
      <4> QED
          BY <2>1, <4>1, <4>2 DEF WithRecords, Registration
    <3> QED
        BY <3>1, NoneAssumption
  <2> QED
      BY <1>5, <2>1, <2>2, <2>3
<1> QED
    BY <1>6, <1>7 DEF Kept, Owns


\* The demo's DNS message is the query it means: a question for the A records of its
\* name.
LEMMA NativeParsed ==
    LET q == ParseQuery(NativeQuery)
    IN /\ q # Malformed /\ q.id = 4660 /\ q.domain = DomainText[DemoDomain]
       /\ q.qtype = 1 /\ q.qclass = ClassIn
<1> DEFINE m == NativeQuery
           text == DomainText[DemoDomain]
           ls == Labels(text)
           h == <<4660, 256, 1, 0, 0, 0>>
           e == EncodeLabels(ls)
           c == <<1, ClassIn>>
<1>1. text \in Seq(Chars) /\ IsDomainName(text)
    BY DemoAssumption, DomainTextAssumption DEF Chars
<1>2. ls \in Readable /\ Join(ls) = text
    BY <1>1, NameLabels
<1>3. e \in Seq(Nat)
  <2>1. text \in Seq(Nat)
      BY <1>1, SeqSubset DEF Chars
  <2> QED
      BY <1>1, <2>1, EncodeDomainLabelsType DEF EncodeDomainLabels
<1>4. m = h \o e \o c
    BY DEF NativeQuery, RecordTypeCode
<1>5. /\ h \in Seq(Nat) /\ Len(h) = 6 /\ h[1] = 4660 /\ h[3] = 1
      /\ c \in Seq(Nat) /\ Len(c) = 2 /\ c[1] = 1 /\ c[2] = ClassIn
    BY DEF ClassIn
<1> HIDE DEF m, text, ls, h, e, c
<1> DEFINE a == h \o e
           z == Len(e)
<1>6. a \in Seq(Nat) /\ Len(a) = 6 + z /\ z \in Nat
  <2>1. h \in Seq(Nat) /\ e \in Seq(Nat)
      BY <1>3, <1>5
  <2>2. a \in Seq(Nat) /\ Len(a) = Len(h) + Len(e)
      BY <2>1, Concat, Zenon
  <2>3. z \in Nat
      BY <1>3
  <2> HIDE DEF a
  <2> QED
      BY <1>5, <2>2, <2>3
<1>7. m \in Seq(Nat) /\ Len(m) = 8 + z
  <2>1. a \in Seq(Nat) /\ c \in Seq(Nat) /\ m = a \o c
      BY <1>4, <1>5, <1>6
  <2> HIDE DEF a, z
  <2>2. m \in Seq(Nat) /\ Len(m) = Len(a) + Len(c)
      BY <2>1, Concat, Zenon
  <2> QED
      BY <1>5, <1>6, <2>2
<1> HIDE DEF a
<1>8. Stands(m, 1, a) /\ Stands(m, 1 + Len(a), c)
  <2>1. Stands(m, 1, a \o c)
      BY <1>4, <1>7, WholeStands DEF a
  <2> QED
      BY <1>5, <1>6, <1>7, <2>1, StandsParts
<1>9. Stands(m, 1, h) /\ Stands(m, 7, e)
  <2>1. Stands(m, 1, h \o e)
      BY <1>8 DEF a
  <2>2. 1 + Len(h) = 7 /\ 1 \in Nat \ {0}
      BY <1>5
  <2>3. h \in Seq(Nat) /\ 1 \in Nat \ {0} /\ m \in Seq(Nat)
      BY <1>5, <1>7
  <2>4. Stands(m, 1, h) /\ Stands(m, 1 + Len(h), e)
      BY <1>3, <2>1, <2>3, StandsParts
  <2> QED
      BY <2>2, <2>4
<1>10. m[1] = 4660 /\ m[3] = 1
  <2>1. \A j \in 1 .. 6 : m[1 + j - 1] = h[j]
      BY <1>5, <1>9 DEF Stands
  <2>2. 1 + 1 - 1 = 1 /\ 1 + 3 - 1 = 3 /\ 1 \in 1 .. 6 /\ 3 \in 1 .. 6
      OBVIOUS
  <2> QED
      BY <1>5, <2>1, <2>2
<1> HIDE DEF z
<1>11. m[7 + z] = 1 /\ m[8 + z] = ClassIn
  <2>1. \A j \in 1 .. 2 : m[(1 + Len(a)) + j - 1] = c[j]
      BY <1>5, <1>8 DEF Stands
  <2>2. /\ (1 + Len(a)) + 1 - 1 = 7 + z /\ (1 + Len(a)) + 2 - 1 = 8 + z
        /\ 1 \in 1 .. 2 /\ 2 \in 1 .. 2
      BY <1>6
  <2> QED
      BY <1>5, <2>1, <2>2
<1> DEFINE name == ReadLabels(m, HeaderCells + 1)
<1>12. name = [labels |-> ls, next |-> 7 + z]
  <2>1. HeaderCells + 1 = 7 /\ 7 \in Nat \ {0}
      BY DEF HeaderCells
  <2>2. Stands(m, 7, EncodeLabels(ls))
      BY <1>9 DEF e
  <2> QED
      BY <1>2, <1>7, <2>1, <2>2, ReadEncoded DEF z, e
<1>13. name # Malformed
  <2>1. ls \in Seq(Seq(Nat))
    <3>1. ls \in Seq(Seq(Chars))
        BY <1>2 DEF Readable
    <3>2. Seq(Chars) \subseteq Seq(Nat)
        BY SeqSubset DEF Chars
    <3> QED
        BY <3>1, <3>2, SeqSubset
  <2>2. name \in [labels : Seq(Seq(Nat)), next : Nat]
    <3> DEFINE Q == Seq(Seq(Nat))
    <3>1. ls \in Q /\ 7 + z \in Nat
        BY <1>6, <2>1
    <3> HIDE DEF Q, name
    <3> QED
        BY <1>12, <3>1 DEF Q
  <2> QED
      BY <2>2, MalformedAssumption DEF Name
<1>14. name.labels = ls /\ name.next = 7 + z
  <2> HIDE DEF name
  <2> QED
      BY <1>12
<1> HIDE DEF name
<1>15. /\ ~ (Len(m) < HeaderCells \/ m[3] # 1) /\ ~ (Len(m) < name.next + 1)
       /\ name.next + 1 = 8 + z
  <2>1. HeaderCells = 6
      BY DEF HeaderCells
  <2> QED
      BY <1>6, <1>7, <1>10, <1>14, <2>1
<1>16. ParseQuery(m) = [id |-> 4660, domain |-> text, qtype |-> 1, qclass |-> ClassIn]
  <2>1. ParseQuery(m) = [id |-> m[1], domain |-> Join(name.labels),
                         qtype |-> m[name.next], qclass |-> m[name.next + 1]]
      BY <1>1, <1>2, <1>7, <1>13, <1>14, <1>15, ParseSteps DEF name
  <2> QED
      BY <1>2, <1>10, <1>11, <1>14, <1>15, <2>1
<1>17. ParseQuery(m) \in Query
  <2>1. text \in Seq(Nat)
      BY <1>1, SeqSubset DEF Chars
  <2> QED
      BY <1>16, <2>1 DEF Query, ClassIn
<1> QED
    BY <1>16, <1>17, MalformedAssumption DEF m, text

\* While the name is the demo's and holds its records, the reply to this query carries
\* its A records.
LEMMA NativeShows ==
    ASSUME TypeOK, Owns(DemoClient, DemoDomain), regs[DemoDomain].records = DemoRecords,
           NEW cells \in DnsReplies(NativeQuery)
    PROVE  cells[4] = Len(Keep(RecordsOf[DemoRecords], Addressed))
<1> DEFINE q == ParseQuery(NativeQuery)
           text == DomainText[DemoDomain]
           held == RecordsAt(text)
           matching == {r \in Record : RecordMatchesQtype(r, q.qtype)}
           exists == Registered(text) # {}
<1>1. /\ q # Malformed /\ q.id = 4660 /\ q.domain = text
      /\ q.qtype = 1 /\ q.qclass = ClassIn
    BY NativeParsed
<1>2. text \in Seq(Chars) /\ IsDomainName(text)
    BY DemoAssumption, DomainTextAssumption DEF Chars
<1>3. cells = DnsResponse(q)
    BY <1>1 DEF DnsReplies
<1>4. matching \cap Encodable = Addressed
  <2>1. \A type \in DOMAIN RecordTypeCode : RecordTypeCode[type] = 1 <=> type = "A"
      BY DEF RecordTypeCode
  <2>2. \A r \in Record : RecordMatchesQtype(r, q.qtype) <=> r.type = "A"
      BY <1>1, <2>1 DEF RecordMatchesQtype, Record, QtypeAny
  <2> HIDE DEF q
  <2> QED
      BY <2>2 DEF Encodable, Addressed
<1>5. held = RecordsOf[DemoRecords] /\ held \in Seq(Record)
  <2>1. Registered(text) = {DemoDomain}
      BY DemoAssumption, DomainTextAssumption DEF Registered, Owns
  <2>2. (CHOOSE d \in Registered(text) : TRUE) = DemoDomain
      BY <2>1
  <2>3. RecordsOf[DemoRecords] \in Seq(Record)
      BY DemoAssumption, RecordsOfAssumption
  <2> QED
      BY <2>1, <2>2, <2>3 DEF RecordsAt
<1>6. cells = BuildResponse(q, exists, Keep(held, matching))
    BY <1>1, <1>3 DEF DnsResponse
<1>7. exists \in BOOLEAN
    OBVIOUS
<1> HIDE DEF q, held, exists, text
<1>8. Keep(held, matching) \in Seq(Record)
  <2>1. Keep(held, matching) \in Seq(Record \cap matching)
      BY <1>5, KeepType
  <2> HIDE DEF matching
  <2> QED
      BY <2>1, SeqSubset
<1> HIDE DEF matching
<1>9. q.id \in Nat /\ q.qtype \in Nat /\ q.qclass \in Nat
    BY <1>1 DEF ClassIn
<1>10. cells[4] = Len(Keep(Keep(held, matching), Encodable))
    BY <1>1, <1>2, <1>6, <1>7, <1>8, <1>9, ResponseReadsBack
<1> QED
    BY <1>4, <1>5, <1>10, KeepTwice


\* What the demo may be answered: an error or another acknowledgement by the client API,
\* or that of its records when they are set; its name's owner; a DNS reply, to its own
\* query if that is what it waits for.
Replied ==
    \E body :
        /\ replies' = <<body>>
        /\ \/ /\ body.proto = "api"
              /\ body.response = "RecordsSet" => ApiSetRecords /\ work.msg.from = "demo"
           \/ body = ResolveAnswer(DemoDomain) /\ vars' = vars
           \/ /\ body.proto = "dns" /\ vars' = vars
              /\ step = 5 => body.cells \in DnsReplies(NativeQuery)

\* The client API answers the demo's request when it has it in hand.
LEMMA RespondReplied ==
    ASSUME Typed, OneInFlight, step # 0, work # None, NEW response, Respond(response),
           response = "RecordsSet" => ApiSetRecords
    PROVE  replies' = replies \/ Replied
<1> DEFINE body == [proto |-> "api", of |-> work.msg.body.kind, response |-> response]
<1>1. Reply(work.msg.from, body)
    BY DEF Respond
<1>2. body.proto = "api" /\ body.response = response
    OBVIOUS
<1> HIDE DEF body
<1>3. CASE work.msg.from = "demo"
  <2>1. DemoServed
      BY <1>3 DEF DemoServed
  <2>2. step \in 1 .. 5 /\ sentAt # None
      BY <2>1 DEF OneInFlight, Quiet, Typed
  <2>3. replies = <<>>
      BY <2>1, <2>2 DEF OneInFlight, InFlight
  <2>4. replies' = <<body>> \/ replies' = replies
      BY <1>1, <1>3, <2>3 DEF Reply
  <2> QED
      BY <1>2, <1>3, <2>4 DEF Replied
<1>4. CASE work.msg.from # "demo"
    BY <1>1, <1>4 DEF Reply
<1> QED
    BY <1>3, <1>4

\* A listener that takes the demo's datagram finds nothing else on its way.
LEMMA TakenAlone ==
    ASSUME Typed, OneInFlight, step # 0, NEW l \in Listeners, queue[l] # <<>>,
           Head(queue[l]).from = "demo", Consume(l)
    PROVE  replies = <<>> /\ IsRequest(step, Head(queue[l]).body)
<1>1. DemoQueued(l, 1) /\ 1 \in Nat
    BY ConsumeQueued
<1>2. step \in 1 .. 5 /\ sentAt # None
    BY <1>1 DEF OneInFlight, Quiet, Typed
<1>3. InFlight(step)
    BY <1>2 DEF OneInFlight
<1> QED
    BY <1>3, ConsumeDemo

\* So these are all the answers it can get.
LEMMA NodeReplied ==
    ASSUME Typed, MutexHeld, OneInFlight, Origins, step # 0, NodeStep
    PROVE  replies' = replies \/ Replied
<1>1. CASE Main \/ (\E l \in Listeners : Bind(l) \/ RateLimited(l)) \/ \E ok \in BOOLEAN : Verified(ok)
    BY <1>1 DEF Main, Bind, RateLimited, Verified
<1>2. CASE ApiTake \/ ApiRegister \/ ApiStage \/ ApiPanic
    BY <1>2 DEF ApiTake, ApiRegister, ApiStage, ApiPanic
<1>3. CASE ApiProbe
    BY <1>3, RespondReplied DEF ApiProbe, Handling
<1>4. CASE ApiSetRecords
    BY <1>4, RespondReplied DEF ApiSetRecords, Handling
<1>5. CASE ApiError
    BY <1>5, RespondReplied DEF ApiError, Handling
<1>6. CASE ApiRefuse \/ ApiAttach
  <2>1. work # None
    <3>1. pc \in Stages
        BY <1>6 DEF ApiRefuse, ApiAttach, Refuse, AttachRumor, Stages
    <3> QED
        BY <3>1 DEF MutexHeld
  <2> QED
      BY <1>6, <2>1, RespondReplied DEF ApiRefuse, ApiAttach
<1>7. CASE ResolverServe
  <2> DEFINE l == "resolver"
             m == Head(queue[l])
  <2>1. l \in Listeners /\ queue[l] # <<>> /\ Consume(l) /\ vars' = vars
      BY <1>7 DEF ResolverServe, Listeners
  <2>2. \/ replies' = replies
        \/ m.body.proto = "resolve" /\ Reply(m.from, ResolveAnswer(m.body.domain))
      BY <1>7 DEF ResolverServe
  <2>3. m \in Datagrams
      BY <2>1, ConsumeFacts
  <2>4. CASE m.body.proto = "resolve" /\ m.from = "demo" /\ Reply(m.from, ResolveAnswer(m.body.domain))
    <3>1. m.body \in Bodies
        BY <2>3 DEF Datagrams
    <3>2. m.body = ResolveQuery(DemoDomain)
      <4>1. m.body \notin ApiRequests
          BY <2>4 DEF ApiRequests
      <4> QED
          BY <2>4, <3>1, <4>1, LookupFacts DEF Bodies
    <3>3. m.body.domain = DemoDomain
        BY <3>2 DEF ResolveQuery
    <3>4. replies = <<>>
        BY <2>1, <2>4, TakenAlone
    <3>5. replies' = replies \/ replies' = <<ResolveAnswer(DemoDomain)>>
        BY <2>4, <3>3, <3>4 DEF Reply
    <3> QED
        BY <2>1, <3>5 DEF Replied
  <2> QED
      BY <2>2, <2>4 DEF Reply
<1>8. CASE DnsServe
  <2> DEFINE l == "dns"
             m == Head(queue[l])
  <2>1. l \in Listeners /\ queue[l] # <<>> /\ Consume(l) /\ vars' = vars
      BY <1>8 DEF DnsServe, Listeners
  <2>2. \/ replies' = replies
        \/ \E cells \in DnsReplies(Cells(m.body)) : Reply(m.from, [proto |-> "dns", cells |-> cells])
      BY <1>8 DEF DnsServe
  <2>3. CASE m.from = "demo" /\ replies' # replies
    <3>1. PICK cells \in DnsReplies(Cells(m.body)) : Reply(m.from, [proto |-> "dns", cells |-> cells])
        BY <2>2, <2>3
    <3> DEFINE body == [proto |-> "dns", cells |-> cells]
    <3>2. replies = <<>> /\ IsRequest(step, m.body)
        BY <2>1, <2>3, TakenAlone
    <3>3. replies' = <<body>>
        BY <2>3, <3>1, <3>2 DEF Reply
    <3>4. body.proto = "dns" /\ body.cells = cells
        OBVIOUS
    <3> HIDE DEF body
    <3>5. ASSUME step = 5 PROVE cells \in DnsReplies(NativeQuery)
      <4>1. m.body.proto = "dns"
          BY <3>2, <3>5 DEF IsRequest, ProtoOf
      <4>2. Speaks(m, sent)
          BY <2>1, ConsumeSpeaks DEF Origins, Queued
      <4>3. m.body = DnsMessage(NativeQuery)
          BY <2>3, <4>1, <4>2 DEF Speaks
      <4>4. m.body.cells = NativeQuery
          BY <4>3 DEF DnsMessage
      <4> QED
          BY <3>1, <4>1, <4>4 DEF Cells
    <3> QED
        BY <2>1, <3>3, <3>4, <3>5 DEF Replied
  <2> QED
      BY <2>2, <2>3 DEF Reply
<1> QED
    BY <1>1, <1>2, <1>3, <1>4, <1>5, <1>6, <1>7, <1>8 DEF NodeStep, ApiStep

\* The resolver shows what is kept.
LEMMA ResolveShows ==
    ASSUME Kept
    PROVE  ShowsOwner(ResolveAnswer(DemoDomain))
<1>1. CASE regs[DemoDomain] = None
  <2>1. ResolveAnswer(DemoDomain).owner = None
      BY <1>1 DEF ResolveAnswer
  <2>2. sent # 0 /\ DemoClient # None
      BY <1>1, DemoAssumption DEF Kept, Owns
  <2> QED
      BY <2>1, <2>2 DEF ShowsOwner
<1>2. CASE regs[DemoDomain] # None
  <2>1. /\ ResolveAnswer(DemoDomain).owner = regs[DemoDomain].client
        /\ ResolveAnswer(DemoDomain).records = regs[DemoDomain].records
      BY <1>2 DEF ResolveAnswer
  <2> QED
      BY <1>2, <2>1 DEF ShowsOwner, Kept, Owns
<1> QED
    BY <1>1, <1>2


\* Nothing changes for what the demo sees, or the other client speaks.
LEMMA ShowsUnchanged ==
    ASSUME Shows, UNCHANGED <<step, replies, answers, regs, claims>>, sent' = 0 => sent = 0
    PROVE  Shows'
<1>1. Acked' => Acked
    BY DEF Acked, AckRead
<1>2. Kept => Kept'
    BY DEF Kept, Owns
<1>3. \A r : (ShowsOwner(r) => ShowsOwner(r)') /\ (ShowsRecords(r) => ShowsRecords(r)')
    BY DEF ShowsOwner, ShowsRecords
<1> QED
    BY <1>1, <1>2, <1>3 DEF Shows, AckRead

\* The node's steps show what it acknowledged, from the acknowledgement on.
LEMMA NodeShows ==
    ASSUME IInv, Typed, MutexHeld, OneInFlight, OneInFlight', Origins, Shows, NodeStep,
           UNCHANGED <<step, sentAt, answers, sent>>
    PROVE  Shows'
<1>1. step # 0 => replies' = replies \/ Replied
    BY NodeReplied
<1>2. \A body, r : replies' = <<body>> => replies'[1] = body
    OBVIOUS
<1>3. ResolveAnswer(DemoDomain).proto = "resolve"
    BY DEF ResolveAnswer
<1>4. (AckRead' <=> AckRead) /\ \A r : IsAck(r) => r.proto = "api"
    BY DEF AckRead, IsAck
<1>5. \A r : /\ ShowsOwner(r) => ShowsOwner(r)'
             /\ ShowsRecords(r) => ShowsRecords(r)'
    BY DEF ShowsOwner, ShowsRecords
<1>6. ASSUME Acked' PROVE Kept'
  <2>1. CASE Acked
    <3>1. Kept
        BY <2>1 DEF Shows
    <3>2. CASE ApiStep
        BY <2>1, <3>1, <3>2, ApiKept
    <3>3. CASE ~ ApiStep
      <4>1. UNCHANGED <<regs, claims>>
          BY <3>3 DEF NodeStep, Main, Bind, RateLimited, Verified, ResolverServe, DnsServe, vars
      <4> QED
          BY <3>1, <4>1 DEF Kept, Owns
    <3> QED
        BY <3>2, <3>3
  <2>2. CASE ~ Acked
    <3>1. step = 3 /\ IsAck(replies'[1]) /\ replies' # replies
        BY <1>4, <1>6, <2>2 DEF Acked
    <3>2. Replied
        BY <1>1, <3>1
    <3>3. ApiSetRecords /\ work.msg.from = "demo"
        BY <1>2, <1>3, <3>1, <3>2 DEF Replied, IsAck
    <3> QED
        BY <3>3, SetKept
  <2> QED
      BY <2>1, <2>2
<1>7. ASSUME step = 4, replies' # <<>>, replies'[1].proto = "resolve", AckRead
      PROVE  ShowsOwner(replies'[1])
  <2>1. CASE replies' = replies
      BY <1>7, <2>1 DEF Shows
  <2>2. CASE replies' # replies
    <3>1. Replied
        BY <1>1, <1>7, <2>2
    <3>2. replies'[1] = ResolveAnswer(DemoDomain)
        BY <1>2, <1>7, <3>1 DEF Replied
    <3>3. Kept
        BY <1>7 DEF Shows, Acked
    <3> QED
        BY <3>2, <3>3, ResolveShows
  <2> QED
      BY <2>1, <2>2
<1>8. ASSUME step = 5, replies' # <<>>, AckRead
      PROVE  ShowsRecords(replies'[1])
  <2>1. CASE replies' = replies
      BY <1>8, <2>1 DEF Shows
  <2>2. CASE replies' # replies
    <3>1. Replied
        BY <1>1, <1>8, <2>2
    <3>2. replies'[1].proto = "dns"
      <4>1. CASE sentAt = None
        <5>1. replies' = <<>>
            BY <1>8, <4>1 DEF OneInFlight, Quiet
        <5> QED
            BY <1>8, <5>1
      <4>2. CASE sentAt # None
        <5>1. InFlight(step)'
            BY <1>8, <4>2 DEF OneInFlight
        <5>2. IsReply(5, replies'[1])
            BY <1>8, <5>1 DEF InFlight
        <5> QED
            BY <5>2 DEF IsReply, ProtoOf
      <4> QED
          BY <4>1, <4>2
    <3>3. replies'[1].cells \in DnsReplies(NativeQuery)
        BY <1>2, <1>3, <1>8, <3>1, <3>2 DEF Replied
    <3>4. Kept
        BY <1>8 DEF Shows, Acked
    <3>5. TypeOK
        BY DEF IInv
    <3>6. ASSUME sent = 0 PROVE replies'[1].cells[4] = Len(Keep(RecordsOf[DemoRecords], Addressed))
      <4>1. Owns(DemoClient, DemoDomain) /\ regs[DemoDomain].records = DemoRecords
          BY <3>4, <3>6 DEF Kept
      <4> QED
          BY <3>3, <3>5, <4>1, NativeShows
    <3> QED
        BY <3>6 DEF ShowsRecords
  <2> QED
      BY <2>1, <2>2
<1>9. (step = 4 /\ replies' # <<>> /\ replies'[1].proto = "resolve" /\ AckRead)
         => ShowsOwner(replies[1])'
  <2> SUFFICES ASSUME step = 4, replies' # <<>>, replies'[1].proto = "resolve", AckRead
               PROVE  ShowsOwner(replies[1])'
      OBVIOUS
  <2>1. ShowsOwner(replies'[1])
      BY <1>7
  <2> QED
      BY <2>1 DEF ShowsOwner
<1>10. (step = 5 /\ replies' # <<>> /\ AckRead) => ShowsRecords(replies[1])'
  <2> SUFFICES ASSUME step = 5, replies' # <<>>, AckRead PROVE ShowsRecords(replies[1])'
      OBVIOUS
  <2>1. ShowsRecords(replies'[1])
      BY <1>8
  <2> QED
      BY <2>1 DEF ShowsRecords
<1>11. /\ Len(answers) >= 4 /\ AckRead => ShowsOwner(answers[4])'
       /\ Len(answers) = 5 /\ AckRead => ShowsRecords(answers[5])'
  <2>1. /\ Len(answers) >= 4 /\ AckRead => ShowsOwner(answers[4])
        /\ Len(answers) = 5 /\ AckRead => ShowsRecords(answers[5])
      BY DEF Shows
  <2> QED
      BY <2>1 DEF ShowsOwner, ShowsRecords
<1>12. AckRead' <=> AckRead
    BY DEF AckRead
<1> QED
    BY <1>6, <1>9, <1>10, <1>11, <1>12 DEF Shows

\* The demo reads what it is shown.
LEMMA ReceiveShows ==
    ASSUME Typed, OneInFlight, RepliesRead, Shows, DemoReceive
    PROVE  Shows'
<1> DEFINE r == replies[1]
<1>1. /\ step \in 1 .. 5 /\ sentAt # None /\ replies # <<>>
      /\ replies' = Tail(replies)
      /\ UNCHANGED <<regs, claims, sent>>
      /\ \/ /\ step = 5 \/ Head(replies).proto = DemoRequest(step).proto
            /\ step' = step + 1 /\ answers' = Append(answers, Head(replies))
         \/ step' = 0 /\ answers' = answers
    BY DEF DemoReceive, vars
<1>2. replies = <<r>> /\ IsReply(step, r)
    BY <1>1 DEF OneInFlight, InFlight
<1>3. Head(replies) = r /\ replies' = <<>>
  <2>1. \A x : Head(<<x>>) = x /\ Tail(<<x>>) = <<>>
      OBVIOUS
  <2> HIDE DEF r
  <2> QED
      BY <1>1, <1>2, <2>1, Zenon
<1>4. /\ Kept => Kept'
      /\ \A x : (ShowsOwner(x) => ShowsOwner(x)') /\ (ShowsRecords(x) => ShowsRecords(x)')
    BY <1>1 DEF Kept, Owns, ShowsOwner, ShowsRecords
<1>5. CASE step' = 0 /\ answers' = answers
  <2>1. ~ Acked' /\ (AckRead' <=> AckRead)
      BY <1>5 DEF Acked, AckRead
  <2>2. /\ Len(answers) >= 4 /\ AckRead => ShowsOwner(answers[4])
        /\ Len(answers) = 5 /\ AckRead => ShowsRecords(answers[5])
      BY DEF Shows
  <2>3. /\ Len(answers') >= 4 /\ AckRead => ShowsOwner(answers[4])'
        /\ Len(answers') = 5 /\ AckRead => ShowsRecords(answers[5])'
      BY <1>1, <1>5, <2>2 DEF ShowsOwner, ShowsRecords
  <2> QED
      BY <1>3, <1>5, <2>1, <2>3 DEF Shows
<1>6. CASE /\ step = 5 \/ Head(replies).proto = DemoRequest(step).proto
           /\ step' = step + 1 /\ answers' = Append(answers, Head(replies))
  <2>1. Len(answers) = step - 1
      BY <1>1 DEF RepliesRead
  <2> DEFINE T == {answers[i] : i \in 1 .. Len(answers)} \cup {r}
  <2>2. answers \in Seq(T) /\ r \in T
      BY DEF RepliesRead
  <2> HIDE DEF T, r
  <2>3. /\ Len(answers') = Len(answers) + 1
        /\ \A i \in 1 .. Len(answers) : answers'[i] = answers[i]
        /\ answers'[Len(answers) + 1] = r
    <3>1. /\ Len(Append(answers, r)) = Len(answers) + 1
          /\ \A i \in 1 .. Len(answers) : Append(answers, r)[i] = answers[i]
          /\ Append(answers, r)[Len(answers) + 1] = r
        BY <2>2, AppendFacts
    <3> QED
        BY <1>3, <1>6, <3>1, Zenon
  <2>4. Len(answers') = step /\ answers'[step] = r /\ \A i \in 1 .. step - 1 : answers'[i] = answers[i]
    <3>1. Len(answers) + 1 = step
        BY <1>1, <2>1
    <3> QED
        BY <2>1, <2>3, <3>1
  <2>5. step # 5 => r.proto = ProtoOf[step]
      BY <1>1, <1>3, <1>6, DemoRequestFacts
  <2>6. ProtoOf[3] = "api" /\ ProtoOf[4] = "resolve"
      BY DEF ProtoOf
  <2>7. step \in 4 .. 5 => (AckRead' <=> AckRead) /\ (AckRead => Kept)
    <3>1. step \in 4 .. 5 => 3 \in 1 .. step - 1
        OBVIOUS
    <3>2. step \in 4 .. 5 => answers'[3] = answers[3]
        BY <2>4, <3>1
    <3> QED
        BY <3>2 DEF AckRead, Shows, Acked
  <2>8. ASSUME Acked' PROVE Kept'
    <3>1. step \in 3 .. 5 /\ AckRead'
        BY <1>1, <1>3, <1>6, <2>8 DEF Acked
    <3>2. CASE step = 3
      <4>1. IsAck(r)
          BY <2>4, <2>5, <2>6, <3>1, <3>2 DEF IsAck, AckRead
      <4> QED
          BY <1>1, <1>4, <3>2, <4>1 DEF Shows, Acked, r
    <3>3. CASE step \in 4 .. 5
        BY <1>4, <2>7, <3>1, <3>3
    <3> QED
        BY <3>1, <3>2, <3>3
  <2>9. ASSUME Len(answers') >= 4, AckRead' PROVE ShowsOwner(answers[4])'
    <3>1. step \in 4 .. 5 /\ AckRead
        BY <1>1, <2>4, <2>7, <2>9
    <3>2. ShowsOwner(answers'[4])
      <4>1. CASE step = 4
        <5>1. ShowsOwner(r)
            BY <1>1, <2>5, <2>6, <3>1, <4>1 DEF Shows, r
        <5> QED
            BY <2>4, <4>1, <5>1
      <4>2. CASE step = 5
        <5>1. Len(answers) >= 4 /\ 4 \in 1 .. step - 1
            BY <2>1, <4>2
        <5>2. ShowsOwner(answers[4])
            BY <3>1, <5>1 DEF Shows
        <5> QED
            BY <2>4, <5>1, <5>2
      <4> QED
          BY <3>1, <4>1, <4>2
    <3> QED
        BY <1>1, <3>2 DEF ShowsOwner
  <2>10. ASSUME Len(answers') = 5, AckRead' PROVE ShowsRecords(answers[5])'
    <3>1. step = 5 /\ AckRead
        BY <2>4, <2>7, <2>10
    <3>2. ShowsRecords(r)
        BY <1>1, <3>1 DEF Shows, r
    <3>3. ShowsRecords(answers'[5])
        BY <2>4, <3>1, <3>2
    <3> QED
        BY <1>1, <3>3 DEF ShowsRecords
  <2> QED
      BY <1>3, <2>8, <2>9, <2>10 DEF Shows
<1> QED
    BY <1>1, <1>5, <1>6

\* What was acknowledged is shown, whatever happens.
LEMMA ShowsPreserved ==
    ASSUME IInv, Typed, MutexHeld, OneInFlight, OneInFlight', RepliesRead, Origins, Shows,
           [SystemNext]_systemVars
    PROVE  Shows'
<1>1. CASE NodeStep /\ UNCHANGED <<demoVars, sent>>
    BY <1>1, NodeShows DEF demoVars
<1>2. CASE DemoReceive
    BY <1>2, ReceiveShows
<1>3. CASE DemoSend \/ Tick \/ UNCHANGED systemVars
    BY <1>3, ShowsUnchanged DEF DemoSend, Tick, systemVars, nodeVars, vars, demoVars, store
<1>4. CASE OtherSends
  <2>1. sent' # 0
      BY <1>4 DEF OtherSends, Typed
  <2> QED
      BY <1>4, <2>1, ShowsUnchanged DEF OtherSends, vars, demoVars
<1>5. CASE DemoGivesUp
  <2>1. step' = 0 /\ UNCHANGED <<replies, answers, regs, claims, sent>>
      BY <1>5 DEF DemoGivesUp, nodeVars, vars
  <2>2. ~ Acked' /\ (AckRead' <=> AckRead)
      BY <2>1 DEF Acked, AckRead
  <2>3. /\ Len(answers) >= 4 /\ AckRead => ShowsOwner(answers[4])
        /\ Len(answers) = 5 /\ AckRead => ShowsRecords(answers[5])
      BY DEF Shows
  <2>4. /\ Len(answers') >= 4 /\ AckRead => ShowsOwner(answers[4])'
        /\ Len(answers') = 5 /\ AckRead => ShowsRecords(answers[5])'
      BY <2>1, <2>3 DEF ShowsOwner, ShowsRecords
  <2> QED
      BY <2>1, <2>2, <2>4 DEF Shows
<1> QED
    BY <1>1, <1>2, <1>3, <1>4, <1>5 DEF SystemNext

\* What the client API acknowledged, both lookup protocols show: once its records are
\* set the demo finds its own key and all of them, and over DNS each A record that has
\* an encoding; and when others' requests came between, a name that is still its own
\* still has these records.
THEOREM AcknowledgedIsShown == SystemSpec => []DemoSeesItsRecords
<1> DEFINE J == /\ IInv /\ Typed /\ MutexHeld /\ Bound /\ OneInFlight /\ RepliesRead
                /\ Origins /\ Shows
<1>1. SystemInit => J
  <2> SUFFICES ASSUME SystemInit PROVE J
      OBVIOUS
  <2>1. IInv
      BY InitEstablishes DEF SystemInit, NodeInit
  <2>2. /\ step = 1 /\ answers = <<>> /\ work = None /\ pc = "idle" /\ sent = 0
        /\ \A l \in Listeners : queue[l] = <<>>
      BY DEF SystemInit, NodeInit, Init
  <2>3. Origins
      BY <2>2 DEF Origins, Stages
  <2>4. Shows
      BY <2>2 DEF Shows, Acked
  <2> QED
      BY <2>1, <2>3, <2>4, InitTyped, InitBound, InitFlight
<1>2. J /\ [SystemNext]_systemVars => J'
  <2> SUFFICES ASSUME J, [SystemNext]_systemVars PROVE J'
      OBVIOUS
  <2>1. IInv' /\ Typed' /\ MutexHeld' /\ Bound' /\ RepliesRead' /\ Origins'
      BY SystemTyped, MutexPreserved, BoundPreserved, RepliesPreserved, OriginsPreserved,
         SystemStepsRegistry, NextPreserves
  <2>2. OneInFlight'
      BY FlightPreserved
  <2>3. Shows'
      BY <2>2, ShowsPreserved
  <2> QED
      BY <2>1, <2>2, <2>3
<1>3. J => DemoSeesItsRecords
  <2> SUFFICES ASSUME Shows, Len(answers) >= 4, AckRead
               PROVE  /\ sent = 0 => answers[4].owner = DemoClient
                      /\ answers[4].owner = DemoClient => answers[4].records = DemoRecords
                      /\ Len(answers) = 5 /\ sent = 0 =>
                           answers[5].cells[4] = Len(Keep(RecordsOf[DemoRecords], Addressed))
      BY DEF DemoSeesItsRecords, AckRead, Addressed
  <2> QED
      BY DEF Shows, ShowsOwner, ShowsRecords
<1> QED
    BY <1>1, <1>2, <1>3, PTL DEF SystemSpec
=============================================================================
