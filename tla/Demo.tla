-------------------------------- MODULE Demo --------------------------------
(***************************************************************************)
(* The daemon with its clients: the demo client (crates/binda/examples     *)
(* client_demo.rs), which probes, registers a name, publishes records and  *)
(* looks them up over both protocols, one request at a time on the         *)
(* loopback interface; and another client, whose datagrams come at any     *)
(* time.                                                                   *)
(***************************************************************************)
EXTENDS Node

CONSTANTS
    DemoClient,     \* the demo's identity
    DemoDomain,     \* the name it registers
    DemoRecords,    \* the records it publishes
    DemoTimeout,    \* the read time-out of its socket
    DemoLine,       \* the command line its documentation starts the node with
    OtherClient,    \* the identity of the other client
    DnsQueries,     \* DNS messages, well formed or not
    MaxSent         \* bound: how many datagrams it sends

ASSUME DemoAssumption ==
    /\ {DemoClient, OtherClient} \subseteq Clients /\ DemoClient \notin {OtherClient, None}
    /\ DemoDomain \in Domains /\ DemoRecords \in Records
ASSUME DemoBoundsAssumption ==
    MaxSent \in Nat /\ QueueLen \in Nat /\ MaxVerify \in Nat /\ DemoTimeout \in Nat
ASSUME DnsQueriesAssumption == DnsQueries \subseteq Seq(Nat)

VARIABLES
    step,       \* the demo's next request, 6 when all are answered, 0 after a panic
    sentAt,     \* when it sent the request it waits for, or None
    answers,    \* the responses it has read
    sent        \* how many datagrams the other client has sent

demoVars == <<step, sentAt, answers>>
systemVars == <<nodeVars, demoVars, sent>>

\* The listeners of the demo's five requests, at the addresses it expects them.
DemoAddr == <<"127.0.0.1:9532", "127.0.0.1:9532", "127.0.0.1:9532", "127.0.0.1:9531", "127.0.0.1:9533">>

ApiRequest(kind, c, ts, d, recs) ==
    LET r == [proto |-> "api", kind |-> kind, client |-> c, ts |-> ts, domain |-> d,
              records |-> recs, sig |-> None]
    IN [r EXCEPT !.sig = Message(r)]

ResolveQuery(d) == [proto |-> "resolve", kind |-> "resolve", domain |-> d]
DnsMessage(cells) == [proto |-> "dns", kind |-> "dns", cells |-> cells]

\* The query for the demo's A record, as client_demo.rs spells it out.
NativeQuery ==
    <<4660, 256, 1, 0, 0, 0>> \o EncodeLabels(Labels(DomainText[DemoDomain]))
        \o <<RecordTypeCode["A"], ClassIn>>

DemoRequest(i) ==
    CASE i = 1 -> ApiRequest("probe", DemoClient, now, DemoDomain, NoRecords)
      [] i = 2 -> ApiRequest("register", DemoClient, now, DemoDomain, NoRecords)
      [] i = 3 -> ApiRequest("set", DemoClient, now, DemoDomain, DemoRecords)
      [] i = 4 -> ResolveQuery(DemoDomain)
      [] i = 5 -> DnsMessage(NativeQuery)

SystemInit ==
    /\ NodeInit
    /\ step = 1 /\ sentAt = None /\ answers = <<>> /\ sent = 0

\* The demo sends its next request.  It is started once the node has printed
\* that its listeners are up.
DemoSend ==
    /\ Started /\ step \in 1 .. 5 /\ sentAt = None
    /\ Send(DemoAddr[step], DemoRequest(step), "demo")
    /\ sentAt' = now
    /\ UNCHANGED <<vars, daemon, work, replies, step, answers, sent>>

\* recv_from and decode: a response of another protocol is a panic, except that
\* what comes last is taken for a DNS response whatever it is.
DemoReceive ==
    /\ step \in 1 .. 5 /\ sentAt # None /\ replies # <<>>
    /\ LET reply == Head(replies)
       IN IF step = 5 \/ reply.proto = DemoRequest(step).proto
          THEN step' = step + 1 /\ answers' = Append(answers, reply)
          ELSE step' = 0 /\ UNCHANGED answers
    /\ replies' = Tail(replies)
    /\ sentAt' = None
    /\ UNCHANGED <<vars, daemon, queue, work, sent>>

\* Mutant: a request that timed out is counted as an error, and the next one sent.
MutantDemoGivesUp ==
    /\ step \in 1 .. 5 /\ sentAt # None /\ replies = <<>>
    /\ now >= sentAt + DemoTimeout
    /\ step' = step + 1 /\ sentAt' = None
    /\ answers' = Append(answers, [proto |-> DemoRequest(step).proto,
                                  of |-> DemoRequest(step).kind, response |-> "Error"])
    /\ UNCHANGED <<nodeVars, sent>>

\* expect("recv response"): the read times out.
DemoGivesUp ==
    /\ step \in 1 .. 5 /\ sentAt # None /\ replies = <<>>
    /\ now >= sentAt + DemoTimeout
    /\ step' = 0 /\ sentAt' = None
    /\ UNCHANGED <<nodeVars, answers, sent>>

\* Datagrams of the other client: its probe; its register, signed as such or not;
\* one the client API cannot decode, and one the DNS listener cannot parse.
OtherDatagrams ==
    LET probe == ApiRequest("probe", OtherClient, now, DemoDomain, NoRecords)
        register == ApiRequest("register", OtherClient, now, DemoDomain, NoRecords)
    IN {<<1, probe>>, <<1, register>>, <<1, [register EXCEPT !.sig = probe.sig]>>,
        <<1, ResolveQuery(DemoDomain)>>, <<5, DnsMessage(<<>>)>>}

OtherSends ==
    /\ Started /\ sent < MaxSent
    /\ \E m \in OtherDatagrams : Send(DemoAddr[m[1]], m[2], "other")
    /\ sent' = sent + 1
    /\ UNCHANGED <<vars, daemon, work, replies, demoVars>>

\* Time passes only while nobody has anything to do but to wait.
Tick ==
    /\ ~ NodeBusy /\ ~ (sentAt # None /\ replies # <<>>)
    /\ sentAt # None => now < sentAt + DemoTimeout
    /\ now < MaxTime /\ now' = now + 1
    /\ UNCHANGED <<store, pc, req, todo, daemon, queue, work, replies, demoVars, sent>>

SystemNext ==
    \/ NodeStep /\ UNCHANGED <<demoVars, sent>>
    \/ DemoSend \/ DemoReceive \/ DemoGivesUp
    \/ OtherSends
    \/ Tick

\* The daemon's tasks run when they can, and so does the demo.  Nothing is assumed
\* of the verifier, of the other client or of time.
SystemSpec ==
    /\ SystemInit /\ [][SystemNext]_systemVars
    /\ WF_systemVars(Main /\ UNCHANGED <<demoVars, sent>>)
    /\ \A l \in Listeners : WF_systemVars(Bind(l) /\ UNCHANGED <<demoVars, sent>>)
    /\ WF_systemVars(ApiStep /\ UNCHANGED <<demoVars, sent>>)
    /\ WF_systemVars(ResolverServe /\ UNCHANGED <<demoVars, sent>>)
    /\ WF_systemVars(DnsServe /\ UNCHANGED <<demoVars, sent>>)
    /\ WF_systemVars(DemoSend) /\ WF_systemVars(DemoReceive)

-----------------------------------------------------------------------------
(* Properties                                                              *)

\* What travels: requests of the client API, signed as one or another of them, and
\* lookups over both protocols.
Kinds == {"probe", "register", "set"}
Signatures ==
    {Message(r) : r \in [kind : Kinds, domain : Domains, ts : 0 .. MaxTime, records : Records]}
ApiRequests ==
    [proto : {"api"}, kind : Kinds, client : Clients, ts : 0 .. MaxTime,
     domain : Domains, records : Records, sig : Signatures]
Bodies ==
    ApiRequests \cup {ResolveQuery(DemoDomain), DnsMessage(NativeQuery), DnsMessage(<<>>)}
Datagrams ==
    [body : Bodies, from : {"demo", "other"}, arrived : 0 .. MaxTime, ahead : Nat]

\* What the client API has in hand.
WorkItems ==
    [msg : {m \in Datagrams : m.body.proto = "api"}, since : 0 .. MaxTime,
     verified : BOOLEAN, phase : {"verify", "ready", "locked"}]

ASSUME WorkAssumption == None \notin WorkItems

SystemTypeOK ==
    /\ TypeOK
    /\ process \in {"starting", "running", "aborted"}
    /\ args \in Args
    /\ tasks \in [Listeners -> {"unbound", "up", "down"}]
    /\ queue \in [Listeners -> Seq(Datagrams)]
    /\ \A l \in Listeners : Len(queue[l]) <= QueueLen
    /\ work \in WorkItems \cup {None}
    /\ (pc \in {"reclaim", "reconcile", "attach"}) <=> (work # None /\ work.phase = "locked")
    /\ step \in 0 .. 6 /\ sentAt \in Nat \cup {None}
    /\ sent \in 0 .. MaxSent

\* Where a word stands on the command line.
Positions(word) == {i \in 1 .. Len(cmdline) : cmdline[i] = word}

\* A node that runs has an address after every flag that needs one; main goes on
\* without the listeners that could not bind, and those that serve do it where the
\* last of their flags said, or at their default address, and DNS only where told.
\* No datagram is for two of them: sockets bound at an address and at 0.0.0.0 with
\* its port never serve together.
ListenersAsTold ==
    process = "running" =>
        /\ \A flag \in ValueFlags : \A i \in Positions(flag) :
              i < Len(cmdline) /\ cmdline[i + 1] \in Addresses
        /\ \A flag \in DOMAIN FieldOf :
              LET l == FieldOf[flag]
              IN tasks[l] = "up" =>
                    /\ Positions(flag) = {} => l # "dns" /\ args[l] = DefaultAddr[l]
                    /\ \A i \in Positions(flag) :
                          (\A j \in Positions(flag) : j <= i) => args[l] = cmdline[i + 1]
        /\ \A l \in Listeners : \A k \in Listeners \ {l} :
              tasks[l] = "up" /\ tasks[k] = "up" => Covers[args[l]] \cap Covers[args[k]] = {}

\* A name is only ever held by a client whose source address confirmed its
\* hostname, unless the operator asked for the check to be skipped.
HeldNamesWereConfirmed ==
    \A d \in Domains :
        regs[d] # None => regs[d].client \in Confirmable \/ Insecure \in ToSet(cmdline)

\* A client request waits for the verifications of the Registers in front of it,
\* each as long as a verification may take, and for nothing else.
ApiWaitBounded ==
    /\ \A i \in 1 .. Len(queue["api"]) :
         now - queue["api"][i].arrived <= MaxVerify * queue["api"][i].ahead
    /\ work # None =>
         now - work.msg.arrived <=
            MaxVerify * (work.msg.ahead + IF work.msg.body.kind = "register" THEN 1 ELSE 0)

\* Whatever the registry holds, a reader of the DNS reply to a query finds its
\* identifier, type and class, NXDOMAIN exactly for names nobody holds, and in order
\* exactly the records of the queried type that have an encoding, as many as the
\* header announces.  The question it finds is the name split at its dots, and not
\* "verbatim" the labels that were asked: a label spelled "x.y" comes back as two.
DnsAnswerFaithful ==
    \A m \in DnsQueries : \A q \in {ParseQuery(m)} \ {Malformed}, reply \in DnsReplies(m) :
        LET question == ReadLabels(reply, HeaderCells + 1)
            wanted == Keep(RecordsAt(q.domain),
                           {r \in Record : /\ EncodeRdata(r) # Malformed
                                           /\ q.qtype \in {QtypeAny, RecordTypeCode[r.type]}})
            Read(r) == [labels |-> Labels(q.domain), code |-> RecordTypeCode[r.type],
                        ttl |-> r.ttl, rdata |-> EncodeRdata(r)]
        IN /\ reply[1] = m[1] /\ reply[3] = 1
           /\ (reply[2] = Authoritative + RcodeNxdomain) <=> (Registered(q.domain) = {})
           /\ question.labels = Labels(q.domain)
           /\ reply[question.next] = q.qtype /\ reply[question.next + 1] = q.qclass
           /\ reply[4] = Len(wanted)
           /\ ReadAnswers(reply, question.next + 2) = [i \in 1 .. Len(wanted) |-> Read(wanted[i])]

\* Each response the demo reads is the one to the request it has just sent: a late
\* response is never taken for the next request's.
DemoAnswersMatch ==
    \A i \in 1 .. Len(answers) :
        /\ answers[i].proto = DemoRequest(i).proto
        /\ answers[i].proto = "api" => answers[i].of = DemoRequest(i).kind

\* What the client API acknowledged, both lookup protocols show.  Once its records
\* are set the demo finds its own key and all of them, and over DNS each A record
\* that has an encoding; when other requests came between, a name that is still its
\* own still has these records.
DemoSeesItsRecords ==
    Len(answers) >= 4 /\ answers[3].response = "RecordsSet" =>
        /\ sent = 0 => answers[4].owner = DemoClient
        /\ answers[4].owner = DemoClient => answers[4].records = DemoRecords
        /\ Len(answers) = 5 /\ sent = 0 =>
             LET shown == {r \in Record : r.type = "A" /\ EncodeRdata(r) # Malformed}
             IN answers[5].cells[4] = Len(Keep(RecordsOf[DemoRecords], shown))

\* No lookup waits for classic DNS: the resolver and the DNS listener answer all
\* they are asked though a verification never ends.
LookupsAnswered ==
    \A l \in {"resolver", "dns"} : (tasks[l] = "up" /\ queue[l] # <<>>) ~> queue[l] = <<>>

\* The demo has set its records and then waited for an answer with them that no
\* datagram holds.
RecordsWithheld ==
    /\ ~ Fits([proto |-> "resolve", owner |-> DemoClient, records |-> DemoRecords])
    /\ Len(answers) = 3
    /\ step = 4 => sentAt # None /\ replies = <<>> /\ queue["resolver"] = <<>>

\* "To see the full flow succeed locally, start the node with
\* --insecure-skip-rdns-verification": once the listeners it needs are up, every
\* request of the demo is answered, though other clients come in between; unless
\* the client API has panicked, others have sent enough to fill a buffer, or the
\* records it has set outgrow the datagram that should bring them.
DemoCompletes ==
    (Started /\ cmdline = DemoLine /\ \A l \in {"resolver", "api", "dns"} : tasks[l] = "up")
        ~> (step = 6 \/ pc = "dead" \/ sent >= QueueLen \/ RecordsWithheld)
=============================================================================
