-------------------------------- MODULE Node --------------------------------
(***************************************************************************)
(* The daemon: its command line and start (crates/binda/src/main.rs) and   *)
(* the resolver, client API and DNS listeners of node.rs around the        *)
(* registry store.  The store is Registry, whose stages hold the mutex     *)
(* while pc is neither "idle" nor "dead"; the replies are those of api.rs, *)
(* resolver.rs and Dns.  A node without peers: what gossip does to the     *)
(* store is Registry's AdoptRumor and the subject of Gossip.               *)
(***************************************************************************)
EXTENDS Registry, Dns

CONSTANTS
    Addresses,      \* the texts that parse as a SocketAddr
    Covers,         \* the addresses whose datagrams a socket bound at one receives:
                    \* 0.0.0.0 stands for every address of its port
    Refusable,      \* addresses a bind may be refused for the system's own reasons: a
                    \* privileged port, an address that is not the host's
    DefaultAddr,    \* where each listener is bound unless told otherwise
    CommandLines,   \* the command lines considered
    Confirmable,    \* clients whose source address forward-confirms their rdns
    MaxVerify,      \* the longest a verification takes (Fcrdns: VerifyBounded)
    DomainText,     \* the text of each domain
    RecordsOf,      \* the zone records of each record list
    Fits(_),        \* whether one datagram holds a reply, however long the keys in it
    QueueLen        \* bound: datagrams a socket's buffer holds

Listeners == {"gossip", "resolver", "api", "dns"}

ASSUME AddressesAssumption == DefaultAddr \in [Listeners \ {"dns"} -> Addresses]
ASSUME CoversAssumption ==
    /\ Covers \in [Addresses -> SUBSET Addresses]
    /\ \A a \in Addresses : a \in Covers[a]
    /\ \A a, b \in Addresses :
          a \in Covers[b] \/ b \in Covers[a] \/ Covers[a] \cap Covers[b] = {}
ASSUME DomainTextAssumption ==
    /\ \A d \in Domains : DomainText[d] \in Seq(Nat \ {NotUtf8}) /\ IsDomainName(DomainText[d])
    /\ \A d, e \in Domains : DomainText[d] = DomainText[e] => d = e
ASSUME RecordsOfAssumption == RecordsOf \in [Records -> Seq(Record)]

VARIABLES
    cmdline,    \* std::env::args
    process,    \* "starting", "running", or "aborted" by a panic of main
    args,       \* what parse_args made of the command line
    tasks,      \* each listener's task: "unbound", "up" or "down"
    queue,      \* the datagrams in each listener's socket
    work,       \* the client API's request in hand, None between requests
    replies     \* the datagrams in the client's socket

daemon == <<cmdline, process, args, tasks>>
nodeVars == <<vars, daemon, queue, work, replies>>

-----------------------------------------------------------------------------
(* Starting                                                                *)

Insecure == "--insecure-skip-rdns-verification"
FieldOf == [flag \in {"--gossip", "--resolver", "--api", "--dns"} |->
               CASE flag = "--gossip" -> "gossip" [] flag = "--resolver" -> "resolver"
                 [] flag = "--api" -> "api" [] flag = "--dns" -> "dns"]

\* The flags a value comes after.
ValueFlags == DOMAIN FieldOf \cup {"--peer"}

ASSUME CommandLinesAssumption == CommandLines \subseteq Seq(STRING)
ASSUME FlagsAssumption ==
    ValueFlags \cap Addresses = {} /\ None \notin ValueFlags \cup Addresses

Args == [gossip : Addresses, resolver : Addresses, api : Addresses,
         dns : Addresses \cup {None}, peers : Seq(Addresses), insecure : BOOLEAN]

DefaultArgs ==
    [gossip |-> DefaultAddr["gossip"], resolver |-> DefaultAddr["resolver"],
     api |-> DefaultAddr["api"], dns |-> None, peers |-> <<>>, insecure |-> FALSE]

\* What one word makes of what was read before it: the values so far and the flag
\* whose value comes next.  An unknown word is ignored, and a value that does not
\* parse is a panic (None).
ReadWord(read, word) ==
    IF read = None THEN None
    ELSE IF read.flag = None
    THEN IF word \in ValueFlags THEN [read EXCEPT !.flag = word]
         ELSE [read EXCEPT !.args.insecure = @ \/ word = Insecure]
    ELSE IF word \notin Addresses THEN None
    ELSE [flag |-> None,
          args |-> IF read.flag = "--peer" THEN [read.args EXCEPT !.peers = Append(@, word)]
                   ELSE [read.args EXCEPT ![FieldOf[read.flag]] = word]]

\* parse_args_from: a flag without a value is a panic too.
ParseArgs(words) ==
    LET read[i \in 0 .. Len(words)] ==
            IF i = 0 THEN [args |-> DefaultArgs, flag |-> None]
            ELSE ReadWord(read[i - 1], words[i])
        last == read[Len(words)]
    IN IF last = None \/ last.flag # None THEN None ELSE last.args

NodeInit ==
    /\ Init
    /\ cmdline \in CommandLines
    /\ process = "starting"
    /\ args = DefaultArgs
    /\ tasks = [l \in Listeners |-> "down"]
    /\ queue = [l \in Listeners |-> <<>>]
    /\ work = None
    /\ replies = <<>>

\* main: parse_args, Node::new or new_allowing_any_rdns, spawn_listener_tasks.
Main ==
    /\ process = "starting"
    /\ LET parsed == ParseArgs(cmdline)
       IN IF parsed = None
          THEN process' = "aborted" /\ UNCHANGED <<args, tasks>>
          ELSE /\ process' = "running"
               /\ args' = parsed
               /\ tasks' = [l \in Listeners |-> IF parsed[l] = None THEN "down" ELSE "unbound"]
    /\ UNCHANGED <<vars, cmdline, queue, work, replies>>

\* A listener that came first receives at the address, or at part of it.
Taken(l) ==
    \E k \in Listeners :
        tasks[k] = "up" /\ (args[l] \in Covers[args[k]] \/ args[k] \in Covers[args[l]])

\* Mutant: the sockets are bound with SO_REUSEADDR.
MutantBind(l) ==
    /\ tasks[l] = "unbound"
    /\ \/ tasks' = [tasks EXCEPT ![l] = "up"]
       \/ args[l] \in Refusable /\ tasks' = [tasks EXCEPT ![l] = "down"]
    /\ UNCHANGED <<vars, cmdline, process, args, queue, work, replies>>

\* UdpSocket::bind of one listener, in whatever order the tasks run.  It fails when
\* the address is taken, and when the system refuses it.  The task then ends; join!
\* lets the others go on.
Bind(l) ==
    /\ tasks[l] = "unbound"
    /\ \/ ~ Taken(l) /\ tasks' = [tasks EXCEPT ![l] = "up"]
       \/ (Taken(l) \/ args[l] \in Refusable) /\ tasks' = [tasks EXCEPT ![l] = "down"]
    /\ UNCHANGED <<vars, cmdline, process, args, queue, work, replies>>

Started == process = "running" /\ \A l \in Listeners : tasks[l] # "unbound"

-----------------------------------------------------------------------------
(* The network                                                             *)

\* The bytes a listener finds in a datagram that is no DNS message: the first
\* two bytes of a JSON text stand where the identifier would be.
Json == <<31522, 0, 0>>
Cells(body) == IF body.proto = "dns" THEN body.cells ELSE Json

\* Registers a datagram that arrives now has to wait for.
RegistersAhead ==
    Cardinality({i \in 1 .. Len(queue["api"]) : queue["api"][i].body.kind = "register"})
      + (IF work # None /\ work.phase = "verify" THEN 1 ELSE 0)

\* A datagram reaches the listener that receives at addr, if there is one and its
\* buffer has room.
Send(addr, body, from) ==
    queue' = [l \in Listeners |->
                IF tasks[l] = "up" /\ addr \in Covers[args[l]] /\ Len(queue[l]) < QueueLen
                THEN Append(queue[l], [body |-> body, from |-> from, arrived |-> now,
                                       ahead |-> RegistersAhead])
                ELSE queue[l]]

\* wire::encode, whose error sends nothing, and send_to, whose error nobody looks at.
Reply(to, body) ==
    \/ replies' = IF to = "demo" THEN Append(replies, body) ELSE replies
    \/ ~ Fits(body) /\ UNCHANGED replies

Consume(l) == queue' = [queue EXCEPT ![l] = Tail(@)]

\* The listener's rate limiter refuses a sender (RateLimiter says when); the demo
\* client stays within its burst.
RateLimited(l) ==
    /\ tasks[l] = "up"
    /\ queue[l] # <<>> /\ Head(queue[l]).from # "demo"
    /\ l = "api" => work = None
    /\ Consume(l)
    /\ UNCHANGED <<vars, daemon, work, replies>>

-----------------------------------------------------------------------------
(* The client API: run_client_api, handle_client_request                   *)

\* What the signature of a request covers: probe_message, register_message,
\* set_records_message.
Message(r) ==
    CASE r.kind = "probe" -> <<"binda-probe", r.ts>>
      [] r.kind = "register" -> <<"binda-register", r.domain, r.ts>>
      [] r.kind = "set" -> <<"binda-set-records", r.domain, r.ts, r.records>>

\* client_api::authenticate
Authentic(r) == IsFresh(r.ts) /\ r.sig = Message(r)

\* Mutants: every request is verified; and a Register is on an insecure node too.
MutantNeedsVerifier(r) == ~ args.insecure
MutantAlwaysVerifies(r) == r.kind = "register"

\* Only a Register waits for the verifier; AllowAllVerifier answers at once.
NeedsVerifier(r) == r.kind = "register" /\ ~ args.insecure

\* recv_from and decode; what does not decode is dropped.
ApiTake ==
    /\ tasks["api"] = "up"
    /\ work = None
    /\ queue["api"] # <<>>
    /\ LET m == Head(queue["api"])
       IN work' = IF m.body.proto # "api" THEN None
                  ELSE [msg |-> m, since |-> now, verified |-> TRUE,
                        phase |-> IF NeedsVerifier(m.body) THEN "verify" ELSE "ready"]
    /\ Consume("api")
    /\ UNCHANGED <<vars, daemon, replies>>

\* Mutant: a verifier that failed (unwrap_or) is taken for a confirmation.
MutantVerified(ok) ==
    /\ work # None /\ work.phase = "verify"
    /\ work' = [work EXCEPT !.phase = "ready", !.verified = TRUE]
    /\ UNCHANGED <<vars, daemon, queue, replies>>

\* The verifier's task ends; no lock is held meanwhile.
Verified(ok) ==
    /\ work # None /\ work.phase = "verify"
    /\ ok => work.msg.body.client \in Confirmable
    /\ work' = [work EXCEPT !.phase = "ready", !.verified = ok]
    /\ UNCHANGED <<vars, daemon, queue, replies>>

\* The response is sent; of is a history field, the request it belongs to.
Respond(response) ==
    /\ Reply(work.msg.from, [proto |-> "api", of |-> work.msg.body.kind, response |-> response])
    /\ work' = None
    /\ UNCHANGED <<daemon, queue>>

Handling(kind) ==
    /\ work # None /\ work.phase = "ready" /\ pc = "idle"
    /\ work.msg.body.kind = kind

ApiProbe ==
    /\ Handling("probe") /\ Authentic(work.msg.body)
    /\ HandleProbe(work.msg.body.client, work.msg.body.ts)
    /\ Respond("ProbeAck")

ApiRegister ==
    /\ Handling("register") /\ Authentic(work.msg.body) /\ work.verified
    /\ HandleRegister(work.msg.body.client, work.msg.body.domain)
    /\ work' = [work EXCEPT !.phase = "locked"]
    /\ UNCHANGED <<daemon, queue, replies>>

ApiSetRecords ==
    /\ Handling("set") /\ Authentic(work.msg.body)
    /\ HandleSetRecords(work.msg.body.client, work.msg.body.domain, work.msg.body.records)
    /\ Respond("RecordsSet")

\* set_records finds the client's own registration.
Owns(c, d) == regs[d] # None /\ regs[d].client = c

\* The errors that leave the store as it is.
ApiError ==
    /\ \E kind \in {"probe", "register", "set"} : Handling(kind)
    /\ LET r == work.msg.body
       IN \/ ~ Authentic(r)
          \/ r.kind = "register" /\ (~ work.verified \/ ~ IsLive(HostOf[r.client]))
          \/ r.kind = "set" /\ ~ Owns(r.client, r.domain)
    /\ Respond("Error")
    /\ UNCHANGED vars

\* The stages of a register under the mutex, up to its response.
ApiStage ==
    /\ ReclaimStale \/ (\E h \in Hosts : ReconcileNext(h)) \/ (\E n \in Nonces : Issue(n))
    /\ UNCHANGED <<daemon, queue, work, replies>>
ApiRefuse == Refuse /\ Respond("Error")
ApiAttach == AttachRumor /\ Respond("Registered")

\* Mutant: the panic is caught, the request stays in hand.
MutantApiPanic == Panic /\ UNCHANGED <<daemon, queue, work, replies>>

\* The panic ends the client API's task and closes its socket; no other task ends.
ApiPanic ==
    /\ Panic
    /\ tasks' = [tasks EXCEPT !["api"] = "down"]
    /\ queue' = [queue EXCEPT !["api"] = <<>>]
    /\ work' = None
    /\ UNCHANGED <<cmdline, process, args, replies>>

ApiStep ==
    \/ ApiTake \/ ApiProbe \/ ApiRegister \/ ApiSetRecords \/ ApiError
    \/ ApiStage \/ ApiRefuse \/ ApiAttach \/ ApiPanic

-----------------------------------------------------------------------------
(* Lookups: run_resolver, run_dns                                          *)

\* Mutant: the mutex is taken before the verifier is waited for.
MutantMutexFree ==
    pc \in {"idle", "dead"} /\ (work # None => work.phase # "verify")

MutexFree == pc \in {"idle", "dead"}

\* Mutant: the records are those of the claim behind the registration.
MutantResolveAnswer(d) ==
    IF regs[d] = None \/ claims[regs[d].host][d] = None
    THEN [proto |-> "resolve", owner |-> None, records |-> NoRecords]
    ELSE [proto |-> "resolve", owner |-> regs[d].client,
          records |-> claims[regs[d].host][d].records]

\* ResolveAnswer
ResolveAnswer(d) ==
    IF regs[d] = None THEN [proto |-> "resolve", owner |-> None, records |-> NoRecords]
    ELSE [proto |-> "resolve", owner |-> regs[d].client, records |-> regs[d].records]

ResolverServe ==
    /\ tasks["resolver"] = "up"
    /\ queue["resolver"] # <<>>
    /\ LET m == Head(queue["resolver"])
       IN IF m.body.proto # "resolve" THEN UNCHANGED replies
          ELSE MutexFree /\ Reply(m.from, ResolveAnswer(m.body.domain))
    /\ Consume("resolver")
    /\ UNCHANGED <<vars, daemon, work>>

Registered(text) == {d \in Domains : regs[d] # None /\ DomainText[d] = text}

\* The zone records the node holds for a name.
RecordsAt(text) ==
    IF Registered(text) = {} THEN <<>>
    ELSE RecordsOf[regs[CHOOSE d \in Registered(text) : TRUE].records]

\* The response to a query that was parsed.
DnsResponse(q) ==
    BuildResponse(q, Registered(q.domain) # {},
                  Keep(RecordsAt(q.domain), {r \in Record : RecordMatchesQtype(r, q.qtype)}))

\* The answers to a message: none when not even its identifier can be read.
DnsReplies(m) ==
    {DnsResponse(q) : q \in {ParseQuery(m)} \ {Malformed}}
      \cup {BuildErrorResponse(m[1], RcodeFormatError) :
              q \in IF m = <<>> THEN {} ELSE {ParseQuery(m)} \cap {Malformed}}

DnsServe ==
    /\ tasks["dns"] = "up"
    /\ queue["dns"] # <<>>
    /\ ParseQuery(Cells(Head(queue["dns"]).body)) # Malformed => MutexFree
    /\ LET m == Head(queue["dns"])
       IN \/ /\ Cells(m.body) = <<>>
             /\ UNCHANGED replies
          \/ \E cells \in DnsReplies(Cells(m.body)) : Reply(m.from, [proto |-> "dns", cells |-> cells])
    /\ Consume("dns")
    /\ UNCHANGED <<vars, daemon, work>>

\* A task that is not waiting for the verifier has work of microseconds to do.
NodeBusy ==
    \/ process = "starting" \/ \E l \in Listeners : tasks[l] = "unbound"
    \/ \E l \in Listeners \ {"gossip"} :
          tasks[l] = "up" /\ queue[l] # <<>> /\ (l = "api" => work = None)
    \/ work # None /\ (work.phase = "verify" => now >= work.since + MaxVerify)

NodeStep ==
    \/ Main
    \/ \E l \in Listeners : Bind(l) \/ RateLimited(l)
    \/ ApiStep
    \/ \E ok \in BOOLEAN : Verified(ok)
    \/ ResolverServe
    \/ DnsServe
=============================================================================
