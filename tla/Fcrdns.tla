------------------------------- MODULE Fcrdns -------------------------------
(***************************************************************************)
(* Forward-confirmed reverse DNS (crates/binda-core/src/fcrdns.rs): the    *)
(* check every register request waits for.  The verifier asks classic DNS  *)
(* for the names of the source address and for the addresses of the name   *)
(* the client claims, each question to one resolver after the other.       *)
(* A message is a sequence of cells, as in Dns; a compression pointer is   *)
(* two cells and counts cells from the start of the message.               *)
(***************************************************************************)
EXTENDS Names, FiniteSets

CONSTANTS
    Resolvers,      \* how many there are in DEFAULT_RESOLVERS (3)
    QueryTimeout,   \* QUERY_TIMEOUT
    MaxJumps,       \* how many pointers read_name follows (32)
    Zone,           \* what classic DNS holds: a name's records [type, data]
    ReverseName,    \* the name in classic DNS of each source address
    Claims,         \* the hostnames clients claim
    Ids             \* the query identifiers drawn

ASSUME ResolversAssumption == Resolvers \in Nat \ {0}
ASSUME QueryTimeoutAssumption == QueryTimeout \in Nat \ {0}

Sources == DOMAIN ReverseName

ASSUME ClaimsAssumption == Claims \subseteq Seq(Nat)
ASSUME SourcesAssumption == Sources \subseteq Seq(0 .. 255)
ASSUME IdsAssumption == Ids \subseteq Nat

VARIABLES
    stage,      \* the lookup under way, or "idle" or "done"
    source,     \* source_ip
    claim,      \* claimed_rdns
    request,    \* the query sent
    server,     \* the resolver it was sent to
    ips,        \* what forward_lookup has collected
    verdict,    \* what verify returned
    elapsed,    \* the time verify has taken
    failed      \* history: lookups that ended in an error reply or in none

vars == <<stage, source, claim, request, server, ips, verdict, elapsed, failed>>

TypeA == 1
TypeCname == 5
TypePtr == 12
TypeAaaa == 28
QueryType == [ptr |-> TypePtr, a |-> TypeA, aaaa |-> TypeAaaa]
-----------------------------------------------------------------------------
(* The codec                                                               *)

Digit(n) == IF n < 10 THEN 48 + n ELSE 87 + n
Decimal(n) ==
    IF n < 10 THEN <<Digit(n)>>
    ELSE IF n < 100 THEN <<Digit(n \div 10), Digit(n % 10)>>
    ELSE <<Digit(n \div 100), Digit((n \div 10) % 10), Digit(n % 10)>>

\* ".in-addr.arpa" without its dot, and "ip6.arpa"
InAddrArpa == <<105, 110, 45, 97, 100, 100, 114, 46, 97, 114, 112, 97>>
Ip6Arpa == <<105, 112, 54, 46, 97, 114, 112, 97>>

\* ptr_query_name, of an address given by its octets
PtrQueryName(ip) ==
    LET Spelled(o) == IF Len(ip) = 4 THEN Decimal(o) \o <<Dot>>
                      ELSE <<Digit(o % 16), Dot, Digit(o \div 16), Dot>>
    IN FlattenSeq([i \in 1 .. Len(ip) |-> Spelled(ip[Len(ip) + 1 - i])])
         \o (IF Len(ip) = 4 THEN InAddrArpa ELSE Ip6Arpa)

\* encode_query: empty labels are skipped, a trailing dot leaves no trace.
EncodeQuery(id, name, qtype) ==
    <<id, 256, 1, 0, 0, 0>> \o EncodeLabels(Keep(Split[name], Seq(Nat) \ {<<>>})) \o <<qtype, 1>>

\* String::from_utf8_lossy
Lossy(label) == [i \in 1 .. Len(label) |-> IF label[i] = NotUtf8 THEN 65533 ELSE label[i]]

\* Mutant: the name ends where its last part does.
MutantEndOf(end, here) == here

\* end_pos: a name ends where its first pointer does, or else here.
EndOf(end, here) == IF end > 0 THEN end ELSE here

\* read_name: the name from start on, pointers followed, and the position after
\* it where it stands; end is 0 until a pointer fixes it.
ReadName(buf, start) ==
    LET read[jumps \in Nat, p \in Nat, labels \in Seq(Seq(Nat)), end \in Nat] ==
            LET n == buf[p + 1]
            IN IF p >= Len(buf) THEN Malformed
               ELSE IF n = 0 THEN [labels |-> labels, next |-> EndOf(end, p + 1)]
               ELSE IF n >= 192
               THEN IF p + 1 >= Len(buf) \/ jumps = MaxJumps THEN Malformed
                    ELSE read[jumps + 1, (n - 192) * 256 + buf[p + 2], labels, EndOf(end, p + 2)]
               ELSE IF p + 1 + n > Len(buf) THEN Malformed
               ELSE read[jumps, p + 1 + n, Append(labels, Lossy(SubSeq(buf, p + 2, p + 1 + n))), end]
    IN read[0, start, <<>>, 0]

\* The answer of which the owner has been read up to at: its type, its data and
\* the position after it.  The data of a PTR is the name read there, whatever
\* length was announced.
ReadAnswer(buf, at) ==
    LET type == buf[at + 1]
        after == at + 4 + buf[at + 4]
        name == ReadName(buf, at + 4)
    IN IF at + 4 > Len(buf) THEN Malformed
       ELSE IF type = TypePtr
       THEN IF name = Malformed THEN Malformed
            ELSE [type |-> type, data |-> Join(name.labels), next |-> after]
       ELSE IF after > Len(buf) THEN Malformed
       ELSE [type |-> type, data |-> SubSeq(buf, at + 5, after), next |-> after]

\* Mutant: the identifier of the reply is not compared.
MutantAnswersQuery(buf, id) == Len(buf) >= HeaderCells

\* A reply to the query, by its identifier.
AnswersQuery(buf, id) == Len(buf) >= HeaderCells /\ buf[1] = id

\* parse_response: an error reply is an empty list of answers, a reply to
\* another query or one that cannot be read is none.
ParseResponse(buf, id) ==
    LET read[questions \in Nat, p \in Nat, answers \in Seq([type : Nat, data : Seq(Nat)])] ==
            LET name == ReadName(buf, p)
                answer == ReadAnswer(buf, name.next)
            IN IF questions = 0 /\ Len(answers) = buf[4] THEN answers
               ELSE IF name = Malformed THEN Malformed
               ELSE IF questions > 0 THEN read[questions - 1, name.next + 2, answers]
               ELSE IF answer = Malformed THEN Malformed
               ELSE read[0, answer.next,
                         Append(answers, [type |-> answer.type, data |-> answer.data])]
    IN IF ~ AnswersQuery(buf, id) THEN Malformed
       ELSE IF buf[2] \div 32768 # 1 \/ buf[2] % 16 # 0 THEN <<>>
       ELSE read[buf[3], HeaderCells, <<>>]

\* The names reverse_lookup takes from the answers.
PtrNames(answers) ==
    {answers[i].data : i \in {j \in 1 .. Len(answers) : answers[j].type = TypePtr}}

Width(qtype) == IF qtype = TypeA THEN 4 ELSE 16

\* The addresses forward_lookup takes from them: parse_a, parse_aaaa.
Addresses(answers, qtype) ==
    {answers[i].data : i \in {j \in 1 .. Len(answers) :
            answers[j].type = qtype /\ Len(answers[j].data) = Width(qtype)}}

-----------------------------------------------------------------------------
(* Classic DNS: resolvers that answer from the zone                        *)

OfType(rrs, type) == SelectSeq(rrs, LAMBDA r : r.type = type)

\* The records that answer a question; an alias is followed.
Find(name, qtype) ==
    LET rrs == IF name \in DOMAIN Zone THEN Zone[name] ELSE <<>>
        alias == OfType(rrs, TypeCname)
    IN IF alias = <<>> THEN OfType(rrs, qtype)
       ELSE alias \o OfType(Zone[alias[1].data], qtype)

\* The response to query q with these records.  A resolver that compresses points
\* back to the question for every owner, and a later PTR to the first one's tail.
Response(q, rcode, rrs, compress) ==
    LET question == SubSeq(q, HeaderCells + 1, Len(q))
        owner == IF compress THEN <<192, HeaderCells>> ELSE SubSeq(question, 1, Len(question) - 2)
        labels(i) == Labels(rrs[i].data)
        tail == HeaderCells + Len(question) + 7 + Len(labels(1)[1])
        rdata(i) ==
            IF rrs[i].type \notin {TypePtr, TypeCname} THEN rrs[i].data
            ELSE IF compress /\ i > 1 /\ Tail(labels(i)) = Tail(labels(1))
                 THEN <<Len(labels(i)[1])>> \o labels(i)[1] \o <<192, tail>>
                 ELSE EncodeLabels(labels(i))
    IN <<q[1], 33152 + rcode, 1, Len(rrs), 0, 0>> \o question
         \o FlattenSeq([i \in 1 .. Len(rrs) |->
                owner \o <<rrs[i].type, 1, 60, Len(rdata(i))>> \o rdata(i)])

HonestReply(q, compress) ==
    LET name == Lowercase(Join(ReadName(q, HeaderCells).labels))
    IN Response(q, IF name \in DOMAIN Zone THEN 0 ELSE 3, Find(name, q[Len(q) - 1]), compress)
HonestReplies(q) == {HonestReply(q, compress) : compress \in BOOLEAN}

\* What else may come back: a reply cut short, one whose pointer leads to
\* itself, and a late one to another verification's query.
UnusableReplies(q) ==
    LET whole == HonestReply(q, TRUE)
        end == Len(q)
    IN {SubSeq(whole, 1, n) : n \in {HeaderCells - 1, Len(q) - 1}}
         \cup {SubSeq(whole, 1, 3) \o <<1, 0, 0>> \o SubSeq(q, HeaderCells + 1, end)
                 \o <<192, end, TypeA, 1, 60, 0>>}
         \cup {HonestReply(EncodeQuery(i, c, t), FALSE) :
                 i \in Ids \ {q[1]}, c \in Claims, t \in {TypeA, TypeAaaa}}
         \cup {HonestReply(EncodeQuery(i, ReverseName[ip], TypePtr), FALSE) :
                 i \in Ids \ {q[1]}, ip \in Sources}

-----------------------------------------------------------------------------
(* The verifier                                                            *)

Init ==
    /\ stage = "idle" /\ source \in Sources /\ claim \in Claims
    /\ request = <<>> /\ server = 1 /\ ips = {} /\ verdict = FALSE
    /\ elapsed = 0 /\ failed = {}

\* query(name, QueryType[s], resolvers) begins.
Ask(s, name) ==
    \E id \in Ids :
        /\ stage' = s /\ server' = 1
        /\ request' = EncodeQuery(id, name, QueryType[s])

\* FcrdnsVerifier::verify, up to the first question.
Verify(ip, c) ==
    /\ stage \in {"idle", "done"}
    /\ source' = ip /\ claim' = c /\ ips' = {} /\ elapsed' = 0 /\ failed' = {}
    /\ verdict' = FALSE
    /\ Ask("ptr", PtrQueryName(ip))

Return(result) ==
    stage' = "done" /\ verdict' = result /\ UNCHANGED <<request, server>>

\* What is_forward_confirmed does with the outcome of a query.  An error has the
\* effect of an empty list: no name matches, no address is added.
Conclude(answers) ==
    /\ ips' = IF stage = "ptr" THEN ips ELSE ips \cup Addresses(answers, QueryType[stage])
    /\ CASE stage = "ptr" ->
                IF Normalize(claim) \in {Normalize(n) : n \in PtrNames(answers)}
                THEN Ask("a", claim) /\ UNCHANGED verdict
                ELSE Return(FALSE)
         [] stage = "a" -> Ask("aaaa", claim) /\ UNCHANGED verdict
         [] stage = "aaaa" -> Return(source \in ips')

\* Mutant: a resolver that failed is asked again.
MutantRetry ==
    UNCHANGED <<stage, request, server, verdict, ips, failed>>

\* Mutant: one resolver more is asked than there are.
MutantNextResolver ==
    IF server <= Resolvers
    THEN server' = server + 1 /\ UNCHANGED <<stage, request, verdict, ips, failed>>
    ELSE failed' = failed \cup {stage} /\ Conclude(<<>>)

\* The loop of query goes on to the next resolver, and gives up after the last.
NextResolver ==
    IF server < Resolvers
    THEN server' = server + 1 /\ UNCHANGED <<stage, request, verdict, ips, failed>>
    ELSE failed' = failed \cup {stage} /\ Conclude(<<>>)

\* send_and_receive returned a datagram, within the time-out.
Receive(buf) ==
    LET answers == ParseResponse(buf, request[1])
    IN IF answers = Malformed THEN NextResolver
       ELSE failed' = failed /\ Conclude(answers)

Asking == stage \in DOMAIN QueryType
Takes(d) == elapsed' = elapsed + d /\ UNCHANGED <<source, claim>>

\* A resolver answers from the zone, or something else comes back.
Reply ==
    /\ Asking
    /\ \E d \in 0 .. QueryTimeout : Takes(d)
    /\ \E buf \in HonestReplies(request) \cup UnusableReplies(request) : Receive(buf)

\* The resolver reports a failure of its own; no other resolver is asked.
ErrorReply ==
    /\ Asking
    /\ \E d \in 0 .. QueryTimeout : Takes(d)
    /\ Conclude(ParseResponse(Response(request, 2, <<>>, FALSE), request[1]))
    /\ failed' = failed \cup {stage}

\* Mutant: the last resolver is waited for without a time-out.
MutantNoAnswer ==
    /\ Asking
    /\ server < Resolvers
    /\ \E d \in 0 .. QueryTimeout : Takes(d)
    /\ NextResolver

\* send_and_receive returned an error: at once, or when the time-out was up.
NoAnswer ==
    /\ Asking
    /\ \E d \in 0 .. QueryTimeout : Takes(d)
    /\ NextResolver

Step == Reply \/ ErrorReply \/ NoAnswer

Next == Step \/ \E ip \in Sources, c \in Claims : Verify(ip, c)

\* recv has a read time-out: a query no reply ends is ended by it.
Spec == Init /\ [][Next]_vars /\ WF_vars(NoAnswer)

-----------------------------------------------------------------------------
(* Properties                                                              *)

TypeOK ==
    /\ stage \in {"idle", "done"} \cup DOMAIN QueryType
    /\ source \in Sources /\ claim \in Claims
    /\ server \in 1 .. Resolvers
    /\ ips \subseteq Seq(0 .. 255)
    /\ verdict \in BOOLEAN /\ elapsed \in Nat
    /\ failed \subseteq DOMAIN QueryType
    /\ Asking => request[1] \in Ids /\ request[Len(request) - 1] = QueryType[stage]

\* The names classic DNS gives the address, and the addresses it gives a name.
Rrs(name, type) == {r \in ToSet(Find(name, type)) : r.type = type}
NamesOf(ip) == {Normalize(r.data) : r \in Rrs(ReverseName[ip], TypePtr)}
Held(name, type) ==
    {r.data : r \in {x \in Rrs(name, type) : x.data \in [1 .. Width(type) -> 0 .. 255]}}
AddressesOf(name) == Held(name, TypeA) \cup Held(name, TypeAaaa)

\* A name that classic DNS gives an address has no blanks.
ASSUME NamesAssumption ==
    \A ip \in Sources : \A r \in Rrs(ReverseName[ip], TypePtr) : r.data \in Seq(Nat \ {Space})

\* What a lookup should learn: the names of the address, the addresses of the name.
Learns(answers) ==
    IF stage = "ptr" THEN {Normalize(n) : n \in PtrNames(answers)} = NamesOf(source)
    ELSE Addresses(answers, QueryType[stage]) = Held(Normalize(claim), QueryType[stage])

\* parse_response reads in a resolver's reply what classic DNS holds, whatever the
\* spelling of the question, the alias followed and the compression of the names; of
\* any other datagram it makes nothing, or nothing else; and an error reply is empty.
RepliesUnderstood ==
    Asking =>
        LET Parsed(buf) == ParseResponse(buf, request[1])
        IN /\ \A buf \in HonestReplies(request) : Parsed(buf) # Malformed
           /\ \A buf \in HonestReplies(request) \cup UnusableReplies(request) :
                  Parsed(buf) # Malformed => Learns(Parsed(buf))
           /\ Parsed(Response(request, 2, <<>>, FALSE)) = <<>>

\* Classic DNS confirms the claim in both directions.
Confirms(ip, c) == Normalize(c) \in NamesOf(ip) /\ ip \in AddressesOf(Normalize(c))

\* is_forward_confirmed accepts only what classic DNS says in both directions,
\* though replies are lost, late, cut short, compressed or meant for another query.
ConfirmedIsTrue == stage = "done" /\ verdict => Confirms(source, claim)

\* The lookups a source depends on: its names, and the addresses of its own family.
Needed(ip) == {"ptr", IF Len(ip) = 4 THEN "a" ELSE "aaaa"}

\* A claim that classic DNS confirms is refused only when one of the two lookups it
\* depends on got no usable reply from any resolver, or an error from one: no
\* spelling, compression, alias or failure of the other family's lookup loses it.
RefusalHasCause ==
    stage = "done" /\ ~ verdict /\ Confirms(source, claim) => failed \cap Needed(source) # {}

\* verify blocks the request that waits for it for at most three queries to every
\* resolver, each cut off by its time-out.
VerifyBounded == elapsed <= Cardinality(DOMAIN QueryType) * Resolvers * QueryTimeout

\* The cap of a confirmed client is counted under a name classic DNS has for its
\* address: no spelling of the claim opens a second quota (ClientIdentity::quota_key).
QuotaFollowsHost == stage = "done" /\ verdict => QuotaKey(claim) \in NamesOf(source)

\* Every verification returns.
VerificationEnds == Asking ~> stage = "done"
=============================================================================
