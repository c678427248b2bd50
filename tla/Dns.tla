-------------------------------- MODULE Dns --------------------------------
(***************************************************************************)
(* The codec of BINDA's native lookup protocol (crates/binda-core/src      *)
(* dns.rs).  A message is a sequence of cells: a field of the header or of *)
(* a record is one cell, whatever its width, a character of a label one.   *)
(***************************************************************************)
EXTENDS Names

CONSTANTS
    Ipv4Text,   \* the texts Ipv4Addr::from_str accepts, with their octets
    Ipv6Text,   \* the texts Ipv6Addr::from_str accepts, with theirs
    TxtChunk    \* how much of a TXT value one length byte counts (255)

ASSUME TxtChunkAssumption == TxtChunk \in Nat \ {0}

ASSUME AddressTextAssumption ==
    /\ \A text \in DOMAIN Ipv4Text : Ipv4Text[text] \in Seq(Nat)
    /\ \A text \in DOMAIN Ipv6Text : Ipv6Text[text] \in Seq(Nat)

\* RecordType with the TYPE codes of record_type_code
RecordTypeCode == [A |-> 1, NS |-> 2, CNAME |-> 5, MX |-> 15, TXT |-> 16, AAAA |-> 28]
QtypeAny == 255
ClassIn == 1
RcodeNxdomain == 3
RcodeFormatError == 1

\* The flags of a response: QR and AA, and QR alone on a message not understood.
Authoritative == 33792
Unparsed == 32768

\* zone::Record, of which the protocol reads these fields
Record == [type : DOMAIN RecordTypeCode, ttl : Nat, value : Seq(Nat)]

\* DnsQuery
Query == [id : Nat, domain : Seq(Nat), qtype : Nat, qclass : Nat]

\* A name that was read: its labels, and the position after it
Name == [labels : Seq(Seq(Nat)), next : Nat]

ASSUME MalformedAssumption == Malformed \notin Query /\ Malformed \notin Name

WithLabel(label, rest) ==
    IF rest = Malformed THEN Malformed
    ELSE [labels |-> <<label>> \o rest.labels, next |-> rest.next]

\* The labels of the name that begins at position first, and the position after it.
ReadLabels(m, first) ==
    LET read[p \in 1 .. Len(m) + 1] ==
            IF p > Len(m) THEN Malformed
            ELSE IF m[p] = 0 THEN [labels |-> <<>>, next |-> p + 1]
            ELSE IF p + m[p] > Len(m) \/ NotUtf8 \in ToSet(SubSeq(m, p + 1, p + m[p]))
            THEN Malformed
            ELSE WithLabel(SubSeq(m, p + 1, p + m[p]), read[p + 1 + m[p]])
    IN read[first]

\* parse_query
ParseQuery(m) ==
    IF Len(m) < HeaderCells \/ m[3] # 1 THEN Malformed
    ELSE LET query[name \in Name \cup {Malformed}] ==
                IF \/ name = Malformed
                   \/ Len(m) < name.next + 1
                   \/ ~ IsDomainName(Join(name.labels))
                THEN Malformed
                ELSE [id |-> m[1], domain |-> Join(name.labels),
                      qtype |-> m[name.next], qclass |-> m[name.next + 1]]
         IN query[ReadLabels(m, HeaderCells + 1)]

\* encode_domain_labels
EncodeDomainLabels(domain) == EncodeLabels(Labels(domain))

\* str::parse::<u16>: digits, after a plus sign or not, and the number they spell
Digits(text) == IF Len(text) > 1 /\ text[1] = 43 THEN Tail(text) ELSE text
U16(text) ==
    LET number[i \in 0 .. Len(Digits(text))] ==
            IF i = 0 THEN 0 ELSE number[i - 1] * 10 + (Digits(text)[i] - 48)
    IN number[Len(Digits(text))]
IsU16(text) ==
    /\ text # <<>> /\ \A i \in 1 .. Len(Digits(text)) : Digits(text)[i] \in 48 .. 57
    /\ U16(text) < 65536

\* An MX value: a preference and an exchange, or preference 0 and all of it.
MxParts(value) ==
    LET blank == SelectInSeq(value, LAMBDA c : c = Space)
        before == SubSeq(value, 1, blank - 1)
    IN IF blank > 0 /\ IsU16(before)
       THEN [preference |-> U16(before), exchange |-> SubSeq(value, blank + 1, Len(value))]
       ELSE [preference |-> 0, exchange |-> value]

\* A TXT value in chunks, each after its length.
TxtChunks(value) ==
    FlattenSeq([k \in 1 .. (Len(value) + TxtChunk - 1) \div TxtChunk |->
        LET chunk == SubSeq(value, (k - 1) * TxtChunk + 1,
                            IF k * TxtChunk < Len(value) THEN k * TxtChunk ELSE Len(value))
        IN <<Len(chunk)>> \o chunk])

\* encode_rdata
EncodeRdata(r) ==
    CASE r.type = "A" -> IF r.value \in DOMAIN Ipv4Text THEN Ipv4Text[r.value] ELSE Malformed
      [] r.type = "AAAA" -> IF r.value \in DOMAIN Ipv6Text THEN Ipv6Text[r.value] ELSE Malformed
      [] r.type \in {"CNAME", "NS"} ->
            IF IsDomainName(r.value) THEN EncodeDomainLabels(r.value) ELSE Malformed
      [] r.type = "MX" ->
            LET mx == MxParts(r.value)
            IN IF IsDomainName(mx.exchange)
               THEN <<mx.preference>> \o EncodeDomainLabels(mx.exchange) ELSE Malformed
      [] r.type = "TXT" -> TxtChunks(r.value)

\* record_matches_qtype
RecordMatchesQtype(r, qtype) == qtype = QtypeAny \/ RecordTypeCode[r.type] = qtype

\* The records that have an encoding.
Encodable == {r \in Record : EncodeRdata(r) # Malformed}

\* One answer of build_response: the name in full, then the record.
Answer(query, r) ==
    EncodeDomainLabels(query.domain)
        \o <<RecordTypeCode[r.type], ClassIn, r.ttl, Len(EncodeRdata(r))>> \o EncodeRdata(r)

\* Mutant: a record that could not be encoded leaves an empty answer.
MutantAnswers(query, matching) ==
    [i \in 1 .. Len(matching) |->
        IF matching[i] \in Encodable THEN Answer(query, matching[i]) ELSE <<>>]

\* The answers of build_response, one for each record that encodes.
Answers(query, matching) ==
    LET answers[encoded \in Seq(Record)] == [i \in 1 .. Len(encoded) |-> Answer(query, encoded[i])]
    IN answers[Keep(matching, Encodable)]

\* build_response: the question again, then the answers.
BuildResponse(query, exists, matching) ==
    LET response[answers \in Seq(Seq(Nat))] ==
            <<query.id, IF exists THEN Authoritative ELSE Authoritative + RcodeNxdomain,
              1, Len(answers), 0, 0>>
                \o EncodeDomainLabels(query.domain) \o <<query.qtype, query.qclass>>
                \o FlattenSeq(answers)
    IN response[Answers(query, matching)]

\* build_error_response
BuildErrorResponse(id, rcode) == <<id, Unparsed + rcode, 0, 0, 0, 0>>

-----------------------------------------------------------------------------
(* How a client reads a response, for the properties                       *)

\* The answers from position first to the end of the message.
ReadAnswers(m, first) ==
    LET Next(p) == ReadLabels(m, p).next
        read[p \in 1 .. Len(m) + 1] ==
            IF p > Len(m) THEN <<>>
            ELSE IF \/ ReadLabels(m, p) = Malformed
                    \/ Len(m) < Next(p) + 3 \/ Len(m) < Next(p) + 3 + m[Next(p) + 3]
            THEN <<Malformed>>
            ELSE <<[labels |-> ReadLabels(m, p).labels, code |-> m[Next(p)], ttl |-> m[Next(p) + 2],
                    rdata |-> SubSeq(m, Next(p) + 4, Next(p) + 3 + m[Next(p) + 3])]>>
                    \o read[Next(p) + 4 + m[Next(p) + 3]]
    IN read[first]
=============================================================================
