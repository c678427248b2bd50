------------------------------- MODULE Names -------------------------------
(***************************************************************************)
(* Names as text and as labels: DomainName (crates/binda-core/src          *)
(* domain.rs), the hostname spellings of client.rs and fcrdns.rs, and the  *)
(* length-prefixed form in which both name protocols put labels on the     *)
(* wire.  A text is a sequence of characters, a character a number; the    *)
(* numbers of the ones the code tells apart are theirs in ASCII.           *)
(***************************************************************************)
EXTENDS Naturals, SequencesExt

CONSTANT Malformed  \* what parsing returns for what it refuses

\* The header of a message has six fields, in either protocol.
HeaderCells == 6

Dot == 46
Space == 32

\* A byte sequence that is no UTF-8 character.
NotUtf8 == 255

IsControl(c) == c < 32 \/ c \in 127 .. 159

\* A character goes to the end of the last label.
Continue(labels, c) == [labels EXCEPT ![Len(labels)] = Append(@, c)]

\* str::split('.'): the labels of the first i characters.
Split[text \in Seq(Nat)] ==
    LET split[i \in 0 .. Len(text)] ==
            IF i = 0 THEN << <<>> >>
            ELSE IF text[i] = Dot THEN Append(split[i - 1], <<>>)
            ELSE Continue(split[i - 1], text[i])
    IN split[Len(text)]

\* [_].join(".")
Join(labels) ==
    FlattenSeq([i \in 1 .. Len(labels) |-> IF i = 1 THEN labels[1] ELSE <<Dot>> \o labels[i]])

\* DomainName::new accepts text.
IsDomainName(text) ==
    /\ text # <<>>
    /\ \A i \in 1 .. Len(text) : ~ IsControl(text[i]) /\ text[i] # Space
    /\ \A i \in 1 .. Len(Split[text]) : Split[text][i] # <<>>

\* DomainName::labels
Labels(domain) == Split[domain]

\* Iterator::filter: the elements of seq that are in S, in their order.
Keep(seq, S) ==
    LET kept[s \in {seq}] == FlattenSeq([i \in 1 .. Len(s) |-> IF s[i] \in S THEN <<s[i]>> ELSE <<>>])
    IN kept[seq]

\* A label is carried as its length and its text, a name ends with a zero.
EncodeLabels(labels) ==
    FlattenSeq([i \in 1 .. Len(labels) |-> <<Len(labels[i])>> \o labels[i]]) \o <<0>>

\* str::to_ascii_lowercase
Lowercase(text) ==
    [i \in 1 .. Len(text) |-> IF text[i] \in 65 .. 90 THEN text[i] + 32 ELSE text[i]]

\* str::trim_end_matches('.') and str::trim
TrimDots(text) == SubSeq(text, 1, SelectLastInSeq(text, LAMBDA c : c # Dot))
Trim(text) ==
    LET last == SelectLastInSeq(text, LAMBDA c : c # Space)
    IN IF last = 0 THEN <<>>
       ELSE SubSeq(text, SelectInSeq(text, LAMBDA c : c # Space), last)

\* fcrdns::normalize
Normalize(hostname) == Lowercase(TrimDots(hostname))

\* Mutant: the spelling of the hostname is kept.
MutantQuotaKey(rdns) == Trim(TrimDots(rdns))

\* ClientIdentity::quota_key
QuotaKey(rdns) == Lowercase(TrimDots(Trim(rdns)))
=============================================================================
