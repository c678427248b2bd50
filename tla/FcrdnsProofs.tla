---------------------------- MODULE FcrdnsProofs ----------------------------
(***************************************************************************)
(* Facts about module Fcrdns, for any number of resolvers, any time-out,   *)
(* any zone and any reply: how long verify can take, and what its verdict  *)
(* means where the codec understands the replies.                          *)
(***************************************************************************)
EXTENDS Fcrdns, DnsProofs

\* The lookups of a verification, in their order.
Lookups == {"ptr", "a", "aaaa"}
Round == [s \in Lookups |-> IF s = "ptr" THEN 0 ELSE IF s = "a" THEN 1 ELSE 2]

\* The time one lookup may take, and the time all resolvers up to the one that is
\* asked have had.
PerLookup == Resolvers * QueryTimeout
Before(k) == (k - 1) * QueryTimeout

\* The lookups before this one took their full time at most, and so did the
\* resolvers before the one that is asked.
TimeSpent ==
    /\ stage \in Lookups => elapsed <= Round[stage] * PerLookup + Before(server)
    /\ stage \notin Lookups => elapsed <= 3 * PerLookup

IInv ==
    /\ stage \in {"idle", "done"} \cup Lookups
    /\ server \in 1 .. Resolvers
    /\ elapsed \in Nat
    /\ TimeSpent

\* The lookups are the questions that have a type.
LEMMA LookupsAreQuestions ==
    Asking <=> stage \in Lookups
BY DEF Asking, QueryType, Lookups

\* What a lookup may take, in resolvers.
LEMMA Times ==
    /\ PerLookup \in Nat /\ QueryTimeout \in Nat
    /\ \A k \in 1 .. Resolvers : Before(k) \in Nat
    /\ \A k \in 1 .. Resolvers : k < Resolvers => Before(k) + QueryTimeout = Before(k + 1)
    /\ Before(Resolvers) + QueryTimeout = PerLookup
    /\ \A k \in 1 .. Resolvers : Before(k) + QueryTimeout <= PerLookup
    /\ Before(1) = 0
<1>1. Resolvers \in Nat /\ Resolvers >= 1 /\ QueryTimeout \in Nat
    BY ResolversAssumption, QueryTimeoutAssumption
<1>2. \A j, k, t \in Nat : j * t \in Nat /\ (j + 1) * t = j * t + t
                           /\ (j <= k => j * t <= k * t)
  <2>1. \A j, t \in Nat : j * t \in Nat /\ (j + 1) * t = j * t + t
      OBVIOUS
  <2>2. ASSUME NEW j \in Nat, NEW k \in Nat, NEW t \in Nat, j <= k
        PROVE  j * t <= k * t
    <3>1. k - j \in Nat /\ (k - j) * t \in Nat
        BY <2>2
    <3>2. k * t = j * t + (k - j) * t
        OBVIOUS
    <3> QED
        BY <3>1, <3>2
  <2> QED
      BY <2>1, <2>2
<1>3. ASSUME NEW k \in 1 .. Resolvers
      PROVE  /\ k - 1 \in Nat /\ (k - 1) + 1 = k /\ (k + 1) - 1 = k
             /\ k * QueryTimeout = (k - 1) * QueryTimeout + QueryTimeout
             /\ k * QueryTimeout <= Resolvers * QueryTimeout
  <2>1. k - 1 \in Nat /\ k \in Nat /\ k <= Resolvers /\ (k - 1) + 1 = k /\ (k + 1) - 1 = k
      BY <1>1
  <2> QED
      BY <1>1, <1>2, <2>1
<1>4. ASSUME NEW k \in 1 .. Resolvers
      PROVE  /\ Before(k) \in Nat
             /\ Before(k) + QueryTimeout = Before(k + 1)
             /\ Before(k) + QueryTimeout <= PerLookup
  <2>1. Before(k) = (k - 1) * QueryTimeout /\ Before(k + 1) = k * QueryTimeout
      BY <1>3 DEF Before
  <2> QED
      BY <1>1, <1>2, <1>3, <2>1 DEF PerLookup
<1>5. PerLookup \in Nat /\ Before(1) = 0 /\ Before(Resolvers) + QueryTimeout = PerLookup
    BY <1>1, <1>2, <1>3 DEF PerLookup, Before
<1> QED
    BY <1>1, <1>4, <1>5

\* How many lookups there are.
LEMMA ThreeElements ==
    ASSUME NEW a, NEW b, NEW c, a # b, b # c, a # c, NEW S, S = {a, b, c}
    PROVE  Cardinality(S) = 3
<1> DEFINE A == {a}
           B == A \cup {b}
<1>1. IsFiniteSet(A) /\ Cardinality(A) = 1
    BY FS_Singleton, Zenon
<1>2. b \notin A /\ c \notin B /\ S = B \cup {c}
    OBVIOUS
<1> HIDE DEF A
<1>3. IsFiniteSet(B) /\ Cardinality(B) = 2
    BY <1>1, <1>2, FS_AddElement
<1> HIDE DEF B
<1>4. Cardinality(B \cup {c}) = 3
    BY <1>2, <1>3, FS_AddElement
<1> QED
    BY <1>2, <1>4

\* Verification starts the clock.
LEMMA VerifyPreserves ==
    ASSUME NEW ip \in Sources, NEW c \in Claims, Verify(ip, c)
    PROVE  IInv'
<1>1. stage' = "ptr" /\ server' = 1 /\ elapsed' = 0
    BY DEF Verify, Ask
<1>2. 1 \in 1 .. Resolvers /\ Round["ptr"] = 0 /\ PerLookup \in Nat
    BY ResolversAssumption, Times DEF Round, Lookups
<1> QED
    BY <1>1, <1>2, Times DEF IInv, TimeSpent, Lookups

\* A lookup that ends, after d more at the resolver that was asked, leads to the
\* next lookup or to the end.
LEMMA ConcludePreserves ==
    ASSUME IInv, stage \in Lookups, NEW answers, Conclude(answers),
           NEW d \in 0 .. QueryTimeout, elapsed' = elapsed + d
    PROVE  IInv'
<1>1. /\ stage' \in {"done", "a", "aaaa"}
      /\ stage' # "done" => server' = 1 /\ Round[stage'] = Round[stage] + 1
      /\ stage' = "done" => server' = server
  <2>1. CASE stage = "ptr"
      BY <2>1 DEF Conclude, Ask, Return, Round, Lookups
  <2>2. CASE stage = "a"
      BY <2>2 DEF Conclude, Ask, Return, Round, Lookups
  <2>3. CASE stage = "aaaa"
      BY <2>3 DEF Conclude, Ask, Return, Round, Lookups
  <2> QED
      BY <2>1, <2>2, <2>3 DEF Lookups
<1>2. /\ Round[stage] \in 0 .. 2
      /\ server \in 1 .. Resolvers /\ elapsed \in Nat
      /\ elapsed <= Round[stage] * PerLookup + Before(server)
    BY DEF IInv, TimeSpent, Round, Lookups
<1>3. /\ PerLookup \in Nat /\ QueryTimeout \in Nat /\ Before(server) \in Nat
      /\ Before(server) + QueryTimeout <= PerLookup /\ Before(1) = 0
    BY <1>2, Times
<1>4. elapsed' \in Nat /\ elapsed' <= (Round[stage] + 1) * PerLookup
  <2>1. elapsed' \in Nat /\ elapsed' <= Round[stage] * PerLookup + PerLookup
      BY <1>2, <1>3
  <2>2. (Round[stage] + 1) * PerLookup = Round[stage] * PerLookup + PerLookup
      BY <1>2, <1>3
  <2> QED
      BY <2>1, <2>2
<1>5. (Round[stage] + 1) * PerLookup <= 3 * PerLookup
    BY <1>2, <1>3
<1>6. (Round[stage] + 1) * PerLookup \in Nat /\ 3 * PerLookup \in Nat
    BY <1>2, <1>3
<1>7. CASE stage' = "done"
  <2>1. elapsed' <= 3 * PerLookup
      BY <1>4, <1>5, <1>6
  <2> QED
      BY <1>1, <1>2, <1>4, <1>7, <2>1 DEF IInv, TimeSpent, Lookups
<1>8. CASE stage' # "done"
  <2>1. elapsed' <= Round[stage'] * PerLookup + Before(server')
      BY <1>1, <1>3, <1>4, <1>6, <1>8
  <2>2. server' \in 1 .. Resolvers /\ stage' \in Lookups
      BY <1>1, <1>8, ResolversAssumption DEF Lookups
  <2> QED
      BY <1>4, <2>1, <2>2 DEF IInv, TimeSpent
<1> QED
    BY <1>7, <1>8

\* So does the loop over the resolvers.
LEMMA NextResolverPreserves ==
    ASSUME IInv, stage \in Lookups, NextResolver,
           NEW d \in 0 .. QueryTimeout, elapsed' = elapsed + d
    PROVE  IInv'
<1>1. CASE server < Resolvers
  <2>1. server' = server + 1 /\ stage' = stage
      BY <1>1 DEF NextResolver
  <2>2. /\ Round[stage] \in 0 .. 2
        /\ server \in 1 .. Resolvers /\ elapsed \in Nat
        /\ elapsed <= Round[stage] * PerLookup + Before(server)
      BY DEF IInv, TimeSpent, Round, Lookups
  <2>3. /\ PerLookup \in Nat /\ QueryTimeout \in Nat
        /\ Before(server) \in Nat /\ Before(server) + QueryTimeout = Before(server + 1)
      BY <1>1, <2>2, Times
  <2>4. Round[stage] * PerLookup \in Nat
      BY <2>2, <2>3
  <2>5. elapsed' \in Nat /\ elapsed' <= Round[stage'] * PerLookup + Before(server')
      BY <2>1, <2>2, <2>3, <2>4
  <2>6. server' \in 1 .. Resolvers
      BY <1>1, <2>1, <2>2, ResolversAssumption
  <2> QED
      BY <2>1, <2>5, <2>6 DEF IInv, TimeSpent
<1>2. CASE ~ (server < Resolvers)
    BY <1>2, ConcludePreserves DEF NextResolver
<1> QED
    BY <1>1, <1>2

\* Every step preserves the invariant.
LEMMA NextPreserves == IInv /\ [Next]_vars => IInv'
<1> SUFFICES ASSUME IInv, [Next]_vars PROVE IInv'
    OBVIOUS
<1>1. CASE Reply
  <2>1. PICK d \in 0 .. QueryTimeout : elapsed' = elapsed + d
      BY <1>1 DEF Reply, Takes
  <2>2. stage \in Lookups
      BY <1>1, LookupsAreQuestions DEF Reply
  <2>3. PICK buf : Receive(buf)
      BY <1>1 DEF Reply
  <2>4. CASE ParseResponse(buf, request[1]) = Malformed
      BY <2>1, <2>2, <2>3, <2>4, NextResolverPreserves DEF Receive
  <2>5. CASE ParseResponse(buf, request[1]) # Malformed
      BY <2>1, <2>2, <2>3, <2>5, ConcludePreserves DEF Receive
  <2> QED
      BY <2>4, <2>5
<1>2. CASE ErrorReply
    BY <1>2, LookupsAreQuestions, ConcludePreserves DEF ErrorReply, Takes
<1>3. CASE NoAnswer
    BY <1>3, LookupsAreQuestions, NextResolverPreserves DEF NoAnswer, Takes
<1>4. ASSUME NEW ip \in Sources, NEW c \in Claims, Verify(ip, c)
      PROVE  IInv'
    BY <1>4, VerifyPreserves
<1>5. CASE UNCHANGED vars
    BY <1>5 DEF IInv, TimeSpent, vars
<1> QED
    BY <1>1, <1>2, <1>3, <1>4, <1>5 DEF Next, Step

\* verify returns within three queries to every resolver, whatever comes back and
\* however late: each lookup asks a resolver once, and leaves it after its time-out.
THEOREM VerifyEndsInTime == Spec => []VerifyBounded
<1>1. Init => IInv
  <2>1. 1 \in 1 .. Resolvers /\ PerLookup \in Nat
      BY ResolversAssumption, Times
  <2> QED
      BY <2>1 DEF Init, IInv, TimeSpent, Lookups
<1>2. IInv => VerifyBounded
  <2>1. Cardinality(DOMAIN QueryType) = 3
    <3>1. DOMAIN QueryType = Lookups
        BY DEF QueryType, Lookups
    <3>2. Cardinality(Lookups) = 3
      <4>1. Lookups = {"ptr", "a", "aaaa"} /\ "ptr" # "a" /\ "a" # "aaaa" /\ "ptr" # "aaaa"
          BY DEF Lookups
      <4> QED
          BY <4>1, ThreeElements
    <3> QED
        BY <3>1, <3>2
  <2>2. 3 * Resolvers * QueryTimeout = 3 * PerLookup
      BY ResolversAssumption, QueryTimeoutAssumption DEF PerLookup
  <2>3. ASSUME IInv PROVE elapsed <= 3 * PerLookup
    <3>1. CASE stage \notin Lookups
        BY <2>3, <3>1 DEF IInv, TimeSpent
    <3>2. CASE stage \in Lookups
      <4>1. /\ Round[stage] \in 0 .. 2 /\ elapsed \in Nat /\ server \in 1 .. Resolvers
            /\ elapsed <= Round[stage] * PerLookup + Before(server)
          BY <2>3, <3>2 DEF IInv, TimeSpent, Round, Lookups
      <4>2. /\ PerLookup \in Nat /\ Before(server) \in Nat /\ QueryTimeout \in Nat
            /\ Before(server) + QueryTimeout <= PerLookup
          BY <4>1, Times
      <4> QED
          BY <4>1, <4>2
    <3> QED
        BY <3>1, <3>2
  <2> QED
      BY <2>1, <2>2, <2>3 DEF VerifyBounded
<1> QED
    BY <1>1, <1>2, NextPreserves, PTL DEF Spec
-----------------------------------------------------------------------------
(* The spellings of a hostname                                             *)

\* Of a set of numbers up to n that is not empty, the largest and the smallest.
LEMMA Extremes ==
    ASSUME NEW n \in Nat, NEW I \in SUBSET (1 .. n), I # {}
    PROVE  /\ \E x \in I : (\A y \in I : x >= y)
           /\ \E x \in I : (\A y \in I : x =< y)
<1>1. \E x \in I : (\A y \in I : x =< y)
  <2>1. I \subseteq Nat
      OBVIOUS
  <2> QED
      BY <2>1, LeastNat
<1>2. \E x \in I : (\A y \in I : x >= y)
  <2> DEFINE J == {n - x : x \in I}
  <2>1. J \subseteq Nat /\ J # {}
    <3>1. \A x \in I : x \in 1 .. n /\ n - x \in Nat
        OBVIOUS
    <3>2. \A j \in J : j \in Nat
        BY <3>1
    <3>3. \A x \in I : n - x \in J
        OBVIOUS
    <3> QED
        BY <3>2, <3>3
  <2> HIDE DEF J
  <2>2. PICK j \in J : \A k \in J : j =< k
      BY <2>1, LeastNat
  <2>3. PICK x \in I : j = n - x
      BY DEF J
  <2>4. \A y \in I : n - y \in J
      BY DEF J
  <2>5. \A y \in I : n - x =< n - y /\ x \in Int /\ y \in Int
      BY <2>2, <2>3, <2>4
  <2> QED
      BY <2>3, <2>5
<1> QED
    BY <1>1, <1>2

\* What is left of a text without the dots at its end.
LEMMA TrimDotsFacts ==
    ASSUME NEW text \in Seq(Nat)
    PROVE  \E k \in 0 .. Len(text) : /\ TrimDots(text) = SubSeq(text, 1, k)
                                     /\ \A i \in 1 .. Len(text) : i > k => text[i] = Dot
<1> DEFINE I == {i \in 1 .. Len(text) : text[i] # Dot}
           k == SelectLastInSeq(text, LAMBDA c : c # Dot)
<1>1. k = IF I # {} THEN Max(I) ELSE 0
    BY DEF SelectLastInSeq
<1>2. Len(text) \in Nat /\ I \in SUBSET (1 .. Len(text))
    OBVIOUS
<1>3. k \in 0 .. Len(text) /\ \A y \in I : k >= y
  <2> HIDE DEF k
  <2>1. CASE I = {}
      BY <1>1, <1>2, <2>1
  <2>2. CASE I # {}
    <3> HIDE DEF I
    <3>1. Max(I) \in I /\ \A y \in I : Max(I) >= y
        BY <1>2, <2>2, Extremes DEF Max
    <3>2. Max(I) \in 1 .. Len(text)
        BY <1>2, <3>1
    <3>3. k = Max(I)
        BY <1>1, <2>2
    <3> QED
        BY <1>2, <3>1, <3>2, <3>3
  <2> QED
      BY <2>1, <2>2
<1>4. TrimDots(text) = SubSeq(text, 1, k)
    BY DEF TrimDots
<1> HIDE DEF k
<1>5. \A i \in 1 .. Len(text) : i > k => text[i] = Dot
  <2> SUFFICES ASSUME NEW i \in 1 .. Len(text), i > k, text[i] # Dot PROVE FALSE
      OBVIOUS
  <2>1. i \in I
      OBVIOUS
  <2> QED
      BY <1>3, <2>1
<1> QED
    BY <1>3, <1>4, <1>5

\* A text without blanks is trimmed already.
LEMMA NothingToTrim ==
    ASSUME NEW text \in Seq(Nat), \A i \in 1 .. Len(text) : text[i] # Space
    PROVE  Trim(text) = text
<1> DEFINE I == {i \in 1 .. Len(text) : text[i] # Space}
           last == SelectLastInSeq(text, LAMBDA c : c # Space)
           first == SelectInSeq(text, LAMBDA c : c # Space)
<1>1. /\ last = IF I # {} THEN Max(I) ELSE 0
      /\ first = IF I # {} THEN Min(I) ELSE 0
    BY DEF SelectLastInSeq, SelectInSeq
<1>2. Trim(text) = IF last = 0 THEN <<>> ELSE SubSeq(text, first, last)
    BY DEF Trim
<1>3. I = 1 .. Len(text) /\ Len(text) \in Nat
    OBVIOUS
<1> HIDE DEF I, last, first
<1>4. CASE Len(text) = 0
  <2>1. last = 0 /\ text = <<>>
      BY <1>1, <1>3, <1>4
  <2> QED
      BY <1>2, <2>1
<1>5. CASE Len(text) # 0
  <2>1. I \in SUBSET (1 .. Len(text)) /\ I # {} /\ 1 \in I /\ Len(text) \in I
    <3>1. 1 \in 1 .. Len(text) /\ Len(text) \in 1 .. Len(text)
        BY <1>3, <1>5
    <3> QED
        BY <1>3, <3>1
  <2>2. Max(I) \in I /\ \A y \in I : Max(I) >= y
      BY <1>3, <2>1, Extremes DEF Max
  <2>3. Min(I) \in I /\ \A y \in I : Min(I) =< y
      BY <1>3, <2>1, Extremes DEF Min
  <2>4. last = Len(text) /\ first = 1
    <3>1. Max(I) >= Len(text) /\ Min(I) =< 1 /\ Max(I) \in 1 .. Len(text) /\ Min(I) \in 1 .. Len(text)
        BY <1>3, <2>1, <2>2, <2>3
    <3> QED
        BY <1>1, <1>3, <2>1, <3>1
  <2>5. SubSeq(text, 1, Len(text)) = text
      BY <1>3
  <2> QED
      BY <1>2, <1>5, <2>4, <2>5
<1> QED
    BY <1>4, <1>5

\* A hostname that is, but for case and dots at the end, one without blanks has none.
LEMMA NoBlanks ==
    ASSUME NEW hostname \in Seq(Nat), NEW known \in Seq(Nat \ {Space}),
           Normalize(hostname) = Normalize(known)
    PROVE  \A i \in 1 .. Len(hostname) : hostname[i] # Space
<1>0. known \in Seq(Nat) /\ \A i \in 1 .. Len(known) : known[i] \in Nat \ {Space}
    OBVIOUS
<1>1. PICK k \in 0 .. Len(hostname) :
          /\ TrimDots(hostname) = SubSeq(hostname, 1, k)
          /\ \A i \in 1 .. Len(hostname) : i > k => hostname[i] = Dot
    BY TrimDotsFacts
<1>2. PICK j \in 0 .. Len(known) : TrimDots(known) = SubSeq(known, 1, j)
    BY <1>0, TrimDotsFacts
<1> DEFINE s == SubSeq(hostname, 1, k)
           t == SubSeq(known, 1, j)
           low(c) == IF c \in 65 .. 90 THEN c + 32 ELSE c
<1>3. /\ s \in Seq(Nat) /\ Len(s) = k /\ \A i \in 1 .. k : s[i] = hostname[i]
      /\ t \in Seq(Nat) /\ Len(t) = j /\ \A i \in 1 .. j : t[i] = known[i]
  <2>1. \A u \in Seq(Nat) : \A z \in 0 .. Len(u) :
          /\ SubSeq(u, 1, z) \in Seq(Nat) /\ Len(SubSeq(u, 1, z)) = z
          /\ \A i \in 1 .. z : SubSeq(u, 1, z)[i] = u[i]
      OBVIOUS
  <2> QED
      BY <1>0, <2>1
<1>4. Normalize(hostname) = [i \in 1 .. k |-> low(s[i])] /\ Normalize(known) = [i \in 1 .. j |-> low(t[i])]
    BY <1>1, <1>2, <1>3 DEF Normalize, Lowercase
<1> HIDE DEF s, t
<1>5. \A i \in 1 .. k : i \in 1 .. j /\ low(s[i]) = low(t[i])
  <2>1. [i \in 1 .. k |-> low(s[i])] = [i \in 1 .. j |-> low(t[i])]
      BY <1>4
  <2>2. 1 .. k = 1 .. j
    <3>1. DOMAIN [i \in 1 .. k |-> low(s[i])] = 1 .. k /\ DOMAIN [i \in 1 .. j |-> low(t[i])] = 1 .. j
        OBVIOUS
    <3> QED
        BY <2>1, <3>1
  <2>3. \A i \in 1 .. k : [x \in 1 .. k |-> low(s[x])][i] = low(s[i])
      OBVIOUS
  <2>4. \A i \in 1 .. j : [x \in 1 .. j |-> low(t[x])][i] = low(t[i])
      OBVIOUS
  <2> HIDE DEF low
  <2> QED
      BY <2>1, <2>2, <2>3, <2>4
<1>6. low(Space) = Space /\ \A c \in Nat : c # Space => low(c) # Space
    BY DEF Space
<1> HIDE DEF low
<1>7. \A i \in 1 .. k : hostname[i] # Space
  <2> SUFFICES ASSUME NEW i \in 1 .. k, hostname[i] = Space PROVE FALSE
      OBVIOUS
  <2>1. i \in 1 .. j /\ low(s[i]) = low(t[i]) /\ s[i] = Space
      BY <1>3, <1>5
  <2>2. t[i] \in Nat /\ t[i] # Space
    <3>1. i \in 1 .. Len(known) /\ t[i] = known[i]
        BY <1>0, <1>3, <2>1
    <3> QED
        BY <1>0, <3>1
  <2> QED
      BY <1>6, <2>1, <2>2
<1> QED
  <2> SUFFICES ASSUME NEW i \in 1 .. Len(hostname) PROVE hostname[i] # Space
      OBVIOUS
  <2>1. CASE i > k
      BY <1>1, <2>1 DEF Dot, Space
  <2>2. CASE ~ (i > k)
    <3>1. i \in 1 .. k
        BY <2>2
    <3> QED
        BY <1>7, <3>1
  <2> QED
      BY <2>1, <2>2

\* The name a quota is counted under is then the name classic DNS has.
LEMMA QuotaKeyIsNormal ==
    ASSUME NEW hostname \in Seq(Nat), NEW known \in Seq(Nat \ {Space}),
           Normalize(hostname) = Normalize(known)
    PROVE  QuotaKey(hostname) = Normalize(hostname)
<1>1. Trim(hostname) = hostname
    BY NoBlanks, NothingToTrim
<1> QED
    BY <1>1 DEF QuotaKey, Normalize

-----------------------------------------------------------------------------
(* What a verification knows.  The codec is what RepliesUnderstood says of *)
(* it: the rest is the protocol's own.                                     *)

\* The lookup s failed, or the addresses it was after have been collected.
Learnt(s) == s \in failed \/ Held(Normalize(claim), QueryType[s]) \subseteq ips

\* The claim is one of the names as soon as its addresses are asked for, only its
\* addresses are collected, and no lookup is passed over.
Knows ==
    /\ source \in Sources /\ claim \in Claims
    /\ stage \in {"a", "aaaa"} => Normalize(claim) \in NamesOf(source)
    /\ ips \subseteq AddressesOf(Normalize(claim))
    /\ stage = "aaaa" => Learnt("a")
    /\ stage = "done" /\ verdict => Normalize(claim) \in NamesOf(source) /\ source \in ips
    /\ stage = "done" /\ ~ verdict =>
           \/ "ptr" \in failed
           \/ Normalize(claim) \notin NamesOf(source)
           \/ source \notin ips /\ Learnt("a") /\ Learnt("aaaa")

\* An empty list names nothing and has no address.
LEMMA NothingLearnt ==
    PtrNames(<<>>) = {} /\ \A qtype : Addresses(<<>>, qtype) = {}
BY DEF PtrNames, Addresses

\* A lookup that ends has learnt what it was after, or has failed with nothing.
LEMMA ConcludeKnows ==
    ASSUME Knows, stage \in Lookups, UNCHANGED <<source, claim>>, failed \subseteq failed',
           NEW answers, Conclude(answers),
           Learns(answers) \/ (answers = <<>> /\ stage \in failed')
    PROVE  Knows'
<1> DEFINE name == Normalize(claim)
<1>1. CASE stage = "ptr"
  <2>1. ips' = ips
      BY <1>1 DEF Conclude
  <2>2. CASE name \in {Normalize(n) : n \in PtrNames(answers)}
    <3>1. stage' = "a"
        BY <1>1, <2>2 DEF Conclude, Ask
    <3>2. answers # <<>>
        BY <2>2, NothingLearnt
    <3>3. name \in NamesOf(source)
        BY <1>1, <2>2, <3>2 DEF Learns
    <3> QED
        BY <2>1, <3>1, <3>3 DEF Knows
  <2>3. CASE name \notin {Normalize(n) : n \in PtrNames(answers)}
    <3>1. stage' = "done" /\ verdict' = FALSE
        BY <1>1, <2>3 DEF Conclude, Return
    <3>2. "ptr" \in failed' \/ name \notin NamesOf(source)
        BY <1>1, <2>3 DEF Learns
    <3> QED
        BY <2>1, <3>1, <3>2 DEF Knows
  <2> QED
      BY <2>2, <2>3
<1>2. ASSUME NEW s \in {"a", "aaaa"}, stage = s
      PROVE  Knows'
  <2>1. ips' = ips \cup Addresses(answers, QueryType[s])
      BY <1>2 DEF Conclude
  <2>2. QueryType[s] \in {TypeA, TypeAaaa}
      BY DEF QueryType
  <2>3. Held(name, QueryType[s]) \subseteq AddressesOf(name)
      BY <2>2 DEF AddressesOf
  <2>4. /\ Addresses(answers, QueryType[s]) \subseteq AddressesOf(name)
        /\ s \in failed' \/ Held(name, QueryType[s]) \subseteq ips'
    <3>1. CASE Learns(answers)
      <4>1. Addresses(answers, QueryType[s]) = Held(name, QueryType[s])
          BY <1>2, <3>1 DEF Learns
      <4> QED
          BY <2>1, <2>3, <4>1
    <3>2. CASE answers = <<>> /\ stage \in failed'
      <4>1. Addresses(answers, QueryType[s]) = {}
          BY <3>2, NothingLearnt
      <4> QED
          BY <1>2, <3>2, <4>1
    <3> QED
        BY <3>1, <3>2
  <2>5. ips' \subseteq AddressesOf(name) /\ ips \subseteq ips'
      BY <2>1, <2>4 DEF Knows
  <2>6. name \in NamesOf(source) /\ (s = "aaaa" => Learnt("a"))
      BY <1>2 DEF Knows
  <2>7. s = "aaaa" => Learnt("a")'
      BY <2>5, <2>6 DEF Learnt
  <2>8. s \in failed' \/ Held(Normalize(claim'), QueryType[s]) \subseteq ips'
      BY <2>4
  <2>9. CASE s = "a"
    <3>1. stage' = "aaaa"
        BY <1>2, <2>9 DEF Conclude, Ask
    <3>2. Learnt("a")'
        BY <2>8, <2>9 DEF Learnt
    <3> QED
        BY <2>5, <2>6, <3>1, <3>2 DEF Knows
  <2>10. CASE s = "aaaa"
    <3>1. stage' = "done" /\ verdict' = (source \in ips')
        BY <1>2, <2>10 DEF Conclude, Return
    <3>2. Learnt("a")' /\ Learnt("aaaa")'
        BY <2>7, <2>8, <2>10 DEF Learnt
    <3> QED
        BY <2>5, <2>6, <3>1, <3>2 DEF Knows
  <2> QED
      BY <2>9, <2>10
<1> QED
    BY <1>1, <1>2 DEF Lookups

\* So does the loop over the resolvers, which ends in a failure or goes on.
LEMMA NextResolverKnows ==
    ASSUME Knows, stage \in Lookups, UNCHANGED <<source, claim>>, NextResolver
    PROVE  Knows'
<1>1. CASE server < Resolvers
    BY <1>1 DEF NextResolver, Knows, Learnt
<1>2. CASE ~ (server < Resolvers)
  <2>1. failed' = failed \cup {stage} /\ Conclude(<<>>)
      BY <1>2 DEF NextResolver
  <2>2. failed \subseteq failed' /\ stage \in failed'
      BY <2>1
  <2> QED
      BY <2>1, <2>2, ConcludeKnows
<1> QED
    BY <1>1, <1>2

\* Every step preserves what is known, as long as the codec understands the replies.
LEMMA NextKnows == Knows /\ RepliesUnderstood /\ [Next]_vars => Knows'
<1> SUFFICES ASSUME Knows, RepliesUnderstood, [Next]_vars PROVE Knows'
    OBVIOUS
<1>1. CASE Reply
  <2>1. UNCHANGED <<source, claim>> /\ Asking /\ stage \in Lookups
      BY <1>1, LookupsAreQuestions DEF Reply, Takes
  <2>2. PICK buf \in HonestReplies(request) \cup UnusableReplies(request) : Receive(buf)
      BY <1>1 DEF Reply
  <2> DEFINE answers == ParseResponse(buf, request[1])
  <2>3. CASE answers = Malformed
      BY <2>1, <2>2, <2>3, NextResolverKnows DEF Receive
  <2>4. CASE answers # Malformed
    <3>1. failed' = failed /\ Conclude(answers)
        BY <2>2, <2>4 DEF Receive
    <3>2. Learns(answers)
        BY <2>1, <2>4 DEF RepliesUnderstood
    <3> HIDE DEF answers
    <3>3. failed \subseteq failed'
        BY <3>1
    <3> QED
        BY <2>1, <3>1, <3>2, <3>3, ConcludeKnows
  <2> QED
      BY <2>3, <2>4
<1>2. CASE ErrorReply
  <2>1. UNCHANGED <<source, claim>> /\ Asking /\ stage \in Lookups
      BY <1>2, LookupsAreQuestions DEF ErrorReply, Takes
  <2>2. failed' = failed \cup {stage} /\ Conclude(<<>>)
      BY <1>2, <2>1 DEF ErrorReply, RepliesUnderstood
  <2>3. failed \subseteq failed' /\ stage \in failed'
      BY <2>2
  <2> QED
      BY <2>1, <2>2, <2>3, ConcludeKnows
<1>3. CASE NoAnswer
  <2>1. UNCHANGED <<source, claim>> /\ stage \in Lookups
      BY <1>3, LookupsAreQuestions DEF NoAnswer, Takes
  <2> QED
      BY <1>3, <2>1, NextResolverKnows DEF NoAnswer
<1>4. ASSUME NEW ip \in Sources, NEW c \in Claims, Verify(ip, c)
      PROVE  Knows'
  <2>1. stage' = "ptr" /\ source' = ip /\ claim' = c /\ ips' = {}
      BY <1>4 DEF Verify, Ask
  <2> QED
      BY <2>1 DEF Knows
<1>5. CASE UNCHANGED vars
    BY <1>5 DEF Knows, Learnt, vars
<1> QED
    BY <1>1, <1>2, <1>3, <1>4, <1>5 DEF Next, Step

\* Nothing is known before the first verification.
LEMMA InitKnows == Init => Knows
BY DEF Init, Knows

\* Whatever reply is lost, late, cut short or meant for another query, and from however
\* many resolvers, verify accepts a claim only if classic DNS says so in both directions.
THEOREM ConfirmedClaimsAreTrue == Spec /\ []RepliesUnderstood => []ConfirmedIsTrue
<1>1. Knows => ConfirmedIsTrue
    BY DEF Knows, ConfirmedIsTrue, Confirms
<1> QED
    BY <1>1, InitKnows, NextKnows, PTL DEF Spec

\* verify refuses a claim that classic DNS confirms only when the reverse lookup failed,
\* or the lookup of the addresses of the source's own family.
THEOREM RefusalsHaveACause == Spec /\ []RepliesUnderstood => []RefusalHasCause
<1>1. Knows => RefusalHasCause
  <2> SUFFICES ASSUME Knows, stage = "done", ~ verdict, Confirms(source, claim)
               PROVE  failed \cap Needed(source) # {}
      BY DEF RefusalHasCause
  <2> DEFINE name == Normalize(claim)
  <2>1. name \in NamesOf(source) /\ source \in AddressesOf(name)
      BY DEF Confirms
  <2>2. CASE "ptr" \in failed
      BY <2>2 DEF Needed
  <2>3. CASE source \notin ips /\ Learnt("a") /\ Learnt("aaaa")
    <3>1. QueryType["a"] = TypeA /\ QueryType["aaaa"] = TypeAaaa
        BY DEF QueryType
    <3>2. CASE source \in Held(name, TypeA)
      <4>1. "a" \in failed
          BY <2>3, <3>1, <3>2 DEF Learnt
      <4>2. Len(source) = 4
        <5>1. source \in [1 .. 4 -> 0 .. 255]
            BY <3>2 DEF Held, Width
        <5> QED
            BY <5>1
      <4> QED
          BY <4>1, <4>2 DEF Needed
    <3>3. CASE source \in Held(name, TypeAaaa)
      <4>1. "aaaa" \in failed
          BY <2>3, <3>1, <3>3 DEF Learnt
      <4>2. Len(source) # 4
        <5>1. source \in [1 .. 16 -> 0 .. 255]
            BY <3>3 DEF Held, Width, TypeA, TypeAaaa
        <5>2. Len(source) = 16
            BY <5>1
        <5> QED
            BY <5>2
      <4> QED
          BY <4>1, <4>2 DEF Needed
    <3> QED
        BY <2>1, <3>2, <3>3 DEF AddressesOf
  <2> QED
      BY <2>1, <2>2, <2>3 DEF Knows
<1> QED
    BY <1>1, InitKnows, NextKnows, PTL DEF Spec

\* A confirmed client's quota is counted under a name classic DNS has for its address.
THEOREM QuotasFollowHosts == Spec /\ []RepliesUnderstood => []QuotaFollowsHost
<1>1. Knows => QuotaFollowsHost
  <2> SUFFICES ASSUME Knows, stage = "done", verdict PROVE QuotaKey(claim) \in NamesOf(source)
      BY DEF QuotaFollowsHost
  <2>1. Normalize(claim) \in NamesOf(source) /\ source \in Sources /\ claim \in Seq(Nat)
      BY ClaimsAssumption DEF Knows
  <2>2. PICK r \in Rrs(ReverseName[source], TypePtr) : Normalize(claim) = Normalize(r.data)
      BY <2>1 DEF NamesOf
  <2>3. r.data \in Seq(Nat \ {Space})
      BY <2>1, <2>2, NamesAssumption
  <2>4. QuotaKey(claim) = Normalize(claim)
      BY <2>1, <2>2, <2>3, QuotaKeyIsNormal
  <2> QED
      BY <2>1, <2>4
<1> QED
    BY <1>1, InitKnows, NextKnows, PTL DEF Spec

-----------------------------------------------------------------------------
(* What a verification asks                                                *)

\* The name an address is looked up under is a text.
LEMMA PtrQueryNameType ==
    ASSUME NEW ip \in Sources
    PROVE  PtrQueryName(ip) \in Seq(Nat)
<1>0. Len(ip) \in Nat /\ \A i \in 1 .. Len(ip) : ip[i] \in 0 .. 255
  <2>1. ip \in Seq(0 .. 255)
      BY SourcesAssumption
  <2> DEFINE Octet == 0 .. 255
  <2>2. ip \in Seq(Octet)
      BY <2>1
  <2> HIDE DEF Octet
  <2>3. Len(ip) \in Nat /\ \A i \in 1 .. Len(ip) : ip[i] \in Octet
      BY <2>2
  <2> QED
      BY <2>3 DEF Octet
<1> DEFINE n == Len(ip)
           Spelled(o) == IF n = 4 THEN Decimal(o) \o <<Dot>>
                         ELSE <<Digit(o % 16), Dot, Digit(o \div 16), Dot>>
           pieces == [i \in 1 .. n |-> Spelled(ip[n + 1 - i])]
           suffix == IF n = 4 THEN InAddrArpa ELSE Ip6Arpa
<1>1. n \in Nat /\ \A i \in 1 .. n : ip[n + 1 - i] \in 0 .. 255
  <2>1. n \in Nat /\ \A i \in 1 .. n : ip[i] \in 0 .. 255
      BY <1>0
  <2> HIDE DEF n
  <2>2. \A i \in 1 .. n : n + 1 - i \in 1 .. n
      BY <2>1
  <2> QED
      BY <2>1, <2>2
<1>2. PtrQueryName(ip) = FlattenSeq(pieces) \o suffix
    BY DEF PtrQueryName
<1> HIDE DEF n
<1>3. \A o \in 0 .. 255 : Spelled(o) \in Seq(Nat)
  <2>1. Dot \in Nat /\ \A k \in Nat : Digit(k) \in Nat
      BY DEF Dot, Digit
  <2>2. ASSUME NEW o \in 0 .. 255 PROVE Decimal(o) \o <<Dot>> \in Seq(Nat)
    <3>1. /\ o \in Nat /\ (o \div 10) \in Nat /\ (o % 10) \in Nat /\ (o \div 100) \in Nat
          /\ ((o \div 10) % 10) \in Nat
        OBVIOUS
    <3>2. Decimal(o) \in Seq(Nat)
      <4> HIDE DEF Digit
      <4>1. /\ <<Digit(o)>> \in Seq(Nat)
            /\ <<Digit(o \div 10), Digit(o % 10)>> \in Seq(Nat)
            /\ <<Digit(o \div 100), Digit((o \div 10) % 10), Digit(o % 10)>> \in Seq(Nat)
          BY <2>1, <3>1
      <4> QED
          BY <4>1, Zenon DEF Decimal
    <3>3. <<Dot>> \in Seq(Nat)
        BY <2>1
    <3> QED
        BY <3>2, <3>3
  <2>3. ASSUME NEW o \in 0 .. 255
        PROVE  <<Digit(o % 16), Dot, Digit(o \div 16), Dot>> \in Seq(Nat)
    <3>1. (o % 16) \in Nat /\ (o \div 16) \in Nat
        OBVIOUS
    <3> QED
        BY <2>1, <3>1
  <2> QED
      BY <2>2, <2>3
<1> HIDE DEF Spelled
<1>4. pieces \in Seq(Seq(Nat))
  <2>1. \A i \in 1 .. n : Spelled(ip[n + 1 - i]) \in Seq(Nat)
      BY <1>1, <1>3
  <2> QED
      BY <1>1, <2>1
<1>5. suffix \in Seq(Nat)
    BY DEF InAddrArpa, Ip6Arpa
<1> HIDE DEF pieces, suffix
<1>6. FlattenSeq(pieces) \in Seq(Nat)
    BY <1>4, FlattenType
<1> QED
    BY <1>2, <1>5, <1>6

\* A query begins with its identifier, and its type is next to its end.
LEMMA QueryFields ==
    ASSUME NEW id \in Nat, NEW name \in Seq(Nat), NEW qtype \in Nat
    PROVE  LET q == EncodeQuery(id, name, qtype)
           IN q[1] = id /\ q[Len(q) - 1] = qtype
<1> DEFINE labels == Keep(Split[name], Seq(Nat) \ {<<>>})
           header == <<id, 256, 1, 0, 0, 0>>
           encoded == EncodeLabels(labels)
           end == <<qtype, 1>>
<1>1. encoded \in Seq(Nat)
  <2>1. Split[name] \in Seq(Seq(Nat))
      BY SplitFacts DEF LabelLists
  <2>2. labels \in Seq(Seq(Nat) \cap (Seq(Nat) \ {<<>>}))
      BY <2>1, KeepType
  <2>3. Seq(Nat) \cap (Seq(Nat) \ {<<>>}) \subseteq Seq(Nat)
      OBVIOUS
  <2> HIDE DEF labels
  <2>4. labels \in Seq(Seq(Nat))
      BY <2>2, <2>3, SeqSubset
  <2> QED
      BY <2>4, EncodeLabelsFacts
<1>2. /\ header \in Seq(Nat) /\ Len(header) = 6 /\ header[1] = id
      /\ end \in Seq(Nat) /\ Len(end) = 2 /\ end[1] = qtype
    OBVIOUS
<1>3. EncodeQuery(id, name, qtype) = header \o encoded \o end
    BY DEF EncodeQuery
<1> HIDE DEF encoded, header, end
<1>4. LET q == header \o encoded \o end
      IN q[1] = id /\ q[Len(q) - 1] = qtype
  <2> DEFINE s == header \o encoded
  <2>1. s \in Seq(Nat) /\ Len(s) = 6 + Len(encoded) /\ Len(encoded) \in Nat /\ s[1] = header[1]
    <3>1. header \in Seq(Nat) /\ encoded \in Seq(Nat)
        BY <1>1, <1>2
    <3>2. /\ s \in Seq(Nat) /\ Len(s) = Len(header) + Len(encoded)
          /\ \A i \in 1 .. Len(header) : s[i] = header[i]
        BY <3>1
    <3>3. 1 \in 1 .. Len(header) /\ Len(encoded) \in Nat
        BY <1>1, <1>2
    <3> QED
        BY <1>2, <3>2, <3>3
  <2> HIDE DEF s
  <2>2. Len(s \o end) = Len(s) + 2 /\ (s \o end)[1] = s[1] /\ (s \o end)[Len(s) + 1] = end[1]
    <3>1. s \in Seq(Nat) /\ end \in Seq(Nat)
        BY <1>2, <2>1
    <3>2. /\ Len(s \o end) = Len(s) + Len(end)
          /\ \A i \in 1 .. Len(s) : (s \o end)[i] = s[i]
          /\ \A i \in 1 .. Len(end) : (s \o end)[Len(s) + i] = end[i]
        BY <3>1
    <3>3. 1 \in 1 .. Len(s) /\ 1 \in 1 .. Len(end)
        BY <1>2, <2>1
    <3> QED
        BY <1>2, <3>2, <3>3
  <2>3. Len(s \o end) - 1 = Len(s) + 1
      BY <2>1, <2>2
  <2>4. (s \o end)[1] = id /\ (s \o end)[Len(s \o end) - 1] = qtype
      BY <1>2, <2>1, <2>2, <2>3
  <2> QED
      BY <2>4 DEF s
<1> QED
    BY <1>3, <1>4

\* The request on its way is a query of the lookup's type.
Asks(s, q) == \E id \in Ids, name \in Seq(Nat) : q = EncodeQuery(id, name, QueryType[s])

\* What a verification keeps beside its clock and its knowledge.
Shape ==
    /\ verdict \in BOOLEAN /\ failed \subseteq Lookups
    /\ stage \in Lookups => Asks(stage, request)

\* A question about a name is a query of its type.
LEMMA AskAsks ==
    ASSUME NEW s, NEW name \in Seq(Nat), Ask(s, name)
    PROVE  stage' = s /\ Asks(s, request')
BY DEF Ask, Asks

\* A lookup that ends asks the next question, or none.
LEMMA ConcludeShape ==
    ASSUME Shape, stage \in Lookups, claim \in Claims, NEW answers, Conclude(answers),
           failed' \subseteq failed \cup {stage}
    PROVE  Shape'
<1>1. claim \in Seq(Nat) /\ failed' \subseteq Lookups
    BY ClaimsAssumption DEF Shape
<1>2. ASSUME NEW s, Ask(s, claim), UNCHANGED verdict PROVE Shape'
  <2>1. stage' = s /\ Asks(s, request')
      BY <1>1, <1>2, AskAsks
  <2> QED
      BY <1>1, <1>2, <2>1 DEF Shape
<1>3. ASSUME NEW result \in BOOLEAN, Return(result) PROVE Shape'
  <2>1. stage' = "done" /\ verdict' = result
      BY <1>3 DEF Return
  <2> QED
      BY <1>1, <2>1 DEF Shape, Lookups
<1>4. \/ Ask("a", claim) /\ UNCHANGED verdict
      \/ Ask("aaaa", claim) /\ UNCHANGED verdict
      \/ \E result \in BOOLEAN : Return(result)
  <2>1. CASE stage = "ptr"
      BY <2>1 DEF Conclude
  <2>2. CASE stage = "a"
      BY <2>2 DEF Conclude
  <2>3. CASE stage = "aaaa"
    <3>1. Return(source \in ips')
        BY <2>3 DEF Conclude
    <3>2. (source \in ips') \in BOOLEAN
        OBVIOUS
    <3> QED
        BY <3>1, <3>2
  <2> QED
      BY <2>1, <2>2, <2>3 DEF Lookups
<1> QED
    BY <1>2, <1>3, <1>4

\* The loop over the resolvers sends the same query again.
LEMMA NextResolverShape ==
    ASSUME Shape, stage \in Lookups, claim \in Claims, NextResolver
    PROVE  Shape'
<1>1. CASE server < Resolvers
    BY <1>1 DEF NextResolver, Shape, Asks
<1>2. CASE ~ (server < Resolvers)
    BY <1>2, ConcludeShape DEF NextResolver
<1> QED
    BY <1>1, <1>2

\* Every step preserves the shape.
LEMMA NextShape == Knows /\ Shape /\ [Next]_vars => Shape'
<1> SUFFICES ASSUME Knows, Shape, [Next]_vars PROVE Shape'
    OBVIOUS
<1>0. claim \in Claims
    BY DEF Knows
<1>1. CASE Reply
  <2>1. stage \in Lookups
      BY <1>1, LookupsAreQuestions DEF Reply
  <2>2. PICK buf : Receive(buf)
      BY <1>1 DEF Reply
  <2> DEFINE answers == ParseResponse(buf, request[1])
  <2>3. CASE answers = Malformed
      BY <1>0, <2>1, <2>2, <2>3, NextResolverShape DEF Receive
  <2>4. CASE answers # Malformed
    <3>1. failed' = failed /\ Conclude(answers)
        BY <2>2, <2>4 DEF Receive
    <3> HIDE DEF answers
    <3>2. failed' \subseteq failed \cup {stage}
        BY <3>1
    <3> QED
        BY <1>0, <2>1, <3>1, <3>2, ConcludeShape
  <2> QED
      BY <2>3, <2>4
<1>2. CASE ErrorReply
  <2> DEFINE answers == ParseResponse(Response(request, 2, <<>>, FALSE), request[1])
  <2>1. stage \in Lookups /\ failed' = failed \cup {stage} /\ Conclude(answers)
      BY <1>2, LookupsAreQuestions DEF ErrorReply
  <2> HIDE DEF answers
  <2>2. failed' \subseteq failed \cup {stage}
      BY <2>1
  <2> QED
      BY <1>0, <2>1, <2>2, ConcludeShape
<1>3. CASE NoAnswer
    BY <1>0, <1>3, LookupsAreQuestions, NextResolverShape DEF NoAnswer
<1>4. ASSUME NEW ip \in Sources, NEW c \in Claims, Verify(ip, c)
      PROVE  Shape'
  <2>1. Ask("ptr", PtrQueryName(ip)) /\ failed' = {} /\ verdict' = FALSE
      BY <1>4 DEF Verify
  <2>2. PtrQueryName(ip) \in Seq(Nat)
      BY PtrQueryNameType
  <2>3. stage' = "ptr" /\ Asks("ptr", request')
      BY <2>1, <2>2, AskAsks
  <2> QED
      BY <2>1, <2>3 DEF Shape
<1>5. CASE UNCHANGED vars
    BY <1>5 DEF Shape, Asks, vars
<1> QED
    BY <1>1, <1>2, <1>3, <1>4, <1>5 DEF Next, Step

\* The addresses a name holds are of the width of their type, of octets.
LEMMA HeldAddresses ==
    ASSUME NEW name
    PROVE  /\ Held(name, TypeA) \subseteq [1 .. 4 -> 0 .. 255]
           /\ Held(name, TypeAaaa) \subseteq [1 .. 16 -> 0 .. 255]
<1>1. Width(TypeA) = 4 /\ Width(TypeAaaa) = 16
    BY DEF Width, TypeA, TypeAaaa
<1>2. ASSUME NEW type, NEW a \in Held(name, type)
      PROVE  a \in [1 .. Width(type) -> 0 .. 255]
  <2> DEFINE W == [1 .. Width(type) -> 0 .. 255]
  <2> HIDE DEF W
  <2> QED
      BY <1>2, Zenon DEF Held, W
<1>3. Held(name, TypeA) \subseteq [1 .. Width(TypeA) -> 0 .. 255]
    BY <1>2, Zenon
<1>4. Held(name, TypeAaaa) \subseteq [1 .. Width(TypeAaaa) -> 0 .. 255]
    BY <1>2, Zenon
<1>5. Held(name, TypeA) \subseteq [1 .. 4 -> 0 .. 255]
    BY <1>1, <1>3, Zenon
<1>6. Held(name, TypeAaaa) \subseteq [1 .. 16 -> 0 .. 255]
    BY <1>1, <1>4, Zenon
<1> QED
    BY <1>5, <1>6, Zenon

\* Every state is well-formed: in each, a lookup under way has a query of its own type out.
THEOREM VerifierTyped == Spec /\ []RepliesUnderstood => []TypeOK
<1>1. Init => IInv /\ Shape
  <2>1. ASSUME Init PROVE IInv
    <3>1. 1 \in 1 .. Resolvers /\ PerLookup \in Nat
        BY ResolversAssumption, Times
    <3> QED
        BY <2>1, <3>1 DEF Init, IInv, TimeSpent, Lookups
  <2>2. ASSUME Init PROVE Shape
      BY <2>2 DEF Init, Shape, Lookups
  <2> QED
      BY <2>1, <2>2
<1>2. IInv /\ Knows /\ Shape => TypeOK
  <2> SUFFICES ASSUME IInv, Knows, Shape PROVE TypeOK
      OBVIOUS
  <2>1. DOMAIN QueryType = Lookups
      BY DEF QueryType, Lookups
  <2>2. ips \subseteq Seq(0 .. 255)
    <3> DEFINE Octet == 0 .. 255
               four == 1 .. 4
               sixteen == 1 .. 16
    <3>1. [four -> Octet] \subseteq Seq(Octet) /\ [sixteen -> Octet] \subseteq Seq(Octet)
      <4> HIDE DEF Octet
      <4>1. \A k \in Nat : [1 .. k -> Octet] \subseteq Seq(Octet)
          OBVIOUS
      <4> QED
          BY <4>1
    <3> HIDE DEF Octet, four, sixteen
    <3>2. ips \subseteq [four -> Octet] \cup [sixteen -> Octet]
      <4>1. /\ Held(Normalize(claim), TypeA) \subseteq [four -> Octet]
            /\ Held(Normalize(claim), TypeAaaa) \subseteq [sixteen -> Octet]
          BY HeldAddresses, Zenon DEF four, sixteen, Octet
      <4> QED
          BY <4>1 DEF Knows, AddressesOf
    <3>3. ips \subseteq Seq(Octet)
        BY <3>1, <3>2
    <3> QED
        BY <3>3 DEF Octet
  <2>3. Asking => request[1] \in Ids /\ request[Len(request) - 1] = QueryType[stage]
    <3> SUFFICES ASSUME stage \in Lookups
                 PROVE  request[1] \in Ids /\ request[Len(request) - 1] = QueryType[stage]
        BY LookupsAreQuestions
    <3>1. PICK id \in Ids, name \in Seq(Nat) : request = EncodeQuery(id, name, QueryType[stage])
        BY DEF Shape, Asks
    <3>2. id \in Nat /\ QueryType[stage] \in Nat
        BY IdsAssumption DEF QueryType, Lookups, TypeA, TypePtr, TypeAaaa
    <3> QED
        BY <3>1, <3>2, QueryFields
  <2> QED
      BY <2>1, <2>2, <2>3 DEF TypeOK, IInv, Knows, Shape
<1> QED
    BY <1>1, <1>2, InitKnows, NextKnows, NextPreserves, NextShape, PTL DEF Spec
=============================================================================
