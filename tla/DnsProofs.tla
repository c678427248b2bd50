----------------------------- MODULE DnsProofs -----------------------------
(***************************************************************************)
(* Proofs about names and the codec of the native lookup protocol.         *)
(***************************************************************************)
EXTENDS Dns, StoreProofs, SequenceTheorems

-----------------------------------------------------------------------------
(* Sequences put together from pieces                                      *)

\* A sequence that is not empty is what comes before its last element, and that.
LEMMA LastSplit ==
    ASSUME NEW S, NEW k \in Nat, NEW s \in Seq(S), Len(s) = k + 1
    PROVE  \E front \in Seq(S), last \in S : s = Append(front, last) /\ Len(front) = k
<1> DEFINE front == SubSeq(s, 1, k)
<1>1. front \in Seq(S) /\ Len(front) = k /\ \A i \in 1 .. k : front[i] = s[i]
    OBVIOUS
<1>2. s[k + 1] \in S
    OBVIOUS
<1>3. s = Append(front, s[k + 1])
  <2> HIDE DEF front
  <2>1. Append(front, s[k + 1]) \in Seq(S) /\ Len(Append(front, s[k + 1])) = Len(s)
      BY <1>1, <1>2
  <2>2. \A i \in 1 .. Len(s) : s[i] = Append(front, s[k + 1])[i]
      BY <1>1, <1>2
  <2> QED
      BY <2>1, <2>2, SeqEqual
<1> QED
    BY <1>1, <1>2, <1>3

\* A sequence of elements of C is one of elements of any larger set.
LEMMA SeqSubset ==
    ASSUME NEW C, NEW D, C \subseteq D, NEW s \in Seq(C)
    PROVE  s \in Seq(D)
<1>1. Len(s) \in Nat /\ s \in [1 .. Len(s) -> D]
    OBVIOUS
<1> QED
    BY <1>1

\* The prefixes FlattenSeq builds.
Accumulates(f, seqs) ==
    /\ f[1] = seqs[1]
    /\ \A i \in 2 .. Len(seqs) : f[i] = f[i - 1] \o seqs[i]

\* FlattenSeq of pieces is the last of its prefixes.
LEMMA FlattenPrefixes ==
    ASSUME NEW S, NEW seqs \in Seq(Seq(S)), Len(seqs) > 0
    PROVE  \E f \in [1 .. Len(seqs) -> Seq(S)] : Accumulates(f, seqs) /\ FlattenSeq(seqs) = f[Len(seqs)]
<1> DEFINE n == Len(seqs)
           Q == Seq(S)
           G == [x \in (1 .. n) \X Q |-> IF x[1] = 1 THEN seqs[1] ELSE x[2] \o seqs[x[1]]]
           Is(f) == f = [i \in 1 .. n |-> IF i = 1 THEN seqs[i] ELSE f[i - 1] \o seqs[i]]
           flat == CHOOSE f : Is(f)
<1>1. n \in Nat /\ n > 0 /\ \A i \in 1 .. n : seqs[i] \in Q
    OBVIOUS
<1>2. <<>> \in Q /\ \A s, t \in Q : s \o t \in Q
    OBVIOUS
<1>3. FlattenSeq(seqs) = flat[n]
    BY <1>1 DEF FlattenSeq
<1> HIDE DEF n, Q
<1>4. G \in Rounds(Q, n)
    BY <1>1, <1>2 DEF Rounds
<1>5. \A i \in 1 .. n, s \in Q : G[<<i, s>>] = IF i = 1 THEN seqs[1] ELSE s \o seqs[i]
    OBVIOUS
<1> HIDE DEF G
<1>6. PICK g \in Results(Q, n) : AreResults(g, <<>>, n, G)
    BY <1>1, <1>2, <1>4, FoldExists
<1>7. g \in [0 .. n -> Q] /\ \A i \in 1 .. n : g[i] = G[<<i, g[i - 1]>>]
    BY <1>6 DEF Results, AreResults
<1>8. \A i \in 1 .. n : g[i] \in Q /\ g[i - 1] \in Q
    BY <1>1, <1>7
<1>9. \A i \in 1 .. n : g[i] = IF i = 1 THEN seqs[1] ELSE g[i - 1] \o seqs[i]
    BY <1>5, <1>7, <1>8
<1> DEFINE f == [i \in 1 .. n |-> g[i]]
<1>10. Is(f)
  <2>1. \A i \in 1 .. n : i # 1 => f[i - 1] = g[i - 1]
      BY <1>1
  <2>2. \A i \in 1 .. n : f[i] = IF i = 1 THEN seqs[i] ELSE f[i - 1] \o seqs[i]
      BY <1>9, <2>1
  <2> QED
      BY <2>2, Zenon
<1>11. Is(flat)
    BY <1>10, Zenon
<1> HIDE DEF flat
<1>12. \A i \in 1 .. n : flat[i] = IF i = 1 THEN seqs[i] ELSE flat[i - 1] \o seqs[i]
    BY <1>11
<1> DEFINE T == {i \in Nat : i \in 1 .. n => flat[i] \in Q}
<1>13. Nat \subseteq T
  <2>1. 0 \in T
      OBVIOUS
  <2>2. ASSUME NEW i \in Nat, i \in T PROVE i + 1 \in T
    <3>1. CASE i = 0
        BY <1>1, <1>12, <3>1
    <3>2. CASE i # 0 /\ i + 1 \in 1 .. n
      <4>1. i \in 1 .. n /\ flat[i] \in Q
          BY <1>1, <2>2, <3>2
      <4>2. i + 1 \in 1 .. n /\ i + 1 # 1 /\ (i + 1) - 1 = i
          BY <1>1, <3>2
      <4>3. flat[i + 1] = flat[i] \o seqs[i + 1] /\ seqs[i + 1] \in Q
          BY <1>1, <1>12, <4>2
      <4>4. flat[i + 1] \in Q
          BY <1>2, <4>1, <4>3
      <4> QED
          BY <4>4
    <3> QED
        BY <3>1, <3>2
  <2> HIDE DEF T
  <2> QED
      BY <2>1, <2>2, SetInduction
<1>14. flat \in [1 .. n -> Q]
  <2>1. \A i \in 1 .. n : flat[i] \in Q
      BY <1>13
  <2> QED
      BY <1>11, <2>1
<1>15. Accumulates(flat, seqs)
  <2>1. 1 \in 1 .. n /\ \A i \in 2 .. n : i \in 1 .. n /\ i # 1
      BY <1>1
  <2>2. flat[1] = seqs[1]
      BY <1>12, <2>1
  <2>3. \A i \in 2 .. n : flat[i] = flat[i - 1] \o seqs[i]
      BY <1>12, <2>1
  <2> QED
      BY <2>2, <2>3 DEF Accumulates, n
<1> QED
    BY <1>3, <1>14, <1>15 DEF n, Q

\* FlattenSeq of no pieces, and of one piece more.
LEMMA FlattenEmpty == FlattenSeq(<<>>) = <<>>
BY DEF FlattenSeq

\* Whatever the pieces, the whole is a sequence of the same elements.
LEMMA FlattenType ==
    ASSUME NEW S, NEW seqs \in Seq(Seq(S))
    PROVE  FlattenSeq(seqs) \in Seq(S)
<1>1. CASE Len(seqs) = 0
  <2>1. FlattenSeq(seqs) = <<>>
      BY <1>1, FlattenEmpty
  <2> QED
      BY <2>1
<1>2. CASE Len(seqs) # 0
  <2>1. PICK f \in [1 .. Len(seqs) -> Seq(S)] : FlattenSeq(seqs) = f[Len(seqs)]
      BY <1>2, FlattenPrefixes
  <2> QED
      BY <1>2, <2>1
<1> QED
    BY <1>1, <1>2

\* One piece more goes to the end.
LEMMA FlattenAppend ==
    ASSUME NEW S, NEW seqs \in Seq(Seq(S)), NEW e \in Seq(S)
    PROVE  FlattenSeq(Append(seqs, e)) = FlattenSeq(seqs) \o e
<1> DEFINE n == Len(seqs)
           more == Append(seqs, e)
<1>1. /\ n \in Nat /\ more \in Seq(Seq(S)) /\ Len(more) = n + 1 /\ more[n + 1] = e
      /\ \A i \in 1 .. n : more[i] = seqs[i] /\ seqs[i] \in Seq(S)
    OBVIOUS
<1> HIDE DEF n, more
<1>2. PICK g \in [1 .. n + 1 -> Seq(S)] : Accumulates(g, more) /\ FlattenSeq(more) = g[n + 1]
  <2>1. Len(more) > 0
      BY <1>1
  <2>2. \E g \in [1 .. Len(more) -> Seq(S)] :
            Accumulates(g, more) /\ FlattenSeq(more) = g[Len(more)]
      BY <1>1, <2>1, FlattenPrefixes
  <2> QED
      BY <1>1, <2>2
<1>3. g[1] = more[1] /\ \A i \in 2 .. n + 1 : g[i] = g[i - 1] \o more[i]
    BY <1>1, <1>2 DEF Accumulates
<1>4. CASE n = 0
  <2>1. FlattenSeq(seqs) = <<>>
      BY <1>4, FlattenEmpty DEF n
  <2>2. FlattenSeq(more) = e
      BY <1>1, <1>2, <1>3, <1>4
  <2> QED
      BY <2>1, <2>2 DEF more
<1>5. CASE n # 0
  <2>1. PICK f \in [1 .. n -> Seq(S)] : Accumulates(f, seqs) /\ FlattenSeq(seqs) = f[n]
      BY <1>1, <1>5, FlattenPrefixes DEF n
  <2>2. f[1] = seqs[1] /\ \A i \in 2 .. n : f[i] = f[i - 1] \o seqs[i]
      BY <2>1 DEF Accumulates, n
  <2> DEFINE T == {i \in Nat : i \in 1 .. n => f[i] = g[i]}
  <2>3. Nat \subseteq T
    <3>1. 0 \in T
        OBVIOUS
    <3>2. ASSUME NEW i \in Nat, i \in T PROVE i + 1 \in T
      <4>1. CASE i = 0
          BY <1>1, <1>3, <1>5, <2>2, <4>1
      <4>2. CASE i # 0 /\ i + 1 \in 1 .. n
        <5>1. i \in 1 .. n /\ i + 1 \in 2 .. n /\ i + 1 \in 2 .. n + 1 /\ (i + 1) - 1 = i
            BY <1>1, <4>2
        <5>2. f[i + 1] = f[i] \o seqs[i + 1] /\ g[i + 1] = g[i] \o more[i + 1]
            BY <1>3, <2>2, <5>1
        <5>3. f[i] = g[i] /\ more[i + 1] = seqs[i + 1]
            BY <1>1, <3>2, <5>1, <4>2
        <5>4. f[i + 1] = g[i + 1]
            BY <5>2, <5>3
        <5> QED
            BY <5>4
      <4> QED
          BY <4>1, <4>2
    <3> HIDE DEF T
    <3> QED
        BY <3>1, <3>2, SetInduction
  <2>4. f[n] = g[n]
      BY <1>1, <1>5, <2>3
  <2>5. n + 1 \in 2 .. n + 1 /\ (n + 1) - 1 = n
      BY <1>1, <1>5
  <2>6. g[n + 1] = g[n] \o e
      BY <1>1, <1>3, <2>5
  <2> QED
      BY <1>2, <2>1, <2>4, <2>6 DEF more
<1> QED
    BY <1>4, <1>5

\* Where each piece ends in the whole.
Layout(off, seqs, flat) ==
    /\ off[0] = 0 /\ off[Len(seqs)] = Len(flat)
    /\ \A i \in 1 .. Len(seqs) : off[i] = off[i - 1] + Len(seqs[i]) /\ off[i] <= Len(flat)
    /\ \A i \in 1 .. Len(seqs) : \A j \in 1 .. Len(seqs[i]) : flat[off[i - 1] + j] = seqs[i][j]

\* The pieces stand in the whole one after the other.
LEMMA FlattenLayout ==
    ASSUME NEW S, NEW seqs \in Seq(Seq(S))
    PROVE  \E off \in [0 .. Len(seqs) -> Nat] : Layout(off, seqs, FlattenSeq(seqs))
<1> DEFINE Laid(s) == \E off \in [0 .. Len(s) -> Nat] : Layout(off, s, FlattenSeq(s))
           T == {k \in Nat : \A s \in Seq(Seq(S)) : Len(s) = k => Laid(s)}
<1>1. 0 \in T
  <2>1. ASSUME NEW s \in Seq(Seq(S)), Len(s) = 0 PROVE Laid(s)
    <3>1. s = <<>> /\ FlattenSeq(s) = <<>>
        BY <2>1, FlattenEmpty
    <3> DEFINE off == [i \in 0 .. 0 |-> 0]
    <3>2. off \in [0 .. Len(s) -> Nat] /\ off[0] = 0
        BY <2>1
    <3> HIDE DEF off
    <3>3. Layout(off, s, FlattenSeq(s))
        BY <2>1, <3>1, <3>2 DEF Layout
    <3> QED
        BY <3>2, <3>3
  <2> HIDE DEF Laid
  <2> QED
      BY <2>1
<1>2. ASSUME NEW k \in Nat, k \in T PROVE k + 1 \in T
  <2>1. ASSUME NEW s \in Seq(Seq(S)), Len(s) = k + 1 PROVE Laid(s)
    <3>1. PICK front \in Seq(Seq(S)), e \in Seq(S) : s = Append(front, e) /\ Len(front) = k
        BY <2>1, LastSplit
    <3>2. PICK o \in [0 .. k -> Nat] : Layout(o, front, FlattenSeq(front))
        BY <1>2, <3>1
    <3> DEFINE flat == FlattenSeq(s)
               f == FlattenSeq(front)
               off == [i \in 0 .. k + 1 |-> IF i <= k THEN o[i] ELSE o[k] + Len(e)]
    <3>3. flat = f \o e /\ f \in Seq(S)
        BY <3>1, FlattenAppend, FlattenType
    <3>4. /\ o[0] = 0 /\ o[k] = Len(f)
          /\ \A i \in 1 .. k : o[i] = o[i - 1] + Len(front[i]) /\ o[i] <= Len(f)
          /\ \A i \in 1 .. k : \A j \in 1 .. Len(front[i]) : f[o[i - 1] + j] = front[i][j]
        BY <3>1, <3>2 DEF Layout
    <3>5. /\ off \in [0 .. k + 1 -> Nat] /\ off[k + 1] = o[k] + Len(e)
          /\ \A i \in 0 .. k : off[i] = o[i] /\ o[i] \in Nat
      <4>1. o[k] + Len(e) \in Nat /\ \A i \in 0 .. k : o[i] \in Nat
          BY <3>1, <3>2
      <4>2. ~ (k + 1 <= k) /\ k + 1 \in 0 .. k + 1
          OBVIOUS
      <4> QED
          BY <4>1, <4>2
    <3>6. /\ s[k + 1] = e /\ \A i \in 1 .. k : s[i] = front[i] /\ front[i] \in Seq(S)
        BY <3>1
    <3>7. Len(flat) = Len(f) + Len(e) /\ Len(f) \in Nat /\ Len(e) \in Nat
        BY <3>3
    <3>8. \A j \in 1 .. Len(f) : flat[j] = f[j]
        BY <3>3
    <3>9. \A j \in 1 .. Len(e) : flat[Len(f) + j] = e[j]
        BY <3>3
    <3> HIDE DEF flat, f, off
    <3>10. ASSUME NEW i \in 1 .. k + 1
           PROVE  /\ off[i] = off[i - 1] + Len(s[i]) /\ off[i] <= Len(flat)
                  /\ \A j \in 1 .. Len(s[i]) : flat[off[i - 1] + j] = s[i][j]
      <4>1. CASE i = k + 1
        <5>1. i - 1 = k /\ k \in 0 .. k
            BY <4>1
        <5>2. off[i] = Len(f) + Len(e) /\ off[i - 1] = Len(f) /\ s[i] = e
            BY <3>4, <3>5, <3>6, <4>1, <5>1
        <5>3. off[i] = off[i - 1] + Len(s[i]) /\ off[i] <= Len(flat)
            BY <3>7, <5>2
        <5>4. \A j \in 1 .. Len(s[i]) : flat[off[i - 1] + j] = s[i][j]
            BY <3>9, <5>2
        <5> QED
            BY <5>3, <5>4
      <4>2. CASE i # k + 1
        <5>1. i \in 1 .. k /\ i \in 0 .. k /\ i - 1 \in 0 .. k
            BY <4>2
        <5>2. off[i] = o[i] /\ off[i - 1] = o[i - 1] /\ o[i] \in Nat /\ o[i - 1] \in Nat
            BY <3>5, <5>1
        <5>3. off[i] = off[i - 1] + Len(s[i]) /\ off[i] <= Len(flat) /\ off[i] <= Len(f)
          <6>1. o[i] = o[i - 1] + Len(front[i]) /\ o[i] <= Len(f) /\ s[i] = front[i]
              BY <3>4, <3>6, <5>1
          <6>2. Len(f) <= Len(flat)
              BY <3>7
          <6> HIDE DEF Layout
          <6> QED
              BY <3>7, <5>2, <6>1, <6>2
        <5>4. ASSUME NEW j \in 1 .. Len(s[i]) PROVE flat[off[i - 1] + j] = s[i][j]
          <6>1. s[i] = front[i] /\ Len(s[i]) \in Nat
              BY <3>6, <5>1
          <6>2. off[i - 1] + j \in 1 .. Len(f)
            <7>1. /\ off[i - 1] \in Nat /\ Len(s[i]) \in Nat /\ Len(f) \in Nat
                  /\ off[i - 1] + Len(s[i]) <= Len(f) /\ j \in 1 .. Len(s[i])
              <8>1. off[i - 1] \in Nat
                  BY <5>2
              <8>2. off[i - 1] + Len(s[i]) <= Len(f)
                  BY <5>3
              <8> QED
                  BY <3>7, <6>1, <8>1, <8>2
            <7>2. \A a, b, c \in Nat : a + b <= c => \A x \in 1 .. b : a + x \in 1 .. c
                OBVIOUS
            <7> QED
                BY <7>1, <7>2, Zenon
          <6>3. f[o[i - 1] + j] = front[i][j]
              BY <3>4, <5>1, <6>1
          <6> QED
              BY <3>8, <5>2, <6>1, <6>2, <6>3
        <5> QED
            BY <5>3, <5>4
      <4> QED
          BY <4>1, <4>2
    <3>11. off[0] = 0 /\ off[k + 1] = Len(flat)
        BY <3>4, <3>5, <3>7
    <3>12. Layout(off, s, flat)
        BY <2>1, <3>10, <3>11 DEF Layout
    <3> QED
        BY <2>1, <3>5, <3>12 DEF flat
  <2> HIDE DEF Laid
  <2> QED
      BY <2>1
<1>3. Nat \subseteq T
  <2> HIDE DEF T
  <2> QED
      BY <1>1, <1>2, SetInduction
<1> QED
    BY <1>3

-----------------------------------------------------------------------------
(* Names as text and as labels                                             *)

\* The text gains a dot and the label, or the label alone when it is the first.
LEMMA JoinAppend ==
    ASSUME NEW labels \in Seq(Seq(Nat)), NEW label \in Seq(Nat)
    PROVE  /\ labels = <<>> => Join(Append(labels, label)) = label
           /\ labels # <<>> => Join(Append(labels, label)) = Join(labels) \o (<<Dot>> \o label)
<1> DEFINE n == Len(labels)
           more == Append(labels, label)
           Piece(ls, i) == IF i = 1 THEN ls[1] ELSE <<Dot>> \o ls[i]
           pieces == [i \in 1 .. n |-> Piece(labels, i)]
           piece == IF n = 0 THEN label ELSE <<Dot>> \o label
<1>1. /\ n \in Nat /\ Len(more) = n + 1 /\ more[n + 1] = label
      /\ \A i \in 1 .. n : more[i] = labels[i] /\ labels[i] \in Seq(Nat)
    OBVIOUS
<1>2. Dot \in Nat /\ <<Dot>> \in Seq(Nat)
    BY DEF Dot
<1>3. piece \in Seq(Nat) /\ \A i \in 1 .. n : Piece(labels, i) \in Seq(Nat)
  <2>1. \A s \in Seq(Nat) : <<Dot>> \o s \in Seq(Nat)
      BY <1>2
  <2> HIDE DEF n
  <2>2. \A i \in 1 .. n : 1 \in 1 .. n
      BY <1>1
  <2> QED
      BY <1>1, <2>1, <2>2
<1>4. Join(labels) = FlattenSeq(pieces)
    BY DEF Join
<1>5. Join(more) = FlattenSeq([i \in 1 .. n + 1 |-> Piece(more, i)])
    BY <1>1 DEF Join
<1>6. pieces \in Seq(Seq(Nat)) /\ Len(pieces) = n
  <2> HIDE DEF n, Piece
  <2> QED
      BY <1>1, <1>3
<1>7. [i \in 1 .. n + 1 |-> Piece(more, i)] = Append(pieces, piece)
  <2>1. Piece(more, n + 1) = piece
      BY <1>1
  <2>2. \A i \in 1 .. n : Piece(more, i) = Piece(labels, i)
    <3> HIDE DEF n, more
    <3>1. \A i \in 1 .. n : 1 \in 1 .. n
        BY <1>1
    <3> QED
        BY <1>1, <3>1
  <2> DEFINE all == [i \in 1 .. n + 1 |-> Piece(more, i)]
  <2>3. \A i \in 1 .. n : pieces[i] = Piece(labels, i)
      OBVIOUS
  <2> HIDE DEF n, more, piece, pieces, Piece
  <2>4. all \in Seq(Seq(Nat)) /\ Len(all) = n + 1
    <3>1. \A i \in 1 .. n + 1 : i = n + 1 \/ i \in 1 .. n
        BY <1>1
    <3>2. \A i \in 1 .. n + 1 : Piece(more, i) \in Seq(Nat)
        BY <1>3, <2>1, <2>2, <3>1
    <3> QED
        BY <1>1, <3>2
  <2>5. /\ Append(pieces, piece) \in Seq(Seq(Nat)) /\ Len(Append(pieces, piece)) = n + 1
        /\ Append(pieces, piece)[n + 1] = piece
        /\ \A i \in 1 .. n : Append(pieces, piece)[i] = pieces[i]
      BY <1>1, <1>3, <1>6
  <2>6. \A i \in 1 .. n + 1 : all[i] = Append(pieces, piece)[i]
    <3>1. \A i \in 1 .. n + 1 : i = n + 1 \/ i \in 1 .. n
        BY <1>1
    <3>2. \A i \in 1 .. n + 1 : all[i] = Piece(more, i)
        OBVIOUS
    <3> HIDE DEF all
    <3> QED
        BY <2>1, <2>2, <2>3, <2>5, <3>1, <3>2
  <2> HIDE DEF all
  <2>7. all = Append(pieces, piece)
      BY <2>4, <2>5, <2>6, SeqEqual
  <2> QED
      BY <2>7 DEF all
<1>8. Join(more) = Join(labels) \o piece
  <2> HIDE DEF pieces, piece
  <2> QED
      BY <1>3, <1>4, <1>5, <1>6, <1>7, FlattenAppend
<1>9. CASE n = 0
  <2>1. pieces = <<>> /\ labels = <<>> /\ piece = label
      BY <1>6, <1>9
  <2>2. Join(labels) = <<>>
      BY <1>4, <2>1, FlattenEmpty
  <2> HIDE DEF pieces, piece
  <2>3. Join(more) = <<>> \o label
      BY <1>8, <2>1, <2>2
  <2> QED
      BY <2>1, <2>3
<1>10. CASE n # 0
  <2>1. labels # <<>> /\ piece = <<Dot>> \o label
      BY <1>10
  <2> HIDE DEF pieces, piece
  <2> QED
      BY <1>8, <2>1
<1> QED
    BY <1>9, <1>10

\* Join makes a text of whatever labels.
LEMMA JoinType ==
    ASSUME NEW C, Dot \in C, NEW labels \in Seq(Seq(C))
    PROVE  Join(labels) \in Seq(C)
<1> DEFINE n == Len(labels)
           Q == Seq(C)
           pieces == [i \in 1 .. n |-> IF i = 1 THEN labels[1] ELSE <<Dot>> \o labels[i]]
<1>1. n \in Nat /\ \A i \in 1 .. n : labels[i] \in Q
    OBVIOUS
<1>2. \A s \in Q : <<Dot>> \o s \in Q
    OBVIOUS
<1>3. Join(labels) = FlattenSeq(pieces)
    BY DEF Join
<1>4. pieces \in Seq(Q)
  <2> HIDE DEF n, Q
  <2>1. \A i \in 1 .. n : 1 \in 1 .. n
      BY <1>1
  <2>2. \A i \in 1 .. n : (IF i = 1 THEN labels[1] ELSE <<Dot>> \o labels[i]) \in Q
      BY <1>1, <1>2, <2>1
  <2>3. pieces \in [1 .. n -> Q]
      BY <2>2
  <2> HIDE DEF pieces
  <2> QED
      BY <1>1, <2>3
<1> HIDE DEF pieces
<1> QED
    BY <1>3, <1>4, FlattenType

\* The lists of labels Split goes through: there is always a last one.
LabelLists(C) == {labels \in Seq(Seq(C)) : labels # <<>>}

\* A label more makes such a list.
LEMMA AppendedList ==
    ASSUME NEW C, NEW ls \in Seq(Seq(C)), NEW l \in Seq(C)
    PROVE  Append(ls, l) \in LabelLists(C)
<1>1. Append(ls, l) \in Seq(Seq(C)) /\ Append(ls, l) # <<>>
    BY AppendProperties
<1> QED
    BY <1>1 DEF LabelLists

\* A character that ends the last label, or continues it, ends the text.
LEMMA SplitStep ==
    ASSUME NEW C \in SUBSET Nat, NEW labels \in LabelLists(C), NEW c \in C
    PROVE  /\ Append(labels, <<>>) \in LabelLists(C) /\ Continue(labels, c) \in LabelLists(C)
           /\ Join(Append(labels, <<>>)) = Join(labels) \o <<Dot>>
           /\ Join(Continue(labels, c)) = Join(labels) \o <<c>>
<1>1. /\ labels \in Seq(Seq(C)) /\ labels # <<>> /\ Len(labels) \in Nat /\ Len(labels) > 0
      /\ labels \in Seq(Seq(Nat))
  <2>1. labels \in Seq(Seq(C)) /\ labels # <<>>
      BY DEF LabelLists
  <2>2. Seq(C) \subseteq Seq(Nat)
      BY SeqSubset
  <2>3. labels \in Seq(Seq(Nat))
      BY <2>1, <2>2, SeqSubset
  <2> HIDE DEF LabelLists
  <2> QED
      BY <2>1, <2>3
<1>2. <<>> \in Seq(C) /\ <<>> \in Seq(Nat) /\ <<Dot>> \o <<>> = <<Dot>>
    BY DEF Dot
<1>3. Append(labels, <<>>) \in LabelLists(C)
    BY <1>1, <1>2, AppendedList
<1>4. Join(Append(labels, <<>>)) = Join(labels) \o <<Dot>>
    BY <1>1, <1>2, JoinAppend
<1> DEFINE k == Len(labels) - 1
<1>5. k \in Nat /\ Len(labels) = k + 1
    BY <1>1
<1> HIDE DEF k
<1>6. PICK front \in Seq(Seq(C)), last \in Seq(C) : labels = Append(front, last) /\ Len(front) = k
    BY <1>1, <1>5, LastSplit
<1>7. /\ front \in Seq(Seq(Nat)) /\ last \in Seq(Nat) /\ Append(last, c) \in Seq(C)
      /\ Append(last, c) \in Seq(Nat) /\ last \o <<c>> = Append(last, c) /\ c \in Nat
  <2>1. Seq(C) \subseteq Seq(Nat)
      BY SeqSubset
  <2>2. front \in Seq(Seq(Nat))
      BY <1>6, <2>1, SeqSubset
  <2>3. last \in Seq(Nat)
      BY <1>6, <2>1
  <2> QED
      BY <1>6, <2>2, <2>3
<1>8. Continue(labels, c) = Append(front, Append(last, c))
  <2> DEFINE s == Append(front, Append(last, c))
             t == Continue(labels, c)
  <2>1. labels[k + 1] = last /\ \A i \in 1 .. k : labels[i] = front[i] /\ front[i] \in Seq(C)
      BY <1>5, <1>6
  <2>2. t = [labels EXCEPT ![k + 1] = Append(last, c)]
    <3>1. labels[Len(labels)] = last
        BY <1>5, <2>1
    <3>2. t = [labels EXCEPT ![Len(labels)] = Append(labels[Len(labels)], c)]
        BY DEF Continue
    <3> HIDE DEF t
    <3> QED
        BY <1>5, <3>1, <3>2
  <2>3. labels \in [1 .. k + 1 -> Seq(C)] /\ k + 1 \in 1 .. k + 1
      BY <1>1, <1>5
  <2>4. /\ t \in [1 .. k + 1 -> Seq(C)] /\ t[k + 1] = Append(last, c)
        /\ \A i \in 1 .. k : t[i] = labels[i]
    <3> HIDE DEF t
    <3>1. \A i \in 1 .. k : i \in 1 .. k + 1 /\ i # k + 1
        BY <1>5
    <3> QED
        BY <1>7, <2>2, <2>3, <3>1
  <2>5. s \in Seq(Seq(C)) /\ Len(s) = k + 1 /\ s[k + 1] = Append(last, c) /\ \A i \in 1 .. k : s[i] = front[i]
      BY <1>5, <1>6, <1>7
  <2> HIDE DEF s, t
  <2>6. t \in Seq(Seq(C)) /\ Len(t) = k + 1
      BY <1>5, <2>4
  <2>7. \A i \in 1 .. k + 1 : t[i] = s[i]
    <3>1. \A i \in 1 .. k + 1 : i = k + 1 \/ i \in 1 .. k
        BY <1>5
    <3> QED
        BY <2>1, <2>4, <2>5, <3>1
  <2>8. t = s
      BY <2>5, <2>6, <2>7, SeqEqual
  <2> QED
      BY <2>8 DEF s, t
<1>9. Continue(labels, c) \in LabelLists(C)
    BY <1>6, <1>7, <1>8, AppendedList
<1>10. CASE front = <<>>
  <2>1. Join(labels) = last
      BY <1>6, <1>7, <1>10, JoinAppend
  <2>2. Join(Continue(labels, c)) = Append(last, c)
      BY <1>7, <1>8, <1>10, JoinAppend
  <2> QED
      BY <1>3, <1>4, <1>7, <1>9, <2>1, <2>2
<1>11. CASE front # <<>>
  <2>1. Join(labels) = Join(front) \o (<<Dot>> \o last)
      BY <1>6, <1>7, <1>11, JoinAppend
  <2>2. Join(Continue(labels, c)) = Join(front) \o (<<Dot>> \o Append(last, c))
      BY <1>7, <1>8, <1>11, JoinAppend
  <2> DEFINE j == Join(front)
  <2>3. j \in Seq(Nat) /\ <<Dot>> \in Seq(Nat) /\ <<c>> \in Seq(Nat)
    <3>1. Dot \in Nat
        BY DEF Dot
    <3>2. j \in Seq(Nat)
        BY <1>7, <3>1, JoinType
    <3> HIDE DEF j
    <3> QED
        BY <1>7, <3>1, <3>2
  <2> HIDE DEF j
  <2>4. j \o (<<Dot>> \o (last \o <<c>>)) = (j \o (<<Dot>> \o last)) \o <<c>>
      BY <1>7, <2>3
  <2>5. Join(Continue(labels, c)) = Join(labels) \o <<c>>
      BY <1>7, <2>1, <2>2, <2>4 DEF j
  <2> QED
      BY <1>3, <1>4, <1>9, <2>5
<1> QED
    BY <1>10, <1>11

\* Split takes a text apart into labels of its characters, and Join restores it.
LEMMA SplitFacts ==
    ASSUME NEW C \in SUBSET Nat, NEW text \in Seq(C)
    PROVE  Split[text] \in LabelLists(C) /\ Join(Split[text]) = text
<1> DEFINE n == Len(text)
           Q == LabelLists(C)
           b == << <<>> >>
           G == [x \in (1 .. n) \X Q |->
                    IF text[x[1]] = Dot THEN Append(x[2], <<>>) ELSE Continue(x[2], text[x[1]])]
           Is(f) == f = [i \in 0 .. n |-> IF i = 0 THEN b
                                          ELSE IF text[i] = Dot THEN Append(f[i - 1], <<>>)
                                          ELSE Continue(f[i - 1], text[i])]
           split == CHOOSE f : Is(f)
<1>1. n \in Nat /\ \A i \in 1 .. n : text[i] \in C
    OBVIOUS
<1>2. Split[text] = split[n]
  <2>1. text \in Seq(Nat)
      BY SeqSubset
  <2> QED
      BY <2>1 DEF Split
<1>3. b \in Q /\ b \in Seq(Seq(Nat)) /\ Join(b) = <<>>
  <2>1. <<>> \in Seq(C) /\ <<>> \in Seq(Nat) /\ <<>> \in Seq(Seq(Nat)) /\ b = Append(<<>>, <<>>)
      OBVIOUS
  <2>2. Join(b) = <<>>
    <3> HIDE DEF b
    <3> QED
        BY <2>1, JoinAppend
  <2> QED
      BY <2>1, <2>2 DEF LabelLists
<1> HIDE DEF n, Q, b
<1>4. G \in Rounds(Q, n)
  <2>1. ASSUME NEW i \in 1 .. n, NEW s \in Q
        PROVE  Append(s, <<>>) \in Q /\ Continue(s, text[i]) \in Q
      BY <1>1, SplitStep DEF Q
  <2> QED
      BY <2>1 DEF Rounds
<1>5. \A i \in 1 .. n, s \in Q :
        G[<<i, s>>] = IF text[i] = Dot THEN Append(s, <<>>) ELSE Continue(s, text[i])
    OBVIOUS
<1> HIDE DEF G
<1>6. PICK f \in Results(Q, n) : AreResults(f, b, n, G)
    BY <1>1, <1>3, <1>4, FoldExists
<1>7. f \in [0 .. n -> Q] /\ f[0] = b /\ \A i \in 1 .. n : f[i] = G[<<i, f[i - 1]>>]
    BY <1>6 DEF Results, AreResults
<1>8. \A i \in 1 .. n : i - 1 \in 0 .. n /\ f[i - 1] \in Q
    BY <1>1, <1>7
<1>9. Is(f)
  <2>1. \A i \in 0 .. n : f[i] = IF i = 0 THEN b
                                 ELSE IF text[i] = Dot THEN Append(f[i - 1], <<>>)
                                 ELSE Continue(f[i - 1], text[i])
    <3>1. \A i \in 0 .. n : i = 0 \/ i \in 1 .. n
        BY <1>1
    <3> QED
        BY <1>5, <1>7, <1>8, <3>1
  <2> QED
      BY <1>7, <2>1
<1>10. Is(split)
    BY <1>9, Zenon
<1> HIDE DEF split
<1>11. split[0] = b /\ \A i \in 1 .. n : split[i] = IF text[i] = Dot THEN Append(split[i - 1], <<>>)
                                                    ELSE Continue(split[i - 1], text[i])
  <2>1. 0 \in 0 .. n /\ \A i \in 1 .. n : i \in 0 .. n /\ i # 0
      BY <1>1
  <2>2. \A i \in 0 .. n : split[i] = IF i = 0 THEN b
                                     ELSE IF text[i] = Dot THEN Append(split[i - 1], <<>>)
                                     ELSE Continue(split[i - 1], text[i])
      BY <1>10
  <2> QED
      BY <2>1, <2>2
<1> DEFINE T == {i \in Nat : i <= n => split[i] \in Q /\ Join(split[i]) = SubSeq(text, 1, i)}
<1>12. 0 \in T
  <2>1. SubSeq(text, 1, 0) = <<>>
      OBVIOUS
  <2> QED
      BY <1>3, <1>11, <2>1
<1>13. ASSUME NEW i \in Nat, i \in T PROVE i + 1 \in T
  <2> SUFFICES ASSUME i + 1 <= n
               PROVE  split[i + 1] \in Q /\ Join(split[i + 1]) = SubSeq(text, 1, i + 1)
      OBVIOUS
  <2> DEFINE s == split[i]
             c == text[i + 1]
  <2>1. i <= n /\ i + 1 \in 1 .. n /\ (i + 1) - 1 = i
      BY <1>1
  <2>2. s \in Q /\ Join(s) = SubSeq(text, 1, i) /\ c \in C
      BY <1>1, <1>13, <2>1
  <2>3. split[i + 1] = IF c = Dot THEN Append(s, <<>>) ELSE Continue(s, c)
      BY <1>11, <2>1
  <2>4. SubSeq(text, 1, i + 1) = SubSeq(text, 1, i) \o <<c>>
    <3>1. i + 1 \in 1 .. Len(text) /\ 1 \in 1 .. Len(text) /\ i + 1 \in 1 .. Len(text)
        BY <1>1, <2>1 DEF n
    <3>2. SubSeq(text, 1, i + 1) = SubSeq(text, 1, (i + 1) - 1) \o <<text[i + 1]>>
        BY <3>1, SubSeqRecursiveSecond
    <3> QED
        BY <2>1, <3>2
  <2> HIDE DEF s, c
  <2>5. /\ Append(s, <<>>) \in Q /\ Continue(s, c) \in Q
        /\ Join(Append(s, <<>>)) = Join(s) \o <<Dot>> /\ Join(Continue(s, c)) = Join(s) \o <<c>>
      BY <2>2, SplitStep DEF Q
  <2> QED
      BY <2>2, <2>3, <2>4, <2>5
<1>14. Nat \subseteq T
  <2> HIDE DEF T
  <2> QED
      BY <1>12, <1>13, SetInduction
<1>15. split[n] \in Q /\ Join(split[n]) = SubSeq(text, 1, n)
    BY <1>1, <1>14
<1>16. SubSeq(text, 1, n) = text
    BY <1>1 DEF n
<1> QED
    BY <1>2, <1>15, <1>16 DEF Q

-----------------------------------------------------------------------------
(* Reading the labels of a name                                            *)

\* Labels as a message carries them: none is empty, each is of UTF-8 characters.
Chars == Nat \ {NotUtf8}
Readable == {labels \in Seq(Seq(Chars)) : \A i \in 1 .. Len(labels) : labels[i] # <<>>}

\* What reading a name gives.
ReadNames(m) == [labels : Readable, next : 2 .. Len(m) + 1]

\* A label goes in front of those after it.
LEMMA WithLabelFacts ==
    ASSUME NEW m, NEW label \in Seq(Chars), label # <<>>, NEW rest \in ReadNames(m) \cup {Malformed}
    PROVE  /\ WithLabel(label, rest) \in ReadNames(m) \cup {Malformed}
           /\ rest # Malformed => WithLabel(label, rest) = [labels |-> <<label>> \o rest.labels, next |-> rest.next]
<1>1. CASE rest = Malformed
    BY <1>1 DEF WithLabel
<1>2. CASE rest # Malformed
  <2>1. /\ rest \in ReadNames(m) /\ rest = [labels |-> rest.labels, next |-> rest.next]
        /\ rest.labels \in Readable /\ rest.next \in 2 .. Len(m) + 1
      BY <1>2 DEF ReadNames
  <2> DEFINE ls == rest.labels
             next == rest.next
             Q == Seq(Chars)
  <2>3. ls \in Seq(Q) /\ \A i \in 1 .. Len(ls) : ls[i] # <<>>
      BY <2>1 DEF Readable
  <2>4. WithLabel(label, rest) = [labels |-> <<label>> \o ls, next |-> next]
      BY <1>2 DEF WithLabel
  <2> HIDE DEF ls, Q
  <2>5. label \in Q
      BY DEF Q
  <2>6. /\ <<label>> \o ls \in Seq(Q) /\ Len(<<label>> \o ls) = Len(ls) + 1 /\ Len(ls) \in Nat
        /\ (<<label>> \o ls)[1] = label
        /\ \A i \in 1 .. Len(ls) : (<<label>> \o ls)[i + 1] = ls[i]
      BY <2>3, <2>5
  <2>7. \A i \in 1 .. Len(<<label>> \o ls) : (<<label>> \o ls)[i] # <<>>
    <3> DEFINE whole == <<label>> \o ls
    <3> HIDE DEF whole
    <3>1. \A i \in 1 .. Len(ls) + 1 : i = 1 \/ (i - 1 \in 1 .. Len(ls) /\ (i - 1) + 1 = i)
        BY <2>6
    <3> QED
        BY <2>3, <2>6, <3>1 DEF whole
  <2>8. <<label>> \o ls \in Readable
      BY <2>6, <2>7 DEF Readable, Q
  <2>9. [labels |-> <<label>> \o ls, next |-> next] \in ReadNames(m)
      BY <2>1, <2>8 DEF ReadNames
  <2> QED
      BY <1>2, <2>4, <2>9 DEF ls
<1> QED
    BY <1>1, <1>2

\* Where reading a name ends: at the end of the message, at the zero, and at a label
\* that goes past the end or is no UTF-8.
LabelAt(m, p) == SubSeq(m, p + 1, p + m[p])
NoLabelAt(m, p) == p + m[p] > Len(m) \/ NotUtf8 \in ToSet(LabelAt(m, p))

\* A label that stands in a message.
LEMMA LabelAtFacts ==
    ASSUME NEW m \in Seq(Nat), NEW p \in 1 .. Len(m), m[p] # 0, ~ NoLabelAt(m, p)
    PROVE  LabelAt(m, p) \in Seq(Chars) /\ LabelAt(m, p) # <<>> /\ p + 1 + m[p] \in p + 2 .. Len(m) + 1
<1>1. m[p] \in Nat \ {0} /\ p \in Nat /\ Len(m) \in Nat /\ p + m[p] <= Len(m)
    BY DEF NoLabelAt
<1> DEFINE l == LabelAt(m, p)
           k == m[p]
<1>2. /\ l \in Seq(Nat) /\ Len(l) = k
      /\ \A i \in 1 .. k : l[i] \in Nat
  <2>1. \A i \in p + 1 .. p + k : m[i] \in Nat
      BY <1>1
  <2>2. p + 1 \in Int /\ p + k \in Int /\ k \in Nat /\ p + 1 <= p + k /\ (p + k) - (p + 1) + 1 = k
      BY <1>1
  <2> HIDE DEF k
  <2>3. SubSeq(m, p + 1, p + k) \in Seq(Nat) /\ Len(SubSeq(m, p + 1, p + k)) = k
      BY <2>1, <2>2, SubSeqProperties
  <2> DEFINE s == SubSeq(m, p + 1, p + k)
  <2>4. l = s
      BY DEF LabelAt, k
  <2> HIDE DEF s, l
  <2>5. l \in Seq(Nat) /\ Len(l) = k
      BY <2>3, <2>4 DEF s
  <2> QED
      BY <2>5
<1>3. \A i \in 1 .. k : l[i] # NotUtf8
  <2> HIDE DEF l
  <2> QED
      BY <1>2 DEF NoLabelAt, ToSet, l
<1> HIDE DEF l, k
<1>4. l \in Seq(Chars) /\ l # <<>>
  <2>1. k \in Nat \ {0} /\ l \in [1 .. k -> Chars]
      BY <1>1, <1>2, <1>3 DEF Chars, k
  <2> QED
      BY <1>2, <2>1
<1> QED
    BY <1>1, <1>4 DEF l


\* ReadLabels, one label at a time.
LEMMA ReadLabelsStep ==
    ASSUME NEW m \in Seq(Nat), NEW p \in 1 .. Len(m) + 1
    PROVE  /\ ReadLabels(m, p) \in ReadNames(m) \cup {Malformed}
           /\ p = Len(m) + 1 => ReadLabels(m, p) = Malformed
           /\ p # Len(m) + 1 /\ m[p] = 0 => ReadLabels(m, p) = [labels |-> <<>>, next |-> p + 1]
           /\ p # Len(m) + 1 /\ m[p] # 0 /\ NoLabelAt(m, p) => ReadLabels(m, p) = Malformed
           /\ p # Len(m) + 1 /\ m[p] # 0 /\ ~ NoLabelAt(m, p) =>
                ReadLabels(m, p) = WithLabel(LabelAt(m, p), ReadLabels(m, p + 1 + m[p]))
<1> DEFINE n == Len(m) + 1
           S == ReadNames(m) \cup {Malformed}
           Is(f) == f = [q \in 1 .. n |->
                IF q > Len(m) THEN Malformed
                ELSE IF m[q] = 0 THEN [labels |-> <<>>, next |-> q + 1]
                ELSE IF NoLabelAt(m, q) THEN Malformed
                ELSE WithLabel(LabelAt(m, q), f[q + 1 + m[q]])]
           read == CHOOSE f : Is(f)
           ends == {q \in 1 .. n : q > Len(m) \/ m[q] = 0 \/ NoLabelAt(m, q)}
           out == [q \in 1 .. n |-> IF q > Len(m) THEN Malformed
                                    ELSE IF m[q] = 0 THEN [labels |-> <<>>, next |-> q + 1]
                                    ELSE Malformed]
           next == [q \in 1 .. n |-> IF q \in ends THEN q ELSE q + 1 + m[q]]
           G == [x \in (1 .. n) \X S |-> IF x[1] \in ends THEN Malformed ELSE WithLabel(LabelAt(m, x[1]), x[2])]
<1>1. n \in Nat /\ Len(m) \in Nat /\ \A q \in 1 .. Len(m) : m[q] \in Nat
    OBVIOUS
<1>2. \A q : ReadLabels(m, q) = read[q]
    BY DEF ReadLabels, NoLabelAt, LabelAt
<1>3. \A q \in 1 .. n : q \in ends \/ (q \in 1 .. Len(m) /\ m[q] # 0 /\ ~ NoLabelAt(m, q))
    BY <1>1
<1>4. \A q \in 1 .. n : q \notin ends => /\ LabelAt(m, q) \in Seq(Chars) /\ LabelAt(m, q) # <<>>
                                         /\ q + 1 + m[q] \in q + 2 .. n
  <2> HIDE DEF ends
  <2> QED
      BY <1>3, LabelAtFacts
<1>5. <<>> \in Readable
    BY DEF Readable
<1>6. out \in Outcomes(S, n)
  <2>1. ASSUME NEW q \in 1 .. n PROVE out[q] \in S
    <3>1. CASE q <= Len(m) /\ m[q] = 0
      <4>1. [labels |-> <<>>, next |-> q + 1] \in ReadNames(m)
          BY <1>1, <1>5, <3>1 DEF ReadNames
      <4> QED
          BY <3>1, <4>1
    <3>2. CASE ~ (q <= Len(m) /\ m[q] = 0)
        BY <1>1, <3>2
    <3> QED
        BY <3>1, <3>2
  <2> QED
      BY <2>1 DEF Outcomes
<1>7. next \in Walks(n) /\ \A q \in 1 .. n : q \notin ends => q < next[q] /\ next[q] = q + 1 + m[q]
  <2> HIDE DEF ends, n
  <2>1. ASSUME NEW q \in 1 .. n, q \notin ends
        PROVE  q + 1 + m[q] \in 1 .. n /\ q < q + 1 + m[q]
    <3> DEFINE r == q + 1 + m[q]
    <3>1. r \in q + 2 .. n /\ q \in Nat
        BY <1>1, <1>4, <2>1
    <3> HIDE DEF r
    <3>2. r \in 1 .. n /\ q < r
        BY <1>1, <3>1
    <3> QED
        BY <3>2 DEF r
  <2>2. \A q \in 1 .. n : next[q] \in 1 .. n
    <3>1. \A q \in 1 .. n : (IF q \in ends THEN q ELSE q + 1 + m[q]) \in 1 .. n
        BY <2>1
    <3> QED
        BY <3>1
  <2>3. next \in Walks(n)
      BY <2>2 DEF Walks
  <2>4. \A q \in 1 .. n : q \notin ends => next[q] = q + 1 + m[q]
      OBVIOUS
  <2> HIDE DEF next
  <2> QED
      BY <2>1, <2>3, <2>4
<1>8. /\ G \in Rounds(S, n)
      /\ \A q \in 1 .. n, s \in S : q \notin ends => G[<<q, s>>] = WithLabel(LabelAt(m, q), s)
  <2>1. ASSUME NEW q \in 1 .. n, NEW s \in S, q \notin ends PROVE WithLabel(LabelAt(m, q), s) \in S
      BY <1>4, <2>1, WithLabelFacts
  <2>2. Malformed \in S
      OBVIOUS
  <2> HIDE DEF ends, S
  <2> QED
      BY <2>1, <2>2 DEF Rounds
<1> HIDE DEF n, S, ends, out, next, G
<1>9. PICK f \in Outcomes(S, n) : AreOutcomes(f, n, ends, out, next, G)
    BY <1>1, <1>6, <1>7, <1>8, WalkExists
<1>10. /\ f \in [1 .. n -> S]
       /\ \A q \in 1 .. n : q \in ends => f[q] = out[q]
       /\ \A q \in 1 .. n : q \notin ends => f[q] = G[<<q, f[next[q]]>>]
    BY <1>9 DEF Outcomes, AreOutcomes
<1>11. \A q \in 1 .. n : q \notin ends => f[q] = WithLabel(LabelAt(m, q), f[q + 1 + m[q]])
  <2>1. \A q \in 1 .. n : q \notin ends => next[q] \in 1 .. n /\ f[next[q]] \in S
      BY <1>7, <1>10 DEF Walks
  <2>2. ASSUME NEW q \in 1 .. n, q \notin ends PROVE f[q] = WithLabel(LabelAt(m, q), f[q + 1 + m[q]])
    <3>1. f[q] = G[<<q, f[next[q]]>>] /\ f[next[q]] \in S
        BY <1>10, <2>1, <2>2
    <3>2. f[q] = WithLabel(LabelAt(m, q), f[next[q]])
        BY <1>8, <2>2, <3>1
    <3>3. next[q] = q + 1 + m[q]
        BY <1>7, <2>2
    <3> QED
        BY <3>2, <3>3
  <2> QED
      BY <2>2
<1>12. Is(f)
  <2>1. ASSUME NEW q \in 1 .. n
        PROVE  f[q] = IF q > Len(m) THEN Malformed
                      ELSE IF m[q] = 0 THEN [labels |-> <<>>, next |-> q + 1]
                      ELSE IF NoLabelAt(m, q) THEN Malformed
                      ELSE WithLabel(LabelAt(m, q), f[q + 1 + m[q]])
    <3>1. CASE q \in ends
        BY <1>10, <3>1 DEF ends, out
    <3>2. CASE q \notin ends
      <4>1. ~ (q > Len(m)) /\ m[q] # 0 /\ ~ NoLabelAt(m, q)
          BY <3>2 DEF ends
      <4> QED
          BY <1>11, <3>2, <4>1
    <3> QED
        BY <3>1, <3>2
  <2> QED
      BY <1>10, <2>1
<1>13. Is(read)
    BY <1>12, Zenon
<1> HIDE DEF read
<1>14. \A q \in 1 .. n : read[q] = IF q > Len(m) THEN Malformed
                                   ELSE IF m[q] = 0 THEN [labels |-> <<>>, next |-> q + 1]
                                   ELSE IF NoLabelAt(m, q) THEN Malformed
                                   ELSE WithLabel(LabelAt(m, q), read[q + 1 + m[q]])
    BY <1>13
<1> HIDE DEF Is
\* By the number of cells to go, the result is one of S.
<1> DEFINE T == {k \in Nat : \A q \in 1 .. n : n - q <= k => read[q] \in S}
<1>15. \A q \in 1 .. n : q \in ends => read[q] \in S
  <2>1. \A q \in 1 .. n : q \in ends => read[q] = out[q]
      BY <1>14 DEF ends, out
  <2> QED
      BY <1>6, <2>1 DEF Outcomes
<1>16. 0 \in T
  <2>1. \A q \in 1 .. n : n - q <= 0 => q \in ends
      BY <1>1 DEF ends, n
  <2> QED
      BY <1>15, <2>1
<1>17. ASSUME NEW k \in Nat, k \in T PROVE k + 1 \in T
  <2>1. ASSUME NEW q \in 1 .. n, n - q <= k + 1 PROVE read[q] \in S
    <3>1. CASE q \in ends
        BY <1>15, <3>1
    <3>2. CASE q \notin ends
      <4> DEFINE r == q + 1 + m[q]
      <4>1. r \in q + 2 .. n
          BY <1>4, <3>2
      <4> HIDE DEF r
      <4>2. r \in 1 .. n /\ n - r <= k
          BY <1>1, <2>1, <4>1
      <4>3. read[r] \in S
          BY <1>17, <4>2
      <4>4. ~ (q > Len(m)) /\ m[q] # 0 /\ ~ NoLabelAt(m, q)
          BY <3>2 DEF ends
      <4>5. read[q] = WithLabel(LabelAt(m, q), read[r])
          BY <1>14, <4>4 DEF r
      <4>6. LabelAt(m, q) \in Seq(Chars) /\ LabelAt(m, q) # <<>>
          BY <1>4, <3>2
      <4>7. WithLabel(LabelAt(m, q), read[r]) \in S
        <5> DEFINE l == LabelAt(m, q)
                   v == read[r]
        <5>1. l \in Seq(Chars) /\ l # <<>> /\ v \in ReadNames(m) \cup {Malformed}
            BY <4>3, <4>6 DEF S
        <5> HIDE DEF l, v
        <5>2. WithLabel(l, v) \in ReadNames(m) \cup {Malformed}
            BY <5>1, WithLabelFacts
        <5> QED
            BY <5>2 DEF l, v, S
      <4> QED
          BY <4>5, <4>7
    <3> QED
        BY <3>1, <3>2
  <2> QED
      BY <2>1
<1>18. Nat \subseteq T
  <2> HIDE DEF T
  <2> QED
      BY <1>16, <1>17, SetInduction
<1>19. read[p] \in S
  <2>1. p \in 1 .. n /\ n - p \in Nat
      BY <1>1 DEF n
  <2> QED
      BY <1>18, <2>1
<1>20. p \in 1 .. n /\ (p = Len(m) + 1 <=> p > Len(m))
    BY <1>1 DEF n
<1>21. read[p] = IF p > Len(m) THEN Malformed
                 ELSE IF m[p] = 0 THEN [labels |-> <<>>, next |-> p + 1]
                 ELSE IF NoLabelAt(m, p) THEN Malformed
                 ELSE WithLabel(LabelAt(m, p), read[p + 1 + m[p]])
    BY <1>14, <1>20
<1> QED
    BY <1>2, <1>19, <1>20, <1>21 DEF S


-----------------------------------------------------------------------------
(* What encode_domain_labels writes, parse_query reads back                *)

\* Where each label begins in the encoded name, and what is there.
EncodedLayout(off, labels, e) ==
    /\ off[0] = 0 /\ Len(e) = off[Len(labels)] + 1 /\ e[off[Len(labels)] + 1] = 0
    /\ \A i \in 1 .. Len(labels) :
         /\ off[i] = off[i - 1] + 1 + Len(labels[i]) /\ off[i] <= off[Len(labels)]
         /\ e[off[i - 1] + 1] = Len(labels[i])
         /\ \A j \in 1 .. Len(labels[i]) : e[off[i - 1] + 1 + j] = labels[i][j]

\* Each label stands in the encoded name after its length, and a zero ends it.
LEMMA EncodeLabelsFacts ==
    ASSUME NEW labels \in Seq(Seq(Nat))
    PROVE  /\ EncodeLabels(labels) \in Seq(Nat)
           /\ \E off \in [0 .. Len(labels) -> Nat] : EncodedLayout(off, labels, EncodeLabels(labels))
<1> DEFINE n == Len(labels)
           pieces == [i \in 1 .. n |-> <<Len(labels[i])>> \o labels[i]]
           flat == FlattenSeq(pieces)
           e == EncodeLabels(labels)
<1>1. n \in Nat /\ \A i \in 1 .. n : labels[i] \in Seq(Nat)
    OBVIOUS
<1>2. \A l \in Seq(Nat) : /\ <<Len(l)>> \o l \in Seq(Nat) /\ Len(<<Len(l)>> \o l) = 1 + Len(l)
                          /\ (<<Len(l)>> \o l)[1] = Len(l)
                          /\ \A j \in 1 .. Len(l) : (<<Len(l)>> \o l)[1 + j] = l[j]
    OBVIOUS
<1>3. e = flat \o <<0>>
    BY DEF EncodeLabels
<1>4. pieces \in Seq(Seq(Nat)) /\ Len(pieces) = n /\ \A i \in 1 .. n : pieces[i] = <<Len(labels[i])>> \o labels[i]
  <2> HIDE DEF n
  <2>1. \A i \in 1 .. n : <<Len(labels[i])>> \o labels[i] \in Seq(Nat)
      BY <1>1, <1>2
  <2> QED
      BY <1>1, <2>1
<1> HIDE DEF pieces
<1>5. flat \in Seq(Nat)
    BY <1>4, FlattenType
<1>6. PICK off \in [0 .. n -> Nat] : Layout(off, pieces, flat)
    BY <1>4, FlattenLayout
<1>7. /\ off[0] = 0 /\ off[n] = Len(flat)
      /\ \A i \in 1 .. n : off[i] = off[i - 1] + Len(pieces[i]) /\ off[i] <= Len(flat)
      /\ \A i \in 1 .. n : \A j \in 1 .. Len(pieces[i]) : flat[off[i - 1] + j] = pieces[i][j]
    BY <1>4, <1>6 DEF Layout
<1> HIDE DEF flat
<1>8. /\ flat \o <<0>> \in Seq(Nat) /\ Len(flat \o <<0>>) = Len(flat) + 1 /\ Len(flat) \in Nat
      /\ (flat \o <<0>>)[Len(flat) + 1] = 0 /\ \A j \in 1 .. Len(flat) : (flat \o <<0>>)[j] = flat[j]
    BY <1>5
<1>9. /\ e \in Seq(Nat) /\ Len(e) = Len(flat) + 1 /\ e[Len(flat) + 1] = 0
      /\ \A j \in 1 .. Len(flat) : e[j] = flat[j]
    BY <1>3, <1>8, Zenon
<1> HIDE DEF e, n
<1>10. ASSUME NEW i \in 1 .. n
       PROVE  /\ off[i] = off[i - 1] + 1 + Len(labels[i]) /\ off[i] <= off[n]
              /\ e[off[i - 1] + 1] = Len(labels[i])
              /\ \A j \in 1 .. Len(labels[i]) : e[off[i - 1] + 1 + j] = labels[i][j]
  <2> DEFINE a == off[i - 1]
             l == labels[i]
             k == Len(l)
  <2>1. a \in Nat /\ off[i] \in Nat /\ l \in Seq(Nat) /\ k \in Nat /\ Len(flat) \in Nat
      BY <1>1, <1>8
  <2>2. /\ pieces[i] = <<Len(l)>> \o l /\ Len(pieces[i]) = 1 + k /\ pieces[i][1] = k
        /\ \A j \in 1 .. k : pieces[i][1 + j] = l[j]
    <3>1. pieces[i] = <<k>> \o l
        BY <1>4
    <3> HIDE DEF l
    <3>2. /\ Len(<<k>> \o l) = 1 + k /\ (<<k>> \o l)[1] = k
          /\ \A j \in 1 .. k : (<<k>> \o l)[1 + j] = l[j]
        BY <1>2, <2>1
    <3> HIDE DEF k
    <3> QED
        BY <3>1, <3>2 DEF k
  <2>3. off[i] = a + (1 + k) /\ off[i] <= Len(flat)
      BY <1>7, <2>2
  <2>4. \A j \in 1 .. 1 + k : flat[a + j] = pieces[i][j]
      BY <1>7, <2>2
  <2> HIDE DEF a, l, k
  <2>5. \A j \in 1 .. 1 + k : a + j \in 1 .. Len(flat)
      BY <2>1, <2>3
  <2>6. \A j \in 1 .. 1 + k : e[a + j] = pieces[i][j]
      BY <1>9, <2>4, <2>5
  <2>7. 1 \in 1 .. 1 + k /\ \A j \in 1 .. k : 1 + j \in 1 .. 1 + k /\ a + 1 + j = a + (1 + j)
      BY <2>1
  <2>8. e[a + 1] = k
      BY <2>2, <2>6, <2>7
  <2>9. \A j \in 1 .. k : e[a + 1 + j] = l[j]
      BY <2>2, <2>6, <2>7
  <2>10. off[i] = a + 1 + k
      BY <2>1, <2>3
  <2> QED
      BY <1>7, <2>3, <2>8, <2>9, <2>10 DEF a, l, k
<1>11. EncodedLayout(off, labels, e)
    BY <1>7, <1>9, <1>10 DEF EncodedLayout, n
<1> QED
    BY <1>9, <1>11 DEF e, n

\* A sequence stands in a message at position p.
Stands(m, p, s) == p + Len(s) - 1 <= Len(m) /\ \A j \in 1 .. Len(s) : m[p + j - 1] = s[j]

\* Readable labels are sequences of characters, none empty.
LEMMA ReadableFacts ==
    ASSUME NEW labels \in Readable
    PROVE  /\ labels \in Seq(Seq(Chars)) /\ labels \in Seq(Seq(Nat))
           /\ \A i \in 1 .. Len(labels) : labels[i] \in Seq(Chars) /\ labels[i] # <<>>
<1>1. labels \in Seq(Seq(Chars)) /\ \A i \in 1 .. Len(labels) : labels[i] # <<>>
    BY DEF Readable
<1>2. Seq(Chars) \subseteq Seq(Nat)
    BY SeqSubset DEF Chars
<1>3. labels \in Seq(Seq(Nat))
    BY <1>1, <1>2, SeqSubset
<1>4. \A i \in 1 .. Len(labels) : labels[i] \in Seq(Chars)
  <2> DEFINE Q == Seq(Chars)
  <2>1. labels \in Seq(Q)
      BY <1>1
  <2> HIDE DEF Q
  <2>2. \A i \in 1 .. Len(labels) : labels[i] \in Q
      BY <2>1
  <2> QED
      BY <2>2 DEF Q
<1> QED
    BY <1>1, <1>3, <1>4


\* A name written in a message is read back, with the position after it.
LEMMA ReadEncoded ==
    ASSUME NEW m \in Seq(Nat), NEW p \in Nat \ {0}, NEW labels \in Readable,
           Stands(m, p, EncodeLabels(labels))
    PROVE  ReadLabels(m, p) = [labels |-> labels, next |-> p + Len(EncodeLabels(labels))]
<1> DEFINE n == Len(labels)
           e == EncodeLabels(labels)
<1>1. n \in Nat /\ e \in Seq(Nat) /\ Len(e) \in Nat /\ labels \in Seq(Seq(Nat))
    BY ReadableFacts, EncodeLabelsFacts
<1>2. \A i \in 1 .. n : /\ labels[i] \in Seq(Chars) /\ labels[i] # <<>> /\ labels[i] \in Seq(Nat)
                        /\ Len(labels[i]) \in Nat \ {0}
  <2>1. \A i \in 1 .. n : labels[i] \in Seq(Chars) /\ labels[i] # <<>>
      BY ReadableFacts
  <2>2. \A s \in Seq(Chars) : s \in Seq(Nat)
      BY SeqSubset DEF Chars
  <2>3. \A s \in Seq(Chars) : s # <<>> => Len(s) \in Nat \ {0}
      OBVIOUS
  <2> QED
      BY <2>1, <2>2, <2>3
<1>3. PICK off \in [0 .. n -> Nat] : EncodedLayout(off, labels, e)
    BY <1>1, EncodeLabelsFacts
<1>4. /\ off[0] = 0 /\ Len(e) = off[n] + 1 /\ e[off[n] + 1] = 0
      /\ \A i \in 1 .. n :
            /\ off[i] = off[i - 1] + 1 + Len(labels[i]) /\ off[i] <= off[n]
            /\ e[off[i - 1] + 1] = Len(labels[i])
            /\ \A j \in 1 .. Len(labels[i]) : e[off[i - 1] + 1 + j] = labels[i][j]
    BY <1>3 DEF EncodedLayout
<1>5. p + Len(e) - 1 <= Len(m) /\ Len(m) \in Nat /\ \A j \in 1 .. Len(e) : m[p + j - 1] = e[j]
    BY DEF Stands
<1> HIDE DEF n, e
<1>6. off[n] \in Nat /\ \A i \in 0 .. n : off[i] \in Nat
    BY <1>1
<1> DEFINE Rest(k) == SubSeq(labels, k + 1, n)
           Good(k) == ReadLabels(m, p + off[k]) = [labels |-> Rest(k), next |-> p + off[n] + 1]
           T == {j \in Nat : j <= n => Good(n - j)}
<1>7. 0 \in T
  <2> DEFINE q == p + off[n]
  <2>1. q \in 1 .. Len(m) /\ q = p + (off[n] + 1) - 1 /\ off[n] + 1 \in 1 .. Len(e)
      BY <1>1, <1>4, <1>5, <1>6
  <2>2. m[q] = 0
    <3>1. m[p + (off[n] + 1) - 1] = e[off[n] + 1]
        BY <1>5, <2>1
    <3> QED
        BY <1>4, <2>1, <3>1
  <2>3. Rest(n) = <<>>
    <3>1. n + 1 \in Int /\ n \in Int /\ n < n + 1
        BY <1>1
    <3> QED
        BY <3>1, SubSeqEmpty
  <2> HIDE DEF q
  <2>4. q \in 1 .. Len(m) + 1 /\ q # Len(m) + 1
    <3>1. q \in 1 .. Len(m) /\ Len(m) \in Nat
        BY <1>5, <2>1
    <3> QED
        BY <3>1
  <2>5. ReadLabels(m, q) = [labels |-> <<>>, next |-> q + 1]
      BY <2>2, <2>4, ReadLabelsStep
  <2>6. n - 0 = n
      BY <1>1
  <2>7. Good(n)
    <3> HIDE DEF Rest
    <3> QED
        BY <2>3, <2>5 DEF q
  <2> HIDE DEF Good
  <2> QED
      BY <2>6, <2>7
<1>8. ASSUME NEW j \in Nat, j \in T PROVE j + 1 \in T
  <2> SUFFICES ASSUME j + 1 <= n PROVE Good(n - (j + 1))
    <3> HIDE DEF Good
    <3> QED
        OBVIOUS
  <2> DEFINE i == n - j
             k == n - (j + 1)
  <2>1. /\ i \in 1 .. n /\ k \in 0 .. n /\ k + 1 = i /\ i - 1 = k /\ j <= n /\ k \in Nat
      BY <1>1
  <2>2. Good(i)
    <3> HIDE DEF Good
    <3> QED
        BY <1>8, <2>1
  <2> HIDE DEF i, k
  <2> DEFINE l == labels[i]
             c == Len(l)
             a == off[k]
             q == p + a
  <2>3. l \in Seq(Chars) /\ l # <<>> /\ l \in Seq(Nat) /\ c \in Nat \ {0} /\ a \in Nat
      BY <1>2, <1>6, <2>1
  <2>4. /\ off[i] = a + 1 + c /\ off[i] <= off[n] /\ e[a + 1] = c
        /\ \A x \in 1 .. c : e[a + 1 + x] = l[x]
      BY <1>4, <2>1
  <2> HIDE DEF l, c, a
  <2>5. /\ q \in 1 .. Len(m) /\ q + c <= Len(m) /\ q + 1 + c = p + off[i]
        /\ q + 1 + c \in 1 .. Len(m) + 1 /\ q \in Nat
        /\ \A x \in 1 .. c : a + 1 + x \in 1 .. Len(e) /\ p + (a + 1 + x) - 1 = q + x
        /\ a + 1 \in 1 .. Len(e) /\ p + (a + 1) - 1 = q
    <3> DEFINE b == off[i]
               z == off[n]
               len == Len(e)
               N == Len(m)
    <3>1. /\ a \in Nat /\ c \in Nat \ {0} /\ b \in Nat /\ z \in Nat /\ len \in Nat /\ N \in Nat
          /\ b = a + 1 + c /\ b <= z /\ len = z + 1 /\ p + len - 1 <= N
      <4>1. b \in Nat /\ z \in Nat
          BY <1>6, <2>1
      <4>2. len = z + 1 /\ len \in Nat
          BY <1>1, <1>4
      <4> QED
          BY <1>5, <2>3, <2>4, <4>1, <4>2
    <3> HIDE DEF b, z, len, N
    <3>2. q \in Nat /\ 1 <= q /\ q + c <= N /\ q + 1 + c = p + b /\ a + 1 <= len /\ p + (a + 1) - 1 = q
        BY <3>1
    <3>3. \A x \in 1 .. c : a + 1 + x \in 1 .. len /\ p + (a + 1 + x) - 1 = q + x
        BY <3>1
    <3>4. a + 1 \in 1 .. len /\ q \in 1 .. N /\ q + 1 + c \in 1 .. N + 1
        BY <3>1, <3>2
    <3> QED
        BY <3>2, <3>3, <3>4 DEF b, len, N
  <2>6. m[q] = c
    <3>1. m[p + (a + 1) - 1] = e[a + 1]
        BY <1>5, <2>5
    <3> HIDE DEF q
    <3> QED
        BY <2>4, <2>5, <3>1
  <2>7. \A x \in 1 .. c : m[q + x] = l[x]
    <3> HIDE DEF q
    <3>1. ASSUME NEW x \in 1 .. c PROVE m[q + x] = l[x]
      <4>1. a + 1 + x \in 1 .. Len(e) /\ p + (a + 1 + x) - 1 = q + x
          BY <2>5
      <4>2. m[p + (a + 1 + x) - 1] = e[a + 1 + x]
          BY <1>5, <4>1
      <4> QED
          BY <2>4, <4>1, <4>2
    <3> QED
        BY <3>1
  <2> HIDE DEF q
  <2>8. LabelAt(m, q) = l
    <3> DEFINE s == SubSeq(m, q + 1, q + c)
    <3>1. \A x \in q + 1 .. q + c : m[x] \in Nat
      <4>1. q \in Nat /\ c \in Nat /\ Len(m) \in Nat /\ q + c <= Len(m)
          BY <1>5, <2>3, <2>5
      <4>2. \A x \in q + 1 .. q + c : x \in 1 .. Len(m)
          BY <4>1
      <4>3. \A x \in 1 .. Len(m) : m[x] \in Nat
          OBVIOUS
      <4> QED
          BY <4>2, <4>3
    <3>2. q + 1 \in Int /\ q + c \in Int /\ q + 1 <= q + c /\ (q + c) - (q + 1) + 1 = c
        BY <2>3, <2>5
    <3>3. /\ s \in Seq(Nat) /\ Len(s) = c
          /\ \A x \in 1 .. (q + c) - (q + 1) + 1 : s[x] = m[(q + 1) + x - 1]
        BY <3>1, <3>2, SubSeqProperties
    <3>4. \A x \in 1 .. c : (q + 1) + x - 1 = q + x
        BY <2>3, <2>5
    <3> HIDE DEF s
    <3>5. \A x \in 1 .. c : s[x] = l[x]
        BY <2>7, <3>2, <3>3, <3>4
    <3>6. s = l
      <4>1. Len(s) = Len(l) /\ \A x \in 1 .. Len(s) : s[x] = l[x]
          BY <3>3, <3>5 DEF c
      <4> QED
          BY <2>3, <3>3, <4>1, SeqEqual
    <3> QED
        BY <2>6, <3>6 DEF s, LabelAt
  <2>9. ~ NoLabelAt(m, q)
    <3>1. ~ (q + m[q] > Len(m))
        BY <1>5, <2>3, <2>5, <2>6
    <3>2. NotUtf8 \notin ToSet(l)
        BY <2>3 DEF ToSet, Chars
    <3> QED
        BY <2>8, <3>1, <3>2 DEF NoLabelAt
  <2>10. ReadLabels(m, q) = WithLabel(l, ReadLabels(m, p + off[i]))
    <3>1. q \in 1 .. Len(m) + 1 /\ q # Len(m) + 1 /\ m[q] # 0
      <4>1. \A x, y \in Nat : x \in 1 .. y => x \in 1 .. y + 1 /\ x # y + 1
          OBVIOUS
      <4>2. q \in 1 .. Len(m) /\ q \in Nat /\ Len(m) \in Nat /\ m[q] # 0
          BY <1>5, <2>3, <2>5, <2>6
      <4> QED
          BY <4>1, <4>2
    <3>2. ReadLabels(m, q) = WithLabel(LabelAt(m, q), ReadLabels(m, q + 1 + m[q]))
        BY <2>9, <3>1, ReadLabelsStep
    <3> QED
        BY <2>5, <2>6, <2>8, <3>2
  <2>11. ReadLabels(m, p + off[i]) = [labels |-> Rest(i), next |-> p + off[n] + 1]
      BY <2>2
  <2>12. Rest(k) = <<l>> \o Rest(i)
    <3>1. k + 1 \in 1 .. Len(labels) /\ n \in k + 1 .. Len(labels)
        BY <1>1, <2>1 DEF n
    <3>2. SubSeq(labels, k + 1, n) = <<labels[k + 1]>> \o SubSeq(labels, (k + 1) + 1, n)
        BY <1>1, <3>1, SubSeqRecursiveFirst
    <3> QED
        BY <2>1, <3>2 DEF l
  <2>13. WithLabel(l, [labels |-> Rest(i), next |-> p + off[n] + 1])
            = [labels |-> <<l>> \o Rest(i), next |-> p + off[n] + 1]
    <3> DEFINE r == [labels |-> Rest(i), next |-> p + off[n] + 1]
    <3>1. r # Malformed
      <4>1. Rest(i) \in Seq(Seq(Nat))
        <5> DEFINE Q == Seq(Nat)
        <5>1. labels \in Seq(Q)
            BY <1>1
        <5> HIDE DEF Q
        <5>2. \A x \in i + 1 .. n : labels[x] \in Q
            BY <1>1, <2>1, <5>1 DEF n
        <5>3. i + 1 \in Int /\ n \in Int
            BY <1>1, <2>1
        <5>4. SubSeq(labels, i + 1, n) \in Seq(Q)
            BY <5>2, <5>3, SubSeqProperties
        <5> QED
            BY <5>4 DEF Q
      <4>2. p + off[n] + 1 \in Nat
          BY <1>6
      <4> HIDE DEF Rest
      <4> QED
          BY <4>1, <4>2, MalformedAssumption DEF Name
    <3>2. r.labels = Rest(i) /\ r.next = p + off[n] + 1
      <4> HIDE DEF Rest
      <4> QED
          OBVIOUS
    <3> HIDE DEF r
    <3>3. WithLabel(l, r) = [labels |-> <<l>> \o r.labels, next |-> r.next]
        BY <3>1 DEF WithLabel
    <3> HIDE DEF Rest
    <3> QED
        BY <3>2, <3>3 DEF r
  <2>14. Good(k)
    <3> HIDE DEF Rest
    <3> QED
        BY <2>10, <2>11, <2>12, <2>13 DEF q, a
  <2> HIDE DEF Good
  <2> QED
      BY <2>14 DEF k
<1>9. Nat \subseteq T
  <2> HIDE DEF T
  <2> QED
      BY <1>7, <1>8, SetInduction
<1>10. Good(0)
  <2>1. n \in T /\ n - n = 0
    <3> HIDE DEF T
    <3> QED
        BY <1>1, <1>9
  <2> HIDE DEF Good
  <2> QED
      BY <1>1, <2>1
<1>11. Rest(0) = labels
  <2>1. 0 + 1 = 1
      OBVIOUS
  <2> QED
      BY <1>1, <2>1, SubSeqFull DEF n
<1>12. p + off[0] = p /\ p + off[n] + 1 = p + Len(e)
    BY <1>1, <1>4, <1>6
<1> HIDE DEF Rest
<1> QED
    BY <1>10, <1>11, <1>12 DEF e


-----------------------------------------------------------------------------
(* The data of a record                                                    *)

\* The labels of a name can be written in a message, and spell the name.
LEMMA NameLabels ==
    ASSUME NEW text \in Seq(Chars), IsDomainName(text)
    PROVE  Labels(text) \in Readable /\ Join(Labels(text)) = text
<1>1. Split[text] \in LabelLists(Chars) /\ Join(Split[text]) = text
    BY SplitFacts DEF Chars
<1>2. Split[text] \in Seq(Seq(Chars)) /\ \A i \in 1 .. Len(Split[text]) : Split[text][i] # <<>>
    BY <1>1 DEF LabelLists, IsDomainName
<1> QED
    BY <1>1, <1>2 DEF Labels, Readable

\* encode_domain_labels writes cells.
LEMMA EncodeDomainLabelsType ==
    ASSUME NEW text \in Seq(Nat)
    PROVE  EncodeDomainLabels(text) \in Seq(Nat)
<1>1. Split[text] \in Seq(Seq(Nat))
    BY SplitFacts DEF LabelLists
<1> QED
    BY <1>1, EncodeLabelsFacts DEF EncodeDomainLabels, Labels

\* What str::parse::<u16> accepts is a number.
LEMMA U16Type ==
    ASSUME NEW text \in Seq(Nat), IsU16(text)
    PROVE  U16(text) \in Nat
<1> DEFINE d == Digits(text)
           n == Len(d)
           G == [x \in (1 .. n) \X Nat |-> x[2] * 10 + (d[x[1]] - 48)]
           Is(f) == f = [i \in 0 .. n |-> IF i = 0 THEN 0 ELSE f[i - 1] * 10 + (d[i] - 48)]
           number == CHOOSE f : Is(f)
<1>1. d \in Seq(Nat) /\ n \in Nat /\ \A i \in 1 .. n : d[i] \in 48 .. 57
  <2>1. \A s \in Seq(Nat) : Len(s) > 1 => Tail(s) \in Seq(Nat)
      OBVIOUS
  <2>2. d \in Seq(Nat)
      BY <2>1 DEF Digits
  <2> HIDE DEF d
  <2>3. n \in Nat
      BY <2>2
  <2> QED
      BY <2>2, <2>3 DEF IsU16, d
<1>2. U16(text) = number[n]
    BY DEF U16
<1> HIDE DEF d, n
<1>3. \A i \in 1 .. n, s \in Nat : s * 10 + (d[i] - 48) \in Nat
  <2>1. \A c \in 48 .. 57, s \in Nat : s * 10 + (c - 48) \in Nat
      OBVIOUS
  <2> QED
      BY <1>1, <2>1
<1>4. G \in Rounds(Nat, n) /\ \A i \in 1 .. n, s \in Nat : G[<<i, s>>] = s * 10 + (d[i] - 48)
    BY <1>3 DEF Rounds
<1> HIDE DEF G
<1>5. PICK f \in Results(Nat, n) : AreResults(f, 0, n, G)
    BY <1>1, <1>4, FoldExists
<1>6. f \in [0 .. n -> Nat] /\ f[0] = 0 /\ \A i \in 1 .. n : f[i] = G[<<i, f[i - 1]>>]
    BY <1>5 DEF Results, AreResults
<1>7. Is(f)
  <2>1. ASSUME NEW i \in 0 .. n PROVE f[i] = IF i = 0 THEN 0 ELSE f[i - 1] * 10 + (d[i] - 48)
    <3>1. CASE i = 0
        BY <1>6, <3>1
    <3>2. CASE i # 0
      <4>1. i \in 1 .. n /\ i - 1 \in 0 .. n
          BY <1>1, <3>2
      <4>2. f[i - 1] \in Nat
          BY <1>6, <4>1
      <4> QED
          BY <1>4, <1>6, <3>2, <4>1, <4>2
    <3> QED
        BY <3>1, <3>2
  <2> QED
      BY <1>6, <2>1
<1>8. Is(number)
    BY <1>7, Zenon
<1> HIDE DEF number
<1> DEFINE T == {i \in Nat : i <= n => number[i] \in Nat}
<1>9. 0 \in T
    BY <1>1, <1>8
<1>10. ASSUME NEW i \in Nat, i \in T PROVE i + 1 \in T
  <2> SUFFICES ASSUME i + 1 <= n PROVE number[i + 1] \in Nat
      OBVIOUS
  <2>1. i + 1 \in 0 .. n /\ i + 1 # 0 /\ (i + 1) - 1 = i /\ i + 1 \in 1 .. n /\ i <= n
      BY <1>1
  <2>2. number[i + 1] = number[(i + 1) - 1] * 10 + (d[i + 1] - 48)
      BY <1>8, <2>1
  <2>3. number[i] \in Nat
      BY <1>10, <2>1
  <2>4. number[i + 1] = number[i] * 10 + (d[i + 1] - 48)
      BY <2>1, <2>2
  <2> QED
      BY <1>3, <2>1, <2>3, <2>4
<1>11. Nat \subseteq T
  <2> HIDE DEF T
  <2> QED
      BY <1>9, <1>10, SetInduction
<1> QED
    BY <1>1, <1>2, <1>11


\* An MX value has a preference that is a number and an exchange that is a text.
LEMMA MxPartsType ==
    ASSUME NEW value \in Seq(Nat)
    PROVE  MxParts(value).preference \in Nat /\ MxParts(value).exchange \in Seq(Nat)
<1> DEFINE blank == SelectInSeq(value, LAMBDA c : c = Space)
           before == SubSeq(value, 1, blank - 1)
           after == SubSeq(value, blank + 1, Len(value))
           I == {i \in 1 .. Len(value) : value[i] = Space}
<1>1. Len(value) \in Nat /\ \A i \in 1 .. Len(value) : value[i] \in Nat
    OBVIOUS
<1>2. blank \in 0 .. Len(value)
  <2>1. blank = IF I # {} THEN Min(I) ELSE 0
      BY DEF SelectInSeq
  <2>2. ASSUME I # {} PROVE Min(I) \in I
    <3>1. I \in SUBSET Nat
        BY <1>1
    <3>2. \E x \in I : \A y \in I : x <= y
      <4> HIDE DEF I
      <4> QED
          BY <2>2, <3>1, LeastNat
    <3> HIDE DEF I
    <3> QED
        BY <3>2 DEF Min
  <2> HIDE DEF blank
  <2> QED
      BY <1>1, <2>1, <2>2
<1> HIDE DEF blank
<1>3. before \in Seq(Nat) /\ after \in Seq(Nat)
  <2>1. /\ 1 \in Int /\ blank - 1 \in Int /\ blank + 1 \in Int /\ Len(value) \in Int
        /\ \A i \in 1 .. blank - 1 : value[i] \in Nat
        /\ \A i \in blank + 1 .. Len(value) : value[i] \in Nat
      BY <1>1, <1>2
  <2> QED
      BY <2>1, SubSeqProperties
<1>4. MxParts(value) = IF blank > 0 /\ IsU16(before)
                       THEN [preference |-> U16(before), exchange |-> after]
                       ELSE [preference |-> 0, exchange |-> value]
    BY DEF MxParts, blank
<1> HIDE DEF before, after
<1> QED
    BY <1>3, <1>4, U16Type

\* A TXT value in chunks is a sequence of cells.
LEMMA TxtChunksType ==
    ASSUME NEW value \in Seq(Nat)
    PROVE  TxtChunks(value) \in Seq(Nat)
<1> DEFINE n == (Len(value) + TxtChunk - 1) \div TxtChunk
           from(k) == (k - 1) * TxtChunk + 1
           upto(k) == IF k * TxtChunk < Len(value) THEN k * TxtChunk ELSE Len(value)
           chunk(k) == SubSeq(value, from(k), upto(k))
           pieces == [k \in 1 .. n |-> <<Len(chunk(k))>> \o chunk(k)]
<1>1. Len(value) \in Nat /\ TxtChunk \in Nat \ {0} /\ \A i \in 1 .. Len(value) : value[i] \in Nat
    BY TxtChunkAssumption
<1>2. n \in Nat
  <2>1. \A a \in Nat, b \in Nat \ {0} : (a + b - 1) \div b \in Nat
      OBVIOUS
  <2> QED
      BY <1>1, <2>1
<1>3. ASSUME NEW k \in 1 .. n PROVE <<Len(chunk(k))>> \o chunk(k) \in Seq(Nat)
  <2>1. from(k) \in Nat \ {0} /\ upto(k) \in Nat /\ upto(k) <= Len(value)
    <3>1. k - 1 \in Nat /\ k \in Nat
        BY <1>2
    <3>2. \A a, b \in Nat : a * b \in Nat
        OBVIOUS
    <3>3. (k - 1) * TxtChunk \in Nat /\ k * TxtChunk \in Nat
        BY <1>1, <3>1, <3>2
    <3> QED
        BY <1>1, <3>3
  <2> DEFINE a == from(k)
             b == upto(k)
             c == chunk(k)
  <2>2. c = SubSeq(value, a, b)
      OBVIOUS
  <2>3. a \in Nat \ {0} /\ b \in Nat /\ b <= Len(value)
      BY <2>1
  <2> HIDE DEF a, b, c
  <2>4. a \in Int /\ b \in Int /\ \A i \in a .. b : value[i] \in Nat
      BY <1>1, <2>3
  <2>5. c \in Seq(Nat)
      BY <2>2, <2>4, SubSeqProperties
  <2>6. <<Len(c)>> \o c \in Seq(Nat)
      BY <2>5
  <2> QED
      BY <2>6 DEF c
<1>4. TxtChunks(value) = FlattenSeq(pieces)
    BY DEF TxtChunks
<1>5. pieces \in Seq(Seq(Nat))
  <2> HIDE DEF n, chunk
  <2> QED
      BY <1>2, <1>3
<1> HIDE DEF pieces
<1> QED
    BY <1>4, <1>5, FlattenType

\* What encode_rdata returns for a record it can encode.
LEMMA EncodableFacts ==
    ASSUME NEW r \in Record
    PROVE  /\ r \in Encodable <=> EncodeRdata(r) # Malformed
           /\ r \in Encodable => EncodeRdata(r) \in Seq(Nat)
           /\ r.ttl \in Nat /\ RecordTypeCode[r.type] \in Nat
<1>1. r.type \in {"A", "NS", "CNAME", "MX", "TXT", "AAAA"} /\ r.ttl \in Nat /\ r.value \in Seq(Nat)
    BY DEF Record, RecordTypeCode
<1>2. RecordTypeCode[r.type] \in Nat
    BY <1>1 DEF RecordTypeCode
<1>3. r \in Encodable <=> EncodeRdata(r) # Malformed
    BY DEF Encodable
<1>4. ASSUME EncodeRdata(r) # Malformed PROVE EncodeRdata(r) \in Seq(Nat)
  <2>1. CASE r.type = "A"
      BY <1>4, <2>1, AddressTextAssumption DEF EncodeRdata
  <2>2. CASE r.type = "AAAA"
      BY <1>4, <2>2, AddressTextAssumption DEF EncodeRdata
  <2>3. CASE r.type \in {"CNAME", "NS"}
    <3>1. EncodeRdata(r) = EncodeDomainLabels(r.value)
        BY <1>4, <2>3 DEF EncodeRdata
    <3> QED
        BY <1>1, <3>1, EncodeDomainLabelsType
  <2>4. CASE r.type = "MX"
    <3> DEFINE p == MxParts(r.value).preference
               x == EncodeDomainLabels(MxParts(r.value).exchange)
    <3>1. EncodeRdata(r) = <<p>> \o x
        BY <1>4, <2>4 DEF EncodeRdata
    <3>2. p \in Nat /\ x \in Seq(Nat)
        BY <1>1, MxPartsType, EncodeDomainLabelsType
    <3> HIDE DEF p, x
    <3>3. <<p>> \o x \in Seq(Nat)
        BY <3>2
    <3> QED
        BY <3>1, <3>3
  <2>5. CASE r.type = "TXT"
    <3>1. EncodeRdata(r) = TxtChunks(r.value)
        BY <2>5 DEF EncodeRdata
    <3> QED
        BY <1>1, <3>1, TxtChunksType
  <2> QED
      BY <1>1, <2>1, <2>2, <2>3, <2>4, <2>5
<1> QED
    BY <1>1, <1>2, <1>3, <1>4


-----------------------------------------------------------------------------
(* Reading the answers of a response                                       *)

\* What follows a name comes after it.
LEMMA ReadLabelsAfter ==
    ASSUME NEW m \in Seq(Nat), NEW p \in 1 .. Len(m) + 1, ReadLabels(m, p) # Malformed
    PROVE  ReadLabels(m, p).labels \in Readable /\ ReadLabels(m, p).next \in p + 1 .. Len(m) + 1
<1> DEFINE n == Len(m) + 1
           Fine(q) == ReadLabels(m, q) # Malformed => ReadLabels(m, q).next \in q + 1 .. n
           T == {k \in Nat : \A q \in 1 .. n : n - q <= k => Fine(q)}
<1>1. n \in Nat /\ Len(m) \in Nat /\ \A q \in 1 .. Len(m) : m[q] \in Nat
    OBVIOUS
<1>2. \A q \in 1 .. n : ReadLabels(m, q) \in ReadNames(m) \cup {Malformed}
    BY ReadLabelsStep
<1>3. ASSUME NEW q \in 1 .. n,
             \A r \in 1 .. n : r > q => Fine(r)
      PROVE  Fine(q)
  <2>1. CASE q = n
      BY <2>1, ReadLabelsStep
  <2>2. CASE q # n /\ m[q] = 0
    <3>1. ReadLabels(m, q) = [labels |-> <<>>, next |-> q + 1]
        BY <2>2, ReadLabelsStep
    <3>2. q + 1 \in q + 1 .. n
        BY <1>1, <2>2
    <3> QED
        BY <3>1, <3>2
  <2>3. CASE q # n /\ m[q] # 0 /\ NoLabelAt(m, q)
      BY <2>3, ReadLabelsStep
  <2>4. CASE q # n /\ m[q] # 0 /\ ~ NoLabelAt(m, q)
    <3> DEFINE r == q + 1 + m[q]
               l == LabelAt(m, q)
               v == ReadLabels(m, r)
    <3>1. q \in 1 .. Len(m)
        BY <1>1, <2>4
    <3>2. l \in Seq(Chars) /\ l # <<>> /\ r \in q + 2 .. n
        BY <2>4, <3>1, LabelAtFacts
    <3>3. ReadLabels(m, q) = WithLabel(l, v)
        BY <2>4, ReadLabelsStep
    <3> HIDE DEF l, r
    <3>4. r \in 1 .. n /\ r > q /\ q \in Nat /\ r \in Nat
        BY <1>1, <3>1, <3>2
    <3>5. v \in ReadNames(m) \cup {Malformed}
        BY <1>2, <3>4
    <3>6. Fine(r)
        BY <1>3, <3>4
    <3> HIDE DEF v
    <3>7. CASE v = Malformed
        BY <3>3, <3>7 DEF WithLabel
    <3>8. CASE v # Malformed
      <4>1. WithLabel(l, v) = [labels |-> <<l>> \o v.labels, next |-> v.next]
          BY <3>8 DEF WithLabel
      <4>2. ReadLabels(m, q).next = v.next
          BY <3>3, <4>1
      <4>3. v.next \in r + 1 .. n
          BY <3>6, <3>8 DEF v
      <4>4. v.next \in q + 1 .. n
          BY <1>1, <3>4, <4>3
      <4> QED
          BY <4>2, <4>4
    <3> QED
        BY <3>7, <3>8
  <2> QED
      BY <2>1, <2>2, <2>3, <2>4
<1> HIDE DEF Fine
<1>4. 0 \in T
  <2>1. \A q, r \in 1 .. n : n - q <= 0 => ~ (r > q)
      BY <1>1
  <2> QED
      BY <1>3, <2>1
<1>5. ASSUME NEW k \in Nat, k \in T PROVE k + 1 \in T
  <2>1. \A q, r \in 1 .. n : n - q <= k + 1 /\ r > q => n - r <= k
      BY <1>1
  <2>2. \A r \in 1 .. n : n - r <= k => Fine(r)
      BY <1>5
  <2>3. ASSUME NEW q \in 1 .. n, n - q <= k + 1 PROVE Fine(q)
      BY <1>3, <2>1, <2>2, <2>3
  <2> QED
      BY <2>3
<1>6. Nat \subseteq T
  <2> HIDE DEF T
  <2> QED
      BY <1>4, <1>5, SetInduction
<1>7. Fine(p)
  <2>1. n - p \in Nat /\ p \in 1 .. n /\ n - p <= n - p
      BY <1>1
  <2>2. n - p \in T
    <3> HIDE DEF T
    <3> QED
        BY <1>6, <2>1
  <2> DEFINE k == n - p
  <2>3. \A q \in 1 .. n : n - q <= k => Fine(q)
      BY <2>2
  <2> QED
      BY <2>1, <2>3
<1>8. ReadLabels(m, p) \in ReadNames(m)
    BY <1>2
<1> QED
    BY <1>7, <1>8 DEF Fine, ReadNames

\* The answer that begins at a position: where its name ends, whether there is one,
\* what a reader makes of it and where the next begins.
AfterName(m, p) == ReadLabels(m, p).next
NoAnswerAt(m, p) ==
    \/ ReadLabels(m, p) = Malformed
    \/ Len(m) < AfterName(m, p) + 3 \/ Len(m) < AfterName(m, p) + 3 + m[AfterName(m, p) + 3]
AnswerAt(m, p) ==
    [labels |-> ReadLabels(m, p).labels, code |-> m[AfterName(m, p)], ttl |-> m[AfterName(m, p) + 2],
     rdata |-> SubSeq(m, AfterName(m, p) + 4, AfterName(m, p) + 3 + m[AfterName(m, p) + 3])]
AfterAnswer(m, p) == AfterName(m, p) + 4 + m[AfterName(m, p) + 3]

\* ReadAnswers, one answer at a time.
LEMMA ReadAnswersStep ==
    ASSUME NEW m \in Seq(Nat), NEW p \in 1 .. Len(m) + 1
    PROVE  /\ p = Len(m) + 1 => ReadAnswers(m, p) = <<>>
           /\ p # Len(m) + 1 /\ ~ NoAnswerAt(m, p) =>
                ReadAnswers(m, p) = <<AnswerAt(m, p)>> \o ReadAnswers(m, AfterAnswer(m, p))
<1> DEFINE n == Len(m) + 1
           V == {AnswerAt(m, q) : q \in 1 .. n} \cup {Malformed}
           S == Seq(V)
           Is(f) == f = [q \in 1 .. n |->
                IF q > Len(m) THEN <<>>
                ELSE IF NoAnswerAt(m, q) THEN <<Malformed>>
                ELSE <<AnswerAt(m, q)>> \o f[AfterAnswer(m, q)]]
           read == CHOOSE f : Is(f)
           ends == {q \in 1 .. n : q > Len(m) \/ NoAnswerAt(m, q)}
           out == [q \in 1 .. n |-> IF q > Len(m) THEN <<>> ELSE <<Malformed>>]
           next == [q \in 1 .. n |-> IF q \in ends THEN q ELSE AfterAnswer(m, q)]
           G == [x \in (1 .. n) \X S |-> <<AnswerAt(m, x[1])>> \o x[2]]
<1>1. n \in Nat /\ Len(m) \in Nat /\ \A q \in 1 .. Len(m) : m[q] \in Nat
    OBVIOUS
<1>2. \A q : ReadAnswers(m, q) = read[q]
    BY DEF ReadAnswers, NoAnswerAt, AnswerAt, AfterAnswer, AfterName
<1>3. ASSUME NEW q \in 1 .. n, q \notin ends PROVE AfterAnswer(m, q) \in q + 1 .. n
  <2> DEFINE a == AfterName(m, q)
  <2>1. ReadLabels(m, q) # Malformed /\ a + 3 <= Len(m) /\ a + 3 + m[a + 3] <= Len(m) /\ a \in q + 1 .. n
    <3>1. q <= Len(m) /\ ~ NoAnswerAt(m, q)
        BY <1>1, <1>3
    <3>2. ReadLabels(m, q) # Malformed /\ ~ (Len(m) < a + 3) /\ ~ (Len(m) < a + 3 + m[a + 3])
        BY <3>1 DEF NoAnswerAt
    <3>3. a \in q + 1 .. n
        BY <3>2, ReadLabelsAfter DEF AfterName
    <3> HIDE DEF a
    <3>4. a + 3 <= Len(m)
        BY <1>1, <3>2, <3>3
    <3>5. m[a + 3] \in Nat
        BY <1>1, <3>3, <3>4
    <3> QED
        BY <1>1, <3>2, <3>3, <3>4, <3>5
  <2>2. AfterAnswer(m, q) = a + 4 + m[a + 3]
      BY DEF AfterAnswer
  <2> HIDE DEF a
  <2>3. m[a + 3] \in Nat
      BY <1>1, <2>1
  <2> DEFINE c == m[a + 3]
  <2>4. c \in Nat /\ a + 3 + c <= Len(m) /\ a \in q + 1 .. n
      BY <2>1, <2>3
  <2> HIDE DEF c
  <2>5. a + 4 + c \in q + 1 .. n
      BY <1>1, <2>4
  <2> QED
      BY <2>2, <2>5 DEF c
<1>4. <<>> \in S /\ <<Malformed>> \in S /\ \A q \in 1 .. n, s \in S : <<AnswerAt(m, q)>> \o s \in S
  <2>1. Malformed \in V /\ \A q \in 1 .. n : AnswerAt(m, q) \in V
      OBVIOUS
  <2> HIDE DEF V
  <2>2. \A v \in V, s \in Seq(V) : <<v>> \o s \in Seq(V)
      OBVIOUS
  <2> QED
      BY <2>1, <2>2
<1> HIDE DEF S, V
<1>5. out \in Outcomes(S, n)
    BY <1>4 DEF Outcomes
<1>6. next \in Walks(n) /\ \A q \in 1 .. n : q \notin ends => q < next[q] /\ next[q] = AfterAnswer(m, q)
  <2> HIDE DEF ends, n
  <2>1. \A q \in 1 .. n : q \notin ends => AfterAnswer(m, q) \in 1 .. n /\ q < AfterAnswer(m, q)
    <3>1. \A q \in 1 .. n : \A r \in q + 1 .. n : r \in 1 .. n /\ q < r
        BY <1>1
    <3> QED
        BY <1>3, <3>1
  <2>2. \A q \in 1 .. n : (IF q \in ends THEN q ELSE AfterAnswer(m, q)) \in 1 .. n
      BY <2>1
  <2>3. next \in Walks(n)
      BY <2>2 DEF Walks
  <2>4. \A q \in 1 .. n : q \notin ends => next[q] = AfterAnswer(m, q)
      OBVIOUS
  <2> HIDE DEF next
  <2> QED
      BY <2>1, <2>3, <2>4
<1>7. G \in Rounds(S, n) /\ \A q \in 1 .. n, s \in S : G[<<q, s>>] = <<AnswerAt(m, q)>> \o s
    BY <1>4 DEF Rounds
<1> HIDE DEF n, ends, out, next, G
<1>8. PICK f \in Outcomes(S, n) : AreOutcomes(f, n, ends, out, next, G)
    BY <1>1, <1>5, <1>6, <1>7, WalkExists
<1>9. /\ f \in [1 .. n -> S]
      /\ \A q \in 1 .. n : q \in ends => f[q] = out[q]
      /\ \A q \in 1 .. n : q \notin ends => f[q] = G[<<q, f[next[q]]>>]
    BY <1>8 DEF Outcomes, AreOutcomes
<1>10. ASSUME NEW q \in 1 .. n, q \notin ends PROVE f[q] = <<AnswerAt(m, q)>> \o f[AfterAnswer(m, q)]
  <2>1. next[q] \in 1 .. n /\ next[q] = AfterAnswer(m, q)
      BY <1>6, <1>10 DEF Walks
  <2>2. f[next[q]] \in S /\ f[q] = G[<<q, f[next[q]]>>]
      BY <1>9, <1>10, <2>1
  <2>3. f[q] = <<AnswerAt(m, q)>> \o f[next[q]]
      BY <1>7, <2>2
  <2> QED
      BY <2>1, <2>3
<1>11. Is(f)
  <2>1. ASSUME NEW q \in 1 .. n
        PROVE  f[q] = IF q > Len(m) THEN <<>>
                      ELSE IF NoAnswerAt(m, q) THEN <<Malformed>>
                      ELSE <<AnswerAt(m, q)>> \o f[AfterAnswer(m, q)]
    <3>1. CASE q \in ends
        BY <1>9, <3>1 DEF ends, out
    <3>2. CASE q \notin ends
      <4>1. ~ (q > Len(m)) /\ ~ NoAnswerAt(m, q)
          BY <3>2 DEF ends
      <4> QED
          BY <1>10, <3>2, <4>1
    <3> QED
        BY <3>1, <3>2
  <2> QED
      BY <1>9, <2>1
<1>12. Is(read)
    BY <1>11, Zenon
<1> HIDE DEF read
<1>13. p \in 1 .. n /\ (p = Len(m) + 1 <=> p > Len(m))
    BY <1>1 DEF n
<1>14. read[p] = IF p > Len(m) THEN <<>>
                 ELSE IF NoAnswerAt(m, p) THEN <<Malformed>>
                 ELSE <<AnswerAt(m, p)>> \o read[AfterAnswer(m, p)]
    BY <1>12, <1>13
<1> QED
    BY <1>2, <1>13, <1>14

-----------------------------------------------------------------------------
(* Filtering                                                               *)

\* What a filter is made of.
LEMMA KeepIs ==
    ASSUME NEW S, NEW seq
    PROVE  Keep(seq, S) = FlattenSeq([i \in 1 .. Len(seq) |-> IF seq[i] \in S THEN <<seq[i]>> ELSE <<>>])
    BY DEF Keep

\* A filter of nothing keeps nothing.
LEMMA KeepEmpty == \A S : Keep(<<>>, S) = <<>>
<1> SUFFICES ASSUME NEW S PROVE Keep(<<>>, S) = <<>>
    OBVIOUS
<1>1. [i \in 1 .. Len(<<>>) |-> IF (<<>>)[i] \in S THEN <<(<<>>)[i]>> ELSE <<>>] = <<>>
    OBVIOUS
<1> QED
    BY <1>1, FlattenEmpty, KeepIs

\* What a filter keeps is in the set.
LEMMA KeepType ==
    ASSUME NEW R, NEW S, NEW seq \in Seq(R)
    PROVE  Keep(seq, S) \in Seq(R \cap S)
<1> DEFINE Q == Seq(R \cap S)
           pieces == [i \in 1 .. Len(seq) |-> IF seq[i] \in S THEN <<seq[i]>> ELSE <<>>]
<1>1. Keep(seq, S) = FlattenSeq(pieces)
    BY KeepIs
<1>2. \A i \in 1 .. Len(seq) : (IF seq[i] \in S THEN <<seq[i]>> ELSE <<>>) \in Q
  <2>1. <<>> \in Q /\ \A x \in R \cap S : <<x>> \in Q
      OBVIOUS
  <2>2. \A i \in 1 .. Len(seq) : seq[i] \in R
      OBVIOUS
  <2> QED
      BY <2>1, <2>2
<1>3. pieces \in Seq(Q)
  <2>1. Len(seq) \in Nat
      OBVIOUS
  <2> HIDE DEF Q
  <2> QED
      BY <1>2, <2>1
<1> HIDE DEF pieces
<1> QED
    BY <1>1, <1>3, FlattenType

\* What a filter makes of one element more.
KeepsNext(seq, e, S) ==
    /\ e \in S => Keep(Append(seq, e), S) = Append(Keep(seq, S), e)
    /\ e \notin S => Keep(Append(seq, e), S) = Keep(seq, S)

\* A filter takes the elements one by one.
LEMMA KeepStep ==
    ASSUME NEW R, NEW S, NEW seq \in Seq(R), NEW e \in R
    PROVE  KeepsNext(seq, e, S)
<1> DEFINE Q == Seq(R \cap S)
           Piece(x) == IF x \in S THEN <<x>> ELSE <<>>
           pieces(s) == [i \in 1 .. Len(s) |-> Piece(s[i])]
<1>1. \A s : Keep(s, S) = FlattenSeq(pieces(s))
    BY KeepIs
<1>2. \A x \in R : Piece(x) \in Q
  <2>1. <<>> \in Q /\ \A x \in R \cap S : <<x>> \in Q
      OBVIOUS
  <2> QED
      BY <2>1
<1>3. ASSUME NEW s \in Seq(R) PROVE pieces(s) \in Seq(Q) /\ Len(pieces(s)) = Len(s)
  <2>1. Len(s) \in Nat /\ \A i \in 1 .. Len(s) : s[i] \in R
      OBVIOUS
  <2> HIDE DEF Q, Piece
  <2> QED
      BY <1>2, <2>1
<1>5. Keep(seq, S) \in Q
    BY KeepType
<1>6. Keep(Append(seq, e), S) = Keep(seq, S) \o Piece(e)
  <2> DEFINE more == Append(seq, e)
             n == Len(seq)
  <2>1. /\ n \in Nat /\ more \in Seq(R) /\ Len(more) = n + 1 /\ more[n + 1] = e
        /\ \A i \in 1 .. n : more[i] = seq[i]
      OBVIOUS
  <2>2. /\ pieces(more) \in Seq(Q) /\ Len(pieces(more)) = n + 1
        /\ pieces(seq) \in Seq(Q) /\ Len(pieces(seq)) = n
    <3> HIDE DEF more, pieces, n
    <3> QED
        BY <1>3, <2>1 DEF n
  <2>3. /\ pieces(more)[n + 1] = Piece(e)
        /\ \A i \in 1 .. n : pieces(more)[i] = pieces(seq)[i]
    <3>1. n + 1 \in 1 .. Len(more) /\ \A i \in 1 .. n : i \in 1 .. Len(more)
        BY <2>1
    <3>2. \A i \in 1 .. Len(more) : pieces(more)[i] = Piece(more[i])
        OBVIOUS
    <3>3. \A i \in 1 .. n : pieces(seq)[i] = Piece(seq[i])
        OBVIOUS
    <3> HIDE DEF pieces, more, n, Piece
    <3> QED
        BY <2>1, <3>1, <3>2, <3>3
  <2> DEFINE a == pieces(seq)
             b == pieces(more)
             x == Piece(e)
  <2>4. x \in Q
      BY <1>2
  <2> HIDE DEF a, b, x, Q, n
  <2>5. Append(a, x) \in Seq(Q) /\ Len(Append(a, x)) = n + 1 /\ Append(a, x)[n + 1] = x
        /\ \A i \in 1 .. n : Append(a, x)[i] = a[i]
      BY <2>2, <2>4, AppendProperties DEF a
  <2>6. b = Append(a, x)
    <3>1. \A i \in 1 .. n + 1 : i = n + 1 \/ i \in 1 .. n
        BY <2>1
    <3>2. \A i \in 1 .. n + 1 : b[i] = Append(a, x)[i]
        BY <2>3, <2>5, <3>1 DEF a, b, x
    <3> QED
        BY <2>2, <2>5, <3>2, SeqEqual DEF b
  <2>7. FlattenSeq(b) = FlattenSeq(a) \o x
    <3>1. a \in Seq(Seq(R \cap S)) /\ x \in Seq(R \cap S)
        BY <2>2, <2>4 DEF a, Q
    <3> QED
        BY <2>6, <3>1, FlattenAppend
  <2>8. Keep(more, S) = FlattenSeq(b) /\ Keep(seq, S) = FlattenSeq(a)
      BY <1>1 DEF a, b
  <2> QED
      BY <2>7, <2>8 DEF x
<1>7. /\ e \in S => Keep(Append(seq, e), S) = Append(Keep(seq, S), e)
      /\ e \notin S => Keep(Append(seq, e), S) = Keep(seq, S)
  <2> DEFINE k == Keep(seq, S)
  <2>1. k \in Q
      BY <1>5
  <2>2. Keep(Append(seq, e), S) = k \o Piece(e)
      BY <1>6
  <2> HIDE DEF k
  <2>3. e \in S => k \o Piece(e) = Append(k, e)
      BY <2>1
  <2>4. e \notin S => k \o Piece(e) = k
      BY <2>1
  <2> QED
      BY <2>2, <2>3, <2>4 DEF k
<1> QED
    BY <1>7 DEF KeepsNext

\* Filtering twice keeps what both filters keep.
LEMMA KeepTwice ==
    ASSUME NEW R, NEW A, NEW B, NEW seq \in Seq(R)
    PROVE  Keep(Keep(seq, A), B) = Keep(seq, A \cap B)
<1> DEFINE Same(s) == Keep(Keep(s, A), B) = Keep(s, A \cap B)
           T == {k \in Nat : \A s \in Seq(R) : Len(s) = k => Same(s)}
<1>1. 0 \in T
  <2>1. ASSUME NEW s \in Seq(R), Len(s) = 0 PROVE Same(s)
    <3>1. s = <<>>
        BY <2>1
    <3> QED
        BY <3>1, KeepEmpty
  <2> HIDE DEF Same
  <2> QED
      BY <2>1
<1>2. ASSUME NEW k \in Nat, k \in T PROVE k + 1 \in T
  <2>1. ASSUME NEW s \in Seq(R), Len(s) = k + 1 PROVE Same(s)
    <3>1. PICK front \in Seq(R), e \in R : s = Append(front, e) /\ Len(front) = k
        BY <2>1, LastSplit
    <3>2. Same(front)
      <4> HIDE DEF Same
      <4> QED
          BY <1>2, <3>1
    <3> DEFINE f == Keep(front, A)
    <3>3. /\ e \in A => Keep(s, A) = Append(f, e)
          /\ e \notin A => Keep(s, A) = f
          /\ f \in Seq(R)
      <4>1. f \in Seq(R \cap A)
          BY KeepType
      <4>2. f \in Seq(R)
        <5> HIDE DEF f
        <5> QED
            BY <4>1, SeqSubset
      <4> HIDE DEF f
      <4>3. /\ e \in A => Keep(Append(front, e), A) = Append(Keep(front, A), e)
            /\ e \notin A => Keep(Append(front, e), A) = Keep(front, A)
          BY KeepStep DEF KeepsNext
      <4> HIDE DEF f
      <4> QED
          BY <3>1, <4>2, <4>3 DEF f
    <3>4. /\ e \in B => Keep(Append(f, e), B) = Append(Keep(f, B), e)
          /\ e \notin B => Keep(Append(f, e), B) = Keep(f, B)
      <4> HIDE DEF f
      <4> QED
          BY <3>3, KeepStep DEF KeepsNext
    <3>5. /\ e \in A \cap B => Keep(s, A \cap B) = Append(Keep(front, A \cap B), e)
          /\ e \notin A \cap B => Keep(s, A \cap B) = Keep(front, A \cap B)
      <4> DEFINE C == A \cap B
      <4> HIDE DEF C
      <4>1. /\ e \in C => Keep(Append(front, e), C) = Append(Keep(front, C), e)
            /\ e \notin C => Keep(Append(front, e), C) = Keep(front, C)
          BY KeepStep DEF KeepsNext
      <4> QED
          BY <3>1, <4>1 DEF C
    <3>6. Keep(f, B) = Keep(front, A \cap B)
        BY <3>2
    <3> HIDE DEF f
    <3> QED
        BY <3>3, <3>4, <3>5, <3>6
  <2> HIDE DEF Same
  <2> QED
      BY <2>1
<1>3. Nat \subseteq T
  <2> HIDE DEF T
  <2> QED
      BY <1>1, <1>2, SetInduction
<1>4. Len(seq) \in Nat
    OBVIOUS
<1>5. Same(seq)
  <2> HIDE DEF Same
  <2> QED
      BY <1>3, <1>4
<1> QED
    BY <1>5

-----------------------------------------------------------------------------
(* Where the parts of a message stand                                      *)

\* Two parts make a message as long as both.
LEMMA Concat ==
    \A s, t \in Seq(Nat) : s \o t \in Seq(Nat) /\ Len(s \o t) = Len(s) + Len(t)
OBVIOUS

\* Of two parts one after the other, each stands where it should.
LEMMA StandsParts ==
    ASSUME NEW m \in Seq(Nat), NEW p \in Nat \ {0}, NEW a \in Seq(Nat), NEW b \in Seq(Nat),
           Stands(m, p, a \o b)
    PROVE  Stands(m, p, a) /\ Stands(m, p + Len(a), b)
<1> DEFINE x == Len(a)
           y == Len(b)
           N == Len(m)
           c == a \o b
<1>1. x \in Nat /\ y \in Nat /\ N \in Nat /\ Len(c) = x + y
    OBVIOUS
<1>2. (\A j \in 1 .. x : c[j] = a[j]) /\ (\A j \in 1 .. y : c[x + j] = b[j])
    OBVIOUS
<1>3. p + (x + y) - 1 <= N /\ \A j \in 1 .. x + y : m[p + j - 1] = c[j]
    BY <1>1 DEF Stands
<1> HIDE DEF x, y, N, c
<1>4. /\ p + x - 1 <= N /\ (p + x) + y - 1 <= N
      /\ \A j \in 1 .. x : j \in 1 .. x + y
      /\ \A j \in 1 .. y : x + j \in 1 .. x + y /\ (p + x) + j - 1 = p + (x + j) - 1
    BY <1>1, <1>3
<1>5. \A j \in 1 .. x : m[p + j - 1] = a[j]
    BY <1>2, <1>3, <1>4
<1>6. \A j \in 1 .. y : m[(p + x) + j - 1] = b[j]
    BY <1>2, <1>3, <1>4
<1> QED
    BY <1>4, <1>5, <1>6 DEF Stands, x, y, N

\* A message of two parts has the first at its beginning, the second after it.
LEMMA WholeStands ==
    ASSUME NEW m \in Seq(Nat)
    PROVE  Stands(m, 1, m)
<1>1. Len(m) \in Nat /\ 1 + Len(m) - 1 <= Len(m) /\ \A j \in 1 .. Len(m) : 1 + j - 1 = j
    OBVIOUS
<1> QED
    BY <1>1 DEF Stands

\* What stands in what stands in a message stands in the message.
LEMMA StandsWithin ==
    ASSUME NEW m \in Seq(Nat), NEW p \in Nat \ {0}, NEW s \in Seq(Nat), Stands(m, p, s),
           NEW q \in Nat, NEW t \in Seq(Nat), q + Len(t) <= Len(s),
           \A j \in 1 .. Len(t) : s[q + j] = t[j]
    PROVE  Stands(m, p + q, t)
<1> DEFINE x == Len(s)
           y == Len(t)
           N == Len(m)
<1>1. x \in Nat /\ y \in Nat /\ N \in Nat /\ q + y <= x
    OBVIOUS
<1>2. p + x - 1 <= N /\ \A j \in 1 .. x : m[p + j - 1] = s[j]
    BY DEF Stands
<1>3. \A j \in 1 .. y : s[q + j] = t[j]
    OBVIOUS
<1> HIDE DEF x, y, N
<1>4. /\ (p + q) + y - 1 <= N
      /\ \A j \in 1 .. y : q + j \in 1 .. x /\ (p + q) + j - 1 = p + (q + j) - 1
    BY <1>1, <1>2
<1>5. \A j \in 1 .. y : m[(p + q) + j - 1] = t[j]
    BY <1>2, <1>3, <1>4
<1> QED
    BY <1>4, <1>5 DEF Stands, y, N

-----------------------------------------------------------------------------
(* What build_response writes, a reader finds                              *)

\* What a reader is to make of the answer for a record.
Shown(domain, r) ==
    [labels |-> Labels(domain), code |-> RecordTypeCode[r.type],
     ttl |-> r.ttl, rdata |-> EncodeRdata(r)]

\* The fields between the name of an answer and its data.
Fields(r) == <<RecordTypeCode[r.type], ClassIn, r.ttl, Len(EncodeRdata(r))>>

\* An answer is its name, its fields and its data, all of them cells.
LEMMA AnswerFacts ==
    ASSUME NEW query, query.domain \in Seq(Nat), NEW r \in Record, r \in Encodable
    PROVE  LET e == EncodeDomainLabels(query.domain)
           IN /\ e \in Seq(Nat) /\ EncodeRdata(r) \in Seq(Nat) /\ Fields(r) \in Seq(Nat)
              /\ Answer(query, r) = (e \o Fields(r)) \o EncodeRdata(r)
              /\ Answer(query, r) \in Seq(Nat)
              /\ Len(Answer(query, r)) = Len(e) + 4 + Len(EncodeRdata(r))
<1> DEFINE e == EncodeDomainLabels(query.domain)
           d == EncodeRdata(r)
           f == Fields(r)
           w == Answer(query, r)
<1>1. e \in Seq(Nat)
    BY EncodeDomainLabelsType
<1>2. d \in Seq(Nat) /\ r.ttl \in Nat /\ RecordTypeCode[r.type] \in Nat
    BY EncodableFacts
<1>3. f \in Seq(Nat) /\ Len(f) = 4
  <2> DEFINE c == RecordTypeCode[r.type]
             t == r.ttl
             k == Len(d)
  <2>1. c \in Nat /\ t \in Nat /\ k \in Nat /\ ClassIn \in Nat
      BY <1>2 DEF ClassIn
  <2>2. f = <<c, ClassIn, t, k>>
      BY DEF Fields
  <2> HIDE DEF c, t, k, f
  <2> QED
      BY <2>1, <2>2
<1>4. w = (e \o f) \o d
    BY DEF Answer, Fields
<1> HIDE DEF e, d, f, w
<1>5. (e \o f) \o d \in Seq(Nat) /\ Len((e \o f) \o d) = Len(e) + 4 + Len(d)
  <2>1. e \o f \in Seq(Nat) /\ Len(e \o f) = Len(e) + 4
    <3>1. e \o f \in Seq(Nat) /\ Len(e \o f) = Len(e) + Len(f)
        BY <1>1, <1>3, Concat, Zenon
    <3> QED
        BY <1>3, <3>1
  <2> DEFINE x == e \o f
  <2>2. x \o d \in Seq(Nat) /\ Len(x \o d) = Len(x) + Len(d)
      BY <1>2, <2>1, Concat, Zenon
  <2> QED
      BY <2>1, <2>2
<1>6. w \in Seq(Nat) /\ Len(w) = Len(e) + 4 + Len(d)
    BY <1>4, <1>5, Zenon
<1> QED
    BY <1>1, <1>2, <1>3, <1>4, <1>6 DEF e, d, f, w

\* A reader of an answer finds the name and the record, and the next answer after it.
LEMMA AnswerRead ==
    ASSUME NEW query, query.domain \in Seq(Chars), IsDomainName(query.domain),
           NEW r \in Record, r \in Encodable,
           NEW m \in Seq(Nat), NEW p \in Nat \ {0}, Stands(m, p, Answer(query, r))
    PROVE  /\ p \in 1 .. Len(m) /\ ~ NoAnswerAt(m, p)
           /\ AnswerAt(m, p) = Shown(query.domain, r)
           /\ AfterAnswer(m, p) = p + Len(Answer(query, r))
<1> DEFINE e == EncodeDomainLabels(query.domain)
           d == EncodeRdata(r)
           f == Fields(r)
           w == Answer(query, r)
           k == Len(d)
           a == p + Len(e)
           N == Len(m)
           ls == Labels(query.domain)
<1>1. query.domain \in Seq(Nat)
    BY SeqSubset DEF Chars
<1>2. /\ e \in Seq(Nat) /\ d \in Seq(Nat) /\ f \in Seq(Nat) /\ w = (e \o f) \o d /\ w \in Seq(Nat)
      /\ Len(w) = Len(e) + 4 + k
    BY <1>1, AnswerFacts
<1>3. Len(e) \in Nat /\ k \in Nat /\ N \in Nat /\ a \in Nat
    BY <1>2
<1>4. Len(f) = 4 /\ f[1] = RecordTypeCode[r.type] /\ f[3] = r.ttl /\ f[4] = k
    BY DEF Fields
<1>5. ls \in Readable /\ e = EncodeLabels(ls)
    BY NameLabels DEF EncodeDomainLabels
<1>6. Stands(m, p, e) /\ Stands(m, a, f) /\ Stands(m, a + 4, d) /\ p + Len(w) - 1 <= N
  <2> HIDE DEF e, d, f, k
  <2>1. e \o f \in Seq(Nat) /\ Len(e \o f) = Len(e) + 4
    <3>1. e \o f \in Seq(Nat) /\ Len(e \o f) = Len(e) + Len(f)
        BY <1>2, Concat, Zenon
    <3> QED
        BY <1>4, <3>1
  <2>2. Stands(m, p, (e \o f) \o d)
      BY <1>2
  <2>3. Stands(m, p, e \o f) /\ Stands(m, p + Len(e \o f), d)
      BY <1>2, <2>1, <2>2, StandsParts
  <2>4. Stands(m, p, e) /\ Stands(m, p + Len(e), f)
      BY <1>2, <2>3, StandsParts
  <2>5. p + Len(e \o f) = a + 4
      BY <1>3, <2>1
  <2>6. p + Len(w) - 1 <= N
      BY DEF Stands
  <2> QED
      BY <2>3, <2>4, <2>5, <2>6
<1> HIDE DEF w
<1>7. ReadLabels(m, p) = [labels |-> ls, next |-> a]
  <2> HIDE DEF ls, e
  <2> QED
      BY <1>5, <1>6, ReadEncoded
<1>8. [labels |-> ls, next |-> a] # Malformed
  <2>1. ls \in Seq(Seq(Nat))
      BY <1>5, ReadableFacts
  <2> HIDE DEF ls, a
  <2> QED
      BY <1>3, <2>1, MalformedAssumption DEF Name
<1>9. m[a] = RecordTypeCode[r.type] /\ m[a + 2] = r.ttl /\ m[a + 3] = k
  <2> HIDE DEF f, a, k
  <2>1. \A j \in 1 .. 4 : m[a + j - 1] = f[j]
      BY <1>4, <1>6 DEF Stands
  <2>2. 1 \in 1 .. 4 /\ 3 \in 1 .. 4 /\ 4 \in 1 .. 4 /\ a + 1 - 1 = a /\ a + 3 - 1 = a + 2 /\ a + 4 - 1 = a + 3
      BY <1>3
  <2> QED
      BY <1>4, <2>1, <2>2
<1>10. AfterName(m, p) = a
    BY <1>7 DEF AfterName
<1>11. a + 3 + k <= N /\ a + 3 <= N /\ p \in 1 .. N /\ p + Len(w) = a + 4 + k
  <2> DEFINE z == Len(e)
  <2> HIDE DEF z
  <2>1. a = p + z /\ z \in Nat /\ Len(w) = z + 4 + k
      BY <1>2, <1>3 DEF z
  <2> HIDE DEF a, k, N
  <2>2. p + (z + 4 + k) - 1 <= N
      BY <1>6, <2>1
  <2> QED
      BY <1>3, <2>1, <2>2
<1>12. SubSeq(m, a + 4, a + 3 + k) = d
  <2> DEFINE s == SubSeq(m, a + 4, a + 3 + k)
  <2>1. \A j \in 1 .. k : m[(a + 4) + j - 1] = d[j]
    <3> HIDE DEF a, d
    <3> QED
        BY <1>6 DEF Stands, k
  <2> HIDE DEF a, k, d
  <2>2. \A j \in a + 4 .. a + 3 + k : m[j] \in Nat
      BY <1>3, <1>11 DEF N
  <2>3. a + 4 \in Int /\ a + 3 + k \in Int
      BY <1>3
  <2>4. /\ s \in Seq(Nat)
        /\ Len(s) = IF a + 4 <= a + 3 + k THEN (a + 3 + k) - (a + 4) + 1 ELSE 0
        /\ \A j \in 1 .. (a + 3 + k) - (a + 4) + 1 : s[j] = m[(a + 4) + j - 1]
      BY <2>2, <2>3, SubSeqProperties
  <2>5. (a + 3 + k) - (a + 4) + 1 = k /\ (a + 4 <= a + 3 + k <=> k > 0)
      BY <1>3
  <2> HIDE DEF s
  <2>6. Len(s) = k /\ \A j \in 1 .. k : s[j] = d[j]
      BY <1>3, <2>1, <2>4, <2>5
  <2>7. s = d
      BY <1>2, <2>4, <2>6, SeqEqual DEF k
  <2> QED
      BY <2>7 DEF s
<1>13. ~ NoAnswerAt(m, p)
  <2>1. ~ (N < a + 3) /\ ~ (N < a + 3 + m[a + 3])
    <3> HIDE DEF N, a, k
    <3> QED
        BY <1>3, <1>9, <1>11
  <2> HIDE DEF a, ls
  <2> QED
      BY <1>7, <1>8, <1>10, <2>1 DEF NoAnswerAt
<1>14. AnswerAt(m, p) = Shown(query.domain, r)
  <2>1. ReadLabels(m, p).labels = ls
    <3> HIDE DEF ls
    <3> QED
        BY <1>7
  <2>2. AnswerAt(m, p) = [labels |-> ls, code |-> m[a], ttl |-> m[a + 2],
                          rdata |-> SubSeq(m, a + 4, a + 3 + m[a + 3])]
    <3> HIDE DEF a, ls
    <3> QED
        BY <1>10, <2>1 DEF AnswerAt
  <2> HIDE DEF a, k
  <2> QED
      BY <1>9, <1>12, <2>2 DEF Shown
<1>15. AfterAnswer(m, p) = p + Len(w)
  <2> HIDE DEF a, k
  <2> QED
      BY <1>9, <1>10, <1>11 DEF AfterAnswer
<1> QED
    BY <1>11, <1>13, <1>14, <1>15 DEF w

\* The answers of a response, as a sequence of messages one after the other.
AnswersFor(query, rs) == [i \in 1 .. Len(rs) |-> Answer(query, rs[i])]
ShownFor(domain, rs) == [i \in 1 .. Len(rs) |-> Shown(domain, rs[i])]

\* A reader of answers up to the end of the message finds a record for each of them.
LEMMA ReadAll ==
    ASSUME NEW query, query.domain \in Seq(Chars), IsDomainName(query.domain),
           NEW rs \in Seq(Record \cap Encodable), NEW m \in Seq(Nat), NEW p \in Nat \ {0},
           Stands(m, p, FlattenSeq(AnswersFor(query, rs))),
           p + Len(FlattenSeq(AnswersFor(query, rs))) = Len(m) + 1
    PROVE  ReadAnswers(m, p) = ShownFor(query.domain, rs)
<1> DEFINE n == Len(rs)
           pieces == AnswersFor(query, rs)
           flat == FlattenSeq(pieces)
           shown == ShownFor(query.domain, rs)
           N == Len(m)
           V == {Shown(query.domain, r) : r \in Record}
<1>1. n \in Nat /\ N \in Nat /\ \A i \in 1 .. n : rs[i] \in Record /\ rs[i] \in Encodable
  <2> DEFINE R == Record \cap Encodable
  <2>1. rs \in Seq(R)
      OBVIOUS
  <2> HIDE DEF R
  <2>2. \A i \in 1 .. Len(rs) : rs[i] \in R
      BY <2>1
  <2> QED
      BY <2>1, <2>2 DEF R
<1>2. query.domain \in Seq(Nat)
    BY SeqSubset DEF Chars
<1>3. \A i \in 1 .. n : Answer(query, rs[i]) \in Seq(Nat)
    BY <1>1, <1>2, AnswerFacts
<1>4. pieces \in Seq(Seq(Nat)) /\ Len(pieces) = n /\ \A i \in 1 .. n : pieces[i] = Answer(query, rs[i])
  <2> HIDE DEF n
  <2> QED
      BY <1>1, <1>3 DEF AnswersFor, n
<1>5. shown \in Seq(V) /\ Len(shown) = n /\ \A i \in 1 .. n : shown[i] = Shown(query.domain, rs[i])
  <2>1. \A i \in 1 .. n : Shown(query.domain, rs[i]) \in V
      BY <1>1
  <2> HIDE DEF n, V
  <2> QED
      BY <1>1, <2>1 DEF ShownFor, n
<1>6. flat \in Seq(Nat) /\ Len(flat) \in Nat
  <2>1. flat \in Seq(Nat)
      BY <1>4, FlattenType
  <2> QED
      BY <2>1
<1>7. PICK off \in [0 .. n -> Nat] : Layout(off, pieces, flat)
    BY <1>4, FlattenLayout
<1>8. /\ off[0] = 0 /\ off[n] = Len(flat)
      /\ \A i \in 1 .. n : off[i] = off[i - 1] + Len(pieces[i]) /\ off[i] <= Len(flat)
      /\ \A i \in 1 .. n : \A j \in 1 .. Len(pieces[i]) : flat[off[i - 1] + j] = pieces[i][j]
    BY <1>4, <1>7 DEF Layout
<1>9. Stands(m, p, flat) /\ p + Len(flat) = N + 1
    OBVIOUS
<1> HIDE DEF n, pieces, flat, shown, N, V
<1>10. \A i \in 0 .. n : off[i] \in Nat
    BY <1>7
<1> DEFINE Rest(k) == SubSeq(shown, k + 1, n)
           Good(k) == ReadAnswers(m, p + off[k]) = Rest(k)
           T == {j \in Nat : j <= n => Good(n - j)}
<1>11. Good(n)
  <2>1. p + off[n] = N + 1 /\ N + 1 \in 1 .. N + 1
      BY <1>1, <1>8, <1>9
  <2>2. ReadAnswers(m, N + 1) = <<>>
      BY <2>1, ReadAnswersStep DEF N
  <2>3. Rest(n) = <<>>
    <3>1. n + 1 \in Int /\ n \in Int /\ n < n + 1
        BY <1>1
    <3> QED
        BY <3>1, SubSeqEmpty
  <2> HIDE DEF Rest
  <2> QED
      BY <2>1, <2>2, <2>3
<1>12. ASSUME NEW i \in 1 .. n, Good(i) PROVE Good(i - 1)
  <2> DEFINE k == i - 1
             r == rs[i]
             w == Answer(query, r)
             q == p + off[k]
  <2>1. k \in 0 .. n /\ k \in Nat /\ k + 1 = i /\ i \in 0 .. n
      BY <1>1
  <2>2. r \in Record /\ r \in Encodable /\ w \in Seq(Nat) /\ pieces[i] = w
      BY <1>1, <1>3, <1>4
  <2> HIDE DEF r, k
  <2>3. off[i] = off[k] + Len(w) /\ off[i] <= Len(flat) /\ off[k] \in Nat /\ Len(w) \in Nat
    <3>1. off[i] = off[k] + Len(w) /\ off[i] <= Len(flat)
        BY <1>8, <2>2 DEF k
    <3>2. off[k] \in Nat
        BY <1>10, <2>1
    <3>3. Len(w) \in Nat
      <4> HIDE DEF w
      <4> QED
          BY <2>2
    <3> QED
        BY <3>1, <3>2, <3>3
  <2>4. \A j \in 1 .. Len(w) : flat[off[k] + j] = w[j]
      BY <1>8, <2>2 DEF k
  <2> HIDE DEF w
  <2>5. Stands(m, q, w)
      BY <1>6, <1>9, <2>2, <2>3, <2>4, StandsWithin
  <2>6. q \in Nat \ {0} /\ q + Len(w) = p + off[i]
      BY <2>3
  <2> HIDE DEF q
  <2>7. /\ q \in 1 .. N /\ ~ NoAnswerAt(m, q) /\ AnswerAt(m, q) = Shown(query.domain, r)
        /\ AfterAnswer(m, q) = q + Len(w)
      BY <2>2, <2>5, <2>6, AnswerRead DEF w, N
  <2>8. ReadAnswers(m, q) = <<AnswerAt(m, q)>> \o ReadAnswers(m, AfterAnswer(m, q))
    <3>1. q \in 1 .. N + 1 /\ q # N + 1
      <4>1. \A x, y \in Nat : x \in 1 .. y => x \in 1 .. y + 1 /\ x # y + 1
          OBVIOUS
      <4> QED
          BY <1>1, <2>6, <2>7, <4>1
    <3> QED
        BY <2>7, <3>1, ReadAnswersStep DEF N
  <2>9. ReadAnswers(m, q) = <<Shown(query.domain, r)>> \o Rest(i)
    <3> HIDE DEF Rest
    <3> QED
        BY <1>12, <2>6, <2>7, <2>8
  <2>10. Rest(k) = <<shown[i]>> \o Rest(i)
    <3>1. k + 1 \in 1 .. Len(shown) /\ n \in k + 1 .. Len(shown)
        BY <1>1, <1>5, <2>1
    <3>2. SubSeq(shown, k + 1, n) = <<shown[k + 1]>> \o SubSeq(shown, (k + 1) + 1, n)
        BY <1>5, <3>1, SubSeqRecursiveFirst
    <3> QED
        BY <2>1, <3>2
  <2>11. shown[i] = Shown(query.domain, r)
      BY <1>5 DEF r
  <2>12. Good(k)
    <3> HIDE DEF Rest
    <3> QED
        BY <2>9, <2>10, <2>11 DEF q
  <2> HIDE DEF Good
  <2> QED
      BY <2>12 DEF k
<1> HIDE DEF Good
<1>13. 0 \in T
  <2>1. n - 0 = n
      BY <1>1
  <2> QED
      BY <1>11, <2>1
<1>14. ASSUME NEW j \in Nat, j \in T PROVE j + 1 \in T
  <2> SUFFICES ASSUME j + 1 <= n PROVE Good(n - (j + 1))
      OBVIOUS
  <2>1. n - j \in 1 .. n /\ (n - j) - 1 = n - (j + 1) /\ j <= n
      BY <1>1
  <2>2. Good(n - j)
      BY <1>14, <2>1
  <2> QED
      BY <1>12, <2>1, <2>2
<1>15. Nat \subseteq T
  <2> HIDE DEF T
  <2> QED
      BY <1>13, <1>14, SetInduction
<1>16. Good(0)
  <2>1. n \in T /\ n - n = 0
    <3> HIDE DEF T
    <3> QED
        BY <1>1, <1>15
  <2> QED
      BY <1>1, <2>1
<1>17. Rest(0) = shown
  <2>1. 0 + 1 = 1
      OBVIOUS
  <2> QED
      BY <1>5, <2>1, SubSeqFull
<1>18. p + off[0] = p
    BY <1>8
<1> HIDE DEF Rest
<1> QED
    BY <1>16, <1>17, <1>18 DEF Good, shown

\* What parse_query makes of a message that has a header and one question.
LEMMA ParseSteps ==
    ASSUME NEW m \in Seq(Nat)
    PROVE  LET name == ReadLabels(m, HeaderCells + 1)
           IN ParseQuery(m) =
                IF Len(m) < HeaderCells \/ m[3] # 1 THEN Malformed
                ELSE IF name = Malformed \/ Len(m) < name.next + 1 \/ ~ IsDomainName(Join(name.labels))
                THEN Malformed
                ELSE [id |-> m[1], domain |-> Join(name.labels),
                      qtype |-> m[name.next], qclass |-> m[name.next + 1]]
<1> DEFINE name == ReadLabels(m, HeaderCells + 1)
<1>1. CASE Len(m) < HeaderCells
    BY <1>1 DEF ParseQuery
<1>2. CASE ~ (Len(m) < HeaderCells)
  <2>1. HeaderCells + 1 \in 1 .. Len(m) + 1
      BY <1>2 DEF HeaderCells
  <2>2. name \in ReadNames(m) \cup {Malformed}
      BY <2>1, ReadLabelsStep
  <2>3. ReadNames(m) \subseteq Name
    <3>1. Readable \subseteq Seq(Seq(Nat)) /\ 2 .. Len(m) + 1 \subseteq Nat
        BY ReadableFacts
    <3> QED
        BY <3>1 DEF ReadNames, Name
  <2>4. name \in Name \cup {Malformed}
      BY <2>2, <2>3
  <2> HIDE DEF name
  <2> QED
      BY <1>2, <2>4 DEF ParseQuery, name
<1> QED
    BY <1>1, <1>2

\* A query that parses has the identifier of the message and asks for a name.
LEMMA ParsedQuery ==
    ASSUME NEW m \in Seq(Nat), ParseQuery(m) # Malformed
    PROVE  LET q == ParseQuery(m)
           IN /\ q.id = m[1] /\ q.id \in Nat /\ q.domain \in Seq(Chars) /\ IsDomainName(q.domain)
              /\ q.qtype \in Nat /\ q.qclass \in Nat
<1> DEFINE name == ReadLabels(m, HeaderCells + 1)
           ls == name.labels
           next == name.next
           N == Len(m)
<1>1. N \in Nat /\ \A i \in 1 .. N : m[i] \in Nat
    OBVIOUS
<1>2. /\ ~ (N < HeaderCells) /\ name # Malformed /\ ~ (N < next + 1) /\ IsDomainName(Join(ls))
      /\ ParseQuery(m) = [id |-> m[1], domain |-> Join(ls), qtype |-> m[next], qclass |-> m[next + 1]]
    BY ParseSteps
<1> HIDE DEF N
<1>3. HeaderCells + 1 \in 1 .. N + 1 /\ N >= 6
    BY <1>1, <1>2 DEF HeaderCells
<1>4. ls \in Readable /\ next \in HeaderCells + 2 .. N + 1
    BY <1>2, <1>3, ReadLabelsAfter DEF N, HeaderCells
<1> HIDE DEF ls, next, name
<1>5. Join(ls) \in Seq(Chars)
  <2>1. Dot \in Chars /\ ls \in Seq(Seq(Chars))
      BY <1>4, ReadableFacts DEF Chars, Dot, NotUtf8
  <2> QED
      BY <2>1, JoinType
<1>6. 1 \in 1 .. N /\ next \in 1 .. N /\ next + 1 \in 1 .. N
    BY <1>1, <1>2, <1>3, <1>4 DEF HeaderCells
<1>7. m[1] \in Nat /\ m[next] \in Nat /\ m[next + 1] \in Nat
    BY <1>1, <1>6
<1> DEFINE j == Join(ls)
<1> HIDE DEF j
<1> QED
    BY <1>2, <1>5, <1>7 DEF j

\* build_response writes what a reader of the protocol finds in it: the identifier,
\* the name asked for, and each matching record that has an encoding, in order.
THEOREM ResponseReadsBack ==
    ASSUME NEW query, query.id \in Nat, query.domain \in Seq(Chars), IsDomainName(query.domain),
           query.qtype \in Nat, query.qclass \in Nat,
           NEW exists \in BOOLEAN, NEW matching \in Seq(Record)
    PROVE  LET reply == BuildResponse(query, exists, matching)
               kept == Keep(matching, Encodable)
               question == ReadLabels(reply, HeaderCells + 1)
           IN /\ reply[1] = query.id /\ reply[3] = 1 /\ reply[4] = Len(kept)
              /\ reply[2] = Authoritative + (IF exists THEN 0 ELSE RcodeNxdomain)
              /\ question.labels = Labels(query.domain) /\ Join(question.labels) = query.domain
              /\ reply[question.next] = query.qtype /\ reply[question.next + 1] = query.qclass
              /\ ReadAnswers(reply, question.next + 2) = ShownFor(query.domain, kept)
<1> DEFINE reply == BuildResponse(query, exists, matching)
           kept == Keep(matching, Encodable)
           flags == Authoritative + (IF exists THEN 0 ELSE RcodeNxdomain)
           h == <<query.id, flags, 1, Len(kept), 0, 0>>
           ls == Labels(query.domain)
           e == EncodeDomainLabels(query.domain)
           c == <<query.qtype, query.qclass>>
           f == FlattenSeq(AnswersFor(query, kept))
<1>1. kept \in Seq(Record \cap Encodable) /\ Len(kept) \in Nat
  <2>1. kept \in Seq(Record \cap Encodable)
      BY KeepType
  <2> HIDE DEF kept
  <2> QED
      BY <2>1
<1>2. /\ flags \in Nat /\ (exists => flags = Authoritative)
      /\ (~ exists => flags = Authoritative + RcodeNxdomain)
    BY DEF Authoritative, RcodeNxdomain
<1>3. /\ Answers(query, matching) = AnswersFor(query, kept)
      /\ Len(Answers(query, matching)) = Len(kept)
  <2>1. kept \in Seq(Record)
      BY <1>1, SeqSubset
  <2> QED
      BY <1>1, <2>1 DEF Answers, AnswersFor
<1>4. query.domain \in Seq(Nat)
    BY SeqSubset DEF Chars
<1>5. AnswersFor(query, kept) \in Seq(Seq(Nat))
  <2> DEFINE R == Record \cap Encodable
  <2>1. kept \in Seq(R)
      BY <1>1
  <2> HIDE DEF R
  <2>2. \A i \in 1 .. Len(kept) : kept[i] \in R
      BY <2>1
  <2>3. \A i \in 1 .. Len(kept) : Answer(query, kept[i]) \in Seq(Nat)
      BY <1>4, <2>2, AnswerFacts DEF R
  <2> QED
      BY <1>1, <2>3 DEF AnswersFor
<1>6. reply = ((h \o e) \o c) \o f
  <2>1. (IF exists THEN Authoritative ELSE Authoritative + RcodeNxdomain) = flags
      BY <1>2
  <2> HIDE DEF flags, kept
  <2> QED
      BY <1>3, <1>5, <2>1 DEF BuildResponse
<1> HIDE DEF kept, flags
<1>7. /\ h \in Seq(Nat) /\ Len(h) = 6 /\ h[1] = query.id /\ h[2] = flags /\ h[3] = 1 /\ h[4] = Len(kept)
      /\ c \in Seq(Nat) /\ Len(c) = 2
    BY <1>1, <1>2
<1>8. ls \in Readable /\ Join(ls) = query.domain /\ e = EncodeLabels(ls)
    BY NameLabels DEF EncodeDomainLabels
<1>9. e \in Seq(Nat)
    BY <1>4, EncodeDomainLabelsType
<1>10. f \in Seq(Nat)
    BY <1>5, FlattenType
<1> HIDE DEF h, e, c, f, ls
<1> DEFINE a == h \o e
           b == a \o c
<1>11. a \in Seq(Nat) /\ Len(a) = Len(h) + Len(e)
    BY <1>7, <1>9, Concat, Zenon
<1>12. b \in Seq(Nat) /\ Len(b) = Len(a) + Len(c)
    BY <1>7, <1>11, Concat, Zenon
<1>13. b \o f \in Seq(Nat) /\ Len(b \o f) = Len(b) + Len(f)
    BY <1>10, <1>12, Concat, Zenon
<1>14. reply \in Seq(Nat) /\ Len(reply) = Len(b) + Len(f) /\ reply = b \o f
    BY <1>6, <1>13, Zenon
<1> HIDE DEF a, b, reply
<1> DEFINE z == Len(e)
<1>15. z \in Nat /\ Len(f) \in Nat /\ Len(b) = 6 + z + 2 /\ 1 \in Nat \ {0}
  <2>1. z \in Nat /\ Len(f) \in Nat
      BY <1>9, <1>10
  <2>2. Len(b) = (6 + z) + 2
      BY <1>7, <1>11, <1>12
  <2> HIDE DEF z
  <2> QED
      BY <2>1, <2>2
<1>16. Stands(reply, 1, b \o f)
    BY <1>14, WholeStands
<1>17. Stands(reply, 1, b) /\ Stands(reply, 1 + Len(b), f)
    BY <1>10, <1>12, <1>14, <1>15, <1>16, StandsParts
<1>18. Stands(reply, 1, a)
  <2>1. Stands(reply, 1, a \o c)
      BY <1>17 DEF b
  <2> QED
      BY <1>7, <1>11, <1>14, <1>15, <2>1, StandsParts
<1>19. Stands(reply, 1, h) /\ Stands(reply, 1 + Len(h), e)
  <2>1. Stands(reply, 1, h \o e)
      BY <1>18 DEF a
  <2> QED
      BY <1>7, <1>9, <1>14, <1>15, <2>1, StandsParts
<1>20. reply[1] = query.id /\ reply[2] = flags /\ reply[3] = 1 /\ reply[4] = Len(kept)
  <2>1. \A j \in 1 .. 6 : reply[1 + j - 1] = h[j]
      BY <1>7, <1>19 DEF Stands
  <2>2. reply[1] = h[1] /\ reply[2] = h[2] /\ reply[3] = h[3] /\ reply[4] = h[4]
    <3>1. 1 + 1 - 1 = 1 /\ 1 + 2 - 1 = 2 /\ 1 + 3 - 1 = 3 /\ 1 + 4 - 1 = 4
        OBVIOUS
    <3>2. 1 \in 1 .. 6 /\ 2 \in 1 .. 6 /\ 3 \in 1 .. 6 /\ 4 \in 1 .. 6
        OBVIOUS
    <3> QED
        BY <2>1, <3>1, <3>2
  <2> QED
      BY <1>7, <2>2
<1>21. ReadLabels(reply, HeaderCells + 1) = [labels |-> ls, next |-> 7 + z]
  <2>1. HeaderCells + 1 = 7 /\ 7 \in Nat \ {0} /\ 1 + Len(h) = 7
      BY <1>7 DEF HeaderCells
  <2>2. Stands(reply, 7, EncodeLabels(ls))
      BY <1>8, <1>19, <2>1
  <2> QED
      BY <1>8, <1>14, <2>1, <2>2, ReadEncoded
<1> DEFINE question == ReadLabels(reply, HeaderCells + 1)
<1>22. question.labels = ls /\ question.next = 7 + z
  <2> HIDE DEF z
  <2> QED
      BY <1>21
<1>23. reply[question.next] = query.qtype /\ reply[question.next + 1] = query.qclass
  <2>1. Stands(reply, 1 + Len(a), c)
    <3>1. Stands(reply, 1, a \o c)
        BY <1>17 DEF b
    <3> QED
        BY <1>7, <1>11, <1>14, <1>15, <3>1, StandsParts
  <2>2. 1 + Len(a) = 7 + z
    <3> HIDE DEF z
    <3> QED
        BY <1>7, <1>11, <1>15 DEF z
  <2> DEFINE y == 7 + z
  <2>3. Stands(reply, y, c)
      BY <2>1, <2>2
  <2>4. y \in Nat /\ question.next = y
    <3> HIDE DEF z, question
    <3> QED
        BY <1>15, <1>22
  <2> HIDE DEF y, question
  <2>5. \A j \in 1 .. 2 : reply[y + j - 1] = c[j]
      BY <1>7, <2>3 DEF Stands
  <2>6. c[1] = query.qtype /\ c[2] = query.qclass
      BY DEF c
  <2>7. y + 1 - 1 = y /\ y + 2 - 1 = y + 1 /\ 1 \in 1 .. 2 /\ 2 \in 1 .. 2
      BY <2>4
  <2>8. reply[y] = c[1] /\ reply[y + 1] = c[2]
      BY <2>5, <2>7
  <2> QED
      BY <2>4, <2>6, <2>8
<1>24. ReadAnswers(reply, question.next + 2) = ShownFor(query.domain, kept)
  <2>1. question.next + 2 = 1 + Len(b) /\ 1 + Len(b) \in Nat \ {0} /\ 1 + Len(b) + Len(f) = Len(reply) + 1
    <3> HIDE DEF z, question
    <3> QED
        BY <1>14, <1>15, <1>22
  <2> DEFINE q == 1 + Len(b)
  <2>2. q \in Nat \ {0} /\ q + Len(f) = Len(reply) + 1 /\ Stands(reply, q, f) /\ question.next + 2 = q
      BY <1>17, <2>1
  <2> HIDE DEF question, q
  <2>3. ReadAnswers(reply, q) = ShownFor(query.domain, kept)
      BY <1>1, <1>14, <2>2, ReadAll DEF f
  <2> QED
      BY <2>2, <2>3
<1> HIDE DEF question
<1> QED
    BY <1>8, <1>20, <1>22, <1>23, <1>24 DEF question, reply, kept, flags, ls
=============================================================================
