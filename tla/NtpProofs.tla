----------------------------- MODULE NtpProofs -----------------------------
(***************************************************************************)
(* A pass over the NTP servers ends in time, the flag is raised only over  *)
(* an offset that was measured, and a reading is as close to true time as  *)
(* the exchange allows, for any number of servers, any timeout, any width  *)
(* of the timestamps and any error of the local clock.                     *)
(***************************************************************************)
EXTENDS Ntp, TLAPS

\* The longest a server may take: its name is looked up and it does not answer.
Turn == Resolve + Timeout

\* Each server that was tried in this pass has cost it at most one turn.
OnSchedule ==
    /\ began.exchange <= t /\ began.pass <= t /\ began.lookup <= t
    /\ stage = "query" => /\ began.lookup - began.pass <= (server - 1) * Turn
                          /\ t - began.lookup <= Resolve
                          /\ server > Servers => t = began.lookup
    /\ Waiting => /\ server <= Servers
                  /\ began.exchange - began.pass <= (server - 1) * Turn + Resolve
                  /\ t - began.exchange <= Timeout
    /\ stage = "stored" => server <= Servers /\ t - began.pass <= server * Turn

\* An offset waits to be flagged only after it was measured.
StoredMeansMeasured == stage = "stored" => sample.known

\* The local clock reads the year 1970 or later.
ClockAfterEpoch == t >= Start /\ skew \in Skews

\* The server stamped w during the exchange under way.
Stamped(w) == \E x \in began.exchange .. t : w = WriteNtpTimestamp(x)

\* The first timestamp is the start of the exchange by the local clock, but for
\* its drift since, and the server's two lie within the exchange.
ExchangeTimed ==
    /\ Waiting => /\ t1 - began.exchange - skew <= began.drift
                  /\ began.exchange + skew - t1 <= began.drift
    /\ stage \in {"received", "replied"} => Stamped(t2)
    /\ stage = "replied" => Stamped(t3)

\* The offset makes up for the clock's error.
OffsetClose ==
    sample.known /\ sample.sameEra =>
        /\ 2 * (offset + skew) <= sample.trip + 2 * sample.drift + 3
        /\ -(2 * (offset + skew)) <= sample.trip + 2 * sample.drift + 3

AccuracyInv == ClockAfterEpoch /\ ExchangeTimed /\ OffsetClose

IInv == TypeOK /\ OnSchedule /\ StoredMeansMeasured /\ SyncedMeansMeasured

-----------------------------------------------------------------------------
\* The constants are numbers, one by one.
LEMMA Numbers ==
    /\ Servers \in Nat \ {0} /\ Units \in Nat \ {0} /\ Fracs \in Nat \ {0}
    /\ Era \in Nat \ {0} /\ Timeout \in Nat \ {0} /\ Epoch \in Nat /\ Resolve \in Nat
    /\ Start \in Nat /\ Units <= Fracs /\ Skews \subseteq Int
BY NtpNumbers

\* A turn is a time.
LEMMA TurnType == Turn \in Nat /\ Turn = Resolve + Timeout
BY Numbers DEF Turn

\* Division of naturals: quotient and remainder.
LEMMA DivMod ==
    ASSUME NEW a \in Nat, NEW b \in Nat \ {0}
    PROVE  /\ a \div b \in Nat /\ a % b \in Nat /\ a % b \in 0 .. b - 1
           /\ a = (a \div b) * b + (a % b)
OBVIOUS

\* Another server makes the schedule one turn longer.
LEMMA OneMore ==
    ASSUME NEW n \in Int, NEW c \in Nat
    PROVE  /\ n * c \in Int
           /\ n * c = (n - 1) * c + c
OBVIOUS

\* The greater factor has the greater product.
LEMMA ProductMonotone ==
    ASSUME NEW a \in Nat, NEW b \in Nat, NEW c \in Nat, a <= b
    PROVE  a * c <= b * c
<1>1. b - a \in Nat /\ b = a + (b - a)
    OBVIOUS
<1>2. \A d \in Nat : (a + d) * c = a * c + d * c /\ a * c \in Nat /\ d * c \in Nat
    OBVIOUS
<1>3. b * c = a * c + (b - a) * c /\ a * c \in Nat /\ (b - a) * c \in Nat
    BY <1>1, <1>2
<1> QED
    BY <1>3

\* What a server writes fits the wire.
LEMMA WriteType ==
    ASSUME NEW x \in Nat
    PROVE  WriteNtpTimestamp(x) \in WireTime
<1>1. x \div Units \in Nat /\ x % Units \in Nat
    BY Numbers, DivMod
<1>2. (x \div Units + Epoch) % Era \in 0 .. Era - 1
    BY <1>1, Numbers, DivMod
<1>3. (x % Units) * Fracs \in Nat
    BY <1>1, Numbers
<1>4. ((x % Units) * Fracs) \div Units \in Nat
    BY <1>3, Numbers, DivMod
<1> QED
    BY <1>2, <1>4 DEF WriteNtpTimestamp, WireTime

\* What is read from the wire is a time.
LEMMA ReadType ==
    ASSUME NEW w \in WireTime
    PROVE  ReadNtpTimestamp(w) \in Nat
<1>1. w.secs \in 0 .. Era - 1 /\ w.frac \in Nat
    BY DEF WireTime
<1>2. AtLeastZero(w.secs - Epoch) \in Nat
    BY <1>1, Numbers DEF AtLeastZero
<1>3. w.frac * Units \in Nat
    BY <1>1, Numbers
<1>4. (w.frac * Units) \div Fracs \in Nat
    BY <1>3, Numbers, DivMod
<1>5. AtLeastZero(w.secs - Epoch) * Units \in Nat
    BY <1>2, Numbers
<1> QED
    BY <1>4, <1>5 DEF ReadNtpTimestamp

\* The halving of the offset stays within one of half.
LEMMA HalveType ==
    ASSUME NEW x \in Int
    PROVE  /\ Halve(x) \in Int
           /\ 2 * Halve(x) - x \in -1 .. 1
BY DEF Halve

\* The initial state is on schedule.
LEMMA InitIInv == Init => IInv
<1> SUFFICES ASSUME Init PROVE IInv
    OBVIOUS
<1>1. WriteNtpTimestamp(0) \in WireTime
    BY WriteType
<1>2. TypeOK
  <2>1. /\ t \in Nat /\ skew \in Int /\ offset \in Int
        /\ server \in 1 .. Servers + 1 /\ t1 \in Nat
      BY Numbers DEF Init
  <2>2. /\ stage \in {"idle", "query", "asked", "received", "replied", "stored"}
        /\ synced \in BOOLEAN /\ ready \in BOOLEAN
      BY DEF Init
  <2>3. began \in [exchange : Nat, lookup : Nat, pass : Nat, drift : Nat]
      BY Numbers DEF Init
  <2>4. sample \in [known : BOOLEAN, trip : Nat, drift : Nat, sameEra : BOOLEAN]
      BY DEF Init
  <2> QED
      BY <1>1, <2>1, <2>2, <2>3, <2>4 DEF Init, TypeOK
<1>3. OnSchedule
  <2>1. (server - 1) * Turn = 0
      BY TurnType DEF Init
  <2> QED
      BY <2>1, Numbers DEF Init, OnSchedule, Waiting
<1> QED
    BY <1>2, <1>3 DEF Init, IInv, StoredMeansMeasured, SyncedMeansMeasured

\* A reading of the local clock is a time.
LEMMA LocalType == TypeOK => Local \in Nat
BY DEF TypeOK, Local, AtLeastZero

\* Every step keeps the variables in their types.
LEMMA TypeStep == TypeOK /\ OnSchedule /\ [Next]_vars => TypeOK'
<1> SUFFICES ASSUME TypeOK, OnSchedule, [Next]_vars PROVE TypeOK'
    OBVIOUS
<1> USE DEF TypeOK
<1>1. CASE Poll
  <2>1. began' \in [exchange : Nat, lookup : Nat, pass : Nat, drift : Nat]
      BY <1>1 DEF Poll
  <2>2. server' \in 1 .. Servers + 1
      BY <1>1, Numbers DEF Poll
  <2> QED
      BY <1>1, <2>1, <2>2 DEF Poll
<1>2. CASE Ask
    BY <1>2, LocalType DEF Ask
<1>3. CASE ServerReceives
    BY <1>3, WriteType DEF ServerReceives
<1>4. CASE ServerReplies
    BY <1>4, WriteType DEF ServerReplies
<1>5. CASE TakeReply
  <2>1. /\ ReadNtpTimestamp(t2) \in Nat /\ ReadNtpTimestamp(t3) \in Nat
        /\ Local \in Nat
      BY ReadType, LocalType
  <2>2. offset' \in Int
      BY <1>5, <2>1, HalveType DEF TakeReply, OffsetOf
  <2>3. t - began.exchange \in Nat
      BY DEF OnSchedule
  <2>4. sample' \in [known : BOOLEAN, trip : Nat, drift : Nat, sameEra : BOOLEAN]
      BY <1>5, <2>3 DEF TakeReply
  <2> QED
      BY <1>5, <2>2, <2>4 DEF TakeReply, exchange
<1>6. CASE EndPass
    BY <1>6 DEF EndPass, exchange
<1>7. CASE NextServer
    BY <1>7, Numbers DEF NextServer, exchange, OnSchedule, Waiting
<1>8. CASE Tick
    BY <1>8 DEF Tick, exchange
<1>9. CASE Drift
    BY <1>9, Numbers DEF Drift
<1>10. CASE UNCHANGED vars
    BY <1>10 DEF vars
<1> QED
    BY <1>1, <1>2, <1>3, <1>4, <1>5, <1>6, <1>7, <1>8, <1>9, <1>10 DEF Next

\* Every step keeps the pass on schedule.
LEMMA ScheduleStep == TypeOK /\ OnSchedule /\ [Next]_vars => OnSchedule'
<1> SUFFICES ASSUME TypeOK, OnSchedule, [Next]_vars PROVE OnSchedule'
    OBVIOUS
<1> USE Numbers, TurnType DEF TypeOK, OnSchedule, Waiting
<1>0. /\ server * Turn \in Int /\ (server - 1) * Turn \in Int
      /\ server * Turn = (server - 1) * Turn + Turn
      /\ (server + 1) - 1 = server
    BY TurnType, OneMore
<1>1. CASE Poll
  <2>1. (server' - 1) * Turn = 0
      BY <1>1 DEF Poll
  <2> QED
      BY <1>1, <2>1 DEF Poll
<1>2. CASE Ask
    BY <1>2 DEF Ask
<1>3. CASE ServerReceives
    BY <1>3 DEF ServerReceives
<1>4. CASE ServerReplies
    BY <1>4 DEF ServerReplies
<1>5. CASE TakeReply
    BY <1>0, <1>5 DEF TakeReply, exchange
<1>6. CASE EndPass
    BY <1>6 DEF EndPass, exchange
<1>7. CASE NextServer
  <2>1. t - began.pass <= server * Turn
      BY <1>0, <1>7 DEF NextServer
  <2>2. (server' - 1) * Turn = server * Turn
      BY <1>0, <1>7 DEF NextServer
  <2> QED
      BY <1>7, <2>1, <2>2 DEF NextServer, exchange
<1>8. CASE Tick
    BY <1>8 DEF Tick, exchange
<1>9. CASE Drift
    BY <1>9 DEF Drift
<1>10. CASE UNCHANGED vars
    BY <1>10 DEF vars
<1> QED
    BY <1>1, <1>2, <1>3, <1>4, <1>5, <1>6, <1>7, <1>8, <1>9, <1>10 DEF Next

\* Every step keeps a flagged or stored offset a measured one.
LEMMA MeasuredStep ==
    TypeOK /\ StoredMeansMeasured /\ SyncedMeansMeasured /\ [Next]_vars =>
        StoredMeansMeasured' /\ SyncedMeansMeasured'
<1> SUFFICES ASSUME TypeOK, StoredMeansMeasured, SyncedMeansMeasured, [Next]_vars
             PROVE  StoredMeansMeasured' /\ SyncedMeansMeasured'
    OBVIOUS
<1> USE DEF StoredMeansMeasured, SyncedMeansMeasured
<1>1. CASE Poll \/ Ask \/ ServerReceives \/ ServerReplies \/ NextServer \/ Tick
    BY <1>1 DEF Poll, Ask, ServerReceives, ServerReplies, NextServer, Tick, exchange
<1>2. CASE TakeReply
    BY <1>2 DEF TakeReply
<1>3. CASE EndPass
    BY <1>3 DEF EndPass
<1>4. CASE Drift
    BY <1>4 DEF Drift, TypeOK
<1>5. CASE UNCHANGED vars
    BY <1>5 DEF vars
<1> QED
    BY <1>1, <1>2, <1>3, <1>4, <1>5 DEF Next

\* Every reachable state satisfies the inductive invariant.
THEOREM Invariance == Spec => []IInv
<1>1. IInv /\ [Next]_vars => IInv'
    BY TypeStep, ScheduleStep, MeasuredStep DEF IInv
<1> QED
    BY <1>1, InitIInv, PTL DEF Spec

\* The offset, the flag, the stage and the timestamps of sync_once keep their types.
THEOREM TypeCorrect == Spec => []TypeOK
BY Invariance, PTL DEF IInv

\* sync_once raises the flag only over an offset that a server's reply gave.
THEOREM FlagIsHonest == Spec => []SyncedMeansMeasured
BY Invariance, PTL DEF IInv

\* A pass of sync_once, and with it the blocking start in spawn, takes at most
\* one timeout for each server and the look-ups of their names.
THEOREM StartIsBounded == Spec => []PassBounded
<1>1. IInv => PassBounded
  <2> SUFFICES ASSUME IInv, stage # "idle" PROVE t - began.pass <= Servers * Turn
      BY DEF PassBounded, Turn
  <2> USE Numbers, TurnType DEF IInv, TypeOK, OnSchedule, Waiting
  <2>1. server - 1 \in Nat /\ server \in Nat /\ server - 1 <= Servers
      OBVIOUS
  <2>2. /\ (server - 1) * Turn <= Servers * Turn
        /\ server <= Servers => server * Turn <= Servers * Turn
      BY <2>1, ProductMonotone
  <2>3. /\ server * Turn = (server - 1) * Turn + Turn
        /\ server * Turn \in Int /\ (server - 1) * Turn \in Int
        /\ Servers * Turn \in Int
      BY <2>1, OneMore
  <2>4. CASE stage = "query"
      BY <2>2, <2>3, <2>4
  <2>5. CASE Waiting
      BY <2>2, <2>3, <2>5
  <2>6. CASE stage = "stored"
      BY <2>2, <2>3, <2>6
  <2> QED
      BY <2>4, <2>5, <2>6
<1> QED
    BY <1>1, Invariance, PTL

-----------------------------------------------------------------------------
(* The offset                                                              *)

\* What is less when multiplied is less.
LEMMA Cancel ==
    ASSUME NEW a \in Nat, NEW b \in Nat, NEW c \in Nat, a * c < b * c
    PROVE  a < b
<1> SUFFICES ASSUME b <= a PROVE FALSE
    OBVIOUS
<1>1. b * c <= a * c
    BY ProductMonotone
<1>2. a * c \in Nat /\ b * c \in Nat
    OBVIOUS
<1> QED
    BY <1>1, <1>2

\* An earlier time has no later second.
LEMMA DivMonotone ==
    ASSUME NEW a \in Nat, NEW b \in Nat, NEW c \in Nat \ {0}, a <= b
    PROVE  a \div c <= b \div c
<1> DEFINE q == a \div c  p == b \div c
<1>1. /\ q \in Nat /\ a % c \in 0 .. c - 1 /\ a = q * c + (a % c)
      /\ p \in Nat /\ b % c \in 0 .. c - 1 /\ b = p * c + (b % c)
    BY DivMod
<1> HIDE DEF q, p
<1>2. /\ q * c \in Nat /\ (p + 1) * c \in Nat /\ p * c \in Nat
      /\ (p + 1) * c = p * c + c
    BY <1>1
<1>3. q * c < (p + 1) * c
    BY <1>1, <1>2
<1>4. q < p + 1
    BY <1>1, <1>3, Cancel
<1> QED
    BY <1>1, <1>4 DEF q, p

\* A quotient is the greatest multiple below.
LEMMA DivBounds ==
    ASSUME NEW a \in Nat, NEW b \in Nat \ {0}
    PROVE  /\ a \div b \in Nat
           /\ (a \div b) * b <= a /\ a < (a \div b) * b + b
<1> DEFINE q == a \div b
<1>1. q \in Nat /\ a % b \in 0 .. b - 1 /\ a = q * b + (a % b)
    BY DivMod
<1> HIDE DEF q
<1>2. q * b \in Nat
    BY <1>1
<1>3. q \in Nat /\ q * b <= a /\ a < q * b + b
    BY <1>1, <1>2
<1> QED
    BY <1>3 DEF q

\* A remainder, scaled from u to f parts and back, loses at most one.
LEMMA ScaleAndBack ==
    ASSUME NEW u \in Nat \ {0}, NEW f \in Nat \ {0}, u <= f, NEW r \in Nat
    PROVE  (((r * f) \div u) * u) \div f \in (r - 1) .. r
<1> DEFINE q == (r * f) \div u  m == (q * u) \div f
<1>1. r * f \in Nat
    OBVIOUS
<1>2. q \in Nat /\ q * u <= r * f /\ r * f < q * u + u
    BY <1>1, DivBounds
<1> HIDE DEF q
<1>3. q * u \in Nat
    BY <1>2
<1>4. m \in Nat /\ m * f <= q * u /\ q * u < m * f + f
    BY <1>3, DivBounds
<1> HIDE DEF m
<1>5. /\ m * f \in Nat /\ (m + 2) * f \in Nat /\ (m + 2) * f = m * f + f + f
      /\ (r + 1) * f \in Nat /\ (r + 1) * f = r * f + f
    BY <1>4
<1>6. r * f < (m + 2) * f
    BY <1>1, <1>2, <1>3, <1>4, <1>5
<1>7. m * f < (r + 1) * f
    BY <1>1, <1>2, <1>3, <1>4, <1>5
<1>8. r < m + 2 /\ m < r + 1
    BY <1>4, <1>6, <1>7, Cancel
<1>9. m \in (r - 1) .. r
    BY <1>4, <1>8
<1> QED
    BY <1>9 DEF m, q

\* A time before the era ends survives the wire but for one unit of rounding.
LEMMA RoundTrip ==
    ASSUME NEW x \in Nat, x \div Units + Epoch < Era
    PROVE  ReadNtpTimestamp(WriteNtpTimestamp(x)) \in (x - 1) .. x
<1> DEFINE d == x \div Units  r == x % Units
<1>1. d \in Nat /\ r \in Nat /\ x = d * Units + r
    BY Numbers, DivMod
<1>2. d + Epoch \in 0 .. Era - 1 /\ d + Epoch < Era
    BY <1>1, Numbers
<1> HIDE DEF d, r
<1>3. (d + Epoch) % Era = d + Epoch
    BY <1>2, Numbers
<1>4. AtLeastZero((d + Epoch) - Epoch) = d
    BY <1>1, Numbers DEF AtLeastZero
<1>5. (((r * Fracs) \div Units) * Units) \div Fracs \in (r - 1) .. r
    BY <1>1, Numbers, ScaleAndBack
<1>6. WriteNtpTimestamp(x) = [secs |-> d + Epoch, frac |-> (r * Fracs) \div Units]
    BY <1>3 DEF WriteNtpTimestamp, d, r
<1>7. ReadNtpTimestamp(WriteNtpTimestamp(x))
          = d * Units + (((r * Fracs) \div Units) * Units) \div Fracs
    BY <1>4, <1>6 DEF ReadNtpTimestamp
<1>8. d * Units \in Nat
    BY <1>1, Numbers
<1> QED
    BY <1>1, <1>5, <1>7, <1>8

\* The local clock never reads a time before 1970, so nothing is cut off.
LEMMA LocalIsSkewed == TypeOK /\ ClockAfterEpoch => Local = t + skew
BY NtpNumbers, Numbers DEF TypeOK, ClockAfterEpoch, Local, AtLeastZero

\* A server's timestamp, read back, is a time of the exchange but for rounding.
LEMMA StampReads ==
    ASSUME TypeOK, NEW w, Stamped(w), t \div Units + Epoch < Era
    PROVE  /\ ReadNtpTimestamp(w) \in Int
           /\ began.exchange - 1 <= ReadNtpTimestamp(w) /\ ReadNtpTimestamp(w) <= t
<1>1. PICK x \in began.exchange .. t : w = WriteNtpTimestamp(x)
    BY DEF Stamped
<1>2. x \in Nat /\ x <= t /\ began.exchange <= x /\ t \in Nat /\ began.exchange \in Nat
    BY <1>1 DEF TypeOK
<1>3. x \div Units \in Nat /\ t \div Units \in Nat
    BY <1>2, Numbers, DivMod
<1>4. x \div Units <= t \div Units
    BY <1>2, Numbers, DivMonotone
<1>5. x \div Units + Epoch < Era
    BY <1>3, <1>4, Numbers
<1>6. ReadNtpTimestamp(w) \in (x - 1) .. x
    BY <1>1, <1>2, <1>5, RoundTrip
<1> QED
    BY <1>2, <1>6

\* The clocks of every step stay after 1970.
LEMMA EpochStep == TypeOK /\ ClockAfterEpoch /\ [Next]_vars => ClockAfterEpoch'
BY Numbers DEF TypeOK, ClockAfterEpoch, Next, Poll, Ask, ServerReceives, ServerReplies,
    TakeReply, EndPass, NextServer, Tick, Drift, exchange, vars

\* Every step keeps the timestamps within the exchange they belong to.
LEMMA TimedStep ==
    TypeOK /\ OnSchedule /\ ClockAfterEpoch /\ ExchangeTimed /\ [Next]_vars =>
        ExchangeTimed'
<1> SUFFICES ASSUME TypeOK, OnSchedule, ClockAfterEpoch, ExchangeTimed, [Next]_vars
             PROVE  ExchangeTimed'
    OBVIOUS
<1>0. began.exchange \in Nat /\ began.drift \in Nat /\ t \in Nat /\ began.exchange <= t
    BY DEF TypeOK, OnSchedule
<1>1. CASE Poll
    BY <1>1 DEF Poll, ExchangeTimed, Waiting
<1>2. CASE Ask
  <2>1. t1' = t + skew /\ t + skew \in Int
      BY <1>2, LocalIsSkewed DEF Ask, TypeOK
  <2>2. began'.exchange = t /\ began'.drift = 0 /\ skew' = skew /\ stage' = "asked"
      BY <1>2 DEF Ask, TypeOK
  <2> QED
      BY <2>1, <2>2 DEF ExchangeTimed, TypeOK
<1>3. CASE ServerReceives
  <2>1. t \in began.exchange .. t
      BY <1>0
  <2>2. Stamped(t2)'
      BY <1>3, <2>1 DEF ServerReceives, Stamped
  <2> QED
      BY <1>3, <2>2 DEF ServerReceives, ExchangeTimed, Waiting
<1>4. CASE ServerReplies
  <2>1. t \in began.exchange .. t
      BY <1>0
  <2>2. Stamped(t3)' /\ Stamped(t2)'
      BY <1>4, <2>1 DEF ServerReplies, Stamped, ExchangeTimed
  <2> QED
      BY <1>4, <2>2 DEF ServerReplies, ExchangeTimed, Waiting
<1>5. CASE TakeReply
    BY <1>5 DEF TakeReply, ExchangeTimed, Waiting
<1>6. CASE EndPass
    BY <1>6 DEF EndPass, ExchangeTimed, Waiting
<1>7. CASE NextServer
    BY <1>7 DEF NextServer, ExchangeTimed, Waiting
<1>8. CASE Tick
  <2>1. began.exchange .. t \subseteq began'.exchange .. t'
      BY <1>0, <1>8 DEF Tick, exchange
  <2>2. (Stamped(t2) => Stamped(t2)') /\ (Stamped(t3) => Stamped(t3)')
      BY <1>8, <2>1 DEF Tick, exchange, Stamped
  <2> QED
      BY <1>8, <2>2 DEF Tick, exchange, ExchangeTimed, Waiting
<1>9. CASE Drift
  <2>1. began'.exchange = began.exchange /\ began'.drift = began.drift + 1
      BY <1>9 DEF Drift, TypeOK
  <2>2. skew' \in {skew - 1, skew + 1} /\ UNCHANGED <<t, t1, t2, t3, stage>>
      BY <1>9 DEF Drift
  <2>3. (Stamped(t2) => Stamped(t2)') /\ (Stamped(t3) => Stamped(t3)')
      BY <2>1, <2>2 DEF Stamped
  <2>4. Waiting => /\ t1' - began'.exchange - skew' <= began'.drift
                   /\ began'.exchange + skew' - t1' <= began'.drift
      BY <1>0, <2>1, <2>2 DEF ExchangeTimed, TypeOK
  <2> QED
      BY <2>2, <2>3, <2>4 DEF ExchangeTimed, Waiting
<1>10. CASE UNCHANGED vars
    BY <1>10 DEF vars, ExchangeTimed, Stamped, Waiting
<1> QED
    BY <1>1, <1>2, <1>3, <1>4, <1>5, <1>6, <1>7, <1>8, <1>9, <1>10 DEF Next

\* The offset of a reply makes up for the clock's error: the two legs of the
\* exchange bound it from both sides.
LEMMA ReplyCloses ==
    ASSUME TypeOK, OnSchedule, ClockAfterEpoch, ExchangeTimed, TakeReply
    PROVE  OffsetClose'
<1> SUFFICES ASSUME t \div Units + Epoch < Era
             PROVE  /\ 2 * (offset' + skew) <= t - began.exchange + 2 * began.drift + 3
                    /\ -(2 * (offset' + skew)) <= t - began.exchange + 2 * began.drift + 3
    BY DEF TakeReply, OffsetClose
<1> DEFINE b == ReadNtpTimestamp(t2)  c == ReadNtpTimestamp(t3)
           total == (b - t1) + (c - (t + skew))
<1>1. /\ b \in Int /\ began.exchange - 1 <= b /\ b <= t
      /\ c \in Int /\ began.exchange - 1 <= c /\ c <= t
    BY StampReads DEF TakeReply, ExchangeTimed
<1>2. /\ t1 - began.exchange - skew <= began.drift
      /\ began.exchange + skew - t1 <= began.drift
    BY DEF TakeReply, ExchangeTimed, Waiting
<1>3. /\ t \in Nat /\ t1 \in Nat /\ skew \in Int
      /\ began.exchange \in Nat /\ began.drift \in Nat
    BY DEF TypeOK
<1>4. offset' = Halve(total)
    BY LocalIsSkewed DEF TakeReply, OffsetOf
<1> HIDE DEF b, c
<1>5. total \in Int
    BY <1>1, <1>3
<1>6. /\ total + 2 * skew <= t - began.exchange + began.drift
      /\ -(total + 2 * skew) <= t - began.exchange + began.drift + 2
    BY <1>1, <1>2, <1>3
<1> HIDE DEF total
<1>7. Halve(total) \in Int /\ 2 * Halve(total) - total \in -1 .. 1
    BY <1>5, HalveType
<1> QED
    BY <1>3, <1>4, <1>5, <1>6, <1>7

\* Every step keeps the stored offset close.
LEMMA CloseStep ==
    TypeOK /\ OnSchedule /\ AccuracyInv /\ [Next]_vars => OffsetClose'
<1> SUFFICES ASSUME TypeOK, OnSchedule, AccuracyInv, [Next]_vars PROVE OffsetClose'
    OBVIOUS
<1>1. CASE Poll \/ Ask \/ ServerReceives \/ ServerReplies \/ EndPass \/ NextServer
           \/ Tick \/ UNCHANGED vars
  <2>1. UNCHANGED <<offset, skew, sample>>
      BY <1>1 DEF Poll, Ask, ServerReceives, ServerReplies, EndPass, NextServer, Tick, vars
  <2> QED
      BY <2>1 DEF AccuracyInv, OffsetClose
<1>2. CASE TakeReply
    BY <1>2, ReplyCloses DEF AccuracyInv
<1>3. CASE Drift
  <2>1. /\ sample'.known = sample.known /\ sample'.sameEra = sample.sameEra
        /\ sample'.trip = sample.trip /\ sample'.drift = sample.drift + 1
        /\ sample.trip \in Nat /\ sample.drift \in Nat
      BY <1>3 DEF Drift, TypeOK
  <2>2. offset' = offset /\ skew' \in {skew - 1, skew + 1}
      BY <1>3 DEF Drift
  <2> QED
      BY <2>1, <2>2 DEF AccuracyInv, OffsetClose, TypeOK
<1> QED
    BY <1>1, <1>2, <1>3 DEF Next

\* now_millis is off from true time by at most half the round trip of the
\* exchange its offset comes from, the drift since and the rounding, until the
\* seconds of an NTP timestamp run over.
THEOREM ReadingsAreAccurate == Spec => []OffsetCorrects
<1>1. Init => AccuracyInv
  <2>1. Init => ClockAfterEpoch
      BY Numbers DEF Init, ClockAfterEpoch
  <2> QED
      BY <2>1 DEF Init, AccuracyInv, ExchangeTimed, OffsetClose, Waiting
<1>2. IInv /\ AccuracyInv /\ [Next]_vars => AccuracyInv'
    BY EpochStep, TimedStep, CloseStep DEF IInv, AccuracyInv
<1>3. IInv /\ AccuracyInv => OffsetCorrects
  <2> SUFFICES ASSUME TypeOK, AccuracyInv, sample.known, sample.sameEra
               PROVE  2 * Abs(NowMillis - t) <= sample.trip + 2 * sample.drift + 3
      BY DEF IInv, OffsetCorrects
  <2>1. /\ 2 * (offset + skew) <= sample.trip + 2 * sample.drift + 3
        /\ -(2 * (offset + skew)) <= sample.trip + 2 * sample.drift + 3
      BY DEF AccuracyInv, OffsetClose
  <2>2. NowMillis = AtLeastZero(t + skew + offset)
      BY LocalIsSkewed DEF NowMillis, AccuracyInv
  <2>3. t \in Nat /\ skew \in Int /\ offset \in Int
        /\ sample.trip \in Nat /\ sample.drift \in Nat
      BY DEF TypeOK
  <2> QED
      BY <2>1, <2>2, <2>3 DEF AtLeastZero, Abs
<1> QED
    BY <1>1, <1>2, <1>3, Invariance, PTL DEF Spec
=============================================================================
