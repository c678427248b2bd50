-------------------------------- MODULE Ntp --------------------------------
(***************************************************************************)
(* The NTP-disciplined clock of a node (crates/binda-core/src/ntp.rs): a   *)
(* pass queries the servers in turn until one answers and stores the       *)
(* offset it computes from the four timestamps of that exchange; readers   *)
(* add the offset to the local clock.  The first pass ends before the node *)
(* starts; a background thread repeats it.                                 *)
(*                                                                         *)
(* Time is counted in milliseconds, of which Units make a second.  The     *)
(* servers are trusted and keep true time.  The local clock is off by      *)
(* skew, which may drift while an exchange is under way.                   *)
(***************************************************************************)
EXTENDS Integers

CONSTANTS
    Servers,    \* number of servers polled (DEFAULT_NTP_SERVERS)
    Units,      \* milliseconds in a second
    Fracs,      \* fractions in a second on the wire (2^32)
    Epoch,      \* NTP_UNIX_EPOCH_DELTA_SECS
    Era,        \* seconds an NTP timestamp can count (2^32)
    Timeout,    \* QUERY_TIMEOUT
    Resolve,    \* time to_socket_addrs may take, which the system decides
    Skews,      \* errors the local clock may have: it is never before 1970
    Start,      \* true time when the node starts
    MaxTime,    \* bound: the last true time considered
    MaxDrift    \* bound: drift while one offset is in use

ASSUME NtpNumbers ==
    /\ {Servers, Units, Fracs, Era, Timeout} \subseteq Nat \ {0}
    /\ {Epoch, Resolve, Start, MaxTime, MaxDrift} \subseteq Nat
    /\ Units <= Fracs /\ Skews \subseteq Int /\ \A s \in Skews : Start + s >= 0

VARIABLES
    t,          \* true time
    skew,       \* local clock minus true time
    offset,     \* offset_millis
    synced,     \* synced
    ready,      \* whether the blocking first pass has ended
    stage,      \* what the thread that runs sync_once does next
    server,     \* the server it is at
    t1, t2, t3, \* timestamps of the exchange under way
    began,      \* true times at which that exchange, the look-up of its server
                \* and its pass began, and the drift since
    sample      \* the exchange the offset comes from, for the properties

vars == <<t, skew, offset, synced, ready, stage, server, t1, t2, t3, began, sample>>
exchange == <<t1, t2, t3, began>>

\* A timestamp as it crosses the wire.
WireTime == [secs : 0 .. Era - 1, frac : Nat]

Waiting == stage \in {"asked", "received", "replied"}

TypeOK ==
    /\ t \in Nat /\ skew \in Int /\ offset \in Int
    /\ synced \in BOOLEAN /\ ready \in BOOLEAN
    /\ stage \in {"idle", "query", "asked", "received", "replied", "stored"}
    /\ server \in 1 .. Servers + 1
    /\ t1 \in Nat /\ t2 \in WireTime /\ t3 \in WireTime
    /\ began \in [exchange : Nat, lookup : Nat, pass : Nat, drift : Nat]
    /\ sample \in [known : BOOLEAN, trip : Nat, drift : Nat, sameEra : BOOLEAN]

-----------------------------------------------------------------------------
(* Readings and conversions                                                *)

AtLeastZero(x) == IF x < 0 THEN 0 ELSE x

\* SystemTime::now().duration_since(UNIX_EPOCH).unwrap_or_default()
Local == AtLeastZero(t + skew)

\* NtpTimeSource::now_millis
NowMillis == AtLeastZero(Local + offset)

\* Mutant: the seconds are not cut to their width.
MutantWriteNtpTimestamp(x) ==
    [secs |-> x \div Units + Epoch, frac |-> ((x % Units) * Fracs) \div Units]

\* write_ntp_timestamp, as the servers do it: the seconds keep their low bits.
WriteNtpTimestamp(x) ==
    [secs |-> (x \div Units + Epoch) % Era, frac |-> ((x % Units) * Fracs) \div Units]

\* Mutant: the epochs are not converted.
MutantReadNtpTimestamp(w) == w.secs * Units + (w.frac * Units) \div Fracs

\* read_ntp_timestamp: saturating_sub on the seconds
ReadNtpTimestamp(w) == AtLeastZero(w.secs - Epoch) * Units + (w.frac * Units) \div Fracs

\* Integer division truncates towards zero.
Halve(x) == IF x >= 0 THEN x \div 2 ELSE -((-x) \div 2)

\* The offset query_offset_millis returns when the reply is read at t4.
OffsetOf(r1, r2, r3, r4) ==
    Halve((ReadNtpTimestamp(r2) - r1) + (ReadNtpTimestamp(r3) - r4))

-----------------------------------------------------------------------------
(* sync_once and the threads that call it                                  *)

\* NtpTimeSource::spawn: nothing is known yet and the first pass begins.
Init ==
    /\ t = Start /\ skew \in Skews
    /\ offset = 0 /\ synced = FALSE /\ ready = FALSE
    /\ stage = "query" /\ server = 1
    /\ t1 = 0 /\ t2 = WriteNtpTimestamp(0) /\ t3 = WriteNtpTimestamp(0)
    /\ began = [exchange |-> Start, lookup |-> Start, pass |-> Start, drift |-> 0]
    /\ sample = [known |-> FALSE, trip |-> 0, drift |-> 0, sameEra |-> TRUE]

\* The background thread wakes up and begins another pass.
Poll ==
    /\ stage = "idle"
    /\ stage' = "query" /\ server' = 1
    /\ began' = [began EXCEPT !.pass = t, !.lookup = t]
    /\ UNCHANGED <<t, skew, offset, synced, ready, t1, t2, t3, sample>>

\* query_offset_millis, up to the send, once the address is known
Ask ==
    /\ stage = "query" /\ server <= Servers
    /\ stage' = "asked" /\ t1' = Local
    /\ began' = [began EXCEPT !.exchange = t, !.drift = 0]
    /\ UNCHANGED <<t, skew, offset, synced, ready, server, t2, t3, sample>>

\* The server notes when the request arrives, and later when it answers.
ServerReceives ==
    /\ stage = "asked"
    /\ stage' = "received" /\ t2' = WriteNtpTimestamp(t)
    /\ UNCHANGED <<t, skew, offset, synced, ready, server, t1, t3, began, sample>>

ServerReplies ==
    /\ stage = "received"
    /\ stage' = "replied" /\ t3' = WriteNtpTimestamp(t)
    /\ UNCHANGED <<t, skew, offset, synced, ready, server, t1, t2, began, sample>>

\* The reply is read in full and its offset is stored.
TakeReply ==
    /\ stage = "replied"
    /\ offset' = OffsetOf(t1, t2, t3, Local)
    /\ stage' = "stored"
    /\ sample' = [known |-> TRUE, trip |-> t - began.exchange, drift |-> began.drift,
                  sameEra |-> t \div Units + Epoch < Era]
    /\ UNCHANGED <<t, skew, synced, ready, server, exchange>>

\* Mutant: the flag is raised as soon as a server has been asked.
MutantEndPass ==
    /\ stage = "stored" \/ (stage = "query" /\ server > Servers)
    /\ synced' = TRUE
    /\ ready' = TRUE /\ stage' = "idle"
    /\ UNCHANGED <<t, skew, offset, server, exchange, sample>>

\* sync_once returns: a pass that reached a server raises the flag, one that
\* reached none leaves flag and offset alone.
EndPass ==
    /\ stage = "stored" \/ (stage = "query" /\ server > Servers)
    /\ synced' = (synced \/ stage = "stored")
    /\ ready' = TRUE /\ stage' = "idle"
    /\ UNCHANGED <<t, skew, offset, server, exchange, sample>>

\* Mutant: the pass starts over at the first server.
MutantNextServer ==
    /\ stage = "query" \/ Waiting
    /\ server' = IF server = Servers THEN 1 ELSE server + 1
    /\ stage' = "query" /\ began' = [began EXCEPT !.lookup = t]
    /\ UNCHANGED <<t, skew, offset, synced, ready, t1, t2, t3, sample>>

\* query_offset_millis returns an error (no address, no reply within the
\* timeout, a short one) and the next server's turn comes.
NextServer ==
    /\ (stage = "query" /\ server <= Servers) \/ Waiting
    /\ server' = server + 1
    /\ stage' = "query" /\ began' = [began EXCEPT !.lookup = t]
    /\ UNCHANGED <<t, skew, offset, synced, ready, t1, t2, t3, sample>>

\* Time passes: between two passes, while a server's name is looked up, and
\* while its reply is awaited, for no longer than the read timeout.
Tick ==
    /\ t < MaxTime
    /\ \/ stage = "idle"
       \/ stage = "query" /\ server <= Servers /\ t - began.lookup < Resolve
       \/ Waiting /\ t - began.exchange < Timeout
    /\ t' = t + 1
    /\ UNCHANGED <<skew, offset, synced, ready, stage, server, exchange, sample>>

\* The local clock gains or loses.
Drift ==
    /\ sample.drift < MaxDrift /\ began.drift < MaxDrift
    /\ skew' \in Skews \cap {skew - 1, skew + 1}
    /\ sample' = [sample EXCEPT !.drift = @ + 1]
    /\ began' = [began EXCEPT !.drift = @ + 1]
    /\ UNCHANGED <<t, offset, synced, ready, stage, server, t1, t2, t3>>

Next ==
    \/ Poll \/ Ask \/ ServerReceives \/ ServerReplies \/ TakeReply \/ EndPass
    \/ NextServer \/ Tick \/ Drift

Spec == Init /\ [][Next]_vars

-----------------------------------------------------------------------------
(* Properties                                                              *)

Abs(x) == IF x < 0 THEN -x ELSE x

\* Whatever the local clock's error was, a reading is off by at most half the
\* round trip of the exchange the offset comes from, what the clock has drifted
\* since, and the rounding of two wire timestamps and of the halving; until the
\* seconds of an NTP timestamp run over.
OffsetCorrects ==
    sample.known /\ sample.sameEra =>
        2 * Abs(NowMillis - t) <= sample.trip + 2 * sample.drift + 3

\* A reader that finds the flag raised reads an offset that was measured.
SyncedMeansMeasured == synced => sample.known

\* A pass, and with it the start of the node, takes no longer than one timeout
\* for each server ("blocks briefly, bounded by the per-server query timeout"),
\* and what the system takes to look their names up, which no timeout bounds.
PassBounded == stage # "idle" => t - began.pass <= Servers * (Resolve + Timeout)
=============================================================================
