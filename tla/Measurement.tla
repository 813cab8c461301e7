----------------------------- MODULE Measurement -----------------------------
(***************************************************************************)
(* From timestamps to results: the times of a packet as the two hosts read *)
(* them off their clocks, on their way through NtpTimestamps into          *)
(* PacketResults (message.rs, data_model.rs), and the statistics that      *)
(* calculate_session_results makes of them (twamp_light.rs).               *)
(*                                                                         *)
(* A packet is answered before the next is sent; TwampLight has packets    *)
(* overlap.  Time is counted in nanoseconds of the sender's clock.  What   *)
(* the code keeps as a quotient is kept as its numerator here: of n        *)
(* samples, n times the average, twice the median and n^3 times the        *)
(* variance.                                                               *)
(***************************************************************************)
EXTENDS TestSession, NtpTime, FiniteSets

CONSTANTS
    Offsets,     \* what the reflector's clock may be ahead
    Starts,      \* times at which a test may start
    PacketGap,   \* time from one packet to the next
    Trips,       \* <<way out, time at the reflector, way back>>
    MaxSent      \* bound on the packets sent

ASSUME TripsAssumption ==
    /\ Offsets \subseteq Int /\ Starts \subseteq Nat
    /\ Trips \subseteq Nat \X Nat \X Nat
    /\ PacketGap \in Nat /\ MaxSent \in Nat
    /\ \A start \in Starts, offset \in Offsets : start + offset >= 0
ASSUME NoTripAssumption == None \notin Trips

\* What is reported of a sample: avg, std_dev, ... are options, None together.
Delay == [avg : Int, min : Int, max : Int, std_dev : Int, median : Int, low : Int,
          high : Int]

ASSUME NoValueAssumption == None \notin DateTime /\ None \notin Delay

\* There are not more packets than a u32 can number, and the seconds of both
\* clocks do not run out before the last answer is back.
ASSUME RangeAssumption ==
    /\ MaxSent <= Word
    /\ \A s \in Starts, o \in Offsets, trip \in Trips :
         LET last == s + MaxSent * PacketGap + trip[1] + trip[2] + trip[3]
                        + NSECS_CONVERSION
         IN  /\ last < NSECS_CONVERSION * Seconds
             /\ last + o < NSECS_CONVERSION * Seconds

VARIABLES
    offset,   \* of the reflector's clock
    start,    \* time at which the first packet was sent
    session,  \* the session and its PacketResults
    report,   \* NetworkStatistics, or None while the test runs
    trips     \* what really happened to each packet, for the properties

vars == <<offset, start, session, report, trips>>

Init ==
    /\ offset \in Offsets /\ start \in Starts
    /\ session = NewSession /\ report = None /\ trips = <<>>

-----------------------------------------------------------------------------
(* The packets.                                                            *)

\* A time that was carried in a packet, as the sender reads it there.
Carried(i) == try_from(from_datetime(from_timespec(i)))

\* The k-th packet leaves.
SentAt(k) == start + (k - 1) * PacketGap

Sent == Len(session.results)

\* SenderMessage::packet_results with all fields: nothing of the reflection is
\* known yet.
SentResults(seq, t1) ==
    [sender_seq |-> seq, reflector_seq |-> None, t1 |-> t1,
     t2 |-> None, t3 |-> None, t4 |-> None]

\* create_tx_callback: t1 is the time before sendmsg, by way of a SenderMessage.
TxCallback ==
    /\ report = None /\ Sent < MaxSent
    /\ session' = add_to_sent(session,
          SentResults(session.seq_number, Carried(SentAt(Sent + 1))))
    /\ trips' = Append(trips, None)
    /\ UNCHANGED <<offset, start, report>>

\* create_tx_correct_callback: the kernel's time replaces t1.
TxCorrectCallback ==
    /\ report = None /\ session.last_updated < Sent
    /\ session' = update_tx_timestamps(session,
          <<from_timespec(SentAt(session.last_updated + 1))>>)
    /\ UNCHANGED <<offset, start, report, trips>>

\* ReflectedMessage::packet_results, and t4 from the sender's own clock: t2 and
\* t3 are of the reflector's clock and were carried in the packet.  The reflector
\* has counted the packets before.
RxCallback(trip) ==
    /\ report = None /\ Sent > 0 /\ trips[Sent] = None
    /\ LET at == SentAt(Sent) + trip[1]
       IN  session' = add_to_received(session,
              [sender_seq |-> Sent - 1,
               reflector_seq |-> Cardinality({k \in 1 .. Sent : trips[k] # None}),
               t2 |-> Carried(at + offset),
               t3 |-> Carried(at + trip[2] + offset),
               t4 |-> from_timespec(at + trip[2] + trip[3])])
    /\ trips' = [trips EXCEPT ![Sent] = trip]
    /\ UNCHANGED <<offset, start, report>>

-----------------------------------------------------------------------------
(* The statistics.                                                         *)

\* The elements of a sequence at some places, in order: filter.
At(seq, places) == Arranged(seq, places, [k \in places |-> k])

\* The packets that were answered.
Answered(packets) ==
    At(packets, {k \in DOMAIN packets : packets[k].t2 # None /\ packets[k].t3 # None})

calculate_rtt(p) == sub(p.t4, p.t1).duration
calculate_owd_forward(p) == as_nanos(sub(p.t2, p.t1))
calculate_owd_backward(p) == as_nanos(sub(p.t4, p.t3))
calculate_rpd(p) == sub(p.t3, p.t2).duration

\* The sums of a sample up to each of its elements.
Sums(v) ==
    LET sum[k \in 0 .. Len(v)] == IF k = 0 THEN 0 ELSE sum[k - 1] + v[k]
    IN  sum

Sum(v) == Sums(v)[Len(v)]

Sorted(v) == Arranged(v, DOMAIN v, v)

\* Mutant: the delays are sorted before jitter is taken of them.
Jitter_sorted(owd) ==
    LET v == Sorted(owd) IN [k \in 1 .. Len(v) - 1 |-> Abs(v[k + 1] - v[k])]

\* What two successive one-way delays differ by.
Jitter(owd) == [k \in 1 .. Len(owd) - 1 |-> Abs(owd[k + 1] - owd[k])]

\* Twice the median of a sorted sample.
median(v) ==
    LET mid == Len(v) \div 2
    IN  IF Len(v) % 2 = 0 THEN v[mid] + v[mid + 1] ELSE 2 * v[mid + 1]

\* Mutant: the rank of a percentile is that of its complement.
percentile_from_above(v, percent) ==
    LET idx == (2 * percent * (Len(v) - 1) + 100) \div 200
    IN  v[Len(v) - idx]

percentile(v, percent) ==
    LET idx == (2 * percent * (Len(v) - 1) + 100) \div 200
    IN  v[idx + 1]

Square(n) == n * n

\* n^3 times the variance: the average is over all packets that were answered.
calculate_std_dev(v, total_packets, sum) ==
    Sum([k \in DOMAIN v |-> Square(total_packets * v[k] - sum)])

\* The seven numbers reported of a sample, all of them None without one.  The sum
\* is taken before the sample is sorted.
Summary(sample, total_packets) ==
    LET v == Sorted(sample)
    IN  IF sample = <<>> THEN None
        ELSE [avg |-> Sum(sample), min |-> Min(ToSet(v)), max |-> Max(ToSet(v)),
              std_dev |-> calculate_std_dev(v, total_packets, Sum(sample)),
              median |-> median(v), low |-> percentile(v, 25),
              high |-> percentile(v, 75)]

\* Average and deviation of jitter, None with less than two packets.
JitterSummary(v) ==
    IF v = <<>> THEN None
    ELSE [avg |-> Sum(v), std_dev |-> calculate_std_dev(v, Len(v), Sum(v))]

\* The statistics of one session.
NetworkStatistics ==
    LET Delays == Delay \cup {None}
        Jitters == [avg : Int, std_dev : Int] \cup {None}
    IN  [rtt : Delays, forward_owd : Delays, backward_owd : Delays,
         process_time : Delays, forward_jitter : Jitters, backward_jitter : Jitters,
         loss : [forward : Nat, backward : Nat, total : Nat], total_packets : Nat]

calculate_session_results(s) ==
    LET packets   == Answered(s.results)
        n         == Len(packets)
        rtt_vec   == [k \in 1 .. n |-> calculate_rtt(packets[k])]
        f_owd_vec == [k \in 1 .. n |-> calculate_owd_forward(packets[k])]
        b_owd_vec == [k \in 1 .. n |-> calculate_owd_backward(packets[k])]
        rpd_vec   == [k \in 1 .. n |-> calculate_rpd(packets[k])]
    IN  [rtt |-> Summary(rtt_vec, n), forward_owd |-> Summary(f_owd_vec, n),
         backward_owd |-> Summary(b_owd_vec, n), process_time |-> Summary(rpd_vec, n),
         forward_jitter |-> JitterSummary(Jitter(f_owd_vec)),
         backward_jitter |-> JitterSummary(Jitter(b_owd_vec)),
         loss |-> analyze_packet_loss(s), total_packets |-> n]

\* The loop has returned.
Conclude ==
    /\ report = None
    /\ report' = calculate_session_results(session)
    /\ UNCHANGED <<offset, start, session, trips>>

Concluded == report # None /\ UNCHANGED vars

Next ==
    \/ TxCallback \/ TxCorrectCallback \/ Conclude \/ Concluded
    \/ \E trip \in Trips : RxCallback(trip)

Spec == Init /\ [][Next]_vars

-----------------------------------------------------------------------------
(* Properties.                                                             *)

Times == DateTime \cup {None}

\* Records are numbered in the order of sending, their times are times, and a
\* record is answered as a whole or not at all.
TypeOK ==
    /\ offset \in Offsets /\ start \in Starts
    /\ report \in NetworkStatistics \cup {None}
    /\ Len(trips) = Sent /\ session.last_updated \in 0..Sent
    /\ \A k \in 1..Sent : LET p == session.results[k] IN
         /\ p.sender_seq = k - 1 /\ p.t1 \in DateTime
         /\ {p.t2, p.t3, p.t4} \subseteq (IF trips[k] = None THEN {None} ELSE DateTime)

\* The seconds of a carried time are one too many in the last nanoseconds of a
\* second.
Slip(i) ==
    IF i % NSECS_CONVERSION >= NSECS_CONVERSION - HalfUlp THEN NSECS_CONVERSION ELSE 0

\* Every delay taken from a record is the true one, for any offset of the clocks
\* and across the end of an NTP era, except that a time carried in a packet may
\* have slipped by a whole second: the fraction of a second survives the packet
\* to the nanosecond.
DelaysExact ==
    \A k \in {j \in 1..Sent : trips[j] # None} :
        LET p       == session.results[k]
            out     == trips[k][1]
            stay    == trips[k][2]
            back    == trips[k][3]
            arrival == SentAt(k) + out + offset
            slip1   == IF k <= session.last_updated THEN 0 ELSE Slip(SentAt(k))
        IN  /\ calculate_rtt(p) = Abs(out + stay + back - slip1)
            /\ calculate_owd_forward(p) = out + offset + Slip(arrival) - slip1
            /\ calculate_owd_backward(p) = back - offset - Slip(arrival + stay)
            /\ calculate_rpd(p) = Abs(stay + Slip(arrival + stay) - Slip(arrival))

\* No time that counts has slipped.
NoSlips ==
    \A k \in {j \in 1..Sent : trips[j] # None} :
        \A i \in {SentAt(k), SentAt(k) + trips[k][1] + offset,
                  SentAt(k) + trips[k][1] + trips[k][2] + offset} : Slip(i) = 0

Delivered == At(trips, {k \in DOMAIN trips : trips[k] # None})

\* Average and deviation of jitter do not depend on the offset of the clocks: they
\* are those of what the true delays of successive answered packets differ by.
JitterWithoutOffset ==
    (report # None /\ NoSlips) =>
        LET change(way) == [k \in 1 .. Len(Delivered) - 1 |->
                              Abs(Delivered[k + 1][way] - Delivered[k][way])]
        IN  /\ report.forward_jitter = JitterSummary(change(1))
            /\ report.backward_jitter = JitterSummary(change(3))

Summaries ==
    {report.rtt, report.forward_owd, report.backward_owd, report.process_time} \ {None}

\* The numbers reported of a sample fit together, and there is a report of every
\* sample exactly if a packet was answered: minimum, lower percentile, median,
\* upper percentile and maximum are in this order, so are minimum, average and
\* maximum, and the deviation is at most half the distance of the extremes.
SummariesOrdered ==
    report # None =>
        /\ Summaries = {} <=> report.total_packets = 0
        /\ \A x \in Summaries :
             /\ x.min <= x.low /\ 2 * x.low <= x.median
             /\ x.median <= 2 * x.high /\ x.high <= x.max
             /\ x.min * report.total_packets <= x.avg
             /\ x.avg <= x.max * report.total_packets
             /\ 4 * x.std_dev <=
                  report.total_packets * Square(report.total_packets * (x.max - x.min))

\* The averages fit together as well: whatever the offset, the average round trip
\* is the sum of both ways and the time at the reflector.
AveragesAddUp ==
    (report # None /\ NoSlips /\ report.total_packets > 0) =>
        report.rtt.avg = report.forward_owd.avg + report.backward_owd.avg
                            + report.process_time.avg

\* A packet is either in the statistics or lost, the first one included.
EveryPacketCounted ==
    report # None => report.total_packets + report.loss.total = Sent
=============================================================================
