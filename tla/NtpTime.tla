------------------------------- MODULE NtpTime -------------------------------
(***************************************************************************)
(* network_commons/src/time.rs and interval.rs: times as DateTime, as the  *)
(* NtpTimestamp of the packets, and their differences.  The units are      *)
(* constants, so that a second of few nanoseconds can be enumerated and    *)
(* the facts about the conversions hold for the units of the code.         *)
(***************************************************************************)
EXTENDS Integers

CONSTANTS
    NSECS_CONVERSION,     \* nanoseconds in a second: 10^9 in the code
    FRACTION_CONVERSION,  \* fractions in a second: 2^32
    NTP_EPOCH,            \* seconds from 1900 to 1970
    Seconds,              \* size of the u32 that holds seconds: 2^32
    HalfUlp               \* half the distance of two f64 of today's size, in
                          \* nanoseconds: 119

ASSUME UnitsAssumption ==
    /\ NSECS_CONVERSION \in Nat \ {0} /\ FRACTION_CONVERSION \in Nat
    /\ FRACTION_CONVERSION >= 2 * NSECS_CONVERSION
    /\ Seconds \in Nat \ {0} /\ NTP_EPOCH \in 0 .. Seconds - 1
    /\ HalfUlp \in 0 .. NSECS_CONVERSION - 1

DateTime == [sec : 0 .. Seconds - 1, nanos : 0 .. NSECS_CONVERSION - 1]

NtpTimestamp ==
    [seconds : 0 .. Seconds - 1, fraction : 0 .. FRACTION_CONVERSION - 1]

\* The DateTime that a clock shows which has counted i nanoseconds.
from_timespec(i) ==
    [sec |-> (i \div NSECS_CONVERSION) % Seconds, nanos |-> i % NSECS_CONVERSION]

\* timestamp() as u32: an f64 cannot tell the last nanoseconds of a second from
\* the second that follows.
timestamp(dt) ==
    dt.sec + (IF dt.nanos >= NSECS_CONVERSION - HalfUlp THEN 1 ELSE 0)

\* impl From<DateTime> for NtpTimestamp: the fraction is cut off, the seconds
\* wrap around in 2036.
from_datetime(dt) ==
    [seconds  |-> (timestamp(dt) + NTP_EPOCH) % Seconds,
     fraction |-> (dt.nanos * FRACTION_CONVERSION) \div NSECS_CONVERSION]

\* Mutant: the nanoseconds are cut off and not rounded.
try_from_truncates(ntp) ==
    [sec   |-> (ntp.seconds - NTP_EPOCH) % Seconds,
     nanos |-> (ntp.fraction * NSECS_CONVERSION) \div FRACTION_CONVERSION]

\* impl TryFrom<NtpTimestamp> for DateTime: the nanoseconds are rounded.
try_from(ntp) ==
    [sec   |-> (ntp.seconds - NTP_EPOCH) % Seconds,
     nanos |-> (2 * ntp.fraction * NSECS_CONVERSION + FRACTION_CONVERSION)
                   \div (2 * FRACTION_CONVERSION)]

Abs(n) == IF n < 0 THEN -n ELSE n

\* Mutant: the sign is taken from the seconds.
sub_sign_of_seconds(a, b) ==
    LET total == (a.sec - b.sec) * NSECS_CONVERSION + (a.nanos - b.nanos)
    IN  [duration |-> Abs(total), multiplier |-> IF a.sec < b.sec THEN -1 ELSE 1]

\* impl Sub<DateTime> for DateTime: an Interval, a duration with its sign.
sub(a, b) ==
    LET total == (a.sec - b.sec) * NSECS_CONVERSION + (a.nanos - b.nanos)
    IN  [duration |-> Abs(total), multiplier |-> IF total < 0 THEN -1 ELSE 1]

as_nanos(interval) == interval.duration * interval.multiplier
=============================================================================
