---------------------------- MODULE NtpTimeProofs ----------------------------
(***************************************************************************)
(* What the conversions of NtpTime do, for all units: TLC only enumerates  *)
(* seconds of a few nanoseconds.                                           *)
(***************************************************************************)
EXTENDS NtpTime, BasicFacts

\* Nanoseconds cut off to a fraction and rounded back are the same nanoseconds:
\* a fraction is less than half a nanosecond.
LEMMA NanosReturn ==
    ASSUME NEW n \in Nat
    PROVE  LET f == (n * FRACTION_CONVERSION) \div NSECS_CONVERSION
           IN  (2 * f * NSECS_CONVERSION + FRACTION_CONVERSION)
                   \div (2 * FRACTION_CONVERSION) = n
<1> DEFINE N == NSECS_CONVERSION
           F == FRACTION_CONVERSION
           f == (n * F) \div N
<1>1. N \in Nat \ {0} /\ F \in Nat \ {0} /\ F >= 2 * N
  BY UnitsAssumption
<1>2. n * F \in Nat
  BY <1>1, Product
<1> HIDE DEF N, F
<1>3. f \in Nat /\ N * f <= n * F /\ n * F < N * f + N
  BY <1>1, <1>2, QuotientBounds
<1> HIDE DEF f
<1>4. N * f \in Nat /\ 2 * f * N = 2 * (N * f) /\ (2 * F) * n = 2 * (n * F)
  BY <1>1, <1>2, <1>3, Product
<1>5. (2 * F) * n <= 2 * f * N + F /\ 2 * f * N + F < (2 * F) * n + 2 * F
  BY <1>1, <1>2, <1>3, <1>4
<1>6. 2 * f * N + F \in Int /\ 2 * F \in Nat \ {0}
  BY <1>1, <1>4
<1>7. (2 * f * N + F) \div (2 * F) = n
  BY <1>5, <1>6, Quotient
<1> QED
  BY <1>7 DEF N, F, f

\* Adding the epoch and taking it off again leaves the seconds of an era.
LEMMA EraReturns ==
    ASSUME NEW s \in Nat, NEW w \in Nat \ {0}, NEW e \in Nat
    PROVE  (((s + e) % w) - e) % w = s % w
<1> DEFINE p == s \div w
           q == (s + e) \div w
           x == s % w
           y == (s + e) % w
<1>1. p \in Int /\ x \in 0 .. w - 1 /\ s = w * p + x
  BY Division
<1>2. q \in Int /\ y \in 0 .. w - 1 /\ s + e = w * q + y
  BY Division
<1> HIDE DEF p, q, x, y
<1>3. w * (p - q) = w * p - w * q
  BY <1>1, <1>2
<1>4. p - q \in Int /\ y - e \in Int /\ w * p \in Int /\ w * q \in Int
  BY <1>1, <1>2
<1>5. y - e = w * (p - q) + x
  BY <1>1, <1>2, <1>3, <1>4
<1>6. (y - e) % w = x
  BY <1>1, <1>4, <1>5, Remainder
<1> QED
  BY <1>6 DEF x, y

\* A time comes out of a packet as it went in, to the nanosecond and in every NTP
\* era, but for the second that timestamp() may have added.
THEOREM CarriedExact ==
    ASSUME NEW dt \in DateTime
    PROVE  try_from(from_datetime(dt)) =
              [sec |-> timestamp(dt) % Seconds, nanos |-> dt.nanos]
<1> DEFINE s == timestamp(dt)
<1>1. s \in Nat /\ dt.nanos \in Nat
  BY UnitsAssumption DEF timestamp, DateTime
<1>2. Seconds \in Nat \ {0} /\ NTP_EPOCH \in Nat
  BY UnitsAssumption
<1> HIDE DEF s
<1>3. (((s + NTP_EPOCH) % Seconds) - NTP_EPOCH) % Seconds = s % Seconds
  BY <1>1, <1>2, EraReturns
<1>4. (2 * ((dt.nanos * FRACTION_CONVERSION) \div NSECS_CONVERSION) * NSECS_CONVERSION
          + FRACTION_CONVERSION) \div (2 * FRACTION_CONVERSION) = dt.nanos
  BY <1>1, NanosReturn
<1> QED
  BY <1>3, <1>4 DEF try_from, from_datetime, s

\* The difference of two times keeps its sign: as nanoseconds it is the
\* difference of what the two clocks have counted.
THEOREM SubExact ==
    ASSUME NEW a \in DateTime, NEW b \in DateTime
    PROVE  as_nanos(sub(a, b)) = (a.sec * NSECS_CONVERSION + a.nanos)
                                  - (b.sec * NSECS_CONVERSION + b.nanos)
<1> DEFINE d == (a.sec - b.sec) * NSECS_CONVERSION + (a.nanos - b.nanos)
<1>1. /\ a.sec \in Int /\ b.sec \in Int /\ a.nanos \in Int /\ b.nanos \in Int
      /\ NSECS_CONVERSION \in Int
  BY UnitsAssumption DEF DateTime
<1>2. d = (a.sec * NSECS_CONVERSION + a.nanos) - (b.sec * NSECS_CONVERSION + b.nanos)
  BY <1>1
<1>3. d \in Int
  BY <1>1
<1> HIDE DEF d
<1>4. Abs(d) * (IF d < 0 THEN -1 ELSE 1) = d
  BY <1>3 DEF Abs
<1> QED
  BY <1>2, <1>4 DEF sub, as_nanos, d
=============================================================================
