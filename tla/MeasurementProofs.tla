-------------------------- MODULE MeasurementProofs --------------------------
(***************************************************************************)
(* The delays of a measurement are exact, and the numbers of its report    *)
(* fit together, for all units, offsets of clocks, trips and numbers of    *)
(* packets.                                                                *)
(***************************************************************************)
EXTENDS Measurement, NtpTimeProofs, SessionProofs

\* A number is its own remainder as long as it is small.
LEMMA SmallRemainder ==
    ASSUME NEW n \in Nat, NEW w \in Nat \ {0}, n < w PROVE n % w = n
  OBVIOUS

-----------------------------------------------------------------------------
(* Times.                                                                  *)

\* The nanoseconds that a DateTime stands for.
Nanos(dt) == dt.sec * NSECS_CONVERSION + dt.nanos

\* What a clock shows is what it has counted.
LEMMA ShownExact ==
    ASSUME NEW i \in Nat
    PROVE  /\ from_timespec(i) \in DateTime
           /\ i < NSECS_CONVERSION * Seconds => Nanos(from_timespec(i)) = i
<1> DEFINE N == NSECS_CONVERSION
           W == Seconds
           q == i \div N
           r == i % N
<1>1. N \in Nat \ {0} /\ W \in Nat \ {0}
  BY UnitsAssumption
<1> HIDE DEF N, W
<1>2. q \in Int /\ r \in 0 .. N - 1 /\ i = N * q + r
  BY <1>1, Division
<1>3. q \in Nat
  BY <1>1, QuotientBounds
<1> HIDE DEF q, r
<1>4. q % W \in 0 .. W - 1
  BY <1>1, <1>3, Division
<1>5. from_timespec(i) = [sec |-> q % W, nanos |-> r]
  BY DEF from_timespec, N, W, q, r
<1>6. ASSUME i < N * W PROVE q % W = q
  <2>1. N * q < N * W
    BY <1>1, <1>2, <1>3, <1>6
  <2>2. q < W
    BY <1>1, <1>3, <2>1
  <2> QED BY <1>1, <1>3, <2>2
<1>7. ASSUME i < N * W PROVE Nanos(from_timespec(i)) = i
  <2>1. Nanos(from_timespec(i)) = q * N + r
    BY <1>5, <1>6, <1>7 DEF Nanos, N
  <2> QED BY <1>1, <1>2, <1>3, <2>1
<1> QED BY <1>4, <1>5, <1>7, <1>2 DEF DateTime, N, W

\* A time carried in a packet is exact but for the second that may have slipped.
LEMMA CarriedNanos ==
    ASSUME NEW i \in Nat
    PROVE  /\ Carried(i) \in DateTime /\ Slip(i) \in Nat
           /\ i + NSECS_CONVERSION < NSECS_CONVERSION * Seconds =>
                 Nanos(Carried(i)) = i + Slip(i)
<1> DEFINE N == NSECS_CONVERSION
           W == Seconds
           q == i \div N
           r == i % N
           b == IF r >= N - HalfUlp THEN 1 ELSE 0
           dt == from_timespec(i)
<1>1. N \in Nat \ {0} /\ W \in Nat \ {0} /\ HalfUlp \in Nat
  BY UnitsAssumption
<1>2. q \in Nat /\ r \in 0 .. N - 1 /\ i = N * q + r
  <2> HIDE DEF N, W
  <2>1. r \in 0 .. N - 1 /\ i = N * q + r
    BY <1>1, Division
  <2>2. q \in Nat
    BY <1>1, QuotientBounds
  <2> QED BY <2>1, <2>2
<1>3. b \in {0, 1} /\ Slip(i) = N * b
  BY <1>1, <1>2 DEF Slip
<1>4. dt \in DateTime
  BY ShownExact
<1>5. dt.sec = q % W /\ dt.nanos = r
  BY DEF from_timespec
<1>6. timestamp(dt) = (q % W) + b
  BY <1>5 DEF timestamp
<1>7. Carried(i) = [sec |-> ((q % W) + b) % W, nanos |-> r]
  BY <1>4, <1>5, <1>6, CarriedExact DEF Carried
<1> HIDE DEF q, r, b, dt, N, W
<1>8. q % W \in 0 .. W - 1 /\ (q % W) + b \in Nat /\ ((q % W) + b) % W \in 0 .. W - 1
  <2>1. q % W \in 0 .. W - 1
    BY <1>1, <1>2, Division
  <2>2. (q % W) + b \in Nat
    BY <1>1, <1>3, <2>1
  <2> DEFINE t == (q % W) + b
  <2>3. t % W \in 0 .. W - 1
    <3> HIDE DEF t
    <3>1. t \in Int
      BY <2>2 DEF t
    <3> QED BY <1>1, <3>1, Division
  <2> QED BY <2>1, <2>2, <2>3
<1>9. Carried(i) \in DateTime
  BY <1>2, <1>7, <1>8 DEF DateTime, N, W
<1>10. Slip(i) \in Nat
  BY <1>1, <1>3
<1>11. ASSUME i + N < N * W PROVE Nanos(Carried(i)) = i + Slip(i)
  <2>1. N * (q + 1) = N * q + N /\ q + 1 \in Nat
    BY <1>1, <1>2
  <2>2. N * (q + 1) < N * W
    BY <1>1, <1>2, <1>11, <2>1
  <2>3. q + 1 < W
    BY <1>1, <1>2, <2>2
  <2>4. q % W = q /\ q + b \in Nat /\ q + b < W
    BY <1>1, <1>2, <1>3, <2>3
  <2>5. (q + b) % W = q + b
    BY <1>1, <2>4
  <2>6. Nanos(Carried(i)) = (q + b) * N + r
    BY <1>7, <2>4, <2>5 DEF Nanos, N
  <2>7. (q + b) * N = N * q + N * b
    BY <1>1, <1>2, <1>3
  <2> QED BY <1>1, <1>2, <1>3, <2>6, <2>7
<1> QED BY <1>9, <1>10, <1>11 DEF N, W

\* Differences of times.
LEMMA Differences ==
    ASSUME NEW a \in DateTime, NEW b \in DateTime
    PROVE  /\ as_nanos(sub(a, b)) = Nanos(a) - Nanos(b)
           /\ sub(a, b).duration = Abs(Nanos(a) - Nanos(b))
           /\ Nanos(a) \in Nat
<1>1. as_nanos(sub(a, b)) = Nanos(a) - Nanos(b)
  BY SubExact DEF Nanos
<1>2. /\ a.sec \in Nat /\ b.sec \in Nat /\ a.nanos \in Nat /\ b.nanos \in Nat
      /\ NSECS_CONVERSION \in Nat
  BY UnitsAssumption DEF DateTime
<1>3. (a.sec - b.sec) * NSECS_CONVERSION + (a.nanos - b.nanos) = Nanos(a) - Nanos(b)
  BY <1>2 DEF Nanos
<1>4. sub(a, b).duration = Abs(Nanos(a) - Nanos(b))
  BY <1>3 DEF sub
<1>5. Nanos(a) \in Nat
  BY <1>2, Product DEF Nanos
<1> QED BY <1>1, <1>4, <1>5

-----------------------------------------------------------------------------
(* The inductive invariant.                                                *)

Record ==
    [sender_seq : Nat, reflector_seq : Nat \cup {None}, t1 : DateTime,
     t2 : Times, t3 : Times, t4 : Times]

Session == [seq_number : Nat, results : Seq(Record), last_updated : Nat]

\* What the record p says of the packet with the number seq that left at the time
\* at: the times that the two clocks really showed, after the conversions that
\* each of them goes through.
Says(p, seq, at, ahead, corrected, trip) ==
    /\ p.sender_seq = seq
    /\ p.t1 = IF corrected THEN from_timespec(at) ELSE Carried(at)
    /\ trip = None =>
          p.reflector_seq = None /\ p.t2 = None /\ p.t3 = None /\ p.t4 = None
    /\ trip # None =>
          /\ p.reflector_seq # None
          /\ p.t2 = Carried(at + trip[1] + ahead)
          /\ p.t3 = Carried(at + trip[1] + trip[2] + ahead)
          /\ p.t4 = from_timespec(at + trip[1] + trip[2] + trip[3])

Types ==
    /\ offset \in Offsets /\ start \in Starts
    /\ session \in Session /\ session.seq_number = Sent % Word
    /\ Sent <= MaxSent /\ session.last_updated <= Sent
    /\ trips \in Seq(Trips \cup {None}) /\ Len(trips) = Sent

Recorded ==
    \A k \in 1 .. Sent :
        Says(session.results[k], k - 1, SentAt(k), offset,
             k <= session.last_updated, trips[k])

MeasurementInv == Types /\ Recorded

\* The times of a packet are numbers.
LEMMA Clocks ==
    ASSUME offset \in Offsets, start \in Starts, NEW k \in Nat \ {0}
    PROVE  /\ SentAt(k) \in Nat /\ SentAt(k) >= start
           /\ \A j \in Nat \ {0} : k <= j => SentAt(k) <= start + j * PacketGap
           /\ \A trip \in Trips :
                /\ trip[1] \in Nat /\ trip[2] \in Nat /\ trip[3] \in Nat
                /\ SentAt(k) + trip[1] + offset \in Nat
                /\ SentAt(k) + trip[1] + trip[2] + offset \in Nat
                /\ SentAt(k) + trip[1] + trip[2] + trip[3] \in Nat
<1>1. /\ offset \in Int /\ start \in Nat /\ start + offset >= 0 /\ PacketGap \in Nat
      /\ k - 1 \in Nat
  BY TripsAssumption
<1>2. (k - 1) * PacketGap \in Nat
  BY <1>1, Product
<1>3. SentAt(k) \in Nat /\ SentAt(k) >= start
  BY <1>1, <1>2 DEF SentAt
<1>4. ASSUME NEW j \in Nat \ {0}, k <= j PROVE SentAt(k) <= start + j * PacketGap
  <2>1. j - (k - 1) \in Nat
    BY <1>4
  <2>2. (j - (k - 1)) * PacketGap \in Nat /\ j * PacketGap \in Nat
    BY <1>1, <2>1, Product
  <2>3. (j - (k - 1)) * PacketGap = j * PacketGap - (k - 1) * PacketGap
    BY <1>1
  <2> QED BY <1>1, <1>2, <2>2, <2>3 DEF SentAt
<1>5. ASSUME NEW trip \in Trips
      PROVE  /\ trip[1] \in Nat /\ trip[2] \in Nat /\ trip[3] \in Nat
             /\ SentAt(k) + trip[1] + offset \in Nat
             /\ SentAt(k) + trip[1] + trip[2] + offset \in Nat
             /\ SentAt(k) + trip[1] + trip[2] + trip[3] \in Nat
  <2>1. trip[1] \in Nat /\ trip[2] \in Nat /\ trip[3] \in Nat
    BY TripsAssumption
  <2> QED BY <1>1, <1>3, <2>1
<1> QED BY <1>3, <1>4, <1>5

\* The parts of the invariant that the proofs about the actions use.
LEMMA Facts ==
    ASSUME MeasurementInv
    PROVE  /\ session \in Session /\ session.results \in Seq(Record)
           /\ Sent = Len(session.results) /\ Sent \in Nat /\ Sent <= MaxSent
           /\ MaxSent \in Nat /\ Word \in Nat \ {0}
           /\ session.last_updated \in Nat /\ session.last_updated <= Sent
           /\ session.seq_number \in Nat /\ session.seq_number = Sent % Word
           /\ trips \in Seq(Trips \cup {None}) /\ Len(trips) = Sent
           /\ \A k \in 1 .. Sent :
                session.results[k] \in Record /\ trips[k] \in Trips \cup {None}
           /\ offset \in Offsets /\ start \in Starts
<1>1. /\ session \in Session /\ session.results \in Seq(Record)
      /\ trips \in Seq(Trips \cup {None}) /\ Len(trips) = Sent
      /\ session.last_updated \in Nat /\ session.seq_number \in Nat
  BY DEF MeasurementInv, Types, Session
<1>2. Sent = Len(session.results) /\ Sent \in Nat
  BY <1>1, LenProperties DEF Sent
<1>3. \A k \in 1 .. Sent :
        session.results[k] \in Record /\ trips[k] \in Trips \cup {None}
  BY <1>1, <1>2, ElementOfSeq
<1>4. MaxSent \in Nat /\ Word \in Nat \ {0}
  BY TripsAssumption, WordAssumption
<1>5. /\ Sent <= MaxSent /\ session.last_updated <= Sent
      /\ session.seq_number = Sent % Word /\ offset \in Offsets /\ start \in Starts
  BY DEF MeasurementInv, Types
<1> QED BY <1>1, <1>2, <1>3, <1>4, <1>5

\* A packet that is sent is recorded with its number and the time before it left.
LEMMA TxCallbackKeeps ==
    ASSUME MeasurementInv, TxCallback PROVE MeasurementInv'
<1> DEFINE n == Sent
           t == Carried(SentAt(n + 1))
           p == SentResults(session.seq_number, t)
           q == session.results
<1>0. /\ n < MaxSent /\ UNCHANGED <<offset, start>> /\ trips' = Append(trips, None)
      /\ session' = add_to_sent(session, p)
  BY DEF TxCallback
<1>1. /\ session \in Session /\ q \in Seq(Record) /\ n = Len(q) /\ n \in Nat
      /\ MaxSent \in Nat /\ Word \in Nat \ {0} /\ session.last_updated \in Nat
      /\ session.last_updated <= n
      /\ trips \in Seq(Trips \cup {None}) /\ Len(trips) = n
      /\ offset \in Offsets /\ start \in Starts
  BY Facts
<1>2. session.seq_number = n
  <2>1. session.seq_number = n % Word
    BY Facts
  <2> HIDE DEF n
  <2>2. n < Word
    BY <1>0, <1>1, RangeAssumption
  <2>3. n \in Nat /\ Word \in Nat \ {0}
    BY <1>1
  <2> QED BY <2>1, <2>2, <2>3, SmallRemainder
<1>3. t \in DateTime
  <2>1. n + 1 \in Nat \ {0}
    BY <1>1
  <2>2. SentAt(n + 1) \in Nat
    BY <1>1, <2>1, Clocks
  <2> QED BY <2>2, CarriedNanos
<1> HIDE DEF t
<1>4. p = [sender_seq |-> n, reflector_seq |-> None, t1 |-> t,
           t2 |-> None, t3 |-> None, t4 |-> None]
  BY <1>2 DEF SentResults
<1> HIDE DEF p
<1>5. /\ p \in Record /\ p.sender_seq = n /\ p.t1 = t
      /\ p.reflector_seq = None /\ p.t2 = None /\ p.t3 = None /\ p.t4 = None
  BY <1>1, <1>3, <1>4 DEF Record, Times
<1>6. session' = [session EXCEPT !.results = Append(q, p),
                                !.seq_number = (n + 1) % Word]
  BY <1>0, <1>2 DEF add_to_sent
<1>7. /\ session'.results = Append(q, p) /\ session'.seq_number = (n + 1) % Word
      /\ session'.last_updated = session.last_updated
  BY <1>1, <1>6 DEF Session
<1> HIDE DEF q, n
<1>8. /\ Append(q, p) \in Seq(Record) /\ Len(Append(q, p)) = n + 1
      /\ \A k \in 1 .. n : Append(q, p)[k] = q[k]
      /\ Append(q, p)[n + 1] = p
  BY <1>1, <1>5, AppendProperties
<1>9. /\ trips' \in Seq(Trips \cup {None}) /\ Len(trips') = n + 1
      /\ \A k \in 1 .. n : trips'[k] = trips[k]
      /\ trips'[n + 1] = None
  BY <1>0, <1>1, AppendProperties
<1>10. (n + 1) % Word \in Nat
  BY <1>1
<1>11. session' \in Session
  BY <1>1, <1>6, <1>8, <1>10 DEF Session
<1>12. Sent' = n + 1
  BY <1>7, <1>8 DEF Sent
<1>13. Types'
  BY <1>0, <1>1, <1>7, <1>9, <1>11, <1>12 DEF Types
<1>14. ASSUME NEW k \in 1 .. n + 1
       PROVE  Says(session'.results[k], k - 1, SentAt(k), offset,
                   k <= session'.last_updated, trips'[k])
  <2>2. CASE k \in 1 .. n
    <3>1. Says(q[k], k - 1, SentAt(k), offset, k <= session.last_updated, trips[k])
      BY <2>2 DEF MeasurementInv, Recorded, n, q
    <3>2. session'.results[k] = q[k] /\ trips'[k] = trips[k]
      BY <1>7, <1>8, <1>9, <2>2
    <3> QED BY <1>7, <3>1, <3>2
  <2>3. CASE k = n + 1
    <3>1. session'.results[k] = p /\ trips'[k] = None
      BY <1>7, <1>8, <1>9, <2>3
    <3>2. ~ (k <= session'.last_updated) /\ k - 1 = n
      BY <1>1, <1>7, <2>3
    <3>3. p.t1 = Carried(SentAt(k))
      BY <1>5, <2>3 DEF t
    <3> QED BY <1>5, <3>1, <3>2, <3>3 DEF Says
  <2>4. k \in 1 .. n \/ k = n + 1
    BY <1>1
  <2> QED BY <2>2, <2>3, <2>4
<1>15. Recorded'
  BY <1>0, <1>12, <1>14 DEF Recorded, SentAt
<1> QED BY <1>13, <1>15 DEF MeasurementInv

\* The kernel's time goes to the packet that it is the time of.
LEMMA TxCorrectCallbackKeeps ==
    ASSUME MeasurementInv, TxCorrectCallback PROVE MeasurementInv'
<1> DEFINE n == Sent
           last == session.last_updated
           q == session.results
           t == from_timespec(SentAt(last + 1))
           stamped(k) == [q[k] EXCEPT !.t1 = <<t>>[k - last]]
           rs == [k \in 1 .. n |->
                    IF k \in last + 1 .. last + 1 THEN stamped(k) ELSE q[k]]
<1>0. /\ last < n /\ UNCHANGED <<offset, start, trips>>
      /\ session' = update_tx_timestamps(session, <<t>>)
  BY DEF TxCorrectCallback
<1>1. /\ session \in Session /\ q \in Seq(Record) /\ n = Len(q) /\ n \in Nat
      /\ n <= MaxSent /\ last \in Nat
      /\ \A k \in 1 .. n : q[k] \in Record
      /\ offset \in Offsets /\ start \in Starts
  BY Facts
<1>2. t \in DateTime
  <2>1. last + 1 \in Nat \ {0}
    BY <1>1
  <2>2. SentAt(last + 1) \in Nat
    BY <1>1, <2>1, Clocks
  <2> QED BY <2>2, ShownExact
<1> HIDE DEF t
<1>3. Len(<<t>>) = 1 /\ <<t>>[1] = t
  OBVIOUS
<1>4. Min({Len(<<t>>), Len(q) - last}) = 1
  <2>1. Len(q) - last \in Int /\ 1 <= Len(q) - last
    BY <1>0, <1>1
  <2>2. Min({1, Len(q) - last}) = 1
    BY <2>1, MinOfTwo
  <2> QED BY <1>3, <2>2
<1>5. DOMAIN q = 1 .. n
  BY <1>1
<1>6. session' = [session EXCEPT !.results = rs, !.last_updated = last + 1]
  <2>1. session.results = q
    OBVIOUS
  <2> QED BY <1>0, <1>4, <1>5 DEF update_tx_timestamps
<1>7. ASSUME NEW k \in 1 .. n
      PROVE  /\ rs[k] \in Record
             /\ rs[k].sender_seq = q[k].sender_seq
             /\ rs[k].reflector_seq = q[k].reflector_seq
             /\ rs[k].t2 = q[k].t2 /\ rs[k].t3 = q[k].t3 /\ rs[k].t4 = q[k].t4
             /\ rs[k].t1 = IF k = last + 1 THEN t ELSE q[k].t1
  <2>1. q[k] \in Record
    BY <1>1
  <2>2. CASE k = last + 1
    <3>1. k \in last + 1 .. last + 1 /\ k - last = 1
      BY <1>1, <2>2
    <3>2. rs[k] = stamped(k)
      BY <3>1
    <3>3. stamped(k) = [q[k] EXCEPT !.t1 = t]
      BY <1>3, <3>1
    <3> HIDE DEF rs, q
    <3> QED BY <1>2, <2>1, <2>2, <3>2, <3>3 DEF Record
  <2>3. CASE k # last + 1
    <3>1. k \notin last + 1 .. last + 1
      BY <1>1, <2>3
    <3> QED BY <2>1, <2>3, <3>1
  <2> QED BY <2>2, <2>3
<1>8. rs \in Seq(Record) /\ Len(rs) = n
  <2>1. rs \in [1 .. n -> Record]
    BY <1>7
  <2> HIDE DEF rs
  <2> QED BY <1>1, <2>1, FunctionIsSeq
<1> HIDE DEF rs, q
<1>9. /\ session'.results = rs /\ session'.last_updated = last + 1
      /\ session'.seq_number = session.seq_number /\ session' \in Session
  <2> DEFINE next == last + 1
  <2>1. next \in Nat
    BY <1>1
  <2>2. session' = [session EXCEPT !.results = rs, !.last_updated = next]
    BY <1>6
  <2> HIDE DEF next
  <2>3. /\ session'.results = rs /\ session'.last_updated = next
        /\ session'.seq_number = session.seq_number /\ session' \in Session
    BY <1>1, <1>8, <2>1, <2>2 DEF Session
  <2> QED BY <2>3 DEF next
<1>10. Sent' = n
  BY <1>8, <1>9 DEF Sent
<1>11. Types'
  <2>1. /\ offset' \in Offsets /\ start' \in Starts /\ session' \in Session
        /\ session'.seq_number = Sent' % Word /\ Sent' <= MaxSent
        /\ trips' \in Seq(Trips \cup {None}) /\ Len(trips') = Sent'
    BY <1>0, <1>1, <1>9, <1>10, Facts
  <2>2. session'.last_updated <= Sent'
    BY <1>0, <1>1, <1>9, <1>10
  <2> QED BY <2>1, <2>2 DEF Types
<1>12. ASSUME NEW k \in 1 .. n
       PROVE  Says(session'.results[k], k - 1, SentAt(k), offset,
                   k <= session'.last_updated, trips'[k])
  <2>1. Says(q[k], k - 1, SentAt(k), offset, k <= last, trips[k])
    BY DEF MeasurementInv, Recorded, q
  <2>2. session'.results[k] = rs[k] /\ trips'[k] = trips[k]
    BY <1>0, <1>9
  <2>3. CASE k = last + 1
    <3>1. k <= session'.last_updated
      BY <1>1, <1>9, <2>3
    <3>2. rs[k].t1 = from_timespec(SentAt(k))
      BY <1>7, <2>3 DEF t
    <3> QED BY <1>7, <2>1, <2>2, <3>1, <3>2 DEF Says
  <2>4. CASE k # last + 1
    <3>1. (k <= session'.last_updated) <=> (k <= last)
      BY <1>1, <1>9, <2>4
    <3>2. rs[k].t1 = q[k].t1
      BY <1>7, <2>4
    <3> QED BY <1>7, <2>1, <2>2, <3>1, <3>2 DEF Says
  <2> QED BY <2>3, <2>4
<1>13. Recorded'
  BY <1>0, <1>10, <1>12 DEF Recorded, SentAt
<1> QED BY <1>11, <1>13 DEF MeasurementInv

\* A reflection goes to the record of the packet that was reflected.
LEMMA RxCallbackKeeps ==
    ASSUME MeasurementInv, NEW trip \in Trips, RxCallback(trip) PROVE MeasurementInv'
<1> DEFINE n == Sent
           q == session.results
           at == SentAt(n) + trip[1]
           seen == Cardinality({k \in 1 .. n : trips[k] # None})
           t2 == Carried(at + offset)
           t3 == Carried(at + trip[2] + offset)
           t4 == from_timespec(at + trip[2] + trip[3])
           r == [sender_seq |-> n - 1, reflector_seq |-> seen,
                 t2 |-> t2, t3 |-> t3, t4 |-> t4]
           I == {i \in 1 .. n : q[i].sender_seq = r.sender_seq}
<1>0. /\ n > 0 /\ UNCHANGED <<offset, start>>
      /\ session' = add_to_received(session, r)
      /\ trips' = [trips EXCEPT ![n] = trip]
  BY DEF RxCallback
<1>1. /\ session \in Session /\ q \in Seq(Record) /\ n = Len(q) /\ n \in Nat
      /\ n <= MaxSent
      /\ \A k \in 1 .. n : q[k] \in Record
      /\ offset \in Offsets /\ start \in Starts
      /\ trips \in Seq(Trips \cup {None}) /\ Len(trips) = n
  BY Facts
<1>2. n \in 1 .. n /\ n \in Nat \ {0}
  BY <1>0, <1>1
<1>3. seen \in Nat
  <2>1. IsFiniteSet(1 .. n)
    BY <1>1, FS_Interval
  <2>2. IsFiniteSet({k \in 1 .. n : trips[k] # None})
    BY <2>1, FS_Subset
  <2> QED BY <2>2, FS_CardinalityType
<1>4. /\ at = SentAt(n) + trip[1] /\ t2 \in DateTime /\ t3 \in DateTime /\ t4 \in DateTime
      /\ t2 = Carried(SentAt(n) + trip[1] + offset)
      /\ t3 = Carried(SentAt(n) + trip[1] + trip[2] + offset)
      /\ t4 = from_timespec(SentAt(n) + trip[1] + trip[2] + trip[3])
  <2>1. /\ SentAt(n) + trip[1] + offset \in Nat
        /\ SentAt(n) + trip[1] + trip[2] + offset \in Nat
        /\ SentAt(n) + trip[1] + trip[2] + trip[3] \in Nat
    BY <1>1, <1>2, Clocks
  <2> QED BY <2>1, CarriedNanos, ShownExact
<1> HIDE DEF t2, t3, t4, seen, at
<1>5. SelectInSeq(q, LAMBDA record : record.sender_seq = r.sender_seq)
        = IF I # {} THEN Min(I) ELSE 0
  BY <1>1 DEF SelectInSeq
<1>6. I = {n}
  <2>1. ASSUME NEW k \in 1 .. n PROVE q[k].sender_seq = k - 1
    BY DEF MeasurementInv, Recorded, Says
  <2>2. r.sender_seq = n - 1
    OBVIOUS
  <2> HIDE DEF r, n, q
  <2>3. ASSUME NEW k \in 1 .. n PROVE (q[k].sender_seq = r.sender_seq) <=> (k = n)
    BY <1>1, <2>1, <2>2
  <2> QED BY <1>2, <2>3
<1>7. Min(I) = n /\ I # {}
  <2>1. {n} \in SUBSET Nat /\ {n} # {}
    BY <1>1
  <2> HIDE DEF n
  <2>2. Min({n}) = n
    BY <2>1, MinProperties
  <2> QED BY <1>6, <2>2
<1> DEFINE p == q[n]
           m == Merged(p, r)
<1>8. session' = [session EXCEPT !.results[n] = m]
  <2> HIDE DEF I, r, n
  <2> QED BY <1>0, <1>2, <1>5, <1>7 DEF add_to_received
<1>9. p \in Record
  BY <1>1, <1>2
<1>10. /\ m \in Record /\ m.t1 = p.t1 /\ m.sender_seq = n - 1 /\ m.reflector_seq = seen
       /\ m.t2 = t2 /\ m.t3 = t3 /\ m.t4 = t4
  <2> HIDE DEF p
  <2>1. n - 1 \in Nat
    BY <1>0, <1>1
  <2> DEFINE n1 == n - 1
  <2> HIDE DEF n1
  <2>2. n1 \in Nat
    BY <2>1 DEF n1
  <2>3. r = [sender_seq |-> n1, reflector_seq |-> seen, t2 |-> t2, t3 |-> t3, t4 |-> t4]
    BY DEF n1
  <2> HIDE DEF r
  <2>4. /\ m \in Record /\ m.t1 = p.t1 /\ m.sender_seq = n1 /\ m.reflector_seq = seen
        /\ m.t2 = t2 /\ m.t3 = t3 /\ m.t4 = t4
    BY <1>3, <1>4, <1>9, <2>2, <2>3 DEF Record, Merged, Times
  <2> QED BY <2>4 DEF n1
<1> DEFINE rs == [q EXCEPT ![n] = m]
<1> HIDE DEF m, r
<1>11. /\ session'.results = rs /\ session'.seq_number = session.seq_number
       /\ session'.last_updated = session.last_updated
       /\ session' = [session EXCEPT !.results = rs]
  BY <1>1, <1>8 DEF Session
<1>12. /\ rs \in Seq(Record) /\ Len(rs) = n
       /\ \A k \in 1 .. n : rs[k] = IF k = n THEN m ELSE q[k]
  BY <1>1, <1>2, <1>10, ExceptSeq
<1>13. /\ trips' \in Seq(Trips \cup {None}) /\ Len(trips') = n
       /\ \A k \in 1 .. n : trips'[k] = IF k = n THEN trip ELSE trips[k]
  <2>1. trip \in Trips \cup {None}
    OBVIOUS
  <2> QED BY <1>0, <1>1, <1>2, <2>1, ExceptSeq
<1> HIDE DEF rs
<1>14. session' \in Session
  BY <1>1, <1>11, <1>12 DEF Session
<1>15. Sent' = n
  BY <1>11, <1>12 DEF Sent
<1>16. Types'
  BY <1>0, <1>1, <1>11, <1>13, <1>14, <1>15, Facts DEF Types
<1>17. ASSUME NEW k \in 1 .. n
       PROVE  Says(session'.results[k], k - 1, SentAt(k), offset,
                   k <= session'.last_updated, trips'[k])
  <2>1. Says(q[k], k - 1, SentAt(k), offset, k <= session.last_updated, trips[k])
    BY DEF MeasurementInv, Recorded
  <2>2. CASE k = n
    <3>1. session'.results[k] = m /\ trips'[k] = trip
      BY <1>11, <1>12, <1>13, <2>2
    <3>2. /\ m.t2 = Carried(SentAt(k) + trip[1] + offset)
          /\ m.t3 = Carried(SentAt(k) + trip[1] + trip[2] + offset)
          /\ m.t4 = from_timespec(SentAt(k) + trip[1] + trip[2] + trip[3])
      BY <1>4, <1>10, <2>2
    <3>3. m.t1 = q[k].t1 /\ m.sender_seq = k - 1 /\ m.reflector_seq # None
      BY <1>3, <1>10, <2>2, NoneAssumption
    <3>4. trip # None
      BY NoTripAssumption
    <3> QED BY <1>11, <2>1, <3>1, <3>2, <3>3, <3>4 DEF Says
  <2>3. CASE k # n
    <3>1. session'.results[k] = q[k] /\ trips'[k] = trips[k]
      BY <1>11, <1>12, <1>13, <2>3
    <3> QED BY <1>11, <2>1, <3>1
  <2> QED BY <2>2, <2>3
<1>18. Recorded'
  BY <1>0, <1>15, <1>17 DEF Recorded, SentAt
<1> QED BY <1>16, <1>18 DEF MeasurementInv

\* The records of a measurement say of every packet what really happened to it.
LEMMA RecordsTrue == Spec => []MeasurementInv
<1>1. Init => MeasurementInv
  <2> SUFFICES ASSUME Init PROVE MeasurementInv
    OBVIOUS
  <2>1. /\ session = [seq_number |-> 0, results |-> <<>>, last_updated |-> 0]
        /\ trips = <<>> /\ offset \in Offsets /\ start \in Starts
    BY DEF Init, NewSession
  <2>2. session \in Session /\ Sent = 0 /\ session.last_updated = 0
    BY <2>1 DEF Session, Sent
  <2>3. session.seq_number = Sent % Word /\ Sent <= MaxSent
    BY <2>1, <2>2, WordAssumption, TripsAssumption
  <2>4. Types
    BY <2>1, <2>2, <2>3 DEF Types
  <2>5. Recorded
    BY <2>2 DEF Recorded
  <2> QED BY <2>4, <2>5 DEF MeasurementInv
<1>2. MeasurementInv /\ [Next]_vars => MeasurementInv'
  <2> SUFFICES ASSUME MeasurementInv, [Next]_vars PROVE MeasurementInv'
    OBVIOUS
  <2>1. CASE TxCallback
    BY <2>1, TxCallbackKeeps
  <2>2. CASE TxCorrectCallback
    BY <2>2, TxCorrectCallbackKeeps
  <2>3. CASE \E trip \in Trips : RxCallback(trip)
    BY <2>3, RxCallbackKeeps
  <2>4. CASE UNCHANGED <<offset, start, session, trips>>
    BY <2>4 DEF MeasurementInv, Types, Recorded, Sent, SentAt
  <2>5. CASE Conclude
    BY <2>4, <2>5 DEF Conclude
  <2>6. CASE Concluded
    BY <2>4, <2>6 DEF Concluded, vars
  <2>7. CASE UNCHANGED vars
    BY <2>4, <2>7 DEF vars
  <2> QED BY <2>1, <2>2, <2>3, <2>5, <2>6, <2>7 DEF Next
<1> QED BY <1>1, <1>2, PTL DEF Spec

-----------------------------------------------------------------------------
(* Delays.                                                                 *)

\* No time of a packet that is answered runs out of the seconds of a DateTime.
LEMMA TimesInRange ==
    ASSUME MeasurementInv, NEW k \in 1 .. Sent, NEW trip \in Trips
    PROVE  LET last == NSECS_CONVERSION * Seconds - NSECS_CONVERSION
           IN  /\ SentAt(k) < last
               /\ SentAt(k) + trip[1] + offset < last
               /\ SentAt(k) + trip[1] + trip[2] + offset < last
               /\ SentAt(k) + trip[1] + trip[2] + trip[3] < last
<1> DEFINE N == NSECS_CONVERSION
           R == NSECS_CONVERSION * Seconds
           at == SentAt(k)
           span == MaxSent * PacketGap
           a == trip[1]
           b == trip[2]
           c == trip[3]
<1>1. /\ offset \in Offsets /\ start \in Starts /\ k \in Nat \ {0}
      /\ MaxSent \in Nat \ {0} /\ k <= MaxSent /\ k <= Sent
  BY Facts
<1>2. at \in Nat /\ at <= start + span /\ a \in Nat /\ b \in Nat /\ c \in Nat
  BY <1>1, Clocks
<1>3. offset \in Int /\ start \in Nat /\ PacketGap \in Nat
  BY <1>1, TripsAssumption
<1>4. span \in Nat
  BY <1>1, <1>3, Product
<1>5. N \in Nat \ {0} /\ R \in Nat
  BY UnitsAssumption, Product
<1>6. /\ start + span + a + b + c + N < R
      /\ start + span + a + b + c + N + offset < R
  BY <1>1, RangeAssumption
<1> HIDE DEF at, span, a, b, c, N, R
<1>7. /\ at < R - N /\ at + a + offset < R - N /\ at + a + b + offset < R - N
      /\ at + a + b + c < R - N
  BY <1>2, <1>3, <1>4, <1>5, <1>6
<1> QED BY <1>7 DEF at, span, a, b, c, N, R

\* Records that are true give true delays.
LEMMA DelaysOfRecords == ASSUME MeasurementInv PROVE DelaysExact
<1>1. SUFFICES ASSUME NEW k \in 1 .. Sent, trips[k] # None
      PROVE  LET p       == session.results[k]
                 out     == trips[k][1]
                 stay    == trips[k][2]
                 back    == trips[k][3]
                 arrival == SentAt(k) + out + offset
                 slip1   == IF k <= session.last_updated THEN 0 ELSE Slip(SentAt(k))
             IN  /\ calculate_rtt(p) = Abs(out + stay + back - slip1)
                 /\ calculate_owd_forward(p) = out + offset + Slip(arrival) - slip1
                 /\ calculate_owd_backward(p) = back - offset - Slip(arrival + stay)
                 /\ calculate_rpd(p) = Abs(stay + Slip(arrival + stay) - Slip(arrival))
  BY DEF DelaysExact
<1> DEFINE p       == session.results[k]
           trip    == trips[k]
           out     == trip[1]
           stay    == trip[2]
           back    == trip[3]
           at      == SentAt(k)
           arrival == at + out + offset
           leaving == at + out + stay + offset
           home    == at + out + stay + back
           corrected == k <= session.last_updated
           slip1   == IF corrected THEN 0 ELSE Slip(at)
<1>2. trip \in Trips /\ offset \in Offsets /\ start \in Starts /\ k \in Nat \ {0}
  BY <1>1, Facts
<1>3. Says(p, k - 1, at, offset, corrected, trip)
  BY DEF MeasurementInv, Recorded
<1>4. /\ at \in Nat /\ out \in Nat /\ stay \in Nat /\ back \in Nat /\ offset \in Int
      /\ arrival \in Nat /\ leaving \in Nat /\ home \in Nat
  BY <1>2, Clocks, TripsAssumption
<1> DEFINE R == NSECS_CONVERSION * Seconds
           N == NSECS_CONVERSION
<1>5. /\ at < R - N /\ arrival < R - N /\ leaving < R - N /\ home < R - N
  BY <1>2, TimesInRange
<1>6. arrival + stay = leaving
  BY <1>4
<1>7. /\ p.t1 = IF corrected THEN from_timespec(at) ELSE Carried(at)
      /\ p.t2 = Carried(arrival) /\ p.t3 = Carried(leaving)
      /\ p.t4 = from_timespec(home)
  BY <1>1, <1>3 DEF Says
<1>8. R \in Nat /\ N \in Nat
  BY UnitsAssumption, Product
<1> HIDE DEF p, trip, at, arrival, leaving, home, corrected
<1>9. /\ at < R /\ home < R /\ at + N < R /\ arrival + N < R /\ leaving + N < R
  <2> HIDE DEF R, N
  <2> QED BY <1>4, <1>5, <1>8
<1>10. p.t1 \in DateTime /\ Nanos(p.t1) = at + slip1 /\ slip1 \in Nat
  <2>1. CASE corrected
    BY <1>4, <1>7, <1>9, <2>1, ShownExact
  <2>2. CASE ~ corrected
    BY <1>4, <1>7, <1>9, <2>2, CarriedNanos
  <2> QED BY <2>1, <2>2
<1>11. /\ p.t2 \in DateTime /\ Nanos(p.t2) = arrival + Slip(arrival)
       /\ Slip(arrival) \in Nat
  BY <1>4, <1>7, <1>9, CarriedNanos
<1>12. /\ p.t3 \in DateTime /\ Nanos(p.t3) = leaving + Slip(leaving)
       /\ Slip(leaving) \in Nat
  BY <1>4, <1>7, <1>9, CarriedNanos
<1>13. p.t4 \in DateTime /\ Nanos(p.t4) = home
  BY <1>4, <1>7, <1>9, ShownExact
<1> HIDE DEF slip1, R, N
<1>14. /\ calculate_rtt(p) = Abs(home - (at + slip1))
       /\ calculate_owd_forward(p) = (arrival + Slip(arrival)) - (at + slip1)
       /\ calculate_owd_backward(p) = home - (leaving + Slip(leaving))
       /\ calculate_rpd(p) = Abs((leaving + Slip(leaving)) - (arrival + Slip(arrival)))
  <2>1. calculate_rtt(p) = Abs(Nanos(p.t4) - Nanos(p.t1))
    BY <1>10, <1>13, Differences DEF calculate_rtt
  <2>2. calculate_owd_forward(p) = Nanos(p.t2) - Nanos(p.t1)
    BY <1>10, <1>11, Differences DEF calculate_owd_forward
  <2>3. calculate_owd_backward(p) = Nanos(p.t4) - Nanos(p.t3)
    BY <1>12, <1>13, Differences DEF calculate_owd_backward
  <2>4. calculate_rpd(p) = Abs(Nanos(p.t3) - Nanos(p.t2))
    BY <1>11, <1>12, Differences DEF calculate_rpd
  <2>5. /\ Nanos(p.t1) = at + slip1 /\ Nanos(p.t2) = arrival + Slip(arrival)
        /\ Nanos(p.t3) = leaving + Slip(leaving) /\ Nanos(p.t4) = home
    BY <1>10, <1>11, <1>12, <1>13
  <2>6. calculate_rtt(p) = Abs(home - (at + slip1))
    BY <2>1, <2>5, Zenon
  <2>7. calculate_owd_forward(p) = (arrival + Slip(arrival)) - (at + slip1)
    BY <2>2, <2>5
  <2>8. calculate_owd_backward(p) = home - (leaving + Slip(leaving))
    BY <2>3, <2>5, Zenon
  <2>9. calculate_rpd(p) = Abs((leaving + Slip(leaving)) - (arrival + Slip(arrival)))
    BY <2>4, <2>5, Zenon
  <2> QED BY <2>6, <2>7, <2>8, <2>9, Zenon
<1> DEFINE s2 == Slip(arrival)
           s3 == Slip(leaving)
<1>15. s2 \in Nat /\ s3 \in Nat
  BY <1>11, <1>12
<1> HIDE DEF s2, s3, out, stay, back
<1>16. /\ arrival = at + out + offset /\ leaving = at + out + stay + offset
       /\ home = at + out + stay + back
  BY DEF arrival, leaving, home
<1>17. /\ home - (at + slip1) = out + stay + back - slip1
       /\ (arrival + s2) - (at + slip1) = out + offset + s2 - slip1
       /\ home - (leaving + s3) = back - offset - s3
       /\ (leaving + s3) - (arrival + s2) = stay + s3 - s2
  BY <1>4, <1>10, <1>15, <1>16
<1>18. /\ calculate_rtt(p) = Abs(out + stay + back - slip1)
       /\ calculate_owd_forward(p) = out + offset + Slip(arrival) - slip1
       /\ calculate_owd_backward(p) = back - offset - Slip(arrival + stay)
       /\ calculate_rpd(p) = Abs(stay + Slip(arrival + stay) - Slip(arrival))
  BY <1>6, <1>14, <1>17 DEF s2, s3
<1> QED BY <1>18 DEF p, trip, out, stay, back, at, arrival, corrected, slip1

\* Every delay taken from a record is the true one, except for the seconds by
\* which a time carried in a packet may have slipped: for all units of time,
\* offsets, starts and trips, for any number of packets, answered or not, and
\* with the kernel's times coming at any moment, as long as the clocks do not run
\* out of seconds.
THEOREM DelaysTrue == Spec => []DelaysExact
<1> QED BY RecordsTrue, DelaysOfRecords, PTL

-----------------------------------------------------------------------------
(* Order statistics.                                                       *)

\* The ranks of the percentiles, and where they lie.
LEMMA Ranks ==
    ASSUME NEW n \in Nat \ {0}
    PROVE  /\ (2 * 25 * (n - 1) + 100) \div 200 \in 0 .. n - 1
           /\ (2 * 75 * (n - 1) + 100) \div 200 \in 0 .. n - 1
           /\ n \div 2 \in 0 .. n - 1
           /\ n % 2 = 0 =>
                /\ (2 * 25 * (n - 1) + 100) \div 200 + 1 <= n \div 2
                /\ n \div 2 <= (2 * 75 * (n - 1) + 100) \div 200
                /\ n \div 2 >= 1
           /\ n % 2 # 0 =>
                /\ (2 * 25 * (n - 1) + 100) \div 200 <= n \div 2
                /\ n \div 2 <= (2 * 75 * (n - 1) + 100) \div 200
  OBVIOUS

\* A sum of two numbers lies between twice a lower and twice an upper bound of both.
LEMMA SumBetween ==
    ASSUME NEW l \in Int, NEW h \in Int, NEW p \in Int, NEW q \in Int,
           l <= p, l <= q, p <= h, q <= h
    PROVE  2 * l <= p + q /\ p + q <= 2 * h
  OBVIOUS

\* Of a sorted sample of any size, percentile() and median() never index out of
\* bounds, and minimum, lower percentile, median, upper percentile and maximum are
\* in this order.
THEOREM PercentilesOrdered ==
    ASSUME NEW v \in Seq(Int), v # <<>>,
           \A i, j \in 1 .. Len(v) : i <= j => v[i] <= v[j]
    PROVE  /\ v[1] <= percentile(v, 25)
           /\ 2 * percentile(v, 25) <= median(v)
           /\ median(v) <= 2 * percentile(v, 75)
           /\ percentile(v, 75) <= v[Len(v)]
<1> DEFINE n == Len(v)
           a == (2 * 25 * (n - 1) + 100) \div 200
           b == (2 * 75 * (n - 1) + 100) \div 200
           mid == n \div 2
<1>1. n \in Nat \ {0}
  BY EmptySeq
<1>2. \A i \in 1 .. n : v[i] \in Int
  BY ElementOfSeq
<1> HIDE DEF n
<1>3. /\ a \in 0 .. n - 1 /\ b \in 0 .. n - 1 /\ mid \in 0 .. n - 1
      /\ n % 2 = 0 => a + 1 <= mid /\ mid <= b /\ mid >= 1
      /\ n % 2 # 0 => a <= mid /\ mid <= b
  BY <1>1, Ranks
<1>4. percentile(v, 25) = v[a + 1] /\ percentile(v, 75) = v[b + 1]
  BY DEF percentile, n
<1>5. median(v) = IF n % 2 = 0 THEN v[mid] + v[mid + 1] ELSE 2 * v[mid + 1]
  BY DEF median, n
<1> HIDE DEF a, b, mid
<1>6. /\ 1 \in 1 .. n /\ n \in 1 .. n /\ a + 1 \in 1 .. n /\ b + 1 \in 1 .. n
      /\ mid + 1 \in 1 .. n /\ 1 <= a + 1 /\ b + 1 <= n
  BY <1>1, <1>3
<1>7. \A i, j \in 1 .. n : i <= j => v[i] <= v[j]
  BY DEF n
<1>8. v[1] <= v[a + 1] /\ v[b + 1] <= v[n]
  BY <1>6, <1>7
<1>9. /\ 2 * v[a + 1] <= median(v)
      /\ median(v) <= 2 * v[b + 1]
  <2>1. CASE n % 2 = 0
    <3>1. /\ mid \in 1 .. n /\ a + 1 <= mid /\ a + 1 <= mid + 1
          /\ mid <= b + 1 /\ mid + 1 <= b + 1
      BY <1>1, <1>3, <2>1
    <3>2. v[a + 1] <= v[mid] /\ v[a + 1] <= v[mid + 1]
      BY <1>6, <1>7, <3>1
    <3>3. v[mid] <= v[b + 1] /\ v[mid + 1] <= v[b + 1]
      BY <1>6, <1>7, <3>1
    <3>4. v[a + 1] \in Int /\ v[b + 1] \in Int /\ v[mid] \in Int /\ v[mid + 1] \in Int
      BY <1>2, <1>6, <3>1
    <3>5. median(v) = v[mid] + v[mid + 1]
      BY <1>5, <2>1
    <3>6. /\ 2 * v[a + 1] <= v[mid] + v[mid + 1]
          /\ v[mid] + v[mid + 1] <= 2 * v[b + 1]
      BY <3>2, <3>3, <3>4, SumBetween
    <3> QED BY <3>5, <3>6
  <2>2. CASE n % 2 # 0
    <3>1. a + 1 <= mid + 1 /\ mid + 1 <= b + 1
      BY <1>1, <1>3, <2>2
    <3>2. v[a + 1] <= v[mid + 1] /\ v[mid + 1] <= v[b + 1]
      BY <1>6, <1>7, <3>1
    <3>3. v[a + 1] \in Int /\ v[b + 1] \in Int /\ v[mid + 1] \in Int
      BY <1>2, <1>6
    <3> QED BY <1>5, <2>2, <3>2, <3>3
  <2> QED BY <2>1, <2>2
<1> QED BY <1>4, <1>8, <1>9 DEF n

-----------------------------------------------------------------------------
(* Sums.                                                                   *)

\* A sum is taken one element after the other.
LEMMA SumsUnfold ==
    ASSUME NEW v, Len(v) \in Nat
    PROVE  /\ Sums(v)[0] = 0
           /\ \A k \in 1 .. Len(v) : Sums(v)[k] = Sums(v)[k - 1] + v[k]
<1> DEFINE Is(f, n) == f = [k \in 0 .. n |-> IF k = 0 THEN 0 ELSE f[k - 1] + v[k]]
           T == {n \in Nat : \E f : Is(f, n)}
<1>1. 0 \in T
  <2>1. Is([k \in 0 .. 0 |-> 0], 0)
    OBVIOUS
  <2> QED BY <2>1
<1>2. ASSUME NEW n \in T PROVE n + 1 \in T
  <2>1. n \in Nat
    OBVIOUS
  <2>2. PICK f : Is(f, n)
    OBVIOUS
  <2> DEFINE g == [k \in 0 .. n + 1 |-> IF k = 0 THEN 0 ELSE f[k - 1] + v[k]]
  <2>3. \A k \in 0 .. n : g[k] = f[k]
    BY <2>1, <2>2
  <2>4. \A k \in 0 .. n + 1 : k = 0 \/ k - 1 \in 0 .. n
    BY <2>1
  <2>5. Is(g, n + 1)
    BY <2>1, <2>3, <2>4
  <2> HIDE DEF Is, g
  <2> QED BY <2>1, <2>5
<1>3. T = Nat
  <2> HIDE DEF T
  <2>1. T \in SUBSET Nat
    BY DEF T
  <2> QED BY <1>1, <1>2, <2>1, Induction
<1>4. \E f : Is(f, Len(v))
  BY <1>3
<1>5. Sums(v) = CHOOSE f : Is(f, Len(v))
  BY DEF Sums
<1> HIDE DEF Is
<1>6. Is(Sums(v), Len(v))
  BY <1>4, <1>5
<1> DEFINE f == Sums(v)
<1>7. f = [k \in 0 .. Len(v) |-> IF k = 0 THEN 0 ELSE f[k - 1] + v[k]]
  BY <1>6 DEF Is
<1> HIDE DEF f
<1>8. \A k \in 0 .. Len(v) : f[k] = IF k = 0 THEN 0 ELSE f[k - 1] + v[k]
  BY <1>7
<1> QED BY <1>8 DEF f

\* The sums of numbers are numbers.
LEMMA SumsType ==
    ASSUME NEW n \in Nat, NEW v \in [1 .. n -> Int]
    PROVE  /\ Len(v) = n /\ Sum(v) = Sums(v)[n] /\ Sums(v)[0] = 0
           /\ \A k \in 1 .. n : Sums(v)[k] = Sums(v)[k - 1] + v[k]
           /\ \A k \in 0 .. n : Sums(v)[k] \in Int
<1> DEFINE f == Sums(v)
           T == {k \in Nat : k <= n => f[k] \in Int}
<1>0. Len(v) = n /\ Sum(v) = f[n]
  BY FunctionIsSeq DEF Sum
<1>1. f[0] = 0 /\ \A k \in 1 .. n : f[k] = f[k - 1] + v[k]
  BY <1>0, SumsUnfold
<1> HIDE DEF f
<1>2. 0 \in T
  BY <1>1
<1>3. ASSUME NEW i \in T PROVE i + 1 \in T
  <2>1. i \in Nat
    OBVIOUS
  <2> SUFFICES ASSUME i + 1 <= n PROVE f[i + 1] \in Int
    BY <2>1
  <2>2. f[i] \in Int /\ i + 1 \in 1 .. n /\ (i + 1) - 1 = i
    BY <2>1
  <2>3. f[i + 1] = f[i] + v[i + 1] /\ v[i + 1] \in Int
    BY <1>1, <2>2
  <2> QED BY <2>2, <2>3
<1>4. T = Nat
  <2> HIDE DEF T
  <2>1. T \in SUBSET Nat
    BY DEF T
  <2> QED BY <1>2, <1>3, <2>1, Induction
<1>5. \A k \in 0 .. n : f[k] \in Int
  BY <1>4
<1> QED BY <1>0, <1>1, <1>5 DEF f

\* Larger elements have a larger sum.
LEMMA SumMonotone ==
    ASSUME NEW n \in Nat, NEW u \in [1 .. n -> Int], NEW v \in [1 .. n -> Int],
           \A k \in 1 .. n : u[k] <= v[k]
    PROVE  Sum(u) <= Sum(v)
<1> DEFINE f == Sums(u)
           g == Sums(v)
           T == {k \in Nat : k <= n => f[k] <= g[k]}
<1>1. /\ Sum(u) = f[n] /\ f[0] = 0 /\ \A k \in 1 .. n : f[k] = f[k - 1] + u[k]
      /\ \A k \in 0 .. n : f[k] \in Int
  BY SumsType
<1>2. /\ Sum(v) = g[n] /\ g[0] = 0 /\ \A k \in 1 .. n : g[k] = g[k - 1] + v[k]
      /\ \A k \in 0 .. n : g[k] \in Int
  BY SumsType
<1> HIDE DEF f, g
<1>3. 0 \in T
  BY <1>1, <1>2
<1>4. ASSUME NEW i \in T PROVE i + 1 \in T
  <2>1. i \in Nat
    OBVIOUS
  <2> SUFFICES ASSUME i + 1 <= n PROVE f[i + 1] <= g[i + 1]
    BY <2>1
  <2>2. f[i] <= g[i] /\ i \in 0 .. n /\ i + 1 \in 1 .. n /\ (i + 1) - 1 = i
    BY <2>1
  <2>3. f[i + 1] = f[i] + u[i + 1] /\ g[i + 1] = g[i] + v[i + 1]
    BY <1>1, <1>2, <2>2
  <2>4. /\ u[i + 1] <= v[i + 1] /\ u[i + 1] \in Int /\ v[i + 1] \in Int
        /\ f[i] \in Int /\ g[i] \in Int
    BY <1>1, <1>2, <2>2
  <2> QED BY <2>2, <2>3, <2>4
<1>5. T = Nat
  <2> HIDE DEF T
  <2>1. T \in SUBSET Nat
    BY DEF T
  <2> QED BY <1>3, <1>4, <2>1, Induction
<1>6. f[n] <= g[n]
  BY <1>5
<1> QED BY <1>1, <1>2, <1>6

\* The sum of sums.
LEMMA SumAdded ==
    ASSUME NEW n \in Nat, NEW u \in [1 .. n -> Int], NEW v \in [1 .. n -> Int],
           NEW w \in [1 .. n -> Int], \A k \in 1 .. n : w[k] = u[k] + v[k]
    PROVE  Sum(w) = Sum(u) + Sum(v)
<1> DEFINE f == Sums(u)
           g == Sums(v)
           h == Sums(w)
           T == {k \in Nat : k <= n => h[k] = f[k] + g[k]}
<1>1. /\ Sum(u) = f[n] /\ f[0] = 0 /\ \A k \in 1 .. n : f[k] = f[k - 1] + u[k]
      /\ \A k \in 0 .. n : f[k] \in Int
  BY SumsType
<1>2. /\ Sum(v) = g[n] /\ g[0] = 0 /\ \A k \in 1 .. n : g[k] = g[k - 1] + v[k]
      /\ \A k \in 0 .. n : g[k] \in Int
  BY SumsType
<1>3. /\ Sum(w) = h[n] /\ h[0] = 0 /\ \A k \in 1 .. n : h[k] = h[k - 1] + w[k]
  BY SumsType
<1> HIDE DEF f, g, h
<1>4. 0 \in T
  BY <1>1, <1>2, <1>3
<1>5. ASSUME NEW i \in T PROVE i + 1 \in T
  <2>1. i \in Nat
    OBVIOUS
  <2> SUFFICES ASSUME i + 1 <= n PROVE h[i + 1] = f[i + 1] + g[i + 1]
    BY <2>1
  <2>2. h[i] = f[i] + g[i] /\ i \in 0 .. n /\ i + 1 \in 1 .. n /\ (i + 1) - 1 = i
    BY <2>1
  <2>3. /\ f[i + 1] = f[i] + u[i + 1] /\ g[i + 1] = g[i] + v[i + 1]
        /\ h[i + 1] = h[i] + w[i + 1]
    BY <1>1, <1>2, <1>3, <2>2
  <2>4. /\ u[i + 1] \in Int /\ v[i + 1] \in Int /\ f[i] \in Int /\ g[i] \in Int
        /\ w[i + 1] = u[i + 1] + v[i + 1]
    BY <1>1, <1>2, <2>2
  <2> QED BY <2>2, <2>3, <2>4
<1>6. T = Nat
  <2> HIDE DEF T
  <2>1. T \in SUBSET Nat
    BY DEF T
  <2> QED BY <1>4, <1>5, <2>1, Induction
<1>7. h[n] = f[n] + g[n]
  BY <1>6
<1> QED BY <1>1, <1>2, <1>3, <1>7

\* The sum of a linear expression.
LEMMA SumLinear ==
    ASSUME NEW n \in Nat, NEW u \in [1 .. n -> Int], NEW a \in Int, NEW c \in Int
    PROVE  LET w == [k \in 1 .. n |-> a * u[k] + c]
           IN  w \in [1 .. n -> Int] /\ Sum(w) = a * Sum(u) + c * n
<1> DEFINE w == [k \in 1 .. n |-> a * u[k] + c]
           f == Sums(u)
           h == Sums(w)
           T == {k \in Nat : k <= n => h[k] = a * f[k] + c * k}
<1>0. w \in [1 .. n -> Int] /\ \A k \in 1 .. n : w[k] = a * u[k] + c
  OBVIOUS
<1> HIDE DEF w
<1>1. /\ Sum(u) = f[n] /\ f[0] = 0 /\ \A k \in 1 .. n : f[k] = f[k - 1] + u[k]
      /\ \A k \in 0 .. n : f[k] \in Int
  BY SumsType
<1>2. /\ Sum(w) = h[n] /\ h[0] = 0 /\ \A k \in 1 .. n : h[k] = h[k - 1] + w[k]
  <2>1. w \in [1 .. n -> Int]
    BY <1>0
  <2> QED BY <2>1, SumsType
<1> HIDE DEF f, h
<1>3. 0 \in T
  <2>1. a * 0 + c * 0 = 0
    OBVIOUS
  <2>2. f[0] = 0 /\ h[0] = 0
    BY <1>1, <1>2
  <2> QED BY <2>1, <2>2
<1>4. ASSUME NEW i \in T PROVE i + 1 \in T
  <2>1. i \in Nat
    OBVIOUS
  <2> SUFFICES ASSUME i + 1 <= n PROVE h[i + 1] = a * f[i + 1] + c * (i + 1)
    BY <2>1
  <2>2. /\ h[i] = a * f[i] + c * i
        /\ i \in 0 .. n /\ i + 1 \in 1 .. n /\ (i + 1) - 1 = i
    BY <2>1
  <2> DEFINE x == f[i]
             d == u[i + 1]
  <2>3. f[i + 1] = x + d /\ h[i + 1] = h[i] + w[i + 1]
    BY <1>1, <1>2, <2>2
  <2>4. d \in Int /\ x \in Int /\ w[i + 1] = a * d + c
    BY <1>0, <1>1, <2>2
  <2>5. h[i] = a * x + c * i
    BY <2>2
  <2> HIDE DEF x, d
  <2>6. a * (x + d) = a * x + a * d /\ c * (i + 1) = c * i + c
    BY <2>1, <2>4
  <2>7. a * x \in Int /\ a * d \in Int /\ c * i \in Int
    BY <2>1, <2>4
  <2> QED BY <2>3, <2>4, <2>5, <2>6, <2>7
<1>5. T = Nat
  <2> HIDE DEF T
  <2>1. T \in SUBSET Nat
    BY DEF T
  <2> QED BY <1>3, <1>4, <2>1, Induction
<1>6. h[n] = a * f[n] + c * n
  BY <1>5
<1>7. Sum(w) = a * Sum(u) + c * n
  BY <1>1, <1>2, <1>6
<1> QED BY <1>0, <1>7 DEF w

\* Samples that differ in one element.
LEMMA SumOneElement ==
    ASSUME NEW n \in Nat, NEW u \in [1 .. n -> Int], NEW v \in [1 .. n -> Int],
           NEW m \in 1 .. n, \A k \in 1 .. n : k # m => u[k] = v[k]
    PROVE  Sum(u) = Sum(v) + (u[m] - v[m])
<1> DEFINE f == Sums(u)
           g == Sums(v)
           d == u[m] - v[m]
           T == {k \in Nat : k <= n => f[k] = g[k] + (IF k >= m THEN d ELSE 0)}
<1>1. /\ Sum(u) = f[n] /\ f[0] = 0 /\ \A k \in 1 .. n : f[k] = f[k - 1] + u[k]
      /\ \A k \in 0 .. n : f[k] \in Int
  BY SumsType
<1>2. /\ Sum(v) = g[n] /\ g[0] = 0 /\ \A k \in 1 .. n : g[k] = g[k - 1] + v[k]
      /\ \A k \in 0 .. n : g[k] \in Int
  BY SumsType
<1>3. d \in Int /\ u[m] = v[m] + d /\ v[m] \in Int
  OBVIOUS
<1> HIDE DEF f, g, d
<1>4. 0 \in T
  <2>1. ~ (0 >= m) /\ 0 + 0 = 0
    OBVIOUS
  <2>2. f[0] = 0 /\ g[0] = 0
    BY <1>1, <1>2
  <2> QED BY <2>1, <2>2
<1>5. ASSUME NEW i \in T PROVE i + 1 \in T
  <2>1. i \in Nat
    OBVIOUS
  <2> SUFFICES ASSUME i + 1 <= n
               PROVE  f[i + 1] = g[i + 1] + (IF i + 1 >= m THEN d ELSE 0)
    BY <2>1
  <2>2. /\ f[i] = g[i] + (IF i >= m THEN d ELSE 0)
        /\ i \in 0 .. n /\ i + 1 \in 1 .. n /\ (i + 1) - 1 = i
    BY <2>1
  <2>3. /\ f[i + 1] = f[i] + u[i + 1] /\ g[i + 1] = g[i] + v[i + 1]
        /\ v[i + 1] \in Int /\ g[i] \in Int
    BY <1>1, <1>2, <2>2
  <2>4. u[i + 1] = IF i + 1 = m THEN v[i + 1] + d ELSE v[i + 1]
    BY <1>3, <2>2
  <2> QED BY <1>3, <2>1, <2>2, <2>3, <2>4
<1>6. T = Nat
  <2> HIDE DEF T
  <2>1. T \in SUBSET Nat
    BY DEF T
  <2> QED BY <1>4, <1>5, <2>1, Induction
<1>7. f[n] = g[n] + d
  BY <1>6
<1> QED BY <1>1, <1>2, <1>7 DEF d

\* The sum of a sample without its last element.
LEMMA SumPrefix ==
    ASSUME NEW n \in Nat, NEW v \in [1 .. n + 1 -> Int]
    PROVE  LET u == [k \in 1 .. n |-> v[k]]
           IN  u \in [1 .. n -> Int] /\ Sum(v) = Sum(u) + v[n + 1] /\ Sum(u) \in Int
<1> DEFINE u == [k \in 1 .. n |-> v[k]]
           f == Sums(u)
           g == Sums(v)
           T == {k \in Nat : k <= n => f[k] = g[k]}
<1>0. u \in [1 .. n -> Int] /\ n + 1 \in Nat /\ \A k \in 1 .. n : u[k] = v[k]
  OBVIOUS
<1> HIDE DEF u
<1>1. /\ Sum(u) = f[n] /\ f[0] = 0 /\ \A k \in 1 .. n : f[k] = f[k - 1] + u[k]
      /\ \A k \in 0 .. n : f[k] \in Int
  BY <1>0, SumsType
<1>2. /\ Sum(v) = g[n + 1] /\ g[0] = 0 /\ \A k \in 1 .. n + 1 : g[k] = g[k - 1] + v[k]
  BY <1>0, SumsType
<1> HIDE DEF f, g
<1>3. 0 \in T
  BY <1>1, <1>2
<1>4. ASSUME NEW i \in T PROVE i + 1 \in T
  <2>1. i \in Nat
    OBVIOUS
  <2> SUFFICES ASSUME i + 1 <= n PROVE f[i + 1] = g[i + 1]
    BY <2>1
  <2>2. f[i] = g[i] /\ i + 1 \in 1 .. n /\ i + 1 \in 1 .. n + 1 /\ (i + 1) - 1 = i
    BY <2>1
  <2> QED BY <1>0, <1>1, <1>2, <2>2
<1>5. T = Nat
  <2> HIDE DEF T
  <2>1. T \in SUBSET Nat
    BY DEF T
  <2> QED BY <1>3, <1>4, <2>1, Induction
<1>6. f[n] = g[n]
  BY <1>5
<1>7. n + 1 \in 1 .. n + 1 /\ (n + 1) - 1 = n /\ n \in 0 .. n
  OBVIOUS
<1>8. Sum(v) = Sum(u) + v[n + 1] /\ Sum(u) \in Int
  BY <1>1, <1>2, <1>6, <1>7
<1> QED BY <1>0, <1>8 DEF u

\* A sum does not depend on the order of its elements.
LEMMA SumPermuted ==
    ASSUME NEW n \in Nat, NEW v \in [1 .. n -> Int], NEW p \in Bijection(1 .. n, 1 .. n)
    PROVE  Sum([k \in 1 .. n |-> v[p[k]]]) = Sum(v)
<1> DEFINE Same(i) == \A x \in [1 .. i -> Int] : \A q \in Bijection(1 .. i, 1 .. i) :
                         Sum([k \in 1 .. i |-> x[q[k]]]) = Sum(x)
           T == {i \in Nat : Same(i)}
<1>1. 0 \in T
  <2> SUFFICES ASSUME NEW x \in [1 .. 0 -> Int], NEW q \in Bijection(1 .. 0, 1 .. 0)
               PROVE  Sum([k \in 1 .. 0 |-> x[q[k]]]) = Sum(x)
    OBVIOUS
  <2>1. x = [k \in 1 .. 0 |-> x[q[k]]]
    OBVIOUS
  <2> QED BY <2>1
<1>2. ASSUME NEW i \in T PROVE i + 1 \in T
  <2>0. i \in Nat /\ Same(i)
    OBVIOUS
  <2> HIDE DEF T
  <2> DEFINE D == 1 .. i
             E == 1 .. i + 1
  <2> SUFFICES ASSUME NEW x \in [E -> Int], NEW q \in Bijection(E, E)
               PROVE  Sum([k \in E |-> x[q[k]]]) = Sum(x)
    BY <2>0 DEF T
  <2>1. /\ q \in [E -> E] /\ \A j, k \in E : q[j] = q[k] => j = k
        /\ \A e \in E : \E k \in E : q[k] = e
    BY DEF Bijection, Injection, Surjection, IsInjective
  <2>2. i + 1 \in E /\ \A k \in E : k \in D \/ k = i + 1
    BY <2>0
  <2>2a. D \subseteq E /\ i + 1 \notin D
    BY <2>0
  <2>3. PICK m \in E : q[m] = i + 1
    BY <2>1, <2>2
  <2> DEFINE z == i + 1
             l == q[z]
             y == [k \in E |-> x[q[k]]]
             yd == [k \in D |-> y[k]]
             xd == [k \in D |-> x[k]]
             r == [k \in D |-> IF k = m THEN l ELSE q[k]]
             xr == [k \in D |-> xd[r[k]]]
  <2>4. l \in E /\ y \in [E -> Int] /\ y[z] = x[l] /\ x[l] \in Int /\ x[z] \in Int
    BY <2>1, <2>2
  <2>5. yd \in [D -> Int] /\ Sum(y) = Sum(yd) + y[z] /\ Sum(yd) \in Int
    <3> HIDE DEF y
    <3> QED BY <2>0, <2>4, SumPrefix
  <2>6. xd \in [D -> Int] /\ Sum(x) = Sum(xd) + x[z] /\ Sum(xd) \in Int
    BY <2>0, SumPrefix
  <2>7. ASSUME NEW k \in D PROVE r[k] \in D
    <3>1. CASE k = m
      <4>1. l # z
        BY <2>1, <2>2, <2>2a, <2>3, <3>1
      <4> QED BY <2>2, <2>4, <3>1, <4>1
    <3>2. CASE k # m
      <4>1. q[k] \in E /\ q[k] # z
        BY <2>1, <2>2a, <2>3, <3>2
      <4> QED BY <2>2, <3>2, <4>1
    <3> QED BY <3>1, <3>2
  <2>8. ASSUME NEW j \in D, NEW k \in D, r[j] = r[k] PROVE j = k
    <3>1. j \in E /\ k \in E /\ z \in E /\ j # z /\ k # z
      BY <2>2, <2>2a
    <3> HIDE DEF E, D, z
    <3> QED BY <2>1, <2>8, <3>1 DEF r
  <2>9. ASSUME NEW e \in D PROVE \E k \in D : r[k] = e
    <3>1. PICK k \in E : q[k] = e
      BY <2>1, <2>2a
    <3>2. CASE k \in D
      <4>1. k # m
        BY <2>2a, <2>3, <3>1
      <4> QED BY <3>1, <3>2, <4>1
    <3>3. CASE k = z
      <4>1. m # z /\ m \in D
        BY <2>2, <2>2a, <2>3, <3>1, <3>3
      <4>2. r[m] = e
        BY <3>1, <3>3, <4>1
      <4> QED BY <4>1, <4>2
    <3> QED BY <2>2, <3>2, <3>3
  <2>10. r \in Bijection(D, D)
    <3>1. r \in [D -> D]
      BY <2>7
    <3> HIDE DEF r
    <3> QED BY <2>8, <2>9, <3>1 DEF Bijection, Injection, Surjection, IsInjective
  <2>11. Sum(xr) = Sum(xd)
    <3> HIDE DEF r, xd
    <3> QED BY <2>0, <2>6, <2>10
  <2>12. xr \in [D -> Int]
    <3> HIDE DEF r, xd
    <3> QED BY <2>6, <2>7
  <2>13. Sum(yd) = Sum(xd) + (x[z] - x[l])
    <3>1. CASE m \in D
      <4>1. \A k \in D : k # m => yd[k] = xr[k]
        BY <2>2a, <2>7
      <4>2. yd[m] = x[z] /\ xr[m] = x[l]
        BY <2>2a, <2>3, <2>7, <3>1
      <4> HIDE DEF yd, xr, xd, r, l, y
      <4>3. Sum(yd) = Sum(xr) + (yd[m] - xr[m])
        BY <2>0, <2>5, <2>12, <3>1, <4>1, SumOneElement
      <4> QED BY <2>11, <4>2, <4>3
    <3>2. CASE m = z
      <4>1. l = z
        BY <2>3, <3>2
      <4>2. \A k \in D : yd[k] = xr[k]
        BY <2>2a, <2>7, <3>2
      <4>3. yd = xr
        BY <4>2
      <4> HIDE DEF yd, xr, xd, l
      <4> QED BY <2>4, <2>6, <2>11, <4>1, <4>3
    <3> QED BY <2>2, <3>1, <3>2
  <2> HIDE DEF yd, xd, xr, r, l, y, z
  <2>14. Sum(y) = Sum(x)
    BY <2>4, <2>5, <2>6, <2>13
  <2> QED BY <2>14 DEF y
<1>3. T = Nat
  <2> HIDE DEF T
  <2>1. T \in SUBSET Nat
    BY DEF T
  <2> QED BY <1>1, <1>2, <2>1, Induction
<1>4. Same(n)
  BY <1>3
<1> QED BY <1>4

-----------------------------------------------------------------------------
(* Samples.                                                                *)

\* Sorting a sample rearranges it.
LEMMA SortedSample ==
    ASSUME NEW n \in Nat, NEW v \in [1 .. n -> Int]
    PROVE  /\ Sorted(v) \in [1 .. n -> Int]
           /\ \A i, j \in 1 .. n : i <= j => Sorted(v)[i] <= Sorted(v)[j]
           /\ \E p \in Bijection(1 .. n, 1 .. n) : Sorted(v) = [k \in 1 .. n |-> v[p[k]]]
<1> DEFINE D == 1 .. n
<1>1. D \in SUBSET Int /\ IsFiniteSet(D) /\ Cardinality(D) = n /\ DOMAIN v = D
      /\ \A i \in D : v[i] \in Int
  BY FS_Interval
<1> HIDE DEF D
<1>2. \E p \in [1 .. Cardinality(D) -> D] :
        /\ p \in Bijection(1 .. Cardinality(D), D)
        /\ \A seq : Arranged(seq, D, v) = [k \in 1 .. Cardinality(D) |-> seq[p[k]]]
        /\ \A i, j \in 1 .. Cardinality(D) : i < j =>
             \/ v[p[i]] < v[p[j]]
             \/ v[p[i]] = v[p[j]] /\ p[i] < p[j]
  BY <1>1, ArrangedProperties
<1>3. PICK p \in [D -> D] :
        /\ p \in Bijection(D, D)
        /\ Arranged(v, D, v) = [k \in D |-> v[p[k]]]
        /\ \A i, j \in D : i < j =>
             \/ v[p[i]] < v[p[j]]
             \/ v[p[i]] = v[p[j]] /\ p[i] < p[j]
  BY <1>1, <1>2 DEF D
<1>4. Sorted(v) = [k \in D |-> v[p[k]]]
  BY <1>1, <1>3 DEF Sorted
<1>5. Sorted(v) \in [D -> Int]
  BY <1>1, <1>4
<1>6. ASSUME NEW i \in D, NEW j \in D, i <= j PROVE Sorted(v)[i] <= Sorted(v)[j]
  <2>1. v[p[i]] \in Int /\ v[p[j]] \in Int /\ i \in Int /\ j \in Int
    BY <1>1
  <2>2. Sorted(v)[i] = v[p[i]] /\ Sorted(v)[j] = v[p[j]]
    BY <1>4
  <2>3. CASE i = j
    BY <2>1, <2>2, <2>3
  <2>4. CASE i < j
    BY <1>3, <2>1, <2>2, <2>4
  <2> QED BY <1>6, <2>1, <2>3, <2>4
<1> QED BY <1>3, <1>4, <1>5, <1>6 DEF D

\* The extremes of a sorted sample.
LEMMA SortedExtremes ==
    ASSUME NEW n \in Nat \ {0}, NEW v \in [1 .. n -> Int],
           \A i, j \in 1 .. n : i <= j => v[i] <= v[j]
    PROVE  Min(ToSet(v)) = v[1] /\ Max(ToSet(v)) = v[n]
<1>1. ToSet(v) = {v[k] : k \in 1 .. n}
  BY DEF ToSet
<1>2. 1 \in 1 .. n /\ n \in 1 .. n /\ \A k \in 1 .. n : 1 <= k /\ k <= n
  OBVIOUS
<1>3. \A x \in ToSet(v) : v[1] <= x /\ x <= v[n] /\ x \in Int
  BY <1>1, <1>2
<1>4. v[1] \in ToSet(v) /\ v[n] \in ToSet(v)
  BY <1>1, <1>2
<1> HIDE DEF ToSet
<1>5. Min(ToSet(v)) = v[1]
  BY <1>3, <1>4 DEF Min
<1>6. Max(ToSet(v)) = v[n]
  BY <1>3, <1>4 DEF Max
<1> QED BY <1>5, <1>6

\* A sum lies between the extremes, as often as there are elements.
LEMMA SumBounds ==
    ASSUME NEW n \in Nat, NEW v \in [1 .. n -> Int], NEW a \in Int, NEW b \in Int,
           \A k \in 1 .. n : a <= v[k] /\ v[k] <= b
    PROVE  a * n <= Sum(v) /\ Sum(v) <= b * n
<1>1. ASSUME NEW c \in Int
      PROVE  LET w == [k \in 1 .. n |-> c]
             IN  w \in [1 .. n -> Int] /\ Sum(w) = c * n
  <2> DEFINE z == [k \in 1 .. n |-> 0 * v[k] + c]
             w == [k \in 1 .. n |-> c]
  <2>1. z = w /\ 0 \in Int
    OBVIOUS
  <2>2. Sum(v) \in Int
    <3>1. n \in 0 .. n
      OBVIOUS
    <3> QED BY <3>1, SumsType
  <2>3. z \in [1 .. n -> Int] /\ Sum(z) = 0 * Sum(v) + c * n
    BY <2>1, SumLinear
  <2> HIDE DEF z, w
  <2>4. Sum(w) = c * n /\ w \in [1 .. n -> Int]
    BY <2>1, <2>2, <2>3
  <2> QED BY <2>4 DEF w
<1>2. a * n <= Sum(v)
  <2> DEFINE w == [k \in 1 .. n |-> a]
  <2>1. w \in [1 .. n -> Int] /\ Sum(w) = a * n
    BY <1>1
  <2>2. \A k \in 1 .. n : w[k] <= v[k]
    OBVIOUS
  <2> HIDE DEF w
  <2>3. Sum(w) <= Sum(v)
    BY <2>1, <2>2, SumMonotone
  <2> QED BY <2>1, <2>3
<1>3. Sum(v) <= b * n
  <2> DEFINE w == [k \in 1 .. n |-> b]
  <2>1. w \in [1 .. n -> Int] /\ Sum(w) = b * n
    BY <1>1
  <2>2. \A k \in 1 .. n : v[k] <= w[k]
    OBVIOUS
  <2> HIDE DEF w
  <2>3. Sum(v) <= Sum(w)
    BY <2>1, <2>2, SumMonotone
  <2> QED BY <2>1, <2>3
<1> QED BY <1>2, <1>3

\* The square of a deviation is at most a linear expression, on an interval.
LEMMA SquareBelowChord ==
    ASSUME NEW n \in Int, NEW s \in Int, NEW a \in Int, NEW b \in Int, NEW y \in Int,
           a <= y, y <= b
    PROVE  Square(n * y - s) <=
             (n * n * (a + b) - 2 * n * s) * y + (s * s - n * n * a * b)
<1>1. (y - a) * (b - y) >= 0
  <2>1. y - a \in Nat /\ b - y \in Nat
    OBVIOUS
  <2> DEFINE c == y - a
             d == b - y
  <2> HIDE DEF c, d
  <2>2. c * d \in Nat
    BY <2>1, Product DEF c, d
  <2> QED BY <2>2 DEF c, d
<1>2. (n * n) * ((y - a) * (b - y)) >= 0
  <2> DEFINE c == n * n
             d == (y - a) * (b - y)
  <2>1. c \in Nat /\ d \in Nat
    BY <1>1
  <2> HIDE DEF c, d
  <2>2. c * d \in Nat
    BY <2>1, Product
  <2> QED BY <2>2 DEF c, d
<1>3. ((n * n * (a + b) - 2 * n * s) * y + (s * s - n * n * a * b))
          - (n * y - s) * (n * y - s) = (n * n) * ((y - a) * (b - y))
  OBVIOUS
<1> DEFINE x == (n * n * (a + b) - 2 * n * s) * y + (s * s - n * n * a * b)
           z == (n * y - s) * (n * y - s)
           d == (n * n) * ((y - a) * (b - y))
<1>4. x \in Int /\ z \in Int /\ d \in Int /\ x - z = d /\ d >= 0
  BY <1>2, <1>3
<1> HIDE DEF x, z, d
<1>5. z <= x
  BY <1>4
<1> QED BY <1>5 DEF x, z, Square

\* What is left of the linear expression after summing up.
LEMMA ChordSum ==
    ASSUME NEW n \in Nat, NEW s \in Int, NEW a \in Int, NEW b \in Int
    PROVE  4 * ((n * n * (a + b) - 2 * n * s) * s + (s * s - n * n * a * b) * n)
             <= n * Square(n * (b - a))
<1> DEFINE x == 4 * ((n * n * (a + b) - 2 * n * s) * s + (s * s - n * n * a * b) * n)
           z == n * ((n * (b - a)) * (n * (b - a)))
           c == (n * (a + b) - 2 * s) * (n * (a + b) - 2 * s)
<1>1. z - x = n * c
  OBVIOUS
<1>2. x \in Int /\ z \in Int /\ c \in Nat
  OBVIOUS
<1> HIDE DEF x, z, c
<1>3. n * c \in Nat
  BY <1>2, Product
<1>4. x <= z
  BY <1>1, <1>2, <1>3
<1> QED BY <1>4 DEF x, z, Square

\* The deviation is at most half the distance of the extremes.
LEMMA DeviationBound ==
    ASSUME NEW n \in Nat, NEW v \in [1 .. n -> Int], NEW a \in Int, NEW b \in Int,
           \A k \in 1 .. n : a <= v[k] /\ v[k] <= b
    PROVE  /\ calculate_std_dev(v, n, Sum(v)) \in Int
           /\ 4 * calculate_std_dev(v, n, Sum(v)) <= n * Square(n * (b - a))
<1> DEFINE s == Sum(v)
           A == n * n * (a + b) - 2 * n * s
           C == s * s - n * n * a * b
           w == [k \in 1 .. n |-> Square(n * v[k] - s)]
           z == [k \in 1 .. n |-> A * v[k] + C]
<1>0. n \in 0 .. n
  OBVIOUS
<1>1. s \in Int
  BY <1>0, SumsType
<1> HIDE DEF s
<1>2. A \in Int /\ C \in Int
  BY <1>1
<1>3. ASSUME NEW k \in 1 .. n PROVE Square(n * v[k] - s) \in Int
  <2>1. v[k] \in Int
    OBVIOUS
  <2> QED BY <1>1, <2>1 DEF Square
<1>4. w \in [1 .. n -> Int]
  BY <1>3
<1>5. ASSUME NEW k \in 1 .. n PROVE w[k] <= z[k]
  <2>1. v[k] \in Int /\ a <= v[k] /\ v[k] <= b /\ n \in Int
    OBVIOUS
  <2> DEFINE y == v[k]
  <2>2. w[k] = Square(n * y - s) /\ z[k] = A * y + C
    OBVIOUS
  <2>3. y \in Int /\ a <= y /\ y <= b
    BY <2>1
  <2> HIDE DEF y
  <2>4. Square(n * y - s) <= A * y + C
    BY <1>1, <2>1, <2>3, SquareBelowChord
  <2> QED BY <2>2, <2>4
<1> HIDE DEF A, C
<1>8. z \in [1 .. n -> Int] /\ Sum(z) = A * Sum(v) + C * n
  BY <1>2, SumLinear
<1> HIDE DEF w, z
<1>9. Sum(w) <= Sum(z) /\ Sum(w) \in Int
  <2>1. Sum(w) <= Sum(z)
    BY <1>4, <1>5, <1>8, SumMonotone
  <2>2. Sum(w) \in Int
    BY <1>0, <1>4, SumsType
  <2> QED BY <2>1, <2>2
<1>10. 4 * (A * s + C * n) <= n * Square(n * (b - a))
  BY <1>1, ChordSum DEF A, C
<1>11. A * s \in Int /\ C * n \in Int /\ n * Square(n * (b - a)) \in Int
  BY <1>1, <1>2 DEF Square
<1> DEFINE As == A * s
           Cn == C * n
           d == n * Square(n * (b - a))
<1>12. Sum(z) = As + Cn
  BY <1>8 DEF s
<1> HIDE DEF As, Cn, d
<1>13. 4 * Sum(w) <= d
  BY <1>9, <1>10, <1>11, <1>12 DEF As, Cn, d
<1>14. calculate_std_dev(v, n, s) = Sum(w)
  <2>1. DOMAIN v = 1 .. n
    OBVIOUS
  <2> QED BY <2>1 DEF calculate_std_dev, w
<1> QED BY <1>9, <1>13, <1>14 DEF s, d

\* Percentiles and median of a sample that is not empty are numbers.
LEMMA PercentileTypes ==
    ASSUME NEW n \in Nat \ {0}, NEW v \in [1 .. n -> Int]
    PROVE  percentile(v, 25) \in Int /\ percentile(v, 75) \in Int /\ median(v) \in Int
<1> DEFINE a == (2 * 25 * (n - 1) + 100) \div 200
           b == (2 * 75 * (n - 1) + 100) \div 200
           mid == n \div 2
<1>0. Len(v) = n
  BY FunctionIsSeq
<1>1. /\ a \in 0 .. n - 1 /\ b \in 0 .. n - 1 /\ mid \in 0 .. n - 1
      /\ n % 2 = 0 => mid >= 1
  BY Ranks
<1>2. percentile(v, 25) = v[a + 1] /\ percentile(v, 75) = v[b + 1]
  BY <1>0 DEF percentile
<1>3. median(v) = IF n % 2 = 0 THEN v[mid] + v[mid + 1] ELSE 2 * v[mid + 1]
  BY <1>0 DEF median
<1> HIDE DEF a, b, mid
<1>4. a + 1 \in 1 .. n /\ b + 1 \in 1 .. n /\ mid + 1 \in 1 .. n
  BY <1>1
<1>5. v[a + 1] \in Int /\ v[b + 1] \in Int /\ v[mid + 1] \in Int
  BY <1>4
<1>6. n % 2 = 0 => v[mid] \in Int
  <2>1. n % 2 = 0 => mid \in 1 .. n
    BY <1>1
  <2> QED BY <2>1
<1> QED BY <1>2, <1>3, <1>5, <1>6

\* What SummariesOrdered says of the numbers reported of a sample.
Fits(x, n) ==
    /\ x.min <= x.low /\ 2 * x.low <= x.median
    /\ x.median <= 2 * x.high /\ x.high <= x.max
    /\ x.min * n <= x.avg /\ x.avg <= x.max * n
    /\ 4 * x.std_dev <= n * Square(n * (x.max - x.min))

\* The seven numbers reported of a sample of any size fit together.
LEMMA SummaryFacts ==
    ASSUME NEW n \in Nat \ {0}, NEW v \in [1 .. n -> Int]
    PROVE  /\ Summary(v, n) \in Delay /\ Summary(v, n).avg = Sum(v)
           /\ Fits(Summary(v, n), n)
<1> DEFINE s == Sorted(v)
           total == Sum(v)
           lo == s[1]
           hi == s[n]
           dev == calculate_std_dev(s, n, total)
           x == Summary(v, n)
<1>0. n \in Nat /\ 1 \in 1 .. n /\ n \in 1 .. n /\ n \in 0 .. n
  OBVIOUS
<1>1. /\ s \in [1 .. n -> Int]
      /\ \A i, j \in 1 .. n : i <= j => s[i] <= s[j]
      /\ \E p \in Bijection(1 .. n, 1 .. n) : s = [k \in 1 .. n |-> v[p[k]]]
  BY <1>0, SortedSample
<1>2. Sum(s) = total
  BY <1>0, <1>1, SumPermuted
<1> HIDE DEF s
<1>3. total \in Int
  BY <1>0, SumsType
<1>4. lo \in Int /\ hi \in Int /\ \A k \in 1 .. n : lo <= s[k] /\ s[k] <= hi
  BY <1>0, <1>1
<1>5. Min(ToSet(s)) = lo /\ Max(ToSet(s)) = hi
  BY <1>1, SortedExtremes
<1> HIDE DEF lo, hi
<1>6. lo * n <= total /\ total <= hi * n
  BY <1>0, <1>1, <1>2, <1>4, SumBounds
<1>7. dev \in Int /\ 4 * dev <= n * Square(n * (hi - lo))
  BY <1>0, <1>1, <1>2, <1>4, DeviationBound
<1> HIDE DEF dev
<1>8. /\ lo <= percentile(s, 25) /\ 2 * percentile(s, 25) <= median(s)
      /\ median(s) <= 2 * percentile(s, 75) /\ percentile(s, 75) <= hi
  <2>1. s \in Seq(Int) /\ Len(s) = n /\ s # <<>>
    BY <1>0, <1>1, FunctionIsSeq
  <2> QED BY <1>1, <2>1, PercentilesOrdered DEF lo, hi
<1>9. percentile(s, 25) \in Int /\ percentile(s, 75) \in Int /\ median(s) \in Int
  BY <1>1, PercentileTypes
<1>10. v # <<>>
  BY <1>0, FunctionIsSeq
<1>11. x = [avg |-> total, min |-> lo, max |-> hi, std_dev |-> dev,
            median |-> median(s), low |-> percentile(s, 25), high |-> percentile(s, 75)]
  BY <1>5, <1>10 DEF Summary, s, dev
<1> HIDE DEF x, total
<1>12. x \in Delay
  BY <1>3, <1>4, <1>7, <1>9, <1>11 DEF Delay
<1>13. x.avg = total
  BY <1>11
<1>14. Fits(x, n)
  BY <1>6, <1>7, <1>8, <1>11 DEF Fits
<1> QED BY <1>12, <1>13, <1>14 DEF x, total

\* The average and the deviation of jitter are numbers.
LEMMA JitterType ==
    ASSUME NEW n \in Nat, NEW v \in [1 .. n -> Int]
    PROVE  JitterSummary(v) \in [avg : Int, std_dev : Int] \cup {None}
<1>1. CASE v = <<>>
  BY <1>1 DEF JitterSummary
<1>2. CASE v # <<>>
  <2> DEFINE s == Sum(v)
             w == [k \in 1 .. n |-> Square(n * v[k] - s)]
  <2>0. n \in 0 .. n /\ Len(v) = n /\ DOMAIN v = 1 .. n
    BY FunctionIsSeq
  <2>1. s \in Int
    BY <2>0, SumsType
  <2> HIDE DEF s
  <2>2. ASSUME NEW k \in 1 .. n PROVE Square(n * v[k] - s) \in Int
    <3>1. v[k] \in Int
      OBVIOUS
    <3> QED BY <2>1, <3>1 DEF Square
  <2>3. w \in [1 .. n -> Int]
    BY <2>2
  <2>4. calculate_std_dev(v, Len(v), s) = Sum(w)
    BY <2>0 DEF calculate_std_dev
  <2> HIDE DEF w
  <2>5. Sum(w) \in Int
    BY <2>0, <2>3, SumsType
  <2>6. JitterSummary(v) = [avg |-> s, std_dev |-> Sum(w)]
    BY <1>2, <2>4 DEF JitterSummary, s
  <2> QED BY <2>1, <2>5, <2>6
<1> QED BY <1>1, <1>2

-----------------------------------------------------------------------------
(* The report.                                                             *)

\* The elements at some places of a sequence.
LEMMA AtProperties ==
    ASSUME NEW N \in Nat, NEW S \in SUBSET (1 .. N)
    PROVE  /\ IsFiniteSet(S) /\ Cardinality(S) \in Nat
           /\ \E p \in [1 .. Cardinality(S) -> S] :
                \A seq : At(seq, S) = [k \in 1 .. Cardinality(S) |-> seq[p[k]]]
<1> DEFINE key == [k \in S |-> k]
<1>1. S \in SUBSET Int /\ IsFiniteSet(S) /\ \A i \in S : key[i] \in Int
  <2>1. IsFiniteSet(1 .. N)
    BY FS_Interval
  <2>2. IsFiniteSet(S)
    BY <2>1, FS_Subset
  <2>3. S \in SUBSET Int /\ \A i \in S : key[i] \in Int
    OBVIOUS
  <2> QED BY <2>2, <2>3
<1>2. Cardinality(S) \in Nat
  BY <1>1, FS_CardinalityType
<1>3. \A seq : At(seq, S) = Arranged(seq, S, key)
  BY DEF At
<1> HIDE DEF key
<1>4. \E p \in [1 .. Cardinality(S) -> S] :
        /\ p \in Bijection(1 .. Cardinality(S), S)
        /\ \A seq : Arranged(seq, S, key) = [n \in 1 .. Cardinality(S) |-> seq[p[n]]]
        /\ \A m, n \in 1 .. Cardinality(S) : m < n =>
             \/ key[p[m]] < key[p[n]]
             \/ key[p[m]] = key[p[n]] /\ p[m] < p[n]
  BY <1>1, ArrangedProperties
<1>5. PICK p \in [1 .. Cardinality(S) -> S] :
        \A seq : Arranged(seq, S, key) = [n \in 1 .. Cardinality(S) |-> seq[p[n]]]
  BY <1>4
<1>6. \A seq : At(seq, S) = [k \in 1 .. Cardinality(S) |-> seq[p[k]]]
  BY <1>3, <1>5
<1> QED BY <1>1, <1>2, <1>6

\* The places of the packets that were answered.
Answers == {k \in 1 .. Sent : trips[k] # None}

\* The samples of the packets at the places p[1], ..., p[n].
Rtts(p, n) == [k \in 1 .. n |-> calculate_rtt(session.results[p[k]])]
Ways(p, n) == [k \in 1 .. n |-> calculate_owd_forward(session.results[p[k]])]
WaysBack(p, n) == [k \in 1 .. n |-> calculate_owd_backward(session.results[p[k]])]
Stays(p, n) == [k \in 1 .. n |-> calculate_rpd(session.results[p[k]])]

\* The report of them.
ReportOf(p, n) ==
    [rtt |-> Summary(Rtts(p, n), n),
     forward_owd |-> Summary(Ways(p, n), n),
     backward_owd |-> Summary(WaysBack(p, n), n),
     process_time |-> Summary(Stays(p, n), n),
     forward_jitter |-> JitterSummary(Jitter(Ways(p, n))),
     backward_jitter |-> JitterSummary(Jitter(WaysBack(p, n))),
     loss |-> analyze_packet_loss(session), total_packets |-> n]

\* A packet that was answered has all its times, the others have none of the
\* answer.
LEMMA AnswersRecorded ==
    ASSUME MeasurementInv, NEW k \in 1 .. Sent
    PROVE  LET p == session.results[k]
               times == IF trips[k] = None THEN {None} ELSE DateTime
           IN  /\ p.sender_seq = k - 1 /\ p.t1 \in DateTime
               /\ {p.t2, p.t3, p.t4} \subseteq times
               /\ (p.t2 # None /\ p.t3 # None) <=> trips[k] # None
               /\ Lost(p) <=> trips[k] = None
               /\ ~Lost(p) => p.reflector_seq \in Nat
<1> DEFINE p == session.results[k]
           trip == trips[k]
           at == SentAt(k)
<1>1. /\ k \in Nat \ {0} /\ offset \in Offsets /\ start \in Starts
      /\ p \in Record /\ trip \in Trips \cup {None}
  BY Facts
<1>2. Says(p, k - 1, at, offset, k <= session.last_updated, trip)
  BY DEF MeasurementInv, Recorded
<1>3. p.t1 \in DateTime /\ p.reflector_seq \in Nat \cup {None}
  BY <1>1 DEF Record
<1>4. ASSUME trip # None PROVE p.t2 \in DateTime /\ p.t3 \in DateTime /\ p.t4 \in DateTime
  <2>1. /\ at + trip[1] + offset \in Nat /\ at + trip[1] + trip[2] + offset \in Nat
        /\ at + trip[1] + trip[2] + trip[3] \in Nat
    BY <1>1, <1>4, Clocks
  <2> HIDE DEF at, trip, p
  <2> QED BY <1>2, <1>4, <2>1, CarriedNanos, ShownExact DEF Says
<1> HIDE DEF p, trip, at
<1>5. /\ p.sender_seq = k - 1
      /\ trip = None => p.reflector_seq = None /\ p.t2 = None /\ p.t3 = None /\ p.t4 = None
      /\ trip # None => p.reflector_seq # None
  BY <1>2 DEF Says
<1> QED BY <1>3, <1>4, <1>5, NoValueAssumption DEF p, trip, Lost

\* The total loss is that of the packets without an answer.
LEMMA LossCounted ==
    ASSUME MeasurementInv
    PROVE  LET loss == analyze_packet_loss(session)
           IN  /\ loss \in [forward : Nat, backward : Nat, total : Nat]
               /\ Cardinality(Answers) \in Nat /\ Cardinality(Answers) + loss.total = Sent
<1> DEFINE q == session.results
           n == Sent
           L == {k \in 1 .. n : trips[k] = None}
           F == LossLoop(q)[n].forward
           total == Cardinality(L)
<1>1. q \in Seq(Record) /\ Len(q) = n /\ n \in Nat /\ DOMAIN q = 1 .. n
  <2>1. q \in Seq(Record) /\ Len(q) = n /\ n \in Nat
    BY Facts
  <2> QED BY <2>1
<1>2. \A k \in 1 .. n : /\ q[k].sender_seq = k - 1 /\ (Lost(q[k]) <=> trips[k] = None)
                        /\ ~Lost(q[k]) => q[k].reflector_seq \in Nat
  BY AnswersRecorded
<1> HIDE DEF q
<1>a. n \in Nat
  BY <1>1
<1>3. Ordered(q) = q
  BY <1>1, <1>2, OrderedRecords
<1> HIDE DEF n
<1>4. F \in Nat
  <2>1. \A k \in 1 .. n : q[k].sender_seq \in Nat
    BY <1>1, <1>2
  <2>2. \A k \in 1 .. n : ~Lost(q[k]) => q[k].reflector_seq \in Nat
    BY <1>2
  <2> QED BY <1>1, <2>1, <2>2, ForwardType
<1>5. {k \in DOMAIN q : Lost(q[k])} = L
  BY <1>1, <1>2
<1>6. /\ IsFiniteSet(L) /\ IsFiniteSet(Answers) /\ L \cup Answers = 1 .. n
      /\ L \cap Answers = {}
  <2>1. IsFiniteSet(1 .. n)
    BY <1>a, FS_Interval
  <2>2. IsFiniteSet(L)
    BY <2>1, FS_Subset
  <2>3. IsFiniteSet(Answers)
    BY <2>1, FS_Subset DEF Answers, n
  <2>4. L \cup Answers = 1 .. n /\ L \cap Answers = {}
    BY DEF Answers, n
  <2> QED BY <2>2, <2>3, <2>4
<1> HIDE DEF L
<1>7. Cardinality(Answers) \in Nat /\ total \in Nat
  BY <1>6, FS_CardinalityType
<1>8. Cardinality(Answers) + total = n
  <2>1. Cardinality(1 .. n) = total + Cardinality(Answers)
    BY <1>6, DisjointUnion
  <2>2. Cardinality(1 .. n) = n
    <3>1. 1 \in Int /\ n \in Int /\ (1 > n => n = 0)
      BY <1>1
    <3> QED BY <3>1, FS_Interval
  <2> QED BY <1>7, <2>1, <2>2
<1>9. analyze_packet_loss(session) =
        [forward |-> F, backward |-> (total - F) % Word, total |-> total]
  BY <1>1, <1>3, <1>5 DEF analyze_packet_loss, q
<1> HIDE DEF F, total
<1>10. (total - F) % Word \in Nat
  BY <1>4, <1>7, WordAssumption
<1> DEFINE B == (total - F) % Word
<1>11. B \in Nat /\ analyze_packet_loss(session) =
        [forward |-> F, backward |-> B, total |-> total]
  BY <1>9, <1>10
<1> HIDE DEF B
<1> QED BY <1>4, <1>7, <1>8, <1>11 DEF n

\* What the report is made of.
LEMMA ReportShape ==
    ASSUME MeasurementInv
    PROVE  LET n == Cardinality(Answers)
           IN  /\ n \in Nat
               /\ \E p \in [1 .. n -> Answers] :
                    /\ Delivered = [k \in 1 .. n |-> trips[p[k]]]
                    /\ calculate_session_results(session) = ReportOf(p, n)
<1> DEFINE q == session.results
           S == Answers
           n == Cardinality(S)
<1>1. /\ Sent \in Nat /\ DOMAIN q = 1 .. Sent /\ DOMAIN trips = 1 .. Sent
  <2>1. /\ q \in Seq(Record) /\ Sent = Len(q) /\ Sent \in Nat
        /\ trips \in Seq(Trips \cup {None}) /\ Len(trips) = Sent
    BY Facts
  <2> QED BY <2>1
<1>2. {k \in DOMAIN q : q[k].t2 # None /\ q[k].t3 # None} = S
  BY <1>1, AnswersRecorded DEF Answers
<1>3. {k \in DOMAIN trips : trips[k] # None} = S
  BY <1>1 DEF Answers
<1>4. S \in SUBSET (1 .. Sent)
  BY DEF Answers
<1> HIDE DEF S
<1>5. n \in Nat /\ \E p \in [1 .. n -> S] :
                      \A seq : At(seq, S) = [k \in 1 .. n |-> seq[p[k]]]
  BY <1>1, <1>4, AtProperties
<1> HIDE DEF n
<1>6. PICK p \in [1 .. n -> S] : \A seq : At(seq, S) = [k \in 1 .. n |-> seq[p[k]]]
  BY <1>5
<1>7. Delivered = [k \in 1 .. n |-> trips[p[k]]]
  BY <1>3, <1>6 DEF Delivered
<1> DEFINE a == [k \in 1 .. n |-> q[p[k]]]
<1>8. Answered(q) = a
  BY <1>2, <1>6 DEF Answered
<1>9. Len(a) = n /\ \A k \in 1 .. n : a[k] = session.results[p[k]]
  BY <1>5
<1>10. /\ [k \in 1 .. n |-> calculate_rtt(a[k])] = Rtts(p, n)
       /\ [k \in 1 .. n |-> calculate_owd_forward(a[k])] = Ways(p, n)
       /\ [k \in 1 .. n |-> calculate_owd_backward(a[k])] = WaysBack(p, n)
       /\ [k \in 1 .. n |-> calculate_rpd(a[k])] = Stays(p, n)
  BY <1>9 DEF Rtts, Ways, WaysBack, Stays
<1>11. Answered(session.results) = a /\ Len(a) = n
  BY <1>8, <1>9
<1> HIDE DEF a
<1>12. calculate_session_results(session) = ReportOf(p, n)
  BY <1>10, <1>11 DEF calculate_session_results, ReportOf
<1> QED BY <1>5, <1>7, <1>12 DEF n, S

\* The delays of a packet that was answered, without and with a slip of a second.
LEMMA DelaysOfAnswers ==
    ASSUME MeasurementInv, NEW k \in Answers
    PROVE  LET p == session.results[k] IN
           /\ trips[k][1] \in Nat /\ trips[k][2] \in Nat /\ trips[k][3] \in Nat
           /\ offset \in Int
           /\ calculate_rtt(p) \in Int /\ calculate_owd_forward(p) \in Int
           /\ calculate_owd_backward(p) \in Int /\ calculate_rpd(p) \in Int
           /\ NoSlips =>
                /\ calculate_rtt(p) = trips[k][1] + trips[k][2] + trips[k][3]
                /\ calculate_owd_forward(p) = trips[k][1] + offset
                /\ calculate_owd_backward(p) = trips[k][3] - offset
                /\ calculate_rpd(p) = trips[k][2]
<1> DEFINE p == session.results[k]
           out == trips[k][1]
           stay == trips[k][2]
           back == trips[k][3]
           at == SentAt(k)
           arrival == at + out + offset
           leaving == at + out + stay + offset
           slip1 == IF k <= session.last_updated THEN 0 ELSE Slip(at)
           s2 == Slip(arrival)
           s3 == Slip(leaving)
<1>1. k \in 1 .. Sent /\ trips[k] # None
  BY DEF Answers
<1>2. k \in Nat \ {0} /\ trips[k] \in Trips /\ offset \in Offsets /\ start \in Starts
  BY <1>1, Facts
<1>3. /\ at \in Nat /\ out \in Nat /\ stay \in Nat /\ back \in Nat /\ offset \in Int
      /\ arrival \in Nat /\ leaving \in Nat
  BY <1>2, Clocks, TripsAssumption
<1>4. /\ calculate_rtt(p) = Abs(out + stay + back - slip1)
      /\ calculate_owd_forward(p) = out + offset + Slip(arrival) - slip1
      /\ calculate_owd_backward(p) = back - offset - Slip(arrival + stay)
      /\ calculate_rpd(p) = Abs(stay + Slip(arrival + stay) - Slip(arrival))
  BY <1>1, DelaysOfRecords DEF DelaysExact
<1>5. arrival + stay = leaving
  BY <1>3
<1>6. NoSlips => Slip(at) = 0 /\ s2 = 0 /\ s3 = 0
  BY <1>1 DEF NoSlips
<1> HIDE DEF p, out, stay, back, at, arrival, leaving
<1>7. s2 \in Nat /\ s3 \in Nat /\ Slip(at) \in Nat
  BY <1>3, CarriedNanos
<1>8. slip1 \in Nat /\ (NoSlips => slip1 = 0)
  BY <1>6, <1>7
<1> HIDE DEF slip1
<1>9. /\ calculate_rtt(p) = Abs(out + stay + back - slip1)
      /\ calculate_owd_forward(p) = out + offset + s2 - slip1
      /\ calculate_owd_backward(p) = back - offset - s3
      /\ calculate_rpd(p) = Abs(stay + s3 - s2)
  BY <1>4, <1>5
<1> HIDE DEF s2, s3
<1>10. /\ calculate_rtt(p) \in Int /\ calculate_owd_forward(p) \in Int
       /\ calculate_owd_backward(p) \in Int /\ calculate_rpd(p) \in Int
  BY <1>3, <1>7, <1>8, <1>9 DEF Abs
<1>11. ASSUME NoSlips
       PROVE  /\ calculate_rtt(p) = out + stay + back
              /\ calculate_owd_forward(p) = out + offset
              /\ calculate_owd_backward(p) = back - offset
              /\ calculate_rpd(p) = stay
  <2>1. slip1 = 0 /\ s2 = 0 /\ s3 = 0
    BY <1>6, <1>8, <1>11
  <2> QED BY <1>3, <1>9, <2>1 DEF Abs
<1> QED BY <1>3, <1>10, <1>11 DEF p, out, stay, back

\* The samples are numbers.
LEMMA SampleTypes ==
    ASSUME MeasurementInv, NEW n \in Nat, NEW p \in [1 .. n -> Answers]
    PROVE  /\ Rtts(p, n) \in [1 .. n -> Int] /\ Ways(p, n) \in [1 .. n -> Int]
           /\ WaysBack(p, n) \in [1 .. n -> Int] /\ Stays(p, n) \in [1 .. n -> Int]
<1>1. ASSUME NEW k \in 1 .. n
      PROVE  LET r == session.results[p[k]] IN
             /\ calculate_rtt(r) \in Int /\ calculate_owd_forward(r) \in Int
             /\ calculate_owd_backward(r) \in Int /\ calculate_rpd(r) \in Int
  <2>1. p[k] \in Answers
    OBVIOUS
  <2> QED BY <2>1, DelaysOfAnswers
<1> QED BY <1>1 DEF Rtts, Ways, WaysBack, Stays

\* What successive delays differ by are numbers.
LEMMA JitterSample ==
    ASSUME NEW n \in Nat, NEW v \in [1 .. n -> Int]
    PROVE  \E m \in Nat : Jitter(v) \in [1 .. m -> Int]
<1>0. Len(v) = n
  BY FunctionIsSeq
<1> DEFINE m == IF n = 0 THEN 0 ELSE n - 1
<1>1. m \in Nat /\ 1 .. n - 1 = 1 .. m
  OBVIOUS
<1>2. ASSUME NEW k \in 1 .. m PROVE Abs(v[k + 1] - v[k]) \in Int
  <2>1. k \in 1 .. n /\ k + 1 \in 1 .. n
    BY <1>1
  <2>2. v[k] \in Int /\ v[k + 1] \in Int
    BY <2>1
  <2> QED BY <2>2 DEF Abs
<1>3. Jitter(v) = [k \in 1 .. m |-> Abs(v[k + 1] - v[k])]
  BY <1>0, <1>1 DEF Jitter
<1> HIDE DEF m
<1>4. Jitter(v) \in [1 .. m -> Int]
  BY <1>2, <1>3
<1> QED BY <1>1, <1>4

\* A report is that of the session, which no callback changes afterwards.
ReportInv == report # None => report = calculate_session_results(session)

\* The report is made once, of records that are true.
LEMMA ReportsTrue == Spec => [](MeasurementInv /\ ReportInv)
<1>1. Init => ReportInv
  BY DEF Init, ReportInv
<1>2. ReportInv /\ [Next]_vars => ReportInv'
  <2> SUFFICES ASSUME ReportInv, [Next]_vars PROVE ReportInv'
    OBVIOUS
  <2>1. CASE report' = None
    BY <2>1 DEF ReportInv
  <2>2. CASE UNCHANGED <<report, session>>
    BY <2>2 DEF ReportInv
  <2>3. CASE TxCallback
    BY <2>1, <2>3 DEF TxCallback
  <2>4. CASE TxCorrectCallback
    BY <2>1, <2>4 DEF TxCorrectCallback
  <2>5. CASE \E trip \in Trips : RxCallback(trip)
    BY <2>1, <2>5 DEF RxCallback
  <2>6. CASE Conclude
    BY <2>6 DEF Conclude, ReportInv
  <2>7. CASE Concluded
    BY <2>2, <2>7 DEF Concluded, vars
  <2>8. CASE UNCHANGED vars
    BY <2>2, <2>8 DEF vars
  <2> QED BY <2>3, <2>4, <2>5, <2>6, <2>7, <2>8 DEF Next
<1> QED BY <1>1, <1>2, RecordsTrue, PTL DEF Spec

\* A packet is in the statistics or lost, never both and never neither, however
\* many packets there are and whichever of them were answered.
THEOREM PacketsCounted == Spec => []EveryPacketCounted
<1>1. ASSUME MeasurementInv, ReportInv PROVE EveryPacketCounted
  <2> SUFFICES ASSUME report # None
               PROVE  report.total_packets + report.loss.total = Sent
    BY DEF EveryPacketCounted
  <2>1. report = calculate_session_results(session)
    BY <1>1 DEF ReportInv
  <2>2. /\ report.total_packets = Cardinality(Answers)
        /\ report.loss = analyze_packet_loss(session)
    BY <1>1, <2>1, ReportShape DEF ReportOf
  <2>3. Cardinality(Answers) + analyze_packet_loss(session).total = Sent
    BY <1>1, LossCounted
  <2> QED BY <2>2, <2>3
<1> QED BY <1>1, ReportsTrue, PTL

\* The average round trip is the sum of the averages of both ways and of the time
\* at the reflector, for any offset of the clocks and any number of packets.
THEOREM AveragesFit == Spec => []AveragesAddUp
<1>1. ASSUME MeasurementInv, ReportInv PROVE AveragesAddUp
  <2>1. SUFFICES ASSUME report # None, NoSlips, report.total_packets > 0
                 PROVE  report.rtt.avg = report.forward_owd.avg + report.backward_owd.avg
                                            + report.process_time.avg
    BY DEF AveragesAddUp
  <2> DEFINE n == Cardinality(Answers)
  <2>2. report = calculate_session_results(session)
    BY <1>1, <2>1 DEF ReportInv
  <2>3. n \in Nat
    BY <1>1, ReportShape
  <2>4. PICK p \in [1 .. n -> Answers] :
          Delivered = [k \in 1 .. n |-> trips[p[k]]] /\ report = ReportOf(p, n)
    BY <1>1, <2>2, ReportShape
  <2>5. n \in Nat \ {0}
    BY <2>1, <2>3, <2>4 DEF ReportOf
  <2> HIDE DEF n
  <2> DEFINE r == Rtts(p, n)
             f == Ways(p, n)
             b == WaysBack(p, n)
             s == Stays(p, n)
             fb == [k \in 1 .. n |-> f[k] + b[k]]
  <2>6. /\ r \in [1 .. n -> Int] /\ f \in [1 .. n -> Int]
        /\ b \in [1 .. n -> Int] /\ s \in [1 .. n -> Int]
    BY <1>1, <2>3, SampleTypes
  <2>7. ASSUME NEW k \in 1 .. n PROVE r[k] = (f[k] + b[k]) + s[k]
    <3>1. p[k] \in Answers
      OBVIOUS
    <3> DEFINE x == session.results[p[k]]
               out == trips[p[k]][1]
               stay == trips[p[k]][2]
               back == trips[p[k]][3]
    <3>2. /\ out \in Nat /\ stay \in Nat /\ back \in Nat /\ offset \in Int
          /\ calculate_rtt(x) = out + stay + back
          /\ calculate_owd_forward(x) = out + offset
          /\ calculate_owd_backward(x) = back - offset
          /\ calculate_rpd(x) = stay
      BY <1>1, <2>1, <3>1, DelaysOfAnswers
    <3>3. /\ r[k] = calculate_rtt(x) /\ f[k] = calculate_owd_forward(x)
          /\ b[k] = calculate_owd_backward(x) /\ s[k] = calculate_rpd(x)
      BY DEF Rtts, Ways, WaysBack, Stays
    <3> HIDE DEF x, out, stay, back, r, f, b, s
    <3> QED BY <3>2, <3>3
  <2> HIDE DEF r, f, b, s
  <2>8. fb \in [1 .. n -> Int] /\ \A k \in 1 .. n : fb[k] = f[k] + b[k]
    BY <2>6
  <2>9. \A k \in 1 .. n : r[k] = fb[k] + s[k]
    BY <2>7, <2>8
  <2> HIDE DEF fb
  <2>10. Sum(fb) = Sum(f) + Sum(b)
    BY <2>3, <2>6, <2>8, SumAdded
  <2>11. Sum(r) = Sum(fb) + Sum(s)
    BY <2>3, <2>6, <2>8, <2>9, SumAdded
  <2>12. /\ report.rtt.avg = Sum(r) /\ report.forward_owd.avg = Sum(f)
         /\ report.backward_owd.avg = Sum(b) /\ report.process_time.avg = Sum(s)
    <3>1. ASSUME NEW v \in [1 .. n -> Int] PROVE Summary(v, n).avg = Sum(v)
      BY <2>5, SummaryFacts
    <3>2. /\ report.rtt = Summary(r, n) /\ report.forward_owd = Summary(f, n)
          /\ report.backward_owd = Summary(b, n) /\ report.process_time = Summary(s, n)
      BY <2>4 DEF r, f, b, s, ReportOf
    <3> QED BY <2>6, <3>1, <3>2
  <2> QED BY <2>10, <2>11, <2>12
<1> QED BY <1>1, ReportsTrue, PTL

\* The numbers reported of each of the four samples fit together, and are there
\* exactly if a packet was answered, for samples of any size.
THEOREM SummariesFit == Spec => []SummariesOrdered
<1>1. ASSUME MeasurementInv, ReportInv PROVE SummariesOrdered
  <2> SUFFICES ASSUME report # None
               PROVE  /\ Summaries = {} <=> report.total_packets = 0
                      /\ \A x \in Summaries : Fits(x, report.total_packets)
    BY DEF SummariesOrdered, Fits
  <2> DEFINE n == Cardinality(Answers)
  <2>2. report = calculate_session_results(session)
    BY <1>1 DEF ReportInv
  <2>3. n \in Nat
    BY <1>1, ReportShape
  <2>4. PICK p \in [1 .. n -> Answers] :
          Delivered = [k \in 1 .. n |-> trips[p[k]]] /\ report = ReportOf(p, n)
    BY <1>1, <2>2, ReportShape
  <2> HIDE DEF n
  <2>5. /\ Rtts(p, n) \in [1 .. n -> Int] /\ Ways(p, n) \in [1 .. n -> Int]
        /\ WaysBack(p, n) \in [1 .. n -> Int] /\ Stays(p, n) \in [1 .. n -> Int]
    BY <1>1, <2>3, SampleTypes
  <2>a. /\ report.rtt = Summary(Rtts(p, n), n)
        /\ report.forward_owd = Summary(Ways(p, n), n)
        /\ report.backward_owd = Summary(WaysBack(p, n), n)
        /\ report.process_time = Summary(Stays(p, n), n)
        /\ report.total_packets = n
    BY <2>4 DEF ReportOf
  <2> DEFINE All == {report.rtt, report.forward_owd, report.backward_owd,
                     report.process_time}
  <2>6. CASE n = 0
    <3>1. ASSUME NEW v \in [1 .. n -> Int] PROVE Summary(v, n) = None
      <4>1. v = <<>>
        BY <2>6, FunctionIsSeq
      <4> QED BY <4>1 DEF Summary
    <3>2. \A x \in All : x = None
      BY <2>a, <2>5, <3>1
    <3>3. Summaries = {}
      BY <3>2 DEF Summaries
    <3> QED BY <2>a, <2>6, <3>3
  <2>7. CASE n # 0
    <3>1. ASSUME NEW v \in [1 .. n -> Int]
          PROVE  Summary(v, n) # None /\ Fits(Summary(v, n), n)
      <4>1. n \in Nat \ {0}
        BY <2>3, <2>7
      <4> QED BY <4>1, SummaryFacts, NoValueAssumption
    <3>2. \A x \in All : x # None /\ Fits(x, n)
      BY <2>a, <2>5, <3>1
    <3>3. Summaries = All
      BY <3>2 DEF Summaries
    <3> QED BY <2>a, <2>7, <3>2, <3>3
  <2> QED BY <2>6, <2>7
<1> QED BY <1>1, ReportsTrue, PTL

\* Jitter is that of the true delays, whatever the offset of the clocks and
\* however many packets are lost in between.
THEOREM JitterTrue == Spec => []JitterWithoutOffset
<1>1. ASSUME MeasurementInv, ReportInv PROVE JitterWithoutOffset
  <2>1. SUFFICES ASSUME report # None, NoSlips
        PROVE  LET change(way) == [k \in 1 .. Len(Delivered) - 1 |->
                                     Abs(Delivered[k + 1][way] - Delivered[k][way])]
               IN  /\ report.forward_jitter = JitterSummary(change(1))
                   /\ report.backward_jitter = JitterSummary(change(3))
    BY DEF JitterWithoutOffset
  <2> DEFINE n == Cardinality(Answers)
  <2>2. report = calculate_session_results(session)
    BY <1>1, <2>1 DEF ReportInv
  <2>3. n \in Nat
    BY <1>1, ReportShape
  <2>4. PICK p \in [1 .. n -> Answers] :
          Delivered = [k \in 1 .. n |-> trips[p[k]]] /\ report = ReportOf(p, n)
    BY <1>1, <2>2, ReportShape
  <2> HIDE DEF n
  <2> DEFINE d == Delivered
             f == Ways(p, n)
             b == WaysBack(p, n)
  <2>5. f \in [1 .. n -> Int] /\ b \in [1 .. n -> Int]
    BY <1>1, <2>3, SampleTypes
  <2>6. Len(d) = n /\ Len(f) = n /\ Len(b) = n
    BY <2>3, <2>4, <2>5, FunctionIsSeq
  <2>7. ASSUME NEW k \in 1 .. n
        PROVE  /\ d[k][1] \in Int /\ d[k][3] \in Int /\ offset \in Int
               /\ f[k] = d[k][1] + offset /\ b[k] = d[k][3] - offset
    <3>1. p[k] \in Answers /\ d[k] = trips[p[k]]
      BY <2>4
    <3>2. f[k] = calculate_owd_forward(session.results[p[k]])
      BY DEF Ways
    <3>3. b[k] = calculate_owd_backward(session.results[p[k]])
      BY DEF WaysBack
    <3> DEFINE x == session.results[p[k]]
    <3>4. /\ trips[p[k]][1] \in Nat /\ trips[p[k]][3] \in Nat /\ offset \in Int
          /\ calculate_owd_forward(x) = trips[p[k]][1] + offset
          /\ calculate_owd_backward(x) = trips[p[k]][3] - offset
      BY <1>1, <2>1, <3>1, DelaysOfAnswers
    <3> HIDE DEF d, f, b
    <3> QED BY <3>1, <3>2, <3>3, <3>4
  <2> HIDE DEF d, f, b
  <2>8. ASSUME NEW k \in 1 .. n - 1
        PROVE  /\ f[k + 1] - f[k] = d[k + 1][1] - d[k][1]
               /\ b[k + 1] - b[k] = d[k + 1][3] - d[k][3]
    <3>1. k \in 1 .. n /\ k + 1 \in 1 .. n
      BY <2>3
    <3> QED BY <2>7, <3>1
  <2>9. Jitter(f) = [k \in 1 .. n - 1 |-> Abs(d[k + 1][1] - d[k][1])]
    BY <2>6, <2>8 DEF Jitter
  <2>10. Jitter(b) = [k \in 1 .. n - 1 |-> Abs(d[k + 1][3] - d[k][3])]
    BY <2>6, <2>8 DEF Jitter
  <2>11. /\ report.forward_jitter = JitterSummary(Jitter(f))
         /\ report.backward_jitter = JitterSummary(Jitter(b))
    BY <2>4 DEF ReportOf, f, b
  <2> QED BY <2>6, <2>9, <2>10, <2>11 DEF d
<1> QED BY <1>1, ReportsTrue, PTL

\* The report has its type, and a record its times together or not at all.
THEOREM TypesKept == Spec => []TypeOK
<1>1. ASSUME MeasurementInv, ReportInv PROVE TypeOK
  <2>1. /\ offset \in Offsets /\ start \in Starts /\ Len(trips) = Sent
        /\ session.last_updated \in 0 .. Sent
    <3>1. /\ offset \in Offsets /\ start \in Starts /\ Len(trips) = Sent /\ Sent \in Nat
          /\ session.last_updated \in Nat /\ session.last_updated <= Sent
      BY <1>1, Facts
    <3> QED BY <3>1
  <2>2. \A k \in 1 .. Sent : LET r == session.results[k] IN
          /\ r.sender_seq = k - 1 /\ r.t1 \in DateTime
          /\ {r.t2, r.t3, r.t4} \subseteq (IF trips[k] = None THEN {None} ELSE DateTime)
    BY <1>1, AnswersRecorded
  <2>3. ASSUME report # None PROVE report \in NetworkStatistics
    <3> DEFINE n == Cardinality(Answers)
    <3>1. report = calculate_session_results(session)
      BY <1>1, <2>3 DEF ReportInv
    <3>2. n \in Nat
      BY <1>1, ReportShape
    <3>3. PICK p \in [1 .. n -> Answers] :
            calculate_session_results(session) = ReportOf(p, n)
      BY <1>1, ReportShape
    <3> HIDE DEF n
    <3>4. /\ Rtts(p, n) \in [1 .. n -> Int] /\ Ways(p, n) \in [1 .. n -> Int]
          /\ WaysBack(p, n) \in [1 .. n -> Int] /\ Stays(p, n) \in [1 .. n -> Int]
      BY <1>1, <3>2, SampleTypes
    <3>5. ASSUME NEW v \in [1 .. n -> Int]
          PROVE  /\ Summary(v, n) \in Delay \cup {None}
                 /\ JitterSummary(Jitter(v)) \in [avg : Int, std_dev : Int] \cup {None}
      <4>1. ASSUME n = 0 PROVE Summary(v, n) = None
        <5>1. v = <<>>
          BY <4>1, FunctionIsSeq
        <5> QED BY <5>1 DEF Summary
      <4>2. ASSUME n # 0 PROVE Summary(v, n) \in Delay
        <5>1. n \in Nat \ {0}
          BY <3>2, <4>2
        <5> QED BY <5>1, SummaryFacts
      <4>3. PICK m \in Nat : Jitter(v) \in [1 .. m -> Int]
        BY <3>2, JitterSample
      <4> DEFINE w == Jitter(v)
      <4> HIDE DEF w
      <4>4. w \in [1 .. m -> Int]
        BY <4>3 DEF w
      <4>5. JitterSummary(w) \in [avg : Int, std_dev : Int] \cup {None}
        BY <4>4, JitterType
      <4> QED BY <4>1, <4>2, <4>5 DEF w
    <3>6. analyze_packet_loss(session) \in [forward : Nat, backward : Nat, total : Nat]
      BY <1>1, LossCounted
    <3>7. /\ Summary(Rtts(p, n), n) \in Delay \cup {None}
          /\ Summary(Ways(p, n), n) \in Delay \cup {None}
          /\ Summary(WaysBack(p, n), n) \in Delay \cup {None}
          /\ Summary(Stays(p, n), n) \in Delay \cup {None}
          /\ JitterSummary(Jitter(Ways(p, n))) \in [avg : Int, std_dev : Int] \cup {None}
          /\ JitterSummary(Jitter(WaysBack(p, n)))
               \in [avg : Int, std_dev : Int] \cup {None}
      BY <3>4, <3>5
    <3> QED BY <3>1, <3>2, <3>3, <3>6, <3>7 DEF NetworkStatistics, ReportOf
  <2> QED BY <2>1, <2>2, <2>3 DEF TypeOK
<1> QED BY <1>1, ReportsTrue, PTL
=============================================================================
