---------------------------- MODULE TestSession ----------------------------
(***************************************************************************)
(* twamp_common/session.rs: the record a sender or a reflector keeps of    *)
(* the packets exchanged with one peer.  A record has the fields that the  *)
(* module using it tells apart: TwampLight has for t1 the packet whose     *)
(* transmission it times, so that a timestamp given to the wrong packet    *)
(* can be told, and leaves out t2, t3 and t4, which are set together with  *)
(* reflector_seq; Measurement has times.                                   *)
(***************************************************************************)
EXTENDS Integers, Sequences, FiniteSets, SequencesExt

CONSTANTS
    None,    \* Option::None
    Word     \* values of a u32: 2^32 in the code, less where numbers stay small

ASSUME WordAssumption == Word \in Nat \ {0}
ASSUME NoneAssumption == None \notin Nat

\* Session::new
NewSession == [seq_number |-> 0, results |-> <<>>, last_updated |-> 0]

\* SenderMessage::packet_results: nothing of the reflection is known yet.
SentRecord(seq, t1) == [sender_seq |-> seq, reflector_seq |-> None, t1 |-> t1]

\* Mutant: the sequence number is not advanced.
add_to_sent_same_seq(session, record) ==
    [session EXCEPT !.results = Append(@, record)]

\* The record is pushed and the sequence number advanced, as a u32.
add_to_sent(session, record) ==
    [session EXCEPT !.results = Append(@, record),
                    !.seq_number = (@ + 1) % Word]

\* Mutant: the reflection goes to the newest record.
add_to_received_last(session, reply) ==
    [session EXCEPT !.results[Len(session.results)].reflector_seq =
        reply.reflector_seq]

\* What a reflection says of its packet replaces what the record says of it.
Merged(record, reply) ==
    [f \in DOMAIN record |-> IF f \in DOMAIN reply THEN reply[f] ELSE record[f]]

\* The first record with the sender's sequence number takes the reflection; a
\* later reflection of the same packet overwrites it.
add_to_received(session, reply) ==
    LET k == SelectInSeq(session.results,
                         LAMBDA record : record.sender_seq = reply.sender_seq)
    IN  IF k = 0 THEN session
        ELSE [session EXCEPT !.results[k] = Merged(@, reply)]

\* The timestamps go, in order, to the records not yet updated.
update_tx_timestamps(session, stamps) ==
    LET last == session.last_updated
        n    == Min({Len(stamps), Len(session.results) - last})
    IN  [session EXCEPT
           !.results = [k \in DOMAIN @ |->
                          IF k \in last + 1 .. last + n
                          THEN [@[k] EXCEPT !.t1 = stamps[k - last]]
                          ELSE @[k]],
           !.last_updated = last + n]

Lost(record) == record.reflector_seq = None

\* Mutant: the reflector's numbers are not looked at.
CountForward_no_difference(acc, r) ==
    IF Lost(r) THEN acc
    ELSE LET delta == IF acc.last = None THEN 0
                      ELSE r.sender_seq - acc.last.sender_seq
         IN  [forward |-> acc.forward + Max({delta, 0}), last |-> r]

\* One step of the loop of analyze_packet_loss: a gap in the sender's sequence
\* that the reflector's sequence does not have is a loss on the way out.
CountForward(acc, r) ==
    IF Lost(r) THEN acc
    ELSE LET delta == IF acc.last = None THEN 0
                      ELSE (r.sender_seq - acc.last.sender_seq)
                           - (r.reflector_seq - acc.last.reflector_seq)
         IN  [forward |-> acc.forward + Max({delta, 0}), last |-> r]

\* The places up to i in the order of their keys, those with equal keys in the
\* order of the sequence.
UpTo(places, key, i) ==
    {j \in places : \/ key[j] < key[i]
                    \/ key[j] = key[i] /\ j <= i}

\* The elements of a sequence at some of its places, in the order of the keys.
Arranged(seq, places, key) ==
    [n \in 1 .. Cardinality(places) |->
        seq[CHOOSE i \in places : Cardinality(UpTo(places, key, i)) = n]]

\* The records in the order of sending: sort_unstable_by_key.
Ordered(records) ==
    Arranged(records, DOMAIN records, [k \in DOMAIN records |-> records[k].sender_seq])

\* The loop of analyze_packet_loss, after k records.  It skips the first.
LossLoop(records) ==
    LET loop[k \in 0 .. Len(records)] ==
          IF k <= 1 THEN [forward |-> 0, last |-> None]
          ELSE CountForward(loop[k - 1], records[k])
    IN  loop

\* Mutant: the loss of the first record is not counted.
analyze_packet_loss_skips_first(session) ==
    LET results == Ordered(session.results)
        total   == Cardinality({k \in 2 .. Len(results) : Lost(results[k])})
        forward == LossLoop(results)[Len(results)].forward
    IN  [forward |-> forward, backward |-> (total - forward) % Word,
         total |-> total]

\* The counts of forward, backward and total loss; they are i32 and returned as
\* u32.  The first record is only looked at for the total.
analyze_packet_loss(session) ==
    LET results == Ordered(session.results)
        total   == Cardinality({k \in DOMAIN results : Lost(results[k])})
        forward == LossLoop(results)[Len(results)].forward
    IN  [forward |-> forward, backward |-> (total - forward) % Word,
         total |-> total]
=============================================================================
