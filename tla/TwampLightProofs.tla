-------------------------- MODULE TwampLightProofs --------------------------
(***************************************************************************)
(* Proofs about TWAMP Light, for any number of senders and targets, every  *)
(* bound on packets and copies, and whatever the network and the build do. *)
(***************************************************************************)
EXTENDS TwampLight, SessionProofs

-----------------------------------------------------------------------------
(* The operations on a session.                                            *)

\* The fields of a session.
LEMMA SessionFields ==
    ASSUME NEW x \in Session
    PROVE  /\ x.results \in Seq(Record) /\ Len(x.results) \in Nat
           /\ DOMAIN x.results = 1 .. Len(x.results)
           /\ x.seq_number \in Nat /\ x.last_updated \in Nat
           /\ \A k \in 1 .. Len(x.results) :
                /\ x.results[k] \in Record /\ x.results[k].sender_seq \in Nat
                /\ x.results[k].reflector_seq \in Nat \cup {None}
                /\ x.results[k].t1 \in Target \X Nat
<1>1. x.results \in Seq(Record) /\ x.seq_number \in Nat /\ x.last_updated \in Nat
  BY DEF Session
<1>2. \A k \in 1 .. Len(x.results) : x.results[k] \in Record
  BY <1>1, ElementOfSeq
<1> QED BY <1>1, <1>2, LenProperties DEF Record

\* A session that has sent one more packet has one more record, of the number
\* the session had.
LEMMA SentSession ==
    ASSUME NEW x \in Session, Numbered(x), NEW t \in Target,
           NEW record, record = SentRecord(x.seq_number, <<t, x.seq_number>>),
           NEW y, y = add_to_sent(x, record)
    PROVE  /\ y \in Session /\ Numbered(y)
           /\ record \in Record
           /\ Len(y.results) = Len(x.results) + 1
           /\ y.last_updated = x.last_updated
           /\ \A k \in 1 .. Len(x.results) : y.results[k] = x.results[k]
           /\ y.results[Len(x.results) + 1] = record
<1> DEFINE n == Len(x.results)
<1>1. x.results \in Seq(Record) /\ n \in Nat /\ x.seq_number \in Nat
  BY SessionFields
<1>2. record \in Record /\ record.sender_seq = n % Word
  BY <1>1 DEF SentRecord, Record, Numbered
<1>3. /\ y.seq_number = (x.seq_number + 1) % Word
      /\ y.results = Append(x.results, record)
      /\ y.last_updated = x.last_updated
  BY DEF add_to_sent, Session
<1>4. x.last_updated \in Nat /\ x.last_updated <= n
  BY DEF Numbered, Session
<1>5. y.seq_number = (n + 1) % Word /\ y.seq_number \in Nat
  <2>1. x.seq_number = n % Word
    BY DEF Numbered
  <2> HIDE DEF n
  <2>2. ((n % Word) + 1) % Word = (n + 1) % Word
    BY <1>1, WordAssumption, SuccessorRemainder
  <2>3. n + 1 \in Nat /\ (n + 1) % Word \in 0 .. Word - 1
    BY <1>1, WordAssumption, Division
  <2> QED BY <1>3, <2>1, <2>2, <2>3, WordAssumption
<1>6. /\ Append(x.results, record) \in Seq(Record)
      /\ Len(Append(x.results, record)) = n + 1
      /\ \A k \in 1..n : Append(x.results, record)[k] = x.results[k]
      /\ Append(x.results, record)[n + 1] = record
  BY <1>1, <1>2, AppendProperties
<1>7. y \in Session
  BY <1>3, <1>5, <1>6 DEF Session, add_to_sent
<1>8. Numbered(y)
  <2>1. \A k \in 1 .. n + 1 : y.results[k].sender_seq = (k - 1) % Word
    <3> SUFFICES ASSUME NEW k \in 1 .. n + 1
                 PROVE  y.results[k].sender_seq = (k - 1) % Word
      OBVIOUS
    <3>1. CASE k \in 1..n
      BY <1>3, <1>6, <3>1 DEF Numbered
    <3>2. CASE k = n + 1
      BY <1>1, <1>2, <1>3, <1>6, <3>2
    <3> QED BY <1>1, <3>1, <3>2
  <2>2. y.last_updated <= n + 1
    BY <1>1, <1>3, <1>4
  <2> QED BY <1>3, <1>5, <1>6, <2>1, <2>2 DEF Numbered
<1> QED BY <1>2, <1>3, <1>6, <1>7, <1>8

\* A reflection changes one record at most, the first with its number, and of it
\* only what the reflector has said.
LEMMA ReceivedSession ==
    ASSUME NEW x \in Session, Numbered(x), NEW r \in ReplyType,
           NEW y, y = add_to_received(x, r)
    PROVE  /\ y \in Session /\ Numbered(y)
           /\ Len(y.results) = Len(x.results)
           /\ y.last_updated = x.last_updated
           /\ \A k \in 1 .. Len(x.results) :
                /\ y.results[k].t1 = x.results[k].t1
                /\ y.results[k].sender_seq = x.results[k].sender_seq
                /\ \/ y.results[k].reflector_seq = x.results[k].reflector_seq
                   \/ /\ x.results[k].sender_seq = r.sender_seq
                      /\ y.results[k].reflector_seq = r.reflector_seq
<1> DEFINE n == Len(x.results)
           I == {i \in 1..n : x.results[i].sender_seq = r.sender_seq}
<1>1. SelectInSeq(x.results, LAMBDA record : record.sender_seq = r.sender_seq)
        = IF I # {} THEN Min(I) ELSE 0
  BY DEF SelectInSeq
<1>2. CASE I = {}
  BY <1>1, <1>2 DEF add_to_received
<1>3. CASE I # {}
  <2> DEFINE k == Min(I)
  <2>1. I \in SUBSET Nat
    BY SessionFields
  <2> HIDE DEF I
  <2>2. k \in I
    BY <1>3, <2>1, MinProperties
  <2>3. k \in 1..n /\ x.results[k].sender_seq = r.sender_seq /\ k # 0
    BY <2>2, SessionFields DEF I
  <2> DEFINE p == x.results[k]
             q == Merged(p, r)
  <2>4. p \in Record
    BY <2>3, SessionFields
  <2> HIDE DEF k
  <2>5. y = [x EXCEPT !.results[k] = q]
    BY <1>1, <1>3, <2>3 DEF add_to_received, k
  <2>6. /\ q \in Record /\ q.t1 = p.t1 /\ q.sender_seq = r.sender_seq
        /\ q.reflector_seq = r.reflector_seq
    BY <2>4 DEF Record, ReplyType, Merged
  <2> HIDE DEF p, q
  <2>7. /\ y.results = [x.results EXCEPT ![k] = q]
        /\ y.seq_number = x.seq_number /\ y.last_updated = x.last_updated
    BY <2>5 DEF Session
  <2>8. /\ [x.results EXCEPT ![k] = q] \in Seq(Record)
        /\ Len([x.results EXCEPT ![k] = q]) = n
        /\ \A j \in 1..n : [x.results EXCEPT ![k] = q][j] =
                             IF j = k THEN q ELSE x.results[j]
    BY <2>3, <2>6, ExceptSeq, SessionFields
  <2>9. y \in Session
    BY <2>5, <2>7, <2>8 DEF Session
  <2>10. \A j \in 1..n :
           /\ y.results[j].t1 = x.results[j].t1
           /\ y.results[j].sender_seq = x.results[j].sender_seq
           /\ \/ y.results[j].reflector_seq = x.results[j].reflector_seq
              \/ /\ x.results[j].sender_seq = r.sender_seq
                 /\ y.results[j].reflector_seq = r.reflector_seq
    BY <2>3, <2>6, <2>7, <2>8 DEF p
  <2>11. Numbered(y)
    BY <2>7, <2>8, <2>10 DEF Numbered
  <2> QED BY <2>7, <2>8, <2>9, <2>10, <2>11
<1> QED BY <1>2, <1>3

\* Timestamps change nothing but the t1 of records that had none before.
LEMMA UpdatedSession ==
    ASSUME NEW x \in Session, Numbered(x), NEW stamps \in Seq(Target \X Nat),
           NEW y, y = update_tx_timestamps(x, stamps)
    PROVE  /\ y \in Session /\ Numbered(y)
           /\ Len(y.results) = Len(x.results)
           /\ LET last == x.last_updated
                  m    == IF Len(stamps) <= Len(x.results) - last THEN Len(stamps)
                          ELSE Len(x.results) - last
              IN  /\ y.last_updated = last + m
                  /\ \A k \in 1 .. Len(x.results) :
                       /\ y.results[k].sender_seq = x.results[k].sender_seq
                       /\ y.results[k].reflector_seq = x.results[k].reflector_seq
                       /\ y.results[k].t1 = IF k \in last + 1 .. last + m
                                            THEN stamps[k - last]
                                            ELSE x.results[k].t1
<1> DEFINE n == Len(x.results)
           last == x.last_updated
           m == IF Len(stamps) <= n - last THEN Len(stamps) ELSE n - last
           stamped(k) == [x.results[k] EXCEPT !.t1 = stamps[k - last]]
           rs == [k \in 1..n |-> IF k \in last + 1 .. last + m THEN stamped(k)
                                 ELSE x.results[k]]
<1>1. last \in Nat /\ n \in Nat /\ last <= n /\ Len(stamps) \in Nat
  BY SessionFields, LenProperties DEF Numbered
<1>2. m \in Nat /\ m <= Len(stamps) /\ last + m <= n /\ last + m \in Nat
  BY <1>1
<1>3. Min({Len(stamps), n - last}) = m
  <2>1. Len(stamps) \in Int /\ n - last \in Int
    BY <1>1
  <2> QED BY <2>1, MinOfTwo
<1>4. /\ y.results = rs /\ y.last_updated = last + m /\ y.seq_number = x.seq_number
      /\ y = [x EXCEPT !.results = rs, !.last_updated = last + m]
  <2> HIDE DEF m
  <2> QED BY <1>3, SessionFields DEF update_tx_timestamps, Session
<1> HIDE DEF m
<1>5. ASSUME NEW k \in 1..n
      PROVE  /\ rs[k] \in Record
             /\ rs[k].sender_seq = x.results[k].sender_seq
             /\ rs[k].reflector_seq = x.results[k].reflector_seq
             /\ rs[k].t1 = IF k \in last + 1 .. last + m THEN stamps[k - last]
                           ELSE x.results[k].t1
  <2>1. x.results[k] \in Record
    BY SessionFields
  <2>2. CASE k \in last + 1 .. last + m
    <3>1. k - last \in 1 .. Len(stamps)
      BY <1>1, <1>2, <2>2
    <3>2. stamps[k - last] \in Target \X Nat
      BY <3>1, ElementOfSeq
    <3>3. rs[k] = stamped(k)
      BY <2>2
    <3> HIDE DEF rs
    <3> QED BY <2>1, <2>2, <3>2, <3>3 DEF Record
  <2>3. CASE k \notin last + 1 .. last + m
    BY <2>1, <2>3
  <2> QED BY <2>2, <2>3
<1>6. rs \in Seq(Record) /\ Len(rs) = n
  <2>1. rs \in [1..n -> Record]
    BY <1>5
  <2> HIDE DEF rs
  <2> QED BY <1>1, <2>1, FunctionIsSeq
<1> HIDE DEF rs
<1>7. y \in Session
  <2> DEFINE last1 == last + m
  <2>1. last1 \in Nat
    BY <1>2
  <2>2. y = [x EXCEPT !.results = rs, !.last_updated = last1]
    BY <1>4
  <2> HIDE DEF last1
  <2> QED BY <1>6, <2>1, <2>2 DEF Session
<1>8. Numbered(y)
  BY <1>2, <1>4, <1>5, <1>6 DEF Numbered
<1> QED BY <1>4, <1>5, <1>6, <1>7, <1>8 DEF m

\* Whatever becomes of the control buffers, what is found in them are timestamps
\* of the error queue.
LEMMA RetrievedType ==
    ASSUME NEW S, NEW queue \in Seq(S), queue # <<>>, NEW how \in BufferKinds
    PROVE  retrieve_tx_timestamps(queue, how) \in Seq(S)
<1> DEFINE n == Len(queue)
           calls == (n + MAX_MSG - 1) \div MAX_MSG
           call(k) == (k - 1) \div MAX_MSG + 1
           shared == [k \in 1 .. MAX_MSG * calls |-> queue[Min({MAX_MSG * call(k), n})]]
<1>1. n \in Nat \ {0} /\ MAX_MSG * calls \in Nat
  BY EmptySeq DEF MAX_MSG
<1>2. ASSUME NEW k \in 1 .. MAX_MSG * calls
      PROVE  queue[Min({MAX_MSG * call(k), n})] \in S
  <2>1. MAX_MSG * call(k) \in Nat \ {0}
    BY <1>1 DEF MAX_MSG
  <2>2. Min({MAX_MSG * call(k), n}) \in 1..n
    BY <1>1, <2>1, MinOfTwo
  <2> QED BY <2>2, ElementOfSeq
<1>3. shared \in Seq(S)
  <2>1. shared \in [1 .. MAX_MSG * calls -> S]
    BY <1>2
  <2> HIDE DEF shared
  <2> QED BY <1>1, <2>1, FunctionIsSeq
<1>4. /\ how = "apart" => retrieve_tx_timestamps(queue, how) = queue
      /\ how = "shared" => retrieve_tx_timestamps(queue, how) = shared
      /\ how = "overwritten" => retrieve_tx_timestamps(queue, how) = <<>>
  BY DEF retrieve_tx_timestamps, retrieve_data_from_header
<1>5. <<>> \in Seq(S)
  OBVIOUS
<1> HIDE DEF shared
<1> QED BY <1>3, <1>4, <1>5 DEF BufferKinds

\* Every n-th timestamp is a timestamp.
LEMMA StepByType ==
    ASSUME NEW S, NEW stamps \in Seq(S), NEW n \in Nat \ {0}, NEW i \in 1..n
    PROVE  StepBy(stamps, i, n) \in Seq(S)
<1> DEFINE count == (Len(stamps) - i + n) \div n
           step == [k \in 1..count |-> stamps[i + (k - 1) * n]]
<1>1. Len(stamps) \in Nat /\ Len(stamps) - i + n \in Nat
  BY LenProperties
<1>2. count \in Nat /\ n * count <= Len(stamps) - i + n
  BY <1>1, QuotientBounds
<1> HIDE DEF count
<1>3. ASSUME NEW k \in 1..count
      PROVE  stamps[i + (k - 1) * n] \in S
  <2>1. k - 1 \in Nat /\ count - k \in Nat
    BY <1>2
  <2>2. (k - 1) * n \in Nat /\ (count - k) * n \in Nat
    BY <2>1, Product
  <2>3. n * count = (k - 1) * n + n + (count - k) * n
    BY <1>2
  <2>4. i + (k - 1) * n \in 1 .. Len(stamps)
    BY <1>1, <1>2, <2>2, <2>3
  <2> QED BY <2>4, ElementOfSeq
<1>4. step \in [1..count -> S]
  BY <1>3
<1>5. StepBy(stamps, i, n) = step
  BY DEF StepBy, count
<1> HIDE DEF step
<1> QED BY <1>2, <1>4, <1>5, FunctionIsSeq

\* Every target has its place among the targets.
LEMMA TargetPlace ==
    ASSUME NEW t \in Target
    PROVE  SelectInSeq(Targets, LAMBDA u : u = t) \in 1 .. Len(Targets)
<1> DEFINE I == {i \in 1 .. Len(Targets) : Targets[i] = t}
<1>1. SelectInSeq(Targets, LAMBDA u : u = t) = IF I # {} THEN Min(I) ELSE 0
  BY DEF SelectInSeq
<1>2. I # {} /\ I \in SUBSET Nat
  BY LenProperties, TargetsAssumption DEF Target, ToSet
<1>3. I \subseteq 1 .. Len(Targets)
  OBVIOUS
<1> HIDE DEF I
<1> QED BY <1>1, <1>2, <1>3, MinProperties

\* The probes that the kernel takes go to targets.
LEMMA SendsType == ASSUME NEW sent \in Sends PROVE sent \in Seq(Target)
<1>1. CASE sent = Targets
  BY <1>1, TargetsAssumption
<1>2. CASE sent \in Subsequences(Targets)
  <2> PICK m \in 0 .. Len(Targets) :
         sent \in {[k \in 1..m |-> Targets[f[k]]] : f \in Increasing(m, Len(Targets))}
    BY <1>2 DEF Subsequences
  <2>1. PICK f \in Increasing(m, Len(Targets)) : sent = [k \in 1..m |-> Targets[f[k]]]
    OBVIOUS
  <2>2. Len(Targets) \in Nat /\ \A k \in 1 .. Len(Targets) : Targets[k] \in Target
    BY TargetsAssumption, LenProperties, ElementOfSeq
  <2>3. m \in Nat /\ sent \in [1..m -> Target]
    BY <2>1, <2>2 DEF Increasing
  <2> QED BY <2>3, FunctionIsSeq
<1> QED BY <1>1, <1>2 DEF Sends

-----------------------------------------------------------------------------
(* Types.                                                                  *)

\* The initial state is well typed.
LEMMA InitType == Init => TypeOK
<1> SUFFICES ASSUME Init PROVE TypeOK
  OBVIOUS
<1>1. NewSession \in Session /\ Numbered(NewSession) /\ Len(NewSession.results) = 0
  BY WordAssumption DEF NewSession, Session, Numbered
<1>2. SenderType
  <2>1. sessions \in [Senders -> [Target -> Session]]
    BY <1>1 DEF Init
  <2>2. \A s \in Senders, t \in Target :
          Numbered(sessions[s][t]) /\ Len(sessions[s][t].results) <= MaxPackets
    BY <1>1, BoundsAssumption DEF Init
  <2> QED BY <2>1, <2>2 DEF Init, SenderType
<1>3. ReflectorType
  BY DEF Init, ReflectorType
<1>4. NetworkType
  BY BoundsAssumption DEF Init, NetworkType, Queues
<1> QED BY <1>2, <1>3, <1>4 DEF TypeOK

\* What the sending callback does to a session and to the network.
LEMMA TxCallbackEffect ==
    ASSUME TypeOK, NEW s \in Senders, TxCallback(s)
    PROVE  /\ \A u \in Senders, t \in Target :
                 LET x == sessions[u][t]  y == sessions'[u][t] IN
                 IF u = s
                 THEN y = add_to_sent(x, SentRecord(x.seq_number, <<t, x.seq_number>>))
                 ELSE y = x
           /\ \A u \in Senders, t \in Target :
                 LET x == sessions[u][t].seq_number IN
                 \/ probes'[u][t] = probes[u][t]
                 \/ u = s /\ probes'[u][t] = Append(probes[u][t], x)
           /\ sessions' \in [Senders -> [Target -> Session]]
           /\ probes' \in Queues(Nat)
           /\ unstamped' \in [Senders -> Seq(Target \X Nat)]
           /\ \A t \in Target : Len(sessions[s][t].results) < MaxPackets
<1> PICK sent \in Sends :
      /\ sessions' = [sessions EXCEPT ![s] = [t \in Target |->
            add_to_sent(sessions[s][t], SentRecord(sessions[s][t].seq_number,
                                          <<t, sessions[s][t].seq_number>>))]]
      /\ probes' = [probes EXCEPT ![s] =
            [t \in Target |-> IF t \in ToSet(sent)
                              THEN Append(probes[s][t], sessions[s][t].seq_number)
                              ELSE probes[s][t]]]
      /\ unstamped' = [unstamped EXCEPT ![s] =
            unstamped[s] \o [k \in DOMAIN sent |->
                               <<sent[k], sessions[s][sent[k]].seq_number>>]]
  BY DEF TxCallback
<1>1. \A u \in Senders, t \in Target :
        /\ sessions[u][t] \in Session /\ Numbered(sessions[u][t])
        /\ sessions[u][t].seq_number \in Nat /\ probes[u][t] \in Seq(Nat)
  BY SessionFields DEF TypeOK, SenderType, NetworkType, Queues
<1> DEFINE New(t) == add_to_sent(sessions[s][t],
                        SentRecord(sessions[s][t].seq_number,
                                   <<t, sessions[s][t].seq_number>>))
<1>2. \A t \in Target : New(t) \in Session
  BY <1>1, SentSession
<1> HIDE DEF New
<1>3. sessions' \in [Senders -> [Target -> Session]]
  BY <1>2 DEF TypeOK, SenderType, New
<1>4. probes' \in Queues(Nat)
  BY <1>1 DEF TypeOK, NetworkType, Queues
<1>5. unstamped' \in [Senders -> Seq(Target \X Nat)]
  <2> DEFINE new == [k \in DOMAIN sent |-> <<sent[k], sessions[s][sent[k]].seq_number>>]
  <2>1. /\ sent \in Seq(Target) /\ Len(sent) \in Nat /\ DOMAIN sent = 1 .. Len(sent)
        /\ \A k \in 1 .. Len(sent) : sent[k] \in Target
    BY SendsType, LenProperties, ElementOfSeq
  <2>2. new \in [1 .. Len(sent) -> Target \X Nat]
    BY <1>1, <2>1
  <2>3. new \in Seq(Target \X Nat)
    <3> HIDE DEF new
    <3> QED BY <2>1, <2>2, FunctionIsSeq
  <2> HIDE DEF new
  <2>4. unstamped[s] \o new \in Seq(Target \X Nat)
    BY <2>3, ConcatProperties DEF TypeOK, SenderType
  <2> QED BY <2>4 DEF TypeOK, SenderType, new
<1>6. \A u \in Senders, t \in Target :
        IF u = s THEN sessions'[u][t] = New(t) ELSE sessions'[u][t] = sessions[u][t]
  BY DEF TypeOK, SenderType, New
<1>7. \A u \in Senders, t \in Target :
        \/ probes'[u][t] = probes[u][t]
        \/ u = s /\ probes'[u][t] = Append(probes[u][t], sessions[u][t].seq_number)
  BY DEF TypeOK, NetworkType, Queues
<1> QED BY <1>3, <1>4, <1>5, <1>6, <1>7 DEF TxCallback, New

\* The same at one session: the callback writes the sessions of its own sender only.
LEMMA TxCallbackOnPair ==
    ASSUME TypeOK, NEW u \in Senders, TxCallback(u), NEW s \in Senders, NEW t \in Target
    PROVE  /\ u = s => sessions'[s][t] =
                          add_to_sent(sessions[s][t],
                             SentRecord(sessions[s][t].seq_number,
                                        <<t, sessions[s][t].seq_number>>))
           /\ u # s => sessions'[s][t] = sessions[s][t] /\ probes'[s][t] = probes[s][t]
           /\ \/ probes'[s][t] = probes[s][t]
              \/ (u = s /\ probes'[s][t] = Append(probes[s][t], sessions[s][t].seq_number))
<1> DEFINE x == sessions[s][t]
           New == add_to_sent(x, SentRecord(x.seq_number, <<t, x.seq_number>>))
<1>1. IF s = u THEN sessions'[s][t] = New ELSE sessions'[s][t] = sessions[s][t]
  BY Zenon, TxCallbackEffect
<1>2. \/ probes'[s][t] = probes[s][t]
      \/ (s = u /\ probes'[s][t] = Append(probes[s][t], x.seq_number))
  BY Zenon, TxCallbackEffect
<1> HIDE DEF New
<1>3. /\ u = s => sessions'[s][t] = New
      /\ u # s => sessions'[s][t] = sessions[s][t]
  BY <1>1
<1>4. u # s => probes'[s][t] = probes[s][t]
  BY <1>2
<1> QED BY <1>2, <1>3, <1>4 DEF New

\* What the correcting callback does to the sessions of its sender: each gets some
\* timestamps.
LEMMA TxCorrectEffect ==
    ASSUME TypeOK, NEW s \in Senders, TxCorrectCallback(s)
    PROVE  /\ \A u \in Senders, t \in Target :
                 IF u = s
                 THEN \E stamps \in Seq(Target \X Nat) :
                        sessions'[u][t] = update_tx_timestamps(sessions[u][t], stamps)
                 ELSE sessions'[u][t] = sessions[u][t]
           /\ sessions' \in [Senders -> [Target -> Session]]
           /\ errqueue' \in [Senders -> Seq(Target \X Nat)]
<1> DEFINE n == Len(Targets)
           i(t) == SelectInSeq(Targets, LAMBDA u : u = t)
<1>9. PICK how \in Buffers :
      sessions' = [sessions EXCEPT ![s] =
         [t \in Target |-> update_tx_timestamps(sessions[s][t],
             StepBy(retrieve_tx_timestamps(errqueue[s], how), i(t), n))]]
  BY DEF TxCorrectCallback
<1> DEFINE all == retrieve_tx_timestamps(errqueue[s], how)
           dealt(t) == StepBy(all, i(t), n)
<1>1. all \in Seq(Target \X Nat)
  BY RetrievedType, BuffersAssumption DEF TypeOK, SenderType, TxCorrectCallback
<1>2. n \in Nat \ {0}
  BY TargetsAssumption, EmptySeq
<1>3. ASSUME NEW t \in Target PROVE dealt(t) \in Seq(Target \X Nat)
  <2>1. i(t) \in 1..n
    BY TargetPlace
  <2> HIDE DEF i, n, all
  <2> QED BY <1>1, <1>2, <2>1, StepByType
<1> HIDE DEF dealt
<1>4. sessions' = [sessions EXCEPT ![s] =
         [t \in Target |-> update_tx_timestamps(sessions[s][t], dealt(t))]]
  BY <1>9 DEF dealt
<1>5. \A t \in Target : update_tx_timestamps(sessions[s][t], dealt(t)) \in Session
  BY <1>3, UpdatedSession DEF TypeOK, SenderType
<1>6. sessions' \in [Senders -> [Target -> Session]]
  BY <1>4, <1>5 DEF TypeOK, SenderType
<1>7. \A u \in Senders, t \in Target :
        IF u = s THEN sessions'[u][t] = update_tx_timestamps(sessions[u][t], dealt(t))
        ELSE sessions'[u][t] = sessions[u][t]
  BY <1>4 DEF TypeOK, SenderType
<1>8. errqueue' \in [Senders -> Seq(Target \X Nat)]
  BY DEF TxCorrectCallback, TypeOK, SenderType
<1> QED BY <1>3, <1>6, <1>7, <1>8

\* Taking a datagram out of a queue leaves datagrams that were there.
LEMMA RemovedFrom ==
    ASSUME NEW S, NEW queues \in Queues(S),
           NEW s \in Senders, NEW t \in Target, NEW i \in DOMAIN queues[s][t],
           NEW q, q = [queues EXCEPT ![s][t] = RemoveAt(queues[s][t], i)]
    PROVE  /\ q \in Queues(S)
           /\ queues[s][t][i] \in S
           /\ Len(q[s][t]) = Len(queues[s][t]) - 1
           /\ \A u \in Senders, v \in Target :
                /\ <<u, v>> # <<s, t>> => q[u][v] = queues[u][v]
                /\ \A k \in 1 .. Len(q[u][v]) :
                     \E j \in 1 .. Len(queues[u][v]) : q[u][v][k] = queues[u][v][j]
<1> DEFINE a == queues[s][t]
           b == RemoveAt(a, i)
<1>1. a \in Seq(S) /\ Len(a) \in Nat /\ i \in 1 .. Len(a) /\ a[i] \in S
  BY LenProperties, ElementOfSeq DEF Queues
<1> HIDE DEF a
<1>2. b \in Seq(S) /\ Len(b) = Len(a) - 1
  BY <1>1, RemoveAtProperties
<1>3. \A k \in 1 .. Len(b) : \E j \in 1 .. Len(a) : b[k] = a[j]
  BY <1>1, RemovedElements
<1> HIDE DEF b
<1>4. q = [queues EXCEPT ![s][t] = b]
  BY DEF a, b
<1>5. /\ q \in Queues(S) /\ q[s][t] = b
      /\ \A u \in Senders, v \in Target : <<u, v>> # <<s, t>> => q[u][v] = queues[u][v]
  BY <1>2, <1>4 DEF Queues
<1>6. ASSUME NEW u \in Senders, NEW v \in Target
      PROVE  \A k \in 1 .. Len(q[u][v]) :
               \E j \in 1 .. Len(queues[u][v]) : q[u][v][k] = queues[u][v][j]
  <2>1. CASE <<u, v>> = <<s, t>>
    BY <1>3, <1>5, <2>1 DEF a
  <2>2. CASE <<u, v>> # <<s, t>>
    BY <1>5, <2>2
  <2> QED BY <2>1, <2>2
<1> QED BY <1>1, <1>2, <1>5, <1>6 DEF a

\* A duplicated datagram makes the queue longer by one.
LEMMA CopiedType ==
    ASSUME NEW S, NEW q \in Seq(S), NEW i \in 1 .. Len(q)
    PROVE  Copied(q, i) \in Seq(S) /\ Len(Copied(q, i)) = Len(q) + 1
  BY CopyProperties DEF Copied

\* A duplicated datagram is one that was there.
LEMMA CopiedElements ==
    ASSUME NEW S, NEW q \in Seq(S), NEW i \in 1 .. Len(q)
    PROVE  \A k \in 1 .. Len(Copied(q, i)) :
             \E j \in 1 .. Len(q) : Copied(q, i)[k] = q[j]
  BY CopyProperties DEF Copied

\* Duplicating a datagram leaves datagrams that were there.
LEMMA CopiedIn ==
    ASSUME NEW S, NEW queues \in Queues(S),
           NEW s \in Senders, NEW t \in Target, NEW i \in DOMAIN queues[s][t],
           NEW q, q = [queues EXCEPT ![s][t] = Copied(queues[s][t], i)]
    PROVE  /\ q \in Queues(S)
           /\ Len(q[s][t]) = Len(queues[s][t]) + 1
           /\ \A u \in Senders, v \in Target :
                /\ <<u, v>> # <<s, t>> => q[u][v] = queues[u][v]
                /\ \A k \in 1 .. Len(q[u][v]) :
                     \E j \in 1 .. Len(queues[u][v]) : q[u][v][k] = queues[u][v][j]
<1> DEFINE a == queues[s][t]
           b == Copied(a, i)
<1>1. a \in Seq(S) /\ Len(a) \in Nat /\ i \in 1 .. Len(a) /\ a[i] \in S
  BY LenProperties, ElementOfSeq DEF Queues
<1> HIDE DEF a
<1>2. b \in Seq(S) /\ Len(b) = Len(a) + 1
  BY <1>1, CopiedType
<1>3. \A k \in 1 .. Len(b) : \E j \in 1 .. Len(a) : b[k] = a[j]
  BY <1>1, CopiedElements
<1> HIDE DEF b
<1>4. q = [queues EXCEPT ![s][t] = b]
  BY DEF a, b
<1>5. /\ q \in Queues(S) /\ q[s][t] = b
      /\ \A u \in Senders, v \in Target : <<u, v>> # <<s, t>> => q[u][v] = queues[u][v]
  BY <1>2, <1>4 DEF Queues
<1>6. ASSUME NEW u \in Senders, NEW v \in Target
      PROVE  \A k \in 1 .. Len(q[u][v]) :
               \E j \in 1 .. Len(queues[u][v]) : q[u][v][k] = queues[u][v][j]
  <2>1. CASE <<u, v>> = <<s, t>>
    BY <1>3, <1>5, <2>1 DEF a
  <2>2. CASE <<u, v>> # <<s, t>>
    BY <1>5, <2>2
  <2> QED BY <2>1, <2>2
<1> QED BY <1>2, <1>5, <1>6 DEF a

\* A datagram that the network may deliver is one of the queue.
LEMMA DeliverableInQueue == ASSUME NEW q PROVE Deliverable(q) \subseteq DOMAIN q
  BY DEF Deliverable

\* What the receiving callback takes and where it goes.
LEMMA RxCallbackEffect ==
    ASSUME TypeOK, NEW s \in Senders, NEW t \in Target, RxCallback(s, t)
    PROVE  \E i \in DOMAIN replies[s][t] :
             LET reply == replies[s][t][i]
                 y     == add_to_received(sessions[s][t], reply)
             IN  /\ reply \in ReplyType
                 /\ sessions' = [sessions EXCEPT ![s][t] = y]
                 /\ y \in Session /\ Numbered(y)
                 /\ Len(y.results) = Len(sessions[s][t].results)
                 /\ replies' = [replies EXCEPT ![s][t] = RemoveAt(replies[s][t], i)]
<1>1. PICK i \in DOMAIN replies[s][t] :
        /\ sessions' = [sessions EXCEPT ![s][t] =
              add_to_received(sessions[s][t], replies[s][t][i])]
        /\ replies' = [replies EXCEPT ![s][t] = RemoveAt(replies[s][t], i)]
  BY DeliverableInQueue DEF RxCallback
<1>2. replies[s][t][i] \in ReplyType
  BY LenProperties, ElementOfSeq DEF TypeOK, NetworkType, Queues
<1>3. sessions[s][t] \in Session /\ Numbered(sessions[s][t])
  BY DEF TypeOK, SenderType
<1> DEFINE y == add_to_received(sessions[s][t], replies[s][t][i])
<1>4. y \in Session /\ Numbered(y) /\ Len(y.results) = Len(sessions[s][t].results)
  BY <1>2, <1>3, ReceivedSession
<1> HIDE DEF y
<1>5. sessions' = [sessions EXCEPT ![s][t] = y]
  BY <1>1 DEF y
<1> QED BY Zenon, <1>1, <1>2, <1>4, <1>5 DEF y

\* What reaches the reflector's socket.
LEMMA ArriveEffect ==
    ASSUME TypeOK, NEW s \in Senders, NEW t \in Target, Arrive(t, s)
    PROVE  \E i \in DOMAIN probes[s][t] :
             /\ probes[s][t][i] \in Nat
             /\ probes' = [probes EXCEPT ![s][t] = RemoveAt(probes[s][t], i)]
             /\ buffer' = [buffer EXCEPT ![t] = Append(buffer[t], <<s, probes[s][t][i]>>)]
             /\ arrived' = [arrived EXCEPT ![s][t] = arrived[s][t] \cup {probes[s][t][i]}]
<1>1. PICK i \in DOMAIN probes[s][t] :
        /\ probes' = [probes EXCEPT ![s][t] = RemoveAt(probes[s][t], i)]
        /\ buffer' = [buffer EXCEPT ![t] = Append(buffer[t], <<s, probes[s][t][i]>>)]
        /\ arrived' = [arrived EXCEPT ![s][t] = arrived[s][t] \cup {probes[s][t][i]}]
  BY DeliverableInQueue DEF Arrive
<1>2. probes[s][t][i] \in Nat
  BY LenProperties, ElementOfSeq DEF TypeOK, NetworkType, Queues
<1> QED BY <1>1, <1>2

\* What the reflector takes from its buffer and sends back.
LEMMA ReflectorEffect ==
    ASSUME TypeOK, NEW t \in Target, ReflectorRxCallback(t)
    PROVE  \E s \in Senders, probe \in Nat :
             LET reply == ReflectedMessage(probe, reflector[t][s]) IN
             /\ Head(buffer[t]) = <<s, probe>> /\ buffer[t] # <<>>
             /\ reply \in ReplyType
             /\ buffer' = [buffer EXCEPT ![t] = Tail(buffer[t])]
             /\ reflector' = [reflector EXCEPT ![t][s] = Reflected(reflector[t][s])]
             /\ Reflected(reflector[t][s]) \in [seq_number : Nat]
             /\ replies' = [replies EXCEPT ![s][t] = Append(replies[s][t], reply)]
<1>1. buffer[t] \in Seq(Senders \X Nat) /\ buffer[t] # <<>>
  BY DEF TypeOK, ReflectorType, ReflectorRxCallback
<1>2. Head(buffer[t]) \in Senders \X Nat
  BY <1>1, HeadTailProperties
<1>3. PICK s \in Senders, probe \in Nat : Head(buffer[t]) = <<s, probe>>
  BY <1>2
<1>4. reflector[t][s] \in [seq_number : Nat] \cup {None}
  BY DEF TypeOK, ReflectorType
<1>5. Reflected(reflector[t][s]) \in [seq_number : Nat]
  <2>1. CASE reflector[t][s] = None
    BY <2>1 DEF Reflected
  <2>2. CASE reflector[t][s] # None
    <3>1. reflector[t][s].seq_number + 1 \in Int
      BY <1>4, <2>2
    <3>2. (reflector[t][s].seq_number + 1) % Word \in 0 .. Word - 1
      BY <3>1, WordAssumption, Division
    <3>3. (reflector[t][s].seq_number + 1) % Word \in Nat
      BY <3>2, WordAssumption
    <3> QED BY <2>2, <3>3 DEF Reflected
  <2> QED BY <2>1, <2>2
<1>6. ReflectedMessage(probe, reflector[t][s]) \in ReplyType
  BY <1>4 DEF ReflectedMessage, ReplyType
<1>7. /\ buffer' = [buffer EXCEPT ![t] = Tail(buffer[t])]
      /\ reflector' = [reflector EXCEPT ![t][s] = Reflected(reflector[t][s])]
      /\ replies' = [replies EXCEPT ![s][t] =
                      Append(replies[s][t], ReflectedMessage(probe, reflector[t][s]))]
  <2>1. Head(buffer[t])[1] = s /\ Head(buffer[t])[2] = probe
    BY <1>3
  <2> QED BY <2>1 DEF ReflectorRxCallback
<1> QED BY <1>1, <1>3, <1>5, <1>6, <1>7

\* Every step keeps the state well typed.
LEMMA NextType == TypeOK /\ [Next]_vars => TypeOK'
<1> SUFFICES ASSUME TypeOK, [Next]_vars PROVE TypeOK'
  OBVIOUS
<1> USE DEF TypeOK
<1>1. ASSUME NEW s \in Senders, TxCallback(s) PROVE TypeOK'
  <2>1. \A u \in Senders, t \in Target :
          Numbered(sessions'[u][t]) /\ Len(sessions'[u][t].results) <= MaxPackets
    <3> TAKE u \in Senders, t \in Target
    <3>1. /\ sessions[u][t] \in Session /\ Numbered(sessions[u][t])
          /\ Len(sessions[u][t].results) \in Nat
          /\ Len(sessions[u][t].results) <= MaxPackets
      BY SessionFields DEF SenderType
    <3>2. CASE u = s
      <4> DEFINE x == sessions[u][t]
                 y == sessions'[u][t]
      <4>3. y = add_to_sent(x, SentRecord(x.seq_number, <<t, x.seq_number>>))
        BY <1>1, <3>2, TxCallbackOnPair
      <4>1. Numbered(y) /\ Len(y.results) = Len(x.results) + 1
        <5> HIDE DEF x, y
        <5>1. x \in Session /\ Numbered(x)
          BY <3>1 DEF x
        <5> QED BY <4>3, <5>1, SentSession
      <4>2. Len(sessions[u][t].results) < MaxPackets
        BY <1>1, <3>2, TxCallbackEffect
      <4> QED BY <3>1, <4>1, <4>2, BoundsAssumption
    <3>3. CASE u # s
      <4>1. sessions'[u][t] = sessions[u][t]
        BY <1>1, <3>3, TxCallbackOnPair
      <4> QED BY <3>1, <4>1
    <3> QED BY <3>2, <3>3
  <2>2. SenderType'
    BY <1>1, <2>1, TxCallbackEffect DEF TxCallback, SenderType
  <2>3. ReflectorType' /\ NetworkType'
    BY <1>1, TxCallbackEffect DEF TxCallback, ReflectorType, NetworkType, socket
  <2> QED BY <2>2, <2>3
<1>2. ASSUME NEW s \in Senders, TxCorrectCallback(s) PROVE TypeOK'
  <2>1. \A u \in Senders, t \in Target :
          Numbered(sessions'[u][t]) /\ Len(sessions'[u][t].results) <= MaxPackets
    <3> TAKE u \in Senders, t \in Target
    <3>1. /\ sessions[u][t] \in Session /\ Numbered(sessions[u][t])
          /\ Len(sessions[u][t].results) <= MaxPackets
      BY DEF SenderType
    <3>2. CASE u = s
      BY <1>2, <3>1, <3>2, TxCorrectEffect, UpdatedSession
    <3>3. CASE u # s
      BY <1>2, <3>1, <3>3, TxCorrectEffect
    <3> QED BY <3>2, <3>3
  <2>2. SenderType'
    BY <1>2, <2>1, TxCorrectEffect DEF TxCorrectCallback, SenderType
  <2>3. ReflectorType' /\ NetworkType'
    BY <1>2 DEF TxCorrectCallback, ReflectorType, NetworkType, socket
  <2> QED BY <2>2, <2>3
<1>3. ASSUME NEW s \in Senders, Deadline(s) \/ Finish(s) PROVE TypeOK'
  BY <1>3 DEF Deadline, Finish, SenderType, ReflectorType, NetworkType, socket
<1>4. ASSUME NEW s \in Senders, Stamp(s) PROVE TypeOK'
  <2>1. unstamped[s] \in Seq(Target \X Nat) /\ unstamped[s] # <<>>
    BY <1>4 DEF Stamp, SenderType
  <2>2. Head(unstamped[s]) \in Target \X Nat /\ Tail(unstamped[s]) \in Seq(Target \X Nat)
    BY <2>1, HeadTailProperties
  <2>3. Append(errqueue[s], Head(unstamped[s])) \in Seq(Target \X Nat)
    BY <2>2, AppendProperties DEF SenderType
  <2>4. SenderType'
    BY <1>4, <2>2, <2>3 DEF Stamp, SenderType
  <2> QED BY <1>4, <2>4 DEF Stamp, ReflectorType, NetworkType, socket
<1>5. ASSUME NEW s \in Senders, NEW t \in Target, RxCallback(s, t) PROVE TypeOK'
  <2>1. PICK i \in DOMAIN replies[s][t], y \in Session :
          /\ sessions' = [sessions EXCEPT ![s][t] = y]
          /\ Numbered(y) /\ Len(y.results) = Len(sessions[s][t].results)
          /\ replies' = [replies EXCEPT ![s][t] = RemoveAt(replies[s][t], i)]
    BY <1>5, RxCallbackEffect
  <2>2. SenderType'
    BY <1>5, <2>1 DEF RxCallback, SenderType
  <2>3. replies' \in Queues(ReplyType)
    BY <2>1, RemovedFrom DEF NetworkType
  <2> QED BY <1>5, <2>2, <2>3 DEF RxCallback, ReflectorType, NetworkType, socket
<1>6. ASSUME NEW s \in Senders, NEW t \in Target, Arrive(t, s) PROVE TypeOK'
  <2>1. PICK i \in DOMAIN probes[s][t] :
          /\ probes[s][t][i] \in Nat
          /\ probes' = [probes EXCEPT ![s][t] = RemoveAt(probes[s][t], i)]
          /\ buffer' = [buffer EXCEPT ![t] = Append(buffer[t], <<s, probes[s][t][i]>>)]
          /\ arrived' = [arrived EXCEPT ![s][t] = arrived[s][t] \cup {probes[s][t][i]}]
    BY <1>6, ArriveEffect
  <2>2. probes' \in Queues(Nat)
    BY <2>1, RemovedFrom DEF NetworkType
  <2>3. NetworkType'
    BY <1>6, <2>1, <2>2 DEF Arrive, NetworkType
  <2>4. Append(buffer[t], <<s, probes[s][t][i]>>) \in Seq(Senders \X Nat)
    BY <2>1, AppendProperties DEF ReflectorType
  <2>5. ReflectorType'
    BY <1>6, <2>1, <2>4 DEF Arrive, ReflectorType
  <2> QED BY <1>6, <2>3, <2>5 DEF Arrive, SenderType
<1>7. ASSUME NEW s \in Senders, NEW t \in Target, LoseProbe(s, t) \/ LoseReply(s, t)
      PROVE  TypeOK'
  <2>1. CASE LoseProbe(s, t)
    <3>1. PICK i \in DOMAIN probes[s][t] :
            probes' = [probes EXCEPT ![s][t] = RemoveAt(probes[s][t], i)]
      BY <2>1 DEF LoseProbe
    <3>2. probes' \in Queues(Nat)
      BY <3>1, RemovedFrom DEF NetworkType
    <3> QED BY <2>1, <3>2 DEF LoseProbe, SenderType, ReflectorType, NetworkType, socket
  <2>2. CASE LoseReply(s, t)
    <3>1. PICK i \in DOMAIN replies[s][t] :
            replies' = [replies EXCEPT ![s][t] = RemoveAt(replies[s][t], i)]
      BY <2>2 DEF LoseReply
    <3>2. replies' \in Queues(ReplyType)
      BY <3>1, RemovedFrom DEF NetworkType
    <3> QED BY <2>2, <3>2 DEF LoseReply, SenderType, ReflectorType, NetworkType, socket
  <2> QED BY <1>7, <2>1, <2>2
<1>8. ASSUME NEW s \in Senders, NEW t \in Target, CopyProbe(s, t) \/ CopyReply(s, t)
      PROVE  TypeOK'
  <2>1. CASE CopyProbe(s, t)
    <3>3. PICK i \in DOMAIN probes[s][t] :
            probes' = [probes EXCEPT ![s][t] = Copied(probes[s][t], i)]
      BY <2>1 DEF CopyProbe
    <3>1. probes' \in Queues(Nat)
      BY <3>3, CopiedIn DEF NetworkType
    <3>2. copies' \in 0..MaxCopies
      BY <2>1, BoundsAssumption DEF CopyProbe, NetworkType
    <3> QED BY <2>1, <3>1, <3>2
            DEF CopyProbe, SenderType, ReflectorType, NetworkType, socket
  <2>2. CASE CopyReply(s, t)
    <3>3. PICK i \in DOMAIN replies[s][t] :
            replies' = [replies EXCEPT ![s][t] = Copied(replies[s][t], i)]
      BY <2>2 DEF CopyReply
    <3>1. replies' \in Queues(ReplyType)
      BY <3>3, CopiedIn DEF NetworkType
    <3>2. copies' \in 0..MaxCopies
      BY <2>2, BoundsAssumption DEF CopyReply, NetworkType
    <3> QED BY <2>2, <3>1, <3>2
            DEF CopyReply, SenderType, ReflectorType, NetworkType, socket
  <2> QED BY <1>8, <2>1, <2>2
<1>9. ASSUME NEW t \in Target, ReflectorRxCallback(t) PROVE TypeOK'
  <2>6. PICK s \in Senders, probe \in Nat :
          /\ buffer[t] # <<>> /\ buffer' = [buffer EXCEPT ![t] = Tail(buffer[t])]
          /\ reflector' = [reflector EXCEPT ![t][s] = Reflected(reflector[t][s])]
          /\ Reflected(reflector[t][s]) \in [seq_number : Nat]
          /\ ReflectedMessage(probe, reflector[t][s]) \in ReplyType
          /\ replies' = [replies EXCEPT ![s][t] =
                Append(replies[s][t], ReflectedMessage(probe, reflector[t][s]))]
    BY <1>9, ReflectorEffect
  <2> DEFINE reply == ReflectedMessage(probe, reflector[t][s])
             r == Reflected(reflector[t][s])
  <2>1. /\ reply \in ReplyType /\ r \in [seq_number : Nat]
        /\ buffer[t] # <<>> /\ buffer' = [buffer EXCEPT ![t] = Tail(buffer[t])]
        /\ reflector' = [reflector EXCEPT ![t][s] = r]
        /\ replies' = [replies EXCEPT ![s][t] = Append(replies[s][t], reply)]
    BY <2>6
  <2> HIDE DEF reply, r
  <2>2. Tail(buffer[t]) \in Seq(Senders \X Nat)
    BY <2>1, HeadTailProperties DEF ReflectorType
  <2>3. ReflectorType'
    <3>1. UNCHANGED <<deaf, expired>> /\ edge' \subseteq edge
      BY <1>9 DEF ReflectorRxCallback
    <3> QED BY <2>1, <2>2, <3>1 DEF ReflectorType
  <2>4. Append(replies[s][t], reply) \in Seq(ReplyType)
    BY <2>1, AppendProperties DEF NetworkType, Queues
  <2>5. NetworkType'
    <3>1. replies' \in Queues(ReplyType)
      BY <2>1, <2>4 DEF NetworkType, Queues
    <3> QED BY <1>9, <3>1 DEF ReflectorRxCallback, NetworkType
  <2> QED BY <1>9, <2>3, <2>5 DEF ReflectorRxCallback, SenderType
<1>10. ASSUME NEW t \in Target, ReflectorRxError(t) PROVE TypeOK'
  BY <1>10 DEF ReflectorRxError, SenderType, ReflectorType, NetworkType
<1>11. ASSUME NEW t \in Target, CleanupStaleSessions(t) PROVE TypeOK'
  BY <1>11 DEF CleanupStaleSessions, SenderType, ReflectorType, NetworkType, socket
<1>12. CASE UNCHANGED vars
  BY <1>12 DEF vars, socket, SenderType, ReflectorType, NetworkType
<1> HIDE DEF TypeOK
<1> QED BY <1>1, <1>2, <1>3, <1>4, <1>5, <1>6, <1>7, <1>8, <1>9, <1>10, <1>11, <1>12
        DEF Next, Done

\* Every variable keeps to its type, and the records of a session stay numbered
\* in the order of sending: the sender's sequence number, the index of a record
\* and the count of corrected records fit together after every callback.
THEOREM TypeCorrect == Spec => []TypeOK
  BY InitType, NextType, PTL DEF Spec

-----------------------------------------------------------------------------
(* The reflections of a packet.                                            *)

\* The reflections of a pair that are under way or recorded: the number of the
\* packet and the number it was reflected under.
Reflections(s, t) ==
    {<<replies[s][t][i].sender_seq, replies[s][t][i].reflector_seq>> :
        i \in 1 .. Len(replies[s][t])}
    \cup {<<sessions[s][t].results[k].sender_seq, sessions[s][t].results[k].reflector_seq>> :
             k \in {j \in 1 .. Len(sessions[s][t].results) :
                      ~Lost(sessions[s][t].results[j])}}

\* The number that the next reflection of a pair carries.
Number(s, t) == IF reflector[t][s] = None THEN 0 ELSE reflector[t][s].seq_number

\* The reflection of the oldest datagram in a target's buffer.
Upcoming(s, t) == <<Head(buffer[t])[2], Number(s, t)>>

\* A record that is answered after a step was answered before it, or takes its
\* answer from a reply.
RecordsFromReplies(s, t) ==
    LET x == sessions[s][t].results
        y == sessions'[s][t].results
    IN  \A k \in 1 .. Len(y) : ~Lost(y[k]) =>
          \/ /\ k \in 1 .. Len(x)
             /\ y[k].sender_seq = x[k].sender_seq
             /\ y[k].reflector_seq = x[k].reflector_seq
          \/ \E j \in 1 .. Len(replies[s][t]) :
                /\ y[k].sender_seq = replies[s][t][j].sender_seq
                /\ y[k].reflector_seq = replies[s][t][j].reflector_seq

\* A reply under way after a step was under way before it.
RepliesFromReplies(s, t) ==
    \A k \in 1 .. Len(replies'[s][t]) :
        \E j \in 1 .. Len(replies[s][t]) : replies'[s][t][k] = replies[s][t][j]

\* Where both hold there is no new reflection.
LEMMA NoNewReflection ==
    ASSUME NEW s, NEW t, RecordsFromReplies(s, t), RepliesFromReplies(s, t)
    PROVE  Reflections(s, t)' \subseteq Reflections(s, t)
<1> SUFFICES ASSUME NEW a \in Reflections(s, t)' PROVE a \in Reflections(s, t)
  OBVIOUS
<1>1. CASE \E i \in 1 .. Len(replies'[s][t]) :
             a = <<replies'[s][t][i].sender_seq, replies'[s][t][i].reflector_seq>>
  BY <1>1 DEF RepliesFromReplies, Reflections
<1>2. CASE \E k \in 1 .. Len(sessions'[s][t].results) :
             /\ ~Lost(sessions'[s][t].results[k])
             /\ a = <<sessions'[s][t].results[k].sender_seq,
                      sessions'[s][t].results[k].reflector_seq>>
  <2> DEFINE x == sessions[s][t].results
             y == sessions'[s][t].results
             q == replies[s][t]
  <2>1. PICK k \in 1 .. Len(y) :
          ~Lost(y[k]) /\ a = <<y[k].sender_seq, y[k].reflector_seq>>
    BY <1>2
  <2>2. \/ /\ k \in 1 .. Len(x)
           /\ y[k].sender_seq = x[k].sender_seq
           /\ y[k].reflector_seq = x[k].reflector_seq
        \/ \E j \in 1 .. Len(q) : /\ y[k].sender_seq = q[j].sender_seq
                                  /\ y[k].reflector_seq = q[j].reflector_seq
    BY <2>1 DEF RecordsFromReplies
  <2> HIDE DEF y
  <2>3. CASE /\ k \in 1 .. Len(x)
             /\ y[k].sender_seq = x[k].sender_seq
             /\ y[k].reflector_seq = x[k].reflector_seq
    <3>1. ~Lost(x[k]) /\ a = <<x[k].sender_seq, x[k].reflector_seq>>
      BY <2>1, <2>3 DEF Lost
    <3> QED BY <2>3, <3>1 DEF Reflections
  <2>4. CASE \E j \in 1 .. Len(q) : /\ y[k].sender_seq = q[j].sender_seq
                                    /\ y[k].reflector_seq = q[j].reflector_seq
    BY <2>1, <2>4 DEF Reflections
  <2> QED BY <2>2, <2>3, <2>4
<1> QED BY <1>1, <1>2 DEF Reflections

\* A session that stays as it is.
LEMMA SameRecords ==
    ASSUME NEW s, NEW t, sessions'[s][t] = sessions[s][t]
    PROVE  RecordsFromReplies(s, t)
  BY DEF RecordsFromReplies

\* Replies that stay as they are.
LEMMA SameReplies ==
    ASSUME NEW s, NEW t, replies'[s][t] = replies[s][t]
    PROVE  RepliesFromReplies(s, t)
  BY DEF RepliesFromReplies

\* Only the reflector's callback makes a reflection, and it makes one.
LEMMA ReflectionsStep ==
    ASSUME TypeOK, [Next]_vars, NEW s \in Senders, NEW t \in Target
    PROVE  \/ Reflections(s, t)' \subseteq Reflections(s, t)
           \/ /\ ReflectorRxCallback(t) /\ Head(buffer[t])[1] = s
              /\ Reflections(s, t)' \subseteq Reflections(s, t) \cup {Upcoming(s, t)}
<1> SUFFICES \/ RecordsFromReplies(s, t) /\ RepliesFromReplies(s, t)
             \/ /\ ReflectorRxCallback(t) /\ Head(buffer[t])[1] = s
                /\ Reflections(s, t)' \subseteq Reflections(s, t) \cup {Upcoming(s, t)}
  BY NoNewReflection
<1> DEFINE Kept == RecordsFromReplies(s, t) /\ RepliesFromReplies(s, t)
           x == sessions[s][t]
           y == sessions'[s][t]
<1>x. x \in Session /\ Numbered(x) /\ Len(x.results) \in Nat
  BY SessionFields DEF TypeOK, SenderType
<1>1. ASSUME NEW u \in Senders, TxCallback(u) PROVE Kept
  <2>1. RepliesFromReplies(s, t)
    BY <1>1, SameReplies DEF TxCallback
  <2>2. CASE u = s
    <3>1. y = add_to_sent(x, SentRecord(x.seq_number, <<t, x.seq_number>>))
      BY <1>1, <2>2, TxCallbackOnPair
    <3> HIDE DEF x, y
    <3>2. /\ Len(y.results) = Len(x.results) + 1
          /\ \A k \in 1 .. Len(x.results) : y.results[k] = x.results[k]
          /\ y.results[Len(x.results) + 1] = SentRecord(x.seq_number, <<t, x.seq_number>>)
      BY <1>x, <3>1, SentSession
    <3>3. \A k \in 1 .. Len(y.results) : ~Lost(y.results[k]) => k \in 1 .. Len(x.results)
      BY <1>x, <3>2 DEF Lost, SentRecord
    <3> QED BY <2>1, <3>2, <3>3 DEF RecordsFromReplies, x, y
  <2>3. CASE u # s
    <3>1. sessions'[s][t] = sessions[s][t]
      BY <1>1, <2>3, TxCallbackOnPair
    <3> QED BY <2>1, <3>1, SameRecords
  <2> QED BY <2>2, <2>3
<1>2. ASSUME NEW u \in Senders, TxCorrectCallback(u) PROVE Kept
  <2>1. RepliesFromReplies(s, t)
    BY <1>2, SameReplies DEF TxCorrectCallback
  <2>2. CASE u = s
    <3>1. PICK stamps \in Seq(Target \X Nat) : y = update_tx_timestamps(x, stamps)
      BY <1>2, <2>2, TxCorrectEffect
    <3> HIDE DEF x, y
    <3>2. /\ Len(y.results) = Len(x.results)
          /\ \A k \in 1 .. Len(x.results) :
               /\ y.results[k].sender_seq = x.results[k].sender_seq
               /\ y.results[k].reflector_seq = x.results[k].reflector_seq
      BY <1>x, <3>1, UpdatedSession
    <3> QED BY <2>1, <3>2 DEF RecordsFromReplies, x, y
  <2>3. CASE u # s
    BY <1>2, <2>1, <2>3, TxCorrectEffect, SameRecords
  <2> QED BY <2>2, <2>3
<1>3. ASSUME NEW u \in Senders, Deadline(u) \/ Finish(u) \/ Stamp(u) PROVE Kept
  BY <1>3, SameRecords, SameReplies DEF Deadline, Finish, Stamp
<1>4. ASSUME NEW u \in Senders, NEW v \in Target, RxCallback(u, v) PROVE Kept
  <2>1. PICK i \in DOMAIN replies[u][v] :
          /\ replies[u][v][i] \in ReplyType
          /\ sessions' = [sessions EXCEPT ![u][v] =
                add_to_received(sessions[u][v], replies[u][v][i])]
          /\ replies' = [replies EXCEPT ![u][v] = RemoveAt(replies[u][v], i)]
    BY <1>4, RxCallbackEffect
  <2>2. RepliesFromReplies(s, t)
    <3>1. replies \in Queues(ReplyType)
      BY DEF TypeOK, NetworkType
    <3> QED BY <2>1, <3>1, RemovedFrom DEF RepliesFromReplies
  <2>3. CASE u = s /\ v = t
    <3> DEFINE r == replies[s][t][i]
    <3>1. r \in ReplyType /\ y = add_to_received(x, r)
      BY <2>1, <2>3 DEF TypeOK, SenderType
    <3>2. i \in 1 .. Len(replies[s][t])
      BY <2>3, LenProperties DEF TypeOK, NetworkType, Queues
    <3> HIDE DEF x, y, r
    <3>3. /\ Len(y.results) = Len(x.results)
          /\ \A k \in 1 .. Len(x.results) :
               /\ y.results[k].sender_seq = x.results[k].sender_seq
               /\ \/ y.results[k].reflector_seq = x.results[k].reflector_seq
                  \/ /\ x.results[k].sender_seq = r.sender_seq
                     /\ y.results[k].reflector_seq = r.reflector_seq
      BY <1>x, <3>1, ReceivedSession
    <3> QED BY <2>2, <3>2, <3>3 DEF RecordsFromReplies, x, y, r
  <2>4. CASE ~ (u = s /\ v = t)
    <3>1. sessions'[s][t] = sessions[s][t]
      BY <2>1, <2>4 DEF TypeOK, SenderType
    <3> QED BY <2>2, <3>1, SameRecords
  <2> QED BY <2>3, <2>4
<1>5. ASSUME NEW u \in Senders, NEW v \in Target,
             Arrive(v, u) \/ LoseProbe(u, v) \/ CopyProbe(u, v)
      PROVE  Kept
  BY <1>5, SameRecords, SameReplies DEF Arrive, LoseProbe, CopyProbe
<1>6. ASSUME NEW u \in Senders, NEW v \in Target, LoseReply(u, v) PROVE Kept
  <2>1. PICK i \in DOMAIN replies[u][v] :
          replies' = [replies EXCEPT ![u][v] = RemoveAt(replies[u][v], i)]
    BY <1>6 DEF LoseReply
  <2>2. replies \in Queues(ReplyType)
    BY DEF TypeOK, NetworkType
  <2>3. RepliesFromReplies(s, t)
    BY <2>1, <2>2, RemovedFrom DEF RepliesFromReplies
  <2> QED BY <1>6, <2>3, SameRecords DEF LoseReply
<1>7. ASSUME NEW u \in Senders, NEW v \in Target, CopyReply(u, v) PROVE Kept
  <2>1. PICK i \in DOMAIN replies[u][v] :
          replies' = [replies EXCEPT ![u][v] = Copied(replies[u][v], i)]
    BY <1>7 DEF CopyReply
  <2>2. replies \in Queues(ReplyType)
    BY DEF TypeOK, NetworkType
  <2>3. RepliesFromReplies(s, t)
    BY <2>1, <2>2, CopiedIn DEF RepliesFromReplies
  <2> QED BY <1>7, <2>3, SameRecords DEF CopyReply
<1>8. ASSUME NEW v \in Target, ReflectorRxError(v) \/ CleanupStaleSessions(v) PROVE Kept
  BY <1>8, SameRecords, SameReplies DEF ReflectorRxError, CleanupStaleSessions
<1>9. CASE UNCHANGED vars
  BY <1>9, SameRecords, SameReplies DEF vars
<1>10. ASSUME NEW v \in Target, ReflectorRxCallback(v)
       PROVE  \/ Kept
              \/ /\ v = t /\ Head(buffer[t])[1] = s
                 /\ Reflections(s, t)' \subseteq Reflections(s, t) \cup {Upcoming(s, t)}
  <2>1. PICK u \in Senders, probe \in Nat :
          /\ Head(buffer[v]) = <<u, probe>> /\ buffer[v] # <<>>
          /\ ReflectedMessage(probe, reflector[v][u]) \in ReplyType
          /\ buffer' = [buffer EXCEPT ![v] = Tail(buffer[v])]
          /\ reflector' = [reflector EXCEPT ![v][u] = Reflected(reflector[v][u])]
          /\ Reflected(reflector[v][u]) \in [seq_number : Nat]
          /\ replies' = [replies EXCEPT ![u][v] =
                Append(replies[u][v], ReflectedMessage(probe, reflector[v][u]))]
    BY <1>10, ReflectorEffect
  <2>2. sessions' = sessions
    BY <1>10 DEF ReflectorRxCallback
  <2>3. CASE u = s /\ v = t
    <3> DEFINE reply == ReflectedMessage(probe, reflector[t][s])
               q == replies[s][t]
    <3>1. q \in Seq(ReplyType) /\ replies'[s][t] = Append(q, reply) /\ reply \in ReplyType
      BY <2>1, <2>3 DEF TypeOK, NetworkType, Queues
    <3> HIDE DEF reply, q
    <3>2. /\ Len(q) \in Nat /\ Len(replies'[s][t]) = Len(q) + 1
          /\ \A k \in 1 .. Len(q) : replies'[s][t][k] = q[k]
          /\ replies'[s][t][Len(q) + 1] = reply
      BY <3>1, AppendProperties, LenProperties
    <3>3. ASSUME NEW a \in Reflections(s, t)'
          PROVE  a \in Reflections(s, t) \cup {<<reply.sender_seq, reply.reflector_seq>>}
      <4>1. CASE \E k \in 1 .. Len(replies'[s][t]) :
                   a = <<replies'[s][t][k].sender_seq, replies'[s][t][k].reflector_seq>>
        <5>1. PICK k \in 1 .. Len(replies'[s][t]) :
                a = <<replies'[s][t][k].sender_seq, replies'[s][t][k].reflector_seq>>
          BY <4>1
        <5>2. CASE k \in 1 .. Len(q)
          BY <3>2, <5>1, <5>2 DEF Reflections, q
        <5>3. CASE k = Len(q) + 1
          BY <3>2, <5>1, <5>3
        <5> QED BY <3>2, <5>2, <5>3
      <4>2. CASE \E k \in 1 .. Len(sessions'[s][t].results) :
                   /\ ~Lost(sessions'[s][t].results[k])
                   /\ a = <<sessions'[s][t].results[k].sender_seq,
                            sessions'[s][t].results[k].reflector_seq>>
        BY <2>2, <4>2 DEF Reflections
      <4> QED BY <4>1, <4>2 DEF Reflections
    <3>4. Upcoming(s, t) = <<reply.sender_seq, reply.reflector_seq>>
      BY <2>1, <2>3 DEF Upcoming, Number, ReflectedMessage, reply
    <3>5. Head(buffer[t])[1] = s
      BY <2>1, <2>3
    <3> QED BY <2>3, <3>3, <3>4, <3>5
  <2>4. CASE ~ (u = s /\ v = t)
    <3>1. replies'[s][t] = replies[s][t]
      BY <2>1, <2>4 DEF TypeOK, NetworkType, Queues
    <3> QED BY <2>2, <3>1, SameRecords, SameReplies
  <2> QED BY <2>3, <2>4
<1> HIDE DEF Kept
<1> QED BY <1>1, <1>2, <1>3, <1>4, <1>5, <1>6, <1>7, <1>8, <1>9, <1>10
        DEF Next, Done, Kept

-----------------------------------------------------------------------------
(* Nothing is recorded as answered that did not reach the reflector.       *)

\* What is in the reflector's buffer has reached its host, and what is on its way
\* back or recorded was in the buffer.
Reached ==
    /\ \A t \in Target : \A i \in 1 .. Len(buffer[t]) :
          buffer[t][i][2] \in arrived[buffer[t][i][1]][t]
    /\ \A s \in Senders, t \in Target : \A a \in Reflections(s, t) :
          a[1] \in arrived[s][t]

\* What has arrived stays arrived.
LEMMA ArrivedGrows ==
    ASSUME TypeOK, [Next]_vars
    PROVE  \A s \in Senders, t \in Target : arrived[s][t] \subseteq arrived'[s][t]
<1>1. ASSUME NEW s \in Senders, NEW t \in Target, Arrive(t, s)
      PROVE  \A u \in Senders, v \in Target : arrived[u][v] \subseteq arrived'[u][v]
  <2>1. PICK i \in DOMAIN probes[s][t] :
          arrived' = [arrived EXCEPT ![s][t] = arrived[s][t] \cup {probes[s][t][i]}]
    BY <1>1, ArriveEffect
  <2> QED BY <2>1 DEF TypeOK, NetworkType
<1>2. CASE UNCHANGED arrived
  BY <1>2
<1> QED BY <1>1, <1>2
        DEF Next, TxCallback, TxCorrectCallback, Deadline, Finish, Stamp, RxCallback,
            LoseProbe, LoseReply, CopyProbe, CopyReply, ReflectorRxCallback,
            ReflectorRxError, CleanupStaleSessions, Done, vars

\* A datagram comes into the reflector's buffer when it arrives.
LEMMA BufferStep ==
    ASSUME TypeOK, [Next]_vars, NEW t \in Target, NEW i \in 1 .. Len(buffer'[t])
    PROVE  \/ \E j \in 1 .. Len(buffer[t]) : buffer'[t][i] = buffer[t][j]
           \/ \E s \in Senders : \E n \in arrived'[s][t] : buffer'[t][i] = <<s, n>>
<1> DEFINE q == buffer[t]
           Old == \E j \in 1 .. Len(q) : buffer'[t][i] = q[j]
           New == \E s \in Senders : \E n \in arrived'[s][t] : buffer'[t][i] = <<s, n>>
<1>0. q \in Seq(Senders \X Nat) /\ Len(q) \in Nat
  BY LenProperties DEF TypeOK, ReflectorType
<1>1. ASSUME NEW s \in Senders, NEW v \in Target, Arrive(v, s) PROVE Old \/ New
  <2>1. PICK k \in DOMAIN probes[s][v] :
          /\ probes[s][v][k] \in Nat
          /\ probes' = [probes EXCEPT ![s][v] = RemoveAt(probes[s][v], k)]
          /\ buffer' = [buffer EXCEPT ![v] = Append(buffer[v], <<s, probes[s][v][k]>>)]
          /\ arrived' = [arrived EXCEPT ![s][v] = arrived[s][v] \cup {probes[s][v][k]}]
    BY <1>1, ArriveEffect
  <2>2. CASE v = t
    <3> DEFINE n == probes[s][t][k]
               e == <<s, n>>
    <3>1. e \in Senders \X Nat /\ buffer'[t] = Append(q, e) /\ n \in arrived'[s][t]
      BY <2>1, <2>2 DEF TypeOK, ReflectorType, NetworkType
    <3> HIDE DEF q, n
    <3>2. /\ Len(buffer'[t]) = Len(q) + 1
          /\ \A j \in 1 .. Len(q) : buffer'[t][j] = q[j]
          /\ buffer'[t][Len(q) + 1] = e
      <4> HIDE DEF e
      <4> QED BY <1>0, <3>1, AppendProperties
    <3>3. CASE i \in 1 .. Len(q)
      BY <3>2, <3>3
    <3>4. CASE i = Len(q) + 1
      BY <3>1, <3>2, <3>4
    <3> QED BY <1>0, <3>2, <3>3, <3>4
  <2>3. CASE v # t
    <3>1. buffer'[t] = q
      BY <2>1, <2>3 DEF TypeOK, ReflectorType
    <3> QED BY <3>1
  <2> QED BY <2>2, <2>3
<1>2. ASSUME NEW v \in Target, ReflectorRxCallback(v) PROVE Old \/ New
  <2>1. buffer[v] # <<>> /\ buffer' = [buffer EXCEPT ![v] = Tail(buffer[v])]
    BY <1>2 DEF ReflectorRxCallback
  <2>2. CASE v = t
    <3>1. buffer'[t] = Tail(q) /\ q # <<>>
      BY <2>1, <2>2 DEF TypeOK, ReflectorType
    <3> HIDE DEF q
    <3>2. Len(Tail(q)) = Len(q) - 1 /\ \A j \in 1 .. Len(Tail(q)) : Tail(q)[j] = q[j + 1]
      BY <1>0, <3>1, HeadTailProperties
    <3>3. i + 1 \in 1 .. Len(q) /\ buffer'[t][i] = q[i + 1]
      BY <1>0, <3>1, <3>2
    <3> QED BY <3>3
  <2>3. CASE v # t
    <3>1. buffer'[t] = q
      BY <2>1, <2>3 DEF TypeOK, ReflectorType
    <3> QED BY <3>1
  <2> QED BY <2>2, <2>3
<1>3. ASSUME NEW v \in Target, ReflectorRxError(v) PROVE Old \/ New
  <2>1. buffer' = [buffer EXCEPT ![v] = <<>>]
    BY <1>3 DEF ReflectorRxError
  <2>2. CASE v = t
    <3>1. buffer'[t] = <<>>
      BY <2>1, <2>2 DEF TypeOK, ReflectorType
    <3> QED BY <3>1
  <2>3. CASE v # t
    <3>1. buffer'[t] = q
      BY <2>1, <2>3 DEF TypeOK, ReflectorType
    <3> QED BY <3>1
  <2> QED BY <2>2, <2>3
<1>4. ASSUME UNCHANGED buffer PROVE Old \/ New
  BY <1>4
<1>5. \/ \E s \in Senders, v \in Target : Arrive(v, s)
      \/ \E v \in Target : ReflectorRxCallback(v) \/ ReflectorRxError(v)
      \/ UNCHANGED buffer
  BY DEF Next, TxCallback, TxCorrectCallback, Deadline, Finish, Stamp, RxCallback,
         LoseProbe, LoseReply, CopyProbe, CopyReply, CleanupStaleSessions, Done, vars,
         socket
<1> HIDE DEF Old, New
<1>6. Old \/ New
  BY <1>1, <1>2, <1>3, <1>4, <1>5
<1> QED BY <1>6 DEF Old, New

\* No step lets a reflection come about of a packet that has not arrived.
LEMMA ReachedStep == TypeOK /\ Reached /\ [Next]_vars => Reached'
<1> SUFFICES ASSUME TypeOK, Reached, [Next]_vars PROVE Reached'
  OBVIOUS
<1>1. ASSUME NEW t \in Target, NEW i \in 1 .. Len(buffer'[t])
      PROVE  buffer'[t][i][2] \in arrived'[buffer'[t][i][1]][t]
  <2>1. CASE \E j \in 1 .. Len(buffer[t]) : buffer'[t][i] = buffer[t][j]
    <3>1. PICK j \in 1 .. Len(buffer[t]) : buffer'[t][i] = buffer[t][j]
      BY <2>1
    <3>2. buffer[t][j][1] \in Senders
      BY ElementOfSeq DEF TypeOK, ReflectorType
    <3>3. buffer[t][j][2] \in arrived[buffer[t][j][1]][t]
      BY DEF Reached
    <3>4. buffer[t][j][2] \in arrived'[buffer[t][j][1]][t]
      BY <3>2, <3>3, ArrivedGrows
    <3> QED BY <3>1, <3>4
  <2>2. CASE \E s \in Senders : \E n \in arrived'[s][t] : buffer'[t][i] = <<s, n>>
    BY <2>2
  <2> QED BY <2>1, <2>2, BufferStep
<1>2. ASSUME NEW s \in Senders, NEW t \in Target, NEW a \in Reflections(s, t)'
      PROVE  a[1] \in arrived'[s][t]
  <2>1. arrived[s][t] \subseteq arrived'[s][t]
    BY ArrivedGrows
  <2>2. CASE a \in Reflections(s, t)
    BY <2>1, <2>2 DEF Reached
  <2>3. CASE /\ ReflectorRxCallback(t) /\ Head(buffer[t])[1] = s
             /\ a = Upcoming(s, t)
    <3>1. a[1] = Head(buffer[t])[2]
      BY <2>3 DEF Upcoming
    <3>2. buffer[t] \in Seq(Senders \X Nat) /\ buffer[t] # <<>>
      BY <2>3 DEF ReflectorRxCallback, TypeOK, ReflectorType
    <3>3. 1 \in 1 .. Len(buffer[t]) /\ Head(buffer[t]) = buffer[t][1]
      BY <3>2, EmptySeq, LenProperties
    <3>4. buffer[t][1][2] \in arrived[s][t]
      BY <2>3, <3>3 DEF Reached
    <3> QED BY <2>1, <3>1, <3>3, <3>4
  <2> QED BY <2>2, <2>3, ReflectionsStep
<1> QED BY <1>1, <1>2 DEF Reached

\* A record is only taken for answered if its packet reached the reflector's host,
\* with any number of senders that share a reflector and whatever the network
\* loses, copies or reorders: add_to_received finds a record by the sender's
\* number alone, and that number comes back from no other packet.
THEOREM AnsweredIfArrived == Spec => []AnsweredArrived
<1>1. Init => Reached
  <2> SUFFICES ASSUME Init PROVE Reached
    OBVIOUS
  <2>1. \A t \in Target : buffer[t] = <<>>
    BY DEF Init
  <2>2. \A s \in Senders, t \in Target :
          replies[s][t] = <<>> /\ sessions[s][t].results = <<>>
    BY DEF Init, NewSession
  <2>3. \A s \in Senders, t \in Target : Reflections(s, t) = {}
    BY <2>2 DEF Reflections
  <2> QED BY <2>1, <2>3 DEF Reached
<1>2. TypeOK /\ Reached => AnsweredArrived
  <2> SUFFICES ASSUME TypeOK, Reached, NEW s \in Senders, NEW t \in Target,
                      NEW k \in DOMAIN sessions[s][t].results,
                      ~Lost(sessions[s][t].results[k])
               PROVE  sessions[s][t].results[k].sender_seq \in arrived[s][t]
    BY DEF AnsweredArrived, Pairs, results
  <2> DEFINE r == sessions[s][t].results[k]
  <2>1. k \in 1 .. Len(sessions[s][t].results)
    BY SessionFields DEF TypeOK, SenderType
  <2>2. <<r.sender_seq, r.reflector_seq>> \in Reflections(s, t)
    BY <2>1 DEF Reflections
  <2> QED BY <2>2 DEF Reached
<1> QED BY <1>1, <1>2, InitType, NextType, ReachedStep, PTL DEF Spec

-----------------------------------------------------------------------------
(* The reflector's numbers.                                                *)

\* The places of a sender's datagrams in a buffer.
From(q, s) == {i \in 1 .. Len(q) : q[i][1] = s}

\* A buffer has finitely many datagrams of a sender, and an empty one has none.
LEMMA FromFinite ==
    ASSUME NEW S, NEW q \in Seq(S), NEW s
    PROVE  /\ IsFiniteSet(From(q, s)) /\ Cardinality(From(q, s)) \in Nat
           /\ q = <<>> => Cardinality(From(q, s)) = 0
<1>1. Len(q) \in Nat
  BY LenProperties
<1>2. IsFiniteSet(1 .. Len(q))
  BY <1>1, FS_Interval
<1>3. From(q, s) \in SUBSET (1 .. Len(q))
  BY DEF From
<1>4. IsFiniteSet(From(q, s))
  BY <1>2, <1>3, FS_Subset
<1>5. q = <<>> => From(q, s) = {}
  BY DEF From
<1> QED BY <1>4, <1>5, FS_CardinalityType, FS_EmptySet

\* A datagram that comes in is one more of its sender.
LEMMA FromAppend ==
    ASSUME NEW S, NEW q \in Seq(S), NEW e \in S, NEW s
    PROVE  Cardinality(From(Append(q, e), s)) =
             Cardinality(From(q, s)) + IF e[1] = s THEN 1 ELSE 0
<1> DEFINE r == Append(q, e)
           n == Len(q) + 1
<1>1. Len(q) \in Nat
  BY LenProperties
<1>2. /\ Len(r) = n /\ r[n] = e
      /\ \A k \in 1 .. Len(q) : r[k] = q[k]
  BY AppendProperties
<1> HIDE DEF r
<1>3. CASE e[1] = s
  <2>1. From(r, s) = From(q, s) \cup {n} /\ n \notin From(q, s)
    BY <1>1, <1>2, <1>3 DEF From
  <2> HIDE DEF n
  <2>2. Cardinality(From(q, s) \cup {n}) = Cardinality(From(q, s)) + 1
    BY <2>1, FromFinite, FS_AddElement
  <2> QED BY <1>3, <2>1, <2>2 DEF r
<1>4. CASE e[1] # s
  <2>1. From(r, s) = From(q, s)
    BY <1>1, <1>2, <1>4 DEF From
  <2> QED BY <1>4, <2>1, FromFinite DEF r
<1> QED BY <1>3, <1>4

\* How many datagrams of a sender are in a buffer before one.
Place(q, s, i) == Cardinality({j \in From(q, s) : j < i})

\* The place in the buffer is a number, and counting the datagrams of a sender
\* from the second place on is counting those of the tail.
LEMMA PlaceTail ==
    ASSUME NEW S, NEW q \in Seq(S), q # <<>>, NEW s, NEW i \in 1 .. Len(q)
    PROVE  /\ Place(Tail(q), s, i) \in Nat
           /\ Place(q, s, i + 1) =
                Place(Tail(q), s, i) + IF Head(q)[1] = s THEN 1 ELSE 0
<1> DEFINE r == Tail(q)
           F == {j \in From(r, s) : j < i}
           G == {j \in From(q, s) : j < i + 1} \ {1}
           H == {j \in From(q, s) : j < i + 1}
           f == [j \in F |-> j + 1]
<1>1. Len(q) \in Nat \ {0} /\ Head(q) = q[1]
  BY EmptySeq, LenProperties
<1>2. Len(r) = Len(q) - 1 /\ r \in Seq(S) /\ \A j \in 1 .. Len(r) : r[j] = q[j + 1]
  BY HeadTailProperties
<1> HIDE DEF r
<1>3. f \in [F -> G] /\ \A a, b \in F : f[a] = f[b] => a = b
  BY <1>1, <1>2 DEF From
<1>4. ASSUME NEW k \in G PROVE \E j \in F : f[j] = k
  <2>1. k - 1 \in F /\ (k - 1) + 1 = k
    BY <1>1, <1>2 DEF From
  <2> QED BY <2>1
<1>5. ExistsBijection(F, G)
  <2> HIDE DEF F, G, f
  <2> QED BY <1>3, <1>4 DEF ExistsBijection, Bijection, Injection, Surjection, IsInjective
<1>6. IsFiniteSet(F) /\ Cardinality(F) \in Nat /\ IsFiniteSet(H) /\ Cardinality(H) \in Nat
  <2>1. F \in SUBSET From(r, s) /\ H \in SUBSET From(q, s)
    OBVIOUS
  <2> HIDE DEF F, H
  <2> QED BY <1>2, <2>1, FromFinite, FS_Subset, FS_CardinalityType
<1>7. Cardinality(G) = Cardinality(F)
  <2> HIDE DEF F, G
  <2> QED BY <1>5, <1>6, FS_Bijection
<1>8. 1 \in H <=> Head(q)[1] = s
  BY <1>1 DEF From
<1>9. Cardinality(G) = IF 1 \in H THEN Cardinality(H) - 1 ELSE Cardinality(H)
  <2>1. G = H \ {1}
    OBVIOUS
  <2> HIDE DEF G, H
  <2> QED BY <1>6, <2>1, FS_RemoveElement
<1>10. Place(q, s, i + 1) = Cardinality(H) /\ Place(r, s, i) = Cardinality(F)
  BY DEF Place
<1> HIDE DEF F, G, H
<1> QED BY <1>6, <1>7, <1>8, <1>9, <1>10 DEF r

\* A datagram that is taken out is one less of its sender.
LEMMA FromTail ==
    ASSUME NEW S, NEW q \in Seq(S), q # <<>>, NEW s
    PROVE  Cardinality(From(Tail(q), s)) =
             Cardinality(From(q, s)) - IF Head(q)[1] = s THEN 1 ELSE 0
<1>1. Len(q) \in Nat \ {0}
  BY EmptySeq, LenProperties
<1>2. Len(Tail(q)) = Len(q) - 1 /\ Tail(q) \in Seq(S)
  BY HeadTailProperties
<1>3. /\ {j \in From(q, s) : j < Len(q) + 1} = From(q, s)
      /\ {j \in From(Tail(q), s) : j < Len(q)} = From(Tail(q), s)
  BY <1>1, <1>2 DEF From
<1>4. /\ Place(q, s, Len(q) + 1) = Cardinality(From(q, s))
      /\ Place(Tail(q), s, Len(q)) = Cardinality(From(Tail(q), s))
  BY <1>3 DEF Place
<1>5. Cardinality(From(q, s)) \in Nat /\ Cardinality(From(Tail(q), s)) \in Nat
  BY <1>2, FromFinite
<1>6. Len(q) \in 1 .. Len(q)
  BY <1>1
<1>7. Place(q, s, Len(q) + 1) = Place(Tail(q), s, Len(q)) + IF Head(q)[1] = s THEN 1 ELSE 0
  BY <1>6, PlaceTail
<1> QED BY <1>4, <1>5, <1>7

\* The datagrams of a sender in the buffer of a target.
Waiting(s, t) == Cardinality(From(buffer[t], s))

\* What the reflections of a pair so far and the probes still to be reflected come
\* to, and what was sent.
Spent(s, t) == Number(s, t) + Len(probes[s][t]) + Waiting(s, t)
Sent(s, t) == Len(sessions[s][t].results) + copies

\* A pair's reflections are no more than the packets sent and the datagrams
\* duplicated.
Budget == \A s \in Senders, t \in Target : Spent(s, t) <= Sent(s, t)

\* A reflector that has not dropped the session gives out a number once, for one
\* packet.
NumbersOnce ==
    \A s \in Senders, t \in Target : <<s, t>> \notin expired =>
        \A a, b \in Reflections(s, t) :
            a[2] < Number(s, t) /\ (a[2] = b[2] => a[1] = b[1])

NumbersInv == Budget /\ NumbersOnce

\* The counts of a pair are numbers.
CountType ==
    \A s \in Senders, t \in Target :
        /\ Number(s, t) \in Nat /\ Len(probes[s][t]) \in Nat
        /\ Waiting(s, t) \in Nat /\ Len(sessions[s][t].results) \in Nat
        /\ copies \in Nat

\* They are in every well typed state.
LEMMA CountTypes == TypeOK => CountType
<1> SUFFICES ASSUME TypeOK, NEW s \in Senders, NEW t \in Target
             PROVE  /\ Number(s, t) \in Nat /\ Len(probes[s][t]) \in Nat
                    /\ Waiting(s, t) \in Nat /\ Len(sessions[s][t].results) \in Nat
                    /\ copies \in Nat
  BY DEF CountType
<1>1. Number(s, t) \in Nat
  BY DEF Number, TypeOK, ReflectorType
<1>2. Len(probes[s][t]) \in Nat
  BY LenProperties DEF TypeOK, NetworkType, Queues
<1>3. Waiting(s, t) \in Nat
  <2>1. buffer[t] \in Seq(Senders \X Nat)
    BY DEF TypeOK, ReflectorType
  <2> QED BY <2>1, FromFinite DEF Waiting
<1>4. Len(sessions[s][t].results) \in Nat
  BY SessionFields DEF TypeOK, SenderType
<1>5. copies \in Nat
  BY BoundsAssumption DEF TypeOK, NetworkType
<1> QED BY <1>1, <1>2, <1>3, <1>4, <1>5

\* Only the sending callback makes a session longer, by one record.
LEMMA ResultsStep ==
    ASSUME TypeOK, [Next]_vars, NEW s \in Senders, NEW t \in Target
    PROVE  /\ TxCallback(s) =>
                Len(sessions'[s][t].results) = Len(sessions[s][t].results) + 1
           /\ ~TxCallback(s) =>
                Len(sessions'[s][t].results) = Len(sessions[s][t].results)
<1> DEFINE x == sessions[s][t]
           y == sessions'[s][t]
<1>x. x \in Session /\ Numbered(x)
  BY DEF TypeOK, SenderType
<1>1. ASSUME NEW u \in Senders, TxCallback(u)
      PROVE  Len(y.results) = Len(x.results) + IF u = s THEN 1 ELSE 0
  <2>1. CASE u = s
    <3>1. y = add_to_sent(x, SentRecord(x.seq_number, <<t, x.seq_number>>))
      BY <1>1, <2>1, TxCallbackOnPair
    <3> HIDE DEF x, y
    <3> QED BY <1>x, <2>1, <3>1, SentSession
  <2>2. CASE u # s
    <3>1. y = x
      BY <1>1, <2>2, TxCallbackOnPair
    <3>2. Len(x.results) \in Nat
      BY <1>x, SessionFields
    <3> QED BY <2>2, <3>1, <3>2
  <2> QED BY <2>1, <2>2
<1>2. ASSUME NEW u \in Senders, TxCorrectCallback(u)
      PROVE  Len(y.results) = Len(x.results)
  <2>1. CASE u = s
    <3>1. PICK stamps \in Seq(Target \X Nat) : y = update_tx_timestamps(x, stamps)
      BY <1>2, <2>1, TxCorrectEffect
    <3> HIDE DEF x, y
    <3> QED BY <1>x, <3>1, UpdatedSession
  <2>2. CASE u # s
    BY <1>2, <2>2, TxCorrectEffect
  <2> QED BY <2>1, <2>2
<1>3. ASSUME NEW u \in Senders, NEW v \in Target, RxCallback(u, v)
      PROVE  Len(y.results) = Len(x.results)
  <2>1. PICK z \in Session :
          /\ sessions' = [sessions EXCEPT ![u][v] = z]
          /\ Len(z.results) = Len(sessions[u][v].results)
    BY <1>3, RxCallbackEffect
  <2> QED BY <2>1 DEF TypeOK, SenderType
<1>4. ASSUME UNCHANGED sessions PROVE Len(y.results) = Len(x.results)
  BY <1>4
<1>5. \/ \E u \in Senders : TxCallback(u) \/ TxCorrectCallback(u)
      \/ \E u \in Senders, v \in Target : RxCallback(u, v)
      \/ UNCHANGED sessions
  BY DEF Next, Deadline, Finish, Stamp, Arrive, LoseProbe, LoseReply, CopyProbe,
         CopyReply, ReflectorRxCallback, ReflectorRxError, CleanupStaleSessions, Done, vars
<1>6. CASE \E u \in Senders : TxCallback(u)
  <2>1. PICK u \in Senders : TxCallback(u)
    BY <1>6
  <2>2. CASE u = s
    BY <1>1, <2>1, <2>2
  <2>3. CASE u # s
    <3>1. ~TxCallback(s)
      <4>1. SUFFICES ASSUME TxCallback(s) PROVE FALSE
        OBVIOUS
      <4>2. Len(y.results) = Len(x.results) + 1
        BY <1>1, <4>1
      <4>3. Len(y.results) = Len(x.results) + 0
        BY <1>1, <2>1, <2>3
      <4>4. Len(x.results) \in Nat
        BY <1>x, SessionFields
      <4> QED BY <4>2, <4>3, <4>4
    <3>2. Len(x.results) \in Nat
      BY <1>x, SessionFields
    <3>3. Len(y.results) = Len(x.results) + 0
      BY <1>1, <2>1, <2>3
    <3> QED BY <3>1, <3>2, <3>3
  <2> QED BY <2>2, <2>3
<1>7. CASE ~\E u \in Senders : TxCallback(u)
  <2> HIDE DEF x, y
  <2>1. Len(y.results) = Len(x.results)
    BY <1>2, <1>3, <1>4, <1>5, <1>7
  <2> QED BY <1>7, <2>1 DEF x, y
<1> QED BY <1>6, <1>7

\* What is left to reflect is never more than what was sent: a duplicated probe
\* is paid for by the count of copies, and a reflection by the probe it takes from
\* the buffer.
LEMMA BudgetStep ==
    ASSUME MaxPackets + MaxCopies < Word, TypeOK, TypeOK', Budget, [Next]_vars,
           NEW s \in Senders, NEW t \in Target
    PROVE  /\ Spent(s, t)' <= Sent(s, t)'
           /\ ReflectorRxCallback(t) /\ Head(buffer[t])[1] = s =>
                Number(s, t)' = Number(s, t) + 1
<1> DEFINE Good == Spent(s, t)' <= Sent(s, t)'
           p == Len(probes[s][t])
           p1 == Len(probes'[s][t])
           r == Len(sessions[s][t].results)
           r1 == Len(sessions'[s][t].results)
           n == Number(s, t)
           n1 == Number(s, t)'
           w == Waiting(s, t)
           w1 == Waiting(s, t)'
           c == copies
           c1 == copies'
<1>t. n \in Nat /\ p \in Nat /\ w \in Nat /\ r \in Nat /\ copies \in Nat
  BY CountTypes DEF CountType
<1>u. n1 \in Nat /\ p1 \in Nat /\ w1 \in Nat /\ r1 \in Nat /\ copies' \in Nat
  <2>1. CountType'
    BY CountTypes, PTL
  <2> QED BY <2>1 DEF CountType
<1>b. n + p + w <= r + copies
  BY DEF Budget, Spent, Sent
<1>g. ASSUME n1 + p1 + w1 <= r1 + copies' PROVE Good
  BY <1>g DEF Spent, Sent
<1>c. ASSUME UNCHANGED <<reflector, buffer>> PROVE n1 = n /\ w1 = w
  BY <1>c DEF Number, Waiting
<1> HIDE DEF Good, n, n1, w, w1
<1>1. ASSUME NEW u \in Senders, TxCallback(u) PROVE Good
  <2>1. n1 = n /\ w1 = w /\ copies' = copies
    BY <1>1, <1>c DEF TxCallback, socket
  <2>2. CASE u = s
    <3>1. r1 = r + 1
      BY <1>1, <2>2, ResultsStep
    <3>2. p1 <= p + 1
      <4>1. \/ probes'[s][t] = probes[s][t]
            \/ probes'[s][t] = Append(probes[s][t], sessions[s][t].seq_number)
        BY <1>1, <2>2, TxCallbackOnPair
      <4>2. probes[s][t] \in Seq(Nat)
        BY DEF TypeOK, NetworkType, Queues
      <4>3. sessions[s][t] \in Session
        BY DEF TypeOK, SenderType
      <4>4. sessions[s][t].seq_number \in Nat
        BY <4>3, SessionFields
      <4> QED BY <1>t, <4>1, <4>2, <4>4, AppendProperties
    <3> HIDE DEF p, p1, r, r1
    <3> QED BY <1>b, <1>g, <1>t, <1>u, <2>1, <3>1, <3>2
  <2>3. CASE u # s
    <3>1. sessions'[s][t] = sessions[s][t]
      BY <1>1, <2>3, TxCallbackOnPair
    <3>3. probes'[s][t] = probes[s][t]
      BY <1>1, <2>3, TxCallbackOnPair
    <3>2. p1 = p /\ r1 = r
      BY <3>1, <3>3
    <3> HIDE DEF p, p1, r, r1
    <3> QED BY <1>b, <1>g, <2>1, <3>2
  <2> QED BY <2>2, <2>3
<1>2. ASSUME UNCHANGED <<reflector, buffer, probes>>, copies' \in {copies, copies + 1},
             r1 = r
      PROVE  Good
  <2>1. n1 = n /\ w1 = w /\ p1 = p
    BY <1>2, <1>c
  <2>2. copies <= copies'
    BY <1>2, <1>t
  <2>3. r1 = r
    BY <1>2
  <2>4. n1 + p1 + w1 <= r1 + copies'
    <3>1. /\ n \in Nat /\ p \in Nat /\ w \in Nat /\ r \in Nat /\ c \in Nat /\ c1 \in Nat
          /\ n + p + w <= r + c /\ c <= c1
      BY <1>b, <1>t, <1>u, <2>2
    <3> HIDE DEF p, p1, r, r1, c, c1
    <3>2. n1 + p1 + w1 <= r1 + c1
      BY <2>1, <2>3, <3>1
    <3> QED BY <3>2 DEF c1
  <2> QED BY <1>g, <2>4
<1>3. ASSUME NEW u \in Senders, NEW v \in Target, Arrive(v, u) PROVE Good
  <2>1. PICK i \in DOMAIN probes[u][v] :
          /\ probes[u][v][i] \in Nat
          /\ probes' = [probes EXCEPT ![u][v] = RemoveAt(probes[u][v], i)]
          /\ buffer' = [buffer EXCEPT ![v] = Append(buffer[v], <<u, probes[u][v][i]>>)]
          /\ arrived' = [arrived EXCEPT ![u][v] = arrived[u][v] \cup {probes[u][v][i]}]
    BY <1>3, ArriveEffect
  <2>2. n1 = n /\ r1 = r /\ copies' = copies
    BY <1>3 DEF Arrive, n, n1, Number
  <2>3. probes \in Queues(Nat)
    BY DEF TypeOK, NetworkType
  <2>4. p1 = p - IF u = s /\ v = t THEN 1 ELSE 0
    <3>1. CASE u = s /\ v = t
      <4>1. Len(probes'[u][v]) = Len(probes[u][v]) - 1
        <5> DEFINE a == probes[u][v]
        <5>1. a \in Seq(Nat) /\ i \in 1 .. Len(a) /\ probes'[u][v] = RemoveAt(a, i)
          BY <2>1, <2>3, LenProperties DEF Queues
        <5> HIDE DEF a
        <5>2. Len(RemoveAt(a, i)) = Len(a) - 1
          BY <5>1, RemoveAtProperties
        <5> QED BY <5>1, <5>2 DEF a
      <4> QED BY <3>1, <4>1
    <3>2. CASE ~ (u = s /\ v = t)
      <4>1. probes'[s][t] = probes[s][t]
        BY <2>1, <2>3, <3>2 DEF Queues
      <4>2. p1 = p
        BY <4>1
      <4> HIDE DEF p, p1
      <4> QED BY <1>t, <3>2, <4>2
    <3> QED BY <3>1, <3>2
  <2>5. w1 = w + IF u = s /\ v = t THEN 1 ELSE 0
    <3> DEFINE q == buffer[t]
               e == <<u, probes[u][v][i]>>
    <3>1. q \in Seq(Senders \X Nat)
      BY DEF TypeOK, ReflectorType
    <3>2. CASE v = t
      <4>1. buffer'[t] = Append(q, e) /\ e \in Senders \X Nat /\ e[1] = u
        BY <2>1, <3>2 DEF TypeOK, ReflectorType
      <4> HIDE DEF q, e
      <4>2. Cardinality(From(Append(q, e), s)) =
              Cardinality(From(q, s)) + IF e[1] = s THEN 1 ELSE 0
        BY <3>1, <4>1, FromAppend
      <4> QED BY <3>2, <4>1, <4>2 DEF w, w1, Waiting, q
    <3>3. CASE v # t
      <4>1. buffer'[t] = buffer[t]
        BY <2>1, <3>3 DEF TypeOK, ReflectorType
      <4>2. w1 = w
        BY <4>1 DEF w, w1, Waiting
      <4> QED BY <1>t, <3>3, <4>2
    <3> QED BY <3>2, <3>3
  <2> HIDE DEF p, p1, r, r1
  <2> QED BY <1>b, <1>g, <1>t, <1>u, <2>2, <2>4, <2>5
<1>4. ASSUME NEW u \in Senders, NEW v \in Target, LoseProbe(u, v) PROVE Good
  <2>1. PICK i \in DOMAIN probes[u][v] :
          probes' = [probes EXCEPT ![u][v] = RemoveAt(probes[u][v], i)]
    BY <1>4 DEF LoseProbe
  <2>2. n1 = n /\ w1 = w /\ r1 = r /\ copies' = copies
    BY <1>4, <1>c DEF LoseProbe, socket
  <2>3. probes \in Queues(Nat)
    BY DEF TypeOK, NetworkType
  <2>4. p1 <= p
    <3>1. CASE u = s /\ v = t
      <4>1. Len(probes'[u][v]) = Len(probes[u][v]) - 1
        <5> DEFINE a == probes[u][v]
        <5>1. a \in Seq(Nat) /\ i \in 1 .. Len(a) /\ probes'[u][v] = RemoveAt(a, i)
          BY <2>1, <2>3, LenProperties DEF Queues
        <5> HIDE DEF a
        <5>2. Len(RemoveAt(a, i)) = Len(a) - 1
          BY <5>1, RemoveAtProperties
        <5> QED BY <5>1, <5>2 DEF a
      <4> QED BY <1>t, <3>1, <4>1
    <3>2. CASE ~ (u = s /\ v = t)
      <4>1. probes'[s][t] = probes[s][t]
        BY <2>1, <2>3, <3>2 DEF Queues
      <4> QED BY <1>t, <4>1
    <3> QED BY <3>1, <3>2
  <2> HIDE DEF p, p1, r, r1
  <2> QED BY <1>b, <1>g, <1>t, <1>u, <2>2, <2>4
<1>5. ASSUME NEW u \in Senders, NEW v \in Target, CopyProbe(u, v) PROVE Good
  <2>1. PICK i \in DOMAIN probes[u][v] :
          probes' = [probes EXCEPT ![u][v] = Copied(probes[u][v], i)]
    BY <1>5 DEF CopyProbe
  <2>2. n1 = n /\ w1 = w /\ r1 = r /\ copies' = copies + 1
    BY <1>5, <1>c DEF CopyProbe, socket
  <2>3. probes \in Queues(Nat)
    BY DEF TypeOK, NetworkType
  <2>4. p1 <= p + 1
    <3>1. CASE u = s /\ v = t
      <4>1. Len(probes'[u][v]) = Len(probes[u][v]) + 1
        <5> DEFINE a == probes[u][v]
        <5>1. a \in Seq(Nat) /\ i \in 1 .. Len(a) /\ probes'[u][v] = Copied(a, i)
          BY <2>1, <2>3, LenProperties DEF Queues
        <5> HIDE DEF a
        <5>2. Len(Copied(a, i)) = Len(a) + 1
          BY <5>1, CopiedType
        <5> QED BY <5>1, <5>2 DEF a
      <4> QED BY <1>t, <3>1, <4>1
    <3>2. CASE ~ (u = s /\ v = t)
      <4>1. probes'[s][t] = probes[s][t]
        BY <2>1, <2>3, <3>2 DEF Queues
      <4> QED BY <1>t, <4>1
    <3> QED BY <3>1, <3>2
  <2> HIDE DEF p, p1, r, r1
  <2> QED BY <1>b, <1>g, <1>t, <1>u, <2>2, <2>4
<1>6. ASSUME NEW v \in Target, ReflectorRxError(v) PROVE Good
  <2>1. n1 = n /\ p1 = p /\ r1 = r /\ copies' = copies
    BY <1>6 DEF ReflectorRxError, n, n1, Number
  <2>2. w1 <= w
    <3>1. buffer' = [buffer EXCEPT ![v] = <<>>]
      BY <1>6 DEF ReflectorRxError
    <3>2. CASE v = t
      <4>1. buffer'[t] = <<>>
        BY <3>1, <3>2 DEF TypeOK, ReflectorType
      <4>2. buffer'[t] \in Seq(Senders \X Nat)
        BY <4>1
      <4>3. Cardinality(From(buffer'[t], s)) = 0
        BY <4>1, <4>2, FromFinite
      <4>4. w1 = 0
        BY <4>3 DEF w1, Waiting
      <4> QED BY <1>t, <4>4
    <3>3. CASE v # t
      <4>1. buffer'[t] = buffer[t]
        BY <3>1, <3>3 DEF TypeOK, ReflectorType
      <4>2. w1 = w
        BY <4>1 DEF w, w1, Waiting
      <4> QED BY <1>t, <4>2
    <3> QED BY <3>2, <3>3
  <2> HIDE DEF p, p1, r, r1
  <2> QED BY <1>b, <1>g, <1>t, <1>u, <2>1, <2>2
<1>7. ASSUME NEW v \in Target, CleanupStaleSessions(v) PROVE Good
  <2>1. w1 = w /\ p1 = p /\ r1 = r /\ copies' = copies
    BY <1>7 DEF CleanupStaleSessions, socket, w, w1, Waiting
  <2>2. n1 <= n
    <3>1. reflector'[t][s] \in {None, reflector[t][s]}
      BY <1>7 DEF CleanupStaleSessions, TypeOK, ReflectorType
    <3>2. n1 \in {0, n}
      BY <3>1 DEF n, n1, Number
    <3> QED BY <1>t, <3>2
  <2> HIDE DEF p, p1, r, r1
  <2> QED BY <1>b, <1>g, <1>t, <1>u, <2>1, <2>2
<1>8. ASSUME NEW v \in Target, ReflectorRxCallback(v)
      PROVE  Good /\ (v = t /\ Head(buffer[t])[1] = s => n1 = n + 1)
  <2>1. PICK u \in Senders, probe \in Nat :
          /\ Head(buffer[v]) = <<u, probe>> /\ buffer[v] # <<>>
          /\ ReflectedMessage(probe, reflector[v][u]) \in ReplyType
          /\ buffer' = [buffer EXCEPT ![v] = Tail(buffer[v])]
          /\ reflector' = [reflector EXCEPT ![v][u] = Reflected(reflector[v][u])]
          /\ Reflected(reflector[v][u]) \in [seq_number : Nat]
          /\ replies' = [replies EXCEPT ![u][v] =
                Append(replies[u][v], ReflectedMessage(probe, reflector[v][u]))]
    BY <1>8, ReflectorEffect
  <2>2. p1 = p /\ r1 = r /\ copies' = copies
    BY <1>8 DEF ReflectorRxCallback
  <2>3. CASE v = t
    <3> DEFINE q == buffer[t]
    <3>1. /\ q \in Seq(Senders \X Nat) /\ q # <<>> /\ buffer'[t] = Tail(q)
          /\ Head(q)[1] = u
      BY <2>1, <2>3 DEF TypeOK, ReflectorType
    <3> HIDE DEF q
    <3>2. w1 = w - IF u = s THEN 1 ELSE 0
      <4>1. Cardinality(From(Tail(q), s)) =
              Cardinality(From(q, s)) - IF Head(q)[1] = s THEN 1 ELSE 0
        BY <3>1, FromTail
      <4> QED BY <3>1, <4>1 DEF w, w1, Waiting, q
    <3>3. CASE u = s
      <4>1. reflector'[t][s] = Reflected(reflector[t][s])
        BY <2>1, <2>3, <3>3 DEF TypeOK, ReflectorType
      <4>2. n + 1 <= MaxPackets + MaxCopies
        <5>1. r <= MaxPackets /\ copies <= MaxCopies
          BY DEF TypeOK, SenderType, NetworkType
        <5> HIDE DEF p, r
        <5> QED BY <1>b, <1>t, <1>u, <3>2, <3>3, <5>1, BoundsAssumption
      <4>3. n + 1 \in 0 .. Word - 1
        BY <1>t, <4>2, BoundsAssumption, WordAssumption
      <4>4. (n + 1) % Word = n + 1
        BY <4>3, WordAssumption
      <4>5. n1 = n + 1
        <5>1. CASE reflector[t][s] = None
          <6>1. reflector'[t][s] = [seq_number |-> 1] /\ n = 0
            BY <4>1, <5>1 DEF Reflected, n, Number
          <6>2. reflector'[t][s] # None
            BY <6>1, NoSessionAssumption
          <6>3. n1 = 1
            BY <6>1, <6>2 DEF n1, Number
          <6> QED BY <6>1, <6>3
        <5>2. CASE reflector[t][s] # None
          <6>1. n = reflector[t][s].seq_number
            BY <5>2 DEF n, Number
          <6>2. reflector'[t][s] = [seq_number |-> n + 1]
            BY <4>1, <4>4, <5>2, <6>1 DEF Reflected
          <6>3. reflector'[t][s] # None
            BY <1>t, <6>2, NoSessionAssumption
          <6> QED BY <6>2, <6>3 DEF n1, Number
        <5> QED BY <5>1, <5>2
      <4> HIDE DEF p, p1, r, r1
      <4> QED BY <1>b, <1>g, <1>t, <1>u, <2>2, <3>2, <3>3, <4>5
    <3>4. CASE u # s
      <4>1. reflector'[t][s] = reflector[t][s]
        BY <2>1, <3>4 DEF TypeOK, ReflectorType
      <4>2. n1 = n
        BY <4>1 DEF n, n1, Number
      <4>3. Head(buffer[t])[1] # s
        BY <3>1, <3>4 DEF q
      <4> HIDE DEF p, p1, r, r1
      <4> QED BY <1>b, <1>g, <1>t, <1>u, <2>2, <3>2, <3>4, <4>2, <4>3
    <3> QED BY <3>3, <3>4
  <2>4. CASE v # t
    <3>1. reflector'[t] = reflector[t] /\ buffer'[t] = buffer[t]
      BY <2>1, <2>4 DEF TypeOK, ReflectorType
    <3>2. n1 = n /\ w1 = w
      BY <3>1 DEF n, n1, w, w1, Number, Waiting
    <3> HIDE DEF p, p1, r, r1
    <3> QED BY <1>b, <1>g, <1>t, <1>u, <2>2, <2>4, <3>2
  <2> QED BY <2>3, <2>4
<1>9. Good
  <2>1. CASE \E u \in Senders : TxCallback(u)
    BY <1>1, <2>1
  <2>2. CASE ~\E u \in Senders : TxCallback(u)
    <3>1. r1 = r
      BY <2>2, ResultsStep
    <3>2. \/ \E u \in Senders, v \in Target :
               Arrive(v, u) \/ LoseProbe(u, v) \/ CopyProbe(u, v)
          \/ \E v \in Target : \/ ReflectorRxCallback(v) \/ ReflectorRxError(v)
                               \/ CleanupStaleSessions(v)
          \/ UNCHANGED <<reflector, buffer, probes>> /\ copies' \in {copies, copies + 1}
      BY <1>t, <2>2
         DEF Next, TxCorrectCallback, Deadline, Finish, Stamp, RxCallback, LoseReply,
             CopyReply, Done, vars, socket
    <3> HIDE DEF r, r1
    <3> QED BY <1>2, <1>3, <1>4, <1>5, <1>6, <1>7, <1>8, <3>1, <3>2
  <2> QED BY <2>1, <2>2
<1> QED BY <1>8, <1>9 DEF Good, n, n1

\* A reflection is two numbers.
LEMMA ReflectionType ==
    ASSUME TypeOK, NEW s \in Senders, NEW t \in Target, NEW a \in Reflections(s, t)
    PROVE  a[1] \in Nat /\ a[2] \in Nat
<1>1. CASE \E i \in 1 .. Len(replies[s][t]) :
             a = <<replies[s][t][i].sender_seq, replies[s][t][i].reflector_seq>>
  <2>1. PICK i \in 1 .. Len(replies[s][t]) :
          a = <<replies[s][t][i].sender_seq, replies[s][t][i].reflector_seq>>
    BY <1>1
  <2>2. replies[s][t][i] \in ReplyType
    BY ElementOfSeq DEF TypeOK, NetworkType, Queues
  <2> QED BY <2>1, <2>2 DEF ReplyType
<1>2. CASE \E k \in 1 .. Len(sessions[s][t].results) :
             /\ ~Lost(sessions[s][t].results[k])
             /\ a = <<sessions[s][t].results[k].sender_seq,
                      sessions[s][t].results[k].reflector_seq>>
  <2> DEFINE x == sessions[s][t]
  <2>1. PICK k \in 1 .. Len(x.results) :
             /\ ~Lost(x.results[k])
             /\ a = <<x.results[k].sender_seq, x.results[k].reflector_seq>>
    BY <1>2
  <2>2. x \in Session
    BY DEF TypeOK, SenderType
  <2> HIDE DEF x
  <2>3. x.results[k].sender_seq \in Nat /\ x.results[k].reflector_seq \in Nat \cup {None}
    BY <2>2, SessionFields
  <2> QED BY <2>1, <2>3 DEF Lost
<1> QED BY <1>1, <1>2 DEF Reflections

\* As long as the reflector keeps the session its number does not fall.
LEMMA NumberStep ==
    ASSUME MaxPackets + MaxCopies < Word, TypeOK, TypeOK', Budget, [Next]_vars,
           NEW s \in Senders, NEW t \in Target, <<s, t>> \notin expired'
    PROVE  Number(s, t) <= Number(s, t)' /\ <<s, t>> \notin expired
<1>t. Number(s, t) \in Nat
  BY CountTypes DEF CountType
<1>1. ASSUME NEW v \in Target, ReflectorRxCallback(v)
      PROVE  Number(s, t) <= Number(s, t)' /\ <<s, t>> \notin expired
  <2>0. expired' = expired
    BY <1>1 DEF ReflectorRxCallback
  <2>1. CASE v = t /\ Head(buffer[t])[1] = s
    <3>1. Number(s, t)' = Number(s, t) + 1
      BY <1>1, <2>1, BudgetStep
    <3> QED BY <1>t, <2>0, <3>1
  <2>2. CASE ~ (v = t /\ Head(buffer[t])[1] = s)
    <3>1. reflector' = [reflector EXCEPT ![v][Head(buffer[v])[1]] =
                          Reflected(reflector[v][Head(buffer[v])[1]])]
      BY <1>1 DEF ReflectorRxCallback
    <3>2. reflector'[t][s] = reflector[t][s]
      BY <2>2, <3>1 DEF TypeOK, ReflectorType
    <3>3. Number(s, t)' = Number(s, t)
      BY <3>2 DEF Number
    <3> QED BY <1>t, <2>0, <3>3
  <2> QED BY <2>1, <2>2
<1>2. ASSUME NEW v \in Target, CleanupStaleSessions(v)
      PROVE  Number(s, t) <= Number(s, t)' /\ <<s, t>> \notin expired
  <2>1. PICK stale \in SUBSET Senders :
          /\ reflector' = [reflector EXCEPT ![v] =
                [u \in Senders |-> IF u \in stale THEN None ELSE reflector[v][u]]]
          /\ expired' = expired \cup (stale \X {v})
    BY <1>2 DEF CleanupStaleSessions
  <2>2. ~ (v = t /\ s \in stale) /\ <<s, t>> \notin expired
    BY <2>1
  <2>3. reflector'[t][s] = reflector[t][s]
    BY <2>1, <2>2 DEF TypeOK, ReflectorType
  <2>4. Number(s, t)' = Number(s, t)
    BY <2>3 DEF Number
  <2> QED BY <1>t, <2>2, <2>4
<1>3. ASSUME UNCHANGED <<reflector, expired>>
      PROVE  Number(s, t) <= Number(s, t)' /\ <<s, t>> \notin expired
  <2>1. Number(s, t)' = Number(s, t)
    BY <1>3 DEF Number
  <2> QED BY <1>t, <1>3, <2>1
<1>4. \/ \E v \in Target : ReflectorRxCallback(v) \/ CleanupStaleSessions(v)
      \/ UNCHANGED <<reflector, expired>>
  BY DEF Next, TxCallback, TxCorrectCallback, Deadline, Finish, Stamp, RxCallback, Arrive,
         LoseProbe, LoseReply, CopyProbe, CopyReply, ReflectorRxError, Done, vars
<1> QED BY <1>1, <1>2, <1>3, <1>4

\* Every step keeps the reflector's numbers apart.
LEMMA NumbersStep ==
    ASSUME MaxPackets + MaxCopies < Word, TypeOK, TypeOK', NumbersInv, [Next]_vars
    PROVE  NumbersInv'
<1>0. Budget /\ NumbersOnce
  BY DEF NumbersInv
<1>1. Budget'
  BY <1>0, BudgetStep DEF Budget
<1>2. NumbersOnce'
  <2> SUFFICES ASSUME NEW s \in Senders, NEW t \in Target, <<s, t>> \notin expired',
                      NEW a \in Reflections(s, t)', NEW b \in Reflections(s, t)'
               PROVE  a[2] < Number(s, t)' /\ (a[2] = b[2] => a[1] = b[1])
    BY DEF NumbersOnce
  <2> DEFINE R == Reflections(s, t)
             n == Number(s, t)
             n1 == Number(s, t)'
  <2>1. n \in Nat /\ n1 \in Nat /\ n <= n1 /\ <<s, t>> \notin expired
    <3>1. CountType /\ CountType'
      BY CountTypes, PTL
    <3> QED BY <1>0, <3>1, NumberStep DEF CountType
  <2>2. \A c, d \in R : c[2] < n /\ (c[2] = d[2] => c[1] = d[1])
    BY <1>0, <2>1 DEF NumbersOnce
  <2>3. \A c \in R : c[2] \in Nat
    BY ReflectionType
  <2>4. CASE Reflections(s, t)' \subseteq Reflections(s, t)
    <3>1. a \in R /\ b \in R
      BY <2>4
    <3> HIDE DEF R, n, n1
    <3>2. a[2] \in Nat /\ a[2] < n
      BY <2>2, <2>3, <3>1
    <3>3. a[2] < n1
      BY <2>1, <3>2
    <3> QED BY <2>2, <3>1, <3>3 DEF n1
  <2>5. CASE /\ ReflectorRxCallback(t) /\ Head(buffer[t])[1] = s
             /\ Reflections(s, t)' \subseteq Reflections(s, t) \cup {Upcoming(s, t)}
    <3> DEFINE e == Upcoming(s, t)
    <3>1. a \in R \cup {e} /\ b \in R \cup {e}
      BY <2>5
    <3>2. n1 = n + 1
      BY <1>0, <2>5, BudgetStep
    <3>3. e[2] = n
      BY DEF Upcoming
    <3> HIDE DEF R, n, n1, e
    <3>4. \A c \in R \cup {e} : c[2] < n1
      BY <2>1, <2>2, <2>3, <3>2, <3>3
    <3>5. a[2] = b[2] => a[1] = b[1]
      <4>1. CASE a \in R /\ b \in R
        BY <2>2, <4>1
      <4>2. CASE a = e /\ b = e
        BY <4>2
      <4>3. ASSUME NEW c \in R PROVE c[2] # e[2]
        <5>1. c[2] \in Nat /\ c[2] < n
          BY <2>2, <2>3
        <5> QED BY <2>1, <3>3, <5>1
      <4> QED BY <3>1, <4>1, <4>2, <4>3
    <3> QED BY <3>1, <3>4, <3>5 DEF n1
  <2> QED BY <2>4, <2>5, ReflectionsStep
<1> QED BY <1>1, <1>2 DEF NumbersInv

\* The records of a session have different numbers until the number is used up.
LEMMA RecordsApart ==
    ASSUME NEW x \in Session, Numbered(x), Len(x.results) <= Word,
           NEW j \in 1 .. Len(x.results), NEW k \in 1 .. Len(x.results),
           x.results[j].sender_seq = x.results[k].sender_seq
    PROVE  j = k
<1>1. Len(x.results) \in Nat
  BY SessionFields
<1>2. x.results[j].sender_seq = (j - 1) % Word /\ x.results[k].sender_seq = (k - 1) % Word
  BY DEF Numbered
<1>3. j - 1 \in 0 .. Word - 1 /\ k - 1 \in 0 .. Word - 1
  BY <1>1, WordAssumption
<1>4. (j - 1) % Word = j - 1 /\ (k - 1) % Word = k - 1
  BY <1>3, WordAssumption
<1>5. j - 1 = k - 1
  BY <1>2, <1>4
<1> QED BY <1>1, <1>5

\* Two packets are never recorded as reflected under the same number while the
\* reflector keeps the session, whatever is lost, reordered or duplicated in either
\* direction, as long as the u32 counters do not come round: packets and copies
\* stay below Word.
THEOREM ReflectedOnce ==
    ASSUME MaxPackets + MaxCopies < Word
    PROVE  Spec => []ReflectionsDistinct
<1>1. Init => NumbersInv
  <2> SUFFICES ASSUME Init PROVE NumbersInv
    OBVIOUS
  <2>1. ASSUME NEW s \in Senders, NEW t \in Target
        PROVE  /\ reflector[t][s] = None /\ probes[s][t] = <<>> /\ buffer[t] = <<>>
               /\ replies[s][t] = <<>> /\ sessions[s][t].results = <<>> /\ copies = 0
    BY DEF Init, NewSession
  <2>2. ASSUME NEW s \in Senders, NEW t \in Target PROVE Spent(s, t) <= Sent(s, t)
    <3>1. Cardinality(From(<<>>, s)) = 0
      <4>1. <<>> \in Seq(Nat)
        OBVIOUS
      <4> QED BY <4>1, FromFinite
    <3> QED BY <2>1, <3>1 DEF Spent, Sent, Number, Waiting
  <2>3. ASSUME NEW s \in Senders, NEW t \in Target PROVE Reflections(s, t) = {}
    BY <2>1 DEF Reflections
  <2> QED BY <2>2, <2>3 DEF NumbersInv, Budget, NumbersOnce
<1>2. TypeOK /\ NumbersInv => ReflectionsDistinct
  <2> SUFFICES ASSUME TypeOK, NumbersInv, NEW s \in Senders, NEW t \in Target,
                      <<s, t>> \notin expired,
                      NEW j \in DOMAIN sessions[s][t].results,
                      NEW k \in DOMAIN sessions[s][t].results,
                      j # k, ~Lost(sessions[s][t].results[j]),
                      sessions[s][t].results[j].reflector_seq =
                        sessions[s][t].results[k].reflector_seq
               PROVE  FALSE
    BY DEF ReflectionsDistinct, Pairs, results
  <2> DEFINE x == sessions[s][t]
             a(i) == <<x.results[i].sender_seq, x.results[i].reflector_seq>>
  <2>1. x \in Session /\ Numbered(x) /\ Len(x.results) <= MaxPackets
    BY DEF TypeOK, SenderType
  <2>2. j \in 1 .. Len(x.results) /\ k \in 1 .. Len(x.results) /\ Len(x.results) \in Nat
    BY <2>1, SessionFields
  <2>3. ~Lost(x.results[k])
    BY DEF Lost
  <2>4. a(j) \in Reflections(s, t) /\ a(k) \in Reflections(s, t)
    BY <2>2, <2>3 DEF Reflections
  <2>5. a(j)[2] = a(k)[2] => a(j)[1] = a(k)[1]
    BY <2>4 DEF NumbersInv, NumbersOnce
  <2>6. x.results[j].sender_seq = x.results[k].sender_seq
    BY <2>5
  <2>7. Len(x.results) <= Word
    BY <2>1, <2>2, BoundsAssumption, WordAssumption
  <2> HIDE DEF x
  <2> QED BY <2>1, <2>2, <2>6, <2>7, RecordsApart
<1>3. TypeOK /\ TypeOK' /\ NumbersInv /\ [Next]_vars => NumbersInv'
  BY NumbersStep
<1> QED BY <1>1, <1>2, <1>3, InitType, NextType, PTL DEF Spec

-----------------------------------------------------------------------------
(* The loss on the way out.                                                *)

\* The first datagram of a buffer is the first of its sender.
LEMMA PlaceHead ==
    ASSUME NEW q, NEW s
    PROVE  Place(q, s, 1) = 0
<1>1. {j \in From(q, s) : j < 1} = {}
  BY DEF From
<1> QED BY <1>1, FS_EmptySet DEF Place

\* A datagram that comes in leaves the places of those before it, and comes after
\* all of its sender.
LEMMA PlaceAppend ==
    ASSUME NEW S, NEW q \in Seq(S), NEW e \in S, NEW s
    PROVE  /\ From(Append(q, e), s) =
                From(q, s) \cup (IF e[1] = s THEN {Len(q) + 1} ELSE {})
           /\ \A i \in 1 .. Len(q) + 1 :
                Place(Append(q, e), s, i) = Place(q, s, i)
           /\ Place(q, s, Len(q) + 1) = Cardinality(From(q, s))
<1> DEFINE r == Append(q, e)
<1>1. Len(q) \in Nat
  BY LenProperties
<1>2. /\ Len(r) = Len(q) + 1 /\ r[Len(q) + 1] = e
      /\ \A k \in 1 .. Len(q) : r[k] = q[k]
  BY AppendProperties
<1> HIDE DEF r
<1>3. From(r, s) = From(q, s) \cup (IF e[1] = s THEN {Len(q) + 1} ELSE {})
  BY <1>1, <1>2 DEF From
<1>4. ASSUME NEW i \in 1 .. Len(q) + 1
      PROVE  {j \in From(r, s) : j < i} = {j \in From(q, s) : j < i}
  <2>1. i \in Nat /\ i <= Len(q) + 1
    BY <1>1
  <2> QED BY <1>1, <1>3, <2>1
<1>5. {j \in From(q, s) : j < Len(q) + 1} = From(q, s)
  BY <1>1 DEF From
<1> QED BY <1>3, <1>4, <1>5 DEF r, Place

\* The reflections that the datagrams waiting in a target's buffer will get.
Queued(s, t) ==
    {<<buffer[t][i][2], Number(s, t) + Place(buffer[t], s, i)>> :
        i \in From(buffer[t], s)}

\* All reflections of a pair that are recorded, under way, or will be made of what
\* the buffer holds.
Events(s, t) == Reflections(s, t) \cup Queued(s, t)

\* The reflector's side of a pair stays as it is.
Still(s, t) ==
    /\ arrived'[s][t] = arrived[s][t]
    /\ t \in deaf' <=> t \in deaf

\* What a step does to the reflector's side of a pair while no session expires.
LEMMA ReflectorSide ==
    ASSUME TypeOK, [Next]_vars, "expire" \notin Faults,
           NEW s \in Senders, NEW t \in Target
    PROVE  \/ Still(s, t) /\ buffer'[t] = buffer[t] /\ reflector'[t][s] = reflector[t][s]
           \/ Arrive(t, s)
           \/ /\ Still(s, t) /\ reflector'[t][s] = reflector[t][s]
              /\ \E e \in Senders \X Nat :
                   e[1] # s /\ buffer'[t] = Append(buffer[t], e)
           \/ /\ Still(s, t) /\ ReflectorRxCallback(t)
              /\ buffer[t] # <<>> /\ buffer'[t] = Tail(buffer[t])
              /\ Head(buffer[t])[1] # s => reflector'[t][s] = reflector[t][s]
           \/ arrived'[s][t] = arrived[s][t] /\ t \in deaf' /\ buffer'[t] = <<>>
<1> DEFINE A == Still(s, t) /\ buffer'[t] = buffer[t] /\ reflector'[t][s] = reflector[t][s]
           B == Arrive(t, s)
           C == /\ Still(s, t) /\ reflector'[t][s] = reflector[t][s]
                /\ \E e \in Senders \X Nat :
                     e[1] # s /\ buffer'[t] = Append(buffer[t], e)
           D == /\ Still(s, t) /\ ReflectorRxCallback(t)
                /\ buffer[t] # <<>> /\ buffer'[t] = Tail(buffer[t])
                /\ Head(buffer[t])[1] # s => reflector'[t][s] = reflector[t][s]
           E == arrived'[s][t] = arrived[s][t] /\ t \in deaf' /\ buffer'[t] = <<>>
<1>1. ASSUME NEW u \in Senders, NEW v \in Target, Arrive(v, u) PROVE A \/ B \/ C
  <2>1. PICK k \in DOMAIN probes[u][v] :
          /\ probes[u][v][k] \in Nat
          /\ buffer' = [buffer EXCEPT ![v] = Append(buffer[v], <<u, probes[u][v][k]>>)]
          /\ arrived' = [arrived EXCEPT ![u][v] = arrived[u][v] \cup {probes[u][v][k]}]
    BY <1>1, ArriveEffect
  <2>2. deaf' = deaf /\ reflector' = reflector
    BY <1>1 DEF Arrive
  <2>3. CASE v # t
    <3>1. buffer'[t] = buffer[t] /\ arrived'[s][t] = arrived[s][t]
      BY <2>1, <2>3 DEF TypeOK, ReflectorType, NetworkType
    <3> QED BY <2>2, <3>1 DEF Still
  <2>4. CASE v = t /\ u # s
    <3> DEFINE e == <<u, probes[u][v][k]>>
    <3>1. e \in Senders \X Nat /\ e[1] # s
      BY <2>1, <2>4
    <3>2. buffer'[t] = Append(buffer[t], e) /\ arrived'[s][t] = arrived[s][t]
      BY <2>1, <2>4 DEF TypeOK, ReflectorType, NetworkType
    <3> HIDE DEF e
    <3> QED BY <2>2, <3>1, <3>2 DEF Still
  <2>5. CASE v = t /\ u = s
    BY <1>1, <2>5
  <2> QED BY <2>3, <2>4, <2>5
<1>2. ASSUME NEW v \in Target, ReflectorRxCallback(v) PROVE A \/ D
  <2>1. /\ buffer[v] # <<>> /\ buffer' = [buffer EXCEPT ![v] = Tail(buffer[v])]
        /\ reflector' = [reflector EXCEPT ![v][Head(buffer[v])[1]] =
                          Reflected(reflector[v][Head(buffer[v])[1]])]
        /\ deaf' = deaf /\ arrived' = arrived
    BY <1>2 DEF ReflectorRxCallback
  <2>2. CASE v = t
    <3>1. buffer'[t] = Tail(buffer[t])
      BY <2>1, <2>2 DEF TypeOK, ReflectorType
    <3>2. Head(buffer[t])[1] # s => reflector'[t][s] = reflector[t][s]
      BY <2>1, <2>2 DEF TypeOK, ReflectorType
    <3> QED BY <1>2, <2>1, <2>2, <3>1, <3>2 DEF Still
  <2>3. CASE v # t
    <3>1. buffer'[t] = buffer[t] /\ reflector'[t][s] = reflector[t][s]
      BY <2>1, <2>3 DEF TypeOK, ReflectorType
    <3> QED BY <2>1, <3>1 DEF Still
  <2> QED BY <2>2, <2>3
<1>3. ASSUME NEW v \in Target, ReflectorRxError(v) PROVE A \/ E
  <2>1. /\ buffer' = [buffer EXCEPT ![v] = <<>>] /\ deaf' = deaf \cup {v}
        /\ arrived' = arrived /\ reflector' = reflector
    BY <1>3 DEF ReflectorRxError
  <2>2. CASE v = t
    BY <2>1, <2>2 DEF TypeOK, ReflectorType
  <2>3. CASE v # t
    <3>1. buffer'[t] = buffer[t]
      BY <2>1, <2>3 DEF TypeOK, ReflectorType
    <3> QED BY <2>1, <2>3, <3>1 DEF Still
  <2> QED BY <2>2, <2>3
<1>4. ASSUME UNCHANGED <<buffer, deaf, arrived, reflector>> PROVE A
  BY <1>4 DEF Still
<1>5. \/ \E u \in Senders, v \in Target : Arrive(v, u)
      \/ \E v \in Target : ReflectorRxCallback(v) \/ ReflectorRxError(v)
      \/ UNCHANGED <<buffer, deaf, arrived, reflector>>
  BY DEF Next, TxCallback, TxCorrectCallback, Deadline, Finish, Stamp, RxCallback,
         LoseProbe, LoseReply, CopyProbe, CopyReply, CleanupStaleSessions, Done, vars,
         socket
<1> HIDE DEF A, B, C, D, E
<1>6. A \/ B \/ C \/ D \/ E
  BY <1>1, <1>2, <1>3, <1>4, <1>5
<1> QED BY <1>6 DEF A, B, C, D, E

\* A step that is not an arrival of the pair makes no new event of it, and the
\* number of the last event of the pair does not fall while the reflector listens.
LEMMA EventsStep ==
    ASSUME MaxPackets + MaxCopies < Word, TypeOK, TypeOK', Budget, [Next]_vars,
           "expire" \notin Faults, NEW s \in Senders, NEW t \in Target, ~Arrive(t, s)
    PROVE  /\ Events(s, t)' \subseteq Events(s, t)
           /\ arrived'[s][t] = arrived[s][t]
           /\ t \notin deaf' =>
                /\ t \notin deaf
                /\ Number(s, t)' + Waiting(s, t)' = Number(s, t) + Waiting(s, t)
<1> DEFINE q == buffer[t]
           r == buffer'[t]
           n == Number(s, t)
           n1 == Number(s, t)'
           w == Waiting(s, t)
           w1 == Waiting(s, t)'
<1>q. q \in Seq(Senders \X Nat) /\ Len(q) \in Nat
  BY LenProperties DEF TypeOK, ReflectorType
<1>t. n \in Nat /\ w \in Nat
  BY CountTypes DEF CountType
<1>s. ASSUME reflector'[t][s] = reflector[t][s] PROVE n1 = n
  BY <1>s DEF Number
<1>w. w = Cardinality(From(q, s)) /\ w1 = Cardinality(From(r, s))
  BY DEF Waiting
<1>u. ASSUME ReflectorRxCallback(t), Head(q)[1] = s PROVE Upcoming(s, t) \in Queued(s, t)
  <2>0. q # <<>>
    BY <1>u DEF ReflectorRxCallback
  <2>1. Len(q) \in Nat \ {0} /\ Head(q) = q[1]
    <3> HIDE DEF q
    <3> QED BY <1>q, <2>0, EmptySeq
  <2>2. 1 \in From(q, s)
    <3> HIDE DEF q
    <3> QED BY <1>u, <2>1 DEF From
  <2>3. Place(q, s, 1) = 0
    BY PlaceHead
  <2>4. <<q[1][2], n + Place(q, s, 1)>> \in Queued(s, t)
    BY <2>2 DEF Queued
  <2>5. n + Place(q, s, 1) = n
    <3> HIDE DEF n, q
    <3> QED BY <1>t, <2>3
  <2> QED BY <2>1, <2>4, <2>5 DEF Upcoming
<1>e. ASSUME \A i \in From(r, s) :
                <<r[i][2], n1 + Place(r, s, i)>> \in Queued(s, t)
      PROVE  Events(s, t)' \subseteq Events(s, t)
  <2>1. Queued(s, t)' = {<<r[i][2], n1 + Place(r, s, i)>> : i \in From(r, s)}
    BY DEF Queued, Place
  <2>2. Queued(s, t)' \subseteq Queued(s, t)
    <3> HIDE DEF r, n1
    <3> QED BY <1>e, <2>1
  <2> QED BY <1>u, <2>2, ReflectionsStep DEF Events
<1>1. CASE /\ Still(s, t) /\ r = q /\ reflector'[t][s] = reflector[t][s]
  <2>1. n1 = n
    BY <1>1, <1>s
  <2>2. w1 = w
    BY <1>1, <1>w
  <2>4. \A i \in From(r, s) : <<r[i][2], n1 + Place(r, s, i)>> \in Queued(s, t)
    BY <1>1, <2>1 DEF Queued
  <2> QED BY <1>1, <1>e, <2>1, <2>2, <2>4 DEF Still
<1>2. CASE /\ Still(s, t) /\ reflector'[t][s] = reflector[t][s]
           /\ \E e \in Senders \X Nat : e[1] # s /\ r = Append(q, e)
  <2>1. PICK e \in Senders \X Nat : e[1] # s /\ r = Append(q, e)
    BY <1>2
  <2>2. n1 = n
    BY <1>2, <1>s
  <2>3. /\ From(r, s) = From(q, s)
        /\ \A i \in 1 .. Len(q) + 1 : Place(r, s, i) = Place(q, s, i)
    <3> DEFINE S == Senders \X Nat
    <3>1. q \in Seq(S) /\ e \in S
      BY <1>q
    <3> HIDE DEF q, r, S
    <3>2. /\ From(Append(q, e), s) = From(q, s) \cup (IF e[1] = s THEN {Len(q) + 1} ELSE {})
          /\ \A i \in 1 .. Len(q) + 1 : Place(Append(q, e), s, i) = Place(q, s, i)
      BY <3>1, PlaceAppend
    <3> QED BY <2>1, <3>2
  <2>4. w1 = w
    BY <1>w, <2>3
  <2>6. ASSUME NEW i \in From(r, s) PROVE <<r[i][2], n1 + Place(r, s, i)>> \in Queued(s, t)
    <3>1. i \in From(q, s)
      BY <2>3
    <3>2. i \in 1 .. Len(q) /\ i \in 1 .. Len(q) + 1
      BY <1>q, <3>1 DEF From
    <3>3. r[i] = q[i]
      <4> HIDE DEF q, r
      <4> QED BY <1>q, <2>1, <3>2, AppendProperties
    <3> QED BY <2>2, <2>3, <3>1, <3>2, <3>3 DEF Queued
  <2> QED BY <1>2, <1>e, <2>2, <2>4, <2>6 DEF Still
<1>3. CASE /\ Still(s, t) /\ ReflectorRxCallback(t)
           /\ q # <<>> /\ r = Tail(q)
           /\ Head(q)[1] # s => reflector'[t][s] = reflector[t][s]
  <2> DEFINE d == IF Head(q)[1] = s THEN 1 ELSE 0
  <2>1. n1 = n + d
    <3>1. CASE Head(q)[1] = s
      BY <1>3, <3>1, BudgetStep
    <3>2. CASE Head(q)[1] # s
      <4>1. n1 = n
        BY <1>3, <1>s, <3>2
      <4> QED BY <1>t, <3>2, <4>1
    <3> QED BY <3>1, <3>2
  <2>2. d \in Nat
    OBVIOUS
  <2>3. w1 = w - d
    <3> HIDE DEF q, r
    <3> QED BY <1>3, <1>q, <1>w, FromTail
  <2>4. Len(q) \in Nat \ {0} /\ Len(r) = Len(q) - 1 /\ Head(q) = q[1]
        /\ \A j \in 1 .. Len(r) : r[j] = q[j + 1]
    <3> HIDE DEF q, r
    <3> QED BY <1>3, <1>q, HeadTailProperties, EmptySeq
  <2>5. ASSUME NEW i \in From(r, s)
        PROVE  <<r[i][2], n1 + Place(r, s, i)>> \in Queued(s, t)
    <3>1. i \in 1 .. Len(q) /\ i \in 1 .. Len(r) /\ i + 1 \in From(q, s)
      <4> HIDE DEF q, r
      <4> QED BY <2>4 DEF From
    <3>2. Place(r, s, i) \in Nat /\ Place(q, s, i + 1) = Place(r, s, i) + d
      <4> HIDE DEF q, r
      <4> QED BY <1>3, <1>q, <3>1, PlaceTail
    <3>3. r[i] = q[i + 1]
      BY <2>4, <3>1
    <3>4. n1 + Place(r, s, i) = n + Place(q, s, i + 1)
      <4> HIDE DEF n, n1, q, r, d
      <4> QED BY <1>t, <2>1, <2>2, <3>2
    <3>5. <<q[i + 1][2], n + Place(q, s, i + 1)>> \in Queued(s, t)
      BY <3>1 DEF Queued
    <3> QED BY <3>3, <3>4, <3>5
  <2>8. Events(s, t)' \subseteq Events(s, t)
    BY <1>e, <2>5
  <2>9. n1 + w1 = n + w
    <3> HIDE DEF n, n1, w, w1, d
    <3> QED BY <1>t, <2>1, <2>2, <2>3
  <2> QED BY <1>3, <2>8, <2>9 DEF Still
<1>4. CASE arrived'[s][t] = arrived[s][t] /\ t \in deaf' /\ r = <<>>
  <2>1. From(r, s) = {}
    BY <1>4 DEF From
  <2> QED BY <1>4, <1>e, <2>1
<1> QED BY <1>1, <1>2, <1>3, <1>4, ReflectorSide

\* An event is of a packet that has arrived.
LEMMA EventType ==
    ASSUME TypeOK, Reached, NEW s \in Senders, NEW t \in Target, NEW e \in Events(s, t)
    PROVE  e[1] \in Nat /\ e[2] \in Nat /\ e[1] \in arrived[s][t]
<1>1. CASE e \in Reflections(s, t)
  BY <1>1, ReflectionType DEF Reached
<1>2. CASE e \in Queued(s, t)
  <2>1. PICK i \in From(buffer[t], s) :
          e = <<buffer[t][i][2], Number(s, t) + Place(buffer[t], s, i)>>
    BY <1>2 DEF Queued
  <2>2. /\ buffer[t] \in Seq(Senders \X Nat)
        /\ i \in 1 .. Len(buffer[t]) /\ buffer[t][i][1] = s
    BY DEF From, TypeOK, ReflectorType
  <2>3. buffer[t][i] \in Senders \X Nat
    BY <2>2, ElementOfSeq
  <2>4. e[1] \in arrived[s][t]
    BY <2>1, <2>2 DEF Reached
  <2>5. Number(s, t) \in Nat
    BY CountTypes DEF CountType
  <2>6. Place(buffer[t], s, i) \in Nat
    <3>1. IsFiniteSet(From(buffer[t], s))
      BY <2>2, FromFinite
    <3>2. {j \in From(buffer[t], s) : j < i} \in SUBSET From(buffer[t], s)
      OBVIOUS
    <3> QED BY <3>1, <3>2, FS_Subset, FS_CardinalityType DEF Place
  <2> QED BY <2>1, <2>3, <2>4, <2>5, <2>6
<1> QED BY <1>1, <1>2 DEF Events

\* In a network that keeps the order the oldest probe of the pair arrives, and will
\* be reflected under the number after those that wait.
LEMMA EventsArrive ==
    ASSUME TypeOK, "reorder" \notin Faults, NEW s \in Senders, NEW t \in Target, Arrive(t, s)
    PROVE  /\ 1 \in 1 .. Len(probes[s][t]) /\ probes[s][t][1] \in Nat
           /\ probes'[s][t] = RemoveAt(probes[s][t], 1)
           /\ arrived'[s][t] = arrived[s][t] \cup {probes[s][t][1]}
           /\ t \notin deaf
           /\ Number(s, t)' = Number(s, t)
           /\ Waiting(s, t)' = Waiting(s, t) + 1
           /\ Events(s, t)' \subseteq
                Events(s, t) \cup {<<probes[s][t][1], Number(s, t) + Waiting(s, t)>>}
<1> DEFINE q == buffer[t]
           r == buffer'[t]
           p == probes[s][t][1]
           e == <<s, p>>
           n == Number(s, t)
           S == Senders \X Nat
<1>1. /\ 1 \in DOMAIN probes[s][t]
      /\ buffer' = [buffer EXCEPT ![t] = Append(buffer[t], e)]
      /\ probes' = [probes EXCEPT ![s][t] = RemoveAt(probes[s][t], 1)]
      /\ arrived' = [arrived EXCEPT ![s][t] = arrived[s][t] \cup {p}]
      /\ t \notin deaf /\ UNCHANGED <<reflector, sessions, replies>>
  BY DEF Arrive, Deliverable
<1>2. probes[s][t] \in Seq(Nat) /\ q \in Seq(S)
  BY DEF TypeOK, NetworkType, ReflectorType, Queues
<1>3. 1 \in 1 .. Len(probes[s][t])
  BY <1>1, <1>2, LenProperties
<1>4. p \in Nat /\ e \in S /\ e[1] = s /\ e[2] = p
  BY <1>2, <1>3, ElementOfSeq
<1>5. /\ r = Append(q, e) /\ probes'[s][t] = RemoveAt(probes[s][t], 1)
      /\ arrived'[s][t] = arrived[s][t] \cup {p}
  BY <1>1 DEF TypeOK, NetworkType, ReflectorType, Queues
<1>6. Number(s, t)' = n
  BY <1>1 DEF Number
<1>7. Waiting(s, t)' = Waiting(s, t) + 1
  <2>1. Waiting(s, t) = Cardinality(From(q, s)) /\ Waiting(s, t)' = Cardinality(From(r, s))
    BY DEF Waiting
  <2> HIDE DEF q, r, e, S
  <2>2. Cardinality(From(Append(q, e), s)) =
          Cardinality(From(q, s)) + IF e[1] = s THEN 1 ELSE 0
    BY <1>2, <1>4, FromAppend
  <2> QED BY <1>4, <1>5, <2>1, <2>2
<1>8. Reflections(s, t)' = Reflections(s, t)
  BY <1>1 DEF Reflections, Lost
<1>9. Queued(s, t)' \subseteq Queued(s, t) \cup {<<p, n + Waiting(s, t)>>}
  <2>1. Queued(s, t)' = {<<r[i][2], n + Place(r, s, i)>> : i \in From(r, s)}
    BY <1>6 DEF Queued, Place
  <2> SUFFICES ASSUME NEW i \in From(r, s)
               PROVE  <<r[i][2], n + Place(r, s, i)>> \in
                        Queued(s, t) \cup {<<p, n + Waiting(s, t)>>}
    BY <2>1
  <2>2. Waiting(s, t) = Cardinality(From(q, s)) /\ Len(q) \in Nat
    BY <1>2, LenProperties DEF Waiting
  <2>3. /\ From(r, s) = From(q, s) \cup {Len(q) + 1}
        /\ \A k \in 1 .. Len(q) + 1 : Place(r, s, k) = Place(q, s, k)
        /\ Place(q, s, Len(q) + 1) = Cardinality(From(q, s))
    <3> HIDE DEF q, r, e, S
    <3>1. /\ From(Append(q, e), s) =
               From(q, s) \cup (IF e[1] = s THEN {Len(q) + 1} ELSE {})
          /\ \A k \in 1 .. Len(q) + 1 : Place(Append(q, e), s, k) = Place(q, s, k)
          /\ Place(q, s, Len(q) + 1) = Cardinality(From(q, s))
      BY <1>2, <1>4, PlaceAppend
    <3> QED BY <1>4, <1>5, <3>1
  <2>4. r[Len(q) + 1] = e /\ \A k \in 1 .. Len(q) : r[k] = q[k]
    <3> HIDE DEF q, r, e, S
    <3> QED BY <1>2, <1>4, <1>5, AppendProperties
  <2>5. CASE i \in From(q, s)
    <3>1. i \in 1 .. Len(q) /\ i \in 1 .. Len(q) + 1
      BY <2>2, <2>5 DEF From
    <3>2. r[i] = q[i] /\ Place(r, s, i) = Place(q, s, i)
      BY <2>3, <2>4, <3>1
    <3> QED BY <2>5, <3>2 DEF Queued
  <2>6. CASE i = Len(q) + 1
    <3>1. r[i] = e /\ i \in 1 .. Len(q) + 1
      BY <2>2, <2>4, <2>6
    <3>2. Place(r, s, i) = Waiting(s, t)
      BY <2>2, <2>3, <2>6, <3>1
    <3> QED BY <1>4, <3>1, <3>2
  <2>7. i \in From(q, s) \/ i = Len(q) + 1
    BY <2>3
  <2> QED BY <2>5, <2>6, <2>7
<1> QED BY <1>1, <1>3, <1>4, <1>5, <1>6, <1>7, <1>8, <1>9 DEF Events

\* A queue whose datagrams are those of another in the same order, some of them
\* perhaps left out or there twice.
Drawn(r, q) ==
    \A j, k \in 1 .. Len(r) : j <= k =>
        \E a, b \in 1 .. Len(q) : a <= b /\ r[j] = q[a] /\ r[k] = q[b]

\* Losing a datagram keeps the order of the others.
LEMMA DrawnRemoved ==
    ASSUME NEW S, NEW q \in Seq(S), NEW i \in 1 .. Len(q)
    PROVE  Drawn(RemoveAt(q, i), q)
<1> DEFINE r == RemoveAt(q, i)
           f(j) == IF j < i THEN j ELSE j + 1
<1>1. Len(q) \in Nat /\ Len(r) = Len(q) - 1
      /\ \A j \in 1 .. Len(q) - 1 : r[j] = IF j < i THEN q[j] ELSE q[j + 1]
  BY RemoveAtProperties, LenProperties
<1> HIDE DEF r
<1>2. ASSUME NEW j \in 1 .. Len(r) PROVE f(j) \in 1 .. Len(q) /\ r[j] = q[f(j)]
  BY <1>1
<1>3. ASSUME NEW j \in 1 .. Len(r), NEW k \in 1 .. Len(r), j <= k PROVE f(j) <= f(k)
  BY <1>1, <1>3
<1> HIDE DEF f
<1> QED BY <1>2, <1>3 DEF Drawn, r

\* So does duplicating one.
LEMMA DrawnCopied ==
    ASSUME NEW S, NEW q \in Seq(S), NEW i \in 1 .. Len(q)
    PROVE  Drawn(Copied(q, i), q)
<1> DEFINE r == Copied(q, i)
           f(j) == IF j <= i THEN j ELSE j - 1
<1>0. q[i] \in S
  BY ElementOfSeq
<1>1. /\ Len(q) \in Nat /\ Len(r) = Len(q) + 1
      /\ \A j \in 1 .. i - 1 : r[j] = q[j]
      /\ r[i] = q[i]
      /\ \A j \in i + 1 .. Len(q) + 1 : r[j] = q[j - 1]
  <2> DEFINE e == q[i]
  <2>1. e \in S
    BY <1>0
  <2>2. r = InsertAt(q, i, e)
    BY DEF Copied
  <2> HIDE DEF r, e, f
  <2>3. /\ InsertAt(q, i, e) \in Seq(S)
        /\ Len(InsertAt(q, i, e)) = Len(q) + 1
        /\ \A j \in 1 .. i - 1 : InsertAt(q, i, e)[j] = q[j]
        /\ InsertAt(q, i, e)[i] = e
        /\ \A j \in i + 1 .. Len(q) + 1 : InsertAt(q, i, e)[j] = q[j - 1]
    BY <2>1, InsertAtProperties
  <2>4. Len(q) \in Nat
    BY LenProperties
  <2> QED BY <2>2, <2>3, <2>4 DEF e
<1> HIDE DEF r
<1>2. ASSUME NEW j \in 1 .. Len(r) PROVE f(j) \in 1 .. Len(q) /\ r[j] = q[f(j)]
  <2>1. CASE j < i
    <3>1. j \in 1 .. i - 1 /\ f(j) = j
      BY <1>1, <2>1
    <3> QED BY <1>1, <3>1
  <2>2. CASE j = i
    BY <1>1, <2>2
  <2>3. CASE j > i
    <3>1. j \in i + 1 .. Len(q) + 1 /\ f(j) = j - 1
      BY <1>1, <2>3
    <3> QED BY <1>1, <3>1
  <2> QED BY <1>1, <2>1, <2>2, <2>3
<1>3. ASSUME NEW j \in 1 .. Len(r), NEW k \in 1 .. Len(r), j <= k PROVE f(j) <= f(k)
  BY <1>1, <1>3
<1> HIDE DEF f
<1> QED BY <1>2, <1>3 DEF Drawn, r

\* A queue is drawn from itself.
LEMMA DrawnSame == ASSUME NEW q PROVE Drawn(q, q)
  BY DEF Drawn

\* What a step does to the probes of a pair that are under way.
LEMMA ProbesStep ==
    ASSUME TypeOK, [Next]_vars, NEW s \in Senders, NEW t \in Target, ~Arrive(t, s)
    PROVE  \/ Drawn(probes'[s][t], probes[s][t])
           \/ /\ TxCallback(s)
              /\ probes'[s][t] = Append(probes[s][t], sessions[s][t].seq_number)
<1> DEFINE D == Drawn(probes'[s][t], probes[s][t])
           X == /\ TxCallback(s)
                /\ probes'[s][t] = Append(probes[s][t], sessions[s][t].seq_number)
<1>0. ASSUME NEW u \in Senders, NEW v \in Target
      PROVE  /\ probes[u][v] \in Seq(Nat) /\ DOMAIN probes[u][v] = 1 .. Len(probes[u][v])
  BY LenProperties DEF TypeOK, NetworkType, Queues
<1>1. ASSUME probes'[s][t] = probes[s][t] PROVE D
  BY <1>1, DrawnSame
<1>2. ASSUME NEW u \in Senders, NEW v \in Target, NEW i \in DOMAIN probes[u][v],
             probes' = [probes EXCEPT ![u][v] = RemoveAt(probes[u][v], i)]
      PROVE  D
  <2>1. CASE u = s /\ v = t
    <3>1. probes'[s][t] = RemoveAt(probes[s][t], i)
      BY <1>2, <2>1 DEF TypeOK, NetworkType, Queues
    <3>2. i \in 1 .. Len(probes[s][t]) /\ probes[s][t] \in Seq(Nat)
      BY <1>0, <2>1
    <3> QED BY <3>1, <3>2, DrawnRemoved
  <2>2. CASE ~(u = s /\ v = t)
    <3>1. probes'[s][t] = probes[s][t]
      BY <1>2, <2>2 DEF TypeOK, NetworkType, Queues
    <3> QED BY <1>1, <3>1
  <2> QED BY <2>1, <2>2
<1>3. ASSUME NEW u \in Senders, NEW v \in Target, NEW i \in DOMAIN probes[u][v],
             probes' = [probes EXCEPT ![u][v] = Copied(probes[u][v], i)]
      PROVE  D
  <2>1. CASE u = s /\ v = t
    <3>1. probes'[s][t] = Copied(probes[s][t], i)
      BY <1>3, <2>1 DEF TypeOK, NetworkType, Queues
    <3>2. i \in 1 .. Len(probes[s][t]) /\ probes[s][t] \in Seq(Nat)
      BY <1>0, <2>1
    <3> QED BY <3>1, <3>2, DrawnCopied
  <2>2. CASE ~(u = s /\ v = t)
    <3>1. probes'[s][t] = probes[s][t]
      BY <1>3, <2>2 DEF TypeOK, NetworkType, Queues
    <3> QED BY <1>1, <3>1
  <2> QED BY <2>1, <2>2
<1>4. ASSUME NEW u \in Senders, TxCallback(u) PROVE D \/ X
  <2>1. \/ probes'[s][t] = probes[s][t]
        \/ u = s /\ probes'[s][t] = Append(probes[s][t], sessions[s][t].seq_number)
    BY <1>4, TxCallbackOnPair
  <2> QED BY <1>1, <1>4, <2>1
<1>5. ASSUME NEW u \in Senders, NEW v \in Target, Arrive(v, u) PROVE D
  <2>1. \E i \in DOMAIN probes[u][v] :
          probes' = [probes EXCEPT ![u][v] = RemoveAt(probes[u][v], i)]
    BY <1>5, ArriveEffect
  <2> HIDE DEF D
  <2> QED BY <1>2, <2>1
<1>6. ASSUME NEW u \in Senders, NEW v \in Target, LoseProbe(u, v) PROVE D
  <2>1. \E i \in DOMAIN probes[u][v] :
          probes' = [probes EXCEPT ![u][v] = RemoveAt(probes[u][v], i)]
    BY <1>6 DEF LoseProbe
  <2> HIDE DEF D
  <2> QED BY <1>2, <2>1
<1>7. ASSUME NEW u \in Senders, NEW v \in Target, CopyProbe(u, v) PROVE D
  <2>1. \E i \in DOMAIN probes[u][v] :
          probes' = [probes EXCEPT ![u][v] = Copied(probes[u][v], i)]
    BY <1>7 DEF CopyProbe
  <2> HIDE DEF D
  <2> QED BY <1>3, <2>1
<1>8. \/ \E u \in Senders : TxCallback(u)
      \/ \E u \in Senders, v \in Target : Arrive(v, u) \/ LoseProbe(u, v) \/ CopyProbe(u, v)
      \/ UNCHANGED probes
  BY DEF Next, TxCorrectCallback, Deadline, Finish, Stamp, RxCallback, LoseReply,
         CopyReply, ReflectorRxCallback, ReflectorRxError, CleanupStaleSessions, Done, vars
<1>9. ASSUME UNCHANGED probes PROVE D
  BY <1>1, <1>9
<1> HIDE DEF D, X
<1>10. D \/ X
  BY <1>4, <1>5, <1>6, <1>7, <1>8, <1>9
<1> QED BY <1>10 DEF D, X

\* The probes of a pair under way are in the order of sending, after those that have
\* arrived, and all of them have a record.
Orderly(s, t) ==
    LET q == probes[s][t]
        n == Len(sessions[s][t].results)
    IN  /\ \A i, j \in 1 .. Len(q) : i <= j => q[i] <= q[j]
        /\ \A i \in 1 .. Len(q) : q[i] < n
        /\ \A x \in arrived[s][t] : x < n /\ \A i \in 1 .. Len(q) : x <= q[i]

\* Every step keeps them so.
LEMMA OrderlyStep ==
    ASSUME MaxPackets + MaxCopies < Word, "reorder" \notin Faults, "expire" \notin Faults,
           TypeOK, TypeOK', Budget, [Next]_vars, NEW s \in Senders, NEW t \in Target,
           Orderly(s, t)
    PROVE  Orderly(s, t)'
<1> DEFINE q == probes[s][t]
           r == probes'[s][t]
           n == Len(sessions[s][t].results)
           n1 == Len(sessions'[s][t].results)
           A == arrived[s][t]
           A1 == arrived'[s][t]
<1>0. /\ \A i, j \in 1 .. Len(q) : i <= j => q[i] <= q[j]
      /\ \A i \in 1 .. Len(q) : q[i] < n
      /\ \A x \in A : x < n /\ \A i \in 1 .. Len(q) : x <= q[i]
  BY DEF Orderly
<1>1. q \in Seq(Nat) /\ Len(q) \in Nat /\ \A i \in 1 .. Len(q) : q[i] \in Nat
  BY LenProperties, ElementOfSeq DEF TypeOK, NetworkType, Queues
<1>2. n \in Nat /\ n1 \in Nat /\ n <= n1 /\ (TxCallback(s) => n1 = n + 1)
  <2>1. n \in Nat
    BY CountTypes DEF CountType
  <2> QED BY <2>1, ResultsStep
<1>3. A \in SUBSET Nat
  BY DEF TypeOK, NetworkType
<1>4. SUFFICES /\ \A i, j \in 1 .. Len(r) : i <= j => r[i] <= r[j]
               /\ \A i \in 1 .. Len(r) : r[i] < n1
               /\ \A x \in A1 : x < n1 /\ \A i \in 1 .. Len(r) : x <= r[i]
  BY DEF Orderly
<1>5. CASE Arrive(t, s)
  <2>1. /\ 1 \in 1 .. Len(q) /\ q[1] \in Nat
        /\ r = RemoveAt(q, 1) /\ A1 = A \cup {q[1]}
    BY <1>5, EventsArrive
  <2> HIDE DEF q, r, n, n1, A, A1
  <2>2. Drawn(r, q)
    BY <1>1, <2>1, DrawnRemoved
  <2>3. ASSUME NEW i \in 1 .. Len(r)
        PROVE  \E a \in 1 .. Len(q) : r[i] = q[a]
    <3>1. i <= i
      BY <1>1, <2>1, RemoveAtProperties
    <3> QED BY <2>2, <3>1 DEF Drawn
  <2>4. ASSUME NEW i \in 1 .. Len(r), NEW j \in 1 .. Len(r), i <= j PROVE r[i] <= r[j]
    BY <1>0, <2>2, <2>4 DEF Drawn
  <2>5. ASSUME NEW i \in 1 .. Len(r) PROVE r[i] < n1
    BY <1>0, <1>1, <1>2, <2>3
  <2>6. ASSUME NEW x \in A1 PROVE x < n1 /\ \A i \in 1 .. Len(r) : x <= r[i]
    <3>1. x \in Nat
      BY <1>3, <2>1
    <3>2. x < n /\ \A i \in 1 .. Len(q) : x <= q[i]
      <4>1. CASE x \in A
        BY <1>0, <4>1
      <4>2. CASE x = q[1]
        BY <1>0, <1>1, <2>1, <4>2
      <4> QED BY <2>1, <4>1, <4>2
    <3> QED BY <1>1, <1>2, <2>3, <3>1, <3>2
  <2> QED BY <2>4, <2>5, <2>6
<1>6. CASE ~Arrive(t, s) /\ Drawn(r, q)
  <2>1. A1 = A
    BY <1>6, EventsStep
  <2> HIDE DEF q, r, n, n1, A, A1
  <2>3. ASSUME NEW i \in 1 .. Len(r)
        PROVE  \E a \in 1 .. Len(q) : r[i] = q[a]
    <3>1. i \in Int /\ i <= i
      OBVIOUS
    <3> QED BY <1>6, <3>1 DEF Drawn
  <2>4. ASSUME NEW i \in 1 .. Len(r), NEW j \in 1 .. Len(r), i <= j PROVE r[i] <= r[j]
    BY <1>0, <1>6, <2>4 DEF Drawn
  <2>5. ASSUME NEW i \in 1 .. Len(r) PROVE r[i] < n1
    BY <1>0, <1>1, <1>2, <2>3
  <2>6. ASSUME NEW x \in A1 PROVE x < n1 /\ \A i \in 1 .. Len(r) : x <= r[i]
    <3>1. x \in Nat /\ x \in A
      BY <1>3, <2>1
    <3>2. x < n /\ \A i \in 1 .. Len(q) : x <= q[i]
      BY <1>0, <3>1
    <3> QED BY <1>1, <1>2, <2>3, <3>1, <3>2
  <2> QED BY <2>4, <2>5, <2>6
<1>7. CASE /\ ~Arrive(t, s) /\ TxCallback(s)
           /\ r = Append(q, sessions[s][t].seq_number)
  <2>1. A1 = A
    BY <1>7, EventsStep
  <2>2. sessions[s][t].seq_number = n
    <3>1. sessions[s][t] \in Session /\ Numbered(sessions[s][t]) /\ n < MaxPackets
      BY <1>7, TxCallbackEffect DEF TypeOK, SenderType
    <3>2. sessions[s][t].seq_number = n % Word
      BY <3>1 DEF Numbered
    <3>3. n < Word
      BY <1>2, <3>1, BoundsAssumption, WordAssumption
    <3> HIDE DEF n
    <3> QED BY <1>2, <3>2, <3>3, WordAssumption
  <2>3. r = Append(q, n) /\ n1 = n + 1
    BY <1>2, <1>7, <2>2
  <2> HIDE DEF q, r, n, n1, A, A1
  <2>4. /\ Len(r) = Len(q) + 1 /\ r[Len(q) + 1] = n
        /\ \A k \in 1 .. Len(q) : r[k] = q[k]
    BY <1>1, <1>2, <2>3, AppendProperties
  <2>5. ASSUME NEW i \in 1 .. Len(r)
        PROVE  \/ i \in 1 .. Len(q) /\ r[i] = q[i] /\ r[i] \in Nat /\ r[i] < n
               \/ i = Len(q) + 1 /\ r[i] = n
    BY <1>0, <1>1, <2>4
  <2>6. ASSUME NEW i \in 1 .. Len(r), NEW j \in 1 .. Len(r), i <= j PROVE r[i] <= r[j]
    <3>1. CASE j = Len(q) + 1
      <4>1. r[j] = n
        BY <2>4, <3>1
      <4>2. r[i] \in Int /\ r[i] <= n
        BY <1>2, <2>5
      <4> QED BY <4>1, <4>2
    <3>2. CASE j \in 1 .. Len(q)
      <4>1. i \in 1 .. Len(q)
        BY <1>1, <2>4, <2>6, <3>2
      <4> QED BY <1>0, <2>4, <2>6, <3>2, <4>1
    <3> QED BY <2>5, <3>1, <3>2
  <2>7. ASSUME NEW i \in 1 .. Len(r) PROVE r[i] < n1
    BY <1>2, <2>3, <2>5
  <2>8. ASSUME NEW x \in A1 PROVE x < n1 /\ \A i \in 1 .. Len(r) : x <= r[i]
    <3>1. x \in Nat /\ x \in A
      BY <1>3, <2>1
    <3>2. x < n /\ \A i \in 1 .. Len(q) : x <= q[i]
      BY <1>0, <3>1
    <3>3. ASSUME NEW i \in 1 .. Len(r) PROVE x <= r[i]
      BY <1>2, <2>5, <3>1, <3>2
    <3>4. x < n1
      BY <1>2, <3>1, <3>2
    <3> QED BY <3>3, <3>4
  <2> QED BY <2>6, <2>7, <2>8
<1> QED BY <1>5, <1>6, <1>7, ProbesStep

\* Two events of packets that have arrived are as far apart as there are packets
\* that arrived between them.
Spaced(s, t) ==
    \A e, f \in Events(s, t) : e[1] < f[1] =>
        Cardinality({x \in arrived[s][t] : e[1] < x /\ x <= f[1]}) <= f[2] - e[2]

\* While the reflector listens, the next event will be as far from any of them as
\* there are packets that arrived since.
Open(s, t) ==
    t \notin deaf => \A e \in Events(s, t) :
        Cardinality({x \in arrived[s][t] : e[1] < x}) <=
            (Number(s, t) + Waiting(s, t)) - 1 - e[2]

LossInv == \A s \in Senders, t \in Target : Orderly(s, t) /\ Spaced(s, t) /\ Open(s, t)

\* The packets of a pair that have arrived are finitely many.
LEMMA ArrivedFinite ==
    ASSUME TypeOK, NEW s \in Senders, NEW t \in Target, Orderly(s, t)
    PROVE  IsFiniteSet(arrived[s][t]) /\ arrived[s][t] \in SUBSET Nat
<1>1. arrived[s][t] \in SUBSET Nat
  BY DEF TypeOK, NetworkType
<1>2. Len(sessions[s][t].results) \in Nat
  BY CountTypes DEF CountType
<1>3. \A x \in arrived[s][t] : x <= Len(sessions[s][t].results)
  BY <1>1, <1>2 DEF Orderly
<1> QED BY <1>1, <1>2, <1>3, FS_BoundedSetOfNaturals

\* Every step keeps the events of a pair apart.
LEMMA SpacedStep ==
    ASSUME MaxPackets + MaxCopies < Word, "reorder" \notin Faults, "expire" \notin Faults,
           TypeOK, TypeOK', Budget, Reached, [Next]_vars,
           NEW s \in Senders, NEW t \in Target,
           Orderly(s, t), Spaced(s, t), Open(s, t)
    PROVE  Spaced(s, t)' /\ Open(s, t)'
<1> DEFINE A == arrived[s][t]
           A1 == arrived'[s][t]
           E == Events(s, t)
           E1 == Events(s, t)'
           n == Number(s, t) + Waiting(s, t)
           n1 == Number(s, t)' + Waiting(s, t)'
<1>1. \A e, f \in E : e[1] < f[1] =>
        Cardinality({x \in A : e[1] < x /\ x <= f[1]}) <= f[2] - e[2]
  BY DEF Spaced
<1>2. t \notin deaf => \A e \in E : Cardinality({x \in A : e[1] < x}) <= n - 1 - e[2]
  BY DEF Open
<1>3. SUFFICES
        /\ \A e, f \in E1 : e[1] < f[1] =>
             Cardinality({x \in A1 : e[1] < x /\ x <= f[1]}) <= f[2] - e[2]
        /\ t \notin deaf' =>
             \A e \in E1 : Cardinality({x \in A1 : e[1] < x}) <= n1 - 1 - e[2]
  BY DEF Spaced, Open
<1>4. n \in Nat
  BY CountTypes DEF CountType
<1>5. IsFiniteSet(A) /\ A \in SUBSET Nat
  BY ArrivedFinite
<1>6. \A e \in E : e[1] \in Nat /\ e[2] \in Nat /\ e[1] \in A
  BY EventType
<1>7. CASE ~Arrive(t, s)
  <2>1. E1 \subseteq E /\ A1 = A /\ (t \notin deaf' => t \notin deaf /\ n1 = n)
    BY <1>7, EventsStep
  <2> HIDE DEF A, A1, E, E1, n, n1
  <2> QED BY <1>1, <1>2, <2>1
<1>8. CASE Arrive(t, s)
  <2> DEFINE p == probes[s][t][1]
             new == <<p, n>>
  <2>1. /\ p \in Nat /\ A1 = A \cup {p} /\ t \notin deaf /\ E1 \subseteq E \cup {new}
        /\ 1 \in 1 .. Len(probes[s][t])
    BY <1>8, EventsArrive
  <2>2. n1 = n + 1
    <3>1. Number(s, t)' = Number(s, t) /\ Waiting(s, t)' = Waiting(s, t) + 1
      BY <1>8, EventsArrive
    <3>2. Number(s, t) \in Nat /\ Waiting(s, t) \in Nat
      BY CountTypes DEF CountType
    <3> QED BY <3>1, <3>2
  <2>3. \A x \in A : x <= p
    BY <2>1 DEF Orderly
  <2>4. new[1] = p /\ new[2] = n
    OBVIOUS
  <2> HIDE DEF A, A1, E, E1, n, n1, p, new
  <2>5. ASSUME NEW a \in Nat
        PROVE  /\ Cardinality({x \in A : a < x}) \in Nat
               /\ Cardinality({x \in A1 : a < x}) \in Nat
               /\ Cardinality({x \in A1 : a < x}) <= Cardinality({x \in A : a < x}) + 1
    <3> DEFINE B == {x \in A : a < x}
               B1 == {x \in A1 : a < x}
    <3>1. B \in SUBSET A /\ B1 \in SUBSET (B \cup {p})
      BY <2>1
    <3> HIDE DEF B, B1
    <3>2. IsFiniteSet(B) /\ Cardinality(B) \in Nat
      BY <1>5, <3>1, FS_Subset, FS_CardinalityType
    <3>3. IsFiniteSet(B \cup {p}) /\ Cardinality(B \cup {p}) =
            IF p \in B THEN Cardinality(B) ELSE Cardinality(B) + 1
      BY <3>2, FS_AddElement
    <3>4. IsFiniteSet(B1) /\ Cardinality(B1) \in Nat
          /\ Cardinality(B1) <= Cardinality(B \cup {p})
      BY <3>1, <3>3, FS_Subset, FS_CardinalityType
    <3>5. Cardinality(B1) <= Cardinality(B) + 1
      BY <3>2, <3>3, <3>4
    <3> QED BY <3>2, <3>4, <3>5 DEF B, B1
  <2>6. ASSUME NEW e \in E
        PROVE  /\ e[1] \in Nat /\ e[2] \in Nat /\ e[1] \in A /\ e[1] <= p
               /\ Cardinality({x \in A1 : e[1] < x}) \in Nat
               /\ Cardinality({x \in A1 : e[1] < x}) <= n - e[2]
    <3>1. /\ e[1] \in Nat /\ e[2] \in Nat /\ e[1] \in A /\ e[1] <= p
      BY <1>6, <2>3
    <3>2. Cardinality({x \in A : e[1] < x}) <= n - 1 - e[2]
      BY <1>2, <2>1
    <3>3. /\ Cardinality({x \in A : e[1] < x}) \in Nat
          /\ Cardinality({x \in A1 : e[1] < x}) \in Nat
          /\ Cardinality({x \in A1 : e[1] < x}) <= Cardinality({x \in A : e[1] < x}) + 1
      BY <2>5, <3>1
    <3> QED BY <1>4, <3>1, <3>2, <3>3
  <2>7. ASSUME NEW e \in E1, NEW f \in E1, e[1] < f[1]
        PROVE  Cardinality({x \in A1 : e[1] < x /\ x <= f[1]}) <= f[2] - e[2]
    <3>1. e \in E
      <4>1. CASE e = new
        <5>1. f[1] \in Nat /\ f[1] <= p
          <6>1. CASE f = new
            BY <2>1, <2>4, <6>1
          <6>2. CASE f \in E
            BY <2>6, <6>2
          <6> QED BY <2>1, <6>1, <6>2
        <5> QED BY <2>1, <2>4, <2>7, <4>1, <5>1
      <4> QED BY <2>1, <4>1
    <3>2. CASE f = new
      <4>1. {x \in A1 : e[1] < x /\ x <= f[1]} = {x \in A1 : e[1] < x}
        <5>1. \A x \in A1 : x <= f[1]
          BY <2>1, <2>3, <2>4, <3>2
        <5> QED BY <5>1
      <4> QED BY <2>4, <2>6, <3>1, <3>2, <4>1
    <3>3. CASE f \in E
      <4>1. \A x \in A1 : x <= f[1] => x \in A
        <5> SUFFICES ASSUME p <= f[1] PROVE p \in A
          BY <2>1
        <5>1. f[1] \in Nat /\ f[1] \in A /\ f[1] <= p
          BY <2>6, <3>3
        <5>2. f[1] = p
          BY <2>1, <5>1
        <5> QED BY <5>1, <5>2
      <4>2. {x \in A1 : e[1] < x /\ x <= f[1]} = {x \in A : e[1] < x /\ x <= f[1]}
        BY <2>1, <4>1
      <4> QED BY <1>1, <2>7, <3>1, <3>3, <4>2
    <3> QED BY <2>1, <3>2, <3>3
  <2>8. ASSUME NEW e \in E1
        PROVE  Cardinality({x \in A1 : e[1] < x}) <= n1 - 1 - e[2]
    <3>1. CASE e \in E
      <4>1. n1 - 1 - e[2] = n - e[2]
        BY <1>4, <2>2, <2>6, <3>1
      <4> QED BY <2>6, <3>1, <4>1
    <3>2. CASE e = new
      <4>1. {x \in A1 : e[1] < x} = {}
        <5>1. \A x \in A1 : x \in Nat /\ x <= p
          BY <1>5, <2>1, <2>3
        <5>2. \A x \in A1 : ~(e[1] < x)
          BY <2>1, <2>4, <3>2, <5>1
        <5> QED BY <5>2
      <4>2. Cardinality({x \in A1 : e[1] < x}) = 0
        BY <4>1, FS_EmptySet
      <4>3. n1 - 1 - e[2] = 0
        BY <1>4, <2>2, <2>4, <3>2
      <4> QED BY <4>2, <4>3
    <3> QED BY <2>1, <3>1, <3>2
  <2> QED BY <2>7, <2>8
<1> QED BY <1>7, <1>8

\* What follows for the report of a pair, whether its test has finished or not.
LEMMA LossReported ==
    ASSUME MaxPackets + MaxCopies < Word, TypeOK, Reached, LossInv, NEW p \in Pairs
    PROVE  /\ Report(p).forward <= Cardinality(NeverArrived(p))
           /\ Report(p).forward + Report(p).backward = Report(p).total
<1> DEFINE s == p[1]
           t == p[2]
           x == sessions[s][t].results
           n == Len(x)
           A == arrived[s][t]
           L == {k \in 1 .. n : Lost(x[k])}
           forward == LossLoop(x)[n].forward
           total == Cardinality(L)
<1>1. s \in Senders /\ t \in Target
  BY DEF Pairs
<1>2. /\ sessions[s][t] \in Session /\ Numbered(sessions[s][t]) /\ n <= MaxPackets
      /\ A \in SUBSET Nat
  BY <1>1 DEF TypeOK, SenderType, NetworkType
<1>3. /\ x \in Seq(Record) /\ n \in Nat /\ DOMAIN x = 1 .. n
      /\ \A k \in 1 .. n : x[k].reflector_seq \in Nat \cup {None}
  BY <1>2, SessionFields
<1>4. n < Word
  BY <1>2, <1>3, BoundsAssumption, WordAssumption
<1>5. \A k \in 1 .. n : x[k].sender_seq = k - 1
  <2> SUFFICES ASSUME NEW k \in 1 .. n PROVE x[k].sender_seq = k - 1
    OBVIOUS
  <2>1. x[k].sender_seq = (k - 1) % Word
    BY <1>2 DEF Numbered
  <2>2. k - 1 \in 0 .. Word - 1
    <3> HIDE DEF n
    <3> QED BY <1>3, <1>4, WordAssumption
  <2>3. (k - 1) % Word = k - 1
    BY <2>2, WordAssumption
  <2> QED BY <2>1, <2>3
<1>6. ASSUME NEW k \in 1 .. n, ~Lost(x[k])
      PROVE  x[k].reflector_seq \in Nat /\ <<k - 1, x[k].reflector_seq>> \in Events(s, t)
  <2>1. <<x[k].sender_seq, x[k].reflector_seq>> \in Reflections(s, t)
    BY <1>6 DEF Reflections
  <2> QED BY <1>3, <1>5, <1>6, <2>1 DEF Events, Lost
<1>7. ASSUME NEW k \in 1 .. n, ~Lost(x[k]) PROVE k - 1 \in A
  <2>1. <<k - 1, x[k].reflector_seq>> \in Events(s, t)
    BY <1>6, <1>7
  <2> QED BY <1>1, <2>1, EventType
<1>8. ASSUME NEW j \in 1 .. n, NEW k \in 1 .. n, j < k, ~Lost(x[j]), ~Lost(x[k])
      PROVE  Cardinality(Between(A, j, k)) <= x[k].reflector_seq - x[j].reflector_seq
  <2> DEFINE e == <<j - 1, x[j].reflector_seq>>
             f == <<k - 1, x[k].reflector_seq>>
  <2>1. e \in Events(s, t) /\ f \in Events(s, t)
    BY <1>6, <1>8
  <2>2. Spaced(s, t)
    BY <1>1 DEF LossInv
  <2>3. e[1] = j - 1 /\ f[1] = k - 1 /\ e[1] < f[1]
        /\ e[2] = x[j].reflector_seq /\ f[2] = x[k].reflector_seq
    BY <1>3, <1>8
  <2>4. Between(A, j, k) = {a \in arrived[s][t] : e[1] < a /\ a <= f[1]}
    BY <2>3 DEF Between
  <2> HIDE DEF e, f
  <2> QED BY <2>1, <2>2, <2>3, <2>4 DEF Spaced
<1>9. forward \in Nat /\ forward <= Cardinality(Missing(A, n))
  <2> HIDE DEF x, n, A
  <2>1. n = Len(x)
    BY DEF n
  <2> QED BY <1>2, <1>3, <1>5, <1>6, <1>8, <2>1, ForwardBound
<1>10. NeverArrived(p) = Missing(A, n)
  <2>1. DOMAIN results(p) = 1 .. n /\ results(p) = x
    BY <1>3 DEF results
  <2>2. NeverArrived(p) = {k \in 1 .. n : x[k].sender_seq \notin A}
    BY <2>1 DEF NeverArrived
  <2> QED BY <1>5, <2>2 DEF Missing
<1>11. Missing(A, n) \subseteq L
  BY <1>7 DEF Missing
<1>12. /\ total \in Nat /\ total <= n
       /\ Cardinality(Missing(A, n)) \in Nat /\ Cardinality(Missing(A, n)) <= total
  <2>0. IsFiniteSet(1 .. n) /\ Cardinality(1 .. n) = n
    <3>1. 1 \in Int /\ n \in Int /\ (1 > n => n = 0)
      BY <1>3
    <3> HIDE DEF n
    <3> QED BY <1>3, <3>1, FS_Interval
  <2>1. L \in SUBSET (1 .. n)
    OBVIOUS
  <2> HIDE DEF L, n, A
  <2>2. IsFiniteSet(L) /\ Cardinality(L) \in Nat /\ Cardinality(L) <= n
    BY <2>0, <2>1, FS_Subset, FS_CardinalityType
  <2> QED BY <1>11, <2>2, FS_Subset, FS_CardinalityType
<1>13. Ordered(x) = x
  <2> HIDE DEF x
  <2> QED BY <1>3, <1>5, OrderedRecords DEF n
<1>14. Report(p) = [forward |-> forward, backward |-> (total - forward) % Word,
                    total |-> total]
  BY <1>3, <1>13 DEF Report, analyze_packet_loss
<1> HIDE DEF forward, total, n, A, L, x
<1>15. total - forward \in 0 .. Word - 1
  BY <1>3, <1>4, <1>9, <1>12, WordAssumption
<1>16. (total - forward) % Word = total - forward
  BY <1>15, WordAssumption
<1>17. Report(p).forward = forward /\ Report(p).backward = total - forward
       /\ Report(p).total = total
  BY <1>14, <1>16
<1> QED BY <1>9, <1>10, <1>12, <1>17

\* In a network that loses and duplicates but keeps the order, with a reflector that
\* drops no session, the report never counts more packets as lost on the way out
\* than were lost there, and its two directions add up to the total: however the
\* senders share the reflector, whatever waits in its buffer, and when an ICMP error
\* has ended its loop, as long as packets and copies stay below Word.
THEOREM LossReportSound ==
    ASSUME "reorder" \notin Faults, "expire" \notin Faults, MaxPackets + MaxCopies < Word
    PROVE  Spec => []LossSound
<1> DEFINE Inv == Budget /\ Reached /\ LossInv
<1>1. Init => Inv
  <2> SUFFICES ASSUME Init PROVE Inv
    OBVIOUS
  <2>1. ASSUME NEW s \in Senders, NEW t \in Target
        PROVE  /\ reflector[t][s] = None /\ probes[s][t] = <<>> /\ buffer[t] = <<>>
               /\ replies[s][t] = <<>> /\ sessions[s][t].results = <<>> /\ copies = 0
               /\ arrived[s][t] = {}
    BY DEF Init, NewSession
  <2>2. ASSUME NEW s \in Senders, NEW t \in Target
        PROVE  Spent(s, t) <= Sent(s, t) /\ Events(s, t) = {} /\ Reflections(s, t) = {}
    <3>0. From(<<>>, s) = {}
      BY DEF From
    <3>1. From(<<>>, s) = {} /\ Cardinality(From(<<>>, s)) = 0
      BY <3>0, FS_EmptySet
    <3>2. Reflections(s, t) = {} /\ Queued(s, t) = {}
      BY <2>1, <3>1 DEF Reflections, Queued
    <3>3. Spent(s, t) <= Sent(s, t)
      BY <2>1, <3>1 DEF Spent, Sent, Number, Waiting
    <3> QED BY <3>2, <3>3 DEF Events
  <2>3. LossInv
    BY <2>1, <2>2 DEF LossInv, Orderly, Spaced, Open
  <2>4. Reached
    <3>1. \A t \in Target : buffer[t] = <<>>
      BY DEF Init
    <3> QED BY <2>2, <3>1 DEF Reached
  <2> QED BY <2>2, <2>3, <2>4 DEF Budget
<1>2. TypeOK /\ Inv => LossSound
  BY LossReported DEF LossSound
<1>3. TypeOK /\ TypeOK' /\ Inv /\ [Next]_vars => Inv'
  <2> SUFFICES ASSUME TypeOK, TypeOK', Inv, [Next]_vars PROVE Inv'
    OBVIOUS
  <2>1. Budget'
    BY BudgetStep DEF Budget
  <2>2. Reached'
    BY ReachedStep
  <2>3. LossInv'
    BY OrderlyStep, SpacedStep DEF LossInv
  <2> QED BY <2>1, <2>2, <2>3
<1> HIDE DEF Inv
<1> QED BY <1>1, <1>2, <1>3, InitType, NextType, PTL DEF Spec
=============================================================================
