----------------------------- MODULE TwampLight -----------------------------
(***************************************************************************)
(* TWAMP Light: the callbacks of the session sender (twamp_light.rs), the  *)
(* callbacks of the reflector (reflector.rs), and the network between.     *)
(*                                                                         *)
(* A callback runs to its end in the thread of its event loop and is one   *)
(* action.  The sender's callback empties its socket, so that the buffer   *)
(* of that socket is taken as part of the network; the reflector's takes   *)
(* one datagram for an edge, and has its buffer.  The network and the      *)
(* kernel's transmit timestamps are not this repository's code.            *)
(***************************************************************************)
EXTENDS TestSession, FiniteSets

CONSTANTS
    Senders,      \* addresses of the senders' sockets
    Targets,      \* addresses of the reflectors, in the order of "hosts"
    MaxPackets,   \* bound on the packets sent to a target
    MaxCopies,    \* bound on the datagrams the network duplicates
    Faults,       \* what may go wrong: see FaultKinds
    Buffers       \* what becomes of dangling control buffers: see BufferKinds

FaultKinds == {"loss", "copy", "reorder", "expire", "senderr", "icmp"}

\* to_msghdr returns pointers to arrays of its own frame, so where the kernel
\* writes the control data of a message, and what is found there later, is up to
\* the build: a slot for each header, one slot for all of them (the arrays are
\* made in the body of one loop), or a slot that is overwritten before it is read.
BufferKinds == {"apart", "shared", "overwritten"}

Target == ToSet(Targets)

ASSUME FaultsAssumption == Faults \subseteq FaultKinds
ASSUME BuffersAssumption == Buffers \subseteq BufferKinds
ASSUME BoundsAssumption == MaxPackets \in Nat /\ MaxCopies \in Nat
ASSUME TargetsAssumption == Targets \in Seq(Target) \ {<<>>} /\ IsInjective(Targets)
ASSUME NoSessionAssumption == None \notin [seq_number : Nat]

VARIABLES
    phase,      \* of each sender: "sending", "overtime" or "done"
    sessions,   \* of each sender: target -> its session
    unstamped,  \* of each sender: packets the kernel has yet to timestamp
    errqueue,   \* of each sender: timestamps in the socket's error queue
    reflector,  \* of each target: sender -> its session there, or None
    buffer,     \* of each target: <<sender, probe>> in its socket, oldest first
    edge,       \* targets whose loop has an event of the socket to dispatch
    deaf,       \* targets whose loop has dropped the socket
    probes,     \* datagrams on their way out, oldest first
    replies,    \* datagrams on their way back, oldest first
    copies,     \* datagrams duplicated so far
    arrived,    \* probes that reached the reflector's host, for the properties
    expired     \* pairs whose session the reflector has dropped, for the same

socket == <<buffer, edge, deaf>>
vars == <<phase, sessions, unstamped, errqueue, reflector, socket, probes, replies,
          copies, arrived, expired>>

Init ==
    /\ phase = [s \in Senders |-> "sending"]
    /\ sessions = [s \in Senders |-> [t \in Target |-> NewSession]]
    /\ unstamped = [s \in Senders |-> <<>>]
    /\ errqueue = [s \in Senders |-> <<>>]
    /\ reflector = [t \in Target |-> [s \in Senders |-> None]]
    /\ buffer = [t \in Target |-> <<>>] /\ edge = {} /\ deaf = {}
    /\ probes = [s \in Senders |-> [t \in Target |-> <<>>]]
    /\ replies = [s \in Senders |-> [t \in Target |-> <<>>]]
    /\ copies = 0
    /\ arrived = [s \in Senders |-> [t \in Target |-> {}]]
    /\ expired = {}

-----------------------------------------------------------------------------
(* The sender.                                                             *)

Increasing(m, n) == {f \in [1..m -> 1..n] : \A j, k \in 1..m : j < k => f[j] < f[k]}

Subsequences(q) ==
    UNION {{[k \in 1..m |-> q[f[k]]] : f \in Increasing(m, Len(q))} : m \in 0..Len(q)}

\* send_to does not look at the result of sendmsg: the kernel may have taken the
\* probes to some of the targets only, which is all the same to the caller.
Sends == IF "senderr" \in Faults THEN Subsequences(Targets) ELSE {Targets}

\* create_tx_callback, on a tick of the sending timer: one probe to every
\* target.  A refused probe is recorded like any other, and gets no timestamp.
TxCallback(s) ==
    /\ phase[s] = "sending"
    /\ \A t \in Target : Len(sessions[s][t].results) < MaxPackets
    /\ \E sent \in Sends :
         LET seq(t) == sessions[s][t].seq_number
         IN  /\ sessions' = [sessions EXCEPT ![s] =
                  [t \in Target |->
                     add_to_sent(@[t], SentRecord(seq(t), <<t, seq(t)>>))]]
             /\ probes' = [probes EXCEPT ![s] =
                  [t \in Target |-> IF t \in ToSet(sent) THEN Append(@[t], seq(t))
                                    ELSE @[t]]]
             /\ unstamped' = [unstamped EXCEPT ![s] =
                  @ \o [k \in DOMAIN sent |-> <<sent[k], seq(sent[k])>>]]
    /\ UNCHANGED <<phase, errqueue, reflector, socket, replies, copies, arrived, expired>>

\* Every i-th of the timestamps, n apart: skip(i).step_by(n).
StepBy(stamps, i, n) ==
    [k \in 1 .. (Len(stamps) - i + n) \div n |-> stamps[i + (k - 1) * n]]

MAX_MSG == 2

\* retrieve_data_from_header on the k-th header, counted over all calls of
\* recvmmsg, when the headers of a call share a slot: the timestamp of the last
\* message of its call, also in a header that recvmmsg did not fill.
retrieve_data_from_header(queue, k) ==
    LET call == (k - 1) \div MAX_MSG + 1 IN queue[Min({MAX_MSG * call, Len(queue)})]

\* retrieve_tx_timestamps, called until the error queue is empty: what is found in
\* the MAX_MSG headers of one recvmmsg after another.
retrieve_tx_timestamps(queue, how) ==
    LET calls == (Len(queue) + MAX_MSG - 1) \div MAX_MSG
    IN  CASE how = "apart"       -> queue
          [] how = "shared"      -> [k \in 1 .. MAX_MSG * calls |->
                                       retrieve_data_from_header(queue, k)]
          [] how = "overwritten" -> <<>>

\* create_tx_correct_callback, on a tick of the correction timer: the error
\* queue is emptied and its timestamps are dealt out to the targets in turn.
\* The timer is an overtime exception, so it ticks until the loop ends.
TxCorrectCallback(s) ==
    /\ phase[s] # "done" /\ errqueue[s] # <<>>
    /\ errqueue' = [errqueue EXCEPT ![s] = <<>>]
    /\ \E how \in Buffers :
         LET tx_timestamps == retrieve_tx_timestamps(errqueue[s], how)
             i(t) == SelectInSeq(Targets, LAMBDA u : u = t)
         IN  sessions' = [sessions EXCEPT ![s] =
                [t \in Target |-> update_tx_timestamps(@[t],
                    StepBy(tx_timestamps, i(t), Len(Targets)))]]
    /\ UNCHANGED <<phase, unstamped, reflector, socket, probes, replies, copies,
                   arrived, expired>>

\* Positions of a queue from which the network may deliver next.
Deliverable(queue) ==
    IF "reorder" \in Faults THEN DOMAIN queue ELSE DOMAIN queue \cap {1}

\* create_rx_callback takes the datagrams that are there, one after another.
RxCallback(s, t) ==
    /\ phase[s] # "done"
    /\ \E i \in Deliverable(replies[s][t]) :
          /\ sessions' = [sessions EXCEPT ![s][t] =
                add_to_received(@, replies[s][t][i])]
          /\ replies' = [replies EXCEPT ![s][t] = RemoveAt(@, i)]
    /\ UNCHANGED <<phase, unstamped, errqueue, reflector, socket, probes, copies,
                   arrived, expired>>

\* The deadline stops the sending timer; the overtime timer ends the loop.
Deadline(s) ==
    /\ phase[s] = "sending"
    /\ phase' = [phase EXCEPT ![s] = "overtime"]
    /\ UNCHANGED <<sessions, unstamped, errqueue, reflector, socket, probes, replies,
                   copies, arrived, expired>>

Finish(s) ==
    /\ phase[s] = "overtime"
    /\ phase' = [phase EXCEPT ![s] = "done"]
    /\ UNCHANGED <<sessions, unstamped, errqueue, reflector, socket, probes, replies,
                   copies, arrived, expired>>

-----------------------------------------------------------------------------
(* The reflector.                                                          *)

\* Mutant: the session found for the sender is not advanced.
Reflected_found_same_seq(session) ==
    IF session = None THEN [seq_number |-> 1] ELSE session

\* The session after a reflection: found or new, its sequence number counts the
\* packets it has reflected.
Reflected(session) ==
    IF session = None THEN [seq_number |-> 1]
    ELSE [seq_number |-> (session.seq_number + 1) % Word]

\* The reply carries the number the session had before.
ReflectedMessage(probe, session) ==
    [sender_seq |-> probe,
     reflector_seq |-> IF session = None THEN 0 ELSE session.seq_number]

\* A probe reaches the socket, and is an edge for the loop.
Arrive(t, s) ==
    /\ t \notin deaf
    /\ \E i \in Deliverable(probes[s][t]) :
          /\ buffer' = [buffer EXCEPT ![t] = Append(@, <<s, probes[s][t][i]>>)]
          /\ probes' = [probes EXCEPT ![s][t] = RemoveAt(@, i)]
          /\ arrived' = [arrived EXCEPT ![s][t] = @ \cup {probes[s][t][i]}]
    /\ edge' = edge \cup {t}
    /\ UNCHANGED <<phase, sessions, unstamped, errqueue, reflector, deaf, replies,
                   copies, expired>>

\* rx_callback: the oldest datagram is taken, answered, and recorded in its
\* session; what else is in the buffer waits for another edge.
ReflectorRxCallback(t) ==
    /\ t \in edge /\ buffer[t] # <<>>
    /\ edge' = edge \ {t}
    /\ LET s     == Head(buffer[t])[1]
           reply == ReflectedMessage(Head(buffer[t])[2], reflector[t][s])
       IN  /\ buffer' = [buffer EXCEPT ![t] = Tail(@)]
           /\ reflector' = [reflector EXCEPT ![t][s] = Reflected(@)]
           /\ replies' = [replies EXCEPT ![s][t] = Append(@, reply)]
    /\ UNCHANGED <<phase, sessions, unstamped, errqueue, deaf, probes, copies, arrived,
                   expired>>

\* A reply to a socket that is closed comes back as an ICMP error, which
\* IP_RECVERR makes an error of the next recvmsg.  The callback returns it, and
\* the loop drops its only source.
ReflectorRxError(t) ==
    /\ "icmp" \in Faults /\ t \notin deaf
    /\ \E s \in Senders : phase[s] = "done" /\ replies[s][t] # <<>>
    /\ deaf' = deaf \cup {t}
    /\ buffer' = [buffer EXCEPT ![t] = <<>>] /\ edge' = edge \ {t}
    /\ UNCHANGED <<phase, sessions, unstamped, errqueue, reflector, probes, replies,
                   copies, arrived, expired>>

\* cleanup_stale_sessions, once a second: a session that has reflected nothing
\* for longer than ref_wait is dropped.
CleanupStaleSessions(t) ==
    /\ "expire" \in Faults
    /\ \E stale \in SUBSET {s \in Senders : reflector[t][s] # None} :
          /\ stale # {}
          /\ reflector' = [reflector EXCEPT ![t] =
                [s \in Senders |-> IF s \in stale THEN None ELSE @[s]]]
          /\ expired' = expired \cup (stale \X {t})
    /\ UNCHANGED <<phase, sessions, unstamped, errqueue, socket, probes, replies,
                   copies, arrived>>

-----------------------------------------------------------------------------
(* The network and the kernel.                                             *)

\* The kernel timestamps the packets of a socket in the order they were sent.
Stamp(s) ==
    /\ unstamped[s] # <<>> /\ phase[s] # "done"
    /\ errqueue' = [errqueue EXCEPT ![s] = Append(@, Head(unstamped[s]))]
    /\ unstamped' = [unstamped EXCEPT ![s] = Tail(@)]
    /\ UNCHANGED <<phase, sessions, reflector, socket, probes, replies, copies, arrived,
                   expired>>

LoseProbe(s, t) ==
    /\ "loss" \in Faults
    /\ \E i \in DOMAIN probes[s][t] :
          probes' = [probes EXCEPT ![s][t] = RemoveAt(@, i)]
    /\ UNCHANGED <<phase, sessions, unstamped, errqueue, reflector, socket, replies,
                   copies, arrived, expired>>

LoseReply(s, t) ==
    /\ "loss" \in Faults
    /\ \E i \in DOMAIN replies[s][t] :
          replies' = [replies EXCEPT ![s][t] = RemoveAt(@, i)]
    /\ UNCHANGED <<phase, sessions, unstamped, errqueue, reflector, socket, probes,
                   copies, arrived, expired>>

\* The queue in which one datagram is there twice.
Copied(queue, i) == InsertAt(queue, i, queue[i])

CopyProbe(s, t) ==
    /\ "copy" \in Faults /\ copies < MaxCopies
    /\ \E i \in DOMAIN probes[s][t] :
          probes' = [probes EXCEPT ![s][t] = Copied(@, i)]
    /\ copies' = copies + 1
    /\ UNCHANGED <<phase, sessions, unstamped, errqueue, reflector, socket, replies,
                   arrived, expired>>

CopyReply(s, t) ==
    /\ "copy" \in Faults /\ copies < MaxCopies
    /\ \E i \in DOMAIN replies[s][t] :
          replies' = [replies EXCEPT ![s][t] = Copied(@, i)]
    /\ copies' = copies + 1
    /\ UNCHANGED <<phase, sessions, unstamped, errqueue, reflector, socket, probes,
                   arrived, expired>>

Done == (\A s \in Senders : phase[s] = "done") /\ UNCHANGED vars

Next ==
    \/ \E s \in Senders :
          TxCallback(s) \/ TxCorrectCallback(s) \/ Deadline(s) \/ Finish(s) \/ Stamp(s)
    \/ \E s \in Senders, t \in Target :
          \/ RxCallback(s, t) \/ Arrive(t, s)
          \/ LoseProbe(s, t) \/ LoseReply(s, t)
          \/ CopyProbe(s, t) \/ CopyReply(s, t)
    \/ \E t \in Target :
          ReflectorRxCallback(t) \/ ReflectorRxError(t) \/ CleanupStaleSessions(t)
    \/ Done

Spec == Init /\ [][Next]_vars

-----------------------------------------------------------------------------
(* Properties.                                                             *)

Record == [sender_seq : Nat, reflector_seq : Nat \cup {None}, t1 : Target \X Nat]

Session == [seq_number : Nat, results : Seq(Record), last_updated : Nat]

\* A session of a sender holds one record per packet, numbered from zero in the
\* order of sending, and no more of them have been timestamped than sent.
Numbered(session) ==
    LET n == Len(session.results) IN
    /\ session.seq_number = n % Word
    /\ \A k \in 1..n : session.results[k].sender_seq = (k - 1) % Word
    /\ session.last_updated <= n

SenderType ==
    /\ phase \in [Senders -> {"sending", "overtime", "done"}]
    /\ sessions \in [Senders -> [Target -> Session]]
    /\ \A s \in Senders, t \in Target :
         Numbered(sessions[s][t]) /\ Len(sessions[s][t].results) <= MaxPackets
    /\ unstamped \in [Senders -> Seq(Target \X Nat)]
    /\ errqueue \in [Senders -> Seq(Target \X Nat)]

ReflectorType ==
    /\ reflector \in [Target -> [Senders -> [seq_number : Nat] \cup {None}]]
    /\ buffer \in [Target -> Seq(Senders \X Nat)]
    /\ edge \subseteq Target /\ deaf \subseteq Target
    /\ expired \subseteq Senders \X Target

ReplyType == [sender_seq : Nat, reflector_seq : Nat]

Queues(datagrams) == [Senders -> [Target -> Seq(datagrams)]]

NetworkType ==
    /\ probes \in Queues(Nat) /\ replies \in Queues(ReplyType)
    /\ arrived \in [Senders -> [Target -> SUBSET Nat]]
    /\ copies \in 0..MaxCopies

\* Every variable keeps to its type, whatever the network does.
TypeOK == SenderType /\ ReflectorType /\ NetworkType

Pairs == Senders \X Target

results(p) == sessions[p[1]][p[2]].results

\* Two packets are never reflected under the same number, with loss, reordering
\* and duplication in both directions, as long as the reflector has not dropped
\* the session: what the loss analysis reads as the reflector's order is one.
ReflectionsDistinct ==
    \A p \in Pairs \ expired : \A j, k \in DOMAIN results(p) :
        (j # k /\ ~Lost(results(p)[j])) =>
            results(p)[j].reflector_seq # results(p)[k].reflector_seq

\* A record is only taken for answered if its packet reached the reflector: the
\* reflection of another packet, or of another target, is never recorded on it.
AnsweredArrived ==
    \A p \in Pairs : \A k \in DOMAIN results(p) :
        ~Lost(results(p)[k]) =>
            results(p)[k].sender_seq \in arrived[p[1]][p[2]]

Report(p) == analyze_packet_loss(sessions[p[1]][p[2]])

NeverArrived(p) ==
    {k \in DOMAIN results(p) : results(p)[k].sender_seq \notin arrived[p[1]][p[2]]}

\* In a network that keeps the order, the report of a finished test never counts
\* more packets as lost on the way out than were lost there, those left in the
\* reflector's buffer not among them, and its two directions add up to the total.
LossSound ==
    \A p \in Pairs : phase[p[1]] = "done" =>
        /\ Report(p).forward <= Cardinality(NeverArrived(p))
        /\ Report(p).forward + Report(p).backward = Report(p).total

-----------------------------------------------------------------------------
(* What comments of the code say, and the code does not do.                *)

\* "Returns a tuple containing the counts of forward, backward, and total lost
\* packets": the directions add up to the total.
LossAddsUp ==
    \A p \in Pairs : phase[p[1]] = "done" =>
        Report(p).forward + Report(p).backward = Report(p).total

\* "Timestamps are ordered by target and then by sequence number so to update the
\* correct ones, we need to iterate through the sessions in the same order": a
\* timestamp taken by the kernel is given to the packet it was taken for.
StampsAligned ==
    \A p \in Pairs : \A k \in DOMAIN results(p) :
        results(p)[k].t1 = <<p[2], results(p)[k].sender_seq>>
=============================================================================
