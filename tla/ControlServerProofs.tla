------------------------- MODULE ControlServerProofs -------------------------
(***************************************************************************)
(* Proofs about the control server, for any number of clients, of          *)
(* descriptors and of clients that are killed, and for every setting of    *)
(* ports.                                                                  *)
(***************************************************************************)
EXTENDS ControlServer, BasicFacts

-----------------------------------------------------------------------------
(* The inductive invariant.                                                *)

Owner == {None} \cup ({"tcp", "udp"} \X Clients)

ControlSession == [id : Nat, state : {"Negotiation", "Monitor"}, client : Clients]

WorkerMessage(F) ==
    [kind : {"Register"}, fd : F] \cup [kind : {"Clean"}, fd : {None}]

\* The client and the two streams of its connection.
StreamType ==
    /\ cstate \in [Clients -> SenderSessionState] /\ running \subseteq Clients
    /\ toClient \in [Clients -> Seq(Messages)] /\ toServer \in [Clients -> Seq(Messages)]
    /\ left \in [Clients -> {"no", "fin", "rst"}] /\ cedge \subseteq Clients
    /\ backlog \in Seq(Clients)

\* The two threads of the server, which know each other's descriptors by number.
ServerType ==
    /\ Fds \subseteq Nat \ {0} /\ owner \in [Fds -> Owner]
    /\ sessions \in Seq(ControlSession)
    /\ thread \in {"starting", "drain", "dispatch", "stopping", "accepting", "ended"}
    /\ thread \in {"stopping", "accepting"} => replyFd \in Fds
    /\ inbox \in Seq(Fds) /\ batch \subseteq Fds \cup {Listener}
    /\ polled \subseteq Fds /\ ready \subseteq polled \cup {Listener}
    /\ winbox \in Seq(WorkerMessage(Fds)) /\ wsources \subseteq Fds
    /\ held \in {"no", "control", "worker"}

Types == StreamType /\ ServerType

\* A client has one connection at most, none before it is accepted, and is in the
\* accept queue once.
ConnectedOnce ==
    /\ \A f, g \in Fds : \A c \in Clients :
          owner[f] = <<"tcp", c>> /\ owner[g] = <<"tcp", c>> => f = g
    /\ \A f \in Fds, c \in Clients : owner[f] = <<"tcp", c>> => cstate[c] # "idle"
    /\ \A i \in 1 .. Len(backlog) :
          /\ cstate[backlog[i]] = "AwaitingServerGreeting"
          /\ \A f \in Fds : owner[f] # <<"tcp", backlog[i]>>
          /\ \A j \in 1 .. Len(backlog) : backlog[i] = backlog[j] => i = j

\* What is polled is open, and there is a session for what is polled or about to be.
PolledOpen ==
    /\ \A f \in polled : owner[f] # None
    /\ \A f \in polled \cup ToSet(inbox) :
          \E i \in 1 .. Len(sessions) : sessions[i].id = f

TablesInv == ConnectedOnce /\ PolledOpen

\* The message that a client in each state has sent last.
Asked ==
    [AwaitingServerStart |-> "ClientSetupResponse",
     AwaitingSessionAcceptance |-> "RequestTwSession",
     AwaitingStartAck |-> "StartSessions", TestInProgress |-> "StopSessions"]

\* One message is under way between a client and the server at most, and it is the
\* one that the client's state stands for.  An edge of the client has a message or
\* the end of the stream behind it, and a client in its test has nothing under way.
Turns(c) ==
    /\ toServer[c] # <<>> => /\ cstate[c] \in DOMAIN Asked
                             /\ toServer[c] = <<Asked[cstate[c]]>>
                             /\ toClient[c] = <<>>
    /\ toClient[c] # <<>> => /\ cstate[c] \in DOMAIN Expected
                             /\ toClient[c] = <<Expected[cstate[c]]>>
    /\ cstate[c] = "idle" \/ c \in ToSet(backlog) => toClient[c] = <<>> /\ c \notin cedge
    /\ c \in cedge => toClient[c] # <<>> \/ Connection(c) = {}
    /\ c \in running => /\ cstate[c] = "TestInProgress"
                        /\ toServer[c] = <<>> \/ Connection(c) = {}

\* The session that the control thread is about to accept is one whose client is
\* waiting for that and for nothing else.
Accepting(c) ==
    thread = "accepting" /\ owner[replyFd] = <<"tcp", c>> =>
        /\ cstate[c] = "AwaitingSessionAcceptance"
        /\ toClient[c] = <<>> /\ toServer[c] = <<>>

StepInv == \A c \in Clients : Turns(c) /\ Accepting(c)

ServerInv == Types /\ TablesInv /\ StepInv

-----------------------------------------------------------------------------
(* Helpers.                                                                *)

\* The kernel gives out a free number.
LEMMA LowestIsFree ==
    ASSUME ServerType, Free # {}
    PROVE  Lowest(Free) \in Free
<1>1. Free \in SUBSET Nat
  BY DEF ServerType, Free
<1>2. Min(Free) \in Free /\ \A g \in Free : Min(Free) <= g
  BY <1>1, MinProperties
<1> QED BY <1>2 DEF Lowest

\* Found is zero, or the place of a session with that number; it is not zero if
\* there is one.
LEMMA FoundPlace ==
    ASSUME ServerType, NEW f
    PROVE  /\ Found(f) # 0 => Found(f) \in 1 .. Len(sessions) /\ sessions[Found(f)].id = f
           /\ (\E i \in 1 .. Len(sessions) : sessions[i].id = f) => Found(f) # 0
<1> DEFINE I == {i \in 1 .. Len(sessions) : sessions[i].id = f}
<1>1. Found(f) = IF I # {} THEN Min(I) ELSE 0
  BY DEF Found, SelectInSeq
<1>2. I \in SUBSET Nat /\ 0 \notin I
  BY LenProperties DEF ServerType
<1>3. I # {} => Min(I) \in I
  <2> HIDE DEF I
  <2> QED BY <1>2, MinProperties
<1> QED BY <1>1, <1>2, <1>3

\* The elements of a sequence.
LEMMA SequenceRange ==
    ASSUME NEW S, NEW q \in Seq(S)
    PROVE  ToSet(q) = {q[i] : i \in 1 .. Len(q)} /\ ToSet(q) \subseteq S
  BY LenProperties, ElementOfSeq DEF ToSet

\* The first element of a sequence and the rest.
LEMMA HeadAndTail ==
    ASSUME NEW S, NEW q \in Seq(S), q # <<>>
    PROVE  /\ Head(q) = q[1] /\ Head(q) \in S /\ Head(q) \in ToSet(q) /\ 1 \in 1 .. Len(q)
           /\ Tail(q) \in Seq(S) /\ ToSet(Tail(q)) \subseteq ToSet(q)
           /\ \A i \in 1 .. Len(Tail(q)) : i + 1 \in 1 .. Len(q) /\ Tail(q)[i] = q[i + 1]
<1>1. /\ Head(q) = q[1] /\ Head(q) \in S /\ Tail(q) \in Seq(S)
      /\ Len(q) \in Nat /\ Len(q) > 0 /\ Len(Tail(q)) = Len(q) - 1
      /\ \A i \in 1 .. Len(Tail(q)) : Tail(q)[i] = q[i + 1]
  BY HeadTailProperties, LenProperties, EmptySeq
<1>2. 1 \in 1 .. Len(q) /\ \A i \in 1 .. Len(Tail(q)) : i + 1 \in 1 .. Len(q)
  BY <1>1
<1>3. ToSet(q) = {q[i] : i \in 1 .. Len(q)}
  BY SequenceRange
<1>4. ToSet(Tail(q)) = {Tail(q)[i] : i \in 1 .. Len(Tail(q))}
  BY <1>1, SequenceRange
<1>5. ToSet(Tail(q)) \subseteq ToSet(q)
  BY <1>1, <1>2, <1>3, <1>4
<1> QED BY <1>1, <1>2, <1>3, <1>5

\* An element added at the end.
LEMMA AppendedElements ==
    ASSUME NEW S, NEW q \in Seq(S), NEW x \in S
    PROVE  /\ Append(q, x) \in Seq(S) /\ ToSet(Append(q, x)) = ToSet(q) \cup {x}
           /\ \A i \in 1 .. Len(q) : i \in 1 .. Len(Append(q, x)) /\ Append(q, x)[i] = q[i]
           /\ Len(q) + 1 \in 1 .. Len(Append(q, x)) /\ Append(q, x)[Len(q) + 1] = x
<1> DEFINE r == Append(q, x)
<1>1. /\ r \in Seq(S) /\ Len(q) \in Nat /\ Len(r) = Len(q) + 1
      /\ \A i \in 1 .. Len(q) : r[i] = q[i]
      /\ r[Len(q) + 1] = x
  BY AppendProperties, LenProperties
<1> HIDE DEF r
<1>2. /\ \A i \in 1 .. Len(q) : i \in 1 .. Len(r)
      /\ Len(q) + 1 \in 1 .. Len(r)
      /\ \A i \in 1 .. Len(r) : i \in 1 .. Len(q) \/ i = Len(q) + 1
  BY <1>1
<1>3. ToSet(q) = {q[i] : i \in 1 .. Len(q)}
  BY SequenceRange
<1>4. ToSet(r) = {r[i] : i \in 1 .. Len(r)}
  BY <1>1, SequenceRange
<1>5. ToSet(r) \subseteq ToSet(q) \cup {x}
  BY <1>1, <1>2, <1>3, <1>4
<1>6. ToSet(q) \cup {x} \subseteq ToSet(r)
  BY <1>1, <1>2, <1>3, <1>4
<1>7. ToSet(r) = ToSet(q) \cup {x}
  BY <1>5, <1>6
<1> QED BY <1>1, <1>2, <1>7 DEF r

\* The empty sequence, and what appending to it gives.
LEMMA OneMessage ==
    ASSUME NEW S, NEW m
    PROVE  /\ <<>> \in Seq(S) /\ Append(<<>>, m) = <<m>> /\ <<m>> # <<>>
           /\ \A q \in Seq(S) : Append(q, m) # <<>>
<1>1. <<>> \in Seq(S) /\ Append(<<>>, m) = <<m>>
  OBVIOUS
<1>2. <<m>> # <<>>
  <2>1. Len(<<m>>) = 1 /\ Len(<<>>) = 0
    OBVIOUS
  <2> QED BY <2>1
<1>3. ASSUME NEW q \in Seq(S) PROVE Append(q, m) # <<>>
  <2>1. Len(Append(q, m)) = Len(q) + 1 /\ Len(q) \in Nat /\ Len(<<>>) = 0
    OBVIOUS
  <2> QED BY <2>1
<1> QED BY <1>1, <1>2, <1>3

\* What a request does: it may be lost, and is an edge if it is not.
LEMMA RequestEffect ==
    ASSUME Types, NEW c \in Clients, NEW m \in Messages, Request(c, m)
    PROVE  /\ toServer' \in [Clients -> Seq(Messages)]
           /\ \A d \in Clients : d # c => toServer'[d] = toServer[d]
           /\ \/ Connection(c) = {} /\ toServer' = toServer
              \/ Connection(c) # {} /\ toServer'[c] = Append(toServer[c], m)
           /\ ready' \subseteq ready \cup polled /\ ready \subseteq ready'
           /\ \A f \in Fds : f \in ready' => f \in ready \/ owner[f] = <<"tcp", c>>
<1>1. toServer[c] \in Seq(Messages) /\ toServer \in [Clients -> Seq(Messages)]
  BY DEF Types, StreamType
<1>2. Append(toServer[c], m) \in Seq(Messages)
  BY <1>1, AppendProperties
<1>3. CASE Connection(c) = {}
  BY <1>1, <1>3 DEF Request
<1>4. CASE Connection(c) # {}
  <2>1. toServer' = [toServer EXCEPT ![c] = Append(toServer[c], m)]
    BY <1>4 DEF Request
  <2>2. /\ toServer' \in [Clients -> Seq(Messages)]
        /\ toServer'[c] = Append(toServer[c], m)
        /\ \A d \in Clients : d # c => toServer'[d] = toServer[d]
    BY <1>1, <1>2, <2>1
  <2> QED BY <1>4, <2>2 DEF Request, Connection
<1> QED BY <1>3, <1>4

-----------------------------------------------------------------------------
(* The client's steps.                                                     *)

\* A client that connects is in the queue once.
LEMMA ConnectKeeps == ASSUME ServerInv, NEW c \in Clients, Connect(c) PROVE ServerInv'
<1> DEFINE q == backlog
<1>t. Types /\ TablesInv /\ StepInv
  BY DEF ServerInv
<1>0. /\ UNCHANGED <<running, cedge, toClient, toServer, left, sessions, thread, inbox,
                     batch, replyFd, owner, polled, winbox, wsources, worker, held>>
      /\ cstate[c] = "idle" /\ cstate' = [cstate EXCEPT ![c] = "AwaitingServerGreeting"]
      /\ ready \subseteq ready' /\ ready' \subseteq ready \cup {Listener}
  BY DEF Connect, streamVars, controlVars, workerVars
<1>1. /\ q \in Seq(Clients) /\ Len(q) \in Nat /\ backlog' \in Seq(Clients)
      /\ Len(backlog') = Len(q) + 1
      /\ \A i \in 1 .. Len(q) : backlog'[i] = q[i] /\ q[i] \in Clients
      /\ backlog'[Len(q) + 1] = c
  <2>1. q \in Seq(Clients) /\ backlog' = Append(q, c)
    BY <1>t DEF Connect, Types, StreamType
  <2> HIDE DEF q
  <2> QED BY <2>1, AppendProperties, LenProperties, ElementOfSeq
<1> HIDE DEF q
<1>2. Types'
  BY <1>t, <1>0, <1>1 DEF Types, StreamType, ServerType, SenderSessionState, Fds
<1>3. \A i \in 1 .. Len(q) : q[i] # c /\ cstate'[q[i]] = "AwaitingServerGreeting"
  BY <1>t, <1>0, <1>1 DEF Types, StreamType, TablesInv, ConnectedOnce, q
<1>4. \A f \in Fds : owner[f] # <<"tcp", c>>
  BY <1>t, <1>0 DEF TablesInv, ConnectedOnce
<1>5. ConnectedOnce'
  <2>1. ASSUME NEW i \in 1 .. Len(backlog')
        PROVE  /\ cstate'[backlog'[i]] = "AwaitingServerGreeting"
               /\ \A f \in Fds : owner[f] # <<"tcp", backlog'[i]>>
               /\ \A j \in 1 .. Len(backlog') : backlog'[i] = backlog'[j] => i = j
    <3>1. CASE i \in 1 .. Len(q)
      BY <1>t, <1>1, <1>3, <3>1 DEF TablesInv, ConnectedOnce, q
    <3>2. CASE i = Len(q) + 1
      <4>1. backlog'[i] = c /\ cstate'[c] = "AwaitingServerGreeting"
        BY <1>t, <1>0, <1>1, <3>2 DEF Types, StreamType
      <4>2. \A j \in 1 .. Len(backlog') : j \in 1 .. Len(q) \/ j = i
        BY <1>1, <3>2
      <4>3. \A j \in 1 .. Len(q) : backlog'[j] # c
        BY <1>1, <1>3
      <4> QED BY <1>4, <4>1, <4>2, <4>3
    <3>3. i \in 1 .. Len(q) \/ i = Len(q) + 1
      BY <1>1
    <3> QED BY <3>1, <3>2, <3>3
  <2>2. \A d \in Clients : cstate[d] # "idle" => cstate'[d] # "idle"
    BY <1>t, <1>0 DEF Types, StreamType
  <2> QED BY <1>t, <1>0, <2>1, <2>2 DEF TablesInv, ConnectedOnce, Fds
<1>6. TablesInv'
  BY <1>t, <1>0, <1>5 DEF TablesInv, PolledOpen
<1>7. ASSUME NEW d \in Clients PROVE (Turns(d) /\ Accepting(d))'
  <2>1. Turns(d) /\ Accepting(d)
    BY <1>t DEF StepInv
  <2>2. CASE d = c
    <3>1. toClient[c] = <<>> /\ toServer[c] = <<>> /\ c \notin cedge /\ c \notin running
      BY <1>0, <2>1, <2>2 DEF Turns, Asked
    <3>2. owner[replyFd] # <<"tcp", c>> \/ thread # "accepting"
      BY <1>t, <1>0, <2>1, <2>2 DEF Accepting
    <3> QED BY <1>0, <2>2, <3>1, <3>2 DEF Turns, Accepting
  <2>3. CASE d # c
    <3>1. cstate'[d] = cstate[d]
      BY <1>0, <2>3
    <3>2. d \in ToSet(backlog') => d \in ToSet(backlog)
      <4>1. /\ ToSet(backlog') = {backlog'[i] : i \in 1 .. Len(backlog')}
            /\ ToSet(q) = {q[i] : i \in 1 .. Len(q)}
        BY <1>1, SequenceRange
      <4>2. \A i \in 1 .. Len(backlog') : i \in 1 .. Len(q) \/ i = Len(q) + 1
        BY <1>1
      <4>3. \A i \in 1 .. Len(backlog') : backlog'[i] = d => d \in ToSet(q)
        BY <1>1, <2>3, <4>1, <4>2
      <4> QED BY <4>1, <4>3 DEF q
    <3> QED BY <1>0, <2>1, <3>1, <3>2 DEF Turns, Accepting, Connection, Fds
  <2> QED BY <2>2, <2>3
<1>9. StepInv'
  BY <1>7 DEF StepInv
<1> QED BY <1>2, <1>6, <1>9 DEF ServerInv

\* A client that reads a message and answers it: the message was the one under
\* way, so that its answer is.
LEMMA ClientAnswersKeeps ==
    ASSUME ServerInv, NEW c \in Clients, ClientAnswers(c) PROVE ServerInv'
<1>t. Types /\ TablesInv /\ StepInv
  BY DEF ServerInv
<1> DEFINE m == Answer[cstate[c]][1]
           next == Answer[cstate[c]][2]
<1>0. /\ UNCHANGED <<running, left, sessions, thread, inbox, batch, replyFd, backlog,
                     owner, polled, winbox, wsources, worker, held>>
      /\ cedge' = cedge \ {c} /\ toClient[c] # <<>>
      /\ toClient' = [toClient EXCEPT ![c] = <<>>]
      /\ cstate' = [cstate EXCEPT ![c] = next]
      /\ cstate[c] \in DOMAIN Answer /\ left[c] = "no"
      /\ Request(c, m)
  BY DEF ClientAnswers, Readable, controlVars, workerVars
<1>1. /\ m \in Messages /\ next \in SenderSessionState
      /\ next \in DOMAIN Asked /\ m = Asked[next] /\ next # "TestInProgress"
      /\ cstate[c] # "idle" /\ next # "idle" /\ cstate[c] # "TestInProgress"
  BY <1>0 DEF Answer, Messages, SenderSessionState, Asked
<1> HIDE DEF m, next
<1>2. /\ toServer' \in [Clients -> Seq(Messages)]
      /\ \A d \in Clients : d # c => toServer'[d] = toServer[d]
      /\ \/ Connection(c) = {} /\ toServer' = toServer
         \/ Connection(c) # {} /\ toServer'[c] = Append(toServer[c], m)
      /\ ready' \subseteq ready \cup polled /\ ready \subseteq ready'
      /\ \A f \in Fds : f \in ready' => f \in ready \/ owner[f] = <<"tcp", c>>
  BY <1>t, <1>0, <1>1, RequestEffect
<1>3. Turns(c) /\ toServer[c] = <<>> /\ Accepting(c)
  BY <1>t, <1>0 DEF StepInv, Turns
<1>4. /\ cstate'[c] = next /\ toClient'[c] = <<>>
      /\ \A d \in Clients : d # c => cstate'[d] = cstate[d] /\ toClient'[d] = toClient[d]
  BY <1>t, <1>0 DEF Types, StreamType
<1>5. Types'
  <2>1. toClient' \in [Clients -> Seq(Messages)]
    BY <1>t, <1>0, OneMessage DEF Types, StreamType
  <2>2. StreamType'
    BY <1>t, <1>0, <1>1, <1>2, <2>1 DEF Types, StreamType
  <2>3. ready' \subseteq polled \cup {Listener}
    BY <1>t, <1>2 DEF Types, ServerType
  <2> QED BY <1>t, <1>0, <2>2, <2>3 DEF Types, ServerType, Fds
<1>6. TablesInv'
  <2>1. c \notin ToSet(backlog)
    BY <1>0, <1>3 DEF Turns
  <2>2. \A i \in 1 .. Len(backlog) : backlog[i] \in Clients /\ backlog[i] # c
    BY <1>t, <2>1, SequenceRange DEF Types, StreamType
  <2>3. \A i \in 1 .. Len(backlog) : cstate'[backlog[i]] = cstate[backlog[i]]
    BY <1>4, <2>2
  <2>4. \A d \in Clients : cstate[d] # "idle" => cstate'[d] # "idle"
    BY <1>1, <1>4
  <2>5. ConnectedOnce'
    BY <1>t, <1>0, <2>3, <2>4 DEF TablesInv, ConnectedOnce, Fds
  <2> QED BY <1>t, <1>0, <2>5 DEF TablesInv, PolledOpen
<1>7. ASSUME NEW d \in Clients PROVE (Turns(d) /\ Accepting(d))'
  <2>1. Turns(d) /\ Accepting(d)
    BY <1>t DEF StepInv
  <2>2. CASE d = c
    <3>1. toServer'[c] \in {<<>>, <<m>>}
      BY <1>2, <1>3, OneMessage
    <3>2. thread # "accepting" \/ owner[replyFd] # <<"tcp", c>>
      BY <1>0, <1>3 DEF Accepting
    <3>3. c \notin running
      BY <1>1, <1>3 DEF Turns
    <3>4. c \notin ToSet(backlog)
      BY <1>0, <1>3 DEF Turns
    <3>5. Turns(c)'
      BY <1>0, <1>1, <1>4, <3>1, <3>3, <3>4 DEF Turns
    <3> QED BY <1>0, <2>2, <3>2, <3>5 DEF Accepting
  <2>3. CASE d # c
    <3>1. /\ cstate'[d] = cstate[d] /\ toClient'[d] = toClient[d]
          /\ toServer'[d] = toServer[d] /\ (d \in cedge' <=> d \in cedge)
      BY <1>0, <1>2, <1>4, <2>3
    <3> QED BY <1>0, <2>1, <3>1 DEF Turns, Accepting, Connection, Fds
  <2> QED BY <2>2, <2>3
<1>9. StepInv'
  BY <1>7 DEF StepInv
<1> QED BY <1>5, <1>6, <1>9 DEF ServerInv

\* A client that starts its test, or finds the end of the stream.
LEMMA ClientReadsKeeps ==
    ASSUME ServerInv, NEW c \in Clients, ClientStartAck(c) \/ ClientEof(c)
    PROVE  ServerInv'
<1>t. Types /\ TablesInv /\ StepInv
  BY DEF ServerInv
<1>0. /\ UNCHANGED <<toServer, ready, left, sessions, thread, inbox, batch, replyFd,
                     backlog, owner, polled, winbox, wsources, worker, held>>
      /\ c \in cedge /\ cedge' = cedge \ {c}
      /\ running \subseteq running' /\ running' \subseteq running \cup {c}
  BY DEF ClientStartAck, ClientEof, Readable, controlVars, workerVars
<1>1. \/ /\ toClient[c] # <<>> /\ cstate[c] = "AwaitingStartAck"
         /\ toClient' = [toClient EXCEPT ![c] = <<>>]
         /\ cstate' = [cstate EXCEPT ![c] = "TestInProgress"]
      \/ /\ toClient[c] = <<>> /\ UNCHANGED <<cstate, toClient>>
         /\ c \in running' => c \in running \/ cstate[c] = "TestInProgress"
  BY DEF ClientStartAck, ClientEof
<1>2. Turns(c) /\ Accepting(c)
  BY <1>t DEF StepInv
<1>3. /\ toClient'[c] = <<>>
      /\ \A d \in Clients : d # c => cstate'[d] = cstate[d] /\ toClient'[d] = toClient[d]
      /\ cstate'[c] \in {cstate[c], "TestInProgress"}
      /\ cstate[c] # "idle" /\ c \notin ToSet(backlog)
  BY <1>t, <1>0, <1>1, <1>2 DEF Types, StreamType, Turns
<1>4. Types'
  <2>1. toClient' \in [Clients -> Seq(Messages)]
    BY <1>t, <1>1, OneMessage DEF Types, StreamType
  <2>2. cstate' \in [Clients -> SenderSessionState]
    BY <1>t, <1>1 DEF Types, StreamType, SenderSessionState
  <2>3. StreamType'
    BY <1>t, <1>0, <2>1, <2>2 DEF Types, StreamType
  <2> QED BY <1>t, <1>0, <2>3 DEF Types, ServerType, Fds
<1>5. TablesInv'
  <2>1. \A i \in 1 .. Len(backlog) : backlog[i] \in Clients /\ backlog[i] # c
    BY <1>t, <1>3, SequenceRange DEF Types, StreamType
  <2>2. \A i \in 1 .. Len(backlog) : cstate'[backlog[i]] = cstate[backlog[i]]
    BY <1>3, <2>1
  <2>3. \A d \in Clients : cstate[d] # "idle" => cstate'[d] # "idle"
    BY <1>3
  <2>4. ConnectedOnce'
    BY <1>t, <1>0, <2>2, <2>3 DEF TablesInv, ConnectedOnce, Fds
  <2> QED BY <1>t, <1>0, <2>4 DEF TablesInv, PolledOpen
<1>6. ASSUME NEW d \in Clients PROVE (Turns(d) /\ Accepting(d))'
  <2>1. Turns(d) /\ Accepting(d)
    BY <1>t DEF StepInv
  <2>2. CASE d = c /\ toClient[c] # <<>>
    <3>1. toServer[c] = <<>> /\ cstate'[c] = "TestInProgress"
      BY <1>t, <1>1, <1>2, <2>2 DEF Turns, Types, StreamType
    <3>2. thread # "accepting" \/ owner[replyFd] # <<"tcp", c>>
      BY <1>2, <2>2 DEF Accepting
    <3> QED BY <1>0, <1>3, <2>2, <3>1, <3>2 DEF Turns, Accepting
  <2>3. CASE d = c /\ toClient[c] = <<>>
    <3>1. cstate'[c] = cstate[c] /\ (c \in running' => cstate[c] = "TestInProgress")
      BY <1>1, <1>2, <2>3 DEF Turns
    <3>2. Connection(c) = {} /\ Connection(c)' = Connection(c)
      BY <1>0, <1>2, <2>3 DEF Turns, Connection, Fds
    <3> QED BY <1>0, <1>2, <1>3, <2>3, <3>1, <3>2 DEF Turns, Accepting
  <2>4. CASE d # c
    <3>1. /\ cstate'[d] = cstate[d] /\ toClient'[d] = toClient[d]
          /\ (d \in cedge' <=> d \in cedge)
          /\ (d \in running' <=> d \in running)
      BY <1>0, <1>3, <2>4
    <3> QED BY <1>0, <2>1, <3>1 DEF Turns, Accepting, Connection, Fds
  <2> QED BY <2>2, <2>3, <2>4
<1>8. StepInv'
  BY <1>6 DEF StepInv
<1> QED BY <1>4, <1>5, <1>8 DEF ServerInv

\* A client that ends its test: nothing else was under way.
LEMMA ClientStopsKeeps ==
    ASSUME ServerInv, NEW c \in Clients, ClientStops(c) PROVE ServerInv'
<1>t. Types /\ TablesInv /\ StepInv
  BY DEF ServerInv
<1>0. /\ UNCHANGED <<cstate, cedge, toClient, left, sessions, thread, inbox, batch,
                     replyFd, backlog, owner, polled, winbox, wsources, worker, held>>
      /\ c \in running /\ running' = running \ {c} /\ Request(c, "StopSessions")
  BY DEF ClientStops, controlVars, workerVars
<1>1. "StopSessions" \in Messages
  BY DEF Messages
<1>2. /\ toServer' \in [Clients -> Seq(Messages)]
      /\ \A d \in Clients : d # c => toServer'[d] = toServer[d]
      /\ \/ Connection(c) = {} /\ toServer' = toServer
         \/ Connection(c) # {} /\ toServer'[c] = Append(toServer[c], "StopSessions")
      /\ ready' \subseteq ready \cup polled
  BY <1>t, <1>0, <1>1, RequestEffect
<1>3. /\ Turns(c) /\ cstate[c] = "TestInProgress" /\ toClient[c] = <<>>
      /\ toServer[c] = <<>> \/ Connection(c) = {}
  BY <1>t, <1>0 DEF StepInv, Turns, Expected
<1>4. Types'
  <2>1. ready' \subseteq polled \cup {Listener}
    BY <1>t, <1>2 DEF Types, ServerType
  <2> QED BY <1>t, <1>0, <1>2, <2>1 DEF Types, StreamType, ServerType, Fds
<1>5. TablesInv'
  BY <1>t, <1>0 DEF TablesInv, ConnectedOnce, PolledOpen, Fds
<1>6. ASSUME NEW d \in Clients PROVE (Turns(d) /\ Accepting(d))'
  <2>1. Turns(d) /\ Accepting(d)
    BY <1>t DEF StepInv
  <2>2. CASE d = c
    <3>1. toServer'[c] \in {toServer[c], <<"StopSessions">>}
      BY <1>2, <1>3, OneMessage
    <3>2. cstate[c] \in DOMAIN Asked /\ Asked[cstate[c]] = "StopSessions"
      BY <1>3 DEF Asked
    <3>3. Turns(c)'
      BY <1>0, <1>3, <3>1, <3>2 DEF Turns, Connection, Fds
    <3> QED BY <1>0, <1>3, <2>1, <2>2, <3>3 DEF Accepting
  <2>3. CASE d # c
    BY <1>0, <1>2, <2>1, <2>3 DEF Turns, Accepting, Connection, Fds
  <2> QED BY <2>2, <2>3
<1>8. StepInv'
  BY <1>6 DEF StepInv
<1> QED BY <1>4, <1>5, <1>8 DEF ServerInv

\* A client that leaves reads nothing any more.
LEMMA LeaveKeeps == ASSUME ServerInv, NEW c \in Clients, Leave(c) PROVE ServerInv'
<1>t. Types /\ TablesInv /\ StepInv
  BY DEF ServerInv
<1>0. /\ UNCHANGED <<cstate, toServer, sessions, thread, inbox, batch, replyFd, backlog,
                     owner, polled, winbox, wsources, worker, held>>
      /\ left' = [left EXCEPT ![c] = IF toClient[c] = <<>> THEN "fin" ELSE "rst"]
      /\ toClient' = [toClient EXCEPT ![c] = <<>>]
      /\ running' = running \ {c} /\ cedge' = cedge \ {c}
      /\ ready' = ready \cup (Connection(c) \cap polled)
  BY DEF Leave, controlVars, workerVars
<1>1. /\ toClient' \in [Clients -> Seq(Messages)] /\ toClient'[c] = <<>>
      /\ \A d \in Clients : d # c => toClient'[d] = toClient[d] /\ left'[d] = left[d]
      /\ left' \in [Clients -> {"no", "fin", "rst"}] /\ left'[c] # "no"
  BY <1>t, <1>0, OneMessage DEF Types, StreamType
<1>2. Types'
  <2>1. ready' \subseteq polled \cup {Listener}
    BY <1>t, <1>0 DEF Types, ServerType
  <2> QED BY <1>t, <1>0, <1>1, <2>1 DEF Types, StreamType, ServerType, Fds
<1>3. TablesInv'
  BY <1>t, <1>0 DEF TablesInv, ConnectedOnce, PolledOpen, Fds
<1>4. ASSUME NEW d \in Clients PROVE (Turns(d) /\ Accepting(d))'
  <2>1. Turns(d) /\ Accepting(d)
    BY <1>t DEF StepInv
  <2>2. CASE d = c
    BY <1>0, <1>1, <2>1, <2>2 DEF Turns, Accepting, Connection, Fds
  <2>3. CASE d # c
    BY <1>0, <1>1, <2>1, <2>3 DEF Turns, Accepting, Connection, Fds
  <2> QED BY <2>2, <2>3
<1>6. StepInv'
  BY <1>4 DEF StepInv
<1> QED BY <1>2, <1>3, <1>6 DEF ServerInv

-----------------------------------------------------------------------------
(* Closing descriptors by number.                                          *)

\* What is left of the table of descriptors: a client whose connection is closed
\* has none any more, because it had only one.
LEMMA CloseEffect ==
    ASSUME Types, ConnectedOnce, NEW F \in SUBSET Fds, Close(F)
    PROVE  /\ Fds' = Fds /\ owner' \in [Fds -> Owner]
           /\ \A g \in Fds : owner'[g] = IF g \in F THEN None ELSE owner[g]
           /\ \A g \in Fds, d \in Clients :
                 owner'[g] = <<"tcp", d>> => owner[g] = <<"tcp", d>> /\ g \notin F
           /\ \A d \in Clients : Connection(d) = {} => Connection(d)' = {}
           /\ \A d \in Peers(F) : Connection(d)' = {} /\ cstate[d] # "idle"
                                   /\ d \notin ToSet(backlog)
<1>1. /\ owner' = [f \in Fds |-> IF f \in F THEN None ELSE owner[f]]
      /\ owner \in [Fds -> Owner]
  BY DEF Close, Closed, Types, ServerType
<1>2. Fds' = Fds
  BY <1>1 DEF Fds
<1>3. owner' \in [Fds -> Owner]
  BY <1>1 DEF Owner
<1>4. \A g \in Fds : owner'[g] = IF g \in F THEN None ELSE owner[g]
  BY <1>1
<1>5. \A d \in Clients : None # <<"tcp", d>>
  BY NoneAssumption
<1>6. \A g \in Fds, d \in Clients :
         owner'[g] = <<"tcp", d>> => owner[g] = <<"tcp", d>> /\ g \notin F
  BY <1>4, <1>5
<1>7. \A d \in Clients : Connection(d) = {} => Connection(d)' = {}
  BY <1>2, <1>6 DEF Connection
<1>8. ASSUME NEW d \in Peers(F)
      PROVE  Connection(d)' = {} /\ cstate[d] # "idle" /\ d \notin ToSet(backlog)
  <2>1. PICK f \in F : owner[f] = <<"tcp", d>>
    BY DEF Peers
  <2>2. d \in Clients /\ f \in Fds
    BY DEF Peers
  <2>3. \A g \in Fds : owner[g] = <<"tcp", d>> => g = f
    BY <2>1, <2>2 DEF ConnectedOnce
  <2>4. Connection(d)' = {}
    BY <1>2, <1>6, <2>2, <2>3 DEF Connection
  <2>5. \A i \in 1 .. Len(backlog) : backlog[i] # d
    BY <2>1, <2>2 DEF ConnectedOnce
  <2>6. d \notin ToSet(backlog)
    BY <2>5, SequenceRange DEF Types, StreamType
  <2> QED BY <2>1, <2>2, <2>4, <2>6 DEF ConnectedOnce
<1> QED BY <1>2, <1>3, <1>4, <1>6, <1>7, <1>8

\* Whoever closes descriptors by their numbers, and whichever they are, client and
\* server stay in step: the bytes of a connection go with it.
LEMMA CloseKeeps ==
    ASSUME ServerInv, NEW F \in SUBSET Fds, Close(F), batch' \subseteq batch,
           UNCHANGED <<cstate, running, toClient, left, sessions, thread, inbox, replyFd,
                       backlog>>,
           toServer' \in [Clients -> Seq(Messages)],
           \A d \in Clients : \/ toServer'[d] = toServer[d]
                              \/ toServer'[d] = <<>> /\ d \in Peers(F),
           winbox' \in Seq(WorkerMessage(Fds)), wsources' \subseteq Fds,
           held' \in {"no", "control", "worker"}
    PROVE  ServerInv'
<1>t. Types /\ TablesInv /\ StepInv
  BY DEF ServerInv
<1>0. polled' = polled \ F /\ ready' = ready \ F /\ cedge' = cedge \cup Peers(F)
  BY DEF Close
<1>1. /\ Fds' = Fds /\ owner' \in [Fds -> Owner]
      /\ \A g \in Fds : owner'[g] = IF g \in F THEN None ELSE owner[g]
      /\ \A g \in Fds, d \in Clients :
            owner'[g] = <<"tcp", d>> => owner[g] = <<"tcp", d>> /\ g \notin F
      /\ \A d \in Clients : Connection(d) = {} => Connection(d)' = {}
      /\ \A d \in Peers(F) : Connection(d)' = {} /\ cstate[d] # "idle"
                              /\ d \notin ToSet(backlog)
  BY <1>t, CloseEffect DEF TablesInv
<1>2. Types'
  <2>1. StreamType'
    BY <1>t, <1>0 DEF Types, StreamType, Peers
  <2>2. polled' \subseteq Fds /\ ready' \subseteq polled' \cup {Listener}
    BY <1>t, <1>0 DEF Types, ServerType
  <2>3. batch' \subseteq Fds \cup {Listener}
    BY <1>t DEF Types, ServerType
  <2>4. ServerType'
    BY <1>t, <1>1, <2>2, <2>3 DEF Types, ServerType
  <2> QED BY <2>1, <2>4 DEF Types
<1>3. TablesInv'
  <2>1. ConnectedOnce'
    <3>1. \A f, g \in Fds : \A c \in Clients :
             owner'[f] = <<"tcp", c>> /\ owner'[g] = <<"tcp", c>> => f = g
      BY <1>t, <1>1 DEF TablesInv, ConnectedOnce
    <3>2. \A f \in Fds, c \in Clients : owner'[f] = <<"tcp", c>> => cstate[c] # "idle"
      BY <1>t, <1>1 DEF TablesInv, ConnectedOnce
    <3>3. \A i \in 1 .. Len(backlog) : backlog[i] \in Clients
      BY <1>t, ElementOfSeq DEF Types, StreamType
    <3>4. \A i \in 1 .. Len(backlog) : \A f \in Fds : owner'[f] # <<"tcp", backlog[i]>>
      BY <1>t, <1>1, <3>3 DEF TablesInv, ConnectedOnce
    <3> QED BY <1>t, <1>1, <3>1, <3>2, <3>4 DEF TablesInv, ConnectedOnce
  <2>2. \A f \in polled' : owner'[f] # None
    BY <1>t, <1>0, <1>1 DEF TablesInv, PolledOpen, Types, ServerType
  <2> QED BY <1>t, <1>0, <2>1, <2>2 DEF TablesInv, PolledOpen
<1>4. ASSUME NEW d \in Clients PROVE (Turns(d) /\ Accepting(d))'
  <2>1. Turns(d) /\ Accepting(d)
    BY <1>t DEF StepInv
  <2>2. toServer'[d] = toServer[d] \/ toServer'[d] = <<>>
    OBVIOUS
  <2>3. d \in cedge' => d \in cedge \/ d \in Peers(F)
    BY <1>0
  <2>4. Turns(d)'
    BY <1>1, <2>1, <2>2, <2>3 DEF Turns
  <2>5. Accepting(d)'
    <3>1. thread = "accepting" => replyFd \in Fds
      BY <1>t DEF Types, ServerType
    <3> QED BY <1>1, <2>1, <2>2, <3>1 DEF Accepting
  <2> QED BY <2>4, <2>5
<1>6. StepInv'
  BY <1>4 DEF StepInv
<1> QED BY <1>2, <1>3, <1>6 DEF ServerInv

-----------------------------------------------------------------------------
(* The control thread's loop.                                              *)

\* The listener is polled: nothing else has happened.
LEMMA ListenKeeps == ASSUME ServerInv, Listen PROVE ServerInv'
<1>t. Types /\ TablesInv /\ StepInv
  BY DEF ServerInv
<1>0. /\ UNCHANGED <<cstate, running, cedge, toClient, toServer, left, sessions, inbox,
                     batch, replyFd, backlog, owner, polled, winbox, wsources, worker,
                     held>>
      /\ thread' = "drain" /\ ready' \subseteq ready \cup {Listener}
  BY DEF Listen, clientVars, streamVars, workerVars
<1>1. Types'
  <2>1. ready' \subseteq polled \cup {Listener}
    BY <1>t, <1>0 DEF Types, ServerType
  <2> QED BY <1>t, <1>0, <2>1 DEF Types, StreamType, ServerType, Fds
<1>2. TablesInv'
  BY <1>t, <1>0 DEF TablesInv, ConnectedOnce, PolledOpen, Fds
<1>3. StepInv'
  BY <1>t, <1>0 DEF StepInv, Turns, Accepting, Connection, Fds
<1> QED BY <1>1, <1>2, <1>3 DEF ServerInv

\* A connection enters the interest list, or the loop ends.
LEMMA HandleRegisterKeeps == ASSUME ServerInv, HandleRegister PROVE ServerInv'
<1>t. Types /\ TablesInv /\ StepInv
  BY DEF ServerInv
<1> DEFINE f == Head(inbox)
<1>0. /\ UNCHANGED <<cstate, running, cedge, toClient, toServer, left, sessions, batch,
                     replyFd, backlog, owner, winbox, wsources, worker, held>>
      /\ thread = "drain" /\ inbox # <<>> /\ inbox' = Tail(inbox)
  BY DEF HandleRegister, clientVars, streamVars, workerVars
<1>1. \/ thread' = "ended" /\ polled' = polled /\ ready' = ready
      \/ /\ owner[f] # None /\ f \notin polled /\ polled' = polled \cup {f}
         /\ ready' = ready \cup
              {g \in {f} : \E c \in Peers({f}) : toServer[c] # <<>> \/ left[c] # "no"}
         /\ thread' = thread
  BY DEF HandleRegister
<1>2. f \in Fds /\ f \in ToSet(inbox) /\ inbox' \in Seq(Fds) /\ ToSet(inbox') \subseteq ToSet(inbox)
  <2>1. inbox \in Seq(Fds)
    BY <1>t DEF Types, ServerType
  <2> QED BY <1>0, <2>1, HeadAndTail
<1> HIDE DEF f
<1>3. Types'
  <2>1. polled' \subseteq Fds /\ ready' \subseteq polled' \cup {Listener}
    BY <1>t, <1>1, <1>2 DEF Types, ServerType
  <2> QED BY <1>t, <1>0, <1>1, <1>2, <2>1 DEF Types, StreamType, ServerType, Fds
<1>4. TablesInv'
  <2>1. ConnectedOnce'
    BY <1>t, <1>0 DEF TablesInv, ConnectedOnce, Fds
  <2>2. polled' \cup ToSet(inbox') \subseteq polled \cup ToSet(inbox)
    BY <1>1, <1>2
  <2>3. \A g \in polled' : owner[g] # None
    BY <1>t, <1>1 DEF TablesInv, PolledOpen
  <2> QED BY <1>t, <1>0, <2>1, <2>2, <2>3 DEF TablesInv, PolledOpen
<1>5. StepInv'
  BY <1>t, <1>0, <1>1 DEF StepInv, Turns, Accepting, Connection, Fds
<1> QED BY <1>3, <1>4, <1>5 DEF ServerInv

\* The events that are reported, and the end of them.
LEMMA PollKeeps == ASSUME ServerInv, Poll \/ EndOfBatch PROVE ServerInv'
<1>t. Types /\ TablesInv /\ StepInv
  BY DEF ServerInv
<1>0. /\ UNCHANGED <<cstate, running, cedge, toClient, toServer, left, sessions, inbox,
                     replyFd, backlog, owner, polled, winbox, wsources, worker, held>>
      /\ \/ thread = "drain" /\ thread' = "dispatch" /\ batch' = ready /\ ready' = {}
         \/ batch = {} /\ thread' = "drain" /\ batch' = {} /\ ready' = ready
  BY DEF Poll, EndOfBatch, clientVars, streamVars, kernelVars, workerVars
<1>1. Types'
  <2>1. batch' \subseteq Fds \cup {Listener} /\ ready' \subseteq polled \cup {Listener}
    BY <1>t, <1>0 DEF Types, ServerType
  <2> QED BY <1>t, <1>0, <2>1 DEF Types, StreamType, ServerType, Fds
<1>2. TablesInv'
  BY <1>t, <1>0 DEF TablesInv, ConnectedOnce, PolledOpen, Fds
<1>3. StepInv'
  BY <1>t, <1>0 DEF StepInv, Turns, Accepting, Connection, Fds
<1> QED BY <1>1, <1>2, <1>3 DEF ServerInv

\* A connection that is accepted gets a free number, a session and a greeting.
LEMMA AcceptKeeps == ASSUME ServerInv, Accept PROVE ServerInv'
<1>t. Types /\ TablesInv /\ StepInv
  BY DEF ServerInv
<1> DEFINE f == Lowest(Free)
           c == Head(backlog)
           s == NewControlSession(f, c)
<1>0. /\ UNCHANGED <<cstate, running, toServer, left, thread, replyFd, polled, ready,
                     winbox, wsources, worker, held>>
      /\ thread = "dispatch" /\ Free # {} /\ backlog # <<>>
      /\ batch' = batch \ {Listener} /\ backlog' = Tail(backlog)
      /\ owner' = [owner EXCEPT ![f] = <<"tcp", c>>]
      /\ sessions' = Append(sessions, s) /\ inbox' = Append(inbox, f)
      /\ \/ left[c] = "no" /\ Reply(c, "ServerGreeting")
         \/ toClient' = toClient /\ cedge' = cedge
  BY DEF Accept, clientVars, workerVars
<1>1. f \in Fds /\ owner[f] = None
  BY <1>t, <1>0, LowestIsFree DEF Types, Free
<1>2. /\ c \in Clients /\ c \in ToSet(backlog) /\ c = backlog[1] /\ 1 \in 1 .. Len(backlog)
      /\ backlog' \in Seq(Clients) /\ ToSet(backlog') \subseteq ToSet(backlog)
      /\ \A i \in 1 .. Len(backlog') : i + 1 \in 1 .. Len(backlog) /\ backlog'[i] = backlog[i + 1]
  BY <1>t, <1>0, HeadAndTail DEF Types, StreamType
<1>3. s \in ControlSession /\ s.id = f
  <2>1. f \in Nat
    BY <1>t, <1>1 DEF Types, ServerType
  <2> QED BY <1>2, <2>1 DEF NewControlSession, ControlSession
<1> HIDE DEF f, c, s
<1>4. /\ sessions' \in Seq(ControlSession)
      /\ \A i \in 1 .. Len(sessions) : i \in 1 .. Len(sessions') /\ sessions'[i] = sessions[i]
      /\ Len(sessions) + 1 \in 1 .. Len(sessions') /\ sessions'[Len(sessions) + 1] = s
  BY <1>t, <1>0, <1>3, AppendedElements DEF Types, ServerType
<1>5. inbox' \in Seq(Fds) /\ ToSet(inbox') = ToSet(inbox) \cup {f}
  BY <1>t, <1>0, <1>1, AppendedElements DEF Types, ServerType
<1>6. /\ owner' \in [Fds -> Owner] /\ Fds' = Fds /\ owner'[f] = <<"tcp", c>>
      /\ \A g \in Fds : g # f => owner'[g] = owner[g]
  BY <1>t, <1>0, <1>1, <1>2 DEF Types, ServerType, Owner, Fds
<1>7. /\ cstate[c] = "AwaitingServerGreeting" /\ toServer[c] = <<>> /\ toClient[c] = <<>>
      /\ c \notin cedge /\ c \notin running
      /\ \A g \in Fds : owner[g] # <<"tcp", c>>
  <2>1. cstate[c] = "AwaitingServerGreeting" /\ \A g \in Fds : owner[g] # <<"tcp", c>>
    BY <1>t, <1>2 DEF TablesInv, ConnectedOnce
  <2>2. Turns(c)
    BY <1>t, <1>2 DEF StepInv
  <2> QED BY <1>2, <2>1, <2>2 DEF Turns, Asked
<1>8. /\ toClient' \in [Clients -> Seq(Messages)] /\ cedge' \subseteq cedge \cup {c}
      /\ cedge \subseteq cedge'
      /\ \A d \in Clients : d # c => toClient'[d] = toClient[d]
      /\ \/ toClient'[c] = <<"ServerGreeting">> /\ toClient'[c] # <<>>
         \/ toClient'[c] = <<>> /\ c \notin cedge'
  <2>1. toClient \in [Clients -> Seq(Messages)]
    BY <1>t DEF Types, StreamType
  <2>2. CASE Reply(c, "ServerGreeting")
    <3>1. <<"ServerGreeting">> \in Seq(Messages) /\ <<"ServerGreeting">> # <<>>
      BY OneMessage DEF Messages
    <3>2. toClient' = [toClient EXCEPT ![c] = <<"ServerGreeting">>]
      BY <1>7, <2>2, OneMessage DEF Reply
    <3> QED BY <1>2, <2>1, <2>2, <3>1, <3>2 DEF Reply
  <2>3. CASE toClient' = toClient /\ cedge' = cedge
    BY <1>7, <2>1, <2>3
  <2> QED BY <1>0, <2>2, <2>3
<1>9. Types'
  <2>1. StreamType'
    BY <1>t, <1>0, <1>2, <1>8 DEF Types, StreamType
  <2>2. batch' \subseteq Fds \cup {Listener}
    BY <1>t, <1>0 DEF Types, ServerType
  <2> QED BY <1>t, <1>0, <1>4, <1>5, <1>6, <2>1, <2>2 DEF Types, ServerType
<1>10. \A i \in 1 .. Len(backlog') : backlog'[i] # c /\ backlog'[i] \in Clients
  <2> SUFFICES ASSUME NEW i \in 1 .. Len(backlog') PROVE backlog'[i] # c /\ backlog'[i] \in Clients
    OBVIOUS
  <2>1. i + 1 # 1 /\ i + 1 \in 1 .. Len(backlog) /\ backlog'[i] = backlog[i + 1]
    BY <1>2
  <2>2. backlog[1] = backlog[i + 1] => 1 = i + 1
    BY <1>t, <1>2, <2>1 DEF TablesInv, ConnectedOnce
  <2> QED BY <1>2, <2>1, <2>2, ElementOfSeq
<1>11. ConnectedOnce'
  <2>1. \A g, h \in Fds : \A d \in Clients :
           owner'[g] = <<"tcp", d>> /\ owner'[h] = <<"tcp", d>> => g = h
    BY <1>t, <1>6, <1>7 DEF TablesInv, ConnectedOnce
  <2>2. \A g \in Fds, d \in Clients : owner'[g] = <<"tcp", d>> => cstate[d] # "idle"
    BY <1>t, <1>6, <1>7 DEF TablesInv, ConnectedOnce
  <2>3. ASSUME NEW i \in 1 .. Len(backlog')
        PROVE  /\ cstate[backlog'[i]] = "AwaitingServerGreeting"
               /\ \A g \in Fds : owner'[g] # <<"tcp", backlog'[i]>>
               /\ \A j \in 1 .. Len(backlog') : backlog'[i] = backlog'[j] => i = j
    <3>1. i + 1 \in 1 .. Len(backlog) /\ backlog'[i] = backlog[i + 1]
      BY <1>2
    <3>2. /\ cstate[backlog'[i]] = "AwaitingServerGreeting"
          /\ \A g \in Fds : owner[g] # <<"tcp", backlog'[i]>>
      BY <1>t, <3>1 DEF TablesInv, ConnectedOnce
    <3>3. \A g \in Fds : owner'[g] # <<"tcp", backlog'[i]>>
      BY <1>6, <1>10, <3>2
    <3>4. ASSUME NEW j \in 1 .. Len(backlog'), backlog'[i] = backlog'[j] PROVE i = j
      <4>1. j + 1 \in 1 .. Len(backlog) /\ backlog'[j] = backlog[j + 1]
        BY <1>2
      <4>2. i + 1 = j + 1
        BY <1>t, <3>1, <3>4, <4>1 DEF TablesInv, ConnectedOnce
      <4> QED BY <4>2
    <3> QED BY <3>2, <3>3, <3>4
  <2> QED BY <1>0, <1>6, <2>1, <2>2, <2>3 DEF ConnectedOnce
<1>12. PolledOpen'
  <2>1. \A g \in polled : owner'[g] # None
    BY <1>t, <1>1, <1>6 DEF TablesInv, PolledOpen, Types, ServerType
  <2>2. \A g \in polled \cup ToSet(inbox') : \E i \in 1 .. Len(sessions') : sessions'[i].id = g
    BY <1>t, <1>3, <1>4, <1>5 DEF TablesInv, PolledOpen
  <2> QED BY <1>0, <2>1, <2>2 DEF PolledOpen
<1>13. ASSUME NEW d \in Clients PROVE (Turns(d) /\ Accepting(d))'
  <2>1. Turns(d)
    BY <1>t DEF StepInv
  <2>2. Accepting(d)'
    BY <1>0 DEF Accepting
  <2>3. CASE d = c
    <3>1. d \notin ToSet(backlog')
      BY <1>2, <1>10, <2>3, SequenceRange
    <3>2. Expected["AwaitingServerGreeting"] = "ServerGreeting"
          /\ "AwaitingServerGreeting" \in DOMAIN Expected
      BY DEF Expected
    <3> QED BY <1>0, <1>7, <1>8, <2>2, <2>3, <3>1, <3>2 DEF Turns
  <2>4. CASE d # c
    <3>1. Connection(d)' = Connection(d)
      <4>1. \A g \in Fds : owner'[g] = <<"tcp", d>> <=> owner[g] = <<"tcp", d>>
        <5>1. None # <<"tcp", d>> /\ <<"tcp", c>> # <<"tcp", d>>
          BY <2>4, NoneAssumption
        <5> QED BY <1>1, <1>6, <5>1
      <4> QED BY <1>6, <4>1 DEF Connection
    <3>2. toClient'[d] = toClient[d] /\ (d \in cedge' <=> d \in cedge)
      BY <1>8, <2>4
    <3> QED BY <1>0, <1>2, <2>1, <2>2, <3>1, <3>2 DEF Turns
  <2> QED BY <2>3, <2>4
<1>15. StepInv'
  BY <1>13 DEF StepInv
<1> QED BY <1>9, <1>11, <1>12, <1>15 DEF ServerInv, TablesInv

\* The listener is given up, and with it the connections in its queue.
LEMMA AcceptFailsKeeps == ASSUME ServerInv, AcceptFails PROVE ServerInv'
<1>t. Types /\ TablesInv /\ StepInv
  BY DEF ServerInv
<1>0. /\ UNCHANGED <<cstate, running, cedge, toClient, toServer, left, sessions, thread,
                     inbox, replyFd, owner, polled, winbox, wsources, worker, held>>
      /\ batch' = batch \ {Listener} /\ backlog' = <<>> /\ ready' = ready \ {Listener}
  BY DEF AcceptFails, clientVars, streamVars, workerVars
<1>1. /\ backlog' \in Seq(Clients) /\ Len(backlog') = 0 /\ ToSet(backlog') = {}
  <2>1. backlog' \in Seq(Clients) /\ Len(backlog') = 0
    BY <1>0, OneMessage
  <2>2. ToSet(backlog') = {backlog'[i] : i \in 1 .. Len(backlog')}
    BY <2>1, SequenceRange
  <2>3. 1 .. Len(backlog') = {}
    BY <2>1
  <2> QED BY <2>1, <2>2, <2>3
<1>2. Types'
  <2>1. batch' \subseteq Fds \cup {Listener} /\ ready' \subseteq polled \cup {Listener}
    BY <1>t, <1>0 DEF Types, ServerType
  <2> QED BY <1>t, <1>0, <1>1, <2>1 DEF Types, StreamType, ServerType, Fds
<1>3. TablesInv'
  <2>1. ConnectedOnce'
    BY <1>t, <1>0, <1>1 DEF TablesInv, ConnectedOnce, Fds
  <2> QED BY <1>t, <1>0, <2>1 DEF TablesInv, PolledOpen
<1>4. StepInv'
  BY <1>t, <1>0, <1>1 DEF StepInv, Turns, Accepting, Connection, Fds
<1> QED BY <1>2, <1>3, <1>4 DEF ServerInv

\* The session is accepted by whichever client the descriptor belongs to now: it
\* is still the one that asked, or none.
LEMMA UnlockKeeps == ASSUME ServerInv, Unlock PROVE ServerInv'
<1>t. Types /\ TablesInv /\ StepInv
  BY DEF ServerInv
<1> DEFINE to == {c \in Peers({replyFd}) : thread = "accepting" /\ left[c] = "no"}
<1>0. /\ UNCHANGED <<cstate, running, toServer, left, sessions, inbox, batch, backlog,
                     owner, polled, ready, winbox, wsources, worker>>
      /\ held' = "no" /\ thread' = "dispatch"
      /\ toClient' = [c \in Clients |-> IF c \in to
                          THEN Append(toClient[c], "AcceptSession") ELSE toClient[c]]
      /\ cedge' = cedge \cup to
  BY DEF Unlock, clientVars, kernelVars
<1>1. \A d \in to : d \in Clients /\ thread = "accepting" /\ owner[replyFd] = <<"tcp", d>>
  BY DEF Peers
<1> HIDE DEF to
<1>2. "AcceptSession" \in Messages
  BY DEF Messages
<1>3. /\ toClient' \in [Clients -> Seq(Messages)]
      /\ \A d \in Clients : d \notin to => toClient'[d] = toClient[d]
      /\ \A d \in to : toClient'[d] = Append(toClient[d], "AcceptSession")
  <2>1. \A d \in Clients : toClient[d] \in Seq(Messages)
    BY <1>t DEF Types, StreamType
  <2>2. \A d \in Clients : Append(toClient[d], "AcceptSession") \in Seq(Messages)
    BY <1>2, <2>1, AppendProperties
  <2> QED BY <1>0, <1>1, <2>1, <2>2
<1>4. Types'
  <2>1. cedge' \subseteq Clients
    BY <1>t, <1>0, <1>1 DEF Types, StreamType
  <2> QED BY <1>t, <1>0, <1>3, <2>1 DEF Types, StreamType, ServerType, Fds
<1>5. TablesInv'
  BY <1>t, <1>0 DEF TablesInv, ConnectedOnce, PolledOpen, Fds
<1>6. ASSUME NEW d \in Clients PROVE (Turns(d) /\ Accepting(d))'
  <2>1. Turns(d) /\ Accepting(d)
    BY <1>t DEF StepInv
  <2>2. CASE d \in to
    <3>1. /\ cstate[d] = "AwaitingSessionAcceptance"
          /\ toClient[d] = <<>> /\ toServer[d] = <<>>
      BY <1>1, <2>1, <2>2 DEF Accepting
    <3>2. toClient'[d] = <<"AcceptSession">> /\ toClient'[d] # <<>>
      BY <1>3, <2>2, <3>1, OneMessage
    <3>3. replyFd \in Fds
      BY <1>t, <1>1, <2>2 DEF Types, ServerType
    <3>4. \A i \in 1 .. Len(backlog) : backlog[i] # d
      BY <1>t, <1>1, <2>2, <3>3 DEF TablesInv, ConnectedOnce
    <3>5. d \notin ToSet(backlog)
      BY <1>t, <3>4, SequenceRange DEF Types, StreamType
    <3>6. Expected["AwaitingSessionAcceptance"] = "AcceptSession"
          /\ "AwaitingSessionAcceptance" \in DOMAIN Expected
      BY DEF Expected
    <3>7. d \notin running
      BY <2>1, <3>1 DEF Turns
    <3> QED BY <1>0, <3>1, <3>2, <3>5, <3>6, <3>7 DEF Turns, Accepting
  <2>3. CASE d \notin to
    BY <1>0, <1>3, <2>1, <2>3 DEF Turns, Accepting, Connection, Fds
  <2> QED BY <2>2, <2>3
<1>8. StepInv'
  BY <1>6 DEF StepInv
<1> QED BY <1>4, <1>5, <1>8 DEF ServerInv

-----------------------------------------------------------------------------
(* The control thread's callbacks.                                         *)

\* A message that is read and leaves the connection open: it was the one under
\* way, so that its client has read everything, and the reply is what the client
\* takes it for.
LEMMA EventKeeps ==
    ASSUME ServerInv, NEW f \in Fds, NEW c \in Clients, NEW m,
           Receives(f, c, Asked[cstate[c]]), f \in batch, batch' = batch \ {f},
           UNCHANGED <<cstate, running, left, inbox, backlog, polled, ready, wsources>>,
           sessions' \in Seq(ControlSession), Len(sessions') = Len(sessions),
           \A i \in 1 .. Len(sessions) : sessions'[i].id = sessions[i].id,
           owner' \in [Fds -> Owner],
           \A g \in Fds : \/ owner'[g] = owner[g]
                          \/ owner[g] = None /\ owner'[g] = <<"udp", c>>,
           \/ UNCHANGED <<toClient, cedge>>
           \/ /\ Reply(c, m) /\ cstate[c] \in DOMAIN Expected /\ m = Expected[cstate[c]]
              /\ m \in Messages,
           \/ thread' = "dispatch"
           \/ thread' = "stopping" /\ replyFd' = f
           \/ thread' = "accepting" /\ replyFd' = f /\ UNCHANGED toClient
              /\ cstate[c] = "AwaitingSessionAcceptance",
           winbox' \in Seq(WorkerMessage(Fds)), held' \in {"no", "control", "worker"}
    PROVE  ServerInv'
<1>t. Types /\ TablesInv /\ StepInv
  BY DEF ServerInv
<1>0. /\ owner[f] = <<"tcp", c>> /\ toServer[c] # <<>>
      /\ toServer' = [toServer EXCEPT ![c] = <<>>]
  BY DEF Receives
<1>1. /\ toServer' \in [Clients -> Seq(Messages)] /\ toServer'[c] = <<>>
      /\ \A d \in Clients : d # c => toServer'[d] = toServer[d]
  BY <1>t, <1>0, OneMessage DEF Types, StreamType
<1>2. Turns(c) /\ toClient[c] = <<>> /\ cstate[c] # "idle"
  BY <1>t, <1>0 DEF StepInv, Turns, Asked
<1>3. \A i \in 1 .. Len(backlog) : backlog[i] # c
  BY <1>t, <1>0 DEF TablesInv, ConnectedOnce
<1>4. c \notin ToSet(backlog)
  BY <1>t, <1>3, SequenceRange DEF Types, StreamType
<1>5. /\ toClient' \in [Clients -> Seq(Messages)] /\ cedge' \subseteq cedge \cup {c}
      /\ cedge \subseteq cedge'
      /\ \A d \in Clients : d # c => toClient'[d] = toClient[d]
      /\ \/ /\ toClient'[c] = <<Expected[cstate[c]]>> /\ toClient'[c] # <<>>
            /\ cstate[c] \in DOMAIN Expected
         \/ toClient'[c] = <<>> /\ (c \in cedge' => c \in cedge)
  <2>1. toClient \in [Clients -> Seq(Messages)]
    BY <1>t DEF Types, StreamType
  <2>2. CASE UNCHANGED <<toClient, cedge>>
    BY <1>2, <2>1, <2>2
  <2>3. CASE Reply(c, m) /\ cstate[c] \in DOMAIN Expected /\ m = Expected[cstate[c]]
             /\ m \in Messages
    <3>1. <<m>> \in Seq(Messages) /\ <<m>> # <<>>
      BY <2>3, OneMessage
    <3>2. toClient' = [toClient EXCEPT ![c] = <<m>>]
      BY <1>2, <2>3, OneMessage DEF Reply
    <3> QED BY <2>1, <2>3, <3>1, <3>2 DEF Reply
  <2> QED BY <2>2, <2>3
<1>6. Fds' = Fds
  BY DEF Fds
<1>7. \A g \in Fds, d \in Clients : owner'[g] = <<"tcp", d>> <=> owner[g] = <<"tcp", d>>
  <2>1. \A d \in Clients : None # <<"tcp", d>> /\ <<"udp", c>> # <<"tcp", d>>
    BY NoneAssumption
  <2> QED BY <2>1
<1>8. Types'
  <2>1. StreamType'
    BY <1>t, <1>1, <1>5 DEF Types, StreamType
  <2>2. batch' \subseteq Fds \cup {Listener}
    BY <1>t DEF Types, ServerType
  <2>3. ServerType'
    BY <1>t, <1>6, <2>2 DEF Types, ServerType
  <2> QED BY <2>1, <2>3 DEF Types
<1>9. ConnectedOnce'
  <2>1. \A i \in 1 .. Len(backlog) : backlog[i] \in Clients
    BY <1>t, ElementOfSeq DEF Types, StreamType
  <2>2. \A i \in 1 .. Len(backlog) : \A g \in Fds : owner'[g] # <<"tcp", backlog[i]>>
    BY <1>t, <1>7, <2>1 DEF TablesInv, ConnectedOnce
  <2>3. \A g, h \in Fds : \A d \in Clients :
           owner'[g] = <<"tcp", d>> /\ owner'[h] = <<"tcp", d>> => g = h
    BY <1>t, <1>7 DEF TablesInv, ConnectedOnce
  <2>4. \A g \in Fds, d \in Clients : owner'[g] = <<"tcp", d>> => cstate[d] # "idle"
    BY <1>t, <1>7 DEF TablesInv, ConnectedOnce
  <2> QED BY <1>t, <1>6, <2>2, <2>3, <2>4 DEF TablesInv, ConnectedOnce
<1>10. PolledOpen'
  <2>1. \A g \in polled : owner'[g] = owner[g]
    BY <1>t DEF TablesInv, PolledOpen, Types, ServerType
  <2> QED BY <1>t, <2>1 DEF TablesInv, PolledOpen
<1>11. ASSUME NEW d \in Clients PROVE (Turns(d) /\ Accepting(d))'
  <2>1. Turns(d) /\ Accepting(d)
    BY <1>t DEF StepInv
  <2>2. Connection(d)' = Connection(d)
    BY <1>6, <1>7 DEF Connection
  <2>3. CASE d = c
    <3>1. Turns(c)'
      BY <1>1, <1>2, <1>4, <1>5, <2>2, <2>3 DEF Turns
    <3>2. Accepting(c)'
      BY <1>1, <1>2 DEF Accepting
    <3> QED BY <2>3, <3>1, <3>2
  <2>4. CASE d # c
    <3>1. toClient'[d] = toClient[d] /\ (d \in cedge' <=> d \in cedge)
      BY <1>5, <2>4
    <3>2. Turns(d)'
      BY <1>1, <2>1, <2>2, <2>4, <3>1 DEF Turns
    <3>3. owner'[f] # <<"tcp", d>>
      BY <1>0, <1>7, <2>4
    <3> QED BY <3>2, <3>3 DEF Accepting
  <2> QED BY <2>3, <2>4
<1>13. StepInv'
  BY <1>11 DEF StepInv
<1> QED BY <1>8, <1>9, <1>10, <1>13 DEF ServerInv, TablesInv

\* What every callback leaves alone.
LEMMA EventEffect ==
    ASSUME NEW f, NEW state, Event(f, state)
    PROVE  /\ thread = "dispatch" /\ f \in batch /\ batch' = batch \ {f}
           /\ UNCHANGED <<cstate, running, left, inbox, backlog>>
  BY DEF Event, clientVars

\* A message that is read is the one that its client's state stands for.
LEMMA ReceivedIsAsked ==
    ASSUME Types, StepInv, NEW f, NEW c \in Clients, NEW m, Receives(f, c, m)
    PROVE  /\ owner[f] = <<"tcp", c>> /\ toServer[c] # <<>>
           /\ cstate[c] \in DOMAIN Asked /\ m = Asked[cstate[c]]
           /\ toServer' \in [Clients -> Seq(Messages)] /\ toServer'[c] = <<>>
           /\ \A d \in Clients : d # c => toServer'[d] = toServer[d]
<1>1. /\ owner[f] = <<"tcp", c>> /\ toServer[c] # <<>> /\ Head(toServer[c]) = m
      /\ toServer' = [toServer EXCEPT ![c] = <<>>]
  BY DEF Receives
<1>2. cstate[c] \in DOMAIN Asked /\ toServer[c] = <<Asked[cstate[c]]>>
  BY <1>1 DEF StepInv, Turns
<1>3. Head(<<Asked[cstate[c]]>>) = Asked[cstate[c]]
  OBVIOUS
<1>4. m = Asked[cstate[c]]
  BY <1>1, <1>2, <1>3
<1>5. /\ toServer' \in [Clients -> Seq(Messages)] /\ toServer'[c] = <<>>
      /\ \A d \in Clients : d # c => toServer'[d] = toServer[d]
  BY <1>1, OneMessage DEF Types, StreamType
<1> QED BY <1>1, <1>2, <1>4, <1>5

\* The callbacks that close their connection, and those that only take an event.
LEMMA ConnectionClosedKeeps ==
    ASSUME ServerInv, NEW f \in Fds, NEW state, Event(f, state), CloseConnection(f),
           \/ UNCHANGED toServer
           \/ \E c \in Clients, m \in Messages : Receives(f, c, m)
    PROVE  ServerInv'
<1>t. Types /\ TablesInv /\ StepInv
  BY DEF ServerInv
<1>1. /\ batch' \subseteq batch /\ Close({f})
      /\ UNCHANGED <<cstate, running, toClient, left, sessions, thread, inbox, replyFd,
                     backlog, winbox, wsources, held>>
  BY EventEffect DEF CloseConnection, workerVars
<1>2. /\ toServer' \in [Clients -> Seq(Messages)]
      /\ \A d \in Clients : \/ toServer'[d] = toServer[d]
                            \/ toServer'[d] = <<>> /\ d \in Peers({f})
  <2>1. CASE UNCHANGED toServer
    BY <1>t, <2>1 DEF Types, StreamType
  <2>2. CASE \E c \in Clients, m \in Messages : Receives(f, c, m)
    <3>1. PICK c \in Clients, m \in Messages : Receives(f, c, m)
      BY <2>2
    <3>2. /\ owner[f] = <<"tcp", c>>
          /\ toServer' \in [Clients -> Seq(Messages)] /\ toServer'[c] = <<>>
          /\ \A d \in Clients : d # c => toServer'[d] = toServer[d]
      BY <1>t, <3>1, ReceivedIsAsked
    <3>3. c \in Peers({f})
      BY <3>2 DEF Peers
    <3> QED BY <3>2, <3>3
  <2> QED BY <2>1, <2>2
<1>3. /\ winbox' \in Seq(WorkerMessage(Fds)) /\ wsources' \subseteq Fds
      /\ held' \in {"no", "control", "worker"} /\ {f} \in SUBSET Fds
  BY <1>t, <1>1 DEF Types, ServerType
<1> QED BY <1>1, <1>2, <1>3, CloseKeeps

\* Closing nothing leaves the tables as they are.
LEMMA CloseNothing ==
    ASSUME Types, UNCHANGED <<owner, polled, ready, cedge>> PROVE Close({})
<1>1. owner = [f \in Fds |-> IF f \in {} THEN None ELSE owner[f]]
  BY DEF Types, ServerType
<1>2. Peers({}) = {}
  BY DEF Peers
<1> QED BY <1>1, <1>2 DEF Close, Closed

\* An error that is passed over takes the event and nothing else.
LEMMA ReceiveErrorKeeps ==
    ASSUME ServerInv, NEW f \in Fds, ReceiveError(f) PROVE ServerInv'
<1>t. Types
  BY DEF ServerInv
<1>1. /\ batch' \subseteq batch
      /\ UNCHANGED <<cstate, running, cedge, toClient, toServer, left, sessions, thread,
                     inbox, replyFd, backlog, owner, polled, ready, winbox, wsources, held>>
  BY EventEffect DEF ReceiveError, workerVars
<1>2. Close({})
  BY <1>t, <1>1, CloseNothing
<1>3. /\ winbox' \in Seq(WorkerMessage(Fds)) /\ wsources' \subseteq Fds
      /\ held' \in {"no", "control", "worker"} /\ {} \in SUBSET Fds
      /\ toServer' \in [Clients -> Seq(Messages)]
  BY <1>t, <1>1 DEF Types, StreamType, ServerType
<1> QED BY <1>1, <1>2, <1>3, CloseKeeps

\* The state of a session changes, and its number does not.
LEMMA SessionChange ==
    ASSUME ServerType, NEW k \in 1 .. Len(sessions),
           sessions' = [sessions EXCEPT ![k].state = "Monitor"]
    PROVE  /\ sessions' \in Seq(ControlSession) /\ Len(sessions') = Len(sessions)
           /\ \A i \in 1 .. Len(sessions) : sessions'[i].id = sessions[i].id
<1> DEFINE s == [sessions[k] EXCEPT !.state = "Monitor"]
<1>1. sessions \in Seq(ControlSession) /\ sessions[k] \in ControlSession
  BY ElementOfSeq DEF ServerType
<1>2. s \in ControlSession /\ s.id = sessions[k].id
  BY <1>1 DEF ControlSession
<1>3. sessions' = [sessions EXCEPT ![k] = s]
  OBVIOUS
<1> HIDE DEF s
<1>4. sessions' \in Seq(ControlSession) /\ Len(sessions') = Len(sessions)
  BY <1>1, <1>2, <1>3, ExceptSeq
<1>5. \A i \in 1 .. Len(sessions) : sessions'[i] = IF i = k THEN s ELSE sessions[i]
  BY <1>1, <1>3, ExceptSeq
<1> QED BY <1>2, <1>4, <1>5

\* The answers that the worker has no part in.
LEMMA AnswersKeep ==
    ASSUME ServerInv, NEW f \in Fds, NEW c \in Clients,
           Negotiation(f, c) \/ StartSessions(f, c) \/ Forbidden(f, c)
    PROVE  ServerInv'
<1>t. Types /\ TablesInv /\ StepInv
  BY DEF ServerInv
<1>1. /\ thread = "dispatch" /\ f \in batch /\ batch' = batch \ {f}
      /\ UNCHANGED <<cstate, running, left, inbox, backlog, polled, ready, owner, thread,
                     replyFd, winbox, wsources, held>>
  BY EventEffect DEF Negotiation, StartSessions, Forbidden, Answers, workerVars
<1>2. PICK m \in {"ClientSetupResponse", "StartSessions"} :
         /\ Receives(f, c, m)
         /\ \/ UNCHANGED <<toClient, cedge>>
            \/ m = "ClientSetupResponse" /\ Reply(c, "ServerStart")
            \/ m = "StartSessions" /\ Reply(c, "StartAck")
  BY DEF Negotiation, StartSessions, Forbidden, Answers
<1>3. cstate[c] \in DOMAIN Asked /\ m = Asked[cstate[c]]
  BY <1>t, <1>2, ReceivedIsAsked
<1>4. /\ m = "ClientSetupResponse" => cstate[c] = "AwaitingServerStart"
      /\ m = "StartSessions" => cstate[c] = "AwaitingStartAck"
  BY <1>3 DEF Asked
<1>5. /\ "AwaitingServerStart" \in DOMAIN Expected /\ "AwaitingStartAck" \in DOMAIN Expected
      /\ Expected["AwaitingServerStart"] = "ServerStart" /\ "ServerStart" \in Messages
      /\ Expected["AwaitingStartAck"] = "StartAck" /\ "StartAck" \in Messages
  BY DEF Expected, Messages
<1>6. \/ UNCHANGED <<toClient, cedge>>
      \/ \E r \in Messages : Reply(c, r) /\ cstate[c] \in DOMAIN Expected
                             /\ r = Expected[cstate[c]]
  BY <1>2, <1>4, <1>5
<1>7. /\ sessions' \in Seq(ControlSession) /\ Len(sessions') = Len(sessions)
      /\ \A i \in 1 .. Len(sessions) : sessions'[i].id = sessions[i].id
  <2>1. CASE UNCHANGED sessions
    BY <1>t, <2>1 DEF Types, ServerType
  <2>2. CASE Negotiation(f, c)
    <3>1. Found(f) # 0 /\ sessions' = [sessions EXCEPT ![Found(f)].state = "Monitor"]
      BY <2>2 DEF Negotiation, Event
    <3>2. Found(f) \in 1 .. Len(sessions)
      BY <1>t, <3>1, FoundPlace DEF Types
    <3> QED BY <1>t, <3>1, <3>2, SessionChange DEF Types
  <2> QED BY <2>1, <2>2 DEF StartSessions, Forbidden
<1>8. /\ winbox' \in Seq(WorkerMessage(Fds)) /\ held' \in {"no", "control", "worker"}
      /\ owner' \in [Fds -> Owner] /\ \A g \in Fds : owner'[g] = owner[g]
  BY <1>t, <1>1 DEF Types, ServerType
<1>9. Receives(f, c, Asked[cstate[c]])
  BY <1>2, <1>3
<1>10. CASE UNCHANGED <<toClient, cedge>>
  BY <1>1, <1>7, <1>8, <1>9, <1>10, EventKeeps
<1>11. CASE \E r \in Messages : Reply(c, r) /\ cstate[c] \in DOMAIN Expected
                                /\ r = Expected[cstate[c]]
  <2>1. PICK r \in Messages : Reply(c, r) /\ cstate[c] \in DOMAIN Expected
                              /\ r = Expected[cstate[c]]
    BY <1>11
  <2> QED BY <1>1, <1>7, <1>8, <1>9, <2>1, EventKeeps
<1> QED BY <1>6, <1>10, <1>11

\* Messages for the worker.
LEMMA ToWorkerType ==
    ASSUME ServerType, NEW m \in WorkerMessage(Fds), ToWorker(m)
    PROVE  winbox' \in Seq(WorkerMessage(Fds))
<1>1. winbox \in Seq(WorkerMessage(Fds))
  BY DEF ServerType
<1>2. Append(winbox, m) \in Seq(WorkerMessage(Fds))
  BY <1>1, AppendProperties
<1> QED BY <1>1, <1>2 DEF ToWorker

\* A session is stopped, or the lock is taken by the worker.
LEMMA StopSessionsKeeps ==
    ASSUME ServerInv, NEW f \in Fds, NEW c \in Clients, StopSessions(f, c)
    PROVE  ServerInv'
<1>t. Types /\ TablesInv /\ StepInv
  BY DEF ServerInv
<1>0. Event(f, "Monitor") /\ Receives(f, c, "StopSessions")
  BY DEF StopSessions
<1>1. CASE LockFails(f)
  BY <1>0, <1>1, ConnectionClosedKeeps DEF LockFails, Messages
<1>2. CASE ~ LockFails(f)
  <2> DEFINE w == [kind |-> "Clean", fd |-> None]
  <2>1. /\ ToWorker(w) /\ held' = "control" /\ thread' = "stopping" /\ replyFd' = f
        /\ UNCHANGED <<cedge, toClient, sessions, owner, polled, ready, wsources>>
    BY <1>2 DEF StopSessions
  <2>2. w \in WorkerMessage(Fds)
    BY DEF WorkerMessage
  <2> HIDE DEF w
  <2>3. winbox' \in Seq(WorkerMessage(Fds))
    BY <1>t, <2>1, <2>2, ToWorkerType DEF Types
  <2>4. /\ f \in batch /\ batch' = batch \ {f}
        /\ UNCHANGED <<cstate, running, left, inbox, backlog>>
    BY <1>0, EventEffect
  <2>5. Receives(f, c, Asked[cstate[c]])
    BY <1>t, <1>0, ReceivedIsAsked
  <2>6. /\ sessions' \in Seq(ControlSession) /\ Len(sessions') = Len(sessions)
        /\ \A i \in 1 .. Len(sessions) : sessions'[i].id = sessions[i].id
        /\ owner' \in [Fds -> Owner] /\ \A g \in Fds : owner'[g] = owner[g]
    BY <1>t, <2>1 DEF Types, ServerType
  <2> QED BY <2>1, <2>3, <2>4, <2>5, <2>6, EventKeeps
<1> QED BY <1>1, <1>2

\* A socket is made for a session whose client is waiting for nothing else, or the
\* lock is taken by the worker.
LEMMA RequestTwSessionKeeps ==
    ASSUME ServerInv, NEW f \in Fds, NEW c \in Clients, RequestTwSession(f, c)
    PROVE  ServerInv'
<1>t. Types /\ TablesInv /\ StepInv
  BY DEF ServerInv
<1>0. Event(f, "Monitor") /\ Receives(f, c, "RequestTwSession") /\ Free # {}
  BY DEF RequestTwSession
<1>1. CASE LockFails(f)
  BY <1>0, <1>1, ConnectionClosedKeeps DEF LockFails, Messages
<1>2. CASE ~ LockFails(f)
  <2> DEFINE u == Lowest(Free)
             w == [kind |-> "Register", fd |-> u]
  <2>1. /\ ToWorker(w) /\ held' = "control" /\ thread' = "accepting" /\ replyFd' = f
        /\ owner' = IF worker = "alive" THEN [owner EXCEPT ![u] = <<"udp", c>>] ELSE owner
        /\ UNCHANGED <<cedge, toClient, sessions, polled, ready, wsources>>
    BY <1>2 DEF RequestTwSession
  <2>2. u \in Fds /\ owner[u] = None
    BY <1>t, <1>0, LowestIsFree DEF Types, Free
  <2> HIDE DEF u
  <2>3. w \in WorkerMessage(Fds)
    BY <2>2 DEF WorkerMessage
  <2> HIDE DEF w
  <2>4. winbox' \in Seq(WorkerMessage(Fds))
    BY <1>t, <2>1, <2>3, ToWorkerType DEF Types
  <2>5. /\ f \in batch /\ batch' = batch \ {f}
        /\ UNCHANGED <<cstate, running, left, inbox, backlog>>
    BY <1>0, EventEffect
  <2>6. Receives(f, c, Asked[cstate[c]]) /\ cstate[c] = "AwaitingSessionAcceptance"
    <3>1. cstate[c] \in DOMAIN Asked /\ "RequestTwSession" = Asked[cstate[c]]
      BY <1>t, <1>0, ReceivedIsAsked
    <3>2. cstate[c] = "AwaitingSessionAcceptance"
      BY <3>1 DEF Asked
    <3> QED BY <1>0, <3>1, <3>2
  <2>7. /\ sessions' \in Seq(ControlSession) /\ Len(sessions') = Len(sessions)
        /\ \A i \in 1 .. Len(sessions) : sessions'[i].id = sessions[i].id
    BY <1>t, <2>1 DEF Types, ServerType
  <2>8. /\ owner' \in [Fds -> Owner]
        /\ \A g \in Fds : \/ owner'[g] = owner[g]
                          \/ owner[g] = None /\ owner'[g] = <<"udp", c>>
    BY <1>t, <2>1, <2>2 DEF Types, ServerType, Owner
  <2> QED BY <2>1, <2>4, <2>5, <2>6, <2>7, <2>8, EventKeeps
<1> QED BY <1>1, <1>2

\* The worker's steps: it closes what is in its table and in its channel, by number.
LEMMA WorkerKeeps == ASSUME ServerInv, WorkerThread PROVE ServerInv'
<1>t. Types /\ TablesInv /\ StepInv
  BY DEF ServerInv
<1>0. /\ UNCHANGED <<cstate, running, toClient, toServer, left, sessions, thread, inbox,
                     batch, replyFd, backlog>>
  BY DEF WorkerThread, WorkerRegister, WorkerPublish, WorkerDies, WorkerClean,
         WorkerReceives, clientVars, streamVars, controlVars, kernelVars
<1>1. batch' \subseteq batch /\ toServer' \in [Clients -> Seq(Messages)]
  BY <1>t, <1>0 DEF Types, StreamType
<1>2. winbox \in Seq(WorkerMessage(Fds)) /\ wsources \subseteq Fds
      /\ held \in {"no", "control", "worker"}
  BY <1>t DEF Types, ServerType
<1>3. winbox # <<>> => Tail(winbox) \in Seq(WorkerMessage(Fds))
                       /\ Head(winbox) \in WorkerMessage(Fds)
  BY <1>2, HeadAndTail
<1>4. \A m \in WorkerMessage(Fds) : m.kind = "Register" => m.fd \in Fds
  BY DEF WorkerMessage
<1>5. CASE WorkerRegister
  <2>1. /\ winbox # <<>> /\ Head(winbox).kind = "Register" /\ winbox' = Tail(winbox)
        /\ wsources' = wsources \cup {Head(winbox).fd} /\ held' = "worker"
        /\ UNCHANGED <<cedge, owner, polled, ready>>
    BY <1>5 DEF WorkerRegister, WorkerReceives
  <2>2. Close({}) /\ {} \in SUBSET Fds
    BY <1>t, <2>1, CloseNothing
  <2>3. winbox' \in Seq(WorkerMessage(Fds)) /\ wsources' \subseteq Fds
    BY <1>2, <1>3, <1>4, <2>1
  <2> QED BY <1>0, <1>1, <2>1, <2>2, <2>3, CloseKeeps
<1>6. CASE WorkerPublish
  <2>1. held' = "no" /\ UNCHANGED <<cedge, owner, polled, ready, winbox, wsources>>
    BY <1>6 DEF WorkerPublish, streamVars, kernelVars
  <2>2. Close({}) /\ {} \in SUBSET Fds
    BY <1>t, <2>1, CloseNothing
  <2> QED BY <1>0, <1>1, <1>2, <2>1, <2>2, CloseKeeps
<1>7. CASE WorkerDies
  <2> DEFINE F == wsources \cup {m.fd : m \in {x \in ToSet(winbox) : x.kind = "Register"}}
  <2>1. winbox' = <<>> /\ wsources' = {} /\ held' = held /\ Close(F)
    BY <1>7 DEF WorkerDies
  <2>2. ToSet(winbox) \subseteq WorkerMessage(Fds)
    BY <1>2, SequenceRange
  <2>3. F \in SUBSET Fds
    BY <1>2, <1>4, <2>2
  <2>4. winbox' \in Seq(WorkerMessage(Fds)) /\ wsources' \subseteq Fds
    BY <2>1, OneMessage
  <2> HIDE DEF F
  <2> QED BY <1>0, <1>1, <1>2, <2>1, <2>3, <2>4, CloseKeeps
<1>8. CASE WorkerClean
  <2>1. /\ winbox # <<>> /\ winbox' = Tail(winbox) /\ Close(wsources)
        /\ UNCHANGED <<wsources, held>>
    BY <1>8 DEF WorkerClean, WorkerReceives
  <2> QED BY <1>0, <1>1, <1>2, <1>3, <2>1, CloseKeeps
<1> QED BY <1>5, <1>6, <1>7, <1>8 DEF WorkerThread

-----------------------------------------------------------------------------
(* The theorems.                                                           *)

\* Before anything has happened.
LEMMA InitInv == Init => ServerInv
<1> SUFFICES ASSUME Init PROVE ServerInv
  OBVIOUS
<1>1. PICK limit \in Limits : owner = [f \in 1 .. limit |-> None]
  BY DEF Init
<1>2. Fds = 1 .. limit /\ limit \in Nat
  BY <1>1, SettingsAssumption DEF Fds
<1>3. Fds \subseteq Nat \ {0} /\ owner \in [Fds -> Owner] /\ \A f \in Fds : owner[f] = None
  BY <1>1, <1>2 DEF Owner
<1>4. \A c \in Clients : None # <<"tcp", c>>
  BY NoneAssumption
<1>5. /\ \A S : <<>> \in Seq(S)
      /\ Len(<<>>) = 0 /\ 1 .. 0 = {}
  OBVIOUS
<1>6. backlog = <<>> /\ sessions = <<>> /\ inbox = <<>> /\ winbox = <<>>
  BY DEF Init
<1>7. Types
  <2>1. StreamType
    BY <1>5 DEF Init, StreamType, SenderSessionState
  <2>2. ServerType
    BY <1>3, <1>5 DEF Init, ServerType
  <2> QED BY <2>1, <2>2 DEF Types
<1>8. ToSet(backlog) = {} /\ ToSet(inbox) = {}
  <2>1. ToSet(<<>>) = {<<>>[i] : i \in 1 .. Len(<<>>)}
    BY <1>5, SequenceRange
  <2> QED BY <1>5, <1>6, <2>1
<1>9. TablesInv
  <2>1. ConnectedOnce
    BY <1>3, <1>4, <1>5, <1>6 DEF ConnectedOnce
  <2>2. PolledOpen
    BY <1>8 DEF PolledOpen, Init
  <2> QED BY <2>1, <2>2 DEF TablesInv
<1>10. StepInv
  BY <1>8 DEF Init, StepInv, Turns, Accepting
<1> QED BY <1>7, <1>9, <1>10 DEF ServerInv

\* A step that changes nothing.
LEMMA StutterKeeps == ASSUME ServerInv, UNCHANGED vars PROVE ServerInv'
<1>0. UNCHANGED <<cstate, running, cedge, toClient, toServer, left, backlog, owner,
                  sessions, thread, inbox, polled, ready, batch, replyFd, winbox,
                  wsources, held>>
  BY DEF vars, clientVars, streamVars, controlVars, kernelVars, workerVars
<1>1. Types'
  BY <1>0 DEF ServerInv, Types, StreamType, ServerType, Fds
<1>2. TablesInv'
  BY <1>0 DEF ServerInv, TablesInv, ConnectedOnce, PolledOpen, Fds
<1>3. StepInv'
  BY <1>0 DEF ServerInv, StepInv, Turns, Accepting, Connection, Fds
<1> QED BY <1>1, <1>2, <1>3 DEF ServerInv

\* Every step of every process keeps the invariant.
LEMMA NextInv == ServerInv /\ [Next]_vars => ServerInv'
<1> SUFFICES ASSUME ServerInv, [Next]_vars PROVE ServerInv'
  OBVIOUS
<1>1. CASE UNCHANGED vars
  BY <1>1, StutterKeeps
<1>2. CASE ControlThread
  <2>0. CASE Listen
    BY <2>0, ListenKeeps
  <2>1. CASE HandleRegister
    BY <2>1, HandleRegisterKeeps
  <2>2. CASE Poll \/ EndOfBatch
    BY <2>2, PollKeeps
  <2>3. CASE Accept
    BY <2>3, AcceptKeeps
  <2>4. CASE AcceptFails
    BY <2>4, AcceptFailsKeeps
  <2>5. CASE Unlock
    BY <2>5, UnlockKeeps
  <2>6. ASSUME NEW f \in Fds, ReceiveEof(f) PROVE ServerInv'
    <3>1. (Event(f, "Negotiation") \/ Event(f, "Monitor")) /\ CloseConnection(f)
          /\ UNCHANGED toServer
      BY <2>6 DEF ReceiveEof
    <3> QED BY <3>1, ConnectionClosedKeeps
  <2>7. ASSUME NEW f \in Fds, ReceiveError(f) PROVE ServerInv'
    BY <2>7, ReceiveErrorKeeps
  <2>8. ASSUME NEW f \in Fds, NEW c \in Clients,
               Negotiation(f, c) \/ StartSessions(f, c) \/ Forbidden(f, c)
        PROVE  ServerInv'
    BY <2>8, AnswersKeep
  <2>9. ASSUME NEW f \in Fds, NEW c \in Clients, StopSessions(f, c) PROVE ServerInv'
    BY <2>9, StopSessionsKeeps
  <2>10. ASSUME NEW f \in Fds, NEW c \in Clients, RequestRefused(f, c) PROVE ServerInv'
    <3>1. Event(f, "Monitor") /\ Receives(f, c, "RequestTwSession") /\ CloseConnection(f)
      BY <2>10 DEF RequestRefused
    <3> QED BY <3>1, ConnectionClosedKeeps DEF Messages
  <2>11. ASSUME NEW f \in Fds, NEW c \in Clients, RequestTwSession(f, c) PROVE ServerInv'
    BY <2>11, RequestTwSessionKeeps
  <2> QED BY <1>2, <2>0, <2>1, <2>2, <2>3, <2>4, <2>5, <2>6, <2>7, <2>8, <2>9, <2>10, <2>11
          DEF ControlThread
<1>3. CASE WorkerThread
  BY <1>3, WorkerKeeps
<1>4. ASSUME NEW c \in Clients, Client(c) PROVE ServerInv'
  BY <1>4, ConnectKeeps, ClientAnswersKeeps, ClientReadsKeeps, ClientStopsKeeps,
     LeaveKeeps DEF Client
<1>5. CASE Idle
  BY <1>5, StutterKeeps DEF Idle
<1> QED BY <1>1, <1>2, <1>3, <1>4, <1>5 DEF Next

\* The invariant in every state.
LEMMA ServerInvariant == Spec => []ServerInv
  BY InitInv, NextInv, PTL DEF Spec

\* The types, that a client has one connection at most whatever numbers the two
\* threads close and the kernel gives out again, and that only open descriptors
\* are polled.
THEOREM TypeCorrect == Spec => []TypeOK
<1>1. ServerInv => TypeOK
  <2> SUFFICES ASSUME ServerInv PROVE TypeOK
    OBVIOUS
  <2>1. Types /\ ConnectedOnce /\ PolledOpen
    BY DEF ServerInv, TablesInv
  <2>2. \A i \in DOMAIN sessions : sessions[i].state \in {"Negotiation", "Monitor"}
    <3>1. \A i \in DOMAIN sessions : sessions[i] \in ControlSession
      BY <2>1, ElementOfSeq, LenProperties DEF Types, ServerType
    <3> QED BY <3>1 DEF ControlSession
  <2>3. ASSUME NEW c \in Clients PROVE Cardinality(Connection(c)) <= 1
    <3>1. CASE Connection(c) = {}
      BY <3>1, FS_EmptySet
    <3>2. CASE Connection(c) # {}
      <4>1. PICK f \in Connection(c) : TRUE
        BY <3>2
      <4>2. Connection(c) = {f}
        BY <2>1 DEF Connection, ConnectedOnce
      <4>3. Cardinality({f}) = 1
        BY FS_Singleton
      <4> QED BY <4>2, <4>3
    <3> QED BY <3>1, <3>2
  <2>4. /\ cstate \in [Clients -> SenderSessionState]
        /\ \A c \in Clients : toClient[c] \in Seq(Messages) /\ toServer[c] \in Seq(Messages)
        /\ left \in [Clients -> {"no", "fin", "rst"}]
        /\ running \subseteq Clients /\ cedge \subseteq Clients
    BY <2>1 DEF Types, StreamType
  <2> QED BY <2>1, <2>2, <2>3, <2>4 DEF TypeOK, Types, ServerType, PolledOpen
<1> QED BY <1>1, ServerInvariant, PTL

\* A connection is polled only while there is a session for its number, although
\* the number is polled some steps after the session is made.
THEOREM SessionForPolled == Spec => []SessionFound
<1>1. ServerInv => SessionFound
  <2> SUFFICES ASSUME ServerInv, NEW f \in polled PROVE Found(f) # 0
    BY DEF SessionFound
  <2>1. \E i \in 1 .. Len(sessions) : sessions[i].id = f
    BY DEF ServerInv, TablesInv, PolledOpen
  <2> QED BY <2>1, FoundPlace DEF ServerInv, Types
<1> QED BY <1>1, ServerInvariant, PTL

\* No client and no session ever reads a message for another: the messages, which
\* carry no tag, are under way one at a time, whatever the worker closes.
THEOREM MessagesInStep == Spec => []InStep
<1>1. ServerInv => InStep
  <2> SUFFICES ASSUME ServerInv, NEW c \in Clients
               PROVE  /\ toClient[c] # <<>> => /\ cstate[c] \in DOMAIN Expected
                                               /\ toClient[c] = <<Expected[cstate[c]]>>
                      /\ Len(toServer[c]) <= 1
                      /\ toServer[c] # <<>> => toClient[c] = <<>>
    BY DEF InStep
  <2>1. Turns(c)
    BY DEF ServerInv, StepInv
  <2>2. PICK m : toServer[c] = <<>> \/ toServer[c] = <<m>>
    BY <2>1 DEF Turns
  <2>3. Len(<<>>) = 0 /\ Len(<<m>>) = 1
    OBVIOUS
  <2>4. Len(toServer[c]) = 0 \/ Len(toServer[c]) = 1
    BY <2>2, <2>3, Zenon
  <2>5. Len(toServer[c]) <= 1
    <3>1. \A n : n = 0 \/ n = 1 => n <= 1
      OBVIOUS
    <3> QED BY <2>4, <3>1, Zenon
  <2> QED BY <2>1, <2>5 DEF Turns
<1> QED BY <1>1, ServerInvariant, PTL

=============================================================================
